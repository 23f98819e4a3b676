------------------------------- MODULE Resources -------------------------------
(***************************************************************************)
(* The content-addressed store of services/resources: objects are files,   *)
(* their rows and the references to them live in SQLite, and several       *)
(* runtimes (or processes) ingest, collect and clean up at the same time.  *)
(*                                                                         *)
(* An ingest is a chain of steps with awaits between them; a crash may end *)
(* it anywhere, also between the file and the row.  Ages are "young" and   *)
(* "old": the hour of grace.  An ingest is assumed to take less than that  *)
(* hour.  Quotas, ranges, cursors, types and the staging directory are     *)
(* left out.                                                               *)
(***************************************************************************)
EXTENDS Naturals, FiniteSets

CONSTANTS
    Ingest,      \* the concurrent ingests
    Content,     \* what they store: hashes
    None,
    MaxRefs,     \* bound: references to one object
    MaxMishaps   \* bound: crashes and failed inserts

IngestRow == [of : Content, pc : {"staged", "claimed", "linked", "exists", "found", "committed"}]

ResourcesAssumption ==
    /\ MaxRefs \in Nat /\ MaxMishaps \in Nat
    /\ None \notin {"young", "old"} \cup IngestRow

VARIABLES
    file,      \* objectsDir: the age of each object's file
    object,    \* resource_objects: the age of verified_at
    refs,      \* resource_refs: how many name each object
    ingest,    \* where each ingest is
    adopted,   \* history: objects whose row was written for a file found there
    mishaps

casVars == <<file, object, refs, ingest, adopted, mishaps>>

Age == {None, "young", "old"}

ResourcesTypeOK ==
    /\ file \in [Content -> Age] /\ object \in [Content -> Age]
    /\ refs \in [Content -> 0 .. MaxRefs]
    /\ ingest \in [Ingest -> {None} \cup IngestRow]
    /\ adopted \subseteq Content

ResourcesInit ==
    /\ file = [h \in Content |-> None] /\ object = [h \in Content |-> None]
    /\ refs = [h \in Content |-> 0]
    /\ ingest = [p \in Ingest |-> None]
    /\ adopted = {} /\ mishaps = 0

At(p, pc) == ingest[p] # None /\ ingest[p].pc = pc
Of(p) == ingest[p].of
Goto(p, pc) == ingest' = [ingest EXCEPT ![p].pc = pc]
Done(p) == ingest' = [ingest EXCEPT ![p] = None]

-----------------------------------------------------------------------------
(* An ingest.                                                                *)

\* The bytes are staged, synced and hashed.
Stage(p, h) ==
    /\ ingest[p] = None
    /\ ingest' = [ingest EXCEPT ![p] = [of |-> h, pc |-> "staged"]]
    /\ UNCHANGED <<file, object, refs, adopted, mishaps>>

\* Broken: a known object is verified without renewing its lease.
ClaimUnleased(p) ==
    /\ At(p, "staged") /\ object[Of(p)] # None
    /\ Goto(p, "claimed")
    /\ UNCHANGED <<file, object, refs, adopted, mishaps>>

\* A known object's lease is renewed before its file is verified.
ClaimContent(p) ==
    /\ At(p, "staged") /\ object[Of(p)] # None
    /\ object' = [object EXCEPT ![Of(p)] = "young"]
    /\ Goto(p, "claimed")
    /\ UNCHANGED <<file, refs, adopted, mishaps>>

\* verify: a missing file fails the ingest.
VerifyClaimed(p) ==
    /\ At(p, "claimed")
    /\ IF file[Of(p)] = None THEN Done(p) ELSE Goto(p, "committed")
    /\ UNCHANGED <<file, object, refs, adopted, mishaps>>

\* link(): publishes the file, or finds one.
Link(p) ==
    /\ At(p, "staged") /\ object[Of(p)] = None
    /\ IF file[Of(p)] = None
       THEN file' = [file EXCEPT ![Of(p)] = "young"] /\ Goto(p, "linked")
       ELSE Goto(p, "exists") /\ UNCHANGED file
    /\ UNCHANGED <<object, refs, adopted, mishaps>>

VerifyExisting(p) ==
    /\ At(p, "exists")
    /\ IF file[Of(p)] = None THEN Done(p) ELSE Goto(p, "found")
    /\ UNCHANGED <<file, object, refs, adopted, mishaps>>

\* INSERT OR IGNORE.
Insert(p) ==
    /\ At(p, "linked") \/ At(p, "found")
    /\ object' = [object EXCEPT ![Of(p)] = IF @ = None THEN "young" ELSE @]
    /\ adopted' = IF At(p, "found") /\ object[Of(p)] = None THEN adopted \cup {Of(p)} ELSE adopted
    /\ Goto(p, "committed")
    /\ UNCHANGED <<file, refs, mishaps>>

\* The quota trigger: the one who published the file takes it back.
InsertFails(p) ==
    /\ At(p, "linked") \/ At(p, "found")
    /\ object[Of(p)] = None /\ mishaps < MaxMishaps
    /\ file' = IF At(p, "linked") THEN [file EXCEPT ![Of(p)] = None] ELSE file
    /\ mishaps' = mishaps + 1
    /\ Done(p)
    /\ UNCHANGED <<object, refs, adopted>>

\* createReference, whose foreign key needs the row; the limit per client.
Reference(p) ==
    /\ At(p, "committed")
    /\ refs' = IF object[Of(p)] # None /\ refs[Of(p)] < MaxRefs
                THEN [refs EXCEPT ![Of(p)] = @ + 1] ELSE refs
    /\ Done(p)
    /\ UNCHANGED <<file, object, adopted, mishaps>>

-----------------------------------------------------------------------------
(* Collection, cleaning, crashes.                                            *)

Orphans == {h \in Content : object[h] = "old" /\ refs[h] = 0}

\* gc: by its timer, after a failed ingest, after an expired lookup.
Collect ==
    /\ file' = [h \in Content |-> IF h \in Orphans THEN None ELSE file[h]]
    /\ object' = [h \in Content |-> IF h \in Orphans THEN None ELSE object[h]]
    /\ adopted' = adopted \ Orphans

\* Broken: rows whose object nobody refers to are collected at any age.
CollectYoung ==
    LET gone == {h \in Content : object[h] # None /\ refs[h] = 0}
    IN  /\ file' = [h \in Content |-> IF h \in gone THEN None ELSE file[h]]
        /\ object' = [h \in Content |-> IF h \in gone THEN None ELSE object[h]]
        /\ adopted' = adopted \ gone

Gc == Orphans # {} /\ Collect /\ UNCHANGED <<refs, ingest, mishaps>>

\* A failed inspection after the object was committed ends with a collection.
InspectFails(p) ==
    /\ At(p, "committed")
    /\ Done(p) /\ Collect
    /\ UNCHANGED <<refs, mishaps>>

\* The process dies after files were removed, before the transaction commits.
GcCrash ==
    /\ Orphans # {} /\ mishaps < MaxMishaps
    /\ file' = [h \in Content |-> IF h \in Orphans THEN None ELSE file[h]]
    /\ mishaps' = mishaps + 1
    /\ \E died \in SUBSET Ingest :
         ingest' = [p \in Ingest |-> IF p \in died THEN None ELSE ingest[p]]
    /\ UNCHANGED <<object, refs, adopted>>

\* The constructor of a runtime's store: old files without a row.
CleanUp ==
    /\ \E h \in Content : file[h] = "old" /\ object[h] = None
    /\ file' = [h \in Content |-> IF file[h] = "old" /\ object[h] = None THEN None ELSE file[h]]
    /\ UNCHANGED <<object, refs, ingest, adopted, mishaps>>

Crash(p) ==
    /\ ingest[p] # None /\ mishaps < MaxMishaps
    /\ mishaps' = mishaps + 1
    /\ Done(p)
    /\ UNCHANGED <<file, object, refs, adopted>>

Expire(h) ==
    /\ refs[h] > 0
    /\ refs' = [refs EXCEPT ![h] = @ - 1]
    /\ UNCHANGED <<file, object, ingest, adopted, mishaps>>

\* A read verifies the object, which renews its lease.
Read(h) ==
    /\ refs[h] > 0 /\ file[h] # None /\ object[h] = "old"
    /\ object' = [object EXCEPT ![h] = "young"]
    /\ UNCHANGED <<file, refs, ingest, adopted, mishaps>>

Aged(m) == [h \in Content |-> IF m[h] = None THEN None ELSE "old"]

Hour ==
    /\ \A p \in Ingest : ingest[p] = None \/ At(p, "staged")
    /\ file' = Aged(file) /\ object' = Aged(object)
    /\ UNCHANGED <<refs, ingest, adopted, mishaps>>

ResourcesNext ==
    \/ Gc \/ GcCrash \/ CleanUp \/ Hour
    \/ \E h \in Content : Expire(h) \/ Read(h) \/ \E p \in Ingest : Stage(p, h)
    \/ \E p \in Ingest : \/ ClaimContent(p) \/ VerifyClaimed(p) \/ Link(p) \/ VerifyExisting(p)
                         \/ Insert(p) \/ InsertFails(p) \/ Reference(p) \/ InspectFails(p) \/ Crash(p)

ResourcesSpec == ResourcesInit /\ [][ResourcesNext]_casVars

-----------------------------------------------------------------------------
(* Properties.                                                               *)

\* What a reference names, and what an ingest has committed and is about to
\* refer to, is there: neither the collector nor a failed or dead ingest of the
\* same bytes takes it away.  A row written for a file that was found, and that
\* somebody else was about to remove, is the one exception.
ReferencesResolve ==
    \A h \in Content \ adopted :
        (refs[h] > 0 \/ \E p \in Ingest : At(p, "committed") /\ Of(p) = h)
            => object[h] # None /\ file[h] # None
=============================================================================
