----------------------------- MODULE MediaSources -----------------------------
(* Open media (multimodal/mediaService.ts, storage.ts): a private copy of a  *)
(* workspace file in a directory of its own, and the jobs that read it, each *)
(* with a directory for its results.  Clients open and close sources while   *)
(* the sweep ends the expired ones; each waits a while for the jobs it       *)
(* cancels.                                                                  *)
EXTENDS Naturals, FiniteSets

CONSTANTS
    Source,
    Limit,       \* sources at a time (8 in the code)
    MaxClosers   \* closings of one source that wait at once

MediaAssumption == IsFiniteSet(Source) /\ Limit \in Nat /\ MaxClosers \in Nat

VARIABLES
    service,     \* "open", "closing" or "closed"
    source,      \* "none", "copying", "probing" (open() waits for its first job), "open" or "gone"
    listed,      \* the sources in the map
    job,         \* the job of each: "none", "running", "ended", or "dropped" from the map
    copies,      \* the sources whose copy's directory is there
    results,     \* those whose job's directory is there
    bytes,       \* what the cache is accounted for, in sources of one size
    closers,     \* the calls that close each source and wait for its jobs
    sweep        \* the sources the sweep found expired, which it drops at its end

mediaVars == <<service, source, listed, job, copies, results, bytes, closers, sweep>>

Copying == {s \in Source : source[s] \in {"copying", "probing"}}
Released == IF bytes > 0 THEN bytes - 1 ELSE 0

MediaInit ==
    /\ service = "open"
    /\ source = [s \in Source |-> "none"] /\ listed = {}
    /\ job = [s \in Source |-> "none"]
    /\ copies = {} /\ results = {} /\ bytes = 0
    /\ closers = [s \in Source |-> 0] /\ sweep = {}

-----------------------------------------------------------------------------

\* Broken: only those in the map are counted.
InUseListed == Cardinality(listed)
InUse == Cardinality(listed) + Cardinality(Copying)

Open(s) ==
    /\ service = "open" /\ source[s] = "none" /\ InUse < Limit
    /\ source' = [source EXCEPT ![s] = "copying"]
    /\ copies' = copies \cup {s} /\ bytes' = bytes + 1
    /\ UNCHANGED <<service, listed, job, results, closers, sweep>>

\* The file changed under the copy, or the service closed.
CopyFails(s) ==
    /\ source[s] = "copying"
    /\ source' = [source EXCEPT ![s] = "gone"]
    /\ copies' = copies \ {s} /\ bytes' = Released
    /\ UNCHANGED <<service, listed, job, results, closers, sweep>>

\* The source is in the map, and its first job runs.
Copied(s) ==
    /\ source[s] = "copying" /\ service = "open"
    /\ source' = [source EXCEPT ![s] = "probing"] /\ listed' = listed \cup {s}
    /\ job' = [job EXCEPT ![s] = "running"] /\ results' = results \cup {s}
    /\ UNCHANGED <<service, copies, bytes, closers, sweep>>

Opened(s) ==
    /\ source[s] = "probing" /\ s \in listed
    /\ source' = [source EXCEPT ![s] = "open"]
    /\ UNCHANGED <<service, listed, job, copies, results, bytes, closers, sweep>>

\* The source went while its job was waited for.  The job stays in the map,
\* with its directory.
OpenFails(s) ==
    /\ source[s] = "probing"
    /\ source' = [source EXCEPT ![s] = "gone"] /\ listed' = listed \ {s}
    /\ copies' = copies \ {s} /\ bytes' = Released
    /\ UNCHANGED <<service, job, results, closers, sweep>>

Exit(s) ==
    /\ job[s] = "running"
    /\ job' = [job EXCEPT ![s] = "ended"]
    /\ UNCHANGED <<service, source, listed, copies, results, bytes, closers, sweep>>

\* The results are taken into the cache and their directory goes.
Report(s) ==
    /\ service = "open" /\ s \in listed /\ job[s] = "ended" /\ s \in results
    /\ results' = results \ {s}
    /\ UNCHANGED <<service, source, listed, job, copies, bytes, closers, sweep>>

\* Another job, when the last one has been reported.
Extract(s) ==
    /\ service = "open" /\ s \in listed /\ job[s] = "ended" /\ s \notin results
    /\ job' = [job EXCEPT ![s] = "running"] /\ results' = results \cup {s}
    /\ UNCHANGED <<service, source, listed, copies, bytes, closers, sweep>>

\* A closing call finds the source, cancels its job and waits.
CloseSource(s) ==
    /\ service = "open" /\ s \in listed /\ source[s] = "open" /\ closers[s] < MaxClosers
    /\ closers' = [closers EXCEPT ![s] = @ + 1]
    /\ UNCHANGED <<service, source, listed, job, copies, results, bytes, sweep>>

\* Broken: the jobs of a source keep their directories.
GoneAlone(s) ==
    /\ listed' = listed \ {s} /\ copies' = copies \ {s}
    /\ job' = [job EXCEPT ![s] = "dropped"]
    /\ UNCHANGED results

\* A source leaves with its jobs and all directories.
Gone(s) ==
    /\ listed' = listed \ {s} /\ copies' = copies \ {s}
    /\ job' = [job EXCEPT ![s] = "dropped"]
    /\ results' = results \ {s}

\* The job has ended, or had a second to.
CloseDone(s) ==
    /\ closers[s] > 0
    /\ closers' = [closers EXCEPT ![s] = @ - 1]
    /\ Gone(s) /\ bytes' = Released
    /\ source' = [source EXCEPT ![s] = IF @ = "open" THEN "gone" ELSE @]
    /\ UNCHANGED <<service, sweep>>

\* The expired sources are taken down before anything is waited for.
Sweep(s) ==
    /\ service = "open" /\ sweep = {} /\ s \in listed
    /\ sweep' = {s}
    /\ UNCHANGED <<service, source, listed, job, copies, results, bytes, closers>>

Swept(s) ==
    /\ s \in sweep
    /\ sweep' = {}
    /\ Gone(s) /\ bytes' = Released
    /\ source' = [source EXCEPT ![s] = IF @ = "open" THEN "gone" ELSE @]
    /\ UNCHANGED <<service, closers>>

\* An expired job goes without its source too.
SweepJob(s) ==
    /\ service = "open" /\ s \notin listed /\ job[s] = "ended"
    /\ job' = [job EXCEPT ![s] = "dropped"] /\ results' = results \ {s}
    /\ UNCHANGED <<service, source, listed, copies, bytes, closers, sweep>>

Close ==
    /\ service = "open"
    /\ service' = "closing"
    /\ UNCHANGED <<source, listed, job, copies, results, bytes, closers, sweep>>

\* The sweep is awaited, the jobs have ended or had two seconds, and all
\* directories go.
Closed ==
    /\ service = "closing" /\ sweep = {}
    /\ service' = "closed"
    /\ listed' = {} /\ copies' = {} /\ results' = {} /\ bytes' = 0
    /\ UNCHANGED <<source, job, closers, sweep>>

MediaNext ==
    \/ \E s \in Source : \/ Open(s) \/ CopyFails(s) \/ Copied(s) \/ Opened(s) \/ OpenFails(s)
                         \/ Exit(s) \/ Report(s) \/ Extract(s) \/ CloseSource(s) \/ CloseDone(s)
                         \/ Sweep(s) \/ Swept(s) \/ SweepJob(s)
    \/ Close \/ Closed

MediaSpec == MediaInit /\ [][MediaNext]_mediaVars

-----------------------------------------------------------------------------
MediaTypeOK ==
    /\ service \in {"open", "closing", "closed"}
    /\ source \in [Source -> {"none", "copying", "probing", "open", "gone"}]
    /\ job \in [Source -> {"none", "running", "ended", "dropped"}]
    /\ listed \cup copies \cup results \cup sweep \subseteq Source
    /\ bytes \in 0 .. Cardinality(Source)
    /\ closers \in [Source -> 0 .. MaxClosers]

\* Every directory belongs to a copy that is being made, to a source or to a
\* job that is known, so that somebody removes it, however closing calls, the
\* sweep and open() cross; no more sources are taken than there is room for.
MediaKept ==
    /\ copies \subseteq listed \cup Copying
    /\ results \subseteq {s \in Source : job[s] \in {"running", "ended"}}
    /\ Cardinality(listed \cup Copying) <= Limit

\* The cache is accounted for what it holds.  It does not hold: two calls that
\* close one source, or one and the sweep, give its bytes back twice.
BytesAccounted == service = "open" =>
    bytes = Cardinality(listed \cup {s \in Source : source[s] = "copying"})
=============================================================================
