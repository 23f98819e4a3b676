---------------------------- MODULE OwnerConfig ----------------------------
(* The owner's configuration, config.json: commands, the Config page and      *)
(* setup read it whole, change a part and write it back, each in a process of *)
(* its own or awaiting the credential store of the operating system; and a    *)
(* start of the daemon goes by what it reads.                                 *)
EXTENDS Naturals, FiniteSets

CONSTANTS
    None,
    MaxWriters,  \* bound: commands and requests of the page
    MaxCrashes   \* bound: processes that are killed

OwnerConfigAssumption ==
    MaxWriters \in Nat /\ None \notin 1 .. MaxWriters /\ MaxCrashes \in Nat

\* Commands and requests, numbered as they begin.
Writer == 1 .. MaxWriters

VARIABLES
    file,        \* [state, config]; state: none, empty, mixed or whole
    cred,        \* the credential store: None, token or mangled
    page,        \* writers that the daemon handles, in one thread
    at,          \* of a writer
    op,          \* what it does
    hand,        \* the configuration it has in hand
    fresh,       \* writers that have read the file since its last change (bytes and mtime)
    missed,      \* writers that saved since it read (for setup: until it looked again)
    late,        \* writers that saved since setup looked again
    savers,      \* writers of another field that have saved
    lost,        \* writers whose save was written over by one that had missed it
    overlapped,  \* a writer ended having missed a save, or removed what another was storing
    spoiled,     \* a store left something it could not read back
    deaths

fileVars == <<file, fresh, cred, savers, lost, overlapped, spoiled>>
writerVars == <<page, at, op, hand, missed, late>>
ownerVars == <<fileVars, writerVars, deaths>>

Mode == {"local", "external", "tunnel"}
Config == [mode : Mode, ref : {"none", "os", "file"}, origin : BOOLEAN, others : SUBSET Writer]
File == [state : {"none", "empty", "mixed", "whole"}, config : Config]
Doing == {"other", "setup", "origin", "token", "file", "nothing", "removal", "start"}
Defaults == [mode |-> "local", ref |-> "none", origin |-> FALSE, others |-> {}]

\* What a configuration needs for a start.
Complete(c) == (c.mode # "local" => c.origin) /\ (c.mode = "tunnel" => c.ref # "none")

-----------------------------------------------------------------------------

OwnerConfigInit ==
    /\ file = [state |-> "none", config |-> Defaults] /\ cred = None
    /\ page = {}
    /\ at = [w \in Writer |-> "idle"] /\ op = [w \in Writer |-> None]
    /\ hand = [w \in Writer |-> Defaults] /\ fresh = {}
    /\ missed = [w \in Writer |-> {}] /\ late = [w \in Writer |-> {}]
    /\ savers = {} /\ lost = {} /\ overlapped = FALSE /\ spoiled = FALSE /\ deaths = 0

\* Handlers of the page do not interleave, except where they await the store.
Busy(w) == at[w] \in {"ready", "opened", "saved"}
MayRun(w) == w \in page => \A v \in page \ {w} : ~Busy(v)

Over == {"done", "up", "refused", "dead"}
Goes(w, there) ==
    /\ at' = [at EXCEPT ![w] = there]
    /\ page' = IF there \in Over THEN page \ {w} ELSE page
Forget(ws) == hand' = [w \in Writer |-> IF w \in ws THEN Defaults ELSE hand[w]]

\* loadGlobalConfig: no file, the defaults; a file that cannot be parsed, an
\* error.
Readable == file.state \in {"none", "whole"}
Parsed == IF file.state = "whole" THEN file.config ELSE Defaults

\* A command, or a request of the page, begins by reading it.
Begins(w, inPage) ==
    /\ at[w] = "idle" /\ \A v \in 1 .. w - 1 : at[v] # "idle"
    /\ inPage => \A v \in page : ~Busy(v)
Loaded(w, inPage, o, c, there) ==
    /\ Readable /\ Begins(w, inPage)
    /\ at' = [at EXCEPT ![w] = there]
    /\ page' = IF inPage /\ there \notin Over THEN page \cup {w} ELSE page
    /\ op' = [op EXCEPT ![w] = o] /\ hand' = [hand EXCEPT ![w] = c]
    /\ fresh' = fresh \cup {w}
    /\ UNCHANGED <<file, cred, savers, lost, overlapped, spoiled, missed, late, deaths>>

Unreadable(w) ==
    /\ ~Readable /\ Begins(w, FALSE)
    /\ Goes(w, "refused")
    /\ UNCHANGED <<fileVars, op, hand, missed, late, deaths>>

\* Limits, language servers, the startup project, the administrator's fields;
\* and setup, which enters language servers.
LoadOther(w) ==
    /\ at[w] = "idle"
    /\ \E inPage \in BOOLEAN, o \in {"other", "setup"} :
       /\ o = "setup" => ~inPage
       /\ Loaded(w, inPage, o, [Parsed EXCEPT !.others = @ \cup {w}], "ready")

\* The public origin.
LoadOrigin(w) ==
    /\ at[w] = "idle"
    /\ \E inPage \in BOOLEAN : Loaded(w, inPage, "origin", [Parsed EXCEPT !.origin = TRUE], "ready")

\* `dodo tunnel configure`, and its form in the page, which knows no token
\* files and gives no origin.  A token is stored before anything is saved.
LoadTunnel(w) ==
    /\ at[w] = "idle"
    /\ \E mode \in Mode, gives \in {"token", "file", "nothing", "removal"}, url, inPage \in BOOLEAN :
       /\ inPage => gives \in {"token", "nothing"} /\ ~url
       /\ mode = "local" => ~url
       /\ mode = "external" => gives \in {"nothing", "removal"}
       /\ LET origin == Parsed.origin \/ url
              stores == gives = "token" /\ (inPage => mode = "tunnel")
              ref == CASE gives = "removal" -> "none" [] gives = "file" -> "file"
                       [] OTHER -> Parsed.ref
              c == [mode |-> mode, ref |-> ref, origin |-> origin, others |-> Parsed.others] IN
          \/ /\ mode # "local" => origin
             /\ stores \/ Complete(c)
             /\ Loaded(w, inPage, gives, c, IF stores THEN "storing" ELSE "ready")
          \/ /\ \/ mode # "local" /\ ~origin
                \/ ~stores /\ ~Complete(c)
             /\ Loaded(w, inPage, None, Defaults, "refused")

\* The operating system takes the token, refuses it, or keeps something else
\* under its name; what is kept is read back, and removed if it is not the
\* token.
Put(w) ==
    /\ at[w] = "storing" /\ MayRun(w)
    /\ \/ cred' = "token" /\ Goes(w, "stored") /\ UNCHANGED spoiled
       \/ cred' = "mangled" /\ Goes(w, "stored") /\ spoiled' = TRUE
       \/ Goes(w, "refused") /\ UNCHANGED <<cred, spoiled>>
    /\ UNCHANGED <<file, fresh, savers, lost, overlapped, op, hand, missed, late, deaths>>
ReadBack(w) ==
    /\ at[w] = "stored" /\ MayRun(w)
    /\ IF cred = "token"
       THEN Goes(w, "ready") /\ hand' = [hand EXCEPT ![w].ref = "os"] /\ UNCHANGED <<cred, spoiled>>
       ELSE Goes(w, "refused") /\ cred' = None /\ spoiled' = TRUE /\ Forget({w})
    /\ UNCHANGED <<file, fresh, savers, lost, overlapped, op, missed, late, deaths>>

\* saveGlobalConfig truncates the file and writes it; two writers at once can
\* leave the end of the longer text behind the shorter.
Truncate(w) ==
    /\ at[w] = "ready" /\ op[w] \notin {"setup", "start"}
    /\ file' = [state |-> "empty", config |-> Defaults] /\ fresh' = {}
    /\ Goes(w, "opened")
    /\ UNCHANGED <<cred, savers, lost, overlapped, spoiled, op, hand, missed, late, deaths>>

\* What the others have in hand now misses this save, and this save what others
\* have saved since it read.
Missing(w) ==
    LET gets(v) == v # w /\ at[v] \in {"storing", "stored", "ready", "checked", "opened", "saved"} IN
    /\ missed' = [v \in Writer |-> IF gets(v) /\ at[v] # "checked" THEN missed[v] \cup {w}
                                   ELSE IF v = w /\ op[w] # "removal" THEN {} ELSE missed[v]]
    /\ late' = [v \in Writer |-> IF gets(v) /\ at[v] = "checked" THEN late[v] \cup {w}
                                 ELSE IF v = w THEN {} ELSE late[v]]
Saved(w) ==
    /\ Missing(w)
    /\ lost' = lost \cup missed[w]
    /\ overlapped' = (overlapped \/ missed[w] # {})
    /\ savers' = IF op[w] = "other" THEN savers \cup {w} ELSE savers

Write(w) ==
    /\ at[w] = "opened"
    /\ \/ file' = [state |-> "whole", config |-> hand[w]]
       \/ file.state \in {"whole", "mixed"} /\ file' = [state |-> "mixed", config |-> Defaults]
    /\ fresh' = {}
    /\ Goes(w, IF op[w] = "removal" THEN "saved" ELSE "done")
    /\ Saved(w) /\ Forget({w})
    /\ UNCHANGED <<cred, spoiled, op, deaths>>

\* The credential goes when nothing refers to it any more.
Remove(w) ==
    /\ at[w] = "saved"
    /\ cred' = None
    /\ overlapped' = \/ overlapped \/ missed[w] # {}
                     \/ \E v \in Writer : op[v] = "token" /\ at[v] \in {"stored", "ready", "opened"}
    /\ Goes(w, "done")
    /\ UNCHANGED <<file, fresh, savers, lost, spoiled, op, hand, missed, late, deaths>>

\* Setup writes a file aside, looks whether what it has read is still there,
\* and renames.  A writer that has the old file open writes into nothing.
LookAgain(w) ==
    /\ at[w] = "ready" /\ op[w] = "setup"
    /\ IF w \in fresh THEN Goes(w, "checked") /\ UNCHANGED hand
       ELSE Goes(w, "refused") /\ Forget({w})
    /\ UNCHANGED <<fileVars, op, missed, late, deaths>>
RenameOver(w) ==
    /\ at[w] = "checked"
    /\ LET open == {v \in Writer : at[v] = "opened"} IN
          /\ file' = [state |-> "whole", config |-> hand[w]] /\ fresh' = {}
          /\ at' = [v \in Writer |-> IF v \in open \cup {w} THEN "done" ELSE at[v]]
          /\ page' = page \ open
          /\ Missing(w) /\ Forget(open \cup {w})
          /\ lost' = lost \cup missed[w] \cup late[w] \cup open
    /\ overlapped' = (overlapped \/ missed[w] \cup late[w] # {})
    /\ savers' = savers \cup {w}
    /\ UNCHANGED <<cred, spoiled, op, deaths>>

\* A start of the daemon: it needs a complete configuration, and the
\* credential, or it closes again.
LoadStart(w) ==
    Loaded(w, FALSE, "start", Parsed, IF Complete(Parsed) THEN "ready" ELSE "refused")
Launch(w) ==
    /\ at[w] = "ready" /\ op[w] = "start"
    /\ Goes(w, IF hand[w].mode = "tunnel" /\ hand[w].ref = "os" /\ cred # "token" THEN "refused"
               ELSE "up")
    /\ UNCHANGED <<fileVars, op, hand, missed, late, deaths>>

\* A process is killed, and leaves what it has of the file; the owner removes a
\* file that cannot be read, and starts from the defaults.
Die(w) ==
    /\ at[w] \in {"storing", "stored", "ready", "opened", "saved", "checked"} /\ deaths < MaxCrashes
    /\ deaths' = deaths + 1
    /\ Goes(w, "dead") /\ Forget({w})
    /\ missed' = [missed EXCEPT ![w] = {}] /\ late' = [late EXCEPT ![w] = {}]
    /\ UNCHANGED <<fileVars, op>>
Discard ==
    /\ file.state \in {"empty", "mixed"} /\ \A w \in Writer : at[w] \notin {"ready", "opened"}
    /\ file' = [state |-> "none", config |-> Defaults] /\ fresh' = {}
    /\ savers' = {}
    /\ UNCHANGED <<cred, lost, overlapped, spoiled, writerVars, deaths>>

OwnerConfigNext ==
    \/ \E w \in Writer :
          \/ Unreadable(w) \/ LoadOther(w) \/ LoadOrigin(w) \/ LoadTunnel(w) \/ LoadStart(w)
          \/ Put(w) \/ ReadBack(w) \/ Truncate(w) \/ Write(w) \/ Remove(w)
          \/ LookAgain(w) \/ RenameOver(w) \/ Launch(w) \/ Die(w)
    \/ Discard

OwnerConfigSpec == OwnerConfigInit /\ [][OwnerConfigNext]_ownerVars

-----------------------------------------------------------------------------
(* Properties.                                                               *)

OwnerConfigTypeOK ==
    /\ file \in File
    /\ fresh \cup page \subseteq Writer
    /\ cred \in {None, "token", "mangled"}
    /\ op \in [Writer -> Doing \cup {None}]
    /\ at \in [Writer -> {"idle", "storing", "stored", "ready", "checked", "opened", "saved", "done",
                          "up", "refused", "dead"}]
    /\ hand \in [Writer -> Config]
    /\ missed \in [Writer -> SUBSET Writer] /\ late \in [Writer -> SUBSET Writer]
    /\ savers \cup lost \subseteq Writer /\ overlapped \in BOOLEAN /\ spoiled \in BOOLEAN

\* What a command has saved stays in the file, whatever fails or dies, unless one
\* that had read the file before writes it back.
SavesStay == file.state = "whole" => savers \subseteq file.config.others \cup lost

\* Setup writes over nothing that was saved before it looked for the second time.
SetupLooks == \A w \in Writer : at[w] = "checked" => missed[w] = {}

\* The file refers to a credential that is there, also when a command dies
\* between its steps, unless a store went wrong or two changes overlapped.
RefBacked ==
    file.state = "whole" /\ file.config.ref = "os" => cred = "token" \/ spoiled \/ overlapped

\* Whatever is lost between commands, what is in the file, and what a daemon
\* came up with, is complete.
FileComplete ==
    /\ file.state = "whole" => Complete(file.config)
    /\ \A w \in Writer : at[w] = "up" => Complete(hand[w])

OwnerConfigSound == SavesStay /\ SetupLooks /\ RefBacked /\ FileComplete
=============================================================================
