-------------------------- MODULE MCChangeJournal --------------------------
(* A small instance: three paths, two contents, plans of one or two steps  *)
(* that between them use every operation.                                  *)
EXTENDS ChangeJournal, TLC

CONSTANTS a, b, d, v1, v2, i1, i2

MCPath == {a, b, d}
MCContent == {v1, v2}
MCDir == {i1, i2}
MCStartDisk == [x \in MCPath |-> IF x = a THEN v1 ELSE Absent]

S(op, x, y, pre, post) ==
    [op |-> op, path |-> x, dest |-> y, before |-> pre, after |-> post]

ModifyCreate == <<S("modify", a, a, v1, v2), S("create", b, b, Absent, v1)>>
MoveOut      == <<S("move", a, b, v1, v1)>>
DeleteAll    == <<S("delete", b, b, v1, Absent), S("modify", a, a, v2, v1)>>
MakeDir      == <<S("mkdir", d, d, Absent, Unknown), S("delete", a, a, v1, Absent)>>
RemoveDir    == <<S("rmdir", d, d, i1, Absent), S("create", a, a, Absent, v2)>>

MCPlan == {ModifyCreate, MoveOut, DeleteAll, MakeDir, RemoveDir}

\* Fewer plans for the temporal run, which cannot use symmetry.
MCLivePlan == {ModifyCreate, MoveOut}

Symmetry == Permutations(Changeset)
=============================================================================
