----------------------------- MODULE MCDispatch -----------------------------
(* One client whose grant makes three calls: an edit, its retry under the  *)
(* same key, and a command; or the same edit three times.                  *)
EXTENDS Dispatch, TLC

CONSTANTS app, f1, c1, c2, c3, k1, k2, edit, command

ClientOf0 == f1 :> app
FirstAccess0 == app :> Scope
Lists0 == {Scope, {"read"}}
Requested0 == f1 :> Scope

TheEdit == [grant |-> f1, key |-> k1, action |-> edit, class |-> "mutate-files"]
TheCommand == [grant |-> f1, key |-> k2, action |-> command, class |-> "exec"]
\* The edit, twice again: what is answered to whoever keeps asking.
Request1 == c1 :> TheEdit @@ c2 :> TheEdit @@ c3 :> TheEdit
Request0 == c1 :> TheEdit @@ c2 :> TheEdit @@ c3 :> TheCommand

(* In Request0, c1 and c2 ask for the same.                                *)
Twins == Permutations({c1, c2})
=============================================================================
