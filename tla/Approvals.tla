----------------------------- MODULE Approvals -----------------------------
(***************************************************************************)
(* The table pending_approvals (src/src/store/store.ts), which two         *)
(* components write: the gate of a mutating tool call asks the owner for   *)
(* one action ("action" rows), the browser part of the OAuth flow asks for *)
(* one authorization ("oauth" rows).  Every operation below is one         *)
(* synchronous statement or a SELECT and the statement that depends on it, *)
(* so it is atomic in the daemon.                                          *)
(*                                                                         *)
(* A row is [kind, subject, epoch, status, late].  The subject is what the *)
(* row was created for: the principal and the digest of an action, or the  *)
(* authorization request.  late is expires_at < now: time is not modelled, *)
(* a row becomes late at some moment and stays late.                       *)
(***************************************************************************)
EXTENDS Naturals, Sequences, FiniteSetsExt

CONSTANT MaxRows        \* bound: rows the table ever holds

ASSUME RowsAssumption == MaxRows \in Nat

VARIABLE approvals      \* the rows, in the order of created_at

ApprovalStatus == {"pending", "approved", "denied", "consumed"}

(* The one way a row is created: pending, its lifetime ahead of it.        *)
NewApproval(kind, subject, epoch) ==
  [kind |-> kind, subject |-> subject, epoch |-> epoch,
   status |-> "pending", late |-> FALSE]

RoomForRow == Len(approvals) < MaxRows

(* A row the gate can find: approved, or pending and not late (a late      *)
(* pending row reads as expired, a late approved one does not).            *)
Findable(row) == row.status = "approved" \/ (row.status = "pending" /\ ~row.late)

Matching(subject) ==
  {i \in DOMAIN approvals : /\ approvals[i].kind = "action"
                            /\ approvals[i].subject = subject
                            /\ Findable(approvals[i])}

(* ORDER BY created_at DESC: the newest match, or 0.                       *)
FindAction(subject) == IF Matching(subject) = {} THEN 0 ELSE Max(Matching(subject))

WithStatus(i, status) == [approvals EXCEPT ![i].status = status]

(* setApprovalStatus: its three UPDATEs have these WHERE clauses.          *)
CanApprove(i) == approvals[i].status = "pending" /\ ~approvals[i].late
CanDeny(i)    == approvals[i].status \in {"pending", "approved"}
CanConsume(i) == approvals[i].status = "approved" /\ ~approvals[i].late

(* The owner, over the private socket.                                     *)
OwnerApproves(i) == CanApprove(i) /\ approvals' = WithStatus(i, "approved")
OwnerDenies(i)   == CanDeny(i) /\ approvals' = WithStatus(i, "denied")

(* Its lifetime runs out.                                                  *)
ApprovalExpires(i) ==
  /\ approvals[i].status \in {"pending", "approved"}
  /\ ~approvals[i].late
  /\ approvals' = [approvals EXCEPT ![i].late = TRUE]
=============================================================================
