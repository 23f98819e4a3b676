----------------------------- MODULE Authority -----------------------------
(***************************************************************************)
(* What a remote client may do (src/src/auth, src/src/security): clients   *)
(* the owner registered, authorization requests that the owner approves    *)
(* on the terminal, the grants they become, and the project's access level *)
(* and client access list, which are read again at every use.              *)
(*                                                                         *)
(* One authorization request (an interaction uid) gives at most one grant, *)
(* so the grant and its tokens are named by the request.  The protocol     *)
(* itself (redirects, codes, token formats) belongs to the oidc-provider   *)
(* library.                                                                *)
(***************************************************************************)
EXTENDS Approvals

CONSTANTS
  Client,          \* client ids the owner registers
  Flow,            \* authorization requests, hence grants
  ClientOf,        \* the client that makes a request
  Requested,       \* the scopes it asks for
  FirstAccess,     \* the access list the database already has
  MaxPendingOAuth, \* MAX_PENDING_OAUTH
  Lists, Levels,   \* bound: access lists and levels the owner picks from
  MaxPolicy        \* bound: changes of level, access list and access mode

Scope == {"read", "write", "exec"}
Level == {"unregistered", "read", "edit", "full"}

ASSUME FlowAssumption ==
  /\ ClientOf \in [Flow -> Client]
  /\ Requested \in [Flow -> SUBSET Scope]
  /\ FirstAccess \in [Client -> SUBSET Scope]
  /\ Lists \subseteq SUBSET Scope /\ Levels \subseteq Level
  /\ MaxPendingOAuth \in Nat
  /\ MaxPolicy \in Nat

VARIABLES
  clients,   \* oauth_clients: registered now
  consent,   \* per request: the stage of its completion
  granted,   \* grants: rows written
  revoked,   \* grants: rows with revoked_at
  token,     \* per grant: the access token the client holds
  access,    \* workspace_clients: scopes a client has in this workspace
  level,     \* project_registry.access_level of this workspace
  personal,  \* access mode: personal, or managed
  policies   \* policy changes so far (bound)

authVars == <<clients, consent, granted, revoked, token, access, level,
              personal, policies>>

InstallationEpoch == 0

AuthInit ==
  /\ clients = Client
  /\ consent = [f \in Flow |-> "none"]
  /\ granted = {} /\ revoked = {}
  /\ token = [f \in Flow |-> "none"]
  /\ access = FirstAccess
  /\ level = "full"
  /\ personal \in BOOLEAN
  /\ policies = 0

Ceiling ==
  CASE level = "read" -> {"read"}
    [] level = "edit" -> {"read", "write"}
    [] OTHER -> Scope

(* The grant a token names is still good: the row, its client, the token.  *)
Live(f) == /\ f \in granted \ revoked
           /\ ClientOf[f] \in clients
           /\ token[f] = "valid"

(* projectAuthority: every source of authority can only remove scopes.     *)
Effective(f) ==
  IF Live(f)
  THEN Requested[f] \cap Ceiling \cap (IF personal THEN Scope ELSE access[ClientOf[f]])
  ELSE {}

-----------------------------------------------------------------------------
RowOf(f) == {i \in DOMAIN approvals : approvals[i].kind = "oauth" /\ approvals[i].subject = f}

PendingOAuth == {i \in DOMAIN approvals :
                   /\ approvals[i].kind = "oauth"
                   /\ approvals[i].status = "pending" /\ ~approvals[i].late}

(* GET /interaction/:uid: the first visit asks the owner.                  *)
Visit(f) ==
  /\ ClientOf[f] \in clients
  /\ RowOf(f) = {}
  /\ Cardinality(PendingOAuth) < MaxPendingOAuth
  /\ RoomForRow
  /\ approvals' = Append(approvals, NewApproval("oauth", f, InstallationEpoch))
  /\ UNCHANGED authVars

(* POST /interaction/:uid/complete, to the await of grant.save(): the      *)
(* approval is spent before the client is looked up.                       *)
Complete(f) ==
  \E i \in RowOf(f) :
    /\ CanConsume(i)
    /\ approvals' = WithStatus(i, "consumed")
    /\ consent' = [consent EXCEPT ![f] =
                     IF ClientOf[f] \in clients THEN "saving" ELSE "refused"]
    /\ UNCHANGED <<clients, granted, revoked, token, access, level, personal, policies>>

(* Broken: the client is not looked up again after the await.              *)
GrantSavedBlindly(f) ==
  /\ consent[f] = "saving"
  /\ consent' = [consent EXCEPT ![f] = "granted"]
  /\ granted' = granted \cup {f}
  /\ UNCHANGED <<approvals, clients, revoked, token, access, level, personal, policies>>

(* After the await: a client deleted meanwhile gets no grant.              *)
GrantSaved(f) ==
  /\ consent[f] = "saving"
  /\ IF ClientOf[f] \in clients
     THEN /\ consent' = [consent EXCEPT ![f] = "granted"]
          /\ granted' = granted \cup {f}
     ELSE /\ consent' = [consent EXCEPT ![f] = "refused"]
          /\ UNCHANGED granted
  /\ UNCHANGED <<approvals, clients, revoked, token, access, level, personal, policies>>

(* The library exchanges a code or a refresh token for a signed access     *)
(* token.  The exchange may have begun before a revocation or a deletion.  *)
IssueToken(f) ==
  /\ f \in granted
  /\ token[f] # "valid"
  /\ token' = [token EXCEPT ![f] = "valid"]
  /\ UNCHANGED <<approvals, clients, consent, granted, revoked, access, level, personal, policies>>

TokenExpires(f) ==
  /\ token[f] = "valid"
  /\ token' = [token EXCEPT ![f] = "expired"]
  /\ UNCHANGED <<approvals, clients, consent, granted, revoked, access, level, personal, policies>>

(* auth.revoke.  Signed tokens stay in the client's hands.                 *)
Revoke(f) ==
  /\ f \in granted \ revoked
  /\ revoked' = revoked \cup {f}
  /\ UNCHANGED <<approvals, clients, consent, granted, token, access, level, personal, policies>>

GrantsOf(c) == {f \in granted : ClientOf[f] = c}

(* The rows one client is behind: its authorization requests, and the      *)
(* actions asked for under its grants.                                     *)
RowBelongsTo(row, c) ==
  \/ row.kind = "oauth" /\ ClientOf[row.subject] = c
  \/ row.kind = "action" /\ row.subject.grant \in GrantsOf(c)

(* deleteReviewedClients, one immediate transaction.  The owner may review *)
(* the client in any state and confirm at once, so the review hash does    *)
(* not restrict the states in which it runs.                               *)
DeleteClient(c) ==
  /\ c \in clients
  /\ approvals' = [i \in DOMAIN approvals |->
       IF RowBelongsTo(approvals[i], c) /\ CanDeny(i)
       THEN [approvals[i] EXCEPT !.status = "denied"]
       ELSE approvals[i]]
  /\ revoked' = revoked \cup GrantsOf(c)
  /\ access' = [access EXCEPT ![c] = {}]
  /\ clients' = clients \ {c}
  /\ UNCHANGED <<consent, granted, token, level, personal, policies>>

PolicyChange == policies < MaxPolicy /\ policies' = policies + 1

SetAccess(c, s) ==
  /\ PolicyChange /\ c \in clients /\ s # access[c]
  /\ access' = [access EXCEPT ![c] = s]
  /\ UNCHANGED <<approvals, clients, consent, granted, revoked, token, level, personal>>

SetLevel(l) ==
  /\ PolicyChange /\ l # level
  /\ level' = l
  /\ UNCHANGED <<approvals, clients, consent, granted, revoked, token, access, personal>>

SetAccessMode(p) ==
  /\ PolicyChange /\ p # personal
  /\ personal' = p
  /\ UNCHANGED <<approvals, clients, consent, granted, revoked, token, access, level>>

(* A restart forgets the completions under way, and nothing else here.     *)
ForgetCompletions ==
  consent' = [f \in Flow |-> IF consent[f] = "saving" THEN "refused" ELSE consent[f]]
=============================================================================
