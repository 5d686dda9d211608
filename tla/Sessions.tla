------------------------------ MODULE Sessions ------------------------------
(***************************************************************************)
(* The platform sessions of one user: internal/session with its PostgreSQL *)
(* store, the handlers that call it (login, reauthentication, logout,      *)
(* device management) and the provisioner that activates, deactivates and  *)
(* deletes the user on behalf of a SCIM connector.                         *)
(*                                                                         *)
(* A handler takes the clock once and reads before it opens the            *)
(* transaction that writes, so a call is two steps: the first fixes its    *)
(* time and what it has read, the second is the transaction.  The clock,   *)
(* other calls and revocations run in between.                             *)
(*                                                                         *)
(* A session is the row with its number, numbers being creation_order; its *)
(* credential is a number too, and only the latest one opens it.           *)
(***************************************************************************)
EXTENDS Naturals, Sequences, FiniteSets

CONSTANTS Slots,        \* calls that can be in flight together
          MaxActive,    \* Policy.MaxActiveSessions
          Idle,         \* Policy.IdleTimeout, in ticks
          Absolute,     \* Policy.AbsoluteLifetime
          Fresh,        \* Policy.HighRiskFreshness
          ClientKeys,   \* Idempotency-Key headers the connector sends
          MaxTime,      \* bound on the clock
          MaxSessions,  \* bound on sessions ever created
          MaxIssued,    \* bound on credentials ever issued
          MaxProvisions \* bound on lifecycle requests answered

ASSUME SessionsAssumption ==
  /\ {MaxActive, Idle, Absolute, Fresh} \subseteq Nat \ {0}
  /\ Idle <= Absolute                                   \* session.New
  /\ {MaxTime, MaxSessions, MaxIssued, MaxProvisions} \subseteq Nat

VARIABLES now,         \* the clock
          rows,        \* platform_sessions, in creation order
          revokedUpTo, \* 1 + platform_session_subject_states.revoked_before; 0: no row
          issued,      \* credentials issued so far
          calls,       \* the calls in flight
          user,        \* users.active and the resource's tombstone
          applied,     \* identity_lifecycle_idempotency: <<key, operation>>
          late,        \* history: sessions touched after they had gone idle
          loggedOut    \* history: sessions a logout was confirmed for

sessionVars == <<rows, revokedUpTo, issued, late, loggedOut>>
userVars    == <<user, applied>>
vars == <<now, sessionVars, calls, userVars>>

Row == [cred: 1..MaxIssued, auth: 0..MaxTime, mfa: BOOLEAN, last: 0..MaxTime,
        ends: Nat, gen: Nat \ {0}, revoked: BOOLEAN, reauth: BOOLEAN]
Ids  == DOMAIN rows
Free == [kind |-> "free"]

\* record.activeAt
ActiveAt(r, at) == ~r.revoked /\ at < r.ends /\ at < r.last + Idle

\* load by credential digest: the session it opens, or none
Opened(cred) == {i \in Ids : rows[i].cred = cred}

\* The sessions create's transaction counts, as of the time of its call.
CountedAt(at) == {i \in Ids : ActiveAt(rows[i], at)}

Revoked(ids) == [i \in Ids |-> IF i \in ids /\ ~rows[i].revoked
                               THEN [rows[i] EXCEPT !.revoked = TRUE, !.gen = @ + 1]
                               ELSE rows[i]]

Call(c, call) == calls' = [calls EXCEPT ![c] = call]
Return(c)     == Call(c, Free)

-----------------------------------------------------------------------------
(* Login.  The user was found active and, for a federated login, the ID     *)
(* token carries an auth_time the adapter accepts; then Establish.          *)
Evidence == {a \in 0..now : now < a + Fresh}

StartLogin(c, mfa, auth) ==
  /\ calls[c] = Free /\ user.active
  /\ mfa \/ auth = now
  /\ Call(c, [kind |-> "login", at |-> now, auth |-> auth, mfa |-> mfa])
  /\ UNCHANGED <<now, sessionVars, userVars>>

\* Mutant: evidence is never compared with the revocation.
AcceptsAny(auth) == auth <= now
\* rejectStaleEvidence
Accepts(auth) == auth >= revokedUpTo

\* The eviction loop of create: the oldest counted sessions, until there is room.
\* Mutant: one session more than fits is kept.
EvictedOne(ids) == {i \in ids : Cardinality({j \in ids : j >= i}) > MaxActive}
Evicted(ids)    == {i \in ids : Cardinality({j \in ids : j >= i}) >= MaxActive}

NewRow(call, cred) ==
  [cred |-> cred, auth |-> call.auth, mfa |-> call.mfa, last |-> call.at,
   ends |-> call.at + Absolute, gen |-> 1, revoked |-> FALSE,
   reauth |-> FALSE]

\* create's transaction, under the user's row lock
Create(c) ==
  LET call == calls[c] IN
  /\ call.kind = "login" /\ Return(c)
  /\ IF Accepts(call.auth)
     THEN /\ Len(rows) < MaxSessions /\ issued < MaxIssued
          /\ rows' = Append(Revoked(Evicted(CountedAt(call.at))), NewRow(call, issued + 1))
          /\ issued' = issued + 1
     ELSE UNCHANGED <<rows, issued>>
  /\ UNCHANGED <<now, revokedUpTo, late, loggedOut, userVars>>

-----------------------------------------------------------------------------
(* Requests.  Authenticate loads the session, decides, and touches it under *)
(* the generation it loaded.                                                *)
Strong(i) == rows[i].mfa /\ now < rows[i].auth + Fresh

StartRequest(c, i) ==
  /\ calls[c] = Free /\ ActiveAt(rows[i], now)
  /\ Call(c, [kind |-> "request", at |-> now, id |-> i, gen |-> rows[i].gen])
  /\ UNCHANGED <<now, sessionVars, userVars>>

CanTouch(call) == rows[call.id].gen = call.gen /\ ~rows[call.id].revoked /\ call.at < rows[call.id].ends

MarkLate(i) == IF ActiveAt(rows[i], now) THEN late ELSE late \union {i}

Touch(c) ==
  LET call == calls[c] IN
  /\ call.kind = "request" /\ Return(c)
  /\ IF CanTouch(call)
     THEN rows' = [rows EXCEPT ![call.id].last = call.at] /\ late' = MarkLate(call.id)
     ELSE UNCHANGED <<rows, late>>
  /\ UNCHANGED <<now, revokedUpTo, issued, loggedOut, userVars>>

(* Reauthentication.  It is offered to a federated session whose evidence   *)
(* is stale; its transaction is bound to the credential and consumed by the *)
(* callback (GETDEL).  One whose credential opens nothing any more can only *)
(* be refused, so the open transaction is kept with the row.                *)
StartReauthentication(i) ==
  /\ ActiveAt(rows[i], now) /\ rows[i].mfa /\ ~Strong(i) /\ user.active
  /\ rows' = [rows EXCEPT ![i].reauth = TRUE]
  /\ UNCHANGED <<now, revokedUpTo, issued, late, loggedOut, calls, userVars>>

CompleteReauthentication(c, i, auth) ==
  /\ calls[c] = Free /\ rows[i].reauth /\ ActiveAt(rows[i], now)
  /\ rows' = [rows EXCEPT ![i].reauth = FALSE]
  /\ IF user.active
     THEN Call(c, [kind |-> "rotate", at |-> now, cred |-> rows[i].cred, id |-> i,
                   gen |-> rows[i].gen, auth |-> auth])
     ELSE UNCHANGED calls
  /\ UNCHANGED <<now, revokedUpTo, issued, late, loggedOut, userVars>>

CanRotate(call) == /\ rows[call.id].cred = call.cred /\ rows[call.id].gen = call.gen
                   /\ ~rows[call.id].revoked

Rotated(r, call, cred) ==
  [cred |-> cred, auth |-> call.auth, mfa |-> TRUE, last |-> call.at,
   ends |-> r.ends, gen |-> call.gen + 1, revoked |-> FALSE, reauth |-> FALSE]

\* rotate's transaction: the session keeps its number and its end
Rotate(c) ==
  LET call == calls[c] IN
  /\ call.kind = "rotate" /\ Return(c)
  /\ IF Accepts(call.auth) /\ CanRotate(call)
     THEN /\ issued < MaxIssued
          /\ rows' = [rows EXCEPT ![call.id] = Rotated(@, call, issued + 1)]
          /\ issued' = issued + 1 /\ late' = MarkLate(call.id)
     ELSE UNCHANGED <<rows, issued, late>>
  /\ UNCHANGED <<now, revokedUpTo, loggedOut, userVars>>

-----------------------------------------------------------------------------
(* Revocation.                                                              *)

\* handleLogout: Authenticate touches the session, if active, and gives a
\* reference to it, which it also gives when the touch comes too late
StartLogout(c, i) ==
  /\ calls[c] = Free /\ ~rows[i].revoked
  /\ LET ref == ActiveAt(rows[i], now) IN
     /\ Call(c, [kind |-> "logout", cred |-> rows[i].cred, id |-> i, ref |-> ref])
     /\ rows' = IF ref THEN [rows EXCEPT ![i].last = now] ELSE rows
  /\ UNCHANGED <<now, revokedUpTo, issued, late, loggedOut, userVars>>

\* revokeCurrent: by the reference when there is one, else by the digest
\* Mutant: logout never goes by the reference.
CurrentByDigest(call) == Opened(call.cred)
Current(call)         == IF call.ref THEN {call.id} ELSE Opened(call.cred)

RevokeCurrent(c) ==
  LET call == calls[c] IN
  /\ call.kind = "logout" /\ Return(c)
  /\ rows' = Revoked(Current(call))
  /\ loggedOut' = IF call.ref THEN loggedOut \union {call.id} ELSE loggedOut
  /\ UNCHANGED <<now, revokedUpTo, issued, late, userVars>>

\* RevokeManaged loads the caller's session, then its transaction fences on it
StartRevokeManaged(c, i, target) ==
  /\ calls[c] = Free /\ ActiveAt(rows[i], now)
  /\ Call(c, [kind |-> "managed", at |-> now, cred |-> rows[i].cred, id |-> i, target |-> target])
  /\ UNCHANGED <<now, sessionVars, userVars>>

RevokeManaged(c) ==
  LET call == calls[c] IN
  /\ call.kind = "managed" /\ Return(c)
  /\ rows' = IF /\ call.id \in Opened(call.cred) /\ ActiveAt(rows[call.id], call.at)
                /\ call.target # call.id /\ ActiveAt(rows[call.target], call.at)
             THEN Revoked({call.target}) ELSE rows
  /\ UNCHANGED <<now, revokedUpTo, issued, late, loggedOut, userVars>>

StartRevokeSubject(c, i) ==
  /\ calls[c] = Free /\ ActiveAt(rows[i], now)
  /\ Call(c, [kind |-> "subject", at |-> now, cred |-> rows[i].cred])
  /\ UNCHANGED <<now, sessionVars, userVars>>

Watermark(at) == IF at + 1 > revokedUpTo THEN at + 1 ELSE revokedUpTo       \* GREATEST

\* revokeSubject, under the user's row lock
RevokeSubject(c) ==
  LET call == calls[c] IN
  /\ call.kind = "subject" /\ Return(c)
  /\ IF \E i \in Opened(call.cred) : ActiveAt(rows[i], call.at)
     THEN rows' = Revoked(Ids) /\ revokedUpTo' = Watermark(call.at)
     ELSE UNCHANGED <<rows, revokedUpTo>>
  /\ UNCHANGED <<now, issued, late, loggedOut, userVars>>

-----------------------------------------------------------------------------
(* Provisioner.Apply: one transaction per key, whose answer is kept and     *)
(* given again to a request with the same key.  The key is the request's    *)
(* header or, without one, a hash of the command.                           *)
Operations == {"activate", "deactivate", "delete"}

KeyFor(op) == ClientKeys \union (IF ClientKeys = {} THEN {op} ELSE {})

\* applyDelete
Tombstone == [active |-> FALSE, deleted |-> TRUE]

\* applyUpdate; reactivating clears the tombstone.
Applied(op) ==
  CASE op = "activate"   -> [active |-> TRUE, deleted |-> FALSE]
    [] op = "deactivate" -> [user EXCEPT !.active = FALSE]
    [] op = "delete"     -> Tombstone

\* a tombstone refuses any update but the one that activates it
Refused(op) == user.deleted /\ op = "deactivate"

Provision(op, key) ==
  /\ \/ /\ Cardinality(applied) < MaxProvisions /\ ~\E e \in applied : e[1] = key
        /\ ~Refused(op)
        /\ user' = Applied(op) /\ applied' = applied \union {<<key, op>>}
     \/ /\ <<key, op>> \in applied
        /\ UNCHANGED userVars
  /\ UNCHANGED <<now, sessionVars, calls>>

Tick ==
  /\ now < MaxTime /\ now' = now + 1
  /\ UNCHANGED <<sessionVars, calls, userVars>>

-----------------------------------------------------------------------------
Init ==
  /\ now = 0 /\ rows = <<>> /\ revokedUpTo = 0 /\ issued = 0
  /\ calls = [c \in Slots |-> Free]
  /\ user \in {[active |-> ~gone, deleted |-> gone] : gone \in BOOLEAN} /\ applied = {}
  /\ late = {} /\ loggedOut = {}

CallSteps(c) ==
  \/ \E mfa \in BOOLEAN, auth \in Evidence : StartLogin(c, mfa, auth)
  \/ \E i \in Ids, auth \in Evidence : CompleteReauthentication(c, i, auth)
  \/ \E i \in Ids : StartRequest(c, i) \/ StartLogout(c, i) \/ StartRevokeSubject(c, i)
  \/ \E i, target \in Ids : StartRevokeManaged(c, i, target)
  \/ Create(c) \/ Touch(c) \/ Rotate(c)
  \/ RevokeCurrent(c) \/ RevokeManaged(c) \/ RevokeSubject(c)

Next ==
  \/ \E c \in Slots : CallSteps(c)
  \/ \E i \in Ids : StartReauthentication(i)
  \/ \E op \in Operations : \E key \in KeyFor(op) : Provision(op, key)
  \/ Tick

Spec == Init /\ [][Next]_vars

-----------------------------------------------------------------------------
TypeOK ==
  /\ now \in 0..MaxTime /\ issued \in 0..MaxIssued /\ revokedUpTo \in 0..MaxTime + 1
  /\ rows \in Seq(Row) /\ Len(rows) <= MaxSessions
  /\ late \subseteq Ids /\ loggedOut \subseteq Ids
  /\ \A i, j \in Ids : rows[i].cred = rows[j].cred => i = j
  /\ \A i \in Ids : /\ rows[i].auth <= rows[i].last        \* the table's CHECKs
                    /\ rows[i].last < rows[i].ends
  /\ user \in [active : BOOLEAN, deleted : BOOLEAN]
  /\ user.deleted => ~user.active   \* in any order of requests and replays

(* A confirmed logout ends the session the caller was in, whatever         *)
(* rotation, touch or eviction ran between its two calls of the manager:   *)
(* a reauthentication that gave the session another credential meanwhile   *)
(* does not keep it alive.                                                 *)
LogoutEndsSession == \A i \in loggedOut : rows[i].revoked

(* After all sessions of the user were revoked, none rests on a sign-in    *)
(* from before: a login or reauthentication that was on its way when the   *)
(* revocation committed is refused.                                        *)
NoSessionFromBeforeRevocation == \A i \in Ids : ~rows[i].revoked => rows[i].auth >= revokedUpTo

(* At most MaxActive sessions are active (F-07 of the identity profile),   *)
(* logins and rotations overlapping as they may.  A session that had gone  *)
(* idle and came back, because the request that touched it was slower than *)
(* the idle timeout, is the one exception: no eviction counted it.         *)
ActiveWithinLimit == Cardinality({i \in Ids \ late : ActiveAt(rows[i], now)}) <= MaxActive
=============================================================================
