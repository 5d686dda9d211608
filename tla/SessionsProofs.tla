--------------------------- MODULE SessionsProofs ---------------------------
(***************************************************************************)
(* Proofs about Sessions, for every number of calls in flight, every       *)
(* policy and every bound.                                                 *)
(*                                                                         *)
(* The argument has three layers.  A step can only do so much to a row     *)
(* (Ages), which keeps what a call in flight remembers of a row true       *)
(* (CallsInv); with it the rows stay well formed (RowsInv); and on the     *)
(* rows rest the three promises of the manager.                            *)
(***************************************************************************)
EXTENDS Sessions, FiniteSetTheorems, SequenceTheorems, WellFoundedInduction, TLAPS

-----------------------------------------------------------------------------
(* The invariant.                                                          *)

LoginCalls   == [kind : {"login"}, at : 0..MaxTime, auth : 0..MaxTime, mfa : BOOLEAN]
RequestCalls == [kind : {"request"}, at : 0..MaxTime, id : Nat, gen : Nat]
RotateCalls  == [kind : {"rotate"}, at : 0..MaxTime, cred : Nat, id : Nat, gen : Nat,
                 auth : 0..MaxTime]
LogoutCalls  == [kind : {"logout"}, cred : Nat, id : Nat, ref : BOOLEAN]
ManagedCalls == [kind : {"managed"}, at : 0..MaxTime, cred : Nat, id : Nat, target : Nat]
SubjectCalls == [kind : {"subject"}, at : 0..MaxTime, cred : Nat]
CallTypes    == {Free} \cup LoginCalls \cup RequestCalls \cup RotateCalls
                       \cup LogoutCalls \cup ManagedCalls \cup SubjectCalls

Scalars ==
  /\ now \in 0..MaxTime /\ issued \in 0..MaxIssued /\ revokedUpTo \in 0..MaxTime + 1
  /\ late \subseteq Ids /\ loggedOut \subseteq Ids
RowsTyped == rows \in Seq(Row) /\ Len(rows) <= MaxSessions
UserTyped == /\ user \in [active : BOOLEAN, deleted : BOOLEAN]
             /\ user.deleted => ~user.active
CallsTyped == calls \in [Slots -> CallTypes]

\* Credentials are numbered as they are issued, a session has at most one and
\* no two share one; a row's times are in order.
Times(r, t) == r.auth <= r.last /\ r.last < r.ends /\ r.last <= t
Distinct    == \A i, j \in Ids : rows[i].cred = rows[j].cred => i = j
RowsInv     == /\ Distinct
               /\ \A i \in Ids : rows[i].cred <= issued /\ Times(rows[i], now)

\* What a call in flight remembers of the rows rs at time t: a request that
\* loaded the generation a row still has loaded its evidence too, and a
\* rotation was begun before the end of the session.
LoginInv(call, t)       == call.auth <= call.at /\ call.at <= t
RequestInv(call, rs, t) == /\ call.id \in DOMAIN rs /\ call.at <= t
                           /\ call.gen <= rs[call.id].gen
                           /\ call.gen = rs[call.id].gen => rs[call.id].auth <= call.at
RotateInv(call, rs, t)  == /\ call.id \in DOMAIN rs /\ call.auth <= call.at /\ call.at <= t
                           /\ call.at < rs[call.id].ends
CallInv(call, rs, t) ==
  /\ call \in LoginCalls   => LoginInv(call, t)
  /\ call \in RequestCalls => RequestInv(call, rs, t)
  /\ call \in RotateCalls  => RotateInv(call, rs, t)
  /\ call \in LogoutCalls  => call.id \in DOMAIN rs
  /\ call \in ManagedCalls => call.id \in DOMAIN rs /\ call.target \in DOMAIN rs
  /\ call \in SubjectCalls => call.at <= t
CallsInv == \A c \in Slots : CallInv(calls[c], rows, now)

Shape == Scalars /\ RowsTyped /\ UserTyped /\ CallsTyped /\ RowsInv
SessionsInv == Shape /\ CallsInv

LEMMA BoundsTyped ==
  /\ MaxActive \in Nat \ {0} /\ Idle \in Nat \ {0} /\ Absolute \in Nat \ {0}
  /\ MaxTime \in Nat /\ MaxSessions \in Nat /\ MaxIssued \in Nat
  BY SessionsAssumption

\* SessionsInv says all that TypeOK says.
LEMMA ShapeIsTypeOK == ASSUME Shape PROVE TypeOK
  BY DEF Shape, Scalars, RowsTyped, UserTyped, RowsInv, Times, Distinct, TypeOK, Ids

LEMMA IdsAre == ASSUME RowsTyped PROVE /\ Ids = 1..Len(rows) /\ Len(rows) \in Nat
                                       /\ \A i \in Ids : rows[i] \in Row
  BY LenProperties, ElementOfSeq DEF RowsTyped, Ids

LEMMA IdsAreNext == ASSUME RowsTyped' PROVE \A i \in Ids' : rows'[i] \in Row
  BY LenProperties, ElementOfSeq DEF RowsTyped, Ids

-----------------------------------------------------------------------------
(* What a step may do to the rows.                                         *)

\* A row keeps its end; its evidence and its credential change only with its
\* generation, which never goes back; a revoked row stays revoked.
Aged(r, s) ==
  /\ s.ends = r.ends /\ s.gen >= r.gen
  /\ s.gen = r.gen => s.auth = r.auth /\ s.cred = r.cred
  /\ r.revoked => s.revoked

Ages == Ids \subseteq Ids' /\ \A i \in Ids : Aged(rows[i], rows'[i])

\* One row is revoked.
Closed(r) == [r EXCEPT !.revoked = TRUE, !.gen = @ + 1]

LEMMA ClosedRow ==
  ASSUME NEW r \in Row
  PROVE  /\ Closed(r) \in Row /\ Closed(r).revoked /\ Closed(r).gen = r.gen + 1
         /\ Closed(r).cred = r.cred /\ Closed(r).auth = r.auth
         /\ Closed(r).last = r.last /\ Closed(r).ends = r.ends
<1> DEFINE s == [r EXCEPT !.revoked = TRUE]
<1>1. s \in Row
  BY DEF Row
<1> HIDE DEF s
<1>2. [s EXCEPT !.gen = @ + 1] \in Row
  BY <1>1 DEF Row
<1>3. Closed(r) = [s EXCEPT !.gen = @ + 1]
  BY DEF s, Row, Closed
<1>4. Closed(r).revoked /\ Closed(r).gen = r.gen + 1
  BY DEF Row, Closed
<1>5. /\ Closed(r).cred = r.cred /\ Closed(r).auth = r.auth
      /\ Closed(r).last = r.last /\ Closed(r).ends = r.ends
  BY DEF Row, Closed
<1> QED BY <1>2, <1>3, <1>4, <1>5

\* A set of rows is revoked and nothing else about them changes.
LEMMA RevokedRows ==
  ASSUME RowsTyped, NEW ids
  PROVE  /\ Revoked(ids) \in Seq(Row) /\ Len(Revoked(ids)) = Len(rows)
         /\ DOMAIN Revoked(ids) = Ids
         /\ \A i \in Ids : /\ Aged(rows[i], Revoked(ids)[i])
                           /\ Revoked(ids)[i].revoked <=> rows[i].revoked \/ i \in ids
                           /\ Revoked(ids)[i].cred = rows[i].cred
                           /\ Revoked(ids)[i].auth = rows[i].auth
                           /\ Revoked(ids)[i].last = rows[i].last
                           /\ Revoked(ids)[i].ends = rows[i].ends
<1> DEFINE e(i) == IF i \in ids /\ ~rows[i].revoked THEN Closed(rows[i]) ELSE rows[i]
<1>1. Ids = 1..Len(rows) /\ Len(rows) \in Nat /\ \A i \in Ids : rows[i] \in Row
  BY IdsAre
<1>2. \A i \in 1..Len(rows) : e(i) \in Row
  BY <1>1, ClosedRow
<1>3. [i \in 1..Len(rows) |-> e(i)] \in Seq(Row)
  BY <1>1, <1>2, IsASeq
<1>4. Revoked(ids) = [i \in 1..Len(rows) |-> e(i)]
  BY <1>1 DEF Revoked, Closed
<1>5. \A i \in Ids : Revoked(ids)[i] = e(i)
  BY <1>1, <1>4
<1>6. DOMAIN Revoked(ids) = Ids /\ Len(Revoked(ids)) = Len(rows)
  BY <1>1, <1>3, <1>4, LenProperties
<1>7. \A i \in Ids : /\ Aged(rows[i], e(i))
                     /\ e(i).revoked <=> rows[i].revoked \/ i \in ids
                     /\ e(i).cred = rows[i].cred /\ e(i).auth = rows[i].auth
                     /\ e(i).last = rows[i].last /\ e(i).ends = rows[i].ends
  <2> SUFFICES ASSUME NEW i \in Ids
               PROVE  /\ Aged(rows[i], e(i))
                      /\ e(i).revoked <=> rows[i].revoked \/ i \in ids
                      /\ e(i).cred = rows[i].cred /\ e(i).auth = rows[i].auth
                      /\ e(i).last = rows[i].last /\ e(i).ends = rows[i].ends
    OBVIOUS
  <2>1. rows[i] \in Row /\ rows[i].gen \in Nat /\ rows[i].revoked \in BOOLEAN
    BY <1>1 DEF Row
  <2>2. CASE i \in ids /\ ~rows[i].revoked
    BY <2>1, <2>2, ClosedRow DEF Aged
  <2>3. CASE ~(i \in ids /\ ~rows[i].revoked)
    BY <2>1, <2>3 DEF Aged
  <2> QED BY <2>2, <2>3
<1> QED BY <1>3, <1>4, <1>5, <1>6, <1>7

\* What a call remembers stays true while the rows age and time goes on.
LEMMA RemembersOn ==
  ASSUME NEW rs, NEW ss, NEW t \in Nat, NEW u \in Nat, t <= u,
         DOMAIN rs \subseteq DOMAIN ss,
         \A i \in DOMAIN rs : rs[i] \in Row /\ ss[i] \in Row /\ Aged(rs[i], ss[i]),
         NEW call \in CallTypes, CallInv(call, rs, t)
  PROVE  CallInv(call, ss, u)
<1>1. CASE call \in LoginCalls
  <2>1. LoginInv(call, u)
    BY <1>1 DEF LoginInv, CallInv, LoginCalls
  <2> QED BY <1>1, <2>1 DEF CallInv, LoginCalls, RequestCalls, RotateCalls, LogoutCalls,
                            ManagedCalls, SubjectCalls
<1>2. CASE call \in RequestCalls
  <2>1. RequestInv(call, rs, t) /\ call.at \in Nat /\ call.gen \in Nat
    BY <1>2 DEF CallInv, RequestCalls
  <2>2. /\ rs[call.id].gen \in Nat /\ ss[call.id].gen \in Nat
        /\ Aged(rs[call.id], ss[call.id])
    BY <2>1 DEF RequestInv, Row
  <2>3. RequestInv(call, ss, u)
    BY <2>1, <2>2 DEF RequestInv, Aged
  <2> QED BY <1>2, <2>3 DEF CallInv, LoginCalls, RequestCalls, RotateCalls, LogoutCalls,
                            ManagedCalls, SubjectCalls
<1>3. CASE call \in RotateCalls
  <2>1. RotateInv(call, rs, t) /\ call.at \in Nat
    BY <1>3 DEF CallInv, RotateCalls
  <2>2. RotateInv(call, ss, u)
    BY <2>1 DEF RotateInv, Aged
  <2> QED BY <1>3, <2>2 DEF CallInv, LoginCalls, RequestCalls, RotateCalls, LogoutCalls,
                            ManagedCalls, SubjectCalls
<1>4. CASE call \in LogoutCalls \cup ManagedCalls \cup {Free}
  BY <1>4 DEF CallInv, LoginCalls, RequestCalls, RotateCalls, LogoutCalls,
              ManagedCalls, SubjectCalls, Free
<1>5. CASE call \in SubjectCalls
  BY <1>5 DEF CallInv, LoginCalls, RequestCalls, RotateCalls, LogoutCalls,
              ManagedCalls, SubjectCalls
<1> QED BY <1>1, <1>2, <1>3, <1>4, <1>5 DEF CallTypes

\* One call moves on; the others remember on.
LEMMA CallsGoOn ==
  ASSUME SessionsInv, RowsTyped', Ages, now' \in Nat, now <= now',
         NEW c \in Slots, NEW call \in CallTypes, Call(c, call),
         CallInv(call, rows', now')
  PROVE  CallsTyped' /\ CallsInv'
<1>1. CallsTyped /\ CallsInv /\ now \in Nat /\ RowsTyped
  BY DEF SessionsInv, Shape, Scalars
<1>2. calls' = [calls EXCEPT ![c] = call]
  BY DEF Call
<1>3. CallsTyped'
  BY <1>1, <1>2 DEF CallsTyped
<1>4. ASSUME NEW k \in Slots PROVE CallInv(calls'[k], rows', now')
  <2>1. CASE k = c
    BY <1>1, <1>2, <2>1 DEF CallsTyped
  <2>2. CASE k # c
    <3>1. calls'[k] = calls[k] /\ calls[k] \in CallTypes /\ CallInv(calls[k], rows, now)
      BY <1>1, <1>2, <2>2 DEF CallsTyped, CallsInv
    <3>2. DOMAIN rows \subseteq DOMAIN rows'
      BY DEF Ages, Ids
    <3>3. \A i \in DOMAIN rows : rows[i] \in Row /\ rows'[i] \in Row /\ Aged(rows[i], rows'[i])
      BY <1>1, <3>2, IdsAre, IdsAreNext DEF Ages, Ids
    <3>4. CallInv(calls[k], rows', now')
      BY <1>1, <3>1, <3>2, <3>3, RemembersOn
    <3> QED BY <3>1, <3>4
  <2> QED BY <2>1, <2>2
<1> QED BY <1>3, <1>4 DEF CallsInv

LEMMA CallsRemain ==
  ASSUME SessionsInv, RowsTyped', Ages, now' \in Nat, now <= now', UNCHANGED calls
  PROVE  CallsTyped' /\ CallsInv'
<1>1. CallsTyped /\ CallsInv /\ now \in Nat /\ RowsTyped
  BY DEF SessionsInv, Shape, Scalars
<1>2. CallsTyped'
  BY <1>1 DEF CallsTyped
<1>3. ASSUME NEW k \in Slots PROVE CallInv(calls'[k], rows', now')
  <2>1. calls'[k] = calls[k] /\ calls[k] \in CallTypes /\ CallInv(calls[k], rows, now)
    BY <1>1 DEF CallsTyped, CallsInv
  <2>2. DOMAIN rows \subseteq DOMAIN rows'
    BY DEF Ages, Ids
  <2>3. \A i \in DOMAIN rows : rows[i] \in Row /\ rows'[i] \in Row /\ Aged(rows[i], rows'[i])
    BY <1>1, <2>2, IdsAre, IdsAreNext DEF Ages, Ids
  <2>4. CallInv(calls[k], rows', now')
    BY <1>1, <2>1, <2>2, <2>3, RemembersOn
  <2> QED BY <2>1, <2>4
<1> QED BY <1>2, <1>3 DEF CallsInv

LEMMA KindOf ==
  ASSUME NEW call \in CallTypes
  PROVE  /\ call.kind = "login"   => call \in LoginCalls
         /\ call.kind = "request" => call \in RequestCalls
         /\ call.kind = "rotate"  => call \in RotateCalls
         /\ call.kind = "logout"  => call \in LogoutCalls
         /\ call.kind = "managed" => call \in ManagedCalls
         /\ call.kind = "subject" => call \in SubjectCalls
  BY DEF CallTypes, LoginCalls, RequestCalls, RotateCalls, LogoutCalls, ManagedCalls,
         SubjectCalls, Free

LEMMA FreeCall == Free \in CallTypes /\ \A rs, t : CallInv(Free, rs, t)
  BY DEF CallTypes, CallInv, LoginCalls, RequestCalls, RotateCalls, LogoutCalls,
         ManagedCalls, SubjectCalls, Free

-----------------------------------------------------------------------------
(* The changes a step makes to the rows, one by one.                       *)

\* The rows stay well formed and no row is rejuvenated.
RowsStep == RowsTyped' /\ Ages /\ RowsInv'

LEMMA CredTyped == ASSUME NEW r \in Row PROVE r.cred \in Nat
<1>1. r.cred \in 1..MaxIssued
  BY DEF Row
<1> QED BY <1>1

LEMMA AgedSame == ASSUME NEW r \in Row PROVE Aged(r, r)
  BY DEF Aged, Row

LEMMA RowsRemain ==
  ASSUME Shape, UNCHANGED <<rows, issued>>, now' \in Nat, now <= now'
  PROVE  RowsStep /\ Ids' = Ids
<1>1. RowsTyped /\ RowsInv /\ now \in Nat /\ \A i \in Ids : rows[i] \in Row
  BY IdsAre DEF Shape, Scalars
<1>2. RowsTyped' /\ Ids' = Ids /\ Ages
  BY <1>1, AgedSame DEF RowsTyped, Ids, Ages
<1>3. RowsInv'
  <2>1. Distinct'
    BY <1>1, <1>2 DEF RowsInv, Distinct
  <2>2. ASSUME NEW i \in Ids PROVE rows'[i].cred <= issued' /\ Times(rows'[i], now')
    BY <1>1 DEF RowsInv, Times, Row
  <2> QED BY <1>2, <2>1, <2>2 DEF RowsInv
<1> QED BY <1>2, <1>3 DEF RowsStep

LEMMA RowsRevoked ==
  ASSUME Shape, NEW ids, rows' = Revoked(ids), UNCHANGED <<issued, now>>
  PROVE  RowsStep /\ Ids' = Ids
<1>1. RowsTyped /\ RowsInv /\ now \in Nat /\ \A i \in Ids : rows[i] \in Row
  BY IdsAre DEF Shape, Scalars
<1>2. RowsTyped' /\ Ids' = Ids /\ Ages
  BY <1>1, RevokedRows DEF RowsTyped, Ids, Ages
<1>3. \A i \in Ids : /\ rows'[i].cred = rows[i].cred /\ rows'[i].auth = rows[i].auth
                      /\ rows'[i].last = rows[i].last /\ rows'[i].ends = rows[i].ends
  BY <1>1, RevokedRows
<1>4. RowsInv'
  <2>1. Distinct'
    BY <1>1, <1>2, <1>3 DEF RowsInv, Distinct
  <2>2. ASSUME NEW i \in Ids PROVE rows'[i].cred <= issued' /\ Times(rows'[i], now')
    BY <1>1, <1>3 DEF RowsInv, Times
  <2> QED BY <1>2, <2>1, <2>2 DEF RowsInv
<1> QED BY <1>2, <1>4 DEF RowsStep

\* One row is replaced by an aged one, with the credential it had or a new one.
LEMMA RowReplaced ==
  ASSUME Shape, NEW i \in Ids, NEW s \in Row, rows' = [rows EXCEPT ![i] = s],
         Aged(rows[i], s), Times(s, now), UNCHANGED now,
         \/ issued' = issued /\ s.cred = rows[i].cred
         \/ issued' = issued + 1 /\ s.cred = issued + 1
  PROVE  RowsStep /\ Ids' = Ids
<1>1. /\ RowsTyped /\ RowsInv /\ now \in Nat /\ issued \in Nat /\ \A j \in Ids : rows[j] \in Row
      /\ Ids = 1..Len(rows) /\ Len(rows) \in Nat
  BY IdsAre DEF Shape, Scalars
<1>2. /\ rows' \in Seq(Row) /\ Len(rows') = Len(rows)
      /\ \A j \in Ids : rows'[j] = IF j = i THEN s ELSE rows[j]
  BY <1>1, ExceptSeq DEF RowsTyped
<1>3. RowsTyped' /\ Ids' = Ids
  BY <1>1, <1>2, LenProperties DEF RowsTyped, Ids
<1>4. Ages
  BY <1>1, <1>2, <1>3, AgedSame DEF Ages
<1>5. \A j \in Ids : rows[j].cred \in Nat /\ rows[j].cred <= issued
  <2>1. \A j \in Ids : rows[j].cred \in Nat
    BY <1>1, CredTyped
  <2>2. \A j \in Ids : rows[j].cred <= issued
    BY <1>1 DEF RowsInv
  <2> QED BY <2>1, <2>2
<1>6. Distinct'
  <2>1. \A j \in Ids : j # i => s.cred # rows[j].cred
    BY <1>1, <1>5 DEF RowsInv, Distinct
  <2> QED BY <1>1, <1>2, <1>3, <2>1 DEF RowsInv, Distinct
<1>7. ASSUME NEW j \in Ids PROVE rows'[j].cred <= issued' /\ Times(rows'[j], now')
  <2>1. CASE j = i
    BY <1>1, <1>2, <1>5, <2>1 DEF Times
  <2>2. CASE j # i
    BY <1>1, <1>2, <1>5, <2>2 DEF RowsInv, Times
  <2> QED BY <2>1, <2>2
<1>8. RowsInv'
  BY <1>3, <1>6, <1>7 DEF RowsInv
<1> QED BY <1>3, <1>4, <1>8 DEF RowsStep

\* One field of a row that is neither its evidence nor its generation.
LEMMA SeenRow ==
  ASSUME NEW r \in Row, NEW t \in 0..MaxTime
  PROVE  /\ [r EXCEPT !.last = t] \in Row /\ Aged(r, [r EXCEPT !.last = t])
         /\ [r EXCEPT !.last = t].last = t /\ [r EXCEPT !.last = t].auth = r.auth
         /\ [r EXCEPT !.last = t].ends = r.ends /\ [r EXCEPT !.last = t].cred = r.cred
         /\ [r EXCEPT !.last = t].revoked = r.revoked
<1>1. [r EXCEPT !.last = t] \in Row
  BY DEF Row
<1>2. /\ [r EXCEPT !.last = t].last = t /\ [r EXCEPT !.last = t].auth = r.auth
      /\ [r EXCEPT !.last = t].ends = r.ends /\ [r EXCEPT !.last = t].cred = r.cred
      /\ [r EXCEPT !.last = t].revoked = r.revoked /\ [r EXCEPT !.last = t].gen = r.gen
  BY DEF Row
<1>3. Aged(r, [r EXCEPT !.last = t])
  BY <1>2 DEF Aged, Row
<1> QED BY <1>1, <1>2, <1>3

LEMMA OfferedRow ==
  ASSUME NEW r \in Row, NEW b \in BOOLEAN
  PROVE  /\ [r EXCEPT !.reauth = b] \in Row /\ Aged(r, [r EXCEPT !.reauth = b])
         /\ [r EXCEPT !.reauth = b].last = r.last /\ [r EXCEPT !.reauth = b].auth = r.auth
         /\ [r EXCEPT !.reauth = b].ends = r.ends /\ [r EXCEPT !.reauth = b].cred = r.cred
         /\ [r EXCEPT !.reauth = b].revoked = r.revoked
<1>1. [r EXCEPT !.reauth = b] \in Row
  BY DEF Row
<1>2. /\ [r EXCEPT !.reauth = b].last = r.last /\ [r EXCEPT !.reauth = b].auth = r.auth
      /\ [r EXCEPT !.reauth = b].ends = r.ends /\ [r EXCEPT !.reauth = b].cred = r.cred
      /\ [r EXCEPT !.reauth = b].revoked = r.revoked /\ [r EXCEPT !.reauth = b].gen = r.gen
  BY DEF Row
<1>3. Aged(r, [r EXCEPT !.reauth = b])
  BY <1>2 DEF Aged, Row
<1> QED BY <1>1, <1>2, <1>3

LEMMA RowSeen ==
  ASSUME Shape, NEW i \in Ids, NEW t \in 0..MaxTime, rows' = [rows EXCEPT ![i].last = t],
         rows[i].auth <= t, t < rows[i].ends, t <= now, UNCHANGED <<now, issued>>
  PROVE  RowsStep /\ Ids' = Ids
<1> DEFINE s == [rows[i] EXCEPT !.last = t]
<1>1. rows[i] \in Row
  BY IdsAre DEF Shape
<1>2. /\ s \in Row /\ Aged(rows[i], s) /\ s.last = t /\ s.auth = rows[i].auth
      /\ s.ends = rows[i].ends /\ s.cred = rows[i].cred
  BY <1>1, SeenRow
<1>3. rows' = [rows EXCEPT ![i] = s]
  OBVIOUS
<1> HIDE DEF s
<1>4. Times(s, now)
  BY <1>2 DEF Times
<1> QED BY <1>2, <1>3, <1>4, RowReplaced

LEMMA RowOffered ==
  ASSUME Shape, NEW i \in Ids, NEW b \in BOOLEAN, rows' = [rows EXCEPT ![i].reauth = b],
         UNCHANGED <<now, issued>>
  PROVE  RowsStep /\ Ids' = Ids
<1> DEFINE s == [rows[i] EXCEPT !.reauth = b]
<1>1. rows[i] \in Row /\ Times(rows[i], now)
  BY IdsAre DEF Shape, RowsInv
<1>2. /\ s \in Row /\ Aged(rows[i], s) /\ s.last = rows[i].last /\ s.auth = rows[i].auth
      /\ s.ends = rows[i].ends /\ s.cred = rows[i].cred
  BY <1>1, OfferedRow
<1>3. rows' = [rows EXCEPT ![i] = s]
  OBVIOUS
<1> HIDE DEF s
<1>4. Times(s, now)
  BY <1>1, <1>2 DEF Times
<1> QED BY <1>2, <1>3, <1>4, RowReplaced

\* Under the generation it loaded a rotation gives the row new evidence.
LEMMA RowRotated ==
  ASSUME Shape, NEW call \in RotateCalls, RotateInv(call, rows, now), CanRotate(call),
         issued < MaxIssued, issued' = issued + 1, UNCHANGED now,
         rows' = [rows EXCEPT ![call.id] = Rotated(@, call, issued + 1)]
  PROVE  RowsStep /\ Ids' = Ids
<1> DEFINE i == call.id
           s == Rotated(rows[i], call, issued + 1)
<1>1. i \in Ids /\ rows[i] \in Row /\ issued \in Nat /\ now \in Nat
  BY IdsAre DEF Shape, Scalars, RotateInv, Ids
<1>2. call.at \in 0..MaxTime /\ call.auth \in 0..MaxTime /\ call.gen \in Nat
  BY DEF RotateCalls
<1>3. rows[i].gen = call.gen /\ ~rows[i].revoked /\ rows[i].ends \in Nat
  BY <1>1 DEF CanRotate, Row
<1>4. issued + 1 \in 1..MaxIssued /\ call.gen + 1 \in Nat \ {0}
  BY <1>1, <1>2, BoundsTyped
<1>5. s \in Row
  BY <1>2, <1>3, <1>4 DEF Rotated, Row
<1>6. Aged(rows[i], s)
  BY <1>2, <1>3 DEF Rotated, Aged
<1>7. Times(s, now)
  BY DEF RotateInv, Rotated, Times
<1>8. s.cred = issued + 1
  BY DEF Rotated
<1>9. rows' = [rows EXCEPT ![i] = s]
  OBVIOUS
<1> HIDE DEF s, i
<1> QED BY <1>1, <1>5, <1>6, <1>7, <1>8, <1>9, RowReplaced

\* Sessions are revoked to make room for one that is new.
LEMMA RowCreated ==
  ASSUME Shape, NEW ids, NEW call \in LoginCalls, LoginInv(call, now),
         issued < MaxIssued, Len(rows) < MaxSessions,
         rows' = Append(Revoked(ids), NewRow(call, issued + 1)),
         issued' = issued + 1, UNCHANGED now
  PROVE  /\ RowsStep /\ Ids' = Ids \cup {Len(rows) + 1} /\ Len(rows) + 1 \notin Ids
         /\ \A i \in Ids : rows'[i] = Revoked(ids)[i]
         /\ rows'[Len(rows) + 1] = NewRow(call, issued + 1)
<1> DEFINE old == Revoked(ids)
           new == NewRow(call, issued + 1)
           n == Len(rows)
<1>1. /\ RowsTyped /\ RowsInv /\ now \in Nat /\ issued \in Nat
      /\ Ids = 1..n /\ n \in Nat /\ \A i \in Ids : rows[i] \in Row
  BY IdsAre DEF Shape, Scalars
<1>2. /\ old \in Seq(Row) /\ Len(old) = n /\ DOMAIN old = Ids
      /\ \A i \in Ids : /\ Aged(rows[i], old[i]) /\ old[i].cred = rows[i].cred
                        /\ old[i].auth = rows[i].auth /\ old[i].last = rows[i].last
                        /\ old[i].ends = rows[i].ends
  BY <1>1, RevokedRows
<1>3. new \in Row
  <2>1. call.at \in 0..MaxTime /\ call.auth \in 0..MaxTime /\ call.mfa \in BOOLEAN
    BY DEF LoginCalls
  <2>2. issued + 1 \in 1..MaxIssued
    BY <1>1, BoundsTyped
  <2>3. call.at + Absolute \in Nat
    BY <2>1, BoundsTyped
  <2> QED BY <2>1, <2>2, <2>3 DEF NewRow, Row
<1>4. new.cred = issued + 1 /\ Times(new, now)
  <2>1. call.at \in Nat /\ Absolute \in Nat \ {0}
    BY BoundsTyped DEF LoginCalls
  <2> QED BY <2>1 DEF NewRow, Times, LoginInv
<1> HIDE DEF old, new
<1>5. /\ rows' \in Seq(Row) /\ Len(rows') = n + 1 /\ rows'[n + 1] = new
      /\ \A i \in Ids : rows'[i] = old[i]
  <2>1. rows' = Append(old, new)
    BY DEF old, new
  <2>2. /\ Append(old, new) \in Seq(Row) /\ Len(Append(old, new)) = Len(old) + 1
        /\ \A i \in 1..Len(old) : Append(old, new)[i] = old[i]
        /\ Append(old, new)[Len(old) + 1] = new
    BY <1>2, <1>3, AppendProperties
  <2> QED BY <1>1, <1>2, <2>1, <2>2
<1>6. RowsTyped' /\ Ids' = Ids \cup {n + 1} /\ n + 1 \notin Ids
  <2>1. Ids' = 1..(n + 1)
    BY <1>5, LenProperties DEF Ids
  <2> QED BY <1>1, <1>5, <2>1, BoundsTyped DEF RowsTyped
<1>7. Ages
  BY <1>2, <1>5, <1>6 DEF Ages
<1>8. \A i \in Ids : rows[i].cred \in Nat /\ rows[i].cred <= issued /\ Times(rows[i], now)
  <2>1. \A i \in Ids : rows[i].cred \in Nat
    BY <1>1, CredTyped
  <2> QED BY <1>1, <2>1 DEF RowsInv
<1>9. Distinct'
  <2>1. \A i \in Ids : rows'[i].cred = rows[i].cred /\ rows'[i].cred # new.cred
    BY <1>1, <1>2, <1>4, <1>5, <1>8
  <2> QED BY <1>1, <1>5, <1>6, <2>1 DEF RowsInv, Distinct
<1>10. ASSUME NEW i \in Ids' PROVE rows'[i].cred <= issued' /\ Times(rows'[i], now')
  <2>1. CASE i \in Ids
    BY <1>1, <1>2, <1>5, <1>8, <2>1 DEF Times
  <2>2. CASE i = n + 1
    BY <1>1, <1>4, <1>5, <2>2 DEF Times
  <2> QED BY <1>6, <2>1, <2>2
<1>11. RowsStep
  BY <1>6, <1>7, <1>9, <1>10 DEF RowsInv, RowsStep
<1> QED BY <1>5, <1>6, <1>11 DEF old, new

-----------------------------------------------------------------------------
(* The invariant is inductive: one lemma per action.                       *)

LEMMA InitKeeps == ASSUME Init PROVE SessionsInv
<1>1. Scalars /\ RowsTyped /\ RowsInv /\ Ids = {}
  BY EmptySeq, BoundsTyped DEF Init, Scalars, RowsTyped, RowsInv, Distinct, Ids
<1>2. UserTyped
  <2>1. PICK gone \in BOOLEAN : user = [active |-> ~gone, deleted |-> gone]
    BY DEF Init
  <2> QED BY <2>1 DEF UserTyped
<1>3. CallsTyped /\ CallsInv
  BY FreeCall DEF Init, CallsTyped, CallsInv
<1> QED BY <1>1, <1>2, <1>3 DEF SessionsInv, Shape

\* What remains to be shown of a step that leaves the clock and the user alone.
LEMMA KeepsInv ==
  ASSUME SessionsInv, RowsStep, CallsTyped', CallsInv', UNCHANGED <<now, user>>,
         issued' \in 0..MaxIssued, revokedUpTo' \in 0..MaxTime + 1,
         late' \subseteq Ids', loggedOut' \subseteq Ids'
  PROVE  SessionsInv'
<1>1. Scalars'
  BY DEF SessionsInv, Shape, Scalars
<1>2. UserTyped'
  BY DEF SessionsInv, Shape, UserTyped
<1> QED BY <1>1, <1>2 DEF SessionsInv, Shape, RowsStep

\* The rows stay and a call starts or returns.
LEMMA CallMoves ==
  ASSUME SessionsInv, NEW c \in Slots, NEW call \in CallTypes, Call(c, call),
         CallInv(call, rows, now), UNCHANGED <<now, sessionVars, userVars>>
  PROVE  SessionsInv'
<1>1. now \in Nat /\ now' = now /\ rows' = rows /\ Shape
  BY DEF SessionsInv, Shape, Scalars, sessionVars
<1>2. RowsStep /\ Ids' = Ids
  BY <1>1, RowsRemain DEF sessionVars
<1>3. CallsTyped' /\ CallsInv'
  BY <1>1, <1>2, CallsGoOn DEF RowsStep
<1> QED BY <1>2, <1>3, KeepsInv DEF SessionsInv, Shape, Scalars, sessionVars, userVars

LEMMA NowTyped == ASSUME Shape PROVE now \in 0..MaxTime /\ now \in Nat /\ MaxTime \in Nat
  BY BoundsTyped DEF Shape, Scalars

LEMMA StartLoginKeeps ==
  ASSUME SessionsInv, NEW c \in Slots, NEW mfa \in BOOLEAN, NEW auth \in Evidence,
         StartLogin(c, mfa, auth)
  PROVE  SessionsInv'
<1> DEFINE call == [kind |-> "login", at |-> now, auth |-> auth, mfa |-> mfa]
<1>1. now \in 0..MaxTime /\ MaxTime \in Nat /\ auth \in 0..now
  BY NowTyped DEF SessionsInv, Evidence
<1>2. call \in LoginCalls
  BY <1>1 DEF LoginCalls
<1>3. CallInv(call, rows, now)
  BY <1>1 DEF CallInv, LoginInv, LoginCalls, RequestCalls, RotateCalls, LogoutCalls,
              ManagedCalls, SubjectCalls
<1> QED BY <1>2, <1>3, CallMoves DEF StartLogin, CallTypes

LEMMA StartRequestKeeps ==
  ASSUME SessionsInv, NEW c \in Slots, NEW i \in Ids, StartRequest(c, i)
  PROVE  SessionsInv'
<1> DEFINE call == [kind |-> "request", at |-> now, id |-> i, gen |-> rows[i].gen]
<1>1. now \in 0..MaxTime /\ rows[i] \in Row /\ Times(rows[i], now) /\ Ids = 1..Len(rows)
      /\ Len(rows) \in Nat /\ now \in Nat
  BY NowTyped, IdsAre DEF SessionsInv, Shape, RowsInv
<1>2. call \in RequestCalls
  BY <1>1 DEF RequestCalls, Row
<1>3. rows[i].auth <= now
  BY <1>1 DEF Times, Row
<1>4. CallInv(call, rows, now)
  BY <1>1, <1>3 DEF CallInv, RequestInv, Ids, Row, LoginCalls, RequestCalls, RotateCalls,
                    LogoutCalls, ManagedCalls, SubjectCalls
<1> QED BY <1>2, <1>4, CallMoves DEF StartRequest, CallTypes

LEMMA StartRevokeManagedKeeps ==
  ASSUME SessionsInv, NEW c \in Slots, NEW i \in Ids, NEW target \in Ids,
         StartRevokeManaged(c, i, target)
  PROVE  SessionsInv'
<1> DEFINE call == [kind |-> "managed", at |-> now, cred |-> rows[i].cred, id |-> i,
                    target |-> target]
<1>1. now \in 0..MaxTime /\ rows[i] \in Row /\ Ids = 1..Len(rows) /\ Len(rows) \in Nat
  BY NowTyped, IdsAre DEF SessionsInv, Shape
<1>2. call \in ManagedCalls
  BY <1>1 DEF ManagedCalls, Row
<1>3. CallInv(call, rows, now)
  BY DEF CallInv, Ids, LoginCalls, RequestCalls, RotateCalls, LogoutCalls, ManagedCalls,
         SubjectCalls
<1> QED BY <1>2, <1>3, CallMoves DEF StartRevokeManaged, CallTypes

LEMMA StartRevokeSubjectKeeps ==
  ASSUME SessionsInv, NEW c \in Slots, NEW i \in Ids, StartRevokeSubject(c, i)
  PROVE  SessionsInv'
<1> DEFINE call == [kind |-> "subject", at |-> now, cred |-> rows[i].cred]
<1>1. now \in 0..MaxTime /\ rows[i] \in Row /\ now \in Nat
  BY NowTyped, IdsAre DEF SessionsInv, Shape
<1>2. call \in SubjectCalls
  BY <1>1 DEF SubjectCalls, Row
<1>3. CallInv(call, rows, now)
  BY <1>1 DEF CallInv, LoginCalls, RequestCalls, RotateCalls, LogoutCalls, ManagedCalls,
              SubjectCalls
<1> QED BY <1>2, <1>3, CallMoves DEF StartRevokeSubject, CallTypes

\* A call that returns, whatever it did to the rows.
LEMMA CallReturns ==
  ASSUME SessionsInv, NEW c \in Slots, Return(c), RowsStep, UNCHANGED <<now, userVars>>,
         issued' \in 0..MaxIssued, revokedUpTo' \in 0..MaxTime + 1,
         late' \subseteq Ids', loggedOut' \subseteq Ids'
  PROVE  SessionsInv'
<1>1. now \in Nat /\ now' = now
  BY NowTyped DEF SessionsInv
<1>2. CallsTyped' /\ CallsInv'
  BY <1>1, FreeCall, CallsGoOn DEF Return, RowsStep
<1> QED BY <1>2, KeepsInv DEF userVars

LEMMA CallAt ==
  ASSUME SessionsInv, NEW c \in Slots
  PROVE  calls[c] \in CallTypes /\ CallInv(calls[c], rows, now)
  BY DEF SessionsInv, Shape, CallsTyped, CallsInv

LEMMA StaysTyped ==
  ASSUME SessionsInv
  PROVE  /\ Shape /\ now \in Nat /\ issued \in 0..MaxIssued /\ revokedUpTo \in 0..MaxTime + 1
         /\ late \subseteq Ids /\ loggedOut \subseteq Ids
  BY NowTyped DEF SessionsInv, Shape, Scalars

LEMMA MarkTyped == ASSUME SessionsInv, NEW i \in Ids PROVE MarkLate(i) \subseteq Ids
  BY StaysTyped DEF MarkLate

LEMMA TouchKeeps ==
  ASSUME SessionsInv, NEW c \in Slots, Touch(c)
  PROVE  SessionsInv' /\ RowsStep
<1> DEFINE call == calls[c]
<1>1. call \in RequestCalls /\ RequestInv(call, rows, now)
  BY CallAt, KindOf DEF Touch, CallInv
<1>2. call.id \in Ids /\ call.at \in 0..MaxTime
  BY <1>1 DEF RequestInv, RequestCalls, Ids
<1>3. RowsStep /\ Ids' = Ids
  <2>1. CASE CanTouch(call)
    <3>1. rows[call.id].auth <= call.at /\ call.at < rows[call.id].ends /\ call.at <= now
      BY <1>1, <2>1 DEF CanTouch, RequestInv
    <3>2. rows' = [rows EXCEPT ![call.id].last = call.at] /\ UNCHANGED <<now, issued>>
      BY <2>1 DEF Touch
    <3> HIDE DEF call
    <3> QED BY <1>2, <3>1, <3>2, RowSeen, StaysTyped
  <2>2. CASE ~CanTouch(call)
    BY <2>2, RowsRemain, StaysTyped DEF Touch
  <2> QED BY <2>1, <2>2
<1>4. late' \subseteq Ids'
  BY <1>2, <1>3, MarkTyped, StaysTyped DEF Touch
<1> QED BY <1>3, <1>4, CallReturns, StaysTyped DEF Touch

LEMMA StartReauthenticationKeeps ==
  ASSUME SessionsInv, NEW i \in Ids, StartReauthentication(i)
  PROVE  SessionsInv' /\ RowsStep
<1>1. RowsStep /\ Ids' = Ids
  BY RowOffered, StaysTyped DEF StartReauthentication
<1>2. CallsTyped' /\ CallsInv'
  BY <1>1, CallsRemain, StaysTyped DEF RowsStep, StartReauthentication
<1> QED BY <1>1, <1>2, KeepsInv, StaysTyped DEF StartReauthentication, userVars

LEMMA CompleteReauthenticationKeeps ==
  ASSUME SessionsInv, NEW c \in Slots, NEW i \in Ids, NEW auth \in Evidence,
         CompleteReauthentication(c, i, auth)
  PROVE  SessionsInv' /\ RowsStep
<1> DEFINE call == [kind |-> "rotate", at |-> now, cred |-> rows[i].cred, id |-> i,
                    gen |-> rows[i].gen, auth |-> auth]
<1>1. /\ now \in 0..MaxTime /\ now \in Nat /\ MaxTime \in Nat /\ auth \in 0..now
      /\ rows[i] \in Row /\ Ids = 1..Len(rows) /\ Len(rows) \in Nat
  BY NowTyped, IdsAre DEF SessionsInv, Shape, Evidence
<1>2. RowsStep /\ Ids' = Ids
  BY RowOffered, StaysTyped DEF CompleteReauthentication
<1>3. rows'[i].ends = rows[i].ends
  BY <1>2 DEF RowsStep, Ages, Aged
<1>4. call \in RotateCalls
  BY <1>1 DEF RotateCalls, Row
<1>5. RotateInv(call, rows', now')
  BY <1>1, <1>2, <1>3 DEF RotateInv, CompleteReauthentication, ActiveAt, Ids
<1>6. CallInv(call, rows', now')
  BY <1>5 DEF CallInv, LoginCalls, RequestCalls, RotateCalls, LogoutCalls, ManagedCalls,
              SubjectCalls
<1>7. CallsTyped' /\ CallsInv'
  <2>1. CASE user.active
    <3>1. Call(c, call) /\ now' = now /\ call \in CallTypes /\ RowsTyped' /\ Ages
      BY <1>2, <1>4, <2>1 DEF CompleteReauthentication, CallTypes, RowsStep
    <3> HIDE DEF call
    <3> QED BY <1>1, <1>6, <3>1, CallsGoOn
  <2>2. CASE ~user.active
    BY <1>1, <1>2, <2>2, CallsRemain DEF CompleteReauthentication, RowsStep
  <2> QED BY <2>1, <2>2
<1> QED BY <1>2, <1>7, KeepsInv, StaysTyped DEF CompleteReauthentication, userVars

LEMMA RotateKeeps ==
  ASSUME SessionsInv, NEW c \in Slots, Rotate(c)
  PROVE  SessionsInv' /\ RowsStep
<1> DEFINE call == calls[c]
<1>1. call \in RotateCalls /\ RotateInv(call, rows, now)
  BY CallAt, KindOf DEF Rotate, CallInv
<1>2. call.id \in Ids
  BY <1>1 DEF RotateInv, Ids
<1>3. RowsStep /\ Ids' = Ids /\ issued' \in 0..MaxIssued
  <2>1. CASE Accepts(call.auth) /\ CanRotate(call)
    <3>1. /\ issued < MaxIssued /\ issued' = issued + 1 /\ UNCHANGED now
          /\ rows' = [rows EXCEPT ![call.id] = Rotated(@, call, issued + 1)]
      BY <2>1 DEF Rotate
    <3>2. issued + 1 \in 0..MaxIssued
      BY <3>1, StaysTyped, BoundsTyped
    <3> HIDE DEF call
    <3>3. RowsStep /\ Ids' = Ids
      BY <1>1, <2>1, <3>1, RowRotated, StaysTyped
    <3> QED BY <3>1, <3>2, <3>3
  <2>2. CASE ~(Accepts(call.auth) /\ CanRotate(call))
    BY <2>2, RowsRemain, StaysTyped DEF Rotate
  <2> QED BY <2>1, <2>2
<1>4. late' \subseteq Ids'
  BY <1>2, <1>3, MarkTyped, StaysTyped DEF Rotate
<1> QED BY <1>3, <1>4, CallReturns, StaysTyped DEF Rotate

LEMMA StartLogoutKeeps ==
  ASSUME SessionsInv, NEW c \in Slots, NEW i \in Ids, StartLogout(c, i)
  PROVE  SessionsInv' /\ RowsStep
<1> DEFINE call == [kind |-> "logout", cred |-> rows[i].cred, id |-> i,
                    ref |-> ActiveAt(rows[i], now)]
<1>1. /\ now \in 0..MaxTime /\ now \in Nat /\ rows[i] \in Row /\ Times(rows[i], now)
      /\ Ids = 1..Len(rows) /\ Len(rows) \in Nat
  BY NowTyped, IdsAre DEF SessionsInv, Shape, RowsInv
<1>2. RowsStep /\ Ids' = Ids
  <2>1. CASE ActiveAt(rows[i], now)
    <3>1. rows[i].auth <= now /\ now < rows[i].ends
      BY <1>1, <2>1 DEF Times, ActiveAt, Row
    <3>2. rows' = [rows EXCEPT ![i].last = now] /\ UNCHANGED <<now, issued>>
      BY <2>1 DEF StartLogout
    <3>3. now <= now /\ Shape
      BY <1>1, StaysTyped
    <3> QED BY <1>1, <3>1, <3>2, <3>3, RowSeen
  <2>2. CASE ~ActiveAt(rows[i], now)
    BY <2>2, RowsRemain, StaysTyped DEF StartLogout
  <2> QED BY <2>1, <2>2
<1>3. call \in LogoutCalls
  BY <1>1 DEF LogoutCalls, Row, ActiveAt
<1>4. CallInv(call, rows', now')
  BY <1>2 DEF CallInv, Ids, LoginCalls, RequestCalls, RotateCalls, LogoutCalls,
              ManagedCalls, SubjectCalls
<1>5. CallsTyped' /\ CallsInv'
  <2>1. Call(c, call) /\ now' = now /\ call \in CallTypes /\ RowsTyped' /\ Ages
    BY <1>2, <1>3 DEF StartLogout, CallTypes, RowsStep
  <2> HIDE DEF call
  <2> QED BY <1>1, <1>4, <2>1, CallsGoOn
<1> QED BY <1>2, <1>5, KeepsInv, StaysTyped DEF StartLogout, userVars

LEMMA RevokeCurrentKeeps ==
  ASSUME SessionsInv, NEW c \in Slots, RevokeCurrent(c)
  PROVE  SessionsInv' /\ RowsStep
<1>1. calls[c] \in LogoutCalls /\ calls[c].id \in Ids
  BY CallAt, KindOf DEF RevokeCurrent, CallInv, Ids
<1>2. RowsStep /\ Ids' = Ids
  BY RowsRevoked, StaysTyped DEF RevokeCurrent
<1>3. loggedOut' \subseteq Ids'
  BY <1>1, <1>2, StaysTyped DEF RevokeCurrent
<1> QED BY <1>2, <1>3, CallReturns, StaysTyped DEF RevokeCurrent

LEMMA RevokeManagedKeeps ==
  ASSUME SessionsInv, NEW c \in Slots, RevokeManaged(c)
  PROVE  SessionsInv' /\ RowsStep
<1>1. (\E ids : rows' = Revoked(ids)) \/ rows' = rows
  BY DEF RevokeManaged
<1>2. UNCHANGED <<now, issued>>
  BY DEF RevokeManaged
<1>3. RowsStep /\ Ids' = Ids
  BY <1>1, <1>2, RowsRevoked, RowsRemain, StaysTyped
<1> QED BY <1>3, CallReturns, StaysTyped DEF RevokeManaged

LEMMA RevokeSubjectKeeps ==
  ASSUME SessionsInv, NEW c \in Slots, RevokeSubject(c)
  PROVE  SessionsInv' /\ RowsStep
<1>1. calls[c] \in SubjectCalls
  BY CallAt, KindOf DEF RevokeSubject
<1>2. rows' = Revoked(Ids) \/ rows' = rows
  BY DEF RevokeSubject
<1>3. RowsStep /\ Ids' = Ids
  BY <1>2, RowsRevoked, RowsRemain, StaysTyped DEF RevokeSubject
<1>4. Watermark(calls[c].at) \in 0..MaxTime + 1
  BY <1>1, StaysTyped, BoundsTyped DEF Watermark, SubjectCalls
<1>5. revokedUpTo' \in 0..MaxTime + 1
  BY <1>4, StaysTyped DEF RevokeSubject
<1> QED BY <1>3, <1>5, CallReturns, StaysTyped DEF RevokeSubject

LEMMA CreateKeeps ==
  ASSUME SessionsInv, NEW c \in Slots, Create(c)
  PROVE  SessionsInv' /\ RowsStep
<1> DEFINE call == calls[c]
<1>1. call \in LoginCalls /\ LoginInv(call, now)
  BY CallAt, KindOf DEF Create, CallInv
<1>2. RowsStep /\ Ids \subseteq Ids' /\ issued' \in 0..MaxIssued
  <2>1. CASE Accepts(call.auth)
    <3>1. /\ issued < MaxIssued /\ Len(rows) < MaxSessions /\ issued' = issued + 1
          /\ rows' = Append(Revoked(Evicted(CountedAt(call.at))), NewRow(call, issued + 1))
          /\ UNCHANGED now
      BY <2>1 DEF Create
    <3>2. issued + 1 \in 0..MaxIssued
      BY <3>1, StaysTyped, BoundsTyped
    <3> HIDE DEF call
    <3>3. RowsStep /\ Ids' = Ids \cup {Len(rows) + 1}
      BY <1>1, <3>1, RowCreated, StaysTyped
    <3> QED BY <3>1, <3>2, <3>3
  <2>2. CASE ~Accepts(call.auth)
    BY <2>2, RowsRemain, StaysTyped DEF Create
  <2> QED BY <2>1, <2>2
<1>3. late' \subseteq Ids' /\ loggedOut' \subseteq Ids' /\ revokedUpTo' = revokedUpTo
  BY <1>2, StaysTyped DEF Create
<1> QED BY <1>2, <1>3, CallReturns, StaysTyped DEF Create

LEMMA ProvisionKeeps ==
  ASSUME SessionsInv, NEW op \in Operations, NEW key, Provision(op, key)
  PROVE  SessionsInv' /\ RowsStep
<1>1. now' = now /\ rows' = rows /\ issued' = issued /\ UNCHANGED calls
  BY DEF Provision, sessionVars
<1>2. RowsStep /\ Ids' = Ids
  BY <1>1, RowsRemain, StaysTyped
<1>3. CallsTyped' /\ CallsInv'
  BY <1>1, <1>2, CallsRemain, StaysTyped DEF RowsStep
<1>4. UserTyped'
  <2>1. UserTyped
    BY DEF SessionsInv, Shape
  <2>2. \/ user' = user \/ user' = [active |-> TRUE, deleted |-> FALSE]
        \/ user' = [user EXCEPT !.active = FALSE] \/ user' = Tombstone
    BY DEF Provision, Operations, Applied, userVars
  <2>3. CASE user' = [user EXCEPT !.active = FALSE]
    BY <2>1, <2>3 DEF UserTyped
  <2>4. CASE user' = user
    BY <2>1, <2>4 DEF UserTyped
  <2>5. CASE user' = [active |-> TRUE, deleted |-> FALSE]
    BY <2>5 DEF UserTyped
  <2>6. CASE user' = Tombstone
    BY <2>6 DEF UserTyped, Tombstone
  <2> QED BY <2>2, <2>3, <2>4, <2>5, <2>6
<1>5. Scalars'
  BY <1>1, <1>2, StaysTyped DEF Scalars, Provision, sessionVars, SessionsInv, Shape
<1> QED BY <1>2, <1>3, <1>4, <1>5 DEF SessionsInv, Shape, RowsStep

LEMMA TickKeeps ==
  ASSUME SessionsInv, Tick
  PROVE  SessionsInv' /\ RowsStep
<1>1. /\ now' = now + 1 /\ now \in 0..MaxTime /\ now < MaxTime /\ MaxTime \in Nat
      /\ rows' = rows /\ issued' = issued
  BY NowTyped DEF Tick, SessionsInv, sessionVars
<1>2. RowsStep /\ Ids' = Ids
  BY <1>1, RowsRemain, StaysTyped
<1>3. CallsTyped' /\ CallsInv'
  BY <1>1, <1>2, CallsRemain, StaysTyped DEF RowsStep, Tick
<1>4. UserTyped'
  BY DEF SessionsInv, Shape, UserTyped, Tick, userVars
<1>5. Scalars'
  BY <1>1, <1>2, StaysTyped DEF Scalars, Tick, sessionVars
<1> QED BY <1>2, <1>3, <1>4, <1>5 DEF SessionsInv, Shape, RowsStep

\* Starting a call leaves the rows as they are.
LEMMA StartKeepsRows ==
  ASSUME SessionsInv, UNCHANGED <<now, rows, issued>>
  PROVE  RowsStep
  BY RowsRemain, StaysTyped

LEMMA StepKeeps == ASSUME SessionsInv, Next PROVE SessionsInv' /\ RowsStep
<1>1. ASSUME NEW c \in Slots, CallSteps(c) PROVE SessionsInv' /\ RowsStep
  <2>1. ASSUME NEW mfa \in BOOLEAN, NEW auth \in Evidence, StartLogin(c, mfa, auth)
        PROVE  SessionsInv' /\ RowsStep
    BY <2>1, StartLoginKeeps, StartKeepsRows DEF StartLogin, sessionVars
  <2>2. ASSUME NEW i \in Ids, StartRequest(c, i) PROVE SessionsInv' /\ RowsStep
    BY <2>2, StartRequestKeeps, StartKeepsRows DEF StartRequest, sessionVars
  <2>3. ASSUME NEW i \in Ids, StartRevokeSubject(c, i) PROVE SessionsInv' /\ RowsStep
    BY <2>3, StartRevokeSubjectKeeps, StartKeepsRows DEF StartRevokeSubject, sessionVars
  <2>4. ASSUME NEW i \in Ids, NEW target \in Ids, StartRevokeManaged(c, i, target)
        PROVE  SessionsInv' /\ RowsStep
    BY <2>4, StartRevokeManagedKeeps, StartKeepsRows DEF StartRevokeManaged, sessionVars
  <2> QED BY <1>1, <2>1, <2>2, <2>3, <2>4, CompleteReauthenticationKeeps, StartLogoutKeeps,
             CreateKeeps, TouchKeeps, RotateKeeps, RevokeCurrentKeeps, RevokeManagedKeeps,
             RevokeSubjectKeeps DEF CallSteps
<1> QED BY <1>1, StartReauthenticationKeeps, ProvisionKeeps, TickKeeps DEF Next

LEMMA StutterKeeps == ASSUME SessionsInv, UNCHANGED vars PROVE SessionsInv' /\ RowsStep
<1>1. now' = now /\ rows' = rows /\ issued' = issued /\ UNCHANGED calls
  BY DEF vars, sessionVars
<1>2. RowsStep /\ Ids' = Ids
  BY <1>1, RowsRemain, StaysTyped
<1>3. CallsTyped' /\ CallsInv'
  BY <1>1, <1>2, CallsRemain, StaysTyped DEF RowsStep
<1> QED BY <1>1, <1>2, <1>3, KeepsInv, StaysTyped DEF vars, sessionVars, userVars

THEOREM SessionsInvariant == Spec => []SessionsInv
<1>1. SessionsInv /\ [Next]_vars => SessionsInv'
  BY StepKeeps, StutterKeeps
<1> QED BY <1>1, InitKeeps, PTL DEF Spec

-----------------------------------------------------------------------------
(* The results.                                                            *)

(* The state has its types, the table's CHECKs hold, and a user who was     *)
(* removed is never active.                                                 *)
THEOREM SessionsTyped == Spec => []TypeOK
<1>1. SessionsInv => TypeOK
  BY ShapeIsTypeOK DEF SessionsInv
<1> QED BY <1>1, SessionsInvariant, PTL

(* No step moves the end of a session or takes its generation back; its     *)
(* credential and its evidence change only with the generation, which is    *)
(* what the conditional updates of the store compare; and a revocation is   *)
(* for good.                                                                *)
THEOREM SessionsOnlyAge == Spec => [][Ages]_vars
<1>1. SessionsInv /\ [Next]_vars => [Ages]_vars
  BY StepKeeps DEF RowsStep
<1> QED BY <1>1, SessionsInvariant, PTL DEF Spec

\* Only the confirmation of a logout adds to loggedOut.
LEMMA OnlyLogouts ==
  ASSUME Next PROVE loggedOut' = loggedOut \/ \E c \in Slots : RevokeCurrent(c)
<1>1. ASSUME NEW c \in Slots, CallSteps(c), ~RevokeCurrent(c) PROVE loggedOut' = loggedOut
  BY <1>1 DEF CallSteps, StartLogin, CompleteReauthentication, StartRequest, StartLogout,
              StartRevokeSubject, StartRevokeManaged, Create, Touch, Rotate, RevokeManaged,
              RevokeSubject, sessionVars
<1>2. ASSUME NEW i \in Ids, StartReauthentication(i) PROVE loggedOut' = loggedOut
  BY <1>2 DEF StartReauthentication
<1>3. ASSUME NEW op \in Operations, NEW key, Provision(op, key) PROVE loggedOut' = loggedOut
  BY <1>3 DEF Provision, sessionVars
<1>4. ASSUME Tick PROVE loggedOut' = loggedOut
  BY <1>4 DEF Tick, sessionVars
<1> QED BY <1>1, <1>2, <1>3, <1>4 DEF Next

(* A logout that was confirmed ended the session, whatever ran meanwhile.   *)
THEOREM LogoutEndsSessionAlways == Spec => []LogoutEndsSession
<1>1. Init => LogoutEndsSession
  BY DEF Init, LogoutEndsSession
<1>2. ASSUME SessionsInv, LogoutEndsSession, Next PROVE LogoutEndsSession'
  <2>1. loggedOut \subseteq Ids /\ Ages
    BY <1>2, StaysTyped, StepKeeps DEF RowsStep
  <2>2. \A i \in loggedOut : rows'[i].revoked
    BY <1>2, <2>1 DEF Ages, Aged, LogoutEndsSession
  <2>3. ASSUME NEW c \in Slots, RevokeCurrent(c), NEW i \in loggedOut' \ loggedOut
        PROVE  rows'[i].revoked
    <3>1. i = calls[c].id /\ calls[c].ref /\ rows' = Revoked({i})
      BY <2>3 DEF RevokeCurrent, Current
    <3>2. i \in Ids /\ RowsTyped
      BY <1>2, <2>3, <3>1, CallAt, KindOf DEF RevokeCurrent, CallInv, Ids, SessionsInv, Shape
    <3> QED BY <3>1, <3>2, RevokedRows
  <2> QED BY <1>2, <2>2, <2>3, OnlyLogouts DEF LogoutEndsSession
<1>3. ASSUME LogoutEndsSession, UNCHANGED vars PROVE LogoutEndsSession'
  BY <1>3 DEF LogoutEndsSession, vars, sessionVars
<1>4. SessionsInv /\ LogoutEndsSession /\ [Next]_vars => LogoutEndsSession'
  BY <1>2, <1>3
<1> QED BY <1>1, <1>4, SessionsInvariant, PTL DEF Spec

-----------------------------------------------------------------------------
(* The limit on active sessions.                                           *)

\* A finite set of numbers has a least one.
LEMMA LeastOne ==
  ASSUME NEW T \in SUBSET Nat, IsFiniteSet(T), T # {}
  PROVE  \E m \in T : \A k \in T : m <= k
<1> DEFINE below(m) == {k \in T : k < m}
           belows == {below(m) : m \in T}
<1>1. belows \subseteq FiniteSubsetsOf(T) /\ belows # {}
  <2>1. belows \subseteq SUBSET T /\ belows # {}
    OBVIOUS
  <2>2. FiniteSubsetsOf(T) = SUBSET T
    BY FS_FiniteSubsetsOfFinite
  <2> QED BY <2>1, <2>2
<1>2. PICK b \in belows : \A d \in belows : <<d, b>> \notin StrictSubsetOrdering(T)
  BY <1>1, FS_StrictSubsetOrderingWellFounded, WFMin
<1>3. PICK m \in T : b = below(m)
  BY <1>2
<1>4. ASSUME NEW k \in T, k < m PROVE FALSE
  <2>1. below(k) \in belows /\ below(k) \subseteq b
    <3>1. \A j \in T : j < k => j < m
      BY <1>4
    <3>2. below(k) \subseteq below(m)
      BY <3>1
    <3> QED BY <1>3, <3>2
  <2>2. k \in b /\ k \notin below(k)
    BY <1>3, <1>4
  <2>3. <<below(k), b>> \in StrictSubsetOrdering(T)
    BY <1>3, <2>1, <2>2 DEF StrictSubsetOrdering
  <2> QED BY <1>2, <2>1, <2>3
<1> QED BY <1>4

\* Eviction leaves room for one more session: the oldest of those it keeps has
\* fewer than MaxActive sessions from it on, and they include all it keeps.
LEMMA EvictionMakesRoom ==
  ASSUME NEW ids \in SUBSET Nat, IsFiniteSet(ids)
  PROVE  /\ IsFiniteSet(ids \ Evicted(ids))
         /\ Cardinality(ids \ Evicted(ids)) + 1 <= MaxActive
<1> DEFINE kept == ids \ Evicted(ids)
           from(i) == {j \in ids : j >= i}
<1>1. IsFiniteSet(kept) /\ kept \in SUBSET Nat /\ MaxActive \in Nat \ {0}
  BY FS_Subset, BoundsTyped
<1>2. CASE kept = {}
  BY <1>1, <1>2, FS_EmptySet
<1>3. CASE kept # {}
  <2>1. PICK m \in kept : \A k \in kept : m <= k
    <3> HIDE DEF kept
    <3> QED BY <1>1, <1>3, LeastOne
  <2>2. kept \subseteq from(m)
    BY <2>1
  <2>3. IsFiniteSet(from(m)) /\ Cardinality(from(m)) \in Nat
    BY FS_Subset, FS_CardinalityType
  <2>4. Cardinality(kept) <= Cardinality(from(m)) /\ Cardinality(kept) \in Nat
    BY <1>1, <2>2, <2>3, FS_Subset, FS_CardinalityType
  <2>5. ~(Cardinality(from(m)) >= MaxActive)
    BY <2>1 DEF Evicted
  <2> HIDE DEF kept, from
  <2>6. Cardinality(kept) + 1 <= MaxActive
    BY <1>1, <2>3, <2>4, <2>5
  <2> QED BY <1>1, <2>6 DEF kept
<1> QED BY <1>2, <1>3

\* No session becomes active that was not, and was not marked late.
Quiet == \A i \in Ids' \ late' : ActiveAt(rows'[i], now')
            => i \in Ids \ late /\ ActiveAt(rows[i], now)

\* The sessions there are rest on the sign-ins they rested on.
SameEvidence == Ids' = Ids /\ \A i \in Ids : rows'[i].auth = rows[i].auth

LEMMA RowOf == ASSUME SessionsInv, NEW i \in Ids
               PROVE  /\ rows[i] \in Row /\ rows[i].ends \in Nat /\ rows[i].last \in Nat
                      /\ rows[i].auth \in Nat /\ rows[i].revoked \in BOOLEAN
<1>1. rows[i] \in Row
  BY IdsAre DEF SessionsInv, Shape
<1> QED BY <1>1 DEF Row

LEMMA QuietRemain ==
  ASSUME SessionsInv, UNCHANGED <<rows, late>>, now' \in Nat, now <= now'
  PROVE  Quiet /\ SameEvidence
<1>1. Ids' = Ids /\ now \in Nat /\ Idle \in Nat
  BY StaysTyped, BoundsTyped DEF Ids
<1>2. ASSUME NEW i \in Ids, ActiveAt(rows[i], now') PROVE ActiveAt(rows[i], now)
  BY <1>1, <1>2, RowOf DEF ActiveAt
<1> QED BY <1>1, <1>2 DEF Quiet, SameEvidence

LEMMA QuietRevoked ==
  ASSUME SessionsInv, NEW ids, rows' = Revoked(ids), UNCHANGED <<late, now>>
  PROVE  Quiet /\ SameEvidence
<1>1. RowsTyped
  BY DEF SessionsInv, Shape
<1>2. /\ Ids' = Ids
      /\ \A i \in Ids : /\ rows'[i].revoked <=> rows[i].revoked \/ i \in ids
                        /\ rows'[i].auth = rows[i].auth /\ rows'[i].last = rows[i].last
                        /\ rows'[i].ends = rows[i].ends
  BY <1>1, RevokedRows DEF Ids
<1>3. ASSUME NEW i \in Ids, ActiveAt(rows'[i], now) PROVE ActiveAt(rows[i], now)
  BY <1>2, <1>3 DEF ActiveAt
<1> QED BY <1>2, <1>3 DEF Quiet, SameEvidence

LEMMA QuietReplaced ==
  ASSUME SessionsInv, NEW i \in Ids, NEW s \in Row, rows' = [rows EXCEPT ![i] = s],
         late \subseteq late', UNCHANGED now,
         ActiveAt(s, now) /\ i \notin late' => ActiveAt(rows[i], now)
  PROVE  Quiet /\ (s.auth = rows[i].auth => SameEvidence)
<1>1. RowsTyped /\ Ids = 1..Len(rows)
  BY IdsAre DEF SessionsInv, Shape
<1>2. Ids' = Ids /\ \A j \in Ids : rows'[j] = IF j = i THEN s ELSE rows[j]
  BY <1>1 DEF Ids
<1>3. Quiet
  BY <1>2 DEF Quiet
<1> QED BY <1>2, <1>3 DEF SameEvidence

LEMMA MarkedLate ==
  ASSUME NEW i
  PROVE  late \subseteq MarkLate(i) /\ (i \notin MarkLate(i) => ActiveAt(rows[i], now))
  BY DEF MarkLate

\* What a step does to evidence and to the set of active sessions.
LEMMA QuietTouch ==
  ASSUME SessionsInv, NEW c \in Slots, Touch(c) PROVE Quiet /\ SameEvidence
<1> DEFINE call == calls[c]
           i == call.id
           s == [rows[i] EXCEPT !.last = call.at]
<1>1. call \in RequestCalls /\ RequestInv(call, rows, now)
  BY CallAt, KindOf DEF Touch, CallInv
<1>2. i \in Ids /\ call.at \in 0..MaxTime
  BY <1>1 DEF RequestInv, RequestCalls, Ids
<1>3. CASE CanTouch(call)
  <2>1. s \in Row /\ s.auth = rows[i].auth
    BY <1>2, RowOf, SeenRow
  <2>2. rows' = [rows EXCEPT ![i] = s] /\ late' = MarkLate(i) /\ now' = now
    BY <1>3 DEF Touch
  <2> HIDE DEF s, i
  <2> QED BY <1>2, <2>1, <2>2, MarkedLate, QuietReplaced
<1>4. CASE ~CanTouch(call)
  BY <1>4, QuietRemain, StaysTyped DEF Touch
<1> QED BY <1>3, <1>4

LEMMA QuietOffer ==
  ASSUME SessionsInv, NEW i \in Ids, NEW b \in BOOLEAN,
         rows' = [rows EXCEPT ![i].reauth = b], UNCHANGED <<late, now>>
  PROVE  Quiet /\ SameEvidence
<1> DEFINE s == [rows[i] EXCEPT !.reauth = b]
<1>1. /\ s \in Row /\ s.auth = rows[i].auth /\ s.revoked = rows[i].revoked
      /\ s.last = rows[i].last /\ s.ends = rows[i].ends
  BY RowOf, OfferedRow
<1>2. rows' = [rows EXCEPT ![i] = s]
  OBVIOUS
<1> HIDE DEF s
<1>3. ActiveAt(s, now) => ActiveAt(rows[i], now)
  BY <1>1 DEF ActiveAt
<1> QED BY <1>1, <1>2, <1>3, QuietReplaced

LEMMA QuietStartLogout ==
  ASSUME SessionsInv, NEW c \in Slots, NEW i \in Ids, StartLogout(c, i)
  PROVE  Quiet /\ SameEvidence
<1> DEFINE s == [rows[i] EXCEPT !.last = now]
<1>1. CASE ActiveAt(rows[i], now)
  <2>1. s \in Row /\ s.auth = rows[i].auth
    BY RowOf, SeenRow, NowTyped DEF SessionsInv
  <2>2. rows' = [rows EXCEPT ![i] = s] /\ late' = late /\ now' = now
    BY <1>1 DEF StartLogout
  <2> HIDE DEF s
  <2> QED BY <1>1, <2>1, <2>2, QuietReplaced
<1>2. CASE ~ActiveAt(rows[i], now)
  BY <1>2, QuietRemain, StaysTyped DEF StartLogout
<1> QED BY <1>1, <1>2

LEMMA QuietRotate ==
  ASSUME SessionsInv, NEW c \in Slots, Rotate(c)
  PROVE  /\ Quiet /\ Ids' = Ids
         /\ \A i \in Ids : rows'[i].auth = rows[i].auth \/ rows'[i].auth >= revokedUpTo
<1> DEFINE call == calls[c]
           i == call.id
           s == Rotated(rows[i], call, issued + 1)
<1>1. call \in RotateCalls /\ RotateInv(call, rows, now)
  BY CallAt, KindOf DEF Rotate, CallInv
<1>2. i \in Ids
  BY <1>1 DEF RotateInv, Ids
<1>3. CASE Accepts(call.auth) /\ CanRotate(call)
  <2>1. rows' = [rows EXCEPT ![i] = s] /\ late' = MarkLate(i) /\ now' = now
    BY <1>3 DEF Rotate
  <2>2. /\ Ids = 1..Len(rows) /\ Ids' = Ids
        /\ \A j \in Ids : rows'[j] = IF j = i THEN s ELSE rows[j]
    BY <1>2, <2>1, IdsAre DEF Ids, SessionsInv, Shape
  <2>3. s.auth >= revokedUpTo
    BY <1>3 DEF Rotated, Accepts
  <2> HIDE DEF s, i
  <2>4. Quiet
    BY <1>2, <2>1, <2>2, MarkedLate DEF Quiet
  <2> QED BY <2>2, <2>3, <2>4
<1>4. CASE ~(Accepts(call.auth) /\ CanRotate(call))
  BY <1>4, QuietRemain, StaysTyped DEF Rotate, SameEvidence
<1> QED BY <1>3, <1>4

\* Evidence is what it was or is accepted by the watermark, which stays.
Vouched == /\ Ids' = Ids /\ revokedUpTo' = revokedUpTo
           /\ \A i \in Ids : rows'[i].auth = rows[i].auth \/ rows'[i].auth >= revokedUpTo

LEMMA QuietOrCreate ==
  ASSUME SessionsInv, Next
  PROVE  \/ Quiet /\ Vouched
         \/ Quiet /\ Ids' = Ids /\ \A i \in Ids : rows'[i].revoked
         \/ \E c \in Slots : Create(c)
<1> DEFINE Fine == \/ Quiet /\ Vouched
                   \/ Quiet /\ Ids' = Ids /\ \A i \in Ids : rows'[i].revoked
<1>1. Quiet /\ SameEvidence /\ revokedUpTo' = revokedUpTo => Fine
  BY DEF SameEvidence, Vouched
<1>2. UNCHANGED <<now, rows, late, revokedUpTo>> => Fine
  BY <1>1, QuietRemain, StaysTyped
<1>3. ASSUME NEW c \in Slots, CallSteps(c), ~Create(c) PROVE Fine
  <2>1. ASSUME NEW mfa \in BOOLEAN, NEW auth \in Evidence, StartLogin(c, mfa, auth) PROVE Fine
    BY <1>2, <2>1 DEF StartLogin, sessionVars
  <2>2. ASSUME NEW i \in Ids, StartRequest(c, i) PROVE Fine
    BY <1>2, <2>2 DEF StartRequest, sessionVars
  <2>3. ASSUME NEW i \in Ids, StartRevokeSubject(c, i) PROVE Fine
    BY <1>2, <2>3 DEF StartRevokeSubject, sessionVars
  <2>4. ASSUME NEW i \in Ids, NEW target \in Ids, StartRevokeManaged(c, i, target) PROVE Fine
    BY <1>2, <2>4 DEF StartRevokeManaged, sessionVars
  <2>5. ASSUME NEW i \in Ids, NEW auth \in Evidence, CompleteReauthentication(c, i, auth)
        PROVE  Fine
    <3>1. Quiet /\ SameEvidence
      BY <2>5, QuietOffer DEF CompleteReauthentication
    <3> QED BY <1>1, <2>5, <3>1 DEF CompleteReauthentication
  <2>6. ASSUME NEW i \in Ids, StartLogout(c, i) PROVE Fine
    BY <1>1, <2>6, QuietStartLogout DEF StartLogout
  <2>7. ASSUME Touch(c) PROVE Fine
    BY <1>1, <2>7, QuietTouch DEF Touch
  <2>8. ASSUME Rotate(c) PROVE Fine
    BY <2>8, QuietRotate DEF Rotate, Vouched
  <2>9. ASSUME RevokeCurrent(c) PROVE Fine
    BY <1>1, <2>9, QuietRevoked DEF RevokeCurrent
  <2>10. ASSUME RevokeManaged(c) PROVE Fine
    <3>1. (\E ids : rows' = Revoked(ids)) \/ rows' = rows
      BY <2>10 DEF RevokeManaged
    <3>2. UNCHANGED <<now, late, revokedUpTo>>
      BY <2>10 DEF RevokeManaged
    <3> QED BY <1>1, <1>2, <3>1, <3>2, QuietRevoked
  <2>11. ASSUME RevokeSubject(c) PROVE Fine
    <3>1. CASE rows' = Revoked(Ids) /\ UNCHANGED <<now, late>>
      <4>1. Quiet /\ Ids' = Ids
        BY <3>1, QuietRevoked DEF SameEvidence
      <4>2. \A i \in Ids : rows'[i].revoked
        BY <3>1, RevokedRows DEF SessionsInv, Shape
      <4> QED BY <4>1, <4>2
    <3>2. CASE UNCHANGED <<now, rows, late, revokedUpTo>>
      BY <1>2, <3>2
    <3> QED BY <2>11, <3>1, <3>2 DEF RevokeSubject
  <2> HIDE DEF Fine
  <2> QED BY <1>3, <2>1, <2>2, <2>3, <2>4, <2>5, <2>6, <2>7, <2>8, <2>9, <2>10, <2>11
          DEF CallSteps
<1>4. ASSUME NEW i \in Ids, StartReauthentication(i) PROVE Fine
  <2>1. Quiet /\ SameEvidence
    BY <1>4, QuietOffer DEF StartReauthentication
  <2> QED BY <1>1, <1>4, <2>1 DEF StartReauthentication
<1>5. ASSUME NEW op \in Operations, NEW key, Provision(op, key) PROVE Fine
  BY <1>2, <1>5 DEF Provision, sessionVars
<1>6. ASSUME Tick PROVE Fine
  <2>1. now' = now + 1 /\ now \in Nat /\ UNCHANGED <<rows, late, revokedUpTo>>
    BY <1>6, StaysTyped DEF Tick, sessionVars
  <2> QED BY <1>1, <2>1, QuietRemain
<1> HIDE DEF Fine
<1>7. Fine \/ \E c \in Slots : Create(c)
  BY <1>3, <1>4, <1>5, <1>6 DEF Next
<1> QED BY <1>7 DEF Fine

\* A login in flight when all sessions were revoked is refused when its sign-in
\* is from before.
LEMMA CreateEffect ==
  ASSUME SessionsInv, NEW c \in Slots, Create(c), Accepts(calls[c].auth)
  PROVE  /\ calls[c] \in LoginCalls /\ calls[c].at \in Nat /\ calls[c].at <= now
         /\ Ids' = Ids \cup {Len(rows) + 1} /\ Len(rows) + 1 \notin Ids
         /\ \A i \in Ids : rows'[i] = Revoked(Evicted(CountedAt(calls[c].at)))[i]
         /\ rows'[Len(rows) + 1] = NewRow(calls[c], issued + 1)
         /\ UNCHANGED <<now, late, revokedUpTo>>
<1> DEFINE call == calls[c]
<1>1. call \in LoginCalls /\ LoginInv(call, now)
  BY CallAt, KindOf DEF Create, CallInv
<1>2. call.at \in Nat /\ call.at <= now
  BY <1>1 DEF LoginCalls, LoginInv
<1>3. /\ issued < MaxIssued /\ Len(rows) < MaxSessions /\ issued' = issued + 1
      /\ rows' = Append(Revoked(Evicted(CountedAt(call.at))), NewRow(call, issued + 1))
      /\ UNCHANGED <<now, late, revokedUpTo>>
  BY DEF Create
<1> HIDE DEF call
<1>4. /\ Ids' = Ids \cup {Len(rows) + 1} /\ Len(rows) + 1 \notin Ids
      /\ \A i \in Ids : rows'[i] = Revoked(Evicted(CountedAt(call.at)))[i]
      /\ rows'[Len(rows) + 1] = NewRow(call, issued + 1)
  BY <1>1, <1>3, RowCreated, StaysTyped
<1> QED BY <1>1, <1>2, <1>3, <1>4 DEF call

(* Once all sessions of the user were revoked, no session is left or made    *)
(* that rests on a sign-in from before.                                      *)
THEOREM NoSessionFromBeforeRevocationAlways == Spec => []NoSessionFromBeforeRevocation
<1>1. Init => NoSessionFromBeforeRevocation
  BY DEF Init, NoSessionFromBeforeRevocation, Ids
<1>2. ASSUME SessionsInv, NoSessionFromBeforeRevocation, Next
      PROVE  NoSessionFromBeforeRevocation'
  <2>1. Ages
    BY <1>2, StepKeeps DEF RowsStep
  <2>2. CASE Vouched
    BY <1>2, <2>1, <2>2 DEF Vouched, Ages, Aged, NoSessionFromBeforeRevocation
  <2>3. CASE Ids' = Ids /\ \A i \in Ids : rows'[i].revoked
    BY <2>3 DEF NoSessionFromBeforeRevocation
  <2>4. ASSUME NEW c \in Slots, Create(c) PROVE NoSessionFromBeforeRevocation'
    <3>1. CASE Accepts(calls[c].auth)
      <4>1. /\ Ids' = Ids \cup {Len(rows) + 1} /\ revokedUpTo' = revokedUpTo
            /\ \A i \in Ids : rows'[i] = Revoked(Evicted(CountedAt(calls[c].at)))[i]
            /\ rows'[Len(rows) + 1] = NewRow(calls[c], issued + 1)
        BY <1>2, <2>4, <3>1, CreateEffect
      <4>2. \A i \in Ids : rows'[i].auth = rows[i].auth
        BY <1>2, <4>1, RevokedRows DEF SessionsInv, Shape
      <4>3. rows'[Len(rows) + 1].auth >= revokedUpTo
        BY <3>1, <4>1 DEF NewRow, Accepts
      <4> QED BY <1>2, <2>1, <4>1, <4>2, <4>3 DEF Ages, Aged, NoSessionFromBeforeRevocation
    <3>2. CASE ~Accepts(calls[c].auth)
      BY <1>2, <2>4, <3>2 DEF Create, NoSessionFromBeforeRevocation, Ids
    <3> QED BY <3>1, <3>2
  <2> QED BY <1>2, <2>2, <2>3, <2>4, QuietOrCreate
<1>3. ASSUME NoSessionFromBeforeRevocation, UNCHANGED vars PROVE NoSessionFromBeforeRevocation'
  BY <1>3 DEF NoSessionFromBeforeRevocation, vars, sessionVars, Ids
<1>4. SessionsInv /\ NoSessionFromBeforeRevocation /\ [Next]_vars
        => NoSessionFromBeforeRevocation'
  BY <1>2, <1>3
<1> QED BY <1>1, <1>4, SessionsInvariant, PTL DEF Spec

\* The sessions the limit counts.
ActiveNow == {i \in Ids \ late : ActiveAt(rows[i], now)}

LEMMA IdsFinite == ASSUME SessionsInv PROVE IsFiniteSet(Ids) /\ Ids \in SUBSET Nat
<1>1. Ids = 1..Len(rows) /\ Len(rows) \in Nat
  BY IdsAre DEF SessionsInv, Shape
<1> QED BY <1>1, FS_Interval

\* A session that is active now was active when the login was begun.
LEMMA ActiveWasCounted ==
  ASSUME SessionsInv, NEW at \in Nat, at <= now, NEW i \in Ids, ActiveAt(rows[i], now)
  PROVE  i \in CountedAt(at)
<1>1. rows[i].ends \in Nat /\ rows[i].last \in Nat /\ now \in Nat /\ Idle \in Nat
  BY RowOf, StaysTyped, BoundsTyped
<1> QED BY <1>1 DEF ActiveAt, CountedAt

LEMMA CreateWithinLimit ==
  ASSUME SessionsInv, NEW c \in Slots, Create(c), Accepts(calls[c].auth)
  PROVE  Cardinality(ActiveNow') <= MaxActive
<1> DEFINE counted == CountedAt(calls[c].at)
           kept == counted \ Evicted(counted)
           n == Len(rows)
<1>1. /\ calls[c].at \in Nat /\ calls[c].at <= now
      /\ Ids' = Ids \cup {n + 1} /\ UNCHANGED <<now, late>>
      /\ \A i \in Ids : rows'[i] = Revoked(Evicted(counted))[i]
  BY CreateEffect
<1>2. counted \in SUBSET Nat /\ IsFiniteSet(counted)
  BY IdsFinite, FS_Subset DEF CountedAt
<1>3. IsFiniteSet(kept) /\ Cardinality(kept) + 1 <= MaxActive
  BY <1>2, EvictionMakesRoom
<1>4. ASSUME NEW i \in Ids, ActiveAt(rows'[i], now') PROVE i \in kept
  <2>1. /\ rows'[i].revoked <=> rows[i].revoked \/ i \in Evicted(counted)
        /\ rows'[i].last = rows[i].last /\ rows'[i].ends = rows[i].ends
    BY <1>1, RevokedRows DEF SessionsInv, Shape
  <2>2. ActiveAt(rows[i], now) /\ i \notin Evicted(counted)
    BY <1>1, <1>4, <2>1 DEF ActiveAt
  <2> QED BY <1>1, <2>2, ActiveWasCounted
<1>5. ActiveNow' \subseteq kept \cup {n + 1}
  BY <1>1, <1>4 DEF ActiveNow
<1> HIDE DEF kept, n
<1>6. /\ IsFiniteSet(kept \cup {n + 1}) /\ Cardinality(kept) \in Nat
      /\ Cardinality(kept \cup {n + 1}) <= Cardinality(kept) + 1
      /\ Cardinality(kept \cup {n + 1}) \in Nat
  BY <1>3, FS_AddElement, FS_CardinalityType
<1>7. Cardinality(ActiveNow') <= Cardinality(kept \cup {n + 1}) /\ Cardinality(ActiveNow') \in Nat
  BY <1>5, <1>6, FS_Subset, FS_CardinalityType
<1>8. MaxActive \in Nat
  BY BoundsTyped
<1> QED BY <1>3, <1>6, <1>7, <1>8

(* At most MaxActive sessions are active, those that went idle during the    *)
(* very request that touched them apart.                                     *)
THEOREM ActiveWithinLimitAlways == Spec => []ActiveWithinLimit
<1>1. ActiveWithinLimit <=> Cardinality(ActiveNow) <= MaxActive
  BY DEF ActiveWithinLimit, ActiveNow
<1>2. ASSUME Init PROVE ActiveWithinLimit
  <2>1. ActiveNow = {}
    BY <1>2 DEF Init, ActiveNow, Ids
  <2> QED BY <1>1, <2>1, FS_EmptySet, BoundsTyped
<1>3. ASSUME SessionsInv, ActiveWithinLimit, Quiet PROVE ActiveWithinLimit'
  <2>1. ActiveNow' \subseteq ActiveNow
    BY <1>3 DEF Quiet, ActiveNow
  <2>2. IsFiniteSet(ActiveNow)
    BY <1>3, IdsFinite, FS_Subset DEF ActiveNow
  <2>3. /\ Cardinality(ActiveNow') <= Cardinality(ActiveNow)
        /\ Cardinality(ActiveNow') \in Nat /\ Cardinality(ActiveNow) \in Nat
    BY <2>1, <2>2, FS_Subset, FS_CardinalityType
  <2>4. MaxActive \in Nat /\ Cardinality(ActiveNow) <= MaxActive
    BY <1>1, <1>3, BoundsTyped
  <2> QED BY <2>3, <2>4 DEF ActiveWithinLimit, ActiveNow
<1>4. ASSUME SessionsInv, ActiveWithinLimit, NEW c \in Slots, Create(c)
      PROVE  ActiveWithinLimit'
  <2>1. CASE Accepts(calls[c].auth)
    BY <1>4, <2>1, CreateWithinLimit DEF ActiveWithinLimit, ActiveNow
  <2>2. CASE ~Accepts(calls[c].auth)
    BY <1>4, <2>2 DEF Create, ActiveWithinLimit, Ids
  <2> QED BY <2>1, <2>2
<1>5. ASSUME ActiveWithinLimit, UNCHANGED vars PROVE ActiveWithinLimit'
  BY <1>5 DEF ActiveWithinLimit, vars, sessionVars, Ids
<1>6. SessionsInv /\ ActiveWithinLimit /\ [Next]_vars => ActiveWithinLimit'
  BY <1>3, <1>4, <1>5, QuietOrCreate
<1> QED BY <1>2, <1>6, SessionsInvariant, PTL DEF Spec
=============================================================================
