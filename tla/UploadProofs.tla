---------------------------- MODULE UploadProofs ----------------------------
(***************************************************************************)
(* Proofs about Upload, for any requests, keys, documents and earlier      *)
(* uploads, any number of invocations and any bound on faults.             *)
(*                                                                         *)
(* OwnsInv: an invocation is alone with its job, and its key is bound to   *)
(* its request until it ends.  ObjectsInv: what an invocation has stored   *)
(* and what an admitted job needs is out of reach of every decision that   *)
(* the two collectors and the clean-ups have taken, unless the job is      *)
(* exposed.  RecordsInv: what a completed key replays was admitted.        *)
(***************************************************************************)
EXTENDS Upload, TLAPS

-----------------------------------------------------------------------------
(* The inductive invariants, by invocation and by job.                     *)

Owns(h) ==
  LET r == handler[h].req  j == handler[h].job IN
  /\ r \in Requests /\ j \in JobIds
  /\ r.key = None => j \in Fresh
  /\ r.key # None => /\ j = r.key
                     /\ idem[r.key].state = "processing"
                     /\ idem[r.key].req = r
OwnsInv ==
  /\ \A h \in Handlers : Working(h) => Owns(h)
  /\ \A g, h \in Handlers :
       Working(g) /\ Working(h) /\ handler[g].job = handler[h].job => g = h

\* No decision to remove an object is directed at o.
Spared(o) == /\ collector # None => collector # o
             /\ \A d \in DocIds : o \notin docs[d].keys

\* What the progress of an invocation says of its job and its object.
Placed(h) ==
  LET r == handler[h].req  j == handler[h].job IN
  /\ handler[h].at = "stored" /\ j \notin exposed =>
       ObjectOf(r, j) \in objects /\ Spared(ObjectOf(r, j))
  /\ handler[h].at = "cleanup" /\ Existing(j) => j \in exposed
  /\ handler[h].at = "conflict" /\ Existing(j) => ~SameSubmission(r, jobs[j].req)
  /\ handler[h].at = "admitted" =>
       jobs[j].state = "gone" \/ (Existing(j) /\ SameSubmission(r, jobs[j].req))

Kept(j) ==
  Existing(j) /\ docs[DocOf(jobs[j].req, j)].deletion # "emptied" =>
    ObjectOf(jobs[j].req, j) \in objects
Uncollected(j) ==
  Existing(j) /\ collector # None => collector # ObjectOf(jobs[j].req, j)

ObjectsInv ==
  /\ \A h \in Handlers : Working(h) => Placed(h)
  /\ \A j \in JobIds \ exposed : Kept(j) /\ Uncollected(j)
  /\ \A d \in DocIds : \A o \in docs[d].keys : o.doc = d

Recorded(k) ==
  idem[k].state = "completed" /\ idem[k].answer = "accepted" =>
    jobs[k].state = "gone" \/ (Existing(k) /\ SameSignature(jobs[k].req, idem[k].req))
RecordsInv == \A k \in Keys : Recorded(k)

-----------------------------------------------------------------------------
(* Objects and documents.                                                  *)

LEMMA ObjectsHaveTypes ==
  ASSUME NEW r \in Uploads, NEW j \in JobIds
  PROVE  ObjectOf(r, j) \in AllObjects /\ DocOf(r, j) \in DocIds
BY RequestsAssumption DEF AllObjects, DocOf, DocIds

\* The key of an object tells its document, its job and what was submitted.
LEMMA ObjectsTellTheirJobs ==
  ASSUME NEW r, NEW q, NEW i, NEW j
  PROVE  /\ ObjectOf(r, i).doc = DocOf(r, i)
         /\ ObjectOf(r, i) = ObjectOf(q, j) => i = j /\ SameSubmission(r, q)
         /\ SameSubmission(r, q) => ObjectOf(r, i) = ObjectOf(q, i)
BY DEF ObjectOf, DocOf, SameSubmission, SameSignature

LEMMA Namings == /\ None \notin Keys /\ None \notin JobIds /\ None \notin Requests
                 /\ Keys \subseteq JobIds /\ Fresh \subseteq JobIds
                 /\ Requests \subseteq Uploads
                 /\ JobIds \subseteq DocIds /\ Named \subseteq DocIds
                 /\ \A r \in Requests : r.key \in Keys \cup {None}
                 /\ \A k \in Keys : k \notin Fresh
BY RequestsAssumption, DistinctAssumption DEF Uploads, JobIds, DocIds

-----------------------------------------------------------------------------
(* Type correctness.                                                       *)

IdemSet == [state : {"absent", "processing", "completed"},
            req : Requests \cup {None}, answer : {None, "accepted", "duplicate"}]
JobSet == [req : Uploads \cup {None}, state : {"none", "open", "completed", "gone"}]
DocSet == [job : JobIds \cup {None}, deletion : {"none", "active", "pending", "emptied"},
           keys : SUBSET AllObjects]
HandlerSet == [at : {"idle", "reserved", "stored", "cleanup", "conflict", "failing",
               "admitted"}, req : Requests \cup {None}, job : JobIds \cup {None},
               gone : BOOLEAN]
Replies == {"none", "waiting", "accepted", "replayed", "duplicate", "refused"}

\* The parts of TypeOK, by the variables they speak of.
KeysTyped ==
  /\ idem \in [Keys -> IdemSet] /\ stuck \subseteq Keys
  /\ \A k \in Keys : idem[k].state = "absent" <=> idem[k].req = None
RowsTyped ==
  /\ \A o \in objects : o \in AllObjects
  /\ jobs \in [JobIds -> JobSet]
  /\ docs \in [DocIds -> DocSet]
  /\ \A d \in DocIds : docs[d].deletion = "none" <=> docs[d].job = None
  /\ \A j \in JobIds : jobs[j].state # "none" => jobs[j].req \in Uploads
RequestsTyped ==
  /\ handler \in [Handlers -> HandlerSet] /\ client \in [Requests -> Replies]
  /\ \A h \in Handlers : Working(h) =>
       handler[h].req \in Requests /\ handler[h].job \in JobIds
RestTyped ==
  /\ collector \in AllObjects \cup {None} /\ exposed \subseteq JobIds
  /\ faults \in 0..MaxFaults
KeysAnswered == \A k \in Keys : idem[k].state = "processing" =>
       k \in stuck \/ \E h \in Handlers : Holds(h, k)

Typed == KeysTyped /\ RowsTyped /\ RequestsTyped /\ RestTyped /\ KeysAnswered

LEMMA TypedIsTypeOK == Typed => TypeOK
BY DEF Typed, TypeOK, KeysTyped, RowsTyped, RequestsTyped, RestTyped, KeysAnswered,
       IdemSet, JobSet, DocSet, HandlerSet, Replies

LEMMA InitTyped == Init => Typed
<1> SUFFICES ASSUME Init PROVE Typed
  OBVIOUS
<1> USE Namings, PriorAssumption, BoundAssumption DEF Init
<1>1. KeysTyped /\ RequestsTyped /\ RestTyped /\ KeysAnswered
  BY DEF KeysTyped, RequestsTyped, RestTyped, KeysAnswered, IdemSet, HandlerSet, Replies,
         Absent, Idle, Working
<1>2. \A o \in objects : o \in AllObjects
  <2> SUFFICES ASSUME NEW j \in DOMAIN Prior PROVE ObjectOf(Prior[j], j) \in AllObjects
    OBVIOUS
  <2> Prior[j] \in Uploads /\ j \in JobIds BY DEF Uploads
  <2> QED BY ObjectsHaveTypes
<1>3. jobs \in [JobIds -> JobSet]
      /\ \A j \in JobIds : jobs[j].state # "none" => jobs[j].req \in Uploads
  BY DEF Uploads, NoJob, JobSet
<1>4. \A d \in DocIds : docs[d] \in DocSet /\ (docs[d].deletion = "none" <=> docs[d].job = None)
  <2> TAKE d \in DocIds
  <2>1. CASE \E j \in DOMAIN Prior : Prior[j].doc = d
    <3> DEFINE j == CHOOSE j \in DOMAIN Prior : Prior[j].doc = d
    <3>1. j \in JobIds BY <2>1
    <3>2. docs[d] = [job |-> j, deletion |-> "active", keys |-> {}] BY <2>1
    <3> HIDE DEF j
    <3> QED BY <3>1, <3>2 DEF DocSet
  <2>2. CASE ~ \E j \in DOMAIN Prior : Prior[j].doc = d
    <3>1. docs[d] = NoRow BY <2>2
    <3> QED BY <3>1 DEF NoRow, DocSet
  <2> QED BY <2>1, <2>2
<1>5. docs \in [DocIds -> DocSet]
  BY <1>4
<1> QED BY <1>1, <1>2, <1>3, <1>4, <1>5 DEF Typed, RowsTyped

-----------------------------------------------------------------------------
(* What the parts of a step do to the invocations, keys and rows.          *)

Ats == {"reserved", "stored", "cleanup", "conflict", "failing", "admitted"}

LEMMA GotoMoves ==
  ASSUME RequestsTyped, NEW h \in Handlers, NEW at \in Ats, Working(h), Goto(h, at)
  PROVE  /\ handler' \in [Handlers -> HandlerSet]
         /\ handler'[h].at = at
         /\ \A g \in Handlers : /\ handler'[g].req = handler[g].req
                                /\ handler'[g].job = handler[g].job
                                /\ handler'[g].gone = handler[g].gone
                                /\ g # h => handler'[g] = handler[g]
                                /\ Working(g)' <=> Working(g)
BY DEF RequestsTyped, HandlerSet, Goto, Ats, Working

LEMMA EndMoves ==
  ASSUME RequestsTyped, NEW h \in Handlers, Ended(h)
  PROVE  /\ handler' \in [Handlers -> HandlerSet]
         /\ ~Working(h)'
         /\ \A g \in Handlers : g # h => handler'[g] = handler[g] /\ (Working(g)' <=> Working(g))
BY DEF RequestsTyped, HandlerSet, Ended, Idle, Working

LEMMA KeyOfRequest ==
  ASSUME RequestsTyped, NEW h \in Handlers, Working(h)
  PROVE  /\ handler[h].req \in Requests /\ handler[h].job \in JobIds
         /\ handler[h].req.key \in Keys \cup {None}
BY Namings DEF RequestsTyped

\* Whatever ends an invocation, its key is completed or stuck.
Answers == {"accepted", "duplicate"}
LEMMA CompleteEffect ==
  ASSUME KeysTyped, RequestsTyped, NEW h \in Handlers, Working(h),
         NEW answer \in Answers, Complete(h, answer)
  PROVE  /\ KeysTyped'
         /\ \A k \in Keys : /\ k # handler[h].req.key => idem'[k] = idem[k]
                            /\ k \in stuck => k \in stuck'
         /\ handler[h].req.key # None =>
              \/ /\ idem'[handler[h].req.key].state = "completed"
                 /\ idem'[handler[h].req.key].req = handler[h].req
                 /\ idem'[handler[h].req.key].answer = answer
              \/ idem' = idem /\ handler[h].req.key \in stuck'
<1> DEFINE r == handler[h].req
<1>k. r \in Requests /\ r.key \in Keys \cup {None} /\ r # None
  BY KeyOfRequest, Namings
<1>1. CASE ~handler[h].gone /\ idem' = Completed(h, answer) /\ UNCHANGED <<stuck, faults>>
  <2>1. CASE r.key = None BY <1>1, <2>1 DEF Completed, KeysTyped
  <2>2. CASE r.key # None
    <3>1. idem' = [idem EXCEPT ![r.key] =
                     [state |-> "completed", req |-> r, answer |-> answer]]
      BY <1>1, <2>2 DEF Completed
    <3> HIDE DEF r
    <3>2. [state |-> "completed", req |-> r, answer |-> answer] \in IdemSet
      BY <1>k DEF IdemSet, Answers
    <3>3. KeysTyped' BY <3>1, <3>2, <1>k, <2>2, <1>1 DEF KeysTyped
    <3> QED BY <3>1, <3>3, <1>k, <2>2, <1>1 DEF r, KeysTyped
  <2> QED BY <2>1, <2>2
<1>2. CASE r.key # None /\ stuck' = stuck \cup {r.key} /\ UNCHANGED idem
  BY <1>2, <1>k DEF KeysTyped
<1>3. CASE r.key = None /\ UNCHANGED <<idem, stuck>>
  BY <1>3 DEF KeysTyped
<1> QED BY <1>1, <1>2, <1>3 DEF Complete

LEMMA AbortEffect ==
  ASSUME KeysTyped, RequestsTyped, NEW h \in Handlers, Abort(h)
  PROVE  /\ KeysTyped' /\ Working(h)
         /\ \A k \in Keys : /\ k # handler[h].req.key => idem'[k] = idem[k]
                            /\ k \in stuck => k \in stuck'
         /\ handler[h].req.key # None =>
              \/ idem'[handler[h].req.key] = Absent
              \/ idem' = idem /\ handler[h].req.key \in stuck'
<1> DEFINE r == handler[h].req
<1>w. Working(h) BY DEF Abort, Working
<1>k. r.key \in Keys \cup {None} BY <1>w, KeyOfRequest
<1>1. CASE r.key # None /\ idem' = [idem EXCEPT ![r.key] = Absent] /\ UNCHANGED stuck
  <2> HIDE DEF r
  <2> Absent \in IdemSet /\ Absent.state = "absent" /\ Absent.req = None
    BY DEF IdemSet, Absent
  <2> KeysTyped' BY <1>1, <1>k DEF KeysTyped
  <2> QED BY <1>1, <1>k, <1>w DEF KeysTyped, r
<1>2. CASE r.key # None /\ stuck' = stuck \cup {r.key} /\ UNCHANGED idem
  BY <1>2, <1>k, <1>w DEF KeysTyped
<1>3. CASE r.key = None /\ UNCHANGED <<idem, stuck>>
  BY <1>3, <1>w DEF KeysTyped
<1> QED BY <1>1, <1>2, <1>3 DEF Abort

LEMMA AdmittedRows ==
  ASSUME RowsTyped, RequestsTyped, NEW h \in Handlers, Working(h), Admitted(h)
  PROVE  /\ jobs' \in [JobIds -> JobSet] /\ docs' \in [DocIds -> DocSet]
         /\ jobs'[handler[h].job] = [req |-> handler[h].req, state |-> "open"]
         /\ \A j \in JobIds : /\ j # handler[h].job => jobs'[j] = jobs[j]
                              /\ jobs'[j].state # "none" => jobs'[j].req \in Uploads
         /\ \A d \in DocIds : /\ docs'[d].keys = docs[d].keys
                              /\ docs'[d].deletion # docs[d].deletion =>
                                   docs[d].deletion = "none" /\ docs'[d].deletion = "active"
                              /\ docs'[d].deletion = "none" <=> docs'[d].job = None
<1> DEFINE r == handler[h].req  j == handler[h].job  d == DocOf(r, j)
           row == [job |-> j, keys |-> docs[d].keys,
                   deletion |-> IF docs[d].deletion = "none" THEN "active"
                                ELSE docs[d].deletion]
<1>k. r \in Uploads /\ j \in JobIds /\ d \in DocIds /\ j # None
  BY KeyOfRequest, Namings, ObjectsHaveTypes
<1>1. jobs' = [jobs EXCEPT ![j] = [req |-> r, state |-> "open"]] /\ docs' = [docs EXCEPT ![d] = row]
  BY DEF Admitted
<1> HIDE DEF r, d
<1>2. [req |-> r, state |-> "open"] \in JobSet BY <1>k DEF JobSet
<1>3. docs[d] \in DocSet BY <1>k DEF RowsTyped
<1>4. row \in DocSet /\ row.deletion # "none" /\ row.job # None
  BY <1>3, <1>k DEF DocSet
<1>5. /\ row.keys = docs[d].keys
      /\ row.deletion # docs[d].deletion => docs[d].deletion = "none" /\ row.deletion = "active"
  OBVIOUS
<1> HIDE DEF row, j
<1>6. jobs' \in [JobIds -> JobSet] /\ docs' \in [DocIds -> DocSet]
  BY <1>1, <1>2, <1>4 DEF RowsTyped
<1>7. \A e \in DocIds : docs'[e] = IF e = d THEN row ELSE docs[e]
  BY <1>1 DEF RowsTyped
<1>8. \A i \in JobIds : jobs'[i] = IF i = j THEN [req |-> r, state |-> "open"] ELSE jobs[i]
  BY <1>1 DEF RowsTyped
<1>9. \A e \in DocIds : /\ docs'[e].keys = docs[e].keys
                        /\ docs'[e].deletion # docs[e].deletion =>
                             docs[e].deletion = "none" /\ docs'[e].deletion = "active"
                        /\ docs'[e].deletion = "none" <=> docs'[e].job = None
  BY <1>7, <1>4, <1>5 DEF RowsTyped
<1>10. \A i \in JobIds : jobs'[i].state # "none" => jobs'[i].req \in Uploads
  BY <1>8, <1>k DEF RowsTyped
<1> QED BY <1>6, <1>8, <1>9, <1>10, <1>k DEF r, j


-----------------------------------------------------------------------------
(* Every action keeps the types.                                           *)

LEMMA AnsweredWhileWorking ==
  ASSUME KeysAnswered, RequestsTyped, UNCHANGED <<idem, stuck>>,
         \A g \in Handlers : handler'[g].req = handler[g].req /\ (Working(g)' <=> Working(g))
  PROVE  KeysAnswered'
BY DEF KeysAnswered, Holds

\* An invocation ends and leaves its key completed, given back or stuck.
LEMMA AnsweredAtTheEnd ==
  ASSUME KeysAnswered, RequestsTyped, NEW h \in Handlers, Working(h), Ended(h),
         \A k \in Keys : /\ k # handler[h].req.key => idem'[k] = idem[k]
                         /\ k \in stuck => k \in stuck',
         LET k == handler[h].req.key IN
           k # None => idem'[k].state # "processing" \/ k \in stuck'
  PROVE  KeysAnswered'
<1> SUFFICES ASSUME NEW k \in Keys, idem'[k].state = "processing", k \notin stuck'
             PROVE  \E g \in Handlers : Holds(g, k)'
  BY DEF KeysAnswered
<1>1. k # handler[h].req.key BY Namings
<1>2. PICK g \in Handlers : Holds(g, k) BY <1>1 DEF KeysAnswered
<1>3. g # h BY <1>1, <1>2 DEF Holds
<1> QED BY <1>2, <1>3, EndMoves DEF Holds

LEMMA RefuseTyped == ASSUME Typed, NEW h \in Handlers, RefuseUpload(h) PROVE Typed'
<1> USE Namings, BoundAssumption DEF Typed, RefuseUpload
<1>w. Working(h) BY DEF Working
<1>g. "failing" \in Ats /\ Goto(h, "failing") BY DEF Ats
<1>1. KeysTyped' BY DEF KeysTyped
<1>2. RowsTyped'
  BY DEF RowsTyped
<1>3. RequestsTyped'
  BY <1>g, <1>w, GotoMoves DEF RequestsTyped
<1>4. RestTyped' BY <1>w, KeyOfRequest DEF RestTyped
<1>5. KeysAnswered' BY <1>g, <1>w, GotoMoves, AnsweredWhileWorking
<1> QED BY <1>1, <1>2, <1>3, <1>4, <1>5

LEMMA StoreTyped == ASSUME Typed, NEW h \in Handlers, StoreObject(h) PROVE Typed'
<1> USE Namings, BoundAssumption DEF Typed, StoreObject
<1>w. Working(h) BY DEF Working
<1>g. "stored" \in Ats /\ Goto(h, "stored") BY DEF Ats
<1>1. KeysTyped' BY DEF KeysTyped
<1>2. RowsTyped'
  <2> ObjectAt(h) \in AllObjects BY <1>w, KeyOfRequest, ObjectsHaveTypes DEF ObjectAt
  <2> QED BY DEF RowsTyped
<1>3. RequestsTyped'
  BY <1>g, <1>w, GotoMoves DEF RequestsTyped
<1>4. RestTyped' BY <1>w, KeyOfRequest DEF RestTyped, ObjectAt, Fault
<1>5. KeysAnswered' BY <1>g, <1>w, GotoMoves, AnsweredWhileWorking
<1> QED BY <1>1, <1>2, <1>3, <1>4, <1>5

LEMMA PrepareTyped == ASSUME Typed, NEW h \in Handlers, PrepareFails(h) PROVE Typed'
<1> USE Namings, BoundAssumption DEF Typed, PrepareFails
<1>w. Working(h) BY DEF Working
<1>g. "failing" \in Ats /\ Goto(h, "failing") BY DEF Ats
<1>1. KeysTyped' BY DEF KeysTyped
<1>2. RowsTyped'
  BY DEF RowsTyped
<1>3. RequestsTyped'
  BY <1>g, <1>w, GotoMoves DEF RequestsTyped
<1>4. RestTyped' BY <1>w, KeyOfRequest DEF RestTyped, Fault
<1>5. KeysAnswered' BY <1>g, <1>w, GotoMoves, AnsweredWhileWorking
<1> QED BY <1>1, <1>2, <1>3, <1>4, <1>5

LEMMA AdmitTyped == ASSUME Typed, NEW h \in Handlers, Admit(h) PROVE Typed'
<1> USE Namings, BoundAssumption DEF Typed, Admit
<1>w. Working(h) BY DEF Working
<1>g. \E at \in Ats : Goto(h, at) BY DEF Ats
<1>1. KeysTyped' BY DEF KeysTyped
<1>2. RowsTyped'
  <2>1. CASE Admitted(h)
    BY AdmittedRows, <2>1, <1>w DEF RowsTyped
  <2>2. CASE UNCHANGED <<jobs, docs>> BY <2>2 DEF RowsTyped
  <2> QED BY <2>1, <2>2
<1>3. RequestsTyped'
  BY <1>g, <1>w, GotoMoves DEF RequestsTyped
<1>4. RestTyped' BY <1>w, KeyOfRequest DEF RestTyped
<1>5. KeysAnswered' BY <1>g, <1>w, GotoMoves, AnsweredWhileWorking
<1> QED BY <1>1, <1>2, <1>3, <1>4, <1>5

LEMMA AdmitFailsTyped == ASSUME Typed, NEW h \in Handlers, AdmitFails(h) PROVE Typed'
<1> USE Namings, BoundAssumption DEF Typed, AdmitFails
<1>w. Working(h) BY DEF Working
<1>g. "cleanup" \in Ats /\ Goto(h, "cleanup") BY DEF Ats
<1>1. KeysTyped' BY DEF KeysTyped
<1>2. RowsTyped'
  <2>1. CASE Admitted(h)
    BY AdmittedRows, <2>1, <1>w DEF RowsTyped
  <2>2. CASE UNCHANGED <<jobs, docs>> BY <2>2 DEF RowsTyped
  <2> QED BY <2>1, <2>2
<1>3. RequestsTyped'
  BY <1>g, <1>w, GotoMoves DEF RequestsTyped
<1>4. RestTyped' BY <1>w, KeyOfRequest DEF RestTyped, Fault
<1>5. KeysAnswered' BY <1>g, <1>w, GotoMoves, AnsweredWhileWorking
<1> QED BY <1>1, <1>2, <1>3, <1>4, <1>5

LEMMA CleanUpTyped == ASSUME Typed, NEW h \in Handlers, CleanUp(h) PROVE Typed'
<1> USE Namings, BoundAssumption DEF Typed, CleanUp
<1>w. Working(h) BY DEF Working
<1>g. "failing" \in Ats /\ Goto(h, "failing") BY DEF Ats
<1>1. KeysTyped' BY DEF KeysTyped
<1>2. RowsTyped'
  BY DEF RowsTyped
<1>3. RequestsTyped'
  BY <1>g, <1>w, GotoMoves DEF RequestsTyped, Told, Replies
<1>4. RestTyped' BY <1>w, KeyOfRequest DEF RestTyped, Fault, Told
<1>5. KeysAnswered' BY <1>g, <1>w, GotoMoves, AnsweredWhileWorking
<1> QED BY <1>1, <1>2, <1>3, <1>4, <1>5

LEMMA DuplicateTyped == ASSUME Typed, NEW h \in Handlers, AnswerDuplicate(h) PROVE Typed'
<1> USE BoundAssumption DEF Typed, AnswerDuplicate
<1>w. Working(h) BY DEF Working
<1>e. Ended(h) OBVIOUS
<1>c. "duplicate" \in Answers /\ Complete(h, "duplicate") BY DEF Answers
<1>d. handler[h].req.key # None => \/ idem'[handler[h].req.key].state # "processing"
                                   \/ handler[h].req.key \in stuck'
  <2> SUFFICES ASSUME handler[h].req.key # None, handler[h].req.key \notin stuck'
               PROVE  idem'[handler[h].req.key].state # "processing"
    OBVIOUS
  <2>1. idem'[handler[h].req.key].state = "completed" BY <1>c, <1>w, CompleteEffect
  <2> QED BY <2>1
<1>1. KeysTyped' BY <1>w, <1>c, CompleteEffect
<1>2. RowsTyped' BY DEF RowsTyped
<1>3. RequestsTyped'
  BY <1>e, <1>w, EndMoves, KeyOfRequest DEF RequestsTyped, Told, Replies
<1>4. RestTyped' BY DEF RestTyped, Complete, Fault
<1>5. KeysAnswered'
  BY <1>w, <1>e, <1>c, <1>d, CompleteEffect, AnsweredAtTheEnd
<1> QED BY <1>1, <1>2, <1>3, <1>4, <1>5

LEMMA AcceptTyped == ASSUME Typed, NEW h \in Handlers, Accept(h) PROVE Typed'
<1> USE BoundAssumption DEF Typed, Accept
<1>w. Working(h) BY DEF Working
<1>e. Ended(h) OBVIOUS
<1>c. "accepted" \in Answers /\ Complete(h, "accepted") BY DEF Answers
<1>d. handler[h].req.key # None => \/ idem'[handler[h].req.key].state # "processing"
                                   \/ handler[h].req.key \in stuck'
  <2> SUFFICES ASSUME handler[h].req.key # None, handler[h].req.key \notin stuck'
               PROVE  idem'[handler[h].req.key].state # "processing"
    OBVIOUS
  <2>1. idem'[handler[h].req.key].state = "completed" BY <1>c, <1>w, CompleteEffect
  <2> QED BY <2>1
<1>1. KeysTyped' BY <1>w, <1>c, CompleteEffect
<1>2. RowsTyped' BY DEF RowsTyped
<1>3. RequestsTyped'
  BY <1>e, <1>w, EndMoves, KeyOfRequest DEF RequestsTyped, Told, Replies
<1>4. RestTyped' BY DEF RestTyped, Complete, Fault
<1>5. KeysAnswered'
  BY <1>w, <1>e, <1>c, <1>d, CompleteEffect, AnsweredAtTheEnd
<1> QED BY <1>1, <1>2, <1>3, <1>4, <1>5

LEMMA AbortTyped == ASSUME Typed, NEW h \in Handlers, Abort(h) PROVE Typed'
<1> USE BoundAssumption DEF Typed, Abort
<1>w. Working(h) BY DEF Working
<1>e. Ended(h) OBVIOUS
<1>1. KeysTyped' BY AbortEffect
<1>2. RowsTyped' BY DEF RowsTyped
<1>3. RequestsTyped'
  BY <1>e, <1>w, EndMoves, KeyOfRequest DEF RequestsTyped
<1>4. RestTyped' BY DEF RestTyped, Fault
<1>5. KeysAnswered'
  BY <1>w, <1>e, AbortEffect, KeyOfRequest, AnsweredAtTheEnd DEF KeysAnswered, Absent
<1> QED BY <1>1, <1>2, <1>3, <1>4, <1>5

LEMMA StartTyped == ASSUME Typed, NEW r \in Requests, Start(r) PROVE Typed'
<1> USE Namings, BoundAssumption DEF Typed, Start
<1>1. KeysTyped'
  BY DEF KeysTyped, IdemSet, Absent
<1>2. RowsTyped'
  BY DEF RowsTyped, JobSet, DocSet, Existing
<1>3. RequestsTyped'
  BY DEF RequestsTyped, HandlerSet, Replies, Idle, Working
<1>4. RestTyped'
  BY DEF RestTyped, RequestsTyped, RowsTyped, Working
<1>5. KeysAnswered'
  BY DEF KeysAnswered, KeysTyped, RequestsTyped, Absent, Holds, Working, Idle
<1> QED BY <1>1, <1>2, <1>3, <1>4, <1>5

LEMMA ReplyTyped == ASSUME Typed, NEW r \in Requests, ReserveReplyLost(r) PROVE Typed'
<1> USE Namings, BoundAssumption DEF Typed, ReserveReplyLost
<1>1. KeysTyped'
  BY DEF KeysTyped, IdemSet, Absent, Fault
<1>2. RowsTyped'
  BY DEF RowsTyped, JobSet, DocSet, Existing, Fault
<1>3. RequestsTyped'
  BY DEF RequestsTyped, HandlerSet, Replies, Idle, Working, Fault
<1>4. RestTyped'
  BY DEF RestTyped, RequestsTyped, RowsTyped, Working, Fault
<1>5. KeysAnswered'
  BY DEF KeysAnswered, KeysTyped, RequestsTyped, Absent, Holds, Working, Idle, Fault
<1> QED BY <1>1, <1>2, <1>3, <1>4, <1>5

LEMMA ReserveTyped == ASSUME Typed, NEW r \in Requests, NEW h \in Handlers, Reserve(r, h) PROVE Typed'
<1> USE Namings, BoundAssumption DEF Typed, Reserve
<1>1. KeysTyped'
  BY DEF KeysTyped, IdemSet, Absent, MaySend, Serve
<1>2. RowsTyped'
  BY DEF RowsTyped, JobSet, DocSet, Existing, MaySend, Serve
<1>3. RequestsTyped'
  <2>1. \A j \in JobIds : [at |-> "reserved", req |-> r, job |-> j, gone |-> FALSE] \in HandlerSet
    BY DEF HandlerSet
  <2>2. ASSUME NEW j \in JobIds, Serve(r, h, j), client' = client PROVE RequestsTyped'
    <3> DEFINE row == [at |-> "reserved", req |-> r, job |-> j, gone |-> FALSE]
    <3>1. handler' = [handler EXCEPT ![h] = row] /\ row \in HandlerSet BY <2>1, <2>2 DEF Serve
    <3>2. row.req \in Requests /\ row.job \in JobIds OBVIOUS
    <3> HIDE DEF row
    <3> QED BY <3>1, <3>2, <2>2 DEF RequestsTyped, Working
  <2>3. ASSUME handler' = handler, \E a \in Replies : client' = [client EXCEPT ![r] = a]
        PROVE  RequestsTyped'
    BY <2>3 DEF RequestsTyped, Working
  <2> QED BY <2>2, <2>3 DEF Replies
<1>4. RestTyped'
  BY DEF RestTyped, RequestsTyped, RowsTyped, Working, MaySend, Serve
<1>5. KeysAnswered'
  BY DEF KeysAnswered, KeysTyped, RequestsTyped, Absent, Holds, Working, Idle, MaySend, Serve
<1> QED BY <1>1, <1>2, <1>3, <1>4, <1>5

LEMMA DisconnectTyped == ASSUME Typed, NEW h \in Handlers, Disconnect(h) PROVE Typed'
<1> USE Namings, BoundAssumption DEF Typed, Disconnect
<1>1. KeysTyped'
  BY DEF KeysTyped, IdemSet, Absent, Fault
<1>2. RowsTyped'
  BY DEF RowsTyped, JobSet, DocSet, Existing, Fault
<1>3. RequestsTyped'
  <2>1. handler[h] \in HandlerSet BY DEF RequestsTyped
  <2>2. [handler[h] EXCEPT !.gone = TRUE] \in HandlerSet BY <2>1 DEF HandlerSet
  <2>3. handler' = [handler EXCEPT ![h] = [handler[h] EXCEPT !.gone = TRUE]] OBVIOUS
  <2>4. \A g \in Handlers : /\ handler'[g].at = handler[g].at /\ handler'[g].req = handler[g].req
                            /\ handler'[g].job = handler[g].job
    BY <2>1, <2>3 DEF RequestsTyped, HandlerSet
  <2>5. handler' \in [Handlers -> HandlerSet] BY <2>2, <2>3 DEF RequestsTyped
  <2> QED BY <2>4, <2>5 DEF RequestsTyped, Working
<1>4. RestTyped'
  BY DEF RestTyped, RequestsTyped, RowsTyped, Working, Fault
<1>5. KeysAnswered'
  BY DEF KeysAnswered, KeysTyped, RequestsTyped, Absent, Holds, Working, Idle, Fault
<1> QED BY <1>1, <1>2, <1>3, <1>4, <1>5

LEMMA CrashTyped == ASSUME Typed, NEW h \in Handlers, Crash(h) PROVE Typed'
<1> USE Namings, BoundAssumption DEF Typed, Crash
<1>1. KeysTyped'
  <2> handler[h].req.key \in Keys \cup {None} BY KeyOfRequest
  <2> QED BY DEF KeysTyped
<1>2. RowsTyped'
  BY DEF RowsTyped, JobSet, DocSet, Existing, Fault, Ended
<1>3. RequestsTyped'
  BY DEF RequestsTyped, HandlerSet, Replies, Idle, Working, Fault, Ended
<1>4. RestTyped'
  BY DEF RestTyped, RequestsTyped, RowsTyped, Working, Fault, Ended
<1>5. KeysAnswered'
  BY DEF KeysAnswered, KeysTyped, RequestsTyped, Absent, Holds, Working, Idle, Fault, Ended
<1> QED BY <1>1, <1>2, <1>3, <1>4, <1>5

LEMMA LapseTyped == ASSUME Typed, NEW k \in Keys, Lapse(k) PROVE Typed'
<1> USE Namings, BoundAssumption DEF Typed, Lapse
<1>1. KeysTyped'
  BY DEF KeysTyped, IdemSet, Absent, Lapses
<1>2. RowsTyped'
  BY DEF RowsTyped, JobSet, DocSet, Existing, Lapses
<1>3. RequestsTyped'
  BY DEF RequestsTyped, HandlerSet, Replies, Idle, Working, Lapses
<1>4. RestTyped'
  BY DEF RestTyped, RequestsTyped, RowsTyped, Working, Lapses
<1>5. KeysAnswered'
  BY DEF KeysAnswered, KeysTyped, RequestsTyped, Absent, Holds, Working, Idle, Lapses
<1> QED BY <1>1, <1>2, <1>3, <1>4, <1>5

LEMMA CompleteJobTyped == ASSUME Typed, NEW j \in JobIds, CompleteJob(j) PROVE Typed'
<1> USE Namings, BoundAssumption DEF Typed, CompleteJob
<1>1. KeysTyped'
  BY DEF KeysTyped, IdemSet, Absent
<1>2. RowsTyped'
  BY DEF RowsTyped, JobSet, DocSet, Existing
<1>3. RequestsTyped'
  BY DEF RequestsTyped, HandlerSet, Replies, Idle, Working
<1>4. RestTyped'
  BY DEF RestTyped, RequestsTyped, RowsTyped, Working
<1>5. KeysAnswered'
  BY DEF KeysAnswered, KeysTyped, RequestsTyped, Absent, Holds, Working, Idle
<1> QED BY <1>1, <1>2, <1>3, <1>4, <1>5

LEMMA AcceptDeletionTyped == ASSUME Typed, NEW d \in DocIds, AcceptDeletion(d) PROVE Typed'
<1> USE Namings, BoundAssumption DEF Typed, AcceptDeletion
<1>1. KeysTyped'
  BY DEF KeysTyped, IdemSet, Absent, JobsOf
<1>2. RowsTyped'
  <2> DEFINE named == {ObjectOf(jobs[j].req, j) : j \in JobsOf(d)}
             row == [job |-> docs[d].job, deletion |-> "pending", keys |-> named]
  <2>1. docs' = [docs EXCEPT ![d] = row] /\ docs[d].job # None BY DEF RowsTyped
  <2>2. named \subseteq AllObjects
    BY ObjectsHaveTypes DEF RowsTyped, JobsOf, Existing
  <2>3. row \in DocSet /\ row.deletion # "none" /\ row.job # None
    <3> HIDE DEF named
    <3> docs[d] \in DocSet BY DEF RowsTyped
    <3> QED BY <2>2, <2>1 DEF DocSet
  <2> HIDE DEF named, row, AcceptDeletion
  <2>4. docs' \in [DocIds -> DocSet] /\ \A e \in DocIds : docs'[e] = IF e = d THEN row ELSE docs[e]
    BY <2>1, <2>3 DEF RowsTyped
  <2>5. objects' = objects /\ jobs' = jobs BY DEF AcceptDeletion
  <2> QED BY <2>3, <2>4, <2>5 DEF RowsTyped
<1>3. RequestsTyped'
  BY DEF RequestsTyped, HandlerSet, Replies, Idle, Working, JobsOf
<1>4. RestTyped'
  BY DEF RestTyped, RequestsTyped, RowsTyped, Working, JobsOf
<1>5. KeysAnswered'
  BY DEF KeysAnswered, KeysTyped, RequestsTyped, Absent, Holds, Working, Idle, JobsOf
<1> QED BY <1>1, <1>2, <1>3, <1>4, <1>5

LEMMA DeleteObjectsTyped == ASSUME Typed, NEW d \in DocIds, DeleteObjects(d) PROVE Typed'
<1> USE Namings, BoundAssumption DEF Typed, DeleteObjects
<1>1. KeysTyped'
  BY DEF KeysTyped, IdemSet, Absent
<1>2. RowsTyped'
  BY DEF RowsTyped, JobSet, DocSet, Existing
<1>3. RequestsTyped'
  BY DEF RequestsTyped, HandlerSet, Replies, Idle, Working
<1>4. RestTyped'
  BY DEF RestTyped, RequestsTyped, RowsTyped, Working
<1>5. KeysAnswered'
  BY DEF KeysAnswered, KeysTyped, RequestsTyped, Absent, Holds, Working, Idle
<1> QED BY <1>1, <1>2, <1>3, <1>4, <1>5

LEMMA FinishDeletionTyped == ASSUME Typed, NEW d \in DocIds, FinishDeletion(d) PROVE Typed'
<1> USE Namings, BoundAssumption DEF Typed, FinishDeletion
<1>1. KeysTyped'
  BY DEF KeysTyped, IdemSet, Absent, JobsOf, NoRow
<1>2. RowsTyped'
  BY DEF RowsTyped, JobSet, DocSet, Existing, JobsOf, NoRow
<1>3. RequestsTyped'
  BY DEF RequestsTyped, HandlerSet, Replies, Idle, Working, JobsOf, NoRow
<1>4. RestTyped'
  BY DEF RestTyped, RequestsTyped, RowsTyped, Working, JobsOf, NoRow
<1>5. KeysAnswered'
  BY DEF KeysAnswered, KeysTyped, RequestsTyped, Absent, Holds, Working, Idle, JobsOf, NoRow
<1> QED BY <1>1, <1>2, <1>3, <1>4, <1>5

LEMMA FindOrphanTyped == ASSUME Typed, NEW o \in objects, FindOrphan(o) PROVE Typed'
<1> USE Namings, BoundAssumption DEF Typed, FindOrphan
<1>1. KeysTyped'
  BY DEF KeysTyped, IdemSet, Absent
<1>2. RowsTyped'
  BY DEF RowsTyped, JobSet, DocSet, Existing
<1>3. RequestsTyped'
  BY DEF RequestsTyped, HandlerSet, Replies, Idle, Working
<1>4. RestTyped'
  BY DEF RestTyped, RequestsTyped, RowsTyped, Working
<1>5. KeysAnswered'
  BY DEF KeysAnswered, KeysTyped, RequestsTyped, Absent, Holds, Working, Idle
<1> QED BY <1>1, <1>2, <1>3, <1>4, <1>5

LEMMA DeleteOrphanTyped == ASSUME Typed, DeleteOrphan PROVE Typed'
<1> USE Namings, BoundAssumption DEF Typed, DeleteOrphan
<1>1. KeysTyped'
  BY DEF KeysTyped, IdemSet, Absent
<1>2. RowsTyped'
  BY DEF RowsTyped, JobSet, DocSet, Existing
<1>3. RequestsTyped'
  BY DEF RequestsTyped, HandlerSet, Replies, Idle, Working
<1>4. RestTyped'
  BY DEF RestTyped, RequestsTyped, RowsTyped, Working
<1>5. KeysAnswered'
  BY DEF KeysAnswered, KeysTyped, RequestsTyped, Absent, Holds, Working, Idle
<1> QED BY <1>1, <1>2, <1>3, <1>4, <1>5

LEMMA StepTyped == Typed /\ [Next]_vars => Typed'
<1> SUFFICES ASSUME Typed, [Next]_vars PROVE Typed'
  OBVIOUS
<1>1. ASSUME NEW r \in Requests, Start(r) \/ ReserveReplyLost(r) PROVE Typed'
  BY <1>1, StartTyped, ReplyTyped
<1>2. ASSUME NEW r \in Requests, NEW h \in Handlers, Reserve(r, h) PROVE Typed'
  BY <1>2, ReserveTyped
<1>3. ASSUME NEW h \in Handlers, HandlerStep(h) PROVE Typed'
  BY <1>3, RefuseTyped, DuplicateTyped, StoreTyped, PrepareTyped, AdmitTyped,
     AdmitFailsTyped, CleanUpTyped, AbortTyped, AcceptTyped DEF HandlerStep
<1>4. ASSUME NEW h \in Handlers, Disconnect(h) \/ Crash(h) PROVE Typed'
  BY <1>4, DisconnectTyped, CrashTyped
<1>5. ASSUME NEW k \in Keys, Lapse(k) PROVE Typed'
  BY <1>5, LapseTyped
<1>6. ASSUME NEW j \in JobIds, CompleteJob(j) PROVE Typed'
  BY <1>6, CompleteJobTyped
<1>7. ASSUME NEW d \in DocIds, AcceptDeletion(d) \/ DeleteObjects(d) \/ FinishDeletion(d)
      PROVE  Typed'
  BY <1>7, AcceptDeletionTyped, DeleteObjectsTyped, FinishDeletionTyped
<1>8. ASSUME NEW o \in objects, FindOrphan(o) PROVE Typed'
  BY <1>8, FindOrphanTyped
<1>9. CASE DeleteOrphan
  BY <1>9, DeleteOrphanTyped
<1>10. CASE UNCHANGED vars
  BY <1>10 DEF vars, Typed, KeysTyped, RowsTyped, RequestsTyped, RestTyped, KeysAnswered,
               Working, Holds
<1> QED BY <1>1, <1>2, <1>3, <1>4, <1>5, <1>6, <1>7, <1>8, <1>9, <1>10 DEF Next

\* Whatever the requests, keys and faults, the records, rows and invocations
\* are well formed, and a key that is processing belongs to an invocation
\* unless a crash, a failed call or a lost client has left it behind.
THEOREM UploadTyped == Spec => []TypeOK
<1>1. Init => Typed BY InitTyped
<1>2. Typed /\ [Next]_vars => Typed' BY StepTyped
<1>3. Typed => TypeOK BY TypedIsTypeOK
<1> QED BY <1>1, <1>2, <1>3, PTL DEF Spec

-----------------------------------------------------------------------------
(* An invocation is alone with its job and its key.                        *)

LEMMA InitOwns == Init => OwnsInv
BY DEF Init, OwnsInv, Working, Idle

\* Nothing an invocation owns is touched.
LEMMA OwnsFrame ==
  ASSUME OwnsInv, RequestsTyped,
         \A g \in Handlers : /\ handler'[g].req = handler[g].req
                             /\ handler'[g].job = handler[g].job
                             /\ Working(g)' <=> Working(g),
         \A k \in Keys : (\E g \in Handlers : Holds(g, k)) => idem'[k] = idem[k]
  PROVE  OwnsInv'
<1>1. ASSUME NEW h \in Handlers, Working(h)' PROVE Owns(h)'
  <2>1. Owns(h) /\ Working(h) BY <1>1 DEF OwnsInv
  <2>2. CASE handler[h].req.key = None BY <2>1, <2>2 DEF Owns
  <2>3. CASE handler[h].req.key # None
    <3>1. handler[h].req.key \in Keys BY <2>1, <2>3, KeyOfRequest
    <3>2. Holds(h, handler[h].req.key) BY <2>1 DEF Holds
    <3>3. idem'[handler[h].req.key] = idem[handler[h].req.key] BY <3>1, <3>2
    <3> QED BY <2>1, <2>3, <3>3 DEF Owns
  <2> QED BY <2>2, <2>3
<1> QED BY <1>1 DEF OwnsInv

\* Two invocations do not share a key, nor a job.
LEMMA OwnersDiffer ==
  ASSUME OwnsInv, RequestsTyped, NEW g \in Handlers, NEW h \in Handlers, g # h,
         Working(g), Working(h)
  PROVE  /\ handler[g].job # handler[h].job
         /\ handler[g].req.key # None => handler[g].req.key # handler[h].req.key
BY DEF OwnsInv, Owns

LEMMA OwnsAtTheEnd ==
  ASSUME OwnsInv, RequestsTyped, NEW h \in Handlers, Working(h), Ended(h),
         \A k \in Keys : k # handler[h].req.key => idem'[k] = idem[k]
  PROVE  OwnsInv'
<1>1. \A g \in Handlers : Working(g)' =>
        Working(g) /\ g # h /\ handler'[g] = handler[g]
  BY EndMoves
<1>2. ASSUME NEW g \in Handlers, Working(g)' PROVE Owns(g)'
  <2>1. Owns(g) /\ Working(g) /\ g # h /\ handler'[g] = handler[g]
    BY <1>1, <1>2 DEF OwnsInv
  <2>2. CASE handler[g].req.key = None BY <2>1, <2>2 DEF Owns
  <2>3. CASE handler[g].req.key # None
    <3>1. handler[g].req.key \in Keys /\ handler[g].req.key # handler[h].req.key
      BY <2>1, <2>3, KeyOfRequest, OwnersDiffer
    <3> QED BY <2>1, <2>3, <3>1 DEF Owns
  <2> QED BY <2>2, <2>3
<1> QED BY <1>1, <1>2 DEF OwnsInv

LEMMA ServeOwns ==
  ASSUME OwnsInv, Typed, NEW r \in Requests, NEW h \in Handlers, Reserve(r, h)
  PROVE  OwnsInv'
<1> USE Namings DEF Typed
<1>1. CASE UNCHANGED handler /\ UNCHANGED idem
  BY <1>1, OwnsFrame DEF Working
<1>2. ASSUME NEW j \in JobIds, Serve(r, h, j), ~Working(h),
             \A g \in Handlers : Working(g) => handler[g].job # j,
             \/ r.key = None /\ j \in Fresh /\ UNCHANGED idem
             \/ /\ r.key = j /\ r.key # None /\ idem[r.key] = Absent
                /\ idem' = [idem EXCEPT ![r.key] =
                     [state |-> "processing", req |-> r, answer |-> None]]
      PROVE OwnsInv'
  <2>1. /\ handler'[h].req = r /\ handler'[h].job = j /\ Working(h)'
        /\ \A g \in Handlers \ {h} : handler'[g] = handler[g] /\ (Working(g)' <=> Working(g))
    BY <1>2 DEF Serve, RequestsTyped, Working
  <2>2. Owns(h)' BY <1>2, <2>1 DEF Owns, KeysTyped
  <2>3. ASSUME NEW g \in Handlers \ {h}, Working(g) PROVE Owns(g)' /\ handler'[g].job # j
    <3>1. Owns(g) /\ handler[g].job # j BY <2>3, <1>2 DEF OwnsInv
    <3>2. handler[g].req.key # None =>
            handler[g].req.key \in Keys /\ idem'[handler[g].req.key] = idem[handler[g].req.key]
      BY <3>1, <2>3, <1>2, KeyOfRequest DEF Owns, KeysTyped
    <3> QED BY <3>1, <3>2, <2>1, <2>3 DEF Owns
  <2> QED BY <2>1, <2>2, <2>3 DEF OwnsInv
<1>3. CASE r.key = None /\ ~(UNCHANGED handler /\ UNCHANGED idem)
  <2>1. PICK j \in Fresh : /\ \A g \in Handlers : handler[g].job # j
                           /\ Serve(r, h, j)
    BY <1>3 DEF Reserve
  <2> QED BY <2>1, <1>2, <1>3 DEF Reserve, MaySend
<1>4. CASE r.key # None /\ ~(UNCHANGED handler /\ UNCHANGED idem)
  <2>1. /\ idem[r.key] = Absent /\ Serve(r, h, r.key) /\ r.key \in Keys
        /\ idem' = [idem EXCEPT ![r.key] = [state |-> "processing", req |-> r, answer |-> None]]
    BY <1>4 DEF Reserve
  <2>2. ASSUME NEW g \in Handlers, Working(g) PROVE handler[g].job # r.key
    <3>1. Owns(g) BY <2>2 DEF OwnsInv
    <3>2. idem[r.key].state # "processing" BY <2>1 DEF Absent
    <3> QED BY <2>1, <3>1, <3>2 DEF Owns
  <2> QED BY <2>1, <2>2, <1>2, <1>4 DEF Reserve, MaySend
<1> QED BY <1>1, <1>3, <1>4

LEMMA StepOwns == OwnsInv /\ Typed /\ [Next]_vars => OwnsInv'
<1> SUFFICES ASSUME OwnsInv, Typed, [Next]_vars PROVE OwnsInv'
  OBVIOUS
<1> USE DEF Typed
<1>1. ASSUME NEW r \in Requests, ReserveReplyLost(r) PROVE OwnsInv'
  <2>1. idem[r.key].state # "processing" /\ r.key # None BY <1>1 DEF ReserveReplyLost, Absent
  <2>2. \A g \in Handlers : ~Holds(g, r.key) BY <2>1 DEF Holds, OwnsInv, Owns
  <2>3. \A k \in Keys : k # r.key => idem'[k] = idem[k] BY <1>1 DEF ReserveReplyLost, KeysTyped
  <2> QED BY <1>1, <2>2, <2>3, OwnsFrame DEF ReserveReplyLost, Working
<1>2. ASSUME NEW r \in Requests, NEW h \in Handlers, Reserve(r, h) PROVE OwnsInv'
  BY <1>2, ServeOwns
<1>3. ASSUME NEW h \in Handlers, Working(h), UNCHANGED idem, \E at \in Ats : Goto(h, at)
      PROVE  OwnsInv'
  BY <1>3, GotoMoves, OwnsFrame
<1>4. ASSUME NEW h \in Handlers,
             RefuseUpload(h) \/ StoreObject(h) \/ PrepareFails(h) \/ Admit(h) \/ AdmitFails(h)
               \/ CleanUp(h)
      PROVE  OwnsInv'
  <2>1. Working(h) /\ UNCHANGED idem
    BY <1>4 DEF RefuseUpload, StoreObject, PrepareFails, Admit, AdmitFails, CleanUp, Working
  <2>2. \E at \in Ats : Goto(h, at)
    BY <1>4 DEF RefuseUpload, StoreObject, PrepareFails, Admit, AdmitFails, CleanUp, Ats
  <2> QED BY <1>3, <2>1, <2>2
<1>5. ASSUME NEW h \in Handlers, AnswerDuplicate(h) \/ Accept(h) PROVE OwnsInv'
  <2>1. Working(h) /\ Ended(h) /\ \E answer \in Answers : Complete(h, answer)
    BY <1>5 DEF AnswerDuplicate, Accept, Working, Answers
  <2> QED BY <2>1, CompleteEffect, OwnsAtTheEnd
<1>6. ASSUME NEW h \in Handlers, Abort(h) PROVE OwnsInv'
  <2>1. Ended(h) BY <1>6 DEF Abort
  <2> QED BY <1>6, <2>1, AbortEffect, OwnsAtTheEnd
<1>7. ASSUME NEW h \in Handlers, Disconnect(h) PROVE OwnsInv'
  <2>1. \A g \in Handlers : /\ handler'[g].at = handler[g].at /\ handler'[g].req = handler[g].req
                            /\ handler'[g].job = handler[g].job
    BY <1>7 DEF Disconnect, RequestsTyped, HandlerSet
  <2> QED BY <1>7, <2>1, OwnsFrame DEF Disconnect, Working
<1>8. ASSUME NEW h \in Handlers, Crash(h) PROVE OwnsInv'
  BY <1>8, OwnsAtTheEnd DEF Crash
<1>9. ASSUME NEW k \in Keys, Lapse(k) PROVE OwnsInv'
  <2>1. \A l \in Keys : l # k => idem'[l] = idem[l] BY <1>9 DEF Lapse, KeysTyped
  <2> QED BY <1>9, <2>1, OwnsFrame DEF Lapse, Working
<1>10. CASE UNCHANGED <<idem, handler>>
  BY <1>10, OwnsFrame DEF Working
<1>11. ASSUME NEW h \in Handlers, HandlerStep(h) PROVE OwnsInv'
  BY <1>11, <1>4, <1>5, <1>6 DEF HandlerStep
<1>12. \/ \E r \in Requests : ReserveReplyLost(r) \/ \E h \in Handlers : Reserve(r, h)
       \/ \E h \in Handlers : HandlerStep(h) \/ Disconnect(h) \/ Crash(h)
       \/ \E k \in Keys : Lapse(k)
       \/ UNCHANGED <<idem, handler>>
  BY DEF Next, vars, Start, CompleteJob, AcceptDeletion, DeleteObjects, FinishDeletion,
         FindOrphan, DeleteOrphan
<1> QED BY <1>1, <1>2, <1>7, <1>8, <1>9, <1>10, <1>11, <1>12


-----------------------------------------------------------------------------
(* Objects stay out of reach of the decisions to remove them.              *)

LEMMA InitObjects == Init => ObjectsInv
<1> SUFFICES ASSUME Init PROVE ObjectsInv
  OBVIOUS
<1> USE Namings, PriorAssumption DEF Init
<1>1. \A h \in Handlers : ~Working(h) BY DEF Working, Idle
<1>2. ASSUME NEW j \in JobIds PROVE Kept(j) /\ Uncollected(j)
  <2>1. CASE j \in DOMAIN Prior
    <3>1. jobs[j].req = Prior[j] /\ ObjectOf(Prior[j], j) \in objects BY <2>1
    <3> QED BY <3>1 DEF Kept, Uncollected
  <2>2. CASE j \notin DOMAIN Prior BY <2>2 DEF Kept, Uncollected, Existing, NoJob
  <2> QED BY <2>1, <2>2
<1>3. ASSUME NEW d \in DocIds PROVE docs[d].keys = {}
  <2>1. CASE \E j \in DOMAIN Prior : Prior[j].doc = d BY <2>1
  <2>2. CASE ~ \E j \in DOMAIN Prior : Prior[j].doc = d BY <2>2 DEF NoRow
  <2> QED BY <2>1, <2>2
<1> QED BY <1>1, <1>2, <1>3 DEF ObjectsInv

\* Invocations that stay where they are, with their job as it is, keep their
\* place if no object of theirs is removed or sentenced.
LEMMA PlaceKept ==
  ASSUME NEW g \in Handlers, Placed(g), exposed \subseteq exposed',
         handler'[g].at = handler[g].at, handler'[g].req = handler[g].req,
         handler'[g].job = handler[g].job, jobs'[handler[g].job] = jobs[handler[g].job],
         handler[g].at = "stored" /\ handler[g].job \notin exposed' /\ ObjectAt(g) \in objects
           /\ Spared(ObjectAt(g)) => ObjectAt(g) \in objects' /\ Spared(ObjectAt(g))'
  PROVE  Placed(g)'
BY DEF Placed, Existing, ObjectAt

\* A step that changes nothing of the bucket, the tables and the collectors,
\* and takes invocations only to where nothing is promised.
LEMMA ObjectsFrame ==
  ASSUME ObjectsInv, UNCHANGED <<objects, jobs, docs, collector, exposed>>,
         \A g \in Handlers : \/ handler'[g].at \in {"idle", "reserved", "failing"}
                             \/ /\ handler'[g].at = handler[g].at
                                /\ handler'[g].req = handler[g].req
                                /\ handler'[g].job = handler[g].job
  PROVE  ObjectsInv'
<1>1. ASSUME NEW g \in Handlers, Working(g)' PROVE Placed(g)'
  <2>1. CASE handler'[g].at \in {"idle", "reserved", "failing"} BY <2>1 DEF Placed
  <2>2. CASE handler'[g].at \notin {"idle", "reserved", "failing"}
    <3>1. /\ handler'[g].at = handler[g].at /\ handler'[g].req = handler[g].req
          /\ handler'[g].job = handler[g].job
      BY <2>2
    <3>2. Placed(g) BY <1>1, <3>1 DEF ObjectsInv, Working
    <3>3. ObjectAt(g)' = ObjectAt(g) BY <3>1 DEF ObjectAt
    <3>4. \A o : Spared(o) => Spared(o)' BY DEF Spared
    <3>5. jobs'[handler[g].job] = jobs[handler[g].job] /\ objects' = objects /\ exposed' = exposed
      OBVIOUS
    <3> QED BY <3>1, <3>2, <3>3, <3>4, <3>5, PlaceKept
  <2> QED BY <2>1, <2>2
<1>2. \A j \in JobIds \ exposed' : Kept(j)' /\ Uncollected(j)'
  BY DEF ObjectsInv, Kept, Uncollected, Existing
<1> QED BY <1>1, <1>2 DEF ObjectsInv

LEMMA StoreObjects ==
  ASSUME ObjectsInv, OwnsInv, Typed, NEW h \in Handlers, StoreObject(h)
  PROVE  ObjectsInv'
<1> USE DEF Typed
<1>w. Working(h) /\ "stored" \in Ats /\ Goto(h, "stored") BY DEF StoreObject, Working, Ats
<1>m. /\ handler'[h].at = "stored"
      /\ \A g \in Handlers : /\ handler'[g].req = handler[g].req
                             /\ handler'[g].job = handler[g].job
                             /\ g # h => handler'[g] = handler[g]
                             /\ Working(g)' <=> Working(g)
  BY <1>w, GotoMoves
<1>u. /\ UNCHANGED <<jobs, docs, collector>> /\ exposed \subseteq exposed'
      /\ objects' = objects \cup {ObjectAt(h)}
      /\ Doomed(ObjectAt(h)) => handler[h].job \in exposed'
  BY DEF StoreObject
<1>1. ASSUME NEW g \in Handlers, Working(g)' PROVE Placed(g)'
  <2>1. CASE g = h
    <3>1. ObjectAt(h) \in objects' BY <1>u
    <3>o. ObjectAt(h)' = ObjectAt(h) BY <1>m DEF ObjectAt
    <3>2. handler[h].job \notin exposed' => Spared(ObjectAt(h))'
      BY <1>u, <3>o DEF Spared, Doomed
    <3> QED BY <3>o, <3>1, <3>2, <2>1, <1>m DEF Placed, ObjectAt
  <2>2. CASE g # h
    <3>1. Placed(g) BY <1>1, <1>m DEF ObjectsInv
    <3>2. Spared(ObjectAt(g)) => Spared(ObjectAt(g))' BY <1>u, <1>m DEF Spared, ObjectAt
    <3> QED BY <2>2, <1>m, <1>u, <3>1, <3>2, PlaceKept
  <2> QED BY <2>1, <2>2
<1>2. ASSUME NEW j \in JobIds \ exposed' PROVE Kept(j)' /\ Uncollected(j)'
  BY <1>u DEF ObjectsInv, Kept, Uncollected, Existing
<1> QED BY <1>1, <1>2, <1>u DEF ObjectsInv

\* The rows that an admission writes, or none.
LEMMA AdmitObjects ==
  ASSUME ObjectsInv, OwnsInv, Typed, NEW h \in Handlers, Admit(h) \/ AdmitFails(h)
  PROVE  ObjectsInv'
<1> DEFINE r == handler[h].req  j == handler[h].job
<1> USE DEF Typed
<1>w. Working(h) /\ handler[h].at = "stored" /\ \E at \in Ats : Goto(h, at)
  BY DEF Admit, AdmitFails, Working, Ats
<1>m. \A g \in Handlers : /\ handler'[g].req = handler[g].req
                          /\ handler'[g].job = handler[g].job
                          /\ g # h => handler'[g] = handler[g]
                          /\ Working(g)' <=> Working(g)
  BY <1>w, GotoMoves
<1>k. r \in Requests /\ r \in Uploads /\ j \in JobIds BY <1>w, KeyOfRequest, Namings
<1>p. Placed(h) BY <1>w DEF ObjectsInv
<1>u. UNCHANGED <<objects, collector>> /\ exposed \subseteq exposed'
  BY DEF Admit, AdmitFails
<1>r. /\ \A i \in JobIds : i # j => jobs'[i] = jobs[i]
      /\ \A d \in DocIds : /\ docs'[d].keys = docs[d].keys
                           /\ docs'[d].deletion = "emptied" <=> docs[d].deletion = "emptied"
      /\ UNCHANGED jobs \/ (~Existing(j) /\ jobs'[j] = [req |-> r, state |-> "open"])
  <2>1. CASE ~Existing(j) /\ Admitted(h) BY <2>1, <1>w, AdmittedRows
  <2>2. CASE UNCHANGED <<jobs, docs>> BY <2>2
  <2> QED BY <2>1, <2>2 DEF Admit, AdmitFails
<1>s. \A o : Spared(o) => Spared(o)' BY <1>u, <1>r DEF Spared
<1>1. ASSUME NEW g \in Handlers, Working(g)', g # h PROVE Placed(g)'
  <2>1. Placed(g) /\ handler[g].job # j
    BY <1>1, <1>m, <1>w, OwnersDiffer DEF ObjectsInv
  <2>2. jobs'[handler[g].job] = jobs[handler[g].job] BY <2>1, <1>r, <1>1, <1>m, KeyOfRequest
  <2>3. ObjectAt(g)' = ObjectAt(g) BY <1>m DEF ObjectAt
  <2> QED BY <2>1, <2>2, <2>3, <1>1, <1>m, <1>u, <1>s, PlaceKept
<1>2. Placed(h)'
  <2>1. CASE AdmitFails(h)
    <3>1. handler'[h].at = "cleanup" BY <2>1, <1>w, GotoMoves DEF AdmitFails, Ats
    <3>2. jobs'[j].state \notin {"none", "gone"} => j \in exposed' BY <2>1 DEF AdmitFails
    <3> QED BY <3>1, <3>2, <1>m DEF Placed, Existing
  <2>2. CASE Admit(h)
    <3>1. CASE ~Existing(j) /\ Admitted(h) /\ Goto(h, "admitted")
      <4>1. handler'[h].at = "admitted" BY <3>1, <1>w, GotoMoves DEF Ats
      <4>2. jobs'[j] = [req |-> r, state |-> "open"] BY <3>1, <1>w, AdmittedRows
      <4>3. SameSubmission(r, r) BY DEF SameSubmission, SameSignature
      <4> QED BY <4>1, <4>2, <4>3, <1>m DEF Placed, Existing
    <3>2. CASE AdmitRepeats(h) /\ Goto(h, "admitted") /\ UNCHANGED <<jobs, docs>>
      <4>1. handler'[h].at = "admitted" BY <3>2, <1>w, GotoMoves DEF Ats
      <4> QED BY <4>1, <3>2, <1>m DEF Placed, Existing, AdmitRepeats
    <3>3. CASE Existing(j) /\ ~AdmitRepeats(h) /\ Goto(h, "conflict") /\ UNCHANGED <<jobs, docs>>
      <4>1. handler'[h].at = "conflict" BY <3>3, <1>w, GotoMoves DEF Ats
      <4> QED BY <4>1, <3>3, <1>m DEF Placed, Existing, AdmitRepeats
    <3> QED BY <2>2, <3>1, <3>2, <3>3 DEF Admit
  <2> QED BY <2>1, <2>2
<1>3. ASSUME NEW i \in JobIds \ exposed' PROVE Kept(i)' /\ Uncollected(i)'
  <2>1. Kept(i) /\ Uncollected(i) BY <1>3, <1>u DEF ObjectsInv
  <2>2. CASE jobs'[i] = jobs[i]
    <3>1. Existing(i) => DocOf(jobs[i].req, i) \in DocIds
      BY ObjectsHaveTypes DEF RowsTyped, Existing
    <3> QED BY <2>1, <2>2, <3>1, <1>u, <1>r DEF Kept, Uncollected, Existing
  <2>3. CASE i = j /\ jobs'[j] = [req |-> r, state |-> "open"]
    <3>1. ObjectOf(r, j) \in objects /\ Spared(ObjectOf(r, j))
      BY <2>3, <1>3, <1>u, <1>p, <1>w DEF Placed
    <3> QED BY <2>3, <3>1, <1>u DEF Kept, Uncollected, Spared
  <2> QED BY <2>2, <2>3, <1>r
<1>4. \A d \in DocIds : \A o \in docs'[d].keys : o.doc = d BY <1>r DEF ObjectsInv
<1> QED BY <1>1, <1>2, <1>3, <1>4 DEF ObjectsInv

\* The clean-up removes the object of an invocation that has admitted nothing,
\* unless it does not know that it has.
LEMMA CleanUpObjects ==
  ASSUME ObjectsInv, OwnsInv, Typed, NEW h \in Handlers, CleanUp(h)
  PROVE  ObjectsInv'
<1> DEFINE j == handler[h].job
<1> USE DEF Typed
<1>w. Working(h) /\ Goto(h, "failing") /\ "failing" \in Ats BY DEF CleanUp, Working, Ats
<1>m. /\ handler'[h].at = "failing"
      /\ \A g \in Handlers : /\ handler'[g].req = handler[g].req
                             /\ handler'[g].job = handler[g].job
                             /\ g # h => handler'[g] = handler[g]
                             /\ Working(g)' <=> Working(g)
  BY <1>w, GotoMoves
<1>u. /\ UNCHANGED <<jobs, docs, collector, exposed>>
      /\ \A o : o \in objects => o \in objects' \/ o = ObjectAt(h)
  BY DEF CleanUp
<1>p. Placed(h) /\ handler[h].at \in {"cleanup", "conflict"}
  BY <1>w DEF CleanUp, ObjectsInv
<1>1. ASSUME NEW g \in Handlers, Working(g)' PROVE Placed(g)'
  <2>1. CASE g = h BY <2>1, <1>m DEF Placed
  <2>2. CASE g # h
    <3>1. Placed(g) /\ handler[g].job # j
      BY <1>1, <2>2, <1>m, <1>w, OwnersDiffer DEF ObjectsInv
    <3>2. ObjectAt(g) # ObjectAt(h) BY <3>1, ObjectsTellTheirJobs DEF ObjectAt
    <3>3. ObjectAt(g)' = ObjectAt(g) BY <1>m DEF ObjectAt
    <3>4. \A o : Spared(o) => Spared(o)' BY <1>u DEF Spared
    <3> QED BY <2>2, <3>1, <3>2, <3>3, <3>4, <1>m, <1>u, PlaceKept
  <2> QED BY <2>1, <2>2
<1>2. ASSUME NEW i \in JobIds \ exposed' PROVE Kept(i)' /\ Uncollected(i)'
  <2>1. Kept(i) /\ Uncollected(i) /\ i \notin exposed BY <1>2, <1>u DEF ObjectsInv
  <2>2. Existing(i) => ObjectOf(jobs[i].req, i) # ObjectAt(h)
    <3> SUFFICES ASSUME Existing(i), ObjectOf(jobs[i].req, i) = ObjectAt(h) PROVE FALSE
      OBVIOUS
    <3>1. i = j /\ SameSubmission(jobs[i].req, handler[h].req)
      BY ObjectsTellTheirJobs DEF ObjectAt
    <3>2. SameSubmission(handler[h].req, jobs[j].req)
      BY <3>1 DEF SameSubmission, SameSignature
    <3> QED BY <3>1, <3>2, <2>1, <1>p DEF Placed
  <2> QED BY <2>1, <2>2, <1>u DEF Kept, Uncollected, Existing
<1> QED BY <1>1, <1>2, <1>u DEF ObjectsInv


LEMMA CompleteJobObjects ==
  ASSUME ObjectsInv, Typed, NEW i \in JobIds, CompleteJob(i)
  PROVE  ObjectsInv'
<1> USE DEF Typed
<1>u. UNCHANGED <<objects, docs, handler, collector, exposed>> BY DEF CompleteJob
<1>j. \A j \in JobIds : /\ jobs'[j].req = jobs[j].req
                        /\ jobs'[j].state = jobs[j].state \/ (Existing(j) /\ jobs'[j].state = "completed")
  BY DEF CompleteJob, RowsTyped, JobSet, Existing
<1>1. ASSUME NEW g \in Handlers, Working(g)' PROVE Placed(g)'
  <2>1. Placed(g) /\ handler[g].job \in JobIds
    BY <1>1, <1>u, KeyOfRequest DEF ObjectsInv, Working
  <2> QED BY <2>1, <1>u, <1>j DEF Placed, Existing, Spared
<1>2. ASSUME NEW j \in JobIds \ exposed' PROVE Kept(j)' /\ Uncollected(j)'
  BY <1>u, <1>j DEF ObjectsInv, Kept, Uncollected, Existing
<1> QED BY <1>1, <1>2, <1>u DEF ObjectsInv

\* The objects that a deletion names belong to its document; a job whose
\* invocation had one of them stored and not yet admitted is exposed.
LEMMA AcceptDeletionObjects ==
  ASSUME ObjectsInv, Typed, NEW d \in DocIds, AcceptDeletion(d)
  PROVE  ObjectsInv'
<1> DEFINE named == {ObjectOf(jobs[j].req, j) : j \in JobsOf(d)}
<1> USE DEF Typed
<1>u. UNCHANGED <<objects, jobs, handler, collector>> /\ exposed \subseteq exposed'
  BY DEF AcceptDeletion
<1>d. \A e \in DocIds : /\ e # d => docs'[e] = docs[e]
                        /\ docs'[d].deletion = "pending" /\ docs'[d].keys = named
  BY DEF AcceptDeletion, RowsTyped
<1>x. \A g \in Handlers : handler[g].at = "stored" /\ ObjectAt(g) \in docs'[d].keys =>
        handler[g].job \in exposed'
  BY DEF AcceptDeletion
<1>1. ASSUME NEW g \in Handlers, Working(g)' PROVE Placed(g)'
  <2>1. Placed(g) BY <1>1, <1>u DEF ObjectsInv, Working
  <2>2. ObjectAt(g)' = ObjectAt(g) BY <1>u DEF ObjectAt
  <2>3. handler[g].at = "stored" /\ handler[g].job \notin exposed' /\ Spared(ObjectAt(g)) =>
          Spared(ObjectAt(g))'
    BY <1>u, <1>d, <1>x, <2>2 DEF Spared
  <2> QED BY <2>1, <2>2, <2>3, <1>u, PlaceKept
<1>2. ASSUME NEW j \in JobIds \ exposed' PROVE Kept(j)' /\ Uncollected(j)'
  <2>1. Kept(j) /\ Uncollected(j) BY <1>2, <1>u DEF ObjectsInv
  <2>2. Existing(j) => DocOf(jobs[j].req, j) \in DocIds
    BY ObjectsHaveTypes DEF RowsTyped, Existing
  <2>3. docs[d].deletion # "emptied" BY DEF AcceptDeletion
  <2> HIDE DEF named
  <2>4. Kept(j)' BY <2>1, <2>2, <2>3, <1>u, <1>d DEF Kept, Existing
  <2> QED BY <2>1, <2>4, <1>u DEF Uncollected, Existing
<1>3. \A o \in named : o.doc = d BY ObjectsTellTheirJobs DEF JobsOf
<1> HIDE DEF named
<1>4. ASSUME NEW e \in DocIds, NEW o \in docs'[e].keys PROVE o.doc = e
  BY <1>3, <1>4, <1>d DEF ObjectsInv
<1> QED BY <1>1, <1>2, <1>4 DEF ObjectsInv

LEMMA DeleteObjectsObjects ==
  ASSUME ObjectsInv, Typed, NEW d \in DocIds, DeleteObjects(d)
  PROVE  ObjectsInv'
<1> USE DEF Typed
<1>u. UNCHANGED <<jobs, handler, collector, exposed>> /\ objects' = objects \ docs[d].keys
  BY DEF DeleteObjects
<1>d. \A e \in DocIds : /\ docs'[e].keys = docs[e].keys
                        /\ e # d => docs'[e] = docs[e]
                        /\ docs'[d].deletion = "emptied"
  BY DEF DeleteObjects, RowsTyped, DocSet
<1>1. ASSUME NEW g \in Handlers, Working(g)' PROVE Placed(g)'
  <2>1. Placed(g) BY <1>1, <1>u DEF ObjectsInv, Working
  <2>2. ObjectAt(g)' = ObjectAt(g) BY <1>u DEF ObjectAt
  <2>3. Spared(ObjectAt(g)) => Spared(ObjectAt(g))' /\ ObjectAt(g) \notin docs[d].keys
    BY <1>u, <1>d, <2>2 DEF Spared
  <2> QED BY <2>1, <2>2, <2>3, <1>u, PlaceKept
<1>2. ASSUME NEW j \in JobIds \ exposed' PROVE Kept(j)' /\ Uncollected(j)'
  <2>1. Kept(j) /\ Uncollected(j) BY <1>2, <1>u DEF ObjectsInv
  <2>2. Uncollected(j)' BY <2>1, <1>u DEF Uncollected, Existing
  <2>3. ASSUME Existing(j), docs'[DocOf(jobs[j].req, j)].deletion # "emptied"
        PROVE  ObjectOf(jobs[j].req, j) \in objects'
    <3>1. DocOf(jobs[j].req, j) \in DocIds
      BY <2>3, ObjectsHaveTypes DEF RowsTyped, Existing
    <3>2. DocOf(jobs[j].req, j) # d BY <2>3, <1>d
    <3>3. ObjectOf(jobs[j].req, j) \in objects
      BY <2>1, <2>3, <3>1, <3>2, <1>d DEF Kept
    <3>4. ObjectOf(jobs[j].req, j) \notin docs[d].keys
      BY <3>2, ObjectsTellTheirJobs DEF ObjectsInv
    <3> QED BY <3>3, <3>4, <1>u
  <2> QED BY <2>2, <2>3, <1>u DEF Kept, Existing
<1> QED BY <1>1, <1>2, <1>d DEF ObjectsInv

LEMMA FinishDeletionObjects ==
  ASSUME ObjectsInv, Typed, NEW d \in DocIds, FinishDeletion(d)
  PROVE  ObjectsInv'
<1> USE DEF Typed
<1>u. UNCHANGED <<objects, handler, collector, exposed>> BY DEF FinishDeletion
<1>d. \A e \in DocIds : /\ docs'[e].keys \subseteq docs[e].keys
                        /\ e # d => docs'[e] = docs[e]
  BY DEF FinishDeletion, RowsTyped, NoRow
<1>j. \A j \in JobIds : \/ jobs'[j] = jobs[j] /\ j \notin JobsOf(d)
                        \/ jobs'[j].state = "gone" /\ jobs'[j].req = jobs[j].req
  BY DEF FinishDeletion, RowsTyped, JobSet
<1>s. \A o : Spared(o) => Spared(o)' BY <1>u, <1>d DEF Spared
<1>1. ASSUME NEW g \in Handlers, Working(g)' PROVE Placed(g)'
  <2>1. Placed(g) /\ handler[g].job \in JobIds
    BY <1>1, <1>u, KeyOfRequest DEF ObjectsInv, Working
  <2>2. ObjectAt(g)' = ObjectAt(g) BY <1>u DEF ObjectAt
  <2>3. CASE jobs'[handler[g].job] = jobs[handler[g].job]
    BY <2>1, <2>2, <2>3, <1>u, <1>s, PlaceKept
  <2>4. CASE jobs'[handler[g].job].state = "gone"
    BY <2>1, <2>4, <1>u, <1>s DEF Placed, Existing
  <2> QED BY <2>1, <2>3, <2>4, <1>j
<1>2. ASSUME NEW j \in JobIds \ exposed' PROVE Kept(j)' /\ Uncollected(j)'
  <2>1. Kept(j) /\ Uncollected(j) BY <1>2, <1>u DEF ObjectsInv
  <2>2. CASE jobs'[j].state = "gone" BY <2>2 DEF Kept, Uncollected, Existing
  <2>3. CASE jobs'[j] = jobs[j] /\ j \notin JobsOf(d)
    <3>1. Existing(j) => DocOf(jobs[j].req, j) \in DocIds \ {d}
      BY <2>3, ObjectsHaveTypes DEF RowsTyped, Existing, JobsOf
    <3> QED BY <2>1, <2>3, <3>1, <1>u, <1>d DEF Kept, Uncollected, Existing
  <2> QED BY <2>2, <2>3, <1>j
<1> QED BY <1>1, <1>2, <1>d DEF ObjectsInv

LEMMA FindOrphanObjects ==
  ASSUME ObjectsInv, Typed, NEW o \in objects, FindOrphan(o)
  PROVE  ObjectsInv'
<1> USE DEF Typed
<1>u. UNCHANGED <<objects, jobs, docs, handler, exposed>> /\ collector' = o
  BY DEF FindOrphan
<1>1. ASSUME NEW g \in Handlers, Working(g)' PROVE Placed(g)'
  <2>1. Placed(g) /\ ObjectAt(g) # o
    BY <1>1, <1>u DEF ObjectsInv, Working, FindOrphan
  <2>2. ObjectAt(g)' = ObjectAt(g) BY <1>u DEF ObjectAt
  <2>3. Spared(ObjectAt(g)) => Spared(ObjectAt(g))' BY <2>1, <2>2, <1>u DEF Spared
  <2> QED BY <2>1, <2>2, <2>3, <1>u, PlaceKept
<1>2. ASSUME NEW j \in JobIds \ exposed' PROVE Kept(j)' /\ Uncollected(j)'
  <2>1. Kept(j) BY <1>2, <1>u DEF ObjectsInv
  <2>2. Existing(j) => ObjectOf(jobs[j].req, j) # o BY DEF FindOrphan, Referenced
  <2> QED BY <2>1, <2>2, <1>u DEF Kept, Uncollected, Existing
<1> QED BY <1>1, <1>2, <1>u DEF ObjectsInv

LEMMA DeleteOrphanObjects ==
  ASSUME ObjectsInv, Typed, DeleteOrphan
  PROVE  ObjectsInv'
<1> USE DEF Typed
<1>u. /\ UNCHANGED <<jobs, docs, handler, exposed>> /\ collector' = None /\ collector # None
      /\ objects' = objects \ {collector}
  BY DEF DeleteOrphan
<1>1. ASSUME NEW g \in Handlers, Working(g)' PROVE Placed(g)'
  <2>1. Placed(g) BY <1>1, <1>u DEF ObjectsInv, Working
  <2>2. ObjectAt(g)' = ObjectAt(g) BY <1>u DEF ObjectAt
  <2>3. Spared(ObjectAt(g)) => Spared(ObjectAt(g))' /\ ObjectAt(g) # collector
    BY <2>2, <1>u DEF Spared
  <2> QED BY <2>1, <2>2, <2>3, <1>u, PlaceKept
<1>2. ASSUME NEW j \in JobIds \ exposed' PROVE Kept(j)' /\ Uncollected(j)'
  <2>1. Kept(j) /\ Uncollected(j) BY <1>2, <1>u DEF ObjectsInv
  <2> QED BY <2>1, <1>u DEF Kept, Uncollected, Existing
<1> QED BY <1>1, <1>2, <1>u DEF ObjectsInv

LEMMA StepObjects == ObjectsInv /\ OwnsInv /\ Typed /\ [Next]_vars => ObjectsInv'
<1> SUFFICES ASSUME ObjectsInv, OwnsInv, Typed, [Next]_vars PROVE ObjectsInv'
  OBVIOUS
<1>1. ASSUME UNCHANGED <<objects, jobs, docs, collector, exposed>>,
             \A g \in Handlers : \/ handler'[g].at \in {"idle", "reserved", "failing"}
                                 \/ /\ handler'[g].at = handler[g].at
                                    /\ handler'[g].req = handler[g].req
                                    /\ handler'[g].job = handler[g].job
      PROVE  ObjectsInv'
  BY <1>1, ObjectsFrame
<1>2. CASE UNCHANGED <<objects, jobs, docs, collector, exposed, handler>>
  BY <1>1, <1>2
<1>3. ASSUME NEW r \in Requests, NEW h \in Handlers, Reserve(r, h) PROVE ObjectsInv'
  <2>1. UNCHANGED <<objects, jobs, docs, collector, exposed>> BY <1>3 DEF Reserve
  <2>2. handler' = handler \/ \E j \in JobIds : Serve(r, h, j) BY <1>3, Namings DEF Reserve
  <2>3. \A g \in Handlers : handler'[g] = handler[g] \/ handler'[g].at = "reserved"
    BY <2>2 DEF Serve, Typed, RequestsTyped
  <2> QED BY <1>1, <2>1, <2>3
<1>4. ASSUME NEW h \in Handlers, RefuseUpload(h) \/ PrepareFails(h) PROVE ObjectsInv'
  <2>1. Working(h) /\ Goto(h, "failing") /\ UNCHANGED <<objects, jobs, docs, collector, exposed>>
    BY <1>4 DEF RefuseUpload, PrepareFails, Working
  <2>2. \A g \in Handlers : handler'[g] = handler[g] \/ handler'[g].at = "failing"
    BY <2>1, GotoMoves DEF Ats, Typed
  <2> QED BY <1>1, <2>1, <2>2
<1>5. ASSUME NEW h \in Handlers, AnswerDuplicate(h) \/ Accept(h) \/ Abort(h) \/ Crash(h)
      PROVE  ObjectsInv'
  <2>1. Ended(h) /\ UNCHANGED <<objects, jobs, docs, collector, exposed>>
    BY <1>5 DEF AnswerDuplicate, Accept, Abort, Crash
  <2>2. \A g \in Handlers : handler'[g] = handler[g] \/ handler'[g].at = "idle"
    BY <2>1 DEF Ended, Idle, Typed, RequestsTyped
  <2> QED BY <1>1, <2>1, <2>2
<1>6. ASSUME NEW h \in Handlers, Disconnect(h) PROVE ObjectsInv'
  <2>1. \A g \in Handlers : /\ handler'[g].at = handler[g].at /\ handler'[g].req = handler[g].req
                            /\ handler'[g].job = handler[g].job
    BY <1>6 DEF Disconnect, Typed, RequestsTyped, HandlerSet
  <2>2. UNCHANGED <<objects, jobs, docs, collector, exposed>> BY <1>6 DEF Disconnect
  <2> QED BY <1>1, <2>1, <2>2
<1>7. ASSUME NEW h \in Handlers, HandlerStep(h) PROVE ObjectsInv'
  BY <1>7, <1>4, <1>5, StoreObjects, AdmitObjects, CleanUpObjects DEF HandlerStep
<1>8. ASSUME NEW d \in DocIds, AcceptDeletion(d) \/ DeleteObjects(d) \/ FinishDeletion(d)
      PROVE  ObjectsInv'
  BY <1>8, AcceptDeletionObjects, DeleteObjectsObjects, FinishDeletionObjects
<1>9. \/ \E r \in Requests : \E h \in Handlers : Reserve(r, h)
      \/ \E h \in Handlers : HandlerStep(h) \/ Disconnect(h) \/ Crash(h)
      \/ \E j \in JobIds : CompleteJob(j)
      \/ \E d \in DocIds : AcceptDeletion(d) \/ DeleteObjects(d) \/ FinishDeletion(d)
      \/ \E o \in objects : FindOrphan(o)
      \/ DeleteOrphan
      \/ UNCHANGED <<objects, jobs, docs, collector, exposed, handler>>
  BY DEF Next, vars, Start, ReserveReplyLost, Lapse
<1> QED BY <1>2, <1>3, <1>5, <1>6, <1>7, <1>8, <1>9, CompleteJobObjects, FindOrphanObjects,
           DeleteOrphanObjects

UploadInv == Typed /\ OwnsInv /\ ObjectsInv

LEMMA UploadInvariant == Spec => []UploadInv
<1>1. Init => UploadInv BY InitTyped, InitOwns, InitObjects DEF UploadInv
<1>2. UploadInv /\ [Next]_vars => UploadInv'
  BY StepTyped, StepOwns, StepObjects DEF UploadInv
<1> QED BY <1>1, <1>2, PTL DEF Spec

\* No conflicting or failing retry, orphan collector or replaced version takes
\* the object of an admitted job whose document is not being emptied; only a
\* decision taken before the admission was known can, which is what exposed
\* records.
THEOREM AdmittedObjectIsKeptAlways == Spec => []AdmittedObjectIsKept
<1>1. UploadInv => AdmittedObjectIsKept
  BY DEF UploadInv, ObjectsInv, Kept, AdmittedObjectIsKept
<1> QED BY <1>1, UploadInvariant, PTL

-----------------------------------------------------------------------------
(* What a completed key replays.                                           *)

LEMMA SubmissionsAreSigned ==
  ASSUME NEW r, NEW q, SameSubmission(r, q)
  PROVE  SameSignature(q, r)
BY DEF SameSubmission, SameSignature

\* The job of a completed key is written by no invocation.
LEMMA JobsOfCompletedKeys ==
  ASSUME UploadInv, [Next]_vars, NEW k \in Keys, idem[k].state # "processing"
  PROVE  jobs'[k] = jobs[k] \/ (Existing(k) /\ jobs'[k].req = jobs[k].req
                                /\ jobs'[k].state \in {"completed", "gone"})
<1> USE Namings DEF UploadInv, Typed
<1>1. ASSUME NEW h \in Handlers, Admit(h) \/ AdmitFails(h) PROVE jobs'[k] = jobs[k]
  <2>1. Working(h) BY <1>1 DEF Admit, AdmitFails, Working
  <2>2. handler[h].job # k BY <2>1 DEF OwnsInv, Owns
  <2>3. CASE Admitted(h) BY <2>1, <2>2, <2>3, AdmittedRows
  <2>4. CASE UNCHANGED jobs BY <2>4
  <2> QED BY <1>1, <2>3, <2>4 DEF Admit, AdmitFails
<1>2. ASSUME NEW j \in JobIds, CompleteJob(j)
      PROVE  jobs'[k] = jobs[k] \/ (Existing(k) /\ jobs'[k].req = jobs[k].req
                                    /\ jobs'[k].state \in {"completed", "gone"})
  BY <1>2 DEF CompleteJob, RowsTyped, JobSet, Existing
<1>3. ASSUME NEW d \in DocIds, FinishDeletion(d)
      PROVE  jobs'[k] = jobs[k] \/ (Existing(k) /\ jobs'[k].req = jobs[k].req
                                    /\ jobs'[k].state \in {"completed", "gone"})
  BY <1>3 DEF FinishDeletion, RowsTyped, JobSet, JobsOf
<1>4. \/ \E h \in Handlers : Admit(h) \/ AdmitFails(h)
      \/ \E j \in JobIds : CompleteJob(j)
      \/ \E d \in DocIds : FinishDeletion(d)
      \/ UNCHANGED jobs
  BY DEF Next, vars, Start, ReserveReplyLost, Reserve, HandlerStep, RefuseUpload,
         AnswerDuplicate, StoreObject, PrepareFails, CleanUp, Abort, Accept, Disconnect,
         Crash, Lapse, AcceptDeletion, DeleteObjects, FindOrphan, DeleteOrphan
<1> QED BY <1>1, <1>2, <1>3, <1>4

\* A key becomes completed by an answer, and only then.
LEMMA CompletedKeys ==
  ASSUME UploadInv, [Next]_vars, NEW k \in Keys, idem'[k].state = "completed",
         idem'[k].answer = "accepted"
  PROVE  \/ idem'[k] = idem[k]
         \/ \E h \in Handlers : /\ Accept(h) /\ handler[h].job = k
                                /\ idem'[k].req = handler[h].req
<1> USE DEF UploadInv, Typed
<1>1. ASSUME NEW h \in Handlers, NEW answer \in Answers, Working(h), Complete(h, answer)
      PROVE  \/ idem'[k] = idem[k]
             \/ answer = "accepted" /\ handler[h].job = k /\ idem'[k].req = handler[h].req
  <2>1. CASE handler[h].req.key = k
    <3>1. k # None /\ handler[h].job = k BY <2>1, <1>1, Namings DEF OwnsInv, Owns
    <3> QED BY <2>1, <3>1, <1>1, CompleteEffect
  <2>2. CASE handler[h].req.key # k BY <2>2, <1>1, CompleteEffect
  <2> QED BY <2>1, <2>2
<1>2. ASSUME NEW h \in Handlers, AnswerDuplicate(h) PROVE idem'[k] = idem[k]
  BY <1>2, <1>1 DEF AnswerDuplicate, Answers, Working
<1>3. ASSUME NEW h \in Handlers, Accept(h)
      PROVE  idem'[k] = idem[k] \/ (handler[h].job = k /\ idem'[k].req = handler[h].req)
  BY <1>3, <1>1 DEF Accept, Answers, Working
<1>4. ASSUME NEW h \in Handlers, Abort(h) PROVE idem'[k] = idem[k]
  <2>1. handler[h].req.key # k => idem'[k] = idem[k] BY <1>4, AbortEffect
  <2>2. handler[h].req.key = k => idem' = idem \/ idem'[k] = Absent
    BY <1>4, AbortEffect, Namings
  <2> QED BY <2>1, <2>2 DEF Absent
<1>5. ASSUME NEW r \in Requests, ReserveReplyLost(r) PROVE idem'[k] = idem[k]
  BY <1>5 DEF ReserveReplyLost, KeysTyped
<1>6. ASSUME NEW r \in Requests, NEW h \in Handlers, Reserve(r, h) PROVE idem'[k] = idem[k]
  BY <1>6 DEF Reserve, KeysTyped
<1>7. ASSUME NEW l \in Keys, Lapse(l) PROVE idem'[k] = idem[k]
  BY <1>7 DEF Lapse, KeysTyped, Absent
<1>8. \/ \E r \in Requests : ReserveReplyLost(r) \/ \E h \in Handlers : Reserve(r, h)
      \/ \E h \in Handlers : AnswerDuplicate(h) \/ Accept(h) \/ Abort(h)
      \/ \E l \in Keys : Lapse(l)
      \/ UNCHANGED idem
  BY DEF Next, vars, Start, HandlerStep, RefuseUpload, StoreObject, PrepareFails, Admit,
         AdmitFails, CleanUp, Disconnect, Crash, CompleteJob, AcceptDeletion, DeleteObjects,
         FinishDeletion, FindOrphan, DeleteOrphan
<1> QED BY <1>2, <1>3, <1>4, <1>5, <1>6, <1>7, <1>8

LEMMA StepRecords == RecordsInv /\ UploadInv /\ [Next]_vars => RecordsInv'
<1> SUFFICES ASSUME RecordsInv, UploadInv, [Next]_vars, NEW k \in Keys,
                    idem'[k].state = "completed", idem'[k].answer = "accepted"
             PROVE  \/ jobs'[k].state = "gone"
                    \/ (jobs'[k].state \notin {"none", "gone"}
                        /\ SameSignature(jobs'[k].req, idem'[k].req))
  BY DEF RecordsInv, Recorded, Existing
<1>1. CASE idem'[k] = idem[k]
  <2>1. Recorded(k) BY DEF RecordsInv
  <2>2. idem[k].state # "processing" BY <1>1
  <2> QED BY <1>1, <2>1, <2>2, JobsOfCompletedKeys DEF Recorded, Existing
<1>2. ASSUME NEW h \in Handlers, Accept(h), handler[h].job = k, idem'[k].req = handler[h].req
      PROVE  \/ jobs'[k].state = "gone"
             \/ (jobs'[k].state \notin {"none", "gone"}
                 /\ SameSignature(jobs'[k].req, idem'[k].req))
  <2>1. handler[h].at = "admitted" /\ Working(h) /\ UNCHANGED jobs
    BY <1>2 DEF Accept, Working
  <2>2. Placed(h) BY <2>1 DEF UploadInv, ObjectsInv
  <2> QED BY <1>2, <2>1, <2>2, SubmissionsAreSigned DEF Placed, Existing
<1> QED BY <1>1, <1>2, CompletedKeys

\* A key that answers "accepted" again names a job that was admitted for a
\* request with the signature the key is bound to.
THEOREM ReplayIsTrueAlways == Spec => []ReplayIsTrue
<1>1. Init => RecordsInv BY DEF Init, RecordsInv, Recorded, Absent
<1>2. RecordsInv /\ UploadInv /\ [Next]_vars => RecordsInv' BY StepRecords
<1>3. RecordsInv => ReplayIsTrue
  BY DEF RecordsInv, Recorded, ReplayIsTrue, Existing, SameSignature
<1> QED BY <1>1, <1>2, <1>3, UploadInvariant, PTL DEF Spec
=============================================================================
