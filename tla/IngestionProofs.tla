-------------------------- MODULE IngestionProofs --------------------------
(***************************************************************************)
(* Proofs about Ingestion, for every set of jobs, documents, relays and    *)
(* workers and every bound on retries and faults.                          *)
(*                                                                         *)
(* Three parts, each resting on the one before: type correctness, the      *)
(* safety properties, and the refinement of JobLedger.                     *)
(***************************************************************************)
EXTENDS Ingestion, TLAPS

-----------------------------------------------------------------------------
(* Type correctness.                                                       *)

\* Type correctness together with what keeps it inductive: who is busy is
\* busy with a job.
BusyWithAJob ==
  /\ \A w \in Workers : worker[w].at # "idle" => worker[w].job \in Jobs
  /\ \A r \in Relays : relay[r].sent => relay[r].event \in Jobs

TypeInv == TypeOK /\ BusyWithAJob

\* The record a worker's slot holds.
WorkerRecord == [at : {"idle"} \cup HoldingStates \cup ReportStates,
                 job : Jobs \cup {None}, attempt : 0..MaxRetries]

\* Moving a worker on keeps its slot well formed and its job.
LEMMA GotoTyped ==
  ASSUME TypeOK, NEW w \in Workers, NEW at \in HoldingStates \cup ReportStates,
         Goto(w, at), worker[w].at # "idle", BusyWithAJob
  PROVE  /\ worker' \in [Workers -> WorkerRecord]
         /\ \A v \in Workers : worker'[v].at # "idle" => worker'[v].job \in Jobs
  BY DEF TypeOK, WorkerRecord, Goto, BusyWithAJob

\* A write to the status store keeps it well formed, landed or lost.
LEMMA SaveStatusTyped ==
  ASSUME TypeOK, NEW j \in Jobs \cup {None},
         NEW s \in {"queued", "processing"} \cup Terminal, SaveStatus(j, s)
  PROVE  taskStatus' \in [Docs -> [job : Jobs \cup {None},
           state : {"none", "queued", "processing"} \cup Terminal]]
<1> DEFINE Record == [job : Jobs \cup {None},
                      state : {"none", "queued", "processing"} \cup Terminal]
<1>1. [job |-> j, state |-> s] \in Record
  OBVIOUS
<1>2. taskStatus \in [Docs -> Record]
  BY DEF TypeOK
<1> HIDE DEF Record
<1>3. taskStatus' \in [Docs -> Record]
  BY <1>1, <1>2 DEF SaveStatus
<1> QED BY <1>3 DEF Record

\* A fault is counted within its bound.
LEMMA FaultTyped ==
  ASSUME TypeOK, Fault
  PROVE  faults' \in 0..MaxFaults
  BY BoundsAssumption DEF TypeOK, Fault

\* Giving a delivery back frees the worker.
LEMMA HandBackTyped ==
  ASSUME TypeOK, BusyWithAJob, NEW w \in Workers, HandBack(w),
         worker[w].at # "idle"
  PROVE  /\ worker' \in [Workers -> WorkerRecord]
         /\ copies' \in [Jobs -> Nat]
         /\ \A v \in Workers : worker'[v].at # "idle" => worker'[v].job \in Jobs
  BY BoundsAssumption DEF TypeOK, WorkerRecord, HandBack, BusyWithAJob, Idle

\* Every step of the upload handler keeps the types.
LEMMA UploadTyped ==
  ASSUME TypeInv, NEW j \in Jobs, UploadStep(j)
  PROVE  TypeInv'
<1> USE DEF TypeInv, BusyWithAJob
<1>1. CASE UploadChecked(j)
  BY <1>1 DEF TypeOK, UploadChecked
<1>2. CASE Admit(j)
  <2>1. /\ status' \in [Jobs -> {"none", "gone"} \cup Open \cup Terminal]
        /\ upload' \in [Jobs -> {"none", "checked", "admitted", "saved"}]
        /\ outbox' \in [Jobs -> {"none", "due", "waiting", "published"}]
        /\ current' \in [Docs -> Jobs \cup {None}]
    BY <1>2 DEF TypeOK, Admit, Open
  <2> QED BY <1>2, <2>1 DEF TypeOK, Admit
<1>3. CASE SaveQueued(j)
  <2>1. taskStatus' \in [Docs -> [job : Jobs \cup {None},
          state : {"none", "queued", "processing"} \cup Terminal]]
    BY <1>3, SaveStatusTyped DEF SaveQueued
  <2> QED BY <1>3, <2>1 DEF TypeOK, SaveQueued
<1> QED BY <1>1, <1>2, <1>3 DEF UploadStep

\* Every step of a relay keeps the types.
LEMMA RelayTyped ==
  ASSUME TypeInv, NEW r \in Relays, RelayStep(r)
  PROVE  TypeInv'
<1> USE DEF TypeInv, BusyWithAJob
<1>1. CASE \E j \in Jobs : ClaimPending(r, j)
  BY <1>1 DEF TypeOK, ClaimPending
<1>2. CASE Publish(r)
  <2>1. relay[r].event \in Jobs
    BY <1>2 DEF TypeOK, Publish
  <2>2. copies' \in [Jobs -> Nat] /\ sent' \in SUBSET Jobs
    BY <1>2, <2>1 DEF TypeOK, Publish
  <2>3. /\ relay' \in [Relays -> [event : Jobs \cup {None}, sent : BOOLEAN]]
        /\ \A q \in Relays : relay'[q].sent => relay'[q].event \in Jobs
    <3>1. relay' = [relay EXCEPT ![r].sent = TRUE]
      BY <1>2 DEF Publish
    <3>2. relay \in [Relays -> [event : Jobs \cup {None}, sent : BOOLEAN]]
      BY DEF TypeOK
    <3>3. relay' \in [Relays -> [event : Jobs \cup {None}, sent : BOOLEAN]]
      BY <3>1, <3>2
    <3>4. ASSUME NEW q \in Relays, relay'[q].sent PROVE relay'[q].event \in Jobs
      <4>1. CASE q = r
        BY <2>1, <3>1, <3>2, <4>1
      <4>2. CASE q # r
        BY <3>1, <3>2, <3>4, <4>2
      <4> QED BY <4>1, <4>2
    <3> QED BY <3>3, <3>4
  <2>4. UNCHANGED <<upload, status, lease, outbox, current, deletion,
                    taskStatus, cancelling, worker, exposed, faults>>
    BY <1>2 DEF Publish
  <2> QED BY <2>2, <2>3, <2>4 DEF TypeOK
<1>3. CASE PublishFails(r)
  <2>1. relay[r].event \in Jobs
    BY <1>3 DEF TypeOK, PublishFails
  <2>2. copies' \in [Jobs -> Nat] /\ sent' \in SUBSET Jobs
    BY <1>3, <2>1 DEF TypeOK, PublishFails
  <2>3. outbox' \in [Jobs -> {"none", "due", "waiting", "published"}]
    BY <1>3, <2>1 DEF TypeOK, PublishFails, BackedOff
  <2>4. faults' \in 0..MaxFaults
    BY <1>3, FaultTyped DEF PublishFails
  <2>5. /\ relay' \in [Relays -> [event : Jobs \cup {None}, sent : BOOLEAN]]
        /\ \A q \in Relays : relay'[q].sent => relay'[q].event \in Jobs
    BY <1>3 DEF TypeOK, PublishFails, Resting
  <2> QED BY <1>3, <2>2, <2>3, <2>4, <2>5 DEF TypeOK, PublishFails
<1>4. CASE MarkPublished(r)
  <2>1. relay[r].event \in Jobs
    BY <1>4 DEF TypeOK, MarkPublished
  <2>2. status' \in [Jobs -> {"none", "gone"} \cup Open \cup Terminal]
    BY <1>4, <2>1 DEF TypeOK, MarkPublished, AfterMark, Open
  <2>3. outbox' \in [Jobs -> {"none", "due", "waiting", "published"}]
    BY <1>4, <2>1 DEF TypeOK, MarkPublished
  <2>4. /\ relay' \in [Relays -> [event : Jobs \cup {None}, sent : BOOLEAN]]
        /\ \A q \in Relays : relay'[q].sent => relay'[q].event \in Jobs
    BY <1>4 DEF TypeOK, MarkPublished, Resting
  <2> QED BY <1>4, <2>2, <2>3, <2>4 DEF TypeOK, MarkPublished
<1>5. CASE RelayStops(r)
  <2>1. faults' \in 0..MaxFaults
    BY <1>5, FaultTyped DEF RelayStops
  <2> QED BY <1>5, <2>1 DEF TypeOK, RelayStops, Resting, uploadVars
<1> QED BY <1>1, <1>2, <1>3, <1>4, <1>5 DEF RelayStep

\* Every answer of Claim keeps the types.
LEMMA ClaimTyped ==
  ASSUME TypeInv, NEW w \in Workers, NEW j \in Jobs, ClaimStep(w, j)
  PROVE  TypeInv'
<1> USE DEF TypeInv, BusyWithAJob
<1>1. CASE ClaimAcquired(w, j)
  <2>1. /\ status' \in [Jobs -> {"none", "gone"} \cup Open \cup Terminal]
        /\ lease' \in [Jobs -> BOOLEAN]
        /\ copies' \in [Jobs -> Nat]
    BY <1>1 DEF TypeOK, ClaimAcquired, Receive, Open
  <2>2. /\ worker' \in [Workers -> WorkerRecord]
        /\ \A v \in Workers : worker'[v].at # "idle" => worker'[v].job \in Jobs
    BY <1>1, BoundsAssumption DEF TypeOK, ClaimAcquired, WorkerRecord, HoldingStates
  <2> QED BY <1>1, <2>1, <2>2 DEF TypeOK, ClaimAcquired, WorkerRecord
<1>2. CASE ClaimReplyLost(w, j)
  <2>1. /\ status' \in [Jobs -> {"none", "gone"} \cup Open \cup Terminal]
        /\ lease' \in [Jobs -> BOOLEAN]
    BY <1>2 DEF TypeOK, ClaimReplyLost, Open
  <2>2. faults' \in 0..MaxFaults
    BY <1>2, FaultTyped DEF ClaimReplyLost
  <2> QED BY <1>2, <2>1, <2>2 DEF TypeOK, ClaimReplyLost
<1>3. CASE ClaimTerminal(w, j)
  BY <1>3 DEF TypeOK, ClaimTerminal, Receive, uploadVars
<1> QED BY <1>1, <1>2, <1>3 DEF ClaimStep

\* Settling a job, or leaving it, keeps the job rows well formed.
LEMMA MarkTyped ==
  ASSUME TypeOK, NEW j \in Jobs, NEW s \in Terminal,
         Mark(j, s) \/ UNCHANGED <<status, lease>>
  PROVE  /\ status' \in [Jobs -> {"none", "gone"} \cup Open \cup Terminal]
         /\ lease' \in [Jobs -> BOOLEAN]
<1> DEFINE Statuses == {"none", "gone"} \cup Open \cup Terminal
<1>1. s \in Statuses /\ status \in [Jobs -> Statuses] /\ lease \in [Jobs -> BOOLEAN]
  BY DEF TypeOK
<1> HIDE DEF Statuses
<1>2. status' \in [Jobs -> Statuses] /\ lease' \in [Jobs -> BOOLEAN]
  BY <1>1 DEF Mark
<1> QED BY <1>2 DEF Statuses

\* Recording an outcome keeps the types.
LEMMA OutcomeTyped ==
  ASSUME TypeInv, NEW w \in Workers, NEW from \in HoldingStates,
         NEW s \in {"completed", "failed"}, RecordOutcome(w, from, s)
  PROVE  TypeInv'
<1> USE DEF TypeInv
<1>1. worker[w].job \in Jobs /\ worker[w].at # "idle"
  BY DEF BusyWithAJob, RecordOutcome, HoldingStates
<1>2. /\ status' \in [Jobs -> {"none", "gone"} \cup Open \cup Terminal]
      /\ lease' \in [Jobs -> BOOLEAN]
  BY <1>1, MarkTyped DEF RecordOutcome, Terminal
<1>3. Goto(w, s) \/ Goto(w, "release")
  BY DEF RecordOutcome
<1>4. /\ worker' \in [Workers -> WorkerRecord]
      /\ \A v \in Workers : worker'[v].at # "idle" => worker'[v].job \in Jobs
  BY <1>1, <1>3, GotoTyped DEF HoldingStates, ReportStates
<1>5. faults' \in 0..MaxFaults
  BY FaultTyped DEF RecordOutcome, TypeOK
<1> QED BY <1>2, <1>4, <1>5 DEF TypeOK, RecordOutcome, WorkerRecord, BusyWithAJob

\* Releasing a claim keeps the job rows well formed.
LEMMA ReleaseTyped ==
  ASSUME TypeOK, NEW j \in Jobs, ReleaseClaim(j) \/ UNCHANGED <<status, lease>>
  PROVE  /\ status' \in [Jobs -> {"none", "gone"} \cup Open \cup Terminal]
         /\ lease' \in [Jobs -> BOOLEAN]
  BY DEF TypeOK, ReleaseClaim, Releasable, Open

\* Every step of a worker that has a job keeps the types.
LEMMA WorkerTyped ==
  ASSUME TypeInv, NEW w \in Workers, WorkerStep(w)
  PROVE  TypeInv'
<1> USE DEF TypeInv
<1> DEFINE WTyped == /\ worker' \in [Workers -> WorkerRecord]
                     /\ \A v \in Workers :
                          worker'[v].at # "idle" => worker'[v].job \in Jobs
<1>1. CASE SaveProgress(w)
  <2>1. worker[w].at # "idle" /\ worker[w].job \in Jobs
    BY <1>1 DEF BusyWithAJob, SaveProgress
  <2>2. WTyped
    BY <1>1, <2>1, GotoTyped DEF SaveProgress, HoldingStates
  <2>3. taskStatus' \in [Docs -> [job : Jobs \cup {None},
          state : {"none", "queued", "processing"} \cup Terminal]]
    BY <1>1, <2>1, SaveStatusTyped DEF SaveProgress
  <2> QED BY <1>1, <2>2, <2>3
       DEF TypeOK, SaveProgress, WorkerRecord, BusyWithAJob, uploadVars
<1>2. CASE ProcessingSucceeds(w)
  <2>1. WTyped
    BY <1>2, GotoTyped DEF ProcessingSucceeds, HoldingStates
  <2> QED BY <1>2, <2>1
       DEF TypeOK, ProcessingSucceeds, WorkerRecord, BusyWithAJob, uploadVars
<1>3. CASE ProcessingFails(w)
  <2>1. WTyped
    <3>1. CASE RetriesLeft(w)
      <4>1. worker' = [worker EXCEPT ![w].attempt = @ + 1]
        BY <1>3, <3>1 DEF ProcessingFails
      <4>2. worker \in [Workers -> WorkerRecord]
        BY DEF TypeOK, WorkerRecord
      <4>3. worker[w].attempt + 1 \in 0..MaxRetries
        BY <3>1, <4>2, BoundsAssumption DEF RetriesLeft, WorkerRecord
      <4>4. worker' \in [Workers -> WorkerRecord]
        BY <4>1, <4>2, <4>3 DEF WorkerRecord
      <4> QED BY <4>1, <4>2, <4>4 DEF BusyWithAJob, WorkerRecord
    <3>2. CASE ~RetriesLeft(w)
      BY <1>3, <3>2, GotoTyped DEF ProcessingFails, HoldingStates
    <3> QED BY <3>1, <3>2
  <2> QED BY <1>3, <2>1
       DEF TypeOK, ProcessingFails, WorkerRecord, BusyWithAJob, uploadVars
<1>4. CASE ProcessingCancelled(w)
  <2>1. worker[w].at # "idle" /\ worker[w].job \in Jobs
    BY <1>4 DEF BusyWithAJob, ProcessingCancelled
  <2>2. WTyped
    BY <1>4, <2>1, GotoTyped DEF ProcessingCancelled, ReportStates
  <2>3. /\ status' \in [Jobs -> {"none", "gone"} \cup Open \cup Terminal]
        /\ lease' \in [Jobs -> BOOLEAN]
    BY <1>4, <2>1, MarkTyped DEF ProcessingCancelled, Terminal
  <2>4. faults' \in 0..MaxFaults /\ exposed' \in SUBSET Jobs
    BY <1>4, <2>1, FaultTyped DEF ProcessingCancelled, TypeOK
  <2> QED BY <1>4, <2>2, <2>3, <2>4
       DEF TypeOK, ProcessingCancelled, WorkerRecord, BusyWithAJob
<1>5. CASE Complete(w)
  BY <1>5, OutcomeTyped DEF Complete, HoldingStates
<1>6. CASE PushToDLQ(w)
  <2>1. WTyped
    BY <1>6, GotoTyped DEF PushToDLQ, HoldingStates
  <2>2. faults' \in 0..MaxFaults
    BY <1>6, FaultTyped DEF PushToDLQ, TypeOK
  <2> QED BY <1>6, <2>1, <2>2
       DEF TypeOK, PushToDLQ, WorkerRecord, BusyWithAJob, uploadVars
<1>7. CASE Fail(w)
  BY <1>7, OutcomeTyped DEF Fail, HoldingStates
<1>8. CASE ReleaseAndNack(w) \/ ShutDown(w)
  <2>1. worker[w].at # "idle" /\ worker[w].job \in Jobs /\ HandBack(w)
    BY <1>8 DEF BusyWithAJob, ReleaseAndNack, ShutDown
  <2>2. WTyped /\ copies' \in [Jobs -> Nat]
    BY <2>1, HandBackTyped
  <2>3. /\ status' \in [Jobs -> {"none", "gone"} \cup Open \cup Terminal]
        /\ lease' \in [Jobs -> BOOLEAN]
    BY <1>8, <2>1, ReleaseTyped DEF ReleaseAndNack, ShutDown
  <2>4. faults' \in 0..MaxFaults
    BY <1>8, FaultTyped DEF ReleaseAndNack, ShutDown, TypeOK
  <2> QED BY <1>8, <2>2, <2>3, <2>4
       DEF TypeOK, ReleaseAndNack, ShutDown, WorkerRecord, BusyWithAJob
<1>9. CASE Crash(w)
  <2>1. WTyped /\ copies' \in [Jobs -> Nat]
    BY <1>9, HandBackTyped DEF Crash, HoldingStates
  <2>2. faults' \in 0..MaxFaults
    BY <1>9, FaultTyped DEF Crash
  <2> QED BY <1>9, <2>1, <2>2
       DEF TypeOK, Crash, WorkerRecord, BusyWithAJob, uploadVars
<1>10. CASE Report(w)
  <2>1. worker[w].at \in Terminal /\ worker[w].job \in Jobs
    BY <1>10 DEF BusyWithAJob, Report, ReportStates, Terminal
  <2>2. taskStatus' \in [Docs -> [job : Jobs \cup {None},
          state : {"none", "queued", "processing"} \cup Terminal]]
    BY <1>10, <2>1, SaveStatusTyped DEF Report
  <2>3. WTyped
    BY <1>10, BoundsAssumption DEF TypeOK, BusyWithAJob, Report, WorkerRecord, Idle
  <2> QED BY <1>10, <2>2, <2>3
       DEF TypeOK, Report, WorkerRecord, BusyWithAJob, uploadVars
<1> QED BY <1>1, <1>2, <1>3, <1>4, <1>5, <1>6, <1>7, <1>8, <1>9, <1>10
    DEF WorkerStep

\* Deletion and cancellation of a document keep the types.
LEMMA DocTyped ==
  ASSUME TypeInv, NEW d \in Docs, DocStep(d)
  PROVE  TypeInv'
<1> USE DEF TypeInv, BusyWithAJob
<1> DEFINE Statuses == {"none", "gone"} \cup Open \cup Terminal
<1>1. CASE CancelLoad(d)
  BY <1>1 DEF TypeOK, CancelLoad, NoCancel, uploadVars
<1>2. CASE CancelJob(d)
  <2>1. cancelling[d].job \in Jobs
    BY <1>2 DEF TypeOK, CancelJob
  <2>2. /\ status' \in [Jobs -> {"none", "gone"} \cup Open \cup Terminal]
        /\ lease' \in [Jobs -> BOOLEAN]
    BY <1>2, <2>1, MarkTyped DEF CancelJob, Terminal
  <2>3. cancelling' \in [Docs -> [job : Jobs \cup {None}, durable : BOOLEAN]]
    <3>1. cancelling \in [Docs -> [job : Jobs \cup {None}, durable : BOOLEAN]]
      BY DEF TypeOK
    <3>2. CASE cancelling' = [cancelling EXCEPT ![d].durable = TRUE]
      BY <3>1, <3>2
    <3>3. CASE cancelling' = [cancelling EXCEPT ![d] = NoCancel]
      BY <3>1, <3>3 DEF NoCancel
    <3> QED BY <1>2, <3>2, <3>3 DEF CancelJob
  <2>4. UNCHANGED <<upload, outbox, current, deletion, taskStatus, relay,
                    copies, sent, worker, exposed, faults>>
    BY <1>2 DEF CancelJob
  <2> QED BY <2>2, <2>3, <2>4 DEF TypeOK
<1>3. CASE CancelSave(d)
  <2>1. cancelling[d].job \in Jobs \cup {None}
    BY DEF TypeOK
  <2>2. taskStatus' \in [Docs -> [job : Jobs \cup {None},
          state : {"none", "queued", "processing"} \cup Terminal]]
    BY <1>3, <2>1, SaveStatusTyped DEF CancelSave, Terminal
  <2>3. cancelling' \in [Docs -> [job : Jobs \cup {None}, durable : BOOLEAN]]
    BY <1>3 DEF TypeOK, CancelSave, NoCancel
  <2> QED BY <1>3, <2>2, <2>3 DEF TypeOK, CancelSave, uploadVars
<1>4. CASE DeletionAccepted(d)
  <2>1. status \in [Jobs -> Statuses] /\ "failed" \in Statuses
    BY DEF TypeOK, Terminal
  <2>2. status' \in [Jobs -> Statuses]
    <3> HIDE DEF Statuses
    <3> QED BY <1>4, <2>1 DEF DeletionAccepted
  <2>3. lease' \in [Jobs -> BOOLEAN]
    BY <1>4 DEF TypeOK, DeletionAccepted
  <2>4. deletion' \in [Docs -> {"none", "accepted", "cleaning"}]
    BY <1>4 DEF TypeOK, DeletionAccepted
  <2>5. UNCHANGED <<upload, outbox, current, taskStatus, cancelling, relay,
                    copies, sent, worker, exposed, faults>>
    BY <1>4 DEF DeletionAccepted
  <2> QED BY <2>2, <2>3, <2>4, <2>5 DEF TypeOK
<1>5. CASE CleanupClaimed(d)
  BY <1>5 DEF TypeOK, CleanupClaimed, uploadVars
<1>6. CASE CleanupIncomplete(d)
  <2>1. faults' \in 0..MaxFaults
    BY <1>6, FaultTyped DEF CleanupIncomplete
  <2> QED BY <1>6, <2>1 DEF TypeOK, CleanupIncomplete, uploadVars
<1>7. CASE CleanupFinished(d)
  <2>1. status \in [Jobs -> Statuses] /\ "gone" \in Statuses
    BY DEF TypeOK
  <2>2. status' \in [Jobs -> Statuses]
    <3> HIDE DEF Statuses
    <3> QED BY <1>7, <2>1 DEF CleanupFinished
  <2>3. lease' \in [Jobs -> BOOLEAN]
    BY <1>7 DEF TypeOK, CleanupFinished
  <2>4. outbox' \in [Jobs -> {"none", "due", "waiting", "published"}]
    BY <1>7 DEF TypeOK, CleanupFinished
  <2>5. /\ current' \in [Docs -> Jobs \cup {None}]
        /\ deletion' \in [Docs -> {"none", "accepted", "cleaning"}]
    BY <1>7 DEF TypeOK, CleanupFinished
  <2>6. UNCHANGED <<upload, taskStatus, cancelling, relay, copies, sent, worker,
                    exposed, faults>>
    BY <1>7 DEF CleanupFinished
  <2> QED BY <2>2, <2>3, <2>4, <2>5, <2>6 DEF TypeOK
<1> QED BY <1>1, <1>2, <1>3, <1>4, <1>5, <1>6, <1>7 DEF DocStep

\* The passing of time, a redelivery and a repair keep the types.
LEMMA TimeTyped ==
  ASSUME TypeInv, NEW j \in Jobs, TimeStep(j)
  PROVE  TypeInv'
<1> USE DEF TypeInv, BusyWithAJob
<1>1. CASE OutboxBecomesDue(j)
  BY <1>1 DEF TypeOK, OutboxBecomesDue
<1>2. CASE LeaseLapses(j)
  BY <1>2 DEF TypeOK, LeaseLapses
<1>3. CASE Redeliver(j)
  <2>1. faults' \in 0..MaxFaults
    BY <1>3, FaultTyped DEF Redeliver
  <2> QED BY <1>3, <2>1 DEF TypeOK, Redeliver, uploadVars
<1>4. CASE Reopen(j)
  <2>1. faults' \in 0..MaxFaults
    BY <1>4, FaultTyped DEF Reopen
  <2>2. status' \in [Jobs -> {"none", "gone"} \cup Open \cup Terminal]
    BY <1>4 DEF TypeOK, Reopen, Open
  <2>3. /\ lease' \in [Jobs -> BOOLEAN]
        /\ outbox' \in [Jobs -> {"none", "due", "waiting", "published"}]
        /\ exposed' \in SUBSET Jobs
    BY <1>4 DEF TypeOK, Reopen
  <2>4. UNCHANGED <<upload, current, deletion, taskStatus, cancelling, relay,
                    copies, sent, worker>>
    BY <1>4 DEF Reopen
  <2> QED BY <2>1, <2>2, <2>3, <2>4 DEF TypeOK
<1> QED BY <1>1, <1>2, <1>3, <1>4 DEF TimeStep

\* Next, taken apart by the actor that moves.
LEMMA NextCases ==
  ASSUME Next
  PROVE  \/ \E j \in Jobs : UploadStep(j)
         \/ \E j \in Jobs : TimeStep(j)
         \/ \E r \in Relays : RelayStep(r)
         \/ \E w \in Workers : WorkerStep(w)
         \/ \E w \in Workers, j \in Jobs : ClaimStep(w, j)
         \/ \E d \in Docs : DocStep(d)
  BY DEF Next

LEMMA TypeInvInductive ==
  ASSUME TypeInv, [Next]_vars
  PROVE  TypeInv'
<1>1. CASE Next
  BY <1>1, NextCases, UploadTyped, TimeTyped, RelayTyped, WorkerTyped,
     ClaimTyped, DocTyped
<1>2. CASE UNCHANGED vars
  BY <1>2 DEF vars, TypeInv, TypeOK, BusyWithAJob
<1> QED BY <1>1, <1>2

\* Every variable keeps its type, the workers' attempts included: no task is
\* tried more often than cfg.MaxRetries allows.
THEOREM TypeCorrect == Spec => []TypeOK
<1>1. Init => TypeInv
  BY JobsAssumption, BoundsAssumption
  DEF Init, TypeInv, TypeOK, BusyWithAJob, NoStatus, NoCancel, Resting, Idle
<1>2. TypeInv /\ [Next]_vars => TypeInv'
  BY TypeInvInductive
<1>3. TypeInv => TypeOK
  BY DEF TypeInv
<1> QED BY <1>1, <1>2, <1>3, PTL DEF Spec

-----------------------------------------------------------------------------
(***************************************************************************)
(* The safety properties of Ingestion, proved for every set of jobs,       *)
(* documents, relays and workers and every bound on retries and faults.    *)
(*                                                                         *)
(* The properties are not inductive.  What they rest on is stated job by   *)
(* job: a worker inside handleTask owns its job (the row is processing     *)
(* under a running lease) unless the job was settled behind its back, and  *)
(* whoever has published the event, or sees it marked, can point at a      *)
(* delivery.  An action touches one job, or the jobs of one document; all  *)
(* others are covered by one frame lemma.                                  *)
(***************************************************************************)

-----------------------------------------------------------------------------
(* The inductive invariant.                                                *)

\* Before its admission a job exists nowhere.
Unborn(k) ==
  upload[k] \in {"none", "checked"} =>
    /\ status[k] = "none" /\ outbox[k] = "none"
    /\ \A r \in Relays : relay[r].event # k

\* An unsettled job has its outbox row.
Outboxed(k) == status[k] \in Open => outbox[k] # "none"

\* Who holds a delivery owns the job, or the job is settled.
Owned(k) ==
  \A w \in Workers : Holds(w, k) =>
    \/ status[k] = "processing" /\ lease[k]
    \/ Settled(k)

Exclusive(k) == \A v, w \in Workers : Holds(v, k) /\ Holds(w, k) => v = w

Guarded(k) ==
  \A w \in Workers :
    Holds(w, k) /\ deletion[DocOf[k]] = "cleaning" => status[k] \notin Open

\* The event of an unsettled job is published, marked or about to be marked,
\* only when a delivery of it is still there.
Delivered(k) ==
  status[k] \in Open /\ (outbox[k] = "published" \/ MarkOwed(k)) =>
    copies[k] > 0 \/ Holding(k)

JobInv(k) ==
  /\ Unborn(k) /\ Outboxed(k)
  /\ k \notin exposed => Owned(k) /\ Exclusive(k) /\ Guarded(k) /\ Delivered(k)

SafeInv == TypeInv /\ \A k \in Jobs : JobInv(k)

-----------------------------------------------------------------------------
(* What a step leaves alone.                                               *)

\* Row, relays, holders and deliveries of the job are left alone, or change
\* only to where less is promised.
Untouched(k) ==
  /\ status'[k] = status[k] /\ lease'[k] = lease[k] /\ outbox'[k] = outbox[k]
  /\ upload'[k] \in {"none", "checked"} => upload[k] \in {"none", "checked"}
  /\ deletion'[DocOf[k]] = "cleaning" => deletion[DocOf[k]] = "cleaning"
  /\ \A r \in Relays : relay'[r].event = k => relay[r].event = k
  /\ MarkOwed(k)' => MarkOwed(k)
  /\ \A w \in Workers : Holds(w, k)' => Holds(w, k)
  /\ copies[k] > 0 \/ Holding(k) => copies'[k] > 0 \/ Holding(k)'
  /\ exposed \subseteq exposed'

\* A job that is left alone keeps its invariant.
LEMMA Frame ==
  ASSUME NEW k \in Jobs, JobInv(k), Untouched(k)
  PROVE  JobInv(k)'
<1> USE DEF Untouched
<1>1. Unborn(k)' /\ Outboxed(k)'
  BY DEF JobInv, Unborn, Outboxed
<1>2. ASSUME k \notin exposed'
      PROVE  Owned(k)' /\ Exclusive(k)' /\ Guarded(k)' /\ Delivered(k)'
  <2>1. k \notin exposed
    BY <1>2
  <2>2. Owned(k)' /\ Exclusive(k)' /\ Guarded(k)'
    BY <2>1 DEF JobInv, Owned, Exclusive, Guarded, Settled
  <2>3. Delivered(k)'
    BY <2>1 DEF JobInv, Delivered
  <2> QED BY <2>2, <2>3
<1> QED BY <1>1, <1>2 DEF JobInv

\* Nothing but the workers' slots decides who holds a delivery.
LEMMA SameWorkers ==
  ASSUME worker' = worker, NEW k \in Jobs
  PROVE  /\ \A w \in Workers : Holds(w, k)' <=> Holds(w, k)
         /\ Holding(k)' <=> Holding(k)
  BY DEF Holding, Holds

\* A worker that goes on inside handleTask keeps its delivery.
LEMMA GoesOn ==
  ASSUME TypeInv, NEW w \in Workers, NEW at \in HoldingStates,
         worker[w].at \in HoldingStates, Goto(w, at), NEW k \in Jobs
  PROVE  /\ \A v \in Workers : Holds(v, k)' <=> Holds(v, k)
         /\ Holding(k)' <=> Holding(k)
<1>1. ASSUME NEW v \in Workers PROVE Holds(v, k)' <=> Holds(v, k)
  BY DEF TypeInv, TypeOK, Goto, Holds
<1> QED BY <1>1 DEF Holding

\* A worker that leaves handleTask gives up its delivery, and only its own.
LEMMA Leaves ==
  ASSUME TypeInv, NEW w \in Workers, NEW slot, slot.at \notin HoldingStates,
         worker' = [worker EXCEPT ![w] = slot], NEW k \in Jobs
  PROVE  \A v \in Workers : Holds(v, k)' <=> Holds(v, k) /\ v # w
<1> SUFFICES ASSUME NEW v \in Workers
             PROVE  Holds(v, k)' <=> Holds(v, k) /\ v # w
  OBVIOUS
<1>1. CASE v = w
  BY <1>1 DEF TypeInv, TypeOK, Holds
<1>2. CASE v # w
  BY <1>2 DEF TypeInv, TypeOK, Holds
<1> QED BY <1>1, <1>2

\* The relays decide which marks are owed.
LEMMA SameRelays ==
  ASSUME relay' = relay, NEW k \in Jobs
  PROVE  /\ \A r \in Relays : relay'[r].event = k => relay[r].event = k
         /\ MarkOwed(k)' <=> MarkOwed(k)
  BY DEF MarkOwed

\* A relay that rests again owes nothing.
LEMMA RelayRests ==
  ASSUME TypeInv, NEW r \in Relays, relay' = [relay EXCEPT ![r] = Resting],
         NEW k \in Jobs
  PROVE  /\ \A q \in Relays : relay'[q].event = k => relay[q].event = k
         /\ MarkOwed(k)' => MarkOwed(k)
<1>1. ASSUME NEW q \in Relays
      PROVE  relay'[q] = relay[q] \/ relay'[q] = [event |-> None, sent |-> FALSE]
  BY DEF TypeInv, TypeOK, Resting
<1>2. k # None
  BY JobsAssumption
<1>3. ASSUME NEW q \in Relays, relay'[q].event = k PROVE relay[q].event = k
  BY <1>1, <1>2, <1>3
<1>4. ASSUME NEW q \in Relays, relay'[q] = [event |-> k, sent |-> TRUE]
      PROVE  relay[q] = [event |-> k, sent |-> TRUE]
  BY <1>1, <1>2, <1>4
<1> QED BY <1>3, <1>4 DEF MarkOwed

\* A job that is settled promises little.
LEMMA SettledSafe ==
  ASSUME NEW k \in Jobs, JobInv(k), status[k] # "none",
         status'[k] \in Terminal \cup {"gone"},
         upload' = upload, exposed \subseteq exposed',
         \A w \in Workers : Holds(w, k)' => Holds(w, k)
  PROVE  JobInv(k)'
<1>1. Unborn(k)' /\ Outboxed(k)' /\ Owned(k)' /\ Guarded(k)' /\ Delivered(k)'
  BY DEF JobInv, Unborn, Outboxed, Owned, Guarded, Delivered, Settled, Open,
         Terminal
<1>2. k \notin exposed' => Exclusive(k)'
  BY DEF JobInv, Exclusive
<1> QED BY <1>1, <1>2 DEF JobInv

\* A worker that moves on gains no delivery and gives up at most its own.
LEMMA MovesOn ==
  ASSUME TypeInv, NEW w \in Workers, NEW at \in HoldingStates \cup ReportStates,
         worker[w].at \in HoldingStates, Goto(w, at), NEW k \in Jobs
  PROVE  /\ \A v \in Workers : Holds(v, k)' => Holds(v, k)
         /\ k # worker[w].job \/ at \in HoldingStates =>
              (Holding(k) => Holding(k)')
<1>1. ASSUME NEW v \in Workers
      PROVE  /\ Holds(v, k)' => Holds(v, k)
             /\ k # worker[w].job \/ at \in HoldingStates =>
                  (Holds(v, k) => Holds(v, k)')
  <2>1. CASE v = w
    BY <2>1 DEF TypeInv, TypeOK, Goto, Holds
  <2>2. CASE v # w
    BY <2>2 DEF TypeInv, TypeOK, Goto, Holds
  <2> QED BY <2>1, <2>2
<1> QED BY <1>1 DEF Holding

\* Handing a delivery back, with or without releasing the claim, keeps the
\* invariant.
LEMMA HandBackSafe ==
  ASSUME SafeInv, NEW w \in Workers, worker[w].at \in HoldingStates, HandBack(w),
         \/ ReleaseClaim(worker[w].job)
         \/ UNCHANGED <<status, lease>>,
         UNCHANGED <<upload, outbox, deletion, relay, exposed>>,
         NEW k \in Jobs
  PROVE  JobInv(k)'
<1> DEFINE j == worker[w].job
<1>1. JobInv(k) /\ TypeInv
  BY DEF SafeInv
<1>2. j \in Jobs
  BY <1>1 DEF TypeInv, BusyWithAJob, HoldingStates
<1>3. \A v \in Workers : Holds(v, k)' <=> Holds(v, k) /\ v # w
  <2>1. Idle.at \notin HoldingStates
    BY DEF Idle, HoldingStates
  <2> QED BY <1>1, <2>1, Leaves DEF HandBack
<1>4. /\ \A r \in Relays : relay'[r].event = k => relay[r].event = k
      /\ MarkOwed(k)' <=> MarkOwed(k)
  BY SameRelays
<1>5. CASE k # j
  <2>1. status'[k] = status[k] /\ lease'[k] = lease[k]
    BY <1>1, <1>2, <1>5 DEF ReleaseClaim, TypeInv, TypeOK
  <2>2. copies'[k] = copies[k]
    BY <1>1, <1>2, <1>5 DEF HandBack, TypeInv, TypeOK
  <2>3. ~Holds(w, k)
    BY <1>5 DEF Holds
  <2>4. Holding(k) => Holding(k)'
    BY <1>3, <2>3 DEF Holding
  <2>5. Untouched(k)
    BY <1>3, <1>4, <2>1, <2>2, <2>4 DEF Untouched
  <2> QED BY <1>1, <2>5, Frame
<1>6. CASE k = j
  <2>1. \/ status'[k] = status[k]
        \/ status[k] = "processing" /\ status'[k] = "published"
    BY <1>1, <1>2, <1>6 DEF ReleaseClaim, Releasable, TypeInv, TypeOK
  <2>2. copies'[k] > 0
    BY <1>1, <1>2, <1>6 DEF HandBack, TypeInv, TypeOK
  <2>3. Holds(w, k)
    BY <1>6 DEF Holds
  <2>4. k \notin exposed => \A v \in Workers : ~Holds(v, k)'
    BY <1>1, <1>3, <2>3 DEF JobInv, Exclusive
  <2>5. Unborn(k)' /\ Outboxed(k)' /\ Delivered(k)'
    BY <1>1, <1>4, <2>1, <2>2 DEF JobInv, Unborn, Outboxed, Delivered, Open
  <2>6. k \notin exposed => Owned(k)' /\ Exclusive(k)' /\ Guarded(k)'
    BY <2>4 DEF Owned, Exclusive, Guarded
  <2> QED BY <2>5, <2>6 DEF JobInv
<1> QED BY <1>5, <1>6

-----------------------------------------------------------------------------
(* One lemma per actor.                                                    *)

\* Every step of the upload handler keeps the invariant.
LEMMA UploadSafe ==
  ASSUME SafeInv, NEW j \in Jobs, UploadStep(j), NEW k \in Jobs
  PROVE  JobInv(k)'
<1>1. JobInv(k) /\ TypeInv
  BY DEF SafeInv
<1>2. relay' = relay /\ worker' = worker /\ copies' = copies
      /\ exposed' = exposed /\ deletion' = deletion /\ lease' = lease
  BY DEF UploadStep, UploadChecked, Admit, SaveQueued
<1>3. CASE UploadChecked(j) \/ SaveQueued(j)
  <2>1. status' = status /\ outbox' = outbox
    BY <1>3 DEF UploadChecked, SaveQueued
  <2>2. upload'[k] \in {"none", "checked"} => upload[k] \in {"none", "checked"}
    BY <1>3, <1>1 DEF UploadChecked, SaveQueued, TypeInv, TypeOK
  <2>3. Untouched(k)
    BY <1>2, <2>1, <2>2, SameWorkers, SameRelays DEF Untouched
  <2> QED BY <1>1, <2>3, Frame
<1>4. CASE Admit(j)
  <2>1. CASE k # j
    <3>1. status'[k] = status[k] /\ outbox'[k] = outbox[k] /\ upload'[k] = upload[k]
      BY <1>1, <1>4, <2>1 DEF Admit, TypeInv, TypeOK
    <3>2. Untouched(k)
      BY <1>2, <3>1, SameWorkers, SameRelays DEF Untouched
    <3> QED BY <1>1, <3>2, Frame
  <2>2. CASE k = j
    <3>1. /\ upload[k] = "checked" /\ upload'[k] = "admitted"
          /\ status'[k] = "queued" /\ outbox'[k] = "due"
      BY <1>1, <1>4, <2>2 DEF Admit, TypeInv, TypeOK
    <3>2. status[k] = "none" /\ ~MarkOwed(k)'
      BY <1>1, <1>2, <3>1, SameRelays DEF JobInv, Unborn, MarkOwed
    <3>3. k \notin exposed => \A w \in Workers : ~Holds(w, k)'
      BY <1>1, <1>2, <3>2, SameWorkers DEF JobInv, Owned, Settled, Terminal
    <3> QED BY <1>2, <3>1, <3>2, <3>3
         DEF JobInv, Unborn, Outboxed, Owned, Exclusive, Guarded, Delivered
  <2> QED BY <2>1, <2>2
<1> QED BY <1>3, <1>4 DEF UploadStep

\* Every step of a relay keeps the invariant.
LEMMA RelaySafe ==
  ASSUME SafeInv, NEW r \in Relays, RelayStep(r), NEW k \in Jobs
  PROVE  JobInv(k)'
<1>1. JobInv(k) /\ TypeInv
  BY DEF SafeInv
<1>2. worker' = worker /\ upload' = upload /\ lease' = lease
      /\ deletion' = deletion /\ exposed' = exposed
  BY DEF RelayStep, ClaimPending, Publish, PublishFails, MarkPublished,
         RelayStops, uploadVars
<1>3. CASE \E j \in Jobs : ClaimPending(r, j)
  <2>1. PICK j \in Jobs : ClaimPending(r, j)
    BY <1>3
  <2>2. status' = status /\ copies' = copies /\ outbox[j] = "due"
        /\ outbox' = [outbox EXCEPT ![j] = "waiting"]
        /\ relay' = [relay EXCEPT ![r] = [event |-> j, sent |-> FALSE]]
    BY <2>1 DEF ClaimPending
  <2>3. MarkOwed(k)' => MarkOwed(k)
    <3>1. ASSUME NEW q \in Relays, relay'[q] = [event |-> k, sent |-> TRUE]
          PROVE  relay[q] = [event |-> k, sent |-> TRUE]
      <4>1. q # r
        BY <1>1, <2>2, <3>1 DEF TypeInv, TypeOK
      <4> QED BY <1>1, <2>2, <3>1, <4>1 DEF TypeInv, TypeOK
    <3> QED BY <3>1 DEF MarkOwed
  <2>4. CASE k # j
    <3>1. outbox'[k] = outbox[k]
      BY <1>1, <2>2, <2>4 DEF TypeInv, TypeOK
    <3>2. \A q \in Relays : relay'[q].event = k => relay[q].event = k
      BY <1>1, <2>2, <2>4 DEF TypeInv, TypeOK
    <3>3. Untouched(k)
      BY <1>2, <2>2, <2>3, <3>1, <3>2, SameWorkers DEF Untouched
    <3> QED BY <1>1, <3>3, Frame
  <2>5. CASE k = j
    <3>1. outbox'[k] = "waiting" /\ outbox[k] = "due"
      BY <1>1, <2>2, <2>5 DEF TypeInv, TypeOK
    <3>2. Unborn(k)' /\ Outboxed(k)'
      BY <1>1, <1>2, <2>2, <3>1 DEF JobInv, Unborn, Outboxed
    <3>3. k \notin exposed => Owned(k)' /\ Exclusive(k)' /\ Guarded(k)'
      BY <1>1, <1>2, <2>2, SameWorkers
      DEF JobInv, Owned, Exclusive, Guarded, Settled
    <3>4. k \notin exposed => Delivered(k)'
      BY <1>1, <1>2, <2>2, <2>3, <3>1, SameWorkers DEF JobInv, Delivered
    <3> QED BY <1>2, <3>2, <3>3, <3>4 DEF JobInv
  <2> QED BY <2>4, <2>5
<1>4. CASE Publish(r)
  <2>1. status' = status /\ outbox' = outbox /\ relay[r].event \in Jobs
        /\ copies' = [copies EXCEPT ![relay[r].event] = @ + 1]
        /\ relay' = [relay EXCEPT ![r].sent = TRUE]
    BY <1>1, <1>4 DEF Publish, TypeInv, TypeOK
  <2>2. \A q \in Relays : relay'[q].event = relay[q].event
    BY <1>1, <2>1 DEF TypeInv, TypeOK
  <2>3. CASE k # relay[r].event
    <3>1. copies'[k] = copies[k]
      BY <1>1, <2>1, <2>3 DEF TypeInv, TypeOK
    <3>2. MarkOwed(k)' => MarkOwed(k)
      <4>1. ASSUME NEW q \in Relays, relay'[q] = [event |-> k, sent |-> TRUE]
            PROVE  relay[q] = [event |-> k, sent |-> TRUE]
        <5>1. relay[q].event = k
          BY <2>2, <4>1
        <5>2. q # r
          BY <2>3, <5>1
        <5> QED BY <1>1, <2>1, <4>1, <5>2 DEF TypeInv, TypeOK
      <4> QED BY <4>1 DEF MarkOwed
    <3>3. Untouched(k)
      BY <1>2, <2>1, <2>2, <3>1, <3>2, SameWorkers DEF Untouched
    <3> QED BY <1>1, <3>3, Frame
  <2>4. CASE k = relay[r].event
    <3>1. copies'[k] > 0
      BY <1>1, <2>1, <2>4 DEF TypeInv, TypeOK
    <3>2. Unborn(k)' /\ Outboxed(k)'
      BY <1>1, <1>2, <2>1, <2>2 DEF JobInv, Unborn, Outboxed
    <3>3. k \notin exposed => Owned(k)' /\ Exclusive(k)' /\ Guarded(k)'
      BY <1>1, <1>2, <2>1, SameWorkers
      DEF JobInv, Owned, Exclusive, Guarded, Settled
    <3> QED BY <1>2, <3>1, <3>2, <3>3 DEF JobInv, Delivered
  <2> QED BY <2>3, <2>4
<1>5. CASE PublishFails(r)
  <2>1. status' = status /\ relay[r].event \in Jobs
        /\ relay' = [relay EXCEPT ![r] = Resting]
        /\ outbox' = [outbox EXCEPT ![relay[r].event] = BackedOff(@)]
    BY <1>1, <1>5 DEF PublishFails, TypeInv, TypeOK
  <2>2. copies[k] > 0 => copies'[k] > 0
    BY <1>1, <1>5, <2>1 DEF PublishFails, TypeInv, TypeOK
  <2>3. outbox'[k] = outbox[k] \/ (outbox'[k] = "waiting" /\ outbox[k] = "due")
    <3>1. outbox \in [Jobs -> {"none", "due", "waiting", "published"}]
      BY <1>1 DEF TypeInv, TypeOK
    <3>2. CASE k = relay[r].event
      <4>1. outbox'[k] = BackedOff(outbox[k])
        BY <2>1, <3>1, <3>2
      <4> QED BY <4>1 DEF BackedOff
    <3>3. CASE k # relay[r].event
      BY <2>1, <3>1, <3>3
    <3> QED BY <3>2, <3>3
  <2>4. /\ \A q \in Relays : relay'[q].event = k => relay[q].event = k
        /\ MarkOwed(k)' => MarkOwed(k)
    BY <1>1, <2>1, RelayRests
  <2>5. Unborn(k)' /\ Outboxed(k)'
    BY <1>1, <1>2, <2>1, <2>3, <2>4 DEF JobInv, Unborn, Outboxed
  <2>6. k \notin exposed => Owned(k)' /\ Exclusive(k)' /\ Guarded(k)'
    BY <1>1, <1>2, <2>1, SameWorkers
    DEF JobInv, Owned, Exclusive, Guarded, Settled
  <2>7. k \notin exposed => Delivered(k)'
    BY <1>1, <1>2, <2>1, <2>2, <2>3, <2>4, SameWorkers DEF JobInv, Delivered
  <2> QED BY <1>2, <2>5, <2>6, <2>7 DEF JobInv
<1>6. CASE MarkPublished(r)
  <2> DEFINE j == relay[r].event
  <2>1. j \in Jobs /\ relay[r].sent /\ copies' = copies
        /\ relay' = [relay EXCEPT ![r] = Resting]
    BY <1>1, <1>6 DEF MarkPublished, TypeInv, BusyWithAJob
  <2>2. /\ \A q \in Relays : relay'[q].event = k => relay[q].event = k
        /\ MarkOwed(k)' => MarkOwed(k)
    BY <1>1, <2>1, RelayRests
  <2>3. CASE k # j
    <3>1. status'[k] = status[k] /\ outbox'[k] = outbox[k]
      BY <1>1, <1>6, <2>3 DEF MarkPublished, TypeInv, TypeOK
    <3>2. Untouched(k)
      BY <1>2, <2>1, <2>2, <3>1, SameWorkers DEF Untouched
    <3> QED BY <1>1, <3>2, Frame
  <2>4. CASE k = j
    <3>1. /\ outbox'[k] = IF outbox[k] = "none" THEN "none" ELSE "published"
          /\ status'[k] = AfterMark(status[k])
      BY <1>1, <1>6, <2>4 DEF MarkPublished, TypeInv, TypeOK
    <3>2. MarkOwed(k)
      <4>1. relay[r] = [event |-> k, sent |-> TRUE]
        BY <1>1, <2>1, <2>4 DEF TypeInv, TypeOK
      <4> QED BY <4>1 DEF MarkOwed
    <3>3. Unborn(k)' /\ Outboxed(k)'
      BY <1>1, <1>2, <2>2, <3>1, <2>4
      DEF JobInv, Unborn, Outboxed, AfterMark, Open
    <3>4. k \notin exposed => Owned(k)' /\ Exclusive(k)' /\ Guarded(k)'
      BY <1>1, <1>2, <3>1, SameWorkers
      DEF JobInv, Owned, Exclusive, Guarded, Settled, AfterMark, Open, Terminal
    <3>5. k \notin exposed => Delivered(k)'
      BY <1>1, <1>2, <2>1, <3>1, <3>2, SameWorkers
      DEF JobInv, Delivered, AfterMark, Open
    <3> QED BY <1>2, <3>3, <3>4, <3>5 DEF JobInv
  <2> QED BY <2>3, <2>4
<1>7. CASE RelayStops(r)
  <2>1. status' = status /\ outbox' = outbox /\ copies' = copies
        /\ relay' = [relay EXCEPT ![r] = Resting]
    BY <1>7 DEF RelayStops, uploadVars
  <2>2. Untouched(k)
    BY <1>1, <1>2, <2>1, SameWorkers, RelayRests DEF Untouched
  <2> QED BY <1>1, <2>2, Frame
<1> QED BY <1>3, <1>4, <1>5, <1>6, <1>7 DEF RelayStep

\* Every answer of Claim keeps the invariant.
LEMMA ClaimSafe ==
  ASSUME SafeInv, NEW w \in Workers, NEW j \in Jobs, ClaimStep(w, j),
         NEW k \in Jobs
  PROVE  JobInv(k)'
<1>1. JobInv(k) /\ TypeInv
  BY DEF SafeInv
<1>2. upload' = upload /\ outbox' = outbox /\ deletion' = deletion
      /\ relay' = relay /\ exposed' = exposed
  BY DEF ClaimStep, ClaimAcquired, ClaimReplyLost, ClaimTerminal, uploadVars
<1>3. /\ \A r \in Relays : relay'[r].event = k => relay[r].event = k
      /\ MarkOwed(k)' <=> MarkOwed(k)
  BY <1>2, SameRelays
<1>4. Claimable(j) /\ k = j =>
        /\ status[k] \in Open /\ deletion[DocOf[k]] = "none"
        /\ k \notin exposed => \A v \in Workers : ~Holds(v, k)
  BY <1>1 DEF Claimable, LeaseAllows, DocumentAllows, Open, JobInv, Owned,
              Settled, Terminal
<1>5. CASE ClaimAcquired(w, j)
  <2>1. Claimable(j) /\ worker[w] = Idle
        /\ status' = [status EXCEPT ![j] = "processing"]
        /\ lease' = [lease EXCEPT ![j] = TRUE]
        /\ copies' = [copies EXCEPT ![j] = @ - 1]
        /\ worker' = [worker EXCEPT ![w] =
                        [at |-> "start", job |-> j, attempt |-> 0]]
    BY <1>5 DEF ClaimAcquired, Receive
  <2>2. ASSUME NEW v \in Workers
        PROVE  Holds(v, k)' <=> Holds(v, k) \/ (v = w /\ k = j)
    <3>1. CASE v = w
      BY <1>1, <2>1, <3>1 DEF Holds, Idle, HoldingStates, TypeInv, TypeOK
    <3>2. CASE v # w
      BY <1>1, <2>1, <3>2 DEF Holds, TypeInv, TypeOK
    <3> QED BY <3>1, <3>2
  <2>3. CASE k # j
    <3>1. status'[k] = status[k] /\ lease'[k] = lease[k] /\ copies'[k] = copies[k]
      BY <1>1, <2>1, <2>3 DEF TypeInv, TypeOK
    <3>2. Holding(k) => Holding(k)'
      BY <2>2 DEF Holding
    <3>3. Untouched(k)
      BY <1>2, <1>3, <2>2, <2>3, <3>1, <3>2 DEF Untouched
    <3> QED BY <1>1, <3>3, Frame
  <2>4. CASE k = j
    <3>1. status'[k] = "processing" /\ lease'[k]
      BY <1>1, <2>1, <2>4 DEF TypeInv, TypeOK
    <3>2. Unborn(k)' /\ Outboxed(k)'
      BY <1>1, <1>2, <1>4, <2>1, <2>4 DEF JobInv, Unborn, Outboxed, Open
    <3>3. Owned(k)'
      BY <3>1 DEF Owned
    <3>4. k \notin exposed => Exclusive(k)'
      BY <1>4, <2>1, <2>2, <2>4 DEF Exclusive
    <3>5. Guarded(k)'
      BY <1>2, <1>4, <2>1, <2>4 DEF Guarded
    <3>6. Delivered(k)'
      BY <2>2, <2>4 DEF Delivered, Holding
    <3> QED BY <1>2, <3>2, <3>3, <3>4, <3>5, <3>6 DEF JobInv
  <2> QED BY <2>3, <2>4
<1>6. CASE ClaimReplyLost(w, j)
  <2>1. Claimable(j) /\ worker' = worker /\ copies' = copies
        /\ status' = [status EXCEPT ![j] = "processing"]
        /\ lease' = [lease EXCEPT ![j] = TRUE]
    BY <1>6 DEF ClaimReplyLost
  <2>2. CASE k # j
    <3>1. status'[k] = status[k] /\ lease'[k] = lease[k]
      BY <1>1, <2>1, <2>2 DEF TypeInv, TypeOK
    <3>2. Untouched(k)
      BY <1>2, <1>3, <2>1, <3>1, SameWorkers DEF Untouched
    <3> QED BY <1>1, <3>2, Frame
  <2>3. CASE k = j
    <3>1. status'[k] = "processing" /\ lease'[k]
      BY <1>1, <2>1, <2>3 DEF TypeInv, TypeOK
    <3>2. Unborn(k)' /\ Outboxed(k)'
      BY <1>1, <1>2, <1>4, <2>1, <2>3 DEF JobInv, Unborn, Outboxed, Open
    <3>3. k \notin exposed => Owned(k)' /\ Exclusive(k)' /\ Guarded(k)'
      BY <1>4, <2>1, <2>3, SameWorkers DEF Owned, Exclusive, Guarded
    <3>4. k \notin exposed => Delivered(k)'
      BY <1>1, <1>2, <1>3, <1>4, <2>1, <2>3, SameWorkers DEF JobInv, Delivered
    <3> QED BY <1>2, <3>2, <3>3, <3>4 DEF JobInv
  <2> QED BY <2>2, <2>3
<1>7. CASE ClaimTerminal(w, j)
  <2>1. AcksAtClaim(j) /\ status' = status /\ lease' = lease /\ worker' = worker
        /\ copies' = [copies EXCEPT ![j] = @ - 1]
    BY <1>7 DEF ClaimTerminal, uploadVars
  <2>2. CASE k # j
    <3>1. copies'[k] = copies[k]
      BY <1>1, <2>1, <2>2 DEF TypeInv, TypeOK
    <3>2. Untouched(k)
      BY <1>2, <1>3, <2>1, <3>1, SameWorkers DEF Untouched
    <3> QED BY <1>1, <3>2, Frame
  <2>3. CASE k = j
    <3>1. status[k] \in Terminal
      BY <2>1, <2>3 DEF AcksAtClaim, Terminal
    <3>2. status[k] # "none" /\ status'[k] \in Terminal \cup {"gone"}
      BY <2>1, <3>1 DEF Terminal
    <3> QED BY <1>1, <1>2, <2>1, <3>2, SettledSafe, SameWorkers
  <2> QED BY <2>2, <2>3
<1> QED BY <1>5, <1>6, <1>7 DEF ClaimStep

\* A worker that moves on inside or out of handleTask without touching a row
\* or losing a delivery keeps the invariant.
LEMMA GoesOnSafe ==
  ASSUME SafeInv, NEW w \in Workers, NEW at \in HoldingStates,
         worker[w].at \in HoldingStates, Goto(w, at),
         UNCHANGED <<uploadVars, deletion, relay, copies, exposed>>,
         NEW k \in Jobs
  PROVE  JobInv(k)'
<1>1. JobInv(k) /\ TypeInv
  BY DEF SafeInv
<1>2. Untouched(k)
  BY <1>1, GoesOn, SameRelays DEF Untouched, uploadVars
<1> QED BY <1>1, <1>2, Frame

\* Recording an outcome keeps the invariant.
LEMMA OutcomeSafe ==
  ASSUME SafeInv, NEW w \in Workers, NEW from \in HoldingStates,
         NEW s \in {"completed", "failed"}, RecordOutcome(w, from, s),
         NEW k \in Jobs
  PROVE  JobInv(k)'
<1> DEFINE j == worker[w].job
<1>1. JobInv(k) /\ TypeInv
  BY DEF SafeInv
<1>2. worker[w].at \in HoldingStates /\ j \in Jobs
  BY <1>1 DEF RecordOutcome, TypeInv, BusyWithAJob, HoldingStates
<1>3. upload' = upload /\ outbox' = outbox /\ deletion' = deletion
      /\ relay' = relay /\ copies' = copies /\ exposed' = exposed
      /\ current' = current
  BY DEF RecordOutcome
<1>4. CASE CanMark(j, s) /\ Mark(j, s) /\ (Goto(w, s) \/ Goto(w, "release"))
  <2>1. PICK at \in {s, "release"} : Goto(w, at)
    BY <1>4
  <2>2. at \in HoldingStates \cup ReportStates
    BY DEF HoldingStates, ReportStates
  <2>3. /\ \A v \in Workers : Holds(v, k)' => Holds(v, k)
        /\ k # j => (Holding(k) => Holding(k)')
    BY <1>1, <1>2, <2>1, <2>2, MovesOn
  <2>4. CASE k # j
    <3>1. status'[k] = status[k] /\ lease'[k] = lease[k]
      BY <1>1, <1>2, <1>4, <2>4 DEF Mark, TypeInv, TypeOK
    <3>2. Untouched(k)
      BY <1>3, <2>3, <2>4, <3>1, SameRelays DEF Untouched
    <3> QED BY <1>1, <3>2, Frame
  <2>5. CASE k = j
    <3>1. status[k] # "none"
      BY <1>4, <2>5 DEF CanMark
    <3>2. status'[k] \in Terminal \cup {"gone"}
      BY <1>1, <1>2, <1>4, <2>5 DEF Mark, TypeInv, TypeOK, Terminal
    <3> QED BY <1>1, <1>3, <2>3, <3>1, <3>2, SettledSafe
  <2> QED BY <2>4, <2>5
<1>5. CASE UNCHANGED <<status, lease>> /\ Goto(w, "release")
  <2>1. "release" \in HoldingStates
    BY DEF HoldingStates
  <2> QED BY <1>2, <1>3, <1>5, <2>1, GoesOnSafe DEF uploadVars
<1> QED BY <1>4, <1>5 DEF RecordOutcome

\* Every step of a worker that has a job keeps the invariant.
LEMMA WorkerSafe ==
  ASSUME SafeInv, NEW w \in Workers, WorkerStep(w), NEW k \in Jobs
  PROVE  JobInv(k)'
<1> DEFINE j == worker[w].job
<1>1. JobInv(k) /\ TypeInv
  BY DEF SafeInv
<1>2. CASE SaveProgress(w) \/ ProcessingSucceeds(w) \/ PushToDLQ(w)
  <2>1. PICK at \in HoldingStates : Goto(w, at) /\ worker[w].at \in HoldingStates
    BY <1>2 DEF SaveProgress, ProcessingSucceeds, PushToDLQ, HoldingStates
  <2>2. UNCHANGED <<uploadVars, deletion, relay, copies, exposed>>
    BY <1>2 DEF SaveProgress, ProcessingSucceeds, PushToDLQ
  <2> QED BY <2>1, <2>2, GoesOnSafe
<1>3. CASE ProcessingFails(w)
  <2>1. worker[w].at = "attempt"
        /\ UNCHANGED <<uploadVars, deletion, relay, copies, exposed>>
    BY <1>3 DEF ProcessingFails
  <2>2. CASE Goto(w, "exhausted")
    BY <2>1, <2>2, GoesOnSafe DEF HoldingStates
  <2>3. CASE worker' = [worker EXCEPT ![w].attempt = @ + 1]
    <3>1. \A v \in Workers : worker'[v].at = worker[v].at /\ worker'[v].job = worker[v].job
      BY <1>1, <2>3 DEF TypeInv, TypeOK
    <3>2. /\ \A v \in Workers : Holds(v, k)' <=> Holds(v, k)
          /\ Holding(k)' <=> Holding(k)
      BY <3>1 DEF Holds, Holding
    <3>3. Untouched(k)
      BY <2>1, <3>2, SameRelays DEF Untouched, uploadVars
    <3> QED BY <1>1, <3>3, Frame
  <2> QED BY <1>3, <2>2, <2>3 DEF ProcessingFails
<1>4. CASE ProcessingCancelled(w)
  <2>1. j \in Jobs /\ worker[w].at \in HoldingStates /\ Goto(w, "cancelled")
    BY <1>1, <1>4 DEF ProcessingCancelled, TypeInv, BusyWithAJob, HoldingStates
  <2>2. upload' = upload /\ outbox' = outbox /\ deletion' = deletion
        /\ relay' = relay /\ copies' = copies
    BY <1>4 DEF ProcessingCancelled
  <2>3. /\ \A v \in Workers : Holds(v, k)' => Holds(v, k)
        /\ k # j => (Holding(k) => Holding(k)')
    BY <1>1, <2>1, MovesOn DEF ReportStates
  <2>4. exposed \subseteq exposed'
    BY <1>4 DEF ProcessingCancelled
  <2>5. CASE k # j
    <3>1. status'[k] = status[k] /\ lease'[k] = lease[k]
      BY <1>1, <1>4, <2>1, <2>5 DEF ProcessingCancelled, Mark, TypeInv, TypeOK
    <3>2. Untouched(k)
      BY <2>2, <2>3, <2>4, <2>5, <3>1, SameRelays DEF Untouched
    <3> QED BY <1>1, <3>2, Frame
  <2>6. CASE k = j /\ CanMark(j, "cancelled") /\ Mark(j, "cancelled")
    <3>1. status[k] # "none" /\ status'[k] \in Terminal \cup {"gone"}
      BY <1>1, <2>1, <2>6 DEF CanMark, Mark, TypeInv, TypeOK, Terminal
    <3> QED BY <1>1, <2>2, <2>3, <2>4, <3>1, SettledSafe
  <2>7. CASE k = j /\ UNCHANGED <<status, lease>>
             /\ exposed' = IF status[j] \in Open THEN exposed \cup {j} ELSE exposed
    <3>1. Unborn(k)' /\ Outboxed(k)'
      BY <1>1, <2>2, <2>7 DEF JobInv, Unborn, Outboxed
    <3>2. ASSUME k \notin exposed'
          PROVE  Owned(k)' /\ Exclusive(k)' /\ Guarded(k)' /\ Delivered(k)'
      <4>1. k \notin exposed /\ status[k] \notin Open
        BY <2>7, <3>2
      <4> QED BY <1>1, <2>2, <2>3, <2>7, <4>1
           DEF JobInv, Owned, Exclusive, Guarded, Delivered, Settled
    <3> QED BY <3>1, <3>2 DEF JobInv
  <2> QED BY <1>4, <2>5, <2>6, <2>7 DEF ProcessingCancelled
<1>5. CASE Complete(w) \/ Fail(w)
  BY <1>5, OutcomeSafe DEF Complete, Fail, HoldingStates
<1>6. CASE ReleaseAndNack(w) \/ ShutDown(w) \/ Crash(w)
  <2>1. worker[w].at \in HoldingStates /\ HandBack(w)
    BY <1>6 DEF ReleaseAndNack, ShutDown, Crash, HoldingStates
  <2>2. ReleaseClaim(j) \/ UNCHANGED <<status, lease>>
    BY <1>6 DEF ReleaseAndNack, ShutDown, Crash, uploadVars
  <2>3. UNCHANGED <<upload, outbox, deletion, relay, exposed>>
    BY <1>6 DEF ReleaseAndNack, ShutDown, Crash, uploadVars
  <2> QED BY <2>1, <2>2, <2>3, HandBackSafe
<1>7. CASE Report(w)
  <2>1. worker[w].at \notin HoldingStates /\ worker' = [worker EXCEPT ![w] = Idle]
        /\ UNCHANGED <<uploadVars, deletion, relay, copies, exposed>>
    BY <1>7 DEF Report, ReportStates, HoldingStates
  <2>2. \A v \in Workers : Holds(v, k)' <=> Holds(v, k) /\ v # w
    BY <1>1, <2>1, Leaves DEF Idle, HoldingStates
  <2>3. ~Holds(w, k)
    BY <2>1 DEF Holds
  <2>4. Holding(k) => Holding(k)'
    BY <2>2, <2>3 DEF Holding
  <2>5. Untouched(k)
    BY <2>1, <2>2, <2>4, SameRelays DEF Untouched, uploadVars
  <2> QED BY <1>1, <2>5, Frame
<1> QED BY <1>2, <1>3, <1>4, <1>5, <1>6, <1>7 DEF WorkerStep

\* Cancellation and deletion keep the invariant.
LEMMA DocSafe ==
  ASSUME SafeInv, NEW d \in Docs, DocStep(d), NEW k \in Jobs
  PROVE  JobInv(k)'
<1>1. JobInv(k) /\ TypeInv
  BY DEF SafeInv
<1>2. upload' = upload /\ relay' = relay /\ copies' = copies
      /\ worker' = worker /\ exposed' = exposed
  BY DEF DocStep, CancelLoad, CancelJob, CancelSave, DeletionAccepted,
         CleanupClaimed, CleanupIncomplete, CleanupFinished, uploadVars
<1>3. /\ \A r \in Relays : relay'[r].event = k => relay[r].event = k
      /\ MarkOwed(k)' <=> MarkOwed(k)
      /\ \A w \in Workers : Holds(w, k)' <=> Holds(w, k)
      /\ Holding(k)' <=> Holding(k)
  BY <1>2, SameRelays, SameWorkers
<1>4. DocOf[k] \in Docs
  BY JobsAssumption
<1>5. CASE CancelLoad(d) \/ CancelSave(d) \/ CleanupIncomplete(d)
  <2>1. status' = status /\ lease' = lease /\ outbox' = outbox
    BY <1>5 DEF CancelLoad, CancelSave, CleanupIncomplete, uploadVars
  <2>2. deletion'[DocOf[k]] = "cleaning" => deletion[DocOf[k]] = "cleaning"
    BY <1>1, <1>4, <1>5 DEF CancelLoad, CancelSave, CleanupIncomplete, TypeInv,
                            TypeOK
  <2> QED BY <1>1, <1>2, <1>3, <2>1, <2>2, Frame DEF Untouched
<1>6. CASE CancelJob(d)
  <2> DEFINE j == cancelling[d].job
  <2>1. outbox' = outbox /\ deletion' = deletion /\ j \in Jobs
    BY <1>1, <1>6 DEF CancelJob, TypeInv, TypeOK
  <2>2. CASE k = j /\ CanMark(j, "cancelled")
    <3>1. status[k] # "none" /\ status'[k] \in Terminal \cup {"gone"}
      BY <1>1, <1>6, <2>1, <2>2 DEF CancelJob, CanMark, Mark, TypeInv, TypeOK,
                                    Terminal
    <3> QED BY <1>1, <1>2, <1>3, <3>1, SettledSafe
  <2>3. CASE ~(k = j /\ CanMark(j, "cancelled"))
    <3>1. status'[k] = status[k] /\ lease'[k] = lease[k]
      BY <1>1, <1>6, <2>1, <2>3 DEF CancelJob, Mark, TypeInv, TypeOK
    <3> QED BY <1>1, <1>2, <1>3, <2>1, <3>1, Frame DEF Untouched
  <2> QED BY <2>2, <2>3
<1>7. CASE DeletionAccepted(d)
  <2> DEFINE pending == {j \in JobsOf(d) : status[j] \in {"queued", "published"}}
  <2>1. outbox' = outbox
        /\ status'[k] = (IF k \in pending THEN "failed" ELSE status[k])
        /\ lease'[k] = (lease[k] /\ k \notin pending)
    BY <1>7 DEF DeletionAccepted
  <2>2. deletion'[DocOf[k]] = "cleaning" => deletion[DocOf[k]] = "cleaning"
    BY <1>1, <1>4, <1>7 DEF DeletionAccepted, TypeInv, TypeOK
  <2>3. CASE k \in pending
    <3>1. status[k] # "none" /\ status'[k] \in Terminal \cup {"gone"}
      BY <2>1, <2>3 DEF Terminal
    <3> QED BY <1>1, <1>2, <1>3, <3>1, SettledSafe
  <2>4. CASE k \notin pending
    <3>1. status'[k] = status[k] /\ lease'[k] = lease[k]
      BY <1>1, <2>1, <2>4 DEF TypeInv, TypeOK
    <3> QED BY <1>1, <1>2, <1>3, <2>1, <2>2, <3>1, Frame DEF Untouched
  <2> QED BY <2>3, <2>4
<1>8. CASE CleanupClaimed(d)
  <2>1. status' = status /\ lease' = lease /\ outbox' = outbox
        /\ deletion' = [deletion EXCEPT ![d] = "cleaning"] /\ ~ActiveLease(d)
    BY <1>8 DEF CleanupClaimed, Deferred, uploadVars
  <2>2. CASE DocOf[k] # d
    <3>1. deletion'[DocOf[k]] = deletion[DocOf[k]]
      BY <1>1, <1>4, <2>1, <2>2 DEF TypeInv, TypeOK
    <3> QED BY <1>1, <1>2, <1>3, <2>1, <3>1, Frame DEF Untouched
  <2>3. CASE DocOf[k] = d
    <3>1. ~(status[k] = "processing" /\ lease[k])
      BY <2>1, <2>3 DEF ActiveLease, JobsOf
    <3>2. Unborn(k)' /\ Outboxed(k)'
      BY <1>1, <1>2, <1>3, <2>1 DEF JobInv, Unborn, Outboxed
    <3>3. ASSUME k \notin exposed
          PROVE  Owned(k)' /\ Exclusive(k)' /\ Guarded(k)' /\ Delivered(k)'
      <4>1. Owned(k)' /\ Exclusive(k)' /\ Delivered(k)'
        BY <1>1, <1>2, <1>3, <2>1, <3>3
        DEF JobInv, Owned, Exclusive, Delivered, Settled
      <4>2. Guarded(k)'
        BY <1>1, <1>3, <2>1, <3>1, <3>3
        DEF JobInv, Owned, Guarded, Settled, Open, Terminal
      <4> QED BY <4>1, <4>2
    <3> QED BY <1>2, <3>2, <3>3 DEF JobInv
  <2> QED BY <2>2, <2>3
<1>9. CASE CleanupFinished(d)
  <2>1. /\ status'[k] = (IF k \in JobsOf(d) THEN "gone" ELSE status[k])
        /\ lease'[k] = (lease[k] /\ k \notin JobsOf(d))
        /\ outbox'[k] = (IF k \in JobsOf(d) THEN "none" ELSE outbox[k])
    BY <1>9 DEF CleanupFinished
  <2>2. deletion'[DocOf[k]] = "cleaning" => deletion[DocOf[k]] = "cleaning"
    BY <1>1, <1>4, <1>9 DEF CleanupFinished, TypeInv, TypeOK
  <2>3. CASE k \in JobsOf(d)
    <3>1. status[k] # "none" /\ status'[k] \in Terminal \cup {"gone"}
      BY <2>1, <2>3 DEF JobsOf
    <3> QED BY <1>1, <1>2, <1>3, <3>1, SettledSafe
  <2>4. CASE k \notin JobsOf(d)
    <3>1. status'[k] = status[k] /\ lease'[k] = lease[k] /\ outbox'[k] = outbox[k]
      BY <1>1, <2>1, <2>4 DEF TypeInv, TypeOK
    <3> QED BY <1>1, <1>2, <1>3, <2>2, <3>1, Frame DEF Untouched
  <2> QED BY <2>3, <2>4
<1> QED BY <1>5, <1>6, <1>7, <1>8, <1>9 DEF DocStep

\* The passing of time, a redelivery and a repair keep the invariant.
LEMMA TimeSafe ==
  ASSUME SafeInv, NEW j \in Jobs, TimeStep(j), NEW k \in Jobs
  PROVE  JobInv(k)'
<1>1. JobInv(k) /\ TypeInv
  BY DEF SafeInv
<1>2. upload' = upload /\ relay' = relay /\ worker' = worker
      /\ deletion' = deletion /\ exposed \subseteq exposed'
  BY DEF TimeStep, OutboxBecomesDue, LeaseLapses, Redeliver, Reopen, uploadVars
<1>3. /\ \A r \in Relays : relay'[r].event = k => relay[r].event = k
      /\ MarkOwed(k)' <=> MarkOwed(k)
      /\ \A w \in Workers : Holds(w, k)' <=> Holds(w, k)
      /\ Holding(k)' <=> Holding(k)
  BY <1>2, SameRelays, SameWorkers
<1>4. k # j => status'[k] = status[k] /\ lease'[k] = lease[k]
               /\ outbox'[k] = outbox[k] /\ copies'[k] = copies[k]
  BY <1>1 DEF TimeStep, OutboxBecomesDue, LeaseLapses, Redeliver, Reopen,
              uploadVars, TypeInv, TypeOK
<1>5. CASE k # j
  BY <1>1, <1>2, <1>3, <1>4, <1>5, Frame DEF Untouched
<1>6. CASE k = j /\ OutboxBecomesDue(j)
  <2>1. status' = status /\ lease' = lease /\ copies' = copies
        /\ exposed' = exposed /\ outbox[k] = "waiting" /\ outbox'[k] = "due"
    BY <1>1, <1>6 DEF OutboxBecomesDue, TypeInv, TypeOK
  <2>2. Unborn(k)' /\ Outboxed(k)'
    BY <1>1, <1>2, <2>1 DEF JobInv, Unborn, Outboxed
  <2>3. k \notin exposed =>
          Owned(k)' /\ Exclusive(k)' /\ Guarded(k)' /\ Delivered(k)'
    BY <1>1, <1>2, <1>3, <2>1
    DEF JobInv, Owned, Exclusive, Guarded, Delivered, Settled
  <2> QED BY <2>1, <2>2, <2>3 DEF JobInv
<1>7. CASE k = j /\ LeaseLapses(j)
  <2>1. status' = status /\ outbox' = outbox /\ copies' = copies
        /\ exposed' = exposed /\ \A w \in Workers : ~Holds(w, k)
    BY <1>7 DEF LeaseLapses, Holding
  <2>2. Unborn(k)' /\ Outboxed(k)'
    BY <1>1, <1>2, <2>1 DEF JobInv, Unborn, Outboxed
  <2>3. Owned(k)' /\ Exclusive(k)' /\ Guarded(k)'
    BY <1>3, <2>1 DEF Owned, Exclusive, Guarded
  <2>4. k \notin exposed => Delivered(k)'
    BY <1>1, <1>3, <2>1 DEF JobInv, Delivered
  <2> QED BY <2>1, <2>2, <2>3, <2>4 DEF JobInv
<1>8. CASE k = j /\ Redeliver(j)
  <2>1. status' = status /\ lease' = lease /\ outbox' = outbox /\ copies'[k] > 0
    BY <1>1, <1>8 DEF Redeliver, uploadVars, TypeInv, TypeOK
  <2> QED BY <1>1, <1>2, <1>3, <2>1, Frame DEF Untouched
<1>9. CASE k = j /\ Reopen(j)
  <2>1. /\ status[k] # "none" /\ status'[k] = "published" /\ outbox'[k] = "due"
        /\ exposed' = IF MarkOwed(k) \/ Holding(k) THEN exposed \cup {k} ELSE exposed
    BY <1>1, <1>9 DEF Reopen, TypeInv, TypeOK
  <2>2. Unborn(k)' /\ Outboxed(k)'
    BY <1>1, <1>2, <2>1 DEF JobInv, Unborn, Outboxed
  <2>3. ASSUME k \notin exposed'
        PROVE  Owned(k)' /\ Exclusive(k)' /\ Guarded(k)' /\ Delivered(k)'
    <3>1. ~MarkOwed(k)' /\ \A w \in Workers : ~Holds(w, k)'
      BY <1>3, <2>1, <2>3 DEF Holding
    <3> QED BY <2>1, <3>1 DEF Owned, Exclusive, Guarded, Delivered
  <2> QED BY <2>2, <2>3 DEF JobInv
<1> QED BY <1>5, <1>6, <1>7, <1>8, <1>9 DEF TimeStep

-----------------------------------------------------------------------------
(* The theorems.                                                           *)

LEMMA SafeInvInitial ==
  ASSUME Init
  PROVE  SafeInv
<1>1. TypeInv
  BY JobsAssumption, BoundsAssumption
  DEF Init, TypeInv, TypeOK, BusyWithAJob, NoStatus, NoCancel, Resting, Idle
<1>2. ASSUME NEW k \in Jobs PROVE JobInv(k)
  <2>1. \A w \in Workers : ~Holds(w, k)
    BY DEF Init, Holds, Idle, HoldingStates
  <2>2. k # None
    BY JobsAssumption
  <2>3. Unborn(k) /\ Outboxed(k) /\ Delivered(k)
    BY <2>2 DEF Init, Unborn, Outboxed, Delivered, Resting, Open
  <2> QED BY <2>1, <2>3 DEF JobInv, Owned, Exclusive, Guarded
<1> QED BY <1>1, <1>2 DEF SafeInv

LEMMA SafeInvInductive ==
  ASSUME SafeInv, [Next]_vars
  PROVE  SafeInv'
<1>1. TypeInv'
  BY TypeInvInductive DEF SafeInv
<1>2. ASSUME NEW k \in Jobs PROVE JobInv(k)'
  <2>1. CASE Next
    BY <2>1, NextCases, UploadSafe, TimeSafe, RelaySafe, WorkerSafe, ClaimSafe,
       DocSafe
  <2>2. CASE UNCHANGED vars
    <3>1. Untouched(k)
      BY <2>2, SameWorkers, SameRelays DEF vars, Untouched
    <3> QED BY <3>1, Frame DEF SafeInv
  <2> QED BY <2>1, <2>2
<1> QED BY <1>1, <1>2 DEF SafeInv

LEMMA SafeInvAlways == Spec => []SafeInv
<1>1. Init => SafeInv
  BY SafeInvInitial
<1>2. SafeInv /\ [Next]_vars => SafeInv'
  BY SafeInvInductive
<1> QED BY <1>1, <1>2, PTL DEF Spec

\* An accepted upload is never lost: while its job is not settled the relay
\* still has the event to publish or a delivery of it is still unacked, unless
\* the job went through one of the two windows of `exposed`.
THEOREM NoJobIsStrandedHolds == Spec => []NoJobIsStranded
<1>1. SafeInv => NoJobIsStranded
  <2> SUFFICES ASSUME SafeInv, NEW j \in Jobs, status[j] \in Open, j \notin exposed
               PROVE  Carried(j)
    BY DEF NoJobIsStranded
  <2>1. Outboxed(j) /\ Delivered(j)
    BY DEF SafeInv, JobInv
  <2>2. outbox[j] \in {"none", "due", "waiting", "published"}
    BY DEF SafeInv, TypeInv, TypeOK
  <2> QED BY <2>1, <2>2 DEF Outboxed, Delivered, Carried
<1> QED BY <1>1, SafeInvAlways, PTL

\* Two workers are never inside handleTask for one job.
THEOREM OneWorkerPerJobHolds == Spec => []OneWorkerPerJob
<1>1. SafeInv => OneWorkerPerJob
  BY DEF SafeInv, JobInv, Exclusive, OneWorkerPerJob
<1> QED BY <1>1, SafeInvAlways, PTL

\* Projections are not deleted under a worker that owns a job of the document.
THEOREM CleanupExcludesClaimsHolds == Spec => []CleanupExcludesClaims
<1>1. SafeInv => CleanupExcludesClaims
  BY DEF SafeInv, JobInv, Guarded, CleanupExcludesClaims
<1> QED BY <1>1, SafeInvAlways, PTL

-----------------------------------------------------------------------------
(***************************************************************************)
(* Ingestion implements the safety part of JobLedger, for every set of     *)
(* jobs, documents, relays and workers: every step of Ingestion is, job by *)
(* job, a step of the ledger or none.  That nothing is owed for a job that *)
(* does not exist needs one more invariant.                                *)
(***************************************************************************)

-----------------------------------------------------------------------------
(* What a step does to one job.                                            *)

Absent == {"none", "gone"}

\* A job that does not exist has no outbox row.
Quiet(k) == status[k] \in Absent => outbox[k] = "none"

Moved(k) ==
  \/ status'[k] = status[k]
  \/ status[k] \in Open /\ status'[k] \in Open \cup Terminal \cup {"gone"}
  \/ status[k] = "none" /\ status'[k] = "queued" /\ outbox'[k] = "due"
  \/ /\ status[k] \in {"completed", "failed"} /\ status'[k] = "published"
     /\ outbox'[k] = "due"
  \/ status[k] \in Terminal /\ status'[k] = "gone"

\* A mark settles an open job or confirms the outcome of a settled one.
LEMMA MarkMoves ==
  ASSUME TypeInv, NEW j \in Jobs, NEW s \in Terminal, NEW k \in Jobs,
         (CanMark(j, s) /\ Mark(j, s)) \/ UNCHANGED status
  PROVE  /\ Moved(k)
         /\ status[k] \in Absent => status'[k] = status[k]
         /\ status'[k] \in Absent => status'[k] = status[k]
<1>1. CASE k # j
  <2>1. status'[k] = status[k]
    BY <1>1 DEF TypeInv, TypeOK, Mark
  <2> QED BY <2>1 DEF Moved
<1>2. CASE k = j /\ CanMark(j, s) /\ Mark(j, s)
  <2>1. status'[k] = s /\ status[k] \in {"processing", s}
    BY <1>2 DEF TypeInv, TypeOK, Mark, CanMark
  <2> QED BY <2>1 DEF Moved, Open, Absent, Terminal
<1>3. CASE UNCHANGED status
  BY <1>3 DEF Moved
<1> QED BY <1>1, <1>2, <1>3

\* A release takes a job from processing to published, or leaves it alone.
LEMMA ReleaseMoves ==
  ASSUME TypeInv, NEW j \in Jobs, NEW k \in Jobs,
         ReleaseClaim(j) \/ UNCHANGED <<status, lease>>
  PROVE  /\ Moved(k)
         /\ status[k] \in Absent => status'[k] = status[k]
         /\ status'[k] \in Absent => status'[k] = status[k]
<1>1. \/ status'[k] = status[k]
      \/ status[k] = "processing" /\ status'[k] = "published"
  BY DEF TypeInv, TypeOK, ReleaseClaim, Releasable
<1> QED BY <1>1 DEF Moved, Open, Absent

\* A step that leaves the outbox alone and neither creates nor removes the job.
LEMMA QuietKept ==
  ASSUME NEW k \in Jobs, Quiet(k), outbox' = outbox,
         status'[k] \in Absent => status'[k] = status[k]
  PROVE  Quiet(k)'
  BY DEF Quiet

-----------------------------------------------------------------------------
(* One lemma per actor.                                                    *)

\* The upload handler.
LEMMA UploadMoves ==
  ASSUME SafeInv, NEW j \in Jobs, UploadStep(j), NEW k \in Jobs, Quiet(k)
  PROVE  Moved(k) /\ Quiet(k)'
<1>1. TypeInv
  BY DEF SafeInv
<1>2. CASE UploadChecked(j) \/ SaveQueued(j)
  BY <1>2 DEF UploadChecked, SaveQueued, Moved, Quiet
<1>3. CASE Admit(j)
  <2>1. status[j] = "none"
    BY <1>3 DEF SafeInv, JobInv, Unborn, Admit
  <2>2. CASE k = j
    <3>1. status'[k] = "queued" /\ outbox'[k] = "due"
      BY <1>1, <1>3, <2>2 DEF Admit, TypeInv, TypeOK
    <3> QED BY <2>1, <2>2, <3>1 DEF Moved, Quiet, Absent
  <2>3. CASE k # j
    <3>1. status'[k] = status[k] /\ outbox'[k] = outbox[k]
      BY <1>1, <1>3, <2>3 DEF Admit, TypeInv, TypeOK
    <3> QED BY <3>1 DEF Moved, Quiet
  <2> QED BY <2>2, <2>3
<1> QED BY <1>2, <1>3 DEF UploadStep

\* The relays.
LEMMA RelayMoves ==
  ASSUME SafeInv, NEW r \in Relays, RelayStep(r), NEW k \in Jobs, Quiet(k)
  PROVE  Moved(k) /\ Quiet(k)'
<1>1. TypeInv
  BY DEF SafeInv
<1>2. CASE \E j \in Jobs : ClaimPending(r, j)
  <2>1. PICK j \in Jobs : ClaimPending(r, j)
    BY <1>2
  <2>2. status' = status /\ (outbox[k] = "none" => outbox'[k] = "none")
    BY <1>1, <2>1 DEF ClaimPending, TypeInv, TypeOK
  <2> QED BY <2>2 DEF Moved, Quiet
<1>3. CASE Publish(r) \/ RelayStops(r)
  BY <1>3 DEF Publish, RelayStops, uploadVars, Moved, Quiet
<1>4. CASE PublishFails(r)
  <2>1. status' = status /\ outbox' = [outbox EXCEPT ![relay[r].event] = BackedOff(@)]
    BY <1>4 DEF PublishFails
  <2>2. outbox[k] = "none" => outbox'[k] = "none"
    BY <1>1, <2>1 DEF TypeInv, TypeOK, BackedOff
  <2> QED BY <2>1, <2>2 DEF Moved, Quiet
<1>5. CASE MarkPublished(r)
  <2> DEFINE j == relay[r].event
  <2>1. CASE k = j
    <3>1. /\ status'[k] = AfterMark(status[k])
          /\ outbox[k] = "none" => outbox'[k] = "none"
      BY <1>1, <1>5, <2>1 DEF MarkPublished, TypeInv, TypeOK
    <3> QED BY <3>1 DEF AfterMark, Moved, Quiet, Absent, Open
  <2>2. CASE k # j
    <3>1. status'[k] = status[k] /\ outbox'[k] = outbox[k]
      BY <1>1, <1>5, <2>2 DEF MarkPublished, TypeInv, TypeOK
    <3> QED BY <3>1 DEF Moved, Quiet
  <2> QED BY <2>1, <2>2
<1> QED BY <1>2, <1>3, <1>4, <1>5 DEF RelayStep

\* The claims.
LEMMA ClaimMoves ==
  ASSUME SafeInv, NEW w \in Workers, NEW j \in Jobs, ClaimStep(w, j),
         NEW k \in Jobs, Quiet(k)
  PROVE  Moved(k) /\ Quiet(k)'
<1>1. TypeInv
  BY DEF SafeInv
<1>2. CASE ClaimTerminal(w, j)
  BY <1>2 DEF ClaimTerminal, uploadVars, Moved, Quiet
<1>3. CASE ClaimAcquired(w, j) \/ ClaimReplyLost(w, j)
  <2>1. outbox' = outbox /\ status' = [status EXCEPT ![j] = "processing"]
        /\ status[j] \in Open
    BY <1>3 DEF ClaimAcquired, ClaimReplyLost, Claimable, LeaseAllows, Open
  <2>2. status'[k] = status[k] \/ (status[k] \in Open /\ status'[k] = "processing")
    BY <1>1, <2>1 DEF TypeInv, TypeOK
  <2> QED BY <2>1, <2>2, QuietKept DEF Moved, Open, Absent
<1> QED BY <1>2, <1>3 DEF ClaimStep

\* The workers.
LEMMA WorkerMoves ==
  ASSUME SafeInv, NEW w \in Workers, WorkerStep(w), NEW k \in Jobs, Quiet(k)
  PROVE  Moved(k) /\ Quiet(k)'
<1> DEFINE j == worker[w].job
<1>1. TypeInv
  BY DEF SafeInv
<1>2. CASE SaveProgress(w) \/ ProcessingSucceeds(w) \/ PushToDLQ(w)
           \/ ProcessingFails(w) \/ Crash(w) \/ Report(w)
  BY <1>2 DEF SaveProgress, ProcessingSucceeds, PushToDLQ, ProcessingFails,
              Crash, Report, uploadVars, Moved, Quiet
<1>3. CASE ProcessingCancelled(w)
  <2>1. j \in Jobs
    BY <1>1, <1>3 DEF TypeInv, BusyWithAJob, ProcessingCancelled
  <2>2. (CanMark(j, "cancelled") /\ Mark(j, "cancelled")) \/ UNCHANGED status
    BY <1>3 DEF ProcessingCancelled
  <2>3. outbox' = outbox /\ "cancelled" \in Terminal
    BY <1>3 DEF ProcessingCancelled, Terminal
  <2> HIDE DEF j
  <2> QED BY <1>1, <2>1, <2>2, <2>3, MarkMoves, QuietKept
<1>4. CASE Complete(w) \/ Fail(w)
  <2>1. j \in Jobs
    BY <1>1, <1>4 DEF TypeInv, BusyWithAJob, Complete, Fail, RecordOutcome
  <2>2. PICK s \in Terminal : (CanMark(j, s) /\ Mark(j, s)) \/ UNCHANGED status
    BY <1>4 DEF Complete, Fail, RecordOutcome, Terminal
  <2>3. outbox' = outbox
    BY <1>4 DEF Complete, Fail, RecordOutcome
  <2> HIDE DEF j
  <2> QED BY <1>1, <2>1, <2>2, <2>3, MarkMoves, QuietKept
<1>5. CASE ReleaseAndNack(w) \/ ShutDown(w)
  <2>1. j \in Jobs
    BY <1>1, <1>5 DEF TypeInv, BusyWithAJob, ReleaseAndNack, ShutDown
  <2>2. ReleaseClaim(j) \/ UNCHANGED <<status, lease>>
    BY <1>5 DEF ReleaseAndNack, ShutDown
  <2>3. outbox' = outbox
    BY <1>5 DEF ReleaseAndNack, ShutDown
  <2> HIDE DEF j
  <2> QED BY <1>1, <2>1, <2>2, <2>3, ReleaseMoves, QuietKept
<1> QED BY <1>2, <1>3, <1>4, <1>5 DEF WorkerStep

\* Cancellation and deletion.
LEMMA DocMoves ==
  ASSUME SafeInv, NEW d \in Docs, DocStep(d), NEW k \in Jobs, Quiet(k)
  PROVE  Moved(k) /\ Quiet(k)'
<1>1. TypeInv
  BY DEF SafeInv
<1>2. CASE CancelLoad(d) \/ CancelSave(d) \/ CleanupIncomplete(d)
           \/ CleanupClaimed(d)
  BY <1>2 DEF CancelLoad, CancelSave, CleanupIncomplete, CleanupClaimed,
              uploadVars, Moved, Quiet
<1>3. CASE CancelJob(d)
  <2> DEFINE j == cancelling[d].job
  <2>1. j \in Jobs
    BY <1>1, <1>3 DEF CancelJob, TypeInv, TypeOK
  <2>2. (CanMark(j, "cancelled") /\ Mark(j, "cancelled")) \/ UNCHANGED status
    BY <1>3 DEF CancelJob
  <2>3. outbox' = outbox /\ "cancelled" \in Terminal
    BY <1>3 DEF CancelJob, Terminal
  <2> HIDE DEF j
  <2> QED BY <1>1, <2>1, <2>2, <2>3, MarkMoves, QuietKept
<1>4. CASE DeletionAccepted(d)
  <2>1. outbox' = outbox
    BY <1>4 DEF DeletionAccepted
  <2>2. \/ status'[k] = status[k]
        \/ status[k] \in {"queued", "published"} /\ status'[k] = "failed"
    BY <1>4 DEF DeletionAccepted
  <2> QED BY <2>1, <2>2, QuietKept DEF Moved, Open, Terminal, Absent
<1>5. CASE CleanupFinished(d)
  <2>1. CASE k \in JobsOf(d)
    <3>1. status'[k] = "gone" /\ outbox'[k] = "none" /\ status[k] \notin Absent
      BY <1>5, <2>1 DEF CleanupFinished, JobsOf, Absent
    <3>2. status[k] \in Open \cup Terminal
      BY <1>1, <3>1 DEF TypeInv, TypeOK, Absent
    <3> QED BY <3>1, <3>2 DEF Moved, Quiet
  <2>2. CASE k \notin JobsOf(d)
    <3>1. status'[k] = status[k] /\ outbox'[k] = outbox[k]
      BY <1>5, <2>2 DEF CleanupFinished
    <3> QED BY <3>1 DEF Moved, Quiet
  <2> QED BY <2>1, <2>2
<1> QED BY <1>2, <1>3, <1>4, <1>5 DEF DocStep

\* Time, redelivery and repair.
LEMMA TimeMoves ==
  ASSUME SafeInv, NEW j \in Jobs, TimeStep(j), NEW k \in Jobs, Quiet(k)
  PROVE  Moved(k) /\ Quiet(k)'
<1>1. TypeInv
  BY DEF SafeInv
<1>2. CASE OutboxBecomesDue(j)
  <2>1. status' = status /\ (outbox[k] = "none" => outbox'[k] = "none")
    BY <1>1, <1>2 DEF OutboxBecomesDue, TypeInv, TypeOK
  <2> QED BY <2>1 DEF Moved, Quiet
<1>3. CASE LeaseLapses(j) \/ Redeliver(j)
  BY <1>3 DEF LeaseLapses, Redeliver, uploadVars, Moved, Quiet
<1>4. CASE Reopen(j)
  <2>1. CASE k = j
    <3>1. status[k] \in {"completed", "failed"} /\ status'[k] = "published"
          /\ outbox'[k] = "due"
      BY <1>1, <1>4, <2>1 DEF Reopen, TypeInv, TypeOK
    <3> QED BY <3>1 DEF Moved, Quiet, Absent
  <2>2. CASE k # j
    <3>1. status'[k] = status[k] /\ outbox'[k] = outbox[k]
      BY <1>1, <1>4, <2>2 DEF Reopen, TypeInv, TypeOK
    <3> QED BY <3>1 DEF Moved, Quiet
  <2> QED BY <2>1, <2>2
<1> QED BY <1>2, <1>3, <1>4 DEF TimeStep

\* The history of the exposed windows only grows.
LEMMA ExposedGrows ==
  ASSUME SafeInv, [Next]_vars
  PROVE  exposed \subseteq exposed'
<1>1. ASSUME NEW j \in Jobs, UploadStep(j) \/ TimeStep(j)
      PROVE  exposed \subseteq exposed'
  BY <1>1 DEF UploadStep, UploadChecked, Admit, SaveQueued, TimeStep,
     OutboxBecomesDue, LeaseLapses, Redeliver, Reopen
<1>2. ASSUME NEW r \in Relays, RelayStep(r) PROVE exposed \subseteq exposed'
  BY <1>2 DEF RelayStep, ClaimPending, Publish, PublishFails, MarkPublished,
     RelayStops
<1>3. ASSUME NEW w \in Workers, WorkerStep(w) PROVE exposed \subseteq exposed'
  BY <1>3 DEF WorkerStep, SaveProgress, ProcessingSucceeds, ProcessingFails,
     ProcessingCancelled, Complete, PushToDLQ, Fail, RecordOutcome,
     ReleaseAndNack, ShutDown, Crash, Report
<1>4. ASSUME NEW w \in Workers, NEW j \in Jobs, ClaimStep(w, j)
      PROVE  exposed \subseteq exposed'
  BY <1>4 DEF ClaimStep, ClaimAcquired, ClaimReplyLost, ClaimTerminal
<1>5. ASSUME NEW d \in Docs, DocStep(d) PROVE exposed \subseteq exposed'
  BY <1>5 DEF DocStep, CancelLoad, CancelJob, CancelSave, DeletionAccepted,
     CleanupClaimed, CleanupIncomplete, CleanupFinished
<1>6. CASE UNCHANGED vars
  BY <1>6 DEF vars
<1> QED BY <1>1, <1>2, <1>3, <1>4, <1>5, <1>6, NextCases

-----------------------------------------------------------------------------
(* The refinement.                                                         *)

LedgerInv == SafeInv /\ \A k \in Jobs : Quiet(k)

\* Every step moves every job as the ledger allows and keeps the invariant.
LEMMA NextMoves ==
  ASSUME LedgerInv, [Next]_vars, NEW k \in Jobs
  PROVE  Moved(k) /\ Quiet(k)'
<1>1. SafeInv /\ Quiet(k)
  BY DEF LedgerInv
<1>2. CASE Next
  BY <1>1, <1>2, NextCases, UploadMoves, RelayMoves, ClaimMoves, WorkerMoves,
     DocMoves, TimeMoves
<1>3. CASE UNCHANGED vars
  BY <1>1, <1>3 DEF vars, Moved, Quiet
<1> QED BY <1>2, <1>3

\* What a step does to one job is a step of the ledger for it.
LEMMA JobMovesInLedger ==
  ASSUME TypeInv, NEW k \in Jobs, Moved(k), Quiet(k)'
  PROVE  \/ Ledger!Stays(k) \/ Ledger!Accept(k) \/ Ledger!Settle(k)
         \/ Ledger!Repair(k) \/ Ledger!Remove(k)
<1> DEFINE Row(j) == IF status[j] \in Open THEN "open" ELSE status[j]
           Owed == {j \in Jobs : outbox[j] = "due"}
<1>1. [j \in Jobs |-> IF status[j] \in Open THEN "open" ELSE status[j]][k] = Row(k)
  OBVIOUS
<1>2. [j \in Jobs |-> IF status[j] \in Open THEN "open" ELSE status[j]]'[k] = Row(k)'
  OBVIOUS
<1>3. k \in Owed' <=> outbox'[k] = "due"
  OBVIOUS
<1>4. Row(k)' \in Absent => k \notin Owed'
  BY <1>3 DEF Quiet, Absent, Open
<1>5. \/ Row(k)' = Row(k)
      \/ Row(k) = "none" /\ Row(k)' = "open" /\ k \in Owed'
      \/ Row(k) = "open" /\ Row(k)' \in Terminal
      \/ Row(k) \in {"completed", "failed"} /\ Row(k)' = "open" /\ k \in Owed'
      \/ Row(k) \in {"open"} \cup Terminal /\ Row(k)' = "gone"
  BY <1>3 DEF Moved, Open, Terminal
<1> QED BY <1>1, <1>2, <1>4, <1>5
     DEF Ledger!Stays, Ledger!Accept, Ledger!Settle, Ledger!Repair,
         Ledger!Remove, Ledger!Outcomes, Terminal, Absent

\* Ingestion starts where the ledger starts.
LEMMA LedgerStarts ==
  ASSUME Init
  PROVE  Ledger!LedgerInit
  BY DEF Init, Ledger!LedgerInit, Open

\* Durable ingestion implements the ledger: one outcome per job, an event owed
\* from the instant of admission or repair, nothing owed for a removed job.
THEOREM LedgerImplemented == Spec => ImplementsLedger
<1>1. Init => LedgerInv
  <2>1. Init => \A k \in Jobs : Quiet(k)
    BY DEF Init, Quiet
  <2> QED BY <2>1, SafeInvInitial DEF LedgerInv
<1>2. LedgerInv /\ [Next]_vars => LedgerInv'
  BY NextMoves, SafeInvInductive DEF LedgerInv
<1>3. Init => Ledger!LedgerInit
  BY LedgerStarts
<1>4. LedgerInv /\ [Next]_vars => Ledger!LedgerNext
  <2> SUFFICES ASSUME LedgerInv, [Next]_vars PROVE Ledger!LedgerNext
    OBVIOUS
  <2>1. TypeInv
    BY DEF LedgerInv, SafeInv
  <2>2. ASSUME NEW k \in Jobs
        PROVE  \/ Ledger!Stays(k) \/ Ledger!Accept(k) \/ Ledger!Settle(k)
               \/ Ledger!Repair(k) \/ Ledger!Remove(k)
    BY <2>1, NextMoves, JobMovesInLedger
  <2>3. exposed \subseteq exposed'
    BY ExposedGrows DEF LedgerInv
  <2> QED BY <2>2, <2>3 DEF Ledger!LedgerNext
<1>5. LedgerInv /\ [Next]_vars => [Ledger!LedgerNext]_(Ledger!ledgerVars)
  BY <1>4
<1> QED BY <1>1, <1>2, <1>3, <1>5, PTL
     DEF Spec, ImplementsLedger, Ledger!LedgerSafety
=============================================================================
