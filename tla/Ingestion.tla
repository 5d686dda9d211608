----------------------------- MODULE Ingestion -----------------------------
(***************************************************************************)
(* Durable ingestion (ADR 0007): the admission transaction of the upload   *)
(* handler, the outbox relay, the delivery of events to the workers of the *)
(* pipeline, the lifecycle of ingestion_jobs, task cancellation, and the   *)
(* part of document deletion that touches jobs.                            *)
(*                                                                         *)
(* One PostgreSQL transaction or statement, one write of the status store  *)
(* or one broker call is one step; everything else a process does between  *)
(* two of them is local.  Time is abstract: a lease is either running or   *)
(* has lapsed, a backoff delays nothing that matters here.                 *)
(*                                                                         *)
(* Kafka is seen through what module KafkaSource establishes: a message    *)
(* stays with the group until it is acked and may be delivered again.  A   *)
(* Nack leaves the delivery outstanding and changes nothing else, so the   *)
(* paths of handleTask that only Nack are stuttering steps.                *)
(***************************************************************************)
EXTENDS Integers, FiniteSets

CONSTANTS
  Jobs,         \* job ids; each is one uploaded version of a document
  Docs,         \* documents
  DocOf,        \* the document a job is a version of
  Pdfs,         \* jobs whose file goes through processPDFBatches
  Cancelable,   \* documents whose tasks users try to cancel
  Deletable,    \* documents users try to delete
  Repairable,   \* jobs the index reconciler may send through once more
  Relays,       \* relay loops (one per API process)
  Workers,      \* pipeline workers, over all worker processes
  MaxRetries,   \* cfg.MaxRetries
  MaxFaults,    \* bound on failed calls, crashes, redeliveries, repairs
  None          \* no job

ASSUME JobsAssumption == DocOf \in [Jobs -> Docs] /\ None \notin Jobs
ASSUME SubsetsAssumption ==
  /\ Pdfs \subseteq Jobs /\ Repairable \subseteq Jobs
  /\ Cancelable \subseteq Docs /\ Deletable \subseteq Docs
ASSUME BoundsAssumption == MaxRetries \in Nat /\ MaxFaults \in Nat

VARIABLES
  upload,     \* the handler of the upload that creates the job
  status,     \* ingestion_jobs.status; "none": no row yet, "gone": deleted
  lease,      \* ingestion_jobs.lease_until is in the future
  outbox,     \* ingestion_outbox: due, waiting (claimed or backed off), ...
  current,    \* documents.object_key, as the job that wrote it; None: no row
  deletion,   \* deletion_status and the deletion job of the document
  taskStatus, \* the status store, one record per document
  cancelling, \* API call between the durable Cancel and the status write
  relay,      \* event a relay works on, and whether Kafka has accepted it
  copies,     \* deliveries of the event nobody holds: queued or nacked
  sent,       \* history: events Kafka has ever accepted
  worker,     \* what each worker is doing, for which job, which attempt
  exposed,    \* history: jobs that went through one of two unfenced windows
  faults      \* faults so far

uploadVars == <<upload, status, lease, outbox, current>>
vars == <<upload, status, lease, outbox, current, deletion, taskStatus,
          cancelling, relay, copies, sent, worker, exposed, faults>>

Terminal == {"completed", "failed", "cancelled"}
Open == {"queued", "published", "processing"}
HoldingStates == {"start", "attempt", "built", "exhausted", "failing",
                  "release"}
ReportStates == {"completed", "failed", "cancelled"}
Idle == [at |-> "idle", job |-> None, attempt |-> 0]
Resting == [event |-> None, sent |-> FALSE]
NoCancel == [job |-> None, durable |-> FALSE]
NoStatus == [job |-> None, state |-> "none"]

TypeOK ==
  /\ upload \in [Jobs -> {"none", "checked", "admitted", "saved"}]
  /\ status \in [Jobs -> {"none", "gone"} \cup Open \cup Terminal]
  /\ lease \in [Jobs -> BOOLEAN]
  /\ outbox \in [Jobs -> {"none", "due", "waiting", "published"}]
  /\ current \in [Docs -> Jobs \cup {None}]
  /\ deletion \in [Docs -> {"none", "accepted", "cleaning"}]
  /\ taskStatus \in [Docs -> [job : Jobs \cup {None},
       state : {"none", "queued", "processing"} \cup Terminal]]
  /\ cancelling \in [Docs -> [job : Jobs \cup {None}, durable : BOOLEAN]]
  /\ relay \in [Relays -> [event : Jobs \cup {None}, sent : BOOLEAN]]
  /\ copies \in [Jobs -> Nat]
  /\ sent \in SUBSET Jobs
  /\ worker \in [Workers -> [at : {"idle"} \cup HoldingStates \cup ReportStates,
                             job : Jobs \cup {None}, attempt : 0..MaxRetries]]
  /\ exposed \in SUBSET Jobs
  /\ faults \in 0..MaxFaults

Init ==
  /\ upload = [j \in Jobs |-> "none"]
  /\ status = [j \in Jobs |-> "none"]
  /\ lease = [j \in Jobs |-> FALSE]
  /\ outbox = [j \in Jobs |-> "none"]
  /\ current = [d \in Docs |-> None]
  /\ deletion = [d \in Docs |-> "none"]
  /\ taskStatus = [d \in Docs |-> NoStatus]
  /\ cancelling = [d \in Docs |-> NoCancel]
  /\ relay = [r \in Relays |-> Resting]
  /\ copies = [j \in Jobs |-> 0]
  /\ sent = {}
  /\ worker = [w \in Workers |-> Idle]
  /\ exposed = {}
  /\ faults = 0

Fault == faults < MaxFaults /\ faults' = faults + 1

\* The worker holds a delivery of the job that is neither acked nor nacked.
Holds(w, j) == worker[w].job = j /\ worker[w].at \in HoldingStates
Holding(j) == \E w \in Workers : Holds(w, j)

-----------------------------------------------------------------------------
(* The upload handler: look the document up, admit, save a queued status.  *)

\* The check that refuses a replacement while the document is being deleted
\* is not repeated by the admission transaction.
UploadChecked(j) ==
  /\ upload[j] = "none"
  /\ deletion[DocOf[j]] = "none"
  /\ upload' = [upload EXCEPT ![j] = "checked"]
  /\ UNCHANGED <<status, lease, outbox, current, deletion, taskStatus,
                 cancelling, relay, copies, sent, worker, exposed, faults>>

\* Admit: document row, job row and outbox row in one transaction.  A retry
\* with the same idempotency key finds the job and returns its receipt.
Admit(j) ==
  /\ upload[j] = "checked"
  /\ upload' = [upload EXCEPT ![j] = "admitted"]
  /\ status' = [status EXCEPT ![j] = "queued"]
  /\ outbox' = [outbox EXCEPT ![j] = "due"]
  /\ current' = [current EXCEPT ![DocOf[j]] = j]
  /\ UNCHANGED <<lease, deletion, taskStatus, cancelling, relay, copies, sent,
                 worker, exposed, faults>>

\* Writes to the status store are best effort: they may be lost.
SaveStatus(j, s) ==
  \/ taskStatus' = [taskStatus EXCEPT ![DocOf[j]] = [job |-> j, state |-> s]]
  \/ UNCHANGED taskStatus

SaveQueued(j) ==
  /\ upload[j] = "admitted"
  /\ upload' = [upload EXCEPT ![j] = "saved"]
  /\ SaveStatus(j, "queued")
  /\ UNCHANGED <<status, lease, outbox, current, deletion, cancelling, relay,
                 copies, sent, worker, exposed, faults>>

-----------------------------------------------------------------------------
(* Relay.RunOnce, one claimed event at a time.                             *)

ClaimPending(r, j) ==
  /\ relay[r] = Resting
  /\ outbox[j] = "due"
  /\ outbox' = [outbox EXCEPT ![j] = "waiting"]
  /\ relay' = [relay EXCEPT ![r] = [event |-> j, sent |-> FALSE]]
  /\ UNCHANGED <<upload, status, lease, current, deletion, taskStatus,
                 cancelling, copies, sent, worker, exposed, faults>>

\* available_at is reached: the relay's lease or the backoff of a Release.
OutboxBecomesDue(j) ==
  /\ outbox[j] = "waiting"
  /\ outbox' = [outbox EXCEPT ![j] = "due"]
  /\ UNCHANGED <<upload, status, lease, current, deletion, taskStatus,
                 cancelling, relay, copies, sent, worker, exposed, faults>>

Publish(r) ==
  /\ relay[r].event # None
  /\ ~relay[r].sent
  /\ copies' = [copies EXCEPT ![relay[r].event] = @ + 1]
  /\ sent' = sent \cup {relay[r].event}
  /\ relay' = [relay EXCEPT ![r].sent = TRUE]
  /\ UNCHANGED <<upload, status, lease, outbox, current, deletion, taskStatus,
                 cancelling, worker, exposed, faults>>

BackedOff(o) == IF o = "due" THEN "waiting" ELSE o

\* The publish fails, whether or not Kafka has the message, and Release backs
\* the event off.
PublishFails(r) ==
  /\ relay[r].event # None
  /\ ~relay[r].sent
  /\ Fault
  /\ \/ UNCHANGED <<copies, sent>>
     \/ /\ copies' = [copies EXCEPT ![relay[r].event] = @ + 1]
        /\ sent' = sent \cup {relay[r].event}
  /\ outbox' = [outbox EXCEPT ![relay[r].event] = BackedOff(@)]
  /\ relay' = [relay EXCEPT ![r] = Resting]
  /\ UNCHANGED <<upload, status, lease, current, deletion, taskStatus,
                 cancelling, worker, exposed>>

AfterMark(s) == IF s = "queued" THEN "published" ELSE s

MarkPublished(r) ==
  LET j == relay[r].event IN
  /\ relay[r].sent
  /\ outbox' = [outbox EXCEPT ![j] = IF @ = "none" THEN @ ELSE "published"]
  /\ status' = [status EXCEPT ![j] = AfterMark(@)]
  /\ relay' = [relay EXCEPT ![r] = Resting]
  /\ UNCHANGED <<upload, lease, current, deletion, taskStatus, cancelling,
                 copies, sent, worker, exposed, faults>>

\* RunOnce returns early (Release or MarkPublished failed) or the process dies.
RelayStops(r) ==
  /\ relay[r] # Resting
  /\ Fault
  /\ relay' = [relay EXCEPT ![r] = Resting]
  /\ UNCHANGED <<uploadVars, deletion, taskStatus, cancelling, copies, sent,
                 worker, exposed>>

\* Kafka delivers an accepted event once more: a rebalance, or a restart
\* before the ack was committed.
Redeliver(j) ==
  /\ j \in sent
  /\ Fault
  /\ copies' = [copies EXCEPT ![j] = @ + 1]
  /\ UNCHANGED <<uploadVars, deletion, taskStatus, cancelling, relay, sent,
                 worker, exposed>>

-----------------------------------------------------------------------------
(* PostgresStore.Claim, called by handleTask for the delivery it received. *)

\* Not the code: a processing job is claimed again, lease or not.
LeaseIgnored(j) == status[j] \in Open

\* Not the code: a claim whose lease has lapsed is not recovered.
LapsedIsLost(j) == status[j] \in {"queued", "published"}

LeaseAllows(j) ==
  \/ status[j] \in {"queued", "published"}
  \/ status[j] = "processing" /\ ~lease[j]

DocumentAllows(j) == current[DocOf[j]] # None /\ deletion[DocOf[j]] = "none"

Claimable(j) == DocumentAllows(j) /\ LeaseAllows(j)

Receive(w, j) == worker[w] = Idle /\ copies[j] > 0

ClaimAcquired(w, j) ==
  /\ Receive(w, j)
  /\ Claimable(j)
  /\ status' = [status EXCEPT ![j] = "processing"]
  /\ lease' = [lease EXCEPT ![j] = TRUE]
  /\ copies' = [copies EXCEPT ![j] = @ - 1]
  /\ worker' = [worker EXCEPT ![w] = [at |-> "start", job |-> j, attempt |-> 0]]
  /\ UNCHANGED <<upload, outbox, current, deletion, taskStatus, cancelling,
                 relay, sent, exposed, faults>>

\* The UPDATE is applied but its reply is lost: the message is nacked and the
\* job stays claimed by nobody until the lease lapses.
ClaimReplyLost(w, j) ==
  /\ Receive(w, j)
  /\ Claimable(j)
  /\ Fault
  /\ status' = [status EXCEPT ![j] = "processing"]
  /\ lease' = [lease EXCEPT ![j] = TRUE]
  /\ UNCHANGED <<upload, outbox, current, deletion, taskStatus, cancelling,
                 relay, copies, sent, worker, exposed>>

\* Not the code: busy jobs are acked like terminal ones.
AcksWhenClaimed(j) == status[j] \in {"processing", "completed", "failed"}

AcksAtClaim(j) == status[j] \in {"completed", "failed"}

\* ClaimTerminal: the duplicate is acked without processing.  Every other
\* refusal (busy, cancelled, deletion pending, no such job) is a Nack.
ClaimTerminal(w, j) ==
  /\ Receive(w, j)
  /\ AcksAtClaim(j)
  /\ copies' = [copies EXCEPT ![j] = @ - 1]
  /\ UNCHANGED <<uploadVars, deletion, taskStatus, cancelling, relay, sent,
                 worker, exposed, faults>>

\* config.go makes the lease longer than the worst case of one handleTask, so
\* it does not lapse under a worker that is still on the job.
LeaseLapses(j) ==
  /\ status[j] = "processing" /\ lease[j]
  /\ ~Holding(j)
  /\ lease' = [lease EXCEPT ![j] = FALSE]
  /\ UNCHANGED <<upload, status, outbox, current, deletion, taskStatus,
                 cancelling, relay, copies, sent, worker, exposed, faults>>

-----------------------------------------------------------------------------
(* markJobTerminal: job row and document row in one transaction.  The      *)
(* document row is found by object key, so only while the job's version is *)
(* the current one.                                                        *)

CanMark(j, s) ==
  /\ status[j] \in {"processing", s}
  /\ current[DocOf[j]] = j

Mark(j, s) ==
  /\ status' = [status EXCEPT ![j] = s]
  /\ lease' = [lease EXCEPT ![j] = FALSE]

-----------------------------------------------------------------------------
(* handleTask after Claim granted the job.                                 *)

Goto(w, at) == worker' = [worker EXCEPT ![w].at = at]

\* The attempt loop begins, or processTask reports progress: each write says
\* "processing", whatever the record said before.
SaveProgress(w) ==
  /\ worker[w].at \in {"start", "attempt"}
  /\ SaveStatus(worker[w].job, "processing")
  /\ Goto(w, "attempt")
  /\ UNCHANGED <<uploadVars, deletion, cancelling, relay, copies, sent,
                 exposed, faults>>

ProcessingSucceeds(w) ==
  /\ worker[w].at = "attempt"
  /\ Goto(w, "built")
  /\ UNCHANGED <<uploadVars, deletion, taskStatus, cancelling, relay, copies,
                 sent, exposed, faults>>

RetriesLeft(w) == worker[w].attempt < MaxRetries

ProcessingFails(w) ==
  /\ worker[w].at = "attempt"
  /\ IF RetriesLeft(w)
     THEN worker' = [worker EXCEPT ![w].attempt = @ + 1]
     ELSE Goto(w, "exhausted")
  /\ UNCHANGED <<uploadVars, deletion, taskStatus, cancelling, relay, copies,
                 sent, exposed, faults>>

\* Between two page ranges a PDF task reads the document's status record.
SeesCancellation(j) ==
  j \in Pdfs /\ taskStatus[DocOf[j]].state = "cancelled"

\* handleTask ignores the outcome of Cancel and acks the message.
ProcessingCancelled(w) ==
  LET j == worker[w].job IN
  /\ worker[w].at = "attempt"
  /\ SeesCancellation(j)
  /\ \/ CanMark(j, "cancelled") /\ Mark(j, "cancelled") /\ UNCHANGED exposed
        /\ UNCHANGED faults
     \/ /\ \/ ~CanMark(j, "cancelled") /\ UNCHANGED faults
           \/ Fault
        /\ exposed' = IF status[j] \in Open THEN exposed \cup {j} ELSE exposed
        /\ UNCHANGED <<status, lease>>
  /\ Goto(w, "cancelled")
  /\ UNCHANGED <<upload, outbox, current, deletion, taskStatus, cancelling,
                 relay, copies, sent>>

\* Complete and Fail.  The transaction is refused, fails, or commits without
\* the worker learning of it; then the claim is released.
RecordOutcome(w, from, s) ==
  LET j == worker[w].job IN
  /\ worker[w].at = from
  /\ \/ CanMark(j, s) /\ Mark(j, s) /\ Goto(w, s) /\ UNCHANGED faults
     \/ CanMark(j, s) /\ Mark(j, s) /\ Goto(w, "release") /\ Fault
     \/ ~CanMark(j, s) /\ UNCHANGED <<status, lease, faults>> /\ Goto(w, "release")
     \/ Fault /\ UNCHANGED <<status, lease>> /\ Goto(w, "release")
  /\ UNCHANGED <<upload, outbox, current, deletion, taskStatus, cancelling,
                 relay, copies, sent, exposed>>

Complete(w) == RecordOutcome(w, "built", "completed")

PushToDLQ(w) ==
  /\ worker[w].at = "exhausted"
  /\ \/ Goto(w, "failing") /\ UNCHANGED faults
     \/ Goto(w, "release") /\ Fault
  /\ UNCHANGED <<uploadVars, deletion, taskStatus, cancelling, relay, copies,
                 sent, exposed>>

Fail(w) == RecordOutcome(w, "failing", "failed")

\* Not the code: a release that does not look at the job's status.
ReopensAny(j) == status[j] \notin {"none", "gone"}

Releasable(j) == status[j] = "processing"

\* ReleaseClaim: best effort, and not fenced by who holds the claim.
ReleaseClaim(j) ==
  IF Releasable(j)
  THEN /\ status' = [status EXCEPT ![j] = "published"]
       /\ lease' = [lease EXCEPT ![j] = FALSE]
  ELSE UNCHANGED <<status, lease>>

\* The delivery goes back to Kafka's consumer, unacked.
HandBack(w) ==
  /\ copies' = [copies EXCEPT ![worker[w].job] = @ + 1]
  /\ worker' = [worker EXCEPT ![w] = Idle]

ReleaseAndNack(w) ==
  /\ worker[w].at = "release"
  /\ \/ ReleaseClaim(worker[w].job) /\ UNCHANGED faults
     \/ UNCHANGED <<status, lease>> /\ Fault
  /\ HandBack(w)
  /\ UNCHANGED <<upload, outbox, current, deletion, taskStatus, cancelling,
                 relay, sent, exposed>>

\* Shutdown during the backoff before a retry: release, neither ack nor nack.
ShutDown(w) ==
  /\ worker[w].at = "attempt" /\ worker[w].attempt > 0
  /\ Fault
  /\ ReleaseClaim(worker[w].job)
  /\ HandBack(w)
  /\ UNCHANGED <<upload, outbox, current, deletion, taskStatus, cancelling,
                 relay, sent, exposed>>

\* The process dies, or the worker panics and is restarted without a Nack.
Crash(w) ==
  /\ worker[w].at \in HoldingStates
  /\ Fault
  /\ HandBack(w)
  /\ UNCHANGED <<uploadVars, deletion, taskStatus, cancelling, relay, sent,
                 exposed>>

\* After the ack: the final write to the status store.
Report(w) ==
  /\ worker[w].at \in ReportStates
  /\ SaveStatus(worker[w].job, worker[w].at)
  /\ worker' = [worker EXCEPT ![w] = Idle]
  /\ UNCHANGED <<uploadVars, deletion, cancelling, relay, copies, sent,
                 exposed, faults>>

-----------------------------------------------------------------------------
(* POST /v1/tasks/{docID}/cancel: load the status record, cancel the job   *)
(* it names, write the record back.                                        *)

CancelLoad(d) ==
  /\ d \in Cancelable
  /\ cancelling[d] = NoCancel
  /\ taskStatus[d].state \in {"queued", "processing"}
  /\ cancelling' = [cancelling EXCEPT ![d].job = taskStatus[d].job]
  /\ UNCHANGED <<uploadVars, deletion, taskStatus, relay, copies, sent,
                 worker, exposed, faults>>

CancelJob(d) ==
  LET j == cancelling[d].job IN
  /\ j # None /\ ~cancelling[d].durable
  /\ IF CanMark(j, "cancelled")
     THEN /\ Mark(j, "cancelled")
          /\ cancelling' = [cancelling EXCEPT ![d].durable = TRUE]
     ELSE /\ UNCHANGED <<status, lease>>
          /\ cancelling' = [cancelling EXCEPT ![d] = NoCancel]
  /\ UNCHANGED <<upload, outbox, current, deletion, taskStatus, relay, copies,
                 sent, worker, exposed, faults>>

CancelSave(d) ==
  /\ cancelling[d].durable
  /\ SaveStatus(cancelling[d].job, "cancelled")
  /\ cancelling' = [cancelling EXCEPT ![d] = NoCancel]
  /\ UNCHANGED <<uploadVars, deletion, relay, copies, sent, worker, exposed,
                 faults>>

-----------------------------------------------------------------------------
(* Index repair: a reconciler sends a settled job through once more.       *)

\* A relay has published the event but not yet marked it.
MarkOwed(j) == \E r \in Relays : relay[r] = [event |-> j, sent |-> TRUE]

Reopen(j) ==
  /\ j \in Repairable
  /\ status[j] \in {"completed", "failed"}
  /\ Fault
  /\ status' = [status EXCEPT ![j] = "published"]
  /\ lease' = [lease EXCEPT ![j] = FALSE]
  /\ outbox' = [outbox EXCEPT ![j] = "due"]
  /\ exposed' = IF MarkOwed(j) \/ Holding(j) THEN exposed \cup {j} ELSE exposed
  /\ UNCHANGED <<upload, current, deletion, taskStatus, cancelling, relay,
                 copies, sent, worker>>

-----------------------------------------------------------------------------
(* Document deletion, as far as ingestion sees it.                         *)

JobsOf(d) == {j \in Jobs : DocOf[j] = d /\ status[j] \notin {"none", "gone"}}

DeletionAccepted(d) ==
  LET pending == {j \in JobsOf(d) : status[j] \in {"queued", "published"}} IN
  /\ d \in Deletable
  /\ current[d] # None /\ deletion[d] = "none"
  /\ deletion' = [deletion EXCEPT ![d] = "accepted"]
  /\ status' = [j \in Jobs |-> IF j \in pending THEN "failed" ELSE status[j]]
  /\ lease' = [j \in Jobs |-> lease[j] /\ j \notin pending]
  /\ UNCHANGED <<upload, outbox, current, taskStatus, cancelling, relay,
                 copies, sent, worker, exposed, faults>>

ActiveLease(d) == \E j \in JobsOf(d) : status[j] = "processing" /\ lease[j]

\* Not the code: cleanup waits for every unsettled job, lapsed lease or not.
AnyProcessing(d) == \E j \in JobsOf(d) : status[j] = "processing"

\* Not the code: cleanup does not look at ingestion leases.
NeverDeferred(d) == FALSE

Deferred(d) == ActiveLease(d)

CleanupClaimed(d) ==
  /\ deletion[d] = "accepted"
  /\ ~Deferred(d)
  /\ deletion' = [deletion EXCEPT ![d] = "cleaning"]
  /\ UNCHANGED <<uploadVars, taskStatus, cancelling, relay, copies, sent,
                 worker, exposed, faults>>

\* A dependency failed, or the collector lost its lease: it is claimed again.
CleanupIncomplete(d) ==
  /\ deletion[d] = "cleaning"
  /\ Fault
  /\ deletion' = [deletion EXCEPT ![d] = "accepted"]
  /\ UNCHANGED <<uploadVars, taskStatus, cancelling, relay, copies, sent,
                 worker, exposed>>

\* The document row goes, and with it (ON DELETE CASCADE) jobs and outbox.
CleanupFinished(d) ==
  /\ deletion[d] = "cleaning"
  /\ deletion' = [deletion EXCEPT ![d] = "none"]
  /\ current' = [current EXCEPT ![d] = None]
  /\ status' = [j \in Jobs |-> IF j \in JobsOf(d) THEN "gone" ELSE status[j]]
  /\ lease' = [j \in Jobs |-> lease[j] /\ j \notin JobsOf(d)]
  /\ outbox' = [j \in Jobs |-> IF j \in JobsOf(d) THEN "none" ELSE outbox[j]]
  /\ UNCHANGED <<upload, taskStatus, cancelling, relay, copies, sent, worker,
                 exposed, faults>>

-----------------------------------------------------------------------------
UploadStep(j) == UploadChecked(j) \/ Admit(j) \/ SaveQueued(j)

RelayStep(r) ==
  \/ \E j \in Jobs : ClaimPending(r, j)
  \/ Publish(r) \/ PublishFails(r) \/ MarkPublished(r) \/ RelayStops(r)

ClaimStep(w, j) == ClaimAcquired(w, j) \/ ClaimReplyLost(w, j) \/ ClaimTerminal(w, j)

WorkerStep(w) ==
  \/ SaveProgress(w) \/ ProcessingSucceeds(w) \/ ProcessingFails(w)
  \/ ProcessingCancelled(w) \/ Complete(w) \/ PushToDLQ(w) \/ Fail(w)
  \/ ReleaseAndNack(w) \/ ShutDown(w) \/ Crash(w) \/ Report(w)

DocStep(d) ==
  \/ CancelLoad(d) \/ CancelJob(d) \/ CancelSave(d)
  \/ DeletionAccepted(d) \/ CleanupClaimed(d) \/ CleanupIncomplete(d)
  \/ CleanupFinished(d)

TimeStep(j) == OutboxBecomesDue(j) \/ LeaseLapses(j) \/ Redeliver(j) \/ Reopen(j)

Next ==
  \/ \E j \in Jobs : UploadStep(j) \/ TimeStep(j)
  \/ \E r \in Relays : RelayStep(r)
  \/ \E w \in Workers : WorkerStep(w) \/ \E j \in Jobs : ClaimStep(w, j)
  \/ \E d \in Docs : DocStep(d)

Spec == Init /\ [][Next]_vars

-----------------------------------------------------------------------------
(* Safety.                                                                 *)

\* Something will still bring the event to a worker.
Carried(j) == outbox[j] \in {"due", "waiting"} \/ copies[j] > 0 \/ Holding(j)

\* An accepted upload is never lost: a job that is not settled still has an
\* outbox row the relay will publish, or a delivery that is not acked.  Two
\* windows are set apart in `exposed`: the ack after a cancellation that was
\* not recorded (ProcessingCancelled), and a repair that reopens a job while a
\* relay or a worker is still at work on its previous life (Reopen).
NoJobIsStranded ==
  \A j \in Jobs : status[j] \in Open /\ j \notin exposed => Carried(j)

\* The processing lease is the mutual exclusion of ingestion: two workers are
\* never inside handleTask for one job, whatever is redelivered or released.
OneWorkerPerJob ==
  \A v, w \in Workers, j \in Jobs \ exposed : Holds(v, j) /\ Holds(w, j) => v = w

\* ADR 0011, "Active ingestion leases defer cleanup": while the projections of
\* a document are being deleted no worker holds a claim on one of its jobs,
\* unless the job was settled behind the worker's back.
CleanupExcludesClaims ==
  \A w \in Workers, j \in Jobs \ exposed :
    Holds(w, j) /\ deletion[DocOf[j]] = "cleaning" => status[j] \notin Open

-----------------------------------------------------------------------------
(* Liveness.                                                               *)

\* The loops run and time passes.  A nacked delivery comes back again and
\* again, so a worker that can ever take it does (strong fairness).  Users,
\* faults and repairs are not fair.
Fairness ==
  /\ \A j \in Jobs :
       /\ WF_vars(OutboxBecomesDue(j)) /\ WF_vars(LeaseLapses(j))
       /\ SF_vars(\E r \in Relays : ClaimPending(r, j))
       /\ SF_vars(\E w \in Workers : ClaimAcquired(w, j) \/ ClaimTerminal(w, j))
  /\ \A r \in Relays : WF_vars(Publish(r)) /\ WF_vars(MarkPublished(r))
  /\ \A w \in Workers :
       /\ WF_vars(ProcessingSucceeds(w) \/ ProcessingFails(w))
       /\ WF_vars(SaveProgress(w) /\ worker[w].at = "start")
       /\ WF_vars(Complete(w) \/ PushToDLQ(w) \/ Fail(w) \/ ReleaseAndNack(w))
       /\ WF_vars(Report(w))
  /\ \A d \in Docs :
       WF_vars(CleanupClaimed(d)) /\ WF_vars(CleanupFinished(d))

FairSpec == Spec /\ Fairness

Settled(j) == status[j] \in Terminal \cup {"gone"}

\* An accepted deletion is carried out, also when a worker died with a claim.
AcceptedDeletionFinishes ==
  \A d \in Docs : deletion[d] = "accepted" ~> deletion[d] = "none"

-----------------------------------------------------------------------------
(* The abstract specification.                                             *)

Ledger == INSTANCE JobLedger WITH
  ledger  <- [j \in Jobs |-> IF status[j] \in Open THEN "open" ELSE status[j]],
  due     <- {j \in Jobs : outbox[j] = "due"},
  excused <- exposed

\* Durable ingestion takes no step JobLedger forbids.  A late release, relay
\* mark, duplicate or second worker cannot reopen or flip an outcome, an
\* admission is never without its event, a repair owes a new one, and nothing
\* is published for a job that is not there.
ImplementsLedger == Ledger!LedgerSafety

\* ADR 0007: "every 202 response eventually reaches a terminal catalog state",
\* through crashes, lost replies and redeliveries, while the job is its
\* document's current version and in neither window of `exposed`.
AdmittedJobsSettle == Ledger!EveryJobSettles
=============================================================================
