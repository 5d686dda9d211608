------------------------------- MODULE Upload -------------------------------
(***************************************************************************)
(* An upload request and its Idempotency-Key: the handler of POST          *)
(* /v1/upload from the reservation of the key to its completion, the       *)
(* record of the key in Redis, the object it stores, the admission in      *)
(* PostgreSQL, and the two collectors that remove objects.                 *)
(*                                                                         *)
(* One call to Redis, S3 or PostgreSQL is one step.  The GET and SET of    *)
(* Complete, and the GET and DEL of Abort, are one step each: only the     *)
(* handler that holds the reservation changes the record of its key, and   *)
(* the record outlives the request (TTLOutlivesRequests: IDEMPOTENCY_TTL   *)
(* is a day, a request takes minutes).  For the same reason an object is   *)
(* not old enough for the orphan collector while a handler works on it     *)
(* (ORPHAN_CLEANUP_GRACE_PERIOD is a day).                                 *)
(*                                                                         *)
(* What happens to an admitted job is module Ingestion's; here it          *)
(* completes if it finds its object.                                       *)
(***************************************************************************)
EXTENDS Integers, FiniteSets

CONSTANTS
  Requests,  \* what clients upload: records [key, sig, content, doc]
  Prior,     \* uploads completed before: functions from job ids to requests
  Keys,      \* idempotency keys
  Fresh,     \* random job ids, for requests without a key
  Named,     \* document ids that clients supply
  Handlers,  \* handler invocations at a time, over all API processes
  MaxFaults, \* bound on failed calls, lost replies, disconnects and crashes
  None       \* no key, no document, no object

Uploads == Requests \cup {Prior[j] : j \in DOMAIN Prior}
ASSUME RequestsAssumption ==
  \A r \in Uploads : r.key \in Keys \cup {None} /\ r.doc \in Named \cup {None}
ASSUME DistinctAssumption ==
  /\ Keys \cap Fresh = {}
  /\ None \notin Keys \cup Fresh \cup Named /\ None \notin Uploads
ASSUME PriorAssumption ==
  /\ DOMAIN Prior \subseteq Fresh
  /\ \A i, j \in DOMAIN Prior : Prior[i].doc \in Named /\
       (Prior[i].doc = Prior[j].doc => i = j)
ASSUME BoundAssumption == MaxFaults \in Nat

VARIABLES
  idem,      \* the record of each key in Redis
  objects,   \* objects under .../versions/ in the bucket
  jobs,      \* ingestion_jobs with the request each was admitted for
  docs,      \* documents: the current job, its status, a pending deletion
  handler,   \* the handler invocations at work
  client,    \* what the client of each request has been told
  collector, \* the object the orphan collector is about to delete
  exposed,   \* history: jobs whose object a stale decision may remove
  stuck,     \* history: keys whose reservation could not be given back
  faults
vars == <<idem, objects, jobs, docs, handler, client, collector, exposed,
          stuck, faults>>

JobIds == Keys \cup Fresh
DocIds == Named \cup JobIds
\* A document without a name from the client is named after its job.
DocOf(r, j) == IF r.doc # None THEN r.doc ELSE j
\* Mutant: objectKey without the digest of the content and the signature
ObjectByJob(r, j) == [doc |-> DocOf(r, j), job |-> j, sig |-> None,
                      content |-> None]
\* The signature covers the name that the client gave, or that it gave none.
ObjectOf(r, j) == [doc |-> DocOf(r, j), job |-> j, sig |-> <<r.sig, r.doc>>,
                   content |-> r.content]
AllObjects == {ObjectOf(r, j) : r \in Uploads, j \in JobIds}

Absent == [state |-> "absent", req |-> None, answer |-> None]
NoJob == [req |-> None, state |-> "none"]
NoRow == [job |-> None, deletion |-> "none", keys |-> {}]
Idle == [at |-> "idle", req |-> None, job |-> None, gone |-> FALSE]

\* Two requests look alike to the reservation when their signatures agree;
\* the signature of the admission covers the content as well.
SameSignature(r, q) == r.sig = q.sig /\ r.doc = q.doc
\* Mutant: the admission does not compare the signature
AnySubmission(r, q) == q \in Uploads
SameSubmission(r, q) == SameSignature(r, q) /\ r.content = q.content

Init ==
  /\ idem = [k \in Keys |-> Absent]
  /\ objects = {ObjectOf(Prior[j], j) : j \in DOMAIN Prior}
  /\ jobs = [j \in JobIds |-> IF j \in DOMAIN Prior
               THEN [req |-> Prior[j], state |-> "completed"] ELSE NoJob]
  /\ docs = [d \in DocIds |->
               IF \E j \in DOMAIN Prior : Prior[j].doc = d
               THEN [job |-> CHOOSE j \in DOMAIN Prior : Prior[j].doc = d,
                     deletion |-> "active", keys |-> {}]
               ELSE NoRow]
  /\ handler = [h \in Handlers |-> Idle]
  /\ client = [r \in Requests |-> "none"]
  /\ collector = None
  /\ exposed = {} /\ stuck = {} /\ faults = 0

Working(h) == handler[h].at # "idle"
Holds(h, k) == Working(h) /\ handler[h].req.key = k
ObjectAt(h) == ObjectOf(handler[h].req, handler[h].job)
Fault == faults < MaxFaults /\ faults' = faults + 1
Told(h, answer) == client' = [client EXCEPT ![handler[h].req] =
                     IF handler[h].gone THEN @ ELSE answer]
\* Ends the invocation; the client has its answer, or an error to retry.
Ended(h) == handler' = [handler EXCEPT ![h] = Idle]
Goto(h, at) == handler' = [handler EXCEPT ![h].at = at]

-----------------------------------------------------------------------------
(* The key *)

Start(r) ==
  /\ client[r] = "none"
  /\ client' = [client EXCEPT ![r] = "waiting"]
  /\ UNCHANGED <<idem, objects, jobs, docs, handler, collector, exposed,
                 stuck, faults>>

\* A client waits for one invocation, or retries after an error or when it
\* has given one up.
MaySend(r, h) ==
  /\ client[r] = "waiting" /\ ~Working(h)
  /\ \A g \in Handlers : Working(g) /\ handler[g].req = r => handler[g].gone

Serve(r, h, j) == handler' = [handler EXCEPT ![h] =
  [at |-> "reserved", req |-> r, job |-> j, gone |-> FALSE]]

\* The processing record, or one that vanished between SETNX and GET, is
\* answered with 409 and changes nothing; the client may retry.
Reserve(r, h) ==
  /\ MaySend(r, h)
  /\ \/ /\ r.key = None
        /\ \E j \in Fresh :
             /\ jobs[j] = NoJob
             /\ \A g \in Handlers : handler[g].job # j
             /\ Serve(r, h, j)
        /\ UNCHANGED <<idem, client>>
     \/ /\ r.key # None /\ idem[r.key] = Absent
        /\ idem' = [idem EXCEPT ![r.key] =
             [state |-> "processing", req |-> r, answer |-> None]]
        /\ Serve(r, h, r.key)
        /\ UNCHANGED client
     \/ /\ r.key # None /\ idem[r.key] # Absent
        /\ \/ /\ ~SameSignature(r, idem[r.key].req)
              /\ client' = [client EXCEPT ![r] = "refused"]
           \/ /\ SameSignature(r, idem[r.key].req)
              /\ idem[r.key].state = "completed"
              /\ client' = [client EXCEPT ![r] = "replayed"]
        /\ UNCHANGED <<idem, handler>>
  /\ UNCHANGED <<objects, jobs, docs, collector, exposed, stuck, faults>>

\* SETNX is done and its reply lost: the handler answers 503 and has no
\* reservation to give back.
ReserveReplyLost(r) ==
  /\ r.key # None /\ client[r] = "waiting" /\ idem[r.key] = Absent
  /\ Fault
  /\ idem' = [idem EXCEPT ![r.key] =
       [state |-> "processing", req |-> r, answer |-> None]]
  /\ stuck' = stuck \cup {r.key}
  /\ UNCHANGED <<objects, jobs, docs, handler, client, collector, exposed>>

Completed(h, answer) ==
  LET r == handler[h].req IN
  IF r.key = None THEN idem
  ELSE [idem EXCEPT ![r.key] =
         [state |-> "completed", req |-> r, answer |-> answer]]

\* Complete fails with a client that is gone, its context being cancelled,
\* or when Redis is not reached; the response is sent all the same.
Complete(h, answer) ==
  \/ /\ ~handler[h].gone
     /\ idem' = Completed(h, answer)
     /\ UNCHANGED <<stuck, faults>>
  \/ /\ handler[h].req.key # None
     /\ IF handler[h].gone THEN UNCHANGED faults ELSE Fault
     /\ stuck' = stuck \cup {handler[h].req.key}
     /\ UNCHANGED idem
  \/ /\ handler[h].req.key = None /\ handler[h].gone
     /\ UNCHANGED <<idem, stuck, faults>>

\* The deferred Abort of a response >= 400, with the request's context.
Abort(h) ==
  /\ handler[h].at = "failing"
  /\ LET k == handler[h].req.key IN
     \/ /\ k # None /\ ~handler[h].gone
        /\ idem' = [idem EXCEPT ![k] = Absent]
        /\ UNCHANGED <<stuck, faults>>
     \/ /\ k # None
        /\ IF handler[h].gone THEN UNCHANGED faults ELSE Fault
        /\ stuck' = stuck \cup {k}
        /\ UNCHANGED idem
     \/ /\ k = None
        /\ UNCHANGED <<idem, stuck, faults>>
  /\ Ended(h)
  /\ UNCHANGED <<objects, jobs, docs, client, collector, exposed>>

\* Mutant: only a completed record is written with a TTL
LapsesDone(k) == idem[k].state = "completed"
\* The record's TTL; see TTLOutlivesRequests.
Lapses(k) == idem[k].state \in {"processing", "completed"}
Lapse(k) ==
  /\ Lapses(k)
  /\ \A h \in Handlers : ~Holds(h, k)
  /\ idem' = [idem EXCEPT ![k] = Absent]
  /\ stuck' = stuck \ {k}
  /\ UNCHANGED <<objects, jobs, docs, handler, client, collector, exposed,
                 faults>>

-----------------------------------------------------------------------------
(* Checks, storage and admission *)

\* GetByHash: another document with the same bytes, completed and active.
IsDuplicate(r, j) ==
  r.doc = None /\ \E d \in DocIds \ {DocOf(r, j)} :
    /\ docs[d].deletion = "active"
    /\ jobs[docs[d].job].state = "completed"
    /\ jobs[docs[d].job].req.content = r.content

\* A document named by the client must not be pending deletion.
RefuseUpload(h) ==
  LET r == handler[h].req IN
  /\ handler[h].at = "reserved" /\ ~handler[h].gone
  /\ r.doc # None /\ docs[r.doc].deletion \in {"pending", "emptied"}
  /\ Goto(h, "failing")
  /\ UNCHANGED <<idem, objects, jobs, docs, client, collector, exposed,
                 stuck, faults>>

AnswerDuplicate(h) ==
  /\ handler[h].at = "reserved" /\ ~handler[h].gone
  /\ IsDuplicate(handler[h].req, handler[h].job)
  /\ Complete(h, "duplicate")
  /\ Told(h, "duplicate")
  /\ Ended(h)
  /\ UNCHANGED <<objects, jobs, docs, collector, exposed>>

\* An object written while a collector has already decided on its key.
Doomed(o) == collector = o \/ \E d \in DocIds : o \in docs[d].keys
StoreObject(h) ==
  LET r == handler[h].req IN
  /\ handler[h].at = "reserved" /\ ~handler[h].gone
  /\ r.doc # None => docs[r.doc].deletion \notin {"pending", "emptied"}
  /\ \/ ~IsDuplicate(r, handler[h].job) /\ UNCHANGED faults
     \/ IsDuplicate(r, handler[h].job) /\ Fault \* the lookup failed
  /\ objects' = objects \cup {ObjectAt(h)}
  /\ exposed' = IF Doomed(ObjectAt(h)) THEN exposed \cup {handler[h].job}
                ELSE exposed
  /\ Goto(h, "stored")
  /\ UNCHANGED <<idem, jobs, docs, client, collector, stuck>>

\* The registry or S3 fails, or the client is gone.
PrepareFails(h) ==
  /\ handler[h].at = "reserved"
  /\ IF handler[h].gone THEN UNCHANGED faults ELSE Fault
  /\ Goto(h, "failing")
  /\ UNCHANGED <<idem, objects, jobs, docs, client, collector, exposed, stuck>>

Existing(j) == jobs[j].state \notin {"none", "gone"}
\* The rows the transaction writes: the job, and the document with it as the
\* current version, whatever its deletion status.
Admitted(h) ==
  LET r == handler[h].req  j == handler[h].job  d == DocOf(r, j) IN
  /\ jobs' = [jobs EXCEPT ![j] = [req |-> r, state |-> "open"]]
  /\ docs' = [docs EXCEPT ![d] = [job |-> j, keys |-> @.keys,
       deletion |-> IF @.deletion = "none" THEN "active" ELSE @.deletion]]

AdmitRepeats(h) ==
  Existing(handler[h].job) /\
    SameSubmission(handler[h].req, jobs[handler[h].job].req)

Admit(h) ==
  /\ handler[h].at = "stored" /\ ~handler[h].gone
  /\ \/ /\ ~Existing(handler[h].job)
        /\ Admitted(h)
        /\ Goto(h, "admitted")
     \/ /\ AdmitRepeats(h)
        /\ Goto(h, "admitted")
        /\ UNCHANGED <<jobs, docs>>
     \/ /\ Existing(handler[h].job) /\ ~AdmitRepeats(h)
        /\ Goto(h, "conflict")
        /\ UNCHANGED <<jobs, docs>>
  /\ UNCHANGED <<idem, objects, client, collector, exposed, stuck, faults>>

\* Admit returns an error: nothing was written, or the commit was and its
\* reply is lost.  The clean-up that follows does not tell.
AdmitFails(h) ==
  /\ handler[h].at = "stored"
  /\ IF handler[h].gone THEN UNCHANGED faults ELSE Fault
  /\ \/ ~Existing(handler[h].job) /\ Admitted(h)
     \/ UNCHANGED <<jobs, docs>>
  /\ exposed' = IF jobs'[handler[h].job].state \notin {"none", "gone"}
                THEN exposed \cup {handler[h].job} ELSE exposed
  /\ Goto(h, "cleanup")
  /\ UNCHANGED <<idem, objects, client, collector, stuck>>

\* A conflict is answered with 409 for good; other errors invite a retry.
CleanUp(h) ==
  /\ handler[h].at \in {"cleanup", "conflict"}
  /\ \/ ~handler[h].gone /\ objects' = objects \ {ObjectAt(h)}
        /\ UNCHANGED faults
     \/ /\ IF handler[h].gone THEN UNCHANGED faults ELSE Fault
        /\ UNCHANGED objects
  /\ IF handler[h].at = "conflict" THEN Told(h, "refused")
     ELSE UNCHANGED client
  /\ Goto(h, "failing")
  /\ UNCHANGED <<idem, jobs, docs, collector, exposed, stuck>>

Accept(h) ==
  /\ handler[h].at = "admitted"
  /\ Complete(h, "accepted")
  /\ Told(h, "accepted")
  /\ Ended(h)
  /\ UNCHANGED <<objects, jobs, docs, collector, exposed>>

\* net/http cancels the context of a request whose client has left; the
\* handler goes on and every later call of it fails.
Disconnect(h) ==
  /\ Working(h) /\ ~handler[h].gone
  /\ Fault
  /\ handler' = [handler EXCEPT ![h].gone = TRUE]
  /\ UNCHANGED <<idem, objects, jobs, docs, client, collector, exposed, stuck>>

Crash(h) ==
  /\ Working(h)
  /\ Fault
  /\ Ended(h)
  /\ stuck' = stuck \cup ({handler[h].req.key} \ {None})
  /\ UNCHANGED <<idem, objects, jobs, docs, client, collector, exposed>>

-----------------------------------------------------------------------------
(* What happens to the job and the object afterwards *)

\* A job whose object is not there, or whose document is being deleted, ends
\* without completing: for this module it stays open.
CompleteJob(j) ==
  /\ jobs[j].state = "open"
  /\ ObjectOf(jobs[j].req, j) \in objects
  /\ docs[DocOf(jobs[j].req, j)].deletion = "active"
  /\ jobs' = [jobs EXCEPT ![j].state = "completed"]
  /\ UNCHANGED <<idem, objects, docs, handler, client, collector, exposed,
                 stuck, faults>>

JobsOf(d) == {j \in JobIds : Existing(j) /\ DocOf(jobs[j].req, j) = d}
\* The deletion job names the objects its document has had so far.
AcceptDeletion(d) ==
  /\ docs[d].deletion = "active"
  /\ docs' = [docs EXCEPT ![d] = [job |-> @.job, deletion |-> "pending",
       keys |-> {ObjectOf(jobs[j].req, j) : j \in JobsOf(d)}]]
  /\ exposed' = exposed \cup {handler[h].job : h \in {g \in Handlers :
       handler[g].at = "stored" /\ ObjectAt(g) \in docs'[d].keys}}
  /\ UNCHANGED <<idem, objects, jobs, handler, client, collector, stuck, faults>>

DeleteObjects(d) ==
  /\ docs[d].deletion = "pending"
  /\ objects' = objects \ docs[d].keys
  /\ docs' = [docs EXCEPT ![d].deletion = "emptied"]
  /\ UNCHANGED <<idem, jobs, handler, client, collector, exposed, stuck, faults>>

\* The jobs go with the row of the document, also those admitted meanwhile.
FinishDeletion(d) ==
  /\ docs[d].deletion = "emptied"
  /\ docs' = [docs EXCEPT ![d] = NoRow]
  /\ jobs' = [j \in JobIds |-> IF j \in JobsOf(d)
                               THEN [jobs[j] EXCEPT !.state = "gone"]
                               ELSE jobs[j]]
  /\ UNCHANGED <<idem, objects, handler, client, collector, exposed, stuck,
                 faults>>

\* Mutant: only the current version of a document is looked up
ReferencedNow(o) == \E d \in DocIds :
  docs[d].job \in JobIds /\ ObjectOf(jobs[docs[d].job].req, docs[d].job) = o
Referenced(o) == \E j \in JobIds : Existing(j) /\ ObjectOf(jobs[j].req, j) = o

\* The object is old when it is listed and unreferenced when that is checked;
\* a write between the two is as good as one right after the check.
FindOrphan(o) ==
  /\ collector = None /\ o \in objects
  /\ \A h \in Handlers : Working(h) => ObjectAt(h) # o
  /\ ~Referenced(o)
  /\ collector' = o
  /\ UNCHANGED <<idem, objects, jobs, docs, handler, client, exposed, stuck,
                 faults>>

DeleteOrphan ==
  /\ collector # None
  /\ objects' = objects \ {collector}
  /\ collector' = None
  /\ UNCHANGED <<idem, jobs, docs, handler, client, exposed, stuck, faults>>

HandlerStep(h) ==
  \/ RefuseUpload(h) \/ AnswerDuplicate(h) \/ StoreObject(h) \/ PrepareFails(h)
  \/ Admit(h) \/ AdmitFails(h) \/ CleanUp(h) \/ Abort(h) \/ Accept(h)

Next ==
  \/ \E r \in Requests : Start(r) \/ ReserveReplyLost(r)
       \/ \E h \in Handlers : Reserve(r, h)
  \/ \E h \in Handlers : HandlerStep(h) \/ Disconnect(h) \/ Crash(h)
  \/ \E k \in Keys : Lapse(k)
  \/ \E j \in JobIds : CompleteJob(j)
  \/ \E d \in DocIds : AcceptDeletion(d) \/ DeleteObjects(d) \/ FinishDeletion(d)
  \/ \E o \in objects : FindOrphan(o)
  \/ DeleteOrphan

Spec == Init /\ [][Next]_vars

\* Clients retry; an invocation ends, by answering, failing or crashing; the
\* records have a TTL; a deletion that was accepted is collected.
Fairness ==
  /\ \A r \in Requests :
       r.key # None => WF_vars(\E h \in Handlers : Reserve(r, h))
  /\ \A h \in Handlers : []<>~Working(h)
  /\ \A k \in Keys : WF_vars(Lapse(k))
  /\ \A d \in Named : WF_vars(DeleteObjects(d) \/ FinishDeletion(d))

FairSpec == Spec /\ Fairness

-----------------------------------------------------------------------------
TypeOK ==
  /\ idem \in [Keys -> [state : {"absent", "processing", "completed"},
       req : Requests \cup {None}, answer : {None, "accepted", "duplicate"}]]
  /\ \A o \in objects : o \in AllObjects
  /\ jobs \in [JobIds -> [req : Uploads \cup {None},
       state : {"none", "open", "completed", "gone"}]]
  /\ docs \in [DocIds -> [job : JobIds \cup {None},
       deletion : {"none", "active", "pending", "emptied"},
       keys : SUBSET AllObjects]]
  /\ handler \in [Handlers -> [at : {"idle", "reserved", "stored", "cleanup",
       "conflict", "failing", "admitted"}, req : Requests \cup {None},
       job : JobIds \cup {None}, gone : BOOLEAN]]
  /\ client \in [Requests -> {"none", "waiting", "accepted", "replayed",
       "duplicate", "refused"}]
  /\ collector \in AllObjects \cup {None}
  /\ \A k \in Keys : idem[k].state = "absent" <=> idem[k].req = None
  /\ \A d \in DocIds : docs[d].deletion = "none" <=> docs[d].job = None
  /\ exposed \subseteq JobIds /\ stuck \subseteq Keys
  /\ faults \in 0..MaxFaults
  \* Every way out of the handler completes its key or gives it back: a key is
  \* processing only under a handler, unless the server crashed, a call to
  \* Redis failed or the client left.
  /\ \A k \in Keys : idem[k].state = "processing" =>
       k \in stuck \/ \E h \in Handlers : Holds(h, k)

(* Properties *)

\* An admitted job finds its object until its document is deleted: neither a
\* conflicting retry of the key nor the clean-up after it nor the orphan
\* collector takes it.  Excepted are the jobs whose object a decision taken
\* earlier may remove: the admission was answered with an error after (or
\* although) the job had been admitted, the object was written again under
\* the orphan collector's hands, or under those of a deletion.
AdmittedObjectIsKept ==
  \A j \in JobIds \ exposed :
    Existing(j) /\ docs[DocOf(jobs[j].req, j)].deletion # "emptied" =>
      ObjectOf(jobs[j].req, j) \in objects

\* What a key replays is true: the job it names was admitted for a request
\* with the signature the key is bound to, whatever retries, conflicts, lost
\* replies and expired records came before (or its document is deleted).
ReplayIsTrue ==
  \A k \in Keys : idem[k].state = "completed" /\ idem[k].answer = "accepted" =>
    \/ jobs[k].state = "gone"
    \/ /\ jobs[k].state # "none"
       /\ jobs[k].req.sig = idem[k].req.sig /\ jobs[k].req.doc = idem[k].req.doc

\* A client that keeps retrying with its key is answered.
RetryIsAnswered ==
  \A r \in Requests : r.key # None =>
    (client[r] = "waiting" ~> client[r] # "waiting")
=============================================================================
