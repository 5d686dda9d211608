------------------------------- MODULE FullText -------------------------------
(***************************************************************************)
(* Full-text indexing of a document without an index generation:           *)
(* pipeline.processTask and processBatch store a chunk in Qdrant and hand  *)
(* it to es.AsyncSink, which indexes it at once or leaves it in the Redis  *)
(* retry queue; every worker replays that queue, moves what it gives up to *)
(* the bounded dead-letter list, and drains that list of what the index    *)
(* holds by now.                                                           *)
(*                                                                         *)
(* A call to Redis or to Elasticsearch is a step.  A message is named by   *)
(* its chunk and the attempt at the document that queued it (QueuedAt);    *)
(* instead of its time it carries whether it is due.                       *)
(***************************************************************************)
EXTENDS Naturals, Sequences, FiniteSets

CONSTANTS Workers,       \* worker processes, each with its replay loop and drainer
          NumChunks,     \* chunks of the document, in the order the parser sends them
          BatchSize,     \* BatchSize
          MaxRetries,    \* ESMaxRetries
          DeadLetterMax, \* ESDeadLetterMax
          Page,          \* entries the drainer reads at a time
          Overloads,     \* Elasticsearch may refuse a chunk and take it later
          Unmappable,    \* chunks it rejects whenever it answers properly
          MaxFailures    \* bound on crashes and on calls to a store that fail

ASSUME FullTextAssumption ==
  /\ {NumChunks, BatchSize, MaxRetries, DeadLetterMax, Page} \subseteq Nat \ {0}
  /\ Overloads \in BOOLEAN /\ MaxFailures \in Nat

VARIABLES qdrant,   \* chunks stored in Qdrant
          es,       \* chunks in the full-text index
          saved,    \* the document has a checkpoint
          task,     \* the attempt at the document
          queue,    \* es retry ZSET
          dead,     \* dead-letter list, oldest first
          replay,   \* the replay loop of each worker
          drain,    \* the drain pass of each worker
          failures, \* faults so far
          missed,   \* history: stored chunks that a fault kept from the sink so far
          lost      \* history: messages a logged fault or the cap discarded

stores == <<qdrant, es, saved, queue, dead>>
fullTextVars == <<stores, task, replay, drain, failures, missed, lost>>

Chunks   == 1..NumChunks
Attempts == 1..MaxFailures + 1
Ids      == Chunks \X Attempts
Message  == [id : Ids, retry : 0..MaxRetries, due : BOOLEAN]

Fault == failures < MaxFailures /\ failures' = failures + 1
Idle  == [pc |-> "idle"]

\* IndexChunk is a PUT of the chunk under its own id.  How the call can end,
\* with the fault it takes: "unseen" is indexed, but the answer is lost.
Answered(chunk, answer) ==
  \/ answer = "ok" /\ chunk \notin Unmappable /\ UNCHANGED failures
  \/ answer = "rejected" /\ chunk \in Unmappable /\ UNCHANGED failures
  \/ answer = "refused" /\ Overloads /\ UNCHANGED failures
  \/ answer = "unseen" /\ chunk \notin Unmappable /\ Fault

Put(chunk, answer) == IF answer \in {"ok", "unseen"} THEN es \union {chunk} ELSE es
Answers == {"ok", "unseen", "refused", "rejected"}

-----------------------------------------------------------------------------
(* The document.  A batch is the next BatchSize chunks still to do; `left'  *)
(* of its `size' chunks are unprocessed.                                    *)
First(set)  == CHOOSE k \in set : \A j \in set : k <= j
Batch(todo) == IF Cardinality(todo) < BatchSize THEN Cardinality(todo) ELSE BatchSize
Current     == First(task.todo)

Step(pc)  == task' = [task EXCEPT !.pc = pc]
Restarted == [task EXCEPT !.pc = "idle", !.by = {}, !.attempt = @ + 1, !.todo = {},
                          !.size = 0, !.left = 0, !.failed = 0, !.stored = FALSE]

\* On to the batch's next chunk, or to its checkpoint
Done(t) == [t EXCEPT !.todo = @ \ {Current}, !.left = @ - 1,
                     !.pc = IF t.left = 1 THEN "save" ELSE "chunk"]
BatchOf(t) == [t EXCEPT !.pc = IF t.todo = {} THEN "end" ELSE "chunk",
                        !.size = Batch(t.todo), !.left = Batch(t.todo),
                        !.failed = 0, !.stored = FALSE]

\* A resumed task leaves out the chunks that Exists finds.
Todo == IF saved THEN Chunks \ qdrant ELSE Chunks

StartTask(w) ==
  /\ task.pc = "idle"
  /\ task' = BatchOf([task EXCEPT !.by = {w}, !.todo = Todo])
  /\ UNCHANGED <<stores, replay, drain, failures, missed, lost>>

\* A batch bears the failure of up to half of its chunks.  A PUT that timed out
\* may have been carried out: the chunk is stored then, and the sink never asked.
TooMany(failed) == failed > task.size \div 2

StoreChunk ==
  /\ task.pc = "chunk"
  /\ \/ /\ qdrant' = qdrant \union {Current}
        /\ task' = [task EXCEPT !.pc = "index", !.stored = TRUE]
        /\ UNCHANGED <<failures, missed>>
     \/ /\ Fault
        /\ \/ UNCHANGED <<qdrant, missed>>
           \/ /\ Current \notin qdrant
              /\ qdrant' = qdrant \union {Current} /\ missed' = missed \union {Current}
        /\ task' = IF TooMany(task.failed + 1) THEN Restarted
                   ELSE Done([task EXCEPT !.failed = @ + 1])
  /\ UNCHANGED <<es, saved, queue, dead, replay, drain, lost>>

\* AsyncSink.Enqueue: at once, else by the queue
IndexNow(answer) ==
  /\ task.pc = "index" /\ Answered(Current, answer) /\ es' = Put(Current, answer)
  /\ IF answer = "ok" THEN task' = Done(task) ELSE Step("enqueue")
  /\ UNCHANGED <<qdrant, saved, queue, dead, replay, drain, missed, lost>>

EnqueueNow ==
  /\ task.pc = "enqueue" /\ task' = Done(task)
  /\ \/ /\ queue' = queue \union {[id |-> <<Current, task.attempt>>, retry |-> 0, due |-> FALSE]}
        /\ missed' = missed \ {Current} /\ UNCHANGED failures
     \/ Fault /\ missed' = missed \union {Current} /\ UNCHANGED queue
  /\ UNCHANGED <<qdrant, es, saved, dead, replay, drain, lost>>

\* After each batch the checkpoint is saved, as best it can.
SaveCheckpoint ==
  /\ task.pc = "save" /\ task' = BatchOf(task)
  /\ \/ saved' = (saved \/ task.stored) /\ UNCHANGED failures
     \/ Fault /\ UNCHANGED saved
  /\ UNCHANGED <<qdrant, es, queue, dead, replay, drain, missed, lost>>

\* The task is acked and its checkpoint deleted.
EndTask ==
  /\ task.pc = "end" /\ task' = [task EXCEPT !.pc = "done", !.by = {}] /\ saved' = FALSE
  /\ UNCHANGED <<qdrant, es, queue, dead, replay, drain, failures, missed, lost>>

-----------------------------------------------------------------------------
(* The replay loop.                                                        *)
Goes(w, state) == replay' = [replay EXCEPT ![w] = state]

\* popDueOnce looks at the first message and then pops the first there is:
\* another worker may have taken the one it saw, and the next is not due yet.
Peek(w) ==
  /\ replay[w].pc = "idle" /\ \E m \in queue : m.due
  /\ Goes(w, [pc |-> "peeked"])
  /\ UNCHANGED <<stores, task, drain, failures, missed, lost>>

FirstOf(m) == m.due \/ ~\E other \in queue : other.due

PopMin(w) ==
  /\ replay[w].pc = "peeked"
  /\ \/ queue = {} /\ Goes(w, Idle) /\ UNCHANGED queue
     \/ \E m \in queue :
          /\ FirstOf(m) /\ queue' = queue \ {m}
          /\ Goes(w, [pc |-> IF m.due THEN "index" ELSE "requeue", m |-> m])
  /\ UNCHANGED <<qdrant, es, saved, dead, task, drain, failures, missed, lost>>

\* isRetryableError: all but a client error that repeating cannot mend
Retryable(answer) == answer # "rejected"

\* Mutant: a requeued message keeps its retry count.
Uncounted(m, answer) ==
  IF ~Retryable(answer) THEN [pc |-> "push", m |-> m]
  ELSE [pc |-> "requeue", m |-> [m EXCEPT !.due = FALSE]]

\* Mutant: the message is given up without a dead letter once its retries are spent.
GivenUpQuietly(m, answer) ==
  CASE ~Retryable(answer)         -> [pc |-> "push", m |-> m]
    [] m.retry + 1 >= MaxRetries -> Idle
    [] OTHER -> [pc |-> "requeue", m |-> [m EXCEPT !.retry = @ + 1, !.due = FALSE]]

AfterError(m, answer) ==
  IF ~Retryable(answer) THEN [pc |-> "push", m |-> m]
  ELSE IF m.retry + 1 >= MaxRetries THEN [pc |-> "push", m |-> [m EXCEPT !.retry = @ + 1]]
  ELSE [pc |-> "requeue", m |-> [m EXCEPT !.retry = @ + 1, !.due = FALSE]]

Replay(w, answer) ==
  /\ replay[w].pc = "index"
  /\ LET m == replay[w].m IN
     /\ Answered(m.id[1], answer) /\ es' = Put(m.id[1], answer)
     /\ Goes(w, IF answer = "ok" THEN Idle ELSE AfterError(m, answer))
  /\ UNCHANGED <<qdrant, saved, queue, dead, task, drain, missed, lost>>

\* A retry later, or the message that was popped too early
Requeue(w) ==
  /\ replay[w].pc = "requeue" /\ Goes(w, Idle)
  /\ \/ queue' = queue \union {replay[w].m} /\ UNCHANGED <<failures, lost>>
     \/ Fault /\ lost' = lost \union {replay[w].m.id} /\ UNCHANGED queue
  /\ UNCHANGED <<qdrant, es, saved, dead, task, drain, missed>>

\* EnqueueDeadLetter sends RPUSH, LLEN and LTRIM together; those of another
\* worker may come in between.
Push(w) ==
  /\ replay[w].pc = "push"
  /\ \/ dead' = Append(dead, replay[w].m.id) /\ Goes(w, [pc |-> "trim"])
        /\ UNCHANGED <<failures, lost>>
     \/ Fault /\ Goes(w, Idle) /\ lost' = lost \union {replay[w].m.id} /\ UNCHANGED dead
  /\ UNCHANGED <<qdrant, es, saved, queue, task, drain, missed>>

Excess == IF Len(dead) > DeadLetterMax THEN Len(dead) - DeadLetterMax ELSE 0

\* Mutant: one entry more than the cap stays.
TrimmedLate == IF Excess = 0 THEN dead ELSE SubSeq(dead, Excess, Len(dead))
\* LTRIM -max -1
Trimmed     == SubSeq(dead, Excess + 1, Len(dead))

Trim(w) ==
  /\ replay[w].pc = "trim" /\ Goes(w, Idle)
  /\ dead' = Trimmed
  /\ lost' = lost \union {dead[k] : k \in 1..Excess}
  /\ UNCHANGED <<qdrant, es, saved, queue, task, drain, failures, missed>>

\* The messages there are become due; those queued from now on are not.
Tick ==
  /\ \E m \in queue : ~m.due
  /\ queue' = {[m EXCEPT !.due = TRUE] : m \in queue}
  /\ UNCHANGED <<qdrant, es, saved, dead, task, replay, drain, failures, missed, lost>>

-----------------------------------------------------------------------------
(* The drain: pages of the list, each looked up in the index, and one ack   *)
(* at the end, of the entries by value.                                     *)
PageAt(offset) == {dead[k] : k \in {k \in 1..Len(dead) : k > offset /\ k <= offset + Page}}

\* PresentChunkIDs, for one entry
Present(id)   == id[1] \in es
Resolved(ids) == {id \in ids : Present(id)}

\* Mutant: the pass ends at the first page with nothing to ack.
MoreIfResolved(page) == Resolved(page) # {}
\* A full page may be followed by another.
MorePages(page)      == Cardinality(page) = Page

StartDrain(w) ==
  /\ drain[w].pc = "idle" /\ dead # <<>>
  /\ drain' = [drain EXCEPT ![w] = [pc |-> "scan", offset |-> 0, ackable |-> {}]]
  /\ UNCHANGED <<stores, task, replay, failures, missed, lost>>

ScanPage(w) ==
  LET d == drain[w]
      page == PageAt(d.offset)
      found(ids) == [d EXCEPT !.offset = @ + Page, !.ackable = @ \union ids,
                              !.pc = IF MorePages(page) THEN "scan" ELSE "ack"]
  IN
  /\ d.pc = "scan"
  /\ \/ drain' = [drain EXCEPT ![w] = found(Resolved(page))] /\ UNCHANGED failures
     \/ page # {} /\ Fault /\ drain' = [drain EXCEPT ![w] = found({})]
  /\ UNCHANGED <<stores, task, replay, missed, lost>>

\* LREM of every entry that has one of these values: the others, in their order.
Without(ids) ==
  LET kept     == {k \in 1..Len(dead) : dead[k] \notin ids}
      place(k) == Cardinality({j \in kept : j <= k})
  IN  [n \in 1..Cardinality(kept) |-> dead[CHOOSE k \in kept : place(k) = n]]

AckDrained(w) ==
  /\ drain[w].pc = "ack" /\ drain' = [drain EXCEPT ![w] = Idle]
  /\ \/ dead' = Without(drain[w].ackable) /\ UNCHANGED failures
     \/ drain[w].ackable # {} /\ Fault /\ UNCHANGED dead
  /\ UNCHANGED <<qdrant, es, saved, queue, task, replay, missed, lost>>

-----------------------------------------------------------------------------
(* A worker dies: what its replay loop held is gone, its task is delivered  *)
(* again.  Between the store and the index the chunk is in neither hand.    *)
(* A pipeline that was sent is carried out by Redis.                        *)
Holds(w) == IF replay[w].pc \in {"index", "requeue", "push"} THEN {replay[w].m.id} ELSE {}

Crash(w) ==
  /\ Fault
  /\ lost' = lost \union Holds(w)
  /\ Goes(w, IF replay[w].pc = "trim" THEN replay[w] ELSE Idle)
  /\ drain' = [drain EXCEPT ![w] = Idle]
  /\ IF w \in task.by
     THEN /\ task' = Restarted
          /\ missed' = missed \union (IF task.pc \in {"index", "enqueue"} THEN {Current} ELSE {})
     ELSE UNCHANGED <<task, missed>>
  /\ UNCHANGED stores

-----------------------------------------------------------------------------
FullTextInit ==
  /\ qdrant = {} /\ es = {} /\ saved = FALSE /\ queue = {} /\ dead = <<>>
  /\ task = [pc |-> "idle", by |-> {}, attempt |-> 1, todo |-> {},
              size |-> 0, left |-> 0, failed |-> 0, stored |-> FALSE]
  /\ replay = [w \in Workers |-> Idle] /\ drain = [w \in Workers |-> Idle]
  /\ failures = 0 /\ missed = {} /\ lost = {}

TaskSteps ==
  \/ StoreChunk \/ EnqueueNow \/ SaveCheckpoint \/ EndTask
  \/ \E answer \in Answers : IndexNow(answer)

ReplaySteps(w) ==
  \/ Peek(w) \/ PopMin(w) \/ Requeue(w) \/ Push(w) \/ Trim(w)
  \/ \E answer \in Answers : Replay(w, answer)

DrainSteps(w) == StartDrain(w) \/ ScanPage(w) \/ AckDrained(w)

FullTextNext ==
  \/ TaskSteps \/ Tick
  \/ \E w \in Workers : StartTask(w) \/ ReplaySteps(w) \/ DrainSteps(w) \/ Crash(w)

FullTextSpec == FullTextInit /\ [][FullTextNext]_fullTextVars

\* The loops run as long as a worker does; a task is delivered until it is acked.
FullTextFairSpec ==
  /\ FullTextSpec /\ WF_fullTextVars(TaskSteps) /\ WF_fullTextVars(Tick)
  /\ WF_fullTextVars(\E w \in Workers : StartTask(w))
  /\ \A w \in Workers : WF_fullTextVars(ReplaySteps(w)) /\ WF_fullTextVars(DrainSteps(w))

-----------------------------------------------------------------------------
FullTextTyped ==
  /\ qdrant \subseteq Chunks /\ es \subseteq qdrant /\ missed \subseteq qdrant
  /\ queue \subseteq Message /\ lost \subseteq Ids /\ dead \in Seq(Ids)
  /\ task.attempt \in Attempts /\ task.left <= task.size /\ task.size <= BatchSize
  /\ \A m \in queue : m.retry < MaxRetries
  /\ \A m, other \in queue : m.id = other.id => m = other
  \* The cap of the list holds whenever no worker is between push and trim.
  /\ (\A w \in Workers : replay[w].pc # "trim") => Len(dead) <= DeadLetterMax

Waiting(chunk) ==
  \/ \E m \in queue : m.id[1] = chunk
  \/ \E k \in 1..Len(dead) : dead[k][1] = chunk
  \/ \E w \in Workers, id \in Ids : id \in Holds(w) /\ id[1] = chunk

(* A stored chunk that is not in the full-text index is still on its way:   *)
(* in the queue, in a worker's hands or in the dead-letter list.  No pop,   *)
(* retry, trim or drain loses the only description of a gap.  The only      *)
(* exceptions are a chunk that a fault kept from the sink, each time it was *)
(* stored (the PUT to Qdrant or to the queue lost its answer or failed, or  *)
(* the worker died in between), and a message that a fault or the cap of    *)
(* the list discarded.                                                      *)
GapsAreAccounted ==
  \A c \in qdrant \ es :
    \/ Waiting(c) \/ c \in missed \/ \E id \in lost : id[1] = c
    \/ task.pc \in {"index", "enqueue"} /\ Current = c

(* The document is processed to its end and its messages leave the queue,   *)
(* indexed or given up: retries are bounded and no message is passed around *)
(* for good.                                                                *)
DocumentSettles == <>[](task.pc = "done" /\ queue = {})

(* Dead letters whose chunk the index holds leave the list: the drain gets  *)
(* past entries it cannot resolve, whatever the other worker's drain and    *)
(* trim do to the list it is paging through.                                *)
ResolvedLettersLeave == <>[](\A k \in 1..Len(dead) : dead[k][1] \notin es)
=============================================================================
