----------------------------- MODULE KafkaSource -----------------------------
(***************************************************************************)
(* The Kafka consumer of the ETL worker: kafka.Source (kafka.go) and its   *)
(* contiguous-commit offset tracker (offset_tracker.go), for one partition *)
(* of one topic and the worker processes of one consumer group.            *)
(*                                                                         *)
(* A message that was fetched is registered with the tracker, handed to    *)
(* the pipeline, and stays with it through any number of Nacks (a Nack     *)
(* schedules a local redelivery and changes no state of this component).   *)
(* An Ack completes it; the commit that follows covers the longest         *)
(* completed prefix of what this process has registered.                   *)
(*                                                                         *)
(* The broker's side (committed, owner) is external: it is modelled from   *)
(* the reader options in NewSource (manual commit, consumer group,         *)
(* StartOffset, partition watching) and the two calls the source makes.    *)
(***************************************************************************)
EXTENDS Integers, Sequences, FiniteSets

CONSTANTS
  Consumers,   \* worker processes of the consumer group
  Offsets,     \* offsets that hold a message; compaction may leave gaps
  Undecodable, \* offsets whose payload is not a task (json.Unmarshal fails)
  Refused,     \* offsets whose job may be cancelled or deleted: Claim then
               \* refuses every delivery, and the pipeline nacks it for good
  Capacity,    \* capacity of the pending channel (100 in NewSource)
  MaxFaults,   \* bound on restarts, rebalances and abandoned deliveries
  Nobody       \* no owner; also "no commit in progress"

ASSUME ConsumersAssumption == Consumers # {} /\ Nobody \notin Consumers
ASSUME OffsetsAssumption ==
  Offsets \subseteq Nat /\ Undecodable \subseteq Offsets /\ Nobody \notin Nat
ASSUME RefusedAssumption == Refused \subseteq Offsets \ Undecodable
ASSUME BoundsAssumption == Capacity \in Nat \ {0} /\ MaxFaults \in Nat

VARIABLES
  committed, \* broker: offset the group would resume from
  owner,     \* broker: the process the partition is assigned to
  pos,       \* next offset the process's reader returns
  loop,      \* where the goroutine of Consume is
  order,     \* tracker: registered offsets in registration order
  done,      \* tracker: registered offsets whose entry is true
  slots,     \* tokens in the pending channel
  inflight,  \* deliveries of an offset that are out in the pipeline
  commit,    \* candidate of the commitCompleted holding commitMu
  replied,   \* that commit was acknowledged by the broker
  handled,   \* history: offsets acked, or recognised as undecodable
  faults     \* faults so far

brokerVars == <<committed, owner>>
trackerVars == <<order, done>>
vars == <<committed, owner, pos, loop, order, done, slots, inflight, commit,
          replied, handled, faults>>

LoopStates == {"acquire", "fetch", "decoding", "committing"}

TypeOK ==
  /\ committed \in Nat
  /\ owner \in Consumers \cup {Nobody}
  /\ pos \in [Consumers -> Nat]
  /\ loop \in [Consumers -> LoopStates]
  /\ order \in [Consumers -> Seq(Offsets)]
  /\ done \in [Consumers -> SUBSET Offsets]
  /\ slots \in [Consumers -> 0..Capacity]
  /\ inflight \in [Consumers -> [Offsets -> Nat]]
  /\ commit \in [Consumers -> Offsets \cup {Nobody}]
  /\ replied \in [Consumers -> BOOLEAN]
  /\ handled \in SUBSET Offsets
  /\ faults \in 0..MaxFaults

Init ==
  /\ committed = 0
  /\ owner = Nobody
  /\ pos = [c \in Consumers |-> 0]
  /\ loop = [c \in Consumers |-> "acquire"]
  /\ order = [c \in Consumers |-> << >>]
  /\ done = [c \in Consumers |-> {}]
  /\ slots = [c \in Consumers |-> 0]
  /\ inflight = [c \in Consumers |-> [o \in Offsets |-> 0]]
  /\ commit = [c \in Consumers |-> Nobody]
  /\ replied = [c \in Consumers |-> FALSE]
  /\ handled = {}
  /\ faults = 0

-----------------------------------------------------------------------------
(* The tracker.                                                            *)

Registered(c) == {order[c][i] : i \in DOMAIN order[c]}

Register(c, o) ==
  IF o \in Registered(c)
  THEN UNCHANGED trackerVars
  ELSE /\ order' = [order EXCEPT ![c] = Append(@, o)]
       /\ UNCHANGED done

\* Not the code: the highest completed offset, whatever is pending below it.
HighestCompleted(c, completed, n) ==
  /\ n \in 1..Len(order[c])
  /\ order[c][n] \in completed
  /\ \A i \in (n + 1)..Len(order[c]) : order[c][i] \notin completed

\* The commit candidate is the last offset of the longest completed prefix.
IsCandidate(c, completed, n) ==
  /\ n \in 1..Len(order[c])
  /\ \A i \in 1..n : order[c][i] \in completed
  /\ n < Len(order[c]) => order[c][n + 1] \notin completed

-----------------------------------------------------------------------------
(* The goroutine of Consume: acquire a token, fetch, register, deliver.    *)

AcquireSlot(c) ==
  /\ loop[c] = "acquire"
  /\ slots[c] < Capacity
  /\ slots' = [slots EXCEPT ![c] = @ + 1]
  /\ loop' = [loop EXCEPT ![c] = "fetch"]
  /\ UNCHANGED <<brokerVars, pos, trackerVars, inflight, commit, replied,
                 handled, faults>>

\* FetchMessage fails: the token goes back and the loop tries again.
FetchFails(c) ==
  /\ loop[c] = "fetch"
  /\ slots' = [slots EXCEPT ![c] = @ - 1]
  /\ loop' = [loop EXCEPT ![c] = "acquire"]
  /\ UNCHANGED <<brokerVars, pos, trackerVars, inflight, commit, replied,
                 handled, faults>>

\* The reader returns the next visible offset of the partition it owns.
NextVisible(c, o) ==
  /\ o \in Offsets
  /\ pos[c] <= o
  /\ \A p \in Offsets : pos[c] <= p => o <= p

Fetch(c, o) ==
  /\ loop[c] = "fetch"
  /\ owner = c
  /\ NextVisible(c, o)
  /\ pos' = [pos EXCEPT ![c] = o + 1]
  /\ Register(c, o)
  /\ inflight' = [inflight EXCEPT ![c][o] = @ + 1]
  /\ loop' = [loop EXCEPT ![c] = IF o \in Undecodable THEN "decoding"
                                                      ELSE "acquire"]
  /\ UNCHANGED <<brokerVars, slots, commit, replied, handled, faults>>

-----------------------------------------------------------------------------
(* commitCompleted runs under commitMu; commit[c] = Nobody: nobody has it. *)

\* Complete, then Candidate. The tracker completes only registered offsets.
BeginCommit(c, o) ==
  LET completed == done[c] \cup ({o} \cap Registered(c)) IN
  /\ commit[c] = Nobody
  /\ done' = [done EXCEPT ![c] = completed]
  /\ \/ \E n \in 1..Len(order[c]) :
          /\ IsCandidate(c, completed, n)
          /\ commit' = [commit EXCEPT ![c] = order[c][n]]
          /\ loop' = [loop EXCEPT ![c] = IF o \in Undecodable THEN "committing"
                                                              ELSE @]
     \/ /\ ~ \E n \in 1..Len(order[c]) : IsCandidate(c, completed, n)
        /\ loop' = [loop EXCEPT ![c] = IF o \in Undecodable THEN "acquire"
                                                            ELSE @]
        /\ UNCHANGED commit

\* The pipeline acks a delivery, or the loop skips an undecodable message.
Ack(c, o) ==
  /\ inflight[c][o] > 0
  /\ o \in Undecodable => loop[c] = "decoding"
  /\ BeginCommit(c, o)
  /\ inflight' = [inflight EXCEPT ![c][o] = @ - 1]
  /\ handled' = handled \cup {o}
  /\ UNCHANGED <<brokerVars, pos, order, slots, replied, faults>>

\* CommitMessages reaches the broker; the reply may be lost, and the call is
\* then repeated until one succeeds.
CommitLands(c) ==
  /\ commit[c] # Nobody
  /\ ~replied[c]
  /\ committed' = commit[c] + 1
  /\ \E seen \in BOOLEAN : replied' = [replied EXCEPT ![c] = seen]
  /\ UNCHANGED <<owner, pos, loop, trackerVars, slots, inflight, commit,
                 handled, faults>>

\* Not the code: the tokens are forgotten.
NoneReleased(c, n) == 0

\* The tokens Confirm of the first n entries gives back.
Released(c, n) == n

\* Confirm drops the prefix through the candidate; its tokens are released.
Confirm(c) ==
  /\ commit[c] # Nobody
  /\ replied[c]
  /\ \E n \in 1..Len(order[c]) :
       /\ order[c][n] = commit[c]
       /\ order' = [order EXCEPT ![c] = SubSeq(@, n + 1, Len(@))]
       /\ done' = [done EXCEPT ![c] = @ \ {order[c][i] : i \in 1..n}]
       /\ slots' = [slots EXCEPT ![c] = @ - Released(c, n)]
  /\ commit' = [commit EXCEPT ![c] = Nobody]
  /\ replied' = [replied EXCEPT ![c] = FALSE]
  /\ loop' = [loop EXCEPT ![c] = IF @ = "committing" THEN "acquire" ELSE @]
  /\ UNCHANGED <<brokerVars, pos, inflight, handled, faults>>

-----------------------------------------------------------------------------
(* The environment.                                                        *)

\* A new group generation: the partition goes to c (perhaps again), whose
\* reader restarts from the committed offset. The trackers are not told.
Rebalance(c) ==
  /\ \/ owner = Nobody /\ UNCHANGED faults
     \/ owner # Nobody /\ faults < MaxFaults /\ faults' = faults + 1
  /\ owner' = c
  /\ pos' = [pos EXCEPT ![c] = committed]
  /\ UNCHANGED <<committed, loop, trackerVars, slots, inflight, commit,
                 replied, handled>>

\* A worker goroutine panics: the delivery is neither acked nor nacked.
Abandon(c, o) ==
  /\ o \notin Undecodable
  /\ inflight[c][o] > 0
  /\ faults < MaxFaults
  /\ faults' = faults + 1
  /\ inflight' = [inflight EXCEPT ![c][o] = @ - 1]
  /\ UNCHANGED <<brokerVars, pos, loop, trackerVars, slots, commit, replied,
                 handled>>

\* The process dies and comes back with an empty tracker; its assignment is
\* released.
Restart(c) ==
  /\ faults < MaxFaults
  /\ faults' = faults + 1
  /\ owner' = IF owner = c THEN Nobody ELSE owner
  /\ pos' = [pos EXCEPT ![c] = committed]
  /\ loop' = [loop EXCEPT ![c] = "acquire"]
  /\ order' = [order EXCEPT ![c] = << >>]
  /\ done' = [done EXCEPT ![c] = {}]
  /\ slots' = [slots EXCEPT ![c] = 0]
  /\ inflight' = [inflight EXCEPT ![c] = [o \in Offsets |-> 0]]
  /\ commit' = [commit EXCEPT ![c] = Nobody]
  /\ replied' = [replied EXCEPT ![c] = FALSE]
  /\ UNCHANGED <<committed, handled>>

Next ==
  \E c \in Consumers :
    \/ AcquireSlot(c)
    \/ FetchFails(c)
    \/ \E o \in Offsets : Fetch(c, o)
    \/ \E o \in Offsets : Ack(c, o)
    \/ CommitLands(c)
    \/ Confirm(c)
    \/ Rebalance(c)
    \/ \E o \in Offsets : Abandon(c, o)
    \/ Restart(c)

Spec == Init /\ [][Next]_vars

(* The goroutines run, and a released partition is assigned again.           *)
(* FetchMessage is repeated until it succeeds, so a broker that answers now  *)
(* and then is enough (SF); so is CommitMessages.  The pipeline comes to an  *)
(* end with every delivery, at times after many Nacks, but not with those of *)
(* a refused job.                                                            *)
Fairness ==
  /\ WF_vars(owner = Nobody /\ \E c \in Consumers : Rebalance(c))
  /\ \A c \in Consumers :
       /\ WF_vars(AcquireSlot(c))
       /\ SF_vars(\E o \in Offsets : Fetch(c, o))
       /\ WF_vars(\E o \in Offsets \ Refused : Ack(c, o))
       /\ WF_vars(CommitLands(c) /\ replied'[c])
       /\ WF_vars(Confirm(c))

FairSpec == Spec /\ Fairness

-----------------------------------------------------------------------------
(* Properties.                                                             *)

\* offset_tracker.go:19-21, ADR 0007: a commit is a high-water mark, so it
\* never covers a message nobody has finished, whatever the interleaving of
\* workers, the repeated commits, rebalances and restarts.
CommittedAreHandled == \A o \in Offsets : o < committed => o \in handled

\* Every entry of the tracker owns a token of the pending channel, and so does
\* the fetch in progress: taking the tokens back in commitCompleted
\* (kafka.go:255-258) never blocks while it holds commitMu.
SlotsCoverPending ==
  \A c \in Consumers :
    /\ Len(order[c]) <= slots[c]
    /\ loop[c] = "fetch" => Len(order[c]) < slots[c]

\* A message fetched again after a rebalance takes a second token that Confirm
\* never returns (kafka.go:205, 221, 255-258). The loss is bounded: a process
\* with nothing pending always finds a token, so it slows down but cannot stop.
TokensNotExhausted ==
  \A c \in Consumers :
    order[c] = << >> /\ loop[c] # "fetch" => slots[c] < Capacity

AbandonedBy(c) ==
  {o \in Registered(c) \ done[c] : inflight[c][o] = 0}

\* The owner will not fetch o: it is out of tokens behind a delivery that nobody
\* finishes, for what was completed after that one keeps its tokens.
Starves(o) ==
  \E c \in Consumers :
    /\ owner = c /\ pos[c] <= o /\ loop[c] = "acquire" /\ slots[c] = Capacity
    /\ AbandonedBy(c) \cup (Refused \cap (Registered(c) \ done[c])) # {}

=============================================================================
