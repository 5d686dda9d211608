-------------------------- MODULE KafkaSourceProofs --------------------------
(***************************************************************************)
(* What stands at the two ends of a worker.  The source never commits past *)
(* an unhandled message, and its accounting of pending tokens is sound,    *)
(* for every number of processes, every set of offsets and every capacity. *)
(* The full-text sink forgets no gap it left in the index.                 *)
(***************************************************************************)
EXTENDS KafkaSource, FullText, FiniteSetTheorems, FunctionTheorems, SequenceTheorems,
        WellFoundedInduction, TLAPS

USE ConsumersAssumption, OffsetsAssumption, BoundsAssumption

\* A tracker registers an offset once.
NoDuplicates ==
  \A c \in Consumers : \A i, j \in 1..Len(order[c]) :
    i # j => order[c][i] # order[c][j]

DoneHandled == \A c \in Consumers : done[c] \subseteq handled

\* What a tracker skipped below a registered offset, somebody has handled.
NoHoles ==
  \A c \in Consumers : \A n \in 1..Len(order[c]) : \A o \in Offsets :
    o < order[c][n] => o \in handled \/ \E i \in 1..(n - 1) : order[c][i] = o

\* What lies behind a reader is handled or still with its tracker.
PassedCovered ==
  \A c \in Consumers : \A o \in Offsets :
    o < pos[c] => o \in handled \/ \E i \in 1..Len(order[c]) : order[c][i] = o

\* A commit under way covers a completed prefix of its tracker.
CommitCoversDone ==
  \A c \in Consumers : commit[c] # Nobody =>
    \E n \in 1..Len(order[c]) :
      /\ order[c][n] = commit[c]
      /\ \A i \in 1..n : order[c][i] \in done[c]

CommitInv ==
  /\ NoDuplicates
  /\ DoneHandled
  /\ NoHoles
  /\ PassedCovered
  /\ CommitCoversDone
  /\ CommittedAreHandled

\* The accounting of tokens.
TokenInv == TypeOK /\ SlotsCoverPending /\ TokensNotExhausted

-----------------------------------------------------------------------------
\* A step keeps the types; taking tokens back needs that there are enough.
LEMMA TypeStep ==
  ASSUME TypeOK, SlotsCoverPending, [Next]_vars
  PROVE  TypeOK'
<1> USE DEF TypeOK, LoopStates
<1>1. ASSUME NEW c \in Consumers, AcquireSlot(c) PROVE TypeOK'
  <2>1. slots' \in [Consumers -> 0..Capacity]
    <3>1. slots[c] + 1 \in 0..Capacity
      BY <1>1 DEF AcquireSlot
    <3> QED BY <1>1, <3>1 DEF AcquireSlot
  <2>2. loop' \in [Consumers -> LoopStates]
    BY <1>1 DEF AcquireSlot
  <2> QED BY <1>1, <2>1, <2>2 DEF AcquireSlot, brokerVars, trackerVars
<1>2. ASSUME NEW c \in Consumers, FetchFails(c) PROVE TypeOK'
  <2>1. slots[c] - 1 \in 0..Capacity
    <3>1. Len(order[c]) \in Nat /\ Len(order[c]) < slots[c]
      BY <1>2 DEF FetchFails, SlotsCoverPending
    <3> QED BY <3>1
  <2> QED BY <1>2, <2>1 DEF FetchFails, brokerVars, trackerVars
<1>3. ASSUME NEW c \in Consumers, NEW o \in Offsets, Fetch(c, o) PROVE TypeOK'
  <2>1. order' \in [Consumers -> Seq(Offsets)] /\ done' = done
    <3>1. Append(order[c], o) \in Seq(Offsets)
      OBVIOUS
    <3>2. \/ order' = order /\ done' = done
          \/ order' = [order EXCEPT ![c] = Append(@, o)] /\ done' = done
      BY <1>3 DEF Fetch, Register, trackerVars
    <3>3. CASE order' = order /\ done' = done
      BY <3>3
    <3>4. CASE order' = [order EXCEPT ![c] = Append(@, o)] /\ done' = done
      <4> DEFINE longer == Append(order[c], o)
      <4> HIDE DEF longer
      <4>1. order' = [order EXCEPT ![c] = longer]
        BY <3>4 DEF longer
      <4>2. longer \in Seq(Offsets)
        BY <3>1 DEF longer
      <4> QED BY <3>4, <4>1, <4>2
    <3> QED BY <3>2, <3>3, <3>4
  <2>2. inflight' \in [Consumers -> [Offsets -> Nat]]
    BY <1>3 DEF Fetch
  <2>3. pos' \in [Consumers -> Nat] /\ loop' \in [Consumers -> LoopStates]
    BY <1>3 DEF Fetch
  <2> QED BY <1>3, <2>1, <2>2, <2>3 DEF Fetch, brokerVars
<1>4. ASSUME NEW c \in Consumers, NEW o \in Offsets, Ack(c, o) PROVE TypeOK'
  <2>1. done' \in [Consumers -> SUBSET Offsets]
    BY <1>4 DEF Ack, BeginCommit
  <2>2. /\ commit' \in [Consumers -> Offsets \cup {Nobody}]
        /\ loop' \in [Consumers -> LoopStates]
    <3>1. \A n \in 1..Len(order[c]) : order[c][n] \in Offsets
      OBVIOUS
    <3>2. \/ commit' = commit
          \/ \E n \in 1..Len(order[c]) :
               commit' = [commit EXCEPT ![c] = order[c][n]]
      BY <1>4 DEF Ack, BeginCommit
    <3>3. loop' \in [Consumers -> LoopStates]
      BY <1>4 DEF Ack, BeginCommit
    <3> QED BY <3>1, <3>2, <3>3
  <2>3. inflight' \in [Consumers -> [Offsets -> Nat]]
    BY <1>4 DEF Ack
  <2>4. handled' \in SUBSET Offsets
    BY <1>4 DEF Ack
  <2> QED BY <1>4, <2>1, <2>2, <2>3, <2>4 DEF Ack, brokerVars
<1>5. ASSUME NEW c \in Consumers, CommitLands(c) PROVE TypeOK'
  <2>1. committed' \in Nat
    <3>1. commit[c] \in Nat
      BY <1>5 DEF CommitLands
    <3> QED BY <1>5, <3>1 DEF CommitLands
  <2>2. replied' \in [Consumers -> BOOLEAN]
    BY <1>5 DEF CommitLands
  <2> QED BY <1>5, <2>1, <2>2 DEF CommitLands, trackerVars
<1>6. ASSUME NEW c \in Consumers, Confirm(c) PROVE TypeOK'
  <2> PICK n \in 1..Len(order[c]) :
         /\ order' = [order EXCEPT ![c] = SubSeq(@, n + 1, Len(@))]
         /\ done' = [done EXCEPT ![c] = @ \ {order[c][i] : i \in 1..n}]
         /\ slots' = [slots EXCEPT ![c] = @ - n]
    BY <1>6 DEF Confirm, Released
  <2>1. order' \in [Consumers -> Seq(Offsets)]
    BY DEF trackerVars
  <2>2. done' \in [Consumers -> SUBSET Offsets]
    OBVIOUS
  <2>3. slots' \in [Consumers -> 0..Capacity]
    <3>1. slots[c] - n \in 0..Capacity
      <4>1. Len(order[c]) \in Nat /\ Len(order[c]) <= slots[c]
        BY DEF SlotsCoverPending
      <4> QED BY <4>1
    <3> QED BY <3>1
  <2>4. loop' \in [Consumers -> LoopStates]
    BY <1>6 DEF Confirm
  <2> QED BY <1>6, <2>1, <2>2, <2>3, <2>4 DEF Confirm, brokerVars
<1>7. ASSUME NEW c \in Consumers, Rebalance(c) PROVE TypeOK'
  BY <1>7 DEF Rebalance, brokerVars, trackerVars
<1>8. ASSUME NEW c \in Consumers, NEW o \in Offsets, Abandon(c, o) PROVE TypeOK'
  <2>1. inflight' \in [Consumers -> [Offsets -> Nat]]
    BY <1>8 DEF Abandon
  <2>2. faults' \in 0..MaxFaults
    BY <1>8 DEF Abandon
  <2> QED BY <1>8, <2>1, <2>2 DEF Abandon, brokerVars, trackerVars
<1>9. ASSUME NEW c \in Consumers, Restart(c) PROVE TypeOK'
  BY <1>9 DEF Restart, brokerVars, trackerVars
<1>10. CASE UNCHANGED vars
  BY <1>10 DEF vars
<1> QED
  BY <1>1, <1>2, <1>3, <1>4, <1>5, <1>6, <1>7, <1>8, <1>9, <1>10 DEF Next

\* The accounting of one process, to be shown for each.
LEMMA TokenStep ==
  ASSUME TokenInv, [Next]_vars
  PROVE  (SlotsCoverPending /\ TokensNotExhausted)'
<1> DEFINE Accounted(d) ==
      /\ Len(order[d]) <= slots[d]
      /\ loop[d] = "fetch" => Len(order[d]) < slots[d]
      /\ order[d] = << >> /\ loop[d] # "fetch" => slots[d] < Capacity
<1>0. /\ TypeOK
      /\ \A d \in Consumers :
           /\ order[d] \in Seq(Offsets)
           /\ Len(order[d]) \in Nat
           /\ slots[d] \in 0..Capacity
           /\ Accounted(d)
  BY DEF TokenInv, SlotsCoverPending, TokensNotExhausted, TypeOK
<1> SUFFICES ASSUME NEW d \in Consumers PROVE Accounted(d)'
  BY DEF SlotsCoverPending, TokensNotExhausted
<1>1. ASSUME NEW c \in Consumers, AcquireSlot(c) PROVE Accounted(d)'
  BY <1>0, <1>1 DEF AcquireSlot, TypeOK, trackerVars
<1>2. ASSUME NEW c \in Consumers, FetchFails(c) PROVE Accounted(d)'
  BY <1>0, <1>2 DEF FetchFails, TypeOK, trackerVars
<1>3. ASSUME NEW c \in Consumers, NEW o \in Offsets, Fetch(c, o)
      PROVE  Accounted(d)'
  <2>1. /\ slots' = slots
        /\ loop[c] = "fetch"
        /\ loop'[c] # "fetch"
        /\ d # c => loop'[d] = loop[d]
    BY <1>0, <1>3 DEF Fetch, TypeOK
  <2>2. CASE o \in Registered(c)
    <3>1. order' = order /\ order[c] # << >>
      BY <1>0, <1>3, <2>2 DEF Fetch, Register, Registered, trackerVars
    <3> QED BY <1>0, <2>1, <3>1
  <2>3. CASE o \notin Registered(c)
    <3>1. order' = [order EXCEPT ![c] = Append(order[c], o)]
      BY <1>3, <2>3 DEF Fetch, Register
    <3>2. CASE d = c
      <4>1. order'[d] # << >> /\ Len(order'[d]) = Len(order[d]) + 1
        <5>1. order'[d] = Append(order[d], o)
          BY <1>0, <3>1, <3>2 DEF TypeOK
        <5> QED BY <1>0, <5>1
      <4> QED BY <1>0, <2>1, <3>2, <4>1
    <3>3. CASE d # c
      BY <1>0, <2>1, <3>1, <3>3 DEF TypeOK
    <3> QED BY <3>2, <3>3
  <2> QED BY <2>2, <2>3
<1>4. ASSUME NEW c \in Consumers, NEW o \in Offsets, Ack(c, o)
      PROVE  Accounted(d)'
  <2>1. order' = order /\ slots' = slots
    BY <1>4 DEF Ack
  <2>2. loop'[d] = "fetch" <=> loop[d] = "fetch"
    BY <1>0, <1>4 DEF Ack, BeginCommit, TypeOK
  <2> QED BY <1>0, <2>1, <2>2
<1>5. ASSUME NEW c \in Consumers, CommitLands(c) PROVE Accounted(d)'
  BY <1>0, <1>5 DEF CommitLands, trackerVars
<1>6. ASSUME NEW c \in Consumers, Confirm(c) PROVE Accounted(d)'
  <2> PICK n \in 1..Len(order[c]) :
         /\ order' = [order EXCEPT ![c] = SubSeq(order[c], n + 1, Len(order[c]))]
         /\ slots' = [slots EXCEPT ![c] = @ - n]
    BY <1>6 DEF Confirm, Released
  <2>1. loop'[d] = "fetch" <=> loop[d] = "fetch"
    BY <1>0, <1>6 DEF Confirm, TypeOK
  <2>2. CASE d = c
    <3>1. Len(order'[d]) = Len(order[d]) - n /\ slots'[d] = slots[d] - n
      BY <1>0, <2>2 DEF TypeOK
    <3> QED BY <1>0, <2>1, <2>2, <3>1
  <2>3. CASE d # c
    <3>1. order'[d] = order[d] /\ slots'[d] = slots[d]
      BY <1>0, <2>3 DEF TypeOK
    <3> QED BY <1>0, <2>1, <3>1
  <2> QED BY <2>2, <2>3
<1>7. ASSUME NEW c \in Consumers, Rebalance(c) PROVE Accounted(d)'
  BY <1>0, <1>7 DEF Rebalance, trackerVars
<1>8. ASSUME NEW c \in Consumers, NEW o \in Offsets, Abandon(c, o)
      PROVE  Accounted(d)'
  BY <1>0, <1>8 DEF Abandon, trackerVars
<1>9. ASSUME NEW c \in Consumers, Restart(c) PROVE Accounted(d)'
  BY <1>0, <1>9 DEF Restart, TypeOK
<1>10. CASE UNCHANGED vars
  BY <1>0, <1>10 DEF vars
<1> QED
  BY <1>1, <1>2, <1>3, <1>4, <1>5, <1>6, <1>7, <1>8, <1>9, <1>10 DEF Next

LEMMA TokenInvariant == Spec => []TokenInv
<1>1. Init => TokenInv
  BY DEF Init, TokenInv, TypeOK, LoopStates, SlotsCoverPending, TokensNotExhausted
<1>2. TokenInv /\ [Next]_vars => TokenInv'
  BY TypeStep, TokenStep DEF TokenInv
<1> QED BY <1>1, <1>2, PTL DEF Spec

\* Every reachable state of the source has the declared types; in particular
\* the pending channel never holds more than its capacity.
THEOREM TypeCorrect == Spec => []TypeOK
BY TokenInvariant, PTL DEF TokenInv

\* Taking tokens back never blocks: every pending offset owns one.
THEOREM SlotsAreCovered == Spec => []SlotsCoverPending
BY TokenInvariant, PTL DEF TokenInv

\* Tokens lost to refetched messages never use up the pending channel.
THEOREM TokensRemain == Spec => []TokensNotExhausted
BY TokenInvariant, PTL DEF TokenInv

-----------------------------------------------------------------------------
\* NoHoles survives a step that leaves the trackers alone.
LEMMA NoHolesKept ==
  ASSUME NoHoles, order' = order, handled \subseteq handled'
  PROVE  NoHoles'
<1> SUFFICES ASSUME NEW c \in Consumers, NEW n \in 1..Len(order'[c]),
                    NEW o \in Offsets, o < order'[c][n]
             PROVE  o \in handled' \/ \E i \in 1..(n - 1) : order'[c][i] = o
  BY DEF NoHoles
<1>1. n \in 1..Len(order[c]) /\ o < order[c][n]
  OBVIOUS
<1>2. o \in handled \/ \E i \in 1..(n - 1) : order[c][i] = o
  BY <1>1 DEF NoHoles
<1> QED BY <1>2

\* So does PassedCovered, when the readers stay where they are.
LEMMA PassedCoveredKept ==
  ASSUME PassedCovered, order' = order, pos' = pos, handled \subseteq handled'
  PROVE  PassedCovered'
<1> SUFFICES ASSUME NEW c \in Consumers, NEW o \in Offsets, o < pos'[c]
             PROVE  o \in handled' \/ \E i \in 1..Len(order'[c]) : order'[c][i] = o
  BY DEF PassedCovered
<1>1. o \in handled \/ \E i \in 1..Len(order[c]) : order[c][i] = o
  BY DEF PassedCovered
<1> QED BY <1>1

\* And CommitCoversDone, when commits and completed entries stay too.
LEMMA CommitCoversDoneKept ==
  ASSUME CommitCoversDone, order' = order, done' = done, commit' = commit
  PROVE  CommitCoversDone'
BY DEF CommitCoversDone

\* A registered offset is new to the tracker, and the reader had passed every
\* visible offset below it.
LEMMA FetchKeeps ==
  ASSUME TypeOK, CommitInv, NEW c \in Consumers, NEW o \in Offsets, Fetch(c, o)
  PROVE  CommitInv'
<1>1. /\ committed' = committed /\ handled' = handled /\ done' = done
      /\ commit' = commit
      /\ pos' = [pos EXCEPT ![c] = o + 1]
      /\ \A p \in Offsets : p < o => p < pos[c]
  <2>1. \A p \in Offsets : p < o => p < pos[c]
    <3> SUFFICES ASSUME NEW p \in Offsets, p < o, ~(p < pos[c]) PROVE FALSE
      OBVIOUS
    <3>1. p \in Nat /\ o \in Nat /\ pos[c] \in Nat
      BY DEF TypeOK
    <3>2. pos[c] <= p => o <= p
      BY DEF Fetch, NextVisible
    <3> QED BY <3>1, <3>2
  <2> QED BY <2>1 DEF Fetch, Register, brokerVars, trackerVars
<1>2. CASE o \in Registered(c)
  <2>1. order' = order
    BY <1>2 DEF Fetch, Register, trackerVars
  <2>2. PassedCovered'
    <3> SUFFICES ASSUME NEW d \in Consumers, NEW p \in Offsets, p < pos'[d]
                 PROVE  p \in handled \/ \E i \in 1..Len(order[d]) : order[d][i] = p
      BY <1>1, <2>1 DEF PassedCovered
    <3>1. CASE d = c /\ p = o
      BY <3>1, <1>2 DEF Registered
    <3>2. CASE ~(d = c /\ p = o)
      <4>1. p < pos[d]
        <5>1. CASE d # c
          BY <1>1, <5>1 DEF TypeOK
        <5>2. CASE d = c
          <6>1. p < o + 1 /\ p # o /\ p \in Nat /\ o \in Nat
            BY <1>1, <3>2, <5>2 DEF TypeOK
          <6>2. p < o
            BY <6>1
          <6> QED BY <1>1, <5>2, <6>2
        <5> QED BY <5>1, <5>2
      <4> QED BY <4>1 DEF CommitInv, PassedCovered
    <3> QED BY <3>1, <3>2
  <2> QED
    <3>1. (NoDuplicates /\ DoneHandled /\ CommittedAreHandled)'
      BY <1>1, <2>1 DEF CommitInv, NoDuplicates, DoneHandled, CommittedAreHandled
    <3>2. NoHoles'
      BY <1>1, <2>1, NoHolesKept DEF CommitInv
    <3>3. CommitCoversDone'
      BY <1>1, <2>1, CommitCoversDoneKept DEF CommitInv
    <3> QED BY <2>2, <3>1, <3>2, <3>3 DEF CommitInv
<1>3. CASE o \notin Registered(c)
  <2> DEFINE len == Len(order[c])
  <2>1. /\ order' = [order EXCEPT ![c] = Append(order[c], o)]
        /\ \A i \in 1..len : order[c][i] # o
    BY <1>3 DEF Fetch, Register, Registered
  <2>2. order[c] \in Seq(Offsets) /\ len \in Nat
    BY DEF TypeOK
  <2>3. /\ order'[c] = Append(order[c], o)
        /\ \A d \in Consumers : d # c => order'[d] = order[d]
    BY <2>1 DEF TypeOK
  <2>4. /\ Len(order'[c]) = len + 1
        /\ order'[c][len + 1] = o
        /\ \A i \in 1..len : order'[c][i] = order[c][i]
    BY <2>2, <2>3
  <2> HIDE DEF len
  <2>5. \A p \in Offsets : p < o => p \in handled \/ \E i \in 1..len : order[c][i] = p
    BY <1>1 DEF CommitInv, PassedCovered, len
  <2>6. NoDuplicates'
    <3> SUFFICES ASSUME NEW d \in Consumers,
                        NEW i \in 1..Len(order'[d]), NEW j \in 1..Len(order'[d]),
                        i # j
                 PROVE  order'[d][i] # order'[d][j]
      BY DEF NoDuplicates
    <3>1. CASE d # c
      BY <2>3, <3>1 DEF CommitInv, NoDuplicates
    <3>2. CASE d = c
      <4>1. CASE i \in 1..len /\ j \in 1..len
        BY <2>4, <3>2, <4>1 DEF CommitInv, NoDuplicates, len
      <4>2. CASE i \notin 1..len \/ j \notin 1..len
        <5>1. \/ i = len + 1 /\ j \in 1..len
              \/ j = len + 1 /\ i \in 1..len
          BY <2>2, <2>4, <3>2, <4>2
        <5> QED BY <2>1, <2>4, <3>2, <5>1
      <4> QED BY <4>1, <4>2
    <3> QED BY <3>1, <3>2
  <2>7. NoHoles'
    <3> SUFFICES ASSUME NEW d \in Consumers, NEW n \in 1..Len(order'[d]),
                        NEW p \in Offsets, p < order'[d][n]
                 PROVE  p \in handled \/ \E i \in 1..(n - 1) : order'[d][i] = p
      BY <1>1 DEF NoHoles
    <3>1. CASE d # c
      <4>1. order'[d] = order[d]
        BY <2>3, <3>1
      <4>2. p \in handled \/ \E i \in 1..(n - 1) : order[d][i] = p
        <5>1. n \in 1..Len(order[d]) /\ p < order[d][n]
          BY <4>1
        <5> QED BY <5>1 DEF CommitInv, NoHoles
      <4> QED BY <4>1, <4>2
    <3>2. CASE d = c /\ n \in 1..len
      <4>1. p \in handled \/ \E i \in 1..(n - 1) : order[c][i] = p
        <5>1. n \in 1..Len(order[c]) /\ p < order[c][n]
          BY <2>4, <3>2 DEF len
        <5> QED BY <5>1 DEF CommitInv, NoHoles
      <4>2. \A i \in 1..(n - 1) : i \in 1..len
        BY <2>2, <3>2
      <4> QED BY <2>4, <3>2, <4>1, <4>2
    <3>3. CASE d = c /\ n \notin 1..len
      <4>1. n = len + 1 /\ n - 1 = len
        BY <2>2, <2>4, <3>3
      <4> QED BY <2>4, <2>5, <3>3, <4>1
    <3> QED BY <3>1, <3>2, <3>3
  <2>8. PassedCovered'
    <3> SUFFICES ASSUME NEW d \in Consumers, NEW p \in Offsets, p < pos'[d]
                 PROVE  p \in handled \/ \E i \in 1..Len(order'[d]) : order'[d][i] = p
      BY <1>1 DEF PassedCovered
    <3>1. CASE d # c
      <4>1. order'[d] = order[d] /\ pos'[d] = pos[d]
        BY <1>1, <2>3, <3>1 DEF TypeOK
      <4>2. p < pos[d]
        BY <4>1
      <4>3. p \in handled \/ \E i \in 1..Len(order[d]) : order[d][i] = p
        BY <4>2 DEF CommitInv, PassedCovered
      <4> QED BY <4>1, <4>3
    <3>2. CASE d = c
      <4>1. p = o \/ p < o
        <5>1. p < o + 1 /\ p \in Nat /\ o \in Nat
          BY <1>1, <3>2 DEF TypeOK
        <5> QED BY <5>1
      <4>2. len + 1 \in 1..Len(order'[c]) /\ \A i \in 1..len : i \in 1..Len(order'[c])
        BY <2>2, <2>4
      <4> QED BY <2>4, <2>5, <3>2, <4>1, <4>2
    <3> QED BY <3>1, <3>2
  <2>9. CommitCoversDone'
    <3> SUFFICES ASSUME NEW d \in Consumers, commit[d] # Nobody
                 PROVE  \E n \in 1..Len(order'[d]) :
                          /\ order'[d][n] = commit[d]
                          /\ \A i \in 1..n : order'[d][i] \in done[d]
      BY <1>1 DEF CommitCoversDone
    <3>1. CASE d # c
      BY <2>3, <3>1 DEF CommitInv, CommitCoversDone
    <3>2. CASE d = c
      <4> PICK n \in 1..len : /\ order[c][n] = commit[c]
                              /\ \A i \in 1..n : order[c][i] \in done[c]
        BY <3>2 DEF CommitInv, CommitCoversDone, len
      <4>1. n \in 1..Len(order'[c]) /\ \A i \in 1..n : i \in 1..len
        BY <2>2, <2>4
      <4> QED BY <2>4, <3>2, <4>1
    <3> QED BY <3>1, <3>2
  <2> QED
    BY <1>1, <2>6, <2>7, <2>8, <2>9 DEF CommitInv, DoneHandled, CommittedAreHandled
<1> QED BY <1>2, <1>3

\* An Ack completes one entry and picks a completed prefix to commit.
LEMMA AckKeeps ==
  ASSUME TypeOK, CommitInv, NEW c \in Consumers, NEW o \in Offsets, Ack(c, o)
  PROVE  CommitInv'
<1> DEFINE completed == done[c] \cup ({o} \cap Registered(c))
<1>1. /\ committed' = committed /\ pos' = pos /\ order' = order
      /\ handled' = handled \cup {o}
      /\ done' = [done EXCEPT ![c] = completed]
  BY DEF Ack, BeginCommit, brokerVars
<1>2. DoneHandled'
  BY <1>1 DEF CommitInv, DoneHandled
<1>3. CommitCoversDone'
  <2> SUFFICES ASSUME NEW d \in Consumers, commit'[d] # Nobody
               PROVE  \E n \in 1..Len(order[d]) :
                        /\ order[d][n] = commit'[d]
                        /\ \A i \in 1..n : order[d][i] \in done'[d]
    BY <1>1 DEF CommitCoversDone
  <2>1. CASE d # c
    <3>1. commit'[d] = commit[d] /\ done'[d] = done[d]
      <4>1. \/ commit' = commit
            \/ \E n \in 1..Len(order[c]) : commit' = [commit EXCEPT ![c] = order[c][n]]
        BY DEF Ack, BeginCommit
      <4> QED BY <1>1, <2>1, <4>1 DEF TypeOK
    <3> QED BY <3>1 DEF CommitInv, CommitCoversDone
  <2>2. CASE d = c
    <3>1. commit[c] = Nobody
      BY DEF Ack, BeginCommit
    <3>2. \E n \in 1..Len(order[c]) :
            IsCandidate(c, completed, n) /\ commit'[c] = order[c][n]
      <4>1. \/ commit' = commit
            \/ \E n \in 1..Len(order[c]) :
                 /\ IsCandidate(c, completed, n)
                 /\ commit' = [commit EXCEPT ![c] = order[c][n]]
        BY DEF Ack, BeginCommit
      <4>2. commit'[c] # commit[c]
        BY <2>2, <3>1
      <4> HIDE DEF completed
      <4> QED BY <4>1, <4>2 DEF TypeOK
    <3>3. done'[c] = completed
      BY <1>1 DEF TypeOK
    <3> HIDE DEF completed
    <3> QED BY <2>2, <3>2, <3>3 DEF IsCandidate
  <2> QED BY <2>1, <2>2
<1> QED
  <2>1. NoDuplicates' /\ CommittedAreHandled'
    BY <1>1 DEF CommitInv, NoDuplicates, CommittedAreHandled
  <2>2. NoHoles'
    BY <1>1, NoHolesKept DEF CommitInv
  <2>3. PassedCovered'
    BY <1>1, PassedCoveredKept DEF CommitInv
  <2> QED BY <1>2, <1>3, <2>1, <2>2, <2>3 DEF CommitInv

\* The committed prefix grows by offsets that are done, or below one of them.
LEMMA CommitLandsKeeps ==
  ASSUME TypeOK, CommitInv, NEW c \in Consumers, CommitLands(c)
  PROVE  CommitInv'
<1>1. /\ pos' = pos /\ order' = order /\ done' = done /\ commit' = commit
      /\ handled' = handled
      /\ commit[c] # Nobody
      /\ committed' = commit[c] + 1
  BY DEF CommitLands, trackerVars
<1>2. CommittedAreHandled'
  <2> SUFFICES ASSUME NEW o \in Offsets, o < committed'
               PROVE  o \in handled
    BY <1>1 DEF CommittedAreHandled
  <2> PICK n \in 1..Len(order[c]) :
         /\ order[c][n] = commit[c]
         /\ \A i \in 1..n : order[c][i] \in done[c]
    BY <1>1 DEF CommitInv, CommitCoversDone
  <2>1. commit[c] \in Nat /\ o \in Nat
    BY <1>1 DEF TypeOK
  <2>2. CASE o = commit[c]
    BY <2>2 DEF CommitInv, DoneHandled
  <2>3. CASE o < commit[c]
    <3>1. o \in handled \/ \E i \in 1..(n - 1) : order[c][i] = o
      BY <2>3 DEF CommitInv, NoHoles
    <3>2. CASE \E i \in 1..(n - 1) : order[c][i] = o
      <4>1. PICK i \in 1..(n - 1) : order[c][i] = o
        BY <3>2
      <4>2. i \in 1..n
        OBVIOUS
      <4>3. o \in done[c]
        BY <4>1, <4>2
      <4> QED BY <4>3 DEF CommitInv, DoneHandled
    <3> QED BY <3>1, <3>2
  <2>4. o = commit[c] \/ o < commit[c]
    BY <1>1, <2>1
  <2> QED BY <2>2, <2>3, <2>4
<1> QED
  <2>1. (NoDuplicates /\ DoneHandled)'
    BY <1>1 DEF CommitInv, NoDuplicates, DoneHandled
  <2>2. NoHoles'
    BY <1>1, NoHolesKept DEF CommitInv
  <2>3. PassedCovered'
    BY <1>1, PassedCoveredKept DEF CommitInv
  <2>4. CommitCoversDone'
    BY <1>1, CommitCoversDoneKept DEF CommitInv
  <2> QED BY <1>2, <2>1, <2>2, <2>3, <2>4 DEF CommitInv

\* Confirm drops a prefix whose every offset is handled.
LEMMA ConfirmKeeps ==
  ASSUME TypeOK, CommitInv, NEW c \in Consumers, Confirm(c)
  PROVE  CommitInv'
<1>1. /\ committed' = committed /\ handled' = handled /\ pos' = pos
      /\ commit' = [commit EXCEPT ![c] = Nobody]
  BY DEF Confirm, brokerVars
<1> PICK n \in 1..Len(order[c]) :
       /\ order[c][n] = commit[c]
       /\ order' = [order EXCEPT ![c] = SubSeq(order[c], n + 1, Len(order[c]))]
       /\ done' = [done EXCEPT ![c] = done[c] \ {order[c][i] : i \in 1..n}]
  BY DEF Confirm
<1> PICK m \in 1..Len(order[c]) :
       /\ order[c][m] = commit[c]
       /\ \A i \in 1..m : order[c][i] \in done[c]
  BY DEF Confirm, CommitInv, CommitCoversDone
<1>2. n = m
  BY DEF CommitInv, NoDuplicates
<1>3. \A i \in 1..n : order[c][i] \in handled
  BY <1>2 DEF CommitInv, DoneHandled
<1> DEFINE len == Len(order[c])
<1>4. order[c] \in Seq(Offsets) /\ len \in Nat /\ n \in 1..len
  BY DEF TypeOK
<1>5. /\ order'[c] = SubSeq(order[c], n + 1, len)
      /\ \A d \in Consumers : d # c => order'[d] = order[d]
  BY DEF TypeOK
<1>6. /\ Len(order'[c]) = len - n
      /\ \A i \in 1..(len - n) : order'[c][i] = order[c][i + n]
  BY <1>4, <1>5, SMTT(30)
<1>7. /\ done'[c] = done[c] \ {order[c][i] : i \in 1..n}
      /\ \A d \in Consumers : d # c => done'[d] = done[d]
  BY DEF TypeOK
<1>8. /\ commit'[c] = Nobody
      /\ \A d \in Consumers : d # c => commit'[d] = commit[d]
  BY <1>1 DEF TypeOK
\* What the prefix held is handled; the rest keeps its relative order.
<1>9. ASSUME NEW k \in 0..(len - n), NEW o \in Offsets,
             o \in handled \/ \E i \in 1..(k + n) : order[c][i] = o
      PROVE  o \in handled \/ \E i \in 1..k : order'[c][i] = o
  <2> SUFFICES ASSUME NEW i \in 1..(k + n), order[c][i] = o, i \notin 1..n
               PROVE  \E j \in 1..k : order'[c][j] = o
    BY <1>3, <1>9
  <2>1. i - n \in 1..k /\ i - n \in 1..(len - n) /\ (i - n) + n = i
    BY <1>4
  <2> QED BY <1>6, <2>1
<1> HIDE DEF len
<1>10. NoDuplicates'
  <2> SUFFICES ASSUME NEW d \in Consumers,
                      NEW i \in 1..Len(order'[d]), NEW j \in 1..Len(order'[d]),
                      i # j
               PROVE  order'[d][i] # order'[d][j]
    BY DEF NoDuplicates
  <2>1. CASE d # c
    BY <1>5, <2>1 DEF CommitInv, NoDuplicates
  <2>2. CASE d = c
    <3>1. i + n \in 1..len /\ j + n \in 1..len /\ i + n # j + n
      BY <1>4, <1>6, <2>2
    <3>2. order[c][i + n] # order[c][j + n]
      BY <3>1 DEF CommitInv, NoDuplicates, len
    <3> QED BY <1>6, <2>2, <3>2
  <2> QED BY <2>1, <2>2
<1>11. DoneHandled'
  BY <1>1, <1>7 DEF CommitInv, DoneHandled
<1>12. NoHoles'
  <2> SUFFICES ASSUME NEW d \in Consumers, NEW k \in 1..Len(order'[d]),
                      NEW o \in Offsets, o < order'[d][k]
               PROVE  o \in handled' \/ \E i \in 1..(k - 1) : order'[d][i] = o
    BY DEF NoHoles
  <2>1. CASE d # c
    <3>1. order'[d] = order[d]
      BY <1>5, <2>1
    <3>2. k \in 1..Len(order[d]) /\ o < order[d][k]
      BY <3>1
    <3>3. o \in handled \/ \E i \in 1..(k - 1) : order[d][i] = o
      BY <3>2 DEF CommitInv, NoHoles
    <3> QED BY <1>1, <3>1, <3>3
  <2>2. CASE d = c
    <3>1. k + n \in 1..len /\ k - 1 \in 0..(len - n) /\ (k - 1) + n = (k + n) - 1
      BY <1>4, <1>6, <2>2
    <3>2. o < order[c][k + n]
      BY <1>6, <2>2
    <3>3. o \in handled \/ \E i \in 1..((k + n) - 1) : order[c][i] = o
      BY <3>1, <3>2 DEF CommitInv, NoHoles, len
    <3>4. o \in handled \/ \E i \in 1..(k - 1) : order'[c][i] = o
      <4> DEFINE q == k - 1
      <4>1. q \in 0..(len - n) /\ q + n = (k + n) - 1
        BY <3>1
      <4> HIDE DEF q
      <4>2. o \in handled \/ \E i \in 1..(q + n) : order[c][i] = o
        BY <3>3, <4>1
      <4>3. o \in handled \/ \E i \in 1..q : order'[c][i] = o
        BY <1>9, <4>1, <4>2
      <4> QED BY <4>3 DEF q
    <3> QED BY <1>1, <2>2, <3>4
  <2> QED BY <2>1, <2>2
<1>13. PassedCovered'
  <2> SUFFICES ASSUME NEW d \in Consumers, NEW o \in Offsets, o < pos[d]
               PROVE  o \in handled \/ \E i \in 1..Len(order'[d]) : order'[d][i] = o
    BY <1>1 DEF PassedCovered
  <2>1. o \in handled \/ \E i \in 1..Len(order[d]) : order[d][i] = o
    BY DEF CommitInv, PassedCovered
  <2>2. CASE d # c
    <3>1. order'[d] = order[d]
      BY <1>5, <2>2
    <3> QED BY <2>1, <3>1
  <2>3. CASE d = c
    <3>1. len - n \in 0..(len - n) /\ (len - n) + n = len
      BY <1>4
    <3>2. o \in handled \/ \E i \in 1..((len - n) + n) : order[c][i] = o
      BY <2>1, <2>3, <3>1 DEF len
    <3>3. o \in handled \/ \E i \in 1..(len - n) : order'[c][i] = o
      BY <1>9, <3>1, <3>2
    <3> QED BY <1>6, <2>3, <3>3
  <2> QED BY <2>2, <2>3
<1>14. CommitCoversDone'
  <2> SUFFICES ASSUME NEW d \in Consumers, commit'[d] # Nobody
               PROVE  \E k \in 1..Len(order'[d]) :
                        /\ order'[d][k] = commit'[d]
                        /\ \A i \in 1..k : order'[d][i] \in done'[d]
    BY DEF CommitCoversDone
  <2>1. d # c
    BY <1>8
  <2>2. order'[d] = order[d] /\ done'[d] = done[d] /\ commit'[d] = commit[d]
    BY <1>5, <1>7, <1>8, <2>1
  <2> QED BY <2>2 DEF CommitInv, CommitCoversDone
<1> QED
  BY <1>1, <1>10, <1>11, <1>12, <1>13, <1>14 DEF CommitInv, CommittedAreHandled

\* A new assignment resumes at the committed offset, below which all is handled.
LEMMA RebalanceKeeps ==
  ASSUME TypeOK, CommitInv, NEW c \in Consumers, Rebalance(c)
  PROVE  CommitInv'
<1>1. /\ committed' = committed /\ order' = order /\ done' = done
      /\ commit' = commit /\ handled' = handled
      /\ \A d \in Consumers : pos'[d] = pos[d] \/ pos'[d] = committed
  BY DEF Rebalance, trackerVars, TypeOK
<1>2. PassedCovered'
  <2> SUFFICES ASSUME NEW d \in Consumers, NEW o \in Offsets, o < pos'[d]
               PROVE  o \in handled \/ \E i \in 1..Len(order[d]) : order[d][i] = o
    BY <1>1 DEF PassedCovered
  <2>1. CASE pos'[d] = pos[d]
    BY <2>1 DEF CommitInv, PassedCovered
  <2>2. CASE pos'[d] = committed
    BY <2>2 DEF CommitInv, CommittedAreHandled
  <2> QED BY <1>1, <2>1, <2>2
<1>3. (NoDuplicates /\ DoneHandled /\ CommittedAreHandled)'
  BY <1>1 DEF CommitInv, NoDuplicates, DoneHandled, CommittedAreHandled
<1>4. NoHoles' /\ CommitCoversDone'
  BY <1>1, NoHolesKept, CommitCoversDoneKept DEF CommitInv
<1> QED BY <1>2, <1>3, <1>4 DEF CommitInv

\* A restarted process has an empty tracker and resumes at the committed offset.
LEMMA RestartKeeps ==
  ASSUME TypeOK, CommitInv, NEW c \in Consumers, Restart(c)
  PROVE  CommitInv'
<1>1. /\ committed' = committed /\ handled' = handled
      /\ order'[c] = << >> /\ done'[c] = {} /\ commit'[c] = Nobody
      /\ pos'[c] = committed
      /\ \A d \in Consumers : d # c =>
           /\ order'[d] = order[d] /\ done'[d] = done[d]
           /\ commit'[d] = commit[d] /\ pos'[d] = pos[d]
  BY DEF Restart, TypeOK
<1>2. 1..Len(order'[c]) = {}
  BY <1>1
<1>3. NoDuplicates'
  BY <1>1, <1>2 DEF CommitInv, NoDuplicates
<1>4. (DoneHandled /\ CommittedAreHandled)'
  BY <1>1 DEF CommitInv, DoneHandled, CommittedAreHandled
<1>5. NoHoles'
  BY <1>1, <1>2 DEF CommitInv, NoHoles
<1>6. PassedCovered'
  BY <1>1 DEF CommitInv, PassedCovered, CommittedAreHandled
<1>7. CommitCoversDone'
  BY <1>1 DEF CommitInv, CommitCoversDone
<1> QED BY <1>3, <1>4, <1>5, <1>6, <1>7 DEF CommitInv

\* A step that leaves the tracker, the reader and the commits alone.
LEMMA IdleKeeps ==
  ASSUME CommitInv,
         UNCHANGED <<committed, pos, order, done, commit, handled>>
  PROVE  CommitInv'
<1>1. (NoDuplicates /\ DoneHandled /\ CommittedAreHandled)'
  BY DEF CommitInv, NoDuplicates, DoneHandled, CommittedAreHandled
<1>2. NoHoles' /\ PassedCovered' /\ CommitCoversDone'
  BY NoHolesKept, PassedCoveredKept, CommitCoversDoneKept DEF CommitInv
<1> QED BY <1>1, <1>2 DEF CommitInv

\* The committed offset never passes a message that nobody has handled.
THEOREM CommitsAreSafe == Spec => []CommittedAreHandled
<1>1. Init => CommitInv
  <2> SUFFICES ASSUME Init PROVE CommitInv
    OBVIOUS
  <2>1. \A c \in Consumers : /\ 1..Len(order[c]) = {} /\ done[c] = {}
                             /\ pos[c] = 0 /\ commit[c] = Nobody
    BY DEF Init
  <2>2. \A o \in Offsets : ~(o < 0)
    OBVIOUS
  <2> QED
    BY <2>1, <2>2 DEF Init, CommitInv, NoDuplicates, DoneHandled, NoHoles,
       PassedCovered, CommitCoversDone, CommittedAreHandled
<1>2. TypeOK /\ CommitInv /\ [Next]_vars => CommitInv'
  <2> SUFFICES ASSUME TypeOK, CommitInv, [Next]_vars PROVE CommitInv'
    OBVIOUS
  <2>1. ASSUME NEW c \in Consumers, AcquireSlot(c) \/ FetchFails(c)
        PROVE  CommitInv'
    BY <2>1, IdleKeeps DEF AcquireSlot, FetchFails, brokerVars, trackerVars
  <2>2. ASSUME NEW c \in Consumers, NEW o \in Offsets, Abandon(c, o)
        PROVE  CommitInv'
    BY <2>2, IdleKeeps DEF Abandon, brokerVars, trackerVars
  <2>3. CASE UNCHANGED vars
    BY <2>3, IdleKeeps DEF vars
  <2> QED
    BY <2>1, <2>2, <2>3, FetchKeeps, AckKeeps, CommitLandsKeeps, ConfirmKeeps,
       RebalanceKeeps, RestartKeeps DEF Next
<1>3. CommitInv => CommittedAreHandled
  BY DEF CommitInv
<1> QED BY <1>1, <1>2, <1>3, TypeCorrect, PTL DEF Spec

-----------------------------------------------------------------------------
(***************************************************************************)
(* The full-text sink (module FullText), for every number of workers and   *)
(* chunks and every size of batch, page and dead-letter list.              *)
(*                                                                         *)
(* First the three things done to the dead-letter list: to push, to trim   *)
(* and to remove by value.  Then the attempt at the document, the messages *)
(* and the list each keep their own part of the invariant, and no step     *)
(* loses the last description of a gap.                                    *)
(***************************************************************************)
\* The assumptions of KafkaSource play no part from here on.
HIDE DEF ConsumersAssumption, OffsetsAssumption, BoundsAssumption

DeadIn(list, id) == \E k \in 1..Len(list) : list[k] = id

\* What RPUSH makes of the list.
LEMMA Pushed ==
  ASSUME NEW list \in Seq(Ids), NEW id \in Ids
  PROVE  /\ Append(list, id) \in Seq(Ids) /\ DeadIn(Append(list, id), id)
         /\ \A other : DeadIn(list, other) => DeadIn(Append(list, id), other)
<1> DEFINE new == Append(list, id)
<1>1. /\ new \in Seq(Ids) /\ Len(new) = Len(list) + 1 /\ new[Len(list) + 1] = id
      /\ \A k \in 1..Len(list) : new[k] = list[k]
  BY AppendProperties
<1>2. Len(list) \in Nat
  BY LenProperties
<1> HIDE DEF new
<1>3. DeadIn(new, id)
  BY <1>1, <1>2 DEF DeadIn
<1>4. \A other : DeadIn(list, other) => DeadIn(new, other)
  BY <1>1, <1>2 DEF DeadIn
<1> QED BY <1>1, <1>3, <1>4 DEF new

\* What LTRIM leaves: not too much, and all but the entries on record as lost.
LEMMA TrimmedList ==
  ASSUME dead \in Seq(Ids), FullTextAssumption
  PROVE  /\ Trimmed \in Seq(Ids) /\ Len(Trimmed) <= DeadLetterMax
         /\ {dead[k] : k \in 1..Excess} \subseteq Ids
         /\ \A id : DeadIn(dead, id) => DeadIn(Trimmed, id) \/ id \in {dead[k] : k \in 1..Excess}
<1>1. Len(dead) \in Nat /\ DeadLetterMax \in Nat \ {0}
  BY LenProperties DEF FullTextAssumption
<1>2. Excess \in 0..Len(dead) /\ Len(dead) - Excess <= DeadLetterMax
  BY <1>1 DEF Excess
<1>3. \A k \in 1..Len(dead) : dead[k] \in Ids
  BY ElementOfSeq
<1>4. PICK x \in 0..Len(dead) : x = Excess
  BY <1>2
<1>5. /\ Trimmed \in Seq(Ids) /\ Len(Trimmed) = Len(dead) - x
      /\ \A k \in 1..(Len(dead) - x) : Trimmed[k] = dead[x + k]
  <2> DEFINE new == SubSeq(dead, x + 1, Len(dead))
  <2>1. \A k \in (x + 1)..Len(dead) : dead[k] \in Ids
    BY <1>1, <1>3
  <2>2. /\ new \in Seq(Ids)
        /\ Len(new) = IF x + 1 <= Len(dead) THEN Len(dead) - (x + 1) + 1 ELSE 0
        /\ \A k \in 1..(Len(dead) - (x + 1) + 1) : new[k] = dead[x + 1 + k - 1]
    BY <1>1, <2>1, SubSeqProperties
  <2>3. new = Trimmed
    BY <1>4 DEF Trimmed
  <2> HIDE DEF new
  <2>4. Len(new) = Len(dead) - x
    BY <1>1, <2>2
  <2>5. \A k \in 1..(Len(dead) - x) : new[k] = dead[x + k]
    <3> SUFFICES ASSUME NEW k \in 1..(Len(dead) - x) PROVE new[k] = dead[x + k]
      OBVIOUS
    <3>1. k \in 1..(Len(dead) - (x + 1) + 1) /\ x + 1 + k - 1 = x + k
      BY <1>1
    <3> QED BY <2>2, <3>1
  <2> QED BY <2>2, <2>3, <2>4, <2>5
<1>6. ASSUME NEW id, DeadIn(dead, id), ~(\E k \in 1..x : dead[k] = id)
      PROVE  DeadIn(Trimmed, id)
  <2>1. PICK k \in 1..Len(dead) : dead[k] = id
    BY <1>6 DEF DeadIn
  <2>2. k - x \in 1..(Len(dead) - x) /\ x + (k - x) = k
    BY <1>1, <1>6, <2>1
  <2> QED BY <1>5, <2>1, <2>2 DEF DeadIn
<1> QED BY <1>1, <1>2, <1>3, <1>4, <1>5, <1>6

\* What LREM leaves: exactly the entries with another value.
LEMMA WithoutList ==
  ASSUME dead \in Seq(Ids), NEW ids
  PROVE  /\ Without(ids) \in Seq(Ids) /\ Len(Without(ids)) <= Len(dead)
         /\ \A id : DeadIn(dead, id) /\ id \notin ids => DeadIn(Without(ids), id)
<1> DEFINE kept == {k \in 1..Len(dead) : dead[k] \notin ids}
           upto(k) == {j \in kept : j <= k}
           place(k) == Cardinality(upto(k))
           size == Cardinality(kept)
           at(n) == CHOOSE k \in kept : place(k) = n
           rank == [k \in kept |-> place(k)]
<1>1. Len(dead) \in Nat /\ \A k \in 1..Len(dead) : dead[k] \in Ids
  BY LenProperties, ElementOfSeq
<1>2. IsFiniteSet(1..Len(dead)) /\ Cardinality(1..Len(dead)) = Len(dead)
  <2> DEFINE m == Len(dead)
  <2>1. m \in Nat /\ 1 \in Int /\ m \in Int /\ ~(1 > m /\ m # 0) /\ m - 1 + 1 = m
    BY <1>1
  <2> HIDE DEF m
  <2>2. IsFiniteSet(1..m) /\ Cardinality(1..m) = m
    BY <2>1, FS_Interval
  <2> QED BY <2>2 DEF m
<1>3. IsFiniteSet(kept) /\ size \in Nat /\ size <= Len(dead)
  <2>1. kept \in SUBSET (1..Len(dead))
    OBVIOUS
  <2> HIDE DEF kept
  <2> QED BY <1>2, <2>1, FS_Subset, FS_CardinalityType
<1>4. \A k \in kept : k \in Nat /\ k \in 1..Len(dead)
  BY <1>1
<1>5. \A k \in kept : upto(k) \in SUBSET kept /\ IsFiniteSet(upto(k)) /\ place(k) \in 1..size
  <2> SUFFICES ASSUME NEW k \in kept
               PROVE  upto(k) \in SUBSET kept /\ IsFiniteSet(upto(k)) /\ place(k) \in 1..size
    OBVIOUS
  <2>1. upto(k) \in SUBSET kept /\ k \in upto(k)
    BY <1>4
  <2> HIDE DEF upto, kept
  <2>2. IsFiniteSet(upto(k)) /\ place(k) <= size /\ place(k) \in Nat
    BY <1>3, <2>1, FS_Subset, FS_CardinalityType
  <2>3. place(k) # 0
    BY <2>1, <2>2, FS_EmptySet
  <2> QED BY <1>3, <2>1, <2>2, <2>3
<1>6. \A j, k \in kept : j < k => place(j) < place(k)
  <2> SUFFICES ASSUME NEW j \in kept, NEW k \in kept, j < k PROVE place(j) < place(k)
    OBVIOUS
  <2>1. upto(j) \in SUBSET upto(k) /\ k \in upto(k) /\ k \notin upto(j)
    BY <1>4
  <2>2. IsFiniteSet(upto(k)) /\ place(k) \in 1..size /\ place(j) \in 1..size
    BY <1>5
  <2> HIDE DEF upto, size
  <2>3. place(j) <= place(k) /\ place(j) # place(k)
    BY <2>1, <2>2, FS_Subset
  <2> QED BY <2>2, <2>3
<1>7. \A j, k \in kept : place(j) = place(k) => j = k
  <2> SUFFICES ASSUME NEW j \in kept, NEW k \in kept, place(j) = place(k), j # k PROVE FALSE
    OBVIOUS
  <2>1. j < k \/ k < j
    BY <1>4
  <2>2. place(j) \in 1..size /\ place(k) \in 1..size
    BY <1>5
  <2>3. place(j) < place(k) \/ place(k) < place(j)
    BY <1>6, <2>1
  <2> HIDE DEF place, kept, size
  <2> QED BY <2>2, <2>3
<1>8. rank \in Injection(kept, 1..size)
  <2> HIDE DEF place, kept, size
  <2>1. rank \in [kept -> 1..size] /\ \A j, k \in kept : rank[j] = rank[k] => j = k
    BY <1>5, <1>7
  <2> QED BY <2>1 DEF Injection, IsInjective
<1>9. rank \in Surjection(kept, 1..size)
  <2>1. IsFiniteSet(1..size) /\ Cardinality(1..size) = size
    BY <1>3, FS_Interval
  <2> HIDE DEF rank, kept
  <2> QED BY <1>8, <2>1, FS_Injection
<1>10. \A n \in 1..size : \E k \in kept : place(k) = n
  <2>1. \A n \in 1..size : \E k \in kept : rank[k] = n
    BY <1>9 DEF Surjection
  <2> HIDE DEF place, kept, size
  <2> QED BY <2>1
<1>11. \A n \in 1..size : at(n) \in kept
  <2> HIDE DEF place, kept, size
  <2> QED BY <1>10
<1>12. \A k \in kept : at(place(k)) = k
  <2> SUFFICES ASSUME NEW k \in kept PROVE at(place(k)) = k
    OBVIOUS
  <2> HIDE DEF place, kept
  <2>1. at(place(k)) \in kept /\ place(at(place(k))) = place(k)
    OBVIOUS
  <2> QED BY <1>7, <2>1
<1> DEFINE new == [n \in 1..size |-> dead[at(n)]]
<1>13. new = Without(ids)
  BY DEF Without
<1>14. \A n \in 1..size : dead[at(n)] \in Ids
  <2> HIDE DEF at, size
  <2> QED BY <1>1, <1>4, <1>11
<1>15. new \in Seq(Ids) /\ Len(new) = size
  <2> HIDE DEF at, size
  <2> QED BY <1>3, <1>14
<1>16. ASSUME NEW id, DeadIn(dead, id), id \notin ids
       PROVE  DeadIn(new, id)
  <2>1. PICK k \in 1..Len(dead) : dead[k] = id
    BY <1>16 DEF DeadIn
  <2>2. k \in kept
    BY <1>16, <2>1
  <2>3. place(k) \in 1..size /\ at(place(k)) = k
    BY <1>5, <1>12, <2>2
  <2> HIDE DEF at, place, size, kept
  <2>4. new[place(k)] = id
    BY <2>1, <2>3
  <2> QED BY <1>15, <2>3, <2>4 DEF DeadIn
<1> HIDE DEF new
<1> QED BY <1>3, <1>13, <1>15, <1>16

-----------------------------------------------------------------------------
(* The attempt at the document.                                            *)

TaskFields == {"pc", "by", "attempt", "todo", "size", "left", "failed", "stored"}
AtChunk(t) == t.pc \in {"chunk", "index", "enqueue"}

TaskSound(t) ==
  /\ DOMAIN t = TaskFields
  /\ t.pc \in {"idle", "chunk", "index", "enqueue", "save", "end", "done"}
  /\ t.attempt \in Nat \ {0} /\ t.todo \in SUBSET Chunks
  /\ t.left \in Nat /\ t.size \in Nat /\ t.left <= t.size /\ t.size <= BatchSize
  /\ AtChunk(t) => 1 <= t.left /\ t.left <= Cardinality(t.todo)

\* There is an attempt for each fault at most; a chunk is handed to the sink
\* after it was stored.
TaskInv ==
  /\ TaskSound(task)
  /\ failures \in 0..MaxFailures /\ task.attempt <= failures + 1
  /\ qdrant \subseteq Chunks /\ es \subseteq qdrant /\ missed \subseteq qdrant
  /\ task.pc \in {"index", "enqueue"} => Current \in qdrant

LEMMA LeastChunk ==
  ASSUME NEW S \in SUBSET Nat, S # {}
  PROVE  First(S) \in S
<1>1. PICK n \in S : \A m \in S : ~(<<m, n>> \in OpToRel(<, Nat))
  BY NatLessThanWellFounded, WFMin
<1>2. \A m \in S : ~(m < n)
  BY <1>1 DEF OpToRel
<1>3. \A m \in S : n <= m
  BY <1>2
<1> QED BY <1>3 DEF First

LEMMA ChunksAreFinite ==
  ASSUME FullTextAssumption, NEW S \in SUBSET Chunks
  PROVE  /\ S \in SUBSET Nat /\ IsFiniteSet(S) /\ Cardinality(S) \in Nat
         /\ S # {} <=> Cardinality(S) > 0
<1>1. NumChunks \in Nat \ {0}
  BY DEF FullTextAssumption
<1>2. IsFiniteSet(Chunks)
  BY <1>1, FS_Interval DEF Chunks
<1>3. IsFiniteSet(S) /\ Cardinality(S) \in Nat
  BY <1>2, FS_Subset, FS_CardinalityType
<1>4. S \in SUBSET Nat
  BY <1>1 DEF Chunks
<1> QED BY <1>3, <1>4, FS_EmptySet

LEMMA CurrentWaits ==
  ASSUME FullTextAssumption, TaskSound(task), AtChunk(task)
  PROVE  /\ Current \in task.todo
         /\ Cardinality(task.todo \ {Current}) = Cardinality(task.todo) - 1
<1>1. task.todo \in SUBSET Chunks /\ task.left \in Nat /\ 1 <= task.left
      /\ task.left <= Cardinality(task.todo)
  BY DEF TaskSound
<1>2. task.todo # {} /\ task.todo \in SUBSET Nat /\ IsFiniteSet(task.todo)
  BY <1>1, ChunksAreFinite
<1>3. Current \in task.todo
  BY <1>2, LeastChunk DEF Current
<1> QED BY <1>2, <1>3, FS_RemoveElement

\* On to the next chunk.
LEMMA DoneTask ==
  ASSUME FullTextAssumption, TaskSound(task), AtChunk(task), NEW t, DOMAIN t = TaskFields,
         t.todo = task.todo, t.left = task.left, t.size = task.size, t.attempt = task.attempt
  PROVE  /\ TaskSound(Done(t)) /\ Done(t).pc \in {"chunk", "save"}
         /\ Done(t).attempt = task.attempt /\ Done(t).todo = task.todo \ {Current}
<1> DEFINE u == Done(t)
<1>1. /\ DOMAIN u = TaskFields
      /\ u.pc = IF task.left = 1 THEN "save" ELSE "chunk"
      /\ u.attempt = task.attempt /\ u.todo = task.todo \ {Current}
      /\ u.left = task.left - 1 /\ u.size = task.size
  BY DEF Done, TaskFields
<1> HIDE DEF u
<1>2. Current \in task.todo /\ Cardinality(u.todo) = Cardinality(task.todo) - 1
  BY <1>1, CurrentWaits
<1>3. /\ task.left \in Nat /\ 1 <= task.left /\ task.left <= Cardinality(task.todo)
      /\ task.size \in Nat /\ task.left <= task.size /\ task.size <= BatchSize
      /\ BatchSize \in Nat /\ Cardinality(task.todo) \in Nat
  BY ChunksAreFinite DEF TaskSound, FullTextAssumption
<1>4. u.left \in Nat /\ u.left <= u.size /\ u.left <= Cardinality(u.todo)
      /\ (AtChunk(u) => 1 <= u.left)
  BY <1>1, <1>2, <1>3 DEF AtChunk
<1>5. TaskSound(u)
  BY <1>1, <1>3, <1>4 DEF TaskSound
<1> QED BY <1>1, <1>5 DEF u

\* On to the next batch.
LEMMA NextBatch ==
  ASSUME FullTextAssumption, NEW t, DOMAIN t = TaskFields, t.todo \in SUBSET Chunks,
         t.attempt \in Nat \ {0}
  PROVE  /\ TaskSound(BatchOf(t)) /\ BatchOf(t).pc \in {"chunk", "end"}
         /\ BatchOf(t).attempt = t.attempt /\ BatchOf(t).todo = t.todo
<1> DEFINE u == BatchOf(t)
<1>1. /\ DOMAIN u = TaskFields
      /\ u.pc = IF t.todo = {} THEN "end" ELSE "chunk"
      /\ u.attempt = t.attempt /\ u.todo = t.todo
      /\ u.left = Batch(t.todo) /\ u.size = Batch(t.todo)
  BY DEF BatchOf, TaskFields
<1> HIDE DEF u
<1>2. /\ BatchSize \in Nat \ {0} /\ Cardinality(t.todo) \in Nat
      /\ t.todo # {} <=> Cardinality(t.todo) > 0
  BY ChunksAreFinite DEF FullTextAssumption
<1>3. /\ Batch(t.todo) \in Nat /\ Batch(t.todo) <= BatchSize
      /\ Batch(t.todo) <= Cardinality(t.todo) /\ (t.todo # {} => 1 <= Batch(t.todo))
  BY <1>2 DEF Batch
<1>4. AtChunk(u) => t.todo # {}
  BY <1>1 DEF AtChunk
<1>5. TaskSound(u)
  BY <1>1, <1>2, <1>3, <1>4 DEF TaskSound
<1> QED BY <1>1, <1>5 DEF u

LEMMA NextAttempt ==
  ASSUME FullTextAssumption, TaskSound(task)
  PROVE  /\ TaskSound(Restarted) /\ Restarted.pc = "idle"
         /\ Restarted.attempt = task.attempt + 1
<1>1. /\ DOMAIN Restarted = TaskFields /\ Restarted.pc = "idle"
      /\ Restarted.attempt = task.attempt + 1 /\ Restarted.todo = {}
      /\ Restarted.left = 0 /\ Restarted.size = 0
  BY DEF Restarted, TaskSound, TaskFields
<1> QED BY <1>1 DEF TaskSound, AtChunk, FullTextAssumption

\* What the attempt may do meanwhile to the messages there are: nothing, or
\* end and make room for a newer one, or go on with what is left to do.
TaskStep ==
  /\ qdrant \subseteq qdrant'
  /\ \/ task' = task
     \/ task'.attempt = task.attempt + 1
     \/ task'.attempt = task.attempt /\ task'.pc # "idle"
        /\ (task.pc = "idle" \/ task'.todo \subseteq task.todo)

\* A step that leaves the attempt alone.
LEMMA TaskAlone ==
  ASSUME FullTextAssumption, TaskInv, UNCHANGED <<qdrant, task, missed>>,
         UNCHANGED failures \/ Fault,
         es' = es \/ \E c \in qdrant : es' = es \union {c}
  PROVE  TaskInv' /\ TaskStep
<1>1. TaskSound(task')
  BY DEF TaskInv
<1>2. failures' \in 0..MaxFailures /\ task'.attempt <= failures' + 1
  BY DEF TaskInv, TaskSound, Fault, FullTextAssumption
<1>3. Current' = Current
  BY DEF Current
<1> QED BY <1>1, <1>2, <1>3 DEF TaskInv, TaskStep, TaskSound, AtChunk

\* Whatever a call to the index answers, it takes a fault at most and
\* indexes no other chunk.
LEMMA AnsweredCall ==
  ASSUME NEW c, NEW answer, Answered(c, answer)
  PROVE  UNCHANGED failures \/ Fault
  BY DEF Answered

LEMMA TaskStarts ==
  ASSUME FullTextAssumption, TaskInv, NEW w \in Workers, StartTask(w)
  PROVE  TaskInv' /\ TaskStep
<1> DEFINE t == [task EXCEPT !.by = {w}, !.todo = Todo]
<1>1. DOMAIN t = TaskFields /\ t.todo = Todo /\ t.attempt = task.attempt
      /\ task.attempt \in Nat \ {0} /\ task.pc = "idle"
  BY DEF TaskInv, TaskSound, TaskFields, StartTask
<1>2. Todo \in SUBSET Chunks
  BY DEF Todo
<1>3. task' = BatchOf(t) /\ UNCHANGED <<qdrant, es, missed, failures>>
  BY DEF StartTask, stores
<1> HIDE DEF t
<1>4. /\ TaskSound(task') /\ task'.pc \in {"chunk", "end"} /\ task'.attempt = task.attempt
  BY <1>1, <1>2, <1>3, NextBatch
<1>5. TaskInv'
  BY <1>3, <1>4 DEF TaskInv, TaskSound, AtChunk
<1> QED BY <1>1, <1>3, <1>4, <1>5 DEF TaskStep

LEMMA TaskRestarts ==
  ASSUME FullTextAssumption, TaskInv, Fault, task' = Restarted, es' = es,
         qdrant \subseteq qdrant', qdrant' \subseteq Chunks, missed' \subseteq qdrant'
  PROVE  TaskInv' /\ TaskStep
<1>1. TaskSound(task') /\ task'.pc = "idle" /\ task'.attempt = task.attempt + 1
  BY NextAttempt DEF TaskInv
<1>2. failures' \in 0..MaxFailures /\ task'.attempt <= failures' + 1
  BY <1>1 DEF TaskInv, TaskSound, Fault, FullTextAssumption
<1> QED BY <1>1, <1>2 DEF TaskInv, TaskStep, TaskSound, AtChunk

LEMMA TaskGoesOn ==
  ASSUME FullTextAssumption, TaskInv, AtChunk(task), NEW t, DOMAIN t = TaskFields,
         t.todo = task.todo, t.left = task.left, t.size = task.size, t.attempt = task.attempt,
         task' = Done(t), UNCHANGED failures \/ Fault,
         qdrant \subseteq qdrant', qdrant' \subseteq Chunks,
         es' \subseteq qdrant', missed' \subseteq qdrant'
  PROVE  TaskInv' /\ TaskStep
<1>1. /\ TaskSound(task') /\ task'.pc \in {"chunk", "save"}
      /\ task'.attempt = task.attempt /\ task'.todo \subseteq task.todo
  BY DoneTask DEF TaskInv
<1>2. failures' \in 0..MaxFailures /\ task'.attempt <= failures' + 1
  BY <1>1 DEF TaskInv, TaskSound, Fault, FullTextAssumption
<1>3. task'.pc \notin {"index", "enqueue", "idle"}
  BY <1>1
<1>4. TaskInv'
  BY <1>1, <1>2, <1>3 DEF TaskInv
<1> QED BY <1>1, <1>3, <1>4 DEF TaskStep

LEMMA ChunkStored ==
  ASSUME FullTextAssumption, TaskInv, StoreChunk
  PROVE  TaskInv' /\ TaskStep
<1>1. task.pc = "chunk" /\ AtChunk(task) /\ UNCHANGED es /\ DOMAIN task = TaskFields
  BY DEF StoreChunk, AtChunk, TaskInv, TaskSound
<1>0. Current \in Chunks
  BY <1>1, CurrentWaits DEF TaskInv, TaskSound
<1>9. /\ qdrant \subseteq qdrant' /\ qdrant' \subseteq Chunks
      /\ es' \subseteq qdrant' /\ missed' \subseteq qdrant'
  BY <1>0, <1>1 DEF StoreChunk, TaskInv
<1>2. CASE /\ qdrant' = qdrant \union {Current} /\ UNCHANGED <<failures, missed>>
           /\ task' = [task EXCEPT !.pc = "index", !.stored = TRUE]
  <2>1. /\ DOMAIN task' = TaskFields /\ task'.pc = "index" /\ task'.attempt = task.attempt
        /\ task'.todo = task.todo /\ task'.left = task.left /\ task'.size = task.size
    BY <1>1, <1>2 DEF TaskFields
  <2>2. TaskSound(task')
    BY <1>1, <2>1 DEF TaskInv, TaskSound, AtChunk
  <2>3. Current' = Current
    BY <2>1 DEF Current
  <2>5. TaskInv'
    BY <1>0, <1>1, <1>2, <2>1, <2>2, <2>3 DEF TaskInv
  <2> QED BY <1>2, <2>1, <2>5 DEF TaskStep
<1>3. CASE Fault /\ task' = Restarted
  BY <1>1, <1>3, <1>9, TaskRestarts
<1>4. CASE Fault /\ task' = Done([task EXCEPT !.failed = @ + 1])
  <2> DEFINE t == [task EXCEPT !.failed = @ + 1]
  <2>1. /\ DOMAIN t = TaskFields /\ t.attempt = task.attempt
        /\ t.todo = task.todo /\ t.left = task.left /\ t.size = task.size
    BY <1>1 DEF TaskFields
  <2> HIDE DEF t
  <2>2. task' = Done(t)
    BY <1>4 DEF t
  <2> QED BY <1>1, <1>4, <1>9, <2>1, <2>2, TaskGoesOn
<1> QED BY <1>2, <1>3, <1>4 DEF StoreChunk

LEMMA ChunkIndexed ==
  ASSUME FullTextAssumption, TaskInv, NEW answer, IndexNow(answer)
  PROVE  TaskInv' /\ TaskStep
<1>1. /\ task.pc = "index" /\ AtChunk(task) /\ UNCHANGED <<qdrant, missed>>
      /\ DOMAIN task = TaskFields /\ Current \in qdrant /\ Answered(Current, answer)
  BY DEF IndexNow, AtChunk, TaskInv, TaskSound
<1>2. (es' = es \/ es' = es \union {Current}) /\ es' \subseteq qdrant
  BY <1>1 DEF IndexNow, Put, TaskInv
<1>3. UNCHANGED failures \/ Fault
  BY <1>1, AnsweredCall
<1>4. CASE task' = Done(task)
  BY <1>1, <1>2, <1>3, <1>4, TaskGoesOn DEF TaskInv
<1>5. CASE Step("enqueue")
  <2>1. /\ DOMAIN task' = TaskFields /\ task'.pc = "enqueue" /\ task'.attempt = task.attempt
        /\ task'.todo = task.todo /\ task'.left = task.left /\ task'.size = task.size
    BY <1>1, <1>5 DEF TaskFields, Step
  <2>2. TaskSound(task')
    BY <1>1, <2>1 DEF TaskInv, TaskSound, AtChunk
  <2>3. Current' = Current
    BY <2>1 DEF Current
  <2>4. failures' \in 0..MaxFailures /\ task'.attempt <= failures' + 1
    BY <1>3, <2>1 DEF TaskInv, TaskSound, Fault, FullTextAssumption
  <2>5. TaskInv'
    BY <1>1, <1>2, <2>1, <2>2, <2>3, <2>4 DEF TaskInv
  <2> QED BY <1>1, <2>1, <2>5 DEF TaskStep
<1> QED BY <1>4, <1>5 DEF IndexNow

LEMMA ChunkEnqueued ==
  ASSUME FullTextAssumption, TaskInv, EnqueueNow
  PROVE  TaskInv' /\ TaskStep
<1>1. /\ AtChunk(task) /\ UNCHANGED <<qdrant, es>> /\ DOMAIN task = TaskFields
      /\ task' = Done(task) /\ Current \in qdrant
  BY DEF EnqueueNow, AtChunk, TaskInv, TaskSound
<1>2. UNCHANGED failures \/ Fault
  BY DEF EnqueueNow
<1>3. missed' \subseteq qdrant
  BY <1>1 DEF EnqueueNow, TaskInv
<1> QED BY <1>1, <1>2, <1>3, TaskGoesOn DEF TaskInv

LEMMA CheckpointSaved ==
  ASSUME FullTextAssumption, TaskInv, SaveCheckpoint
  PROVE  TaskInv' /\ TaskStep
<1>1. /\ DOMAIN task = TaskFields /\ task.todo \in SUBSET Chunks /\ task.attempt \in Nat \ {0}
      /\ task' = BatchOf(task) /\ UNCHANGED <<qdrant, es, missed>>
  BY DEF SaveCheckpoint, TaskInv, TaskSound
<1>2. UNCHANGED failures \/ Fault
  BY DEF SaveCheckpoint
<1>3. /\ TaskSound(task') /\ task'.pc \in {"chunk", "end"}
      /\ task'.attempt = task.attempt /\ task'.todo = task.todo
  BY <1>1, NextBatch
<1>4. failures' \in 0..MaxFailures /\ task'.attempt <= failures' + 1
  BY <1>2, <1>3 DEF TaskInv, TaskSound, Fault, FullTextAssumption
<1>5. TaskInv'
  BY <1>1, <1>3, <1>4 DEF TaskInv
<1> QED BY <1>1, <1>3, <1>5 DEF TaskStep

LEMMA TaskEnds ==
  ASSUME FullTextAssumption, TaskInv, EndTask
  PROVE  TaskInv' /\ TaskStep
<1>1. /\ UNCHANGED <<qdrant, es, missed, failures>> /\ DOMAIN task = TaskFields
      /\ task' = [task EXCEPT !.pc = "done", !.by = {}]
  BY DEF EndTask, TaskInv, TaskSound
<1>2. /\ DOMAIN task' = TaskFields /\ task'.pc = "done" /\ task'.attempt = task.attempt
      /\ task'.todo = task.todo /\ task'.left = task.left /\ task'.size = task.size
  BY <1>1 DEF TaskFields
<1>3. TaskSound(task')
  BY <1>2 DEF TaskInv, TaskSound, AtChunk
<1>4. TaskInv'
  BY <1>1, <1>2, <1>3 DEF TaskInv
<1> QED BY <1>1, <1>2, <1>4 DEF TaskStep

LEMMA TaskCrashes ==
  ASSUME FullTextAssumption, TaskInv, NEW w \in Workers, Crash(w)
  PROVE  TaskInv' /\ TaskStep
<1>1. Fault /\ UNCHANGED <<qdrant, es>>
  BY DEF Crash, stores
<1>2. CASE w \in task.by
  <2>1. missed' \subseteq qdrant
    BY <1>2 DEF Crash, TaskInv
  <2>2. task' = Restarted
    BY <1>2 DEF Crash
  <2>3. qdrant \subseteq qdrant' /\ qdrant' \subseteq Chunks /\ missed' \subseteq qdrant'
    BY <1>1, <2>1 DEF TaskInv
  <2> QED BY <1>1, <2>2, <2>3, TaskRestarts
<1>3. CASE w \notin task.by
  BY <1>1, <1>3, TaskAlone DEF Crash
<1> QED BY <1>2, <1>3

-----------------------------------------------------------------------------
(* The messages.                                                           *)

\* A message in the queue or on its way back was queued by an attempt of
\* before, or by this one for a chunk it is done with.
Belongs(id) ==
  /\ id \in Ids /\ id[1] \in qdrant /\ id[2] <= task.attempt
  /\ id[2] = task.attempt => task.pc # "idle" /\ id[1] \notin task.todo

ReplayState(s) ==
  \/ s \in {[pc |-> "idle"], [pc |-> "peeked"], [pc |-> "trim"]}
  \/ s \in [pc : {"index", "requeue", "push"}, m : Message]
Carries(s) == s.pc \in {"index", "requeue"}

\* A message is in one place at a time.
MessagesInv ==
  /\ replay = [w \in Workers |-> replay[w]] /\ \A w \in Workers : ReplayState(replay[w])
  /\ queue \subseteq Message /\ \A m \in queue : m.retry < MaxRetries /\ Belongs(m.id)
  /\ \A w \in Workers : Carries(replay[w]) =>
       /\ replay[w].m.retry < MaxRetries /\ Belongs(replay[w].m.id)
       /\ \A m \in queue : m.id # replay[w].m.id
       /\ \A v \in Workers \ {w} : Carries(replay[v]) => replay[v].m.id # replay[w].m.id
  /\ \A m, other \in queue : m.id = other.id => m = other

LEMMA BelongsForEver ==
  ASSUME FullTextAssumption, TaskInv, TaskStep, NEW id, Belongs(id)
  PROVE  Belongs(id)'
<1>1. id[2] \in Nat /\ task.attempt \in Nat
  BY DEF Belongs, Ids, Attempts, TaskInv, TaskSound, FullTextAssumption
<1> QED BY <1>1 DEF TaskStep, Belongs

\* No message is touched.
LEMMA MessagesAlone ==
  ASSUME FullTextAssumption, TaskInv, TaskStep, MessagesInv, UNCHANGED <<queue, replay>>
  PROVE  MessagesInv'
<1>1. \A id : Belongs(id) => Belongs(id)'
  BY BelongsForEver
<1> HIDE DEF Belongs
<1> QED BY <1>1 DEF MessagesInv

\* A worker's loop moves on: what it carries then it carried before, or took
\* from the queue, or put nothing back but what it carried.
LEMMA MessagesMove ==
  ASSUME FullTextAssumption, TaskInv, TaskStep, MessagesInv, NEW w \in Workers, NEW s,
         replay' = [replay EXCEPT ![w] = s], ReplayState(s),
         queue' \subseteq Message,
         \A m \in queue' : m \in queue
                           \/ (Carries(replay[w]) /\ m = replay[w].m /\ ~Carries(s)),
         Carries(s) => /\ s.m.retry < MaxRetries
                       /\ \/ Carries(replay[w]) /\ s.m.id = replay[w].m.id
                          \/ \E m \in queue : s.m.id = m.id /\ m \notin queue'
  PROVE  MessagesInv'
<1>1. /\ replay'[w] = s /\ \A v \in Workers \ {w} : replay'[v] = replay[v]
      /\ replay' = [v \in Workers |-> replay'[v]]
  BY DEF MessagesInv
<1>2. \A id : Belongs(id) => Belongs(id)'
  BY BelongsForEver
<1> HIDE DEF Belongs
<1>3. \A m \in queue' : m.retry < MaxRetries /\ Belongs(m.id)'
  BY <1>2 DEF MessagesInv
<1>4. \A m, other \in queue' : m.id = other.id => m = other
  BY DEF MessagesInv
<1>5. Carries(s) => /\ s.m.retry < MaxRetries /\ Belongs(s.m.id)'
                    /\ \A m \in queue' : m.id # s.m.id
                    /\ \A v \in Workers \ {w} : Carries(replay[v]) => replay[v].m.id # s.m.id
  BY <1>2 DEF MessagesInv
<1>6. \A v \in Workers \ {w} : Carries(replay[v]) =>
         /\ replay[v].m.retry < MaxRetries
         /\ \A id : id = replay[v].m.id => Belongs(id)'
         /\ \A m \in queue' : m.id # replay[v].m.id
         /\ \A u \in Workers \ {v, w} : Carries(replay[u]) => replay[u].m.id # replay[v].m.id
  BY <1>2 DEF MessagesInv
<1>9. PICK R, Q : R = replay' /\ Q = queue'
  OBVIOUS
<1>7. ASSUME NEW v \in Workers, Carries(R[v])
      PROVE  /\ R[v].m.retry < MaxRetries /\ Belongs(R[v].m.id)'
             /\ \A m \in Q : m.id # R[v].m.id
             /\ \A u \in Workers \ {v} : Carries(R[u]) => R[u].m.id # R[v].m.id
  <2> HIDE DEF Carries
  <2>1. CASE v = w
    BY <1>1, <1>5, <1>7, <1>9, <2>1
  <2>2. CASE v # w
    BY <1>1, <1>5, <1>6, <1>7, <1>9, <2>2
  <2> QED BY <2>1, <2>2
<1>8. \A v \in Workers : ReplayState(R[v])
  BY <1>1, <1>9 DEF MessagesInv
<1>10. R = [v \in Workers |-> R[v]]
  BY <1>1, <1>9
<1> HIDE DEF Carries
<1> QED BY <1>3, <1>4, <1>7, <1>8, <1>9, <1>10 DEF MessagesInv

\* The sink queues a chunk: by this attempt, and for the first time.
LEMMA MessagesQueued ==
  ASSUME FullTextAssumption, TaskInv, TaskStep, MessagesInv, EnqueueNow
  PROVE  MessagesInv'
<1> DEFINE queued == [id |-> <<Current, task.attempt>>, retry |-> 0, due |-> FALSE]
<1>0. PICK new : new = queued
  OBVIOUS
<1>1. CASE queue' = queue
  BY <1>1, MessagesAlone DEF EnqueueNow
<1>2. CASE queue' = queue \union {new}
  <2>1. /\ task.pc = "enqueue" /\ task' = Done(task) /\ replay' = replay /\ qdrant' = qdrant
        /\ AtChunk(task) /\ TaskSound(task) /\ Current \in qdrant /\ DOMAIN task = TaskFields
    BY DEF EnqueueNow, AtChunk, TaskInv, TaskSound
  <2>2. Current \in task.todo /\ task.todo \in SUBSET Chunks /\ task.attempt \in Attempts
    BY <2>1, CurrentWaits DEF TaskInv, TaskSound, Attempts, FullTextAssumption
  <2>3. new \in Message /\ new.id \in Ids /\ new.retry < MaxRetries
        /\ new.id[1] = Current /\ new.id[2] = task.attempt
    BY <1>0, <2>2 DEF Message, Ids, FullTextAssumption
  <2>4. \A id : Belongs(id) => id # new.id
    BY <2>2, <2>3 DEF Belongs
  <2>5. task'.pc \in {"chunk", "save"} /\ task'.attempt = task.attempt
        /\ task'.todo = task.todo \ {Current}
    BY <2>1, DoneTask
  <2>6. Belongs(new.id)'
    BY <2>1, <2>2, <2>3, <2>5 DEF Belongs, Attempts, FullTextAssumption
  <2>7. \A id : Belongs(id) => Belongs(id)'
    BY BelongsForEver
  <2> HIDE DEF Belongs
  <2>8. /\ queue' \subseteq Message
        /\ \A m \in queue' : m.retry < MaxRetries /\ Belongs(m.id)'
        /\ \A m, other \in queue' : m.id = other.id => m = other
    BY <1>2, <2>3, <2>4, <2>6, <2>7 DEF MessagesInv
  <2>9. ASSUME NEW w \in Workers, Carries(replay[w])
        PROVE  /\ replay[w].m.retry < MaxRetries
               /\ \A id : id = replay[w].m.id => Belongs(id)'
               /\ \A m \in queue' : m.id # replay[w].m.id
               /\ \A v \in Workers \ {w} : Carries(replay[v]) => replay[v].m.id # replay[w].m.id
    BY <1>2, <2>3, <2>4, <2>7, <2>9 DEF MessagesInv
  <2> HIDE DEF Carries
  <2> QED BY <2>1, <2>8, <2>9 DEF MessagesInv
<1> QED BY <1>0, <1>1, <1>2 DEF EnqueueNow

\* Time passes.
LEMMA MessagesDue ==
  ASSUME FullTextAssumption, TaskInv, TaskStep, MessagesInv, Tick
  PROVE  MessagesInv'
<1>1. /\ queue' = {[m EXCEPT !.due = TRUE] : m \in queue} /\ replay' = replay
      /\ queue \subseteq Message
  BY DEF Tick, MessagesInv
<1>2. \A m \in queue : LET n == [m EXCEPT !.due = TRUE] IN
         n \in Message /\ n.id = m.id /\ n.retry = m.retry
  BY <1>1 DEF Message
<1>3. \A n \in queue' : \E m \in queue : n = [m EXCEPT !.due = TRUE]
                                        /\ n \in Message /\ n.id = m.id /\ n.retry = m.retry
  BY <1>1, <1>2
<1>4. \A id : Belongs(id) => Belongs(id)'
  BY BelongsForEver
<1> HIDE DEF Belongs
<1>5. \A n \in queue' : n \in Message /\ n.retry < MaxRetries /\ Belongs(n.id)'
  BY <1>3, <1>4 DEF MessagesInv
<1>6. ASSUME NEW n \in queue', NEW other \in queue', n.id = other.id
      PROVE  n = other
  <2>1. PICK m \in queue : n = [m EXCEPT !.due = TRUE] /\ n.id = m.id
    BY <1>3
  <2>2. PICK o \in queue : other = [o EXCEPT !.due = TRUE] /\ other.id = o.id
    BY <1>3
  <2>3. m = o
    BY <1>6, <2>1, <2>2 DEF MessagesInv
  <2> QED BY <2>1, <2>2, <2>3
<1>7. ASSUME NEW w \in Workers, Carries(replay[w])
      PROVE  /\ replay[w].m.retry < MaxRetries
             /\ \A id : id = replay[w].m.id => Belongs(id)'
             /\ \A n \in queue' : n.id # replay[w].m.id
             /\ \A v \in Workers \ {w} : Carries(replay[v]) => replay[v].m.id # replay[w].m.id
  BY <1>3, <1>4, <1>7 DEF MessagesInv
<1> HIDE DEF Carries
<1> QED BY <1>1, <1>5, <1>6, <1>7 DEF MessagesInv

-----------------------------------------------------------------------------
(* The dead-letter list, and what is known of each gap.                    *)

DrainState(s) ==
  \/ s = Idle
  \/ DOMAIN s = {"pc", "offset", "ackable"} /\ \A id \in s.ackable : id[1] \in es

\* The list is over its cap only while somebody is about to trim it, and a
\* drain acknowledges only what the index holds.
ListInv ==
  /\ dead \in Seq(Ids) /\ lost \subseteq Ids
  /\ (\A w \in Workers : replay[w].pc # "trim") => Len(dead) <= DeadLetterMax
  /\ drain = [w \in Workers |-> drain[w]] /\ \A w \in Workers : DrainState(drain[w])

\* Where the description of a gap can be.
HeldBy(s) == IF s.pc \in {"index", "requeue", "push"} THEN {s.m.id} ELSE {}
Known(id) ==
  /\ id \in Ids
  /\ \/ \E m \in queue : m.id = id
     \/ DeadIn(dead, id)
     \/ \E w \in Workers : id \in HeldBy(replay[w])
     \/ id \in lost
InTransit(c) == task.pc \in {"index", "enqueue"} /\ Current = c

GapsInv ==
  \A c \in qdrant \ es :
    (\E id \in Ids : Known(id) /\ id[1] = c) \/ c \in missed \/ InTransit(c)

\* No step forgets a gap that is not filled.
NoneForgotten == \A id : Known(id) => Known(id)' \/ id[1] \in es'

FullTextInv == TaskInv /\ MessagesInv /\ ListInv /\ GapsInv

LEMMA ListAlone ==
  ASSUME ListInv, UNCHANGED <<dead, lost, drain>>, es \subseteq es',
         \A w \in Workers : replay[w].pc = "trim" => replay'[w].pc = "trim"
  PROVE  ListInv'
<1>1. \A d : DrainState(d) => DrainState(d)'
  BY DEF DrainState
<1> QED BY <1>1 DEF ListInv

LEMMA LoopMoves ==
  ASSUME MessagesInv, NEW w \in Workers, NEW s, replay' = [replay EXCEPT ![w] = s],
         lost \subseteq lost',
         \A m \in queue : (\E n \in queue' : n.id = m.id) \/ m.id \in HeldBy(s),
         \A id : DeadIn(dead, id) => DeadIn(dead, id)' \/ id \in lost' \/ id[1] \in es',
         \A id \in HeldBy(replay[w]) :
           \/ id \in HeldBy(s) \/ (\E n \in queue' : n.id = id)
           \/ DeadIn(dead, id)' \/ id \in lost' \/ id[1] \in es'
  PROVE  NoneForgotten
<1>1. replay'[w] = s /\ \A v \in Workers \ {w} : replay'[v] = replay[v]
  BY DEF MessagesInv
<1>2. \A v \in Workers \ {w} : HeldBy(replay'[v]) = HeldBy(replay[v])
  BY <1>1 DEF HeldBy
<1>3. HeldBy(replay'[w]) = HeldBy(s)
  BY <1>1
<1> HIDE DEF HeldBy
<1> QED BY <1>2, <1>3 DEF NoneForgotten, Known

LEMMA NothingMoves ==
  ASSUME UNCHANGED <<dead, lost, replay>>, \A m \in queue : \E n \in queue' : n.id = m.id
  PROVE  NoneForgotten
  BY DEF NoneForgotten, Known, HeldBy, DeadIn

\* A step of a worker's loops.
LEMMA GapsKept ==
  ASSUME FullTextInv, NoneForgotten, UNCHANGED <<qdrant, task, missed>>, es \subseteq es'
  PROVE  GapsInv'
<1>1. \A c : InTransit(c) => InTransit(c)'
  BY DEF InTransit, Current
<1> HIDE DEF InTransit, Known
<1>2. ASSUME NEW c \in qdrant' \ es'
      PROVE  (\E id \in Ids : Known(id)' /\ id[1] = c) \/ c \in missed' \/ InTransit(c)'
  BY <1>1, <1>2 DEF FullTextInv, GapsInv, NoneForgotten
<1> QED BY <1>2 DEF GapsInv

-----------------------------------------------------------------------------
(* The steps of the replay loop.                                           *)

LEMMA HeldMessage ==
  ASSUME MessagesInv, NEW w \in Workers, replay[w].pc \in {"index", "requeue", "push"}
  PROVE  replay[w].m \in Message /\ replay[w].m.id \in Ids
  BY DEF MessagesInv, ReplayState, Message

LEMMA PeekKeeps ==
  ASSUME FullTextAssumption, FullTextInv, NEW w \in Workers, Peek(w)
  PROVE  FullTextInv'
<1> DEFINE s == [pc |-> "peeked"]
<1>1. /\ UNCHANGED <<qdrant, es, queue, dead, task, drain, failures, missed, lost>>
      /\ replay' = [replay EXCEPT ![w] = s] /\ replay[w].pc = "idle"
  BY DEF Peek, Goes, stores
<1>2. ReplayState(s) /\ ~Carries(s) /\ HeldBy(s) = {} /\ HeldBy(replay[w]) = {}
  BY <1>1 DEF ReplayState, Carries, HeldBy
<1> HIDE DEF s
<1>3. TaskInv' /\ TaskStep
  BY <1>1, TaskAlone DEF FullTextInv
<1>4. MessagesInv'
  BY <1>1, <1>2, <1>3, MessagesMove DEF FullTextInv, MessagesInv
<1>5. ListInv'
  BY <1>1, ListAlone DEF FullTextInv, MessagesInv
<1>6. NoneForgotten
  BY <1>1, <1>2, LoopMoves DEF FullTextInv
<1> QED BY <1>1, <1>3, <1>4, <1>5, <1>6, GapsKept DEF FullTextInv

LEMMA PopMinKeeps ==
  ASSUME FullTextAssumption, FullTextInv, NEW w \in Workers, PopMin(w)
  PROVE  FullTextInv'
<1>1. /\ UNCHANGED <<qdrant, es, dead, task, drain, failures, missed, lost>>
      /\ replay[w].pc = "peeked"
  BY DEF PopMin
<1>2. HeldBy(replay[w]) = {}
  BY <1>1 DEF HeldBy
<1>3. TaskInv' /\ TaskStep
  BY <1>1, TaskAlone DEF FullTextInv
<1>4. PICK s : /\ replay' = [replay EXCEPT ![w] = s] /\ ReplayState(s) /\ queue' \subseteq queue
               /\ \/ ~Carries(s) /\ queue' = queue
                  \/ \E m \in queue : /\ queue' = queue \ {m} /\ s.m = m
                                      /\ m.id \in HeldBy(s)
  <2>1. CASE queue = {} /\ Goes(w, Idle) /\ UNCHANGED queue
    <3>1. PICK s : s = Idle
      OBVIOUS
    <3>2. ReplayState(s) /\ ~Carries(s)
      BY <3>1 DEF Idle, ReplayState, Carries
    <3> QED BY <2>1, <3>1, <3>2 DEF Goes
  <2>2. CASE \E m \in queue :
               /\ queue' = queue \ {m}
               /\ Goes(w, [pc |-> IF m.due THEN "index" ELSE "requeue", m |-> m])
    <3>1. PICK m \in queue : /\ queue' = queue \ {m}
            /\ Goes(w, [pc |-> IF m.due THEN "index" ELSE "requeue", m |-> m])
      BY <2>2
    <3>2. m \in Message
      BY DEF FullTextInv, MessagesInv
    <3>3. PICK s : s = [pc |-> IF m.due THEN "index" ELSE "requeue", m |-> m]
      OBVIOUS
    <3>4. ReplayState(s) /\ s.m = m /\ m.id \in HeldBy(s)
      BY <3>2, <3>3 DEF ReplayState, HeldBy
    <3> QED BY <3>1, <3>3, <3>4 DEF Goes
  <2> QED BY <2>1, <2>2 DEF PopMin
<1>5. MessagesInv'
  <2>1. queue' \subseteq Message /\ \A m \in queue' : m \in queue
    BY <1>4 DEF FullTextInv, MessagesInv
  <2>2. Carries(s) => s.m.retry < MaxRetries /\ \E m \in queue : s.m.id = m.id /\ m \notin queue'
    BY <1>4 DEF FullTextInv, MessagesInv
  <2> QED BY <1>3, <1>4, <2>1, <2>2, MessagesMove DEF FullTextInv
<1>6. ListInv'
  BY <1>1, <1>4, ListAlone DEF FullTextInv, MessagesInv
<1>7. NoneForgotten
  BY <1>1, <1>2, <1>4, LoopMoves DEF FullTextInv
<1> QED BY <1>1, <1>3, <1>5, <1>6, <1>7, GapsKept DEF FullTextInv

LEMMA AfterErrorState ==
  ASSUME FullTextAssumption, NEW m \in Message, m.retry < MaxRetries, NEW answer
  PROVE  LET s == AfterError(m, answer) IN
         /\ ReplayState(s) /\ s.pc \in {"push", "requeue"} /\ s.m.id = m.id
         /\ s.pc = "requeue" => s.m.retry < MaxRetries
<1> DEFINE up == [m EXCEPT !.retry = @ + 1]
           back == [m EXCEPT !.retry = @ + 1, !.due = FALSE]
<1>1. m.retry \in Nat /\ MaxRetries \in Nat
  BY DEF Message, FullTextAssumption
<1>2. up \in Message /\ up.id = m.id
  BY <1>1 DEF Message
<1>3. back \in Message /\ back.id = m.id /\ back.retry = m.retry + 1
  <2>1. back = [up EXCEPT !.due = FALSE]
    BY DEF Message
  <2>2. up \in Message /\ up.id = m.id /\ up.retry = m.retry + 1
    BY <1>1 DEF Message
  <2> HIDE DEF up, back
  <2> QED BY <2>1, <2>2 DEF Message
<1> HIDE DEF up, back
<1>4. \/ AfterError(m, answer) = [pc |-> "push", m |-> m]
      \/ AfterError(m, answer) = [pc |-> "push", m |-> up]
      \/ m.retry + 1 < MaxRetries /\ AfterError(m, answer) = [pc |-> "requeue", m |-> back]
  BY <1>1 DEF AfterError, up, back
<1> QED BY <1>2, <1>3, <1>4 DEF ReplayState

LEMMA ReplayKeeps ==
  ASSUME FullTextAssumption, FullTextInv, NEW w \in Workers, NEW answer, Replay(w, answer)
  PROVE  FullTextInv'
<1> DEFINE m == replay[w].m
           s == IF answer = "ok" THEN Idle ELSE AfterError(m, answer)
<1>1. /\ UNCHANGED <<qdrant, queue, dead, task, drain, missed, lost>>
      /\ replay[w].pc = "index" /\ replay' = [replay EXCEPT ![w] = s]
      /\ Answered(m.id[1], answer) /\ es' = Put(m.id[1], answer)
  BY DEF Replay, Goes
<1>2. /\ m \in Message /\ m.id \in Ids /\ m.retry < MaxRetries /\ m.id[1] \in qdrant
      /\ HeldBy(replay[w]) = {m.id} /\ Carries(replay[w])
  BY <1>1, HeldMessage DEF FullTextInv, MessagesInv, Carries, Belongs, HeldBy
<1>3. /\ es' = es \/ es' = es \union {m.id[1]}
      /\ answer = "ok" => m.id[1] \in es'
  BY <1>1 DEF Put
<1>4. TaskInv' /\ TaskStep
  BY <1>1, <1>2, <1>3, TaskAlone, AnsweredCall DEF FullTextInv
<1>5. /\ ReplayState(s) /\ (Carries(s) => s.m.retry < MaxRetries /\ s.m.id = m.id)
      /\ answer # "ok" => HeldBy(s) = {m.id}
  <2>1. CASE answer = "ok"
    BY <2>1 DEF Idle, ReplayState, Carries
  <2>2. CASE answer # "ok"
    BY <1>2, <2>2, AfterErrorState DEF Carries, HeldBy
  <2> QED BY <2>1, <2>2
<1> HIDE DEF s
<1>6. MessagesInv'
  BY <1>1, <1>2, <1>4, <1>5, MessagesMove DEF FullTextInv, MessagesInv
<1>7. ListInv'
  BY <1>1, <1>3, ListAlone DEF FullTextInv, MessagesInv
<1>8. NoneForgotten
  BY <1>1, <1>2, <1>3, <1>5, LoopMoves DEF FullTextInv
<1> QED BY <1>1, <1>3, <1>4, <1>6, <1>7, <1>8, GapsKept DEF FullTextInv

LEMMA RequeueKeeps ==
  ASSUME FullTextAssumption, FullTextInv, NEW w \in Workers, Requeue(w)
  PROVE  FullTextInv'
<1> DEFINE m == replay[w].m
<1>1. /\ UNCHANGED <<qdrant, es, dead, task, drain, missed>>
      /\ replay[w].pc = "requeue" /\ replay' = [replay EXCEPT ![w] = Idle]
      /\ \/ queue' = queue \union {m} /\ UNCHANGED <<failures, lost>>
         \/ Fault /\ lost' = lost \union {m.id} /\ UNCHANGED queue
  BY DEF Requeue, Goes
<1>2. /\ m \in Message /\ m.id \in Ids /\ HeldBy(replay[w]) = {m.id} /\ Carries(replay[w])
  BY <1>1, HeldMessage DEF FullTextInv, Carries, HeldBy
<1>3. ReplayState(Idle) /\ ~Carries(Idle) /\ HeldBy(Idle) = {} /\ Idle.pc # "trim"
  BY DEF Idle, ReplayState, Carries, HeldBy
<1>4. TaskInv' /\ TaskStep
  BY <1>1, TaskAlone DEF FullTextInv
<1>5. MessagesInv'
  BY <1>1, <1>2, <1>3, <1>4, MessagesMove DEF FullTextInv, MessagesInv
<1>6. ListInv'
  <2>1. \A v \in Workers : replay[v].pc = "trim" => replay'[v].pc = "trim"
    BY <1>1 DEF FullTextInv, MessagesInv
  <2>2. \A d : DrainState(d) => DrainState(d)'
    BY <1>1 DEF DrainState
  <2> QED BY <1>1, <1>2, <2>1, <2>2 DEF FullTextInv, ListInv
<1>7. NoneForgotten
  BY <1>1, <1>2, LoopMoves DEF FullTextInv
<1> QED BY <1>1, <1>4, <1>5, <1>6, <1>7, GapsKept DEF FullTextInv

LEMMA PushKeeps ==
  ASSUME FullTextAssumption, FullTextInv, NEW w \in Workers, Push(w)
  PROVE  FullTextInv'
<1> DEFINE m == replay[w].m
           trim == [pc |-> "trim"]
<1>1. /\ UNCHANGED <<qdrant, es, queue, task, drain, missed>> /\ replay[w].pc = "push"
      /\ \/ /\ dead' = Append(dead, m.id) /\ UNCHANGED <<failures, lost>>
            /\ replay' = [replay EXCEPT ![w] = trim]
         \/ /\ Fault /\ lost' = lost \union {m.id} /\ UNCHANGED dead
            /\ replay' = [replay EXCEPT ![w] = Idle]
  BY DEF Push, Goes
<1>2. m.id \in Ids /\ HeldBy(replay[w]) = {m.id} /\ ~Carries(replay[w])
  BY <1>1, HeldMessage DEF FullTextInv, Carries, HeldBy
<1>3. \A s \in {Idle, trim} : ReplayState(s) /\ ~Carries(s) /\ HeldBy(s) = {}
  BY DEF Idle, ReplayState, Carries, HeldBy
<1>4. TaskInv' /\ TaskStep
  BY <1>1, TaskAlone DEF FullTextInv
<1>5. PICK s \in {Idle, trim} : replay' = [replay EXCEPT ![w] = s]
  BY <1>1
<1>6. MessagesInv'
  BY <1>1, <1>3, <1>4, <1>5, MessagesMove DEF FullTextInv, MessagesInv
<1>7. CASE dead' = Append(dead, m.id) /\ UNCHANGED lost /\ replay' = [replay EXCEPT ![w] = trim]
  <2>1. /\ dead' \in Seq(Ids) /\ DeadIn(dead', m.id)
        /\ \A id : DeadIn(dead, id) => DeadIn(dead', id)
    BY <1>2, <1>7, Pushed DEF FullTextInv, ListInv
  <2>2. replay'[w].pc = "trim"
    BY <1>7 DEF FullTextInv, MessagesInv
  <2>3. \A d : DrainState(d) => DrainState(d)'
    BY <1>1 DEF DrainState
  <2>4. ListInv'
    BY <1>1, <1>7, <2>1, <2>2, <2>3 DEF FullTextInv, ListInv
  <2>5. NoneForgotten
    BY <1>1, <1>2, <1>5, <1>7, <2>1, LoopMoves DEF FullTextInv
  <2> QED BY <1>1, <1>4, <1>6, <2>4, <2>5, GapsKept DEF FullTextInv
<1>8. CASE lost' = lost \union {m.id} /\ UNCHANGED dead /\ replay' = [replay EXCEPT ![w] = Idle]
  <2>1. \A v \in Workers : replay[v].pc = "trim" => replay'[v].pc = "trim"
    BY <1>1, <1>8 DEF FullTextInv, MessagesInv
  <2>2. \A d : DrainState(d) => DrainState(d)'
    BY <1>1 DEF DrainState
  <2>3. ListInv'
    BY <1>1, <1>2, <1>8, <2>1, <2>2 DEF FullTextInv, ListInv
  <2>4. NoneForgotten
    BY <1>1, <1>2, <1>5, <1>8, LoopMoves DEF FullTextInv
  <2> QED BY <1>1, <1>4, <1>6, <2>3, <2>4, GapsKept DEF FullTextInv
<1> QED BY <1>1, <1>7, <1>8

LEMMA TrimKeeps ==
  ASSUME FullTextAssumption, FullTextInv, NEW w \in Workers, Trim(w)
  PROVE  FullTextInv'
<1>1. /\ UNCHANGED <<qdrant, es, queue, task, drain, failures, missed>>
      /\ replay[w].pc = "trim" /\ replay' = [replay EXCEPT ![w] = Idle]
      /\ dead' = Trimmed /\ lost' = lost \union {dead[k] : k \in 1..Excess}
  BY DEF Trim, Goes
<1>2. /\ HeldBy(replay[w]) = {} /\ ReplayState(Idle) /\ ~Carries(Idle)
  BY <1>1 DEF Idle, ReplayState, Carries, HeldBy
<1>3. TaskInv' /\ TaskStep
  BY <1>1, TaskAlone DEF FullTextInv
<1>4. MessagesInv'
  BY <1>1, <1>2, <1>3, MessagesMove DEF FullTextInv, MessagesInv
<1>5. /\ dead' \in Seq(Ids) /\ Len(dead') <= DeadLetterMax /\ lost' \subseteq Ids
      /\ \A id : DeadIn(dead, id) => DeadIn(dead', id) \/ id \in lost'
  BY <1>1, TrimmedList DEF FullTextInv, ListInv
<1>6. \A d : DrainState(d) => DrainState(d)'
  BY <1>1 DEF DrainState
<1>7. ListInv'
  BY <1>1, <1>5, <1>6 DEF FullTextInv, ListInv
<1>8. NoneForgotten
  BY <1>1, <1>2, <1>5, LoopMoves DEF FullTextInv
<1> QED BY <1>1, <1>3, <1>4, <1>7, <1>8, GapsKept DEF FullTextInv

LEMMA TickKeeps ==
  ASSUME FullTextAssumption, FullTextInv, Tick
  PROVE  FullTextInv'
<1>1. /\ UNCHANGED <<qdrant, es, dead, task, replay, drain, failures, missed, lost>>
      /\ queue' = {[m EXCEPT !.due = TRUE] : m \in queue} /\ queue \subseteq Message
  BY DEF Tick, FullTextInv, MessagesInv
<1>2. TaskInv' /\ TaskStep
  BY <1>1, TaskAlone DEF FullTextInv
<1>3. MessagesInv'
  BY <1>2, MessagesDue DEF FullTextInv
<1>4. ListInv'
  BY <1>1, ListAlone DEF FullTextInv
<1>5. \A m \in queue : [m EXCEPT !.due = TRUE] \in queue' /\ [m EXCEPT !.due = TRUE].id = m.id
  BY <1>1 DEF Message
<1>6. NoneForgotten
  BY <1>1, <1>5, NothingMoves
<1> QED BY <1>1, <1>2, <1>3, <1>4, <1>6, GapsKept DEF FullTextInv

-----------------------------------------------------------------------------
(* The steps of the drain.                                                 *)

LEMMA StartDrainKeeps ==
  ASSUME FullTextAssumption, FullTextInv, NEW w \in Workers, StartDrain(w)
  PROVE  FullTextInv'
<1> DEFINE s == [pc |-> "scan", offset |-> 0, ackable |-> {}]
<1>1. /\ UNCHANGED <<qdrant, es, queue, dead, task, replay, failures, missed, lost>>
      /\ drain' = [drain EXCEPT ![w] = s]
  BY DEF StartDrain, stores
<1>2. TaskInv' /\ TaskStep
  BY <1>1, TaskAlone DEF FullTextInv
<1>3. MessagesInv'
  BY <1>1, <1>2, MessagesAlone DEF FullTextInv
<1>4. DrainState(s)'
  BY DEF DrainState
<1>5. \A d : DrainState(d) => DrainState(d)'
  BY <1>1 DEF DrainState
<1> HIDE DEF s, DrainState
<1>6. ListInv'
  BY <1>1, <1>4, <1>5 DEF FullTextInv, ListInv
<1>7. NoneForgotten
  BY <1>1, NothingMoves
<1> QED BY <1>1, <1>2, <1>3, <1>6, <1>7, GapsKept DEF FullTextInv

LEMMA ScanPageKeeps ==
  ASSUME FullTextAssumption, FullTextInv, NEW w \in Workers, ScanPage(w)
  PROVE  FullTextInv'
<1> DEFINE d == drain[w]
           page == PageAt(d.offset)
           found(ids) == [d EXCEPT !.offset = @ + Page, !.ackable = @ \union ids,
                                   !.pc = IF MorePages(page) THEN "scan" ELSE "ack"]
<1>1. /\ UNCHANGED <<qdrant, es, queue, dead, task, replay, missed, lost>> /\ d.pc = "scan"
      /\ UNCHANGED failures \/ Fault
  BY DEF ScanPage, stores
<1>2. PICK ids \in {Resolved(page), {}} : drain' = [drain EXCEPT ![w] = found(ids)]
  BY DEF ScanPage
<1>3. \A id \in ids : id[1] \in es
  BY <1>2 DEF Resolved, Present
<1>4. DOMAIN d = {"pc", "offset", "ackable"} /\ \A id \in d.ackable : id[1] \in es
  BY <1>1 DEF FullTextInv, ListInv, DrainState, Idle
<1>5. PICK s : s = found(ids)
  OBVIOUS
<1>6. DOMAIN s = {"pc", "offset", "ackable"} /\ s.ackable = d.ackable \union ids
  BY <1>4, <1>5
<1>7. drain' = [drain EXCEPT ![w] = s]
  BY <1>2, <1>5
<1> HIDE DEF d, page, found
<1>8. TaskInv' /\ TaskStep
  BY <1>1, TaskAlone DEF FullTextInv
<1>9. MessagesInv'
  BY <1>1, <1>8, MessagesAlone DEF FullTextInv
<1>10. DrainState(s)'
  BY <1>1, <1>3, <1>4, <1>6 DEF DrainState
<1>11. \A x : DrainState(x) => DrainState(x)'
  BY <1>1 DEF DrainState
<1> HIDE DEF DrainState
<1>12. ListInv'
  BY <1>1, <1>7, <1>10, <1>11 DEF FullTextInv, ListInv
<1>13. NoneForgotten
  BY <1>1, NothingMoves
<1> QED BY <1>1, <1>8, <1>9, <1>12, <1>13, GapsKept DEF FullTextInv

\* What is removed by value is in the index.
LEMMA AckDrainedKeeps ==
  ASSUME FullTextAssumption, FullTextInv, NEW w \in Workers, AckDrained(w)
  PROVE  FullTextInv'
<1>1. /\ UNCHANGED <<qdrant, es, queue, task, replay, missed, lost>>
      /\ drain' = [drain EXCEPT ![w] = Idle] /\ drain[w].pc = "ack"
      /\ UNCHANGED failures \/ Fault
      /\ dead' = dead \/ dead' = Without(drain[w].ackable)
  BY DEF AckDrained
<1>2. \A id \in drain[w].ackable : id[1] \in es
  BY <1>1 DEF FullTextInv, ListInv, DrainState, Idle
<1>3. dead \in Seq(Ids)
  BY DEF FullTextInv, ListInv
<1>4. Len(dead) \in Nat /\ Len(dead') \in Nat
  <2>1. dead' \in Seq(Ids)
    BY <1>1, <1>3, WithoutList
  <2> QED BY <1>3, <2>1, LenProperties
<1>5. /\ dead' \in Seq(Ids) /\ Len(dead') <= Len(dead)
      /\ \A id : DeadIn(dead, id) => DeadIn(dead', id) \/ id[1] \in es'
  BY <1>1, <1>2, <1>3, <1>4, WithoutList
<1>6. TaskInv' /\ TaskStep
  BY <1>1, TaskAlone DEF FullTextInv
<1>7. MessagesInv'
  BY <1>1, <1>6, MessagesAlone DEF FullTextInv
<1>8. \A d : DrainState(d) => DrainState(d)'
  BY <1>1 DEF DrainState
<1>9. ListInv'
  <2>1. (\A v \in Workers : replay'[v].pc # "trim") => Len(dead') <= DeadLetterMax
    BY <1>1, <1>4, <1>5 DEF FullTextInv, ListInv, FullTextAssumption
  <2>2. DrainState(Idle)'
    BY DEF DrainState, Idle
  <2> HIDE DEF DrainState
  <2> QED BY <1>1, <1>5, <1>8, <2>1, <2>2 DEF FullTextInv, ListInv, Idle
<1>10. NoneForgotten
  BY <1>1, <1>5 DEF NoneForgotten, Known, HeldBy
<1> QED BY <1>1, <1>6, <1>7, <1>9, <1>10, GapsKept DEF FullTextInv

-----------------------------------------------------------------------------
(* A crash, and the steps of the attempt.                                  *)

LEMMA CrashKeeps ==
  ASSUME FullTextAssumption, FullTextInv, NEW w \in Workers, Crash(w)
  PROVE  FullTextInv'
<1>1. /\ UNCHANGED <<qdrant, es, queue, dead>> /\ drain' = [drain EXCEPT ![w] = Idle]
      /\ lost' = lost \union Holds(w)
      /\ replay' = [replay EXCEPT ![w] = IF replay[w].pc = "trim" THEN replay[w] ELSE Idle]
  BY DEF Crash, Goes, stores
<1>2. Holds(w) = HeldBy(replay[w]) /\ Holds(w) \subseteq Ids
  BY HeldMessage DEF FullTextInv, Holds, HeldBy
<1>3. PICK s : /\ replay' = [replay EXCEPT ![w] = s] /\ ReplayState(s) /\ ~Carries(s)
               /\ replay[w].pc = "trim" => s.pc = "trim"
  <2>1. CASE replay[w].pc = "trim"
    BY <1>1, <2>1 DEF FullTextInv, MessagesInv, Carries
  <2>2. CASE replay[w].pc # "trim"
    <3>1. PICK s : s = Idle
      OBVIOUS
    <3>2. ReplayState(s) /\ ~Carries(s)
      BY <3>1 DEF Idle, ReplayState, Carries
    <3> QED BY <1>1, <2>2, <3>1, <3>2
  <2> QED BY <2>1, <2>2
<1>4. TaskInv' /\ TaskStep
  BY TaskCrashes DEF FullTextInv
<1>5. MessagesInv'
  BY <1>1, <1>3, <1>4, MessagesMove DEF FullTextInv, MessagesInv
<1>6. ListInv'
  <2>1. \A v \in Workers : replay[v].pc = "trim" => replay'[v].pc = "trim"
    BY <1>3 DEF FullTextInv, MessagesInv
  <2>2. \A d : DrainState(d) => DrainState(d)'
    BY <1>1 DEF DrainState
  <2>3. DrainState(Idle)'
    BY DEF DrainState, Idle
  <2> HIDE DEF DrainState
  <2> QED BY <1>1, <1>2, <2>1, <2>2, <2>3 DEF FullTextInv, ListInv, Idle
<1>7. NoneForgotten
  BY <1>1, <1>2, <1>3, LoopMoves DEF FullTextInv
<1>8. CASE w \in task.by
  <2>1. missed' = missed \union (IF task.pc \in {"index", "enqueue"} THEN {Current} ELSE {})
    BY <1>8 DEF Crash
  <2>2. \A c : InTransit(c) => c \in missed'
    BY <2>1 DEF InTransit
  <2> HIDE DEF InTransit, Known
  <2>3. \A c \in qdrant' \ es' : (\E id \in Ids : Known(id)' /\ id[1] = c) \/ c \in missed'
    BY <1>1, <1>7, <2>1, <2>2 DEF FullTextInv, GapsInv, NoneForgotten
  <2> QED BY <1>4, <1>5, <1>6, <2>3 DEF FullTextInv, GapsInv
<1>9. CASE w \notin task.by
  <2>1. UNCHANGED <<task, missed>>
    BY <1>9 DEF Crash
  <2> QED BY <1>1, <1>4, <1>5, <1>6, <1>7, <2>1, GapsKept DEF FullTextInv
<1> QED BY <1>8, <1>9

\* A step of the attempt: each chunk that is in no hand now, and not in the
\* index, was in the same hands before.
LEMMA TaskKeeps ==
  ASSUME FullTextAssumption, FullTextInv, TaskInv', MessagesInv',
         UNCHANGED <<dead, drain, replay, lost>>, es \subseteq es',
         \A c \in missed : c \in missed' \/ \E m \in queue' : m.id[1] = c,
         \A m \in queue : m \in queue',
         \A c \in qdrant' \ es' : (c \in qdrant /\ ~InTransit(c)) \/ c \in missed'
                                  \/ InTransit(c)' \/ \E m \in queue' : m.id[1] = c
  PROVE  FullTextInv'
<1>1. ListInv'
  BY ListAlone DEF FullTextInv
<1>2. NoneForgotten
  BY NothingMoves
<1>3. \A m \in queue' : m.id \in Ids /\ Known(m.id)'
  <2>1. ASSUME NEW m \in queue' PROVE m.id \in Ids
    BY DEF MessagesInv, Message
  <2> QED BY <2>1 DEF Known
<1> HIDE DEF InTransit, Known
<1>4. ASSUME NEW c \in qdrant' \ es'
      PROVE  (\E id \in Ids : Known(id)' /\ id[1] = c) \/ c \in missed' \/ InTransit(c)'
  BY <1>2, <1>3, <1>4 DEF FullTextInv, GapsInv, NoneForgotten
<1> QED BY <1>1, <1>4 DEF FullTextInv, GapsInv

LEMMA TaskStartKeeps ==
  ASSUME FullTextAssumption, FullTextInv, NEW w \in Workers, StartTask(w)
  PROVE  FullTextInv'
<1>1. UNCHANGED <<qdrant, es, queue, dead, replay, drain, failures, missed, lost>>
      /\ task.pc = "idle"
  BY DEF StartTask, stores
<1>2. TaskInv' /\ TaskStep
  BY TaskStarts DEF FullTextInv
<1>3. MessagesInv'
  BY <1>1, <1>2, MessagesAlone DEF FullTextInv
<1>4. \A c : ~InTransit(c)
  BY <1>1 DEF InTransit
<1> HIDE DEF InTransit
<1> QED BY <1>1, <1>2, <1>3, <1>4, TaskKeeps

LEMMA StoreChunkKeeps ==
  ASSUME FullTextAssumption, FullTextInv, StoreChunk
  PROVE  FullTextInv'
<1>1. /\ UNCHANGED <<es, queue, dead, replay, drain, lost>> /\ task.pc = "chunk"
      /\ missed \subseteq missed'
  BY DEF StoreChunk
<1>2. TaskInv' /\ TaskStep
  BY ChunkStored DEF FullTextInv
<1>3. MessagesInv'
  BY <1>1, <1>2, MessagesAlone DEF FullTextInv
<1>4. \A c : ~InTransit(c)
  BY <1>1 DEF InTransit
<1>5. ASSUME NEW c \in qdrant', c \notin qdrant, c \notin missed' PROVE InTransit(c)'
  <2>1. c = Current /\ task' = [task EXCEPT !.pc = "index", !.stored = TRUE]
    BY <1>5 DEF StoreChunk
  <2>2. DOMAIN task = TaskFields
    BY DEF FullTextInv, TaskInv, TaskSound
  <2>3. task'.pc = "index" /\ task'.todo = task.todo
    BY <2>1, <2>2 DEF TaskFields
  <2>4. Current' = Current
    BY <2>3 DEF Current
  <2> QED BY <2>1, <2>3, <2>4 DEF InTransit
<1> HIDE DEF InTransit
<1> QED BY <1>1, <1>2, <1>3, <1>4, <1>5, TaskKeeps

LEMMA IndexNowKeeps ==
  ASSUME FullTextAssumption, FullTextInv, NEW answer, IndexNow(answer)
  PROVE  FullTextInv'
<1>1. /\ UNCHANGED <<qdrant, queue, dead, replay, drain, missed, lost>> /\ task.pc = "index"
      /\ es' = Put(Current, answer)
      /\ IF answer = "ok" THEN task' = Done(task) ELSE Step("enqueue")
  BY DEF IndexNow
<1>2. TaskInv' /\ TaskStep
  BY ChunkIndexed DEF FullTextInv
<1>3. MessagesInv'
  BY <1>1, <1>2, MessagesAlone DEF FullTextInv
<1>4. es \subseteq es' /\ (answer = "ok" => Current \in es')
  BY <1>1 DEF Put
<1>5. ASSUME NEW c \in qdrant' \ es'
      PROVE  ~InTransit(c) \/ InTransit(c)'
  <2>1. CASE answer = "ok"
    BY <1>4, <1>5, <2>1 DEF InTransit
  <2>2. CASE answer # "ok"
    <3>1. DOMAIN task = TaskFields /\ task' = [task EXCEPT !.pc = "enqueue"]
      BY <1>1, <2>2 DEF Step, FullTextInv, TaskInv, TaskSound
    <3>2. task'.pc = "enqueue" /\ task'.todo = task.todo
      BY <3>1 DEF TaskFields
    <3>3. Current' = Current
      BY <3>2 DEF Current
    <3> QED BY <3>2, <3>3 DEF InTransit
  <2> QED BY <2>1, <2>2
<1> HIDE DEF InTransit
<1> QED BY <1>1, <1>2, <1>3, <1>4, <1>5, TaskKeeps

LEMMA EnqueueNowKeeps ==
  ASSUME FullTextAssumption, FullTextInv, EnqueueNow
  PROVE  FullTextInv'
<1>1. UNCHANGED <<qdrant, es, dead, replay, drain, lost>> /\ task.pc = "enqueue"
  BY DEF EnqueueNow
<1>2. TaskInv' /\ TaskStep
  BY ChunkEnqueued DEF FullTextInv
<1>3. MessagesInv'
  BY <1>2, MessagesQueued DEF FullTextInv
<1> DEFINE new == [id |-> <<Current, task.attempt>>, retry |-> 0, due |-> FALSE]
<1>4. /\ \A m \in queue : m \in queue'
      /\ \A c \in missed : c = Current \/ c \in missed'
      /\ Current \in missed' \/ new \in queue'
  BY DEF EnqueueNow
<1>5. new.id[1] = Current
  OBVIOUS
<1>7. \A c \in missed : c \in missed' \/ \E m \in queue' : m.id[1] = c
  <2> HIDE DEF new
  <2> QED BY <1>4, <1>5
<1>6. ASSUME NEW c \in qdrant' \ es', InTransit(c)
      PROVE  c \in missed' \/ \E m \in queue' : m.id[1] = c
  <2>1. c = Current
    BY <1>6 DEF InTransit
  <2> HIDE DEF new
  <2> QED BY <1>4, <1>5, <2>1
<1> HIDE DEF InTransit, new
<1> QED BY <1>1, <1>2, <1>3, <1>4, <1>6, <1>7, TaskKeeps

LEMMA TaskEndKeeps ==
  ASSUME FullTextAssumption, FullTextInv, SaveCheckpoint \/ EndTask
  PROVE  FullTextInv'
<1>1. /\ UNCHANGED <<qdrant, es, queue, dead, replay, drain, missed, lost>>
      /\ task.pc \in {"save", "end"}
  BY DEF SaveCheckpoint, EndTask
<1>2. TaskInv' /\ TaskStep
  BY CheckpointSaved, TaskEnds DEF FullTextInv
<1>3. MessagesInv'
  BY <1>1, <1>2, MessagesAlone DEF FullTextInv
<1>4. \A c : ~InTransit(c)
  BY <1>1 DEF InTransit
<1> HIDE DEF InTransit
<1> QED BY <1>1, <1>2, <1>3, <1>4, TaskKeeps

-----------------------------------------------------------------------------

LEMMA FullTextInductive ==
  ASSUME FullTextAssumption, FullTextInv, [FullTextNext]_fullTextVars
  PROVE  FullTextInv'
<1>1. CASE TaskSteps
  BY <1>1, StoreChunkKeeps, EnqueueNowKeeps, TaskEndKeeps, IndexNowKeeps DEF TaskSteps
<1>2. ASSUME NEW w \in Workers, ReplaySteps(w) PROVE FullTextInv'
  BY <1>2, PeekKeeps, PopMinKeeps, RequeueKeeps, PushKeeps, TrimKeeps, ReplayKeeps DEF ReplaySteps
<1>3. ASSUME NEW w \in Workers, DrainSteps(w) PROVE FullTextInv'
  BY <1>3, StartDrainKeeps, ScanPageKeeps, AckDrainedKeeps DEF DrainSteps
<1>4. ASSUME UNCHANGED fullTextVars PROVE FullTextInv'
  <2>1. UNCHANGED <<qdrant, es, queue, dead, task, replay, drain, failures, missed, lost>>
    BY <1>4 DEF fullTextVars, stores
  <2>2. TaskInv' /\ TaskStep
    BY <2>1, TaskAlone DEF FullTextInv
  <2>3. MessagesInv'
    BY <2>1, <2>2, MessagesAlone DEF FullTextInv
  <2>4. ListInv'
    BY <2>1, ListAlone DEF FullTextInv
  <2>5. NoneForgotten
    BY <2>1, NothingMoves
  <2> QED BY <2>1, <2>2, <2>3, <2>4, <2>5, GapsKept DEF FullTextInv
<1> QED BY <1>1, <1>2, <1>3, <1>4, TickKeeps, TaskStartKeeps, CrashKeeps DEF FullTextNext

LEMMA FullTextInitial ==
  ASSUME FullTextAssumption, FullTextInit
  PROVE  FullTextInv
<1>1. TaskInv
  BY DEF FullTextInit, TaskInv, TaskSound, TaskFields, AtChunk, FullTextAssumption
<1>2. MessagesInv
  BY DEF FullTextInit, MessagesInv, ReplayState, Carries, Idle
<1>3. ListInv
  <2>1. dead = <<>> /\ dead \in Seq(Ids) /\ Len(dead) = 0
    BY EmptySeq DEF FullTextInit
  <2> QED BY <2>1 DEF FullTextInit, ListInv, DrainState, FullTextAssumption
<1>4. GapsInv
  BY DEF FullTextInit, GapsInv
<1> QED BY <1>1, <1>2, <1>3, <1>4 DEF FullTextInv

LEMMA FullTextInvHolds == FullTextSpec => []FullTextInv
<1> USE FullTextAssumption
<1> QED BY FullTextInitial, FullTextInductive, PTL DEF FullTextSpec

\* The dead-letter list is within its cap whenever no pipeline of commands is
\* half done, a message is in the queue once, the full-text index holds
\* nothing Qdrant does not, and an attempt is within its batch
\* (RedisRetryQueue, AsyncSink, processBatch).
THEOREM FullTextIsTyped == FullTextSpec => []FullTextTyped
<1>1. FullTextInv => FullTextTyped
  <2> SUFFICES ASSUME FullTextInv PROVE FullTextTyped
    OBVIOUS
  <2>1. task.attempt \in Attempts
    BY FullTextAssumption DEF FullTextInv, TaskInv, TaskSound, Attempts, FullTextAssumption
  <2> QED BY <2>1 DEF FullTextInv, TaskInv, TaskSound, MessagesInv, ListInv, FullTextTyped
<1> QED BY <1>1, FullTextInvHolds, PTL

\* No pop, retry, push, trim or drain, in whatever order those of the workers
\* fall, loses the last description of a chunk that Qdrant has and the
\* full-text index has not, unless a fault kept the chunk from the sink each time
\* it was stored, or discarded its message, or the cap was reached
\* (replayLoop, popDueOnce, EnqueueDeadLetter, AckDeadLetterEntries).
THEOREM GapsAreAccountedAlways == FullTextSpec => []GapsAreAccounted
<1>1. FullTextInv => GapsAreAccounted
  <2> SUFFICES ASSUME FullTextInv, NEW c \in qdrant \ es
               PROVE  \/ Waiting(c) \/ c \in missed \/ \E id \in lost : id[1] = c
                      \/ task.pc \in {"index", "enqueue"} /\ Current = c
    BY DEF GapsAreAccounted
  <2>1. (\E id \in Ids : Known(id) /\ id[1] = c) \/ c \in missed \/ InTransit(c)
    BY DEF FullTextInv, GapsInv
  <2>2. ASSUME NEW id \in Ids, Known(id), id[1] = c
        PROVE  Waiting(c) \/ \E other \in lost : other[1] = c
    <3>1. CASE \E m \in queue : m.id = id
      BY <2>2, <3>1 DEF Waiting
    <3>2. CASE DeadIn(dead, id)
      BY <2>2, <3>2 DEF Waiting, DeadIn
    <3>3. CASE \E w \in Workers : id \in HeldBy(replay[w])
      BY <2>2, <3>3 DEF Waiting, HeldBy, Holds
    <3>4. CASE id \in lost
      BY <2>2, <3>4
    <3> QED BY <2>2, <3>1, <3>2, <3>3, <3>4 DEF Known
  <2> QED BY <2>1, <2>2 DEF InTransit
<1> QED BY <1>1, FullTextInvHolds, PTL
=============================================================================
