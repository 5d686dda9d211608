--------------------------- MODULE AgentRunProofs ---------------------------
(***************************************************************************)
(* Proofs about AgentRun, for every number of request slots, every set of  *)
(* users and every bound on steps, lapses, time-outs and crashes.          *)
(*                                                                         *)
(* Three invariants, each resting on the one before.  CopiesInv: a record  *)
(* is well formed at every point where a request may save it, and a copy   *)
(* of the version that is stored extends what is stored.  LeasesInv: no    *)
(* two requests hold one token, and a lease that has not lapsed is the     *)
(* current one.  ConsentInv: a request to whom publishing was granted can  *)
(* point at the approval of the one step that may publish.                 *)
(***************************************************************************)
EXTENDS AgentRun, SequenceTheorems, TLAPS

-----------------------------------------------------------------------------
(* Well-formed records.                                                    *)

Calls == {"none", "run", "lifecycle", "cancel", "reject"}
Ops   == {"none", "create", "resume", "approve", "reject", "cancel"}
Fresh == {"claim", "start", "plan", "exhausted", "exec"}
Holds == Fresh \cup {"persist", "commit", "back"}
Pcs   == Holds \cup {"idle", "lock", "load", "decide"}

ReqSet == [pc : Pcs, op : Ops, user : Users \cup {None}, call : Calls, lease : Nat,
           waited : {0} \cup Indexes, cur : RunSet \cup {None}, granted : BOOLEAN]

ApprovalSet == [status : {"none", "pending", "approved", "rejected"}, by : Users \cup {None}]

\* The steps of a record before its last one are completed, and its last one
\* is as the run is: closed in a closed run, completed in one that goes on.
StepsAgree(r) ==
  /\ r.state \in Terminal => \A i \in DOMAIN r.steps : r.steps[i].st \notin Open
  /\ r.state \in {"waiting_tool", "pending_approval"} =>
       /\ r.steps # <<>>
       /\ r.steps[Len(r.steps)].st = r.state
       /\ r.steps[Len(r.steps)].tool \in Tools
  /\ r.state \in {"created", "running"} => \A i \in DOMAIN r.steps : r.steps[i].st = "completed"
  /\ \A i \in DOMAIN r.steps : i < Len(r.steps) => r.steps[i].st = "completed"
  /\ r.state = "pending_approval" => r.steps[Len(r.steps)].tool = "publish"

\* A publication run assesses first and publishes second, if at all.
WorkflowShape(r) ==
  r.task = "governance" =>
    \A i \in DOMAIN r.steps : /\ r.steps[i].tool = "assess" => i = 1
                              /\ r.steps[i].tool = "publish" => i = 2

GoodRun(r) ==
  /\ r \in RunSet
  /\ Len(r.steps) <= MaxSteps + 1
  /\ r.state \notin Terminal => Len(r.steps) <= MaxSteps
  /\ StepsAgree(r)
  /\ WorkflowShape(r)

\* b can be saved over a: a is open, and its closed steps are in b.
Extends(a, b) ==
  /\ a.state \notin Terminal
  /\ Len(b.steps) >= Len(a.steps)
  /\ \A i \in DOMAIN a.steps : a.steps[i].st \notin Open => b.steps[i] = a.steps[i]

\* What a request at q.pc knows of the record r from its copy.
Stage(q) ==
  /\ q.pc \in Fresh => q.cur.state \notin Terminal
  /\ q.pc \in Fresh \ {"claim"} => q.pc = NextStage(q.cur)
  /\ q.pc = "persist" => q.cur.state = "waiting_tool"
Current(q, r) ==
  q.cur.ver = r.ver => /\ q.pc \in Fresh => q.cur = r
                       /\ q.pc \in {"persist", "commit"} => Extends(r, q.cur)
Copy(q, r, t) ==
  /\ GoodRun(q.cur) /\ q.cur.tok <= t
  /\ q.cur.task = r.task /\ q.cur.ver <= r.ver
  /\ Stage(q) /\ Current(q, r)

ReqInv(q, r, t) ==
  /\ q \in ReqSet /\ q.lease <= t
  /\ q.pc # "idle" => r # None
  /\ q.pc \in Holds => Copy(q, r, t)
  /\ q.pc \notin Holds => q.cur = None

RunInv(r, t) == r # None => GoodRun(r) /\ r.tok <= t

Scalars ==
  /\ token \in Nat /\ lapsed \subseteq 1 .. token
  /\ held \in BOOLEAN /\ (held => token # 0)
  /\ late \subseteq {0} \cup Indexes
  /\ approvals \in [Indexes -> ApprovalSet]
  /\ published \subseteq Indexes

CopiesInv ==
  /\ Scalars
  /\ RunInv(run, token)
  /\ DOMAIN req = Requests
  /\ \A w \in Requests : ReqInv(req[w], run, token)

-----------------------------------------------------------------------------
(* Leases and consent.                                                     *)

LeasesInv ==
  /\ \A w \in Requests : req[w].lease # 0 =>
       req[w].lease \in lapsed \/ (held /\ req[w].lease = token)
  /\ \A v, w \in Requests : v # w /\ req[v].lease # 0 => req[v].lease # req[w].lease

Approvers == Admins \ {Requester, None}

\* A request that acts for an administrator, decides a step that waits, or
\* was granted the tool.
MayDecide(q, r) ==
  /\ q.op \in {"approve", "reject"} => q.user \in Admins
  /\ q.pc = "decide" =>
       /\ q.op \in {"approve", "reject"}
       /\ q.waited \in Indexes
       /\ q.op = "approve" => q.user \in Approvers
       /\ r.task = "governance" => q.waited = 2
Approved(i) == approvals[i].status = "approved"

ConsentInv ==
  /\ \A i \in Indexes : Approved(i) => approvals[i].by \in Approvers
  /\ \A w \in Requests : MayDecide(req[w], run)
  /\ run # None /\ run.task = "governance" =>
       /\ \A w \in Requests : req[w].granted => Approved(2)
       /\ published \subseteq {2} /\ (published # {} => Approved(2))
  /\ run = None => published = {} /\ \A w \in Requests : ~req[w].granted

-----------------------------------------------------------------------------
(* Rewriting records.                                                      *)

\* n is r with its state and its steps replaced.
Rewrites(n, r, st, ss) ==
  /\ n \in RunSet /\ n.state = st /\ n.steps = ss
  /\ n.task = r.task /\ n.ver = r.ver /\ n.tok = r.tok /\ n.timeout = r.timeout

LEMMA Rewriting ==
  ASSUME NEW r \in RunSet, NEW st \in Open \cup Terminal, NEW ss \in Seq(StepSet)
  PROVE  Rewrites([r EXCEPT !.state = st, !.steps = ss], r, st, ss)
<1> DEFINE a == [r EXCEPT !.state = st]
           b == [a EXCEPT !.steps = ss]
<1>1. /\ a \in RunSet /\ a.state = st /\ a.steps = r.steps /\ a.task = r.task
      /\ a.ver = r.ver /\ a.tok = r.tok /\ a.timeout = r.timeout
  BY DEF RunSet
<1>2. b = [r EXCEPT !.state = st, !.steps = ss]
  OBVIOUS
<1> HIDE DEF a
<1>3. /\ b \in RunSet /\ b.state = a.state /\ b.steps = ss /\ b.task = a.task
      /\ b.ver = a.ver /\ b.tok = a.tok /\ b.timeout = a.timeout
  BY <1>1 DEF RunSet
<1> QED BY <1>1, <1>2, <1>3 DEF Rewrites

\* n is r as a version v that the token l wrote.
Written(n, r, st, v, l) ==
  /\ n \in RunSet /\ n.state = st /\ n.steps = r.steps
  /\ n.task = r.task /\ n.ver = v /\ n.tok = l /\ n.timeout = r.timeout

LEMMA Writing ==
  ASSUME NEW r \in RunSet, NEW v \in Nat \ {0}, NEW l \in Nat
  PROVE  Written([r EXCEPT !.ver = v, !.tok = l], r, r.state, v, l)
<1> DEFINE a == [r EXCEPT !.ver = v]
           b == [a EXCEPT !.tok = l]
<1>1. /\ a \in RunSet /\ a.state = r.state /\ a.steps = r.steps /\ a.task = r.task
      /\ a.ver = v /\ a.tok = r.tok /\ a.timeout = r.timeout
  BY DEF RunSet
<1>2. b = [r EXCEPT !.ver = v, !.tok = l]
  OBVIOUS
<1> HIDE DEF a
<1>3. /\ b \in RunSet /\ b.state = a.state /\ b.steps = a.steps /\ b.task = a.task
      /\ b.ver = a.ver /\ b.tok = l /\ b.timeout = a.timeout
  BY <1>1 DEF RunSet
<1> QED BY <1>1, <1>2, <1>3 DEF Written

\* The steps of a record, and the kinds of step.
LEMMA StepsOf ==
  ASSUME NEW r \in RunSet
  PROVE  /\ r.steps \in Seq(StepSet) /\ Len(r.steps) \in Nat
         /\ DOMAIN r.steps = 1 .. Len(r.steps)
         /\ \A i \in 1 .. Len(r.steps) : r.steps[i] \in StepSet
BY LenProperties, ElementOfSeq DEF RunSet

LEMMA StepTypes ==
  /\ FinalStep \in StepSet /\ ErrorStep \in StepSet
  /\ \A tool \in Tools : ToolStep(tool) \in StepSet
  /\ \A s \in StepSet, st \in {"pending_approval", "completed", "failed", "cancelled"},
        kind \in {"tool_call", "final", "error"}, res \in {"none", "ready", "blocked", "ok"} :
        StepRec(kind, s.tool, st, res) \in StepSet
BY DEF FinalStep, ErrorStep, ToolStep, StepRec, StepSet, Tools

\* A step appended, and the last step replaced.
LEMMA Appended ==
  ASSUME NEW ss \in Seq(StepSet), NEW s \in StepSet
  PROVE  /\ Append(ss, s) \in Seq(StepSet)
         /\ Len(Append(ss, s)) = Len(ss) + 1
         /\ DOMAIN Append(ss, s) = 1 .. Len(ss) + 1
         /\ Append(ss, s)[Len(ss) + 1] = s
         /\ \A i \in 1 .. Len(ss) : Append(ss, s)[i] = ss[i]
OBVIOUS

LEMMA Replaced ==
  ASSUME NEW ss \in Seq(StepSet), NEW n \in 1 .. Len(ss), NEW s \in StepSet
  PROVE  /\ [ss EXCEPT ![n] = s] \in Seq(StepSet)
         /\ Len([ss EXCEPT ![n] = s]) = Len(ss)
         /\ DOMAIN [ss EXCEPT ![n] = s] = 1 .. Len(ss)
         /\ \A i \in 1 .. Len(ss) : [ss EXCEPT ![n] = s][i] = IF i = n THEN s ELSE ss[i]
BY ExceptSeq, LenProperties

\* The open step of a well-formed record is its last one, if it has one.
LEMMA OpenStep ==
  ASSUME NEW r, GoodRun(r)
  PROVE  /\ ActiveStep(r) \in {0, Len(r.steps)}
         /\ ActiveStep(r) = 0 => \A i \in DOMAIN r.steps : r.steps[i].st \notin Open
         /\ ActiveStep(r) # 0 => /\ Len(r.steps) \in DOMAIN r.steps
                                /\ r.steps[Len(r.steps)].st \in Open
<1> DEFINE A == {i \in DOMAIN r.steps : r.steps[i].st \in Open}
<1>1. /\ Len(r.steps) \in Nat /\ DOMAIN r.steps = 1 .. Len(r.steps)
  BY StepsOf DEF GoodRun
<1>2. \A i \in A : i = Len(r.steps)
  BY <1>1 DEF GoodRun, StepsAgree, Open
<1>3. CASE A = {}
  BY <1>3 DEF ActiveStep
<1>4. CASE A # {}
  <2>1. PICK i \in A : TRUE
    BY <1>4
  <2>2. \A j \in A : j <= i
    BY <1>1, <1>2, <2>1
  <2>3. ActiveStep(r) \in A
    BY <1>4, <2>1, <2>2 DEF ActiveStep
  <2> QED BY <1>1, <1>2, <2>3
<1> QED BY <1>3, <1>4

LEMMA WaitingStep ==
  ASSUME NEW r, GoodRun(r)
  PROVE  /\ PendingStep(r) \in {0} \cup Indexes
         /\ r.state = "pending_approval" =>
              /\ PendingStep(r) = Len(r.steps) /\ PendingStep(r) \in DOMAIN r.steps
              /\ PendingStep(r) \in Indexes
              /\ r.steps[PendingStep(r)].tool = "publish"
<1> DEFINE W == {i \in DOMAIN r.steps : r.steps[i].st = "pending_approval"}
<1>1. /\ Len(r.steps) \in Nat /\ DOMAIN r.steps = 1 .. Len(r.steps)
      /\ r.steps \in Seq(StepSet)
  BY StepsOf DEF GoodRun
<1>2. \A i \in W : i = Len(r.steps)
  BY <1>1 DEF GoodRun, StepsAgree
<1>3. Len(r.steps) <= MaxSteps + 1 /\ MaxSteps \in Nat
  BY AgentAssumption DEF GoodRun
<1>4. CASE W = {}
  <2>1. r.state # "pending_approval"
    <3> SUFFICES ASSUME r.state = "pending_approval" PROVE FALSE
      OBVIOUS
    <3>1. r.steps # <<>> /\ r.steps[Len(r.steps)].st = "pending_approval"
      BY DEF GoodRun, StepsAgree
    <3>2. Len(r.steps) \in DOMAIN r.steps
      BY <1>1, <3>1
    <3> QED BY <1>4, <3>1, <3>2
  <2> QED BY <1>4, <2>1 DEF PendingStep
<1>5. CASE W # {}
  <2>1. PICK i \in W : TRUE
    BY <1>5
  <2>2. \A j \in W : j <= i
    BY <1>1, <1>2, <2>1
  <2>3. PendingStep(r) \in W
    BY <1>5, <2>1, <2>2 DEF PendingStep
  <2>4. PendingStep(r) = Len(r.steps) /\ PendingStep(r) \in DOMAIN r.steps
    BY <1>2, <2>3
  <2>5. PendingStep(r) \in Indexes
    BY <1>1, <1>3, <2>4 DEF Indexes
  <2> QED BY <2>4, <2>5 DEF GoodRun, StepsAgree
<1> QED BY <1>4, <1>5

-----------------------------------------------------------------------------
(* What a request makes of a well-formed record is well formed and can be  *)
(* saved over it.                                                          *)

Follows(n, r) ==
  /\ GoodRun(n) /\ Extends(r, n)
  /\ n.task = r.task /\ n.ver = r.ver /\ n.tok = r.tok

LEMMA NewIsGood ==
  ASSUME NEW task \in Tasks
  PROVE  /\ GoodRun(NewRun(task)) /\ NewRun(task).tok = 0 /\ NewRun(task).ver = 1
         /\ NewRun(task).task = task
<1>1. NewRun(task) \in RunSet
  BY EmptySeq DEF NewRun, RunSet, Open
<1>2. Len(NewRun(task).steps) = 0 /\ DOMAIN NewRun(task).steps = {}
  BY DEF NewRun
<1> QED BY <1>1, <1>2, AgentAssumption DEF NewRun, GoodRun, StepsAgree, WorkflowShape, Terminal

LEMMA ClosesWell ==
  ASSUME NEW r, GoodRun(r), r.state \notin Terminal, NEW st \in {"failed", "cancelled"}
  PROVE  Follows(Close(r, st), r) /\ Close(r, st).state = st
<1> DEFINE n  == Len(r.steps)
           ss == IF ActiveStep(r) = 0 THEN r.steps
                 ELSE [r.steps EXCEPT ![ActiveStep(r)].st = st]
<1>1. /\ r \in RunSet /\ r.steps \in Seq(StepSet) /\ n \in Nat /\ DOMAIN r.steps = 1 .. n
      /\ \A i \in 1 .. n : r.steps[i] \in StepSet
  BY StepsOf DEF GoodRun
<1>2. /\ ss \in Seq(StepSet) /\ Len(ss) = n /\ DOMAIN ss = 1 .. n
      /\ \A i \in 1 .. n : /\ ss[i].st \notin Open /\ ss[i].tool = r.steps[i].tool
                           /\ r.steps[i].st \notin Open => ss[i] = r.steps[i]
                           /\ i < n => ss[i] = r.steps[i]
  <2>1. CASE ActiveStep(r) = 0
    BY <1>1, <2>1, OpenStep
  <2>2. CASE ActiveStep(r) # 0
    <3>1. ActiveStep(r) = n /\ n \in 1 .. n /\ r.steps[n].st \in Open
      BY <1>1, <2>2, OpenStep
    <3> DEFINE s == [r.steps[n] EXCEPT !.st = st]
    <3>2. s \in StepSet /\ s.st = st /\ s.tool = r.steps[n].tool
      BY <1>1, <3>1 DEF StepSet
    <3>3. ss = [r.steps EXCEPT ![n] = s]
      BY <2>2, <3>1
    <3>4. \A i \in 1 .. n : i < n => r.steps[i].st = "completed"
      BY <1>1 DEF GoodRun, StepsAgree
    <3> HIDE DEF s, ss
    <3>5. /\ ss \in Seq(StepSet) /\ Len(ss) = n /\ DOMAIN ss = 1 .. n
          /\ \A i \in 1 .. n : ss[i] = IF i = n THEN s ELSE r.steps[i]
      BY <1>1, <3>1, <3>2, <3>3, Replaced
    <3> QED BY <1>1, <3>1, <3>2, <3>4, <3>5 DEF Open
  <2> QED BY <2>1, <2>2
<1> HIDE DEF ss
<1>3. Rewrites(Close(r, st), r, st, ss)
  BY <1>1, <1>2, Rewriting DEF Close, Terminal, ss
<1>4. st \in Terminal
  BY DEF Terminal
<1>5. GoodRun(Close(r, st))
  <2>1. StepsAgree(Close(r, st))
    BY <1>1, <1>2, <1>3, <1>4 DEF GoodRun, StepsAgree, Rewrites
  <2>2. WorkflowShape(Close(r, st))
    BY <1>1, <1>2, <1>3 DEF GoodRun, WorkflowShape, Rewrites
  <2> QED BY <1>2, <1>3, <1>4, <2>1, <2>2 DEF GoodRun, Rewrites
<1>6. Extends(r, Close(r, st))
  BY <1>1, <1>2, <1>3 DEF Extends, Rewrites
<1> QED BY <1>3, <1>5, <1>6 DEF Follows, Rewrites

\* A step s appended to a run whose steps are all completed.
LEMMA AppendsWell ==
  ASSUME NEW r, GoodRun(r), r.state \in {"created", "running"},
         NEW st \in Open \cup Terminal, NEW s \in StepSet,
         Len(r.steps) < MaxSteps \/ st \in Terminal,
         st \in Terminal => s.st \notin Open,
         st \notin Terminal => st = "waiting_tool" /\ s.st = "waiting_tool" /\ s.tool \in Tools,
         r.task = "governance" => /\ s.tool = "assess" => r.steps = <<>>
                                  /\ s.tool = "publish" => Len(r.steps) = 1
  PROVE  Follows(WithStep(r, st, s), r) /\ WithStep(r, st, s).state = st
<1> DEFINE k  == Len(r.steps)
           ss == Append(r.steps, s)
           n  == [r EXCEPT !.state = st, !.steps = ss]
<1>1. /\ r \in RunSet /\ r.steps \in Seq(StepSet) /\ k \in Nat /\ DOMAIN r.steps = 1 .. k
      /\ \A i \in 1 .. k : r.steps[i] \in StepSet
  BY StepsOf DEF GoodRun
<1>2. /\ ss \in Seq(StepSet) /\ Len(ss) = k + 1 /\ DOMAIN ss = 1 .. k + 1
      /\ ss[k + 1] = s /\ \A i \in 1 .. k : ss[i] = r.steps[i]
  BY <1>1, Appended
<1>3. \A i \in 1 .. k : r.steps[i].st = "completed"
  BY <1>1 DEF GoodRun, StepsAgree
<1>4. r.state \notin Terminal /\ k <= MaxSteps /\ MaxSteps \in Nat
  BY AgentAssumption DEF GoodRun, Terminal
<1>5. k = 0 <=> r.steps = <<>>
  BY <1>1
<1>6. ss # <<>>
  BY <1>1
<1> HIDE DEF ss
<1>7. Rewrites(n, r, st, ss)
  BY <1>1, <1>2, Rewriting
<1> HIDE DEF n
<1>8. GoodRun(n)
  <2>1. StepsAgree(n)
    <3>1. \A i \in 1 .. k : ss[i].st \notin Open /\ ss[i].st = "completed"
      BY <1>2, <1>3 DEF Open
    <3>2. CASE st \in Terminal
      BY <1>1, <1>2, <1>7, <3>1, <3>2 DEF StepsAgree, Rewrites, Terminal
    <3>3. CASE st \notin Terminal
      BY <1>1, <1>2, <1>6, <1>7, <3>1, <3>3 DEF StepsAgree, Rewrites
    <3> QED BY <3>2, <3>3
  <2>2. WorkflowShape(n)
    <3> SUFFICES ASSUME r.task = "governance", NEW i \in 1 .. k + 1
                 PROVE  /\ ss[i].tool = "assess" => i = 1
                        /\ ss[i].tool = "publish" => i = 2
      BY <1>2, <1>7 DEF WorkflowShape, Rewrites
    <3>1. CASE i = k + 1
      BY <1>1, <1>2, <1>5, <3>1
    <3>2. CASE i \in 1 .. k
      BY <1>1, <1>2, <3>2 DEF GoodRun, WorkflowShape
    <3> QED BY <1>1, <3>1, <3>2
  <2> QED BY <1>1, <1>2, <1>4, <1>7, <2>1, <2>2 DEF GoodRun, Rewrites
<1>9. Extends(r, n)
  BY <1>1, <1>2, <1>4, <1>7 DEF Extends, Rewrites
<1>10. Follows(n, r) /\ n.state = st
  BY <1>7, <1>8, <1>9 DEF Follows, Rewrites
<1> QED BY <1>10 DEF n, ss, WithStep

\* The last step replaced by s, a step of the same tool.
LEMMA LastWell ==
  ASSUME NEW r, GoodRun(r), r.state \in {"waiting_tool", "pending_approval"},
         NEW st \in {"failed", "running", "pending_approval"}, NEW s \in StepSet,
         s.tool = r.steps[Len(r.steps)].tool,
         st = "failed" => s.st = "failed",
         st = "running" => s.st = "completed",
         st = "pending_approval" => s.st = "pending_approval" /\ s.tool = "publish"
  PROVE  Follows(WithLast(r, st, s), r)
<1> DEFINE k  == Len(r.steps)
           ss == [r.steps EXCEPT ![k] = s]
<1>1. /\ r \in RunSet /\ r.steps \in Seq(StepSet) /\ k \in Nat /\ DOMAIN r.steps = 1 .. k
      /\ \A i \in 1 .. k : r.steps[i] \in StepSet
  BY StepsOf DEF GoodRun
<1>2. r.steps # <<>> /\ r.steps[k].st \in Open
  BY DEF GoodRun, StepsAgree, Open
<1>3. k \in 1 .. k
  BY <1>1, <1>2
<1>4. /\ ss \in Seq(StepSet) /\ Len(ss) = k /\ DOMAIN ss = 1 .. k
      /\ \A i \in 1 .. k : ss[i] = IF i = k THEN s ELSE r.steps[i]
  BY <1>1, <1>3, Replaced
<1>5. ss # <<>> /\ r.state \notin Terminal /\ st \in Open \cup Terminal
  BY <1>3, <1>4 DEF Open, Terminal
<1>6. \A i \in 1 .. k : i < k => r.steps[i].st = "completed"
  BY <1>1 DEF GoodRun, StepsAgree
<1> HIDE DEF ss
<1>7. Rewrites(WithLast(r, st, s), r, st, ss)
  BY <1>1, <1>4, <1>5, Rewriting DEF WithLast, Last, ss
<1>8. GoodRun(WithLast(r, st, s))
  <2>1. StepsAgree(WithLast(r, st, s))
    BY <1>1, <1>3, <1>4, <1>5, <1>6, <1>7 DEF StepsAgree, Rewrites, Open, Terminal, Tools
  <2>2. WorkflowShape(WithLast(r, st, s))
    BY <1>1, <1>3, <1>4, <1>7 DEF GoodRun, WorkflowShape, Rewrites
  <2> QED BY <1>4, <1>5, <1>7, <2>1, <2>2 DEF GoodRun, Rewrites
<1>9. Extends(r, WithLast(r, st, s))
  BY <1>1, <1>2, <1>3, <1>4, <1>5, <1>7 DEF Extends, Rewrites
<1> QED BY <1>7, <1>8, <1>9 DEF Follows, Rewrites

LEMMA FailsWell ==
  ASSUME NEW r, GoodRun(r), r.state \in {"created", "running"}
  PROVE  Follows(FailRun(r), r)
<1>1. ErrorStep \in StepSet /\ ErrorStep.st = "failed" /\ ErrorStep.tool = "none"
  BY StepTypes DEF ErrorStep, StepRec
<1>2. "failed" \in Terminal
  BY DEF Terminal
<1> QED BY <1>1, <1>2, AppendsWell DEF FailRun, Open

\* Every decision of a planner, for a run that goes on.
LEMMA PlansWell ==
  ASSUME NEW r, GoodRun(r), r.state = "running", Len(r.steps) < MaxSteps,
         NEW d \in Decisions(r)
  PROVE  /\ Follows(Planned(r, d), r)
         /\ d \in Tools => Planned(r, d).state = "waiting_tool"
<1>1. d \in {"assess", "publish", "final", "error"}
  BY DEF Decisions, GovernanceDecisions, Tools
<1>2. CASE d = "final"
  <2>1. FinalStep \in StepSet /\ FinalStep.st = "completed" /\ FinalStep.tool = "none"
    BY StepTypes DEF FinalStep, StepRec
  <2>2. "completed" \in Terminal
    BY DEF Terminal
  <2>3. Follows(WithStep(r, "completed", FinalStep), r)
    BY <2>1, <2>2, AppendsWell DEF Open
  <2> QED BY <1>2, <2>3 DEF Planned, Tools
<1>3. CASE d = "error"
  BY <1>3, FailsWell DEF Planned, Tools
<1>4. CASE d \in Tools
  <2>1. ToolStep(d) \in StepSet /\ ToolStep(d).st = "waiting_tool" /\ ToolStep(d).tool = d
    BY <1>4, StepTypes DEF ToolStep, StepRec
  <2>2. r.task = "governance" => /\ d = "assess" => r.steps = <<>>
                                 /\ d = "publish" => Len(r.steps) = 1
    <3> SUFFICES ASSUME r.task = "governance"
                 PROVE  /\ d = "assess" => r.steps = <<>>
                        /\ d = "publish" => Len(r.steps) = 1
      OBVIOUS
    <3>1. d \in GovernanceDecisions(r)
      BY DEF Decisions
    <3>2. CASE r.steps = <<>>
      BY <3>1, <3>2 DEF GovernanceDecisions
    <3>3. CASE r.steps # <<>>
      <4>1. d # "assess" /\ (d = "publish" => r.steps[Len(r.steps)].tool = "assess")
        BY <3>1, <3>3 DEF GovernanceDecisions, Last
      <4>2. Len(r.steps) \in DOMAIN r.steps
        BY <3>3, StepsOf DEF GoodRun
      <4> QED BY <4>1, <4>2 DEF GoodRun, WorkflowShape
    <3> QED BY <3>2, <3>3
  <2>3. "waiting_tool" \in Open /\ "waiting_tool" \notin Terminal
    BY DEF Open, Terminal
  <2>4. Follows(WithStep(r, "waiting_tool", ToolStep(d)), r)
        /\ WithStep(r, "waiting_tool", ToolStep(d)).state = "waiting_tool"
    BY <1>4, <2>1, <2>2, <2>3, AppendsWell
  <2> QED BY <1>4, <2>4 DEF Planned, Tools
<1> QED BY <1>1, <1>2, <1>3, <1>4 DEF Tools

LEMMA AnswersWell ==
  ASSUME NEW r, GoodRun(r), r.state \in {"waiting_tool", "pending_approval"},
         NEW res \in {"ready", "blocked", "ok", "error"}
  PROVE  Follows(Answered(r, res), r)
<1> DEFINE s == r.steps[Len(r.steps)]
<1>1. s \in StepSet
  <2>1. r.steps # <<>>
    BY DEF GoodRun, StepsAgree
  <2> QED BY <2>1, StepsOf DEF GoodRun
<1>2. s.kind \in {"tool_call", "final", "error"} /\ s.res \in {"none", "ready", "blocked", "ok"}
  BY <1>1 DEF StepSet
<1>3. CASE res = "error"
  <2> DEFINE t == StepRec("error", s.tool, "failed", s.res)
  <2>1. t \in StepSet /\ t.st = "failed" /\ t.tool = s.tool
    BY <1>1, <1>2, StepTypes DEF StepRec
  <2> HIDE DEF t
  <2>2. Follows(WithLast(r, "failed", t), r)
    BY <2>1, LastWell
  <2> QED BY <1>3, <2>2 DEF Answered, Last, t
<1>4. CASE res # "error"
  <2> DEFINE t == StepRec(s.kind, s.tool, "completed", res)
  <2>1. t \in StepSet /\ t.st = "completed" /\ t.tool = s.tool
    BY <1>1, <1>2, <1>4, StepTypes DEF StepRec
  <2> HIDE DEF t
  <2>2. Follows(WithLast(r, "running", t), r)
    BY <2>1, LastWell
  <2> QED BY <1>4, <2>2 DEF Answered, Last, t
<1> QED BY <1>3, <1>4

LEMMA WaitsWell ==
  ASSUME NEW r, GoodRun(r), r.state \in {"waiting_tool", "pending_approval"},
         r.steps[Len(r.steps)].tool = "publish"
  PROVE  Follows(Waiting(r), r)
<1> DEFINE s == r.steps[Len(r.steps)]
           t == StepRec(s.kind, s.tool, "pending_approval", s.res)
<1>1. s \in StepSet
  <2>1. r.steps # <<>>
    BY DEF GoodRun, StepsAgree
  <2> QED BY <2>1, StepsOf DEF GoodRun
<1>2. s.kind \in {"tool_call", "final", "error"} /\ s.res \in {"none", "ready", "blocked", "ok"}
  BY <1>1 DEF StepSet
<1>3. t \in StepSet /\ t.st = "pending_approval" /\ t.tool = "publish"
  BY <1>1, <1>2, StepTypes DEF StepRec
<1>4. Waiting(r) = WithLast(r, "pending_approval", t)
  BY DEF Waiting, Last
<1> HIDE DEF t
<1>5. Follows(WithLast(r, "pending_approval", t), r)
  BY <1>3, LastWell
<1> QED BY <1>4, <1>5

LEMMA TimesOutWell ==
  ASSUME NEW n, NEW r, Follows(n, r)
  PROVE  Follows([n EXCEPT !.timeout = TRUE], r)
<1> DEFINE m == [n EXCEPT !.timeout = TRUE]
<1>1. /\ m \in RunSet /\ m.steps = n.steps /\ m.task = n.task /\ m.state = n.state
      /\ m.ver = n.ver /\ m.tok = n.tok
  BY DEF Follows, GoodRun, RunSet
<1> HIDE DEF m
<1>2. GoodRun(m)
  BY <1>1 DEF Follows, GoodRun, StepsAgree, WorkflowShape
<1>3. Extends(r, m)
  BY <1>1 DEF Follows, Extends
<1>4. Follows(m, r)
  BY <1>1, <1>2, <1>3 DEF Follows
<1> QED BY <1>4 DEF m

LEMMA WritesWell ==
  ASSUME NEW r, GoodRun(r), NEW v \in Nat \ {0}, NEW l \in Nat
  PROVE  LET n == [r EXCEPT !.ver = v, !.tok = l]
         IN  GoodRun(n) /\ Written(n, r, r.state, v, l)
<1> DEFINE n == [r EXCEPT !.ver = v, !.tok = l]
<1>1. Written(n, r, r.state, v, l)
  BY Writing DEF GoodRun
<1> HIDE DEF n
<1>2. GoodRun(n)
  BY <1>1 DEF Written, GoodRun, StepsAgree, WorkflowShape
<1> QED BY <1>1, <1>2 DEF n

LEMMA StartsWell ==
  ASSUME NEW r, GoodRun(r), r.state \in {"created", "running"}
  PROVE  LET n == [r EXCEPT !.state = "running"]
         IN  GoodRun(n) /\ Written(n, r, "running", r.ver, r.tok)
<1> DEFINE n == [r EXCEPT !.state = "running"]
<1>1. Written(n, r, "running", r.ver, r.tok)
  BY DEF GoodRun, RunSet, Written, Open
<1> HIDE DEF n
<1>2. "running" \notin Terminal /\ r.state \notin Terminal
  BY DEF Terminal
<1>3. StepsAgree(n)
  BY <1>1, <1>2 DEF Written, GoodRun, StepsAgree
<1>4. WorkflowShape(n)
  BY <1>1 DEF Written, GoodRun, WorkflowShape
<1>5. GoodRun(n)
  BY <1>1, <1>2, <1>3, <1>4 DEF Written, GoodRun
<1> QED BY <1>1, <1>5 DEF n

-----------------------------------------------------------------------------
(* The copies of requests.                                                 *)

\* n is q at another point, with another copy.
Moves(n, q, pc, r) ==
  /\ n \in ReqSet /\ n.pc = pc /\ n.cur = r
  /\ n.op = q.op /\ n.user = q.user /\ n.call = q.call /\ n.lease = q.lease
  /\ n.waited = q.waited /\ n.granted = q.granted

LEMMA Moving ==
  ASSUME NEW q \in ReqSet, NEW pc \in Pcs, NEW r \in RunSet \cup {None}
  PROVE  Moves(At(q, pc, r), q, pc, r)
<1> DEFINE a == [q EXCEPT !.pc = pc]
           b == [a EXCEPT !.cur = r]
<1>1. Moves(a, q, pc, q.cur)
  BY DEF ReqSet, Moves
<1>2. b = At(q, pc, r)
  BY DEF At
<1> HIDE DEF a
<1>3. Moves(b, a, pc, r)
  BY <1>1 DEF ReqSet, Moves
<1> QED BY <1>1, <1>2, <1>3 DEF Moves

\* The same without its lease.
Releases(n, q, pc, r) ==
  /\ n \in ReqSet /\ n.pc = pc /\ n.cur = r /\ n.lease = 0
  /\ n.op = q.op /\ n.user = q.user /\ n.call = q.call
  /\ n.waited = q.waited /\ n.granted = q.granted

LEMMA Releasing ==
  ASSUME NEW q \in ReqSet, NEW pc \in Pcs, NEW r \in RunSet \cup {None}
  PROVE  Releases([At(q, pc, r) EXCEPT !.lease = 0], q, pc, r)
<1> DEFINE a == At(q, pc, r)
<1>1. Moves(a, q, pc, r)
  BY Moving
<1> HIDE DEF a
<1>2. Releases([a EXCEPT !.lease = 0], q, pc, r)
  BY <1>1 DEF ReqSet, Moves, Releases
<1> QED BY <1>2 DEF a

\* Where a request goes when a call of the orchestrator returned r.
LEMMA Returning ==
  ASSUME NEW q \in ReqSet, NEW r, GoodRun(r)
  PROVE  \/ Releases(Returned(q, r), q, "back", r)
         \/ q.call = "run" /\ Releases(Returned(q, r), q, "lock", None)
<1>1. "back" \in Pcs /\ "lock" \in Pcs
  BY DEF Pcs, Holds
<1>2. /\ Releases([At(q, "back", r) EXCEPT !.lease = 0], q, "back", r)
      /\ Releases([At(q, "lock", None) EXCEPT !.lease = 0], q, "lock", None)
  BY <1>1, Releasing DEF GoodRun
<1> QED BY <1>2 DEF Returned

LEMMA IdleIsGood ==
  ASSUME NEW r, NEW t \in Nat
  PROVE  ReqInv(Idle, r, t) /\ Idle \in ReqSet /\ Idle.pc = "idle" /\ Idle.lease = 0
BY DEF Idle, ReqInv, ReqSet, Pcs, Holds, Fresh, Ops, Calls

LEMMA NoneIsNoRun == \A r : GoodRun(r) => r # None
BY NoneAssumption DEF GoodRun

\* A copy stays what it is while the record moves on.
MovesOn(r, n) == n # None /\ n.task = r.task /\ n.ver > r.ver

LEMMA CopyStays ==
  ASSUME NEW q, NEW r, NEW n, NEW t \in Nat, NEW u \in Nat, t <= u,
         ReqInv(q, r, t), RunInv(r, t), RunInv(n, u),
         n = r \/ (r # None /\ MovesOn(r, n))
  PROVE  ReqInv(q, n, u)
<1>1. q \in ReqSet /\ q.lease \in Nat
  BY DEF ReqInv, ReqSet
<1>2. ASSUME q.pc \in Holds PROVE Copy(q, n, u)
  <2>1. Copy(q, r, t) /\ r # None
    BY <1>2 DEF ReqInv, Holds, Fresh
  <2>2. q.cur.tok \in Nat /\ q.cur.ver \in Nat /\ r.ver \in Nat
    BY <2>1 DEF Copy, GoodRun, RunSet, RunInv
  <2>3. n # None => n.ver \in Nat
    BY DEF RunInv, GoodRun, RunSet
  <2>4. CASE n = r
    BY <2>1, <2>2, <2>4 DEF Copy
  <2>5. CASE MovesOn(r, n)
    BY <2>1, <2>2, <2>3, <2>5 DEF Copy, Current, MovesOn
  <2> QED BY <2>4, <2>5
<1> QED BY <1>1, <1>2 DEF ReqInv, MovesOn

\* One request moves to q; the rest of the state is well formed.
LEMMA Frame ==
  ASSUME CopiesInv, NEW w \in Requests, NEW q, req' = [req EXCEPT ![w] = q],
         Scalars', token <= token', RunInv(run', token'), ReqInv(q, run', token'),
         run' = run \/ (run # None /\ MovesOn(run, run'))
  PROVE  CopiesInv'
<1>1. token \in Nat /\ token' \in Nat
  BY DEF CopiesInv, Scalars
<1>2. DOMAIN req' = Requests
  BY DEF CopiesInv
<1>3. ASSUME NEW v \in Requests PROVE ReqInv(req'[v], run', token')
  <2>1. CASE v = w
    BY <2>1 DEF CopiesInv
  <2>2. CASE v # w
    <3>1. req'[v] = req[v]
      BY <2>2 DEF CopiesInv
    <3>2. ReqInv(req[v], run, token) /\ RunInv(run, token)
      BY DEF CopiesInv
    <3> QED BY <1>1, <3>1, <3>2, CopyStays
  <2> QED BY <2>1, <2>2
<1> QED BY <1>2, <1>3 DEF CopiesInv

\* A request in the middle of a call.
LEMMA InCall ==
  ASSUME CopiesInv, NEW w \in Requests, req[w].pc # "idle"
  PROVE  /\ run # None /\ GoodRun(run) /\ run.tok <= token /\ run.ver \in Nat \ {0}
         /\ run.tok \in Nat /\ token \in Nat
         /\ req[w] \in ReqSet /\ req[w].lease \in Nat /\ req[w].lease <= token
         /\ req[w].pc \in Holds => Copy(req[w], run, token)
         /\ req[w].pc \notin Holds => req[w].cur = None
<1>1. run # None /\ ReqInv(req[w], run, token) /\ RunInv(run, token) /\ token \in Nat
  BY DEF CopiesInv, ReqInv, Scalars
<1>2. GoodRun(run)
  BY <1>1 DEF RunInv
<1> QED BY <1>1, <1>2 DEF RunInv, GoodRun, RunSet, ReqInv, ReqSet

LEMMA FreeOnlyFrees ==
  ASSUME NEW q, Free(q)
  PROVE  held' \in {held, FALSE}
BY DEF Free

\* A step that leaves the record and the lock's counter alone, and takes the
\* request to q.
LEMMA StayCopies ==
  ASSUME CopiesInv, NEW w \in Requests, NEW q, req' = [req EXCEPT ![w] = q],
         UNCHANGED <<run, token>>, Scalars', ReqInv(q, run, token)
  PROVE  CopiesInv'
BY Frame DEF CopiesInv, Scalars

LEMMA SameScalars ==
  ASSUME Scalars, UNCHANGED <<token, lapsed, late, approvals, published>>, held' \in {held, FALSE}
  PROVE  Scalars'
<1>1. held \in BOOLEAN /\ (held => token # 0)
  BY DEF Scalars
<1>2. held' \in BOOLEAN /\ (held' => token # 0)
  <2>1. CASE held' = held
    BY <1>1, <2>1, Zenon
  <2>2. CASE held' = FALSE
    BY <2>2, Zenon
  <2> QED BY <2>1, <2>2
<1> QED BY <1>2 DEF Scalars

LEMMA GiveUpCopies ==
  ASSUME CopiesInv, NEW w \in Requests, GiveUp(w),
         UNCHANGED <<run, token, lapsed, late, approvals, published>>
  PROVE  CopiesInv'
<1>1. Scalars'
  BY FreeOnlyFrees, SameScalars DEF CopiesInv, GiveUp
<1>2. ReqInv(Idle, run, token)
  BY IdleIsGood DEF CopiesInv, Scalars
<1>3. req' = [req EXCEPT ![w] = Idle]
  BY DEF GiveUp
<1> QED BY <1>1, <1>2, <1>3, StayCopies

LEMMA CreateCopies ==
  ASSUME CopiesInv, NEW w \in Requests, Create(w)
  PROVE  CopiesInv'
<1> DEFINE q == Request("create", Requester, "run", 0, FALSE)
<1>1. PICK task \in Tasks : run' = NewRun(task) /\ req' = [req EXCEPT ![w] = q]
  BY DEF Create
<1>2. run = None /\ UNCHANGED <<token, held, lapsed, late, approvals, published>>
  BY DEF Create
<1>3. Scalars' /\ token \in Nat
  BY <1>2, SameScalars DEF CopiesInv, Scalars
<1>4. GoodRun(run') /\ run'.tok = 0 /\ run' # None
  BY <1>1, NewIsGood, NoneIsNoRun
<1>5. q \in ReqSet /\ q.pc = "lock" /\ q.cur = None /\ q.lease = 0
  BY DEF Request, ReqSet, Pcs, Ops, Calls, Users
<1> HIDE DEF q
<1>6. ASSUME NEW v \in Requests PROVE ReqInv(req'[v], run', token')
  <2>1. CASE v = w
    BY <1>1, <1>2, <1>3, <1>4, <1>5, <2>1 DEF CopiesInv, ReqInv, Holds, Fresh
  <2>2. CASE v # w
    <3>1. req'[v] = req[v] /\ ReqInv(req[v], run, token)
      BY <1>1, <2>2 DEF CopiesInv
    <3>2. req[v].pc = "idle"
      BY <1>2, <3>1 DEF ReqInv
    <3> QED BY <1>2, <3>1, <3>2 DEF ReqInv, Holds, Fresh
  <2> QED BY <2>1, <2>2
<1>7. RunInv(run', token')
  BY <1>2, <1>3, <1>4 DEF RunInv
<1>8. DOMAIN req' = Requests
  BY <1>1 DEF CopiesInv
<1> QED BY <1>3, <1>6, <1>7, <1>8 DEF CopiesInv

LEMMA WaitsType ==
  ASSUME NEW r, GoodRun(r)
  PROVE  /\ Waits(r) \in {0} \cup Indexes
         /\ Waits(r) # 0 => /\ Waits(r) \in Indexes /\ Waits(r) = Len(r.steps)
                            /\ r.state = "pending_approval"
                            /\ r.task = "governance" => Waits(r) = 2
<1>1. CASE r.state = "pending_approval"
  <2>1. /\ PendingStep(r) = Len(r.steps) /\ PendingStep(r) \in DOMAIN r.steps
        /\ PendingStep(r) \in Indexes /\ r.steps[PendingStep(r)].tool = "publish"
    BY <1>1, WaitingStep
  <2>2. r.task = "governance" => PendingStep(r) = 2
    BY <2>1 DEF GoodRun, WorkflowShape
  <2> QED BY <1>1, <2>1, <2>2 DEF Waits
<1>2. CASE r.state # "pending_approval"
  BY <1>2 DEF Waits
<1> QED BY <1>1, <1>2

LEMMA ReceiveCopies ==
  ASSUME CopiesInv, NEW w \in Requests, NEW op \in Ops \ {"none", "create"}, NEW user \in Users,
         Receive(w, op, user)
  PROVE  CopiesInv'
<1> DEFINE call == IF op = "resume" THEN "run" ELSE "lifecycle"
           granted == op = "resume" /\ GrantedTo(run)
           q == Request(op, user, call, Waits(run), granted)
<1>1. /\ run # None /\ req' = [req EXCEPT ![w] = q]
      /\ UNCHANGED <<run, token, held, lapsed, late, approvals, published>>
  BY DEF Receive
<1>2. Scalars' /\ Scalars /\ token \in Nat /\ GoodRun(run)
  BY <1>1, SameScalars DEF CopiesInv, Scalars, RunInv
<1>3. call \in Calls /\ granted \in BOOLEAN /\ Waits(run) \in {0} \cup Indexes
  BY <1>2, WaitsType DEF Calls
<1> HIDE DEF call, granted
<1>4. q \in ReqSet /\ q.pc = "lock" /\ q.cur = None /\ q.lease = 0
  BY <1>3 DEF Request, ReqSet, Pcs
<1> HIDE DEF q
<1>5. ReqInv(q, run, token)
  BY <1>1, <1>2, <1>4 DEF ReqInv, Holds, Fresh
<1> QED BY <1>1, <1>2, <1>5, StayCopies

LEMMA AcquireCopies ==
  ASSUME CopiesInv, NEW w \in Requests, Acquire(w)
  PROVE  CopiesInv'
<1>1. /\ run # None /\ req[w] \in ReqSet /\ req[w].pc = "lock" /\ req[w].cur = None
      /\ token \in Nat /\ RunInv(run, token) /\ Scalars
  BY InCall DEF Acquire, CopiesInv, Scalars, Holds, Fresh
<1>2. UNCHANGED <<run, lapsed, late, approvals, published>>
  BY DEF Acquire
<1>3. CASE held
  <2>1. req' = [req EXCEPT ![w] = Idle] /\ UNCHANGED <<token, held>>
    BY <1>3 DEF Acquire
  <2>2. Scalars'
    BY <1>1, <1>2, <2>1, SameScalars DEF Scalars
  <2> QED BY <1>1, <1>2, <2>1, <2>2, IdleIsGood, StayCopies
<1>4. CASE ~held
  <2> DEFINE q == [req[w] EXCEPT !.pc = "load", !.lease = token + 1]
  <2>1. req' = [req EXCEPT ![w] = q] /\ token' = token + 1 /\ held' = TRUE
    BY <1>4 DEF Acquire
  <2>2. Scalars'
    BY <1>1, <1>2, <2>1 DEF Scalars
  <2> DEFINE a == [req[w] EXCEPT !.pc = "load"]
             b == [a EXCEPT !.lease = token + 1]
  <2>3. q \in ReqSet /\ q.pc = "load" /\ q.cur = None /\ q.lease = token + 1
    <3>1. q = b
      OBVIOUS
    <3>2. a \in ReqSet /\ a.pc = "load" /\ a.cur = None
      BY <1>1 DEF ReqSet, Pcs
    <3> HIDE DEF a
    <3>3. b \in ReqSet /\ b.pc = "load" /\ b.cur = None /\ b.lease = token + 1
      BY <1>1, <3>2 DEF ReqSet
    <3> QED BY <3>1, <3>3
  <2> HIDE DEF q, a
  <2>4. ReqInv(q, run', token')
    BY <1>1, <1>2, <2>1, <2>3 DEF ReqInv, Holds, Fresh
  <2>5. RunInv(run', token')
    BY <1>1, <1>2, <2>1 DEF RunInv, GoodRun, RunSet
  <2>6. token <= token' /\ run' = run
    BY <1>1, <1>2, <2>1
  <2> QED BY <2>1, <2>2, <2>4, <2>5, <2>6, Frame
<1> QED BY <1>3, <1>4

LEMMA ReturnedIsGood ==
  ASSUME NEW q \in ReqSet, NEW r, GoodRun(r), NEW t \in Nat, r.tok <= t
  PROVE  ReqInv(Returned(q, r), r, t) /\ Returned(q, r).lease = 0
<1>1. r # None /\ r.ver \in Nat
  BY NoneIsNoRun DEF GoodRun, RunSet
<1>2. CASE Releases(Returned(q, r), q, "back", r)
  BY <1>1, <1>2 DEF Releases, ReqInv, Copy, Stage, Current, Holds, Fresh
<1>3. CASE Releases(Returned(q, r), q, "lock", None)
  BY <1>1, <1>3 DEF Releases, ReqInv, Holds, Fresh
<1> QED BY <1>2, <1>3, Returning

\* A request inside a call, with a copy that can be saved over the record.
LEMMA CommitIsGood ==
  ASSUME NEW q \in ReqSet, NEW r, NEW n, NEW t \in Nat, q.lease <= t, r # None,
         GoodRun(n), n.tok <= t, n.task = r.task, n.ver <= r.ver,
         n.ver = r.ver => Extends(r, n),
         NEW pc \in {"commit", "persist"}, pc = "persist" => n.state = "waiting_tool"
  PROVE  ReqInv(At(q, pc, n), r, t)
<1>1. Moves(At(q, pc, n), q, pc, n)
  BY Moving DEF GoodRun, Pcs, Holds
<1> QED BY <1>1 DEF Moves, ReqInv, Copy, Stage, Current, Holds, Fresh

\* A request inside a call that has read, or just written, the record.
LEMMA FreshIsGood ==
  ASSUME NEW q \in ReqSet, NEW r, GoodRun(r), r.state \notin Terminal,
         NEW t \in Nat, q.lease <= t, r.tok <= t, NEW pc \in {"claim", NextStage(r)}
  PROVE  ReqInv(At(q, pc, r), r, t)
<1>1. pc \in Fresh /\ pc \in Pcs
  BY DEF NextStage, Fresh, Pcs, Holds
<1>2. Moves(At(q, pc, r), q, pc, r)
  BY <1>1, Moving DEF GoodRun
<1>3. r # None /\ r.ver \in Nat
  BY NoneIsNoRun DEF GoodRun, RunSet
<1>4. pc # "persist" /\ pc # "commit"
  BY <1>1 DEF Fresh
<1> HIDE DEF At
<1>5. Stage(At(q, pc, r)) /\ Current(At(q, pc, r), r)
  BY <1>1, <1>2, <1>4 DEF Moves, Stage, Current
<1> QED BY <1>1, <1>2, <1>3, <1>5 DEF Moves, ReqInv, Copy, Holds, Fresh

LEMMA LoadCopies ==
  ASSUME CopiesInv, NEW w \in Requests, Load(w)
  PROVE  CopiesInv'
<1> DEFINE q == req[w]
<1>1. /\ q.pc = "load" /\ run # None /\ GoodRun(run) /\ run.tok <= token /\ token \in Nat
      /\ q \in ReqSet /\ q.lease <= token /\ held \in BOOLEAN /\ Scalars
  BY InCall DEF Load, CopiesInv, Scalars
<1>2. UNCHANGED <<run, token, lapsed, late, approvals, published>>
  BY DEF Load
<1>3. CASE Refused(q)
  BY <1>2, <1>3, GiveUpCopies DEF Load
<1>4. CASE ~Refused(q)
  <2>1. req' = [req EXCEPT ![w] = Loaded(q)]
    BY <1>4 DEF Load
  <2>2. held' \in {held, FALSE}
    <3>1. Free(q) \/ held' = held
      BY <1>4 DEF Load
    <3> QED BY <1>1, <3>1, FreeOnlyFrees
  <2>3. Scalars'
    BY <1>1, <1>2, <2>2, SameScalars
  <2>4. ReqInv(Loaded(q), run, token)
    <3> HIDE DEF q
    <3>1. CASE Loaded(q) = Returned(q, run)
      BY <1>1, <3>1, ReturnedIsGood
    <3>2. ASSUME Loaded(q) # Returned(q, run) PROVE run.state \notin Terminal
      BY <3>2 DEF Loaded
    <3>3. ASSUME run.state \notin Terminal, NEW st \in {"failed", "cancelled"}
          PROVE  /\ ReqInv(At(q, "commit", Close(run, st)), run, token)
                 /\ ReqInv(At(q, "commit", [Close(run, st) EXCEPT !.timeout = TRUE]), run, token)
      <4>1. Follows(Close(run, st), run)
        BY <1>1, <3>3, ClosesWell
      <4>2. Follows([Close(run, st) EXCEPT !.timeout = TRUE], run)
        BY <4>1, TimesOutWell
      <4>3. run.ver \in Nat
        BY <1>1 DEF GoodRun, RunSet
      <4>4. ASSUME NEW n, Follows(n, run) PROVE ReqInv(At(q, "commit", n), run, token)
        BY <1>1, <4>3, <4>4, CommitIsGood DEF Follows
      <4> QED BY <4>1, <4>2, <4>4
    <3>4. ASSUME run.state \notin Terminal, NEW pc \in {"claim", NextStage(run)}
          PROVE  ReqInv(At(q, pc, run), run, token)
      BY <1>1, <3>4, FreshIsGood
    <3>5. \/ Loaded(q) = Returned(q, run)
          \/ Loaded(q) = At(q, "commit", [Close(run, "failed") EXCEPT !.timeout = TRUE])
          \/ Loaded(q) = At(q, "commit", Close(run, "cancelled"))
          \/ Loaded(q) = At(q, "commit", Close(run, "failed"))
          \/ \E pc \in {"claim", NextStage(run)} : Loaded(q) = At(q, pc, run)
      BY DEF Loaded
    <3> QED BY <3>1, <3>2, <3>3, <3>4, <3>5
  <2> QED BY <1>2, <2>1, <2>3, <2>4, StayCopies
<1> QED BY <1>3, <1>4

\* What a save writes: the request's copy, or the step to running, as the
\* next version.
LEMMA Saving ==
  ASSUME CopiesInv, NEW w \in Requests, req[w].pc \in Holds, req[w].pc # "back",
         Saves(req[w]), NEW r, GoodRun(r), r.task = run.task,
         run' = Saved(r, req[w].lease), token' = token
  PROVE  /\ GoodRun(run') /\ run'.tok <= token /\ RunInv(run', token') /\ MovesOn(run, run')
         /\ run # None /\ run'.state = r.state /\ run'.steps = r.steps
<1>1. /\ run # None /\ run.ver \in Nat \ {0} /\ req[w].lease \in Nat /\ req[w].lease <= token
      /\ token \in Nat
  BY InCall DEF Holds, Fresh
<1>2. run.ver + 1 \in Nat \ {0}
  BY <1>1
<1>3. GoodRun(run') /\ Written(run', r, r.state, run.ver + 1, req[w].lease)
  BY <1>1, <1>2, WritesWell DEF Saved
<1>4. run' # None
  BY <1>3, NoneIsNoRun
<1> QED BY <1>1, <1>3, <1>4 DEF Written, RunInv, MovesOn

LEMMA SaveCopies ==
  ASSUME CopiesInv, NEW w \in Requests, Save(w)
  PROVE  CopiesInv'
<1> DEFINE q == req[w]
           r == IF q.pc = "start" THEN [q.cur EXCEPT !.state = "running"] ELSE q.cur
<1>1. q.pc \in {"claim", "start", "persist"} /\ q.pc \in Holds /\ q.pc # "back"
  BY DEF Save, Holds, Fresh
<1>2. /\ run # None /\ GoodRun(run) /\ run.tok <= token /\ token \in Nat
      /\ q \in ReqSet /\ q.lease <= token /\ Copy(q, run, token) /\ Scalars
  BY <1>1, InCall DEF CopiesInv
<1>3. UNCHANGED <<token, lapsed, late, approvals, published>>
  BY DEF Save
<1>4. CASE Saves(q)
  <2>1. /\ run' = Saved(r, q.lease) /\ req' = [req EXCEPT ![w] = At(q, NextStage(run'), run')]
        /\ held' = held
    BY <1>4 DEF Save
  <2>2. GoodRun(r) /\ r.task = run.task /\ r.state \notin Terminal
    <3>1. CASE q.pc = "start"
      <4>1. q.cur.state \in {"created", "running"}
        BY <1>2, <3>1 DEF Copy, Stage, NextStage, Fresh
      <4>2. GoodRun(r) /\ Written(r, q.cur, "running", q.cur.ver, q.cur.tok)
        BY <1>2, <3>1, <4>1, StartsWell DEF Copy
      <4> QED BY <1>2, <4>2 DEF Copy, Written, Terminal
    <3>2. CASE q.pc = "claim"
      BY <1>2, <3>2 DEF Copy, Stage, Fresh
    <3>3. CASE q.pc = "persist"
      BY <1>2, <3>3 DEF Copy, Stage, Terminal
    <3> QED BY <1>1, <3>1, <3>2, <3>3
  <2> HIDE DEF r
  <2>3. /\ GoodRun(run') /\ run'.tok <= token /\ RunInv(run', token') /\ MovesOn(run, run')
        /\ run'.state \notin Terminal
    BY <1>1, <1>3, <1>4, <2>1, <2>2, Saving
  <2> HIDE DEF q
  <2>4. ReqInv(At(q, NextStage(run'), run'), run', token')
    BY <1>2, <1>3, <2>3, FreshIsGood
  <2>5. Scalars'
    BY <1>2, <1>3, <2>1, SameScalars DEF Scalars
  <2>6. token <= token'
    BY <1>2, <1>3
  <2> QED BY <1>2, <2>1, <2>3, <2>4, <2>5, <2>6, Frame
<1>5. CASE ~Saves(q)
  BY <1>3, <1>5, GiveUpCopies DEF Save
<1> QED BY <1>4, <1>5

\* A request in the orchestrator that changes its copy and goes on to save it.
LEMMA ChangeCopies ==
  ASSUME CopiesInv, NEW w \in Requests, req[w].pc \in Fresh,
         NEW n, Follows(n, req[w].cur),
         NEW pc \in {"commit", "persist"}, pc = "persist" => n.state = "waiting_tool",
         req' = [req EXCEPT ![w] = At(req[w], pc, n)],
         UNCHANGED <<run, token>>, Scalars'
  PROVE  CopiesInv'
<1> DEFINE q == req[w]
<1>1. /\ run # None /\ token \in Nat /\ q \in ReqSet /\ q.lease <= token
      /\ Copy(q, run, token)
  BY InCall DEF Holds, Fresh
<1>2. /\ GoodRun(n) /\ n.tok <= token /\ n.task = run.task /\ n.ver <= run.ver
      /\ n.ver = run.ver => Extends(run, n)
  BY <1>1 DEF Copy, Current, Follows
<1> HIDE DEF q
<1>3. ReqInv(At(q, pc, n), run, token)
  BY <1>1, <1>2, CommitIsGood
<1> QED BY <1>3, StayCopies DEF q

LEMMA PlanCopies ==
  ASSUME CopiesInv, NEW w \in Requests, Plan(w)
  PROVE  CopiesInv'
<1> DEFINE q == req[w]
<1>1. q.pc \in {"plan", "exhausted"} /\ q.pc \in Fresh
  BY DEF Plan, Fresh
<1>2. /\ Copy(q, run, token) /\ Scalars
  BY <1>1, InCall DEF CopiesInv, Holds, Fresh
<1>3. UNCHANGED <<run, token, lapsed, late, approvals, published, held>>
  BY DEF Plan
<1>4. Scalars'
  BY <1>2, <1>3, SameScalars DEF Scalars
<1>5. GoodRun(q.cur) /\ q.pc = NextStage(q.cur) /\ q.cur.state \notin Terminal
  BY <1>1, <1>2 DEF Copy, Stage, Fresh
<1>6. q.cur.state \in {"created", "running"} /\ Len(q.cur.steps) \in Nat
  BY <1>1, <1>5, StepsOf DEF NextStage, GoodRun, RunSet, Open
<1>7. CASE q.pc = "exhausted"
  <2>1. req' = [req EXCEPT ![w] = At(q, "commit", FailRun(q.cur))]
    BY <1>7 DEF Plan
  <2>2. Follows(FailRun(q.cur), q.cur)
    BY <1>5, <1>6, FailsWell
  <2> QED BY <1>1, <1>3, <1>4, <2>1, <2>2, ChangeCopies
<1>8. CASE q.pc = "plan"
  <2>1. PICK d \in Decisions(q.cur) :
          req' = [req EXCEPT ![w] =
                    At(q, IF d \in Tools THEN "persist" ELSE "commit", Planned(q.cur, d))]
    BY <1>8 DEF Plan
  <2>2. q.cur.state = "running" /\ Len(q.cur.steps) < MaxSteps
    BY <1>5, <1>6, <1>8, AgentAssumption DEF NextStage, Last
  <2>3. /\ Follows(Planned(q.cur, d), q.cur)
        /\ d \in Tools => Planned(q.cur, d).state = "waiting_tool"
    BY <1>5, <2>2, PlansWell
  <2> HIDE DEF q
  <2>4. CASE d \in Tools
    <3>1. req' = [req EXCEPT ![w] = At(q, "persist", Planned(q.cur, d))]
      BY <2>1, <2>4
    <3> QED BY <1>1, <1>3, <1>4, <2>3, <2>4, <3>1, ChangeCopies DEF q
  <2>5. CASE d \notin Tools
    <3>1. req' = [req EXCEPT ![w] = At(q, "commit", Planned(q.cur, d))]
      BY <2>1, <2>5
    <3> QED BY <1>1, <1>3, <1>4, <2>3, <2>5, <3>1, ChangeCopies DEF q
  <2> QED BY <2>4, <2>5
<1> QED BY <1>1, <1>7, <1>8

\* A request about to run the handler of its last step.
LEMMA Executing ==
  ASSUME CopiesInv, NEW w \in Requests, req[w].pc = "exec"
  PROVE  /\ Copy(req[w], run, token) /\ GoodRun(req[w].cur) /\ Scalars
         /\ req[w].cur.state \in {"waiting_tool", "pending_approval"}
         /\ Last(req[w].cur) \in Indexes
         /\ Last(req[w].cur) \in DOMAIN req[w].cur.steps
         /\ req[w].pc \in Fresh
<1>1. Copy(req[w], run, token) /\ GoodRun(req[w].cur) /\ Scalars
  BY InCall DEF CopiesInv, Holds, Fresh, Copy
<1>2. req[w].cur.state \in {"waiting_tool", "pending_approval"}
  BY <1>1 DEF Copy, Stage, Fresh, NextStage
<1>3. req[w].cur.steps # <<>> /\ Len(req[w].cur.steps) <= MaxSteps + 1
  BY <1>1, <1>2 DEF GoodRun, StepsAgree
<1>4. Last(req[w].cur) \in DOMAIN req[w].cur.steps
  BY <1>1, <1>3, StepsOf DEF GoodRun, Last
<1>5. Last(req[w].cur) \in Indexes
  BY <1>1, <1>3, <1>4, StepsOf, AgentAssumption DEF GoodRun, Last, Indexes
<1> QED BY <1>1, <1>2, <1>4, <1>5 DEF Fresh

LEMMA ExecuteAssessCopies ==
  ASSUME CopiesInv, NEW w \in Requests, ExecuteAssess(w)
  PROVE  CopiesInv'
<1> DEFINE q == req[w]
<1>1. PICK res \in {"ready", "blocked", "error"} :
        req' = [req EXCEPT ![w] = At(q, "commit", Answered(q.cur, res))]
  BY DEF ExecuteAssess
<1>2. /\ q.pc = "exec" /\ UNCHANGED <<run, token, lapsed, late, approvals, published, held>>
  BY DEF ExecuteAssess
<1>3. /\ GoodRun(q.cur) /\ Scalars /\ q.pc \in Fresh
      /\ q.cur.state \in {"waiting_tool", "pending_approval"}
  BY <1>2, Executing
<1>4. Scalars'
  BY <1>2, <1>3, SameScalars DEF Scalars
<1>5. Follows(Answered(q.cur, res), q.cur)
  BY <1>3, AnswersWell
<1> QED BY <1>1, <1>2, <1>3, <1>4, <1>5, ChangeCopies

LEMMA ExecutePublishCopies ==
  ASSUME CopiesInv, NEW w \in Requests, ExecutePublish(w)
  PROVE  CopiesInv'
<1> DEFINE q == req[w]
           i == Last(q.cur)
<1>1. /\ q.pc = "exec" /\ q.cur.steps[i].tool = "publish"
      /\ UNCHANGED <<run, token, lapsed, late, approvals, held>>
  BY DEF ExecutePublish
<1>2. /\ GoodRun(q.cur) /\ Scalars /\ q.pc \in Fresh /\ i \in Indexes
      /\ q.cur.state \in {"waiting_tool", "pending_approval"}
  BY <1>1, Executing
<1>3. CASE ~AuthorizedToPublish(q)
  <2>1. req' = [req EXCEPT ![w] = At(q, "commit", Waiting(q.cur))] /\ published' = published
    BY <1>3 DEF ExecutePublish
  <2>2. Scalars'
    BY <1>1, <1>2, <2>1, SameScalars DEF Scalars
  <2>3. Follows(Waiting(q.cur), q.cur)
    BY <1>1, <1>2, WaitsWell DEF Last
  <2> QED BY <1>1, <1>2, <2>1, <2>2, <2>3, ChangeCopies
<1>4. CASE AuthorizedToPublish(q)
  <2>1. PICK res \in {"ok", "error"} :
          /\ req' = [req EXCEPT ![w] = At(q, "commit", Answered(q.cur, res))]
          /\ published' = published \/ published' = published \cup {i}
    BY <1>4 DEF ExecutePublish
  <2>2. Scalars'
    BY <1>1, <1>2, <2>1 DEF Scalars
  <2>3. Follows(Answered(q.cur, res), q.cur)
    BY <1>2, AnswersWell
  <2> QED BY <1>1, <1>2, <2>1, <2>2, <2>3, ChangeCopies
<1> QED BY <1>3, <1>4

LEMMA CommitCopies ==
  ASSUME CopiesInv, NEW w \in Requests, Commit(w)
  PROVE  CopiesInv'
<1> DEFINE q == req[w]
<1>1. q.pc = "commit" /\ q.pc \in Holds /\ q.pc # "back"
  BY DEF Commit, Holds
<1>2. /\ run # None /\ token \in Nat /\ q \in ReqSet /\ Copy(q, run, token) /\ Scalars
  BY <1>1, InCall DEF CopiesInv
<1>3. UNCHANGED <<token, lapsed, late, approvals, published>>
  BY DEF Commit
<1>4. CASE Saves(q)
  <2>1. /\ run' = Saved(q.cur, q.lease) /\ req' = [req EXCEPT ![w] = Returned(q, run')]
        /\ Free(q)
    BY <1>4 DEF Commit
  <2>2. GoodRun(q.cur) /\ q.cur.task = run.task
    BY <1>2 DEF Copy
  <2>3. GoodRun(run') /\ run'.tok <= token /\ RunInv(run', token') /\ MovesOn(run, run')
    BY <1>1, <1>3, <1>4, <2>1, <2>2, Saving
  <2> HIDE DEF q
  <2>4. ReqInv(Returned(q, run'), run', token')
    BY <1>2, <1>3, <2>3, ReturnedIsGood
  <2>5. Scalars'
    BY <1>2, <1>3, <2>1, FreeOnlyFrees, SameScalars DEF Scalars
  <2>6. token <= token'
    BY <1>2, <1>3
  <2> QED BY <1>2, <2>1, <2>3, <2>4, <2>5, <2>6, Frame
<1>5. CASE ~Saves(q)
  BY <1>3, <1>5, GiveUpCopies DEF Commit
<1> QED BY <1>4, <1>5

-----------------------------------------------------------------------------
(* What the handlers make of the approvals: nothing is approved or undone  *)
(* but by Decide.                                                          *)

ApprovedAlike(a, b) ==
  /\ b \in [Indexes -> ApprovalSet]
  /\ \A i \in Indexes : a[i].status = "approved" \/ b[i].status = "approved" => a[i] = b[i]

LEMMA EnsuredAlike ==
  ASSUME approvals \in [Indexes -> ApprovalSet], NEW i \in {0} \cup Indexes
  PROVE  ApprovedAlike(approvals, Ensured(i))
<1>1. CASE i = 0 \/ approvals[i].status # "none"
  BY <1>1 DEF Ensured, ApprovedAlike
<1>2. CASE i # 0 /\ approvals[i].status = "none"
  <2> DEFINE s == [approvals[i] EXCEPT !.status = "pending"]
  <2>1. i \in Indexes /\ approvals[i] \in ApprovalSet
    BY <1>2
  <2>2. s \in ApprovalSet /\ s.status = "pending"
    BY <2>1 DEF ApprovalSet
  <2>3. Ensured(i) = [approvals EXCEPT ![i] = s]
    BY <1>2 DEF Ensured
  <2> HIDE DEF s
  <2> QED BY <1>2, <2>1, <2>2, <2>3 DEF ApprovedAlike
<1> QED BY <1>1, <1>2

LEMMA RejectedAlike ==
  ASSUME approvals \in [Indexes -> ApprovalSet], NEW i \in {0} \cup Indexes,
         NEW by \in Users \cup {None}
  PROVE  ApprovedAlike(approvals, Rejected(i, by))
<1>1. CASE i # 0 /\ Ensured(i)[i].status = "pending"
  <2> DEFINE s == [status |-> "rejected", by |-> by]
  <2>1. s \in ApprovalSet /\ s.status = "rejected"
    BY DEF ApprovalSet
  <2>2. Rejected(i, by) = [approvals EXCEPT ![i] = s]
    BY <1>1 DEF Rejected
  <2>3. i \in Indexes /\ ApprovedAlike(approvals, Ensured(i))
    BY <1>1, EnsuredAlike
  <2>4. approvals[i].status # "approved"
    BY <1>1, <2>3 DEF ApprovedAlike
  <2> HIDE DEF s
  <2> QED BY <2>1, <2>2, <2>3, <2>4 DEF ApprovedAlike
<1>2. CASE ~(i # 0 /\ Ensured(i)[i].status = "pending")
  BY <1>2 DEF Rejected, ApprovedAlike
<1> QED BY <1>1, <1>2

LEMMA AfterTimeoutAlike ==
  ASSUME approvals \in [Indexes -> ApprovalSet], NEW q \in ReqSet
  PROVE  ApprovedAlike(approvals, AfterTimeout(q))
<1>1. q.waited \in {0} \cup Indexes
  BY DEF ReqSet
<1> QED BY <1>1, RejectedAlike DEF AfterTimeout, ApprovedAlike

LEMMA AlikeItself ==
  ASSUME approvals \in [Indexes -> ApprovalSet]
  PROVE  ApprovedAlike(approvals, approvals)
BY DEF ApprovedAlike

\* A request outside the orchestrator.
LEMMA OutsideIsGood ==
  ASSUME NEW n \in ReqSet, n.pc \in {"lock", "decide"}, n.cur = None,
         NEW t, n.lease <= t, NEW r, r # None
  PROVE  ReqInv(n, r, t)
BY DEF ReqInv, Holds, Fresh

LEMMA ScalarsAlike ==
  ASSUME Scalars, UNCHANGED <<token, held, lapsed, late, published>>,
         approvals' \in [Indexes -> ApprovalSet]
  PROVE  Scalars'
BY DEF Scalars

LEMMA FinishRunCopies ==
  ASSUME CopiesInv, NEW w \in Requests, FinishRun(w)
  PROVE  CopiesInv' /\ ApprovedAlike(approvals, approvals')
<1> DEFINE q == req[w]
<1>1. /\ q.pc = "back" /\ req' = [req EXCEPT ![w] = Idle]
      /\ UNCHANGED <<run, token, held, lapsed, late, published>>
      /\ approvals' = IF Waits(q.cur) # 0 THEN Ensured(Waits(q.cur))
                      ELSE IF q.op = "resume" THEN AfterTimeout(q) ELSE approvals
  BY DEF FinishRun
<1>2. q \in ReqSet /\ GoodRun(q.cur) /\ approvals \in [Indexes -> ApprovalSet] /\ Scalars
  BY <1>1, InCall DEF CopiesInv, Scalars, Copy, Holds
<1>3. ApprovedAlike(approvals, approvals')
  BY <1>1, <1>2, WaitsType, EnsuredAlike, AfterTimeoutAlike, AlikeItself
<1>4. Scalars'
  BY <1>1, <1>2, <1>3, ScalarsAlike DEF ApprovedAlike
<1>5. ReqInv(Idle, run, token)
  BY <1>2, IdleIsGood DEF Scalars
<1> QED BY <1>1, <1>3, <1>4, <1>5, StayCopies

LEMMA ClosedCopies ==
  ASSUME CopiesInv, NEW w \in Requests, Closed(w)
  PROVE  CopiesInv' /\ ApprovedAlike(approvals, approvals')
<1> DEFINE q == req[w]
<1>1. /\ q.pc = "back" /\ req' = [req EXCEPT ![w] = Idle]
      /\ UNCHANGED <<run, token, held, lapsed, late, published>>
      /\ approvals' = IF q.call = "cancel" THEN Rejected(q.waited, q.user) ELSE approvals
  BY DEF Closed
<1>2. q \in ReqSet /\ approvals \in [Indexes -> ApprovalSet] /\ Scalars
  BY <1>1, InCall DEF CopiesInv, Scalars
<1>3. q.waited \in {0} \cup Indexes /\ q.user \in Users \cup {None}
  BY <1>2 DEF ReqSet
<1>4. ApprovedAlike(approvals, approvals')
  BY <1>1, <1>2, <1>3, RejectedAlike, AlikeItself
<1>5. Scalars'
  BY <1>1, <1>2, <1>4, ScalarsAlike DEF ApprovedAlike
<1>6. ReqInv(Idle, run, token)
  BY <1>2, IdleIsGood DEF Scalars
<1> QED BY <1>1, <1>4, <1>5, <1>6, StayCopies

\* Where cancel goes, if it goes on.
CancelGoesOn(q) ==
  [At(q, "lock", None) EXCEPT !.call = "cancel", !.waited = Waits(q.cur)]

LEMMA CancelNextCopies ==
  ASSUME CopiesInv, NEW w \in Requests, CancelNext(w)
  PROVE  /\ CopiesInv' /\ ApprovedAlike(approvals, approvals')
         /\ req'[w] = Idle \/ (/\ req'[w].pc = "lock" /\ req'[w].op = "cancel"
                               /\ req'[w].lease = req[w].lease
                               /\ req'[w].granted = req[w].granted)
<1> DEFINE q == req[w]
           n == CancelGoesOn(q)
<1>1. /\ q.pc = "back" /\ q.op = "cancel" /\ UNCHANGED <<run, token, held, lapsed, late, published>>
      /\ approvals' = AfterTimeout(q)
      /\ req' = [req EXCEPT ![w] = IF q.cur.state \in Terminal THEN Idle ELSE n]
  BY DEF CancelNext, CancelGoesOn
<1>2. /\ q \in ReqSet /\ GoodRun(q.cur) /\ q.lease <= token /\ run # None
      /\ approvals \in [Indexes -> ApprovalSet] /\ Scalars /\ DOMAIN req = Requests
  BY <1>1, InCall DEF CopiesInv, Scalars, Copy, Holds
<1>3. ApprovedAlike(approvals, approvals')
  BY <1>1, <1>2, AfterTimeoutAlike
<1>4. Scalars'
  BY <1>1, <1>2, <1>3, ScalarsAlike DEF ApprovedAlike
<1>5. ReqInv(Idle, run, token)
  BY <1>2, IdleIsGood DEF Scalars
<1>6. /\ n \in ReqSet /\ n.pc = "lock" /\ n.cur = None /\ n.lease = q.lease
      /\ n.op = q.op /\ n.granted = q.granted
  <2> DEFINE a == At(q, "lock", None)
             b == [a EXCEPT !.call = "cancel"]
             c == [b EXCEPT !.waited = Waits(q.cur)]
  <2>1. Moves(a, q, "lock", None)
    BY <1>2, Moving DEF Pcs
  <2>2. Waits(q.cur) \in {0} \cup Indexes
    BY <1>2, WaitsType
  <2>3. c = n
    BY DEF CancelGoesOn
  <2> HIDE DEF a
  <2>4. /\ b \in ReqSet /\ b.pc = "lock" /\ b.cur = None /\ b.lease = q.lease
        /\ b.op = q.op /\ b.granted = q.granted
    BY <2>1 DEF Moves, ReqSet, Calls
  <2> HIDE DEF b
  <2>5. /\ c \in ReqSet /\ c.pc = "lock" /\ c.cur = None /\ c.lease = q.lease
        /\ c.op = q.op /\ c.granted = q.granted
    BY <2>2, <2>4 DEF ReqSet
  <2> QED BY <2>3, <2>5
<1> HIDE DEF n
<1>7. ReqInv(n, run, token)
  BY <1>2, <1>6, OutsideIsGood
<1>8. CopiesInv'
  <2>1. CASE q.cur.state \in Terminal
    BY <1>1, <1>4, <1>5, <2>1, StayCopies
  <2>2. CASE q.cur.state \notin Terminal
    BY <1>1, <1>4, <1>7, <2>2, StayCopies
  <2> QED BY <2>1, <2>2
<1> QED BY <1>1, <1>2, <1>3, <1>6, <1>8

\* Where approve and reject go from the approval they looked up.
GrantedNow(q)     == [At(q, "lock", None) EXCEPT !.call = "run", !.granted = TRUE]
DecidesNext(q, i) == [At(q, "decide", None) EXCEPT !.waited = i]

LEMMA GrantedNowIs ==
  ASSUME NEW q \in ReqSet
  PROVE  LET n == GrantedNow(q)
         IN  /\ n \in ReqSet /\ n.pc = "lock" /\ n.cur = None /\ n.lease = q.lease
             /\ n.op = q.op /\ n.user = q.user /\ n.granted
<1> DEFINE a == At(q, "lock", None)
           b == [a EXCEPT !.call = "run"]
           c == [b EXCEPT !.granted = TRUE]
<1>1. Moves(a, q, "lock", None)
  BY Moving DEF Pcs
<1>2. c = GrantedNow(q)
  BY DEF GrantedNow
<1> HIDE DEF a
<1>3. /\ b \in ReqSet /\ b.pc = "lock" /\ b.cur = None /\ b.lease = q.lease
      /\ b.op = q.op /\ b.user = q.user
  BY <1>1 DEF Moves, ReqSet, Calls
<1> HIDE DEF b
<1>4. /\ c \in ReqSet /\ c.pc = "lock" /\ c.cur = None /\ c.lease = q.lease
      /\ c.op = q.op /\ c.user = q.user /\ c.granted
  BY <1>3 DEF ReqSet
<1> QED BY <1>2, <1>4

LEMMA DecidesNextIs ==
  ASSUME NEW q \in ReqSet, NEW i \in Indexes
  PROVE  LET n == DecidesNext(q, i)
         IN  /\ n \in ReqSet /\ n.pc = "decide" /\ n.cur = None /\ n.lease = q.lease
             /\ n.op = q.op /\ n.user = q.user /\ n.granted = q.granted /\ n.waited = i
<1> DEFINE a == At(q, "decide", None)
           c == [a EXCEPT !.waited = i]
<1>1. Moves(a, q, "decide", None)
  BY Moving DEF Pcs
<1>2. c = DecidesNext(q, i)
  BY DEF DecidesNext
<1> HIDE DEF a
<1>3. /\ c \in ReqSet /\ c.pc = "decide" /\ c.cur = None /\ c.lease = q.lease
      /\ c.op = q.op /\ c.user = q.user /\ c.granted = q.granted /\ c.waited = i
  BY <1>1 DEF Moves, ReqSet
<1> QED BY <1>2, <1>3

LookedUp(n, q, a) ==
  LET i == Waits(q.cur)
  IN  \/ n = Idle
      \/ /\ n.pc = "lock" /\ n.op = q.op /\ n.user = q.user /\ n.lease = q.lease
         /\ i # 0 /\ a[i].status = "approved"
      \/ /\ n.pc = "decide" /\ n.op = q.op /\ n.user = q.user /\ n.granted = q.granted
         /\ n.lease = q.lease /\ i # 0 /\ n.waited = i /\ (q.op = "approve" => q.user # Requester)

LEMMA LookUpCopies ==
  ASSUME CopiesInv, NEW w \in Requests, LookUp(w)
  PROVE  /\ CopiesInv' /\ ApprovedAlike(approvals, approvals')
         /\ LookedUp(req'[w], req[w], approvals')
<1> DEFINE q == req[w]
           i == Waits(q.cur)
           a == Ensured(i)[i]
           decidable == /\ q.op = "approve" => q.user # Requester /\ a.status # "rejected"
                        /\ q.op = "reject" => a.status = "pending"
<1>1. /\ q.pc = "back" /\ UNCHANGED <<run, token, held, lapsed, late, published>>
  BY DEF LookUp
<1>2. /\ q \in ReqSet /\ GoodRun(q.cur) /\ q.lease <= token /\ run # None
      /\ approvals \in [Indexes -> ApprovalSet] /\ Scalars /\ DOMAIN req = Requests
  BY <1>1, InCall DEF CopiesInv, Scalars, Copy, Holds
<1>3. i \in {0} \cup Indexes
  BY <1>2, WaitsType
<1>4. ReqInv(Idle, run, token)
  BY <1>2, IdleIsGood DEF Scalars
<1>5. CASE i = 0
  <2>1. approvals' = AfterTimeout(q) /\ req' = [req EXCEPT ![w] = Idle]
    BY <1>5 DEF LookUp
  <2>2. ApprovedAlike(approvals, approvals')
    BY <1>2, <2>1, AfterTimeoutAlike
  <2>3. Scalars'
    BY <1>1, <1>2, <2>2, ScalarsAlike DEF ApprovedAlike
  <2>4. LookedUp(req'[w], q, approvals')
    BY <1>2, <2>1 DEF LookedUp
  <2> QED BY <1>1, <1>4, <2>1, <2>2, <2>3, <2>4, StayCopies
<1>6. CASE i # 0
  <2>1. /\ approvals' = Ensured(i)
        /\ req' = [req EXCEPT ![w] = IF ~decidable THEN Idle
                                     ELSE IF a.status = "approved" THEN GrantedNow(q)
                                     ELSE DecidesNext(q, i)]
    BY <1>6 DEF LookUp, GrantedNow, DecidesNext
  <2>2. ApprovedAlike(approvals, approvals')
    BY <1>2, <1>3, <2>1, EnsuredAlike
  <2>3. Scalars'
    BY <1>1, <1>2, <2>2, ScalarsAlike DEF ApprovedAlike
  <2>4. CASE req' = [req EXCEPT ![w] = Idle]
    <3>1. LookedUp(req'[w], q, approvals')
      BY <1>2, <2>4 DEF LookedUp
    <3> QED BY <1>1, <1>4, <2>2, <2>3, <2>4, <3>1, StayCopies
  <2>5. CASE req' = [req EXCEPT ![w] = GrantedNow(q)] /\ a.status = "approved"
    <3>1. LookedUp(req'[w], q, approvals')
      BY <1>2, <1>6, <2>1, <2>5, GrantedNowIs DEF LookedUp
    <3>2. ReqInv(GrantedNow(q), run, token)
      BY <1>2, GrantedNowIs, OutsideIsGood
    <3> QED BY <1>1, <2>2, <2>3, <2>5, <3>1, <3>2, StayCopies
  <2>6. CASE req' = [req EXCEPT ![w] = DecidesNext(q, i)] /\ decidable
    <3>1. LookedUp(req'[w], q, approvals')
      BY <1>2, <1>3, <1>6, <2>6, DecidesNextIs DEF LookedUp
    <3>2. ReqInv(DecidesNext(q, i), run, token)
      BY <1>2, <1>3, <1>6, DecidesNextIs, OutsideIsGood
    <3> QED BY <1>1, <2>2, <2>3, <2>6, <3>1, <3>2, StayCopies
  <2> QED BY <2>1, <2>4, <2>5, <2>6
<1> QED BY <1>5, <1>6

\* Where a decision takes its request.
Decided(q) ==
  [q EXCEPT !.pc = "lock", !.granted = q.op = "approve",
            !.call = IF q.op = "approve" THEN "run" ELSE "reject"]

LEMMA DecidedIs ==
  ASSUME NEW q \in ReqSet
  PROVE  LET n == Decided(q)
         IN  /\ n \in ReqSet /\ n.pc = "lock" /\ n.cur = q.cur /\ n.lease = q.lease
             /\ n.op = q.op /\ n.user = q.user /\ n.granted = (q.op = "approve")
<1> DEFINE a == [q EXCEPT !.pc = "lock"]
           g == q.op = "approve"
           b == [a EXCEPT !.granted = g]
           k == IF q.op = "approve" THEN "run" ELSE "reject"
           c == [b EXCEPT !.call = k]
<1>1. /\ a \in ReqSet /\ a.pc = "lock" /\ a.cur = q.cur /\ a.lease = q.lease
      /\ a.op = q.op /\ a.user = q.user
  BY DEF ReqSet, Pcs
<1>2. c = Decided(q)
  BY DEF Decided
<1>3. g \in BOOLEAN /\ k \in Calls
  BY DEF Calls
<1> HIDE DEF a, g, k
<1>4. /\ b \in ReqSet /\ b.pc = "lock" /\ b.cur = q.cur /\ b.lease = q.lease
      /\ b.op = q.op /\ b.user = q.user /\ b.granted = g
  BY <1>1, <1>3 DEF ReqSet
<1> HIDE DEF b
<1>5. /\ c \in ReqSet /\ c.pc = "lock" /\ c.cur = q.cur /\ c.lease = q.lease
      /\ c.op = q.op /\ c.user = q.user /\ c.granted = g
  BY <1>3, <1>4 DEF ReqSet
<1> QED BY <1>2, <1>5 DEF g

LEMMA DecideCopies ==
  ASSUME CopiesInv, NEW w \in Requests, Decide(w)
  PROVE  CopiesInv'
<1> DEFINE q == req[w]
           i == q.waited
           verdict == IF q.op = "approve" THEN "approved" ELSE "rejected"
           v == [status |-> verdict, by |-> q.user]
<1>1. /\ q.pc = "decide" /\ UNCHANGED <<run, token, held, lapsed, late, published>>
  BY DEF Decide
<1>2. /\ q \in ReqSet /\ q.cur = None /\ q.lease <= token /\ run # None
      /\ approvals \in [Indexes -> ApprovalSet] /\ Scalars
  BY <1>1, InCall DEF CopiesInv, Scalars, Holds, Fresh
<1>3. ReqInv(Idle, run, token)
  BY <1>2, IdleIsGood DEF Scalars
<1>4. CASE Decidable(i)
  <2>1. approvals' = [approvals EXCEPT ![i] = v] /\ req' = [req EXCEPT ![w] = Decided(q)]
    BY <1>4 DEF Decide, Decided
  <2>2. v \in ApprovalSet
    BY <1>2 DEF ApprovalSet, ReqSet
  <2> HIDE DEF v
  <2>3. approvals' \in [Indexes -> ApprovalSet]
    BY <1>2, <2>1, <2>2
  <2>4. Scalars'
    BY <1>1, <1>2, <2>3, ScalarsAlike
  <2>5. ReqInv(Decided(q), run, token)
    BY <1>2, DecidedIs, OutsideIsGood
  <2> QED BY <1>1, <2>1, <2>4, <2>5, StayCopies
<1>5. CASE ~Decidable(i)
  <2>1. approvals' = approvals /\ req' = [req EXCEPT ![w] = Idle]
    BY <1>5 DEF Decide
  <2>2. Scalars'
    BY <1>1, <1>2, <2>1, ScalarsAlike
  <2> QED BY <1>1, <1>3, <2>1, <2>2, StayCopies
<1> QED BY <1>4, <1>5

LEMMA SameCopies ==
  ASSUME CopiesInv, UNCHANGED <<run, token, req>>, Scalars'
  PROVE  CopiesInv'
BY DEF CopiesInv

LEMMA LapseCopies ==
  ASSUME CopiesInv, Lapse
  PROVE  CopiesInv'
<1>1. Scalars /\ UNCHANGED <<run, token, req, late, approvals, published>>
      /\ held /\ held' = FALSE /\ lapsed' = lapsed \cup {token}
  BY DEF Lapse, CopiesInv
<1>2. held' \in BOOLEAN /\ (held' => token # 0) /\ token # 0
  BY <1>1 DEF Scalars
<1>3. token \in 1 .. token
  BY <1>1, <1>2 DEF Scalars
<1>4. Scalars'
  BY <1>1, <1>2, <1>3 DEF Scalars
<1> QED BY <1>1, <1>4, SameCopies

LEMMA TimePassesCopies ==
  ASSUME CopiesInv, TimePasses
  PROVE  CopiesInv'
<1>1. /\ Scalars /\ UNCHANGED <<run, token, held, lapsed, req, approvals, published>>
      /\ GoodRun(run) /\ \E x \in {0, PendingStep(run)} : late' = late \cup {x}
  BY DEF TimePasses, CopiesInv, RunInv
<1>2. PendingStep(run) \in {0} \cup Indexes
  BY <1>1, WaitingStep
<1>3. Scalars'
  BY <1>1, <1>2 DEF Scalars
<1> QED BY <1>1, <1>3, SameCopies

LEMMA CrashCopies ==
  ASSUME CopiesInv, NEW w \in Requests, Crash(w)
  PROVE  CopiesInv'
<1>1. /\ UNCHANGED <<run, token, held, lapsed, late, approvals, published>>
      /\ req' = [req EXCEPT ![w] = Idle] /\ Scalars
  BY DEF Crash, CopiesInv
<1>2. Scalars'
  BY <1>1, SameScalars
<1>3. ReqInv(Idle, run, token)
  BY <1>1, IdleIsGood DEF Scalars
<1> QED BY <1>1, <1>2, <1>3, StayCopies

\* Every action but one on a request.
Serves(w) ==
  \/ \E op \in Ops \ {"none", "create"}, u \in Users : Receive(w, op, u)
  \/ Acquire(w) \/ Load(w) \/ Save(w) \/ Plan(w)
  \/ ExecuteAssess(w) \/ ExecutePublish(w) \/ Commit(w)
  \/ FinishRun(w) \/ LookUp(w) \/ Decide(w) \/ CancelNext(w) \/ Closed(w)
  \/ Crash(w)

LEMMA Steps ==
  ASSUME Next
  PROVE  \/ \E w \in Requests : Create(w) \/ Serves(w)
         \/ Lapse \/ TimePasses
<1>1. Ops \ {"none", "create"} = {"resume", "approve", "reject", "cancel"}
  BY DEF Ops
<1> QED BY <1>1 DEF Next, Serves

LEMMA ServesCopies ==
  ASSUME CopiesInv, NEW w \in Requests, Serves(w)
  PROVE  CopiesInv'
<1>1. ASSUME NEW op \in Ops \ {"none", "create"}, NEW u \in Users, Receive(w, op, u)
      PROVE  CopiesInv'
  BY <1>1, ReceiveCopies
<1>2. CASE Acquire(w) \/ Load(w) \/ Save(w) \/ Plan(w)
  BY <1>2, AcquireCopies, LoadCopies, SaveCopies, PlanCopies
<1>3. CASE ExecuteAssess(w) \/ ExecutePublish(w) \/ Commit(w) \/ Crash(w)
  BY <1>3, ExecuteAssessCopies, ExecutePublishCopies, CommitCopies, CrashCopies
<1>4. CASE FinishRun(w) \/ LookUp(w) \/ Decide(w) \/ CancelNext(w) \/ Closed(w)
  BY <1>4, FinishRunCopies, LookUpCopies, DecideCopies, CancelNextCopies, ClosedCopies
<1> QED BY <1>1, <1>2, <1>3, <1>4 DEF Serves

LEMMA InitCopies ==
  ASSUME Init
  PROVE  CopiesInv
<1>1. NoApproval \in ApprovalSet
  BY DEF NoApproval, ApprovalSet
<1>2. \A w \in Requests : req[w] = Idle
  BY DEF Init
<1>3. Scalars
  BY <1>1 DEF Init, Scalars
<1>4. \A w \in Requests : ReqInv(req[w], run, token)
  BY <1>2, <1>3, IdleIsGood DEF Scalars
<1> QED BY <1>3, <1>4 DEF Init, CopiesInv, RunInv

LEMMA NextCopies ==
  ASSUME CopiesInv, [Next]_vars
  PROVE  CopiesInv'
<1>1. CASE Next
  BY <1>1, Steps, CreateCopies, ServesCopies, LapseCopies, TimePassesCopies
<1>2. CASE UNCHANGED vars
  <2>1. Scalars'
    BY <1>2 DEF CopiesInv, Scalars, vars
  <2> QED BY <1>2, <2>1, SameCopies DEF vars
<1> QED BY <1>1, <1>2

LEMMA CopiesAlways == Spec => []CopiesInv
<1>1. Init => CopiesInv
  BY InitCopies
<1>2. CopiesInv /\ [Next]_vars => CopiesInv'
  BY NextCopies
<1> QED BY <1>1, <1>2, PTL DEF Spec

-----------------------------------------------------------------------------
(* Types, and history.                                                     *)

LEMMA CopiesTyped ==
  ASSUME CopiesInv
  PROVE  TypeOK
<1>1. ASSUME NEW r, GoodRun(r), r.tok <= token PROVE IsRun(r)
  BY <1>1 DEF GoodRun, IsRun
<1>2. run # None => IsRun(run)
  BY <1>1 DEF CopiesInv, RunInv
<1>3. ASSUME NEW w \in Requests
      PROVE  /\ req[w].lease \in 0 .. token
             /\ req[w].waited \in {0} \cup Indexes
             /\ req[w].cur # None => IsRun(req[w].cur)
  <2>1. ReqInv(req[w], run, token) /\ token \in Nat
    BY DEF CopiesInv, Scalars
  <2>2. req[w].cur # None => GoodRun(req[w].cur) /\ req[w].cur.tok <= token
    BY <2>1 DEF ReqInv, Copy
  <2> QED BY <1>1, <2>1, <2>2 DEF ReqInv, ReqSet
<1>4. \A i \in Indexes : /\ approvals[i].status \in {"none", "pending", "approved", "rejected"}
                         /\ approvals[i].by \in Users \cup {None}
  BY DEF CopiesInv, Scalars, ApprovalSet
<1>5. ASSUME run # None
      PROVE  /\ run.state \in Terminal => ActiveStep(run) = 0
             /\ run.state \in {"waiting_tool", "pending_approval"} =>
                  run.steps[Last(run)].st = run.state
             /\ \A i \in DOMAIN run.steps : i < Last(run) => run.steps[i].st = "completed"
  <2>1. GoodRun(run)
    BY <1>5 DEF CopiesInv, RunInv
  <2>2. run.state \in Terminal => ActiveStep(run) = 0
    BY <2>1, OpenStep DEF GoodRun, StepsAgree
  <2> QED BY <2>1, <2>2 DEF GoodRun, StepsAgree, Last
<1> QED BY <1>2, <1>3, <1>4, <1>5 DEF TypeOK, CopiesInv, Scalars

\* Every record and every private copy is well formed, and the state of a run
\* agrees with those of its steps, whoever saved it last (SaveRun, failRun).
THEOREM AgentRunTyped == Spec => []TypeOK
BY CopiesAlways, CopiesTyped, PTL

HistoryStep ==
  run # None =>
    /\ run.state \in Terminal => run' = run
    /\ Len(run'.steps) >= Len(run.steps)
    /\ \A i \in DOMAIN run.steps : run.steps[i].st \notin Open => run'.steps[i] = run.steps[i]

LEMMA SameHistory ==
  ASSUME CopiesInv, run' = run
  PROVE  HistoryStep
<1>1. run # None => Len(run.steps) \in Nat
  BY StepsOf DEF CopiesInv, RunInv, GoodRun
<1> QED BY <1>1 DEF HistoryStep

LEMMA ExtendedHistory ==
  ASSUME NEW r, Extends(run, r), run'.steps = r.steps
  PROVE  HistoryStep
BY DEF Extends, HistoryStep

LEMMA SaveKeepsHistory ==
  ASSUME CopiesInv, NEW w \in Requests, Save(w)
  PROVE  HistoryStep
<1> DEFINE q == req[w]
           r == IF q.pc = "start" THEN [q.cur EXCEPT !.state = "running"] ELSE q.cur
<1>1. q.pc \in {"claim", "start", "persist"} /\ q.pc \in Holds /\ q.pc # "back"
  BY DEF Save, Holds, Fresh
<1>2. CASE Saves(q)
  <2>1. Copy(q, run, token) /\ q.cur.ver = run.ver /\ GoodRun(q.cur)
    BY <1>1, <1>2, InCall DEF Saves, Copy
  <2>2. run' = Saved(r, q.lease) /\ run'.steps = q.cur.steps
    <3>1. run' = Saved(r, q.lease)
      BY <1>2 DEF Save
    <3>2. r.steps = q.cur.steps /\ r \in RunSet
      BY <2>1 DEF GoodRun, RunSet, Open
    <3> HIDE DEF r
    <3>3. Saved(r, q.lease).steps = r.steps
      BY <3>2 DEF Saved, RunSet
    <3> QED BY <3>1, <3>2, <3>3
  <2>3. Extends(run, q.cur)
    <3>1. CASE q.pc = "persist"
      BY <2>1, <3>1 DEF Copy, Current
    <3>2. CASE q.pc \in {"claim", "start"}
      <4>1. q.cur = run /\ run.state \notin Terminal /\ Len(run.steps) \in Nat
        BY <2>1, <3>2, StepsOf DEF Copy, Current, Stage, Fresh, GoodRun
      <4> QED BY <4>1 DEF Extends
    <3> QED BY <1>1, <3>1, <3>2
  <2> QED BY <2>2, <2>3, ExtendedHistory
<1>3. CASE ~Saves(q)
  BY <1>3, SameHistory DEF Save
<1> QED BY <1>2, <1>3

LEMMA CommitKeepsHistory ==
  ASSUME CopiesInv, NEW w \in Requests, Commit(w)
  PROVE  HistoryStep
<1> DEFINE q == req[w]
<1>1. q.pc = "commit" /\ q.pc \in Holds
  BY DEF Commit, Holds
<1>2. CASE Saves(q)
  <2>1. Copy(q, run, token) /\ q.cur.ver = run.ver /\ GoodRun(q.cur)
    BY <1>1, <1>2, InCall DEF Saves, Copy
  <2>2. run' = Saved(q.cur, q.lease)
    BY <1>2 DEF Commit
  <2>3. run'.steps = q.cur.steps
    BY <2>1, <2>2 DEF Saved, GoodRun, RunSet
  <2>4. Extends(run, q.cur)
    BY <1>1, <2>1 DEF Copy, Current
  <2> QED BY <2>3, <2>4, ExtendedHistory
<1>3. CASE ~Saves(q)
  BY <1>3, SameHistory DEF Commit
<1> QED BY <1>2, <1>3

LEMMA NextKeepsHistory ==
  ASSUME CopiesInv, [Next]_vars
  PROVE  HistoryStep
<1>1. ASSUME NEW w \in Requests, Create(w) PROVE HistoryStep
  BY <1>1 DEF Create, HistoryStep
<1>2. ASSUME NEW w \in Requests, Serves(w), ~Save(w), ~Commit(w) PROVE run' = run
  BY <1>2 DEF Serves, Receive, Acquire, Load, Plan, ExecuteAssess, ExecutePublish,
              FinishRun, LookUp, Decide, CancelNext, Closed, Crash
<1>3. ASSUME Lapse \/ TimePasses \/ UNCHANGED vars PROVE run' = run
  BY <1>3 DEF Lapse, TimePasses, vars
<1>4. ASSUME NEW w \in Requests, Serves(w) PROVE HistoryStep
  BY <1>2, <1>4, SameHistory, SaveKeepsHistory, CommitKeepsHistory
<1> QED BY <1>1, <1>3, <1>4, Steps, SameHistory

\* A closed run never changes again and no closed step is dropped or rewritten,
\* although leases lapse under their owners (SaveRun's version and token).
THEOREM HistoryIsKeptAlways == Spec => HistoryIsKept
<1>1. CopiesInv /\ [Next]_vars => [HistoryStep]_vars
  BY NextKeepsHistory
<1>2. [][HistoryStep]_vars => HistoryIsKept
  BY DEF HistoryStep, HistoryIsKept
<1> QED BY <1>1, <1>2, CopiesAlways, PTL DEF Spec

-----------------------------------------------------------------------------
(* Leases.                                                                 *)

\* A step of request w that takes no lease: it keeps the one it has, or
\* loses it and frees the lock if it is still its own.
KeepsLease(w) ==
  /\ \A v \in Requests : v # w => req'[v] = req[v]
  /\ UNCHANGED <<token, lapsed>>
  /\ \/ req'[w].lease \in {0, req[w].lease} /\ held' = held
     \/ req'[w].lease = 0 /\ Free(req[w])

LEMMA KeepsLeases ==
  ASSUME LeasesInv, NEW w \in Requests, KeepsLease(w)
  PROVE  LeasesInv'
<1>1. ASSUME NEW v \in Requests PROVE req'[v].lease \in {0, req[v].lease}
  BY DEF KeepsLease
<1>2. ASSUME NEW v \in Requests, req'[v].lease # 0
      PROVE  req'[v].lease \in lapsed' \/ (held' /\ req'[v].lease = token')
  <2>1. /\ req'[v].lease = req[v].lease /\ lapsed' = lapsed /\ token' = token
        /\ req[v].lease \in lapsed \/ (held /\ req[v].lease = token)
    BY <1>1, <1>2 DEF LeasesInv, KeepsLease
  <2>2. CASE held' = held
    BY <2>1, <2>2
  <2>3. CASE held' # held
    <3>1. Free(req[w]) /\ req'[w].lease = 0
      BY <2>3 DEF KeepsLease
    <3>2. v # w
      BY <1>2, <3>1
    <3>3. held /\ req[w].lease = token
      BY <2>3, <3>1 DEF Free
    <3>4. req[v].lease # token
      BY <1>2, <2>1, <3>2, <3>3 DEF LeasesInv
    <3> QED BY <2>1, <3>4
  <2> QED BY <2>2, <2>3
<1>3. ASSUME NEW u \in Requests, NEW v \in Requests, u # v, req'[u].lease # 0
      PROVE  req'[u].lease # req'[v].lease
  <2>1. req[u].lease = req'[u].lease /\ req[u].lease # req[v].lease
    BY <1>1, <1>3 DEF LeasesInv
  <2> QED BY <1>1, <1>3, <2>1
<1> QED BY <1>2, <1>3 DEF LeasesInv

LEMMA AtKeepsLease ==
  ASSUME NEW q \in ReqSet, NEW pc, NEW r
  PROVE  At(q, pc, r).lease = q.lease
BY DEF At, ReqSet

LEMMA Others ==
  ASSUME CopiesInv, NEW w \in Requests, NEW q, req' = [req EXCEPT ![w] = q]
  PROVE  req'[w] = q /\ \A v \in Requests : v # w => req'[v] = req[v]
BY DEF CopiesInv

LEMMA GiveUpLease ==
  ASSUME CopiesInv, NEW w \in Requests, GiveUp(w), UNCHANGED <<token, lapsed>>
  PROVE  KeepsLease(w)
<1>1. req' = [req EXCEPT ![w] = Idle] /\ Free(req[w])
  BY DEF GiveUp
<1>2. req'[w] = Idle /\ \A v \in Requests : v # w => req'[v] = req[v]
  BY <1>1, Others
<1>3. Idle.lease = 0
  BY DEF Idle
<1> QED BY <1>1, <1>2, <1>3 DEF KeepsLease

LEMMA LoadedLease ==
  ASSUME NEW q \in ReqSet, GoodRun(run), run.tok <= token, token \in Nat
  PROVE  Loaded(q).lease \in {0, q.lease}
<1>1. Returned(q, run).lease = 0
  BY ReturnedIsGood
<1>2. \/ Loaded(q) = Returned(q, run)
      \/ \E pc, r : Loaded(q) = At(q, pc, r)
  BY DEF Loaded
<1> QED BY <1>1, <1>2, AtKeepsLease

LEMMA ServesLease ==
  ASSUME CopiesInv, NEW w \in Requests, Create(w) \/ Serves(w), ~Acquire(w)
  PROVE  KeepsLease(w)
<1> DEFINE q == req[w]
<1>1. q \in ReqSet /\ token \in Nat
  BY DEF CopiesInv, ReqInv, Scalars
<1>2. ASSUME NEW op, NEW user, NEW call, NEW waited, NEW granted,
             req' = [req EXCEPT ![w] = Request(op, user, call, waited, granted)],
             UNCHANGED <<token, held, lapsed>>
      PROVE  KeepsLease(w)
  BY <1>2, Others DEF Request, KeepsLease
<1>3. ASSUME req' = [req EXCEPT ![w] = Idle], UNCHANGED <<token, held, lapsed>>
      PROVE  KeepsLease(w)
  BY <1>3, Others DEF Idle, KeepsLease
<1>4. ASSUME NEW pc, NEW r, req' = [req EXCEPT ![w] = At(q, pc, r)],
             UNCHANGED <<token, held, lapsed>>
      PROVE  KeepsLease(w)
  BY <1>1, <1>4, Others, AtKeepsLease DEF KeepsLease
<1>5. ASSUME Create(w) PROVE KeepsLease(w)
  BY <1>2, <1>5 DEF Create
<1>6. ASSUME NEW op, NEW u, Receive(w, op, u) PROVE KeepsLease(w)
  BY <1>2, <1>6 DEF Receive
<1>7. ASSUME Load(w) PROVE KeepsLease(w)
  <2>1. CASE Refused(q)
    BY <1>7, <2>1, GiveUpLease DEF Load
  <2>2. CASE ~Refused(q)
    <3>1. /\ req' = [req EXCEPT ![w] = Loaded(q)] /\ UNCHANGED <<token, lapsed>>
          /\ IF Loaded(q).lease = 0 THEN Free(q) ELSE held' = held
      BY <1>7, <2>2 DEF Load
    <3>2. q.pc = "load"
      BY <1>7 DEF Load
    <3>3. Loaded(q).lease \in {0, q.lease}
      BY <1>1, <3>2, InCall, LoadedLease
    <3>4. req'[w] = Loaded(q) /\ \A v \in Requests : v # w => req'[v] = req[v]
      BY <3>1, Others
    <3> QED BY <3>1, <3>3, <3>4 DEF KeepsLease
  <2> QED BY <2>1, <2>2
<1>8. ASSUME Save(w) PROVE KeepsLease(w)
  <2>1. CASE Saves(q)
    BY <1>4, <1>8, <2>1 DEF Save
  <2>2. CASE ~Saves(q)
    BY <1>8, <2>2, GiveUpLease DEF Save
  <2> QED BY <2>1, <2>2
<1>9. ASSUME Plan(w) PROVE KeepsLease(w)
  <2>1. \E pc, r : req' = [req EXCEPT ![w] = At(q, pc, r)]
    BY <1>9 DEF Plan
  <2> QED BY <1>4, <1>9, <2>1 DEF Plan
<1>10. ASSUME ExecuteAssess(w) \/ ExecutePublish(w) PROVE KeepsLease(w)
  <2>1. \E pc, r : req' = [req EXCEPT ![w] = At(q, pc, r)]
    BY <1>10 DEF ExecuteAssess, ExecutePublish
  <2> QED BY <1>4, <1>10, <2>1 DEF ExecuteAssess, ExecutePublish
<1>11. ASSUME Commit(w) PROVE KeepsLease(w)
  <2>1. CASE Saves(q)
    <3>1. /\ req' = [req EXCEPT ![w] = Returned(q, run')] /\ run' = Saved(q.cur, q.lease)
          /\ Free(q) /\ UNCHANGED <<token, lapsed>>
      BY <1>11, <2>1 DEF Commit
    <3>2. q.pc = "commit" /\ q.pc \in Holds /\ q.pc # "back"
      BY <1>11 DEF Commit, Holds
    <3>3. GoodRun(q.cur) /\ q.cur.task = run.task
      BY <3>2, InCall DEF Copy
    <3>4. GoodRun(run') /\ run'.tok <= token
      BY <2>1, <3>1, <3>2, <3>3, Saving
    <3>5. Returned(q, run').lease = 0
      BY <1>1, <3>4, ReturnedIsGood
    <3>6. req'[w] = Returned(q, run') /\ \A v \in Requests : v # w => req'[v] = req[v]
      BY <3>1, Others
    <3> QED BY <3>1, <3>5, <3>6 DEF KeepsLease
  <2>2. CASE ~Saves(q)
    BY <1>11, <2>2, GiveUpLease DEF Commit
  <2> QED BY <2>1, <2>2
<1>12. ASSUME FinishRun(w) \/ Closed(w) \/ Crash(w) PROVE KeepsLease(w)
  BY <1>3, <1>12 DEF FinishRun, Closed, Crash
<1>13. ASSUME LookUp(w) PROVE KeepsLease(w)
  <2>1. LookedUp(req'[w], q, approvals')
    BY <1>13, LookUpCopies
  <2>2. req'[w].lease \in {0, q.lease}
    BY <2>1 DEF LookedUp, Idle
  <2>3. \E n : req' = [req EXCEPT ![w] = n]
    BY <1>13 DEF LookUp
  <2>4. \A v \in Requests : v # w => req'[v] = req[v]
    BY <2>3, Others
  <2> QED BY <1>13, <2>2, <2>4 DEF LookUp, KeepsLease
<1>14. ASSUME CancelNext(w) PROVE KeepsLease(w)
  <2>1. req'[w].lease \in {0, q.lease}
    BY <1>14, CancelNextCopies DEF Idle
  <2>2. \E n : req' = [req EXCEPT ![w] = n]
    BY <1>14 DEF CancelNext
  <2>3. \A v \in Requests : v # w => req'[v] = req[v]
    BY <2>2, Others
  <2> QED BY <1>14, <2>1, <2>3 DEF CancelNext, KeepsLease
<1>15. ASSUME Decide(w) PROVE KeepsLease(w)
  <2>1. \/ req' = [req EXCEPT ![w] = Idle]
        \/ req' = [req EXCEPT ![w] = Decided(q)]
    BY <1>15 DEF Decide, Decided
  <2>2. req'[w].lease \in {0, q.lease}
    BY <1>1, <2>1, Others, DecidedIs DEF Idle
  <2>3. \A v \in Requests : v # w => req'[v] = req[v]
    BY <2>1, Others
  <2> QED BY <1>15, <2>2, <2>3 DEF Decide, KeepsLease
<1> HIDE DEF q
<1>16. CASE FinishRun(w) \/ LookUp(w) \/ Decide(w) \/ CancelNext(w) \/ Closed(w) \/ Crash(w)
  BY <1>12, <1>13, <1>14, <1>15, <1>16
<1>17. CASE Load(w) \/ Save(w) \/ Plan(w) \/ ExecuteAssess(w) \/ ExecutePublish(w) \/ Commit(w)
  BY <1>7, <1>8, <1>9, <1>10, <1>11, <1>17
<1>18. CASE \E op \in Ops \ {"none", "create"}, u \in Users : Receive(w, op, u)
  BY <1>6, <1>18
<1> QED BY <1>5, <1>16, <1>17, <1>18 DEF Serves

LEMMA AcquireLease ==
  ASSUME CopiesInv, LeasesInv, NEW w \in Requests, Acquire(w)
  PROVE  LeasesInv'
<1>1. CASE held
  <2>1. KeepsLease(w)
    BY <1>1, Others DEF Acquire, Idle, KeepsLease
  <2> QED BY <2>1, KeepsLeases
<1>2. CASE ~held
  <2> DEFINE n == [req[w] EXCEPT !.pc = "load", !.lease = token + 1]
  <2>1. /\ req' = [req EXCEPT ![w] = n] /\ token' = token + 1 /\ held' = TRUE /\ lapsed' = lapsed
    BY <1>2 DEF Acquire
  <2>2. n.lease = token + 1
    BY DEF CopiesInv, ReqInv, ReqSet
  <2> HIDE DEF n
  <2>3. req'[w].lease = token + 1 /\ \A v \in Requests : v # w => req'[v] = req[v]
    BY <2>1, <2>2, Others
  <2>4. \A v \in Requests : req[v].lease \in Nat /\ req[v].lease <= token /\ token \in Nat
    BY DEF CopiesInv, ReqInv, ReqSet, Scalars
  <2>5. \A v \in Requests : req[v].lease # token + 1
    BY <2>4
  <2>6. \A v \in Requests : v # w /\ req[v].lease # 0 => req[v].lease \in lapsed
    BY <1>2 DEF LeasesInv
  <2> QED BY <2>1, <2>3, <2>5, <2>6 DEF LeasesInv
<1> QED BY <1>1, <1>2

LEMMA LapseLease ==
  ASSUME LeasesInv, Lapse
  PROVE  LeasesInv'
BY DEF Lapse, LeasesInv

LEMMA LeasesAlways == Spec => []LeasesInv
<1>1. Init => LeasesInv
  BY DEF Init, LeasesInv, Idle
<1>2. ASSUME CopiesInv, LeasesInv, [Next]_vars PROVE LeasesInv'
  <2>1. ASSUME NEW w \in Requests, Create(w) \/ Serves(w) PROVE LeasesInv'
    <3>1. CASE Acquire(w)
      BY <1>2, <3>1, AcquireLease
    <3>2. CASE ~Acquire(w)
      BY <1>2, <2>1, <3>2, ServesLease, KeepsLeases
    <3> QED BY <3>1, <3>2
  <2>2. ASSUME TimePasses \/ UNCHANGED vars PROVE LeasesInv'
    BY <1>2, <2>2 DEF TimePasses, vars, LeasesInv
  <2> QED BY <1>2, <2>1, <2>2, LapseLease, Steps
<1> QED BY <1>1, <1>2, CopiesAlways, PTL DEF Spec

\* Two requests are inside the lock only when the lease of one of them lapsed:
\* a late Release never frees a successor's lock (RedisLockManager.Release).
THEOREM OneOwnerUnlessLapsedAlways == Spec => []OneOwnerUnlessLapsed
<1>1. ASSUME CopiesInv, LeasesInv PROVE OneOwnerUnlessLapsed
  <2> SUFFICES ASSUME NEW v \in Requests, NEW w \in Requests, v # w,
                      req[v].lease > 0, req[w].lease > 0
               PROVE  {req[v].lease, req[w].lease} \cap lapsed # {}
    BY DEF OneOwnerUnlessLapsed
  <2>1. req[v].lease # 0 /\ req[w].lease # 0
    BY <1>1 DEF CopiesInv, ReqInv, ReqSet
  <2>2. req[v].lease # req[w].lease
    BY <1>1, <2>1 DEF LeasesInv
  <2>3. req[v].lease \in lapsed \/ req[w].lease \in lapsed
    BY <1>1, <2>1, <2>2 DEF LeasesInv
  <2> QED BY <2>3
<1> QED BY <1>1, CopiesAlways, LeasesAlways, PTL

-----------------------------------------------------------------------------
(* Consent.                                                                *)

\* The approvals only gain, and only from approvers.
ConsentGrows ==
  /\ \A i \in Indexes : Approved(i) => Approved(i)'
  /\ \A i \in Indexes : Approved(i)' => approvals'[i].by \in Approvers

LEMMA AlikeGrows ==
  ASSUME ConsentInv, ApprovedAlike(approvals, approvals')
  PROVE  ConsentGrows
BY DEF ConsentInv, ApprovedAlike, ConsentGrows, Approved

LEMMA SameGrows ==
  ASSUME ConsentInv, approvals' = approvals
  PROVE  ConsentGrows
BY DEF ConsentInv, ConsentGrows, Approved

LEMMA TwoIsIndex == 2 \in Indexes
BY AgentAssumption DEF Indexes

LEMMA PublishedStays ==
  ASSUME ConsentInv, ConsentGrows, run # None, published' = published
  PROVE  run.task = "governance" => published' \subseteq {2} /\ (published' # {} => Approved(2)')
<1>1. Approved(2) => Approved(2)'
  BY TwoIsIndex DEF ConsentGrows
<1> QED BY <1>1 DEF ConsentInv

\* One request moves, and is granted the tool at most where step 2 is approved.
LEMMA ConsentFrame ==
  ASSUME CopiesInv, ConsentInv, ConsentGrows, NEW w \in Requests,
         \A v \in Requests : v # w => req'[v] = req[v],
         run # None, run' = run \/ MovesOn(run, run'),
         MayDecide(req'[w], run),
         run.task = "governance" /\ req'[w].granted => req[w].granted \/ Approved(2)',
         run.task = "governance" =>
           published' \subseteq {2} /\ (published' # {} => Approved(2)')
  PROVE  ConsentInv'
<1>1. run' # None /\ run'.task = run.task
  BY DEF MovesOn
<1>2. ASSUME NEW v \in Requests PROVE MayDecide(req'[v], run')
  <2>1. MayDecide(req'[v], run)
    BY DEF ConsentInv
  <2> QED BY <1>1, <2>1 DEF MayDecide
<1>3. Approved(2) => Approved(2)'
  BY TwoIsIndex DEF ConsentGrows
<1>4. ASSUME run.task = "governance", NEW v \in Requests, req'[v].granted PROVE Approved(2)'
  BY <1>3, <1>4 DEF ConsentInv
<1>5. \A i \in Indexes : Approved(i)' => approvals'[i].by \in Approvers
  BY DEF ConsentGrows
<1> QED BY <1>1, <1>2, <1>4, <1>5 DEF ConsentInv

\* The same actor goes on, and decides nothing.
SameActor(n, q) ==
  n.op = q.op /\ n.user = q.user /\ n.granted = q.granted /\ n.pc # "decide"

LEMMA ActorConsent ==
  ASSUME CopiesInv, ConsentInv, NEW w \in Requests, run # None,
         \A v \in Requests : v # w => req'[v] = req[v],
         req'[w] = Idle \/ SameActor(req'[w], req[w]),
         run' = run \/ MovesOn(run, run'),
         ConsentGrows, published' = published
  PROVE  ConsentInv'
<1>1. MayDecide(req'[w], run)
  BY DEF ConsentInv, MayDecide, SameActor, Idle
<1>2. req'[w].granted => req[w].granted
  <2>1. CASE req'[w] = Idle
    <3>1. Idle.granted = FALSE
      BY DEF Idle
    <3> QED BY <2>1, <3>1
  <2>2. CASE SameActor(req'[w], req[w])
    BY <2>2 DEF SameActor
  <2> QED BY <2>1, <2>2
<1>3. run.task = "governance" =>
        published' \subseteq {2} /\ (published' # {} => Approved(2)')
  BY PublishedStays
<1> QED BY <1>1, <1>2, <1>3, ConsentFrame

LEMMA AtSameActor ==
  ASSUME NEW q \in ReqSet, NEW pc, pc # "decide", NEW r
  PROVE  SameActor(At(q, pc, r), q) /\ SameActor([At(q, pc, r) EXCEPT !.lease = 0], q)
BY DEF At, ReqSet, SameActor

LEMMA ReturnedActor ==
  ASSUME NEW q \in ReqSet, NEW r
  PROVE  SameActor(Returned(q, r), q)
<1>1. /\ SameActor([At(q, "back", r) EXCEPT !.lease = 0], q)
      /\ SameActor([At(q, "lock", None) EXCEPT !.lease = 0], q)
  BY AtSameActor
<1> QED BY <1>1 DEF Returned

LEMMA NextStageIs == \A r : NextStage(r) # "decide"
BY DEF NextStage

\* The steps of a request inside the orchestrator, and its end.
Inside(w) ==
  \/ Acquire(w) \/ Load(w) \/ Save(w) \/ Plan(w) \/ ExecuteAssess(w) \/ Commit(w)
  \/ FinishRun(w) \/ Closed(w) \/ CancelNext(w) \/ Crash(w)

LEMMA InsideActor ==
  ASSUME CopiesInv, NEW w \in Requests, Inside(w)
  PROVE  /\ \A v \in Requests : v # w => req'[v] = req[v]
         /\ req'[w] = Idle \/ SameActor(req'[w], req[w])
         /\ published' = published
<1> DEFINE q == req[w]
           OK == /\ \A v \in Requests : v # w => req'[v] = req[v]
                 /\ req'[w] = Idle \/ SameActor(req'[w], q)
                 /\ published' = published
<1>1. q \in ReqSet
  BY DEF CopiesInv, ReqInv
<1>2. ASSUME req' = [req EXCEPT ![w] = Idle], published' = published PROVE OK
  BY <1>2, Others
<1>3. ASSUME NEW pc, NEW r, pc # "decide", req' = [req EXCEPT ![w] = At(q, pc, r)],
             published' = published
      PROVE  OK
  <2>1. SameActor(At(q, pc, r), q)
    BY <1>1, <1>3, AtSameActor
  <2> QED BY <1>3, <2>1, Others
<1>4. ASSUME NEW r, req' = [req EXCEPT ![w] = Returned(q, r)], published' = published PROVE OK
  <2>1. SameActor(Returned(q, r), q)
    BY <1>1, ReturnedActor
  <2> QED BY <1>4, <2>1, Others
<1> HIDE DEF OK, q
<1>5. ASSUME Acquire(w) PROVE OK
  <2>1. CASE held
    BY <1>2, <1>5, <2>1 DEF Acquire
  <2>2. CASE ~held
    <3> DEFINE n == [q EXCEPT !.pc = "load", !.lease = token + 1]
    <3>1. req' = [req EXCEPT ![w] = n] /\ published' = published
      BY <1>5, <2>2 DEF Acquire, q
    <3>2. SameActor(n, q)
      BY <1>1 DEF ReqSet, SameActor
    <3> HIDE DEF n
    <3> QED BY <3>1, <3>2, Others DEF OK, q
  <2> QED BY <2>1, <2>2
<1>6. ASSUME Load(w) PROVE OK
  <2>1. CASE Refused(q)
    BY <1>2, <1>6, <2>1 DEF Load, GiveUp, q
  <2>2. CASE ~Refused(q)
    <3>1. req' = [req EXCEPT ![w] = Loaded(q)] /\ published' = published
      BY <1>6, <2>2 DEF Load, q
    <3>2. \/ Loaded(q) = Returned(q, run)
          \/ \E pc, r : pc # "decide" /\ Loaded(q) = At(q, pc, r)
      BY NextStageIs DEF Loaded
    <3> QED BY <1>3, <1>4, <3>1, <3>2
  <2> QED BY <2>1, <2>2
<1>7. ASSUME Save(w) PROVE OK
  <2>1. CASE Saves(q)
    BY <1>3, <1>7, <2>1, NextStageIs DEF Save, q
  <2>2. CASE ~Saves(q)
    BY <1>2, <1>7, <2>2 DEF Save, GiveUp, q
  <2> QED BY <2>1, <2>2
<1>8. ASSUME Plan(w) PROVE OK
  <2>1. \E pc, r : pc # "decide" /\ req' = [req EXCEPT ![w] = At(q, pc, r)]
    BY <1>8 DEF Plan, q
  <2> QED BY <1>3, <1>8, <2>1 DEF Plan
<1>9. ASSUME ExecuteAssess(w) PROVE OK
  BY <1>3, <1>9 DEF ExecuteAssess, q
<1>10. ASSUME Commit(w) PROVE OK
  <2>1. CASE Saves(q)
    BY <1>4, <1>10, <2>1 DEF Commit, q
  <2>2. CASE ~Saves(q)
    BY <1>2, <1>10, <2>2 DEF Commit, GiveUp, q
  <2> QED BY <2>1, <2>2
<1>11. ASSUME FinishRun(w) \/ Closed(w) \/ Crash(w) PROVE OK
  BY <1>2, <1>11 DEF FinishRun, Closed, Crash
<1>12. ASSUME CancelNext(w) PROVE OK
  <2>1. \E n : req' = [req EXCEPT ![w] = n]
    BY <1>12 DEF CancelNext
  <2>2. \A v \in Requests : v # w => req'[v] = req[v]
    BY <2>1, Others
  <2>3. req'[w] = Idle \/ SameActor(req'[w], q)
    <3>1. CASE q.cur.state \in Terminal
      BY <1>2, <1>12, <3>1 DEF CancelNext, OK, q
    <3>2. CASE q.cur.state \notin Terminal
      <4> DEFINE n == CancelGoesOn(q)
                 a == At(q, "lock", None)
      <4>1. req' = [req EXCEPT ![w] = n]
        BY <1>12, <3>2 DEF CancelNext, CancelGoesOn, q
      <4>2. SameActor(n, q)
        BY <1>1 DEF CancelGoesOn, At, ReqSet, SameActor
      <4> HIDE DEF n
      <4> QED BY <4>1, <4>2, Others
    <3> QED BY <3>1, <3>2
  <2> QED BY <1>12, <2>2, <2>3 DEF CancelNext, OK
<1> QED BY <1>5, <1>6, <1>7, <1>8, <1>9, <1>10, <1>11, <1>12 DEF Inside, OK, q

LEMMA InsideConsent ==
  ASSUME CopiesInv, ConsentInv, NEW w \in Requests, Inside(w)
  PROVE  ConsentInv'
<1>1. /\ \A v \in Requests : v # w => req'[v] = req[v]
      /\ req'[w] = Idle \/ SameActor(req'[w], req[w])
      /\ published' = published
  BY InsideActor
<1>2. CASE req[w].pc = "idle"
  <2>1. Crash(w)
    BY <1>2 DEF Inside, Acquire, Load, Save, Plan, ExecuteAssess, Commit, FinishRun, Closed,
                CancelNext
  <2>2. UNCHANGED <<run, approvals>> /\ req[w].lease > 0
    BY <1>2, <2>1 DEF Crash
  <2>3. CASE run = None
    <3>1. ASSUME NEW v \in Requests PROVE MayDecide(req'[v], run')
      <4>1. MayDecide(req[v], run)
        BY DEF ConsentInv
      <4>2. MayDecide(Idle, run)
        BY DEF MayDecide, Idle
      <4>3. req' = [req EXCEPT ![w] = Idle]
        BY <2>1 DEF Crash
      <4>4. req'[v] = Idle \/ req'[v] = req[v]
        BY <4>3, Others
      <4> QED BY <2>2, <4>1, <4>2, <4>4
    <3>2. \A v \in Requests : ~req'[v].granted
      <4>1. req' = [req EXCEPT ![w] = Idle] /\ \A v \in Requests : ~req[v].granted
        BY <2>1, <2>3 DEF Crash, ConsentInv
      <4>2. ~Idle.granted
        BY DEF Idle
      <4> QED BY <4>1, <4>2, Others
    <3>3. \A i \in Indexes : Approved(i)' => approvals'[i].by \in Approvers
      BY <2>2 DEF ConsentInv, Approved
    <3>4. published' = {}
      BY <1>1, <2>3 DEF ConsentInv
    <3> QED BY <2>2, <2>3, <3>1, <3>2, <3>3, <3>4 DEF ConsentInv
  <2>4. CASE run # None
    BY <1>1, <2>2, <2>4, SameGrows, ActorConsent
  <2> QED BY <2>3, <2>4
<1>3. CASE req[w].pc # "idle"
  <2>1. run # None
    BY <1>3, InCall
  <2>2. ConsentGrows
    <3>1. CASE FinishRun(w) \/ Closed(w) \/ CancelNext(w)
      BY <3>1, FinishRunCopies, ClosedCopies, CancelNextCopies, AlikeGrows
    <3>2. CASE Acquire(w) \/ Load(w) \/ Save(w) \/ Plan(w) \/ ExecuteAssess(w) \/ Commit(w)
               \/ Crash(w)
      <4>1. approvals' = approvals
        BY <3>2 DEF Acquire, Load, Save, Plan, ExecuteAssess, Commit, Crash
      <4> QED BY <4>1, SameGrows
    <3> QED BY <3>1, <3>2 DEF Inside
  <2>3. run' = run \/ MovesOn(run, run')
    <3>1. CASE Save(w) /\ Saves(req[w])
      <4> DEFINE q == req[w]
                 r == IF q.pc = "start" THEN [q.cur EXCEPT !.state = "running"] ELSE q.cur
      <4>1. q.pc \in {"claim", "start", "persist"} /\ q.pc \in Holds /\ q.pc # "back"
        BY <3>1 DEF Save, Holds, Fresh
      <4>2. Copy(q, run, token)
        BY <4>1, InCall
      <4>3. run' = Saved(r, q.lease) /\ token' = token
        BY <3>1 DEF Save
      <4>4. GoodRun(r) /\ r.task = run.task
        <5>1. CASE q.pc = "start"
          <6>1. q.cur.state \in {"created", "running"}
            BY <4>2, <5>1 DEF Copy, Stage, NextStage, Fresh
          <6>2. GoodRun(r) /\ Written(r, q.cur, "running", q.cur.ver, q.cur.tok)
            BY <4>2, <5>1, <6>1, StartsWell DEF Copy
          <6> QED BY <4>2, <6>2 DEF Copy, Written
        <5>2. CASE q.pc # "start"
          BY <4>2, <5>2 DEF Copy
        <5> QED BY <5>1, <5>2
      <4> HIDE DEF r
      <4> QED BY <3>1, <4>1, <4>3, <4>4, Saving
    <3>2. CASE Commit(w) /\ Saves(req[w])
      <4>1. req[w].pc = "commit" /\ req[w].pc \in Holds /\ req[w].pc # "back"
        BY <3>2 DEF Commit, Holds
      <4>2. GoodRun(req[w].cur) /\ req[w].cur.task = run.task
        BY <4>1, InCall DEF Copy
      <4>3. run' = Saved(req[w].cur, req[w].lease) /\ token' = token
        BY <3>2 DEF Commit
      <4> QED BY <3>2, <4>1, <4>2, <4>3, Saving
    <3>3. CASE ~(Save(w) /\ Saves(req[w])) /\ ~(Commit(w) /\ Saves(req[w]))
      BY <3>3 DEF Inside, Acquire, Load, Save, Plan, ExecuteAssess, Commit, FinishRun, Closed,
                  CancelNext, Crash
    <3> QED BY <3>1, <3>2, <3>3
  <2> QED BY <1>1, <2>1, <2>2, <2>3, ActorConsent
<1> QED BY <1>2, <1>3

LEMMA CreateConsent ==
  ASSUME CopiesInv, ConsentInv, NEW w \in Requests, Create(w)
  PROVE  ConsentInv'
<1> DEFINE n == Request("create", Requester, "run", 0, FALSE)
<1>1. run = None /\ req' = [req EXCEPT ![w] = n] /\ UNCHANGED <<approvals, published>>
  BY DEF Create
<1>2. n.op = "create" /\ n.pc = "lock" /\ n.granted = FALSE
  BY DEF Request
<1> HIDE DEF n
<1>3. req'[w] = n /\ \A v \in Requests : v # w => req'[v] = req[v]
  BY <1>1, Others
<1>4. ASSUME NEW v \in Requests PROVE MayDecide(req'[v], run')
  <2>1. CASE v = w
    BY <1>2, <1>3, <2>1 DEF MayDecide
  <2>2. CASE v # w
    <3>1. MayDecide(req[v], run) /\ req'[v] = req[v]
      BY <1>3, <2>2 DEF ConsentInv
    <3>2. req[v].pc = "idle"
      BY <1>1 DEF CopiesInv, ReqInv
    <3> QED BY <3>1, <3>2 DEF MayDecide
  <2> QED BY <2>1, <2>2
<1>5. \A v \in Requests : ~req'[v].granted
  <2>1. \A v \in Requests : ~req[v].granted
    BY <1>1 DEF ConsentInv
  <2> QED BY <1>2, <1>3, <2>1
<1>6. published' = {} /\ \A i \in Indexes : Approved(i)' => approvals'[i].by \in Approvers
  BY <1>1 DEF ConsentInv, Approved
<1> QED BY <1>4, <1>5, <1>6 DEF ConsentInv

LEMMA ReceiveConsent ==
  ASSUME CopiesInv, ConsentInv, NEW w \in Requests, NEW op \in Ops \ {"none", "create"},
         NEW user \in Users, Receive(w, op, user)
  PROVE  ConsentInv'
<1> DEFINE call == IF op = "resume" THEN "run" ELSE "lifecycle"
           granted == op = "resume" /\ GrantedTo(run)
           n == Request(op, user, call, Waits(run), granted)
<1>1. /\ run # None /\ req' = [req EXCEPT ![w] = n] /\ UNCHANGED <<run, approvals, published>>
      /\ op \in {"approve", "reject"} => user \in Admins
  BY DEF Receive
<1>2. /\ n.op = op /\ n.user = user /\ n.pc = "lock" /\ n.granted = granted
  BY DEF Request
<1> HIDE DEF n
<1>3. req'[w] = n /\ \A v \in Requests : v # w => req'[v] = req[v]
  BY <1>1, Others
<1>4. MayDecide(req'[w], run)
  BY <1>1, <1>2, <1>3 DEF MayDecide
<1>5. ASSUME run.task = "governance", req'[w].granted PROVE Approved(2)'
  <2>1. run.state = "pending_approval" /\ approvals[PendingStep(run)].status = "approved"
    BY <1>2, <1>3, <1>5 DEF GrantedTo
  <2>2. GoodRun(run)
    BY <1>1 DEF CopiesInv, RunInv
  <2>3. PendingStep(run) = 2
    BY <1>5, <2>1, <2>2, WaitingStep DEF GoodRun, WorkflowShape
  <2> QED BY <1>1, <2>1, <2>3 DEF Approved
<1>6. ConsentGrows
  BY <1>1, SameGrows
<1>7. run.task = "governance" => published' \subseteq {2} /\ (published' # {} => Approved(2)')
  BY <1>1, <1>6, PublishedStays
<1> QED BY <1>1, <1>3, <1>4, <1>5, <1>6, <1>7, ConsentFrame

LEMMA LookUpConsent ==
  ASSUME CopiesInv, ConsentInv, NEW w \in Requests, LookUp(w)
  PROVE  ConsentInv'
<1> DEFINE q == req[w]
           n == req'[w]
           i == Waits(q.cur)
<1>1. /\ q.pc = "back" /\ q.op \in {"approve", "reject"} /\ UNCHANGED <<run, published>>
      /\ \E m : req' = [req EXCEPT ![w] = m]
  BY DEF LookUp
<1>2. \A v \in Requests : v # w => req'[v] = req[v]
  BY <1>1, Others
<1>3. ApprovedAlike(approvals, approvals') /\ LookedUp(n, q, approvals')
  BY LookUpCopies
<1>4. ConsentGrows
  BY <1>3, AlikeGrows
<1>5. run # None /\ GoodRun(q.cur) /\ q.cur.task = run.task
  BY <1>1, InCall DEF Copy, Holds
<1>6. i # 0 => i \in Indexes /\ (run.task = "governance" => i = 2)
  BY <1>5, WaitsType
<1>7. q.user \in Admins
  BY <1>1 DEF ConsentInv, MayDecide
<1>8. q.user # None
  BY <1>7, NoneAssumption DEF Users
<1>9. run.task = "governance" => published' \subseteq {2} /\ (published' # {} => Approved(2)')
  BY <1>1, <1>4, <1>5, PublishedStays
<1>10. CASE n = Idle
  BY <1>1, <1>2, <1>4, <1>5, <1>10, ActorConsent
<1>11. CASE /\ n.pc = "lock" /\ n.op = q.op /\ n.user = q.user
            /\ i # 0 /\ approvals'[i].status = "approved"
  <2>1. MayDecide(n, run)
    BY <1>1, <1>7, <1>11 DEF MayDecide
  <2>2. run.task = "governance" => Approved(2)'
    BY <1>6, <1>11 DEF Approved
  <2> QED BY <1>1, <1>2, <1>4, <1>5, <1>9, <2>1, <2>2, ConsentFrame
<1>12. CASE /\ n.pc = "decide" /\ n.op = q.op /\ n.user = q.user /\ n.granted = q.granted
            /\ i # 0 /\ n.waited = i /\ (q.op = "approve" => q.user # Requester)
  <2>1. MayDecide(n, run)
    BY <1>1, <1>6, <1>7, <1>8, <1>12 DEF MayDecide, Approvers
  <2> QED BY <1>1, <1>2, <1>4, <1>5, <1>9, <1>12, <2>1, ConsentFrame
<1> QED BY <1>3, <1>10, <1>11, <1>12 DEF LookedUp

LEMMA DecideConsent ==
  ASSUME CopiesInv, ConsentInv, NEW w \in Requests, Decide(w)
  PROVE  ConsentInv'
<1> DEFINE q == req[w]
           i == q.waited
           verdict == IF q.op = "approve" THEN "approved" ELSE "rejected"
           v == [status |-> verdict, by |-> q.user]
<1>1. q.pc = "decide" /\ UNCHANGED <<run, published>>
  BY DEF Decide
<1>2. run # None /\ q \in ReqSet /\ approvals \in [Indexes -> ApprovalSet]
  BY <1>1, InCall DEF CopiesInv, Scalars
<1>3. /\ q.op \in {"approve", "reject"} /\ q.user \in Admins /\ i \in Indexes
      /\ q.op = "approve" => q.user \in Approvers
      /\ run.task = "governance" => i = 2
  BY <1>1 DEF ConsentInv, MayDecide
<1>4. CASE Decidable(i)
  <2>1. approvals' = [approvals EXCEPT ![i] = v] /\ req' = [req EXCEPT ![w] = Decided(q)]
    BY <1>4 DEF Decide, Decided
  <2>2. v.status = verdict /\ v.by = q.user
    OBVIOUS
  <2> HIDE DEF v
  <2>3. approvals'[i] = v /\ \A j \in Indexes : j # i => approvals'[j] = approvals[j]
    BY <1>2, <1>3, <2>1
  <2>4. ~Approved(i)
    BY <1>4 DEF Decidable, Approved
  <2>5. ConsentGrows
    BY <1>3, <2>2, <2>3, <2>4 DEF ConsentInv, ConsentGrows, Approved
  <2>6. req'[w] = Decided(q) /\ \A u \in Requests : u # w => req'[u] = req[u]
    BY <2>1, Others
  <2>7. /\ req'[w].pc = "lock" /\ req'[w].op = q.op /\ req'[w].user = q.user
        /\ req'[w].granted = (q.op = "approve")
    BY <1>2, <2>6, DecidedIs
  <2>8. MayDecide(req'[w], run)
    BY <1>3, <2>7 DEF MayDecide
  <2>9. ASSUME run.task = "governance", req'[w].granted PROVE Approved(2)'
    BY <1>3, <2>2, <2>3, <2>7, <2>9 DEF Approved
  <2>10. run.task = "governance" =>
           published' \subseteq {2} /\ (published' # {} => Approved(2)')
    BY <1>1, <1>2, <2>5, PublishedStays
  <2> QED BY <1>1, <1>2, <2>5, <2>6, <2>8, <2>9, <2>10, ConsentFrame
<1>5. CASE ~Decidable(i)
  <2>1. approvals' = approvals /\ req' = [req EXCEPT ![w] = Idle]
    BY <1>5 DEF Decide
  <2>2. req'[w] = Idle /\ \A u \in Requests : u # w => req'[u] = req[u]
    BY <2>1, Others
  <2> QED BY <1>1, <1>2, <2>1, <2>2, SameGrows, ActorConsent
<1> QED BY <1>4, <1>5

LEMMA ExecutePublishConsent ==
  ASSUME CopiesInv, ConsentInv, NEW w \in Requests, ExecutePublish(w)
  PROVE  ConsentInv'
<1> DEFINE q == req[w]
           i == Last(q.cur)
<1>1. /\ q.pc = "exec" /\ q.cur.steps[i].tool = "publish" /\ UNCHANGED <<run, approvals>>
  BY DEF ExecutePublish
<1>2. /\ Copy(q, run, token) /\ GoodRun(q.cur) /\ i \in DOMAIN q.cur.steps
      /\ run # None /\ q \in ReqSet
  BY <1>1, Executing, InCall
<1>3. run.task = "governance" => i = 2
  BY <1>1, <1>2 DEF Copy, GoodRun, WorkflowShape
<1>4. \E r : req' = [req EXCEPT ![w] = At(q, "commit", r)]
  <2>1. CASE ~AuthorizedToPublish(q)
    BY <2>1 DEF ExecutePublish
  <2>2. CASE AuthorizedToPublish(q)
    BY <2>2 DEF ExecutePublish
  <2> QED BY <2>1, <2>2
<1>5. SameActor(req'[w], q) /\ \A v \in Requests : v # w => req'[v] = req[v]
  <2>1. PICK r : req' = [req EXCEPT ![w] = At(q, "commit", r)]
    BY <1>4
  <2>2. SameActor(At(q, "commit", r), q)
    BY <1>2, AtSameActor
  <2> QED BY <2>1, <2>2, Others
<1>6. ConsentGrows
  BY <1>1, SameGrows
<1>7. published' = published \/ (published' = published \cup {i} /\ q.granted)
  BY DEF ExecutePublish, AuthorizedToPublish
<1>8. run.task = "governance" => published' \subseteq {2} /\ (published' # {} => Approved(2)')
  BY <1>1, <1>2, <1>3, <1>7 DEF ConsentInv, Approved
<1>9. MayDecide(req'[w], run)
  BY <1>5 DEF ConsentInv, MayDecide, SameActor
<1>10. req'[w].granted => req[w].granted
  BY <1>5 DEF SameActor
<1> QED BY <1>1, <1>2, <1>5, <1>6, <1>8, <1>9, <1>10, ConsentFrame

LEMMA ConsentAlways == Spec => []ConsentInv
<1>1. Init => ConsentInv
  <2> SUFFICES ASSUME Init PROVE ConsentInv
    OBVIOUS
  <2>1. \A w \in Requests : req[w] = Idle
    BY DEF Init
  <2>2. \A w \in Requests : MayDecide(req[w], run) /\ ~req[w].granted
    BY <2>1 DEF MayDecide, Idle
  <2>3. \A i \in Indexes : ~Approved(i)
    BY DEF Init, NoApproval, Approved
  <2> QED BY <2>2, <2>3 DEF Init, ConsentInv
<1>2. ASSUME CopiesInv, ConsentInv, [Next]_vars PROVE ConsentInv'
  <2>1. ASSUME NEW w \in Requests, Serves(w) PROVE ConsentInv'
    <3>1. CASE \E op \in Ops \ {"none", "create"}, u \in Users : Receive(w, op, u)
      BY <1>2, <3>1, ReceiveConsent
    <3>2. CASE LookUp(w) \/ Decide(w) \/ ExecutePublish(w)
      BY <1>2, <3>2, LookUpConsent, DecideConsent, ExecutePublishConsent
    <3>3. CASE Inside(w)
      BY <1>2, <3>3, InsideConsent
    <3> QED BY <2>1, <3>1, <3>2, <3>3 DEF Serves, Inside
  <2>2. ASSUME Lapse \/ TimePasses \/ UNCHANGED vars PROVE ConsentInv'
    <3>1. UNCHANGED <<run, approvals, published, req>>
      BY <2>2 DEF Lapse, TimePasses, vars
    <3> QED BY <1>2, <3>1 DEF ConsentInv, Approved
  <2> QED BY <1>2, <2>1, <2>2, CreateConsent, Steps
<1> QED BY <1>1, <1>2, CopiesAlways, PTL DEF Spec

\* A publication run publishes only a step that an administrator other than
\* the requester approved, and that approval stands, whatever requests, lapses,
\* time-outs and crashes interleave (handleApprove, DecideApproval, Authorize).
THEOREM PublishedWithConsentAlways == Spec => []PublishedWithConsent
<1>1. ASSUME ConsentInv PROVE PublishedWithConsent
  BY <1>1, TwoIsIndex DEF ConsentInv, PublishedWithConsent, Approved, Approvers
<1> QED BY <1>1, ConsentAlways, PTL
=============================================================================
