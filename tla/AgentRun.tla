------------------------------ MODULE AgentRun ------------------------------
(***************************************************************************)
(* One durable Agent run: internal/agent (orchestrator, store, lock,       *)
(* approvals) behind the HTTP adapter internal/agentapi/service.go and the *)
(* publication tools of governance.go.                                     *)
(*                                                                         *)
(* A request is a small program: it takes the run's lease, loads the       *)
(* record, changes its private copy and writes it back under a version and *)
(* a fencing token.  Requests of several replicas interleave at every      *)
(* store call.  A lease may lapse while its owner works (the orchestrator  *)
(* never extends it) and a replica may die between any two calls.          *)
(*                                                                         *)
(* The tools are the two of the publication workflow: "assess" reads,      *)
(* "publish" changes the document and needs approval.  No registered tool  *)
(* has a compensation handler, so compensateCompletedSideEffects does      *)
(* nothing and is left out.                                                *)
(***************************************************************************)
EXTENDS Integers, Sequences, FiniteSets

CONSTANTS
    Requests,       \* request slots: the requests that may run at one time
    Requester,      \* the user who created the run
    Admins,         \* the users whose role is admin (agent:approve, publish)
    Tasks,          \* kinds of task, a subset of {"governance", "free"}
    MaxSteps,       \* agent.Options.MaxSteps
    MaxRequests,    \* bound: requests served in a behaviour
    MaxLapses,      \* bound: leases that lapse under a live or dead owner
    MaxTimeouts,    \* bound: time-outs that pass
    MaxCrashes,     \* bound: replicas that die with a request
    None

Users == Admins \union {Requester}

Terminal == {"completed", "failed", "cancelled"}
Open     == {"created", "running", "waiting_tool", "pending_approval"}
Tools    == {"assess", "publish"}

\* The last position is that of a final or an error step appended by failRun.
Indexes == 1 .. MaxSteps + 1

ASSUME AgentAssumption ==
    /\ Tasks \subseteq {"governance", "free"}
    /\ MaxSteps \in Nat \ {0}
    /\ MaxRequests \in Nat /\ MaxLapses \in Nat
    /\ MaxTimeouts \in Nat /\ MaxCrashes \in Nat

VARIABLES
    run,        \* the record in the agent store, None before it is created
    token,      \* the fencing counter of the lock
    held,       \* whether the lock key exists (its token is then `token')
    lapsed,     \* the tokens whose lease ended before its owner released it
    late,       \* what has timed out: 0 for the run, and step indexes
    approvals,  \* step index -> the approval record of that step
    published,  \* the steps whose PublishApproved took effect
    req,        \* request slot -> the request's private state
    served,     \* requests started so far
    crashes     \* replicas lost so far

vars == <<run, token, held, lapsed, late, approvals, published, req, served, crashes>>

-----------------------------------------------------------------------------
(* Records.  A step keeps what the planner and the recovery look at.       *)

StepSet == [kind : {"tool_call", "final", "error"}, tool : Tools \union {"none"},
            st : {"waiting_tool", "pending_approval", "completed", "failed", "cancelled"},
            res : {"none", "ready", "blocked", "ok"}]

RunSet == [task : Tasks, state : Open \union Terminal, timeout : BOOLEAN,
           ver : Nat \ {0}, tok : Nat, steps : Seq(StepSet)]

ASSUME NoneAssumption == None \notin Users /\ None \notin RunSet

StepRec(kind, tool, st, res) == [kind |-> kind, tool |-> tool, st |-> st, res |-> res]
ToolStep(tool)  == StepRec("tool_call", tool, "waiting_tool", "none")
FinalStep       == StepRec("final", "none", "completed", "none")
ErrorStep       == StepRec("error", "none", "failed", "none")

NewRun(task) == [task |-> task, state |-> "created", timeout |-> FALSE, ver |-> 1,
                 tok |-> 0, steps |-> <<>>]

Idle == [pc |-> "idle", op |-> "none", user |-> None, call |-> "none", lease |-> 0,
         waited |-> 0, cur |-> None, granted |-> FALSE]

\* A request of a handler that is about to call the orchestrator.
Request(op, user, call, waited, granted) ==
    [pc |-> "lock", op |-> op, user |-> user, call |-> call, lease |-> 0,
     waited |-> waited, cur |-> None, granted |-> granted]

NoApproval == [status |-> "none", by |-> None]

Last(r) == Len(r.steps)

\* pendingToolStep / pendingApprovalStepIndex: the newest step that waits.
PendingStep(r) ==
    LET W == {i \in DOMAIN r.steps : r.steps[i].st = "pending_approval"}
    IN  IF W = {} THEN 0 ELSE CHOOSE i \in W : \A j \in W : j <= i

\* The step a run that waits for approval waits on, 0 for any other run.
Waits(r) == IF r.state = "pending_approval" THEN PendingStep(r) ELSE 0

\* activeStepIndex: the newest step that is not closed.
ActiveStep(r) ==
    LET A == {i \in DOMAIN r.steps : r.steps[i].st \in Open}
    IN  IF A = {} THEN 0 ELSE CHOOSE i \in A : \A j \in A : j <= i

\* Mutant: the run is closed and its open step forgotten.
CloseRunOnly(r, st) == [r EXCEPT !.state = st]

\* The run closed as st, its open step closed with it (failActiveRun,
\* Cancel, RejectApproval).
Close(r, st) ==
    [r EXCEPT !.state = st,
              !.steps = IF ActiveStep(r) = 0 THEN @
                        ELSE [@ EXCEPT ![ActiveStep(r)].st = st]]

\* The run in state st with one more step.
WithStep(r, st, s) == [r EXCEPT !.state = st, !.steps = Append(@, s)]

\* failRun: a failure that belongs to no tool step is a step of its own.
FailRun(r) == WithStep(r, "failed", ErrorStep)

\* expireRunIfNeeded: the run timeout first, then the approval timeout of
\* the step that waits.
Expired(r) == \/ 0 \in late
              \/ r.state = "pending_approval" /\ PendingStep(r) \in late

-----------------------------------------------------------------------------
(* The planners: governance for publication tasks, the model for the rest. *)

\* GovernancePlanner.Plan: assess, then publish what is ready, then report.
GovernanceDecisions(r) ==
    LET last == r.steps[Last(r)]
    IN  IF r.steps = <<>> THEN {"assess"}
        ELSE IF last.tool = "assess" /\ last.res = "ready" THEN {"publish"}
        ELSE {"final"}

\* LLMPlanner.Plan: any registered tool, a final answer, or an error.
Decisions(r) == IF r.task = "governance" THEN GovernanceDecisions(r)
                ELSE Tools \union {"final", "error"}

\* The run after the planner's decision, before it is saved.
Planned(r, d) ==
    CASE d = "final" -> WithStep(r, "completed", FinalStep)
      [] d = "error" -> FailRun(r)
      [] OTHER       -> WithStep(r, "waiting_tool", ToolStep(d))

\* What ExecuteNext does with a claimed run it has to go on with.
NextStage(r) ==
    IF r.state \in {"waiting_tool", "pending_approval"} THEN "exec"
    ELSE IF Last(r) >= MaxSteps THEN "exhausted"
    ELSE IF r.state = "created" THEN "start"
    ELSE "plan"

-----------------------------------------------------------------------------
(* The lock and the store.                                                 *)

\* Mutant: the release does not compare the token.
FreeAnyway(q) == held' = FALSE

\* The deferred Release, which deletes the key only while it is this lease's.
Free(q) == held' = IF held /\ q.lease = token THEN FALSE ELSE held

\* Mutant: the store keeps the last write.
SavesAnyway(q) == q.cur # None

\* SaveRun: the version the copy was read at, and a token not older than
\* the last one that wrote.
Saves(q) == run.ver = q.cur.ver /\ q.lease >= run.tok
Saved(r, lease) == [r EXCEPT !.ver = run.ver + 1, !.tok = lease]

\* The request at pc with the private copy r.
At(q, pc, r) == [q EXCEPT !.pc = pc, !.cur = r]

\* A request that gives up: its deferred Release runs, its reply is an error.
GiveUp(w) ==
    /\ Free(req[w])
    /\ req' = [req EXCEPT ![w] = Idle]

\* A call of the orchestrator returned r: the lease is released and the
\* handler goes on, or RunToCompletion takes the lease again.
Returned(q, r) ==
    LET goesOn == q.call = "run" /\ r.state \notin Terminal \union {"pending_approval"}
    IN  [(IF goesOn THEN At(q, "lock", None) ELSE At(q, "back", r)) EXCEPT !.lease = 0]

-----------------------------------------------------------------------------
Init ==
    /\ run = None /\ token = 0 /\ held = FALSE /\ lapsed = {} /\ late = {}
    /\ approvals = [i \in Indexes |-> NoApproval]
    /\ published = {}
    /\ req = [w \in Requests |-> Idle]
    /\ served = 0 /\ crashes = 0

\* HandleRuns: StartOrResume creates the record, then RunToCompletion.
Create(w) ==
    /\ req[w].pc = "idle" /\ run = None /\ served < MaxRequests
    /\ \E task \in Tasks :
         /\ run' = NewRun(task)
         /\ req' = [req EXCEPT ![w] = Request("create", Requester, "run", 0, FALSE)]
    /\ served' = served + 1
    /\ UNCHANGED <<token, held, lapsed, late, approvals, published, crashes>>

\* actorWithApprovedRunTools: the approval of the step that waits.
GrantedTo(r) == /\ r.state = "pending_approval"
                /\ approvals[PendingStep(r)].status = "approved"

\* HandleRun, up to the first call of the orchestrator: the record is read
\* without a lease and the permission checked.  Resume and cancel come from
\* the requester here: an administrator's take the same path.
Receive(w, op, user) ==
    /\ req[w].pc = "idle" /\ run # None /\ served < MaxRequests
    /\ IF op \in {"approve", "reject"} THEN user \in Admins ELSE user = Requester
    /\ op = "resume" => run.state \notin Terminal
    /\ req' = [req EXCEPT ![w] =
                 Request(op, user, IF op = "resume" THEN "run" ELSE "lifecycle",
                         Waits(run), op = "resume" /\ GrantedTo(run))]
    /\ served' = served + 1
    /\ UNCHANGED <<run, token, held, lapsed, late, approvals, published, crashes>>

\* LockManager.Acquire: a fresh token, or an error while the key exists.
Acquire(w) ==
    /\ req[w].pc = "lock"
    /\ IF held
       THEN /\ req' = [req EXCEPT ![w] = Idle]
            /\ UNCHANGED <<token, held>>
       ELSE /\ token' = token + 1 /\ held' = TRUE
            /\ req' = [req EXCEPT ![w] = [@ EXCEPT !.pc = "load", !.lease = token + 1]]
    /\ UNCHANGED <<run, lapsed, late, approvals, published, served, crashes>>

\* The private copy a call works on and where it goes from there.
Loaded(q) ==
    LET expired == q.call \in {"run", "lifecycle"} /\ Expired(run)
    IN  IF run.state \in Terminal THEN Returned(q, run)
        ELSE IF expired THEN At(q, "commit", [Close(run, "failed") EXCEPT !.timeout = TRUE])
        ELSE CASE q.call = "lifecycle" -> Returned(q, run)
               [] q.call = "cancel"    -> At(q, "commit", Close(run, "cancelled"))
               [] q.call = "reject"    -> At(q, "commit", Close(run, "failed"))
               [] OTHER -> At(q, IF q.lease > run.tok THEN "claim" ELSE NextStage(run), run)

\* Cancel and RejectApproval refuse a run they cannot close.
Refused(q) ==
    \/ q.call = "cancel" /\ (run.state \in Terminal \/ q.user \notin Users)
    \/ q.call = "reject" /\ run.state # "pending_approval"

\* LoadRun under the lease, with the checks made on what was read.
Load(w) ==
    LET q == req[w]
    IN  /\ q.pc = "load"
        /\ IF Refused(q) THEN GiveUp(w)
           ELSE /\ req' = [req EXCEPT ![w] = Loaded(q)]
                /\ IF Loaded(q).lease = 0 THEN Free(q) ELSE UNCHANGED held
        /\ UNCHANGED <<run, token, lapsed, late, approvals, published, served, crashes>>

\* A save in the middle of a call: claimRun, the step to running, or the
\* tool step persisted before its handler runs.
Save(w) ==
    LET q == req[w]
    IN  /\ q.pc \in {"claim", "start", "persist"}
        /\ IF Saves(q)
           THEN /\ run' = Saved(IF q.pc = "start" THEN [q.cur EXCEPT !.state = "running"] ELSE q.cur, q.lease)
                /\ req' = [req EXCEPT ![w] = At(q, NextStage(run'), run')]
                /\ UNCHANGED held
           ELSE GiveUp(w) /\ UNCHANGED run
        /\ UNCHANGED <<token, lapsed, late, approvals, published, served, crashes>>

\* The planner's answer; the model is asked without a store call.
Plan(w) ==
    LET q == req[w]
    IN  /\ q.pc \in {"plan", "exhausted"}
        /\ IF q.pc = "exhausted"
           THEN req' = [req EXCEPT ![w] = At(q, "commit", FailRun(q.cur))]
           ELSE \E d \in Decisions(q.cur) :
                  req' = [req EXCEPT ![w] =
                            At(q, IF d \in Tools THEN "persist" ELSE "commit", Planned(q.cur, d))]
        /\ UNCHANGED <<run, token, held, lapsed, late, approvals, published, served, crashes>>

\* The copy in state st with s for its last step.
WithLast(r, st, s) == [r EXCEPT !.state = st, !.steps = [@ EXCEPT ![Last(r)] = s]]

\* The copy after the tool step's handler returned res, or failed.
Answered(r, res) ==
    LET s == r.steps[Last(r)]
    IN  IF res = "error"
        THEN WithLast(r, "failed", StepRec("error", s.tool, "failed", s.res))
        ELSE WithLast(r, "running", StepRec(s.kind, s.tool, "completed", res))

Waiting(r) ==
    LET s == r.steps[Last(r)]
    IN  WithLast(r, "pending_approval", StepRec(s.kind, s.tool, "pending_approval", s.res))

\* registry.execute of the read-only tool.
ExecuteAssess(w) ==
    LET q == req[w]
    IN  /\ q.pc = "exec" /\ q.cur.steps[Last(q.cur)].tool = "assess"
        /\ \E res \in {"ready", "blocked", "error"} :
             req' = [req EXCEPT ![w] = At(q, "commit", Answered(q.cur, res))]
        /\ UNCHANGED <<run, token, held, lapsed, late, approvals, published, served, crashes>>

\* Authorize: the tool needs an actor to whom it was granted.
AuthorizedToPublish(q) == q.granted

\* registry.execute of publish_document: it waits for approval, or
\* PublishApproved runs.  A failure may hide a publication that happened.
ExecutePublish(w) ==
    LET q == req[w]
        i == Last(q.cur)
    IN  /\ q.pc = "exec" /\ q.cur.steps[i].tool = "publish"
        /\ IF ~AuthorizedToPublish(q)
           THEN /\ req' = [req EXCEPT ![w] = At(q, "commit", Waiting(q.cur))]
                /\ UNCHANGED published
           ELSE \E res \in {"ok", "error"}, happened \in BOOLEAN :
                  /\ res = "ok" => happened
                  /\ happened => q.user \in Admins
                  /\ published' = IF happened THEN published \union {i} ELSE published
                  /\ req' = [req EXCEPT ![w] = At(q, "commit", Answered(q.cur, res))]
        /\ UNCHANGED <<run, token, held, lapsed, late, approvals, served, crashes>>

\* The save that ends a call of the orchestrator, and its deferred Release.
Commit(w) ==
    LET q == req[w]
    IN  /\ q.pc = "commit"
        /\ IF Saves(q)
           THEN /\ run' = Saved(q.cur, q.lease)
                /\ req' = [req EXCEPT ![w] = Returned(q, run')]
                /\ Free(q)
           ELSE GiveUp(w) /\ UNCHANGED run
        /\ UNCHANGED <<token, lapsed, late, approvals, published, served, crashes>>

-----------------------------------------------------------------------------
(* The handlers after a call of the orchestrator returned.                 *)

\* ensurePendingApproval: the record of the step that waits, once.
Ensured(i) == IF i # 0 /\ approvals[i].status = "none"
              THEN [approvals EXCEPT ![i].status = "pending"]
              ELSE approvals

\* The same, then DecideApproval on it when it is still pending.
Rejected(i, by) == IF i # 0 /\ Ensured(i)[i].status = "pending"
                   THEN [approvals EXCEPT ![i] = [status |-> "rejected", by |-> by]]
                   ELSE approvals

\* rejectPendingApprovalAfterTimeout: the run waited when the request read
\* it and the call found it timed out.
AfterTimeout(q) == IF q.cur.state = "failed" /\ q.cur.timeout
                   THEN Rejected(q.waited, None) ELSE approvals

\* create and resume: the approval record is made after the run was saved.
FinishRun(w) ==
    LET q == req[w]
    IN  /\ q.pc = "back" /\ q.call = "run"
        /\ approvals' = IF Waits(q.cur) # 0 THEN Ensured(Waits(q.cur))
                        ELSE IF q.op = "resume" THEN AfterTimeout(q) ELSE approvals
        /\ req' = [req EXCEPT ![w] = Idle]
        /\ UNCHANGED <<run, token, held, lapsed, late, published, served, crashes>>

\* approve and reject after ApplyLifecycle: the approval is looked up, and
\* the decision of the requester or on a closed approval is refused.
LookUp(w) ==
    LET q == req[w]
        i == Waits(q.cur)
        a == Ensured(i)[i]
        decidable == /\ q.op = "approve" => q.user # Requester /\ a.status # "rejected"
                     /\ q.op = "reject" => a.status = "pending"
    IN  /\ q.pc = "back" /\ q.call = "lifecycle" /\ q.op \in {"approve", "reject"}
        /\ IF i = 0
           THEN approvals' = AfterTimeout(q) /\ req' = [req EXCEPT ![w] = Idle]
           ELSE /\ approvals' = Ensured(i)
                /\ req' = [req EXCEPT ![w] =
                     IF ~decidable THEN Idle
                     ELSE IF a.status = "approved"
                     THEN [At(q, "lock", None) EXCEPT !.call = "run", !.granted = TRUE]
                     ELSE [At(q, "decide", None) EXCEPT !.waited = i]]
        /\ UNCHANGED <<run, token, held, lapsed, late, published, served, crashes>>

\* Mutant: the decision is written whatever the record says.
DecidableAgain(i) == approvals[i].status # "none"

\* DecideApproval writes only over a pending record.
Decidable(i) == approvals[i].status = "pending"

\* The decision, then RunToCompletion with the tool granted, or RejectApproval.
Decide(w) ==
    LET q == req[w]
        i == q.waited
        verdict == IF q.op = "approve" THEN "approved" ELSE "rejected"
    IN  /\ q.pc = "decide"
        /\ IF Decidable(i)
           THEN /\ approvals' = [approvals EXCEPT ![i] = [status |-> verdict, by |-> q.user]]
                /\ req' = [req EXCEPT ![w] =
                     [q EXCEPT !.pc = "lock", !.granted = q.op = "approve",
                               !.call = IF q.op = "approve" THEN "run" ELSE "reject"]]
           ELSE /\ req' = [req EXCEPT ![w] = Idle]
                /\ UNCHANGED approvals
        /\ UNCHANGED <<run, token, held, lapsed, late, published, served, crashes>>

\* handleCancel after ApplyLifecycle: the run it just saw is what decides,
\* after the cancellation, whether an approval has to be rejected.
CancelNext(w) ==
    LET q == req[w]
    IN  /\ q.pc = "back" /\ q.call = "lifecycle" /\ q.op = "cancel"
        /\ approvals' = AfterTimeout(q)
        /\ req' = [req EXCEPT ![w] = IF q.cur.state \in Terminal THEN Idle
                                     ELSE [At(q, "lock", None) EXCEPT !.call = "cancel",
                                                            !.waited = Waits(q.cur)]]
        /\ UNCHANGED <<run, token, held, lapsed, late, published, served, crashes>>

\* The end of cancel and reject: rejectPendingApprovalAfterCancel.
Closed(w) ==
    LET q == req[w]
    IN  /\ q.pc = "back" /\ q.call \in {"cancel", "reject"}
        /\ approvals' = IF q.call = "cancel" THEN Rejected(q.waited, q.user) ELSE approvals
        /\ req' = [req EXCEPT ![w] = Idle]
        /\ UNCHANGED <<run, token, held, lapsed, late, published, served, crashes>>

-----------------------------------------------------------------------------
(* The environment.                                                        *)

\* The lock's TTL runs out under its owner, alive or dead.
Lapse ==
    /\ held /\ Cardinality(lapsed) < MaxLapses
    /\ held' = FALSE /\ lapsed' = lapsed \union {token}
    /\ UNCHANGED <<run, token, late, approvals, published, req, served, crashes>>

\* AGENT_RUN_TIMEOUT has passed, or AGENT_APPROVAL_TIMEOUT for the step that waits.
TimePasses ==
    /\ run # None /\ run.state \notin Terminal /\ Cardinality(late) < MaxTimeouts
    /\ \E x \in {0, PendingStep(run)} :
         x \notin late /\ late' = late \union {x}
    /\ UNCHANGED <<run, token, held, lapsed, approvals, published, req, served, crashes>>

\* The replica dies: the request is gone and its lease stays until it lapses.
\* (A request that has yet to take the lease may as well find it held.)
Crash(w) ==
    /\ req[w].lease > 0 \/ req[w].pc \in {"back", "decide"}
    /\ crashes < MaxCrashes
    /\ req' = [req EXCEPT ![w] = Idle]
    /\ crashes' = crashes + 1
    /\ UNCHANGED <<run, token, held, lapsed, late, approvals, published, served>>

Next ==
    \/ \E w \in Requests :
         \/ Create(w)
         \/ \E op \in {"resume", "approve", "reject", "cancel"}, u \in Users : Receive(w, op, u)
         \/ Acquire(w) \/ Load(w) \/ Save(w) \/ Plan(w)
         \/ ExecuteAssess(w) \/ ExecutePublish(w) \/ Commit(w)
         \/ FinishRun(w) \/ LookUp(w) \/ Decide(w) \/ CancelNext(w) \/ Closed(w)
         \/ Crash(w)
    \/ Lapse
    \/ TimePasses

Spec == Init /\ [][Next]_vars

-----------------------------------------------------------------------------
IsRun(r) == r \in RunSet /\ r.tok <= token /\ Len(r.steps) <= MaxSteps + 1

\* Types of the variables.
TypeOK ==
    /\ run # None => IsRun(run)
    /\ token \in Nat /\ held \in BOOLEAN /\ lapsed \subseteq 1 .. token
    /\ late \subseteq {0} \union Indexes
    /\ \A i \in Indexes : /\ approvals[i].status \in {"none", "pending", "approved", "rejected"}
                          /\ approvals[i].by \in Users \union {None}
    /\ published \subseteq Indexes
    /\ \A w \in Requests : /\ req[w].lease \in 0 .. token
                           /\ req[w].waited \in {0} \union Indexes
                           /\ req[w].cur # None => IsRun(req[w].cur)
    \* Run state and step states agree in every stored record: a closed run has
    \* no open step, and a run that waits does so on its last step.
    /\ run # None =>
         /\ run.state \in Terminal => ActiveStep(run) = 0
         /\ run.state \in {"waiting_tool", "pending_approval"} =>
              run.steps[Last(run)].st = run.state
         /\ \A i \in DOMAIN run.steps : i < Last(run) => run.steps[i].st = "completed"

\* The publication workflow publishes only a step whose own approval an
\* administrator other than the requester gave, and that decision stands:
\* whatever requests, lapses and crashes interleave, no rejection, time-out
\* or cancellation replaces it (handleApprove, DecideApproval).
PublishedWithConsent ==
    run # None /\ run.task = "governance" =>
      \A i \in published : /\ approvals[i].status = "approved"
                           /\ approvals[i].by \notin {Requester, None}

\* Two requests inside the lock at once means that the lease of one of them
\* lapsed: the late Release of a lapsed owner never frees its successor's
\* lock (RedisLockManager.Release).
OneOwnerUnlessLapsed ==
    \A v, w \in Requests :
      v # w /\ req[v].lease > 0 /\ req[w].lease > 0 =>
        {req[v].lease, req[w].lease} \cap lapsed # {}

\* An owner whose lease lapsed cannot rewrite history: a closed run never
\* changes again, and no recorded step is dropped or rewritten once closed.
HistoryIsKept ==
    [][run # None =>
         /\ run.state \in Terminal => run' = run
         /\ Len(run'.steps) >= Len(run.steps)
         /\ \A i \in DOMAIN run.steps :
              run.steps[i].st \notin Open => run'.steps[i] = run.steps[i]]_vars
=============================================================================
