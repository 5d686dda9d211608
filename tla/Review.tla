------------------------------- MODULE Review -------------------------------
(***************************************************************************)
(* The autonomous pre-review of a publication candidate:                   *)
(* internal/agentapi/review.go and planner.go, the deterministic checks of *)
(* internal/releasecenter (content_review.go, fitness.go) and the caller,  *)
(* releasecenter/coordinator.go StartManagedReview.                        *)
(*                                                                         *)
(* A language model plans a durable run of read-only tools and writes a    *)
(* report; the code does not trust it.  The model may propose any          *)
(* registered tool, in any order, with any valid argument, and any report. *)
(* Meanwhile the candidate is replaced, chunks are missing from the store  *)
(* for a while, replicas die and come back with another model configured.  *)
(*                                                                         *)
(* A run's lease is held from the planner's decision to the end of the     *)
(* tool call and ends with its holder; leases that lapse under a live      *)
(* holder are AgentRun's subject.  Tools only read, so that a completed    *)
(* step is kept as what it observed and a run as the set of them.          *)
(***************************************************************************)
EXTENDS Integers, FiniteSets

CONSTANTS
    Replicas,      \* concurrent calls of StartManagedReview, one per replica
    Generations,    \* the builds of the document that may be the candidate
    Chunks,         \* chunk positions of a generation
    Worlds,         \* what is reviewed: contents of the generations, permission, space
    Models,         \* review models an operator may configure
    RulePlanner,    \* the configuration without a model (ReviewRulePlanner)
    Proposals,      \* bound: reports the model may write, a subset of Finals
    Whims,          \* bound: calls the model may propose, a subset of ToolCalls
    Unknown,        \* an evidence reference that is no chunk of the candidate
    MaxSteps,       \* agent.Options.MaxSteps
    MaxAttempts,    \* AgentReviewMaxAttempts
    MaxCalls,       \* bound: reviews started
    MaxFaults,      \* bound: candidate changes, losses of a chunk, restarts of
                    \* a replica, and planner, tool and budget failures, in all
    Unset

Kinds == {"plain", "blank", "injection", "secret", "placeholder", "informal"}

\* Risks are numbered as reviewRiskRank does: low, medium, high, critical.
Low == 1
Medium == 2
High == 3
Risks == 1 .. 4
Recommendations == {"publish", "needs_info", "reject", "manual_review"}

\* reviewRecommendationRank.
Rank(rec) == CASE rec = "publish" -> 1 [] rec = "needs_info" -> 2 [] OTHER -> 3

Codes == {"sensitive_data_detected", "prompt_injection_detected",
          "insufficient_evidence", "fitness", "own"}

\* What a model may write as its final answer.  `valid' is false for a text
\* that is no report, or one without a status, a summary, a known risk or a
\* known recommendation; `findings' are the findings it adds.
Finals == [valid : BOOLEAN, risk : Risks, rec : Recommendations,
           findings : SUBSET (Codes \X (Chunks \union {Unknown}))]

ASSUME ReviewAssumption ==
    /\ Generations \subseteq Nat \ {0} /\ 1 \in Generations
    /\ Chunks \subseteq Nat
    /\ Worlds \subseteq [content : [Generations -> [Chunks -> Kinds]],
                         internal : BOOLEAN, configured : BOOLEAN]
    /\ RulePlanner \notin Models
    /\ Proposals \subseteq Finals
    /\ Unknown \notin Chunks
    /\ MaxSteps \in Nat \ {0} /\ MaxAttempts \in Nat \ {0}

VARIABLES
    world,          \* generation -> its text in the vector store, whether the
                    \* permission is "internal", whether the space has a purpose
    candidate,      \* the exact candidate Assess returns, 0 if not ready
    missing,        \* chunks of the candidate the store does not return now
    runs,           \* run identity -> the run in the agent store
    model,          \* reviewer -> the planner its replica is configured with
    rev,            \* reviewer -> its call's private state
    stored,         \* generation -> the review report saved for it
    calls, faults

counts == <<calls, faults>>
reviewVars == <<world, candidate, missing, runs, model, rev, stored, counts>>

Planners == Models \union {RulePlanner}

-----------------------------------------------------------------------------
(* The deterministic checks, of a text t: a function from chunks to kinds. *)

Of(t, kind) == {c \in DOMAIN t : t[c] = kind}

\* The chunk an evidence reference falls back to.
FirstOf(S) == {c \in S : \A d \in S : c <= d}

\* AnalyzeContent.  A chunk that matches the injection pattern is not looked
\* at for secrets, and a placeholder only counts when nothing else was found.
Injections(t)   == {"prompt_injection_detected"} \X Of(t, "injection")
Secrets(t)      == {"sensitive_data_detected"} \X Of(t, "secret")
Placeholders(t) ==
    IF Injections(t) \union Secrets(t) = {} /\ Of(t, "placeholder") # {}
    THEN {"insufficient_evidence"} \X FirstOf(DOMAIN t \ Of(t, "blank")) ELSE {}
AnalyzeContent(t) ==
    LET exposed  == Injections(t) \union Secrets(t)
        blocking == Injections(t) # {} \/ Placeholders(t) # {}
                    \/ (Secrets(t) # {} /\ world.internal)
    IN  [failed   |-> Of(t, "blank") = DOMAIN t,
         findings |-> exposed \union Placeholders(t),
         risk     |-> IF exposed # {} THEN High
                      ELSE IF Placeholders(t) # {} THEN Medium ELSE Low,
         rec      |-> IF blocking THEN "needs_info" ELSE "publish"]

\* reviewScanHandler: the findings of one tool's codes; a scan without any
\* is clean, one with some takes the verdict of the whole analysis.
ScanCodes(tool) == IF tool = "scan_injection" THEN {"prompt_injection_detected"}
                   ELSE {"sensitive_data_detected", "insufficient_evidence"}
Scan(tool, t) ==
    LET a    == AnalyzeContent(t)
        mine == {f \in a.findings : f[1] \in ScanCodes(tool)}
    IN  CASE a.failed  -> [failed |-> TRUE, findings |-> {}, risk |-> High, rec |-> "manual_review"]
          [] ~a.failed /\ mine = {} -> [failed |-> FALSE, findings |-> {}, risk |-> Low, rec |-> "publish"]
          [] OTHER     -> [failed |-> FALSE, findings |-> mine, risk |-> a.risk, rec |-> a.rec]

\* EvaluateKnowledgeFitness.  The planner states how the text fits.  Informal
\* material is never usable, a configured space needs a statement, and the
\* judgement needs a chunk of the candidate as its evidence, which is the
\* first one when the planner names none.
Evidence(t, refs) == IF refs = {} THEN FirstOf(DOMAIN t) ELSE refs \intersect DOMAIN t
Fitness(t, args) ==
    LET usable == args.use = "usable" /\ Of(t, "informal") = {}
        fits   == world.configured => args.fit = "match"
        clean  == usable /\ fits /\ Evidence(t, args.refs) # {}
    IN  [failed   |-> FALSE,
         findings |-> IF clean THEN {} ELSE {"fitness"} \X FirstOf(Evidence(t, args.refs)),
         risk     |-> IF clean THEN Low ELSE Medium,
         rec      |-> IF clean THEN "publish" ELSE "needs_info"]

-----------------------------------------------------------------------------
(* Tools and planners.                                                     *)

\* requiredReviewToolNames, in order.
Required == <<"context", "chunks", "scan_sensitive", "scan_injection", "fitness">>
Tools == {Required[i] : i \in DOMAIN Required}

NoArgs == [page |-> Chunks, fit |-> "other", use |-> "usable", refs |-> {}]

\* The calls the schema of each tool admits; arguments the tool treats alike
\* are one.  A page behind the last chunk is empty; a fit that is no match, or
\* not stated, is "other"; a use that is not stated is "usable"; references
\* are none, which stands for the chunks, or unknown.
Call(tool, args) == [tool |-> tool, args |-> args]
ToolCalls ==
    {Call(tool, NoArgs) : tool \in Tools \ {"chunks", "fitness"}}
    \union {Call("chunks", [NoArgs EXCEPT !.page = p]) : p \in {{}, Chunks}}
    \union {Call("fitness", [NoArgs EXCEPT !.fit = f, !.use = u, !.refs = r]) :
            f \in {"match", "other"}, u \in {"usable", "other"}, r \in {{}, {Unknown}}}

ASSUME WhimsAssumption == Whims \subseteq ToolCalls

Final(report) == [tool |-> "final", report |-> report]

Done(run) == {o.tool : o \in run.seen}

\* firstMissingRequiredReviewTool.
FirstMissing(run) ==
    LET M == {i \in DOMAIN Required : Required[i] \notin Done(run)}
    IN  IF M = {} THEN "none" ELSE Required[CHOOSE i \in M : \A j \in M : i <= j]

\* constrainedReviewPlanner.Plan: while a required check is missing, a final
\* answer or a needless repetition becomes the first missing check.
Constrained(run, d) ==
    IF /\ FirstMissing(run) # "none"
       /\ d.tool = "final" \/ (d.tool \in Done(run) /\ d.tool # "chunks")
    THEN Call(FirstMissing(run), NoArgs) ELSE d

\* The strictest of a set of verdicts.
MaxRisk(S) == CHOOSE r \in S : \A q \in S : q <= r

\* ReviewRulePlanner.Plan: the checks in their order, then a report of what
\* they found.  The space fits when the words of its purpose occur in the
\* text, which the model leaves open.
RuleArgs(run, fit) ==
    LET codes == {f[1] : f \in UNION {o.findings : o \in run.seen}}
    IN  [page |-> Chunks, fit |-> IF world.configured THEN fit ELSE "other", refs |-> {},
         use |-> IF "insufficient_evidence" \in codes THEN "other" ELSE "usable"]
RuleReport(run) ==
    LET told == {i \in DOMAIN Required :
                    \E o \in run.seen : o.tool = Required[i] /\ o.rec # "publish"}
    IN  [valid |-> TRUE, risk |-> MaxRisk({o.risk : o \in run.seen}),
         rec |-> IF told = {} THEN "publish"
                 ELSE (CHOOSE o \in run.seen :
                         o.tool = Required[CHOOSE i \in told : \A j \in told : j <= i]).rec,
         findings |-> UNION {o.findings : o \in run.seen}]
RuleDecisions(run) ==
    CASE FirstMissing(run) = "none"    -> {Final(RuleReport(run))}
      [] FirstMissing(run) = "fitness" -> {Call("fitness", RuleArgs(run, f)) : f \in {"match", "other"}}
      [] OTHER                         -> {Call(FirstMissing(run), NoArgs)}

ModelDecisions == Whims \union {Final(p) : p \in Proposals}

\* newReviewPlanner: which planner a replica runs.
Decisions(run, planner) ==
    IF planner = RulePlanner THEN RuleDecisions(run)
    ELSE {Constrained(run, d) : d \in ModelDecisions}

-----------------------------------------------------------------------------
(* Runs.                                                                   *)

Identities == Generations \X Planners \X (1 .. MaxAttempts)

\* Mutant: the identity leaves the model out.
RunIDWithoutModel(g, attempt, planner) == <<g, RulePlanner, attempt>>

\* reviewRunID: the candidate, the attempt and the model.
RunID(g, attempt, planner) == <<g, planner, attempt>>

\* `authors' is history: the planners whose decisions the run holds.
Fresh(state, g, planner) ==
    [state |-> state, cand |-> g, model |-> planner, steps |-> 0, seen |-> {},
     waiting |-> Unset, final |-> Unset, authors |-> {}]
NoRun == Fresh("absent", 0, Unset)
NewRun(g, planner) == Fresh("open", g, planner)

Failed(run) == [run EXCEPT !.state = "failed", !.waiting = Unset]

Idle == [pc |-> "idle", cand |-> 0, id |-> Unset]

\* A run's lease is taken from the decision to the end of the tool call.
LeaseTaken(r) == \E q \in Replicas \ {r} :
                    rev[q].pc = "tool" /\ rev[q].id = rev[r].id

Fault == faults < MaxFaults /\ faults' = faults + 1

\* Mutant: the chunks are not counted.
BoundUncounted(run) == candidate = run.cand /\ Chunks \ missing # {}

\* loadReviewBinding: the candidate is still the run's, and the store returns
\* all of its chunks.
Bound(run) == candidate = run.cand /\ missing = {}

\* What a tool call observes of the candidate.
Observed(call) ==
    LET t    == [c \in Chunks \ missing |-> world.content[candidate][c]]
        look == CASE call.tool \in {"scan_sensitive", "scan_injection"} -> Scan(call.tool, t)
                  [] call.tool = "fitness" -> Fitness(t, call.args)
                  [] OTHER -> [failed |-> FALSE, findings |-> {}, risk |-> Low, rec |-> "publish"]
    IN  [tool |-> call.tool, cand |-> candidate, failed |-> look.failed,
         read |-> IF call.tool = "chunks" THEN call.args.page \intersect DOMAIN t ELSE {},
         findings |-> look.findings, risk |-> look.risk, rec |-> look.rec]

-----------------------------------------------------------------------------
(* validateAutonomousReview: what of the planner's report is believed.     *)

Judged(run) == {o \in run.seen : o.tool \in {"scan_sensitive", "scan_injection", "fitness"}}

\* Whether the run did what a review has to do.
Conclusive(run) ==
    /\ \A o, p \in run.seen : o.cand = p.cand
    /\ Tools \subseteq Done(run)
    /\ \E o \in run.seen : o.tool = "chunks" /\ o.read # {}
    /\ \A o \in Judged(run) : ~o.failed
    /\ run.final.valid

\* The risk and the recommendation the deterministic checks demand.
FloorRisk(run) == MaxRisk({Low} \union {o.risk : o \in Judged(run)})
FloorRecs(run) == {o.rec : o \in Judged(run)} \union {"publish"}
FloorRec(run)  == CHOOSE x \in FloorRecs(run) : \A y \in FloorRecs(run) : Rank(y) <= Rank(x)

\* The planner's findings that name a chunk it may know, with those of the
\* checks added.
Known(run) == IF "fitness" \in Done(run) THEN Chunks
              ELSE UNION {o.read : o \in run.seen}
                   \union {f[2] : f \in UNION {o.findings : o \in run.seen}}
Findings(run) == {f \in run.final.findings : f[2] \in Known(run)}
                 \union UNION {o.findings : o \in run.seen}

\* The planner may only be stricter than the checks; with no finding to show,
\* the verdict is that of the checks alone.
Validated(run) ==
    IF Findings(run) = {}
    THEN [risk |-> FloorRisk(run), rec |-> FloorRec(run)]
    ELSE [risk |-> MaxRisk({run.final.risk, FloorRisk(run)}),
          rec  |-> IF Rank(run.final.rec) < Rank(FloorRec(run)) THEN FloorRec(run)
                   ELSE run.final.rec]

\* resumePublicationReview: anything but a conclusive run is a failure that
\* asks for a person.  The model named is the one in the run's memory.
Failure == [status |-> "failed", cand |-> 0, risk |-> High, rec |-> "manual_review",
            model |-> Unset, id |-> Unset]
Report(id) ==
    LET run == runs[id]
    IN  IF run.state = "completed" /\ Conclusive(run)
        THEN [status |-> "completed", cand |-> (CHOOSE o \in run.seen : TRUE).cand,
              risk |-> Validated(run).risk, rec |-> Validated(run).rec,
              model |-> run.model, id |-> id]
        ELSE Failure

-----------------------------------------------------------------------------
ReviewInit ==
    /\ world \in Worlds
    /\ candidate = 1 /\ missing = {}
    /\ runs = [id \in Identities |-> NoRun]
    /\ \E p \in Planners : model = [r \in Replicas |-> p]
    /\ rev = [r \in Replicas |-> Idle]
    /\ stored = [g \in Generations |-> Unset]
    /\ calls = 0 /\ faults = 0

\* StartManagedReview, up to the call of the reviewer.
Start(r) ==
    /\ rev[r].pc = "idle" /\ candidate # 0 /\ calls < MaxCalls
    /\ rev' = [rev EXCEPT ![r] = [pc |-> "review", cand |-> candidate, id |-> Unset]]
    /\ calls' = calls + 1
    /\ UNCHANGED <<world, candidate, missing, runs, model, stored, faults>>

\* ... and from its answer: a report of another candidate is a failure.
Accepted(r, report) == IF report.status = "completed" /\ report.cand # rev[r].cand
                       THEN Failure ELSE report
Save(r, report) ==
    /\ stored' = [stored EXCEPT ![rev[r].cand] = Accepted(r, report)]
    /\ rev' = [rev EXCEPT ![r] = Idle]
    /\ UNCHANGED <<world, candidate, missing, model, calls>>

\* The attempt a review continues: the first that has not failed.
Attempt(g, planner) ==
    LET A == {k \in 1 .. MaxAttempts :
                k = MaxAttempts \/ runs[RunID(g, k, planner)].state # "failed"}
    IN  CHOOSE k \in A : \A j \in A : k <= j

\* ReviewPublicationReport: the candidate of now, and a run for it.
OpenRun(r) ==
    /\ rev[r].pc = "review"
    /\ \/ /\ candidate = 0
          /\ Save(r, Failure)
          /\ UNCHANGED runs
       \/ /\ candidate # 0
          /\ LET id == RunID(candidate, Attempt(candidate, model[r]), model[r])
             IN  /\ rev' = [rev EXCEPT ![r].pc = "run", ![r].id = id]
                 /\ runs' = [runs EXCEPT ![id] = IF @.state = "absent"
                                              THEN NewRun(candidate, model[r]) ELSE @]
          /\ UNCHANGED <<world, candidate, missing, model, stored, calls>>
    /\ UNCHANGED faults

\* ExecuteNext writes the run back and leaves the reviewer at pc.
Writes(r, run, pc) ==
    /\ runs' = [runs EXCEPT ![rev[r].id] = run]
    /\ rev' = [rev EXCEPT ![r].pc = pc]
    /\ UNCHANGED <<world, candidate, missing, model, stored, calls>>

Plan(r) ==
    LET run  == runs[rev[r].id]
        next == [run EXCEPT !.steps = @ + 1, !.authors = @ \union {model[r]}]
    IN  /\ rev[r].pc = "run" /\ ~LeaseTaken(r) /\ run.state = "open"
        /\ \/ run.waiting # Unset /\ Writes(r, run, "tool") /\ UNCHANGED faults
           \/ run.waiting = Unset /\ run.steps >= MaxSteps /\ Writes(r, Failed(run), "run") /\ UNCHANGED faults
           \/ Fault /\ Writes(r, Failed(run), "run")
           \/ /\ run.waiting = Unset /\ run.steps < MaxSteps
              /\ UNCHANGED faults
              /\ \E d \in Decisions(run, model[r]) :
                    IF d.tool = "final"
                    THEN Writes(r, [next EXCEPT !.state = "completed", !.final = d.report], "run")
                    ELSE Writes(r, [next EXCEPT !.waiting = d], "tool")

Observe(r) ==
    LET run == runs[rev[r].id]
    IN  /\ rev[r].pc = "tool"
        /\ \/ /\ Bound(run) /\ UNCHANGED faults
              /\ Writes(r, [run EXCEPT !.seen = @ \union {Observed(run.waiting)}, !.waiting = Unset], "run")
           \/ ~Bound(run) /\ UNCHANGED faults /\ Writes(r, Failed(run), "run")
           \/ Fault /\ Writes(r, Failed(run), "run")

\* Mutant: a failed run is tried again for ever.
OverCompleted(run) == run.state = "completed"

\* RunToCompletion returns: the run is over.
Over(run) == run.state # "open"

\* ... or the lease is taken.
Return(r) ==
    /\ rev[r].pc = "run"
    /\ \/ Over(runs[rev[r].id]) /\ Save(r, Report(rev[r].id))
       \/ LeaseTaken(r) /\ Save(r, Failure)
    /\ UNCHANGED <<runs, faults>>

\* A replica is restarted, perhaps with another model.
Restart(r) ==
    /\ Fault
    /\ rev' = [rev EXCEPT ![r] = Idle]
    /\ \E p \in Planners : model' = [model EXCEPT ![r] = p]
    /\ UNCHANGED <<world, candidate, missing, runs, stored, calls>>

\* A newer build becomes the candidate, an older one returns, or there is none.
Replace ==
    /\ Fault
    /\ candidate' \in (Generations \union {0}) \ {candidate}
    /\ missing' = {}
    /\ UNCHANGED <<world, runs, model, rev, stored, calls>>

\* A chunk is not in the store until reconciliation writes it again.
Lose ==
    /\ Fault
    /\ missing = {} /\ \E c \in Chunks : missing' = {c}
    /\ UNCHANGED <<world, candidate, runs, model, rev, stored, calls>>
Repair ==
    /\ missing # {} /\ missing' = {}
    /\ UNCHANGED <<world, candidate, runs, model, rev, stored, counts>>

Work(r) == OpenRun(r) \/ Plan(r) \/ Observe(r) \/ Return(r)

ReviewNext == \/ \E r \in Replicas : Start(r) \/ Work(r) \/ Restart(r)
        \/ Replace \/ Lose \/ Repair

\* A call runs until it returns: RunToCompletion is a loop without waiting.
ReviewFairness == \A r \in Replicas : WF_reviewVars(Work(r))

ReviewSpec == ReviewInit /\ [][ReviewNext]_reviewVars /\ ReviewFairness

-----------------------------------------------------------------------------
(* Properties.                                                             *)

\* What is in the whole content of a build demands of its verdict, said of
\* the content alone.
Exposed(g) == Of(world.content[g], "injection") \union Of(world.content[g], "secret")
Stricter(g) ==
    \/ Of(world.content[g], "injection") # {}
    \/ world.internal /\ Of(world.content[g], "secret") # {}
    \/ Exposed(g) = {} /\ Of(world.content[g], "placeholder") # {}
    \/ Of(world.content[g], "informal") # {}
IsVerdictOn(report, g) ==
    /\ Exposed(g) # {} => report.risk >= High
    /\ Stricter(g) => report.risk >= Medium /\ Rank(report.rec) >= Rank("needs_info")
    /\ Of(world.content[g], "blank") # Chunks

\* Whatever the model calls, omits, repeats or claims, and however the
\* candidate, the store and the replicas change meanwhile, the verdict saved
\* for a candidate is never laxer than what the deterministic checks find in
\* that candidate's whole content.
VerdictIsNeverLaxer ==
    \A g \in Generations :
        stored[g] # Unset /\ stored[g].status = "completed" => IsVerdictOn(stored[g], g)

\* review.go:371 "the report must name the model that actually produced the
\* verdict": every decision of the run behind a saved verdict was taken by the
\* model it names, also when replicas with other models review the candidate.
AuthorIsNamed ==
    \A g \in Generations :
        stored[g] # Unset /\ stored[g].status = "completed" =>
            runs[stored[g].id].authors = {stored[g].model}

\* A review ends, whatever the model does: with a verdict, a failure saved for
\* a person to look at, or the end of its replica.
ReviewEnds == \A r \in Replicas : rev[r].pc # "idle" ~> rev[r].pc = "idle"
=============================================================================
