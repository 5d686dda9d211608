--------------------------- MODULE IndexManifest ---------------------------
(***************************************************************************)
(* Index generations of one document version (ADR 0008): a generation is   *)
(* what one build definition makes of the version, its manifest row is in  *)
(* PostgreSQL, its chunks are in two projections, Qdrant and Elasticsearch.*)
(* The builder of the pipeline, the reconciler, the administrator's        *)
(* rollback and the retention collector change rows and projections in     *)
(* separate calls; one SQL transaction, one call to a backend or to the    *)
(* checkpoint store is one step.                                           *)
(*                                                                         *)
(* A document version has one ingestion job and module Ingestion shows     *)
(* that one worker at a time works on it, so there is one builder; the job *)
(* is open (it will be delivered) or in one of its terminal states.        *)
(*                                                                         *)
(* An expected identity, count and digest together, is the set of chunks   *)
(* it was computed from.  Parsing is taken to be repeatable: every build   *)
(* of the version yields all of Chunks.                                    *)
(*                                                                         *)
(* Time is abstract.  A reconciliation lease may lapse under its holder    *)
(* (config.go only asks that it outlives the interval between passes), and *)
(* so may the five minutes of a rollback: neither keeps a claim from being *)
(* made.  A collector's lease covers the deletes of its whole batch        *)
(* (config.go), so it ends with its holder.                                *)
(***************************************************************************)
EXTENDS Integers, FiniteSets

CONSTANTS
  Generations,  \* build definitions, numbered in the order they are deployed
  Chunks,       \* chunks of the version, numbered in parser order
  Reconcilers,  \* reconciliation loops, one per worker process
  Collectors,   \* retention loops, one per worker process
  Operator,     \* the administrator's rollback request
  Paged,        \* the file is a PDF: processPDFBatches keeps a checkpoint
  Rollbacks,    \* the administrator may roll back
  Reverts,      \* an older build definition may be deployed again
  CanCancel,    \* users may cancel the job
  MaxRepairs,   \* cfg.IndexReconcileMaxRepairs
  MaxFaults,    \* bound on crashes, failed calls, lost chunks, returns to an older
                \* build definition and requested rollbacks
  None

ASSUME NumbersAssumption ==
  Generations \subseteq Nat /\ Chunks \subseteq Nat /\ None \notin Nat
ASSUME ActorsAssumption ==
  None \notin Reconcilers \cup Collectors \cup {Operator} /\ Operator \notin Collectors
ASSUME FlagsAssumption == {Paged, Rollbacks, Reverts, CanCancel} \subseteq BOOLEAN
ASSUME BoundsAssumption == MaxRepairs \in Nat \ {0} /\ MaxFaults \in Nat

VARIABLES
  row,      \* index_manifests, by generation
  proj,     \* chunks of each generation in each backend
  job,      \* the version's ingestion job
  deployed, \* the build definition the workers run with
  ckpt,     \* chunk identities in the job's checkpoint
  build,    \* the build session and the job's handling after it
  rec,      \* what each reconciler is doing
  col,      \* what each retention collector is doing
  roll,     \* the rollback request
  lost,     \* history: generations that lost a chunk nobody verified since
  missed,   \* history: observers of a backend that lost a chunk afterwards
  outdated, \* history: observers older than a divergence recorded since
  overruled,\* history: generations meant to succeed another one than the target of
            \* the last rollback, as long as that other one is not activated anew
  faults    \* faults so far

history == <<lost, missed, outdated, overruled>>
vars == <<row, proj, job, deployed, ckpt, build, rec, col, roll,
          lost, missed, outdated, overruled, faults>>

Backends == {"qdrant", "elasticsearch"}
Builder == "builder"
Observers == Reconcilers \cup {Builder, Operator}
ASSUME ObserversAssumption ==
  Builder \notin Reconcilers \cup {Operator} /\ Operator \notin Reconcilers

Row == [state : {"absent", "building", "ready", "failed", "active", "retired"},
        expectedActive : Generations \cup {None},
        seal : SUBSET Chunks,               \* {}: not sealed
        error : BOOLEAN,                    \* last_reconcile_error <> ''
        repairs : 0..MaxRepairs,
        reconcileToken : Reconcilers \cup {None},
        expired : BOOLEAN,                  \* retired_at < now() - window
        retentionToken : Collectors \cup {Operator, None},
        deleted : SUBSET Backends]
NoRow == [state |-> "absent", expectedActive |-> None, seal |-> {}, error |-> FALSE,
          repairs |-> 0, reconcileToken |-> None, expired |-> FALSE,
          retentionToken |-> None, deleted |-> {}]

NoBuild == [at |-> "idle", gen |-> None, active |-> None, state |-> "absent",
            ids |-> {}, todo |-> {}, half |-> None, seen |-> {}]
Resting == [at |-> "idle", gen |-> None, seen |-> {}, whole |-> TRUE]
Collecting == [at |-> "idle", gen |-> None, tried |-> {}, deleted |-> {}]
NoRequest == [at |-> "idle", gen |-> None, active |-> None, seen |-> {}]

TypeOK ==
  /\ row \in [Generations -> Row]
  /\ proj \in [Backends -> [Generations -> SUBSET Chunks]]
  /\ job \in {"open", "completed", "failed", "cancelled"}
  /\ deployed \in Generations
  /\ ckpt \in SUBSET Chunks
  /\ build \in [at : {"idle", "begin", "write", "save", "observe", "activate",
                      "done", "cleanup"},
                gen : Generations \cup {None}, active : Generations \cup {None},
                state : {"absent", "building", "ready", "active", "retired"},
                ids : SUBSET Chunks, todo : SUBSET Chunks,
                half : Chunks \cup {None}, seen : SUBSET Backends]
  /\ rec \in [Reconcilers -> [at : {"idle", "observe", "schedule"},
                gen : Generations \cup {None}, seen : SUBSET Backends, whole : BOOLEAN]]
  /\ col \in [Collectors -> [at : {"idle", "delete"}, gen : Generations \cup {None},
                tried : SUBSET Backends, deleted : SUBSET Backends]]
  /\ roll \in [at : {"idle", "observe"}, gen : Generations \cup {None},
               active : Generations \cup {None}, seen : SUBSET Backends]
  /\ lost \in SUBSET Generations /\ overruled \in SUBSET Generations
  /\ missed \in SUBSET Observers /\ outdated \in SUBSET Observers
  /\ faults \in 0..MaxFaults

Init ==
  /\ row = [g \in Generations |-> NoRow]
  /\ proj = [b \in Backends |-> [g \in Generations |-> {}]]
  /\ job = "open"
  /\ deployed \in Generations
  /\ \A g \in Generations : deployed <= g
  /\ ckpt = {}
  /\ build = NoBuild
  /\ rec = [r \in Reconcilers |-> Resting]
  /\ col = [c \in Collectors |-> Collecting]
  /\ roll = NoRequest
  /\ lost = {} /\ missed = {} /\ outdated = {} /\ overruled = {}
  /\ faults = 0

Fault == faults < MaxFaults /\ faults' = faults + 1

ActiveGenerations == {g \in Generations : row[g].state = "active"}
\* The generation SELECT ... WHERE state='active' returns.
Current == IF ActiveGenerations = {} THEN None
           ELSE CHOOSE g \in ActiveGenerations : TRUE

\* The projection holds exactly the sealed identity.
Matches(b, g) == proj[b][g] = row[g].seal

\* Qdrant is always observed, and deleted from, before Elasticsearch.
NextBackend(b, done) == b \notin done /\ (b = "qdrant" \/ "qdrant" \in done)

\* Bookkeeping: o starts over, or has just verified g on both backends.
Starts(o) == missed' = missed \ {o} /\ outdated' = outdated \ {o}
Verified(o, g) == lost' = IF o \in missed THEN lost ELSE lost \ {g}

-----------------------------------------------------------------------------
(* The build: Builder.Begin, Upsert of every chunk, Build.Complete, and    *)
(* what handleTask does with the job afterwards.                           *)

BuildReadsActive ==
  /\ build.at = "idle" /\ job = "open"
  /\ build' = [NoBuild EXCEPT !.at = "begin", !.gen = deployed, !.active = Current]
  /\ UNCHANGED <<row, proj, job, deployed, ckpt, rec, col, roll, history, faults>>

\* Not the code: the row of a failed build stays as it is.
RetriedInPlace(r) == r
\* The row of a failed build keeps its repair count and its predecessor.
Retried(r) == [r EXCEPT !.state = "building", !.seal = {}]
\* INSERT ... ON CONFLICT DO NOTHING, then Retry if the row says failed.
BegunRow(g) ==
  CASE row[g].state = "absent" ->
         [NoRow EXCEPT !.state = "building", !.expectedActive = build.active]
    [] row[g].state = "failed" -> Retried(row[g])
    [] OTHER -> row[g]
\* What the checkpoint of an earlier attempt contributes.
Seeded == IF Paged THEN ckpt ELSE {}

BuildBegins ==
  /\ build.at = "begin"
  /\ LET g == build.gen IN
     /\ row' = [row EXCEPT ![g] = BegunRow(g)]
     /\ build' = [build EXCEPT !.at = "write", !.state = BegunRow(g).state,
                               !.ids = Seeded, !.todo = Chunks \ Seeded]
  /\ UNCHANGED <<proj, job, deployed, ckpt, rec, col, roll, history, faults>>

WriteQdrant(c) ==
  /\ build.at = "write" /\ build.half = None
  /\ c \in build.todo /\ \A d \in build.todo : c <= d
  /\ proj' = [proj EXCEPT !["qdrant"][build.gen] = @ \cup {c}]
  /\ build' = [build EXCEPT !.half = c]
  /\ UNCHANGED <<row, job, deployed, ckpt, rec, col, roll, history, faults>>

WriteElastic ==
  /\ build.at = "write" /\ build.half # None
  /\ proj' = [proj EXCEPT !["elasticsearch"][build.gen] = @ \cup {build.half}]
  /\ build' = [build EXCEPT !.ids = @ \cup {build.half}, !.todo = @ \ {build.half},
                            !.half = None, !.at = IF Paged THEN "save" ELSE "write"]
  /\ UNCHANGED <<row, job, deployed, ckpt, rec, col, roll, history, faults>>

SaveCheckpoint ==
  /\ build.at = "save"
  /\ ckpt' = build.ids
  /\ build' = [build EXCEPT !.at = "write"]
  /\ UNCHANGED <<row, proj, job, deployed, rec, col, roll, history, faults>>

\* SealExpected sets the identity of an unsealed building row and otherwise
\* insists on the identity that is there.
SealedRow(g) == IF row[g].state = "building" /\ row[g].seal = {}
                THEN [row[g] EXCEPT !.seal = build.ids] ELSE row[g]
SealHolds(g) == row[g].state # "absent" /\ SealedRow(g).seal = build.ids
AllWritten == build.at = "write" /\ build.todo = {} /\ build.half = None

SealExpected ==
  /\ AllWritten
  /\ LET g == build.gen IN
     /\ SealHolds(g)
     /\ row' = [row EXCEPT ![g] = SealedRow(g)]
     /\ build' = [build EXCEPT !.state = row[g].state,
                    !.at = IF row[g].state \in {"building", "active"} THEN "observe"
                                                                     ELSE "activate"]
  /\ missed' = missed \ {Builder} /\ outdated' = outdated \ {Builder}
  /\ UNCHANGED <<proj, job, deployed, ckpt, rec, col, roll, lost, overruled, faults>>

BuildObserves(b) ==
  /\ build.at = "observe" /\ NextBackend(b, build.seen)
  /\ Matches(b, build.gen)
  /\ build' = [build EXCEPT !.seen = @ \cup {b}]
  /\ UNCHANGED <<row, proj, job, deployed, ckpt, rec, col, roll, history, faults>>

\* Not the code: ready or confirmed after one projection.
BuildHasSeenOne(s) == build.at = "observe" /\ build.seen # {} /\ build.state = s
BuildHasSeen(s) == build.at = "observe" /\ build.seen = Backends /\ build.state = s

MarkReady ==
  /\ BuildHasSeen("building") /\ row[build.gen].state = "building"
  /\ row' = [row EXCEPT ![build.gen].state = "ready"]
  /\ build' = [build EXCEPT !.at = "activate"]
  /\ Verified(Builder, build.gen)
  /\ UNCHANGED <<proj, job, deployed, ckpt, rec, col, roll, missed, outdated,
                 overruled, faults>>

\* Not fenced by a token: it takes the row from whoever reconciles it.
ConfirmActive ==
  /\ BuildHasSeen("active") /\ row[build.gen].state = "active"
  /\ row' = [row EXCEPT ![build.gen].error = FALSE, ![build.gen].repairs = 0,
                        ![build.gen].reconcileToken = None]
  /\ build' = [build EXCEPT !.at = "done"]
  /\ Verified(Builder, build.gen)
  /\ UNCHANGED <<proj, job, deployed, ckpt, rec, col, roll, missed, outdated,
                 overruled, faults>>

Retire(r) == [r EXCEPT !.state = "retired", !.expired = FALSE, !.reconcileToken = None]
\* Not the code: the previous generation is not retired.
KeepsPrevious(g, promoted) == [row EXCEPT ![g] = promoted]
\* The rows after g took over from the active generation, if there is one.
Succession(g, promoted) ==
  [h \in Generations |-> CASE h = g -> promoted
                           [] h # g /\ row[h].state = "active" -> Retire(row[h])
                           [] OTHER -> row[h]]
\* The compare-and-set on the predecessor seen when the row was inserted.
MayActivate(g) == row[g].state = "ready" /\ Current = row[g].expectedActive

Activate ==
  /\ build.at = "activate"
  /\ LET g == build.gen IN
     /\ MayActivate(g)
     /\ row' = Succession(g, [row[g] EXCEPT !.state = "active", !.expired = FALSE])
     /\ overruled' = {h \in overruled : row[h].expectedActive # g}
  /\ build' = [build EXCEPT !.at = "done"]
  /\ UNCHANGED <<proj, job, deployed, ckpt, rec, col, roll, lost, missed, outdated, faults>>

\* The step the build has come to cannot succeed.
Refused ==
  \/ AllWritten /\ ~SealHolds(build.gen)
  \/ build.at = "observe" /\ \E b \in Backends :
        NextBackend(b, build.seen) /\ ~Matches(b, build.gen)
  \/ BuildHasSeen("active") /\ row[build.gen].state # "active"
  \/ build.at = "activate" /\ ~MayActivate(build.gen)

\* Verifier.fail and Build.Abort: only a build that loaded or sealed the row
\* as building marks it, and only while the row still says so.  Then the
\* pipeline retries the task or, its attempts spent, fails the job.
BuildEnds ==
  /\ row' = IF build.state = "building" /\ row[build.gen].state = "building"
            THEN [row EXCEPT ![build.gen].state = "failed"] ELSE row
  /\ job' \in IF job = "open" THEN {"open", "failed"} ELSE {job}
  /\ build' = NoBuild
  /\ UNCHANGED <<proj, deployed, ckpt, rec, col, roll, history>>

BuildRefused == Refused /\ BuildEnds /\ UNCHANGED faults
BuildErrs == build.at \notin {"idle", "done", "cleanup"} /\ Fault /\ BuildEnds

\* processPDFBatches looks for a cancellation before each page range.
BuildCancelled ==
  /\ Paged /\ build.at = "write" /\ build.half = None /\ job = "cancelled"
  /\ BuildEnds /\ UNCHANGED faults

\* A job cancelled meanwhile refuses completion.
JobCompletes ==
  /\ build.at = "done"
  /\ job' = IF job = "open" THEN "completed" ELSE job
  /\ build' = IF Paged /\ job = "open" THEN [build EXCEPT !.at = "cleanup"] ELSE NoBuild
  /\ UNCHANGED <<row, proj, deployed, ckpt, rec, col, roll, history, faults>>

DeleteCheckpoint ==
  /\ build.at = "cleanup"
  /\ ckpt' = {}
  /\ build' = NoBuild
  /\ UNCHANGED <<row, proj, job, deployed, rec, col, roll, history, faults>>

\* The process dies: nothing is recorded and the job is delivered again.
BuilderCrashes ==
  /\ build.at # "idle" /\ Fault
  /\ build' = NoBuild
  /\ UNCHANGED <<row, proj, job, deployed, ckpt, rec, col, roll, history>>

CancelJob ==
  /\ CanCancel /\ job = "open"
  /\ job' = "cancelled"
  /\ UNCHANGED <<row, proj, deployed, ckpt, build, rec, col, roll, history, faults>>

-----------------------------------------------------------------------------
(* The reconciler: one pass over one active, or one failed, generation.    *)

ClaimReconciliation(r, g) ==
  /\ rec[r].at = "idle" /\ row[g].state = "active"
  /\ row' = [row EXCEPT ![g].reconcileToken = r]
  /\ rec' = [rec EXCEPT ![r] = [Resting EXCEPT !.at = "observe", !.gen = g]]
  /\ Starts(r)
  /\ UNCHANGED <<proj, job, deployed, ckpt, build, col, roll, lost, overruled, faults>>

\* A backend that cannot be asked counts as diverged.
ReconcilerObserves(r, b) ==
  /\ rec[r].at = "observe" /\ NextBackend(b, rec[r].seen)
  /\ \E answers \in BOOLEAN :
       /\ IF answers THEN UNCHANGED faults ELSE Fault
       /\ rec' = [rec EXCEPT ![r].seen = @ \cup {b},
                             ![r].whole = @ /\ answers /\ Matches(b, rec[r].gen)]
  /\ UNCHANGED <<row, proj, job, deployed, ckpt, build, col, roll, history>>

\* Not the code: the claim token is not compared.
ReconcilesUnfenced(r, g) == TRUE
HoldsReconciliation(r, g) == row[g].reconcileToken = r
ReconcilerHasSeen(r) == rec[r].at = "observe" /\ rec[r].seen = Backends
Rests(r) == rec' = [rec EXCEPT ![r] = Resting]
OwnsActive(r) == HoldsReconciliation(r, rec[r].gen) /\ row[rec[r].gen].state = "active"

FinishHealthy(r) ==
  /\ ReconcilerHasSeen(r) /\ rec[r].whole /\ OwnsActive(r)
  /\ row' = [row EXCEPT ![rec[r].gen].error = FALSE, ![rec[r].gen].repairs = 0,
                        ![rec[r].gen].reconcileToken = None]
  /\ Rests(r)
  /\ Verified(r, rec[r].gen)
  /\ UNCHANGED <<proj, job, deployed, ckpt, build, col, roll, missed, outdated,
                 overruled, faults>>

\* Observers of g that have looked at a backend already.
LookedAt(g) == {r \in Reconcilers : rec[r].gen = g /\ rec[r].seen # {}}
               \cup {o \in {Builder} : build.gen = g /\ build.seen # {}}
               \cup {o \in {Operator} : roll.gen = g /\ roll.seen # {}}

\* The job can be sent through the pipeline once more.
Reopenable == job \in {"completed", "failed"}
\* `pending': the job's outbox row is not marked as published, which a relay may
\* do after a worker has settled the job (module Ingestion).  The repair is then
\* taken to be on its way.
ReplaysJob(g, pending) == row[g].repairs < MaxRepairs /\ ~pending /\ Reopenable
\* What is recorded in the transaction that may also reopen the job.
DivergedRow(g, pending) == [row[g] EXCEPT !.error = TRUE, !.reconcileToken = None,
                              !.repairs = IF ReplaysJob(g, pending) THEN @ + 1 ELSE @]
\* No path of the transaction commits when a replay is due of a cancelled job.
DivergenceCommits(g, pending) == row[g].repairs >= MaxRepairs \/ pending \/ job # "cancelled"

RecordDivergence(r, pending) ==
  /\ ReconcilerHasSeen(r) /\ ~rec[r].whole /\ OwnsActive(r)
  /\ LET g == rec[r].gen IN
     /\ DivergenceCommits(g, pending)
     /\ row' = [row EXCEPT ![g] = DivergedRow(g, pending)]
     /\ job' = IF ReplaysJob(g, pending) THEN "open" ELSE job
     /\ outdated' = outdated \cup LookedAt(g)
  /\ Rests(r)
  /\ UNCHANGED <<proj, deployed, ckpt, build, col, roll, lost, missed, overruled, faults>>

FinishDiverged(r) == \E pending \in BOOLEAN : RecordDivergence(r, pending)

ClaimFailedRepairs(r, g) ==
  /\ rec[r].at = "idle" /\ row[g].state = "failed" /\ row[g].repairs < MaxRepairs
  /\ row' = [row EXCEPT ![g].reconcileToken = r]
  /\ rec' = [rec EXCEPT ![r] = [Resting EXCEPT !.at = "schedule", !.gen = g]]
  /\ UNCHANGED <<proj, job, deployed, ckpt, build, col, roll, history, faults>>

OwnsFailed(r) == HoldsReconciliation(r, rec[r].gen) /\ row[rec[r].gen].state = "failed"
\* A replay already under way is not charged.
Charged(n) == IF Reopenable THEN n + 1 ELSE n

ScheduleFailedRepair(r) ==
  /\ rec[r].at = "schedule" /\ OwnsFailed(r) /\ job # "cancelled"
  /\ LET g == rec[r].gen IN
       row' = [row EXCEPT ![g].reconcileToken = None, ![g].repairs = Charged(@)]
  /\ job' = "open"
  /\ Rests(r)
  /\ UNCHANGED <<proj, deployed, ckpt, build, col, roll, history, faults>>

\* ErrConflict: the transaction is rolled back, the pass goes on.
ReconcilerConflicts(r) ==
  /\ \/ /\ ReconcilerHasSeen(r)
        /\ \/ ~OwnsActive(r)
           \/ ~rec[r].whole /\ ~DivergenceCommits(rec[r].gen, FALSE)
     \/ /\ rec[r].at = "schedule"
        /\ ~OwnsFailed(r) \/ job = "cancelled"
  /\ Rests(r)
  /\ UNCHANGED <<row, proj, job, deployed, ckpt, build, col, roll, history, faults>>

ReconcilerCrashes(r) ==
  /\ rec[r].at # "idle" /\ Fault
  /\ Rests(r)
  /\ UNCHANGED <<row, proj, job, deployed, ckpt, build, col, roll, history>>

-----------------------------------------------------------------------------
(* Rollback by an administrator, and the retention of retired generations. *)

\* No collector at work holds the lease; the operator's may have lapsed.
LeaseFree(g) == \A c \in Collectors : col[c].gen = g => row[g].retentionToken # c

RollbackTarget(g) ==
  /\ Rollbacks /\ Fault /\ roll.at = "idle" /\ Current # None
  /\ row[g].state = "retired" /\ ~row[g].expired /\ row[g].deleted = {}
  /\ LeaseFree(g)
  /\ row' = [row EXCEPT ![g].retentionToken = Operator]
  /\ roll' = [at |-> "observe", gen |-> g, active |-> Current, seen |-> {}]
  /\ Starts(Operator)
  /\ UNCHANGED <<proj, job, deployed, ckpt, build, rec, col, lost, overruled>>

RollbackObserves(b) ==
  /\ roll.at = "observe" /\ NextBackend(b, roll.seen) /\ Matches(b, roll.gen)
  /\ roll' = [roll EXCEPT !.seen = @ \cup {b}]
  /\ UNCHANGED <<row, proj, job, deployed, ckpt, build, rec, col, history, faults>>

\* Not the code: the promotion checks neither window nor token.
StillRetired(g) == row[g].state = "retired"
\* The target is still the one that was protected and still in its window.
StillProtected(g) == /\ row[g].state = "retired" /\ ~row[g].expired
                     /\ row[g].retentionToken = Operator
MayRollBack == Current = roll.active /\ StillProtected(roll.gen)

Rollback ==
  /\ roll.at = "observe" /\ roll.seen = Backends /\ MayRollBack
  /\ LET g == roll.gen IN
     /\ row' = Succession(g, [row[g] EXCEPT !.state = "active", !.expired = FALSE,
                 !.error = FALSE, !.repairs = 0, !.reconcileToken = None,
                 !.retentionToken = None])
     /\ overruled' = {h \in Generations \ {g} :
                        row[h].state # "absent" /\ row[h].expectedActive # g}
     /\ Verified(Operator, g)
  /\ roll' = NoRequest
  /\ UNCHANGED <<proj, job, deployed, ckpt, build, rec, col, missed, outdated, faults>>

RollbackFails ==
  /\ roll.at = "observe"
  /\ \/ roll.seen = Backends /\ UNCHANGED faults  \* not the target, or the lease lapsed
     \/ /\ \E b \in Backends : NextBackend(b, roll.seen) /\ ~Matches(b, roll.gen)
        /\ UNCHANGED faults
     \/ Fault
  /\ roll' = NoRequest
  /\ UNCHANGED <<row, proj, job, deployed, ckpt, build, rec, col, history>>

ClaimRetention(c, g) ==
  /\ col[c].at = "idle"
  /\ row[g].state = "retired" /\ row[g].expired /\ LeaseFree(g)
  /\ row' = [row EXCEPT ![g].retentionToken = c]
  /\ col' = [col EXCEPT ![c] = [at |-> "delete", gen |-> g,
               tried |-> row[g].deleted, deleted |-> row[g].deleted]]
  /\ UNCHANGED <<proj, job, deployed, ckpt, build, rec, roll, history, faults>>

\* A projection an earlier pass has deleted is not deleted again.
DeleteGeneration(c, b) ==
  /\ col[c].at = "delete" /\ NextBackend(b, col[c].tried \cup col[c].deleted)
  /\ \/ /\ proj' = [proj EXCEPT ![b][col[c].gen] = {}]
        /\ col' = [col EXCEPT ![c].tried = @ \cup {b}, ![c].deleted = @ \cup {b}]
        /\ UNCHANGED faults
     \/ /\ Fault
        /\ col' = [col EXCEPT ![c].tried = @ \cup {b}]
        /\ UNCHANGED proj
  /\ UNCHANGED <<row, job, deployed, ckpt, build, rec, roll, history>>

HoldsRetention(c, g) == row[g].retentionToken = c /\ row[g].state = "retired"
\* The row goes last, when both deletes have succeeded.
RetainedRow(c, g) ==
  IF col[c].deleted = Backends THEN NoRow
  ELSE [row[g] EXCEPT !.deleted = @ \cup col[c].deleted, !.retentionToken = None]

FinishRetention(c) ==
  /\ col[c].at = "delete" /\ col[c].tried = Backends
  /\ LET g == col[c].gen IN
       row' = IF HoldsRetention(c, g) THEN [row EXCEPT ![g] = RetainedRow(c, g)] ELSE row
  /\ overruled' = {g \in overruled : row'[g].state # "absent"}
  /\ col' = [col EXCEPT ![c] = Collecting]
  /\ UNCHANGED <<proj, job, deployed, ckpt, build, rec, roll, lost, missed, outdated, faults>>

CollectorCrashes(c) ==
  /\ col[c].at # "idle" /\ Fault
  /\ col' = [col EXCEPT ![c] = Collecting]
  /\ UNCHANGED <<row, proj, job, deployed, ckpt, build, rec, roll, history>>

-----------------------------------------------------------------------------
(* The surroundings.                                                       *)

\* The workers restart with another build definition.  The job is not sent
\* again for it: the next delivery, whatever its reason, builds under it.
Deploy(g) ==
  /\ \/ deployed < g /\ UNCHANGED faults
     \/ Reverts /\ g < deployed /\ Fault
  /\ deployed' = g
  /\ UNCHANGED <<row, proj, job, ckpt, build, rec, col, roll, history>>

\* The rollback window runs from retired_at.  It is longer than a build.
WindowPasses(g) ==
  /\ row[g].state = "retired" /\ ~row[g].expired /\ build.gen # g
  /\ row' = [row EXCEPT ![g].expired = TRUE]
  /\ UNCHANGED <<proj, job, deployed, ckpt, build, rec, col, roll, history, faults>>

\* A backend loses a chunk it had acknowledged.
LosesChunk(b, g, c) ==
  /\ Fault /\ c \in proj[b][g]
  /\ proj' = [proj EXCEPT ![b][g] = @ \ {c}]
  /\ lost' = lost \cup {g}
  /\ missed' = missed \cup {r \in Reconcilers : rec[r].gen = g /\ b \in rec[r].seen}
                      \cup {o \in {Builder} : build.gen = g /\ b \in build.seen}
                      \cup {o \in {Operator} : roll.gen = g /\ b \in roll.seen}
  /\ UNCHANGED <<row, job, deployed, ckpt, build, rec, col, roll, outdated, overruled>>

BuildSteps ==
  \/ BuildReadsActive \/ BuildBegins \/ WriteElastic \/ SaveCheckpoint
  \/ \E c \in Chunks : WriteQdrant(c)
  \/ SealExpected
  \/ \E b \in Backends : BuildObserves(b)
  \/ MarkReady \/ ConfirmActive \/ Activate \/ BuildRefused
  \/ JobCompletes \/ DeleteCheckpoint

ActivePass(r) == \E g \in Generations : ClaimReconciliation(r, g)
FailedPass(r) == \E g \in Generations : ClaimFailedRepairs(r, g)
ReconcilerSteps(r) ==
  \/ \E b \in Backends : ReconcilerObserves(r, b)
  \/ FinishHealthy(r) \/ FinishDiverged(r) \/ ScheduleFailedRepair(r)
  \/ ReconcilerConflicts(r)

RollbackSteps == (\E b \in Backends : RollbackObserves(b)) \/ Rollback \/ RollbackFails

CollectorSteps(c) ==
  \/ \E g \in Generations : ClaimRetention(c, g)
  \/ \E b \in Backends : DeleteGeneration(c, b)
  \/ FinishRetention(c)

Next ==
  \/ BuildSteps \/ BuildErrs \/ BuildCancelled \/ BuilderCrashes \/ CancelJob
  \/ \E r \in Reconcilers : \/ ActivePass(r) \/ FailedPass(r)
                            \/ ReconcilerSteps(r) \/ ReconcilerCrashes(r)
  \/ RollbackSteps
  \/ \E c \in Collectors : CollectorSteps(c) \/ CollectorCrashes(c)
  \/ \E g \in Generations : RollbackTarget(g) \/ Deploy(g) \/ WindowPasses(g)
  \/ \E b \in Backends, g \in Generations, c \in Chunks : LosesChunk(b, g, c)

Spec == Init /\ [][Next]_vars

\* Kafka keeps delivering an open job, whose attempts are counted, so that one
\* that is always refused fails; a request ends, the loops run for ever:
\* a pass over the active generations is followed by one over the failed ones,
\* and since the relay marks what it published, not every pass finds a repair
\* on its way.
Fairness ==
  /\ WF_vars(BuildSteps) /\ SF_vars(BuildRefused /\ job' = "failed") /\ WF_vars(RollbackSteps)
  /\ \A r \in Reconcilers : /\ WF_vars(ReconcilerSteps(r))
                            /\ SF_vars(ActivePass(r)) /\ SF_vars(FailedPass(r))
                            /\ SF_vars(RecordDivergence(r, FALSE))
  /\ \A c \in Collectors : WF_vars(CollectorSteps(c))
FairSpec == Spec /\ Fairness

-----------------------------------------------------------------------------
(* Properties.                                                             *)

\* What a query may be answered from: ResolveVisibility.
Visible(g) == row[g].state = "active" /\ ~row[g].error

\* A generation queries can see is complete and exact in both projections,
\* unless a backend lost a chunk that no pass has had the chance to notice:
\* no path (first build, repair, reconciliation, rollback) makes it visible
\* on less than two matching observations of that very generation.
VisibleIsWhole ==
  \A g \in Generations : Visible(g) /\ g \notin lost => \A b \in Backends : Matches(b, g)

\* Once a generation serves the version there is exactly one from then on:
\* activation, rollback, repair and retention never leave a gap or two.
ServiceNeverLapses ==
  [][ActiveGenerations # {} => Cardinality(ActiveGenerations') = 1]_vars

\* A generation that was to take over from another one than a rollback's target
\* does not undo that rollback, however often its build is delivered again: it
\* comes back only through another rollback, by being built afresh, or after the
\* very generation it was built to succeed was built and activated anew.  Nothing
\* is said of a build that expects the target as its predecessor: Activate lets
\* it take over from the target, before or after the rollback.
RollbackSticks ==
  [][\A g \in overruled : row[g].state # "active" /\ row'[g].state = "active"
                            => roll.gen = g]_vars

\* A collector that may still delete from the projections of a generation
\* never meets it in service or under construction: neither a rollback nor a
\* redelivered build takes it back from under the collector.
RetentionSparesServing ==
  \A c \in Collectors : col[c].at = "delete" /\ col[c].tried # Backends =>
    row[col[c].gen].state \in {"retired", "absent"}

\* A recorded divergence is cleared only by an observer that began to look at
\* the backends after it was recorded.
Clears(g) == /\ row[g].state = "active" /\ row[g].error
             /\ row'[g].state = "active" /\ ~row'[g].error
ClearedByReconciler(g) == \E r \in Reconcilers :
  rec[r].gen = g /\ rec'[r].gen # g /\ r \notin outdated
\* The reconcilers obey that, however their leases lapse.
ReconcilersClearOnFreshEvidence ==
  [][\A g \in Generations : Clears(g) => ClearedByReconciler(g) \/ build # build']_vars

\* Given up for an operator to see (repair_exhausted): the workers have come to
\* build by another definition, or there were more faults than there are replays.
GivenUp(g) == row[g].repairs = MaxRepairs /\ (deployed # g \/ faults > MaxRepairs)
Unrepairable(g) == GivenUp(g) \/ job = "cancelled"
InBudget(g) == row[g].repairs < MaxRepairs

\* The background loops catch up with everything that is left to them.  A
\* divergence on record and a failed build within the repair budget lead back to
\* a build that mends them: the budget is not spent on passes that change
\* nothing, nor by as many faults as it has replays.  An expired generation
\* disappears with its manifest.  A cancelled job cannot be sent again.
LoopsCatchUp ==
  \A g \in Generations :
    /\ row[g].state = "active" /\ row[g].error /\ InBudget(g)
         ~> Visible(g) \/ row[g].state # "active" \/ Unrepairable(g)
    /\ row[g].state = "failed" /\ InBudget(g)
         ~> row[g].state # "failed" \/ Unrepairable(g)
    /\ row[g].state = "retired" /\ row[g].expired ~> row[g].state = "absent"
=============================================================================
