------------------------ MODULE IndexManifestProofs ------------------------
(***************************************************************************)
(* Proofs about IndexManifest, for every set of generations, chunks,       *)
(* reconcilers and collectors and every bound on repairs and faults.       *)
(*                                                                         *)
(* Four parts, each resting on the ones before: type correctness, which    *)
(* generation serves, that what serves is whole, and that a divergence on  *)
(* record is cleared on fresh evidence only.                               *)
(***************************************************************************)
EXTENDS IndexManifest, FiniteSetTheorems, TLAPS

-----------------------------------------------------------------------------
(* Type correctness.                                                       *)

RowsTyped == row \in [Generations -> Row]
ProjTyped == proj \in [Backends -> [Generations -> SUBSET Chunks]]
BuildRecord == [at : {"idle", "begin", "write", "save", "observe", "activate",
                      "done", "cleanup"},
                gen : Generations \cup {None}, active : Generations \cup {None},
                state : {"absent", "building", "ready", "active", "retired"},
                ids : SUBSET Chunks, todo : SUBSET Chunks,
                half : Chunks \cup {None}, seen : SUBSET Backends]
RecRecord == [at : {"idle", "observe", "schedule"},
              gen : Generations \cup {None}, seen : SUBSET Backends, whole : BOOLEAN]
ColRecord == [at : {"idle", "delete"}, gen : Generations \cup {None},
              tried : SUBSET Backends, deleted : SUBSET Backends]
RollRecord == [at : {"idle", "observe"}, gen : Generations \cup {None},
               active : Generations \cup {None}, seen : SUBSET Backends]
JobTyped == job \in {"open", "completed", "failed", "cancelled"}
HistoryTyped == /\ lost \in SUBSET Generations /\ overruled \in SUBSET Generations
                /\ missed \in SUBSET Observers /\ outdated \in SUBSET Observers
FaultsTyped == faults \in 0..MaxFaults

\* TypeOK, part by part.
TypeParts ==
  /\ RowsTyped /\ ProjTyped /\ JobTyped /\ deployed \in Generations
  /\ ckpt \in SUBSET Chunks
  /\ build \in BuildRecord
  /\ rec \in [Reconcilers -> RecRecord]
  /\ col \in [Collectors -> ColRecord]
  /\ roll \in RollRecord
  /\ HistoryTyped /\ FaultsTyped

LEMMA TypeOKParts == TypeOK <=> TypeParts
  BY DEF TypeOK, TypeParts, RowsTyped, ProjTyped, JobTyped, HistoryTyped,
         FaultsTyped, BuildRecord, RecRecord, ColRecord, RollRecord

\* Who is busy is busy with a generation; a build that is under way has a row
\* that is not failed; a repair is scheduled within the budget.
Busy ==
  /\ build.at # "idle" => build.gen \in Generations
  /\ build.at \notin {"idle", "begin"} => row[build.gen].state # "failed"
  /\ \A r \in Reconcilers : rec[r].at # "idle" => rec[r].gen \in Generations
  /\ \A r \in Reconcilers :
       rec[r].at = "schedule" /\ row[rec[r].gen].reconcileToken = r
         => row[rec[r].gen].repairs < MaxRepairs
  /\ \A c \in Collectors : col[c].at # "idle" => col[c].gen \in Generations
  /\ roll.at # "idle" => roll.gen \in Generations

TypeInv == TypeParts /\ Busy

LEMMA NoRowTyped == NoRow \in Row
  BY BoundsAssumption DEF NoRow, Row

LEMMA CurrentTyped == Current \in Generations \cup {None}
  BY DEF Current, ActiveGenerations

LEMMA SuccessionTyped ==
  ASSUME RowsTyped, NEW g \in Generations, NEW p \in Row
  PROVE  Succession(g, p) \in [Generations -> Row]
<1>1. \A h \in Generations : Retire(row[h]) \in Row
  BY DEF RowsTyped, Row, Retire
<1> QED BY <1>1 DEF RowsTyped, Succession

LEMMA FaultTyped == ASSUME FaultsTyped, Fault PROVE FaultsTyped'
  BY BoundsAssumption DEF FaultsTyped, Fault

\* The builder moves, the rows stay.
LEMMA BuildOnlyTyped ==
  ASSUME TypeInv, BuildReadsActive \/ WriteElastic \/ SaveCheckpoint
                  \/ (\E c \in Chunks : WriteQdrant(c))
                  \/ (\E b \in Backends : BuildObserves(b))
                  \/ JobCompletes \/ DeleteCheckpoint
  PROVE  TypeInv'
<1> USE DEF TypeInv, TypeParts
<1>1. CASE BuildReadsActive
  <2>1. build' \in BuildRecord /\ build'.gen \in Generations /\ build'.at = "begin"
    BY <1>1, CurrentTyped DEF BuildReadsActive, NoBuild, BuildRecord
  <2> QED BY <1>1, <2>1 DEF BuildReadsActive, history, RowsTyped, ProjTyped, JobTyped,
                            HistoryTyped, FaultsTyped, Busy
<1>2. CASE WriteElastic
  <2>1. build.half \in Chunks /\ build.gen \in Generations
    BY <1>2 DEF WriteElastic, BuildRecord, Busy
  <2>2. build' \in BuildRecord /\ build'.gen = build.gen /\ build'.at \in {"save", "write"}
    BY <1>2, <2>1, NumbersAssumption DEF WriteElastic, BuildRecord
  <2>3. ProjTyped'
    BY <1>2, <2>1 DEF WriteElastic, ProjTyped
  <2> QED BY <1>2, <2>1, <2>2, <2>3 DEF WriteElastic, history, RowsTyped, JobTyped,
                                   HistoryTyped, FaultsTyped, Busy
<1>3. CASE SaveCheckpoint
  <2>1. build' \in BuildRecord /\ build'.gen = build.gen /\ build'.at = "write"
        /\ ckpt' \in SUBSET Chunks
    BY <1>3 DEF SaveCheckpoint, BuildRecord
  <2> QED BY <1>3, <2>1 DEF SaveCheckpoint, history, RowsTyped, ProjTyped, JobTyped,
                            HistoryTyped, FaultsTyped, Busy
<1>4. ASSUME NEW c \in Chunks, WriteQdrant(c) PROVE TypeInv'
  <2>1. build' \in BuildRecord /\ build'.gen = build.gen /\ build'.at = "write"
    BY <1>4 DEF WriteQdrant, BuildRecord
  <2>2. ProjTyped'
    BY <1>4 DEF WriteQdrant, ProjTyped
  <2> QED BY <1>4, <2>1, <2>2 DEF WriteQdrant, history, RowsTyped, JobTyped,
                                  HistoryTyped, FaultsTyped, Busy
<1>5. ASSUME NEW b \in Backends, BuildObserves(b) PROVE TypeInv'
  <2>1. build' \in BuildRecord /\ build'.gen = build.gen /\ build'.at = "observe"
    BY <1>5 DEF BuildObserves, BuildRecord
  <2> QED BY <1>5, <2>1 DEF BuildObserves, history, RowsTyped, ProjTyped, JobTyped,
                            HistoryTyped, FaultsTyped, Busy
<1>6. CASE JobCompletes
  <2>1. build' \in BuildRecord /\ (build'.at # "idle" => build'.gen = build.gen)
        /\ JobTyped'
    BY <1>6 DEF JobCompletes, BuildRecord, NoBuild, JobTyped
  <2> QED BY <1>6, <2>1 DEF JobCompletes, history, RowsTyped, ProjTyped,
                            HistoryTyped, FaultsTyped, Busy
<1>7. CASE DeleteCheckpoint
  <2>1. build' \in BuildRecord /\ build'.at = "idle"
    BY <1>7 DEF DeleteCheckpoint, BuildRecord, NoBuild
  <2> QED BY <1>7, <2>1 DEF DeleteCheckpoint, history, RowsTyped, ProjTyped, JobTyped,
                            HistoryTyped, FaultsTyped, Busy
<1> QED BY <1>1, <1>2, <1>3, <1>4, <1>5, <1>6, <1>7

\* Repairs that are scheduled stay within the budget when each row keeps token
\* and count, or loses its token.
ScheduledWithinBudget ==
  \A r \in Reconcilers :
    rec[r].at = "schedule" /\ row[rec[r].gen].reconcileToken = r
      => row[rec[r].gen].repairs < MaxRepairs

TokensKept ==
  \A g \in Generations :
    \/ /\ row'[g].reconcileToken = row[g].reconcileToken
       /\ row'[g].repairs = row[g].repairs
    \/ row'[g].reconcileToken = None

LEMMA BudgetKept ==
  ASSUME TypeInv, TokensKept, rec' = rec
  PROVE  ScheduledWithinBudget'
  BY ActorsAssumption DEF TypeInv, Busy, TokensKept, ScheduledWithinBudget

\* One row is replaced.
LEMMA RowEdit ==
  ASSUME RowsTyped, NEW g \in Generations, NEW x \in Row, row' = [row EXCEPT ![g] = x],
         \/ x.reconcileToken = None
         \/ x.reconcileToken = row[g].reconcileToken /\ x.repairs = row[g].repairs
  PROVE  RowsTyped' /\ TokensKept
  BY DEF RowsTyped, TokensKept

\* The edits the actions make to a row.
LEMMA StateEdit ==
  ASSUME NEW x \in Row, NEW s \in {"building", "ready", "failed", "active", "retired"}
  PROVE  LET y == [x EXCEPT !.state = s] IN
         /\ y \in Row /\ y.state = s
         /\ y.reconcileToken = x.reconcileToken /\ y.repairs = x.repairs
  BY DEF Row

LEMMA HealthyEdit ==
  ASSUME NEW x \in Row
  PROVE  LET y == [x EXCEPT !.error = FALSE, !.repairs = 0, !.reconcileToken = None] IN
         y \in Row /\ y.state = x.state /\ y.reconcileToken = None
<1>1. 0 \in 0..MaxRepairs
  BY BoundsAssumption
<1> QED BY <1>1 DEF Row

LEMMA RetriedEdit ==
  ASSUME NEW x \in Row
  PROVE  /\ Retried(x) \in Row /\ Retried(x).state = "building"
         /\ Retried(x).reconcileToken = x.reconcileToken
         /\ Retried(x).repairs = x.repairs
  BY DEF Row, Retried

LEMMA PromotedEdit ==
  ASSUME NEW x \in Row
  PROVE  LET y == [x EXCEPT !.state = "active", !.expired = FALSE] IN
         /\ y \in Row /\ y.state = "active"
         /\ y.reconcileToken = x.reconcileToken /\ y.repairs = x.repairs
  BY DEF Row

\* The rows a build changes.
LEMMA BuildRowsTyped ==
  ASSUME TypeInv, build.at # "idle",
         BuildBegins \/ SealExpected \/ MarkReady \/ ConfirmActive \/ Activate \/ BuildEnds
  PROVE  RowsTyped' /\ TokensKept
<1> DEFINE g == build.gen
<1>0. g \in Generations /\ RowsTyped /\ row[g] \in Row /\ build \in BuildRecord
  BY DEF TypeInv, TypeParts, Busy, RowsTyped
<1>1. CASE BuildBegins
  <2>1. CASE row[g].state = "absent"
    <3> DEFINE x == [NoRow EXCEPT !.state = "building", !.expectedActive = build.active]
    <3>1. x \in Row /\ x.reconcileToken = None
      BY <1>0, NoRowTyped DEF NoRow, Row, BuildRecord
    <3>2. row' = [row EXCEPT ![g] = x]
      BY <1>1, <2>1 DEF BuildBegins, BegunRow
    <3> HIDE DEF x, g
    <3> QED BY <1>0, <3>1, <3>2, RowEdit
  <2>2. CASE row[g].state = "failed"
    <3>1. /\ Retried(row[g]) \in Row
          /\ Retried(row[g]).reconcileToken = row[g].reconcileToken
          /\ Retried(row[g]).repairs = row[g].repairs
      BY <1>0, RetriedEdit
    <3>2. row' = [row EXCEPT ![g] = Retried(row[g])]
      BY <1>1, <2>2 DEF BuildBegins, BegunRow
    <3> HIDE DEF g
    <3> QED BY <1>0, <3>1, <3>2, RowEdit
  <2>3. CASE row[g].state \notin {"absent", "failed"}
    BY <1>0, <1>1, <2>3 DEF BuildBegins, BegunRow, RowsTyped, TokensKept
  <2> QED BY <2>1, <2>2, <2>3
<1>2. CASE SealExpected
  <2>1. /\ SealedRow(g) \in Row
        /\ SealedRow(g).reconcileToken = row[g].reconcileToken
        /\ SealedRow(g).repairs = row[g].repairs
    BY <1>0 DEF SealedRow, Row, BuildRecord
  <2>2. row' = [row EXCEPT ![g] = SealedRow(g)]
    BY <1>2 DEF SealExpected
  <2> HIDE DEF g
  <2> QED BY <1>0, <2>1, <2>2, RowEdit
<1>3. CASE MarkReady
  <2> DEFINE x == [row[g] EXCEPT !.state = "ready"]
  <2>1. /\ x \in Row /\ x.reconcileToken = row[g].reconcileToken
        /\ x.repairs = row[g].repairs /\ row' = [row EXCEPT ![g] = x]
    BY <1>0, <1>3, StateEdit DEF MarkReady
  <2> HIDE DEF x, g
  <2> QED BY <1>0, <2>1, RowEdit
<1>4. CASE ConfirmActive
  <2> DEFINE x == [row[g] EXCEPT !.error = FALSE, !.repairs = 0, !.reconcileToken = None]
  <2>1. x \in Row /\ x.reconcileToken = None
    BY <1>0, HealthyEdit
  <2>2. row' = [row EXCEPT ![g] = x]
    BY <1>0, <1>4 DEF ConfirmActive, RowsTyped, Row
  <2> HIDE DEF x, g
  <2> QED BY <1>0, <2>1, <2>2, RowEdit
<1>5. CASE Activate
  <2> DEFINE p == [row[g] EXCEPT !.state = "active", !.expired = FALSE]
  <2>1. /\ p \in Row /\ p.reconcileToken = row[g].reconcileToken
        /\ p.repairs = row[g].repairs /\ row' = Succession(g, p)
    BY <1>0, <1>5, PromotedEdit DEF Activate
  <2>2. \A h \in Generations : Retire(row[h]).reconcileToken = None
    BY <1>0 DEF Retire, RowsTyped, Row
  <2> HIDE DEF p, g
  <2>3. TokensKept
    BY <2>1, <2>2 DEF Succession, TokensKept
  <2> QED BY <1>0, <2>1, <2>3, SuccessionTyped DEF RowsTyped
<1>6. CASE BuildEnds
  <2>1. CASE build.state = "building" /\ row[g].state = "building"
    <3> DEFINE x == [row[g] EXCEPT !.state = "failed"]
    <3>1. /\ x \in Row /\ x.reconcileToken = row[g].reconcileToken
          /\ x.repairs = row[g].repairs /\ row' = [row EXCEPT ![g] = x]
      BY <1>0, <1>6, <2>1, StateEdit DEF BuildEnds
    <3> HIDE DEF x, g
    <3> QED BY <1>0, <3>1, RowEdit
  <2>2. CASE ~(build.state = "building" /\ row[g].state = "building")
    BY <1>0, <1>6, <2>2 DEF BuildEnds, RowsTyped, TokensKept
  <2> QED BY <2>1, <2>2
<1> QED BY <1>1, <1>2, <1>3, <1>4, <1>5, <1>6

LEMMA VerifiedTyped ==
  ASSUME HistoryTyped, NEW o, NEW g, Verified(o, g), missed' = missed,
         outdated' = outdated, overruled' = overruled
  PROVE  HistoryTyped'
  BY DEF HistoryTyped, Verified

LEMMA BuildRowStepTyped ==
  ASSUME TypeInv, BuildBegins \/ SealExpected \/ MarkReady \/ ConfirmActive \/ Activate
  PROVE  TypeInv'
<1> USE DEF TypeInv, TypeParts
<1>4. build.gen \in Generations /\ build.at # "idle"
  BY DEF BuildBegins, SealExpected, AllWritten, MarkReady, ConfirmActive, BuildHasSeen,
         Activate, Busy
<1>1. RowsTyped' /\ TokensKept
  BY <1>4, BuildRowsTyped
<1>2. rec' = rec /\ col' = col /\ roll' = roll /\ proj' = proj /\ job' = job
      /\ deployed' = deployed /\ ckpt' = ckpt /\ faults' = faults
  BY DEF BuildBegins, SealExpected, MarkReady, ConfirmActive, Activate
<1>3. ScheduledWithinBudget'
  BY <1>1, <1>2, BudgetKept
<1>5. HistoryTyped'
  <2>1. CASE BuildBegins
    BY <2>1 DEF BuildBegins, history, HistoryTyped
  <2>2. CASE SealExpected
    BY <2>2 DEF SealExpected, HistoryTyped
  <2>3. CASE MarkReady \/ ConfirmActive
    BY <2>3, VerifiedTyped DEF MarkReady, ConfirmActive
  <2>4. CASE Activate
    BY <2>4 DEF Activate, HistoryTyped
  <2> QED BY <2>1, <2>2, <2>3, <2>4
<1>6. build' \in BuildRecord /\ build'.gen = build.gen
  <2>1. CASE BuildBegins
    <3>1. BegunRow(build.gen).state \in {"absent", "building", "ready", "active", "retired"}
      BY <1>4 DEF BegunRow, NoRow, Retried, RowsTyped, Row
    <3>2. Seeded \in SUBSET Chunks
      BY DEF Seeded
    <3> QED BY <2>1, <3>1, <3>2 DEF BuildBegins, BuildRecord
  <2>2. CASE SealExpected
    <3>1. row[build.gen].state \in {"absent", "building", "ready", "active", "retired"}
      BY <1>4, <2>2 DEF SealExpected, AllWritten, Busy, RowsTyped, Row
    <3> QED BY <2>2, <3>1 DEF SealExpected, BuildRecord
  <2>3. CASE MarkReady \/ ConfirmActive \/ Activate
    BY <2>3 DEF MarkReady, ConfirmActive, Activate, BuildRecord
  <2> QED BY <2>1, <2>2, <2>3
<1>7. row'[build.gen].state # "failed"
  <2>1. CASE BuildBegins
    BY <1>4, <2>1 DEF BuildBegins, BegunRow, NoRow, Retried, RowsTyped, Row
  <2>2. CASE SealExpected
    BY <1>4, <2>2 DEF SealExpected, AllWritten, SealedRow, Busy, RowsTyped, Row
  <2>3. CASE MarkReady \/ ConfirmActive
    BY <1>4, <2>3 DEF MarkReady, ConfirmActive, RowsTyped, Row
  <2>4. CASE Activate
    BY <1>4, <2>4 DEF Activate, Succession, RowsTyped, Row
  <2> QED BY <2>1, <2>2, <2>3, <2>4
<1> QED BY <1>1, <1>2, <1>3, <1>5, <1>6, <1>7, <1>4
        DEF ProjTyped, JobTyped, FaultsTyped, Busy, ScheduledWithinBudget

\* A build that ends early leaves the builder idle.
LEMMA BuildEndTyped ==
  ASSUME TypeInv, BuildRefused \/ BuildErrs \/ BuildCancelled \/ BuilderCrashes
  PROVE  TypeInv'
<1> USE DEF TypeInv, TypeParts
<1>1. build' \in BuildRecord /\ build'.at = "idle"
  BY DEF BuildRefused, BuildErrs, BuildCancelled, BuilderCrashes, BuildEnds,
         NoBuild, BuildRecord
<1>2. FaultsTyped'
  BY FaultTyped DEF BuildRefused, BuildErrs, BuildCancelled, BuilderCrashes, FaultsTyped
<1>3. rec' = rec /\ col' = col /\ roll' = roll /\ proj' = proj /\ deployed' = deployed
      /\ ckpt' = ckpt /\ UNCHANGED history
  BY DEF BuildRefused, BuildErrs, BuildCancelled, BuilderCrashes, BuildEnds
<1>4. RowsTyped' /\ TokensKept /\ JobTyped'
  <2>1. CASE BuilderCrashes
    BY <2>1 DEF BuilderCrashes, RowsTyped, TokensKept, JobTyped
  <2>2. CASE BuildRefused \/ BuildErrs \/ BuildCancelled
    <3>1. BuildEnds /\ build.at # "idle"
      BY <2>2 DEF BuildRefused, Refused, AllWritten, BuildHasSeen, BuildErrs, BuildCancelled
    <3>2. JobTyped'
      BY <3>1 DEF BuildEnds, JobTyped
    <3> QED BY <3>1, <3>2, BuildRowsTyped
  <2> QED BY <2>1, <2>2
<1>5. ScheduledWithinBudget'
  BY <1>3, <1>4, BudgetKept
<1> QED BY <1>1, <1>2, <1>3, <1>4, <1>5
        DEF history, ProjTyped, HistoryTyped, Busy, ScheduledWithinBudget

-----------------------------------------------------------------------------

\* The rows a reconciler changes: state kept; the token of others' claims is
\* kept with its count, or replaced.
LEMMA ClaimEdit ==
  ASSUME NEW x \in Row, NEW r \in Reconcilers
  PROVE  LET y == [x EXCEPT !.reconcileToken = r] IN
         /\ y \in Row /\ y.state = x.state /\ y.reconcileToken = r
         /\ y.repairs = x.repairs
  BY DEF Row

LEMMA DivergedEdit ==
  ASSUME RowsTyped, NEW g \in Generations, NEW pending \in BOOLEAN
  PROVE  /\ DivergedRow(g, pending) \in Row /\ DivergedRow(g, pending).state = row[g].state
         /\ DivergedRow(g, pending).reconcileToken = None
<1>1. row[g] \in Row
  BY DEF RowsTyped
<1>2. CASE ReplaysJob(g, pending)
  <2>1. row[g].repairs + 1 \in 0..MaxRepairs
    BY <1>1, <1>2, BoundsAssumption DEF ReplaysJob, Row
  <2> QED BY <1>1, <1>2, <2>1 DEF DivergedRow, Row
<1>3. CASE ~ReplaysJob(g, pending)
  BY <1>1, <1>3 DEF DivergedRow, Row
<1> QED BY <1>2, <1>3

LEMMA ChargedEdit ==
  ASSUME NEW x \in Row, x.repairs < MaxRepairs
  PROVE  LET y == [x EXCEPT !.reconcileToken = None, !.repairs = Charged(@)] IN
         y \in Row /\ y.state = x.state /\ y.reconcileToken = None
<1>1. Charged(x.repairs) \in 0..MaxRepairs
  BY BoundsAssumption DEF Charged, Row
<1> QED BY <1>1 DEF Row

\* A claim replaces the token of one row and the slot of the claimant.
LEMMA ClaimTyped ==
  ASSUME TypeInv, NEW r \in Reconcilers, NEW g \in Generations, NEW at \in {"observe", "schedule"},
         row' = [row EXCEPT ![g].reconcileToken = r],
         rec' = [rec EXCEPT ![r] = [Resting EXCEPT !.at = at, !.gen = g]],
         at = "schedule" => row[g].repairs < MaxRepairs,
         UNCHANGED <<proj, job, deployed, ckpt, build, col, roll, faults>>, HistoryTyped'
  PROVE  TypeInv'
<1> USE DEF TypeInv, TypeParts
<1> DEFINE x == [row[g] EXCEPT !.reconcileToken = r]
           y == [Resting EXCEPT !.at = at, !.gen = g]
<1>1. x \in Row /\ x.state = row[g].state /\ x.reconcileToken = r
      /\ x.repairs = row[g].repairs
  BY ClaimEdit DEF RowsTyped
<1>2. y \in RecRecord /\ y.at = at /\ y.gen = g
  BY DEF Resting, RecRecord
<1>3. row' = [row EXCEPT ![g] = x] /\ rec' = [rec EXCEPT ![r] = y]
  OBVIOUS
<1> HIDE DEF x, y
<1>4. RowsTyped' /\ rec' \in [Reconcilers -> RecRecord]
  BY <1>1, <1>2, <1>3 DEF RowsTyped
<1>5. \A h \in Generations : row'[h].state = row[h].state
  BY <1>1, <1>3 DEF RowsTyped
<1>6. \A q \in Reconcilers : rec'[q].at # "idle" => rec'[q].gen \in Generations
  BY <1>2, <1>3 DEF Busy
<1>7. ASSUME NEW q \in Reconcilers, rec'[q].at = "schedule",
             row'[rec'[q].gen].reconcileToken = q
      PROVE  row'[rec'[q].gen].repairs < MaxRepairs
  <2>1. CASE q = r
    BY <1>1, <1>2, <1>3, <1>7, <2>1 DEF RowsTyped
  <2>2. CASE q # r
    <3>1. rec'[q] = rec[q] /\ rec[q].gen \in Generations
      BY <1>3, <1>7, <2>2 DEF Busy
    <3>2. rec[q].gen # g
      BY <1>1, <1>3, <1>7, <2>2, <3>1 DEF RowsTyped
    <3> QED BY <1>3, <1>7, <3>1, <3>2 DEF Busy, RowsTyped
  <2> QED BY <2>1, <2>2
<1> QED BY <1>4, <1>5, <1>6, <1>7 DEF ProjTyped, JobTyped, FaultsTyped, Busy

\* A pass ends: one row is settled, or none, and the reconciler rests.
LEMMA SettleTyped ==
  ASSUME TypeInv, NEW r \in Reconcilers, NEW g \in Generations, NEW x \in Row,
         row' = [row EXCEPT ![g] = x] \/ row' = row,
         x.state = row[g].state, x.reconcileToken = None,
         Rests(r), JobTyped', HistoryTyped', FaultsTyped',
         UNCHANGED <<proj, deployed, ckpt, build, col, roll>>
  PROVE  TypeInv'
<1> USE DEF TypeInv, TypeParts
<1>1. RowsTyped' /\ TokensKept /\ \A h \in Generations : row'[h].state = row[h].state
  BY DEF RowsTyped, TokensKept
<1>2. Resting \in RecRecord /\ Resting.at = "idle"
  BY DEF Resting, RecRecord
<1>3. rec' \in [Reconcilers -> RecRecord]
  BY <1>2 DEF Rests
<1>4. \A q \in Reconcilers : rec'[q].at # "idle" => rec'[q] = rec[q]
  BY <1>2 DEF Rests
<1>5. ScheduledWithinBudget'
  BY <1>1, <1>4, ActorsAssumption DEF ScheduledWithinBudget, Busy, TokensKept
<1> QED BY <1>1, <1>3, <1>4, <1>5 DEF ProjTyped, Busy, ScheduledWithinBudget

LEMMA ReconcilerTyped ==
  ASSUME TypeInv, NEW r \in Reconcilers,
         ActivePass(r) \/ FailedPass(r) \/ ReconcilerSteps(r) \/ ReconcilerCrashes(r)
  PROVE  TypeInv'
<1> USE DEF TypeInv, TypeParts
<1>1. ASSUME NEW g \in Generations, ClaimReconciliation(r, g) PROVE TypeInv'
  <2>1. HistoryTyped'
    BY <1>1 DEF ClaimReconciliation, Starts, HistoryTyped
  <2> QED BY <1>1, <2>1, ClaimTyped DEF ClaimReconciliation
<1>2. ASSUME NEW g \in Generations, ClaimFailedRepairs(r, g) PROVE TypeInv'
  <2>1. HistoryTyped'
    BY <1>2 DEF ClaimFailedRepairs, history, HistoryTyped
  <2> QED BY <1>2, <2>1, ClaimTyped DEF ClaimFailedRepairs
<1>3. ASSUME NEW b \in Backends, ReconcilerObserves(r, b) PROVE TypeInv'
  <2>1. PICK answers \in BOOLEAN :
          /\ IF answers THEN UNCHANGED faults ELSE Fault
          /\ rec' = [rec EXCEPT ![r].seen = @ \cup {b},
                                ![r].whole = @ /\ answers /\ Matches(b, rec[r].gen)]
    BY <1>3 DEF ReconcilerObserves
  <2>2. FaultsTyped'
    BY <2>1, FaultTyped DEF FaultsTyped
  <2> DEFINE w == rec[r].whole /\ answers /\ Matches(b, rec[r].gen)
  <2>6. w \in BOOLEAN
    OBVIOUS
  <2>7. rec' = [rec EXCEPT ![r].seen = @ \cup {b}, ![r].whole = w]
    BY <2>1 DEF RecRecord
  <2> HIDE DEF w
  <2>3. rec' \in [Reconcilers -> RecRecord]
    BY <2>6, <2>7 DEF RecRecord
  <2>4. \A q \in Reconcilers : rec'[q].at = rec[q].at /\ rec'[q].gen = rec[q].gen
    BY <2>1 DEF RecRecord
  <2>5. UNCHANGED <<row, proj, job, deployed, ckpt, build, col, roll, history>>
    BY <1>3 DEF ReconcilerObserves
  <2> QED BY <2>2, <2>3, <2>4, <2>5
          DEF history, RowsTyped, ProjTyped, JobTyped, HistoryTyped, Busy
<1> DEFINE g == rec[r].gen
<1>4. rec[r].at # "idle" => g \in Generations /\ row[g] \in Row
  BY DEF Busy, RowsTyped
<1>5. CASE FinishHealthy(r)
  <2> DEFINE x == [row[g] EXCEPT !.error = FALSE, !.repairs = 0, !.reconcileToken = None]
  <2>1. g \in Generations /\ row[g] \in Row
    BY <1>4, <1>5 DEF FinishHealthy, ReconcilerHasSeen
  <2>2. x \in Row /\ x.state = row[g].state /\ x.reconcileToken = None
    BY <2>1, HealthyEdit
  <2>3. row' = [row EXCEPT ![g] = x]
    BY <1>5, <2>1 DEF FinishHealthy, RowsTyped, Row
  <2>4. Rests(r) /\ HistoryTyped' /\ JobTyped' /\ FaultsTyped'
        /\ UNCHANGED <<proj, deployed, ckpt, build, col, roll>>
    BY <1>5, VerifiedTyped DEF FinishHealthy, JobTyped, FaultsTyped
  <2> HIDE DEF x, g
  <2> QED BY <2>1, <2>2, <2>3, <2>4, SettleTyped
<1>6. ASSUME NEW pending \in BOOLEAN, RecordDivergence(r, pending)
      PROVE  TypeInv'
  <2>1. g \in Generations
    BY <1>4, <1>6 DEF RecordDivergence, ReconcilerHasSeen
  <2>2. row' = [row EXCEPT ![g] = DivergedRow(g, pending)] /\ Rests(r)
        /\ UNCHANGED <<proj, deployed, ckpt, build, col, roll>>
    BY <1>6 DEF RecordDivergence
  <2>3. HistoryTyped' /\ JobTyped' /\ FaultsTyped'
    BY <1>6 DEF RecordDivergence, HistoryTyped, JobTyped, FaultsTyped, LookedAt, Observers
  <2> HIDE DEF g
  <2> QED BY <2>1, <2>2, <2>3, DivergedEdit, SettleTyped
<1>7. CASE ScheduleFailedRepair(r)
  <2> DEFINE x == [row[g] EXCEPT !.reconcileToken = None, !.repairs = Charged(@)]
  <2>1. g \in Generations /\ row[g] \in Row /\ row[g].repairs < MaxRepairs
    BY <1>4, <1>7 DEF ScheduleFailedRepair, OwnsFailed, HoldsReconciliation, Busy
  <2>2. x \in Row /\ x.state = row[g].state /\ x.reconcileToken = None
    BY <2>1, ChargedEdit
  <2>3. row' = [row EXCEPT ![g] = x]
    BY <1>7, <2>1 DEF ScheduleFailedRepair, RowsTyped, Row
  <2>4. Rests(r) /\ HistoryTyped' /\ JobTyped' /\ FaultsTyped'
        /\ UNCHANGED <<proj, deployed, ckpt, build, col, roll>>
    BY <1>7 DEF ScheduleFailedRepair, history, HistoryTyped, JobTyped, FaultsTyped
  <2> HIDE DEF x, g
  <2> QED BY <2>1, <2>2, <2>3, <2>4, SettleTyped
<1>8. CASE ReconcilerConflicts(r) \/ ReconcilerCrashes(r)
  <2>1. row' = row /\ Rests(r) /\ HistoryTyped' /\ JobTyped'
        /\ UNCHANGED <<proj, deployed, ckpt, build, col, roll>>
    BY <1>8 DEF ReconcilerConflicts, ReconcilerCrashes, history, HistoryTyped, JobTyped
  <2>4. FaultsTyped'
    <3>1. Fault \/ UNCHANGED faults
      BY <1>8 DEF ReconcilerConflicts, ReconcilerCrashes
    <3>2. CASE UNCHANGED faults
      BY <3>2 DEF FaultsTyped
    <3> QED BY <3>1, <3>2, FaultTyped
  <2>2. g \in Generations /\ row[g] \in Row
    BY <1>4, <1>8 DEF ReconcilerConflicts, ReconcilerCrashes, ReconcilerHasSeen
  <2>3. DivergedRow(g, FALSE) \in Row /\ DivergedRow(g, FALSE).state = row[g].state
        /\ DivergedRow(g, FALSE).reconcileToken = None
    BY <2>2, DivergedEdit
  <2> HIDE DEF g
  <2> QED BY <2>1, <2>2, <2>3, <2>4, SettleTyped
<1> QED BY <1>1, <1>2, <1>3, <1>5, <1>6, <1>7, <1>8
        DEF ActivePass, FailedPass, ReconcilerSteps, FinishDiverged

-----------------------------------------------------------------------------

\* One row's retention fields change, the builder's row is not failed by it.
LEMMA RetentionEdit ==
  ASSUME NEW x \in Row, NEW t \in Collectors \cup {Operator, None}
  PROVE  LET y == [x EXCEPT !.retentionToken = t] IN
         /\ y \in Row /\ y.state = x.state
         /\ y.reconcileToken = x.reconcileToken /\ y.repairs = x.repairs
  BY DEF Row

LEMMA RestoredEdit ==
  ASSUME NEW x \in Row
  PROVE  LET y == [x EXCEPT !.state = "active", !.expired = FALSE, !.error = FALSE,
                     !.repairs = 0, !.reconcileToken = None, !.retentionToken = None] IN
         y \in Row /\ y.state = "active" /\ y.reconcileToken = None
<1>1. 0 \in 0..MaxRepairs
  BY BoundsAssumption
<1> QED BY <1>1 DEF Row

LEMMA RetainedEdit ==
  ASSUME TypeInv, NEW c \in Collectors, NEW g \in Generations
  PROVE  /\ RetainedRow(c, g) \in Row
         /\ RetainedRow(c, g).state \in {row[g].state, "absent"}
         /\ \/ RetainedRow(c, g).reconcileToken = None
            \/ /\ RetainedRow(c, g).reconcileToken = row[g].reconcileToken
               /\ RetainedRow(c, g).repairs = row[g].repairs
<1>1. row[g] \in Row /\ col[c].deleted \in SUBSET Backends
  BY DEF TypeInv, TypeParts, RowsTyped, ColRecord
<1>2. CASE col[c].deleted = Backends
  BY <1>2, NoRowTyped DEF RetainedRow, NoRow
<1>3. CASE col[c].deleted # Backends
  BY <1>1, <1>3 DEF RetainedRow, Row
<1> QED BY <1>2, <1>3

\* What Busy needs of the rows when neither builder nor reconciler moves.
LEMMA BusyKept ==
  ASSUME TypeInv, RowsTyped', TokensKept, build' = build, rec' = rec,
         \A g \in Generations : row'[g].state = "failed" => row[g].state = "failed",
         \A c \in Collectors : col'[c].at # "idle" => col'[c].gen \in Generations,
         roll'.at # "idle" => roll'.gen \in Generations
  PROVE  Busy'
<1>1. ScheduledWithinBudget'
  BY BudgetKept
<1> QED BY <1>1 DEF TypeInv, Busy, ScheduledWithinBudget

LEMMA RollbackTyped ==
  ASSUME TypeInv, RollbackSteps \/ \E g \in Generations : RollbackTarget(g)
  PROVE  TypeInv'
<1> USE DEF TypeInv, TypeParts
<1>1. ASSUME NEW g \in Generations, RollbackTarget(g) PROVE TypeInv'
  <2> DEFINE x == [row[g] EXCEPT !.retentionToken = Operator]
  <2>1. /\ x \in Row /\ x.state = row[g].state
        /\ x.reconcileToken = row[g].reconcileToken /\ x.repairs = row[g].repairs
    BY RetentionEdit DEF RowsTyped
  <2>2. row' = [row EXCEPT ![g] = x]
    BY <1>1 DEF RollbackTarget
  <2> HIDE DEF x
  <2>3. RowsTyped' /\ TokensKept /\ \A h \in Generations : row'[h].state = row[h].state
    BY <2>1, <2>2, RowEdit DEF RowsTyped
  <2>4. roll' \in RollRecord /\ roll'.gen = g
    BY <1>1, CurrentTyped DEF RollbackTarget, RollRecord
  <2>5. HistoryTyped'
    BY <1>1 DEF RollbackTarget, Starts, HistoryTyped
  <2>6. UNCHANGED <<proj, job, deployed, ckpt, build, rec, col>>
    BY <1>1 DEF RollbackTarget
  <2>7. Busy'
    BY <2>3, <2>4, <2>6, BusyKept DEF Busy
  <2>8. FaultsTyped'
    BY <1>1, FaultTyped DEF RollbackTarget
  <2> QED BY <2>3, <2>4, <2>5, <2>6, <2>7, <2>8 DEF ProjTyped, JobTyped
<1>2. ASSUME NEW b \in Backends, RollbackObserves(b) PROVE TypeInv'
  <2>1. roll' \in RollRecord /\ roll'.gen = roll.gen /\ roll'.at = roll.at
    BY <1>2 DEF RollbackObserves, RollRecord
  <2> QED BY <1>2, <2>1 DEF RollbackObserves, history, RowsTyped, ProjTyped, JobTyped,
                            HistoryTyped, FaultsTyped, Busy
<1>3. CASE Rollback
  <2> DEFINE g == roll.gen
             x == [row[g] EXCEPT !.state = "active", !.expired = FALSE, !.error = FALSE,
                     !.repairs = 0, !.reconcileToken = None, !.retentionToken = None]
  <2>1. g \in Generations /\ row[g] \in Row
    BY <1>3 DEF Rollback, Busy, RowsTyped
  <2>2. x \in Row /\ x.state = "active" /\ x.reconcileToken = None
    BY <2>1, RestoredEdit
  <2>3. row' = Succession(g, x)
    BY <1>3 DEF Rollback
  <2>4. HistoryTyped'
    <3>1. overruled' \in SUBSET Generations /\ missed' = missed /\ outdated' = outdated
      BY <1>3 DEF Rollback, g
    <3>2. lost' \in SUBSET Generations
      BY <1>3 DEF Rollback, Verified, HistoryTyped
    <3> QED BY <3>1, <3>2 DEF HistoryTyped
  <2>5. roll' = NoRequest /\ UNCHANGED <<proj, job, deployed, ckpt, build, rec, col, faults>>
    BY <1>3 DEF Rollback
  <2> HIDE DEF x, g
  <2>6. RowsTyped'
    BY <2>1, <2>2, <2>3, SuccessionTyped DEF RowsTyped
  <2>7. \A h \in Generations : Retire(row[h]).reconcileToken = None
                               /\ Retire(row[h]).state = "retired"
    BY DEF Retire, RowsTyped, Row
  <2>8. TokensKept /\ \A h \in Generations : row'[h].state = "failed" => row[h].state = "failed"
    BY <2>2, <2>3, <2>7 DEF Succession, TokensKept
  <2>9. roll' \in RollRecord /\ roll'.at = "idle"
    BY <2>5 DEF NoRequest, RollRecord
  <2>10. Busy'
    BY <2>5, <2>6, <2>8, <2>9, BusyKept DEF Busy
  <2> QED BY <2>4, <2>5, <2>6, <2>9, <2>10 DEF ProjTyped, JobTyped, FaultsTyped
<1>4. CASE RollbackFails
  <2>1. FaultsTyped'
    <3>1. Fault \/ UNCHANGED faults
      BY <1>4 DEF RollbackFails
    <3>2. CASE UNCHANGED faults
      BY <3>2 DEF FaultsTyped
    <3> QED BY <3>1, <3>2, FaultTyped
  <2>2. roll' \in RollRecord /\ roll'.at = "idle"
    BY <1>4 DEF RollbackFails, NoRequest, RollRecord
  <2>3. UNCHANGED <<row, proj, job, deployed, ckpt, build, rec, col, history>>
    BY <1>4 DEF RollbackFails
  <2> QED BY <2>1, <2>2, <2>3 DEF history, RowsTyped, ProjTyped, JobTyped, HistoryTyped, Busy
<1> QED BY <1>1, <1>2, <1>3, <1>4 DEF RollbackSteps

LEMMA CollectorTyped ==
  ASSUME TypeInv, NEW c \in Collectors, CollectorSteps(c) \/ CollectorCrashes(c)
  PROVE  TypeInv'
<1> USE DEF TypeInv, TypeParts
<1>1. ASSUME NEW g \in Generations, ClaimRetention(c, g) PROVE TypeInv'
  <2> DEFINE x == [row[g] EXCEPT !.retentionToken = c]
             y == [at |-> "delete", gen |-> g,
                   tried |-> row[g].deleted, deleted |-> row[g].deleted]
  <2>1. /\ x \in Row /\ x.state = row[g].state
        /\ x.reconcileToken = row[g].reconcileToken /\ x.repairs = row[g].repairs
    BY RetentionEdit DEF RowsTyped
  <2>2. y \in ColRecord /\ y.gen = g
    BY DEF ColRecord, RowsTyped, Row
  <2>3. row' = [row EXCEPT ![g] = x] /\ col' = [col EXCEPT ![c] = y]
    BY <1>1 DEF ClaimRetention
  <2> HIDE DEF x, y
  <2>4. RowsTyped' /\ TokensKept /\ \A h \in Generations : row'[h].state = row[h].state
    BY <2>1, <2>3, RowEdit DEF RowsTyped
  <2>5. col' \in [Collectors -> ColRecord]
        /\ \A d \in Collectors : col'[d].at # "idle" => col'[d].gen \in Generations
    BY <2>2, <2>3 DEF Busy
  <2>6. UNCHANGED <<proj, job, deployed, ckpt, build, rec, roll, history, faults>>
    BY <1>1 DEF ClaimRetention
  <2>7. Busy'
    BY <2>4, <2>5, <2>6, BusyKept DEF Busy
  <2> QED BY <2>4, <2>5, <2>6, <2>7
          DEF history, ProjTyped, JobTyped, HistoryTyped, FaultsTyped
<1>2. ASSUME NEW b \in Backends, DeleteGeneration(c, b) PROVE TypeInv'
  <2>1. FaultsTyped'
    <3>1. Fault \/ UNCHANGED faults
      BY <1>2 DEF DeleteGeneration
    <3>2. CASE UNCHANGED faults
      BY <3>2 DEF FaultsTyped
    <3> QED BY <3>1, <3>2, FaultTyped
  <2>2. ProjTyped'
    BY <1>2 DEF DeleteGeneration, ProjTyped
  <2>3. col' \in [Collectors -> ColRecord]
        /\ \A d \in Collectors : col'[d].at = col[d].at /\ col'[d].gen = col[d].gen
    BY <1>2 DEF DeleteGeneration, ColRecord
  <2>4. UNCHANGED <<row, job, deployed, ckpt, build, rec, roll, history>>
    BY <1>2 DEF DeleteGeneration
  <2> QED BY <2>1, <2>2, <2>3, <2>4 DEF history, RowsTyped, JobTyped, HistoryTyped, Busy
<1>3. Collecting \in ColRecord /\ Collecting.at = "idle"
  BY DEF Collecting, ColRecord
<1>4. ASSUME col' = [col EXCEPT ![c] = Collecting]
      PROVE  /\ col' \in [Collectors -> ColRecord]
             /\ \A d \in Collectors : col'[d].at # "idle" => col'[d].gen \in Generations
  BY <1>3, <1>4 DEF Busy
<1>5. CASE FinishRetention(c)
  <2> DEFINE g == col[c].gen
             x == IF HoldsRetention(c, g) THEN RetainedRow(c, g) ELSE row[g]
  <2>1. g \in Generations /\ row[g] \in Row
    BY <1>5 DEF FinishRetention, Busy, RowsTyped
  <2>2. /\ x \in Row /\ x.state \in {row[g].state, "absent"}
        /\ \/ x.reconcileToken = None
           \/ x.reconcileToken = row[g].reconcileToken /\ x.repairs = row[g].repairs
    BY <2>1, RetainedEdit
  <2>3. row' = [row EXCEPT ![g] = x]
    BY <1>5, <2>1 DEF FinishRetention, RowsTyped
  <2>4. HistoryTyped'
    BY <1>5 DEF FinishRetention, HistoryTyped
  <2>5. col' = [col EXCEPT ![c] = Collecting]
        /\ UNCHANGED <<proj, job, deployed, ckpt, build, rec, roll, faults>>
    BY <1>5 DEF FinishRetention
  <2> HIDE DEF x, g
  <2>6. RowsTyped' /\ TokensKept
        /\ \A h \in Generations : row'[h].state = "failed" => row[h].state = "failed"
    BY <2>1, <2>2, <2>3, RowEdit DEF RowsTyped
  <2>7. Busy'
    BY <1>4, <2>5, <2>6, BusyKept DEF Busy
  <2> QED BY <1>4, <2>4, <2>5, <2>6, <2>7 DEF ProjTyped, JobTyped, FaultsTyped
<1>6. CASE CollectorCrashes(c)
  <2>1. FaultsTyped'
    BY <1>6, FaultTyped DEF CollectorCrashes
  <2>2. col' = [col EXCEPT ![c] = Collecting]
        /\ UNCHANGED <<row, proj, job, deployed, ckpt, build, rec, roll, history>>
    BY <1>6 DEF CollectorCrashes
  <2> QED BY <1>4, <2>1, <2>2 DEF history, RowsTyped, ProjTyped, JobTyped, HistoryTyped, Busy
<1> QED BY <1>1, <1>2, <1>5, <1>6 DEF CollectorSteps

LEMMA SurroundingsTyped ==
  ASSUME TypeInv,
         \/ CancelJob
         \/ \E g \in Generations : Deploy(g) \/ WindowPasses(g)
         \/ \E b \in Backends, g \in Generations, c \in Chunks : LosesChunk(b, g, c)
  PROVE  TypeInv'
<1> USE DEF TypeInv, TypeParts
<1>1. CASE CancelJob
  BY <1>1 DEF CancelJob, history, RowsTyped, ProjTyped, JobTyped, HistoryTyped,
              FaultsTyped, Busy
<1>2. ASSUME NEW g \in Generations, Deploy(g) PROVE TypeInv'
  <2>1. FaultsTyped'
    <3>1. Fault \/ UNCHANGED faults
      BY <1>2 DEF Deploy
    <3>2. CASE UNCHANGED faults
      BY <3>2 DEF FaultsTyped
    <3> QED BY <3>1, <3>2, FaultTyped
  <2> QED BY <1>2, <2>1 DEF Deploy, history, RowsTyped, ProjTyped, JobTyped,
                            HistoryTyped, Busy
<1>3. ASSUME NEW g \in Generations, WindowPasses(g) PROVE TypeInv'
  <2> DEFINE x == [row[g] EXCEPT !.expired = TRUE]
  <2>1. /\ x \in Row /\ x.state = row[g].state
        /\ x.reconcileToken = row[g].reconcileToken /\ x.repairs = row[g].repairs
    BY DEF RowsTyped, Row
  <2>2. row' = [row EXCEPT ![g] = x]
        /\ UNCHANGED <<proj, job, deployed, ckpt, build, rec, col, roll, history, faults>>
    BY <1>3 DEF WindowPasses
  <2> HIDE DEF x
  <2>3. RowsTyped' /\ TokensKept /\ \A h \in Generations : row'[h].state = row[h].state
    BY <2>1, <2>2, RowEdit DEF RowsTyped
  <2>4. Busy'
    BY <2>2, <2>3, BusyKept DEF Busy
  <2> QED BY <2>2, <2>3, <2>4 DEF history, ProjTyped, JobTyped, HistoryTyped, FaultsTyped
<1>4. ASSUME NEW b \in Backends, NEW g \in Generations, NEW c \in Chunks, LosesChunk(b, g, c)
      PROVE  TypeInv'
  <2>1. FaultsTyped'
    BY <1>4, FaultTyped DEF LosesChunk
  <2>2. ProjTyped'
    BY <1>4 DEF LosesChunk, ProjTyped
  <2>3. HistoryTyped'
    BY <1>4 DEF LosesChunk, HistoryTyped, Observers
  <2> QED BY <1>4, <2>1, <2>2, <2>3 DEF LosesChunk, RowsTyped, JobTyped, Busy
<1> QED BY <1>1, <1>2, <1>3, <1>4

\* Next, taken apart by who moves.
LEMMA NextCases ==
  ASSUME Next
  PROVE  \/ BuildReadsActive \/ WriteElastic \/ SaveCheckpoint
            \/ (\E c \in Chunks : WriteQdrant(c)) \/ (\E b \in Backends : BuildObserves(b))
            \/ JobCompletes \/ DeleteCheckpoint
         \/ BuildBegins \/ SealExpected \/ MarkReady \/ ConfirmActive \/ Activate
         \/ BuildRefused \/ BuildErrs \/ BuildCancelled \/ BuilderCrashes
         \/ \E r \in Reconcilers : ActivePass(r) \/ FailedPass(r) \/ ReconcilerSteps(r)
                                   \/ ReconcilerCrashes(r)
         \/ RollbackSteps \/ \E g \in Generations : RollbackTarget(g)
         \/ \E c \in Collectors : CollectorSteps(c) \/ CollectorCrashes(c)
         \/ \/ CancelJob
            \/ \E g \in Generations : Deploy(g) \/ WindowPasses(g)
            \/ \E b \in Backends, g \in Generations, c \in Chunks : LosesChunk(b, g, c)
  BY DEF Next, BuildSteps

LEMMA TypeInvInductive ==
  ASSUME TypeInv, [Next]_vars
  PROVE  TypeInv'
<1>1. CASE Next
  BY <1>1, NextCases, BuildOnlyTyped, BuildRowStepTyped, BuildEndTyped, ReconcilerTyped,
     RollbackTyped, CollectorTyped, SurroundingsTyped
<1>2. CASE UNCHANGED vars
  BY <1>2 DEF vars, TypeInv, TypeParts, RowsTyped, ProjTyped, JobTyped, HistoryTyped,
     FaultsTyped, Busy
<1> QED BY <1>1, <1>2

LEMMA TypeInvInitial == Init => TypeInv
<1> SUFFICES ASSUME Init PROVE TypeInv
  OBVIOUS
<1>1. NoBuild \in BuildRecord /\ NoBuild.at = "idle"
  BY DEF NoBuild, BuildRecord
<1>2. Resting \in RecRecord /\ Resting.at = "idle"
  BY DEF Resting, RecRecord
<1>3. Collecting \in ColRecord /\ Collecting.at = "idle"
  BY DEF Collecting, ColRecord
<1>4. NoRequest \in RollRecord /\ NoRequest.at = "idle"
  BY DEF NoRequest, RollRecord
<1>5. TypeParts
  BY <1>1, <1>2, <1>3, <1>4, NoRowTyped, BoundsAssumption
     DEF Init, TypeParts, RowsTyped, ProjTyped, JobTyped, HistoryTyped, FaultsTyped
<1>6. Busy
  BY <1>1, <1>2, <1>3, <1>4 DEF Init, Busy
<1> QED BY <1>5, <1>6 DEF TypeInv

LEMMA TypeInvHolds == Spec => []TypeInv
  BY TypeInvInitial, TypeInvInductive, PTL DEF Spec

\* Every variable keeps its type: among others no generation is repaired more
\* often than cfg.IndexReconcileMaxRepairs allows, however the claims of
\* several reconcilers overlap.
THEOREM TypeCorrect == Spec => []TypeOK
<1>1. TypeInv => TypeOK
  BY TypeOKParts DEF TypeInv
<1> QED BY <1>1, TypeInvHolds, PTL

-----------------------------------------------------------------------------
(***************************************************************************)
(* The safety properties of IndexManifest about which generation serves,   *)
(* proved for every set of generations, chunks, reconcilers and collectors *)
(* and every bound on repairs and faults.                                  *)
(*                                                                         *)
(* Only activation and rollback change which generation is active; they    *)
(* retire the one that was.  A generation a rollback decided against was   *)
(* built to succeed another one than the active one, so its compare-and-   *)
(* set fails; a generation a collector works on is retired, past its       *)
(* window and under that collector's lease.  Every other step leaves all   *)
(* of that alone, which one frame lemma says.                              *)
(***************************************************************************)

-----------------------------------------------------------------------------
(* The inductive invariant.                                                *)

OneServes ==
  \A g, h \in Generations : row[g].state = "active" /\ row[h].state = "active" => g = h

OverruledWaits ==
  \A h \in overruled :
    /\ row[h].state # "absent"
    /\ \E g \in Generations : row[g].state = "active"
    /\ \A g \in Generations : row[g].state = "active" => row[h].expectedActive # g

LeaseHeld ==
  \A c \in Collectors : col[c].at = "delete" =>
    /\ row[col[c].gen].state = "retired" /\ row[col[c].gen].expired
    /\ row[col[c].gen].retentionToken = c

SafeInv == TypeInv /\ OneServes /\ OverruledWaits /\ LeaseHeld

-----------------------------------------------------------------------------
(* What a step leaves alone.                                               *)

\* From row x to row y: service, origin and an expired row's lease are kept.
Keeps(x, y) ==
  /\ y.state = "active" <=> x.state = "active"
  /\ x.state # "absent" => y.state # "absent" /\ y.expectedActive = x.expectedActive
  /\ x.state = "retired" /\ x.expired =>
       y.state = "retired" /\ y.expired /\ y.retentionToken = x.retentionToken

Calm == \A g \in Generations : Keeps(row[g], row'[g])

LEMMA CalmEdit ==
  ASSUME RowsTyped, NEW g \in Generations, NEW x, row' = [row EXCEPT ![g] = x],
         Keeps(row[g], x)
  PROVE  Calm
  BY DEF RowsTyped, Calm, Keeps

LEMMA CalmSame == row' = row => Calm
  BY DEF Calm, Keeps

\* The frame: a calm step that moves neither the collectors nor the record of
\* what was overruled keeps the invariant.
LEMMA CalmKeeps ==
  ASSUME SafeInv, TypeInv', Calm, col' = col, overruled' = overruled
  PROVE  SafeInv'
<1>1. OneServes'
  BY DEF SafeInv, OneServes, Calm, Keeps
<1>2. \A h \in overruled : h \in Generations
  BY DEF SafeInv, TypeInv, TypeParts, HistoryTyped
<1>3. OverruledWaits'
  BY <1>2 DEF SafeInv, OverruledWaits, Calm, Keeps
<1>4. \A c \in Collectors : col[c].at = "delete" => col[c].gen \in Generations
  BY DEF SafeInv, TypeInv, Busy
<1>5. LeaseHeld'
  BY <1>4 DEF SafeInv, LeaseHeld, Calm, Keeps
<1> QED BY <1>1, <1>3, <1>5 DEF SafeInv

\* The builder's steps are calm, except the activation.
LEMMA BuildCalm ==
  ASSUME TypeInv,
         \/ BuildReadsActive \/ WriteElastic \/ SaveCheckpoint
         \/ (\E c \in Chunks : WriteQdrant(c)) \/ (\E b \in Backends : BuildObserves(b))
         \/ JobCompletes \/ DeleteCheckpoint
         \/ BuildBegins \/ SealExpected \/ MarkReady \/ ConfirmActive
         \/ BuildRefused \/ BuildErrs \/ BuildCancelled \/ BuilderCrashes
  PROVE  Calm /\ col' = col /\ overruled' = overruled
<1>0. RowsTyped /\ (build.at # "idle" => build.gen \in Generations /\ row[build.gen] \in Row)
  BY DEF TypeInv, TypeParts, Busy, RowsTyped
<1> DEFINE g == build.gen
<1>1. CASE \/ BuildReadsActive \/ WriteElastic \/ SaveCheckpoint
           \/ (\E c \in Chunks : WriteQdrant(c)) \/ (\E b \in Backends : BuildObserves(b))
           \/ JobCompletes \/ DeleteCheckpoint \/ BuilderCrashes
  BY <1>1, CalmSame DEF BuildReadsActive, WriteElastic, SaveCheckpoint, WriteQdrant,
     BuildObserves, JobCompletes, DeleteCheckpoint, BuilderCrashes, history
<1>2. CASE BuildBegins
  <2>1. g \in Generations /\ row[g] \in Row
    BY <1>0, <1>2 DEF BuildBegins
  <2>2. row' = [row EXCEPT ![g] = BegunRow(g)] /\ col' = col /\ overruled' = overruled
    BY <1>2 DEF BuildBegins, history
  <2>3. Keeps(row[g], BegunRow(g))
    BY <2>1 DEF Keeps, BegunRow, NoRow, Retried, Row
  <2> HIDE DEF g
  <2> QED BY <1>0, <2>1, <2>2, <2>3, CalmEdit
<1>3. CASE SealExpected
  <2>1. g \in Generations /\ row[g] \in Row
    BY <1>0, <1>3 DEF SealExpected, AllWritten
  <2>2. row' = [row EXCEPT ![g] = SealedRow(g)] /\ col' = col /\ overruled' = overruled
    BY <1>3 DEF SealExpected
  <2>3. Keeps(row[g], SealedRow(g))
    BY <2>1 DEF Keeps, SealedRow, Row
  <2> HIDE DEF g
  <2> QED BY <1>0, <2>1, <2>2, <2>3, CalmEdit
<1>4. CASE MarkReady
  <2> DEFINE x == [row[g] EXCEPT !.state = "ready"]
  <2>1. g \in Generations /\ row[g] \in Row /\ row[g].state = "building"
    BY <1>0, <1>4 DEF MarkReady, BuildHasSeen
  <2>2. row' = [row EXCEPT ![g] = x] /\ col' = col /\ overruled' = overruled
    BY <1>4 DEF MarkReady
  <2>3. Keeps(row[g], x)
    BY <2>1 DEF Keeps, Row
  <2> HIDE DEF g, x
  <2> QED BY <1>0, <2>1, <2>2, <2>3, CalmEdit
<1>5. CASE ConfirmActive
  <2> DEFINE x == [row[g] EXCEPT !.error = FALSE, !.repairs = 0, !.reconcileToken = None]
  <2>1. g \in Generations /\ row[g] \in Row /\ col' = col /\ overruled' = overruled
    BY <1>0, <1>5 DEF ConfirmActive, BuildHasSeen
  <2>2. row' = [row EXCEPT ![g] = x]
    BY <1>0, <1>5, <2>1 DEF ConfirmActive, RowsTyped, Row
  <2>3. Keeps(row[g], x)
    BY <2>1 DEF Keeps, Row
  <2> HIDE DEF g, x
  <2> QED BY <1>0, <2>1, <2>2, <2>3, CalmEdit
<1>6. CASE BuildRefused \/ BuildErrs \/ BuildCancelled
  <2>1. BuildEnds /\ build.at # "idle"
    BY <1>6 DEF BuildRefused, Refused, AllWritten, BuildHasSeen, BuildErrs, BuildCancelled
  <2>2. g \in Generations /\ row[g] \in Row /\ col' = col /\ overruled' = overruled
    BY <1>0, <2>1 DEF BuildEnds, history
  <2>3. CASE build.state = "building" /\ row[g].state = "building"
    <3> DEFINE x == [row[g] EXCEPT !.state = "failed"]
    <3>1. row' = [row EXCEPT ![g] = x]
      BY <2>1, <2>3 DEF BuildEnds
    <3>2. Keeps(row[g], x)
      BY <2>2, <2>3 DEF Keeps, Row
    <3> HIDE DEF g, x
    <3> QED BY <1>0, <2>2, <3>1, <3>2, CalmEdit
  <2>4. CASE ~(build.state = "building" /\ row[g].state = "building")
    BY <2>1, <2>2, <2>4, CalmSame DEF BuildEnds
  <2> QED BY <2>3, <2>4
<1> QED BY <1>1, <1>2, <1>3, <1>4, <1>5, <1>6

\* The reconcilers touch errors, budgets and their own claims only.
LEMMA ReconcilerCalm ==
  ASSUME TypeInv, NEW r \in Reconcilers,
         ActivePass(r) \/ FailedPass(r) \/ ReconcilerSteps(r) \/ ReconcilerCrashes(r)
  PROVE  Calm /\ col' = col /\ overruled' = overruled
<1>0. RowsTyped /\ \A h \in Generations : row[h] \in Row
  BY DEF TypeInv, TypeParts, RowsTyped
<1> DEFINE g == rec[r].gen
<1>1. rec[r].at # "idle" => g \in Generations
  BY DEF TypeInv, Busy
<1>2. ASSUME NEW h \in Generations, ClaimReconciliation(r, h) \/ ClaimFailedRepairs(r, h)
      PROVE  Calm /\ col' = col /\ overruled' = overruled
  <2> DEFINE x == [row[h] EXCEPT !.reconcileToken = r]
  <2>1. row' = [row EXCEPT ![h] = x] /\ col' = col /\ overruled' = overruled
    BY <1>2 DEF ClaimReconciliation, ClaimFailedRepairs, history
  <2>2. Keeps(row[h], x)
    BY <1>0 DEF Keeps, Row
  <2> HIDE DEF x
  <2> QED BY <1>0, <2>1, <2>2, CalmEdit
<1>3. CASE FinishHealthy(r)
  <2> DEFINE x == [row[g] EXCEPT !.error = FALSE, !.repairs = 0, !.reconcileToken = None]
  <2>1. g \in Generations /\ row[g] \in Row /\ col' = col /\ overruled' = overruled
    BY <1>0, <1>1, <1>3 DEF FinishHealthy, ReconcilerHasSeen
  <2>2. row' = [row EXCEPT ![g] = x]
    BY <1>0, <1>3, <2>1 DEF FinishHealthy, RowsTyped, Row
  <2>3. Keeps(row[g], x)
    BY <2>1 DEF Keeps, Row
  <2> HIDE DEF g, x
  <2> QED BY <1>0, <2>1, <2>2, <2>3, CalmEdit
<1>4. ASSUME NEW pending \in BOOLEAN, RecordDivergence(r, pending)
      PROVE  Calm /\ col' = col /\ overruled' = overruled
  <2>1. g \in Generations /\ row[g] \in Row /\ col' = col /\ overruled' = overruled
    BY <1>0, <1>1, <1>4 DEF RecordDivergence, ReconcilerHasSeen
  <2>2. row' = [row EXCEPT ![g] = DivergedRow(g, pending)]
    BY <1>4 DEF RecordDivergence
  <2>3. Keeps(row[g], DivergedRow(g, pending))
    BY <2>1 DEF Keeps, DivergedRow, Row
  <2> HIDE DEF g
  <2> QED BY <1>0, <2>1, <2>2, <2>3, CalmEdit
<1>5. CASE ScheduleFailedRepair(r)
  <2> DEFINE x == [row[g] EXCEPT !.reconcileToken = None, !.repairs = Charged(@)]
  <2>1. g \in Generations /\ row[g] \in Row /\ col' = col /\ overruled' = overruled
    BY <1>0, <1>1, <1>5 DEF ScheduleFailedRepair, history
  <2>2. row' = [row EXCEPT ![g] = x]
    BY <1>0, <1>5, <2>1 DEF ScheduleFailedRepair, RowsTyped, Row
  <2>3. Keeps(row[g], x)
    BY <2>1 DEF Keeps, Row
  <2> HIDE DEF g, x
  <2> QED BY <1>0, <2>1, <2>2, <2>3, CalmEdit
<1>6. CASE (\E b \in Backends : ReconcilerObserves(r, b))
           \/ ReconcilerConflicts(r) \/ ReconcilerCrashes(r)
  BY <1>6, CalmSame DEF ReconcilerObserves, ReconcilerConflicts, ReconcilerCrashes, history
<1> QED BY <1>2, <1>3, <1>4, <1>5, <1>6 DEF ActivePass, FailedPass, ReconcilerSteps, FinishDiverged

\* The surroundings are calm, so is asking for a rollback: the target is still
\* in its window, no collector has it.
LEMMA SurroundingsCalm ==
  ASSUME TypeInv,
         \/ CancelJob \/ RollbackFails
         \/ \E b \in Backends : RollbackObserves(b)
         \/ \E g \in Generations : RollbackTarget(g) \/ Deploy(g) \/ WindowPasses(g)
         \/ \E b \in Backends, g \in Generations, c \in Chunks : LosesChunk(b, g, c)
  PROVE  Calm /\ col' = col /\ overruled' = overruled
<1>0. RowsTyped /\ \A h \in Generations : row[h] \in Row
  BY DEF TypeInv, TypeParts, RowsTyped
<1>1. CASE \/ CancelJob \/ RollbackFails \/ (\E b \in Backends : RollbackObserves(b))
           \/ (\E g \in Generations : Deploy(g))
           \/ (\E b \in Backends, g \in Generations, c \in Chunks : LosesChunk(b, g, c))
  BY <1>1, CalmSame DEF CancelJob, RollbackFails, RollbackObserves, Deploy, LosesChunk, history
<1>2. ASSUME NEW g \in Generations, RollbackTarget(g)
      PROVE  Calm /\ col' = col /\ overruled' = overruled
  <2> DEFINE x == [row[g] EXCEPT !.retentionToken = Operator]
  <2>1. row' = [row EXCEPT ![g] = x] /\ col' = col /\ overruled' = overruled
        /\ ~row[g].expired
    BY <1>2 DEF RollbackTarget
  <2>2. Keeps(row[g], x)
    BY <1>0, <2>1 DEF Keeps, Row
  <2> HIDE DEF x
  <2> QED BY <1>0, <2>1, <2>2, CalmEdit
<1>3. ASSUME NEW g \in Generations, WindowPasses(g)
      PROVE  Calm /\ col' = col /\ overruled' = overruled
  <2> DEFINE x == [row[g] EXCEPT !.expired = TRUE]
  <2>1. row' = [row EXCEPT ![g] = x] /\ col' = col /\ overruled' = overruled
    BY <1>3 DEF WindowPasses, history
  <2>2. Keeps(row[g], x)
    BY <1>0 DEF Keeps, Row
  <2> HIDE DEF x
  <2> QED BY <1>0, <2>1, <2>2, CalmEdit
<1> QED BY <1>1, <1>2, <1>3

-----------------------------------------------------------------------------
(* The succession: activation and rollback.                                *)

\* Afterwards g serves and nobody else; no retired row is touched but g's.
LEMMA SuccessionServes ==
  ASSUME RowsTyped, NEW g \in Generations, NEW p \in Row, p.state = "active",
         p.expectedActive = row[g].expectedActive, row' = Succession(g, p)
  PROVE  /\ \A h \in Generations : row'[h].state = "active" <=> h = g
         /\ \A h \in Generations : row'[h].expectedActive = row[h].expectedActive
         /\ \A h \in Generations : row'[h].state = "absent" => row[h].state = "absent"
         /\ \A h \in Generations : h # g /\ row[h].state = "retired" => row'[h] = row[h]
<1>1. \A h \in Generations : /\ Retire(row[h]).state = "retired"
                             /\ Retire(row[h]).expectedActive = row[h].expectedActive
  BY DEF Retire, RowsTyped, Row
<1>2. \A h \in Generations : row'[h] = CASE h = g -> p
                               [] h # g /\ row[h].state = "active" -> Retire(row[h])
                               [] OTHER -> row[h]
  BY DEF Succession
<1>3. row'[g] = p
  BY <1>2
<1>4. \A h \in Generations \ {g} :
        row'[h] = IF row[h].state = "active" THEN Retire(row[h]) ELSE row[h]
  BY <1>2
<1> QED BY <1>1, <1>3, <1>4

\* The active generation is the one the compare-and-set compares with.
LEMMA CurrentServes ==
  ASSUME OneServes, NEW g \in Generations, row[g].state = "active"
  PROVE  Current = g
  BY DEF OneServes, Current, ActiveGenerations

\* A collector's generation is neither ready nor protected for a rollback.
LEMMA SuccessionSparesLeases ==
  ASSUME TypeInv, LeaseHeld, col' = col, NEW g \in Generations,
         row[g].state = "retired" => ~row[g].expired,
         \A h \in Generations : h # g /\ row[h].state = "retired" => row'[h] = row[h]
  PROVE  LeaseHeld'
  BY DEF TypeInv, Busy, LeaseHeld

LEMMA ActivateSafe ==
  ASSUME SafeInv, TypeInv', Activate
  PROVE  SafeInv'
<1> DEFINE g == build.gen
           p == [row[g] EXCEPT !.state = "active", !.expired = FALSE]
<1>1. RowsTyped /\ g \in Generations /\ row[g] \in Row /\ row[g].state = "ready"
  BY DEF SafeInv, TypeInv, TypeParts, Busy, Activate, MayActivate, RowsTyped
<1>2. /\ p \in Row /\ p.state = "active" /\ p.expectedActive = row[g].expectedActive
      /\ row' = Succession(g, p)
  BY <1>1, PromotedEdit DEF Activate, Row
<1>3. col' = col /\ overruled' = {h \in overruled : row[h].expectedActive # g}
  BY DEF Activate
<1>4. overruled \subseteq Generations /\ OverruledWaits /\ LeaseHeld /\ TypeInv
  BY DEF SafeInv, TypeInv, TypeParts, HistoryTyped
<1> HIDE DEF g, p
<1>5. /\ \A h \in Generations : row'[h].state = "active" <=> h = g
      /\ \A h \in Generations : row'[h].expectedActive = row[h].expectedActive
      /\ \A h \in Generations : row'[h].state = "absent" => row[h].state = "absent"
      /\ \A h \in Generations : h # g /\ row[h].state = "retired" => row'[h] = row[h]
  BY <1>1, <1>2, SuccessionServes
<1>6. OneServes'
  BY <1>5 DEF OneServes
<1>7. OverruledWaits'
  BY <1>1, <1>3, <1>4, <1>5 DEF OverruledWaits
<1>8. LeaseHeld'
  BY <1>1, <1>3, <1>4, <1>5, SuccessionSparesLeases
<1> QED BY <1>6, <1>7, <1>8 DEF SafeInv

LEMMA RollbackSafe ==
  ASSUME SafeInv, TypeInv', Rollback
  PROVE  SafeInv'
<1> DEFINE g == roll.gen
           p == [row[g] EXCEPT !.state = "active", !.expired = FALSE, !.error = FALSE,
                   !.repairs = 0, !.reconcileToken = None, !.retentionToken = None]
<1>1. RowsTyped /\ g \in Generations /\ row[g] \in Row /\ ~row[g].expired
  BY DEF SafeInv, TypeInv, TypeParts, Busy, Rollback, MayRollBack, StillProtected, RowsTyped
<1>2. p \in Row /\ p.state = "active"
  BY <1>1, RestoredEdit
<1>3. p.expectedActive = row[g].expectedActive
  BY <1>1 DEF Row
<1>4. row' = Succession(g, p) /\ col' = col
      /\ overruled' = {h \in Generations \ {g} :
                         row[h].state # "absent" /\ row[h].expectedActive # g}
  BY DEF Rollback
<1>5. LeaseHeld /\ TypeInv
  BY DEF SafeInv
<1> HIDE DEF g, p
<1>6. /\ \A h \in Generations : row'[h].state = "active" <=> h = g
      /\ \A h \in Generations : row'[h].expectedActive = row[h].expectedActive
      /\ \A h \in Generations : row'[h].state = "absent" => row[h].state = "absent"
      /\ \A h \in Generations : h # g /\ row[h].state = "retired" => row'[h] = row[h]
  BY <1>1, <1>2, <1>3, <1>4, SuccessionServes
<1>7. OneServes'
  BY <1>6 DEF OneServes
<1>8. OverruledWaits'
  BY <1>1, <1>4, <1>6 DEF OverruledWaits
<1>9. LeaseHeld'
  BY <1>1, <1>4, <1>5, <1>6, SuccessionSparesLeases
<1> QED BY <1>7, <1>8, <1>9 DEF SafeInv

-----------------------------------------------------------------------------
(* The collectors.                                                         *)

LEMMA CollectorSafe ==
  ASSUME SafeInv, TypeInv', NEW c \in Collectors, CollectorSteps(c) \/ CollectorCrashes(c)
  PROVE  SafeInv'
<1>0. RowsTyped /\ (\A h \in Generations : row[h] \in Row) /\ overruled \subseteq Generations
      /\ OneServes /\ OverruledWaits /\ LeaseHeld /\ col \in [Collectors -> ColRecord]
  BY DEF SafeInv, TypeInv, TypeParts, RowsTyped, HistoryTyped
<1>1. \A d \in Collectors : col[d].at = "delete" => col[d].gen \in Generations
  BY DEF SafeInv, TypeInv, Busy
<1>2. Collecting.at = "idle"
  BY DEF Collecting
<1>3. ASSUME NEW g \in Generations, ClaimRetention(c, g) PROVE SafeInv'
  <2> DEFINE x == [row[g] EXCEPT !.retentionToken = c]
             y == [at |-> "delete", gen |-> g,
                   tried |-> row[g].deleted, deleted |-> row[g].deleted]
  <2>1. /\ row' = [row EXCEPT ![g] = x] /\ col' = [col EXCEPT ![c] = y]
        /\ row[g].state = "retired" /\ row[g].expired /\ overruled' = overruled
    BY <1>3 DEF ClaimRetention, history
  <2>2. /\ x.state = "retired" /\ x.expired /\ x.retentionToken = c
        /\ x.expectedActive = row[g].expectedActive
    BY <1>0, <2>1 DEF Row
  <2>3. y.gen = g
    OBVIOUS
  <2>4. \A d \in Collectors : d # c /\ col[d].at = "delete" => col[d].gen # g
    BY <1>0, <1>3 DEF ClaimRetention, LeaseFree, LeaseHeld
  <2> HIDE DEF x, y
  <2>5. \A h \in Generations : row'[h].state = row[h].state
                               /\ row'[h].expectedActive = row[h].expectedActive
    BY <1>0, <2>1, <2>2 DEF RowsTyped
  <2>6. OneServes' /\ OverruledWaits'
    BY <1>0, <2>1, <2>5 DEF OneServes, OverruledWaits
  <2>7. LeaseHeld'
    <3> SUFFICES ASSUME NEW d \in Collectors, col'[d].at = "delete"
                 PROVE  /\ row'[col'[d].gen].state = "retired" /\ row'[col'[d].gen].expired
                        /\ row'[col'[d].gen].retentionToken = d
      BY DEF LeaseHeld
    <3>1. CASE d = c
      BY <1>0, <2>1, <2>2, <2>3, <3>1 DEF RowsTyped
    <3>2. CASE d # c
      <4>1. col'[d] = col[d]
        BY <2>1, <3>2
      <4>2. col[d].gen \in Generations \ {g}
        BY <1>1, <2>4, <3>2, <4>1
      <4> QED BY <1>0, <2>1, <4>1, <4>2 DEF RowsTyped, LeaseHeld
    <3> QED BY <3>1, <3>2
  <2> QED BY <2>6, <2>7 DEF SafeInv
<1>4. ASSUME NEW b \in Backends, DeleteGeneration(c, b) PROVE SafeInv'
  <2>1. \A d \in Collectors : col'[d].at = col[d].at /\ col'[d].gen = col[d].gen
    BY <1>0, <1>4 DEF DeleteGeneration, ColRecord
  <2>2. row' = row /\ overruled' = overruled
    BY <1>4 DEF DeleteGeneration, history
  <2> QED BY <1>0, <2>1, <2>2 DEF SafeInv, OneServes, OverruledWaits, LeaseHeld
<1>5. CASE FinishRetention(c)
  <2> DEFINE g == col[c].gen
             x == IF HoldsRetention(c, g) THEN RetainedRow(c, g) ELSE row[g]
  <2>1. g \in Generations /\ row[g].state = "retired" /\ row[g].retentionToken = c
    BY <1>0, <1>1, <1>5 DEF FinishRetention, LeaseHeld
  <2>2. row' = [row EXCEPT ![g] = x] /\ col' = [col EXCEPT ![c] = Collecting]
        /\ overruled' = {h \in overruled : row'[h].state # "absent"}
    BY <1>0, <1>5, <2>1 DEF FinishRetention, RowsTyped
  <2>3. /\ x.state \in {"retired", "absent"}
        /\ x.state = "retired" => x.expectedActive = row[g].expectedActive
    BY <1>0, <2>1 DEF RetainedRow, NoRow, Row
  <2>4. \A d \in Collectors : d # c /\ col[d].at = "delete" => col[d].gen # g
    BY <1>0, <2>1 DEF LeaseHeld
  <2> HIDE DEF g, x
  <2>5. \A h \in Generations : /\ row'[h].state = "active" <=> row[h].state = "active"
                               /\ row'[h].state # "absent" =>
                                    row'[h].expectedActive = row[h].expectedActive
    BY <1>0, <2>1, <2>2, <2>3 DEF RowsTyped
  <2>6. OneServes' /\ OverruledWaits'
    BY <1>0, <2>2, <2>5 DEF OneServes, OverruledWaits
  <2>7. LeaseHeld'
    <3> SUFFICES ASSUME NEW d \in Collectors, col'[d].at = "delete"
                 PROVE  /\ row'[col'[d].gen].state = "retired" /\ row'[col'[d].gen].expired
                        /\ row'[col'[d].gen].retentionToken = d
      BY DEF LeaseHeld
    <3>1. d # c /\ col'[d] = col[d]
      BY <1>0, <1>2, <2>2
    <3>2. col[d].gen \in Generations \ {g}
      BY <1>1, <2>4, <3>1
    <3> QED BY <1>0, <2>2, <3>1, <3>2 DEF RowsTyped, LeaseHeld
  <2> QED BY <2>6, <2>7 DEF SafeInv
<1>6. CASE CollectorCrashes(c)
  <2>1. row' = row /\ col' = [col EXCEPT ![c] = Collecting] /\ overruled' = overruled
    BY <1>6 DEF CollectorCrashes, history
  <2>2. \A d \in Collectors : col'[d].at = "delete" => col'[d] = col[d]
    BY <1>0, <1>2, <2>1
  <2> QED BY <1>0, <2>1, <2>2 DEF SafeInv, OneServes, OverruledWaits, LeaseHeld
<1> QED BY <1>3, <1>4, <1>5, <1>6 DEF CollectorSteps

-----------------------------------------------------------------------------
(* The theorems.                                                           *)

\* Next, taken apart by what becomes of the generations.
LEMMA SafetyCases ==
  ASSUME Next
  PROVE  \/ Activate \/ Rollback
         \/ \E c \in Collectors : CollectorSteps(c) \/ CollectorCrashes(c)
         \/ \/ BuildReadsActive \/ WriteElastic \/ SaveCheckpoint
            \/ (\E c \in Chunks : WriteQdrant(c)) \/ (\E b \in Backends : BuildObserves(b))
            \/ JobCompletes \/ DeleteCheckpoint
            \/ BuildBegins \/ SealExpected \/ MarkReady \/ ConfirmActive
            \/ BuildRefused \/ BuildErrs \/ BuildCancelled \/ BuilderCrashes
         \/ \E r \in Reconcilers : ActivePass(r) \/ FailedPass(r) \/ ReconcilerSteps(r)
                                   \/ ReconcilerCrashes(r)
         \/ \/ CancelJob \/ RollbackFails
            \/ \E b \in Backends : RollbackObserves(b)
            \/ \E g \in Generations : RollbackTarget(g) \/ Deploy(g) \/ WindowPasses(g)
            \/ \E b \in Backends, g \in Generations, c \in Chunks : LosesChunk(b, g, c)
  BY DEF Next, BuildSteps, RollbackSteps

LEMMA SafeInvInductive ==
  ASSUME SafeInv, [Next]_vars
  PROVE  SafeInv'
<1>0. TypeInv /\ TypeInv'
  BY TypeInvInductive DEF SafeInv
<1>1. CASE UNCHANGED vars
  <2>1. Calm /\ col' = col /\ overruled' = overruled
    BY <1>1, CalmSame DEF vars
  <2> QED BY <1>0, <2>1, CalmKeeps
<1>2. CASE Next
  BY <1>0, <1>2, SafetyCases, ActivateSafe, RollbackSafe, CollectorSafe, BuildCalm,
     ReconcilerCalm, SurroundingsCalm, CalmKeeps
<1> QED BY <1>1, <1>2

LEMMA SafeInvHolds == Spec => []SafeInv
<1>1. Init => SafeInv
  <2> SUFFICES ASSUME Init PROVE SafeInv
    OBVIOUS
  <2>1. \A g \in Generations : row[g].state = "absent"
    BY DEF Init, NoRow
  <2>2. \A c \in Collectors : col[c].at = "idle"
    BY DEF Init, Collecting
  <2>3. overruled = {}
    BY DEF Init
  <2> QED BY <2>1, <2>2, <2>3, TypeInvInitial
          DEF SafeInv, OneServes, OverruledWaits, LeaseHeld
<1> QED BY <1>1, SafeInvInductive, PTL DEF Spec

\* A collector that may still delete from the projections of a generation
\* never meets it in service or under construction (RetentionCollector).
THEOREM RetentionSparesServingAlways == Spec => []RetentionSparesServing
<1>1. SafeInv => RetentionSparesServing
  BY DEF SafeInv, LeaseHeld, RetentionSparesServing
<1> QED BY <1>1, SafeInvHolds, PTL

\* What a step may do to the service: leave it with whom it is, or hand it
\* over, by a compare-and-set that finds the expected predecessor or by a
\* rollback.
ServiceKept == \A g \in Generations : row'[g].state = "active" <=> row[g].state = "active"
HandedTo(h) == \A g \in Generations : row'[g].state = "active" <=> g = h

LEMMA StepsOfService ==
  ASSUME SafeInv, [Next]_vars
  PROVE  \/ ServiceKept
         \/ \E h \in Generations : /\ HandedTo(h)
                                   /\ MayActivate(h) \/ (Rollback /\ h = roll.gen)
<1>0. TypeInv /\ RowsTyped /\ OneServes
  BY DEF SafeInv, TypeInv, TypeParts
<1>1. CASE UNCHANGED vars
  BY <1>1 DEF vars, ServiceKept
<1>2. CASE Activate
  <2> DEFINE g == build.gen
             p == [row[g] EXCEPT !.state = "active", !.expired = FALSE]
  <2>1. g \in Generations /\ row[g] \in Row /\ MayActivate(g)
    BY <1>0, <1>2 DEF TypeInv, Busy, Activate, RowsTyped
  <2>2. /\ p \in Row /\ p.state = "active" /\ p.expectedActive = row[g].expectedActive
        /\ row' = Succession(g, p)
    BY <1>2, <2>1, PromotedEdit DEF Activate, Row
  <2> HIDE DEF g, p
  <2>3. HandedTo(g)
    BY <1>0, <2>1, <2>2, SuccessionServes DEF HandedTo
  <2> QED BY <2>1, <2>3
<1>3. CASE Rollback
  <2> DEFINE g == roll.gen
             p == [row[g] EXCEPT !.state = "active", !.expired = FALSE, !.error = FALSE,
                     !.repairs = 0, !.reconcileToken = None, !.retentionToken = None]
  <2>1. g \in Generations /\ row[g] \in Row
    BY <1>0, <1>3 DEF TypeInv, Busy, Rollback, RowsTyped
  <2>2. p \in Row /\ p.state = "active"
    BY <2>1, RestoredEdit
  <2>3. p.expectedActive = row[g].expectedActive /\ row' = Succession(g, p)
    BY <1>3, <2>1 DEF Rollback, Row
  <2> HIDE DEF p
  <2>4. HandedTo(g)
    BY <1>0, <2>1, <2>2, <2>3, SuccessionServes DEF HandedTo
  <2> QED BY <1>3, <2>1, <2>4
<1>4. CASE \E c \in Collectors : CollectorSteps(c) \/ CollectorCrashes(c)
  <2> PICK c \in Collectors : CollectorSteps(c) \/ CollectorCrashes(c)
    BY <1>4
  <2>1. CASE FinishRetention(c)
    <3>1. row[col[c].gen].state = "retired" /\ col[c].gen \in Generations
      BY <2>1 DEF FinishRetention, SafeInv, TypeInv, Busy, LeaseHeld
    <3>2. RetainedRow(c, col[c].gen).state # "active"
      BY <1>0, <3>1 DEF RetainedRow, NoRow, RowsTyped, Row
    <3> QED BY <1>0, <2>1, <3>1, <3>2 DEF FinishRetention, ServiceKept, RowsTyped
  <2>2. ASSUME NEW g \in Generations, ClaimRetention(c, g) PROVE ServiceKept
    BY <1>0, <2>2 DEF ClaimRetention, ServiceKept, RowsTyped, Row
  <2>3. CASE CollectorCrashes(c) \/ \E b \in Backends : DeleteGeneration(c, b)
    BY <2>3 DEF CollectorCrashes, DeleteGeneration, ServiceKept
  <2> QED BY <2>1, <2>2, <2>3 DEF CollectorSteps
<1>5. Calm => ServiceKept
  BY DEF Calm, Keeps, ServiceKept
<1> QED BY <1>0, <1>1, <1>2, <1>3, <1>4, <1>5, SafetyCases, BuildCalm, ReconcilerCalm,
           SurroundingsCalm

\* Once a generation serves the version exactly one does, after every step:
\* Activate and Rollback hand over, nothing else in the code touches service.
THEOREM ServiceNeverLapsesAlways == Spec => ServiceNeverLapses
<1>1. ASSUME SafeInv, [Next]_vars
      PROVE  [ActiveGenerations # {} => Cardinality(ActiveGenerations') = 1]_vars
  <2> SUFFICES ASSUME ActiveGenerations # {}
               PROVE  \E h : ActiveGenerations' = {h}
    BY FS_Singleton
  <2>1. PICK a \in Generations : row[a].state = "active"
    BY DEF ActiveGenerations
  <2>2. CASE ServiceKept
    <3>1. ActiveGenerations' = {a}
      BY <1>1, <2>1, <2>2 DEF SafeInv, OneServes, ServiceKept, ActiveGenerations
    <3> QED BY <3>1
  <2>3. ASSUME NEW h \in Generations, HandedTo(h) PROVE ActiveGenerations' = {h}
    BY <2>3 DEF HandedTo, ActiveGenerations
  <2> QED BY <1>1, <2>2, <2>3, StepsOfService
<1> QED BY <1>1, SafeInvHolds, PTL DEF Spec, ServiceNeverLapses

\* A generation that was to take over from another one than a rollback's target
\* does not undo the rollback, however often its build is delivered again: the
\* compare-and-set of Activate finds the target, or what took over from it, active
\* and not the generation this one was built to succeed.
THEOREM RollbackSticksAlways == Spec => RollbackSticks
<1>1. ASSUME SafeInv, [Next]_vars
      PROVE  [\A g \in overruled : row[g].state # "active" /\ row'[g].state = "active"
                                     => roll.gen = g]_vars
  <2> SUFFICES ASSUME NEW g \in overruled, row[g].state # "active", row'[g].state = "active",
                      roll.gen # g
               PROVE  FALSE
    OBVIOUS
  <2>1. g \in Generations /\ OneServes
    BY <1>1 DEF SafeInv, TypeInv, TypeParts, HistoryTyped
  <2>2. MayActivate(g)
    BY <1>1, <2>1, StepsOfService DEF ServiceKept, HandedTo
  <2>3. PICK a \in Generations : row[a].state = "active" /\ row[g].expectedActive # a
    BY <1>1 DEF SafeInv, OverruledWaits
  <2> QED BY <2>1, <2>2, <2>3, CurrentServes DEF MayActivate
<1> QED BY <1>1, SafeInvHolds, PTL DEF Spec, RollbackSticks

-----------------------------------------------------------------------------
(***************************************************************************)
(* What queries can see is whole: VisibleIsWhole, proved for every set of  *)
(* generations, chunks, reconcilers and collectors and every bound on      *)
(* repairs and faults.                                                     *)
(*                                                                         *)
(* A generation comes into service, or has its error cleared, on the       *)
(* strength of observations made one by one and some time ago.  The        *)
(* invariant says of each observer half way through (the builder, a        *)
(* reconciler, the operator) that the projections it has looked at are     *)
(* still what it saw, as long as its claim on the row is good, unless a    *)
(* backend lost a chunk behind its back; and then that loss is still on    *)
(* record.                                                                 *)
(***************************************************************************)

-----------------------------------------------------------------------------
(* The inductive invariant.                                                *)

\* Only retired rows are leased, a seal is all of the version's chunks, and
\* what has been verified once is sealed.
Sound(x) ==
  /\ x.retentionToken # None => x.state = "retired"
  /\ x.seal \in {{}, Chunks}
  /\ x.state \in {"ready", "active", "retired"} => x.seal = Chunks
RowsSound == \A g \in Generations : Sound(row[g])

\* What is in the checkpoint or written, and what is still to be written, make
\* up the version.
Writing ==
  /\ build.at \in {"write", "save"} =>
       build.ids \cup build.todo = Chunks /\ (build.half # None => build.half \in build.todo)
  /\ build.at \in {"begin", "write", "save"} => build.seen = {}
  /\ build.at = "begin" => build.half = None

\* The row a verifying builder works on stays out of the collectors' reach.
Kept(x) == x.state \in {"building", "active"} \/ (x.state = "retired" /\ ~x.expired)

BuilderLooks ==
  build.at = "observe" =>
    /\ row[build.gen].seal = Chunks /\ Kept(row[build.gen])
    /\ Builder \notin missed => \A b \in build.seen : proj[b][build.gen] = Chunks
    /\ row[build.gen].state = "building" /\ Builder \in missed => build.gen \in lost

ReconcilerLooks(r) ==
  rec[r].at = "observe" /\ row[rec[r].gen].reconcileToken = r =>
    /\ row[rec[r].gen].state = "active"
    /\ rec[r].whole /\ r \notin missed => \A b \in rec[r].seen : proj[b][rec[r].gen] = Chunks
ReconcilersLook == \A r \in Reconcilers : ReconcilerLooks(r)

OperatorLooks ==
  roll.at = "observe" /\ row[roll.gen].retentionToken = Operator =>
    /\ Operator \notin missed => \A b \in roll.seen : proj[b][roll.gen] = Chunks
    /\ Operator \in missed => roll.gen \in lost

Serving(x) == x.state \in {"ready", "active"}
ServingWhole ==
  \A g \in Generations : Serving(row[g]) /\ g \notin lost =>
    \A b \in Backends : proj[b][g] = Chunks

WholeParts ==
  /\ RowsSound /\ Writing /\ BuilderLooks /\ ReconcilersLook /\ OperatorLooks /\ ServingWhole
WholeInv == SafeInv /\ WholeParts

-----------------------------------------------------------------------------
(* What each part needs of a step that is not about it.                    *)

LEMMA ServingFrame ==
  ASSUME ServingWhole, proj' = proj, lost \subseteq lost',
         \A g \in Generations : Serving(row'[g]) => Serving(row[g])
  PROVE  ServingWhole'
  BY DEF ServingWhole, Serving

\* No row is claimed afresh, and none that is claimed leaves service.
ClaimsKept ==
  \A g \in Generations : \A r \in Reconcilers : row'[g].reconcileToken = r =>
    /\ row[g].reconcileToken = r
    /\ row[g].state = "active" => row'[g].state = "active"

LEMMA ReconcilerFrame ==
  ASSUME TypeInv, NEW r \in Reconcilers, ReconcilerLooks(r), rec'[r] = rec[r], proj' = proj,
         r \in missed => r \in missed', ClaimsKept
  PROVE  ReconcilerLooks(r)'
  BY DEF TypeInv, Busy, ReconcilerLooks, ClaimsKept

\* Nobody gives the operator a lease, and a loss in a leased row stays known.
OperatorFramed ==
  \A g \in Generations : row'[g].retentionToken = Operator =>
    row[g].retentionToken = Operator /\ (g \in lost => g \in lost')

LEMMA OperatorFrame ==
  ASSUME TypeInv, OperatorLooks, roll' = roll, proj' = proj,
         Operator \in missed <=> Operator \in missed', OperatorFramed
  PROVE  OperatorLooks'
  BY DEF TypeInv, Busy, OperatorLooks, OperatorFramed

\* The builder's row is neither sealed anew, nor taken away, nor verified.
BuilderFramed ==
  \A g \in Generations : g = build.gen /\ Kept(row[g]) =>
    /\ row'[g].seal = row[g].seal /\ Kept(row'[g])
    /\ row'[g].state = "building" => row[g].state = "building" /\ (g \in lost => g \in lost')

LEMMA BuilderFrame ==
  ASSUME TypeInv, BuilderLooks, build' = build, proj' = proj,
         Builder \in missed <=> Builder \in missed',
         build.at = "observe" => BuilderFramed
  PROVE  BuilderLooks'
  BY DEF TypeInv, Busy, BuilderLooks, BuilderFramed

LEMMA WritingFrame ==
  ASSUME Writing, build' = build
  PROVE  Writing'
  BY DEF Writing

\* One row is replaced: what of it matters to which part.
LEMMA EditFrame ==
  ASSUME RowsTyped, RowsSound, NEW g \in Generations, NEW x, row' = [row EXCEPT ![g] = x]
  PROVE  /\ Sound(x) => RowsSound'
         /\ (Serving(x) => Serving(row[g])) =>
              \A h \in Generations : Serving(row'[h]) => Serving(row[h])
         /\ (/\ x.reconcileToken \in {None, row[g].reconcileToken}
             /\ row[g].state = "active" => x.state = "active") => ClaimsKept
         /\ (/\ x.retentionToken = Operator => row[g].retentionToken = Operator
             /\ lost \subseteq lost') => OperatorFramed
         /\ (/\ g = build.gen /\ Kept(row[g]) =>
                  /\ x.seal = row[g].seal /\ Kept(x)
                  /\ x.state = "building" => row[g].state = "building"
             /\ lost \subseteq lost') => BuilderFramed
<1>1. row'[g] = x /\ \A h \in Generations : h # g => row'[h] = row[h]
  BY DEF RowsTyped
<1>2. Sound(x) => RowsSound'
  BY <1>1 DEF RowsSound, Sound
<1>3. ASSUME Serving(x) => Serving(row[g])
      PROVE  \A h \in Generations : Serving(row'[h]) => Serving(row[h])
  BY <1>1, <1>3
<1>4. ASSUME x.reconcileToken \in {None, row[g].reconcileToken},
             row[g].state = "active" => x.state = "active"
      PROVE  ClaimsKept
  BY <1>1, <1>4, ActorsAssumption DEF ClaimsKept
<1>5. ASSUME x.retentionToken = Operator => row[g].retentionToken = Operator,
             lost \subseteq lost'
      PROVE  OperatorFramed
  BY <1>1, <1>5 DEF OperatorFramed
<1>6. ASSUME g = build.gen /\ Kept(row[g]) =>
               /\ x.seal = row[g].seal /\ Kept(x)
               /\ x.state = "building" => row[g].state = "building",
             lost \subseteq lost'
      PROVE  BuilderFramed
  BY <1>1, <1>6 DEF BuilderFramed
<1> QED BY <1>2, <1>3, <1>4, <1>5, <1>6

\* The rows stay.
LEMMA RowsStay ==
  ASSUME row' = row, lost \subseteq lost', RowsSound
  PROVE  /\ RowsSound' /\ ClaimsKept /\ OperatorFramed /\ BuilderFramed
         /\ \A g \in Generations : Serving(row'[g]) => Serving(row[g])
  BY DEF RowsSound, Sound, ClaimsKept, OperatorFramed, BuilderFramed

\* Only the builder moves, or nobody does.
LEMMA QuietStep ==
  ASSUME TypeInv, WholeParts,
         UNCHANGED <<row, proj, rec, roll, lost, missed>>, Writing', BuilderLooks'
  PROVE  WholeParts'
<1>1. /\ RowsSound' /\ ClaimsKept /\ OperatorFramed
      /\ \A g \in Generations : Serving(row'[g]) => Serving(row[g])
  BY RowsStay DEF WholeParts
<1>2. ReconcilersLook'
  BY <1>1, ReconcilerFrame DEF WholeParts, ReconcilersLook
<1>3. OperatorLooks' /\ ServingWhole'
  BY <1>1, OperatorFrame, ServingFrame DEF WholeParts
<1> QED BY <1>1, <1>2, <1>3 DEF WholeParts

\* The chunks written are chunks of the version: whatever is whole stays so.
LEMMA WritesKeepWhole ==
  ASSUME TypeInv, WholeParts, UNCHANGED <<row, rec, roll, lost, missed>>,
         Writing', build'.at # "observe",
         \A b \in Backends, g \in Generations : proj[b][g] = Chunks => proj'[b][g] = Chunks
  PROVE  WholeParts'
<1>1. RowsSound' /\ BuilderLooks'
  BY DEF WholeParts, RowsSound, Sound, BuilderLooks
<1>2. ServingWhole'
  BY DEF WholeParts, ServingWhole
<1>3. ASSUME NEW r \in Reconcilers PROVE ReconcilerLooks(r)'
  <2>1. rec[r].at = "observe" => rec[r].gen \in Generations /\ rec[r].seen \subseteq Backends
    BY DEF TypeInv, TypeParts, Busy, RecRecord
  <2> QED BY <2>1 DEF WholeParts, ReconcilersLook, ReconcilerLooks
<1>4. roll.at = "observe" => roll.gen \in Generations /\ roll.seen \subseteq Backends
  BY DEF TypeInv, TypeParts, Busy, RollRecord
<1>5. OperatorLooks'
  BY <1>4 DEF WholeParts, OperatorLooks
<1> QED BY <1>1, <1>2, <1>3, <1>5 DEF WholeParts, ReconcilersLook

-----------------------------------------------------------------------------
(* The builder.                                                            *)

LEMMA BuilderQuiet ==
  ASSUME TypeInv, WholeParts,
         BuildReadsActive \/ SaveCheckpoint \/ JobCompletes \/ DeleteCheckpoint
         \/ BuilderCrashes \/ \E b \in Backends : BuildObserves(b)
  PROVE  WholeParts'
<1>1. UNCHANGED <<row, proj, rec, roll, lost, missed>>
  BY DEF BuildReadsActive, SaveCheckpoint, JobCompletes, DeleteCheckpoint, BuilderCrashes,
         BuildObserves, history
<1>2. build \in BuildRecord /\ Writing /\ BuilderLooks
  BY DEF TypeInv, TypeParts, WholeParts
<1>3. CASE \E b \in Backends : BuildObserves(b)
  <2> PICK b \in Backends : BuildObserves(b)
    BY <1>3
  <2>1. build.at = "observe" /\ build' = [build EXCEPT !.seen = @ \cup {b}]
        /\ proj[b][build.gen] = row[build.gen].seal
    BY DEF BuildObserves, Matches
  <2>2. build'.at = "observe" /\ build'.gen = build.gen /\ build'.seen = build.seen \cup {b}
    BY <1>2, <2>1 DEF BuildRecord
  <2>3. Writing'
    BY <2>2 DEF Writing
  <2>4. BuilderLooks'
    BY <1>1, <1>2, <2>1, <2>2 DEF BuilderLooks
  <2> QED BY <1>1, <2>3, <2>4, QuietStep
<1>4. CASE SaveCheckpoint
  <2>1. build'.at = "write" /\ build'.ids = build.ids /\ build'.todo = build.todo
        /\ build'.half = build.half /\ build'.seen = build.seen
    BY <1>2, <1>4 DEF SaveCheckpoint, BuildRecord
  <2>2. Writing' /\ BuilderLooks'
    BY <1>2, <1>4, <2>1 DEF SaveCheckpoint, Writing, BuilderLooks
  <2> QED BY <1>1, <2>2, QuietStep
<1>5. CASE BuildReadsActive
  <2>1. build'.at = "begin" /\ build'.seen = {} /\ build'.half = None
    BY <1>5 DEF BuildReadsActive, NoBuild
  <2>2. Writing' /\ BuilderLooks'
    BY <2>1 DEF Writing, BuilderLooks
  <2> QED BY <1>1, <2>2, QuietStep
<1>6. CASE JobCompletes \/ DeleteCheckpoint \/ BuilderCrashes
  <2>1. build'.at \in {"idle", "cleanup"}
    BY <1>2, <1>6 DEF JobCompletes, DeleteCheckpoint, BuilderCrashes, NoBuild, BuildRecord
  <2>2. Writing' /\ BuilderLooks'
    BY <2>1 DEF Writing, BuilderLooks
  <2> QED BY <1>1, <2>2, QuietStep
<1> QED BY <1>3, <1>4, <1>5, <1>6

LEMMA BuilderWrites ==
  ASSUME TypeInv, WholeParts, WriteElastic \/ \E c \in Chunks : WriteQdrant(c)
  PROVE  WholeParts'
<1>1. build \in BuildRecord /\ Writing /\ ProjTyped /\ build.gen \in Generations
  BY DEF TypeInv, TypeParts, WholeParts, Busy, WriteElastic, WriteQdrant
<1>2. CASE WriteElastic
  <2>1. build.half \in Chunks /\ build.half \in build.todo
    BY <1>1, <1>2 DEF WriteElastic, BuildRecord, Writing
  <2>2. /\ build'.at \in {"write", "save"} /\ build'.ids = build.ids \cup {build.half}
        /\ build'.todo = build.todo \ {build.half} /\ build'.half = None
        /\ build'.seen = build.seen
    BY <1>1, <1>2 DEF WriteElastic, BuildRecord
  <2>3. Writing'
    BY <1>1, <1>2, <2>1, <2>2 DEF WriteElastic, Writing
  <2>4. \A b \in Backends, g \in Generations : proj[b][g] = Chunks => proj'[b][g] = Chunks
    BY <1>1, <1>2, <2>1 DEF WriteElastic, ProjTyped, Backends
  <2>5. UNCHANGED <<row, rec, roll, lost, missed>>
    BY <1>2 DEF WriteElastic, history
  <2> QED BY <2>2, <2>3, <2>4, <2>5, WritesKeepWhole
<1>3. ASSUME NEW c \in Chunks, WriteQdrant(c) PROVE WholeParts'
  <2>1. /\ build'.at = "write" /\ build'.ids = build.ids /\ build'.todo = build.todo
        /\ build'.half = c /\ build'.seen = build.seen
    BY <1>1, <1>3 DEF WriteQdrant, BuildRecord
  <2>2. Writing'
    BY <1>1, <1>3, <2>1 DEF WriteQdrant, Writing
  <2>3. \A b \in Backends, g \in Generations : proj[b][g] = Chunks => proj'[b][g] = Chunks
    BY <1>1, <1>3 DEF WriteQdrant, ProjTyped, Backends
  <2>4. UNCHANGED <<row, rec, roll, lost, missed>>
    BY <1>3 DEF WriteQdrant, history
  <2> QED BY <2>1, <2>2, <2>3, <2>4, WritesKeepWhole
<1> QED BY <1>2, <1>3

\* A builder's step on its own row that does not verify it.
LEMMA BuilderEdit ==
  ASSUME TypeInv, WholeParts, NEW g \in Generations, NEW x \in Row,
         row' = [row EXCEPT ![g] = x] \/ (row' = row /\ x = row[g]),
         Sound(x), Serving(x) => Serving(row[g]),
         x.reconcileToken \in {None, row[g].reconcileToken},
         row[g].state = "active" => x.state = "active",
         x.retentionToken = Operator => row[g].retentionToken = Operator,
         UNCHANGED <<proj, rec, roll, lost>>, missed' \in {missed, missed \ {Builder}},
         Writing', BuilderLooks'
  PROVE  WholeParts'
<1>1. row' = [row EXCEPT ![g] = x]
  BY DEF TypeInv, TypeParts, RowsTyped
<1>2. /\ RowsSound' /\ ClaimsKept /\ OperatorFramed
      /\ \A h \in Generations : Serving(row'[h]) => Serving(row[h])
  BY <1>1, EditFrame DEF TypeInv, TypeParts, WholeParts
<1>3. \A o : o # Builder => (o \in missed <=> o \in missed')
  OBVIOUS
<1>4. ReconcilersLook'
  BY <1>2, <1>3, ReconcilerFrame, ObserversAssumption DEF WholeParts, ReconcilersLook
<1>5. OperatorLooks' /\ ServingWhole'
  BY <1>2, <1>3, OperatorFrame, ServingFrame, ObserversAssumption DEF WholeParts
<1> QED BY <1>2, <1>4, <1>5 DEF WholeParts

LEMMA BuilderRows ==
  ASSUME TypeInv, WholeParts,
         BuildBegins \/ SealExpected \/ BuildRefused \/ BuildErrs \/ BuildCancelled
  PROVE  WholeParts'
<1> DEFINE g == build.gen
<1>1. build \in BuildRecord /\ g \in Generations /\ row[g] \in Row /\ Sound(row[g])
      /\ Writing
  <2>1. build.at # "idle"
    BY DEF BuildBegins, SealExpected, AllWritten, BuildRefused, Refused, BuildHasSeen,
           BuildErrs, BuildCancelled
  <2> QED BY <2>1 DEF TypeInv, TypeParts, Busy, RowsTyped, WholeParts, RowsSound
<1>2. CASE BuildBegins
  <2> DEFINE x == BegunRow(g)
  <2>1. x \in Row
    BY <1>1, <1>2, BuildRowsTyped DEF BuildBegins, RowsTyped, TypeInv, TypeParts
  <2>2. row' = [row EXCEPT ![g] = x] /\ UNCHANGED <<proj, rec, roll, lost, missed>>
    BY <1>2 DEF BuildBegins, history
  <2>3. /\ Sound(x) /\ (Serving(x) => Serving(row[g]))
        /\ x.reconcileToken \in {None, row[g].reconcileToken}
        /\ row[g].state = "active" => x.state = "active"
        /\ x.retentionToken = Operator => row[g].retentionToken = Operator
    <3>1. CASE row[g].state = "absent"
      <4>1. x = [NoRow EXCEPT !.state = "building", !.expectedActive = build.active]
        BY <3>1 DEF BegunRow
      <4>2. x.state = "building" /\ x.seal = {} /\ x.reconcileToken = None
            /\ x.retentionToken = None
        BY <4>1 DEF NoRow
      <4> HIDE DEF x
      <4> QED BY <3>1, <4>2, ActorsAssumption DEF Sound, Serving
    <3>2. CASE row[g].state = "failed"
      BY <1>1, <3>2 DEF BegunRow, Retried, Sound, Serving, Row
    <3>3. CASE row[g].state \notin {"absent", "failed"}
      BY <1>1, <3>3 DEF BegunRow
    <3> QED BY <3>1, <3>2, <3>3
  <2>4. /\ build'.at = "write" /\ build'.ids = Seeded /\ build'.todo = Chunks \ Seeded
        /\ build'.half = build.half /\ build'.seen = build.seen
    BY <1>1, <1>2 DEF BuildBegins, BuildRecord
  <2>5. Writing' /\ BuilderLooks'
    <3>1. Seeded \subseteq Chunks
      BY DEF Seeded, TypeInv, TypeParts
    <3>2. build.half = None /\ build.seen = {}
      BY <1>1, <1>2 DEF BuildBegins, Writing
    <3> QED BY <2>4, <3>1, <3>2 DEF Writing, BuilderLooks
  <2> HIDE DEF g, x
  <2> QED BY <1>1, <2>1, <2>2, <2>3, <2>5, BuilderEdit
<1>3. CASE SealExpected
  <2> DEFINE x == SealedRow(g)
  <2>1. build.at = "write" /\ build.ids = Chunks /\ build.seen = {}
    BY <1>1, <1>3 DEF SealExpected, AllWritten, Writing
  <2>2. x \in Row /\ Sound(x) /\ (Serving(x) => Serving(row[g]))
        /\ x.reconcileToken = row[g].reconcileToken
        /\ (row[g].state = "active" => x.state = "active")
        /\ x.retentionToken = row[g].retentionToken
        /\ x.state = row[g].state /\ x.expired = row[g].expired
    BY <1>1, <2>1 DEF SealedRow, Row, Sound, Serving
  <2>3. x.seal = Chunks
    BY <1>3, <2>1 DEF SealExpected, SealHolds
  <2>4. row' = [row EXCEPT ![g] = x] /\ UNCHANGED <<proj, rec, roll, lost>>
        /\ missed' = missed \ {Builder}
    BY <1>3 DEF SealExpected
  <2>5. /\ build'.gen = g /\ build'.seen = {} /\ build'.at \in {"observe", "activate"}
        /\ build'.at = "observe" => row[g].state \in {"building", "active"}
    BY <1>1, <1>3, <2>1 DEF SealExpected, BuildRecord
  <2> HIDE DEF g, x
  <2>6. row'[g] = x
    BY <1>1, <2>4 DEF TypeInv, TypeParts, RowsTyped
  <2>7. Writing'
    BY <2>5 DEF Writing
  <2>8. BuilderLooks'
    BY <2>2, <2>3, <2>4, <2>5, <2>6 DEF BuilderLooks, Kept
  <2> QED BY <1>1, <2>2, <2>4, <2>7, <2>8, BuilderEdit
<1>4. CASE BuildRefused \/ BuildErrs \/ BuildCancelled
  <2>1. BuildEnds
    BY <1>4 DEF BuildRefused, BuildErrs, BuildCancelled
  <2>2. UNCHANGED <<proj, rec, roll, lost, missed>> /\ build'.at = "idle"
    BY <2>1 DEF BuildEnds, history, NoBuild
  <2>3. Writing' /\ BuilderLooks'
    BY <2>2 DEF Writing, BuilderLooks
  <2>4. CASE build.state = "building" /\ row[g].state = "building"
    <3> DEFINE x == [row[g] EXCEPT !.state = "failed"]
    <3>1. row' = [row EXCEPT ![g] = x]
      BY <2>1, <2>4 DEF BuildEnds
    <3>2. x \in Row
      BY <1>1, StateEdit
    <3>3. Sound(x) /\ ~Serving(x) /\ x.reconcileToken = row[g].reconcileToken
          /\ x.retentionToken = row[g].retentionToken
      BY <1>1, <2>4 DEF Sound, Serving, Row
    <3> HIDE DEF g, x
    <3> QED BY <1>1, <2>2, <2>3, <2>4, <3>1, <3>2, <3>3, BuilderEdit
  <2>5. CASE ~(build.state = "building" /\ row[g].state = "building")
    <3>1. row' = row
      BY <2>1, <2>5 DEF BuildEnds
    <3> QED BY <2>2, <2>3, <3>1, QuietStep
  <2> QED BY <2>4, <2>5
<1> QED BY <1>2, <1>3, <1>4

-----------------------------------------------------------------------------
(* Verification and succession.                                            *)

\* g has been verified: its loss, if any was on record, may be forgotten.
LEMMA ServingVerified ==
  ASSUME ServingWhole, proj' = proj, NEW g \in Generations, lost \ {g} \subseteq lost',
         \A h \in Generations : h # g /\ Serving(row'[h]) => Serving(row[h]),
         g \notin lost' => \A b \in Backends : proj[b][g] = Chunks
  PROVE  ServingWhole'
  BY DEF ServingWhole

LEMMA VerifiedFrame ==
  ASSUME RowsTyped, RowsSound, NEW g \in Generations, NEW x, row' = [row EXCEPT ![g] = x],
         lost \ {g} \subseteq lost', x.state # "building", x.retentionToken # Operator
  PROVE  /\ OperatorFramed
         /\ (g = build.gen /\ Kept(row[g]) => x.seal = row[g].seal /\ Kept(x)) => BuilderFramed
<1>1. row'[g] = x /\ \A h \in Generations : h # g => row'[h] = row[h]
  BY DEF RowsTyped
<1>2. OperatorFramed
  BY <1>1 DEF OperatorFramed
<1>3. ASSUME g = build.gen /\ Kept(row[g]) => x.seal = row[g].seal /\ Kept(x)
      PROVE  BuilderFramed
  BY <1>1, <1>3 DEF BuilderFramed
<1> QED BY <1>2, <1>3

LEMMA SuccessionFrame ==
  ASSUME RowsTyped, RowsSound, NEW g \in Generations, NEW p \in Row, row' = Succession(g, p),
         Sound(p), p.state = "active", p.reconcileToken \in {None, row[g].reconcileToken},
         p.seal = row[g].seal, lost \ {g} \subseteq lost'
  PROVE  /\ RowsSound' /\ ClaimsKept /\ OperatorFramed /\ BuilderFramed
         /\ \A h \in Generations : h # g /\ Serving(row'[h]) => Serving(row[h])
<1>1. row'[g] = p
  BY DEF Succession
<1>2. \A h \in Generations \ {g} :
        row'[h] = IF row[h].state = "active" THEN Retire(row[h]) ELSE row[h]
  BY DEF Succession
<1>3. ASSUME NEW h \in Generations, row[h].state = "active"
      PROVE  /\ Sound(Retire(row[h])) /\ Retire(row[h]).state = "retired"
             /\ Retire(row[h]).reconcileToken = None /\ Retire(row[h]).retentionToken = None
             /\ ~Retire(row[h]).expired /\ Retire(row[h]).seal = row[h].seal
  BY <1>3 DEF Retire, RowsTyped, Row, RowsSound, Sound
<1>4. p.retentionToken = None
  BY DEF Sound
<1>5. RowsSound'
  <2> SUFFICES ASSUME NEW h \in Generations PROVE Sound(row'[h])
    BY DEF RowsSound, Sound
  <2>1. CASE h = g
    BY <1>1, <2>1
  <2>2. CASE h # g
    BY <1>2, <1>3, <2>2 DEF RowsSound
  <2> QED BY <2>1, <2>2
<1>6. ClaimsKept
  BY <1>1, <1>2, <1>3, ActorsAssumption DEF ClaimsKept
<1>7. OperatorFramed
  BY <1>1, <1>2, <1>3, <1>4, ActorsAssumption DEF OperatorFramed
<1>8. BuilderFramed
  BY <1>1, <1>2, <1>3 DEF BuilderFramed, Kept
<1>9. \A h \in Generations : h # g /\ Serving(row'[h]) => Serving(row[h])
  BY <1>2, <1>3 DEF Serving
<1> QED BY <1>5, <1>6, <1>7, <1>8, <1>9

LEMMA BuilderVerifies ==
  ASSUME TypeInv, WholeParts, MarkReady \/ ConfirmActive
  PROVE  WholeParts'
<1> DEFINE g == build.gen
<1>1. /\ build \in BuildRecord /\ g \in Generations /\ row[g] \in Row /\ Sound(row[g])
      /\ RowsTyped /\ build.at = "observe" /\ build.seen = Backends
      /\ lost \in SUBSET Generations
  BY DEF MarkReady, ConfirmActive, BuildHasSeen, TypeInv, TypeParts, Busy, RowsTyped,
         WholeParts, RowsSound, HistoryTyped
<1>2. UNCHANGED <<proj, rec, roll, missed>> /\ Verified(Builder, g)
  BY DEF MarkReady, ConfirmActive
<1>3. lost \ {g} \subseteq lost'
  BY <1>2 DEF Verified
<1>4. build'.at \in {"activate", "done"}
  BY <1>1 DEF MarkReady, ConfirmActive, BuildRecord
<1>5. Writing' /\ BuilderLooks'
  BY <1>4 DEF Writing, BuilderLooks
<1>6. row[g].seal = Chunks
      /\ (Builder \notin missed => \A b \in Backends : proj[b][g] = Chunks)
      /\ (row[g].state = "building" /\ Builder \in missed => g \in lost)
  BY <1>1 DEF WholeParts, BuilderLooks
<1>7. \E x \in Row : /\ row' = [row EXCEPT ![g] = x] /\ Sound(x)
                     /\ x.state \in {"ready", "active"} /\ x.retentionToken = None
                     /\ x.reconcileToken \in {None, row[g].reconcileToken}
                     /\ row[g].state = "active" => x.state = "active"
  <2>1. CASE MarkReady
    <3> DEFINE x == [row[g] EXCEPT !.state = "ready"]
    <3>1. x \in Row /\ row' = [row EXCEPT ![g] = x]
      BY <1>1, <2>1, StateEdit DEF MarkReady
    <3>2. x.state = "ready" /\ x.reconcileToken = row[g].reconcileToken
          /\ x.retentionToken = row[g].retentionToken /\ x.seal = row[g].seal
          /\ row[g].state = "building"
      BY <1>1, <2>1 DEF MarkReady, Row
    <3> HIDE DEF x, g
    <3> QED BY <1>1, <1>6, <3>1, <3>2 DEF Sound
  <2>2. CASE ConfirmActive
    <3> DEFINE x == [row[g] EXCEPT !.error = FALSE, !.repairs = 0, !.reconcileToken = None]
    <3>1. x \in Row
      BY <1>1, HealthyEdit
    <3>2. row' = [row EXCEPT ![g] = x]
      BY <1>1, <2>2 DEF ConfirmActive, RowsTyped, Row
    <3>3. x.state = "active" /\ x.reconcileToken = None
          /\ x.retentionToken = row[g].retentionToken /\ x.seal = row[g].seal
          /\ row[g].state = "active"
      BY <1>1, <2>2 DEF ConfirmActive, Row
    <3> HIDE DEF x, g
    <3> QED BY <1>1, <1>6, <3>1, <3>2, <3>3 DEF Sound
  <2> QED BY <2>1, <2>2
<1>8. row[g].state \in {"building", "active"}
  BY DEF MarkReady, ConfirmActive
<1>9. ServingWhole /\ RowsSound /\ OperatorLooks /\ ReconcilersLook
  BY DEF WholeParts
<1>10. Serving(row[g]) /\ g \notin lost => \A b \in Backends : proj[b][g] = Chunks
  BY <1>1, <1>9 DEF ServingWhole
<1>11. g \notin lost' => \A b \in Backends : proj[b][g] = Chunks
  BY <1>2, <1>6, <1>8, <1>10 DEF Verified, Serving
<1> HIDE DEF g
<1> PICK x \in Row : /\ row' = [row EXCEPT ![g] = x] /\ Sound(x)
                     /\ x.state \in {"ready", "active"} /\ x.retentionToken = None
                     /\ x.reconcileToken \in {None, row[g].reconcileToken}
                     /\ row[g].state = "active" => x.state = "active"
  BY <1>7
<1>12. RowsSound' /\ ClaimsKept
  BY <1>1, <1>9, EditFrame
<1>13. OperatorFramed
  BY <1>1, <1>3, <1>9, VerifiedFrame, ActorsAssumption
<1>14. ServingWhole'
  BY <1>1, <1>2, <1>3, <1>9, <1>11, ServingVerified DEF RowsTyped
<1>15. ReconcilersLook'
  BY <1>2, <1>9, <1>12, ReconcilerFrame DEF ReconcilersLook
<1>16. OperatorLooks'
  BY <1>2, <1>9, <1>13, OperatorFrame
<1> QED BY <1>5, <1>12, <1>14, <1>15, <1>16 DEF WholeParts

LEMMA BuilderActivates ==
  ASSUME TypeInv, WholeParts, Activate
  PROVE  WholeParts'
<1> DEFINE g == build.gen
           p == [row[g] EXCEPT !.state = "active", !.expired = FALSE]
<1>1. /\ build \in BuildRecord /\ g \in Generations /\ row[g] \in Row /\ Sound(row[g])
      /\ RowsTyped /\ RowsSound /\ row[g].state = "ready"
      /\ ServingWhole /\ OperatorLooks /\ ReconcilersLook
  BY DEF Activate, MayActivate, TypeInv, TypeParts, Busy, RowsTyped, WholeParts, RowsSound
<1>2. /\ row' = Succession(g, p) /\ UNCHANGED <<proj, rec, roll, lost, missed>>
      /\ build'.at = "done"
  BY <1>1 DEF Activate, BuildRecord
<1>3. p \in Row /\ p.state = "active" /\ p.reconcileToken = row[g].reconcileToken
  BY <1>1, PromotedEdit
<1>4. p.seal = row[g].seal /\ p.retentionToken = row[g].retentionToken
  BY <1>1 DEF Row
<1>5. Sound(p)
  BY <1>1, <1>3, <1>4 DEF Sound
<1>6. Writing' /\ BuilderLooks'
  BY <1>2 DEF Writing, BuilderLooks
<1> HIDE DEF g, p
<1>7. /\ RowsSound' /\ ClaimsKept /\ OperatorFramed
      /\ \A h \in Generations : h # g /\ Serving(row'[h]) => Serving(row[h])
  BY <1>1, <1>2, <1>3, <1>4, <1>5, SuccessionFrame
<1>8. g \notin lost' => \A b \in Backends : proj[b][g] = Chunks
  BY <1>1, <1>2 DEF ServingWhole, Serving
<1>9. ServingWhole'
  BY <1>1, <1>2, <1>7, <1>8, ServingVerified
<1>10. ReconcilersLook'
  BY <1>1, <1>2, <1>7, ReconcilerFrame DEF ReconcilersLook
<1>11. OperatorLooks'
  BY <1>1, <1>2, <1>7, OperatorFrame
<1> QED BY <1>6, <1>7, <1>9, <1>10, <1>11 DEF WholeParts

-----------------------------------------------------------------------------
(* The reconcilers.                                                        *)

\* A reconciler's step that edits one row, or none: the other observers keep
\* what they have.
LEMMA ReconcilerEdit ==
  ASSUME TypeInv, WholeParts, NEW r \in Reconcilers, NEW g \in Generations, NEW x,
         row' = [row EXCEPT ![g] = x] \/ (row' = row /\ x = row[g]),
         x.state = row[g].state, x.seal = row[g].seal, x.expired = row[g].expired,
         x.retentionToken = row[g].retentionToken,
         x.reconcileToken \in {None, r, row[g].reconcileToken},
         lost' = lost \/ (row[g].state = "active" /\ lost \ {g} \subseteq lost'),
         lost' \subseteq lost,
         g \in lost \ lost' => \A b \in Backends : proj[b][g] = Chunks,
         missed' \in {missed, missed \ {r}},
         UNCHANGED <<proj, build, roll>>,
         \A q \in Reconcilers \ {r} : rec'[q] = rec[q],
         ReconcilerLooks(r)'
  PROVE  WholeParts'
<1>1. /\ RowsTyped /\ RowsSound /\ ServingWhole /\ OperatorLooks /\ ReconcilersLook
      /\ Writing /\ BuilderLooks /\ Sound(row[g])
  BY DEF TypeInv, TypeParts, WholeParts, RowsSound
<1>2. row' = [row EXCEPT ![g] = x]
  BY <1>1 DEF RowsTyped
<1>3. row'[g] = x /\ \A h \in Generations : h # g => row'[h] = row[h]
  BY <1>1, <1>2 DEF RowsTyped
<1>4. Sound(x)
  BY <1>1 DEF Sound
<1>5. RowsSound'
  BY <1>1, <1>2, <1>4, EditFrame
<1>6. \A h \in Generations : Serving(row'[h]) <=> Serving(row[h])
  BY <1>3 DEF Serving
<1>7. ServingWhole'
  BY <1>1, <1>6 DEF ServingWhole, Serving
<1>8. row[g].state = "active" => row[g].retentionToken = None
  BY <1>1 DEF Sound
<1>9. OperatorFramed
  BY <1>3, <1>8, ActorsAssumption DEF OperatorFramed
<1>10. BuilderFramed
  BY <1>3 DEF BuilderFramed, Kept
<1>11. Operator # r /\ Builder # r
  BY ObserversAssumption
<1>12. OperatorLooks'
  BY <1>1, <1>9, <1>11, OperatorFrame
<1>13. BuilderLooks' /\ Writing'
  BY <1>1, <1>10, <1>11, BuilderFrame, WritingFrame
<1>14. ASSUME NEW q \in Reconcilers \ {r} PROVE ReconcilerLooks(q)'
  <2>1. rec'[q] = rec[q] /\ ReconcilerLooks(q) /\ (q \in missed => q \in missed')
        /\ (rec[q].at # "idle" => rec[q].gen \in Generations)
    BY <1>1 DEF ReconcilersLook, TypeInv, Busy
  <2>2. \A h \in Generations : row'[h].reconcileToken = q =>
          row[h].reconcileToken = q /\ row'[h].state = row[h].state
    BY <1>3, ActorsAssumption
  <2> QED BY <2>1, <2>2 DEF ReconcilerLooks
<1> QED BY <1>5, <1>7, <1>12, <1>13, <1>14 DEF WholeParts, ReconcilersLook

LEMMA ReconcilerWhole ==
  ASSUME TypeInv, WholeParts, NEW r \in Reconcilers,
         ActivePass(r) \/ FailedPass(r) \/ ReconcilerSteps(r) \/ ReconcilerCrashes(r)
  PROVE  WholeParts'
<1>0. /\ RowsTyped /\ (\A h \in Generations : row[h] \in Row) /\ rec \in [Reconcilers -> RecRecord]
      /\ RowsSound /\ ReconcilerLooks(r) /\ ServingWhole
  BY DEF TypeInv, TypeParts, RowsTyped, WholeParts, ReconcilersLook
<1>1. ASSUME NEW g \in Generations, ClaimReconciliation(r, g) \/ ClaimFailedRepairs(r, g)
      PROVE  WholeParts'
  <2> DEFINE x == [row[g] EXCEPT !.reconcileToken = r]
  <2>1. row' = [row EXCEPT ![g] = x] /\ UNCHANGED <<proj, build, roll, lost>>
        /\ missed' \in {missed, missed \ {r}}
    BY <1>1 DEF ClaimReconciliation, ClaimFailedRepairs, Starts, history
  <2>2. x.state = row[g].state /\ x.seal = row[g].seal /\ x.expired = row[g].expired
        /\ x.retentionToken = row[g].retentionToken /\ x.reconcileToken = r
    BY <1>0 DEF Row
  <2>3. /\ rec'[r].seen = {} /\ rec'[r].gen = g /\ \A q \in Reconcilers \ {r} : rec'[q] = rec[q]
        /\ rec'[r].at = "observe" => row[g].state = "active"
    <3>1. CASE ClaimReconciliation(r, g)
      BY <1>0, <3>1 DEF ClaimReconciliation, Resting
    <3>2. CASE ClaimFailedRepairs(r, g)
      BY <1>0, <3>2 DEF ClaimFailedRepairs, Resting
    <3> QED BY <1>1, <3>1, <3>2
  <2> HIDE DEF x
  <2>4. ReconcilerLooks(r)'
    BY <1>0, <2>1, <2>2, <2>3 DEF ReconcilerLooks, RowsTyped
  <2>5. x.reconcileToken \in {None, r, row[g].reconcileToken} /\ lost' = lost
        /\ lost' \subseteq lost /\ ~(g \in lost \ lost')
    BY <2>1, <2>2
  <2>6. UNCHANGED <<proj, build, roll>> /\ \A q \in Reconcilers \ {r} : rec'[q] = rec[q]
    BY <2>1, <2>3
  <2> QED BY <2>1, <2>2, <2>4, <2>5, <2>6, ReconcilerEdit
<1> DEFINE g == rec[r].gen
<1>2. rec[r].at # "idle" => g \in Generations
  BY DEF TypeInv, Busy
<1>3. ASSUME NEW b \in Backends, ReconcilerObserves(r, b) PROVE WholeParts'
  <2>1. UNCHANGED <<row, proj, build, roll, lost, missed>> /\ g \in Generations
        /\ rec[r].at = "observe"
    BY <1>2, <1>3 DEF ReconcilerObserves, history
  <2>2. /\ rec'[r].at = "observe" /\ rec'[r].gen = g /\ rec'[r].seen = rec[r].seen \cup {b}
        /\ rec'[r].whole => rec[r].whole /\ Matches(b, g)
        /\ \A q \in Reconcilers \ {r} : rec'[q] = rec[q]
    BY <1>0, <1>3 DEF ReconcilerObserves, RecRecord
  <2>3. row[g].state = "active" => row[g].seal = Chunks
    BY <1>0, <2>1 DEF RowsSound, Sound
  <2>4. ReconcilerLooks(r)'
    BY <1>0, <2>1, <2>2, <2>3 DEF ReconcilerLooks, Matches
  <2> HIDE DEF g
  <2> QED BY <2>1, <2>2, <2>4, ReconcilerEdit
<1>4. ASSUME Rests(r)
      PROVE  ReconcilerLooks(r)' /\ \A q \in Reconcilers \ {r} : rec'[q] = rec[q]
  <2>1. rec'[r].at = "idle" /\ \A q \in Reconcilers \ {r} : rec'[q] = rec[q]
    BY <1>0, <1>4 DEF Rests, Resting
  <2> QED BY <2>1 DEF ReconcilerLooks
<1>5. CASE FinishHealthy(r)
  <2> DEFINE x == [row[g] EXCEPT !.error = FALSE, !.repairs = 0, !.reconcileToken = None]
  <2>1. /\ g \in Generations /\ row[g] \in Row /\ row[g].state = "active"
        /\ row[g].reconcileToken = r /\ rec[r].at = "observe" /\ rec[r].seen = Backends
        /\ rec[r].whole
    BY <1>0, <1>2, <1>5 DEF FinishHealthy, ReconcilerHasSeen, OwnsActive, HoldsReconciliation
  <2>2. row' = [row EXCEPT ![g] = x]
    BY <1>0, <1>5, <2>1 DEF FinishHealthy, RowsTyped, Row
  <2>3. x.state = row[g].state /\ x.seal = row[g].seal /\ x.expired = row[g].expired
        /\ x.retentionToken = row[g].retentionToken /\ x.reconcileToken = None
    BY <2>1 DEF Row
  <2>4. Rests(r) /\ Verified(r, g) /\ UNCHANGED <<proj, build, roll, missed>>
    BY <1>5 DEF FinishHealthy
  <2>5. r \notin missed => \A b \in Backends : proj[b][g] = Chunks
    BY <1>0, <2>1 DEF ReconcilerLooks
  <2> HIDE DEF g, x
  <2>6. /\ lost \ {g} \subseteq lost' /\ lost' \subseteq lost
        /\ g \in lost \ lost' => \A b \in Backends : proj[b][g] = Chunks
    BY <2>4, <2>5 DEF Verified
  <2> QED BY <1>4, <2>1, <2>2, <2>3, <2>4, <2>6, ReconcilerEdit
<1>6. ASSUME NEW pending \in BOOLEAN, RecordDivergence(r, pending)
      PROVE  WholeParts'
  <2> DEFINE x == DivergedRow(g, pending)
  <2>1. g \in Generations /\ row[g] \in Row
    BY <1>0, <1>2, <1>6 DEF RecordDivergence, ReconcilerHasSeen
  <2>2. row' = [row EXCEPT ![g] = x] /\ Rests(r)
        /\ UNCHANGED <<proj, build, roll, missed, lost>>
    BY <1>6 DEF RecordDivergence
  <2>3. x.state = row[g].state /\ x.seal = row[g].seal /\ x.expired = row[g].expired
        /\ x.retentionToken = row[g].retentionToken /\ x.reconcileToken = None
    BY <2>1 DEF DivergedRow, Row
  <2> HIDE DEF g, x
  <2> QED BY <1>4, <2>1, <2>2, <2>3, ReconcilerEdit
<1>7. CASE ScheduleFailedRepair(r)
  <2> DEFINE x == [row[g] EXCEPT !.reconcileToken = None, !.repairs = Charged(@)]
  <2>1. g \in Generations /\ row[g] \in Row
    BY <1>0, <1>2, <1>7 DEF ScheduleFailedRepair
  <2>2. row' = [row EXCEPT ![g] = x]
    BY <1>0, <1>7, <2>1 DEF ScheduleFailedRepair, RowsTyped, Row
  <2>3. x.state = row[g].state /\ x.seal = row[g].seal /\ x.expired = row[g].expired
        /\ x.retentionToken = row[g].retentionToken /\ x.reconcileToken = None
    BY <2>1 DEF Row
  <2>4. Rests(r) /\ UNCHANGED <<proj, build, roll, missed, lost>>
    BY <1>7 DEF ScheduleFailedRepair, history
  <2> HIDE DEF g, x
  <2> QED BY <1>4, <2>1, <2>2, <2>3, <2>4, ReconcilerEdit
<1>8. CASE ReconcilerConflicts(r) \/ ReconcilerCrashes(r)
  <2>1. g \in Generations
    BY <1>2, <1>8 DEF ReconcilerConflicts, ReconcilerCrashes, ReconcilerHasSeen
  <2>2. Rests(r) /\ UNCHANGED <<row, proj, build, roll, missed, lost>>
    BY <1>8 DEF ReconcilerConflicts, ReconcilerCrashes, history
  <2> HIDE DEF g
  <2> QED BY <1>4, <2>1, <2>2, ReconcilerEdit
<1> QED BY <1>1, <1>3, <1>5, <1>6, <1>7, <1>8
        DEF ActivePass, FailedPass, ReconcilerSteps, FinishDiverged

-----------------------------------------------------------------------------
(* The operator, the collectors and the surroundings.                      *)

LEMMA OperatorWhole ==
  ASSUME TypeInv, WholeParts, RollbackSteps \/ \E g \in Generations : RollbackTarget(g)
  PROVE  WholeParts'
<1>0. /\ RowsTyped /\ (\A h \in Generations : row[h] \in Row /\ Sound(row[h]))
      /\ roll \in RollRecord /\ RowsSound /\ ServingWhole /\ OperatorLooks
      /\ ReconcilersLook /\ Writing /\ BuilderLooks
      /\ (roll.at # "idle" => roll.gen \in Generations)
  BY DEF TypeInv, TypeParts, RowsTyped, WholeParts, RowsSound, Busy
<1>1. ASSUME NEW g \in Generations, RollbackTarget(g) PROVE WholeParts'
  <2> DEFINE x == [row[g] EXCEPT !.retentionToken = Operator]
  <2>1. /\ row' = [row EXCEPT ![g] = x] /\ row[g].state = "retired"
        /\ UNCHANGED <<proj, build, rec, lost>> /\ missed' = missed \ {Operator}
        /\ roll'.gen = g /\ roll'.seen = {}
    BY <1>1 DEF RollbackTarget, Starts
  <2>2. x.state = row[g].state /\ x.seal = row[g].seal /\ x.expired = row[g].expired
        /\ x.reconcileToken = row[g].reconcileToken
    BY <1>0 DEF Row
  <2>3. Sound(x)
    BY <1>0, <2>1, <2>2 DEF Sound
  <2> HIDE DEF x
  <2>4. /\ RowsSound' /\ ClaimsKept
        /\ \A h \in Generations : Serving(row'[h]) => Serving(row[h])
    BY <1>0, <2>1, <2>2, <2>3, EditFrame DEF Serving
  <2>5. BuilderFramed
    <3>1. Kept(row[g]) => Kept(x)
      BY <2>2 DEF Kept
    <3>2. lost \subseteq lost' /\ x.state # "building"
      BY <2>1, <2>2
    <3> QED BY <1>0, <2>1, <2>2, <3>1, <3>2, EditFrame
  <2>6. OperatorLooks'
    BY <2>1 DEF OperatorLooks
  <2>7. \A o : o # Operator => (o \in missed <=> o \in missed')
    BY <2>1
  <2>8. ReconcilersLook'
    BY <1>0, <2>1, <2>4, <2>7, ReconcilerFrame, ObserversAssumption DEF ReconcilersLook
  <2>9. BuilderLooks' /\ Writing'
    BY <1>0, <2>1, <2>5, <2>7, BuilderFrame, WritingFrame, ObserversAssumption
  <2>10. ServingWhole'
    BY <1>0, <2>1, <2>4, ServingFrame
  <2> QED BY <2>4, <2>6, <2>8, <2>9, <2>10 DEF WholeParts
<1>2. ASSUME UNCHANGED <<row, proj, build, rec, lost, missed>>, OperatorLooks'
      PROVE  WholeParts'
  <2>1. /\ RowsSound' /\ ClaimsKept /\ BuilderFramed
        /\ \A g \in Generations : Serving(row'[g]) => Serving(row[g])
    BY <1>0, <1>2, RowsStay
  <2>2. ReconcilersLook'
    BY <1>0, <1>2, <2>1, ReconcilerFrame DEF ReconcilersLook
  <2>3. BuilderLooks' /\ Writing' /\ ServingWhole'
    BY <1>0, <1>2, <2>1, BuilderFrame, WritingFrame, ServingFrame
  <2> QED BY <1>2, <2>1, <2>2, <2>3 DEF WholeParts
<1>3. ASSUME NEW b \in Backends, RollbackObserves(b) PROVE WholeParts'
  <2>1. UNCHANGED <<row, proj, build, rec, lost, missed>>
    BY <1>3 DEF RollbackObserves, history
  <2>2. roll.at = "observe" /\ roll'.at = "observe" /\ roll'.gen = roll.gen
        /\ roll'.seen = roll.seen \cup {b} /\ Matches(b, roll.gen)
    BY <1>0, <1>3 DEF RollbackObserves, RollRecord
  <2>3. row[roll.gen].retentionToken = Operator => row[roll.gen].seal = Chunks
    BY <1>0, <2>2, ActorsAssumption DEF Sound
  <2>4. OperatorLooks'
    BY <1>0, <2>1, <2>2, <2>3 DEF OperatorLooks, Matches
  <2> QED BY <1>2, <2>1, <2>4
<1>4. CASE RollbackFails
  <2>1. UNCHANGED <<row, proj, build, rec, lost, missed>> /\ roll'.at = "idle"
    BY <1>4 DEF RollbackFails, history, NoRequest
  <2>2. OperatorLooks'
    BY <2>1 DEF OperatorLooks
  <2> QED BY <1>2, <2>1, <2>2
<1>5. CASE Rollback
  <2> DEFINE g == roll.gen
             p == [row[g] EXCEPT !.state = "active", !.expired = FALSE, !.error = FALSE,
                     !.repairs = 0, !.reconcileToken = None, !.retentionToken = None]
  <2>1. /\ g \in Generations /\ roll.at = "observe" /\ roll.seen = Backends
        /\ row[g].state = "retired" /\ row[g].retentionToken = Operator
    BY <1>0, <1>5 DEF Rollback, MayRollBack, StillProtected
  <2>2. row' = Succession(g, p) /\ Verified(Operator, g) /\ roll'.at = "idle"
        /\ UNCHANGED <<proj, build, rec, missed>>
    BY <1>5 DEF Rollback, NoRequest
  <2>3. p \in Row /\ p.state = "active" /\ p.reconcileToken = None
    BY <1>0, <2>1, RestoredEdit
  <2>4. p.seal = row[g].seal /\ p.retentionToken = None
    BY <1>0, <2>1 DEF Row
  <2>5. Sound(p)
    <3>1. row[g].seal = Chunks
      BY <1>0, <2>1 DEF Sound
    <3> HIDE DEF p, g
    <3> QED BY <2>3, <2>4, <3>1 DEF Sound
  <2>6. lost \ {g} \subseteq lost'
        /\ (g \notin lost' => \A b \in Backends : proj[b][g] = Chunks)
    BY <1>0, <2>1, <2>2 DEF Verified, OperatorLooks
  <2> HIDE DEF g, p
  <2>7. /\ RowsSound' /\ ClaimsKept /\ BuilderFramed
        /\ \A h \in Generations : h # g /\ Serving(row'[h]) => Serving(row[h])
    BY <1>0, <2>1, <2>2, <2>3, <2>4, <2>5, <2>6, SuccessionFrame
  <2>8. ServingWhole'
    BY <1>0, <2>1, <2>2, <2>6, <2>7, ServingVerified
  <2>9. ReconcilersLook'
    BY <1>0, <2>2, <2>7, ReconcilerFrame DEF ReconcilersLook
  <2>10. BuilderLooks' /\ Writing'
    BY <1>0, <2>2, <2>7, BuilderFrame, WritingFrame
  <2>11. OperatorLooks'
    BY <2>2 DEF OperatorLooks
  <2> QED BY <2>7, <2>8, <2>9, <2>10, <2>11 DEF WholeParts
<1> QED BY <1>1, <1>3, <1>4, <1>5 DEF RollbackSteps

\* A retired row past its window is nobody's evidence, so a collector may
\* lease it or remove it.
LEMMA ExpiredEdit ==
  ASSUME TypeInv, WholeParts, NEW g \in Generations, NEW x,
         row' = [row EXCEPT ![g] = x] \/ (row' = row /\ x = row[g]),
         row[g].state = "retired", row[g].expired \/ g # build.gen,
         Sound(x), ~Serving(x), x.reconcileToken \in {None, row[g].reconcileToken},
         x.retentionToken = Operator => row[g].retentionToken = Operator,
         UNCHANGED <<proj, build, rec, roll, lost, missed>>
  PROVE  WholeParts'
<1>1. /\ RowsTyped /\ RowsSound /\ ServingWhole /\ OperatorLooks
      /\ ReconcilersLook /\ Writing /\ BuilderLooks
  BY DEF TypeInv, TypeParts, WholeParts
<1>2. row' = [row EXCEPT ![g] = x]
  BY <1>1 DEF RowsTyped
<1>3. /\ RowsSound' /\ ClaimsKept /\ OperatorFramed /\ BuilderFramed
      /\ \A h \in Generations : Serving(row'[h]) => Serving(row[h])
  BY <1>1, <1>2, EditFrame DEF Kept
<1>4. ReconcilersLook'
  BY <1>1, <1>3, ReconcilerFrame DEF ReconcilersLook
<1>5. OperatorLooks' /\ BuilderLooks' /\ Writing' /\ ServingWhole'
  BY <1>1, <1>3, OperatorFrame, BuilderFrame, WritingFrame, ServingFrame
<1> QED BY <1>3, <1>4, <1>5 DEF WholeParts

LEMMA CollectorWhole ==
  ASSUME SafeInv, WholeParts, NEW c \in Collectors, CollectorSteps(c) \/ CollectorCrashes(c)
  PROVE  WholeParts'
<1>0. /\ TypeInv /\ LeaseHeld /\ RowsTyped /\ ProjTyped
      /\ (\A h \in Generations : row[h] \in Row /\ Sound(row[h]))
      /\ RowsSound /\ ServingWhole /\ OperatorLooks /\ ReconcilersLook /\ Writing /\ BuilderLooks
  BY DEF SafeInv, TypeInv, TypeParts, RowsTyped, WholeParts, RowsSound
<1> DEFINE g == col[c].gen
<1>1. col[c].at = "delete" => /\ g \in Generations /\ row[g].state = "retired"
                              /\ row[g].expired /\ row[g].retentionToken = c
  BY <1>0 DEF LeaseHeld, TypeInv, Busy
<1>2. ASSUME NEW h \in Generations, ClaimRetention(c, h) PROVE WholeParts'
  <2> DEFINE x == [row[h] EXCEPT !.retentionToken = c]
  <2>1. /\ row' = [row EXCEPT ![h] = x] /\ row[h].state = "retired" /\ row[h].expired
        /\ UNCHANGED <<proj, build, rec, roll, lost, missed>>
    BY <1>2 DEF ClaimRetention, history
  <2>2. x.state = row[h].state /\ x.seal = row[h].seal
        /\ x.reconcileToken = row[h].reconcileToken /\ x.retentionToken = c
    BY <1>0 DEF Row
  <2>3. Sound(x) /\ ~Serving(x)
    BY <1>0, <2>1, <2>2 DEF Sound, Serving
  <2> HIDE DEF x
  <2> QED BY <1>0, <2>1, <2>2, <2>3, ExpiredEdit, ActorsAssumption
<1>3. CASE FinishRetention(c)
  <2> DEFINE x == RetainedRow(c, g)
  <2>1. col[c].at = "delete" /\ UNCHANGED <<proj, build, rec, roll, lost, missed>>
        /\ row' = [row EXCEPT ![g] = x]
    BY <1>1, <1>3 DEF FinishRetention, HoldsRetention
  <2>2. CASE col[c].deleted = Backends
    <3>1. x = NoRow
      BY <2>2 DEF RetainedRow
    <3>2. Sound(x) /\ ~Serving(x) /\ x.reconcileToken = None /\ x.retentionToken = None
      BY <3>1 DEF NoRow, Sound, Serving
    <3> HIDE DEF x, g
    <3> QED BY <1>0, <1>1, <2>1, <3>2, ExpiredEdit, ActorsAssumption
  <2>3. CASE col[c].deleted # Backends
    <3>1. x.state = "retired" /\ x.seal = row[g].seal /\ x.retentionToken = None
          /\ x.reconcileToken = row[g].reconcileToken
      BY <1>0, <1>1, <2>1, <2>3 DEF RetainedRow, Row
    <3>2. Sound(x) /\ ~Serving(x)
      BY <1>0, <1>1, <2>1, <3>1 DEF Sound, Serving
    <3> HIDE DEF x, g
    <3> QED BY <1>0, <1>1, <2>1, <3>1, <3>2, ExpiredEdit, ActorsAssumption
  <2> QED BY <2>2, <2>3
<1>4. CASE CollectorCrashes(c)
  <2>1. UNCHANGED <<row, proj, build, rec, roll, lost, missed>>
    BY <1>4 DEF CollectorCrashes, history
  <2>2. Writing' /\ BuilderLooks'
    BY <1>0, <2>1 DEF Writing, BuilderLooks
  <2> QED BY <1>0, <2>1, <2>2, QuietStep
<1>5. ASSUME NEW b \in Backends, DeleteGeneration(c, b) PROVE WholeParts'
  <2>1. UNCHANGED <<row, build, rec, roll, lost, missed>> /\ col[c].at = "delete"
        /\ (proj' = proj \/ proj' = [proj EXCEPT ![b][g] = {}])
    BY <1>5 DEF DeleteGeneration, history
  <2>2. \A d \in Backends, h \in Generations : h # g => proj'[d][h] = proj[d][h]
    BY <1>0, <2>1 DEF ProjTyped
  <2>3. row[g].state = "retired" /\ row[g].expired /\ row[g].retentionToken # Operator
    BY <1>1, <2>1, ActorsAssumption
  <2> HIDE DEF g
  <2>4. RowsSound' /\ Writing'
    BY <1>0, <2>1 DEF RowsSound, Sound, Writing
  <2>5. ServingWhole'
    BY <1>0, <2>1, <2>2, <2>3 DEF ServingWhole, Serving
  <2>6. BuilderLooks'
    <3>1. build.at = "observe" =>
            build.gen \in Generations \ {g} /\ build.seen \subseteq Backends
      BY <1>0, <2>3 DEF TypeInv, TypeParts, Busy, BuildRecord, BuilderLooks, Kept
    <3> QED BY <1>0, <2>1, <2>2, <3>1 DEF BuilderLooks
  <2>7. ASSUME NEW r \in Reconcilers PROVE ReconcilerLooks(r)'
    <3>1. rec[r].at = "observe" /\ row[rec[r].gen].reconcileToken = r =>
            rec[r].gen \in Generations \ {g} /\ rec[r].seen \subseteq Backends
      BY <1>0, <2>3 DEF TypeInv, TypeParts, Busy, RecRecord, ReconcilersLook, ReconcilerLooks
    <3> QED BY <1>0, <2>1, <2>2, <3>1 DEF ReconcilersLook, ReconcilerLooks
  <2>8. OperatorLooks'
    <3>1. roll.at = "observe" /\ row[roll.gen].retentionToken = Operator =>
            roll.gen \in Generations \ {g} /\ roll.seen \subseteq Backends
      BY <1>0, <2>3 DEF TypeInv, TypeParts, Busy, RollRecord
    <3> QED BY <1>0, <2>1, <2>2, <3>1 DEF OperatorLooks
  <2> QED BY <2>4, <2>5, <2>6, <2>7, <2>8 DEF WholeParts, ReconcilersLook
<1> QED BY <1>2, <1>3, <1>4, <1>5 DEF CollectorSteps

LEMMA SurroundingsWhole ==
  ASSUME TypeInv, WholeParts,
         \/ CancelJob
         \/ \E g \in Generations : Deploy(g) \/ WindowPasses(g)
         \/ \E b \in Backends, g \in Generations, c \in Chunks : LosesChunk(b, g, c)
  PROVE  WholeParts'
<1>0. /\ RowsTyped /\ ProjTyped /\ HistoryTyped
      /\ (\A h \in Generations : row[h] \in Row /\ Sound(row[h]))
      /\ RowsSound /\ ServingWhole /\ OperatorLooks /\ ReconcilersLook /\ Writing /\ BuilderLooks
  BY DEF TypeInv, TypeParts, RowsTyped, WholeParts, RowsSound
<1>1. CASE CancelJob \/ \E g \in Generations : Deploy(g)
  <2>1. UNCHANGED <<row, proj, build, rec, roll, lost, missed>>
    BY <1>1 DEF CancelJob, Deploy, history
  <2>2. Writing' /\ BuilderLooks'
    BY <1>0, <2>1 DEF Writing, BuilderLooks
  <2> QED BY <2>1, <2>2, QuietStep
<1>2. ASSUME NEW g \in Generations, WindowPasses(g) PROVE WholeParts'
  <2> DEFINE x == [row[g] EXCEPT !.expired = TRUE]
  <2>1. /\ row' = [row EXCEPT ![g] = x] /\ row[g].state = "retired" /\ g # build.gen
        /\ UNCHANGED <<proj, build, rec, roll, lost, missed>>
    BY <1>2 DEF WindowPasses, history
  <2>2. x.state = row[g].state /\ x.seal = row[g].seal
        /\ x.reconcileToken = row[g].reconcileToken
        /\ x.retentionToken = row[g].retentionToken
    BY <1>0 DEF Row
  <2>3. Sound(x) /\ ~Serving(x)
    BY <1>0, <2>1, <2>2 DEF Sound, Serving
  <2> HIDE DEF x
  <2> QED BY <2>1, <2>2, <2>3, ExpiredEdit
<1>3. ASSUME NEW b \in Backends, NEW g \in Generations, NEW c \in Chunks, LosesChunk(b, g, c)
      PROVE  WholeParts'
  <2>1. /\ UNCHANGED <<row, build, rec, roll>> /\ lost' = lost \cup {g}
        /\ missed' = missed \cup {r \in Reconcilers : rec[r].gen = g /\ b \in rec[r].seen}
             \cup {o \in {Builder} : build.gen = g /\ b \in build.seen}
             \cup {o \in {Operator} : roll.gen = g /\ b \in roll.seen}
    BY <1>3 DEF LosesChunk
  <2>2. \A d \in Backends, h \in Generations : d # b \/ h # g => proj'[d][h] = proj[d][h]
    BY <1>0, <1>3 DEF LosesChunk, ProjTyped
  <2>3. RowsSound' /\ Writing'
    BY <1>0, <2>1 DEF RowsSound, Sound, Writing
  <2>4. ServingWhole'
    BY <1>0, <2>1, <2>2 DEF ServingWhole, Serving
  <2>5. BuilderLooks'
    <3>1. build.at = "observe" => build.gen \in Generations /\ build.seen \subseteq Backends
      BY DEF TypeInv, TypeParts, Busy, BuildRecord
    <3>2. /\ Builder \in missed' => Builder \in missed \/ build.gen = g
          /\ Builder \notin missed' => Builder \notin missed /\ ~(build.gen = g /\ b \in build.seen)
      BY <2>1, ObserversAssumption
    <3> QED BY <1>0, <2>1, <2>2, <3>1, <3>2 DEF BuilderLooks
  <2>6. ASSUME NEW r \in Reconcilers PROVE ReconcilerLooks(r)'
    <3>1. rec[r].at = "observe" => rec[r].gen \in Generations /\ rec[r].seen \subseteq Backends
      BY DEF TypeInv, TypeParts, Busy, RecRecord
    <3>2. r \notin missed' => r \notin missed /\ ~(rec[r].gen = g /\ b \in rec[r].seen)
      BY <2>1
    <3> QED BY <1>0, <2>1, <2>2, <3>1, <3>2 DEF ReconcilersLook, ReconcilerLooks
  <2>7. OperatorLooks'
    <3>1. roll.at = "observe" => roll.gen \in Generations /\ roll.seen \subseteq Backends
      BY DEF TypeInv, TypeParts, Busy, RollRecord
    <3>2. /\ Operator \in missed' => Operator \in missed \/ roll.gen = g
          /\ Operator \notin missed' => Operator \notin missed /\ ~(roll.gen = g /\ b \in roll.seen)
      BY <2>1, ObserversAssumption
    <3> QED BY <1>0, <2>1, <2>2, <3>1, <3>2 DEF OperatorLooks
  <2> QED BY <2>3, <2>4, <2>5, <2>6, <2>7 DEF WholeParts, ReconcilersLook
<1> QED BY <1>1, <1>2, <1>3

-----------------------------------------------------------------------------
(* The theorem.                                                            *)

LEMMA WholeInvInductive ==
  ASSUME WholeInv, [Next]_vars
  PROVE  WholeInv'
<1>1. SafeInv' /\ TypeInv /\ SafeInv /\ WholeParts
  BY SafeInvInductive DEF WholeInv, SafeInv
<1>2. CASE UNCHANGED vars
  <2>1. UNCHANGED <<row, proj, build, rec, roll, lost, missed>>
    BY <1>2 DEF vars
  <2>2. Writing' /\ BuilderLooks'
    BY <1>1, <2>1 DEF WholeParts, Writing, BuilderLooks
  <2> QED BY <1>1, <2>1, <2>2, QuietStep DEF WholeInv
<1>3. CASE Next
  <2>1. WholeParts'
    BY <1>1, <1>3, NextCases, BuilderQuiet, BuilderWrites, BuilderRows, BuilderVerifies,
       BuilderActivates, ReconcilerWhole, OperatorWhole, CollectorWhole, SurroundingsWhole
  <2> QED BY <1>1, <2>1 DEF WholeInv
<1> QED BY <1>2, <1>3

LEMMA WholeInitial == Init => WholeParts
<1> SUFFICES ASSUME Init PROVE WholeParts
  OBVIOUS
<1>1. /\ \A g \in Generations : row[g] = NoRow
      /\ build = NoBuild /\ roll = NoRequest /\ \A r \in Reconcilers : rec[r] = Resting
  BY DEF Init
<1>2. RowsSound /\ ServingWhole
  BY <1>1 DEF RowsSound, Sound, ServingWhole, Serving, NoRow
<1>3. Writing /\ BuilderLooks
  BY <1>1 DEF Writing, BuilderLooks, NoBuild
<1>4. ReconcilersLook /\ OperatorLooks
  BY <1>1 DEF ReconcilersLook, ReconcilerLooks, OperatorLooks, Resting, NoRequest
<1> QED BY <1>2, <1>3, <1>4 DEF WholeParts

LEMMA WholeInvHolds == Spec => []WholeInv
<1>1. Init => WholeParts
  BY WholeInitial
<1>2. SafeInv /\ WholeParts <=> WholeInv
  BY DEF WholeInv
<1>3. WholeInv /\ [Next]_vars => WholeInv'
  BY WholeInvInductive
<1> QED BY <1>1, <1>2, <1>3, SafeInvHolds, PTL DEF Spec

\* A generation queries can see (ResolveVisibility) is complete and exact in
\* both projections, unless a backend lost a chunk that no pass has had the
\* chance to notice: whichever path made it visible or cleared its error.
THEOREM VisibleIsWholeAlways == Spec => []VisibleIsWhole
<1>1. WholeInv => VisibleIsWhole
  BY DEF WholeInv, WholeParts, RowsSound, Sound, ServingWhole, Serving, VisibleIsWhole,
         Visible, Matches
<1> QED BY <1>1, WholeInvHolds, PTL
-----------------------------------------------------------------------------
(***************************************************************************)
(* A recorded divergence is cleared on fresh evidence only:                *)
(* ReconcilersClearOnFreshEvidence.                                        *)
(*                                                                         *)
(* Nothing in FinishHealthy asks how old its observations are.  What makes *)
(* them fresh is the claim: recording a divergence gives up the claim on   *)
(* the row, so whoever was looking at that generation by then has lost its *)
(* own, and a new claim begins with new observations.                      *)
(***************************************************************************)

\* A reconciler whose claim is good began to look after the last divergence.
FreshLooks ==
  \A r \in Reconcilers :
    rec[r].at = "observe" /\ row[rec[r].gen].reconcileToken = r => r \notin outdated

\* No row is claimed afresh, and no error on a row in service disappears.
NotClaimed == \A g \in Generations : row'[g].reconcileToken \in {None, row[g].reconcileToken}
ErrorsStand == \A g \in Generations : ~Clears(g)

LEMMA FreshFrame ==
  ASSUME TypeInv, FreshLooks, NotClaimed, NEW r \in Reconcilers, rec'[r] = rec[r],
         r \in outdated' => r \in outdated
  PROVE  (rec[r].at = "observe" /\ row[rec[r].gen].reconcileToken = r => r \notin outdated)'
  BY ActorsAssumption DEF TypeInv, Busy, FreshLooks, NotClaimed

LEMMA FreshFrames ==
  ASSUME TypeInv, FreshLooks, NotClaimed, rec' = rec, outdated' \subseteq outdated
  PROVE  FreshLooks'
  BY FreshFrame DEF FreshLooks

\* One row is replaced.
LEMMA FreshEdit ==
  ASSUME RowsTyped, NEW g \in Generations, NEW x, row' = [row EXCEPT ![g] = x]
  PROVE  /\ x.reconcileToken \in {None, row[g].reconcileToken} => NotClaimed
         /\ (row[g].state = "active" /\ row[g].error /\ x.state = "active" => x.error)
              => ErrorsStand
<1>1. row'[g] = x /\ \A h \in Generations : h # g => row'[h] = row[h]
  BY DEF RowsTyped
<1> QED BY <1>1 DEF NotClaimed, ErrorsStand, Clears

LEMMA FreshSame == row' = row => NotClaimed /\ ErrorsStand
  BY DEF NotClaimed, ErrorsStand, Clears

\* The builder claims nothing, and whenever it changes a row it moves on.
LEMMA BuilderFresh ==
  ASSUME TypeInv,
         \/ BuildReadsActive \/ WriteElastic \/ SaveCheckpoint
         \/ (\E c \in Chunks : WriteQdrant(c)) \/ (\E b \in Backends : BuildObserves(b))
         \/ JobCompletes \/ DeleteCheckpoint
         \/ BuildBegins \/ SealExpected \/ MarkReady \/ ConfirmActive \/ Activate
         \/ BuildRefused \/ BuildErrs \/ BuildCancelled \/ BuilderCrashes
  PROVE  /\ NotClaimed /\ rec' = rec /\ outdated' \subseteq outdated
         /\ ErrorsStand \/ build' # build
<1>1. CASE \/ BuildReadsActive \/ WriteElastic \/ SaveCheckpoint
           \/ (\E c \in Chunks : WriteQdrant(c)) \/ (\E b \in Backends : BuildObserves(b))
           \/ JobCompletes \/ DeleteCheckpoint \/ BuilderCrashes
  BY <1>1, FreshSame DEF BuildReadsActive, WriteElastic, SaveCheckpoint, WriteQdrant,
     BuildObserves, JobCompletes, DeleteCheckpoint, BuilderCrashes, history
<1>2. ASSUME BuildBegins \/ SealExpected \/ MarkReady \/ ConfirmActive \/ Activate \/ BuildEnds,
             build.at # "idle", rec' = rec, outdated' \subseteq outdated, build'.at # build.at
      PROVE  /\ NotClaimed /\ rec' = rec /\ outdated' \subseteq outdated
             /\ ErrorsStand \/ build' # build
  <2>1. TokensKept
    BY <1>2, BuildRowsTyped
  <2> QED BY <1>2, <2>1 DEF TokensKept, NotClaimed
<1>3. build \in BuildRecord
  BY DEF TypeInv, TypeParts
<1>4. CASE BuildBegins
  <2>1. build.at = "begin" /\ build'.at = "write" /\ rec' = rec /\ outdated' = outdated
    BY <1>3, <1>4 DEF BuildBegins, BuildRecord, history
  <2> QED BY <1>2, <1>4, <2>1
<1>5. CASE SealExpected
  <2>1. /\ build.at = "write" /\ build'.at \in {"observe", "activate"}
        /\ rec' = rec /\ outdated' \subseteq outdated
    BY <1>3, <1>5 DEF SealExpected, AllWritten, BuildRecord
  <2> QED BY <1>2, <1>5, <2>1
<1>6. CASE MarkReady \/ ConfirmActive
  <2>1. /\ build.at = "observe" /\ build'.at \in {"activate", "done"}
        /\ rec' = rec /\ outdated' = outdated
    BY <1>3, <1>6 DEF MarkReady, ConfirmActive, BuildHasSeen, BuildRecord
  <2> QED BY <1>2, <1>6, <2>1
<1>7. CASE Activate
  <2>1. build.at = "activate" /\ build'.at = "done" /\ rec' = rec /\ outdated' = outdated
    BY <1>3, <1>7 DEF Activate, BuildRecord
  <2> QED BY <1>2, <1>7, <2>1
<1>8. CASE BuildRefused \/ BuildErrs \/ BuildCancelled
  <2>1. BuildEnds /\ build.at # "idle"
    BY <1>8 DEF BuildRefused, Refused, AllWritten, BuildHasSeen, BuildErrs, BuildCancelled
  <2>2. build'.at = "idle" /\ rec' = rec /\ outdated' = outdated
    BY <2>1 DEF BuildEnds, NoBuild, history
  <2> QED BY <1>2, <2>1, <2>2
<1> QED BY <1>1, <1>4, <1>5, <1>6, <1>7, <1>8

\* A reconciler looks afresh after every claim, and what it clears it has
\* looked at since the divergence was recorded.
LEMMA ReconcilerFresh ==
  ASSUME TypeInv, FreshLooks, NEW r \in Reconcilers,
         ActivePass(r) \/ FailedPass(r) \/ ReconcilerSteps(r) \/ ReconcilerCrashes(r)
  PROVE  FreshLooks' /\ \A g \in Generations : Clears(g) => ClearedByReconciler(g)
<1>0. /\ RowsTyped /\ (\A h \in Generations : row[h] \in Row)
      /\ rec \in [Reconcilers -> RecRecord]
      /\ (rec[r].at # "idle" => rec[r].gen \in Generations)
  BY DEF TypeInv, TypeParts, RowsTyped, Busy
<1> DEFINE g == rec[r].gen
           Looks(s) == rec[s].at = "observe" /\ row[rec[s].gen].reconcileToken = s
                         => s \notin outdated
\* The reconciler rests after the step; nobody else gets a claim.
<1>1. ASSUME NotClaimed, Rests(r),
             \A s \in Reconcilers \ {r} : s \in outdated' => s \in outdated
      PROVE  FreshLooks'
  <2>1. rec'[r].at = "idle" /\ \A s \in Reconcilers \ {r} : rec'[s] = rec[s]
    BY <1>0, <1>1 DEF Rests, Resting
  <2>2. ASSUME NEW s \in Reconcilers PROVE Looks(s)'
    <3>1. CASE s = r
      BY <2>1, <3>1
    <3>2. CASE s # r
      BY <1>1, <2>1, <3>2, FreshFrame
    <3> QED BY <3>1, <3>2
  <2> QED BY <2>2 DEF FreshLooks
<1>2. ASSUME NEW h \in Generations, ClaimReconciliation(r, h) \/ ClaimFailedRepairs(r, h)
      PROVE  FreshLooks' /\ ErrorsStand
  <2> DEFINE x == [row[h] EXCEPT !.reconcileToken = r]
  <2>1. row' = [row EXCEPT ![h] = x] /\ outdated' \subseteq outdated
    BY <1>2 DEF ClaimReconciliation, ClaimFailedRepairs, Starts, history
  <2>2. x.state = row[h].state /\ x.error = row[h].error /\ x.reconcileToken = r
    BY <1>0 DEF Row
  <2>3. \A s \in Reconcilers \ {r} : rec'[s] = rec[s]
    BY <1>0, <1>2 DEF ClaimReconciliation, ClaimFailedRepairs
  <2>4. rec'[r].at = "observe" => r \notin outdated'
    <3>1. CASE ClaimReconciliation(r, h)
      BY <3>1 DEF ClaimReconciliation, Starts
    <3>2. CASE ClaimFailedRepairs(r, h)
      <4> DEFINE y == [Resting EXCEPT !.at = "schedule", !.gen = h]
      <4>1. rec' = [rec EXCEPT ![r] = y]
        BY <3>2 DEF ClaimFailedRepairs
      <4>2. y.at = "schedule"
        BY DEF Resting
      <4> HIDE DEF y
      <4> QED BY <1>0, <4>1, <4>2
    <3> QED BY <1>2, <3>1, <3>2
  <2> HIDE DEF x
  <2>5. ErrorsStand
    BY <1>0, <2>1, <2>2, FreshEdit
  <2>6. row'[h] = x /\ \A k \in Generations : k # h => row'[k] = row[k]
    BY <1>0, <2>1 DEF RowsTyped
  <2>7. ASSUME NEW s \in Reconcilers \ {r} PROVE Looks(s)'
    <3>1. rec[s].at = "observe" => rec[s].gen \in Generations
      BY DEF TypeInv, Busy
    <3> QED BY <2>1, <2>2, <2>3, <2>6, <3>1 DEF FreshLooks
  <2> QED BY <2>4, <2>5, <2>7 DEF FreshLooks
<1>3. ASSUME NEW b \in Backends, ReconcilerObserves(r, b)
      PROVE  FreshLooks' /\ ErrorsStand
  <2>1. row' = row /\ outdated' = outdated
    BY <1>3 DEF ReconcilerObserves, history
  <2>2. rec[r].at = "observe" /\ rec'[r].gen = rec[r].gen
        /\ \A s \in Reconcilers \ {r} : rec'[s] = rec[s]
    BY <1>0, <1>3 DEF ReconcilerObserves, RecRecord
  <2>3. \A s \in Reconcilers : Looks(s)'
    BY <2>1, <2>2 DEF FreshLooks
  <2> QED BY <2>1, <2>3, FreshSame DEF FreshLooks
<1>4. CASE FinishHealthy(r)
  <2> DEFINE x == [row[g] EXCEPT !.error = FALSE, !.repairs = 0, !.reconcileToken = None]
  <2>1. /\ g \in Generations /\ row[g] \in Row /\ rec[r].at = "observe"
        /\ row[g].reconcileToken = r /\ Rests(r) /\ outdated' = outdated
    BY <1>0, <1>4 DEF FinishHealthy, ReconcilerHasSeen, OwnsActive, HoldsReconciliation
  <2>2. row' = [row EXCEPT ![g] = x]
    BY <1>0, <1>4, <2>1 DEF FinishHealthy, RowsTyped, Row
  <2>3. x.reconcileToken = None
    BY <2>1 DEF Row
  <2>4. r \notin outdated
    BY <2>1 DEF FreshLooks
  <2>5. rec'[r].gen # g
    BY <1>0, <2>1, NumbersAssumption DEF Rests, Resting
  <2>6. \A h \in Generations : h # g => row'[h] = row[h]
    BY <1>0, <2>2 DEF RowsTyped
  <2>7. \A h \in Generations : Clears(h) => ClearedByReconciler(h)
    BY <2>4, <2>5, <2>6 DEF Clears, ClearedByReconciler
  <2> HIDE DEF g, x
  <2>8. NotClaimed
    BY <1>0, <2>1, <2>2, <2>3, FreshEdit
  <2> QED BY <1>1, <2>1, <2>7, <2>8
<1>5. ASSUME NEW pending \in BOOLEAN, RecordDivergence(r, pending)
      PROVE  FreshLooks' /\ \A h \in Generations : Clears(h) => ClearedByReconciler(h)
  <2>1. /\ g \in Generations /\ row[g] \in Row /\ row[g].state = "active"
        /\ row' = [row EXCEPT ![g] = DivergedRow(g, pending)] /\ Rests(r)
        /\ outdated' = outdated \cup LookedAt(g)
    BY <1>0, <1>5 DEF RecordDivergence, ReconcilerHasSeen, OwnsActive
  <2>2. DivergedRow(g, pending).reconcileToken = None
    BY <1>0, <2>1, DivergedEdit
  <2>3. DivergedRow(g, pending).error
    <3>1. CASE ReplaysJob(g, pending)
      BY <2>1, <3>1 DEF DivergedRow, Row
    <3>2. CASE ~ReplaysJob(g, pending)
      BY <2>1, <3>2 DEF DivergedRow, Row
    <3> QED BY <3>1, <3>2
  <2>4. NotClaimed /\ ErrorsStand
    <3> HIDE DEF g
    <3> QED BY <1>0, <2>1, <2>2, <2>3, FreshEdit
  <2>5. row'[g].reconcileToken = None
    BY <1>0, <2>1, <2>2 DEF RowsTyped
  <2>6. rec'[r].at = "idle" /\ \A s \in Reconcilers \ {r} : rec'[s] = rec[s]
    BY <1>0, <2>1 DEF Rests, Resting
  <2>7. ASSUME NEW s \in Reconcilers \ {r} PROVE Looks(s)'
    <3>1. CASE rec[s].gen = g
      BY <2>5, <2>6, <3>1, ActorsAssumption
    <3>2. CASE rec[s].gen # g
      <4>1. s \in outdated' => s \in outdated
        BY <2>1, <3>2, ObserversAssumption DEF LookedAt
      <4> QED BY <2>4, <2>6, <4>1, FreshFrame
    <3> QED BY <3>1, <3>2
  <2> QED BY <2>4, <2>6, <2>7 DEF FreshLooks, ErrorsStand
<1>6. CASE ScheduleFailedRepair(r)
  <2> DEFINE x == [row[g] EXCEPT !.reconcileToken = None, !.repairs = Charged(@)]
  <2>1. /\ g \in Generations /\ row[g] \in Row /\ row[g].state = "failed" /\ Rests(r)
        /\ outdated' = outdated
    BY <1>0, <1>6 DEF ScheduleFailedRepair, OwnsFailed, history
  <2>2. row' = [row EXCEPT ![g] = x]
    BY <1>0, <1>6, <2>1 DEF ScheduleFailedRepair, RowsTyped, Row
  <2>3. x.reconcileToken = None
    BY <2>1 DEF Row
  <2> HIDE DEF g, x
  <2>4. NotClaimed /\ ErrorsStand
    BY <1>0, <2>1, <2>2, <2>3, FreshEdit
  <2> QED BY <1>1, <2>1, <2>4 DEF ErrorsStand
<1>7. CASE ReconcilerConflicts(r) \/ ReconcilerCrashes(r)
  <2>1. row' = row /\ Rests(r) /\ outdated' = outdated
    BY <1>7 DEF ReconcilerConflicts, ReconcilerCrashes, history
  <2> QED BY <1>1, <2>1, FreshSame DEF ErrorsStand
<1> QED BY <1>2, <1>3, <1>4, <1>5, <1>6, <1>7
        DEF ActivePass, FailedPass, ReconcilerSteps, FinishDiverged, ErrorsStand

\* Nobody else claims a row or clears the error of one that stays in service.
LEMMA OthersFresh ==
  ASSUME SafeInv,
         \/ RollbackSteps \/ \E g \in Generations : RollbackTarget(g)
         \/ \E c \in Collectors : CollectorSteps(c) \/ CollectorCrashes(c)
         \/ \/ CancelJob
            \/ \E g \in Generations : Deploy(g) \/ WindowPasses(g)
            \/ \E b \in Backends, g \in Generations, c \in Chunks : LosesChunk(b, g, c)
  PROVE  NotClaimed /\ ErrorsStand /\ rec' = rec /\ outdated' \subseteq outdated
<1>0. /\ TypeInv /\ LeaseHeld /\ RowsTyped /\ \A h \in Generations : row[h] \in Row
  BY DEF SafeInv, TypeInv, TypeParts, RowsTyped
<1>1. CASE \/ CancelJob \/ RollbackFails \/ (\E b \in Backends : RollbackObserves(b))
           \/ (\E g \in Generations : Deploy(g))
           \/ (\E b \in Backends, g \in Generations, c \in Chunks : LosesChunk(b, g, c))
           \/ (\E c \in Collectors : \/ CollectorCrashes(c)
                                     \/ \E b \in Backends : DeleteGeneration(c, b))
  BY <1>1, FreshSame DEF CancelJob, RollbackFails, RollbackObserves, Deploy, LosesChunk,
     CollectorCrashes, DeleteGeneration, history
<1>2. ASSUME NEW g \in Generations, RollbackTarget(g) \/ WindowPasses(g)
                                    \/ \E c \in Collectors : ClaimRetention(c, g)
      PROVE  NotClaimed /\ ErrorsStand /\ rec' = rec /\ outdated' \subseteq outdated
  <2>1. /\ row[g].state = "retired" /\ rec' = rec /\ outdated' \subseteq outdated
        /\ \A h \in Generations : row'[h].reconcileToken = row[h].reconcileToken
                                  /\ (h # g => row'[h] = row[h])
    BY <1>0, <1>2 DEF RollbackTarget, WindowPasses, ClaimRetention, Starts, history, RowsTyped, Row
  <2> QED BY <2>1 DEF NotClaimed, ErrorsStand, Clears
<1>3. ASSUME NEW c \in Collectors, FinishRetention(c)
      PROVE  NotClaimed /\ ErrorsStand /\ rec' = rec /\ outdated' \subseteq outdated
  <2> DEFINE g == col[c].gen
             x == RetainedRow(c, g)
  <2>1. /\ g \in Generations /\ row[g].state = "retired" /\ row' = [row EXCEPT ![g] = x]
        /\ rec' = rec /\ outdated' = outdated
    BY <1>0, <1>3 DEF FinishRetention, LeaseHeld, HoldsRetention, TypeInv, Busy
  <2>2. x.reconcileToken \in {None, row[g].reconcileToken}
    BY <1>0, <2>1, RetainedEdit
  <2> HIDE DEF g, x
  <2> QED BY <1>0, <2>1, <2>2, FreshEdit
<1>4. CASE Rollback
  <2> DEFINE g == roll.gen
             p == [row[g] EXCEPT !.state = "active", !.expired = FALSE, !.error = FALSE,
                     !.repairs = 0, !.reconcileToken = None, !.retentionToken = None]
  <2>1. /\ g \in Generations /\ row[g] \in Row /\ row[g].state = "retired"
        /\ rec' = rec /\ outdated' = outdated
    BY <1>0, <1>4 DEF TypeInv, Busy, Rollback, MayRollBack, StillProtected
  <2>2. p.reconcileToken = None
    BY <2>1 DEF Row
  <2>3. row' = Succession(g, p)
    BY <1>4 DEF Rollback
  <2> HIDE DEF p
  <2>4. /\ row'[g] = p
        /\ \A h \in Generations : h # g /\ row[h].state # "active" => row'[h] = row[h]
        /\ \A h \in Generations : h # g /\ row[h].state = "active" => row'[h] = Retire(row[h])
    BY <2>1, <2>3 DEF Succession
  <2>5. \A h \in Generations : Retire(row[h]).state = "retired"
                               /\ Retire(row[h]).reconcileToken = None
    BY <1>0 DEF Retire, Row
  <2> HIDE DEF g
  <2> QED BY <2>1, <2>2, <2>4, <2>5 DEF NotClaimed, ErrorsStand, Clears
<1> QED BY <1>1, <1>2, <1>3, <1>4 DEF RollbackSteps, CollectorSteps

LEMMA FreshStep ==
  ASSUME SafeInv, FreshLooks, [Next]_vars
  PROVE  /\ FreshLooks'
         /\ \A g \in Generations : Clears(g) => ClearedByReconciler(g) \/ build # build'
<1>1. TypeInv
  BY DEF SafeInv
<1>2. CASE UNCHANGED vars
  <2>1. NotClaimed /\ ErrorsStand /\ rec' = rec /\ outdated' \subseteq outdated
    BY <1>2, FreshSame DEF vars, history
  <2> QED BY <1>1, <2>1, FreshFrames DEF ErrorsStand
<1>3. CASE Next
  BY <1>1, <1>3, NextCases, BuilderFresh, ReconcilerFresh, OthersFresh, FreshFrames
     DEF ErrorsStand
<1> QED BY <1>2, <1>3

\* A recorded divergence is cleared only by an observer that began to look at
\* the backends after it was recorded: however leases lapse and claims overlap,
\* the token FinishReconciliation compares stands for fresh observations.
THEOREM ReconcilersClearOnFreshEvidenceAlways == Spec => ReconcilersClearOnFreshEvidence
<1>1. Init => FreshLooks
  BY DEF Init, FreshLooks, Resting
<1>2. SafeInv /\ FreshLooks /\ [Next]_vars => FreshLooks'
  BY FreshStep
<1>3. SafeInv /\ FreshLooks /\ [Next]_vars =>
        [\A g \in Generations : Clears(g) => ClearedByReconciler(g) \/ build # build']_vars
  BY FreshStep
<1> QED BY <1>1, <1>2, <1>3, SafeInvHolds, PTL DEF Spec, ReconcilersClearOnFreshEvidence
=============================================================================
