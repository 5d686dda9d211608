------------------------ MODULE ReleaseCenterProofs ------------------------
(***************************************************************************)
(* Proofs about ReleaseCenter, for every number of versions, generations,  *)
(* reports, collectors and administrators and every bound on what happens  *)
(* to the document meanwhile; and, in the second half, about Review, the   *)
(* pre-review whose advice the release center acts on.  The two share no   *)
(* state; ReviewSpec is the specification of the second.                   *)
(*                                                                         *)
(* What makes a release rest on its approvals is a count that a call of    *)
(* Decide takes from rows it read and carries to the end, while reviews    *)
(* may reset those rows.  The invariant relates the count to the history   *)
(* of approvals, which only grows.                                         *)
(***************************************************************************)
EXTENDS ReleaseCenter, Review, FiniteSetTheorems, WellFoundedInduction, TLAPS

-----------------------------------------------------------------------------
(* Type correctness.                                                       *)

DocRow     == [completed : BOOLEAN, active : BOOLEAN, deleting : BOOLEAN,
               publication : {"draft", "published", "retired"}]
ReleaseRow == [cur : 0..MaxVersion, rev : Nat, pub : [v : Versions, g : Gens] \cup {None},
               key : CandidateOrNone]
IndexRow   == [gen : 0..MaxGen, active : BOOLEAN, healthy : BOOLEAN, open : BOOLEAN]
RequestRow == [state : Awaiting \cup Closed \cup {"none", "needs_info"},
               review : Numbers, required : {1, 2}, by : People, group : BOOLEAN,
               requesterMay : BOOLEAN]
ReviewRow  == [status : {"none", "completed", "failed", "expired"}, due : BOOLEAN]
ReviewerRec == [pc : {"idle", "report", "reset", "request", "stale", "due", "purge"}, c : CandidateOrNone,
                n : Numbers, again : BOOLEAN, by : People, advice : AllAdvice]
ApproverRec == [pc : {"idle", "record", "act", "publish", "settle"},
                c : CandidateOrNone, verdict : {"approved", "rejected"},
                required : {1, 2}, count : Nat]

ReleaseRec == [c : Candidates, read : {1, 2}, asked : {1, 2}, approvals : Nat, overtaken : BOOLEAN]

\* Who is busy is busy with a candidate.
Busy == /\ \A p \in Reviewers : reviewer[p].pc # "idle" => reviewer[p].c \in Candidates
        /\ \A a \in Admins : approver[a].pc # "idle" => approver[a].c \in Candidates

CatalogTyped  == /\ space \in Spaces /\ permission \in Permissions /\ doc \in DocRow
                 /\ release \in ReleaseRow /\ index \in [Versions -> IndexRow]
EvidenceTyped == /\ request \in [Candidates -> RequestRow]
                 /\ review \in [Candidates -> [Numbers -> ReviewRow]]
                 /\ decision \in [Candidates -> [Admins -> {"none", "approved", "rejected"}]]
PolicyTyped   == policy \in Policies \cup {None} /\ members \subseteq Admins
CallsTyped    == /\ reviewer \in [Reviewers -> ReviewerRec] /\ approver \in [Admins -> ApproverRec]
                 /\ Busy
HistoryTyped  == /\ approved \in [Candidates -> SUBSET Admins]
                 /\ overtaken \subseteq Admins /\ released \subseteq ReleaseRec
                 /\ events \in 0..MaxEvents

TypeInv == CatalogTyped /\ EvidenceTyped /\ PolicyTyped /\ CallsTyped /\ HistoryTyped

LEMMA BoundsTyped ==
  /\ MaxVersion \in Nat /\ 1 \in Versions /\ MaxGen \in Nat /\ 1 \in Numbers /\ MaxEvents \in Nat
  /\ \A v \in Versions : v \in Nat /\ v <= MaxVersion
  /\ \A n \in Numbers : n \in Nat
  /\ \A g \in 0..MaxGen : g \in Nat
  BY BoundsAssumption DEF Versions, Numbers

LEMMA CandidatesTyped ==
  ASSUME NEW c \in Candidates
  PROVE  c.v \in Versions /\ c.g \in Gens /\ c.rev \in Nat /\ c # None
<1>1. c.v \in Versions /\ c.g \in Gens /\ c.rev \in Revisions
  BY DEF Candidates
<1> QED BY <1>1, NoneAssumption, BoundsAssumption DEF Revisions

LEMMA InitTyped == ASSUME Init PROVE TypeInv
<1>1. CatalogTyped
  <2>1. release \in ReleaseRow
    BY BoundsAssumption DEF Init, ReleaseRow, CandidateOrNone
  <2>2. index \in [Versions -> IndexRow]
    BY BoundsAssumption DEF Init, IndexRow
  <2> QED BY <2>1, <2>2 DEF Init, CatalogTyped, DocRow
<1>2. EvidenceTyped
  <2>1. NoRequest \in RequestRow /\ NoReview \in ReviewRow
    BY BoundsTyped DEF NoRequest, NoReview, RequestRow, ReviewRow, Awaiting, Closed, People
  <2> QED BY <2>1 DEF Init, EvidenceTyped
<1>3. CallsTyped
  <2>1. IdleReviewer \in ReviewerRec /\ IdleApprover \in ApproverRec
    BY BoundsTyped
       DEF IdleReviewer, IdleApprover, ReviewerRec, ApproverRec, CandidateOrNone, People, AllAdvice
  <2>2. IdleReviewer.pc = "idle" /\ IdleApprover.pc = "idle"
    BY DEF IdleReviewer, IdleApprover
  <2> QED BY <2>1, <2>2 DEF Init, CallsTyped, Busy
<1>4. PolicyTyped /\ HistoryTyped
  BY BoundsTyped DEF Init, PolicyTyped, HistoryTyped
<1> QED BY <1>1, <1>2, <1>3, <1>4 DEF TypeInv

\* The parts a step leaves alone stay typed.
LEMMA UntouchedTyped ==
  ASSUME TypeInv
  PROVE  /\ UNCHANGED catalogVars => CatalogTyped'
         /\ UNCHANGED evidenceVars => EvidenceTyped'
         /\ UNCHANGED policyVars => PolicyTyped'
         /\ UNCHANGED <<reviewer, approver>> => CallsTyped'
         /\ UNCHANGED historyVars /\ (UNCHANGED events \/ (events < MaxEvents /\ events' = events + 1))
              => HistoryTyped'
<1>1. UNCHANGED catalogVars => CatalogTyped'
  BY DEF TypeInv, CatalogTyped, catalogVars
<1>2. UNCHANGED evidenceVars => EvidenceTyped'
  BY DEF TypeInv, EvidenceTyped, evidenceVars
<1>3. UNCHANGED policyVars => PolicyTyped'
  BY DEF TypeInv, PolicyTyped, policyVars
<1>4. UNCHANGED <<reviewer, approver>> => CallsTyped'
  BY DEF TypeInv, CallsTyped, Busy
<1>5. UNCHANGED historyVars /\ (UNCHANGED events \/ (events < MaxEvents /\ events' = events + 1))
        => HistoryTyped'
  BY BoundsTyped DEF TypeInv, HistoryTyped, historyVars
<1> QED BY <1>1, <1>2, <1>3, <1>4, <1>5

LEMMA CataloguingTyped == ASSUME TypeInv, Cataloguing PROVE TypeInv'
<1>1. ASSUME CatalogTyped' PROVE TypeInv'
  <2>1. UNCHANGED <<evidenceVars, policyVars, reviewer, approver, historyVars>>
    BY DEF Cataloguing, Admit, AcceptDeletion, Activate, Complete, Diverge, Reprocess,
           PatchPublication, PatchGovernance
  <2>2. UNCHANGED events \/ (events < MaxEvents /\ events' = events + 1)
    BY DEF Cataloguing, Admit, AcceptDeletion, Activate, Complete, Diverge, Reprocess,
           PatchPublication, PatchGovernance
  <2> QED BY <1>1, <2>1, <2>2, UntouchedTyped DEF TypeInv
<1>2. UNCHANGED <<space, permission>>
  BY DEF Cataloguing, Admit, AcceptDeletion, Activate, Complete, Diverge, Reprocess,
         PatchPublication, PatchGovernance
<1>3. ASSUME doc' \in DocRow, release' \in ReleaseRow, index' \in [Versions -> IndexRow]
      PROVE  TypeInv'
  BY <1>1, <1>2, <1>3 DEF TypeInv, CatalogTyped
<1>4. doc \in DocRow /\ release \in ReleaseRow /\ index \in [Versions -> IndexRow]
  BY DEF TypeInv, CatalogTyped
<1>5. CASE Admit
  <2>1. doc' \in DocRow
    BY <1>4, <1>5 DEF Admit, DocRow
  <2>2. release' \in ReleaseRow
    <3> DEFINE r1 == [release EXCEPT !.cur = @ + 1]
    <3>1. release.cur + 1 \in 0..MaxVersion /\ release.rev + 1 \in Nat
      BY <1>4, <1>5, BoundsTyped DEF Admit, ReleaseRow
    <3>2. r1 \in ReleaseRow /\ r1.rev = release.rev
      BY <1>4, <3>1 DEF ReleaseRow
    <3>3. release' = [r1 EXCEPT !.rev = release.rev + 1]
      BY <1>4, <1>5 DEF Admit, RecordCurrent, ReleaseRow
    <3> HIDE DEF r1
    <3> QED BY <3>1, <3>2, <3>3 DEF ReleaseRow
  <2>3. index' \in [Versions -> IndexRow]
    BY <1>4, <1>5 DEF Admit, IndexRow
  <2> QED BY <1>3, <2>1, <2>2, <2>3
<1>6. ASSUME NEW v \in Versions, Activate(v) PROVE TypeInv'
  <2>1. UNCHANGED <<doc, release>>
    BY <1>6 DEF Activate
  <2>2. PICK g \in Gens : index' = [index EXCEPT ![v].gen = g, ![v].active = TRUE, ![v].healthy = TRUE]
    BY <1>6 DEF Activate
  <2> DEFINE i1 == [index EXCEPT ![v].gen = g]
             i2 == [i1 EXCEPT ![v].active = TRUE]
  <2>3. i1 \in [Versions -> IndexRow]
    BY <1>4, BoundsAssumption DEF IndexRow, Gens
  <2>4. index' = [i2 EXCEPT ![v].healthy = TRUE]
    BY <1>4, <2>2 DEF IndexRow
  <2> HIDE DEF i1
  <2>5. i2 \in [Versions -> IndexRow]
    BY <2>3 DEF IndexRow
  <2> HIDE DEF i2
  <2>6. index' \in [Versions -> IndexRow]
    BY <2>4, <2>5 DEF IndexRow
  <2> QED BY <1>3, <1>4, <2>1, <2>6
<1>7. ASSUME NEW v \in Versions, Complete(v) PROVE TypeInv'
  <2>1. index' \in [Versions -> IndexRow]
    BY <1>4, <1>7 DEF Complete, IndexRow
  <2>2. doc' \in DocRow
    <3> DEFINE to == IF ReleasesItself THEN "published" ELSE doc.publication
               d1 == [doc EXCEPT !.completed = TRUE]
    <3>1. to \in {"draft", "published", "retired"} /\ d1 \in DocRow
      BY <1>4 DEF DocRow
    <3>2. doc' = [d1 EXCEPT !.publication = to]
      BY <1>4, <1>7 DEF Complete, DocRow
    <3> HIDE DEF to, d1
    <3> QED BY <3>1, <3>2 DEF DocRow
  <2>3. release' \in ReleaseRow
    <3> DEFINE pub == [v |-> v, g |-> index[v].gen]
               revision == IF release.pub = pub THEN release.rev ELSE release.rev + 1
               r1  == [release EXCEPT !.pub = pub]
    <3>1. index[v].gen \in Gens
      BY <1>4, <1>7, BoundsAssumption DEF Complete, IndexRow, Gens
    <3>2. pub \in [v : Versions, g : Gens] /\ revision \in Nat
      BY <1>4, <3>1 DEF ReleaseRow
    <3>3. AutomaticRelease(v) = [r1 EXCEPT !.rev = revision]
      BY <1>4 DEF AutomaticRelease, ReleaseRow
    <3> HIDE DEF pub, revision
    <3>4. r1 \in ReleaseRow
      BY <1>4, <3>2 DEF ReleaseRow
    <3> HIDE DEF r1
    <3>5. AutomaticRelease(v) \in ReleaseRow
      BY <3>2, <3>3, <3>4 DEF ReleaseRow
    <3> QED BY <1>4, <1>7, <3>5 DEF Complete
  <2> QED BY <1>3, <2>1, <2>2, <2>3
<1>8. ASSUME NEW v \in Versions, Diverge(v) PROVE TypeInv'
  <2>1. UNCHANGED <<doc, release>>
    BY <1>8 DEF Diverge
  <2> DEFINE i1 == [index EXCEPT ![v].healthy = FALSE]
  <2>2. i1 \in [Versions -> IndexRow]
    BY <1>4 DEF IndexRow
  <2>3. index' = [i1 EXCEPT ![v].open = TRUE]
    BY <1>4, <1>8 DEF Diverge, IndexRow
  <2> HIDE DEF i1
  <2>4. index' \in [Versions -> IndexRow]
    BY <2>2, <2>3 DEF IndexRow
  <2> QED BY <1>3, <1>4, <2>1, <2>4
<1>9. ASSUME NEW v \in Versions, Reprocess(v) PROVE TypeInv'
  BY <1>3, <1>4, <1>9 DEF Reprocess, DocRow
<1>10. CASE AcceptDeletion
  <2>1. doc' \in DocRow
    <3> DEFINE d1 == [doc EXCEPT !.deleting = TRUE]
    <3>1. d1 \in DocRow
      BY <1>4 DEF DocRow
    <3>2. doc' = [d1 EXCEPT !.publication = "retired"]
      BY <1>4, <1>10 DEF AcceptDeletion, DocRow
    <3> HIDE DEF d1
    <3> QED BY <3>1, <3>2 DEF DocRow
  <2>2. release' \in ReleaseRow
    <3> DEFINE r1 == [release EXCEPT !.pub = None]
    <3>1. r1 \in ReleaseRow /\ r1.rev = release.rev /\ release.rev + 1 \in Nat
      BY <1>4 DEF ReleaseRow
    <3>2. release' = [r1 EXCEPT !.rev = release.rev + 1]
      BY <1>4, <1>10 DEF AcceptDeletion, ReleaseRow
    <3> HIDE DEF r1
    <3> QED BY <3>1, <3>2 DEF ReleaseRow
  <2>3. index' = index
    BY <1>10 DEF AcceptDeletion
  <2> QED BY <1>3, <1>4, <2>1, <2>2, <2>3
<1>11. ASSUME NEW to \in {"draft", "published", "retired"}, PatchPublication(to) PROVE TypeInv'
  BY <1>3, <1>4, <1>11 DEF PatchPublication, DocRow
<1>12. ASSUME NEW active \in BOOLEAN, PatchGovernance(active) PROVE TypeInv'
  BY <1>3, <1>4, <1>12 DEF PatchGovernance, DocRow
<1> QED BY <1>5, <1>6, <1>7, <1>8, <1>9, <1>10, <1>11, <1>12 DEF Cataloguing

LEMMA RequestSet ==
  ASSUME NEW f \in [Candidates -> RequestRow], NEW c \in Candidates,
         NEW to \in {"needs_info", "rejected", "published"}
  PROVE  [f EXCEPT ![c].state = to] \in [Candidates -> RequestRow]
<1> DEFINE rec == [f[c] EXCEPT !.state = to]
<1>1. rec \in RequestRow
  BY DEF RequestRow, Closed
<1> HIDE DEF rec
<1>2. [f EXCEPT ![c] = rec] \in [Candidates -> RequestRow]
  BY <1>1
<1> QED BY <1>2 DEF rec

LEMMA LapseTyped ==
  ASSUME TypeInv, NEW c \in Candidates, NEW n \in Numbers, Lapse(c, n)
  PROVE  TypeInv'
<1>1. /\ UNCHANGED <<catalogVars, policyVars, reviewer, approver, historyVars, request, decision>>
      /\ events < MaxEvents /\ events' = events + 1
  BY DEF Lapse
<1>2. EvidenceTyped'
  <2> DEFINE rec == [review[c][n] EXCEPT !.due = TRUE]
  <2>1. review' = [review EXCEPT ![c][n] = rec]
    BY DEF Lapse
  <2>2. review \in [Candidates -> [Numbers -> ReviewRow]] /\ review[c][n] \in ReviewRow
    BY DEF TypeInv, EvidenceTyped
  <2>3. rec \in ReviewRow
    BY <2>2 DEF ReviewRow
  <2> HIDE DEF rec
  <2>4. review' \in [Candidates -> [Numbers -> ReviewRow]]
    BY <2>1, <2>2, <2>3
  <2> QED BY <1>1, <2>4 DEF TypeInv, EvidenceTyped
<1> QED BY <1>1, <1>2, UntouchedTyped DEF TypeInv

LEMMA AdministrationTyped ==
  ASSUME TypeInv, PutPolicy \/ \E a \in Admins : SetGroupMember(a)
  PROVE  TypeInv'
<1>1. UNCHANGED <<catalogVars, evidenceVars, reviewer, approver, historyVars>>
  BY DEF PutPolicy, SetGroupMember
<1>2. events < MaxEvents /\ events' = events + 1
  BY DEF PutPolicy, SetGroupMember
<1>3. PolicyTyped'
  <2>1. CASE PutPolicy
    BY <2>1 DEF PutPolicy, TypeInv, PolicyTyped
  <2>2. ASSUME NEW a \in Admins, SetGroupMember(a) PROVE PolicyTyped'
    BY <2>2 DEF SetGroupMember, TypeInv, PolicyTyped
  <2> QED BY <2>1, <2>2
<1> QED BY <1>1, <1>2, <1>3, UntouchedTyped DEF TypeInv

\* What a step of a review may change.
LEMMA ReviewTyped ==
  ASSUME TypeInv, UNCHANGED <<catalogVars, policyVars, approver>>, HistoryTyped', EvidenceTyped',
         NEW p \in Reviewers, NEW rec \in ReviewerRec, reviewer' = [reviewer EXCEPT ![p] = rec],
         rec.pc # "idle" => rec.c \in Candidates
  PROVE  TypeInv'
<1>1. CallsTyped'
  <2>1. reviewer' \in [Reviewers -> ReviewerRec] /\ approver' = approver
    BY DEF TypeInv, CallsTyped
  <2>2. Busy'
    BY DEF TypeInv, CallsTyped, Busy
  <2> QED BY <2>1, <2>2 DEF TypeInv, CallsTyped
<1> QED BY <1>1, UntouchedTyped DEF TypeInv

LEMMA IdleReviewerTyped == IdleReviewer \in ReviewerRec /\ IdleReviewer.pc = "idle"
  BY BoundsTyped DEF IdleReviewer, ReviewerRec, CandidateOrNone, People, AllAdvice

LEMMA BeginTyped ==
  ASSUME TypeInv, NEW p \in Reviewers, NEW c \in Candidates, NEW by \in People, Begin(p, c, by),
         UNCHANGED <<catalogVars, evidenceVars, policyVars, approver, historyVars>>,
         UNCHANGED events \/ (events < MaxEvents /\ events' = events + 1)
  PROVE  TypeInv'
<1> DEFINE again == request[c].state # "none" /\ Expired(c, request[c].review)
           n     == IF again THEN request[c].review + 1 ELSE 1
           rec   == [pc |-> "report", c |-> c, n |-> n, again |-> again,
                     by |-> by, advice |-> "failed"]
<1>1. n \in Numbers /\ reviewer' = [reviewer EXCEPT ![p] = rec]
  BY DEF Begin
<1>2. again \in BOOLEAN
  OBVIOUS
<1> HIDE DEF n, again
<1>3. rec \in ReviewerRec /\ rec.c = c
  BY <1>1, <1>2 DEF ReviewerRec, CandidateOrNone, AllAdvice
<1> HIDE DEF rec
<1>4. EvidenceTyped' /\ HistoryTyped'
  BY UntouchedTyped
<1> QED BY <1>1, <1>3, <1>4, ReviewTyped

LEMMA RequestOfTyped ==
  ASSUME NEW pol, policy = pol, pol \in Policies \cup {None}, permission \in Permissions,
         NEW r \in ReviewerRec
  PROVE  /\ RequestOf(r) \in RequestRow
         /\ RequestOf(r).state \notin Closed \cup {"none"}
<1> DEFINE asked == [state |-> "approval_pending", review |-> r.n,
                     required |-> Minimum(r.advice), by |-> r.by,
                     group |-> FALSE, requesterMay |-> FALSE]
<1>1. r.n \in Numbers /\ r.by \in People /\ Minimum(r.advice) \in {1, 2}
  BY DEF ReviewerRec, Minimum
<1>2. asked \in RequestRow /\ asked.state = "approval_pending"
  BY <1>1 DEF RequestRow, Awaiting
<1>3. CASE r.advice = "needs_info"
  <2> DEFINE a1 == [asked EXCEPT !.state = "needs_info"]
  <2>1. a1 \in RequestRow /\ a1.state = "needs_info"
    BY <1>2 DEF RequestRow
  <2>2. RequestOf(r) = [a1 EXCEPT !.required = 1]
    BY <1>3 DEF RequestOf
  <2> HIDE DEF a1
  <2> QED BY <2>1, <2>2 DEF RequestRow, Closed
<1>4. CASE r.advice = "manual_review"
  <2> DEFINE a1 == [asked EXCEPT !.state = "manual_exception"]
  <2>1. a1 \in RequestRow /\ a1.state = "manual_exception"
    BY <1>2 DEF RequestRow, Awaiting
  <2>2. RequestOf(r) = [a1 EXCEPT !.required = 1]
    BY <1>4 DEF RequestOf
  <2> HIDE DEF a1
  <2> QED BY <2>1, <2>2 DEF RequestRow, Closed
<1>5. CASE r.advice = "failed"
  <2>1. RequestOf(r) = [asked EXCEPT !.state = "manual_exception"]
    BY <1>5 DEF RequestOf
  <2> HIDE DEF asked
  <2> QED BY <1>2, <2>1 DEF RequestRow, Awaiting, Closed
<1>6. CASE r.advice \notin {"needs_info", "manual_review", "failed"} /\ policy = None
  BY <1>2, <1>6 DEF RequestOf, Closed
<1>7. CASE r.advice \notin {"needs_info", "manual_review", "failed"} /\ policy # None
  <2>1. policy \in [required : {1, 2}, requesterMay : BOOLEAN]
    BY <1>7, PoliciesAssumption
  <2> DEFINE req == IF policy.required > asked.required THEN policy.required ELSE asked.required
             a1  == [asked EXCEPT !.group = TRUE]
             a2  == [a1 EXCEPT !.requesterMay = policy.requesterMay]
  <2>2. RequestOf(r) = [a2 EXCEPT !.required = req]
    BY <1>7 DEF RequestOf
  <2>3. req \in {1, 2}
    BY <1>1, <2>1
  <2> HIDE DEF req, asked
  <2>4. a1 \in RequestRow /\ a1.state = "approval_pending"
    BY <1>2 DEF RequestRow
  <2> HIDE DEF a1
  <2>5. a2 \in RequestRow /\ a2.state = "approval_pending"
    BY <2>1, <2>4 DEF RequestRow
  <2> HIDE DEF a2
  <2> QED BY <2>2, <2>3, <2>5 DEF RequestRow, Closed
<1> QED BY <1>3, <1>4, <1>5, <1>6, <1>7

LEMMA ReviewingTyped ==
  ASSUME TypeInv, NEW p \in Reviewers,
         Sweeping(p) \/ Reviewing(p) \/ ReviewerCrashes(p) \/ \E a \in Admins : ReviewByHand(p, a)
  PROVE  TypeInv'
<1>1. /\ reviewer \in [Reviewers -> ReviewerRec] /\ reviewer[p] \in ReviewerRec
      /\ reviewer[p].pc # "idle" => reviewer[p].c \in Candidates
  BY DEF TypeInv, CallsTyped, Busy
<1>2. /\ request \in [Candidates -> RequestRow]
      /\ review \in [Candidates -> [Numbers -> ReviewRow]]
      /\ decision \in [Candidates -> [Admins -> {"none", "approved", "rejected"}]]
  BY DEF TypeInv, EvidenceTyped
<1>3. CASE ReviewJob(p)
  BY <1>3, BeginTyped DEF ReviewJob, People
<1>4. ASSUME NEW a \in Admins, ReviewByHand(p, a) PROVE TypeInv'
  BY <1>4, BeginTyped DEF ReviewByHand, People
<1>5. CASE ReviewerCrashes(p)
  <2>1. EvidenceTyped' /\ HistoryTyped'
    BY <1>5, UntouchedTyped DEF ReviewerCrashes
  <2> QED BY <1>5, <2>1, ReviewTyped, IdleReviewerTyped DEF ReviewerCrashes
<1>6. CASE ResetDecisions(p)
  <2> DEFINE rec == [reviewer[p] EXCEPT !.pc = "request"]
  <2>1. rec \in ReviewerRec /\ rec.c = reviewer[p].c /\ reviewer' = [reviewer EXCEPT ![p] = rec]
    BY <1>1, <1>6 DEF ResetDecisions, ReviewerRec
  <2>2. EvidenceTyped' /\ HistoryTyped'
    BY <1>1, <1>2, <1>6 DEF ResetDecisions, EvidenceTyped, Overtakes, TypeInv, HistoryTyped
  <2>3. reviewer[p].pc # "idle"
    BY <1>6 DEF ResetDecisions
  <2> HIDE DEF rec
  <2> QED BY <1>1, <1>6, <2>1, <2>2, <2>3, ReviewTyped DEF ResetDecisions
<1>7. ASSUME NEW advice \in Advice, SaveReview(p, advice) PROVE TypeInv'
  <2> DEFINE r1  == [reviewer[p] EXCEPT !.advice = advice]
             to  == IF reviewer[p].again THEN "reset" ELSE "request"
             rec == [r1 EXCEPT !.pc = to]
  <2>1. reviewer' = [reviewer EXCEPT ![p] = rec]
    BY <1>1, <1>7 DEF SaveReview, ReviewerRec
  <2>2. r1 \in ReviewerRec /\ r1.c = reviewer[p].c
    BY <1>1, PoliciesAssumption DEF ReviewerRec
  <2>3. to \in {"reset", "request"}
    OBVIOUS
  <2> HIDE DEF r1, to
  <2>4. rec \in ReviewerRec /\ rec.c = reviewer[p].c
    BY <2>2, <2>3 DEF ReviewerRec
  <2>5. ReportOf(advice) \in ReviewRow
    BY DEF ReportOf, ReviewRow
  <2>6. reviewer[p].c \in Candidates /\ reviewer[p].n \in Numbers
    BY <1>1, <1>7 DEF SaveReview, ReviewerRec
  <2>7. EvidenceTyped'
    BY <1>2, <1>7, <2>5, <2>6 DEF SaveReview, EvidenceTyped
  <2>8. HistoryTyped'
    BY <1>7, UntouchedTyped DEF SaveReview
  <2> HIDE DEF rec
  <2> QED BY <1>7, <2>1, <2>4, <2>6, <2>7, <2>8, ReviewTyped DEF SaveReview
<1>8. CASE SaveRequest(p)
  <2> DEFINE r   == reviewer[p]
             old == request[r.c]
             by  == IF old.state = "none" THEN r.by ELSE old.by
             new == [RequestOf(r) EXCEPT !.by = by]
  <2>1. r.c \in Candidates
    BY <1>1, <1>8 DEF SaveRequest
  <2>2. by \in People
    BY <1>1, <1>2, <2>1 DEF RequestRow, ReviewerRec
  <2>3. RequestOf(r) \in RequestRow
    BY <1>1, RequestOfTyped DEF TypeInv, PolicyTyped, CatalogTyped
  <2>4. request' = request \/ request' = [request EXCEPT ![r.c] = new]
    BY <1>8 DEF SaveRequest
  <2> HIDE DEF by
  <2>5. new \in RequestRow
    BY <2>2, <2>3 DEF RequestRow
  <2> HIDE DEF new
  <2>6. EvidenceTyped'
    BY <1>2, <1>8, <2>1, <2>4, <2>5 DEF SaveRequest, EvidenceTyped
  <2>7. HistoryTyped'
    BY <1>8 DEF SaveRequest, Overtakes, TypeInv, HistoryTyped
  <2> QED BY <1>8, <2>6, <2>7, ReviewTyped, IdleReviewerTyped DEF SaveRequest
<1>9. ASSUME NEW kind \in {"stale", "due", "purge"}, NEW c \in Candidates, NEW n \in Numbers,
             Selects(p, kind, c, n)
      PROVE  TypeInv'
  <2> DEFINE r1  == [reviewer[p] EXCEPT !.pc = kind]
             r2  == [r1 EXCEPT !.c = c]
             rec == [r2 EXCEPT !.n = n]
  <2>1. reviewer' = [reviewer EXCEPT ![p] = rec]
    BY <1>1, <1>9 DEF Selects, ReviewerRec
  <2>2. r1 \in ReviewerRec
    BY <1>1 DEF ReviewerRec
  <2> HIDE DEF r1
  <2>3. r2 \in ReviewerRec /\ r2.c = c
    BY <2>2 DEF ReviewerRec, CandidateOrNone
  <2> HIDE DEF r2
  <2>4. rec \in ReviewerRec /\ rec.c = c
    BY <2>3 DEF ReviewerRec
  <2> HIDE DEF rec
  <2>5. EvidenceTyped' /\ HistoryTyped'
    BY <1>9, UntouchedTyped DEF Selects
  <2> QED BY <1>9, <2>1, <2>4, <2>5, ReviewTyped DEF Selects
<1>10. CASE Sweeping(p)
  <2>1. \A c \in Candidates : request[c].review \in Numbers
    BY <1>2 DEF RequestRow
  <2> QED BY <1>9, <1>10, <2>1, BoundsTyped DEF Sweeping, SelectStale, SelectDue, SelectPurgeable
<1>11. CASE MarkStale(p) \/ MarkExpired(p) \/ Purge(p)
  <2> DEFINE c   == reviewer[p].c
             n   == reviewer[p].n
             rec == [review[c][n] EXCEPT !.status = "expired"]
  <2>1. c \in Candidates /\ n \in Numbers
    BY <1>1, <1>11 DEF MarkStale, MarkExpired, Purge, ReviewerRec
  <2>2. request' = request \/ request' = [request EXCEPT ![c].state = "needs_info"]
    BY <1>11 DEF MarkStale, MarkExpired, Purge
  <2>3. review' = review \/ review' = [review EXCEPT ![c][n] = rec]
          \/ review' = [review EXCEPT ![c][n] = NoReview]
    BY <1>11 DEF MarkStale, MarkExpired, Purge
  <2> HIDE DEF c, n
  <2>4. review[c][n] \in ReviewRow /\ NoReview \in ReviewRow
    BY <1>2, <2>1 DEF NoReview, ReviewRow
  <2>5. rec \in ReviewRow
    BY <2>4 DEF ReviewRow
  <2> HIDE DEF rec
  <2>6. request' \in [Candidates -> RequestRow]
    <3>1. [request EXCEPT ![c].state = "needs_info"] \in [Candidates -> RequestRow]
      BY <1>2, <2>1, RequestSet
    <3> QED BY <1>2, <2>2, <3>1
  <2>7. review' \in [Candidates -> [Numbers -> ReviewRow]]
    <3>1. ASSUME NEW row \in ReviewRow
          PROVE  [review EXCEPT ![c][n] = row] \in [Candidates -> [Numbers -> ReviewRow]]
      BY <1>2, <2>1
    <3> QED BY <1>2, <2>3, <2>4, <2>5, <3>1
  <2>8. decision' = decision /\ reviewer' = [reviewer EXCEPT ![p] = IdleReviewer]
        /\ UNCHANGED <<catalogVars, policyVars, approver, historyVars, events>>
    BY <1>11 DEF MarkStale, MarkExpired, Purge
  <2>9. EvidenceTyped' /\ HistoryTyped'
    BY <1>2, <2>6, <2>7, <2>8, UntouchedTyped DEF EvidenceTyped
  <2> QED BY <2>8, <2>9, ReviewTyped, IdleReviewerTyped
<1> QED BY <1>3, <1>4, <1>5, <1>6, <1>7, <1>8, <1>10, <1>11 DEF Reviewing

\* What a step of a decision may change of the calls.
LEMMA DecideTyped ==
  ASSUME TypeInv, UNCHANGED reviewer,
         NEW a \in Admins, NEW rec \in ApproverRec, approver' = [approver EXCEPT ![a] = rec],
         rec.pc # "idle" => rec.c \in Candidates
  PROVE  CallsTyped'
<1>1. approver' \in [Admins -> ApproverRec]
  BY DEF TypeInv, CallsTyped
<1>2. Busy'
  BY DEF TypeInv, CallsTyped, Busy
<1> QED BY <1>1, <1>2 DEF TypeInv, CallsTyped

LEMMA IdleApproverTyped == IdleApprover \in ApproverRec /\ IdleApprover.pc = "idle"
  BY DEF IdleApprover, ApproverRec, CandidateOrNone

\* A set of administrators has a number.
LEMMA Countable ==
  ASSUME NEW S \in SUBSET Admins
  PROVE  IsFiniteSet(S) /\ Cardinality(S) \in Nat
  BY PoliciesAssumption, FS_Subset, FS_CardinalityType

LEMMA ApprovalsTyped ==
  ASSUME NEW c
  PROVE  Approvals(c) \in Nat
  BY Countable DEF Approvals

LEMMA OpenTyped ==
  ASSUME TypeInv, NEW a \in Admins, NEW c \in Candidates, NEW verdict \in {"approved", "rejected"},
         Open(a, c, verdict)
  PROVE  TypeInv'
<1> DEFINE to    == IF decision[c][a] = "none" THEN "record" ELSE "act"
           count == Counted(a, c, verdict)
           rec   == [pc |-> to, c |-> c, verdict |-> verdict, required |-> request[c].required,
                     count |-> count]
<1>1. approver' = [approver EXCEPT ![a] = rec]
  BY DEF Open
<1>2. count \in Nat /\ to \in {"record", "act"}
  BY ApprovalsTyped DEF Counted
<1>3. request[c].required \in {1, 2}
  BY DEF TypeInv, EvidenceTyped, RequestRow
<1> HIDE DEF to, count
<1>4. rec \in ApproverRec /\ rec.c = c
  BY <1>2, <1>3 DEF ApproverRec, CandidateOrNone
<1> HIDE DEF rec
<1>5. CallsTyped'
  BY <1>1, <1>4, DecideTyped DEF Open
<1>6. HistoryTyped'
  BY DEF Open, TypeInv, HistoryTyped
<1> QED BY <1>5, <1>6, UntouchedTyped DEF Open, TypeInv

\* What a release leaves in the history.
NewRelease(a) ==
  [c |-> approver[a].c, read |-> approver[a].required, asked |-> request[approver[a].c].required,
   approvals |-> Approvals(approver[a].c), overtaken |-> a \in overtaken]

LEMMA PublishTyped ==
  ASSUME TypeInv, NEW a \in Admins, Publish(a)
  PROVE  TypeInv'
<1> DEFINE s == approver[a]
           c == s.c
<1>1. /\ approver \in [Admins -> ApproverRec] /\ s \in ApproverRec /\ s.pc = "publish"
      /\ c \in Candidates /\ s.required \in {1, 2}
  BY DEF TypeInv, CallsTyped, Busy, Publish, ApproverRec
<1>2. UNCHANGED <<space, permission, evidenceVars, policyVars, reviewer, approved, overtaken, events>>
  BY DEF Publish
<1>3. \E rec \in ApproverRec : approver' = [approver EXCEPT ![a] = rec] /\ rec.c \in {c, IdleApprover.c}
                                /\ (rec.pc # "idle" => rec.c = c)
  <2>1. approver' = [approver EXCEPT ![a] = [s EXCEPT !.pc = "settle"]]
        \/ approver' = [approver EXCEPT ![a] = IdleApprover]
    BY DEF Publish
  <2>2. [s EXCEPT !.pc = "settle"] \in ApproverRec /\ [s EXCEPT !.pc = "settle"].c = c
    BY <1>1 DEF ApproverRec
  <2> QED BY <2>1, <2>2, IdleApproverTyped
<1>4. CallsTyped'
  BY <1>1, <1>2, <1>3, DecideTyped
<1>5. /\ doc \in DocRow /\ release \in ReleaseRow /\ index \in [Versions -> IndexRow]
      /\ released \subseteq ReleaseRec /\ request[c] \in RequestRow
  BY <1>1 DEF TypeInv, CatalogTyped, HistoryTyped, EvidenceTyped
<1>6. /\ doc' \in DocRow /\ release' \in ReleaseRow /\ index' \in [Versions -> IndexRow]
      /\ released' \subseteq ReleaseRec
  <2>1. CASE UNCHANGED <<release, doc, index, released>>
    BY <1>5, <2>1
  <2>2. CASE /\ release' = [release EXCEPT !.pub = [v |-> c.v, g |-> c.g], !.rev = @ + 1, !.key = c]
             /\ doc' = [doc EXCEPT !.publication = "published"]
             /\ index' = [v \in Versions |->
                  IF v = c.v THEN index[v] ELSE [index[v] EXCEPT !.active = FALSE]]
             /\ released' = released \cup {NewRelease(a)}
    <3> DEFINE pub == [v |-> c.v, g |-> c.g]
               r1  == [release EXCEPT !.pub = pub]
               r2  == [r1 EXCEPT !.rev = release.rev + 1]
    <3>1. pub \in [v : Versions, g : Gens] /\ release.rev + 1 \in Nat
      BY <1>1, <1>5, CandidatesTyped DEF ReleaseRow
    <3>2. release' = [r2 EXCEPT !.key = c]
      BY <1>5, <2>2 DEF ReleaseRow
    <3> HIDE DEF pub
    <3>3. r1 \in ReleaseRow
      BY <1>5, <3>1 DEF ReleaseRow
    <3> HIDE DEF r1
    <3>4. r2 \in ReleaseRow
      BY <3>1, <3>3 DEF ReleaseRow
    <3> HIDE DEF r2
    <3>5. release' \in ReleaseRow
      BY <1>1, <3>2, <3>4 DEF ReleaseRow, CandidateOrNone
    <3>6. doc' \in DocRow
      BY <1>5, <2>2 DEF DocRow
    <3>7. index' \in [Versions -> IndexRow]
      BY <1>5, <2>2 DEF IndexRow
    <3>9. NewRelease(a) \in ReleaseRec
      BY <1>1, <1>5, ApprovalsTyped DEF NewRelease, ReleaseRec, RequestRow
    <3>8. released' \subseteq ReleaseRec
      BY <1>5, <2>2, <3>9
    <3> QED BY <3>5, <3>6, <3>7, <3>8
  <2> QED BY <2>1, <2>2 DEF Publish, NewRelease
<1>7. CatalogTyped' /\ HistoryTyped'
  BY <1>2, <1>6 DEF TypeInv, CatalogTyped, HistoryTyped
<1> QED BY <1>2, <1>4, <1>7, UntouchedTyped DEF TypeInv

LEMMA DecidingTyped ==
  ASSUME TypeInv, NEW a \in Admins, Deciding(a)
  PROVE  TypeInv'
<1> DEFINE s == approver[a]
<1>1. /\ approver \in [Admins -> ApproverRec] /\ s \in ApproverRec
      /\ s.pc # "idle" => s.c \in Candidates
  BY DEF TypeInv, CallsTyped, Busy
<1>2. /\ request \in [Candidates -> RequestRow]
      /\ review \in [Candidates -> [Numbers -> ReviewRow]]
      /\ decision \in [Candidates -> [Admins -> {"none", "approved", "rejected"}]]
  BY DEF TypeInv, EvidenceTyped
<1>3. ASSUME NEW c \in Candidates, NEW verdict \in {"approved", "rejected"}, Open(a, c, verdict)
      PROVE  TypeInv'
  BY <1>3, OpenTyped
<1>4. CASE RecordDecision(a)
  <2> DEFINE rec == [s EXCEPT !.pc = "act"]
  <2>1. rec \in ApproverRec /\ rec.c = s.c /\ approver' = [approver EXCEPT ![a] = rec] /\ s.c \in Candidates
    BY <1>1, <1>4 DEF RecordDecision, ApproverRec
  <2> HIDE DEF rec
  <2>2. CallsTyped'
    BY <1>4, <2>1, DecideTyped DEF RecordDecision
  <2>3. EvidenceTyped'
    BY <1>1, <1>2, <1>4, <2>1 DEF RecordDecision, EvidenceTyped, ApproverRec
  <2>4. HistoryTyped'
    BY <1>4, <2>1 DEF RecordDecision, TypeInv, HistoryTyped
  <2> QED BY <1>4, <2>2, <2>3, <2>4, UntouchedTyped DEF RecordDecision, TypeInv
<1>5. CASE Reject(a) \/ Settle(a)
  <2>1. CallsTyped'
    BY <1>5, DecideTyped, IdleApproverTyped DEF Reject, Settle
  <2>2. s.c \in Candidates
    BY <1>1, <1>5 DEF Reject, Settle
  <2>3. EvidenceTyped'
    <3>1. request' = [request EXCEPT ![s.c].state = "rejected"]
          \/ request' = [request EXCEPT ![s.c].state = "published"]
      BY <1>5 DEF Reject, Settle
    <3>3. ASSUME NEW to \in {"rejected", "published"}, request' = [request EXCEPT ![s.c].state = to]
          PROVE  request' \in [Candidates -> RequestRow]
      BY <1>2, <2>2, <3>3, RequestSet
    <3>2. request' \in [Candidates -> RequestRow]
      BY <3>1, <3>3
    <3> QED BY <1>2, <1>5, <3>2 DEF Reject, Settle, EvidenceTyped
  <2> QED BY <1>5, <2>1, <2>3, UntouchedTyped DEF Reject, Settle, TypeInv
<1>6. CASE Reassess(a)
  <2>1. [s EXCEPT !.pc = "publish"] \in ApproverRec /\ [s EXCEPT !.pc = "publish"].c = s.c
    BY <1>1 DEF ApproverRec
  <2>2. s.c \in Candidates
    BY <1>1, <1>6 DEF Reassess
  <2>3. CallsTyped'
    <3>1. approver' = [approver EXCEPT ![a] = [s EXCEPT !.pc = "publish"]]
          \/ approver' = [approver EXCEPT ![a] = IdleApprover]
      BY <1>6 DEF Reassess
    <3> QED BY <1>6, <2>1, <2>2, <3>1, DecideTyped, IdleApproverTyped DEF Reassess
  <2> QED BY <1>6, <2>3, UntouchedTyped DEF Reassess, TypeInv
<1>7. CASE Publish(a)
  BY <1>7, PublishTyped
<1>8. CASE ApproverCrashes(a)
  <2>1. CallsTyped'
    BY <1>8, DecideTyped, IdleApproverTyped DEF ApproverCrashes
  <2> QED BY <1>8, <2>1, UntouchedTyped DEF ApproverCrashes, TypeInv
<1> QED BY <1>3, <1>4, <1>5, <1>6, <1>7, <1>8 DEF Deciding

LEMMA NextTyped == ASSUME TypeInv, [Next]_vars PROVE TypeInv'
<1>1. CASE UNCHANGED vars
  BY <1>1, UntouchedTyped DEF vars, catalogVars, evidenceVars, policyVars, historyVars, TypeInv
<1> QED BY <1>1, CataloguingTyped, LapseTyped, AdministrationTyped, ReviewingTyped, DecidingTyped
       DEF Next

\* What the proofs use implies what the module states.
LEMMA TypeInvImplies == TypeInv => TypeOK
  BY DEF TypeInv, TypeOK, CatalogTyped, EvidenceTyped, PolicyTyped, CallsTyped, HistoryTyped,
         DocRow, ReleaseRow, IndexRow, RequestRow, ReviewRow, ReviewerRec, ApproverRec, ReleaseRec

LEMMA TypeInvAlways == Spec => []TypeInv
  BY InitTyped, NextTyped, PTL DEF Spec

(* Every row, report, decision and call keeps its type, whoever writes it.  *)
THEOREM ReleaseCenterTyped == Spec => []TypeOK
<1> QED BY TypeInvAlways, TypeInvImplies, PTL

-----------------------------------------------------------------------------
(* Closed requests and deleted documents.                                  *)

(* A published or rejected request is not reopened by a review or a         *)
(* decision: each such step refuses a closed one, or closes it.  A sweep    *)
(* alone may, which selected the request before that was closed.            *)
THEOREM ClosedStaysClosedAlways == Spec => ClosedStaysClosed
<1> DEFINE Kept(c) == \/ request'[c].state \in Closed
                      \/ SelectedBySweep(c) /\ request'[c].state = "needs_info"
<1>1. ASSUME TypeInv, [Next]_vars, NEW c \in Candidates, request[c].state \in Closed
      PROVE  Kept(c)
  <2>1. request \in [Candidates -> RequestRow]
    BY <1>1 DEF TypeInv, EvidenceTyped
  <2>2. ASSUME NEW d \in Candidates, NEW to, request' = [request EXCEPT ![d].state = to],
               d = c => to \in Closed
        PROVE  request'[c].state \in Closed
    <3>1. CASE d # c
      BY <1>1, <2>1, <2>2, <3>1
    <3>2. CASE d = c
      BY <1>1, <2>1, <2>2, <3>2 DEF RequestRow
    <3> QED BY <3>1, <3>2
  <2>3. CASE UNCHANGED request
    BY <1>1, <2>3
  <2>4. ASSUME NEW p \in Reviewers, MarkStale(p) \/ MarkExpired(p)
        PROVE  Kept(c)
    <3> DEFINE d == reviewer[p].c
    <3>1. /\ UNCHANGED request \/ request' = [request EXCEPT ![d].state = "needs_info"]
          /\ reviewer[p].pc \in {"stale", "due"}
      BY <2>4 DEF MarkStale, MarkExpired
    <3>2. CASE d = c
      <4>1. SelectedBySweep(c)
        BY <3>1, <3>2 DEF SelectedBySweep
      <4>2. request' = request \/ request'[c].state = "needs_info"
        BY <2>1, <3>1, <3>2 DEF RequestRow
      <4> QED BY <1>1, <4>1, <4>2
    <3>3. CASE d # c
      <4>1. request'[c] = request[c]
        BY <2>1, <3>1, <3>3
      <4> QED BY <1>1, <4>1
    <3> QED BY <3>2, <3>3
  <2>5. ASSUME NEW p \in Reviewers, SaveRequest(p)
        PROVE  request'[c].state \in Closed
    <3> DEFINE r == reviewer[p]
               by == IF request[r.c].state = "none" THEN r.by ELSE request[r.c].by
    <3>1. request' = request
          \/ (Accepts(r.c) /\ request' = [request EXCEPT ![r.c] = [RequestOf(r) EXCEPT !.by = by]])
      BY <2>5 DEF SaveRequest
    <3>2. Accepts(r.c) => r.c # c
      BY <1>1 DEF Accepts
    <3> HIDE DEF by
    <3> QED BY <1>1, <2>1, <3>1, <3>2
  <2>6. ASSUME NEW a \in Admins, Reject(a) \/ Settle(a)
        PROVE  request'[c].state \in Closed
    <3>1. \E to \in Closed : request' = [request EXCEPT ![approver[a].c].state = to]
      BY <2>6 DEF Reject, Settle, Closed
    <3>2. approver[a].c \in Candidates
      BY <1>1, <2>6 DEF Reject, Settle, TypeInv, CallsTyped, Busy
    <3> QED BY <2>2, <3>1, <3>2
  <2>7. CASE Cataloguing \/ PutPolicy
    BY <1>1, <2>7 DEF Cataloguing, Admit, AcceptDeletion, Activate, Complete, Diverge, Reprocess,
       PatchPublication, PatchGovernance, PutPolicy, evidenceVars
  <2>10. CASE UNCHANGED vars
    BY <2>3, <2>10 DEF vars, evidenceVars
  <2>11. ASSUME NEW d \in Candidates, NEW n \in Numbers, Lapse(d, n)
         PROVE  Kept(c)
    BY <2>3, <2>11 DEF Lapse
  <2>12. ASSUME NEW p \in Reviewers, Sweeping(p) \/ Reviewing(p) \/ ReviewerCrashes(p)
         PROVE  Kept(c)
    <3>1. SaveRequest(p) \/ MarkStale(p) \/ MarkExpired(p) \/ UNCHANGED request
      BY <2>12 DEF Sweeping, SelectStale, SelectDue, SelectPurgeable, Selects, Reviewing, ReviewJob,
         ResetDecisions, ReviewerCrashes, SaveReview, Purge, evidenceVars
    <3> QED BY <2>3, <2>4, <2>5, <3>1
  <2>13. ASSUME NEW a \in Admins, SetGroupMember(a) \/ Deciding(a)
         PROVE  Kept(c)
    <3>1. Reject(a) \/ Settle(a) \/ UNCHANGED request
      BY <2>13 DEF Deciding, SetGroupMember, RecordDecision, Reassess, Publish, ApproverCrashes,
         Open, evidenceVars
    <3> QED BY <2>3, <2>6, <3>1
  <2>14. ASSUME NEW p \in Reviewers, NEW a \in Admins, ReviewByHand(p, a)
         PROVE  Kept(c)
    BY <2>3, <2>14 DEF ReviewByHand, evidenceVars
  <2> QED BY <1>1, <2>7, <2>10, <2>11, <2>12, <2>13, <2>14 DEF Next
<1>2. TypeInv /\ [Next]_vars =>
        [\A c \in Candidates : request[c].state \in Closed => Kept(c)]_request
  BY <1>1
<1> QED BY <1>2, TypeInvAlways, PTL DEF Spec, ClosedStaysClosed

LEMMA DeletionStep ==
  ASSUME TypeInv, DeletionRevokesForGood, [Next]_vars
  PROVE  DeletionRevokesForGood'
<1>1. doc \in DocRow /\ release \in ReleaseRow
  BY DEF TypeInv, CatalogTyped
<1>2. CASE UNCHANGED <<doc, release>>
  BY <1>2 DEF DeletionRevokesForGood
<1>3. ASSUME doc' = doc \/ (doc'.deleting = doc.deleting), release' = release
      PROVE  DeletionRevokesForGood'
  BY <1>3 DEF DeletionRevokesForGood
<1>4. ASSUME ~doc.deleting, doc'.deleting = doc.deleting
      PROVE  DeletionRevokesForGood'
  BY <1>4 DEF DeletionRevokesForGood
<1>5. CASE Admit
  <2>1. doc'.deleting = doc.deleting /\ release'.pub = release.pub
    BY <1>1, <1>5 DEF Admit, RecordCurrent, DocRow, ReleaseRow
  <2> QED BY <2>1 DEF DeletionRevokesForGood
<1>6. CASE AcceptDeletion
  <2>1. release'.pub = None
    BY <1>1, <1>6 DEF AcceptDeletion, ReleaseRow
  <2> QED BY <2>1 DEF DeletionRevokesForGood
<1>7. ASSUME NEW v \in Versions, Complete(v) PROVE DeletionRevokesForGood'
  <2>1. doc'.deleting = doc.deleting
    BY <1>1, <1>7 DEF Complete, DocRow
  <2>2. release' = release \/ ~doc.deleting
    BY <1>7 DEF Complete, ReleasesItself
  <2> QED BY <1>3, <1>4, <2>1, <2>2
<1>8. ASSUME NEW v \in Versions, Reprocess(v) PROVE DeletionRevokesForGood'
  BY <1>1, <1>3, <1>8 DEF Reprocess, DocRow
<1>9. ASSUME NEW to, PatchPublication(to) PROVE DeletionRevokesForGood'
  BY <1>1, <1>3, <1>9 DEF PatchPublication, DocRow
<1>10. ASSUME NEW active, PatchGovernance(active) PROVE DeletionRevokesForGood'
  BY <1>1, <1>3, <1>10 DEF PatchGovernance, DocRow
<1>11. ASSUME NEW a \in Admins, Publish(a) PROVE DeletionRevokesForGood'
  <2>1. UNCHANGED <<release, doc>> \/ (~doc.deleting /\ doc'.deleting = doc.deleting)
    BY <1>1, <1>11 DEF Publish, MayPublish, DocRow
  <2> QED BY <1>2, <1>4, <2>1
<1>12. CASE Cataloguing
  <2>1. ASSUME NEW v \in Versions, Activate(v) \/ Diverge(v) PROVE DeletionRevokesForGood'
    BY <1>2, <2>1 DEF Activate, Diverge
  <2> QED BY <1>5, <1>6, <1>7, <1>8, <1>9, <1>10, <1>12, <2>1 DEF Cataloguing
<1>13. ASSUME NEW a \in Admins, SetGroupMember(a) \/ Deciding(a) PROVE DeletionRevokesForGood'
  <2>1. Publish(a) \/ UNCHANGED <<doc, release>>
    BY <1>13 DEF Deciding, SetGroupMember, RecordDecision, Reassess, Reject, Settle, ApproverCrashes,
       Open, catalogVars
  <2> QED BY <1>2, <1>11, <2>1
<1>14. ASSUME NEW p \in Reviewers,
              Sweeping(p) \/ Reviewing(p) \/ ReviewerCrashes(p) \/ \E a \in Admins : ReviewByHand(p, a)
       PROVE  DeletionRevokesForGood'
  BY <1>2, <1>14 DEF Sweeping, SelectStale, SelectDue, SelectPurgeable, Selects, MarkStale, MarkExpired,
     Purge, Reviewing, ReviewJob, SaveReview, ResetDecisions, SaveRequest, ReviewerCrashes,
     ReviewByHand, catalogVars
<1>15. CASE PutPolicy \/ \E c \in Candidates, n \in Numbers : Lapse(c, n)
  BY <1>2, <1>15 DEF Lapse, PutPolicy, catalogVars
<1>16. CASE UNCHANGED vars
  BY <1>2, <1>16 DEF vars
<1> QED BY <1>12, <1>13, <1>14, <1>15, <1>16 DEF Next

(* Nothing of a deleted document is released again, by a decision that was  *)
(* past its checks or by a job that completes late: both transactions ask   *)
(* for the deletion under their lock.                                       *)
THEOREM DeletionRevokesForGoodAlways == Spec => []DeletionRevokesForGood
<1>1. Init => DeletionRevokesForGood
  BY DEF Init, DeletionRevokesForGood
<1> QED BY <1>1, DeletionStep, TypeInvAlways, PTL DEF Spec

-----------------------------------------------------------------------------
(* Approvals.                                                              *)

\* Who stands recorded as approving did approve.
Recorded == \A c \in Candidates, b \in Admins : decision[c][b] = "approved" => b \in approved[c]

\* What a call of Decide has counted, different administrators have approved;
\* before it records its own approval, with it.
Counts(s, a, app) ==
  /\ s.pc = "record" /\ s.verdict = "approved" => s.count <= Cardinality(app[s.c] \cup {a})
  /\ s.pc = "act" /\ s.verdict = "approved" => s.count <= Cardinality(app[s.c])
  /\ s.pc \in {"publish", "settle"} => s.required <= Cardinality(app[s.c])

\* Every release had the approvals its call had asked for.
ReleasesCounted ==
  /\ \A r \in released : Cardinality(approved[r.c]) >= r.read
  /\ \A c \in Candidates :
       request[c].state = "published" => \E r \in released : r.c = c

IsReleased(c, rel) == \E r \in rel : r.c = c

ApprovalInv ==
  /\ ReleasesCounted /\ Recorded
  /\ \A a \in Admins : /\ Counts(approver[a], a, approved)
                       /\ approver[a].pc = "settle" => IsReleased(approver[a].c, released)
  /\ release.key # None => IsReleased(release.key, released)

\* More approvals are at least as many.
LEMMA MoreApprovals ==
  ASSUME NEW S \in SUBSET Admins, NEW T \in SUBSET Admins, S \subseteq T
  PROVE  Cardinality(S) <= Cardinality(T)
  BY Countable, FS_Subset

LEMMA CountsMore ==
  ASSUME NEW app \in [Candidates -> SUBSET Admins], NEW more \in [Candidates -> SUBSET Admins],
         \A c \in Candidates : app[c] \subseteq more[c],
         NEW s \in ApproverRec, s.pc # "idle" => s.c \in Candidates, NEW a \in Admins,
         Counts(s, a, app)
  PROVE  Counts(s, a, more)
<1>1. s.count \in Nat /\ s.required \in Nat
  BY DEF ApproverRec
<1>2. ASSUME s.c \in Candidates
      PROVE  /\ Cardinality(app[s.c]) <= Cardinality(more[s.c])
             /\ Cardinality(app[s.c] \cup {a}) <= Cardinality(more[s.c] \cup {a})
             /\ Cardinality(app[s.c]) \in Nat /\ Cardinality(more[s.c]) \in Nat
             /\ Cardinality(app[s.c] \cup {a}) \in Nat /\ Cardinality(more[s.c] \cup {a}) \in Nat
  <2>1. /\ app[s.c] \in SUBSET Admins /\ more[s.c] \in SUBSET Admins
        /\ app[s.c] \cup {a} \in SUBSET Admins /\ more[s.c] \cup {a} \in SUBSET Admins
        /\ app[s.c] \subseteq more[s.c] /\ app[s.c] \cup {a} \subseteq more[s.c] \cup {a}
    BY <1>2
  <2> QED BY <2>1, MoreApprovals, Countable
<1>3. CASE s.pc = "idle"
  BY <1>3 DEF Counts
<1>4. CASE s.c \in Candidates
  BY <1>1, <1>2, <1>4 DEF Counts
<1> QED BY <1>3, <1>4

\* A step that only adds to the history, and changes the call of at most one
\* administrator, keeps the rest.
LEMMA ApprovalKept ==
  ASSUME TypeInv, TypeInv', ApprovalInv, NEW rec, NEW a \in Admins,
         approver' = [approver EXCEPT ![a] = rec], Counts(rec, a, approved'),
         rec.pc = "settle" => IsReleased(rec.c, released'),
         \A c \in Candidates : approved[c] \subseteq approved'[c],
         released \subseteq released',
         \A r \in released' \ released : Cardinality(approved'[r.c]) >= r.read,
         \A c \in Candidates : request'[c].state = "published" =>
           request[c].state = "published" \/ IsReleased(c, released'),
         Recorded', release'.key = release.key \/ IsReleased(release'.key, released')
  PROVE  ApprovalInv'
<1>1. /\ approved \in [Candidates -> SUBSET Admins] /\ approved' \in [Candidates -> SUBSET Admins]
      /\ released' \subseteq ReleaseRec
      /\ approver \in [Admins -> ApproverRec] /\ Busy
  BY DEF TypeInv, HistoryTyped, CallsTyped
<1>2. \A c : IsReleased(c, released) => IsReleased(c, released')
  BY DEF IsReleased
<1>3. \A b \in Admins : Counts(approver'[b], b, approved')
  <2>1. ASSUME NEW b \in Admins, b # a PROVE Counts(approver'[b], b, approved')
    <3>1. /\ approver'[b] = approver[b] /\ approver[b] \in ApproverRec
          /\ approver[b].pc # "idle" => approver[b].c \in Candidates
          /\ Counts(approver[b], b, approved)
      BY <1>1, <2>1 DEF Busy, ApprovalInv
    <3> QED BY <1>1, <3>1, CountsMore
  <2>2. Counts(approver'[a], a, approved')
    BY <1>1
  <2> QED BY <2>1, <2>2
<1>4. \A b \in Admins : approver'[b].pc = "settle" => IsReleased(approver'[b].c, released')
  BY <1>1, <1>2 DEF ApprovalInv
<1>5. \A r \in released' : Cardinality(approved'[r.c]) >= r.read
  <2>1. ASSUME NEW r \in released PROVE Cardinality(approved'[r.c]) >= r.read
    <3>1. r.c \in Candidates /\ r.read \in Nat /\ Cardinality(approved[r.c]) >= r.read
      BY <1>1 DEF ApprovalInv, ReleasesCounted, ReleaseRec
    <3>2. Cardinality(approved[r.c]) <= Cardinality(approved'[r.c])
      BY <1>1, <3>1, MoreApprovals
    <3>3. Cardinality(approved[r.c]) \in Nat /\ Cardinality(approved'[r.c]) \in Nat
      BY <1>1, <3>1, Countable
    <3> QED BY <3>1, <3>2, <3>3
  <2> QED BY <2>1
<1>6. \A c \in Candidates : request'[c].state = "published" => IsReleased(c, released')
  <2>1. \A c \in Candidates : request[c].state = "published" => IsReleased(c, released)
    BY DEF ApprovalInv, ReleasesCounted, IsReleased
  <2> QED BY <1>2, <2>1
<1>7. release'.key # None => IsReleased(release'.key, released')
  BY <1>2 DEF ApprovalInv
<1>8. ReleasesCounted'
  BY <1>5, <1>6 DEF ReleasesCounted, IsReleased
<1> QED BY <1>3, <1>4, <1>7, <1>8 DEF ApprovalInv

\* A step that is not a decision's.
LEMMA ApprovalFrame ==
  ASSUME TypeInv, TypeInv', ApprovalInv, UNCHANGED <<approver, approved, released>>,
         release'.key = release.key,
         \A c \in Candidates, b \in Admins :
           decision'[c][b] = "approved" => decision[c][b] = "approved",
         \A c \in Candidates : request'[c].state = "published" => request[c].state = "published"
  PROVE  ApprovalInv'
  BY DEF ApprovalInv, ReleasesCounted, Recorded, IsReleased

LEMMA CataloguingApproval ==
  ASSUME TypeInv, TypeInv', ApprovalInv, Cataloguing
  PROVE  ApprovalInv'
<1>1. release \in ReleaseRow
  BY DEF TypeInv, CatalogTyped
<1>2. release'.key = release.key
  BY <1>1 DEF Cataloguing, Admit, RecordCurrent, AcceptDeletion, Activate, Complete, AutomaticRelease,
         Diverge, Reprocess, PatchPublication, PatchGovernance, ReleaseRow
<1>3. UNCHANGED <<approver, approved, released, decision, request>>
  BY DEF Cataloguing, Admit, AcceptDeletion, Activate, Complete, Diverge, Reprocess,
         PatchPublication, PatchGovernance, evidenceVars, historyVars
<1> QED BY <1>2, <1>3, ApprovalFrame

\* A sweep publishes nothing.
LEMMA SweepPublishesNothing ==
  ASSUME TypeInv, NEW p \in Reviewers, MarkStale(p) \/ MarkExpired(p), NEW c \in Candidates,
         request'[c].state = "published"
  PROVE  request[c].state = "published"
<1> DEFINE d == reviewer[p].c
<1>1. request \in [Candidates -> RequestRow]
  BY DEF TypeInv, EvidenceTyped
<1>2. request' = request \/ request' = [request EXCEPT ![d].state = "needs_info"]
  BY DEF MarkStale, MarkExpired
<1>3. CASE c = d
  BY <1>1, <1>2, <1>3 DEF RequestRow
<1>4. CASE c # d
  BY <1>1, <1>2, <1>4
<1> QED BY <1>3, <1>4

LEMMA ReviewingApproval ==
  ASSUME TypeInv, TypeInv', ApprovalInv, NEW p \in Reviewers,
         Sweeping(p) \/ Reviewing(p) \/ ReviewerCrashes(p) \/ \E a \in Admins : ReviewByHand(p, a)
  PROVE  ApprovalInv'
<1>1. UNCHANGED <<approver, approved, released, release>>
  BY DEF Sweeping, SelectStale, SelectDue, SelectPurgeable, Selects, MarkStale, MarkExpired, Purge,
         Reviewing, ReviewJob, SaveReview, ResetDecisions, SaveRequest, ReviewerCrashes,
         ReviewByHand, catalogVars, historyVars
<1>2. /\ request \in [Candidates -> RequestRow]
      /\ decision \in [Candidates -> [Admins -> {"none", "approved", "rejected"}]]
      /\ reviewer[p] \in ReviewerRec
  BY DEF TypeInv, EvidenceTyped, CallsTyped
<1>3. decision' = decision \/ decision' = [decision EXCEPT ![reviewer[p].c] = [a \in Admins |-> "none"]]
  BY DEF Sweeping, SelectStale, SelectDue, SelectPurgeable, Selects, MarkStale, MarkExpired, Purge, Reviewing, ReviewJob, SaveReview, ResetDecisions, SaveRequest, ReviewerCrashes,
         ReviewByHand, evidenceVars
<1>4. \A c \in Candidates, b \in Admins :
        decision'[c][b] = "approved" => decision[c][b] = "approved"
  BY <1>2, <1>3
<1>5. \A c \in Candidates : request'[c].state = "published" => request[c].state = "published"
  <2>1. CASE SaveRequest(p)
    <3> DEFINE r   == reviewer[p]
               by  == IF request[r.c].state = "none" THEN r.by ELSE request[r.c].by
               new == [RequestOf(r) EXCEPT !.by = by]
    <3>1. request' = request \/ request' = [request EXCEPT ![r.c] = new]
      BY <2>1 DEF SaveRequest
    <3>2. RequestOf(r) \in RequestRow /\ RequestOf(r).state \notin Closed
      BY <1>2, RequestOfTyped DEF TypeInv, PolicyTyped, CatalogTyped
    <3> HIDE DEF by
    <3>3. new.state # "published"
      BY <3>2 DEF RequestRow, Closed
    <3> HIDE DEF new
    <3> QED BY <1>2, <3>1, <3>3
  <2>2. CASE UNCHANGED request
    BY <2>2
  <2>3. CASE MarkStale(p) \/ MarkExpired(p)
    BY <2>3, SweepPublishesNothing
  <2> QED BY <2>1, <2>2, <2>3 DEF Sweeping, SelectStale, SelectDue, SelectPurgeable, Selects, Purge,
       Reviewing, ReviewJob, SaveReview, ResetDecisions, ReviewerCrashes, ReviewByHand, evidenceVars
<1> QED BY <1>1, <1>4, <1>5, ApprovalFrame

\* A call begins with the approvals it reads, and its own.
LEMMA OpenApproval ==
  ASSUME TypeInv, TypeInv', ApprovalInv, NEW a \in Admins, NEW c \in Candidates,
         NEW verdict \in {"approved", "rejected"}, Open(a, c, verdict)
  PROVE  ApprovalInv'
<1> DEFINE standing == {b \in Admins : decision[c][b] = "approved"}
           to       == IF decision[c][a] = "none" THEN "record" ELSE "act"
           count    == Counted(a, c, verdict)
           rec      == [pc |-> to, c |-> c, verdict |-> verdict,
                        required |-> request[c].required, count |-> count]
<1>1. /\ approver' = [approver EXCEPT ![a] = rec]
      /\ UNCHANGED <<approved, released, request, decision, release>>
      /\ decision[c][a] \in {"none", verdict}
  BY DEF Open, Admissible, evidenceVars, historyVars, catalogVars
<1>2. approved[c] \in SUBSET Admins /\ standing \subseteq approved[c]
  BY DEF TypeInv, HistoryTyped, ApprovalInv, Recorded
<1>3. /\ Cardinality(standing) <= Cardinality(approved[c]) /\ Cardinality(standing) \in Nat
      /\ Cardinality(approved[c]) \in Nat
  BY <1>2, MoreApprovals, Countable
<1>4. ASSUME to = "record", verdict = "approved" PROVE count <= Cardinality(approved[c] \cup {a})
  <2>1. decision[c][a] = "none" /\ a \notin standing
    BY <1>4
  <2>2. count = Cardinality(standing) + 1
    BY <1>4, <2>1 DEF Counted, Approvals
  <2>3. Cardinality(standing \cup {a}) = Cardinality(standing) + 1
    BY <1>2, <2>1, Countable, FS_AddElement
  <2>4. Cardinality(standing \cup {a}) <= Cardinality(approved[c] \cup {a})
    <3>1. standing \cup {a} \in SUBSET Admins /\ approved[c] \cup {a} \in SUBSET Admins
          /\ standing \cup {a} \subseteq approved[c] \cup {a}
      BY <1>2
    <3> HIDE DEF standing
    <3> QED BY <3>1, MoreApprovals
  <2> QED BY <2>2, <2>3, <2>4
<1>5. ASSUME to = "act", verdict = "approved" PROVE count <= Cardinality(approved[c])
  <2>1. decision[c][a] = "approved"
    BY <1>1, <1>5
  <2>2. count = Cardinality(standing)
    BY <2>1 DEF Counted, Approvals
  <2> QED BY <1>3, <2>2
<1>6. to \in {"record", "act"}
  OBVIOUS
<1> HIDE DEF to, count, standing
<1>7. Counts(rec, a, approved') /\ rec.pc # "settle"
  BY <1>1, <1>4, <1>5, <1>6 DEF Counts
<1> HIDE DEF rec
<1>8. Recorded'
  BY <1>1 DEF ApprovalInv, Recorded
<1> QED BY <1>1, <1>7, <1>8, ApprovalKept

LEMMA RecordApproval ==
  ASSUME TypeInv, TypeInv', ApprovalInv, NEW a \in Admins, RecordDecision(a)
  PROVE  ApprovalInv'
<1> DEFINE s   == approver[a]
           rec == [s EXCEPT !.pc = "act"]
<1>1. /\ approver' = [approver EXCEPT ![a] = rec]
      /\ UNCHANGED <<released, request, release>> /\ s.pc = "record"
      /\ decision' = [decision EXCEPT ![s.c][a] = s.verdict]
      /\ approved' = IF s.verdict # "approved" THEN approved
                     ELSE [approved EXCEPT ![s.c] = @ \cup {a}]
  BY DEF RecordDecision, catalogVars
<1>2. /\ s \in ApproverRec /\ s.c \in Candidates /\ approved \in [Candidates -> SUBSET Admins]
      /\ decision \in [Candidates -> [Admins -> {"none", "approved", "rejected"}]]
      /\ Counts(s, a, approved)
  BY <1>1 DEF TypeInv, CallsTyped, Busy, HistoryTyped, EvidenceTyped, ApprovalInv
<1>3. \A c \in Candidates : approved[c] \subseteq approved'[c]
  BY <1>1, <1>2
<1>4. rec.pc = "act" /\ rec.c = s.c /\ rec.verdict = s.verdict /\ rec.count = s.count
  BY <1>2 DEF ApproverRec
<1>5. Counts(rec, a, approved')
  <2>1. s.verdict = "approved" => approved'[s.c] = approved[s.c] \cup {a}
    BY <1>1, <1>2
  <2> HIDE DEF rec
  <2> QED BY <1>1, <1>2, <1>4, <2>1 DEF Counts
<1>6. Recorded'
  <2>1. ASSUME NEW c \in Candidates, NEW b \in Admins, decision'[c][b] = "approved"
        PROVE  b \in approved'[c]
    <3>1. CASE c = s.c /\ b = a
      <4>1. s.verdict = "approved"
        BY <1>1, <1>2, <2>1, <3>1
      <4> QED BY <1>1, <1>2, <3>1, <4>1
    <3>2. CASE ~(c = s.c /\ b = a)
      <4>1. decision'[c][b] = decision[c][b]
        BY <1>1, <1>2, <3>2
      <4> QED BY <1>3, <2>1, <4>1 DEF ApprovalInv, Recorded
    <3> QED BY <3>1, <3>2
  <2> QED BY <2>1 DEF Recorded
<1> HIDE DEF rec
<1> QED BY <1>1, <1>3, <1>4, <1>5, <1>6, ApprovalKept

\* A release is recorded with the count that let the call pass.
LEMMA PublishApproval ==
  ASSUME TypeInv, TypeInv', ApprovalInv, NEW a \in Admins, Publish(a)
  PROVE  ApprovalInv'
<1> DEFINE s   == approver[a]
           new == NewRelease(a)
           on  == [s EXCEPT !.pc = "settle"]
<1>1. /\ UNCHANGED <<approved, request, decision>> /\ s.pc = "publish"
  BY DEF Publish, evidenceVars
<1>2. /\ s \in ApproverRec /\ s.c \in Candidates /\ release \in ReleaseRow
      /\ s.required <= Cardinality(approved[s.c]) /\ s.required \in Nat
      /\ Cardinality(approved[s.c]) \in Nat
  <2>1. s \in ApproverRec /\ s.c \in Candidates /\ release \in ReleaseRow
        /\ approved[s.c] \in SUBSET Admins
    BY <1>1 DEF TypeInv, CallsTyped, Busy, CatalogTyped, HistoryTyped
  <2>2. s.required <= Cardinality(approved[s.c])
    BY <1>1 DEF ApprovalInv, Counts
  <2> QED BY <2>1, <2>2, Countable DEF ApproverRec
<1>3. on.pc = "settle" /\ on.c = s.c /\ on.required = s.required
  BY <1>2 DEF ApproverRec
<1>4. Counts(on, a, approved')
  <2> HIDE DEF on
  <2> QED BY <1>1, <1>2, <1>3 DEF Counts
<1>5. Counts(IdleApprover, a, approved') /\ IdleApprover.pc # "settle"
  BY DEF IdleApprover, Counts
<1>6. Recorded'
  BY <1>1 DEF ApprovalInv, Recorded
<1>7. CASE release'.key = s.c /\ released' = released \cup {new}
           /\ approver' = [approver EXCEPT ![a] = on]
  <2>3. new.c = s.c
    BY DEF NewRelease
  <2>4. new \in released'
    <3> HIDE DEF new
    <3> QED BY <1>7
  <2>1. IsReleased(s.c, released')
    <3> HIDE DEF new
    <3> QED BY <2>3, <2>4 DEF IsReleased
  <2>2. \A r \in released' \ released : Cardinality(approved'[r.c]) >= r.read
    BY <1>1, <1>2, <1>7 DEF NewRelease
  <2> HIDE DEF on
  <2> QED BY <1>1, <1>3, <1>4, <1>6, <1>7, <2>1, <2>2, ApprovalKept
<1>8. CASE UNCHANGED <<release, released>> /\ release.key = s.c
           /\ approver' = [approver EXCEPT ![a] = on]
  <2>3. s.c # None
    BY <1>2, CandidatesTyped
  <2>4. IsReleased(s.c, released)
    BY <1>8, <2>3 DEF ApprovalInv
  <2>1. IsReleased(s.c, released')
    BY <1>8, <2>4
  <2> HIDE DEF on
  <2> QED BY <1>1, <1>3, <1>4, <1>6, <1>8, <2>1, ApprovalKept
<1>9. CASE UNCHANGED <<release, released>> /\ approver' = [approver EXCEPT ![a] = IdleApprover]
  BY <1>1, <1>5, <1>6, <1>9, ApprovalKept
<1>10. \/ release'.key = s.c /\ released' = released \cup {new}
          /\ approver' = [approver EXCEPT ![a] = on]
       \/ UNCHANGED <<release, released>> /\ release.key = s.c
          /\ approver' = [approver EXCEPT ![a] = on]
       \/ UNCHANGED <<release, released>> /\ approver' = [approver EXCEPT ![a] = IdleApprover]
  <2> DEFINE fresh == /\ release.key # s.c /\ IsCurrent(s.c)
                      /\ Serves(s.c.v) /\ index[s.c.v].gen = s.c.g /\ MayPublish
  <2>1. CASE fresh
    <3>1. release' = [release EXCEPT !.pub = [v |-> s.c.v, g |-> s.c.g], !.rev = @ + 1, !.key = s.c]
          /\ released' = released \cup {new} /\ approver' = [approver EXCEPT ![a] = on]
      BY <2>1 DEF Publish, NewRelease
    <3>2. release'.key = s.c
      BY <1>2, <3>1 DEF ReleaseRow
    <3> QED BY <3>1, <3>2
  <2>2. CASE ~fresh
    <3>1. UNCHANGED <<release, released>>
          /\ approver' = [approver EXCEPT ![a] = IF AlreadyPublished(s.c) THEN on ELSE IdleApprover]
      BY <2>2 DEF Publish
    <3> QED BY <3>1 DEF AlreadyPublished
  <2> QED BY <2>1, <2>2
<1> QED BY <1>7, <1>8, <1>9, <1>10

LEMMA DecidingApproval ==
  ASSUME TypeInv, TypeInv', ApprovalInv, NEW a \in Admins, Deciding(a)
  PROVE  ApprovalInv'
<1> DEFINE s == approver[a]
<1>1. /\ s \in ApproverRec /\ (s.pc # "idle" => s.c \in Candidates)
      /\ request \in [Candidates -> RequestRow] /\ Counts(s, a, approved)
      /\ s.pc = "settle" => IsReleased(s.c, released)
  BY DEF TypeInv, CallsTyped, Busy, EvidenceTyped, ApprovalInv
<1>2. Counts(IdleApprover, a, approved) /\ IdleApprover.pc # "settle"
  BY DEF IdleApprover, Counts
<1>3. CASE Reject(a) \/ Settle(a)
  <2>1. /\ approver' = [approver EXCEPT ![a] = IdleApprover]
        /\ UNCHANGED <<approved, released, decision, release>> /\ s.c \in Candidates
    BY <1>1, <1>3 DEF Reject, Settle, catalogVars, historyVars
  <2>2. \A c \in Candidates : request'[c].state = "published" =>
          request[c].state = "published" \/ IsReleased(c, released')
    <3>1. ASSUME NEW c \in Candidates, c # s.c PROVE request'[c] = request[c]
      BY <1>1, <1>3, <3>1 DEF Reject, Settle
    <3>2. CASE Reject(a)
      <4>1. request'[s.c].state = "rejected"
        BY <1>1, <2>1, <3>2 DEF Reject, RequestRow
      <4> QED BY <3>1, <4>1
    <3>3. CASE Settle(a)
      <4>1. IsReleased(s.c, released')
        BY <1>1, <2>1, <3>3 DEF Settle
      <4> QED BY <3>1, <4>1
    <3> QED BY <1>3, <3>2, <3>3
  <2>3. Recorded'
    BY <2>1 DEF ApprovalInv, Recorded
  <2> QED BY <1>2, <2>1, <2>2, <2>3, ApprovalKept
<1>4. CASE Reassess(a)
  <2> DEFINE on == [s EXCEPT !.pc = "publish"]
  <2>1. /\ UNCHANGED <<approved, released, decision, request, release>>
        /\ s.pc = "act" /\ s.verdict = "approved"
        /\ \/ approver' = [approver EXCEPT ![a] = on] /\ s.count >= s.required
           \/ approver' = [approver EXCEPT ![a] = IdleApprover]
    BY <1>4 DEF Reassess, Enough, catalogVars, evidenceVars, historyVars
  <2>2. Recorded'
    BY <2>1 DEF ApprovalInv, Recorded
  <2>3. on.pc = "publish" /\ on.c = s.c /\ on.required = s.required
    BY <1>1 DEF ApproverRec
  <2>4. ASSUME s.count >= s.required PROVE Counts(on, a, approved)
    <3>1. s.c \in Candidates /\ s.count \in Nat /\ s.required \in Nat
          /\ s.count <= Cardinality(approved[s.c])
      BY <1>1, <2>1 DEF Counts, ApproverRec
    <3>2. Cardinality(approved[s.c]) \in Nat
      BY <3>1, Countable DEF TypeInv, HistoryTyped
    <3> HIDE DEF on
    <3> QED BY <2>3, <2>4, <3>1, <3>2 DEF Counts
  <2> HIDE DEF on
  <2>5. CASE approver' = [approver EXCEPT ![a] = on] /\ s.count >= s.required
    BY <2>1, <2>2, <2>3, <2>4, <2>5, ApprovalKept
  <2>6. CASE approver' = [approver EXCEPT ![a] = IdleApprover]
    BY <1>2, <2>1, <2>2, <2>6, ApprovalKept
  <2> QED BY <2>1, <2>5, <2>6
<1>5. CASE ApproverCrashes(a)
  <2>1. /\ approver' = [approver EXCEPT ![a] = IdleApprover]
        /\ UNCHANGED <<approved, released, decision, request, release>>
    BY <1>5 DEF ApproverCrashes, catalogVars, evidenceVars, historyVars
  <2>2. Recorded'
    BY <2>1 DEF ApprovalInv, Recorded
  <2> QED BY <1>2, <2>1, <2>2, ApprovalKept
<1> QED BY <1>3, <1>4, <1>5, OpenApproval, RecordApproval, PublishApproval DEF Deciding

\* Whoever ever approved a candidate is counted: by each call, and so by what
\* is released.
LEMMA ReleasesCountedAlways == Spec => []ReleasesCounted
<1>1. Init => ApprovalInv
  BY DEF Init, ApprovalInv, ReleasesCounted, Recorded, Counts, IdleApprover, NoRequest
<1>2. TypeInv /\ TypeInv' /\ ApprovalInv /\ [Next]_vars => ApprovalInv'
  <2> SUFFICES ASSUME TypeInv, TypeInv', ApprovalInv, [Next]_vars PROVE ApprovalInv'
    OBVIOUS
  <2>1. ASSUME UNCHANGED <<approver, approved, released, release, decision, request>>
        PROVE  ApprovalInv'
    BY <2>1, ApprovalFrame
  <2>2. CASE UNCHANGED vars
    BY <2>1, <2>2 DEF vars
  <2>3. CASE PutPolicy
    BY <2>1, <2>3 DEF PutPolicy, catalogVars, evidenceVars, historyVars
  <2>4. ASSUME NEW a \in Admins, SetGroupMember(a) PROVE ApprovalInv'
    BY <2>1, <2>4 DEF SetGroupMember, catalogVars, evidenceVars, historyVars
  <2>5. ASSUME NEW c \in Candidates, NEW n \in Numbers, Lapse(c, n) PROVE ApprovalInv'
    BY <2>1, <2>5 DEF Lapse, catalogVars, historyVars
  <2> QED BY <2>2, <2>3, <2>4, <2>5, CataloguingApproval, ReviewingApproval,
             DecidingApproval DEF Next
<1>3. ApprovalInv => ReleasesCounted
  BY DEF ApprovalInv
<1> QED BY <1>1, <1>2, <1>3, TypeInvAlways, PTL DEF Spec

\* A decision that no review overtook: its request asks for what the call
\* read, and the approvals it counted still stand.
Standing(dec, c) == {b \in Admins : dec[c][b] = "approved"}

Stands(s, a, dec, req) ==
  s.pc # "idle" =>
    /\ s.required = req[s.c].required
    /\ s.pc = "record" /\ s.verdict = "approved" =>
         s.count <= Cardinality(Standing(dec, s.c) \cup {a})
    /\ s.pc = "act" /\ s.verdict = "approved" => s.count <= Cardinality(Standing(dec, s.c))
    /\ s.pc = "publish" => s.required <= Cardinality(Standing(dec, s.c))

StandingInv ==
  /\ \A r \in released : ~r.overtaken => r.approvals >= r.asked
  /\ \A a \in Admins : a \notin overtaken => Stands(approver[a], a, decision, request)
  /\ \A a \in Admins : approver[a].pc = "record" => decision[approver[a].c][a] = "none"

\* More approvals of the candidate, and the same number asked for.
LEMMA StandsMore ==
  ASSUME NEW dec, NEW more, NEW req, NEW req2, NEW a \in Admins,
         NEW s \in ApproverRec, s.pc # "idle" =>
           /\ Standing(dec, s.c) \subseteq Standing(more, s.c)
           /\ req2[s.c].required = req[s.c].required,
         Stands(s, a, dec, req)
  PROVE  Stands(s, a, more, req2)
<1>1. s.count \in Nat /\ s.required \in Nat
  BY DEF ApproverRec
<1>2. ASSUME s.pc # "idle"
      PROVE  /\ Cardinality(Standing(dec, s.c)) <= Cardinality(Standing(more, s.c))
             /\ Cardinality(Standing(dec, s.c) \cup {a}) <= Cardinality(Standing(more, s.c) \cup {a})
             /\ Cardinality(Standing(dec, s.c)) \in Nat /\ Cardinality(Standing(more, s.c)) \in Nat
             /\ Cardinality(Standing(dec, s.c) \cup {a}) \in Nat
             /\ Cardinality(Standing(more, s.c) \cup {a}) \in Nat
  <2>1. Standing(dec, s.c) \in SUBSET Admins /\ Standing(more, s.c) \in SUBSET Admins
    BY DEF Standing
  <2>2. /\ Standing(dec, s.c) \cup {a} \in SUBSET Admins /\ Standing(more, s.c) \cup {a} \in SUBSET Admins
        /\ Standing(dec, s.c) \subseteq Standing(more, s.c)
        /\ Standing(dec, s.c) \cup {a} \subseteq Standing(more, s.c) \cup {a}
    BY <1>2, <2>1
  <2> QED BY <2>1, <2>2, MoreApprovals, Countable
<1> QED BY <1>1, <1>2 DEF Stands

\* A step that changes the call of at most one administrator, and takes back
\* approvals or asks for more only of calls it overtakes.
LEMMA StandingKept ==
  ASSUME TypeInv, StandingInv, NEW rec, NEW a \in Admins,
         approver' = [approver EXCEPT ![a] = rec],
         a \notin overtaken' => Stands(rec, a, decision', request'),
         \A b \in Admins : b # a /\ b \notin overtaken' =>
           /\ b \notin overtaken
           /\ approver[b].pc # "idle" =>
                /\ Standing(decision, approver[b].c) \subseteq Standing(decision', approver[b].c)
                /\ request'[approver[b].c].required = request[approver[b].c].required,
         \A r \in released' \ released : ~r.overtaken => r.approvals >= r.asked,
         rec.pc = "record" => decision'[rec.c][a] = "none",
         \A c \in Candidates, b \in Admins :
           b # a => decision'[c][b] \in {decision[c][b], "none"}
  PROVE  StandingInv'
<1>1. approver \in [Admins -> ApproverRec]
  BY DEF TypeInv, CallsTyped
<1>2. ASSUME NEW b \in Admins, b # a, b \notin overtaken'
      PROVE  Stands(approver'[b], b, decision', request')
  <2>1. approver'[b] = approver[b] /\ approver[b] \in ApproverRec
    BY <1>1, <1>2
  <2>2. Stands(approver[b], b, decision, request)
    BY <1>2 DEF StandingInv
  <2>3. Stands(approver[b], b, decision', request')
    BY <1>2, <2>1, <2>2, StandsMore
  <2> QED BY <2>1, <2>3
<1>3. a \notin overtaken' => Stands(approver'[a], a, decision', request')
  BY <1>1
<1>4. \A r \in released' : ~r.overtaken => r.approvals >= r.asked
  BY DEF StandingInv
<1>5. \A b \in Admins : approver'[b].pc = "record" => decision'[approver'[b].c][b] = "none"
  <2>1. ASSUME NEW b \in Admins, b # a, approver[b].pc = "record"
        PROVE  decision'[approver[b].c][b] = "none"
    BY <2>1 DEF TypeInv, CallsTyped, Busy, StandingInv
  <2> QED BY <1>1, <2>1
<1> QED BY <1>2, <1>3, <1>4, <1>5 DEF StandingInv

\* A step that is not a decision's.
LEMMA StandingFrame ==
  ASSUME TypeInv, StandingInv, UNCHANGED <<approver, released>>, overtaken \subseteq overtaken',
         \A b \in Admins : b \notin overtaken' /\ approver[b].pc # "idle" =>
           /\ Standing(decision, approver[b].c) \subseteq Standing(decision', approver[b].c)
           /\ request'[approver[b].c].required = request[approver[b].c].required,
         \A c \in Candidates, b \in Admins : decision'[c][b] \in {decision[c][b], "none"}
  PROVE  StandingInv'
<1>1. ASSUME NEW b \in Admins, b \notin overtaken'
      PROVE  Stands(approver'[b], b, decision', request')
  <2>1. approver[b] \in ApproverRec /\ Stands(approver[b], b, decision, request)
    BY <1>1 DEF TypeInv, CallsTyped, StandingInv
  <2> QED BY <1>1, <2>1, StandsMore
<1>2. \A b \in Admins : approver'[b].pc = "record" => decision'[approver'[b].c][b] = "none"
  BY DEF TypeInv, CallsTyped, Busy, StandingInv
<1> QED BY <1>1, <1>2 DEF StandingInv

LEMMA ReviewingStands ==
  ASSUME TypeInv, StandingInv, NEW p \in Reviewers, Sweeping(p) \/ Reviewing(p)
  PROVE  StandingInv'
<1> DEFINE d == reviewer[p].c
<1>1. /\ request \in [Candidates -> RequestRow]
      /\ decision \in [Candidates -> [Admins -> {"none", "approved", "rejected"}]]
      /\ \A b \in Admins : approver[b].pc # "idle" => approver[b].c \in Candidates
  BY DEF TypeInv, EvidenceTyped, CallsTyped, Busy
<1>2. CASE ResetDecisions(p) \/ SaveRequest(p)
  <2>1. /\ UNCHANGED <<approver, released>>
        /\ overtaken' = overtaken \cup {b \in Admins : approver[b].pc # "idle" /\ approver[b].c = d}
    BY <1>2 DEF ResetDecisions, SaveRequest, Overtakes
  <2>2. \A c \in Candidates : c # d => decision'[c] = decision[c] /\ request'[c] = request[c]
    BY <1>1, <1>2 DEF ResetDecisions, SaveRequest
  <2>3. \A c \in Candidates, b \in Admins : decision'[c][b] \in {decision[c][b], "none"}
    BY <1>1, <1>2 DEF ResetDecisions, SaveRequest
  <2> QED BY <1>1, <2>1, <2>2, <2>3, StandingFrame DEF Standing
<1>3. CASE MarkStale(p) \/ MarkExpired(p)
  <2>1. UNCHANGED <<approver, released, overtaken, decision>>
    BY <1>3 DEF MarkStale, MarkExpired, historyVars
  <2>2. request' = request \/ request' = [request EXCEPT ![d].state = "needs_info"]
    BY <1>3 DEF MarkStale, MarkExpired
  <2>3. \A c \in Candidates : request'[c].required = request[c].required
    BY <1>1, <2>2 DEF RequestRow
  <2> QED BY <1>1, <2>1, <2>3, StandingFrame
<1>4. CASE UNCHANGED <<approver, released, overtaken, decision, request>>
  BY <1>4, StandingFrame
<1> QED BY <1>2, <1>3, <1>4 DEF Sweeping, SelectStale, SelectDue, SelectPurgeable, Selects, Purge,
     Reviewing, ReviewJob, SaveReview, evidenceVars, historyVars

\* The call reads what the request asks for and which approvals stand.
LEMMA OpenStands ==
  ASSUME TypeInv, StandingInv, NEW a \in Admins, NEW c \in Candidates,
         NEW verdict \in {"approved", "rejected"}, Open(a, c, verdict)
  PROVE  StandingInv'
<1> DEFINE to    == IF decision[c][a] = "none" THEN "record" ELSE "act"
           count == Counted(a, c, verdict)
           asked == request[c].required
           rec   == [pc |-> to, c |-> c, verdict |-> verdict, required |-> asked, count |-> count]
<1>1. /\ approver' = [approver EXCEPT ![a] = rec] /\ overtaken' = overtaken \ {a}
      /\ UNCHANGED <<released, request, decision>> /\ decision[c][a] \in {"none", verdict}
  BY DEF Open, Admissible, evidenceVars
<1>2. Cardinality(Standing(decision, c)) = Approvals(c) /\ Approvals(c) \in Nat
  <2>1. Standing(decision, c) \in SUBSET Admins
    BY DEF Standing
  <2> QED BY <2>1, Countable DEF Standing, Approvals
<1>3. ASSUME to = "record", verdict = "approved"
      PROVE  count <= Cardinality(Standing(decision, c) \cup {a})
  <2>1. decision[c][a] = "none" /\ a \notin Standing(decision, c)
        /\ Standing(decision, c) \in SUBSET Admins
    BY <1>3 DEF Standing
  <2>2. count = Approvals(c) + 1
    BY <1>3, <2>1 DEF Counted
  <2>3. Cardinality(Standing(decision, c) \cup {a}) = Cardinality(Standing(decision, c)) + 1
    BY <2>1, Countable, FS_AddElement
  <2> QED BY <1>2, <2>2, <2>3
<1>4. ASSUME to = "act", verdict = "approved" PROVE count <= Cardinality(Standing(decision, c))
  <2>1. count = Approvals(c)
    BY <1>1, <1>4 DEF Counted
  <2> QED BY <1>2, <2>1
<1>5. to \in {"record", "act"}
  OBVIOUS
<1> HIDE DEF to, count, asked
<1>6. Stands(rec, a, decision', request') /\ (rec.pc = "record" => decision'[rec.c][a] = "none")
  BY <1>1, <1>3, <1>4, <1>5 DEF Stands, asked, to
<1> HIDE DEF rec
<1> QED BY <1>1, <1>6, StandingKept

LEMMA RecordStands ==
  ASSUME TypeInv, StandingInv, NEW a \in Admins, RecordDecision(a)
  PROVE  StandingInv'
<1> DEFINE s   == approver[a]
           rec == [s EXCEPT !.pc = "act"]
<1>1. /\ approver' = [approver EXCEPT ![a] = rec] /\ s.pc = "record"
      /\ UNCHANGED <<released, request, overtaken>>
      /\ decision' = [decision EXCEPT ![s.c][a] = s.verdict]
  BY DEF RecordDecision
<1>2. /\ s \in ApproverRec /\ s.c \in Candidates
      /\ decision \in [Candidates -> [Admins -> {"none", "approved", "rejected"}]]
      /\ \A b \in Admins : approver[b].pc # "idle" => approver[b].c \in Candidates
      /\ a \notin overtaken => Stands(s, a, decision, request)
      /\ decision[s.c][a] = "none"
  BY <1>1 DEF TypeInv, CallsTyped, Busy, EvidenceTyped, StandingInv
<1>3. /\ rec.pc = "act" /\ rec.c = s.c /\ rec.verdict = s.verdict /\ rec.count = s.count
      /\ rec.required = s.required
  BY <1>2 DEF ApproverRec
<1>4. s.verdict = "approved" => Standing(decision', s.c) = Standing(decision, s.c) \cup {a}
  BY <1>1, <1>2 DEF Standing
<1>5. a \notin overtaken' => Stands(rec, a, decision', request')
  <2> HIDE DEF rec
  <2> QED BY <1>1, <1>2, <1>3, <1>4 DEF Stands
<1>6. ASSUME NEW b \in Admins, b # a, b \notin overtaken', approver[b].pc # "idle"
      PROVE  Standing(decision, approver[b].c) \subseteq Standing(decision', approver[b].c)
  <2>1. CASE approver[b].c = s.c
    <3>1. Standing(decision, s.c) \subseteq Standing(decision', s.c)
      BY <1>1, <1>2 DEF Standing
    <3> QED BY <1>1, <2>1, <3>1
  <2>2. CASE approver[b].c # s.c
    BY <1>1, <1>2, <1>6, <2>2 DEF Standing
  <2> QED BY <2>1, <2>2
<1>7. \A c \in Candidates, b \in Admins : b # a => decision'[c][b] = decision[c][b]
  BY <1>1, <1>2
<1> HIDE DEF rec
<1> QED BY <1>1, <1>3, <1>5, <1>6, <1>7, StandingKept

\* What is released rests on the approvals that stand at that moment.
LEMMA PublishStands ==
  ASSUME TypeInv, StandingInv, NEW a \in Admins, Publish(a)
  PROVE  StandingInv'
<1> DEFINE s   == approver[a]
           new == NewRelease(a)
           on  == [s EXCEPT !.pc = "settle"]
<1>1. /\ UNCHANGED <<overtaken, request, decision>> /\ s.pc = "publish"
      /\ released' = released \/ released' = released \cup {new}
  <2> DEFINE fresh == /\ release.key # s.c /\ IsCurrent(s.c)
                      /\ Serves(s.c.v) /\ index[s.c.v].gen = s.c.g /\ MayPublish
  <2>1. CASE fresh
    BY <2>1 DEF Publish, NewRelease, evidenceVars
  <2>2. CASE ~fresh
    BY <2>2 DEF Publish, evidenceVars
  <2> QED BY <2>1, <2>2
<1>2. /\ s \in ApproverRec /\ s.c \in Candidates
      /\ a \notin overtaken => Stands(s, a, decision, request)
  BY <1>1 DEF TypeInv, CallsTyped, Busy, StandingInv
<1>3. \E rec \in {on, IdleApprover} : approver' = [approver EXCEPT ![a] = rec]
  <2>1. approver' = [approver EXCEPT ![a] = on] \/ approver' = [approver EXCEPT ![a] = IdleApprover]
    BY DEF Publish
  <2> QED BY <2>1
<1>4. on.pc = "settle" /\ on.c = s.c /\ on.required = s.required
  BY <1>2 DEF ApproverRec
<1>5. /\ a \notin overtaken => Stands(on, a, decision, request) /\ Stands(IdleApprover, a, decision, request)
      /\ on.pc # "record" /\ IdleApprover.pc # "record"
  <2> HIDE DEF on
  <2> QED BY <1>1, <1>2, <1>4 DEF Stands, IdleApprover
<1>6. ~new.overtaken => new.approvals >= new.asked
  <2>1. /\ new.overtaken = (a \in overtaken) /\ new.asked = request[s.c].required
        /\ new.approvals = Cardinality(Standing(decision, s.c))
    BY DEF NewRelease, Approvals, Standing
  <2>2. Standing(decision, s.c) \in SUBSET Admins /\ s.required \in Nat
    BY <1>2 DEF Standing, ApproverRec
  <2>3. Cardinality(Standing(decision, s.c)) \in Nat
    BY <2>2, Countable
  <2> HIDE DEF new
  <2> QED BY <1>1, <1>2, <2>1, <2>2, <2>3 DEF Stands
<1> HIDE DEF new, on
<1>7. PICK rec \in {on, IdleApprover} : approver' = [approver EXCEPT ![a] = rec]
  BY <1>3
<1> QED BY <1>1, <1>5, <1>6, <1>7, StandingKept

LEMMA DecidingStands ==
  ASSUME TypeInv, StandingInv, NEW a \in Admins, Deciding(a)
  PROVE  StandingInv'
<1> DEFINE s  == approver[a]
           on == [s EXCEPT !.pc = "publish"]
<1>1. /\ s \in ApproverRec /\ (s.pc # "idle" => s.c \in Candidates)
      /\ request \in [Candidates -> RequestRow]
      /\ \A b \in Admins : approver[b].pc # "idle" => approver[b].c \in Candidates
      /\ a \notin overtaken => Stands(s, a, decision, request)
  BY DEF TypeInv, CallsTyped, Busy, EvidenceTyped, StandingInv
<1>2. Stands(IdleApprover, a, decision', request') /\ IdleApprover.pc # "record"
  BY DEF IdleApprover, Stands
<1>3. CASE Reject(a) \/ Settle(a) \/ ApproverCrashes(a)
  <2>1. /\ approver' = [approver EXCEPT ![a] = IdleApprover]
        /\ UNCHANGED <<released, overtaken, decision>>
    BY <1>3 DEF Reject, Settle, ApproverCrashes, evidenceVars, historyVars
  <2>2. \A c \in Candidates : request'[c].required = request[c].required
    BY <1>1, <1>3 DEF Reject, Settle, ApproverCrashes, RequestRow, evidenceVars
  <2> QED BY <1>1, <1>2, <2>1, <2>2, StandingKept
<1>4. CASE Reassess(a)
  <2>1. /\ UNCHANGED <<released, overtaken, decision, request>>
        /\ s.pc = "act" /\ s.verdict = "approved"
        /\ \/ approver' = [approver EXCEPT ![a] = on] /\ s.count >= s.required
           \/ approver' = [approver EXCEPT ![a] = IdleApprover]
    BY <1>4 DEF Reassess, Enough, evidenceVars, historyVars
  <2>2. on.pc = "publish" /\ on.c = s.c /\ on.required = s.required
    BY <1>1 DEF ApproverRec
  <2>3. ASSUME s.count >= s.required, a \notin overtaken PROVE Stands(on, a, decision, request)
    <3>1. s.count \in Nat /\ s.required \in Nat /\ Standing(decision, s.c) \in SUBSET Admins
      BY <1>1 DEF ApproverRec, Standing
    <3>2. Cardinality(Standing(decision, s.c)) \in Nat
      BY <3>1, Countable
    <3> HIDE DEF on
    <3> QED BY <1>1, <2>1, <2>2, <2>3, <3>1, <3>2 DEF Stands
  <2> HIDE DEF on
  <2>4. CASE approver' = [approver EXCEPT ![a] = on] /\ s.count >= s.required
    BY <2>1, <2>2, <2>3, <2>4, StandingKept
  <2>5. CASE approver' = [approver EXCEPT ![a] = IdleApprover]
    BY <1>2, <2>1, <2>5, StandingKept
  <2> QED BY <2>1, <2>4, <2>5
<1> QED BY <1>3, <1>4, OpenStands, RecordStands, PublishStands DEF Deciding

(* A candidate is released only on as many approvals of exactly it, each of *)
(* another administrator, as its request asks for at that moment, however   *)
(* many calls of Decide, policies, retries and crashes interleave.  A       *)
(* decision that a new review overtook is the exception: it still rests on  *)
(* as many administrators who ever approved exactly that candidate as the   *)
(* request asked for when the call read it.  And a request says published   *)
(* only once its candidate was released.                                    *)
THEOREM ReleaseHasItsApprovalsAlways == Spec => []ReleaseHasItsApprovals
<1>1. Init => StandingInv
  BY DEF Init, StandingInv, Stands, IdleApprover
<1>2. TypeInv /\ StandingInv /\ [Next]_vars => StandingInv'
  <2> SUFFICES ASSUME TypeInv, StandingInv, [Next]_vars PROVE StandingInv'
    OBVIOUS
  <2>1. ASSUME UNCHANGED <<approver, released, overtaken, decision, request>>
        PROVE  StandingInv'
    BY <2>1, StandingFrame
  <2>2. CASE UNCHANGED vars
    BY <2>1, <2>2 DEF vars
  <2>3. CASE PutPolicy
    BY <2>1, <2>3 DEF PutPolicy, evidenceVars, historyVars
  <2>4. ASSUME NEW a \in Admins, SetGroupMember(a) PROVE StandingInv'
    BY <2>1, <2>4 DEF SetGroupMember, evidenceVars, historyVars
  <2>5. ASSUME NEW c \in Candidates, NEW n \in Numbers, Lapse(c, n) PROVE StandingInv'
    BY <2>1, <2>5 DEF Lapse, historyVars
  <2>6. CASE Cataloguing
    BY <2>1, <2>6 DEF Cataloguing, Admit, AcceptDeletion, Activate, Complete, Diverge, Reprocess,
       PatchPublication, PatchGovernance, evidenceVars, historyVars
  <2>7. ASSUME NEW p \in Reviewers, ReviewerCrashes(p) \/ \E a \in Admins : ReviewByHand(p, a)
        PROVE  StandingInv'
    BY <2>1, <2>7 DEF ReviewerCrashes, ReviewByHand, evidenceVars, historyVars
  <2> QED BY <2>2, <2>3, <2>4, <2>5, <2>6, <2>7, ReviewingStands, DecidingStands DEF Next
<1>3. ReleasesCounted /\ StandingInv => ReleaseHasItsApprovals
  BY DEF ReleasesCounted, StandingInv, ReleaseHasItsApprovals
<1> QED BY <1>1, <1>2, <1>3, TypeInvAlways, ReleasesCountedAlways, PTL DEF Spec


-----------------------------------------------------------------------------
(***************************************************************************)
(* The autonomous pre-review (module Review), for every set of replicas,   *)
(* builds, chunks, models, proposals and contents and every bound.         *)
(*                                                                         *)
(* First what the deterministic checks make of a content, then what every  *)
(* run has on record.  Of a verdict that is saved two things are proved:   *)
(* that it is no laxer than the content of its build demands, and that it  *)
(* names the model that took every decision behind it.                     *)
(***************************************************************************)

LEMMA LeastExists ==
  ASSUME NEW S \in SUBSET Nat, S # {}
  PROVE  \E n \in S : \A m \in S : n <= m
<1>1. PICK n \in S : \A m \in S : ~(<<m, n>> \in OpToRel(<, Nat))
  BY NatLessThanWellFounded, WFMin
<1>2. \A m \in S : ~(m < n)
  BY <1>1 DEF OpToRel
<1> QED BY <1>2

\* The strictest of some risks is one of them.
LEMMA StrictestRisk ==
  ASSUME NEW S \in SUBSET Risks, S # {}
  PROVE  MaxRisk(S) \in S /\ \A q \in S : q <= MaxRisk(S)
<1>1. \E r \in S : \A q \in S : q <= r
  <2>0. Risks = {1, 2, 3, 4}
    BY DEF Risks
  <2>1. CASE 4 \in S
    BY <2>1 DEF Risks
  <2>2. CASE 4 \notin S /\ 3 \in S
    BY <2>2 DEF Risks
  <2>3. CASE 4 \notin S /\ 3 \notin S /\ 2 \in S
    BY <2>3 DEF Risks
  <2>4. CASE 4 \notin S /\ 3 \notin S /\ 2 \notin S
    <3>1. S = {1}
      BY <2>0, <2>4
    <3> QED BY <3>1
  <2> QED BY <2>1, <2>2, <2>3, <2>4
<1> QED BY <1>1 DEF MaxRisk

\* The strictest of the recommendations the checks make is one of them.
LEMMA StrictestRecommendation ==
  ASSUME NEW run
  PROVE  FloorRec(run) \in FloorRecs(run)
         /\ \A y \in FloorRecs(run) : Rank(y) <= Rank(FloorRec(run))
<1> DEFINE S == FloorRecs(run)
<1>1. \E x \in S : \A y \in S : Rank(y) <= Rank(x)
  <2>1. \A y : Rank(y) \in {1, 2, 3}
    BY DEF Rank
  <2>2. "publish" \in S
    BY DEF FloorRecs
  <2> HIDE DEF S
  <2>3. CASE \E x \in S : Rank(x) = 3
    BY <2>1, <2>3
  <2>4. CASE (\A x \in S : Rank(x) # 3) /\ \E x \in S : Rank(x) = 2
    BY <2>1, <2>4
  <2>5. CASE \A x \in S : Rank(x) # 3 /\ Rank(x) # 2
    BY <2>1, <2>2, <2>5
  <2> QED BY <2>3, <2>4, <2>5
<1> QED BY <1>1 DEF FloorRec

-----------------------------------------------------------------------------
(* The checks.                                                             *)

WorldTyped ==
  world \in [content : [Generations -> [Chunks -> Kinds]],
             internal : BOOLEAN, configured : BOOLEAN]

\* What a check that looked at all of build g must have said.
Demands(o, g) ==
  LET t == world.content[g] IN
  /\ o.tool = "scan_injection" /\ ~o.failed =>
       /\ Of(t, "blank") # Chunks
       /\ Of(t, "injection") # {} => o.risk >= High /\ Rank(o.rec) >= 2
  /\ o.tool = "scan_sensitive" /\ ~o.failed =>
       /\ Of(t, "secret") # {} => o.risk >= High
       /\ (world.internal /\ Of(t, "secret") # {})
            \/ (Exposed(g) = {} /\ Of(t, "placeholder") # {})
          => o.risk >= Medium /\ Rank(o.rec) >= 2
  /\ o.tool = "fitness" /\ Of(t, "informal") # {} => o.risk >= Medium /\ Rank(o.rec) >= 2

\* An observation of build g.
ObservationOf(o, g) == o.cand = g /\ o.risk \in Risks /\ Demands(o, g)

LEMMA PairsWith ==
  ASSUME NEW x, NEW S
  PROVE  {x} \X S = {} <=> S = {}
<1>1. ASSUME NEW c \in S PROVE <<x, c>> \in {x} \X S
  OBVIOUS
<1>2. ASSUME NEW p \in {x} \X S PROVE p[2] \in S
  OBVIOUS
<1> QED BY <1>1, <1>2

LEMMA FirstOfSome ==
  ASSUME NEW S \in SUBSET Chunks, S # {}
  PROVE  FirstOf(S) # {}
<1>1. S \in SUBSET Nat
  BY ReviewAssumption
<1>2. PICK n \in S : \A m \in S : n <= m
  BY <1>1, LeastExists
<1> QED BY <1>2 DEF FirstOf

\* AnalyzeContent, said of the kinds of chunk there are.
LEMMA Analyzed ==
  ASSUME WorldTyped, NEW t \in [Chunks -> Kinds]
  PROVE  LET a == AnalyzeContent(t) IN
         /\ a.failed <=> Of(t, "blank") = Chunks
         /\ a.risk \in Risks
         /\ \A c \in Of(t, "injection") : <<"prompt_injection_detected", c>> \in a.findings
         /\ \A c \in Of(t, "secret") : <<"sensitive_data_detected", c>> \in a.findings
         /\ Of(t, "injection") # {} => a.risk = High /\ a.rec = "needs_info"
         /\ Of(t, "secret") # {} => a.risk = High
         /\ world.internal /\ Of(t, "secret") # {} => a.rec = "needs_info"
         /\ Of(t, "injection") \union Of(t, "secret") = {} /\ Of(t, "placeholder") # {} =>
              /\ a.risk = Medium /\ a.rec = "needs_info"
              /\ \E c : <<"insufficient_evidence", c>> \in a.findings
<1>1. DOMAIN t = Chunks
  OBVIOUS
<1>2. Injections(t) # {} <=> Of(t, "injection") # {}
  BY PairsWith DEF Injections
<1>3. Secrets(t) # {} <=> Of(t, "secret") # {}
  BY PairsWith DEF Secrets
<1>4. /\ \A c \in Of(t, "injection") : <<"prompt_injection_detected", c>> \in Injections(t)
      /\ \A c \in Of(t, "secret") : <<"sensitive_data_detected", c>> \in Secrets(t)
  BY DEF Injections, Secrets
<1>5. ASSUME Of(t, "injection") \union Of(t, "secret") = {}, Of(t, "placeholder") # {}
      PROVE  \E c : <<"insufficient_evidence", c>> \in Placeholders(t)
  <2>1. Of(t, "placeholder") \subseteq Chunks \ Of(t, "blank")
    BY DEF Of
  <2>2. Injections(t) \union Secrets(t) = {}
    <3>1. Of(t, "injection") = {} /\ Of(t, "secret") = {}
      BY <1>5
    <3> QED BY <1>2, <1>3, <3>1
  <2>3. PICK c \in FirstOf(Chunks \ Of(t, "blank")) : TRUE
    BY <1>5, <2>1, FirstOfSome
  <2>4. Placeholders(t) = {"insufficient_evidence"} \X FirstOf(Chunks \ Of(t, "blank"))
    BY <1>1, <1>5, <2>2 DEF Placeholders
  <2> QED BY <2>3, <2>4
<1>6. Low \in Risks /\ Medium \in Risks /\ High \in Risks
  BY DEF Low, Medium, High, Risks
<1> DEFINE exposed  == Injections(t) \union Secrets(t)
           blocking == Injections(t) # {} \/ Placeholders(t) # {}
                       \/ (Secrets(t) # {} /\ world.internal)
           a == [failed   |-> Of(t, "blank") = DOMAIN t,
                 findings |-> exposed \union Placeholders(t),
                 risk     |-> IF exposed # {} THEN High
                              ELSE IF Placeholders(t) # {} THEN Medium ELSE Low,
                 rec      |-> IF blocking THEN "needs_info" ELSE "publish"]
<1>7. AnalyzeContent(t) = a
  BY DEF AnalyzeContent
<1>8. /\ a.failed = (Of(t, "blank") = Chunks) /\ a.findings = exposed \union Placeholders(t)
      /\ a.risk = IF exposed # {} THEN High ELSE IF Placeholders(t) # {} THEN Medium ELSE Low
      /\ a.rec = IF blocking THEN "needs_info" ELSE "publish"
  BY <1>1
<1>9. a.risk \in Risks
  BY <1>6, <1>8
<1>10. /\ \A c \in Of(t, "injection") : <<"prompt_injection_detected", c>> \in a.findings
       /\ \A c \in Of(t, "secret") : <<"sensitive_data_detected", c>> \in a.findings
  BY <1>4, <1>8
<1>11. /\ Of(t, "injection") # {} => a.risk = High /\ a.rec = "needs_info"
       /\ Of(t, "secret") # {} => a.risk = High
       /\ world.internal /\ Of(t, "secret") # {} => a.rec = "needs_info"
  BY <1>2, <1>3, <1>8
<1>12. ASSUME Of(t, "injection") \union Of(t, "secret") = {}, Of(t, "placeholder") # {}
       PROVE  /\ a.risk = Medium /\ a.rec = "needs_info"
              /\ \E c : <<"insufficient_evidence", c>> \in a.findings
  <2>1. exposed = {} /\ Placeholders(t) # {}
    BY <1>2, <1>3, <1>5, <1>12
  <2> QED BY <1>5, <1>8, <1>12, <2>1
<1> HIDE DEF a
<1> QED BY <1>7, <1>8, <1>9, <1>10, <1>11, <1>12

\* A tool call of a run whose candidate and chunks are all there.
LEMMA ObservedDemands ==
  ASSUME WorldTyped, candidate \in Generations, missing = {}, NEW call
  PROVE  ObservationOf(Observed(call), candidate) /\ Observed(call).tool = call.tool
<1> DEFINE g == candidate
           t == world.content[g]
           seen == [c \in Chunks \ missing |-> world.content[candidate][c]]
           look == CASE call.tool \in {"scan_sensitive", "scan_injection"} -> Scan(call.tool, t)
                     [] call.tool = "fitness" -> Fitness(t, call.args)
                     [] OTHER -> [failed |-> FALSE, findings |-> {}, risk |-> Low, rec |-> "publish"]
           o == Observed(call)
<1>1. t \in [Chunks -> Kinds]
  BY DEF WorldTyped
<1>2. seen = t
  BY <1>1
<1>3. /\ o.tool = call.tool /\ o.cand = g /\ o.failed = look.failed
      /\ o.risk = look.risk /\ o.rec = look.rec
  BY <1>2 DEF Observed
<1>4. Low \in Risks /\ Medium \in Risks /\ High \in Risks
  BY DEF Low, Medium, High, Risks
<1> DEFINE a == AnalyzeContent(t)
           mine == {f \in a.findings : f[1] \in ScanCodes(call.tool)}
<1>5. /\ a.failed <=> Of(t, "blank") = Chunks
      /\ a.risk \in Risks
      /\ \A c \in Of(t, "injection") : <<"prompt_injection_detected", c>> \in a.findings
      /\ \A c \in Of(t, "secret") : <<"sensitive_data_detected", c>> \in a.findings
      /\ Of(t, "injection") # {} => a.risk = High /\ a.rec = "needs_info"
      /\ Of(t, "secret") # {} => a.risk = High
      /\ world.internal /\ Of(t, "secret") # {} => a.rec = "needs_info"
      /\ Of(t, "injection") \union Of(t, "secret") = {} /\ Of(t, "placeholder") # {} =>
           /\ a.risk = Medium /\ a.rec = "needs_info"
           /\ \E c : <<"insufficient_evidence", c>> \in a.findings
  BY <1>1, Analyzed
<1>6. ASSUME call.tool \in {"scan_sensitive", "scan_injection"}
      PROVE  /\ look.risk \in Risks
             /\ look.failed <=> a.failed
             /\ ~a.failed /\ mine # {} => look.risk = a.risk /\ look.rec = a.rec
  <2>1. look = Scan(call.tool, t)
    BY <1>6
  <2>2. /\ Scan(call.tool, t).risk \in Risks
        /\ Scan(call.tool, t).failed <=> a.failed
        /\ ~a.failed /\ mine # {} =>
             Scan(call.tool, t).risk = a.risk /\ Scan(call.tool, t).rec = a.rec
    <3>1. a.failed \in BOOLEAN
      BY DEF AnalyzeContent
    <3>2. CASE a.failed
      <4>1. Scan(call.tool, t) = [failed |-> TRUE, findings |-> {}, risk |-> High, rec |-> "manual_review"]
        BY <3>2 DEF Scan
      <4> QED BY <1>4, <3>1, <3>2, <4>1
    <3>3. CASE ~a.failed /\ mine = {}
      <4>1. Scan(call.tool, t) = [failed |-> FALSE, findings |-> {}, risk |-> Low, rec |-> "publish"]
        BY <3>3 DEF Scan
      <4> QED BY <1>4, <3>1, <3>3, <4>1
    <3>4. CASE ~a.failed /\ mine # {}
      <4>1. Scan(call.tool, t) = [failed |-> FALSE, findings |-> mine, risk |-> a.risk, rec |-> a.rec]
        BY <3>4 DEF Scan
      <4> QED BY <1>5, <3>1, <3>4, <4>1
    <3> QED BY <3>2, <3>3, <3>4
  <2> QED BY <2>1, <2>2
<1> HIDE DEF a, look, o, seen
<1>7. ASSUME call.tool = "scan_injection" PROVE ObservationOf(o, g)
  <2>1. Of(t, "injection") # {} => mine # {}
    <3>1. \A c : <<"prompt_injection_detected", c>>[1] \in ScanCodes(call.tool)
      BY <1>7 DEF ScanCodes
    <3> QED BY <1>5, <3>1
  <2> QED BY <1>3, <1>5, <1>6, <1>7, <2>1 DEF ObservationOf, Demands, Rank, High
<1>8. ASSUME call.tool = "scan_sensitive" PROVE ObservationOf(o, g)
  <2>1. \A c : /\ <<"sensitive_data_detected", c>>[1] \in ScanCodes(call.tool)
               /\ <<"insufficient_evidence", c>>[1] \in ScanCodes(call.tool)
    BY <1>8 DEF ScanCodes
  <2>2. Of(t, "secret") # {} => mine # {}
    BY <1>5, <2>1
  <2>3. Exposed(g) = {} /\ Of(t, "placeholder") # {} => mine # {} /\ a.risk = Medium /\ a.rec = "needs_info"
    BY <1>5, <2>1 DEF Exposed
  <2> HIDE DEF mine
  <2> QED BY <1>3, <1>5, <1>6, <1>8, <2>2, <2>3 DEF ObservationOf, Demands, Rank, High, Medium
<1>9. ASSUME call.tool = "fitness" PROVE ObservationOf(o, g)
  <2>1. look = Fitness(t, call.args)
    BY <1>9 DEF look
  <2>2. /\ Fitness(t, call.args).risk \in Risks
        /\ Of(t, "informal") # {} =>
             Fitness(t, call.args).risk = Medium /\ Fitness(t, call.args).rec = "needs_info"
    BY <1>4 DEF Fitness
  <2> QED BY <1>3, <1>9, <2>1, <2>2 DEF ObservationOf, Demands, Rank, Medium
<1>10. ASSUME call.tool \notin {"scan_sensitive", "scan_injection", "fitness"}
       PROVE  ObservationOf(o, g)
  <2>1. look = [failed |-> FALSE, findings |-> {}, risk |-> Low, rec |-> "publish"]
    BY <1>10 DEF look
  <2> QED BY <1>3, <1>4, <1>10, <2>1 DEF ObservationOf, Demands
<1> QED BY <1>3, <1>7, <1>8, <1>9, <1>10 DEF o


\* A run that did what a review has to do is judged no laxer than the whole
\* content of its build demands, whatever its report says.
LEMMA VerdictOfChecks ==
  ASSUME WorldTyped, NEW g \in Generations, NEW run,
         \A o \in run.seen : ObservationOf(o, g), Conclusive(run), run.final.risk \in Risks
  PROVE  IsVerdictOn(Validated(run), g)
<1> DEFINE t == world.content[g]
           risk == Validated(run).risk
           rec == Validated(run).rec
           risks == {Low} \union {o.risk : o \in Judged(run)}
<1>0. \A x : Rank(x) \in {1, 2, 3}
  BY DEF Rank
<1>1. risks \in SUBSET Risks /\ risks # {}
  BY DEF Judged, ObservationOf, Low, Risks
<1>2. FloorRisk(run) \in Risks /\ \A o \in Judged(run) : o.risk <= FloorRisk(run)
  BY <1>1, StrictestRisk DEF FloorRisk
<1>3. \A o \in Judged(run) : Rank(o.rec) <= Rank(FloorRec(run))
  BY StrictestRecommendation DEF FloorRecs
<1>4. risk >= FloorRisk(run)
  <2>1. CASE Findings(run) = {}
    BY <1>2, <2>1 DEF Validated, Risks
  <2>2. CASE Findings(run) # {}
    <3> DEFINE two == {run.final.risk, FloorRisk(run)}
    <3>1. two \in SUBSET Risks /\ two # {}
      BY <1>2
    <3>2. MaxRisk(two) >= FloorRisk(run)
      BY <1>2, <3>1, StrictestRisk DEF Risks
    <3> QED BY <2>2, <3>2 DEF Validated
  <2> QED BY <2>1, <2>2
<1>5. Rank(rec) >= Rank(FloorRec(run))
  <2>1. rec = FloorRec(run) \/ (rec = run.final.rec /\ ~(Rank(rec) < Rank(FloorRec(run))))
    BY DEF Validated
  <2> QED BY <1>0, <2>1
<1>6. risk \in Risks
  <2>1. CASE Findings(run) = {}
    BY <1>2, <2>1 DEF Validated
  <2>2. CASE Findings(run) # {}
    <3> DEFINE two == {run.final.risk, FloorRisk(run)}
    <3>1. two \in SUBSET Risks /\ two # {}
      BY <1>2
    <3>2. MaxRisk(two) \in two
      BY <3>1, StrictestRisk
    <3> QED BY <2>2, <3>1, <3>2 DEF Validated
  <2> QED BY <2>1, <2>2
<1> HIDE DEF risk, rec, risks
\* What one check demands, the verdict grants.
<1>7. ASSUME NEW o \in Judged(run)
      PROVE  /\ o.risk >= High => risk >= High
             /\ o.risk >= Medium => risk >= Medium
             /\ Rank(o.rec) >= 2 => Rank(rec) >= 2
  <2>1. o.risk \in Risks /\ o.risk <= FloorRisk(run)
    BY <1>2 DEF Judged, ObservationOf
  <2> QED BY <1>0, <1>2, <1>3, <1>4, <1>5, <1>6, <2>1 DEF Risks, High, Medium
<1>8. {"scan_sensitive", "scan_injection", "fitness"} \subseteq Tools
  <2>1. Required[3] = "scan_sensitive" /\ Required[4] = "scan_injection"
        /\ Required[5] = "fitness" /\ {3, 4, 5} \subseteq DOMAIN Required
    BY DEF Required
  <2> QED BY <2>1 DEF Tools
<1>9. PICK o1 \in run.seen : o1.tool = "scan_injection"
  BY <1>8 DEF Conclusive, Done
<1>10. PICK o2 \in run.seen : o2.tool = "scan_sensitive"
  BY <1>8 DEF Conclusive, Done
<1>11. PICK o3 \in run.seen : o3.tool = "fitness"
  BY <1>8 DEF Conclusive, Done
<1>12. {o1, o2, o3} \subseteq Judged(run) /\ ~o1.failed /\ ~o2.failed
  BY <1>9, <1>10, <1>11 DEF Judged, Conclusive
<1>13. /\ Of(t, "blank") # Chunks
       /\ Of(t, "injection") # {} => o1.risk >= High /\ Rank(o1.rec) >= 2
  BY <1>9, <1>12 DEF ObservationOf, Demands
<1>14. /\ Of(t, "secret") # {} => o2.risk >= High
       /\ (world.internal /\ Of(t, "secret") # {})
            \/ (Exposed(g) = {} /\ Of(t, "placeholder") # {})
          => o2.risk >= Medium /\ Rank(o2.rec) >= 2
  BY <1>10, <1>12 DEF ObservationOf, Demands
<1>15. Of(t, "informal") # {} => o3.risk >= Medium /\ Rank(o3.rec) >= 2
  BY <1>11, <1>12 DEF ObservationOf, Demands
<1>16. risk >= High => risk >= Medium
  BY <1>6 DEF Risks, High, Medium
<1>17. Exposed(g) # {} => risk >= High
  BY <1>7, <1>12, <1>13, <1>14 DEF Exposed
<1>18. Stricter(g) => risk >= Medium /\ Rank(rec) >= 2
  BY <1>7, <1>12, <1>13, <1>14, <1>15, <1>16 DEF Stricter
<1>19. Rank("needs_info") = 2
  BY DEF Rank
<1> QED BY <1>13, <1>17, <1>18, <1>19 DEF IsVerdictOn, risk, rec

-----------------------------------------------------------------------------
(* The inductive invariant.                                                *)

RunShape(run) ==
  DOMAIN run = {"state", "cand", "model", "steps", "seen", "waiting", "final", "authors"}

\* What a run under this identity has on record: observations of its build
\* only, by decisions of its model only.
RunSound(run, id) ==
  /\ RunShape(run)
  /\ run.state \in {"open", "completed", "failed"}
  /\ run.model = id[2] /\ run.authors \subseteq {id[2]}
  /\ \A o \in run.seen : ObservationOf(o, id[1])
  /\ run.cand = id[1]
  /\ run.state = "completed" => run.final.risk \in Risks /\ run.authors = {id[2]}

RunsSound ==
  /\ runs = [id \in Identities |-> runs[id]]
  /\ \A id \in Identities : RunShape(runs[id]) /\
       (runs[id].state = "absent" \/ RunSound(runs[id], id))

\* A call that has a run works for the model of its replica; the lease keeps
\* two calls from acting on one run.
CallSound(r) ==
  /\ rev[r] = [pc |-> rev[r].pc, cand |-> rev[r].cand, id |-> rev[r].id]
  /\ rev[r].pc \in {"idle", "review", "run", "tool"}
  /\ rev[r].pc # "idle" => rev[r].cand \in Generations
  /\ rev[r].pc \in {"run", "tool"} =>
       /\ rev[r].id \in Identities /\ rev[r].id[2] = model[r]
       /\ RunSound(runs[rev[r].id], rev[r].id)
  /\ rev[r].pc = "tool" =>
       /\ runs[rev[r].id].state = "open"
       /\ \A q \in Replicas \ {r} : ~(rev[q].pc = "tool" /\ rev[q].id = rev[r].id)
CallsSound == rev = [r \in Replicas |-> rev[r]] /\ \A r \in Replicas : CallSound(r)

\* A verdict that was saved rests on a completed run of its build.
VerdictSound(report, g) ==
  /\ IsVerdictOn(report, g)
  /\ report.id \in Identities /\ report.model = report.id[2]
  /\ runs[report.id].state = "completed" /\ RunSound(runs[report.id], report.id)
StoredSound ==
  /\ stored = [g \in Generations |-> stored[g]]
  /\ \A g \in Generations :
       stored[g] = Unset \/ stored[g].status = "failed" \/ VerdictSound(stored[g], g)

ReviewInv ==
  /\ WorldTyped /\ candidate \in Generations \union {0}
  /\ model \in [Replicas -> Planners]
  /\ RunsSound /\ CallsSound /\ StoredSound

-----------------------------------------------------------------------------
(* What the steps do to it.                                                *)

LEMMA AuthorsOfVerdict ==
  ASSUME NEW report, NEW g, VerdictSound(report, g)
  PROVE  runs[report.id].authors = {report.model}
  BY DEF VerdictSound, RunSound

\* The world never changes, nor what was observed in it.
LEMMA SoundForEver ==
  ASSUME world' = world, NEW run, NEW id, RunSound(run, id)
  PROVE  RunSound(run, id)'
  BY DEF RunSound, RunShape, ObservationOf, Demands, Exposed

\* Nor what a verdict that rests on a completed run of before is worth.
LEMMA VerdictForEver ==
  ASSUME world' = world, NEW report, NEW g, VerdictSound(report, g),
         runs'[report.id] = runs[report.id]
  PROVE  VerdictSound(report, g)'
<1>1. IsVerdictOn(report, g)'
  BY DEF VerdictSound, IsVerdictOn, Stricter, Exposed
<1>2. RunSound(runs[report.id], report.id)'
  BY SoundForEver DEF VerdictSound
<1> QED BY <1>1, <1>2 DEF VerdictSound

LEMMA StoredForEver ==
  ASSUME world' = world, stored' = stored, StoredSound,
         \A id \in Identities : runs[id].state = "completed" => runs'[id] = runs[id]
  PROVE  StoredSound'
<1>1. ASSUME NEW g \in Generations, VerdictSound(stored[g], g)
      PROVE  VerdictSound(stored[g], g)'
  BY <1>1, VerdictForEver DEF VerdictSound
<1> QED BY <1>1 DEF StoredSound

\* A call that works on its run.
LEMMA WritesKeeps ==
  ASSUME ReviewInv, NEW r \in Replicas, NEW run, NEW pc \in {"run", "tool"},
         Writes(r, run, pc), rev[r].pc \in {"run", "tool"},
         runs[rev[r].id].state = "open", ~LeaseTaken(r), RunSound(run, rev[r].id),
         pc = "tool" => run.state = "open"
  PROVE  ReviewInv'
<1>1. RunsSound /\ CallsSound /\ StoredSound /\ CallSound(r)
  BY DEF ReviewInv, CallsSound
<1>0. PICK i \in Identities : i = rev[r].id
  BY <1>1 DEF CallSound
<1>2. /\ world' = world /\ candidate' = candidate /\ model' = model /\ stored' = stored
      /\ runs' = [runs EXCEPT ![i] = run] /\ rev' = [rev EXCEPT ![r].pc = pc]
  BY <1>0 DEF Writes
<1>3. /\ runs'[i] = run /\ \A id \in Identities \ {i} : runs'[id] = runs[id]
      /\ runs' = [id \in Identities |-> runs'[id]]
  BY <1>1, <1>2 DEF RunsSound
<1>4. /\ rev'[r] = [pc |-> pc, cand |-> rev[r].cand, id |-> i]
      /\ \A q \in Replicas \ {r} : rev'[q] = rev[q]
      /\ rev' = [q \in Replicas |-> rev'[q]]
  BY <1>0, <1>1, <1>2 DEF CallsSound, CallSound
<1>5. RunSound(run, i)' /\ RunShape(run)
  BY <1>0, <1>2, SoundForEver DEF RunSound
<1>6. RunsSound'
  <2>1. ASSUME NEW id \in Identities
        PROVE  RunShape(runs'[id]) /\ (runs'[id].state = "absent" \/ RunSound(runs[id], id)')
    <3>1. CASE id = i
      BY <1>3, <1>5, <3>1
    <3>2. CASE id # i
      BY <1>1, <1>2, <1>3, <3>2, SoundForEver DEF RunsSound
    <3> QED BY <3>1, <3>2
  <2> QED BY <1>3, <2>1 DEF RunsSound, RunShape
<1>7. CallSound(r)'
  <2>1. rev'[r].pc = pc /\ rev'[r].cand = rev[r].cand /\ rev'[r].id = i
    BY <1>4
  <2>2. \A q \in Replicas \ {r} : ~(rev'[q].pc = "tool" /\ rev'[q].id = i)
    BY <1>0, <1>4 DEF LeaseTaken
  <2>3. rev[r].cand \in Generations /\ i[2] = model'[r]
    BY <1>0, <1>1, <1>2 DEF CallSound
  <2>4. RunSound(runs[rev[r].id], rev[r].id)'
    BY <1>3, <1>5, <2>1
  <2> QED BY <1>3, <1>4, <2>1, <2>2, <2>3, <2>4 DEF CallSound
<1>8. ASSUME NEW q \in Replicas \ {r} PROVE CallSound(q)'
  <2>1. CallSound(q)
    BY <1>1 DEF CallsSound
  <2>2. rev[q].pc = "tool" => rev[q].id # i
    BY <1>0 DEF LeaseTaken
  <2>3. rev[q].pc \in {"run", "tool"} => RunSound(runs[rev[q].id], rev[q].id)'
    <3>1. CASE rev[q].id = i
      BY <1>3, <1>4, <1>5, <3>1
    <3>2. CASE rev[q].id # i
      BY <1>2, <1>3, <1>4, <2>1, <3>2, SoundForEver DEF CallSound
    <3> QED BY <3>1, <3>2
  <2>4. ASSUME rev[q].pc = "tool"
        PROVE  /\ runs'[rev[q].id] = runs[rev[q].id]
               /\ \A p \in Replicas \ {q} : ~(rev'[p].pc = "tool" /\ rev'[p].id = rev[q].id)
    BY <1>3, <1>4, <2>1, <2>2, <2>4 DEF CallSound
  <2> QED BY <1>2, <1>4, <2>1, <2>3, <2>4 DEF CallSound
<1>9. StoredSound'
  BY <1>1, <1>2, <1>3, <1>0, StoredForEver
<1>10. WorldTyped'
  BY <1>2 DEF ReviewInv, WorldTyped
<1> QED BY <1>2, <1>4, <1>6, <1>7, <1>8, <1>9, <1>10 DEF ReviewInv, CallsSound

\* The runs of before are kept; a call may end, or begin, or get its run.
LEMMA CallKeeps ==
  ASSUME ReviewInv, NEW r \in Replicas, NEW x, rev' = [rev EXCEPT ![r] = x],
         x.pc \in {"idle", "review"}, x = [pc |-> x.pc, cand |-> x.cand, id |-> x.id],
         x.pc # "idle" => x.cand \in Generations,
         world' = world, runs' = runs,
         model' \in [Replicas -> Planners], \A q \in Replicas \ {r} : model'[q] = model[q]
  PROVE  RunsSound' /\ CallsSound' /\ WorldTyped'
<1>1. RunsSound /\ CallsSound /\ WorldTyped
  BY DEF ReviewInv
<1>2. rev'[r] = x /\ (\A q \in Replicas \ {r} : rev'[q] = rev[q])
      /\ rev' = [q \in Replicas |-> rev'[q]]
  BY <1>1 DEF CallsSound
<1>3. RunsSound'
  <2>1. ASSUME NEW id \in Identities, RunSound(runs[id], id) PROVE RunSound(runs[id], id)'
    BY <2>1, SoundForEver
  <2> QED BY <1>1, <2>1 DEF RunsSound, RunShape
<1>4. CallSound(r)'
  BY <1>2 DEF CallSound
<1>5. ASSUME NEW q \in Replicas \ {r} PROVE CallSound(q)'
  <2>1. CallSound(q)
    BY <1>1 DEF CallsSound
  <2>2. rev[q].pc \in {"run", "tool"} => RunSound(runs[rev[q].id], rev[q].id)'
    BY <1>2, <2>1, SoundForEver DEF CallSound
  <2> QED BY <1>2, <2>1, <2>2 DEF CallSound
<1> QED BY <1>1, <1>2, <1>3, <1>4, <1>5 DEF CallsSound, WorldTyped

LEMMA StartKeeps ==
  ASSUME ReviewInv, NEW r \in Replicas, Start(r)
  PROVE  ReviewInv'
<1> DEFINE x == [pc |-> "review", cand |-> candidate, id |-> Unset]
<1>1. /\ x.pc = "review" /\ x.cand = candidate /\ candidate \in Generations
      /\ x = [pc |-> x.pc, cand |-> x.cand, id |-> x.id]
  BY DEF Start, ReviewInv
<1>2. /\ rev' = [rev EXCEPT ![r] = x] /\ world' = world /\ runs' = runs /\ model' = model
      /\ stored' = stored /\ candidate' = candidate
  BY DEF Start
<1> HIDE DEF x
<1>3. RunsSound' /\ CallsSound' /\ WorldTyped'
  BY <1>1, <1>2, CallKeeps DEF ReviewInv
<1>4. StoredSound'
  BY <1>2, StoredForEver DEF ReviewInv
<1> QED BY <1>2, <1>3, <1>4 DEF ReviewInv

LEMMA RestartKeeps ==
  ASSUME ReviewInv, NEW r \in Replicas, Restart(r)
  PROVE  ReviewInv'
<1>1. Idle.pc = "idle" /\ Idle = [pc |-> Idle.pc, cand |-> Idle.cand, id |-> Idle.id]
  BY DEF Idle
<1>2. /\ rev' = [rev EXCEPT ![r] = Idle] /\ world' = world /\ runs' = runs
      /\ stored' = stored /\ candidate' = candidate
      /\ model' \in [Replicas -> Planners] /\ \A q \in Replicas \ {r} : model'[q] = model[q]
  BY DEF Restart, ReviewInv
<1>3. RunsSound' /\ CallsSound' /\ WorldTyped'
  BY <1>1, <1>2, CallKeeps
<1>4. StoredSound'
  BY <1>2, StoredForEver DEF ReviewInv
<1> QED BY <1>2, <1>3, <1>4 DEF ReviewInv

\* What is saved is a failure or a verdict on the build the call began with.
LEMMA SaveKeeps ==
  ASSUME ReviewInv, NEW r \in Replicas, rev[r].pc # "idle", runs' = runs, NEW report,
         Save(r, report),
         \/ report = Failure
         \/ report.status = "completed" /\ VerdictSound(report, report.cand)
  PROVE  ReviewInv'
<1> DEFINE g == rev[r].cand
           final == Accepted(r, report)
<1>1. Idle.pc = "idle" /\ Idle = [pc |-> Idle.pc, cand |-> Idle.cand, id |-> Idle.id]
  BY DEF Idle
<1>2. /\ stored' = [stored EXCEPT ![g] = final] /\ rev' = [rev EXCEPT ![r] = Idle]
      /\ world' = world /\ candidate' = candidate /\ model' = model
  BY DEF Save
<1>3. RunsSound' /\ CallsSound' /\ WorldTyped'
  BY <1>1, <1>2, CallKeeps DEF ReviewInv
<1>4. g \in Generations /\ StoredSound
  BY DEF ReviewInv, CallsSound, CallSound
<1>5. final.status = "failed" \/ VerdictSound(final, g)
  BY DEF Accepted, Failure
<1> HIDE DEF final, g
<1>6. /\ stored'[g] = final /\ (\A h \in Generations \ {g} : stored'[h] = stored[h])
      /\ stored' = [h \in Generations |-> stored'[h]]
  BY <1>2, <1>4 DEF StoredSound
<1>7. ASSUME NEW h \in Generations
      PROVE  stored'[h] = Unset \/ stored'[h].status = "failed" \/ VerdictSound(stored[h], h)'
  <2>1. CASE h = g
    BY <1>2, <1>5, <1>6, <2>1, VerdictForEver
  <2>2. CASE h # g
    BY <1>2, <1>4, <1>6, <2>2, VerdictForEver DEF StoredSound
  <2> QED BY <2>1, <2>2
<1>8. StoredSound'
  BY <1>6, <1>7 DEF StoredSound
<1> QED BY <1>2, <1>3, <1>8 DEF ReviewInv

LEMMA AttemptExists ==
  ASSUME NEW g, NEW planner
  PROVE  Attempt(g, planner) \in 1 .. MaxAttempts
<1> DEFINE A == {k \in 1 .. MaxAttempts :
                   k = MaxAttempts \/ runs[RunID(g, k, planner)].state # "failed"}
<1>1. MaxAttempts \in A /\ A \in SUBSET Nat
  BY ReviewAssumption
<1>2. \E k \in A : \A j \in A : k <= j
  BY <1>1, LeastExists
<1> QED BY <1>2 DEF Attempt

\* The run a call gets: a new one, or one that others work on, too.
LEMMA OpenRunKeeps ==
  ASSUME ReviewInv, NEW r \in Replicas, OpenRun(r)
  PROVE  ReviewInv'
<1>1. CASE candidate = 0
  <2>1. rev[r].pc # "idle" /\ runs' = runs /\ Save(r, Failure)
    BY <1>1 DEF OpenRun
  <2> QED BY <2>1, SaveKeeps
<1>2. CASE candidate # 0
  <2>1. /\ RunsSound /\ CallsSound /\ StoredSound /\ CallSound(r) /\ rev[r].pc = "review"
        /\ candidate \in Generations /\ model[r] \in Planners
    BY <1>2 DEF OpenRun, ReviewInv, CallsSound
  <2>2. RunID(candidate, Attempt(candidate, model[r]), model[r]) \in Identities
    BY <2>1, AttemptExists DEF RunID, Identities
  <2>3. PICK i \in Identities : i = RunID(candidate, Attempt(candidate, model[r]), model[r])
    BY <2>2
  <2>4. i[1] = candidate /\ i[2] = model[r]
    BY <2>3 DEF RunID
  <2> DEFINE x == IF runs[i].state = "absent" THEN NewRun(candidate, model[r]) ELSE runs[i]
  <2>5. /\ runs' = [runs EXCEPT ![i] = x] /\ rev' = [rev EXCEPT ![r].pc = "run", ![r].id = i]
        /\ UNCHANGED <<world, candidate, model, stored>>
    BY <1>2, <2>3 DEF OpenRun
  <2>6. RunSound(x, i)
    <3>1. CASE runs[i].state = "absent"
      <4>1. NewRun(candidate, model[r]) =
              [state |-> "open", cand |-> candidate, model |-> model[r], steps |-> 0,
               seen |-> {}, waiting |-> Unset, final |-> Unset, authors |-> {}]
        BY DEF NewRun, Fresh
      <4> QED BY <2>4, <3>1, <4>1 DEF RunSound, RunShape
    <3>2. CASE runs[i].state # "absent"
      BY <2>1, <3>2 DEF RunsSound
    <3> QED BY <3>1, <3>2
  <2> HIDE DEF x
  <2>7. /\ runs'[i] = x /\ (\A id \in Identities \ {i} : runs'[id] = runs[id])
        /\ runs' = [id \in Identities |-> runs'[id]]
    BY <2>1, <2>5 DEF RunsSound
  <2>8. \A id \in Identities : runs[id].state # "absent" => runs'[id] = runs[id]
    BY <2>7 DEF x
  <2>9. /\ rev'[r] = [pc |-> "run", cand |-> rev[r].cand, id |-> i]
        /\ \A q \in Replicas \ {r} : rev'[q] = rev[q]
        /\ rev' = [q \in Replicas |-> rev'[q]]
    BY <2>1, <2>5 DEF CallsSound, CallSound
  <2>10. RunSound(runs[i], i)' /\ RunShape(x)
    BY <2>5, <2>6, <2>7, SoundForEver DEF RunSound
  <2>11. RunsSound'
    <3>1. ASSUME NEW id \in Identities
          PROVE  RunShape(runs'[id]) /\ (runs'[id].state = "absent" \/ RunSound(runs[id], id)')
      <4>1. CASE id = i
        BY <2>7, <2>10, <4>1
      <4>2. CASE id # i
        BY <2>1, <2>5, <2>7, <4>2, SoundForEver DEF RunsSound
      <4> QED BY <4>1, <4>2
    <3> QED BY <2>7, <3>1 DEF RunsSound, RunShape
  <2>12. CallSound(r)'
    <3>1. rev'[r].pc = "run" /\ rev'[r].id = i /\ rev'[r].cand \in Generations
      BY <2>1, <2>9 DEF CallSound
    <3>2. RunSound(runs[rev[r].id], rev[r].id)'
      BY <2>10, <3>1
    <3> QED BY <2>4, <2>5, <2>9, <3>1, <3>2 DEF CallSound
  <2>13. ASSUME NEW q \in Replicas \ {r} PROVE CallSound(q)'
    <3>1. CallSound(q)
      BY <2>1 DEF CallsSound
    <3>2. ASSUME rev[q].pc \in {"run", "tool"}
          PROVE  runs'[rev[q].id] = runs[rev[q].id] /\ RunSound(runs[rev[q].id], rev[q].id)'
      <4>1. /\ rev[q].id \in Identities /\ RunSound(runs[rev[q].id], rev[q].id)
            /\ runs[rev[q].id].state # "absent"
        BY <3>1, <3>2 DEF CallSound, RunSound
      <4>2. rev'[q] = rev[q] /\ runs'[rev[q].id] = runs[rev[q].id]
        BY <2>8, <2>9, <4>1
      <4>3. PICK j : j = rev[q].id
        OBVIOUS
      <4>4. RunSound(runs[j], j)'
        BY <2>5, <4>1, <4>2, <4>3, SoundForEver
      <4> QED BY <4>2, <4>3, <4>4
    <3>3. rev[q].pc = "tool" =>
            \A p \in Replicas \ {q} : ~(rev'[p].pc = "tool" /\ rev'[p].id = rev[q].id)
      BY <2>9, <3>1 DEF CallSound
    <3> QED BY <2>5, <2>9, <3>1, <3>2, <3>3 DEF CallSound
  <2>14. StoredSound'
    BY <2>1, <2>5, <2>8, StoredForEver
  <2>15. WorldTyped'
    BY <2>5 DEF ReviewInv, WorldTyped
  <2> QED BY <2>5, <2>9, <2>11, <2>12, <2>13, <2>14, <2>15 DEF ReviewInv, CallsSound
<1> QED BY <1>1, <1>2

\* Whoever decides, an answer that ends a run has a risk: the model's because
\* nothing else is a report, the rules' because every check has one.
LEMMA FinalHasRisk ==
  ASSUME NEW run, NEW id, RunSound(run, id), NEW planner,
         NEW d \in Decisions(run, planner), d.tool = "final"
  PROVE  d.report.risk \in Risks
<1>1. /\ DOMAIN Required = 1 .. 5
      /\ Required[1] = "context" /\ Required[2] = "chunks" /\ Required[3] = "scan_sensitive"
      /\ Required[4] = "scan_injection" /\ Required[5] = "fitness"
  BY DEF Required
<1>2. Tools = {"context", "chunks", "scan_sensitive", "scan_injection", "fitness"}
  BY <1>1 DEF Tools
<1> DEFINE M == {k \in DOMAIN Required : Required[k] \notin Done(run)}
<1>3. M # {} => FirstMissing(run) \in Tools
  <2>1. ASSUME M # {} PROVE \E k \in M : \A j \in M : k <= j
    BY <1>1, <2>1, LeastExists
  <2> QED BY <2>1 DEF FirstMissing, Tools
<1>4. M = {} => FirstMissing(run) = "none"
  BY DEF FirstMissing
<1>5. \A t, a : Call(t, a).tool = t
  BY DEF Call
<1>6. \A f : Final(f).tool = "final" /\ Final(f).report = f
  BY DEF Final
<1>7. CASE planner = RulePlanner
  <2>1. d \in RuleDecisions(run)
    BY <1>7 DEF Decisions
  <2>2. CASE FirstMissing(run) = "none"
    <3>1. M = {} /\ d = Final(RuleReport(run))
      BY <1>2, <1>3, <2>1, <2>2 DEF RuleDecisions
    <3> DEFINE S == {o.risk : o \in run.seen}
    <3>2. S \in SUBSET Risks
      BY DEF RunSound, ObservationOf
    <3>3. S # {}
      <4>1. "context" \in Done(run)
        BY <1>1, <3>1
      <4> QED BY <4>1 DEF Done
    <3>4. MaxRisk(S) \in Risks
      BY <3>2, <3>3, StrictestRisk
    <3>5. RuleReport(run).risk = MaxRisk(S)
      BY DEF RuleReport
    <3> QED BY <1>6, <3>1, <3>4, <3>5
  <2>3. CASE FirstMissing(run) # "none"
    <3>1. \E t \in Tools : \E a : d = Call(t, a)
      <4>1. CASE FirstMissing(run) = "fitness"
        BY <1>2, <2>1, <4>1 DEF RuleDecisions
      <4>2. CASE FirstMissing(run) # "fitness"
        BY <1>3, <1>4, <2>1, <2>3, <4>2 DEF RuleDecisions
      <4> QED BY <4>1, <4>2
    <3> QED BY <1>2, <1>5, <3>1
  <2> QED BY <2>2, <2>3
<1>8. CASE planner # RulePlanner
  <2>1. PICK e \in ModelDecisions : d = Constrained(run, e)
    BY <1>8 DEF Decisions
  <2>2. CASE d = e
    <3>1. CASE e \in Whims
      <4>1. \E t \in Tools : \E a : e = Call(t, a)
        BY <1>2, <3>1, WhimsAssumption DEF ToolCalls
      <4> QED BY <1>2, <1>5, <2>2, <4>1
    <3>2. CASE e \notin Whims
      <4>1. PICK p \in Proposals : e = Final(p)
        BY <3>2 DEF ModelDecisions
      <4>2. p.risk \in Risks
        BY ReviewAssumption DEF Finals
      <4> QED BY <1>6, <2>2, <4>1, <4>2
    <3> QED BY <3>1, <3>2
  <2>3. CASE d # e
    <3>1. FirstMissing(run) # "none" /\ d = Call(FirstMissing(run), NoArgs)
      BY <2>1, <2>3 DEF Constrained
    <3> QED BY <1>2, <1>3, <1>4, <1>5, <3>1
  <2> QED BY <2>2, <2>3
<1> QED BY <1>7, <1>8

\* What a step may make of a run.
LEMMA RunEdits ==
  ASSUME NEW run, NEW id, RunSound(run, id)
  PROVE  /\ RunSound(Failed(run), id)
         /\ \A x : RunSound([run EXCEPT !.steps = @ + 1, !.authors = @ \union {id[2]},
                                        !.waiting = x], id)
         /\ \A x : x.risk \in Risks =>
              RunSound([run EXCEPT !.steps = @ + 1, !.authors = @ \union {id[2]},
                                   !.state = "completed", !.final = x], id)
         /\ \A x, o : ObservationOf(o, id[1]) =>
              RunSound([run EXCEPT !.seen = @ \union {o}, !.waiting = x], id)
<1>1. RunShape(run)
  BY DEF RunSound
<1>2. RunSound(Failed(run), id)
  <2> DEFINE y == [run EXCEPT !.state = "failed", !.waiting = Unset]
  <2>1. /\ y.state = "failed" /\ y.model = run.model /\ y.cand = run.cand
        /\ y.authors = run.authors /\ y.seen = run.seen /\ y.final = run.final
        /\ RunShape(y)
    BY <1>1 DEF RunShape
  <2> HIDE DEF y
  <2>2. RunSound(y, id)
    BY <2>1 DEF RunSound
  <2> QED BY <2>2 DEF y, Failed
<1>3. ASSUME NEW x
      PROVE  RunSound([run EXCEPT !.steps = @ + 1, !.authors = @ \union {id[2]},
                                  !.waiting = x], id)
  <2> DEFINE y == [run EXCEPT !.steps = @ + 1, !.authors = @ \union {id[2]}, !.waiting = x]
  <2>1. /\ y.state = run.state /\ y.model = run.model /\ y.cand = run.cand
        /\ y.authors = run.authors \union {id[2]} /\ y.seen = run.seen /\ y.final = run.final
        /\ RunShape(y)
    BY <1>1 DEF RunShape
  <2> HIDE DEF y
  <2>2. RunSound(y, id)
    BY <2>1 DEF RunSound
  <2> QED BY <2>2 DEF y
<1>4. ASSUME NEW x, x.risk \in Risks
      PROVE  RunSound([run EXCEPT !.steps = @ + 1, !.authors = @ \union {id[2]},
                                  !.state = "completed", !.final = x], id)
  <2> DEFINE y == [run EXCEPT !.steps = @ + 1, !.authors = @ \union {id[2]},
                              !.state = "completed", !.final = x]
  <2>1. /\ y.state = "completed" /\ y.model = run.model /\ y.cand = run.cand
        /\ y.authors = run.authors \union {id[2]} /\ y.seen = run.seen /\ y.final = x
        /\ RunShape(y)
    BY <1>1 DEF RunShape
  <2> HIDE DEF y
  <2>2. run.authors \union {id[2]} = {id[2]}
    BY DEF RunSound
  <2>3. RunSound(y, id)
    BY <1>4, <2>1, <2>2 DEF RunSound
  <2> QED BY <2>3 DEF y
<1>5. ASSUME NEW x, NEW o, ObservationOf(o, id[1])
      PROVE  RunSound([run EXCEPT !.seen = @ \union {o}, !.waiting = x], id)
  <2> DEFINE y == [run EXCEPT !.seen = @ \union {o}, !.waiting = x]
  <2>1. /\ y.state = run.state /\ y.model = run.model /\ y.cand = run.cand
        /\ y.authors = run.authors /\ y.seen = run.seen \union {o} /\ y.final = run.final
        /\ RunShape(y)
    BY <1>1 DEF RunShape
  <2> HIDE DEF y
  <2>2. RunSound(y, id)
    BY <1>5, <2>1 DEF RunSound
  <2> QED BY <2>2 DEF y
<1> QED BY <1>2, <1>3, <1>4, <1>5

LEMMA PlanKeeps ==
  ASSUME ReviewInv, NEW r \in Replicas, Plan(r)
  PROVE  ReviewInv'
<1> DEFINE i == rev[r].id
           run == runs[i]
           next == [run EXCEPT !.steps = @ + 1, !.authors = @ \union {model[r]}]
<1>1. rev[r].pc = "run" /\ ~LeaseTaken(r) /\ run.state = "open"
  BY DEF Plan
<1>2. RunSound(run, i) /\ i[2] = model[r]
  BY <1>1 DEF ReviewInv, CallsSound, CallSound
<1>3. ASSUME NEW x, NEW pc \in {"run", "tool"}, Writes(r, x, pc), RunSound(x, i),
             pc = "tool" => x.state = "open"
      PROVE  ReviewInv'
  BY <1>1, <1>3, WritesKeeps
<1>4. CASE Writes(r, run, "tool")
  BY <1>1, <1>2, <1>3, <1>4
<1>5. CASE Writes(r, Failed(run), "run")
  BY <1>2, <1>3, <1>5, RunEdits
<1>6. ASSUME NEW d \in Decisions(run, model[r]), d.tool = "final",
             Writes(r, [next EXCEPT !.state = "completed", !.final = d.report], "run")
      PROVE  ReviewInv'
  <2>1. d.report.risk \in Risks
    BY <1>2, <1>6, FinalHasRisk
  <2>2. RunSound([run EXCEPT !.steps = @ + 1, !.authors = @ \union {model[r]},
                             !.state = "completed", !.final = d.report], i)
    BY <1>2, <2>1, RunEdits
  <2>3. [next EXCEPT !.state = "completed", !.final = d.report]
          = [run EXCEPT !.steps = @ + 1, !.authors = @ \union {model[r]},
                        !.state = "completed", !.final = d.report]
    BY <1>2 DEF RunSound, RunShape
  <2> QED BY <1>3, <1>6, <2>2, <2>3
<1>7. ASSUME NEW d, Writes(r, [next EXCEPT !.waiting = d], "tool")
      PROVE  ReviewInv'
  <2> DEFINE y == [run EXCEPT !.steps = @ + 1, !.authors = @ \union {model[r]}, !.waiting = d]
  <2>1. RunSound(y, i)
    BY <1>2, RunEdits
  <2>2. [next EXCEPT !.waiting = d] = y /\ y.state = run.state
    BY <1>2 DEF RunSound, RunShape
  <2> QED BY <1>1, <1>3, <1>7, <2>1, <2>2
<1> QED BY <1>4, <1>5, <1>6, <1>7 DEF Plan

LEMMA ObserveKeeps ==
  ASSUME ReviewInv, NEW r \in Replicas, Observe(r)
  PROVE  ReviewInv'
<1> DEFINE i == rev[r].id
           run == runs[i]
<1>1. rev[r].pc = "tool"
  BY DEF Observe
<1>2. /\ RunSound(run, i) /\ run.state = "open" /\ ~LeaseTaken(r)
      /\ i \in Identities /\ WorldTyped
  BY <1>1 DEF ReviewInv, CallsSound, CallSound, LeaseTaken
<1>3. CASE Writes(r, Failed(run), "run")
  BY <1>1, <1>2, <1>3, WritesKeeps, RunEdits
<1>4. CASE /\ Bound(run)
           /\ Writes(r, [run EXCEPT !.seen = @ \union {Observed(run.waiting)},
                                    !.waiting = Unset], "run")
  <2>1. i[1] \in Generations
    BY <1>2 DEF Identities
  <2>2. candidate = i[1] /\ missing = {}
    BY <1>2, <1>4 DEF Bound, RunSound
  <2>3. ObservationOf(Observed(run.waiting), i[1])
    BY <1>2, <2>1, <2>2, ObservedDemands
  <2>4. RunSound([run EXCEPT !.seen = @ \union {Observed(run.waiting)}, !.waiting = Unset], i)
    BY <1>2, <2>3, RunEdits
  <2> QED BY <1>1, <1>2, <1>4, <2>4, WritesKeeps
<1> QED BY <1>3, <1>4 DEF Observe

LEMMA ReturnKeeps ==
  ASSUME ReviewInv, NEW r \in Replicas, Return(r)
  PROVE  ReviewInv'
<1> DEFINE i == rev[r].id
           run == runs[i]
<1>1. rev[r].pc = "run" /\ runs' = runs
  BY DEF Return
<1>2. RunSound(run, i) /\ i \in Identities /\ WorldTyped
  BY <1>1 DEF ReviewInv, CallsSound, CallSound
<1>3. CASE Save(r, Failure)
  BY <1>1, <1>3, SaveKeeps
<1>4. CASE Save(r, Report(i))
  <2>1. CASE run.state = "completed" /\ Conclusive(run)
    <3> DEFINE v == Report(i)
               o == CHOOSE o \in run.seen : TRUE
    <3>1. v = [status |-> "completed", cand |-> o.cand, risk |-> Validated(run).risk,
               rec |-> Validated(run).rec, model |-> run.model, id |-> i]
      BY <2>1 DEF Report
    <3>2. o \in run.seen
      BY <2>1 DEF Conclusive
    <3>3. v.cand = i[1] /\ i[1] \in Generations
      BY <1>2, <3>1, <3>2 DEF RunSound, ObservationOf, Identities
    <3>4. IsVerdictOn(Validated(run), i[1])
      BY <1>2, <2>1, <3>3, VerdictOfChecks DEF RunSound
    <3>5. v.risk = Validated(run).risk /\ v.rec = Validated(run).rec /\ v.id = i
          /\ v.model = run.model /\ v.status = "completed"
      BY <3>1
    <3> HIDE DEF v
    <3>6. IsVerdictOn(v, i[1])
      BY <3>4, <3>5 DEF IsVerdictOn
    <3>7. VerdictSound(v, v.cand)
      BY <1>2, <2>1, <3>3, <3>5, <3>6 DEF VerdictSound, RunSound
    <3> QED BY <1>1, <1>4, <3>5, <3>7, SaveKeeps DEF v
  <2>2. CASE ~(run.state = "completed" /\ Conclusive(run))
    <3>1. Report(i) = Failure
      BY <2>2 DEF Report
    <3> QED BY <1>1, <1>4, <3>1, SaveKeeps
  <2> QED BY <2>1, <2>2
<1> QED BY <1>3, <1>4 DEF Return

\* The surroundings do not touch a run, a call or a verdict.
LEMMA ReviewFrame ==
  ASSUME ReviewInv, UNCHANGED <<world, runs, model, rev, stored>>,
         candidate' \in Generations \union {0}
  PROVE  ReviewInv'
<1>1. RunsSound /\ CallsSound /\ StoredSound /\ WorldTyped
  BY DEF ReviewInv
<1>2. RunsSound'
  <2>1. ASSUME NEW id \in Identities, RunSound(runs[id], id) PROVE RunSound(runs[id], id)'
    BY <2>1, SoundForEver
  <2> QED BY <1>1, <2>1 DEF RunsSound, RunShape
<1>3. ASSUME NEW q \in Replicas PROVE CallSound(q)'
  <2>1. CallSound(q)
    BY <1>1 DEF CallsSound
  <2>2. rev[q].pc \in {"run", "tool"} => RunSound(runs[rev[q].id], rev[q].id)'
    BY <2>1, SoundForEver DEF CallSound
  <2> QED BY <2>1, <2>2 DEF CallSound
<1>4. StoredSound'
  BY <1>1, StoredForEver
<1> QED BY <1>1, <1>2, <1>3, <1>4 DEF ReviewInv, CallsSound, WorldTyped

LEMMA ReviewInvInductive ==
  ASSUME ReviewInv, [ReviewNext]_reviewVars
  PROVE  ReviewInv'
<1>1. ASSUME NEW r \in Replicas, Start(r) \/ Work(r) \/ Restart(r) PROVE ReviewInv'
  BY <1>1, StartKeeps, RestartKeeps, OpenRunKeeps, PlanKeeps, ObserveKeeps, ReturnKeeps DEF Work
<1>2. CASE Replace \/ Lose \/ Repair
  BY <1>2, ReviewFrame DEF Replace, Lose, Repair, ReviewInv
<1>3. CASE UNCHANGED reviewVars
  BY <1>3, ReviewFrame DEF reviewVars, ReviewInv
<1> QED BY <1>1, <1>2, <1>3 DEF ReviewNext

LEMMA ReviewInitial == ReviewInit => ReviewInv
<1> SUFFICES ASSUME ReviewInit PROVE ReviewInv
  OBVIOUS
<1>1. /\ \A id \in Identities : runs[id] = NoRun
      /\ \A r \in Replicas : rev[r] = Idle
      /\ \A g \in Generations : stored[g] = Unset
      /\ runs = [id \in Identities |-> runs[id]] /\ rev = [r \in Replicas |-> rev[r]]
      /\ stored = [g \in Generations |-> stored[g]]
  BY DEF ReviewInit
<1>2. RunShape(NoRun) /\ NoRun.state = "absent"
  BY DEF RunShape, NoRun, Fresh
<1>3. Idle.pc = "idle" /\ Idle = [pc |-> Idle.pc, cand |-> Idle.cand, id |-> Idle.id]
  BY DEF Idle
<1>4. RunsSound
  BY <1>1, <1>2 DEF RunsSound
<1>5. CallsSound
  BY <1>1, <1>3 DEF CallsSound, CallSound
<1>6. StoredSound
  BY <1>1 DEF StoredSound
<1>7. WorldTyped /\ candidate \in Generations \union {0} /\ model \in [Replicas -> Planners]
  BY ReviewAssumption DEF ReviewInit, WorldTyped
<1> QED BY <1>4, <1>5, <1>6, <1>7 DEF ReviewInv

LEMMA ReviewInvHolds == ReviewSpec => []ReviewInv
  BY ReviewInitial, ReviewInvInductive, PTL DEF ReviewSpec

\* Whatever the model calls, omits, repeats or claims, and however the
\* candidate, the store and the replicas change meanwhile, the verdict saved
\* for a build is never laxer than what the deterministic checks find in that
\* build's whole content (validateAutonomousReview, resumePublicationReview).
THEOREM VerdictIsNeverLaxerAlways == ReviewSpec => []VerdictIsNeverLaxer
<1>1. ReviewInv => VerdictIsNeverLaxer
  BY DEF ReviewInv, StoredSound, VerdictSound, VerdictIsNeverLaxer
<1> QED BY <1>1, ReviewInvHolds, PTL

\* Every decision of the run behind a saved verdict was taken by the model the
\* verdict names, also when replicas with other models review the candidate:
\* a run's identity holds the model (reviewRunID).
THEOREM AuthorIsNamedAlways == ReviewSpec => []AuthorIsNamed
<1>1. ReviewInv => AuthorIsNamed
  BY AuthorsOfVerdict DEF ReviewInv, StoredSound, AuthorIsNamed
<1> QED BY <1>1, ReviewInvHolds, PTL
=============================================================================
