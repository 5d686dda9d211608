--------------------------- MODULE ReleaseCenter ---------------------------
(***************************************************************************)
(* The governed release of one document (ADR 0011): which generation of    *)
(* which version queries may use.  A version is admitted and indexed; for  *)
(* a managed document an agent reviews the exact candidate (version,       *)
(* generation, release revision), administrators decide on the request,    *)
(* and one transaction releases it.  A document of the upload space is     *)
(* released by the transaction that completes its job.                     *)
(*                                                                         *)
(* A step is one transaction, one statement, or a run of reads with no     *)
(* write of the same process between them.  The collector's sweeps select  *)
(* their rows without a lock and write them by key, so each is two steps.  *)
(* Every API process runs the review collector, so the phases of           *)
(* RunPendingReviews interleave freely.                                    *)
(* Index generations are seen through what IndexManifest establishes: one  *)
(* active generation per version, diverging and rebuilt now and then.      *)
(***************************************************************************)
EXTENDS Integers, FiniteSets

CONSTANTS
  MaxVersion,  \* versions (ingestion jobs) are 1..MaxVersion, in this order
  MaxGen,      \* generations a version can be built as
  MaxReviews,  \* reports of one candidate
  MaxEvents,   \* bound on crashes, divergences, expiries, administration
  Reviewers,   \* collectors, and calls of StartManagedReview by hand
  Admins,      \* administrators who decide
  Uploader,    \* documents.uploaded_by
  Policies,    \* approval policies an administrator may put in force
  Spaces,      \* knowledge spaces the document may belong to
  Permissions, \* classifications it may have
  Advice,      \* what a review can come to
  None

\* A recommendation to publish, at low or at high risk, anything else the
\* agent may recommend, or no usable report.
AllAdvice == {"publish", "publish_high", "needs_info", "manual_review", "failed"}

ASSUME BoundsAssumption ==
  /\ MaxVersion \in Nat \ {0} /\ MaxGen \in Nat \ {0}
  /\ MaxReviews \in Nat \ {0} /\ MaxEvents \in Nat
ASSUME PoliciesAssumption ==
  /\ Spaces \subseteq {"managed", "user-uploads"}
  /\ Permissions \subseteq {"internal", "confidential"}
  /\ Advice \subseteq AllAdvice
  /\ Policies \subseteq [required : {1, 2}, requesterMay : BOOLEAN]
  /\ None \notin Policies /\ IsFiniteSet(Admins)

VARIABLES
  space,      \* documents.knowledge_space_id
  permission, \* documents.permission
  doc,        \* the documents row
  release,    \* the document_releases row
  index,      \* per version: its index generation and its ingestion job
  request,    \* release_center_requests, by exact candidate
  review,     \* release_center_reviews, by candidate and number
  decision,   \* release_center_decisions, by candidate and administrator
  policy,     \* the approval policy that resolves for this document
  members,    \* active members of its approver group
  reviewer,   \* calls of StartManagedReview and of the collectors' sweeps
  approver,   \* calls of Decide, one per administrator
  approved,   \* history: who ever recorded an approval of a candidate
  overtaken,  \* history: calls of Decide begun before a review wrote again
  released,   \* history: releases by decision, and what they rested on
  events      \* events so far

vars == <<space, permission, doc, release, index, request, review, decision,
          policy, members, reviewer, approver, approved, overtaken, released,
          events>>
catalogVars == <<space, permission, doc, release, index>>
evidenceVars == <<request, review, decision>>
policyVars == <<policy, members>>
historyVars == <<approved, overtaken, released>>

Versions == 1..MaxVersion
Gens == 1..MaxGen
Revisions == 1..(2 * MaxVersion - 1)
\* Version v comes with a revision between v and 2v - 1: each version before
\* it admitted, and released or not.  (Bound: after a deletion there may be
\* a draft again, which nobody may publish; it gets no review here.)
Candidates == {c \in [v : Versions, g : Gens, rev : Revisions] :
                 c.v <= c.rev /\ c.rev < 2 * c.v}
ASSUME NoneAssumption == None \notin Candidates
Numbers == 1..MaxReviews
People == Admins \cup {Uploader}

Awaiting == {"approval_pending", "manual_exception"}
Closed == {"published", "rejected"}
NoRequest == [state |-> "none", review |-> 1, required |-> 1, by |-> Uploader,
              group |-> FALSE, requesterMay |-> FALSE]
NoReview == [status |-> "none", due |-> FALSE]
IdleReviewer == [pc |-> "idle", c |-> None, n |-> 1, again |-> FALSE,
                 by |-> Uploader, advice |-> "failed"]
IdleApprover == [pc |-> "idle", c |-> None, verdict |-> "approved",
                 required |-> 1, count |-> 0]

-----------------------------------------------------------------------------
Init ==
  /\ space \in Spaces /\ permission \in Permissions
  /\ doc = [completed |-> FALSE, active |-> TRUE, publication |-> "draft",
            deleting |-> FALSE]
  /\ release = [cur |-> 0, pub |-> None, rev |-> 0, key |-> None]
  /\ index = [v \in Versions |-> [gen |-> 0, active |-> FALSE,
                                  healthy |-> TRUE, open |-> FALSE]]
  /\ request = [c \in Candidates |-> NoRequest]
  /\ review = [c \in Candidates |-> [n \in Numbers |-> NoReview]]
  /\ decision = [c \in Candidates |-> [a \in Admins |-> "none"]]
  /\ policy \in Policies \cup {None} /\ members = Admins
  /\ reviewer = [p \in Reviewers |-> IdleReviewer]
  /\ approver = [a \in Admins |-> IdleApprover]
  /\ approved = [c \in Candidates |-> {}]
  /\ overtaken = {} /\ released = {}
  /\ events = 0

-----------------------------------------------------------------------------
(* The catalogue: versions, their generations, deletion                    *)

Serves(v) == v \in Versions /\ index[v].active /\ index[v].healthy

Replacing == release.pub = None \/ release.pub.v # release.cur

\* CurrentCandidate: the current version while it is not the released one.
Candidate ==
  IF Serves(release.cur) /\ Replacing
  THEN [v |-> release.cur, g |-> index[release.cur].gen, rev |-> release.rev]
  ELSE None

\* RecordCurrent: a new version keeps what is released.
RecordCurrent == [release EXCEPT !.cur = @ + 1, !.rev = @ + 1]

\* Admission of the next version.  The handler's look at the catalogue is not
\* part of the transaction: an upload that found nothing pending may be
\* admitted after a deletion, one that found no document makes it a draft.
Admit ==
  /\ release.cur < MaxVersion
  /\ release' = RecordCurrent
  /\ \E to \in {doc.publication, "draft"} :
       doc' = [doc EXCEPT !.completed = FALSE, !.publication = to]
  /\ index' = [index EXCEPT ![release.cur + 1].open = TRUE]
  /\ UNCHANGED <<space, permission, evidenceVars, policyVars, reviewer,
                 approver, historyVars, events>>

\* A build ends: the same generation repaired, or one of a new definition.
Activate(v) ==
  /\ index[v].open
  /\ \E g \in Gens :
       /\ g = index[v].gen + 1 \/ (index[v].active /\ g = index[v].gen)
       /\ index' = [index EXCEPT ![v].gen = g, ![v].active = TRUE,
                                 ![v].healthy = TRUE]
  /\ index' # index
  /\ UNCHANGED <<space, permission, doc, release, evidenceVars, policyVars,
                 reviewer, approver, historyVars, events>>

\* PublishAutomatic: derives the generation from the healthy manifest.
AutomaticRelease(v) ==
  LET pub == [v |-> v, g |-> index[v].gen]
  IN [release EXCEPT !.pub = pub, !.rev = IF release.pub = pub THEN @ ELSE @ + 1]

ReleasesDeleting == space = "user-uploads"
ReleasesItself == space = "user-uploads" /\ ~doc.deleting

\* The terminal transaction of a job finds the catalogue row by the object
\* key, so only the newest version's job completes.
Complete(v) ==
  /\ index[v].open /\ index[v].gen > 0
  /\ v = release.cur
  /\ ReleasesItself => Serves(v)
  /\ index' = [index EXCEPT ![v].open = FALSE]
  /\ doc' = [doc EXCEPT !.completed = TRUE,
                        !.publication = IF ReleasesItself THEN "published" ELSE @]
  /\ release' = IF ReleasesItself THEN AutomaticRelease(v) ELSE release
  /\ UNCHANGED <<space, permission, evidenceVars, policyVars, reviewer,
                 approver, historyVars, events>>

\* Reconciliation records a divergence and sends the job through again.
Diverge(v) ==
  /\ events < MaxEvents /\ events' = events + 1
  /\ Serves(v) /\ ~doc.deleting
  /\ index' = [index EXCEPT ![v].healthy = FALSE, ![v].open = TRUE]
  /\ UNCHANGED <<space, permission, doc, release, evidenceVars, policyVars,
                 reviewer, approver, historyVars>>

\* The worker's progress write of a job that runs again.
Reprocess(v) ==
  /\ index[v].open /\ v = release.cur /\ doc.completed
  /\ doc' = [doc EXCEPT !.completed = FALSE]
  /\ UNCHANGED <<space, permission, release, index, evidenceVars, policyVars,
                 reviewer, approver, historyVars, events>>

\* The deletion transaction takes back what queries may use.
AcceptDeletion ==
  /\ events < MaxEvents /\ events' = events + 1
  /\ release.cur > 0 /\ ~doc.deleting
  /\ doc' = [doc EXCEPT !.deleting = TRUE, !.publication = "retired"]
  /\ release' = [release EXCEPT !.pub = None, !.rev = @ + 1]
  /\ UNCHANGED <<space, permission, index, evidenceVars, policyVars, reviewer,
                 approver, historyVars>>

\* PATCH of a document: a managed one cannot be set to published this way.
PatchPublication(to) ==
  /\ events < MaxEvents /\ events' = events + 1
  /\ release.cur > 0
  /\ to = "published" =>
       /\ space = "user-uploads"
       /\ doc.completed /\ doc.active /\ doc.publication = "draft"
  /\ doc' = [doc EXCEPT !.publication = to]
  /\ UNCHANGED <<space, permission, release, index, evidenceVars, policyVars,
                 reviewer, approver, historyVars>>

PatchGovernance(active) ==
  /\ events < MaxEvents /\ events' = events + 1
  /\ release.cur > 0 /\ doc.active # active
  /\ doc' = [doc EXCEPT !.active = active]
  /\ UNCHANGED <<space, permission, release, index, evidenceVars, policyVars,
                 reviewer, approver, historyVars>>

-----------------------------------------------------------------------------
(* StartManagedReview                                                      *)

Publishable ==
  /\ space = "managed" /\ doc.completed /\ doc.active
  /\ doc.publication \in {"draft", "published"}

\* Assess; it does not look at deletion_status.
Assessed == IF Publishable THEN Candidate ELSE None

Expired(c, n) == review[c][n].status = "expired" \/ review[c][n].due

\* ListReviewJobs
ListedOnce(c) == c = Assessed /\ ~doc.deleting /\ request[c].state = "none"
Listed(c) ==
  /\ c = Assessed /\ ~doc.deleting
  /\ \/ request[c].state = "none"
     \/ /\ request[c].state = "needs_info"
        /\ review[c][request[c].review].status = "expired"

\* A closed request is answered with its report.  The next report follows
\* an expired one; any other review writes the first report again.
Begin(p, c, by) ==
  LET old == request[c]
      again == old.state # "none" /\ Expired(c, old.review)
      n == IF again THEN old.review + 1 ELSE 1
  IN /\ reviewer[p].pc = "idle"
     /\ c = Assessed /\ old.state \notin Closed
     /\ n \in Numbers
     /\ reviewer' = [reviewer EXCEPT
          ![p] = [pc |-> "report", c |-> c, n |-> n, again |-> again,
                  by |-> by, advice |-> "failed"]]

ReviewJob(p) ==
  /\ \E c \in Candidates : Listed(c) /\ Begin(p, c, Uploader)
  /\ UNCHANGED <<catalogVars, evidenceVars, policyVars, approver, historyVars,
                 events>>

ReviewByHand(p, a) ==
  /\ events < MaxEvents /\ events' = events + 1
  /\ \E c \in Candidates : Begin(p, c, a)
  /\ UNCHANGED <<catalogVars, evidenceVars, policyVars, approver, historyVars>>

\* An agent that is unavailable, or answers for another candidate or without
\* its evidence, leaves a failed report.
ReportOf(advice) ==
  [status |-> IF advice = "failed" THEN "failed" ELSE "completed", due |-> FALSE]

\* SaveReview replaces a report of the same number, whoever refers to it.
SaveReview(p, advice) ==
  LET r == reviewer[p]
  IN /\ r.pc = "report"
     /\ review' = [review EXCEPT ![r.c][r.n] = ReportOf(advice)]
     /\ reviewer' = [reviewer EXCEPT ![p].advice = advice,
          ![p].pc = IF r.again THEN "reset" ELSE "request"]
     /\ UNCHANGED <<catalogVars, request, decision, policyVars, approver,
                    historyVars, events>>

\* (History) The calls of Decide that have read what is now written anew.
Overtakes(c) ==
  overtaken' = overtaken \cup {a \in Admins : approver[a].pc # "idle" /\ approver[a].c = c}

ResetDecisions(p) ==
  /\ reviewer[p].pc = "reset"
  /\ decision' = [decision EXCEPT ![reviewer[p].c] = [a \in Admins |-> "none"]]
  /\ reviewer' = [reviewer EXCEPT ![p].pc = "request"]
  /\ Overtakes(reviewer[p].c)
  /\ UNCHANGED <<catalogVars, request, review, policyVars, approver, approved,
                 released, events>>

\* EvaluatePolicy: the classification and the risk set the minimum.
Minimum(advice) ==
  IF permission = "confidential" \/ advice \in {"publish_high", "failed"}
  THEN 2 ELSE 1

\* The request a report leads to; an approval policy can only add to it.
RequestOf(r) ==
  LET asked == [state |-> "approval_pending", review |-> r.n,
                required |-> Minimum(r.advice), by |-> r.by,
                group |-> FALSE, requesterMay |-> FALSE]
  IN CASE r.advice = "needs_info" ->
            [asked EXCEPT !.state = "needs_info", !.required = 1]
       [] r.advice = "manual_review" ->
            [asked EXCEPT !.state = "manual_exception", !.required = 1]
       [] r.advice = "failed" -> [asked EXCEPT !.state = "manual_exception"]
       [] OTHER ->
            IF policy = None THEN asked
            ELSE [asked EXCEPT !.group = TRUE,
                    !.requesterMay = policy.requesterMay,
                    !.required = IF policy.required > @ THEN policy.required ELSE @]

AcceptsAny(c) == TRUE
\* The update is refused once the request is closed; requested_by stays.
Accepts(c) == request[c].state \notin Closed

SaveRequest(p) ==
  LET r == reviewer[p]
      old == request[r.c]
      new == [RequestOf(r) EXCEPT !.by = IF old.state = "none" THEN r.by ELSE old.by]
  IN /\ r.pc = "request"
     /\ request' = IF ~Accepts(r.c) THEN request
                   ELSE [request EXCEPT ![r.c] = new]
     /\ reviewer' = [reviewer EXCEPT ![p] = IdleReviewer]
     /\ Overtakes(r.c)
     /\ UNCHANGED <<catalogVars, review, decision, policyVars, approver,
                    approved, released, events>>

ReviewerCrashes(p) ==
  /\ events < MaxEvents /\ events' = events + 1
  /\ reviewer[p].pc # "idle"
  /\ reviewer' = [reviewer EXCEPT ![p] = IdleReviewer]
  /\ UNCHANGED <<catalogVars, evidenceVars, policyVars, approver, historyVars>>

-----------------------------------------------------------------------------
(* The collector's sweeps: one statement each.  What it writes it selected *)
(* from its snapshot without a lock; a row changed meanwhile is written    *)
(* all the same, for only the key is compared again.                       *)

Selects(p, kind, c, n) ==
  /\ reviewer[p].pc = "idle"
  /\ reviewer' = [reviewer EXCEPT ![p].pc = kind, ![p].c = c, ![p].n = n]
  /\ UNCHANGED <<catalogVars, evidenceVars, policyVars, approver, historyVars,
                 events>>

\* A request whose exact candidate is no longer current.
Stale(c) ==
  \/ release.cur # c.v \/ release.rev # c.rev
  \/ ~Serves(c.v) \/ index[c.v].gen # c.g

SelectStale(p, c) ==
  /\ request[c].state \in Awaiting /\ Stale(c)
  /\ Selects(p, "stale", c, 1)

MarkStale(p) ==
  /\ reviewer[p].pc = "stale"
  /\ request' = [request EXCEPT ![reviewer[p].c].state = "needs_info"]
  /\ reviewer' = [reviewer EXCEPT ![p] = IdleReviewer]
  /\ UNCHANGED <<catalogVars, review, decision, policyVars, approver,
                 historyVars, events>>

\* Time passes: a report comes of age, not while its request is being saved.
Lapse(c, n) ==
  /\ events < MaxEvents /\ events' = events + 1
  /\ review[c][n].status \in {"completed", "failed"} /\ ~review[c][n].due
  /\ n < MaxReviews
  /\ \A p \in Reviewers :
       ~(reviewer[p].pc \in {"reset", "request"} /\ reviewer[p].c = c)
  /\ review' = [review EXCEPT ![c][n].due = TRUE]
  /\ UNCHANGED <<catalogVars, request, decision, policyVars, reviewer,
                 approver, historyVars>>

SelectDue(p, c) ==
  LET n == request[c].review
  IN /\ request[c].state \in Awaiting \cup {"needs_info"}
     /\ review[c][n].due /\ review[c][n].status \in {"completed", "failed"}
     /\ Selects(p, "due", c, n)

\* The request is written if the report still was there to expire.
MarkExpired(p) ==
  LET r == reviewer[p]
  IN /\ r.pc = "due"
     /\ \/ /\ review[r.c][r.n].status # "none"
           /\ review' = [review EXCEPT ![r.c][r.n].status = "expired"]
           /\ request' = [request EXCEPT ![r.c].state = "needs_info"]
        \/ review[r.c][r.n].status = "none" /\ UNCHANGED <<request, review>>
     /\ reviewer' = [reviewer EXCEPT ![p] = IdleReviewer]
     /\ UNCHANGED <<catalogVars, decision, policyVars, approver, historyVars,
                    events>>

SelectPurgeable(p, c, n) ==
  /\ review[c][n].due
  /\ request[c].state = "none" \/ request[c].review # n
  /\ Selects(p, "purge", c, n)

Purge(p) ==
  /\ reviewer[p].pc = "purge"
  /\ review' = [review EXCEPT ![reviewer[p].c][reviewer[p].n] = NoReview]
  /\ reviewer' = [reviewer EXCEPT ![p] = IdleReviewer]
  /\ UNCHANGED <<catalogVars, request, decision, policyVars, approver,
                 historyVars, events>>

-----------------------------------------------------------------------------
(* Approval policies                                                       *)

PutPolicy ==
  /\ events < MaxEvents /\ events' = events + 1
  /\ policy' \in Policies \cup {None} /\ policy' # policy
  /\ UNCHANGED <<catalogVars, evidenceVars, members, reviewer, approver,
                 historyVars>>

SetGroupMember(a) ==
  /\ events < MaxEvents /\ events' = events + 1
  /\ members' = IF a \in members THEN members \ {a} ELSE members \cup {a}
  /\ UNCHANGED <<catalogVars, evidenceVars, policy, reviewer, approver,
                 historyVars>>

-----------------------------------------------------------------------------
(* Decide, from the web handler or from the workflow callback              *)

Authorized(a, r) ==
  /\ r.group => a \in members
  /\ r.by # a \/ r.requesterMay

\* ValidateReviewBinding, and no other decision of the same administrator.
Admissible(a, c, verdict) ==
  LET n == request[c].review
  IN /\ review[c][n].status # "none" /\ ~Expired(c, n)
     /\ decision[c][a] \in {"none", verdict}

Approvals(c) == Cardinality({b \in Admins : decision[c][b] = "approved"})

CountsAgain(a, c, verdict) ==
  IF verdict = "approved" THEN Approvals(c) + 1 ELSE Approvals(c)
\* The approvals a call goes on with: those it read, and its own.
Counted(a, c, verdict) ==
  IF verdict = "approved" /\ decision[c][a] = "none"
  THEN Approvals(c) + 1 ELSE Approvals(c)

Open(a, c, verdict) ==
  LET r == request[c]
  IN /\ approver[a].pc = "idle"
     /\ Authorized(a, r) /\ r.state \in Awaiting
     /\ Admissible(a, c, verdict)
     /\ approver' = [approver EXCEPT ![a] =
          [pc |-> IF decision[c][a] = "none" THEN "record" ELSE "act",
           c |-> c, verdict |-> verdict, required |-> r.required,
           count |-> Counted(a, c, verdict)]]
     /\ overtaken' = overtaken \ {a}
     /\ UNCHANGED <<catalogVars, evidenceVars, policyVars, reviewer, approved,
                    released, events>>

\* One row per administrator: a concurrent call of the same one conflicts.
RecordDecision(a) ==
  LET s == approver[a]
  IN /\ s.pc = "record"
     /\ decision' = [decision EXCEPT ![s.c][a] = s.verdict]
     /\ approved' = IF s.verdict # "approved" THEN approved
                    ELSE [approved EXCEPT ![s.c] = @ \cup {a}]
     /\ approver' = [approver EXCEPT ![a].pc = "act"]
     /\ UNCHANGED <<catalogVars, request, review, policyVars, reviewer,
                    overtaken, released, events>>

\* SetRequestState knows no forbidden transition.
Reject(a) ==
  LET s == approver[a]
  IN /\ s.pc = "act" /\ s.verdict = "rejected"
     /\ request' = [request EXCEPT ![s.c].state = "rejected"]
     /\ approver' = [approver EXCEPT ![a] = IdleApprover]
     /\ UNCHANGED <<catalogVars, review, decision, policyVars, reviewer,
                    historyVars, events>>

Enough(s) == s.count >= s.required

\* Enough approvals, and the candidate is still the one assessed now.
Reassess(a) ==
  LET s == approver[a]
  IN /\ s.pc = "act" /\ s.verdict = "approved"
     /\ approver' = [approver EXCEPT ![a] =
          IF Enough(s) /\ Assessed = s.c
          THEN [s EXCEPT !.pc = "publish"] ELSE IdleApprover]
     /\ UNCHANGED <<catalogVars, evidenceVars, policyVars, reviewer,
                    historyVars, events>>

\* The locked release row is still at the reviewed version and revision.
IsCurrent(c) == release.cur = c.v /\ release.rev = c.rev

\* The catalogue row still allows it, deletion included.
MayPublish == Publishable /\ ~doc.deleting

\* A second call with the same key finds its own release.
AlreadyPublished(c) ==
  /\ release.key = c
  /\ release.cur = c.v /\ release.rev = c.rev + 1
  /\ release.pub = [v |-> c.v, g |-> c.g]

Publish(a) ==
  LET s == approver[a]
      c == s.c
      fresh == /\ release.key # c /\ IsCurrent(c)
               /\ Serves(c.v) /\ index[c.v].gen = c.g /\ MayPublish
  IN /\ s.pc = "publish"
     /\ \/ /\ fresh
           /\ release' = [release EXCEPT !.pub = [v |-> c.v, g |-> c.g],
                            !.rev = @ + 1, !.key = c]
           /\ doc' = [doc EXCEPT !.publication = "published"]
           /\ index' = [v \in Versions |->
                IF v = c.v THEN index[v] ELSE [index[v] EXCEPT !.active = FALSE]]
           /\ released' = released \cup
                {[c |-> c, read |-> s.required, asked |-> request[c].required,
                  approvals |-> Approvals(c), overtaken |-> a \in overtaken]}
        \/ ~fresh /\ UNCHANGED <<release, doc, index, released>>
     /\ approver' = [approver EXCEPT ![a] =
          IF fresh \/ AlreadyPublished(c)
          THEN [s EXCEPT !.pc = "settle"] ELSE IdleApprover]
     /\ UNCHANGED <<space, permission, evidenceVars, policyVars, reviewer,
                    approved, overtaken, events>>

Settle(a) ==
  LET s == approver[a]
  IN /\ s.pc = "settle"
     /\ request' = [request EXCEPT ![s.c].state = "published"]
     /\ approver' = [approver EXCEPT ![a] = IdleApprover]
     /\ UNCHANGED <<catalogVars, review, decision, policyVars, reviewer,
                    historyVars, events>>

ApproverCrashes(a) ==
  /\ events < MaxEvents /\ events' = events + 1
  /\ approver[a].pc # "idle"
  /\ approver' = [approver EXCEPT ![a] = IdleApprover]
  /\ UNCHANGED <<catalogVars, evidenceVars, policyVars, reviewer, historyVars>>

-----------------------------------------------------------------------------
Reviewing(p) ==
  \/ ReviewJob(p)
  \/ \E advice \in Advice : SaveReview(p, advice)
  \/ ResetDecisions(p) \/ SaveRequest(p)
  \/ MarkStale(p) \/ MarkExpired(p) \/ Purge(p)

Deciding(a) ==
  \/ \E c \in Candidates, verdict \in {"approved", "rejected"} : Open(a, c, verdict)
  \/ RecordDecision(a) \/ Reject(a) \/ Reassess(a)
  \/ Publish(a) \/ Settle(a) \/ ApproverCrashes(a)

Cataloguing ==
  \/ Admit \/ AcceptDeletion
  \/ \E v \in Versions : Activate(v) \/ Complete(v) \/ Diverge(v) \/ Reprocess(v)
  \/ \E to \in {"draft", "published", "retired"} : PatchPublication(to)
  \/ \E active \in BOOLEAN : PatchGovernance(active)

Sweeping(p) ==
  \E c \in Candidates :
    \/ SelectStale(p, c) \/ SelectDue(p, c)
    \/ \E n \in Numbers : SelectPurgeable(p, c, n)

Next ==
  \/ Cataloguing \/ PutPolicy
  \/ \E c \in Candidates, n \in Numbers : Lapse(c, n)
  \/ \E p \in Reviewers : Sweeping(p) \/ Reviewing(p) \/ ReviewerCrashes(p)
  \/ \E p \in Reviewers, a \in Admins : ReviewByHand(p, a)
  \/ \E a \in Admins : SetGroupMember(a) \/ Deciding(a)

\* The collectors run for as long as an API process does, a statement ends,
\* and an agent run ends, with a report or by its time limit.  (Every step of
\* Reviewing changes reviewer.)
Fairness == \A p \in Reviewers : WF_reviewer(Reviewing(p))

Spec == Init /\ [][Next]_vars /\ Fairness

-----------------------------------------------------------------------------
CandidateOrNone == Candidates \cup {None}

TypeOK ==
  /\ space \in Spaces /\ permission \in Permissions
  /\ doc \in [completed : BOOLEAN, active : BOOLEAN, deleting : BOOLEAN,
              publication : {"draft", "published", "retired"}]
  /\ release.cur \in 0..MaxVersion /\ release.rev \in Nat
  /\ release.pub \in [v : Versions, g : Gens] \cup {None}
  /\ release.key \in CandidateOrNone
  /\ index \in [Versions -> [gen : 0..MaxGen, active : BOOLEAN,
                             healthy : BOOLEAN, open : BOOLEAN]]
  /\ request \in [Candidates ->
       [state : Awaiting \cup Closed \cup {"none", "needs_info"},
        review : Numbers, required : {1, 2}, by : People, group : BOOLEAN,
        requesterMay : BOOLEAN]]
  /\ review \in [Candidates -> [Numbers ->
       [status : {"none", "completed", "failed", "expired"}, due : BOOLEAN]]]
  /\ decision \in [Candidates -> [Admins -> {"none", "approved", "rejected"}]]
  /\ policy \in Policies \cup {None} /\ members \subseteq Admins
  /\ reviewer \in [Reviewers ->
       [pc : {"idle", "report", "reset", "request", "stale", "due", "purge"},
        c : CandidateOrNone,
        n : Numbers, again : BOOLEAN, by : People, advice : AllAdvice]]
  /\ approver \in [Admins ->
       [pc : {"idle", "record", "act", "publish", "settle"},
        c : CandidateOrNone, verdict : {"approved", "rejected"},
        required : {1, 2}, count : Nat]]
  /\ approved \in [Candidates -> SUBSET Admins]
  /\ overtaken \subseteq Admins
  /\ released \subseteq [c : Candidates, read : {1, 2}, asked : {1, 2},
                          approvals : Nat, overtaken : BOOLEAN]
  /\ events \in 0..MaxEvents

(***************************************************************************)
(* A closed request stays closed (ADR 0011, evidence is immutable): no     *)
(* review that was under way and no decision reopens a published or        *)
(* rejected request, although each decides on a row it read earlier.  The  *)
(* one exception is a sweep's: it moves to needs_info every request it     *)
(* selected while that was waiting, closed since or not.                   *)
(***************************************************************************)
SelectedBySweep(c) ==
  \E p \in Reviewers : reviewer[p].pc \in {"stale", "due"} /\ reviewer[p].c = c
ClosedStaysClosed ==
  [][\A c \in Candidates :
       request[c].state \in Closed =>
         \/ request'[c].state \in Closed
         \/ SelectedBySweep(c) /\ request'[c].state = "needs_info"]_request

(***************************************************************************)
(* A candidate is released only on as many approvals of exactly it, by     *)
(* different administrators, as its request asks for at that moment,       *)
(* whatever other calls, retries and reviews do.  The one exception is a   *)
(* decision that a new review overtook, resetting the decisions or asking  *)
(* for more: that one still rests on as many approvals, each recorded at   *)
(* some time, as the request asked for when it was read.  And a request    *)
(* only says published once its candidate was released.                    *)
(***************************************************************************)
ReleaseHasItsApprovals ==
  /\ \A r \in released :
       /\ Cardinality(approved[r.c]) >= r.read
       /\ ~r.overtaken => r.approvals >= r.asked
  /\ \A c \in Candidates :
       request[c].state = "published" => \E r \in released : r.c = c

(***************************************************************************)
(* Once a deletion is accepted nothing of the document is released again:  *)
(* not by a decision that was already past its checks, and not by a job    *)
(* that completes afterwards.                                              *)
(***************************************************************************)
DeletionRevokesForGood == doc.deleting => release.pub = None

(***************************************************************************)
(* A candidate that waits for a review, or for another one after its       *)
(* report expired, gets it or stops being the candidate.                   *)
(***************************************************************************)
Waiting ==
  \E c \in Candidates :
    /\ c = Assessed /\ ~doc.deleting
    /\ \/ request[c].state = "none"
       \/ /\ request[c].state \notin Closed
          /\ review[c][request[c].review].status = "expired"
CandidateIsReviewed == Waiting ~> ~Waiting
=============================================================================
