------------------------------- MODULE Ranking -------------------------------
(***************************************************************************)
(* What internal/retrieval makes of the candidates of a question: the      *)
(* route, fusion, the demotion of documents that hardly touch the          *)
(* question, the decision to rerank, the pinning of identifiers, and the   *)
(* choice of what the model is shown.                                      *)
(*                                                                         *)
(* Scores are left out: where an order is decided by scores the result is  *)
(* the set of orders they may give.  An order gives each of its candidates *)
(* its place, the best being 1.  A candidate is a record with              *)
(*   doc, file    its document and that document's file                    *)
(*   text         its content, white space and letter forms aside          *)
(*   tokens       the identifiers in it                                    *)
(*   about        the questions it shares words with (hubOverlapFloor)     *)
(*   far          the questions it is below the relevance floor for        *)
(* and a question is a record with                                         *)
(*   name         what tells it from others                                *)
(*   keyword      it holds a structured token or an exact-intent keyword   *)
(*   semantic     it is long or holds a semantic-intent keyword            *)
(*   tokens       the identifiers it names, each a set of parts            *)
(*   titles       the documents whose title is in it                       *)
(*   dangling     it refers back to an earlier turn                        *)
(***************************************************************************)
EXTENDS Naturals, FiniteSets

CONSTANTS Chunks,      \* the candidates there are
          Elastic,     \* full text is configured
          CandidateLimit, \* candidateLimit, of a back end and of both together
          Policy,      \* RETRIEVAL_RERANK_POLICY
          RerankInput, \* RETRIEVAL_RERANK_INPUT_K, 0 for no cap
          RerankTop,   \* defaultRerankTopK
          TopK,
          MaxPerDoc    \* defaultMaxChunksPerDocument

\* The code takes no fewer candidates than three times TopK; a small instance
\* may, so that the limit is met with few chunks.
ASSUME RankingAssumption ==
  /\ Elastic \in BOOLEAN /\ Policy \in {"auto", "always"}
  /\ {CandidateLimit, TopK, MaxPerDoc, RerankTop} \subseteq Nat \ {0}
  /\ RerankInput \in Nat

\* topCandidates: the best n.
Best(s, n) == {c \in DOMAIN s : s[c] <= n}

\* The order in which a key puts what it is given for.
Sorted(key) == [c \in DOMAIN key |-> Cardinality({e \in DOMAIN key : key[e] <= key[c]})]

-----------------------------------------------------------------------------
\* Where a question is sent.

Configured == {"qdrant"} \cup (IF Elastic THEN {"elasticsearch"} ELSE {})

Strategy(question) ==
  CASE ~Elastic                                          -> "semantic"
    [] Elastic /\ question.keyword                       -> "exact_keyword"
    [] Elastic /\ ~question.keyword /\ question.semantic -> "semantic"
    [] OTHER                                             -> "hybrid"

\* Every route asks every back end that is configured; only weights differ.
Backends(question) == Configured

-----------------------------------------------------------------------------
\* Identifiers.

\* An identifier that is part of another the question names is not asked for.
Maximal(tokens) == {t \in tokens : ~\E other \in tokens : t \subseteq other /\ t # other}

Matched(question, cands) == {c \in cands : c.tokens \cap question.tokens # {}}

\* One candidate holds all that is asked for.
Sufficient(question, cands) ==
  Maximal(question.tokens) = {} \/ \E c \in cands : Maximal(question.tokens) \subseteq c.tokens

-----------------------------------------------------------------------------
\* Orders.

Orders == [found \in SUBSET Chunks |->
             {s \in [found -> 1..Cardinality(found)] :
                \A c, e \in found : s[c] = s[e] => c = e}]

\* What the first of a ranking may be, where it ends at the limit.
Limited(found) ==
  LET n == Cardinality(found)
  IN  {best \in SUBSET found :
         Cardinality(best) = IF n <= CandidateLimit THEN n ELSE CandidateLimit}

\* Fuse: the best of what either back end found, in any order.
Fused(found) == Limited(found)

Hub(s, d) == Cardinality({c \in DOMAIN s : c.doc = d}) >= 3

\* Candidates that share too few words with the question are demoted when
\* others share enough: they may only fall, and fall together unless some are
\* of a document with many chunks.
Demoted(question, cands) ==
  LET aside == {c \in cands : question.name \notin c.about}
  IN  IF aside = cands THEN {} ELSE aside

Stabilized(question, s) ==
  LET demoted == Demoted(question, DOMAIN s)
      Stays(c, e) == \/ c \notin demoted
                     \/ e \in demoted /\ (~Hub(s, c.doc) \/ c.doc = e.doc)
  IN  {t \in Orders[DOMAIN s] :
         \A c, e \in DOMAIN s : s[c] < s[e] /\ Stays(c, e) => t[c] < t[e]}

Exact(question) == Strategy(question) = "exact_keyword" \/ question.keyword

\* planRerank.  A question with exact intent is never reranked; it and, under
\* the policy "auto", any other question keeps what holds its identifiers.
Plan(question, s) ==
  LET matched == Matched(question, DOMAIN s)
      several == Cardinality(DOMAIN s) > 1
  IN  [rerank  |-> several /\ (Policy = "auto" => ~Exact(question)),
       protect |-> /\ several /\ Policy = "auto" /\ matched # {}
                   /\ Exact(question) => \A c \in matched : s[c] # 1]

\* The reranker scores the head of the order and answers with the best of it.
Reranked(s) ==
  LET input == IF RerankInput = 0 THEN DOMAIN s ELSE Best(s, RerankInput)
  IN  {[c \in Best(r, RerankTop) |-> r[c]] : r \in Orders[input]}

\* What holds an identifier comes first, and what the reranker did not return
\* comes back behind what it did.
Protected(ranked, fused, matched) ==
  LET n == Cardinality(DOMAIN fused)
      Behind(c) == IF c \in DOMAIN ranked THEN ranked[c] ELSE n + fused[c]
  IN  Sorted([c \in DOMAIN fused |-> Behind(c) + (IF c \in matched THEN 0 ELSE 2 * n)])

\* The order before the reranker stands when it is not asked or fails.  Without
\* one the plan is made on the order before the demotion.
Ordered(question, fused, reranker) ==
  LET matched   == Matched(question, DOMAIN fused)
      PlanOf(s) == Plan(question, IF reranker THEN s ELSE fused)
      Tries(s)  == IF reranker /\ PlanOf(s).rerank THEN {s} \cup Reranked(s) ELSE {s}
      planned   == UNION {{PlanOf(s)} \X Tries(s) : s \in Stabilized(question, fused)}
  IN  {IF p[1].protect THEN Protected(p[2], fused, matched) ELSE p[2] : p \in planned}

-----------------------------------------------------------------------------
\* What the model is shown.

\* Of the documents with one file the best placed, and of equal texts the first.
FromOneCopy(s) ==
  {c \in DOMAIN s : \E b \in DOMAIN s :
     b.file = c.file /\ b.doc = c.doc /\ \A e \in DOMAIN s : e.file = c.file => s[b] <= s[e]}
Deduplicated(s) ==
  {c \in FromOneCopy(s) : \A e \in FromOneCopy(s) : e.text = c.text => s[c] <= s[e]}

\* Mutant: the best TopK, whatever documents they are of.
BestOf(s) == Best(Sorted([c \in Deduplicated(s) |-> s[c]]), TopK)

\* diversifyCandidates: one chunk of each document in turn, then more of each
\* up to MaxPerDoc, and more than that only of a document that is alone.
Diversified(s) ==
  LET d        == Deduplicated(s)
      Turn(c)  == Cardinality({e \in d : e.doc = c.doc /\ s[e] <= s[c]})
      alone    == \A c, e \in d : c.doc = e.doc
      Round(n) == CASE n = 1 -> 0 [] n \in 2..MaxPerDoc -> 1 [] OTHER -> 2
      taken    == {c \in d : Round(Turn(c)) = 2 => alone}
  IN  Best(Sorted([c \in taken |-> Round(Turn(c)) * Cardinality(DOMAIN s) + s[c]]), TopK)

\* What a search may come to, of the candidates that fusion left.
Selections(question, cands, reranker) ==
  {Diversified(s) : s \in UNION {Ordered(question, fused, reranker) : fused \in Orders[cands]}}

\* gateByRelevance drops what is below the floor and carries a cosine; what
\* full text alone found carries none.
Gated(question, cands) ==
  {cands \ dropped : dropped \in SUBSET {c \in cands : question.name \in c.far}}
=============================================================================
