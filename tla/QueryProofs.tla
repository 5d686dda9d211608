----------------------------- MODULE QueryProofs -----------------------------
(***************************************************************************)
(* Proofs about Query and Ranking, for every set of documents, chunks,     *)
(* handlers and questions and every bound: any number of questions may be  *)
(* answered while any number of writes publish and withdraw documents.     *)
(* The first half is about ranking, that is, about orders on a finite set  *)
(* of candidates; the second about the steps of a query.                   *)
(***************************************************************************)
EXTENDS Query, FunctionTheorems, FiniteSetTheorems, WellFoundedInduction, TLAPS

-----------------------------------------------------------------------------
(* Ranking only ever drops candidates.                                     *)

LEMMA BestOfSorted ==
  ASSUME NEW key, NEW n
  PROVE  Best(Sorted(key), n) \subseteq DOMAIN key
  BY DEF Best, Sorted

LEMMA DiversifiedWithin == ASSUME NEW s PROVE Diversified(s) \subseteq DOMAIN s
<1> DEFINE d        == Deduplicated(s)
           Turn(c)  == Cardinality({e \in d : e.doc = c.doc /\ s[e] <= s[c]})
           alone    == \A c, e \in d : c.doc = e.doc
           Round(n) == CASE n = 1 -> 0 [] n \in 2..MaxPerDoc -> 1 [] OTHER -> 2
           taken    == {c \in d : Round(Turn(c)) = 2 => alone}
           key      == [c \in taken |-> Round(Turn(c)) * Cardinality(DOMAIN s) + s[c]]
<1>1. Diversified(s) = Best(Sorted(key), TopK)
  BY DEF Diversified
<1>2. DOMAIN key \subseteq d
  OBVIOUS
<1>3. d \subseteq DOMAIN s
  BY DEF Deduplicated, FromOneCopy
<1> HIDE DEF key, d
<1> QED BY <1>1, <1>2, <1>3, BestOfSorted

\* So does fusion, and the limit of a back end.
LEMMA LimitedWithin ==
  ASSUME NEW found, NEW best \in Limited(found)
  PROVE  best \subseteq found
  BY DEF Limited

LEMMA OrdersOver ==
  ASSUME NEW found \in SUBSET Chunks, NEW s \in Orders[found]
  PROVE  DOMAIN s = found
  BY DEF Orders

LEMMA StabilizedOver ==
  ASSUME NEW question, NEW found \in SUBSET Chunks, NEW s, DOMAIN s = found,
         NEW t \in Stabilized(question, s)
  PROVE  DOMAIN t = found
<1>1. t \in Orders[found]
  BY DEF Stabilized
<1> QED BY <1>1, OrdersOver

LEMMA RerankedWithin ==
  ASSUME NEW s, DOMAIN s \in SUBSET Chunks, NEW t \in Reranked(s)
  PROVE  DOMAIN t \subseteq DOMAIN s
<1> DEFINE input == IF RerankInput = 0 THEN DOMAIN s ELSE Best(s, RerankInput)
<1>1. input \subseteq DOMAIN s
  BY DEF Best
<1>2. PICK r \in Orders[input] : t = [c \in Best(r, RerankTop) |-> r[c]]
  BY DEF Reranked
<1>3. DOMAIN r = input
  BY <1>1, <1>2, OrdersOver
<1>4. DOMAIN t \subseteq DOMAIN r
  BY <1>2 DEF Best
<1> QED BY <1>1, <1>3, <1>4

LEMMA ProtectedOver ==
  ASSUME NEW ranked, NEW fused, NEW matched
  PROVE  DOMAIN Protected(ranked, fused, matched) = DOMAIN fused
  BY DEF Protected, Sorted

LEMMA OrderedWithin ==
  ASSUME NEW question, NEW found \in SUBSET Chunks, NEW fused, DOMAIN fused = found,
         NEW reranker \in BOOLEAN,
         NEW t \in Ordered(question, fused, reranker)
  PROVE  DOMAIN t \subseteq found
<1> DEFINE matched   == Matched(question, DOMAIN fused)
           PlanOf(s) == Plan(question, IF reranker THEN s ELSE fused)
           Tries(s)  == IF reranker /\ PlanOf(s).rerank THEN {s} \cup Reranked(s) ELSE {s}
           planned   == UNION {{PlanOf(s)} \X Tries(s) : s \in Stabilized(question, fused)}
<1>1. PICK p \in planned : t = IF p[1].protect THEN Protected(p[2], fused, matched) ELSE p[2]
  BY DEF Ordered
<1>2. PICK s \in Stabilized(question, fused) : p[2] \in Tries(s)
  BY <1>1
<1>3. DOMAIN s = found
  BY StabilizedOver
<1>4. DOMAIN p[2] \subseteq found
  <2>1. p[2] = s \/ p[2] \in Reranked(s)
    BY <1>2
  <2> QED BY <1>3, <2>1, RerankedWithin
<1> HIDE DEF matched, planned
<1> QED BY <1>1, <1>4, ProtectedOver

(* Whatever a search comes to, it shows candidates that were found.         *)
THEOREM SelectionsWithin ==
  ASSUME NEW question, NEW reranker \in BOOLEAN, NEW found \in SUBSET Chunks,
         NEW cands \in Selections(question, found, reranker)
  PROVE  cands \subseteq found
<1>1. PICK fused \in Orders[found] : \E s \in Ordered(question, fused, reranker) : cands = Diversified(s)
  BY DEF Selections
<1>2. PICK s \in Ordered(question, fused, reranker) : cands = Diversified(s)
  BY <1>1
<1>3. DOMAIN fused = found
  BY OrdersOver
<1>4. DOMAIN s \subseteq found
  BY <1>3, OrderedWithin
<1> QED BY <1>2, <1>4, DiversifiedWithin

-----------------------------------------------------------------------------
(***************************************************************************)
(* What ranking keeps.  An order that tells its candidates apart has a     *)
(* first one, and diversification always shows it; when pinning is done,   *)
(* or needless, the first one holds an identifier.  When nothing is left   *)
(* out, the first chunks of the documents come before all others, and      *)
(* there is room for them.                                                 *)
(***************************************************************************)

\* Candidates are put at different places.
Placed(s) ==
  /\ s \in [DOMAIN s -> Nat \ {0}]
  /\ \A c, e \in DOMAIN s : s[c] = s[e] => c = e

LEMMA LeastIn ==
  ASSUME NEW S, S # {}, NEW f, \A c \in S : f[c] \in Nat
  PROVE  \E c \in S : \A e \in S : f[c] <= f[e]
<1> DEFINE V == {f[c] : c \in S}
<1>1. V \in SUBSET Nat /\ V # {}
  OBVIOUS
<1>2. PICK n \in V : \A m \in V : ~(<<m, n>> \in OpToRel(<, Nat))
  BY <1>1, NatLessThanWellFounded, WFMin
<1>3. \A m \in V : ~(m < n)
  BY <1>1, <1>2 DEF OpToRel
<1>4. PICK c \in S : f[c] = n
  BY <1>2
<1>5. \A e \in S : f[c] <= f[e]
  <2> SUFFICES ASSUME NEW e \in S PROVE f[c] <= f[e]
    OBVIOUS
  <2>1. f[e] \in V /\ f[e] \in Nat /\ f[c] \in Nat
    OBVIOUS
  <2>2. ~(f[e] < n)
    BY <1>3, <2>1
  <2> QED BY <1>4, <2>1, <2>2
<1> QED BY <1>5

LEMMA FiniteIndex ==
  ASSUME IsFiniteSet(Chunks), NEW S \in SUBSET Chunks
  PROVE  IsFiniteSet(S) /\ Cardinality(S) \in Nat
  BY FS_Subset, FS_CardinalityType

LEMMA OrderPlaces ==
  ASSUME IsFiniteSet(Chunks), NEW found \in SUBSET Chunks, NEW s \in Orders[found]
  PROVE  /\ DOMAIN s = found /\ Placed(s)
         /\ \A c \in found : s[c] \in 1..Cardinality(found)
<1>1. /\ s \in [found -> 1..Cardinality(found)]
      /\ \A c, e \in found : s[c] = s[e] => c = e
  BY DEF Orders
<1>2. Cardinality(found) \in Nat
  BY FiniteIndex
<1>3. \A c \in found : s[c] \in Nat \ {0}
  BY <1>1, <1>2
<1> QED BY <1>1, <1>3 DEF Placed

\* Sorting by a key that tells candidates apart is an order by that key.
LEMMA SortedOrder ==
  ASSUME NEW key, IsFiniteSet(DOMAIN key), \A c \in DOMAIN key : key[c] \in Nat,
         \A c, e \in DOMAIN key : key[c] = key[e] => c = e
  PROVE  /\ DOMAIN Sorted(key) = DOMAIN key
         /\ Sorted(key) \in [DOMAIN key -> 1..Cardinality(DOMAIN key)]
         /\ \A c, e \in DOMAIN key : key[c] < key[e] => Sorted(key)[c] < Sorted(key)[e]
         /\ \A c, e \in DOMAIN key : Sorted(key)[c] = Sorted(key)[e] => c = e
<1> DEFINE Upto(c) == {e \in DOMAIN key : key[e] <= key[c]}
<1>1. Sorted(key) = [c \in DOMAIN key |-> Cardinality(Upto(c))]
  BY DEF Sorted
<1>2. ASSUME NEW c \in DOMAIN key
      PROVE  IsFiniteSet(Upto(c)) /\ Cardinality(Upto(c)) \in 1..Cardinality(DOMAIN key)
  <2>1. Upto(c) \subseteq DOMAIN key /\ c \in Upto(c)
    OBVIOUS
  <2>2. /\ IsFiniteSet(Upto(c)) /\ Cardinality(Upto(c)) <= Cardinality(DOMAIN key)
    BY <2>1, FS_Subset
  <2>3. Cardinality(Upto(c)) \in Nat /\ Cardinality(DOMAIN key) \in Nat
    BY <2>2, FS_CardinalityType
  <2>4. Cardinality(Upto(c)) # 0
    BY <2>1, <2>2, FS_EmptySet
  <2> HIDE DEF Upto
  <2> QED BY <2>2, <2>3, <2>4
<1>3. ASSUME NEW c \in DOMAIN key, NEW e \in DOMAIN key, key[c] < key[e]
      PROVE  Cardinality(Upto(c)) < Cardinality(Upto(e))
  <2>1. Upto(c) \subseteq Upto(e) /\ e \in Upto(e) /\ e \notin Upto(c)
    BY <1>3
  <2>2. Cardinality(Upto(c)) <= Cardinality(Upto(e)) /\ Cardinality(Upto(e)) # Cardinality(Upto(c))
    <3> HIDE DEF Upto
    <3> QED BY <1>2, <2>1, FS_Subset
  <2>3. Cardinality(Upto(c)) \in Nat /\ Cardinality(Upto(e)) \in Nat
    <3> HIDE DEF Upto
    <3> QED BY <1>2, FS_CardinalityType
  <2> HIDE DEF Upto
  <2> QED BY <2>2, <2>3
<1>4. ASSUME NEW c \in DOMAIN key, NEW e \in DOMAIN key, Sorted(key)[c] = Sorted(key)[e]
      PROVE  c = e
  <2>1. Cardinality(Upto(c)) = Cardinality(Upto(e)) /\ Cardinality(Upto(c)) \in Nat
    <3> HIDE DEF Upto
    <3> QED BY <1>1, <1>2, <1>4, FS_CardinalityType
  <2>2. ~(key[c] < key[e]) /\ ~(key[e] < key[c])
    <3> HIDE DEF Upto
    <3> QED BY <1>3, <2>1
  <2> QED BY <2>2
<1> HIDE DEF Upto
<1> QED BY <1>1, <1>2, <1>3, <1>4

LEMMA SortedFirst ==
  ASSUME NEW key, NEW c \in DOMAIN key, \A e \in DOMAIN key : key[e] <= key[c] => e = c,
         key[c] <= key[c]
  PROVE  Sorted(key)[c] = 1
<1>1. {e \in DOMAIN key : key[e] <= key[c]} = {c}
  OBVIOUS
<1>2. Cardinality({c}) = 1
  BY FS_Singleton
<1> QED BY <1>1, <1>2 DEF Sorted

\* What diversification is made of, written out as in the module.
Turn(s, c)  == Cardinality({e \in Deduplicated(s) : e.doc = c.doc /\ s[e] <= s[c]})
Round(n)    == CASE n = 1 -> 0 [] n \in 2..MaxPerDoc -> 1 [] OTHER -> 2
Taken(s)    == {c \in Deduplicated(s) :
                  Round(Turn(s, c)) = 2 => \A a, e \in Deduplicated(s) : a.doc = e.doc}
Key3(s)     == [c \in Taken(s) |-> Round(Turn(s, c)) * Cardinality(DOMAIN s) + s[c]]

LEMMA DiversifiedIs == ASSUME NEW s PROVE Diversified(s) = Best(Sorted(Key3(s)), TopK)
  BY DEF Diversified, Key3, Taken, Turn, Round

LEMMA RoundIs ==
  ASSUME RankingAssumption, NEW n
  PROVE  /\ Round(n) \in {0, 1, 2}
         /\ n = 1 => Round(n) = 0
         /\ Round(n) = 0 => n = 1
<1>1. CASE n = 1
  BY <1>1 DEF Round
<1>2. CASE n # 1 /\ n \in 2..MaxPerDoc
  BY <1>2 DEF Round
<1>3. CASE n # 1 /\ n \notin 2..MaxPerDoc
  BY <1>3 DEF Round
<1> QED BY <1>1, <1>2, <1>3

LEMMA KeyIs ==
  ASSUME RankingAssumption, NEW s, IsFiniteSet(DOMAIN s), Placed(s), NEW c \in Taken(s)
  PROVE  /\ c \in DOMAIN s /\ Key3(s)[c] \in Nat /\ s[c] <= Key3(s)[c]
         /\ Turn(s, c) = 1 => Key3(s)[c] = s[c]
         /\ Turn(s, c) # 1 => Cardinality(DOMAIN s) + s[c] <= Key3(s)[c]
<1>1. c \in DOMAIN s
  BY DEF Taken, Deduplicated, FromOneCopy
<1>2. s[c] \in Nat /\ Cardinality(DOMAIN s) \in Nat
  BY <1>1, FS_CardinalityType DEF Placed
<1>3. Key3(s)[c] = Round(Turn(s, c)) * Cardinality(DOMAIN s) + s[c]
  BY DEF Key3
<1>4. PICK r \in {0, 1, 2} : r = Round(Turn(s, c))
  BY RoundIs
<1>5. Turn(s, c) = 1 <=> r = 0
  BY <1>4, RoundIs
<1>6. PICK n \in Nat : n = Cardinality(DOMAIN s)
  BY <1>2
<1>7. Key3(s)[c] = r * n + s[c]
  BY <1>3, <1>4, <1>6
<1> HIDE DEF Key3, Turn
<1>8. CASE r = 0
  BY <1>1, <1>2, <1>5, <1>6, <1>7, <1>8
<1>9. CASE r = 1
  BY <1>1, <1>2, <1>5, <1>6, <1>7, <1>9
<1>10. CASE r = 2
  BY <1>1, <1>2, <1>5, <1>6, <1>7, <1>10
<1> QED BY <1>8, <1>9, <1>10

\* The first of its document comes in the first round.
LEMMA FirstTurn ==
  ASSUME RankingAssumption, NEW s, Placed(s), NEW c \in Deduplicated(s),
         \A e \in Deduplicated(s) : e.doc = c.doc => s[c] <= s[e]
  PROVE  Turn(s, c) = 1 /\ c \in Taken(s)
<1>1. Deduplicated(s) \subseteq DOMAIN s
  BY DEF Deduplicated, FromOneCopy
<1>2. \A e \in DOMAIN s : s[e] \in Nat
  BY DEF Placed
<1>3. \A e \in Deduplicated(s) : e.doc = c.doc /\ s[e] <= s[c] => e = c
  BY <1>1, <1>2 DEF Placed
<1>4. s[c] <= s[c]
  BY <1>1, <1>2
<1>5. {e \in Deduplicated(s) : e.doc = c.doc /\ s[e] <= s[c]} = {c}
  BY <1>3, <1>4
<1>6. Turn(s, c) = 1
  BY <1>5, FS_Singleton DEF Turn
<1> QED BY <1>6, RoundIs DEF Taken

\* The first of all is shown.
LEMMA FirstIsShown ==
  ASSUME RankingAssumption, NEW s, IsFiniteSet(DOMAIN s), Placed(s),
         NEW c \in DOMAIN s, \A e \in DOMAIN s : s[c] <= s[e]
  PROVE  c \in Diversified(s)
<1>1. c \in Deduplicated(s)
  BY DEF Deduplicated, FromOneCopy
<1>2. Turn(s, c) = 1 /\ c \in Taken(s)
  <2>1. Deduplicated(s) \subseteq DOMAIN s
    BY DEF Deduplicated, FromOneCopy
  <2> QED BY <1>1, <2>1, FirstTurn
<1>3. Key3(s)[c] = s[c] /\ Key3(s)[c] \in Nat
  BY <1>2, KeyIs
<1>4. DOMAIN Key3(s) = Taken(s)
  BY DEF Key3
<1>5. ASSUME NEW e \in Taken(s), Key3(s)[e] <= Key3(s)[c] PROVE e = c
  <2>1. e \in DOMAIN s /\ s[e] <= Key3(s)[e] /\ Key3(s)[e] \in Nat
    BY KeyIs
  <2>2. s[e] \in Nat /\ s[c] \in Nat
    BY <2>1 DEF Placed
  <2> HIDE DEF Key3
  <2>3. s[e] = s[c]
    BY <1>3, <1>5, <2>1, <2>2
  <2> QED BY <2>1, <2>3 DEF Placed
<1>6. Key3(s)[c] <= Key3(s)[c]
  BY <1>3
<1> HIDE DEF Key3
<1>7. Sorted(Key3(s))[c] = 1
  BY <1>2, <1>4, <1>5, <1>6, SortedFirst
<1>8. c \in DOMAIN Sorted(Key3(s))
  BY <1>2, <1>4 DEF Sorted
<1>9. 1 <= TopK
  BY DEF RankingAssumption
<1> QED BY <1>7, <1>8, <1>9, DiversifiedIs DEF Best

\* Ranks agree with an order that may leave some out.
LEMMA RerankedPlaces ==
  ASSUME IsFiniteSet(Chunks), NEW s, DOMAIN s \in SUBSET Chunks, NEW t \in Reranked(s)
  PROVE  /\ DOMAIN t \subseteq DOMAIN s
         /\ \A c \in DOMAIN t : t[c] \in 1..Cardinality(DOMAIN s)
         /\ \A c, e \in DOMAIN t : t[c] = t[e] => c = e
<1> DEFINE input == IF RerankInput = 0 THEN DOMAIN s ELSE Best(s, RerankInput)
<1>1. input \subseteq DOMAIN s
  BY DEF Best
<1>2. PICK r \in Orders[input] : t = [c \in Best(r, RerankTop) |-> r[c]]
  BY DEF Reranked
<1>3. /\ DOMAIN r = input /\ \A c \in input : r[c] \in 1..Cardinality(input)
      /\ \A c, e \in input : r[c] = r[e] => c = e
  BY <1>1, OrderPlaces DEF Placed
<1>4. DOMAIN t \subseteq input /\ \A c \in DOMAIN t : t[c] = r[c]
  BY <1>2, <1>3 DEF Best
<1>5. /\ Cardinality(input) \in Nat /\ Cardinality(DOMAIN s) \in Nat
      /\ Cardinality(input) <= Cardinality(DOMAIN s)
  BY <1>1, FiniteIndex, FS_Subset
<1> HIDE DEF input
<1> QED BY <1>1, <1>3, <1>4, <1>5

\* Pinning is an order of all that was found, those with an identifier first.
LEMMA ProtectedOrder ==
  ASSUME IsFiniteSet(Chunks), NEW found \in SUBSET Chunks, NEW fused \in Orders[found],
         NEW ranked, DOMAIN ranked \subseteq found, NEW matched,
         \A c \in DOMAIN ranked : ranked[c] \in 1..Cardinality(found),
         \A c, e \in DOMAIN ranked : ranked[c] = ranked[e] => c = e
  PROVE  /\ Protected(ranked, fused, matched) \in Orders[found]
         /\ \A c \in found \cap matched, e \in found \ matched :
              Protected(ranked, fused, matched)[c] < Protected(ranked, fused, matched)[e]
<1> DEFINE n == Cardinality(found)
           Behind(c) == IF c \in DOMAIN ranked THEN ranked[c] ELSE n + fused[c]
           key == [c \in found |-> Behind(c) + (IF c \in matched THEN 0 ELSE 2 * n)]
<1>1. /\ DOMAIN fused = found /\ n \in Nat /\ IsFiniteSet(found)
      /\ \A c \in found : fused[c] \in 1..n
      /\ \A c, e \in found : fused[c] = fused[e] => c = e
  BY OrderPlaces, FiniteIndex DEF Placed
<1>2. Protected(ranked, fused, matched) = Sorted(key)
  BY <1>1 DEF Protected
<1>3. \A c \in found : Behind(c) \in 1..(2 * n)
  <2> SUFFICES ASSUME NEW c \in found PROVE Behind(c) \in 1..(2 * n)
    OBVIOUS
  <2>1. CASE c \in DOMAIN ranked
    BY <1>1, <2>1
  <2>2. CASE c \notin DOMAIN ranked
    BY <1>1, <2>2
  <2> QED BY <2>1, <2>2
<1>4. \A c, e \in found : Behind(c) = Behind(e) => c = e
  <2> SUFFICES ASSUME NEW c \in found, NEW e \in found, Behind(c) = Behind(e) PROVE c = e
    OBVIOUS
  <2>0. fused[c] \in 1..n /\ fused[e] \in 1..n
    BY <1>1
  <2>1. CASE c \in DOMAIN ranked /\ e \in DOMAIN ranked
    BY <2>1
  <2>2. CASE c \notin DOMAIN ranked /\ e \notin DOMAIN ranked
    BY <1>1, <2>0, <2>2
  <2>3. CASE c \in DOMAIN ranked /\ e \notin DOMAIN ranked
    BY <1>1, <2>0, <2>3
  <2>4. CASE c \notin DOMAIN ranked /\ e \in DOMAIN ranked
    BY <1>1, <2>0, <2>4
  <2> QED BY <2>1, <2>2, <2>3, <2>4
<1>5. DOMAIN key = found /\ \A c \in found : key[c] = Behind(c) + (IF c \in matched THEN 0 ELSE 2 * n)
  OBVIOUS
<1> HIDE DEF n, Behind, key
<1>6. \A c \in found : /\ key[c] \in Nat
                       /\ c \in matched => key[c] = Behind(c) /\ key[c] <= 2 * n
                       /\ c \notin matched => key[c] = Behind(c) + 2 * n /\ 2 * n < key[c]
  BY <1>1, <1>3, <1>5
<1>7. \A c, e \in found : key[c] = key[e] => c = e
  <2> SUFFICES ASSUME NEW c \in found, NEW e \in found, key[c] = key[e] PROVE c = e
    OBVIOUS
  <2>1. Behind(c) \in Nat /\ Behind(e) \in Nat /\ 2 * n \in Nat
    BY <1>1, <1>3
  <2>2. Behind(c) = Behind(e)
    BY <1>6, <2>1
  <2> QED BY <1>4, <2>2
<1>8. /\ Sorted(key) \in [found -> 1..n]
      /\ \A c, e \in found : key[c] < key[e] => Sorted(key)[c] < Sorted(key)[e]
      /\ \A c, e \in found : Sorted(key)[c] = Sorted(key)[e] => c = e
  BY <1>1, <1>5, <1>6, <1>7, SortedOrder DEF n
<1>9. \A c \in found \cap matched, e \in found \ matched : key[c] < key[e]
  BY <1>1, <1>6
<1> QED BY <1>2, <1>8, <1>9 DEF Orders, n

\* Nothing demoted holds an identifier, if the plan is made before the demotion
\* and trusts the first.
Pinned(question, found, reranker) ==
  \/ reranker \/ ~Exact(question)
  \/ Matched(question, found) \cap Demoted(question, found) = {}

\* Where identifiers are protected, the first of the order holds one.
LEMMA FirstHoldsIdentifier ==
  ASSUME IsFiniteSet(Chunks), RankingAssumption, Policy = "auto", NEW question,
         NEW reranker \in BOOLEAN, NEW found \in SUBSET Chunks, NEW fused \in Orders[found],
         Pinned(question, found, reranker), Matched(question, found) # {},
         NEW t \in Ordered(question, fused, reranker)
  PROVE  /\ Placed(t) /\ DOMAIN t \subseteq found
         /\ \E c \in DOMAIN t \cap Matched(question, found) : \A e \in DOMAIN t : t[c] <= t[e]
<1> DEFINE matched   == Matched(question, DOMAIN fused)
           PlanOf(s) == Plan(question, IF reranker THEN s ELSE fused)
           Tries(s)  == IF reranker /\ PlanOf(s).rerank THEN {s} \cup Reranked(s) ELSE {s}
           planned   == UNION {{PlanOf(s)} \X Tries(s) : s \in Stabilized(question, fused)}
<1>1. PICK p \in planned : t = IF p[1].protect THEN Protected(p[2], fused, matched) ELSE p[2]
  BY DEF Ordered
<1>2. PICK s \in Stabilized(question, fused) : p[1] = PlanOf(s) /\ p[2] \in Tries(s)
  BY <1>1
<1>3. DOMAIN fused = found /\ matched = Matched(question, found) /\ matched \subseteq found
  BY OrderPlaces DEF Matched
<1>4. s \in Orders[found]
  BY <1>2, <1>3 DEF Stabilized
<1>5. /\ DOMAIN s = found /\ Placed(s) /\ \A c \in found : s[c] \in 1..Cardinality(found)
      /\ Cardinality(found) \in Nat
  BY <1>4, OrderPlaces, FiniteIndex
<1> DEFINE o == IF reranker THEN s ELSE fused
<1>6. /\ p[1] = Plan(question, o)
      /\ p[2] = s \/ (p[2] \in Reranked(s) /\ Plan(question, o).rerank)
  BY <1>2
<1>61. DOMAIN o = found
  BY <1>3, <1>5
<1> HIDE DEF matched, planned, Tries, PlanOf
<1>7. CASE p[1].protect
  <2>1. /\ DOMAIN p[2] \subseteq found
        /\ \A c \in DOMAIN p[2] : p[2][c] \in 1..Cardinality(found)
        /\ \A c, e \in DOMAIN p[2] : p[2][c] = p[2][e] => c = e
    BY <1>5, <1>6, RerankedPlaces DEF Placed
  <2>2. /\ t \in Orders[found]
        /\ \A c \in found \cap matched, e \in found \ matched : t[c] < t[e]
    BY <1>1, <1>7, <2>1, ProtectedOrder
  <2>3. DOMAIN t = found /\ Placed(t)
    BY <2>2, OrderPlaces
  <2>4. \A c \in found : t[c] \in Nat
    BY <2>3 DEF Placed
  <2>5. PICK c \in matched : \A e \in matched : t[c] <= t[e]
    BY <1>3, <2>4, LeastIn
  <2>6. \A e \in found : t[c] <= t[e]
    BY <1>3, <2>2, <2>4, <2>5
  <2> QED BY <1>3, <2>3, <2>5, <2>6
<1>8. CASE ~p[1].protect
  <2> HIDE DEF o
  <2>1. \/ ~(Cardinality(found) > 1)
        \/ Exact(question) /\ \E c \in matched : o[c] = 1
    BY <1>3, <1>6, <1>61, <1>8 DEF Plan
  <2>2. Plan(question, o).rerank => Cardinality(found) > 1 /\ ~Exact(question)
    BY <1>61 DEF Plan
  <2>3. t = s
    BY <1>1, <1>6, <1>8, <2>1, <2>2
  <2>4. \E c \in matched : \A e \in found : s[c] <= s[e]
    <3>1. CASE ~(Cardinality(found) > 1)
      <4>1. PICK c \in matched : TRUE
        BY <1>3
      <4>2. s[c] = 1
        BY <1>3, <1>5, <3>1
      <4> QED BY <1>5, <4>2
    <3>2. ASSUME Exact(question), NEW c \in matched, o[c] = 1
          PROVE  \A e \in found : s[c] <= s[e]
      <4>1. CASE reranker
        BY <1>5, <3>2, <4>1 DEF o
      <4>2. CASE ~reranker
        <5>1. fused[c] = 1 /\ c \notin Demoted(question, found)
          BY <1>3, <3>2, <4>2 DEF o, Pinned
        <5>2. \A e \in found : e # c => fused[c] < fused[e]
          BY <1>3, <5>1, OrderPlaces DEF Placed
        <5>3. \A e \in found : fused[c] < fused[e] => s[c] < s[e]
          BY <1>2, <1>3, <5>1 DEF Stabilized
        <5>4. \A e \in found : s[e] \in Nat
          BY <1>5
        <5> QED BY <1>3, <5>2, <5>3, <5>4
      <4> QED BY <4>1, <4>2
    <3> QED BY <2>1, <3>1, <3>2
  <2> QED BY <1>3, <1>5, <2>3, <2>4
<1> QED BY <1>7, <1>8

(* A search of which fusion leaves an identifier asked for selects one,     *)
(* where the policy is "auto": it is pinned or first already, and           *)
(* diversification starts with the first.  Without a reranker, what holds   *)
(* an identifier must not be demoted, if the question has exact intent.     *)
THEOREM IdentifierSurvives ==
  ASSUME IsFiniteSet(Chunks), RankingAssumption, Policy = "auto", NEW question,
         NEW reranker \in BOOLEAN, NEW found \in SUBSET Chunks,
         Pinned(question, found, reranker), Matched(question, found) # {},
         NEW cands \in Selections(question, found, reranker)
  PROVE  Matched(question, cands) # {}
<1>1. PICK fused \in Orders[found] : \E s \in Ordered(question, fused, reranker) : cands = Diversified(s)
  BY DEF Selections
<1>2. PICK s \in Ordered(question, fused, reranker) : cands = Diversified(s)
  BY <1>1
<1>3. /\ Placed(s) /\ DOMAIN s \subseteq found
      /\ \E c \in DOMAIN s \cap Matched(question, found) : \A e \in DOMAIN s : s[c] <= s[e]
  BY FirstHoldsIdentifier
<1>4. IsFiniteSet(DOMAIN s)
  BY <1>3, FiniteIndex
<1>5. PICK c \in Matched(question, found) : c \in Diversified(s)
  BY <1>3, <1>4, FirstIsShown
<1> QED BY <1>2, <1>5 DEF Matched

\* Without a cap that bites, ranking is an order of all that was found.
LEMMA NothingLeftOut ==
  ASSUME IsFiniteSet(Chunks), RankingAssumption, NEW question, NEW found \in SUBSET Chunks,
         NEW reranker \in BOOLEAN,
         reranker => \A cap \in {RerankInput, RerankTop} \ {0} : Cardinality(found) <= cap,
         NEW fused \in Orders[found],
         NEW t \in Ordered(question, fused, reranker)
  PROVE  t \in Orders[found]
<1> DEFINE matched   == Matched(question, DOMAIN fused)
           PlanOf(s) == Plan(question, IF reranker THEN s ELSE fused)
           Tries(s)  == IF reranker /\ PlanOf(s).rerank THEN {s} \cup Reranked(s) ELSE {s}
           planned   == UNION {{PlanOf(s)} \X Tries(s) : s \in Stabilized(question, fused)}
<1>1. PICK p \in planned : t = IF p[1].protect THEN Protected(p[2], fused, matched) ELSE p[2]
  BY DEF Ordered
<1>2. PICK s \in Stabilized(question, fused) : p[2] \in Tries(s)
  BY <1>1
<1>3. s \in Orders[found]
  BY <1>2, OrderPlaces DEF Stabilized
<1>4. p[2] = s \/ (reranker /\ p[2] \in Reranked(s))
  BY <1>2
<1>5. p[2] \in Orders[found]
  <2>1. SUFFICES ASSUME reranker, p[2] \in Reranked(s) PROVE p[2] \in Orders[found]
    BY <1>3, <1>4
  <2>2. /\ DOMAIN s = found /\ \A c \in found : s[c] \in 1..Cardinality(found)
        /\ Cardinality(found) \in Nat
    BY <1>3, OrderPlaces, FiniteIndex
  <2>3. RerankTop # 0 /\ Cardinality(found) <= RerankTop
        /\ (RerankInput # 0 => Cardinality(found) <= RerankInput)
        /\ RerankTop \in Nat /\ RerankInput \in Nat
    BY <2>1 DEF RankingAssumption
  <2>4. (IF RerankInput = 0 THEN DOMAIN s ELSE Best(s, RerankInput)) = found
    BY <2>2, <2>3 DEF Best
  <2>5. PICK r \in Orders[found] : p[2] = [c \in Best(r, RerankTop) |-> r[c]]
    BY <2>1, <2>4 DEF Reranked
  <2>6. /\ r \in [found -> 1..Cardinality(found)]
    BY DEF Orders
  <2>7. Best(r, RerankTop) = found
    BY <2>2, <2>3, <2>6 DEF Best
  <2>8. p[2] = r
    BY <2>5, <2>6, <2>7
  <2> QED BY <2>5, <2>8
<1> HIDE DEF matched, planned
<1>6. Protected(p[2], fused, matched) \in Orders[found]
  BY <1>5, OrderPlaces, ProtectedOrder DEF Placed
<1> QED BY <1>1, <1>5, <1>6

\* A chunk in the first round of its document: there is one for each, and all
\* of them come before the rest.
LEMMA FirstRoundIsShown ==
  ASSUME IsFiniteSet(Chunks), RankingAssumption, NEW found \in SUBSET Chunks,
         Cardinality(Documents(found)) <= TopK, NEW s \in Orders[found],
         NEW c \in Taken(s), Turn(s, c) = 1
  PROVE  c \in Diversified(s)
<1>1. /\ DOMAIN s = found /\ Placed(s) /\ IsFiniteSet(found)
      /\ Cardinality(found) \in Nat /\ \A e \in found : s[e] \in 1..Cardinality(found)
  BY OrderPlaces, FiniteIndex
<1>2. Deduplicated(s) \subseteq found /\ Taken(s) \subseteq Deduplicated(s)
  BY <1>1 DEF Deduplicated, FromOneCopy, Taken
<1> DEFINE F == {e \in Taken(s) : Key3(s)[e] <= Key3(s)[c]}
<1>3. ASSUME NEW e \in F PROVE Turn(s, e) = 1
  <2> SUFFICES ASSUME Turn(s, e) # 1 PROVE FALSE
    OBVIOUS
  <2>1. /\ Cardinality(found) + s[e] <= Key3(s)[e] /\ Key3(s)[c] = s[c]
        /\ Key3(s)[e] \in Nat
    BY <1>1, KeyIs
  <2>2. s[e] \in 1..Cardinality(found) /\ s[c] \in 1..Cardinality(found)
    BY <1>1, <1>2
  <2>3. Key3(s)[e] <= Key3(s)[c]
    BY <1>3
  <2> HIDE DEF Key3, F
  <2> QED BY <1>1, <2>1, <2>2, <2>3
<1>4. ASSUME NEW a \in F, NEW b \in F, a.doc = b.doc PROVE a = b
  <2>1. Turn(s, a) = 1 /\ Turn(s, b) = 1 /\ a \in Deduplicated(s) /\ b \in Deduplicated(s)
    BY <1>2, <1>3
  <2> DEFINE U(x) == {e \in Deduplicated(s) : e.doc = x.doc /\ s[e] <= s[x]}
  <2>2. IsFiniteSet(U(a)) /\ IsFiniteSet(U(b))
    BY <1>1, <1>2, FS_Subset
  <2>3. Cardinality(U(a)) = 1 /\ Cardinality(U(b)) = 1
    BY <2>1 DEF Turn
  <2>4. s[a] \in Nat /\ s[b] \in Nat
    BY <1>1, <1>2, <2>1
  <2>5. a \in U(a) /\ b \in U(b)
    BY <2>1, <2>4
  <2>6. \A x \in U(a) : x = a
    <3> HIDE DEF U
    <3> QED BY <2>2, <2>3, <2>5, FS_Singleton
  <2>7. \A x \in U(b) : x = b
    <3> HIDE DEF U
    <3> QED BY <2>2, <2>3, <2>5, FS_Singleton
  <2>8. CASE s[b] <= s[a]
    BY <1>4, <2>1, <2>6, <2>8
  <2>9. CASE s[a] <= s[b]
    BY <1>4, <2>1, <2>7, <2>9
  <2> QED BY <2>4, <2>8, <2>9
<1>5. IsFiniteSet(Documents(found))
  <2> DEFINE doc == [e \in found |-> e.doc]
  <2>1. doc \in Surjection(found, Documents(found))
    BY DEF Surjection, Documents
  <2> QED BY <1>1, <2>1, FS_Surjection
<1>6. Cardinality(F) <= Cardinality(Documents(found))
  <2> DEFINE doc == [e \in F |-> e.doc]
  <2>1. F \subseteq found
    BY <1>2
  <2> HIDE DEF F
  <2>2. doc \in Injection(F, Documents(found))
    BY <1>4, <2>1 DEF Injection, IsInjective, Documents
  <2> QED BY <1>5, <2>2, FS_Injection
<1>7. Cardinality(F) \in Nat /\ Cardinality(Documents(found)) \in Nat /\ TopK \in Nat
  <2>1. F \subseteq found
    BY <1>2
  <2> QED BY <1>5, <2>1, FiniteIndex, FS_CardinalityType DEF RankingAssumption
<1>8. DOMAIN Key3(s) = Taken(s)
  BY DEF Key3
<1>9. Sorted(Key3(s))[c] = Cardinality(F) /\ c \in DOMAIN Sorted(Key3(s))
  BY <1>8 DEF Sorted
<1> HIDE DEF F
<1> QED BY <1>6, <1>7, <1>9, DiversifiedIs DEF Best

(* Where no reranker cuts any and there is room for a chunk of each document *)
(* found, no document is crowded out, whatever the configuration: it is     *)
(* shown, or one that has its file, or the text of a chunk with its file.   *)
THEOREM DocumentsSurvive ==
  ASSUME IsFiniteSet(Chunks), RankingAssumption, NEW question, NEW found \in SUBSET Chunks,
         NEW reranker \in BOOLEAN,
         reranker => \A cap \in {RerankInput, RerankTop} \ {0} : Cardinality(found) <= cap,
         Cardinality(Documents(found)) <= TopK,
         NEW cands \in Selections(question, found, reranker), NEW e \in found
  PROVE  \E c \in cands, copy, x \in found :
           copy.file = e.file /\ x.text = copy.text /\ c.doc = x.doc
<1>1. PICK fused \in Orders[found] : \E s \in Ordered(question, fused, reranker) : cands = Diversified(s)
  BY DEF Selections
<1>2. PICK s \in Ordered(question, fused, reranker) : cands = Diversified(s)
  BY <1>1
<1>3. s \in Orders[found]
  BY <1>2, NothingLeftOut
<1>4. DOMAIN s = found /\ Placed(s) /\ \A x \in found : s[x] \in Nat
  BY <1>3, OrderPlaces DEF Placed
<1>5. PICK copy \in {x \in found : x.file = e.file} :
        \A y \in {x \in found : x.file = e.file} : s[copy] <= s[y]
  BY <1>4, LeastIn
<1>6. copy \in FromOneCopy(s) /\ FromOneCopy(s) \subseteq found
  BY <1>4, <1>5 DEF FromOneCopy
<1>7. PICK x \in {y \in FromOneCopy(s) : y.text = copy.text} :
        \A y \in {y \in FromOneCopy(s) : y.text = copy.text} : s[x] <= s[y]
  <2>1. copy \in {y \in FromOneCopy(s) : y.text = copy.text}
    BY <1>6
  <2> QED BY <1>4, <1>6, <2>1, LeastIn
<1>8. x \in Deduplicated(s) /\ Deduplicated(s) \subseteq found
  BY <1>6, <1>7 DEF Deduplicated
<1>9. PICK c \in {y \in Deduplicated(s) : y.doc = x.doc} :
        \A y \in {y \in Deduplicated(s) : y.doc = x.doc} : s[c] <= s[y]
  <2>1. x \in {y \in Deduplicated(s) : y.doc = x.doc}
    BY <1>8
  <2> QED BY <1>4, <1>8, <2>1, LeastIn
<1>10. Turn(s, c) = 1 /\ c \in Taken(s)
  BY <1>4, <1>9, FirstTurn
<1>11. c \in Diversified(s)
  BY <1>3, <1>10, FirstRoundIsShown
<1> QED BY <1>2, <1>5, <1>6, <1>7, <1>9, <1>11

-----------------------------------------------------------------------------
(* What a selection is: diversification leaves it as it is, and any part   *)
(* of it, in whatever order it comes back from the cache.                  *)

\* It fits into an answer, holds of a file one document and of a text one chunk,
\* and of a document among others no more than MaxPerDoc.
Compact(S) ==
  /\ IsFiniteSet(S) /\ Cardinality(S) <= TopK
  /\ \A c, e \in S : (c.file = e.file => c.doc = e.doc) /\ (c.text = e.text => c = e)
  /\ \A c \in S : \/ Cardinality({e \in S : e.doc = c.doc}) <= MaxPerDoc
                  \/ \A a, e \in S : a.doc = e.doc

\* However many share a place, the best n are at most n.
LEMMA BestAreFew ==
  ASSUME NEW key, IsFiniteSet(DOMAIN key), \A c \in DOMAIN key : key[c] \in Nat, NEW n \in Nat
  PROVE  Cardinality(Best(Sorted(key), n)) <= n
<1> DEFINE Upto(c) == {e \in DOMAIN key : key[e] <= key[c]}
           B       == Best(Sorted(key), n)
<1>1. B = {c \in DOMAIN key : Cardinality(Upto(c)) <= n}
  BY DEF Best, Sorted
<1>2. \A c \in DOMAIN key : IsFiniteSet(Upto(c)) /\ Cardinality(Upto(c)) \in Nat
  <2> SUFFICES ASSUME NEW c \in DOMAIN key
               PROVE  IsFiniteSet(Upto(c)) /\ Cardinality(Upto(c)) \in Nat
    OBVIOUS
  <2>1. Upto(c) \subseteq DOMAIN key
    OBVIOUS
  <2> HIDE DEF Upto
  <2> QED BY <2>1, FS_Subset, FS_CardinalityType
<1>3. CASE B = {}
  BY <1>3, FS_EmptySet
<1>4. CASE B # {}
  <2> DEFINE room == [c \in B |-> n - Cardinality(Upto(c))]
  <2>1. \A c \in B : Cardinality(Upto(c)) \in Nat /\ Cardinality(Upto(c)) <= n /\ c \in DOMAIN key
    BY <1>1, <1>2
  <2>2. \A c \in B : room[c] \in Nat
    <3> HIDE DEF Upto, B
    <3> QED BY <2>1
  <2>3. PICK c \in B : \A e \in B : room[c] <= room[e]
    <3> HIDE DEF room, B
    <3> QED BY <1>4, <2>2, LeastIn
  <2>4. ASSUME NEW e \in B PROVE Cardinality(Upto(e)) <= Cardinality(Upto(c))
    <3>1. room[c] = n - Cardinality(Upto(c)) /\ room[e] = n - Cardinality(Upto(e))
      OBVIOUS
    <3> HIDE DEF room
    <3>2. room[c] <= room[e]
      BY <2>3
    <3> HIDE DEF Upto, B
    <3> QED BY <2>1, <3>1, <3>2
  <2>5. ASSUME NEW e \in B PROVE e \in Upto(c)
    <3> SUFFICES ASSUME e \notin Upto(c) PROVE FALSE
      OBVIOUS
    <3>1. e \in DOMAIN key /\ c \in DOMAIN key /\ key[c] < key[e]
      <4>1. e \in DOMAIN key /\ c \in DOMAIN key
        BY <2>1
      <4>2. ~(key[e] <= key[c])
        BY <4>1
      <4> QED BY <4>1, <4>2
    <3>2. Upto(c) \subseteq Upto(e) /\ e \in Upto(e) /\ e \notin Upto(c)
      BY <3>1
    <3> HIDE DEF Upto, B
    <3>3. /\ Cardinality(Upto(c)) <= Cardinality(Upto(e))
          /\ Cardinality(Upto(c)) # Cardinality(Upto(e))
      BY <1>2, <3>1, <3>2, FS_Subset
    <3> QED BY <1>2, <2>4, <3>1, <3>3
  <2>6. Cardinality(B) <= Cardinality(Upto(c)) /\ Cardinality(B) \in Nat
    <3> HIDE DEF Upto, B
    <3> QED BY <1>2, <2>1, <2>5, FS_Subset, FS_CardinalityType
  <2> HIDE DEF Upto, B
  <2>7. Cardinality(B) <= n
    BY <2>1, <2>6
  <2> QED BY <2>7 DEF B
<1> QED BY <1>3, <1>4

LEMMA CompactPart == ASSUME NEW S, Compact(S), NEW T \in SUBSET S PROVE Compact(T)
<1>1. IsFiniteSet(T) /\ Cardinality(T) <= Cardinality(S) /\ Cardinality(T) \in Nat
      /\ Cardinality(S) \in Nat
  BY FS_Subset, FS_CardinalityType DEF Compact
<1>2. Cardinality(T) <= TopK
  BY <1>1, RankingAssumption DEF Compact, RankingAssumption
<1>3. ASSUME NEW c \in T, Cardinality({e \in S : e.doc = c.doc}) <= MaxPerDoc
      PROVE  Cardinality({e \in T : e.doc = c.doc}) <= MaxPerDoc
  <2> DEFINE Of(R) == {e \in R : e.doc = c.doc}
  <2>1. Of(T) \subseteq Of(S) /\ Of(S) \subseteq S
    OBVIOUS
  <2>2. IsFiniteSet(Of(S))
    BY <2>1, FS_Subset DEF Compact
  <2>3. Cardinality(Of(S)) <= MaxPerDoc
    BY <1>3
  <2> HIDE DEF Of
  <2>4. Cardinality(Of(T)) <= Cardinality(Of(S)) /\ IsFiniteSet(Of(T))
    BY <2>1, <2>2, FS_Subset
  <2>5. Cardinality(Of(T)) <= MaxPerDoc
    BY <2>2, <2>3, <2>4, FS_CardinalityType, RankingAssumption DEF RankingAssumption
  <2> QED BY <2>5 DEF Of
<1>4. \A c \in T : \/ Cardinality({e \in T : e.doc = c.doc}) <= MaxPerDoc
                   \/ \A a, e \in T : a.doc = e.doc
  BY <1>3 DEF Compact
<1>5. \A c, e \in T : (c.file = e.file => c.doc = e.doc) /\ (c.text = e.text => c = e)
  BY DEF Compact
<1> QED BY <1>1, <1>2, <1>4, <1>5 DEF Compact

\* One document of each file is left, and one chunk of each text.
LEMMA DeduplicatedOnce ==
  ASSUME NEW s, Placed(s), NEW c \in Deduplicated(s), NEW e \in Deduplicated(s)
  PROVE  (c.file = e.file => c.doc = e.doc) /\ (c.text = e.text => c = e)
<1>1. c \in FromOneCopy(s) /\ e \in FromOneCopy(s) /\ c \in DOMAIN s /\ e \in DOMAIN s
  BY DEF Deduplicated, FromOneCopy
<1>2. \A x \in DOMAIN s : s[x] \in Nat
  BY DEF Placed
<1>3. ASSUME c.text = e.text PROVE c = e
  <2>1. s[c] <= s[e] /\ s[e] <= s[c]
    BY <1>1, <1>3 DEF Deduplicated
  <2>2. s[c] = s[e]
    BY <1>1, <1>2, <2>1
  <2> QED BY <1>1, <2>2 DEF Placed
<1>4. ASSUME c.file = e.file PROVE c.doc = e.doc
  <2>1. PICK b \in DOMAIN s : b.file = c.file /\ b.doc = c.doc
                              /\ \A x \in DOMAIN s : x.file = c.file => s[b] <= s[x]
    BY <1>1 DEF FromOneCopy
  <2>2. PICK d \in DOMAIN s : d.file = e.file /\ d.doc = e.doc
                              /\ \A x \in DOMAIN s : x.file = e.file => s[d] <= s[x]
    BY <1>1 DEF FromOneCopy
  <2>3. s[b] <= s[d] /\ s[d] <= s[b]
    BY <1>4, <2>1, <2>2
  <2>4. s[b] = s[d]
    BY <1>2, <2>3
  <2> QED BY <2>1, <2>2, <2>4 DEF Placed
<1> QED BY <1>3, <1>4

LEMMA DiversifiedCompact ==
  ASSUME RankingAssumption, NEW s, IsFiniteSet(DOMAIN s), Placed(s)
  PROVE  Compact(Diversified(s))
<1> DEFINE D == Diversified(s)
<1>1. \A c \in DOMAIN Key3(s) : Key3(s)[c] \in Nat
  BY KeyIs DEF Key3
<1>2. DOMAIN Key3(s) = Taken(s) /\ Taken(s) \subseteq Deduplicated(s)
      /\ Deduplicated(s) \subseteq DOMAIN s
  BY DEF Key3, Taken, Deduplicated, FromOneCopy
<1>3. IsFiniteSet(Taken(s)) /\ IsFiniteSet(Deduplicated(s))
  BY <1>2, FS_Subset
<1>4. TopK \in Nat /\ MaxPerDoc \in Nat \ {0}
  BY DEF RankingAssumption
<1>5. D \subseteq Taken(s) /\ Cardinality(D) <= TopK
  BY <1>1, <1>2, <1>3, <1>4, DiversifiedIs, BestOfSorted, BestAreFew
<1> HIDE DEF D
<1>6. IsFiniteSet(D)
  BY <1>3, <1>5, FS_Subset
<1>7. ASSUME NEW c \in D, NEW a \in D, NEW b \in D, a.doc # b.doc
      PROVE  Cardinality({e \in D : e.doc = c.doc}) <= MaxPerDoc
  <2> DEFINE of  == {x \in Deduplicated(s) : x.doc = c.doc}
             key == [x \in of |-> s[x]]
             S   == {e \in D : e.doc = c.doc}
  <2>1. of \subseteq DOMAIN s /\ S \subseteq of
    BY <1>2, <1>5
  <2>2. \A x \in DOMAIN key : key[x] \in Nat
    BY <2>1 DEF Placed
  <2>3. ASSUME NEW e \in S PROVE Sorted(key)[e] <= MaxPerDoc
    <3>1. e \in of /\ e.doc = c.doc /\ e \in Taken(s)
      BY <1>5, <2>1
    <3>2. {x \in DOMAIN key : key[x] <= key[e]}
            = {x \in Deduplicated(s) : x.doc = e.doc /\ s[x] <= s[e]}
      BY <3>1
    <3>3. Sorted(key)[e] = Turn(s, e)
      BY <3>1, <3>2 DEF Sorted, Turn
    <3>4. Round(Turn(s, e)) # 2
      BY <1>2, <1>5, <1>7, <3>1 DEF Taken
    <3>5. Turn(s, e) = 1 \/ Turn(s, e) \in 2..MaxPerDoc
      BY <3>4 DEF Round
    <3> QED BY <1>4, <3>3, <3>5
  <2>4. S \subseteq Best(Sorted(key), MaxPerDoc)
    <3>1. DOMAIN Sorted(key) = of
      BY DEF Sorted
    <3> HIDE DEF key, S
    <3> QED BY <2>1, <2>3, <3>1 DEF Best
  <2>5. IsFiniteSet(DOMAIN key)
    BY <1>3, FS_Subset
  <2> HIDE DEF key, S
  <2>6. Best(Sorted(key), MaxPerDoc) \subseteq DOMAIN key
    BY BestOfSorted
  <2>7. IsFiniteSet(Best(Sorted(key), MaxPerDoc))
    BY <2>5, <2>6, FS_Subset
  <2>8. Cardinality(Best(Sorted(key), MaxPerDoc)) <= MaxPerDoc
    BY <1>4, <2>2, <2>5, BestAreFew
  <2>9. Cardinality(S) <= Cardinality(Best(Sorted(key), MaxPerDoc)) /\ IsFiniteSet(S)
    BY <2>4, <2>7, FS_Subset
  <2>10. Cardinality(S) <= MaxPerDoc
    BY <1>4, <2>7, <2>8, <2>9, FS_CardinalityType
  <2> QED BY <2>10 DEF S
<1>8. \A c \in D : \/ Cardinality({e \in D : e.doc = c.doc}) <= MaxPerDoc
                   \/ \A a, e \in D : a.doc = e.doc
  BY <1>7
<1>9. \A c, e \in D : (c.file = e.file => c.doc = e.doc) /\ (c.text = e.text => c = e)
  BY <1>2, <1>5, DeduplicatedOnce
<1>10. Compact(D)
  BY <1>5, <1>6, <1>8, <1>9 DEF Compact
<1> QED BY <1>10 DEF D

LEMMA CompactStays ==
  ASSUME IsFiniteSet(Chunks), RankingAssumption, NEW S \in SUBSET Chunks, Compact(S),
         NEW s \in Orders[S]
  PROVE  Diversified(s) = S
<1>1. /\ DOMAIN s = S /\ Placed(s) /\ IsFiniteSet(S) /\ Cardinality(S) \in Nat
      /\ \A c \in S : s[c] \in Nat
  BY OrderPlaces, FiniteIndex DEF Placed
<1>2. FromOneCopy(s) = S
  <2>1. FromOneCopy(s) \subseteq S
    BY <1>1 DEF FromOneCopy
  <2>2. ASSUME NEW c \in S PROVE c \in FromOneCopy(s)
    <3>1. PICK b \in {x \in S : x.file = c.file} :
            \A e \in {x \in S : x.file = c.file} : s[b] <= s[e]
      BY <1>1, LeastIn
    <3>2. b.doc = c.doc
      BY <3>1 DEF Compact
    <3> QED BY <1>1, <3>1, <3>2 DEF FromOneCopy
  <2> QED BY <2>1, <2>2
<1>3. Deduplicated(s) = S
  BY <1>1, <1>2 DEF Deduplicated, Compact
<1>4. ASSUME NEW c \in S PROVE c \in Taken(s)
  <2> DEFINE U == {e \in S : e.doc = c.doc /\ s[e] <= s[c]}
             V == {e \in S : e.doc = c.doc}
  <2>1. Turn(s, c) = Cardinality(U)
    BY <1>3 DEF Turn
  <2>2. U \subseteq V /\ V \subseteq S /\ c \in U
    BY <1>1
  <2> HIDE DEF U
  <2>3. /\ IsFiniteSet(U) /\ IsFiniteSet(V) /\ Cardinality(U) \in Nat /\ Cardinality(V) \in Nat
        /\ Cardinality(U) <= Cardinality(V) /\ Cardinality(U) # 0
    <3> HIDE DEF V
    <3> QED BY <1>1, <2>2, FS_Subset, FS_CardinalityType, FS_EmptySet
  <2>4. CASE Cardinality(V) <= MaxPerDoc
    <3>1. Cardinality(U) = 1 \/ Cardinality(U) \in 2..MaxPerDoc
      <4> HIDE DEF V
      <4> QED BY <2>3, <2>4 DEF RankingAssumption
    <3>2. Round(Turn(s, c)) # 2
      BY <2>1, <3>1 DEF Round
    <3> QED BY <1>3, <3>2 DEF Taken
  <2>5. CASE \A a, e \in S : a.doc = e.doc
    BY <1>3, <2>5 DEF Taken
  <2> QED BY <2>4, <2>5 DEF Compact
<1>5. Taken(s) = S
  BY <1>3, <1>4 DEF Taken
<1> DEFINE K == Key3(s)
<1>6. DOMAIN K = S
  BY <1>5 DEF Key3
<1> HIDE DEF K
<1>7. ASSUME NEW c \in S PROVE Sorted(K)[c] <= TopK
  <2> DEFINE U == {e \in DOMAIN K : K[e] <= K[c]}
  <2>1. Sorted(K)[c] = Cardinality(U) /\ U \subseteq S
    BY <1>6 DEF Sorted
  <2> HIDE DEF U
  <2>2. Cardinality(U) <= Cardinality(S) /\ Cardinality(U) \in Nat
    BY <1>1, <2>1, FS_Subset, FS_CardinalityType
  <2> QED BY <1>1, <2>1, <2>2 DEF Compact, RankingAssumption
<1>8. Best(Sorted(K), TopK) = S
  BY <1>6, <1>7 DEF Best, Sorted
<1> QED BY <1>8, DiversifiedIs DEF K

\* Every stage puts its candidates at different places.
LEMMA OrderedPlaced ==
  ASSUME IsFiniteSet(Chunks), NEW question, NEW found \in SUBSET Chunks,
         NEW fused \in Orders[found], NEW reranker \in BOOLEAN,
         NEW t \in Ordered(question, fused, reranker)
  PROVE  Placed(t) /\ DOMAIN t \subseteq found
<1> DEFINE matched   == Matched(question, DOMAIN fused)
           PlanOf(s) == Plan(question, IF reranker THEN s ELSE fused)
           Tries(s)  == IF reranker /\ PlanOf(s).rerank THEN {s} \cup Reranked(s) ELSE {s}
           planned   == UNION {{PlanOf(s)} \X Tries(s) : s \in Stabilized(question, fused)}
<1>1. PICK p \in planned : t = IF p[1].protect THEN Protected(p[2], fused, matched) ELSE p[2]
  BY DEF Ordered
<1>2. PICK s \in Stabilized(question, fused) : p[2] \in Tries(s)
  BY <1>1
<1>3. s \in Orders[found]
  BY <1>2, OrderPlaces DEF Stabilized
<1>4. /\ DOMAIN s = found /\ Placed(s) /\ \A c \in found : s[c] \in 1..Cardinality(found)
      /\ Cardinality(found) \in Nat
  BY <1>3, OrderPlaces, FiniteIndex
<1>5. p[2] = s \/ p[2] \in Reranked(s)
  BY <1>2
<1> HIDE DEF matched, planned, Tries, PlanOf
<1>6. /\ DOMAIN p[2] \subseteq found
      /\ \A c \in DOMAIN p[2] : p[2][c] \in 1..Cardinality(found)
      /\ \A c, e \in DOMAIN p[2] : p[2][c] = p[2][e] => c = e
  BY <1>4, <1>5, RerankedPlaces DEF Placed
<1>7. CASE t = p[2]
  <2>1. p[2] \in [DOMAIN p[2] -> Nat \ {0}]
    <3>1. p[2] = [c \in DOMAIN p[2] |-> p[2][c]]
      <4>1. CASE p[2] = s
        BY <1>3, <1>4, <4>1 DEF Placed
      <4>2. CASE p[2] \in Reranked(s)
        BY <4>2 DEF Reranked
      <4> QED BY <1>5, <4>1, <4>2
    <3> QED BY <1>4, <1>6, <3>1
  <2> QED BY <1>6, <1>7, <2>1 DEF Placed
<1>8. CASE t = Protected(p[2], fused, matched)
  BY <1>6, <1>8, ProtectedOrder, OrderPlaces
<1> QED BY <1>1, <1>7, <1>8

LEMMA SelectionsCompact ==
  ASSUME IsFiniteSet(Chunks), NEW question, NEW found \in SUBSET Chunks,
         NEW reranker \in BOOLEAN,
         NEW cands \in Selections(question, found, reranker)
  PROVE  Compact(cands)
<1>1. PICK fused \in Orders[found] : \E s \in Ordered(question, fused, reranker) : cands = Diversified(s)
  BY DEF Selections
<1>2. PICK s \in Ordered(question, fused, reranker) : cands = Diversified(s)
  BY <1>1
<1>3. Placed(s) /\ DOMAIN s \subseteq found
  BY OrderedPlaced
<1>4. IsFiniteSet(DOMAIN s)
  BY <1>3, FiniteIndex
<1> QED BY <1>2, <1>3, <1>4, RankingAssumption, DiversifiedCompact

-----------------------------------------------------------------------------
(* The inductive invariant.                                                *)

Fields == {"pc", "ask", "hit", "filtered", "conflict", "titles", "found", "cands",
           "authority", "text", "seen", "admitted", "view", "resp"}

Framed(r) ==
  /\ DOMAIN r = Fields
  /\ DOMAIN r.view = {"text", "sources"}
  /\ DOMAIN r.resp = {"text", "reason", "sources", "conflict"}

Single(S) == \A c1, c2 \in S : c1.doc = c2.doc => c1.gen = c2.gen

\* What a query may still cite or has cited.
All(r) == r.cands \cup r.view.sources \cup r.resp.sources

Early  == {"titles", "embed", "lookup", "search", "authority", "legacy"}
Judged == {"governance", "generate", "verify", "done", "failed"}

\* What is cited passed every gate: it is the reader's, of one generation of its
\* document, and was published while the query ran.
Cited(r) ==
  /\ All(r) \subseteq Readable(r.ask)
  /\ Single(All(r))
  /\ \A c \in All(r) : c \in r.seen \/ Blended(c)
  /\ r.pc \in Judged => \A c \in All(r) : c.doc \in r.admitted

\* Which fields of a query may hold something at a step.
Staged(r) ==
  /\ r.pc \in Early => r.cands = {}
  /\ r.pc \in Open => r.resp.sources = {}
  /\ r.pc \in Open \ {"generate", "verify"} => r.view.sources = {}
  /\ r.view.sources \subseteq r.cands \/ r.pc \in {"done", "failed"}

\* A running query remembers all that may be cited now; what it has read of the
\* releases was so at some moment of it.
Watching(r, reg) ==
  /\ r.pc \in Open => VisibleIn(reg) \subseteq r.seen /\ AdmittedIn(reg) \subseteq r.admitted
  /\ r.pc = "legacy" =>
       \A c \in r.found : c.gen = r.authority[c.doc] /\ c.gen # NoGen => c \in r.seen

Ended(r) ==
  r.pc = "done" => /\ r.view.text = r.resp.text
                   /\ r.resp.reason # "" => r.view.sources = {}

QueryInv(r, reg) ==
  /\ Framed(r) /\ r.ask \in Asks /\ r.pc \in Open \cup {"done", "failed"}
  /\ r.found \subseteq Readable(r.ask)
  /\ Cited(r) /\ Staged(r) /\ Watching(r, reg) /\ Ended(r)

\* A release names a generation of its document.
Registered(reg) ==
  /\ DOMAIN reg = Docs
  /\ \A d \in Docs :
       /\ DOMAIN reg[d] = {"release", "healthy", "publication", "retired", "deleting"}
       /\ reg[d].release \in GensOf(d) \cup {NoGen}

CacheInv == /\ DOMAIN cache = Keys
            /\ \A k \in Keys : cache[k] \subseteq {c \in Chunks : c.permission \in k[1]}

Inv == /\ Registered(docs) /\ CacheInv
       /\ DOMAIN q = Handlers
       /\ \A h \in Handlers : q[h] = Idle \/ QueryInv(q[h], docs)

-----------------------------------------------------------------------------
(* The steps of one query.  Each lemma says that the record a step leaves   *)
(* behind keeps the invariant of the record it starts from.                 *)

LEMMA OverFields ==
  ASSUME NEW r, Framed(r)
  PROVE  /\ Framed(Over(r))
         /\ Over(r).cands = {} /\ Over(r).found = {} /\ Over(r).authority = NoAuthority
         /\ Over(r).pc = r.pc /\ Over(r).ask = r.ask /\ Over(r).seen = r.seen
         /\ Over(r).admitted = r.admitted /\ Over(r).view = r.view /\ Over(r).resp = r.resp
  BY DEF Over, Framed, Fields

\* What an answer shows comes from what was shown before and from the answer.
LEMMA StreamedFields ==
  ASSUME NEW shown, NEW resp, DOMAIN shown = {"text", "sources"}
  PROVE  /\ DOMAIN Streamed(shown, resp) = {"text", "sources"}
         /\ Streamed(shown, resp).text = resp.text
         /\ Streamed(shown, resp).sources \subseteq shown.sources \cup resp.sources
         /\ resp.text \in Reasons => Streamed(shown, resp).sources = resp.sources
  BY DEF Streamed, Encoded

LEMMA EncodedFields ==
  ASSUME NEW resp
  PROVE  /\ DOMAIN Encoded(resp) = {"text", "sources"}
         /\ Encoded(resp).text = resp.text /\ Encoded(resp).sources = resp.sources
  BY DEF Encoded

\* The record a query that is answered leaves.
FinishedFrom(n, r, resp) ==
  /\ Framed(n) /\ n.pc = "done" /\ n.resp = resp /\ n.cands = {} /\ n.found = {}
  /\ n.ask = r.ask /\ n.seen = r.seen /\ n.admitted = r.admitted
  /\ n.view.text = resp.text /\ n.view.sources \subseteq r.view.sources \cup resp.sources
  /\ resp.reason # "" => n.view.sources = {}

Response(resp) ==
  /\ DOMAIN resp = {"text", "reason", "sources", "conflict"}
  /\ resp.reason # "" => resp.text \in Reasons /\ resp.sources = {}

LEMMA FinishedFields ==
  ASSUME NEW r, Framed(r), NEW resp, Response(resp)
  PROVE  FinishedFrom(Finished(r, resp), r, resp)
<1> DEFINE view == IF r.ask.streams THEN Streamed(r.view, resp) ELSE Encoded(resp)
<1>1. /\ DOMAIN view = {"text", "sources"} /\ view.text = resp.text
      /\ view.sources \subseteq r.view.sources \cup resp.sources
      /\ resp.text \in Reasons => view.sources = resp.sources
  BY StreamedFields, EncodedFields DEF Framed
<1> USE DEF Response
<1>2. Finished(r, resp) = [Over(r) EXCEPT !.pc = "done", !.resp = resp, !.view = view]
  BY OverFields DEF Finished
<1> HIDE DEF view
<1>5. DOMAIN Over(r) = Fields
  BY OverFields DEF Framed
<1>3. /\ DOMAIN Finished(r, resp) = Fields /\ Finished(r, resp).pc = "done"
      /\ Finished(r, resp).resp = resp /\ Finished(r, resp).view = view
  BY <1>2, <1>5 DEF Fields
<1>6. /\ Finished(r, resp).ask = Over(r).ask /\ Finished(r, resp).seen = Over(r).seen
      /\ Finished(r, resp).admitted = Over(r).admitted
      /\ Finished(r, resp).cands = Over(r).cands /\ Finished(r, resp).found = Over(r).found
  BY <1>2, <1>5 DEF Fields
<1>4. /\ Finished(r, resp).ask = r.ask /\ Finished(r, resp).seen = r.seen
      /\ Finished(r, resp).admitted = r.admitted
      /\ Finished(r, resp).cands = {} /\ Finished(r, resp).found = {}
  BY <1>6, OverFields
<1> QED BY <1>1, <1>3, <1>4 DEF Framed, FinishedFrom

\* An answer made of what was shown and of candidates that passed the gates.
LEMMA FinishedInv ==
  ASSUME NEW reg, NEW r, QueryInv(r, reg), r.pc \in Judged,
         NEW resp, Response(resp), resp.sources \subseteq r.cands
  PROVE  QueryInv(Finished(r, resp), reg)
<1> DEFINE n == Finished(r, resp)
<1>1. FinishedFrom(n, r, resp)
  BY FinishedFields DEF QueryInv
<1> HIDE DEF n
<1>2. /\ Framed(n) /\ n.pc = "done" /\ n.resp = resp /\ n.cands = {} /\ n.found = {}
      /\ n.ask = r.ask /\ n.seen = r.seen /\ n.admitted = r.admitted
      /\ n.view.text = resp.text /\ n.view.sources \subseteq r.view.sources \cup resp.sources
      /\ resp.reason # "" => n.view.sources = {}
  BY <1>1 DEF FinishedFrom
<1>3. All(n) \subseteq All(r)
  BY <1>2 DEF All
<1>4. Cited(n)
  BY <1>2, <1>3 DEF QueryInv, Cited, Single
<1>5. Staged(n) /\ Watching(n, reg) /\ Ended(n)
  BY <1>2 DEF Staged, Watching, Ended, Early, Open
<1>6. n.ask \in Asks /\ n.found \subseteq Readable(n.ask)
  BY <1>2 DEF QueryInv
<1> QED BY <1>2, <1>4, <1>5, <1>6 DEF QueryInv, n

LEMMA RefusalFields ==
  ASSUME NEW reason \in Reasons
  PROVE  /\ Response(Refusal(reason))
         /\ Refusal(reason).text = reason /\ Refusal(reason).reason = reason
         /\ Refusal(reason).sources = {}
  BY DEF Refusal, Response

LEMMA RefusedInv ==
  ASSUME NEW reg, NEW r, QueryInv(r, reg), r.pc \in Judged, NEW reason \in Reasons
  PROVE  QueryInv(Finished(r, Refusal(reason)), reg)
  BY RefusalFields, FinishedInv

\* A step that shows nothing.
Quiet(n, r) ==
  /\ Framed(n) /\ n.ask = r.ask /\ n.seen = r.seen /\ n.admitted = r.admitted
  /\ n.view = r.view /\ n.resp = r.resp

\* Before the gates a query holds nothing but what it found.
LEMMA OnwardInv ==
  ASSUME NEW reg, NEW r, QueryInv(r, reg), r.pc \in Early,
         NEW n, Quiet(n, r), n.pc \in Early \ {"legacy"}, n.cands = {},
         n.found \subseteq Readable(r.ask)
  PROVE  QueryInv(n, reg)
<1>1. /\ Framed(n) /\ n.ask = r.ask /\ n.seen = r.seen /\ n.admitted = r.admitted
      /\ n.view = r.view /\ n.resp = r.resp
  BY DEF Quiet
<1>2. n.pc \in Open /\ n.pc \notin Judged /\ n.pc \notin {"generate", "verify"} /\ n.pc # "legacy"
  BY DEF Early, Open, Judged
<1>3. r.pc \in Open /\ r.pc \notin {"generate", "verify"}
  BY DEF Early, Open
<1>4. r.view.sources = {} /\ r.resp.sources = {}
  BY <1>3 DEF QueryInv, Staged
<1>5. All(n) = {}
  BY <1>1, <1>4 DEF All
<1>6. Cited(n)
  BY <1>1, <1>2, <1>5 DEF Cited, Single
<1>7. Staged(n)
  BY <1>1, <1>4 DEF Staged
<1>8. Watching(n, reg)
  BY <1>1, <1>2, <1>3 DEF QueryInv, Watching
<1>9. Ended(n)
  BY <1>2 DEF Ended, Open
<1> QED BY <1>1, <1>2, <1>6, <1>7, <1>8, <1>9 DEF QueryInv

\* After them it only ever drops candidates.
LEMMA NarrowedInv ==
  ASSUME NEW reg, NEW r, QueryInv(r, reg), r.pc \in {"store", "catalog", "governance"},
         NEW n, Quiet(n, r), n.pc \in {"catalog", "governance"}, n.cands \subseteq r.cands,
         n.found \subseteq Readable(r.ask),
         n.pc = "governance" => \A c \in n.cands : c.doc \in r.admitted
  PROVE  QueryInv(n, reg)
<1>1. /\ Framed(n) /\ n.ask = r.ask /\ n.seen = r.seen /\ n.admitted = r.admitted
      /\ n.view = r.view /\ n.resp = r.resp
  BY DEF Quiet
<1>2. n.pc \in Open /\ n.pc \notin {"generate", "verify"} /\ n.pc \notin Early
  BY DEF Early, Open
<1>3. r.pc \in Open /\ r.pc \notin {"generate", "verify"}
  BY DEF Open
<1>4. r.view.sources = {} /\ r.resp.sources = {}
  BY <1>3 DEF QueryInv, Staged
<1>5. All(n) = n.cands /\ n.cands \subseteq All(r)
  BY <1>1, <1>4 DEF All
<1>6. Cited(n)
  <2>1. \A c \in n.cands : c \in Readable(n.ask) /\ (c \in n.seen \/ Blended(c))
    BY <1>1, <1>5 DEF QueryInv, Cited
  <2>2. Single(n.cands)
    BY <1>5 DEF QueryInv, Cited, Single
  <2>3. n.pc \in Judged => \A c \in n.cands : c.doc \in n.admitted
    BY <1>1 DEF Judged
  <2> QED BY <1>5, <2>1, <2>2, <2>3 DEF Cited
<1>7. Staged(n)
  BY <1>1, <1>2, <1>4 DEF Staged
<1>8. Watching(n, reg)
  BY <1>1, <1>2, <1>3 DEF QueryInv, Watching, Early
<1>9. Ended(n)
  BY <1>2 DEF Ended, Open
<1> QED BY <1>1, <1>2, <1>6, <1>7, <1>8, <1>9 DEF QueryInv

LEMMA ListTitlesInv ==
  ASSUME NEW r, QueryInv(r, docs), r.pc = "titles", NEW titles
  PROVE  QueryInv([r EXCEPT !.pc = "embed", !.titles = titles], docs)
<1> DEFINE n == [r EXCEPT !.pc = "embed", !.titles = titles]
<1>1. Framed(r) /\ r.found \subseteq Readable(r.ask) /\ r.cands = {}
  BY DEF QueryInv, Staged, Early
<1>2. Quiet(n, r) /\ n.pc = "embed" /\ n.cands = r.cands /\ n.found = r.found
  BY <1>1 DEF Quiet, Framed, Fields
<1> HIDE DEF n
<1> QED BY <1>1, <1>2, OnwardInv DEF Early, n

LEMMA EmbedInv ==
  ASSUME NEW r, QueryInv(r, docs), r.pc = "embed"
  PROVE  QueryInv([r EXCEPT !.pc = "lookup"], docs)
<1> DEFINE n == [r EXCEPT !.pc = "lookup"]
<1>1. Framed(r) /\ r.found \subseteq Readable(r.ask) /\ r.cands = {}
  BY DEF QueryInv, Staged, Early
<1>2. Quiet(n, r) /\ n.pc = "lookup" /\ n.cands = r.cands /\ n.found = r.found
  BY <1>1 DEF Quiet, Framed, Fields
<1> HIDE DEF n
<1> QED BY <1>1, <1>2, OnwardInv DEF Early, n

\* What the cache answers is for readers with the same permissions.
LEMMA HitsReadable ==
  ASSUME CacheInv, NEW ask \in Asks, NEW found \in Hits(ask)
  PROVE  found \subseteq Readable(ask)
<1>1. Key(ask) \in Keys /\ Key(ask)[1] = Permissions(ask.role)
  BY DEF Keys, Key
<1>2. \A k \in Keys : k[1] = Key(ask)[1] => cache[k] \subseteq Readable(ask)
  BY <1>1 DEF CacheInv, Readable
<1>3. found = {} \/ \E k \in Keys : k[1] = Key(ask)[1] /\ found = cache[k]
  BY <1>1 DEF Hits
<1> QED BY <1>2, <1>3

LEMMA LookupInv ==
  ASSUME CacheInv, NEW r, QueryInv(r, docs), r.pc = "lookup", NEW found \in Hits(r.ask)
  PROVE  QueryInv([r EXCEPT !.pc = IF found = {} THEN "search" ELSE "authority",
                            !.hit = found # {}, !.found = found], docs)
<1> DEFINE to == IF found = {} THEN "search" ELSE "authority"
           n  == [r EXCEPT !.pc = to, !.hit = found # {}, !.found = found]
<1>1. Framed(r) /\ r.cands = {} /\ found \subseteq Readable(r.ask)
  BY HitsReadable DEF QueryInv, Staged, Early
<1>2. to \in Early \ {"legacy"}
  BY DEF Early
<1> HIDE DEF to
<1>3. Quiet(n, r) /\ n.pc = to /\ n.cands = r.cands /\ n.found = found
  BY <1>1 DEF Quiet, Framed, Fields
<1> HIDE DEF n
<1>4. QueryInv(n, docs)
  BY <1>1, <1>2, <1>3, OnwardInv DEF Early
<1> QED BY <1>4 DEF n, to

LEMMA SearchInv ==
  ASSUME NEW r, QueryInv(r, docs), r.pc = "search", NEW answering,
         NEW found \in Found(answering, r.ask, r.titles)
  PROVE  QueryInv([r EXCEPT !.pc = "authority", !.titles = {}, !.found = found], docs)
<1> DEFINE n == [r EXCEPT !.pc = "authority", !.titles = {}, !.found = found]
<1>1. Framed(r) /\ r.cands = {}
  BY DEF QueryInv, Staged, Early
<1>2. found \subseteq Readable(r.ask)
  <2>1. Worded(r.ask, r.titles) \subseteq Readable(r.ask)
    BY DEF Worded
  <2>2. PICK near \in Limited(IF "qdrant" \in answering THEN Readable(r.ask) ELSE {}),
             worded \in Limited(IF "elasticsearch" \in answering
                               THEN Worded(r.ask, r.titles) ELSE {}) :
          found = near \cup worded
    BY DEF Found
  <2> QED BY <2>1, <2>2, LimitedWithin
<1>3. Quiet(n, r) /\ n.pc = "authority" /\ n.cands = r.cands /\ n.found = found
  BY <1>1 DEF Quiet, Framed, Fields
<1> HIDE DEF n
<1>4. QueryInv(n, docs)
  BY <1>1, <1>2, <1>3, OnwardInv DEF Early
<1> QED BY <1>4 DEF n

\* The release of a document, as the read policy takes it.
LEMMA VisibleNow ==
  ASSUME NEW c \in Chunks
  PROVE  /\ Authority(c.doc) # NoGen /\ c.gen = Authority(c.doc) => c \in VisibleIn(docs)
         /\ Authority(c.doc) = NoGen /\ LegacyPublished(c.doc) /\ c.gen = NoGen
              => c \in VisibleIn(docs)
<1> DEFINE authority == [d \in Docs |-> IF docs[d].healthy THEN docs[d].release ELSE NoGen]
           legacy    == {d \in Docs : docs[d].publication = "published" /\ ~docs[d].deleting}
<1>1. c.doc \in Docs
  BY QueryAssumption
<1>2. authority[c.doc] = Authority(c.doc) /\ (c.doc \in legacy <=> LegacyPublished(c.doc))
  BY <1>1 DEF Authority, LegacyPublished
<1>3. VisibleIn(docs) = {e \in Chunks : VisibleIf(e, authority, legacy)}
  BY DEF VisibleIn
<1> HIDE DEF authority, legacy
<1> QED BY <1>2, <1>3 DEF VisibleIf

\* Which release a chunk has been compared with was the release of its document.
LEMMA ReadAuthorityInv ==
  ASSUME NEW r, QueryInv(r, docs), r.pc = "authority"
  PROVE  QueryInv([r EXCEPT !.pc = "legacy",
                            !.authority = [d \in Docs |-> IF d \in Documents(r.found)
                                                          THEN Authority(d) ELSE NoGen]], docs)
<1> DEFINE authority == [d \in Docs |-> IF d \in Documents(r.found) THEN Authority(d) ELSE NoGen]
           n         == [r EXCEPT !.pc = "legacy", !.authority = authority]
<1>1. /\ Framed(r) /\ r.cands = {} /\ r.found \subseteq Readable(r.ask) /\ r.ask \in Asks
      /\ r.view.sources = {} /\ r.resp.sources = {}
      /\ VisibleIn(docs) \subseteq r.seen /\ AdmittedIn(docs) \subseteq r.admitted
  BY DEF QueryInv, Staged, Watching, Early, Open
<1>2. \A c \in r.found : c \in Chunks /\ c.doc \in Docs
  BY <1>1, QueryAssumption DEF Readable
<1>3. \A c \in r.found : authority[c.doc] = Authority(c.doc)
  BY <1>2 DEF Documents
<1> HIDE DEF authority
<1>4. /\ n.pc = "legacy" /\ n.authority = authority
      /\ Quiet(n, r) /\ n.cands = r.cands /\ n.found = r.found
  BY <1>1 DEF Quiet, Framed, Fields
<1> HIDE DEF n
<1>5. /\ Framed(n) /\ n.ask = r.ask /\ n.seen = r.seen /\ n.admitted = r.admitted
      /\ n.view = r.view /\ n.resp = r.resp
  BY <1>4 DEF Quiet
<1>6. \A c \in n.found : c.gen = n.authority[c.doc] /\ c.gen # NoGen => c \in n.seen
  BY <1>1, <1>2, <1>3, <1>4, <1>5, VisibleNow
<1>7. All(n) = {}
  BY <1>1, <1>4, <1>5 DEF All
<1>8. Cited(n) /\ Staged(n) /\ Watching(n, docs) /\ Ended(n)
  BY <1>1, <1>4, <1>5, <1>6, <1>7
     DEF Cited, Single, Staged, Watching, Ended, Early, Judged, Open
<1>9. QueryInv(n, docs)
  BY <1>1, <1>4, <1>5, <1>8 DEF QueryInv, Open
<1> QED BY <1>9 DEF n, authority

\* The chunks that pass the read policy: what the releases and the rows said,
\* each at its own moment.
Passing(r, legacy) == {c \in r.found : VisibleIf(c, r.authority, legacy)}

LegacyOf(r) == {d \in Documents(r.found) : r.authority[d] = NoGen /\ LegacyPublished(d)}

LEMMA PassingCitable ==
  ASSUME Registered(docs), NEW r, QueryInv(r, docs), r.pc = "legacy"
  PROVE  /\ Passing(r, LegacyOf(r)) \subseteq Readable(r.ask)
         /\ Single(Passing(r, LegacyOf(r)))
         /\ \A c \in Passing(r, LegacyOf(r)) : c \in r.seen \/ Blended(c)
<1>1. r.found \subseteq Readable(r.ask) /\ VisibleIn(docs) \subseteq r.seen
  BY DEF QueryInv, Watching, Open
<1>2. \A c \in r.found : c.gen = r.authority[c.doc] /\ c.gen # NoGen => c \in r.seen
  BY DEF QueryInv, Watching
<1>3. ASSUME NEW c \in Passing(r, LegacyOf(r))
      PROVE  c \in r.seen \/ Blended(c)
  <2>1. c \in r.found /\ c \in Chunks /\ c.doc \in Docs /\ VisibleIf(c, r.authority, LegacyOf(r))
    BY <1>1, QueryAssumption DEF Passing, Readable
  <2>2. CASE r.authority[c.doc] # NoGen
    BY <1>2, <2>1, <2>2 DEF VisibleIf
  <2>3. CASE r.authority[c.doc] = NoGen
    <3>1. c.gen = NoGen /\ LegacyPublished(c.doc)
      BY <2>1, <2>3 DEF VisibleIf, LegacyOf
    <3>2. CASE Authority(c.doc) = NoGen
      BY <1>1, <2>1, <3>1, <3>2, VisibleNow
    <3>3. CASE Authority(c.doc) # NoGen
      <4>1. docs[c.doc].release # NoGen
        BY <3>3 DEF Authority
      <4>2. docs[c.doc].release \in GensOf(c.doc)
        BY <2>1, <4>1 DEF Registered
      <4>3. \E e \in Chunks : e.doc = c.doc /\ e.gen # NoGen
        BY <4>2 DEF GensOf
      <4> QED BY <3>1, <4>3 DEF Blended
    <3> QED BY <3>2, <3>3
  <2> QED BY <2>2, <2>3
<1>4. ASSUME NEW c \in Passing(r, LegacyOf(r)), NEW e \in Passing(r, LegacyOf(r)), c.doc = e.doc
      PROVE  c.gen = e.gen
  BY <1>4 DEF Passing, VisibleIf
<1> QED BY <1>1, <1>3, <1>4 DEF Single, Passing

LEMMA ResolvedInv ==
  ASSUME Registered(docs), NEW r, QueryInv(r, docs), r.pc = "legacy",
         NEW n, Quiet(n, r), n.pc \in {"store", "catalog"},
         n.cands \subseteq Passing(r, LegacyOf(r)), n.found \subseteq Readable(r.ask)
  PROVE  QueryInv(n, docs)
<1>1. /\ Framed(n) /\ n.ask = r.ask /\ n.seen = r.seen /\ n.admitted = r.admitted
      /\ n.view = r.view /\ n.resp = r.resp
  BY DEF Quiet
<1>2. n.pc \in Open /\ n.pc \notin {"generate", "verify"} /\ n.pc \notin Early /\ n.pc \notin Judged
  BY DEF Early, Open, Judged
<1>4. r.view.sources = {} /\ r.resp.sources = {} /\ r.pc \in Open
  BY DEF QueryInv, Staged, Open
<1>5. All(n) = n.cands
  BY <1>1, <1>4 DEF All
<1>6. Cited(n)
  BY <1>1, <1>2, <1>5, PassingCitable DEF Cited, Single
<1>7. Staged(n)
  BY <1>1, <1>2, <1>4 DEF Staged
<1>8. Watching(n, docs)
  BY <1>1, <1>2, <1>4 DEF QueryInv, Watching, Early
<1>9. Ended(n)
  BY <1>2 DEF Ended, Open
<1> QED BY <1>1, <1>2, <1>6, <1>7, <1>8, <1>9 DEF QueryInv

LEMMA ResolveInv ==
  ASSUME Registered(docs), NEW h \in Handlers, QueryInv(q[h], docs), Resolve(h)
  PROVE  \E n : Query(h, n) /\ QueryInv(n, docs)
<1> DEFINE r       == q[h]
           visible == Passing(r, LegacyOf(r))
           after   == [r EXCEPT !.found = visible, !.authority = NoAuthority]
<1>1. /\ r.pc = "legacy" /\ Framed(r) /\ r.cands = {} /\ r.ask \in Asks
      /\ visible \subseteq Readable(r.ask)
  BY PassingCitable DEF Resolve, QueryInv, Staged, Early
<1>2. visible \in SUBSET Chunks
  BY <1>1 DEF Readable
<1>3. \/ visible = {} /\ r.hit /\ Query(h, [after EXCEPT !.pc = "search", !.hit = FALSE])
      \/ visible = {} /\ ~r.hit /\ Query(h, [after EXCEPT !.pc = "catalog"])
      \/ visible # {} /\ r.hit /\ \E cands \in {Diversified(s) : s \in Orders[visible]} :
           Query(h, [after EXCEPT !.pc = "catalog", !.cands = cands, !.found = {}])
      \/ \E fused \in Fused(visible) :
           \E cands \in Selected[r.ask.question][fused][r.ask.reranker] :
             Query(h, [after EXCEPT !.pc = "store", !.cands = cands, !.found = fused])
  BY DEF Resolve, Passing, LegacyOf
<1>4. /\ Quiet(after, r) /\ after.cands = {} /\ after.found = visible
  <2> HIDE DEF visible
  <2> QED BY <1>1 DEF Quiet, Framed, Fields
<1>5. DOMAIN after = Fields
  BY <1>4 DEF Quiet, Framed
<1> HIDE DEF visible, after, r
<1>6. ASSUME Query(h, [after EXCEPT !.pc = "search", !.hit = FALSE])
      PROVE  \E n : Query(h, n) /\ QueryInv(n, docs)
  <2> DEFINE n == [after EXCEPT !.pc = "search", !.hit = FALSE]
  <2>1. Quiet(n, r) /\ n.pc = "search" /\ n.cands = {} /\ n.found = visible
    BY <1>4, <1>5 DEF Quiet, Framed, Fields
  <2> HIDE DEF n
  <2>2. QueryInv(n, docs)
    BY <1>1, <2>1, OnwardInv DEF Early, r
  <2> QED BY <1>6, <2>2 DEF n
<1>7. ASSUME Query(h, [after EXCEPT !.pc = "catalog"])
      PROVE  \E n : Query(h, n) /\ QueryInv(n, docs)
  <2> DEFINE n == [after EXCEPT !.pc = "catalog"]
  <2>1. Quiet(n, r) /\ n.pc = "catalog" /\ n.cands = {} /\ n.found = visible
    BY <1>4, <1>5 DEF Quiet, Framed, Fields
  <2> HIDE DEF n
  <2>2. QueryInv(n, docs)
    BY <1>1, <2>1, ResolvedInv DEF r
  <2> QED BY <1>7, <2>2 DEF n
<1>8. ASSUME NEW cands, cands \subseteq visible,
             Query(h, [after EXCEPT !.pc = "catalog", !.cands = cands, !.found = {}])
      PROVE  \E n : Query(h, n) /\ QueryInv(n, docs)
  <2> DEFINE n == [after EXCEPT !.pc = "catalog", !.cands = cands, !.found = {}]
  <2>1. Quiet(n, r) /\ n.pc = "catalog" /\ n.cands = cands /\ n.found = {}
    BY <1>4, <1>5 DEF Quiet, Framed, Fields
  <2> HIDE DEF n
  <2>2. QueryInv(n, docs)
    BY <1>1, <1>8, <2>1, ResolvedInv DEF r, visible
  <2> QED BY <1>8, <2>2 DEF n
<1>9. ASSUME NEW fused, fused \subseteq visible, NEW cands, cands \subseteq visible,
             Query(h, [after EXCEPT !.pc = "store", !.cands = cands, !.found = fused])
      PROVE  \E n : Query(h, n) /\ QueryInv(n, docs)
  <2> DEFINE n == [after EXCEPT !.pc = "store", !.cands = cands, !.found = fused]
  <2>1. Quiet(n, r) /\ n.pc = "store" /\ n.cands = cands /\ n.found = fused
    BY <1>4, <1>5 DEF Quiet, Framed, Fields
  <2> HIDE DEF n
  <2>2. QueryInv(n, docs)
    BY <1>1, <1>9, <2>1, ResolvedInv DEF r, visible
  <2> QED BY <1>9, <2>2 DEF n
<1>10. \A s \in Orders[visible] : Diversified(s) \subseteq visible
  BY <1>2, OrdersOver, DiversifiedWithin
<1>11. ASSUME NEW fused \in Fused(visible), NEW cands \in Selected[r.ask.question][fused][r.ask.reranker]
       PROVE  fused \subseteq visible /\ cands \subseteq visible
  <2>1. fused \subseteq visible
    BY LimitedWithin DEF Fused
  <2>2. cands \in Selections(r.ask.question, fused, r.ask.reranker)
    BY <1>1, <1>2, <2>1, QueryAssumption DEF Selected
  <2> QED BY <1>1, <1>2, <2>1, <2>2, QueryAssumption, SelectionsWithin
<1> QED BY <1>3, <1>6, <1>7, <1>8, <1>9, <1>10, <1>11

\* What is stored under a key is for readers with its permissions.
LEMMA StoreInv ==
  ASSUME CacheInv, NEW h \in Handlers, QueryInv(q[h], docs), Store(h)
  PROVE  CacheInv' /\ \E n : Query(h, n) /\ QueryInv(n, docs)
<1> DEFINE r == q[h]
           n == [r EXCEPT !.pc = "catalog", !.found = {}]
<1>1. /\ r.pc = "store" /\ Framed(r) /\ r.ask \in Asks /\ Query(h, n)
      /\ cache' = cache \/ cache' = [cache EXCEPT ![Key(r.ask)] = r.cands]
  BY DEF Store, QueryInv
<1>2. r.cands \subseteq {c \in Chunks : c.permission \in Key(r.ask)[1]}
  BY DEF QueryInv, Cited, All, Readable, Key
<1>3. CacheInv'
  BY <1>1, <1>2 DEF CacheInv, Keys
<1>4. Quiet(n, r) /\ n.pc = "catalog" /\ n.cands = r.cands /\ n.found = {}
  BY <1>1 DEF Quiet, Framed, Fields
<1> HIDE DEF n
<1>5. QueryInv(n, docs)
  BY <1>1, <1>4, NarrowedInv
<1> QED BY <1>1, <1>3, <1>5

LEMMA FilterEvidenceInv ==
  ASSUME NEW h \in Handlers, QueryInv(q[h], docs), FilterEvidence(h)
  PROVE  \E n : Query(h, n) /\ QueryInv(n, docs)
<1> DEFINE r == q[h]
<1>0. PICK near \in Gated(r.ask.question, r.cands) : \E filtered :
        LET kept == {c \in near : c.doc \in AdmittedIn(docs)}
        IN  Query(h, [r EXCEPT !.pc = "governance", !.cands = kept, !.filtered = filtered])
  BY DEF FilterEvidence
<1>1. PICK filtered :
        LET kept == {c \in near : c.doc \in AdmittedIn(docs)}
        IN  Query(h, [r EXCEPT !.pc = "governance", !.cands = kept, !.filtered = filtered])
  BY <1>0
<1> DEFINE kept == {c \in near : c.doc \in AdmittedIn(docs)}
           n    == [r EXCEPT !.pc = "governance", !.cands = kept, !.filtered = filtered]
<1>2. r.pc = "catalog" /\ Framed(r) /\ r.found \subseteq Readable(r.ask)
  BY DEF FilterEvidence, QueryInv
<1>3. kept \subseteq r.cands
  BY DEF Gated
<1>4. \A c \in kept : c.doc \in r.admitted
  BY <1>2 DEF QueryInv, Watching, Open
<1> HIDE DEF kept
<1>5. Quiet(n, r) /\ n.pc = "governance" /\ n.cands = kept /\ n.found = r.found
  BY <1>2 DEF Quiet, Framed, Fields
<1> HIDE DEF n
<1>6. QueryInv(n, docs)
  BY <1>2, <1>3, <1>4, <1>5, NarrowedInv
<1> QED BY <1>1, <1>6 DEF n, kept

LEMMA GovernedInv ==
  ASSUME NEW r, QueryInv(r, docs), r.pc = "governance", NEW after \in Governed(r)
  PROVE  QueryInv(after, docs) /\ after.pc = "governance"
<1> DEFINE kept == {c \in r.cands : ~docs[c.doc].retired}
           n    == [r EXCEPT !.cands = kept, !.filtered = @ \/ kept # r.cands,
                             !.conflict = Conflicting(kept)]
<1>1. after = r \/ after = n
  BY DEF Governed
<1>2. Framed(r) /\ r.found \subseteq Readable(r.ask) /\ kept \subseteq r.cands
  BY DEF QueryInv
<1>3. \A c \in r.cands : c.doc \in r.admitted
  BY DEF QueryInv, Cited, Judged, All
<1>4. CASE after = n
  <2> HIDE DEF kept
  <2>1. Quiet(n, r) /\ n.pc = r.pc /\ n.cands = kept /\ n.found = r.found
    BY <1>2 DEF Quiet, Framed, Fields
  <2> HIDE DEF n
  <2>2. QueryInv(n, docs)
    BY <1>2, <1>3, <2>1, NarrowedInv
  <2> QED BY <1>4, <2>1, <2>2
<1> QED BY <1>1, <1>4

\* The sources of a stream are the candidates that passed the gates.
LEMMA ShownInv ==
  ASSUME NEW r, QueryInv(r, docs), r.pc = "governance",
         NEW sources, sources \subseteq r.cands
  PROVE  QueryInv([r EXCEPT !.pc = "generate", !.view.sources = sources], docs)
<1> DEFINE n == [r EXCEPT !.pc = "generate", !.view.sources = sources]
<1>1. /\ DOMAIN r = Fields /\ DOMAIN r.view = {"text", "sources"}
      /\ DOMAIN r.resp = {"text", "reason", "sources", "conflict"}
  BY DEF QueryInv, Framed
<1>2. /\ DOMAIN n = Fields /\ n.pc = "generate"
      /\ n.view = [r.view EXCEPT !.sources = sources] /\ n.resp = r.resp
      /\ n.ask = r.ask /\ n.seen = r.seen /\ n.admitted = r.admitted /\ n.cands = r.cands
      /\ n.found = r.found
  BY <1>1 DEF Fields
<1> HIDE DEF n
<1>3. DOMAIN n.view = {"text", "sources"} /\ n.view.sources = sources
  BY <1>1, <1>2
<1>4. r.resp.sources = {} /\ VisibleIn(docs) \subseteq r.seen /\ AdmittedIn(docs) \subseteq r.admitted
  BY DEF QueryInv, Staged, Watching, Open
<1>5. All(n) \subseteq All(r)
  BY <1>2, <1>3 DEF All
<1>6. Cited(n)
  BY <1>2, <1>5 DEF QueryInv, Cited, Single, Judged
<1>7. Staged(n) /\ Watching(n, docs) /\ Ended(n)
  BY <1>2, <1>3, <1>4 DEF Staged, Watching, Ended, Early, Open
<1>8. Framed(n) /\ n.ask \in Asks /\ n.found \subseteq Readable(n.ask) /\ n.pc \in Open
  BY <1>1, <1>2, <1>3 DEF QueryInv, Framed, Open
<1> QED BY <1>6, <1>7, <1>8 DEF QueryInv, n

LEMMA GovernInv ==
  ASSUME NEW h \in Handlers, QueryInv(q[h], docs), Govern(h)
  PROVE  \E n : Query(h, n) /\ QueryInv(n, docs)
<1>1. q[h].pc = "governance"
  BY DEF Govern
<1>2. PICK after \in Governed(q[h]) :
        \/ Query(h, Finished(after, Refusal("exact_evidence_missing")))
        \/ Query(h, Finished(after, Refusal(IF after.filtered THEN "evidence_filtered"
                                                              ELSE "no_evidence")))
        \/ Query(h, [after EXCEPT !.pc = "generate",
                       !.view.sources = IF after.ask.streams THEN after.cands ELSE {}])
  BY DEF Govern
<1>3. QueryInv(after, docs) /\ after.pc = "governance"
  BY <1>1, GovernedInv
<1>4. \A reason \in Reasons : QueryInv(Finished(after, Refusal(reason)), docs)
  BY <1>3, RefusedInv DEF Judged
<1>5. QueryInv([after EXCEPT !.pc = "generate",
                  !.view.sources = IF after.ask.streams THEN after.cands ELSE {}], docs)
  <2> DEFINE sources == IF after.ask.streams THEN after.cands ELSE {}
  <2>1. sources \subseteq after.cands
    OBVIOUS
  <2> HIDE DEF sources
  <2>2. QueryInv([after EXCEPT !.pc = "generate", !.view.sources = sources], docs)
    BY <1>3, <2>1, ShownInv
  <2> QED BY <2>2 DEF sources
<1>6. /\ "exact_evidence_missing" \in Reasons
      /\ (IF after.filtered THEN "evidence_filtered" ELSE "no_evidence") \in Reasons
  BY DEF Reasons
<1> QED BY <1>2, <1>4, <1>5, <1>6

\* The text of the model adds no source.
LEMMA SpokenInv ==
  ASSUME NEW r, QueryInv(r, docs), r.pc = "generate", NEW n, Framed(n), n.pc = "verify",
         n.ask = r.ask, n.seen = r.seen, n.admitted = r.admitted, n.cands = r.cands,
         n.found = r.found, n.resp = r.resp, n.view.sources = r.view.sources
  PROVE  QueryInv(n, docs)
<1>1. All(n) = All(r)
  BY DEF All
<1>2. Cited(n)
  BY <1>1 DEF QueryInv, Cited, Single, Judged
<1>3. r.resp.sources = {} /\ VisibleIn(docs) \subseteq r.seen
      /\ AdmittedIn(docs) \subseteq r.admitted /\ r.view.sources \subseteq r.cands
  BY DEF QueryInv, Staged, Watching, Open
<1>4. Staged(n) /\ Watching(n, docs) /\ Ended(n)
  BY <1>3 DEF Staged, Watching, Ended, Early, Open
<1>5. n.ask \in Asks /\ n.found \subseteq Readable(n.ask)
  BY DEF QueryInv
<1> QED BY <1>2, <1>4, <1>5 DEF QueryInv, Open

LEMMA GenerateInv ==
  ASSUME NEW h \in Handlers, QueryInv(q[h], docs), Generate(h)
  PROVE  \E n : Query(h, n) /\ QueryInv(n, docs)
<1> DEFINE r == q[h]
<1>1. /\ DOMAIN r = Fields /\ DOMAIN r.view = {"text", "sources"}
      /\ DOMAIN r.resp = {"text", "reason", "sources", "conflict"} /\ r.pc = "generate"
  BY DEF QueryInv, Framed, Generate, StreamChat, CallLLM
<1>2. CASE StreamChat(h)
  <2>1. PICK text : Query(h, [r EXCEPT !.pc = "verify", !.text = text, !.view.text = text])
    BY <1>2 DEF StreamChat
  <2> DEFINE n == [r EXCEPT !.pc = "verify", !.text = text, !.view.text = text]
  <2>2. /\ DOMAIN n = Fields /\ n.pc = "verify" /\ n.view = [r.view EXCEPT !.text = text]
        /\ n.ask = r.ask /\ n.seen = r.seen /\ n.admitted = r.admitted /\ n.cands = r.cands
        /\ n.found = r.found /\ n.resp = r.resp
    BY <1>1 DEF Fields
  <2> HIDE DEF n
  <2>3. n.view.sources = r.view.sources /\ Framed(n)
    BY <1>1, <2>2 DEF Framed
  <2>4. QueryInv(n, docs)
    BY <1>1, <2>2, <2>3, SpokenInv
  <2> QED BY <2>1, <2>4 DEF n
<1>3. CASE CallLLM(h)
  <2>1. PICK text : Query(h, [r EXCEPT !.pc = "verify", !.text = text])
    BY <1>3 DEF CallLLM
  <2> DEFINE n == [r EXCEPT !.pc = "verify", !.text = text]
  <2>2. /\ DOMAIN n = Fields /\ n.pc = "verify" /\ n.view = r.view
        /\ n.ask = r.ask /\ n.seen = r.seen /\ n.admitted = r.admitted /\ n.cands = r.cands
        /\ n.found = r.found /\ n.resp = r.resp
    BY <1>1 DEF Fields
  <2> HIDE DEF n
  <2>3. Framed(n)
    BY <1>1, <2>2 DEF Framed
  <2>4. QueryInv(n, docs)
    BY <1>1, <2>2, <2>3, SpokenInv
  <2> QED BY <2>1, <2>4 DEF n
<1> QED BY <1>2, <1>3 DEF Generate

LEMMA VerifiedInv ==
  ASSUME NEW h \in Handlers, QueryInv(q[h], docs),
         Apologise(h) \/ Reject(h) \/ Withhold(h) \/ Answer(h)
  PROVE  \E n : Query(h, n) /\ QueryInv(n, docs)
<1> DEFINE r == q[h]
<1>1. r.pc \in Judged
  BY DEF Apologise, Reject, Withhold, Answer, Judged
<1>2. CASE Apologise(h) \/ Reject(h)
  <2>1. Query(h, Finished(r, Refusal("insufficient_support")))
    BY <1>2 DEF Apologise, Reject
  <2>2. QueryInv(Finished(r, Refusal("insufficient_support")), docs)
    BY <1>1, RefusedInv DEF Reasons
  <2> QED BY <2>1, <2>2
<1>3. CASE Withhold(h)
  <2> DEFINE resp == [Refusal("sensitive_content") EXCEPT !.conflict = r.conflict]
  <2>1. Query(h, Finished(r, resp))
    BY <1>3 DEF Withhold
  <2>2. Response(resp) /\ resp.sources = {}
    BY DEF Response, Refusal, Reasons
  <2>3. QueryInv(Finished(r, resp), docs)
    BY <1>1, <2>2, FinishedInv
  <2> QED BY <2>1, <2>3
<1>4. CASE Answer(h)
  <2> DEFINE resp == [text |-> r.text, reason |-> "", sources |-> r.cands, conflict |-> r.conflict]
  <2>1. Query(h, Finished(r, resp))
    BY <1>4 DEF Answer
  <2>2. Response(resp) /\ resp.sources = r.cands
    BY DEF Response
  <2>3. QueryInv(Finished(r, resp), docs)
    BY <1>1, <2>2, FinishedInv
  <2> QED BY <2>1, <2>3
<1> QED BY <1>2, <1>3, <1>4

\* A query that fails keeps the sources it has shown, which had passed the gates.
LEMMA FailInv ==
  ASSUME NEW h \in Handlers, QueryInv(q[h], docs), Fail(h)
  PROVE  \E n : Query(h, n) /\ QueryInv(n, docs)
<1> DEFINE r == q[h]
<1>1. PICK text : Query(h, [Over(r) EXCEPT !.pc = "failed", !.view.text = text])
  BY DEF Fail
<1> DEFINE n == [Over(r) EXCEPT !.pc = "failed", !.view.text = text]
<1>2. Framed(r) /\ r.pc \in Open /\ r.ask \in Asks
  BY DEF Fail, QueryInv, Open
<1>3. /\ DOMAIN Over(r) = Fields /\ Over(r).cands = {} /\ Over(r).found = {}
      /\ Over(r).ask = r.ask /\ Over(r).seen = r.seen
      /\ Over(r).admitted = r.admitted /\ Over(r).view = r.view /\ Over(r).resp = r.resp
  BY <1>2, OverFields DEF Framed
<1>4. /\ DOMAIN n = Fields /\ n.pc = "failed" /\ n.view = [r.view EXCEPT !.text = text]
      /\ n.cands = {} /\ n.found = {} /\ n.ask = r.ask /\ n.seen = r.seen
      /\ n.admitted = r.admitted /\ n.resp = r.resp
  BY <1>3 DEF Fields
<1> HIDE DEF n
<1>5. Framed(n) /\ n.view.sources = r.view.sources
  BY <1>2, <1>4 DEF Framed
<1>6. All(n) = r.view.sources /\ All(n) \subseteq All(r)
  <2>1. r.resp.sources = {}
    BY <1>2 DEF QueryInv, Staged
  <2> QED BY <1>4, <1>5, <2>1 DEF All
<1>7. \A c \in All(n) : c.doc \in r.admitted
  <2>1. CASE r.pc \in {"generate", "verify"}
    BY <1>6, <2>1 DEF QueryInv, Cited, Judged
  <2>2. CASE r.pc \notin {"generate", "verify"}
    BY <1>2, <1>6, <2>2 DEF QueryInv, Staged
  <2> QED BY <2>1, <2>2
<1>8. Cited(n)
  BY <1>4, <1>6, <1>7 DEF QueryInv, Cited, Single
<1>9. Staged(n) /\ Watching(n, docs) /\ Ended(n) /\ n.pc \notin Open
  BY <1>4 DEF Staged, Watching, Ended, Early, Open
<1> QED BY <1>1, <1>2, <1>4, <1>5, <1>8, <1>9 DEF QueryInv, n

\* A query begins with nothing, and with what may be cited now.
LEMMA AskInv ==
  ASSUME NEW h \in Handlers, NEW ask \in Asks, Ask(h, ask)
  PROVE  \E n : Query(h, n) /\ QueryInv(n, docs)
<1> DEFINE r == [pc |-> "begin", ask |-> ask, hit |-> FALSE, filtered |-> FALSE,
                 conflict |-> FALSE, titles |-> {}, found |-> {}, cands |-> {},
                 authority |-> NoAuthority, text |-> "",
                 seen |-> VisibleIn(docs), admitted |-> AdmittedIn(docs),
                 view |-> NoView, resp |-> NoResp]
<1>1. Query(h, Begun(r))
  BY DEF Ask
<1>2. /\ Framed(r) /\ r.ask = ask /\ r.found = {} /\ r.cands = {}
      /\ r.view.sources = {} /\ r.resp.sources = {} /\ r.resp.reason = ""
      /\ r.seen = VisibleIn(docs) /\ r.admitted = AdmittedIn(docs)
  BY DEF Framed, Fields, NoView, NoResp
<1> HIDE DEF r
<1>3. ASSUME NEW n, Framed(n), n.ask = ask, n.found = {}, n.cands = {}, n.view.sources = {},
             n.resp.sources = {}, n.seen = r.seen, n.admitted = r.admitted, Ended(n),
             n.pc \in {"failed", "titles", "done"}
      PROVE  QueryInv(n, docs)
  <2>1. All(n) = {}
    BY <1>3 DEF All
  <2>2. Cited(n) /\ Staged(n) /\ Watching(n, docs)
    BY <1>2, <1>3, <2>1 DEF Cited, Single, Staged, Watching, Early
  <2> QED BY <1>3, <2>2 DEF QueryInv, Open
<1>4. CASE r.ask.role \notin Members
  <2> DEFINE n == [r EXCEPT !.pc = "failed"]
  <2>1. Begun(r) = n
    BY <1>4 DEF Begun
  <2>2. Quiet(n, r) /\ n.found = {} /\ n.cands = {} /\ n.pc = "failed"
    BY <1>2 DEF Quiet, Framed, Fields
  <2> HIDE DEF n
  <2>3. Ended(n)
    BY <2>2 DEF Ended
  <2>4. QueryInv(n, docs)
    BY <1>2, <1>3, <2>2, <2>3 DEF Quiet
  <2> QED BY <1>1, <2>1, <2>4
<1>5. CASE r.ask.role \in Members /\ r.ask.question.dangling
  <2> DEFINE n == Finished(r, Refusal("context_required"))
  <2>1. Begun(r) = n
    BY <1>5 DEF Begun
  <2>2. /\ Response(Refusal("context_required"))
        /\ Refusal("context_required").sources = {}
        /\ Refusal("context_required").reason = "context_required"
    BY DEF Response, Refusal, Reasons
  <2>3. FinishedFrom(n, r, Refusal("context_required"))
    BY <1>2, <2>2, FinishedFields
  <2> HIDE DEF n
  <2>4. /\ Framed(n) /\ n.pc = "done" /\ n.resp = Refusal("context_required")
        /\ n.cands = {} /\ n.found = {} /\ n.ask = ask
        /\ n.seen = r.seen /\ n.admitted = r.admitted
        /\ n.view.text = n.resp.text /\ n.view.sources = {}
    BY <1>2, <2>2, <2>3 DEF FinishedFrom
  <2>5. Ended(n)
    BY <2>4 DEF Ended
  <2>6. QueryInv(n, docs)
    BY <1>3, <2>2, <2>4, <2>5
  <2> QED BY <1>1, <2>1, <2>6
<1>6. CASE r.ask.role \in Members /\ ~r.ask.question.dangling
  <2> DEFINE n == [r EXCEPT !.pc = "titles"]
  <2>1. Begun(r) = n
    BY <1>6 DEF Begun
  <2>2. Quiet(n, r) /\ n.found = {} /\ n.cands = {} /\ n.pc = "titles"
    BY <1>2 DEF Quiet, Framed, Fields
  <2> HIDE DEF n
  <2>3. Ended(n)
    BY <2>2 DEF Ended
  <2>4. QueryInv(n, docs)
    BY <1>2, <1>3, <2>2, <2>3 DEF Quiet
  <2> QED BY <1>1, <2>1, <2>4
<1> QED BY <1>4, <1>5, <1>6

\* A step of a query leaves a record that keeps the invariant.
LEMMA StepInv ==
  ASSUME Inv, NEW h \in Handlers, Step(h)
  PROVE  \E n : Query(h, n) /\ QueryInv(n, docs)
<1>1. QueryInv(q[h], docs)
  <2>1. q[h].pc # "idle"
    BY DEF Step, ListTitles, Embed, Lookup, Search, ReadAuthority, Resolve, Store, FilterEvidence,
           Govern, Generate, StreamChat, CallLLM, Apologise, Reject, Withhold, Answer, Fail
  <2>2. Idle.pc = "idle"
    BY DEF Idle
  <2> QED BY <2>1, <2>2 DEF Inv
<1>2. CASE ListTitles(h)
  BY <1>1, <1>2, ListTitlesInv DEF ListTitles
<1>3. CASE Embed(h)
  BY <1>1, <1>3, EmbedInv DEF Embed
<1>4. CASE Lookup(h)
  <2>1. PICK found \in Hits(q[h].ask) :
          Query(h, [q[h] EXCEPT !.pc = IF found = {} THEN "search" ELSE "authority",
                                !.hit = found # {}, !.found = found])
    BY <1>4 DEF Lookup
  <2>2. q[h].pc = "lookup" /\ CacheInv
    BY <1>4 DEF Lookup, Inv
  <2> QED BY <1>1, <2>1, <2>2, LookupInv
<1>5. CASE Search(h)
  <2>1. PICK answering : \E found \in Found(answering, q[h].ask, q[h].titles) :
          Query(h, [q[h] EXCEPT !.pc = "authority", !.titles = {}, !.found = found])
    BY <1>5 DEF Search
  <2>2. q[h].pc = "search"
    BY <1>5 DEF Search
  <2> QED BY <1>1, <2>1, <2>2, SearchInv
<1>6. CASE ReadAuthority(h)
  BY <1>1, <1>6, ReadAuthorityInv DEF ReadAuthority
<1>7. CASE Resolve(h)
  BY <1>1, <1>7, ResolveInv DEF Inv
<1>8. CASE Store(h)
  BY <1>1, <1>8, StoreInv DEF Inv
<1>9. CASE FilterEvidence(h) \/ Govern(h) \/ Generate(h) \/ Fail(h)
  BY <1>1, <1>9, FilterEvidenceInv, GovernInv, GenerateInv, FailInv
<1>10. CASE Apologise(h) \/ Reject(h) \/ Withhold(h) \/ Answer(h)
  BY <1>1, <1>10, VerifiedInv
<1> QED BY <1>2, <1>3, <1>4, <1>5, <1>6, <1>7, <1>8, <1>9, <1>10 DEF Step

\* It leaves the registry alone, and the cache in order.
LEMMA StepKeeps ==
  ASSUME Inv, NEW h \in Handlers, Step(h)
  PROVE  docs' = docs /\ CacheInv'
<1>1. docs' = docs
  BY DEF Step, ListTitles, Embed, Lookup, Search, ReadAuthority, Resolve, Store, FilterEvidence,
         Govern, Generate, StreamChat, CallLLM, Apologise, Reject, Withhold, Answer, Fail, Keeps
<1>2. cache' = cache \/ Store(h)
  BY DEF Step, ListTitles, Embed, Lookup, Search, ReadAuthority, Resolve, Store, FilterEvidence,
         Govern, Generate, StreamChat, CallLLM, Apologise, Reject, Withhold, Answer, Fail, Keeps
<1>3. ASSUME Store(h)
      PROVE  CacheInv'
  <2>1. q[h].pc = "store"
    BY <1>3 DEF Store
  <2>2. QueryInv(q[h], docs)
    BY <2>1 DEF Inv, Idle
  <2>3. CacheInv
    BY DEF Inv
  <2> QED BY <1>3, <2>2, <2>3, StoreInv
<1>4. CacheInv'
  <2>1. CASE Store(h)
    BY <1>3, <2>1
  <2>2. CASE cache' = cache
    BY <2>2 DEF Inv, CacheInv
  <2> QED BY <1>2, <2>1, <2>2
<1> QED BY <1>1, <1>4

-----------------------------------------------------------------------------
(* The writes.                                                             *)

\* Every write leaves a registry in which a release names a generation.
LEMMA ChangeWrites ==
  ASSUME Inv, Change
  PROVE  \E d \in Docs : \E row, n : Write(d, row, n) /\ Registered([docs EXCEPT ![d] = row])
<1>0. /\ DOMAIN docs = Docs
      /\ \A d \in Docs : /\ DOMAIN docs[d] = {"release", "healthy", "publication", "retired", "deleting"}
                         /\ docs[d].release \in GensOf(d) \cup {NoGen}
  BY DEF Inv, Registered
<1>1. ASSUME NEW d \in Docs, NEW row,
             DOMAIN row = {"release", "healthy", "publication", "retired", "deleting"},
             row.release \in GensOf(d) \cup {NoGen}
      PROVE  Registered([docs EXCEPT ![d] = row])
  BY <1>0, <1>1 DEF Registered
<1>2. ASSUME NEW d \in Docs, NEW g \in Gens, Publish(d, g) \/ PublishAutomatic(d, g)
      PROVE  \E row, n : Write(d, row, n) /\ Registered([docs EXCEPT ![d] = row])
  <2> DEFINE row == Released(docs[d], g)
  <2>1. Write(d, row, 1) \/ Write(d, row, 0)
    BY <1>2 DEF Publish, PublishAutomatic
  <2>2. g \in GensOf(d)
    BY <1>2 DEF Publish, PublishAutomatic
  <2>3. DOMAIN row = {"release", "healthy", "publication", "retired", "deleting"} /\ row.release = g
    BY <1>0 DEF Released
  <2> HIDE DEF row
  <2> QED BY <1>1, <2>1, <2>2, <2>3
<1>3. ASSUME NEW d \in Docs, NEW status, UpdatePublication(d, status)
      PROVE  \E row, n : Write(d, row, n) /\ Registered([docs EXCEPT ![d] = row])
  <2> DEFINE row == [docs[d] EXCEPT !.publication = status]
  <2>1. Write(d, row, 1)
    BY <1>3 DEF UpdatePublication
  <2>2. /\ DOMAIN row = {"release", "healthy", "publication", "retired", "deleting"}
        /\ row.release = docs[d].release
    BY <1>0
  <2> HIDE DEF row
  <2> QED BY <1>0, <1>1, <2>1, <2>2
<1>4. ASSUME NEW d \in Docs, NEW b, UpdateGovernance(d, b)
      PROVE  \E row, n : Write(d, row, n) /\ Registered([docs EXCEPT ![d] = row])
  <2> DEFINE row == [docs[d] EXCEPT !.retired = b]
  <2>1. Write(d, row, 0)
    BY <1>4 DEF UpdateGovernance
  <2>2. /\ DOMAIN row = {"release", "healthy", "publication", "retired", "deleting"}
        /\ row.release = docs[d].release
    BY <1>0
  <2> HIDE DEF row
  <2> QED BY <1>0, <1>1, <2>1, <2>2
<1>5. ASSUME NEW d \in Docs, NEW b, Reconcile(d, b)
      PROVE  \E row, n : Write(d, row, n) /\ Registered([docs EXCEPT ![d] = row])
  <2> DEFINE row == [docs[d] EXCEPT !.healthy = b]
  <2>1. Write(d, row, 0)
    BY <1>5 DEF Reconcile
  <2>2. /\ DOMAIN row = {"release", "healthy", "publication", "retired", "deleting"}
        /\ row.release = docs[d].release
    BY <1>0
  <2> HIDE DEF row
  <2> QED BY <1>0, <1>1, <2>1, <2>2
<1>6. ASSUME NEW d \in Docs, Accept(d)
      PROVE  \E row, n : Write(d, row, n) /\ Registered([docs EXCEPT ![d] = row])
  <2> DEFINE row == [docs[d] EXCEPT !.deleting = TRUE, !.publication = "retired",
                                    !.release = NoGen, !.healthy = TRUE]
  <2>1. Write(d, row, 1)
    BY <1>6 DEF Accept
  <2>2. /\ DOMAIN row = {"release", "healthy", "publication", "retired", "deleting"}
        /\ row.release = NoGen
    BY <1>0
  <2> HIDE DEF row
  <2> QED BY <1>1, <2>1, <2>2
<1> QED BY <1>2, <1>3, <1>4, <1>5, <1>6 DEF Change

\* A running query takes note of what each write makes citable.
LEMMA RememberInv ==
  ASSUME NEW r, NEW old, NEW reg, QueryInv(r, old)
  PROVE  QueryInv(IF r.pc \in Open
                  THEN [r EXCEPT !.seen = @ \cup VisibleIn(reg), !.admitted = @ \cup AdmittedIn(reg)]
                  ELSE r, reg)
<1> DEFINE n == [r EXCEPT !.seen = @ \cup VisibleIn(reg), !.admitted = @ \cup AdmittedIn(reg)]
<1>1. CASE r.pc \in Open
  <2>1. /\ DOMAIN r = Fields /\ DOMAIN r.view = {"text", "sources"}
        /\ DOMAIN r.resp = {"text", "reason", "sources", "conflict"}
    BY DEF QueryInv, Framed
  <2>2. /\ DOMAIN n = Fields /\ n.pc = r.pc /\ n.ask = r.ask /\ n.found = r.found
        /\ n.cands = r.cands /\ n.authority = r.authority /\ n.view = r.view /\ n.resp = r.resp
        /\ n.seen = r.seen \cup VisibleIn(reg) /\ n.admitted = r.admitted \cup AdmittedIn(reg)
    BY <2>1 DEF Fields
  <2> HIDE DEF n
  <2>3. Framed(n) /\ All(n) = All(r)
    BY <2>1, <2>2 DEF Framed, All
  <2>4. Cited(n)
    BY <2>2, <2>3 DEF QueryInv, Cited, Single
  <2>5. Staged(n)
    BY <2>2 DEF QueryInv, Staged
  <2>6. Watching(n, reg)
    BY <2>2 DEF QueryInv, Watching
  <2>7. Ended(n)
    BY <2>2 DEF QueryInv, Ended
  <2>8. QueryInv(n, reg)
    BY <2>2, <2>3, <2>4, <2>5, <2>6, <2>7 DEF QueryInv
  <2> QED BY <1>1, <2>8 DEF n
<1>2. CASE r.pc \notin Open
  <2>1. Watching(r, reg)
    BY <1>2 DEF Watching, Open
  <2> QED BY <1>2, <2>1 DEF QueryInv
<1> QED BY <1>1, <1>2

LEMMA ChangeInv ==
  ASSUME Inv, Change
  PROVE  Inv'
<1>0. PICK d \in Docs : \E row, n : Write(d, row, n) /\ Registered([docs EXCEPT ![d] = row])
  BY ChangeWrites
<1>1. PICK row, n : Write(d, row, n) /\ Registered([docs EXCEPT ![d] = row])
  BY <1>0
<1> DEFINE reg == [docs EXCEPT ![d] = row]
<1>2. docs' = reg /\ Registered(reg) /\ Remember(reg) /\ cache' = cache
  BY <1>1 DEF Write
<1> HIDE DEF reg
<1>3. Registered(docs') /\ CacheInv'
  BY <1>2 DEF Inv, CacheInv
<1>4. DOMAIN q' = Handlers
  BY <1>2 DEF Remember
<1>5. ASSUME NEW h \in Handlers
      PROVE  q'[h] = Idle \/ QueryInv(q'[h], docs')
  <2>1. q'[h] = IF q[h].pc \in Open
                THEN [q[h] EXCEPT !.seen = @ \cup VisibleIn(reg), !.admitted = @ \cup AdmittedIn(reg)]
                ELSE q[h]
    BY <1>2 DEF Remember
  <2>2. CASE q[h] = Idle
    BY <2>1, <2>2 DEF Idle, Open
  <2>3. CASE QueryInv(q[h], docs)
    BY <1>2, <2>1, <2>3, RememberInv
  <2> QED BY <2>2, <2>3 DEF Inv
<1>6. Registered(docs)'
  BY <1>3 DEF Registered, GensOf
<1> QED BY <1>3, <1>4, <1>5, <1>6 DEF Inv

-----------------------------------------------------------------------------
(* The theorems.                                                           *)

LEMMA InitInv == ASSUME Init PROVE Inv
<1>1. Registered(docs)
  BY RegistryAssumption DEF Init, Registered, GensOf
<1>2. CacheInv
  BY DEF Init, CacheInv
<1> QED BY <1>1, <1>2 DEF Init, Inv

LEMMA NextInv == ASSUME Inv, [Next]_vars PROVE Inv'
<1>1. CASE Change
  BY <1>1, ChangeInv
<1>2. ASSUME docs' = docs, CacheInv', NEW h \in Handlers, NEW n, Query(h, n), QueryInv(n, docs)
      PROVE  Inv'
  <2>1. DOMAIN q = Handlers /\ \A g \in Handlers : q[g] = Idle \/ QueryInv(q[g], docs)
    BY DEF Inv
  <2>2. q' = [q EXCEPT ![h] = n]
    BY <1>2 DEF Query
  <2>3. DOMAIN q' = Handlers /\ \A g \in Handlers : q'[g] = Idle \/ QueryInv(q'[g], docs')
    BY <1>2, <2>1, <2>2
  <2>4. Registered(docs)'
    BY <1>2 DEF Inv, Registered, GensOf
  <2> QED BY <1>2, <2>3, <2>4 DEF Inv
<1>3. ASSUME UNCHANGED <<docs, q>>, CacheInv'
      PROVE  Inv'
  <2>1. Registered(docs)'
    BY <1>3 DEF Inv, Registered, GensOf
  <2>2. DOMAIN q' = Handlers /\ \A g \in Handlers : q'[g] = Idle \/ QueryInv(q'[g], docs')
    BY <1>3 DEF Inv
  <2> QED BY <1>3, <2>1, <2>2 DEF Inv
<1>4. CASE Flush
  <2>1. CacheInv'
    BY <1>4 DEF Inv, CacheInv, Flush
  <2> QED BY <1>3, <1>4, <2>1 DEF Flush
<1>5. ASSUME NEW k \in Keys, Expire(k)
      PROVE  Inv'
  <2>1. CacheInv'
    BY <1>5 DEF Inv, CacheInv, Expire
  <2> QED BY <1>3, <1>5, <2>1 DEF Expire
<1>6. ASSUME NEW h \in Handlers, NEW ask \in Asks, Ask(h, ask)
      PROVE  Inv'
  <2>1. docs' = docs /\ cache' = cache
    BY <1>6 DEF Ask, Keeps
  <2>2. CacheInv'
    BY <2>1 DEF Inv, CacheInv
  <2> QED BY <1>2, <1>6, <2>1, <2>2, AskInv
<1>7. ASSUME NEW h \in Handlers, Step(h)
      PROVE  Inv'
  BY <1>2, <1>7, StepInv, StepKeeps
<1>8. CASE UNCHANGED vars
  <2>1. CacheInv'
    BY <1>8 DEF Inv, CacheInv, vars
  <2> QED BY <1>3, <1>8, <2>1 DEF vars
<1> QED BY <1>1, <1>4, <1>5, <1>6, <1>7, <1>8 DEF Next

(* What a query holds at each step has passed the gates before that step,   *)
(* the cache holds for each scope what its readers may read, and a release  *)
(* names a generation: retrieval.Engine.Retrieve and query.Service.ask.     *)
THEOREM QueryInvariant == Spec => []Inv
<1> QED BY InitInv, NextInv, PTL DEF Spec

\* What is evidence is among what the invariant speaks of.
LEMMA EvidenceWithin ==
  ASSUME Inv, NEW h \in Handlers, NEW c \in Evidence(h)
  PROVE  QueryInv(q[h], docs) /\ c \in All(q[h])
<1>1. q[h] # Idle
  BY DEF Evidence
<1> QED BY <1>1 DEF Inv, Evidence, All

(* An answer never mixes two generations of a document, although a release  *)
(* may be replaced between the two statements that read the registry.       *)
THEOREM OneGenerationPerDocumentAlways == Spec => []OneGenerationPerDocument
<1>1. Inv => OneGenerationPerDocument
  BY EvidenceWithin DEF OneGenerationPerDocument, QueryInv, Cited, Single
<1> QED BY <1>1, QueryInvariant, PTL

(* Evidence is always what the role that asks may read, from the back ends  *)
(* or from the cache.                                                       *)
THEOREM AudienceIsKeptAlways == Spec => []AudienceIsKept
<1>1. Inv => AudienceIsKept
  BY EvidenceWithin DEF AudienceIsKept, QueryInv, Cited, Readable
<1> QED BY <1>1, QueryInvariant, PTL

(* What a caller sees when a query is done is its answer, and a refusal     *)
(* stands without sources, whatever was streamed before it.                 *)
THEOREM RefusalsShowNoSourcesAlways == Spec => []RefusalsShowNoSources
<1>1. Inv => RefusalsShowNoSources
  <2>1. Inv => \A h \in Handlers : q[h] = Idle \/ Ended(q[h])
    BY DEF Inv, QueryInv
  <2>2. \A h \in Handlers : q[h] = Idle => q[h].pc # "done"
    BY DEF Idle
  <2> QED BY <2>1, <2>2 DEF RefusalsShowNoSources, Ended
<1> QED BY <1>1, QueryInvariant, PTL

\* What is cited in a step that shows sources has passed FilterEvidence.
LEMMA EvidenceJudged ==
  ASSUME Inv, NEW h \in Handlers, NEW c \in Evidence(h)
  PROVE  c.doc \in q[h].admitted /\ (c \in q[h].seen \/ Blended(c))
<1>1. QueryInv(q[h], docs) /\ c \in All(q[h])
  BY EvidenceWithin
<1>2. q[h] # Idle
  BY DEF Evidence
<1>3. q[h].pc \in Judged
  <2>1. CASE q[h].pc \in {"generate", "verify", "done", "failed"}
    BY <2>1 DEF Judged
  <2>2. CASE q[h].pc \in Open \ {"generate", "verify"}
    <3>1. q[h].view.sources = {} /\ q[h].resp.sources = {}
      BY <1>1, <2>2 DEF QueryInv, Staged
    <3> QED BY <1>2, <2>2, <3>1 DEF Evidence
  <2> QED BY <1>1, <2>1, <2>2 DEF QueryInv
<1> QED BY <1>1, <1>3 DEF QueryInv, Cited

(* For every mixture of documents: what is cited was published and in force *)
(* while the query ran, and so was its very generation, except for a chunk  *)
(* stored without one whose document has generations too: it may be cited   *)
(* when the document is released between the two statements of              *)
(* publishedAuthorities.  What is withdrawn before a question is asked is   *)
(* never cited in its answer.                                               *)
THEOREM WithdrawnIsNeverCitedAlways == Spec => []WithdrawnIsNeverCited
<1>1. Inv => WithdrawnIsNeverCited
  BY EvidenceJudged DEF WithdrawnIsNeverCited
<1> QED BY <1>1, QueryInvariant, PTL

-----------------------------------------------------------------------------
(* What ranking promises, said of every search.                            *)

\* What is about to be stored was selected from what fusion left.
Selects(r) ==
  /\ r.found \subseteq Chunks /\ r.ask.reranker \in BOOLEAN
  /\ r.cands \in Selections(r.ask.question, r.found, r.ask.reranker)
RankedInv  == \A h \in Handlers : q[h].pc = "store" => Selects(q[h])

LEMMA FinishedIsDone ==
  ASSUME NEW r, Framed(r), NEW resp
  PROVE  Finished(r, resp).pc = "done"
<1>1. DOMAIN Over(r) = Fields
  BY OverFields DEF Framed
<1> QED BY <1>1 DEF Finished, Fields

\* Resolve alone brings a query there.
LEMMA ResolveSelects ==
  ASSUME NEW h \in Handlers, QueryInv(q[h], docs), Resolve(h)
  PROVE  \E n : Query(h, n) /\ (n.pc = "store" => Selects(n))
<1> DEFINE r       == q[h]
           legacy  == {d \in Documents(r.found) : r.authority[d] = NoGen /\ LegacyPublished(d)}
           visible == {c \in r.found : VisibleIf(c, r.authority, legacy)}
           after   == [r EXCEPT !.found = visible, !.authority = NoAuthority]
<1>1. DOMAIN r = Fields /\ r.ask \in Asks /\ visible \subseteq Chunks
  BY DEF QueryInv, Framed, Readable
<1>2. \/ Query(h, [after EXCEPT !.pc = "search", !.hit = FALSE])
      \/ Query(h, [after EXCEPT !.pc = "catalog"])
      \/ \E cands : Query(h, [after EXCEPT !.pc = "catalog", !.cands = cands, !.found = {}])
      \/ \E fused \in Fused(visible) :
           \E cands \in Selected[r.ask.question][fused][r.ask.reranker] :
             Query(h, [after EXCEPT !.pc = "store", !.cands = cands, !.found = fused])
  BY DEF Resolve
<1> HIDE DEF legacy, visible
<1>3. DOMAIN after = Fields /\ after.ask = r.ask
  BY <1>1 DEF Fields
<1> HIDE DEF after
<1>4. ASSUME NEW n, DOMAIN n = Fields, n.pc # "store", Query(h, n)
      PROVE  \E m : Query(h, m) /\ (m.pc = "store" => Selects(m))
  BY <1>4
<1>5. CASE Query(h, [after EXCEPT !.pc = "search", !.hit = FALSE])
  BY <1>3, <1>4, <1>5 DEF Fields
<1>6. CASE Query(h, [after EXCEPT !.pc = "catalog"])
  BY <1>3, <1>4, <1>6 DEF Fields
<1>7. ASSUME NEW cands, Query(h, [after EXCEPT !.pc = "catalog", !.cands = cands, !.found = {}])
      PROVE  \E m : Query(h, m) /\ (m.pc = "store" => Selects(m))
  BY <1>3, <1>4, <1>7 DEF Fields
<1>8. ASSUME NEW fused \in Fused(visible),
             NEW cands \in Selected[r.ask.question][fused][r.ask.reranker],
             Query(h, [after EXCEPT !.pc = "store", !.cands = cands, !.found = fused])
      PROVE  \E m : Query(h, m) /\ (m.pc = "store" => Selects(m))
  <2> DEFINE n == [after EXCEPT !.pc = "store", !.cands = cands, !.found = fused]
  <2>1. n.cands = cands /\ n.found = fused /\ n.ask = r.ask
    BY <1>3 DEF Fields
  <2>2. fused \subseteq Chunks /\ r.ask.reranker \in BOOLEAN
    BY <1>1, LimitedWithin, QueryAssumption DEF Fused
  <2>3. Selected[r.ask.question][fused][r.ask.reranker]
          = Selections(r.ask.question, fused, r.ask.reranker)
    BY <1>1, <2>2 DEF Selected
  <2> HIDE DEF n
  <2>4. Selects(n)
    BY <1>8, <2>1, <2>2, <2>3 DEF Selects
  <2> QED BY <1>8, <2>4 DEF n
<1> QED BY <1>2, <1>5, <1>6, <1>7, <1>8

\* Where a query is neither held nor about to be resolved.
Elsewhere == {"titles", "embed", "lookup", "catalog", "governance", "generate", "verify",
              "done", "failed"}

LEMMA StepRuns ==
  ASSUME Inv, NEW h \in Handlers, Step(h)
  PROVE  QueryInv(q[h], docs) /\ DOMAIN q[h] = Fields
<1>1. q[h].pc # "idle"
  BY DEF Step, ListTitles, Embed, Lookup, Search, ReadAuthority, Resolve, Store, FilterEvidence,
         Govern, Generate, StreamChat, CallLLM, Apologise, Reject, Withhold, Answer, Fail
<1>2. Idle.pc = "idle"
  BY DEF Idle
<1>3. QueryInv(q[h], docs)
  BY <1>1, <1>2 DEF Inv
<1> QED BY <1>3 DEF QueryInv, Framed

LEMMA StepLeaves ==
  ASSUME Inv, NEW h \in Handlers, Step(h),
         ~Lookup(h), ~Search(h), ~ReadAuthority(h), ~Resolve(h)
  PROVE  \E n : Query(h, n) /\ n.pc \in Elsewhere
<1> DEFINE r == q[h]
<1>1. QueryInv(r, docs)
  BY StepRuns
<1>2. Framed(r) /\ DOMAIN r = Fields
  BY <1>1 DEF QueryInv, Framed
<1> HIDE DEF r
<1>3. CASE ListTitles(h)
  <2>1. PICK titles : Query(h, [r EXCEPT !.pc = "embed", !.titles = titles])
    BY <1>3 DEF ListTitles, r
  <2> DEFINE n == [r EXCEPT !.pc = "embed", !.titles = titles]
  <2>2. n.pc \in Elsewhere
    BY <1>2 DEF Fields, Elsewhere
  <2> HIDE DEF n
  <2> QED BY <2>1, <2>2 DEF n
<1>4. CASE Embed(h)
  <2>1. Query(h, [r EXCEPT !.pc = "lookup"])
    BY <1>4 DEF Embed, r
  <2> DEFINE n == [r EXCEPT !.pc = "lookup"]
  <2>2. n.pc \in Elsewhere
    BY <1>2 DEF Fields, Elsewhere
  <2> HIDE DEF n
  <2> QED BY <2>1, <2>2 DEF n
<1>5. CASE Store(h)
  <2>1. Query(h, [r EXCEPT !.pc = "catalog", !.found = {}])
    BY <1>5 DEF Store, r
  <2> DEFINE n == [r EXCEPT !.pc = "catalog", !.found = {}]
  <2>2. n.pc \in Elsewhere
    BY <1>2 DEF Fields, Elsewhere
  <2> HIDE DEF n
  <2> QED BY <2>1, <2>2 DEF n
<1>6. CASE FilterEvidence(h)
  <2>1. PICK kept, filtered : Query(h, [r EXCEPT !.pc = "governance", !.cands = kept,
                                                 !.filtered = filtered])
    BY <1>6 DEF FilterEvidence, r
  <2> DEFINE n == [r EXCEPT !.pc = "governance", !.cands = kept, !.filtered = filtered]
  <2>2. n.pc \in Elsewhere
    BY <1>2 DEF Fields, Elsewhere
  <2> HIDE DEF n
  <2> QED BY <2>1, <2>2 DEF n
<1>7. CASE Govern(h)
  <2>1. PICK after \in Governed(r) :
          \/ \E resp : Query(h, Finished(after, resp))
          \/ \E shown : Query(h, [after EXCEPT !.pc = "generate", !.view.sources = shown])
    BY <1>7 DEF Govern, r
  <2>2. Framed(after)
    <3>1. r.pc = "governance"
      BY <1>7 DEF Govern, r
    <3> QED BY <1>1, <3>1, GovernedInv DEF QueryInv
  <2>3. DOMAIN after = Fields
    BY <2>2 DEF Framed
  <2>4. CASE \E resp : Query(h, Finished(after, resp))
    BY <2>2, <2>4, FinishedIsDone DEF Elsewhere
  <2>5. ASSUME NEW shown, Query(h, [after EXCEPT !.pc = "generate", !.view.sources = shown])
        PROVE  \E n : Query(h, n) /\ n.pc \in Elsewhere
    <3> DEFINE n == [after EXCEPT !.pc = "generate", !.view.sources = shown]
    <3>1. n.pc \in Elsewhere
      BY <2>3 DEF Fields, Elsewhere
    <3> HIDE DEF n
    <3> QED BY <2>5, <3>1 DEF n
  <2> QED BY <2>1, <2>4, <2>5
<1>8. CASE Generate(h)
  <2>1. \/ \E text : Query(h, [r EXCEPT !.pc = "verify", !.text = text, !.view.text = text])
        \/ \E text : Query(h, [r EXCEPT !.pc = "verify", !.text = text])
    BY <1>8 DEF Generate, StreamChat, CallLLM, r
  <2>2. ASSUME NEW text, Query(h, [r EXCEPT !.pc = "verify", !.text = text, !.view.text = text])
        PROVE  \E n : Query(h, n) /\ n.pc \in Elsewhere
    <3> DEFINE n == [r EXCEPT !.pc = "verify", !.text = text, !.view.text = text]
    <3>1. n.pc \in Elsewhere
      BY <1>2 DEF Fields, Elsewhere
    <3> HIDE DEF n
    <3> QED BY <2>2, <3>1 DEF n
  <2>3. ASSUME NEW text, Query(h, [r EXCEPT !.pc = "verify", !.text = text])
        PROVE  \E n : Query(h, n) /\ n.pc \in Elsewhere
    <3> DEFINE n == [r EXCEPT !.pc = "verify", !.text = text]
    <3>1. n.pc \in Elsewhere
      BY <1>2 DEF Fields, Elsewhere
    <3> HIDE DEF n
    <3> QED BY <2>3, <3>1 DEF n
  <2> QED BY <2>1, <2>2, <2>3
<1>9. CASE Apologise(h) \/ Reject(h) \/ Withhold(h) \/ Answer(h)
  <2>1. \E resp : Query(h, Finished(r, resp))
    BY <1>9 DEF Apologise, Reject, Withhold, Answer, r
  <2> QED BY <1>2, <2>1, FinishedIsDone DEF Elsewhere
<1>10. CASE Fail(h)
  <2>1. PICK text : Query(h, [Over(r) EXCEPT !.pc = "failed", !.view.text = text])
    BY <1>10 DEF Fail, r
  <2>2. DOMAIN Over(r) = Fields
    BY <1>2, OverFields DEF Framed
  <2> DEFINE n == [Over(r) EXCEPT !.pc = "failed", !.view.text = text]
  <2>3. n.pc \in Elsewhere
    BY <2>2 DEF Fields, Elsewhere
  <2> HIDE DEF n
  <2> QED BY <2>1, <2>3 DEF n
<1> QED BY <1>3, <1>4, <1>5, <1>6, <1>7, <1>8, <1>9, <1>10 DEF Step

\* Lookup leaves a query with the entry it found, or goes on to search.
LookedUp(r, found) ==
  [r EXCEPT !.pc = IF found = {} THEN "search" ELSE "authority",
            !.hit = found # {}, !.found = found]

LEMMA LookupLeaves ==
  ASSUME NEW r, DOMAIN r = Fields, NEW found
  PROVE  /\ LookedUp(r, found).pc = IF found = {} THEN "search" ELSE "authority"
         /\ LookedUp(r, found).hit = (found # {})
         /\ LookedUp(r, found).found = found
<1> DEFINE pc == IF found = {} THEN "search" ELSE "authority"
           n  == [r EXCEPT !.pc = pc, !.hit = found # {}, !.found = found]
<1>1. n.pc = pc /\ n.hit = (found # {}) /\ n.found = found
  <2> HIDE DEF pc
  <2> QED BY DEF Fields
<1> QED BY <1>1 DEF LookedUp

\* Search and ReadAuthority keep what else a query holds.
LEMMA SearchLeaves ==
  ASSUME NEW h \in Handlers, DOMAIN q[h] = Fields, Search(h)
  PROVE  \E n : Query(h, n) /\ n.pc = "authority" /\ n.hit = q[h].hit
<1> DEFINE r == q[h]
<1>1. PICK found : Query(h, [r EXCEPT !.pc = "authority", !.titles = {}, !.found = found])
  BY DEF Search
<1> HIDE DEF r
<1> DEFINE n == [r EXCEPT !.pc = "authority", !.titles = {}, !.found = found]
<1>2. Query(h, n)
  BY <1>1
<1>3. n.pc = "authority" /\ n.hit = r.hit
  BY DEF r, Fields
<1> HIDE DEF n
<1> QED BY <1>2, <1>3 DEF r

LEMMA ReadAuthorityLeaves ==
  ASSUME NEW h \in Handlers, DOMAIN q[h] = Fields, ReadAuthority(h)
  PROVE  \E n : Query(h, n) /\ n.pc = "legacy" /\ n.hit = q[h].hit /\ n.found = q[h].found
<1> DEFINE r == q[h]
<1>1. PICK authority : Query(h, [r EXCEPT !.pc = "legacy", !.authority = authority])
  BY DEF ReadAuthority
<1> DEFINE n == [r EXCEPT !.pc = "legacy", !.authority = authority]
<1>2. n.pc = "legacy" /\ n.hit = r.hit /\ n.found = r.found
  <2> HIDE DEF r
  <2> QED BY DEF r, Fields
<1> HIDE DEF n
<1> QED BY <1>1, <1>2 DEF n

LEMMA StepSelects ==
  ASSUME Inv, NEW h \in Handlers, Step(h)
  PROVE  \E n : Query(h, n) /\ (n.pc = "store" => Selects(n))
<1>1. CASE Lookup(h)
  <2>1. PICK found : Query(h, LookedUp(q[h], found))
    BY <1>1 DEF Lookup, LookedUp
  <2>2. LookedUp(q[h], found).pc # "store"
    BY StepRuns, LookupLeaves
  <2> QED BY <2>1, <2>2
<1>2. CASE Search(h)
  BY <1>2, StepRuns, SearchLeaves
<1>3. CASE ReadAuthority(h)
  BY <1>3, StepRuns, ReadAuthorityLeaves
<1>4. CASE Resolve(h)
  BY <1>4, StepRuns, ResolveSelects
<1>5. CASE ~Lookup(h) /\ ~Search(h) /\ ~ReadAuthority(h) /\ ~Resolve(h)
  BY <1>5, StepLeaves DEF Elsewhere
<1> QED BY <1>1, <1>2, <1>3, <1>4, <1>5

LEMMA AskLeaves ==
  ASSUME NEW h \in Handlers, NEW ask \in Asks, Ask(h, ask)
  PROVE  \E n : Query(h, n) /\ n.pc \in Elsewhere
<1> DEFINE r == [pc |-> "begin", ask |-> ask, hit |-> FALSE, filtered |-> FALSE,
                 conflict |-> FALSE, titles |-> {}, found |-> {}, cands |-> {},
                 authority |-> NoAuthority, text |-> "",
                 seen |-> VisibleIn(docs), admitted |-> AdmittedIn(docs),
                 view |-> NoView, resp |-> NoResp]
<1>1. Query(h, Begun(r)) /\ Framed(r)
  BY DEF Ask, Framed, Fields, NoView, NoResp
<1> HIDE DEF r
<1>2. DOMAIN r = Fields
  BY <1>1 DEF Framed
<1>3. \/ Begun(r) = [r EXCEPT !.pc = "failed"]
      \/ Begun(r) = Finished(r, Refusal("context_required"))
      \/ Begun(r) = [r EXCEPT !.pc = "titles"]
  <2>1. CASE r.ask.role \notin Members
    BY <2>1 DEF Begun
  <2>2. CASE r.ask.role \in Members /\ r.ask.question.dangling
    BY <2>2 DEF Begun
  <2>3. CASE r.ask.role \in Members /\ ~r.ask.question.dangling
    BY <2>3 DEF Begun
  <2> QED BY <2>1, <2>2, <2>3
<1>4. Begun(r).pc \in Elsewhere
  BY <1>1, <1>2, <1>3, FinishedIsDone DEF Fields, Elsewhere
<1> QED BY <1>1, <1>4

\* A write adds to what a query remembers, and to nothing else of it.
LEMMA WriteSpares ==
  ASSUME Inv, Change, NEW h \in Handlers
  PROVE  /\ cache' = cache /\ q'[h].pc = q[h].pc
         /\ q[h].pc \in Open => /\ q'[h].hit = q[h].hit /\ q'[h].found = q[h].found
                                /\ q'[h].cands = q[h].cands /\ q'[h].ask = q[h].ask
<1>1. PICK reg : Remember(reg) /\ cache' = cache
  BY ChangeWrites DEF Write
<1>2. q'[h] = IF q[h].pc \in Open
              THEN [q[h] EXCEPT !.seen = @ \cup VisibleIn(reg), !.admitted = @ \cup AdmittedIn(reg)]
              ELSE q[h]
  BY <1>1 DEF Remember
<1>3. CASE q[h].pc \in Open
  <2>1. QueryInv(q[h], docs)
    BY <1>3 DEF Inv, Idle, Open
  <2>2. DOMAIN q[h] = Fields
    BY <2>1 DEF QueryInv, Framed
  <2> QED BY <1>1, <1>2, <1>3, <2>2 DEF Fields
<1>4. CASE q[h].pc \notin Open
  BY <1>1, <1>2, <1>4
<1> QED BY <1>3, <1>4

LEMMA RankedNext == ASSUME Inv, RankedInv, [Next]_vars PROVE RankedInv'
<1>1. ASSUME NEW h \in Handlers, NEW n, Query(h, n), n.pc = "store" => Selects(n)
      PROVE  RankedInv'
  <2>1. DOMAIN q = Handlers
    BY DEF Inv
  <2>2. q'[h] = n /\ \A g \in Handlers \ {h} : q'[g] = q[g]
    BY <1>1, <2>1 DEF Query
  <2> QED BY <1>1, <2>2 DEF RankedInv, Selects
<1>2. CASE UNCHANGED q
  BY <1>2 DEF RankedInv, Selects
<1>3. CASE Change
  <2>1. ASSUME NEW h \in Handlers, q'[h].pc = "store" PROVE Selects(q'[h])
    <3>1. q[h].pc = "store" /\ "store" \in Open
      BY <1>3, <2>1, WriteSpares DEF Open
    <3> QED BY <1>3, <3>1, WriteSpares DEF RankedInv, Selects
  <2> QED BY <2>1 DEF RankedInv, Selects
<1>4. ASSUME NEW h \in Handlers, NEW ask \in Asks, Ask(h, ask) PROVE RankedInv'
  BY <1>1, <1>4, AskLeaves DEF Elsewhere
<1>5. ASSUME NEW h \in Handlers, Step(h) PROVE RankedInv'
  BY <1>1, <1>5, StepSelects
<1>6. CASE Flush \/ \E k \in Keys : Expire(k)
  BY <1>2, <1>6 DEF Flush, Expire
<1>7. CASE UNCHANGED vars
  BY <1>2, <1>7 DEF vars
<1> QED BY <1>3, <1>4, <1>5, <1>6, <1>7 DEF Next

(* What is ranked anew is a selection, in every state: Engine.Retrieve.     *)
LEMMA RankedAlways == Spec => []RankedInv
<1>1. Init => RankedInv
  BY DEF Init, RankedInv, Idle
<1>2. Inv /\ RankedInv /\ [Next]_vars => RankedInv'
  BY RankedNext
<1> QED BY <1>1, <1>2, QueryInvariant, PTL DEF Spec

(* The same of a query whose candidates are a selection.                    *)
LEMMA CrowdedOutByNone ==
  ASSUME IsFiniteSet(Chunks), NEW query, query.found \in SUBSET Chunks,
         query.ask.reranker \in BOOLEAN,
         query.cands \in Selections(query.ask.question, query.found, query.ask.reranker)
  PROVE  NoneIsCrowdedOut(query)
<1> DEFINE found    == query.found
           cands    == query.cands
           question == query.ask.question
           reranker == query.ask.reranker
<1> SUFFICES ASSUME reranker => \A cap \in {RerankInput, RerankTop} \ {0} :
                                  Cardinality(found) <= cap,
                    Cardinality(Documents(found)) <= TopK,
                    NEW e \in found
             PROVE  \E c \in cands, copy, x \in found :
                      copy.file = e.file /\ x.text = copy.text /\ c.doc = x.doc
  BY DEF NoneIsCrowdedOut
<1>1. found \in SUBSET Chunks /\ reranker \in BOOLEAN /\ cands \in Selections(question, found, reranker)
  OBVIOUS
<1> HIDE DEF found, cands, question, reranker
<1> QED BY <1>1, RankingAssumption, DocumentsSurvive

(* For every finite index and any configuration: ranking crowds no document *)
(* out, and shows an identifier asked for where the policy is "auto" and,   *)
(* without a reranker, no candidate that holds one is demoted or the        *)
(* question has no exact intent: Engine.Retrieve, planRerank,               *)
(* diversifyCandidates.  Both are said of what fusion left.                 *)
THEOREM RankingKeepsEvidenceAlways ==
  ASSUME IsFiniteSet(Chunks)
  PROVE  Spec => []RankingKeepsEvidence
<1>1. ASSUME RankedInv PROVE RankingKeepsEvidence
  <2> SUFFICES ASSUME NEW h \in Handlers, q[h].pc = "store"
               PROVE  IdentifierIsShown(q[h]) /\ NoneIsCrowdedOut(q[h])
    BY DEF RankingKeepsEvidence
  <2>1. /\ q[h].found \in SUBSET Chunks /\ q[h].ask.reranker \in BOOLEAN
        /\ q[h].cands \in Selections(q[h].ask.question, q[h].found, q[h].ask.reranker)
    BY <1>1 DEF RankedInv, Selects
  <2>2. IdentifierIsShown(q[h])
    BY <2>1, RankingAssumption, IdentifierSurvives DEF IdentifierIsShown, Pinned
  <2>3. NoneIsCrowdedOut(q[h])
    BY <2>1, CrowdedOutByNone
  <2> QED BY <2>2, <2>3
<1> QED BY <1>1, RankedAlways, PTL

-----------------------------------------------------------------------------
(* What comes back from the cache.                                         *)

\* Every entry is a selection, and so is what a query has of an entry until its
\* withdrawn chunks are taken out of it; a query that searches has none.
Held(r) ==
  /\ r.pc = "search" => ~r.hit
  /\ r.pc \in {"authority", "legacy"} /\ r.hit => Compact(r.found)

CachedInv == /\ \A k \in Keys : Compact(cache[k])
             /\ \A h \in Handlers : Held(q[h])

LEMMA NothingCompact == Compact({})
  BY FS_EmptySet, RankingAssumption DEF Compact, RankingAssumption

LEMMA ResolveHeld ==
  ASSUME NEW h \in Handlers, DOMAIN q[h] = Fields, Resolve(h)
  PROVE  \E n : Query(h, n) /\ Held(n)
<1> DEFINE r       == q[h]
           visible == Passing(r, LegacyOf(r))
           after   == [r EXCEPT !.found = visible, !.authority = NoAuthority]
<1>1. \/ Query(h, [after EXCEPT !.pc = "search", !.hit = FALSE])
      \/ Query(h, [after EXCEPT !.pc = "catalog"])
      \/ \E cands : Query(h, [after EXCEPT !.pc = "catalog", !.cands = cands, !.found = {}])
      \/ \E fused, cands :
           Query(h, [after EXCEPT !.pc = "store", !.cands = cands, !.found = fused])
  BY DEF Resolve, Passing, LegacyOf
<1> HIDE DEF visible
<1>2. DOMAIN after = Fields
  BY DEF Fields
<1> HIDE DEF after
<1>3. CASE Query(h, [after EXCEPT !.pc = "search", !.hit = FALSE])
  <2> DEFINE n == [after EXCEPT !.pc = "search", !.hit = FALSE]
  <2>1. n.pc = "search" /\ ~n.hit
    BY <1>2 DEF Fields
  <2> HIDE DEF n
  <2>2. Held(n)
    BY <2>1 DEF Held
  <2> QED BY <1>3, <2>2 DEF n
<1>4. CASE Query(h, [after EXCEPT !.pc = "catalog"])
  <2> DEFINE n == [after EXCEPT !.pc = "catalog"]
  <2>1. n.pc = "catalog"
    BY <1>2 DEF Fields
  <2> HIDE DEF n
  <2>2. Held(n)
    BY <2>1 DEF Held
  <2> QED BY <1>4, <2>2 DEF n
<1>5. ASSUME NEW cands, Query(h, [after EXCEPT !.pc = "catalog", !.cands = cands, !.found = {}])
      PROVE  \E n : Query(h, n) /\ Held(n)
  <2> DEFINE n == [after EXCEPT !.pc = "catalog", !.cands = cands, !.found = {}]
  <2>1. n.pc = "catalog"
    BY <1>2 DEF Fields
  <2> HIDE DEF n
  <2>2. Held(n)
    BY <2>1 DEF Held
  <2> QED BY <1>5, <2>2 DEF n
<1>6. ASSUME NEW fused, NEW cands,
             Query(h, [after EXCEPT !.pc = "store", !.cands = cands, !.found = fused])
      PROVE  \E n : Query(h, n) /\ Held(n)
  <2> DEFINE n == [after EXCEPT !.pc = "store", !.cands = cands, !.found = fused]
  <2>1. n.pc = "store"
    BY <1>2 DEF Fields
  <2> HIDE DEF n
  <2>2. Held(n)
    BY <2>1 DEF Held
  <2> QED BY <1>6, <2>2 DEF n
<1> QED BY <1>1, <1>3, <1>4, <1>5, <1>6

LEMMA StepHeld ==
  ASSUME Inv, CachedInv, NEW h \in Handlers, Step(h)
  PROVE  \E n : Query(h, n) /\ Held(n)
<1>1. CASE Lookup(h)
  <2>1. PICK found \in Hits(q[h].ask) : Query(h, LookedUp(q[h], found))
    BY <1>1 DEF Lookup, LookedUp
  <2>2. Key(q[h].ask) \in Keys
    BY StepRuns DEF QueryInv, Keys
  <2>3. Compact(found)
    <3>1. found = {} \/ \E k \in Keys : found = cache[k]
      BY <2>2 DEF Hits
    <3> QED BY <3>1, NothingCompact DEF CachedInv
  <2>4. Held(LookedUp(q[h], found))
    BY <2>3, StepRuns, LookupLeaves DEF Held
  <2> QED BY <2>1, <2>4
<1>2. CASE Search(h)
  <2>1. ~q[h].hit
    BY <1>2 DEF CachedInv, Held, Search
  <2>2. PICK n : Query(h, n) /\ n.pc = "authority" /\ n.hit = q[h].hit
    BY <1>2, StepRuns, SearchLeaves
  <2> QED BY <2>1, <2>2 DEF Held
<1>3. CASE ReadAuthority(h)
  <2>1. q[h].pc = "authority" /\ (q[h].hit => Compact(q[h].found))
    BY <1>3 DEF CachedInv, Held, ReadAuthority
  <2>2. PICK n : Query(h, n) /\ n.pc = "legacy" /\ n.hit = q[h].hit /\ n.found = q[h].found
    BY <1>3, StepRuns, ReadAuthorityLeaves
  <2> QED BY <2>1, <2>2 DEF Held
<1>4. CASE Resolve(h)
  BY <1>4, StepRuns, ResolveHeld
<1>5. CASE ~Lookup(h) /\ ~Search(h) /\ ~ReadAuthority(h) /\ ~Resolve(h)
  BY <1>5, StepLeaves DEF Elsewhere, Held
<1> QED BY <1>1, <1>2, <1>3, <1>4, <1>5

\* What is stored was selected.
LEMMA StepCaches ==
  ASSUME IsFiniteSet(Chunks), Inv, RankedInv, CachedInv, NEW h \in Handlers, Step(h)
  PROVE  \A k \in Keys : Compact(cache'[k])
<1>1. CASE cache' = cache
  BY <1>1 DEF CachedInv
<1>2. CASE Store(h)
  <2>1. Selects(q[h])
    BY <1>2 DEF RankedInv, Store
  <2>2. Compact(q[h].cands)
    BY <2>1, SelectionsCompact DEF Selects
  <2>3. DOMAIN cache = Keys
    BY DEF Inv, CacheInv
  <2>4. cache' = cache \/ cache' = [cache EXCEPT ![Key(q[h].ask)] = q[h].cands]
    BY <1>2 DEF Store
  <2> QED BY <2>2, <2>3, <2>4 DEF CachedInv
<1>3. cache' = cache \/ Store(h)
  BY DEF Step, ListTitles, Embed, Lookup, Search, ReadAuthority, Resolve, Store, FilterEvidence,
         Govern, Generate, StreamChat, CallLLM, Apologise, Reject, Withhold, Answer, Fail, Keeps
<1> QED BY <1>1, <1>2, <1>3

LEMMA CachedNext ==
  ASSUME IsFiniteSet(Chunks), Inv, RankedInv, CachedInv, [Next]_vars
  PROVE  CachedInv'
<1>1. ASSUME NEW h \in Handlers, NEW n, Query(h, n), Held(n), \A k \in Keys : Compact(cache'[k])
      PROVE  CachedInv'
  <2>1. DOMAIN q = Handlers
    BY DEF Inv
  <2>2. q'[h] = n /\ \A g \in Handlers \ {h} : q'[g] = q[g]
    BY <1>1, <2>1 DEF Query
  <2>3. \A g \in Handlers : Held(q'[g])
    BY <1>1, <2>2 DEF CachedInv
  <2> QED BY <1>1, <2>3 DEF CachedInv, Held
<1>2. ASSUME UNCHANGED q, \A k \in Keys : Compact(cache'[k])
      PROVE  CachedInv'
  BY <1>2 DEF CachedInv, Held
<1>3. CASE Change
  <2>1. ASSUME NEW h \in Handlers PROVE Held(q'[h])
    <3>1. q[h].pc \in {"search", "authority", "legacy"} => q[h].pc \in Open
      BY DEF Open
    <3> QED BY <1>3, <3>1, WriteSpares DEF CachedInv, Held
  <2>2. cache' = cache
    BY <1>3, ChangeWrites DEF Write
  <2> QED BY <2>1, <2>2 DEF CachedInv, Held
<1>4. ASSUME NEW h \in Handlers, NEW ask \in Asks, Ask(h, ask) PROVE CachedInv'
  <2>1. PICK n : Query(h, n) /\ n.pc \in Elsewhere
    BY <1>4, AskLeaves
  <2>2. Held(n)
    BY <2>1 DEF Elsewhere, Held
  <2>3. cache' = cache
    BY <1>4 DEF Ask
  <2> QED BY <1>1, <2>1, <2>2, <2>3 DEF CachedInv
<1>5. ASSUME NEW h \in Handlers, Step(h) PROVE CachedInv'
  BY <1>1, <1>5, StepHeld, StepCaches
<1>6. CASE Flush
  <2>1. \A k \in Keys : Compact(cache'[k])
    BY <1>6, NothingCompact DEF Flush, CachedInv
  <2> QED BY <1>2, <1>6, <2>1 DEF Flush
<1>7. ASSUME NEW k \in Keys, Expire(k) PROVE CachedInv'
  <2>1. \A j \in Keys : Compact(cache'[j])
    BY <1>7, NothingCompact DEF Expire, CachedInv, Inv, CacheInv
  <2> QED BY <1>2, <1>7, <2>1 DEF Expire
<1>8. CASE UNCHANGED vars
  BY <1>2, <1>8 DEF vars, CachedInv
<1> QED BY <1>3, <1>4, <1>5, <1>6, <1>7, <1>8 DEF Next

(* Every entry of the cache is a selection: what Engine.Retrieve stored.    *)
LEMMA CachedAlways == ASSUME IsFiniteSet(Chunks) PROVE Spec => []CachedInv
<1>1. Init => CachedInv
  BY NothingCompact DEF Init, CachedInv, Held, Idle
<1>2. Inv /\ RankedInv /\ CachedInv /\ [Next]_vars => CachedInv'
  BY CachedNext
<1> QED BY <1>1, <1>2, QueryInvariant, RankedAlways, PTL DEF Spec

\* An answer from the cache is all that may still be shown of the entry.
CachedIsKept ==
  \A h \in Handlers : q[h].pc = "legacy" /\ q[h].hit /\ q'[h].pc = "catalog" =>
    q'[h].cands = Passing(q[h], LegacyOf(q[h]))

LEMMA ResolveKeeps ==
  ASSUME IsFiniteSet(Chunks), Inv, CachedInv, NEW h \in Handlers, Resolve(h), q[h].hit,
         q'[h].pc = "catalog"
  PROVE  q'[h].cands = Passing(q[h], LegacyOf(q[h]))
<1> DEFINE r       == q[h]
           visible == Passing(r, LegacyOf(r))
           after   == [r EXCEPT !.found = visible, !.authority = NoAuthority]
<1>1. /\ DOMAIN r = Fields /\ r.found \subseteq Chunks /\ Compact(r.found) /\ DOMAIN q = Handlers
  <2>1. Step(h) /\ r.pc = "legacy"
    BY DEF Step, Resolve
  <2>2. QueryInv(r, docs) /\ DOMAIN r = Fields
    BY <2>1, StepRuns
  <2> QED BY <2>1, <2>2 DEF CachedInv, Held, QueryInv, Readable, Inv
<1>2. visible \in SUBSET Chunks /\ Compact(visible)
  BY <1>1, CompactPart DEF Passing
<1>3. \/ Query(h, [after EXCEPT !.pc = "search", !.hit = FALSE])
      \/ \E s \in Orders[visible] :
           Query(h, [after EXCEPT !.pc = "catalog", !.cands = Diversified(s), !.found = {}])
  BY DEF Resolve, Passing, LegacyOf
<1> HIDE DEF visible
<1>4. DOMAIN after = Fields
  BY <1>1 DEF Fields
<1> HIDE DEF after, r
<1>5. CASE Query(h, [after EXCEPT !.pc = "search", !.hit = FALSE])
  <2> DEFINE n == [after EXCEPT !.pc = "search", !.hit = FALSE]
  <2>1. n.pc = "search"
    BY <1>4 DEF Fields
  <2> HIDE DEF n
  <2>2. q'[h] = n
    BY <1>1, <1>5 DEF Query, n
  <2> QED BY <2>1, <2>2
<1>6. ASSUME NEW s \in Orders[visible],
             Query(h, [after EXCEPT !.pc = "catalog", !.cands = Diversified(s), !.found = {}])
      PROVE  q'[h].cands = visible
  <2> DEFINE cands == Diversified(s)
             n     == [after EXCEPT !.pc = "catalog", !.cands = cands, !.found = {}]
  <2>1. cands = visible
    BY <1>2, RankingAssumption, CompactStays
  <2>2. q'[h] = n
    BY <1>1, <1>6 DEF Query
  <2> HIDE DEF cands
  <2>3. n.cands = cands
    BY <1>4 DEF Fields
  <2> QED BY <2>1, <2>2, <2>3
<1> QED BY <1>3, <1>5, <1>6 DEF r, visible

LEMMA FailEnds ==
  ASSUME Inv, NEW h \in Handlers, Step(h), Fail(h)
  PROVE  q'[h].pc = "failed"
<1> DEFINE r == q[h]
<1>1. Framed(r) /\ DOMAIN q = Handlers
  BY StepRuns DEF QueryInv, Inv
<1>2. PICK text : Query(h, [Over(r) EXCEPT !.pc = "failed", !.view.text = text])
  BY DEF Fail
<1>3. DOMAIN Over(r) = Fields
  BY <1>1, OverFields DEF Framed
<1> HIDE DEF r
<1> DEFINE n == [Over(r) EXCEPT !.pc = "failed", !.view.text = text]
<1>4. n.pc = "failed"
  BY <1>3 DEF Fields
<1>5. q'[h] = n
  BY <1>1, <1>2 DEF Query
<1> HIDE DEF n
<1> QED BY <1>4, <1>5

(* An answer from the cache loses nothing but what was withdrawn since it   *)
(* was stored: diversifyCandidates is applied to it again, to what is left  *)
(* of it, and drops nothing: Engine.Retrieve on a hit.                      *)
THEOREM CachedIsKeptAlways ==
  ASSUME IsFiniteSet(Chunks)
  PROVE  Spec => [][CachedIsKept]_vars
<1>1. ASSUME Inv, CachedInv, [Next]_vars PROVE [CachedIsKept]_vars
  <2> SUFFICES ASSUME Next, NEW h \in Handlers, q[h].pc = "legacy", q[h].hit, q'[h].pc = "catalog"
               PROVE  q'[h].cands = Passing(q[h], LegacyOf(q[h]))
    BY <1>1 DEF CachedIsKept
  <2>1. DOMAIN q = Handlers
    BY <1>1 DEF Inv
  <2>2. ASSUME NEW g \in Handlers, NEW n, Query(g, n) PROVE g = h
    BY <2>1, <2>2 DEF Query
  <2>3. CASE Change
    BY <1>1, <2>3, WriteSpares
  <2>4. CASE Flush \/ \E k \in Keys : Expire(k)
    BY <2>4 DEF Flush, Expire
  <2>5. ASSUME NEW g \in Handlers, NEW ask \in Asks, Ask(g, ask) PROVE FALSE
    <3>1. g = h
      BY <2>2, <2>5, AskInv
    <3>2. q[h].pc \notin Open
      BY <2>5, <3>1 DEF Ask
    <3> QED BY <3>2 DEF Open
  <2>6. ASSUME NEW g \in Handlers, Step(g) PROVE q'[h].cands = Passing(q[h], LegacyOf(q[h]))
    <3>1. g = h
      BY <1>1, <2>2, <2>6, StepInv
    <3>2. Resolve(h) \/ Fail(h)
      BY <2>6, <3>1
         DEF Step, ListTitles, Embed, Lookup, Search, ReadAuthority, Store, FilterEvidence,
             Govern, Generate, StreamChat, CallLLM, Apologise, Reject, Withhold, Answer
    <3>3. CASE Resolve(h)
      BY <1>1, <3>3, ResolveKeeps
    <3>4. CASE Fail(h)
      BY <1>1, <2>1, <2>6, <3>1, <3>4, FailEnds
    <3> QED BY <3>2, <3>3, <3>4
  <2> QED BY <2>3, <2>4, <2>5, <2>6 DEF Next
<1> QED BY <1>1, QueryInvariant, CachedAlways, PTL DEF Spec
=============================================================================
