-------------------------------- MODULE Query --------------------------------
(***************************************************************************)
(* A question answered from the documents of one tenant and one knowledge  *)
(* space: query.Service.ask and retrieval.Engine.Retrieve with the         *)
(* semantic cache, and the writes that publish and withdraw documents      *)
(* while a question is being answered.                                     *)
(*                                                                         *)
(* A statement to PostgreSQL, a call to Redis, a search of a back end and  *)
(* a call to the model is a step each.  The search back ends filter by the *)
(* permission stored with the chunk and know nothing of publication, so    *)
(* the gates after them decide what may be cited.  The chunks of every     *)
(* generation stay searchable throughout (the worst case for the gates).   *)
(* Module Ranking says what becomes of the candidates that are left.  A    *)
(* stored chunk is a candidate with its generation and its permission.     *)
(***************************************************************************)
EXTENDS Ranking

CONSTANTS Docs,
          Managed,     \* documents of a space whose publication is approved
          NoGen,       \* the generation of a chunk stored without one; no release
          Handlers,    \* queries running at once
          Asks,        \* what is asked: [role, question, streams], and whether
                       \* the process that answers has a reranker
          Members,     \* the roles that may query the space
          Allowed,     \* roleAllowedDocPermissions
          Supersedes,  \* the document each says it replaces
          Competing,   \* pairs of documents of one name and different dates
          Registry,    \* the documents to begin with
          MaxChanges,  \* bound on writes to the documents
          MaxAsks      \* bound on questions

ASSUME QueryAssumption ==
  /\ Managed \subseteq Docs
  /\ \A c \in Chunks : c.doc \in Docs
  /\ \A ask \in Asks : ask.reranker \in BOOLEAN
  /\ {MaxChanges, MaxAsks} \subseteq Nat

\* A release of the registry names a generation that was indexed.
ASSUME RegistryAssumption ==
  /\ DOMAIN Registry = Docs
  /\ \A d \in Docs :
       /\ DOMAIN Registry[d] = {"release", "healthy", "publication", "retired", "deleting"}
       /\ Registry[d].release \in {c.gen : c \in {e \in Chunks : e.doc = d}} \cup {NoGen}

VARIABLES docs,     \* the registry row, release and manifest of each document
          cache,    \* semantic cache: scope and question -> chunks, {} is no entry
          flushing, \* a write has committed and its cache flush is still to come
          q,        \* the query of each handler
          changes,  \* writes so far
          asked     \* questions so far

vars == <<docs, cache, flushing, q, changes, asked>>

Gens     == {c.gen : c \in Chunks} \cup {NoGen}
Reasons  == {"no_evidence", "exact_evidence_missing", "evidence_filtered",
             "insufficient_support", "sensitive_content", "context_required"}
Open     == {"titles", "embed", "lookup", "search", "authority", "legacy", "store",
             "catalog", "governance", "generate", "verify"}

-----------------------------------------------------------------------------
\* What the registry says.

\* document_releases JOIN index_manifests: a release whose generation is
\* active and healthy.
Authority(d) == IF docs[d].healthy THEN docs[d].release ELSE NoGen

\* documents.publication_status, for a document without such a release.
LegacyPublished(d) == docs[d].publication = "published" /\ ~docs[d].deleting

\* Mutant: without a release every chunk of a published document is shown.
VisibleByRow(c, authority, legacy) ==
  IF authority[c.doc] # NoGen THEN c.gen = authority[c.doc] ELSE c.doc \in legacy

\* The read policy, given what the two statements returned.
VisibleIf(c, authority, legacy) ==
  IF authority[c.doc] # NoGen THEN c.gen = authority[c.doc]
                              ELSE c.doc \in legacy /\ c.gen = NoGen

VisibleIn(reg) ==
  LET authority == [d \in Docs |-> IF reg[d].healthy THEN reg[d].release ELSE NoGen]
      legacy    == {d \in Docs : reg[d].publication = "published" /\ ~reg[d].deleting}
  IN  {c \in Chunks : VisibleIf(c, authority, legacy)}

\* Catalog.FilterEvidence: published, and neither superseded nor archived.
AdmittedIn(reg) == {d \in Docs : reg[d].publication = "published" /\ ~reg[d].retired}

-----------------------------------------------------------------------------
\* What the back ends return.

\* AllowedPermissionsForRole: a role that is not known reads what is public.
Permissions(role) == IF role \in DOMAIN Allowed THEN Allowed[role] ELSE Allowed["readonly"]

\* Both back ends filter by permission; the dense search returns the nearest.
Readable(ask) == {c \in Chunks : c.permission \in Permissions(ask.role)}

\* The documents whose title is in the question, of those that are listed.
Titled(ask, reg) ==
  {d \in ask.question.titles :
     /\ reg[d].publication = "published" /\ ~reg[d].deleting
     /\ \E c \in Readable(ask) : c.doc = d}

\* titleAwareShouldClauses: it shares a word with the question, holds one of its
\* identifiers, or is of a document with such a title.
Shares(c, ask, titles) ==
  \/ ask.question.name \in c.about
  \/ c.tokens \cap ask.question.tokens # {}
  \/ c.doc \in titles

Worded(ask, titles) == {c \in Readable(ask) : Shares(c, ask, titles)}

\* Either back end answers with its best.
Found(answering, ask, titles) ==
  {near \cup worded :
     near   \in Limited(IF "qdrant" \in answering THEN Readable(ask) ELSE {}),
     worded \in Limited(IF "elasticsearch" \in answering THEN Worded(ask, titles) ELSE {})}

-----------------------------------------------------------------------------
\* The semantic cache.

\* Mutant: a cache shared by all readers.
KeyOfQuestion(ask) == <<{}, ask.question.name>>

\* entryKey and indexKey: the scope, and the question within it.
Key(ask) == <<Permissions(ask.role), ask.question.name>>
Keys     == {Key(a) : a \in Asks}

\* Lookup: the entry of the question, else one of a similar question in the
\* same scope.  {} is a miss, which an error of Redis is too.
Hits(ask) ==
  IF cache[Key(ask)] # {} THEN {cache[Key(ask)], {}}
  ELSE {{}} \cup {cache[k] : k \in {j \in Keys : j[1] = Key(ask)[1]}}

Expire(k) ==
  /\ cache[k] # {}
  /\ cache' = [cache EXCEPT ![k] = {}]
  /\ UNCHANGED <<docs, flushing, q, changes, asked>>

\* Flush after a write; its error is logged.
Flush ==
  /\ flushing > 0
  /\ flushing' = flushing - 1
  /\ cache' \in {cache, [k \in Keys |-> {}]}
  /\ UNCHANGED <<docs, q, changes, asked>>

-----------------------------------------------------------------------------
\* Writes to the documents.

\* What could be cited at some moment of a running query is history.
Remember(reg) ==
  q' = [h \in Handlers |->
         IF q[h].pc \in Open
         THEN [q[h] EXCEPT !.seen = @ \cup VisibleIn(reg),
                           !.admitted = @ \cup AdmittedIn(reg)]
         ELSE q[h]]

Write(d, row, flush) ==
  /\ changes < MaxChanges /\ row # docs[d]
  /\ changes' = changes + 1
  /\ docs' = [docs EXCEPT ![d] = row]
  /\ flushing' = flushing + flush
  /\ Remember([docs EXCEPT ![d] = row])
  /\ UNCHANGED <<cache, asked>>

GensOf(d)       == {c.gen : c \in {e \in Chunks : e.doc = d}} \ {NoGen}
Released(row, g) == [row EXCEPT !.release = g, !.healthy = TRUE, !.publication = "published"]

\* Publisher.Publish of an approved candidate.
Publish(d, g) ==
  /\ d \in Managed /\ g \in GensOf(d)
  /\ ~docs[d].deleting /\ ~docs[d].retired /\ docs[d].publication # "retired"
  /\ Write(d, Released(docs[d], g), 1)

\* In the transaction that completes an upload to the open space; the worker
\* flushes nothing.
PublishAutomatic(d, g) ==
  /\ d \notin Managed /\ g \in GensOf(d) /\ ~docs[d].deleting
  /\ Write(d, Released(docs[d], g), 0)

\* PATCH of a document by an administrator.
UpdatePublication(d, status) ==
  /\ status = "published" =>
       d \notin Managed /\ docs[d].publication = "draft" /\ ~docs[d].retired
  /\ Write(d, [docs[d] EXCEPT !.publication = status], 1)

UpdateGovernance(d, retired) == Write(d, [docs[d] EXCEPT !.retired = retired], 0)

\* Acceptance of a deletion.
Accept(d) ==
  /\ ~docs[d].deleting
  /\ Write(d, [docs[d] EXCEPT !.deleting = TRUE, !.publication = "retired",
                              !.release = NoGen, !.healthy = TRUE], 1)

\* The reconciler finds the published generation damaged, or whole again.
Reconcile(d, healthy) ==
  /\ docs[d].release # NoGen /\ docs[d].healthy # healthy
  /\ Write(d, [docs[d] EXCEPT !.healthy = healthy], 0)

Change ==
  \E d \in Docs :
    \/ \E g \in Gens : Publish(d, g) \/ PublishAutomatic(d, g)
    \/ \E status \in {"draft", "published", "retired"} : UpdatePublication(d, status)
    \/ \E b \in BOOLEAN : UpdateGovernance(d, b) \/ Reconcile(d, b)
    \/ Accept(d)

-----------------------------------------------------------------------------
\* A query.

NoView == [text |-> "", sources |-> {}]
NoResp == [text |-> "", reason |-> "", sources |-> {}, conflict |-> FALSE]
Idle   == [pc |-> "idle"]
NoAuthority == [d \in Docs |-> NoGen]

\* What a query worked with goes with it; what it showed stays.
Over(query) == [query EXCEPT !.hit = FALSE, !.filtered = FALSE, !.conflict = FALSE,
                             !.titles = {}, !.found = {}, !.cands = {},
                             !.authority = NoAuthority, !.text = ""]

Query(h, next) == q' = [q EXCEPT ![h] = next]
Keeps == UNCHANGED <<docs, flushing, changes>>

\* HandleQuery: the answer in one piece.
Encoded(resp) == [text |-> resp.text, sources |-> resp.sources]

\* Mutant: a stream that has shown the text of the answer needs no replacement.
StreamedAsShown(shown, resp) ==
  IF shown.text # resp.text THEN Encoded(resp) ELSE shown

\* HandleQueryStreaming: what has been shown is replaced when it is not the
\* answer, or when the answer is a refusal.
Streamed(shown, resp) ==
  IF shown.text = "" \/ shown.text # resp.text \/ resp.text \in Reasons
  THEN Encoded(resp) ELSE shown

Finished(query, resp) ==
  [Over(query) EXCEPT !.pc = "done", !.resp = resp,
                      !.view = IF query.ask.streams THEN Streamed(query.view, resp)
                                                    ELSE Encoded(resp)]

Refusal(reason) ==
  [text |-> reason, reason |-> reason, sources |-> {}, conflict |-> FALSE]

\* Catalog.Resolve: the caller may query the space; then a question that refers
\* back to an earlier turn is refused, of which nothing is known here.
Begun(query) ==
  CASE query.ask.role \notin Members -> [query EXCEPT !.pc = "failed"]
    [] query.ask.role \in Members /\ query.ask.question.dangling
         -> Finished(query, Refusal("context_required"))
    [] OTHER -> [query EXCEPT !.pc = "titles"]

\* A request that is in order.
Ask(h, ask) ==
  /\ q[h].pc \notin Open /\ asked < MaxAsks
  /\ asked' = asked + 1
  /\ Query(h, Begun([pc |-> "begin", ask |-> ask, hit |-> FALSE, filtered |-> FALSE,
                     conflict |-> FALSE, titles |-> {}, found |-> {}, cands |-> {},
                     authority |-> NoAuthority, text |-> "",
                     seen |-> VisibleIn(docs), admitted |-> AdmittedIn(docs),
                     view |-> NoView, resp |-> NoResp]))
  /\ UNCHANGED cache /\ Keeps

\* An error of the embedder, of a statement or of the model ends the query;
\* a stream keeps the text it has shown.
Fail(h) ==
  /\ q[h].pc \in {"embed", "search", "authority", "legacy", "catalog", "generate"}
  /\ \E text \in {q[h].view.text} \cup (IF q[h].pc = "generate" /\ q[h].ask.streams
                                         THEN {"partial"} ELSE {}) :
       Query(h, [Over(q[h]) EXCEPT !.pc = "failed", !.view.text = text])
  /\ UNCHANGED <<cache, asked>> /\ Keeps

\* listedPublishedDocuments; without the list no title is found.
ListTitles(h) ==
  /\ q[h].pc = "titles"
  /\ \E titles \in {{}, Titled(q[h].ask, docs)} :
       Query(h, [q[h] EXCEPT !.pc = "embed", !.titles = titles])
  /\ UNCHANGED <<cache, asked>> /\ Keeps

Embed(h) ==
  /\ q[h].pc = "embed"
  /\ Query(h, [q[h] EXCEPT !.pc = "lookup"])
  /\ UNCHANGED <<cache, asked>> /\ Keeps

\* Mutant: a cached answer was checked when it was stored.
LookupTrusted(h) ==
  /\ q[h].pc = "lookup"
  /\ \E found \in Hits(q[h].ask) :
       Query(h, [q[h] EXCEPT !.pc = IF found = {} THEN "search" ELSE "catalog",
                             !.hit = found # {}, !.cands = found])
  /\ UNCHANGED <<cache, asked>> /\ Keeps

Lookup(h) ==
  /\ q[h].pc = "lookup"
  /\ \E found \in Hits(q[h].ask) :
       Query(h, [q[h] EXCEPT !.pc = IF found = {} THEN "search" ELSE "authority",
                             !.hit = found # {}, !.found = found])
  /\ UNCHANGED <<cache, asked>> /\ Keeps

\* The back ends are searched at once; one of them may fail.
Search(h) ==
  /\ q[h].pc = "search"
  /\ \E answering \in (SUBSET Backends(q[h].ask.question)) \ {{}} :
       \E found \in Found(answering, q[h].ask, q[h].titles) :
         Query(h, [q[h] EXCEPT !.pc = "authority", !.titles = {}, !.found = found])
  /\ UNCHANGED <<cache, asked>> /\ Keeps

\* publishedAuthorities reads the releases of the candidates' documents, and
\* then the rows of those without one.
Documents(cands) == {c.doc : c \in cands}

ReadAuthority(h) ==
  /\ q[h].pc = "authority"
  /\ Query(h, [q[h] EXCEPT !.pc = "legacy",
                           !.authority = [d \in Docs |-> IF d \in Documents(q[h].found)
                                                         THEN Authority(d) ELSE NoGen]])
  /\ UNCHANGED <<cache, asked>> /\ Keeps

Selected == [question \in {ask.question : ask \in Asks} |->
               [cands \in SUBSET Chunks |->
                  [reranker \in BOOLEAN |-> Selections(question, cands, reranker)]]]

\* What survives is fused, ranked and kept; a cached answer of which nothing
\* survives is a miss.
Resolve(h) ==
  /\ q[h].pc = "legacy"
  /\ LET legacy  == {d \in Documents(q[h].found) : q[h].authority[d] = NoGen /\ LegacyPublished(d)}
         visible == {c \in q[h].found : VisibleIf(c, q[h].authority, legacy)}
         after   == [q[h] EXCEPT !.found = visible, !.authority = NoAuthority]
     IN  \/ visible = {} /\ q[h].hit
            /\ Query(h, [after EXCEPT !.pc = "search", !.hit = FALSE])
         \/ visible = {} /\ ~q[h].hit /\ Query(h, [after EXCEPT !.pc = "catalog"])
         \/ visible # {} /\ q[h].hit
            /\ \E cands \in {Diversified(s) : s \in Orders[visible]} :
                 Query(h, [after EXCEPT !.pc = "catalog", !.cands = cands, !.found = {}])
         \/ visible # {} /\ ~q[h].hit
            /\ \E fused \in Fused(visible) :
                 \E cands \in Selected[q[h].ask.question][fused][q[h].ask.reranker] :
                   Query(h, [after EXCEPT !.pc = "store", !.cands = cands, !.found = fused])
  /\ UNCHANGED <<cache, asked>> /\ Keeps

\* Store; its error is logged.
Store(h) ==
  /\ q[h].pc = "store"
  /\ cache' \in {cache, [cache EXCEPT ![Key(q[h].ask)] = q[h].cands]}
  /\ Query(h, [q[h] EXCEPT !.pc = "catalog", !.found = {}])
  /\ UNCHANGED asked /\ Keeps

\* The relevance floor, then Catalog.FilterEvidence.
FilterEvidence(h) ==
  /\ q[h].pc = "catalog"
  /\ \E near \in Gated(q[h].ask.question, q[h].cands) :
       LET kept == {c \in near : c.doc \in AdmittedIn(docs)}
       IN  Query(h, [q[h] EXCEPT !.pc = "governance", !.cands = kept,
                       !.filtered = \E c \in near : docs[c.doc].publication # "published"])
  /\ UNCHANGED <<cache, asked>> /\ Keeps

\* detectConflicts: one says it replaces another, or two have one name and
\* different dates.
Conflicting(cands) ==
  \E d, other \in Documents(cands) : Supersedes[d] = other \/ {d, other} \in Competing

\* applyGovernance, which lets everything pass when its statement fails.
Governed(query) ==
  LET kept == {c \in query.cands : ~docs[c.doc].retired}
  IN  {query, [query EXCEPT !.cands = kept, !.filtered = @ \/ kept # query.cands,
                            !.conflict = Conflicting(kept)]}

\* The two refusals that need no model; else the sources are streamed.
Govern(h) ==
  /\ q[h].pc = "governance"
  /\ \E after \in Governed(q[h]) :
       LET enough == Sufficient(after.ask.question, after.cands)
       IN  \/ ~enough /\ Query(h, Finished(after, Refusal("exact_evidence_missing")))
           \/ /\ enough /\ after.cands = {}
              /\ Query(h, Finished(after, Refusal(IF after.filtered THEN "evidence_filtered"
                                                                    ELSE "no_evidence")))
           \/ /\ enough /\ after.cands # {}
              /\ Query(h, [after EXCEPT !.pc = "generate",
                             !.view.sources = IF after.ask.streams THEN after.cands ELSE {}])
  /\ UNCHANGED <<cache, asked>> /\ Keeps

\* The model answers, or says the very sentence of a refusal, or apologises in
\* words of its own.
Says == {"answer", "secret", "insufficient_support", "apology"}

\* streamChat shows the text as it comes; a stream that just ends is complete.
StreamChat(h) ==
  /\ q[h].pc = "generate" /\ q[h].ask.streams
  /\ \E text \in Says :
       Query(h, [q[h] EXCEPT !.pc = "verify", !.text = text, !.view.text = text])
  /\ UNCHANGED <<cache, asked>> /\ Keeps

CallLLM(h) ==
  /\ q[h].pc = "generate" /\ ~q[h].ask.streams
  /\ \E text \in Says : Query(h, [q[h] EXCEPT !.pc = "verify", !.text = text])
  /\ UNCHANGED <<cache, asked>> /\ Keeps

Generate(h) == StreamChat(h) \/ CallLLM(h)

\* canonicalizeRefusal: a refusal in the model's own words is the refusal for
\* lack of support.
Apologise(h) ==
  /\ q[h].pc = "verify" /\ q[h].text = "apology"
  /\ Query(h, Finished(q[h], Refusal("insufficient_support")))
  /\ UNCHANGED <<cache, asked>> /\ Keeps

\* The grounding check rejects the answer; else it passed it, did not apply, or
\* failed.
Reject(h) ==
  /\ q[h].pc = "verify" /\ q[h].text # "apology"
  /\ Query(h, Finished(q[h], Refusal("insufficient_support")))
  /\ UNCHANGED <<cache, asked>> /\ Keeps

Withhold(h) ==
  /\ q[h].pc = "verify" /\ q[h].text = "secret"
  /\ Query(h, Finished(q[h], [Refusal("sensitive_content") EXCEPT !.conflict = q[h].conflict]))
  /\ UNCHANGED <<cache, asked>> /\ Keeps

\* The sentence of a refusal passes for an answer when the model says it.
Answer(h) ==
  /\ q[h].pc = "verify" /\ q[h].text \notin {"apology", "secret"}
  /\ Query(h, Finished(q[h], [text |-> q[h].text, reason |-> "", sources |-> q[h].cands,
                              conflict |-> q[h].conflict]))
  /\ UNCHANGED <<cache, asked>> /\ Keeps

Step(h) ==
  \/ ListTitles(h) \/ Embed(h) \/ Lookup(h) \/ Search(h) \/ ReadAuthority(h) \/ Resolve(h) \/ Store(h)
  \/ FilterEvidence(h) \/ Govern(h) \/ Generate(h)
  \/ Apologise(h) \/ Reject(h) \/ Withhold(h) \/ Answer(h) \/ Fail(h)

Init ==
  /\ docs = Registry /\ cache = [k \in Keys |-> {}]
  /\ flushing = 0 /\ changes = 0 /\ asked = 0
  /\ q = [h \in Handlers |-> Idle]

Next ==
  \/ Change
  \/ Flush
  \/ \E k \in Keys : Expire(k)
  \/ \E h \in Handlers : (\E ask \in Asks : Ask(h, ask)) \/ Step(h)

Spec == Init /\ [][Next]_vars

-----------------------------------------------------------------------------
\* What the model is given, and what the caller is shown.
Evidence(h) ==
  IF q[h] = Idle THEN {}
  ELSE q[h].view.sources \cup q[h].resp.sources
         \cup (IF q[h].pc \in {"generate", "verify"} THEN q[h].cands ELSE {})

\* A chunk stored without a generation, of a document that has generations too.
Blended(c) == c.gen = NoGen /\ \E e \in Chunks : e.doc = c.doc /\ e.gen # NoGen

\* The document of what is cited was published and in force, and the chunk of
\* its published generation, at some moment of the query: whatever is withdrawn
\* before a question is asked cannot answer it, although the back ends still
\* return it, the cache still holds it, and documents change between the gates.
\* The one exception is a blended chunk, which is cited on when its document is
\* released between the two statements of publishedAuthorities.
WithdrawnIsNeverCited ==
  \A h \in Handlers : \A c \in Evidence(h) :
    c.doc \in q[h].admitted /\ (c \in q[h].seen \/ Blended(c))

\* An answer never mixes two generations of a document, although a release may
\* be replaced while the query reads the registry.
OneGenerationPerDocument ==
  \A h \in Handlers : \A c1, c2 \in Evidence(h) : c1.doc = c2.doc => c1.gen = c2.gen

\* A cached answer never crosses the permissions of the roles: the gates after
\* the cache ask about publication, none of them about the reader.
AudienceIsKept ==
  \A h \in Handlers : \A c \in Evidence(h) : c.permission \in Permissions(q[h].ask.role)

\* When the stream of a query ends, the caller sees the answer, and next to a
\* refusal no sources, whatever was streamed before it.
RefusalsShowNoSources ==
  \A h \in Handlers : q[h].pc = "done" =>
    /\ q[h].view.text = q[h].resp.text
    /\ q[h].resp.reason # "" => q[h].view.sources = {}

\* Ranking a fresh search keeps a chunk with an identifier asked for, where
\* fusion left one and the policy is "auto".  Without a reranker the plan is made
\* on the order before the demotion: a question with exact intent then loses the
\* identifier when the chunk that holds it is first and is demoted.
IdentifierIsShown(query) ==
  LET question == query.ask.question
      holding  == Matched(question, query.found)
      pinned   == \/ query.ask.reranker \/ ~Exact(question)
                  \/ holding \cap Demoted(question, query.found) = {}
  IN  Policy = "auto" /\ pinned /\ holding # {} => Matched(question, query.cands) # {}

\* Where no reranker left anything out and the answer has room for a chunk of
\* each document that fusion left, none is crowded out by the chunks of others:
\* it is shown, or one that has its file, or the text of a chunk with its file.
NoneIsCrowdedOut(query) ==
  (/\ query.ask.reranker =>
        \A cap \in {RerankInput, RerankTop} \ {0} : Cardinality(query.found) <= cap
   /\ Cardinality(Documents(query.found)) <= TopK) =>
    \A e \in query.found : \E c \in query.cands, copy, x \in query.found :
      copy.file = e.file /\ x.text = copy.text /\ c.doc = x.doc

\* Demotion, reranking, pinning, deduplication and the limit per document work
\* on the fused list one after the other, and none drops what another promised
\* to keep.
RankingKeepsEvidence ==
  \A h \in Handlers : q[h].pc = "store" => IdentifierIsShown(q[h]) /\ NoneIsCrowdedOut(q[h])
=============================================================================
