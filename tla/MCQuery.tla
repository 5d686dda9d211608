------------------------------- MODULE MCQuery -------------------------------
(* Instances of Query for TLC.                                             *)
EXTENDS Query

\* A question on the replaced policy; one that names an order and the memo, and
\* a message id of the order besides; the order again by mail, in a question
\* without exact intent; and one that refers back.
Ask1(name, keyword, semantic, tokens, titles, dangling) ==
  [name |-> name, keyword |-> keyword, semantic |-> semantic, tokens |-> tokens,
   titles |-> titles, dangling |-> dangling]
Short == {"ord"}
Long  == {"ord", "item"}
Plain == Ask1("plain", FALSE, TRUE, {}, {}, FALSE)
Order == Ask1("order", TRUE, FALSE, {Short, Long}, {"memo"}, FALSE)
Mail  == Ask1("mail", FALSE, FALSE, {Long}, {}, FALSE)
Back  == Ask1("back", FALSE, FALSE, {}, {}, TRUE)

Asked(role, question, streams, reranker) ==
  [role |-> role, question |-> question, streams |-> streams, reranker |-> reranker]
FiveAsks == {Asked("user", Plain, TRUE, TRUE), Asked("user", Order, FALSE, FALSE),
             Asked("guest", Mail, FALSE, FALSE), Asked("user", Back, TRUE, FALSE),
             Asked("stranger", Plain, TRUE, FALSE)}

Chunk(doc, gen, n, file, text, permission, tokens, about, far) ==
  [doc |-> doc, gen |-> gen, n |-> n, file |-> file, text |-> text,
   permission |-> permission, tokens |-> tokens, about |-> about, far |-> far]

\* A replaced document of an approved space, whose replacement holds the
\* identifier; a restricted upload to the open space that is being indexed; and
\* a document stored before there were generations, of the same file as the
\* upload, which repeats a passage of the replaced document.
ThreeDocs == {"policy", "upload", "memo"}
Chunks5   ==
  {Chunk("policy", "g1", 1, "old", "intro", "public", {}, {"plain", "order", "mail"}, {}),
   Chunk("policy", "g2", 1, "new", "terms", "public", {Long}, {"plain"}, {}),
   Chunk("policy", "g2", 2, "new", "note", "public", {}, {"plain", "mail"}, {}),
   Chunk("upload", "g1", 1, "leaflet", "intro", "internal", {}, {"plain", "order", "mail"}, {}),
   Chunk("memo", "none", 1, "leaflet", "offer", "internal", {}, {"plain", "order"}, {"plain"})}
AllowedBy == [user |-> {"public", "internal"}, readonly |-> {"public"}]
Replaces  == [d \in ThreeDocs |-> IF d = "memo" THEN "policy" ELSE "none"]

Row1(release, publication) ==
  [release |-> release, healthy |-> TRUE, publication |-> publication,
   retired |-> FALSE, deleting |-> FALSE]
AsIndexed == [d \in ThreeDocs |->
               CASE d = "policy" -> Row1("g1", "published")
                 [] d = "upload" -> Row1("none", "draft")
                 [] d = "memo"   -> Row1("none", "published")]
=============================================================================
