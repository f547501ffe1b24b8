---------------------------- MODULE MCArticleSync ----------------------------
(* Values for the constants of ArticleSync. *)
EXTENDS ArticleSync, TLC

CONSTANTS t1, t2

File(content, title, description, publish, tags) ==
  [content |-> content, title |-> title, description |-> description,
   thumbnail |-> Null, publish |-> publish, tags |-> tags]

\* A draft, a revision of its body, its publication, and a published revision
\* of body, description and tags.
Revisions ==
  {File("a", "A", Null, FALSE, {t1}),
   File("b", "A", Null, FALSE, {t1}),
   File("a", "A", Null, TRUE, {t1}),
   File("b", "A", "d", TRUE, {t2})}
\* Without the revision of the draft.
ThreeRevisions == {src \in Revisions : src.content = "b" => src.publish}

WorkerSymmetry == Permutations(Workers)
=============================================================================
