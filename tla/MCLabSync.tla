------------------------------ MODULE MCLabSync ------------------------------
(***************************************************************************)
(* Instances of LabSync for TLC: small sets of directories.                *)
(***************************************************************************)
EXTENDS LabSync, TLC

CONSTANTS intro, setup, figure, title, title2, text, text2, sha, sha2

Book(meta, order, files, images) ==
  [config |-> [meta |-> meta, chapters |-> order],
   files |-> files, images |-> images]

Plain == [body |-> text, refs |-> {}]
Edited == [body |-> text2, refs |-> {}]
Illustrated == [body |-> text, refs |-> Images]

\* Two chapters, and the other order with the file of one of them missing.
BookDirs ==
  {Book(title, <<intro, setup>>, (intro :> Plain) @@ (setup :> Illustrated), (figure :> sha)),
   Book(title2, <<setup, intro>>, (intro :> Null) @@ (setup :> Illustrated), (figure :> sha2))}

\* One chapter, two versions and one without the chapter.
PageDirs ==
  {Book(title, <<intro>>, (intro :> Plain), <<>>),
   Book(title, <<intro>>, (intro :> Edited), <<>>),
   Book(title2, <<>>, (intro :> Null), <<>>)}

Symmetry == Permutations(Workers)
=============================================================================
