--------------------------- MODULE MCBrowserSearch ---------------------------
(* A tab opened without parameters or at a search in a filtered list.      *)
EXTENDS BrowserSearch

\* Two pages of everything, one of what all the selected tags are on.
PagesOfScope(q, tags, m) == IF tags = {} \/ m = "or" THEN 2 ELSE 1

Plain == [q |-> "", tags |-> {}, mode |-> "and", page |-> 1]
Shared == [q |-> "rust", tags |-> Tags, mode |-> "or", page |-> 2]
PlainAndShared == {Plain, Shared}
=============================================================================
