----------------------------- MODULE MCTodoDay -----------------------------
(***************************************************************************)
(* Instances of TodoDay for TLC.                                           *)
(***************************************************************************)
EXTENDS TodoDay

H(period) == [heading |-> period]
B(indent) == [indent |-> indent]

\* Two siblings; and an outline in which a later heading returns to the first
\* period and goes on below what it had.
Short == <<H("morning"), B(0), B(0)>>
Long == <<B(0), H("morning"), B(2), B(4), H("bedtime"), B(0), H(Null), B(0),
          H("morning"), B(6)>>

Body(text, items, zone, at) == [text |-> text, items |-> items, zone |-> zone, at |-> at]
Outline(text, zone, at) == Body(text, ParseChecklistMarkdown(text), zone, at)

Item(parent, period) == [parent |-> parent, period |-> period]

\* The page's bodies, and bodies only another client would send: no items, a
\* cycle beside a root, a parent in the other period.
SomeBodies ==
  {Outline(Short, 0, 1), Outline(Long, 1, 0),
   Body(Null, <<>>, 0, 0),
   Body(Null, <<Item(0, "morning"), Item(3, "morning"), Item(2, "morning")>>, 0, 0),
   Body(Null, <<Item(0, "morning"), Item(1, "bedtime")>>, 0, 0)}
=============================================================================
