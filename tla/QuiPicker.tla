----------------------------- MODULE QuiPicker -----------------------------
(***************************************************************************)
(* The list overlay of qui (qui/src/picker.rs): rows of three kinds, a     *)
(* filter, and a cursor into the filtered rows.  What the user has typed   *)
(* is abstracted to the set of labels it matches; None is the empty        *)
(* filter.  Cursors count from 1; with no row left the cursor is 1.        *)
(***************************************************************************)
EXTENDS Naturals, Sequences, Selection

CONSTANT None

Header(label, at) == [kind |-> "header", label |-> label, group |-> at, data |-> 0]
Selectable(label, group, data) ==
  [kind |-> "selectable", label |-> label, group |-> group, data |-> data]
Placeholder(group) == [kind |-> "placeholder", label |-> None, group |-> group, data |-> 0]

\* The positions in items of the rows the filter keeps, in their order.
Filtered(items, input) ==
  LET hit(it) == it.kind = "selectable" /\ it.label \in input
      kept(it) ==
        \/ input = None
        \/ input # None /\ hit(it)
        \/ /\ input # None /\ it.kind = "header"
           /\ \E j \in DOMAIN items : hit(items[j]) /\ items[j].group = it.group
  IN  Only([i \in DOMAIN items |-> i], {i \in DOMAIN items : kept(items[i])})

\* The selectable row nearest to `from` in one direction, else in the other.
Snap(p, from, forward) ==
  LET rows == Filtered(p.items, p.input)
      sel == {i \in DOMAIN rows : p.items[rows[i]].kind = "selectable"}
      start == IF from > Len(rows) THEN Len(rows) ELSE from
      above == {i \in sel : i <= start}
      below == {i \in sel : i >= start}
      first(S) == CHOOSE i \in S : \A j \in S : i <= j
      last(S) == CHOOSE i \in S : \A j \in S : j <= i
  IN  [p EXCEPT !.cursor =
         CASE sel = {} -> 1
           [] sel # {} /\ forward -> IF below # {} THEN first(below) ELSE last(above)
           [] sel # {} /\ ~forward -> IF above # {} THEN last(above) ELSE first(below)]

\* The cursor goes to the row of the active program when the filter shows it.
PlaceCursor(p, active) ==
  LET rows == Filtered(p.items, p.input)
      at == {i \in DOMAIN rows : rows[i] = active}
  IN  IF at = {} THEN Snap(p, 1, TRUE)
      ELSE [p EXCEPT !.cursor = CHOOSE i \in at : TRUE]

NewPicker(items, active) ==
  PlaceCursor([kind |-> "picker", items |-> items, input |-> None, cursor |-> 1], active)

Refresh(p, items, active) == PlaceCursor([p EXCEPT !.items = items], active)

PickerUp(p) == IF p.cursor > 1 THEN Snap(p, p.cursor - 1, FALSE) ELSE p
PickerDown(p) ==
  IF p.cursor < Len(Filtered(p.items, p.input)) THEN Snap(p, p.cursor + 1, TRUE) ELSE p

Typed(p, input) == Snap([p EXCEPT !.input = input], 1, TRUE)

\* The row under the cursor when it can be chosen, None otherwise.
Chosen(p) ==
  LET rows == Filtered(p.items, p.input)
  IN  IF p.cursor \in DOMAIN rows /\ p.items[rows[p.cursor]].kind = "selectable"
      THEN p.items[rows[p.cursor]]
      ELSE None
=============================================================================
