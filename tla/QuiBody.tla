------------------------------ MODULE QuiBody ------------------------------
(***************************************************************************)
(* The body pane of qui (qui/src/body.rs): a sidebar of two sections and a *)
(* strip of tabs, as operators on a record.  Cursors and tab positions     *)
(* count from 1; tab = 0 is the code's None.  In an empty section the      *)
(* cursor stays at 1, on nothing.  n[s] is the number of entries of        *)
(* section s.                                                              *)
(***************************************************************************)
EXTENDS Naturals, Sequences, SequencesExt, Selection

Other(s) == IF s = "entities" THEN "views" ELSE "entities"

Welcome == [kind |-> "welcome", entry |-> 1]
Category(i) == [kind |-> "category", entry |-> i]
ViewTab(i) == [kind |-> "view", entry |-> i]

Blank == [ tabs |-> << >>, tab |-> 0, focus |-> "sidebar", section |-> "entities",
           cursor |-> [s \in {"entities", "views"} |-> 1] ]

ResetForNewProgram(b) == [Blank EXCEPT !.tabs = << Welcome >>, !.tab = 1]

ToggleFocus(b) == [b EXCEPT !.focus = IF @ = "sidebar" THEN "tab" ELSE "sidebar"]

EnterSection(b, s, atTop, n) ==
  [b EXCEPT !.section = s,
            !.cursor[s] = IF atTop \/ n[s] = 0 THEN 1 ELSE n[s]]

\* tab and shift-tab: with two sections, forward and backward are the same.
HandleTab(b, n) ==
  IF b.focus = "sidebar" /\ n[Other(b.section)] > 0
  THEN EnterSection(b, Other(b.section), TRUE, n)
  ELSE b

PutCursor(b, i) == [b EXCEPT !.cursor[b.section] = i]

MoveUp(b, n) ==
  IF b.focus = "sidebar" /\ b.cursor[b.section] > 1
  THEN PutCursor(b, b.cursor[b.section] - 1)
  ELSE IF b.focus = "sidebar" /\ b.section = "views" /\ n["entities"] > 0
       THEN EnterSection(b, "entities", FALSE, n)
       ELSE b

MoveDown(b, n) ==
  IF b.focus = "sidebar" /\ b.cursor[b.section] < n[b.section]
  THEN PutCursor(b, b.cursor[b.section] + 1)
  ELSE IF b.focus = "sidebar" /\ b.section = "entities" /\ n["views"] > 0
       THEN EnterSection(b, "views", TRUE, n)
       ELSE b

CycleTab(b, forward) ==
  LET k == Len(b.tabs)
      cur == IF b.tab = 0 THEN 1 ELSE b.tab
  IN  IF k <= 1 THEN b
      ELSE [b EXCEPT !.tab = IF forward THEN (cur % k) + 1 ELSE ((cur + k - 2) % k) + 1]

\* Mutant: the strip shrinks and the position stays.
CloseTabInPlace(b) ==
  IF b.tab \notin DOMAIN b.tabs THEN b
  ELSE [b EXCEPT !.tabs = RemoveAt(@, b.tab)]

CloseActiveTab(b) ==
  IF b.tab \notin DOMAIN b.tabs THEN b
  ELSE LET left == RemoveAt(b.tabs, b.tab)
       IN  [b EXCEPT !.tabs = left,
                     !.tab = IF @ > Len(left) THEN Len(left) ELSE @,
                     !.focus = IF left = << >> THEN "sidebar" ELSE @]

\* Mutant: what is open already is opened again.
OpenTabAlways(b, t) ==
  LET tabs == Append(Only(b.tabs, Range(b.tabs) \ {Welcome}), t)
  IN  [b EXCEPT !.tabs = tabs, !.tab = Len(tabs), !.focus = "tab"]

OpenTab(b, t) ==
  LET kept == Only(b.tabs, Range(b.tabs) \ {Welcome})
      tabs == IF \E i \in DOMAIN kept : kept[i] = t THEN kept ELSE Append(kept, t)
  IN  [b EXCEPT !.tabs = tabs,
                !.tab = CHOOSE i \in DOMAIN tabs : tabs[i] = t,
                !.focus = "tab"]

LaunchUnderCursor(b, n) ==
  LET i == b.cursor[b.section]
  IN  IF i > n[b.section] THEN b
      ELSE OpenTab(b, IF b.section = "entities" THEN Category(i) ELSE ViewTab(i))
=============================================================================
