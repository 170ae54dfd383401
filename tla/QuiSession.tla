---------------------------- MODULE QuiSession ----------------------------
(***************************************************************************)
(* The main loop of qui (qui/src/main.rs) and the server it drives: one    *)
(* key is handled, then the screen is drawn, and drawing fetches the lift  *)
(* trace of the tab on show.  The client waits for every answer, so a      *)
(* handler with all its requests is one step; the server can die between   *)
(* any two of them, project and program files change under both.           *)
(*                                                                         *)
(* Left out: messages shown inside a modal, the list of recent anchors,    *)
(* the browsing inside the open modal (what the user picks there is any    *)
(* path), columns, colours and scrolling.                                  *)
(***************************************************************************)
EXTENDS QuodLsp, QuiBody

CONSTANTS
  Sessions,    \* the lists of paths qui is started with
  Tomls,       \* what the project file of a root can hold
  Contents,    \* what a program file can hold
  Filters,     \* what typing into the picker can match: sets of labels
  MaxEdits     \* bound: changes of files during a session

Picker == INSTANCE QuiPicker

Views == {"c", "bin"}
NoTrace == [v \in Views |-> None]
NoOverlay == [kind |-> "none"]

\* The names a project file can give its programs, the programs the server can have active, and
\* the rows of the picker that can be chosen.
Names == UNION { {t.specs[i].name : i \in DOMAIN t.specs} :
                 t \in {t \in UNION Range(Tomls) : t.specs # None} }
ServerPrograms == [root : Roots \cup {None}, label : Names \cup Files, content : Contents]
SelectableRows == [kind : {"selectable"}, label : Names \cup Files, group : Nat, data : Nat]

ASSUME SessionAssumption ==
  /\ Sessions \subseteq Seq(Roots \cup Files)
  /\ Contents \subseteq [cats : Nat, views : Seq(Views), rows : [Views -> Nat]]
  /\ DOMAIN Tomls = Roots
  /\ MaxEdits \in Nat
  /\ \A r \in Roots : \A t \in Tomls[r] : t.specs # None => t.specs \in Seq([name : Names, file : Files])
  /\ None \notin Roots \cup ServerPrograms \cup SelectableRows

VARIABLES
  app,      \* the App: server, workspace, programs, active, entities, views, body, overlay, trace
  disk,     \* content of the program files
  tomls,    \* content of the project files
  edits,
  phase     \* where the loop is: "draw", "key" (waiting for one), "quit"

vars == << app, disk, tomls, edits, phase >>

NewApp ==
  [ server |-> Started, workspace |-> << >>, programs |-> << >>, active |-> None,
    entities |-> 0, views |-> << >>, body |-> Blank, overlay |-> NoOverlay, trace |-> NoTrace ]

Anchors(workspace, kind) == Only(workspace, {x \in Range(workspace) : x.kind = kind})
InWorkspace(a, anchor) == \E i \in DOMAIN a.workspace : a.workspace[i] = anchor
Anchor(path) == [kind |-> IF path \in Roots THEN "project" ELSE "program", path |-> path]

(***************************************************************************)
(* Results of requests: the App after it and whether it succeeded.         *)
(***************************************************************************)
Done(a) == [ok |-> TRUE, app |-> a]
Failed(a) == [ok |-> FALSE, app |-> a]

\* Mutant: the traces survive a change of program.
FinalizeKeepingTraces(a, s) ==
  [a EXCEPT !.server = s,
            !.active = [root |-> s.active.root, label |-> s.active.label],
            !.entities = Outline(s),
            !.views = Shape(s),
            !.body = ResetForNewProgram(@)]

\* finalize_set_active: what is shown is fetched anew, nothing of the last program stays.
FinalizeSetActive(a, s) ==
  [a EXCEPT !.server = s,
            !.active = [root |-> s.active.root, label |-> s.active.label],
            !.entities = Outline(s),
            !.views = Shape(s),
            !.body = ResetForNewProgram(@),
            !.trace = NoTrace]

\* What picking a row activates: a program reached through a project or a standalone file.
Routed(i) == [kind |-> "routed", at |-> i]
Standalone(f) == [kind |-> "standalone", at |-> f]

SetActive(a, sel) ==
  LET s == a.server
      entry == a.programs[sel.at]
      file == IF sel.kind = "routed" THEN SpecFile(s, entry.root, entry.name) ELSE sel.at
      answer == IF sel.kind = "routed" THEN SetActiveRouted(s, entry.root, entry.name, disk)
                ELSE SetActiveStandalone(s, sel.at, disk)
  IN  IF s.up /\ file # None /\ disk[file] # None
      THEN Done(FinalizeSetActive(a, answer))
      ELSE Failed(a)

\* maybe_auto_select: the only program there is becomes active by itself.
MaybeAutoSelect(a) ==
  LET files == Anchors(a.workspace, "program")
  IN  IF a.active # None \/ Len(a.programs) + Len(files) # 1 THEN Failed(a)
      ELSE SetActive(a, IF files = << >> THEN Routed(1) ELSE Standalone(files[1].path))

\* add_anchor: the server hears of a project before the workspace looks for duplicates.
AddAnchor(a, anchor) ==
  LET s == AddProject(a.server, anchor.path, tomls)
      told == IF anchor.kind = "project"
              THEN [a EXCEPT !.server = s, !.programs = ProgramsPayload(s)]
              ELSE a
  IN  CASE anchor.kind = "project" /\ ~a.server.up -> Failed(a)
        [] (anchor.kind = "project" => a.server.up) /\ InWorkspace(a, anchor) -> Failed(told)
        [] OTHER -> Done([told EXCEPT !.workspace = Append(@, anchor)])

\* Mutant: the active program outlives its anchor.
RemoveAnchorOnly(a, anchor) ==
  LET s == RemoveProject(a.server, anchor.path)
      told == IF anchor.kind = "project"
              THEN [a EXCEPT !.server = s, !.programs = ProgramsPayload(s)]
              ELSE a
  IN  IF anchor.kind = "project" /\ ~a.server.up THEN Failed(a)
      ELSE Done([told EXCEPT !.workspace = Only(@, Range(@) \ {anchor})])

RemoveAnchor(a, anchor) ==
  LET s == RemoveProject(a.server, anchor.path)
      told == IF anchor.kind = "project"
              THEN [a EXCEPT !.server = s, !.programs = ProgramsPayload(s)]
              ELSE a
      gone == /\ a.active # None
              /\ \/ anchor.kind = "project" /\ a.active.root = anchor.path
                 \/ anchor.kind = "program" /\ a.active.root = None /\ a.active.label = anchor.path
  IN  IF anchor.kind = "project" /\ ~a.server.up THEN Failed(a)
      ELSE Done([told EXCEPT !.active = IF gone THEN None ELSE @,
                             !.workspace = Only(@, Range(@) \ {anchor})])

(***************************************************************************)
(* The program picker: a header and its programs per project, then the     *)
(* standalone files; a row's data points into the list of selectables,     *)
(* which is built again when a row is chosen.                              *)
(***************************************************************************)
ProgramsOf(programs, root) ==
  LET own == Only([i \in DOMAIN programs |-> i],
                  {i \in DOMAIN programs : programs[i].root = root})
  IN  [k \in DOMAIN own |-> Routed(own[k])]

Label(programs, sel) == IF sel.kind = "routed" THEN programs[sel.at].name ELSE sel.at

\* The rows and selectables of one anchor are put after those there are.
AddRows(built, anchor, programs) ==
  LET project == anchor.kind = "project"
      at == Len(built.items) + 1
      own == IF project THEN ProgramsOf(programs, anchor.path) ELSE << Standalone(anchor.path) >>
      head == IF project THEN << Picker!Header(anchor.path, at) >> ELSE << >>
      rows == [i \in DOMAIN own |->
                 Picker!Selectable(Label(programs, own[i]), at, Len(built.sels) + i)]
  IN  [ items |-> built.items \o head \o (IF own = << >> THEN << Picker!Placeholder(at) >> ELSE rows),
        sels |-> built.sels \o own ]

Rows(programs, workspace) ==
  LET anchors == Anchors(workspace, "project") \o Anchors(workspace, "program")
      built[k \in 0 .. Len(anchors)] == IF k = 0 THEN [items |-> << >>, sels |-> << >>]
                          ELSE AddRows(built[k - 1], anchors[k], programs)
  IN  built[Len(anchors)]

BuildProgramItems(a) == Rows(a.programs, a.workspace)

\* What choosing a row activates, None for a header or a placeholder.
Resolve(a, row) ==
  LET sels == BuildProgramItems(a).sels
  IN  IF row # None /\ row.data \in DOMAIN sels THEN sels[row.data] ELSE None

IsActive(a, sel) ==
  /\ a.active # None
  /\ IF sel.kind = "routed"
     THEN a.active = [root |-> a.programs[sel.at].root, label |-> a.programs[sel.at].name]
     ELSE a.active = [root |-> None, label |-> sel.at]

\* The position of the row of the active program, 0 when there is none.
ActiveItem(a) ==
  LET built == BuildProgramItems(a)
      rows == {i \in DOMAIN built.items :
                 built.items[i].data > 0 /\ IsActive(a, built.sels[built.items[i].data])}
  IN  IF rows = {} THEN 0 ELSE CHOOSE i \in rows : \A j \in rows : i <= j

OpenPicker(a) ==
  [a EXCEPT !.overlay = Picker!NewPicker(BuildProgramItems(a).items, ActiveItem(a))]

\* Mutant: the picker keeps the rows it was opened with.
RefreshPickerLazily(a) == a

RefreshPicker(a) ==
  [a EXCEPT !.overlay = Picker!Refresh(@, BuildProgramItems(a).items, ActiveItem(a))]

Owner(a, sel) ==
  IF sel.kind = "routed" THEN Anchor(a.programs[sel.at].root) ELSE Anchor(sel.at)

(***************************************************************************)
(* Drawing.  A tab that shows a view fetches its trace when it has none,   *)
(* whatever overlay is open; a refused request raises the error modal.     *)
(***************************************************************************)
\* Mutant: the picker is reopened only for an empty workspace.
EnsureSomeAnchor(a) == IF a.workspace = << >> /\ a.overlay.kind = "none" THEN OpenPicker(a) ELSE a

EnsureNoDeadEnd(a) == IF a.active = None /\ a.overlay.kind = "none" THEN OpenPicker(a) ELSE a

\* The view on show, None for another tab or no tab.
ShownView(a) ==
  IF a.body.tab \in DOMAIN a.body.tabs /\ a.body.tabs[a.body.tab].kind = "view"
  THEN a.views[a.body.tabs[a.body.tab].entry]
  ELSE None

EnsureTrace(a) ==
  LET v == ShownView(a)
      rows == TraceRows(a.server, v)
  IN  CASE a.active = None \/ v = None -> a
        [] a.active # None /\ v # None /\ a.trace[v] # None -> a
        [] a.active # None /\ v # None /\ a.trace[v] = None /\ a.server.up /\ rows > 0
             -> [a EXCEPT !.trace[v] = [of |-> a.server.active, rows |-> rows - 1, cursor |-> 1]]
        [] OTHER -> [a EXCEPT !.overlay = [kind |-> "error"]]

Draw ==
  /\ phase = "draw"
  /\ app' = EnsureTrace(EnsureNoDeadEnd(app))
  /\ phase' = "key"
  /\ UNCHANGED << disk, tomls, edits >>

(***************************************************************************)
(* Keys.  In the main view they move the body; with an overlay open they   *)
(* go to it, but for the four chords that work everywhere.                 *)
(***************************************************************************)
Handle(a) ==
  /\ phase = "key"
  /\ app' = a /\ phase' = "draw"
  /\ UNCHANGED << disk, tomls, edits >>

Entries(a) == [entities |-> a.entities, views |-> Len(a.views)]

\* The trace the arrow keys move in: the view on show when the tab has the focus.
Moving(a) == IF a.body.focus = "tab" THEN ShownView(a) ELSE None

BodyUp(a) ==
  IF Moving(a) # None
  THEN IF a.trace[Moving(a)] # None /\ a.trace[Moving(a)].cursor > 1
       THEN [a EXCEPT !.trace[Moving(a)].cursor = @ - 1] ELSE a
  ELSE [a EXCEPT !.body = MoveUp(@, Entries(a))]

BodyDown(a) ==
  IF Moving(a) # None
  THEN IF a.trace[Moving(a)] # None /\ a.trace[Moving(a)].cursor < a.trace[Moving(a)].rows
       THEN [a EXCEPT !.trace[Moving(a)].cursor = @ + 1] ELSE a
  ELSE [a EXCEPT !.body = MoveDown(@, Entries(a))]

MainView ==
  /\ app.overlay.kind = "none"
  /\ \/ Handle([app EXCEPT !.overlay = [kind |-> "help"]])
     \/ Handle([app EXCEPT !.body = ToggleFocus(@)])
     \/ \E forward \in BOOLEAN :
          Handle([app EXCEPT !.body = CycleTab(@, forward)])
     \/ Handle([app EXCEPT !.body = CloseActiveTab(@)])
     \/ Handle([app EXCEPT !.body = HandleTab(@, Entries(app))])
     \/ Handle([app EXCEPT !.body = LaunchUnderCursor(@, Entries(app))])
     \/ Handle(BodyUp(app))
     \/ Handle(BodyDown(app))

\* ctrl-p and ctrl-o, from the main view and from any overlay.
OpenOverlay ==
  \/ Handle(OpenPicker(app))
  \/ Handle([app EXCEPT !.overlay = [kind |-> "open"]])

\* ctrl-c closes any overlay, esc too, and ? the help.
Dismiss ==
  /\ app.overlay.kind # "none"
  /\ Handle([app EXCEPT !.overlay = NoOverlay])

PickerMoves ==
  /\ app.overlay.kind = "picker"
  /\ \/ Handle([app EXCEPT !.overlay = Picker!PickerUp(@)])
     \/ Handle([app EXCEPT !.overlay = Picker!PickerDown(@)])
     \/ \E input \in Filters \cup {None} :
          Handle([app EXCEPT !.overlay = Picker!Typed(@, input)])

\* A failure stays in the picker.
PickProgram ==
  /\ app.overlay.kind = "picker"
  /\ LET sel == Resolve(app, Picker!Chosen(app.overlay))
         result == SetActive(app, sel)
     IN  /\ sel # None
         /\ Handle(IF result.ok THEN [result.app EXCEPT !.overlay = NoOverlay] ELSE app)

RemoveOwning ==
  /\ app.overlay.kind = "picker"
  /\ LET sel == Resolve(app, Picker!Chosen(app.overlay))
         removed == RemoveAnchor(app, Owner(app, sel))
     IN  /\ sel # None
         /\ Handle(IF removed.ok THEN RefreshPicker(MaybeAutoSelect(removed.app).app)
                             ELSE app)

\* The path picked in the open modal: classify wants a named project or an existing file.
OpenPath ==
  /\ app.overlay.kind = "open"
  /\ \E path \in Roots \cup Files :
       LET added == AddAnchor(app, Anchor(path))
           closed == [added.app EXCEPT !.overlay = NoOverlay]
           auto == MaybeAutoSelect(closed)
       IN  /\ path \in Roots => tomls[path].named
           /\ Handle(IF ~added.ok THEN added.app
                              ELSE IF auto.ok THEN auto.app ELSE OpenPicker(closed))

\* The loop ends, teardown shuts the server down.
Quit ==
  /\ phase = "key"
  /\ phase' = "quit" /\ app' = NewApp
  /\ UNCHANGED << disk, tomls, edits >>

\* Nothing was pressed for a while: the screen is drawn again.
Idle == Handle(app)

(***************************************************************************)
(* The world.                                                              *)
(***************************************************************************)
ServerDies ==
  /\ phase # "quit" /\ app.server.up
  /\ app' = [app EXCEPT !.server.up = FALSE]
  /\ UNCHANGED << disk, tomls, edits, phase >>

FilesChange ==
  /\ phase = "key" /\ edits < MaxEdits /\ edits' = edits + 1
  /\ \/ \E f \in Files, c \in Contents \cup {None} : disk' = [disk EXCEPT ![f] = c] /\ UNCHANGED tomls
     \/ \E r \in Roots : \E t \in Tomls[r] : tomls' = [tomls EXCEPT ![r] = t] /\ UNCHANGED disk
  /\ UNCHANGED << app, phase >>

(***************************************************************************)
(* bootstrap: the paths on the command line are added one by one; a path   *)
(* that is refused ends the program before the loop.                       *)
(***************************************************************************)
Bootstrap(args) ==
  LET added[k \in 0 .. Len(args)] ==
        IF k = 0 THEN Done(NewApp)
        ELSE IF added[k - 1].ok /\ (args[k] \in Roots => tomls[args[k]].named)
             THEN AddAnchor(added[k - 1].app, Anchor(args[k]))
             ELSE Failed(added[k - 1].app)
  IN  added[Len(args)]

Init ==
  /\ disk \in [Files -> Contents] 
  /\ tomls \in {t \in [Roots -> UNION Range(Tomls)] : \A r \in Roots : t[r] \in Tomls[r]}
  /\ \E args \in Sessions :
       /\ Bootstrap(args).ok
       /\ app = MaybeAutoSelect(Bootstrap(args).app).app
  /\ edits = 0 /\ phase = "draw"

Next ==
  \/ Draw \/ MainView \/ OpenOverlay \/ Dismiss \/ PickerMoves \/ PickProgram \/ RemoveOwning
  \/ OpenPath \/ Quit \/ Idle \/ ServerDies \/ FilesChange

Spec == Init /\ [][Next]_vars

(***************************************************************************)
(* Properties.                                                             *)
(***************************************************************************)
\* The shape of the state; a tab and a cursor never point past the end, and it is an empty strip
\* that has no active tab.  Nothing is said of the focus: toggle_focus() also gives it to a strip
\* without tabs, and closing a tab leaves it there while others remain.
TypeOK ==
  /\ phase \in {"draw", "key", "quit"} /\ edits \in 0 .. MaxEdits
  /\ app.overlay.kind \in {"none", "picker", "open", "help", "error"}
  /\ app.body.tab \in DOMAIN app.body.tabs \cup {0}
  /\ app.body.tab = 0 <=> app.body.tabs = << >>
  /\ \A s \in {"entities", "views"} :
       app.body.cursor[s] = 1 \/ app.body.cursor[s] <= Entries(app)[s]
  /\ \A v \in Views : app.trace[v] # None => app.trace[v].cursor \in 1 .. app.trace[v].rows \cup {1}

\* Every tab leads to something the active program has, and no two lead to the same: tabs hold
\* positions in lists that a change of program replaces.
TabsFit ==
  /\ \A i \in DOMAIN app.body.tabs :
       LET t == app.body.tabs[i] IN
       /\ t.kind = "category" => t.entry <= app.entities
       /\ t.kind = "view" => t.entry <= Len(app.views)
  /\ IsInjective(app.body.tabs)

\* What is on the screen belongs to the active program: while the server lives, the program it
\* answers about is the one the status bar names, its outline is the sidebar and the fetched
\* traces are its.
ShowsTheActiveProgram ==
  app.active # None =>
    /\ \A v \in Views : app.trace[v] # None =>
         [root |-> app.trace[v].of.root, label |-> app.trace[v].of.label] = app.active
    /\ app.server.up =>
         /\ app.server.active # None
         /\ app.active = [root |-> app.server.active.root, label |-> app.server.active.label]
         /\ app.entities = Outline(app.server) /\ app.views = Shape(app.server)
         /\ \A v \in Views : app.trace[v] # None => app.trace[v].of = app.server.active

\* The active program was reached through an anchor of the workspace.
ActiveIsAnchored ==
  app.active # None =>
    InWorkspace(app, IF app.active.root = None
                     THEN [kind |-> "program", path |-> app.active.label]
                     ELSE [kind |-> "project", path |-> app.active.root])

\* The rows of an open picker are those its keys resolve against, so enter activates, and
\* ctrl-x removes, what is under the cursor; and the cursor is on a row that can be chosen when
\* the filter leaves one.
PickerInSync ==
  app.overlay.kind = "picker" =>
    LET rows == Picker!Filtered(app.overlay.items, app.overlay.input) IN
    /\ app.overlay.items = BuildProgramItems(app).items
    /\ (\E i \in DOMAIN rows : app.overlay.items[rows[i]].kind = "selectable")
         => Picker!Chosen(app.overlay) # None

\* The main view never waits for a key without an active program.
NoDeadEnd == phase = "key" /\ app.overlay.kind = "none" => app.active # None
=============================================================================
