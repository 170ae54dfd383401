---------------------------- MODULE AtomicStore ----------------------------
(***************************************************************************)
(* What quod's program store promises the people who share a checkout:     *)
(* every invocation of the command line takes effect on program.json at    *)
(* one instant, or not at all.  An edit that is not legal in the program   *)
(* of that instant is refused and changes nothing, and so does one that    *)
(* the disk has no room for; a reader sees the whole program of one        *)
(* instant; a killed invocation has either happened or not.                *)
(*                                                                         *)
(* ProgramStore is shown to implement this module.                         *)
(***************************************************************************)
EXTENDS ProgramEdits

CONSTANTS
    Writers,        \* invocations that edit the program
    Readers,        \* invocations that only load it
    NoProgram,      \* a reader that has been given nothing yet
    NoOp            \* no edit chosen yet

VARIABLES
    store,          \* the program of this instant
    asked,          \* asked[p]: the edit p was invoked with
    fate,           \* fate[p]: "none", "ok", "error", "full" or "killed"
    seen            \* seen[p]: the program reader p was given

vars == <<store, asked, fate, seen>>

Init == /\ store \in ValidPrograms
        /\ asked = [p \in Writers \cup Readers |-> NoOp]
        /\ fate = [p \in Writers \cup Readers |-> "none"]
        /\ seen = [p \in Writers \cup Readers |-> NoProgram]

Ask(p) == /\ p \in Writers
          /\ asked[p] = NoOp
          /\ \E o \in [kind : EditKinds, node : Node] : asked' = [asked EXCEPT ![p] = o]
          /\ UNCHANGED <<store, fate, seen>>

Perform(p) == /\ p \in Writers
              /\ asked[p] # NoOp
              /\ fate[p] = "none"
              /\ Legal(asked[p], store)
              /\ store' = Apply(asked[p], store)
              /\ fate' = [fate EXCEPT ![p] = "ok"]
              /\ UNCHANGED <<asked, seen>>

Refuse(p) == /\ p \in Writers
             /\ asked[p] # NoOp
             /\ fate[p] = "none"
             /\ ~Legal(asked[p], store)
             /\ fate' = [fate EXCEPT ![p] = "error"]
             /\ UNCHANGED <<store, asked, seen>>

Fail(p) == /\ p \in Writers
           /\ asked[p] # NoOp
           /\ fate[p] = "none"
           /\ Legal(asked[p], store)
           /\ fate' = [fate EXCEPT ![p] = "full"]
           /\ UNCHANGED <<store, asked, seen>>

Look(p) == /\ p \in Readers
           /\ fate[p] = "none"
           /\ seen[p] = NoProgram
           /\ seen' = [seen EXCEPT ![p] = store]
           /\ UNCHANGED <<store, asked, fate>>

Answer(p) == /\ p \in Readers
             /\ fate[p] = "none"
             /\ seen[p] # NoProgram
             /\ fate' = [fate EXCEPT ![p] = "ok"]
             /\ UNCHANGED <<store, asked, seen>>

Kill(p) == /\ fate[p] = "none"
           /\ fate' = [fate EXCEPT ![p] = "killed"]
           /\ UNCHANGED <<store, asked, seen>>

Next == \E p \in Writers \cup Readers :
            \/ Ask(p) \/ Perform(p) \/ Refuse(p) \/ Fail(p)
            \/ Look(p) \/ Answer(p) \/ Kill(p)

Spec == Init /\ [][Next]_vars
=============================================================================
