-------------------------- MODULE InstanceWorklist --------------------------
(***************************************************************************)
(* What the worklist of monomorphize() promises.  The program mentions     *)
(* some instances of generic templates (the seeds), and building one       *)
(* instance mentions others.  The pass builds instances one at a time, in  *)
(* any order, and may refuse the program on the way.  When it ends without *)
(* a refusal it has built the least set of instances that holds the seeds  *)
(* and everything its members mention: the order is not visible in it.     *)
(***************************************************************************)
CONSTANT Instance

VARIABLES seeds, mentions, todo, known, built, verdict

vars == <<seeds, mentions, todo, known, built, verdict>>

Init ==
    /\ seeds \in SUBSET Instance
    /\ mentions \in [Instance -> SUBSET Instance]
    /\ todo = seeds
    /\ known = seeds
    /\ built = {}
    /\ verdict = "running"

\* One instance is built; what it mentions for the first time is queued.
Build(k) ==
    /\ verdict = "running"
    /\ k \in todo
    /\ built' = built \cup {k}
    /\ known' = known \cup mentions[k]
    /\ todo' = (todo \ {k}) \cup (mentions[k] \ known)
    /\ UNCHANGED <<seeds, mentions, verdict>>

Refuse ==
    /\ verdict = "running"
    /\ verdict' = "refused"
    /\ UNCHANGED <<seeds, mentions, todo, known, built>>

Finish ==
    /\ verdict = "running"
    /\ todo = {}
    /\ verdict' = "built"
    /\ UNCHANGED <<seeds, mentions, todo, known, built>>

Next == (\E k \in Instance : Build(k)) \/ Refuse \/ Finish

Spec == Init /\ [][Next]_vars

-----------------------------------------------------------------------------
Closed(S) == \A k \in S : mentions[k] \subseteq S

\* The result is the least closed set over the seeds: nothing that is
\* mentioned is missing, nothing is built that nobody mentions, and so the
\* result is the same whatever order the worklist was served in.
Least ==
    verdict = "built" =>
        /\ seeds \subseteq built
        /\ Closed(built)
        /\ \A C \in SUBSET Instance : seeds \subseteq C /\ Closed(C) => built \subseteq C

TypeOK ==
    /\ seeds \in SUBSET Instance
    /\ mentions \in [Instance -> SUBSET Instance]
    /\ todo \in SUBSET Instance
    /\ known \in SUBSET Instance
    /\ built \in SUBSET Instance
    /\ verdict \in {"running", "refused", "built"}

\* What is known is waiting or built, what is built has had its mentions
\* noted, and nothing is known that every closed set over the seeds lacks.
Progress ==
    /\ known = todo \cup built
    /\ seeds \subseteq known
    /\ \A k \in built : mentions[k] \subseteq known
    /\ \A C \in SUBSET Instance : seeds \subseteq C /\ Closed(C) => known \subseteq C
    /\ verdict = "built" => todo = {}

=============================================================================
