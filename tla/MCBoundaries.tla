---------------------------- MODULE MCBoundaries ----------------------------
(***************************************************************************)
(* What comes in and what goes out: a request on its way to a call, or the *)
(* builds of the offline bundle (`part`), which share no state.  One       *)
(* wording of every pattern that the properties of the request tell apart; *)
(* two builders, and the builds that tell the most apart: two for the      *)
(* owner's machine only, with and without reference recordings, one to be  *)
(* passed on, and one that the gate refuses.                               *)
(***************************************************************************)
EXTENDS RequestReader, OfflineBundle, TLC

MCForm ==
    {"cancel reminder 1", "please cancel reminder 1", "complete reminder 1", "delete reminder 1",
     "delete all reminders", "clear reminders", "remind me in 10 minutes", "to-do in 10 minutes",
     "remind me", "set to-do 1 high", "set to-do 1 completed", "set to-do 1 blue",
     "complete to-do 1", "finish to-do 1", "delete to-do 1", "remove to-do 1", "cancel to-do 1",
     "complete to-do by title", "add to-do", "show completed to-dos", "cancel schedule 1",
     "delete schedule 1", "cancel schedule by title", "schedule tomorrow at 9",
     "schedule every Monday at 9", "schedule weekly at 9", "book a room", "today's schedule",
     "summarize: ...", "formal tone: ...", "polish: ...", "summarize: adjust the tone",
     "adjust the tone", "in the knowledge base?", "open a file", "open the weekly summary",
     "minutes of a file", "show reminders", "show to-dos", "translate", "hello"}

MCKind ==
    {[mode |-> "local-validation", cleared |-> FALSE, voices |-> TRUE],
     [mode |-> "local-validation", cleared |-> FALSE, voices |-> FALSE],
     [mode |-> "distributable", cleared |-> TRUE, voices |-> FALSE],
     [mode |-> "distributable", cleared |-> TRUE, voices |-> TRUE]}

Interchangeable == Permutations(Builder)

VARIABLE part

vars == <<part, readerVars, bundleVars>>

\* A part that rests starts in one of its initial states only.
Init ==
    /\ part \in {"request", "bundle"}
    /\ ReaderInit /\ (part # "request" => form = "hello")
    /\ BundleInit /\ (part # "bundle" =>
        bundle = Whole(1) /\ built[1].kind = CHOOSE kind \in Kind : MayBuild(kind))

Turn(p, action) == part = p /\ action /\ UNCHANGED part

Next ==
    \/ Turn("request", ReaderNext) /\ UNCHANGED bundleVars
    \/ Turn("bundle", BundleNext) /\ UNCHANGED readerVars

Spec == Init /\ [][Next]_vars
=============================================================================
