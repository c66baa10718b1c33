----------------------------- MODULE ModelService -----------------------------
(***************************************************************************)
(* What the callers of the model gateway rely on: a request is over once   *)
(* and for all, no model is reached for a request that is over, and the    *)
(* remote fallback is reached only for data of an open level.              *)
(***************************************************************************)
CONSTANTS Request, Level, OpenLevel

VARIABLES status, level, reached

vars == <<status, level, reached>>

Init ==
    /\ status = [r \in Request |-> "idle"]
    /\ level = [r \in Request |-> "none"]
    /\ reached = [r \in Request |-> {}]

Ask(r, l) ==
    /\ status[r] = "idle"
    /\ status' = [status EXCEPT ![r] = "asking"]
    /\ level' = [level EXCEPT ![r] = l]
    /\ UNCHANGED reached

Reach(r, place) ==
    /\ status[r] = "asking"
    /\ place = "fallback" => level[r] \in OpenLevel
    /\ reached' = [reached EXCEPT ![r] = @ \cup {place}]
    /\ UNCHANGED <<status, level>>

End(r) ==
    /\ status[r] = "asking"
    /\ \E s \in {"answered", "failed"} : status' = [status EXCEPT ![r] = s]
    /\ UNCHANGED <<level, reached>>

Next == \E r \in Request :
    \/ \E l \in Level \cup {"none"} : Ask(r, l)
    \/ \E place \in {"primary", "fallback"} : Reach(r, place)
    \/ End(r)

Spec == Init /\ [][Next]_vars
===============================================================================
