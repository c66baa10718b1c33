---------------------------- MODULE MCAgentCore ----------------------------
(***************************************************************************)
(* Two tasks over a handful of calls: a mutation that needs a confirmation,*)
(* the same tool with a field missing, and a knowledge question.           *)
(***************************************************************************)
EXTENDS AgentCore, TLC

CONSTANTS t1, t2, c1, c2

MCToolOf == [c \in Call |->
    CASE c \in {"remind", "wipe", "vague"} -> "reminder_create"
      [] c = "ask"  -> "knowledge_query"
      [] c = "chat" -> "general_chat"
      [] OTHER      -> c]

Symmetry == Permutations(Task) \cup Permutations(Confirmer)
=============================================================================
