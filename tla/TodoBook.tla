------------------------------- MODULE TodoBook -------------------------------
(***************************************************************************)
(* The to-do table.  Every action of the tool is one transaction under the *)
(* tool's lock; a deletion is confirmed by a user who was shown the title  *)
(* of the row with that ID.  What a row says beside its status (title,     *)
(* description, priority, tags, due time) is left out, so that an update of*)
(* those alone changes nothing here.                                       *)
(***************************************************************************)
EXTENDS Naturals

CONSTANTS MaxTodo  \* bound on the rows created

ASSUME TodoAssumption == MaxTodo \in Nat

Todo == 1..MaxTodo
TodoStatus == {"pending", "in_progress", "completed"}

VARIABLES
    todo,      \* status of each row, "none" before its creation and after its deletion
    stamped,   \* completed_at is set
    lastTodo,  \* sqlite_sequence: the greatest ID given so far
    issued     \* how often an ID was given to a new row (history)

todoVars == <<todo, stamped, lastTodo, issued>>

TodoInit ==
    /\ todo = [t \in Todo |-> "none"]
    /\ stamped = [t \in Todo |-> FALSE]
    /\ lastTodo = 0
    /\ issued = [t \in Todo |-> 0]

\* Mutant of NextId: one more than the greatest ID there is.
NextIdReused ==
    CHOOSE n \in 1..(MaxTodo + 1) :
        /\ \A t \in Todo : todo[t] # "none" => t < n
        /\ n = 1 \/ todo[n - 1] # "none"

\* AUTOINCREMENT: an ID is never given twice.
NextId == lastTodo + 1

\* A due time that does not parse asks for another one and creates nothing.
CreateTodo ==
    /\ NextId \in Todo
    /\ todo' = [todo EXCEPT ![NextId] = "pending"]
    /\ stamped' = [stamped EXCEPT ![NextId] = FALSE]
    /\ issued' = [issued EXCEPT ![NextId] = @ + 1]
    /\ lastTodo' = NextId

\* A status that the schema allows and the table's CHECK does not ("all") raises;
\* an update that names no status leaves both as they are.  It may change the
\* title, also between the question about a deletion and its confirmation.
UpdateTodo(t, s) ==
    /\ todo[t] # "none" /\ s \in TodoStatus
    /\ todo' = [todo EXCEPT ![t] = s]
    /\ stamped' = [stamped EXCEPT ![t] = (s = "completed")]
    /\ UNCHANGED <<lastTodo, issued>>

CompleteTodo(t) == UpdateTodo(t, "completed")

DeleteTodo(t) ==
    /\ todo[t] # "none"
    /\ todo' = [todo EXCEPT ![t] = "none"]
    /\ stamped' = [stamped EXCEPT ![t] = FALSE]
    /\ UNCHANGED <<lastTodo, issued>>

\* A query reads, and an ID that is not there is answered as not found.
ReadTodos == UNCHANGED todoVars

TodoTypeOK ==
    /\ todo \in [Todo -> TodoStatus \cup {"none"}]
    /\ stamped \in [Todo -> BOOLEAN]
    /\ lastTodo \in 0..MaxTodo
    /\ issued \in [Todo -> Nat]
===============================================================================
