------------------------------ MODULE TaskStream ------------------------------
(***************************************************************************)
(* How a page follows its task: TaskAPI's subscriptions (core/task_api.py),*)
(* the server-sent event stream of GET /tasks/{id}/events (api/routes.py)  *)
(* and the page's EventSource (static/app.js).                             *)
(*                                                                         *)
(* One task is followed by several pages.  A record of the task is told    *)
(* apart by its version, which every transition raises by one.             *)
(***************************************************************************)
EXTENDS Naturals, Sequences

CONSTANTS
    Page,           \* browser pages following the task
    Cap,            \* maxsize of a subscriber's queue, 20 in the code
    MaxVersion,     \* bound on the transitions of the task
    MaxDrops        \* bound on lost connections and server restarts

ASSUME CapAssumption ==
    /\ Cap \in Nat \ {0}
    /\ MaxVersion \in Nat \ {0}
    /\ MaxDrops \in Nat

VARIABLES
    version,        \* of the task's row
    end,            \* version of the terminal record, 0 while there is none
    response,          \* the server's side of each page's connection
    queue,          \* asyncio.Queue of each connection
    current,        \* the generator's `current`, by version
    wire,           \* events yielded and not yet received by the page
    page,           \* the record the page shows, 0 before the first event
    open,           \* whether the page's EventSource is open
    leaked,         \* subscriptions whose generator never ran
    drops           \* lost connections and restarts so far

connection == <<response, queue, current, wire>>
client     == <<page, open>>
streamVars == <<version, end, connection, client, leaked, drops>>

\* "none": no connection; "subscribed": the response is prepared; "waiting": the
\* generator waits for the queue; "ended": the response is complete.
Response == {"none", "subscribed", "waiting", "ended"}
Subscribed == {"subscribed", "waiting"}

Over(v) == v > 0 /\ v = end

StreamInit ==
    /\ version = 1
    /\ end = 0
    /\ response = [s \in Page |-> "none"]
    /\ queue = [s \in Page |-> <<>>]
    /\ current = [s \in Page |-> 0]
    /\ wire = [s \in Page |-> <<>>]
    /\ page = [s \in Page |-> 0]
    /\ open = [s \in Page |-> TRUE]
    /\ leaked = 0
    /\ drops = 0

\* Mutants of Offer: the newest record is dropped, the last entry is replaced.
OfferOrDrop(q, v) == IF Len(q) = Cap THEN q ELSE Append(q, v)
OfferReplace(q, v) == Append(IF Len(q) = Cap THEN SubSeq(q, 1, Cap - 1) ELSE q, v)

\* TaskAPI._publish, for one subscriber: a full queue loses its oldest record.
Offer(q, v) == Append(IF Len(q) = Cap THEN Tail(q) ELSE q, v)

\* A persisted transition is published to every subscriber.
Transition(terminal) ==
    /\ end = 0
    /\ version < MaxVersion
    /\ version' = version + 1
    /\ end' = IF terminal THEN version' ELSE 0
    /\ queue' = [s \in Page |->
                    IF response[s] \in Subscribed THEN Offer(queue[s], version') ELSE queue[s]]
    /\ UNCHANGED <<response, current, wire, client, leaked, drops>>

\* The route checks the row and subscribes; the response starts later.
Subscribe(s) ==
    /\ open[s]
    /\ response[s] = "none"
    /\ response' = [response EXCEPT ![s] = "subscribed"]
    /\ queue' = [queue EXCEPT ![s] = <<>>]
    /\ UNCHANGED <<version, end, current, wire, client, leaked, drops>>

\* Mutant of ResponseAfter: the first record is not tested for being the last.
ResponseAfterAny(v) == "waiting"

\* The loop's condition, once the record of version v has been yielded; the
\* generator's `finally` unsubscribes.
ResponseAfter(v) == IF Over(v) THEN "ended" ELSE "waiting"

\* The generator yields v and looks at its loop condition.
Yield(s, v) ==
    /\ current' = [current EXCEPT ![s] = v]
    /\ wire' = [wire EXCEPT ![s] = Append(@, v)]
    /\ response' = [response EXCEPT ![s] = ResponseAfter(v)]

\* The generator starts: it reads the row, which may be newer than what has
\* been queued since the subscription.
Begin(s) ==
    /\ response[s] = "subscribed"
    /\ Yield(s, version)
    /\ UNCHANGED <<version, end, queue, client, leaked, drops>>

\* queue.get returns.  A timeout only yields a keepalive.
Forward(s) ==
    /\ response[s] = "waiting"
    /\ queue[s] # <<>>
    /\ Yield(s, Head(queue[s]))
    /\ queue' = [queue EXCEPT ![s] = Tail(@)]
    /\ UNCHANGED <<version, end, client, leaked, drops>>

\* The page receives an event, shows it, and closes its source at the end.
Receive(s) ==
    /\ open[s]
    /\ wire[s] # <<>>
    /\ page' = [page EXCEPT ![s] = Head(wire[s])]
    /\ open' = [open EXCEPT ![s] = ~Over(Head(wire[s]))]
    /\ wire' = [wire EXCEPT ![s] = Tail(@)]
    /\ UNCHANGED <<version, end, response, queue, current, leaked, drops>>

\* A connection is gone with what was on its wire.
Gone(s) ==
    /\ response' = [response EXCEPT ![s] = "none"]
    /\ wire' = [wire EXCEPT ![s] = <<>>]
    /\ queue' = [queue EXCEPT ![s] = <<>>]
    /\ current' = [current EXCEPT ![s] = 0]

\* The connection is lost; the EventSource will connect again.  A generator that
\* has not started never reaches its `finally`, and stays subscribed.
Disconnect(s) ==
    /\ open[s]
    /\ response[s] # "none"
    /\ drops < MaxDrops
    /\ drops' = drops + 1
    /\ Gone(s)
    /\ leaked' = IF response[s] = "subscribed" THEN leaked + 1 ELSE leaked
    /\ UNCHANGED <<version, end, client>>

\* The response is complete and the page has all of it, or the page has closed.
Finish(s) ==
    /\ response[s] # "none"
    /\ ~open[s] \/ (response[s] = "ended" /\ wire[s] = <<>>)
    /\ Gone(s)
    /\ UNCHANGED <<version, end, client, leaked, drops>>

\* The server process restarts: subscriptions are in memory only.
Restart ==
    /\ drops < MaxDrops
    /\ drops' = drops + 1
    /\ response' = [s \in Page |-> "none"]
    /\ wire' = [s \in Page |-> <<>>]
    /\ queue' = [s \in Page |-> <<>>]
    /\ current' = [s \in Page |-> 0]
    /\ leaked' = 0
    /\ UNCHANGED <<version, end, client>>

Serve(s) == Subscribe(s) \/ Begin(s) \/ Forward(s) \/ Receive(s) \/ Finish(s)

StreamNext ==
    \/ \E terminal \in BOOLEAN : Transition(terminal)
    \/ \E s \in Page : Serve(s) \/ Disconnect(s)
    \/ Restart

StreamSpec == StreamInit /\ [][StreamNext]_streamVars

------------------------------------------------------------------------------
(* Properties.                                                              *)

\* Every variable holds what the code can put there; no queue exceeds its size.
StreamTypeOK ==
    /\ version \in 1..MaxVersion
    /\ end \in {0, version}
    /\ response \in [Page -> Response]
    /\ queue \in [Page -> Seq(1..version)]
    /\ \A s \in Page : Len(queue[s]) <= Cap
    /\ wire \in [Page -> Seq(1..version)]
    /\ current \in [Page -> 0..version]
    /\ page \in [Page -> 0..version]
    /\ open \in [Page -> BOOLEAN]
    /\ leaked \in 0..MaxDrops
    /\ drops \in 0..MaxDrops

\* A subscriber's queue ends with the row's version and has no gap before it:
\* whatever a full queue gives up is older than everything it keeps.
GapFree(s) ==
    \A i \in 1..Len(queue[s]) : queue[s][i] + Len(queue[s]) = version + i

QueuesGapFree == \A s \in Page : response[s] \in Subscribed => GapFree(s)

\* A generator that has nothing left to forward is at the row's version: no
\* transition falls between the subscription, the first read and the queue.
NothingMissed ==
    \A s \in Page :
        response[s] = "waiting" /\ queue[s] = <<>> => current[s] = version

\* The terminal record is the last one of a response: the generator stops there
\* even when records older than the first one it read are still queued.
EndIsLast ==
    \A s \in Page : \A i \in 1..Len(wire[s]) : i < Len(wire[s]) => ~Over(wire[s][i])

\* A page that keeps its source open sees the end of a task that ends, through
\* full queues, lost connections and restarts.
SeesTheEnd == \A s \in Page : end > 0 ~> Over(page[s])
==============================================================================
