--------------------------- MODULE TaskStreamProofs ---------------------------
(***************************************************************************)
(* The safety properties of TaskStream, for every set of pages and every   *)
(* capacity of a queue.                                                    *)
(***************************************************************************)
EXTENDS TaskStream, SequenceTheorems, TLAPS

\* A generator that can still yield has yielded no terminal record, and a page
\* without a connection has an empty wire.
Unfinished(s) ==
    /\ response[s] \in Subscribed => \A i \in 1..Len(wire[s]) : ~Over(wire[s][i])
    /\ response[s] = "none" => wire[s] = <<>>

\* The inductive invariant.
StreamInv ==
    /\ StreamTypeOK
    /\ leaked <= drops
    /\ QueuesGapFree
    /\ NothingMissed
    /\ EndIsLast
    /\ \A s \in Page : Unfinished(s)

------------------------------------------------------------------------------
(* What Offer does to a queue, for every capacity.                          *)

\* A queue that is offered the next version keeps its size and its type.
LEMMA OfferType ==
    ASSUME NEW n \in Nat, NEW q \in Seq(1..n), Len(q) <= Cap
    PROVE  /\ Offer(q, n + 1) \in Seq(1..(n + 1))
           /\ Len(Offer(q, n + 1)) <= Cap
           /\ Offer(q, n + 1) # <<>>
<1>1. Cap \in Nat \ {0}
  BY CapAssumption
<1>2. q \in Seq(1..(n + 1)) /\ n + 1 \in 1..(n + 1)
  OBVIOUS
<1>3. CASE Len(q) = Cap
  <2>1. Tail(q) \in Seq(1..(n + 1)) /\ Len(Tail(q)) = Len(q) - 1
    BY <1>1, <1>2, <1>3
  <2>2. Offer(q, n + 1) = Append(Tail(q), n + 1)
    BY <1>3 DEF Offer
  <2> QED BY <1>1, <1>2, <1>3, <2>1, <2>2
<1>4. CASE Len(q) # Cap
  <2>1. Offer(q, n + 1) = Append(q, n + 1)
    BY <1>4 DEF Offer
  <2>2. Len(q) < Cap
    BY <1>1, <1>4
  <2>3. Append(q, n + 1) \in Seq(1..(n + 1)) /\ Len(Append(q, n + 1)) = Len(q) + 1
    BY <1>2
  <2>4. Append(q, n + 1) # <<>>
    BY <1>2, AppendProperties
  <2> QED BY <1>1, <2>1, <2>2, <2>3, <2>4
<1> QED BY <1>3, <1>4

\* A queue without a gap that is offered the next version stays without one.
LEMMA OfferGapFree ==
    ASSUME NEW n \in Nat, NEW q \in Seq(1..n), Len(q) <= Cap,
           \A i \in 1..Len(q) : q[i] + Len(q) = n + i
    PROVE  LET r == Offer(q, n + 1)
           IN  \A i \in 1..Len(r) : r[i] + Len(r) = n + 1 + i
<1>1. Cap \in Nat \ {0}
  BY CapAssumption
<1>2. CASE Len(q) = Cap
  <2> DEFINE t == Tail(q)
             r == Append(t, n + 1)
  <2>1. Offer(q, n + 1) = r
    BY <1>2 DEF Offer
  <2>2. t \in Seq(1..n) /\ Len(t) = Len(q) - 1
    BY <1>1, <1>2
  <2>3. \A i \in 1..Len(t) : t[i] = q[i + 1]
    BY <1>1, <1>2, <2>2
  <2>4. Len(r) = Len(q) /\ r[Len(q)] = n + 1
    BY <1>1, <1>2, <2>2
  <2>5. ASSUME NEW i \in 1..Len(r), i # Len(q)
        PROVE  r[i] + Len(r) = n + 1 + i
    <3>1. i \in 1..Len(t) /\ r[i] = t[i]
      BY <2>2, <2>4, <2>5
    <3>2. i + 1 \in 1..Len(q) /\ q[i + 1] \in 1..n
      BY <2>2, <3>1
    <3> QED BY <2>3, <2>4, <3>1, <3>2
  <2> QED BY <1>1, <1>2, <2>1, <2>4, <2>5
<1>3. CASE Len(q) # Cap
  <2> DEFINE r == Append(q, n + 1)
  <2>1. Offer(q, n + 1) = r
    BY <1>3 DEF Offer
  <2>2. Len(r) = Len(q) + 1 /\ r[Len(q) + 1] = n + 1
    OBVIOUS
  <2>3. ASSUME NEW i \in 1..Len(r), i # Len(q) + 1
        PROVE  r[i] + Len(r) = n + 1 + i
    <3>1. i \in 1..Len(q) /\ r[i] = q[i]
      BY <2>2, <2>3
    <3>2. q[i] \in Nat /\ q[i] + Len(q) = n + i
      BY <3>1
    <3>3. Len(q) \in Nat /\ i \in Nat
      BY <3>1
    <3>4. r[i] = q[i] /\ Len(r) = Len(q) + 1
      BY <2>2, <3>1
    <3> DEFINE a == q[i]
               l == Len(q)
    <3>5. a \in Nat /\ l \in Nat /\ i \in Nat /\ a + l = n + i
      BY <3>2, <3>3
    <3>6. a + (l + 1) = n + 1 + i
      <4> HIDE DEF a, l
      <4> QED BY <3>5
    <3> QED BY <3>4, <3>6, Zenon
  <2> QED BY <2>1, <2>2, <2>3
<1> QED BY <1>2, <1>3

------------------------------------------------------------------------------
LEMMA InitInv == StreamInit => StreamInv
<1> SUFFICES ASSUME StreamInit PROVE StreamInv
  OBVIOUS
<1>1. StreamTypeOK
  BY CapAssumption DEF StreamInit, StreamTypeOK, Response
<1>2. QueuesGapFree /\ NothingMissed
  BY DEF StreamInit, QueuesGapFree, NothingMissed, Subscribed
<1>3. EndIsLast /\ \A s \in Page : Unfinished(s)
  BY DEF StreamInit, EndIsLast, Unfinished, Subscribed
<1> QED BY <1>1, <1>2, <1>3 DEF StreamInv, StreamInit

\* Reading a typed sequence function: the queue and the wire of one page.
LEMMA PageTypes ==
    ASSUME StreamTypeOK, NEW s \in Page
    PROVE  /\ queue[s] \in Seq(1..version) /\ Len(queue[s]) <= Cap
           /\ wire[s] \in Seq(1..version)
           /\ version \in Nat /\ version >= 1 /\ Cap \in Nat \ {0}
           /\ response[s] \in Response
BY CapAssumption DEF StreamTypeOK

\* A persisted transition.
LEMMA TransitionInv ==
    ASSUME StreamInv, NEW terminal \in BOOLEAN, Transition(terminal)
    PROVE  StreamInv'
<1> USE DEF StreamInv
<1>1. /\ version' = version + 1 /\ version \in Nat /\ version >= 1
      /\ end = 0 /\ end' \in {0, version'}
      /\ response' = response /\ current' = current /\ wire' = wire
      /\ page' = page /\ open' = open /\ leaked' = leaked /\ drops' = drops
      /\ version' <= MaxVersion
  BY CapAssumption DEF Transition, StreamTypeOK, client
<1>2. ASSUME NEW s \in Page, response[s] \in Subscribed
      PROVE  queue'[s] = Offer(queue[s], version + 1)
  BY <1>1, <1>2 DEF Transition
<1>3. ASSUME NEW s \in Page, response[s] \notin Subscribed
      PROVE  queue'[s] = queue[s]
  BY <1>3 DEF Transition
<1>4. ASSUME NEW s \in Page
      PROVE  queue'[s] \in Seq(1..version') /\ Len(queue'[s]) <= Cap
  <2>1. CASE response[s] \in Subscribed
    BY <1>1, <1>2, <2>1, PageTypes, OfferType
  <2>2. CASE response[s] \notin Subscribed
    <3>1. Seq(1..version) \subseteq Seq(1..version')
      BY <1>1
    <3> QED BY <1>3, <2>2, <3>1, PageTypes
  <2> QED BY <2>1, <2>2
<1>5. wire' \in [Page -> Seq(1..version')]
  <2>1. Seq(1..version) \subseteq Seq(1..version')
    BY <1>1
  <2> QED BY <1>1, <2>1 DEF StreamTypeOK
<1>6. StreamTypeOK'
  <2>1. 0..version \subseteq 0..version'
    BY <1>1
  <2>2. version' \in 1..MaxVersion
    BY <1>1, CapAssumption
  <2>3. current' \in [Page -> 0..version'] /\ page' \in [Page -> 0..version']
    BY <1>1, <2>1 DEF StreamTypeOK
  <2>4. queue' \in [Page -> Seq(1..version')]
    BY <1>4 DEF Transition
  <2> QED BY <1>1, <1>4, <1>5, <2>2, <2>3, <2>4 DEF StreamTypeOK
<1>7. QueuesGapFree'
  <2> SUFFICES ASSUME NEW s \in Page, response[s] \in Subscribed
               PROVE  GapFree(s)'
    BY <1>1 DEF QueuesGapFree
  <2>1. \A i \in 1..Len(queue[s]) : queue[s][i] + Len(queue[s]) = version + i
    BY DEF QueuesGapFree, GapFree
  <2>2. LET r == Offer(queue[s], version + 1)
        IN  \A i \in 1..Len(r) : r[i] + Len(r) = version + 1 + i
    BY <1>1, <2>1, PageTypes, OfferGapFree
  <2> QED BY <1>1, <1>2, <2>2 DEF GapFree
<1>8. NothingMissed'
  <2> SUFFICES ASSUME NEW s \in Page, response[s] = "waiting"
               PROVE  queue'[s] # <<>>
    BY <1>1 DEF NothingMissed
  <2> QED BY <1>1, <1>2, PageTypes, OfferType DEF Subscribed
<1>9. ASSUME NEW s \in Page, NEW i \in 1..Len(wire[s])
      PROVE  ~Over(wire[s][i])'
  <2>1. wire[s][i] \in 1..version
    BY PageTypes
  <2> QED BY <1>1, <2>1 DEF Over
<1>10. EndIsLast' /\ \A s \in Page : Unfinished(s)'
  <2>1. EndIsLast'
    BY <1>1, <1>9 DEF EndIsLast
  <2>2. ASSUME NEW s \in Page PROVE Unfinished(s)'
    BY <1>1, <1>9 DEF Unfinished
  <2> QED BY <2>1, <2>2
<1> QED BY <1>1, <1>6, <1>7, <1>8, <1>10
\* What yielding a record does, for both places where the generator yields.
LEMMA YieldKeeps ==
    ASSUME StreamInv, NEW s \in Page, NEW v \in 1..version,
           response[s] \in Subscribed, Yield(s, v), UNCHANGED <<version, end>>
    PROVE  /\ response' \in [Page -> Response]
           /\ current' \in [Page -> 0..version]
           /\ wire' \in [Page -> Seq(1..version)]
           /\ EndIsLast'
           /\ \A x \in Page : Unfinished(x)'
           /\ \A x \in Page : x # s => response'[x] = response[x] /\ current'[x] = current[x]
           /\ response'[s] \in {"waiting", "ended"} /\ current'[s] = v
<1> USE DEF StreamInv
<1> DEFINE w == wire[s]
<1>1. version \in Nat /\ version >= 1 /\ w \in Seq(1..version)
  BY PageTypes
<1>2. /\ response' = [response EXCEPT ![s] = ResponseAfter(v)]
      /\ current' = [current EXCEPT ![s] = v]
      /\ wire' = [wire EXCEPT ![s] = Append(w, v)]
  BY DEF Yield
<1>3. ResponseAfter(v) \in {"waiting", "ended"} /\ v \in 0..version
  BY <1>1 DEF ResponseAfter
<1>4. response' \in [Page -> Response] /\ current' \in [Page -> 0..version]
  BY <1>2, <1>3 DEF StreamTypeOK, Response
<1>5. /\ \A x \in Page : x # s =>
            response'[x] = response[x] /\ current'[x] = current[x] /\ wire'[x] = wire[x]
      /\ response'[s] = ResponseAfter(v) /\ current'[s] = v
  BY <1>2 DEF StreamTypeOK
<1>6. wire'[s] = Append(w, v)
  BY <1>2 DEF StreamTypeOK
<1>7. wire' \in [Page -> Seq(1..version)]
  <2>1. Append(w, v) \in Seq(1..version)
    BY <1>1, AppendProperties
  <2> QED BY <1>2, <2>1 DEF StreamTypeOK
<1>8. \A i \in 1..Len(w) : ~Over(w[i])
  BY DEF Unfinished
<1>9. /\ Len(Append(w, v)) = Len(w) + 1 /\ Len(w) \in Nat
      /\ \A i \in 1..Len(w) : Append(w, v)[i] = w[i]
      /\ Append(w, v)[Len(w) + 1] = v
  BY <1>1
<1>10. \A x : Over(x)' <=> Over(x)
  BY DEF Over
<1>11. EndIsLast'
  <2> SUFFICES ASSUME NEW x \in Page, NEW i \in 1..Len(wire'[x]), i < Len(wire'[x])
               PROVE  ~Over(wire'[x][i])
    BY <1>10 DEF EndIsLast, Over
  <2>1. CASE x # s
    BY <1>5, <2>1 DEF EndIsLast
  <2>2. CASE x = s
    <3>1. i \in 1..Len(w)
      BY <1>6, <1>9, <2>2
    <3> QED BY <1>6, <1>8, <1>9, <2>2, <3>1
  <2> QED BY <2>1, <2>2
<1>12. ASSUME NEW x \in Page PROVE Unfinished(x)'
  <2>1. CASE x # s
    BY <1>5, <2>1 DEF Unfinished, Over
  <2>2. CASE x = s
    <3>1. ASSUME ResponseAfter(v) = "waiting", NEW i \in 1..Len(wire'[s])
          PROVE  ~Over(wire'[s][i])
      <4>1. ~Over(v)
        BY <3>1 DEF ResponseAfter
      <4>2. i \in 1..Len(w) \/ wire'[s][i] = v
        BY <1>6, <1>9
      <4>3. i \in 1..Len(w) => wire'[s][i] = w[i]
        BY <1>6, <1>9
      <4> QED BY <1>8, <4>1, <4>2, <4>3
    <3> QED BY <1>3, <1>5, <2>2, <3>1 DEF Unfinished, Over, Subscribed
  <2> QED BY <2>1, <2>2
<1> QED BY <1>3, <1>4, <1>5, <1>7, <1>11, <1>12

\* The generator starts.
LEMMA BeginInv == ASSUME StreamInv, NEW s \in Page, Begin(s) PROVE StreamInv'
<1> USE DEF StreamInv
<1>1. /\ response[s] = "subscribed" /\ Yield(s, version)
      /\ UNCHANGED <<version, end, queue, page, open, leaked, drops>>
  BY DEF Begin, client
<1>2. version \in 1..version /\ response[s] \in Subscribed
  BY <1>1, PageTypes DEF Subscribed
<1>3. /\ response' \in [Page -> Response]
      /\ current' \in [Page -> 0..version]
      /\ wire' \in [Page -> Seq(1..version)]
      /\ EndIsLast' /\ \A x \in Page : Unfinished(x)'
      /\ \A x \in Page : x # s => response'[x] = response[x] /\ current'[x] = current[x]
      /\ response'[s] \in {"waiting", "ended"} /\ current'[s] = version
  BY <1>1, <1>2, YieldKeeps
<1>4. StreamTypeOK'
  BY <1>1, <1>3 DEF StreamTypeOK
<1>5. QueuesGapFree'
  BY <1>1, <1>2, <1>3 DEF QueuesGapFree, GapFree
<1>6. NothingMissed'
  BY <1>1, <1>3 DEF NothingMissed
<1> QED BY <1>1, <1>3, <1>4, <1>5, <1>6

\* The generator forwards a record: the last one it has is the row's version.
LEMMA ForwardInv == ASSUME StreamInv, NEW s \in Page, Forward(s) PROVE StreamInv'
<1> USE DEF StreamInv
<1> DEFINE q == queue[s]
<1>1. /\ response[s] = "waiting" /\ q # <<>> /\ Yield(s, Head(q))
      /\ queue' = [queue EXCEPT ![s] = Tail(q)]
      /\ UNCHANGED <<version, end, page, open, leaked, drops>>
  BY DEF Forward, client
<1>2. /\ q \in Seq(1..version) /\ Len(q) <= Cap /\ version \in Nat
      /\ response[s] \in Subscribed
  BY <1>1, PageTypes DEF Subscribed
<1>3. /\ Head(q) \in 1..version /\ Head(q) = q[1] /\ Len(q) \in Nat /\ Len(q) >= 1
      /\ Tail(q) \in Seq(1..version) /\ Len(Tail(q)) = Len(q) - 1
      /\ \A i \in 1..Len(Tail(q)) : Tail(q)[i] = q[i + 1]
  <2>1. /\ Head(q) \in 1..version
        /\ Tail(q) \in Seq(1..version) /\ Len(Tail(q)) = Len(q) - 1
        /\ \A i \in 1..Len(Tail(q)) : Tail(q)[i] = q[i + 1]
    BY <1>1, <1>2, HeadTailProperties
  <2>2. Len(q) \in Nat \ {0}
    BY <1>1, <1>2, EmptySeq
  <2>3. Head(q) = q[1]
    BY <1>1, <1>2
  <2> QED BY <2>1, <2>2, <2>3
<1>4. /\ response' \in [Page -> Response]
      /\ current' \in [Page -> 0..version]
      /\ wire' \in [Page -> Seq(1..version)]
      /\ EndIsLast' /\ \A x \in Page : Unfinished(x)'
      /\ \A x \in Page : x # s => response'[x] = response[x] /\ current'[x] = current[x]
      /\ response'[s] \in {"waiting", "ended"} /\ current'[s] = Head(q)
  BY <1>1, <1>2, <1>3, YieldKeeps
<1>5. /\ \A x \in Page : x # s => queue'[x] = queue[x]
      /\ queue'[s] = Tail(q)
  BY <1>1 DEF StreamTypeOK
<1>6. \A i \in 1..Len(q) : q[i] + Len(q) = version + i
  BY <1>2 DEF QueuesGapFree, GapFree
<1>7. /\ queue' \in [Page -> Seq(1..version)]
      /\ \A x \in Page : Len(queue'[x]) <= Cap
  <2>1. Len(Tail(q)) <= Cap
    BY <1>2, <1>3, PageTypes
  <2>2. queue' \in [Page -> Seq(1..version)]
    BY <1>1, <1>3 DEF StreamTypeOK
  <2> QED BY <1>5, <2>1, <2>2, PageTypes
<1>8. StreamTypeOK'
  BY <1>1, <1>4, <1>7 DEF StreamTypeOK
<1>9. \A i \in 1..Len(Tail(q)) : Tail(q)[i] + Len(Tail(q)) = version + i
  <2> SUFFICES ASSUME NEW i \in 1..Len(Tail(q))
               PROVE  Tail(q)[i] + Len(Tail(q)) = version + i
    OBVIOUS
  <2>1. i + 1 \in 1..Len(q) /\ Tail(q)[i] = q[i + 1] /\ i \in Nat
    BY <1>3
  <2>2. q[i + 1] \in Nat /\ q[i + 1] + Len(q) = version + (i + 1)
    BY <1>2, <1>6, <2>1
  <2> DEFINE a == q[i + 1]
             l == Len(q)
  <2>3. a \in Nat /\ l \in Nat /\ i \in Nat /\ a + l = version + (i + 1)
    BY <1>3, <2>1, <2>2
  <2>4. a + (l - 1) = version + i
    <3> HIDE DEF a, l
    <3> QED BY <1>2, <2>3
  <2> QED BY <1>3, <2>1, <2>4, Zenon
<1>10. QueuesGapFree'
  <2> SUFFICES ASSUME NEW x \in Page, response'[x] \in Subscribed
               PROVE  \A i \in 1..Len(queue'[x]) :
                         queue'[x][i] + Len(queue'[x]) = version + i
    BY <1>1 DEF QueuesGapFree, GapFree
  <2>1. CASE x # s
    BY <1>4, <1>5, <2>1 DEF QueuesGapFree, GapFree
  <2>2. CASE x = s
    BY <1>5, <1>9, <2>2
  <2> QED BY <2>1, <2>2
<1>11. NothingMissed'
  <2> SUFFICES ASSUME NEW x \in Page, response'[x] = "waiting", queue'[x] = <<>>
               PROVE  current'[x] = version
    BY <1>1 DEF NothingMissed
  <2>1. CASE x # s
    BY <1>4, <1>5, <2>1 DEF NothingMissed
  <2>2. CASE x = s
    <3>1. Tail(q) = <<>>
      BY <1>1, <1>5, <2>2
    <3>2. Len(q) = 1
      <4>1. Len(<<>>) = 0
        BY EmptySeq
      <4>2. Len(q) - 1 = 0
        BY <1>3, <3>1, <4>1, Zenon
      <4> QED BY <1>3, <4>2
    <3>3. q[1] + Len(q) = version + 1
      BY <1>3, <1>6
    <3> QED BY <1>2, <1>3, <1>4, <2>2, <3>2, <3>3
  <2> QED BY <2>1, <2>2
<1> QED BY <1>1, <1>4, <1>8, <1>10, <1>11
\* A page subscribes.
LEMMA SubscribeInv == ASSUME StreamInv, NEW s \in Page, Subscribe(s) PROVE StreamInv'
<1> USE DEF StreamInv
<1>1. /\ response[s] = "none"
      /\ response' = [response EXCEPT ![s] = "subscribed"]
      /\ queue' = [queue EXCEPT ![s] = <<>>]
      /\ UNCHANGED <<version, end, current, wire, page, open, leaked, drops>>
  BY DEF Subscribe, client
<1>2. /\ \A x \in Page : x # s => response'[x] = response[x] /\ queue'[x] = queue[x]
      /\ response'[s] = "subscribed" /\ queue'[s] = <<>>
  BY <1>1 DEF StreamTypeOK
<1>3. <<>> \in Seq(1..version) /\ Len(<<>>) = 0 /\ Len(<<>>) <= Cap
  BY CapAssumption, EmptySeq
<1>4. StreamTypeOK'
  <2>1. /\ queue' \in [Page -> Seq(1..version)]
        /\ \A x \in Page : Len(queue'[x]) <= Cap
    BY <1>1, <1>2, <1>3 DEF StreamTypeOK
  <2>2. response' \in [Page -> Response]
    BY <1>1 DEF StreamTypeOK, Response
  <2> QED BY <1>1, <2>1, <2>2 DEF StreamTypeOK
<1>5. wire[s] = <<>>
  BY <1>1 DEF Unfinished
<1>6. NothingMissed' /\ EndIsLast'
  BY <1>1, <1>2 DEF NothingMissed, EndIsLast, Over
<1>7. QueuesGapFree'
  <2> SUFFICES ASSUME NEW x \in Page, response'[x] \in Subscribed
               PROVE  \A i \in 1..Len(queue'[x]) :
                         queue'[x][i] + Len(queue'[x]) = version + i
    BY <1>1 DEF QueuesGapFree, GapFree
  <2>1. CASE x # s
    BY <1>2, <2>1 DEF QueuesGapFree, GapFree
  <2>2. CASE x = s
    BY <1>2, <1>3, <2>2
  <2> QED BY <2>1, <2>2
<1>8. ASSUME NEW x \in Page PROVE Unfinished(x)'
  <2>1. CASE x # s
    BY <1>1, <1>2, <2>1 DEF Unfinished, Over
  <2>2. CASE x = s
    BY <1>1, <1>2, <1>3, <1>5, <2>2 DEF Unfinished
  <2> QED BY <2>1, <2>2
<1> QED BY <1>1, <1>4, <1>6, <1>7, <1>8
\* The page receives an event.
LEMMA ReceiveInv == ASSUME StreamInv, NEW s \in Page, Receive(s) PROVE StreamInv'
<1> USE DEF StreamInv
<1> DEFINE w == wire[s]
<1>1. /\ w # <<>>
      /\ page' = [page EXCEPT ![s] = Head(w)]
      /\ open' = [open EXCEPT ![s] = ~Over(Head(w))]
      /\ wire' = [wire EXCEPT ![s] = Tail(w)]
      /\ UNCHANGED <<version, end, response, queue, current, leaked, drops>>
  BY DEF Receive
<1>2. w \in Seq(1..version) /\ version \in Nat
  BY PageTypes
<1>3. /\ Head(w) \in 1..version
      /\ Tail(w) \in Seq(1..version) /\ Len(Tail(w)) = Len(w) - 1
      /\ \A i \in 1..Len(Tail(w)) : Tail(w)[i] = w[i + 1]
  BY <1>1, <1>2, HeadTailProperties
<1>4. Len(w) \in Nat \ {0}
  BY <1>1, <1>2, EmptySeq
<1>5. /\ \A x \in Page : x # s => wire'[x] = wire[x]
      /\ wire'[s] = Tail(w)
  BY <1>1 DEF StreamTypeOK
<1>6. StreamTypeOK'
  <2>1. wire' \in [Page -> Seq(1..version)]
    BY <1>1, <1>3 DEF StreamTypeOK
  <2>2. page' \in [Page -> 0..version]
    BY <1>1, <1>2, <1>3 DEF StreamTypeOK
  <2>3. open' \in [Page -> BOOLEAN]
    BY <1>1 DEF StreamTypeOK
  <2> QED BY <1>1, <2>1, <2>2, <2>3 DEF StreamTypeOK
<1>7. QueuesGapFree' /\ NothingMissed'
  BY <1>1 DEF QueuesGapFree, GapFree, NothingMissed
<1>8. ASSUME NEW i \in 1..Len(Tail(w))
      PROVE  i + 1 \in 1..Len(w) /\ (i < Len(Tail(w)) => i + 1 < Len(w))
  BY <1>3, <1>4
<1>9. EndIsLast'
  <2> SUFFICES ASSUME NEW x \in Page, NEW i \in 1..Len(wire'[x]), i < Len(wire'[x])
               PROVE  ~Over(wire'[x][i])
    BY <1>1 DEF EndIsLast, Over
  <2>1. CASE x # s
    BY <1>5, <2>1 DEF EndIsLast
  <2>2. CASE x = s
    <3>1. i + 1 \in 1..Len(w) /\ i + 1 < Len(w) /\ wire'[x][i] = w[i + 1]
      BY <1>3, <1>5, <1>8, <2>2
    <3> QED BY <3>1 DEF EndIsLast
  <2> QED BY <2>1, <2>2
<1>10. ASSUME NEW x \in Page PROVE Unfinished(x)'
  <2>1. CASE x # s
    BY <1>1, <1>5, <2>1 DEF Unfinished, Over
  <2>2. CASE x = s
    <3>1. response[s] # "none"
      BY <1>1 DEF Unfinished
    <3>2. ASSUME response[s] \in Subscribed, NEW i \in 1..Len(Tail(w))
          PROVE  ~Over(Tail(w)[i])
      BY <1>3, <1>8, <3>2 DEF Unfinished
    <3> QED BY <1>1, <1>5, <2>2, <3>1, <3>2 DEF Unfinished, Over
  <2> QED BY <2>1, <2>2
<1> QED BY <1>1, <1>6, <1>7, <1>9, <1>10

\* What the end of a connection does, for every way it ends.
LEMMA GoneKeeps ==
    ASSUME StreamInv, NEW s \in Page, Gone(s), UNCHANGED <<version, end, page, open>>,
           leaked' \in 0..MaxDrops, drops' \in 0..MaxDrops, leaked' <= drops'
    PROVE  StreamInv'
<1> USE DEF StreamInv
<1>1. /\ response' = [response EXCEPT ![s] = "none"]
      /\ wire' = [wire EXCEPT ![s] = <<>>]
      /\ queue' = [queue EXCEPT ![s] = <<>>]
      /\ current' = [current EXCEPT ![s] = 0]
  BY DEF Gone
<1>2. <<>> \in Seq(1..version) /\ Len(<<>>) = 0 /\ Len(<<>>) <= Cap /\ 0 \in 0..version
  BY CapAssumption, EmptySeq, PageTypes
<1>3. /\ \A x \in Page : x # s =>
            /\ response'[x] = response[x] /\ wire'[x] = wire[x]
            /\ queue'[x] = queue[x] /\ current'[x] = current[x]
      /\ response'[s] = "none" /\ wire'[s] = <<>> /\ queue'[s] = <<>>
  BY <1>1 DEF StreamTypeOK
<1>4. StreamTypeOK'
  <2>1. response' \in [Page -> Response]
    BY <1>1 DEF StreamTypeOK, Response
  <2>2. /\ queue' \in [Page -> Seq(1..version)] /\ wire' \in [Page -> Seq(1..version)]
        /\ current' \in [Page -> 0..version]
    BY <1>1, <1>2 DEF StreamTypeOK
  <2>3. \A x \in Page : Len(queue'[x]) <= Cap
    BY <1>2, <1>3 DEF StreamTypeOK
  <2> QED BY <2>1, <2>2, <2>3 DEF StreamTypeOK
<1>5. QueuesGapFree' /\ NothingMissed'
  BY <1>3 DEF QueuesGapFree, GapFree, NothingMissed, Subscribed
<1>6. EndIsLast'
  <2> SUFFICES ASSUME NEW x \in Page, NEW i \in 1..Len(wire'[x]), i < Len(wire'[x])
               PROVE  ~Over(wire'[x][i])
    BY DEF EndIsLast, Over
  <2> QED BY <1>2, <1>3 DEF EndIsLast
<1>7. ASSUME NEW x \in Page PROVE Unfinished(x)'
  BY <1>3 DEF Unfinished, Over, Subscribed
<1> QED BY <1>4, <1>5, <1>6, <1>7

\* A connection is lost.
LEMMA DisconnectInv == ASSUME StreamInv, NEW s \in Page, Disconnect(s) PROVE StreamInv'
<1>1. /\ leaked \in 0..MaxDrops /\ drops \in 0..MaxDrops /\ leaked <= drops
      /\ drops < MaxDrops /\ drops' = drops + 1 /\ leaked' \in {leaked, leaked + 1}
  BY DEF Disconnect, StreamInv, StreamTypeOK
<1>2. leaked' \in 0..MaxDrops /\ drops' \in 0..MaxDrops /\ leaked' <= drops'
  BY <1>1, CapAssumption
<1> QED BY <1>2, GoneKeeps DEF Disconnect, client

\* A response has ended, or its page has closed it.
LEMMA FinishInv == ASSUME StreamInv, NEW s \in Page, Finish(s) PROVE StreamInv'
<1>1. leaked' \in 0..MaxDrops /\ drops' \in 0..MaxDrops /\ leaked' <= drops'
  BY DEF Finish, StreamInv, StreamTypeOK
<1> QED BY <1>1, GoneKeeps DEF Finish, client

\* The server restarts.
LEMMA RestartInv == ASSUME StreamInv, Restart PROVE StreamInv'
<1> USE DEF StreamInv
<1>1. /\ response' = [s \in Page |-> "none"] /\ wire' = [s \in Page |-> <<>>]
      /\ queue' = [s \in Page |-> <<>>] /\ current' = [s \in Page |-> 0]
      /\ UNCHANGED <<version, end, page, open>>
      /\ leaked' = 0 /\ drops' = drops + 1 /\ drops < MaxDrops
  BY DEF Restart, client
<1>2. /\ <<>> \in Seq(1..version) /\ Len(<<>>) = 0 /\ Len(<<>>) <= Cap
      /\ version \in Nat /\ drops \in Nat /\ drops' \in 0..MaxDrops /\ 0 \in 0..MaxDrops
  BY <1>1, CapAssumption, EmptySeq DEF StreamTypeOK
<1>3. StreamTypeOK'
  <2>1. 0 \in 0..version
    BY <1>2
  <2> QED BY <1>1, <1>2, <2>1 DEF StreamTypeOK, Response
<1>4. QueuesGapFree' /\ NothingMissed'
  BY <1>1 DEF QueuesGapFree, NothingMissed, Subscribed
<1>5. EndIsLast' /\ \A s \in Page : Unfinished(s)'
  BY <1>1, <1>2 DEF EndIsLast, Unfinished, Subscribed
<1> QED BY <1>1, <1>2, <1>3, <1>4, <1>5

------------------------------------------------------------------------------
\* The invariant holds in every reachable state.
THEOREM StreamInvariant == StreamSpec => []StreamInv
<1>1. StreamInit => StreamInv
  BY InitInv
<1>2. StreamInv /\ [StreamNext]_streamVars => StreamInv'
  <2> SUFFICES ASSUME StreamInv, [StreamNext]_streamVars PROVE StreamInv'
    OBVIOUS
  <2>1. ASSUME NEW terminal \in BOOLEAN, Transition(terminal) PROVE StreamInv'
    BY <2>1, TransitionInv
  <2>2. ASSUME NEW s \in Page, Serve(s) PROVE StreamInv'
    BY <2>2, SubscribeInv, BeginInv, ForwardInv, ReceiveInv, FinishInv DEF Serve
  <2>3. ASSUME NEW s \in Page, Disconnect(s) PROVE StreamInv'
    BY <2>3, DisconnectInv
  <2>4. CASE Restart
    BY <2>4, RestartInv
  <2>5. CASE UNCHANGED streamVars
    BY <2>5 DEF streamVars, connection, client, StreamInv, StreamTypeOK, QueuesGapFree, GapFree,
                NothingMissed, EndIsLast, Unfinished, Over
  <2> QED BY <2>1, <2>2, <2>3, <2>4, <2>5 DEF StreamNext
<1> QED BY <1>1, <1>2, PTL DEF StreamSpec

\* Type correctness: no queue exceeds its size, whatever the size.
THEOREM StreamTypeCorrect == StreamSpec => []StreamTypeOK
BY StreamInvariant, PTL DEF StreamInv

\* A full queue gives up only records older than all it keeps, and what it keeps
\* ends with the row's version.
THEOREM QueuesHaveNoGap == StreamSpec => []QueuesGapFree
BY StreamInvariant, PTL DEF StreamInv

\* No transition falls between the subscription, the first read and the queue.
THEOREM NothingIsMissed == StreamSpec => []NothingMissed
BY StreamInvariant, PTL DEF StreamInv

\* No response goes on after the terminal record.
THEOREM EndComesLast == StreamSpec => []EndIsLast
BY StreamInvariant, PTL DEF StreamInv
==============================================================================
