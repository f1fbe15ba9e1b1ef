------------------------- MODULE Messaging_proofs ---------------------------
(***************************************************************************)
(* Proofs about what carries messages: the event bus, the injection queue  *)
(* of a session, the outgoing webhooks, and the commands and events of a   *)
(* session between server, agent and browser tabs.  Each part states the   *)
(* specification of its component alone, with any number of processes,     *)
(* events and items, its inductive invariant, one lemma per action, and    *)
(* the theorem.                                                            *)
(***************************************************************************)
EXTENDS EventBus, InjectionQueue, Webhooks, Sessions, SequenceTheorems, FiniteSetTheorems, TLAPS

(* The event bus.                                                          *)

EventBusSpec == EventBusInit /\ [][EventBusNext]_busVars

(* The one worker that SubscribeStart starts. *)
Drainer == CHOOSE w \in BusWorkers : TRUE

(* What a publisher and a worker can be. *)
PubStates == {IdlePub} \cup [at : {"persist", "lock"}, ev : BusEvents]
                       \cup [at : {"fanout"}, ev : BusEvents, todo : SUBSET Subscribers]
WorkStates == [at : {"off", "idle", "left"}] \cup [at : {"busy"}, ev : BusEvents]

BusTypes ==
    /\ busClosed \in BOOLEAN /\ busSubs \subseteq Subscribers
    /\ busChan \in [Subscribers -> [buf : Seq(BusEvents), closed : BOOLEAN]]
    /\ busWork \in [Subscribers -> [BusWorkers -> WorkStates]]
    /\ busHandled \in [Subscribers -> Seq(BusEvents)]
    /\ pubAt \in [Publishers -> PubStates]
    /\ pubCount \in [Publishers -> 0 .. MaxPublish] /\ persisted \subseteq BusEvents
    /\ subAt \in [Subscribers -> {"new", "started", "refused", "on", "removed", "wait", "off"}]
    /\ closeAt \in {"no", "closing", "wait", "done"} /\ closeList \subseteq Subscribers
    /\ \A s \in Subscribers : Len(busChan[s].buf) <= BusBuffer

(* The life of a subscriber: while it is on the list its channel is open,  *)
(* and it is taken off, with no reader about, before anybody closes it.    *)
Lists ==
    /\ \A s \in busSubs : subAt[s] = "on" /\ ~busChan[s].closed
    /\ \A s \in Subscribers : busChan[s].closed => subAt[s] \notin {"new", "started"}
    /\ \A s \in closeList : subAt[s] \notin {"new", "started", "refused"}
    /\ busClosed => busSubs = {}
    /\ closeAt = "no" => closeList = {}
    /\ closeAt # "no" => busClosed
    /\ \A p \in Publishers : pubAt[p].at = "fanout" => pubAt[p].todo \subseteq busSubs

(* One worker; it leaves a closed and empty channel.                       *)
Workers ==
    /\ \A s \in Subscribers, w \in BusWorkers : w # Drainer => busWork[s][w].at = "off"
    /\ \A s \in Subscribers : busWork[s][Drainer].at = "off" <=> subAt[s] = "new"
    /\ \A s \in Subscribers : busWork[s][Drainer].at = "left" => busChan[s].closed /\ busChan[s].buf = <<>>
    /\ \A s \in Subscribers :
          subAt[s] = "off" \/ (closeAt = "done" /\ s \in closeList) => busWork[s][Drainer].at = "left"

(* The events a subscriber has handled, handles or will handle. *)
Busy(s, e)  == busWork[s][Drainer].at = "busy" /\ busWork[s][Drainer].ev = e
In(q, e)    == \E i \in 1 .. Len(q) : q[i] = e
Held(s, e)  == In(busHandled[s], e) \/ Busy(s, e) \/ In(busChan[s].buf, e)

Pending(p, s) == \/ pubAt[p].at \in {"persist", "lock"}
                 \/ pubAt[p].at = "fanout" /\ s \in pubAt[p].todo

(* An event on its way is its publisher's last; it is persisted before it  *)
(* is fanned out, and no subscriber still to be served holds it.           *)
Numbers ==
    /\ \A p \in Publishers : pubAt[p] # IdlePub => pubAt[p].ev = <<p, pubCount[p]>>
    /\ \A p \in Publishers : pubAt[p].at \in {"lock", "fanout"} => pubAt[p].ev \in persisted
    /\ \A s \in Subscribers, e \in BusEvents : Held(s, e) => e \in persisted /\ e[2] <= pubCount[e[1]]
    /\ \A s \in Subscribers, e \in BusEvents :
          Held(s, e) /\ Pending(e[1], s) => e[2] < pubCount[e[1]]

Before(e, f) == e[1] = f[1] => e[2] < f[2]
Ordered(q)   == \A i, k \in 1 .. Len(q) : i < k => Before(q[i], q[k])

(* What a subscriber has handled, what it handles and what waits, in this  *)
(* order, is one stream in the order of publication.                       *)
Streams ==
    \A s \in Subscribers :
       /\ Ordered(busHandled[s]) /\ Ordered(busChan[s].buf)
       /\ \A e, f \in BusEvents : In(busHandled[s], e) /\ Busy(s, f) => Before(e, f)
       /\ \A e, f \in BusEvents : In(busHandled[s], e) /\ In(busChan[s].buf, f) => Before(e, f)
       /\ \A e, f \in BusEvents : Busy(s, e) /\ In(busChan[s].buf, f) => Before(e, f)

BusInd == BusTypes /\ Lists /\ Workers /\ Numbers /\ Streams

-----------------------------------------------------------------------------
LEMMA DrainerWorks == Drainer \in BusWorkers
  BY EventBusAssumption DEF Drainer

LEMMA EventParts ==
    \A e \in BusEvents : e[1] \in Publishers /\ e[2] \in 1 .. MaxPublish /\ e[2] \in Nat
  BY EventBusAssumption DEF BusEvents

LEMMA AppendIn ==
    ASSUME NEW S, NEW q \in Seq(S), NEW x \in S
    PROVE  /\ Append(q, x) \in Seq(S) /\ Len(Append(q, x)) = Len(q) + 1
           /\ \A e : In(Append(q, x), e) <=> In(q, e) \/ e = x
  <1>1. /\ Append(q, x) \in Seq(S) /\ Len(Append(q, x)) = Len(q) + 1 /\ Len(q) \in Nat
        /\ \A i \in 1 .. Len(q) : Append(q, x)[i] = q[i]
        /\ Append(q, x)[Len(q) + 1] = x
    OBVIOUS
  <1>2. \A e : In(Append(q, x), e) <=> In(q, e) \/ e = x
    BY <1>1 DEF In
  <1> QED
    BY <1>1, <1>2

LEMMA AppendOrdered ==
    ASSUME NEW S, NEW q \in Seq(S), NEW x \in S, Ordered(q),
           \A e \in S : In(q, e) => Before(e, x)
    PROVE  Ordered(Append(q, x))
  <1>1. /\ Len(Append(q, x)) = Len(q) + 1 /\ Len(q) \in Nat
        /\ \A i \in 1 .. Len(q) : Append(q, x)[i] = q[i] /\ q[i] \in S
        /\ Append(q, x)[Len(q) + 1] = x
    OBVIOUS
  <1> SUFFICES ASSUME NEW i \in 1 .. Len(q) + 1, NEW k \in 1 .. Len(q) + 1, i < k
               PROVE  Before(Append(q, x)[i], Append(q, x)[k])
    BY <1>1 DEF Ordered
  <1>2. CASE k = Len(q) + 1
    <2>1. i \in 1 .. Len(q) /\ In(q, q[i])
      BY <1>1, <1>2 DEF In
    <2> QED
      BY <1>1, <1>2, <2>1
  <1>3. CASE k # Len(q) + 1
    <2>1. i \in 1 .. Len(q) /\ k \in 1 .. Len(q)
      BY <1>1, <1>3
    <2>2. Before(q[i], q[k])
      BY <2>1 DEF Ordered
    <2> QED
      BY <1>1, <2>1, <2>2
  <1> QED
    BY <1>2, <1>3

LEMMA TailIn ==
    ASSUME NEW S, NEW q \in Seq(S), q # <<>>, Ordered(q)
    PROVE  /\ Tail(q) \in Seq(S) /\ Head(q) \in S /\ Len(Tail(q)) = Len(q) - 1 /\ Len(q) \in Nat
           /\ \A e : In(q, e) <=> e = Head(q) \/ In(Tail(q), e)
           /\ \A e : In(Tail(q), e) => Before(Head(q), e)
           /\ Ordered(Tail(q))
  <1>1. /\ Tail(q) \in Seq(S) /\ Head(q) \in S /\ Head(q) = q[1]
        /\ Len(q) \in Nat /\ Len(q) > 0 /\ Len(Tail(q)) = Len(q) - 1
        /\ \A i \in 1 .. Len(q) - 1 : Tail(q)[i] = q[i + 1]
    OBVIOUS
  <1>2. \A e : In(q, e) <=> e = Head(q) \/ In(Tail(q), e)
    <2> TAKE e
    <2>1. ASSUME In(q, e), e # Head(q) PROVE In(Tail(q), e)
      <3> PICK i \in 1 .. Len(q) : q[i] = e
        BY <2>1 DEF In
      <3>1. i - 1 \in 1 .. Len(q) - 1 /\ (i - 1) + 1 = i
        BY <1>1, <2>1
      <3> QED
        BY <1>1, <3>1 DEF In
    <2>2. ASSUME In(Tail(q), e) PROVE In(q, e)
      <3> PICK i \in 1 .. Len(q) - 1 : Tail(q)[i] = e
        BY <1>1, <2>2 DEF In
      <3>1. i + 1 \in 1 .. Len(q)
        BY <1>1
      <3> QED
        BY <1>1, <3>1 DEF In
    <2>3. In(q, Head(q))
      BY <1>1 DEF In
    <2> QED
      BY <2>1, <2>2, <2>3
  <1>3. \A e : In(Tail(q), e) => Before(Head(q), e)
    <2> SUFFICES ASSUME NEW e, In(Tail(q), e) PROVE Before(Head(q), e)
      OBVIOUS
    <2> PICK i \in 1 .. Len(q) - 1 : Tail(q)[i] = e
      BY <1>1 DEF In
    <2>1. i + 1 \in 1 .. Len(q) /\ 1 \in 1 .. Len(q) /\ 1 < i + 1
      BY <1>1
    <2> QED
      BY <1>1, <2>1 DEF Ordered
  <1>4. Ordered(Tail(q))
    <2> SUFFICES ASSUME NEW i \in 1 .. Len(q) - 1, NEW k \in 1 .. Len(q) - 1, i < k
                 PROVE  Before(Tail(q)[i], Tail(q)[k])
      BY <1>1 DEF Ordered
    <2>1. i + 1 \in 1 .. Len(q) /\ k + 1 \in 1 .. Len(q) /\ i + 1 < k + 1
      BY <1>1
    <2> QED
      BY <1>1, <2>1 DEF Ordered
  <1> QED
    BY <1>1, <1>2, <1>3, <1>4

LEMMA BusIndInit == EventBusInit => BusInd
  <1> SUFFICES ASSUME EventBusInit PROVE BusInd
    OBVIOUS
  <1> USE EventBusAssumption, DrainerWorks DEF EventBusInit
  <1>1. BusTypes
    <2>1. EmptyChan \in [buf : Seq(BusEvents), closed : BOOLEAN] /\ Len(EmptyChan.buf) = 0
      BY EmptySeq DEF EmptyChan
    <2>2. busHandled \in [Subscribers -> Seq(BusEvents)]
      BY EmptySeq
    <2>3. [at |-> "off"] \in WorkStates /\ IdlePub \in PubStates
      BY DEF WorkStates, PubStates
    <2>4. busWork \in [Subscribers -> [BusWorkers -> WorkStates]]
      BY <2>3
    <2>5. busChan \in [Subscribers -> [buf : Seq(BusEvents), closed : BOOLEAN]]
      BY <2>1
    <2>6. \A s \in Subscribers : Len(busChan[s].buf) <= BusBuffer
      BY <2>1
    <2>7. /\ busClosed \in BOOLEAN /\ busSubs \subseteq Subscribers
          /\ persisted \subseteq BusEvents
          /\ subAt \in [Subscribers -> {"new", "started", "refused", "on", "removed", "wait", "off"}]
          /\ closeAt \in {"no", "closing", "wait", "done"} /\ closeList \subseteq Subscribers
      OBVIOUS
    <2>8. pubAt \in [Publishers -> PubStates]
      BY <2>3
    <2>9. pubCount \in [Publishers -> 0 .. MaxPublish]
      <3>1. 0 \in 0 .. MaxPublish
        OBVIOUS
      <3> QED
        BY <3>1
    <2> HIDE DEF EventBusInit
    <2> QED
      BY <2>2, <2>4, <2>5, <2>6, <2>7, <2>8, <2>9 DEF BusTypes
  <1>2. Lists
    BY DEF Lists, EmptyChan, IdlePub
  <1>3. Workers
    BY DEF Workers, EmptyChan
  <1>4. \A s \in Subscribers : \A e : ~Held(s, e)
    BY DEF Held, In, Busy, EmptyChan
  <1>5. Numbers
    BY <1>4 DEF Numbers, IdlePub
  <1>6. Streams
    BY <1>4 DEF Streams, Held, Ordered, EmptyChan
  <1> QED
    BY <1>1, <1>2, <1>3, <1>5, <1>6 DEF BusInd

(* What an invariant is about. *)
LEMMA StreamsFrame ==
    ASSUME Streams, UNCHANGED <<busHandled, busChan, busWork>>
    PROVE  Streams'
  BY DEF Streams, In, Busy, Ordered

LEMMA HeldFrame ==
    ASSUME UNCHANGED <<busHandled, busChan, busWork>>
    PROVE  \A s, e : Held(s, e)' <=> Held(s, e)
  BY DEF Held, In, Busy

LEMMA PublishBeginKeeps == ASSUME BusInd, NEW p \in Publishers, PublishBegin(p) PROVE BusInd'
  <1> USE DEF BusInd
  <1> DEFINE to == IF busClosed THEN IdlePub ELSE [at |-> "persist", ev |-> <<p, pubCount[p] + 1>>]
  <1>1. /\ pubAt[p] = IdlePub /\ pubCount[p] < MaxPublish
        /\ pubCount' = [pubCount EXCEPT ![p] = @ + 1] /\ pubAt' = [pubAt EXCEPT ![p] = to]
        /\ UNCHANGED <<busClosed, busSubs, busChan, busWork, busHandled, persisted, subAt, closeAt, closeList>>
    BY DEF PublishBegin, PubGoto
  <1>2. pubCount[p] + 1 \in 1 .. MaxPublish /\ pubCount[p] \in Nat
    BY <1>1, EventBusAssumption DEF BusTypes
  <1>3. to \in PubStates /\ to.at \in {"idle", "persist"} /\ (to # IdlePub => to.ev = <<p, pubCount[p] + 1>>)
    BY <1>2 DEF PubStates, BusEvents, IdlePub
  <1> HIDE DEF to
  <1>4. /\ pubAt' \in [Publishers -> PubStates] /\ pubAt'[p] = to
        /\ pubCount' \in [Publishers -> 0 .. MaxPublish] /\ pubCount'[p] = pubCount[p] + 1
        /\ \A r \in Publishers : r # p => pubAt'[r] = pubAt[r] /\ pubCount'[r] = pubCount[r]
    BY <1>1, <1>2, <1>3 DEF BusTypes
  <1>5. BusTypes'
    BY <1>1, <1>4 DEF BusTypes
  <1>6. Lists'
    BY <1>1, <1>3, <1>4 DEF Lists
  <1>7. Workers'
    BY <1>1 DEF Workers
  <1>8. Numbers'
    <2>1. \A s, e : Held(s, e)' <=> Held(s, e)
      BY <1>1, HeldFrame
    <2>2. \A r \in Publishers : pubAt'[r] # IdlePub => pubAt'[r].ev = <<r, pubCount'[r]>>
      BY <1>3, <1>4 DEF Numbers
    <2>3. \A r \in Publishers : pubAt'[r].at \in {"lock", "fanout"} => pubAt'[r].ev \in persisted'
      BY <1>1, <1>3, <1>4 DEF Numbers
    <2>4. \A s \in Subscribers, e \in BusEvents : Held(s, e)' => e \in persisted' /\ e[2] <= pubCount'[e[1]]
      BY <1>1, <1>2, <1>4, <2>1, EventParts DEF Numbers
    <2>5. ASSUME NEW s \in Subscribers, NEW e \in BusEvents, Held(s, e)', Pending(e[1], s)'
          PROVE  e[2] < pubCount'[e[1]]
      <3>1. CASE e[1] = p
        BY <1>2, <1>4, <2>1, <2>5, <3>1, EventParts DEF Numbers
      <3>2. CASE e[1] # p
        BY <1>4, <2>1, <2>5, <3>2, EventParts DEF Numbers, Pending
      <3> QED
        BY <3>1, <3>2
    <2> QED
      BY <2>2, <2>3, <2>4, <2>5 DEF Numbers
  <1>9. Streams'
    BY <1>1, StreamsFrame
  <1> QED
    BY <1>5, <1>6, <1>7, <1>8, <1>9

(* Persist, FanOutBegin and FanOutEnd: a publisher moves on, persisted at  *)
(* most grows, and whoever is still to be served was so before.            *)
LEMMA PublisherMoves ==
    ASSUME BusInd, NEW p \in Publishers, NEW to \in PubStates,
           pubAt' = [pubAt EXCEPT ![p] = to],
           to # IdlePub => to.ev = pubAt[p].ev /\ pubAt[p] # IdlePub,
           to.at \in {"lock", "fanout"} => pubAt[p].at \in {"persist", "lock"} /\ to.ev \in persisted',
           to.at = "fanout" => to.todo \subseteq busSubs,
           to.at # "persist",
           persisted \subseteq persisted', persisted' \subseteq BusEvents,
           UNCHANGED <<busClosed, busSubs, busChan, busWork, busHandled, pubCount, subAt, closeAt, closeList>>
    PROVE  BusInd'
  <1> USE DEF BusInd
  <1>1. /\ pubAt' \in [Publishers -> PubStates] /\ pubAt'[p] = to
        /\ \A r \in Publishers : r # p => pubAt'[r] = pubAt[r]
    BY DEF BusTypes
  <1>2. BusTypes'
    BY <1>1 DEF BusTypes
  <1>3. Lists'
    BY <1>1 DEF Lists
  <1>4. Workers'
    BY DEF Workers
  <1>5. Numbers'
    <2>1. \A s, e : Held(s, e)' <=> Held(s, e)
      BY HeldFrame
    <2>2. \A r \in Publishers : pubAt'[r] # IdlePub => pubAt'[r].ev = <<r, pubCount'[r]>>
      BY <1>1 DEF Numbers
    <2>3. \A r \in Publishers : pubAt'[r].at \in {"lock", "fanout"} => pubAt'[r].ev \in persisted'
      BY <1>1 DEF Numbers
    <2>4. \A s \in Subscribers, e \in BusEvents : Held(s, e)' => e \in persisted' /\ e[2] <= pubCount'[e[1]]
      BY <2>1 DEF Numbers
    <2>5. ASSUME NEW s, NEW r \in Publishers, Pending(r, s)' PROVE Pending(r, s)
      BY <1>1, <2>5 DEF Pending
    <2> QED
      BY <2>1, <2>2, <2>3, <2>4, <2>5, EventParts DEF Numbers
  <1>6. Streams'
    BY StreamsFrame
  <1> QED
    BY <1>2, <1>3, <1>4, <1>5, <1>6

LEMMA PublisherKeeps ==
    ASSUME BusInd, NEW p \in Publishers, Persist(p) \/ FanOutBegin(p) \/ FanOutEnd(p)
    PROVE  BusInd'
  <1> USE DEF BusInd, PubGoto
  <1>0. pubAt[p] \in PubStates
    BY DEF BusTypes
  <1>1. CASE Persist(p)
    <2> DEFINE to == [pubAt[p] EXCEPT !.at = "lock"]
    <2>1. pubAt[p].at = "persist" /\ pubAt[p] \in [at : {"persist", "lock"}, ev : BusEvents]
      BY <1>0, <1>1 DEF Persist, PubStates, IdlePub
    <2>2. to \in PubStates /\ to.at = "lock" /\ to.ev = pubAt[p].ev /\ pubAt[p] # IdlePub /\ to.ev \in BusEvents
      BY <2>1 DEF PubStates, IdlePub
    <2>3. /\ persisted' = persisted \cup {pubAt[p].ev} /\ pubAt' = [pubAt EXCEPT ![p] = to]
          /\ UNCHANGED <<busClosed, busSubs, busChan, busWork, busHandled, pubCount, subAt, closeAt, closeList>>
      BY <1>1 DEF Persist
    <2>4. persisted' \subseteq BusEvents /\ persisted \subseteq persisted' /\ to.ev \in persisted'
      BY <2>2, <2>3 DEF BusTypes
    <2> HIDE DEF to
    <2> QED
      BY <2>1, <2>2, <2>3, <2>4, PublisherMoves
  <1>2. CASE FanOutBegin(p)
    <2> DEFINE to == IF busClosed THEN IdlePub ELSE [at |-> "fanout", ev |-> pubAt[p].ev, todo |-> busSubs]
    <2>1. pubAt[p].at = "lock" /\ pubAt[p] \in [at : {"persist", "lock"}, ev : BusEvents] /\ pubAt[p].ev \in persisted
      BY <1>0, <1>2 DEF FanOutBegin, PubStates, IdlePub, Numbers
    <2>2. /\ to \in PubStates /\ to.at \in {"idle", "fanout"} /\ pubAt[p] # IdlePub
          /\ (to # IdlePub => to.ev = pubAt[p].ev) /\ (to.at = "fanout" => to.todo = busSubs /\ to.ev = pubAt[p].ev)
      BY <2>1 DEF PubStates, IdlePub, BusTypes
    <2>3. /\ pubAt' = [pubAt EXCEPT ![p] = to]
          /\ UNCHANGED <<busClosed, busSubs, busChan, busWork, busHandled, pubCount, persisted, subAt, closeAt, closeList>>
      BY <1>2 DEF FanOutBegin
    <2>4. persisted \subseteq BusEvents
      BY DEF BusTypes
    <2> HIDE DEF to
    <2> QED
      BY <2>1, <2>2, <2>3, <2>4, PublisherMoves
  <1>3. CASE FanOutEnd(p)
    <2>1. IdlePub \in PubStates /\ IdlePub.at = "idle" /\ persisted \subseteq BusEvents
      BY DEF PubStates, IdlePub, BusTypes
    <2>2. /\ pubAt' = [pubAt EXCEPT ![p] = IdlePub]
          /\ UNCHANGED <<busClosed, busSubs, busChan, busWork, busHandled, pubCount, persisted, subAt, closeAt, closeList>>
      BY <1>3 DEF FanOutEnd
    <2> QED
      BY <2>1, <2>2, PublisherMoves
  <1> QED
    BY <1>1, <1>2, <1>3

(* One subscriber is served: its stream gets the publisher's last event,   *)
(* which is not in it, or stays as it is.                                  *)
LEMMA FanOutKeeps ==
    ASSUME BusInd, NEW p \in Publishers, NEW s \in Subscribers, FanOut(p, s) PROVE BusInd'
  <1> USE DEF BusInd, PubGoto
  <1> DEFINE ev == pubAt[p].ev
             to == [pubAt[p] EXCEPT !.todo = @ \ {s}]
             q  == busChan[s].buf
  <1>1. /\ pubAt[p].at = "fanout" /\ s \in pubAt[p].todo
        /\ pubAt[p] \in [at : {"fanout"}, ev : BusEvents, todo : SUBSET Subscribers]
    <2>1. pubAt[p] \in PubStates
      BY DEF BusTypes
    <2> QED
      BY <2>1 DEF FanOut, PubStates, IdlePub
  <1>2. /\ to \in PubStates /\ to.at = "fanout" /\ to.ev = ev /\ to.todo = pubAt[p].todo \ {s} /\ to # IdlePub
        /\ ev \in BusEvents /\ pubAt[p] # IdlePub
    BY <1>1 DEF PubStates, IdlePub
  <1>3. /\ pubAt' = [pubAt EXCEPT ![p] = to]
        /\ busChan' = IF Len(q) < BusBuffer THEN [busChan EXCEPT ![s].buf = Append(@, ev)] ELSE busChan
        /\ UNCHANGED <<busClosed, busSubs, busWork, busHandled, pubCount, persisted, subAt, closeAt, closeList>>
    BY DEF FanOut
  <1>4. /\ ev = <<p, pubCount[p]>> /\ ev[1] = p /\ ev[2] = pubCount[p] /\ ev \in persisted
        /\ pubAt[p].todo \subseteq busSubs
    BY <1>1, <1>2 DEF Numbers, Lists
  <1>5. /\ q \in Seq(BusEvents) /\ busChan[s] \in [buf : Seq(BusEvents), closed : BOOLEAN]
        /\ Len(q) \in Nat /\ Len(q) <= BusBuffer
    BY DEF BusTypes
  <1>51. Append(q, ev) \in Seq(BusEvents) /\ Len(Append(q, ev)) = Len(q) + 1
    BY <1>2, <1>5, AppendIn
  <1>6. /\ busChan' \in [Subscribers -> [buf : Seq(BusEvents), closed : BOOLEAN]]
        /\ \A r \in Subscribers : busChan'[r].closed = busChan[r].closed /\ (r # s => busChan'[r] = busChan[r])
        /\ busChan'[s].buf = IF Len(q) < BusBuffer THEN Append(q, ev) ELSE q
    <2>1. CASE Len(q) < BusBuffer
      <3>1. busChan' = [busChan EXCEPT ![s] = [busChan[s] EXCEPT !.buf = Append(q, ev)]]
        BY <1>3, <2>1
      <3>2. /\ [busChan[s] EXCEPT !.buf = Append(q, ev)] \in [buf : Seq(BusEvents), closed : BOOLEAN]
            /\ [busChan[s] EXCEPT !.buf = Append(q, ev)].buf = Append(q, ev)
            /\ [busChan[s] EXCEPT !.buf = Append(q, ev)].closed = busChan[s].closed
        BY <1>5, <1>51
      <3> QED
        BY <2>1, <3>1, <3>2 DEF BusTypes
    <2>2. CASE ~(Len(q) < BusBuffer)
      BY <1>3, <2>2 DEF BusTypes
    <2> QED
      BY <2>1, <2>2
  <1> HIDE DEF to, ev
  <1>7. /\ pubAt' \in [Publishers -> PubStates] /\ pubAt'[p] = to
        /\ \A r \in Publishers : r # p => pubAt'[r] = pubAt[r]
    BY <1>2, <1>3 DEF BusTypes
  <1>8. BusTypes'
    <2>1. \A r \in Subscribers : Len(busChan'[r].buf) <= BusBuffer
      <3>1. Len(busChan'[s].buf) <= BusBuffer
        BY <1>5, <1>51, <1>6, EventBusAssumption
      <3> QED
        BY <1>6, <3>1 DEF BusTypes
    <2> QED
      BY <1>3, <1>6, <1>7, <2>1 DEF BusTypes
  <1>9. Lists'
    <2>1. \A r \in Publishers : pubAt'[r].at = "fanout" => pubAt'[r].todo \subseteq busSubs'
      BY <1>1, <1>2, <1>3, <1>7 DEF Lists
    <2> QED
      BY <1>3, <1>6, <2>1 DEF Lists, BusTypes
  <1>10. s \in busSubs /\ ~busChan[s].closed /\ busWork[s][Drainer].at # "left"
    BY <1>1, <1>4 DEF Lists, Workers
  <1>11. Workers'
    BY <1>3, <1>6, <1>10 DEF Workers
  <1>12. \A e \in BusEvents : In(busChan'[s].buf, e) => In(q, e) \/ e = ev
    BY <1>2, <1>5, <1>6, AppendIn
  <1>13. \A r \in Subscribers, e \in BusEvents : Held(r, e)' => Held(r, e) \/ (r = s /\ e = ev)
    <2> SUFFICES ASSUME NEW r \in Subscribers, NEW e \in BusEvents, Held(r, e)'
                 PROVE  Held(r, e) \/ (r = s /\ e = ev)
      OBVIOUS
    <2>1. (In(busHandled[r], e) <=> In(busHandled[r], e)') /\ (Busy(r, e) <=> Busy(r, e)')
      BY <1>3 DEF In, Busy
    <2>2. In(busChan[r].buf, e)' => In(busChan[r].buf, e) \/ (r = s /\ e = ev)
      BY <1>6, <1>12 DEF In
    <2> QED
      BY <2>1, <2>2 DEF Held
  <1>14. Numbers'
    <2>1. \A r \in Publishers : pubAt'[r] # IdlePub => pubAt'[r].ev = <<r, pubCount'[r]>>
      BY <1>2, <1>3, <1>4, <1>7 DEF Numbers
    <2>2. \A r \in Publishers : pubAt'[r].at \in {"lock", "fanout"} => pubAt'[r].ev \in persisted'
      BY <1>2, <1>3, <1>4, <1>7 DEF Numbers
    <2>3. pubCount[p] \in Nat
      BY EventBusAssumption DEF BusTypes
    <2>4. \A r \in Subscribers, e \in BusEvents : Held(r, e)' => e \in persisted' /\ e[2] <= pubCount'[e[1]]
      BY <1>3, <1>4, <1>13, <2>3 DEF Numbers
    <2>5. ASSUME NEW r \in Subscribers, NEW e \in BusEvents, Held(r, e)', Pending(e[1], r)'
          PROVE  e[2] < pubCount'[e[1]]
      <3>1. Pending(e[1], r) /\ ~(r = s /\ e = ev)
        BY <1>1, <1>2, <1>4, <1>7, <2>5, EventParts DEF Pending
      <3> QED
        BY <1>3, <1>13, <2>5, <3>1 DEF Numbers
    <2> QED
      BY <2>1, <2>2, <2>4, <2>5 DEF Numbers
  <1>15. \A e \in BusEvents : Held(s, e) => Before(e, ev)
    <2>1. Pending(p, s)
      BY <1>1 DEF Pending
    <2> QED
      BY <1>4, <2>1 DEF Numbers, Before
  <1>16. Streams'
    <2>1. \A r \in Subscribers : \A e : (In(busHandled[r], e) <=> In(busHandled[r], e)') /\ (Busy(r, e) <=> Busy(r, e)')
      BY <1>3 DEF In, Busy
    <2>2. Ordered(busChan'[s].buf)
      <3>1. \A e \in BusEvents : In(q, e) => Before(e, ev)
        BY <1>15 DEF Held
      <3>2. Ordered(q)
        BY DEF Streams
      <3> HIDE DEF q
      <3>3. Ordered(Append(q, ev))
        BY <1>2, <1>5, <3>1, <3>2, AppendOrdered
      <3> QED
        BY <1>6, <3>2, <3>3
    <2>3. ASSUME NEW r \in Subscribers, NEW f \in BusEvents, In(busChan[r].buf, f)'
          PROVE  In(busChan[r].buf, f) \/ (r = s /\ f = ev)
      BY <1>6, <1>12, <2>3 DEF In
    <2>4. ASSUME NEW r \in Subscribers
          PROVE  Ordered(busHandled'[r]) /\ Ordered(busChan'[r].buf)
      BY <1>3, <1>6, <2>2 DEF Streams
    <2>5. ASSUME NEW r \in Subscribers, NEW e \in BusEvents, NEW f \in BusEvents
          PROVE  /\ In(busHandled[r], e)' /\ Busy(r, f)' => Before(e, f)
                 /\ In(busHandled[r], e)' /\ In(busChan[r].buf, f)' => Before(e, f)
                 /\ Busy(r, e)' /\ In(busChan[r].buf, f)' => Before(e, f)
      BY <1>15, <2>1, <2>3 DEF Streams, Held
    <2> QED
      BY <2>4, <2>5 DEF Streams
  <1> QED
    BY <1>8, <1>9, <1>11, <1>14, <1>16

(* A worker that moves, with the other workers and subscribers as before. *)
LEMMA WorkUpdate ==
    ASSUME busWork \in [Subscribers -> [BusWorkers -> WorkStates]],
           NEW s \in Subscribers, NEW w \in BusWorkers, NEW to \in WorkStates,
           busWork' = [busWork EXCEPT ![s][w] = to]
    PROVE  /\ busWork' \in [Subscribers -> [BusWorkers -> WorkStates]]
           /\ busWork'[s][w] = to
           /\ \A r \in Subscribers, v \in BusWorkers : (r # s \/ v # w) => busWork'[r][v] = busWork[r][v]
  OBVIOUS

(* The drainer takes the first event of the channel: it stays in the       *)
(* stream, behind what was handled and before what waits.                  *)
LEMMA TakeKeeps ==
    ASSUME BusInd, NEW s \in Subscribers, NEW w \in BusWorkers, TakeFromBus(s, w) PROVE BusInd'
  <1> USE DEF BusInd, SetWork
  <1> DEFINE q == busChan[s].buf
             to == [at |-> "busy", ev |-> Head(q)]
  <1>1. /\ busWork[s][w].at = "idle" /\ q # <<>>
        /\ busWork' = [busWork EXCEPT ![s][w] = to] /\ busChan' = [busChan EXCEPT ![s].buf = Tail(q)]
        /\ UNCHANGED <<busClosed, busSubs, busHandled, pubAt, pubCount, persisted, subAt, closeAt, closeList>>
    BY DEF TakeFromBus
  <1>2. w = Drainer
    BY <1>1 DEF Workers
  <1>3. /\ q \in Seq(BusEvents) /\ busChan[s] \in [buf : Seq(BusEvents), closed : BOOLEAN]
        /\ Ordered(q) /\ Len(q) <= BusBuffer
    BY DEF BusTypes, Streams
  <1>4. /\ Tail(q) \in Seq(BusEvents) /\ Head(q) \in BusEvents /\ Len(Tail(q)) = Len(q) - 1 /\ Len(q) \in Nat
        /\ \A e : In(q, e) <=> e = Head(q) \/ In(Tail(q), e)
        /\ \A e : In(Tail(q), e) => Before(Head(q), e)
        /\ Ordered(Tail(q))
    <2> HIDE DEF q
    <2> QED
      BY <1>1, <1>3, TailIn
  <1>5. /\ busChan' \in [Subscribers -> [buf : Seq(BusEvents), closed : BOOLEAN]]
        /\ \A r \in Subscribers : busChan'[r].closed = busChan[r].closed /\ (r # s => busChan'[r] = busChan[r])
        /\ busChan'[s].buf = Tail(q)
    <2>1. busChan' = [busChan EXCEPT ![s] = [busChan[s] EXCEPT !.buf = Tail(q)]]
      BY <1>1
    <2>2. /\ [busChan[s] EXCEPT !.buf = Tail(q)] \in [buf : Seq(BusEvents), closed : BOOLEAN]
          /\ [busChan[s] EXCEPT !.buf = Tail(q)].buf = Tail(q)
          /\ [busChan[s] EXCEPT !.buf = Tail(q)].closed = busChan[s].closed
      BY <1>3, <1>4
    <2> QED
      BY <2>1, <2>2 DEF BusTypes
  <1>6. to \in WorkStates /\ to.at = "busy" /\ to.ev = Head(q)
    BY <1>4 DEF WorkStates
  <1> HIDE DEF to
  <1>7. /\ busWork' \in [Subscribers -> [BusWorkers -> WorkStates]] /\ busWork'[s][Drainer] = to
        /\ \A r \in Subscribers, v \in BusWorkers : (r # s \/ v # Drainer) => busWork'[r][v] = busWork[r][v]
    <2>1. busWork \in [Subscribers -> [BusWorkers -> WorkStates]] /\ busWork' = [busWork EXCEPT ![s][w] = to]
      BY <1>1 DEF BusTypes
    <2>0. to \in WorkStates
      BY <1>6
    <2>2. /\ busWork' \in [Subscribers -> [BusWorkers -> WorkStates]] /\ busWork'[s][w] = to
          /\ \A r \in Subscribers, v \in BusWorkers : (r # s \/ v # w) => busWork'[r][v] = busWork[r][v]
      BY <2>0, <2>1, WorkUpdate
    <2> QED
      BY <1>2, <2>2
  <1>8. BusTypes'
    <2>1. \A r \in Subscribers : Len(busChan'[r].buf) <= BusBuffer
      <3>1. Len(busChan'[s].buf) <= BusBuffer
        BY <1>3, <1>4, <1>5, EventBusAssumption
      <3> QED
        BY <1>5, <3>1 DEF BusTypes
    <2> QED
      BY <1>1, <1>5, <1>7, <2>1 DEF BusTypes
  <1>9. Lists'
    BY <1>1, <1>5 DEF Lists, BusTypes
  <1>10. Workers'
    <2>1. \A r \in Subscribers : r # s => busWork'[r][Drainer] = busWork[r][Drainer]
      BY <1>7, DrainerWorks
    <2>2. subAt[s] \notin {"new", "off"} /\ ~(closeAt = "done" /\ s \in closeList)
      BY <1>1, <1>2 DEF Workers
    <2> QED
      BY <1>1, <1>5, <1>6, <1>7, <2>1, <2>2 DEF Workers
  <1>11. \A r \in Subscribers : \A e : In(busHandled[r], e)' <=> In(busHandled[r], e)
    BY <1>1 DEF In
  <1>12. \A r \in Subscribers : \A e : r # s =>
            (Busy(r, e)' <=> Busy(r, e)) /\ (In(busChan[r].buf, e)' <=> In(busChan[r].buf, e))
    BY <1>5, <1>7, DrainerWorks DEF Busy, In
  <1>13. \A e : (Busy(s, e)' <=> e = Head(q)) /\ (In(busChan[s].buf, e)' <=> In(Tail(q), e)) /\ ~Busy(s, e)
    BY <1>1, <1>2, <1>5, <1>6, <1>7 DEF Busy, In
  <1>14. \A r \in Subscribers : \A e : Held(r, e)' <=> Held(r, e)
    <2> TAKE r \in Subscribers
    <2> TAKE e
    <2>1. CASE r # s
      BY <1>11, <1>12, <2>1 DEF Held
    <2>2. CASE r = s
      BY <1>4, <1>11, <1>13, <2>2 DEF Held
    <2> QED
      BY <2>1, <2>2
  <1>15. Numbers'
    BY <1>1, <1>14 DEF Numbers, Pending
  <1>16. Streams'
    <2>1. ASSUME NEW r \in Subscribers
          PROVE  Ordered(busHandled'[r]) /\ Ordered(busChan'[r].buf)
      BY <1>1, <1>4, <1>5 DEF Streams
    <2>2. ASSUME NEW r \in Subscribers, NEW e \in BusEvents, NEW f \in BusEvents
          PROVE  /\ In(busHandled[r], e)' /\ Busy(r, f)' => Before(e, f)
                 /\ In(busHandled[r], e)' /\ In(busChan[r].buf, f)' => Before(e, f)
                 /\ Busy(r, e)' /\ In(busChan[r].buf, f)' => Before(e, f)
      <3>1. CASE r # s
        BY <1>11, <1>12, <3>1 DEF Streams
      <3>2. CASE r = s
        BY <1>4, <1>11, <1>13, <3>2 DEF Streams
      <3> QED
        BY <3>1, <3>2
    <2> QED
      BY <2>1, <2>2 DEF Streams
  <1> QED
    BY <1>8, <1>9, <1>10, <1>15, <1>16

(* The handler returns: the event moves to the end of what was handled. *)
LEMMA HandledKeeps ==
    ASSUME BusInd, NEW s \in Subscribers, NEW w \in BusWorkers, Handled(s, w) PROVE BusInd'
  <1> USE DEF BusInd, SetWork
  <1> DEFINE ev == busWork[s][w].ev
             h  == busHandled[s]
             to == [at |-> "idle"]
  <1>1. /\ busWork[s][w].at = "busy"
        /\ busWork' = [busWork EXCEPT ![s][w] = to] /\ busHandled' = [busHandled EXCEPT ![s] = Append(h, ev)]
        /\ UNCHANGED <<busClosed, busSubs, busChan, pubAt, pubCount, persisted, subAt, closeAt, closeList>>
    BY DEF Handled
  <1>2. w = Drainer
    BY <1>1 DEF Workers
  <1>3. ev \in BusEvents /\ h \in Seq(BusEvents) /\ Busy(s, ev) /\ Ordered(h)
    <2>1. busWork[s][w] \in WorkStates
      BY DEF BusTypes
    <2>2. ev \in BusEvents
      BY <1>1, <2>1 DEF WorkStates
    <2> QED
      BY <1>1, <1>2, <2>2 DEF BusTypes, Busy, Streams
  <1>4. \A e \in BusEvents : In(h, e) => Before(e, ev)
    BY <1>3 DEF Streams
  <1>5. to \in WorkStates /\ to.at = "idle"
    BY DEF WorkStates
  <1> HIDE DEF to, ev, h
  <1>6. /\ Append(h, ev) \in Seq(BusEvents) /\ Ordered(Append(h, ev))
        /\ \A e : In(Append(h, ev), e) <=> In(h, e) \/ e = ev
    <2>1. Append(h, ev) \in Seq(BusEvents) /\ \A e : In(Append(h, ev), e) <=> In(h, e) \/ e = ev
      BY <1>3, AppendIn
    <2>2. Ordered(Append(h, ev))
      BY <1>3, <1>4, AppendOrdered
    <2> QED
      BY <2>1, <2>2
  <1>7. /\ busWork' \in [Subscribers -> [BusWorkers -> WorkStates]] /\ busWork'[s][Drainer] = to
        /\ \A r \in Subscribers, v \in BusWorkers : (r # s \/ v # Drainer) => busWork'[r][v] = busWork[r][v]
    <2>1. busWork \in [Subscribers -> [BusWorkers -> WorkStates]] /\ busWork' = [busWork EXCEPT ![s][w] = to]
      BY <1>1 DEF BusTypes
    <2>0. to \in WorkStates
      BY <1>5
    <2>2. /\ busWork' \in [Subscribers -> [BusWorkers -> WorkStates]] /\ busWork'[s][w] = to
          /\ \A r \in Subscribers, v \in BusWorkers : (r # s \/ v # w) => busWork'[r][v] = busWork[r][v]
      BY <2>0, <2>1, WorkUpdate
    <2> QED
      BY <1>2, <2>2
  <1>8. /\ busHandled' \in [Subscribers -> Seq(BusEvents)] /\ busHandled'[s] = Append(h, ev)
        /\ \A r \in Subscribers : r # s => busHandled'[r] = busHandled[r]
    BY <1>1, <1>6 DEF BusTypes
  <1>9. BusTypes'
    BY <1>1, <1>7, <1>8 DEF BusTypes
  <1>10. Lists'
    BY <1>1 DEF Lists
  <1>11. Workers'
    <2>1. \A r \in Subscribers : r # s => busWork'[r][Drainer] = busWork[r][Drainer]
      BY <1>7, DrainerWorks
    <2>2. subAt[s] \notin {"new", "off"} /\ ~(closeAt = "done" /\ s \in closeList)
      BY <1>1, <1>2 DEF Workers
    <2> QED
      BY <1>1, <1>5, <1>7, <2>1, <2>2 DEF Workers
  <1>12. \A r \in Subscribers : \A e : In(busChan[r].buf, e)' <=> In(busChan[r].buf, e)
    BY <1>1 DEF In
  <1>13. \A r \in Subscribers : \A e : r # s =>
            (Busy(r, e)' <=> Busy(r, e)) /\ (In(busHandled[r], e)' <=> In(busHandled[r], e))
    BY <1>7, <1>8, DrainerWorks DEF Busy, In
  <1>14. \A e : ~Busy(s, e)' /\ (In(busHandled[s], e)' <=> In(h, e) \/ e = ev) /\ (Busy(s, e) <=> e = ev)
    <2>1. \A e : ~Busy(s, e)' /\ (Busy(s, e) <=> e = ev)
      BY <1>1, <1>2, <1>5, <1>7 DEF Busy, ev
    <2>2. \A e : In(busHandled[s], e)' <=> In(h, e) \/ e = ev
      BY <1>6, <1>8 DEF In
    <2> QED
      BY <2>1, <2>2
  <1>15. \A r \in Subscribers : \A e : Held(r, e)' <=> Held(r, e)
    <2> TAKE r \in Subscribers
    <2> TAKE e
    <2>1. CASE r # s
      BY <1>12, <1>13, <2>1 DEF Held
    <2>2. CASE r = s
      BY <1>12, <1>14, <2>2 DEF Held, h
    <2> QED
      BY <2>1, <2>2
  <1>16. Numbers'
    BY <1>1, <1>15 DEF Numbers, Pending
  <1>17. Streams'
    <2>1. ASSUME NEW r \in Subscribers
          PROVE  Ordered(busHandled'[r]) /\ Ordered(busChan'[r].buf)
      BY <1>1, <1>6, <1>8 DEF Streams
    <2>2. ASSUME NEW r \in Subscribers, NEW e \in BusEvents, NEW f \in BusEvents
          PROVE  /\ In(busHandled[r], e)' /\ Busy(r, f)' => Before(e, f)
                 /\ In(busHandled[r], e)' /\ In(busChan[r].buf, f)' => Before(e, f)
                 /\ Busy(r, e)' /\ In(busChan[r].buf, f)' => Before(e, f)
      <3>1. CASE r # s
        BY <1>12, <1>13, <3>1 DEF Streams
      <3>2. CASE r = s
        BY <1>3, <1>12, <1>14, <3>2 DEF Streams, h
      <3> QED
        BY <3>1, <3>2
    <2> QED
      BY <2>1, <2>2 DEF Streams
  <1> QED
    BY <1>9, <1>10, <1>11, <1>16, <1>17

(* A worker starts or leaves: the streams stay as they are. *)
LEMMA IdleWork ==
    ASSUME BusInd, NEW s \in Subscribers, NEW to \in [at : {"idle", "left"}],
           busWork[s][Drainer].at # "busy", busWork' = [busWork EXCEPT ![s][Drainer] = to],
           UNCHANGED <<busChan, busHandled, pubAt, pubCount, persisted>>
    PROVE  /\ busWork' \in [Subscribers -> [BusWorkers -> WorkStates]] /\ busWork'[s][Drainer] = to
           /\ \A r \in Subscribers, v \in BusWorkers : (r # s \/ v # Drainer) => busWork'[r][v] = busWork[r][v]
           /\ Numbers' /\ Streams'
  <1> USE DrainerWorks DEF BusInd
  <1>1. to \in WorkStates /\ to.at # "busy" /\ BusTypes
    BY DEF WorkStates
  <1>2. /\ busWork' \in [Subscribers -> [BusWorkers -> WorkStates]] /\ busWork'[s][Drainer] = to
        /\ \A r \in Subscribers, v \in BusWorkers : (r # s \/ v # Drainer) => busWork'[r][v] = busWork[r][v]
    <2>1. busWork \in [Subscribers -> [BusWorkers -> WorkStates]] /\ to \in WorkStates /\ Drainer \in BusWorkers
      BY <1>1 DEF BusTypes
    <2> QED
      BY <2>1, WorkUpdate
  <1>3. \A r \in Subscribers : \A e : /\ (Busy(r, e)' <=> Busy(r, e))
                                  /\ (In(busHandled[r], e)' <=> In(busHandled[r], e))
                                  /\ (In(busChan[r].buf, e)' <=> In(busChan[r].buf, e))
    <2> TAKE r \in Subscribers
    <2> TAKE e
    <2>1. Busy(r, e)' <=> Busy(r, e)
      BY <1>1, <1>2 DEF Busy
    <2>2. (In(busHandled[r], e)' <=> In(busHandled[r], e)) /\ (In(busChan[r].buf, e)' <=> In(busChan[r].buf, e))
      BY DEF In
    <2> QED
      BY <2>1, <2>2
  <1>4. \A r \in Subscribers : \A e : Held(r, e)' <=> Held(r, e)
    BY <1>3 DEF Held
  <1>5. Numbers'
    BY <1>4 DEF Numbers, Pending
  <1>6. Streams'
    <2>1. ASSUME NEW r \in Subscribers PROVE Ordered(busHandled'[r]) /\ Ordered(busChan'[r].buf)
      BY DEF Streams
    <2> QED
      BY <1>3, <2>1 DEF Streams
  <1> QED
    BY <1>2, <1>5, <1>6

LEMMA LeaveKeeps ==
    ASSUME BusInd, NEW s \in Subscribers, NEW w \in BusWorkers, WorkerLeaves(s, w) PROVE BusInd'
  <1> USE DrainerWorks DEF BusInd
  <1> DEFINE to == [at |-> "left"]
  <1>1. /\ busWork[s][w].at = "idle" /\ busChan[s].closed /\ busChan[s].buf = <<>>
        /\ busWork' = [busWork EXCEPT ![s][w] = to]
        /\ UNCHANGED <<busClosed, busSubs, busChan, busHandled, pubAt, pubCount, persisted, subAt, closeAt, closeList>>
    BY DEF WorkerLeaves, SetWork
  <1>2. w = Drainer
    BY <1>1 DEF Workers
  <1>3. to \in [at : {"idle", "left"}] /\ to.at = "left"
    OBVIOUS
  <1> HIDE DEF to
  <1>4. /\ busWork' \in [Subscribers -> [BusWorkers -> WorkStates]] /\ busWork'[s][Drainer] = to
        /\ \A r \in Subscribers, v \in BusWorkers : (r # s \/ v # Drainer) => busWork'[r][v] = busWork[r][v]
        /\ Numbers' /\ Streams'
    BY <1>1, <1>2, <1>3, IdleWork
  <1>5. BusTypes'
    BY <1>1, <1>4 DEF BusTypes
  <1>6. Lists'
    BY <1>1 DEF Lists
  <1>7. Workers'
    <2>1. \A r \in Subscribers : r # s => busWork'[r][Drainer] = busWork[r][Drainer]
      BY <1>4
    <2>2. subAt[s] # "new"
      BY <1>1, <1>2 DEF Workers
    <2> QED
      BY <1>1, <1>3, <1>4, <2>1, <2>2 DEF Workers
  <1> QED
    BY <1>4, <1>5, <1>6, <1>7

(* Subscribe, first half: the drainer runs before the bus knows of it. *)
LEMMA StartKeeps == ASSUME BusInd, NEW s \in Subscribers, SubscribeStart(s) PROVE BusInd'
  <1> USE DrainerWorks DEF BusInd
  <1> DEFINE to == [at |-> "idle"]
  <1>1. /\ subAt[s] = "new" /\ subAt' = [subAt EXCEPT ![s] = "started"]
        /\ busWork' = [busWork EXCEPT ![s][Drainer] = to]
        /\ UNCHANGED <<busClosed, busSubs, busChan, busHandled, pubAt, pubCount, persisted, closeAt, closeList>>
    BY DEF SubscribeStart, SubGoto, SetWork, Drainer
  <1>2. busWork[s][Drainer].at = "off"
    BY <1>1 DEF Workers
  <1>3. to \in [at : {"idle", "left"}] /\ to.at = "idle"
    OBVIOUS
  <1> HIDE DEF to
  <1>4. /\ busWork' \in [Subscribers -> [BusWorkers -> WorkStates]] /\ busWork'[s][Drainer] = to
        /\ \A r \in Subscribers, v \in BusWorkers : (r # s \/ v # Drainer) => busWork'[r][v] = busWork[r][v]
        /\ Numbers' /\ Streams'
    BY <1>1, <1>2, <1>3, IdleWork
  <1>5. /\ subAt' \in [Subscribers -> {"new", "started", "refused", "on", "removed", "wait", "off"}]
        /\ subAt'[s] = "started" /\ \A r \in Subscribers : r # s => subAt'[r] = subAt[r]
    BY <1>1 DEF BusTypes
  <1>6. BusTypes'
    BY <1>1, <1>4, <1>5 DEF BusTypes
  <1>7. s \notin busSubs /\ s \notin closeList /\ ~busChan[s].closed
    BY <1>1 DEF Lists
  <1>8. Lists'
    BY <1>1, <1>5, <1>7 DEF Lists, BusTypes
  <1>9. Workers'
    <2>1. \A r \in Subscribers : r # s => busWork'[r][Drainer] = busWork[r][Drainer] /\ subAt'[r] = subAt[r]
      BY <1>4, <1>5
    <2> QED
      BY <1>1, <1>3, <1>4, <1>5, <1>7, <2>1 DEF Workers
  <1> QED
    BY <1>4, <1>6, <1>8, <1>9

(* The steps that leave streams and publishers alone. *)
LEMMA QuietStep ==
    ASSUME BusInd, UNCHANGED <<busHandled, busWork, pubAt, pubCount, persisted>>,
           \A r \in Subscribers : busChan'[r].buf = busChan[r].buf
    PROVE  Numbers' /\ Streams'
  <1> USE DEF BusInd
  <1>1. \A r \in Subscribers : \A e : /\ (Busy(r, e)' <=> Busy(r, e))
                                  /\ (In(busHandled[r], e)' <=> In(busHandled[r], e))
                                  /\ (In(busChan[r].buf, e)' <=> In(busChan[r].buf, e))
    BY DEF Busy, In
  <1>2. \A r \in Subscribers : \A e : Held(r, e)' <=> Held(r, e)
    BY <1>1 DEF Held
  <1>3. Numbers'
    BY <1>2 DEF Numbers, Pending
  <1>4. Streams'
    <2>1. ASSUME NEW r \in Subscribers PROVE Ordered(busHandled'[r]) /\ Ordered(busChan'[r].buf)
      BY DEF Streams
    <2> QED
      BY <1>1, <2>1 DEF Streams
  <1> QED
    BY <1>3, <1>4

LEMMA SubGotoTyped ==
    ASSUME BusTypes, NEW s \in Subscribers, NEW from,
           NEW to \in {"new", "started", "refused", "on", "removed", "wait", "off"}, SubGoto(s, from, to)
    PROVE  /\ subAt' \in [Subscribers -> {"new", "started", "refused", "on", "removed", "wait", "off"}]
           /\ subAt[s] = from /\ subAt'[s] = to /\ \A r \in Subscribers : r # s => subAt'[r] = subAt[r]
  BY DEF BusTypes, SubGoto

(* Subscribe, second half, and the unsubscribe function. *)
LEMMA SubscriberKeeps ==
    ASSUME BusInd, NEW s \in Subscribers,
           SubscribeRegister(s) \/ UnsubscribeRemove(s) \/ UnsubscribeReturns(s)
    PROVE  BusInd'
  <1> USE DEF BusInd
  <1>0. UNCHANGED <<busClosed, busChan, busWork, busHandled, pubAt, pubCount, persisted, closeAt, closeList>>
    BY DEF SubscribeRegister, UnsubscribeRemove, UnsubscribeReturns
  <1>1. Numbers' /\ Streams'
    BY <1>0, QuietStep
  <1>2. CASE SubscribeRegister(s)
    <2> PICK to \in {"refused", "on"} : /\ SubGoto(s, "started", to) /\ Readers = {}
                                        /\ to = "refused" => busClosed /\ busSubs' = busSubs
                                        /\ to = "on" => ~busClosed /\ busSubs' = busSubs \cup {s}
      BY <1>2 DEF SubscribeRegister
    <2>1. /\ subAt' \in [Subscribers -> {"new", "started", "refused", "on", "removed", "wait", "off"}]
          /\ subAt[s] = "started" /\ subAt'[s] = to /\ \A r \in Subscribers : r # s => subAt'[r] = subAt[r]
      BY SubGotoTyped
    <2>2. ~busChan[s].closed /\ s \notin closeList /\ s \notin busSubs
      BY <2>1 DEF Lists
    <2>3. BusTypes'
      BY <1>0, <2>1 DEF BusTypes
    <2>4. \A p \in Publishers : pubAt'[p].at = "fanout" => pubAt'[p].todo \subseteq busSubs'
      BY <1>0 DEF Lists, Readers
    <2>5. Lists'
      BY <1>0, <2>1, <2>2, <2>4 DEF Lists, BusTypes
    <2>6. Workers'
      BY <1>0, <2>1 DEF Workers
    <2> QED
      BY <1>1, <2>3, <2>5, <2>6
  <1>3. CASE UnsubscribeRemove(s)
    <2>1. /\ subAt' \in [Subscribers -> {"new", "started", "refused", "on", "removed", "wait", "off"}]
          /\ subAt[s] = "on" /\ subAt'[s] = "removed" /\ \A r \in Subscribers : r # s => subAt'[r] = subAt[r]
      BY <1>3, SubGotoTyped DEF UnsubscribeRemove
    <2>2. Readers = {} /\ busSubs' = busSubs \ {s}
      BY <1>3 DEF UnsubscribeRemove
    <2>3. BusTypes'
      BY <1>0, <2>1, <2>2 DEF BusTypes
    <2>4. \A p \in Publishers : pubAt'[p].at = "fanout" => pubAt'[p].todo \subseteq busSubs'
      BY <1>0, <2>2 DEF Lists, Readers
    <2>5. Lists'
      BY <1>0, <2>1, <2>2, <2>4 DEF Lists, BusTypes
    <2>6. Workers'
      BY <1>0, <2>1 DEF Workers
    <2> QED
      BY <1>1, <2>3, <2>5, <2>6
  <1>4. CASE UnsubscribeReturns(s)
    <2>1. /\ subAt' \in [Subscribers -> {"new", "started", "refused", "on", "removed", "wait", "off"}]
          /\ subAt[s] = "wait" /\ subAt'[s] = "off" /\ \A r \in Subscribers : r # s => subAt'[r] = subAt[r]
      BY <1>4, SubGotoTyped DEF UnsubscribeReturns
    <2>2. Left(s) /\ busSubs' = busSubs
      BY <1>4 DEF UnsubscribeReturns
    <2>3. busWork[s][Drainer].at = "left"
      BY <2>1, <2>2, DrainerWorks DEF Left, Workers
    <2>4. BusTypes'
      BY <1>0, <2>1, <2>2 DEF BusTypes
    <2>5. Lists'
      BY <1>0, <2>1, <2>2 DEF Lists, BusTypes
    <2>6. Workers'
      BY <1>0, <2>1, <2>3 DEF Workers
    <2> QED
      BY <1>1, <2>4, <2>5, <2>6
  <1> QED
    BY <1>2, <1>3, <1>4

(* A channel is closed, by unsubscribe or by Close: nobody on the list. *)
LEMMA ChannelCloses ==
    ASSUME BusInd, NEW s \in Subscribers, busChan' = [busChan EXCEPT ![s].closed = TRUE]
    PROVE  /\ busChan' \in [Subscribers -> [buf : Seq(BusEvents), closed : BOOLEAN]]
           /\ busChan'[s].closed /\ \A r \in Subscribers : busChan'[r].buf = busChan[r].buf
           /\ \A r \in Subscribers : r # s => busChan'[r] = busChan[r]
  <1>1. busChan[s] \in [buf : Seq(BusEvents), closed : BOOLEAN]
    BY DEF BusInd, BusTypes
  <1>2. busChan' = [busChan EXCEPT ![s] = [busChan[s] EXCEPT !.closed = TRUE]]
    OBVIOUS
  <1>3. /\ [busChan[s] EXCEPT !.closed = TRUE] \in [buf : Seq(BusEvents), closed : BOOLEAN]
        /\ [busChan[s] EXCEPT !.closed = TRUE].closed = TRUE
        /\ [busChan[s] EXCEPT !.closed = TRUE].buf = busChan[s].buf
    BY <1>1
  <1> QED
    BY <1>2, <1>3 DEF BusInd, BusTypes

LEMMA CloseChannelKeeps ==
    ASSUME BusInd, NEW s \in Subscribers, UnsubscribeClose(s) \/ CloseChannel(s) PROVE BusInd'
  <1> USE DEF BusInd
  <1>0. /\ busChan' = [busChan EXCEPT ![s].closed = TRUE]
        /\ UNCHANGED <<busClosed, busSubs, busWork, busHandled, pubAt, pubCount, persisted, closeAt, closeList>>
    BY DEF UnsubscribeClose, CloseChannel
  <1>1. /\ busChan' \in [Subscribers -> [buf : Seq(BusEvents), closed : BOOLEAN]]
        /\ busChan'[s].closed /\ \A r \in Subscribers : busChan'[r].buf = busChan[r].buf
        /\ \A r \in Subscribers : r # s => busChan'[r] = busChan[r]
    BY <1>0, ChannelCloses
  <1>2. Numbers' /\ Streams'
    BY <1>0, <1>1, QuietStep
  <1>3. /\ subAt' \in [Subscribers -> {"new", "started", "refused", "on", "removed", "wait", "off"}]
        /\ \A r \in Subscribers : r # s => subAt'[r] = subAt[r]
        /\ \/ subAt'[s] = subAt[s] /\ s \in closeList /\ closeAt = "closing"
           \/ subAt[s] \in {"removed", "refused"} /\ subAt'[s] = "wait"
    <2>1. CASE CloseChannel(s)
      BY <2>1 DEF CloseChannel, BusTypes
    <2>2. CASE UnsubscribeClose(s)
      <3> PICK from \in {"removed", "refused"} : SubGoto(s, from, "wait")
        BY <2>2 DEF UnsubscribeClose
      <3> QED
        BY SubGotoTyped
    <2> QED
      BY <2>1, <2>2
  <1>4. s \notin busSubs /\ subAt[s] \notin {"new", "started"}
    BY <1>3 DEF Lists
  <1>5. BusTypes'
    BY <1>0, <1>1, <1>3 DEF BusTypes
  <1>6. Lists'
    BY <1>0, <1>1, <1>3, <1>4 DEF Lists, BusTypes
  <1>7. Workers'
    BY <1>0, <1>1, <1>3 DEF Workers
  <1> QED
    BY <1>2, <1>5, <1>6, <1>7

(* Close: the list is taken, the channels closed, the workers awaited. *)
LEMMA CloseKeeps == ASSUME BusInd, CloseBegin \/ CloseWaits \/ CloseReturns PROVE BusInd'
  <1> USE DEF BusInd
  <1>0. UNCHANGED <<busChan, busWork, busHandled, pubAt, pubCount, persisted, subAt>>
    BY DEF CloseBegin, CloseWaits, CloseReturns
  <1>1. Numbers' /\ Streams'
    BY <1>0, QuietStep
  <1>2. CASE CloseBegin
    <2>1. closeAt = "no" /\ Readers = {} /\ busClosed' /\ busSubs' = {} /\ closeList' = busSubs /\ closeAt' = "closing"
      BY <1>2 DEF CloseBegin
    <2>2. BusTypes'
      BY <1>0, <1>2 DEF BusTypes, CloseBegin
    <2>3. Lists'
      BY <1>0, <2>1 DEF Lists, Readers, BusTypes
    <2>4. Workers'
      BY <1>0, <2>1 DEF Workers
    <2> QED
      BY <1>1, <2>2, <2>3, <2>4
  <1>3. CASE CloseWaits
    <2>1. closeAt = "closing" /\ closeAt' = "wait" /\ UNCHANGED <<busClosed, busSubs, closeList>>
      BY <1>3 DEF CloseWaits
    <2> QED
      BY <1>0, <1>1, <2>1 DEF BusTypes, Lists, Workers
  <1>4. CASE CloseReturns
    <2>1. /\ closeAt = "wait" /\ closeAt' = "done" /\ UNCHANGED <<busClosed, busSubs, closeList>>
          /\ \A s \in closeList : Left(s)
      BY <1>4 DEF CloseReturns
    <2>2. \A s \in closeList : busWork[s][Drainer].at = "left"
      <3> TAKE s \in closeList
      <3>1. s \in Subscribers /\ subAt[s] # "new"
        BY DEF BusTypes, Lists
      <3> QED
        BY <2>1, <3>1, DrainerWorks DEF Left, Workers
    <2>3. BusTypes' /\ Lists'
      BY <1>0, <2>1 DEF BusTypes, Lists
    <2>4. Workers'
      BY <1>0, <2>1, <2>2 DEF Workers
    <2> QED
      BY <1>1, <2>3, <2>4
  <1> QED
    BY <1>2, <1>3, <1>4

LEMMA BusIndNext == BusInd /\ [EventBusNext]_busVars => BusInd'
  <1> SUFFICES ASSUME BusInd, [EventBusNext]_busVars PROVE BusInd'
    OBVIOUS
  <1>1. ASSUME NEW p \in Publishers, PublishBegin(p) \/ PublishGoesOn(p) PROVE BusInd'
    BY <1>1, PublishBeginKeeps, PublisherKeeps, FanOutKeeps DEF PublishGoesOn
  <1>2. ASSUME NEW s \in Subscribers, SubscribeStart(s) \/ SubscriberCall(s) \/ UnsubscribeRemove(s) PROVE BusInd'
    BY <1>2, StartKeeps, SubscriberKeeps, CloseChannelKeeps DEF SubscriberCall
  <1>3. ASSUME NEW s \in Subscribers, NEW w \in BusWorkers, BusWorker(s, w) PROVE BusInd'
    BY <1>3, TakeKeeps, HandledKeeps, LeaveKeeps DEF BusWorker
  <1>4. CASE CloseBegin \/ CloseCall
    BY <1>4, CloseKeeps, CloseChannelKeeps DEF CloseCall
  <1>5. CASE UNCHANGED busVars
    <2>1. UNCHANGED busVars
      BY <1>5
    <2>2. Numbers' /\ Streams'
      BY <2>1, QuietStep DEF busVars
    <2> QED
      BY <2>1, <2>2 DEF BusInd, busVars, BusTypes, Lists, Workers
  <1> QED
    BY <1>1, <1>2, <1>3, <1>4, <1>5 DEF EventBusNext

(* The inductive invariant says all that the run checks. *)
LEMMA BusIndStrong == BusInd => EventBusInv
  <1> SUFFICES ASSUME BusInd PROVE EventBusInv
    OBVIOUS
  <1> USE DEF BusInd
  <1>1. EventBusTypeOK
    <2>1. \A s \in Subscribers, w \in BusWorkers :
             busWork[s][w].at \in {"off", "idle", "left"} \/ busWork[s][w].ev \in BusEvents
      <3> TAKE s \in Subscribers, w \in BusWorkers
      <3>1. busWork[s][w] \in WorkStates
        BY DEF BusTypes
      <3> QED
        BY <3>1 DEF WorkStates
    <2>2. \A p \in Publishers :
             pubAt[p] # IdlePub => pubAt[p].at \in {"persist", "lock", "fanout"} /\ pubAt[p].ev \in BusEvents
      <3> TAKE p \in Publishers
      <3>1. pubAt[p] \in PubStates
        BY DEF BusTypes
      <3> QED
        BY <3>1 DEF PubStates
    <2> QED
      BY <2>1, <2>2 DEF EventBusTypeOK, BusTypes
  <1>2. NoSendOnClosed
    BY DEF NoSendOnClosed, Lists, Readers
  <1>3. \A s \in Subscribers : busHandled[s] \in Seq(BusEvents) /\ busChan[s].buf \in Seq(BusEvents)
    BY DEF BusTypes
  <1>4. DeliveredIsPersisted
    <2> SUFFICES ASSUME NEW s \in Subscribers
                 PROVE  /\ \A i \in 1 .. Len(busChan[s].buf) : busChan[s].buf[i] \in persisted
                        /\ \A i \in 1 .. Len(busHandled[s]) : busHandled[s][i] \in persisted
      BY DEF DeliveredIsPersisted
    <2>1. \A i \in 1 .. Len(busChan[s].buf) : busChan[s].buf[i] \in BusEvents /\ Held(s, busChan[s].buf[i])
      BY <1>3 DEF Held, In
    <2>2. \A i \in 1 .. Len(busHandled[s]) : busHandled[s][i] \in BusEvents /\ Held(s, busHandled[s][i])
      BY <1>3 DEF Held, In
    <2> QED
      BY <2>1, <2>2 DEF Numbers
  <1>5. HandledInOrder
    BY DEF HandledInOrder, Streams, Ordered, Before
  <1>6. QuietAfterReturn
    <2> SUFFICES ASSUME NEW s \in Subscribers, subAt[s] = "off" \/ (closeAt = "done" /\ s \in closeList)
                 PROVE  Left(s) /\ busChan[s].buf = <<>> /\ \A p \in Readers : s \notin pubAt[p].todo
      BY DEF QuietAfterReturn
    <2>1. busWork[s][Drainer].at = "left" /\ busChan[s].closed /\ busChan[s].buf = <<>>
      BY DEF Workers
    <2>2. Left(s)
      BY <2>1 DEF Left, Workers
    <2>3. \A p \in Readers : s \notin pubAt[p].todo
      BY <2>1 DEF Lists, Readers
    <2> QED
      BY <2>1, <2>2, <2>3
  <1> QED
    BY <1>1, <1>2, <1>4, <1>5, <1>6 DEF EventBusInv

(* Bus.Publish, Subscribe, the unsubscribe function and Close (bus.go), in *)
(* any overlap and for any number of publishers and subscribers: no send   *)
(* on a closed channel, nothing handled that is not persisted, the events  *)
(* of a publisher handled in order and at most once, and no handler        *)
(* running once unsubscribe or Close has returned.                         *)
THEOREM BusIsSound == EventBusSpec => []EventBusInv
  <1>1. BusInd /\ [EventBusNext]_busVars => BusInd'
    BY BusIndNext
  <1> QED
    BY <1>1, BusIndInit, BusIndStrong, PTL DEF EventBusSpec

-----------------------------------------------------------------------------
(* The injection queue.                                                    *)

InjectionQueueSpec == InjectionQueueInit /\ [][InjectionQueueNext]_injVars

(* What a queue and a drainer can be. *)
QueueRec    == [items : Seq(Injections), done : BOOLEAN]
Carrying    == {"process", "delay", "send"}
DrainStates == [at : {"select", "recheck", "leaving", "remaining", "gone"}]
               \cup [at : Carrying \cup {"sent"}, item : Injections]

InjTypes ==
    /\ injEnded \in BOOLEAN /\ injNotice \in BOOLEAN
    /\ injAt \in [Injections -> {"new", "read", "row", "get", "put", "accepted", "refused"}]
    /\ injAudit \in [Injections -> {"none", "open", "delivered", "failed"}]
    /\ queues \in Seq(QueueRec) /\ drainer \in Seq(DrainStates)
    /\ Len(queues) = Len(drainer) /\ Len(queues) <= MaxQueues
    /\ queueOf \in {0} \cup Made
    /\ injQueue \in [Injections -> {0} \cup Made]
    /\ \A q \in Made : Len(queues[q].items) <= QueueCapacity
    /\ injAccepted \in Seq(Injections) /\ injSent \in Seq(Injections)
    /\ injLost \subseteq Injections /\ injRaced \subseteq Injections

(* Requests: an item is accepted once, after its row is written.           *)
Requests ==
    /\ \A a, b \in 1 .. Len(injAccepted) : injAccepted[a] = injAccepted[b] => a = b
    /\ \A i \in Injections : i \in Items(injAccepted) <=> injAt[i] = "accepted"
    /\ \A i \in Injections : injAt[i] \in {"row", "get", "put"} => injAudit[i] = "open"
    /\ \A i \in Injections : injAt[i] = "accepted" => injAudit[i] # "none"
    /\ \A i \in Injections : injAt[i] = "put" => injQueue[i] \in Made
    /\ Items(injSent) \subseteq Items(injAccepted)

(* The drainer of the queue in the map is the one that runs.               *)
OneQueue == \A q \in Made : drainer[q].at # "gone" <=> q = queueOf

(* The order of acceptance: x stands before y in the sequence A. *)
Precedes(A, x, y) == \E a, b \in 1 .. Len(A) : a < b /\ A[a] = x /\ A[b] = y

(* With the items A accepted, the items S sent and the rows au, item i     *)
(* waits for its turn: what was sent was accepted earlier.                 *)
Waits(A, S, au, i) == i \in Items(A) /\ au[i] = "open" /\ \A x \in Items(S) : Precedes(A, x, i)

(* The items of a queue, and the item its drainer d carries, wait in the   *)
(* order in which they were accepted.                                      *)
InLine(A, S, au, items, d) ==
    /\ \A y \in Items(items) : Waits(A, S, au, y)
    /\ \A k, l \in 1 .. Len(items) : k < l => Precedes(A, items[k], items[l])
    /\ d.at \in Carrying => Waits(A, S, au, d.item) /\ \A y \in Items(items) : Precedes(A, d.item, y)
    /\ d.at = "sent" => d.item \in Items(S)

Line == queueOf # 0 =>
    InLine(injAccepted, injSent, injAudit, queues[queueOf].items, drainer[queueOf])

Told == \A i \in Injections : /\ injAudit[i] = "failed" => i \notin Items(injSent)
                              /\ injAudit[i] = "delivered" => i \in Items(injSent)

InjInd == InjTypes /\ Requests /\ OneQueue /\ Line /\ Told /\ SentInOrder

LEMMA ItemsAppend ==
    ASSUME NEW S, NEW s \in Seq(S), NEW x \in S
    PROVE  /\ Append(s, x) \in Seq(S) /\ Len(Append(s, x)) = Len(s) + 1 /\ Len(s) \in Nat
           /\ \A i \in 1 .. Len(s) : Append(s, x)[i] = s[i]
           /\ Append(s, x)[Len(s) + 1] = x
           /\ Items(Append(s, x)) = Items(s) \cup {x}
  <1>1. /\ Append(s, x) \in Seq(S) /\ Len(Append(s, x)) = Len(s) + 1 /\ Len(s) \in Nat
        /\ \A i \in 1 .. Len(s) : Append(s, x)[i] = s[i]
        /\ Append(s, x)[Len(s) + 1] = x
    OBVIOUS
  <1>2. Items(Append(s, x)) = Items(s) \cup {x}
    BY <1>1 DEF Items
  <1> QED
    BY <1>1, <1>2

LEMMA ItemsTail ==
    ASSUME NEW S, NEW s \in Seq(S), s # <<>>
    PROVE  /\ Tail(s) \in Seq(S) /\ Len(Tail(s)) = Len(s) - 1 /\ Len(s) \in Nat
           /\ Head(s) \in S /\ Head(s) = s[1] /\ 1 \in 1 .. Len(s)
           /\ \A i \in 1 .. Len(s) - 1 : Tail(s)[i] = s[i + 1]
           /\ Items(s) = {Head(s)} \cup Items(Tail(s))
  <1>1. /\ Tail(s) \in Seq(S) /\ Head(s) \in S /\ Head(s) = s[1]
        /\ Len(s) \in Nat /\ Len(s) > 0 /\ Len(Tail(s)) = Len(s) - 1
        /\ \A i \in 1 .. Len(s) - 1 : Tail(s)[i] = s[i + 1]
    OBVIOUS
  <1>2. ASSUME NEW y \in Items(s) PROVE y = Head(s) \/ y \in Items(Tail(s))
    <2> PICK i \in 1 .. Len(s) : y = s[i]
      BY <1>2 DEF Items
    <2>1. CASE i = 1
      BY <1>1, <2>1
    <2>2. CASE i # 1
      <3>1. i - 1 \in 1 .. Len(s) - 1 /\ (i - 1) + 1 = i
        BY <1>1, <2>2
      <3>2. Tail(s)[i - 1] = y
        BY <1>1, <3>1
      <3> QED
        BY <1>1, <3>1, <3>2 DEF Items
    <2> QED
      BY <2>1, <2>2
  <1>3. ASSUME NEW y \in Items(Tail(s)) PROVE y \in Items(s)
    <2> PICK i \in 1 .. Len(s) - 1 : y = Tail(s)[i]
      BY <1>1, <1>3 DEF Items
    <2>1. i + 1 \in 1 .. Len(s)
      BY <1>1
    <2> QED
      BY <1>1, <2>1 DEF Items
  <1>4. Head(s) \in Items(s) /\ 1 \in 1 .. Len(s)
    BY <1>1 DEF Items
  <1>5. Items(s) = {Head(s)} \cup Items(Tail(s))
    BY <1>2, <1>3, <1>4
  <1> QED
    BY <1>1, <1>4, <1>5

LEMMA ItemsTyped == ASSUME NEW s \in Seq(Injections) PROVE Items(s) \subseteq Injections
  BY DEF Items

LEMMA MadeIs == ASSUME InjTypes PROVE Made = 1 .. Len(queues) /\ Made = 1 .. Len(drainer)
  BY DEF InjTypes, Made

LEMMA NeverBeforeItself == ASSUME Requests PROVE \A x : ~Precedes(injAccepted, x, x)
  BY DEF Requests, Precedes

(* What waits has not been sent. *)
LEMMA WaitingIsUnsent ==
    ASSUME Requests, NEW i, Waits(injAccepted, injSent, injAudit, i) PROVE i \notin Items(injSent)
  BY NeverBeforeItself DEF Waits

LEMMA InjIndInit == InjectionQueueInit => InjInd
  <1> SUFFICES ASSUME InjectionQueueInit PROVE InjInd
    OBVIOUS
  <1>1. Items(injAccepted) = {} /\ Items(injSent) = {} /\ Len(injAccepted) = 0 /\ Len(injSent) = 0 /\ Made = {}
    BY DEF InjectionQueueInit, Items, Made
  <1>2. InjTypes
    <2>1. /\ queues \in Seq(QueueRec) /\ drainer \in Seq(DrainStates)
          /\ injAccepted \in Seq(Injections) /\ injSent \in Seq(Injections)
      BY EmptySeq DEF InjectionQueueInit
    <2>2. Len(queues) = Len(drainer) /\ Len(queues) <= MaxQueues
      BY InjectionAssumption DEF InjectionQueueInit
    <2>3. /\ injAt \in [Injections -> {"new", "read", "row", "get", "put", "accepted", "refused"}]
          /\ injAudit \in [Injections -> {"none", "open", "delivered", "failed"}]
          /\ injEnded \in BOOLEAN /\ injNotice \in BOOLEAN
      BY DEF InjectionQueueInit
    <2>4. queueOf \in {0} \cup Made /\ injQueue \in [Injections -> {0} \cup Made]
      BY DEF InjectionQueueInit
    <2>5. injLost \subseteq Injections /\ injRaced \subseteq Injections
      BY DEF InjectionQueueInit
    <2> QED
      BY <1>1, <2>1, <2>2, <2>3, <2>4, <2>5 DEF InjTypes
  <1>3. Requests
    <2>1. \A i \in Injections : injAt[i] = "new" /\ injAudit[i] = "none"
      BY DEF InjectionQueueInit
    <2> QED
      BY <1>1, <2>1 DEF Requests
  <1>4. OneQueue
    BY <1>1 DEF OneQueue
  <1>5. Told /\ SentInOrder /\ queueOf = 0
    <2>1. \A i \in Injections : injAudit[i] = "none"
      BY DEF InjectionQueueInit
    <2> QED
      BY <1>1, <2>1 DEF Told, SentInOrder, InjectionQueueInit
  <1> QED
    BY <1>2, <1>3, <1>4, <1>5 DEF InjInd, Line

(* A row that changes leaves the line alone when its item is not in it. *)
LEMMA LineFrame ==
    ASSUME NEW A, NEW S, NEW au, NEW av, NEW items, NEW d, InLine(A, S, au, items, d),
           \A y \in Items(items) : av[y] = au[y], d.at \in Carrying => av[d.item] = au[d.item]
    PROVE  InLine(A, S, av, items, d)
  BY DEF InLine, Waits

(* The order of the items sent does not change while nothing is accepted   *)
(* or sent.                                                                *)
InOrder(A, S) == \A k, l \in 1 .. Len(S) : k < l => Precedes(A, S[k], S[l])

LEMMA SentFrame == ASSUME SentInOrder, UNCHANGED <<injAccepted, injSent>> PROVE SentInOrder'
  <1>1. injAccepted' = injAccepted /\ injSent' = injSent
    OBVIOUS
  <1>2. InOrder(injAccepted, injSent)
    BY DEF SentInOrder, InOrder, Precedes
  <1>3. InOrder(injAccepted', injSent')
    BY <1>1, <1>2
  <1> QED
    BY <1>3 DEF SentInOrder, InOrder, Precedes

(* The first half of a request: nothing in a queue changes, and the row    *)
(* that is written is of an item not accepted yet.                         *)
LEMMA RequestKeeps ==
    ASSUME InjInd, NEW i \in Injections, InjectSession(i) \/ CreateInjection(i) \/ EnqueueCheck(i)
    PROVE  InjInd'
  <1> USE DEF InjInd
  <1>1. UNCHANGED <<injEnded, injNotice, injQueue, queueOf, queues, drainer, injAccepted, injSent, injLost, injRaced, injClose>>
    BY DEF InjectSession, CreateInjection, EnqueueCheck, queueVars
  <1>2. PICK to \in {"read", "row", "get", "refused"} :
           /\ injAt' = [injAt EXCEPT ![i] = to] /\ injAt[i] \in {"new", "read", "row"}
           /\ \/ injAudit' = [injAudit EXCEPT ![i] = "open"]
              \/ injAudit' = injAudit /\ to \in {"read", "get", "refused"} /\ (to = "get" => injAt[i] = "row")
    BY DEF InjectSession, CreateInjection, EnqueueCheck, InjGoto
  <1>3. /\ injAt' \in [Injections -> {"new", "read", "row", "get", "put", "accepted", "refused"}]
        /\ injAt'[i] = to /\ \A j \in Injections : j # i => injAt'[j] = injAt[j]
    BY <1>2 DEF InjTypes
  <1>4. /\ injAudit' \in [Injections -> {"none", "open", "delivered", "failed"}]
        /\ \A j \in Injections : j # i => injAudit'[j] = injAudit[j]
        /\ injAudit'[i] = "open" \/ (injAudit'[i] = injAudit[i] /\ (to = "get" => injAt[i] = "row") /\ to # "row")
    BY <1>2 DEF InjTypes
  <1>5. Made' = Made
    BY <1>1 DEF Made
  <1>6. InjTypes'
    BY <1>1, <1>3, <1>4, <1>5 DEF InjTypes
  <1>7. i \notin Items(injAccepted)
    BY <1>2 DEF Requests
  <1>8. Requests'
    BY <1>1, <1>2, <1>3, <1>4, <1>5, <1>7 DEF Requests
  <1>9. OneQueue'
    BY <1>1, <1>5 DEF OneQueue
  <1>10. Line'
    <2> SUFFICES ASSUME queueOf # 0
                 PROVE  InLine(injAccepted, injSent, injAudit', queues[queueOf].items, drainer[queueOf])
      BY <1>1 DEF Line
    <2> DEFINE items == queues[queueOf].items
               d     == drainer[queueOf]
    <2>1. InLine(injAccepted, injSent, injAudit, items, d)
      BY DEF Line
    <2>2. Items(injAccepted) \subseteq Injections \ {i}
      BY <1>7, ItemsTyped DEF InjTypes
    <2>3. /\ \A y \in Items(items) : y \in Items(injAccepted)
          /\ d.at \in Carrying => d.item \in Items(injAccepted)
      BY <2>1 DEF InLine, Waits
    <2>4. /\ \A y \in Items(items) : injAudit'[y] = injAudit[y]
          /\ d.at \in Carrying => injAudit'[d.item] = injAudit[d.item]
      BY <1>4, <2>2, <2>3
    <2> HIDE DEF items, d
    <2>5. InLine(injAccepted, injSent, injAudit', items, d)
      BY <2>1, <2>4, LineFrame
    <2> QED
      BY <2>5 DEF items, d
  <1>11. Told'
    BY <1>1, <1>4 DEF Told
  <1>12. SentInOrder'
    BY <1>1, SentFrame
  <1> QED
    BY <1>6, <1>8, <1>9, <1>10, <1>11, <1>12

(* A queue of the map is used, or a new and empty one takes its place. *)
LEMMA GetQueueKeeps == ASSUME InjInd, NEW i \in Injections, getOrCreateQueue(i) PROVE InjInd'
  <1> USE DEF InjInd
  <1>1. /\ UNCHANGED <<injEnded, injNotice, injAudit, injAccepted, injSent, injLost, injRaced, injClose>>
        /\ injAt[i] = "get" /\ injAt' = [injAt EXCEPT ![i] = "put"]
        /\ injQueue' = [injQueue EXCEPT ![i] = queueOf']
    BY DEF getOrCreateQueue, InjGoto
  <1>2. /\ injAt' \in [Injections -> {"new", "read", "row", "get", "put", "accepted", "refused"}]
        /\ injAt'[i] = "put" /\ \A j \in Injections : j # i => injAt'[j] = injAt[j]
    BY <1>1 DEF InjTypes
  <1>3. SentInOrder' /\ Told'
    BY <1>1, SentFrame DEF Told
  <1>4. ASSUME Made \subseteq Made', queueOf' \in Made' PROVE injQueue' \in [Injections -> {0} \cup Made'] /\ Requests'
    <2>1. injQueue' \in [Injections -> {0} \cup Made'] /\ injQueue'[i] \in Made'
      BY <1>1, <1>4 DEF InjTypes
    <2>2. \A j \in Injections : j # i => injQueue'[j] = injQueue[j]
      BY <1>1 DEF InjTypes
    <2> QED
      BY <1>1, <1>2, <1>4, <2>1, <2>2 DEF Requests
  <1>5. CASE queueOf # 0
    <2>1. UNCHANGED <<queueOf, queues, drainer>>
      BY <1>5 DEF getOrCreateQueue
    <2>2. Made' = Made /\ queueOf' \in Made'
      BY <1>5, <2>1 DEF Made, InjTypes
    <2>3. InjTypes' /\ Requests'
      BY <1>1, <1>2, <1>4, <2>1, <2>2 DEF InjTypes
    <2>4. OneQueue' /\ Line'
      BY <1>1, <2>1, <2>2 DEF OneQueue, Line
    <2> QED
      BY <1>3, <2>3, <2>4
  <1>6. CASE queueOf = 0
    <2> DEFINE nq == [items |-> <<>>, done |-> FALSE]
    <2>1. /\ Len(queues) < MaxQueues /\ queueOf' = Len(queues) + 1
          /\ queues' = Append(queues, nq) /\ drainer' = Append(drainer, NewDrainer)
      BY <1>6 DEF getOrCreateQueue
    <2>2. nq \in QueueRec /\ nq.items = <<>> /\ NewDrainer \in DrainStates /\ NewDrainer.at = "select"
      BY EmptySeq DEF QueueRec, DrainStates, NewDrainer
    <2> HIDE DEF nq
    <2>3. /\ queues' \in Seq(QueueRec) /\ Len(queues') = Len(queues) + 1 /\ Len(queues) \in Nat
          /\ \A q \in 1 .. Len(queues) : queues'[q] = queues[q]
          /\ queues'[Len(queues) + 1] = nq
      BY <2>1, <2>2, ItemsAppend DEF InjTypes
    <2>4. /\ drainer' \in Seq(DrainStates) /\ Len(drainer') = Len(queues) + 1
          /\ \A q \in 1 .. Len(queues) : drainer'[q] = drainer[q]
          /\ drainer'[Len(queues) + 1] = NewDrainer
      BY <2>1, <2>2, ItemsAppend DEF InjTypes
    <2>5. Made = 1 .. Len(queues) /\ Made' = 1 .. Len(queues) + 1
      BY <2>3, MadeIs DEF Made
    <2>6. Made \subseteq Made' /\ queueOf' \in Made'
      BY <2>1, <2>3, <2>5
    <2>7. Requests' /\ injQueue' \in [Injections -> {0} \cup Made']
      BY <1>4, <2>6
    <2>8. \A q \in Made' : Len(queues'[q].items) <= QueueCapacity
      <3> TAKE q \in Made'
      <3>1. CASE q = Len(queues) + 1
        <4>1. Len(queues'[q].items) = 0
          BY <2>2, <2>3, <3>1
        <4> QED
          BY <4>1, InjectionAssumption
      <3>2. CASE q # Len(queues) + 1
        <4>1. q \in Made
          BY <2>3, <2>5, <3>2
        <4> QED
          BY <2>3, <2>5, <4>1 DEF InjTypes
      <3> QED
        BY <3>1, <3>2
    <2>9. Len(queues') = Len(drainer') /\ Len(queues') <= MaxQueues
      BY <2>1, <2>3, <2>4, InjectionAssumption
    <2>10. InjTypes'
      BY <1>1, <1>2, <2>3, <2>4, <2>6, <2>7, <2>8, <2>9 DEF InjTypes
    <2>11. OneQueue'
      BY <1>6, <2>1, <2>2, <2>3, <2>4, <2>5 DEF OneQueue
    <2>12. Line'
      <3>1. queues'[queueOf'].items = <<>> /\ drainer'[queueOf'].at = "select"
        BY <2>1, <2>2, <2>3, <2>4
      <3>2. Items(<<>>) = {} /\ Len(<<>>) = 0
        BY DEF Items
      <3>3. InLine(injAccepted', injSent', injAudit', queues'[queueOf'].items, drainer'[queueOf'])
        BY <3>1, <3>2 DEF InLine, Carrying
      <3> QED
        BY <3>3 DEF Line
    <2> QED
      BY <1>3, <2>7, <2>10, <2>11, <2>12
  <1> QED
    BY <1>5, <1>6

LEMMA PrecedesAppend ==
    ASSUME NEW A \in Seq(Injections), NEW i \in Injections
    PROVE  /\ \A x, y : Precedes(A, x, y) => Precedes(Append(A, i), x, y)
           /\ \A x \in Items(A) : Precedes(Append(A, i), x, i)
  <1>1. /\ Len(Append(A, i)) = Len(A) + 1 /\ Len(A) \in Nat
        /\ \A k \in 1 .. Len(A) : Append(A, i)[k] = A[k]
        /\ Append(A, i)[Len(A) + 1] = i
    BY ItemsAppend
  <1>2. \A x, y : Precedes(A, x, y) => Precedes(Append(A, i), x, y)
    <2> SUFFICES ASSUME NEW x, NEW y, Precedes(A, x, y) PROVE Precedes(Append(A, i), x, y)
      OBVIOUS
    <2> PICK a \in 1 .. Len(A), b \in 1 .. Len(A) : a < b /\ A[a] = x /\ A[b] = y
      BY DEF Precedes
    <2>1. a \in 1 .. Len(A) + 1 /\ b \in 1 .. Len(A) + 1
      BY <1>1
    <2> QED
      BY <1>1, <2>1 DEF Precedes
  <1>3. \A x \in Items(A) : Precedes(Append(A, i), x, i)
    <2> TAKE x \in Items(A)
    <2> PICK a \in 1 .. Len(A) : A[a] = x
      BY DEF Items
    <2>1. a \in 1 .. Len(A) + 1 /\ Len(A) + 1 \in 1 .. Len(A) + 1 /\ a < Len(A) + 1
      BY <1>1
    <2> QED
      BY <1>1, <2>1 DEF Precedes
  <1> QED
    BY <1>2, <1>3

(* The item is put: it is the last of all accepted, so it is the last of   *)
(* the line too, if it went to the queue in use.                           *)
LEMMA EnqueueKeeps == ASSUME InjInd, NEW i \in Injections, Enqueue(i) PROVE InjInd'
  <1> USE DEF InjInd
  <1> DEFINE q == injQueue[i]
  <1>1. /\ injAt[i] = "put"
        /\ UNCHANGED <<injEnded, injNotice, injQueue, injAudit, queueOf, drainer, injSent, injLost, injClose>>
    BY DEF Enqueue
  <1>2. q \in Made /\ injAudit[i] = "open" /\ i \notin Items(injAccepted)
    BY <1>1 DEF Requests
  <1>3. Told'
    BY <1>1 DEF Told
  <1>4. CASE ~(Len(queues[q].items) < QueueCapacity)
    <2>1. injAt' = [injAt EXCEPT ![i] = "refused"] /\ UNCHANGED <<queues, injAccepted, injRaced>>
      BY <1>4 DEF Enqueue, InjGoto
    <2>2. /\ injAt' \in [Injections -> {"new", "read", "row", "get", "put", "accepted", "refused"}]
          /\ injAt'[i] = "refused" /\ \A j \in Injections : j # i => injAt'[j] = injAt[j]
      BY <2>1 DEF InjTypes
    <2>3. Made' = Made
      BY <2>1 DEF Made
    <2>4. InjTypes'
      BY <1>1, <2>1, <2>2, <2>3 DEF InjTypes
    <2>5. Requests'
      BY <1>1, <1>2, <2>1, <2>2, <2>3 DEF Requests
    <2>6. OneQueue' /\ Line' /\ SentInOrder'
      BY <1>1, <2>1, <2>3, SentFrame DEF OneQueue, Line
    <2> QED
      BY <1>3, <2>4, <2>5, <2>6
  <1>5. CASE Len(queues[q].items) < QueueCapacity
    <2> DEFINE items == queues[q].items
               A     == injAccepted
    <2>1. /\ injAt' = [injAt EXCEPT ![i] = "accepted"]
          /\ queues' = [queues EXCEPT ![q] = [queues[q] EXCEPT !.items = Append(items, i)]]
          /\ injAccepted' = Append(A, i)
          /\ injRaced' \subseteq injRaced \cup {i}
      BY <1>5 DEF Enqueue, InjGoto
    <2>2. /\ injAt' \in [Injections -> {"new", "read", "row", "get", "put", "accepted", "refused"}]
          /\ injAt'[i] = "accepted" /\ \A j \in Injections : j # i => injAt'[j] = injAt[j]
      BY <2>1 DEF InjTypes
    <2>3. /\ queues[q] \in QueueRec /\ items \in Seq(Injections) /\ A \in Seq(Injections)
          /\ q \in 1 .. Len(queues) /\ Made = 1 .. Len(queues)
      <3>1. q \in 1 .. Len(queues) /\ Made = 1 .. Len(queues)
        BY <1>2, MadeIs
      <3>2. queues[q] \in QueueRec
        BY <3>1, ElementOfSeq DEF InjTypes
      <3> QED
        BY <3>1, <3>2 DEF InjTypes, QueueRec
    <2> HIDE DEF q, A
    <2>4. /\ Append(items, i) \in Seq(Injections) /\ Len(Append(items, i)) = Len(items) + 1 /\ Len(items) \in Nat
          /\ \A k \in 1 .. Len(items) : Append(items, i)[k] = items[k]
          /\ Append(items, i)[Len(items) + 1] = i
          /\ Items(Append(items, i)) = Items(items) \cup {i}
      BY <2>3, ItemsAppend
    <2>5. /\ Append(A, i) \in Seq(Injections) /\ Len(Append(A, i)) = Len(A) + 1 /\ Len(A) \in Nat
          /\ \A k \in 1 .. Len(A) : Append(A, i)[k] = A[k]
          /\ Append(A, i)[Len(A) + 1] = i
          /\ Items(Append(A, i)) = Items(A) \cup {i}
      BY <2>3, ItemsAppend
    <2>6. [queues[q] EXCEPT !.items = Append(items, i)] \in QueueRec
          /\ [queues[q] EXCEPT !.items = Append(items, i)].items = Append(items, i)
      BY <2>3, <2>4 DEF QueueRec
    <2>7. /\ queues' \in Seq(QueueRec) /\ Len(queues') = Len(queues)
          /\ queues'[q].items = Append(items, i)
          /\ \A r \in Made : r # q => queues'[r] = queues[r]
      BY <2>1, <2>3, <2>6, ExceptSeq DEF InjTypes
    <2>8. Made' = Made
      BY <2>3, <2>7 DEF Made
    <2>9. InjTypes'
      <3>1. \A r \in Made : Len(queues'[r].items) <= QueueCapacity
        BY <1>5, <2>4, <2>7, InjectionAssumption DEF InjTypes, q
      <3>2. injRaced' \subseteq Injections
        BY <2>1 DEF InjTypes
      <3> QED
        BY <1>1, <2>1, <2>2, <2>5, <2>7, <2>8, <3>1, <3>2 DEF InjTypes, A
    <2>10. Requests'
      <3>1. \A a, b \in 1 .. Len(injAccepted') : injAccepted'[a] = injAccepted'[b] => a = b
        <4>1. \A a \in 1 .. Len(A) : A[a] # i
          BY <1>2 DEF Items, A
        <4>2. \A a \in 1 .. Len(A) + 1 : a \in 1 .. Len(A) \/ a = Len(A) + 1
          BY <2>5
        <4>3. \A a, b \in 1 .. Len(A) : A[a] = A[b] => a = b
          BY DEF Requests, A
        <4> QED
          BY <2>1, <2>5, <4>1, <4>2, <4>3
      <3>2. \A j \in Injections : j \in Items(injAccepted') <=> injAt'[j] = "accepted"
        BY <2>1, <2>2, <2>5 DEF Requests, A
      <3>3. Items(injSent') \subseteq Items(injAccepted')
        BY <1>1, <2>1, <2>5 DEF Requests, A
      <3> QED
        BY <1>1, <1>2, <2>2, <2>8, <3>1, <3>2, <3>3 DEF Requests
    <2>11. OneQueue'
      BY <1>1, <2>8 DEF OneQueue
    <2>12. /\ \A x, y : Precedes(A, x, y) => Precedes(Append(A, i), x, y)
           /\ \A x \in Items(A) : Precedes(Append(A, i), x, i)
      BY <2>3, PrecedesAppend
    <2>13. /\ \A y : Waits(A, injSent, injAudit, y) => Waits(Append(A, i), injSent, injAudit, y)
           /\ Waits(Append(A, i), injSent, injAudit, i)
      <3>1. Items(injSent) \subseteq Items(A)
        BY DEF Requests, A
      <3> QED
        BY <1>2, <2>5, <2>12, <3>1 DEF Waits
    <2>14. ASSUME NEW its, NEW d, InLine(A, injSent, injAudit, its, d)
           PROVE  InLine(Append(A, i), injSent, injAudit, its, d)
      BY <2>12, <2>13, <2>14 DEF InLine
    <2>15. ASSUME NEW d, InLine(A, injSent, injAudit, items, d)
           PROVE  InLine(Append(A, i), injSent, injAudit, Append(items, i), d)
      <3> HIDE DEF items
      <3>0. InLine(Append(A, i), injSent, injAudit, items, d) /\ Items(items) \subseteq Items(A)
        BY <2>14, <2>15 DEF InLine, Waits
      <3>1. \A y \in Items(Append(items, i)) : Waits(Append(A, i), injSent, injAudit, y)
        BY <2>4, <2>13, <3>0 DEF InLine
      <3>2. ASSUME NEW k \in 1 .. Len(items) + 1, NEW l \in 1 .. Len(items) + 1, k < l
            PROVE  Precedes(Append(A, i), Append(items, i)[k], Append(items, i)[l])
        <4>1. k \in 1 .. Len(items)
          BY <2>4, <3>2
        <4>2. CASE l = Len(items) + 1
          <5>1. items[k] \in Items(A)
            BY <3>0, <4>1 DEF Items
          <5> QED
            BY <2>4, <2>12, <4>1, <4>2, <5>1
        <4>3. CASE l # Len(items) + 1
          <5>1. l \in 1 .. Len(items)
            BY <2>4, <4>3
          <5> QED
            BY <2>4, <3>0, <3>2, <4>1, <5>1 DEF InLine
        <4> QED
          BY <4>2, <4>3
      <3>3. d.at \in Carrying => /\ Waits(Append(A, i), injSent, injAudit, d.item)
                                 /\ \A y \in Items(Append(items, i)) : Precedes(Append(A, i), d.item, y)
        <4> SUFFICES ASSUME d.at \in Carrying
                     PROVE  /\ Waits(Append(A, i), injSent, injAudit, d.item)
                            /\ \A y \in Items(Append(items, i)) : Precedes(Append(A, i), d.item, y)
          OBVIOUS
        <4>1. d.item \in Items(A)
          BY <2>15 DEF InLine, Waits
        <4> QED
          BY <2>4, <2>12, <3>0, <4>1 DEF InLine
      <3>4. d.at = "sent" => d.item \in Items(injSent)
        BY <2>15 DEF InLine
      <3> QED
        BY <2>4, <3>1, <3>2, <3>3, <3>4 DEF InLine
    <2>16. Line'
      <3> SUFFICES ASSUME queueOf # 0
                   PROVE  InLine(Append(A, i), injSent, injAudit, queues'[queueOf].items, drainer[queueOf])
        BY <1>1, <2>1 DEF Line
      <3>1. InLine(A, injSent, injAudit, queues[queueOf].items, drainer[queueOf]) /\ queueOf \in Made
        BY DEF Line, A, InjTypes
      <3> QED
        BY <2>7, <2>14, <2>15, <3>1
    <2>17. SentInOrder'
      <3>1. \A k, l \in 1 .. Len(injSent) : k < l => Precedes(A, injSent[k], injSent[l])
        BY DEF SentInOrder, Precedes, A
      <3>2. \A k, l \in 1 .. Len(injSent') : k < l => Precedes(injAccepted', injSent'[k], injSent'[l])
        BY <1>1, <2>1, <2>12, <3>1
      <3> QED
        BY <3>2 DEF SentInOrder, Precedes
    <2> QED
      BY <1>3, <2>9, <2>10, <2>11, <2>16, <2>17
  <1> QED
    BY <1>4, <1>5

(* A drainer that is not gone is the one of the queue in use; its entry    *)
(* and the rest of the list after a step of it.                            *)
LEMMA DrainerUpdate ==
    ASSUME InjTypes, OneQueue, NEW q \in Made, drainer[q].at # "gone",
           NEW to \in DrainStates, drainer' = [drainer EXCEPT ![q] = to]
    PROVE  /\ q = queueOf /\ q # 0 /\ queues[q] \in QueueRec /\ drainer[q] \in DrainStates
           /\ drainer' \in Seq(DrainStates) /\ Len(drainer') = Len(drainer)
           /\ drainer'[q] = to /\ \A r \in Made : r # q => drainer'[r] = drainer[r]
  <1>1. q \in 1 .. Len(drainer) /\ q \in 1 .. Len(queues) /\ Made = 1 .. Len(drainer)
    BY MadeIs
  <1>2. queues[q] \in QueueRec /\ drainer[q] \in DrainStates
    BY <1>1, ElementOfSeq DEF InjTypes
  <1>3. /\ drainer' \in Seq(DrainStates) /\ Len(drainer') = Len(drainer)
        /\ drainer'[q] = to /\ \A r \in Made : r # q => drainer'[r] = drainer[r]
    BY <1>1, ExceptSeq DEF InjTypes
  <1>4. q = queueOf /\ q # 0
    BY <1>1 DEF OneQueue
  <1> QED
    BY <1>2, <1>3, <1>4

(* An item leaves the drainer, dropped, failed or delivered, or it goes on *)
(* to the next of its stages; the queue stays as it is.                    *)
LEMMA DrainerMoves ==
    ASSUME InjInd, NEW q \in Made, drainer[q].at # "gone",
           NEW to \in DrainStates, drainer' = [drainer EXCEPT ![q] = to], to.at \notin {"gone", "sent"},
           to.at \in Carrying => /\ drainer[q].at \in Carrying /\ to.item = drainer[q].item
                                 /\ injAudit' = injAudit,
           \/ injAudit' = injAudit
           \/ drainer[q].at \in Carrying /\ injAudit' = [injAudit EXCEPT ![drainer[q].item] = "failed"]
           \/ drainer[q].at = "sent" /\ injAudit' = [injAudit EXCEPT ![drainer[q].item] = "delivered"],
           injLost' \subseteq Injections, 
           UNCHANGED <<requestVars, queueOf, queues, injSent>>
    PROVE  InjInd'
  <1> USE DEF InjInd, requestVars
  <1> DEFINE d == drainer[q]
             items == queues[q].items
  <1>1. /\ q = queueOf /\ q # 0 /\ d \in DrainStates
        /\ drainer' \in Seq(DrainStates) /\ Len(drainer') = Len(drainer)
        /\ drainer'[q] = to /\ \A r \in Made : r # q => drainer'[r] = drainer[r]
    BY DrainerUpdate
  <1>2. InLine(injAccepted, injSent, injAudit, items, d)
    BY <1>1 DEF Line
  <1>3. Made' = Made
    BY DEF Made
  <1>4. d.at \in Carrying \cup {"sent"} => d.item \in Injections
    BY <1>1 DEF DrainStates, Carrying
  <1>5. /\ injAudit' \in [Injections -> {"none", "open", "delivered", "failed"}]
        /\ \A j \in Injections : injAudit'[j] # injAudit[j] =>
              /\ j = d.item /\ d.at \in Carrying \cup {"sent"} /\ to.at \notin Carrying
              /\ injAudit'[j] = IF d.at \in Carrying THEN "failed" ELSE "delivered"
    BY <1>4 DEF InjTypes, Carrying
  <1>6. InjTypes'
    BY <1>1, <1>3, <1>5 DEF InjTypes
  <1>7. d.at \in Carrying \cup {"sent"} => d.item \in Items(injAccepted) /\ injAt[d.item] = "accepted"
    BY <1>2, <1>4 DEF InLine, Waits, Requests
  <1>8. Requests'
    BY <1>3, <1>5, <1>7 DEF Requests
  <1>9. OneQueue'
    BY <1>1, <1>3 DEF OneQueue
  <1>10. Line'
    <2>1. \A y \in Items(items) : y \in Injections /\ (d.at \in Carrying \cup {"sent"} => y # d.item)
      BY <1>2, NeverBeforeItself, ItemsTyped DEF InLine, Waits, InjTypes
    <2>2. \A y \in Items(items) : injAudit'[y] = injAudit[y]
      BY <1>5, <2>1
    <2>3. InLine(injAccepted, injSent, injAudit', items, to)
      BY <1>2, <1>5, <2>2 DEF InLine, Waits
    <2> QED
      BY <1>1, <2>3 DEF Line
  <1>11. Told'
    <2>1. d.at \in Carrying => d.item \notin Items(injSent)
      BY <1>2, WaitingIsUnsent DEF InLine
    <2>2. d.at = "sent" => d.item \in Items(injSent)
      BY <1>2 DEF InLine
    <2> QED
      BY <1>5, <2>1, <2>2 DEF Told, Carrying
  <1>12. SentInOrder'
    BY SentFrame
  <1> QED
    BY <1>6, <1>8, <1>9, <1>10, <1>11, <1>12

LEMMA DrainStatesFacts ==
    /\ Select \in DrainStates /\ Select.at = "select"
    /\ \A at \in {"recheck", "leaving", "remaining"} : [at |-> at] \in DrainStates /\ [at |-> at].at = at
    /\ \A at \in Carrying \cup {"sent"}, i \in Injections :
          [at |-> at, item |-> i] \in DrainStates /\ [at |-> at, item |-> i].at = at /\ [at |-> at, item |-> i].item = i
    /\ \A d \in DrainStates : d.at \in Carrying \cup {"sent"} => d.item \in Injections
  BY DEF DrainStates, Select, Carrying

LEMMA DrainerTyped ==
    ASSUME InjTypes, NEW q \in Made
    PROVE  drainer[q] \in DrainStates /\ (drainer[q].at \in Carrying \cup {"sent"} => drainer[q].item \in Injections)
  <1>1. drainer[q] \in DrainStates
    BY MadeIs, ElementOfSeq DEF InjTypes
  <1> QED
    BY <1>1, DrainStatesFacts

(* processItem's outcomes, the idle timer and the end of a queue. *)
LEMMA MovesKeep ==
    ASSUME InjInd, NEW q \in Made,
           \/ ProcessDrops(q) \/ ProcessItem(q) \/ DelayShutDown(q) \/ DelayElapses(q) \/ SendFails(q)
           \/ UpdateInjectionDelivered(q) \/ IdleTimer(q) \/ TrulyIdle(q) \/ SeeDone(q)
    PROVE  InjInd'
  <1> USE DEF InjInd
  <1> DEFINE d == drainer[q]
  <1>1. d \in DrainStates /\ (d.at \in Carrying \cup {"sent"} => d.item \in Injections)
    BY DrainerTyped
  <1>2. injLost \subseteq Injections
    BY DEF InjTypes
  <1>3. CASE ProcessDrops(q) \/ SendFails(q)
    <2>1. /\ d.at \in Carrying /\ d.at # "gone" /\ drainer' = [drainer EXCEPT ![q] = Select] /\ injLost' = injLost \cup {d.item}
          /\ UNCHANGED <<requestVars, injAudit, queueOf, queues, injSent>>
      BY <1>3 DEF ProcessDrops, SendFails, DrainGoto, Carrying
    <2>2. injLost' \subseteq Injections
      BY <1>1, <1>2, <2>1
    <2>3. Select \in DrainStates /\ Select.at = "select"
      BY DrainStatesFacts
    <2>4. Select.at \notin {"gone", "sent"} /\ Select.at \notin Carrying
      BY <2>3 DEF Carrying
    <2> QED
      BY <2>1, <2>2, <2>3, <2>4, DrainerMoves
  <1>4. CASE IdleTimer(q) \/ TrulyIdle(q) \/ SeeDone(q)
    <2>1. PICK at \in {"recheck", "leaving", "remaining"} :
             /\ d.at # "gone" /\ drainer' = [drainer EXCEPT ![q] = [at |-> at]]
             /\ UNCHANGED <<requestVars, injAudit, queueOf, queues, injSent, injLost>>
      BY <1>4 DEF IdleTimer, TrulyIdle, SeeDone, DrainGoto
    <2> DEFINE to == [at |-> at]
    <2>2. to \in DrainStates /\ to.at = at
      BY DrainStatesFacts
    <2> HIDE DEF to
    <2>3. to.at \notin {"gone", "sent"} /\ to.at \notin Carrying
      BY <2>2 DEF Carrying
    <2>4. drainer' = [drainer EXCEPT ![q] = to]
      BY <2>1 DEF to
    <2> QED
      BY <1>2, <2>1, <2>2, <2>3, <2>4, DrainerMoves
  <1>5. CASE DelayElapses(q) \/ (ProcessItem(q) /\ ~injEnded)
    <2>1. PICK at \in {"delay", "send"} :
             /\ d.at \in Carrying /\ d.at # "gone" /\ drainer' = [drainer EXCEPT ![q] = Holding(q, at)]
             /\ UNCHANGED <<requestVars, injAudit, queueOf, queues, injSent, injLost>>
      BY <1>5 DEF DelayElapses, ProcessItem, DrainGoto, Carrying
    <2> DEFINE to == Holding(q, at)
    <2>2. to \in DrainStates /\ to.at = at /\ to.item = d.item
      BY <1>1, <2>1, DrainStatesFacts DEF Holding, Carrying
    <2> HIDE DEF to
    <2>3. to.at \notin {"gone", "sent"}
      BY <2>2
    <2>4. drainer' = [drainer EXCEPT ![q] = to]
      BY <2>1 DEF to
    <2> QED
      BY <1>2, <2>1, <2>2, <2>3, <2>4, DrainerMoves
  <1>6. CASE DelayShutDown(q) \/ (ProcessItem(q) /\ injEnded)
    <2>1. /\ d.at \in Carrying /\ d.at # "gone" /\ drainer' = [drainer EXCEPT ![q] = Select] /\ SetAudit(d.item, "failed")
          /\ UNCHANGED <<requestVars, queueOf, queues, injSent, injLost>>
      BY <1>6 DEF DelayShutDown, ProcessItem, DrainGoto, Carrying
    <2>2. injAudit[d.item] = "open"
      <3>1. q = queueOf /\ q # 0
        BY <2>1, DrainerUpdate, DrainStatesFacts
      <3> QED
        BY <2>1, <3>1 DEF Line, InLine, Waits
    <2>3. injAudit' = [injAudit EXCEPT ![d.item] = "failed"]
      BY <2>1, <2>2 DEF SetAudit
    <2>4. Select \in DrainStates /\ Select.at = "select"
      BY DrainStatesFacts
    <2>5. Select.at \notin {"gone", "sent"} /\ Select.at \notin Carrying
      BY <2>4 DEF Carrying
    <2> QED
      BY <1>2, <2>1, <2>3, <2>4, <2>5, DrainerMoves
  <1>7. CASE UpdateInjectionDelivered(q)
    <2>1. /\ d.at = "sent" /\ d.at # "gone" /\ drainer' = [drainer EXCEPT ![q] = Select] /\ SetAudit(d.item, "delivered")
          /\ UNCHANGED <<requestVars, queueOf, queues, injSent, injLost>>
      BY <1>7 DEF UpdateInjectionDelivered, DrainGoto
    <2>2. injAudit[d.item] # "none"
      <3>1. q = queueOf /\ q # 0
        BY <2>1, DrainerUpdate, DrainStatesFacts
      <3>2. d.item \in Items(injAccepted)
        BY <2>1, <3>1 DEF Line, InLine, Requests
      <3> QED
        BY <1>1, <2>1, <3>2 DEF Requests
    <2>3. injAudit' = [injAudit EXCEPT ![d.item] = "delivered"]
      BY <2>1, <2>2 DEF SetAudit
    <2>4. Select \in DrainStates /\ Select.at = "select"
      BY DrainStatesFacts
    <2>5. Select.at \notin {"gone", "sent"} /\ Select.at \notin Carrying
      BY <2>4 DEF Carrying
    <2> QED
      BY <1>2, <2>1, <2>3, <2>4, <2>5, DrainerMoves
  <1> QED
    BY <1>3, <1>4, <1>5, <1>6, <1>7

(* The first of the line is taken out, to be carried or to be failed. *)
LEMMA HeadLeaves ==
    ASSUME NEW A, NEW S, NEW au, NEW items \in Seq(Injections), items # <<>>, NEW d,
           InLine(A, S, au, items, d), d.at \notin Carrying \cup {"sent"}
    PROVE  /\ InLine(A, S, au, Tail(items), d) /\ Waits(A, S, au, Head(items))
           /\ \A y \in Items(Tail(items)) : Precedes(A, Head(items), y)
  <1>1. /\ Tail(items) \in Seq(Injections) /\ Len(Tail(items)) = Len(items) - 1 /\ Len(items) \in Nat
        /\ Head(items) = items[1] /\ 1 \in 1 .. Len(items)
        /\ \A i \in 1 .. Len(items) - 1 : Tail(items)[i] = items[i + 1]
        /\ Items(items) = {Head(items)} \cup Items(Tail(items))
    BY ItemsTail
  <1>2. ASSUME NEW y \in Items(Tail(items)) PROVE Precedes(A, Head(items), y)
    <2> PICK i \in 1 .. Len(items) - 1 : y = items[i + 1]
      BY <1>1, <1>2 DEF Items
    <2>1. i + 1 \in 1 .. Len(items) /\ 1 < i + 1
      BY <1>1
    <2> QED
      BY <1>1, <2>1 DEF InLine
  <1>3. ASSUME NEW k \in 1 .. Len(items) - 1, NEW l \in 1 .. Len(items) - 1, k < l
        PROVE  Precedes(A, Tail(items)[k], Tail(items)[l])
    <2>1. k + 1 \in 1 .. Len(items) /\ l + 1 \in 1 .. Len(items) /\ k + 1 < l + 1
      BY <1>1, <1>3
    <2> QED
      BY <1>1, <2>1 DEF InLine
  <1>4. InLine(A, S, au, Tail(items), d)
    BY <1>1, <1>3 DEF InLine
  <1>5. Waits(A, S, au, Head(items))
    BY <1>1 DEF InLine
  <1> QED
    BY <1>2, <1>4, <1>5

LEMMA QueueTail ==
    ASSUME InjTypes, NEW q \in Made, queues[q].items # <<>>, queues' = [queues EXCEPT ![q].items = Tail(@)]
    PROVE  /\ queues[q].items \in Seq(Injections)
           /\ queues' \in Seq(QueueRec) /\ Len(queues') = Len(queues) /\ Made' = Made
           /\ queues'[q].items = Tail(queues[q].items) /\ \A r \in Made : r # q => queues'[r] = queues[r]
           /\ \A r \in Made : Len(queues'[r].items) <= QueueCapacity
  <1> DEFINE items == queues[q].items
  <1>1. q \in 1 .. Len(queues) /\ Made = 1 .. Len(queues)
    BY MadeIs
  <1>2. queues[q] \in QueueRec /\ items \in Seq(Injections) /\ Len(items) <= QueueCapacity
    <2>1. queues[q] \in QueueRec
      BY <1>1, ElementOfSeq DEF InjTypes
    <2> QED
      BY <2>1 DEF QueueRec, InjTypes
  <1> HIDE DEF items
  <1>3. Tail(items) \in Seq(Injections) /\ Len(Tail(items)) = Len(items) - 1 /\ Len(items) \in Nat
    BY <1>2, ItemsTail DEF items
  <1> DEFINE rest == [queues[q] EXCEPT !.items = Tail(items)]
  <1>4. rest \in QueueRec /\ rest.items = Tail(items)
    BY <1>2, <1>3 DEF QueueRec
  <1>5. queues' = [queues EXCEPT ![q] = rest]
    BY DEF items
  <1> HIDE DEF rest
  <1>6. /\ queues' \in Seq(QueueRec) /\ Len(queues') = Len(queues)
        /\ queues'[q] = rest /\ \A r \in Made : r # q => queues'[r] = queues[r]
    <2>1. queues \in Seq(QueueRec)
      BY DEF InjTypes
    <2>2. /\ [queues EXCEPT ![q] = rest] \in Seq(QueueRec)
          /\ Len([queues EXCEPT ![q] = rest]) = Len(queues)
          /\ \A r \in 1 .. Len(queues) : [queues EXCEPT ![q] = rest][r] = IF r = q THEN rest ELSE queues[r]
      BY <1>1, <1>4, <2>1, ExceptSeq
    <2> QED
      BY <1>1, <1>5, <2>2
  <1>7. Made' = Made
    BY <1>1, <1>6 DEF Made
  <1>8. Len(queues'[q].items) <= QueueCapacity
    <2>1. Len(items) - 1 <= QueueCapacity
      BY <1>2, <1>3, InjectionAssumption
    <2>2. Len(queues'[q].items) = Len(items) - 1
      BY <1>3, <1>4, <1>6
    <2> QED
      BY <2>1, <2>2
  <1> QED
    BY <1>2, <1>4, <1>6, <1>7, <1>8 DEF items, InjTypes

LEMMA TakeItemKeeps == ASSUME InjInd, NEW q \in Made, TakeItem(q) PROVE InjInd'
  <1> USE DEF InjInd, requestVars
  <1> DEFINE d == drainer[q]
             items == queues[q].items
             to == [at |-> "process", item |-> Head(items)]
  <1>1. /\ d.at \in {"select", "recheck"} /\ items # <<>>
        /\ drainer' = [drainer EXCEPT ![q] = to] /\ queues' = [queues EXCEPT ![q].items = Tail(@)]
        /\ UNCHANGED <<requestVars, injAudit, queueOf, injSent, injLost>>
    BY DEF TakeItem
  <1>2. /\ items \in Seq(Injections)
        /\ queues' \in Seq(QueueRec) /\ Len(queues') = Len(queues) /\ Made' = Made
        /\ queues'[q].items = Tail(items) /\ \A r \in Made : r # q => queues'[r] = queues[r]
        /\ \A r \in Made : Len(queues'[r].items) <= QueueCapacity
    BY <1>1, QueueTail
  <1> HIDE DEF items
  <1>3. Head(items) \in Injections
    BY <1>1, <1>2, ItemsTail
  <1>4. to \in DrainStates /\ to.at = "process" /\ to.item = Head(items)
    BY <1>3, DrainStatesFacts DEF Carrying
  <1> HIDE DEF to
  <1>5. d.at # "gone" /\ d.at \notin Carrying \cup {"sent"}
    BY <1>1 DEF Carrying
  <1>6. /\ q = queueOf /\ q # 0
        /\ drainer' \in Seq(DrainStates) /\ Len(drainer') = Len(drainer)
        /\ drainer'[q] = to /\ \A r \in Made : r # q => drainer'[r] = drainer[r]
    BY <1>1, <1>4, <1>5, DrainerUpdate
  <1>7. InjTypes'
    BY <1>1, <1>2, <1>6 DEF InjTypes
  <1>8. Requests' /\ Told'
    BY <1>1, <1>2 DEF Requests, Told
  <1>9. OneQueue'
    BY <1>1, <1>2, <1>4, <1>6 DEF OneQueue
  <1>10. Line'
    <2>1. InLine(injAccepted, injSent, injAudit, items, d)
      BY <1>6 DEF Line, items
    <2>2. /\ InLine(injAccepted, injSent, injAudit, Tail(items), d) /\ Waits(injAccepted, injSent, injAudit, Head(items))
          /\ \A y \in Items(Tail(items)) : Precedes(injAccepted, Head(items), y)
      BY <1>1, <1>2, <1>5, <2>1, HeadLeaves
    <2>3. InLine(injAccepted, injSent, injAudit, Tail(items), to)
      BY <1>4, <2>2 DEF InLine
    <2> QED
      BY <1>1, <1>2, <1>6, <2>3 DEF Line
  <1>11. SentInOrder'
    BY <1>1, SentFrame
  <1> QED
    BY <1>7, <1>8, <1>9, <1>10, <1>11

(* The carried item is sent: it joins what was sent, before all that       *)
(* wait, and its row is still open.                                        *)
LEMMA SendKeeps == ASSUME InjInd, NEW q \in Made, SendInput(q) PROVE InjInd'
  <1> USE DEF InjInd, requestVars
  <1> DEFINE d  == drainer[q]
             to == [at |-> "sent", item |-> d.item]
             items == queues[q].items
  <1>1. /\ d.at = "send" /\ drainer' = [drainer EXCEPT ![q] = to] /\ injSent' = Append(injSent, d.item)
        /\ UNCHANGED <<requestVars, injAudit, queueOf, queues, injLost>>
    BY DEF SendInput, DrainGoto, Holding
  <1>2. d.at \in Carrying /\ d.at # "gone" /\ d.item \in Injections
    BY <1>1, DrainerTyped DEF Carrying
  <1>3. to \in DrainStates /\ to.at = "sent" /\ to.item = d.item
    BY <1>2, DrainStatesFacts
  <1> HIDE DEF to
  <1>4. /\ q = queueOf /\ q # 0
        /\ drainer' \in Seq(DrainStates) /\ Len(drainer') = Len(drainer)
        /\ drainer'[q] = to /\ \A r \in Made : r # q => drainer'[r] = drainer[r]
    BY <1>1, <1>2, <1>3, DrainerUpdate
  <1>5. InLine(injAccepted, injSent, injAudit, items, d)
    BY <1>4 DEF Line
  <1>6. Waits(injAccepted, injSent, injAudit, d.item) /\ \A y \in Items(items) : Precedes(injAccepted, d.item, y)
    BY <1>2, <1>5 DEF InLine
  <1>7. /\ injSent' \in Seq(Injections) /\ Len(injSent') = Len(injSent) + 1 /\ Len(injSent) \in Nat
        /\ \A k \in 1 .. Len(injSent) : injSent'[k] = injSent[k]
        /\ injSent'[Len(injSent) + 1] = d.item
        /\ Items(injSent') = Items(injSent) \cup {d.item}
    BY <1>1, <1>2, ItemsAppend DEF InjTypes
  <1>8. Made' = Made
    BY <1>1 DEF Made
  <1>9. InjTypes'
    BY <1>1, <1>4, <1>7, <1>8 DEF InjTypes
  <1>10. Requests'
    BY <1>1, <1>6, <1>7, <1>8 DEF Requests, Waits
  <1>11. OneQueue'
    BY <1>1, <1>3, <1>4, <1>8 DEF OneQueue
  <1>12. Line'
    <2>1. \A y \in Items(items) : Waits(injAccepted, injSent', injAudit, y)
      BY <1>5, <1>6, <1>7 DEF InLine, Waits
    <2>2. InLine(injAccepted, injSent', injAudit, items, to)
      BY <1>3, <1>5, <1>7, <2>1 DEF InLine, Carrying
    <2> QED
      BY <1>1, <1>4, <2>2 DEF Line
  <1>13. Told'
    BY <1>1, <1>6, <1>7 DEF Told, Waits
  <1>14. SentInOrder'
    <2>0. \A k, l \in 1 .. Len(injSent) : k < l => Precedes(injAccepted, injSent[k], injSent[l])
      BY DEF SentInOrder, Precedes
    <2>1. ASSUME NEW k \in 1 .. Len(injSent) + 1, NEW l \in 1 .. Len(injSent) + 1, k < l
          PROVE  Precedes(injAccepted, injSent'[k], injSent'[l])
      <3>1. k \in 1 .. Len(injSent)
        BY <1>7, <2>1
      <3>2. CASE l = Len(injSent) + 1
        <4>1. injSent[k] \in Items(injSent)
          BY <3>1 DEF Items
        <4> QED
          BY <1>6, <1>7, <3>1, <3>2, <4>1 DEF Waits
      <3>3. CASE l # Len(injSent) + 1
        <4>1. l \in 1 .. Len(injSent)
          BY <1>7, <3>3
        <4> QED
          BY <1>7, <2>0, <2>1, <3>1, <4>1
      <3> QED
        BY <3>2, <3>3
    <2>2. \A k, l \in 1 .. Len(injSent') : k < l => Precedes(injAccepted', injSent'[k], injSent'[l])
      BY <1>1, <1>7, <2>1
    <2> QED
      BY <2>2 DEF SentInOrder, Precedes
  <1> QED
    BY <1>9, <1>10, <1>11, <1>12, <1>13, <1>14

(* drainRemaining fails what is left, one after the other, then leaves. *)
LEMMA RemainingKeeps == ASSUME InjInd, NEW q \in Made, drainRemaining(q) PROVE InjInd'
  <1> USE DEF InjInd, requestVars
  <1> DEFINE d == drainer[q]
             items == queues[q].items
             x == Head(items)
  <1>1. d.at = "remaining" /\ UNCHANGED <<requestVars, queueOf, injSent, injLost>>
    BY DEF drainRemaining
  <1>2. d.at # "gone" /\ d.at \notin Carrying \cup {"sent"}
    BY <1>1 DEF Carrying
  <1>3. CASE items = <<>>
    <2> DEFINE to == [at |-> "leaving"]
    <2>1. drainer' = [drainer EXCEPT ![q] = to] /\ UNCHANGED <<queues, injAudit>>
      BY <1>3 DEF drainRemaining, DrainGoto
    <2>2. to \in DrainStates /\ to.at = "leaving" /\ injLost \subseteq Injections
      BY DrainStatesFacts DEF InjTypes
    <2> HIDE DEF to
    <2>3. to.at \notin {"gone", "sent"} /\ to.at \notin Carrying
      BY <2>2 DEF Carrying
    <2> QED
      BY <1>1, <1>2, <2>1, <2>2, <2>3, DrainerMoves
  <1>4. CASE items # <<>>
    <2>1. SetAudit(x, "failed") /\ queues' = [queues EXCEPT ![q].items = Tail(@)] /\ UNCHANGED drainer
      BY <1>4 DEF drainRemaining
    <2>2. /\ items \in Seq(Injections)
          /\ queues' \in Seq(QueueRec) /\ Len(queues') = Len(queues) /\ Made' = Made
          /\ queues'[q].items = Tail(items) /\ \A r \in Made : r # q => queues'[r] = queues[r]
          /\ \A r \in Made : Len(queues'[r].items) <= QueueCapacity
      BY <1>4, <2>1, QueueTail
    <2>3. q = queueOf /\ q # 0
      BY <1>2, MadeIs DEF OneQueue
    <2>4. InLine(injAccepted, injSent, injAudit, items, d)
      BY <2>3 DEF Line
    <2> HIDE DEF items
    <2>5. /\ InLine(injAccepted, injSent, injAudit, Tail(items), d) /\ Waits(injAccepted, injSent, injAudit, x)
          /\ \A y \in Items(Tail(items)) : Precedes(injAccepted, x, y)
      BY <1>2, <1>4, <2>2, <2>4, HeadLeaves
    <2>6. x \in Injections /\ injAudit[x] = "open" /\ injAt[x] = "accepted"
      BY <1>4, <2>2, <2>5, ItemsTail DEF Waits, Requests
    <2> HIDE DEF x
    <2>7. /\ injAudit' \in [Injections -> {"none", "open", "delivered", "failed"}]
          /\ injAudit'[x] = "failed" /\ \A j \in Injections : j # x => injAudit'[j] = injAudit[j]
      BY <2>1, <2>6 DEF SetAudit, InjTypes
    <2>8. InjTypes'
      BY <1>1, <2>1, <2>2, <2>7 DEF InjTypes
    <2>9. Requests'
      BY <1>1, <2>2, <2>6, <2>7 DEF Requests
    <2>10. OneQueue'
      BY <1>1, <2>1, <2>2 DEF OneQueue
    <2>11. Line'
      <3>1. \A y \in Items(Tail(items)) : y # x /\ y \in Injections
        BY <2>5, NeverBeforeItself, ItemsTyped DEF InLine, Waits, InjTypes
      <3>2. InLine(injAccepted, injSent, injAudit', Tail(items), d)
        BY <1>2, <2>5, <2>7, <3>1, LineFrame
      <3> QED
        BY <1>1, <2>1, <2>2, <2>3, <3>2 DEF Line
    <2>12. Told'
      BY <1>1, <2>5, <2>7, WaitingIsUnsent DEF Told
    <2>13. SentInOrder'
      BY <1>1, SentFrame
    <2> QED
      BY <2>8, <2>9, <2>10, <2>11, <2>12, <2>13
  <1> QED
    BY <1>3, <1>4

LEMMA RemoveKeeps == ASSUME InjInd, NEW q \in Made, removeQueue(q) PROVE InjInd'
  <1> USE DEF InjInd, requestVars
  <1> DEFINE to == [at |-> "gone"]
  <1>1. /\ drainer[q].at = "leaving" /\ drainer' = [drainer EXCEPT ![q] = to] /\ queueOf' = 0
        /\ UNCHANGED <<requestVars, injAudit, queues, injSent, injLost>>
    BY DEF removeQueue, DrainGoto
  <1>2. to \in DrainStates /\ to.at = "gone"
    BY DEF DrainStates
  <1> HIDE DEF to
  <1>3. /\ q = queueOf /\ q # 0
        /\ drainer' \in Seq(DrainStates) /\ Len(drainer') = Len(drainer)
        /\ drainer'[q] = to /\ \A r \in Made : r # q => drainer'[r] = drainer[r]
    BY <1>1, <1>2, DrainerUpdate
  <1>4. Made' = Made /\ 0 \notin Made
    BY <1>1, MadeIs DEF Made
  <1>5. InjTypes'
    BY <1>1, <1>3, <1>4 DEF InjTypes
  <1>6. Requests' /\ Told' /\ Line'
    BY <1>1, <1>4 DEF Requests, Told, Line
  <1>7. OneQueue'
    BY <1>1, <1>2, <1>3, <1>4 DEF OneQueue
  <1>8. SentInOrder'
    BY <1>1, SentFrame
  <1> QED
    BY <1>5, <1>6, <1>7, <1>8

(* A queue is told to stop: its items stay. *)
LEMMA ShutKeeps == ASSUME InjInd, handleSessionEvent \/ CloseShuts PROVE InjInd'
  <1> USE DEF InjInd
  <1>1. /\ UNCHANGED <<injEnded, injAt, injQueue, injAudit, queueOf, drainer, injAccepted, injSent, injLost, injRaced>>
        /\ injNotice' \in BOOLEAN
    BY DEF handleSessionEvent, CloseShuts, InjTypes
  <1>2. PICK z : queues' = [q \in Made |-> IF q = z THEN [queues[q] EXCEPT !.done = TRUE] ELSE queues[q]]
    <2>1. CASE handleSessionEvent
      <3>1. queues' = [q \in Made |-> IF q = queueOf THEN [queues[q] EXCEPT !.done = TRUE] ELSE queues[q]]
        BY <2>1 DEF handleSessionEvent
      <3> QED
        BY <3>1
    <2>2. CASE CloseShuts
      <3>1. queues' = [q \in Made |-> IF q = injClose.queue THEN [queues[q] EXCEPT !.done = TRUE] ELSE queues[q]]
        BY <2>2 DEF CloseShuts
      <3> QED
        BY <3>1
    <2> QED
      BY <2>1, <2>2
  <1>3. Made = 1 .. Len(queues) /\ Len(queues) \in Nat /\ queues \in Seq(QueueRec)
    BY MadeIs DEF InjTypes
  <1>4. \A q \in Made : /\ queues[q] \in QueueRec /\ [queues[q] EXCEPT !.done = TRUE] \in QueueRec
                        /\ [queues[q] EXCEPT !.done = TRUE].items = queues[q].items
    <2> TAKE q \in Made
    <2>1. queues[q] \in QueueRec
      BY <1>3, ElementOfSeq
    <2> QED
      BY <2>1 DEF QueueRec
  <1>5. \A q \in Made : queues'[q] \in QueueRec /\ queues'[q].items = queues[q].items
    BY <1>2, <1>4
  <1>6. queues' \in Seq(QueueRec) /\ Len(queues') = Len(queues) /\ Made' = Made
    <2>1. queues' \in [1 .. Len(queues) -> QueueRec]
      BY <1>2, <1>3, <1>5
    <2>2. queues' \in Seq(QueueRec)
      BY <1>3, <2>1
    <2>3. DOMAIN queues' = 1 .. Len(queues)
      BY <1>2, <1>3
    <2>4. Len(queues') = Len(queues)
      BY <1>3, <2>2, <2>3, LenProperties
    <2> QED
      BY <1>3, <2>2, <2>3, <2>4 DEF Made
  <1>7. InjTypes'
    BY <1>1, <1>5, <1>6 DEF InjTypes
  <1>8. Requests' /\ OneQueue' /\ Told'
    BY <1>1, <1>6 DEF Requests, OneQueue, Told
  <1>9. Line'
    BY <1>1, <1>5 DEF Line, InjTypes
  <1>10. SentInOrder'
    BY <1>1, SentFrame
  <1> QED
    BY <1>7, <1>8, <1>9, <1>10

LEMMA OutsideKeeps ==
    ASSUME InjInd, SessionEnds \/ NoticeDropped \/ CloseTakes \/ QueueClosed \/ UNCHANGED injVars
    PROVE  InjInd'
  <1> USE DEF InjInd
  <1>1. /\ UNCHANGED <<injAt, injQueue, injAudit, queueOf, queues, drainer, injAccepted, injSent, injLost, injRaced>>
        /\ injNotice' \in BOOLEAN /\ injEnded' \in BOOLEAN
    BY DEF SessionEnds, NoticeDropped, CloseTakes, QueueClosed, injVars, queueVars, InjTypes
  <1>2. Made' = Made
    BY <1>1 DEF Made
  <1>3. InjTypes'
    BY <1>1, <1>2 DEF InjTypes
  <1>4. Requests' /\ OneQueue' /\ Told' /\ Line'
    BY <1>1, <1>2 DEF Requests, OneQueue, Told, Line
  <1>5. SentInOrder'
    BY <1>1, SentFrame
  <1> QED
    BY <1>3, <1>4, <1>5

LEMMA InjIndNext == InjInd /\ [InjectionQueueNext]_injVars => InjInd'
  <1> SUFFICES ASSUME InjInd, [InjectionQueueNext]_injVars PROVE InjInd'
    OBVIOUS
  <1>1. ASSUME NEW i \in Injections,
               InjectSession(i) \/ CreateInjection(i) \/ EnqueueCheck(i) \/ getOrCreateQueue(i) \/ Enqueue(i)
        PROVE  InjInd'
    BY <1>1, RequestKeeps, GetQueueKeeps, EnqueueKeeps
  <1>2. ASSUME NEW q \in Made, DrainSession(q) \/ IdleTimer(q) PROVE InjInd'
    BY <1>2, TakeItemKeeps, MovesKeep, SendKeeps, RemainingKeeps, RemoveKeeps DEF DrainSession
  <1>3. CASE handleSessionEvent \/ CloseShuts
    BY <1>3, ShutKeeps
  <1>4. CASE SessionEnds \/ NoticeDropped \/ CloseTakes \/ QueueClosed \/ UNCHANGED injVars
    BY <1>4, OutsideKeeps
  <1> QED
    BY <1>1, <1>2, <1>3, <1>4 DEF InjectionQueueNext

LEMMA InjIndStrong == InjInd => InjectionQueueInv
  <1> SUFFICES ASSUME InjInd PROVE InjectionQueueInv
    OBVIOUS
  <1> USE DEF InjInd
  <1>1. Made = 1 .. Len(queues)
    BY MadeIs
  <1>2. \A q \in Made : Items(queues[q].items) \subseteq Injections /\ queues[q].done \in BOOLEAN
    <2> TAKE q \in Made
    <2>1. queues[q] \in QueueRec
      BY <1>1, ElementOfSeq DEF InjTypes
    <2> QED
      BY <2>1, ItemsTyped DEF QueueRec
  <1>3. Items(injAccepted) \cup Items(injSent) \cup injLost \cup injRaced \subseteq Injections
    BY ItemsTyped DEF InjTypes
  <1>4. InjectionQueueTypeOK
    BY <1>1, <1>2, <1>3 DEF InjectionQueueTypeOK, InjTypes
  <1>5. OneDrainer
    <2>1. Active \subseteq {queueOf}
      BY DEF Active, OneQueue
    <2>2. Active = {} \/ Active = {queueOf}
      BY <2>1
    <2>3. Cardinality({}) = 0 /\ Cardinality({queueOf}) = 1
      BY FS_EmptySet, FS_Singleton
    <2> QED
      BY <2>2, <2>3 DEF OneDrainer
  <1>6. AuditTells
    BY DEF AuditTells, Told, Requests
  <1> QED
    BY <1>4, <1>5, <1>6 DEF InjectionQueueInv

(* InjectSession, the per-session queue and its drainers                   *)
(* (injection_queue.go), for any number of injections, queues made one     *)
(* after the other and any capacity: never two drainers, items sent once   *)
(* and in the order of acceptance, and audit rows that tell what happened. *)
THEOREM InjectionsAreSound == InjectionQueueSpec => []InjectionQueueInv
  <1>1. InjInd /\ [InjectionQueueNext]_injVars => InjInd'
    BY InjIndNext
  <1> QED
    BY <1>1, InjIndInit, InjIndStrong, PTL DEF InjectionQueueSpec

-----------------------------------------------------------------------------
(* Webhook deliveries.                                                     *)

WebhooksSpec == WebhooksInit /\ [][WebhooksNext]_hookVars

(* The retry loop's copy of a row, as PendingDeliveries lists it. *)
Copies == {r \in DeliveryRow : r.status = "pending" /\ r.due}

InSweep(e) == sweep.at \in {"visit", "posting"} /\ e \in DOMAIN sweep.rows
Retried(e) == sweep.at = "posting" /\ sweep.event = e

(* Posts under way: of the retry loop, and of a first attempt. *)
Flying(e)  == IF Retried(e) THEN 1 ELSE 0
Opening(e) == IF first[e].at = "posting" THEN 1 ELSE 0

HookTypes ==
    /\ WebhooksTypeOK
    /\ first \in [HookEvents -> {NoAttempt} \cup [at : {"start", "posting"}, row : {CreateDelivery}]]
    /\ \/ sweep = IdleSweep
       \/ /\ sweep.at \in {"visit", "posting"} /\ DOMAIN sweep.rows \subseteq HookEvents
          /\ \A e \in DOMAIN sweep.rows : sweep.rows[e] \in Copies
          /\ sweep.at = "posting" => sweep.event \in DOMAIN sweep.rows /\ sweep.rows[sweep.event].attempts < MaxAttempts
    /\ overlapped \subseteq HookEvents

(* Nothing has happened to an event that was not published. *)
Unheard(e) ==
    hookEvent[e] = "new" =>
       /\ posts[e] = 0 /\ delivery[e] = NoRow("none") /\ first[e] = NoAttempt
       /\ ~InSweep(e) /\ e \notin overlapped

(* While the first attempt lasts, row and copy count the retries. *)
Early(e) ==
    first[e] # NoAttempt =>
       /\ posts[e] - Opening(e) <= MaxAttempts
       /\ IsRow(e) => delivery[e].attempts = posts[e] - Opening(e) - Flying(e)
       /\ InSweep(e) => sweep.rows[e].attempts = posts[e] - Opening(e) - Flying(e)
       /\ e \notin overlapped =>
             ~InSweep(e) /\ posts[e] = Opening(e) /\ (IsRow(e) => delivery[e] = CreateDelivery)

(* Afterwards at most one series of retries is missing from the count, and *)
(* nothing is when the attempts did not overlap.                           *)
Late(e) ==
    first[e] = NoAttempt =>
       /\ IsRow(e) => posts[e] <= MaxAttempts + delivery[e].attempts + Flying(e)
       /\ InSweep(e) => posts[e] <= MaxAttempts + sweep.rows[e].attempts + Flying(e)
       /\ e \notin overlapped =>
             /\ IsRow(e) => posts[e] = delivery[e].attempts + Flying(e)
             /\ InSweep(e) => /\ posts[e] = sweep.rows[e].attempts + Flying(e)
                              /\ IsRow(e) => delivery[e] = sweep.rows[e]

Bounded(e) == posts[e] <= IF e \in overlapped THEN 2 * MaxAttempts ELSE MaxAttempts

EventInv(e) == Unheard(e) /\ Early(e) /\ Late(e) /\ Bounded(e)

HookInd == HookTypes /\ \A e \in HookEvents : EventInv(e)

LEMMA RowFacts ==
    /\ CreateDelivery \in Copies /\ CreateDelivery.attempts = 0 /\ CreateDelivery.is = "row"
    /\ CreateDelivery.status = "pending" /\ CreateDelivery.due = TRUE
    /\ \A r \in DeliveryRow : r.attempts \in Nat /\ r.attempts <= MaxAttempts /\ r.is = "row"
    /\ \A r \in Copies : r \in DeliveryRow /\ r.status = "pending" /\ r.due
    /\ NoRow("none").is = "none" /\ NoRow("deleted").is = "deleted"
    /\ NoAttempt.at = "none" /\ IdleSweep.at = "idle"
    /\ MaxAttempts \in Nat /\ MaxAttempts >= 1
  BY WebhooksAssumption DEF CreateDelivery, Copies, DeliveryRow, NoRow, NoAttempt, IdleSweep

(* The values of an event's row and attempts. *)
LEMMA EventTypes ==
    ASSUME HookTypes, NEW e \in HookEvents
    PROVE  /\ posts[e] \in Nat /\ (IsRow(e) => delivery[e] \in DeliveryRow)
           /\ (InSweep(e) => sweep.rows[e] \in Copies)
           /\ Flying(e) \in {0, 1} /\ Opening(e) \in {0, 1} /\ (Retried(e) => InSweep(e))
           /\ (first[e] # NoAttempt => first[e].at \in {"start", "posting"} /\ first[e].row = CreateDelivery)
           /\ first[e].at \in {"none", "start", "posting"} /\ (first[e].at = "none" <=> first[e] = NoAttempt)
  <1>1. posts[e] \in Nat /\ (IsRow(e) => delivery[e] \in DeliveryRow)
    BY RowFacts DEF HookTypes, WebhooksTypeOK, IsRow
  <1>2. (InSweep(e) => sweep.rows[e] \in Copies) /\ (Retried(e) => InSweep(e))
    BY RowFacts DEF HookTypes, InSweep, Retried
  <1>3. first[e] \in {NoAttempt} \cup [at : {"start", "posting"}, row : {CreateDelivery}]
    BY DEF HookTypes
  <1>4. /\ (first[e] # NoAttempt => first[e].at \in {"start", "posting"} /\ first[e].row = CreateDelivery)
        /\ first[e].at \in {"none", "start", "posting"} /\ (first[e].at = "none" <=> first[e] = NoAttempt)
    BY <1>3, RowFacts
  <1> QED
    BY <1>1, <1>2, <1>4 DEF Flying, Opening

LEMMA HookIndInit == WebhooksInit => HookInd
  <1> SUFFICES ASSUME WebhooksInit PROVE HookInd
    OBVIOUS
  <1>1. HookTypes
    <2>1. posts \in [HookEvents -> Nat] /\ hookEdits \in 0 .. MaxHookEdits
      BY WebhooksAssumption DEF WebhooksInit
    <2>2. delivery \in [HookEvents -> DeliveryRow \cup {NoRow("none"), NoRow("deleted")}]
      BY DEF WebhooksInit
    <2>3. hook \in {"none", "on", "off", "deleted"} /\ hookEvent \in [HookEvents -> {"new", "stored", "purged"}]
      BY DEF WebhooksInit
    <2>4. first \in [HookEvents -> {NoAttempt} \cup [at : {"start", "posting"}, row : {CreateDelivery}]]
      BY DEF WebhooksInit
    <2> QED
      BY <2>1, <2>2, <2>3, <2>4 DEF HookTypes, WebhooksTypeOK, WebhooksInit
  <1>2. ASSUME NEW e \in HookEvents PROVE EventInv(e)
    <2>1. /\ posts[e] = 0 /\ delivery[e] = NoRow("none") /\ first[e] = NoAttempt
          /\ ~InSweep(e) /\ e \notin overlapped /\ ~IsRow(e)
      BY RowFacts DEF WebhooksInit, InSweep, IsRow
    <2> QED
      BY <2>1, RowFacts DEF EventInv, Unheard, Early, Late, Bounded
  <1> QED
    BY <1>1, <1>2 DEF HookInd

(* An event whose row, copy and attempts stay as they are. *)
LEMMA EventFrame ==
    ASSUME NEW e \in HookEvents, EventInv(e),
           posts'[e] = posts[e], first'[e] = first[e], hookEvent'[e] = hookEvent[e] \/ hookEvent'[e] # "new",
           delivery'[e] = delivery[e] \/ (delivery'[e].is # "row" /\ hookEvent'[e] # "new"),
           InSweep(e)' => InSweep(e) /\ sweep'.rows[e] = sweep.rows[e],
           Retried(e)' <=> Retried(e),
           e \in overlapped' <=> e \in overlapped
    PROVE  EventInv(e)'
  <1> USE DEF EventInv
  <1>1. /\ Flying(e)' = Flying(e) /\ Opening(e)' = Opening(e)
        /\ (IsRow(e)' => IsRow(e) /\ delivery'[e] = delivery[e])
    BY DEF Flying, Opening, IsRow
  <1>2. Unheard(e)'
    BY DEF Unheard
  <1>3. Early(e)'
    BY <1>1 DEF Early
  <1>4. Late(e)'
    BY <1>1 DEF Late
  <1>5. Bounded(e)'
    BY DEF Bounded
  <1> QED
    BY <1>2, <1>3, <1>4, <1>5

(* Requests on the webhook and the deletion of events: rows may go. *)
LEMMA EditKeeps ==
    ASSUME HookInd,
           CreateWebhook \/ UpdateWebhook \/ DeleteWebhook \/ (\E e \in HookEvents : PurgeEvent(e)) \/ UNCHANGED hookVars
    PROVE  HookInd'
  <1> USE DEF HookInd
  <1>1. UNCHANGED <<first, sweep, posts, overlapped>>
    BY DEF CreateWebhook, UpdateWebhook, DeleteWebhook, RemoveWebhook, InsertWebhook, StoreWebhook, EditHook,
           PurgeEvent, hookVars
  <1>2. /\ hook' \in {"none", "on", "off", "deleted"} /\ hookEdits' \in 0 .. MaxHookEdits
    <2>1. hook \in {"none", "on", "off", "deleted"} /\ hookEdits \in 0 .. MaxHookEdits
      BY DEF HookTypes, WebhooksTypeOK
    <2>2. UNCHANGED <<hook, hookEdits>> \/ \E to \in {"none", "on", "off", "deleted"} : EditHook(to)
      BY DEF CreateWebhook, UpdateWebhook, DeleteWebhook, RemoveWebhook, InsertWebhook, StoreWebhook,
             PurgeEvent, hookVars
    <2>3. CASE UNCHANGED <<hook, hookEdits>>
      BY <2>1, <2>3
    <2>4. ASSUME NEW to \in {"none", "on", "off", "deleted"}, EditHook(to)
          PROVE  hook' \in {"none", "on", "off", "deleted"} /\ hookEdits' \in 0 .. MaxHookEdits
      BY <2>1, <2>4, WebhooksAssumption DEF EditHook
    <2> QED
      BY <2>2, <2>3, <2>4
  <1>3. /\ hookEvent' \in [HookEvents -> {"new", "stored", "purged"}]
        /\ \A e \in HookEvents : hookEvent'[e] = hookEvent[e] \/ hookEvent'[e] = "purged"
    <2>1. hookEvent \in [HookEvents -> {"new", "stored", "purged"}]
      BY DEF HookTypes, WebhooksTypeOK
    <2> QED
      BY <2>1 DEF CreateWebhook, UpdateWebhook, DeleteWebhook, RemoveWebhook, InsertWebhook, StoreWebhook, EditHook,
                  PurgeEvent, hookVars
  <1>4. delivery' = delivery \/ \E E \in SUBSET HookEvents : Cascade(E)
    BY DEF CreateWebhook, UpdateWebhook, DeleteWebhook, RemoveWebhook, InsertWebhook, StoreWebhook,
           PurgeEvent, hookVars
  <1>5. /\ delivery' \in [HookEvents -> DeliveryRow \cup {NoRow("none"), NoRow("deleted")}]
        /\ \A e \in HookEvents : delivery'[e] = delivery[e] \/ (IsRow(e) /\ delivery'[e] = NoRow("deleted"))
    <2>1. delivery \in [HookEvents -> DeliveryRow \cup {NoRow("none"), NoRow("deleted")}]
      BY DEF HookTypes, WebhooksTypeOK
    <2> QED
      BY <1>4, <2>1 DEF Cascade
  <1>6. HookTypes'
    BY <1>1, <1>2, <1>3, <1>5 DEF HookTypes, WebhooksTypeOK
  <1>7. ASSUME NEW e \in HookEvents PROVE EventInv(e)'
    <2>1. delivery'[e] = delivery[e] \/ (delivery'[e].is # "row" /\ hookEvent'[e] # "new")
      <3>1. IsRow(e) => hookEvent[e] # "new"
        BY RowFacts DEF EventInv, Unheard, IsRow
      <3> QED
        BY <1>3, <1>5, <3>1, RowFacts
    <2>2. (InSweep(e)' <=> InSweep(e)) /\ (Retried(e)' <=> Retried(e))
      BY <1>1 DEF InSweep, Retried
    <2> QED
      BY <1>1, <1>3, <2>1, <2>2, EventFrame
  <1> QED
    BY <1>6, <1>7

(* The handler inserts the row and starts the first attempt. *)
LEMMA HandleKeeps == ASSUME HookInd, NEW e \in HookEvents, HandleEvent(e) PROVE HookInd'
  <1> USE DEF HookInd
  <1> DEFINE to == [at |-> "start", row |-> CreateDelivery]
  <1>1. /\ hookEvent[e] = "new" /\ hookEvent' = [hookEvent EXCEPT ![e] = "stored"]
        /\ UNCHANGED <<hook, hookEdits, sweep, posts, overlapped>>
        /\ hook # "on" => UNCHANGED <<delivery, first>>
        /\ hook = "on" => delivery' = [delivery EXCEPT ![e] = CreateDelivery]
    BY DEF HandleEvent
  <1>2. delivery \in [HookEvents -> DeliveryRow \cup {NoRow("none"), NoRow("deleted")}]
    BY DEF HookTypes, WebhooksTypeOK
  <1>3. hook = "on" => delivery'[e] = CreateDelivery /\ first' = [first EXCEPT ![e] = to]
    BY <1>1, <1>2 DEF HandleEvent
  <1>4. to.at = "start" /\ to.row = CreateDelivery /\ to # NoAttempt /\ to \in [at : {"start", "posting"}, row : {CreateDelivery}]
    BY RowFacts
  <1> HIDE DEF to
  <1>5. /\ hookEvent' \in [HookEvents -> {"new", "stored", "purged"}]
        /\ hookEvent'[e] = "stored" /\ \A f \in HookEvents : f # e => hookEvent'[f] = hookEvent[f]
    BY <1>1 DEF HookTypes, WebhooksTypeOK
  <1>6. /\ delivery' \in [HookEvents -> DeliveryRow \cup {NoRow("none"), NoRow("deleted")}]
        /\ \A f \in HookEvents : f # e => delivery'[f] = delivery[f]
    BY <1>1, <1>2, RowFacts
  <1>7. /\ first' \in [HookEvents -> {NoAttempt} \cup [at : {"start", "posting"}, row : {CreateDelivery}]]
        /\ \A f \in HookEvents : f # e => first'[f] = first[f]
        /\ hook = "on" => first'[e] = to
    BY <1>1, <1>3, <1>4 DEF HookTypes
  <1>8. HookTypes'
    BY <1>1, <1>5, <1>6, <1>7 DEF HookTypes, WebhooksTypeOK
  <1>9. \A f \in HookEvents : (InSweep(f)' <=> InSweep(f)) /\ (Retried(f)' <=> Retried(f))
    BY <1>1 DEF InSweep, Retried
  <1>10. ASSUME NEW f \in HookEvents, f # e PROVE EventInv(f)'
    BY <1>1, <1>5, <1>6, <1>7, <1>9, <1>10, EventFrame
  <1>11. EventInv(e)'
    <2>1. posts[e] = 0 /\ delivery[e] = NoRow("none") /\ first[e] = NoAttempt /\ ~InSweep(e) /\ e \notin overlapped
      BY <1>1 DEF EventInv, Unheard
    <2>2. ~Retried(e)
      BY <2>1, EventTypes
    <2>3. Flying(e)' = 0
      BY <1>9, <2>2 DEF Flying
    <2>4. CASE hook = "on"
      <3>1. first'[e] = to /\ delivery'[e] = CreateDelivery /\ Opening(e)' = 0
        BY <1>3, <1>4, <1>7, <2>4 DEF Opening
      <3>2. Early(e)'
        BY <1>1, <1>9, <2>1, <2>3, <3>1, RowFacts DEF Early
      <3>3. Late(e)' /\ Unheard(e)'
        BY <1>4, <1>5, <3>1 DEF Late, Unheard
      <3>4. Bounded(e)'
        BY <1>1, <2>1, RowFacts DEF Bounded
      <3> QED
        BY <3>2, <3>3, <3>4 DEF EventInv
    <2>5. CASE hook # "on"
      BY <1>1, <1>5, <1>9, <2>5, EventFrame
    <2> QED
      BY <2>4, <2>5
  <1> QED
    BY <1>8, <1>10, <1>11

(* The first attempt posts. *)
LEMMA FirstPostsKeeps == ASSUME HookInd, NEW e \in HookEvents, FirstPosts(e) PROVE HookInd'
  <1> USE DEF HookInd
  <1>1. /\ first[e].at = "start" /\ first' = [first EXCEPT ![e] = [first[e] EXCEPT !.at = "posting"]]
        /\ posts' = [posts EXCEPT ![e] = @ + 1]
        /\ UNCHANGED <<hook, hookEdits, hookEvent, delivery, sweep, overlapped>>
    BY DEF FirstPosts, Post
  <1>2. first[e] \in [at : {"start", "posting"}, row : {CreateDelivery}] /\ posts[e] \in Nat /\ first[e] # NoAttempt
    <2>1. first[e] \in {NoAttempt} \cup [at : {"start", "posting"}, row : {CreateDelivery}]
      BY DEF HookTypes
    <2> QED
      BY <1>1, <2>1, RowFacts, EventTypes
  <1> DEFINE to == [first[e] EXCEPT !.at = "posting"]
  <1>3. to \in [at : {"start", "posting"}, row : {CreateDelivery}] /\ to.at = "posting"
    BY <1>2
  <1>4. to # NoAttempt
    BY <1>3, RowFacts
  <1> HIDE DEF to
  <1>5. /\ first' \in [HookEvents -> {NoAttempt} \cup [at : {"start", "posting"}, row : {CreateDelivery}]]
        /\ first'[e] = to /\ \A f \in HookEvents : f # e => first'[f] = first[f]
    BY <1>1, <1>3 DEF HookTypes, to
  <1>6. /\ posts' \in [HookEvents -> Nat] /\ posts'[e] = posts[e] + 1
        /\ \A f \in HookEvents : f # e => posts'[f] = posts[f]
    BY <1>1, <1>2 DEF HookTypes, WebhooksTypeOK
  <1>7. HookTypes'
    BY <1>1, <1>5, <1>6 DEF HookTypes, WebhooksTypeOK
  <1>8. \A f \in HookEvents : (InSweep(f)' <=> InSweep(f)) /\ (Retried(f)' <=> Retried(f)) /\ (IsRow(f)' <=> IsRow(f))
    BY <1>1 DEF InSweep, Retried, IsRow
  <1>9. ASSUME NEW f \in HookEvents, f # e PROVE EventInv(f)'
    BY <1>1, <1>5, <1>6, <1>8, <1>9, EventFrame
  <1>10. EventInv(e)'
    <2>1. Opening(e) = 0 /\ Opening(e)' = 1 /\ Flying(e)' = Flying(e) /\ Flying(e) \in {0, 1}
      BY <1>1, <1>3, <1>5, <1>8, EventTypes DEF Opening, Flying
    <2>2. Early(e)
      BY DEF EventInv
    <2>3. posts[e] <= MaxAttempts
      BY <1>2, <2>1, <2>2 DEF Early
    <2>4. Early(e)'
      BY <1>1, <1>2, <1>4, <1>5, <1>6, <1>8, <2>1, <2>2, RowFacts, EventTypes DEF Early
    <2>5. Late(e)'
      BY <1>4, <1>5 DEF Late
    <2>6. Unheard(e)'
      BY <1>1, <1>2 DEF EventInv, Unheard
    <2>7. Bounded(e)'
      <3>1. e \notin overlapped => posts[e] = 0
        BY <1>2, <2>1, <2>2 DEF Early
      <3> QED
        BY <1>1, <1>2, <1>6, <2>3, <3>1, RowFacts DEF Bounded
    <2> QED
      BY <2>4, <2>5, <2>6, <2>7 DEF EventInv
  <1> QED
    BY <1>7, <1>9, <1>10

(* What an answered attempt on a copy leaves. *)
LEMMA OutcomeFacts ==
    ASSUME NEW r \in DeliveryRow, r.attempts < MaxAttempts, NEW answer \in {"2xx", "refused", "error"}
    PROVE  Outcome(r, answer) \in DeliveryRow /\ Outcome(r, answer).attempts = r.attempts + 1
  <1> DEFINE tried == [r EXCEPT !.attempts = @ + 1, !.due = FALSE]
  <1>1. r.attempts + 1 \in 0 .. MaxAttempts
    BY RowFacts
  <1>2. tried \in DeliveryRow /\ tried.attempts = r.attempts + 1
    BY <1>1 DEF DeliveryRow
  <1> HIDE DEF tried
  <1>3. \A s \in {"pending", "success", "failed"} :
           [tried EXCEPT !.status = s] \in DeliveryRow /\ [tried EXCEPT !.status = s].attempts = r.attempts + 1
    BY <1>2 DEF DeliveryRow
  <1>4. \E s \in {"pending", "success", "failed"} : Outcome(r, answer) = [tried EXCEPT !.status = s]
    BY DEF Outcome, tried
  <1> QED
    BY <1>3, <1>4

(* UpdateDelivery writes a row that is there and no other. *)
LEMMA RowWritten ==
    ASSUME HookTypes, NEW e \in HookEvents, NEW r \in DeliveryRow, UpdateDelivery(e, r)
    PROVE  /\ delivery' \in [HookEvents -> DeliveryRow \cup {NoRow("none"), NoRow("deleted")}]
           /\ \A f \in HookEvents : f # e => delivery'[f] = delivery[f]
           /\ (IsRow(e)' <=> IsRow(e)) /\ (IsRow(e) => delivery'[e] = r) /\ (~IsRow(e) => delivery'[e] = delivery[e])
  <1>1. delivery \in [HookEvents -> DeliveryRow \cup {NoRow("none"), NoRow("deleted")}]
    BY DEF HookTypes, WebhooksTypeOK
  <1>2. r.is = "row"
    BY RowFacts
  <1>3. CASE IsRow(e)
    BY <1>1, <1>2, <1>3 DEF UpdateDelivery, IsRow
  <1>4. CASE ~IsRow(e)
    BY <1>1, <1>4 DEF UpdateDelivery, IsRow
  <1> QED
    BY <1>3, <1>4

(* The first attempt ends: the row counts one, whatever it counted before. *)
LEMMA FirstAnsweredKeeps == ASSUME HookInd, NEW e \in HookEvents, FirstAnswered(e) PROVE HookInd'
  <1> USE DEF HookInd
  <1>1. /\ first[e].at = "posting" /\ Answered(e, first[e].row) /\ first' = [first EXCEPT ![e] = NoAttempt]
        /\ UNCHANGED <<hook, hookEdits, hookEvent, sweep, posts, overlapped>>
    BY DEF FirstAnswered
  <1>2. first[e] # NoAttempt /\ first[e].row = CreateDelivery /\ posts[e] \in Nat
    BY <1>1, EventTypes
  <1>3. PICK r \in DeliveryRow : UpdateDelivery(e, r) /\ r.attempts = 1
    <2>1. PICK answer \in {"2xx", "refused", "error"} : UpdateDelivery(e, Outcome(CreateDelivery, answer))
      BY <1>1, <1>2 DEF Answered
    <2>2. /\ Outcome(CreateDelivery, answer) \in DeliveryRow
          /\ Outcome(CreateDelivery, answer).attempts = CreateDelivery.attempts + 1
      BY RowFacts, OutcomeFacts
    <2> QED
      BY <2>1, <2>2, RowFacts
  <1>4. /\ delivery' \in [HookEvents -> DeliveryRow \cup {NoRow("none"), NoRow("deleted")}]
        /\ \A f \in HookEvents : f # e => delivery'[f] = delivery[f]
        /\ (IsRow(e)' <=> IsRow(e)) /\ (IsRow(e) => delivery'[e] = r) /\ (~IsRow(e) => delivery'[e] = delivery[e])
    BY <1>3, RowWritten
  <1>5. /\ first' \in [HookEvents -> {NoAttempt} \cup [at : {"start", "posting"}, row : {CreateDelivery}]]
        /\ first'[e] = NoAttempt /\ \A f \in HookEvents : f # e => first'[f] = first[f]
    BY <1>1 DEF HookTypes
  <1>6. HookTypes'
    BY <1>1, <1>4, <1>5 DEF HookTypes, WebhooksTypeOK
  <1>7. \A f \in HookEvents : (InSweep(f)' <=> InSweep(f)) /\ (Retried(f)' <=> Retried(f))
    BY <1>1 DEF InSweep, Retried
  <1>8. ASSUME NEW f \in HookEvents, f # e PROVE EventInv(f)'
    BY <1>1, <1>4, <1>5, <1>7, <1>8, EventFrame
  <1>9. EventInv(e)'
    <2>1. Opening(e) = 1 /\ Flying(e)' = Flying(e) /\ Flying(e) \in {0, 1} /\ (~InSweep(e) => Flying(e) = 0)
      BY <1>1, <1>7, EventTypes DEF Opening, Flying
    <2>2. /\ posts[e] - 1 <= MaxAttempts
          /\ InSweep(e) => sweep.rows[e].attempts = posts[e] - 1 - Flying(e)
          /\ e \notin overlapped => ~InSweep(e) /\ posts[e] = 1
      BY <1>2, <2>1 DEF EventInv, Early
    <2>3. Late(e)'
      <3>1. IsRow(e)' => posts[e] <= MaxAttempts + delivery'[e].attempts + Flying(e)'
        BY <1>2, <1>3, <1>4, <2>1, <2>2, RowFacts
      <3>2. InSweep(e)' => posts[e] <= MaxAttempts + sweep.rows[e].attempts + Flying(e)'
        <4> SUFFICES ASSUME InSweep(e) PROVE posts[e] <= MaxAttempts + sweep.rows[e].attempts + Flying(e)
          BY <1>7, <2>1
        <4>1. sweep.rows[e].attempts \in Nat
          BY EventTypes, RowFacts
        <4> QED
          BY <1>2, <2>1, <2>2, <4>1, RowFacts
      <3>3. e \notin overlapped /\ IsRow(e)' => posts[e] = delivery'[e].attempts + Flying(e)'
        BY <1>3, <1>4, <2>1, <2>2
      <3> QED
        BY <1>1, <1>7, <2>2, <3>1, <3>2, <3>3 DEF Late
    <2>4. Early(e)'
      BY <1>5 DEF Early
    <2>5. Unheard(e)' /\ Bounded(e)'
      BY <1>1, <1>2 DEF EventInv, Unheard, Bounded
    <2> QED
      BY <2>3, <2>4, <2>5 DEF EventInv
  <1> QED
    BY <1>6, <1>8, <1>9

(* The time of the next retry comes. *)
LEMMA DueKeeps == ASSUME HookInd, NEW e \in HookEvents, BecomesDue(e) PROVE HookInd'
  <1> USE DEF HookInd
  <1>1. /\ IsRow(e) /\ delivery[e].status = "pending" /\ ~delivery[e].due
        /\ delivery' = [delivery EXCEPT ![e] = [delivery[e] EXCEPT !.due = TRUE]]
        /\ UNCHANGED <<hook, hookEdits, hookEvent, first, sweep, posts, overlapped>>
    BY DEF BecomesDue
  <1>2. delivery[e] \in DeliveryRow
    BY <1>1, EventTypes
  <1> DEFINE r == [delivery[e] EXCEPT !.due = TRUE]
  <1>3. r \in DeliveryRow /\ r.attempts = delivery[e].attempts /\ r.is = "row"
    BY <1>2 DEF DeliveryRow
  <1>4. /\ delivery' \in [HookEvents -> DeliveryRow \cup {NoRow("none"), NoRow("deleted")}]
        /\ delivery'[e] = r /\ \A f \in HookEvents : f # e => delivery'[f] = delivery[f]
    BY <1>1, <1>3 DEF HookTypes, WebhooksTypeOK
  <1> HIDE DEF r
  <1>5. HookTypes'
    BY <1>1, <1>4 DEF HookTypes, WebhooksTypeOK
  <1>6. \A f \in HookEvents : /\ (InSweep(f)' <=> InSweep(f)) /\ (Retried(f)' <=> Retried(f))
                              /\ Flying(f)' = Flying(f) /\ Opening(f)' = Opening(f)
    BY <1>1 DEF InSweep, Retried, Flying, Opening
  <1>7. ASSUME NEW f \in HookEvents, f # e PROVE EventInv(f)'
    BY <1>1, <1>4, <1>6, <1>7, EventFrame
  <1>8. EventInv(e)'
    <2>1. InSweep(e) => delivery[e] # sweep.rows[e]
      BY <1>1, EventTypes, RowFacts
    <2>2. delivery[e] # CreateDelivery
      BY <1>1, RowFacts
    <2>3. Unheard(e)' /\ Bounded(e)'
      BY <1>1, RowFacts DEF EventInv, Unheard, Bounded, IsRow
    <2>4. Early(e)'
      BY <1>1, <1>3, <1>4, <1>6, <2>2 DEF EventInv, Early
    <2>5. Late(e)'
      BY <1>1, <1>3, <1>4, <1>6, <2>1 DEF EventInv, Late
    <2> QED
      BY <2>3, <2>4, <2>5 DEF EventInv
  <1> QED
    BY <1>5, <1>7, <1>8

(* retryPending lists what is due; an event in its first attempt counts as *)
(* overlapped from here on.                                                *)
LEMMA SweepListsKeeps == ASSUME HookInd, SweepLists PROVE HookInd'
  <1> USE DEF HookInd
  <1> DEFINE P == PendingDeliveries
             rows == [e \in P |-> delivery[e]]
             to == [at |-> "visit", rows |-> rows, known |-> hook \in {"on", "off"}]
  <1>1. /\ sweep = IdleSweep /\ sweep' = to
        /\ overlapped' = overlapped \cup {e \in P : first[e] # NoAttempt}
        /\ UNCHANGED <<hook, hookEdits, hookEvent, delivery, first, posts>>
    BY DEF SweepLists
  <1>2. to.at = "visit" /\ to.rows = rows /\ DOMAIN rows = P /\ \A e \in P : rows[e] = delivery[e]
    OBVIOUS
  <1>3. P \subseteq HookEvents /\ \A e \in P : IsRow(e) /\ delivery[e] \in Copies
    <2>1. \A e \in P : e \in HookEvents /\ IsRow(e) /\ delivery[e].status = "pending" /\ delivery[e].due
      BY DEF PendingDeliveries
    <2>2. \A e \in P : delivery[e] \in DeliveryRow
      BY <2>1, EventTypes
    <2> QED
      BY <2>1, <2>2 DEF Copies
  <1> HIDE DEF P, rows, to
  <1>4. HookTypes'
    BY <1>1, <1>2, <1>3 DEF HookTypes, WebhooksTypeOK
  <1>5. \A e : ~InSweep(e) /\ ~Retried(e) /\ Flying(e) = 0
    BY <1>1, RowFacts DEF InSweep, Retried, Flying
  <1>6. \A e : (InSweep(e)' <=> e \in P) /\ (InSweep(e)' => sweep'.rows[e] = delivery[e]) /\ ~Retried(e)' /\ Flying(e)' = 0
    BY <1>1, <1>2 DEF InSweep, Retried, Flying
  <1>7. ASSUME NEW e \in HookEvents PROVE EventInv(e)'
    <2>1. CASE e \notin P
      <3>1. e \in overlapped' <=> e \in overlapped
        BY <1>1, <2>1
      <3> QED
        BY <1>1, <1>5, <1>6, <2>1, <3>1, EventFrame
    <2>2. CASE e \in P
      <3>1. IsRow(e) /\ IsRow(e)' /\ Opening(e)' = Opening(e) /\ sweep'.rows[e] = delivery[e]
        BY <1>1, <1>3, <1>6, <2>2 DEF IsRow, Opening
      <3>2. (first[e] # NoAttempt => e \in overlapped') /\ (e \in overlapped => e \in overlapped')
        BY <1>1, <2>2
      <3>3. Unheard(e)'
        BY <1>1, <3>1, RowFacts DEF EventInv, Unheard, IsRow
      <3>4. Early(e)'
        BY <1>1, <1>5, <1>6, <3>1, <3>2 DEF EventInv, Early
      <3>5. Late(e)'
        BY <1>1, <1>5, <1>6, <3>1, <3>2 DEF EventInv, Late
      <3>6. Bounded(e)'
        BY <1>1, <3>2, RowFacts, EventTypes DEF EventInv, Bounded
      <3> QED
        BY <3>3, <3>4, <3>5, <3>6 DEF EventInv
    <2> QED
      BY <2>1, <2>2
  <1> QED
    BY <1>4, <1>7

(* The loop is done with one event: the copies of the others stay. *)
LEMMA RestFacts ==
    ASSUME HookTypes, NEW e \in HookEvents, InSweep(e), sweep' = SweepRest(e)
    PROVE  /\ \A f : (InSweep(f)' <=> InSweep(f) /\ f # e) /\ (InSweep(f)' => sweep'.rows[f] = sweep.rows[f])
           /\ \A f : ~Retried(f)' /\ Flying(f)' = 0
           /\ \/ sweep' = IdleSweep
              \/ /\ sweep'.at \in {"visit", "posting"} /\ DOMAIN sweep'.rows \subseteq HookEvents
                 /\ \A f \in DOMAIN sweep'.rows : sweep'.rows[f] \in Copies
                 /\ sweep'.at = "visit"
  <1>0. /\ sweep.at \in {"visit", "posting"} /\ DOMAIN sweep.rows \subseteq HookEvents /\ e \in DOMAIN sweep.rows
        /\ \A f \in DOMAIN sweep.rows : sweep.rows[f] \in Copies
    BY RowFacts DEF HookTypes, InSweep
  <1>1. CASE DOMAIN sweep.rows = {e}
    <2>1. sweep' = IdleSweep
      BY <1>1 DEF SweepRest
    <2> QED
      BY <1>0, <1>1, <2>1, RowFacts DEF InSweep, Retried, Flying
  <1>2. CASE DOMAIN sweep.rows # {e}
    <2> DEFINE D == DOMAIN sweep.rows \ {e}
               rows == [f \in D |-> sweep.rows[f]]
               to == [at |-> "visit", rows |-> rows, known |-> sweep.known]
    <2>1. sweep' = to
      BY <1>2 DEF SweepRest
    <2>2. to.at = "visit" /\ to.rows = rows /\ DOMAIN rows = D /\ \A f \in D : rows[f] = sweep.rows[f]
      OBVIOUS
    <2> HIDE DEF rows, to
    <2>3. sweep'.at = "visit" /\ DOMAIN sweep'.rows = D /\ \A f \in D : sweep'.rows[f] = sweep.rows[f]
      BY <2>1, <2>2
    <2> QED
      BY <1>0, <2>3 DEF InSweep, Retried, Flying
  <1> QED
    BY <1>1, <1>2

(* A visit that ends without a post, or the answer to a post. *)
LEMMA SweepEndsKeeps ==
    ASSUME HookInd, NEW e \in HookEvents, InSweep(e), sweep' = SweepRest(e), NEW n \in {0, 1},
           \A f \in HookEvents : Retried(f) => f = e, Flying(e) = n, NEW r \in DeliveryRow,
           (UpdateDelivery(e, r) /\ r.attempts = sweep.rows[e].attempts + n) \/ (delivery' = delivery /\ n = 0),
           UNCHANGED <<hook, hookEdits, hookEvent, first, posts, overlapped>>
    PROVE  HookInd'
  <1> USE DEF HookInd
  <1>1. /\ \A f : (InSweep(f)' <=> InSweep(f) /\ f # e) /\ (InSweep(f)' => sweep'.rows[f] = sweep.rows[f])
        /\ \A f : ~Retried(f)' /\ Flying(f)' = 0
        /\ \/ sweep' = IdleSweep
           \/ /\ sweep'.at \in {"visit", "posting"} /\ DOMAIN sweep'.rows \subseteq HookEvents
              /\ \A f \in DOMAIN sweep'.rows : sweep'.rows[f] \in Copies
              /\ sweep'.at = "visit"
    BY RestFacts
  <1>2. /\ delivery' \in [HookEvents -> DeliveryRow \cup {NoRow("none"), NoRow("deleted")}]
        /\ \A f \in HookEvents : f # e => delivery'[f] = delivery[f]
        /\ (IsRow(e)' <=> IsRow(e))
        /\ IsRow(e) => \/ delivery'[e].attempts = sweep.rows[e].attempts + n
                       \/ delivery'[e] = delivery[e] /\ n = 0
        /\ ~IsRow(e) => delivery'[e] = delivery[e]
    <2>1. CASE UpdateDelivery(e, r) /\ r.attempts = sweep.rows[e].attempts + n
      <3>1. UpdateDelivery(e, r)
        BY <2>1
      <3>2. /\ delivery' \in [HookEvents -> DeliveryRow \cup {NoRow("none"), NoRow("deleted")}]
            /\ \A f \in HookEvents : f # e => delivery'[f] = delivery[f]
            /\ (IsRow(e)' <=> IsRow(e)) /\ (IsRow(e) => delivery'[e] = r) /\ (~IsRow(e) => delivery'[e] = delivery[e])
        BY <3>1, RowWritten
      <3> QED
        BY <2>1, <3>2
    <2>2. CASE delivery' = delivery /\ n = 0
      BY <2>2 DEF HookTypes, WebhooksTypeOK, IsRow
    <2> QED
      BY <2>1, <2>2
  <1>3. HookTypes'
    <2>1. WebhooksTypeOK'
      BY <1>2 DEF HookTypes, WebhooksTypeOK
    <2> QED
      BY <1>1, <2>1 DEF HookTypes
  <1>4. ASSUME NEW f \in HookEvents, f # e PROVE EventInv(f)'
    BY <1>1, <1>2, <1>4, EventFrame
  <1>5. EventInv(e)'
    <2>1. /\ posts[e] \in Nat /\ Opening(e) \in {0, 1} /\ sweep.rows[e].attempts \in Nat
          /\ Opening(e)' = Opening(e) /\ ~InSweep(e)' /\ Flying(e)' = 0
      BY <1>1, EventTypes, RowFacts DEF Opening
    <2>2. Unheard(e)' /\ Bounded(e)'
      BY DEF EventInv, Unheard, Bounded
    <2>3. Early(e)'
      BY <1>2, <2>1 DEF EventInv, Early
    <2>4. Late(e)'
      <3> SUFFICES ASSUME first[e] = NoAttempt, IsRow(e)
                   PROVE  /\ posts[e] <= MaxAttempts + delivery'[e].attempts
                          /\ e \notin overlapped => posts[e] = delivery'[e].attempts
        <4>1. delivery'[e] \in DeliveryRow \cup {NoRow("none"), NoRow("deleted")}
          BY <1>2
        <4>2. IsRow(e)' => delivery'[e].attempts \in Nat
          BY <4>1, RowFacts DEF IsRow
        <4> QED
          BY <1>2, <2>1, <4>2, RowFacts DEF Late
      <3>1. /\ posts[e] <= MaxAttempts + delivery[e].attempts + n
            /\ posts[e] <= MaxAttempts + sweep.rows[e].attempts + n
            /\ e \notin overlapped => posts[e] = sweep.rows[e].attempts + n /\ posts[e] = delivery[e].attempts + n
        BY DEF EventInv, Late
      <3>2. delivery[e].attempts \in Nat /\ MaxAttempts \in Nat
        BY EventTypes, RowFacts
      <3>3. CASE delivery'[e].attempts = sweep.rows[e].attempts + n
        BY <2>1, <3>1, <3>2, <3>3
      <3>4. CASE delivery'[e] = delivery[e] /\ n = 0
        BY <2>1, <3>1, <3>2, <3>4
      <3> QED
        BY <1>2, <3>3, <3>4
    <2> QED
      BY <2>2, <2>3, <2>4 DEF EventInv
  <1> QED
    BY <1>3, <1>4, <1>5

LEMMA SweepVisitKeeps ==
    ASSUME HookInd, NEW e \in HookEvents, SweepGivesUp(e) \/ SweepSkips(e) PROVE HookInd'
  <1> USE DEF HookInd
  <1>1. /\ sweep.at = "visit" /\ e \in DOMAIN sweep.rows /\ sweep' = SweepRest(e)
        /\ UNCHANGED <<hook, hookEdits, hookEvent, first, posts, overlapped>>
    BY DEF SweepGivesUp, SweepSkips
  <1>2. InSweep(e) /\ (\A f \in HookEvents : ~Retried(f)) /\ Flying(e) = 0
    BY <1>1 DEF InSweep, Retried, Flying
  <1> DEFINE r == [sweep.rows[e] EXCEPT !.status = "failed"]
  <1>3. sweep.rows[e] \in DeliveryRow /\ sweep.rows[e].attempts \in Nat
    BY <1>2, EventTypes, RowFacts
  <1>4. r \in DeliveryRow /\ r.attempts = sweep.rows[e].attempts + 0
    BY <1>3 DEF DeliveryRow
  <1>5. UpdateDelivery(e, r) \/ delivery' = delivery
    BY DEF SweepGivesUp, SweepSkips
  <1> HIDE DEF r
  <1> QED
    BY <1>1, <1>2, <1>4, <1>5, SweepEndsKeeps

LEMMA SweepAnsweredKeeps == ASSUME HookInd, SweepAnswered PROVE HookInd'
  <1> USE DEF HookInd
  <1> DEFINE e == sweep.event
  <1>1. /\ sweep.at = "posting" /\ Answered(e, sweep.rows[e]) /\ sweep' = SweepRest(e)
        /\ UNCHANGED <<hook, hookEdits, hookEvent, first, posts, overlapped>>
    BY DEF SweepAnswered
  <1>2. /\ e \in HookEvents /\ InSweep(e) /\ (\A f \in HookEvents : Retried(f) => f = e) /\ Flying(e) = 1
        /\ sweep.rows[e].attempts < MaxAttempts
    BY <1>1, RowFacts DEF InSweep, Retried, Flying, HookTypes
  <1> HIDE DEF e
  <1>3. sweep.rows[e] \in DeliveryRow /\ sweep.rows[e].attempts < MaxAttempts
    BY <1>2, EventTypes, RowFacts DEF e
  <1>4. PICK answer \in {"2xx", "refused", "error"} : UpdateDelivery(e, Outcome(sweep.rows[e], answer))
    BY <1>1 DEF Answered
  <1> DEFINE r == Outcome(sweep.rows[e], answer)
  <1>5. r \in DeliveryRow /\ r.attempts = sweep.rows[e].attempts + 1
    BY <1>3, OutcomeFacts
  <1> HIDE DEF r
  <1>6. UpdateDelivery(e, r)
    BY <1>4 DEF r
  <1> QED
    BY <1>1, <1>2, <1>5, <1>6, SweepEndsKeeps

(* The loop posts, with a copy that has attempts left. *)
LEMMA SweepPostsKeeps == ASSUME HookInd, NEW e \in HookEvents, SweepPosts(e) PROVE HookInd'
  <1> USE DEF HookInd
  <1> DEFINE to == [at |-> "posting", rows |-> sweep.rows, known |-> sweep.known, event |-> e]
  <1>1. /\ sweep.at = "visit" /\ e \in DOMAIN sweep.rows /\ sweep.rows[e].attempts < MaxAttempts
        /\ sweep' = to /\ posts' = [posts EXCEPT ![e] = @ + 1]
        /\ UNCHANGED <<hook, hookEdits, hookEvent, delivery, first, overlapped>>
    BY DEF SweepPosts, Post
  <1>2. to.at = "posting" /\ to.rows = sweep.rows /\ to.event = e
    OBVIOUS
  <1> HIDE DEF to
  <1>3. posts[e] \in Nat /\ InSweep(e)
    BY <1>1, EventTypes DEF InSweep
  <1>4. /\ posts' \in [HookEvents -> Nat] /\ posts'[e] = posts[e] + 1
        /\ \A f \in HookEvents : f # e => posts'[f] = posts[f]
    BY <1>1, <1>3 DEF HookTypes, WebhooksTypeOK
  <1>5. \A f : /\ (InSweep(f)' <=> InSweep(f)) /\ (InSweep(f) => sweep'.rows[f] = sweep.rows[f])
              /\ ~Retried(f) /\ (Retried(f)' <=> f = e)
    BY <1>1, <1>2 DEF InSweep, Retried
  <1>6. HookTypes'
    <2>1. WebhooksTypeOK'
      BY <1>1, <1>4 DEF HookTypes, WebhooksTypeOK
    <2> QED
      BY <1>1, <1>2, <2>1, RowFacts DEF HookTypes
  <1>7. ASSUME NEW f \in HookEvents, f # e PROVE EventInv(f)'
    BY <1>1, <1>4, <1>5, <1>7, EventFrame
  <1>8. EventInv(e)'
    <2>1. /\ Flying(e) = 0 /\ Flying(e)' = 1 /\ Opening(e)' = Opening(e) /\ Opening(e) \in {0, 1}
          /\ (IsRow(e)' <=> IsRow(e)) /\ sweep.rows[e].attempts \in Nat
      BY <1>1, <1>3, <1>5, EventTypes, RowFacts DEF Flying, Opening, IsRow
    <2>2. IsRow(e) => delivery[e].attempts \in Nat
      BY EventTypes, RowFacts
    <2>3. Unheard(e)'
      BY <1>1, <1>3 DEF EventInv, Unheard
    <2>4. Early(e)'
      BY <1>1, <1>3, <1>4, <1>5, <2>1, <2>2, RowFacts DEF EventInv, Early
    <2>5. Late(e)'
      BY <1>1, <1>3, <1>4, <1>5, <2>1, <2>2, RowFacts DEF EventInv, Late
    <2>6. Bounded(e)'
      <3>1. CASE first[e] # NoAttempt
        <4>1. posts[e] = sweep.rows[e].attempts + Opening(e) /\ e \in overlapped
          BY <1>3, <2>1, <3>1 DEF EventInv, Early
        <4> QED
          BY <1>1, <1>3, <1>4, <2>1, <4>1, RowFacts DEF Bounded
      <3>2. CASE first[e] = NoAttempt
        <4>0. /\ posts[e] <= MaxAttempts + sweep.rows[e].attempts + Flying(e)
              /\ e \notin overlapped => posts[e] = sweep.rows[e].attempts + Flying(e)
          BY <1>3, <3>2 DEF EventInv, Late
        <4>1. /\ posts[e] <= MaxAttempts + sweep.rows[e].attempts
              /\ e \notin overlapped => posts[e] = sweep.rows[e].attempts
          BY <2>1, <4>0, RowFacts
        <4> QED
          BY <1>1, <1>3, <1>4, <2>1, <4>1, RowFacts DEF Bounded
      <3> QED
        BY <3>1, <3>2
    <2> QED
      BY <2>3, <2>4, <2>5, <2>6 DEF EventInv
  <1> QED
    BY <1>6, <1>7, <1>8

LEMMA HookIndNext == HookInd /\ [WebhooksNext]_hookVars => HookInd'
  <1> SUFFICES ASSUME HookInd, [WebhooksNext]_hookVars PROVE HookInd'
    OBVIOUS
  <1>1. CASE CreateWebhook \/ UpdateWebhook \/ DeleteWebhook \/ UNCHANGED hookVars
    BY <1>1, EditKeeps
  <1>2. ASSUME NEW e \in HookEvents, PurgeEvent(e) PROVE HookInd'
    BY <1>2, EditKeeps
  <1>3. ASSUME NEW e \in HookEvents, HandleEvent(e) \/ FirstPosts(e) \/ FirstAnswered(e) \/ BecomesDue(e)
        PROVE  HookInd'
    BY <1>3, HandleKeeps, FirstPostsKeeps, FirstAnsweredKeeps, DueKeeps
  <1>4. CASE SweepLists \/ SweepAnswered
    BY <1>4, SweepListsKeeps, SweepAnsweredKeeps
  <1>5. ASSUME NEW e \in HookEvents, SweepGivesUp(e) \/ SweepSkips(e) \/ SweepPosts(e) PROVE HookInd'
    BY <1>5, SweepVisitKeeps, SweepPostsKeeps
  <1> QED
    BY <1>1, <1>2, <1>3, <1>4, <1>5 DEF WebhooksNext, Sweep

(* A row recorded as successful without an overlap has no attempt left:    *)
(* the first one is over and the loop holds no copy of it.                 *)
LEMMA SuccessIsAtRest ==
    ASSUME HookInd, NEW e \in HookEvents, IsRow(e), delivery[e].status = "success", e \notin overlapped
    PROVE  first[e] = NoAttempt /\ ~InSweep(e) /\ hookEvent[e] # "new"
  <1>1. EventInv(e) /\ HookTypes
    BY DEF HookInd
  <1>2. first[e] = NoAttempt
    BY <1>1, RowFacts DEF EventInv, Early
  <1>3. InSweep(e) => delivery[e] = sweep.rows[e] /\ sweep.rows[e] \in Copies
    BY <1>1, <1>2, EventTypes DEF EventInv, Late
  <1>4. hookEvent[e] # "new"
    BY <1>1, RowFacts DEF EventInv, Unheard, IsRow
  <1> QED
    BY <1>2, <1>3, <1>4, RowFacts

LEMMA SuccessStays == HookInd /\ [WebhooksNext]_hookVars => [SuccessIsFinal]_hookVars
  <1> SUFFICES ASSUME HookInd, WebhooksNext, NEW e \in HookEvents,
                      IsRow(e), delivery[e].status = "success", e \notin overlapped
               PROVE  posts'[e] = posts[e] /\ (delivery'[e] = delivery[e] \/ delivery'[e].is # "row")
    BY DEF SuccessIsFinal
  <1>1. first[e] = NoAttempt /\ ~InSweep(e) /\ hookEvent[e] # "new" /\ first[e].at = "none"
    BY SuccessIsAtRest, RowFacts
  <1>2. DOMAIN posts = HookEvents /\ DOMAIN delivery = HookEvents
    BY DEF HookInd, HookTypes, WebhooksTypeOK
  <1>3. CASE CreateWebhook \/ UpdateWebhook \/ SweepLists
    BY <1>3 DEF CreateWebhook, UpdateWebhook, InsertWebhook, StoreWebhook, EditHook, SweepLists
  <1>4. ASSUME NEW E, Cascade(E) PROVE delivery'[e] = delivery[e] \/ delivery'[e].is # "row"
    BY <1>4, RowFacts DEF Cascade
  <1>5. CASE DeleteWebhook
    BY <1>4, <1>5 DEF DeleteWebhook, RemoveWebhook, EditHook
  <1>6. ASSUME NEW f \in HookEvents, PurgeEvent(f)
        PROVE  posts'[e] = posts[e] /\ (delivery'[e] = delivery[e] \/ delivery'[e].is # "row")
    BY <1>4, <1>6 DEF PurgeEvent
  <1>7. ASSUME NEW f \in HookEvents, NEW r, f # e, UpdateDelivery(f, r) PROVE delivery'[e] = delivery[e]
    BY <1>2, <1>7 DEF UpdateDelivery
  <1>8. ASSUME NEW f \in HookEvents, f # e, Post(f) PROVE posts'[e] = posts[e]
    BY <1>2, <1>8 DEF Post
  <1>9. ASSUME NEW f \in HookEvents, HandleEvent(f) \/ FirstPosts(f) \/ FirstAnswered(f) \/ BecomesDue(f)
        PROVE  posts'[e] = posts[e] /\ delivery'[e] = delivery[e]
    <2>1. f # e
      BY <1>1, <1>9 DEF HandleEvent, FirstPosts, FirstAnswered, BecomesDue
    <2>2. CASE HandleEvent(f)
      BY <1>2, <2>1, <2>2 DEF HandleEvent
    <2>3. CASE FirstPosts(f)
      BY <1>8, <2>1, <2>3 DEF FirstPosts
    <2>4. CASE FirstAnswered(f)
      BY <1>7, <2>1, <2>4 DEF FirstAnswered, Answered
    <2>5. CASE BecomesDue(f)
      BY <1>2, <2>1, <2>5 DEF BecomesDue
    <2> QED
      BY <1>9, <2>2, <2>3, <2>4, <2>5
  <1>10. ASSUME NEW f \in HookEvents, SweepGivesUp(f) \/ SweepSkips(f) \/ SweepPosts(f)
         PROVE  posts'[e] = posts[e] /\ delivery'[e] = delivery[e]
    <2>1. f # e
      BY <1>1, <1>10 DEF SweepGivesUp, SweepSkips, SweepPosts, InSweep
    <2> QED
      BY <1>7, <1>8, <1>10, <2>1 DEF SweepGivesUp, SweepSkips, SweepPosts
  <1>11. CASE SweepAnswered
    <2>1. sweep.event \in HookEvents /\ InSweep(sweep.event) /\ posts' = posts
      BY <1>11, RowFacts DEF SweepAnswered, InSweep, HookInd, HookTypes
    <2>2. PICK r : UpdateDelivery(sweep.event, r)
      BY <1>11 DEF SweepAnswered, Answered
    <2> QED
      BY <1>1, <1>7, <2>1, <2>2
  <1> QED
    BY <1>3, <1>5, <1>6, <1>9, <1>10, <1>11 DEF WebhooksNext, Sweep

(* Deliveries are sound: an endpoint is asked at most MaxAttempts times    *)
(* for an event, twice that when the retry loop overlaps the first attempt,*)
(* and a recorded success is never posted again nor taken back.            *)
THEOREM DeliveriesAreSound == WebhooksSpec => WebhooksSafe
  <1>1. WebhooksInit => HookInd
    BY HookIndInit
  <1>2. HookInd /\ [WebhooksNext]_hookVars => HookInd'
    BY HookIndNext
  <1>3. HookInd => WebhooksTypeOK /\ PostsBounded
    BY DEF HookInd, HookTypes, EventInv, Bounded, PostsBounded
  <1>4. HookInd /\ [WebhooksNext]_hookVars => [SuccessIsFinal]_hookVars
    BY SuccessStays
  <1> QED
    BY <1>1, <1>2, <1>3, <1>4, PTL DEF WebhooksSpec, WebhooksSafe

-----------------------------------------------------------------------------
(* The life of a session.                                                  *)

SessionsSpec == SessionsInit /\ [][SessionsNext]_sessionVars

Commands == {"create", "kill", "attach", "detach"}
Statuses == Live \cup Terminal
SsEvents == [type : {"status", "exit", "output", "final"}, status : Statuses \cup {NoStatus}]

(* What reports a status has one, and what reports an exit a final one.    *)
Proper(e) == (e.type = "status" => e.status \in Statuses) /\ (e.type = "exit" => e.status \in Terminal)
Reports ==
    /\ \A i \in 1 .. Len(events) : Proper(events[i])
    /\ proc = "exited" => code \in {"completed", "failed"}

(* A session is created once: the command is not sent again, and before it *)
(* arrives there is no process.                                            *)
Sent(c) == \E i \in 1 .. Len(cmds) : cmds[i] = c
OneCreate ==
    /\ row = "none" => ~creating /\ ~Sent("create") /\ proc = "none"
    /\ creating => ~Sent("create") /\ proc = "none"
    /\ Sent("create") => proc = "none"
    /\ \A i \in 1 .. Len(cmds) : \A j \in 1 .. Len(cmds) : cmds[i] = "create" /\ cmds[j] = "create" => i = j

NoExitYet == proc \in {"none", "alive", "exited"} => \A i \in 1 .. Len(events) : events[i].type # "exit"

(* Once the events on the way are handled, the row says one of S.          *)
LastStatusAt(i) == /\ events[i].type = "status"
                   /\ \A j \in 1 .. Len(events) : j > i => events[j].type # "status"
EndsUpIn(S) == /\ (\A i \in 1 .. Len(events) : events[i].type # "status") => row \in S
               /\ \A i \in 1 .. Len(events) : LastStatusAt(i) => events[i].status \in S

(* A process that nobody kills will be shown; one that has ended will not  *)
(* be shown as running.                                                    *)
Gone       == proc \in {"reported", "gone"}
Ended      == Terminal \cup {"waiting_for_input"}
AliveShown == ~lost /\ proc = "alive" /\ ~dying => Sent("kill") \/ EndsUpIn(Live)
DeadShown  == ~lost /\ Gone => EndsUpIn(Ended)

(* An open tab has been told of the end, or will be.                       *)
EndOnTheWay == \E i \in 1 .. Len(events) : events[i].type = "status" /\ events[i].status \in Terminal
TabsLearn   == ~lost /\ ~late /\ Gone =>
                  \A t \in Tabs : tabs[t].at = "open" => tabs[t].shows = "ended" \/ EndOnTheWay \/ Sent("attach")

SsCore == Reports /\ OneCreate /\ NoExitYet /\ AliveShown /\ DeadShown /\ TabsLearn
SsInd  == SessionsTypeOK /\ SsCore

LEMMA SsFacts ==
    /\ MaxEvents \in Nat /\ MaxCmds \in Nat /\ MaxBreaks \in Nat /\ MaxOutput \in Nat /\ Timeouts \subseteq {"on", "off"}
    /\ \A ty \in {"status", "exit", "output", "final"} : \A st \in Statuses \cup {NoStatus} :
          Ev(ty, st) \in SsEvents /\ Ev(ty, st).type = ty /\ Ev(ty, st).status = st
    /\ ClosedTab \in [at : {"closed", "attaching", "open"}, shows : {"connecting", "live", "ended"}]
    /\ ClosedTab.at = "closed"
  BY SessionsAssumption DEF Ev, SsEvents, ClosedTab

LEMMA SsTypes ==
    ASSUME SessionsTypeOK
    PROVE  /\ cmds \in Seq(Commands) /\ Len(cmds) \in Nat /\ Len(cmds) <= MaxCmds
           /\ events \in Seq(SsEvents) /\ Len(events) \in Nat /\ Len(events) <= MaxEvents
           /\ tabs \in [Tabs -> [at : {"closed", "attaching", "open"}, shows : {"connecting", "live", "ended"}]]
           /\ stream \in {"up", "broken", "down"} /\ row \in {"none", "created"} \cup Statuses
  BY LenProperties DEF SessionsTypeOK, Commands, SsEvents, Statuses

(* What is on its way after a command was sent or received.                *)
LEMMA CommandSent ==
    ASSUME SessionsTypeOK, NEW c \in Commands, SendCommand(c)
    PROVE  /\ cmds' \in Seq(Commands) /\ Len(cmds') <= MaxCmds
           /\ \A d : Sent(d) => Sent(d)'
           /\ \A d : Sent(d)' => Sent(d) \/ d = c
           /\ stream = "up" => Sent(c)'
           /\ stream # "up" => cmds' = cmds
           /\ c # "create" \/ ~Sent("create") =>
                 ((\A i \in 1 .. Len(cmds) : \A j \in 1 .. Len(cmds) : cmds[i] = "create" /\ cmds[j] = "create" => i = j)
                  => \A i \in 1 .. Len(cmds') : \A j \in 1 .. Len(cmds') : cmds'[i] = "create" /\ cmds'[j] = "create" => i = j)
  <1>1. cmds \in Seq(Commands) /\ Len(cmds) \in Nat /\ Len(cmds) < MaxCmds /\ MaxCmds \in Nat
    BY SsTypes, SsFacts DEF SendCommand
  <1>2. CASE stream # "up"
    <2>1. cmds' = cmds
      BY <1>2 DEF SendCommand
    <2> QED
      BY <1>1, <1>2, <2>1 DEF Sent
  <1>3. CASE stream = "up"
    <2>1. cmds' = Append(cmds, c)
      BY <1>3 DEF SendCommand
    <2>2. /\ cmds' \in Seq(Commands) /\ Len(cmds') = Len(cmds) + 1
          /\ \A i \in 1 .. Len(cmds) : cmds'[i] = cmds[i]
          /\ cmds'[Len(cmds) + 1] = c
      BY <1>1, <2>1, AppendProperties
    <2>3. \A d : Sent(d) => Sent(d)'
      BY <1>1, <2>2 DEF Sent
    <2>4. \A d : Sent(d)' => Sent(d) \/ d = c
      BY <1>1, <2>2 DEF Sent
    <2>5. Sent(c)'
      BY <1>1, <2>2 DEF Sent
    <2>6. ASSUME c # "create" \/ ~Sent("create"),
                 \A i \in 1 .. Len(cmds) : \A j \in 1 .. Len(cmds) : cmds[i] = "create" /\ cmds[j] = "create" => i = j,
                 NEW i \in 1 .. Len(cmds'), NEW j \in 1 .. Len(cmds'), cmds'[i] = "create", cmds'[j] = "create"
          PROVE  i = j
      BY <1>1, <2>2, <2>6 DEF Sent
    <2> QED
      BY <1>1, <1>3, <2>2, <2>3, <2>4, <2>5, <2>6
  <1> QED
    BY <1>2, <1>3

LEMMA CommandReceived ==
    ASSUME SessionsTypeOK, NEW c \in Commands, Receive(c)
    PROVE  /\ cmds' \in Seq(Commands) /\ Len(cmds') <= MaxCmds
           /\ \A d : Sent(d)' => Sent(d)
           /\ \A d : d # c /\ Sent(d) => Sent(d)'
           /\ Sent(c) /\ stream # "down"
           /\ (\A i \in 1 .. Len(cmds) : \A j \in 1 .. Len(cmds) : cmds[i] = "create" /\ cmds[j] = "create" => i = j)
              => /\ \A i \in 1 .. Len(cmds') : \A j \in 1 .. Len(cmds') : cmds'[i] = "create" /\ cmds'[j] = "create" => i = j
                 /\ c = "create" => ~Sent("create")'
  <1>1. cmds \in Seq(Commands) /\ Len(cmds) \in Nat /\ Len(cmds) <= MaxCmds /\ MaxCmds \in Nat
    BY SsTypes, SsFacts
  <1>2. cmds # <<>> /\ Head(cmds) = c /\ cmds' = Tail(cmds) /\ stream # "down"
    BY DEF Receive
  <1>3. /\ cmds' \in Seq(Commands) /\ Len(cmds') = Len(cmds) - 1
        /\ \A i \in 1 .. Len(cmds') : cmds'[i] = cmds[i + 1]
    BY <1>1, <1>2, HeadTailProperties
  <1>4. Len(cmds) > 0 /\ cmds[1] = c
    BY <1>1, <1>2, EmptySeq
  <1>5. \A d : Sent(d)' => Sent(d)
    BY <1>1, <1>3 DEF Sent
  <1>6. ASSUME NEW d, d # c, Sent(d) PROVE Sent(d)'
    <2>1. PICK i \in 1 .. Len(cmds) : cmds[i] = d
      BY <1>6 DEF Sent
    <2>2. i - 1 \in 1 .. Len(cmds') /\ cmds'[i - 1] = d
      BY <1>1, <1>3, <1>4, <1>6, <2>1
    <2> QED
      BY <2>2 DEF Sent
  <1>7. Sent(c)
    BY <1>1, <1>4 DEF Sent
  <1>8. ASSUME \A i \in 1 .. Len(cmds) : \A j \in 1 .. Len(cmds) : cmds[i] = "create" /\ cmds[j] = "create" => i = j
        PROVE  /\ \A i \in 1 .. Len(cmds') : \A j \in 1 .. Len(cmds') : cmds'[i] = "create" /\ cmds'[j] = "create" => i = j
               /\ c = "create" => ~Sent("create")'
    <2>1. ASSUME NEW i \in 1 .. Len(cmds') PROVE i + 1 \in 1 .. Len(cmds) /\ cmds'[i] = cmds[i + 1] /\ i + 1 # 1
      BY <1>1, <1>3
    <2>2. ASSUME NEW i \in 1 .. Len(cmds'), NEW j \in 1 .. Len(cmds'), cmds'[i] = "create", cmds'[j] = "create" PROVE i = j
      <3>1. i + 1 = j + 1
        BY <1>8, <2>1, <2>2
      <3> QED
        BY <1>1, <1>3, <3>1
    <2>3. ASSUME c = "create", NEW i \in 1 .. Len(cmds'), cmds'[i] = "create" PROVE FALSE
      <3>1. i + 1 = 1
        BY <1>1, <1>4, <1>8, <2>1, <2>3
      <3> QED
        BY <2>1, <3>1
    <2> QED
      BY <2>2, <2>3 DEF Sent
  <1> QED
    BY <1>1, <1>2, <1>3, <1>5, <1>6, <1>7, <1>8

(* Events that are added behind the others.                                *)
LEMMA EventsAdded ==
    ASSUME SessionsTypeOK, NEW k \in Seq(SsEvents), events' = events \o k
    PROVE  /\ events' \in Seq(SsEvents) /\ Len(events') = Len(events) + Len(k) /\ Len(k) \in Nat
           /\ \A i \in 1 .. Len(events') : \/ i \in 1 .. Len(events) /\ events'[i] = events[i]
                                           \/ i - Len(events) \in 1 .. Len(k) /\ events'[i] = k[i - Len(events)] /\ i > Len(events)
           /\ \A i \in 1 .. Len(events) : i \in 1 .. Len(events') /\ events'[i] = events[i]
           /\ \A i \in 1 .. Len(k) : /\ Len(events) + i \in 1 .. Len(events') /\ events'[Len(events) + i] = k[i]
                                     /\ Len(events) + i > Len(events)
  <1>1. events \in Seq(SsEvents) /\ Len(events) \in Nat /\ Len(k) \in Nat
    BY SsTypes, LenProperties
  <1>2. /\ events' \in Seq(SsEvents) /\ Len(events') = Len(events) + Len(k)
        /\ \A i \in 1 .. Len(events) + Len(k) : events'[i] = IF i <= Len(events) THEN events[i] ELSE k[i - Len(events)]
    BY <1>1, ConcatProperties
  <1> QED
    BY <1>1, <1>2

LEMMA EndsAdded ==
    ASSUME SessionsTypeOK, NEW k \in Seq(SsEvents), events' = events \o k, row' = row, NEW S,
           \A i \in 1 .. Len(k) : k[i].type = "status" => k[i].status \in S,
           EndsUpIn(S) \/ \E i \in 1 .. Len(k) : k[i].type = "status"
    PROVE  EndsUpIn(S)'
  <1>1. /\ Len(events) \in Nat /\ Len(events') = Len(events) + Len(k) /\ Len(k) \in Nat
        /\ \A i \in 1 .. Len(events') : \/ i \in 1 .. Len(events) /\ events'[i] = events[i]
                                        \/ i - Len(events) \in 1 .. Len(k) /\ events'[i] = k[i - Len(events)] /\ i > Len(events)
        /\ \A i \in 1 .. Len(events) : i \in 1 .. Len(events') /\ events'[i] = events[i]
        /\ \A i \in 1 .. Len(k) : /\ Len(events) + i \in 1 .. Len(events') /\ events'[Len(events) + i] = k[i]
                                  /\ Len(events) + i > Len(events)
    BY SsTypes, EventsAdded
  <1>2. ASSUME \A i \in 1 .. Len(events') : events'[i].type # "status" PROVE row' \in S
    <2>1. \A i \in 1 .. Len(events) : events[i].type # "status"
      BY <1>1, <1>2
    <2>2. ASSUME NEW i \in 1 .. Len(k), k[i].type = "status" PROVE FALSE
      <3>1. Len(events) + i \in 1 .. Len(events') /\ events'[Len(events) + i] = k[i]
        BY <1>1
      <3> QED
        BY <1>2, <2>2, <3>1
    <2> QED
      BY <2>1, <2>2 DEF EndsUpIn
  <1>3. ASSUME NEW i \in 1 .. Len(events'), LastStatusAt(i)' PROVE events'[i].status \in S
    <2>1. events'[i].type = "status" /\ \A j \in 1 .. Len(events') : j > i => events'[j].type # "status"
      BY <1>3 DEF LastStatusAt
    <2>2. CASE i \in 1 .. Len(events) /\ events'[i] = events[i]
      <3>1. LastStatusAt(i)
        BY <1>1, <2>1, <2>2 DEF LastStatusAt
      <3>2. ASSUME NEW j \in 1 .. Len(k) PROVE k[j].type # "status"
        <4>1. PICK n \in 1 .. Len(events') : n = Len(events) + j /\ events'[n] = k[j] /\ n > Len(events)
          BY <1>1
        <4>2. n > i
          BY <1>1, <2>2, <4>1
        <4> QED
          BY <2>1, <4>1, <4>2
      <3> QED
        BY <2>2, <3>1, <3>2 DEF EndsUpIn
    <2>3. CASE i - Len(events) \in 1 .. Len(k) /\ events'[i] = k[i - Len(events)]
      BY <2>1, <2>3
    <2> QED
      BY <1>1, <2>2, <2>3
  <1> QED
    BY <1>2, <1>3 DEF EndsUpIn

(* The next event is handled.                                              *)
LEMMA EventTaken ==
    ASSUME SessionsTypeOK, NEW ty, Recv(ty)
    PROVE  /\ events' \in Seq(SsEvents) /\ Len(events') <= MaxEvents /\ stream # "down"
           /\ Len(events') \in Nat /\ 1 \in 1 .. Len(events) /\ events[1] = Head(events) /\ events[1].type = ty
           /\ Len(events') = Len(events) - 1
           /\ \A i \in 1 .. Len(events') : i + 1 \in 1 .. Len(events) /\ events'[i] = events[i + 1]
           /\ \A i \in 1 .. Len(events) : i = 1 \/ (i - 1 \in 1 .. Len(events') /\ events'[i - 1] = events[i])
  <1>1. events \in Seq(SsEvents) /\ Len(events) \in Nat /\ Len(events) <= MaxEvents /\ MaxEvents \in Nat
    BY SsTypes, SsFacts
  <1>2. events # <<>> /\ Head(events).type = ty /\ events' = Tail(events) /\ stream # "down"
    BY DEF Recv
  <1>3. /\ events' \in Seq(SsEvents) /\ Len(events') = Len(events) - 1
        /\ \A i \in 1 .. Len(events') : events'[i] = events[i + 1]
    BY <1>1, <1>2, HeadTailProperties
  <1>4. Len(events) > 0 /\ events[1] = Head(events)
    BY <1>1, <1>2, EmptySeq
  <1> QED
    BY <1>1, <1>2, <1>3, <1>4

LEMMA EndsTaken ==
    ASSUME SessionsTypeOK, NEW ty, Recv(ty), NEW S, EndsUpIn(S),
           ty = "status" => row' = Head(events).status,
           ty # "status" => row' = row \/ row' \in S
    PROVE  EndsUpIn(S)'
  <1>1. /\ Len(events') \in Nat /\ 1 \in 1 .. Len(events) /\ events[1] = Head(events) /\ events[1].type = ty
        /\ Len(events') = Len(events) - 1
        /\ \A i \in 1 .. Len(events') : i + 1 \in 1 .. Len(events) /\ events'[i] = events[i + 1]
        /\ \A i \in 1 .. Len(events) : i = 1 \/ (i - 1 \in 1 .. Len(events') /\ events'[i - 1] = events[i])
    BY EventTaken
  <1>2. ASSUME \A i \in 1 .. Len(events') : events'[i].type # "status" PROVE row' \in S
    <2>1. \A i \in 1 .. Len(events) : i # 1 => events[i].type # "status"
      BY <1>1, <1>2
    <2>2. CASE ty = "status"
      <3>1. LastStatusAt(1)
        BY <1>1, <2>1, <2>2 DEF LastStatusAt
      <3> QED
        BY <1>1, <2>2, <3>1 DEF EndsUpIn
    <2>3. CASE ty # "status"
      BY <1>1, <2>1, <2>3 DEF EndsUpIn
    <2> QED
      BY <2>2, <2>3
  <1>3. ASSUME NEW i \in 1 .. Len(events'), LastStatusAt(i)' PROVE events'[i].status \in S
    <2>1. i + 1 \in 1 .. Len(events) /\ events'[i] = events[i + 1] /\ events'[i].type = "status"
      BY <1>1, <1>3 DEF LastStatusAt
    <2>2. ASSUME NEW j \in 1 .. Len(events), j > i + 1 PROVE events[j].type # "status"
      <3>1. j - 1 \in 1 .. Len(events') /\ events'[j - 1] = events[j] /\ j - 1 > i
        BY <1>1, <2>2
      <3> QED
        BY <1>3, <3>1 DEF LastStatusAt
    <2>3. LastStatusAt(i + 1)
      BY <2>1, <2>2 DEF LastStatusAt
    <2> QED
      BY <2>1, <2>3 DEF EndsUpIn
  <1> QED
    BY <1>2, <1>3 DEF EndsUpIn

(* What sendEvent and sendEventBlocking put on the stream: a prefix, and   *)
(* if nothing was lost all but output.                                     *)
LEMMA Sends ==
    ASSUME SessionsTypeOK, NEW es \in Seq(SsEvents), sendEvents(es) \/ sendEventsBlocking(es)
    PROVE  \E k \in Seq(SsEvents) :
              /\ events' = events \o k /\ Len(events') <= MaxEvents
              /\ \A i \in 1 .. Len(k) : i \in 1 .. Len(es) /\ k[i] = es[i]
              /\ lost' \in BOOLEAN /\ (lost => lost')
              /\ ~lost' => \A i \in 1 .. Len(es) : es[i].type # "output" => i \in 1 .. Len(k)
  <1>1. /\ events \in Seq(SsEvents) /\ Len(events) \in Nat /\ Len(events) <= MaxEvents /\ MaxEvents \in Nat
        /\ Len(es) \in Nat /\ lost \in BOOLEAN
    BY SsTypes, SsFacts, LenProperties DEF SessionsTypeOK
  <1>2. ASSUME NEW n \in Nat, n <= Len(es)
        PROVE  /\ SubSeq(es, 1, n) \in Seq(SsEvents) /\ Len(SubSeq(es, 1, n)) = n
               /\ \A i \in 1 .. n : i \in 1 .. Len(es) /\ SubSeq(es, 1, n)[i] = es[i]
    <2>1. \A i \in 1 .. n : i \in 1 .. Len(es) /\ es[i] \in SsEvents
      BY <1>1, <1>2, ElementOfSeq
    <2>2. /\ SubSeq(es, 1, n) \in Seq(SsEvents) /\ Len(SubSeq(es, 1, n)) = IF 1 <= n THEN n - 1 + 1 ELSE 0
          /\ \A i \in 1 .. n - 1 + 1 : SubSeq(es, 1, n)[i] = es[1 + i - 1]
      BY <1>2, <2>1, SubSeqProperties
    <2> QED
      BY <1>2, <2>1, <2>2
  <1>3. ASSUME NEW k \in Seq(SsEvents), events' = events \o k PROVE Len(events') = Len(events) + Len(k)
    BY <1>1, <1>3, ConcatProperties
  <1>4. CASE sendEvents(es)
    <2>1. PICK room \in Nat : room = IF stream = "down" THEN 0 ELSE MaxEvents - Len(events)
      <3>1. 0 \in Nat /\ MaxEvents - Len(events) \in Nat
        BY <1>1
      <3> QED
        BY <3>1
    <2>2. PICK n \in Nat : n = IF Len(es) < room THEN Len(es) ELSE room
      BY <1>1, <2>1
    <2>3. n <= Len(es) /\ n <= room /\ room <= MaxEvents - Len(events)
      BY <1>1, <2>1, <2>2
    <2>4. PICK k \in Seq(SsEvents) : k = SubSeq(es, 1, n)
      BY <1>2, <2>3
    <2>5. Len(k) = n /\ \A i \in 1 .. n : i \in 1 .. Len(es) /\ k[i] = es[i]
      BY <1>2, <2>3, <2>4
    <2>6. events' = events \o k /\ lost' = (lost \/ \E i \in Len(k) + 1 .. Len(es) : es[i].type # "output")
      BY <1>4, <2>1, <2>2, <2>4 DEF sendEvents
    <2>7. Len(events') <= MaxEvents
      BY <1>1, <1>3, <2>3, <2>5, <2>6
    <2>8. ASSUME ~lost', NEW i \in 1 .. Len(es), es[i].type # "output" PROVE i \in 1 .. Len(k)
      <3>1. ~(i \in Len(k) + 1 .. Len(es))
        BY <2>6, <2>8
      <3> QED
        BY <1>1, <2>5, <3>1
    <2>9. lost' \in BOOLEAN /\ (lost => lost')
      BY <2>6
    <2> QED
      BY <2>5, <2>6, <2>7, <2>8, <2>9
  <1>5. CASE Len(events) + Len(es) <= MaxEvents /\ events' = events \o es /\ UNCHANGED lost
    <2>1. Len(events') <= MaxEvents
      BY <1>3, <1>5
    <2>2. lost' \in BOOLEAN /\ (lost => lost')
      BY <1>1, <1>5
    <2> QED
      BY <1>5, <2>1, <2>2
  <1>6. CASE Len(events) + Len(es) > MaxEvents /\ events' = events \o SubSeq(es, 1, MaxEvents - Len(events)) /\ lost' = TRUE
    <2>1. PICK n \in Nat : n = MaxEvents - Len(events)
      <3>1. MaxEvents - Len(events) \in Nat
        BY <1>1
      <3> QED
        BY <3>1
    <2>2. n <= Len(es)
      BY <1>1, <1>6, <2>1
    <2>3. PICK k \in Seq(SsEvents) : k = SubSeq(es, 1, n)
      BY <1>2, <2>2
    <2>4. Len(k) = n /\ \A i \in 1 .. n : i \in 1 .. Len(es) /\ k[i] = es[i]
      BY <1>2, <2>2, <2>3
    <2>5. events' = events \o k
      BY <1>6, <2>1, <2>3
    <2>6. Len(events') <= MaxEvents
      BY <1>1, <1>3, <2>1, <2>4, <2>5
    <2> QED
      BY <1>6, <2>4, <2>5, <2>6
  <1> QED
    BY <1>4, <1>5, <1>6 DEF sendEventsBlocking

(* Statuses on their way stay so, and those that are added have one.       *)
LEMMA AddedKeeps ==
    ASSUME SessionsTypeOK, Reports, NEW k \in Seq(SsEvents), events' = events \o k,
           \A i \in 1 .. Len(k) : Proper(k[i])
    PROVE  /\ \A i \in 1 .. Len(events') : Proper(events'[i])
           /\ EndOnTheWay => EndOnTheWay'
           /\ (\E i \in 1 .. Len(k) : k[i].type = "status" /\ k[i].status \in Terminal) => EndOnTheWay'
           /\ (\A i \in 1 .. Len(events) : events[i].type # "exit") /\ (\A i \in 1 .. Len(k) : k[i].type # "exit")
              => \A i \in 1 .. Len(events') : events'[i].type # "exit"
  <1>1. /\ \A i \in 1 .. Len(events') : \/ i \in 1 .. Len(events) /\ events'[i] = events[i]
                                        \/ i - Len(events) \in 1 .. Len(k) /\ events'[i] = k[i - Len(events)]
        /\ \A i \in 1 .. Len(events) : i \in 1 .. Len(events') /\ events'[i] = events[i]
        /\ \A i \in 1 .. Len(k) : Len(events) + i \in 1 .. Len(events') /\ events'[Len(events) + i] = k[i]
    BY EventsAdded
  <1>2. \A i \in 1 .. Len(events') : Proper(events'[i])
    BY <1>1 DEF Reports
  <1>3. EndOnTheWay => EndOnTheWay'
    BY <1>1 DEF EndOnTheWay
  <1>4. (\E i \in 1 .. Len(k) : k[i].type = "status" /\ k[i].status \in Terminal) => EndOnTheWay'
    BY <1>1 DEF EndOnTheWay
  <1>5. (\A i \in 1 .. Len(events) : events[i].type # "exit") /\ (\A i \in 1 .. Len(k) : k[i].type # "exit")
        => \A i \in 1 .. Len(events') : events'[i].type # "exit"
    <2>1. SUFFICES ASSUME \A i \in 1 .. Len(events) : events[i].type # "exit", \A i \in 1 .. Len(k) : k[i].type # "exit",
                          NEW i \in 1 .. Len(events')
                   PROVE  events'[i].type # "exit"
      OBVIOUS
    <2>2. (i \in 1 .. Len(events) /\ events'[i] = events[i]) \/ \E j \in 1 .. Len(k) : events'[i] = k[j]
      BY <1>1
    <2> QED
      BY <2>1, <2>2
  <1> QED
    BY <1>2, <1>3, <1>4, <1>5

LEMMA ShownFacts ==
    ASSUME NEW ts \in [Tabs -> [at : {"closed", "attaching", "open"}, shows : {"connecting", "live", "ended"}]],
           NEW m, NEW Gets
    PROVE  /\ Shown(ts, m, Gets) \in [Tabs -> [at : {"closed", "attaching", "open"}, shows : {"connecting", "live", "ended"}]]
           /\ \A t \in Tabs : /\ Shown(ts, m, Gets)[t].at = ts[t].at
                              /\ ts[t].shows = "ended" => Shown(ts, m, Gets)[t].shows = "ended"
                              /\ m = "session_ended" /\ t \in Gets /\ ts[t].at # "closed" => Shown(ts, m, Gets)[t].shows = "ended"
  <1> DEFINE R == [at : {"closed", "attaching", "open"}, shows : {"connecting", "live", "ended"}]
             n(t) == [ts[t] EXCEPT !.shows = After(@, m)]
             x(t) == IF t \in Gets /\ ts[t].at # "closed" THEN n(t) ELSE ts[t]
  <1>1. ASSUME NEW t \in Tabs
        PROVE  /\ n(t) \in R /\ n(t).at = ts[t].at
               /\ ts[t].shows = "ended" \/ m = "session_ended" => n(t).shows = "ended"
    <2>1. ts[t] \in R
      OBVIOUS
    <2> QED
      BY <2>1 DEF After
  <1>2. Shown(ts, m, Gets) = [t \in Tabs |-> x(t)]
    BY DEF Shown
  <1> HIDE DEF n
  <1>3. ASSUME NEW t \in Tabs
        PROVE  /\ x(t) \in R /\ x(t).at = ts[t].at
               /\ ts[t].shows = "ended" => x(t).shows = "ended"
               /\ m = "session_ended" /\ t \in Gets /\ ts[t].at # "closed" => x(t).shows = "ended"
    <2>1. ts[t] \in R
      OBVIOUS
    <2> QED
      BY <1>1, <2>1
  <1> HIDE DEF x, R
  <1>4. /\ Shown(ts, m, Gets) \in [Tabs -> R]
        /\ \A t \in Tabs : Shown(ts, m, Gets)[t] = x(t)
    BY <1>2, <1>3
  <1> QED
    BY <1>3, <1>4 DEF R

(* Steps of neither the row, the channels, the process nor the tabs.       *)
LEMMA CoreKept ==
    ASSUME SsCore, UNCHANGED <<row, creating, cmds, events, proc, code, dying, tabs, lost, late>>
    PROVE  SsCore'
  BY DEF SsCore, Reports, OneCreate, NoExitYet, AliveShown, DeadShown, TabsLearn, Sent, EndsUpIn, LastStatusAt, EndOnTheWay, Gone

LEMMA SsQuiet ==
    ASSUME SsInd, TimerFires \/ ListStale \/ StreamBreaks \/ Reconnect \/ UNCHANGED sessionVars
    PROVE  SsInd'
  <1> USE DEF SsInd
  <1>1. UNCHANGED <<row, creating, cmds, events, proc, code, dying, tabs, lost, late>>
    BY DEF TimerFires, ListStale, StreamBreaks, Reconnect, sessionVars, server, process, detector
  <1>2. SsCore'
    BY <1>1, CoreKept
  <1>3. SessionsTypeOK'
    <2>1. CASE TimerFires
      <3>1. timer' \in BOOLEAN /\ idle' \in BOOLEAN /\ firing' \in BOOLEAN
        BY <2>1 DEF TimerFires
      <3>2. UNCHANGED <<server, stream, cmds, events, process, attached, lastStatus, tabs, breaks, lost, late>>
        BY <2>1 DEF TimerFires
      <3> QED
        BY <3>1, <3>2 DEF SessionsTypeOK, server, process
    <2>2. CASE ListStale
      BY <2>2 DEF ListStale, SessionsTypeOK, detector, process
    <2>3. CASE StreamBreaks
      <3>1. breaks' \in 0 .. MaxBreaks
        BY <2>3, SsFacts DEF StreamBreaks, SessionsTypeOK
      <3> QED
        BY <2>3, <3>1 DEF StreamBreaks, SessionsTypeOK, server, detector, process
    <2>4. CASE Reconnect
      BY <2>4 DEF Reconnect, SessionsTypeOK, server, detector, process
    <2>5. CASE UNCHANGED sessionVars
      BY <2>5 DEF SessionsTypeOK, sessionVars, server, detector, process
    <2> QED
      BY <2>1, <2>2, <2>3, <2>4, <2>5
  <1> QED
    BY <1>2, <1>3

(* Nothing changes but the tabs and the commands.                          *)
LEMMA TabsOnly ==
    ASSUME SsInd, UNCHANGED <<row, creating, events, proc, code, dying, lost, late>>,
           NEW c \in {"attach", "detach"}, SendCommand(c) \/ UNCHANGED cmds,
           \A t \in Tabs : tabs'[t].at = "open" => tabs'[t] = tabs[t] \/ tabs'[t].shows = "ended" \/ Sent("attach")'
    PROVE  SsCore' /\ cmds' \in Seq(Commands) /\ Len(cmds') <= MaxCmds
  <1> USE DEF SsInd, SsCore
  <1>1. /\ cmds' \in Seq(Commands) /\ Len(cmds') <= MaxCmds
        /\ \A d : Sent(d) => Sent(d)'
        /\ Sent("create")' => Sent("create")
        /\ \A i \in 1 .. Len(cmds') : \A j \in 1 .. Len(cmds') : cmds'[i] = "create" /\ cmds'[j] = "create" => i = j
    <2>1. CASE SendCommand(c)
      BY <2>1, CommandSent DEF Commands, OneCreate
    <2>2. CASE UNCHANGED cmds
      BY <2>2, SsTypes DEF Sent, OneCreate
    <2> QED
      BY <2>1, <2>2
  <1>2. \A S : EndsUpIn(S)' <=> EndsUpIn(S)
    BY DEF EndsUpIn, LastStatusAt
  <1>3. Reports' /\ NoExitYet' /\ OneCreate'
    BY <1>1 DEF Reports, NoExitYet, OneCreate
  <1>4. AliveShown' /\ DeadShown'
    BY <1>1, <1>2 DEF AliveShown, DeadShown, Gone
  <1>5. TabsLearn'
    BY <1>1 DEF TabsLearn, Gone, EndOnTheWay
  <1> QED
    BY <1>1, <1>3, <1>4, <1>5

LEMMA SsTabs ==
    ASSUME SsInd, NEW t \in Tabs, OpenTab(t) \/ AttachTab(t) \/ AttachFails(t) \/ CloseTab(t)
    PROVE  SsInd'
  <1> USE DEF SsInd
  <1>1. UNCHANGED <<row, creating, events, proc, code, dying, lost, late>>
    BY DEF OpenTab, AttachTab, AttachFails, CloseTab, server, process
  <1> DEFINE R == [at : {"closed", "attaching", "open"}, shows : {"connecting", "live", "ended"}]
  <1>2. tabs \in [Tabs -> R] /\ ClosedTab \in R /\ ClosedTab.at = "closed"
    BY SsTypes, SsFacts
  <1>3. /\ tabs' \in [Tabs -> R]
        /\ \E c \in {"attach", "detach"} : SendCommand(c) \/ UNCHANGED cmds
        /\ \A u \in Tabs : tabs'[u].at = "open" => tabs'[u] = tabs[u] \/ tabs'[u].shows = "ended" \/ Sent("attach")'
    <2>1. CASE OpenTab(t)
      <3>1. PICK r \in R : r.at = "attaching" /\ tabs' = [tabs EXCEPT ![t] = r]
        BY <1>2, <2>1 DEF OpenTab
      <3>2. UNCHANGED cmds
        BY <2>1 DEF OpenTab
      <3> HIDE DEF R
      <3> QED
        BY <1>2, <3>1, <3>2
    <2>2. CASE AttachTab(t)
      <3>1. SendCommand("attach") /\ stream = "up"
        BY <2>2 DEF AttachTab
      <3>2. Sent("attach")'
        BY <3>1, CommandSent DEF Commands
      <3>3. tabs' \in [Tabs -> R]
        BY <1>2, <2>2 DEF AttachTab
      <3> QED
        BY <3>1, <3>2, <3>3
    <2>3. CASE AttachFails(t)
      <3>1. PICK ts : ts = [tabs EXCEPT ![t] = ClosedTab]
        OBVIOUS
      <3> HIDE DEF R
      <3>2. ts \in [Tabs -> R]
        BY <1>2, <3>1
      <3>3. tabs' = Shown(ts, "session_ended", Tabs) /\ UNCHANGED cmds
        BY <2>3, <3>1 DEF AttachFails
      <3>4. /\ tabs' \in [Tabs -> R]
            /\ \A u \in Tabs : tabs'[u].at = ts[u].at /\ (ts[u].at # "closed" => tabs'[u].shows = "ended")
        BY <3>2, <3>3, ShownFacts DEF R
      <3> QED
        BY <3>3, <3>4
    <2>4. CASE CloseTab(t)
      <3>1. SendCommand("detach") /\ tabs' = [tabs EXCEPT ![t] = ClosedTab]
        BY <2>4 DEF CloseTab
      <3> HIDE DEF R
      <3>2. tabs' \in [Tabs -> R] /\ \A u \in Tabs : tabs'[u] = tabs[u] \/ tabs'[u] = ClosedTab
        BY <1>2, <3>1
      <3> QED
        BY <1>2, <3>1, <3>2
    <2> QED
      BY <2>1, <2>2, <2>3, <2>4
  <1>4. SsCore' /\ cmds' \in Seq(Commands) /\ Len(cmds') <= MaxCmds
    BY <1>1, <1>3, TabsOnly
  <1>5. SessionsTypeOK'
    <2>1. UNCHANGED <<server, stream, events, process, attached, detector, breaks, lost, late>>
      BY DEF OpenTab, AttachTab, AttachFails, CloseTab
    <2> QED
      BY <1>3, <1>4, <2>1 DEF SessionsTypeOK, server, process, detector, Commands
  <1> QED
    BY <1>4, <1>5

(* What is on the stream after the agent has sent es.                      *)
LEMMA SentFacts ==
    ASSUME SsInd, NEW es \in Seq(SsEvents), sendEvents(es) \/ sendEventsBlocking(es), row' = row,
           \A i \in 1 .. Len(es) : Proper(es[i])
    PROVE  /\ events' \in Seq(SsEvents) /\ Len(events') <= MaxEvents /\ lost' \in BOOLEAN /\ (lost => lost')
           /\ \A i \in 1 .. Len(events') : Proper(events'[i])
           /\ EndOnTheWay => EndOnTheWay'
           /\ \A j \in 1 .. Len(es) : ~lost' /\ es[j].type = "status" /\ es[j].status \in Terminal => EndOnTheWay'
           /\ (\A i \in 1 .. Len(events) : events[i].type # "exit") /\ (\A i \in 1 .. Len(es) : es[i].type # "exit")
              => \A i \in 1 .. Len(events') : events'[i].type # "exit"
           /\ \A S : (\A i \in 1 .. Len(es) : es[i].type = "status" => es[i].status \in S) /\ EndsUpIn(S) => EndsUpIn(S)'
           /\ \A S : \A j \in 1 .. Len(es) :
                 /\ \A i \in 1 .. Len(es) : es[i].type = "status" => es[i].status \in S
                 /\ ~lost' /\ es[j].type = "status"
                 => EndsUpIn(S)'
  <1> USE DEF SsInd
  <1>1. PICK k \in Seq(SsEvents) :
              /\ events' = events \o k /\ Len(events') <= MaxEvents
              /\ \A i \in 1 .. Len(k) : i \in 1 .. Len(es) /\ k[i] = es[i]
              /\ lost' \in BOOLEAN /\ (lost => lost')
              /\ ~lost' => \A i \in 1 .. Len(es) : es[i].type # "output" => i \in 1 .. Len(k)
    BY Sends
  <1>2. events' \in Seq(SsEvents)
    BY <1>1, EventsAdded
  <1>3. Reports
    BY DEF SsCore
  <1>4. \A i \in 1 .. Len(k) : Proper(k[i])
    BY <1>1
  <1>5. /\ \A i \in 1 .. Len(events') : Proper(events'[i])
        /\ EndOnTheWay => EndOnTheWay'
        /\ (\E i \in 1 .. Len(k) : k[i].type = "status" /\ k[i].status \in Terminal) => EndOnTheWay'
        /\ (\A i \in 1 .. Len(events) : events[i].type # "exit") /\ (\A i \in 1 .. Len(k) : k[i].type # "exit")
              => \A i \in 1 .. Len(events') : events'[i].type # "exit"
    BY <1>1, <1>3, <1>4, AddedKeeps
  <1>6. ASSUME NEW j \in 1 .. Len(es), ~lost', es[j].type = "status" PROVE j \in 1 .. Len(k) /\ k[j] = es[j]
    BY <1>1, <1>6
  <1>7. (\A i \in 1 .. Len(es) : es[i].type # "exit") => \A i \in 1 .. Len(k) : k[i].type # "exit"
    BY <1>1
  <1>8. ASSUME NEW S, \A i \in 1 .. Len(es) : es[i].type = "status" => es[i].status \in S
        PROVE  \A i \in 1 .. Len(k) : k[i].type = "status" => k[i].status \in S
    BY <1>1, <1>8
  <1>9. ASSUME NEW S, \A i \in 1 .. Len(es) : es[i].type = "status" => es[i].status \in S, EndsUpIn(S)
        PROVE  EndsUpIn(S)'
    <2>1. \A i \in 1 .. Len(k) : k[i].type = "status" => k[i].status \in S
      BY <1>8, <1>9
    <2> QED
      BY <1>1, <1>9, <2>1, EndsAdded
  <1>10. ASSUME NEW S, NEW j \in 1 .. Len(es), \A i \in 1 .. Len(es) : es[i].type = "status" => es[i].status \in S,
                ~lost', es[j].type = "status"
         PROVE  EndsUpIn(S)'
    <2>1. \A i \in 1 .. Len(k) : k[i].type = "status" => k[i].status \in S
      BY <1>8, <1>10
    <2>2. \E i \in 1 .. Len(k) : k[i].type = "status"
      BY <1>6, <1>10
    <2> QED
      BY <1>1, <2>1, <2>2, EndsAdded
  <1>11. ASSUME NEW j \in 1 .. Len(es), ~lost', es[j].type = "status", es[j].status \in Terminal PROVE EndOnTheWay'
    BY <1>5, <1>6, <1>11
  <1> QED
    BY <1>1, <1>2, <1>5, <1>7, <1>9, <1>10, <1>11

(* The messages that consist of one event.                                 *)
LEMMA OneEvent ==
    ASSUME NEW ty \in {"status", "exit", "output", "final"}, NEW st \in Statuses \cup {NoStatus}
    PROVE  \E es \in Seq(SsEvents) : es = <<Ev(ty, st)>> /\ Len(es) = 1 /\ es[1].type = ty /\ es[1].status = st
  <1>1. PICK e \in SsEvents : e = Ev(ty, st) /\ e.type = ty /\ e.status = st
    BY SsFacts
  <1>2. <<e>> \in Seq(SsEvents) /\ Len(<<e>>) = 1 /\ <<e>>[1] = e
    OBVIOUS
  <1> QED
    BY <1>1, <1>2

LEMMA NoEvent == \E es \in Seq(SsEvents) : es = <<>> /\ Len(es) = 0 /\ \A i : i \notin 1 .. Len(es)
  <1>1. <<>> \in Seq(SsEvents) /\ Len(<<>>) = 0
    OBVIOUS
  <1>2. PICK es : es = <<>>
    OBVIOUS
  <1>3. es \in Seq(SsEvents) /\ Len(es) = 0
    BY <1>1, <1>2
  <1>4. 1 .. Len(es) = {}
    BY <1>3
  <1>5. \A i : i \notin 1 .. Len(es)
    BY <1>4
  <1> QED
    BY <1>2, <1>3, <1>5

LEMMA Joined ==
    ASSUME NEW f \in Seq(SsEvents), NEW g \in Seq(SsEvents)
    PROVE  \E es \in Seq(SsEvents) :
              /\ es = f \o g
              /\ \A i \in 1 .. Len(es) : (\E j \in 1 .. Len(f) : es[i] = f[j]) \/ (\E j \in 1 .. Len(g) : es[i] = g[j])
              /\ \A j \in 1 .. Len(g) : \E i \in 1 .. Len(es) : es[i] = g[j]
  <1>1. PICK es : es = f \o g
    OBVIOUS
  <1>2. /\ es \in Seq(SsEvents) /\ Len(es) = Len(f) + Len(g) /\ Len(f) \in Nat /\ Len(g) \in Nat
        /\ \A i \in 1 .. Len(f) + Len(g) : es[i] = IF i <= Len(f) THEN f[i] ELSE g[i - Len(f)]
    BY <1>1, ConcatProperties, LenProperties
  <1>3. ASSUME NEW i \in 1 .. Len(es)
        PROVE  (\E j \in 1 .. Len(f) : es[i] = f[j]) \/ (\E j \in 1 .. Len(g) : es[i] = g[j])
    <2>1. CASE i <= Len(f)
      BY <1>2, <2>1
    <2>2. CASE i > Len(f)
      <3>1. i - Len(f) \in 1 .. Len(g) /\ es[i] = g[i - Len(f)]
        BY <1>2, <2>2
      <3> QED
        BY <3>1
    <2> QED
      BY <1>2, <2>1, <2>2
  <1>4. ASSUME NEW j \in 1 .. Len(g) PROVE \E i \in 1 .. Len(es) : es[i] = g[j]
    <2>1. j \in Nat /\ 1 <= j /\ j <= Len(g)
      BY <1>2
    <2>2. PICK n \in Nat : n = Len(f) + j
      BY <1>2, <2>1
    <2>3. n \in 1 .. Len(f) + Len(g) /\ n \in 1 .. Len(es) /\ ~(n <= Len(f)) /\ n - Len(f) = j
      BY <1>2, <2>1, <2>2
    <2>4. es[n] = g[n - Len(f)]
      BY <1>2, <2>3
    <2> QED
      BY <2>3, <2>4
  <1> QED
    BY <1>1, <1>2, <1>3, <1>4

(* The handlers that write the row.                                        *)
LEMMA SsCreates ==
    ASSUME SsInd, CreateSession \/ DispatchCreate
    PROVE  SsInd'
  <1> USE DEF SsInd, SsCore
  <1>1. UNCHANGED <<events, process, tabs, lost, late, attached, detector, breaks, stream, reaper, timeout>>
    BY DEF CreateSession, DispatchCreate
  <1>2. proc = "none" /\ proc' = "none" /\ code' = code
    BY <1>1 DEF CreateSession, DispatchCreate, OneCreate, process
  <1>3. Reports' /\ NoExitYet'
    BY <1>1, <1>2 DEF Reports, NoExitYet, process
  <1>4. AliveShown' /\ DeadShown' /\ TabsLearn'
    BY <1>2 DEF AliveShown, DeadShown, TabsLearn, Gone
  <1>5. OneCreate' /\ cmds' \in Seq(Commands) /\ Len(cmds') <= MaxCmds
    <2>1. CASE CreateSession
      <3>1. UNCHANGED cmds /\ row = "none" /\ row' = "created"
        BY <2>1 DEF CreateSession
      <3> QED
        BY <1>2, <3>1, SsTypes DEF OneCreate, Sent
    <2>2. CASE DispatchCreate
      <3>1. ~Sent("create") /\ row # "none"
        BY <2>2 DEF OneCreate, DispatchCreate
      <3>2. SendCommand("create") /\ "create" \in Commands /\ creating' = FALSE /\ row' # "none"
        BY <2>2, <3>1 DEF DispatchCreate, Commands
      <3>3. /\ cmds' \in Seq(Commands) /\ Len(cmds') <= MaxCmds
            /\ \A i \in 1 .. Len(cmds') : \A j \in 1 .. Len(cmds') : cmds'[i] = "create" /\ cmds'[j] = "create" => i = j
        BY <3>1, <3>2, CommandSent DEF OneCreate
      <3> QED
        BY <1>2, <3>2, <3>3 DEF OneCreate
    <2> QED
      BY <2>1, <2>2
  <1>6. row' \in {"none", "created"} \cup Live \cup Terminal /\ creating' \in BOOLEAN
    BY DEF CreateSession, DispatchCreate, SessionsTypeOK, Terminal
  <1>7. SessionsTypeOK'
    BY <1>1, <1>5, <1>6 DEF SessionsTypeOK, process, detector, Commands
  <1> QED
    BY <1>3, <1>4, <1>5, <1>7

LEMMA SsTerminates ==
    ASSUME SsInd, TerminateSession \/ ReapSession
    PROVE  SsInd'
  <1> USE DEF SsInd, SsCore
  <1>1. UNCHANGED <<events, process, tabs, late, creating, attached, detector, breaks, stream, timeout>>
    BY DEF TerminateSession, ReapSession
  <1>2. SendCommand("kill") /\ "kill" \in Commands /\ row' = "terminated" /\ lost' = (lost \/ stream # "up") /\ reaper' \in BOOLEAN
    BY DEF TerminateSession, ReapSession, Terminate, Commands, SessionsTypeOK
  <1>3. /\ cmds' \in Seq(Commands) /\ Len(cmds') <= MaxCmds
        /\ \A d : Sent(d) => Sent(d)'
        /\ Sent("create")' => Sent("create")
        /\ stream = "up" => Sent("kill")'
        /\ \A i \in 1 .. Len(cmds') : \A j \in 1 .. Len(cmds') : cmds'[i] = "create" /\ cmds'[j] = "create" => i = j
    BY <1>2, CommandSent DEF OneCreate
  <1>4. Reports' /\ NoExitYet'
    BY <1>1 DEF Reports, NoExitYet, process
  <1>5. OneCreate'
    BY <1>1, <1>2, <1>3 DEF OneCreate, process
  <1>6. AliveShown'
    BY <1>2, <1>3 DEF AliveShown
  <1>7. EndsUpIn(Ended) => EndsUpIn(Ended)'
    BY <1>1, <1>2 DEF EndsUpIn, LastStatusAt, Ended, Terminal
  <1>8. DeadShown'
    BY <1>1, <1>2, <1>7 DEF DeadShown, Gone, process
  <1>9. TabsLearn'
    BY <1>1, <1>2, <1>3 DEF TabsLearn, Gone, process, EndOnTheWay
  <1>10. lost' \in BOOLEAN
    BY <1>2
  <1>11. SessionsTypeOK'
    BY <1>1, <1>2, <1>3, <1>10 DEF SessionsTypeOK, process, detector, Commands, Terminal
  <1> QED
    BY <1>4, <1>5, <1>6, <1>8, <1>9, <1>11

(* The agent receives a command.                                           *)
LEMMA SsReceives ==
    ASSUME SsInd, handleCreateFails \/ handleKill \/ handleDetach
    PROVE  SsInd'
  <1> USE DEF SsInd, SsCore
  <1>1. /\ UNCHANGED <<row, creating, reaper, timeout, events, proc, code, outputs, tabs, lost, late, detector, breaks, stream>>
        /\ attached' \in BOOLEAN /\ dying' \in BOOLEAN /\ (dying => dying')
    BY DEF handleCreateFails, handleKill, handleDetach, server, process, SessionsTypeOK
  <1>2. PICK c \in Commands : Receive(c) /\ c # "attach" /\ (c = "kill" => (dying' \/ proc # "alive"))
    BY DEF handleCreateFails, handleKill, handleDetach, Commands
  <1>3. /\ cmds' \in Seq(Commands) /\ Len(cmds') <= MaxCmds
        /\ \A d : Sent(d)' => Sent(d)
        /\ \A d : d # c /\ Sent(d) => Sent(d)'
        /\ \A i \in 1 .. Len(cmds') : \A j \in 1 .. Len(cmds') : cmds'[i] = "create" /\ cmds'[j] = "create" => i = j
    BY <1>2, CommandReceived DEF OneCreate
  <1>4. Reports' /\ NoExitYet'
    BY <1>1 DEF Reports, NoExitYet
  <1>5. OneCreate'
    BY <1>1, <1>3 DEF OneCreate
  <1>6. \A S : EndsUpIn(S) => EndsUpIn(S)'
    BY <1>1 DEF EndsUpIn, LastStatusAt
  <1>7. AliveShown'
    BY <1>1, <1>2, <1>3, <1>6 DEF AliveShown
  <1>8. DeadShown'
    BY <1>1, <1>6 DEF DeadShown, Gone
  <1>9. TabsLearn'
    BY <1>1, <1>2, <1>3 DEF TabsLearn, Gone, EndOnTheWay
  <1>10. SessionsTypeOK'
    BY <1>1, <1>3 DEF SessionsTypeOK, detector, Commands
  <1> QED
    BY <1>4, <1>5, <1>7, <1>8, <1>9, <1>10

LEMMA SsHandleCreate ==
    ASSUME SsInd, handleCreate
    PROVE  SsInd'
  <1> USE DEF SsInd, SsCore
  <1>1. UNCHANGED <<row, creating, reaper, timeout, code, dying, outputs, tabs, late, firing, lastStatus, breaks, stream>>
    BY DEF handleCreate, server
  <1>2. /\ Receive("create") /\ proc' = "alive" /\ "create" \in Commands
        /\ attached' \in BOOLEAN /\ timer' \in BOOLEAN /\ idle' \in BOOLEAN
    BY DEF handleCreate, Commands
  <1>3. /\ cmds' \in Seq(Commands) /\ Len(cmds') <= MaxCmds /\ Sent("create") /\ ~Sent("create")'
        /\ \A i \in 1 .. Len(cmds') : \A j \in 1 .. Len(cmds') : cmds'[i] = "create" /\ cmds'[j] = "create" => i = j
    BY <1>2, CommandReceived DEF OneCreate
  <1>4. proc = "none" /\ row # "none" /\ ~creating
    BY <1>3 DEF OneCreate
  <1>5. PICK es \in Seq(SsEvents) : /\ es = <<Ev("status", "running")>> /\ Len(es) = 1
                                    /\ es[1].type = "status" /\ es[1].status = "running"
    <2>1. "running" \in Statuses \cup {NoStatus}
      BY DEF Statuses, Live
    <2> QED
      BY <2>1, OneEvent
  <1>6. sendEvents(es)
    BY <1>5 DEF handleCreate
  <1>7. /\ \A i \in 1 .. Len(es) : es[i].type = "status" /\ es[i].status \in Live /\ Proper(es[i])
        /\ 1 \in 1 .. Len(es)
    BY <1>5 DEF Live, Statuses, Proper
  <1>8. /\ events' \in Seq(SsEvents) /\ Len(events') <= MaxEvents /\ lost' \in BOOLEAN
        /\ \A i \in 1 .. Len(events') : Proper(events'[i])
        /\ (\A i \in 1 .. Len(events) : events[i].type # "exit") => \A i \in 1 .. Len(events') : events'[i].type # "exit"
        /\ ~lost' => EndsUpIn(Live)'
    BY <1>1, <1>6, <1>7, SentFacts
  <1>9. Reports' /\ NoExitYet' /\ OneCreate'
    BY <1>1, <1>2, <1>3, <1>4, <1>8 DEF Reports, NoExitYet, OneCreate
  <1>10. AliveShown' /\ DeadShown' /\ TabsLearn'
    BY <1>2, <1>8 DEF AliveShown, DeadShown, TabsLearn, Gone
  <1>11. SessionsTypeOK'
    BY <1>1, <1>2, <1>3, <1>8 DEF SessionsTypeOK, Commands, SsEvents, Statuses
  <1> QED
    BY <1>9, <1>10, <1>11

LEMMA SsHandleAttach ==
    ASSUME SsInd, handleAttach
    PROVE  SsInd'
  <1> USE DEF SsInd, SsCore
  <1>1. UNCHANGED <<row, creating, reaper, timeout, process, detector, tabs, breaks, stream>>
    BY DEF handleAttach, server
  <1>2. /\ Receive("attach") /\ "attach" \in Commands
        /\ attached' \in BOOLEAN /\ late' \in BOOLEAN /\ (late => late') /\ (proc = "reported" => late')
    BY DEF handleAttach, Commands
  <1>3. /\ cmds' \in Seq(Commands) /\ Len(cmds') <= MaxCmds
        /\ \A d : Sent(d)' => Sent(d)
        /\ \A d : d # "attach" /\ Sent(d) => Sent(d)'
        /\ \A i \in 1 .. Len(cmds') : \A j \in 1 .. Len(cmds') : cmds'[i] = "create" /\ cmds'[j] = "create" => i = j
    BY <1>2, CommandReceived DEF OneCreate
  <1>4. PICK f \in Seq(SsEvents) : f = <<Ev("final", NoStatus)>> /\ Len(f) = 1 /\ f[1].type = "final" /\ f[1].status = NoStatus
    BY OneEvent
  <1>5. PICK g \in Seq(SsEvents) : /\ g = IF InMemory THEN <<>> ELSE <<Ev("status", "terminated")>>
                                   /\ ~InMemory => 1 \in 1 .. Len(g)
                                   /\ \A i \in 1 .. Len(g) : g[i].type = "status" /\ g[i].status = "terminated" /\ ~InMemory
    <2>1. CASE InMemory
      BY <2>1, NoEvent
    <2>2. CASE ~InMemory
      <3>1. "terminated" \in Statuses \cup {NoStatus}
        BY DEF Statuses, Terminal
      <3>2. PICK h \in Seq(SsEvents) : h = <<Ev("status", "terminated")>> /\ Len(h) = 1 /\ h[1].type = "status" /\ h[1].status = "terminated"
        BY <3>1, OneEvent
      <3>3. h = IF InMemory THEN <<>> ELSE <<Ev("status", "terminated")>>
        BY <2>2, <3>2
      <3>4. 1 \in 1 .. Len(h) /\ \A i \in 1 .. Len(h) : h[i].type = "status" /\ h[i].status = "terminated"
        BY <3>2
      <3> QED
        BY <2>2, <3>3, <3>4
    <2> QED
      BY <2>1, <2>2
  <1>6. PICK es \in Seq(SsEvents) :
              /\ es = f \o g
              /\ \A i \in 1 .. Len(es) : (\E j \in 1 .. Len(f) : es[i] = f[j]) \/ (\E j \in 1 .. Len(g) : es[i] = g[j])
              /\ \A j \in 1 .. Len(g) : \E i \in 1 .. Len(es) : es[i] = g[j]
    BY Joined
  <1>7. sendEventsBlocking(es)
    BY <1>4, <1>5, <1>6 DEF handleAttach, sendScrollbackChunks
  <1>8. \A i \in 1 .. Len(es) : /\ es[i].type = "status" => es[i].status = "terminated" /\ ~InMemory
                                /\ es[i].type # "exit"
                                /\ Proper(es[i])
    BY <1>4, <1>5, <1>6 DEF Statuses, Terminal, Proper
  <1>9. /\ events' \in Seq(SsEvents) /\ Len(events') <= MaxEvents /\ lost' \in BOOLEAN /\ (lost => lost')
        /\ \A i \in 1 .. Len(events') : Proper(events'[i])
        /\ EndOnTheWay => EndOnTheWay'
        /\ \A j \in 1 .. Len(es) : ~lost' /\ es[j].type = "status" /\ es[j].status \in Terminal => EndOnTheWay'
        /\ (\A i \in 1 .. Len(events) : events[i].type # "exit") /\ (\A i \in 1 .. Len(es) : es[i].type # "exit")
              => \A i \in 1 .. Len(events') : events'[i].type # "exit"
        /\ \A S : (\A i \in 1 .. Len(es) : es[i].type = "status" => es[i].status \in S) /\ EndsUpIn(S) => EndsUpIn(S)'
    BY <1>1, <1>7, <1>8, SentFacts
  <1>10. Reports' /\ NoExitYet' /\ OneCreate'
    BY <1>1, <1>3, <1>8, <1>9 DEF Reports, NoExitYet, OneCreate, process
  <1>11. proc = "alive" => (EndsUpIn(Live) => EndsUpIn(Live)')
    BY <1>8, <1>9 DEF InMemory
  <1>12. EndsUpIn(Ended) => EndsUpIn(Ended)'
    BY <1>8, <1>9 DEF Ended, Terminal
  <1>13. AliveShown' /\ DeadShown'
    BY <1>1, <1>3, <1>9, <1>11, <1>12 DEF AliveShown, DeadShown, Gone, process
  <1>14. ~lost' /\ ~late' /\ Gone => EndOnTheWay'
    <2>1. SUFFICES ASSUME ~lost', ~late', Gone PROVE EndOnTheWay'
      OBVIOUS
    <2>2. proc = "gone"
      BY <1>2, <2>1 DEF Gone
    <2>3. ~InMemory
      BY <2>2 DEF InMemory
    <2>4. \E i \in 1 .. Len(es) : es[i].type = "status" /\ es[i].status = "terminated"
      BY <1>5, <1>6, <2>3
    <2> QED
      BY <1>9, <2>1, <2>4 DEF Terminal
  <1>15. TabsLearn'
    BY <1>1, <1>14 DEF TabsLearn, Gone, process
  <1>16. SessionsTypeOK'
    BY <1>1, <1>2, <1>3, <1>9 DEF SessionsTypeOK, Commands, SsEvents, Statuses, process, detector
  <1> QED
    BY <1>10, <1>13, <1>15, <1>16

(* The idle detector and the output of the process.                        *)
LEMMA SsDetects ==
    ASSUME SsInd, onIdle \/ \E real \in BOOLEAN : Output(real)
    PROVE  SsInd'
  <1> USE DEF SsInd, SsCore
  <1>1. /\ UNCHANGED <<row, creating, reaper, timeout, cmds, proc, code, dying, attached, tabs, late, breaks, stream>>
        /\ timer' \in BOOLEAN /\ idle' \in BOOLEAN /\ firing' \in BOOLEAN
    <2>1. CASE onIdle
      BY <2>1 DEF onIdle, server, process, SessionsTypeOK
    <2>2. ASSUME NEW real \in BOOLEAN, Output(real)
          PROVE  /\ UNCHANGED <<row, creating, reaper, timeout, cmds, proc, code, dying, attached, tabs, late, breaks, stream>>
                 /\ timer' \in BOOLEAN /\ idle' \in BOOLEAN /\ firing' \in BOOLEAN
      BY <2>2 DEF Output, Feed, server, SessionsTypeOK
    <2> QED
      BY <2>1, <2>2
  <1>2. lastStatus' \in Live \cup {NoStatus} /\ outputs' \in 0 .. MaxOutput
    <2>1. CASE onIdle
      BY <2>1 DEF onIdle, process, SessionsTypeOK, Live
    <2>2. ASSUME NEW real \in BOOLEAN, Output(real) PROVE lastStatus' \in Live \cup {NoStatus} /\ outputs' \in 0 .. MaxOutput
      <3>1. lastStatus' \in {"running", lastStatus} /\ outputs' = outputs + 1 /\ outputs < MaxOutput /\ outputs \in 0 .. MaxOutput
            /\ lastStatus \in Live \cup {NoStatus} /\ MaxOutput \in Nat
        BY <2>2, SsFacts DEF Output, Feed, SessionsTypeOK
      <3> QED
        BY <3>1 DEF Live
    <2> QED
      BY <2>1, <2>2
  <1>3. PICK es \in Seq(SsEvents) : /\ sendEvents(es)
                                    /\ \A i \in 1 .. Len(es) : /\ es[i].type \in {"status", "output"}
                                                               /\ es[i].type = "status" => es[i].status \in Live
                                                               /\ es[i].type = "status" => proc = "alive" \/ es[i].status = "waiting_for_input"
    <2>1. CASE onIdle
      <3>1. "waiting_for_input" \in Statuses \cup {NoStatus}
        BY DEF Statuses, Live
      <3>2. PICK h \in Seq(SsEvents) : h = <<Ev("status", "waiting_for_input")>> /\ Len(h) = 1 /\ h[1].type = "status" /\ h[1].status = "waiting_for_input"
        BY <3>1, OneEvent
      <3>3. CASE lastStatus = "waiting_for_input"
        <4>1. PICK e \in Seq(SsEvents) : e = <<>> /\ \A i : i \notin 1 .. Len(e)
          BY NoEvent
        <4>2. sendEvents(e)
          BY <2>1, <3>3, <4>1 DEF onIdle
        <4> QED
          BY <4>1, <4>2
      <3>4. CASE lastStatus # "waiting_for_input"
        <4>1. sendEvents(h)
          BY <2>1, <3>2, <3>4 DEF onIdle
        <4> QED
          BY <3>2, <4>1 DEF Live
      <3> QED
        BY <3>3, <3>4
    <2>2. ASSUME NEW real \in BOOLEAN, Output(real)
          PROVE  \E es \in Seq(SsEvents) : /\ sendEvents(es)
                                           /\ \A i \in 1 .. Len(es) : /\ es[i].type \in {"status", "output"}
                                                                      /\ es[i].type = "status" => es[i].status \in Live
                                                                      /\ proc = "alive"
      <3>1. "running" \in Statuses \cup {NoStatus} /\ NoStatus \in Statuses \cup {NoStatus}
        BY DEF Statuses, Live
      <3>2. PICK g \in Seq(SsEvents) : /\ g = IF real /\ idle THEN onActive ELSE <<>>
                                       /\ \A i \in 1 .. Len(g) : g[i].type = "status" /\ g[i].status = "running"
        <4>1. PICK h \in Seq(SsEvents) : h = <<Ev("status", "running")>> /\ Len(h) = 1 /\ h[1].type = "status" /\ h[1].status = "running"
          BY <3>1, OneEvent
        <4>2. CASE real /\ idle /\ lastStatus # "running"
          <5>1. h = IF real /\ idle THEN onActive ELSE <<>>
            BY <4>1, <4>2 DEF onActive
          <5>2. \A i \in 1 .. Len(h) : h[i].type = "status" /\ h[i].status = "running"
            BY <4>1
          <5> QED
            BY <5>1, <5>2
        <4>3. CASE ~(real /\ idle /\ lastStatus # "running")
          <5>1. (IF real /\ idle THEN onActive ELSE <<>>) = <<>>
            BY <4>3 DEF onActive
          <5> QED
            BY <5>1, NoEvent
        <4> QED
          BY <4>2, <4>3
      <3>3. PICK o \in Seq(SsEvents) : /\ o = IF attached THEN <<Ev("output", NoStatus)>> ELSE <<>>
                                       /\ \A i \in 1 .. Len(o) : o[i].type = "output"
        <4>1. PICK h \in Seq(SsEvents) : h = <<Ev("output", NoStatus)>> /\ Len(h) = 1 /\ h[1].type = "output" /\ h[1].status = NoStatus
          BY <3>1, OneEvent
        <4>2. CASE attached
          <5>1. h = IF attached THEN <<Ev("output", NoStatus)>> ELSE <<>>
            BY <4>1, <4>2
          <5>2. \A i \in 1 .. Len(h) : h[i].type = "output"
            BY <4>1
          <5> QED
            BY <5>1, <5>2
        <4>3. CASE ~attached
          BY <4>3, NoEvent
        <4> QED
          BY <4>2, <4>3
      <3>4. PICK es \in Seq(SsEvents) :
                  /\ es = g \o o
                  /\ \A i \in 1 .. Len(es) : (\E j \in 1 .. Len(g) : es[i] = g[j]) \/ (\E j \in 1 .. Len(o) : es[i] = o[j])
        BY Joined
      <3>5. sendEvents(es) /\ proc = "alive"
        BY <2>2, <3>2, <3>3, <3>4 DEF Output
      <3>6. ASSUME NEW i \in 1 .. Len(es)
            PROVE  es[i].type \in {"status", "output"} /\ (es[i].type = "status" => es[i].status \in Live)
        <4>1. CASE \E j \in 1 .. Len(g) : es[i] = g[j]
          BY <3>2, <4>1 DEF Live
        <4>2. CASE \E j \in 1 .. Len(o) : es[i] = o[j]
          BY <3>3, <4>2
        <4> QED
          BY <3>4, <4>1, <4>2
      <3> QED
        BY <3>5, <3>6
    <2> QED
      BY <2>1, <2>2
  <1>4. \A i \in 1 .. Len(es) : /\ es[i].type # "exit"
                                /\ Proper(es[i])
    BY <1>3 DEF Statuses, Proper
  <1>5. /\ events' \in Seq(SsEvents) /\ Len(events') <= MaxEvents /\ lost' \in BOOLEAN /\ (lost => lost')
        /\ \A i \in 1 .. Len(events') : Proper(events'[i])
        /\ EndOnTheWay => EndOnTheWay'
        /\ (\A i \in 1 .. Len(events) : events[i].type # "exit") /\ (\A i \in 1 .. Len(es) : es[i].type # "exit")
              => \A i \in 1 .. Len(events') : events'[i].type # "exit"
        /\ \A S : (\A i \in 1 .. Len(es) : es[i].type = "status" => es[i].status \in S) /\ EndsUpIn(S) => EndsUpIn(S)'
    BY <1>1, <1>3, <1>4, SentFacts
  <1>6. \A d : Sent(d)' <=> Sent(d)
    BY <1>1 DEF Sent
  <1>7. Reports' /\ NoExitYet' /\ OneCreate'
    BY <1>1, <1>4, <1>5, <1>6 DEF Reports, NoExitYet, OneCreate
  <1>8. EndsUpIn(Live) => EndsUpIn(Live)'
    BY <1>3, <1>5
  <1>9. Gone => (EndsUpIn(Ended) => EndsUpIn(Ended)')
    <2>1. Gone => \A i \in 1 .. Len(es) : es[i].type = "status" => es[i].status \in Ended
      BY <1>3 DEF Gone, Ended
    <2> QED
      BY <1>5, <2>1
  <1>10. AliveShown' /\ DeadShown'
    BY <1>1, <1>5, <1>6, <1>8, <1>9 DEF AliveShown, DeadShown, Gone
  <1>11. TabsLearn'
    BY <1>1, <1>5, <1>6 DEF TabsLearn, Gone
  <1>12. SessionsTypeOK'
    BY <1>1, <1>2, <1>5 DEF SessionsTypeOK, SsEvents, Statuses
  <1> QED
    BY <1>7, <1>10, <1>11, <1>12

(* The process ends, and the relay reports it.                             *)
LEMMA SsExits ==
    ASSUME SsInd, removeSession \/ \E st \in {"completed", "failed"} : ProcessExits(st)
    PROVE  SsInd'
  <1> USE DEF SsInd, SsCore
  <1>1. /\ UNCHANGED <<row, creating, reaper, timeout, stream, cmds, events, dying, outputs, idle, firing, tabs, breaks, lost, late>>
        /\ attached' \in BOOLEAN /\ timer' \in BOOLEAN
        /\ lastStatus' \in Live \cup {NoStatus}
    BY DEF removeSession, ProcessExits, server, detector, SessionsTypeOK
  <1>2. \/ proc = "reported" /\ proc' = "gone" /\ code' = code
        \/ proc = "alive" /\ proc' = "exited" /\ code' \in {"completed", "failed"}
    BY DEF removeSession, ProcessExits
  <1>3. (\A d : Sent(d)' <=> Sent(d)) /\ (\A S : EndsUpIn(S)' <=> EndsUpIn(S)) /\ (EndOnTheWay' <=> EndOnTheWay)
    BY <1>1 DEF Sent, EndsUpIn, LastStatusAt, EndOnTheWay
  <1>4. Reports' /\ NoExitYet' /\ OneCreate'
    BY <1>1, <1>2, <1>3 DEF Reports, NoExitYet, OneCreate
  <1>5. AliveShown' /\ DeadShown' /\ TabsLearn'
    BY <1>1, <1>2, <1>3 DEF AliveShown, DeadShown, TabsLearn, Gone
  <1>6. SessionsTypeOK'
    BY <1>1, <1>2 DEF SessionsTypeOK
  <1> QED
    BY <1>4, <1>5, <1>6

LEMMA SsRelayExit ==
    ASSUME SsInd, RelayExit
    PROVE  SsInd'
  <1> USE DEF SsInd, SsCore
  <1>1. /\ UNCHANGED <<row, creating, reaper, timeout, stream, cmds, code, dying, outputs, attached, detector, tabs, breaks, late>>
        /\ proc = "exited" /\ proc' = "reported"
    BY DEF RelayExit, server
  <1>2. code \in {"completed", "failed"} /\ code \in Statuses \cup {NoStatus} /\ code \in Terminal /\ code \in Statuses /\ code \in Ended
    BY <1>1 DEF Reports, Statuses, Terminal, Ended
  <1>3. PICK a \in SsEvents : a = Ev("status", code) /\ a.type = "status" /\ a.status = code
    BY <1>2, SsFacts
  <1>4. PICK b \in SsEvents : b = Ev("exit", code) /\ b.type = "exit" /\ b.status = code
    BY <1>2, SsFacts
  <1>5. <<a, b>> \in Seq(SsEvents) /\ Len(<<a, b>>) = 2 /\ <<a, b>>[1] = a /\ <<a, b>>[2] = b
    OBVIOUS
  <1>6. PICK es \in Seq(SsEvents) : es = <<Ev("status", code), Ev("exit", code)>> /\ Len(es) = 2 /\ es[1] = a /\ es[2] = b
    BY <1>3, <1>4, <1>5
  <1>7. sendEvents(es)
    BY <1>6 DEF RelayExit
  <1>8. \A i \in 1 .. Len(es) : es[i].status = code /\ Proper(es[i])
    BY <1>2, <1>3, <1>4, <1>6 DEF Proper
  <1>9. PICK j \in 1 .. Len(es) : es[j].type = "status" /\ es[j].status = code
    BY <1>3, <1>6
  <1>10. /\ events' \in Seq(SsEvents) /\ Len(events') <= MaxEvents /\ lost' \in BOOLEAN
         /\ \A i \in 1 .. Len(events') : Proper(events'[i])
         /\ \A i \in 1 .. Len(es) : ~lost' /\ es[i].type = "status" /\ es[i].status \in Terminal => EndOnTheWay'
         /\ \A S : \A n \in 1 .. Len(es) :
                 /\ \A i \in 1 .. Len(es) : es[i].type = "status" => es[i].status \in S
                 /\ ~lost' /\ es[n].type = "status"
                 => EndsUpIn(S)'
    BY <1>1, <1>2, <1>7, <1>8, SentFacts
  <1>11. ~lost' => EndOnTheWay' /\ EndsUpIn(Ended)'
    BY <1>2, <1>8, <1>9, <1>10
  <1>12. \A d : Sent(d)' <=> Sent(d)
    BY <1>1 DEF Sent
  <1>13. Reports' /\ NoExitYet' /\ OneCreate'
    BY <1>1, <1>10, <1>12 DEF Reports, NoExitYet, OneCreate
  <1>14. AliveShown' /\ DeadShown' /\ TabsLearn'
    BY <1>1, <1>11 DEF AliveShown, DeadShown, TabsLearn, Gone
  <1>15. SessionsTypeOK'
    BY <1>1, <1>10 DEF SessionsTypeOK, SsEvents, Statuses, detector
  <1> QED
    BY <1>13, <1>14, <1>15

(* PublishControl: no tab forgets that the session ended, and if nothing   *)
(* was lost every open tab got the message.                                *)
LEMMA Published ==
    ASSUME SessionsTypeOK, NEW m, PublishControl(m)
    PROVE  /\ tabs' \in [Tabs -> [at : {"closed", "attaching", "open"}, shows : {"connecting", "live", "ended"}]]
           /\ lost' \in BOOLEAN /\ (lost => lost')
           /\ \A t \in Tabs : /\ tabs'[t].at = tabs[t].at
                              /\ tabs[t].shows = "ended" => tabs'[t].shows = "ended"
                              /\ ~lost' /\ m = "session_ended" /\ tabs[t].at # "closed" => tabs'[t].shows = "ended"
  <1>1. tabs \in [Tabs -> [at : {"closed", "attaching", "open"}, shows : {"connecting", "live", "ended"}]]
    BY SsTypes
  <1>2. lost \in BOOLEAN
    BY DEF SessionsTypeOK
  <1>3. CASE tabs' = Shown(tabs, m, Tabs) /\ UNCHANGED lost
    BY <1>1, <1>2, <1>3, ShownFacts
  <1>4. CASE \E t \in Tabs : tabs' = Shown(tabs, m, Tabs \ {t}) /\ lost' = TRUE
    <2>1. PICK Gets : tabs' = Shown(tabs, m, Gets) /\ lost' = TRUE
      BY <1>4
    <2> QED
      BY <1>1, <2>1, ShownFacts
  <1> QED
    BY <1>3, <1>4 DEF PublishControl

(* The server handles the next event.                                      *)
LEMMA SsServes ==
    ASSUME SsInd, ServerStep
    PROVE  SsInd'
  <1> USE DEF SsInd, SsCore
  <1> DEFINE R == [at : {"closed", "attaching", "open"}, shows : {"connecting", "live", "ended"}]
  <1>1. UNCHANGED <<creating, reaper, timeout, stream, cmds, process, attached, detector, breaks, late>>
    BY DEF ServerStep, OnSessionStatus, OnSessionExit, OnSessionOutput, OnScrollbackEnd, server
  <1>2. PICK ty \in {"status", "exit", "output", "final"} :
              /\ Recv(ty)
              /\ ty = "status" => row' = Head(events).status
              /\ ty = "exit" => row' = IF row \in Terminal THEN row ELSE Head(events).status
              /\ ty \in {"output", "final"} => row' = row
              /\ \/ UNCHANGED <<tabs, lost>> /\ (ty = "status" => row' \notin Terminal)
                 \/ ty = "final" /\ PublishControl("scrollback_end")
                 \/ ty = "status" /\ PublishControl("session_ended")
    BY DEF ServerStep, OnSessionStatus, OnSessionExit, OnSessionOutput, OnScrollbackEnd, server
  <1>3. /\ events' \in Seq(SsEvents) /\ Len(events') <= MaxEvents /\ stream # "down"
        /\ 1 \in 1 .. Len(events) /\ events[1] = Head(events) /\ events[1].type = ty
        /\ \A i \in 1 .. Len(events') : i + 1 \in 1 .. Len(events) /\ events'[i] = events[i + 1]
        /\ \A i \in 1 .. Len(events) : i = 1 \/ (i - 1 \in 1 .. Len(events') /\ events'[i - 1] = events[i])
    BY <1>2, EventTaken
  <1>4. /\ tabs' \in [Tabs -> R] /\ lost' \in BOOLEAN /\ (lost => lost')
        /\ \A t \in Tabs : /\ tabs'[t].at = tabs[t].at
                           /\ tabs[t].shows = "ended" => tabs'[t].shows = "ended"
                           /\ ~lost' /\ ty = "status" /\ row' \in Terminal /\ tabs[t].at # "closed" => tabs'[t].shows = "ended"
    <2>1. CASE UNCHANGED <<tabs, lost>> /\ (ty = "status" => row' \notin Terminal)
      <3>1. tabs \in [Tabs -> R] /\ lost \in BOOLEAN
        BY SsTypes DEF SessionsTypeOK
      <3> HIDE DEF R
      <3> QED
        BY <2>1, <3>1
    <2>2. CASE ty = "final" /\ PublishControl("scrollback_end")
      BY <2>2, Published
    <2>3. CASE ty = "status" /\ PublishControl("session_ended")
      BY <2>3, Published
    <2> QED
      BY <1>2, <2>1, <2>2, <2>3
  <1> HIDE DEF R
  <1>5. /\ ty = "status" => Head(events).status \in Statuses
        /\ ty = "exit" => Head(events).status \in Terminal
    BY <1>3 DEF Reports, Proper
  <1>6. row' \in {"none", "created"} \cup Statuses /\ (row' = "none" => row = "none")
    <2>1. row \in {"none", "created"} \cup Statuses
      BY SsTypes
    <2> QED
      BY <1>2, <1>5, <2>1 DEF Statuses, Live, Terminal
  <1>7. \A d : Sent(d)' <=> Sent(d)
    BY <1>1 DEF Sent
  <1>8. Reports' /\ NoExitYet'
    BY <1>1, <1>3 DEF Reports, NoExitYet, process
  <1>9. OneCreate'
    BY <1>1, <1>6, <1>7 DEF OneCreate, process
  <1>10. proc = "alive" /\ EndsUpIn(Live) => EndsUpIn(Live)'
    <2>1. SUFFICES ASSUME proc = "alive", EndsUpIn(Live) PROVE EndsUpIn(Live)'
      OBVIOUS
    <2>2. ty # "exit"
      BY <1>3, <2>1 DEF NoExitYet
    <2>3. (ty = "status" => row' = Head(events).status) /\ (ty # "status" => row' = row \/ row' \in Live)
      BY <1>2, <2>2
    <2> QED
      BY <1>2, <2>1, <2>3, EndsTaken
  <1>11. Gone /\ EndsUpIn(Ended) => EndsUpIn(Ended)'
    <2>1. SUFFICES ASSUME EndsUpIn(Ended) PROVE EndsUpIn(Ended)'
      OBVIOUS
    <2>2. ty = "exit" => row' = row \/ row' \in Ended
      BY <1>2, <1>5 DEF Ended
    <2>3. (ty = "status" => row' = Head(events).status) /\ (ty # "status" => row' = row \/ row' \in Ended)
      BY <1>2, <2>2
    <2> QED
      BY <1>2, <2>1, <2>3, EndsTaken
  <1>12. AliveShown' /\ DeadShown'
    BY <1>1, <1>4, <1>7, <1>10, <1>11 DEF AliveShown, DeadShown, Gone, process
  <1>13. EndOnTheWay => EndOnTheWay' \/ (ty = "status" /\ row' \in Terminal)
    BY <1>2, <1>3 DEF EndOnTheWay
  <1>14. TabsLearn'
    BY <1>1, <1>4, <1>7, <1>13 DEF TabsLearn, Gone, process
  <1>15. SessionsTypeOK'
    BY <1>1, <1>3, <1>4, <1>6 DEF SessionsTypeOK, SsEvents, Statuses, process, detector, R
  <1> QED
    BY <1>8, <1>9, <1>12, <1>14, <1>15

(* A broken stream takes away what is on it.                               *)
LEMMA SsBreaks ==
    ASSUME SsInd, BreakNoticed
    PROVE  SsInd'
  <1> USE DEF SsInd, SsCore
  <1>1. /\ UNCHANGED <<row, creating, reaper, timeout, process, attached, detector, tabs, breaks, late>>
        /\ stream' = "down" /\ cmds' = <<>> /\ events' = <<>>
        /\ lost' = (lost \/ cmds # <<>> \/ events # <<>>)
    BY DEF BreakNoticed, server
  <1>2. CASE cmds = <<>> /\ events = <<>>
    <2>1. UNCHANGED <<row, creating, cmds, events, proc, code, dying, tabs, late>> /\ (lost' <=> lost) /\ lost' \in BOOLEAN
      BY <1>1, <1>2 DEF process, SessionsTypeOK
    <2>2. UNCHANGED lost
      BY <2>1 DEF SessionsTypeOK
    <2>3. SsCore'
      BY <2>1, <2>2, CoreKept
    <2>4. SessionsTypeOK'
      BY <1>1, <2>1, <2>2 DEF SessionsTypeOK, process, detector
    <2> QED
      BY <2>3, <2>4
  <1>3. CASE ~(cmds = <<>> /\ events = <<>>)
    <2>1. lost' = TRUE
      BY <1>1, <1>3
    <2>2. Len(cmds') = 0 /\ Len(events') = 0 /\ cmds' \in Seq(Commands) /\ events' \in Seq(SsEvents) /\ MaxCmds \in Nat /\ MaxEvents \in Nat
      BY <1>1, SsFacts
    <2>3. \A i : i \notin 1 .. Len(cmds') /\ i \notin 1 .. Len(events')
      <3>1. 1 .. Len(cmds') = {} /\ 1 .. Len(events') = {}
        BY <2>2
      <3> QED
        BY <3>1
    <2>4. Reports' /\ NoExitYet'
      BY <1>1, <2>3 DEF Reports, NoExitYet, process
    <2>5. OneCreate'
      BY <1>1, <2>3 DEF OneCreate, Sent, process
    <2>6. AliveShown' /\ DeadShown' /\ TabsLearn'
      BY <2>1 DEF AliveShown, DeadShown, TabsLearn
    <2>7. SessionsTypeOK'
      BY <1>1, <2>1, <2>2 DEF SessionsTypeOK, process, detector, Commands, SsEvents, Statuses
    <2> QED
      BY <2>4, <2>5, <2>6, <2>7
  <1> QED
    BY <1>2, <1>3

LEMMA SsInit == SessionsInit => SsInd
  <1> SUFFICES ASSUME SessionsInit PROVE SsInd
    OBVIOUS
  <1> USE DEF SessionsInit
  <1>1. Len(cmds) = 0 /\ Len(events) = 0 /\ cmds \in Seq(Commands) /\ events \in Seq(SsEvents)
    OBVIOUS
  <1>2. \A i : i \notin 1 .. Len(cmds) /\ i \notin 1 .. Len(events)
    <2>1. 1 .. Len(cmds) = {} /\ 1 .. Len(events) = {}
      BY <1>1
    <2> QED
      BY <2>1
  <1>3. SessionsTypeOK
    <2>1. tabs \in [Tabs -> [at : {"closed", "attaching", "open"}, shows : {"connecting", "live", "ended"}]]
      BY SsFacts
    <2>2. timeout \in {"on", "off"} /\ MaxEvents >= 0 /\ MaxCmds >= 0 /\ 0 \in 0 .. MaxOutput /\ 0 \in 0 .. MaxBreaks
      BY SsFacts
    <2> QED
      BY <1>1, <2>1, <2>2 DEF SessionsTypeOK, Commands, SsEvents, Statuses
  <1>4. SsCore
    BY <1>2 DEF SsCore, Reports, OneCreate, NoExitYet, AliveShown, DeadShown, TabsLearn, Gone, Sent
  <1> QED
    BY <1>3, <1>4 DEF SsInd

LEMMA SsNext == SsInd /\ [SessionsNext]_sessionVars => SsInd'
  <1> SUFFICES ASSUME SsInd, [SessionsNext]_sessionVars PROVE SsInd'
    OBVIOUS
  <1>1. CASE CreateSession \/ DispatchCreate
    BY <1>1, SsCreates
  <1>2. CASE TerminateSession \/ ReapSession
    BY <1>2, SsTerminates
  <1>3. CASE TimerFires \/ ListStale \/ StreamBreaks \/ Reconnect \/ UNCHANGED sessionVars
    BY <1>3, SsQuiet
  <1>4. CASE \E t \in Tabs : OpenTab(t) \/ AttachTab(t) \/ AttachFails(t) \/ CloseTab(t)
    BY <1>4, SsTabs
  <1>5. CASE handleCreateFails \/ handleKill \/ handleDetach
    BY <1>5, SsReceives
  <1>6. CASE handleCreate
    BY <1>6, SsHandleCreate
  <1>7. CASE handleAttach
    BY <1>7, SsHandleAttach
  <1>8. CASE onIdle \/ \E real \in BOOLEAN : Output(real)
    BY <1>8, SsDetects
  <1>9. CASE removeSession \/ \E st \in {"completed", "failed"} : ProcessExits(st)
    BY <1>9, SsExits
  <1>10. CASE Escalate
    <2>1. \E st \in {"completed", "failed"} : ProcessExits(st)
      BY <1>10 DEF Escalate
    <2> QED
      BY <2>1, SsExits
  <1>11. CASE RelayExit
    BY <1>11, SsRelayExit
  <1>12. CASE ServerStep
    BY <1>12, SsServes
  <1>13. CASE BreakNoticed
    BY <1>13, SsBreaks
  <1> QED
    BY <1>1, <1>2, <1>3, <1>4, <1>5, <1>6, <1>7, <1>8, <1>9, <1>10, <1>11, <1>12, <1>13
       DEF SessionsNext, ReaperStep, TabStep, AgentStep, RelayStep, LinkStep

LEMMA SsStrong == SsInd => SessionsInv
  <1> SUFFICES ASSUME SsInd PROVE SessionsInv
    OBVIOUS
  <1> USE DEF SsInd, SsCore
  <1>1. ASSUME Settled
        PROVE  /\ ~lost /\ (\A d : ~Sent(d)) /\ ~EndOnTheWay
               /\ \A S : EndsUpIn(S) => row \in S
    <2>1. cmds = <<>> /\ events = <<>> /\ ~lost
      BY <1>1 DEF Settled
    <2>2. 1 .. Len(cmds) = {} /\ 1 .. Len(events) = {}
      BY <2>1
    <2>3. \A i : i \notin 1 .. Len(cmds) /\ i \notin 1 .. Len(events)
      BY <2>2
    <2> QED
      BY <2>1, <2>3 DEF Sent, EndOnTheWay, EndsUpIn
  <1>2. EndedHasNoProcess
    BY <1>1 DEF EndedHasNoProcess, AliveShown, Live, Terminal
  <1>3. DeadIsNotShownLive
    BY <1>1 DEF DeadIsNotShownLive, DeadShown, Gone, Ended, Terminal
  <1>4. OpenTabLearnsEnd
    BY <1>1 DEF OpenTabLearnsEnd, TabsLearn, Gone
  <1> QED
    BY <1>2, <1>3, <1>4 DEF SessionsInv

(* Once nothing is under way, row, process and open tabs of a session      *)
(* agree, for any number of tabs and any capacity of the channels          *)
(* (CreateSession, TerminateSession, HandleCommand, startSessionRelay, the *)
(* event loop of CommandStream, the reaper).                               *)
THEOREM SessionsAreSound == SessionsSpec => []SessionsInv
  BY SsInit, SsNext, SsStrong, PTL DEF SessionsSpec
=============================================================================
