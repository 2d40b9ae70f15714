--------------------------- MODULE EventBusProofs ---------------------------
(* What the bus promises to every subscriber, for any number of them and any *)
(* queue size. *)
EXTENDS EventBus, TLAPS

\* What the drop leaves in a full queue: as many places taken, the notice last.
LEMMA DropKeepsLength ==
  ASSUME NEW q \in Seq(Events \cup {Lagged}), q # <<>>
  PROVE  /\ drop_lagging(q) \in Seq(Events \cup {Lagged})
         /\ Len(drop_lagging(q)) = Len(q)
         /\ drop_lagging(q)[Len(q)] = Lagged
         /\ \A i \in 1..(Len(q) - 1) : drop_lagging(q)[i] = q[i + 1]
BY DEF drop_lagging

LEMMA BusInitInv == BusInit => BusInv
BY BusAssumption DEF BusInit, BusInv, BusTypeOK, QueueIsBounded, NoticeIsLast, NoSilentDrop,
                     ChannelIsInside

\* A publication, queue by queue: outside the channel nothing changes, inside
\* a queue with room takes the event, a full one is dropped with its notice.
LEMMA PublishKeepsInv ==
  ASSUME BusInv, NEW e \in Events, Publish(e)
  PROVE  BusInv'
<1>1. e # Lagged
  BY BusAssumption
<1>2. ASSUME NEW s \in Subscribers
      PROVE  /\ queues'[s] \in Seq(Events \cup {Lagged})
             /\ Len(queues'[s]) <= QueueSize
             /\ \A i \in 1..Len(queues'[s]) :
                  queues'[s][i] = Lagged => i = Len(queues'[s]) /\ s \notin channel'
             /\ s \in inside' \ channel' =>
                  queues'[s] # <<>> /\ queues'[s][Len(queues'[s])] = Lagged
  <2>0. /\ queues[s] \in Seq(Events \cup {Lagged}) /\ Len(queues[s]) <= QueueSize
        /\ Len(queues[s]) \in Nat /\ QueueSize \in Nat \ {0}
    BY BusAssumption DEF BusInv, BusTypeOK, QueueIsBounded
  <2>1. CASE s \notin channel
    BY <2>1, <2>0 DEF Publish, BusInv, NoticeIsLast, NoSilentDrop
  <2>2. CASE s \in channel /\ Full(s)
    <3>1. queues'[s] = drop_lagging(queues[s]) /\ s \notin channel'
      BY <2>2 DEF Publish
    <3>2. Len(queues[s]) >= 1 /\ queues[s] # <<>>
      BY <2>0, <2>2 DEF Full
    <3>3. \A i \in 1..Len(queues[s]) : queues[s][i] # Lagged
      BY <2>2 DEF BusInv, NoticeIsLast
    <3> QED
      BY <3>1, <3>2, <3>3, <2>0, DropKeepsLength
  <2>3. CASE s \in channel /\ ~Full(s)
    <3>1. queues'[s] = Append(queues[s], e) /\ s \in channel'
      BY <2>3 DEF Publish
    <3>2. \A i \in 1..Len(queues[s]) : queues[s][i] # Lagged
      BY <2>3 DEF BusInv, NoticeIsLast
    <3>3. Len(queues[s]) < QueueSize
      BY <2>0, <2>3 DEF Full
    <3> QED
      BY <3>1, <3>2, <3>3, <2>0, <1>1
  <2> QED
    BY <2>1, <2>2, <2>3
<1>3. /\ channel' \in SUBSET Subscribers /\ inside' \in SUBSET Subscribers
      /\ channel' \subseteq inside' /\ DOMAIN queues' = Subscribers
      /\ queues' = [s \in Subscribers |-> queues'[s]]
  BY DEF Publish, BusInv, BusTypeOK, ChannelIsInside
<1>4. queues' \in [Subscribers -> Seq(Events \cup {Lagged})]
  BY <1>2, <1>3
<1> QED
  BY <1>2, <1>3, <1>4 DEF BusInv, BusTypeOK, QueueIsBounded, NoticeIsLast, NoSilentDrop,
                          ChannelIsInside

\* Entering or leaving the block empties one queue and concerns nobody else.
LEMMA EnterOrLeaveKeepsInv ==
  ASSUME BusInv, NEW s \in Subscribers, Subscribe(s) \/ Leave(s)
  PROVE  BusInv'
<1>1. /\ queues' = [queues EXCEPT ![s] = <<>>]
      /\ \/ channel' = channel \cup {s} /\ inside' = inside \cup {s}
         \/ channel' = channel \ {s} /\ inside' = inside \ {s}
  BY DEF Subscribe, Leave
<1>2. <<>> \in Seq(Events \cup {Lagged}) /\ Len(<<>>) = 0 /\ 0 <= QueueSize
  BY BusAssumption
<1>3. queues' \in [Subscribers -> Seq(Events \cup {Lagged})] /\ queues'[s] = <<>>
      /\ \A t \in Subscribers \ {s} : queues'[t] = queues[t]
  BY <1>1, <1>2 DEF BusInv, BusTypeOK
<1>4. \A t \in Subscribers \ {s} :
        (t \in channel' <=> t \in channel) /\ (t \in inside' <=> t \in inside)
  BY <1>1
<1>5. s \notin inside' \ channel'
  BY <1>1
<1>6. BusTypeOK' /\ ChannelIsInside'
  BY <1>1, <1>3 DEF BusInv, BusTypeOK, ChannelIsInside
<1>7. QueueIsBounded'
  BY <1>2, <1>3 DEF BusInv, QueueIsBounded
<1>8. NoticeIsLast'
  <2> SUFFICES ASSUME NEW t \in Subscribers, NEW i \in 1..Len(queues'[t]),
                      queues'[t][i] = Lagged
               PROVE  i = Len(queues'[t]) /\ t \notin channel'
    BY DEF NoticeIsLast
  <2>1. t # s
    BY <1>2, <1>3
  <2> QED
    BY <2>1, <1>3, <1>4 DEF BusInv, NoticeIsLast
<1>9. NoSilentDrop'
  BY <1>1, <1>3, <1>4, <1>5, <1>6 DEF BusInv, BusTypeOK, NoSilentDrop
<1> QED
  BY <1>6, <1>7, <1>8, <1>9 DEF BusInv

\* Taking an event shortens the queue from the front; taking the notice leaves.
LEMMA TakeKeepsInv ==
  ASSUME BusInv, NEW s \in Subscribers, Take(s)
  PROVE  BusInv'
<1>0. /\ queues \in [Subscribers -> Seq(Events \cup {Lagged})]
      /\ queues[s] # <<>> /\ Len(queues[s]) \in Nat
  BY DEF Take, BusInv, BusTypeOK
<1>1. CASE Head(queues[s]) = Lagged
  BY <1>1, EnterOrLeaveKeepsInv DEF Take
<1>2. CASE Head(queues[s]) # Lagged
  <2>1. /\ queues' = [queues EXCEPT ![s] = Tail(queues[s])]
        /\ UNCHANGED <<channel, inside>>
    BY <1>2 DEF Take
  <2>2. /\ Tail(queues[s]) \in Seq(Events \cup {Lagged})
        /\ Len(Tail(queues[s])) = Len(queues[s]) - 1
        /\ \A i \in 1..(Len(queues[s]) - 1) : Tail(queues[s])[i] = queues[s][i + 1]
    BY <1>0
  <2>3. /\ queues' \in [Subscribers -> Seq(Events \cup {Lagged})]
        /\ queues'[s] = Tail(queues[s])
        /\ \A t \in Subscribers \ {s} : queues'[t] = queues[t]
    BY <2>1, <2>2, <1>0
  <2>4. BusTypeOK' /\ ChannelIsInside'
    BY <2>1, <2>3 DEF BusInv, BusTypeOK, ChannelIsInside
  <2>5. QueueIsBounded'
    BY <2>2, <2>3, <1>0, BusAssumption DEF BusInv, QueueIsBounded
  <2>6. NoticeIsLast'
    <3> SUFFICES ASSUME NEW t \in Subscribers, NEW i \in 1..Len(queues'[t]),
                        queues'[t][i] = Lagged
                 PROVE  i = Len(queues'[t]) /\ t \notin channel'
      BY DEF NoticeIsLast
    <3>1. CASE t # s
      BY <3>1, <2>1, <2>3 DEF BusInv, NoticeIsLast
    <3>2. CASE t = s
      <4>1. /\ i + 1 \in 1..Len(queues[s]) /\ queues[s][i + 1] = Lagged
            /\ Len(queues'[s]) = Len(queues[s]) - 1
        BY <3>2, <2>2, <2>3, <1>0
      <4>2. i + 1 = Len(queues[s]) /\ s \notin channel
        BY <4>1 DEF BusInv, NoticeIsLast
      <4> QED
        BY <4>1, <4>2, <3>2, <2>1, <1>0
    <3> QED
      BY <3>1, <3>2
  <2>7. NoSilentDrop'
    <3> SUFFICES ASSUME NEW t \in inside' \ channel'
                 PROVE  queues'[t] # <<>> /\ queues'[t][Len(queues'[t])] = Lagged
      BY DEF NoSilentDrop
    <3>0. /\ t \in inside \ channel /\ t \in Subscribers
          /\ queues[t] # <<>> /\ queues[t][Len(queues[t])] = Lagged
      BY <2>1 DEF BusInv, BusTypeOK, NoSilentDrop
    <3>1. CASE t # s
      BY <3>0, <3>1, <2>3
    <3>2. CASE t = s
      \* The head is not the notice and the last event is: there are two.
      <4>0. queues[s] \in Seq(Events \cup {Lagged}) /\ Len(queues[s]) >= 1
        BY <1>0, <3>0, <3>2
      <4>1. Len(queues[s]) # 1
        BY <4>0, <3>0, <3>2, <1>2
      <4>2. \A n \in Nat : n >= 1 /\ n # 1 =>
              n - 1 \in 1..(n - 1) /\ n - 1 # 0 /\ (n - 1) + 1 = n
        OBVIOUS
      <4> DEFINE n == Len(queues[s])
      <4>3. n \in Nat /\ n >= 1 /\ n # 1
        BY <4>0, <4>1, <1>0
      <4>4. n - 1 \in 1..(n - 1) /\ n - 1 # 0 /\ (n - 1) + 1 = n
        BY <4>2, <4>3
      <4>5. Tail(queues[s])[n - 1] = queues[s][n]
        BY <4>4, <2>2
      <4> QED
        BY <4>4, <4>5, <3>0, <3>2, <2>2, <2>3
    <3> QED
      BY <3>1, <3>2
  <2> QED
    BY <2>4, <2>5, <2>6, <2>7 DEF BusInv
<1> QED
  BY <1>1, <1>2

\* Every step of the bus keeps its word.
LEMMA BusStepKeepsInv ==
  ASSUME BusInv, [BusNext]_busVars PROVE BusInv'
<1>1. CASE \E e \in Events : Publish(e)
  BY <1>1, PublishKeepsInv
<1>2. CASE \E s \in Subscribers : Subscribe(s) \/ Leave(s)
  BY <1>2, EnterOrLeaveKeepsInv
<1>3. CASE \E s \in Subscribers : Take(s)
  BY <1>3, TakeKeepsInv
<1>4. CASE LoseBus
  BY <1>4, BusAssumption DEF LoseBus, BusInv, BusTypeOK, QueueIsBounded, NoticeIsLast,
                             NoSilentDrop, ChannelIsInside
<1>5. CASE UNCHANGED busVars
  BY <1>5 DEF busVars, BusInv, BusTypeOK, QueueIsBounded, NoticeIsLast, NoSilentDrop,
              ChannelIsInside
<1> QED
  BY <1>1, <1>2, <1>3, <1>4, <1>5 DEF BusNext

\* The bus keeps its word in every state: bounded queues, the notice once and
\* last, nobody dropped without it, no queue left for a browser that is gone.
THEOREM BusKeepsItsWord == BusSpec => []BusInv
BY BusInitInv, BusStepKeepsInv, PTL DEF BusSpec

\* The notice is the last thing a dropped subscriber reads, and comes once.
THEOREM BusNoticeIsLast == BusSpec => []NoticeIsLast
<1>1. BusInv => NoticeIsLast
  BY DEF BusInv
<1> QED
  BY <1>1, BusKeepsItsWord, PTL

\* Whom publications no longer reach has the notice still to read.
THEOREM BusNoSilentDrop == BusSpec => []NoSilentDrop
<1>1. BusInv => NoSilentDrop
  BY DEF BusInv
<1> QED
  BY <1>1, BusKeepsItsWord, PTL
=============================================================================
