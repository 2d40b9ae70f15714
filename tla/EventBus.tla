------------------------------ MODULE EventBus ------------------------------
(***************************************************************************)
(* The in-memory bus of one project: the runner publishes without waiting, *)
(* each subscriber has a bounded queue, and a subscriber whose queue is    *)
(* full is dropped with a notice as the last thing it will read.           *)
(***************************************************************************)
EXTENDS Naturals, Sequences

CONSTANTS
  Subscribers,  \* the streams open on the project
  Events,       \* what the run publishes
  Lagged,       \* LAGGED, recognised by its identity
  QueueSize     \* SUBSCRIBER_QUEUE_SIZE

ASSUME BusAssumption ==
  /\ Lagged \notin Events
  /\ QueueSize \in Nat \ {0}

VARIABLES
  channel,  \* _channels[project_id]: the queues a publication reaches
  inside,   \* the subscribers inside their `subscribe` block
  queues    \* per subscriber, its queue

busVars == <<channel, inside, queues>>

BusTypeOK ==
  /\ channel \in SUBSET Subscribers
  /\ inside \in SUBSET Subscribers
  /\ queues \in [Subscribers -> Seq(Events \cup {Lagged})]

BusInit ==
  /\ channel = {} /\ inside = {}
  /\ queues = [s \in Subscribers |-> <<>>]

Full(s) == Len(queues[s]) >= QueueSize

\* The notice finds no room and is forgotten.
drop_laggingMutant(q) == q

\* _drop_lagging: out of the channel, the oldest out of the queue, the notice in.
drop_lagging(q) == Append(Tail(q), Lagged)

\* The subscriber is left in the channel.
PublishMutant(e) ==
  /\ queues' = [s \in Subscribers |->
        IF s \notin channel THEN queues[s]
        ELSE IF Full(s) THEN drop_lagging(queues[s]) ELSE Append(queues[s], e)]
  /\ UNCHANGED <<channel, inside>>

\* publish: one turn of the loop for every subscriber of the channel.
Publish(e) ==
  /\ queues' = [s \in Subscribers |->
        IF s \notin channel THEN queues[s]
        ELSE IF Full(s) THEN drop_lagging(queues[s]) ELSE Append(queues[s], e)]
  /\ channel' = {s \in channel : ~Full(s)}
  /\ UNCHANGED inside

Subscribe(s) ==
  /\ s \notin inside
  /\ inside' = inside \cup {s} /\ channel' = channel \cup {s}
  /\ queues' = [queues EXCEPT ![s] = <<>>]

\* The end of the block, whatever ends it.
Leave(s) ==
  /\ inside' = inside \ {s} /\ channel' = channel \ {s}
  /\ queues' = [queues EXCEPT ![s] = <<>>]

\* _iterate: the next event, the notice being the last and ending the block.
Take(s) ==
  /\ s \in inside /\ queues[s] # <<>>
  /\ IF Head(queues[s]) = Lagged
     THEN Leave(s)
     ELSE /\ queues' = [queues EXCEPT ![s] = Tail(@)]
          /\ UNCHANGED <<channel, inside>>

\* The dictionary lives in the process and ends with it.
LoseBus ==
  /\ channel' = {} /\ inside' = {}
  /\ queues' = [s \in Subscribers |-> <<>>]

BusNext ==
  \/ \E e \in Events : Publish(e)
  \/ \E s \in Subscribers : Subscribe(s) \/ Leave(s) \/ Take(s)
  \/ LoseBus

BusSpec == BusInit /\ [][BusNext]_busVars

-----------------------------------------------------------------------------
(* Properties. *)

\* A browser that is slow costs a bounded memory: no queue exceeds its size,
\* the notice included.
QueueIsBounded == \A s \in Subscribers : Len(queues[s]) <= QueueSize

\* The notice comes once and last: nothing is delivered after it, and no
\* later publication can drop the subscriber a second time.
NoticeIsLast ==
  \A s \in Subscribers : \A i \in 1..Len(queues[s]) :
    queues[s][i] = Lagged => i = Len(queues[s]) /\ s \notin channel

\* No subscriber is dropped in silence: one that publications no longer
\* reach has the notice still to read, the one thing that makes it reconnect.
NoSilentDrop ==
  \A s \in inside \ channel : queues[s] # <<>> /\ queues[s][Len(queues[s])] = Lagged

\* No queue is left behind for a browser that went away.
ChannelIsInside == channel \subseteq inside

\* What every step keeps.
BusInv == BusTypeOK /\ QueueIsBounded /\ NoticeIsLast /\ NoSilentDrop /\ ChannelIsInside
=============================================================================
