---------------------------- MODULE DeviceProofs ----------------------------
(***************************************************************************)
(* Proofs about Device, for any sizes, priorities and buffer and any       *)
(* number of data: types, one COMPLETE per datum, the priority it is sent  *)
(* with, what may be evicted and the room that makes.                      *)
(***************************************************************************)
EXTENDS Device, SequenceTheorems, FiniteSetTheorems, WellFoundedInduction, TLAPS

\* A queue has x; and has it once at most.
Has(q, x) == \E i \in DOMAIN q : q[i] = x
Single(q, x) == \A i, j \in DOMAIN q : q[i] = x /\ q[j] = x => i = j

PriMsg(d, p) == [type |-> "PRI", data |-> d, pri |-> p]
PermitMsg(d) == [type |-> "PERMIT", data |-> d]

\* A state is entered when the message it takes is there.
HeadInv ==
  /\ pc = "State6" => DeviceDataqueue # <<>>
  /\ pc = "State7" => broker_recvqueue # <<>> /\ Head(broker_recvqueue) \in Pri
  /\ pc = "State8" => broker_recvqueue # <<>> /\ Head(broker_recvqueue) \in Permit
  /\ pc = "State9" => server_recvqueue # <<>>
  /\ pc = "State10" => broker_recvqueue # <<>> /\ Head(broker_recvqueue) \in Update

\* Where the one report that is owed for a datum may be: each of these excludes the
\* later ones.
OnceInv ==
  \A d \in ID :
    /\ Single(announced, d) /\ Single(broker_recvqueue, PermitMsg(d))
    /\ Single(server_recvqueue, d)
    /\ Has(announced, d) =>
         d \notin ranked /\ ~Has(broker_recvqueue, PermitMsg(d)) /\ d \notin inTransit
           /\ ~Has(server_recvqueue, d) /\ completes[d] = 0
    /\ d \in ranked =>
         ~Has(broker_recvqueue, PermitMsg(d)) /\ d \notin inTransit
           /\ ~Has(server_recvqueue, d) /\ completes[d] = 0
    /\ Has(broker_recvqueue, PermitMsg(d)) =>
         d \notin inTransit /\ ~Has(server_recvqueue, d) /\ completes[d] = 0
    /\ d \in inTransit => ~Has(server_recvqueue, d) /\ completes[d] = 0
    /\ Has(server_recvqueue, d) => completes[d] = 0
    /\ completes[d] <= 1

\* Nothing is known of a datum before State 6 gives it its ID.
FreshInv ==
  \A d \in ID : d >= DataID =>
    /\ ~Has(announced, d) /\ d \notin ranked /\ ~Has(broker_recvqueue, PermitMsg(d))
    /\ d \notin inTransit /\ ~Has(server_recvqueue, d) /\ completes[d] = 0
    /\ given[d] = 0

\* What is known of a datum's priority is what the broker gave it, once and for all;
\* and what has one in the buffer can be evicted.
RankInv ==
  /\ \A d \in ID, p \in Priorities : Has(broker_recvqueue, PriMsg(d, p)) =>
       d < DataID /\ ~Has(announced, d) /\ p = given[d]
  /\ \A x \in bufferRemoveQueue :
       x.data < DataID /\ ~Has(announced, x.data) /\ x.pri = given[x.data]
  /\ \A d \in DOMAIN Buffer : Buffer[d].pri # 0 =>
       Buffer[d].pri = given[d] /\ [data |-> d, pri |-> Buffer[d].pri] \in bufferRemoveQueue

\* A buffered datum has the priority it was given; or its PRI was lost, or is on the
\* way, before the PERMIT.
Known(d) == d \in lost \/ Buffer[d].pri = given[d]
HasPri(q, d) == \E p \in Priorities : Has(q, PriMsg(d, p))
PriBefore(q, d, i) ==
  \E j \in DOMAIN q, p \in Priorities : j < i /\ q[j] = PriMsg(d, p)
Pending(q, d) ==
  /\ Known(d) \/ HasPri(q, d)
  /\ \A i \in DOMAIN q : q[i] = PermitMsg(d) => Known(d) \/ PriBefore(q, d, i)
PendingInv == \A d \in DOMAIN Buffer : Pending(broker_recvqueue, d)

\* There is an ID for each datum the user has sent.
Bounded == Len(DeviceDataqueue) + DataID <= events + 1

\* TypeOK in three parts: the device, the queues and what is outside, and the history.
Msg == Pri \cup Permit \cup Update
Item == [size : Sizes, pri : Priorities \cup {0}]
Entry == [data : ID, pri : Priorities]
BufferTypes ==
  /\ pc \in {"State5", "server", "broker", "again", "State6", "State7", "State8",
             "State9", "State10", "State11"}
  /\ DeviceDataqueue \in Seq(Sizes) /\ DataID \in 1..(MaxEvents + 1)
  /\ DOMAIN Buffer \subseteq 1..(DataID - 1) /\ Buffer \in [DOMAIN Buffer -> Item]
  /\ bufferRemoveQueue \subseteq Entry
QueueTypes ==
  /\ broker_recvqueue \in Seq(Msg) /\ server_recvqueue \in Seq(ID)
  /\ announced \in Seq(ID) /\ ranked \subseteq ID /\ inTransit \subseteq ID
HistoryTypes ==
  /\ events \in 0..MaxEvents /\ given \in [ID -> Priorities \cup {0}]
  /\ asked \subseteq ID /\ completes \in [ID -> Nat] /\ lost \subseteq ID

\* The types, with what they rest on.
Types == BufferTypes /\ QueueTypes /\ HistoryTypes /\ Bounded /\ HeadInv

\* The inductive invariant.
DInv == Types /\ OnceInv /\ FreshInv /\ RankInv /\ PendingInv

-----------------------------------------------------------------------------
(* Queues.                                                                 *)

\* What is in a queue with an element more.
LEMMA HasAppend ==
  ASSUME NEW S, NEW q \in Seq(S), NEW x \in S
  PROVE  /\ Append(q, x) \in Seq(S) /\ Append(q, x) # <<>>
         /\ q # <<>> => Head(Append(q, x)) = Head(q)
         /\ \A y : Has(Append(q, x), y) <=> Has(q, y) \/ y = x
         /\ \A y : Single(q, y) /\ (y = x => ~Has(q, y)) => Single(Append(q, x), y)
<1>1. /\ Append(q, x) \in Seq(S) /\ Len(Append(q, x)) = Len(q) + 1
      /\ \A i \in 1..Len(q) : Append(q, x)[i] = q[i]
      /\ Append(q, x)[Len(q) + 1] = x
  BY AppendProperties
<1>2. /\ DOMAIN Append(q, x) = 1..(Len(q) + 1) /\ DOMAIN q = 1..Len(q)
      /\ Len(q) \in Nat
  BY <1>1, LenProperties
<1>3. Append(q, x) # <<>> /\ (q # <<>> => Head(Append(q, x)) = Head(q))
  BY <1>1, <1>2, EmptySeq, HeadTailProperties
<1>4. \A y : Has(Append(q, x), y) <=> Has(q, y) \/ y = x BY <1>1, <1>2 DEF Has
<1>5. \A y : Single(q, y) /\ (y = x => ~Has(q, y)) => Single(Append(q, x), y)
  BY <1>1, <1>2 DEF Has, Single
<1> QED BY <1>1, <1>3, <1>4, <1>5

\* What is in a queue with its head taken.
LEMMA HasTail ==
  ASSUME NEW S, NEW q \in Seq(S), q # <<>>
  PROVE  /\ Tail(q) \in Seq(S) /\ Head(q) \in S /\ Has(q, Head(q))
         /\ Len(Tail(q)) = Len(q) - 1 /\ Len(q) \in Nat
         /\ \A i \in DOMAIN Tail(q) : i + 1 \in DOMAIN q /\ Tail(q)[i] = q[i + 1] /\ i \in Nat
         /\ \A y : Has(Tail(q), y) => Has(q, y)
         /\ \A y : Has(q, y) => y = Head(q) \/ Has(Tail(q), y)
         /\ \A y : Single(q, y) => Single(Tail(q), y) /\ (y = Head(q) => ~Has(Tail(q), y))
<1>1. /\ Tail(q) \in Seq(S) /\ Len(Tail(q)) = Len(q) - 1 /\ Head(q) \in S
      /\ \A i \in 1..Len(Tail(q)) : Tail(q)[i] = q[i + 1]
      /\ Head(q) = q[1]
  BY HeadTailProperties
<1>2. /\ DOMAIN Tail(q) = 1..(Len(q) - 1) /\ DOMAIN q = 1..Len(q)
      /\ Len(q) \in Nat \ {0}
  BY <1>1, LenProperties, EmptySeq
<1>3. Has(q, Head(q)) BY <1>1, <1>2 DEF Has
<1>4. \A i \in DOMAIN Tail(q) : i + 1 \in DOMAIN q /\ Tail(q)[i] = q[i + 1] /\ i \in Nat
  BY <1>1, <1>2
<1>5. \A y : Has(Tail(q), y) => Has(q, y) BY <1>4 DEF Has
<1>6. \A y : Has(q, y) => y = Head(q) \/ Has(Tail(q), y)
  <2> SUFFICES ASSUME NEW i \in DOMAIN q, i # 1 PROVE Has(Tail(q), q[i])
    BY <1>1 DEF Has
  <2>1. i - 1 \in DOMAIN Tail(q) /\ Tail(q)[i - 1] = q[i] BY <1>1, <1>2
  <2> QED BY <2>1 DEF Has
<1>7. \A y : Single(q, y) => Single(Tail(q), y) /\ (y = Head(q) => ~Has(Tail(q), y))
  <2> SUFFICES ASSUME NEW y, Single(q, y)
               PROVE  Single(Tail(q), y) /\ (y = Head(q) => ~Has(Tail(q), y))
    OBVIOUS
  <2>1. Single(Tail(q), y) BY <1>2, <1>4 DEF Single
  <2>2. ASSUME y = Head(q), Has(Tail(q), y) PROVE FALSE
    <3>1. PICK i \in DOMAIN Tail(q) : Tail(q)[i] = y BY <2>2 DEF Has
    <3>2. i + 1 \in DOMAIN q /\ q[i + 1] = y /\ 1 \in DOMAIN q /\ q[1] = y /\ i + 1 # 1
      BY <1>1, <1>2, <1>4, <2>2, <3>1
    <3> QED BY <3>2 DEF Single
  <2> QED BY <2>1, <2>2
<1> QED BY <1>1, <1>2, <1>3, <1>4, <1>5, <1>6, <1>7

\* The messages and the data they are about.
LEMMA Messages ==
  /\ \A d \in ID : PermitMsg(d) \in Permit /\ PermitMsg(d) \in Msg
  /\ \A d \in ID, p \in Priorities : PriMsg(d, p) \in Pri /\ PriMsg(d, p) \in Msg
  /\ \A m \in Pri : /\ m.data \in ID /\ m.pri \in Priorities
                    /\ m = PriMsg(m.data, m.pri) /\ \A e : m # PermitMsg(e)
  /\ \A m \in Permit : /\ m.data \in ID /\ m = PermitMsg(m.data)
                       /\ \A e, p : m # PriMsg(e, p)
  /\ \A d, e : PermitMsg(d) = PermitMsg(e) => d = e
  /\ \A d, e, p, r : PriMsg(d, p) = PriMsg(e, r) => d = e /\ p = r
BY DEF PriMsg, PermitMsg, Pri, Permit, Msg

-----------------------------------------------------------------------------
(* Types.                                                                  *)

\* The types hold at first.
LEMMA TypesInit == Init => Types
<1> SUFFICES ASSUME Init PROVE Types
  OBVIOUS
<1> USE DeviceAssumption DEF Init
<1>1. BufferTypes
  <2>1. DOMAIN Buffer = {} /\ Buffer = [d \in {} |-> 0]
    OBVIOUS
  <2>2. Buffer \in [DOMAIN Buffer -> Item] BY <2>1
  <2> QED BY <2>1, <2>2, EmptySeq DEF BufferTypes
<1>2. QueueTypes BY EmptySeq DEF QueueTypes
<1>3. HistoryTypes BY DEF HistoryTypes
<1>4. Bounded BY DEF Bounded
<1>5. HeadInv BY DEF HeadInv
<1> QED BY <1>1, <1>2, <1>3, <1>4, <1>5 DEF Types

\* State 5 only looks; a state is entered when there is a message of its kind.
LEMMA TypesState5 ==
  ASSUME Types, State5User \/ State5Server \/ State5Broker \/ State5Again
  PROVE  /\ Types'
         /\ UNCHANGED <<buffer, queues, link, outside, events, history>>
<1> USE DEF Types, Goto, buffer, queues, outside, history
<1>1. UNCHANGED <<buffer, queues, link, outside, events, history>>
  BY DEF State5User, State5Server, State5Broker, State5Again
<1>2. ASSUME broker_recvqueue # <<>>
      PROVE  \/ /\ Head(broker_recvqueue) \in Pri
                /\ StateOf[Head(broker_recvqueue).type] = "State7"
             \/ /\ Head(broker_recvqueue) \in Permit
                /\ StateOf[Head(broker_recvqueue).type] = "State8"
             \/ /\ Head(broker_recvqueue) \in Update
                /\ StateOf[Head(broker_recvqueue).type] = "State10"
  <2>1. Head(broker_recvqueue) \in Msg BY <1>2, HasTail DEF QueueTypes
  <2> QED BY <2>1 DEF StateOf, Msg, Pri, Permit, Update
<1>3. pc' \in {"State5", "server", "broker", "again", "State6", "State7", "State8",
              "State9", "State10", "State11"}
  BY <1>2 DEF State5User, State5Server, State5Broker, State5Again
<1>4. BufferTypes' BY <1>1, <1>3 DEF BufferTypes
<1>5. (QueueTypes /\ HistoryTypes /\ Bounded)'
  BY <1>1 DEF QueueTypes, HistoryTypes, Bounded
<1>6. HeadInv'
  BY <1>1, <1>2 DEF HeadInv, State5User, State5Server, State5Broker, State5Again
<1> QED BY <1>1, <1>4, <1>5, <1>6

\* What a state takes from a queue is of the types it knows.
LEMMA TakenTypes ==
  ASSUME Types
  PROVE  /\ pc = "State6" => /\ Head(DeviceDataqueue) \in Sizes
                             /\ Tail(DeviceDataqueue) \in Seq(Sizes)
                             /\ Len(Tail(DeviceDataqueue)) = Len(DeviceDataqueue) - 1
                             /\ Len(DeviceDataqueue) \in Nat \ {0}
         /\ pc \in {"State7", "State8", "State10"} =>
              Tail(broker_recvqueue) \in Seq(Msg)
         /\ pc = "State7" => /\ Head(broker_recvqueue).data \in ID
                             /\ Head(broker_recvqueue).pri \in Priorities
         /\ pc = "State8" => Head(broker_recvqueue).data \in ID
         /\ pc = "State9" => Head(server_recvqueue) \in ID /\ Tail(server_recvqueue) \in Seq(ID)
<1> USE DEF Types, HeadInv
<1>1. pc = "State6" => /\ Head(DeviceDataqueue) \in Sizes
                       /\ Tail(DeviceDataqueue) \in Seq(Sizes)
                       /\ Len(Tail(DeviceDataqueue)) = Len(DeviceDataqueue) - 1
                       /\ Len(DeviceDataqueue) \in Nat \ {0}
  BY HasTail, EmptySeq DEF BufferTypes
<1>2. pc \in {"State7", "State8", "State10"} => Tail(broker_recvqueue) \in Seq(Msg)
  BY HasTail DEF QueueTypes
<1>3. pc = "State9" => Head(server_recvqueue) \in ID /\ Tail(server_recvqueue) \in Seq(ID)
  BY HasTail DEF QueueTypes
<1> QED BY <1>1, <1>2, <1>3 DEF Pri, Permit

\* A datum is within the numbers when State 6 takes it.
LEMMA NextIsID ==
  ASSUME Types, pc = "State6" PROVE DataID \in ID /\ DataID + 1 \in 1..(MaxEvents + 1)
<1>1. Len(DeviceDataqueue) \in Nat \ {0} BY TakenTypes
<1>2. DataID \in Nat \ {0} /\ events \in Nat /\ events <= MaxEvents
  BY DeviceAssumption DEF Types, BufferTypes, HistoryTypes
<1>3. DataID <= MaxEvents BY <1>1, <1>2, DeviceAssumption DEF Types, Bounded
<1> QED BY <1>2, <1>3, DeviceAssumption DEF ID

\* The datum of a lost or delivered message is one of the data.
LEMMA LostTypes ==
  ASSUME NEW d \in ID, lost \subseteq ID, Delivered(d) \/ Lost(d, TRUE) \/ Lost(d, FALSE)
  PROVE  lost' \subseteq ID /\ lost \subseteq lost'
BY DEF Delivered, Lost

\* State 6 keeps the types.
LEMMA TypesState6 == ASSUME Types, State6 PROVE Types'
<1> USE DEF State6, Types, Goto, NextID
<1>1. DataID \in ID /\ DataID + 1 \in 1..(MaxEvents + 1) BY NextIsID
<1>2. /\ Head(DeviceDataqueue) \in Sizes /\ Tail(DeviceDataqueue) \in Seq(Sizes)
      /\ Len(Tail(DeviceDataqueue)) = Len(DeviceDataqueue) - 1
      /\ Len(DeviceDataqueue) \in Nat
  BY TakenTypes
<1>3. DOMAIN Buffer' = DOMAIN Buffer \cup {DataID} /\ Buffer' \in [DOMAIN Buffer' -> Item]
  BY <1>2 DEF Item, BufferTypes
<1>4. DOMAIN Buffer' \subseteq 1..(DataID' - 1) BY <1>1, <1>3 DEF BufferTypes
<1>5. BufferTypes' BY <1>1, <1>2, <1>3, <1>4 DEF BufferTypes
<1>12. Append(announced, DataID) \in Seq(ID) BY <1>1, HasAppend DEF QueueTypes
<1>6. announced' \in Seq(ID) BY <1>12 DEF QueueTypes
<1>7. QueueTypes' BY <1>6 DEF QueueTypes, queues
<1>8. lost' \subseteq ID BY <1>1, LostTypes DEF HistoryTypes
<1>9. HistoryTypes' BY <1>8 DEF HistoryTypes
<1>10. Bounded' BY <1>1, <1>2 DEF Bounded, HistoryTypes, BufferTypes
<1>11. HeadInv' BY DEF HeadInv
<1> QED BY <1>5, <1>7, <1>9, <1>10, <1>11

\* What State 7 leaves: if the datum is buffered, it is given its priority and put
\* among what may be evicted; what is popped leaves the queue and the buffer.
Rated == WithPriority(Head(broker_recvqueue).data, Head(broker_recvqueue).pri)
Offered == PutBefore(bufferRemoveQueue, [data |-> Head(broker_recvqueue).data,
                                         pri |-> Head(broker_recvqueue).pri])
Given == removeBufferData(Rated, Offered, Excess(Rated))

\* A priority for a datum the buffer has, ...
LEMMA State7Found ==
  ASSUME State7, ~NotFound(Head(broker_recvqueue).data)
  PROVE  /\ Buffer' = [e \in DOMAIN Rated \ DataOf(Given) |-> Rated[e]]
         /\ bufferRemoveQueue' = Offered \ Given
         /\ undefined' = (Removed(Rated, Given) < Excess(Rated))
BY DEF State7, Rated, Offered, Given

\* ... for one it has not, ...
LEMMA State7Missed ==
  ASSUME State7, NotFound(Head(broker_recvqueue).data)
  PROVE  UNCHANGED <<Buffer, bufferRemoveQueue, undefined>>
BY DEF State7

\* ... and what State 7 does either way.
LEMMA State7Else ==
  ASSUME State7
  PROVE  /\ pc = "State7" /\ pc' = "State5"
         /\ broker_recvqueue' = Tail(broker_recvqueue)
         /\ UNCHANGED <<DeviceDataqueue, DataID, server_recvqueue, link, outside, events,
                       history>>
BY DEF State7, Goto

\* The buffer with the priority set.
LEMMA RatedTypes ==
  ASSUME Types, pc = "State7", ~NotFound(Head(broker_recvqueue).data)
  PROVE  /\ DOMAIN Rated = DOMAIN Buffer /\ Rated \in [DOMAIN Buffer -> Item]
         /\ \A e \in DOMAIN Buffer :
              Rated[e].pri = IF e = Head(broker_recvqueue).data
                             THEN Head(broker_recvqueue).pri ELSE Buffer[e].pri
         /\ Offered \subseteq Entry
<1> DEFINE d == Head(broker_recvqueue).data
           p == Head(broker_recvqueue).pri
<1>1. d \in ID /\ p \in Priorities BY TakenTypes
<1>2. d \in DOMAIN Buffer BY DEF NotFound
<1>3. Rated = [Buffer EXCEPT ![d].pri = p] BY DEF Rated, WithPriority
<1>4. Buffer \in [DOMAIN Buffer -> Item] BY DEF Types, BufferTypes
<1>5. [Buffer[d] EXCEPT !.pri = p] \in Item /\ [Buffer[d] EXCEPT !.pri = p].pri = p
  BY <1>1, <1>2, <1>4 DEF Item
<1> HIDE DEF d, p
<1>6. Rated = [Buffer EXCEPT ![d] = [Buffer[d] EXCEPT !.pri = p]] BY <1>3
<1>7. DOMAIN Rated = DOMAIN Buffer /\ Rated \in [DOMAIN Buffer -> Item]
  BY <1>2, <1>4, <1>5, <1>6
<1>8. \A e \in DOMAIN Buffer : Rated[e].pri = IF e = d THEN p ELSE Buffer[e].pri
  BY <1>2, <1>4, <1>5, <1>6
<1>9. [data |-> d, pri |-> p] \in Entry BY <1>1 DEF Entry
<1>10. Offered \subseteq Entry BY <1>9 DEF Offered, PutBefore, Types, BufferTypes, d, p
<1> QED BY <1>7, <1>8, <1>10 DEF d, p

\* State 7 keeps the types.
LEMMA TypesState7 == ASSUME Types, State7 PROVE Types'
<1> USE DEF Types
<1>1. /\ pc = "State7" /\ pc' = "State5"
      /\ broker_recvqueue' = Tail(broker_recvqueue)
      /\ UNCHANGED <<DeviceDataqueue, DataID, server_recvqueue, link, outside, events,
                    history>>
  BY State7Else
<1>2. ASSUME NotFound(Head(broker_recvqueue).data) PROVE BufferTypes'
  <2>1. UNCHANGED <<Buffer, bufferRemoveQueue, undefined>> BY <1>2, State7Missed
  <2> QED BY <1>1, <2>1 DEF BufferTypes
<1>3. ASSUME ~NotFound(Head(broker_recvqueue).data) PROVE BufferTypes'
  <2>1. /\ DOMAIN Rated = DOMAIN Buffer /\ Rated \in [DOMAIN Buffer -> Item]
        /\ Offered \subseteq Entry
    BY <1>1, <1>3, RatedTypes
  <2>2. /\ Buffer' = [e \in DOMAIN Rated \ DataOf(Given) |-> Rated[e]]
        /\ bufferRemoveQueue' = Offered \ Given
    BY <1>3, State7Found
  <2>3. /\ DOMAIN Buffer' \subseteq DOMAIN Buffer /\ Buffer' \in [DOMAIN Buffer' -> Item]
        /\ bufferRemoveQueue' \subseteq Entry
    BY <2>1, <2>2
  <2> QED BY <1>1, <2>3 DEF BufferTypes
<1>4. BufferTypes' BY <1>2, <1>3
<1>5. Tail(broker_recvqueue) \in Seq(Msg) BY <1>1, TakenTypes
<1>6. QueueTypes' BY <1>1, <1>5 DEF QueueTypes, outside
<1>7. HistoryTypes' BY <1>1 DEF HistoryTypes, history
<1>8. Bounded' BY <1>1 DEF Bounded
<1>9. HeadInv' BY <1>1 DEF HeadInv
<1> QED BY <1>4, <1>6, <1>7, <1>8, <1>9

\* State 8 keeps the types.
LEMMA TypesState8 == ASSUME Types, State8 PROVE Types'
<1> USE DEF State8, Types, Goto, buffer, outside
<1> DEFINE d == Head(broker_recvqueue).data
<1>1. d \in ID /\ Tail(broker_recvqueue) \in Seq(Msg) BY TakenTypes
<1>2. /\ completes' \in {completes, [completes EXCEPT ![d] = completes[d] + 1]}
      /\ UNCHANGED lost \/ Delivered(d) \/ Lost(d, FALSE)
      /\ inTransit' \in {inTransit, inTransit \cup {d}}
  BY DEF Report, Return
<1> HIDE DEF d
<1>3. asked' = asked \cup {d} BY DEF d
<1>11. completes \in [ID -> Nat] BY DEF HistoryTypes
<1>4. completes' \in [ID -> Nat] BY <1>1, <1>2, <1>11
<1>5. lost' \subseteq ID BY <1>1, <1>2, LostTypes DEF HistoryTypes
<1>6. inTransit' \subseteq ID BY <1>1, <1>2 DEF QueueTypes
<1>7. BufferTypes' BY DEF BufferTypes
<1>8. QueueTypes' BY <1>1, <1>6 DEF QueueTypes
<1>9. HistoryTypes' BY <1>1, <1>3, <1>4, <1>5 DEF HistoryTypes
<1>10. Bounded' /\ HeadInv' BY DEF Bounded, HeadInv
<1> QED BY <1>7, <1>8, <1>9, <1>10

\* State 9 keeps the types.
LEMMA TypesState9 == ASSUME Types, State9 PROVE Types'
<1> USE DEF State9, Types, Goto, outside
<1> DEFINE d == Head(server_recvqueue)
<1>1. d \in ID /\ Tail(server_recvqueue) \in Seq(ID) BY TakenTypes
<1>2. /\ completes' = [completes EXCEPT ![d] = @ + 1]
      /\ Delivered(d) \/ Lost(d, TRUE)
      /\ Buffer' = Erased(d)
  OBVIOUS
<1> HIDE DEF d
<1>3. DOMAIN Buffer' \subseteq DOMAIN Buffer /\ Buffer' \in [DOMAIN Buffer' -> Item]
  BY <1>2 DEF Erased, BufferTypes
<1>4. completes' \in [ID -> Nat] BY <1>1, <1>2 DEF HistoryTypes
<1>5. lost' \subseteq ID BY <1>1, <1>2, LostTypes DEF HistoryTypes
<1>6. BufferTypes' BY <1>3 DEF BufferTypes
<1>7. QueueTypes' BY <1>1 DEF QueueTypes
<1>8. HistoryTypes' BY <1>4, <1>5 DEF HistoryTypes
<1>9. Bounded' /\ HeadInv' BY DEF Bounded, HeadInv
<1> QED BY <1>6, <1>7, <1>8, <1>9

\* States 10 and 11 keep the types.
LEMMA TypesState10 ==
  ASSUME Types, State10 \/ State11 PROVE Types'
<1> USE DEF State10, State11, Types, Goto, buffer, queues, outside, history
<1>1. State10 => Tail(broker_recvqueue) \in Seq(Msg) BY TakenTypes
<1>2. BufferTypes' BY DEF BufferTypes
<1>3. QueueTypes' BY <1>1 DEF QueueTypes
<1>4. HistoryTypes' BY DEF HistoryTypes
<1>5. Bounded' /\ HeadInv' BY DEF Bounded, HeadInv
<1> QED BY <1>2, <1>3, <1>4, <1>5

\* What is in front of a queue stays there when something is put behind it.
LEMMA HeadStays ==
  ASSUME Types, NEW m \in Msg,
         broker_recvqueue' \in {broker_recvqueue, Append(broker_recvqueue, m)}
  PROVE  /\ broker_recvqueue' \in Seq(Msg)
         /\ broker_recvqueue # <<>> => /\ broker_recvqueue' # <<>>
                                       /\ Head(broker_recvqueue') = Head(broker_recvqueue)
BY HasAppend DEF Types, QueueTypes

\* A message of the broker keeps the types.
LEMMA FromBrokerTypes ==
  ASSUME Types, NEW m \in Msg, NEW d \in ID, FromBroker(m, d),
         UNCHANGED <<pc, DeviceDataqueue, server_recvqueue>>
  PROVE  broker_recvqueue' \in Seq(Msg) /\ lost' \subseteq ID /\ HeadInv'
<1>1. broker_recvqueue' \in {broker_recvqueue, Append(broker_recvqueue, m)} BY DEF FromBroker
<1>2. /\ broker_recvqueue' \in Seq(Msg)
      /\ broker_recvqueue # <<>> => /\ broker_recvqueue' # <<>>
                                    /\ Head(broker_recvqueue') = Head(broker_recvqueue)
  BY <1>1, HeadStays
<1>3. lost' \subseteq ID BY DEF FromBroker, Types, HistoryTypes
<1>4. HeadInv' BY <1>2 DEF Types, HeadInv
<1> QED BY <1>2, <1>3, <1>4

\* The broker and the server keep the types.
LEMMA TypesOutside ==
  ASSUME Types, BrokerPri \/ BrokerPermit \/ BrokerUpdate \/ ServerAck PROVE Types'
<1> USE DEF Types, buffer, queues, outside, history
<1>1. CASE BrokerPri
  <2> USE <1>1 DEF BrokerPri
  <2> DEFINE d == Head(announced)
  <2>1. d \in ID /\ Tail(announced) \in Seq(ID) BY HasTail DEF QueueTypes
  <2>2. PICK p \in Priorities : /\ FromBroker(PriMsg(d, p), d)
                                /\ given' = [given EXCEPT ![d] = p]
    BY DEF PriMsg
  <2>3. PriMsg(d, p) \in Msg BY <2>1, Messages
  <2> HIDE DEF d
  <2>4. broker_recvqueue' \in Seq(Msg) /\ lost' \subseteq ID /\ HeadInv'
    BY <2>1, <2>2, <2>3, FromBrokerTypes
  <2>5. QueueTypes' BY <2>1, <2>4 DEF QueueTypes, d
  <2>6. HistoryTypes' BY <2>1, <2>2, <2>4 DEF HistoryTypes
  <2>7. BufferTypes' /\ Bounded' BY DEF BufferTypes, Bounded
  <2> QED BY <2>4, <2>5, <2>6, <2>7
<1>2. CASE BrokerPermit
  <2> USE <1>2 DEF BrokerPermit
  <2>1. PICK d \in ranked : FromBroker(PermitMsg(d), d) /\ ranked' = ranked \ {d}
    BY DEF PermitMsg
  <2>2. d \in ID BY DEF QueueTypes
  <2>3. PermitMsg(d) \in Msg BY <2>2, Messages
  <2>4. broker_recvqueue' \in Seq(Msg) /\ lost' \subseteq ID /\ HeadInv'
    BY <2>1, <2>2, <2>3, FromBrokerTypes
  <2>5. QueueTypes' BY <2>1, <2>4 DEF QueueTypes
  <2>6. HistoryTypes' BY <2>4 DEF HistoryTypes
  <2>7. BufferTypes' /\ Bounded' BY DEF BufferTypes, Bounded
  <2> QED BY <2>4, <2>5, <2>6, <2>7
<1>3. CASE BrokerUpdate
  <2> USE <1>3 DEF BrokerUpdate
  <2>1. [type |-> "UPDATE"] \in Msg BY DEF Msg, Update
  <2>2. /\ broker_recvqueue' \in Seq(Msg)
        /\ broker_recvqueue # <<>> => /\ broker_recvqueue' # <<>>
                                      /\ Head(broker_recvqueue') = Head(broker_recvqueue)
    BY <2>1, HeadStays
  <2>3. QueueTypes' BY <2>2 DEF QueueTypes
  <2>4. HeadInv' BY <2>2 DEF HeadInv
  <2>5. HistoryTypes' BY DeviceAssumption DEF HistoryTypes
  <2>6. BufferTypes' BY DEF BufferTypes
  <2>7. Bounded'
    <3>1. Len(DeviceDataqueue) \in Nat BY LenProperties DEF BufferTypes
    <3> QED BY <3>1, DeviceAssumption DEF Bounded, HistoryTypes, BufferTypes
  <2> QED BY <2>3, <2>4, <2>5, <2>6, <2>7
<1>4. CASE ServerAck
  <2> USE <1>4 DEF ServerAck
  <2>1. PICK d \in inTransit : /\ server_recvqueue' = Append(server_recvqueue, d)
                               /\ inTransit' = inTransit \ {d}
    OBVIOUS
  <2>2. server_recvqueue' \in Seq(ID) /\ server_recvqueue' # <<>>
    BY <2>1, HasAppend DEF QueueTypes
  <2>3. QueueTypes' BY <2>1, <2>2 DEF QueueTypes
  <2>4. HeadInv' BY <2>2 DEF HeadInv
  <2>5. HistoryTypes' BY DEF HistoryTypes
  <2>6. BufferTypes' /\ Bounded' BY DEF BufferTypes, Bounded
  <2> QED BY <2>3, <2>4, <2>5, <2>6
<1> QED BY <1>1, <1>2, <1>3, <1>4

\* The user and the link keep the types.
LEMMA TypesUser == ASSUME Types, api_sendData \/ LinkBreaks PROVE Types'
<1> USE DeviceAssumption DEF Types, buffer, queues, outside, history
<1>1. Len(DeviceDataqueue) \in Nat BY LenProperties DEF BufferTypes
<1>2. CASE api_sendData
  <2> USE <1>2 DEF api_sendData
  <2>1. PICK s \in Sizes : DeviceDataqueue' = Append(DeviceDataqueue, s)
    OBVIOUS
  <2>2. /\ DeviceDataqueue' \in Seq(Sizes) /\ DeviceDataqueue' # <<>>
        /\ Len(DeviceDataqueue') = Len(DeviceDataqueue) + 1
    BY <2>1, HasAppend, AppendProperties DEF BufferTypes
  <2>3. BufferTypes' BY <2>2 DEF BufferTypes
  <2>4. QueueTypes' BY DEF QueueTypes
  <2>5. HistoryTypes' BY DEF HistoryTypes
  <2>6. Bounded' BY <1>1, <2>2 DEF Bounded, HistoryTypes, BufferTypes
  <2>7. HeadInv' BY <2>2 DEF HeadInv
  <2> QED BY <2>3, <2>4, <2>5, <2>6, <2>7
<1>3. CASE LinkBreaks
  <2> USE <1>3 DEF LinkBreaks
  <2>1. BufferTypes' BY DEF BufferTypes
  <2>2. QueueTypes' BY DEF QueueTypes
  <2>3. HistoryTypes' BY DEF HistoryTypes
  <2>4. Bounded' BY <1>1 DEF Bounded, HistoryTypes, BufferTypes
  <2>5. HeadInv' BY DEF HeadInv
  <2> QED BY <2>1, <2>2, <2>3, <2>4, <2>5
<1> QED BY <1>2, <1>3

\* Every step keeps the types.
LEMMA TypesNext == Types /\ [Next]_vars => Types'
<1> SUFFICES ASSUME Types, [Next]_vars PROVE Types'
  OBVIOUS
<1>1. CASE UNCHANGED vars
  <2> USE <1>1 DEF vars, Types, buffer, queues, outside, history
  <2>1. BufferTypes' /\ QueueTypes' BY DEF BufferTypes, QueueTypes
  <2>2. HistoryTypes' /\ Bounded' /\ HeadInv' BY DEF HistoryTypes, Bounded, HeadInv
  <2> QED BY <2>1, <2>2
<1> QED BY <1>1, TypesState5, TypesState6, TypesState7, TypesState8, TypesState9,
           TypesState10, TypesOutside, TypesUser
        DEF Next, Main

-----------------------------------------------------------------------------
(* One report per datum.                                                   *)

\* What OnceInv and FreshInv say of one datum.
Once(d) ==
  /\ Single(announced, d) /\ Single(broker_recvqueue, PermitMsg(d))
  /\ Single(server_recvqueue, d)
  /\ Has(announced, d) =>
       d \notin ranked /\ ~Has(broker_recvqueue, PermitMsg(d)) /\ d \notin inTransit
         /\ ~Has(server_recvqueue, d) /\ completes[d] = 0
  /\ d \in ranked =>
       ~Has(broker_recvqueue, PermitMsg(d)) /\ d \notin inTransit
         /\ ~Has(server_recvqueue, d) /\ completes[d] = 0
  /\ Has(broker_recvqueue, PermitMsg(d)) =>
       d \notin inTransit /\ ~Has(server_recvqueue, d) /\ completes[d] = 0
  /\ d \in inTransit => ~Has(server_recvqueue, d) /\ completes[d] = 0
  /\ Has(server_recvqueue, d) => completes[d] = 0
  /\ completes[d] <= 1

Fresh(d) ==
  /\ ~Has(announced, d) /\ d \notin ranked /\ ~Has(broker_recvqueue, PermitMsg(d))
  /\ d \notin inTransit /\ ~Has(server_recvqueue, d) /\ completes[d] = 0
  /\ given[d] = 0

\* A message that is no PERMIT comes or is taken: where the data are does not change.
LEMMA PermitsTail ==
  ASSUME Types, broker_recvqueue # <<>>, broker_recvqueue' = Tail(broker_recvqueue)
  PROVE  \A d \in ID :
           /\ Has(broker_recvqueue', PermitMsg(d)) => Has(broker_recvqueue, PermitMsg(d))
           /\ Single(broker_recvqueue, PermitMsg(d)) =>
                /\ Single(broker_recvqueue', PermitMsg(d))
                /\ PermitMsg(d) = Head(broker_recvqueue)
                     => ~Has(broker_recvqueue', PermitMsg(d))
BY HasTail DEF Types, QueueTypes

\* Which permissions wait after a message more is queued.
LEMMA PermitsAppend ==
  ASSUME Types, NEW m \in Msg,
         broker_recvqueue' \in {broker_recvqueue, Append(broker_recvqueue, m)}
  PROVE  \A d \in ID :
           /\ Has(broker_recvqueue', PermitMsg(d)) =>
                Has(broker_recvqueue, PermitMsg(d)) \/ m = PermitMsg(d)
           /\ Single(broker_recvqueue, PermitMsg(d))
                /\ (m = PermitMsg(d) => ~Has(broker_recvqueue, PermitMsg(d)))
                => Single(broker_recvqueue', PermitMsg(d))
BY HasAppend DEF Types, QueueTypes

\* A step that moves no datum, except that a message is taken, or one that is no PERMIT
\* is added.
LEMMA OnceStable ==
  ASSUME Types, OnceInv, FreshInv,
         UNCHANGED <<announced, ranked, inTransit, server_recvqueue, completes, given, DataID>>,
         \A d \in ID :
           /\ Has(broker_recvqueue', PermitMsg(d)) => Has(broker_recvqueue, PermitMsg(d))
           /\ Single(broker_recvqueue, PermitMsg(d)) =>
                Single(broker_recvqueue', PermitMsg(d))
  PROVE  OnceInv' /\ FreshInv'
<1>1. ASSUME NEW d \in ID PROVE Once(d)'
  <2>1. Once(d) BY DEF OnceInv, Once
  <2> QED BY <2>1 DEF Once
<1>2. ASSUME NEW d \in ID, d >= DataID PROVE Fresh(d)'
  <2>1. Fresh(d) BY <1>2 DEF FreshInv, Fresh
  <2> QED BY <2>1 DEF Fresh
<1> QED BY <1>1, <1>2 DEF OnceInv, FreshInv, Once, Fresh

\* A step moves one datum on: what it does to the others is nothing.
LEMMA OnceMoves ==
  ASSUME Types, OnceInv, FreshInv, NEW e \in ID,
         DataID' >= DataID, DataID' \in Nat, DataID \in Nat,
         e < DataID',
         \A d \in ID \ {e} :
           /\ Has(announced', d) => Has(announced, d)
           /\ Single(announced, d) => Single(announced', d)
           /\ Has(broker_recvqueue', PermitMsg(d)) => Has(broker_recvqueue, PermitMsg(d))
           /\ Single(broker_recvqueue, PermitMsg(d)) => Single(broker_recvqueue', PermitMsg(d))
           /\ Has(server_recvqueue', d) => Has(server_recvqueue, d)
           /\ Single(server_recvqueue, d) => Single(server_recvqueue', d)
           /\ d \in ranked' => d \in ranked
           /\ d \in inTransit' => d \in inTransit
           /\ completes'[d] = completes[d] /\ given'[d] = given[d],
         Once(e)'
  PROVE  OnceInv' /\ FreshInv'
<1>1. ASSUME NEW d \in ID, d # e PROVE Once(d)'
  <2>1. Once(d) BY DEF OnceInv, Once
  <2> QED BY <1>1, <2>1 DEF Once
<1>2. ASSUME NEW d \in ID, d >= DataID' PROVE Fresh(d)'
  <2>1. d >= DataID /\ d # e BY <1>2 DEF ID
  <2>2. Fresh(d) BY <2>1 DEF FreshInv, Fresh
  <2> QED BY <2>1, <2>2 DEF Fresh
<1> QED BY <1>1, <1>2 DEF OnceInv, FreshInv, Once, Fresh

\* State 6 announces a datum nothing was known of.
LEMMA OnceState6 ==
  ASSUME Types, OnceInv, FreshInv, State6 PROVE OnceInv' /\ FreshInv'
<1>0. PICK e : e = DataID
  OBVIOUS
<1>1. e \in ID /\ DataID' = DataID + 1 /\ DataID \in Nat
  BY <1>0, NextIsID DEF State6, NextID, Types, BufferTypes
<1>2. Fresh(e) /\ Once(e) BY <1>0, <1>1 DEF FreshInv, Fresh, OnceInv, Once
<1>3. /\ announced' = Append(announced, e) \/ announced' = announced
      /\ UNCHANGED <<broker_recvqueue, server_recvqueue, ranked, inTransit, completes, given>>
  BY <1>0 DEF State6, queues
<1>4. /\ \A d \in ID : Has(announced', d) => Has(announced, d) \/ d = e
      /\ \A d \in ID : Single(announced, d) /\ (d = e => ~Has(announced, d))
                         => Single(announced', d)
  <2>1. CASE announced' = announced BY <2>1
  <2>2. CASE announced' = Append(announced, e)
    BY <1>1, <2>2, HasAppend DEF Types, QueueTypes
  <2> QED BY <1>3, <2>1, <2>2
<1>5. Single(announced', e) BY <1>1, <1>2, <1>4 DEF Once, Fresh
<1>6. Once(e)' BY <1>2, <1>3, <1>5 DEF Once, Fresh
<1>7. e < DataID' /\ DataID' >= DataID /\ DataID' \in Nat BY <1>0, <1>1
<1> QED BY <1>1, <1>3, <1>4, <1>6, <1>7, OnceMoves

\* State 8 takes the one PERMIT: the datum is reported, or it is on its way.
LEMMA OnceState8 ==
  ASSUME Types, OnceInv, FreshInv, State8 PROVE OnceInv' /\ FreshInv'
<1>0. PICK e : e = Head(broker_recvqueue).data
  OBVIOUS
<1>1. e \in ID /\ broker_recvqueue # <<>> /\ Head(broker_recvqueue) = PermitMsg(e)
  BY <1>0, TakenTypes, Messages DEF State8, Types, HeadInv
<1>2. Has(broker_recvqueue, PermitMsg(e)) BY <1>1, HasTail DEF Types, QueueTypes
<1>3. Once(e) /\ e < DataID
  BY <1>1, <1>2 DEF OnceInv, Once, FreshInv, Types, BufferTypes, ID
<1>4. /\ \/ inTransit' = inTransit /\ completes' = [completes EXCEPT ![e] = completes[e] + 1]
         \/ inTransit' = inTransit \cup {e} /\ completes' = completes
      /\ broker_recvqueue' = Tail(broker_recvqueue)
      /\ UNCHANGED <<announced, ranked, server_recvqueue, given, DataID>>
  BY <1>0 DEF State8, Report, Return, buffer
<1>5. \A d \in ID :
        /\ Has(broker_recvqueue', PermitMsg(d)) => Has(broker_recvqueue, PermitMsg(d))
        /\ Single(broker_recvqueue, PermitMsg(d)) =>
             /\ Single(broker_recvqueue', PermitMsg(d))
             /\ PermitMsg(d) = Head(broker_recvqueue) => ~Has(broker_recvqueue', PermitMsg(d))
  BY <1>1, <1>4, PermitsTail
<1>6. ~Has(broker_recvqueue', PermitMsg(e)) /\ Single(broker_recvqueue', PermitMsg(e))
  BY <1>1, <1>3, <1>5 DEF Once
<1>7. completes \in [ID -> Nat] /\ DataID \in Nat
  BY DEF Types, HistoryTypes, BufferTypes
<1>8. Once(e)' BY <1>1, <1>2, <1>3, <1>4, <1>6, <1>7 DEF Once
<1>9. \A d \in ID \ {e} : completes'[d] = completes[d] /\ (d \in inTransit' => d \in inTransit)
  BY <1>4, <1>7
<1> QED BY <1>1, <1>3, <1>4, <1>5, <1>7, <1>8, <1>9, OnceMoves

\* State 9 takes the one acknowledgement and reports.
LEMMA OnceState9 ==
  ASSUME Types, OnceInv, FreshInv, State9 PROVE OnceInv' /\ FreshInv'
<1>0. PICK e : e = Head(server_recvqueue)
  OBVIOUS
<1>1. /\ e \in ID /\ Has(server_recvqueue, e)
      /\ \A d \in ID : /\ Has(Tail(server_recvqueue), d) => Has(server_recvqueue, d)
                       /\ Single(server_recvqueue, d) =>
                            /\ Single(Tail(server_recvqueue), d)
                            /\ d = e => ~Has(Tail(server_recvqueue), d)
  BY <1>0, TakenTypes, HasTail DEF State9, Types, HeadInv, QueueTypes
<1>2. /\ server_recvqueue' = Tail(server_recvqueue)
      /\ completes' = [completes EXCEPT ![e] = completes[e] + 1]
      /\ UNCHANGED <<announced, ranked, inTransit, broker_recvqueue, given, DataID>>
  BY <1>0 DEF State9, outside
<1>3. Once(e) /\ e < DataID
  BY <1>1 DEF OnceInv, Once, FreshInv, Types, BufferTypes, ID
<1>4. completes \in [ID -> Nat] /\ DataID \in Nat
  BY DEF Types, HistoryTypes, BufferTypes
<1>9. ~Has(Tail(server_recvqueue), e) /\ Single(Tail(server_recvqueue), e)
  BY <1>1, <1>3 DEF Once
<1>7. ~Has(server_recvqueue', e) /\ Single(server_recvqueue', e) BY <1>2, <1>9
<1>10. \A d \in ID : /\ Has(server_recvqueue', d) => Has(server_recvqueue, d)
                     /\ Single(server_recvqueue, d) => Single(server_recvqueue', d)
  BY <1>1, <1>2
<1>8. completes[e] = 0 /\ completes'[e] = 1 BY <1>1, <1>2, <1>3, <1>4 DEF Once
<1>5. Once(e)' BY <1>1, <1>2, <1>3, <1>7, <1>8 DEF Once
<1>6. \A d \in ID \ {e} : completes'[d] = completes[d] BY <1>2, <1>4
<1> QED BY <1>1, <1>2, <1>3, <1>4, <1>5, <1>6, <1>10, OnceMoves

\* The broker answers the one META.
LEMMA OnceBrokerPri ==
  ASSUME Types, OnceInv, FreshInv, BrokerPri PROVE OnceInv' /\ FreshInv'
<1>0. PICK e : e = Head(announced)
  OBVIOUS
<1>1. /\ e \in ID /\ Has(announced, e)
      /\ \A d \in ID : /\ Has(Tail(announced), d) => Has(announced, d)
                       /\ Single(announced, d) =>
                            /\ Single(Tail(announced), d)
                            /\ d = e => ~Has(Tail(announced), d)
  BY <1>0, HasTail DEF BrokerPri, Types, QueueTypes
<1>2. PICK p \in Priorities : FromBroker(PriMsg(e, p), e) /\ given' = [given EXCEPT ![e] = p]
  BY <1>0 DEF BrokerPri, PriMsg
<1>3. /\ announced' = Tail(announced) /\ ranked' = ranked \cup {e}
      /\ UNCHANGED <<inTransit, server_recvqueue, completes, DataID>>
  BY <1>0 DEF BrokerPri, buffer
<1>4. PriMsg(e, p) \in Msg /\ \A d : PriMsg(e, p) # PermitMsg(d) BY <1>1, Messages
<1>5. broker_recvqueue' \in {broker_recvqueue, Append(broker_recvqueue, PriMsg(e, p))}
  BY <1>2 DEF FromBroker
<1>6. \A d \in ID :
        /\ Has(broker_recvqueue', PermitMsg(d)) => Has(broker_recvqueue, PermitMsg(d))
        /\ Single(broker_recvqueue, PermitMsg(d)) => Single(broker_recvqueue', PermitMsg(d))
  BY <1>4, <1>5, PermitsAppend
<1>7. Once(e) /\ e < DataID
  BY <1>1 DEF OnceInv, Once, FreshInv, Types, BufferTypes, ID
<1>8. DataID \in Nat /\ given \in [ID -> Priorities \cup {0}]
  BY DEF Types, BufferTypes, HistoryTypes
<1>13. ~Has(Tail(announced), e) /\ Single(Tail(announced), e)
  BY <1>1, <1>7 DEF Once
<1>11. ~Has(announced', e) /\ Single(announced', e) BY <1>3, <1>13
<1>14. \A d \in ID : /\ Has(announced', d) => Has(announced, d)
                     /\ Single(announced, d) => Single(announced', d)
  BY <1>1, <1>3
<1>12. /\ ~Has(broker_recvqueue', PermitMsg(e)) /\ Single(broker_recvqueue', PermitMsg(e))
       /\ e \notin inTransit /\ ~Has(server_recvqueue, e) /\ completes[e] = 0
       /\ Single(server_recvqueue, e)
  BY <1>1, <1>6, <1>7 DEF Once
<1>9. Once(e)' BY <1>3, <1>11, <1>12 DEF Once
<1>10. \A d \in ID \ {e} : given'[d] = given[d] BY <1>2, <1>8
<1>15. \A d \in ID \ {e} : d \in ranked' => d \in ranked BY <1>3
<1> QED BY <1>1, <1>3, <1>6, <1>7, <1>8, <1>9, <1>10, <1>14, <1>15, OnceMoves

\* The broker permits a datum and forgets it.
LEMMA OnceBrokerPermit ==
  ASSUME Types, OnceInv, FreshInv, BrokerPermit PROVE OnceInv' /\ FreshInv'
<1>1. PICK e \in ranked : FromBroker(PermitMsg(e), e) /\ ranked' = ranked \ {e}
  BY DEF BrokerPermit, PermitMsg
<1>2. e \in ID BY DEF Types, QueueTypes
<1>3. UNCHANGED <<announced, inTransit, server_recvqueue, completes, given, DataID>>
  BY DEF BrokerPermit, buffer
<1>4. Once(e) /\ e < DataID
  BY <1>2 DEF OnceInv, Once, FreshInv, Types, BufferTypes, ID
<1>5. PermitMsg(e) \in Msg /\ \A d : PermitMsg(e) = PermitMsg(d) => e = d
  BY <1>2, Messages
<1>6. broker_recvqueue' \in {broker_recvqueue, Append(broker_recvqueue, PermitMsg(e))}
  BY <1>1 DEF FromBroker
<1>7. \A d \in ID :
        /\ Has(broker_recvqueue', PermitMsg(d)) =>
             Has(broker_recvqueue, PermitMsg(d)) \/ d = e
        /\ Single(broker_recvqueue, PermitMsg(d))
             /\ (d = e => ~Has(broker_recvqueue, PermitMsg(d)))
             => Single(broker_recvqueue', PermitMsg(d))
  BY <1>5, <1>6, PermitsAppend
<1>8. Once(e)' BY <1>1, <1>2, <1>3, <1>4, <1>7 DEF Once
<1>9. DataID \in Nat BY DEF Types, BufferTypes
<1> QED BY <1>1, <1>2, <1>3, <1>4, <1>7, <1>8, <1>9, OnceMoves

\* The server acknowledges a datum and forgets it.
LEMMA OnceServerAck ==
  ASSUME Types, OnceInv, FreshInv, ServerAck PROVE OnceInv' /\ FreshInv'
<1>1. PICK e \in inTransit : /\ server_recvqueue' = Append(server_recvqueue, e)
                             /\ inTransit' = inTransit \ {e}
  BY DEF ServerAck
<1>2. e \in ID BY DEF Types, QueueTypes
<1>3. UNCHANGED <<announced, ranked, broker_recvqueue, completes, given, DataID>>
  BY DEF ServerAck, buffer, history
<1>4. Once(e) /\ e < DataID
  BY <1>2 DEF OnceInv, Once, FreshInv, Types, BufferTypes, ID
<1>5. /\ \A d \in ID : Has(server_recvqueue', d) => Has(server_recvqueue, d) \/ d = e
      /\ \A d \in ID : Single(server_recvqueue, d) /\ (d = e => ~Has(server_recvqueue, d))
                         => Single(server_recvqueue', d)
  BY <1>1, <1>2, HasAppend DEF Types, QueueTypes
<1>6. Once(e)' BY <1>1, <1>2, <1>3, <1>4, <1>5 DEF Once
<1>7. DataID \in Nat BY DEF Types, BufferTypes
<1> QED BY <1>1, <1>2, <1>3, <1>4, <1>5, <1>6, <1>7, OnceMoves

\* Every step keeps the reports single.
LEMMA OnceNext ==
  Types /\ OnceInv /\ FreshInv /\ [Next]_vars => OnceInv' /\ FreshInv'
<1> SUFFICES ASSUME Types, OnceInv, FreshInv, [Next]_vars PROVE OnceInv' /\ FreshInv'
  OBVIOUS
<1> USE DEF buffer, queues, outside, history
<1>1. CASE UNCHANGED <<queues, outside, completes, given, DataID>>
  BY <1>1, OnceStable
<1>2. CASE State7 \/ State10
  <2>1. broker_recvqueue # <<>> /\ broker_recvqueue' = Tail(broker_recvqueue)
    BY <1>2 DEF State7, State10, Types, HeadInv
  <2>2. UNCHANGED <<outside, server_recvqueue, completes, given, DataID>>
    BY <1>2 DEF State7, State10
  <2> QED BY <2>1, <2>2, PermitsTail, OnceStable
<1>3. CASE BrokerUpdate
  <2>1. broker_recvqueue' = Append(broker_recvqueue, [type |-> "UPDATE"])
    BY <1>3 DEF BrokerUpdate
  <2>2. /\ [type |-> "UPDATE"] \in Msg
        /\ \A d \in ID : [type |-> "UPDATE"] # PermitMsg(d)
    BY DEF Msg, Update, PermitMsg
  <2>3. UNCHANGED <<outside, server_recvqueue, completes, given, DataID>>
    BY <1>3 DEF BrokerUpdate
  <2> QED BY <2>1, <2>2, <2>3, PermitsAppend, OnceStable
<1>4. State5User \/ State5Server \/ State5Broker \/ State5Again \/ State11
        \/ api_sendData \/ LinkBreaks \/ UNCHANGED vars
      => UNCHANGED <<queues, outside, completes, given, DataID>>
  BY DEF State5User, State5Server, State5Broker, State5Again, State11, api_sendData,
         LinkBreaks, vars
<1> QED BY <1>1, <1>2, <1>3, <1>4, OnceState6, OnceState8, OnceState9, OnceBrokerPri,
           OnceBrokerPermit, OnceServerAck
        DEF Next, Main

-----------------------------------------------------------------------------
(* The priority a datum is given.                                          *)

\* A buffered datum is one of the data.
LEMMA BufferedIsID ==
  ASSUME Types, NEW d \in DOMAIN Buffer
  PROVE  d \in ID /\ d < DataID /\ DataID \in Nat
BY DeviceAssumption DEF Types, BufferTypes, ID

\* The PRIs in the broker's queue, when a message is taken or added.
LEMMA PrisTail ==
  ASSUME Types, broker_recvqueue # <<>>, broker_recvqueue' = Tail(broker_recvqueue)
  PROVE  \A d \in ID, p \in Priorities :
           Has(broker_recvqueue', PriMsg(d, p)) => Has(broker_recvqueue, PriMsg(d, p))
BY HasTail DEF Types, QueueTypes

\* Which priorities wait after a message more is queued.
LEMMA PrisAppend ==
  ASSUME Types, NEW m \in Msg,
         broker_recvqueue' \in {broker_recvqueue, Append(broker_recvqueue, m)}
  PROVE  \A d \in ID, p \in Priorities :
           /\ Has(broker_recvqueue', PriMsg(d, p)) =>
                Has(broker_recvqueue, PriMsg(d, p)) \/ m = PriMsg(d, p)
           /\ Has(broker_recvqueue, PriMsg(d, p)) => Has(broker_recvqueue', PriMsg(d, p))
BY HasAppend DEF Types, QueueTypes

\* A step that gives no priority and buffers nothing.
LEMMA RankStable ==
  ASSUME Types, RankInv, UNCHANGED <<announced, given, DataID, bufferRemoveQueue>>,
         DOMAIN Buffer' \subseteq DOMAIN Buffer,
         \A d \in DOMAIN Buffer' : Buffer'[d] = Buffer[d],
         \A d \in ID, p \in Priorities :
           Has(broker_recvqueue', PriMsg(d, p)) => Has(broker_recvqueue, PriMsg(d, p))
  PROVE  RankInv'
<1>1. \A d \in ID, p \in Priorities : Has(broker_recvqueue', PriMsg(d, p)) =>
        d < DataID' /\ ~Has(announced', d) /\ p = given'[d]
  BY DEF RankInv
<1>2. \A x \in bufferRemoveQueue' :
        x.data < DataID' /\ ~Has(announced', x.data) /\ x.pri = given'[x.data]
  BY DEF RankInv
<1>3. \A d \in DOMAIN Buffer' : Buffer'[d].pri # 0 =>
        /\ Buffer'[d].pri = given'[d]
        /\ [data |-> d, pri |-> Buffer'[d].pri] \in bufferRemoveQueue'
  BY DEF RankInv
<1> QED BY <1>1, <1>2, <1>3 DEF RankInv

\* State 6 buffers a datum without a priority, of which nothing was known.
LEMMA RankState6 == ASSUME Types, RankInv, State6 PROVE RankInv'
<1>1. DataID \in ID /\ DataID' = DataID + 1 /\ DataID \in Nat
  BY NextIsID DEF State6, NextID, Types, BufferTypes
<1>2. /\ announced' = Append(announced, DataID) \/ announced' = announced
      /\ UNCHANGED <<broker_recvqueue, bufferRemoveQueue, given>>
  BY DEF State6, queues
<1>3. \A d \in ID : Has(announced', d) => Has(announced, d) \/ d = DataID
  <2>1. CASE announced' = announced BY <2>1
  <2>2. CASE announced' = Append(announced, DataID)
    BY <1>1, <2>2, HasAppend DEF Types, QueueTypes
  <2> QED BY <1>2, <2>1, <2>2
<1>4. \A d \in ID, p \in Priorities : Has(broker_recvqueue', PriMsg(d, p)) =>
        d < DataID' /\ ~Has(announced', d) /\ p = given'[d]
  <2> SUFFICES ASSUME NEW d \in ID, NEW p \in Priorities,
                      Has(broker_recvqueue', PriMsg(d, p))
               PROVE  d < DataID' /\ ~Has(announced', d) /\ p = given'[d]
    OBVIOUS
  <2>1. Has(broker_recvqueue, PriMsg(d, p)) BY <1>2
  <2>2. d < DataID /\ ~Has(announced, d) /\ p = given[d] /\ d \in Nat
    BY <2>1 DEF RankInv, ID
  <2> QED BY <1>1, <1>2, <1>3, <2>2
<1>5. \A x \in bufferRemoveQueue' :
        x.data < DataID' /\ ~Has(announced', x.data) /\ x.pri = given'[x.data]
  <2> TAKE x \in bufferRemoveQueue'
  <2>1. x.data \in ID /\ x.data \in Nat BY <1>2 DEF Types, BufferTypes, Entry, ID
  <2>2. x.data < DataID /\ ~Has(announced, x.data) /\ x.pri = given[x.data]
    BY <1>2 DEF RankInv
  <2> QED BY <1>1, <1>2, <1>3, <2>1, <2>2
<1>6. \A d \in DOMAIN Buffer' : Buffer'[d].pri # 0 =>
        /\ Buffer'[d].pri = given'[d]
        /\ [data |-> d, pri |-> Buffer'[d].pri] \in bufferRemoveQueue'
  BY <1>2 DEF State6, RankInv
<1> QED BY <1>4, <1>5, <1>6 DEF RankInv

\* State 7 gives the datum the priority of the PRI, and what it leaves in the buffer it
\* leaves in the queue.
LEMMA RankState7 == ASSUME Types, RankInv, State7 PROVE RankInv'
<1> DEFINE d0 == Head(broker_recvqueue).data
           p0 == Head(broker_recvqueue).pri
<1>1. /\ pc = "State7" /\ broker_recvqueue' = Tail(broker_recvqueue)
      /\ UNCHANGED <<announced, given, DataID>>
  BY State7Else DEF outside, history
<1>2. /\ broker_recvqueue # <<>> /\ d0 \in ID /\ p0 \in Priorities
      /\ Head(broker_recvqueue) = PriMsg(d0, p0)
  BY <1>1, TakenTypes, Messages DEF Types, HeadInv
<1>3. Has(broker_recvqueue, PriMsg(d0, p0)) BY <1>2, HasTail DEF Types, QueueTypes
<1>4. d0 < DataID /\ ~Has(announced, d0) /\ p0 = given[d0] BY <1>2, <1>3 DEF RankInv
<1>5. \A d \in ID, p \in Priorities :
        Has(broker_recvqueue', PriMsg(d, p)) => Has(broker_recvqueue, PriMsg(d, p))
  BY <1>1, <1>2, PrisTail
<1>6. CASE NotFound(d0)
  <2>1. UNCHANGED <<Buffer, bufferRemoveQueue>> BY <1>6, State7Missed
  <2> QED BY <1>1, <1>5, <2>1, RankStable
<1>7. CASE ~NotFound(d0)
  <2>1. /\ Buffer' = [e \in DOMAIN Rated \ DataOf(Given) |-> Rated[e]]
        /\ bufferRemoveQueue' = Offered \ Given
    BY <1>7, State7Found
  <2>2. /\ DOMAIN Rated = DOMAIN Buffer
        /\ \A e \in DOMAIN Buffer : Rated[e].pri = IF e = d0 THEN p0 ELSE Buffer[e].pri
    BY <1>1, <1>7, RatedTypes
  <2>3. Offered = bufferRemoveQueue \cup {[data |-> d0, pri |-> p0]}
    BY DEF Offered, PutBefore
  <2> HIDE DEF d0, p0
  <2>4. \A d \in ID, p \in Priorities : Has(broker_recvqueue', PriMsg(d, p)) =>
          d < DataID' /\ ~Has(announced', d) /\ p = given'[d]
    BY <1>1, <1>5 DEF RankInv
  <2>5. \A x \in bufferRemoveQueue' :
          x.data < DataID' /\ ~Has(announced', x.data) /\ x.pri = given'[x.data]
    BY <1>1, <1>4, <2>1, <2>3 DEF RankInv
  <2>6. \A d \in DOMAIN Buffer' : Buffer'[d].pri # 0 =>
          /\ Buffer'[d].pri = given'[d]
          /\ [data |-> d, pri |-> Buffer'[d].pri] \in bufferRemoveQueue'
    <3> SUFFICES ASSUME NEW d \in DOMAIN Buffer', Buffer'[d].pri # 0
                 PROVE  /\ Buffer'[d].pri = given'[d]
                        /\ [data |-> d, pri |-> Buffer'[d].pri] \in bufferRemoveQueue'
      OBVIOUS
    <3>1. /\ d \in DOMAIN Buffer /\ d \notin DataOf(Given)
          /\ Buffer'[d].pri = IF d = d0 THEN p0 ELSE Buffer[d].pri
      BY <2>1, <2>2
    <3>2. Buffer'[d].pri = given[d] /\ [data |-> d, pri |-> Buffer'[d].pri] \in Offered
      BY <1>4, <2>3, <3>1 DEF RankInv
    <3>3. [data |-> d, pri |-> Buffer'[d].pri] \notin Given
      BY <3>1 DEF DataOf
    <3> QED BY <1>1, <2>1, <3>2, <3>3
  <2> QED BY <2>4, <2>5, <2>6 DEF RankInv
<1> QED BY <1>6, <1>7

\* The broker's answer is the only one there is for its datum.
LEMMA RankBrokerPri ==
  ASSUME Types, OnceInv, FreshInv, RankInv, BrokerPri PROVE RankInv'
<1>0. PICK e : e = Head(announced)
  OBVIOUS
<1>1. /\ e \in ID /\ Has(announced, e)
      /\ \A d \in ID : Has(Tail(announced), d) => Has(announced, d)
      /\ Single(announced, e) => ~Has(Tail(announced), e)
  BY <1>0, HasTail DEF BrokerPri, Types, QueueTypes
<1>2. PICK p \in Priorities : FromBroker(PriMsg(e, p), e) /\ given' = [given EXCEPT ![e] = p]
  BY <1>0 DEF BrokerPri, PriMsg
<1>3. announced' = Tail(announced) /\ UNCHANGED <<DataID, Buffer, bufferRemoveQueue>>
  BY DEF BrokerPri, buffer
<1>4. ~Has(announced', e) /\ e < DataID
  BY <1>1, <1>3 DEF OnceInv, FreshInv, Types, BufferTypes, ID
<1>5. given'[e] = p /\ \A d \in ID \ {e} : given'[d] = given[d]
  BY <1>1, <1>2 DEF Types, HistoryTypes
<1>6. PriMsg(e, p) \in Msg BY <1>1, Messages
<1>7. broker_recvqueue' \in {broker_recvqueue, Append(broker_recvqueue, PriMsg(e, p))}
  BY <1>2 DEF FromBroker
<1>8. \A d \in ID, r \in Priorities : Has(broker_recvqueue', PriMsg(d, r)) =>
        Has(broker_recvqueue, PriMsg(d, r)) \/ (d = e /\ r = p)
  BY <1>6, <1>7, PrisAppend, Messages
<1>9. \A d \in ID, r \in Priorities : Has(broker_recvqueue', PriMsg(d, r)) =>
        d < DataID' /\ ~Has(announced', d) /\ r = given'[d]
  <2> SUFFICES ASSUME NEW d \in ID, NEW r \in Priorities,
                      Has(broker_recvqueue', PriMsg(d, r))
               PROVE  d < DataID' /\ ~Has(announced', d) /\ r = given'[d]
    OBVIOUS
  <2>1. CASE d = e /\ r = p BY <1>3, <1>4, <1>5, <2>1
  <2>2. CASE Has(broker_recvqueue, PriMsg(d, r))
    <3>1. d < DataID /\ ~Has(announced, d) /\ r = given[d] BY <2>2 DEF RankInv
    <3>2. d # e BY <1>1, <3>1
    <3>3. ~Has(announced', d) BY <1>1, <1>3, <3>1
    <3> QED BY <1>3, <1>5, <3>1, <3>2, <3>3
  <2> QED BY <1>8, <2>1, <2>2
<1>10. \A x \in bufferRemoveQueue' :
         x.data < DataID' /\ ~Has(announced', x.data) /\ x.pri = given'[x.data]
  <2> TAKE x \in bufferRemoveQueue'
  <2>1. x.data \in ID BY <1>3 DEF Types, BufferTypes, Entry
  <2>2. x.data < DataID /\ ~Has(announced, x.data) /\ x.pri = given[x.data]
    BY <1>3 DEF RankInv
  <2>3. x.data # e BY <1>1, <2>2
  <2>4. ~Has(announced', x.data) BY <1>1, <1>3, <2>1, <2>2
  <2> QED BY <1>3, <1>5, <2>1, <2>2, <2>3, <2>4
<1>11. \A d \in DOMAIN Buffer' : Buffer'[d].pri # 0 =>
         /\ Buffer'[d].pri = given'[d]
         /\ [data |-> d, pri |-> Buffer'[d].pri] \in bufferRemoveQueue'
  <2> SUFFICES ASSUME NEW d \in DOMAIN Buffer, Buffer[d].pri # 0
               PROVE  Buffer[d].pri = given'[d] /\ [data |-> d, pri |-> Buffer[d].pri] \in bufferRemoveQueue
    BY <1>3
  <2>1. Buffer[d].pri = given[d] /\ [data |-> d, pri |-> Buffer[d].pri] \in bufferRemoveQueue
    BY DEF RankInv
  <2>2. ~Has(announced, d) BY <2>1 DEF RankInv
  <2>3. d # e /\ d \in ID BY <1>1, <2>2, BufferedIsID
  <2> QED BY <1>5, <2>1, <2>3
<1> QED BY <1>9, <1>10, <1>11 DEF RankInv

\* Every step keeps what is known of the priorities.
LEMMA RankNext ==
  Types /\ OnceInv /\ FreshInv /\ RankInv /\ [Next]_vars => RankInv'
<1> SUFFICES ASSUME Types, OnceInv, FreshInv, RankInv, [Next]_vars PROVE RankInv'
  OBVIOUS
<1> USE DEF buffer, queues, outside, history
<1>1. CASE UNCHANGED <<broker_recvqueue, announced, given, buffer>>
  BY <1>1, RankStable
<1>2. CASE State8 \/ State10
  <2>1. broker_recvqueue # <<>> /\ broker_recvqueue' = Tail(broker_recvqueue)
    BY <1>2 DEF State8, State10, Types, HeadInv
  <2>2. UNCHANGED <<announced, given, buffer>> BY <1>2 DEF State8, State10
  <2> QED BY <2>1, <2>2, PrisTail, RankStable
<1>3. CASE State9
  <2>1. /\ UNCHANGED <<broker_recvqueue, announced, given, DataID, bufferRemoveQueue>>
        /\ DOMAIN Buffer' \subseteq DOMAIN Buffer
        /\ \A d \in DOMAIN Buffer' : Buffer'[d] = Buffer[d]
    BY <1>3 DEF State9, Erased
  <2> QED BY <2>1, RankStable
<1>4. CASE BrokerPermit
  <2>1. PICK d \in ranked : FromBroker(PermitMsg(d), d)
    BY <1>4 DEF BrokerPermit, PermitMsg
  <2>2. PermitMsg(d) \in Msg /\ \A e, p : PermitMsg(d) # PriMsg(e, p)
    BY Messages DEF Types, QueueTypes
  <2>3. broker_recvqueue' \in {broker_recvqueue, Append(broker_recvqueue, PermitMsg(d))}
    BY <2>1 DEF FromBroker
  <2>4. UNCHANGED <<announced, given, buffer>> BY <1>4 DEF BrokerPermit
  <2> QED BY <2>2, <2>3, <2>4, PrisAppend, RankStable
<1>5. CASE BrokerUpdate
  <2>1. broker_recvqueue' = Append(broker_recvqueue, [type |-> "UPDATE"])
        /\ UNCHANGED <<announced, given, buffer>>
    BY <1>5 DEF BrokerUpdate
  <2>2. /\ [type |-> "UPDATE"] \in Msg
        /\ \A d, p : [type |-> "UPDATE"] # PriMsg(d, p)
    BY DEF Msg, Update, PriMsg
  <2> QED BY <2>1, <2>2, PrisAppend, RankStable
<1>6. CASE api_sendData
  BY <1>6, RankStable DEF api_sendData
<1>7. State5User \/ State5Server \/ State5Broker \/ State5Again \/ State11
        \/ ServerAck \/ LinkBreaks \/ UNCHANGED vars
      => UNCHANGED <<broker_recvqueue, announced, given, buffer>>
  BY DEF State5User, State5Server, State5Broker, State5Again, State11, ServerAck,
         LinkBreaks, vars
<1> QED BY <1>1, <1>2, <1>3, <1>4, <1>5, <1>6, <1>7, RankState6, RankState7, RankBrokerPri
        DEF Next, Main

-----------------------------------------------------------------------------
(* The priority a datum is sent with.                                      *)

\* A datum's PRI stays before its PERMIT when a message is added, whichever it is, and
\* when one is taken that is not the PRI.
LEMMA PendingAppend ==
  ASSUME NEW q \in Seq(Msg), NEW m \in Msg, NEW d \in ID, Pending(q, d), Known(d) => Known(d)',
         NEW r, r \in {q, Append(q, m)}, ~Known(d)'
  PROVE  /\ HasPri(r, d)
         /\ \A i \in DOMAIN r : r[i] = PermitMsg(d) => PriBefore(r, d, i)
<1>1. ~Known(d)
  OBVIOUS
<1>2. /\ HasPri(q, d)
      /\ \A i \in DOMAIN q : q[i] = PermitMsg(d) => PriBefore(q, d, i)
  BY <1>1 DEF Pending
<1>3. CASE r = q BY <1>2, <1>3
<1>4. CASE r = Append(q, m)
  <2>1. /\ DOMAIN r = 1..(Len(q) + 1) /\ DOMAIN q = 1..Len(q) /\ Len(q) \in Nat
        /\ \A i \in 1..Len(q) : r[i] = q[i]
    BY <1>4, AppendProperties, LenProperties
  <2>2. PICK j \in DOMAIN q, p \in Priorities : q[j] = PriMsg(d, p) BY <1>2 DEF HasPri, Has
  <2>3. j \in DOMAIN r /\ r[j] = PriMsg(d, p) /\ j < Len(q) + 1 BY <2>1, <2>2
  <2>4. HasPri(r, d) BY <2>3 DEF HasPri, Has
  <2>5. ASSUME NEW i \in DOMAIN r, r[i] = PermitMsg(d) PROVE PriBefore(r, d, i)
    <3>1. CASE i = Len(q) + 1 BY <2>3, <3>1 DEF PriBefore
    <3>2. CASE i # Len(q) + 1
      <4>1. i \in DOMAIN q /\ q[i] = PermitMsg(d) BY <2>1, <2>5, <3>2
      <4>2. PICK k \in DOMAIN q, s \in Priorities : k < i /\ q[k] = PriMsg(d, s)
        BY <1>2, <4>1 DEF PriBefore
      <4>3. k \in DOMAIN r /\ r[k] = PriMsg(d, s) BY <2>1, <4>2
      <4> QED BY <4>2, <4>3 DEF PriBefore
    <3> QED BY <3>1, <3>2
  <2> QED BY <2>4, <2>5
<1> QED BY <1>3, <1>4

\* A message that is not about a datum leaves its priority before its permission.
LEMMA PendingTail ==
  ASSUME NEW q \in Seq(Msg), q # <<>>, NEW d \in ID, Pending(q, d), Known(d) => Known(d)',
         ~Known(d)', \A p \in Priorities : Head(q) # PriMsg(d, p)
  PROVE  /\ HasPri(Tail(q), d)
         /\ \A i \in DOMAIN Tail(q) : Tail(q)[i] = PermitMsg(d) => PriBefore(Tail(q), d, i)
<1>1. /\ HasPri(q, d)
      /\ \A i \in DOMAIN q : q[i] = PermitMsg(d) => PriBefore(q, d, i)
  BY DEF Pending
<1>2. /\ DOMAIN Tail(q) = 1..(Len(q) - 1) /\ DOMAIN q = 1..Len(q) /\ Len(q) \in Nat \ {0}
      /\ Head(q) = q[1] /\ \A i \in 1..(Len(q) - 1) : Tail(q)[i] = q[i + 1]
  BY HeadTailProperties, LenProperties, EmptySeq
<1>3. ASSUME NEW j \in DOMAIN q, NEW p \in Priorities, q[j] = PriMsg(d, p)
      PROVE  j - 1 \in DOMAIN Tail(q) /\ Tail(q)[j - 1] = PriMsg(d, p)
  BY <1>2, <1>3
<1>4. HasPri(Tail(q), d) BY <1>1, <1>3 DEF HasPri, Has
<1>5. ASSUME NEW i \in DOMAIN Tail(q), Tail(q)[i] = PermitMsg(d)
      PROVE  PriBefore(Tail(q), d, i)
  <2>1. i + 1 \in DOMAIN q /\ q[i + 1] = PermitMsg(d) /\ i \in Nat BY <1>2, <1>5
  <2>2. PICK j \in DOMAIN q, p \in Priorities : j < i + 1 /\ q[j] = PriMsg(d, p)
    BY <1>1, <2>1 DEF PriBefore
  <2>3. j - 1 < i BY <1>2, <2>1, <2>2
  <2> QED BY <1>3, <2>2, <2>3 DEF PriBefore
<1> QED BY <1>4, <1>5

\* A step that adds a message at most and forgets nothing of the data.
LEMMA PendingGrows ==
  ASSUME Types, PendingInv, NEW m \in Msg,
         broker_recvqueue' \in {broker_recvqueue, Append(broker_recvqueue, m)},
         NEW d \in DOMAIN Buffer, Known(d) => Known(d)'
  PROVE  Pending(broker_recvqueue, d)'
<1>1. d \in ID /\ broker_recvqueue \in Seq(Msg) /\ Pending(broker_recvqueue, d)
  BY BufferedIsID DEF PendingInv, Types, QueueTypes
<1>2. CASE Known(d)' BY <1>2 DEF Pending
<1>3. CASE ~Known(d)' BY <1>1, <1>3, PendingAppend DEF Pending
<1> QED BY <1>2, <1>3

\* A step that takes a message, not a PRI that is still needed.
LEMMA PendingShrinks ==
  ASSUME Types, PendingInv, broker_recvqueue # <<>>,
         broker_recvqueue' = Tail(broker_recvqueue),
         NEW d \in DOMAIN Buffer, Known(d) => Known(d)',
         Known(d)' \/ \A p \in Priorities : Head(broker_recvqueue) # PriMsg(d, p)
  PROVE  Pending(broker_recvqueue, d)'
<1>1. d \in ID /\ broker_recvqueue \in Seq(Msg) /\ Pending(broker_recvqueue, d)
  BY BufferedIsID DEF PendingInv, Types, QueueTypes
<1>2. CASE Known(d)' BY <1>2 DEF Pending
<1>3. CASE ~Known(d)' BY <1>1, <1>3, PendingTail DEF Pending
<1> QED BY <1>2, <1>3

\* Known stays when the datum and its priority do, and when a message more is lost.
LEMMA KnownStays ==
  ASSUME NEW d, Buffer'[d] = Buffer[d], given'[d] = given[d], lost \subseteq lost'
  PROVE  Known(d) => Known(d)'
BY DEF Known

\* State 6 buffers a datum as it is given: without a priority.
LEMMA PendingState6 ==
  ASSUME Types, FreshInv, PendingInv, State6 PROVE PendingInv'
<1>0. PICK e : e = DataID
  OBVIOUS
<1>1. e \in ID /\ given[e] = 0
  BY <1>0, NextIsID DEF State6, FreshInv, Types, BufferTypes, ID
<1>2. /\ DOMAIN Buffer' = DOMAIN Buffer \cup {e} /\ Buffer'[e].pri = 0
      /\ \A d \in DOMAIN Buffer \ {e} : Buffer'[d] = Buffer[d]
      /\ UNCHANGED <<broker_recvqueue, given>> /\ lost \subseteq lost'
  BY <1>0 DEF State6, Delivered, Lost, queues
<1>3. Known(e)' BY <1>1, <1>2 DEF Known
<1>4. Pending(broker_recvqueue, e)' BY <1>3 DEF Pending
<1>5. ASSUME NEW d \in DOMAIN Buffer, d # e PROVE Pending(broker_recvqueue, d)'
  <2>1. Known(d) => Known(d)' BY <1>2, <1>5, KnownStays
  <2>2. Pending(broker_recvqueue, d) BY <1>5 DEF PendingInv
  <2> QED BY <1>2, <2>1, <2>2 DEF Pending
<1> QED BY <1>2, <1>4, <1>5 DEF PendingInv

\* State 7 takes a PRI, after which the datum has the priority if it is buffered.
LEMMA PendingState7 ==
  ASSUME Types, RankInv, PendingInv, State7 PROVE PendingInv'
<1>0. PICK e, r : e = Head(broker_recvqueue).data /\ r = Head(broker_recvqueue).pri
  OBVIOUS
<1>1. /\ pc = "State7" /\ broker_recvqueue' = Tail(broker_recvqueue)
      /\ UNCHANGED <<given, lost>>
  BY State7Else DEF history
<1>2. /\ broker_recvqueue # <<>> /\ e \in ID /\ r \in Priorities
      /\ Head(broker_recvqueue) = PriMsg(e, r)
  BY <1>0, <1>1, TakenTypes, Messages DEF Types, HeadInv
<1>3. r = given[e]
  <2>1. Has(broker_recvqueue, PriMsg(e, r)) BY <1>2, HasTail DEF Types, QueueTypes
  <2> QED BY <1>2, <2>1 DEF RankInv
<1>4. /\ DOMAIN Buffer' \subseteq DOMAIN Buffer
      /\ \A d \in DOMAIN Buffer' :
           Buffer'[d].pri = IF d = e THEN r ELSE Buffer[d].pri
  <2>1. CASE NotFound(e)
    <3>1. UNCHANGED Buffer BY <1>0, <2>1, State7Missed
    <3> QED BY <2>1, <3>1 DEF NotFound
  <2>2. CASE ~NotFound(e)
    <3>1. Buffer' = [d \in DOMAIN Rated \ DataOf(Given) |-> Rated[d]]
      BY <1>0, <2>2, State7Found
    <3>2. /\ DOMAIN Rated = DOMAIN Buffer
          /\ \A d \in DOMAIN Buffer : Rated[d].pri = IF d = e THEN r ELSE Buffer[d].pri
      BY <1>0, <1>1, <2>2, RatedTypes
    <3> QED BY <3>1, <3>2
  <2> QED BY <2>1, <2>2
<1>5. ASSUME NEW d \in DOMAIN Buffer' PROVE Pending(broker_recvqueue, d)'
  <2>1. d \in DOMAIN Buffer BY <1>4
  <2>2. CASE d = e
    <3>1. Known(d)' BY <1>1, <1>3, <1>4, <2>2 DEF Known
    <3> QED BY <3>1 DEF Pending
  <2>3. CASE d # e
    <3>1. Known(d) => Known(d)' BY <1>1, <1>4, <2>3 DEF Known
    <3>2. \A p \in Priorities : Head(broker_recvqueue) # PriMsg(d, p)
      BY <1>2, <2>3, Messages
    <3> QED BY <1>1, <1>2, <2>1, <3>1, <3>2, PendingShrinks
  <2> QED BY <2>2, <2>3
<1> QED BY <1>5 DEF PendingInv

\* States 8 and 10 take what is not a PRI.
LEMMA PendingState8 ==
  ASSUME Types, PendingInv, State8 \/ State10 PROVE PendingInv'
<1>1. /\ broker_recvqueue # <<>> /\ broker_recvqueue' = Tail(broker_recvqueue)
      /\ Head(broker_recvqueue) \in Permit \cup Update
  BY DEF State8, State10, Types, HeadInv
<1>2. UNCHANGED <<Buffer, given>> BY DEF State8, State10, buffer, history
<1>3. lost \subseteq lost'
  BY DEF State8, State10, Report, Return, Delivered, Lost, history
<1>4. \A d, p : Head(broker_recvqueue) # PriMsg(d, p)
  BY <1>1 DEF Permit, Update, PriMsg
<1>5. ASSUME NEW d \in DOMAIN Buffer PROVE Pending(broker_recvqueue, d)'
  <2>1. Known(d) => Known(d)' BY <1>2, <1>3, KnownStays
  <2> QED BY <1>1, <1>4, <2>1, PendingShrinks
<1> QED BY <1>2, <1>5 DEF PendingInv

\* The broker's answer is put before the PERMIT, which is not there yet, or is lost.
LEMMA PendingBrokerPri ==
  ASSUME Types, OnceInv, PendingInv, BrokerPri PROVE PendingInv'
<1>0. PICK e : e = Head(announced)
  OBVIOUS
<1>1. e \in ID /\ Has(announced, e)
  BY <1>0, HasTail DEF BrokerPri, Types, QueueTypes
<1>2. PICK p \in Priorities : FromBroker(PriMsg(e, p), e) /\ given' = [given EXCEPT ![e] = p]
  BY <1>0 DEF BrokerPri, PriMsg
<1>3. UNCHANGED Buffer /\ lost \subseteq lost'
  BY <1>2 DEF BrokerPri, buffer, FromBroker
<1>4. PriMsg(e, p) \in Msg /\ \A d : PriMsg(e, p) # PermitMsg(d)
  BY <1>1, Messages DEF PriMsg, PermitMsg
<1>5. broker_recvqueue' \in {broker_recvqueue, Append(broker_recvqueue, PriMsg(e, p))}
  BY <1>2 DEF FromBroker
<1>6. ASSUME NEW d \in DOMAIN Buffer PROVE Pending(broker_recvqueue, d)'
  <2>1. CASE d # e
    <3>1. given'[d] = given[d] BY <1>2, <2>1, BufferedIsID DEF Types, HistoryTypes
    <3>2. Known(d) => Known(d)' BY <1>3, <3>1, KnownStays
    <3> QED BY <1>4, <1>5, <3>2, PendingGrows
  <2>2. CASE d = e /\ ~link
    <3>1. Known(d)' BY <1>2, <2>2 DEF FromBroker, Known
    <3> QED BY <3>1 DEF Pending
  <2>3. CASE d = e /\ link
    <3>1. broker_recvqueue' = Append(broker_recvqueue, PriMsg(e, p))
      BY <1>2, <2>3 DEF FromBroker
    <3>2. Has(broker_recvqueue', PriMsg(d, p))
      BY <1>4, <2>3, <3>1, HasAppend DEF Types, QueueTypes
    <3>3. ~Has(broker_recvqueue, PermitMsg(d)) BY <1>1, <2>3 DEF OnceInv
    <3>4. ~Has(broker_recvqueue', PermitMsg(d))
      BY <1>1, <1>4, <1>5, <2>3, <3>3, PermitsAppend
    <3> QED BY <3>2, <3>4 DEF Pending, HasPri, Has
  <2> QED BY <2>1, <2>2, <2>3
<1> QED BY <1>3, <1>6 DEF PendingInv

\* The broker sends what is not a PRI.
LEMMA PendingBroker ==
  ASSUME Types, PendingInv, BrokerPermit \/ BrokerUpdate PROVE PendingInv'
<1>1. PICK m \in Msg : broker_recvqueue' \in {broker_recvqueue, Append(broker_recvqueue, m)}
  <2>1. CASE BrokerPermit
    <3>1. PICK d \in ranked : FromBroker(PermitMsg(d), d)
      BY <2>1 DEF BrokerPermit, PermitMsg
    <3>2. PermitMsg(d) \in Msg BY Messages DEF Types, QueueTypes
    <3> QED BY <3>1, <3>2 DEF FromBroker
  <2>2. CASE BrokerUpdate
    <3>1. [type |-> "UPDATE"] \in Msg BY DEF Msg, Update
    <3> QED BY <2>2, <3>1 DEF BrokerUpdate
  <2> QED BY <2>1, <2>2
<1>2. UNCHANGED <<Buffer, given>> /\ lost \subseteq lost'
  BY DEF BrokerPermit, BrokerUpdate, FromBroker, buffer, history
<1>3. ASSUME NEW d \in DOMAIN Buffer PROVE Pending(broker_recvqueue, d)'
  <2>1. Known(d) => Known(d)' BY <1>2, KnownStays
  <2> QED BY <1>1, <2>1, PendingGrows
<1> QED BY <1>2, <1>3 DEF PendingInv

\* Every step keeps the priorities known or on the way.
LEMMA PendingNext ==
  Types /\ OnceInv /\ FreshInv /\ RankInv /\ PendingInv /\ [Next]_vars => PendingInv'
<1> SUFFICES ASSUME Types, OnceInv, FreshInv, RankInv, PendingInv, [Next]_vars
             PROVE  PendingInv'
  OBVIOUS
<1> USE DEF buffer, queues, outside, history
<1>1. ASSUME UNCHANGED <<broker_recvqueue, given>>, lost \subseteq lost',
             DOMAIN Buffer' \subseteq DOMAIN Buffer,
             \A d \in DOMAIN Buffer' : Buffer'[d] = Buffer[d]
      PROVE  PendingInv'
  <2>1. ASSUME NEW d \in DOMAIN Buffer' PROVE Pending(broker_recvqueue, d)'
    <3>1. Known(d) => Known(d)' BY <1>1, <2>1, KnownStays
    <3>2. Pending(broker_recvqueue, d) BY <1>1, <2>1 DEF PendingInv
    <3> QED BY <1>1, <3>1, <3>2 DEF Pending
  <2> QED BY <2>1 DEF PendingInv
<1>2. CASE State9
  <2>1. UNCHANGED <<broker_recvqueue, given>> /\ lost \subseteq lost'
    BY <1>2 DEF State9, Delivered, Lost
  <2>2. /\ DOMAIN Buffer' \subseteq DOMAIN Buffer
        /\ \A d \in DOMAIN Buffer' : Buffer'[d] = Buffer[d]
    BY <1>2 DEF State9, Erased
  <2> QED BY <1>1, <2>1, <2>2
<1>3. CASE UNCHANGED <<broker_recvqueue, given, lost, Buffer>>
  BY <1>1, <1>3
<1>4. State5User \/ State5Server \/ State5Broker \/ State5Again \/ State11
        \/ api_sendData \/ ServerAck \/ LinkBreaks \/ UNCHANGED vars
      => UNCHANGED <<broker_recvqueue, given, lost, Buffer>>
  BY DEF State5User, State5Server, State5Broker, State5Again, State11, api_sendData,
         ServerAck, LinkBreaks, vars
<1> QED BY <1>2, <1>3, <1>4, PendingState6, PendingState7, PendingState8,
           PendingBrokerPri, PendingBroker
        DEF Next, Main

-----------------------------------------------------------------------------
(* The theorems.                                                           *)

\* The invariant but for the types holds at first.
LEMMA OthersInit == Init => OnceInv /\ FreshInv /\ RankInv /\ PendingInv
<1> SUFFICES ASSUME Init PROVE OnceInv /\ FreshInv /\ RankInv /\ PendingInv
  OBVIOUS
<1>1. \A x : ~Has(<<>>, x) BY DEF Has
<1>2. \A x : Single(<<>>, x) BY DEF Single
<1>3. /\ broker_recvqueue = <<>> /\ server_recvqueue = <<>> /\ announced = <<>>
      /\ ranked = {} /\ inTransit = {} /\ bufferRemoveQueue = {} /\ DOMAIN Buffer = {}
      /\ \A d \in ID : completes[d] = 0 /\ given[d] = 0
  BY DEF Init
<1>4. OnceInv BY <1>1, <1>2, <1>3 DEF OnceInv
<1>5. FreshInv BY <1>1, <1>3 DEF FreshInv
<1>6. RankInv BY <1>1, <1>3 DEF RankInv
<1>7. PendingInv BY <1>3 DEF PendingInv
<1> QED BY <1>4, <1>5, <1>6, <1>7

\* The inductive invariant holds in every reachable state.
LEMMA DeviceInvariant == Spec => []DInv
<1>1. Init => DInv BY TypesInit, OthersInit DEF DInv
<1>2. DInv /\ [Next]_vars => DInv'
  BY TypesNext, OnceNext, RankNext, PendingNext DEF DInv
<1> QED BY <1>1, <1>2, PTL DEF Spec

\* link and undefined are Boolean.
LEMMA FlagsBoolean == Spec => [](link \in BOOLEAN /\ undefined \in BOOLEAN)
<1> DEFINE B == link \in BOOLEAN /\ undefined \in BOOLEAN
<1>1. Init => B BY DEF Init
<1>2. B /\ [Next]_vars => B'
  <2> SUFFICES ASSUME B, [Next]_vars PROVE B'
    OBVIOUS
  <2>1. CASE State7
    <3>1. link' = link BY <2>1, State7Else
    <3>2. undefined' \in BOOLEAN
      <4>1. CASE NotFound(Head(broker_recvqueue).data)
        BY <2>1, <4>1, State7Missed
      <4>2. CASE ~NotFound(Head(broker_recvqueue).data)
        <5>1. undefined' = (Removed(Rated, Given) < Excess(Rated))
          BY <2>1, <4>2, State7Found
        <5> QED BY <5>1
      <4> QED BY <4>1, <4>2
    <3> QED BY <3>1, <3>2
  <2>2. CASE State6 \/ State8 \/ State9 \/ State11
    BY <2>2, Zenon
    DEF State6, State8, State9, State11, Report, Delivered, Lost, buffer
  <2>3. CASE State5User \/ State5Server \/ State5Broker \/ State5Again \/ State10
    BY <2>3, Zenon
    DEF State5User, State5Server, State5Broker, State5Again, State10, buffer
  <2>4. CASE api_sendData \/ BrokerPri \/ BrokerPermit \/ BrokerUpdate \/ ServerAck
               \/ LinkBreaks
    BY <2>4, Zenon
    DEF api_sendData, BrokerPri, BrokerPermit, BrokerUpdate, ServerAck, LinkBreaks, buffer
  <2>5. CASE UNCHANGED vars BY <2>5, Zenon DEF vars, buffer
  <2> QED BY <2>1, <2>2, <2>3, <2>4, <2>5 DEF Next, Main
<1> QED BY <1>1, <1>2, PTL DEF Spec

\* Every reachable state is well typed: what is buffered has an ID that was given out,
\* and State 7 finds the size and the priority of all that it may evict.
THEOREM TypeCorrect == Spec => []TypeOK
<1>1. Types /\ link \in BOOLEAN /\ undefined \in BOOLEAN => TypeOK
  <2> SUFFICES ASSUME Types, link \in BOOLEAN, undefined \in BOOLEAN PROVE TypeOK
    OBVIOUS
  <2>1. \A d \in DOMAIN Buffer : Buffer[d] \in [size : Sizes, pri : Priorities \cup {0}]
    BY DEF Types, BufferTypes, Item
  <2>2. broker_recvqueue \in Seq(Pri \cup Permit \cup Update)
    BY DEF Types, QueueTypes, Msg
  <2>3. bufferRemoveQueue \subseteq [data : ID, pri : Priorities]
    BY DEF Types, BufferTypes, Entry
  <2> QED BY <2>1, <2>2, <2>3, Zenon
          DEF TypeOK, Types, BufferTypes, QueueTypes, HistoryTypes
<1>2. DInv => Types BY DEF DInv
<1> QED BY <1>1, <1>2, DeviceInvariant, FlagsBoolean, PTL

\* The broker is told once at most that a datum is finished, evicted or not.
THEOREM CompletedOnceCorrect == Spec => []CompletedOnce
<1>1. DInv => CompletedOnce BY DEF DInv, OnceInv, CompletedOnce
<1> QED BY <1>1, DeviceInvariant, PTL

\* State 8 sends a datum with the priority the broker gave it, unless the PRI was lost:
\* it was on the way before the PERMIT, so that State 7 has taken it.
THEOREM SentWithPriorityCorrect == Spec => []SentWithPriority
<1>1. DInv => SentWithPriority
  <2> SUFFICES ASSUME DInv, pc = "State8", ~NotFound(Head(broker_recvqueue).data),
                      NEW d, d = Head(broker_recvqueue).data
               PROVE  Known(d)
    BY DEF SentWithPriority, Known
  <2>1. /\ broker_recvqueue # <<>> /\ Head(broker_recvqueue) = PermitMsg(d)
        /\ broker_recvqueue \in Seq(Msg)
    BY Messages DEF DInv, Types, HeadInv, QueueTypes
  <2>2. d \in DOMAIN Buffer /\ Pending(broker_recvqueue, d)
    BY DEF NotFound, DInv, PendingInv
  <2>3. 1 \in DOMAIN broker_recvqueue /\ broker_recvqueue[1] = PermitMsg(d)
    BY <2>1, HeadTailProperties, LenProperties, EmptySeq
  <2>4. ~PriBefore(broker_recvqueue, d, 1)
    BY <2>1, LenProperties DEF PriBefore
  <2> QED BY <2>2, <2>3, <2>4 DEF Pending
<1> QED BY <1>1, DeviceInvariant, PTL

\* The entries of the queue are numbers.
LEMMA EntryNumbers == ASSUME NEW x \in Entry PROVE x.data \in Nat /\ x.pri \in Nat
<1>1. x.data \in ID /\ x.pri \in Priorities BY DEF Entry
<1>2. ID \subseteq Nat BY DeviceAssumption DEF ID
<1>3. Priorities \subseteq Nat BY DeviceAssumption
<1> QED BY <1>1, <1>2, <1>3

\* What may be evicted has the priority it was given.
LEMMA OfferedRank ==
  ASSUME Types, RankInv, pc = "State7", ~NotFound(Head(broker_recvqueue).data),
         NEW x \in Offered
  PROVE  x.data \in ID /\ x.data \in Int /\ x.pri \in Int /\ x.pri = given[x.data]
<1>1. x \in Entry BY RatedTypes
<1>2. x.data \in ID /\ x.pri \in Priorities BY <1>1 DEF Entry
<1>3. x.data \in Int /\ x.pri \in Int BY <1>1, EntryNumbers
<1>4. CASE x \in bufferRemoveQueue BY <1>2, <1>3, <1>4 DEF RankInv
<1>5. CASE x \notin bufferRemoveQueue
  <2>1. x.data = Head(broker_recvqueue).data /\ x.pri = Head(broker_recvqueue).pri
    BY <1>5 DEF Offered, PutBefore
  <2>2. Has(broker_recvqueue, PriMsg(x.data, x.pri))
    BY <2>1, HasTail, Messages DEF Types, HeadInv, QueueTypes
  <2> QED BY <1>2, <1>3, <2>2 DEF RankInv
<1> QED BY <1>4, <1>5

\* What State 7 pops, it pops in the order of the queue.
LEMMA PopsInOrder ==
  ASSUME Types, pc = "State7", ~NotFound(Head(broker_recvqueue).data),
         NEW y \in Given, NEW z \in Offered \ Given
  PROVE  ~PopsFirst(z, y)
<1> SUFFICES ASSUME PopsFirst(z, y) PROVE FALSE
  OBVIOUS
<1>1. /\ y \in Offered
      /\ \A w \in Offered : w = y \/ PopsFirst(w, y) =>
           Removed(Rated, {x \in Offered : PopsFirst(x, w)}) < Excess(Rated)
  BY DEF Given, removeBufferData
<1>2. PICK w \in Offered :
        /\ w = z \/ PopsFirst(w, z)
        /\ ~(Removed(Rated, {x \in Offered : PopsFirst(x, w)}) < Excess(Rated))
  BY DEF Given, removeBufferData
<1>3. \A x \in Offered : x.pri \in Int /\ x.data \in Int
  BY RatedTypes, EntryNumbers
<1>4. PopsFirst(w, y) BY <1>1, <1>2, <1>3 DEF PopsFirst
<1> QED BY <1>1, <1>2, <1>4

\* A datum is evicted only after every buffered one that is less urgent, and every
\* older one as urgent.
THEOREM EvictedCorrect == Spec => EvictedLeastUrgent
<1> DEFINE Ordered == \A d \in Evicted, e \in Ranked(Buffer') :
                        \/ Buffer'[e].pri < given[d]
                        \/ Buffer'[e].pri = given[d] /\ e > d
<1>1. ASSUME DInv, [Next]_vars, NEW d \in Evicted, NEW e \in Ranked(Buffer')
      PROVE  \/ Buffer'[e].pri < given[d]
             \/ Buffer'[e].pri = given[d] /\ e > d
  <2>1. Types /\ Types' /\ RankInv /\ RankInv'
    BY <1>1, TypesNext, RankNext DEF DInv
  <2>2. /\ pc = "State7" /\ d \in DOMAIN Buffer /\ d \notin DOMAIN Buffer'
        /\ e \in DOMAIN Buffer' /\ Buffer'[e].pri # 0
    BY <1>1 DEF Evicted, Ranked
  <2>3. State7
    <3>1. ~UNCHANGED Buffer BY <2>2
    <3> QED BY <1>1, <2>2, <3>1
            DEF Next, Main, vars, buffer, State5User, State5Server, State5Broker,
                State5Again, State6, State8, State9, State10, State11, api_sendData,
                BrokerPri, BrokerPermit, BrokerUpdate, ServerAck, LinkBreaks
  <2>4. ~NotFound(Head(broker_recvqueue).data)
    BY <2>2, <2>3, State7Missed
  <2>5. /\ Buffer' = [x \in DOMAIN Rated \ DataOf(Given) |-> Rated[x]]
        /\ bufferRemoveQueue' = Offered \ Given
        /\ DOMAIN Rated = DOMAIN Buffer /\ Offered \subseteq Entry
    BY <2>1, <2>2, <2>3, <2>4, State7Found, RatedTypes
  <2>6. PICK y \in Given : y.data = d BY <2>2, <2>5 DEF DataOf
  <2>7. PICK z : z = [data |-> e, pri |-> Buffer'[e].pri]
    OBVIOUS
  <2>8. z \in Offered \ Given /\ Buffer'[e].pri = given'[e]
    BY <2>1, <2>2, <2>5, <2>7 DEF RankInv
  <2>9. ~PopsFirst(z, y) BY <2>1, <2>2, <2>4, <2>8, PopsInOrder
  <2>10. y \in Offered BY DEF Given, removeBufferData
  <2>11. y.pri = given[d] BY <2>1, <2>2, <2>4, <2>6, <2>10, OfferedRank
  <2>12. y.pri \in Int /\ y.data \in Int /\ z.pri \in Int /\ z.data \in Int
    BY <2>5, <2>8, <2>10, EntryNumbers
  <2>13. z.data = e /\ z.pri = Buffer'[e].pri /\ e # d BY <2>2, <2>7
  <2> QED BY <2>6, <2>9, <2>11, <2>12, <2>13 DEF PopsFirst
<1>2. DInv /\ [Next]_vars => [Ordered]_vars BY <1>1
<1> QED BY <1>2, DeviceInvariant, PTL DEF Spec, EvictedLeastUrgent

-----------------------------------------------------------------------------
(* The size of data.                                                       *)

\* A set of natural numbers has a least one.
LEMMA LeastNat ==
  ASSUME NEW T, T \subseteq Nat, T # {}
  PROVE  \E x \in T : \A y \in T : x <= y
<1>1. IsWellFoundedOn(OpToRel(<, Nat), Nat) BY NatLessThanWellFounded
<1>2. PICK x \in T : \A y \in T : ~(<<y, x>> \in OpToRel(<, Nat)) BY <1>1, WFMin
<1>3. \A y \in T : ~(y < x) BY <1>2 DEF OpToRel
<1> QED BY <1>3

\* Induction, over the set of the numbers a formula holds of.
LEMMA NatInd ==
  ASSUME NEW P, 0 \in P, \A n \in Nat : n \in P => n + 1 \in P
  PROVE Nat \subseteq P
<1> DEFINE T == Nat \ P
<1> SUFFICES ASSUME T # {} PROVE FALSE
  OBVIOUS
<1>1. PICK x \in T : \A y \in T : x <= y BY LeastNat
<1>2. x # 0 /\ x - 1 \in Nat BY <1>1
<1>3. x - 1 \in P BY <1>1, <1>2
<1>4. (x - 1) + 1 \in P BY <1>2, <1>3
<1>5. (x - 1) + 1 = x OBVIOUS
<1> QED BY <1>4, <1>5

\* Among the subsets of a finite set there is one that is no longer among them with
\* any of its elements removed: induction over finite sets, again without a formula.
LEMMA SmallestSet ==
  ASSUME NEW S, IsFiniteSet(S), NEW Q, Q \subseteq SUBSET S, Q # {}
  PROVE  \E s \in Q : \A x \in s : s \ {x} \notin Q
<1> DEFINE T == {Cardinality(s) : s \in Q}
<1>1. \A s \in Q : IsFiniteSet(s) /\ Cardinality(s) \in Nat
  BY FS_Subset, FS_CardinalityType
<1>2. T \subseteq Nat /\ T # {} BY <1>1
<1>3. PICK n \in T : \A m \in T : n <= m
  BY <1>2, LeastNat
<1>4. PICK s \in Q : n = Cardinality(s)
  OBVIOUS
<1>5. ASSUME NEW x \in s, s \ {x} \in Q
      PROVE  FALSE
  <2>1. Cardinality(s \ {x}) = n - 1 BY <1>1, <1>4, FS_RemoveElement
  <2>2. n <= n - 1 BY <1>3, <1>5, <2>1
  <2> QED BY <2>2, <1>1, <1>4
<1> QED BY <1>5

\* The function SizeOf is defined by, over a set D of sets of data.
Chosen(s) == CHOOSE y \in s : TRUE
Iter(b, D, g) == g = [s \in D |-> IF s = {} THEN 0
                                 ELSE b[Chosen(s)].size + g[s \ {Chosen(s)}]]

\* The function SizeOf is defined by exists: by induction on the sizes of the sets it
\* is given for.
LEMMA IterExists ==
  ASSUME NEW S, IsFiniteSet(S), NEW b
  PROVE  \E g : Iter(b, SUBSET S, g)
<1> DEFINE Upto(n) == {s \in SUBSET S : Cardinality(s) <= n}
           P == {n \in Nat : \E g : Iter(b, Upto(n), g)}
<1>1. \A s \in SUBSET S : IsFiniteSet(s) /\ Cardinality(s) \in Nat
  BY FS_Subset, FS_CardinalityType
<1>2. ASSUME NEW s \in SUBSET S, s # {}
      PROVE  s \ {Chosen(s)} \in SUBSET S /\ Cardinality(s \ {Chosen(s)}) = Cardinality(s) - 1
  <2>1. Chosen(s) \in s BY <1>2 DEF Chosen
  <2> QED BY <1>1, <2>1, FS_RemoveElement
<1>3. 0 \in P
  <2>1. \A s \in Upto(0) : s = {} BY <1>1, FS_EmptySet
  <2>2. Iter(b, Upto(0), [s \in Upto(0) |-> 0]) BY <2>1 DEF Iter
  <2> QED BY <2>2
<1>4. ASSUME NEW n \in Nat, n \in P
      PROVE  n + 1 \in P
  <2>1. PICK f : Iter(b, Upto(n), f)
    BY <1>4
  <2> DEFINE g == [s \in Upto(n + 1) |-> IF s = {} THEN 0
                                 ELSE b[Chosen(s)].size + f[s \ {Chosen(s)}]]
  <2>2. \A s \in Upto(n + 1) : s # {} => s \ {Chosen(s)} \in Upto(n) BY <1>1, <1>2
  <2>3. \A s \in Upto(n) : s \in Upto(n + 1) BY <1>1
  <2>4. \A s \in Upto(n) : f[s] = IF s = {} THEN 0
                                 ELSE b[Chosen(s)].size + f[s \ {Chosen(s)}]
    BY <2>1 DEF Iter
  <2>5. \A s \in Upto(n) : g[s] = f[s] BY <2>3, <2>4
  <2>6. \A s \in Upto(n + 1) : g[s] = IF s = {} THEN 0
                                 ELSE b[Chosen(s)].size + g[s \ {Chosen(s)}]
    BY <2>2, <2>5
  <2>7. g = [s \in Upto(n + 1) |-> g[s]] OBVIOUS
  <2> HIDE DEF g
  <2>8. Iter(b, Upto(n + 1), g) BY <2>6, <2>7 DEF Iter
  <2> QED BY <2>8
<1>5. Cardinality(S) \in P
  <2>1. Nat \subseteq P BY <1>3, <1>4, NatInd
  <2> QED BY <1>1, <2>1
<1>6. Upto(Cardinality(S)) = SUBSET S BY FS_Subset
<1> QED BY <1>5, <1>6

\* SizeOf is that function, at the set it is given.
LEMMA SizeOfIter ==
  ASSUME NEW S, IsFiniteSet(S), NEW b
  PROVE  \E g : Iter(b, SUBSET S, g) /\ SizeOf(b, S) = g[S]
<1>1. SizeOf(b, S) = (CHOOSE g : Iter(b, SUBSET S, g))[S]
  BY DEF MapThenSumSet, MapThenFoldSet, SizeOf, Iter, Chosen
<1> QED BY <1>1, IterExists

\* It does not depend on the set it is defined over, nor on more of the buffer than
\* the sizes.
LEMMA IterAgree ==
  ASSUME NEW S, IsFiniteSet(S), NEW T \in SUBSET S, NEW b, NEW c, NEW f, NEW g,
         Iter(b, SUBSET S, f), Iter(c, SUBSET T, g),
         \A d \in T : b[d].size = c[d].size
  PROVE  f[T] = g[T]
<1> DEFINE Q == {s \in SUBSET T : f[s] # g[s]}
<1> SUFFICES ASSUME Q # {} PROVE FALSE
  OBVIOUS
<1>1. IsFiniteSet(T) BY FS_Subset
<1>2. PICK s \in Q : \A x \in s : s \ {x} \notin Q
  BY <1>1, SmallestSet, Zenon
<1>3. s \in SUBSET S /\ s \in SUBSET T OBVIOUS
<1>4. /\ f[s] = IF s = {} THEN 0 ELSE b[Chosen(s)].size + f[s \ {Chosen(s)}]
      /\ g[s] = IF s = {} THEN 0 ELSE c[Chosen(s)].size + g[s \ {Chosen(s)}]
  BY <1>3 DEF Iter
<1>5. s # {} BY <1>4
<1>6. Chosen(s) \in s BY <1>5 DEF Chosen
<1>7. f[s \ {Chosen(s)}] = g[s \ {Chosen(s)}] BY <1>2, <1>3, <1>6
<1> QED BY <1>3, <1>4, <1>5, <1>6, <1>7

\* Buffers with the same sizes have the same size.
LEMMA SizeOfSame ==
  ASSUME NEW S, IsFiniteSet(S), NEW b, NEW c, \A d \in S : b[d].size = c[d].size
  PROVE  SizeOf(b, S) = SizeOf(c, S)
<1>1. PICK f : Iter(b, SUBSET S, f) /\ SizeOf(b, S) = f[S]
  BY SizeOfIter
<1>2. PICK g : Iter(c, SUBSET S, g) /\ SizeOf(c, S) = g[S]
  BY SizeOfIter
<1> QED BY <1>1, <1>2, IterAgree

\* No data have no size.
LEMMA SizeOfEmpty ==
  ASSUME NEW b
  PROVE  SizeOf(b, {}) = 0
<1>1. PICK g : Iter(b, SUBSET {}, g) /\ SizeOf(b, {}) = g[{}]
  BY FS_EmptySet, SizeOfIter
<1> QED BY <1>1 DEF Iter

\* The size of the data is that of the one which is taken first and of the others, ...
LEMMA SizeOfChosen ==
  ASSUME NEW S, IsFiniteSet(S), S # {}, NEW b
  PROVE  /\ Chosen(S) \in S
         /\ SizeOf(b, S) = b[Chosen(S)].size + SizeOf(b, S \ {Chosen(S)})
<1> DEFINE T == S \ {Chosen(S)}
<1>1. Chosen(S) \in S BY DEF Chosen
<1>2. PICK f : Iter(b, SUBSET S, f) /\ SizeOf(b, S) = f[S]
  BY SizeOfIter
<1>3. IsFiniteSet(T) BY FS_Subset
<1>4. PICK g : Iter(b, SUBSET T, g) /\ SizeOf(b, T) = g[T]
  BY <1>3, SizeOfIter
<1> HIDE DEF T
<1>5. f[T] = g[T]
  <2>1. T \in SUBSET S BY DEF T
  <2> QED BY <1>2, <1>4, <2>1, IterAgree, Z3
<1>6. f[S] = b[Chosen(S)].size + f[T] BY <1>2 DEF Iter, T
<1> QED BY <1>1, <1>2, <1>4, <1>5, <1>6 DEF T

\* ... a number, ...
LEMMA SizeOfType ==
  ASSUME NEW S, IsFiniteSet(S), NEW b, \A d \in S : b[d].size \in Nat
  PROVE  SizeOf(b, S) \in Nat
<1> DEFINE Q == {s \in SUBSET S : SizeOf(b, s) \notin Nat}
<1> SUFFICES ASSUME Q # {} PROVE FALSE
  OBVIOUS
<1>1. PICK s \in Q : \A x \in s : s \ {x} \notin Q
  BY SmallestSet, Zenon
<1>2. s # {} BY SizeOfEmpty
<1>3. IsFiniteSet(s) BY FS_Subset
<1>4. Chosen(s) \in s /\ SizeOf(b, s) = b[Chosen(s)].size + SizeOf(b, s \ {Chosen(s)})
  BY <1>2, <1>3, SizeOfChosen
<1>5. SizeOf(b, s \ {Chosen(s)}) \in Nat BY <1>1, <1>4
<1> QED BY <1>4, <1>5

\* ... and so of any of them and the others.
LEMMA SizeOfElement ==
  ASSUME NEW S, IsFiniteSet(S), NEW b, \A d \in S : b[d].size \in Nat, NEW x \in S
  PROVE  SizeOf(b, S) = b[x].size + SizeOf(b, S \ {x})
<1> DEFINE Q == {s \in SUBSET S : \E y \in s :
                    SizeOf(b, s) # b[y].size + SizeOf(b, s \ {y})}
<1> SUFFICES ASSUME Q # {} PROVE FALSE
  OBVIOUS
<1>1. PICK s \in Q : \A y \in s : s \ {y} \notin Q
  BY SmallestSet, Zenon
<1>2. PICK y \in s : SizeOf(b, s) # b[y].size + SizeOf(b, s \ {y})
  OBVIOUS
<1>3. IsFiniteSet(s) /\ s # {} /\ s \in SUBSET S BY FS_Subset
<1>4. PICK c \in s : SizeOf(b, s) = b[c].size + SizeOf(b, s \ {c})
  BY <1>3, SizeOfChosen
<1>5. c # y BY <1>2, <1>4
<1>6. SizeOf(b, s \ {c}) = b[y].size + SizeOf(b, (s \ {c}) \ {y}) BY <1>1, <1>3, <1>5
<1>7. SizeOf(b, s \ {y}) = b[c].size + SizeOf(b, (s \ {y}) \ {c}) BY <1>1, <1>3, <1>5
<1>8. (s \ {y}) \ {c} = (s \ {c}) \ {y} OBVIOUS
<1>9. SizeOf(b, (s \ {c}) \ {y}) \in Nat
  <2>1. IsFiniteSet((s \ {c}) \ {y}) BY <1>3, FS_Subset
  <2> QED BY <1>3, <2>1, SizeOfType
<1>10. b[c].size \in Nat /\ b[y].size \in Nat BY <1>3
<1>11. \A i, j, k \in Nat : i + (j + k) = j + (i + k) OBVIOUS
<1>12. SizeOf(b, s) = b[y].size + (b[c].size + SizeOf(b, (s \ {c}) \ {y}))
  BY <1>4, <1>6, <1>9, <1>10, <1>11
<1> QED BY <1>2, <1>7, <1>8, <1>12

\* The size of the data is that of some of them and of the others.
LEMMA SizeOfSplit ==
  ASSUME NEW S, IsFiniteSet(S), NEW b, \A d \in S : b[d].size \in Nat, NEW A \in SUBSET S
  PROVE  /\ SizeOf(b, S) = SizeOf(b, A) + SizeOf(b, S \ A)
         /\ SizeOf(b, S) \in Nat /\ SizeOf(b, A) \in Nat /\ SizeOf(b, S \ A) \in Nat
<1> DEFINE Q == {s \in SUBSET A : SizeOf(b, (S \ A) \cup s) # SizeOf(b, s) + SizeOf(b, S \ A)}
<1>1. IsFiniteSet(A) /\ IsFiniteSet(S \ A) BY FS_Subset
<1>2. SizeOf(b, S) \in Nat /\ SizeOf(b, A) \in Nat /\ SizeOf(b, S \ A) \in Nat
  BY <1>1, SizeOfType
<1>3. ASSUME Q # {}
      PROVE  FALSE
  <2>1. PICK s \in Q : \A x \in s : s \ {x} \notin Q
    BY <1>1, <1>3, SmallestSet, Zenon
  <2> DEFINE t == (S \ A) \cup s
  <2>2. s \in SUBSET A /\ SizeOf(b, t) # SizeOf(b, s) + SizeOf(b, S \ A) OBVIOUS
  <2>3. s # {}
    <3> SUFFICES ASSUME s = {} PROVE FALSE
      OBVIOUS
    <3>1. t = S \ A OBVIOUS
    <3> QED BY <1>2, <2>2, <3>1, SizeOfEmpty
  <2>4. PICK x : x \in s
    BY <2>3
  <2>5. IsFiniteSet(s) /\ IsFiniteSet(t) /\ IsFiniteSet(s \ {x})
    BY <1>1, <2>2, FS_Subset
  <2>6. SizeOf(b, s) = b[x].size + SizeOf(b, s \ {x}) BY <2>2, <2>4, <2>5, SizeOfElement
  <2>7. SizeOf(b, t) = b[x].size + SizeOf(b, t \ {x})
    <3>1. x \in t /\ \A d \in t : b[d].size \in Nat BY <2>2, <2>4
    <3> QED BY <2>5, <3>1, SizeOfElement
  <2>8. t \ {x} = (S \ A) \cup (s \ {x}) BY <2>2, <2>4
  <2>9. SizeOf(b, (S \ A) \cup (s \ {x})) = SizeOf(b, s \ {x}) + SizeOf(b, S \ A)
    BY <2>1, <2>2, <2>4
  <2>10. SizeOf(b, s \ {x}) \in Nat /\ b[x].size \in Nat BY <2>2, <2>4, <2>5, SizeOfType
  <2>11. \A i, j, k \in Nat : i + (j + k) = (i + j) + k OBVIOUS
  <2>12. SizeOf(b, t) = b[x].size + (SizeOf(b, s \ {x}) + SizeOf(b, S \ A))
    BY <2>7, <2>8, <2>9
  <2>13. SizeOf(b, t) = SizeOf(b, s) + SizeOf(b, S \ A)
    BY <1>2, <2>6, <2>10, <2>11, <2>12
  <2> QED BY <2>2, <2>13
<1>4. (S \ A) \cup A = S OBVIOUS
<1> QED BY <1>2, <1>3, <1>4

-----------------------------------------------------------------------------
(* What State 7 removes.                                                   *)

\* Of any entries of the queue there is one that is popped first: no two are of one
\* datum, and of the data there are finitely many.
LEMMA FirstOffered ==
  ASSUME Types, RankInv, pc = "State7", ~NotFound(Head(broker_recvqueue).data),
         NEW Z, Z \subseteq Offered, Z # {}
  PROVE  \E m \in Z : \A x \in Z : ~PopsFirst(x, m)
<1> DEFINE Upto(z) == {x.data : x \in {y \in Z : y = z \/ PopsFirst(y, z)}}
           T == {Cardinality(Upto(z)) : z \in Z}
<1>1. \A x \in Z : x.data \in ID /\ x.data \in Int /\ x.pri \in Int /\ x.pri = given[x.data]
  BY OfferedRank
<1>2. \A x, y \in Z : x.data = y.data => x = y
  <2>1. Offered \subseteq Entry BY RatedTypes
  <2> QED BY <1>1, <2>1 DEF Entry
<1>3. \A z \in Z : IsFiniteSet(Upto(z)) /\ Cardinality(Upto(z)) \in Nat
  <2>1. IsFiniteSet(ID) BY DeviceAssumption, FS_Interval DEF ID
  <2>2. \A z \in Z : Upto(z) \in SUBSET ID BY <1>1
  <2> HIDE DEF Upto
  <2> QED BY <2>1, <2>2, FS_Subset, FS_CardinalityType
<1>4. T \subseteq Nat /\ T # {} BY <1>3
<1>5. PICK n \in T : \A k \in T : n <= k
  <2> HIDE DEF T
  <2> QED BY <1>4, LeastNat
<1>6. PICK m \in Z : n = Cardinality(Upto(m))
  OBVIOUS
<1>7. ASSUME NEW x \in Z, PopsFirst(x, m)
      PROVE  FALSE
  <2>1. Upto(x) \subseteq Upto(m)
    <3>1. \A y \in Z : y = x \/ PopsFirst(y, x) => PopsFirst(y, m)
      BY <1>1, <1>7 DEF PopsFirst
    <3> QED BY <3>1
  <2>2. m.data \in Upto(m) OBVIOUS
  <2>3. m.data \notin Upto(x)
    <3>1. \A y \in Z : y = x \/ PopsFirst(y, x) => y # m BY <1>1, <1>7 DEF PopsFirst
    <3> QED BY <1>2, <3>1
  <2>4. Cardinality(Upto(x)) \in T OBVIOUS
  <2> HIDE DEF Upto, T
  <2>5. n <= Cardinality(Upto(x)) BY <1>5, <2>4
  <2>6. Cardinality(Upto(x)) <= Cardinality(Upto(m)) BY <1>3, <2>1, FS_Subset
  <2>7. Cardinality(Upto(x)) = Cardinality(Upto(m)) BY <1>3, <1>6, <2>5, <2>6
  <2> QED BY <1>3, <2>1, <2>2, <2>3, <2>7, FS_Subset
<1> QED BY <1>7

\* State 7 finds the size of all that is buffered.
LEMMA RatedSizes ==
  ASSUME Types, pc = "State7", ~NotFound(Head(broker_recvqueue).data)
  PROVE  /\ IsFiniteSet(DOMAIN Rated)
         /\ \A d \in DOMAIN Rated : Rated[d].size \in Nat
<1>1. DOMAIN Rated \in SUBSET ID BY RatedTypes, BufferedIsID
<1>2. IsFiniteSet(ID) BY DeviceAssumption, FS_Interval DEF ID
<1>3. \A d \in DOMAIN Rated : Rated[d] \in Item BY RatedTypes
<1>4. \A i \in Item : i.size \in Nat BY DeviceAssumption DEF Item
<1> QED BY <1>1, <1>2, <1>3, <1>4, FS_Subset

\* Popping more removes no less, and what is not removed is left.
LEMMA RemovedGrows ==
  ASSUME Types, pc = "State7", ~NotFound(Head(broker_recvqueue).data),
         NEW G, NEW F, F \subseteq G
  PROVE  /\ Removed(Rated, F) \in Nat /\ Removed(Rated, G) \in Nat
         /\ Removed(Rated, F) <= Removed(Rated, G)
         /\ calcBufferSize(Rated) \in Nat
         /\ SizeOf(Rated, DOMAIN Rated \ DataOf(G)) \in Nat
         /\ calcBufferSize(Rated)
              = Removed(Rated, G) + SizeOf(Rated, DOMAIN Rated \ DataOf(G))
<1> DEFINE D == DOMAIN Rated
           A == D \cap DataOf(G)
           E == D \cap DataOf(F)
<1>1. IsFiniteSet(D) /\ \A d \in D : Rated[d].size \in Nat BY RatedSizes
<1>2. A \in SUBSET D /\ D \ A = D \ DataOf(G) OBVIOUS
<1>3. E \in SUBSET A BY DEF DataOf
<1>4. /\ SizeOf(Rated, D) = SizeOf(Rated, A) + SizeOf(Rated, D \ A)
      /\ SizeOf(Rated, D) \in Nat /\ SizeOf(Rated, A) \in Nat /\ SizeOf(Rated, D \ A) \in Nat
  <2> HIDE DEF A, D
  <2> QED BY <1>1, <1>2, SizeOfSplit
<1>5. /\ SizeOf(Rated, A) = SizeOf(Rated, E) + SizeOf(Rated, A \ E)
      /\ SizeOf(Rated, E) \in Nat /\ SizeOf(Rated, A \ E) \in Nat
  <2>1. IsFiniteSet(A) /\ \A d \in A : Rated[d].size \in Nat BY <1>1, <1>2, FS_Subset
  <2> HIDE DEF A, D, E
  <2> QED BY <1>3, <2>1, SizeOfSplit
<1>6. /\ Removed(Rated, F) = SizeOf(Rated, E) /\ Removed(Rated, G) = SizeOf(Rated, A)
      /\ calcBufferSize(Rated) = SizeOf(Rated, D)
      /\ SizeOf(Rated, DOMAIN Rated \ DataOf(G)) = SizeOf(Rated, D \ A)
  BY <1>2 DEF Removed, calcBufferSize
<1> HIDE DEF A, D, E
<1> QED BY <1>4, <1>5, <1>6

\* If what is popped is less than what is too much, the queue has been emptied: the
\* first entry that would not be popped comes after enough of them.
LEMMA AllRemoved ==
  ASSUME Types, RankInv, pc = "State7", ~NotFound(Head(broker_recvqueue).data),
         Removed(Rated, Given) < Excess(Rated)
  PROVE  Given = Offered
<1> DEFINE Before(z) == {x \in Offered : PopsFirst(x, z)}
           Z == {z \in Offered : ~(Removed(Rated, Before(z)) < Excess(Rated))}
<1>1. Given \subseteq Offered BY DEF Given, removeBufferData
<1>2. \A y \in Offered : y \in Given <=>
        \A z \in Offered : z = y \/ PopsFirst(z, y) => z \notin Z
  BY DEF Given, removeBufferData
<1>3. ASSUME Z # {}
      PROVE  FALSE
  <2>1. PICK m \in Z : \A x \in Z : ~PopsFirst(x, m)
    <3>1. Z \subseteq Offered OBVIOUS
    <3> HIDE DEF Z
    <3> QED BY <1>3, <3>1, FirstOffered
  <2>2. m \in Offered /\ ~(Removed(Rated, Before(m)) < Excess(Rated)) OBVIOUS
  <2>3. \A x \in Before(m) : x \in Given
    <3> SUFFICES ASSUME NEW x \in Before(m), NEW z \in Offered, z = x \/ PopsFirst(z, x)
                 PROVE  z \notin Z
      BY <1>2
    <3>1. PopsFirst(z, m)
      <4>1. /\ x.data \in Int /\ x.pri \in Int /\ z.data \in Int /\ z.pri \in Int
            /\ m.data \in Int /\ m.pri \in Int
        BY <2>2, OfferedRank
      <4>2. PopsFirst(x, m) OBVIOUS
      <4> QED BY <4>1, <4>2 DEF PopsFirst
    <3> HIDE DEF Z
    <3> QED BY <2>1, <3>1
  <2> HIDE DEF Before
  <2>4. /\ Removed(Rated, Before(m)) \in Nat /\ Removed(Rated, Given) \in Nat
        /\ Removed(Rated, Before(m)) <= Removed(Rated, Given)
    <3>1. Before(m) \subseteq Given BY <2>3
    <3> QED BY <3>1, RemovedGrows
  <2>5. Excess(Rated) \in Int
    <3>1. calcBufferSize(Rated) \in Nat BY RemovedGrows
    <3> QED BY <3>1, DeviceAssumption DEF Excess
  <2> QED BY <2>2, <2>4, <2>5
<1> HIDE DEF Z
<1> QED BY <1>1, <1>2, <1>3

\* What the cut of the difference loses is less than one.
LEMMA Tenths ==
  ASSUME NEW k \in Int
  PROVE  k \div 10 \in Int /\ 10 * (k \div 10) <= k /\ k < 10 * (k \div 10) + 10
OBVIOUS

\* State 7 brings the buffer to four fifths and never pops an empty queue, if the data
\* without a priority leave room for it: otherwise the queue would have been emptied, and
\* they alone would be left.
THEOREM RoomMadeCorrect == Spec => RoomMade
<1> DEFINE Room == (/\ pc = "State7" /\ pc' = "State5"
                    /\ ~NotFound(Head(broker_recvqueue).data)
                    /\ 10 * SizeOf(Buffer', Unranked(Buffer')) <= 8 * Buffersize)
                   => /\ ~undefined'
                      /\ 10 * calcBufferSize(Buffer') < 8 * Buffersize + 10
<1>1. ASSUME DInv, [Next]_vars, pc = "State7", pc' = "State5",
             ~NotFound(Head(broker_recvqueue).data),
             10 * SizeOf(Buffer', Unranked(Buffer')) <= 8 * Buffersize
      PROVE  ~undefined' /\ 10 * calcBufferSize(Buffer') < 8 * Buffersize + 10
  <2>1. Types /\ RankInv /\ RankInv' BY <1>1, RankNext DEF DInv
  <2>2. State7
    <3>1. ~UNCHANGED pc BY <1>1
    <3> QED BY <1>1, <3>1
            DEF Next, Main, vars, buffer, State5User, State5Server, State5Broker,
                State5Again, State6, State8, State9, State10, State11, api_sendData,
                BrokerPri, BrokerPermit, BrokerUpdate, ServerAck, LinkBreaks
  <2>3. /\ Buffer' = [e \in DOMAIN Rated \ DataOf(Given) |-> Rated[e]]
        /\ bufferRemoveQueue' = Offered \ Given
        /\ undefined' = (Removed(Rated, Given) < Excess(Rated))
    BY <1>1, <2>2, State7Found
  <2>4. calcBufferSize(Buffer') = SizeOf(Rated, DOMAIN Buffer')
    <3>1. DOMAIN Buffer' \in SUBSET DOMAIN Rated
          /\ \A d \in DOMAIN Buffer' : Buffer'[d].size = Rated[d].size
      BY <2>3
    <3>2. IsFiniteSet(DOMAIN Buffer') BY <1>1, <2>1, <3>1, RatedSizes, FS_Subset
    <3> QED BY <3>1, <3>2, SizeOfSame DEF calcBufferSize
  <2> DEFINE C == calcBufferSize(Rated)
             R == Removed(Rated, Given)
             S == calcBufferSize(Buffer')
  <2>5. C \in Nat /\ R \in Nat /\ S \in Nat /\ C = R + S
    <3>1. DOMAIN Buffer' = DOMAIN Rated \ DataOf(Given) BY <2>3
    <3> QED BY <1>1, <2>1, <2>4, <3>1, RemovedGrows
  <2>6. /\ Excess(Rated) \in Int
        /\ 10 * Excess(Rated) <= 10 * C - 8 * Buffersize
        /\ 10 * C - 8 * Buffersize < 10 * Excess(Rated) + 10
    <3>1. 10 * C - 8 * Buffersize \in Int BY <2>5, DeviceAssumption
    <3> QED BY <3>1, Tenths DEF Excess
  <2>7. ~(R < Excess(Rated))
    <3> SUFFICES ASSUME R < Excess(Rated) PROVE FALSE
      OBVIOUS
    <3>1. bufferRemoveQueue' = {} BY <1>1, <2>1, <2>3, AllRemoved
    <3>2. Unranked(Buffer') = DOMAIN Buffer' BY <2>1, <3>1 DEF RankInv, Unranked, Ranked
    <3>3. 10 * S <= 8 * Buffersize BY <1>1, <3>2 DEF calcBufferSize
    <3> HIDE DEF C, R, S
    <3> QED BY <2>5, <2>6, <3>3, DeviceAssumption
  <2>8. 10 * S < 8 * Buffersize + 10
    <3> HIDE DEF C, R, S
    <3> QED BY <2>5, <2>6, <2>7, DeviceAssumption
  <2> QED BY <2>3, <2>7, <2>8
<1>2. DInv /\ [Next]_vars => [Room]_vars BY <1>1
<1> QED BY <1>2, DeviceInvariant, PTL DEF Spec, RoomMade

=============================================================================
