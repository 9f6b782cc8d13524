------------------------------- MODULE Device -------------------------------
(***************************************************************************)
(* The main thread of an IoT device and the buffer that holds its data     *)
(* until the server has acknowledged them.                                 *)
(*                                                                         *)
(* The user's data wait in DeviceDataqueue.  State 6 gives the next one an *)
(* ID, buffers it and announces it to the broker (META); State 7 takes the *)
(* broker's answer, the priority (PRI), and evicts from the buffer what is *)
(* too much; State 8 sends the datum when the broker permits it (PERMIT);  *)
(* State 9 takes the server's acknowledgement and tells the broker         *)
(* (COMPLETE).  What the sending session does with a STOP or a RESTART is  *)
(* in Transfer, how the broker decides in BrokerScheduler, how the link is *)
(* renewed in Sessions: of the broker and the server this module keeps     *)
(* which messages they may send.                                           *)
(***************************************************************************)
EXTENDS Integers, FiniteSetsExt, SequencesExt

CONSTANTS
  Sizes,       \* the sizes of data
  Priorities,  \* the priorities the broker gives; a small number is urgent
  Buffersize,  \* the size of the buffer; the code has 32 MB
  MaxEvents    \* bound: data the user sends, UPDATE messages the broker sends and
               \* times the broker's link breaks, together

ASSUME DeviceAssumption ==
  /\ Sizes \subseteq Nat \ {0} /\ Priorities \subseteq Nat
  /\ Buffersize \in Nat /\ MaxEvents \in Nat

VARIABLES
  pc,                 \* the state of the main thread, or what State 5 looks at next
  DeviceDataqueue,    \* the sizes of what the user sent
  DataID,             \* the next ID
  Buffer,             \* Buffer[d], for buffered d: its size and priority
  bufferRemoveQueue,  \* what may be evicted: the set of its entries, no two of one datum
  broker_recvqueue, server_recvqueue,
  link,               \* the link to the broker is up
  undefined,          \* top() has been called on an empty queue
  \* the broker and the server
  announced,          \* the METAs that reached the broker, unanswered
  ranked,             \* answered with a PRI, not yet permitted
  inTransit,          \* what the server has not acknowledged
  events,             \* counts what MaxEvents bounds
  \* history
  given,              \* given[d]: the priority in the PRI for d, 0 if none
  asked,              \* the data State 8 took a PERMIT for
  completes,          \* completes[d]: the COMPLETEs sent for d, received or not
  lost                \* the data of which a message to or from the broker was lost

buffer  == <<DeviceDataqueue, DataID, Buffer, bufferRemoveQueue, undefined>>
queues  == <<broker_recvqueue, server_recvqueue>>
outside == <<announced, ranked, inTransit>>
history == <<given, asked, completes, lost>>
vars == <<pc, buffer, queues, link, outside, events, history>>

-----------------------------------------------------------------------------
ID == 1..MaxEvents

\* br_send for datum d: delivered; or lost with the link, which is noticed when
\* the write fails and then renewed, unless the caller does not care.
Delivered(d) == link /\ UNCHANGED <<link, lost>>
Lost(d, retries) ==
  /\ ~link /\ lost' = lost \cup {d}
  /\ link' \in IF retries THEN BOOLEAN ELSE {FALSE}

Goto(s) == pc' = s

-----------------------------------------------------------------------------
(* State 5 looks at the user's queue, the server's and the broker's, in     *)
(* turn; what arrives meanwhile in one it has looked at waits.              *)

State5User ==
  /\ pc = "State5"
  /\ Goto(IF DeviceDataqueue # <<>> THEN "State6" ELSE "server")
  /\ UNCHANGED <<buffer, queues, link, outside, events, history>>

State5Server ==
  /\ pc = "server"
  /\ Goto(IF server_recvqueue # <<>> THEN "State9" ELSE "broker")
  /\ UNCHANGED <<buffer, queues, link, outside, events, history>>

StateOf == [PRI |-> "State7", PERMIT |-> "State8", UPDATE |-> "State10"]

State5Broker ==
  /\ pc = "broker"
  /\ Goto(IF broker_recvqueue # <<>> THEN StateOf[Head(broker_recvqueue).type]
          ELSE "again")
  /\ UNCHANGED <<buffer, queues, link, outside, events, history>>

\* The server's queue once more; then, when 60 seconds have passed, State 11.
State5Again ==
  /\ pc = "again"
  /\ IF server_recvqueue # <<>> THEN Goto("State9")
     ELSE pc' \in {"State5", "State11"}
  /\ UNCHANGED <<buffer, queues, link, outside, events, history>>

-----------------------------------------------------------------------------
\* getDataID counts.
SameID == DataID  \* mutant of NextID: not counted
NextID == DataID + 1

\* State 6: a META that is not sent is not sent again.
State6 ==
  /\ pc = "State6"
  /\ DeviceDataqueue' = Tail(DeviceDataqueue)
  /\ Buffer' = [d \in DOMAIN Buffer \cup {DataID} |->
                  IF d = DataID THEN [size |-> Head(DeviceDataqueue), pri |-> 0]
                  ELSE Buffer[d]]
  /\ DataID' = NextID
  /\ \/ Delivered(DataID) /\ announced' = Append(announced, DataID)
     \/ Lost(DataID, TRUE) /\ UNCHANGED announced
  /\ Goto("State5")
  /\ UNCHANGED <<bufferRemoveQueue, undefined, queues, ranked, inTransit,
                 events, given, asked, completes>>

-----------------------------------------------------------------------------
(* State 7: the buffer is kept at four fifths.                             *)

SizeOf(b, ds) == MapThenSumSet(LAMBDA d : b[d].size, ds)
calcBufferSize(b) == SizeOf(b, DOMAIN b)

\* What is too much: the difference is cut to an integer.
Excess(b) == (10 * calcBufferSize(b) - 8 * Buffersize) \div 10

\* The order in which bufferRemoveQueue pops x and y: the greatest number first, then
\* the earliest, which has the smaller ID: the broker answers in order.
SmallestFirst(x, y) ==  \* mutant of PopsFirst: the comparison of the broker's queue
  x.pri < y.pri \/ (x.pri = y.pri /\ x.data < y.data)
PopsFirst(x, y) ==
  x.pri > y.pri \/ (x.pri = y.pri /\ x.data < y.data)

\* The size of what popping qs removes: those of its data that are still buffered.
DataOf(qs) == {x.data : x \in qs}
Removed(b, qs) == SizeOf(b, DOMAIN b \cap DataOf(qs))

\* The loop of removeBufferData pops y if, at y and at every entry before it, what had
\* been removed was less than sub.
removeBufferData(b, q, sub) ==
  {y \in q : \A z \in q :
     z = y \/ PopsFirst(z, y) => Removed(b, {x \in q : PopsFirst(x, z)}) < sub}

\* putRemoveQueue comes before the buffer is looked at.
PutLater(q, x) == q  \* mutant of PutBefore: the datum itself cannot be evicted
PutBefore(q, x) == q \cup {x}

NotFound(d) == d \notin DOMAIN Buffer

\* setPriority.
NoPriority(d, p) == Buffer  \* mutant of WithPriority
WithPriority(d, p) == [Buffer EXCEPT ![d].pri = p]

State7 ==
  /\ pc = "State7"
  /\ broker_recvqueue' = Tail(broker_recvqueue)
  /\ LET d == Head(broker_recvqueue).data
         p == Head(broker_recvqueue).pri
     IN  \/ /\ NotFound(d)
            /\ UNCHANGED <<Buffer, bufferRemoveQueue, undefined>>
         \/ /\ ~NotFound(d)
            /\ LET b == WithPriority(d, p)
                   q == PutBefore(bufferRemoveQueue, [data |-> d, pri |-> p])
                   gone == removeBufferData(b, q, Excess(b))
               IN  /\ Buffer' = [e \in DOMAIN b \ DataOf(gone) |-> b[e]]
                   /\ bufferRemoveQueue' = q \ gone
                   /\ undefined' = (Removed(b, gone) < Excess(b))
  /\ Goto("State5")
  /\ UNCHANGED <<DeviceDataqueue, DataID, server_recvqueue, link, outside, events,
                 history>>

-----------------------------------------------------------------------------
(* State 8.                                                                *)

\* An evicted datum cannot be sent: its end is reported at once.
NoReport(d) == UNCHANGED <<completes, link, lost>>  \* mutant of Report
Report(d) == /\ completes' = [completes EXCEPT ![d] = @ + 1]
             /\ Delivered(d) \/ Lost(d, FALSE)

\* Then State 8 ends.
GoOn(d) == inTransit' = inTransit \cup {d}  \* mutant of Return: no return
Return(d) == UNCHANGED inTransit

State8 ==
  /\ pc = "State8"
  /\ broker_recvqueue' = Tail(broker_recvqueue)
  /\ LET d == Head(broker_recvqueue).data
     IN  /\ asked' = asked \cup {d}
         /\ \/ NotFound(d) /\ Report(d) /\ Return(d)
            \/ /\ ~NotFound(d)
               /\ inTransit' = inTransit \cup {d}
               /\ UNCHANGED <<completes, link, lost>>
  /\ Goto("State5")
  /\ UNCHANGED <<buffer, server_recvqueue, announced, ranked, events, given>>

\* State 9: a COMPLETE that is not sent is not sent again.
KeepBuffered(d) == Buffer  \* mutant of Erased: the buffer is left to State 7
Erased(d) == [e \in DOMAIN Buffer \ {d} |-> Buffer[e]]

State9 ==
  /\ pc = "State9"
  /\ server_recvqueue' = Tail(server_recvqueue)
  /\ LET d == Head(server_recvqueue)
     IN  /\ Buffer' = Erased(d)
         /\ completes' = [completes EXCEPT ![d] = @ + 1]
         /\ Delivered(d) \/ Lost(d, TRUE)
  /\ Goto("State5")
  /\ UNCHANGED <<DeviceDataqueue, DataID, bufferRemoveQueue, undefined,
                 broker_recvqueue, outside, events, given, asked>>

\* State 10: the session is told.
State10 ==
  /\ pc = "State10"
  /\ broker_recvqueue' = Tail(broker_recvqueue)
  /\ Goto("State5")
  /\ UNCHANGED <<buffer, server_recvqueue, link, outside, events, history>>

\* State 11: a link whose loss has been noticed is renewed, if it can be.
State11 ==
  /\ pc = "State11"
  /\ link' \in {link, TRUE}
  /\ Goto("State5")
  /\ UNCHANGED <<buffer, queues, outside, events, history>>

Main == \/ State5User \/ State5Server \/ State5Broker \/ State5Again
        \/ State6 \/ State7 \/ State8 \/ State9 \/ State10 \/ State11

-----------------------------------------------------------------------------
(* The user, the broker, the server and the link.                          *)

api_sendData ==
  /\ events < MaxEvents /\ events' = events + 1
  /\ \E s \in Sizes : DeviceDataqueue' = Append(DeviceDataqueue, s)
  /\ UNCHANGED <<pc, DataID, Buffer, bufferRemoveQueue, undefined, queues, link,
                 outside, history>>

\* A message of the broker about datum d, if the link is up.
FromBroker(m, d) ==
  \/ link /\ broker_recvqueue' = Append(broker_recvqueue, m) /\ UNCHANGED lost
  \/ ~link /\ lost' = lost \cup {d} /\ UNCHANGED broker_recvqueue

\* The METAs are answered in order, ...
BrokerPri ==
  /\ announced # <<>>
  /\ announced' = Tail(announced)
  /\ LET d == Head(announced)
     IN  /\ ranked' = ranked \cup {d}
         /\ \E p \in Priorities :
              /\ FromBroker([type |-> "PRI", data |-> d, pri |-> p], d)
              /\ given' = [given EXCEPT ![d] = p]
  /\ UNCHANGED <<pc, buffer, server_recvqueue, link, inTransit, events,
                 asked, completes>>

\* ... and each datum is permitted once, in any order.
BrokerPermit ==
  /\ \E d \in ranked :
       /\ FromBroker([type |-> "PERMIT", data |-> d], d)
       /\ ranked' = ranked \ {d}
  /\ UNCHANGED <<pc, buffer, server_recvqueue, link, announced, inTransit,
                 events, given, asked, completes>>

BrokerUpdate ==
  /\ link /\ events < MaxEvents /\ events' = events + 1
  /\ broker_recvqueue' = Append(broker_recvqueue, [type |-> "UPDATE"])
  /\ UNCHANGED <<pc, buffer, server_recvqueue, link, outside, history>>

\* Each datum is acknowledged once, in any order: more urgent ones interrupt.
ServerAck ==
  /\ \E d \in inTransit :
       /\ server_recvqueue' = Append(server_recvqueue, d)
       /\ inTransit' = inTransit \ {d}
  /\ UNCHANGED <<pc, buffer, broker_recvqueue, link, announced, ranked, events,
                 history>>

LinkBreaks ==
  /\ link /\ events < MaxEvents /\ events' = events + 1
  /\ link' = FALSE
  /\ UNCHANGED <<pc, buffer, queues, outside, history>>

-----------------------------------------------------------------------------
Init ==
  /\ pc = "State5" /\ DeviceDataqueue = <<>> /\ DataID = 1
  /\ Buffer = <<>> /\ bufferRemoveQueue = {} /\ undefined = FALSE
  /\ broker_recvqueue = <<>> /\ server_recvqueue = <<>>
  /\ link = TRUE
  /\ announced = <<>> /\ ranked = {} /\ inTransit = {}
  /\ events = 0 /\ given = [d \in ID |-> 0] /\ asked = {}
  /\ completes = [d \in ID |-> 0] /\ lost = {}

\* Nothing is known of what follows top() on an empty queue.
Next == /\ ~undefined
        /\ \/ Main
           \/ api_sendData \/ BrokerPri \/ BrokerPermit \/ BrokerUpdate
           \/ ServerAck \/ LinkBreaks

Spec == Init /\ [][Next]_vars

\* The main thread runs.  That a transfer ends is not assumed: it may be suspended
\* and stay so.
FairSpec == Spec /\ WF_vars(~undefined /\ Main)

-----------------------------------------------------------------------------
(* Properties.                                                             *)

Update == [type : {"UPDATE"}]
Pri == [type : {"PRI"}, data : ID, pri : Priorities]
Permit == [type : {"PERMIT"}, data : ID]

\* Type correctness.
TypeOK ==
  /\ pc \in {"State5", "server", "broker", "again", "State6", "State7", "State8",
             "State9", "State10", "State11"}
  /\ DeviceDataqueue \in Seq(Sizes) /\ DataID \in 1..(MaxEvents + 1)
  /\ DOMAIN Buffer \subseteq 1..(DataID - 1)
  /\ \A d \in DOMAIN Buffer : Buffer[d] \in [size : Sizes, pri : Priorities \cup {0}]
  /\ bufferRemoveQueue \subseteq [data : ID, pri : Priorities]
  /\ broker_recvqueue \in Seq(Pri \cup Permit \cup Update)
  /\ server_recvqueue \in Seq(ID)
  /\ link \in BOOLEAN /\ undefined \in BOOLEAN
  /\ announced \in Seq(ID) /\ ranked \subseteq ID /\ inTransit \subseteq ID
  /\ events \in 0..MaxEvents /\ given \in [ID -> Priorities \cup {0}]
  /\ asked \subseteq ID /\ completes \in [ID -> Nat] /\ lost \subseteq ID

\* The broker is told at most once that a datum is finished, whether it was
\* evicted before it was permitted, while it was being sent, or not at all: a
\* second COMPLETE would be taken for the end of a suspended transfer.
CompletedOnce == \A d \in ID : completes[d] <= 1

\* What is sent is announced to the server with the priority the broker gave it,
\* although the buffer is looked up again between PRI and PERMIT.
SentWithPriority ==
  (pc = "State8" /\ ~NotFound(Head(broker_recvqueue).data)) =>
     LET d == Head(broker_recvqueue).data
     IN  d \in lost \/ Buffer[d].pri = given[d]

\* A datum is evicted only when every buffered datum of a smaller urgency, and
\* every older one of the same, that has a priority is evicted too.
Evicted == IF pc = "State7" THEN DOMAIN Buffer \ DOMAIN Buffer' ELSE {}
Ranked(b) == {d \in DOMAIN b : b[d].pri # 0}
EvictedLeastUrgent ==
  [][\A d \in Evicted, e \in Ranked(Buffer') :
       \/ Buffer'[e].pri < given[d]
       \/ Buffer'[e].pri = given[d] /\ e > d]_vars

\* When the data without a priority leave room for it, State 7 brings the buffer
\* to four fifths, give or take the fraction that is cut, and never pops an empty
\* queue, although the queue keeps what has been acknowledged long ago.
Unranked(b) == DOMAIN b \ Ranked(b)
RoomMade ==
  [][(/\ pc = "State7" /\ pc' = "State5" /\ ~NotFound(Head(broker_recvqueue).data)
      /\ 10 * SizeOf(Buffer', Unranked(Buffer')) <= 8 * Buffersize)
       => /\ ~undefined'
          /\ 10 * calcBufferSize(Buffer') < 8 * Buffersize + 10]_vars

\* The transfer of d, once begun, never ends.
NeverEnds(d) == [](d \in inTransit)

\* Every PERMIT the device takes is answered by a COMPLETE, evicted or not, unless
\* the transfer it began never ends.
PermitAnswered ==
  \A d \in ID : d \in asked ~> completes[d] > 0 \/ NeverEnds(d) \/ undefined

\* What is buffered leaves the buffer once it is permitted, unless its transfer
\* never ends.
PermittedLeaves ==
  \A d \in ID : d \in asked ~> d \notin DOMAIN Buffer \/ NeverEnds(d) \/ undefined

=============================================================================
