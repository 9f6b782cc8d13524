------------------------------ MODULE Transfer ------------------------------
(***************************************************************************)
(* How one device's data travel to the application server over one con-    *)
(* nection while they interrupt each other.                                *)
(*                                                                         *)
(* The device's main thread announces a permitted datum with DECDATA       *)
(* (basic_send) and queues it (limit_send); the session's sender thread    *)
(* writes it in chunks (send_forever), holding sendmtx from the first to   *)
(* the last.  At a STOP the sender puts the rest of the datum on sendstack *)
(* and lets go; at a RESTART the main thread queues the rest again.  The   *)
(* DECDATA of a datum that interrupts another is preceded by a marker,     *)
(* which makes the server put what it has of the interrupted datum on      *)
(* remainstack, to go on with it when the interrupting datum is complete.  *)
(* Nothing in a chunk says which datum it belongs to.                      *)
(*                                                                         *)
(* A chunk, a DECDATA and a marker are one token each.  The broker is the  *)
(* environment: the registers of State 10 and the interrupt controller for *)
(* this one device.                                                        *)
(***************************************************************************)
EXTENDS Integers, SequencesExt

CONSTANTS
  Data,       \* the data the device has announced
  NoData,     \* not a datum
  Size,       \* Size[d]: the number of chunks of d
  MaxStops,   \* bound: STOP messages
  MaxRead     \* bound: the tokens one read of the server's socket returns

ASSUME TransferAssumption ==
  /\ NoData \notin Data
  /\ Size \in [Data -> Nat \ {0}]
  /\ MaxStops \in Nat /\ MaxRead \in Nat \ {0}

VARIABLES
  \* the broker and its links to the device
  SendingIDmap, IDmapStack, permitted, stops,
  toDevice,                     \* broker_recvqueue
  completes,                    \* the COMPLETE messages on their way
  \* the device's main thread
  pcMain, cur,
  \* the session
  sendqueue, sendstack, flag_sendChange, pcSend,
  overtaken,                    \* history: an item has been overtaken, see below
  wire,                         \* written and not yet handled
  \* the application server
  device_remaindata, remainstack, asyncrecvCountor,
  datalength, left,             \* the tokens of the last read, and those to handle
  devid_pri_map,                \* the datum whose priority it counts bytes for
  devid_byte_map,               \* the tokens counted for the priority of each datum
  server_recvqueue,             \* its ACKs, at the device
  delivered                     \* history: the contents of the DATA messages

brokerVars == <<SendingIDmap, IDmapStack, permitted, stops>>
links      == <<toDevice, completes, server_recvqueue>>
mainVars   == <<pcMain, cur>>
sessionVars == <<sendqueue, sendstack, flag_sendChange, pcSend, overtaken>>
readVars   == <<datalength, left>>
serverVars == <<device_remaindata, remainstack, asyncrecvCountor, readVars,
                devid_pri_map, devid_byte_map, delivered>>
vars == <<brokerVars, links, mainVars, sessionVars, wire, serverVars>>

-----------------------------------------------------------------------------
(* Messages and tokens.                                                    *)

Msg(t, d) == [type |-> t, data |-> d]
BrokerMsg == [type : {"PERMIT"}, data : Data]
               \cup [type : {"STOP", "RESTART"}, data : {NoData}]

Marker   == [kind |-> "marker", data |-> NoData, n |-> 0]
Decdata(d) == [kind |-> "DECDATA", data |-> d, n |-> 0]
Chunk(d, n) == [kind |-> "DATA", data |-> d, n |-> n]

\* The DATA message of d, and what of it an item [data, n] has still to send.
Whole(d) == [i \in 1..Size[d] |-> Chunk(d, i)]
Rest(item) == SubSeq(Whole(item.data), item.n, Size[item.data])
Item == UNION {[data : {d}, n : 1..Size[d]] : d \in Data}

\* sendmtx: the sender holds it while it writes an item.
SenderHoldsLock == pcSend \in {"write", "check", "park"}

\* The order of the data in the stream is that of sendqueue and sendstack, except
\* when an item is overtaken: a DECDATA is written while an item is still queued, or
\* an item is put on sendstack while the sender has another to go on with.  Nothing in
\* the code prevents either.
Overtakes(queued) == overtaken' = (overtaken \/ queued)

-----------------------------------------------------------------------------
(* The broker, for this device.                                            *)

BrokerPermit(d) ==
  /\ d \notin permitted
  /\ permitted' = permitted \cup {d}
  /\ SendingIDmap' = SendingIDmap \cup {d}
  /\ toDevice' = Append(toDevice, Msg("PERMIT", d))
  /\ UNCHANGED <<IDmapStack, stops, completes, server_recvqueue, mainVars,
                 sessionVars, wire, serverVars>>

\* interruptHighPriority.
BrokerStop ==
  /\ SendingIDmap # {} /\ stops < MaxStops
  /\ stops' = stops + 1
  /\ IDmapStack' = Append(IDmapStack, SendingIDmap) /\ SendingIDmap' = {}
  /\ toDevice' = Append(toDevice, Msg("STOP", NoData))
  /\ UNCHANGED <<permitted, completes, server_recvqueue, mainVars, sessionVars,
                 wire, serverVars>>

\* returnInterruptHighPriority.
BrokerRestart ==
  /\ SendingIDmap = {} /\ IDmapStack # <<>>
  /\ SendingIDmap' = Last(IDmapStack) /\ IDmapStack' = Front(IDmapStack)
  /\ toDevice' = Append(toDevice, Msg("RESTART", NoData))
  /\ UNCHANGED <<permitted, stops, completes, server_recvqueue, mainVars,
                 sessionVars, wire, serverVars>>

\* State 11; and resolutePassing, when the datum's map has been stacked meanwhile: the
\* one closest to the top that has it loses it, and goes when it is empty.
BrokerRelease ==
  /\ completes # <<>>
  /\ completes' = Tail(completes)
  /\ LET d == Head(completes)
     IN  /\ SendingIDmap' = SendingIDmap \ {d}
         /\ IF d \in SendingIDmap \/ \A i \in DOMAIN IDmapStack : d \notin IDmapStack[i]
            THEN UNCHANGED IDmapStack
            ELSE \E i \in DOMAIN IDmapStack :
                   /\ d \in IDmapStack[i]
                   /\ \A j \in DOMAIN IDmapStack : j > i => d \notin IDmapStack[j]
                   /\ IDmapStack' = IF IDmapStack[i] = {d} THEN RemoveAt(IDmapStack, i)
                                    ELSE [IDmapStack EXCEPT ![i] = @ \ {d}]
  /\ UNCHANGED <<permitted, stops, toDevice, server_recvqueue, mainVars,
                 sessionVars, wire, serverVars>>

Broker == \/ \E d \in Data : BrokerPermit(d)
          \/ BrokerStop \/ BrokerRestart \/ BrokerRelease

-----------------------------------------------------------------------------
(* The device's main thread.                                               *)

\* State 5 goes to the state of the next message of the broker.
TakeBrokerMessage(type) ==
  /\ pcMain = "S05" /\ toDevice # <<>> /\ Head(toDevice).type = type
  /\ toDevice' = Tail(toDevice)
  /\ UNCHANGED <<brokerVars, completes, server_recvqueue>>

\* State 8 takes the permission, ...
MainPermit ==
  /\ TakeBrokerMessage("PERMIT")
  /\ pcMain' = "presend" /\ cur' = Head(toDevice).data
  /\ UNCHANGED <<sessionVars, wire, serverVars>>

\* ... sends DECDATA when it gets sendmtx, after the marker if a datum is on
\* sendstack (basic_send), ...
PresendNoMarker == <<Decdata(cur)>>  \* mutant of Presend
Presend == IF sendstack = <<>> THEN <<Decdata(cur)>> ELSE <<Marker, Decdata(cur)>>

MainPresend ==
  /\ pcMain = "presend" /\ ~SenderHoldsLock
  /\ wire' = wire \o Presend
  /\ Overtakes(sendqueue # <<>>)
  /\ pcMain' = "limit"
  /\ UNCHANGED <<brokerVars, links, cur, sendqueue, sendstack, flag_sendChange,
                 pcSend, serverVars>>

\* ... and queues the datum (limit_send).
MainQueue ==
  /\ pcMain = "limit"
  /\ sendqueue' = Append(sendqueue, [data |-> cur, n |-> 1])
  /\ pcMain' = "S05" /\ cur' = NoData
  /\ UNCHANGED <<brokerVars, links, sendstack, flag_sendChange, pcSend, overtaken,
                 wire, serverVars>>

\* State 10: changeSendData ...
MainStop ==
  /\ TakeBrokerMessage("STOP")
  /\ flag_sendChange' = TRUE
  /\ UNCHANGED <<mainVars, sendqueue, sendstack, pcSend, overtaken, wire, serverVars>>

\* ... and resumSend.
MainRestart ==
  /\ TakeBrokerMessage("RESTART")
  /\ flag_sendChange' = FALSE
  /\ \/ /\ sendstack # <<>>
        /\ sendqueue' = Append(sendqueue, Last(sendstack))
        /\ sendstack' = Front(sendstack)
     \/ sendstack = <<>> /\ UNCHANGED <<sendqueue, sendstack>>
  /\ UNCHANGED <<mainVars, pcSend, overtaken, wire, serverVars>>

\* State 9: report an acknowledged datum to the broker.
MainComplete ==
  /\ pcMain = "S05" /\ server_recvqueue # <<>>
  /\ server_recvqueue' = Tail(server_recvqueue)
  /\ completes' = Append(completes, Head(server_recvqueue))
  /\ UNCHANGED <<brokerVars, toDevice, mainVars, sessionVars, wire, serverVars>>

Main == \/ MainPermit \/ MainPresend \/ MainQueue \/ MainStop \/ MainRestart
        \/ MainComplete

-----------------------------------------------------------------------------
(* The sender thread: send_forever.                                        *)

\* It sees an item at the head of the queue and lowers the flag, so that a STOP
\* that came for the item before it has no effect, ...
SendStart ==
  /\ pcSend = "read" /\ sendqueue # <<>>
  /\ flag_sendChange' = FALSE
  /\ pcSend' = "lock"
  /\ UNCHANGED <<brokerVars, links, mainVars, sendqueue, sendstack, overtaken, wire,
                 serverVars>>

\* ... locks sendmtx, ...
SendLock ==
  /\ pcSend = "lock"
  /\ pcSend' = "write"
  /\ UNCHANGED <<brokerVars, links, mainVars, sendqueue, sendstack,
                 flag_sendChange, overtaken, wire, serverVars>>

\* ... and writes a chunk: after the last one the item leaves the queue.  (The
\* item is left there meanwhile; the rest that senddata holds is kept in it here.)
PastLastChunk(item) == item.n > Size[item.data]  \* mutant of LastChunk: one too far
LastChunk(item) == item.n = Size[item.data]

SendChunk ==
  /\ pcSend = "write"
  /\ LET item == Head(sendqueue)
     IN  /\ wire' = Append(wire, Chunk(item.data, item.n))
         /\ IF LastChunk(item)
            THEN sendqueue' = Tail(sendqueue) /\ pcSend' = "read"
            ELSE /\ sendqueue' = [sendqueue EXCEPT ![1].n = @ + 1]
                 /\ pcSend' = "check"
  /\ UNCHANGED <<brokerVars, links, mainVars, sendstack, flag_sendChange, overtaken,
                 serverVars>>

\* Between two chunks it looks at the flag, under changemtx; ...
SendCheck ==
  /\ pcSend = "check"
  /\ pcSend' = IF flag_sendChange THEN "park" ELSE "write"
  /\ flag_sendChange' = FALSE
  /\ UNCHANGED <<brokerVars, links, mainVars, sendqueue, sendstack, overtaken, wire,
                 serverVars>>

\* ... if it was up the rest goes on sendstack, and sendmtx is free.
ParkNothing == sendstack  \* mutant of Park: the rest is dropped
ParkFirst == <<Head(sendqueue)>> \o sendstack  \* mutant of Park: first in, first out
Park == Append(sendstack, Head(sendqueue))

SendPark ==
  /\ pcSend = "park"
  /\ sendstack' = Park
  /\ sendqueue' = Tail(sendqueue)
  /\ Overtakes(sendqueue' # <<>>)
  /\ pcSend' = "read"
  /\ UNCHANGED <<brokerVars, links, mainVars, flag_sendChange, wire, serverVars>>

Sender == SendStart \/ SendLock \/ SendChunk \/ SendCheck \/ SendPark

-----------------------------------------------------------------------------
(* The application server: recv_forever, changeRecvData, onRecvFromDevices *)

\* It reads what has come.  A marker ends what is handed on at once.
ServerRead ==
  /\ left = 0
  /\ \E n \in 1..MaxRead :
       /\ n <= Len(wire) /\ \A i \in 1..n : wire[i] # Marker
       /\ datalength' = n /\ left' = n
  /\ UNCHANGED <<brokerVars, links, mainVars, sessionVars, wire, device_remaindata,
                 remainstack, asyncrecvCountor, devid_pri_map, devid_byte_map,
                 delivered>>

\* A marker: what has come of the interrupted datum is put aside.
ServerMarker ==
  /\ left = 0 /\ wire # <<>> /\ Head(wire) = Marker
  /\ wire' = Tail(wire)
  /\ remainstack' = Append(remainstack, [pri |-> devid_pri_map,
                                         data |-> device_remaindata])
  /\ device_remaindata' = <<>>
  /\ asyncrecvCountor' = asyncrecvCountor - 1
  /\ UNCHANGED <<brokerVars, links, mainVars, sessionVars, readVars, devid_pri_map,
                 devid_byte_map, delivered>>

\* What is read is appended to what is left of the last message, a token at a time.
Pushdata == Append(device_remaindata, Head(wire))

IsDecdata == Head(Pushdata).kind = "DECDATA"

\* The length a message states is that of the DATA its first chunk begins.
IsData == /\ Head(Pushdata).kind = "DATA" /\ Head(Pushdata).n = 1
          /\ Len(Pushdata) = Size[Head(Pushdata).data]

ServerReceives(rdata) ==
  /\ wire' = Tail(wire)
  /\ left' = left - 1
  /\ datalength' = IF left = 1 THEN 0 ELSE datalength
  /\ device_remaindata' = rdata
  /\ UNCHANGED <<brokerVars, toDevice, completes, mainVars, sessionVars>>

\* mesureLength: a round that finds a DATA message, whole or not, counts the length of
\* all that was read for the priority in devid_pri_map.  The last round of a read does
\* so for what it leaves in device_remaindata.
mesureLength(bytes, pri) == [bytes EXCEPT ![pri] = @ + datalength]
LastRound(bytes, pri, rdata) ==
  IF left = 1 /\ rdata # <<>> THEN mesureLength(bytes, pri) ELSE bytes

ServerDecdata ==
  /\ left > 0 /\ IsDecdata
  /\ ServerReceives(<<>>)
  /\ asyncrecvCountor' = asyncrecvCountor + 1
  /\ devid_pri_map' = Head(Pushdata).data
  /\ UNCHANGED <<remainstack, devid_byte_map, server_recvqueue, delivered>>

\* A DATA message is complete: it is acknowledged, and the datum it interrupted
\* is gone on with.
KeptPri == devid_pri_map  \* mutant of ResumedPri: the priority is not restored
ResumedPri == IF remainstack = <<>> THEN devid_pri_map ELSE Last(remainstack).pri

RecountedOnce(n) == n - 1  \* mutant of Recounted: the resumed datum is not counted
Recounted(n) == IF remainstack = <<>> THEN n - 1 ELSE n

Resumdata == IF remainstack = <<>> THEN <<>> ELSE Last(remainstack).data

ServerData ==
  /\ left > 0 /\ IsData
  /\ ServerReceives(Resumdata)
  /\ remainstack' = IF remainstack = <<>> THEN <<>> ELSE Front(remainstack)
  /\ asyncrecvCountor' = Recounted(asyncrecvCountor)
  /\ devid_pri_map' = ResumedPri
  /\ devid_byte_map' = LastRound(mesureLength(devid_byte_map, devid_pri_map),
                                 ResumedPri, Resumdata)
  /\ server_recvqueue' = Append(server_recvqueue, Head(Pushdata).data)
  /\ delivered' = delivered \cup {Pushdata}

ServerFragment ==
  /\ left > 0 /\ ~IsDecdata /\ ~IsData
  /\ ServerReceives(Pushdata)
  /\ devid_byte_map' = LastRound(devid_byte_map, devid_pri_map, Pushdata)
  /\ UNCHANGED <<remainstack, asyncrecvCountor, devid_pri_map, server_recvqueue,
                 delivered>>

Server == \/ ServerRead
          \/ ServerMarker \/ ServerDecdata \/ ServerData \/ ServerFragment

-----------------------------------------------------------------------------
Init ==
  /\ SendingIDmap = {} /\ IDmapStack = <<>> /\ permitted = {} /\ stops = 0
  /\ toDevice = <<>> /\ completes = <<>> /\ server_recvqueue = <<>>
  /\ pcMain = "S05" /\ cur = NoData
  /\ sendqueue = <<>> /\ sendstack = <<>> /\ flag_sendChange = FALSE
  /\ pcSend = "read" /\ overtaken = FALSE
  /\ wire = <<>>
  /\ device_remaindata = <<>> /\ remainstack = <<>> /\ asyncrecvCountor = 0
  /\ datalength = 0 /\ left = 0
  /\ devid_pri_map = NoData /\ devid_byte_map = [d \in Data |-> 0]
  /\ delivered = {}

Next == Broker \/ Main \/ Sender \/ Server

Spec == Init /\ [][Next]_vars

\* The device's two threads and the server run, and the broker handles every
\* COMPLETE.  Nothing makes it permit, stop or restart.
FairSpec == /\ Spec
            /\ WF_vars(Main) /\ WF_vars(Sender) /\ WF_vars(Server)
            /\ WF_vars(BrokerRelease)

-----------------------------------------------------------------------------
(* Properties.                                                             *)

Token == [kind : {"marker", "DECDATA", "DATA"}, data : Data \cup {NoData}, n : Nat]

\* Type correctness.
TypeOK ==
  /\ SendingIDmap \subseteq Data /\ IDmapStack \in Seq(SUBSET Data)
  /\ permitted \subseteq Data /\ stops \in 0..MaxStops
  /\ toDevice \in Seq(BrokerMsg) /\ completes \in Seq(Data)
  /\ server_recvqueue \in Seq(Data)
  /\ pcMain \in {"S05", "presend", "limit"} /\ cur \in Data \cup {NoData}
  /\ sendqueue \in Seq(Item) /\ sendstack \in Seq(Item)
  /\ flag_sendChange \in BOOLEAN
  /\ pcSend \in {"read", "lock", "write", "check", "park"} /\ overtaken \in BOOLEAN
  /\ wire \in Seq(Token)
  /\ device_remaindata \in Seq(Token)
  /\ remainstack \in Seq([pri : Data \cup {NoData}, data : Seq(Token)])
  /\ datalength \in 0..MaxRead /\ left \in 0..datalength
  /\ asyncrecvCountor \in Int /\ devid_pri_map \in Data \cup {NoData}
  /\ devid_byte_map \in [Data -> Nat]
  /\ delivered \subseteq Seq(Token)

\* Every DATA message the server completes is one datum, all of it and in order,
\* although nothing but the place in the stream says what a chunk belongs to: whatever
\* STOP, RESTART and PERMIT come when, as long as no item has been overtaken.
DataIntact == ~overtaken => delivered \subseteq {Whole(d) : d \in Data}

\* What the server has of the data that are not complete, the oldest first.
Partial == [i \in DOMAIN remainstack |-> remainstack[i].data]
             \o IF device_remaindata = <<>> THEN <<>> ELSE <<device_remaindata>>

\* The items the device has begun and not finished, the last to go on with first:
\* sendqueue comes before sendstack, and is first in, first out.
InQueue == {i \in DOMAIN sendqueue : sendqueue[i].n > 1}
Begun == Len(sendstack) + Cardinality(InQueue)
PlaceOf(i) == Len(sendstack) + Cardinality({j \in InQueue : j >= i})

\* The piece the server has and what the item has still to send are a whole datum.
Completes(piece, item) == piece \o Rest(item) = Whole(item.data)

\* Both sides keep the interrupted data in one order: when nothing is in flight
\* the partial messages of the server and the items the device has begun, on
\* sendstack or queued again, pair up, and each pair makes the whole datum.  A chunk
\* names no datum, so a slip in the order would join the pieces of different data.
StacksMirror ==
  wire = <<>> /\ ~overtaken =>
    /\ Len(Partial) = Begun
    /\ \A i \in DOMAIN sendstack : Completes(Partial[i], sendstack[i])
    /\ \A i \in InQueue : Completes(Partial[PlaceOf(i)], sendqueue[i])

\* The counter the measured rate is computed from is 1 while the server has a
\* message of this device in reception, announced or begun, and 0 otherwise.
CounterRight ==
  ~overtaken =>
    /\ asyncrecvCountor \in {0, 1}
    /\ device_remaindata # <<>> => asyncrecvCountor = 1
    /\ wire = <<>> /\ sendqueue = <<>> /\ pcMain # "limit"
         => (asyncrecvCountor = 1 <=> sendstack # <<>>)

\* No priority is counted less than what has come of its datum, complete or
\* interrupted, also when several data share a read and after every interruption:
\* what comes after it is counted for the datum that is gone on with.  (That a read
\* is counted for no other priority as well is not said: see README.)
AccountedRight ==
  left = 0 /\ ~overtaken =>
    \A piece \in delivered \cup {device_remaindata}
                  \cup {remainstack[i].data : i \in DOMAIN remainstack} :
      piece # <<>> => devid_byte_map[Head(piece).data] >= Len(piece)

\* Time and again every datum permitted so far is delivered or stopped (or an item has
\* been overtaken).
DeliveredOrStopped ==
  []<>(\A d \in permitted : \/ Whole(d) \in delivered
                            \/ \E i \in DOMAIN sendstack : sendstack[i].data = d
                            \/ overtaken)

\* basic_send writes the marker, its comment says, only before the DECDATA of a
\* datum that interrupts another, and then always: the server, once it has read
\* what is on the wire, has part of a datum just when sendstack holds one.
MarkerWhenInterrupting ==
  pcMain = "presend" /\ ~SenderHoldsLock
    => (sendstack # <<>> <=> Begun # 0)

=============================================================================
