-------------------------- MODULE BrokerScheduler --------------------------
(***************************************************************************)
(* The broker's transmission scheduler: BrokerServer, its InterruptCon-    *)
(* troller, the main thread's states 0, 4, 5, 6 and 7 and the queue        *)
(* thread's states 10 and 11, with the devices and the application server  *)
(* as the environment that fills its two receive queues.                   *)
(*                                                                         *)
(* A device announces a datum with META.  The main thread gives it a       *)
(* priority (0 is the most urgent), answers PRI and puts it on the main    *)
(* priority queue; when it is more urgent than what is being sent, it      *)
(* raises stackAct.  The queue thread takes data off that queue, registers *)
(* them in SendingIDmap and PERMITs them; on an interrupt it STOPs the     *)
(* devices that are sending and stacks the map, to RESTART them when the   *)
(* more urgent data are done.  A device reports a finished datum with      *)
(* COMPLETE.                                                               *)
(*                                                                         *)
(* Each program counter value is a point between two accesses to state     *)
(* the other thread can touch; what a thread does to its own state between *)
(* two such points is one step.  Of a transmission rate only the question  *)
(* it decides is kept, which size classes get a positive one; UPDATE       *)
(* messages that only carry a rate change no control state on either side  *)
(* and are left out.                                                       *)
(***************************************************************************)
EXTENDS Integers, FiniteSets, SequencesExt

CONSTANTS
  Device,     \* the connected devices
  Data,       \* the data the devices announce, each once
  NoData,     \* not a datum
  DeviceOf,   \* DeviceOf[d]: the device that holds datum d
  Pri,        \* Pri[d]: the priority the table gives d, 0 the most urgent
  SClass,     \* SClass[d]: d's size class, 0 (S), 1 (M) or 2 (L)
  Decoded,    \* Decoded[d]: the datum State 11 takes a COMPLETE of d for
  CommRate,   \* the communication rates, in bps, State 7 may have set
  InitPrev,   \* the values the uninitialised prevpriority may start with
  MaxRates,   \* bound: RATE messages from the application server
  MayStop,    \* whether a STOPREQ may arrive
  MayMiss     \* whether a RESTART may come before the device's stack has the rest

SizeClass == 0..2

ASSUME DataAssumption ==
  /\ NoData \notin Data
  /\ DeviceOf \in [Data -> Device]
  /\ Pri \in [Data -> 0..15]
  /\ SClass \in [Data -> SizeClass]
  /\ Decoded \in [Data -> Data \cup {NoData}]
  /\ \A d \in Data : Decoded[d] \in Data => DeviceOf[Decoded[d]] = DeviceOf[d]
  /\ CommRate \subseteq Nat \ {0}
  /\ InitPrev \subseteq Int
  /\ MaxRates \in Nat
  /\ MayStop \in BOOLEAN /\ MayMiss \in BOOLEAN

VARIABLES
  \* shared by the threads of the broker
  device_recvqueue, server_recvqueue, main_priority_queue,
  stackAct, prevpriority, endthread,
  \* the main thread
  pcMain,
  cur,           \* the datum State 5 is handling
  clock, stamp,  \* stamp[d]: when State 5 took d's META, 0 before
  \* the queue thread
  pcQueue, SendingIDmap, IDmapStack,
  toppri,        \* the priority interruptHighPriority read
  priDeviceMap, bufpopdata,
  sendrate,      \* the size classes calcpermitRate gave a positive rate
  released,      \* history: the data a COMPLETE released
  \* the links to the devices, the devices and the application server
  toDevice, devstate, rates

queues     == <<device_recvqueue, server_recvqueue>>
interrupt  == <<stackAct, prevpriority>>
mainVars   == <<pcMain, cur, clock, stamp>>
selection  == <<toppri, priDeviceMap, bufpopdata, sendrate>>
sendingVars == <<SendingIDmap, IDmapStack, released>>
queueVars  == <<pcQueue, selection, sendingVars>>
deviceVars == <<devstate, rates>>
vars == <<queues, main_priority_queue, interrupt, endthread, mainVars,
          queueVars, toDevice, deviceVars>>

-----------------------------------------------------------------------------
(* Messages and helpers.                                                   *)

DeviceMsg == [type : {"META", "COMPLETE"}, data : Data]
ServerMsg == {"RATE", "STOPREQ"}
BrokerMsg == [type : {"PRI", "PERMIT"}, data : Data]
               \cup [type : {"STOP", "RESTART", "UPDATE_r"}, data : {NoData}]

Msg(t, d) == [type |-> t, data |-> d]
UpdateWithDatum(t) == Msg(t, cur)  \* mutant of Update: a payload it must not have
Update(t) == Msg(t, NoData)

\* The order of the main priority queue: priority, then arrival time.
Before(d, e) == \/ Pri[d] < Pri[e]
                \/ Pri[d] = Pri[e] /\ stamp[d] <= stamp[e]
IsTop(d, Q) == d \in Q /\ \A e \in Q : Before(d, e)

DevicesOf(S) == {DeviceOf[d] : d \in S}

\* More urgent than the data being sent.
MoreUrgentOrEqual(d) == Pri[d] <= prevpriority  \* mutant of MoreUrgent
MoreUrgent(d) == Pri[d] < prevpriority

dv_send(v, m) == toDevice' = [toDevice EXCEPT ![v] = Append(@, m)]

notifyALLsendingDevices(S, m) ==
  toDevice' = [v \in Device |-> IF v \in DevicesOf(S)
                                THEN Append(toDevice[v], m) ELSE toDevice[v]]

\* recv_and_gettype: the type the main thread sees, the server's queue first.
Readable == server_recvqueue # <<>> \/ device_recvqueue # <<>>
PeekedType == IF server_recvqueue # <<>> THEN Head(server_recvqueue)
                                         ELSE Head(device_recvqueue).type

\* Steps that change nothing but a thread's program counter.
MainOnlyMoves ==
  UNCHANGED <<queues, main_priority_queue, interrupt, endthread, cur, clock,
              stamp, queueVars, toDevice, deviceVars>>
QueueOnlyMoves ==
  UNCHANGED <<queues, main_priority_queue, interrupt, endthread, mainVars,
              selection, sendingVars, toDevice, deviceVars>>

-----------------------------------------------------------------------------
(* The main thread.                                                        *)

\* State 4 spawns the queue thread ...
MainSpawn ==
  /\ pcMain = "S4"
  /\ pcMain' = "S4peek" /\ pcQueue' = "S10"
  /\ UNCHANGED <<queues, main_priority_queue, interrupt, endthread, cur, clock,
                 stamp, selection, sendingVars, toDevice, deviceVars>>

\* ... and goes on to State 5 unless it sees a STOPREQ or a RATE.
MainState4 ==
  /\ pcMain = "S4peek" /\ Readable
  /\ pcMain' = IF PeekedType \in ServerMsg THEN "S6" ELSE "S5"
  /\ MainOnlyMoves

\* State 5 takes the message at the head for a META and reads the clock, ...
TakeMeta ==
  /\ pcMain = "S5" /\ device_recvqueue # <<>>
  /\ cur' = Head(device_recvqueue).data
  /\ clock' = clock + 1
  /\ stamp' = [stamp EXCEPT ![cur'] = clock + 1]
  /\ device_recvqueue' = Tail(device_recvqueue)
  /\ pcMain' = "S5pri"
  /\ UNCHANGED <<server_recvqueue, interrupt, endthread, queueVars, toDevice,
                 deviceVars>>

MainPopMetaQueued ==  \* mutant of MainPopMeta: queued before PRI is sent
  TakeMeta /\ main_priority_queue' = main_priority_queue \cup {cur'}
MainPopMeta == TakeMeta /\ UNCHANGED main_priority_queue

\* ... sends the device its datum's priority, ...
MainSendPri ==
  /\ pcMain = "S5pri"
  /\ dv_send(DeviceOf[cur], Msg("PRI", cur))
  /\ pcMain' = "S5push"
  /\ UNCHANGED <<queues, main_priority_queue, interrupt, endthread, cur, clock,
                 stamp, queueVars, deviceVars>>

\* ... queues the datum, ...
MainPush ==
  /\ pcMain = "S5push"
  /\ main_priority_queue' = main_priority_queue \cup {cur}
  /\ pcMain' = "S5int"
  /\ UNCHANGED <<queues, interrupt, endthread, cur, clock, stamp, queueVars,
                 toDevice, deviceVars>>

\* ... and, under stackmtx, raises the interrupt if it is more urgent.
MainInterrupt ==
  /\ pcMain = "S5int"
  /\ stackAct' = (stackAct \/ MoreUrgent(cur))
  /\ pcMain' = "S5peek" /\ cur' = NoData
  /\ UNCHANGED <<queues, main_priority_queue, prevpriority, endthread, clock,
                 stamp, queueVars, toDevice, deviceVars>>

\* The condition of State 5's do-while.
State5NextNotRate == IF PeekedType # "RATE" THEN "S5" ELSE "S6"  \* mutant
State5Next == IF PeekedType = "META" THEN "S5" ELSE "S6"

MainState5Again ==
  /\ pcMain = "S5peek" /\ Readable
  /\ pcMain' = State5Next
  /\ MainOnlyMoves

\* State 6: wait for a type it has a state for; it reads past no COMPLETE.
State6NextFallThrough == CASE PeekedType = "META"     -> "S5"  \* mutant: no break
                           [] PeekedType \in ServerMsg -> "S7"
                           [] OTHER                   -> "S6"
State6Next == CASE PeekedType = "META"    -> "S5"
                [] PeekedType = "STOPREQ" -> "S0"
                [] PeekedType = "RATE"    -> "S7"
                [] OTHER                  -> "S6"

MainState6 ==
  /\ pcMain = "S6" /\ Readable
  /\ pcMain' = State6Next
  /\ MainOnlyMoves

\* State 7: take a new communication rate.
MainState7 ==
  /\ pcMain = "S7" /\ server_recvqueue # <<>>
  /\ server_recvqueue' = Tail(server_recvqueue)
  /\ pcMain' = "S6"
  /\ UNCHANGED <<device_recvqueue, main_priority_queue, interrupt, endthread,
                 cur, clock, stamp, queueVars, toDevice, deviceVars>>

\* State 0: tell the queue thread to end; no state follows it.
MainState0 ==
  /\ pcMain = "S0"
  /\ endthread' = TRUE /\ pcMain' = "end"
  /\ UNCHANGED <<queues, main_priority_queue, interrupt, cur, clock, stamp,
                 queueVars, toDevice, deviceVars>>

Main == \/ MainSpawn \/ MainState4 \/ MainPopMeta \/ MainSendPri \/ MainPush
        \/ MainInterrupt \/ MainState5Again \/ MainState6 \/ MainState7
        \/ MainState0

-----------------------------------------------------------------------------
(* The queue thread, State 10.                                             *)

\* A datum is selected next: waited for when nothing is being sent.
SelectPc == IF SendingIDmap = {} THEN "pop" ELSE "more"

\* The stack is looked at only when nothing is being sent.
State10NextAlways == IF endthread THEN "end" ELSE "return"  \* mutant
State10Next == CASE endthread         -> "end"
                 [] SendingIDmap = {} -> "return"
                 [] OTHER             -> "interrupt"

QueueState10 ==
  /\ pcQueue = "S10"
  /\ pcQueue' = State10Next
  /\ QueueOnlyMoves

\* returnInterruptHighPriority: whether the top of the stack comes before
\* the top of the main priority queue.
StackFirst ==
  /\ IDmapStack # <<>> /\ main_priority_queue # {}
  /\ LET pri == Last(IDmapStack).pri
     IN  pri > 0 /\ \E d \in main_priority_queue :
                      IsTop(d, main_priority_queue) /\ pri <= Pri[d]

QueueRestore ==
  /\ pcQueue = "return" /\ StackFirst
  /\ SendingIDmap' = Last(IDmapStack).map
  /\ prevpriority' = Last(IDmapStack).pri
  /\ IDmapStack' = Front(IDmapStack)
  /\ notifyALLsendingDevices(SendingIDmap', Update("RESTART"))
  /\ pcQueue' = "S11"
  /\ UNCHANGED <<queues, main_priority_queue, stackAct, endthread, mainVars,
                 selection, released, deviceVars>>

QueueNoRestore ==
  /\ pcQueue = "return" /\ ~StackFirst
  /\ pcQueue' = "interrupt"
  /\ QueueOnlyMoves

\* interruptHighPriority reads the top of the queue before it locks stackmtx.
QueueReadTop ==
  /\ pcQueue = "interrupt"
  /\ \/ /\ \E d \in main_priority_queue :
              /\ IsTop(d, main_priority_queue) /\ MoreUrgent(d)
              /\ toppri' = Pri[d]
        /\ pcQueue' = "suspend"
     \/ /\ \A d \in main_priority_queue :
              IsTop(d, main_priority_queue) => ~MoreUrgent(d)
        /\ pcQueue' = SelectPc /\ UNCHANGED toppri
  /\ UNCHANGED <<queues, main_priority_queue, interrupt, endthread, mainVars,
                 priDeviceMap, bufpopdata, sendrate, sendingVars, toDevice,
                 deviceVars>>

pushcurIDmapShared ==  \* mutant of pushcurIDmap: no new map is made
  /\ IDmapStack' = Append(IDmapStack, [pri |-> prevpriority, map |-> SendingIDmap])
  /\ UNCHANGED SendingIDmap
pushcurIDmap ==
  /\ IDmapStack' = Append(IDmapStack, [pri |-> prevpriority, map |-> SendingIDmap])
  /\ SendingIDmap' = {}

\* Under stackmtx: stop the sending devices, stack their map, drop the signal.
QueueSuspend ==
  /\ pcQueue = "suspend"
  /\ \/ /\ SendingIDmap # {}
        /\ notifyALLsendingDevices(SendingIDmap, Update("STOP"))
        /\ pushcurIDmap
     \/ /\ SendingIDmap = {}
        /\ UNCHANGED <<toDevice, IDmapStack, SendingIDmap>>
  /\ stackAct' = FALSE /\ prevpriority' = toppri /\ toppri' = 0
  /\ pcQueue' = "pop"
  /\ UNCHANGED <<queues, main_priority_queue, endthread, mainVars, priDeviceMap,
                 bufpopdata, sendrate, released, deviceVars>>

\* The first datum: wait for one, ...
QueuePopFirst ==
  /\ pcQueue = "pop"
  /\ \E d \in main_priority_queue :
       /\ IsTop(d, main_priority_queue)
       /\ main_priority_queue' = main_priority_queue \ {d}
       /\ priDeviceMap' = {d}
  /\ pcQueue' = "clear"
  /\ UNCHANGED <<queues, interrupt, endthread, mainVars, toppri, bufpopdata,
                 sendrate, sendingVars, toDevice, deviceVars>>

\* ... drop the signal, under stackmtx, ...
QueueClear ==
  /\ pcQueue = "clear"
  /\ stackAct' = FALSE
  /\ pcQueue' = "setpri"
  /\ UNCHANGED <<queues, main_priority_queue, prevpriority, endthread, mainVars,
                 selection, sendingVars, toDevice, deviceVars>>

\* ... and only then, outside the lock, set the priority being sent.
QueueSetPriority ==
  /\ pcQueue = "setpri"
  /\ \E d \in priDeviceMap : prevpriority' = Pri[d]
  /\ pcQueue' = "more"
  /\ UNCHANGED <<queues, main_priority_queue, stackAct, endthread, mainVars,
                 selection, sendingVars, toDevice, deviceVars>>

\* The other data: one per device, of the same priority, one only if some
\* data are already being sent.
SelectableAnyPriority(d) == DeviceOf[d] \notin DevicesOf(priDeviceMap)  \* mutant
Selectable(d) == Pri[d] = prevpriority /\ DeviceOf[d] \notin DevicesOf(priDeviceMap)

QueuePopMore ==
  /\ pcQueue = "more"
  /\ \E d \in main_priority_queue :
       /\ IsTop(d, main_priority_queue)
       /\ main_priority_queue' = main_priority_queue \ {d}
       /\ IF Selectable(d)
          THEN /\ priDeviceMap' = priDeviceMap \cup {d} /\ UNCHANGED bufpopdata
               /\ pcQueue' = IF SendingIDmap = {} THEN "more" ELSE "back"
          ELSE /\ bufpopdata' = bufpopdata \cup {d} /\ UNCHANGED priDeviceMap
               /\ pcQueue' = IF Pri[d] = prevpriority THEN "more" ELSE "back"
  /\ UNCHANGED <<queues, interrupt, endthread, mainVars, toppri, sendrate,
                 sendingVars, toDevice, deviceVars>>

QueueNoMore ==
  /\ pcQueue = "more" /\ main_priority_queue = {}
  /\ pcQueue' = "back"
  /\ QueueOnlyMoves

\* calcpermitRate for the data chosen and the rate wd: the classes that get a
\* positive rate.  Data of class S get what is left or SDEF each, those of class
\* M share the rest, and those of class L what is more than MDEF for each M.
SDEF == 16 * 1024
MDEF == 32 * 1024
OfClass(c) == {d \in priDeviceMap : SClass[d] = c}

calcpermitRateShared(wd) ==  \* mutant of calcpermitRate: all of class L or none
  LET left == wd - SDEF * Cardinality(OfClass(0))
  IN  IF left - MDEF * Cardinality(OfClass(1)) < MDEF * Cardinality(OfClass(2))
      THEN 0..1 ELSE 0..2
calcpermitRate(wd) ==
  LET NS == Cardinality(OfClass(0))
      NM == Cardinality(OfClass(1))
      left == wd - SDEF * NS
  IN  CASE \/ OfClass(1) \cup OfClass(2) = {}
           \/ OfClass(0) # {} /\ SDEF * NS > wd - SDEF  -> {0}
        [] OTHER -> IF \/ SDEF * NM > left
                       \/ OfClass(2) = {}
                       \/ OfClass(1) # {} /\ left <= MDEF * NM
                    THEN 0..1 ELSE 0..2

\* With data being sent already calcaddrate decides, for the one datum chosen, on
\* the rate that seems left: less than zero, or enough for some classes only.
PermitRatesAnyClass == SUBSET SizeClass  \* mutant of PermitRates: perhaps none
PermitRates == IF SendingIDmap = {} THEN {calcpermitRate(wd) : wd \in CommRate}
                                    ELSE {0..c : c \in -1..2}

\* Put back what was popped in excess, then compute the rates; with nothing
\* chosen the rates of the data being sent are recomputed and State 10 ends.
PutBackNothing == main_priority_queue  \* mutant of PutBack
PutBack == main_priority_queue \cup bufpopdata

QueuePushBack ==
  /\ pcQueue = "back"
  /\ main_priority_queue' = PutBack
  /\ bufpopdata' = {}
  /\ sendrate' \in PermitRates
  /\ pcQueue' = "permit"
  /\ UNCHANGED <<queues, interrupt, endthread, mainVars, toppri, priDeviceMap,
                 sendingVars, toDevice, deviceVars>>

\* Each chosen datum in turn: registered and permitted, ...
QueuePermit ==
  /\ pcQueue = "permit"
  /\ \E d \in priDeviceMap :
       /\ IsTop(d, priDeviceMap) /\ SClass[d] \in sendrate
       /\ SendingIDmap' = SendingIDmap \cup {d}
       /\ dv_send(DeviceOf[d], Msg("PERMIT", d))
       /\ priDeviceMap' = priDeviceMap \ {d}
  /\ UNCHANGED <<queues, main_priority_queue, interrupt, endthread, mainVars,
                 pcQueue, toppri, bufpopdata, sendrate, IDmapStack, released,
                 deviceVars>>

\* ... or put back when its class has no rate.
QueueReject ==
  /\ pcQueue = "permit"
  /\ \E d \in priDeviceMap :
       /\ IsTop(d, priDeviceMap) /\ SClass[d] \notin sendrate
       /\ main_priority_queue' = main_priority_queue \cup {d}
       /\ priDeviceMap' = priDeviceMap \ {d}
  /\ UNCHANGED <<queues, interrupt, endthread, mainVars, pcQueue, toppri,
                 bufpopdata, sendrate, sendingVars, toDevice, deviceVars>>

QueuePermitted ==
  /\ pcQueue = "permit" /\ priDeviceMap = {}
  /\ sendrate' = {} /\ pcQueue' = "S11"
  /\ UNCHANGED <<queues, main_priority_queue, interrupt, endthread, mainVars,
                 toppri, priDeviceMap, bufpopdata, sendingVars, toDevice,
                 deviceVars>>

-----------------------------------------------------------------------------
(* The queue thread, State 11.                                             *)

\* detectIntertupt, under stackmtx.
QueueDetect ==
  /\ pcQueue = "S11"
  /\ pcQueue' = IF stackAct THEN "S10" ELSE "peek"
  /\ QueueOnlyMoves

\* recv_and_gettype_fromDevice: it waits until the queue holds a message.
QueuePeek ==
  /\ pcQueue = "peek" /\ device_recvqueue # <<>>
  /\ pcQueue' = IF Head(device_recvqueue).type = "COMPLETE" THEN "complete"
                                                            ELSE "S11"
  /\ QueueOnlyMoves

PopComplete ==
  /\ pcQueue = "complete" /\ device_recvqueue # <<>>
  /\ device_recvqueue' = Tail(device_recvqueue)
  /\ UNCHANGED <<server_recvqueue, main_priority_queue, interrupt, endthread,
                 mainVars, selection, deviceVars>>

\* The datum is being sent: release it.
QueueRelease ==
  /\ PopComplete
  /\ LET d == Decoded[Head(device_recvqueue).data]
     IN  /\ d \in SendingIDmap
         /\ SendingIDmap' = SendingIDmap \ {d}
         /\ released' = released \cup {d}
  /\ pcQueue' = "S10"
  /\ UNCHANGED <<IDmapStack, toDevice>>

\* resolutePassing: its map was stacked while the COMPLETE was on its way.
\* The map closest to the top that has it loses it, and goes when it is empty.
\* The device is told so when it has no other datum in that map.
QueueReleaseStacked ==
  /\ PopComplete
  /\ LET d == Decoded[Head(device_recvqueue).data]
     IN  /\ d \notin SendingIDmap
         /\ \E i \in DOMAIN IDmapStack :
              LET rest == IDmapStack[i].map \ {d}
              IN  /\ d \in IDmapStack[i].map
                  /\ \A j \in DOMAIN IDmapStack : j > i => d \notin IDmapStack[j].map
                  /\ IDmapStack' = IF rest = {} THEN RemoveAt(IDmapStack, i)
                                   ELSE [IDmapStack EXCEPT ![i].map = rest]
                  /\ IF DeviceOf[d] \in DevicesOf(rest) THEN UNCHANGED toDevice
                     ELSE dv_send(DeviceOf[d], Update("UPDATE_r"))
         /\ released' = released \cup {d}
  /\ pcQueue' = "S11"
  /\ UNCHANGED SendingIDmap

\* No map has it.
QueueReleaseUnknown ==
  /\ PopComplete
  /\ LET d == Decoded[Head(device_recvqueue).data]
     IN  /\ d \notin SendingIDmap
         /\ \A i \in DOMAIN IDmapStack : d \notin IDmapStack[i].map
  /\ pcQueue' = "S11"
  /\ UNCHANGED <<sendingVars, toDevice>>

Queue == \/ QueueState10 \/ QueueRestore \/ QueueNoRestore \/ QueueReadTop
         \/ QueueSuspend \/ QueuePopFirst \/ QueueClear \/ QueueSetPriority
         \/ QueuePopMore \/ QueueNoMore \/ QueuePushBack \/ QueuePermit
         \/ QueueReject \/ QueuePermitted \/ QueueDetect \/ QueuePeek
         \/ QueueRelease \/ QueueReleaseStacked \/ QueueReleaseUnknown

-----------------------------------------------------------------------------
(* The devices and the application server.                                 *)

\* A device announces a datum.
DeviceMeta(d) ==
  /\ devstate[d] = "new"
  /\ devstate' = [devstate EXCEPT ![d] = "announced"]
  /\ device_recvqueue' = Append(device_recvqueue, Msg("META", d))
  /\ UNCHANGED <<server_recvqueue, main_priority_queue, interrupt, endthread,
                 mainVars, queueVars, toDevice, rates>>

InState(v, s) == {d \in Data : DeviceOf[d] = v /\ devstate[d] = s}

Becomes(d, s) == devstate' = [devstate EXCEPT ![d] = s]

\* A device learns a datum's priority, ...
D_State07(m) == m.type = "PRI" /\ Becomes(m.data, "ranked")

\* ... starts to send it when it is permitted to, ...
D_State08(m) == m.type = "PERMIT" /\ Becomes(m.data, "sending")

\* ... stops one transfer at a STOP, or none when it arrives as a transfer begins
\* or ends, and resumes one of the stopped ones at a RESTART; it misses one that
\* comes when the sender has seen the STOP and not stacked the rest yet.  The
\* UPDATE of resolutePassing has no meaning to it.
D_State10(v, m) ==
  \/ m.type = "STOP" /\ \E d \in InState(v, "sending") : Becomes(d, "stopped")
  \/ m.type = "STOP" /\ UNCHANGED devstate
  \/ m.type = "RESTART" /\ \E d \in InState(v, "stopped") : Becomes(d, "sending")
  \/ m.type = "RESTART" /\ (MayMiss \/ InState(v, "stopped") = {}) /\ UNCHANGED devstate
  \/ m.type = "UPDATE_r" /\ UNCHANGED devstate

\* A device takes the broker's next message.
DeviceTake(v) ==
  /\ toDevice[v] # <<>>
  /\ toDevice' = [toDevice EXCEPT ![v] = Tail(@)]
  /\ LET m == Head(toDevice[v])
     IN  D_State07(m) \/ D_State08(m) \/ D_State10(v, m)
  /\ UNCHANGED <<queues, main_priority_queue, interrupt, endthread, mainVars,
                 queueVars, rates>>

\* The application server has acknowledged a datum: the device reports it.
DeviceComplete(d) ==
  /\ devstate[d] = "sending"
  /\ devstate' = [devstate EXCEPT ![d] = "done"]
  /\ device_recvqueue' = Append(device_recvqueue, Msg("COMPLETE", d))
  /\ UNCHANGED <<server_recvqueue, main_priority_queue, interrupt, endthread,
                 mainVars, queueVars, toDevice, rates>>

\* The application server reports its reception rate, or asks for the end.
ServerRate ==
  /\ rates < MaxRates
  /\ rates' = rates + 1
  /\ server_recvqueue' = Append(server_recvqueue, "RATE")
  /\ UNCHANGED <<device_recvqueue, main_priority_queue, interrupt, endthread,
                 mainVars, queueVars, toDevice, devstate>>

ServerStop ==
  /\ MayStop /\ ~Contains(server_recvqueue, "STOPREQ")
  /\ server_recvqueue' = Append(server_recvqueue, "STOPREQ")
  /\ UNCHANGED <<device_recvqueue, main_priority_queue, interrupt, endthread,
                 mainVars, queueVars, toDevice, deviceVars>>

Environment == \/ \E d \in Data : DeviceMeta(d) \/ DeviceComplete(d)
               \/ \E v \in Device : DeviceTake(v)
               \/ ServerRate \/ ServerStop

-----------------------------------------------------------------------------
Init ==
  /\ device_recvqueue = <<>> /\ server_recvqueue = <<>>
  /\ main_priority_queue = {}
  /\ stackAct = FALSE /\ prevpriority \in InitPrev /\ endthread = FALSE
  /\ pcMain = "S4" /\ cur = NoData
  /\ clock = 0 /\ stamp = [d \in Data |-> 0]
  /\ pcQueue = "none" /\ SendingIDmap = {} /\ IDmapStack = <<>>
  /\ toppri = 0 /\ priDeviceMap = {} /\ bufpopdata = {} /\ sendrate = {}
  /\ released = {}
  /\ toDevice = [v \in Device |-> <<>>]
  /\ devstate = [d \in Data |-> "new"] /\ rates = 0

Next == Main \/ Queue \/ Environment

Spec == Init /\ [][Next]_vars

\* The scheduler of the operating system and the devices: a thread that can go
\* on does, a device reads its link and finishes the transfers it has running.
\* Nothing makes a device announce data or the application server speak.
Fairness == /\ WF_vars(Main) /\ WF_vars(Queue)
            /\ \A v \in Device : WF_vars(DeviceTake(v))
            /\ \A d \in Data : WF_vars(DeviceComplete(d))

FairSpec == Spec /\ Fairness

-----------------------------------------------------------------------------
(* Properties.                                                             *)

\* Type correctness.
TypeOK ==
  /\ device_recvqueue \in Seq(DeviceMsg) /\ server_recvqueue \in Seq(ServerMsg)
  /\ main_priority_queue \subseteq Data
  /\ stackAct \in BOOLEAN /\ prevpriority \in Int /\ endthread \in BOOLEAN
  /\ pcMain \in {"S4", "S4peek", "S5", "S5pri", "S5push", "S5int", "S5peek", "S6",
                 "S7", "S0", "end"}
  /\ cur \in Data \cup {NoData}
  /\ pcMain \in {"S5pri", "S5push", "S5int"} => cur \in Data
  /\ clock \in Nat /\ stamp \in [Data -> Nat]
  /\ pcQueue \in {"none", "S10", "return", "interrupt", "suspend", "pop", "clear",
                  "setpri", "more", "back", "permit", "S11", "peek", "complete", "end"}
  /\ SendingIDmap \subseteq Data
  /\ IDmapStack \in Seq([pri : Int, map : SUBSET Data])
  /\ toppri \in Int /\ priDeviceMap \subseteq Data /\ bufpopdata \subseteq Data
  /\ sendrate \subseteq SizeClass /\ released \subseteq Data
  /\ toDevice \in [Device -> Seq(BrokerMsg)]
  /\ devstate \in [Data -> {"new", "announced", "ranked", "sending", "stopped", "done"}]
  /\ rates \in 0..MaxRates

\* Two threads look at the head of the device queue and pop it later, main only
\* what it saw as META and queue only what it saw as COMPLETE (the peek and the
\* pop take the queue's mutex separately).  What a thread pops is always what
\* it saw, although the other one pops from the same queue in between.
PeekMatchesPop ==
  /\ pcMain = "S5" => /\ device_recvqueue # <<>>
                      /\ Head(device_recvqueue).type = "META"
  /\ pcMain = "S7" => server_recvqueue # <<>> /\ Head(server_recvqueue) = "RATE"
  /\ pcQueue = "complete" => /\ device_recvqueue # <<>>
                             /\ Head(device_recvqueue).type = "COMPLETE"

\* The data in the hands of State 5 that it has not queued yet.
InHand == IF pcMain \in {"S5pri", "S5push"} THEN {cur} ELSE {}

Parked == UNION {IDmapStack[i].map : i \in DOMAIN IDmapStack}

Places == <<InHand, main_priority_queue, priDeviceMap, bufpopdata, SendingIDmap,
            Parked, released>>

\* Every datum State 5 accepted is in exactly one place: no push-back, suspension,
\* restoration or release of a stacked map loses a datum or schedules it twice.
HeldOnce ==
  /\ {d \in Data : stamp[d] > 0} = UNION {Places[i] : i \in DOMAIN Places}
  /\ \A i, j \in DOMAIN Places : i # j => Places[i] \cap Places[j] = {}
  /\ \A i, j \in DOMAIN IDmapStack :
        i # j => IDmapStack[i].map \cap IDmapStack[j].map = {}

\* The permission for d is on its way, or d is being sent, or is suspended, or
\* its COMPLETE is on its way.
UnderWay(d) ==
  \/ Contains(toDevice[DeviceOf[d]], Msg("PERMIT", d))
  \/ devstate[d] \in {"sending", "stopped"}
  \/ Contains(device_recvqueue, Msg("COMPLETE", d))

\* The broker's registers agree with the devices: every COMPLETE finds its datum
\* registered, in the current or a stacked map, and whatever is registered has a
\* COMPLETE to come, so no registration keeps SendingIDmap from becoming empty.
RegisteredIffUnderWay ==
  \A d \in Data : UnderWay(d) <=> d \in SendingIDmap \cup Parked

\* The data being sent all have the priority the main thread compares with, and
\* those of a stacked map the priority it was stacked under; an empty map is
\* never stacked or left on the stack, so a restoration always restarts data.
OnePriorityAtATime ==
  /\ \A d \in SendingIDmap : Pri[d] = prevpriority
  /\ \A i \in DOMAIN IDmapStack :
       /\ IDmapStack[i].map # {}
       /\ \A d \in IDmapStack[i].map : Pri[d] = IDmapStack[i].pri

\* A device learns a datum's priority before it is permitted to send it (it
\* tells it the application server with DECDATA), although PRI and PERMIT are
\* sent by different threads.
PermitAfterPri ==
  \A v \in Device, d \in Data :
    toDevice[v] # <<>> /\ Head(toDevice[v]) = Msg("PERMIT", d)
      => devstate[d] = "ranked"

\* A transfer is suspended only for a more urgent datum that is still waiting,
\* although the queue's top is read before stackmtx is locked.
SuspendForMoreUrgent ==
  pcQueue = "suspend" => \E d \in main_priority_queue :
                           \A e \in SendingIDmap : Pri[d] < Pri[e]

\* Every accepted datum is delivered.
EveryDatumDelivered == \A d \in Data : stamp[d] > 0 ~> d \in released

\* A suspended map goes back to being sent when, as the comment of returnInter-
\* ruptHighPriority says, it comes before what waits: its data are delivered.
SuspendedDelivered == \A d \in Data : d \in Parked ~> d \in released

\* The queue thread waits for a COMPLETE only while something is being sent.  It
\* chooses data by priority, and the rates by class: were a batch chosen with
\* nothing being sent rejected as a whole, nobody would send the COMPLETE.
WaitsForSomething == pcQueue \in {"S11", "peek", "complete"} => SendingIDmap # {}

\* The scheduler delivers as Delivery says, seen from the devices: a datum waits
\* from its META until it is registered, wherever the threads have it meanwhile.
Waiting == {d \in Data : stamp[d] > 0} \ (SendingIDmap \cup Parked \cup released)
Dlv == INSTANCE Delivery WITH waiting <- Waiting, sending <- SendingIDmap,
                              suspended <- Parked
Delivery == Dlv!Spec

=============================================================================
