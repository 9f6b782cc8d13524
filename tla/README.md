# A verification project for IoTPriorityMechanism

TLA+ models of the priority control mechanism in `src/core`, the TLC runs that
check them on small instances, and theorems about them checked by TLAPS. Paths
below are relative to `src/core`.

## 1. The system

IoT devices hold data for an application server. Before a device may send a
datum it announces it to the broker, which ranks it and decides when it is sent;
more urgent data interrupt less urgent ones. Control messages go through the
broker, the data themselves go from the device to the application server.

    device                 broker                          application server
      | -- META(d) -------> |  rank d, queue it                  |
      | <------- PRI(d) --- |                                    |
      | <---- PERMIT(d) --- |  when it is d's turn               |
      | -- DECDATA(d), then DATA(d) in chunks -----------------> |
      | <---- STOP -------- |  something more urgent came        |
      | <---- RESTART ----- |  it is done                        |
      | <------------------------------------------ ACK(d) ----- |
      | -- COMPLETE(d) ---> |  d is no longer being sent         |
                            | <--- RATE, STOPREQ --------------- |

### Components

| component | state | operations | interacts by |
|---|---|---|---|
| broker, main thread (`BrokerServer`, `BrokerState/BState04`-`07`, `00`) | the state it is in; reads both receive queues | rank and queue a datum (5), raise an interrupt (5), take the rate (7), stop (0) | `device_recvqueue`, `server_recvqueue`, `main_priority_queue`, `stackAct`, `prevpriority`, `endthread` |
| broker, queue thread (`BState10`, `BState11`) | the batch it is choosing, rates, `SendingIDmap` | choose and permit data (10), release completed ones (11) | the same, and the links to the devices |
| `InterruptController` | `IDmapStack`, `sendrateStack`, `stackAct` | suspend, restore, detect, release from a stacked map | called by both threads, `stackmtx` |
| device, main thread (`IoTDevices`, `DeviceState`) | buffered data, remove queue | announce (6), take PRI (7), PERMIT (8), ACK (9), UPDATE (10), reconnect (11) | `broker_recvqueue`, `server_recvqueue`, its session |
| session (`utils/SyncBaseSockSession`) | `sendqueue`, `sendstack`, `flag_sendChange`, state of the socket | send, queue for the sender thread, interrupt, resume, receive | `sendmtx`, `changemtx`, `gmtx`; callbacks into the entity |
| application server (`AppServer`, `APState`) | per session `device_remaindata` and `remainstack`, the counter of data in reception, bytes by priority | put interleaved data together, acknowledge, measure the rate, report it | callbacks of the sessions' receive threads; the link to the broker |
| connections (`SyncServerSockets`, `SyncClientSocket`, `onExecute_connect`, `execute_connect`) | accepted sessions, the maps between devices and sessions | accept, connect, reconnect, close | receive threads change the maps the main threads read |
| messages (`structure/PriorityMessage` and the payload classes) | - | build and cut out messages of a byte stream | every link |
| queues (`MultiMessageQueue`, `MultiMassagePriorityQueue`, `MultiMessageStack`) | elements, a mutex, two conditions | push, pop, read, read with a time limit | shared by threads |
| priority table (`PTEntitiy`) | entries of device, type, time and priority | first match | State 5 |
| admin tables, `NormalIoTDevices`, `sample/` | - | not part of the mechanism | - |

### What is hard about it

* Two broker threads share the queues. Looking at the head and popping it are
  two critical sections, with the other thread in between.
* The interrupt is a flag and a priority, set and reset by both threads, not
  always under the same lock and not always together.
* Suspension is a stack in the broker, a stack in every device's session and a
  stack in the application server's reception. Nothing ties them together but the order
  of messages on different links: a STOP can cross a COMPLETE, a RESTART can
  come before the device has stacked anything.
* A chunk of data does not say which datum it belongs to. Only its position in the
  stream does.
* A read may end anywhere, and returns only with four bytes or more.
* Numbers: data IDs through signed characters, sizes in digits, rates as
  fractions that a count of zero enters.
* Reconnection replaces a session while its threads run.

`PROJECT.json` lists these hazards one by one, at the line where they bite, with
the properties that cover them.

### What makes each part correct

* Scheduler: an accepted datum is never lost or scheduled twice; what the broker
  registers as being sent is what is under way; one priority at a time; nothing
  suspended without cause, nothing suspended for ever.
* Transfer: the server puts together each datum whole, whatever interrupts what;
  both sides keep interrupted data in one order; no priority is counted less than came
  of its datum.
* Framing: messages are cut out as they were put in, on each link by itself.
* Connections: what is heard is from a device the table knows; a session is
  replaced only when its thread has ended; a device whose link is up is served,
  whatever becomes of the others.
* Device: every PERMIT is answered by one COMPLETE, evicted or not; what is evicted is
  the least urgent.
* Queues: a bounded mailbox, in spite of one notification for several waiters.
* Application server: CONNECT is heard first; a stop that was accepted takes effect.

## 2. The modules

| module | what |
|---|---|
| `BrokerScheduler` | the broker's two threads and `InterruptController`, with devices and server as environment |
| `Delivery` | what the scheduler promises a device; `BrokerScheduler` implements it |
| `BrokerSchedulerProofs`, `BrokerSchedulerData` | its proofs: types, priorities, suspension, the batch and the peeked queue; data in one place, the refinement, and what the registers and the links know of a datum |
| `Transfer`, `TransferProofs` | one device's data on their way to the application server; proofs |
| `Framing`, `FramingProofs` | messages and byte streams; proofs |
| `Sessions`, `SessionsProofs` | connections between devices and the broker: accept, CONNECT, loss, reconnection, restart; proofs |
| `Device`, `DeviceProofs` | the device's main thread and its buffer; proofs |
| `MessageQueue` | the queue between threads, with its conditions |
| `Mailbox` | what the threads expect of it; `MessageQueue` implements it |
| `MessageQueueProofs` | its proofs |
| `AppServer`, `AppServerProofs` | the application server's states, its link to the broker, the measured time; proofs |
| `MCBrokerScheduler`, `MCTransfer`, `MCFraming`, `MCSessions`, `MCMessageQueue` | instances for TLC (`Device` and `AppServer` need none) |

How they fit together: each module details one component and keeps of the others
what they may do to it. `BrokerScheduler` takes the queues as `Mailbox` says they
are, the links as `Framing` says, and a transfer as it is in `Transfer`, which keeps the
broker's registers for one device. `Device` and `Sessions` have the broker as
`BrokerScheduler` has it: it answers a META with a PRI and permits a datum once.
`AppServer` counts the data in reception as `Transfer` shows they are counted.

### BrokerScheduler

Variables have the names of the members they stand for; a datum is a model value,
and `SendingIDmap`, a map of maps in the code, is the set of the data in it.
`pcMain` and `pcQueue` say where the two threads are: `S5`, `S10`, ... at the
start of a state, and a name of its own for each point inside a state between two
accesses to what the other thread can touch. A step of a thread is what it does
from one such point to the next, with everything it does to its own state.

| code | actions |
|---|---|
| State 4 | `MainSpawn`, `MainState4` |
| State 5 | `MainPopMeta`, `MainSendPri`, `MainPush`, `MainInterrupt`, `MainState5Again` |
| States 6, 7, 0 | `MainState6`, `MainState7`, `MainState0` |
| State 10, interrupts | `QueueState10`, `QueueRestore`, `QueueNoRestore`, `QueueReadTop`, `QueueSuspend` |
| State 10, choice and permission | `QueuePopFirst`, `QueueClear`, `QueueSetPriority`, `QueuePopMore`, `QueueNoMore`, `QueuePushBack`, `QueuePermit`, `QueueReject`, `QueuePermitted` |
| State 11 | `QueueDetect`, `QueuePeek`, `QueueRelease`, `QueueReleaseStacked`, `QueueReleaseUnknown` |
| devices | `DeviceMeta`, `DeviceTake`, `DeviceComplete` |
| application server | `ServerRate`, `ServerStop` |

Abstractions, and why they lose nothing the properties tell apart:

* Of the rates only which size classes get one is kept. When nothing is being sent
  that is computed as `calcpermitRate` does it, in whole bps, from the reported rate
  (`CommRate` holds the rates that may be reported) and the classes of the batch;
  when something is, `calcaddrate` may leave anything to anyone. UPDATE
  messages that carry only a rate, and State 7's pass over `SendingIDmap` to send
  them, change no control state and are left out.
* The waits of 50 ms on two queues are merged: a peek sees the server's queue
  first. `MessageQueue` shows that the limit makes up for a notification that goes
  to the wrong waiter.
* The test for an empty priority queue and the read of its top are one step: only
  the queue thread takes data off it. Its order is priority, then arrival;
  arrival times are distinct.
* A device announces each datum once. A datum its buffer evicted is reported
  with COMPLETE as soon as it is permitted: that is a PERMIT taken and a
  `DeviceComplete`.
* A STOP stops one transfer or, when it comes as one begins or ends, none. A
  RESTART resumes one, or none if nothing is stopped, or if it comes when the
  sender thread has seen the STOP and not stacked the rest yet (`MayMiss`;
  `Transfer` shows how). `Transfer` is the detailed form of this.
* `Decoded` is what State 11 reads as the ID of a datum: the 128th datum of a device
  is read as datum -128, through signed characters.
* Links lose nothing and keep order; their loss is in `Sessions`.

`Delivery` has four sets: the data that wait, are being sent, are suspended, and are
released. Its steps say that data sent together have one priority, that all of
them are suspended at once and only for something more urgent that waits, that they are
resumed when nothing is being sent and what waits is no more urgent, and that
each is released once. The mapping takes a datum as waiting from its META until it
is registered, wherever the threads hold it meanwhile (`Waiting`), and the maps of
the stack together as the suspended data.

### Transfer

One device, its connection to the application server, and the broker as the
environment: what it keeps of this one device.

| code | actions |
|---|---|
| States 8, 9 and 10 of the device, as State 5 chooses them | `MainPermit`, `MainPresend`, `MainQueue`, `MainComplete`, `MainStop`, `MainRestart` |
| `send_forever` | `SendStart`, `SendLock`, `SendChunk`, `SendCheck`, `SendPark` |
| `recv_forever`, `changeRecvData`, `onRecvFromDevices`, `mesureLength` | `ServerRead`, `ServerMarker`, `ServerDecdata`, `ServerData`, `ServerFragment` |
| the broker | `BrokerPermit`, `BrokerStop`, `BrokerRestart`, `BrokerRelease` |

A marker, a DECDATA and a chunk are one token each. A chunk carries its datum
and its number so that properties can speak of them; the server's actions only
look at what the bytes would tell them: whether they are a marker, and the type
and length at the head of what has come. A read takes up to `MaxRead` tokens
(`datalength`); the actions after it are the rounds of the loop over what was read, a token
at a time (`left`). `mesureLength` adds the length of the whole read in each round that finds a
DATA message, for the priority that `devid_pri_map` has then, and so does the model
(`devid_byte_map`, with an entry for each datum's priority). That a read may end inside a
token, after up to three bytes of a message, is left to `Framing`. `sendmtx` is held by the sender thread
exactly while `pcSend` is `write`, `check` or `park`; `MainPresend`, which
holds it from the marker to the DECDATA, is one step. `used_basicSend` only
delays the sender and is left out, as are errors of the socket, reconnection,
rate changes (the delay between chunks is commented out in the code), and the
escaping of the chunks.

The device takes PERMIT, STOP and RESTART at any time: nothing in the code makes it wait for
the messages before to have had their effect. So an item may overtake another: a DECDATA
is written while an item is still queued, or an item is put on `sendstack` while the sender has
another to go on with. From then on the two stacks differ, and the server may join two data
(`MarkerMissing`). The history variable `overtaken`, which no action reads, is set by just these
two steps (`Overtakes`); the properties say what holds until then, however the steps of the
two threads, the server and the broker interleave.

`AccountedRight` bounds what is counted from below. What was counted too much is not
bounded: see section 4.

`StacksMirror` pairs the partial messages of the server with the items the device has
begun, counted from the bottom of `sendstack` and, after it, from the end of `sendqueue`
(`Begun`, `PlaceOf`). `BrokerRelease` takes a datum out of the map closest to the top that
has it, as `releaseprevIDmap` finds it by popping maps and pushing them back.

### Framing

`Send` is `basic_send`, and the receive thread of each link has the actions `Read` (of any
length from 4 bytes up), `CallWhole` (what was read is handed to the callback, which puts it
behind what was left), `CallSplit` (what was read has six 1s: only what is before them is
handed on), `Receive` (one round of the loop of `onRecv_base`) and
`Keep`. Bytes are numbers, because the property is about the conversion; the base of
the size digits is a constant, 128 in the code and 3 in the runs, so that sizes of
two digits are short. What the loops over the digits add up is written as recursive
functions (`Left`, `mult`, `SizeRead`), which can be proved about. `StoredIn` says which
buffer what is left goes to: the link's own in the servers; the device stores the rest of both
links in the broker link's (IoTDevices.cpp:366), and the run has that. `checkSameSeq` is what `basic_send`
makes of a message after its size was computed, `checkreadSeq` where the receiver finds six 1s
in a copy of what it has read, without the 0s it takes for inserted ones; the copy is used for nothing else.

A link is `disturbed`, a history variable no action reads, once a 0 was inserted in what was
written to it, a read of it was split, or another link's thread changed what it had left
over. The code repairs none of these, and nothing can be said of what is received after
it. `ReceivedAsSent` says that one thing at most goes wrong on the other links: a
message whose size is a multiple of the base, cut after the first digit, is taken for an empty
one (`TakenForEmpty`).

A digit that `putMessage` reads past the end of the data is 0, the terminator of the empty
string; the string is a temporary that is gone when it is read, and the value is
the one the build produces. The end of a connection is not modelled.

### Sessions

Connections are numbered as they are made, which is as the broker accepts them; the
number stands for the broker's session ID. A device writes to the wire of its
connection, the broker answers on the way down. Sent are CONNECT with its flag and META
with a number, which the broker's main thread answers.

| code | actions |
|---|---|
| `Sync_ServerSockets::accept` | `Accept`, `AcceptInsert` |
| `onRecv_base`, `onExecute_connect`, `closeSession` | `SessionRecv`, `SessionEnd`, `closeSession` |
| `dv_send`, `basic_send` | `Answer` |
| the device's start, State 6, State 11, `br_startReconnect` | `DeviceStart`, `DeviceConnect`, `DeviceMeta`, `DeviceState11` |
| `reconnect`, `stop_sendrecv_forever` | `DeviceStop`, `DeviceJoin`, `DeviceReconnect` |
| `recv_forever` of the device | `RecvTest`, `RecvLock`, `RecvRead`, `RecvFails` |
| outside | `LinkBreaks`, `DeviceRestart` |

A link that breaks loses any end of what is on it in either direction; who writes to it
afterwards may or may not be told. The broker ends (`terminated`) where the code
throws in a thread or follows a null pointer: a thread that joins itself in
`closeSession`, the name asked of a peer that is gone, an answer over a session
that is not in `acceptedSocks` yet. After that nothing is of interest and the model
stops.

### Device

State 5 looks at the three queues in the code's order, one of them at a time; each
other state is one step. The buffer is a function from IDs to size and priority. The
remove queue is the set of its entries, since its order (`PopsFirst`) is total on them; the
loop of `removeBufferData` pops an entry if, at it and at every entry before it, what had
been removed was less than what must go. `MaxEvents` bounds what the
environment does: data the user sends, UPDATE messages, losses of the broker's link.
The broker answers METAs in order and permits each datum once, whenever it likes; the
server acknowledges in any order, or never: a transfer may be suspended and forgotten (finding 1).
A COMPLETE or META whose write fails is
lost, as in the code, which sends neither again; `lost` remembers it. `undefined` is
set where the code calls `top()` of an empty queue (DState07.cpp:68), after which
anything may happen; `RoomMade` says when it cannot.

### MessageQueue

Each operation runs with the mutex locked from its call, or from a wake-up, to its
return or its wait, and that is one step: `push`, `pop`, `read`, `read_withtimeout`,
and `Consume` for `next`. A waiting thread is woken by a notification, by the time
limit (`TimeLimit`), or by nothing (`Spurious`). `notify_one` picks any waiter. The queue
is used in two ways, and both are here: threads that poll and pop what they look
for, two of them on the broker's `device_recvqueue`, and the sender of a session. The
two that share a queue look for different kinds of message, an assumption
(`QueueAssumption`) that holds for States 4, 5 and 11 and that `Mailbox` needs: a thread
pops what it saw at the head.

### AppServer

| code | actions |
|---|---|
| `run_Entitiy`, `nextState`, `execState` | `Start`, `SendConnect`, `Advance` |
| States 0 and 6 | `State0`, `State6Stop`, `State6Report` |
| State 7, `CalcCurRate` | `State7Counter`, `State7Add`, `State7Test`, `State7Divide`, `State7Reset`, `State7Send` |
| State 8, `startReconnect`, `reconnect` | `State8`, `State8Stop`, `State8Join`, `State8Reconnect`, `State8Connect`, `State8Return` |
| `api_stop`, called by the application | `api_stop` |
| receive thread of the link | `RecvTest`, `RecvLock`, `RecvEnds` |
| receive threads of the sessions | `incrementRecvCounter`, `decrementRecvCounter`, `AddMeasured` |

`CalcCurRate` is cut where other threads can come in between: it tests the counter,
locks `recvmtx` to add the time, and tests, divides by and resets the total with
`recvmtx` unlocked. A session's thread reads the total and writes the sum in two steps,
since the main thread may write it in between. Values the build leaves open are
chosen arbitrarily: what `startReconnect` returns without a return statement, and
whether `PrevTime`, which is never initialised, lets the first report come.
The process crashes (`crashed`) where a null pointer is followed: State 8 without a
first connection, `api_stop` before the first state is entered. Of the messages on a
link only the first that is received is kept, as `ConnectFirst` is about no other.

## 3. The runs

| run | instance | shows | states |
|---|---|---|---|
| `Scheduling` | 4 data of priorities 3, 3, 2, 1 on 2 devices, 3 reported rates | the scheduler's types and seven safety properties; it implements `Delivery` | 1.6 million |
| `ServerMessages` | 3 data, one RATE, a STOPREQ, an ID decoded wrongly | what was peeked is popped, no datum is lost, through States 6, 7, 0 | 317 000 |
| `OnePriority` | 3 data of one priority, one RATE | every accepted datum is delivered | 103 000 |
| `Transfers` | 3 data of 3, 2, 1 chunks, 2 STOPs, reads of 1 or 2 tokens, until an item is overtaken | data whole, stacks in one order, nothing counted too little, delivered or stopped | 1.26 million |
| `Frames` | the 2 links of a device with one buffer, payloads of 0 to 5 bytes in base 3 | messages received as sent; all but the last one received | 636 000 |
| `Sessions` | 2 devices, 3 connections, one of which breaks, 3 or 30 accepted | heard means known; a session is replaced when idle; the other device is served | 238 000 |
| `Device` | sizes 2 and 5 in a buffer of 9, 2 priorities, 3 events | one COMPLETE per datum, least urgent evicted, room made, PERMITs answered | 212 000 |
| `Queues` | capacity 2; 1 or 2 threads push 3 messages each, 2 poll or 1 sends | at most one pusher is forgotten; `Mailbox` and its fairness | 89 000 |
| `AppServer` | 2 sessions, times up to 3, 3 connections | CONNECT first, a tested total, a stop honoured | 127 000 |
| `ForgottenMap` | 3 data of priorities 3, 1, 2 | violation, finding 1 | |
| `MarkerMissing` | `Transfers`' data, one token a read | violation, finding 2 | |
| `Reconnect` | `Sessions` | violation, finding 3 | |

Bounds. Three levels of priority let suspensions nest two deep, with a third batch
on top; two data of the same priority on two devices make a batch of more than
one, so a COMPLETE can leave a stacked map non-empty as well as empty; two data on
one device make the device-wide UPDATE of `resolutePassing` and the rule of one
datum per device matter. The code looks at the top of a stack, at its elements one by
one and at nothing else, so a third level of nesting meets no new case. The three rates
give one, two and all classes of a batch a share. In `Transfers` three data and
two STOPs let a datum be interrupted twice and an interrupting one be
interrupted; sizes 3, 2 and 1 allow stops between all, some and no chunks, and a read of two
tokens may have the end of one datum and the beginning or the rest of another. Its
`CONSTRAINT InOrder` leaves out what follows once an item has been overtaken, where every
property holds by definition; the liveness property is true there too. Messages of
`Frames` have one and two digits of size, one of them a multiple of the base and one an end
of six 1s, and reads cut them everywhere: the run takes a message for empty, inserts 0s, splits
reads and puts the rest of one link in front of the other's. In `Sessions` one device connects twice and
the other once; 3 accepted connections let `accept` return its mutex, 30 do not. In
`Device` one large and two small data fill the buffer, and three events are three data,
or data with an UPDATE or a broken link. In `Queues` two messages fill the queue while a third
waits, on either side. `AppServer` loses its first link and the next and has
both succeed or fail; with `Enough` at 1 and times to 3 a total is short,
significant, or saturated. Other messages carry no data and are bounded by
`MaxRates`, `MaxStops`, `MaxEvents`; queues and stacks are bounded by the data.

`CHECK_DEADLOCK FALSE`: all runs stop when the data are delivered and nothing new
is announced, as the system waits for new data, or when a process has ended. That
they do not stop too early is what the liveness properties are for.

Fairness. A thread of the broker, of the device or of the server that can go on
does (`WF` of each thread as a whole): they are operating system threads that
wait on conditions or poll. Time limits run out. A device reads its link. In `OnePriority`,
where nothing is ever suspended, a transfer ends, because TCP delivers and the server
acknowledges. `Device` does not assume that: only its main thread is fair, and
`PermitAnswered` and `PermittedLeaves` except a datum whose transfer never ends (`NeverEnds`). Nothing is
assumed of the application server's own messages or of new data, nor, in `Transfer`, of
the broker's decisions, except that it handles COMPLETE; nor does a link have to break, a
broken one be noticed, or an application ask for a stop. One strong fairness is used,
for `State7Add`: a mutex that the sessions' threads lock now and then is not withheld
from the main thread for ever.

Every property of a passing run is shown to bite by a mutant of the code
(`PROJECT.json`, `mutants`): a plausible slip in one definition, which violates the property
under the same configuration.

## 4. Findings

1. `ForgottenMap`: a suspended map is restored only if some other datum waits.
   When the urgent data are done and none does, State 10 blocks for a new datum and the
   suspended transfers stay stopped.
2. `MarkerMissing`: `resumSend` empties the stack before the sender thread goes on
   with the datum. A DECDATA sent in between has no marker, and the server
   joins two data.
3. `Reconnect`: at a reconnection the broker closes the session it has just put in its
   table instead of the one before, from that session's own receive thread. Nobody
   reads what the device writes to it; if `accept` has ended, the thread joins itself
   and the process with it.

Other divergences that the models contain, or that their instances are chosen to avoid,
with the line where they are:

* State 10 drops the interrupt signal under the lock and sets `prevpriority` later
  (BState10.cpp:63, 70): a datum compared in between raises a signal nothing justifies,
  which State 10 does not clear, so that States 10 and 11 alternate. It suspends
  nothing (`SuspendForMoreUrgent`).
* A COMPLETE that crosses a STOP removes its datum from the stacked map; the message
  that is to pop the device's stack has a payload the device does not know
  (InterruptController.cpp:76).
* The 128th datum of a device is never released (BState11.cpp:38).
* A message whose payload is a multiple of 128 bytes long, cut after its fourth byte, is
  taken for complete and empty (PriorityMessage.cpp:114).
* The device keeps the rest of the server's bytes in the broker link's buffer
  (IoTDevices.cpp:366).
* `basic_send` escapes a message after its size was put in its head, and the receiver
  unescapes only the copy it looks for six 1s in (SyncBaseSockSession.cpp:64, 346): a
  message with five 1s comes a byte longer than it says, one whose end has six is cut there.
* Each round that finds a DATA message counts the whole read (AppServer.cpp:281-302): a read
  in which a datum ends and another begins or is gone on with is counted for both, one that
  begins with the DECDATA of the next datum for that one alone.
* A PERMIT or STOP that is taken before the one before it has had its effect lets an item overtake
  another; the stacks of device and server then differ (SyncBaseSockSession.cpp:68, 243).
* `reconnect` reports success also when it failed; the link then stays `RECONNECTING`
  and State 8 and State 11 never try again (SyncClientSocket.cpp:56).
* The join of a receive thread holds `gmtx`, which that thread may be waiting for
  (SyncBaseSockSession.cpp:393-402).
* Reception time is added twice when the last reception ends between the test of the
  counter and the lock, and lost when it ends before the reset (AppServer.cpp:238-255).

## 5. The proofs

TLAPS checks what follows for every value of the constants that satisfies the named
assumption of each module. The passing runs check 40 properties, a few of them on two
instances; 31 are proved, all the safety properties among them. Every invariant that is
not inductive is strengthened to one that is, with the step proved action by action.

### BrokerScheduler

For any devices, data, priorities, size classes and decoding that satisfy
`DataAssumption` (priorities from 0 to 15, as the message format has them; decoding stays
on the device), any number of messages and with or without STOPREQ:

| theorem | property | inductive invariant |
|---|---|---|
| `TypeCorrect` | `TypeOK` | itself |
| `OnePriorityCorrect` | `OnePriorityAtATime` | `QueueInv` |
| `SuspensionCorrect` | `SuspendForMoreUrgent` | `QueueInv` |
| `WaitsCorrect` | `WaitsForSomething` | `BatchInv` |
| `PeekCorrect` | `PeekMatchesPop` | `PeekInv` |
| `HeldOnceCorrect` | `HeldOnce` | `HeldInv`, with `AnnouncedInv` |
| `DeliveryImplemented` | `Delivery` | the above |
| `PermitAfterPriCorrect` | `PermitAfterPri` | `PriInv` |
| `RegistersCorrect` | `RegisteredIffUnderWay` | `UnderWayInv` |

* `TypeOK` is inductive. The lemmas it needs are about stacks: what `Front` and
  `RemoveAt` do to a sequence.
* `OnePriorityAtATime` is not inductive: a datum is added to `SendingIDmap` by
  `QueuePermit` because of what `QueueSetPriority` and `QueuePopMore` did before.
  `QueueInv` adds what the queue thread knows at each of its points: the batch has
  `prevpriority` from `more` on; nothing is being sent when the stack is looked at or
  the first datum is taken, so a restoration and a new priority replace an empty
  map; at `suspend` some datum has the priority that was read. Only the
  queue thread writes these variables, apart from what the main thread adds to
  the queue (`QueueInvStable`), so the proof is about its 19 actions.
* `WaitsForSomething`: State 11 never waits with nothing being sent. A batch that is chosen
  when nothing is being sent gets a share for one of its classes at every rate that may be
  reported, so a datum of it is permitted; `BatchInv` keeps, for each point of the batch, that
  something is being sent or a datum of it that has a share is still to come.
* `PeekMatchesPop` needs that the other thread does not pop the head one has
  seen: State 11 pops a COMPLETE and State 5 a META. Before its first peek State 5 pops
  without looking; `FirstDatumInv` says that what it finds is a META, because a
  COMPLETE needs a PERMIT, a PERMIT needs a datum in the queue, and
  there is none before the first META is taken.
* `HeldOnce` is proved as a partition into seven places (`Split`), together with
  stacked maps being disjoint (`Separate`). A step moves data between two
  places, which set lemmas state once; that a META is taken once (`AnnouncedInv`)
  makes the datum State 5 takes new.
* `Delivery`: initial states map to initial states, and every step to a step of
  `Delivery` or to a stutter (`DeliveryNext`). `QueueInv`, `Split` and `Separate` are what it
  rests on: the batch waits until `QueuePermit` registers it, what is suspended is
  what was being sent, and a datum leaves one of the four sets as it enters another.
* `PermitAfterPri`: PRI is sent by the main thread and PERMIT by the queue thread, over one
  link. `PriInv` follows a datum from META to PERMIT: while the main thread has not sent its PRI
  nobody else has it, and from then on PRI is before PERMIT on the link or was taken.
* `RegisteredIffUnderWay`: `UnderWayInv` says of each datum that its PERMIT, its transfer and
  its COMPLETE exclude each other and that one of them is there just when it is registered. Its
  theorem supposes `Decoded[d] = d` for every datum, which State 11 does for the IDs below
  128; what it does with the others is in `ServerMessages`.

### MessageQueue

For any threads and any sharing that satisfies `QueueAssumption`:
`TypeCorrect` (`TypeOK`), `AllWaitFull` (`AllWaitOnlyWhenFull`), `MailboxImplemented`
(`Mailbox`). `AllWaitOnlyWhenFull` is proved by a case analysis of who may be woken: a
pop of a full queue wakes one of the pushers, so not all of them wait when the
queue is no longer full. `Mailbox` needs that the head a thread has seen is
there when it pops: only a thread that looks for the same kind could have taken it.

### AppServer

For any sessions, any number of links and any `Enough` below `MaxSec`:

* `TypeCorrect` (`TypeOK`). That the counter of receptions is not negative needs
  `CounterInv`: it is the number of sessions in reception.
* `TotalTested` (`TestedTotal`). A session's thread that has read the total and not
  written it holds `recvmtx`; the main thread adds only with `recvmtx` locked and
  otherwise resets, so meanwhile the total is at most what was read (`SeenIsMost`), and
  the write cannot lower it below what was tested.
* `ConnectHeardFirst` (`ConnectFirst`). Where a RATE may be sent over an active link,
  either the CONNECT was received or the link broke and nothing is received any more
  (`Announced`); a link that has not been made has received nothing (`FutureLinks`).

### Sessions

For any devices, any number of connections of which any may break:

* `TypeCorrect` (`TypeOK`), with who made a connection (`Owned`).
* `HeardCorrect` (`HeardIsKnown`). `Announced` says that the first thing on the wire of a device
  the broker does not know is a CONNECT, and that a device that may write something else is
  known, has its CONNECT on the wire, or writes to a broken link.
* `ReplacedCorrect` (`ReplacedWhenIdle`). `Idle` says that a receive thread runs only while
  its flag is up or its device is joining it.

### Device

For any sizes, priorities and buffer, and any number of data:

* `TypeCorrect` (`TypeOK`).
* `CompletedOnceCorrect` (`CompletedOnce`). Nothing marks a datum as reported. `OnceInv` follows
  the one report that is owed: META at the broker, ranked, PERMIT on the way, datum at the
  server, ACK on the way, each excluding the later ones; `FreshInv` says that
  a new ID has none of them.
* `SentWithPriorityCorrect` (`SentWithPriority`). `PendingInv`: a buffered datum has its
  priority, or the PRI is in the queue before any PERMIT for it, or was lost.
* `EvictedCorrect` (`EvictedLeastUrgent`, an action property). By `RankInv` every buffered datum
  that has a priority is in the remove queue, with that priority; what the loop pops is
  closed under the queue's order.
* `RoomMadeCorrect` (`RoomMade`, an action property). The loop pops an entry while what it has
  removed is less than what must go, so it stops short only when nothing is left; then, by
  `RankInv`, what stays buffered has no priority, and that was supposed to leave room. Sizes
  are sums over sets: `SizeOfElement` and `SizeOfSplit` say what one entry adds and that what is
  removed and what stays make up the whole. They are proved by induction over a set of
  numbers (`NatInd`), as the prover takes no formula for a parameter.

### Transfer

For data of any sizes, any number of STOPs, reads of any length, and PERMIT, STOP and RESTART at
any time: `TypeCorrect` (`TypeOK`) and, with no hypothesis, these. The properties themselves
say that they hold until an item is overtaken; after it they are false (`MarkerMissing` shows
how it begins).

| theorem | property |
|---|---|
| `DataIntactCorrect` | `DataIntact` |
| `StacksMirrorCorrect` | `StacksMirror` |
| `AccountedCorrect` | `AccountedRight` |
| `CounterCorrect` | `CounterRight` |

The invariant is `OrderInv`: types, `DataIntact`, and, until an item is overtaken, `InOrder`, which has
three parts. What is on the wire is not yet known to the server, so no invariant that compares the two
sides as they are is inductive. `WireInv` says that there is a sequence of server states, one more
than there are tokens on the wire (`Path`): it begins with the server as it is, each
token takes one state to the next in a way the server will recognise, and the last
state mirrors the device (`Mirrors`): its stack has, item for item, what has been sent of the data
on `sendstack`, and what it goes on with is what has been sent of the datum announced last
(`Nested`). What the device writes extends the sequence at its end, what the server
reads takes its first state away, and a STOP or RESTART moves an item between queue and stack without
changing `Nested`. `DeviceInv` is what the device contributes: of the items that are queued only the first
may not have been begun, and a datum that was announced finds the queue empty; a step that breaks
this overtakes an item. `CountInv` says of each piece the server has that its datum's priority
has been counted for all of it but the tokens of the read that is being handled, for which the
last round or the completion counts.

### Framing

For any number of links that share buffers in any way, messages of any bytes and any size, any base
and any reads of `MinRead` bytes or more, `ReceivedCorrect` (`ReceivedAsSent`), with no
hypothesis. Two parts make the proof:

* What a size is sent as is read back. The digits of a size are bytes, of which only the last is
  below the base (`DigitsAreBytes`), so `putMessage` finds where they end (`DigitsReadIs`);
  what it has added up after `i` digits and what `makeMessage` had left after `i` make up the
  size (`LengthAdds`). A whole message in front of the data is therefore taken as it was sent
  (`ParseWhole`). A message that is cut is not taken for whole, unless it is cut in digits of which
  the lowest is 0: then it is taken for empty (`ParseCut`).
* The inductive invariant `FInv` says of each link that is not disturbed, and as long as nothing
  was taken for empty, that what is queued is what was sent first, and
  that the bytes of the messages queued, then those that are not parsed, then those that are
  not read, are the bytes of the messages written (`Whole`). A read moves bytes from the last to
  the second of them and a message that is received from the second to the first.

### Only model-checked

Liveness (`EveryDatumDelivered`, `DeliveredOrStopped`, `PermitAnswered`, `PermittedLeaves`,
`OthersServed`, `PushReturns`, `AllButLastReceived`, `StopHonoured`) and the fairness of the
refinement of `Mailbox` (`MailboxFair`): beyond the prover.

## 6. Not modelled, and the plan

Order of what is left:

1. Proofs: what of `Transfer` still holds once an item has been overtaken, the types apart; what a
   disturbed link receives.
2. The composition of `BrokerScheduler` and `Transfer`, with the coarse device of the
   first as the abstract specification of the second, under a refinement mapping of
   `devstate`.
3. The sessions between devices and the application server: `execute_connect` joins the
   rest of the old session to the new one while the old one's thread still runs; the
   device's state of that link is read off the broker's socket (IoTDevices.cpp:341).
4. The value of the rates: `calcaddrate`, the counters NS, NM and NL that drift,
   State 7's pass over `SendingIDmap`.
5. The escaping of the chunks of `send_forever`, which is done on a copy, so that data are
   sent as they are, and a marker that is cut by a read, which is not seen; the match of the
   priority table.

Not planned: the admin tables, which nothing reads; `NormalIoTDevices` and States
50 and 51, which the mechanism does not use; the sample programs; timing.
