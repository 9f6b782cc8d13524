------------------------------ MODULE Sessions ------------------------------
(***************************************************************************)
(* The connections between the devices and the broker: accepting, the      *)
(* table of sessions, loss of a link, reconnection and restart.            *)
(*                                                                         *)
(* Connections are numbered in the order they are made, which is the order *)
(* in which they are accepted, so the number of a connection is also the   *)
(* broker's session ID (1 is the first here, 0 stands for none).  A device *)
(* writes to the wire of its connection, the broker answers on the down    *)
(* wire.  When a link breaks what is last on either wire is lost; who      *)
(* writes to it then may or may not be told.                               *)
(*                                                                         *)
(* Of what is sent over a session only this is kept: CONNECT with its      *)
(* flag, META and the answer to it, each with its number.  The priority    *)
(* mechanism behind it is in BrokerScheduler.                              *)
(***************************************************************************)
EXTENDS Integers, FiniteSets, SequencesExt

CONSTANTS
  Device,
  MayBreak,    \* the devices whose links may break and that may restart
  MaxAccepts,  \* possible numbers of connections the broker accepts; the code has 30
  MaxConn,     \* bound: connections made
  MaxBroken,   \* bound: connections that break
  MaxSent      \* bound: MaxSent[v] METAs of device v

ASSUME SessionsAssumption ==
  /\ MayBreak \subseteq Device
  /\ MaxAccepts \subseteq Nat \ {0}
  /\ MaxConn \in Nat /\ MaxBroken \in Nat /\ MaxSent \in [Device -> Nat]

VARIABLES
  \* the links
  conn,       \* conn[c]: the device that made connection c
  wire,       \* wire[c]: what the device wrote and the broker has not read
  down,       \* down[c]: what the broker wrote and the device has not read
  broken,     \* the connections that broke
  \* the broker
  maxaccept, pcAccept, sockIdCounter, acceptedSocks,
  sesidmap,   \* sesidmap[v]: the session of device v, 0 if none
  pcSes,      \* pcSes[c]: where the receive thread of session c is
  device_recvqueue,
  terminated, \* the broker has been terminated
  \* the devices
  pcDev, pcRecv,  \* where a device's main thread and its receive thread are
  session,    \* session[v]: v's connection, 0 if none
  sstate, flag_forever, reconnectflag, sent,
  got         \* history: the answers a device has received

links   == <<conn, wire, down, broken>>
accepts == <<maxaccept, pcAccept, sockIdCounter, acceptedSocks>>
broker  == <<accepts, sesidmap, pcSes, device_recvqueue, terminated>>
device  == <<pcDev, pcRecv, session, sstate, flag_forever, reconnectflag, sent, got>>
vars == <<links, broker, device>>

-----------------------------------------------------------------------------
Conn == 1..MaxConn
Connect(flag) == [type |-> "CONNECT", value |-> flag]
Meta(n) == [type |-> "META", value |-> n]
Number == UNION {1..MaxSent[v] : v \in Device}

\* The mutex mtx of Sync_ServerSockets is held through the whole of accept.
mtxFree == pcAccept = "done"

\* The mutex gmtx of v's session is held while its thread is joined.
gmtxFree(v) == pcDev[v] # "join"

-----------------------------------------------------------------------------
(* The broker's accept thread.                                             *)

\* A session is made and its receive thread started, if the peer is still
\* there: the name of one that is gone cannot be asked for.
Accept ==
  /\ pcAccept = "accept" /\ sockIdCounter < maxaccept
  /\ sockIdCounter < Len(conn)
  /\ \/ /\ pcAccept' = "insert"
        /\ pcSes' = [pcSes EXCEPT ![sockIdCounter + 1] = "recv"]
        /\ UNCHANGED terminated
     \/ /\ sockIdCounter + 1 \in broken
        /\ terminated' = TRUE
        /\ UNCHANGED <<pcAccept, pcSes>>
  /\ UNCHANGED <<links, maxaccept, sockIdCounter, acceptedSocks, sesidmap,
                 device_recvqueue, device>>

\* Only then is it put where basic_send looks for it, with the next session ID.
CurrentSesID == sockIdCounter  \* mutant of NextSesID: counted afterwards
NextSesID == sockIdCounter + 1

AcceptInsert ==
  /\ pcAccept = "insert"
  /\ acceptedSocks' = acceptedSocks \cup {NextSesID}
  /\ sockIdCounter' = sockIdCounter + 1
  /\ pcAccept' = IF sockIdCounter' < maxaccept THEN "accept" ELSE "done"
  /\ UNCHANGED <<links, maxaccept, sesidmap, pcSes, device_recvqueue, terminated,
                 device>>

-----------------------------------------------------------------------------
(* The receive threads of the broker's sessions.                           *)

\* CONNECT: a new device is put in the table; for one that reconnects the entry
\* is replaced and the session that is being read is closed, by its own thread;
\* any other is refused, and the session goes on.
onExecute_connectAny(c, m) ==  \* mutant of onExecute_connect: a table without ends
  /\ sesidmap' = [sesidmap EXCEPT ![conn[c]] = IF m.value = 1 THEN c ELSE @]
  /\ UNCHANGED pcSes
onExecute_connect(c, m) ==
  LET known == sesidmap[conn[c]] # 0
  IN  /\ sesidmap' = [sesidmap EXCEPT ![conn[c]] =
                        IF known /\ m.value # 1 THEN @ ELSE c]
      /\ pcSes' = [pcSes EXCEPT ![c] =
                     IF known /\ m.value = 1 THEN "close" ELSE "recv"]

\* onRecv_base, for one message.
SessionRecv(c) ==
  /\ pcSes[c] = "recv" /\ wire[c] # <<>>
  /\ wire' = [wire EXCEPT ![c] = Tail(@)]
  /\ LET m == Head(wire[c])
     IN  \/ /\ m.type = "CONNECT"
            /\ onExecute_connect(c, m)
            /\ UNCHANGED device_recvqueue
         \/ /\ m.type # "CONNECT"
            /\ device_recvqueue' = Append(device_recvqueue, <<conn[c], m.value>>)
            /\ UNCHANGED <<sesidmap, pcSes>>
  /\ UNCHANGED <<conn, down, broken, accepts, terminated, device>>

\* The read fails, or the end of the stream is reached.
SessionEnd(c) ==
  /\ pcSes[c] = "recv" /\ wire[c] = <<>> /\ c \in broken
  /\ pcSes' = [pcSes EXCEPT ![c] = "ended"]
  /\ UNCHANGED <<links, accepts, sesidmap, device_recvqueue, terminated, device>>

\* closeSession waits for mtx and joins the session's receive thread, which is
\* the calling one: join throws and nothing catches.
closeSession(c) ==
  /\ pcSes[c] = "close" /\ mtxFree
  /\ terminated' = TRUE
  /\ UNCHANGED <<links, accepts, sesidmap, pcSes, device_recvqueue, device>>

-----------------------------------------------------------------------------
(* The broker's main thread: a META is answered over the table's session.   *)

\* basic_send looks for the session without mtx, and finds a null pointer when
\* the session has not been inserted yet.
SendReadyLocked == mtxFree  \* mutant of SendReady: basic_send locks mtx
SendReady == TRUE

Answer ==
  /\ device_recvqueue # <<>> /\ SendReady
  /\ device_recvqueue' = Tail(device_recvqueue)
  /\ LET v == Head(device_recvqueue)[1]
         n == Head(device_recvqueue)[2]
         c == sesidmap[v]
     IN  \/ /\ c \notin acceptedSocks \cup {0}
            /\ terminated' = TRUE /\ UNCHANGED down
         \/ /\ c \in acceptedSocks \ broken
            /\ down' = [down EXCEPT ![c] = Append(@, n)]
            /\ UNCHANGED terminated
         \/ /\ c \in (acceptedSocks \cap broken) \cup {0}
            /\ UNCHANGED <<down, terminated>>
  /\ UNCHANGED <<conn, wire, broken, accepts, sesidmap, pcSes, device>>

Broker == \/ Accept \/ AcceptInsert \/ Answer
          \/ \E c \in Conn : SessionRecv(c) \/ SessionEnd(c) \/ closeSession(c)

-----------------------------------------------------------------------------
(* A device's main thread.                                                 *)

\* A connection is made: the broker's system takes it before it is accepted.
NewConnection(v) ==
  /\ Len(conn) < MaxConn
  /\ conn' = Append(conn, v)
  /\ session' = [session EXCEPT ![v] = Len(conn) + 1]
  /\ sstate' = [sstate EXCEPT ![v] = "ACTIVE"]

\* Sync_ClientSocket's constructor.
DeviceStart(v) ==
  /\ pcDev[v] = "off"
  /\ NewConnection(v)
  /\ pcDev' = [pcDev EXCEPT ![v] = "connect"]
  /\ reconnectflag' = [reconnectflag EXCEPT ![v] = 0]
  /\ UNCHANGED <<wire, down, broken, broker, pcRecv, flag_forever, sent, got>>

\* br_send: the message is on the wire; or the link is broken and it is lost;
\* or it is, and the write fails.
Written(v, m) ==
  /\ sstate[v] = "ACTIVE"
  /\ \/ /\ session[v] \notin broken
        /\ wire' = [wire EXCEPT ![session[v]] = Append(@, m)]
     \/ session[v] \in broken /\ UNCHANGED wire
  /\ UNCHANGED sstate
NotWritten(v) ==
  /\ UNCHANGED wire
  /\ \/ sstate[v] # "ACTIVE" /\ UNCHANGED sstate
     \/ /\ sstate[v] = "ACTIVE" /\ session[v] \in broken
        /\ sstate' = [sstate EXCEPT ![v] = "NONACTIVE"]

\* CONNECT is sent, whether or not it is; at the start, and only there, the
\* receive thread is started after it.
DeviceConnect(v) ==
  /\ pcDev[v] = "connect"
  /\ Written(v, Connect(reconnectflag[v])) \/ NotWritten(v)
  /\ pcDev' = [pcDev EXCEPT ![v] = "run"]
  /\ IF reconnectflag[v] = 0
     THEN /\ flag_forever' = [flag_forever EXCEPT ![v] = TRUE]
          /\ pcRecv' = [pcRecv EXCEPT ![v] = "test"]
     ELSE UNCHANGED <<flag_forever, pcRecv>>
  /\ UNCHANGED <<conn, down, broken, broker, session, reconnectflag, sent, got>>

\* State 6: a META that is not written is given up, and the link renewed.
DeviceMeta(v) ==
  /\ pcDev[v] = "run" /\ sent[v] < MaxSent[v]
  /\ sent' = [sent EXCEPT ![v] = @ + 1]
  /\ \/ /\ Written(v, Meta(sent[v] + 1)) /\ UNCHANGED pcDev
     \/ /\ NotWritten(v) /\ pcDev' = [pcDev EXCEPT ![v] = "stop"]
  /\ UNCHANGED <<conn, down, broken, broker, pcRecv, session, flag_forever,
                 reconnectflag, got>>

\* State 11: the link is renewed if it was found broken.
DeviceState11(v) ==
  /\ pcDev[v] = "run" /\ sstate[v] = "NONACTIVE"
  /\ pcDev' = [pcDev EXCEPT ![v] = "stop"]
  /\ UNCHANGED <<links, broker, pcRecv, session, sstate, flag_forever,
                 reconnectflag, sent, got>>

\* stop_sendrecv_forever lowers the flag, with gmtx, unless it is down ...
DeviceStop(v) ==
  /\ pcDev[v] = "stop"
  /\ pcDev' = [pcDev EXCEPT ![v] = IF flag_forever[v] THEN "join" ELSE "reconnect"]
  /\ flag_forever' = [flag_forever EXCEPT ![v] = FALSE]
  /\ UNCHANGED <<links, broker, pcRecv, session, sstate, reconnectflag, sent, got>>

\* ... and joins the receive thread with gmtx locked.
ThreadJoinedAtOnce(v) == TRUE  \* mutant of ThreadJoined: the thread is detached
ThreadJoined(v) == pcRecv[v] = "ended"

DeviceJoin(v) ==
  /\ pcDev[v] = "join" /\ ThreadJoined(v)
  /\ pcDev' = [pcDev EXCEPT ![v] = "reconnect"]
  /\ UNCHANGED <<links, broker, pcRecv, session, sstate, flag_forever,
                 reconnectflag, sent, got>>

\* The socket is replaced by a new one and the receive thread started again; or
\* the connect fails, and reconnect says nothing of it.
Reconnected(v) ==
  /\ NewConnection(v)
  /\ flag_forever' = [flag_forever EXCEPT ![v] = TRUE]
  /\ pcRecv' = [pcRecv EXCEPT ![v] = "test"]
NotReconnected(v) ==
  /\ sstate' = [sstate EXCEPT ![v] = "RECONNECTING"]
  /\ UNCHANGED <<conn, session, flag_forever, pcRecv>>

NoConnect(v) == "run"  \* mutant of AfterReconnect: no CONNECT on the new link
AfterReconnect(v) == "connect"

DeviceReconnect(v) ==
  /\ pcDev[v] = "reconnect"
  /\ Reconnected(v) \/ NotReconnected(v)
  /\ pcDev' = [pcDev EXCEPT ![v] = AfterReconnect(v)]
  /\ reconnectflag' = [reconnectflag EXCEPT ![v] = 1]
  /\ UNCHANGED <<wire, down, broken, broker, sent, got>>

Main(v) == \/ DeviceStart(v) \/ DeviceConnect(v) \/ DeviceMeta(v)
           \/ DeviceState11(v) \/ DeviceStop(v) \/ DeviceJoin(v)
           \/ DeviceReconnect(v)

-----------------------------------------------------------------------------
(* A device's receive thread: recv_forever.                                *)

RecvMoves(v, pc) == pcRecv' = [pcRecv EXCEPT ![v] = pc]

RecvTest(v) ==
  /\ pcRecv[v] = "test"
  /\ RecvMoves(v, IF flag_forever[v] THEN "lock" ELSE "ended")
  /\ UNCHANGED <<links, broker, pcDev, session, sstate, flag_forever,
                 reconnectflag, sent, got>>

RecvLock(v) ==
  /\ pcRecv[v] = "lock" /\ gmtxFree(v)
  /\ RecvMoves(v, IF sstate[v] = "ACTIVE" THEN "read" ELSE "ended")
  /\ UNCHANGED <<links, broker, pcDev, session, sstate, flag_forever,
                 reconnectflag, sent, got>>

RecvRead(v) ==
  /\ pcRecv[v] = "read" /\ down[session[v]] # <<>>
  /\ got' = [got EXCEPT ![v] = @ \cup {Head(down[session[v]])}]
  /\ down' = [down EXCEPT ![session[v]] = Tail(@)]
  /\ RecvMoves(v, "test")
  /\ UNCHANGED <<conn, wire, broken, broker, pcDev, session, sstate, flag_forever,
                 reconnectflag, sent>>

RecvFails(v) ==
  /\ pcRecv[v] = "read" /\ down[session[v]] = <<>> /\ session[v] \in broken
  /\ RecvMoves(v, "ended")
  /\ sstate' = [sstate EXCEPT ![v] = "NONACTIVE"]
  /\ UNCHANGED <<links, broker, pcDev, session, flag_forever, reconnectflag, sent, got>>

Recv(v) == RecvTest(v) \/ RecvLock(v) \/ RecvRead(v) \/ RecvFails(v)

-----------------------------------------------------------------------------
(* What goes wrong.                                                        *)

\* A link breaks: what was written last to its wires is lost.
Breaks(c) ==
  /\ Cardinality(broken) < MaxBroken
  /\ c \notin broken /\ broken' = broken \cup {c}
  /\ \E i \in 0..Len(wire[c]), j \in 0..Len(down[c]) :
       /\ wire' = [wire EXCEPT ![c] = SubSeq(@, 1, i)]
       /\ down' = [down EXCEPT ![c] = SubSeq(@, 1, j)]
  /\ UNCHANGED conn

LinkBreaks(v) ==
  /\ v \in MayBreak /\ session[v] # 0
  /\ Breaks(session[v])
  /\ UNCHANGED <<broker, device>>

\* A device's process ends and is started again.
DeviceRestart(v) ==
  /\ v \in MayBreak /\ session[v] # 0
  /\ Breaks(session[v])
  /\ pcDev' = [pcDev EXCEPT ![v] = "off"]
  /\ pcRecv' = [pcRecv EXCEPT ![v] = "none"]
  /\ session' = [session EXCEPT ![v] = 0]
  /\ flag_forever' = [flag_forever EXCEPT ![v] = FALSE]
  /\ UNCHANGED <<broker, sstate, reconnectflag, sent, got>>

-----------------------------------------------------------------------------
Init ==
  /\ conn = <<>> /\ broken = {}
  /\ wire = [c \in Conn |-> <<>>] /\ down = [c \in Conn |-> <<>>]
  /\ maxaccept \in MaxAccepts /\ pcAccept = "accept"
  /\ sockIdCounter = 0 /\ acceptedSocks = {}
  /\ sesidmap = [v \in Device |-> 0] /\ pcSes = [c \in Conn |-> "none"]
  /\ device_recvqueue = <<>> /\ terminated = FALSE
  /\ pcDev = [v \in Device |-> "off"] /\ pcRecv = [v \in Device |-> "none"]
  /\ session = [v \in Device |-> 0] /\ sstate = [v \in Device |-> "NONACTIVE"]
  /\ flag_forever = [v \in Device |-> FALSE]
  /\ reconnectflag = [v \in Device |-> 0]
  /\ sent = [v \in Device |-> 0] /\ got = [v \in Device |-> {}]

\* What the devices do when the broker is gone is left out.
Next == /\ ~terminated
        /\ \/ Broker
           \/ \E v \in Device :
                Main(v) \/ Recv(v) \/ LinkBreaks(v) \/ DeviceRestart(v)

Spec == Init /\ [][Next]_vars

\* Each thread goes on when it can.  Links need not break, and a broken one need
\* not be noticed.
Fairness ==
  /\ WF_vars(~terminated /\ (Accept \/ AcceptInsert))
  /\ WF_vars(~terminated /\ Answer)
  /\ \A c \in Conn : WF_vars(~terminated /\ (SessionRecv(c) \/ closeSession(c)))
  /\ \A v \in Device :
       /\ WF_vars(~terminated /\ (\/ DeviceConnect(v) \/ DeviceStop(v)
                                 \/ DeviceJoin(v) \/ DeviceReconnect(v)))
       /\ WF_vars(~terminated /\ (RecvTest(v) \/ RecvLock(v) \/ RecvRead(v)))

FairSpec == Spec /\ Fairness

-----------------------------------------------------------------------------
(* Properties.                                                             *)

\* Type correctness.
TypeOK ==
  /\ conn \in Seq(Device) /\ Len(conn) <= MaxConn
  /\ wire \in [Conn -> Seq([type : {"CONNECT"}, value : {0, 1}]
                             \cup [type : {"META"}, value : Number])]
  /\ down \in [Conn -> Seq(Number)]
  /\ broken \subseteq Conn
  /\ maxaccept \in MaxAccepts /\ pcAccept \in {"accept", "insert", "done"}
  /\ sockIdCounter \in 0..maxaccept /\ acceptedSocks = 1..sockIdCounter
  /\ sesidmap \in [Device -> 0..MaxConn]
  /\ pcSes \in [Conn -> {"none", "recv", "close", "ended"}]
  /\ device_recvqueue \in Seq(Device \X Number) /\ terminated \in BOOLEAN
  /\ pcDev \in [Device -> {"off", "connect", "run", "stop", "join", "reconnect"}]
  /\ pcRecv \in [Device -> {"none", "test", "lock", "read", "ended"}]
  /\ session \in [Device -> 0..MaxConn]
  /\ sstate \in [Device -> {"ACTIVE", "NONACTIVE", "RECONNECTING"}]
  /\ flag_forever \in [Device -> BOOLEAN] /\ reconnectflag \in [Device -> {0, 1}]
  /\ (\A v \in Device : sent[v] \in 0..MaxSent[v]) /\ got \in [Device -> SUBSET Number]

\* Every message the broker's threads take from device_recvqueue is from a device
\* the table has a session of its own for, whatever breaks, reconnects or
\* restarts: CONNECT comes first on every link, or nothing does.
HeardIsKnown ==
  \A i \in DOMAIN device_recvqueue :
    LET v == device_recvqueue[i][1]
    IN  sesidmap[v] # 0 /\ conn[sesidmap[v]] = v

\* A device replaces its session's socket, and starts a receive thread on it,
\* only when the one before has ended: it reads the socket, and a std::thread
\* that has not been joined must not be assigned to.
ReplacedWhenIdle ==
  \A v \in Device : pcDev[v] = "reconnect" => pcRecv[v] \in {"none", "ended"}

\* A device whose link does not break is answered, whatever becomes of the others
\* and although accept never gives mtx back, as long as the broker is there and
\* accepts it.
OthersServed ==
  \A v \in Device \ MayBreak, n \in Number :
    sent[v] >= n ~> \/ n \in got[v]
                    \/ terminated
                    \/ session[v] > maxaccept

\* A re-connecting device's session replaces the one before it in the table, the
\* comment of onExecute_connect says: what it then writes to it is received.
ReconnectedIsHeard ==
  \A c \in Conn :
    (wire[c] # <<>> /\ \E v \in Device : sesidmap[v] = c)
       ~> (wire[c] = <<>> \/ terminated)

=============================================================================
