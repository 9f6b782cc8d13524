--------------------------- MODULE SessionsProofs ---------------------------
(***************************************************************************)
(* Proofs about Sessions, for any devices, any links that may break and    *)
(* any bounds: types, who a link belongs to, CONNECT first on every link,  *)
(* and one receive thread at a time.                                       *)
(***************************************************************************)
EXTENDS Sessions, SequenceTheorems, FiniteSetTheorems, TLAPS

\* The session being inserted exists and is within the number that is accepted;
\* and only connections that were made have a thread.
Accepting ==
  /\ pcAccept = "insert" => sockIdCounter < maxaccept /\ sockIdCounter < Len(conn)
  /\ \A c \in Conn : pcSes[c] # "none" => c \in DOMAIN conn

\* A device's session and its entry in the broker's table are connections the
\* device made itself.
Owned ==
  \A v \in Device :
    /\ session[v] # 0 => session[v] \in DOMAIN conn /\ conn[session[v]] = v
    /\ sesidmap[v] # 0 => sesidmap[v] \in DOMAIN conn /\ conn[sesidmap[v]] = v

\* A device that runs has a session, and so has its receive thread.
HasSession ==
  \A v \in Device : pcDev[v] # "off" \/ pcRecv[v] # "none" => session[v] # 0

\* The receive thread runs only while the flag is up, or is being joined.
Idle ==
  \A v \in Device :
    /\ ~flag_forever[v] /\ pcDev[v] # "join" => pcRecv[v] \in {"none", "ended"}
    /\ pcDev[v] \in {"join", "reconnect"} => ~flag_forever[v]

\* What the broker reads first from a device it does not know is a CONNECT; and
\* where a device may write something else, it does know it, or a CONNECT is on
\* the wire, or the link is broken and nothing gets through.
Announced ==
  /\ \A c \in Conn \ DOMAIN conn : wire[c] = <<>>
  /\ \A c \in DOMAIN conn :
       sesidmap[conn[c]] = 0 /\ wire[c] # <<>> => Head(wire[c]).type = "CONNECT"
  /\ \A v \in Device : pcDev[v] = "run" /\ sstate[v] = "ACTIVE" =>
       session[v] \in broken \/ sesidmap[v] # 0 \/ wire[session[v]] # <<>>

Messages == [type : {"CONNECT"}, value : {0, 1}] \cup [type : {"META"}, value : Number]

\* TypeOK in three parts: the links, the broker and the devices.
LinkTypes ==
  /\ conn \in Seq(Device) /\ Len(conn) <= MaxConn
  /\ wire \in [Conn -> Seq(Messages)] /\ down \in [Conn -> Seq(Number)]
  /\ broken \subseteq Conn

BrokerTypes ==
  /\ maxaccept \in MaxAccepts /\ pcAccept \in {"accept", "insert", "done"}
  /\ sockIdCounter \in 0..maxaccept /\ acceptedSocks = 1..sockIdCounter
  /\ sesidmap \in [Device -> 0..MaxConn]
  /\ pcSes \in [Conn -> {"none", "recv", "close", "ended"}]
  /\ device_recvqueue \in Seq(Device \X Number)

DeviceTypes ==
  /\ pcDev \in [Device -> {"off", "connect", "run", "stop", "join", "reconnect"}]
  /\ pcRecv \in [Device -> {"none", "test", "lock", "read", "ended"}]
  /\ session \in [Device -> 0..MaxConn]
  /\ sstate \in [Device -> {"ACTIVE", "NONACTIVE", "RECONNECTING"}]
  /\ flag_forever \in [Device -> BOOLEAN] /\ reconnectflag \in [Device -> {0, 1}]
  /\ sent \in [Device -> Nat] /\ (\A v \in Device : sent[v] <= MaxSent[v])
  /\ got \in [Device -> SUBSET Number]

\* The types, with what they rest on.
Types == /\ LinkTypes /\ BrokerTypes /\ DeviceTypes
         /\ Accepting /\ Owned /\ HasSession

\* The inductive invariant.
SInv == Types /\ Idle /\ Announced /\ HeardIsKnown

-----------------------------------------------------------------------------
(* Types.                                                                  *)

\* A device's next META is among the numbers there may be.
LEMMA NextNumber ==
  ASSUME NEW v \in Device, NEW n \in Nat, n < MaxSent[v]
  PROVE  n + 1 \in Number
<1>1. MaxSent[v] \in Nat BY SessionsAssumption
<1>2. n + 1 \in 1..MaxSent[v] BY <1>1
<1> QED BY <1>2 DEF Number

\* The start of a sequence that Breaks keeps: of the same elements, and with the
\* same head if anything is left.
LEMMA Prefix ==
  ASSUME NEW S, NEW s \in Seq(S), NEW i \in 0..Len(s)
  PROVE  /\ SubSeq(s, 1, i) \in Seq(S)
         /\ SubSeq(s, 1, i) # <<>> => s # <<>> /\ Head(SubSeq(s, 1, i)) = Head(s)
<1>1. Len(SubSeq(s, 1, i)) = i BY SubSeqProperties
<1>2. i # 0 => SubSeq(s, 1, i)[1] = s[1] BY SubSeqProperties
<1> QED BY <1>1, <1>2, SubSeqProperties, HeadTailProperties

\* The connections that were made are among the numbered ones.
LEMMA MadeConn ==
  ASSUME LinkTypes
  PROVE  DOMAIN conn \subseteq Conn /\ \A c \in DOMAIN conn : conn[c] \in Device
<1>1. Len(conn) \in Nat /\ Len(conn) <= MaxConn /\ DOMAIN conn = 1..Len(conn)
  BY LenProperties DEF LinkTypes
<1>2. \A c \in DOMAIN conn : conn[c] \in Device BY ElementOfSeq, <1>1 DEF LinkTypes
<1>3. DOMAIN conn \subseteq Conn BY <1>1, SessionsAssumption DEF Conn
<1> QED BY <1>2, <1>3

\* The types hold at first.
LEMMA TypesInit == Init => Types
<1> SUFFICES ASSUME Init PROVE Types
  OBVIOUS
<1> USE SessionsAssumption DEF Init
<1>1. LinkTypes BY EmptySeq DEF LinkTypes
<1>2. BrokerTypes
  <2>1. sockIdCounter \in 0..maxaccept /\ acceptedSocks = 1..sockIdCounter
    OBVIOUS
  <2>2. 0 \in 0..MaxConn
    OBVIOUS
  <2> QED BY <2>1, <2>2, EmptySeq DEF BrokerTypes
<1>3. DeviceTypes
  <2>1. 0 \in 0..MaxConn /\ \A v \in Device : MaxSent[v] \in Nat
    OBVIOUS
  <2> QED BY <2>1 DEF DeviceTypes
<1>4. Accepting BY DEF Accepting
<1>5. Owned /\ HasSession BY DEF Owned, HasSession
<1> QED BY <1>1, <1>2, <1>3, <1>4, <1>5 DEF Types

\* A number appended to one of the down wires.
LEMMA Appended ==
  ASSUME NEW S, NEW T, NEW f \in [S -> Seq(T)], NEW c \in S, NEW x \in T
  PROVE  [f EXCEPT ![c] = Append(f[c], x)] \in [S -> Seq(T)]
<1>1. f[c] \in Seq(T)
  OBVIOUS
<1>2. Append(f[c], x) \in Seq(T) BY <1>1, AppendProperties
<1> QED BY <1>2

\* The broker's threads keep the types.
LEMMA TypesBroker == Types /\ Broker => Types'
<1> SUFFICES ASSUME Types, Broker PROVE Types'
  OBVIOUS
<1> USE SessionsAssumption DEF Types, broker, accepts, links, device
<1>1. CASE Accept
  <2> USE <1>1 DEF Accept
  <2>1. sockIdCounter + 1 \in Conn /\ sockIdCounter + 1 \in DOMAIN conn
    BY DEF LinkTypes, BrokerTypes, Conn
  <2>2. LinkTypes' /\ DeviceTypes' BY DEF LinkTypes, DeviceTypes
  <2>3. BrokerTypes' BY <2>1 DEF BrokerTypes
  <2>4. Accepting' BY <2>1 DEF BrokerTypes, Accepting
  <2>5. (Owned /\ HasSession)' BY DEF Owned, HasSession
  <2> QED BY <2>2, <2>3, <2>4, <2>5
<1>2. CASE AcceptInsert
  <2> USE <1>2 DEF AcceptInsert, NextSesID
  <2>1. LinkTypes' /\ DeviceTypes' BY DEF LinkTypes, DeviceTypes
  <2>2. BrokerTypes' BY DEF BrokerTypes, Accepting
  <2>3. Accepting' BY DEF BrokerTypes, Accepting
  <2>4. (Owned /\ HasSession)' BY DEF Owned, HasSession
  <2> QED BY <2>1, <2>2, <2>3, <2>4
<1>3. CASE Answer
  <2>1. /\ device_recvqueue # <<>> /\ device_recvqueue' = Tail(device_recvqueue)
        /\ UNCHANGED <<conn, wire, broken, accepts, sesidmap, pcSes, device>>
    BY <1>3 DEF Answer
  <2>2. /\ device_recvqueue' \in Seq(Device \X Number)
        /\ Head(device_recvqueue) \in Device \X Number
    BY <2>1, HeadTailProperties DEF BrokerTypes
  <2> DEFINE n == Head(device_recvqueue)[2]
  <2>3. n \in Number BY <2>2
  <2>4. \/ down' = down
        \/ \E c \in acceptedSocks : down' = [down EXCEPT ![c] = Append(down[c], n)]
    BY <1>3 DEF Answer
  <2>5. down' \in [Conn -> Seq(Number)]
    <3>1. ASSUME NEW c \in Conn, down' = [down EXCEPT ![c] = Append(down[c], n)]
          PROVE  down' \in [Conn -> Seq(Number)]
      BY <2>3, <3>1, Appended DEF LinkTypes
    <3>2. ASSUME NEW c, c \notin Conn, down' = [down EXCEPT ![c] = Append(down[c], n)]
          PROVE  down' = down
      BY <3>2 DEF LinkTypes
    <3> QED BY <2>4, <3>1, <3>2 DEF LinkTypes
  <2>6. LinkTypes' BY <2>1, <2>5 DEF LinkTypes
  <2>7. BrokerTypes' BY <2>1, <2>2 DEF BrokerTypes
  <2>8. DeviceTypes' BY <2>1 DEF DeviceTypes
  <2>9. Accepting' BY <2>1 DEF Accepting
  <2>10. (Owned /\ HasSession)' BY <2>1 DEF Owned, HasSession
  <2> QED BY <2>6, <2>7, <2>8, <2>9, <2>10
<1>4. ASSUME NEW c \in Conn, SessionRecv(c) PROVE Types'
  <2> USE <1>4 DEF SessionRecv
  <2> DEFINE m == Head(wire[c])
  <2>1. wire[c] \in Seq(Messages) /\ wire[c] # <<>> BY DEF LinkTypes
  <2>2. m \in Messages /\ Tail(wire[c]) \in Seq(Messages) BY <2>1, HeadTailProperties
  <2>3. LinkTypes' BY <2>2 DEF LinkTypes
  <2>4. c \in DOMAIN conn /\ conn[c] \in Device BY DEF LinkTypes, BrokerTypes, Accepting
  <2>7. DeviceTypes' BY DEF DeviceTypes
  <2>5. CASE m.type = "CONNECT"
    <3>1. onExecute_connect(c, m) /\ UNCHANGED device_recvqueue BY <2>5
    <3>2. c \in 0..MaxConn /\ c # 0 BY DEF Conn
    <3>3. /\ sesidmap' \in [Device -> 0..MaxConn]
          /\ pcSes' \in [Conn -> {"none", "recv", "close", "ended"}]
      BY <3>1, <3>2, <2>4 DEF onExecute_connect, BrokerTypes
    <3>4. BrokerTypes' BY <3>1, <3>3 DEF BrokerTypes
    <3>5. Accepting' BY <2>4, <3>1 DEF onExecute_connect, Accepting, BrokerTypes
    <3>6. (Owned /\ HasSession)'
      BY <2>4, <3>1, <3>2 DEF onExecute_connect, Owned, HasSession, BrokerTypes
    <3> QED BY <2>3, <2>7, <3>4, <3>5, <3>6
  <2>6. CASE m.type # "CONNECT"
    <3>1. device_recvqueue' = Append(device_recvqueue, <<conn[c], m.value>>)
          /\ UNCHANGED <<sesidmap, pcSes>>
      BY <2>6
    <3>2. m.value \in Number BY <2>2, <2>6 DEF Messages
    <3>3. device_recvqueue' \in Seq(Device \X Number)
      BY <2>4, <3>1, <3>2, AppendProperties DEF BrokerTypes
    <3>4. BrokerTypes' BY <3>1, <3>3 DEF BrokerTypes
    <3>5. Accepting' BY <3>1 DEF Accepting
    <3>6. (Owned /\ HasSession)' BY <3>1 DEF Owned, HasSession
    <3> QED BY <2>3, <2>7, <3>4, <3>5, <3>6
  <2> QED BY <2>5, <2>6
<1>5. ASSUME NEW c \in Conn, SessionEnd(c) PROVE Types'
  <2> USE <1>5 DEF SessionEnd
  <2>1. LinkTypes' /\ DeviceTypes' BY DEF LinkTypes, DeviceTypes
  <2>2. BrokerTypes' BY DEF BrokerTypes
  <2>3. Accepting' BY DEF Accepting, BrokerTypes
  <2>4. (Owned /\ HasSession)' BY DEF Owned, HasSession
  <2> QED BY <2>1, <2>2, <2>3, <2>4
<1>6. ASSUME NEW c \in Conn, closeSession(c) PROVE Types'
  <2> USE <1>6 DEF closeSession
  <2>1. LinkTypes' /\ DeviceTypes' BY DEF LinkTypes, DeviceTypes
  <2>2. BrokerTypes' BY DEF BrokerTypes
  <2>3. Accepting' BY DEF Accepting
  <2>4. (Owned /\ HasSession)' BY DEF Owned, HasSession
  <2> QED BY <2>1, <2>2, <2>3, <2>4
<1> QED BY <1>1, <1>2, <1>3, <1>4, <1>5, <1>6 DEF Broker

\* A new connection is the last one; the others stay what they were.
LEMMA Connected ==
  ASSUME LinkTypes, DeviceTypes, NEW v \in Device, NewConnection(v)
  PROVE  /\ conn' \in Seq(Device) /\ Len(conn') <= MaxConn
         /\ DOMAIN conn' = DOMAIN conn \cup {Len(conn) + 1}
         /\ Len(conn) + 1 \notin DOMAIN conn /\ Len(conn) + 1 \in Conn
         /\ \A c \in DOMAIN conn : conn'[c] = conn[c]
         /\ conn'[Len(conn) + 1] = v
         /\ session' \in [Device -> 0..MaxConn]
         /\ session'[v] = Len(conn) + 1 /\ Len(conn) + 1 # 0
         /\ \A w \in Device \ {v} : session'[w] = session[w]
         /\ sstate' = [sstate EXCEPT ![v] = "ACTIVE"]
         /\ Len(conn') = Len(conn) + 1
<1> USE SessionsAssumption DEF LinkTypes, DeviceTypes, NewConnection
<1>1. conn' = Append(conn, v) /\ Len(conn) + 1 <= MaxConn /\ Len(conn) \in Nat
  BY LenProperties
<1>2. /\ conn' \in Seq(Device) /\ Len(conn') = Len(conn) + 1
      /\ \A c \in 1..Len(conn) : conn'[c] = conn[c]
      /\ conn'[Len(conn) + 1] = v
  BY <1>1, AppendProperties
<1>3. DOMAIN conn = 1..Len(conn) /\ DOMAIN conn' = 1..(Len(conn) + 1)
  BY <1>2, LenProperties
<1>4. DOMAIN conn' = DOMAIN conn \cup {Len(conn) + 1} /\ Len(conn) + 1 \notin DOMAIN conn
  BY <1>1, <1>3
<1>5. Len(conn) + 1 \in 0..MaxConn /\ Len(conn) + 1 \in Conn /\ Len(conn) + 1 # 0
  BY <1>1 DEF Conn
<1>6. /\ session' = [session EXCEPT ![v] = Len(conn) + 1]
      /\ sstate' = [sstate EXCEPT ![v] = "ACTIVE"]
  OBVIOUS
<1>7. /\ session' \in [Device -> 0..MaxConn] /\ session'[v] = Len(conn) + 1
      /\ \A w \in Device \ {v} : session'[w] = session[w]
  BY <1>5, <1>6
<1> QED BY <1>1, <1>2, <1>3, <1>4, <1>5, <1>6, <1>7

\* What the broker does not touch stays typed when a connection is added.
LEMMA GrownLinks ==
  ASSUME Types, NEW v \in Device, NewConnection(v), UNCHANGED <<wire, down, broken, broker>>
  PROVE  LinkTypes' /\ BrokerTypes' /\ Accepting' /\ Owned'
<1>1. /\ conn' \in Seq(Device) /\ Len(conn') <= MaxConn
      /\ DOMAIN conn' = DOMAIN conn \cup {Len(conn) + 1}
      /\ \A c \in DOMAIN conn : conn'[c] = conn[c]
      /\ conn'[Len(conn) + 1] = v
      /\ session'[v] = Len(conn) + 1
      /\ \A w \in Device \ {v} : session'[w] = session[w]
      /\ Len(conn') = Len(conn) + 1 /\ Len(conn) \in Nat
  BY Connected, LenProperties DEF Types, LinkTypes
<1> USE DEF Types, broker, accepts
<1>2. LinkTypes' BY <1>1 DEF LinkTypes
<1>3. BrokerTypes' BY DEF BrokerTypes
<1>4. sockIdCounter \in Nat BY SessionsAssumption DEF BrokerTypes
<1>5. Accepting' BY <1>1, <1>4 DEF Accepting
<1>6. Owned' BY <1>1 DEF Owned
<1> QED BY <1>2, <1>3, <1>5, <1>6

\* A message written to the wire of a session keeps the links' types.
LEMMA WriteTypes ==
  ASSUME Types, NEW v \in Device, NEW m \in Messages, Written(v, m) \/ NotWritten(v),
         UNCHANGED <<conn, down, broken>>
  PROVE  LinkTypes' /\ sstate' \in [Device -> {"ACTIVE", "NONACTIVE", "RECONNECTING"}]
<1> USE DEF Types
<1>1. sstate' \in [Device -> {"ACTIVE", "NONACTIVE", "RECONNECTING"}]
  BY DEF Written, NotWritten, DeviceTypes
<1>2. \/ wire' = wire
      \/ wire' = [wire EXCEPT ![session[v]] = Append(wire[session[v]], m)]
  BY DEF Written, NotWritten
<1>3. ASSUME session[v] \in Conn,
             wire' = [wire EXCEPT ![session[v]] = Append(wire[session[v]], m)]
      PROVE  wire' \in [Conn -> Seq(Messages)]
  BY <1>3, Appended DEF LinkTypes
<1>4. ASSUME session[v] \notin Conn,
             wire' = [wire EXCEPT ![session[v]] = Append(wire[session[v]], m)]
      PROVE  wire' = wire
  BY <1>4 DEF LinkTypes
<1>5. LinkTypes' BY <1>2, <1>3, <1>4 DEF LinkTypes
<1> QED BY <1>1, <1>5

\* A device's main thread keeps the types.
LEMMA TypesMain == ASSUME Types, NEW v \in Device, Main(v) PROVE Types'
<1> USE SessionsAssumption DEF Types, broker, accepts, links, device
<1>1. CASE DeviceStart(v)
  <2> USE <1>1 DEF DeviceStart
  <2>1. LinkTypes' /\ BrokerTypes' /\ Accepting' /\ Owned' BY GrownLinks
  <2>2. /\ session' \in [Device -> 0..MaxConn] /\ session'[v] # 0
        /\ \A w \in Device \ {v} : session'[w] = session[w]
        /\ sstate' = [sstate EXCEPT ![v] = "ACTIVE"]
    BY Connected
  <2>3. DeviceTypes' BY <2>2 DEF DeviceTypes
  <2>4. HasSession' BY <2>2 DEF HasSession, DeviceTypes
  <2> QED BY <2>1, <2>3, <2>4
<1>2. CASE DeviceConnect(v)
  <2> USE <1>2 DEF DeviceConnect
  <2>1. Connect(reconnectflag[v]) \in Messages BY DEF Connect, Messages, DeviceTypes
  <2>2. LinkTypes' /\ sstate' \in [Device -> {"ACTIVE", "NONACTIVE", "RECONNECTING"}]
    BY <2>1, WriteTypes
  <2>3. DeviceTypes' BY <2>2 DEF DeviceTypes
  <2>4. BrokerTypes' BY DEF BrokerTypes
  <2>5. Accepting' BY DEF Accepting
  <2>6. Owned' BY DEF Owned
  <2>7. HasSession' BY DEF HasSession, DeviceTypes
  <2> QED BY <2>2, <2>3, <2>4, <2>5, <2>6, <2>7
<1>3. CASE DeviceMeta(v)
  <2> USE <1>3 DEF DeviceMeta
  <2>1. sent[v] \in Nat /\ sent[v] < MaxSent[v] BY DEF DeviceTypes
  <2>2. Meta(sent[v] + 1) \in Messages BY <2>1, NextNumber DEF Meta, Messages
  <2>3. LinkTypes' /\ sstate' \in [Device -> {"ACTIVE", "NONACTIVE", "RECONNECTING"}]
    BY <2>2, WriteTypes
  <2>9. /\ sent' = [sent EXCEPT ![v] = sent[v] + 1]
        /\ pcDev' \in {pcDev, [pcDev EXCEPT ![v] = "stop"]}
        /\ UNCHANGED <<pcRecv, session, flag_forever, reconnectflag, got>>
    OBVIOUS
  <2>10. /\ sent' \in [Device -> Nat] /\ \A w \in Device : sent'[w] <= MaxSent[w]
    BY <2>1, <2>9 DEF DeviceTypes
  <2>11. pcDev' \in [Device -> {"off", "connect", "run", "stop", "join", "reconnect"}]
    BY <2>9 DEF DeviceTypes
  <2>4. DeviceTypes' BY <2>3, <2>9, <2>10, <2>11 DEF DeviceTypes
  <2>5. BrokerTypes' BY DEF BrokerTypes
  <2>6. Accepting' BY DEF Accepting
  <2>7. Owned' BY DEF Owned
  <2>8. HasSession' BY DEF HasSession, DeviceTypes
  <2> QED BY <2>3, <2>4, <2>5, <2>6, <2>7, <2>8
<1>4. CASE DeviceState11(v) \/ DeviceStop(v) \/ DeviceJoin(v)
  <2> USE <1>4 DEF DeviceState11, DeviceStop, DeviceJoin
  <2>1. LinkTypes' /\ BrokerTypes' BY DEF LinkTypes, BrokerTypes
  <2>2. DeviceTypes' BY DEF DeviceTypes
  <2>3. Accepting' /\ Owned' BY DEF Accepting, Owned
  <2>4. HasSession' BY DEF HasSession, DeviceTypes
  <2> QED BY <2>1, <2>2, <2>3, <2>4
<1>5. CASE DeviceReconnect(v) /\ Reconnected(v)
  <2> USE <1>5 DEF DeviceReconnect, Reconnected, AfterReconnect
  <2>1. LinkTypes' /\ BrokerTypes' /\ Accepting' /\ Owned' BY GrownLinks
  <2>2. /\ session' \in [Device -> 0..MaxConn] /\ session'[v] # 0
        /\ \A w \in Device \ {v} : session'[w] = session[w]
        /\ sstate' = [sstate EXCEPT ![v] = "ACTIVE"]
    BY Connected
  <2>3. DeviceTypes' BY <2>2 DEF DeviceTypes
  <2>4. HasSession' BY <2>2 DEF HasSession, DeviceTypes
  <2> QED BY <2>1, <2>3, <2>4
<1>6. CASE DeviceReconnect(v) /\ NotReconnected(v)
  <2> USE <1>6 DEF DeviceReconnect, NotReconnected, AfterReconnect
  <2>1. LinkTypes' /\ BrokerTypes' BY DEF LinkTypes, BrokerTypes
  <2>2. DeviceTypes' BY DEF DeviceTypes
  <2>3. Accepting' /\ Owned' BY DEF Accepting, Owned
  <2>4. HasSession' BY DEF HasSession, DeviceTypes
  <2> QED BY <2>1, <2>2, <2>3, <2>4
<1>7. DeviceReconnect(v) => Reconnected(v) \/ NotReconnected(v) BY DEF DeviceReconnect
<1> QED BY <1>1, <1>2, <1>3, <1>4, <1>5, <1>6, <1>7 DEF Main

\* A device's receive thread keeps the types.
LEMMA TypesRecv == ASSUME Types, NEW v \in Device, Recv(v) PROVE Types'
<1> USE SessionsAssumption DEF Types, broker, accepts, links, device, RecvMoves
<1>1. CASE RecvRead(v)
  <2> USE <1>1 DEF RecvRead
  <2> DEFINE c == session[v]
  <2>1. c \in Conn BY DEF HasSession, Owned, LinkTypes, DeviceTypes, Conn
  <2>2. down[c] \in Seq(Number) /\ down[c] # <<>> BY <2>1 DEF LinkTypes
  <2>3. Head(down[c]) \in Number /\ Tail(down[c]) \in Seq(Number)
    BY <2>2, HeadTailProperties
  <2>4. LinkTypes' BY <2>3 DEF LinkTypes
  <2>5. got'[v] \in SUBSET Number BY <2>3 DEF DeviceTypes
  <2>6. DeviceTypes' BY <2>5 DEF DeviceTypes
  <2>7. BrokerTypes' /\ Accepting' /\ Owned' BY DEF BrokerTypes, Accepting, Owned
  <2>8. HasSession' BY DEF HasSession, DeviceTypes
  <2> QED BY <2>4, <2>6, <2>7, <2>8
<1>2. CASE RecvTest(v) \/ RecvLock(v) \/ RecvFails(v)
  <2> USE <1>2 DEF RecvTest, RecvLock, RecvFails
  <2>1. LinkTypes' /\ BrokerTypes' BY DEF LinkTypes, BrokerTypes
  <2>2. DeviceTypes' BY DEF DeviceTypes
  <2>3. Accepting' /\ Owned' BY DEF Accepting, Owned
  <2>4. HasSession' BY DEF HasSession, DeviceTypes
  <2> QED BY <2>1, <2>2, <2>3, <2>4
<1> QED BY <1>1, <1>2 DEF Recv

\* A link that breaks keeps the types.
LEMMA BreakTypes ==
  ASSUME LinkTypes, NEW c \in Conn, Breaks(c) PROVE LinkTypes'
<1> USE DEF LinkTypes, Breaks
<1>1. PICK i \in 0..Len(wire[c]), j \in 0..Len(down[c]) :
        /\ wire' = [wire EXCEPT ![c] = SubSeq(wire[c], 1, i)]
        /\ down' = [down EXCEPT ![c] = SubSeq(down[c], 1, j)]
  OBVIOUS
<1>2. wire[c] \in Seq(Messages) /\ down[c] \in Seq(Number)
  OBVIOUS
<1>3. /\ SubSeq(wire[c], 1, i) \in Seq(Messages)
      /\ SubSeq(down[c], 1, j) \in Seq(Number)
  BY <1>2, Prefix
<1>4. wire' \in [Conn -> Seq(Messages)] /\ down' \in [Conn -> Seq(Number)]
  BY <1>1, <1>3
<1> QED BY <1>4

\* Losses and restarts keep the types.
LEMMA TypesLoss ==
  ASSUME Types, NEW v \in Device, LinkBreaks(v) \/ DeviceRestart(v) PROVE Types'
<1> USE SessionsAssumption DEF Types, broker, accepts, device, LinkBreaks, DeviceRestart
<1>1. session[v] \in Conn BY DEF LinkTypes, DeviceTypes, Conn
<1>2. LinkTypes' /\ conn' = conn BY <1>1, BreakTypes DEF Breaks
<1>3. BrokerTypes' BY DEF BrokerTypes
<1>4. Accepting' BY <1>2 DEF Accepting
<1>5. DeviceTypes'
  <2>1. CASE LinkBreaks(v) BY <2>1 DEF DeviceTypes
  <2>2. CASE DeviceRestart(v)
    <3>1. 0 \in 0..MaxConn
      OBVIOUS
    <3> QED BY <2>2, <3>1 DEF DeviceTypes
  <2> QED BY <2>1, <2>2
<1>6. Owned' BY <1>2 DEF Owned, DeviceTypes
<1>7. HasSession' BY DEF HasSession, DeviceTypes
<1> QED BY <1>2, <1>3, <1>4, <1>5, <1>6, <1>7

\* Every step keeps the types.
LEMMA TypesNext == Types /\ [Next]_vars => Types'
<1> SUFFICES ASSUME Types, [Next]_vars PROVE Types'
  OBVIOUS
<1>1. CASE Next
  BY <1>1, TypesBroker, TypesMain, TypesRecv, TypesLoss DEF Next
<1>2. CASE UNCHANGED vars
  <2> USE <1>2 DEF vars, links, broker, accepts, device, Types
  <2>1. LinkTypes' /\ BrokerTypes' BY DEF LinkTypes, BrokerTypes
  <2>2. DeviceTypes' BY DEF DeviceTypes
  <2>3. Accepting' /\ Owned' BY DEF Accepting, Owned
  <2>4. HasSession' BY DEF HasSession
  <2> QED BY <2>1, <2>2, <2>3, <2>4
<1> QED BY <1>1, <1>2

-----------------------------------------------------------------------------
(* One receive thread at a time.                                           *)

\* The flag and the join keep the receive thread and the renewal of its socket
\* apart.
LEMMA IdleNext == Types /\ Idle /\ [Next]_vars => Idle'
<1> SUFFICES ASSUME Types, Idle, [Next]_vars PROVE Idle'
  OBVIOUS
<1>1. CASE UNCHANGED device
  BY <1>1 DEF Idle, device
<1>2. ASSUME NEW v \in Device, Main(v) PROVE Idle'
  <2> USE DEF Types, DeviceTypes, Idle, NewConnection
  <2>1. CASE DeviceStart(v) BY <2>1 DEF DeviceStart
  <2>2. CASE DeviceConnect(v) BY <2>2 DEF DeviceConnect
  <2>3. CASE DeviceMeta(v) BY <2>3 DEF DeviceMeta
  <2>4. CASE DeviceState11(v) BY <2>4 DEF DeviceState11
  <2>5. CASE DeviceStop(v) BY <2>5 DEF DeviceStop
  <2>6. CASE DeviceJoin(v) BY <2>6 DEF DeviceJoin, ThreadJoined
  <2>7. CASE DeviceReconnect(v)
    BY <2>7 DEF DeviceReconnect, Reconnected, NotReconnected, AfterReconnect
  <2> QED BY <1>2, <2>1, <2>2, <2>3, <2>4, <2>5, <2>6, <2>7 DEF Main
<1>3. ASSUME NEW v \in Device, Recv(v) PROVE Idle'
  <2> USE DEF Types, DeviceTypes, Idle, RecvMoves
  <2>1. CASE RecvTest(v) BY <2>1 DEF RecvTest
  <2>2. CASE RecvLock(v) BY <2>2 DEF RecvLock
  <2>3. CASE RecvRead(v) BY <2>3 DEF RecvRead
  <2>4. CASE RecvFails(v) BY <2>4 DEF RecvFails
  <2> QED BY <1>3, <2>1, <2>2, <2>3, <2>4 DEF Recv
<1>4. ASSUME NEW v \in Device, DeviceRestart(v) PROVE Idle'
  BY <1>4 DEF Types, DeviceTypes, Idle, DeviceRestart
<1>5. \A v \in Device : LinkBreaks(v) => UNCHANGED device BY DEF LinkBreaks
<1>6. Broker => UNCHANGED device
  BY DEF Broker, Accept, AcceptInsert, Answer, SessionRecv, SessionEnd, closeSession
<1> QED BY <1>1, <1>2, <1>3, <1>4, <1>5, <1>6 DEF Next, vars

-----------------------------------------------------------------------------
(* CONNECT first.                                                          *)

\* A device the broker knows stays known: no step takes it out of the table.
LEMMA KnownStays ==
  ASSUME Types, [Next]_vars, NEW v \in Device, sesidmap[v] # 0
  PROVE  sesidmap'[v] # 0
<1>1. CASE UNCHANGED sesidmap BY <1>1
<1>2. ASSUME NEW c \in Conn, SessionRecv(c) PROVE sesidmap'[v] # 0
  BY <1>2 DEF SessionRecv, onExecute_connect, Conn, Types, BrokerTypes
<1>3. Broker => \/ UNCHANGED sesidmap \/ \E c \in Conn : SessionRecv(c)
  BY DEF Broker, Accept, AcceptInsert, Answer, SessionEnd, closeSession
<1>4. ASSUME NEW w \in Device, Main(w) \/ Recv(w) \/ LinkBreaks(w) \/ DeviceRestart(w)
      PROVE  UNCHANGED sesidmap
  BY <1>4 DEF Main, DeviceStart, DeviceConnect, DeviceMeta, DeviceState11, DeviceStop,
              DeviceJoin, DeviceReconnect, Recv, RecvTest, RecvLock, RecvRead,
              RecvFails, LinkBreaks, DeviceRestart, broker
<1> QED BY <1>1, <1>2, <1>3, <1>4 DEF Next, vars, broker

\* A step that changes neither the wires nor what is known.
LEMMA AnnouncedStable ==
  ASSUME Types, Announced, UNCHANGED <<conn, wire, broken, sesidmap, session>>,
         \A v \in Device : pcDev'[v] = "run" /\ sstate'[v] = "ACTIVE"
                            => pcDev[v] = "run" /\ sstate[v] = "ACTIVE"
  PROVE  Announced'
BY DEF Announced

\* A new connection's wire is empty, and its device has yet to send CONNECT.
LEMMA AnnouncedNew ==
  ASSUME Types, Announced, NEW v \in Device, NewConnection(v),
         UNCHANGED <<wire, broken, sesidmap>>, pcDev' = [pcDev EXCEPT ![v] = "connect"]
  PROVE  Announced'
<1>1. /\ DOMAIN conn' = DOMAIN conn \cup {Len(conn) + 1}
      /\ Len(conn) + 1 \notin DOMAIN conn /\ Len(conn) + 1 \in Conn
      /\ \A c \in DOMAIN conn : conn'[c] = conn[c]
      /\ conn'[Len(conn) + 1] = v
      /\ \A w \in Device \ {v} : session'[w] = session[w]
      /\ sstate' = [sstate EXCEPT ![v] = "ACTIVE"]
  BY Connected DEF Types
<1>2. wire[Len(conn) + 1] = <<>> BY <1>1 DEF Announced
<1>3. \A w \in Device : pcDev'[w] = "run" /\ sstate'[w] = "ACTIVE" =>
        w # v /\ pcDev[w] = "run" /\ sstate[w] = "ACTIVE"
  BY <1>1 DEF Types, DeviceTypes
<1> QED BY <1>1, <1>2, <1>3 DEF Announced

\* A message is written: a CONNECT, or another where the broker knows the device
\* or has a CONNECT to read.
LEMMA AnnouncedWritten ==
  ASSUME Types, Announced, NEW v \in Device, session[v] # 0, NEW m \in Messages,
         Written(v, m) \/ NotWritten(v),
         UNCHANGED <<conn, broken, sesidmap, session>>,
         \A w \in Device \ {v} : pcDev'[w] = pcDev[w],
         m.type = "CONNECT" \/ pcDev[v] = "run"
  PROVE  Announced'
<1> DEFINE c == session[v]
<1>1. c \in DOMAIN conn /\ c \in Conn /\ conn[c] = v
  BY DEF Types, Owned, LinkTypes, DeviceTypes, Conn
<1>2. wire[c] \in Seq(Messages) BY <1>1 DEF Types, LinkTypes
<1>3. /\ Append(wire[c], m) # <<>>
      /\ wire[c] = <<>> => Head(Append(wire[c], m)) = m
      /\ wire[c] # <<>> => Head(Append(wire[c], m)) = Head(wire[c])
  BY <1>2, AppendProperties, HeadTailProperties
<1>4. CASE /\ Written(v, m) /\ c \notin broken
           /\ wire' = [wire EXCEPT ![c] = Append(wire[c], m)]
  <2>1. sstate' = sstate /\ sstate[v] = "ACTIVE" BY <1>4 DEF Written
  <2>2. wire'[c] = Append(wire[c], m) /\ \A d \in Conn \ {c} : wire'[d] = wire[d]
    BY <1>1, <1>4 DEF Types, LinkTypes
  <2>3. sesidmap[v] = 0 /\ wire[c] = <<>> => m.type = "CONNECT"
    BY <1>4, <2>1 DEF Announced
  <2>4. sesidmap[v] = 0 => Head(wire'[c]).type = "CONNECT"
    BY <1>1, <1>3, <2>2, <2>3 DEF Announced
  <2>5. \A d \in DOMAIN conn : sesidmap[conn[d]] = 0 /\ wire'[d] # <<>>
                                => Head(wire'[d]).type = "CONNECT"
    BY <1>1, <2>2, <2>4, MadeConn DEF Announced, Types
  <2>6. \A w \in Device : wire[session[w]] # <<>> => wire'[session[w]] # <<>>
    BY <1>1, <1>3, <2>2, <1>4 DEF Types, LinkTypes
  <2>7. \A w \in Device : pcDev'[w] = "run" /\ sstate[w] = "ACTIVE" =>
          session[w] \in broken \/ sesidmap[w] # 0 \/ wire'[session[w]] # <<>>
    <3> TAKE w \in Device
    <3>1. CASE w = v BY <1>3, <2>2, <3>1
    <3>2. CASE w # v BY <2>6, <3>2 DEF Announced
    <3> QED BY <3>1, <3>2
  <2> QED BY <1>1, <2>1, <2>2, <2>5, <2>7 DEF Announced
<1>5. CASE wire' = wire /\ (sstate[v] # "ACTIVE" \/ c \in broken)
  <2>1. \A w \in Device : sstate'[w] = "ACTIVE" => sstate[w] = "ACTIVE"
    BY DEF Written, NotWritten, Types, DeviceTypes
  <2> QED BY <1>5, <2>1 DEF Announced
<1> QED BY <1>4, <1>5 DEF Written, NotWritten

\* A message is read: a device whose CONNECT was read is known.
LEMMA AnnouncedRead ==
  ASSUME Types, Announced, NEW c \in Conn, SessionRecv(c) PROVE Announced'
<1> USE DEF SessionRecv
<1>1. c \in DOMAIN conn /\ conn[c] \in Device
  BY DEF Types, LinkTypes, BrokerTypes, Accepting
<1>2. wire[c] \in Seq(Messages) /\ wire[c] # <<>> BY DEF Types, LinkTypes
<1>3. /\ \A d \in Conn \ {c} : wire'[d] = wire[d] /\ UNCHANGED device
      /\ UNCHANGED <<conn, broken>>
  BY DEF Types, LinkTypes
<1>4. sesidmap'[conn[c]] # 0
  <2>1. CASE Head(wire[c]).type = "CONNECT"
    BY <1>1, <2>1 DEF onExecute_connect, Types, BrokerTypes, Conn
  <2>2. CASE Head(wire[c]).type # "CONNECT"
    <3>1. sesidmap[conn[c]] # 0 BY <1>1, <1>2, <2>2 DEF Announced
    <3> QED BY <3>1, <2>2
  <2> QED BY <2>1, <2>2
<1>5. \A w \in Device : sesidmap[w] # 0 => sesidmap'[w] # 0
  <2>1. \A w \in Device : sesidmap'[w] = sesidmap[w] \/ sesidmap'[w] = c
    BY DEF onExecute_connect, Types, BrokerTypes
  <2> QED BY <2>1 DEF Conn
<1>6. \A d \in Conn \ DOMAIN conn : wire'[d] = <<>> BY <1>1, <1>3 DEF Announced
<1>7. \A d \in DOMAIN conn : sesidmap'[conn[d]] = 0 /\ wire'[d] # <<>>
                              => Head(wire'[d]).type = "CONNECT"
  <2> TAKE d \in DOMAIN conn
  <2>1. d \in Conn /\ conn[d] \in Device BY MadeConn DEF Types
  <2> QED BY <1>3, <1>4, <1>5, <2>1 DEF Announced
<1>8. \A w \in Device : pcDev[w] = "run" /\ sstate[w] = "ACTIVE" =>
        session[w] \in broken \/ sesidmap'[w] # 0 \/ wire'[session[w]] # <<>>
  <2> SUFFICES ASSUME NEW w \in Device, pcDev[w] = "run", sstate[w] = "ACTIVE"
               PROVE  session[w] \in broken \/ sesidmap'[w] # 0 \/ wire'[session[w]] # <<>>
    OBVIOUS
  <2>1. session[w] \in Conn /\ conn[session[w]] = w
    BY DEF Types, HasSession, Owned, DeviceTypes, Conn
  <2>2. CASE session[w] = c BY <1>4, <2>1, <2>2
  <2>3. CASE session[w] # c BY <1>3, <1>5, <2>1, <2>3 DEF Announced
  <2> QED BY <2>2, <2>3
<1> QED BY <1>3, <1>6, <1>7, <1>8 DEF Announced, device

\* A link breaks: what is left of a wire begins as before.
LEMMA AnnouncedBroken ==
  ASSUME Types, Announced, NEW c \in Conn, Breaks(c), UNCHANGED sesidmap,
         \A w \in Device : pcDev'[w] = "run" =>
           /\ pcDev[w] = "run" /\ sstate'[w] = sstate[w] /\ session'[w] = session[w]
  PROVE  Announced'
<1>1. PICK i \in 0..Len(wire[c]) :
        /\ wire' = [wire EXCEPT ![c] = SubSeq(wire[c], 1, i)]
        /\ conn' = conn /\ broken' = broken \cup {c}
  BY DEF Breaks
<1>2. wire[c] \in Seq(Messages) BY DEF Types, LinkTypes
<1>3. wire'[c] # <<>> => wire[c] # <<>> /\ Head(wire'[c]) = Head(wire[c])
  BY <1>1, <1>2, Prefix DEF Types, LinkTypes
<1>4. \A d \in Conn \ {c} : wire'[d] = wire[d] BY <1>1 DEF Types, LinkTypes
<1>5. DOMAIN conn \subseteq Conn BY MadeConn DEF Types
<1>6. \A d \in Conn \ DOMAIN conn : wire'[d] = <<>> BY <1>3, <1>4 DEF Announced
<1>7. \A d \in DOMAIN conn : sesidmap[conn[d]] = 0 /\ wire'[d] # <<>>
                              => Head(wire'[d]).type = "CONNECT"
  BY <1>3, <1>4, <1>5 DEF Announced
<1>8. \A w \in Device : pcDev'[w] = "run" /\ sstate'[w] = "ACTIVE" =>
        session'[w] \in broken' \/ sesidmap[w] # 0 \/ wire'[session'[w]] # <<>>
  <2> SUFFICES ASSUME NEW w \in Device, pcDev'[w] = "run", sstate'[w] = "ACTIVE"
               PROVE  session'[w] \in broken' \/ sesidmap[w] # 0
                        \/ wire'[session'[w]] # <<>>
    OBVIOUS
  <2>1. pcDev[w] = "run" /\ sstate[w] = "ACTIVE" /\ session'[w] = session[w]
    OBVIOUS
  <2>2. session[w] \in Conn BY <2>1 DEF Types, HasSession, DeviceTypes, Conn
  <2>3. CASE session[w] = c BY <1>1, <2>1, <2>3
  <2>4. CASE session[w] # c BY <1>1, <1>4, <2>1, <2>2, <2>4 DEF Announced
  <2> QED BY <2>3, <2>4
<1> QED BY <1>1, <1>6, <1>7, <1>8 DEF Announced

\* Every step keeps CONNECT first.
LEMMA AnnouncedNext == Types /\ Announced /\ [Next]_vars => Announced'
<1> SUFFICES ASSUME Types, Announced, [Next]_vars PROVE Announced'
  OBVIOUS
<1> USE DEF links, broker, accepts, device
<1>1. CASE Broker
  <2>1. ASSUME NEW c \in Conn, SessionRecv(c) PROVE Announced'
    BY <2>1, AnnouncedRead
  <2>2. CASE UNCHANGED <<conn, wire, broken, sesidmap, device>>
    BY <2>2, AnnouncedStable
  <2> QED BY <1>1, <2>1, <2>2
          DEF Broker, Accept, AcceptInsert, Answer, SessionEnd, closeSession
<1>2. ASSUME NEW v \in Device, Main(v) PROVE Announced'
  <2>1. CASE DeviceStart(v) BY <2>1, AnnouncedNew DEF DeviceStart
  <2>2. CASE DeviceConnect(v)
    <3>1. session[v] # 0 BY <2>2 DEF DeviceConnect, Types, HasSession
    <3>2. Connect(reconnectflag[v]) \in Messages
          /\ Connect(reconnectflag[v]).type = "CONNECT"
      BY DEF Connect, Messages, Types, DeviceTypes
    <3>3. \A w \in Device \ {v} : pcDev'[w] = pcDev[w]
      BY <2>2 DEF DeviceConnect, Types, DeviceTypes
    <3>4. /\ Written(v, Connect(reconnectflag[v])) \/ NotWritten(v)
          /\ UNCHANGED <<conn, broken, sesidmap, session>>
      BY <2>2 DEF DeviceConnect
    <3> QED BY <3>1, <3>2, <3>3, <3>4, AnnouncedWritten
  <2>3. CASE DeviceMeta(v)
    <3>1. session[v] # 0 /\ pcDev[v] = "run"
      BY <2>3 DEF DeviceMeta, Types, HasSession
    <3>2. Meta(sent[v] + 1) \in Messages
      BY <2>3, NextNumber DEF DeviceMeta, Meta, Messages, Types, DeviceTypes
    <3>3. \A w \in Device \ {v} : pcDev'[w] = pcDev[w]
      BY <2>3 DEF DeviceMeta, Types, DeviceTypes
    <3>4. /\ Written(v, Meta(sent[v] + 1)) \/ NotWritten(v)
          /\ UNCHANGED <<conn, broken, sesidmap, session>>
      BY <2>3 DEF DeviceMeta
    <3> QED BY <3>1, <3>2, <3>3, <3>4, AnnouncedWritten
  <2>4. CASE DeviceState11(v) \/ DeviceStop(v) \/ DeviceJoin(v)
    <3>1. /\ UNCHANGED <<conn, wire, broken, sesidmap, session>>
          /\ \A w \in Device : pcDev'[w] = "run" /\ sstate'[w] = "ACTIVE"
                                => pcDev[w] = "run" /\ sstate[w] = "ACTIVE"
      BY <2>4 DEF DeviceState11, DeviceStop, DeviceJoin, Types, DeviceTypes
    <3> QED BY <3>1, AnnouncedStable
  <2>5. CASE DeviceReconnect(v) /\ Reconnected(v)
    BY <2>5, AnnouncedNew DEF DeviceReconnect, Reconnected, AfterReconnect
  <2>6. CASE DeviceReconnect(v) /\ NotReconnected(v)
    <3>1. /\ UNCHANGED <<conn, wire, broken, sesidmap, session>>
          /\ \A w \in Device : pcDev'[w] = "run" /\ sstate'[w] = "ACTIVE"
                                => pcDev[w] = "run" /\ sstate[w] = "ACTIVE"
      BY <2>6 DEF DeviceReconnect, NotReconnected, AfterReconnect, Types, DeviceTypes
    <3> QED BY <3>1, AnnouncedStable
  <2>7. DeviceReconnect(v) => Reconnected(v) \/ NotReconnected(v) BY DEF DeviceReconnect
  <2> QED BY <1>2, <2>1, <2>2, <2>3, <2>4, <2>5, <2>6, <2>7 DEF Main
<1>3. ASSUME NEW v \in Device, Recv(v) PROVE Announced'
  <2>1. /\ UNCHANGED <<conn, wire, broken, sesidmap, session, pcDev>>
        /\ \A w \in Device : sstate'[w] = "ACTIVE" => sstate[w] = "ACTIVE"
    BY <1>3 DEF Recv, RecvTest, RecvLock, RecvRead, RecvFails, Types, DeviceTypes
  <2> QED BY <2>1, AnnouncedStable
<1>4. ASSUME NEW v \in Device, LinkBreaks(v) \/ DeviceRestart(v) PROVE Announced'
  <2>1. session[v] \in Conn
    BY <1>4 DEF LinkBreaks, DeviceRestart, Types, DeviceTypes, Conn
  <2>2. Breaks(session[v]) /\ UNCHANGED sesidmap
    BY <1>4 DEF LinkBreaks, DeviceRestart
  <2>3. \A w \in Device : pcDev'[w] = "run" =>
          /\ pcDev[w] = "run" /\ sstate'[w] = sstate[w] /\ session'[w] = session[w]
    BY <1>4 DEF LinkBreaks, DeviceRestart, Types, DeviceTypes
  <2> QED BY <2>1, <2>2, <2>3, AnnouncedBroken
<1>5. CASE UNCHANGED vars BY <1>5, AnnouncedStable DEF vars
<1> QED BY <1>1, <1>2, <1>3, <1>4, <1>5 DEF Next

\* What is put in the queue comes from a device that is known.
LEMMA HeardNext ==
  Types /\ Types' /\ Announced /\ HeardIsKnown /\ [Next]_vars => HeardIsKnown'
<1> SUFFICES ASSUME Types, Types', Announced, HeardIsKnown, [Next]_vars
             PROVE  HeardIsKnown'
  OBVIOUS
<1> DEFINE q == device_recvqueue
<1>1. \A i \in DOMAIN q : q[i][1] \in Device /\ sesidmap[q[i][1]] # 0
  BY DEF HeardIsKnown, Types, BrokerTypes
<1>2. q \in Seq(Device \X Number) BY DEF Types, BrokerTypes
<1>3. \A i \in DOMAIN q' :
        /\ q'[i][1] \in Device
        /\ sesidmap[q'[i][1]] # 0 \/ sesidmap'[q'[i][1]] # 0
  <2>1. CASE q' = q BY <1>1, <2>1
  <2>2. CASE q # <<>> /\ q' = Tail(q)
    <3>1. \A i \in DOMAIN q' : i + 1 \in DOMAIN q /\ q'[i] = q[i + 1]
      BY <1>2, <2>2, HeadTailProperties, LenProperties
    <3> QED BY <1>1, <3>1
  <2>3. ASSUME NEW c \in Conn, SessionRecv(c), ~UNCHANGED device_recvqueue
        PROVE  \A i \in DOMAIN q' : q'[i][1] \in Device /\ sesidmap[q'[i][1]] # 0
    <3>1. c \in DOMAIN conn /\ conn[c] \in Device
      BY <2>3 DEF SessionRecv, Types, LinkTypes, BrokerTypes, Accepting
    <3>2. /\ wire[c] # <<>> /\ Head(wire[c]).type # "CONNECT"
          /\ q' = Append(q, <<conn[c], Head(wire[c]).value>>)
      BY <2>3 DEF SessionRecv
    <3>3. sesidmap[conn[c]] # 0 BY <3>1, <3>2 DEF Announced
    <3>4. Head(wire[c]).value \in Number
      <4>1. wire[c] \in Seq(Messages) BY DEF Types, LinkTypes
      <4>2. Head(wire[c]) \in Messages BY <3>2, <4>1, HeadTailProperties
      <4> QED BY <3>2, <4>2 DEF Messages
    <3>5. \A i \in DOMAIN q' : \/ i \in DOMAIN q /\ q'[i] = q[i]
                               \/ q'[i] = <<conn[c], Head(wire[c]).value>>
      BY <1>2, <3>1, <3>2, <3>4, AppendProperties, LenProperties
    <3> QED BY <1>1, <3>1, <3>3, <3>5
  <2>4. Broker => \/ q' = q \/ (q # <<>> /\ q' = Tail(q))
                  \/ \E c \in Conn : SessionRecv(c)
    BY DEF Broker, Accept, AcceptInsert, Answer, SessionEnd, closeSession
  <2>5. ASSUME NEW w \in Device, Main(w) \/ Recv(w) \/ LinkBreaks(w) \/ DeviceRestart(w)
        PROVE  UNCHANGED device_recvqueue
    BY <2>5 DEF Main, DeviceStart, DeviceConnect, DeviceMeta, DeviceState11, DeviceStop,
                DeviceJoin, DeviceReconnect, Recv, RecvTest, RecvLock, RecvRead,
                RecvFails, LinkBreaks, DeviceRestart, broker
  <2> QED BY <2>1, <2>2, <2>3, <2>4, <2>5 DEF Next, vars, broker
<1>4. \A i \in DOMAIN q' : q'[i][1] \in Device /\ sesidmap'[q'[i][1]] # 0
  BY <1>3, KnownStays DEF Types, BrokerTypes
<1> QED BY <1>4 DEF HeardIsKnown, Types, Owned

-----------------------------------------------------------------------------
(* The theorems.                                                           *)

\* The inductive invariant of the sessions.
LEMMA SessionsInvariant == Spec => []SInv
<1>1. Init => SInv
  <2> SUFFICES ASSUME Init PROVE SInv
    OBVIOUS
  <2>1. Types BY TypesInit
  <2>2. Idle BY DEF Init, Idle
  <2>3. Announced
    <3>1. DOMAIN conn = {} BY DEF Init
    <3> QED BY <3>1 DEF Init, Announced
  <2>4. HeardIsKnown BY DEF Init, HeardIsKnown
  <2> QED BY <2>1, <2>2, <2>3, <2>4 DEF SInv
<1>2. SInv /\ [Next]_vars => SInv'
  BY TypesNext, IdleNext, AnnouncedNext, HeardNext DEF SInv
<1> QED BY <1>1, <1>2, PTL DEF Spec

\* The broker has been terminated or it has not: the one Boolean that TypeOK asks for
\* and nothing else needs.
LEMMA TerminatedBoolean == Spec => [](terminated \in BOOLEAN)
<1>1. Init => terminated \in BOOLEAN BY DEF Init
<1>2. terminated \in BOOLEAN /\ [Next]_vars => (terminated \in BOOLEAN)'
  <2> SUFFICES ASSUME terminated \in BOOLEAN, [Next]_vars PROVE (terminated \in BOOLEAN)'
    OBVIOUS
  <2>1. Broker => terminated' \in {terminated, TRUE}
    BY DEF Broker, Accept, AcceptInsert, Answer, SessionRecv, SessionEnd, closeSession
  <2>2. ASSUME NEW w \in Device, Main(w) \/ Recv(w) \/ LinkBreaks(w) \/ DeviceRestart(w)
        PROVE  UNCHANGED terminated
    BY <2>2 DEF Main, DeviceStart, DeviceConnect, DeviceMeta, DeviceState11, DeviceStop,
                DeviceJoin, DeviceReconnect, Recv, RecvTest, RecvLock, RecvRead,
                RecvFails, LinkBreaks, DeviceRestart, broker
  <2> QED BY <2>1, <2>2 DEF Next, vars, broker
<1> QED BY <1>1, <1>2, PTL DEF Spec

\* Every reachable state is well typed: the sessions accepted are the first ones, no
\* more than maxaccept, and each device's session is one that was made.
THEOREM TypeCorrect == Spec => []TypeOK
<1>1. Types /\ terminated \in BOOLEAN => TypeOK
  <2> SUFFICES ASSUME Types, terminated \in BOOLEAN PROVE TypeOK
    OBVIOUS
  <2>1. \A v \in Device : sent[v] \in 0..MaxSent[v]
    BY SessionsAssumption DEF Types, DeviceTypes
  <2> QED BY <2>1, Zenon
          DEF TypeOK, Types, LinkTypes, BrokerTypes, DeviceTypes, Messages
<1>2. SInv => Types BY DEF SInv
<1> QED BY <1>1, <1>2, SessionsInvariant, TerminatedBoolean, PTL

\* Whatever breaks, reconnects or restarts, a message the broker's threads take is
\* from a device the table has a session of its own for.
THEOREM HeardCorrect == Spec => []HeardIsKnown
<1>1. SInv => HeardIsKnown BY DEF SInv
<1> QED BY <1>1, SessionsInvariant, PTL

\* A device's socket is replaced, and a receive thread started on it, only when the
\* thread before has ended.
THEOREM ReplacedCorrect == Spec => []ReplacedWhenIdle
<1>1. SInv => ReplacedWhenIdle
  BY DEF SInv, Idle, ReplacedWhenIdle
<1> QED BY <1>1, SessionsInvariant, PTL
=============================================================================
