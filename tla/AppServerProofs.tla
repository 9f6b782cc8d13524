-------------------------- MODULE AppServerProofs --------------------------
(***************************************************************************)
(* Two safety properties of the application server's main thread, and its  *)
(* types, for any number of device sessions and of links.                  *)
(***************************************************************************)
EXTENDS AppServer, FiniteSetTheorems, TLAPS

-----------------------------------------------------------------------------
(* TestedTotal.  A session's thread that has read the total and not written *)
(* it yet holds recvmtx, so that meanwhile the total only falls: the main   *)
(* thread resets it, and adds to it only with recvmtx locked.               *)

TotalType == /\ TotalRecvSec \in Time
             /\ seen \in [Session -> Time]
             /\ pcSes \in [Session -> {"idle", "receiving", "measure"}]

OneMeasures == \A s, u \in Session :
                 pcSes[s] = "measure" /\ pcSes[u] = "measure" => s = u

SeenIsMost == \A s \in Session : pcSes[s] = "measure" => TotalRecvSec <= seen[s]

TotalInv == TotalType /\ OneMeasures /\ SeenIsMost /\ TestedTotal

\* A sum of times is a time, and no less than its first term.
LEMMA SumGrows ==
  ASSUME NEW a \in Time, NEW b \in Time
  PROVE  Sum(a, b) \in Time /\ a <= Sum(a, b)
BY AppServerAssumption DEF Sum, Time

\* The inductive invariant holds at first.
LEMMA TotalInit == Init => TotalInv
<1> SUFFICES ASSUME Init
             PROVE  TotalInv
  OBVIOUS
<1>1. /\ pcMain = "start" /\ TotalRecvSec = 0
      /\ pcSes = [s \in Session |-> "idle"] /\ seen = [s \in Session |-> 0]
  BY DEF Init
<1>2. 0 \in Time
  BY AppServerAssumption DEF Time
<1>3. TotalType
  BY <1>1, <1>2 DEF TotalType
<1>4. \A s \in Session : pcSes[s] # "measure"
  BY <1>1
<1> QED  BY <1>1, <1>3, <1>4 DEF TotalInv, OneMeasures, SeenIsMost, TestedTotal

\* Every step preserves it.
LEMMA TotalNext == TotalInv /\ [Next]_vars => TotalInv'
<1> SUFFICES ASSUME TotalInv, [Next]_vars
             PROVE  TotalInv'
  OBVIOUS
<1> USE AppServerAssumption DEF TotalInv, TotalType, OneMeasures, SeenIsMost
<1>1. CASE Step
  <2>1. CASE State7Test
    BY <2>1 DEF State7Test, TestedTotal, Goto, measure, Time
  <2>2. CASE State7Reset
    BY <2>2 DEF State7Reset, TestedTotal, Goto, Time
  <2>3. CASE UNCHANGED measure /\ pcMain' # "divide"
    BY <2>3 DEF measure, TestedTotal
  <2>4. Step => State7Test \/ State7Reset \/ (UNCHANGED measure /\ pcMain' # "divide")
    BY DEF Step, Start, SendConnect, Advance, State0, State6Stop, State7Counter,
           State7Divide, State7Send, State8, State8Stop, State8Join,
           State8Reconnect, State8Connect, State8Return, Return, Goto, measure,
           AfterReconnect
  <2> QED  BY <1>1, <2>1, <2>2, <2>3, <2>4
<1>2. CASE State6Report
  BY <1>2 DEF State6Report, Goto, measure, TestedTotal
<1>3. CASE State7Add
  <2>1. PICK t \in Time : TotalRecvSec' = Sum(TotalRecvSec, t)
    BY <1>3 DEF State7Add
  <2>2. \A s \in Session : pcSes[s] # "measure"
    BY <1>3 DEF State7Add, RecvmtxTaken, recvmtxFree
  <2> QED  BY <1>3, <2>1, <2>2, SumGrows DEF State7Add, Goto, TestedTotal
<1>4. CASE api_stop
  BY <1>4 DEF api_stop, Goto, measure, TestedTotal
<1>5. CASE RecvTest \/ RecvLock \/ RecvEnds \/ LinkBreaks
  BY <1>5 DEF RecvTest, RecvLock, RecvEnds, LinkBreaks, RecvMoves, measure, TestedTotal
<1>6. ASSUME NEW s \in Session, incrementRecvCounter(s)
      PROVE  TotalInv'
  BY <1>6 DEF incrementRecvCounter, SessionMoves, TestedTotal
<1>7. ASSUME NEW s \in Session, decrementRecvCounter(s)
      PROVE  TotalInv'
  BY <1>7 DEF decrementRecvCounter, SessionMoves, recvmtxFree, TestedTotal, Time
<1>8. ASSUME NEW s \in Session, AddMeasured(s)
      PROVE  TotalInv'
  <2>1. PICK t \in Time : TotalRecvSec' = Sum(seen[s], t)
    BY <1>8 DEF AddMeasured
  <2>2. TotalRecvSec' \in Time /\ seen[s] <= TotalRecvSec'
    BY <2>1, SumGrows
  <2>3. TotalRecvSec <= seen[s]
    BY <1>8 DEF AddMeasured
  <2>4. \A u \in Session : pcSes'[u] # "measure"
    BY <1>8 DEF AddMeasured, SessionMoves
  <2>5. TestedTotal'
    BY <1>8, <2>2, <2>3 DEF AddMeasured, SessionMoves, TestedTotal, Time
  <2>6. TotalType'
    BY <1>8, <2>2 DEF AddMeasured, SessionMoves, Time
  <2> QED  BY <2>4, <2>5, <2>6
<1>9. CASE UNCHANGED vars
  BY <1>9 DEF vars, measure, TestedTotal
<1> QED  BY <1>1, <1>2, <1>3, <1>4, <1>5, <1>6, <1>7, <1>8, <1>9 DEF Next

\* The total the rate is divided by has passed the test, although recvmtx is not
\* locked for it: CalcCurRate after its first block.
THEOREM TotalTested == Spec => []TestedTotal
<1>1. TotalInv => TestedTotal
  BY DEF TotalInv
<1> QED  BY TotalInit, TotalNext, <1>1, PTL DEF Spec

-----------------------------------------------------------------------------
(* ConnectFirst.  Where the main thread may send a RATE, the CONNECT of an *)
(* active link has been received, or the link broke and nothing ever is.   *)

LinkType == /\ link \in 0..MaxLink /\ broken \subseteq Link
            /\ first \in [Link -> {"none", "new", "again", "RATE"}]

Expected(l) == IF l = 1 THEN "new" ELSE "again"

\* Nothing is received on a link that has not been made.
FutureLinks == \A l \in Link : l > link => first[l] = "none" /\ l \notin broken

\* Before the first CONNECT there is the first link, or none; after it, a session
\* with a link.
Beginning ==
  /\ pcMain \in {"start", "connect0"} => link < 2
  /\ sstate # "none" => link > 0
  /\ pcMain \in {"stop", "join", "reconnect", "connect", "return"} => sstate # "none"

Announced ==
  sstate = "ACTIVE" /\ link \notin broken
    => \/ first[link] = Expected(link)
       \/ pcMain \in {"start", "connect0", "crashed"}
       \/ pcMain = "connect" /\ link > 1 /\ first[link] = "none"

ConnectInv == LinkType /\ FutureLinks /\ Beginning /\ Announced /\ ConnectFirst

\* The inductive invariant holds at first.
LEMMA ConnectInit == Init => ConnectInv
<1> SUFFICES ASSUME Init
             PROVE  ConnectInv
  OBVIOUS
<1>1. /\ pcMain = "start" /\ first = [l \in Link |-> "none"] /\ broken = {}
      /\ (link = 1 /\ sstate = "ACTIVE") \/ (link = 0 /\ sstate = "none")
  BY DEF Init
<1>2. link \in 0..MaxLink
  BY <1>1, AppServerAssumption
<1>3. LinkType
  BY <1>1, <1>2 DEF LinkType
<1>4. \A l \in Link : first[l] = "none"
  BY <1>1
<1>5. FutureLinks /\ ConnectFirst
  BY <1>1, <1>4 DEF FutureLinks, ConnectFirst
<1>6. Beginning /\ Announced
  BY <1>1 DEF Beginning, Announced
<1> QED  BY <1>3, <1>5, <1>6 DEF ConnectInv

\* What br_send does to the links, whether or not the message is written.
LEMMA SendConnects ==
  ASSUME NEW m, m \in {"new", "again", "RATE"}, ConnectInv, UNCHANGED <<link, broken>>,
         Written(m) \/ NotWritten,
         first[link] = Expected(link) \/ sstate # "ACTIVE" \/ link \in broken
           \/ m = Expected(link),
         pcMain' \notin {"start", "connect0", "stop", "join", "reconnect", "connect"},
         pcMain' = "return" => sstate # "none"
  PROVE  ConnectInv'
<1> USE DEF ConnectInv, LinkType
<1>1. CASE Written(m) /\ link \notin broken
  <2>1. link \in Link /\ sstate = "ACTIVE" /\ sstate' = sstate
    BY <1>1, AppServerAssumption DEF Written, Beginning, Link
  <2>2. first[link] \in {"none", Expected(link)}
    BY <2>1 DEF ConnectFirst, Expected
  <2>3. first' = [first EXCEPT ![link] = Expected(link)] \/ first' = first
    BY <1>1, <2>1, <2>2 DEF Written, Expected
  <2>4. first'[link] = Expected(link)
    BY <1>1, <2>1, <2>2, <2>3 DEF Written, Expected
  <2>5. \A l \in Link : l # link => first'[l] = first[l]
    BY <2>3
  <2>6. first' \in [Link -> {"none", "new", "again", "RATE"}]
    BY <2>3 DEF Expected
  <2>7. FutureLinks' /\ ConnectFirst'
    BY <2>1, <2>4, <2>5 DEF FutureLinks, ConnectFirst, Expected, Link
  <2> QED  BY <2>1, <2>4, <2>6, <2>7 DEF Beginning, Announced, Expected
<1>2. CASE NotWritten \/ link \in broken
  <2>1. first' = first /\ (sstate' = sstate \/ (sstate' = "NONACTIVE" /\ sstate = "ACTIVE"))
    BY <1>2 DEF Written, NotWritten
  <2>2. sstate' # "ACTIVE" \/ link \in broken
    BY <1>2 DEF NotWritten
  <2> QED  BY <2>1, <2>2 DEF Beginning, Announced, FutureLinks, ConnectFirst
<1> QED  BY <1>1, <1>2

\* Every step preserves it.
LEMMA ConnectNext == ConnectInv /\ [Next]_vars => ConnectInv'
<1> SUFFICES ASSUME ConnectInv, [Next]_vars
             PROVE  ConnectInv'
  OBVIOUS
<1> DEFINE Links == <<link, broken, first, sstate>>
<1> USE AppServerAssumption
<1>0. ASSUME UNCHANGED Links,
             pcMain' = pcMain
               \/ /\ pcMain \notin {"start", "connect0", "connect", "crashed"}
                  /\ pcMain' \notin {"start", "connect0"}
                  /\ pcMain' \in {"stop", "join", "reconnect", "connect", "return"}
                       => sstate # "none"
      PROVE  ConnectInv'
  BY <1>0 DEF ConnectInv, LinkType, FutureLinks, Beginning, Announced, ConnectFirst
<1>1. CASE Start
  BY <1>1 DEF Start, Goto, ConnectInv, LinkType, FutureLinks, Beginning, Announced,
              ConnectFirst
<1>2. CASE SendConnect
  <2>1. link \in 0..1 /\ (link = 0 => sstate = "none")
    BY <1>2 DEF SendConnect, ConnectInv, Beginning, LinkType
  <2>2. "new" = Expected(link) \/ sstate # "ACTIVE"
    BY <2>1 DEF Expected
  <2> QED  BY <1>2, <2>2, SendConnects DEF SendConnect, Goto
<1>3. CASE State7Send
  <2>1. first[link] = Expected(link) \/ sstate # "ACTIVE" \/ link \in broken
    BY <1>3 DEF State7Send, ConnectInv, Announced
  <2> QED  BY <1>3, <2>1, SendConnects DEF State7Send, Return, Goto
<1>4. CASE State8Reconnect
  <2>1. link > 0 /\ sstate # "none"
    BY <1>4 DEF State8Reconnect, ConnectInv, Beginning
  <2>2. CASE Reconnected
    BY <1>4, <2>1, <2>2
       DEF State8Reconnect, Reconnected, Goto, AfterReconnect, ConnectInv, LinkType,
           FutureLinks, Beginning, Announced, ConnectFirst, Link
  <2>3. CASE NotReconnected
    BY <1>4, <2>1, <2>3
       DEF State8Reconnect, NotReconnected, Goto, AfterReconnect, ConnectInv, LinkType,
           FutureLinks, Beginning, Announced, ConnectFirst
  <2> QED  BY <1>4, <2>2, <2>3 DEF State8Reconnect
<1>5. CASE State8Connect
  <2>1. sstate # "none"
    BY <1>5 DEF State8Connect, ConnectInv, Beginning
  <2>2. \/ first[link] = Expected(link) \/ sstate # "ACTIVE" \/ link \in broken
        \/ "again" = Expected(link)
    BY <1>5 DEF State8Connect, ConnectInv, Announced, Expected
  <2> QED  BY <1>5, <2>1, <2>2, SendConnects DEF State8Connect, Goto
<1>6. CASE RecvEnds
  BY <1>6 DEF RecvEnds, RecvMoves, ConnectInv, LinkType, FutureLinks, Beginning,
              Announced, ConnectFirst, Link
<1>7. CASE LinkBreaks
  BY <1>7 DEF LinkBreaks, ConnectInv, LinkType, FutureLinks, Beginning, Announced,
              ConnectFirst, Link
<1>8. CASE \/ Advance \/ State0 \/ State6Stop \/ State6Report \/ State7Counter
           \/ State7Add \/ State7Test \/ State7Divide \/ State7Reset
           \/ State8 \/ State8Stop \/ State8Join \/ State8Return
  BY <1>0, <1>8
     DEF Advance, State0, State6Stop, State6Report, State7Counter, State7Add, State7Test,
         State7Divide, State7Reset, State8, State8Stop, State8Join, State8Return,
         Executes, Return, Goto, socket, ConnectInv, Beginning
<1>9. CASE api_stop
  BY <1>9 DEF api_stop, Goto, socket, ConnectInv, LinkType, FutureLinks, Beginning,
              Announced, ConnectFirst
<1>10. CASE RecvTest \/ RecvLock
  BY <1>0, <1>10 DEF RecvTest, RecvLock, RecvMoves
<1>11. ASSUME NEW s \in Session,
              incrementRecvCounter(s) \/ decrementRecvCounter(s) \/ AddMeasured(s)
       PROVE  ConnectInv'
  BY <1>0, <1>11
     DEF incrementRecvCounter, decrementRecvCounter, AddMeasured, SessionMoves, socket
<1>12. CASE UNCHANGED vars
  BY <1>0, <1>12 DEF vars, socket
<1> QED
  BY <1>1, <1>2, <1>3, <1>4, <1>5, <1>6, <1>7, <1>8, <1>9, <1>10, <1>11, <1>12
     DEF Next, Step

\* The broker hears CONNECT first on every link: run_Entitiy and startReconnect,
\* with whatever is lost or not written.
THEOREM ConnectHeardFirst == Spec => []ConnectFirst
<1>1. ConnectInv => ConnectFirst
  BY DEF ConnectInv
<1> QED  BY ConnectInit, ConnectNext, <1>1, PTL DEF Spec

-----------------------------------------------------------------------------
(* Types.  The counter stays between 0 and the number of sessions because   *)
(* it is the number of sessions that are in reception.                     *)

Receiving == {s \in Session : pcSes[s] = "receiving"}

CounterInv == asyncrecvCountor = Cardinality(Receiving)

\* The main thread has entered a state when it takes the next one.
EnteredInv == pcMain \in {"start", "connect0", "crashed"} \/ curState # "none"

Types == TypeOK /\ CounterInv /\ EnteredInv

\* A set of sessions is finite, and has no more elements than there are sessions.
LEMMA SessionCount ==
  ASSUME NEW S \in SUBSET Session
  PROVE  IsFiniteSet(S) /\ Cardinality(S) \in 0..Cardinality(Session)
<1>1. /\ IsFiniteSet(S) /\ Cardinality(S) <= Cardinality(Session)
  BY AppServerAssumption, FS_Subset
<1>2. Cardinality(S) \in Nat /\ Cardinality(Session) \in Nat
  BY <1>1, AppServerAssumption, FS_CardinalityType
<1> QED  BY <1>1, <1>2

\* The types hold at first.
LEMMA TypesInit == Init => Types
<1> SUFFICES ASSUME Init
             PROVE  Types
  OBVIOUS
<1>1. Receiving = {} /\ Cardinality(Receiving) = 0
  <2>1. Receiving = {}
    BY DEF Init, Receiving
  <2> QED  BY <2>1, FS_EmptySet
<1>2. 0 \in Time /\ link \in 0..MaxLink
  <2>1. (link = 1 /\ sstate = "ACTIVE") \/ (link = 0 /\ sstate = "none")
    BY DEF Init
  <2> QED  BY <2>1, AppServerAssumption DEF Time
<1>3. 0 \in 0..Cardinality(Session)
  BY <1>1, SessionCount DEF Receiving
<1> QED  BY <1>1, <1>2, <1>3 DEF Init, Types, TypeOK, CounterInv, EnteredInv

\* What br_send writes has the right type.
LEMMA SendTypes ==
  ASSUME NEW m \in {"new", "again", "RATE"}, TypeOK, Written(m) \/ NotWritten
  PROVE  /\ first' \in [Link -> {"none", "new", "again", "RATE"}]
         /\ sstate' \in {"none", "ACTIVE", "NONACTIVE", "RECONNECTING"}
  BY DEF TypeOK, Written, NotWritten

\* Every step preserves them.
LEMMA TypesNext == Types /\ [Next]_vars => Types'
<1> SUFFICES ASSUME Types, [Next]_vars
             PROVE  Types'
  OBVIOUS
<1> USE AppServerAssumption DEF state, socket
<1>0. TypeOK /\ CounterInv /\ EnteredInv
  BY DEF Types
<1>b. EnteredInv'
  <2>1. CASE UNCHANGED <<pcMain, curState>> \/ pcMain' = "crashed"
    BY <1>0, <2>1 DEF EnteredInv
  <2>2. CASE pcMain \notin {"start", "connect0", "crashed"} /\ UNCHANGED curState
    BY <1>0, <2>2 DEF EnteredInv
  <2>3. CASE Start
    BY <2>3 DEF Start, Goto, EnteredInv
  <2>4. CASE SendConnect
    BY <2>4 DEF SendConnect, Goto, EnteredInv
  <2>5. CASE Advance
    <3>1. \/ pcMain = "next" /\ UNCHANGED curState
          \/ curState' = next /\ next # NoName
          \/ pcMain = "next" /\ curState' = NextStateName[curState] /\ curState' # NoName
      BY <2>5 DEF Advance
    <3>2. next \in State \cup {NoName} /\ "none" \notin State
      BY <1>0 DEF TypeOK, State
    <3>3. pcMain = "next" => NextStateName[curState] \in State \cup {NoName}
      BY <1>0 DEF EnteredInv, TypeOK, NextStateName, State
    <3> QED
      BY <1>0, <3>1, <3>2, <3>3 DEF EnteredInv
  <2>6. CASE Step /\ ~Start /\ ~SendConnect /\ ~Advance
    <3>1. pcMain \notin {"start", "connect0", "crashed"} /\ UNCHANGED curState
      BY <2>6 DEF Step, State0, State6Stop, State7Counter, State7Test, State7Divide,
         State7Reset,
         State7Send, State8, State8Stop, State8Join, State8Reconnect, State8Connect, State8Return,
         Executes, Return
    <3> QED  BY <2>2, <3>1
  <2>7. CASE State6Report \/ State7Add
    <3>1. pcMain \notin {"start", "connect0", "crashed"} /\ UNCHANGED curState
      BY <2>7 DEF State6Report, State7Add, Executes
    <3> QED  BY <2>2, <3>1
  <2>8. CASE api_stop
    <3>1. UNCHANGED <<pcMain, curState>> \/ pcMain' = "crashed"
      BY <2>8 DEF api_stop, Goto
    <3> QED  BY <2>1, <3>1
  <2>9. CASE RecvTest \/ RecvLock \/ RecvEnds \/ LinkBreaks \/ UNCHANGED vars
    <3>1. UNCHANGED <<pcMain, curState>>
      BY <2>9 DEF RecvTest, RecvLock, RecvEnds, RecvMoves, LinkBreaks, vars
    <3> QED  BY <2>1, <3>1
  <2>10. ASSUME NEW s \in Session,
                incrementRecvCounter(s) \/ decrementRecvCounter(s) \/ AddMeasured(s)
         PROVE  EnteredInv'
    <3>1. UNCHANGED <<pcMain, curState>>
      BY <2>10 DEF incrementRecvCounter, decrementRecvCounter, AddMeasured, SessionMoves
    <3> QED  BY <2>1, <3>1
  <2> QED
    BY <2>3, <2>4, <2>5, <2>6, <2>7, <2>8, <2>9, <2>10 DEF Next
<1> HIDE DEF Types
<1>a. ASSUME UNCHANGED <<pcSes, asyncrecvCountor>> PROVE CounterInv'
  BY <1>0, <1>a DEF CounterInv, Receiving
<1>1. CASE Step
  <2>1. CASE UNCHANGED <<measure, SendStopreq>>
    <3>1. CounterInv' /\ asyncrecvCountor' \in 0..Cardinality(Session)
          /\ TotalRecvSec' \in Time /\ pcSes' = pcSes /\ seen' = seen /\ SendStopreq' = SendStopreq
      BY <1>0, <1>a, <2>1 DEF TypeOK, measure
    <3>2. /\ pcMain' \in {"start", "connect0", "next", "exec", "lock", "test", "divide",
                          "reset", "send", "stop", "join", "reconnect", "connect", "return",
                          "ended", "crashed"}
          /\ curState' \in State \cup {"none"} /\ next' \in State \cup {NoName}
          /\ PrevTime' \in {"unset", "set"}
      <4>1. CASE Advance
        <5>1. NextStateName \in [State -> State \cup {NoName}]
          BY DEF NextStateName, State
        <5>2. /\ pcMain' \in {"ended", "exec"} /\ next' = NoName /\ PrevTime' = PrevTime
              /\ \/ curState' = curState
                 \/ curState' = next /\ next # NoName
                 \/ curState' = NextStateName[curState] /\ curState' # NoName
          BY <4>1 DEF Advance, Goto
        <5>3. NextStateName[curState] \in State \cup {NoName}
          BY <1>0, <4>1, <5>1 DEF TypeOK, EnteredInv, Advance
        <5> QED
          BY <1>0, <5>1, <5>2, <5>3 DEF TypeOK
      <4> QED
        BY <1>0, <1>1, <4>1 DEF TypeOK, Step, Start, SendConnect, State0, State6Stop,
           State7Counter,
           State7Test, State7Divide, State7Reset, State7Send, State8, State8Stop, State8Join,
           State8Reconnect, State8Connect, State8Return, Return, Goto, State, AfterReconnect
    <3>3. /\ link' \in 0..MaxLink /\ broken' \subseteq Link
          /\ first' \in [Link -> {"none", "new", "again", "RATE"}]
          /\ sstate' \in {"none", "ACTIVE", "NONACTIVE", "RECONNECTING"}
          /\ flag_forever' \in BOOLEAN /\ pcRecv' \in {"none", "test", "lock", "read", "ended"}
      <4>1. CASE SendConnect \/ State7Send \/ State8Connect
        <5>1. \E m \in {"new", "again", "RATE"} : Written(m) \/ NotWritten
          BY <4>1 DEF SendConnect, State7Send, State8Connect
        <5>2. UNCHANGED <<link, broken, flag_forever, pcRecv>>
          BY <4>1 DEF SendConnect, State7Send, State8Connect
        <5> QED
          BY <1>0, <5>1, <5>2, SendTypes DEF TypeOK
      <4>2. CASE State8Reconnect
        <5>1. /\ UNCHANGED <<broken, first>>
              /\ flag_forever' \in BOOLEAN /\ pcRecv' \in {"test", pcRecv}
              /\ sstate' \in {"ACTIVE", "RECONNECTING"} /\ link' \in 0..MaxLink
          <6>1. UNCHANGED <<broken, first>> /\ (Reconnected \/ NotReconnected)
            BY <4>2 DEF State8Reconnect
          <6>2. CASE Reconnected
            <7>1. link' \in 0..MaxLink
              BY <1>0, <6>2 DEF Reconnected, TypeOK
            <7> QED  BY <6>1, <6>2, <7>1 DEF Reconnected
          <6>3. CASE NotReconnected
            BY <1>0, <6>1, <6>3 DEF NotReconnected, TypeOK
          <6> QED  BY <6>1, <6>2, <6>3
        <5> QED
          BY <1>0, <5>1 DEF TypeOK
      <4>3. CASE Start \/ State8Stop
        <5>1. flag_forever' \in BOOLEAN
          BY <4>3 DEF Start, State8Stop
        <5>2. UNCHANGED <<link, broken, first, sstate>> /\ pcRecv' \in {"test", pcRecv}
          BY <4>3 DEF Start, State8Stop
        <5> QED
          BY <1>0, <5>1, <5>2 DEF TypeOK
      <4>4. CASE UNCHANGED socket
        BY <1>0, <4>4 DEF TypeOK
      <4> QED
        BY <1>1, <4>1, <4>2, <4>3, <4>4 DEF Step, Advance, State0, State6Stop, State7Counter,
           State7Test, State7Divide, State7Reset, State8, State8Join, State8Return
    <3> QED
      BY <1>b, <3>1, <3>2, <3>3 DEF Types, TypeOK
  <2>2. CASE State7Reset
    <3>1. 0 \in Time
      BY DEF Time
    <3> QED
      BY <1>b, <1>0, <1>a, <2>2, <3>1 DEF State7Reset, Goto, Types, TypeOK
  <2>3. Step => State7Reset \/ UNCHANGED <<measure, SendStopreq>>
    BY DEF Step, Start, SendConnect, Advance, State0, State6Stop, State7Counter, State7Test,
           State7Divide, State7Send, State8, State8Stop, State8Join, State8Reconnect,
           State8Connect, State8Return
  <2> QED  BY <1>1, <2>1, <2>2, <2>3
<1>2. CASE State6Report
  <2>1. TypeOK'
    BY <1>0, <1>2 DEF State6Report, Goto, measure, TypeOK, State
  <2>2. UNCHANGED <<pcSes, asyncrecvCountor>>
    BY <1>2 DEF State6Report, Goto, measure
  <2> QED  BY <1>b, <1>a, <2>1, <2>2 DEF Types
<1>3. CASE State7Add
  <2>1. TotalRecvSec' \in Time
    BY <1>0, <1>3, SumGrows DEF State7Add, TypeOK
  <2> QED
    BY <1>b, <1>0, <1>a, <1>3, <2>1 DEF State7Add, Goto, Types, TypeOK
<1>4. CASE api_stop
  <2>1. TypeOK'
    <3>1. SendStopreq' \in BOOLEAN /\ pcMain' \in {pcMain, "crashed"}
      BY <1>0, <1>4 DEF api_stop, Goto, TypeOK
    <3>2. UNCHANGED <<state, socket, measure>>
      BY <1>4 DEF api_stop
    <3> QED
      BY <1>0, <3>1, <3>2 DEF measure, TypeOK
  <2>2. UNCHANGED <<pcSes, asyncrecvCountor>>
    BY <1>4 DEF api_stop, Goto, measure
  <2> QED  BY <1>b, <1>a, <2>1, <2>2 DEF Types
<1>5. CASE RecvTest \/ RecvLock \/ RecvEnds
  <2>1. TypeOK'
    BY <1>0, <1>5 DEF RecvTest, RecvLock, RecvEnds, RecvMoves, measure, TypeOK
  <2>2. UNCHANGED <<pcSes, asyncrecvCountor>>
    BY <1>5 DEF RecvTest, RecvLock, RecvEnds, RecvMoves, measure
  <2> QED  BY <1>b, <1>a, <2>1, <2>2 DEF Types
<1>6. CASE LinkBreaks
  <2>1. TypeOK'
    BY <1>0, <1>6 DEF LinkBreaks, measure, TypeOK, Link
  <2>2. UNCHANGED <<pcSes, asyncrecvCountor>>
    BY <1>6 DEF LinkBreaks, measure
  <2> QED  BY <1>b, <1>a, <2>1, <2>2 DEF Types
<1>7. ASSUME NEW s \in Session, incrementRecvCounter(s)
      PROVE  Types'
  <2>1. /\ pcSes[s] = "idle" /\ pcSes' = [pcSes EXCEPT ![s] = "receiving"]
        /\ asyncrecvCountor' = asyncrecvCountor + 1
    BY <1>7 DEF incrementRecvCounter, SessionMoves, Counted
  <2>2. Receiving' = Receiving \cup {s} /\ s \notin Receiving
    BY <1>0, <2>1 DEF Receiving, TypeOK
  <2>3. CounterInv' /\ asyncrecvCountor' \in 0..Cardinality(Session)
    <3>1. Receiving \in SUBSET Session /\ Receiving' \in SUBSET Session
      BY DEF Receiving
    <3>2. Cardinality(Receiving') = Cardinality(Receiving) + 1
      BY <2>2, <3>1, SessionCount, FS_AddElement
    <3> QED
      BY <1>0, <2>1, <3>1, <3>2, SessionCount DEF CounterInv
  <2>4. TypeOK'
    BY <1>0, <1>7, <2>1, <2>3 DEF incrementRecvCounter, SessionMoves, TypeOK
  <2> QED  BY <1>b, <2>3, <2>4 DEF Types
<1>8. ASSUME NEW s \in Session, decrementRecvCounter(s)
      PROVE  Types'
  <2>1. /\ pcSes[s] = "receiving" /\ asyncrecvCountor' = asyncrecvCountor - 1
        /\ \E pc \in {"measure", "idle"} : pcSes' = [pcSes EXCEPT ![s] = pc]
    BY <1>8 DEF decrementRecvCounter, SessionMoves
  <2>2. Receiving' = Receiving \ {s} /\ s \in Receiving
    BY <1>0, <2>1 DEF Receiving, TypeOK
  <2>3. CounterInv' /\ asyncrecvCountor' \in 0..Cardinality(Session)
    <3>1. Receiving \in SUBSET Session /\ Receiving' \in SUBSET Session
      BY DEF Receiving
    <3>2. Cardinality(Receiving') = Cardinality(Receiving) - 1
      BY <2>2, <3>1, SessionCount, FS_RemoveElement
    <3> QED
      BY <1>0, <2>1, <3>1, <3>2, SessionCount DEF CounterInv
  <2>4. seen' \in [Session -> Time]
    BY <1>0, <1>8 DEF decrementRecvCounter, TypeOK
  <2>5. TypeOK'
    BY <1>0, <1>8, <2>1, <2>3, <2>4 DEF decrementRecvCounter, SessionMoves, TypeOK
  <2> QED  BY <1>b, <2>3, <2>5 DEF Types
<1>9. ASSUME NEW s \in Session, AddMeasured(s)
      PROVE  Types'
  <2>1. /\ pcSes[s] = "measure" /\ pcSes' = [pcSes EXCEPT ![s] = "idle"]
        /\ UNCHANGED asyncrecvCountor
    BY <1>9 DEF AddMeasured, SessionMoves
  <2>2. Receiving' = Receiving
    BY <1>0, <2>1 DEF Receiving, TypeOK
  <2>3. TotalRecvSec' \in Time /\ seen' \in [Session -> Time]
    <3>1. 0 \in Time /\ seen[s] \in Time
      BY <1>0 DEF Time, TypeOK
    <3> QED  BY <1>0, <1>9, <3>1, SumGrows DEF AddMeasured, TypeOK
  <2>4. TypeOK'
    BY <1>0, <1>9, <2>1, <2>3 DEF AddMeasured, SessionMoves, TypeOK
  <2> QED  BY <1>b, <1>0, <2>1, <2>2, <2>4 DEF Types, CounterInv
<1>10. CASE UNCHANGED vars
  <2>1. TypeOK'
    BY <1>0, <1>10 DEF vars, measure, TypeOK
  <2>2. UNCHANGED <<pcSes, asyncrecvCountor>>
    BY <1>10 DEF vars, measure
  <2> QED  BY <1>b, <1>a, <2>1, <2>2 DEF Types
<1> QED
  BY <1>1, <1>2, <1>3, <1>4, <1>5, <1>6, <1>7, <1>8, <1>9, <1>10 DEF Next

\* Every variable keeps its type; the count of data in reception is never negative
\* and never more than the sessions there are, as incrementRecvCounter and
\* decrementRecvCounter lock recvmtx.
THEOREM TypeCorrect == Spec => []TypeOK
<1>1. Types => TypeOK
  BY DEF Types
<1> QED  BY TypesInit, TypesNext, <1>1, PTL DEF Spec

=============================================================================
