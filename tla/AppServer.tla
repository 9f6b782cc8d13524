----------------------------- MODULE AppServer -----------------------------
(***************************************************************************)
(* The application server's main thread: State 6 waits for the next report *)
(* or for a stop, State 7 reports the rate at which data are received,     *)
(* State 8 renews the link to the broker, State 0 is the end.              *)
(*                                                                         *)
(* With it run the application, which may ask for a stop at any time; the  *)
(* receive thread of the link to the broker, which State 8 has to join;    *)
(* and one receive thread per device session, which count the data in      *)
(* reception and measure the time.  Those lock recvmtx to do so; the main  *)
(* thread locks it for a part of what it does with the same variables.     *)
(*                                                                         *)
(* Times are counted in units of which Enough make a rate significant, and *)
(* no further than MaxSec.  Of what is written to a link only the first    *)
(* message is kept.  The broker writes nothing to the server.              *)
(***************************************************************************)
EXTENDS Integers, FiniteSets

CONSTANTS
  Session,     \* the device sessions
  Enough,      \* the measured time from which a rate is computed; 10 s in the code
  MaxSec,      \* bound: measured time
  MaxLink      \* bound: connections made to the broker

ASSUME AppServerAssumption ==
  /\ IsFiniteSet(Session)
  /\ Enough \in Nat /\ MaxSec \in Nat /\ Enough < MaxSec
  /\ MaxLink \in Nat \ {0}

VARIABLES
  \* the state machine
  pcMain,      \* where the main thread is
  curState,
  next,        \* the state execute() returned, "" for the registered one
  PrevTime,    \* "unset" until the first report: it is never initialised
  SendStopreq,
  \* the link to the broker
  link,        \* its number, 0 if none was made
  broken,      \* the links that broke
  first,       \* first[l]: the first message the broker receives on link l
  sstate, flag_forever,
  pcRecv,      \* where the link's receive thread is
  \* the measurement
  asyncrecvCountor, TotalRecvSec,
  pcSes,       \* where a device session's receive thread is
  seen         \* seen[s]: what it has read of TotalRecvSec

state   == <<curState, next, PrevTime>>
socket  == <<link, broken, first, sstate, flag_forever, pcRecv>>
measure == <<asyncrecvCountor, TotalRecvSec, pcSes, seen>>
vars == <<pcMain, state, SendStopreq, socket, measure>>

-----------------------------------------------------------------------------
Link == 1..MaxLink
State == {"State0", "State6", "State7", "State8"}
NoName == ""

\* initState: the states that follow when execute() names none.
ReconnectAgain ==  \* mutant of NextStateName: State 8 is its own successor
  [s \in State |-> CASE s = "State0" -> NoName [] s = "State6" -> "State0"
                     [] s = "State7" -> "State6" [] s = "State8" -> "State8"]
NextStateName ==
  [s \in State |-> CASE s = "State0" -> NoName [] s = "State6" -> "State0"
                     [] s \in {"State7", "State8"} -> "State6"]

\* Sums of times.
Sum(a, b) == IF a + b < MaxSec THEN a + b ELSE MaxSec
Time == 0..MaxSec

gmtxFree == pcMain # "join"
recvmtxFree == \A s \in Session : pcSes[s] # "measure"

Goto(pc) == pcMain' = pc
Return(s) == Goto("next") /\ next' = s /\ UNCHANGED <<curState, PrevTime>>

-----------------------------------------------------------------------------
(* Writing to the broker.                                                  *)

\* br_send: the message is on the link; or the link is broken and it is lost;
\* or it is, and the write fails; or the link is known not to be active.
Written(m) ==
  /\ sstate = "ACTIVE"
  /\ first' = IF link \notin broken /\ first[link] = "none"
              THEN [first EXCEPT ![link] = m] ELSE first
  /\ UNCHANGED sstate
NotWritten ==
  /\ \/ sstate # "ACTIVE" /\ UNCHANGED sstate
     \/ sstate = "ACTIVE" /\ link \in broken /\ sstate' = "NONACTIVE"
  /\ UNCHANGED first

-----------------------------------------------------------------------------
(* The main thread.                                                        *)

\* run_Entitiy: the receive thread is started if there is a link ...
Start ==
  /\ pcMain = "start"
  /\ Goto("connect0")
  /\ flag_forever' = (sstate # "none")
  /\ pcRecv' = IF sstate # "none" THEN "test" ELSE pcRecv
  /\ UNCHANGED <<state, SendStopreq, link, broken, first, sstate, measure>>

\* ... CONNECT is sent, whether or not it is, and State 6 entered.
SendConnect ==
  /\ pcMain = "connect0"
  /\ Written("new") \/ NotWritten
  /\ Goto("exec") /\ curState' = "State6"
  /\ UNCHANGED <<next, PrevTime, SendStopreq, link, broken, flag_forever, pcRecv,
                 measure>>

\* The loop of run_Entitiy: nextState if no state was named, execState if one was.
Advance ==
  /\ pcMain = "next"
  /\ LET s == IF next = NoName THEN NextStateName[curState] ELSE next
     IN  \/ s = NoName /\ Goto("ended") /\ UNCHANGED curState
         \/ s # NoName /\ Goto("exec") /\ curState' = s
  /\ next' = NoName
  /\ UNCHANGED <<PrevTime, SendStopreq, socket, measure>>

Executes(s) == pcMain = "exec" /\ curState = s

State0 == Executes("State0") /\ Return(NoName) /\ UNCHANGED <<SendStopreq, socket, measure>>

\* State 6 looks for a stop ...
State6Stop ==
  /\ Executes("State6") /\ SendStopreq
  /\ Return(NoName)
  /\ UNCHANGED <<SendStopreq, socket, measure>>

\* ... and then whether the time for a report has come.
State6Report ==
  /\ Executes("State6") /\ ~SendStopreq
  /\ Goto("next") /\ next' = "State7" /\ PrevTime' = "set"
  /\ UNCHANGED <<curState, SendStopreq, socket, measure>>

\* State 7, CalcCurRate: the counter is tested before recvmtx is locked ...
State7Counter ==
  /\ Executes("State7")
  /\ Goto(IF asyncrecvCountor > 0 THEN "lock" ELSE "test")
  /\ UNCHANGED <<state, SendStopreq, socket, measure>>

\* ... the time since starttime is added with it locked ...
RecvmtxIgnored == TRUE  \* mutant of RecvmtxTaken: the main thread does not lock it
RecvmtxTaken == recvmtxFree

State7Add ==
  /\ pcMain = "lock" /\ RecvmtxTaken
  /\ Goto("test")
  /\ \E t \in Time : TotalRecvSec' = Sum(TotalRecvSec, t)
  /\ UNCHANGED <<state, SendStopreq, socket, asyncrecvCountor, pcSes, seen>>

\* ... and the total is tested, divided by and reset without it.  Too few bytes
\* make no rate either.
State7Test ==
  /\ pcMain = "test"
  /\ (TotalRecvSec > Enough /\ Goto("divide")) \/ Goto("reset")
  /\ UNCHANGED <<state, SendStopreq, socket, measure>>

State7Divide ==
  /\ pcMain = "divide"
  /\ Goto("reset")
  /\ UNCHANGED <<state, SendStopreq, socket, measure>>

State7Reset ==
  /\ pcMain = "reset"
  /\ Goto("send") /\ TotalRecvSec' = 0
  /\ UNCHANGED <<state, SendStopreq, socket, asyncrecvCountor, pcSes, seen>>

\* RATE is sent; State 8 follows if it is not.
State7Send ==
  /\ pcMain = "send"
  /\ \/ Written("RATE") /\ Return(NoName)
     \/ NotWritten /\ Return("State8")
  /\ UNCHANGED <<SendStopreq, link, broken, flag_forever, pcRecv, measure>>

\* State 8 renews a link that was lost.  It does nothing about one that could not
\* be renewed before, and asks a session that was never made for its state.
State8 ==
  /\ Executes("State8")
  /\ \/ sstate = "none" /\ Goto("crashed") /\ UNCHANGED next
     \/ sstate = "NONACTIVE" /\ Goto("stop") /\ UNCHANGED next
     \/ sstate \in {"ACTIVE", "RECONNECTING"} /\ Goto("next") /\ next' = NoName
  /\ UNCHANGED <<curState, PrevTime, SendStopreq, socket, measure>>

\* stop_sendrecv_forever: the flag is lowered with gmtx locked ...
State8Stop ==
  /\ pcMain = "stop"
  /\ Goto(IF flag_forever THEN "join" ELSE "reconnect")
  /\ flag_forever' = FALSE
  /\ UNCHANGED <<state, SendStopreq, link, broken, first, sstate, pcRecv, measure>>

\* ... and the receive thread joined with gmtx still locked.
State8Join ==
  /\ pcMain = "join" /\ pcRecv = "ended"
  /\ Goto("reconnect")
  /\ UNCHANGED <<state, SendStopreq, socket, measure>>

\* reconnect: a new link and a new receive thread, or neither.
Reconnected ==
  /\ link < MaxLink /\ link' = link + 1
  /\ sstate' = "ACTIVE" /\ flag_forever' = TRUE /\ pcRecv' = "test"
NotReconnected == sstate' = "RECONNECTING" /\ UNCHANGED <<link, flag_forever, pcRecv>>

NoConnect == "return"  \* mutant of AfterReconnect: no CONNECT on the new link
AfterReconnect == "connect"

State8Reconnect ==
  /\ pcMain = "reconnect"
  /\ Reconnected \/ NotReconnected
  /\ Goto(AfterReconnect)
  /\ UNCHANGED <<state, SendStopreq, broken, first, measure>>

\* startReconnect sends CONNECT either way, for reconnect never says it failed ...
State8Connect ==
  /\ pcMain = "connect"
  /\ Written("again") \/ NotWritten
  /\ Goto("return")
  /\ UNCHANGED <<state, SendStopreq, link, broken, flag_forever, pcRecv, measure>>

\* ... and ends without a return statement: State 8 sees any value.
State8Return ==
  /\ pcMain = "return"
  /\ Return(NoName) \/ Return("State0")
  /\ UNCHANGED <<SendStopreq, socket, measure>>

\* All of it but the report, whose time comes only if PrevTime lets it.
Step == \/ Start \/ SendConnect \/ Advance \/ State0 \/ State6Stop
        \/ State7Counter \/ State7Test \/ State7Divide \/ State7Reset \/ State7Send
        \/ State8 \/ State8Stop \/ State8Join \/ State8Reconnect \/ State8Connect
        \/ State8Return

-----------------------------------------------------------------------------
(* The application.                                                        *)

\* api_stop is accepted in the state that State 0 follows; before the first state
\* is entered there is no state to ask.
api_stop ==
  /\ \/ /\ curState \in State /\ NextStateName[curState] = "State0"
        /\ SendStopreq' = TRUE /\ UNCHANGED pcMain
     \/ /\ curState = "none" /\ Goto("crashed") /\ UNCHANGED SendStopreq
  /\ UNCHANGED <<state, socket, measure>>

-----------------------------------------------------------------------------
(* The receive thread of the link: recv_forever.                           *)

RecvMoves(pc) ==
  /\ pcRecv' = pc
  /\ UNCHANGED <<pcMain, state, SendStopreq, link, broken, first, flag_forever, measure>>

RecvTest ==
  /\ pcRecv = "test"
  /\ RecvMoves(IF flag_forever THEN "lock" ELSE "ended")
  /\ UNCHANGED sstate

RecvLock ==
  /\ pcRecv = "lock" /\ gmtxFree
  /\ RecvMoves(IF sstate = "ACTIVE" THEN "read" ELSE "ended")
  /\ UNCHANGED sstate

\* The read fails, or meets the end of the stream and says nothing.
RecvEnds ==
  /\ pcRecv = "read" /\ link \in broken
  /\ RecvMoves("ended")
  /\ sstate' \in {"NONACTIVE", sstate}

-----------------------------------------------------------------------------
(* The receive threads of the device sessions.                             *)

SessionMoves(s, pc) ==
  /\ pcSes' = [pcSes EXCEPT ![s] = pc]
  /\ UNCHANGED <<pcMain, state, SendStopreq, socket>>

\* incrementRecvCounter, at a DECDATA or when an interrupted datum goes on.
CountedFirst == 1  \* mutant of Counted: only the datum that starts the clock counts
Counted == asyncrecvCountor + 1

incrementRecvCounter(s) ==
  /\ pcSes[s] = "idle" /\ recvmtxFree
  /\ SessionMoves(s, "receiving")
  /\ asyncrecvCountor' = Counted
  /\ UNCHANGED <<TotalRecvSec, seen>>

\* decrementRecvCounter, at a marker or when a datum is complete: the last one
\* adds the time since starttime to the total, which it reads first.
decrementRecvCounter(s) ==
  /\ pcSes[s] = "receiving" /\ recvmtxFree
  /\ SessionMoves(s, IF asyncrecvCountor = 1 THEN "measure" ELSE "idle")
  /\ asyncrecvCountor' = asyncrecvCountor - 1
  /\ seen' = [seen EXCEPT ![s] = IF asyncrecvCountor = 1 THEN TotalRecvSec ELSE @]
  /\ UNCHANGED TotalRecvSec

AddMeasured(s) ==
  /\ pcSes[s] = "measure"
  /\ SessionMoves(s, "idle")
  /\ \E t \in Time : TotalRecvSec' = Sum(seen[s], t)
  /\ seen' = [seen EXCEPT ![s] = 0]
  /\ UNCHANGED asyncrecvCountor

-----------------------------------------------------------------------------
\* The link to the broker breaks.
LinkBreaks ==
  /\ link \notin broken \cup {0}
  /\ broken' = broken \cup {link}
  /\ UNCHANGED <<pcMain, state, SendStopreq, link, first, sstate, flag_forever,
                 pcRecv, measure>>

-----------------------------------------------------------------------------
Init ==
  /\ pcMain = "start" /\ curState = "none" /\ next = NoName /\ PrevTime = "unset"
  /\ SendStopreq = FALSE
  /\ \/ link = 1 /\ sstate = "ACTIVE"
     \/ link = 0 /\ sstate = "none"
  /\ broken = {} /\ first = [l \in Link |-> "none"]
  /\ flag_forever = FALSE /\ pcRecv = "none"
  /\ asyncrecvCountor = 0 /\ TotalRecvSec = 0
  /\ pcSes = [s \in Session |-> "idle"] /\ seen = [s \in Session |-> 0]

Next == \/ Step \/ State6Report \/ State7Add \/ api_stop
        \/ RecvTest \/ RecvLock \/ RecvEnds
        \/ \E s \in Session : \/ incrementRecvCounter(s) \/ decrementRecvCounter(s)
                              \/ AddMeasured(s)
        \/ LinkBreaks

Spec == Init /\ [][Next]_vars

\* The threads go on when they can, and recvmtx is not withheld from the main
\* thread for ever.  Nobody has to stop the server, and no link to break or to be
\* noticed broken; nor does the time for a report come while PrevTime is unset.
FairSpec ==
  /\ Spec
  /\ WF_vars(Step) /\ WF_vars(PrevTime = "set" /\ State6Report) /\ SF_vars(State7Add)
  /\ WF_vars(RecvTest \/ RecvLock)
  /\ \A s \in Session : WF_vars(AddMeasured(s))

-----------------------------------------------------------------------------
(* Properties.                                                             *)

\* Type correctness.
TypeOK ==
  /\ pcMain \in {"start", "connect0", "next", "exec", "lock", "test", "divide",
                 "reset", "send", "stop", "join", "reconnect", "connect", "return",
                 "ended", "crashed"}
  /\ curState \in State \cup {"none"} /\ next \in State \cup {NoName}
  /\ PrevTime \in {"unset", "set"} /\ SendStopreq \in BOOLEAN
  /\ link \in 0..MaxLink /\ broken \subseteq Link
  /\ first \in [Link -> {"none", "new", "again", "RATE"}]
  /\ sstate \in {"none", "ACTIVE", "NONACTIVE", "RECONNECTING"}
  /\ flag_forever \in BOOLEAN /\ pcRecv \in {"none", "test", "lock", "read", "ended"}
  /\ asyncrecvCountor \in 0..Cardinality(Session) /\ TotalRecvSec \in Time
  /\ pcSes \in [Session -> {"idle", "receiving", "measure"}]
  /\ seen \in [Session -> Time]

\* The first thing the broker receives on a link is the CONNECT that says who is
\* at its other end, a new server or one that is back, whatever was lost before:
\* no RATE gets in front of it when the CONNECT was not written.
ConnectFirst ==
  /\ \A l \in Link : first[l] \in {"none", IF l = 1 THEN "new" ELSE "again"}

\* The rate is computed by a total that passed the test made of it, although
\* recvmtx is not locked then and the sessions' threads go on writing it.
TestedTotal == pcMain = "divide" => TotalRecvSec > Enough

\* A stop that api_stop accepted ends the server, also when it was accepted while
\* State 6 was on its way to State 7 and the link was lost then; unless the
\* server had crashed, or hangs in the join of the receive thread: either the
\* thread waits for gmtx, or for a link nobody tells it is gone.
StopHonoured ==
  \/ SendStopreq ~> pcMain \in {"ended", "crashed"}
  \/ <>[](pcMain = "join" /\ pcRecv \in {"lock", "read"})

=============================================================================
