---------------------------- MODULE MessageQueue ----------------------------
(***************************************************************************)
(* Multi_MessageQueue: the queue through which the threads of the broker,  *)
(* the server and the devices hand messages to one another, with its two   *)
(* condition variables.                                                    *)
(*                                                                         *)
(* Every operation runs with the queue's mutex locked, from its call, or   *)
(* from a wake-up, to its return or its wait: that is one step here.  A    *)
(* waiting thread is woken by a notification, by nothing at all, or, in    *)
(* read_withtimeout, by the time limit.  Two uses are made of the queue.   *)
(* The main threads poll: read_withtimeout again and again, and pop when   *)
(* the message at the head is one they look for (device_recvqueue of the   *)
(* broker has two of them).  The sender of a session reads, works, and     *)
(* goes on to the next.                                                    *)
(***************************************************************************)
EXTENDS Integers, FiniteSets, Sequences

CONSTANTS
  Pusher, Poller, Sender,  \* threads
  Sharings,                \* the possible sets of threads that share the queue
  Kind, TakenBy,           \* as in Mailbox
  Max,                     \* the queue's capacity; the code has 65536
  MaxPushes                \* bound: messages per pusher

Thread == Pusher \cup Poller \cup Sender
Consumer == Poller \cup Sender

ASSUME QueueAssumption ==
  /\ Sharings \subseteq SUBSET Thread
  /\ TakenBy \in [Consumer -> SUBSET Kind]
  \* Threads that share a queue look for different messages; a sender takes all.
  /\ \A S \in Sharings : \A c \in Consumer \cap S, d \in Consumer \cap S :
       c # d => TakenBy[c] \cap TakenBy[d] = {}
  /\ \A S \in Sharings : \A c \in Sender \cap S : TakenBy[c] = Kind
  /\ Max \in Nat \ {0} /\ MaxPushes \in Nat

VARIABLES
  threads,    \* the threads that share the queue
  BaseQueue,
  op,         \* op[t]: the operation t has called, "none" between two
  wait,       \* wait[t]: the condition variable t waits on; "run" when it does not
  pushes,     \* pushes[p]: messages p has pushed
  got         \* history: got[c]: what c has taken

vars == <<threads, BaseQueue, op, wait, pushes, got>>

-----------------------------------------------------------------------------
NotFull == Len(BaseQueue) < Max
NotEmpty == BaseQueue # <<>>

\* A notification wakes one of the threads that wait on the condition, if any.
notify_one(cv, w) ==
  LET waiting == {t \in threads : w[t] = cv}
  IN  IF waiting = {} THEN {w} ELSE {[w EXCEPT ![t] = "run"] : t \in waiting}

\* A thread that cannot go on waits, once it has called, and again when it wakes.
Waits(t, cv) ==
  /\ wait' = [wait EXCEPT ![t] = cv]
  /\ UNCHANGED <<threads, BaseQueue, op, pushes, got>>

\* t may run its operation o.
Runs(t, o) == t \in threads /\ op[t] = o /\ wait[t] = "run"

Returns(t) == op' = [op EXCEPT ![t] = "none"]
Calls(t, o) ==
  /\ Runs(t, "none")
  /\ op' = [op EXCEPT ![t] = o]
  /\ UNCHANGED <<threads, BaseQueue, wait, pushes, got>>

-----------------------------------------------------------------------------
CallPush(p) == p \in Pusher /\ pushes[p] < MaxPushes /\ Calls(p, "push")

\* push notifies when the queue was empty.
SignalNever == FALSE  \* mutant of SignalPop: nobody is told
SignalPush == BaseQueue = <<>>
SignalPop == Len(BaseQueue) = Max

\* No room, and the pusher goes on: a wait without its condition.
OnceWoken == TRUE  \* mutant of NotFullAgain
NotFullAgain == NotFull

push(p) ==
  /\ Runs(p, "push")
  /\ \/ /\ NotFullAgain
        /\ pushes' = [pushes EXCEPT ![p] = @ + 1]
        /\ \E k \in Kind :
             BaseQueue' = Append(BaseQueue,
                                 [from |-> p, number |-> pushes'[p], kind |-> k])
        /\ wait' \in IF SignalPush THEN notify_one("noempty", wait) ELSE {wait}
        /\ Returns(p)
        /\ UNCHANGED <<threads, got>>
     \/ ~NotFullAgain /\ Waits(p, "nofull")

\* pop and next take the head, and notify when the queue was full.
pop(c) ==
  /\ Runs(c, "pop")
  /\ \/ /\ NotEmpty
        /\ got' = [got EXCEPT ![c] = Append(@, Head(BaseQueue))]
        /\ BaseQueue' = Tail(BaseQueue)
        /\ wait' \in IF SignalPop THEN notify_one("nofull", wait) ELSE {wait}
        /\ Returns(c)
        /\ UNCHANGED <<threads, pushes>>
     \/ ~NotEmpty /\ Waits(c, "noempty")

-----------------------------------------------------------------------------
(* The threads that poll.                                                  *)

CallRead(c) == c \in Consumer /\ Calls(c, "read")

\* A poller pops what it looks for, and only that.
AnyMessage(c) == TRUE  \* mutant of LookedFor: whatever is at the head
LookedFor(c) == Head(BaseQueue).kind \in TakenBy[c]

\* read_withtimeout, and what the thread does next.
read_withtimeout(c) ==
  /\ c \in Poller /\ Runs(c, "read")
  /\ \/ /\ NotEmpty
        /\ op' = [op EXCEPT ![c] = IF LookedFor(c) THEN "pop" ELSE "none"]
        /\ UNCHANGED <<threads, BaseQueue, wait, pushes, got>>
     \/ ~NotEmpty /\ Waits(c, "noempty")

\* The time limit: the condition is looked at once more.
Unlimited(c) == c \in threads /\ FALSE  \* mutant of Limited: pollers use read
Limited(c) == c \in Poller \cap threads

TimeLimit(c) ==
  /\ Limited(c) /\ op[c] = "read" /\ wait[c] = "noempty"
  /\ wait' = [wait EXCEPT ![c] = "run"]
  /\ op' = [op EXCEPT ![c] = IF NotEmpty /\ LookedFor(c) THEN "pop" ELSE "none"]
  /\ UNCHANGED <<threads, BaseQueue, pushes, got>>

\* A sender takes whatever comes, with next.
read(c) ==
  /\ c \in Sender /\ Runs(c, "read")
  /\ \/ /\ NotEmpty
        /\ op' = [op EXCEPT ![c] = "pop"]
        /\ UNCHANGED <<threads, BaseQueue, wait, pushes, got>>
     \/ ~NotEmpty /\ Waits(c, "noempty")

\* A wait may end for no reason.
Spurious(t) ==
  /\ t \in threads /\ wait[t] # "run"
  /\ wait' = [wait EXCEPT ![t] = "run"]
  /\ UNCHANGED <<threads, BaseQueue, op, pushes, got>>

-----------------------------------------------------------------------------
Init ==
  /\ threads \in Sharings
  /\ BaseQueue = <<>>
  /\ op = [t \in Thread |-> "none"] /\ wait = [t \in Thread |-> "run"]
  /\ pushes = [p \in Pusher |-> 0] /\ got = [c \in Consumer |-> <<>>]

Consume(c) == CallRead(c) \/ read_withtimeout(c) \/ read(c) \/ pop(c)

Next == \/ \E p \in Pusher : CallPush(p) \/ push(p)
        \/ \E c \in Consumer : Consume(c) \/ TimeLimit(c)
        \/ \E t \in Thread : Spurious(t)

Spec == Init /\ [][Next]_vars

\* The threads run, and time passes; nobody relies on spurious wake-ups.
FairSpec ==
  /\ Spec
  /\ \A p \in Pusher : WF_vars(push(p))
  /\ \A c \in Consumer : WF_vars(Consume(c)) /\ WF_vars(TimeLimit(c))

-----------------------------------------------------------------------------
(* Properties.                                                             *)

Message == [from : Pusher, number : 1..MaxPushes, kind : Kind]

\* Type correctness; the queue keeps to its capacity.
TypeOK ==
  /\ threads \in Sharings
  /\ BaseQueue \in Seq(Message) /\ Len(BaseQueue) <= Max
  /\ op \in [Thread -> {"none", "push", "read", "pop"}]
  /\ wait \in [Thread -> {"run", "nofull", "noempty"}]
  /\ pushes \in [Pusher -> 0..MaxPushes]
  /\ got \in [Consumer -> Seq(Message)]

\* A pusher that waits is not forgotten although pop notifies one, and only when
\* the queue was full: when every pusher waits the queue is full.  (One of two
\* may be forgotten, as long as the other does not push.)
AllWaitOnlyWhenFull ==
  LET pushers == Pusher \cap threads
  IN  (pushers # {} /\ \A p \in pushers : wait[p] = "nofull") => Len(BaseQueue) = Max

\* So a queue with one pusher always takes its message: each push returns, as the
\* consumers go on.
PushReturns ==
  \A p \in Pusher :
    (p \in threads /\ Cardinality(Pusher \cap threads) = 1 /\ op[p] = "push")
       ~> op[p] = "none"

\* The mailbox is implemented, as a thread that has seen its message at the head
\* pops that one, ...
M == INSTANCE Mailbox WITH Producer <- Pusher, box <- BaseQueue, put <- pushes
Mailbox == M!Spec

\* ... and what is pushed is taken: notifications that reach a thread with no use
\* for the message, or none, are made up for by the time limit.
MailboxFair == M!Fairness

=============================================================================
