------------------------- MODULE MessageQueueProofs -------------------------
(* Proofs about MessageQueue, for any number of threads and any capacity:   *)
(* its types, that the pushers never all wait beside room in the queue, and *)
(* that it implements Mailbox.                                             *)
EXTENDS MessageQueue, TLAPS

Cond == {"run", "nofull", "noempty"}
Operation == {"none", "push", "read", "pop"}

\* Only a push waits for room, and it has a message left to put in.
PushInv ==
  /\ \A t \in Thread : wait[t] = "nofull" => t \in Pusher
  /\ \A p \in Pusher : op[p] = "push" => pushes[p] < MaxPushes

\* A consumer that has seen its message finds that message at the head.
HeadInv ==
  \A c \in Consumer \cap threads :
    op[c] = "pop" => BaseQueue # <<>> /\ Head(BaseQueue).kind \in TakenBy[c]

-----------------------------------------------------------------------------
\* A notification wakes a thread that waits on the condition, if one does.
LEMMA Notified ==
  ASSUME wait \in [Thread -> Cond], threads \subseteq Thread, NEW cv,
         NEW w \in notify_one(cv, wait)
  PROVE  /\ w \in [Thread -> Cond]
         /\ \A t \in Thread : w[t] \in {wait[t], "run"}
         /\ \/ \E t \in threads : wait[t] = cv /\ w[t] = "run"
            \/ \A t \in threads : wait[t] # cv
<1> DEFINE waiting == {t \in threads : wait[t] = cv}
<1>1. CASE waiting = {}
  BY <1>1 DEF notify_one
<1>2. CASE waiting # {}
  <2>1. PICK t \in waiting : w = [wait EXCEPT ![t] = "run"]
    BY <1>2 DEF notify_one
  <2> QED
    BY <2>1 DEF Cond
<1> QED
  BY <1>1, <1>2

\* What a push and a pop do to the waits, whether or not they notify.
LEMMA Woken ==
  ASSUME wait \in [Thread -> Cond], threads \subseteq Thread, NEW cv,
         NEW B \in BOOLEAN, wait' \in IF B THEN notify_one(cv, wait) ELSE {wait}
  PROVE  /\ wait' \in [Thread -> Cond]
         /\ \A t \in Thread : wait'[t] \in {wait[t], "run"}
         /\ B => \/ \E t \in threads : wait[t] = cv /\ wait'[t] = "run"
                 \/ \A t \in threads : wait[t] # cv
         /\ ~B => wait' = wait
<1>1. CASE B
  BY <1>1, Notified
<1>2. CASE ~B
  BY <1>2
<1> QED
  BY <1>1, <1>2

-----------------------------------------------------------------------------
\* The types, and what a thread is doing, hold at first, ...
LEMMA TypeInit == Init => TypeOK /\ PushInv
  BY QueueAssumption DEF Init, TypeOK, PushInv, Thread, Consumer

\* ... and after every step.
LEMMA TypeNext == TypeOK /\ PushInv /\ [Next]_vars => TypeOK' /\ PushInv'
<1> SUFFICES ASSUME TypeOK, PushInv, [Next]_vars
             PROVE  TypeOK' /\ PushInv'
  OBVIOUS
<1> USE QueueAssumption DEF TypeOK, PushInv
<1>0. /\ threads \subseteq Thread /\ wait \in [Thread -> Cond]
      /\ Pusher \subseteq Thread /\ Consumer \subseteq Thread
  BY DEF Cond, Thread, Consumer
<1>1. ASSUME NEW p \in Pusher, CallPush(p)
      PROVE  TypeOK' /\ PushInv'
  BY <1>0, <1>1 DEF CallPush, Calls, Runs
<1>2. ASSUME NEW t \in Thread, NEW cv \in {"nofull", "noempty"}, Waits(t, cv),
             cv = "nofull" => t \in Pusher
      PROVE  TypeOK' /\ PushInv'
  BY <1>0, <1>2 DEF Waits
<1>3. ASSUME NEW p \in Pusher, push(p)
      PROVE  TypeOK' /\ PushInv'
  <2>1. CASE Waits(p, "nofull")
    BY <1>0, <1>2, <2>1
  <2>2. CASE ~Waits(p, "nofull")
    <3>1. /\ Len(BaseQueue) < Max /\ op[p] = "push"
          /\ pushes' = [pushes EXCEPT ![p] = @ + 1]
          /\ \E k \in Kind :
               BaseQueue' = Append(BaseQueue,
                                   [from |-> p, number |-> pushes'[p], kind |-> k])
          /\ wait' \in IF SignalPush THEN notify_one("noempty", wait) ELSE {wait}
          /\ op' = [op EXCEPT ![p] = "none"]
          /\ UNCHANGED <<threads, got>>
      BY <1>3, <2>2 DEF push, Runs, Returns, NotFullAgain, NotFull
    <3>2. pushes[p] < MaxPushes /\ pushes'[p] \in 1..MaxPushes
      BY <3>1
    <3>3. PICK m \in Message : BaseQueue' = Append(BaseQueue, m)
      BY <3>1, <3>2 DEF Message
    <3>4. BaseQueue' \in Seq(Message) /\ Len(BaseQueue') <= Max
      BY <3>1, <3>3
    <3>5. wait' \in [Thread -> Cond] /\ \A t \in Thread : wait'[t] \in {wait[t], "run"}
      <4>1. SignalPush \in BOOLEAN
        BY DEF SignalPush
      <4> QED
        BY <1>0, <3>1, <4>1, Woken
    <3>6. pushes' \in [Pusher -> 0..MaxPushes]
      BY <3>1, <3>2
    <3>7. op' \in [Thread -> Operation]
      BY <1>0, <3>1 DEF Operation
    <3>8. TypeOK'
      BY <3>1, <3>4, <3>5, <3>6, <3>7 DEF Cond, Operation
    <3> QED
      BY <1>0, <3>1, <3>5, <3>8
  <2> QED
    BY <2>1, <2>2
<1>4. ASSUME NEW c \in Consumer, pop(c)
      PROVE  TypeOK' /\ PushInv'
  <2>1. CASE Waits(c, "noempty")
    BY <1>0, <1>2, <2>1
  <2>2. CASE ~Waits(c, "noempty")
    <3>1. /\ BaseQueue # <<>>
          /\ got' = [got EXCEPT ![c] = Append(@, Head(BaseQueue))]
          /\ BaseQueue' = Tail(BaseQueue)
          /\ wait' \in IF SignalPop THEN notify_one("nofull", wait) ELSE {wait}
          /\ op' = [op EXCEPT ![c] = "none"]
          /\ UNCHANGED <<threads, pushes>>
      BY <1>4, <2>2 DEF pop, Returns, NotEmpty
    <3>2. Head(BaseQueue) \in Message /\ BaseQueue' \in Seq(Message)
          /\ Len(BaseQueue') <= Max
      BY <3>1
    <3>3. got' \in [Consumer -> Seq(Message)]
      BY <3>1, <3>2
    <3>4. wait' \in [Thread -> Cond] /\ \A t \in Thread : wait'[t] \in {wait[t], "run"}
      <4>1. SignalPop \in BOOLEAN
        BY DEF SignalPop
      <4> QED
        BY <1>0, <3>1, <4>1, Woken
    <3>5. TypeOK'
      BY <1>0, <3>1, <3>2, <3>3, <3>4 DEF Cond
    <3> QED
      BY <1>0, <3>1, <3>4, <3>5
  <2> QED
    BY <2>1, <2>2
<1>5. ASSUME NEW c \in Consumer, CallRead(c) \/ read_withtimeout(c) \/ read(c) \/ TimeLimit(c)
      PROVE  TypeOK' /\ PushInv'
  <2>1. CASE Waits(c, "noempty")
    BY <1>0, <1>2, <2>1
  <2>2. CASE ~Waits(c, "noempty")
    <3>1. /\ UNCHANGED <<threads, BaseQueue, pushes, got>>
          /\ wait' \in {wait, [wait EXCEPT ![c] = "run"]}
          /\ \E o \in {"none", "read", "pop"} : op' = [op EXCEPT ![c] = o]
      BY <1>5, <2>2 DEF CallRead, Calls, read_withtimeout, read, TimeLimit
    <3>2. op' \in [Thread -> Operation] /\ \A t \in Thread : op'[t] = "push" => op[t] = "push"
      BY <1>0, <3>1 DEF Operation
    <3>3. wait' \in [Thread -> Cond] /\ \A t \in Thread : wait'[t] \in {wait[t], "run"}
      <4>1. CASE wait' = [wait EXCEPT ![c] = "run"]
        BY <1>0, <4>1 DEF Cond
      <4> QED
        BY <1>0, <3>1, <4>1
    <3>4. TypeOK'
      BY <3>1, <3>2, <3>3 DEF Cond, Operation
    <3> QED
      BY <1>0, <3>1, <3>2, <3>3, <3>4
  <2> QED
    BY <2>1, <2>2
<1>6. ASSUME NEW t \in Thread, Spurious(t)
      PROVE  TypeOK' /\ PushInv'
  BY <1>0, <1>6 DEF Spurious
<1>7. CASE UNCHANGED vars
  BY <1>7 DEF vars
<1> QED
  BY <1>1, <1>3, <1>4, <1>5, <1>6, <1>7 DEF Next, Consume

\* The queue keeps to its capacity and its types, in every interleaving.
THEOREM TypeCorrect == Spec => []TypeOK
<1>1. Spec => [](TypeOK /\ PushInv)
  BY TypeInit, TypeNext, PTL DEF Spec
<1> QED
  BY <1>1, PTL

-----------------------------------------------------------------------------
\* Threads that push all wait only when the queue is full, after every step.
LEMMA FullNext ==
  TypeOK /\ PushInv /\ AllWaitOnlyWhenFull /\ [Next]_vars => AllWaitOnlyWhenFull'
<1> SUFFICES ASSUME TypeOK, PushInv, AllWaitOnlyWhenFull, [Next]_vars,
                    (Pusher \cap threads # {})',
                    \A p \in Pusher \cap threads' : wait'[p] = "nofull"
             PROVE  Len(BaseQueue') = Max
  BY DEF AllWaitOnlyWhenFull
<1> USE QueueAssumption
<1>0. /\ threads \subseteq Thread /\ wait \in [Thread -> Cond]
      /\ Pusher \subseteq Thread /\ Consumer \subseteq Thread
  BY DEF TypeOK, Cond, Thread, Consumer
<1>00. threads' = threads
  BY DEF Next, vars, CallPush, Calls, push, Waits, Consume, CallRead, read_withtimeout,
         read, pop, TimeLimit, Spurious
\* A step that leaves the queue alone and makes no other thread wait.
<1>1. ASSUME UNCHANGED BaseQueue, NEW t, NEW cv, wait' = [wait EXCEPT ![t] = cv],
             cv # "nofull"
      PROVE  Len(BaseQueue') = Max
  BY <1>0, <1>00, <1>1 DEF AllWaitOnlyWhenFull
<1>2. ASSUME UNCHANGED <<BaseQueue, wait>>
      PROVE  Len(BaseQueue') = Max
  BY <1>00, <1>2 DEF AllWaitOnlyWhenFull
<1>3. ASSUME NEW p \in Pusher, push(p)
      PROVE  Len(BaseQueue') = Max
  <2>1. CASE ~NotFull
    BY <1>3, <2>1 DEF push, NotFullAgain, NotFull, Waits, TypeOK
  <2>2. CASE NotFull
    <3>1. wait[p] = "run" /\ p \in threads
          /\ wait' \in IF SignalPush THEN notify_one("noempty", wait) ELSE {wait}
      BY <1>3, <2>2 DEF push, NotFullAgain, Runs
    <3>2. SignalPush \in BOOLEAN
      BY DEF SignalPush
    <3>3. wait'[p] = "run"
      BY <1>0, <3>1, <3>2, Woken
    <3> QED
      BY <1>00, <3>1, <3>3
  <2> QED
    BY <2>1, <2>2
<1>4. ASSUME NEW c \in Consumer, pop(c)
      PROVE  Len(BaseQueue') = Max
  <2>1. CASE ~NotEmpty
    BY <1>1, <1>4, <2>1 DEF pop, Waits
  <2>2. CASE NotEmpty
    <3>1. wait' \in IF SignalPop THEN notify_one("nofull", wait) ELSE {wait}
      BY <1>4, <2>2 DEF pop
    <3>2. SignalPop \in BOOLEAN
      BY DEF SignalPop
    <3>3. /\ SignalPop => \/ \E t \in threads : wait[t] = "nofull" /\ wait'[t] = "run"
                          \/ \A t \in threads : wait[t] # "nofull"
          /\ \A t \in Thread : wait'[t] \in {wait[t], "run"}
          /\ ~SignalPop => wait' = wait
      BY <1>0, <3>1, <3>2, Woken
    <3>4. \A p \in Pusher \cap threads : wait[p] = "nofull"
      BY <1>0, <1>00, <3>3
    <3>5. Len(BaseQueue) = Max
      BY <1>00, <3>4 DEF AllWaitOnlyWhenFull
    <3>6. PICK t \in threads : wait[t] = "nofull" /\ wait'[t] = "run"
      BY <1>00, <3>3, <3>4, <3>5 DEF SignalPop
    <3>7. t \in Pusher
      BY <1>0, <3>6 DEF PushInv
    <3> QED
      BY <1>00, <3>6, <3>7
  <2> QED
    BY <2>1, <2>2
<1>5. ASSUME NEW t, CallPush(t) \/ CallRead(t)
      PROVE  Len(BaseQueue') = Max
  BY <1>2, <1>5 DEF CallPush, CallRead, Calls
<1>6. ASSUME NEW t, read_withtimeout(t) \/ read(t) \/ TimeLimit(t) \/ Spurious(t)
      PROVE  Len(BaseQueue') = Max
  BY <1>1, <1>2, <1>6 DEF read_withtimeout, read, TimeLimit, Spurious, Waits
<1>7. CASE UNCHANGED vars
  BY <1>2, <1>7 DEF vars
<1> QED
  BY <1>3, <1>4, <1>5, <1>6, <1>7 DEF Next, Consume

\* The pushers of a queue never all wait while it has room, although pop notifies
\* one of them, and only when it takes from a full queue.
THEOREM AllWaitFull == Spec => []AllWaitOnlyWhenFull
<1>1. Init => AllWaitOnlyWhenFull
  BY DEF Init, AllWaitOnlyWhenFull, Thread
<1>2. Spec => [](TypeOK /\ PushInv)
  BY TypeInit, TypeNext, PTL DEF Spec
<1> QED
  BY <1>1, <1>2, FullNext, PTL DEF Spec

-----------------------------------------------------------------------------
\* No step takes the message a consumer is about to pop.
LEMMA HeadNext ==
  TypeOK /\ HeadInv /\ [Next]_vars => HeadInv'
<1> SUFFICES ASSUME TypeOK, HeadInv, [Next]_vars, NEW c \in Consumer \cap threads',
                    op'[c] = "pop"
             PROVE  BaseQueue' # <<>> /\ Head(BaseQueue').kind \in TakenBy[c]
  BY DEF HeadInv
<1> USE QueueAssumption
<1>0. Consumer \subseteq Thread /\ threads \in Sharings /\ op \in [Thread -> Operation]
      /\ BaseQueue \in Seq(Message)
  BY DEF TypeOK, Thread, Consumer, Operation
<1>00. threads' = threads
  BY DEF Next, vars, CallPush, Calls, push, Waits, Consume, CallRead, read_withtimeout,
         read, pop, TimeLimit, Spurious
<1>1. ASSUME UNCHANGED BaseQueue, op[c] = "pop"
      PROVE  BaseQueue' # <<>> /\ Head(BaseQueue').kind \in TakenBy[c]
  BY <1>00, <1>1 DEF HeadInv
<1>2. ASSUME NEW p \in Pusher, push(p)
      PROVE  BaseQueue' # <<>> /\ Head(BaseQueue').kind \in TakenBy[c]
  <2>1. op[c] = "pop"
    BY <1>0, <1>2 DEF push, Waits, Returns
  <2>2. BaseQueue # <<>> /\ Head(BaseQueue).kind \in TakenBy[c]
    BY <1>00, <2>1 DEF HeadInv
  <2>3. UNCHANGED BaseQueue \/ \E m : BaseQueue' = Append(BaseQueue, m)
    BY <1>2 DEF push, Waits
  <2>4. ASSUME NEW m, BaseQueue' = Append(BaseQueue, m)
        PROVE  BaseQueue' # <<>> /\ Head(BaseQueue') = Head(BaseQueue)
    BY <1>0, <2>2, <2>4
  <2> QED
    BY <2>2, <2>3, <2>4
<1>3. ASSUME NEW e \in Consumer, pop(e)
      PROVE  BaseQueue' # <<>> /\ Head(BaseQueue').kind \in TakenBy[c]
  <2>1. CASE ~NotEmpty
    BY <1>1, <1>3, <2>1 DEF pop, Waits
  <2>2. CASE NotEmpty
    <3>1. op[e] = "pop" /\ e \in threads /\ op' = [op EXCEPT ![e] = "none"]
      BY <1>3, <2>2 DEF pop, Runs, Returns
    <3>2. op[c] = "pop" /\ c # e
      BY <1>0, <3>1
    <3>3. /\ Head(BaseQueue).kind \in TakenBy[c]
          /\ Head(BaseQueue).kind \in TakenBy[e]
      BY <1>00, <3>1, <3>2 DEF HeadInv
    <3> QED
      BY <1>0, <1>00, <3>1, <3>2, <3>3
  <2> QED
    BY <2>1, <2>2
<1>4. ASSUME NEW t, CallPush(t) \/ CallRead(t) \/ Spurious(t)
      PROVE  BaseQueue' # <<>> /\ Head(BaseQueue').kind \in TakenBy[c]
  BY <1>0, <1>1, <1>4 DEF CallPush, CallRead, Calls, Spurious
<1>5. ASSUME NEW e \in Consumer, read_withtimeout(e) \/ read(e) \/ TimeLimit(e)
      PROVE  BaseQueue' # <<>> /\ Head(BaseQueue').kind \in TakenBy[c]
  <2>1. UNCHANGED BaseQueue
    BY <1>5 DEF read_withtimeout, read, TimeLimit, Waits
  <2>2. CASE op[c] = "pop"
    BY <1>1, <2>1, <2>2
  <2>3. CASE op[c] # "pop"
    <3>1. c = e /\ NotEmpty
      BY <1>0, <1>5, <2>3 DEF read_withtimeout, read, TimeLimit, Waits
    <3>2. LookedFor(c) \/ c \in Sender
      BY <1>0, <1>5, <2>3, <3>1 DEF read_withtimeout, read, TimeLimit, Waits
    <3>3. Head(BaseQueue) \in Message
      BY <1>0, <3>1 DEF NotEmpty
    <3> QED
      BY <1>0, <1>00, <2>1, <3>1, <3>2, <3>3 DEF NotEmpty, LookedFor, Message
  <2> QED
    BY <2>2, <2>3
<1>6. CASE UNCHANGED vars
  BY <1>1, <1>6 DEF vars
<1> QED
  BY <1>2, <1>3, <1>4, <1>5, <1>6 DEF Next, Consume

\* Each step of the queue is a step of the mailbox, or none.
LEMMA MailboxNext == TypeOK /\ HeadInv /\ [Next]_vars => [M!Next]_(M!vars)
<1> SUFFICES ASSUME TypeOK, HeadInv, Next
             PROVE  M!Next \/ UNCHANGED <<BaseQueue, pushes, got>>
  BY DEF vars, M!vars
<1>1. ASSUME NEW p \in Pusher, push(p)
      PROVE  M!Put(p) \/ UNCHANGED <<BaseQueue, pushes, got>>
  BY <1>1 DEF push, Waits, NotFullAgain, NotFull, M!Put
<1>2. ASSUME NEW c \in Consumer, pop(c)
      PROVE  M!Take(c) \/ UNCHANGED <<BaseQueue, pushes, got>>
  <2>1. NotEmpty => Head(BaseQueue).kind \in TakenBy[c]
    BY <1>2 DEF pop, Runs, HeadInv
  <2> QED
    BY <1>2, <2>1 DEF pop, Waits, NotEmpty, M!Take
<1>3. ASSUME NEW t, \/ CallPush(t) \/ CallRead(t) \/ Spurious(t)
                    \/ read_withtimeout(t) \/ read(t) \/ TimeLimit(t)
      PROVE  UNCHANGED <<BaseQueue, pushes, got>>
  BY <1>3 DEF CallPush, CallRead, Calls, Spurious, read_withtimeout, read, TimeLimit, Waits
<1> QED
  BY <1>1, <1>2, <1>3 DEF Next, Consume, M!Next

\* The queue, shared by any number of threads that look for different messages, is
\* a mailbox: a thread that reads the head and then pops, without holding the lock
\* in between, takes the message it has seen.
THEOREM MailboxImplemented == Spec => Mailbox
<1>1. Init => HeadInv /\ M!Init
  BY DEF Init, HeadInv, Thread, Consumer, M!Init
<1>2. Spec => []TypeOK
  BY TypeCorrect
<1>3. Spec => []HeadInv
  BY <1>1, <1>2, HeadNext, PTL DEF Spec
<1> QED
  BY <1>1, <1>2, <1>3, MailboxNext, PTL DEF Spec, Mailbox, M!Spec
=============================================================================
