------------------------ MODULE BrokerSchedulerProofs ------------------------
(* Proofs of the types and of the safety invariants of BrokerScheduler that  *)
(* speak of the queue thread and of the two consumers of the device queue.   *)
(* Each invariant is strengthened to an inductive one, which the steps of    *)
(* the other thread and of the devices preserve because they leave its       *)
(* variables alone.                                                          *)
EXTENDS BrokerScheduler, SequenceTheorems, FiniteSetTheorems, TLAPS

-----------------------------------------------------------------------------
(* Lemmas about the operators of the model.                                *)

\* Removing one element of a sequence: what releaseprevIDmap does to the stack.
LEMMA RemoveAtProps ==
  ASSUME NEW S, NEW s \in Seq(S), NEW i \in DOMAIN s
  PROVE  /\ RemoveAt(s, i) \in Seq(S)
         /\ Len(RemoveAt(s, i)) = Len(s) - 1
         /\ \A j \in 1..(i - 1) : RemoveAt(s, i)[j] = s[j]
         /\ \A j \in i..(Len(s) - 1) : RemoveAt(s, i)[j] = s[j + 1]
<1> DEFINE n == Len(s)
           a == SubSeq(s, 1, i - 1)
           b == SubSeq(s, i + 1, n)
<1>1. n \in Nat /\ i \in 1..n
  OBVIOUS
<1>2. a \in Seq(S) /\ Len(a) = i - 1 /\ \A j \in 1..(i - 1) : a[j] = s[j]
  BY <1>1
<1>3. b \in Seq(S) /\ Len(b) = n - i /\ \A j \in 1..(n - i) : b[j] = s[i + j]
  BY <1>1
<1>4. RemoveAt(s, i) = a \o b
  BY DEF RemoveAt
<1> HIDE DEF n, a, b
<1>5. /\ a \o b \in Seq(S) /\ Len(a \o b) = Len(a) + Len(b)
      /\ \A j \in 1..(Len(a) + Len(b)) :
           (a \o b)[j] = IF j <= Len(a) THEN a[j] ELSE b[j - Len(a)]
  BY <1>2, <1>3, ConcatProperties
<1>6. Len(a \o b) = n - 1
  BY <1>1, <1>2, <1>3, <1>5
<1>7. ASSUME NEW j \in 1..(i - 1) PROVE (a \o b)[j] = s[j]
  <2>1. j \in 1..(Len(a) + Len(b)) /\ j <= Len(a)
    BY <1>1, <1>2, <1>3
  <2> QED
    BY <1>2, <1>5, <2>1
<1>8. ASSUME NEW j \in i..(n - 1) PROVE (a \o b)[j] = s[j + 1]
  <2>1. /\ j \in 1..(Len(a) + Len(b)) /\ ~(j <= Len(a))
        /\ j - Len(a) \in 1..(n - i) /\ i + (j - Len(a)) = j + 1
    BY <1>1, <1>2, <1>3
  <2> DEFINE k == j - Len(a)
  <2>2. (a \o b)[j] = b[k]
    BY <1>5, <2>1
  <2>3. b[k] = s[i + k]
    BY <1>3, <2>1
  <2> QED
    BY <2>1, <2>2, <2>3
<1> QED
  BY <1>4, <1>5, <1>6, <1>7, <1>8 DEF n

\* Popping a stack: what popprevIDmap does.
LEMMA FrontProps ==
  ASSUME NEW S, NEW s \in Seq(S), s # <<>>
  PROVE  /\ Front(s) \in Seq(S) /\ Len(Front(s)) = Len(s) - 1
         /\ \A j \in 1..(Len(s) - 1) : Front(s)[j] = s[j]
         /\ Last(s) = s[Len(s)] /\ Last(s) \in S
<1>1. Len(s) \in Nat /\ Len(s) >= 1 /\ \A j \in 1..Len(s) : s[j] \in S
  OBVIOUS
<1> DEFINE n == Len(s) - 1
<1>2. n \in Nat /\ \A j \in 1..n : s[j] \in S
  BY <1>1
<1>3. /\ SubSeq(s, 1, n) \in Seq(S) /\ Len(SubSeq(s, 1, n)) = n
      /\ \A j \in 1..n : SubSeq(s, 1, n)[j] = s[j]
  <2> HIDE DEF n
  <2>1. /\ SubSeq(s, 1, n) \in Seq(S)
        /\ Len(SubSeq(s, 1, n)) = IF 1 <= n THEN n - 1 + 1 ELSE 0
        /\ \A j \in 1..(n - 1 + 1) : SubSeq(s, 1, n)[j] = s[1 + j - 1]
    BY <1>2, SubSeqProperties
  <2> QED
    BY <1>2, <2>1
<1>4. Last(s) = s[Len(s)] /\ s[Len(s)] \in S
  BY <1>1 DEF Last
<1> QED
  BY <1>3, <1>4 DEF Front

\* The types of what is known of a datum.
LEMMA DataTypes ==
  \A d \in Data : DeviceOf[d] \in Device /\ Pri[d] \in Int /\ Pri[d] \in 0..15
  BY DataAssumption

\* The entries of the stack.
StackEntry == [pri : Int, map : SUBSET Data]

\* Taking a datum out of one entry keeps the stack well typed.
LEMMA StackTypes ==
  ASSUME IDmapStack \in Seq(StackEntry), NEW i \in DOMAIN IDmapStack, NEW d
  PROVE  /\ IDmapStack[i] \in StackEntry
         /\ [IDmapStack EXCEPT ![i].map = IDmapStack[i].map \ {d}] \in Seq(StackEntry)
<1>1. IDmapStack[i] \in StackEntry
  OBVIOUS
<1> DEFINE e == [IDmapStack[i] EXCEPT !.map = IDmapStack[i].map \ {d}]
<1>2. e \in StackEntry
  BY <1>1 DEF StackEntry
<1>3. [IDmapStack EXCEPT ![i].map = IDmapStack[i].map \ {d}] = [IDmapStack EXCEPT ![i] = e]
  OBVIOUS
<1> HIDE DEF e
<1>4. [IDmapStack EXCEPT ![i] = e] \in Seq(StackEntry)
  BY <1>2
<1> QED
  BY <1>1, <1>3, <1>4

\* The messages of the broker have the type of the links.
LEMMA MessageTypes ==
  /\ \A d \in Data : Msg("META", d) \in DeviceMsg /\ Msg("COMPLETE", d) \in DeviceMsg
  /\ \A d \in Data : Msg("PRI", d) \in BrokerMsg /\ Msg("PERMIT", d) \in BrokerMsg
  /\ \A t \in {"STOP", "RESTART", "UPDATE_r"} : Update(t) \in BrokerMsg
  BY DEF Msg, Update, DeviceMsg, BrokerMsg

\* Sending one or more devices a message keeps the links well typed.
LEMMA SendTypes ==
  ASSUME toDevice \in [Device -> Seq(BrokerMsg)], NEW m \in BrokerMsg
  PROVE  /\ \A v \in Device : dv_send(v, m) => toDevice' \in [Device -> Seq(BrokerMsg)]
         /\ \A S : notifyALLsendingDevices(S, m)
                     => toDevice' \in [Device -> Seq(BrokerMsg)]
<1>1. ASSUME NEW v \in Device, dv_send(v, m)
      PROVE  toDevice' \in [Device -> Seq(BrokerMsg)]
  BY <1>1 DEF dv_send
<1>2. ASSUME NEW S, notifyALLsendingDevices(S, m)
      PROVE  toDevice' \in [Device -> Seq(BrokerMsg)]
  <2>1. \A v \in Device : Append(toDevice[v], m) \in Seq(BrokerMsg)
    OBVIOUS
  <2> QED
    BY <1>2, <2>1 DEF notifyALLsendingDevices
<1> QED
  BY <1>1, <1>2

-----------------------------------------------------------------------------
(* Type correctness.                                                       *)

\* The scheduler starts well typed: every member initialised as the classes declare it.
LEMMA TypeInit == Init => TypeOK
<1> SUFFICES ASSUME Init PROVE TypeOK
  OBVIOUS
<1>1. toDevice \in [Device -> Seq(BrokerMsg)]
  BY DEF Init
<1>2. prevpriority \in Int /\ rates \in 0..MaxRates
  BY DataAssumption DEF Init
<1>3. device_recvqueue \in Seq(DeviceMsg) /\ server_recvqueue \in Seq(ServerMsg)
  BY DEF Init
<1>4. IDmapStack \in Seq([pri : Int, map : SUBSET Data])
  BY DEF Init
<1>5. /\ stamp \in [Data -> Nat]
      /\ devstate \in [Data -> {"new", "announced", "ranked", "sending", "stopped", "done"}]
  BY DEF Init
<1>6. /\ main_priority_queue \subseteq Data /\ SendingIDmap \subseteq Data
      /\ priDeviceMap \subseteq Data /\ bufpopdata \subseteq Data
      /\ sendrate \subseteq SizeClass /\ released \subseteq Data
  BY DEF Init
<1>7. stackAct \in BOOLEAN /\ endthread \in BOOLEAN
  BY Zenon DEF Init
<1>8. /\ clock \in Nat /\ toppri \in Int
      /\ pcMain = "S4" /\ pcQueue = "none" /\ cur = NoData
  BY DEF Init
<1> QED
  BY <1>1, <1>2, <1>3, <1>4, <1>5, <1>6, <1>7, <1>8 DEF TypeOK

\* Every step of the two broker threads, the devices and the server keeps the types.
LEMMA TypeNext == TypeOK /\ [Next]_vars => TypeOK'
<1> SUFFICES ASSUME TypeOK, [Next]_vars PROVE TypeOK'
  OBVIOUS
<1> USE DataAssumption
<1> USE DEF queues, interrupt, mainVars, queueVars, selection, sendingVars, deviceVars
<1>1. CASE MainSpawn
  BY <1>1 DEF TypeOK, MainSpawn
<1>2. CASE MainState4
  BY <1>2 DEF TypeOK, MainState4, MainOnlyMoves
<1>3. CASE MainPopMeta
  <2>1. Head(device_recvqueue) \in DeviceMsg /\ Tail(device_recvqueue) \in Seq(DeviceMsg)
    BY <1>3 DEF TypeOK, MainPopMeta, TakeMeta
  <2>2. cur' \in Data
    BY <1>3, <2>1 DEF MainPopMeta, TakeMeta, DeviceMsg
  <2>3. clock' \in Nat /\ stamp' \in [Data -> Nat]
    BY <1>3, <2>2 DEF TypeOK, MainPopMeta, TakeMeta
  <2> QED
    BY <1>3, <2>1, <2>2, <2>3 DEF TypeOK, MainPopMeta, TakeMeta
<1>4. CASE MainSendPri
  BY <1>4, MessageTypes, SendTypes DEF TypeOK, MainSendPri
<1>5. CASE MainPush
  BY <1>5 DEF TypeOK, MainPush
<1>6. CASE MainInterrupt
  BY <1>6 DEF TypeOK, MainInterrupt, MoreUrgent
<1>7. CASE MainState5Again
  BY <1>7 DEF TypeOK, MainState5Again, MainOnlyMoves, State5Next
<1>8. CASE MainState6
  BY <1>8 DEF TypeOK, MainState6, MainOnlyMoves, State6Next
<1>9. CASE MainState7
  BY <1>9 DEF TypeOK, MainState7
<1>10. CASE MainState0
  BY <1>10 DEF TypeOK, MainState0
<1>11. CASE QueueState10
  BY <1>11 DEF TypeOK, QueueState10, QueueOnlyMoves, State10Next
<1>12. CASE QueueRestore
  <2>1. IDmapStack # <<>> /\ IDmapStack \in Seq([pri : Int, map : SUBSET Data])
    BY <1>12 DEF TypeOK, QueueRestore, StackFirst
  <2>2. /\ Last(IDmapStack) \in [pri : Int, map : SUBSET Data]
        /\ Front(IDmapStack) \in Seq([pri : Int, map : SUBSET Data])
    BY <2>1, FrontProps
  <2>3. SendingIDmap' \subseteq Data /\ prevpriority' \in Int
    BY <1>12, <2>2 DEF QueueRestore
  <2>4. toDevice' \in [Device -> Seq(BrokerMsg)]
    BY <1>12, MessageTypes, SendTypes DEF TypeOK, QueueRestore
  <2> QED
    BY <1>12, <2>2, <2>3, <2>4 DEF TypeOK, QueueRestore
<1>13. CASE QueueNoRestore
  BY <1>13 DEF TypeOK, QueueNoRestore, QueueOnlyMoves
<1>14. CASE QueueReadTop
  <2>1. toppri' \in Int
    <3> main_priority_queue \subseteq Data
      BY DEF TypeOK
    <3>1. \A d \in main_priority_queue : Pri[d] \in Int
      BY DataTypes
    <3>2. toppri' = toppri \/ \E d \in main_priority_queue : toppri' = Pri[d]
      BY <1>14 DEF QueueReadTop
    <3> QED
      BY <3>1, <3>2 DEF TypeOK
  <2>2. pcQueue' \in {"suspend", "pop", "more"}
    BY <1>14 DEF QueueReadTop, SelectPc
  <2> QED
    BY <1>14, <2>1, <2>2 DEF TypeOK, QueueReadTop
<1>15. CASE QueueSuspend
  <2>1. IDmapStack' \in Seq([pri : Int, map : SUBSET Data]) /\ SendingIDmap' \subseteq Data
    <3>1. [pri |-> prevpriority, map |-> SendingIDmap] \in [pri : Int, map : SUBSET Data]
      BY DEF TypeOK
    <3> DEFINE e == [pri |-> prevpriority, map |-> SendingIDmap]
    <3>2. \/ IDmapStack' = Append(IDmapStack, e) /\ SendingIDmap' = {}
          \/ IDmapStack' = IDmapStack /\ SendingIDmap' = SendingIDmap
      BY <1>15 DEF QueueSuspend, pushcurIDmap
    <3> HIDE DEF e
    <3>3. e \in StackEntry /\ IDmapStack \in Seq(StackEntry) /\ SendingIDmap \subseteq Data
      BY <3>1 DEF TypeOK, e, StackEntry
    <3>4. IDmapStack' \in Seq(StackEntry) /\ SendingIDmap' \subseteq Data
      BY <3>2, <3>3
    <3> QED
      BY <3>4 DEF StackEntry
  <2>2. toDevice' \in [Device -> Seq(BrokerMsg)]
    BY <1>15, MessageTypes, SendTypes DEF TypeOK, QueueSuspend
  <2>3. stackAct' \in BOOLEAN
    BY <1>15, Zenon DEF QueueSuspend
  <2>4. prevpriority' \in Int /\ toppri' \in Int
    BY <1>15 DEF TypeOK, QueueSuspend
  <2> QED
    BY <1>15, <2>1, <2>2, <2>3, <2>4 DEF TypeOK, QueueSuspend
<1>16. CASE QueuePopFirst
  BY <1>16 DEF TypeOK, QueuePopFirst
<1>17. CASE QueueClear
  BY <1>17 DEF TypeOK, QueueClear
<1>18. CASE QueueSetPriority
  BY <1>18 DEF TypeOK, QueueSetPriority
<1>19. CASE QueuePopMore
  BY <1>19 DEF TypeOK, QueuePopMore
<1>20. CASE QueueNoMore
  BY <1>20 DEF TypeOK, QueueNoMore, QueueOnlyMoves
<1>21. CASE QueuePushBack
  <2>1. sendrate' \subseteq SizeClass
    BY <1>21 DEF QueuePushBack, PermitRates, calcpermitRate, SizeClass
  <2>2. main_priority_queue' \subseteq Data
    BY <1>21 DEF TypeOK, QueuePushBack, PutBack
  <2> QED
    BY <1>21, <2>1, <2>2 DEF TypeOK, QueuePushBack
<1>22. CASE QueuePermit
  BY <1>22, MessageTypes, SendTypes DEF TypeOK, QueuePermit
<1>23. CASE QueueReject
  BY <1>23 DEF TypeOK, QueueReject
<1>24. CASE QueuePermitted
  BY <1>24 DEF TypeOK, QueuePermitted
<1>25. CASE QueueDetect
  BY <1>25 DEF TypeOK, QueueDetect, QueueOnlyMoves
<1>26. CASE QueuePeek
  BY <1>26 DEF TypeOK, QueuePeek, QueueOnlyMoves
<1>27. CASE QueueRelease
  BY <1>27 DEF TypeOK, QueueRelease, PopComplete
<1>28. CASE QueueReleaseStacked
  <2>1. /\ Head(device_recvqueue) \in DeviceMsg
        /\ device_recvqueue' \in Seq(DeviceMsg)
    BY <1>28 DEF TypeOK, QueueReleaseStacked, PopComplete
  <2> DEFINE d == Decoded[Head(device_recvqueue).data]
  <2>2. PICK i \in DOMAIN IDmapStack :
          LET rest == IDmapStack[i].map \ {d}
          IN  /\ d \in IDmapStack[i].map
              /\ IDmapStack' = IF rest = {} THEN RemoveAt(IDmapStack, i)
                               ELSE [IDmapStack EXCEPT ![i].map = rest]
              /\ IF DeviceOf[d] \in DevicesOf(rest) THEN UNCHANGED toDevice
                 ELSE dv_send(DeviceOf[d], Update("UPDATE_r"))
    BY <1>28 DEF QueueReleaseStacked
  <2>3. released' = released \cup {d}
    BY <1>28 DEF QueueReleaseStacked
  <2> HIDE DEF d
  <2>4. IDmapStack \in Seq(StackEntry)
    BY DEF TypeOK, StackEntry
  <2>5. d \in Data
    BY <2>2, <2>4, StackTypes DEF StackEntry
  <2>6. /\ RemoveAt(IDmapStack, i) \in Seq(StackEntry)
        /\ [IDmapStack EXCEPT ![i].map = IDmapStack[i].map \ {d}] \in Seq(StackEntry)
    BY <2>4, RemoveAtProps, StackTypes
  <2>7. IDmapStack' \in Seq([pri : Int, map : SUBSET Data])
    BY <2>2, <2>6 DEF StackEntry
  <2>8. toDevice' \in [Device -> Seq(BrokerMsg)]
    BY <2>2, <2>5, MessageTypes, SendTypes DEF TypeOK
  <2>9. released' \subseteq Data
    BY <2>3, <2>5 DEF TypeOK
  <2> QED
    BY <1>28, <2>1, <2>7, <2>8, <2>9 DEF TypeOK, QueueReleaseStacked, PopComplete
<1>29. CASE QueueReleaseUnknown
  BY <1>29 DEF TypeOK, QueueReleaseUnknown, PopComplete
<1>30. CASE \E d \in Data : DeviceMeta(d)
  BY <1>30, MessageTypes DEF TypeOK, DeviceMeta
<1>31. CASE \E d \in Data : DeviceComplete(d)
  BY <1>31, MessageTypes DEF TypeOK, DeviceComplete
<1>32. CASE \E v \in Device : DeviceTake(v)
  <2>1. PICK v \in Device : DeviceTake(v)
    BY <1>32
  <2>2. /\ Head(toDevice[v]) \in BrokerMsg
        /\ toDevice' \in [Device -> Seq(BrokerMsg)]
    BY <2>1 DEF TypeOK, DeviceTake
  <2>3. devstate' \in [Data -> {"new", "announced", "ranked", "sending", "stopped", "done"}]
    BY <2>1, <2>2 DEF TypeOK, DeviceTake, D_State07, D_State08, D_State10, Becomes, InState
  <2> QED
    BY <2>1, <2>2, <2>3 DEF TypeOK, DeviceTake
<1>33. CASE ServerRate
  BY <1>33 DEF TypeOK, ServerRate, ServerMsg
<1>34. CASE ServerStop
  BY <1>34 DEF TypeOK, ServerStop, ServerMsg
<1>35. CASE UNCHANGED vars
  BY <1>35 DEF TypeOK, vars
<1> QED
  BY <1>1, <1>2, <1>3, <1>4, <1>5, <1>6, <1>7, <1>8, <1>9, <1>10, <1>11, <1>12, <1>13, <1>14,
     <1>15, <1>16, <1>17, <1>18, <1>19, <1>20, <1>21, <1>22, <1>23, <1>24, <1>25, <1>26,
     <1>27, <1>28, <1>29, <1>30, <1>31, <1>32, <1>33, <1>34, <1>35 DEF Next, Main, Queue,
     Environment

\* Every state the scheduler reaches is well typed: queues hold messages of their
\* protocol, maps hold data, the program counters stay among the states of the code.
THEOREM TypeCorrect == Spec => []TypeOK
  BY TypeInit, TypeNext, PTL DEF Spec

-----------------------------------------------------------------------------
(* The stack.                                                              *)

\* Removing one element keeps the others, once each.
LEMMA RemoveAtReindex ==
  ASSUME NEW S, NEW s \in Seq(S), NEW i \in DOMAIN s
  PROVE  \E f \in [DOMAIN RemoveAt(s, i) -> DOMAIN s] :
           /\ \A j \in DOMAIN RemoveAt(s, i) : f[j] # i /\ RemoveAt(s, i)[j] = s[f[j]]
           /\ \A j, k \in DOMAIN RemoveAt(s, i) : f[j] = f[k] => j = k
           /\ \A k \in DOMAIN s : k # i => \E j \in DOMAIN RemoveAt(s, i) : f[j] = k
<1> DEFINE n == Len(s)
           t == RemoveAt(s, i)
           f == [j \in 1..(n - 1) |-> IF j < i THEN j ELSE j + 1]
<1>1. /\ n \in Nat /\ i \in 1..n /\ DOMAIN s = 1..n
      /\ DOMAIN t = 1..(n - 1)
      /\ \A j \in 1..(i - 1) : t[j] = s[j]
      /\ \A j \in i..(n - 1) : t[j] = s[j + 1]
  <2>1. t \in Seq(S) /\ Len(t) = n - 1
    BY RemoveAtProps
  <2> HIDE DEF t
  <2>2. n \in Nat /\ i \in 1..n /\ DOMAIN s = 1..n /\ DOMAIN t = 1..(n - 1)
    BY <2>1
  <2> QED
    BY <2>2, RemoveAtProps DEF t
<1> HIDE DEF n, t
<1>2. f \in [1..(n - 1) -> 1..n]
  BY <1>1
<1>3. \A j \in 1..(n - 1) : f[j] # i /\ t[j] = s[f[j]]
  <2> SUFFICES ASSUME NEW j \in 1..(n - 1) PROVE f[j] # i /\ t[j] = s[f[j]]
    OBVIOUS
  <2>1. CASE j < i
    BY <1>1, <2>1
  <2>2. CASE ~(j < i)
    <3>1. j \in i..(n - 1)
      BY <1>1, <2>2
    <3> QED
      BY <1>1, <2>2, <3>1
  <2> QED
    BY <2>1, <2>2
<1>4. \A j, k \in 1..(n - 1) : f[j] = f[k] => j = k
  BY <1>1
<1>5. \A k \in 1..n : k # i => \E j \in 1..(n - 1) : f[j] = k
  <2> SUFFICES ASSUME NEW k \in 1..n, k # i PROVE \E j \in 1..(n - 1) : f[j] = k
    OBVIOUS
  <2>1. CASE k < i
    <3>1. k \in 1..(n - 1) /\ f[k] = k
      BY <1>1, <2>1
    <3> QED
      BY <3>1
  <2>2. CASE ~(k < i)
    <3>1. k - 1 \in 1..(n - 1) /\ ~(k - 1 < i) /\ k - 1 + 1 = k
      BY <1>1, <2>2
    <3>2. f[k - 1] = k
      BY <3>1
    <3> QED
      BY <3>1, <3>2
  <2> QED
    BY <2>1, <2>2
<1> HIDE DEF f
<1>6. /\ f \in [DOMAIN t -> DOMAIN s]
      /\ \A j \in DOMAIN t : f[j] # i /\ t[j] = s[f[j]]
      /\ \A j, k \in DOMAIN t : f[j] = f[k] => j = k
      /\ \A k \in DOMAIN s : k # i => \E j \in DOMAIN t : f[j] = k
  BY <1>1, <1>2, <1>3, <1>4, <1>5
<1> QED
  BY <1>6 DEF t

\* The stack t that resolutePassing leaves when it takes d out of entry i.
Without(t, s, i, d) ==
  LET rest == s[i].map \ {d}
  IN  t = IF rest = {} THEN RemoveAt(s, i) ELSE [s EXCEPT ![i].map = rest]

\* Its entries are those of s, once each, d taken out of one; an entry that is
\* gone held only d.
Keeps(f, t, s, i, d) ==
  /\ \A j, k \in DOMAIN t : f[j] = f[k] => j = k
  /\ \A j \in DOMAIN t :
       /\ t[j].pri = s[f[j]].pri
       /\ f[j] # i => t[j].map = s[f[j]].map
       /\ f[j] = i => t[j].map = s[i].map \ {d} /\ t[j].map # {}
  /\ \A k \in DOMAIN s : k # i \/ s[i].map \ {d} # {} => \E j \in DOMAIN t : f[j] = k

\* Releasing a datum from a stacked map leaves the other maps as they were, each
\* once, and removes the map only when it is empty.
LEMMA WithoutProps ==
  ASSUME NEW s \in Seq(StackEntry), NEW i \in DOMAIN s, NEW d, NEW t, Without(t, s, i, d)
  PROVE  \E f \in [DOMAIN t -> DOMAIN s] : Keeps(f, t, s, i, d)
<1> DEFINE rest == s[i].map \ {d}
<1>1. CASE rest = {}
  <2>1. t = RemoveAt(s, i)
    BY <1>1 DEF Without
  <2> QED
    BY <1>1, <2>1, RemoveAtReindex DEF Keeps
<1>2. CASE rest # {}
  <2>1. t = [s EXCEPT ![i].map = rest]
    BY <1>2 DEF Without
  <2>2. s[i] \in StackEntry
    OBVIOUS
  <2>3. /\ DOMAIN t = DOMAIN s
        /\ t[i].map = rest /\ t[i].pri = s[i].pri
        /\ \A j \in DOMAIN s : j # i => t[j] = s[j]
    BY <2>1, <2>2 DEF StackEntry
  <2> DEFINE f == [j \in DOMAIN s |-> j]
  <2>4. f \in [DOMAIN t -> DOMAIN s] /\ \A j \in DOMAIN s : f[j] = j
    BY <2>3
  <2> HIDE DEF f
  <2> QED
    BY <1>2, <2>3, <2>4 DEF Keeps
<1> QED
  BY <1>1, <1>2

-----------------------------------------------------------------------------
(* What the queue thread is sending has one priority.                       *)

\* The points between the selection of data and their permission.
Selecting == {"clear", "setpri", "more", "back", "permit"}

\* The data chosen so far have the priority being sent from the moment it is
\* set, nothing is being sent while the first one is waited for or a map is
\* restored, and the urgency that made the thread suspend is still waiting.
QueueInv ==
  /\ pcMain = "S4" => pcQueue = "none"
  /\ priDeviceMap # {} => pcQueue \in Selecting
  /\ pcQueue \in {"return", "pop", "clear", "setpri"} => SendingIDmap = {}
  /\ pcQueue \in {"clear", "setpri"} => \E d \in Data : priDeviceMap = {d}
  /\ pcQueue \in {"more", "back", "permit"}
       => \A d \in priDeviceMap : Pri[d] = prevpriority
  /\ pcQueue = "suspend" => /\ toppri < prevpriority
                            /\ \E d \in main_priority_queue : Pri[d] = toppri
  /\ OnePriorityAtATime

\* The variables QueueInv reads that only the queue thread writes.
queueInvVars == <<priDeviceMap, pcQueue, SendingIDmap, toppri, prevpriority, IDmapStack>>

\* A step of another thread may only add data to the main priority queue.
LEMMA QueueInvStable ==
  ASSUME QueueInv, UNCHANGED queueInvVars, pcMain' = "S4" => pcMain = "S4",
         main_priority_queue \subseteq main_priority_queue'
  PROVE  QueueInv'
  BY DEF QueueInv, queueInvVars, OnePriorityAtATime

\* The strengthened invariant of the queue thread holds at the start.
LEMMA QueueInvInit == Init => QueueInv
  BY DEF Init, QueueInv, OnePriorityAtATime, Selecting

\* Every step keeps it; those of the main thread and the devices by QueueInvStable.
LEMMA QueueInvNext == TypeOK /\ QueueInv /\ [Next]_vars => QueueInv'
<1> SUFFICES ASSUME TypeOK, QueueInv, [Next]_vars PROVE QueueInv'
  OBVIOUS
<1> USE DEF queues, interrupt, mainVars, queueVars, selection, sendingVars, deviceVars
<1>1. CASE MainSpawn
  BY <1>1 DEF QueueInv, OnePriorityAtATime, MainSpawn, Selecting
<1>2. CASE \/ MainState4 \/ MainPopMeta \/ MainSendPri \/ MainPush \/ MainInterrupt
           \/ MainState5Again \/ MainState6 \/ MainState7 \/ MainState0
  <2>1. UNCHANGED queueInvVars /\ main_priority_queue \subseteq main_priority_queue'
    BY <1>2 DEF queueInvVars, MainOnlyMoves, MainState4, MainPopMeta, TakeMeta, MainSendPri,
       MainPush, MainInterrupt, MainState5Again, MainState6, MainState7, MainState0
  <2>2. pcMain' # "S4"
    BY <1>2 DEF MainState4, MainPopMeta, TakeMeta, MainSendPri, MainPush, MainInterrupt,
       MainState5Again, State5Next, MainState6, State6Next, MainState7, MainState0
  <2> QED
    BY <2>1, <2>2, QueueInvStable
<1>3. CASE Environment \/ UNCHANGED vars
  <2>1. UNCHANGED <<queueInvVars, main_priority_queue, pcMain>>
    BY <1>3 DEF queueInvVars, Environment, DeviceMeta, DeviceTake, DeviceComplete,
       ServerRate, ServerStop, vars
  <2> QED
    BY <2>1, QueueInvStable
<1>4. CASE QueueState10
  BY <1>4 DEF QueueInv, OnePriorityAtATime, Selecting, QueueState10, QueueOnlyMoves, State10Next
<1>5. CASE QueueRestore
  <2>1. /\ pcQueue = "return" /\ IDmapStack # <<>>
        /\ SendingIDmap' = Last(IDmapStack).map /\ prevpriority' = Last(IDmapStack).pri
        /\ IDmapStack' = Front(IDmapStack)
        /\ pcQueue' = "S11" /\ UNCHANGED <<pcMain, priDeviceMap>>
    BY <1>5 DEF QueueRestore, StackFirst
  <2>2. IDmapStack \in Seq(StackEntry)
    BY DEF TypeOK, StackEntry
  <2>3. /\ Len(IDmapStack) \in 1..Len(IDmapStack) /\ Last(IDmapStack) = IDmapStack[Len(IDmapStack)]
        /\ \A j \in DOMAIN Front(IDmapStack) :
             j \in DOMAIN IDmapStack /\ Front(IDmapStack)[j] = IDmapStack[j]
    BY <2>1, <2>2, FrontProps
  <2>4. OnePriorityAtATime'
    BY <2>1, <2>2, <2>3 DEF QueueInv, OnePriorityAtATime
  <2> QED
    BY <2>1, <2>4 DEF QueueInv, Selecting
<1>6. CASE QueueNoRestore
  BY <1>6 DEF QueueInv, OnePriorityAtATime, Selecting, QueueNoRestore, QueueOnlyMoves
<1>7. CASE QueueReadTop
  BY <1>7 DEF QueueInv, OnePriorityAtATime, Selecting, QueueReadTop, SelectPc, MoreUrgent
<1>8. CASE QueueSuspend
  BY <1>8 DEF QueueInv, OnePriorityAtATime, Selecting, QueueSuspend, pushcurIDmap
<1>9. CASE QueuePopFirst
  <2>1. PICK d \in main_priority_queue : priDeviceMap' = {d}
    BY <1>9 DEF QueuePopFirst
  <2>2. d \in Data
    BY DEF TypeOK
  <2> QED
    BY <1>9, <2>1, <2>2 DEF QueueInv, OnePriorityAtATime, Selecting, QueuePopFirst
<1>10. CASE QueueClear
  BY <1>10 DEF QueueInv, OnePriorityAtATime, Selecting, QueueClear
<1>11. CASE QueueSetPriority
  BY <1>11 DEF QueueInv, OnePriorityAtATime, Selecting, QueueSetPriority
<1>12. CASE QueuePopMore
  BY <1>12 DEF QueueInv, OnePriorityAtATime, Selecting, QueuePopMore, Selectable
<1>13. CASE QueueNoMore
  BY <1>13 DEF QueueInv, OnePriorityAtATime, Selecting, QueueNoMore, QueueOnlyMoves
<1>14. CASE QueuePushBack
  BY <1>14 DEF QueueInv, OnePriorityAtATime, Selecting, QueuePushBack, PutBack
<1>15. CASE QueuePermit
  BY <1>15 DEF QueueInv, OnePriorityAtATime, Selecting, QueuePermit
<1>16. CASE QueueReject
  BY <1>16 DEF QueueInv, OnePriorityAtATime, Selecting, QueueReject
<1>17. CASE QueuePermitted
  BY <1>17 DEF QueueInv, OnePriorityAtATime, Selecting, QueuePermitted
<1>18. CASE QueueDetect
  BY <1>18 DEF QueueInv, OnePriorityAtATime, Selecting, QueueDetect, QueueOnlyMoves
<1>19. CASE QueuePeek
  BY <1>19 DEF QueueInv, OnePriorityAtATime, Selecting, QueuePeek, QueueOnlyMoves
<1>20. CASE QueueRelease
  BY <1>20 DEF QueueInv, OnePriorityAtATime, Selecting, QueueRelease, PopComplete
<1>21. CASE QueueReleaseStacked
  <2>1. /\ pcQueue = "complete" /\ pcQueue' = "S11"
        /\ UNCHANGED <<pcMain, SendingIDmap, priDeviceMap, prevpriority>>
    BY <1>21 DEF QueueReleaseStacked, PopComplete
  <2> DEFINE d == Decoded[Head(device_recvqueue).data]
  <2>2. PICK i \in DOMAIN IDmapStack : Without(IDmapStack', IDmapStack, i, d)
    BY <1>21 DEF QueueReleaseStacked, Without
  <2> HIDE DEF d
  <2>3. IDmapStack \in Seq(StackEntry)
    BY DEF TypeOK, StackEntry
  <2>4. PICK f \in [DOMAIN IDmapStack' -> DOMAIN IDmapStack] :
          Keeps(f, IDmapStack', IDmapStack, i, d)
    BY <2>2, <2>3, WithoutProps
  <2>5. /\ \A x \in SendingIDmap : Pri[x] = prevpriority
        /\ \A j \in DOMAIN IDmapStack : /\ IDmapStack[j].map # {}
              /\ \A x \in IDmapStack[j].map : Pri[x] = IDmapStack[j].pri
    BY DEF QueueInv, OnePriorityAtATime
  <2>6. \A j \in DOMAIN IDmapStack' : /\ IDmapStack'[j].map # {}
              /\ \A x \in IDmapStack'[j].map : Pri[x] = IDmapStack'[j].pri
    BY <2>4, <2>5 DEF Keeps
  <2> QED
    BY <2>1, <2>5, <2>6 DEF QueueInv, OnePriorityAtATime, Selecting
<1>22. CASE QueueReleaseUnknown
  BY <1>22 DEF QueueInv, OnePriorityAtATime, Selecting, QueueReleaseUnknown, PopComplete
<1> QED
  BY <1>1, <1>2, <1>3, <1>4, <1>5, <1>6, <1>7, <1>8, <1>9, <1>10, <1>11, <1>12, <1>13, <1>14,
     <1>15, <1>16, <1>17, <1>18, <1>19, <1>20, <1>21, <1>22 DEF Next, Main, Queue

\* What State 10 and the interrupt controller keep between two steps: data are
\* chosen at one priority, and a suspension has a more urgent datum waiting.
THEOREM QueueInvariant == Spec => []QueueInv
  BY QueueInvInit, QueueInvNext, TypeCorrect, PTL DEF Spec

\* The data being sent have the priority the main thread compares new data
\* with, and those of a stacked map, never empty, the one they were stacked
\* under, whatever is suspended, restored and released in between.
THEOREM OnePriorityCorrect == Spec => []OnePriorityAtATime
<1>1. QueueInv => OnePriorityAtATime
  BY DEF QueueInv
<1> QED
  BY <1>1, QueueInvariant, PTL

\* interruptHighPriority suspends a transfer only for a waiting datum that is
\* more urgent than all that are being sent, although it locks stackmtx after
\* it has read the priorities.
THEOREM SuspensionCorrect == Spec => []SuspendForMoreUrgent
<1>1. TypeOK /\ QueueInv => SuspendForMoreUrgent
  <2> SUFFICES ASSUME TypeOK, QueueInv, pcQueue = "suspend"
               PROVE  \E d \in main_priority_queue : \A e \in SendingIDmap : Pri[d] < Pri[e]
    BY DEF SuspendForMoreUrgent
  <2>1. /\ toppri < prevpriority /\ \A e \in SendingIDmap : Pri[e] = prevpriority
        /\ \E d \in main_priority_queue : Pri[d] = toppri
    BY DEF QueueInv, OnePriorityAtATime
  <2> QED
    BY <2>1
<1> QED
  BY <1>1, TypeCorrect, QueueInvariant, PTL

-----------------------------------------------------------------------------
(* Something is being sent while State 11 waits.                           *)

\* Whatever rate there is, a class of the chosen data gets some of it.
LEMMA SomeClassHasRate ==
  ASSUME priDeviceMap # {}, priDeviceMap \subseteq Data, NEW wd \in Nat \ {0}
  PROVE  \E d \in priDeviceMap : SClass[d] \in calcpermitRate(wd)
<1> DEFINE NS == Cardinality(OfClass(0))
           NM == Cardinality(OfClass(1))
           left == wd - SDEF * NS
<1>1. /\ \A d \in priDeviceMap : \E c \in 0..2 : d \in OfClass(c)
      /\ \A c \in 0..2 : \A d \in OfClass(c) : d \in priDeviceMap /\ SClass[d] = c
  <2>1. \A d \in priDeviceMap : SClass[d] \in 0..2
    BY DataAssumption DEF SizeClass
  <2> QED
    BY <2>1 DEF OfClass
<1>2. /\ 0 \in calcpermitRate(wd)
      /\ \/ calcpermitRate(wd) = {0} /\ OfClass(1) \cup OfClass(2) = {}
         \/ calcpermitRate(wd) = {0} /\ OfClass(0) # {}
         \/ /\ calcpermitRate(wd) = 0..1
            /\ OfClass(1) \cup OfClass(2) # {}
            /\ SDEF * NM > left \/ OfClass(2) = {} \/ OfClass(1) # {}
         \/ calcpermitRate(wd) = 0..2
  BY DEF calcpermitRate
<1>3. CASE calcpermitRate(wd) = {0} /\ OfClass(1) \cup OfClass(2) = {}
  BY <1>1, <1>3
<1>4. CASE OfClass(0) # {}
  BY <1>1, <1>2, <1>4
<1>5. CASE /\ calcpermitRate(wd) = 0..1 /\ OfClass(0) = {}
           /\ OfClass(1) \cup OfClass(2) # {}
           /\ SDEF * NM > left \/ OfClass(2) = {} \/ OfClass(1) # {}
  <2>1. OfClass(1) # {}
    <3>1. NS = 0
      BY <1>5, FS_EmptySet
    <3>2. left = wd
      BY <3>1 DEF SDEF
    <3>3. ASSUME OfClass(1) = {} PROVE NM = 0 /\ SDEF * NM = 0
      <4>1. NM = 0
        BY <3>3, FS_EmptySet
      <4> QED
        BY <4>1 DEF SDEF
    <3> HIDE DEF NS, NM, left
    <3> QED
      BY <1>5, <3>2, <3>3
  <2> QED
    BY <1>1, <1>5, <2>1
<1>6. CASE calcpermitRate(wd) = 0..2
  BY <1>1, <1>6
<1> QED
  BY <1>2, <1>3, <1>4, <1>5, <1>6

\* With nothing being sent a datum is chosen, and among the data chosen one will
\* be permitted.
BatchInv ==
  /\ SendingIDmap = {} /\ pcQueue \in {"more", "back"} => priDeviceMap # {}
  /\ SendingIDmap = {} /\ pcQueue = "permit"
       => \E d \in priDeviceMap : SClass[d] \in sendrate
  /\ WaitsForSomething

\* Nothing is chosen at the start.
LEMMA BatchInvInit == Init => BatchInv
  BY DEF Init, BatchInv, WaitsForSomething

\* Every step of the queue thread keeps it; the others leave it alone.
LEMMA BatchInvNext == TypeOK /\ QueueInv /\ BatchInv /\ [Next]_vars => BatchInv'
<1> SUFFICES ASSUME TypeOK, QueueInv, BatchInv, [Next]_vars PROVE BatchInv'
  OBVIOUS
<1> USE DEF queues, interrupt, mainVars, queueVars, selection, sendingVars, deviceVars
<1> USE DEF BatchInv, WaitsForSomething
<1>1. CASE UNCHANGED <<pcQueue, SendingIDmap, priDeviceMap, sendrate>>
  BY <1>1
<1>2. CASE Main \/ Environment \/ UNCHANGED vars
  <2>1. CASE MainSpawn
    BY <2>1 DEF MainSpawn
  <2>2. CASE Main /\ ~MainSpawn
    BY <1>1, <2>2 DEF Main, MainOnlyMoves, MainState4, MainPopMeta, TakeMeta, MainSendPri,
       MainPush,
       MainInterrupt, MainState5Again, MainState6, MainState7, MainState0
  <2>3. CASE Environment \/ UNCHANGED vars
    BY <1>1, <2>3 DEF vars, Environment, DeviceMeta, DeviceTake, DeviceComplete, ServerRate,
       ServerStop
  <2> QED
    BY <1>2, <2>1, <2>2, <2>3
<1>3. CASE QueueState10 \/ QueueNoRestore \/ QueueReadTop
  BY <1>3 DEF QueueState10, State10Next, QueueNoRestore, QueueReadTop, QueueOnlyMoves, SelectPc
\* A restored map is not empty.
<1>4. CASE QueueRestore
  <2>1. /\ IDmapStack # <<>> /\ SendingIDmap' = Last(IDmapStack).map
        /\ pcQueue' = "S11"
    BY <1>4 DEF QueueRestore, StackFirst
  <2>2. Last(IDmapStack).map # {}
    <3>1. IDmapStack \in Seq(StackEntry)
      BY DEF TypeOK, StackEntry
    <3>2. /\ Len(IDmapStack) \in 1..Len(IDmapStack)
          /\ Last(IDmapStack) = IDmapStack[Len(IDmapStack)]
      <4>1. Last(IDmapStack) = IDmapStack[Len(IDmapStack)]
        BY <2>1, <3>1, FrontProps
      <4> QED
        BY <2>1, <3>1, <4>1
    <3>3. Len(IDmapStack) \in DOMAIN IDmapStack
      BY <3>1, <3>2
    <3> QED
      BY <3>2, <3>3 DEF QueueInv, OnePriorityAtATime
  <2> QED
    BY <2>1, <2>2
<1>5. CASE QueueSuspend \/ QueuePopFirst \/ QueueClear
  BY <1>5 DEF QueueSuspend, QueuePopFirst, QueueClear
<1>6. CASE QueueSetPriority
  BY <1>6 DEF QueueSetPriority
<1>7. CASE QueuePopMore \/ QueueNoMore
  BY <1>7 DEF QueuePopMore, QueueNoMore, QueueOnlyMoves
\* The rates are computed.
<1>8. CASE QueuePushBack
  <2>1. /\ pcQueue = "back" /\ pcQueue' = "permit" /\ sendrate' \in PermitRates
        /\ UNCHANGED <<priDeviceMap, SendingIDmap>>
    BY <1>8 DEF QueuePushBack
  <2>2. ASSUME SendingIDmap = {} PROVE \E d \in priDeviceMap : SClass[d] \in sendrate'
    <3>1. PICK wd \in CommRate : sendrate' = calcpermitRate(wd)
      BY <2>1, <2>2 DEF PermitRates
    <3>2. wd \in Nat \ {0} /\ priDeviceMap \subseteq Data /\ priDeviceMap # {}
      BY <2>1, <2>2, DataAssumption DEF TypeOK
    <3>3. \E d \in priDeviceMap : SClass[d] \in calcpermitRate(wd)
      BY <3>2, SomeClassHasRate
    <3> QED
      BY <3>1, <3>3
  <2> QED
    BY <2>1, <2>2
<1>9. CASE QueuePermit \/ QueueReject
  BY <1>9 DEF QueuePermit, QueueReject
<1>10. CASE QueuePermitted
  BY <1>10 DEF QueuePermitted
<1>11. CASE QueueDetect \/ QueuePeek
  BY <1>11 DEF QueueDetect, QueuePeek, QueueOnlyMoves
<1>12. CASE QueueRelease \/ QueueReleaseStacked \/ QueueReleaseUnknown
  BY <1>12 DEF QueueRelease, QueueReleaseStacked, QueueReleaseUnknown, PopComplete
<1> QED
  BY <1>2, <1>3, <1>4, <1>5, <1>6, <1>7, <1>8, <1>9, <1>10, <1>11, <1>12 DEF Next, Queue

\* State 11 waits for a COMPLETE only while something is being sent: at every
\* communication rate, and for every mix of size classes, State 10 permits one of
\* the data it chose when it had nothing to send.
THEOREM WaitsCorrect == Spec => []WaitsForSomething
<1>1. BatchInv => WaitsForSomething
  BY DEF BatchInv
<1> QED
  BY <1>1, BatchInvInit, BatchInvNext, TypeCorrect, QueueInvariant, PTL DEF Spec

-----------------------------------------------------------------------------
(* Two consumers of the device queue.                                      *)

HasNo(s, t) == \A i \in DOMAIN s : s[i].type # t

\* State 4 goes to State 5 whatever the device queue holds: no COMPLETE can be
\* there yet, as no datum was accepted and no device was permitted to send.
FirstDatumInv ==
  pcMain \in {"S4", "S4peek"} =>
    /\ main_priority_queue = {} /\ priDeviceMap = {} /\ bufpopdata = {}
    /\ \A v \in Device : HasNo(toDevice[v], "PERMIT")
    /\ \A d \in Data : devstate[d] \notin {"sending", "stopped"}
    /\ HasNo(device_recvqueue, "COMPLETE")

PeekInv == FirstDatumInv /\ PeekMatchesPop

\* Both receive queues start empty: nothing was seen, nothing is popped.
LEMMA PeekInvInit == Init => PeekInv
  BY DEF Init, PeekInv, FirstDatumInv, PeekMatchesPop, HasNo

\* Appending to a queue and taking its head.
LEMMA HasNoProps ==
  ASSUME NEW S, NEW s \in Seq(S), NEW t
  PROVE  /\ \A m \in S : HasNo(s, t) /\ m.type # t => HasNo(Append(s, m), t)
         /\ s # <<>> /\ HasNo(s, t) => Head(s).type # t /\ HasNo(Tail(s), t)
         /\ HasNo(<<>>, t)
<1>1. ASSUME NEW m \in S, HasNo(s, t), m.type # t PROVE HasNo(Append(s, m), t)
  BY <1>1 DEF HasNo
<1>2. ASSUME s # <<>>, HasNo(s, t) PROVE Head(s).type # t /\ HasNo(Tail(s), t)
  <2>1. /\ Len(s) \in Nat /\ Len(s) >= 1 /\ DOMAIN s = 1..Len(s) /\ Head(s) = s[1]
        /\ Tail(s) \in Seq(S) /\ Len(Tail(s)) = Len(s) - 1
        /\ \A j \in 1..(Len(s) - 1) : Tail(s)[j] = s[j + 1]
    BY <1>2
  <2> QED
    BY <1>2, <2>1 DEF HasNo
<1>3. HasNo(<<>>, t)
  BY DEF HasNo
<1> QED
  BY <1>1, <1>2, <1>3

\* Sending the devices anything but a PERMIT.
LEMMA SendHasNo ==
  ASSUME TypeOK, NEW m \in BrokerMsg, m.type # "PERMIT",
         \A v \in Device : HasNo(toDevice[v], "PERMIT")
  PROVE  /\ \A v \in Device : dv_send(v, m)
                 => \A w \in Device : HasNo(toDevice'[w], "PERMIT")
         /\ \A S : notifyALLsendingDevices(S, m)
                 => \A w \in Device : HasNo(toDevice'[w], "PERMIT")
<1>1. \A w \in Device : HasNo(Append(toDevice[w], m), "PERMIT")
  <2>1. \A w \in Device : toDevice[w] \in Seq(BrokerMsg)
    BY DEF TypeOK
  <2> QED
    BY <2>1, HasNoProps
<1>2. toDevice \in [Device -> Seq(BrokerMsg)]
  BY DEF TypeOK
<1> QED
  BY <1>1, <1>2 DEF dv_send, notifyALLsendingDevices

\* A message that arrives does not change the head another thread has seen.
LEMMA AppendHead ==
  ASSUME NEW S, NEW s \in Seq(S), s # <<>>, NEW m \in S
  PROVE  Append(s, m) # <<>> /\ Head(Append(s, m)) = Head(s)
  OBVIOUS

\* A step that leaves alone what PeekMatchesPop reads of the queues, or appends.
LEMMA PeekStable ==
  ASSUME TypeOK, PeekMatchesPop,
         \/ UNCHANGED device_recvqueue
         \/ \E m \in DeviceMsg : device_recvqueue' = Append(device_recvqueue, m),
         \/ UNCHANGED server_recvqueue
         \/ \E m \in ServerMsg : server_recvqueue' = Append(server_recvqueue, m),
         pcMain' = pcMain \/ pcMain' \notin {"S5", "S7"},
         pcQueue' = pcQueue \/ pcQueue' # "complete"
  PROVE  PeekMatchesPop'
<1>1. /\ device_recvqueue # <<>> => /\ device_recvqueue' # <<>>
                                    /\ Head(device_recvqueue') = Head(device_recvqueue)
      /\ server_recvqueue # <<>> => /\ server_recvqueue' # <<>>
                                    /\ Head(server_recvqueue') = Head(server_recvqueue)
  <2>1. device_recvqueue \in Seq(DeviceMsg) /\ server_recvqueue \in Seq(ServerMsg)
    BY DEF TypeOK
  <2> QED
    BY <2>1, AppendHead
<1> QED
  BY <1>1 DEF PeekMatchesPop

\* Every step keeps what the threads saw at the heads of the receive queues.
LEMMA PeekInvNext == TypeOK /\ PeekInv /\ [Next]_vars => PeekInv'
<1> SUFFICES ASSUME TypeOK, PeekInv, [Next]_vars PROVE PeekInv'
  OBVIOUS
<1> USE DEF queues, interrupt, mainVars, queueVars, selection, sendingVars, deviceVars, PeekInv
\* The main thread.
<1>1. CASE MainSpawn
  <2>1. PeekMatchesPop'
    BY <1>1 DEF MainSpawn, PeekMatchesPop
  <2> QED
    BY <1>1, <2>1 DEF MainSpawn, FirstDatumInv
<1>2. CASE MainState4
  <2>1. PeekedType \notin ServerMsg => /\ device_recvqueue # <<>>
                                       /\ PeekedType = Head(device_recvqueue).type
    BY <1>2 DEF MainState4, Readable, PeekedType, TypeOK
  <2>2. device_recvqueue # <<>> => Head(device_recvqueue).type = "META"
    <3>1. device_recvqueue \in Seq(DeviceMsg) /\ HasNo(device_recvqueue, "COMPLETE")
      BY <1>2 DEF MainState4, FirstDatumInv, TypeOK
    <3>2. ASSUME device_recvqueue # <<>>
          PROVE  /\ Head(device_recvqueue) \in DeviceMsg
                 /\ Head(device_recvqueue).type # "COMPLETE"
      BY <3>1, <3>2, HasNoProps
    <3> QED
      BY <3>2 DEF DeviceMsg
  <2>3. PeekMatchesPop'
    BY <1>2, <2>1, <2>2 DEF MainState4, MainOnlyMoves, PeekMatchesPop
  <2> QED
    BY <1>2, <2>3 DEF MainState4, FirstDatumInv
<1>3. CASE MainPopMeta
  <2>1. pcQueue # "complete"
    BY <1>3 DEF MainPopMeta, TakeMeta, PeekMatchesPop
  <2> QED
    BY <1>3, <2>1 DEF MainPopMeta, TakeMeta, PeekMatchesPop, FirstDatumInv
<1>4. CASE MainSendPri \/ MainPush \/ MainInterrupt \/ MainState0
  BY <1>4 DEF MainSendPri, MainPush, MainInterrupt, MainState0, PeekMatchesPop, FirstDatumInv
<1>5. CASE MainState5Again \/ MainState6
  <2>1. /\ PeekedType = "META" => /\ device_recvqueue # <<>>
                                  /\ Head(device_recvqueue).type = "META"
        /\ PeekedType = "RATE" => /\ server_recvqueue # <<>>
                                  /\ Head(server_recvqueue) = "RATE"
    <3>1. server_recvqueue # <<>> => Head(server_recvqueue) \in ServerMsg
      BY DEF TypeOK
    <3>2. device_recvqueue # <<>> => Head(device_recvqueue).type \in {"META", "COMPLETE"}
      <4>1. device_recvqueue # <<>> => Head(device_recvqueue) \in DeviceMsg
        BY DEF TypeOK
      <4> QED
        BY <4>1 DEF DeviceMsg
    <3> QED
      BY <1>5, <3>1, <3>2 DEF MainState5Again, MainState6, Readable, PeekedType, ServerMsg
  <2> QED
    BY <1>5, <2>1 DEF MainState5Again, State5Next, MainState6, State6Next, MainOnlyMoves,
       PeekMatchesPop, FirstDatumInv
<1>6. CASE MainState7
  BY <1>6 DEF MainState7, PeekMatchesPop, FirstDatumInv
\* The queue thread.
<1>7. CASE \/ QueueState10 \/ QueueNoRestore \/ QueueReadTop \/ QueueClear \/ QueueSetPriority
           \/ QueueNoMore \/ QueuePermitted \/ QueueDetect \/ QueuePushBack
  BY <1>7 DEF QueueState10, State10Next, QueueNoRestore, QueueReadTop, SelectPc, QueueClear,
     QueueSetPriority, QueueNoMore, QueuePermitted, QueueDetect, QueueOnlyMoves,
     QueuePushBack, PutBack, PeekMatchesPop, FirstDatumInv
<1>8. CASE QueuePopFirst \/ QueuePopMore \/ QueuePermit \/ QueueReject
  BY <1>8 DEF QueuePopFirst, QueuePopMore, QueuePermit, QueueReject, PeekMatchesPop,
     FirstDatumInv
<1>9. CASE QueueRestore \/ QueueSuspend
  <2>1. PeekMatchesPop'
    BY <1>9 DEF QueueRestore, QueueSuspend, PeekMatchesPop
  <2>2. pcMain \in {"S4", "S4peek"} => \A w \in Device : HasNo(toDevice'[w], "PERMIT")
    <3>1. /\ Update("STOP") \in BrokerMsg /\ Update("RESTART") \in BrokerMsg
          /\ Update("STOP").type # "PERMIT" /\ Update("RESTART").type # "PERMIT"
      BY MessageTypes DEF Update, Msg
    <3> QED
      BY <1>9, <3>1, SendHasNo DEF QueueRestore, QueueSuspend, FirstDatumInv
  <2> QED
    BY <1>9, <2>1, <2>2 DEF QueueRestore, QueueSuspend, FirstDatumInv
<1>10. CASE QueuePeek
  BY <1>10 DEF QueuePeek, QueueOnlyMoves, PeekMatchesPop, FirstDatumInv
<1>11. CASE QueueRelease \/ QueueReleaseStacked \/ QueueReleaseUnknown
  <2>1. /\ pcQueue = "complete" /\ pcQueue' # "complete" /\ UNCHANGED <<pcMain, server_recvqueue>>
        /\ device_recvqueue # <<>> /\ device_recvqueue' = Tail(device_recvqueue)
    BY <1>11 DEF QueueRelease, QueueReleaseStacked, QueueReleaseUnknown, PopComplete
  <2>2. PeekMatchesPop'
    BY <2>1 DEF PeekMatchesPop
  <2>3. pcMain \notin {"S4", "S4peek"}
    <3>1. ~HasNo(device_recvqueue, "COMPLETE")
      <4>1. device_recvqueue \in Seq(DeviceMsg) /\ Head(device_recvqueue).type = "COMPLETE"
        BY <2>1 DEF TypeOK, PeekMatchesPop
      <4> QED
        BY <2>1, <4>1, HasNoProps
    <3> QED
      BY <3>1 DEF FirstDatumInv
  <2> QED
    BY <2>1, <2>2, <2>3 DEF FirstDatumInv
\* The environment.
<1>12. CASE \E d \in Data : DeviceMeta(d)
  <2>1. PICK d \in Data : DeviceMeta(d)
    BY <1>12
  <2>2. PeekMatchesPop'
    BY <2>1, PeekStable, MessageTypes DEF DeviceMeta
  <2>3. device_recvqueue \in Seq(DeviceMsg) /\ Msg("META", d) \in DeviceMsg
        /\ Msg("META", d).type # "COMPLETE"
    BY MessageTypes DEF TypeOK, Msg
  <2>4. HasNo(device_recvqueue, "COMPLETE") => HasNo(device_recvqueue', "COMPLETE")
    BY <2>1, <2>3, HasNoProps DEF DeviceMeta
  <2>5. \A e \in Data : devstate[e] \notin {"sending", "stopped"}
                        => devstate'[e] \notin {"sending", "stopped"}
    BY <2>1 DEF DeviceMeta, TypeOK
  <2> QED
    BY <2>1, <2>2, <2>4, <2>5 DEF DeviceMeta, FirstDatumInv
<1>13. CASE \E d \in Data : DeviceComplete(d)
  <2>1. PICK d \in Data : DeviceComplete(d)
    BY <1>13
  <2>2. PeekMatchesPop'
    BY <2>1, PeekStable, MessageTypes DEF DeviceComplete
  <2> QED
    BY <2>1, <2>2 DEF DeviceComplete, FirstDatumInv
<1>14. CASE \E v \in Device : DeviceTake(v)
  <2>1. PICK v \in Device : DeviceTake(v)
    BY <1>14
  <2>2. PeekMatchesPop'
    BY <2>1 DEF DeviceTake, PeekMatchesPop
  <2>3. ASSUME pcMain \in {"S4", "S4peek"}
        PROVE  /\ \A w \in Device : HasNo(toDevice'[w], "PERMIT")
               /\ \A d \in Data : devstate'[d] \notin {"sending", "stopped"}
    <3>1. /\ toDevice[v] \in Seq(BrokerMsg) /\ toDevice[v] # <<>>
          /\ toDevice' = [toDevice EXCEPT ![v] = Tail(toDevice[v])]
          /\ toDevice \in [Device -> Seq(BrokerMsg)]
      BY <2>1 DEF DeviceTake, TypeOK
    <3>2. \A w \in Device : HasNo(toDevice[w], "PERMIT")
      BY <2>3 DEF FirstDatumInv
    <3>3. Head(toDevice[v]).type # "PERMIT" /\ HasNo(Tail(toDevice[v]), "PERMIT")
      BY <3>1, <3>2, HasNoProps
    <3>4. \A w \in Device : HasNo(toDevice'[w], "PERMIT")
      BY <3>1, <3>2, <3>3
    <3>5. \A d \in Data : devstate[d] \notin {"sending", "stopped"}
      BY <2>3 DEF FirstDatumInv
    <3>6. \/ UNCHANGED devstate
          \/ \E d \in Data : devstate' = [devstate EXCEPT ![d] = "ranked"]
      <4>1. Head(toDevice[v]) \in BrokerMsg
        BY <3>1
      <4> QED
        BY <2>1, <3>3, <3>5, <4>1 DEF DeviceTake, D_State07, D_State08, D_State10, Becomes,
           InState, BrokerMsg
    <3> QED
      BY <3>4, <3>5, <3>6 DEF TypeOK
  <2> QED
    BY <2>1, <2>2, <2>3 DEF DeviceTake, FirstDatumInv
<1>15. CASE ServerRate \/ ServerStop
  <2>1. PeekMatchesPop'
    BY <1>15, PeekStable DEF ServerRate, ServerStop, ServerMsg
  <2> QED
    BY <1>15, <2>1 DEF ServerRate, ServerStop, FirstDatumInv
<1>16. CASE UNCHANGED vars
  BY <1>16 DEF vars, PeekMatchesPop, FirstDatumInv
<1> QED
  BY <1>1, <1>2, <1>3, <1>4, <1>5, <1>6, <1>7, <1>8, <1>9, <1>10, <1>11, <1>12, <1>13,
     <1>14, <1>15, <1>16 DEF Next, Main, Queue, Environment

\* What each of the two threads pops from a receive queue is what it saw there.
THEOREM PeekCorrect == Spec => []PeekMatchesPop
<1>1. PeekInv => PeekMatchesPop
  BY DEF PeekInv
<1> QED
  BY <1>1, PeekInvInit, PeekInvNext, TypeCorrect, PTL DEF Spec
=============================================================================
