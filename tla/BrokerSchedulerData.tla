------------------------ MODULE BrokerSchedulerData ------------------------
(* Proofs of what the broker keeps of a datum.  First that it is neither    *)
(* lost nor duplicated: every datum State 5 accepted is in exactly one of   *)
(* the places the scheduler keeps; and, from that, that the scheduler       *)
(* implements Delivery.  Then that what is kept agrees with what the device *)
(* and the messages on their way know of the datum: PRI comes before        *)
(* PERMIT, and the registers hold the data whose COMPLETE is still to be    *)
(* taken.                                                                   *)
EXTENDS BrokerSchedulerProofs

-----------------------------------------------------------------------------
(* A datum is announced once.                                              *)

HasMeta(q, d)  == \E i \in DOMAIN q : q[i] = Msg("META", d)
MetaOnce(q, d) == \A i, j \in DOMAIN q :
                    q[i] = Msg("META", d) /\ q[j] = Msg("META", d) => i = j

\* The META messages of a queue after one more message has arrived.
LEMMA MetaAppend ==
  ASSUME NEW q \in Seq(DeviceMsg), NEW m \in DeviceMsg, NEW d
  PROVE  /\ HasMeta(Append(q, m), d) <=> HasMeta(q, d) \/ m = Msg("META", d)
         /\ MetaOnce(q, d) /\ ~(HasMeta(q, d) /\ m = Msg("META", d))
              => MetaOnce(Append(q, m), d)
<1> DEFINE n == Len(q)
           a == Append(q, m)
<1>1. /\ n \in Nat /\ DOMAIN q = 1..n /\ DOMAIN a = 1..(n + 1)
      /\ \A i \in 1..n : a[i] = q[i]
      /\ a[n + 1] = m
  OBVIOUS
<1> HIDE DEF n, a
<1>2. HasMeta(a, d) <=> HasMeta(q, d) \/ m = Msg("META", d)
  BY <1>1 DEF HasMeta
<1>3. ASSUME MetaOnce(q, d), ~(HasMeta(q, d) /\ m = Msg("META", d)),
             NEW i \in 1..(n + 1), NEW j \in 1..(n + 1),
             a[i] = Msg("META", d), a[j] = Msg("META", d)
      PROVE  i = j
  BY <1>1, <1>3 DEF MetaOnce, HasMeta
<1> QED
  BY <1>1, <1>2, <1>3 DEF MetaOnce, a

\* The META messages of a queue after its head has been popped.
LEMMA MetaTail ==
  ASSUME NEW q \in Seq(DeviceMsg), q # <<>>, NEW d
  PROVE  /\ HasMeta(Tail(q), d) => HasMeta(q, d)
         /\ MetaOnce(q, d) => MetaOnce(Tail(q), d)
         /\ Head(q) = Msg("META", d) => HasMeta(q, d)
         /\ Head(q) = Msg("META", d) /\ MetaOnce(q, d) => ~HasMeta(Tail(q), d)
<1> DEFINE n == Len(q)
           t == Tail(q)
<1>1. /\ n \in Nat /\ n >= 1 /\ DOMAIN q = 1..n /\ DOMAIN t = 1..(n - 1)
      /\ \A i \in 1..(n - 1) : t[i] = q[i + 1] /\ i + 1 \in 1..n /\ i + 1 # 1
      /\ Head(q) = q[1] /\ 1 \in 1..n
  OBVIOUS
<1> HIDE DEF n, t
<1>2. MetaOnce(q, d) => MetaOnce(t, d)
  <2> SUFFICES ASSUME MetaOnce(q, d), NEW i \in 1..(n - 1), NEW j \in 1..(n - 1),
                      t[i] = Msg("META", d), t[j] = Msg("META", d)
               PROVE  i = j
    BY <1>1 DEF MetaOnce
  <2>1. i + 1 = j + 1
    BY <1>1 DEF MetaOnce
  <2> QED
    BY <2>1
<1> QED
  BY <1>1, <1>2 DEF HasMeta, MetaOnce, t

\* The META of a datum is in the device queue only while its device has
\* announced it and State 5 has not taken it, and only once.
AnnouncedInv ==
  \A d \in Data :
    /\ devstate[d] = "new" => stamp[d] = 0 /\ ~HasMeta(device_recvqueue, d)
    /\ HasMeta(device_recvqueue, d) => stamp[d] = 0
    /\ MetaOnce(device_recvqueue, d)

\* No datum is announced at the start.
LEMMA AnnouncedInit == Init => AnnouncedInv
  BY DEF Init, AnnouncedInv, HasMeta, MetaOnce

\* Every step keeps a datum's announcement single.
LEMMA AnnouncedNext == TypeOK /\ PeekInv /\ AnnouncedInv /\ [Next]_vars => AnnouncedInv'
<1> SUFFICES ASSUME TypeOK, PeekInv, AnnouncedInv, [Next]_vars PROVE AnnouncedInv'
  OBVIOUS
<1> USE DEF queues, interrupt, mainVars, queueVars, selection, sendingVars, deviceVars
<1>0. device_recvqueue \in Seq(DeviceMsg) /\ clock \in Nat /\ stamp \in [Data -> Nat]
  BY DEF TypeOK
<1>1. CASE MainPopMeta
  <2>1. /\ device_recvqueue # <<>> /\ Head(device_recvqueue).type = "META"
        /\ cur' = Head(device_recvqueue).data /\ UNCHANGED devstate
        /\ device_recvqueue' = Tail(device_recvqueue)
        /\ stamp' = [stamp EXCEPT ![cur'] = clock + 1]
    BY <1>1 DEF MainPopMeta, TakeMeta, PeekInv, PeekMatchesPop
  <2>2. cur' \in Data /\ Head(device_recvqueue) = Msg("META", cur')
    <3>1. Head(device_recvqueue) \in DeviceMsg
      BY <1>0, <2>1
    <3> QED
      BY <2>1, <3>1 DEF DeviceMsg, Msg
  <2>3. ~HasMeta(device_recvqueue', cur') /\ devstate[cur'] # "new"
    BY <1>0, <2>1, <2>2, MetaTail DEF AnnouncedInv
  <2>4. \A d \in Data : d # cur' => stamp'[d] = stamp[d]
    BY <1>0, <2>1
  <2>5. \A d \in Data : /\ HasMeta(device_recvqueue', d) => HasMeta(device_recvqueue, d)
                        /\ MetaOnce(device_recvqueue', d)
    BY <1>0, <2>1, MetaTail DEF AnnouncedInv
  <2> QED
    BY <2>1, <2>2, <2>3, <2>4, <2>5 DEF AnnouncedInv
<1>2. CASE QueueRelease \/ QueueReleaseStacked \/ QueueReleaseUnknown
  <2>1. /\ device_recvqueue # <<>> /\ UNCHANGED <<stamp, devstate>>
        /\ device_recvqueue' = Tail(device_recvqueue)
    BY <1>2 DEF QueueRelease, QueueReleaseStacked, QueueReleaseUnknown, PopComplete
  <2>2. \A d \in Data : /\ HasMeta(device_recvqueue', d) => HasMeta(device_recvqueue, d)
                        /\ MetaOnce(device_recvqueue', d)
    BY <1>0, <2>1, MetaTail DEF AnnouncedInv
  <2> QED
    BY <2>1, <2>2 DEF AnnouncedInv
<1>3. CASE \E d \in Data : DeviceMeta(d)
  <2>1. PICK d \in Data : DeviceMeta(d)
    BY <1>3
  <2>2. /\ devstate[d] = "new" /\ devstate' = [devstate EXCEPT ![d] = "announced"]
        /\ device_recvqueue' = Append(device_recvqueue, Msg("META", d))
        /\ UNCHANGED stamp
    BY <2>1 DEF DeviceMeta
  <2>3. \A e \in Data : Msg("META", d) = Msg("META", e) <=> e = d
    BY DEF Msg
  <2>4. \A e \in Data : /\ HasMeta(device_recvqueue', e) <=> HasMeta(device_recvqueue, e) \/ e = d
                        /\ MetaOnce(device_recvqueue', e)
    BY <1>0, <2>2, <2>3, MessageTypes, MetaAppend DEF AnnouncedInv
  <2>5. \A e \in Data : devstate'[e] = "new" => devstate[e] = "new" /\ e # d
    BY <2>2 DEF TypeOK
  <2> QED
    BY <2>2, <2>4, <2>5 DEF AnnouncedInv
<1>4. CASE \E d \in Data : DeviceComplete(d)
  <2>1. PICK d \in Data : DeviceComplete(d)
    BY <1>4
  <2>2. /\ devstate' = [devstate EXCEPT ![d] = "done"]
        /\ device_recvqueue' = Append(device_recvqueue, Msg("COMPLETE", d))
        /\ UNCHANGED stamp
    BY <2>1 DEF DeviceComplete
  <2>3. \A e \in Data : Msg("COMPLETE", d) # Msg("META", e)
    BY DEF Msg
  <2>4. \A e \in Data : /\ HasMeta(device_recvqueue', e) <=> HasMeta(device_recvqueue, e)
                        /\ MetaOnce(device_recvqueue', e)
    BY <1>0, <2>2, <2>3, MessageTypes, MetaAppend DEF AnnouncedInv
  <2>5. \A e \in Data : devstate'[e] = "new" => devstate[e] = "new"
    BY <2>2 DEF TypeOK
  <2> QED
    BY <2>2, <2>4, <2>5 DEF AnnouncedInv
<1>5. CASE \E v \in Device : DeviceTake(v)
  <2>1. UNCHANGED <<device_recvqueue, stamp>>
    BY <1>5 DEF DeviceTake
  <2>2. \A e \in Data : devstate'[e] = "new" => devstate[e] = "new"
    BY <1>5 DEF DeviceTake, D_State07, D_State08, D_State10, Becomes, InState, TypeOK
  <2> QED
    BY <2>1, <2>2 DEF AnnouncedInv
<1>6. CASE \/ MainSpawn \/ MainState4 \/ MainSendPri \/ MainPush \/ MainInterrupt
           \/ MainState5Again \/ MainState6 \/ MainState7 \/ MainState0
           \/ QueueState10 \/ QueueRestore \/ QueueNoRestore \/ QueueReadTop
           \/ QueueSuspend \/ QueuePopFirst \/ QueueClear \/ QueueSetPriority
           \/ QueuePopMore \/ QueueNoMore \/ QueuePushBack \/ QueuePermit
           \/ QueueReject \/ QueuePermitted \/ QueueDetect \/ QueuePeek
           \/ ServerRate \/ ServerStop \/ UNCHANGED vars
  <2>1. UNCHANGED <<device_recvqueue, stamp, devstate>>
    BY <1>6 DEF MainOnlyMoves, QueueOnlyMoves, vars, MainSpawn, MainState4, MainSendPri,
       MainPush,
       MainInterrupt, MainState5Again, MainState6, MainState7, MainState0, QueueState10, QueueRestore,
       QueueNoRestore, QueueReadTop, QueueSuspend, QueuePopFirst, QueueClear, QueueSetPriority,
       QueuePopMore, QueueNoMore, QueuePushBack, QueuePermit, QueueReject, QueuePermitted,
       QueueDetect, QueuePeek, ServerRate, ServerStop
  <2> QED
    BY <2>1 DEF AnnouncedInv
<1> QED
  BY <1>1, <1>2, <1>3, <1>4, <1>5, <1>6 DEF Next, Main, Queue, Environment

\* A datum has at most one META in the device queue, and none once State 5 took it.
THEOREM AnnouncedInvariant == Spec => []AnnouncedInv
<1>1. Spec => []PeekInv
  BY PeekInvInit, PeekInvNext, TypeCorrect, PTL DEF Spec
<1> QED
  BY <1>1, AnnouncedInit, AnnouncedNext, TypeCorrect, PTL DEF Spec

-----------------------------------------------------------------------------
(* The maps of the stack.                                                  *)

MapsOf(s)   == UNION {s[i].map : i \in DOMAIN s}
Separate(s) == \A i, j \in DOMAIN s : i # j => s[i].map \cap s[j].map = {}

\* Stacking the current map adds its data to those stacked.
LEMMA MapsPush ==
  ASSUME NEW s \in Seq(StackEntry), NEW e \in StackEntry
  PROVE  /\ MapsOf(Append(s, e)) = MapsOf(s) \cup e.map
         /\ Separate(s) /\ e.map \cap MapsOf(s) = {} => Separate(Append(s, e))
<1> DEFINE n == Len(s)
           a == Append(s, e)
<1>1. /\ n \in Nat /\ DOMAIN s = 1..n /\ DOMAIN a = 1..(n + 1)
      /\ \A i \in 1..n : a[i] = s[i]
      /\ a[n + 1] = e
  OBVIOUS
<1> HIDE DEF n, a
<1>2. \A i \in 1..(n + 1) : i \in 1..n \/ i = n + 1
  BY <1>1
<1>3. MapsOf(a) = MapsOf(s) \cup e.map
  <2>1. \A x : x \in MapsOf(a) <=> \E i \in 1..(n + 1) : x \in a[i].map
    BY <1>1 DEF MapsOf
  <2>2. \A x : x \in MapsOf(s) <=> \E i \in 1..n : x \in s[i].map
    BY <1>1 DEF MapsOf
  <2>3. n + 1 \in 1..(n + 1) /\ \A i \in 1..n : i \in 1..(n + 1)
    BY <1>1
  <2> QED
    BY <1>1, <1>2, <2>1, <2>2, <2>3
<1>4. ASSUME Separate(s), e.map \cap MapsOf(s) = {} PROVE Separate(a)
  <2>1. \A i \in 1..n : s[i].map \cap e.map = {}
    BY <1>1, <1>4 DEF MapsOf
  <2> QED
    BY <1>1, <1>2, <1>4, <2>1 DEF Separate
<1> QED
  BY <1>3, <1>4 DEF a

\* Popping the top map takes exactly its data off the stack.
LEMMA MapsPop ==
  ASSUME NEW s \in Seq(StackEntry), s # <<>>, Separate(s)
  PROVE  /\ MapsOf(s) = MapsOf(Front(s)) \cup Last(s).map
         /\ MapsOf(Front(s)) \cap Last(s).map = {}
         /\ Separate(Front(s))
<1> DEFINE n == Len(s)
           f == Front(s)
<1>1. /\ n \in Nat /\ n >= 1 /\ DOMAIN s = 1..n /\ DOMAIN f = 1..(n - 1)
      /\ \A i \in 1..(n - 1) : f[i] = s[i]
      /\ Last(s) = s[n]
  <2>1. f \in Seq(StackEntry) /\ Len(f) = n - 1
    BY FrontProps
  <2> HIDE DEF f
  <2>2. n \in Nat /\ n >= 1 /\ DOMAIN s = 1..n /\ DOMAIN f = 1..(n - 1)
    BY <2>1
  <2> QED
    BY <2>2, FrontProps DEF f
<1> HIDE DEF n, f
<1>2. /\ \A i \in 1..n : i \in 1..(n - 1) \/ i = n
      /\ \A i \in 1..(n - 1) : i \in 1..n /\ i # n
      /\ n \in 1..n
  BY <1>1
<1>3. /\ \A x : x \in MapsOf(s) <=> \E i \in 1..n : x \in s[i].map
      /\ \A x : x \in MapsOf(f) <=> \E i \in 1..(n - 1) : x \in s[i].map
  BY <1>1 DEF MapsOf
<1>4. MapsOf(s) = MapsOf(f) \cup Last(s).map
  BY <1>1, <1>2, <1>3
<1>5. \A i \in 1..(n - 1) : s[i].map \cap s[n].map = {}
  BY <1>1, <1>2 DEF Separate
<1>6. MapsOf(f) \cap Last(s).map = {}
  BY <1>1, <1>3, <1>5
<1>7. Separate(f)
  BY <1>1, <1>2 DEF Separate
<1> QED
  BY <1>4, <1>6, <1>7 DEF f

\* Releasing a datum from a stacked map takes exactly that datum off the stack.
LEMMA MapsWithout ==
  ASSUME NEW s \in Seq(StackEntry), NEW i \in DOMAIN s, NEW d \in s[i].map, NEW t,
         Separate(s), Without(t, s, i, d)
  PROVE  MapsOf(t) = MapsOf(s) \ {d} /\ Separate(t) /\ d \in MapsOf(s)
<1>1. PICK f \in [DOMAIN t -> DOMAIN s] : Keeps(f, t, s, i, d)
  BY WithoutProps
<1>2. \A j \in DOMAIN t : f[j] \in DOMAIN s /\ t[j].map = s[f[j]].map \ {d}
  BY <1>1 DEF Keeps, Separate
<1>3. Separate(t)
  BY <1>1, <1>2 DEF Keeps, Separate
<1>4. \A k \in DOMAIN s : \A x \in s[k].map : x # d => \E j \in DOMAIN t : f[j] = k
  BY <1>1 DEF Keeps
<1>5. MapsOf(t) = MapsOf(s) \ {d}
  <2>1. \A x : x \in MapsOf(t) => x \in MapsOf(s) /\ x # d
    BY <1>2 DEF MapsOf
  <2>2. \A x : x \in MapsOf(s) /\ x # d => x \in MapsOf(t)
    BY <1>2, <1>4 DEF MapsOf
  <2> QED
    BY <2>1, <2>2
<1> QED
  BY <1>3, <1>5 DEF MapsOf

-----------------------------------------------------------------------------
(* Every accepted datum is in one place.                                   *)

\* A, B, ... are pairwise disjoint and U is their union.
Split(U, A, B, C, D, E, F, G) ==
  /\ U = A \cup B \cup C \cup D \cup E \cup F \cup G
  /\ A \cap B = {} /\ A \cap C = {} /\ A \cap D = {} /\ A \cap E = {} /\ A \cap F = {}
  /\ A \cap G = {}
  /\ B \cap C = {} /\ B \cap D = {} /\ B \cap E = {} /\ B \cap F = {} /\ B \cap G = {}
  /\ C \cap D = {} /\ C \cap E = {} /\ C \cap F = {} /\ C \cap G = {}
  /\ D \cap E = {} /\ D \cap F = {} /\ D \cap G = {}
  /\ E \cap F = {} /\ E \cap G = {}
  /\ F \cap G = {}

Accepted == {d \in Data : stamp[d] > 0}

HeldInv ==
  /\ Split(Accepted, InHand, main_priority_queue, priDeviceMap, bufpopdata, SendingIDmap,
           MapsOf(IDmapStack), released)
  /\ Separate(IDmapStack)

\* The partition into the seven places is what HeldOnce states.
LEMMA HeldInvImplies == HeldInv => HeldOnce
<1> SUFFICES ASSUME HeldInv PROVE HeldOnce
  OBVIOUS
<1>1. Parked = MapsOf(IDmapStack)
  BY DEF Parked, MapsOf
<1>2. Split(Accepted, InHand, main_priority_queue, priDeviceMap, bufpopdata, SendingIDmap,
            Parked, released)
  BY <1>1 DEF HeldInv
<1> HIDE DEF Parked, InHand
<1>3. /\ DOMAIN Places = 1..7
      /\ Places[1] = InHand /\ Places[2] = main_priority_queue /\ Places[3] = priDeviceMap
      /\ Places[4] = bufpopdata /\ Places[5] = SendingIDmap /\ Places[6] = Parked
      /\ Places[7] = released
  BY DEF Places
<1>4. \A i \in 1..7 : i \in {1, 2, 3, 4, 5, 6, 7}
  OBVIOUS
<1>5. \A i, j \in 1..7 : i # j => Places[i] \cap Places[j] = {}
  BY <1>2, <1>3, <1>4 DEF Split
<1>6. {d \in Data : stamp[d] > 0} = UNION {Places[i] : i \in 1..7}
  <2>1. UNION {Places[i] : i \in 1..7}
          = Places[1] \cup Places[2] \cup Places[3] \cup Places[4] \cup Places[5]
              \cup Places[6] \cup Places[7]
    BY <1>4
  <2> QED
    BY <1>2, <1>3, <2>1 DEF Split, Accepted
<1>7. \A i, j \in DOMAIN IDmapStack :
        i # j => IDmapStack[i].map \cap IDmapStack[j].map = {}
  BY DEF HeldInv, Separate
<1> QED
  BY <1>3, <1>5, <1>6, <1>7 DEF HeldOnce

\* No datum is held anywhere at the start.
LEMMA HeldInvInit == Init => HeldInv
<1> SUFFICES ASSUME Init PROVE HeldInv
  OBVIOUS
<1>1. Accepted = {} /\ InHand = {} /\ MapsOf(IDmapStack) = {} /\ Separate(IDmapStack)
  BY DEF Init, Accepted, InHand, MapsOf, Separate
<1> QED
  BY <1>1 DEF Init, HeldInv, Split

\* A step that leaves the places alone.
heldVars == <<main_priority_queue, priDeviceMap, bufpopdata, SendingIDmap, IDmapStack,
              released, stamp>>

\* A step that moves no datum keeps the partition.
LEMMA HeldStable ==
  ASSUME HeldInv, UNCHANGED heldVars, InHand' = InHand
  PROVE  HeldInv'
  BY DEF HeldInv, heldVars, Accepted, MapsOf, Separate

\* Every step moves a datum from one place to another, or none.
LEMMA HeldInvNext ==
  TypeOK /\ PeekInv /\ QueueInv /\ AnnouncedInv /\ HeldInv /\ [Next]_vars => HeldInv'
<1> SUFFICES ASSUME TypeOK, PeekInv, QueueInv, AnnouncedInv, HeldInv, [Next]_vars
             PROVE  HeldInv'
  OBVIOUS
<1> USE DEF queues, interrupt, mainVars, queueVars, selection, sendingVars, deviceVars
<1> DEFINE Cur == InHand
           Stk == MapsOf(IDmapStack)
<1>0. /\ Split(Accepted, Cur, main_priority_queue, priDeviceMap, bufpopdata, SendingIDmap,
               Stk, released)
      /\ Separate(IDmapStack) /\ IDmapStack \in Seq(StackEntry)
  BY DEF HeldInv, TypeOK, StackEntry
\* The main thread.
<1>1. CASE MainPopMeta
  <2>1. /\ pcMain = "S5" /\ pcMain' = "S5pri"
        /\ device_recvqueue # <<>> /\ Head(device_recvqueue).type = "META"
        /\ cur' = Head(device_recvqueue).data
        /\ stamp' = [stamp EXCEPT ![cur'] = clock + 1]
        /\ UNCHANGED <<main_priority_queue, priDeviceMap, bufpopdata, SendingIDmap, IDmapStack,
                       released>>
    BY <1>1 DEF MainPopMeta, TakeMeta, PeekInv, PeekMatchesPop
  <2>2. device_recvqueue \in Seq(DeviceMsg) /\ clock \in Nat /\ stamp \in [Data -> Nat]
    BY DEF TypeOK
  <2>3. cur' \in Data /\ Head(device_recvqueue) = Msg("META", cur')
    <3>1. Head(device_recvqueue) \in DeviceMsg
      BY <2>1, <2>2
    <3> QED
      BY <2>1, <3>1 DEF DeviceMsg, Msg
  <2>4. stamp[cur'] = 0
    BY <2>1, <2>2, <2>3, MetaTail DEF AnnouncedInv
  <2>5. Accepted' = Accepted \cup {cur'} /\ cur' \notin Accepted
    BY <2>1, <2>2, <2>3, <2>4 DEF Accepted
  <2>6. Cur = {} /\ InHand' = {cur'}
    BY <2>1 DEF InHand
  <2>7. MapsOf(IDmapStack)' = Stk /\ Separate(IDmapStack)'
    BY <1>0, <2>1
  <2> HIDE DEF Cur, Stk
  <2> QED
    BY <1>0, <2>1, <2>5, <2>6, <2>7 DEF HeldInv, Split
<1>2. CASE MainPush
  <2>1. /\ Cur = {cur} /\ InHand' = {}
        /\ main_priority_queue' = main_priority_queue \cup {cur}
        /\ UNCHANGED <<priDeviceMap, bufpopdata, SendingIDmap, IDmapStack, released, stamp>>
    BY <1>2 DEF MainPush, InHand
  <2>2. Accepted' = Accepted /\ MapsOf(IDmapStack)' = Stk /\ Separate(IDmapStack)'
    BY <1>0, <2>1 DEF Accepted
  <2> HIDE DEF Cur, Stk
  <2> QED
    BY <1>0, <2>1, <2>2 DEF HeldInv, Split
<1>3. CASE \/ MainSpawn \/ MainState4 \/ MainSendPri \/ MainInterrupt \/ MainState5Again
           \/ MainState6 \/ MainState7 \/ MainState0
  <2>1. UNCHANGED heldVars
    BY <1>3 DEF heldVars, MainOnlyMoves, MainSpawn, MainState4, MainSendPri, MainInterrupt,
       MainState5Again, MainState6, MainState7, MainState0
  <2>2. InHand' = InHand
    BY <1>3 DEF InHand, MainOnlyMoves, MainSpawn, MainState4, MainSendPri, MainInterrupt,
       MainState5Again, State5Next, MainState6, State6Next, MainState7, MainState0
  <2> QED
    BY <2>1, <2>2, HeldStable
\* The devices and the application server.
<1>4. CASE Environment \/ UNCHANGED vars
  <2>1. UNCHANGED heldVars /\ UNCHANGED <<pcMain, cur>>
    BY <1>4 DEF heldVars, vars, Environment, DeviceMeta, DeviceTake, DeviceComplete, ServerRate,
       ServerStop
  <2> QED
    BY <2>1, HeldStable DEF InHand
\* The queue thread: first the steps that leave the places alone.
<1>5. CASE \/ QueueState10 \/ QueueNoRestore \/ QueueReadTop \/ QueueClear \/ QueueSetPriority
           \/ QueueNoMore \/ QueuePermitted \/ QueueDetect \/ QueuePeek
           \/ QueueReleaseUnknown
  <2>1. UNCHANGED heldVars /\ UNCHANGED <<pcMain, cur>>
    BY <1>5 DEF heldVars, QueueOnlyMoves, QueueState10, QueueNoRestore, QueueReadTop,
       QueueClear,
       QueueSetPriority, QueueNoMore, QueuePermitted, QueueDetect, QueuePeek,
       QueueReleaseUnknown, PopComplete
  <2> QED
    BY <2>1, HeldStable DEF InHand
<1>6. ASSUME UNCHANGED <<pcMain, cur, stamp>>
      PROVE  InHand' = Cur /\ Accepted' = Accepted
  BY <1>6 DEF InHand, Accepted
<1>7. CASE QueueRestore
  <2>1. /\ SendingIDmap = {} /\ SendingIDmap' = Last(IDmapStack).map
        /\ IDmapStack # <<>> /\ IDmapStack' = Front(IDmapStack)
        /\ UNCHANGED <<main_priority_queue, priDeviceMap, bufpopdata, released, pcMain, cur, stamp>>
    BY <1>7 DEF QueueRestore, StackFirst, QueueInv
  <2>2. /\ Stk = MapsOf(IDmapStack)' \cup Last(IDmapStack).map
        /\ MapsOf(IDmapStack)' \cap Last(IDmapStack).map = {}
        /\ Separate(IDmapStack)'
    BY <1>0, <2>1, MapsPop
  <2> HIDE DEF Cur, Stk
  <2> QED
    BY <1>0, <1>6, <2>1, <2>2 DEF HeldInv, Split
<1>8. CASE QueueSuspend
  <2> DEFINE e == [pri |-> prevpriority, map |-> SendingIDmap]
  <2>1. /\ \/ IDmapStack' = Append(IDmapStack, e) /\ SendingIDmap' = {}
           \/ UNCHANGED <<IDmapStack, SendingIDmap>>
        /\ UNCHANGED <<main_priority_queue, priDeviceMap, bufpopdata, released, pcMain, cur, stamp>>
    BY <1>8 DEF QueueSuspend, pushcurIDmap
  <2>2. e \in StackEntry /\ e.map = SendingIDmap
    BY DEF TypeOK, StackEntry
  <2> HIDE DEF e
  <2>3. SendingIDmap \cap MapsOf(IDmapStack) = {}
    BY <1>0 DEF Split
  <2>4. ASSUME IDmapStack' = Append(IDmapStack, e), SendingIDmap' = {}
        PROVE  MapsOf(IDmapStack)' = Stk \cup SendingIDmap /\ Separate(IDmapStack)'
    BY <1>0, <2>2, <2>3, <2>4, MapsPush
  <2> HIDE DEF Cur, Stk
  <2>5. CASE IDmapStack' = Append(IDmapStack, e) /\ SendingIDmap' = {}
    BY <1>0, <1>6, <2>1, <2>4, <2>5 DEF HeldInv, Split
  <2>6. CASE UNCHANGED <<IDmapStack, SendingIDmap>>
    <3>1. MapsOf(IDmapStack)' = Stk /\ Separate(IDmapStack)'
      BY <1>0, <2>6 DEF Stk
    <3> QED
      BY <1>0, <1>6, <2>1, <2>6, <3>1 DEF HeldInv
  <2> QED
    BY <2>1, <2>5, <2>6
<1>9. ASSUME UNCHANGED IDmapStack
      PROVE  MapsOf(IDmapStack)' = Stk /\ Separate(IDmapStack)'
  BY <1>0, <1>9
<1>10. CASE QueuePopFirst
  <2>1. /\ priDeviceMap = {}
        /\ \E d \in main_priority_queue : /\ main_priority_queue' = main_priority_queue \ {d}
                                          /\ priDeviceMap' = {d}
        /\ UNCHANGED <<bufpopdata, SendingIDmap, IDmapStack, released, pcMain, cur, stamp>>
    BY <1>10 DEF QueuePopFirst, QueueInv, Selecting
  <2> HIDE DEF Cur, Stk
  <2> QED
    BY <1>0, <1>6, <1>9, <2>1 DEF HeldInv, Split
<1>11. CASE QueuePopMore
  <2>1. /\ \E d \in main_priority_queue :
              /\ main_priority_queue' = main_priority_queue \ {d}
              /\ \/ priDeviceMap' = priDeviceMap \cup {d} /\ UNCHANGED bufpopdata
                 \/ bufpopdata' = bufpopdata \cup {d} /\ UNCHANGED priDeviceMap
        /\ UNCHANGED <<SendingIDmap, IDmapStack, released, pcMain, cur, stamp>>
    BY <1>11 DEF QueuePopMore
  <2> HIDE DEF Cur, Stk
  <2> QED
    BY <1>0, <1>6, <1>9, <2>1 DEF HeldInv, Split
<1>12. CASE QueuePushBack
  <2>1. /\ main_priority_queue' = main_priority_queue \cup bufpopdata /\ bufpopdata' = {}
        /\ UNCHANGED <<priDeviceMap, SendingIDmap, IDmapStack, released, pcMain, cur, stamp>>
    BY <1>12 DEF QueuePushBack, PutBack
  <2> HIDE DEF Cur, Stk
  <2> QED
    BY <1>0, <1>6, <1>9, <2>1 DEF HeldInv, Split
<1>13. CASE QueuePermit \/ QueueReject
  <2>1. /\ \E d \in priDeviceMap :
              /\ priDeviceMap' = priDeviceMap \ {d}
              /\ \/ /\ SendingIDmap' = SendingIDmap \cup {d}
                    /\ UNCHANGED main_priority_queue
                 \/ /\ main_priority_queue' = main_priority_queue \cup {d}
                    /\ UNCHANGED SendingIDmap
        /\ UNCHANGED <<bufpopdata, IDmapStack, released, pcMain, cur, stamp>>
    BY <1>13 DEF QueuePermit, QueueReject
  <2> HIDE DEF Cur, Stk
  <2> QED
    BY <1>0, <1>6, <1>9, <2>1 DEF HeldInv, Split
<1>14. CASE QueueRelease
  <2>1. /\ \E d \in SendingIDmap : /\ SendingIDmap' = SendingIDmap \ {d}
                                   /\ released' = released \cup {d}
        /\ UNCHANGED <<main_priority_queue, priDeviceMap, bufpopdata, IDmapStack, pcMain, cur, stamp>>
    BY <1>14 DEF QueueRelease, PopComplete
  <2> HIDE DEF Cur, Stk
  <2> QED
    BY <1>0, <1>6, <1>9, <2>1 DEF HeldInv, Split
<1>15. CASE QueueReleaseStacked
  <2> DEFINE d == Decoded[Head(device_recvqueue).data]
  <2>1. PICK i \in DOMAIN IDmapStack :
          d \in IDmapStack[i].map /\ Without(IDmapStack', IDmapStack, i, d)
    BY <1>15 DEF QueueReleaseStacked, Without
  <2>2. /\ released' = released \cup {d}
        /\ UNCHANGED <<main_priority_queue, priDeviceMap, bufpopdata, SendingIDmap, pcMain, cur,
                       stamp>>
    BY <1>15 DEF QueueReleaseStacked, PopComplete
  <2> HIDE DEF d
  <2>3. MapsOf(IDmapStack)' = Stk \ {d} /\ Separate(IDmapStack)' /\ d \in Stk
    BY <1>0, <2>1, MapsWithout
  <2> HIDE DEF Cur, Stk
  <2> QED
    BY <1>0, <1>6, <2>2, <2>3 DEF HeldInv, Split
<1> QED
  BY <1>1, <1>2, <1>3, <1>4, <1>5, <1>7, <1>8, <1>10, <1>11, <1>12, <1>13, <1>14, <1>15
  DEF Next, Main, Queue

\* Whatever is suspended, restored, put back or released, every datum the main
\* thread accepted is in exactly one of the scheduler's places.
THEOREM HeldOnceCorrect == Spec => []HeldOnce
<1>1. Spec => []PeekInv
  BY PeekInvInit, PeekInvNext, TypeCorrect, PTL DEF Spec
<1>2. Spec => []HeldInv
  BY <1>1, HeldInvInit, HeldInvNext, TypeCorrect, QueueInvariant, AnnouncedInvariant, PTL
  DEF Spec
<1> QED
  BY <1>2, HeldInvImplies, PTL

\* The variables Delivery's depend on.
deliveryVars == <<stamp, SendingIDmap, IDmapStack, released>>

\* What the broker holds, seen as Delivery does.
LEMMA Abstraction ==
  ASSUME TypeOK, HeldInv
  PROVE  /\ Parked = MapsOf(IDmapStack)
         /\ Waiting = Accepted \ (SendingIDmap \cup Parked \cup released)
         /\ main_priority_queue \cup priDeviceMap \subseteq Waiting
         /\ SendingIDmap \cap Parked = {} /\ SendingIDmap \cap released = {}
         /\ Parked \cap released = {}
         /\ SendingIDmap \cup Parked \cup released \subseteq Accepted
<1>1. Parked = MapsOf(IDmapStack)
  BY DEF Parked, MapsOf
<1>2. Waiting = Accepted \ (SendingIDmap \cup Parked \cup released)
  BY DEF Waiting, Accepted
<1>3. Split(Accepted, InHand, main_priority_queue, priDeviceMap, bufpopdata, SendingIDmap,
            Parked, released)
  BY <1>1 DEF HeldInv
<1> HIDE DEF Parked, InHand, Waiting, Accepted
<1> QED
  BY <1>1, <1>2, <1>3 DEF Split

\* At the start the broker holds nothing.
LEMMA DeliveryInit == Init => Dlv!Init
<1> SUFFICES ASSUME Init PROVE Dlv!Init
  OBVIOUS
<1>1. Waiting = {} /\ Parked = {}
  BY DEF Init, Waiting, Parked
<1> QED
  BY <1>1 DEF Init, Dlv!Init

\* Each step of the broker is a step of Delivery, or none.
LEMMA DeliveryNext ==
  /\ TypeOK /\ QueueInv /\ PeekInv /\ AnnouncedInv /\ HeldInv
  /\ TypeOK' /\ HeldInv'
  /\ [Next]_vars
  => [Dlv!Next]_(Dlv!vars)
<1> SUFFICES ASSUME TypeOK, QueueInv, PeekInv, AnnouncedInv, HeldInv, TypeOK', HeldInv',
                    [Next]_vars
             PROVE  Dlv!Next \/ UNCHANGED <<Waiting, SendingIDmap, Parked, released>>
  BY DEF Dlv!vars
<1> USE DEF queues, interrupt, mainVars, queueVars, selection, sendingVars, deviceVars
<1>0. /\ Parked = MapsOf(IDmapStack) /\ Parked' = MapsOf(IDmapStack)'
      /\ Waiting = Accepted \ (SendingIDmap \cup Parked \cup released)
      /\ Waiting' = Accepted' \ (SendingIDmap' \cup Parked' \cup released')
      /\ main_priority_queue \cup priDeviceMap \subseteq Waiting
      /\ SendingIDmap \cap Parked = {} /\ SendingIDmap \cap released = {}
      /\ Parked \cap released = {}
      /\ SendingIDmap \cup Parked \cup released \subseteq Accepted
  <2>1. Parked' = MapsOf(IDmapStack)' /\
        Waiting' = Accepted' \ (SendingIDmap' \cup Parked' \cup released')
    BY DEF Parked, MapsOf, Waiting, Accepted
  <2> QED
    BY <2>1, Abstraction
<1>00. /\ main_priority_queue \subseteq Data /\ priDeviceMap \subseteq Data
       /\ SendingIDmap \subseteq Data /\ IDmapStack \in Seq(StackEntry)
       /\ Separate(IDmapStack)
  BY DEF TypeOK, StackEntry, HeldInv
<1>1. ASSUME UNCHANGED stamp PROVE Accepted' = Accepted
  BY <1>1 DEF Accepted
<1>2. ASSUME UNCHANGED IDmapStack PROVE Parked' = Parked
  BY <1>2 DEF Parked
<1>3. CASE UNCHANGED deliveryVars
  BY <1>0, <1>1, <1>2, <1>3 DEF deliveryVars
\* The steps that touch none of them.
<1>4. CASE \/ MainSpawn \/ MainState4 \/ MainSendPri \/ MainPush \/ MainInterrupt
           \/ MainState5Again \/ MainState6 \/ MainState7 \/ MainState0
  <2>1. UNCHANGED deliveryVars
    BY <1>4 DEF deliveryVars, MainOnlyMoves, MainSpawn, MainState4, MainSendPri, MainPush,
       MainInterrupt, MainState5Again, MainState6, MainState7, MainState0
  <2> QED
    BY <1>3, <2>1
<1>5. CASE Environment \/ UNCHANGED vars
  <2>1. UNCHANGED deliveryVars
    BY <1>5 DEF deliveryVars, vars, Environment, DeviceMeta, DeviceTake, DeviceComplete,
       ServerRate, ServerStop
  <2> QED
    BY <1>3, <2>1
<1>6. CASE \/ QueueState10 \/ QueueNoRestore \/ QueueReadTop \/ QueuePopFirst \/ QueueClear
           \/ QueueSetPriority \/ QueuePopMore \/ QueueNoMore \/ QueuePushBack
           \/ QueueReject \/ QueuePermitted \/ QueueDetect \/ QueuePeek
           \/ QueueReleaseUnknown
  <2>1. UNCHANGED deliveryVars
    BY <1>6 DEF deliveryVars, QueueOnlyMoves, QueueState10, QueueNoRestore, QueueReadTop,
       QueuePopFirst, QueueClear, QueueSetPriority, QueuePopMore, QueueNoMore, QueuePushBack,
       QueueReject, QueuePermitted, QueueDetect, QueuePeek, QueueReleaseUnknown, PopComplete
  <2> QED
    BY <1>3, <2>1
\* The steps that do.
<1>7. CASE MainPopMeta
  <2>1. /\ device_recvqueue # <<>> /\ Head(device_recvqueue).type = "META"
        /\ cur' = Head(device_recvqueue).data
        /\ stamp' = [stamp EXCEPT ![cur'] = clock + 1]
        /\ UNCHANGED <<SendingIDmap, IDmapStack, released>>
    BY <1>7 DEF MainPopMeta, TakeMeta, PeekInv, PeekMatchesPop
  <2>2. device_recvqueue \in Seq(DeviceMsg) /\ clock \in Nat /\ stamp \in [Data -> Nat]
    BY DEF TypeOK
  <2>3. cur' \in Data /\ Head(device_recvqueue) = Msg("META", cur')
    <3>1. Head(device_recvqueue) \in DeviceMsg
      BY <2>1, <2>2
    <3> QED
      BY <2>1, <3>1 DEF DeviceMsg, Msg
  <2>4. stamp[cur'] = 0
    BY <2>1, <2>2, <2>3, MetaTail DEF AnnouncedInv
  <2>5. Accepted' = Accepted \cup {cur'} /\ cur' \notin Accepted
    BY <2>1, <2>2, <2>3, <2>4 DEF Accepted
  <2>6. Parked' = Parked
    BY <1>2, <2>1
  <2>7. /\ cur' \notin Waiting \cup SendingIDmap \cup Parked \cup released
        /\ Waiting' = Waiting \cup {cur'}
    BY <1>0, <2>1, <2>5, <2>6
  <2>8. Dlv!Accept(cur')
    BY <2>1, <2>6, <2>7 DEF Dlv!Accept
  <2> QED
    BY <2>3, <2>8 DEF Dlv!Next
<1>8. CASE QueuePermit
  <2>1. PICK d \in priDeviceMap : SendingIDmap' = SendingIDmap \cup {d}
    BY <1>8 DEF QueuePermit
  <2>2. pcQueue = "permit" /\ UNCHANGED <<stamp, IDmapStack, released>>
    BY <1>8 DEF QueuePermit
  <2>3. Pri[d] = prevpriority /\ \A e \in SendingIDmap : Pri[e] = prevpriority
    BY <2>2 DEF QueueInv, OnePriorityAtATime
  <2>4. Parked' = Parked /\ Accepted' = Accepted
    BY <1>1, <1>2, <2>2
  <2>5. d \in Waiting /\ Waiting' = Waiting \ {d}
    BY <1>0, <2>1, <2>2, <2>4
  <2>6. Dlv!Permit(d)
    BY <2>1, <2>2, <2>3, <2>4, <2>5 DEF Dlv!Permit
  <2> QED
    BY <1>00, <2>6 DEF Dlv!Next
<1>9. CASE QueueSuspend
  <2>1. /\ pcQueue = "suspend" /\ UNCHANGED <<stamp, released>>
        /\ \/ /\ SendingIDmap # {} /\ SendingIDmap' = {}
              /\ IDmapStack' = Append(IDmapStack, [pri |-> prevpriority, map |-> SendingIDmap])
           \/ UNCHANGED <<IDmapStack, SendingIDmap>>
    BY <1>9 DEF QueueSuspend, pushcurIDmap
  <2>2. CASE UNCHANGED <<IDmapStack, SendingIDmap>>
    BY <1>3, <2>1, <2>2 DEF deliveryVars
  <2>3. CASE /\ SendingIDmap # {} /\ SendingIDmap' = {}
             /\ IDmapStack' = Append(IDmapStack, [pri |-> prevpriority, map |-> SendingIDmap])
    <3> DEFINE e == [pri |-> prevpriority, map |-> SendingIDmap]
    <3>1. e \in StackEntry /\ e.map = SendingIDmap
      BY DEF TypeOK, StackEntry
    <3> HIDE DEF e
    <3>2. MapsOf(Append(IDmapStack, e)) = MapsOf(IDmapStack) \cup SendingIDmap
      BY <1>00, <3>1, MapsPush
    <3>3. IDmapStack' = Append(IDmapStack, e)
      BY <2>3 DEF e
    <3>4. MapsOf(IDmapStack)' = MapsOf(IDmapStack) \cup SendingIDmap
      BY <3>2, <3>3 DEF MapsOf
    <3>5. Accepted' = Accepted
      BY <1>1, <2>1
    <3>6. Parked' = Parked \cup SendingIDmap /\ Waiting' = Waiting
      BY <1>0, <2>1, <2>3, <3>4, <3>5
    <3>7. /\ toppri < prevpriority /\ \A x \in SendingIDmap : Pri[x] = prevpriority
          /\ \E d \in main_priority_queue : Pri[d] = toppri
      BY <2>1 DEF QueueInv, OnePriorityAtATime
    <3>8. \E d \in Waiting : \A x \in SendingIDmap : Pri[d] < Pri[x]
      BY <1>0, <3>7
    <3>9. Dlv!Suspend
      BY <2>1, <2>3, <3>6, <3>8 DEF Dlv!Suspend
    <3> QED
      BY <3>9 DEF Dlv!Next
  <2> QED
    BY <2>1, <2>2, <2>3
<1>10. CASE QueueRestore
  <2> DEFINE S == Last(IDmapStack).map
  <2>1. /\ SendingIDmap = {} /\ SendingIDmap' = S
        /\ IDmapStack # <<>> /\ IDmapStack' = Front(IDmapStack)
        /\ UNCHANGED <<stamp, released>>
        /\ \E d \in main_priority_queue : Last(IDmapStack).pri <= Pri[d]
    BY <1>10 DEF QueueRestore, StackFirst, QueueInv
  <2>2. /\ MapsOf(IDmapStack) = MapsOf(Front(IDmapStack)) \cup S
        /\ MapsOf(Front(IDmapStack)) \cap S = {}
    BY <1>00, <2>1, MapsPop
  <2>3. MapsOf(IDmapStack)' = MapsOf(Front(IDmapStack))
    BY <2>1 DEF MapsOf
  <2>4. /\ Len(IDmapStack) \in DOMAIN IDmapStack
        /\ Last(IDmapStack) = IDmapStack[Len(IDmapStack)]
    BY <1>00, <2>1, FrontProps
  <2>5. S # {} /\ \A d \in S : Pri[d] = Last(IDmapStack).pri
    BY <2>4 DEF QueueInv, OnePriorityAtATime
  <2>6. Accepted' = Accepted
    BY <1>1, <2>1
  <2>7. S \subseteq Data
    <3>1. Last(IDmapStack) \in StackEntry
      BY <1>00, <2>4
    <3> QED
      BY <3>1 DEF StackEntry
  <2> HIDE DEF S
  <2>8. S \subseteq Parked /\ Parked' = Parked \ S /\ Waiting' = Waiting
    BY <1>0, <2>1, <2>2, <2>3, <2>6
  <2>9. \E d \in Waiting : \A e \in S : Pri[e] <= Pri[d]
    BY <1>0, <2>1, <2>5
  <2>10. Dlv!Resume(S)
    BY <2>1, <2>5, <2>8, <2>9 DEF Dlv!Resume
  <2> QED
    BY <2>7, <2>10 DEF Dlv!Next
<1>11. CASE QueueRelease
  <2>1. PICK d \in SendingIDmap : /\ SendingIDmap' = SendingIDmap \ {d}
                                  /\ released' = released \cup {d}
    BY <1>11 DEF QueueRelease, PopComplete
  <2>2. UNCHANGED <<stamp, IDmapStack>>
    BY <1>11 DEF QueueRelease, PopComplete
  <2>3. Parked' = Parked /\ Accepted' = Accepted
    BY <1>1, <1>2, <2>2
  <2>4. Waiting' = Waiting /\ Parked' = Parked \ {d}
    BY <1>0, <2>1, <2>3
  <2>5. Dlv!Release(d)
    BY <2>1, <2>4 DEF Dlv!Release
  <2> QED
    BY <1>00, <2>5 DEF Dlv!Next
<1>12. CASE QueueReleaseStacked
  <2> DEFINE d == Decoded[Head(device_recvqueue).data]
  <2>1. PICK i \in DOMAIN IDmapStack :
          d \in IDmapStack[i].map /\ Without(IDmapStack', IDmapStack, i, d)
    BY <1>12 DEF QueueReleaseStacked, Without
  <2>2. /\ released' = released \cup {d} /\ d \notin SendingIDmap
        /\ UNCHANGED <<stamp, SendingIDmap>>
    BY <1>12 DEF QueueReleaseStacked, PopComplete
  <2> HIDE DEF d
  <2>3. MapsOf(IDmapStack)' = MapsOf(IDmapStack) \ {d} /\ d \in MapsOf(IDmapStack)
    <3>1. /\ MapsOf(IDmapStack') = MapsOf(IDmapStack) \ {d}
          /\ d \in MapsOf(IDmapStack)
      BY <1>00, <2>1, MapsWithout
    <3> QED
      BY <3>1 DEF MapsOf
  <2>4. d \in Data
    <3>1. IDmapStack[i] \in StackEntry
      BY <1>00, <2>1
    <3> QED
      BY <2>1, <3>1 DEF StackEntry
  <2>5. Accepted' = Accepted
    BY <1>1, <2>2
  <2>6. /\ d \in Parked /\ Parked' = Parked \ {d} /\ Waiting' = Waiting
        /\ SendingIDmap' = SendingIDmap \ {d}
    BY <1>0, <2>2, <2>3, <2>5
  <2>7. Dlv!Release(d)
    BY <2>2, <2>6 DEF Dlv!Release
  <2> QED
    BY <2>4, <2>7 DEF Dlv!Next
<1> QED
  BY <1>4, <1>5, <1>6, <1>7, <1>8, <1>9, <1>10, <1>11, <1>12 DEF Next, Main, Queue

\* The scheduler implements Delivery: no interleaving of its threads shows the
\* devices anything else than acceptances, permissions at one priority, suspensions
\* for a more urgent datum, resumptions in order, and one release per datum.
THEOREM DeliveryImplemented == Spec => Delivery
<1>1. Spec => []PeekInv
  BY PeekInvInit, PeekInvNext, TypeCorrect, PTL DEF Spec
<1>2. Spec => []HeldInv
  BY <1>1, HeldInvInit, HeldInvNext, TypeCorrect, QueueInvariant, AnnouncedInvariant, PTL
  DEF Spec
<1> QED
  BY <1>1, <1>2, DeliveryInit, DeliveryNext, TypeCorrect, QueueInvariant, AnnouncedInvariant,
     PTL
     DEF Spec, Delivery, Dlv!Spec

-----------------------------------------------------------------------------
(* Messages in a queue.                                                    *)

Has(q, x)  == \E i \in DOMAIN q : q[i] = x
Once(q, x) == \A i, j \in DOMAIN q : q[i] = x /\ q[j] = x => i = j
Ordered(q, x, y) == \A i, j \in DOMAIN q : q[i] = x /\ q[j] = y => i < j

\* What a queue holds after one more message has arrived.
LEMMA HasAppend ==
  ASSUME NEW S, NEW q \in Seq(S), NEW m \in S, NEW x, NEW y
  PROVE  /\ Has(Append(q, m), x) <=> Has(q, x) \/ m = x
         /\ Once(q, x) /\ ~(Has(q, x) /\ m = x) => Once(Append(q, m), x)
         /\ Ordered(q, x, y) /\ (m = x => ~Has(q, y) /\ x # y) => Ordered(Append(q, m), x, y)
<1> DEFINE n == Len(q)
           a == Append(q, m)
<1>1. /\ n \in Nat /\ DOMAIN q = 1..n /\ DOMAIN a = 1..(n + 1)
      /\ \A i \in 1..n : a[i] = q[i]
      /\ a[n + 1] = m
  OBVIOUS
<1> HIDE DEF n, a
<1>2. Has(a, x) <=> Has(q, x) \/ m = x
  BY <1>1 DEF Has
<1>3. ASSUME Once(q, x), ~(Has(q, x) /\ m = x), NEW i \in 1..(n + 1), NEW j \in 1..(n + 1),
             a[i] = x, a[j] = x
      PROVE  i = j
  BY <1>1, <1>3 DEF Once, Has
<1>4. ASSUME Ordered(q, x, y), m = x => ~Has(q, y) /\ x # y,
             NEW i \in 1..(n + 1), NEW j \in 1..(n + 1), a[i] = x, a[j] = y
      PROVE  i < j
  <2>1. CASE i \in 1..n
    BY <1>1, <1>4, <2>1 DEF Ordered
  <2>2. CASE i = n + 1
    BY <1>1, <1>4, <2>2 DEF Has
  <2> QED
    BY <1>1, <2>1, <2>2
<1> QED
  BY <1>1, <1>2, <1>3, <1>4 DEF Once, Ordered, a

\* What a queue holds after its head has been taken.
LEMMA HasTail ==
  ASSUME NEW S, NEW q \in Seq(S), q # <<>>, NEW x, NEW y
  PROVE  /\ Has(q, x) <=> Head(q) = x \/ Has(Tail(q), x)
         /\ Once(q, x) => Once(Tail(q), x) /\ ~(Head(q) = x /\ Has(Tail(q), x))
         /\ Ordered(q, x, y) => Ordered(Tail(q), x, y) /\ ~(Head(q) = y /\ Has(q, x))
<1> DEFINE n == Len(q)
           t == Tail(q)
<1>1. /\ n \in Nat /\ n >= 1 /\ DOMAIN q = 1..n /\ DOMAIN t = 1..(n - 1)
      /\ \A i \in 1..(n - 1) : t[i] = q[i + 1] /\ i + 1 \in 1..n
      /\ Head(q) = q[1] /\ 1 \in 1..n
      /\ \A i \in 1..n : i = 1 \/ (i - 1 \in 1..(n - 1) /\ t[i - 1] = q[i])
  OBVIOUS
<1> HIDE DEF n, t
<1>2. Has(q, x) <=> Head(q) = x \/ Has(t, x)
  BY <1>1 DEF Has
<1>3. ASSUME Once(q, x) PROVE Once(t, x) /\ ~(Head(q) = x /\ Has(t, x))
  <2>1. ASSUME NEW i \in 1..(n - 1), NEW j \in 1..(n - 1), t[i] = x, t[j] = x
        PROVE  i = j
    <3>0. i + 1 \in 1..n /\ j + 1 \in 1..n /\ q[i + 1] = x /\ q[j + 1] = x
      BY <1>1, <2>1
    <3>1. i + 1 = j + 1
      BY <1>1, <1>3, <3>0 DEF Once
    <3> QED
      BY <3>1
  <2>2. ASSUME Head(q) = x, NEW i \in 1..(n - 1), t[i] = x PROVE FALSE
    <3>1. 1 = i + 1
      BY <1>1, <1>3, <2>2 DEF Once
    <3> QED
      BY <3>1
  <2> QED
    BY <1>1, <2>1, <2>2 DEF Once, Has
<1>4. ASSUME Ordered(q, x, y) PROVE Ordered(t, x, y) /\ ~(Head(q) = y /\ Has(q, x))
  <2>1. ASSUME NEW i \in 1..(n - 1), NEW j \in 1..(n - 1), t[i] = x, t[j] = y
        PROVE  i < j
    <3>1. i + 1 < j + 1
      BY <1>1, <1>4, <2>1 DEF Ordered
    <3> QED
      BY <3>1
  <2>2. ASSUME Head(q) = y, NEW i \in 1..n, q[i] = x PROVE FALSE
    <3>1. i < 1
      BY <1>1, <1>4, <2>2 DEF Ordered
    <3> QED
      BY <3>1
  <2> QED
    BY <1>1, <2>1, <2>2 DEF Ordered, Has
<1> QED
  BY <1>2, <1>3, <1>4 DEF t

-----------------------------------------------------------------------------
(* PRI comes before PERMIT.                                                *)

Link(d)     == toDevice[DeviceOf[d]]
PriSent(d)    == Has(Link(d), Msg("PRI", d))
PermitSent(d) == Has(Link(d), Msg("PERMIT", d))

\* State 5 has taken d's META and has not sent its PRI.
BeforePri(d) == pcMain = "S5pri" /\ cur = d

\* The data the broker holds for being sent, and all that have been permitted.
Registered == SendingIDmap \cup MapsOf(IDmapStack)
Permitted  == Registered \cup released

\* A datum is permitted once, is told its priority once and before, and its device
\* has taken both when it sends.
PriInvOf(d) ==
  /\ Once(Link(d), Msg("PRI", d)) /\ Once(Link(d), Msg("PERMIT", d))
  /\ Ordered(Link(d), Msg("PRI", d), Msg("PERMIT", d))
  /\ PriSent(d) => devstate[d] = "announced" /\ stamp[d] > 0 /\ ~BeforePri(d)
  /\ devstate[d] = "announced" /\ stamp[d] > 0 /\ ~BeforePri(d) => PriSent(d)
  /\ BeforePri(d) => devstate[d] = "announced" /\ stamp[d] > 0
  /\ stamp[d] = 0 => devstate[d] \in {"new", "announced"}
  /\ PermitSent(d) => d \in Permitted /\ (~PriSent(d) => devstate[d] = "ranked")
  /\ devstate[d] \in {"sending", "stopped", "done"} => d \in Permitted

\* What is sent to a device is about its own data.
AddressInv ==
  \A v \in Device : \A i \in DOMAIN toDevice[v] :
    toDevice[v][i].type \in {"PRI", "PERMIT"} => DeviceOf[toDevice[v][i].data] = v

PriInv == AddressInv /\ \A d \in Data : PriInvOf(d)

\* The links are empty and every datum is new at the start.
LEMMA PriInvInit == Init => PriInv
<1> SUFFICES ASSUME Init PROVE PriInv
  OBVIOUS
<1>1. AddressInv
  BY DEF Init, AddressInv
<1>2. ASSUME NEW d \in Data PROVE PriInvOf(d)
  <2>1. Link(d) = <<>> /\ devstate[d] = "new" /\ stamp[d] = 0 /\ pcMain = "S4"
    BY DataTypes DEF Init, Link
  <2> QED
    BY <2>1 DEF PriInvOf, PriSent, PermitSent, BeforePri, Once, Ordered, Has
<1> QED
  BY <1>1, <1>2 DEF PriInv

\* Sending messages that are about no datum.
Tells(v) == \/ toDevice'[v] = toDevice[v]
            \/ \E m \in BrokerMsg : /\ m.type \notin {"PRI", "PERMIT"}
                                    /\ toDevice'[v] = Append(toDevice[v], m)

\* Such a message changes nothing of what is on its way.
LEMMA TellsKeeps ==
  ASSUME TypeOK, \A v \in Device : Tells(v), NEW d \in Data
  PROVE  /\ PriSent(d)' <=> PriSent(d)
         /\ PermitSent(d)' <=> PermitSent(d)
         /\ \A t \in {"PRI", "PERMIT"} : Once(Link(d), Msg(t, d)) => Once(Link(d), Msg(t, d))'
         /\ Ordered(Link(d), Msg("PRI", d), Msg("PERMIT", d))
              => Ordered(Link(d), Msg("PRI", d), Msg("PERMIT", d))'
<1> DEFINE L == Link(d)
<1>1. DeviceOf[d] \in Device /\ L \in Seq(BrokerMsg)
  BY DataTypes DEF TypeOK, Link
<1>2. CASE Link(d)' = L
  BY <1>2 DEF PriSent, PermitSent
<1>3. ASSUME NEW m \in BrokerMsg, m.type \notin {"PRI", "PERMIT"}, Link(d)' = Append(L, m)
      PROVE  /\ PriSent(d)' <=> PriSent(d)
             /\ PermitSent(d)' <=> PermitSent(d)
             /\ \A t \in {"PRI", "PERMIT"} : Once(L, Msg(t, d)) => Once(Link(d)', Msg(t, d))
             /\ Ordered(L, Msg("PRI", d), Msg("PERMIT", d))
                  => Ordered(Link(d)', Msg("PRI", d), Msg("PERMIT", d))
  <2>1. \A t \in {"PRI", "PERMIT"} : m # Msg(t, d)
    BY <1>3 DEF Msg
  <2> HIDE DEF L
  <2>2. \A t \in {"PRI", "PERMIT"} : /\ Has(Append(L, m), Msg(t, d)) <=> Has(L, Msg(t, d))
                                     /\ Once(L, Msg(t, d)) => Once(Append(L, m), Msg(t, d))
    BY <1>1, <2>1, HasAppend
  <2>3. Ordered(L, Msg("PRI", d), Msg("PERMIT", d))
                  => Ordered(Append(L, m), Msg("PRI", d), Msg("PERMIT", d))
    BY <1>1, <2>1, HasAppend
  <2> QED
    BY <1>3, <2>2, <2>3 DEF PriSent, PermitSent, L
<1>4. Link(d)' = toDevice'[DeviceOf[d]]
  BY DEF Link
<1> QED
  BY <1>1, <1>2, <1>3, <1>4 DEF Tells, Link

\* Nor does it break AddressInv.
LEMMA TellsAddress ==
  ASSUME TypeOK, AddressInv, \A v \in Device : Tells(v)
  PROVE  AddressInv'
<1> SUFFICES ASSUME NEW v \in Device, NEW i \in DOMAIN toDevice'[v],
                    toDevice'[v][i].type \in {"PRI", "PERMIT"}
             PROVE  DeviceOf[toDevice'[v][i].data] = v
  BY DEF AddressInv
<1>1. toDevice[v] \in Seq(BrokerMsg)
  BY DEF TypeOK
<1>2. CASE toDevice'[v] = toDevice[v]
  BY <1>2 DEF AddressInv
<1>3. ASSUME NEW m \in BrokerMsg, m.type \notin {"PRI", "PERMIT"},
             toDevice'[v] = Append(toDevice[v], m)
      PROVE  DeviceOf[toDevice'[v][i].data] = v
  <2>1. i \in DOMAIN toDevice[v] /\ toDevice'[v][i] = toDevice[v][i]
    BY <1>1, <1>3
  <2> QED
    BY <2>1 DEF AddressInv
<1> QED
  BY <1>2, <1>3 DEF Tells

\* A step that takes no PRI or PERMIT and moves no datum back keeps the invariant.
LEMMA PriInvStable ==
  ASSUME TypeOK, PriInv, \A v \in Device : Tells(v), UNCHANGED <<devstate, stamp>>,
         \A d \in Data : BeforePri(d)' <=> BeforePri(d), Permitted \subseteq Permitted'
  PROVE  PriInv'
<1>1. AddressInv'
  BY TellsAddress DEF PriInv
<1>2. ASSUME NEW d \in Data PROVE PriInvOf(d)'
  <2>1. PriInvOf(d) /\ (BeforePri(d)' <=> BeforePri(d))
    BY DEF PriInv
  <2> QED
    BY <2>1, TellsKeeps DEF PriInvOf
<1> QED
  BY <1>1, <1>2 DEF PriInv

\* What a step does to the registers: only a permission adds a datum to them, and
\* only a release takes one out; a suspension or a restoration moves data between
\* SendingIDmap and the stack.
LEMMA RegisteredMoves ==
  ASSUME TypeOK, QueueInv, HeldInv, [Next]_vars
  PROVE  \/ /\ QueuePermit
         \/ /\ QueueRelease \/ QueueReleaseStacked
            /\ Decoded[Head(device_recvqueue).data] \in Registered
            /\ Registered' = Registered \ {Decoded[Head(device_recvqueue).data]}
            /\ released' = released \cup {Decoded[Head(device_recvqueue).data]}
         \/ /\ ~(QueueRelease \/ QueueReleaseStacked)
            /\ Registered' = Registered /\ released' = released
<1> USE DEF queues, interrupt, mainVars, queueVars, selection, sendingVars, deviceVars
<1> DEFINE Stk == MapsOf(IDmapStack)
           x == Decoded[Head(device_recvqueue).data]
<1>0. /\ IDmapStack \in Seq(StackEntry) /\ Separate(IDmapStack)
      /\ SendingIDmap \cap Stk = {}
  BY DEF TypeOK, StackEntry, HeldInv, Split
<1>1. ASSUME UNCHANGED IDmapStack PROVE MapsOf(IDmapStack)' = Stk
  BY <1>1
<1>2. ASSUME QueueRelease \/ QueueReleaseStacked
      PROVE  device_recvqueue' = Tail(device_recvqueue) /\ device_recvqueue # <<>> /\ pcQueue = "complete"
  BY <1>2 DEF QueueRelease, QueueReleaseStacked, PopComplete
<1>3. CASE \/ Main \/ Environment \/ UNCHANGED vars
           \/ QueueState10 \/ QueueNoRestore \/ QueueReadTop \/ QueuePopFirst \/ QueueClear
           \/ QueueSetPriority \/ QueuePopMore \/ QueueNoMore \/ QueuePushBack
           \/ QueueReject \/ QueuePermitted \/ QueueDetect \/ QueuePeek \/ QueueReleaseUnknown
  <2>1. UNCHANGED <<SendingIDmap, IDmapStack, released>>
    <3>1. CASE Main
      BY <3>1 DEF Main, MainOnlyMoves, MainSpawn, MainState4, MainPopMeta, TakeMeta,
         MainSendPri,
         MainPush, MainInterrupt, MainState5Again, MainState6, MainState7, MainState0
    <3>2. CASE Environment \/ UNCHANGED vars
      BY <3>2 DEF vars, Environment, DeviceMeta, DeviceTake, DeviceComplete, ServerRate,
         ServerStop
    <3> QED
      BY <1>3, <3>1, <3>2 DEF QueueOnlyMoves, QueueState10, QueueNoRestore, QueueReadTop,
         QueuePopFirst, QueueClear, QueueSetPriority, QueuePopMore, QueueNoMore, QueuePushBack,
         QueueReject, QueuePermitted, QueueDetect, QueuePeek, QueueReleaseUnknown, PopComplete
  <2>2. ~(QueueRelease \/ QueueReleaseStacked)
    <3>1. CASE QueueRelease
      <4>1. released' # released
        BY <1>0, <3>1 DEF QueueRelease, PopComplete, HeldInv, Split
      <4> QED
        BY <2>1, <4>1
    <3>2. CASE QueueReleaseStacked
      <4>1. PICK i \in DOMAIN IDmapStack :
              x \in IDmapStack[i].map /\ Without(IDmapStack', IDmapStack, i, x)
        BY <3>2 DEF QueueReleaseStacked, Without
      <4> HIDE DEF x
      <4>2. MapsOf(IDmapStack)' = Stk \ {x} /\ x \in Stk
        BY <1>0, <4>1, MapsWithout
      <4> QED
        BY <1>1, <2>1, <4>2
    <3> QED
      BY <3>1, <3>2
  <2> QED
    BY <1>1, <2>1, <2>2 DEF Registered
<1>4. CASE QueueRestore
  <2>1. /\ SendingIDmap = {} /\ SendingIDmap' = Last(IDmapStack).map
        /\ IDmapStack # <<>> /\ IDmapStack' = Front(IDmapStack)
        /\ UNCHANGED released /\ pcQueue = "return"
    BY <1>4 DEF QueueRestore, StackFirst, QueueInv
  <2>2. Stk = MapsOf(IDmapStack)' \cup Last(IDmapStack).map
    BY <1>0, <2>1, MapsPop
  <2> QED
    BY <1>2, <2>1, <2>2 DEF Registered
<1>5. CASE QueueSuspend
  <2> DEFINE e == [pri |-> prevpriority, map |-> SendingIDmap]
  <2>1. /\ \/ IDmapStack' = Append(IDmapStack, e) /\ SendingIDmap' = {}
           \/ UNCHANGED <<IDmapStack, SendingIDmap>>
        /\ UNCHANGED released /\ pcQueue = "suspend"
    BY <1>5 DEF QueueSuspend, pushcurIDmap
  <2>2. e \in StackEntry /\ e.map = SendingIDmap
    BY DEF TypeOK, StackEntry
  <2> HIDE DEF e
  <2>3. ASSUME IDmapStack' = Append(IDmapStack, e), SendingIDmap' = {}
        PROVE  MapsOf(IDmapStack)' = Stk \cup SendingIDmap
    BY <1>0, <2>2, <2>3, MapsPush
  <2> QED
    BY <1>1, <1>2, <2>1, <2>3 DEF Registered
<1>6. CASE QueueRelease
  <2>1. /\ x \in SendingIDmap /\ SendingIDmap' = SendingIDmap \ {x}
        /\ released' = released \cup {x} /\ UNCHANGED IDmapStack
    BY <1>6 DEF QueueRelease, PopComplete
  <2> HIDE DEF x
  <2>2. Registered' = Registered \ {x} /\ x \in Registered
    BY <1>0, <1>1, <2>1 DEF Registered
  <2> QED
    BY <1>6, <2>1, <2>2 DEF x
<1>7. CASE QueueReleaseStacked
  <2>1. PICK i \in DOMAIN IDmapStack :
          x \in IDmapStack[i].map /\ Without(IDmapStack', IDmapStack, i, x)
    BY <1>7 DEF QueueReleaseStacked, Without
  <2>2. /\ released' = released \cup {x} /\ x \notin SendingIDmap
        /\ UNCHANGED SendingIDmap
    BY <1>7 DEF QueueReleaseStacked, PopComplete
  <2> HIDE DEF x
  <2>3. MapsOf(IDmapStack)' = Stk \ {x} /\ x \in Stk
    BY <1>0, <2>1, MapsWithout
  <2>4. Registered' = Registered \ {x} /\ x \in Registered
    BY <2>2, <2>3 DEF Registered
  <2> QED
    BY <1>7, <2>2, <2>4 DEF x
<1> QED
  BY <1>3, <1>4, <1>5, <1>6, <1>7 DEF Next, Queue

\* What a step sends to the devices.
LEMMA LinkMoves ==
  ASSUME TypeOK, [Next]_vars
  PROVE  \/ MainSendPri \/ QueuePermit \/ \E v \in Device : DeviceTake(v)
         \/ \A v \in Device : Tells(v)
<1> USE DEF queues, interrupt, mainVars, queueVars, selection, sendingVars, deviceVars
<1>1. ASSUME NEW t \in {"STOP", "RESTART", "UPDATE_r"}
      PROVE  Update(t) \in BrokerMsg /\ Update(t).type \notin {"PRI", "PERMIT"}
  BY MessageTypes DEF Update, Msg
<1>2. ASSUME NEW t \in {"STOP", "RESTART", "UPDATE_r"}, NEW S,
             notifyALLsendingDevices(S, Update(t))
      PROVE  \A v \in Device : Tells(v)
  BY <1>1, <1>2 DEF notifyALLsendingDevices, Tells
<1>3. ASSUME UNCHANGED toDevice PROVE \A v \in Device : Tells(v)
  BY <1>3 DEF Tells
<1>4. CASE Main /\ ~MainSendPri
  <2>1. UNCHANGED toDevice
    BY <1>4 DEF Main, MainOnlyMoves, MainSpawn, MainState4, MainPopMeta, TakeMeta,
         MainPush, MainInterrupt, MainState5Again, MainState6, MainState7, MainState0
  <2> QED
    BY <1>3, <2>1
<1>5. CASE Environment \/ UNCHANGED vars
  <2>1. UNCHANGED toDevice \/ \E v \in Device : DeviceTake(v)
    BY <1>5 DEF vars, Environment, DeviceMeta, DeviceComplete, ServerRate, ServerStop
  <2> QED
    BY <1>3, <2>1
<1>6. CASE QueueRestore
  BY <1>2, <1>6 DEF QueueRestore
<1>7. CASE QueueSuspend
  BY <1>2, <1>3, <1>7 DEF QueueSuspend
<1>8. CASE QueueReleaseStacked
  <2> DEFINE d == Decoded[Head(device_recvqueue).data]
  <2>1. UNCHANGED toDevice \/ dv_send(DeviceOf[d], Update("UPDATE_r"))
    BY <1>8 DEF QueueReleaseStacked
  <2>2. CASE dv_send(DeviceOf[d], Update("UPDATE_r"))
    <3>1. \A v \in Device : \/ toDevice'[v] = toDevice[v]
                            \/ toDevice'[v] = Append(toDevice[v], Update("UPDATE_r"))
      BY <2>2 DEF dv_send, TypeOK
    <3> QED
      BY <1>1, <3>1 DEF Tells
  <2> QED
    BY <1>3, <2>1, <2>2
<1>9. CASE \/ QueueState10 \/ QueueNoRestore \/ QueueReadTop \/ QueuePopFirst \/ QueueClear
           \/ QueueSetPriority \/ QueuePopMore \/ QueueNoMore \/ QueuePushBack
           \/ QueueReject \/ QueuePermitted \/ QueueDetect \/ QueuePeek \/ QueueReleaseUnknown
           \/ QueueRelease
  <2>1. UNCHANGED toDevice
    BY <1>9 DEF QueueOnlyMoves, QueueState10, QueueNoRestore, QueueReadTop,
         QueuePopFirst, QueueClear, QueueSetPriority, QueuePopMore, QueueNoMore, QueuePushBack,
         QueueReject, QueuePermitted, QueueDetect, QueuePeek, QueueReleaseUnknown, QueueRelease,
         PopComplete
  <2> QED
    BY <1>3, <2>1
<1> QED
  BY <1>4, <1>5, <1>6, <1>7, <1>8, <1>9 DEF Next, Queue

\* Sending one device a PRI or a PERMIT for a datum of its own.
LEMMA SendDatum ==
  ASSUME TypeOK, AddressInv, NEW d \in Data, NEW t \in {"PRI", "PERMIT"},
         dv_send(DeviceOf[d], Msg(t, d))
  PROVE  /\ AddressInv'
         /\ Link(d) \in Seq(BrokerMsg) /\ Msg(t, d) \in BrokerMsg
         /\ Link(d)' = Append(Link(d), Msg(t, d))
         /\ \A e \in Data \ {d} :
              /\ PriSent(e)' <=> PriSent(e)
              /\ PermitSent(e)' <=> PermitSent(e)
              /\ \A u \in {"PRI", "PERMIT"} : Once(Link(e), Msg(u, e)) => Once(Link(e), Msg(u, e))'
              /\ Ordered(Link(e), Msg("PRI", e), Msg("PERMIT", e))
                   => Ordered(Link(e), Msg("PRI", e), Msg("PERMIT", e))'
<1> DEFINE v == DeviceOf[d]
           m == Msg(t, d)
<1>1. /\ v \in Device /\ toDevice \in [Device -> Seq(BrokerMsg)] /\ m \in BrokerMsg
      /\ m.type = t /\ m.data = d
  BY DataTypes, MessageTypes DEF TypeOK, Msg
<1>2. /\ toDevice'[v] = Append(toDevice[v], m)
      /\ \A w \in Device \ {v} : toDevice'[w] = toDevice[w]
  BY <1>1 DEF dv_send
<1> HIDE DEF m
<1>3. AddressInv'
  <2> SUFFICES ASSUME NEW w \in Device, NEW i \in DOMAIN toDevice'[w],
                      toDevice'[w][i].type \in {"PRI", "PERMIT"}
               PROVE  DeviceOf[toDevice'[w][i].data] = w
    BY DEF AddressInv
  <2>1. CASE w = v
    <3>1. toDevice[v] \in Seq(BrokerMsg) /\ toDevice'[v] = Append(toDevice[v], m)
      BY <1>1, <1>2
    <3>2. \/ i \in DOMAIN toDevice[v] /\ toDevice'[v][i] = toDevice[v][i]
          \/ toDevice'[v][i] = m
      BY <1>1, <2>1, <3>1
    <3> QED
      BY <1>1, <2>1, <3>2 DEF AddressInv
  <2>2. CASE w # v
    BY <1>2, <2>2 DEF AddressInv
  <2> QED
    BY <2>1, <2>2
<1>4. Link(d) \in Seq(BrokerMsg) /\ Link(d)' = Append(Link(d), m)
  BY <1>1, <1>2 DEF Link
<1>5. ASSUME NEW e \in Data \ {d}
      PROVE  /\ PriSent(e)' <=> PriSent(e)
             /\ PermitSent(e)' <=> PermitSent(e)
             /\ \A u \in {"PRI", "PERMIT"} : Once(Link(e), Msg(u, e)) => Once(Link(e)', Msg(u, e))
             /\ Ordered(Link(e), Msg("PRI", e), Msg("PERMIT", e))
                  => Ordered(Link(e)', Msg("PRI", e), Msg("PERMIT", e))
  <2> DEFINE L == Link(e)
  <2>1. L \in Seq(BrokerMsg) /\ (Link(e)' = L \/ Link(e)' = Append(L, m))
    BY <1>1, <1>2, DataTypes DEF Link
  <2>2. \A u \in {"PRI", "PERMIT"} : m # Msg(u, e)
    BY <1>1 DEF Msg
  <2> HIDE DEF L
  <2>3. \A u \in {"PRI", "PERMIT"} : /\ Has(Append(L, m), Msg(u, e)) <=> Has(L, Msg(u, e))
                                     /\ Once(L, Msg(u, e)) => Once(Append(L, m), Msg(u, e))
    <3>1. \A x : /\ Has(Append(L, m), x) <=> Has(L, x) \/ m = x
                 /\ m # x => (Once(L, x) => Once(Append(L, m), x))
      BY <1>1, <2>1, HasAppend
    <3> QED
      BY <2>2, <3>1
  <2>4. Ordered(L, Msg("PRI", e), Msg("PERMIT", e))
                  => Ordered(Append(L, m), Msg("PRI", e), Msg("PERMIT", e))
    BY <1>1, <2>1, <2>2, HasAppend
  <2> QED
    BY <2>1, <2>3, <2>4 DEF PriSent, PermitSent, L
<1> QED
  BY <1>1, <1>3, <1>4, <1>5 DEF m

\* A device takes a message: that one is gone, what is left of its link stays as it
\* was, and the other links do.
LEMMA TakeLink ==
  ASSUME TypeOK, AddressInv, NEW v \in Device, toDevice[v] # <<>>,
         toDevice' = [toDevice EXCEPT ![v] = Tail(@)]
  PROVE  /\ AddressInv'
         /\ Head(toDevice[v]) \in BrokerMsg
         /\ Head(toDevice[v]).type \in {"PRI", "PERMIT"} => DeviceOf[Head(toDevice[v]).data] = v
         /\ \A e \in Data :
              /\ PriSent(e)' => PriSent(e)
              /\ PermitSent(e)' => PermitSent(e)
              /\ Msg("PRI", e) # Head(toDevice[v]) => (PriSent(e) => PriSent(e)')
              /\ Msg("PERMIT", e) # Head(toDevice[v]) => (PermitSent(e) => PermitSent(e)')
              /\ \A u \in {"PRI", "PERMIT"} : Once(Link(e), Msg(u, e)) => Once(Link(e), Msg(u, e))'
              /\ Ordered(Link(e), Msg("PRI", e), Msg("PERMIT", e))
                   => Ordered(Link(e), Msg("PRI", e), Msg("PERMIT", e))'
              /\ Head(toDevice[v]) = Msg("PRI", e) /\ DeviceOf[e] = v
                   => /\ PriSent(e)
                      /\ Once(Link(e), Msg("PRI", e)) => ~PriSent(e)'
              /\ Head(toDevice[v]) = Msg("PERMIT", e) /\ DeviceOf[e] = v
                   => /\ PermitSent(e)
                      /\ Once(Link(e), Msg("PERMIT", e)) => ~PermitSent(e)'
                      /\ Ordered(Link(e), Msg("PRI", e), Msg("PERMIT", e)) => ~PriSent(e)
<1> DEFINE q == toDevice[v]
<1>1. toDevice \in [Device -> Seq(BrokerMsg)] /\ q \in Seq(BrokerMsg) /\ q # <<>>
  BY DEF TypeOK
<1>2. /\ toDevice'[v] = Tail(q)
      /\ \A w \in Device \ {v} : toDevice'[w] = toDevice[w]
  BY <1>1
<1>3. /\ Head(q) \in BrokerMsg /\ Head(q) = q[1] /\ 1 \in DOMAIN q
      /\ \A i \in DOMAIN Tail(q) : i + 1 \in DOMAIN q /\ Tail(q)[i] = q[i + 1]
  BY <1>1
<1>4. Head(q).type \in {"PRI", "PERMIT"} => DeviceOf[Head(q).data] = v
  BY <1>3 DEF AddressInv
<1>5. AddressInv'
  <2> SUFFICES ASSUME NEW w \in Device, NEW i \in DOMAIN toDevice'[w],
                      toDevice'[w][i].type \in {"PRI", "PERMIT"}
               PROVE  DeviceOf[toDevice'[w][i].data] = w
    BY DEF AddressInv
  <2> QED
    BY <1>2, <1>3 DEF AddressInv
<1>6. ASSUME NEW e \in Data, DeviceOf[e] # v PROVE Link(e)' = Link(e)
  BY <1>2, <1>6, DataTypes DEF Link
<1>7. ASSUME NEW e \in Data, DeviceOf[e] = v PROVE Link(e) = q /\ Link(e)' = Tail(q)
  BY <1>2, <1>7 DEF Link
<1> HIDE DEF q
<1>8. ASSUME NEW e \in Data
      PROVE  /\ PriSent(e)' => PriSent(e)
             /\ PermitSent(e)' => PermitSent(e)
             /\ Msg("PRI", e) # Head(q) => (PriSent(e) => PriSent(e)')
             /\ Msg("PERMIT", e) # Head(q) => (PermitSent(e) => PermitSent(e)')
             /\ \A u \in {"PRI", "PERMIT"} : Once(Link(e), Msg(u, e)) => Once(Link(e)', Msg(u, e))
             /\ Ordered(Link(e), Msg("PRI", e), Msg("PERMIT", e))
                  => Ordered(Link(e)', Msg("PRI", e), Msg("PERMIT", e))
  <2>1. CASE DeviceOf[e] # v
    BY <1>6, <2>1 DEF PriSent, PermitSent
  <2>2. CASE DeviceOf[e] = v
    <3>1. \A x : /\ Has(q, x) <=> Head(q) = x \/ Has(Tail(q), x)
                 /\ Once(q, x) => Once(Tail(q), x)
      BY <1>1, HasTail
    <3>2. Ordered(q, Msg("PRI", e), Msg("PERMIT", e))
            => Ordered(Tail(q), Msg("PRI", e), Msg("PERMIT", e))
      BY <1>1, HasTail
    <3> QED
      BY <1>7, <2>2, <3>1, <3>2 DEF PriSent, PermitSent
  <2> QED
    BY <2>1, <2>2
<1>9. ASSUME NEW e \in Data, DeviceOf[e] = v, NEW u \in {"PRI", "PERMIT"}, Head(q) = Msg(u, e)
      PROVE  /\ Has(Link(e), Msg(u, e))
             /\ Once(Link(e), Msg(u, e)) => ~Has(Link(e)', Msg(u, e))
  BY <1>1, <1>7, <1>9, HasTail
<1>10. ASSUME NEW e \in Data, DeviceOf[e] = v, Head(q) = Msg("PERMIT", e),
              Ordered(Link(e), Msg("PRI", e), Msg("PERMIT", e))
       PROVE  ~PriSent(e)
  BY <1>1, <1>7, <1>10, HasTail DEF PriSent
<1> QED
  BY <1>3, <1>4, <1>5, <1>8, <1>9, <1>10 DEF PriSent, PermitSent, q

\* Every step keeps a datum's priority ahead of its permission.
LEMMA PriInvNext ==
  TypeOK /\ PeekInv /\ QueueInv /\ AnnouncedInv /\ HeldInv /\ PriInv /\ [Next]_vars => PriInv'
<1> SUFFICES ASSUME TypeOK, PeekInv, QueueInv, AnnouncedInv, HeldInv, PriInv, [Next]_vars
             PROVE  PriInv'
  OBVIOUS
<1> USE DEF queues, interrupt, mainVars, queueVars, selection, sendingVars, deviceVars
<1>1. AddressInv /\ \A d \in Data : PriInvOf(d)
  BY DEF PriInv
<1>2. ASSUME ~QueuePermit PROVE Permitted \subseteq Permitted'
  BY <1>2, RegisteredMoves DEF Permitted
<1>3. ASSUME UNCHANGED toDevice
      PROVE  /\ AddressInv'
             /\ \A d \in Data : Link(d)' = Link(d) /\ PriSent(d)' = PriSent(d)
                                /\ PermitSent(d)' = PermitSent(d)
  BY <1>1, <1>3 DEF AddressInv, Link, PriSent, PermitSent
<1>4. /\ stamp \in [Data -> Nat] /\ clock \in Nat
      /\ devstate \in [Data -> {"new", "announced", "ranked", "sending", "stopped", "done"}]
      /\ pcMain = "S5pri" => cur \in Data
  BY DEF TypeOK
\* State 5 takes a META: no message about the datum is on its way.
<1>5. CASE MainPopMeta
  <2>1. /\ pcMain = "S5" /\ pcMain' = "S5pri"
        /\ device_recvqueue # <<>> /\ Head(device_recvqueue).type = "META"
        /\ cur' = Head(device_recvqueue).data
        /\ stamp' = [stamp EXCEPT ![cur'] = clock + 1]
        /\ UNCHANGED <<toDevice, devstate>> /\ ~QueuePermit
    BY <1>5 DEF MainPopMeta, TakeMeta, PeekInv, PeekMatchesPop, QueuePermit
  <2>2. cur' \in Data /\ Head(device_recvqueue) = Msg("META", cur')
    <3>1. Head(device_recvqueue) \in DeviceMsg /\ device_recvqueue \in Seq(DeviceMsg)
      BY <2>1 DEF TypeOK
    <3> QED
      BY <2>1, <3>1 DEF DeviceMsg, Msg
  <2>3. stamp[cur'] = 0 /\ devstate[cur'] = "announced"
    <3>1. HasMeta(device_recvqueue, cur')
      BY <2>1, <2>2, MetaTail DEF TypeOK
    <3> QED
      BY <1>1, <2>2, <3>1 DEF AnnouncedInv, PriInvOf
  <2>4. ASSUME NEW d \in Data PROVE PriInvOf(d)'
    <3>1. PriInvOf(d) /\ ~BeforePri(d) /\ (BeforePri(d)' <=> d = cur')
      BY <1>1, <2>1 DEF BeforePri
    <3>2. CASE d = cur'
      BY <1>2, <1>3, <1>4, <2>1, <2>2, <2>3, <3>1, <3>2 DEF PriInvOf
    <3>3. CASE d # cur'
      <4>1. stamp'[d] = stamp[d]
        BY <1>4, <2>1, <3>3
      <4> QED
        BY <1>2, <1>3, <2>1, <3>1, <3>3, <4>1 DEF PriInvOf
    <3> QED
      BY <3>2, <3>3
  <2> QED
    BY <1>3, <2>1, <2>4 DEF PriInv
\* PRI is sent.
<1>6. CASE MainSendPri
  <2>1. /\ pcMain = "S5pri" /\ pcMain' = "S5push" /\ cur' = cur /\ cur \in Data
        /\ dv_send(DeviceOf[cur], Msg("PRI", cur))
        /\ UNCHANGED <<devstate, stamp>> /\ UNCHANGED <<SendingIDmap, IDmapStack, released>>
    BY <1>4, <1>6 DEF MainSendPri
  <2>2. Permitted' = Permitted
    BY <2>1 DEF Permitted, Registered, MapsOf
  <2>3. ASSUME NEW d \in Data PROVE PriInvOf(d)'
    <3>1. PriInvOf(d) /\ ~BeforePri(d)' /\ (BeforePri(d) <=> d = cur)
      BY <1>1, <2>1 DEF BeforePri
    <3>2. CASE d = cur
      <4>1. /\ devstate[d] = "announced" /\ stamp[d] > 0
            /\ ~Has(Link(d), Msg("PRI", d)) /\ ~Has(Link(d), Msg("PERMIT", d))
        <5>1. d \in InHand /\ InHand \cap Permitted = {}
          BY <2>1, <3>2 DEF InHand, HeldInv, Split, Permitted, Registered
        <5> QED
          BY <3>1, <3>2, <5>1 DEF PriInvOf, PriSent, PermitSent
      <4>2. /\ Link(d) \in Seq(BrokerMsg) /\ Msg("PRI", d) \in BrokerMsg
            /\ Link(d)' = Append(Link(d), Msg("PRI", d))
        BY <1>1, <2>1, <3>2, SendDatum
      <4>3. Msg("PRI", d) # Msg("PERMIT", d)
        BY DEF Msg
      <4>4. /\ Has(Link(d)', Msg("PRI", d)) /\ ~Has(Link(d)', Msg("PERMIT", d))
            /\ Once(Link(d)', Msg("PRI", d)) /\ Once(Link(d)', Msg("PERMIT", d))
            /\ Ordered(Link(d)', Msg("PRI", d), Msg("PERMIT", d))
        BY <3>1, <4>1, <4>2, <4>3, HasAppend DEF PriInvOf
      <4> QED
        BY <2>1, <2>2, <3>1, <4>1, <4>4 DEF PriInvOf, PriSent, PermitSent
    <3>3. CASE d # cur
      <4>1. /\ PriSent(d)' <=> PriSent(d)
            /\ PermitSent(d)' <=> PermitSent(d)
            /\ \A u \in {"PRI", "PERMIT"} : Once(Link(d), Msg(u, d)) => Once(Link(d), Msg(u, d))'
            /\ Ordered(Link(d), Msg("PRI", d), Msg("PERMIT", d))
                 => Ordered(Link(d), Msg("PRI", d), Msg("PERMIT", d))'
        BY <1>1, <2>1, <3>3, SendDatum
      <4> QED
        BY <2>1, <2>2, <3>1, <3>3, <4>1 DEF PriInvOf
    <3> QED
      BY <3>2, <3>3
  <2> QED
    BY <1>1, <2>1, <2>3, SendDatum DEF PriInv
\* PERMIT is sent: State 5 has queued the datum, so its PRI was sent.
<1>7. CASE QueuePermit
  <2>1. PICK x \in priDeviceMap : /\ SendingIDmap' = SendingIDmap \cup {x}
                                  /\ dv_send(DeviceOf[x], Msg("PERMIT", x))
    BY <1>7 DEF QueuePermit
  <2>2. UNCHANGED <<devstate, stamp, pcMain, cur, IDmapStack, released>>
    BY <1>7 DEF QueuePermit
  <2>3. Permitted' = Permitted \cup {x} /\ x \in Data
    BY <2>1, <2>2 DEF Permitted, Registered, MapsOf, TypeOK
  <2>4. ASSUME NEW d \in Data PROVE PriInvOf(d)'
    <3>1. PriInvOf(d) /\ (BeforePri(d)' <=> BeforePri(d))
      BY <1>1, <2>2 DEF BeforePri
    <3>2. CASE d = x
      <4>1. /\ d \notin Permitted /\ ~BeforePri(d) /\ stamp[d] > 0
        BY <2>1, <3>2 DEF InHand, HeldInv, Split, Permitted, Registered, BeforePri, Accepted
      <4>2. /\ devstate[d] \in {"announced", "ranked"}
            /\ ~Has(Link(d), Msg("PERMIT", d))
            /\ ~PriSent(d) => devstate[d] = "ranked"
        <5>1. devstate[d] # "new"
          BY <4>1 DEF AnnouncedInv
        <5>2. devstate[d] \in {"new", "announced", "ranked", "sending", "stopped", "done"}
          BY DEF TypeOK
        <5> QED
          BY <3>1, <4>1, <5>1, <5>2 DEF PriInvOf, PermitSent
      <4>3. /\ Link(d) \in Seq(BrokerMsg) /\ Msg("PERMIT", d) \in BrokerMsg
            /\ Link(d)' = Append(Link(d), Msg("PERMIT", d))
        BY <1>1, <2>1, <3>2, SendDatum
      <4>4. Msg("PRI", d) # Msg("PERMIT", d)
        BY DEF Msg
      <4>5. /\ PriSent(d)' <=> PriSent(d)
            /\ Once(Link(d)', Msg("PRI", d)) /\ Once(Link(d)', Msg("PERMIT", d))
            /\ Ordered(Link(d)', Msg("PRI", d), Msg("PERMIT", d))
        BY <3>1, <4>2, <4>3, <4>4, HasAppend DEF PriInvOf, PriSent
      <4> QED
        BY <2>2, <2>3, <3>1, <3>2, <4>1, <4>2, <4>5 DEF PriInvOf
    <3>3. CASE d # x
      <4>1. /\ PriSent(d)' <=> PriSent(d)
            /\ PermitSent(d)' <=> PermitSent(d)
            /\ \A u \in {"PRI", "PERMIT"} : Once(Link(d), Msg(u, d)) => Once(Link(d), Msg(u, d))'
            /\ Ordered(Link(d), Msg("PRI", d), Msg("PERMIT", d))
                 => Ordered(Link(d), Msg("PRI", d), Msg("PERMIT", d))'
        BY <1>1, <2>1, <2>3, <3>3, SendDatum
      <4> QED
        BY <2>2, <2>3, <3>1, <3>3, <4>1 DEF PriInvOf
    <3> QED
      BY <3>2, <3>3
  <2> QED
    BY <1>1, <2>1, <2>3, <2>4, SendDatum DEF PriInv
\* The devices.
<1>8. ASSUME NEW x \in Data, DeviceMeta(x) \/ DeviceComplete(x) PROVE PriInv'
  <2>1. /\ \/ devstate[x] = "new" /\ devstate' = [devstate EXCEPT ![x] = "announced"]
           \/ devstate[x] = "sending" /\ devstate' = [devstate EXCEPT ![x] = "done"]
        /\ UNCHANGED <<toDevice, stamp, pcMain, cur>> /\ UNCHANGED <<SendingIDmap, IDmapStack, released>>
    BY <1>8 DEF DeviceMeta, DeviceComplete
  <2>2. Permitted' = Permitted
    BY <2>1 DEF Permitted, Registered, MapsOf
  <2>3. ASSUME NEW d \in Data PROVE PriInvOf(d)'
    <3>1. PriInvOf(d) /\ (BeforePri(d)' <=> BeforePri(d))
      BY <1>1, <2>1 DEF BeforePri
    <3>2. devstate[d] = "new" => stamp[d] = 0
      BY DEF AnnouncedInv
    <3>3. CASE d = x
      <4>1. \/ devstate[d] = "new" /\ devstate'[d] = "announced"
            \/ devstate[d] = "sending" /\ devstate'[d] = "done"
        BY <1>4, <2>1, <3>3
      <4> QED
        BY <1>3, <1>4, <2>1, <2>2, <3>1, <3>2, <4>1 DEF PriInvOf
    <3>4. CASE d # x
      <4>1. devstate'[d] = devstate[d]
        BY <1>4, <2>1, <3>4
      <4> QED
        BY <1>3, <2>1, <2>2, <3>1, <4>1 DEF PriInvOf
    <3> QED
      BY <3>3, <3>4
  <2> QED
    BY <1>3, <2>1, <2>3 DEF PriInv
<1>9. ASSUME NEW v \in Device, DeviceTake(v) PROVE PriInv'
  <2> DEFINE m == Head(toDevice[v])
  <2>1. /\ toDevice[v] # <<>> /\ toDevice' = [toDevice EXCEPT ![v] = Tail(@)]
        /\ D_State07(m) \/ D_State08(m) \/ D_State10(v, m)
        /\ UNCHANGED <<stamp, pcMain, cur>> /\ UNCHANGED <<SendingIDmap, IDmapStack, released>>
    BY <1>9 DEF DeviceTake
  <2>2. Permitted' = Permitted
    BY <2>1 DEF Permitted, Registered, MapsOf
  <2> HIDE DEF m
  <2>3. /\ AddressInv' /\ m \in BrokerMsg
        /\ m.type \in {"PRI", "PERMIT"} => DeviceOf[m.data] = v
    BY <1>1, <2>1, TakeLink DEF m
  <2>4. m.type \in {"PRI", "PERMIT"} => m.data \in Data /\ m = Msg(m.type, m.data)
    BY <2>3 DEF BrokerMsg, Msg
  <2>5. ASSUME NEW d \in Data PROVE PriInvOf(d)'
    <3>1. PriInvOf(d) /\ (BeforePri(d)' <=> BeforePri(d)) /\ stamp' = stamp
      BY <1>1, <2>1 DEF BeforePri
    <3>2. /\ PriSent(d)' => PriSent(d)
          /\ PermitSent(d)' => PermitSent(d)
          /\ Msg("PRI", d) # m => (PriSent(d) => PriSent(d)')
          /\ Msg("PERMIT", d) # m => (PermitSent(d) => PermitSent(d)')
          /\ \A u \in {"PRI", "PERMIT"} : Once(Link(d), Msg(u, d)) => Once(Link(d), Msg(u, d))'
          /\ Ordered(Link(d), Msg("PRI", d), Msg("PERMIT", d))
               => Ordered(Link(d), Msg("PRI", d), Msg("PERMIT", d))'
      BY <1>1, <2>1, TakeLink DEF m
    <3>3. Msg("PRI", d) # Msg("PERMIT", d)
      BY DEF Msg
    <3>4. CASE m = Msg("PRI", d)
      <4>1. DeviceOf[d] = v /\ devstate'[d] = "ranked"
        <5>1. m.type = "PRI" /\ m.data = d
          BY <3>4 DEF Msg
        <5> QED
          BY <1>4, <2>1, <2>3, <5>1 DEF D_State07, D_State08, D_State10, Becomes
      <4>2. PriSent(d) /\ ~PriSent(d)'
        BY <1>1, <2>1, <3>1, <3>4, <4>1, TakeLink DEF m, PriInvOf
      <4> QED
        BY <2>2, <3>1, <3>2, <3>3, <4>1, <4>2 DEF PriInvOf
    <3>5. CASE m = Msg("PERMIT", d)
      <4>1. DeviceOf[d] = v /\ devstate'[d] = "sending"
        <5>1. m.type = "PERMIT" /\ m.data = d
          BY <3>5 DEF Msg
        <5> QED
          BY <1>4, <2>1, <2>3, <5>1 DEF D_State07, D_State08, D_State10, Becomes
      <4>2. PermitSent(d) /\ ~PermitSent(d)' /\ ~PriSent(d)
        BY <1>1, <2>1, <3>1, <3>5, <4>1, TakeLink DEF m, PriInvOf
      <4> QED
        BY <2>2, <3>1, <3>2, <3>3, <4>1, <4>2 DEF PriInvOf
    <3>6. CASE m \notin {Msg("PRI", d), Msg("PERMIT", d)}
      <4>1. \/ devstate'[d] = devstate[d]
            \/ devstate[d] \in {"sending", "stopped"} /\ devstate'[d] \in {"sending", "stopped"}
        <5>1. ASSUME D_State07(m) \/ D_State08(m)
              PROVE  devstate'[d] = devstate[d]
          <6>1. m.data # d
            BY <2>4, <3>6, <5>1 DEF D_State07, D_State08
          <6> QED
            BY <1>4, <5>1, <6>1 DEF D_State07, D_State08, Becomes
        <5>2. ASSUME D_State10(v, m)
              PROVE  \/ devstate'[d] = devstate[d]
                     \/ /\ devstate[d] \in {"sending", "stopped"}
                        /\ devstate'[d] \in {"sending", "stopped"}
          BY <1>4, <5>2 DEF D_State10, InState, Becomes
        <5> QED
          BY <2>1, <5>1, <5>2
      <4> QED
        BY <2>2, <3>1, <3>2, <3>6, <4>1 DEF PriInvOf
    <3> QED
      BY <3>4, <3>5, <3>6
  <2> QED
    BY <2>3, <2>5 DEF PriInv
\* Everything else.
<1>10. ASSUME ~MainPopMeta, ~MainSendPri, ~QueuePermit,
              \A d \in Data : ~DeviceMeta(d) /\ ~DeviceComplete(d),
              \A v \in Device : ~DeviceTake(v)
       PROVE  PriInv'
  <2>1. UNCHANGED <<devstate, stamp>> /\ \A d \in Data : BeforePri(d)' <=> BeforePri(d)
    <3>1. CASE Main
      BY <1>10, <3>1 DEF Main, MainOnlyMoves, MainSpawn, MainState4, MainPush, MainInterrupt,
         MainState5Again, State5Next, MainState6, State6Next, MainState7, MainState0, BeforePri
    <3>2. CASE Queue
      BY <3>2 DEF Queue, QueueOnlyMoves, QueueState10, QueueRestore, QueueNoRestore,
         QueueReadTop,
         QueueSuspend, QueuePopFirst, QueueClear, QueueSetPriority, QueuePopMore, QueueNoMore,
         QueuePushBack, QueuePermit, QueueReject, QueuePermitted, QueueDetect, QueuePeek,
         QueueRelease, QueueReleaseStacked, QueueReleaseUnknown, PopComplete, BeforePri
    <3>3. CASE Environment \/ UNCHANGED vars
      BY <1>10, <3>3 DEF vars, Environment, ServerRate, ServerStop, BeforePri
    <3> QED
      BY <3>1, <3>2, <3>3 DEF Next
  <2>2. \A v \in Device : Tells(v)
    BY <1>10, LinkMoves
  <2> QED
    BY <1>2, <1>10, <2>1, <2>2, PriInvStable
<1> QED
  BY <1>5, <1>6, <1>7, <1>8, <1>9, <1>10

\* A datum's priority stays ahead of its permission.
LEMMA PriInvariant == Spec => [](PeekInv /\ HeldInv /\ PriInv)
<1>1. Spec => []PeekInv
  BY PeekInvInit, PeekInvNext, TypeCorrect, PTL DEF Spec
<1>2. Spec => []HeldInv
  BY <1>1, HeldInvInit, HeldInvNext, TypeCorrect, QueueInvariant, AnnouncedInvariant, PTL
  DEF Spec
<1>3. Spec => []PriInv
  BY <1>1, <1>2, PriInvInit, PriInvNext, TypeCorrect, QueueInvariant, AnnouncedInvariant, PTL
  DEF Spec
<1> QED
  BY <1>1, <1>2, <1>3, PTL

\* When a device takes PERMIT for a datum it knows the datum's priority, although
\* the main thread sends PRI and the queue thread PERMIT.
THEOREM PermitAfterPriCorrect == Spec => []PermitAfterPri
<1>1. TypeOK /\ PriInv => PermitAfterPri
  <2> SUFFICES ASSUME TypeOK, PriInv, NEW v \in Device, NEW d \in Data,
                      toDevice[v] # <<>>, Head(toDevice[v]) = Msg("PERMIT", d)
               PROVE  devstate[d] = "ranked"
    BY DEF PermitAfterPri
  <2>1. /\ toDevice[v] \in Seq(BrokerMsg) /\ 1 \in DOMAIN toDevice[v]
        /\ toDevice[v][1] = Msg("PERMIT", d)
    BY DEF TypeOK
  <2>2. DeviceOf[d] = v
    BY <2>1 DEF PriInv, AddressInv, Msg
  <2>3. PermitSent(d) /\ ~PriSent(d)
    <3>1. PermitSent(d)
      BY <2>1, <2>2 DEF PermitSent, Has, Link
    <3>2. Ordered(toDevice[v], Msg("PRI", d), Msg("PERMIT", d))
      BY <2>2 DEF PriInv, PriInvOf, Link
    <3>3. ~Has(toDevice[v], Msg("PRI", d))
      BY <2>1, <3>2, HasTail
    <3> QED
      BY <2>2, <3>1, <3>3 DEF PriSent, Link
  <2> QED
    BY <2>3 DEF PriInv, PriInvOf
<1> QED
  BY <1>1, PriInvariant, TypeCorrect, PTL

-----------------------------------------------------------------------------
(* The registers and the data under way.                                   *)

CompleteSent(d) == Has(device_recvqueue, Msg("COMPLETE", d))

\* A datum is registered from its PERMIT to its COMPLETE.
UnderWayInvOf(d) ==
  /\ Once(device_recvqueue, Msg("COMPLETE", d))
  /\ CompleteSent(d) => devstate[d] = "done" /\ d \in Registered
  /\ devstate[d] \in {"sending", "stopped"} => d \in Registered
  /\ PermitSent(d) => d \in Registered
  /\ devstate[d] = "done" => CompleteSent(d) \/ d \in released
  /\ d \in Registered => \/ PermitSent(d) \/ CompleteSent(d)
                         \/ devstate[d] \in {"sending", "stopped"}

UnderWayInv == \A d \in Data : UnderWayInvOf(d)

\* The registers are empty at the start.
LEMMA UnderWayInit == Init => UnderWayInv
<1> SUFFICES ASSUME Init, NEW d \in Data PROVE UnderWayInvOf(d)
  BY DEF UnderWayInv
<1>1. /\ Link(d) = <<>> /\ device_recvqueue = <<>> /\ devstate[d] = "new"
      /\ Registered = {}
  BY DataTypes DEF Init, Link, Registered, MapsOf
<1> QED
  BY <1>1 DEF UnderWayInvOf, CompleteSent, PermitSent, Once, Has

\* A step that changes nothing about a datum.
LEMMA UnderWayStable ==
  ASSUME NEW d \in Data, UnderWayInvOf(d), devstate'[d] = devstate[d],
         PermitSent(d)' <=> PermitSent(d), CompleteSent(d)' <=> CompleteSent(d),
         Once(device_recvqueue, Msg("COMPLETE", d)) => Once(device_recvqueue, Msg("COMPLETE", d))',
         d \in Registered' <=> d \in Registered, d \in released' <=> d \in released
  PROVE  UnderWayInvOf(d)'
  BY DEF UnderWayInvOf

\* Every step keeps the registers in agreement, when State 11 takes a COMPLETE for
\* the datum it was sent for.
LEMMA UnderWayNext ==
  ASSUME \A d \in Data : Decoded[d] = d
  PROVE  TypeOK /\ PeekInv /\ QueueInv /\ AnnouncedInv /\ HeldInv /\ PriInv /\ UnderWayInv
           /\ [Next]_vars => UnderWayInv'
<1> SUFFICES ASSUME TypeOK, PeekInv, QueueInv, AnnouncedInv, HeldInv, PriInv, UnderWayInv, [Next]_vars
             PROVE  UnderWayInv'
  OBVIOUS
<1> USE DEF queues, interrupt, mainVars, queueVars, selection, sendingVars, deviceVars
<1>1. /\ AddressInv /\ \A d \in Data : PriInvOf(d) /\ UnderWayInvOf(d)
      /\ device_recvqueue \in Seq(DeviceMsg)
      /\ devstate \in [Data -> {"new", "announced", "ranked", "sending", "stopped", "done"}]
  BY DEF PriInv, UnderWayInv, TypeOK
<1>2. Registered \cap released = {}
  BY DEF HeldInv, Split, Registered
<1>3. ASSUME UNCHANGED device_recvqueue, NEW d \in Data
      PROVE  /\ CompleteSent(d)' <=> CompleteSent(d)
             /\ Once(device_recvqueue, Msg("COMPLETE", d))
                  => Once(device_recvqueue, Msg("COMPLETE", d))'
  BY <1>3 DEF CompleteSent
<1>4. ASSUME UNCHANGED toDevice, NEW d \in Data PROVE PermitSent(d)' <=> PermitSent(d)
  BY <1>4 DEF PermitSent, Link
<1>5. ASSUME ~QueuePermit, ~QueueRelease, ~QueueReleaseStacked
      PROVE  Registered' = Registered /\ released' = released
  BY <1>5, RegisteredMoves
\* A datum is registered as its PERMIT is sent.
<1>6. CASE QueuePermit
  <2>1. PICK x \in priDeviceMap : /\ SendingIDmap' = SendingIDmap \cup {x}
                                  /\ dv_send(DeviceOf[x], Msg("PERMIT", x))
    BY <1>6 DEF QueuePermit
  <2>2. UNCHANGED <<devstate, device_recvqueue, IDmapStack, released>>
    BY <1>6 DEF QueuePermit
  <2>3. Registered' = Registered \cup {x} /\ x \in Data
    BY <2>1, <2>2 DEF Registered, MapsOf, TypeOK
  <2>4. PermitSent(x)'
    <3>1. /\ Link(x) \in Seq(BrokerMsg) /\ Msg("PERMIT", x) \in BrokerMsg
          /\ Link(x)' = Append(Link(x), Msg("PERMIT", x))
      BY <1>1, <2>1, <2>3, SendDatum
    <3> QED
      BY <3>1, HasAppend DEF PermitSent
  <2>5. ASSUME NEW d \in Data PROVE UnderWayInvOf(d)'
    <3>1. CASE d = x
      BY <1>1, <1>3, <2>2, <2>3, <2>4, <3>1 DEF UnderWayInvOf
    <3>2. CASE d # x
      <4>1. PermitSent(d)' <=> PermitSent(d)
        BY <1>1, <2>1, <2>3, <3>2, SendDatum
      <4> QED
        BY <1>1, <1>3, <2>2, <2>3, <3>2, <4>1, UnderWayStable
    <3> QED
      BY <3>1, <3>2
  <2> QED
    BY <2>5 DEF UnderWayInv
\* State 11 pops a COMPLETE: the datum is registered, once.
<1>7. CASE QueueRelease \/ QueueReleaseStacked \/ QueueReleaseUnknown
  <2>1. /\ device_recvqueue # <<>> /\ Head(device_recvqueue).type = "COMPLETE"
        /\ device_recvqueue' = Tail(device_recvqueue) /\ UNCHANGED devstate
    BY <1>7 DEF QueueRelease, QueueReleaseStacked, QueueReleaseUnknown, PopComplete, PeekInv,
       PeekMatchesPop
  <2>2. PICK x \in Data : /\ Head(device_recvqueue) = Msg("COMPLETE", x)
                          /\ x = Head(device_recvqueue).data /\ Decoded[x] = x
    <3>1. Head(device_recvqueue) \in DeviceMsg
      BY <1>1, <2>1
    <3> QED
      BY <2>1, <3>1 DEF DeviceMsg, Msg
  <2>3. /\ CompleteSent(x) /\ ~CompleteSent(x)'
        /\ \A d \in Data : Once(device_recvqueue, Msg("COMPLETE", d))'
        /\ \A d \in Data \ {x} : CompleteSent(d)' <=> CompleteSent(d)
    <3>1. \A d \in Data : Once(device_recvqueue, Msg("COMPLETE", d))
      BY <1>1 DEF UnderWayInvOf
    <3>2. \A d \in Data \ {x} : Msg("COMPLETE", d) # Head(device_recvqueue)
      BY <2>2 DEF Msg
    <3>3. \A y : /\ Has(device_recvqueue, y)
                    <=> Head(device_recvqueue) = y \/ Has(Tail(device_recvqueue), y)
                 /\ Once(device_recvqueue, y)
                      => /\ Once(Tail(device_recvqueue), y)
                         /\ ~(Head(device_recvqueue) = y /\ Has(Tail(device_recvqueue), y))
      BY <1>1, <2>1, HasTail
    <3> QED
      BY <2>1, <2>2, <3>1, <3>2, <3>3 DEF CompleteSent
  <2>4. x \in Registered /\ devstate[x] = "done" /\ ~PermitSent(x)
    BY <1>1, <2>2, <2>3 DEF UnderWayInvOf, PriInvOf
  <2>5. ~QueueReleaseUnknown
    BY <2>2, <2>4 DEF QueueReleaseUnknown, Registered, MapsOf
  <2>6. Registered' = Registered \ {x} /\ released' = released \cup {x}
    <3>1. ~QueuePermit
      BY <2>1, <1>7 DEF QueueRelease, QueueReleaseStacked, QueueReleaseUnknown, PopComplete,
         QueuePermit
    <3> QED
      BY <1>7, <2>2, <2>5, <3>1, RegisteredMoves
  <2>7. \A d \in Data : PermitSent(d)' <=> PermitSent(d)
    <3>1. ~MainSendPri /\ ~QueuePermit /\ \A v \in Device : ~DeviceTake(v)
      BY <1>7, <2>1 DEF QueueRelease, QueueReleaseStacked, QueueReleaseUnknown, PopComplete,
         QueuePermit, MainSendPri, DeviceTake
    <3> QED
      BY <3>1, LinkMoves, TellsKeeps
  <2>8. ASSUME NEW d \in Data PROVE UnderWayInvOf(d)'
    <3>1. CASE d = x
      BY <2>1, <2>2, <2>3, <2>4, <2>6, <2>7, <3>1 DEF UnderWayInvOf
    <3>2. CASE d # x
      BY <1>1, <2>1, <2>3, <2>6, <2>7, <3>2, UnderWayStable
    <3> QED
      BY <3>1, <3>2
  <2> QED
    BY <2>8 DEF UnderWayInv
\* State 5 pops a META.
<1>8. CASE MainPopMeta
  <2>1. /\ device_recvqueue # <<>> /\ Head(device_recvqueue).type = "META"
        /\ device_recvqueue' = Tail(device_recvqueue) /\ UNCHANGED <<devstate, toDevice>>
        /\ UNCHANGED <<SendingIDmap, IDmapStack, released>>
    BY <1>8 DEF MainPopMeta, TakeMeta, PeekInv, PeekMatchesPop
  <2>2. Registered' = Registered
    BY <2>1 DEF Registered, MapsOf
  <2>3. ASSUME NEW d \in Data PROVE UnderWayInvOf(d)'
    <3>1. Msg("COMPLETE", d) # Head(device_recvqueue)
      BY <2>1 DEF Msg
    <3>2. /\ CompleteSent(d)' <=> CompleteSent(d)
          /\ Once(device_recvqueue, Msg("COMPLETE", d))
               => Once(device_recvqueue', Msg("COMPLETE", d))
      BY <1>1, <2>1, <3>1, HasTail DEF CompleteSent
    <3> QED
      BY <1>1, <1>4, <2>1, <2>2, <3>2, UnderWayStable
  <2> QED
    BY <2>3 DEF UnderWayInv
\* The devices announce a datum, or report one that is registered.
<1>9. ASSUME NEW x \in Data, DeviceMeta(x) PROVE UnderWayInv'
  <2>1. /\ devstate[x] = "new" /\ devstate' = [devstate EXCEPT ![x] = "announced"]
        /\ device_recvqueue' = Append(device_recvqueue, Msg("META", x))
        /\ UNCHANGED toDevice /\ UNCHANGED <<SendingIDmap, IDmapStack, released>>
    BY <1>9 DEF DeviceMeta
  <2>2. Registered' = Registered /\ Msg("META", x) \in DeviceMsg
    BY <2>1, MessageTypes DEF Registered, MapsOf
  <2>3. ASSUME NEW d \in Data PROVE UnderWayInvOf(d)'
    <3>1. Msg("COMPLETE", d) # Msg("META", x)
      BY DEF Msg
    <3>2. /\ CompleteSent(d)' <=> CompleteSent(d)
          /\ Once(device_recvqueue, Msg("COMPLETE", d))
               => Once(device_recvqueue', Msg("COMPLETE", d))
      BY <1>1, <2>1, <2>2, <3>1, HasAppend DEF CompleteSent
    <3>3. CASE d = x
      <4>1. devstate[d] = "new" /\ devstate'[d] = "announced"
        BY <1>1, <2>1, <3>3
      <4> QED
        BY <1>1, <1>4, <2>1, <2>2, <3>2, <4>1 DEF UnderWayInvOf
    <3>4. CASE d # x
      <4>1. devstate'[d] = devstate[d]
        BY <2>1, <3>4, <1>1
      <4> QED
        BY <1>1, <1>4, <2>1, <2>2, <3>2, <4>1, UnderWayStable
    <3> QED
      BY <3>3, <3>4
  <2> QED
    BY <2>3 DEF UnderWayInv
<1>10. ASSUME NEW x \in Data, DeviceComplete(x) PROVE UnderWayInv'
  <2>1. /\ devstate[x] = "sending" /\ devstate' = [devstate EXCEPT ![x] = "done"]
        /\ device_recvqueue' = Append(device_recvqueue, Msg("COMPLETE", x))
        /\ UNCHANGED toDevice /\ UNCHANGED <<SendingIDmap, IDmapStack, released>>
    BY <1>10 DEF DeviceComplete
  <2>2. Registered' = Registered /\ Msg("COMPLETE", x) \in DeviceMsg
    BY <2>1, MessageTypes DEF Registered, MapsOf
  <2>3. ASSUME NEW d \in Data PROVE UnderWayInvOf(d)'
    <3>1. /\ CompleteSent(d)' <=> CompleteSent(d) \/ Msg("COMPLETE", x) = Msg("COMPLETE", d)
          /\ Once(device_recvqueue, Msg("COMPLETE", d))
                /\ ~(CompleteSent(d) /\ Msg("COMPLETE", x) = Msg("COMPLETE", d))
               => Once(device_recvqueue', Msg("COMPLETE", d))
      BY <1>1, <2>1, <2>2, HasAppend DEF CompleteSent
    <3>2. CASE d = x
      <4>1. devstate[d] = "sending" /\ devstate'[d] = "done"
        BY <1>1, <2>1, <3>2
      <4>2. ~CompleteSent(d) /\ d \in Registered
        BY <1>1, <4>1 DEF UnderWayInvOf
      <4> QED
        BY <1>1, <1>4, <2>1, <2>2, <3>1, <3>2, <4>1, <4>2 DEF UnderWayInvOf
    <3>3. CASE d # x
      <4>1. devstate'[d] = devstate[d] /\ Msg("COMPLETE", x) # Msg("COMPLETE", d)
        BY <2>1, <3>3, <1>1 DEF Msg
      <4> QED
        BY <1>1, <1>4, <2>1, <2>2, <3>1, <4>1, UnderWayStable
    <3> QED
      BY <3>2, <3>3
  <2> QED
    BY <2>3 DEF UnderWayInv
\* A device takes a message.
<1>11. ASSUME NEW v \in Device, DeviceTake(v) PROVE UnderWayInv'
  <2> DEFINE m == Head(toDevice[v])
  <2>1. /\ toDevice[v] # <<>> /\ toDevice' = [toDevice EXCEPT ![v] = Tail(@)]
        /\ D_State07(m) \/ D_State08(m) \/ D_State10(v, m)
        /\ UNCHANGED device_recvqueue /\ UNCHANGED <<SendingIDmap, IDmapStack, released>>
    BY <1>11 DEF DeviceTake
  <2>2. Registered' = Registered
    BY <2>1 DEF Registered, MapsOf
  <2> HIDE DEF m
  <2>3. /\ m \in BrokerMsg
        /\ m.type \in {"PRI", "PERMIT"} => DeviceOf[m.data] = v
    BY <1>1, <2>1, TakeLink DEF m
  <2>4. m.type \in {"PRI", "PERMIT"} => m.data \in Data /\ m = Msg(m.type, m.data)
    BY <2>3 DEF BrokerMsg, Msg
  <2>5. ASSUME NEW d \in Data PROVE UnderWayInvOf(d)'
    <3>1. /\ PermitSent(d)' => PermitSent(d)
          /\ Msg("PERMIT", d) # m => (PermitSent(d) => PermitSent(d)')
      BY <1>1, <2>1, TakeLink DEF m
    <3>2. CASE m = Msg("PRI", d)
      <4>1. DeviceOf[d] = v /\ devstate'[d] = "ranked"
        <5>1. m.type = "PRI" /\ m.data = d
          BY <3>2 DEF Msg
        <5> QED
          BY <1>1, <2>1, <2>3, <5>1 DEF D_State07, D_State08, D_State10, Becomes
      <4>2. devstate[d] = "announced" /\ (PermitSent(d)' <=> PermitSent(d))
        <5>1. PriSent(d) /\ Msg("PERMIT", d) # m
          <6>1. PriSent(d)
            BY <1>1, <2>1, <3>2, <4>1, TakeLink DEF m
          <6>2. Msg("PERMIT", d) # m
            BY <3>2 DEF Msg
          <6> QED  BY <6>1, <6>2
        <5> QED
          BY <1>1, <3>1, <5>1 DEF PriInvOf
      <4> QED
        BY <1>1, <1>3, <2>1, <2>2, <4>1, <4>2 DEF UnderWayInvOf
    <3>3. CASE m = Msg("PERMIT", d)
      <4>1. DeviceOf[d] = v /\ devstate'[d] = "sending"
        <5>1. m.type = "PERMIT" /\ m.data = d
          BY <3>3 DEF Msg
        <5> QED
          BY <1>1, <2>1, <2>3, <5>1 DEF D_State07, D_State08, D_State10, Becomes
      <4>2. PermitSent(d) /\ ~PermitSent(d)' /\ devstate[d] = "ranked"
        <5>1. PermitSent(d) /\ ~PermitSent(d)' /\ ~PriSent(d)
          BY <1>1, <2>1, <3>3, <4>1, TakeLink DEF m, PriInvOf
        <5> QED
          BY <1>1, <5>1 DEF PriInvOf
      <4> QED
        BY <1>1, <1>3, <2>1, <2>2, <4>1, <4>2 DEF UnderWayInvOf
    <3>4. CASE m \notin {Msg("PRI", d), Msg("PERMIT", d)}
      <4>1. \/ devstate'[d] = devstate[d]
            \/ devstate[d] \in {"sending", "stopped"} /\ devstate'[d] \in {"sending", "stopped"}
        <5>1. ASSUME D_State07(m) \/ D_State08(m)
              PROVE  devstate'[d] = devstate[d]
          <6>1. m.data # d
            BY <2>4, <3>4, <5>1 DEF D_State07, D_State08
          <6> QED
            BY <1>1, <5>1, <6>1 DEF D_State07, D_State08, Becomes
        <5>2. ASSUME D_State10(v, m)
              PROVE  \/ devstate'[d] = devstate[d]
                     \/ /\ devstate[d] \in {"sending", "stopped"}
                        /\ devstate'[d] \in {"sending", "stopped"}
          BY <1>1, <5>2 DEF D_State10, InState, Becomes
        <5> QED
          BY <2>1, <5>1, <5>2
      <4>2. PermitSent(d)' <=> PermitSent(d)
        BY <3>1, <3>4
      <4> QED
        BY <1>1, <1>3, <2>1, <2>2, <4>1, <4>2 DEF UnderWayInvOf
    <3> QED
      BY <3>2, <3>3, <3>4
  <2> QED
    BY <2>5 DEF UnderWayInv
\* State 5 sends a PRI.
<1>12. CASE MainSendPri
  <2>1. /\ cur \in Data /\ dv_send(DeviceOf[cur], Msg("PRI", cur))
        /\ UNCHANGED <<device_recvqueue, devstate>> /\ UNCHANGED <<SendingIDmap, IDmapStack, released>>
    BY <1>12 DEF MainSendPri, TypeOK
  <2>2. Registered' = Registered
    BY <2>1 DEF Registered, MapsOf
  <2>3. ASSUME NEW d \in Data PROVE PermitSent(d)' <=> PermitSent(d)
    <3>1. CASE d = cur
      <4>1. /\ Link(d) \in Seq(BrokerMsg) /\ Msg("PRI", d) \in BrokerMsg
            /\ Link(d)' = Append(Link(d), Msg("PRI", d)) /\ Msg("PRI", d) # Msg("PERMIT", d)
        BY <1>1, <2>1, <3>1, SendDatum DEF Msg
      <4> QED
        BY <4>1, HasAppend DEF PermitSent
    <3>2. CASE d # cur
      BY <1>1, <2>1, <3>2, SendDatum
    <3> QED
      BY <3>1, <3>2
  <2> QED
    BY <1>1, <1>3, <2>1, <2>2, <2>3, UnderWayStable DEF UnderWayInv
\* Everything else.
<1>13. ASSUME ~MainPopMeta, ~MainSendPri, ~QueuePermit,
              ~QueueRelease, ~QueueReleaseStacked, ~QueueReleaseUnknown,
              \A d \in Data : ~DeviceMeta(d) /\ ~DeviceComplete(d),
              \A v \in Device : ~DeviceTake(v)
       PROVE  UnderWayInv'
  <2>1. UNCHANGED <<device_recvqueue, devstate>>
    <3>1. CASE Main
      BY <1>13, <3>1 DEF Main, MainOnlyMoves, MainSpawn, MainState4, MainPush, MainInterrupt,
         MainState5Again, MainState6, MainState7, MainState0
    <3>2. CASE Queue
      BY <1>13, <3>2 DEF Queue, QueueOnlyMoves, QueueState10, QueueRestore, QueueNoRestore,
         QueueReadTop, QueueSuspend, QueuePopFirst, QueueClear, QueueSetPriority, QueuePopMore,
         QueueNoMore, QueuePushBack, QueueReject, QueuePermitted, QueueDetect, QueuePeek
    <3>3. CASE Environment \/ UNCHANGED vars
      BY <1>13, <3>3 DEF vars, Environment, ServerRate, ServerStop
    <3> QED
      BY <3>1, <3>2, <3>3 DEF Next
  <2>2. \A d \in Data : PermitSent(d)' <=> PermitSent(d)
    BY <1>13, LinkMoves, TellsKeeps
  <2> QED
    BY <1>1, <1>3, <1>5, <1>13, <2>1, <2>2, UnderWayStable DEF UnderWayInv
<1> QED
  BY <1>6, <1>7, <1>8, <1>9, <1>10, <1>11, <1>12, <1>13

\* Every COMPLETE finds its datum in the current or a stacked map, and whatever is
\* registered there has a COMPLETE to come: when State 11 decodes an ID to the datum
\* it was written for, as it does for the IDs below 128.
THEOREM RegistersCorrect ==
  ASSUME \A d \in Data : Decoded[d] = d
  PROVE  Spec => []RegisteredIffUnderWay
<1>1. Spec => []UnderWayInv
  BY PriInvariant, UnderWayInit, UnderWayNext, TypeCorrect, QueueInvariant,
     AnnouncedInvariant, PTL
  DEF Spec
<1>2. TypeOK /\ UnderWayInv => RegisteredIffUnderWay
  <2> SUFFICES ASSUME TypeOK, UnderWayInv, NEW d \in Data
               PROVE  UnderWay(d) <=> d \in SendingIDmap \cup Parked
    BY DEF RegisteredIffUnderWay
  <2>1. Registered = SendingIDmap \cup Parked
    BY DEF Registered, Parked, MapsOf
  <2>2. ASSUME NEW S, NEW q \in Seq(S), NEW x PROVE Contains(q, x) <=> Has(q, x)
    BY <2>2 DEF Contains, Has
  <2>3. /\ Contains(toDevice[DeviceOf[d]], Msg("PERMIT", d)) <=> PermitSent(d)
        /\ Contains(device_recvqueue, Msg("COMPLETE", d)) <=> CompleteSent(d)
    <3>1. toDevice[DeviceOf[d]] \in Seq(BrokerMsg) /\ device_recvqueue \in Seq(DeviceMsg)
      BY DataTypes DEF TypeOK
    <3> QED
      BY <2>2, <3>1 DEF PermitSent, CompleteSent, Link
  <2> QED
    BY <2>1, <2>3 DEF UnderWay, UnderWayInv, UnderWayInvOf
<1> QED
  BY <1>1, <1>2, TypeCorrect, PTL
=============================================================================
