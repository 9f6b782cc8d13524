--------------------------- MODULE TransferProofs ---------------------------
(***************************************************************************)
(* Proofs about Transfer, for any data of any sizes, any number of STOP    *)
(* messages and reads of any length: types; and, as long as no item has    *)
(* been overtaken, that the server puts together what was taken apart.     *)
(***************************************************************************)
EXTENDS Transfer, SequenceTheorems, FiniteSetTheorems, TLAPS

-----------------------------------------------------------------------------
(* The device, as long as no item has been overtaken: of the items that    *)
(* are queued only the first may not have been begun, and what the main    *)
(* thread has announced finds the queue empty.                             *)

DeviceInv ==
  /\ \A i \in 1..Len(sendqueue) : i > 1 => sendqueue[i].n > 1
  /\ pcSend \in {"check", "park"} => sendqueue[1].n > 1
  /\ \A i \in 1..Len(sendstack) : sendstack[i].n > 1
  /\ pcMain = "limit" => sendqueue = <<>>

\* The data that interrupt each other, with what the device has still to send: those on
\* sendstack, those it has taken from there to queue them again, the last of them
\* first, and the one announced last, which is on its way to sendqueue or in it.
Fresh(d) == [data |-> d, n |-> 1]
Nest(s, q) ==
  [i \in 1..(Len(s) + Len(q)) |-> IF i <= Len(s) THEN s[i] ELSE q[Len(s) + Len(q) + 1 - i]]
Nested == IF pcMain = "limit" THEN Append(sendstack, Fresh(cur))
          ELSE Nest(sendstack, sendqueue)

-----------------------------------------------------------------------------
(* The server: its state, what a token does to it, and when it mirrors the *)
(* device's.                                                               *)

Piece(d, k) == [i \in 1..k |-> Chunk(d, i)]
Saved(item) == [pri |-> item.data, data |-> Piece(item.data, item.n - 1)]

\* What is on the wire: a chunk is of a datum.
Sent == {t \in Token : t.kind = "DATA" => t.data \in Data}

SavedItem == [pri : Data \cup {NoData}, data : Seq(Sent)]
ServerState == [rem : Seq(Sent), stack : Seq(SavedItem), cnt : Int,
                pri : Data \cup {NoData}]
Now == [rem |-> device_remaindata, stack |-> remainstack, cnt |-> asyncrecvCountor,
        pri |-> devid_pri_map]

\* In state v the server knows what token t is, and goes to state w.
TakesMarker(v, t, w) ==
  /\ t = Marker
  /\ w = [rem |-> <<>>, stack |-> Append(v.stack, [pri |-> v.pri, data |-> v.rem]),
          cnt |-> v.cnt - 1, pri |-> v.pri]
TakesDecdata(v, t, w) ==
  \E d \in Data :
    /\ t = Decdata(d) /\ v.rem = <<>>
    /\ w = [rem |-> <<>>, stack |-> v.stack, cnt |-> v.cnt + 1, pri |-> d]
TakesChunk(v, t, w) ==
  \E d \in Data : \E n \in 1..(Size[d] - 1) :
    /\ t = Chunk(d, n) /\ v.rem = Piece(d, n - 1) /\ v.pri = d
    /\ w = [rem |-> Piece(d, n), stack |-> v.stack, cnt |-> v.cnt, pri |-> v.pri]
TakesLast(v, t, w) ==
  \E d \in Data :
    /\ t = Chunk(d, Size[d]) /\ v.rem = Piece(d, Size[d] - 1) /\ v.pri = d
    /\ \/ /\ v.stack = <<>>
          /\ w = [rem |-> <<>>, stack |-> <<>>, cnt |-> v.cnt - 1, pri |-> v.pri]
       \/ /\ v.stack # <<>>
          /\ w = [rem |-> Last(v.stack).data, stack |-> Front(v.stack), cnt |-> v.cnt,
                  pri |-> Last(v.stack).pri]
Takes(v, t, w) ==
  TakesMarker(v, t, w) \/ TakesDecdata(v, t, w) \/ TakesChunk(v, t, w) \/ TakesLast(v, t, w)

\* It counts what it has and for whom.
Sound(v) ==
  /\ v.cnt \in {0, 1}
  /\ v.rem # <<>> => v.cnt = 1 /\ v.pri = Head(v.rem).data
  /\ \A i \in DOMAIN v.stack : v.stack[i].pri = Head(v.stack[i].data).data

\* It has what the device has sent of the nested items ns.
Stacked(ns) == [i \in 1..Len(ns) |-> Saved(ns[i])]
Mirrors(v, ns) ==
  IF ns = <<>> THEN v.rem = <<>> /\ v.stack = <<>> /\ v.cnt = 0
  ELSE /\ v.rem = Piece(Last(ns).data, Last(ns).n - 1) /\ v.pri = Last(ns).data
       /\ v.stack = Stacked(Front(ns)) /\ v.cnt = 1

\* The states the server will go through from v when it takes what is on the wire q.
Path(v, vs, q) ==
  /\ Len(vs) = Len(q) + 1 /\ vs[1] = v
  /\ \A i \in 1..Len(q) : Takes(vs[i], q[i], vs[i + 1])
  /\ \A i \in 1..Len(vs) : Sound(vs[i])
Replay(vs) == Path(Now, vs, wire) /\ Mirrors(Last(vs), Nested)
WireInv == \E vs \in Seq(ServerState) : Replay(vs)

\* The priority of a piece of a datum has been counted for all of it but k tokens.
Counted(bytes, piece, k) ==
  piece # <<>> => Head(piece).data \in Data /\ bytes[Head(piece).data] + k >= Len(piece)

\* Of what the server has, only what it has handled of this read may not be counted.
CountInv ==
  /\ \A piece \in delivered : Counted(devid_byte_map, piece, 0)
  /\ \A i \in 1..Len(remainstack) : Counted(devid_byte_map, remainstack[i].data, 0)
  /\ Counted(devid_byte_map, device_remaindata, datalength - left)

-----------------------------------------------------------------------------
(* Types.                                                                  *)

\* TypeOK in five parts, but for the two flags, with what they rest on: the main
\* thread has a datum, and the sender an item, while they deal with it, and the tokens
\* that are read are on the wire and no markers.
BrokerTypes ==
  /\ SendingIDmap \subseteq Data /\ IDmapStack \in Seq(SUBSET Data)
  /\ permitted \subseteq Data /\ stops \in 0..MaxStops
LinkTypes ==
  /\ toDevice \in Seq(BrokerMsg) /\ completes \in Seq(Data)
  /\ server_recvqueue \in Seq(Data)
DeviceTypes ==
  /\ pcMain \in {"S05", "presend", "limit"} /\ cur \in Data \cup {NoData}
  /\ sendqueue \in Seq(Item) /\ sendstack \in Seq(Item)
  /\ pcSend \in {"read", "lock", "write", "check", "park"}
  /\ pcMain # "S05" => cur \in Data
  /\ pcSend # "read" => sendqueue # <<>>
ServerTypes ==
  /\ wire \in Seq(Sent) /\ device_remaindata \in Seq(Sent)
  /\ remainstack \in Seq(SavedItem)
  /\ asyncrecvCountor \in Int /\ devid_pri_map \in Data \cup {NoData}
  /\ delivered \subseteq Seq(Sent)
ReadTypes ==
  /\ datalength \in 0..MaxRead /\ left \in 0..datalength
  /\ left = 0 => datalength = 0
  /\ left <= Len(wire) /\ \A i \in 1..left : wire[i] # Marker
  /\ devid_byte_map \in [Data -> Nat]
Types == BrokerTypes /\ LinkTypes /\ DeviceTypes /\ ServerTypes /\ ReadTypes

\* What a queue holds, with an element more and with its head or its last taken.
LEMMA SeqFacts ==
  ASSUME NEW S, NEW q \in Seq(S)
  PROVE  /\ Len(q) \in Nat /\ DOMAIN q = 1..Len(q) /\ \A i \in 1..Len(q) : q[i] \in S
         /\ q # <<>> => /\ Len(q) > 0 /\ Head(q) = q[1] /\ Head(q) \in S
                        /\ Tail(q) \in Seq(S) /\ Len(Tail(q)) = Len(q) - 1
                        /\ \A i \in 1..(Len(q) - 1) : Tail(q)[i] = q[i + 1]
                        /\ Last(q) = q[Len(q)] /\ Last(q) \in S
                        /\ Front(q) \in Seq(S) /\ Len(Front(q)) = Len(q) - 1
                        /\ \A i \in 1..(Len(q) - 1) : Front(q)[i] = q[i]
         /\ Len(q) = 0 => q = <<>>
<1>1. /\ Len(q) \in Nat /\ DOMAIN q = 1..Len(q) /\ (Len(q) = 0 => q = <<>>)
      /\ \A i \in 1..Len(q) : q[i] \in S
  BY LenProperties, EmptySeq, ElementOfSeq
<1>2. ASSUME q # <<>>
      PROVE  /\ Len(q) > 0 /\ Head(q) = q[1] /\ Head(q) \in S
             /\ Tail(q) \in Seq(S) /\ Len(Tail(q)) = Len(q) - 1
             /\ \A i \in 1..(Len(q) - 1) : Tail(q)[i] = q[i + 1]
  BY <1>1, <1>2, HeadTailProperties
<1>3. ASSUME q # <<>> PROVE Last(q) = q[Len(q)] /\ Last(q) \in S
  BY <1>1, <1>2, <1>3 DEF Last
<1>4. ASSUME q # <<>>
      PROVE  /\ Front(q) \in Seq(S) /\ Len(Front(q)) = Len(q) - 1
             /\ \A i \in 1..(Len(q) - 1) : Front(q)[i] = q[i]
  <2>1. Front(q) = SubSeq(q, 1, Len(q) - 1) BY DEF Front
  <2>2. Len(q) - 1 \in 0..Len(q) BY <1>1, <1>2, <1>4
  <2> QED BY <1>1, <2>1, <2>2, SubSeqProperties
<1> QED BY <1>1, <1>2, <1>3, <1>4

\* What a sequence holds with an element appended.
LEMMA AppendFacts ==
  ASSUME NEW S, NEW q \in Seq(S), NEW x \in S
  PROVE  /\ Append(q, x) \in Seq(S) /\ Append(q, x) # <<>> /\ Len(Append(q, x)) = Len(q) + 1
         /\ \A i \in 1..Len(q) : Append(q, x)[i] = q[i]
         /\ Append(q, x)[Len(q) + 1] = x
         /\ Last(Append(q, x)) = x /\ Front(Append(q, x)) = q
<1>1. /\ Append(q, x) \in Seq(S) /\ Len(Append(q, x)) = Len(q) + 1 /\ Len(q) \in Nat
      /\ \A i \in 1..Len(q) : Append(q, x)[i] = q[i]
      /\ Append(q, x)[Len(q) + 1] = x
  BY AppendProperties, LenProperties
<1>2. Append(q, x) # <<>> /\ Last(Append(q, x)) = x BY <1>1, EmptySeq DEF Last
<1>3. Front(Append(q, x)) = q
  <2> DEFINE r == Append(q, x)
  <2>2. r \in Seq(S) /\ r # <<>> /\ Len(r) - 1 = Len(q) BY <1>1, <1>2
  <2> HIDE DEF r
  <2>3. /\ Front(r) \in Seq(S) /\ Len(Front(r)) = Len(r) - 1
        /\ \A i \in 1..(Len(r) - 1) : Front(r)[i] = r[i]
    BY <2>2, SeqFacts
  <2>1. /\ Front(Append(q, x)) \in Seq(S) /\ Len(Front(Append(q, x))) = Len(q)
        /\ \A i \in 1..Len(q) : Front(Append(q, x))[i] = q[i]
    BY <1>1, <2>2, <2>3 DEF r
  <2> QED BY <2>1, SeqEqual
<1> QED BY <1>1, <1>2, <1>3

\* Items, messages and tokens.
LEMMA ItemFacts ==
  /\ \A x \in Item : /\ x = [data |-> x.data, n |-> x.n]
                     /\ x.data \in Data /\ x.n \in 1..Size[x.data]
  /\ \A d \in Data : /\ Size[d] \in Nat \ {0} /\ Fresh(d) \in Item
                     /\ \A n \in 1..Size[d] : [data |-> d, n |-> n] \in Item
<1>1. \A d \in Data : Size[d] \in Nat \ {0} BY TransferAssumption
<1>2. \A x \in Item : /\ x = [data |-> x.data, n |-> x.n]
                      /\ x.data \in Data /\ x.n \in 1..Size[x.data]
  BY DEF Item
<1>3. \A d \in Data : \A n \in 1..Size[d] : [data |-> d, n |-> n] \in Item
  BY DEF Item
<1>4. \A d \in Data : Fresh(d) \in Item BY <1>1, <1>3 DEF Fresh
<1> QED BY <1>1, <1>2, <1>3, <1>4

\* A marker, a DECDATA and a chunk of a datum may be on the wire.
LEMMA TokenFacts ==
  /\ Marker \in Sent
  /\ \A d \in Data \cup {NoData} : Decdata(d) \in Sent
  /\ \A d \in Data, n \in Nat : Chunk(d, n) \in Sent
  /\ \A t \in Sent : t \in Token /\ t.data \in Data \cup {NoData}
  /\ \A t \in Sent : t.kind = "DATA" => t.data \in Data
BY DEF Sent, Token, Marker, Decdata, Chunk

\* What the broker sends, and of what a permission is.
LEMMA MessageFacts ==
  /\ \A d \in Data : Msg("PERMIT", d) \in BrokerMsg
  /\ Msg("STOP", NoData) \in BrokerMsg /\ Msg("RESTART", NoData) \in BrokerMsg
  /\ \A m \in BrokerMsg : m.type = "PERMIT" => m.data \in Data
BY DEF Msg, BrokerMsg

\* The types hold at first.
LEMMA TypesInit == Init => Types
<1> SUFFICES ASSUME Init PROVE Types
  OBVIOUS
<1> USE TransferAssumption DEF Init
<1>1. BrokerTypes BY EmptySeq DEF BrokerTypes
<1>2. LinkTypes BY EmptySeq DEF LinkTypes
<1>3. DeviceTypes BY EmptySeq DEF DeviceTypes
<1>4. ServerTypes BY EmptySeq DEF ServerTypes
<1>5. ReadTypes
  <2>1. Len(wire) = 0 BY EmptySeq
  <2> QED BY <2>1 DEF ReadTypes
<1> QED BY <1>1, <1>2, <1>3, <1>4, <1>5 DEF Types

\* The broker keeps the types.
LEMMA TypesBroker == ASSUME Types, Broker PROVE Types'
<1> USE DEF Types, brokerVars, links, mainVars, sessionVars, readVars, serverVars
<1>1. UNCHANGED <<server_recvqueue, mainVars, sessionVars, wire, serverVars>>
  BY DEF Broker, BrokerPermit, BrokerStop, BrokerRestart, BrokerRelease
<1>2. DeviceTypes' BY <1>1 DEF DeviceTypes
<1>3. ServerTypes' /\ ReadTypes' BY <1>1 DEF ServerTypes, ReadTypes
<1>4. ASSUME NEW d \in Data, BrokerPermit(d) PROVE BrokerTypes' /\ LinkTypes'
  <2>1. Append(toDevice, Msg("PERMIT", d)) \in Seq(BrokerMsg)
    BY AppendFacts, MessageFacts DEF LinkTypes
  <2> QED BY <1>1, <1>4, <2>1 DEF BrokerPermit, BrokerTypes, LinkTypes
<1>5. CASE BrokerStop
  <2>1. Append(toDevice, Msg("STOP", NoData)) \in Seq(BrokerMsg)
    BY AppendFacts, MessageFacts DEF LinkTypes
  <2>2. Append(IDmapStack, SendingIDmap) \in Seq(SUBSET Data)
    BY AppendFacts DEF BrokerTypes
  <2>3. BrokerTypes' BY <1>5, <2>2, TransferAssumption DEF BrokerStop, BrokerTypes
  <2> QED BY <1>1, <1>2, <1>3, <1>5, <2>1, <2>3 DEF BrokerStop, LinkTypes
<1>6. CASE BrokerRestart
  <2>1. Append(toDevice, Msg("RESTART", NoData)) \in Seq(BrokerMsg)
    BY AppendFacts, MessageFacts DEF LinkTypes
  <2>2. Last(IDmapStack) \in SUBSET Data /\ Front(IDmapStack) \in Seq(SUBSET Data)
    BY <1>6, SeqFacts DEF BrokerRestart, BrokerTypes
  <2> QED BY <1>1, <1>2, <1>3, <1>6, <2>1, <2>2 DEF BrokerRestart, BrokerTypes, LinkTypes
<1>7. CASE BrokerRelease
  <2>1. Tail(completes) \in Seq(Data) BY <1>7, SeqFacts DEF BrokerRelease, LinkTypes
  <2>2. IDmapStack' \in Seq(SUBSET Data)
    <3>1. PICK d : \/ UNCHANGED IDmapStack
                   \/ \E i \in DOMAIN IDmapStack :
                        IDmapStack' \in {RemoveAt(IDmapStack, i),
                                         [IDmapStack EXCEPT ![i] = @ \ {d}]}
      BY <1>7 DEF BrokerRelease
    <3>2. ASSUME NEW i \in DOMAIN IDmapStack
          PROVE  /\ RemoveAt(IDmapStack, i) \in Seq(SUBSET Data)
                 /\ [IDmapStack EXCEPT ![i] = @ \ {d}] \in Seq(SUBSET Data)
      <4>1. i \in 1..Len(IDmapStack) /\ Len(IDmapStack) \in Nat /\ IDmapStack[i] \in SUBSET Data
        BY <3>2, SeqFacts DEF BrokerTypes
      <4>2. /\ SubSeq(IDmapStack, 1, i - 1) \in Seq(SUBSET Data)
            /\ SubSeq(IDmapStack, i + 1, Len(IDmapStack)) \in Seq(SUBSET Data)
        BY <4>1, SubSeqProperties DEF BrokerTypes
      <4>3. RemoveAt(IDmapStack, i) \in Seq(SUBSET Data)
        BY <4>2, ConcatProperties DEF RemoveAt
      <4>4. [IDmapStack EXCEPT ![i] = @ \ {d}] \in Seq(SUBSET Data)
        BY <4>1, ExceptSeq DEF BrokerTypes
      <4> QED BY <4>3, <4>4
    <3> QED BY <3>1, <3>2 DEF BrokerTypes
  <2> QED BY <1>1, <1>2, <1>3, <1>7, <2>1, <2>2 DEF BrokerRelease, BrokerTypes, LinkTypes
<1> QED BY <1>2, <1>3, <1>4, <1>5, <1>6, <1>7 DEF Broker

\* What basic_send writes: the marker, if it does, and DECDATA.
LEMMA PresendWire ==
  ASSUME NEW q \in Seq(Sent), cur \in Data \cup {NoData}
  PROVE  q \o Presend =
           Append(IF sendstack = <<>> THEN q ELSE Append(q, Marker), Decdata(cur))
<1>1. Marker \in Sent /\ Decdata(cur) \in Sent BY TokenFacts
<1>2. Append(q, Marker) \in Seq(Sent) BY <1>1, AppendFacts
<1>3. Append(q, Decdata(cur)) = q \o <<Decdata(cur)>> BY <1>1, AppendIsConcat
<1>4. Append(Append(q, Marker), Decdata(cur)) = q \o <<Marker, Decdata(cur)>>
  <2>1. <<Marker>> \in Seq(Sent) /\ <<Decdata(cur)>> \in Seq(Sent) BY <1>1
  <2>2. Append(q, Marker) = q \o <<Marker>> BY <1>1, AppendIsConcat
  <2>3. Append(Append(q, Marker), Decdata(cur)) = (q \o <<Marker>>) \o <<Decdata(cur)>>
    BY <1>1, <1>2, <2>2, AppendIsConcat
  <2>4. <<Marker, Decdata(cur)>> = <<Marker>> \o <<Decdata(cur)>> BY <2>1
  <2> QED BY <2>1, <2>3, <2>4, ConcatAssociative
<1> QED BY <1>3, <1>4 DEF Presend

\* What the main thread takes is in the queue.
LEMMA TakesMessage ==
  ASSUME Types, NEW type, TakeBrokerMessage(type)
  PROVE  /\ toDevice' \in Seq(BrokerMsg)
         /\ type = "PERMIT" => Head(toDevice).data \in Data
<1>1. Head(toDevice) \in BrokerMsg /\ Tail(toDevice) \in Seq(BrokerMsg)
  BY SeqFacts DEF TakeBrokerMessage, Types, LinkTypes
<1> QED BY <1>1, MessageFacts DEF TakeBrokerMessage

\* What is written changes nothing of what has been read.
LEMMA ReadGrows ==
  ASSUME Types, NEW t \in Sent, UNCHANGED <<readVars, devid_byte_map>>,
         \/ wire' = Append(wire, t)
         \/ \E u \in Sent : wire' = Append(Append(wire, u), t)
  PROVE  ReadTypes'
<1>1. wire \in Seq(Sent) /\ Len(wire) \in Nat BY SeqFacts DEF Types, ServerTypes
<1>2. Len(wire) <= Len(wire') /\ \A i \in 1..Len(wire) : wire'[i] = wire[i]
  <2>1. CASE wire' = Append(wire, t) BY <1>1, <2>1, AppendFacts
  <2>2. ASSUME NEW u \in Sent, wire' = Append(Append(wire, u), t)
        PROVE  Len(wire) <= Len(wire') /\ \A i \in 1..Len(wire) : wire'[i] = wire[i]
    <3>1. PICK r : r = Append(wire, u)
      OBVIOUS
    <3>2. /\ r \in Seq(Sent) /\ Len(r) = Len(wire) + 1
          /\ \A i \in 1..Len(wire) : r[i] = wire[i]
      BY <1>1, <3>1, AppendFacts
    <3>3. Len(wire') = Len(r) + 1 /\ \A i \in 1..Len(r) : wire'[i] = r[i]
      BY <2>2, <3>1, <3>2, AppendFacts
    <3> QED BY <1>1, <3>2, <3>3
  <2> QED BY <2>1, <2>2
<1>3. \A i \in 1..left : i \in 1..Len(wire) BY <1>1 DEF Types, ReadTypes
<1>4. Len(wire') \in Nat
  <2>1. \A u \in Sent : Append(wire, u) \in Seq(Sent) BY <1>1, AppendFacts
  <2>2. wire' \in Seq(Sent) BY <1>1, <2>1, AppendFacts
  <2> QED BY <2>2, SeqFacts
<1>5. left <= Len(wire') /\ \A i \in 1..left : wire'[i] # Marker
  BY <1>1, <1>2, <1>3, <1>4 DEF Types, ReadTypes
<1> QED BY <1>5 DEF Types, ReadTypes, readVars

\* The main thread keeps the types.
LEMMA TypesMain == ASSUME Types, Main PROVE Types'
<1> USE DEF Types, brokerVars, links, mainVars, sessionVars, readVars, serverVars
<1>1. CASE MainPermit
  <2>1. /\ toDevice' \in Seq(BrokerMsg) /\ Head(toDevice).data \in Data
        /\ UNCHANGED <<brokerVars, completes, server_recvqueue>>
    BY <1>1, TakesMessage DEF MainPermit, TakeBrokerMessage
  <2>2. BrokerTypes' /\ LinkTypes' BY <2>1 DEF BrokerTypes, LinkTypes
  <2>3. DeviceTypes' BY <1>1, <2>1 DEF MainPermit, DeviceTypes
  <2>4. ServerTypes' /\ ReadTypes' BY <1>1 DEF MainPermit, ServerTypes, ReadTypes
  <2> QED BY <2>2, <2>3, <2>4
<1>2. CASE MainPresend
  <2>1. wire' \in Seq(Sent)
    <3>1. cur \in Data \cup {NoData} /\ wire \in Seq(Sent) BY DEF DeviceTypes, ServerTypes
    <3>2. Marker \in Sent /\ Decdata(cur) \in Sent BY <3>1, TokenFacts
    <3>4. (IF sendstack = <<>> THEN wire ELSE Append(wire, Marker)) \in Seq(Sent)
      BY <3>1, <3>2, AppendFacts
    <3>3. wire \o Presend \in Seq(Sent)
      <4>1. PICK q \in Seq(Sent) : wire \o Presend = Append(q, Decdata(cur))
        BY <3>1, <3>4, PresendWire
      <4> QED BY <3>2, <4>1, AppendFacts
    <3> QED BY <1>2, <3>3 DEF MainPresend
  <2>2. BrokerTypes' /\ LinkTypes' BY <1>2 DEF MainPresend, BrokerTypes, LinkTypes
  <2>3. DeviceTypes' BY <1>2 DEF MainPresend, DeviceTypes
  <2>4. ServerTypes' BY <1>2, <2>1 DEF MainPresend, ServerTypes
  <2>5. ReadTypes'
    <3>1. cur \in Data \cup {NoData} /\ wire \in Seq(Sent) BY DEF DeviceTypes, ServerTypes
    <3>2. Marker \in Sent /\ Decdata(cur) \in Sent BY <3>1, TokenFacts
    <3>3. \/ wire' = Append(wire, Decdata(cur))
          \/ wire' = Append(Append(wire, Marker), Decdata(cur))
      BY <1>2, <3>1, PresendWire DEF MainPresend
    <3>4. UNCHANGED <<readVars, devid_byte_map>> BY <1>2 DEF MainPresend
    <3> QED BY <3>2, <3>3, <3>4, ReadGrows
  <2> QED BY <2>2, <2>3, <2>4, <2>5
<1>3. CASE MainQueue
  <2>1. sendqueue' \in Seq(Item) /\ sendqueue' # <<>>
    <3>1. Fresh(cur) \in Item BY <1>3, ItemFacts DEF MainQueue, DeviceTypes
    <3> QED BY <1>3, <3>1, AppendFacts DEF MainQueue, DeviceTypes, Fresh
  <2>2. BrokerTypes' /\ LinkTypes' BY <1>3 DEF MainQueue, BrokerTypes, LinkTypes
  <2>3. DeviceTypes' BY <1>3, <2>1 DEF MainQueue, DeviceTypes
  <2>4. ServerTypes' /\ ReadTypes' BY <1>3 DEF MainQueue, ServerTypes, ReadTypes
  <2> QED BY <2>2, <2>3, <2>4
<1>4. CASE MainStop
  <2>1. /\ toDevice' \in Seq(BrokerMsg)
        /\ UNCHANGED <<brokerVars, completes, server_recvqueue>>
    BY <1>4, TakesMessage DEF MainStop, TakeBrokerMessage
  <2>2. BrokerTypes' /\ LinkTypes' BY <2>1 DEF BrokerTypes, LinkTypes
  <2>3. DeviceTypes' BY <1>4 DEF MainStop, DeviceTypes
  <2>4. ServerTypes' /\ ReadTypes' BY <1>4 DEF MainStop, ServerTypes, ReadTypes
  <2> QED BY <2>2, <2>3, <2>4
<1>5. CASE MainRestart
  <2>1. /\ toDevice' \in Seq(BrokerMsg)
        /\ UNCHANGED <<brokerVars, completes, server_recvqueue>>
    BY <1>5, TakesMessage DEF MainRestart, TakeBrokerMessage
  <2>2. BrokerTypes' /\ LinkTypes' BY <2>1 DEF BrokerTypes, LinkTypes
  <2>3. /\ sendqueue' \in Seq(Item) /\ sendstack' \in Seq(Item)
        /\ sendqueue # <<>> => sendqueue' # <<>>
    <3>1. CASE sendstack = <<>> BY <1>5, <3>1 DEF MainRestart, DeviceTypes
    <3>2. CASE sendstack # <<>>
      <4>1. Last(sendstack) \in Item /\ Front(sendstack) \in Seq(Item)
        BY <3>2, SeqFacts DEF DeviceTypes
      <4> QED BY <1>5, <3>2, <4>1, AppendFacts DEF MainRestart, DeviceTypes
    <3> QED BY <3>1, <3>2
  <2>4. DeviceTypes' BY <1>5, <2>3 DEF MainRestart, DeviceTypes
  <2>5. ServerTypes' /\ ReadTypes' BY <1>5 DEF MainRestart, ServerTypes, ReadTypes
  <2> QED BY <2>2, <2>4, <2>5
<1>6. CASE MainComplete
  <2>1. Head(server_recvqueue) \in Data /\ Tail(server_recvqueue) \in Seq(Data)
    BY <1>6, SeqFacts DEF MainComplete, LinkTypes
  <2>2. Append(completes, Head(server_recvqueue)) \in Seq(Data)
    BY <2>1, AppendFacts DEF LinkTypes
  <2>3. BrokerTypes' /\ LinkTypes' BY <1>6, <2>1, <2>2 DEF MainComplete, BrokerTypes, LinkTypes
  <2>4. DeviceTypes' BY <1>6 DEF MainComplete, DeviceTypes
  <2>5. ServerTypes' /\ ReadTypes' BY <1>6 DEF MainComplete, ServerTypes, ReadTypes
  <2> QED BY <2>3, <2>4, <2>5
<1> QED BY <1>1, <1>2, <1>3, <1>4, <1>5, <1>6 DEF Main

\* The item that is being sent, one chunk further.
LEMMA NextChunk ==
  ASSUME Types, pcSend = "write",
         ~LastChunk(Head(sendqueue))
  PROVE  LET q == [sendqueue EXCEPT ![1].n = @ + 1]
             x == sendqueue[1]
         IN  /\ q \in Seq(Item) /\ Len(q) = Len(sendqueue) /\ q # <<>>
             /\ q[1] = [data |-> x.data, n |-> x.n + 1]
             /\ x.n + 1 <= Size[x.data] /\ x.n \in Nat \ {0}
             /\ Tail(q) = Tail(sendqueue)
             /\ \A i \in 1..Len(q) : i > 1 => q[i] = sendqueue[i]
<1> DEFINE x == sendqueue[1]
           y == [data |-> x.data, n |-> x.n + 1]
<1>1. /\ sendqueue \in Seq(Item) /\ sendqueue # <<>> /\ Len(sendqueue) > 0 /\ x \in Item
      /\ Len(sendqueue) \in Nat /\ Head(sendqueue) = x /\ 1 \in 1..Len(sendqueue)
  BY SeqFacts DEF Types, DeviceTypes
<1>2. /\ x = [data |-> x.data, n |-> x.n] /\ x.data \in Data /\ x.n \in 1..Size[x.data]
      /\ Size[x.data] \in Nat
  BY <1>1, ItemFacts
<1>3. x.n # Size[x.data] BY <1>1 DEF LastChunk
<1>4. x.n + 1 \in 1..Size[x.data] /\ x.n \in Nat \ {0} BY <1>2, <1>3
<1>5. y \in Item BY <1>2, <1>4, ItemFacts
<1> HIDE DEF y
<1>6. [sendqueue EXCEPT ![1].n = @ + 1] = [sendqueue EXCEPT ![1] = y]
  <2>1. [x EXCEPT !.n = @ + 1] = y BY <1>2 DEF y
  <2> QED BY <2>1
<1>7. /\ [sendqueue EXCEPT ![1] = y] \in Seq(Item)
      /\ Len([sendqueue EXCEPT ![1] = y]) = Len(sendqueue)
      /\ [sendqueue EXCEPT ![1] = y][1] = y
  BY <1>1, <1>5, ExceptSeq
<1>8. [sendqueue EXCEPT ![1] = y] # <<>> BY <1>1, <1>7, EmptySeq
<1>9. \A i \in 1..Len(sendqueue) : i > 1 => [sendqueue EXCEPT ![1] = y][i] = sendqueue[i]
  BY <1>1
<1>10. Tail([sendqueue EXCEPT ![1] = y]) = Tail(sendqueue)
  <2>1. PICK r, t : r = [sendqueue EXCEPT ![1] = y] /\ t = Tail(r)
    OBVIOUS
  <2>2. r \in Seq(Item) /\ r # <<>> /\ Len(r) = Len(sendqueue) BY <1>7, <1>8, <2>1
  <2>3. /\ t \in Seq(Item) /\ Len(t) = Len(sendqueue) - 1
        /\ \A i \in 1..(Len(sendqueue) - 1) : t[i] = r[i + 1]
    BY <2>1, <2>2, SeqFacts
  <2>4. /\ Tail(sendqueue) \in Seq(Item) /\ Len(Tail(sendqueue)) = Len(sendqueue) - 1
        /\ \A i \in 1..(Len(sendqueue) - 1) : Tail(sendqueue)[i] = sendqueue[i + 1]
    BY <1>1, SeqFacts
  <2>5. \A i \in 1..(Len(sendqueue) - 1) : i + 1 \in 1..Len(sendqueue) /\ i + 1 > 1
    BY <1>1
  <2>6. \A i \in 1..(Len(sendqueue) - 1) : r[i + 1] = sendqueue[i + 1]
    BY <1>9, <2>1, <2>5
  <2>7. t = Tail(sendqueue) BY <2>3, <2>4, <2>6, SeqEqual
  <2> QED BY <2>1, <2>7
<1> QED BY <1>4, <1>6, <1>7, <1>8, <1>9, <1>10 DEF y

\* The sender keeps the types.
LEMMA TypesSender == ASSUME Types, Sender PROVE Types'
<1> USE DEF Types, brokerVars, links, mainVars, sessionVars, readVars, serverVars
<1>1. BrokerTypes' /\ LinkTypes'
  BY DEF Sender, SendStart, SendLock, SendChunk, SendCheck, SendPark, BrokerTypes, LinkTypes
<1>2. CASE SendStart \/ SendLock \/ SendCheck
  <2>1. DeviceTypes' BY <1>2 DEF SendStart, SendLock, SendCheck, DeviceTypes
  <2>2. ServerTypes' /\ ReadTypes'
    BY <1>2 DEF SendStart, SendLock, SendCheck, ServerTypes, ReadTypes
  <2> QED BY <1>1, <2>1, <2>2
<1>3. CASE SendChunk
  <2>1. /\ sendqueue # <<>> /\ Head(sendqueue) \in Item /\ Tail(sendqueue) \in Seq(Item)
        /\ pcSend = "write"
    BY <1>3, SeqFacts DEF SendChunk, DeviceTypes
  <2>2. Chunk(Head(sendqueue).data, Head(sendqueue).n) \in Sent
    BY <2>1, ItemFacts, TokenFacts
  <2>3. wire' \in Seq(Sent)
    BY <1>3, <2>2, AppendFacts DEF SendChunk, ServerTypes
  <2>4. DeviceTypes'
    <3>1. CASE LastChunk(Head(sendqueue))
      BY <1>3, <2>1, <3>1 DEF SendChunk, DeviceTypes
    <3>2. CASE ~LastChunk(Head(sendqueue))
      <4>1. /\ [sendqueue EXCEPT ![1].n = @ + 1] \in Seq(Item)
            /\ [sendqueue EXCEPT ![1].n = @ + 1] # <<>>
        BY <2>1, <3>2, NextChunk
      <4> QED BY <1>3, <3>2, <4>1 DEF SendChunk, DeviceTypes
    <3> QED BY <3>1, <3>2
  <2>5. ServerTypes' BY <1>3, <2>3 DEF SendChunk, ServerTypes
  <2>6. ReadTypes'
    <3>1. /\ wire' = Append(wire, Chunk(Head(sendqueue).data, Head(sendqueue).n))
          /\ UNCHANGED <<readVars, devid_byte_map>>
      BY <1>3 DEF SendChunk
    <3> QED BY <2>2, <3>1, ReadGrows
  <2> QED BY <1>1, <2>4, <2>5, <2>6
<1>4. CASE SendPark
  <2>1. Head(sendqueue) \in Item /\ Tail(sendqueue) \in Seq(Item)
    BY <1>4, SeqFacts DEF SendPark, DeviceTypes
  <2>2. Append(sendstack, Head(sendqueue)) \in Seq(Item)
    BY <2>1, AppendFacts DEF DeviceTypes
  <2>3. DeviceTypes' BY <1>4, <2>1, <2>2 DEF SendPark, Park, DeviceTypes
  <2>4. ServerTypes' /\ ReadTypes' BY <1>4 DEF SendPark, ServerTypes, ReadTypes
  <2> QED BY <1>1, <2>3, <2>4
<1> QED BY <1>2, <1>3, <1>4 DEF Sender

\* The server keeps the types.
LEMMA TypesServer == ASSUME Types, Server PROVE Types'
<1> USE DEF Types, brokerVars, links, mainVars, sessionVars, readVars, serverVars
<1>1. UNCHANGED <<brokerVars, toDevice, completes, mainVars, sessionVars>>
  BY DEF Server, ServerRead, ServerMarker, ServerDecdata, ServerData, ServerFragment,
         ServerReceives
<1>2. BrokerTypes' /\ DeviceTypes' BY <1>1 DEF BrokerTypes, DeviceTypes
<1>3. CASE ServerRead
  <2>1. ServerTypes' /\ LinkTypes' BY <1>3 DEF ServerRead, ServerTypes, LinkTypes
  <2>2. ReadTypes' BY <1>3 DEF ServerRead, ReadTypes
  <2> QED BY <1>2, <2>1, <2>2
<1>4. ASSUME wire # <<>>, wire' = Tail(wire)
      PROVE  /\ Head(wire) = wire[1] /\ Head(wire) \in Sent /\ wire' \in Seq(Sent)
             /\ Len(wire) \in Nat /\ Len(wire) > 0 /\ Len(wire') = Len(wire) - 1
             /\ \A i \in 1..(Len(wire) - 1) : wire'[i] = wire[i + 1]
             /\ Pushdata \in Seq(Sent) /\ Head(Pushdata) \in Sent
  BY <1>4, SeqFacts, AppendFacts DEF Pushdata, ServerTypes
<1>5. CASE ServerMarker
  <2>1. [pri |-> devid_pri_map, data |-> device_remaindata] \in SavedItem
    BY DEF ServerTypes, SavedItem
  <2>2. Append(remainstack, [pri |-> devid_pri_map, data |-> device_remaindata])
          \in Seq(SavedItem)
    BY <2>1, AppendFacts DEF ServerTypes
  <2>3. wire # <<>> /\ wire' = Tail(wire) BY <1>5 DEF ServerMarker
  <2>4. ServerTypes' BY <1>4, <1>5, <2>2, <2>3, EmptySeq DEF ServerMarker, ServerTypes
  <2>5. LinkTypes' BY <1>5 DEF ServerMarker, LinkTypes
  <2>6. ReadTypes'
    <3>1. left' = 0 /\ datalength' = datalength /\ left = 0 /\ UNCHANGED devid_byte_map
      BY <1>5 DEF ServerMarker
    <3>2. Len(wire') \in Nat BY <1>4, <2>3
    <3> QED BY <3>1, <3>2 DEF ReadTypes
  <2> QED BY <1>2, <2>4, <2>5, <2>6
<1>6. CASE left > 0 /\ (ServerDecdata \/ ServerData \/ ServerFragment)
  <2>1. /\ wire' = Tail(wire) /\ left' = left - 1
        /\ datalength' = IF left = 1 THEN 0 ELSE datalength
    BY <1>6 DEF ServerDecdata, ServerData, ServerFragment, ServerReceives
  <2>2. wire # <<>>
    <3>1. Len(wire) > 0 BY <1>6 DEF ReadTypes
    <3> QED BY <3>1, EmptySeq
  <2>3. /\ wire' \in Seq(Sent) /\ Len(wire) \in Nat /\ Len(wire') = Len(wire) - 1
        /\ \A i \in 1..(Len(wire) - 1) : wire'[i] = wire[i + 1]
        /\ Pushdata \in Seq(Sent) /\ Head(Pushdata) \in Sent
    BY <1>4, <2>1, <2>2
  <2>4. devid_byte_map' \in [Data -> Nat]
    <3>0. datalength \in Nat BY TransferAssumption DEF ReadTypes
    <3>1. ASSUME NEW b \in [Data -> Nat], NEW p PROVE mesureLength(b, p) \in [Data -> Nat]
      <4>1. \A d \in Data : b[d] + datalength \in Nat BY <3>0
      <4> QED BY <4>1 DEF mesureLength
    <3>2. ASSUME NEW b \in [Data -> Nat], NEW p, NEW x
          PROVE  LastRound(b, p, x) \in [Data -> Nat]
      BY <3>1 DEF LastRound
    <3>3. devid_byte_map \in [Data -> Nat] BY DEF ReadTypes
    <3> QED BY <1>6, <3>1, <3>2, <3>3 DEF ServerDecdata, ServerData, ServerFragment
  <2>5. ReadTypes'
    <3>1. left \in 1..datalength /\ datalength \in 0..MaxRead /\ MaxRead \in Nat
          /\ left <= Len(wire)
      BY <1>6, TransferAssumption DEF ReadTypes
    <3>2. left' <= Len(wire') BY <2>1, <2>3, <3>1
    <3>3. datalength' \in 0..MaxRead /\ left' \in 0..datalength'
          /\ (left' = 0 => datalength' = 0)
      BY <2>1, <3>1
    <3>4. ASSUME NEW i \in 1..left' PROVE wire'[i] # Marker
      <4>1. i \in 1..(Len(wire) - 1) /\ i + 1 \in 1..left BY <2>1, <2>3, <3>1
      <4> QED BY <2>3, <4>1 DEF ReadTypes
    <3> QED BY <2>4, <3>2, <3>3, <3>4 DEF ReadTypes
  <2>6. CASE ServerDecdata
    <3>1. ServerTypes'
      BY <2>3, <2>6, EmptySeq, TokenFacts DEF ServerDecdata, ServerReceives, ServerTypes
    <3>2. LinkTypes' BY <2>6 DEF ServerDecdata, ServerReceives, LinkTypes
    <3> QED BY <1>2, <2>5, <3>1, <3>2
  <2>7. CASE ServerData
    <3>1. Head(Pushdata).data \in Data BY <2>3, <2>7, TokenFacts DEF ServerData, IsData
    <3>2. Append(server_recvqueue, Head(Pushdata).data) \in Seq(Data)
      BY <3>1, AppendFacts DEF LinkTypes
    <3>3. LinkTypes' BY <1>1, <2>7, <3>2 DEF ServerData, LinkTypes
    <3>4. remainstack # <<>> =>
            Last(remainstack) \in SavedItem /\ Front(remainstack) \in Seq(SavedItem)
      BY SeqFacts DEF ServerTypes
    <3>5. /\ device_remaindata' \in Seq(Sent) /\ remainstack' \in Seq(SavedItem)
          /\ devid_pri_map' \in Data \cup {NoData} /\ asyncrecvCountor' \in Int
      BY <2>7, <3>4, EmptySeq
      DEF ServerData, ServerReceives, ResumedPri, Resumdata, Recounted, SavedItem,
          ServerTypes
    <3>6. ServerTypes' BY <2>3, <2>7, <3>5 DEF ServerData, ServerTypes
    <3> QED BY <1>2, <2>5, <3>3, <3>6
  <2>8. CASE ServerFragment
    <3>1. ServerTypes' BY <2>3, <2>8 DEF ServerFragment, ServerReceives, ServerTypes
    <3>2. LinkTypes' BY <2>8 DEF ServerFragment, ServerReceives, LinkTypes
    <3> QED BY <1>2, <2>5, <3>1, <3>2
  <2> QED BY <1>6, <2>6, <2>7, <2>8
<1> QED BY <1>3, <1>5, <1>6 DEF Server, ServerDecdata, ServerData, ServerFragment

\* Every step keeps the types.
LEMMA TypesNext == Types /\ [Next]_vars => Types'
<1> SUFFICES ASSUME Types, [Next]_vars PROVE Types'
  OBVIOUS
<1>1. CASE UNCHANGED vars
  <2> USE <1>1 DEF vars, Types, brokerVars, links, mainVars, sessionVars, readVars, serverVars
  <2>1. BrokerTypes' /\ LinkTypes' BY DEF BrokerTypes, LinkTypes
  <2>2. DeviceTypes' /\ ServerTypes' BY DEF DeviceTypes, ServerTypes
  <2>3. ReadTypes' BY DEF ReadTypes
  <2> QED BY <2>1, <2>2, <2>3
<1> QED BY <1>1, TypesBroker, TypesMain, TypesSender, TypesServer DEF Next

-----------------------------------------------------------------------------
(* The pieces of a datum.                                                  *)

\* Pieces are made chunk by chunk.
LEMMA PieceFacts ==
  ASSUME NEW d \in Data, NEW k \in Nat
  PROVE  /\ Piece(d, k) \in Seq(Sent) /\ Len(Piece(d, k)) = k
         /\ k > 0 => Piece(d, k) # <<>> /\ Head(Piece(d, k)) = Chunk(d, 1)
         /\ k = 0 => Piece(d, k) = <<>>
         /\ Append(Piece(d, k), Chunk(d, k + 1)) = Piece(d, k + 1)
<1>1. ASSUME NEW n \in Nat
      PROVE  Piece(d, n) \in Seq(Sent) /\ Len(Piece(d, n)) = n /\ DOMAIN Piece(d, n) = 1..n
  <2>1. \A i \in 1..n : Chunk(d, i) \in Sent BY TokenFacts
  <2>2. Piece(d, n) \in [1..n -> Sent] BY <2>1 DEF Piece
  <2> QED BY <2>2, LenProperties, SeqDef DEF Piece
<1>2. ASSUME k > 0 PROVE Piece(d, k) # <<>> /\ Head(Piece(d, k)) = Chunk(d, 1)
  <2>1. Piece(d, k) # <<>> BY <1>1, <1>2, EmptySeq
  <2>2. Head(Piece(d, k)) = Piece(d, k)[1] BY <1>1, <2>1, HeadTailProperties
  <2> QED BY <1>2, <2>1, <2>2 DEF Piece
<1>3. k = 0 => Piece(d, k) = <<>> BY <1>1, EmptySeq
<1>4. Append(Piece(d, k), Chunk(d, k + 1)) = Piece(d, k + 1)
  <2>1. Chunk(d, k + 1) \in Sent BY TokenFacts
  <2>2. PICK p : p = Append(Piece(d, k), Chunk(d, k + 1))
    OBVIOUS
  <2>3. /\ p \in Seq(Sent) /\ Len(p) = k + 1 /\ p[k + 1] = Chunk(d, k + 1)
        /\ \A i \in 1..k : p[i] = Piece(d, k)[i]
    BY <1>1, <2>1, <2>2, AppendFacts
  <2>4. \A i \in 1..(k + 1) : p[i] = Piece(d, k + 1)[i]
    BY <2>3 DEF Piece
  <2>5. Piece(d, k + 1) \in Seq(Sent) /\ Len(Piece(d, k + 1)) = k + 1 BY <1>1
  <2>6. p = Piece(d, k + 1) BY <2>3, <2>4, <2>5, SeqEqual
  <2> QED BY <2>2, <2>6
<1> QED BY <1>1, <1>2, <1>3, <1>4

\* The whole is the piece of all its chunks.
LEMMA WholePiece == \A d \in Data : Whole(d) = Piece(d, Size[d])
BY DEF Whole, Piece

\* A piece and the rest make the whole.
LEMMA PieceAndRest ==
  ASSUME NEW x \in Item PROVE Completes(Piece(x.data, x.n - 1), x)
<1> DEFINE d == x.data
           n == x.n
           w == Whole(d)
<1>1. d \in Data /\ n \in 1..Size[d] /\ Size[d] \in Nat BY ItemFacts
<1>2. w = Piece(d, Size[d]) /\ w \in Seq(Sent) /\ Len(w) = Size[d]
  BY <1>1, WholePiece, PieceFacts
<1> HIDE DEF d, n
<1>3. /\ SubSeq(w, 1, n - 1) \in Seq(Sent) /\ Len(SubSeq(w, 1, n - 1)) = n - 1
      /\ \A i \in 1..(n - 1) : SubSeq(w, 1, n - 1)[i] = w[i]
  BY <1>1, <1>2, SubSeqProperties
<1>4. Piece(d, n - 1) = SubSeq(w, 1, n - 1)
  <2>1. Piece(d, n - 1) \in Seq(Sent) /\ Len(Piece(d, n - 1)) = n - 1
    <3>1. n - 1 \in Nat BY <1>1
    <3> QED BY <1>1, <3>1, PieceFacts
  <2>2. \A i \in 1..(n - 1) : Piece(d, n - 1)[i] = SubSeq(w, 1, n - 1)[i]
    BY <1>1, <1>3 DEF Piece, Whole
  <2> QED BY <1>3, <2>1, <2>2, SeqEqual
<1>5. SubSeq(w, 1, n - 1) \o SubSeq(w, n, Len(w)) = w
  <2>1. SubSeq(w, 1, n - 1) \o SubSeq(w, n - 1 + 1, Len(w)) = SubSeq(w, 1, Len(w))
    BY <1>1, <1>2, ConcatAdjacentSubSeq
  <2>2. SubSeq(w, 1, Len(w)) = w BY <1>2, SubSeqFull
  <2>3. n - 1 + 1 = n BY <1>1
  <2> QED BY <2>1, <2>2, <2>3
<1>6. Rest(x) = SubSeq(w, n, Len(w)) BY <1>2 DEF Rest, d, n
<1> QED BY <1>4, <1>5, <1>6 DEF Completes, d, n

-----------------------------------------------------------------------------
(* The server's states.                                                    *)

\* A sequence is its front and its last.
LEMMA FrontLast ==
  ASSUME NEW S, NEW q \in Seq(S), q # <<>> PROVE q = Append(Front(q), Last(q))
<1>1. /\ Front(q) \in Seq(S) /\ Len(Front(q)) = Len(q) - 1 /\ Len(q) \in Nat /\ Len(q) > 0
      /\ \A i \in 1..(Len(q) - 1) : Front(q)[i] = q[i]
      /\ Last(q) = q[Len(q)] /\ Last(q) \in S
  BY SeqFacts
<1>2. PICK r : r = Append(Front(q), Last(q))
  OBVIOUS
<1>3. /\ r \in Seq(S) /\ Len(r) = Len(q) /\ r[Len(q)] = Last(q)
      /\ \A i \in 1..(Len(q) - 1) : r[i] = Front(q)[i]
  BY <1>1, <1>2, AppendFacts
<1>4. \A i \in 1..Len(q) : q[i] = r[i] BY <1>1, <1>3
<1>5. q = r BY <1>3, <1>4, SeqEqual
<1> QED BY <1>2, <1>5

\* A stack of the server goes with one of the device.
LEMMA SavedFacts ==
  ASSUME NEW x \in Item
  PROVE  /\ Saved(x) \in SavedItem
         /\ x.n > 1 => Saved(x).pri = Head(Saved(x).data).data
<1>1. x.data \in Data /\ x.n - 1 \in Nat /\ x.n \in Nat BY ItemFacts
<1>2. Piece(x.data, x.n - 1) \in Seq(Sent) BY <1>1, PieceFacts
<1>3. x.n > 1 => Head(Piece(x.data, x.n - 1)) = Chunk(x.data, 1)
  <2>1. x.n > 1 => x.n - 1 > 0 BY <1>1
  <2> QED BY <1>1, <2>1, PieceFacts
<1> QED BY <1>1, <1>2, <1>3 DEF Saved, SavedItem, Chunk

\* A stack goes with a stack, item by item.
LEMMA StackedFacts ==
  ASSUME NEW s \in Seq(Item)
  PROVE  /\ Stacked(s) \in Seq(SavedItem) /\ Len(Stacked(s)) = Len(s)
         /\ \A i \in 1..Len(s) : Stacked(s)[i] = Saved(s[i])
         /\ Stacked(s) = <<>> <=> s = <<>>
         /\ (\A i \in 1..Len(s) : s[i].n > 1) =>
              \A i \in DOMAIN Stacked(s) : Stacked(s)[i].pri = Head(Stacked(s)[i].data).data
<1>1. Len(s) \in Nat /\ \A i \in 1..Len(s) : s[i] \in Item BY SeqFacts
<1>2. Stacked(s) \in [1..Len(s) -> SavedItem] BY <1>1, SavedFacts DEF Stacked
<1>3. Stacked(s) \in Seq(SavedItem) BY <1>1, <1>2, SeqDef
<1>4. Len(Stacked(s)) = Len(s) /\ DOMAIN Stacked(s) = 1..Len(s)
  BY <1>1, <1>2, <1>3, LenProperties
<1>5. \A i \in 1..Len(s) : Stacked(s)[i] = Saved(s[i]) BY DEF Stacked
<1>6. Stacked(s) = <<>> <=> s = <<>> BY <1>3, <1>4, EmptySeq
<1> QED BY <1>1, <1>3, <1>4, <1>5, <1>6, SavedFacts

\* One more is stacked, or the last goes.
LEMMA StackedAppend ==
  ASSUME NEW s \in Seq(Item), NEW x \in Item
  PROVE  Stacked(Append(s, x)) = Append(Stacked(s), Saved(x))
<1>1. PICK r, p : r = Append(s, x) /\ p = Append(Stacked(s), Saved(x))
  OBVIOUS
<1>2. /\ r \in Seq(Item) /\ Len(r) = Len(s) + 1 /\ r[Len(s) + 1] = x
      /\ \A i \in 1..Len(s) : r[i] = s[i]
  BY <1>1, AppendFacts
<1>3. /\ Stacked(s) \in Seq(SavedItem) /\ Len(Stacked(s)) = Len(s) /\ Len(s) \in Nat
      /\ \A i \in 1..Len(s) : Stacked(s)[i] = Saved(s[i])
  BY StackedFacts, SeqFacts
<1>4. /\ p \in Seq(SavedItem) /\ Len(p) = Len(s) + 1 /\ p[Len(s) + 1] = Saved(x)
      /\ \A i \in 1..Len(s) : p[i] = Saved(s[i])
  BY <1>1, <1>3, AppendFacts, SavedFacts
<1>5. /\ Stacked(r) \in Seq(SavedItem) /\ Len(Stacked(r)) = Len(s) + 1
      /\ \A i \in 1..(Len(s) + 1) : Stacked(r)[i] = Saved(r[i])
  BY <1>2, StackedFacts
<1>6. \A i \in 1..(Len(s) + 1) : Stacked(r)[i] = p[i] BY <1>2, <1>3, <1>4, <1>5
<1>7. Stacked(r) = p BY <1>4, <1>5, <1>6, SeqEqual
<1> QED BY <1>1, <1>7

\* The last of a stack goes with the last item.
LEMMA StackedLast ==
  ASSUME NEW s \in Seq(Item), s # <<>>
  PROVE  /\ Stacked(s) # <<>> /\ Last(Stacked(s)) = Saved(Last(s))
         /\ Front(Stacked(s)) = Stacked(Front(s))
<1>1. Front(s) \in Seq(Item) /\ Last(s) \in Item /\ s = Append(Front(s), Last(s))
  BY SeqFacts, FrontLast
<1>2. Stacked(s) = Append(Stacked(Front(s)), Saved(Last(s))) BY <1>1, StackedAppend
<1>3. Stacked(Front(s)) \in Seq(SavedItem) /\ Saved(Last(s)) \in SavedItem
  BY <1>1, StackedFacts, SavedFacts
<1> QED BY <1>2, <1>3, AppendFacts

\* What a server has that mirrors stacked items and one that is being sent.
LEMMA MirrorsAppend ==
  ASSUME NEW s \in Seq(Item), NEW x \in Item, NEW v
  PROVE  Mirrors(v, Append(s, x)) <=>
           /\ v.rem = Piece(x.data, x.n - 1) /\ v.pri = x.data
           /\ v.stack = Stacked(s) /\ v.cnt = 1
BY AppendFacts DEF Mirrors

\* A server that mirrors begun items and the one being sent counts right, ...
LEMMA MirrorsSound ==
  ASSUME NEW s \in Seq(Item), \A i \in 1..Len(s) : s[i].n > 1, NEW x \in Item, NEW v,
         Mirrors(v, Append(s, x))
  PROVE  Sound(v)
<1>1. /\ v.rem = Piece(x.data, x.n - 1) /\ v.pri = x.data
      /\ v.stack = Stacked(s) /\ v.cnt = 1
  BY MirrorsAppend
<1>2. x.data \in Data /\ x.n - 1 \in Nat /\ x.n \in Nat BY ItemFacts
<1>3. v.rem # <<>> => Head(v.rem) = Chunk(x.data, 1)
  <2>1. x.n - 1 = 0 \/ x.n - 1 > 0 BY <1>2
  <2> QED BY <1>1, <1>2, <2>1, PieceFacts
<1>4. \A i \in DOMAIN v.stack : v.stack[i].pri = Head(v.stack[i].data).data
  BY <1>1, StackedFacts
<1> QED BY <1>1, <1>3, <1>4 DEF Sound, Chunk

\* ... and so does one that mirrors begun items only.
LEMMA MirrorsSoundIdle ==
  ASSUME NEW s \in Seq(Item), \A i \in 1..Len(s) : s[i].n > 1, NEW v, Mirrors(v, s)
  PROVE  Sound(v)
<1>1. CASE s = <<>> BY <1>1 DEF Mirrors, Sound
<1>2. CASE s # <<>>
  <2>1. /\ Front(s) \in Seq(Item) /\ Last(s) \in Item /\ s = Append(Front(s), Last(s))
        /\ Len(Front(s)) = Len(s) - 1 /\ Len(s) \in Nat
        /\ \A i \in 1..(Len(s) - 1) : Front(s)[i] = s[i]
    BY <1>2, SeqFacts, FrontLast
  <2>2. \A i \in 1..Len(Front(s)) : Front(s)[i].n > 1 BY <2>1
  <2> QED BY <2>1, <2>2, MirrorsSound
<1> QED BY <1>1, <1>2

\* The marker, when the device has stacked what the server has.
Marked(v) == [rem |-> <<>>, stack |-> Append(v.stack, [pri |-> v.pri, data |-> v.rem]),
              cnt |-> v.cnt - 1, pri |-> v.pri]

\* A marker puts aside what the server has of the last item stacked.
LEMMA MirrorMarker ==
  ASSUME NEW s \in Seq(Item), \A i \in 1..Len(s) : s[i].n > 1, s # <<>>,
         NEW v \in ServerState, Mirrors(v, s)
  PROVE  /\ Takes(v, Marker, Marked(v)) /\ Marked(v) \in ServerState /\ Sound(Marked(v))
         /\ Marked(v).rem = <<>> /\ Marked(v).cnt = 0 /\ Marked(v).stack = Stacked(s)
<1>1. Takes(v, Marker, Marked(v)) BY DEF Takes, TakesMarker, Marked
<1>2. /\ Front(s) \in Seq(Item) /\ Last(s) \in Item /\ s = Append(Front(s), Last(s))
  BY SeqFacts, FrontLast
<1>3. /\ v.rem = Piece(Last(s).data, Last(s).n - 1) /\ v.pri = Last(s).data
      /\ v.stack = Stacked(Front(s)) /\ v.cnt = 1
  BY DEF Mirrors
<1>4. [pri |-> v.pri, data |-> v.rem] = Saved(Last(s)) BY <1>3 DEF Saved
<1>5. Append(v.stack, [pri |-> v.pri, data |-> v.rem]) = Stacked(s)
  BY <1>2, <1>3, <1>4, StackedAppend
<1>6. /\ Marked(v).rem = <<>> /\ Marked(v).cnt = 0 /\ Marked(v).stack = Stacked(s)
      /\ Marked(v).pri = v.pri
  BY <1>3, <1>5 DEF Marked
<1>7. Marked(v) \in ServerState
  <2>1. Stacked(s) \in Seq(SavedItem) /\ <<>> \in Seq(Sent) BY StackedFacts, EmptySeq
  <2> QED BY <1>3, <1>5, <2>1 DEF Marked, ServerState
<1>8. Sound(Marked(v)) BY <1>6, StackedFacts DEF Sound
<1> QED BY <1>1, <1>6, <1>7, <1>8

\* DECDATA, when the server has stacked what the device has.
Announced(v, d) == [rem |-> <<>>, stack |-> v.stack, cnt |-> v.cnt + 1, pri |-> d]

\* DECDATA makes the server await the item that is announced.
LEMMA MirrorDecdata ==
  ASSUME NEW s \in Seq(Item), NEW d \in Data, NEW v \in ServerState,
         v.rem = <<>>, v.cnt = 0, v.stack = Stacked(s)
  PROVE  /\ Takes(v, Decdata(d), Announced(v, d)) /\ Announced(v, d) \in ServerState
         /\ Mirrors(Announced(v, d), Append(s, Fresh(d)))
<1>1. Takes(v, Decdata(d), Announced(v, d)) BY DEF Takes, TakesDecdata, Announced
<1>2. Announced(v, d) \in ServerState BY EmptySeq DEF Announced, ServerState
<1>3. Piece(d, 1 - 1) = <<>> BY PieceFacts
<1>4. Fresh(d) \in Item /\ Fresh(d).data = d /\ Fresh(d).n = 1
  BY ItemFacts DEF Fresh
<1>5. Mirrors(Announced(v, d), Append(s, Fresh(d)))
  BY <1>3, <1>4, MirrorsAppend DEF Announced
<1> QED BY <1>1, <1>2, <1>5

\* A chunk that is not the last.
Further(v, d, n) == [rem |-> Piece(d, n), stack |-> v.stack, cnt |-> v.cnt, pri |-> v.pri]

\* A chunk that is not the last takes it one piece further; ...
LEMMA MirrorChunk ==
  ASSUME NEW s \in Seq(Item), NEW x \in Item, NEW v \in ServerState,
         Mirrors(v, Append(s, x)), x.n # Size[x.data]
  PROVE  LET w == Further(v, x.data, x.n)
         IN  /\ Takes(v, Chunk(x.data, x.n), w) /\ w \in ServerState
             /\ Mirrors(w, Append(s, [data |-> x.data, n |-> x.n + 1]))
<1>1. /\ v.rem = Piece(x.data, x.n - 1) /\ v.pri = x.data
      /\ v.stack = Stacked(s) /\ v.cnt = 1
  BY MirrorsAppend
<1>2. x.data \in Data /\ x.n \in 1..Size[x.data] /\ Size[x.data] \in Nat BY ItemFacts
<1>3. x.n \in 1..(Size[x.data] - 1) /\ x.n + 1 \in 1..Size[x.data] /\ x.n \in Nat
      /\ x.n + 1 - 1 = x.n
  BY <1>2
<1>4. PICK w : w = Further(v, x.data, x.n)
  OBVIOUS
<1>5. Takes(v, Chunk(x.data, x.n), w)
  BY <1>1, <1>2, <1>3, <1>4 DEF Takes, TakesChunk, Further
<1>6. w \in ServerState
  <2>1. Piece(x.data, x.n) \in Seq(Sent) BY <1>2, <1>3, PieceFacts
  <2> QED BY <1>4, <2>1 DEF Further, ServerState
<1>7. PICK y : y = [data |-> x.data, n |-> x.n + 1]
  OBVIOUS
<1>8. y \in Item /\ y.data = x.data /\ y.n - 1 = x.n BY <1>2, <1>3, <1>7, ItemFacts
<1>9. Mirrors(w, Append(s, y)) BY <1>1, <1>4, <1>8, MirrorsAppend DEF Further
<1> QED BY <1>4, <1>5, <1>6, <1>7, <1>9

\* ... with the last, what was interrupted is gone on with.
LEMMA MirrorLast ==
  ASSUME NEW s \in Seq(Item), NEW x \in Item, NEW v \in ServerState,
         Mirrors(v, Append(s, x)), x.n = Size[x.data]
  PROVE  \E w \in ServerState : Takes(v, Chunk(x.data, x.n), w) /\ Mirrors(w, s)
<1>1. /\ v.rem = Piece(x.data, x.n - 1) /\ v.pri = x.data
      /\ v.stack = Stacked(s) /\ v.cnt = 1
  BY MirrorsAppend
<1>2. x.data \in Data BY ItemFacts
<1>3. CASE s = <<>>
  <2>1. v.stack = <<>> BY <1>1, <1>3, StackedFacts
  <2>2. PICK w : w = [rem |-> <<>>, stack |-> <<>>, cnt |-> v.cnt - 1, pri |-> v.pri]
    OBVIOUS
  <2>3. Takes(v, Chunk(x.data, x.n), w)
    BY <1>1, <1>2, <2>1, <2>2 DEF Takes, TakesLast
  <2>4. w \in ServerState /\ Mirrors(w, s)
    BY <1>1, <1>3, <2>2, EmptySeq DEF ServerState, Mirrors
  <2> QED BY <2>3, <2>4
<1>4. CASE s # <<>>
  <2>1. /\ v.stack # <<>> /\ Last(v.stack) = Saved(Last(s))
        /\ Front(v.stack) = Stacked(Front(s))
    BY <1>1, <1>4, StackedLast
  <2>2. PICK w : w = [rem |-> Last(v.stack).data, stack |-> Front(v.stack),
                      cnt |-> v.cnt, pri |-> Last(v.stack).pri]
    OBVIOUS
  <2>3. Takes(v, Chunk(x.data, x.n), w)
    BY <1>1, <1>2, <2>1, <2>2 DEF Takes, TakesLast
  <2>4. /\ w.rem = Piece(Last(s).data, Last(s).n - 1) /\ w.pri = Last(s).data
        /\ w.stack = Stacked(Front(s)) /\ w.cnt = 1
    BY <1>1, <2>1, <2>2 DEF Saved
  <2>5. Mirrors(w, s) BY <1>4, <2>4 DEF Mirrors
  <2>6. w \in ServerState
    <3>1. Last(s) \in Item /\ Front(s) \in Seq(Item) BY <1>4, SeqFacts
    <3>2. Saved(Last(s)) \in SavedItem /\ Stacked(Front(s)) \in Seq(SavedItem)
      BY <3>1, SavedFacts, StackedFacts
    <3> QED BY <1>1, <2>1, <2>2, <3>2 DEF ServerState, SavedItem
  <2> QED BY <2>3, <2>5, <2>6
<1> QED BY <1>3, <1>4

\* The way gets longer with what is written, ...
LEMMA PathAppend ==
  ASSUME NEW q \in Seq(Sent), NEW vs \in Seq(ServerState), NEW v, Path(v, vs, q),
         NEW t \in Sent, NEW w \in ServerState, Takes(Last(vs), t, w), Sound(w)
  PROVE  /\ Path(v, Append(vs, w), Append(q, t)) /\ Append(vs, w) \in Seq(ServerState)
         /\ Last(Append(vs, w)) = w
<1>1. PICK us, r : us = Append(vs, w) /\ r = Append(q, t)
  OBVIOUS
<1>2. Len(q) \in Nat /\ Len(vs) = Len(q) + 1 BY SeqFacts DEF Path
<1>3. /\ us \in Seq(ServerState) /\ Len(us) = Len(q) + 2 /\ us[Len(q) + 2] = w
      /\ \A i \in 1..(Len(q) + 1) : us[i] = vs[i]
      /\ Last(us) = w
  BY <1>1, <1>2, AppendFacts
<1>4. /\ r \in Seq(Sent) /\ Len(r) = Len(q) + 1 /\ r[Len(q) + 1] = t
      /\ \A i \in 1..Len(q) : r[i] = q[i]
  BY <1>1, AppendFacts
<1>5. Last(vs) = vs[Len(q) + 1] BY <1>2 DEF Last
<1>6. ASSUME NEW i \in 1..Len(r) PROVE Takes(us[i], r[i], us[i + 1])
  <2>1. CASE i = Len(q) + 1
    <3>1. us[i] = Last(vs) /\ r[i] = t /\ us[i + 1] = w
      BY <1>2, <1>3, <1>4, <1>5, <2>1
    <3> QED BY <3>1
  <2>2. CASE i # Len(q) + 1
    <3>1. i \in 1..Len(q) BY <1>2, <1>4, <2>2
    <3>2. us[i] = vs[i] /\ r[i] = q[i] /\ us[i + 1] = vs[i + 1]
      BY <1>2, <1>3, <1>4, <3>1
    <3> QED BY <3>1, <3>2 DEF Path
  <2> QED BY <2>1, <2>2
<1>7. ASSUME NEW i \in 1..Len(us) PROVE Sound(us[i])
  <2>1. CASE i = Len(q) + 2 BY <1>3, <2>1
  <2>2. CASE i # Len(q) + 2
    <3>1. i \in 1..Len(vs) /\ us[i] = vs[i] BY <1>2, <1>3, <2>2
    <3> QED BY <3>1 DEF Path
  <2> QED BY <2>1, <2>2
<1>8. Len(us) = Len(r) + 1 /\ us[1] = v BY <1>2, <1>3, <1>4 DEF Path
<1>9. Path(v, us, r) BY <1>6, <1>7, <1>8 DEF Path
<1> QED BY <1>1, <1>3, <1>9

\* ... and shorter with what is received.
LEMMA PathTail ==
  ASSUME NEW q \in Seq(Sent), q # <<>>, NEW vs \in Seq(ServerState), NEW v, Path(v, vs, q)
  PROVE  \E w \in ServerState :
           /\ Takes(v, Head(q), w) /\ Path(w, Tail(vs), Tail(q))
           /\ Tail(vs) \in Seq(ServerState) /\ Last(Tail(vs)) = Last(vs)
<1>1. PICK us, r : us = Tail(vs) /\ r = Tail(q)
  OBVIOUS
<1>2. /\ Len(q) \in Nat /\ Len(q) > 0 /\ Len(vs) = Len(q) + 1 /\ Head(q) = q[1]
      /\ r \in Seq(Sent) /\ Len(r) = Len(q) - 1
      /\ \A i \in 1..(Len(q) - 1) : r[i] = q[i + 1]
  BY <1>1, SeqFacts DEF Path
<1>3. vs # <<>> BY <1>2, EmptySeq
<1>4. /\ us \in Seq(ServerState) /\ Len(us) = Len(vs) - 1
      /\ \A i \in 1..(Len(vs) - 1) : us[i] = vs[i + 1]
      /\ \A i \in 1..Len(vs) : vs[i] \in ServerState
  BY <1>1, <1>3, SeqFacts
<1>5. vs[2] \in ServerState /\ us[1] = vs[2] BY <1>2, <1>4
<1>6. Takes(v, Head(q), vs[2])
  <2>1. 1 \in 1..Len(q) /\ 1 + 1 = 2 BY <1>2
  <2>2. Takes(vs[1], q[1], vs[1 + 1]) BY <2>1 DEF Path
  <2> QED BY <1>2, <2>1, <2>2 DEF Path
<1>7. ASSUME NEW i \in 1..Len(r) PROVE Takes(us[i], r[i], us[i + 1])
  <2>1. i + 1 \in 1..Len(q) /\ us[i] = vs[i + 1] /\ r[i] = q[i + 1]
        /\ us[i + 1] = vs[(i + 1) + 1]
    BY <1>2, <1>4
  <2> QED BY <2>1 DEF Path
<1>8. ASSUME NEW i \in 1..Len(us) PROVE Sound(us[i])
  <2>1. i + 1 \in 1..Len(vs) /\ us[i] = vs[i + 1] BY <1>2, <1>4
  <2> QED BY <2>1 DEF Path
<1>9. Path(vs[2], us, r) BY <1>2, <1>4, <1>5, <1>7, <1>8 DEF Path
<1>10. Last(us) = Last(vs) BY <1>2, <1>4 DEF Last
<1> QED BY <1>1, <1>4, <1>5, <1>6, <1>9, <1>10

\* The server does what is foreseen of it, and what it delivers is whole.
LEMMA PushedPiece ==
  ASSUME NEW d \in Data, NEW n \in 1..Size[d], Head(wire) = Chunk(d, n),
         device_remaindata = Piece(d, n - 1)
  PROVE  /\ Pushdata = Piece(d, n) /\ Head(wire) # Marker /\ ~IsDecdata
         /\ IsData <=> n = Size[d]
<1>1. n - 1 \in Nat /\ (n - 1) + 1 = n /\ n \in Nat /\ n > 0 /\ Size[d] \in Nat
  BY ItemFacts
<1>2. Pushdata = Piece(d, n)
  <2>1. \A k \in Nat : Append(Piece(d, k), Chunk(d, k + 1)) = Piece(d, k + 1)
    BY PieceFacts
  <2>2. Append(Piece(d, n - 1), Chunk(d, (n - 1) + 1)) = Piece(d, (n - 1) + 1)
    BY <1>1, <2>1
  <2> QED BY <1>1, <2>2 DEF Pushdata
<1>3. Head(Pushdata) = Chunk(d, 1) /\ Len(Pushdata) = n BY <1>1, <1>2, PieceFacts
<1>4. Head(Pushdata).kind = "DATA" /\ Head(Pushdata).n = 1 /\ Head(Pushdata).data = d
  BY <1>3 DEF Chunk
<1>5. Head(wire) # Marker BY DEF Chunk, Marker
<1> QED BY <1>2, <1>3, <1>4, <1>5 DEF IsDecdata, IsData

\* The next chunk of the datum the server has a piece of.
ReceivesChunk(d, n) ==
  Pushdata = Piece(d, n) /\ device_remaindata = Piece(d, n - 1) /\ devid_pri_map = d
Foreseen ==
  \/ ServerMarker \/ ServerDecdata
  \/ \E d \in Data : \E n \in 1..Size[d] :
       /\ ReceivesChunk(d, n)
       /\ ServerFragment \/ (ServerData /\ n = Size[d])

\* It goes to the state foreseen.
LEMMA ServerTakes ==
  ASSUME Types, Server, ~ServerRead, NEW w \in ServerState, Takes(Now, Head(wire), w)
  PROVE  Now' = w /\ Foreseen
<1> USE DEF serverVars, Now
<1>1. /\ ServerMarker => Head(wire) = Marker
      /\ ServerDecdata \/ ServerData \/ ServerFragment => Head(wire) # Marker
  <2>1. ASSUME left > 0 PROVE Head(wire) # Marker
    <3>1. wire \in Seq(Sent) /\ Len(wire) \in Nat /\ left <= Len(wire) /\ left \in Nat
      BY SeqFacts DEF Types, ServerTypes, ReadTypes
    <3>2. wire # <<>> BY <2>1, <3>1, EmptySeq
    <3>3. Head(wire) = wire[1] /\ 1 \in 1..left BY <2>1, <3>1, <3>2, SeqFacts
    <3> QED BY <3>3 DEF Types, ReadTypes
  <2> QED BY <2>1 DEF ServerMarker, ServerDecdata, ServerData, ServerFragment
<1>2. CASE TakesMarker(Now, Head(wire), w)
  <2>1. ServerMarker BY <1>1, <1>2 DEF TakesMarker, Server
  <2> QED BY <1>2, <2>1 DEF TakesMarker, ServerMarker, Foreseen
<1>3. CASE TakesDecdata(Now, Head(wire), w)
  <2>1. PICK d \in Data :
          /\ Head(wire) = Decdata(d) /\ device_remaindata = <<>>
          /\ w = [rem |-> <<>>, stack |-> remainstack, cnt |-> asyncrecvCountor + 1,
                  pri |-> d]
    BY <1>3 DEF TakesDecdata
  <2>2. Decdata(d) # Marker /\ Decdata(d).kind = "DECDATA" /\ Decdata(d).data = d
        /\ Decdata(d) \in Sent
    BY TokenFacts DEF Decdata, Marker
  <2>3. Head(Pushdata) = Decdata(d)
    <3>1. <<>> \in Seq(Sent) /\ Len(<<>>) = 0 BY EmptySeq
    <3>2. Append(<<>>, Decdata(d)) = <<Decdata(d)>> BY <2>2, <3>1, AppendProperties
    <3> QED BY <2>1, <2>2, <3>2 DEF Pushdata
  <2>4. IsDecdata /\ ~IsData BY <2>2, <2>3 DEF IsDecdata, IsData
  <2>5. ServerDecdata
    BY <1>1, <2>1, <2>2, <2>4 DEF Server, ServerData, ServerFragment
  <2> QED BY <2>1, <2>2, <2>3, <2>5 DEF ServerDecdata, ServerReceives, Foreseen
<1>4. CASE TakesChunk(Now, Head(wire), w)
  <2>0. PICK d \in Data : \E n \in 1..(Size[d] - 1) :
          /\ Head(wire) = Chunk(d, n) /\ device_remaindata = Piece(d, n - 1)
          /\ devid_pri_map = d
          /\ w = [rem |-> Piece(d, n), stack |-> remainstack, cnt |-> asyncrecvCountor,
                  pri |-> devid_pri_map]
    BY <1>4 DEF TakesChunk
  <2>1. PICK n \in 1..(Size[d] - 1) :
          /\ Head(wire) = Chunk(d, n) /\ device_remaindata = Piece(d, n - 1)
          /\ devid_pri_map = d
          /\ w = [rem |-> Piece(d, n), stack |-> remainstack, cnt |-> asyncrecvCountor,
                  pri |-> devid_pri_map]
    BY <2>0
  <2>2. n \in 1..Size[d] /\ n # Size[d] BY ItemFacts
  <2>3. Pushdata = Piece(d, n) /\ Head(wire) # Marker /\ ~IsDecdata /\ ~IsData
    BY <2>1, <2>2, PushedPiece
  <2>4. ServerFragment
    BY <1>1, <2>3 DEF Server, ServerData, ServerDecdata
  <2>5. Foreseen BY <2>1, <2>2, <2>3, <2>4 DEF Foreseen, ReceivesChunk
  <2> QED BY <2>1, <2>3, <2>4, <2>5 DEF ServerFragment, ServerReceives
<1>5. CASE TakesLast(Now, Head(wire), w)
  <2>1. PICK d \in Data :
          /\ Head(wire) = Chunk(d, Size[d]) /\ device_remaindata = Piece(d, Size[d] - 1)
          /\ devid_pri_map = d
          /\ \/ /\ remainstack = <<>>
                /\ w = [rem |-> <<>>, stack |-> <<>>, cnt |-> asyncrecvCountor - 1,
                        pri |-> devid_pri_map]
             \/ /\ remainstack # <<>>
                /\ w = [rem |-> Last(remainstack).data, stack |-> Front(remainstack),
                        cnt |-> asyncrecvCountor, pri |-> Last(remainstack).pri]
    BY <1>5 DEF TakesLast
  <2>2. Size[d] \in 1..Size[d] BY ItemFacts
  <2>3. /\ Pushdata = Piece(d, Size[d]) /\ Head(wire) # Marker /\ ~IsDecdata /\ IsData
    BY <2>1, <2>2, PushedPiece
  <2>4. ServerData
    BY <1>1, <2>3 DEF Server, ServerFragment, ServerDecdata
  <2>5. Foreseen BY <2>1, <2>2, <2>3, <2>4 DEF Foreseen, ReceivesChunk
  <2> QED BY <2>1, <2>4, <2>5
          DEF ServerData, ServerReceives, ResumedPri, Resumdata, Recounted
<1> QED BY <1>2, <1>3, <1>4, <1>5 DEF Takes

\* What it delivers is a whole datum.
LEMMA ServerDelivers ==
  ASSUME Types, Foreseen PROVE delivered' \subseteq delivered \cup {Whole(d) : d \in Data}
<1>1. CASE UNCHANGED delivered BY <1>1
<1>2. ASSUME NEW d \in Data, ReceivesChunk(d, Size[d]), ServerData
      PROVE  delivered' \subseteq delivered \cup {Whole(e) : e \in Data}
  <2>1. Pushdata = Whole(d) BY <1>2, WholePiece DEF ReceivesChunk
  <2> QED BY <1>2, <2>1 DEF ServerData
<1>3. UNCHANGED delivered \/ \E d \in Data : ReceivesChunk(d, Size[d]) /\ ServerData
  BY DEF Foreseen, ServerMarker, ServerDecdata, ServerFragment
<1> QED BY <1>1, <1>2, <1>3

-----------------------------------------------------------------------------
(* What it counts.                                                         *)

\* What has been counted stays counted.
LEMMA CountedStays ==
  ASSUME NEW b \in [Data -> Nat], NEW c \in [Data -> Nat], \A d \in Data : c[d] >= b[d],
         NEW piece \in Seq(Sent), NEW k \in Int, NEW j \in Int, j >= k,
         Counted(b, piece, k)
  PROVE  Counted(c, piece, j)
<1>1. CASE piece = <<>> BY <1>1 DEF Counted
<1>2. CASE piece # <<>>
  <2>1. PICK d : d = Head(piece).data
    OBVIOUS
  <2>2. d \in Data /\ b[d] + k >= Len(piece) BY <1>2, <2>1 DEF Counted
  <2>3. b[d] \in Nat /\ c[d] \in Nat /\ c[d] >= b[d] /\ Len(piece) \in Nat
    BY <2>2, SeqFacts
  <2>4. c[d] + j >= Len(piece) BY <2>2, <2>3
  <2> QED BY <2>1, <2>2, <2>4 DEF Counted
<1> QED BY <1>1, <1>2

\* What mesureLength adds, in a round and in the last one of a read.
LEMMA MesuredMore ==
  ASSUME Types, NEW b \in [Data -> Nat], NEW p, NEW x
  PROVE  /\ mesureLength(b, p) \in [Data -> Nat]
         /\ \A d \in Data : mesureLength(b, p)[d] >= b[d]
         /\ p \in Data => mesureLength(b, p)[p] = b[p] + datalength
         /\ LastRound(b, p, x) \in [Data -> Nat]
         /\ \A d \in Data : LastRound(b, p, x)[d] >= b[d]
         /\ left = 1 /\ x # <<>> /\ p \in Data =>
              LastRound(b, p, x)[p] = b[p] + datalength
<1>1. datalength \in Nat BY TransferAssumption DEF Types, ReadTypes
<1>2. \A d \in Data : b[d] \in Nat /\ b[d] + datalength \in Nat /\ b[d] + datalength >= b[d]
  BY <1>1
<1>3. /\ mesureLength(b, p) \in [Data -> Nat]
      /\ \A d \in Data : mesureLength(b, p)[d] >= b[d]
      /\ p \in Data => mesureLength(b, p)[p] = b[p] + datalength
  <2>1. \A d \in Data : mesureLength(b, p)[d] = IF d = p THEN b[d] + datalength ELSE b[d]
    BY DEF mesureLength
  <2>2. mesureLength(b, p) = [d \in Data |-> mesureLength(b, p)[d]] BY DEF mesureLength
  <2>3. mesureLength(b, p) \in [Data -> Nat] BY <1>2, <2>1, <2>2
  <2> QED BY <1>2, <2>1, <2>3
<1> QED BY <1>2, <1>3 DEF LastRound

\* A chunk makes the piece one token longer, and one more of the read handled.
LEMMA ChunkCounted ==
  ASSUME Types, CountInv, left > 0, NEW d \in Data, NEW n \in 1..Size[d],
         ReceivesChunk(d, n)
  PROVE  /\ devid_byte_map[d] + (datalength - left) + 1 >= n
         /\ devid_byte_map[d] \in Nat /\ n \in Nat
<1>1. /\ n \in Nat /\ n > 0 /\ n - 1 \in Nat /\ devid_byte_map[d] \in Nat
      /\ datalength - left \in Nat
  BY ItemFacts, TransferAssumption DEF Types, ReadTypes
<1>2. CASE n = 1 BY <1>1, <1>2
<1>3. CASE n # 1
  <2>1. n - 1 > 0 BY <1>1, <1>3
  <2>2. /\ device_remaindata # <<>> /\ Head(device_remaindata) = Chunk(d, 1)
        /\ Len(device_remaindata) = n - 1
    BY <1>1, <2>1, PieceFacts DEF ReceivesChunk
  <2>3. Head(device_remaindata).data = d BY <2>2 DEF Chunk
  <2>4. devid_byte_map[d] + (datalength - left) >= n - 1
    BY <2>2, <2>3 DEF CountInv, Counted
  <2> QED BY <1>1, <2>4
<1> QED BY <1>2, <1>3

\* It goes on having counted what it has.
LEMMA ServerCounts == ASSUME Types, CountInv, Foreseen PROVE CountInv'
<1> DEFINE bytes == devid_byte_map
<1>1. /\ bytes \in [Data -> Nat]
      /\ remainstack \in Seq(SavedItem) /\ delivered \subseteq Seq(Sent)
      /\ Len(remainstack) \in Nat
      /\ \A i \in 1..Len(remainstack) : remainstack[i].data \in Seq(Sent)
      /\ datalength \in Nat /\ left \in 0..datalength /\ (left = 0 => datalength = 0)
  <2>1. remainstack \in Seq(SavedItem) /\ delivered \subseteq Seq(Sent)
    BY DEF Types, ServerTypes
  <2>2. /\ Len(remainstack) \in Nat
        /\ \A i \in 1..Len(remainstack) : remainstack[i] \in SavedItem
    BY <2>1, SeqFacts
  <2>3. \A i \in 1..Len(remainstack) : remainstack[i].data \in Seq(Sent)
    <3>1. \A y \in SavedItem : y.data \in Seq(Sent) BY DEF SavedItem
    <3> QED BY <2>2, <3>1
  <2>4. bytes \in [Data -> Nat] BY DEF Types, ReadTypes
  <2>5. datalength \in Nat /\ left \in 0..datalength /\ (left = 0 => datalength = 0)
    BY TransferAssumption DEF Types, ReadTypes
  <2> QED BY <2>1, <2>2, <2>3, <2>4, <2>5
<1>2. /\ \A piece \in delivered : Counted(bytes, piece, 0)
      /\ \A i \in 1..Len(remainstack) : Counted(bytes, remainstack[i].data, 0)
      /\ Counted(bytes, device_remaindata, datalength - left)
  BY DEF CountInv
\* What has been counted stays so.
<1>3. ASSUME bytes' \in [Data -> Nat], \A e \in Data : bytes'[e] >= bytes[e]
      PROVE  /\ \A piece \in delivered : Counted(bytes', piece, 0)
             /\ \A i \in 1..Len(remainstack) : \A j \in Nat :
                  Counted(bytes', remainstack[i].data, j)
  <2>1. 0 \in Int /\ \A j \in Nat : j \in Int /\ j >= 0
    OBVIOUS
  <2>2. ASSUME NEW piece \in Seq(Sent), Counted(bytes, piece, 0), NEW j \in Nat
        PROVE  Counted(bytes', piece, j)
    <3>1. PICK c \in [Data -> Nat] : c = bytes' BY <1>3
    <3>2. PICK b \in [Data -> Nat] : b = bytes BY <1>1
    <3>3. \A e \in Data : c[e] >= b[e] BY <1>3, <3>1, <3>2
    <3>4. Counted(b, piece, 0) BY <2>2, <3>2
    <3>5. 0 \in Int /\ j \in Int /\ j >= 0 BY <2>2
    <3> HIDE DEF bytes
    <3>6. Counted(c, piece, j) BY <2>2, <3>3, <3>4, <3>5, CountedStays
    <3> QED BY <3>1, <3>6
  <2> QED BY <1>1, <1>2, <2>1, <2>2
<1>4. CASE ServerMarker
  <2>1. /\ left = 0 /\ UNCHANGED <<bytes, delivered, datalength, left>>
        /\ device_remaindata' = <<>>
        /\ remainstack' = Append(remainstack, [pri |-> devid_pri_map,
                                               data |-> device_remaindata])
    BY <1>4 DEF ServerMarker, readVars
  <2>2. PICK x : x = [pri |-> devid_pri_map, data |-> device_remaindata]
    OBVIOUS
  <2>3. x \in SavedItem BY <2>2 DEF SavedItem, Types, ServerTypes
  <2>4. /\ Len(remainstack') = Len(remainstack) + 1
        /\ remainstack'[Len(remainstack) + 1] = x
        /\ \A i \in 1..Len(remainstack) : remainstack'[i] = remainstack[i]
    BY <1>1, <2>1, <2>2, <2>3, AppendFacts
  <2>5. Counted(bytes, x.data, 0)
    <3>1. datalength - left = 0 BY <1>1, <2>1
    <3> QED BY <1>2, <2>2, <3>1
  <2>6. \A i \in 1..Len(remainstack') : Counted(bytes, remainstack'[i].data, 0)
    <3> TAKE i \in 1..Len(remainstack')
    <3>1. CASE i = Len(remainstack) + 1 BY <2>4, <2>5, <3>1
    <3>2. CASE i # Len(remainstack) + 1
      <4>1. i \in 1..Len(remainstack) BY <1>1, <2>4, <3>2
      <4> QED BY <1>2, <2>4, <4>1
    <3> QED BY <3>1, <3>2
  <2>7. Counted(bytes, <<>>, datalength - left) BY DEF Counted
  <2> QED BY <1>2, <2>1, <2>6, <2>7 DEF CountInv
<1>5. CASE ServerDecdata
  <2>1. UNCHANGED <<bytes, delivered, remainstack>> /\ device_remaindata' = <<>>
    BY <1>5 DEF ServerDecdata, ServerReceives
  <2>2. Counted(bytes', device_remaindata', datalength' - left') BY <2>1 DEF Counted
  <2> QED BY <1>2, <2>1, <2>2 DEF CountInv
<1>6. ASSUME NEW d \in Data, NEW n \in 1..Size[d], ReceivesChunk(d, n),
             left > 0, left' = left - 1,
             datalength' = IF left = 1 THEN 0 ELSE datalength
      PROVE  /\ bytes[d] + datalength >= n
             /\ left # 1 => bytes[d] + (datalength' - left') >= n
             /\ left = 1 => datalength' - left' = 0
             /\ datalength' - left' \in Nat
             /\ Piece(d, n) # <<>> /\ Head(Piece(d, n)).data = d /\ Len(Piece(d, n)) = n
             /\ Piece(d, n) \in Seq(Sent) /\ bytes[d] \in Nat /\ n \in Nat
  <2>1. /\ bytes[d] + (datalength - left) + 1 >= n /\ bytes[d] \in Nat /\ n \in Nat
    BY <1>6, ChunkCounted
  <2>2. n > 0 BY ItemFacts
  <2>3. /\ Piece(d, n) # <<>> /\ Head(Piece(d, n)) = Chunk(d, 1) /\ Len(Piece(d, n)) = n
        /\ Piece(d, n) \in Seq(Sent)
    BY <2>1, <2>2, PieceFacts
  <2>4. Head(Piece(d, n)).data = d BY <2>3 DEF Chunk
  <2> QED BY <1>1, <1>6, <2>1, <2>3, <2>4
<1>7. ASSUME NEW d \in Data, NEW n \in 1..Size[d], ReceivesChunk(d, n), ServerFragment
      PROVE  CountInv'
  <2>1. /\ left > 0 /\ left' = left - 1
        /\ datalength' = IF left = 1 THEN 0 ELSE datalength
        /\ device_remaindata' = Piece(d, n) /\ UNCHANGED <<delivered, remainstack>>
        /\ bytes' = LastRound(bytes, d, Piece(d, n))
    BY <1>7 DEF ServerFragment, ServerReceives, ReceivesChunk
  <2>2. /\ bytes[d] + datalength >= n
        /\ left # 1 => bytes[d] + (datalength' - left') >= n
        /\ left = 1 => datalength' - left' = 0
        /\ datalength' - left' \in Nat
        /\ Piece(d, n) # <<>> /\ Head(Piece(d, n)).data = d /\ Len(Piece(d, n)) = n
        /\ bytes[d] \in Nat /\ n \in Nat
    BY <1>6, <1>7, <2>1
  <2>3. /\ bytes' \in [Data -> Nat] /\ \A e \in Data : bytes'[e] >= bytes[e]
        /\ left = 1 => bytes'[d] = bytes[d] + datalength
    <3>1. PICK b \in [Data -> Nat] : b = bytes BY <1>1
    <3>2. PICK r : r = Piece(d, n)
      OBVIOUS
    <3>3. /\ LastRound(b, d, r) \in [Data -> Nat]
          /\ \A e \in Data : LastRound(b, d, r)[e] >= b[e]
          /\ left = 1 /\ r # <<>> /\ d \in Data =>
               LastRound(b, d, r)[d] = b[d] + datalength
      BY MesuredMore
    <3>4. bytes' = LastRound(b, d, r) /\ r # <<>> BY <2>1, <2>2, <3>1, <3>2
    <3> QED BY <3>1, <3>3, <3>4
  <2>4. bytes'[d] + (datalength' - left') >= n
    <3>1. bytes'[d] \in Nat /\ bytes'[d] >= bytes[d] BY <2>3
    <3> QED BY <1>1, <2>2, <2>3, <3>1
  <2>5. Counted(bytes', device_remaindata', datalength' - left')
    BY <2>1, <2>2, <2>4 DEF Counted
  <2>6. /\ \A piece \in delivered : Counted(bytes', piece, 0)
        /\ \A i \in 1..Len(remainstack) : Counted(bytes', remainstack[i].data, 0)
    BY <1>3, <2>3
  <2> QED BY <2>1, <2>5, <2>6 DEF CountInv
<1>8. ASSUME NEW d \in Data, NEW n \in 1..Size[d], ReceivesChunk(d, n), ServerData
      PROVE  CountInv'
  <2>1. /\ left > 0 /\ left' = left - 1
        /\ datalength' = IF left = 1 THEN 0 ELSE datalength
        /\ device_remaindata' = Resumdata /\ delivered' = delivered \cup {Piece(d, n)}
        /\ remainstack' = IF remainstack = <<>> THEN <<>> ELSE Front(remainstack)
        /\ bytes' = LastRound(mesureLength(bytes, d), ResumedPri, Resumdata)
    BY <1>8 DEF ServerData, ServerReceives, ReceivesChunk
  <2>2. /\ bytes[d] + datalength >= n /\ datalength' - left' \in Nat
        /\ Head(Piece(d, n)).data = d /\ Len(Piece(d, n)) = n /\ n \in Nat
        /\ bytes[d] \in Nat
    BY <1>6, <1>8, <2>1
  <2>3. PICK b \in [Data -> Nat] :
          /\ b = mesureLength(bytes, d) /\ b[d] = bytes[d] + datalength
          /\ \A e \in Data : b[e] >= bytes[e]
    <3>1. PICK c \in [Data -> Nat] : c = bytes BY <1>1
    <3>2. /\ mesureLength(c, d) \in [Data -> Nat]
          /\ \A e \in Data : mesureLength(c, d)[e] >= c[e]
          /\ mesureLength(c, d)[d] = c[d] + datalength
      BY MesuredMore
    <3> QED BY <3>1, <3>2
  <2>4. bytes' \in [Data -> Nat] /\ \A e \in Data : bytes'[e] >= b[e]
    <3>1. PICK p, r : p = ResumedPri /\ r = Resumdata
      OBVIOUS
    <3>2. /\ LastRound(b, p, r) \in [Data -> Nat]
          /\ \A e \in Data : LastRound(b, p, r)[e] >= b[e]
      BY MesuredMore
    <3>3. bytes' = LastRound(b, p, r) BY <2>1, <2>3, <3>1
    <3> QED BY <3>2, <3>3
  <2>5. \A e \in Data : bytes'[e] >= bytes[e]
    <3> TAKE e \in Data
    <3>1. bytes'[e] \in Nat /\ b[e] \in Nat /\ bytes[e] \in Nat BY <1>1, <2>4
    <3> QED BY <2>3, <2>4, <3>1
  <2>6. Counted(bytes', Piece(d, n), 0)
    <3>1. bytes'[d] \in Nat /\ bytes'[d] >= bytes[d] + datalength BY <2>3, <2>4
    <3>2. bytes'[d] + 0 >= n BY <1>1, <2>2, <3>1
    <3> QED BY <2>2, <3>2 DEF Counted
  <2>7. /\ \A piece \in delivered : Counted(bytes', piece, 0)
        /\ \A i \in 1..Len(remainstack) : \A j \in Nat :
             Counted(bytes', remainstack[i].data, j)
    BY <1>3, <2>4, <2>5
  <2>8. \A i \in 1..Len(remainstack') : Counted(bytes', remainstack'[i].data, 0)
    <3>1. CASE remainstack = <<>>
      <4>1. Len(remainstack') = 0 BY <2>1, <3>1, EmptySeq
      <4> QED BY <4>1
    <3>2. CASE remainstack # <<>>
      <4>1. /\ Len(remainstack') = Len(remainstack) - 1
            /\ \A i \in 1..(Len(remainstack) - 1) : remainstack'[i] = remainstack[i]
        BY <1>1, <2>1, <3>2, SeqFacts
      <4>2. \A i \in 1..Len(remainstack') : i \in 1..Len(remainstack) BY <1>1, <4>1
      <4>3. 0 \in Nat
        OBVIOUS
      <4> QED BY <2>7, <4>1, <4>2, <4>3
    <3> QED BY <3>1, <3>2
  <2>9. Counted(bytes', device_remaindata', datalength' - left')
    <3>1. CASE remainstack = <<>> BY <2>1, <3>1 DEF Resumdata, Counted
    <3>2. CASE remainstack # <<>>
      <4>1. Last(remainstack) = remainstack[Len(remainstack)]
            /\ Len(remainstack) \in 1..Len(remainstack)
        BY <1>1, <3>2, SeqFacts
      <4> QED BY <2>1, <2>2, <2>7, <3>2, <4>1 DEF Resumdata
    <3> QED BY <3>1, <3>2
  <2> QED BY <2>1, <2>6, <2>7, <2>8, <2>9 DEF CountInv
<1> QED BY <1>4, <1>5, <1>7, <1>8 DEF Foreseen

-----------------------------------------------------------------------------
(* The nested data.                                                        *)

\* First those on sendstack, then those in sendqueue, the last queued first.
LEMMA NestFacts ==
  ASSUME NEW s \in Seq(Item), NEW q \in Seq(Item)
  PROVE  /\ Nest(s, q) \in Seq(Item) /\ Len(Nest(s, q)) = Len(s) + Len(q)
         /\ \A i \in 1..Len(s) : Nest(s, q)[i] = s[i]
         /\ \A i \in 1..Len(q) : Nest(s, q)[Len(s) + Len(q) + 1 - i] = q[i]
<1> DEFINE len == Len(s) + Len(q)
<1>1. /\ Len(s) \in Nat /\ Len(q) \in Nat /\ len \in Nat
      /\ \A i \in 1..Len(s) : s[i] \in Item
      /\ \A i \in 1..Len(q) : q[i] \in Item
  BY SeqFacts
<1>2. \A i \in 1..len : i > Len(s) => len + 1 - i \in 1..Len(q)
  BY <1>1
<1>3. ASSUME NEW i \in 1..len PROVE Nest(s, q)[i] \in Item
  <2>1. CASE i <= Len(s)
    <3>1. i \in 1..Len(s) BY <1>1, <2>1
    <3> QED BY <1>1, <2>1, <3>1 DEF Nest
  <2>2. CASE ~(i <= Len(s))
    <3>1. len + 1 - i \in 1..Len(q) BY <1>1, <1>2, <2>2
    <3>2. Nest(s, q)[i] = q[len + 1 - i] BY <2>2 DEF Nest
    <3> QED BY <1>1, <3>1, <3>2
  <2> QED BY <2>1, <2>2
<1>4. DOMAIN Nest(s, q) = 1..len /\ Nest(s, q) = [i \in 1..len |-> Nest(s, q)[i]]
  BY DEF Nest
<1>5. Nest(s, q) \in [1..len -> Item] BY <1>3, <1>4
<1>6. Nest(s, q) \in Seq(Item) /\ Len(Nest(s, q)) = len
  <2>1. Nest(s, q) \in Seq(Item) BY <1>1, <1>5, SeqDef
  <2> QED BY <1>1, <1>4, <2>1, LenProperties
<1>7. ASSUME NEW i \in 1..Len(s) PROVE Nest(s, q)[i] = s[i]
  <2>1. i \in 1..len /\ i <= Len(s) BY <1>1
  <2> QED BY <2>1 DEF Nest
<1>8. ASSUME NEW i \in 1..Len(q) PROVE Nest(s, q)[len + 1 - i] = q[i]
  <2>1. PICK j : j = len + 1 - i
    OBVIOUS
  <2>2. j \in 1..len /\ ~(j <= Len(s)) /\ len + 1 - j = i BY <1>1, <2>1
  <2>3. Nest(s, q)[j] = q[len + 1 - j] BY <2>2 DEF Nest
  <2> QED BY <2>1, <2>2, <2>3
<1> QED BY <1>6, <1>7, <1>8

\* Nothing is queued; ...
LEMMA NestEmpty == ASSUME NEW s \in Seq(Item) PROVE Nest(s, <<>>) = s
<1>1. PICK q : q = <<>>
  OBVIOUS
<1>2. q \in Seq(Item) /\ Len(q) = 0 /\ Len(s) \in Nat BY <1>1, EmptySeq, SeqFacts
<1>3. /\ Nest(s, q) \in Seq(Item) /\ Len(Nest(s, q)) = Len(s) + Len(q)
      /\ \A i \in 1..Len(s) : Nest(s, q)[i] = s[i]
  BY <1>2, NestFacts
<1>4. Len(Nest(s, q)) = Len(s) BY <1>2, <1>3
<1>5. Nest(s, q) = s BY <1>3, <1>4, SeqEqual
<1> QED BY <1>1, <1>5

\* ... the last of sendstack is queued; ...
LEMMA NestAppend ==
  ASSUME NEW s \in Seq(Item), NEW q \in Seq(Item), NEW x \in Item
  PROVE  Nest(s, Append(q, x)) = Nest(Append(s, x), q)
<1>1. PICK p, r : p = Append(q, x) /\ r = Append(s, x)
  OBVIOUS
<1>2. /\ p \in Seq(Item) /\ Len(p) = Len(q) + 1 /\ p[Len(q) + 1] = x
      /\ \A i \in 1..Len(q) : p[i] = q[i]
      /\ r \in Seq(Item) /\ Len(r) = Len(s) + 1 /\ r[Len(s) + 1] = x
      /\ \A i \in 1..Len(s) : r[i] = s[i]
      /\ Len(q) \in Nat /\ Len(s) \in Nat
  BY <1>1, AppendFacts, SeqFacts
<1>3. PICK a, b : a = Nest(s, p) /\ b = Nest(r, q)
  OBVIOUS
<1>4. /\ a \in Seq(Item) /\ Len(a) = Len(s) + Len(p)
      /\ \A i \in 1..Len(s) : a[i] = s[i]
      /\ \A i \in 1..Len(p) : a[Len(s) + Len(p) + 1 - i] = p[i]
  BY <1>2, <1>3, NestFacts
<1>5. /\ b \in Seq(Item) /\ Len(b) = Len(r) + Len(q)
      /\ \A i \in 1..Len(r) : b[i] = r[i]
      /\ \A i \in 1..Len(q) : b[Len(r) + Len(q) + 1 - i] = q[i]
  BY <1>2, <1>3, NestFacts
<1>6. Len(a) = Len(b) BY <1>2, <1>4, <1>5
<1>7. ASSUME NEW i \in 1..Len(a) PROVE a[i] = b[i]
  <2>1. CASE i <= Len(s)
    <3>1. i \in 1..Len(s) /\ i \in 1..Len(r) BY <1>2, <2>1
    <3> QED BY <1>2, <1>4, <1>5, <3>1
  <2>2. CASE i = Len(s) + 1
    <3>1. Len(q) + 1 \in 1..Len(p) /\ Len(s) + Len(p) + 1 - (Len(q) + 1) = i
      BY <1>2, <2>2
    <3>2. a[i] = p[Len(q) + 1] BY <1>4, <3>1
    <3>3. i \in 1..Len(r) BY <1>2, <2>2
    <3>4. b[i] = r[i] BY <1>5, <3>3
    <3> QED BY <1>2, <2>2, <3>2, <3>4
  <2>3. CASE i > Len(s) + 1
    <3>1. PICK j : j = Len(s) + Len(q) + 2 - i
      OBVIOUS
    <3>2. /\ j \in 1..Len(q) /\ j \in 1..Len(p)
          /\ Len(s) + Len(p) + 1 - j = i /\ Len(r) + Len(q) + 1 - j = i
      BY <1>2, <1>4, <2>3, <3>1
    <3>3. a[i] = p[j] BY <1>4, <3>2
    <3>4. b[i] = q[j] BY <1>5, <3>2
    <3> QED BY <1>2, <3>2, <3>3, <3>4
  <2>4. i \in Nat BY <1>2, <1>4
  <2> QED BY <1>2, <2>1, <2>2, <2>3, <2>4
<1>8. a = b BY <1>4, <1>5, <1>6, <1>7, SeqEqual
<1> QED BY <1>1, <1>3, <1>8

\* ... and the head of sendqueue is the last of them.
LEMMA NestHead ==
  ASSUME NEW s \in Seq(Item), NEW q \in Seq(Item), q # <<>>
  PROVE  Nest(s, q) = Append(Nest(s, Tail(q)), Head(q))
<1>1. PICK t, x : t = Tail(q) /\ x = Head(q)
  OBVIOUS
<1>2. /\ t \in Seq(Item) /\ x \in Item /\ x = q[1] /\ Len(q) \in Nat /\ Len(q) > 0
      /\ Len(t) = Len(q) - 1 /\ \A i \in 1..(Len(q) - 1) : t[i] = q[i + 1]
      /\ Len(s) \in Nat
  BY <1>1, SeqFacts
<1>3. PICK a, m : a = Nest(s, q) /\ m = Nest(s, t)
  OBVIOUS
<1>4. /\ a \in Seq(Item) /\ Len(a) = Len(s) + Len(q)
      /\ \A i \in 1..Len(s) : a[i] = s[i]
      /\ \A i \in 1..Len(q) : a[Len(s) + Len(q) + 1 - i] = q[i]
  BY <1>3, NestFacts
<1>5. /\ m \in Seq(Item) /\ Len(m) = Len(s) + Len(t)
      /\ \A i \in 1..Len(s) : m[i] = s[i]
      /\ \A i \in 1..Len(t) : m[Len(s) + Len(t) + 1 - i] = t[i]
  BY <1>2, <1>3, NestFacts
<1>6. PICK b : b = Append(m, x)
  OBVIOUS
<1>7. /\ b \in Seq(Item) /\ Len(b) = Len(m) + 1 /\ b[Len(m) + 1] = x
      /\ \A i \in 1..Len(m) : b[i] = m[i]
  BY <1>2, <1>5, <1>6, AppendFacts
<1>8. Len(a) = Len(b) /\ Len(m) = Len(s) + Len(q) - 1 /\ Len(a) = Len(m) + 1
  BY <1>2, <1>4, <1>5, <1>7
<1>9. ASSUME NEW i \in 1..Len(a) PROVE a[i] = b[i]
  <2>1. CASE i <= Len(s)
    <3>1. i \in 1..Len(s) /\ i \in 1..Len(m) BY <1>2, <1>8, <2>1
    <3> QED BY <1>4, <1>5, <1>7, <3>1
  <2>2. CASE i = Len(a)
    <3>1. 1 \in 1..Len(q) /\ Len(s) + Len(q) + 1 - 1 = i BY <1>2, <1>4, <2>2
    <3>2. a[i] = q[1] BY <1>4, <3>1
    <3> QED BY <1>2, <1>7, <1>8, <2>2, <3>2
  <2>3. CASE i > Len(s) /\ i < Len(a)
    <3>1. PICK j : j = Len(s) + Len(q) - i
      OBVIOUS
    <3>2. /\ j \in 1..(Len(q) - 1) /\ j \in 1..Len(t) /\ j + 1 \in 1..Len(q)
          /\ Len(s) + Len(q) + 1 - (j + 1) = i /\ Len(s) + Len(t) + 1 - j = i
          /\ i \in 1..Len(m)
      BY <1>2, <1>4, <1>8, <2>3, <3>1
    <3>3. a[i] = q[j + 1] BY <1>4, <3>2
    <3>4. b[i] = t[j] BY <1>5, <1>7, <3>2
    <3> QED BY <1>2, <3>2, <3>3, <3>4
  <2>4. i \in Nat /\ i <= Len(a) /\ Len(a) \in Nat BY <1>2, <1>4
  <2> QED BY <1>2, <2>1, <2>2, <2>3, <2>4
<1>10. a = b BY <1>4, <1>7, <1>8, <1>9, SeqEqual
<1> QED BY <1>1, <1>3, <1>6, <1>10

\* When all are begun, all nested ones are.
LEMMA NestBegun ==
  ASSUME NEW s \in Seq(Item), NEW q \in Seq(Item),
         \A i \in 1..Len(s) : s[i].n > 1, \A i \in 1..Len(q) : q[i].n > 1
  PROVE  \A i \in 1..Len(Nest(s, q)) : Nest(s, q)[i].n > 1
<1> TAKE i \in 1..Len(Nest(s, q))
<1>1. PICK a : a = Nest(s, q)
  OBVIOUS
<1>2. /\ Len(a) = Len(s) + Len(q) /\ Len(s) \in Nat /\ Len(q) \in Nat
      /\ \A j \in 1..Len(s) : a[j] = s[j]
      /\ \A j \in 1..Len(q) : a[Len(s) + Len(q) + 1 - j] = q[j]
  BY <1>1, NestFacts, SeqFacts
<1>3. i \in 1..Len(a) BY <1>1
<1>4. CASE i <= Len(s)
  <2>1. i \in 1..Len(s) BY <1>2, <1>3, <1>4
  <2> QED BY <1>1, <1>2, <2>1
<1>5. CASE ~(i <= Len(s))
  <2>1. PICK j : j = Len(s) + Len(q) + 1 - i
    OBVIOUS
  <2>2. j \in 1..Len(q) /\ Len(s) + Len(q) + 1 - j = i BY <1>2, <1>3, <1>5, <2>1
  <2>3. a[i] = q[j] BY <1>2, <2>2
  <2> QED BY <1>1, <2>2, <2>3
<1> QED BY <1>4, <1>5

-----------------------------------------------------------------------------
(* The device.                                                             *)

\* As long as no item is overtaken, DECDATA is written when none is queued, and none is
\* left in the queue when one is put on sendstack.
LEMMA NotOvertaken ==
  ASSUME Types, ~overtaken'
  PROVE  /\ MainPresend => sendqueue = <<>>
         /\ SendPark => sendqueue' = <<>>
BY Zenon DEF MainPresend, SendPark, Overtakes

\* Of the items queued only the first may not have been begun.
LEMMA DeviceNext ==
  ASSUME Types, DeviceInv, [Next]_vars, ~overtaken' PROVE DeviceInv'
<1> USE DEF mainVars, sessionVars
<1>1. /\ sendqueue \in Seq(Item) /\ sendstack \in Seq(Item)
      /\ pcSend # "read" => sendqueue # <<>>
      /\ pcMain # "S05" => cur \in Data
      /\ Len(sendqueue) \in Nat /\ Len(sendstack) \in Nat
      /\ sendqueue # <<>> => Len(sendqueue) > 0
  BY SeqFacts DEF Types, DeviceTypes
<1>2. CASE UNCHANGED <<pcMain, pcSend, sendqueue, sendstack>>
  BY <1>2 DEF DeviceInv
<1>3. CASE MainPermit
  <2>1. pcMain' = "presend" /\ UNCHANGED <<pcSend, sendqueue, sendstack>>
    BY <1>3 DEF MainPermit
  <2> QED BY <2>1 DEF DeviceInv
<1>4. CASE MainPresend
  <2>1. sendqueue = <<>> BY <1>4, NotOvertaken
  <2>2. UNCHANGED <<pcSend, sendqueue, sendstack>> BY <1>4 DEF MainPresend
  <2> QED BY <2>1, <2>2 DEF DeviceInv
<1>5. CASE MainQueue
  <2>1. /\ sendqueue = <<>> /\ pcMain' = "S05" /\ UNCHANGED <<sendstack, pcSend>>
        /\ sendqueue' = Append(<<>>, Fresh(cur)) /\ cur \in Data
    BY <1>1, <1>5 DEF MainQueue, DeviceInv, Fresh
  <2>2. Fresh(cur) \in Item /\ <<>> \in Seq(Item) /\ Len(<<>>) = 0
    BY <2>1, ItemFacts, EmptySeq
  <2>3. Len(sendqueue') = 1 BY <2>1, <2>2, AppendFacts
  <2>4. pcSend' = "read" BY <1>1, <2>1
  <2>5. \A i \in 1..Len(sendqueue') : i > 1 => sendqueue'[i].n > 1 BY <2>3
  <2> QED BY <2>1, <2>4, <2>5 DEF DeviceInv
<1>6. CASE MainRestart
  <2>1. pcMain = "S05" /\ UNCHANGED <<pcMain, pcSend>>
    BY <1>6 DEF MainRestart, TakeBrokerMessage
  <2>2. CASE sendstack = <<>>
    <3>1. UNCHANGED <<sendqueue, sendstack>> BY <1>6, <2>2 DEF MainRestart
    <3> QED BY <2>1, <3>1 DEF DeviceInv
  <2>3. CASE sendstack # <<>>
    <3>1. PICK x : x = Last(sendstack)
      OBVIOUS
    <3>2. sendqueue' = Append(sendqueue, x) /\ sendstack' = Front(sendstack)
      BY <1>6, <2>3, <3>1 DEF MainRestart
    <3>3. /\ x \in Item /\ x = sendstack[Len(sendstack)] /\ Len(sendstack) > 0
          /\ Front(sendstack) \in Seq(Item) /\ Len(Front(sendstack)) = Len(sendstack) - 1
          /\ \A i \in 1..(Len(sendstack) - 1) : Front(sendstack)[i] = sendstack[i]
      BY <1>1, <2>3, <3>1, SeqFacts
    <3>4. x.n > 1
      <4>1. Len(sendstack) \in 1..Len(sendstack) BY <1>1, <3>3
      <4> QED BY <3>3, <4>1 DEF DeviceInv
    <3>5. /\ Len(sendqueue') = Len(sendqueue) + 1 /\ sendqueue'[Len(sendqueue) + 1] = x
          /\ \A i \in 1..Len(sendqueue) : sendqueue'[i] = sendqueue[i]
      BY <1>1, <3>2, <3>3, AppendFacts
    <3>6. ASSUME NEW i \in 1..Len(sendqueue'), i > 1 PROVE sendqueue'[i].n > 1
      <4>1. CASE i = Len(sendqueue) + 1 BY <3>4, <3>5, <4>1
      <4>2. CASE i # Len(sendqueue) + 1
        <5>1. i \in 1..Len(sendqueue) BY <1>1, <3>5, <4>2
        <5> QED BY <3>5, <3>6, <5>1 DEF DeviceInv
      <4> QED BY <4>1, <4>2
    <3>7. \A i \in 1..Len(sendstack') : sendstack'[i].n > 1
      <4>1. \A i \in 1..Len(sendstack') : i \in 1..Len(sendstack) /\ sendstack'[i] = sendstack[i]
        BY <1>1, <3>2, <3>3
      <4> QED BY <4>1 DEF DeviceInv
    <3>8. pcSend \in {"check", "park"} => sendqueue'[1].n > 1
      <4> SUFFICES ASSUME pcSend \in {"check", "park"} PROVE sendqueue'[1].n > 1
        OBVIOUS
      <4>1. 1 \in 1..Len(sendqueue) BY <1>1
      <4> QED BY <3>5, <4>1 DEF DeviceInv
    <3> QED BY <2>1, <3>6, <3>7, <3>8 DEF DeviceInv
  <2> QED BY <2>2, <2>3
<1>7. CASE SendStart \/ SendLock
  <2>1. pcSend' \in {"lock", "write"} /\ UNCHANGED <<pcMain, sendqueue, sendstack>>
    BY <1>7 DEF SendStart, SendLock
  <2> QED BY <2>1 DEF DeviceInv
<1>8. CASE SendCheck
  <2>1. /\ pcSend = "check" /\ UNCHANGED <<pcMain, sendqueue, sendstack>>
    BY <1>8 DEF SendCheck
  <2> QED BY <2>1 DEF DeviceInv
<1>9. CASE SendChunk
  <2>1. pcSend = "write" /\ UNCHANGED <<pcMain, sendstack>> BY <1>9 DEF SendChunk
  <2>2. sendqueue # <<>> /\ pcMain # "limit" BY <1>1, <2>1 DEF DeviceInv
  <2>3. CASE LastChunk(Head(sendqueue))
    <3>1. sendqueue' = Tail(sendqueue) /\ pcSend' = "read"
      BY <1>9, <2>3 DEF SendChunk
    <3>2. /\ Len(sendqueue') = Len(sendqueue) - 1
          /\ \A i \in 1..(Len(sendqueue) - 1) : sendqueue'[i] = sendqueue[i + 1]
      BY <1>1, <2>2, <3>1, SeqFacts
    <3>3. \A i \in 1..Len(sendqueue') : i + 1 \in 1..Len(sendqueue) /\ i + 1 > 1
      BY <1>1, <3>2
    <3>4. \A i \in 1..Len(sendqueue') : sendqueue'[i].n > 1
      BY <3>2, <3>3 DEF DeviceInv
    <3> QED BY <2>1, <2>2, <3>1, <3>4 DEF DeviceInv
  <2>4. CASE ~LastChunk(Head(sendqueue))
    <3>1. sendqueue' = [sendqueue EXCEPT ![1].n = @ + 1] /\ pcSend' = "check"
      BY <1>9, <2>4 DEF SendChunk
    <3>2. /\ Len(sendqueue') = Len(sendqueue)
          /\ sendqueue'[1].n = sendqueue[1].n + 1 /\ sendqueue[1].n \in Nat \ {0}
          /\ \A i \in 1..Len(sendqueue') : i > 1 => sendqueue'[i] = sendqueue[i]
      BY <2>1, <2>4, <3>1, NextChunk
    <3>3. sendqueue'[1].n > 1 BY <3>2
    <3>4. \A i \in 1..Len(sendqueue') : i > 1 => sendqueue'[i].n > 1
      BY <3>2 DEF DeviceInv
    <3> QED BY <2>1, <2>2, <3>3, <3>4 DEF DeviceInv
  <2> QED BY <2>3, <2>4
<1>10. CASE SendPark
  <2>1. /\ pcSend = "park" /\ pcSend' = "read" /\ UNCHANGED pcMain
        /\ sendstack' = Append(sendstack, Head(sendqueue))
    BY <1>10 DEF SendPark, Park
  <2>2. sendqueue' = <<>> /\ Len(sendqueue') = 0 BY <1>10, NotOvertaken, EmptySeq
  <2>3. PICK x : x = Head(sendqueue)
    OBVIOUS
  <2>4. x \in Item /\ x.n > 1 BY <1>1, <2>1, <2>3, SeqFacts DEF DeviceInv
  <2>5. /\ Len(sendstack') = Len(sendstack) + 1 /\ sendstack'[Len(sendstack) + 1] = x
        /\ \A i \in 1..Len(sendstack) : sendstack'[i] = sendstack[i]
    BY <1>1, <2>1, <2>3, <2>4, AppendFacts
  <2>6. ASSUME NEW i \in 1..Len(sendstack') PROVE sendstack'[i].n > 1
    <3>1. CASE i = Len(sendstack) + 1 BY <2>4, <2>5, <3>1
    <3>2. CASE i # Len(sendstack) + 1
      <4>1. i \in 1..Len(sendstack) BY <1>1, <2>5, <3>2
      <4> QED BY <2>5, <4>1 DEF DeviceInv
    <3> QED BY <3>1, <3>2
  <2> QED BY <2>1, <2>2, <2>6 DEF DeviceInv
<1>11. Broker \/ MainStop \/ MainComplete \/ Server \/ UNCHANGED vars =>
         UNCHANGED <<pcMain, pcSend, sendqueue, sendstack>>
  BY DEF Broker, BrokerPermit, BrokerStop, BrokerRestart, BrokerRelease, MainStop,
         MainComplete, Server, ServerRead, ServerMarker, ServerDecdata, ServerData,
         ServerFragment, ServerReceives, vars
<1> QED BY <1>2, <1>3, <1>4, <1>5, <1>6, <1>7, <1>8, <1>9, <1>10, <1>11
        DEF Next, Main, Sender

\* The nested data change only when one is announced and when a chunk is sent: a STOP
\* takes the head of sendqueue to the end of sendstack, a RESTART the end of sendstack
\* to the end of sendqueue.
LEMMA NestedStays ==
  ASSUME Types, DeviceInv, [Next]_vars, ~overtaken', ~MainPresend, ~SendChunk
  PROVE  Nested' = Nested
<1> USE DEF mainVars, sessionVars
<1>1. /\ sendqueue \in Seq(Item) /\ sendstack \in Seq(Item)
      /\ pcSend # "read" => sendqueue # <<>>
      /\ pcMain # "S05" => cur \in Data
      /\ pcMain = "limit" => sendqueue = <<>>
  BY DEF Types, DeviceTypes, DeviceInv
<1>2. CASE UNCHANGED <<pcMain, cur, sendqueue, sendstack>>
  BY <1>2 DEF Nested
<1>3. CASE MainPermit
  <2>1. pcMain = "S05" /\ pcMain' = "presend" /\ UNCHANGED <<sendqueue, sendstack>>
    BY <1>3 DEF MainPermit, TakeBrokerMessage
  <2> QED BY <2>1 DEF Nested
<1>4. CASE MainQueue
  <2>1. PICK x : x = Fresh(cur)
    OBVIOUS
  <2>2. /\ pcMain = "limit" /\ pcMain' = "S05" /\ UNCHANGED sendstack
        /\ sendqueue = <<>> /\ sendqueue' = Append(<<>>, x) /\ cur \in Data
    BY <1>1, <1>4, <2>1 DEF MainQueue, Fresh
  <2>3. x \in Item /\ <<>> \in Seq(Item) BY <2>1, <2>2, ItemFacts
  <2>4. Append(sendstack, x) \in Seq(Item) BY <1>1, <2>3, AppendFacts
  <2>5. Nest(sendstack, Append(<<>>, x)) = Append(sendstack, x)
    BY <1>1, <2>3, <2>4, NestAppend, NestEmpty
  <2>6. Nested' = Nest(sendstack, Append(<<>>, x)) BY <2>2 DEF Nested, Nest
  <2>7. Nested = Append(sendstack, x) BY <2>1, <2>2 DEF Nested
  <2> QED BY <2>5, <2>6, <2>7
<1>5. CASE MainRestart
  <2>1. pcMain = "S05" /\ UNCHANGED pcMain
    BY <1>5 DEF MainRestart, TakeBrokerMessage
  <2>2. CASE sendstack = <<>>
    <3>1. UNCHANGED <<sendqueue, sendstack>> BY <1>5, <2>2 DEF MainRestart
    <3> QED BY <2>1, <3>1 DEF Nested
  <2>3. CASE sendstack # <<>>
    <3>1. PICK s, x : s = Front(sendstack) /\ x = Last(sendstack)
      OBVIOUS
    <3>2. sendqueue' = Append(sendqueue, x) /\ sendstack' = s
      BY <1>5, <2>3, <3>1 DEF MainRestart
    <3>3. x \in Item /\ s \in Seq(Item) /\ sendstack = Append(s, x)
      BY <1>1, <2>3, <3>1, SeqFacts, FrontLast
    <3>4. Nest(s, Append(sendqueue, x)) = Nest(Append(s, x), sendqueue)
      BY <1>1, <3>3, NestAppend
    <3>5. Nested' = Nest(s, Append(sendqueue, x)) BY <2>1, <3>2 DEF Nested, Nest
    <3>6. Nested = Nest(Append(s, x), sendqueue) BY <2>1, <3>3 DEF Nested
    <3> QED BY <3>4, <3>5, <3>6
  <2> QED BY <2>2, <2>3
<1>6. CASE SendPark
  <2>1. PICK x : x = Head(sendqueue)
    OBVIOUS
  <2>2. /\ pcSend = "park" /\ UNCHANGED pcMain /\ sendstack' = Append(sendstack, x)
        /\ sendqueue' = Tail(sendqueue)
    BY <1>6, <2>1 DEF SendPark, Park
  <2>3. sendqueue # <<>> /\ pcMain # "limit" /\ Tail(sendqueue) = <<>>
    BY <1>1, <1>6, <2>2, NotOvertaken
  <2>4. x \in Item /\ Append(sendstack, x) \in Seq(Item)
    BY <1>1, <2>1, <2>3, SeqFacts, AppendFacts
  <2>5. Nested = Append(sendstack, x)
    <3>1. Nested = Append(Nest(sendstack, <<>>), x)
      BY <1>1, <2>1, <2>3, NestHead DEF Nested
    <3> QED BY <1>1, <3>1, NestEmpty
  <2>6. Nested' = Nest(Append(sendstack, x), <<>>) BY <2>2, <2>3 DEF Nested, Nest
  <2> QED BY <2>4, <2>5, <2>6, NestEmpty
<1>7. Broker \/ MainStop \/ MainComplete \/ SendStart \/ SendLock \/ SendCheck \/ Server
        \/ UNCHANGED vars => UNCHANGED <<pcMain, cur, sendqueue, sendstack>>
  BY DEF Broker, BrokerPermit, BrokerStop, BrokerRestart, BrokerRelease, MainStop,
         MainComplete, SendStart, SendLock, SendCheck, Server, ServerRead, ServerMarker,
         ServerDecdata, ServerData, ServerFragment, ServerReceives, vars
<1> QED BY <1>2, <1>3, <1>4, <1>5, <1>6, <1>7 DEF Next, Main, Sender

-----------------------------------------------------------------------------
(* The wire.                                                               *)

\* The way of the server ends in one of its states.
LEMMA ReplayFacts ==
  ASSUME Types, NEW vs \in Seq(ServerState), Replay(vs)
  PROVE  /\ wire \in Seq(Sent) /\ Last(vs) \in ServerState
         /\ Path(Now, vs, wire) /\ Mirrors(Last(vs), Nested)
<1>1. wire \in Seq(Sent) BY DEF Types, ServerTypes
<1>2. Path(Now, vs, wire) /\ Mirrors(Last(vs), Nested) BY DEF Replay
<1>3. vs # <<>>
  <2>1. Len(vs) = Len(wire) + 1 /\ Len(wire) \in Nat BY <1>1, <1>2, SeqFacts DEF Path
  <2> QED BY <2>1, EmptySeq
<1> QED BY <1>1, <1>2, <1>3, SeqFacts

\* What is announced finds the server without a datum of its own, or marked.
LEMMA WirePresend ==
  ASSUME Types, DeviceInv, WireInv, MainPresend, ~overtaken' PROVE WireInv'
<1>1. /\ pcMain = "presend" /\ pcMain' = "limit" /\ wire' = wire \o Presend
      /\ UNCHANGED <<cur, sendqueue, sendstack, serverVars>>
  BY DEF MainPresend
<1>2. cur \in Data /\ sendqueue = <<>> /\ sendstack \in Seq(Item)
  BY <1>1, NotOvertaken DEF Types, DeviceTypes
<1>3. Nested = sendstack /\ Nested' = Append(sendstack, Fresh(cur))
  <2>1. Nested = Nest(sendstack, <<>>) BY <1>1, <1>2 DEF Nested
  <2>2. Nested' = Append(sendstack, Fresh(cur)) BY <1>1 DEF Nested, Fresh
  <2> QED BY <1>2, <2>1, <2>2, NestEmpty
<1>4. PICK vs \in Seq(ServerState) : Replay(vs) BY DEF WireInv
<1>5. /\ sendstack \in Seq(Item) /\ wire \in Seq(Sent)
      /\ \A i \in 1..Len(sendstack) : sendstack[i].n > 1
  BY <1>2 DEF Types, ServerTypes, DeviceInv
<1>6. Marker \in Sent /\ Decdata(cur) \in Sent BY <1>2, TokenFacts
<1>7. Last(vs) \in ServerState /\ Path(Now, vs, wire) /\ Mirrors(Last(vs), sendstack)
  BY <1>3, <1>4, ReplayFacts
\* After the marker, if there is one.
<1>8. \E us \in Seq(ServerState), v \in ServerState :
        /\ Path(Now, us, IF sendstack = <<>> THEN wire ELSE Append(wire, Marker))
        /\ v = Last(us) /\ v.rem = <<>> /\ v.cnt = 0 /\ v.stack = Stacked(sendstack)
  <2>1. CASE sendstack = <<>>
    <3>1. Last(vs).rem = <<>> /\ Last(vs).cnt = 0 /\ Last(vs).stack = Stacked(sendstack)
      BY <1>5, <1>7, <2>1, StackedFacts DEF Mirrors
    <3> QED BY <1>7, <2>1, <3>1
  <2>2. CASE sendstack # <<>>
    <3>1. PICK v : v = Marked(Last(vs))
      OBVIOUS
    <3>2. /\ Takes(Last(vs), Marker, v) /\ v \in ServerState /\ Sound(v)
          /\ v.rem = <<>> /\ v.cnt = 0 /\ v.stack = Stacked(sendstack)
      BY <1>5, <1>7, <2>2, <3>1, MirrorMarker
    <3>3. /\ Path(Now, Append(vs, v), Append(wire, Marker))
          /\ Append(vs, v) \in Seq(ServerState) /\ Last(Append(vs, v)) = v
      BY <1>5, <1>6, <1>7, <3>2, PathAppend
    <3> QED BY <2>2, <3>2, <3>3
  <2> QED BY <2>1, <2>2
<1>9. PICK us \in Seq(ServerState), v \in ServerState :
        /\ Path(Now, us, IF sendstack = <<>> THEN wire ELSE Append(wire, Marker))
        /\ v = Last(us) /\ v.rem = <<>> /\ v.cnt = 0 /\ v.stack = Stacked(sendstack)
  BY <1>8
<1>10. PICK q \in Seq(Sent) : q = IF sendstack = <<>> THEN wire ELSE Append(wire, Marker)
  BY <1>5, <1>6, AppendFacts
<1>11. PICK w : w = Announced(v, cur)
  OBVIOUS
<1>12. /\ Takes(v, Decdata(cur), w) /\ w \in ServerState
       /\ Mirrors(w, Append(sendstack, Fresh(cur)))
  BY <1>2, <1>5, <1>9, <1>11, MirrorDecdata
<1>13. Sound(w) BY <1>2, <1>5, <1>12, MirrorsSound, ItemFacts
<1>14. /\ Path(Now, Append(us, w), Append(q, Decdata(cur)))
       /\ Append(us, w) \in Seq(ServerState) /\ Last(Append(us, w)) = w
  BY <1>6, <1>9, <1>10, <1>12, <1>13, PathAppend
<1>15. wire' = Append(q, Decdata(cur)) BY <1>1, <1>2, <1>5, <1>10, PresendWire
<1>16. Now' = Now BY <1>1 DEF Now, serverVars
<1>17. PICK ws \in Seq(ServerState) :
         /\ Path(Now, ws, Append(q, Decdata(cur)))
         /\ Mirrors(Last(ws), Append(sendstack, Fresh(cur)))
  BY <1>12, <1>14
<1>18. Replay(ws)' BY <1>3, <1>15, <1>16, <1>17 DEF Replay
<1> QED BY <1>18 DEF WireInv

\* A chunk is sent of the last of the nested data, and finds the server at that datum.
LEMMA WireChunk ==
  ASSUME Types, DeviceInv, WireInv, SendChunk PROVE WireInv'
<1>1. /\ pcSend = "write" /\ UNCHANGED <<pcMain, cur, sendstack, serverVars>>
      /\ wire' = Append(wire, Chunk(Head(sendqueue).data, Head(sendqueue).n))
  BY DEF SendChunk, mainVars
<1>2. /\ sendqueue # <<>> /\ pcMain # "limit"
      /\ sendqueue \in Seq(Item) /\ sendstack \in Seq(Item)
  BY <1>1 DEF DeviceInv, Types, DeviceTypes
<1>3. PICK x, t : x = sendqueue[1] /\ t = Tail(sendqueue)
  OBVIOUS
<1>4. /\ x \in Item /\ Head(sendqueue) = x /\ t \in Seq(Item) /\ Len(sendqueue) \in Nat
      /\ Len(t) = Len(sendqueue) - 1
      /\ \A i \in 1..(Len(sendqueue) - 1) : t[i] = sendqueue[i + 1]
  BY <1>2, <1>3, SeqFacts
<1>5. PICK m : m = Nest(sendstack, t)
  OBVIOUS
<1>6. m \in Seq(Item) /\ \A i \in 1..Len(m) : m[i].n > 1
  <2>1. \A i \in 1..Len(sendstack) : sendstack[i].n > 1 BY DEF DeviceInv
  <2>2. \A i \in 1..Len(t) : i + 1 \in 1..Len(sendqueue) /\ i + 1 > 1 /\ t[i] = sendqueue[i + 1]
    BY <1>4
  <2>3. \A i \in 1..Len(t) : t[i].n > 1 BY <2>2 DEF DeviceInv
  <2> QED BY <1>2, <1>4, <1>5, <2>1, <2>3, NestFacts, NestBegun
<1>7. Nested = Append(m, x) BY <1>2, <1>3, <1>4, <1>5, NestHead DEF Nested
<1>8. PICK vs \in Seq(ServerState) : Replay(vs) BY DEF WireInv
<1>9. /\ Last(vs) \in ServerState /\ Path(Now, vs, wire) /\ wire \in Seq(Sent)
      /\ Mirrors(Last(vs), Append(m, x))
  BY <1>7, <1>8, ReplayFacts
<1>10. Chunk(x.data, x.n) \in Sent BY <1>4, ItemFacts, TokenFacts
<1>11. PICK w \in ServerState :
         Takes(Last(vs), Chunk(x.data, x.n), w) /\ Mirrors(w, Nested') /\ Sound(w)
  <2>1. CASE LastChunk(x)
    <3>1. sendqueue' = t BY <1>3, <1>4, <2>1 DEF SendChunk
    <3>2. Nested' = m BY <1>1, <1>2, <1>5, <3>1 DEF Nested, Nest
    <3>3. PICK w \in ServerState : Takes(Last(vs), Chunk(x.data, x.n), w) /\ Mirrors(w, m)
      BY <1>4, <1>6, <1>9, <2>1, MirrorLast DEF LastChunk
    <3>4. Sound(w) BY <1>6, <3>3, MirrorsSoundIdle
    <3> QED BY <3>2, <3>3, <3>4
  <2>2. CASE ~LastChunk(x)
    <3>1. PICK y : y = [data |-> x.data, n |-> x.n + 1]
      OBVIOUS
    <3>2. PICK r : r = sendqueue'
      OBVIOUS
    <3>3. r \in Seq(Item) /\ r # <<>> /\ r[1] = y /\ Tail(r) = t
      <4>1. r = [sendqueue EXCEPT ![1].n = @ + 1]
        BY <1>4, <2>2, <3>2 DEF SendChunk
      <4> QED BY <1>1, <1>3, <1>4, <2>2, <3>1, <4>1, NextChunk
    <3>4. y \in Item /\ Head(r) = y BY <3>3, SeqFacts
    <3>5. Nested' = Append(m, y)
      <4>1. Nest(sendstack, r) = Append(m, y) BY <1>2, <1>5, <3>3, <3>4, NestHead
      <4>2. Nested' = Nest(sendstack, r) BY <1>1, <1>2, <3>2 DEF Nested, Nest
      <4> QED BY <4>1, <4>2
    <3>6. PICK w : w = Further(Last(vs), x.data, x.n)
      OBVIOUS
    <3>7. /\ Takes(Last(vs), Chunk(x.data, x.n), w) /\ w \in ServerState
          /\ Mirrors(w, Append(m, y))
      BY <1>4, <1>6, <1>9, <2>2, <3>1, <3>6, MirrorChunk DEF LastChunk
    <3>8. Sound(w) BY <1>6, <3>4, <3>7, MirrorsSound
    <3> QED BY <3>5, <3>7, <3>8
  <2> QED BY <2>1, <2>2
<1>12. /\ Path(Now, Append(vs, w), wire') /\ Append(vs, w) \in Seq(ServerState)
       /\ Last(Append(vs, w)) = w
  BY <1>1, <1>4, <1>9, <1>10, <1>11, PathAppend
<1>13. Now' = Now BY <1>1 DEF Now, serverVars
<1>14. PICK ws \in Seq(ServerState) : Path(Now, ws, wire') /\ Mirrors(Last(ws), Nested')
  BY <1>11, <1>12
<1>15. Replay(ws)' BY <1>13, <1>14 DEF Replay
<1> QED BY <1>15 DEF WireInv

\* The server goes the way foreseen.
LEMMA WireServer ==
  ASSUME Types, DeviceInv, WireInv, CountInv, Server, ~overtaken'
  PROVE  /\ WireInv' /\ CountInv'
         /\ delivered' \subseteq delivered \cup {Whole(d) : d \in Data}
<1>1. Nested' = Nested
  <2>1. UNCHANGED <<pcMain, cur, sendqueue, sendstack>>
    BY DEF Server, ServerRead, ServerMarker, ServerDecdata, ServerData, ServerFragment,
           ServerReceives, mainVars, sessionVars
  <2> QED BY <2>1 DEF Nested
<1>2. PICK vs \in Seq(ServerState) : Replay(vs) BY DEF WireInv
<1>3. CASE ServerRead
  <2>1. UNCHANGED <<wire, device_remaindata, remainstack, asyncrecvCountor, devid_pri_map,
                    devid_byte_map, delivered>>
        /\ left = 0 /\ datalength' = left'
    BY <1>3 DEF ServerRead
  <2>2. Now' = Now BY <2>1 DEF Now
  <2>3. Path(Now, vs, wire) /\ Mirrors(Last(vs), Nested) BY <1>2 DEF Replay
  <2>4. Replay(vs)' BY <1>1, <2>1, <2>2, <2>3 DEF Replay
  <2>5. datalength - left = 0 /\ datalength' - left' = 0
    <3>1. datalength = 0 BY <2>1 DEF Types, ReadTypes
    <3>2. PICK n \in 1..MaxRead : left' = n BY <1>3 DEF ServerRead
    <3>3. n \in Int BY TransferAssumption
    <3>4. datalength' - left' = n - n BY <2>1, <3>2
    <3>5. datalength - left = 0 - 0 BY <2>1, <3>1
    <3> QED BY <3>3, <3>4, <3>5
  <2>6. CountInv' BY <2>1, <2>5 DEF CountInv
  <2> QED BY <2>1, <2>4, <2>6 DEF WireInv
<1>4. CASE ~ServerRead
  <2>1. wire' = Tail(wire) /\ wire \in Seq(Sent) /\ wire # <<>>
    <3>1. wire \in Seq(Sent) /\ left <= Len(wire) /\ left \in Nat
      BY TransferAssumption DEF Types, ServerTypes, ReadTypes
    <3>2. left > 0 => wire # <<>> BY <3>1, EmptySeq
    <3> QED BY <1>4, <3>1, <3>2
            DEF Server, ServerMarker, ServerDecdata, ServerData, ServerFragment,
                ServerReceives
  <2>2. PICK w \in ServerState :
          /\ Takes(Now, Head(wire), w) /\ Path(w, Tail(vs), Tail(wire))
          /\ Tail(vs) \in Seq(ServerState) /\ Last(Tail(vs)) = Last(vs)
    BY <1>2, <2>1, PathTail DEF Replay
  <2>3. Now' = w /\ Foreseen BY <1>4, <2>2, ServerTakes
  <2>4. PICK ws \in Seq(ServerState) : Path(w, ws, Tail(wire)) /\ Mirrors(Last(ws), Nested)
    BY <1>2, <2>2 DEF Replay
  <2>5. Replay(ws)' BY <1>1, <2>1, <2>3, <2>4 DEF Replay
  <2> QED BY <2>3, <2>5, ServerDelivers, ServerCounts DEF WireInv
<1> QED BY <1>3, <1>4

\* Every step leaves the server a way to the device's state, what it delivers is a whole
\* datum, and it goes on having counted what it has.
LEMMA WireNext ==
  ASSUME Types, DeviceInv, WireInv, CountInv, [Next]_vars, ~overtaken'
  PROVE  /\ WireInv' /\ CountInv'
         /\ delivered' \subseteq delivered \cup {Whole(d) : d \in Data}
<1>1. CASE Server BY <1>1, WireServer
<1>2. CASE ~Server
  <2>1. UNCHANGED serverVars
    BY <1>2 DEF Next, Broker, BrokerPermit, BrokerStop, BrokerRestart, BrokerRelease,
       Main, MainPermit, MainPresend, MainQueue, MainStop, MainRestart, MainComplete,
       Sender, SendStart, SendLock, SendChunk, SendCheck, SendPark, vars
  <2>2. CountInv' /\ delivered' = delivered BY <2>1 DEF CountInv, serverVars, readVars
  <2>3. WireInv'
    <3>1. CASE MainPresend BY <3>1, WirePresend
    <3>2. CASE SendChunk BY <3>2, WireChunk
    <3>3. CASE ~MainPresend /\ ~SendChunk
      <4>1. Nested' = Nested BY <3>3, NestedStays
      <4>2. wire' = wire
        BY <1>2, <3>3 DEF Next, Broker, BrokerPermit, BrokerStop, BrokerRestart,
           BrokerRelease, Main, MainPermit, MainQueue, MainStop, MainRestart,
           MainComplete, Sender, SendStart, SendLock, SendCheck, SendPark, vars
      <4>3. Now' = Now BY <2>1 DEF Now, serverVars
      <4>4. PICK vs \in Seq(ServerState) : Replay(vs) BY DEF WireInv
      <4>5. Path(Now, vs, wire) /\ Mirrors(Last(vs), Nested) BY <4>4 DEF Replay
      <4>6. Replay(vs)' BY <4>1, <4>2, <4>3, <4>5 DEF Replay
      <4> QED BY <4>6 DEF WireInv
    <3> QED BY <3>1, <3>2, <3>3
  <2> QED BY <2>2, <2>3
<1> QED BY <1>1, <1>2

\* At first nothing is nested, and the server has nothing.
LEMMA WireInit == Init => DeviceInv /\ WireInv /\ CountInv /\ DataIntact
<1> SUFFICES ASSUME Init PROVE DeviceInv /\ WireInv /\ CountInv /\ DataIntact
  OBVIOUS
<1>1. /\ Types /\ sendqueue = <<>> /\ sendstack = <<>> /\ pcSend = "read" /\ pcMain = "S05"
      /\ wire = <<>> /\ device_remaindata = <<>> /\ remainstack = <<>> /\ delivered = {}
      /\ asyncrecvCountor = 0
  BY TypesInit DEF Init
<1>2. Len(sendqueue) = 0 /\ Len(sendstack) = 0 /\ Len(wire) = 0 /\ Len(remainstack) = 0
  BY <1>1, EmptySeq
<1>3. DeviceInv BY <1>1, <1>2 DEF DeviceInv
<1>4. CountInv /\ DataIntact BY <1>1, <1>2 DEF CountInv, Counted, DataIntact
<1>5. Nested = <<>>
  <2>1. <<>> \in Seq(Item) BY EmptySeq
  <2> QED BY <1>1, <2>1, NestEmpty DEF Nested
<1>6. PICK v : v = Now
  OBVIOUS
<1>7. v \in ServerState /\ v.rem = <<>> /\ v.stack = <<>> /\ v.cnt = 0
  BY <1>1, <1>6 DEF Types, ServerTypes, Now, ServerState
<1>8. Sound(v) /\ Mirrors(v, <<>>) BY <1>7 DEF Sound, Mirrors
<1>9. PICK vs : vs = <<v>>
  OBVIOUS
<1>10. vs \in Seq(ServerState) /\ Len(vs) = 1 /\ vs[1] = v /\ Last(vs) = v
  BY <1>7, <1>9 DEF Last
<1>11. Path(Now, vs, wire) BY <1>2, <1>6, <1>8, <1>10 DEF Path
<1>12. Replay(vs) BY <1>5, <1>8, <1>10, <1>11 DEF Replay
<1> QED BY <1>3, <1>4, <1>10, <1>12 DEF WireInv

-----------------------------------------------------------------------------
(* Invariants.                                                             *)

\* The two flags are Boolean.
LEMMA FlagsBoolean == Spec => [](flag_sendChange \in BOOLEAN /\ overtaken \in BOOLEAN)
<1> DEFINE Flags == flag_sendChange \in BOOLEAN /\ overtaken \in BOOLEAN
<1>1. Init => Flags BY Zenon DEF Init
<1>2. Flags /\ [Next]_vars => Flags'
  <2> SUFFICES ASSUME Flags, [Next]_vars
               PROVE  flag_sendChange' \in BOOLEAN /\ overtaken' \in BOOLEAN
    BY Zenon
  <2>1. flag_sendChange' \in {TRUE, FALSE, flag_sendChange}
    BY Zenon DEF Next, Broker, BrokerPermit, BrokerStop, BrokerRestart, BrokerRelease,
       Main, MainPermit, MainPresend, MainQueue, MainStop, MainRestart, MainComplete,
       Sender, SendStart, SendLock, SendChunk, SendCheck, SendPark,
       Server, ServerRead, ServerMarker, ServerDecdata, ServerData, ServerFragment,
       ServerReceives, vars, sessionVars
  <2>2. overtaken' = overtaken \/ \E b : overtaken' = (overtaken \/ b)
    BY Zenon DEF Next, Broker, BrokerPermit, BrokerStop, BrokerRestart, BrokerRelease,
       Main, MainPermit, MainPresend, MainQueue, MainStop, MainRestart, MainComplete,
       Sender, SendStart, SendLock, SendChunk, SendCheck, SendPark, Overtakes,
       Server, ServerRead, ServerMarker, ServerDecdata, ServerData, ServerFragment,
       ServerReceives, vars, sessionVars
  <2>3. overtaken' \in BOOLEAN BY <2>2, Zenon
  <2> QED BY <2>1, <2>3, Zenon
<1> QED BY <1>1, <1>2, PTL DEF Spec

\* What has been overtaken stays so.
LEMMA OvertakenStays == overtaken /\ [Next]_vars => overtaken'
BY Zenon DEF Next, Broker, BrokerPermit, BrokerStop, BrokerRestart, BrokerRelease,
   Main, MainPermit, MainPresend, MainQueue, MainStop, MainRestart, MainComplete,
   Sender, SendStart, SendLock, SendChunk, SendCheck, SendPark, Overtakes,
   Server, ServerRead, ServerMarker, ServerDecdata, ServerData, ServerFragment,
   ServerReceives, vars, sessionVars

\* The types hold always.
LEMMA TypesCorrect == Spec => []Types
BY TypesInit, TypesNext, PTL DEF Spec

\* Type correctness, whatever overtakes what.
THEOREM TypeCorrect == Spec => []TypeOK
<1>1. Types /\ flag_sendChange \in BOOLEAN /\ overtaken \in BOOLEAN => TypeOK
  <2> SUFFICES ASSUME Types, flag_sendChange \in BOOLEAN, overtaken \in BOOLEAN
               PROVE  TypeOK
    BY Zenon
  <2>1. Sent \subseteq Token BY DEF Sent
  <2>2. Seq(Sent) \subseteq Seq(Token) BY <2>1, SeqMonotonic
  <2>3. SavedItem \subseteq [pri : Data \cup {NoData}, data : Seq(Token)]
    BY <2>2 DEF SavedItem
  <2>4. Seq(SavedItem) \subseteq Seq([pri : Data \cup {NoData}, data : Seq(Token)])
    BY <2>3, SeqMonotonic
  <2>5. /\ wire \in Seq(Token) /\ device_remaindata \in Seq(Token)
        /\ remainstack \in Seq([pri : Data \cup {NoData}, data : Seq(Token)])
        /\ asyncrecvCountor \in Int /\ devid_pri_map \in Data \cup {NoData}
        /\ delivered \subseteq Seq(Token)
    BY <2>2, <2>4 DEF Types, ServerTypes
  <2>6. /\ datalength \in 0..MaxRead /\ left \in 0..datalength
        /\ devid_byte_map \in [Data -> Nat]
    BY DEF Types, ReadTypes
  <2> QED BY <2>5, <2>6, Zenon DEF TypeOK, Types, BrokerTypes, LinkTypes, DeviceTypes
<1> QED BY <1>1, FlagsBoolean, TypesCorrect, PTL

\* As long as no item has been overtaken the server has a way to the device's state,
\* and has counted what it has.
InOrder == DeviceInv /\ WireInv /\ CountInv
OrderInv == Types /\ DataIntact /\ (~overtaken => InOrder)

\* It has, always.
LEMMA OrderCorrect == Spec => []OrderInv
<1>1. Init => OrderInv
  BY TypesInit, WireInit DEF OrderInv, InOrder
<1>2. OrderInv /\ [Next]_vars => OrderInv'
  <2> SUFFICES ASSUME OrderInv, [Next]_vars PROVE OrderInv'
    OBVIOUS
  <2>1. Types' BY TypesNext DEF OrderInv
  <2>2. ASSUME ~overtaken'
        PROVE  InOrder' /\ delivered' \subseteq {Whole(d) : d \in Data}
    <3>1. ~overtaken BY <2>2, OvertakenStays
    <3>2. Types /\ DeviceInv /\ WireInv /\ CountInv
          /\ delivered \subseteq {Whole(d) : d \in Data}
      BY <3>1 DEF OrderInv, InOrder, DataIntact
    <3>3. DeviceInv' BY <2>2, <3>2, DeviceNext
    <3>4. /\ WireInv' /\ CountInv'
          /\ delivered' \subseteq delivered \cup {Whole(d) : d \in Data}
      BY <2>2, <3>2, WireNext
    <3> QED BY <3>2, <3>3, <3>4 DEF InOrder
  <2>3. DataIntact' BY <2>2 DEF DataIntact
  <2> QED BY <2>1, <2>2, <2>3 DEF OrderInv
<1> QED BY <1>1, <1>2, PTL DEF Spec

\* What the server counts is sound; and once it has read what is on the wire it mirrors
\* the device.
LEMMA NowMirrors ==
  ASSUME OrderInv, ~overtaken
  PROVE  Sound(Now) /\ (wire = <<>> => Mirrors(Now, Nested))
<1>1. PICK vs \in Seq(ServerState) : Replay(vs) BY DEF OrderInv, InOrder, WireInv
<1>2. Len(wire) \in Nat BY SeqFacts DEF OrderInv, Types, ServerTypes
<1>3. Len(vs) = Len(wire) + 1 /\ vs[1] = Now /\ \A i \in 1..Len(vs) : Sound(vs[i])
  BY <1>1 DEF Replay, Path
<1>4. Sound(Now)
  <2>1. 1 \in 1..Len(vs) BY <1>2, <1>3
  <2> QED BY <1>3, <2>1
<1>5. ASSUME wire = <<>> PROVE Mirrors(Now, Nested)
  <2>1. Len(vs) = 1 BY <1>3, <1>5, EmptySeq
  <2>2. Last(vs) = Now BY <1>3, <2>1 DEF Last
  <2> QED BY <1>1, <2>2 DEF Replay
<1> QED BY <1>4, <1>5

\* The server puts the data together as the device took them apart, whatever STOP,
\* RESTART and PERMIT come when, until an item is overtaken.
THEOREM DataIntactCorrect == Spec => []DataIntact
<1>1. OrderInv => DataIntact BY DEF OrderInv
<1> QED BY <1>1, OrderCorrect, PTL

\* It has counted what it has of each datum for that datum's priority, however the data
\* fall into reads.
THEOREM AccountedCorrect == Spec => []AccountedRight
<1>1. OrderInv => AccountedRight
  <2> SUFFICES ASSUME OrderInv, left = 0, ~overtaken,
                      NEW piece \in delivered \cup {device_remaindata}
                             \cup {remainstack[i].data : i \in DOMAIN remainstack},
                      piece # <<>>
               PROVE  devid_byte_map[Head(piece).data] >= Len(piece)
    BY DEF AccountedRight
  <2>1. Types /\ CountInv BY DEF OrderInv, InOrder
  <2>2. DOMAIN remainstack = 1..Len(remainstack)
    BY <2>1, SeqFacts DEF Types, ServerTypes
  <2>3. datalength - left = 0 /\ devid_byte_map \in [Data -> Nat]
    BY <2>1 DEF Types, ReadTypes
  <2>4. Counted(devid_byte_map, piece, 0) BY <2>1, <2>2, <2>3 DEF CountInv
  <2>5. PICK d : d = Head(piece).data
    OBVIOUS
  <2>6. d \in Data /\ devid_byte_map[d] + 0 >= Len(piece) BY <2>4, <2>5 DEF Counted
  <2>7. devid_byte_map[d] \in Nat BY <2>3, <2>6
  <2>8. devid_byte_map[d] + 0 = devid_byte_map[d] BY <2>7
  <2> QED BY <2>5, <2>6, <2>8
<1> QED BY <1>1, OrderCorrect, PTL

\* It counts the device while it has or awaits a datum of it.
THEOREM CounterCorrect == Spec => []CounterRight
<1>1. OrderInv => CounterRight
  <2> SUFFICES ASSUME OrderInv, ~overtaken
               PROVE  /\ asyncrecvCountor \in {0, 1}
                      /\ device_remaindata # <<>> => asyncrecvCountor = 1
                      /\ wire = <<>> /\ sendqueue = <<>> /\ pcMain # "limit"
                           => (asyncrecvCountor = 1 <=> sendstack # <<>>)
    BY DEF CounterRight
  <2>1. Sound(Now) BY NowMirrors
  <2>2. ASSUME wire = <<>>, sendqueue = <<>>, pcMain # "limit"
        PROVE  asyncrecvCountor = 1 <=> sendstack # <<>>
    <3>1. sendstack \in Seq(Item) BY DEF OrderInv, Types, DeviceTypes
    <3>2. Nested = sendstack BY <2>2, <3>1, NestEmpty DEF Nested
    <3>3. Mirrors(Now, sendstack) BY <2>2, <3>2, NowMirrors
    <3> QED BY <3>3 DEF Mirrors, Now
  <2> QED BY <2>1, <2>2 DEF Sound, Now
<1> QED BY <1>1, OrderCorrect, PTL

-----------------------------------------------------------------------------
(* The two stacks.                                                         *)

\* What the server has of the data it has put aside and of the one it goes on with.
LEMMA PartialFacts ==
  ASSUME Types, NEW s \in Seq(Item), remainstack = Stacked(s)
  PROVE  /\ device_remaindata = <<>> => Len(Partial) = Len(s)
         /\ device_remaindata # <<>> => /\ Len(Partial) = Len(s) + 1
                                        /\ Partial[Len(s) + 1] = device_remaindata
         /\ \A i \in 1..Len(s) : Completes(Partial[i], s[i])
<1>1. /\ Len(s) \in Nat /\ \A i \in 1..Len(s) : s[i] \in Item
      /\ remainstack \in Seq(SavedItem) /\ Len(remainstack) = Len(s)
      /\ \A i \in 1..Len(s) : remainstack[i] = Saved(s[i])
  BY SeqFacts, StackedFacts
<1>2. DOMAIN remainstack = 1..Len(s) BY <1>1, SeqFacts
<1>3. PICK p : p = [i \in DOMAIN remainstack |-> remainstack[i].data]
  OBVIOUS
<1>4. \A i \in 1..Len(s) :
        p[i] = Piece(s[i].data, s[i].n - 1) /\ p[i] \in Seq(Sent)
  <2>1. \A i \in 1..Len(s) : p[i] = Piece(s[i].data, s[i].n - 1)
    BY <1>1, <1>2, <1>3 DEF Saved
  <2>2. \A i \in 1..Len(s) : Saved(s[i]) \in SavedItem BY <1>1, SavedFacts
  <2> QED BY <2>1, <2>2 DEF Saved, SavedItem
<1>5. p \in Seq(Seq(Sent)) /\ Len(p) = Len(s)
  <2>1. p \in [1..Len(s) -> Seq(Sent)] BY <1>2, <1>3, <1>4
  <2>2. p \in Seq(Seq(Sent)) BY <1>1, <2>1, SeqDef
  <2>3. DOMAIN p = 1..Len(s) BY <1>2, <1>3
  <2> QED BY <1>1, <2>2, <2>3, LenProperties
<1>6. \A i \in 1..Len(s) : Completes(p[i], s[i]) BY <1>1, <1>4, PieceAndRest
<1>7. CASE device_remaindata = <<>>
  <2>1. Partial = p \o <<>> BY <1>3, <1>7 DEF Partial
  <2>2. Partial = p BY <1>5, <2>1, ConcatEmptySeq
  <2> QED BY <1>5, <1>6, <1>7, <2>2
<1>8. CASE device_remaindata # <<>>
  <2>1. Partial = p \o <<device_remaindata>> BY <1>3, <1>8 DEF Partial
  <2>2. device_remaindata \in Seq(Sent) BY DEF Types, ServerTypes
  <2>3. Partial = Append(p, device_remaindata) BY <1>5, <2>1, <2>2, AppendIsConcat
  <2>4. /\ Len(Partial) = Len(s) + 1 /\ Partial[Len(s) + 1] = device_remaindata
        /\ \A i \in 1..Len(s) : Partial[i] = p[i]
    BY <1>5, <2>2, <2>3, AppendFacts
  <2> QED BY <1>6, <1>8, <2>4
<1> QED BY <1>7, <1>8

\* The begun items b, with one not begun after them or not, go with the partial messages.
LEMMA PartialBegun ==
  ASSUME Types, NEW b \in Seq(Item), \A i \in 1..Len(b) : b[i].n > 1,
         \/ Mirrors(Now, b)
         \/ \E x \in Item : x.n = 1 /\ Mirrors(Now, Append(b, x))
  PROVE  Len(Partial) = Len(b) /\ \A i \in 1..Len(b) : Completes(Partial[i], b[i])
<1>1. CASE \E x \in Item : x.n = 1 /\ Mirrors(Now, Append(b, x))
  <2>1. PICK x \in Item : x.n = 1 /\ Mirrors(Now, Append(b, x)) BY <1>1
  <2>2. device_remaindata = Piece(x.data, x.n - 1) /\ remainstack = Stacked(b)
    BY <2>1, MirrorsAppend DEF Now
  <2>3. x.data \in Data /\ x.n - 1 = 0 BY <2>1, ItemFacts
  <2>4. device_remaindata = <<>> BY <2>2, <2>3, PieceFacts
  <2> QED BY <2>2, <2>4, PartialFacts
<1>2. CASE Mirrors(Now, b) /\ b = <<>>
  <2>1. device_remaindata = <<>> /\ remainstack = <<>>
    BY <1>2 DEF Mirrors, Now
  <2>2. remainstack = Stacked(b) BY <1>2, <2>1, StackedFacts
  <2> QED BY <2>1, <2>2, PartialFacts
<1>3. CASE Mirrors(Now, b) /\ b # <<>>
  <2>1. PICK s, x : s = Front(b) /\ x = Last(b)
    OBVIOUS
  <2>2. /\ s \in Seq(Item) /\ Len(s) = Len(b) - 1 /\ Len(b) > 0 /\ Len(b) \in Nat
        /\ \A i \in 1..(Len(b) - 1) : s[i] = b[i]
        /\ x = b[Len(b)] /\ x \in Item
    BY <1>3, <2>1, SeqFacts
  <2>3. device_remaindata = Piece(x.data, x.n - 1) /\ remainstack = Stacked(s)
    BY <1>3, <2>1 DEF Mirrors, Now
  <2>4. device_remaindata # <<>>
    <3>1. Len(b) \in 1..Len(b) BY <2>2
    <3>2. x.data \in Data /\ x.n > 1 /\ x.n \in Nat BY <2>2, <3>1, ItemFacts
    <3>3. x.n - 1 \in Nat /\ x.n - 1 > 0 BY <3>2
    <3> QED BY <2>3, <3>2, <3>3, PieceFacts
  <2>5. /\ Len(Partial) = Len(s) + 1 /\ Partial[Len(s) + 1] = device_remaindata
        /\ \A i \in 1..Len(s) : Completes(Partial[i], s[i])
    BY <2>2, <2>3, <2>4, PartialFacts
  <2>6. Completes(device_remaindata, x) BY <2>2, <2>3, PieceAndRest
  <2>7. Len(s) + 1 = Len(b) BY <2>2
  <2>8. ASSUME NEW i \in 1..Len(b) PROVE Completes(Partial[i], b[i])
    <3>1. CASE i = Len(b) BY <2>2, <2>5, <2>6, <2>7, <3>1
    <3>2. CASE i # Len(b)
      <4>1. i \in 1..(Len(b) - 1) BY <2>2, <3>2
      <4> QED BY <2>2, <2>5, <4>1
    <3> QED BY <3>1, <3>2
  <2> QED BY <2>5, <2>7, <2>8
<1> QED BY <1>1, <1>2, <1>3

\* The begun items of the queue are those from lo on; their places.
LEMMA QueuePlaces ==
  ASSUME Types, NEW lo \in {1, 2}, InQueue = lo..Len(sendqueue), sendqueue # <<>>
  PROVE  /\ Begun = Len(sendstack) + Len(sendqueue) + 1 - lo
         /\ \A i \in InQueue : PlaceOf(i) = Len(sendstack) + Len(sendqueue) + 1 - i
<1>1. /\ Len(sendstack) \in Nat /\ Len(sendqueue) \in Nat /\ Len(sendqueue) > 0
  BY SeqFacts DEF Types, DeviceTypes
<1>2. PICK n : n = Len(sendqueue)
  OBVIOUS
<1>3. \A k \in 1..(n + 1) : Cardinality(k..n) = n + 1 - k
  <2> TAKE k \in 1..(n + 1)
  <2>1. k \in Int /\ n \in Int BY <1>1, <1>2
  <2>2. Cardinality(k..n) = IF k > n THEN 0 ELSE n - k + 1 BY <2>1, FS_Interval
  <2> QED BY <1>1, <1>2, <2>1, <2>2
<1>4. Begun = Len(sendstack) + Len(sendqueue) + 1 - lo
  <2>1. lo \in 1..(n + 1) BY <1>1, <1>2
  <2>2. Cardinality(InQueue) = n + 1 - lo BY <1>2, <1>3, <2>1
  <2> QED BY <1>1, <1>2, <2>2 DEF Begun
<1>5. ASSUME NEW i \in InQueue
      PROVE  PlaceOf(i) = Len(sendstack) + Len(sendqueue) + 1 - i
  <2>1. i \in lo..n /\ i \in 1..(n + 1) /\ i \in Int BY <1>1, <1>2
  <2>2. {j \in InQueue : j >= i} = i..n BY <1>1, <1>2, <2>1
  <2>3. Cardinality({j \in InQueue : j >= i}) = n + 1 - i BY <1>3, <2>1, <2>2
  <2> QED BY <1>1, <1>2, <2>1, <2>3 DEF PlaceOf
<1> QED BY <1>4, <1>5

\* The server keeps the interrupted data in the device's order: those on sendstack and
\* then those queued again, the last of them first.
THEOREM StacksMirrorCorrect == Spec => []StacksMirror
<1>1. OrderInv => StacksMirror
  <2> SUFFICES ASSUME OrderInv, wire = <<>>, ~overtaken
               PROVE  /\ Len(Partial) = Begun
                      /\ \A i \in DOMAIN sendstack : Completes(Partial[i], sendstack[i])
                      /\ \A i \in InQueue : Completes(Partial[PlaceOf(i)], sendqueue[i])
    BY DEF StacksMirror
  <2>1. Types /\ DeviceInv BY DEF OrderInv, InOrder
  <2>2. Mirrors(Now, Nested) BY NowMirrors
  <2>3. /\ sendstack \in Seq(Item) /\ sendqueue \in Seq(Item)
        /\ Len(sendstack) \in Nat /\ Len(sendqueue) \in Nat
        /\ DOMAIN sendstack = 1..Len(sendstack) /\ DOMAIN sendqueue = 1..Len(sendqueue)
        /\ \A i \in 1..Len(sendqueue) : sendqueue[i].n \in Nat \ {0}
    <3>1. sendstack \in Seq(Item) /\ sendqueue \in Seq(Item)
      BY <2>1 DEF Types, DeviceTypes
    <3>2. \A x \in Item : x.n \in Nat \ {0} BY ItemFacts
    <3> QED BY <3>1, <3>2, SeqFacts
  <2>4. /\ \A i \in 1..Len(sendstack) : sendstack[i].n > 1
        /\ \A i \in 1..Len(sendqueue) : i > 1 => sendqueue[i].n > 1
    BY <2>1 DEF DeviceInv
\* Nothing is queued.
  <2>5. CASE sendqueue = <<>>
    <3>1. InQueue = {} /\ Begun = Len(sendstack)
      <4>1. InQueue = {} BY <2>5, EmptySeq DEF InQueue
      <4> QED BY <2>3, <4>1, FS_EmptySet DEF Begun
    <3>2. \/ Mirrors(Now, sendstack)
          \/ \E x \in Item : x.n = 1 /\ Mirrors(Now, Append(sendstack, x))
      <4>1. CASE pcMain = "limit"
        <5>1. Fresh(cur) \in Item /\ Fresh(cur).n = 1
          BY <2>1, <4>1, ItemFacts DEF Fresh, Types, DeviceTypes
        <5> QED BY <2>2, <4>1, <5>1 DEF Nested
      <4>2. CASE pcMain # "limit"
        BY <2>2, <2>3, <2>5, <4>2, NestEmpty DEF Nested
      <4> QED BY <4>1, <4>2
    <3>3. /\ Len(Partial) = Len(sendstack)
          /\ \A i \in 1..Len(sendstack) : Completes(Partial[i], sendstack[i])
      BY <2>1, <2>3, <2>4, <3>2, PartialBegun
    <3> QED BY <2>3, <3>1, <3>3
\* All that is queued has been begun.
  <2>6. CASE sendqueue # <<>> /\ sendqueue[1].n > 1
    <3>1. PICK b : b = Nest(sendstack, sendqueue)
      OBVIOUS
    <3>2. \A i \in 1..Len(sendqueue) : sendqueue[i].n > 1
      <4> TAKE i \in 1..Len(sendqueue)
      <4>1. i = 1 \/ i > 1 BY <2>3
      <4> QED BY <2>4, <2>6, <4>1
    <3>3. /\ b \in Seq(Item) /\ Len(b) = Len(sendstack) + Len(sendqueue)
          /\ \A i \in 1..Len(sendstack) : b[i] = sendstack[i]
          /\ \A i \in 1..Len(sendqueue) :
               b[Len(sendstack) + Len(sendqueue) + 1 - i] = sendqueue[i]
      BY <2>3, <3>1, NestFacts
    <3>4. \A i \in 1..Len(b) : b[i].n > 1 BY <2>3, <2>4, <3>1, <3>2, NestBegun
    <3>5. Mirrors(Now, b)
      <4>1. pcMain # "limit" BY <2>1, <2>6 DEF DeviceInv
      <4> QED BY <2>2, <3>1, <4>1 DEF Nested
    <3>6. Len(Partial) = Len(b) /\ \A i \in 1..Len(b) : Completes(Partial[i], b[i])
      BY <2>1, <3>3, <3>4, <3>5, PartialBegun
    <3>7. InQueue = 1..Len(sendqueue) BY <2>3, <3>2 DEF InQueue
    <3>8. /\ Begun = Len(sendstack) + Len(sendqueue) + 1 - 1
          /\ \A i \in InQueue : PlaceOf(i) = Len(sendstack) + Len(sendqueue) + 1 - i
      BY <2>1, <2>6, <3>7, QueuePlaces
    <3>9. \A i \in 1..Len(sendstack) : Completes(Partial[i], sendstack[i])
      <4>1. \A i \in 1..Len(sendstack) : i \in 1..Len(b) BY <2>3, <3>3
      <4> QED BY <3>3, <3>6, <4>1
    <3>10. ASSUME NEW i \in InQueue PROVE Completes(Partial[PlaceOf(i)], sendqueue[i])
      <4>1. PICK k : k = Len(sendstack) + Len(sendqueue) + 1 - i
        OBVIOUS
      <4>2. i \in 1..Len(sendqueue) /\ k \in 1..Len(b) BY <2>3, <3>3, <3>7, <4>1
      <4>3. b[k] = sendqueue[i] /\ PlaceOf(i) = k BY <3>3, <3>8, <4>1, <4>2
      <4> QED BY <3>6, <4>2, <4>3
    <3>11. Len(Partial) = Begun BY <2>3, <3>3, <3>6, <3>8
    <3> QED BY <2>3, <3>9, <3>10, <3>11
\* The head of the queue has not been begun.
  <2>7. CASE sendqueue # <<>> /\ ~(sendqueue[1].n > 1)
    <3>1. PICK t, x : t = Tail(sendqueue) /\ x = Head(sendqueue)
      OBVIOUS
    <3>2. /\ t \in Seq(Item) /\ Len(t) = Len(sendqueue) - 1 /\ Len(sendqueue) > 0
          /\ \A i \in 1..(Len(sendqueue) - 1) : t[i] = sendqueue[i + 1]
          /\ x \in Item /\ x = sendqueue[1]
      BY <2>3, <2>7, <3>1, SeqFacts
    <3>3. x.n = 1
      <4>1. 1 \in 1..Len(sendqueue) BY <2>3, <3>2
      <4>2. x.n \in Nat \ {0} /\ ~(x.n > 1) BY <2>3, <2>7, <3>2, <4>1
      <4> QED BY <4>2
    <3>4. PICK b : b = Nest(sendstack, t)
      OBVIOUS
    <3>5. /\ b \in Seq(Item) /\ Len(b) = Len(sendstack) + Len(t)
          /\ \A i \in 1..Len(sendstack) : b[i] = sendstack[i]
          /\ \A i \in 1..Len(t) : b[Len(sendstack) + Len(t) + 1 - i] = t[i]
      BY <2>3, <3>2, <3>4, NestFacts
    <3>6. \A i \in 1..Len(b) : b[i].n > 1
      <4>1. \A i \in 1..Len(t) : i + 1 \in 1..Len(sendqueue) /\ i + 1 > 1 BY <2>3, <3>2
      <4>2. \A i \in 1..Len(t) : t[i].n > 1 BY <2>4, <3>2, <4>1
      <4> QED BY <2>3, <2>4, <3>2, <3>4, <4>2, NestBegun
    <3>7. Mirrors(Now, Append(b, x))
      <4>1. pcMain # "limit" BY <2>1, <2>7 DEF DeviceInv
      <4>2. Nested = Append(b, x) BY <2>3, <2>7, <3>1, <3>4, <4>1, NestHead DEF Nested
      <4> QED BY <2>2, <4>2
    <3>8. Len(Partial) = Len(b) /\ \A i \in 1..Len(b) : Completes(Partial[i], b[i])
      BY <2>1, <3>2, <3>3, <3>5, <3>6, <3>7, PartialBegun
    <3>9. InQueue = 2..Len(sendqueue)
      <4>1. \A i \in 1..Len(sendqueue) : sendqueue[i].n > 1 <=> i >= 2
        <5> TAKE i \in 1..Len(sendqueue)
        <5>1. i = 1 \/ i > 1 BY <2>3
        <5> QED BY <2>4, <2>7, <5>1
      <4> QED BY <2>3, <4>1 DEF InQueue
    <3>10. /\ Begun = Len(sendstack) + Len(sendqueue) + 1 - 2
           /\ \A i \in InQueue : PlaceOf(i) = Len(sendstack) + Len(sendqueue) + 1 - i
      BY <2>1, <2>7, <3>9, QueuePlaces
    <3>11. \A i \in 1..Len(sendstack) : Completes(Partial[i], sendstack[i])
      <4>1. \A i \in 1..Len(sendstack) : i \in 1..Len(b) BY <2>3, <3>2, <3>5
      <4> QED BY <3>5, <3>8, <4>1
    <3>12. ASSUME NEW i \in InQueue PROVE Completes(Partial[PlaceOf(i)], sendqueue[i])
      <4>1. PICK j, k : j = i - 1 /\ k = Len(sendstack) + Len(sendqueue) + 1 - i
        OBVIOUS
      <4>2. /\ i \in 2..Len(sendqueue) /\ j \in 1..Len(t) /\ k \in 1..Len(b)
            /\ Len(sendstack) + Len(t) + 1 - j = k
            /\ j \in 1..(Len(sendqueue) - 1) /\ j + 1 = i
        BY <2>3, <3>2, <3>5, <3>9, <4>1
      <4>3. b[k] = t[j] BY <3>5, <4>2
      <4>4. t[j] = sendqueue[i] BY <3>2, <4>2
      <4>5. PlaceOf(i) = k BY <3>10, <4>1
      <4> QED BY <3>8, <4>2, <4>3, <4>4, <4>5
    <3>13. Len(Partial) = Begun BY <2>3, <3>2, <3>5, <3>8, <3>10
    <3> QED BY <2>3, <3>11, <3>12, <3>13
  <2> QED BY <2>5, <2>6, <2>7
<1> QED BY <1>1, OrderCorrect, PTL
=============================================================================
