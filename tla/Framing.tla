------------------------------- MODULE Framing -------------------------------
(***************************************************************************)
(* How messages are cut out of the byte streams: PriorityMessage's binary  *)
(* form, the receive thread of each link (recv_forever) and the callback   *)
(* it runs (onRecv_base, onRecvFromBroker), which keeps what is left of a  *)
(* read for the next one.                                                  *)
(*                                                                         *)
(* A message is three header bytes, the payload's size in digits of Base,  *)
(* least significant first, each with Base added but the last, and the     *)
(* payload; the base is 128 in the code.  A 0 is written after five 1s in  *)
(* a row, and six of them split what is read.  A read returns any number   *)
(* of bytes from MinRead up, as TCP splits and joins what was written.     *)
(*                                                                         *)
(* The history variable disturbed has the links whose bytes were not       *)
(* handed to the callback as the other end made them: one was inserted, a  *)
(* read was split, or the rest of a read was put in another link's buffer. *)
(***************************************************************************)
EXTENDS Integers, SequencesExt

CONSTANTS
  Link,      \* the links of the receiver, each with a receive thread
  Sent,      \* Sent[l]: the messages the other end of l sends, in order
  StoredIn,  \* StoredIn[l]: the link whose buffer what is left of l goes to
  Base,      \* the base of the size digits
  One, Zero, \* the characters '1' and '0'
  MaxRead    \* bound: the bytes of one read, the size of the buffer

Byte == 0 .. 2 * Base - 1
Message == [head : [1..3 -> Byte], payload : Seq(Byte)]

MinReadFull == MaxRead  \* mutant of MinRead: a read that fills the buffer
MinRead == 4

ASSUME FramingAssumption ==
  /\ Base \in Nat \ {0, 1}
  /\ One \in Byte /\ Zero \in Byte /\ One # Zero
  /\ Sent \in [Link -> Seq(Message)]
  /\ StoredIn \in [Link -> Link]
  /\ MaxRead \in Nat /\ MaxRead >= MinRead

VARIABLES
  sent,        \* sent[l]: how many messages of l are written
  wire,        \* the bytes written and not yet read
  pcRecv, cdata, pushdata,  \* the receive thread of each link
  remaindata,
  recvqueue,
  disturbed    \* history: see above

threadVars == <<pcRecv, cdata, pushdata>>
vars == <<sent, wire, threadVars, remaindata, recvqueue, disturbed>>

-----------------------------------------------------------------------------
(* PriorityMessage.                                                        *)

\* makeMessage: what is left of a size after i digits, the digits, and how they are sent.
Left(size) == LET d[i \in Nat] == IF i = 0 THEN size ELSE d[i - 1] \div Base
              IN  d
Digits(size) == CHOOSE c \in 1 .. size + 1 :
                  Left(size)[c] = 0 /\ \A i \in 1 .. c - 1 : Left(size)[i] # 0
SizeBytes(size) ==
  LET c == Digits(size)
  IN  [i \in 1..c |-> (Left(size)[i - 1] % Base) + (IF i < c THEN Base ELSE 0)]

getAllData(m) == m.head \o SizeBytes(Len(m.payload)) \o m.payload

\* putMessage reads the digits up to one without Base added; a digit just past the
\* end of the data reads as 0 (substr gives "" there, and c_str its terminator).
DigitAt(data, i) == IF 3 + i <= Len(data) THEN data[3 + i] ELSE 0
DigitsRead(data) ==
  CHOOSE c \in 1 .. Len(data) :
    /\ DigitAt(data, c) < Base
    /\ \A i \in 1 .. c - 1 : DigitAt(data, i) >= Base

\* What a digit is multiplied by, after i of them; and the length they add up to.
mult[i \in Nat] == IF i = 0 THEN 1 ELSE mult[i - 1] * Base

BigEndianDigits(data) ==  \* mutant of SizeRead: the most significant digit first
  LET length[i \in Nat] ==
        IF i = 0 THEN 0 ELSE length[i - 1] * Base + (DigitAt(data, i) % Base)
  IN  length[DigitsRead(data)]
SizeRead(data) ==
  LET length[i \in Nat] ==
        IF i = 0 THEN 0 ELSE length[i - 1] + (DigitAt(data, i) % Base) * mult[i - 1]
  IN  length[DigitsRead(data)]

\* Where the message at the head of data ends; an empty one is 4 bytes long,
\* whatever the number of digits read.
EndOfMessage(data) == IF SizeRead(data) = 0 THEN 4
                                            ELSE 3 + DigitsRead(data) + SizeRead(data)

isAllDataRecieved(data) == Len(data) >= 3 /\ EndOfMessage(data) <= Len(data)

putMessage(data) ==
  [head    |-> SubSeq(data, 1, 3),
   payload |-> SubSeq(data, EndOfMessage(data) - SizeRead(data) + 1, EndOfMessage(data))]

Remainder(data) == SubSeq(data, EndOfMessage(data) + 1, Len(data))

-----------------------------------------------------------------------------
(* Sync_BaseSockSession.                                                   *)

\* A Zero is inserted after each five Ones, counted anew from there.
checkSameSeq(data) ==
  LET ones[i \in 0 .. Len(data)] ==
        IF i = 0 \/ data[i] # One THEN 0 ELSE (ones[i - 1] % 5) + 1
  IN  FlattenSeq([i \in DOMAIN data |-> IF ones[i] = 5 THEN <<One, Zero>> ELSE <<data[i]>>])

\* A Zero is erased from the copy if five Ones come before it and it is not next to the
\* one erased last: ones[i] is how many Ones the copy ends with after i bytes.  The place
\* of the first six Ones of the copy, or 0.
checkreadSeq(data) ==
  LET kept == [n \in 0 .. Len(data) |-> IF n >= 5 THEN n ELSE 0]
      ZeroAfterOne(i) == i > 1 /\ data[i] = Zero /\ data[i - 1] = One
      ones[i \in 0 .. Len(data)] ==
        IF i = 0 THEN 0
        ELSE IF data[i] = One THEN ones[i - 1] + 1
        ELSE IF ZeroAfterOne(i) THEN kept[ones[i - 1]] ELSE 0
      erased == {i \in 1 .. Len(data) : ZeroAfterOne(i) /\ ones[i - 1] >= 5}
      flags == {i \in 1 .. Len(data) : ones[i] = 6}
  IN  IF flags = {} THEN 0
      ELSE Min(flags) - 5 - Cardinality({i \in erased : i < Min(flags)})

\* What the thread of l puts, or has put, in front of what it hands on.
Rest(l) == IF pcRecv[l] \in {"read", "call"} THEN remaindata[l] ELSE pushdata[l]

\* basic_send: the other end writes its next message, with the Zeros inserted.
Send(l) ==
  /\ sent[l] < Len(Sent[l])
  /\ \E data \in {getAllData(Sent[l][sent[l] + 1])} :
         /\ wire' = [wire EXCEPT ![l] = @ \o checkSameSeq(data)]
         /\ disturbed' = disturbed \cup {k \in {l} : checkSameSeq(data) # data}
  /\ sent' = [sent EXCEPT ![l] = @ + 1]
  /\ UNCHANGED <<threadVars, remaindata, recvqueue>>

\* recv_forever: a read of at least MinRead bytes, ...
Read(l) ==
  /\ pcRecv[l] = "read"
  /\ \E n \in MinRead .. MaxRead :
       /\ n <= Len(wire[l])
       /\ cdata' = [cdata EXCEPT ![l] = SubSeq(wire[l], 1, n)]
       /\ wire' = [wire EXCEPT ![l] = SubSeq(@, n + 1, Len(@))]
  /\ pcRecv' = [pcRecv EXCEPT ![l] = "call"]
  /\ UNCHANGED <<sent, pushdata, remaindata, recvqueue, disturbed>>

\* ... handed on as it is; the callback puts what was left of the reads before in front.
CallWhole(l) ==
  /\ pcRecv[l] = "call" /\ checkreadSeq(cdata[l]) = 0
  /\ pushdata' = [pushdata EXCEPT ![l] = remaindata[l] \o cdata[l]]
  /\ cdata' = [cdata EXCEPT ![l] = <<>>]
  /\ pcRecv' = [pcRecv EXCEPT ![l] = "parse"]
  /\ UNCHANGED <<sent, wire, remaindata, recvqueue, disturbed>>

\* Or, if the copy of it has six Ones, up to the place they have there; the rest comes
\* after that, without six of its bytes.
CallSplit(l) ==
  /\ pcRecv[l] = "call"
  /\ \E change \in {checkreadSeq(cdata[l])} :
         /\ change # 0
         /\ pushdata' = [pushdata EXCEPT
                           ![l] = remaindata[l] \o SubSeq(cdata[l], 1, change - 1)]
         /\ cdata' = [cdata EXCEPT ![l] = SubSeq(@, change + 6, Len(@))]
  /\ pcRecv' = [pcRecv EXCEPT ![l] = "split"]
  /\ disturbed' = disturbed \cup {l}
  /\ UNCHANGED <<sent, wire, remaindata, recvqueue>>

\* The callback queues each message that is complete, ...
Receive(l) ==
  /\ pcRecv[l] \in {"parse", "split"} /\ isAllDataRecieved(pushdata[l])
  /\ recvqueue' = [recvqueue EXCEPT ![l] = Append(@, putMessage(pushdata[l]))]
  /\ pushdata' = [pushdata EXCEPT ![l] = Remainder(@)]
  /\ UNCHANGED <<sent, wire, pcRecv, cdata, remaindata, disturbed>>

\* ... and keeps the rest.
Keep(l) ==
  /\ pcRecv[l] \in {"parse", "split"} /\ ~isAllDataRecieved(pushdata[l])
  /\ remaindata' = [remaindata EXCEPT ![StoredIn[l]] = pushdata[l]]
  /\ pushdata' = [pushdata EXCEPT ![l] = <<>>]
  /\ pcRecv' = [pcRecv EXCEPT ![l] = IF @ = "split" THEN "call" ELSE "read"]
  /\ disturbed' = disturbed \cup {k \in Link : Rest(k)' # Rest(k)}
  /\ UNCHANGED <<sent, wire, cdata, recvqueue>>

-----------------------------------------------------------------------------
Init ==
  /\ sent = [l \in Link |-> 0]
  /\ wire = [l \in Link |-> <<>>]
  /\ pcRecv = [l \in Link |-> "read"]
  /\ cdata = [l \in Link |-> <<>>] /\ pushdata = [l \in Link |-> <<>>]
  /\ remaindata = [l \in Link |-> <<>>]
  /\ recvqueue = [l \in Link |-> <<>>]
  /\ disturbed = {}

RecvThread(l) == Read(l) \/ CallWhole(l) \/ CallSplit(l) \/ Receive(l) \/ Keep(l)

Next == \E l \in Link : Send(l) \/ RecvThread(l)

Spec == Init /\ [][Next]_vars

\* Receive threads run, and the other end writes what it has to send.
FairSpec == /\ Spec
            /\ \A l \in Link : WF_vars(Send(l)) /\ WF_vars(RecvThread(l))

-----------------------------------------------------------------------------
(* Properties.                                                             *)

\* A message whose size begins with a digit 0 but is not 0, cut after that digit:
\* putMessage takes it for an empty one.
TakenForEmpty(m, sentMess) ==
  /\ Len(sentMess.payload) # 0 /\ Len(sentMess.payload) % Base = 0
  /\ m = [head |-> sentMess.head, payload |-> <<>>]

AsSent(l, n) == \A i \in 1..n : recvqueue[l][i] = Sent[l][i]

\* However the reads split and join the messages of a link that is not disturbed, and
\* whatever the other links' threads do in between, the first message queued that is
\* not the one sent is one that was taken for empty.
ReceivedAsSent ==
  \A l \in Link \ disturbed : \A i \in 1 .. Len(recvqueue[l]) :
    AsSent(l, i - 1) =>
      /\ i <= sent[l]
      /\ recvqueue[l][i] = Sent[l][i] \/ TakenForEmpty(recvqueue[l][i], Sent[l][i])

\* A read waits for MinRead bytes, so the end of a message may stay unread, but
\* only of the last one, as long as the link is not disturbed and nothing was taken
\* for empty.
AllButLastReceived ==
  \A l \in Link : <>(\/ l \in disturbed \/ ~AsSent(l, Len(recvqueue[l]))
                     \/ Len(recvqueue[l]) >= Len(Sent[l]) - 1)

=============================================================================
