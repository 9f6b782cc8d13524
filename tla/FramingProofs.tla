--------------------------- MODULE FramingProofs ---------------------------
(* Proof that what the receive thread of a link queues is what the other    *)
(* end sent, in order, up to a message that is taken for empty, while the   *)
(* link is not disturbed.  First the definitions of PriorityMessage: the    *)
(* digits of a size are bytes, what putMessage adds up from them is the     *)
(* size, so that a whole message is read as it was written and a part of    *)
(* one is not taken for whole, unless for an empty one.  Then the receive   *)
(* threads: the messages queued, the bytes not parsed yet and the bytes not *)
(* read yet are together the bytes that were written.                       *)
EXTENDS Framing, SequenceTheorems, WellFoundedInduction, TLAPS

-----------------------------------------------------------------------------
(* Numbers and recursive functions.                                        *)

\* A set of natural numbers has a least one.
LEMMA LeastNat ==
  ASSUME NEW T, T \subseteq Nat, T # {}
  PROVE  \E x \in T : \A y \in T : x <= y
<1>1. IsWellFoundedOn(OpToRel(<, Nat), Nat) BY NatLessThanWellFounded
<1>2. PICK x \in T : \A y \in T : ~(<<y, x>> \in OpToRel(<, Nat)) BY <1>1, WFMin
<1>3. \A y \in T : ~(y < x) BY <1>2 DEF OpToRel
<1> QED BY <1>3

\* Induction, over the set of the numbers a formula holds of.
LEMMA NatInd ==
  ASSUME NEW P, 0 \in P, \A n \in Nat : n \in P => n + 1 \in P
  PROVE Nat \subseteq P
<1> DEFINE T == Nat \ P
<1> SUFFICES ASSUME T # {} PROVE FALSE
  OBVIOUS
<1>1. PICK x \in T : \A y \in T : x <= y BY LeastNat
<1>2. x # 0 /\ x - 1 \in Nat BY <1>1
<1>3. x - 1 \in P BY <1>1, <1>2
<1>4. (x - 1) + 1 \in P BY <1>2, <1>3
<1>5. (x - 1) + 1 = x OBVIOUS
<1> QED BY <1>4, <1>5

\* f starts with x and goes on by F, up to n; and for ever.
Follows(F, x, n, f) == f[0] = x /\ \A k \in 0 .. n - 1 : f[k + 1] = F[k][f[k]]
Iterates(F, x, f) == f[0] = x /\ \A k \in Nat : f[k + 1] = F[k][f[k]]

\* There is a function that starts with x and goes on by F.
LEMMA RecursiveFunction ==
  ASSUME NEW S, NEW x \in S, NEW F \in [Nat -> [S -> S]]
  PROVE  \E f \in [Nat -> S] : Iterates(F, x, f)
<1> DEFINE Q == {n \in Nat : \E f \in [Nat -> S] : Follows(F, x, n, f)}
<1>1. Nat \subseteq Q
  <2>1. 0 \in Q
    <3>1. Follows(F, x, 0, [k \in Nat |-> x]) BY DEF Follows
    <3> QED BY <3>1
  <2>2. ASSUME NEW n \in Nat, n \in Q
        PROVE  n + 1 \in Q
    <3>1. PICK f \in [Nat -> S] : Follows(F, x, n, f)
      BY <2>2
    <3>2. F[n][f[n]] \in S OBVIOUS
    <3>3. PICK g \in [Nat -> S] : g = [f EXCEPT ![n + 1] = F[n][f[n]]]
      BY <3>2
    <3>4. g[n + 1] = F[n][f[n]] /\ \A k \in 0 .. n : g[k] = f[k]
      BY <3>3
    <3>5. ASSUME NEW k \in 0 .. n
          PROVE  g[k + 1] = F[k][g[k]]
      <4>1. CASE k = n BY <3>4, <4>1
      <4>2. CASE k # n
        <5>1. k \in 0 .. n - 1 /\ k + 1 \in 0 .. n BY <4>2
        <5> QED BY <3>1, <3>4, <5>1 DEF Follows
      <4> QED BY <4>1, <4>2
    <3>6. g[0] = x BY <3>1, <3>4 DEF Follows
    <3>7. (n + 1) - 1 = n OBVIOUS
    <3>8. Follows(F, x, n + 1, g) BY <3>5, <3>6, <3>7 DEF Follows
    <3> QED BY <3>8
  <2> HIDE DEF Q
  <2> QED BY <2>1, <2>2, NatInd
<1> DEFINE G(n) == CHOOSE f \in [Nat -> S] : Follows(F, x, n, f)
<1>2. \A n \in Nat : G(n) \in [Nat -> S] /\ Follows(F, x, n, G(n))
  <2> SUFFICES ASSUME NEW n \in Nat
               PROVE  G(n) \in [Nat -> S] /\ Follows(F, x, n, G(n))
    OBVIOUS
  <2>1. \E f \in [Nat -> S] : Follows(F, x, n, f) BY <1>1
  <2> QED BY <2>1
<1> HIDE DEF G
<1>3. ASSUME NEW n \in Nat
      PROVE  G(n + 1)[n] = G(n)[n]
  <2> DEFINE R == {k \in Nat : k <= n => G(n + 1)[k] = G(n)[k]}
  <2>1. 0 \in R BY <1>2 DEF Follows
  <2>2. ASSUME NEW k \in Nat, k \in R
        PROVE  k + 1 \in R
    <3> SUFFICES ASSUME k + 1 <= n PROVE G(n + 1)[k + 1] = G(n)[k + 1]
      OBVIOUS
    <3>1. k \in 0 .. n - 1 /\ k \in 0 .. (n + 1) - 1 OBVIOUS
    <3>2. G(n + 1)[k + 1] = F[k][G(n + 1)[k]] BY <1>2, <3>1 DEF Follows
    <3>3. G(n)[k + 1] = F[k][G(n)[k]] BY <1>2, <3>1 DEF Follows
    <3>4. G(n + 1)[k] = G(n)[k] BY <2>2
    <3> QED BY <3>2, <3>3, <3>4
  <2> HIDE DEF R
  <2>3. n \in R BY <2>1, <2>2, NatInd
  <2> QED BY <2>3 DEF R
<1>4. PICK h : h = [n \in Nat |-> G(n)[n]]
  OBVIOUS
<1>5. h \in [Nat -> S] BY <1>2, <1>4
<1>6. h[0] = x BY <1>2, <1>4 DEF Follows
<1>7. ASSUME NEW k \in Nat
      PROVE  h[k + 1] = F[k][h[k]]
  <2>1. k \in 0 .. (k + 1) - 1 OBVIOUS
  <2>2. G(k + 1)[k + 1] = F[k][G(k + 1)[k]] BY <1>2, <2>1 DEF Follows
  <2> QED BY <1>3, <1>4, <2>2
<1> QED BY <1>5, <1>6, <1>7 DEF Iterates

-----------------------------------------------------------------------------
(* The loops of makeMessage and putMessage.                                *)

\* The division of makeMessage.
LEMMA LeftIs ==
  ASSUME NEW size \in Nat
  PROVE  /\ Left(size) \in [Nat -> Nat] /\ Left(size)[0] = size
         /\ \A i \in Nat : Left(size)[i + 1] = Left(size)[i] \div Base
<1>1. \A v \in Nat : v \div Base \in Nat BY FramingAssumption
<1>2. PICK F \in [Nat -> [Nat -> Nat]] : F = [k \in Nat |-> [v \in Nat |-> v \div Base]]
  BY <1>1
<1>3. PICK f \in [Nat -> Nat] : Iterates(F, size, f)
  BY RecursiveFunction
<1>4. f[0] = size /\ \A k \in Nat : f[k + 1] = f[k] \div Base
  BY <1>2, <1>3 DEF Iterates
<1> DEFINE Step(d) == [i \in Nat |-> IF i = 0 THEN size ELSE d[i - 1] \div Base]
<1>5. f = Step(f)
  <2>1. \A i \in Nat : f[i] = IF i = 0 THEN size ELSE f[i - 1] \div Base
    <3> SUFFICES ASSUME NEW i \in Nat, i # 0 PROVE f[i] = f[i - 1] \div Base
      BY <1>4
    <3>1. i - 1 \in Nat /\ (i - 1) + 1 = i OBVIOUS
    <3> QED BY <1>4, <3>1
  <2> QED BY <2>1
<1>6. Left(size) = CHOOSE d : d = Step(d) BY DEF Left
<1>7. PICK g : g = Left(size) /\ g = Step(g)
  <2> HIDE DEF Step
  <2> QED BY <1>5, <1>6
<1>8. g = [i \in Nat |-> g[i]] /\ g[0] = size /\ \A i \in Nat : g[i + 1] = g[i] \div Base
  <2>1. \A i \in Nat : i + 1 \in Nat /\ i + 1 # 0 /\ (i + 1) - 1 = i OBVIOUS
  <2>2. \A i \in Nat : g[i] = IF i = 0 THEN size ELSE g[i - 1] \div Base BY <1>7
  <2>3. g = [i \in Nat |-> g[i]] BY <1>7
  <2> QED BY <2>1, <2>2, <2>3
<1>9. \A i \in Nat : g[i] \in Nat
  <2> DEFINE P == {i \in Nat : g[i] \in Nat}
  <2>1. 0 \in P BY <1>8
  <2>2. ASSUME NEW i \in Nat, i \in P
        PROVE  i + 1 \in P
    <3>1. g[i] \in Nat BY <2>2
    <3>2. g[i] \div Base \in Nat BY <1>1, <3>1
    <3>3. g[i + 1] = g[i] \div Base BY <1>8
    <3>4. g[i + 1] \in Nat BY <3>2, <3>3
    <3> QED BY <3>4
  <2> HIDE DEF P
  <2>3. Nat \subseteq P BY <2>1, <2>2, NatInd
  <2> QED BY <2>3 DEF P
<1>10. g \in [Nat -> Nat] BY <1>8, <1>9
<1> QED BY <1>7, <1>8, <1>10

\* What is left gets smaller, so that the division ends.
LEMMA LeftEnds ==
  ASSUME NEW size \in Nat, NEW i \in Nat
  PROVE  Left(size)[i] = 0 \/ Left(size)[i] + i <= size
<1> DEFINE P == {k \in Nat : Left(size)[k] = 0 \/ Left(size)[k] + k <= size}
<1>1. 0 \in P
  <2>1. Left(size)[0] = size BY LeftIs
  <2> QED BY <2>1
<1>2. ASSUME NEW k \in Nat, k \in P
      PROVE  k + 1 \in P
  <2>1. PICK v \in Nat : v = Left(size)[k] BY LeftIs
  <2>2. Left(size)[k + 1] = v \div Base BY <2>1, LeftIs
  <2>3. v = 0 => v \div Base = 0 BY FramingAssumption
  <2>4. v # 0 => v \div Base < v /\ v \div Base \in Nat
    <3>1. \A n \in Nat, b \in Nat \ {0, 1} : n # 0 => n \div b < n /\ n \div b \in Nat
      OBVIOUS
    <3> QED BY <3>1, FramingAssumption
  <2> QED BY <1>2, <2>1, <2>2, <2>3, <2>4
<1> HIDE DEF P
<1>3. i \in P BY <1>1, <1>2, NatInd
<1> QED BY <1>3 DEF P

\* The number of digits: the division ends there, and not before.
LEMMA DigitsAre ==
  ASSUME NEW size \in Nat
  PROVE  /\ Digits(size) \in Nat /\ Digits(size) >= 1
         /\ Left(size)[Digits(size)] = 0
         /\ \A i \in 1 .. Digits(size) - 1 : Left(size)[i] # 0
<1> DEFINE T == {c \in Nat : c >= 1 /\ Left(size)[c] = 0}
<1>1. size + 1 \in T
  <2>1. Left(size)[size + 1] = 0 \/ Left(size)[size + 1] + (size + 1) <= size
    BY LeftEnds
  <2>2. Left(size)[size + 1] \in Nat BY LeftIs
  <2> QED BY <2>1, <2>2
<1>2. PICK c \in T : \A b \in T : c <= b
  <2> HIDE DEF T
  <2>1. T # {} BY <1>1
  <2>2. T \subseteq Nat BY DEF T
  <2> QED BY <2>1, <2>2, LeastNat
<1>3. c \in 1 .. size + 1 BY <1>1, <1>2
<1>4. \A i \in 1 .. c - 1 : Left(size)[i] # 0
  <2> SUFFICES ASSUME NEW i \in 1 .. c - 1, Left(size)[i] = 0 PROVE FALSE
    OBVIOUS
  <2>1. i \in T /\ i < c OBVIOUS
  <2> QED BY <1>2, <2>1
<1>5. Left(size)[c] = 0 BY <1>2
<1>6. /\ Digits(size) \in 1 .. size + 1
      /\ Left(size)[Digits(size)] = 0
      /\ \A i \in 1 .. Digits(size) - 1 : Left(size)[i] # 0
  BY <1>3, <1>4, <1>5 DEF Digits
<1> QED BY <1>6

\* What the digits are multiplied by.
LEMMA MultIs ==
  /\ mult \in [Nat -> Nat] /\ mult[0] = 1
  /\ \A i \in Nat : mult[i + 1] = mult[i] * Base
<1>1. \A v \in Nat : v * Base \in Nat BY FramingAssumption
<1>2. PICK F \in [Nat -> [Nat -> Nat]] : F = [k \in Nat |-> [v \in Nat |-> v * Base]]
  BY <1>1
<1>3. PICK f \in [Nat -> Nat] : Iterates(F, 1, f)
  BY RecursiveFunction
<1>4. f[0] = 1 /\ \A k \in Nat : f[k + 1] = f[k] * Base
  BY <1>2, <1>3 DEF Iterates
<1> DEFINE Step(d) == [i \in Nat |-> IF i = 0 THEN 1 ELSE d[i - 1] * Base]
<1>5. f = Step(f)
  <2>1. \A i \in Nat : f[i] = IF i = 0 THEN 1 ELSE f[i - 1] * Base
    <3> SUFFICES ASSUME NEW i \in Nat, i # 0 PROVE f[i] = f[i - 1] * Base
      BY <1>4
    <3>1. i - 1 \in Nat /\ (i - 1) + 1 = i OBVIOUS
    <3> QED BY <1>4, <3>1
  <2> QED BY <2>1
<1>6. mult = CHOOSE d : d = Step(d) BY DEF mult
<1>7. PICK g : g = mult /\ g = Step(g)
  <2> HIDE DEF Step
  <2> QED BY <1>5, <1>6
<1>8. g = [i \in Nat |-> g[i]] /\ g[0] = 1 /\ \A i \in Nat : g[i + 1] = g[i] * Base
  <2>1. \A i \in Nat : i + 1 \in Nat /\ i + 1 # 0 /\ (i + 1) - 1 = i OBVIOUS
  <2>2. \A i \in Nat : g[i] = IF i = 0 THEN 1 ELSE g[i - 1] * Base BY <1>7
  <2>3. g = [i \in Nat |-> g[i]] BY <1>7
  <2> QED BY <2>1, <2>2, <2>3
<1>9. \A i \in Nat : g[i] \in Nat
  <2> DEFINE P == {i \in Nat : g[i] \in Nat}
  <2>1. 0 \in P BY <1>8
  <2>2. ASSUME NEW i \in Nat, i \in P
        PROVE  i + 1 \in P
    <3>1. g[i] \in Nat BY <2>2
    <3>2. g[i] * Base \in Nat BY <1>1, <3>1
    <3>3. g[i + 1] = g[i] * Base BY <1>8
    <3>4. g[i + 1] \in Nat BY <3>2, <3>3
    <3> QED BY <3>4
  <2> HIDE DEF P
  <2>3. Nat \subseteq P BY <2>1, <2>2, NatInd
  <2> QED BY <2>3 DEF P
<1>10. g \in [Nat -> Nat] BY <1>8, <1>9
<1> QED BY <1>7, <1>8, <1>10

\* A digit read is a byte, also past the end.
LEMMA DigitsAreBytes ==
  ASSUME NEW data \in Seq(Byte), NEW i \in Nat \ {0}
  PROVE  DigitAt(data, i) \in Nat /\ DigitAt(data, i) % Base \in Nat
<1>1. DigitAt(data, i) \in Nat
  <2>1. 3 + i <= Len(data) => data[3 + i] \in Byte
    BY LenProperties
  <2>2. Byte \subseteq Nat BY FramingAssumption DEF Byte
  <2> QED BY <2>1, <2>2 DEF DigitAt
<1> QED BY <1>1, FramingAssumption

\* What the first digits of data add up to.
LengthOf(data, f) ==
  /\ f \in [Nat -> Nat] /\ f[0] = 0
  /\ \A i \in Nat : f[i + 1] = f[i] + (DigitAt(data, i + 1) % Base) * mult[i]

\* The length is added up digit by digit.
LEMMA LengthIs ==
  ASSUME NEW data \in Seq(Byte)
  PROVE  \E f : LengthOf(data, f) /\ SizeRead(data) = f[DigitsRead(data)]
<1>1. PICK t \in [Nat -> Nat] :
        t = [i \in Nat |-> (DigitAt(data, i + 1) % Base) * mult[i]]
  <2> SUFFICES ASSUME NEW i \in Nat
               PROVE  (DigitAt(data, i + 1) % Base) * mult[i] \in Nat
    OBVIOUS
  <2>1. PICK a \in Nat : a = DigitAt(data, i + 1) % Base
    BY DigitsAreBytes
  <2>2. PICK b \in Nat : b = mult[i]
    BY MultIs
  <2>3. a * b \in Nat OBVIOUS
  <2> QED BY <2>1, <2>2, <2>3
<1>2. \A i, v \in Nat : v + t[i] \in Nat OBVIOUS
<1>3. PICK F \in [Nat -> [Nat -> Nat]] : F = [i \in Nat |-> [v \in Nat |-> v + t[i]]]
  BY <1>2
<1>4. PICK f \in [Nat -> Nat] : Iterates(F, 0, f)
  BY RecursiveFunction
<1>5. f[0] = 0 /\ \A k \in Nat : f[k + 1] = f[k] + t[k]
  BY <1>3, <1>4 DEF Iterates
<1> DEFINE Step(d) == [i \in Nat |-> IF i = 0 THEN 0 ELSE
                         d[i - 1] + (DigitAt(data, i) % Base) * mult[i - 1]]
<1>6. \A i \in Nat : i # 0 =>
        i - 1 \in Nat /\ (i - 1) + 1 = i
        /\ (DigitAt(data, i) % Base) * mult[i - 1] = t[i - 1]
  <2> SUFFICES ASSUME NEW i \in Nat, i # 0
               PROVE  /\ i - 1 \in Nat /\ (i - 1) + 1 = i
                      /\ (DigitAt(data, i) % Base) * mult[i - 1] = t[i - 1]
    OBVIOUS
  <2>1. i - 1 \in Nat /\ (i - 1) + 1 = i OBVIOUS
  <2> QED BY <1>1, <2>1
<1>7. f = Step(f)
  <2>1. \A i \in Nat : i # 0 => f[i] = f[i - 1] + t[i - 1]
    BY <1>5, <1>6
  <2>2. \A i \in Nat : f[i] = IF i = 0 THEN 0 ELSE
                         f[i - 1] + (DigitAt(data, i) % Base) * mult[i - 1]
    BY <1>5, <1>6, <2>1
  <2> QED BY <2>2
<1>8. SizeRead(data) = (CHOOSE d : d = Step(d))[DigitsRead(data)] BY DEF SizeRead
<1>9. PICK g : SizeRead(data) = g[DigitsRead(data)] /\ g = Step(g)
  <2> HIDE DEF Step
  <2> QED BY <1>7, <1>8
<1>10. /\ g = [i \in Nat |-> g[i]] /\ g[0] = 0
      /\ \A i \in Nat : g[i + 1] = g[i] + t[i]
  <2>1. \A i \in Nat : i + 1 \in Nat /\ i + 1 # 0 /\ (i + 1) - 1 = i OBVIOUS
  <2>2. \A i \in Nat : g[i] = IF i = 0 THEN 0 ELSE
                         g[i - 1] + (DigitAt(data, i) % Base) * mult[i - 1]
    BY <1>9
  <2>3. g = [i \in Nat |-> g[i]] BY <1>9
  <2>4. \A i \in Nat : i # 0 => g[i] = g[i - 1] + t[i - 1]
    BY <1>6, <2>2
  <2> QED BY <2>1, <2>2, <2>3, <2>4
<1>11. \A i \in Nat : g[i] \in Nat
  <2> DEFINE P == {i \in Nat : g[i] \in Nat}
  <2>1. 0 \in P
    <3>1. g[0] = 0 BY <1>10
    <3> QED BY <3>1
  <2>2. ASSUME NEW i \in Nat, i \in P
        PROVE  i + 1 \in P
    <3>1. g[i] \in Nat BY <2>2
    <3>2. g[i] + t[i] \in Nat BY <1>2, <3>1
    <3>3. g[i + 1] = g[i] + t[i] BY <1>10
    <3>4. g[i + 1] \in Nat BY <3>2, <3>3
    <3> QED BY <3>4
  <2> HIDE DEF P
  <2>3. Nat \subseteq P BY <2>1, <2>2, NatInd
  <2> QED BY <2>3 DEF P
<1>12. LengthOf(data, g) BY <1>1, <1>10, <1>11 DEF LengthOf
<1> QED BY <1>9, <1>12

\* A digit of a size: it has Base added unless it is the last one.
LEMMA DigitOf ==
  ASSUME NEW size \in Nat, NEW i \in 1 .. Digits(size)
  PROVE  /\ SizeBytes(size)[i] \in Byte
         /\ SizeBytes(size)[i] % Base = Left(size)[i - 1] % Base
         /\ i < Digits(size) => SizeBytes(size)[i] >= Base
         /\ i = Digits(size) => SizeBytes(size)[i] < Base
<1>1. PICK r \in Nat : r = Left(size)[i - 1] % Base /\ r < Base
  <2>1. i - 1 \in Nat BY DigitsAre
  <2>2. PICK v \in Nat : v = Left(size)[i - 1] BY <2>1, LeftIs
  <2>3. v % Base \in 0 .. Base - 1 BY FramingAssumption
  <2> QED BY <2>2, <2>3, FramingAssumption
<1>2. SizeBytes(size)[i] = r + (IF i < Digits(size) THEN Base ELSE 0)
  BY <1>1 DEF SizeBytes
<1>3. Base \in Nat /\ Base > 1 BY FramingAssumption
<1>4. (r + Base) % Base = r /\ r % Base = r
  BY <1>1, <1>3
<1>5. r + 0 = r BY <1>1
<1>6. CASE i < Digits(size)
  <2>1. SizeBytes(size)[i] = r + Base BY <1>2, <1>6
  <2>2. r + Base \in Byte /\ r + Base >= Base BY <1>1, <1>3 DEF Byte
  <2>3. ~(i = Digits(size)) BY <1>6, DigitsAre
  <2> QED BY <1>1, <1>4, <2>1, <2>2, <2>3
<1>7. CASE ~(i < Digits(size))
  <2>1. SizeBytes(size)[i] = r BY <1>2, <1>5, <1>7
  <2>2. r \in Byte BY <1>1, <1>3 DEF Byte
  <2> QED BY <1>1, <1>4, <1>7, <2>1, <2>2
<1> QED BY <1>6, <1>7

\* Reading stops at the first digit without Base added.
LEMMA DigitsReadIs ==
  ASSUME NEW data \in Seq(Byte), NEW c \in 1 .. Len(data), DigitAt(data, c) < Base,
         \A i \in 1 .. c - 1 : DigitAt(data, i) >= Base
  PROVE  DigitsRead(data) = c
<1>1. PICK b \in 1 .. Len(data) :
        /\ b = DigitsRead(data) /\ DigitAt(data, b) < Base
        /\ \A i \in 1 .. b - 1 : DigitAt(data, i) >= Base
  BY DEF DigitsRead
<1>2. Len(data) \in Nat BY LenProperties
<1>3. DigitAt(data, b) \in Nat /\ DigitAt(data, c) \in Nat /\ Base \in Nat
  BY <1>2, DigitsAreBytes, FramingAssumption
<1>4. ~(b < c)
  <2> SUFFICES ASSUME b < c PROVE FALSE
    OBVIOUS
  <2>1. b \in 1 .. c - 1 BY <1>2
  <2> QED BY <1>1, <1>3, <2>1
<1>5. ~(c < b)
  <2> SUFFICES ASSUME c < b PROVE FALSE
    OBVIOUS
  <2>1. c \in 1 .. b - 1 BY <1>2
  <2> QED BY <1>1, <1>3, <2>1
<1> QED BY <1>1, <1>2, <1>4, <1>5

\* The data have the first k digits of a size.
HasDigits(data, size, k) ==
  \A i \in 1..k : DigitAt(data, i) = SizeBytes(size)[i]

\* What putMessage adds up, with what is left of the size times the next factor, is the
\* size.
LEMMA LengthAdds ==
  ASSUME NEW data \in Seq(Byte), NEW size \in Nat, HasDigits(data, size, Digits(size)),
         NEW f, LengthOf(data, f), NEW k \in 0 .. Digits(size)
  PROVE  f[k] + Left(size)[k] * mult[k] = size
<1> DEFINE P == {n \in Nat : n <= Digits(size) => f[n] + Left(size)[n] * mult[n] = size}
<1>1. 0 \in P
  <2>1. f[0] = 0 /\ Left(size)[0] = size /\ mult[0] = 1
    BY LeftIs, MultIs DEF LengthOf
  <2>2. 0 + size * 1 = size OBVIOUS
  <2> QED BY <2>1, <2>2
<1>2. ASSUME NEW n \in Nat, n \in P
      PROVE  n + 1 \in P
  <2> SUFFICES ASSUME n + 1 <= Digits(size)
               PROVE  f[n + 1] + Left(size)[n + 1] * mult[n + 1] = size
    OBVIOUS
  <2>1. f[n] + Left(size)[n] * mult[n] = size BY <1>2, DigitsAre
  <2>2. PICK v \in Nat : v = Left(size)[n] BY LeftIs
  <2>3. PICK m \in Nat : m = mult[n] BY MultIs
  <2>4. PICK a \in Nat : a = f[n] BY DEF LengthOf
  <2>5. Left(size)[n + 1] = v \div Base /\ mult[n + 1] = m * Base
    BY <2>2, <2>3, LeftIs, MultIs
  <2>6. DigitAt(data, n + 1) % Base = v % Base
    <3>1. n + 1 \in 1 .. Digits(size) /\ (n + 1) - 1 = n BY DigitsAre
    <3>2. DigitAt(data, n + 1) = SizeBytes(size)[n + 1] BY <3>1 DEF HasDigits
    <3> QED BY <2>2, <3>1, <3>2, DigitOf
  <2>7. f[n + 1] = a + (v % Base) * m
    BY <2>3, <2>4, <2>6 DEF LengthOf
  <2>8. PICK q \in Nat, r \in Nat : q = v \div Base /\ r = v % Base /\ v = Base * q + r
    <3>1. \A n1 \in Nat, b \in Nat \ {0} :
            n1 \div b \in Nat /\ n1 % b \in Nat /\ n1 = b * (n1 \div b) + (n1 % b)
      OBVIOUS
    <3>2. Base \in Nat \ {0} BY FramingAssumption
    <3> QED BY <3>1, <3>2
  <2>9. \A b \in Nat : (a + r * m) + q * (m * b) = a + (b * q + r) * m
    OBVIOUS
  <2>10. (a + r * m) + q * (m * Base) = a + v * m
    BY <2>8, <2>9, FramingAssumption
  <2> QED BY <2>1, <2>2, <2>3, <2>4, <2>5, <2>7, <2>8, <2>10
<1> HIDE DEF P
<1>3. Nat \subseteq P BY <1>1, <1>2, NatInd
<1>4. k \in Nat /\ k <= Digits(size) BY DigitsAre
<1> QED BY <1>3, <1>4 DEF P

\* With all its digits, a size is read as it was written.
LEMMA SizeReadWhole ==
  ASSUME NEW data \in Seq(Byte), NEW size \in Nat, Digits(size) <= Len(data),
         HasDigits(data, size, Digits(size))
  PROVE  DigitsRead(data) = Digits(size) /\ SizeRead(data) = size
<1> DEFINE c == Digits(size)
<1>1. c \in Nat /\ c >= 1 /\ Left(size)[c] = 0 BY DigitsAre
<1>2. Len(data) \in Nat BY LenProperties
<1>3. c \in 1 .. Len(data) BY <1>1, <1>2
<1>4. \A i \in 1 .. c : DigitAt(data, i) = SizeBytes(size)[i] BY DEF HasDigits
<1>5. c \in 1 .. c /\ \A i \in 1 .. c - 1 : i \in 1 .. c /\ i < c BY <1>1
<1>6. DigitAt(data, c) < Base /\ \A i \in 1 .. c - 1 : DigitAt(data, i) >= Base
  BY <1>4, <1>5, DigitOf
<1> HIDE DEF c
<1>7. DigitsRead(data) = c BY <1>3, <1>6, DigitsReadIs
<1>8. PICK f : LengthOf(data, f) /\ SizeRead(data) = f[c]
  BY <1>7, LengthIs
<1>9. f[c] + Left(size)[c] * mult[c] = size
  <2>1. c \in 0 .. Digits(size) BY <1>1 DEF c
  <2> QED BY <1>8, <2>1, LengthAdds
<1>10. 0 * mult[c] = 0 /\ f[c] \in Nat BY <1>1, <1>8, MultIs DEF LengthOf
<1> QED BY <1>1, <1>7, <1>8, <1>9, <1>10 DEF c

\* Cut between its digits, it is read with one digit more, which is 0; and not as 0 if
\* the first digit is there and is not 0.
LEMMA SizeReadCut ==
  ASSUME NEW data \in Seq(Byte), NEW size \in Nat, NEW k \in 0 .. Digits(size) - 1,
         Len(data) = 3 + k, HasDigits(data, size, k)
  PROVE  /\ DigitsRead(data) = k + 1 /\ SizeRead(data) \in Nat
         /\ k # 0 /\ size % Base # 0 => SizeRead(data) # 0
         /\ k = 0 => SizeRead(data) = 0
<1>1. Digits(size) \in Nat /\ k \in Nat BY DigitsAre
<1>2. DigitAt(data, k + 1) = 0 BY <1>1 DEF DigitAt
<1>3. \A i \in 1 .. (k + 1) - 1 : DigitAt(data, i) >= Base
  <2>1. \A i \in 1 .. (k + 1) - 1 : i \in 1..k /\ i \in 1 .. Digits(size) /\ i < Digits(size)
    BY <1>1
  <2>2. \A i \in 1..k : DigitAt(data, i) = SizeBytes(size)[i] BY DEF HasDigits
  <2> QED BY <2>1, <2>2, DigitOf
<1>4. DigitsRead(data) = k + 1
  <2>1. k + 1 \in 1 .. Len(data) BY <1>1
  <2>2. 0 < Base BY FramingAssumption
  <2> QED BY <1>2, <1>3, <2>1, <2>2, DigitsReadIs
<1>5. PICK f : LengthOf(data, f) /\ SizeRead(data) = f[k + 1]
  BY <1>4, LengthIs
<1>6. f[k + 1] \in Nat BY <1>1, <1>5 DEF LengthOf
<1>7. f[1] = DigitAt(data, 1) % Base
  <2>1. f[0 + 1] = f[0] + (DigitAt(data, 0 + 1) % Base) * mult[0] BY <1>5 DEF LengthOf
  <2>2. PICK a \in Nat : a = DigitAt(data, 1) % Base BY DigitsAreBytes
  <2>3. 0 + 1 = 1 /\ 0 + a * 1 = a OBVIOUS
  <2> QED BY <1>5, <2>1, <2>2, <2>3, MultIs DEF LengthOf
<1>8. ASSUME k # 0, size % Base # 0
      PROVE  f[k + 1] # 0
  <2> DEFINE P == {n \in Nat : f[n + 1] >= f[1]}
  <2>1. 0 \in P
    <3>1. 0 + 1 = 1 /\ f[1] \in Nat BY <1>5 DEF LengthOf
    <3> QED BY <3>1
  <2>2. ASSUME NEW n \in Nat, n \in P
        PROVE  n + 1 \in P
    <3>1. f[(n + 1) + 1] = f[n + 1] + (DigitAt(data, (n + 1) + 1) % Base) * mult[n + 1]
      BY <1>5 DEF LengthOf
    <3>2. PICK a \in Nat : a = DigitAt(data, (n + 1) + 1) % Base BY DigitsAreBytes
    <3>3. PICK b \in Nat : b = mult[n + 1] BY MultIs
    <3>4. PICK v \in Nat : v = f[n + 1]
      <4>1. f \in [Nat -> Nat] BY <1>5 DEF LengthOf
      <4> QED BY <4>1
    <3>5. PICK w \in Nat : w = f[1]
      <4>1. f \in [Nat -> Nat] BY <1>5 DEF LengthOf
      <4> QED BY <4>1
    <3>6. a * b \in Nat OBVIOUS
    <3>7. v >= w BY <2>2, <3>4, <3>5
    <3>8. v + a * b >= w BY <3>6, <3>7
    <3> QED BY <3>1, <3>2, <3>3, <3>4, <3>5, <3>8
  <2> HIDE DEF P
  <2>3. k \in P BY <1>1, <2>1, <2>2, NatInd
  <2>4. f[k + 1] >= f[1] BY <2>3 DEF P
  <2>5. f[1] = size % Base
    <3>1. 1 \in 1..k /\ 1 \in 1 .. Digits(size) BY <1>1, <1>8
    <3>2. DigitAt(data, 1) = SizeBytes(size)[1] BY <3>1 DEF HasDigits
    <3>3. SizeBytes(size)[1] % Base = Left(size)[1 - 1] % Base BY <3>1, DigitOf
    <3>4. 1 - 1 = 0 OBVIOUS
    <3> QED BY <1>7, <3>2, <3>3, <3>4, LeftIs
  <2>6. size % Base \in Nat BY FramingAssumption
  <2> QED BY <1>6, <1>8, <2>4, <2>5, <2>6
<1>9. k = 0 => f[k + 1] = 0
  <2> SUFFICES ASSUME k = 0 PROVE f[1] = 0
    OBVIOUS
  <2>1. 0 % Base = 0 BY FramingAssumption
  <2> QED BY <1>2, <1>7, <2>1
<1> QED BY <1>4, <1>5, <1>6, <1>8, <1>9

-----------------------------------------------------------------------------
(* Sequences.                                                              *)

\* A function on the first numbers is a sequence.
LEMMA SeqFromFunction ==
  ASSUME NEW S, NEW n \in Nat, NEW f \in [1..n -> S]
  PROVE  f \in Seq(S) /\ Len(f) = n
<1>1. f \in Seq(S) BY SeqDef
<1> QED BY <1>1, LenProperties

\* A concatenation has the elements of both.
LEMMA ConcatIs ==
  ASSUME NEW S, NEW s \in Seq(S), NEW t \in Seq(S)
  PROVE  /\ s \o t \in Seq(S) /\ Len(s \o t) = Len(s) + Len(t)
         /\ \A i \in 1 .. Len(s) : (s \o t)[i] = s[i]
         /\ \A i \in 1 .. Len(t) : (s \o t)[Len(s) + i] = t[i]
<1>1. PICK a \in Nat, b \in Nat : a = Len(s) /\ b = Len(t)
  BY LenProperties
<1>2. PICK u : u = s \o t
  OBVIOUS
<1>3. /\ u \in Seq(S) /\ Len(u) = a + b
      /\ \A i \in 1 .. a + b : u[i] = IF i <= a THEN s[i] ELSE t[i - a]
  BY <1>1, <1>2, ConcatProperties
<1>4. \A i \in 1..a : i \in 1 .. a + b /\ i <= a BY <1>1
<1>5. \A i \in 1..b : a + i \in 1 .. a + b /\ ~(a + i <= a) /\ (a + i) - a = i BY <1>1
<1>6. \A i \in 1..a : u[i] = s[i] BY <1>3, <1>4
<1>7. \A i \in 1..b : u[a + i] = t[i] BY <1>3, <1>5
<1> QED BY <1>1, <1>2, <1>3, <1>6, <1>7

\* What is found after the first a elements is cut out.
LEMMA SubSeqIs ==
  ASSUME NEW S, NEW s \in Seq(S), NEW t \in Seq(S), NEW a \in Nat,
         a + Len(t) <= Len(s), \A i \in 1 .. Len(t) : s[a + i] = t[i]
  PROVE  SubSeq(s, a + 1, a + Len(t)) = t
<1>0. PICK b \in Nat : b = Len(t)
  BY LenProperties
<1>1. b \in Nat /\ Len(s) \in Nat /\ a + b <= Len(s) BY <1>0, LenProperties
<1>2. \A i \in a + 1 .. a + b : i \in 1 .. Len(s) BY <1>1
<1>3. \A i \in a + 1 .. a + b : s[i] \in S BY <1>2, LenProperties
<1>4. PICK u : u = SubSeq(s, a + 1, a + b)
  OBVIOUS
<1>5. PICK m \in Int, n \in Int : m = a + 1 /\ n = a + b
  BY <1>1
<1>6. n - m + 1 = b /\ (m <= n <=> 1 <= b) BY <1>1, <1>5
<1>7. /\ u \in Seq(S) /\ Len(u) = IF m <= n THEN n - m + 1 ELSE 0
      /\ \A i \in 1 .. n - m + 1 : u[i] = s[m + i - 1]
  BY <1>3, <1>4, <1>5, SubSeqProperties
<1>8. Len(u) = b BY <1>1, <1>6, <1>7
<1>9. \A i \in 1..b : m + i - 1 = a + i BY <1>1, <1>5
<1>10. \A i \in 1..b : u[i] = t[i] BY <1>0, <1>6, <1>7, <1>9
<1> QED BY <1>0, <1>4, <1>7, <1>8, <1>10, SeqEqual

-----------------------------------------------------------------------------
(* A message in front of what has been read.                               *)

\* One digit is enough for 0.
LEMMA ZeroDigits == Digits(0) = 1
<1>1. Left(0)[1] = 0
  <2>1. Left(0)[1] = 0 \/ Left(0)[1] + 1 <= 0 BY LeftEnds
  <2>2. Left(0)[1] \in Nat BY LeftIs
  <2> QED BY <2>1, <2>2
<1>2. Digits(0) \in Nat /\ Digits(0) >= 1 /\ \A i \in 1 .. Digits(0) - 1 : Left(0)[i] # 0
  BY DigitsAre
<1>3. ~(Digits(0) > 1)
  <2> SUFFICES ASSUME Digits(0) > 1 PROVE FALSE
    OBVIOUS
  <2>1. 1 \in 1 .. Digits(0) - 1 BY <1>2
  <2> QED BY <1>1, <1>2, <2>1
<1> QED BY <1>2, <1>3

\* Where the parts of a message are in its bytes g, n of them its payload and c digits.
Layout(m, g, n, c) ==
         /\ n \in Nat /\ c \in Nat /\ c >= 1
         /\ g \in Seq(Byte) /\ Len(g) = 3 + c + n
         /\ \A i \in 1..3 : g[i] = m.head[i]
         /\ \A i \in 1..c : g[3 + i] = SizeBytes(n)[i]
         /\ \A i \in 1..n : g[3 + c + i] = m.payload[i]

\* The bytes of a message: the header, the digits, the payload.
LEMMA AllDataIs ==
  ASSUME NEW m \in Message
  PROVE  Layout(m, getAllData(m), Len(m.payload), Digits(Len(m.payload)))
<1>0. PICK n, c : n = Len(m.payload) /\ c = Digits(n)
  OBVIOUS
<1>1. PICK x, p : x = m.head /\ p = m.payload
  OBVIOUS
<1>2. x \in [1..3 -> Byte] /\ p \in Seq(Byte) BY <1>1 DEF Message
<1>3. PICK three \in Nat : three = 3
  OBVIOUS
<1>4. x \in Seq(Byte) /\ Len(x) = three BY <1>2, <1>3, SeqFromFunction
<1>5. n \in Nat BY <1>0, <1>1, <1>2, LenProperties
<1>6. c \in Nat /\ c >= 1 BY <1>0, <1>5, DigitsAre
<1>7. PICK z : z = SizeBytes(n)
  OBVIOUS
<1>8. z \in Seq(Byte) /\ Len(z) = c
  <2>1. \A i \in 1..c : z[i] \in Byte BY <1>0, <1>5, <1>7, DigitOf
  <2>2. z = [i \in 1..c |-> z[i]] BY <1>0, <1>7 DEF SizeBytes
  <2>3. z \in [1..c -> Byte] BY <2>1, <2>2
  <2> QED BY <1>6, <2>3, SeqFromFunction
<1>9. PICK h : h = x \o z
  OBVIOUS
<1>10. /\ h \in Seq(Byte) /\ Len(h) = three + c
       /\ \A i \in 1..three : h[i] = x[i]
       /\ \A i \in 1..c : h[three + i] = z[i]
  <2>1. /\ x \o z \in Seq(Byte) /\ Len(x \o z) = Len(x) + Len(z)
        /\ \A i \in 1 .. Len(x) : (x \o z)[i] = x[i]
        /\ \A i \in 1 .. Len(z) : (x \o z)[Len(x) + i] = z[i]
    <3>1. x \in Seq(Byte) /\ z \in Seq(Byte) BY <1>4, <1>8
    <3> QED BY <3>1, ConcatIs
  <2> QED BY <1>4, <1>8, <1>9, <2>1
<1>11. PICK g : g = h \o p
  OBVIOUS
<1>12. PICK k \in Nat : k = three + c
  BY <1>6
<1>13. /\ g \in Seq(Byte) /\ Len(g) = k + n
       /\ \A i \in 1..k : g[i] = h[i]
       /\ \A i \in 1..n : g[k + i] = p[i]
  <2>1. Len(h) = k /\ Len(p) = n BY <1>0, <1>1, <1>10, <1>12
  <2>2. /\ h \o p \in Seq(Byte) /\ Len(h \o p) = Len(h) + Len(p)
        /\ \A i \in 1 .. Len(h) : (h \o p)[i] = h[i]
        /\ \A i \in 1 .. Len(p) : (h \o p)[Len(h) + i] = p[i]
    <3>1. h \in Seq(Byte) /\ p \in Seq(Byte) BY <1>2, <1>10
    <3> QED BY <3>1, ConcatIs
  <2> QED BY <1>11, <2>1, <2>2
<1>14. \A i \in 1..three : i \in 1..k BY <1>6, <1>12
<1>15. \A i \in 1..c : three + i \in 1..k BY <1>6, <1>12
<1>16. \A i \in 1..three : g[i] = x[i] BY <1>10, <1>13, <1>14
<1>17. \A i \in 1..c : g[three + i] = z[i] BY <1>10, <1>13, <1>15
<1>18. g = getAllData(m) BY <1>0, <1>1, <1>7, <1>9, <1>11 DEF getAllData
<1>19. Layout(m, g, n, c)
  BY <1>1, <1>3, <1>5, <1>6, <1>7, <1>12, <1>13, <1>16, <1>17 DEF Layout
<1> QED BY <1>0, <1>18, <1>19

\* Data that begin with the header and the digits of a message end it where it ends.
LEMMA EndIs ==
  ASSUME NEW data \in Seq(Byte), NEW n \in Nat, 3 + Digits(n) <= Len(data),
         \A i \in 1 .. Digits(n) : data[3 + i] = SizeBytes(n)[i]
  PROVE  SizeRead(data) = n /\ EndOfMessage(data) = 3 + Digits(n) + n
<1>0. PICK c : c = Digits(n)
  OBVIOUS
<1>1. c \in Nat /\ c >= 1 /\ Len(data) \in Nat BY <1>0, DigitsAre, LenProperties
<1>2. HasDigits(data, n, c) BY <1>0, <1>1 DEF HasDigits, DigitAt
<1>3. DigitsRead(data) = c /\ SizeRead(data) = n
  <2>1. c <= Len(data) BY <1>0, <1>1
  <2> QED BY <1>0, <1>2, <2>1, SizeReadWhole
<1>4. CASE n = 0
  <2>1. c = 1 BY <1>0, <1>4, ZeroDigits
  <2> QED BY <1>0, <1>3, <1>4, <2>1 DEF EndOfMessage
<1>5. CASE n # 0 BY <1>0, <1>3, <1>5 DEF EndOfMessage
<1> QED BY <1>0, <1>4, <1>5

\* A whole message is cut off as it was made.
LEMMA ParseWhole ==
  ASSUME NEW m \in Message, NEW rest \in Seq(Byte), NEW data, data = getAllData(m) \o rest
  PROVE  isAllDataRecieved(data) /\ putMessage(data) = m /\ Remainder(data) = rest
<1>1. PICK n, c, x, p, g : /\ n = Len(m.payload) /\ c = Digits(n)
                           /\ x = m.head /\ p = m.payload /\ g = getAllData(m)
  OBVIOUS
<1>2. /\ n \in Nat /\ c \in Nat /\ c >= 1
      /\ g \in Seq(Byte) /\ Len(g) = 3 + c + n
      /\ \A i \in 1..3 : g[i] = x[i]
      /\ \A i \in 1..c : g[3 + i] = SizeBytes(n)[i]
      /\ \A i \in 1..n : g[3 + c + i] = p[i]
  <2>1. Layout(m, g, n, c) BY <1>1, AllDataIs
  <2> QED BY <1>1, <2>1 DEF Layout
<1>3. PICK r \in Nat, e \in Nat, k \in Nat : r = Len(rest) /\ e = 3 + c + n /\ k = 3 + c
  BY <1>2, LenProperties
<1>4. /\ data \in Seq(Byte) /\ Len(data) = e + r
      /\ \A i \in 1..e : data[i] = g[i]
      /\ \A i \in 1..r : data[e + i] = rest[i]
  <2>1. Len(g) = e /\ Len(rest) = r BY <1>2, <1>3
  <2>2. data = g \o rest BY <1>1
  <2>3. /\ g \o rest \in Seq(Byte) /\ Len(g \o rest) = Len(g) + Len(rest)
        /\ \A i \in 1 .. Len(g) : (g \o rest)[i] = g[i]
        /\ \A i \in 1 .. Len(rest) : (g \o rest)[Len(g) + i] = rest[i]
    <3>1. g \in Seq(Byte) /\ rest \in Seq(Byte) BY <1>2
    <3> QED BY <3>1, ConcatIs
  <2> QED BY <2>1, <2>2, <2>3
<1>5. SizeRead(data) = n /\ EndOfMessage(data) = e
  <2>1. \A i \in 1..c : 3 + i \in 1..e BY <1>2, <1>3
  <2>2. \A i \in 1..c : data[3 + i] = SizeBytes(n)[i] BY <1>2, <1>4, <2>1
  <2>3. 3 + c <= Len(data) BY <1>2, <1>3, <1>4
  <2>4. SizeRead(data) = n /\ EndOfMessage(data) = 3 + Digits(n) + n
    BY <1>1, <1>2, <1>4, <2>2, <2>3, EndIs
  <2> QED BY <1>1, <1>3, <2>4
<1>6. isAllDataRecieved(data) BY <1>2, <1>3, <1>4, <1>5 DEF isAllDataRecieved
<1>7. x \in [1..3 -> Byte] /\ p \in Seq(Byte) /\ m = [head |-> x, payload |-> p]
  BY <1>1 DEF Message
<1>8. SubSeq(data, 1, 3) = x
  <2>1. PICK three \in Nat : three = 3
    OBVIOUS
  <2>2. x \in Seq(Byte) /\ Len(x) = three BY <1>7, <2>1, SeqFromFunction
  <2>3. \A i \in 1..three : data[0 + i] = x[i]
    <3>1. \A i \in 1..three : i \in 1..e /\ i \in 1..3 /\ 0 + i = i BY <1>2, <1>3, <2>1
    <3> QED BY <1>2, <1>4, <3>1
  <2>4. 0 + three <= Len(data) BY <1>2, <1>3, <1>4, <2>1
  <2>5. SubSeq(data, 0 + 1, 0 + three) = x BY <1>4, <2>2, <2>3, <2>4, SubSeqIs
  <2>6. 0 + 1 = 1 /\ 0 + three = 3 BY <2>1
  <2> QED BY <2>5, <2>6
<1>9. SubSeq(data, e - n + 1, e) = p
  <2>1. e - n + 1 = k + 1 /\ e = k + n BY <1>2, <1>3
  <2>2. \A i \in 1..n : k + i \in 1..e BY <1>2, <1>3
  <2>3. \A i \in 1..n : data[k + i] = p[i] BY <1>2, <1>3, <1>4, <2>2
  <2>4. k + n <= Len(data) BY <1>2, <1>3, <1>4
  <2>5. SubSeq(data, k + 1, k + n) = p BY <1>1, <1>4, <1>7, <2>3, <2>4, SubSeqIs
  <2> QED BY <2>1, <2>5
<1>10. putMessage(data) = m BY <1>5, <1>7, <1>8, <1>9 DEF putMessage
<1>11. Remainder(data) = rest
  <2>1. SubSeq(data, e + 1, e + r) = rest BY <1>3, <1>4, SubSeqIs
  <2> QED BY <1>4, <1>5, <2>1 DEF Remainder
<1> QED BY <1>6, <1>10, <1>11

\* A message of which a part is missing is not taken for whole, but it may be for empty.
LEMMA ParseCut ==
  ASSUME NEW m \in Message, NEW data \in Seq(Byte),
         Len(data) < Len(getAllData(m)),
         \A i \in 1 .. Len(data) : data[i] = getAllData(m)[i]
  PROVE  ~isAllDataRecieved(data) \/ TakenForEmpty(putMessage(data), m)
<1>1. PICK n, c : n = Len(m.payload) /\ c = Digits(n)
  OBVIOUS
<1>2. /\ n \in Nat /\ c \in Nat /\ c >= 1
      /\ Len(getAllData(m)) = 3 + c + n
      /\ \A i \in 1..3 : getAllData(m)[i] = m.head[i]
      /\ \A i \in 1..c : getAllData(m)[3 + i] = SizeBytes(n)[i]
  <2>1. Layout(m, getAllData(m), n, c) BY <1>1, AllDataIs
  <2> QED BY <2>1 DEF Layout
<1>3. Len(data) \in Nat BY LenProperties
<1>4. CASE Len(data) < 3 BY <1>3, <1>4 DEF isAllDataRecieved
<1>5. CASE Len(data) >= 3 /\ Len(data) < 3 + c
  <2>1. PICK k \in 0 .. c - 1 : Len(data) = 3 + k
    <3>1. Len(data) - 3 \in 0 .. c - 1 /\ Len(data) = 3 + (Len(data) - 3)
      BY <1>2, <1>3, <1>5
    <3> QED BY <3>1
  <2>2. HasDigits(data, n, k)
    <3>1. \A i \in 1..k : i \in 1..c /\ 3 + i \in 1 .. Len(data) /\ 3 + i <= Len(data)
      BY <1>2, <2>1
    <3> QED BY <1>2, <3>1 DEF HasDigits, DigitAt
  <2>3. /\ DigitsRead(data) = k + 1 /\ SizeRead(data) \in Nat
        /\ k # 0 /\ n % Base # 0 => SizeRead(data) # 0
        /\ k = 0 => SizeRead(data) = 0
    BY <1>1, <1>2, <2>1, <2>2, SizeReadCut
  <2>4. CASE k = 0
    <3>1. EndOfMessage(data) = 4 BY <2>3, <2>4 DEF EndOfMessage
    <3> QED BY <2>1, <2>4, <3>1 DEF isAllDataRecieved
  <2>5. CASE k # 0
    <3>1. n # 0 BY <1>1, <1>2, <2>5, ZeroDigits
    <3>2. CASE SizeRead(data) # 0
      <4>1. EndOfMessage(data) = 3 + (k + 1) + SizeRead(data)
        BY <2>3, <3>2 DEF EndOfMessage
      <4>2. EndOfMessage(data) > Len(data) BY <1>2, <2>1, <2>3, <4>1
      <4> QED BY <1>2, <2>1, <2>3, <4>1, <4>2 DEF isAllDataRecieved
    <3>3. CASE SizeRead(data) = 0
      <4>1. n % Base = 0 BY <2>3, <2>5, <3>3
      <4>2. EndOfMessage(data) = 4 BY <3>3 DEF EndOfMessage
      <4>3. SubSeq(data, EndOfMessage(data) - SizeRead(data) + 1, EndOfMessage(data)) = <<>>
        <5>1. EndOfMessage(data) - SizeRead(data) + 1 = 5 BY <3>3, <4>2
        <5>2. SubSeq(data, 5, 4) = <<>> BY SubSeqEmpty
        <5> QED BY <4>2, <5>1, <5>2
      <4>4. SubSeq(data, 1, 3) = m.head
        <5>1. PICK x \in [1..3 -> Byte] : x = m.head BY DEF Message
        <5>2. PICK three \in Nat : three = 3
          OBVIOUS
        <5>3. x \in Seq(Byte) /\ Len(x) = three
          <6>1. x \in [1..three -> Byte] BY <5>1, <5>2
          <6> QED BY <6>1, SeqFromFunction
        <5>4. \A i \in 1..three : data[0 + i] = x[i]
          <6>1. \A i \in 1..three : i \in 1 .. Len(data) /\ i \in 1..3 /\ 0 + i = i
            BY <1>3, <1>5, <5>2
          <6>2. \A i \in 1..3 : getAllData(m)[i] = x[i] BY <1>2, <5>1
          <6> QED BY <6>1, <6>2
        <5>5. 0 + three <= Len(data) BY <1>3, <1>5, <5>2
        <5>6. SubSeq(data, 0 + 1, 0 + three) = x BY <5>3, <5>4, <5>5, SubSeqIs
        <5>7. 0 + 1 = 1 /\ 0 + three = 3 BY <5>2
        <5> QED BY <5>1, <5>6, <5>7
      <4>5. putMessage(data) = [head |-> m.head, payload |-> <<>>]
        BY <4>3, <4>4 DEF putMessage
      <4> QED BY <1>1, <3>1, <4>1, <4>5 DEF TakenForEmpty
    <3> QED BY <3>2, <3>3
  <2> QED BY <2>4, <2>5
<1>6. CASE Len(data) >= 3 + c
  <2>1. \A i \in 1..c : 3 + i \in 1 .. Len(data) BY <1>2, <1>3, <1>6
  <2>2. \A i \in 1..c : data[3 + i] = SizeBytes(n)[i] BY <1>2, <2>1
  <2>3. EndOfMessage(data) = 3 + c + n BY <1>1, <1>2, <1>6, <2>2, EndIs
  <2> QED BY <1>2, <1>3, <2>3 DEF isAllDataRecieved
<1> QED BY <1>2, <1>3, <1>4, <1>5, <1>6

-----------------------------------------------------------------------------
(* The invariant.                                                          *)

\* The first k messages of link l, as bytes.
Adds(l, f) ==
  /\ f \in [Nat -> Seq(Byte)] /\ f[0] = <<>>
  /\ \A k \in 0 .. Len(Sent[l]) - 1 : f[k + 1] = f[k] \o getAllData(Sent[l][k + 1])
Stream(l) == CHOOSE f : Adds(l, f)

\* The first messages of q are those sent first on l, and its bytes and b are all those of
\* the n messages sent.
Received(l, q, n) ==
  /\ n <= Len(Sent[l]) /\ Len(q) <= n
  /\ \A i \in 1 .. Len(q) : q[i] = Sent[l][i]
Whole(l, q, b, n) == Stream(l)[Len(q)] \o b = Stream(l)[n]

\* On a link that is not disturbed, each message queued is as ReceivedAsSent says; and
\* as long as all are those sent, what is not yet parsed or not yet read is the bytes of the
\* messages that are not queued yet.
Claimed(l) ==
  \A i \in 1 .. Len(recvqueue[l]) :
    AsSent(l, i - 1) =>
      /\ i <= sent[l]
      /\ recvqueue[l][i] = Sent[l][i] \/ TakenForEmpty(recvqueue[l][i], Sent[l][i])
Tidy(l) ==
  /\ Rest(l) \in Seq(Byte) /\ cdata[l] \in Seq(Byte) /\ wire[l] \in Seq(Byte)
  /\ pcRecv[l] \in {"read", "parse"} => cdata[l] = <<>>
  /\ Received(l, recvqueue[l], sent[l])
  /\ Whole(l, recvqueue[l], Rest(l) \o (cdata[l] \o wire[l]), sent[l])
Sound(l) == Claimed(l) /\ (AsSent(l, Len(recvqueue[l])) => Tidy(l))

\* The types of all links, disturbed or not, leave the contents of the buffers open.
IsSequence(q) == \E S : q \in Seq(S)
Types ==
  /\ sent \in [Link -> Nat] /\ \A l \in Link : sent[l] <= Len(Sent[l])
  /\ wire = [l \in Link |-> wire[l]] /\ pcRecv = [l \in Link |-> pcRecv[l]]
  /\ cdata = [l \in Link |-> cdata[l]] /\ pushdata = [l \in Link |-> pushdata[l]]
  /\ remaindata = [l \in Link |-> remaindata[l]]
  /\ recvqueue = [l \in Link |-> recvqueue[l]]
  /\ \A l \in Link : IsSequence(recvqueue[l])
FInv == Types /\ \A l \in Link \ disturbed : Sound(l)

\* Concatenations of bytes, in whatever order they are made.
LEMMA BytesJoin ==
  \A a, b, c \in Seq(Byte) : a \o b \in Seq(Byte) /\ (a \o b) \o c = a \o (b \o c)
<1> SUFFICES ASSUME NEW a \in Seq(Byte), NEW b \in Seq(Byte), NEW c \in Seq(Byte)
             PROVE  a \o b \in Seq(Byte) /\ (a \o b) \o c = a \o (b \o c)
  OBVIOUS
<1>1. a \o b \in Seq(Byte) BY ConcatProperties
<1>2. (a \o b) \o c = a \o (b \o c) BY ConcatAssociative
<1> QED BY <1>1, <1>2

\* What follows the same bytes is the same.
LEMMA BytesCancel ==
  ASSUME NEW a \in Seq(Byte), NEW b \in Seq(Byte), NEW c \in Seq(Byte), a \o b = a \o c
  PROVE  b = c
BY ConcatSimplifications

\* The messages that are sent.
LEMMA SentTypes ==
  ASSUME NEW l \in Link
  PROVE  /\ Sent[l] \in Seq(Message) /\ Len(Sent[l]) \in Nat
         /\ \A k \in 1 .. Len(Sent[l]) :
              Sent[l][k] \in Message /\ getAllData(Sent[l][k]) \in Seq(Byte)
<1>1. Sent[l] \in Seq(Message) BY FramingAssumption
<1>2. Len(Sent[l]) \in Nat /\ \A k \in 1 .. Len(Sent[l]) : Sent[l][k] \in Message
  BY <1>1, LenProperties
<1>3. \A m \in Message : getAllData(m) \in Seq(Byte) BY AllDataIs DEF Layout
<1> QED BY <1>1, <1>2, <1>3

\* Their bytes are those of the ones before and of the last one.
LEMMA StreamIs == ASSUME NEW l \in Link PROVE Adds(l, Stream(l))
<1>1. Sent[l] \in Seq(Message) /\ Len(Sent[l]) \in Nat BY SentTypes
<1> DEFINE B(k) == IF k < Len(Sent[l]) THEN getAllData(Sent[l][k + 1]) ELSE <<>>
<1>2. \A k \in Nat : B(k) \in Seq(Byte)
  <2> SUFFICES ASSUME NEW k \in Nat PROVE B(k) \in Seq(Byte)
    OBVIOUS
  <2>1. k < Len(Sent[l]) => k + 1 \in 1 .. Len(Sent[l]) BY <1>1
  <2>2. <<>> \in Seq(Byte) OBVIOUS
  <2> QED BY <2>1, <2>2, SentTypes
<1> HIDE DEF B
<1>3. \A k \in Nat : \A v \in Seq(Byte) : v \o B(k) \in Seq(Byte)
  BY <1>2, ConcatProperties
<1>4. PICK F \in [Nat -> [Seq(Byte) -> Seq(Byte)]] :
        F = [k \in Nat |-> [v \in Seq(Byte) |-> v \o B(k)]]
  BY <1>3
<1>5. PICK x \in Seq(Byte) : x = <<>>
  BY EmptySeq
<1>6. PICK f \in [Nat -> Seq(Byte)] : Iterates(F, x, f)
  BY RecursiveFunction
<1>7. \A k \in 0 .. Len(Sent[l]) - 1 : f[k + 1] = f[k] \o getAllData(Sent[l][k + 1])
  <2> SUFFICES ASSUME NEW k \in 0 .. Len(Sent[l]) - 1
               PROVE  f[k + 1] = f[k] \o getAllData(Sent[l][k + 1])
    OBVIOUS
  <2>1. k \in Nat /\ k < Len(Sent[l]) BY <1>1
  <2>2. f[k + 1] = F[k][f[k]] BY <1>6, <2>1 DEF Iterates
  <2>3. F[k][f[k]] = f[k] \o B(k) BY <1>4, <2>1
  <2> QED BY <2>1, <2>2, <2>3 DEF B
<1>8. Adds(l, f) BY <1>5, <1>6, <1>7 DEF Adds, Iterates
<1> QED BY <1>8 DEF Stream

\* The bytes of more messages begin with those of fewer.
LEMMA StreamGrows ==
  ASSUME NEW l \in Link, NEW r \in Nat, NEW n \in Nat, r <= n, n <= Len(Sent[l])
  PROVE  \E x \in Seq(Byte) : Stream(l)[n] = Stream(l)[r] \o x
<1>1. PICK f : f = Stream(l) /\ Adds(l, f) BY StreamIs
<1>2. f \in [Nat -> Seq(Byte)] BY <1>1 DEF Adds
<1> DEFINE P == {k \in Nat : r <= k /\ k <= Len(Sent[l]) =>
                   \E x \in Seq(Byte) : f[k] = f[r] \o x}
<1>3. Len(Sent[l]) \in Nat BY SentTypes
<1>4. f[r] \in Seq(Byte) /\ f[r] \o <<>> = f[r] /\ <<>> \in Seq(Byte)
  BY <1>2, ConcatEmptySeq
<1>5. 0 \in P
  <2> SUFFICES ASSUME r <= 0 PROVE \E x \in Seq(Byte) : f[0] = f[r] \o x
    OBVIOUS
  <2>1. r = 0 OBVIOUS
  <2> QED BY <1>4, <2>1
<1>6. ASSUME NEW k \in Nat, k \in P
      PROVE  k + 1 \in P
  <2> SUFFICES ASSUME r <= k + 1, k + 1 <= Len(Sent[l])
               PROVE  \E x \in Seq(Byte) : f[k + 1] = f[r] \o x
    OBVIOUS
  <2>1. CASE r = k + 1 BY <1>4, <2>1
  <2>2. CASE r # k + 1
    <3>1. PICK x \in Seq(Byte) : f[k] = f[r] \o x
      <4>1. r <= k /\ k <= Len(Sent[l]) BY <1>3, <2>2
      <4> QED BY <1>6, <4>1
    <3>2. PICK y \in Seq(Byte) : y = getAllData(Sent[l][k + 1])
      <4>1. k + 1 \in 1 .. Len(Sent[l]) BY <1>3
      <4> QED BY <4>1, SentTypes
    <3>3. f[k + 1] = f[k] \o y
      <4>1. k \in 0 .. Len(Sent[l]) - 1 BY <1>3
      <4> QED BY <1>1, <3>2, <4>1 DEF Adds
    <3>4. f[k + 1] = f[r] \o (x \o y)
      <4>1. PICK a \in Seq(Byte) : a = f[r]
        BY <1>4
      <4>2. (a \o x) \o y = a \o (x \o y) BY BytesJoin
      <4> QED BY <3>1, <3>3, <4>1, <4>2
    <3>5. x \o y \in Seq(Byte) BY ConcatProperties
    <3> QED BY <3>4, <3>5
  <2> QED BY <2>1, <2>2
<1> HIDE DEF P
<1>7. Nat \subseteq P BY <1>5, <1>6, NatInd
<1>8. n \in P BY <1>7
<1> QED BY <1>1, <1>8 DEF P

\* Writing a message adds its bytes.
LEMMA MoreSent ==
  ASSUME NEW l \in Link, NEW q, Len(q) \in Nat, NEW n \in Nat, NEW b \in Seq(Byte),
         Received(l, q, n), Whole(l, q, b, n), n < Len(Sent[l])
  PROVE  /\ getAllData(Sent[l][n + 1]) \in Seq(Byte)
         /\ Received(l, q, n + 1)
         /\ Whole(l, q, b \o getAllData(Sent[l][n + 1]), n + 1)
<1>1. Len(Sent[l]) \in Nat /\ Len(q) \in Nat BY SentTypes, LenProperties
<1>2. PICK y \in Seq(Byte) : y = getAllData(Sent[l][n + 1])
  <2>1. n + 1 \in 1 .. Len(Sent[l]) BY <1>1
  <2> QED BY <2>1, SentTypes
<1>3. Received(l, q, n + 1) BY <1>1 DEF Received
<1>4. PICK f : f = Stream(l) /\ Adds(l, f) BY StreamIs
<1>5. f[n + 1] = f[n] \o y
  <2>1. n \in 0 .. Len(Sent[l]) - 1 BY <1>1
  <2> QED BY <1>2, <1>4, <2>1 DEF Adds
<1>6. PICK a \in Seq(Byte) : a = f[Len(q)]
  BY <1>1, <1>4 DEF Adds
<1>7. a \o b = f[n] BY <1>4, <1>6 DEF Whole
<1>8. (a \o b) \o y = a \o (b \o y) BY BytesJoin
<1>9. Whole(l, q, b \o y, n + 1) BY <1>4, <1>5, <1>6, <1>7, <1>8 DEF Whole
<1> QED BY <1>2, <1>3, <1>9

\* What is taken for a whole message is the next one that was sent, or is taken for empty.
NextOrEmpty(l, q, data, w, n) ==
  /\ Len(q) + 1 <= n
  /\ \/ /\ putMessage(data) = Sent[l][Len(q) + 1]
        /\ putMessage(data) \in Message /\ Remainder(data) \in Seq(Byte)
        /\ Received(l, Append(q, putMessage(data)), n)
        /\ Whole(l, Append(q, putMessage(data)), Remainder(data) \o w, n)
     \/ TakenForEmpty(putMessage(data), Sent[l][Len(q) + 1])
LEMMA NextReceived ==
  ASSUME NEW l \in Link, NEW q \in Seq(Message), NEW n \in Nat,
         NEW data \in Seq(Byte), NEW w \in Seq(Byte),
         Received(l, q, n), Whole(l, q, data \o w, n), isAllDataRecieved(data)
  PROVE  NextOrEmpty(l, q, data, w, n)
<1>1. PICK r \in Nat : r = Len(q) BY LenProperties
<1>2. Len(Sent[l]) \in Nat /\ r <= n /\ n <= Len(Sent[l])
  BY <1>1, SentTypes DEF Received
<1>3. PICK f : f = Stream(l) /\ Adds(l, f) BY StreamIs
<1>4. f[r] \in Seq(Byte) /\ f[r] \o (data \o w) = f[n]
  BY <1>1, <1>3 DEF Adds, Whole
<1>5. PICK a \in Seq(Byte) : a = f[r]
  BY <1>4
<1>6. data \o w \in Seq(Byte) BY BytesJoin
<1>7. Len(data) \in Nat /\ Len(data) >= 3
  BY LenProperties DEF isAllDataRecieved
<1>8. r < n
  <2> SUFFICES ASSUME ~(r < n) PROVE FALSE
    OBVIOUS
  <2>1. r = n BY <1>2
  <2>2. a \o (data \o w) = a \o <<>>
    <3>1. a \o <<>> = a BY ConcatEmptySeq
    <3> QED BY <1>4, <1>5, <2>1, <3>1
  <2>3. <<>> \in Seq(Byte) BY EmptySeq
  <2>4. data \o w = <<>> BY <1>6, <2>2, <2>3, BytesCancel
  <2>5. data = <<>> BY <2>4, ConcatSimplifications
  <2> QED BY <1>7, <2>5, EmptySeq
<1>9. r + 1 \in 1 .. Len(Sent[l]) /\ r \in 0 .. Len(Sent[l]) - 1 /\ r + 1 \in Nat /\ r + 1 <= n
  BY <1>2, <1>8
<1>10. PICK m \in Message, g \in Seq(Byte) :
         m = Sent[l][r + 1] /\ g = getAllData(m)
  BY <1>9, SentTypes
<1>11. f[r + 1] = a \o g BY <1>3, <1>5, <1>9, <1>10 DEF Adds
<1>12. PICK x \in Seq(Byte) : f[n] = f[r + 1] \o x
  BY <1>2, <1>3, <1>9, StreamGrows
<1>13. data \o w = g \o x
  <2>1. (a \o g) \o x = a \o (g \o x) /\ g \o x \in Seq(Byte) BY BytesJoin
  <2>2. a \o (data \o w) = a \o (g \o x) BY <1>4, <1>5, <1>11, <1>12, <2>1
  <2>3. PICK u \in Seq(Byte), v \in Seq(Byte) : u = data \o w /\ v = g \o x
    BY <1>6, <2>1
  <2>4. a \o u = a \o v BY <2>2, <2>3
  <2>5. u = v BY <2>4, BytesCancel
  <2> QED BY <2>3, <2>5
<1>14. PICK d \in Nat, e \in Nat : d = Len(data) /\ e = Len(g)
  BY LenProperties
<1>15. PICK u : u = data \o w
  OBVIOUS
<1>16. Len(u) = d + Len(w) /\ \A i \in 1..d : u[i] = data[i]
  <2>1. /\ Len(data \o w) = Len(data) + Len(w)
        /\ \A i \in 1 .. Len(data) : (data \o w)[i] = data[i]
    BY ConcatIs
  <2> QED BY <1>14, <1>15, <2>1
<1>17. /\ Len(u) = e + Len(x)
       /\ \A i \in 1..e : u[i] = g[i]
       /\ \A i \in 1 .. Len(x) : u[e + i] = x[i]
  <2>1. /\ Len(g \o x) = Len(g) + Len(x)
        /\ \A i \in 1 .. Len(g) : (g \o x)[i] = g[i]
        /\ \A i \in 1 .. Len(x) : (g \o x)[Len(g) + i] = x[i]
    BY ConcatIs
  <2> QED BY <1>13, <1>14, <1>15, <2>1
<1>18. ASSUME d < e
       PROVE  NextOrEmpty(l, q, data, w, n)
  <2>1. \A i \in 1..d : i \in 1..e BY <1>18
  <2>2. \A i \in 1..d : data[i] = g[i] BY <1>16, <1>17, <2>1
  <2>3. TakenForEmpty(putMessage(data), m) BY <1>10, <1>14, <1>18, <2>2, ParseCut
  <2> QED BY <1>1, <1>9, <1>10, <2>3 DEF NextOrEmpty
<1> SUFFICES ASSUME ~(d < e) PROVE NextOrEmpty(l, q, data, w, n)
  BY <1>18
<1>19. PICK y \in Seq(Byte) : data = g \o y
  <2>1. PICK k \in Nat : d = e + k
    <3>1. d - e \in Nat /\ d = e + (d - e) OBVIOUS
    <3> QED BY <3>1
  <2>2. \A i \in 1..k : data[e + i] \in Byte
    <3>1. \A i \in 1..k : e + i \in 1..d BY <2>1
    <3> QED BY <1>14, <3>1, LenProperties
  <2>3. PICK y \in [1..k -> Byte] : y = [i \in 1..k |-> data[e + i]]
    BY <2>2
  <2>4. y \in Seq(Byte) /\ Len(y) = k BY SeqFromFunction
  <2>5. /\ g \o y \in Seq(Byte) /\ Len(g \o y) = Len(g) + Len(y)
        /\ \A i \in 1 .. Len(g) : (g \o y)[i] = g[i]
        /\ \A i \in 1 .. Len(y) : (g \o y)[Len(g) + i] = y[i]
    <3>1. y \in Seq(Byte) BY <2>4
    <3> QED BY <3>1, ConcatIs
  <2>6. PICK v \in Seq(Byte) : v = g \o y
    BY <2>5
  <2>7. Len(v) = d /\ \A i \in 1..e : v[i] = g[i]
    BY <1>14, <2>1, <2>4, <2>5, <2>6
  <2>8. \A i \in 1..k : v[e + i] = y[i] BY <1>14, <2>4, <2>5, <2>6
  <2>9. \A i \in 1..d : v[i] = data[i]
    <3> SUFFICES ASSUME NEW i \in 1..d PROVE v[i] = data[i]
      OBVIOUS
    <3>1. CASE i <= e
      <4>1. i \in 1..e BY <3>1
      <4> QED BY <1>16, <1>17, <2>7, <4>1
    <3>2. CASE ~(i <= e)
      <4>1. PICK j \in 1..k : i = e + j
        <5>1. i - e \in 1..k /\ i = e + (i - e) BY <2>1, <3>2
        <5> QED BY <5>1
      <4> QED BY <2>3, <2>8, <4>1
    <3> QED BY <3>1, <3>2
  <2>10. v = data BY <1>14, <2>7, <2>9, SeqEqual
  <2> QED BY <2>4, <2>6, <2>10
<1>20. putMessage(data) = m /\ Remainder(data) = y BY <1>10, <1>19, ParseWhole
<1>21. y \o w = x
  <2>1. (g \o y) \o w = g \o (y \o w) /\ y \o w \in Seq(Byte) BY BytesJoin
  <2>2. g \o (y \o w) = g \o x BY <1>13, <1>19, <2>1
  <2>3. PICK z \in Seq(Byte) : z = y \o w
    BY <2>1
  <2>4. g \o z = g \o x BY <2>2, <2>3
  <2>5. z = x BY <2>4, BytesCancel
  <2> QED BY <2>3, <2>5
<1>22. PICK s \in Seq(Message) : s = Append(q, m)
  BY AppendProperties
<1>23. Len(s) = r + 1 /\ (\A i \in 1..r : s[i] = q[i]) /\ s[r + 1] = m
  BY <1>1, <1>22, AppendProperties
<1>24. Received(l, s, n)
  <2>1. \A i \in 1 .. r + 1 : i \in 1..r \/ i = r + 1 OBVIOUS
  <2>2. \A i \in 1..r : q[i] = Sent[l][i] BY <1>1 DEF Received
  <2>3. \A i \in 1 .. r + 1 : s[i] = Sent[l][i] BY <1>10, <1>23, <2>1, <2>2
  <2> QED BY <1>2, <1>9, <1>23, <2>3 DEF Received
<1>25. Whole(l, s, y \o w, n) BY <1>3, <1>12, <1>21, <1>23 DEF Whole
<1> QED BY <1>1, <1>9, <1>10, <1>20, <1>22, <1>24, <1>25 DEF NextOrEmpty

-----------------------------------------------------------------------------
(* The steps.                                                              *)

\* Nothing is sent, read or queued at the start.
LEMMA FInit == Init => FInv
<1> SUFFICES ASSUME Init PROVE FInv
  OBVIOUS
<1>1. <<>> \in Seq(Byte) /\ <<>> \in Seq(Message) /\ Len(<<>>) = 0
  OBVIOUS
<1>2. Types
  <2>1. \A l \in Link : IsSequence(recvqueue[l])
    <3>1. IsSequence(<<>>) BY <1>1 DEF IsSequence
    <3> QED BY <3>1 DEF Init
  <2>2. \A l \in Link : sent[l] <= Len(Sent[l]) BY SentTypes DEF Init
  <2> QED BY <2>1, <2>2 DEF Types, Init
<1>3. ASSUME NEW l \in Link PROVE Sound(l)
  <2>1. /\ recvqueue[l] = <<>> /\ sent[l] = 0 /\ Rest(l) = <<>>
        /\ cdata[l] = <<>> /\ wire[l] = <<>>
    BY DEF Init, Rest
  <2>2. Received(l, <<>>, 0) BY <1>1, SentTypes DEF Received
  <2>3. Whole(l, <<>>, <<>> \o (<<>> \o <<>>), 0)
    <3>1. PICK f : f = Stream(l) /\ Adds(l, f) BY StreamIs
    <3>2. f[0] = <<>> BY <3>1 DEF Adds
    <3>3. <<>> \o <<>> = <<>> BY <1>1, ConcatEmptySeq
    <3> QED BY <1>1, <3>1, <3>2, <3>3 DEF Whole
  <2>4. Tidy(l) BY <1>1, <2>1, <2>2, <2>3 DEF Tidy
  <2>5. Claimed(l) BY <1>1, <2>1 DEF Claimed
  <2> QED BY <2>4, <2>5 DEF Sound
<1> QED BY <1>2, <1>3 DEF FInv

\* What has been queued stays, and so does what is claimed of it.
LEMMA ClaimKept ==
  ASSUME NEW l \in Link, Types, Types', Claimed(l),
         recvqueue'[l] = recvqueue[l], sent[l] <= sent'[l]
  PROVE  Claimed(l)' /\ (AsSent(l, Len(recvqueue[l]))' => AsSent(l, Len(recvqueue[l])))
<1>1. PICK q : q = recvqueue[l] /\ q = recvqueue'[l]
  OBVIOUS
<1>2. PICK n \in Nat, m \in Nat : n = sent[l] /\ m = sent'[l] /\ n <= m
  BY DEF Types
<1>3. \A i : AsSent(l, i)' <=> AsSent(l, i) BY <1>1 DEF AsSent
<1>4. ASSUME NEW i \in 1 .. Len(q), AsSent(l, i - 1)'
      PROVE  i <= m /\ (q[i] = Sent[l][i] \/ TakenForEmpty(q[i], Sent[l][i]))
  <2>1. AsSent(l, i - 1) BY <1>1, <1>4 DEF AsSent
  <2>2. i <= n /\ (q[i] = Sent[l][i] \/ TakenForEmpty(q[i], Sent[l][i]))
    BY <1>1, <1>2, <2>1 DEF Claimed
  <2> QED BY <1>2, <2>2
<1>5. Claimed(l)' BY <1>1, <1>2, <1>4 DEF Claimed
<1>6. AsSent(l, Len(recvqueue[l]))' => AsSent(l, Len(recvqueue[l])) BY <1>1 DEF AsSent
<1> QED BY <1>5, <1>6

\* What holds of a link holds after a step that leaves it alone.
Alone(l) ==
  /\ sent'[l] = sent[l] /\ wire'[l] = wire[l] /\ cdata'[l] = cdata[l]
  /\ pcRecv'[l] = pcRecv[l] /\ recvqueue'[l] = recvqueue[l] /\ Rest(l)' = Rest(l)
LEMMA AloneSound ==
  ASSUME NEW l \in Link, Types, Types', Sound(l), Alone(l)
  PROVE  Sound(l)'
<1>1. sent[l] <= sent'[l] BY DEF Types, Alone
<1>2. Claimed(l)' /\ (AsSent(l, Len(recvqueue[l]))' => AsSent(l, Len(recvqueue[l])))
  BY <1>1, ClaimKept DEF Sound, Alone
<1>3. Tidy(l) => Tidy(l)' BY DEF Tidy, Alone, Received, Whole
<1> QED BY <1>2, <1>3 DEF Sound

\* The bytes of the message written come after those on their way.
LEMMA SendSound ==
  ASSUME FInv, NEW l \in Link, Send(l)
  PROVE  FInv'
<1>1. Types BY DEF FInv
<1>2. PICK data : /\ data = getAllData(Sent[l][sent[l] + 1])
                  /\ wire' = [wire EXCEPT ![l] = @ \o checkSameSeq(data)]
                  /\ disturbed' = disturbed \cup {k \in {l} : checkSameSeq(data) # data}
  BY DEF Send
<1>3. /\ sent[l] < Len(Sent[l]) /\ sent' = [sent EXCEPT ![l] = @ + 1]
      /\ UNCHANGED <<pcRecv, cdata, pushdata, remaindata, recvqueue>>
  BY DEF Send, threadVars
<1>4. Types'
  <2>1. PICK n \in Nat, z \in Nat : n = sent[l] /\ z = Len(Sent[l]) /\ n < z
    BY <1>1, <1>3, SentTypes DEF Types
  <2>2. sent' = [sent EXCEPT ![l] = n + 1] /\ n + 1 \in Nat /\ n + 1 <= z BY <1>3, <2>1
  <2>3. sent' \in [Link -> Nat] /\ \A k \in Link : sent'[k] <= Len(Sent[k])
    BY <1>1, <2>1, <2>2 DEF Types
  <2>4. wire' = [k \in Link |-> wire'[k]] BY <1>1, <1>2 DEF Types
  <2> QED BY <1>1, <1>3, <2>3, <2>4 DEF Types
<1>5. ASSUME NEW j \in Link \ disturbed', j # l PROVE Sound(j)'
  <2>1. j \notin disturbed BY <1>2, <1>5
  <2>2. Alone(j) BY <1>1, <1>2, <1>3, <1>5 DEF Types, Alone, Rest
  <2> QED BY <1>1, <1>4, <2>1, <2>2, AloneSound DEF FInv
<1>6. ASSUME l \notin disturbed' PROVE Sound(l)'
  <2>1. Sound(l) /\ checkSameSeq(data) = data BY <1>2, <1>6 DEF FInv
  <2>2. PICK n \in Nat : n = sent[l] BY <1>1 DEF Types
  <2>3. sent'[l] = n + 1 /\ recvqueue'[l] = recvqueue[l] BY <1>1, <1>3, <2>2 DEF Types
  <2>4. Claimed(l)' /\ (AsSent(l, Len(recvqueue[l]))' => AsSent(l, Len(recvqueue[l])))
    <3>1. sent[l] <= sent'[l] BY <2>2, <2>3
    <3> QED BY <1>1, <1>4, <2>1, <2>3, <3>1, ClaimKept DEF Sound
  <2>5. ASSUME Tidy(l) PROVE Tidy(l)'
    <3>0. PICK q : q = recvqueue[l]
      OBVIOUS
    <3>1. PICK b \in Seq(Byte), d \in Seq(Byte), w \in Seq(Byte) :
            b = Rest(l) /\ d = cdata[l] /\ w = wire[l]
      BY <2>5 DEF Tidy
    <3>2. d \o w \in Seq(Byte) /\ b \o (d \o w) \in Seq(Byte) BY BytesJoin
    <3>3. /\ data \in Seq(Byte) /\ Received(l, q, n + 1)
          /\ Whole(l, q, (b \o (d \o w)) \o data, n + 1)
      <4>1. Received(l, q, n) /\ Whole(l, q, b \o (d \o w), n) BY <2>2, <2>5, <3>0, <3>1 DEF Tidy
      <4>2. n < Len(Sent[l]) BY <1>3, <2>2
      <4>3. Len(q) \in Nat BY <1>1, <3>0, LenProperties DEF Types, IsSequence
      <4> QED BY <1>2, <2>2, <3>2, <4>1, <4>2, <4>3, MoreSent
    <3>4. (b \o (d \o w)) \o data = b \o (d \o (w \o data))
      <4>1. (d \o w) \o data = d \o (w \o data) BY <3>3, BytesJoin
      <4>2. PICK u \in Seq(Byte) : u = d \o w BY <3>2
      <4>3. (b \o u) \o data = b \o (u \o data) BY <3>3, BytesJoin
      <4> QED BY <4>1, <4>2, <4>3
    <3>5. w \o data \in Seq(Byte) BY <3>3, BytesJoin
    <3>6. /\ wire'[l] = w \o data /\ cdata'[l] = d /\ Rest(l)' = b
          /\ recvqueue'[l] = q /\ sent'[l] = n + 1
      BY <1>1, <1>2, <1>3, <2>1, <2>3, <3>0, <3>1 DEF Types, Rest
    <3>7. pcRecv'[l] \in {"read", "parse"} => cdata'[l] = <<>> BY <1>3, <2>5 DEF Tidy
    <3> QED BY <3>1, <3>3, <3>4, <3>5, <3>6, <3>7 DEF Tidy, Received, Whole
  <2> QED BY <2>1, <2>4, <2>5 DEF Sound
<1> QED BY <1>4, <1>5, <1>6 DEF FInv

\* What is read comes after what was left of the reads before.
LEMMA ReadSound ==
  ASSUME FInv, NEW l \in Link, Read(l)
  PROVE  FInv'
<1>1. Types BY DEF FInv
<1>2. PICK k \in MinRead .. MaxRead :
        /\ k <= Len(wire[l])
        /\ cdata' = [cdata EXCEPT ![l] = SubSeq(wire[l], 1, k)]
        /\ wire' = [wire EXCEPT ![l] = SubSeq(@, k + 1, Len(@))]
  BY DEF Read
<1>3. /\ pcRecv[l] = "read" /\ pcRecv' = [pcRecv EXCEPT ![l] = "call"]
      /\ UNCHANGED <<sent, pushdata, remaindata, recvqueue, disturbed>>
  BY DEF Read
<1>4. Types' BY <1>1, <1>2, <1>3 DEF Types
<1>5. ASSUME NEW j \in Link \ disturbed', j # l PROVE Sound(j)'
  <2>1. j \notin disturbed BY <1>3, <1>5
  <2>2. Alone(j) BY <1>1, <1>2, <1>3, <1>5 DEF Types, Alone, Rest
  <2> QED BY <1>1, <1>4, <2>1, <2>2, AloneSound DEF FInv
<1>6. ASSUME l \notin disturbed' PROVE Sound(l)'
  <2>1. Sound(l) BY <1>3, <1>6 DEF FInv
  <2>2. /\ sent'[l] = sent[l] /\ recvqueue'[l] = recvqueue[l] /\ Rest(l)' = Rest(l)
        /\ cdata'[l] = SubSeq(wire[l], 1, k) /\ wire'[l] = SubSeq(wire[l], k + 1, Len(wire[l]))
    BY <1>1, <1>2, <1>3 DEF Types, Rest
  <2>3. Claimed(l)' /\ (AsSent(l, Len(recvqueue[l]))' => AsSent(l, Len(recvqueue[l])))
    <3>1. sent[l] <= sent'[l] BY <1>1, <2>2 DEF Types
    <3> QED BY <1>1, <1>4, <2>1, <2>2, <3>1, ClaimKept DEF Sound
  <2>4. ASSUME Tidy(l) PROVE Tidy(l)'
    <3>1. PICK w \in Seq(Byte) : w = wire[l]
      BY <2>4 DEF Tidy
    <3>2. PICK r \in Nat : r = Len(w)
      BY LenProperties
    <3>3. k \in Nat /\ 1 <= k /\ k <= r
      BY <1>2, <3>1, <3>2, FramingAssumption DEF MinRead
    <3>4. \A i \in 1..r : w[i] \in Byte BY <3>2, LenProperties
    <3>5. PICK x \in Seq(Byte) : x = SubSeq(w, 1, k)
      <4>1. \A i \in 1..k : w[i] \in Byte BY <3>3, <3>4
      <4>2. 1 \in Int /\ k \in Int BY <3>3
      <4>3. SubSeq(w, 1, k) \in Seq(Byte) BY <4>1, <4>2, SubSeqProperties
      <4> QED BY <4>3
    <3>6. PICK y \in Seq(Byte) : y = SubSeq(w, k + 1, r)
      <4>1. \A i \in k + 1 .. r : w[i] \in Byte BY <3>3, <3>4
      <4>2. k + 1 \in Int /\ r \in Int BY <3>3
      <4> QED BY <4>1, <4>2, SubSeqProperties
    <3>7. x \o y = w
      <4>1. 1 \in 1 .. r + 1 /\ k \in 1 - 1 .. r /\ r \in k .. r BY <3>3
      <4>2. SubSeq(w, 1, k) \o SubSeq(w, k + 1, r) = SubSeq(w, 1, r)
        BY <3>2, <4>1, ConcatAdjacentSubSeq
      <4>3. SubSeq(w, 1, r) = w BY <3>2, SubSeqFull
      <4> QED BY <3>5, <3>6, <4>2, <4>3
    <3>8. <<>> \o w = w BY ConcatEmptySeq
    <3>10. cdata[l] = <<>> /\ pcRecv'[l] = "call" BY <1>1, <1>3, <2>4 DEF Types, Tidy
    <3>9. cdata'[l] = x /\ wire'[l] = y BY <2>2, <3>1, <3>2, <3>5, <3>6
    <3> QED BY <2>2, <2>4, <3>1, <3>7, <3>8, <3>9, <3>10 DEF Tidy, Received, Whole
  <2> QED BY <2>1, <2>3, <2>4 DEF Sound
<1> QED BY <1>4, <1>5, <1>6 DEF FInv

\* The read is handed on as it is, behind what was left.
LEMMA CallWholeSound ==
  ASSUME FInv, NEW l \in Link, CallWhole(l)
  PROVE  FInv'
<1>1. Types BY DEF FInv
<1>2. /\ pcRecv[l] = "call" /\ pcRecv' = [pcRecv EXCEPT ![l] = "parse"]
      /\ pushdata' = [pushdata EXCEPT ![l] = remaindata[l] \o cdata[l]]
      /\ cdata' = [cdata EXCEPT ![l] = <<>>]
      /\ UNCHANGED <<sent, wire, remaindata, recvqueue, disturbed>>
  BY DEF CallWhole
<1>3. Types' BY <1>1, <1>2 DEF Types
<1>4. ASSUME NEW j \in Link \ disturbed', j # l PROVE Sound(j)'
  <2>1. j \notin disturbed BY <1>2, <1>4
  <2>2. Alone(j) BY <1>1, <1>2, <1>4 DEF Types, Alone, Rest
  <2> QED BY <1>1, <1>3, <2>1, <2>2, AloneSound DEF FInv
<1>5. ASSUME l \notin disturbed' PROVE Sound(l)'
  <2>1. Sound(l) BY <1>2, <1>5 DEF FInv
  <2>2. /\ sent'[l] = sent[l] /\ recvqueue'[l] = recvqueue[l] /\ wire'[l] = wire[l]
        /\ Rest(l) = remaindata[l] /\ Rest(l)' = remaindata[l] \o cdata[l] /\ cdata'[l] = <<>>
    BY <1>1, <1>2 DEF Types, Rest
  <2>3. Claimed(l)' /\ (AsSent(l, Len(recvqueue[l]))' => AsSent(l, Len(recvqueue[l])))
    <3>1. sent[l] <= sent'[l] BY <1>1, <2>2 DEF Types
    <3> QED BY <1>1, <1>3, <2>1, <2>2, <3>1, ClaimKept DEF Sound
  <2>4. ASSUME Tidy(l) PROVE Tidy(l)'
    <3>1. PICK b \in Seq(Byte), d \in Seq(Byte), w \in Seq(Byte) :
            b = Rest(l) /\ d = cdata[l] /\ w = wire[l]
      BY <2>4 DEF Tidy
    <3>2. b \o d \in Seq(Byte) /\ (b \o d) \o w = b \o (d \o w) BY BytesJoin
    <3>3. <<>> \o w = w /\ <<>> \in Seq(Byte) BY ConcatEmptySeq
    <3>4. Rest(l)' = b \o d /\ cdata'[l] = <<>> /\ wire'[l] = w BY <2>2, <3>1
    <3>5. (b \o d) \o (<<>> \o w) = b \o (d \o w) BY <3>2, <3>3
    <3>6. Received(l, recvqueue[l], sent[l]) /\ Whole(l, recvqueue[l], b \o (d \o w), sent[l])
      BY <2>4, <3>1 DEF Tidy
    <3> QED BY <2>2, <3>2, <3>3, <3>4, <3>5, <3>6 DEF Tidy, Received, Whole
  <2> QED BY <2>1, <2>3, <2>4 DEF Sound
<1> QED BY <1>3, <1>4, <1>5 DEF FInv

\* A read that is split disturbs its link.
LEMMA CallSplitSound ==
  ASSUME FInv, NEW l \in Link, CallSplit(l)
  PROVE  FInv'
<1>1. Types BY DEF FInv
<1>2. PICK change :
        /\ pushdata' = [pushdata EXCEPT ![l] = remaindata[l] \o SubSeq(cdata[l], 1, change - 1)]
        /\ cdata' = [cdata EXCEPT ![l] = SubSeq(@, change + 6, Len(@))]
  BY DEF CallSplit
<1>3. /\ pcRecv' = [pcRecv EXCEPT ![l] = "split"] /\ disturbed' = disturbed \cup {l}
      /\ UNCHANGED <<sent, wire, remaindata, recvqueue>>
  BY DEF CallSplit
<1>4. Types' BY <1>1, <1>2, <1>3 DEF Types
<1>5. ASSUME NEW j \in Link \ disturbed' PROVE Sound(j)'
  <2>1. j \notin disturbed /\ j # l BY <1>3, <1>5
  <2>2. Alone(j) BY <1>1, <1>2, <1>3, <2>1 DEF Types, Alone, Rest
  <2> QED BY <1>1, <1>4, <2>1, <2>2, AloneSound DEF FInv
<1> QED BY <1>4, <1>5 DEF FInv

\* A message that is queued is the next one, or taken for empty.
LEMMA ReceiveSound ==
  ASSUME FInv, NEW l \in Link, Receive(l)
  PROVE  FInv'
<1>1. Types BY DEF FInv
<1>2. PICK m : m = putMessage(pushdata[l])
  OBVIOUS
<1>3. /\ pcRecv[l] \in {"parse", "split"} /\ isAllDataRecieved(pushdata[l])
      /\ recvqueue' = [recvqueue EXCEPT ![l] = Append(@, m)]
      /\ pushdata' = [pushdata EXCEPT ![l] = Remainder(@)]
      /\ UNCHANGED <<sent, wire, pcRecv, cdata, remaindata, disturbed>>
  BY <1>2 DEF Receive
<1>4. PICK q, s : q = recvqueue[l] /\ s = Append(q, m)
  OBVIOUS
<1>5. PICK S : q \in Seq(S) BY <1>1, <1>4 DEF Types, IsSequence
<1>6. PICK r \in Nat : r = Len(q) BY <1>5, LenProperties
<1>7. /\ s \in Seq(S \cup {m}) /\ Len(s) = r + 1
      /\ (\A i \in 1..r : s[i] = q[i]) /\ s[r + 1] = m
  <2>1. q \in Seq(S \cup {m})
    <3>1. \A i \in 1 .. Len(q) : q[i] \in S \cup {m} BY <1>5, ElementOfSeq
    <3>2. q = [i \in 1 .. Len(q) |-> q[i]] BY <1>5, LenProperties
    <3>3. q \in [1 .. Len(q) -> S \cup {m}] BY <3>1, <3>2
    <3>4. Len(q) \in Nat BY <1>6
    <3> QED BY <3>3, <3>4, SeqFromFunction
  <2>2. m \in S \cup {m}
    OBVIOUS
  <2> QED BY <1>4, <1>6, <2>1, <2>2, AppendProperties
<1>8. recvqueue'[l] = s /\ pushdata'[l] = Remainder(pushdata[l])
  BY <1>1, <1>3, <1>4 DEF Types
<1>9. Types'
  <2>1. IsSequence(s) BY <1>7 DEF IsSequence
  <2>2. \A k \in Link : k # l => recvqueue'[k] = recvqueue[k] BY <1>1, <1>3 DEF Types
  <2>3. \A k \in Link : IsSequence(recvqueue'[k]) BY <1>1, <1>8, <2>1, <2>2 DEF Types
  <2> QED BY <1>1, <1>3, <2>3 DEF Types
<1>10. ASSUME NEW j \in Link \ disturbed', j # l PROVE Sound(j)'
  <2>1. j \notin disturbed BY <1>3, <1>10
  <2>2. Alone(j) BY <1>1, <1>3, <1>10 DEF Types, Alone, Rest
  <2> QED BY <1>1, <1>9, <2>1, <2>2, AloneSound DEF FInv
<1>11. ASSUME l \notin disturbed' PROVE Sound(l)'
  <2>1. Sound(l) BY <1>3, <1>11 DEF FInv
  <2>2. PICK n \in Nat : n = sent[l] /\ n = sent'[l] BY <1>1, <1>3 DEF Types
  <2>3. ASSUME AsSent(l, r)
        PROVE  \/ m = Sent[l][r + 1] /\ r + 1 <= n /\ Tidy(l)'
               \/ TakenForEmpty(m, Sent[l][r + 1]) /\ r + 1 <= n
    <3>1. Tidy(l) BY <1>4, <1>6, <2>1, <2>3 DEF Sound
    <3>2. PICK b \in Seq(Byte), d \in Seq(Byte), w \in Seq(Byte) :
            b = Rest(l) /\ d = cdata[l] /\ w = wire[l]
      BY <3>1 DEF Tidy
    <3>3. b = pushdata[l] BY <1>3, <3>2 DEF Rest
    <3>4. d \o w \in Seq(Byte) BY BytesJoin
    <3>5. Received(l, q, n) /\ Whole(l, q, b \o (d \o w), n)
      BY <1>4, <2>2, <3>1, <3>2 DEF Tidy
    <3>6. q \in Seq(Message)
      <4>1. \A i \in 1..r : q[i] \in Message
        <5>1. \A i \in 1..r : i \in 1 .. Len(Sent[l]) BY <1>6, <3>5, SentTypes DEF Received
        <5>2. \A i \in 1..r : q[i] = Sent[l][i] BY <1>6, <3>5 DEF Received
        <5> QED BY <5>1, <5>2, SentTypes
      <4>2. q = [i \in 1..r |-> q[i]] BY <1>5, <1>6, LenProperties
      <4>3. q \in [1..r -> Message] BY <4>1, <4>2
      <4> QED BY <4>3, SeqFromFunction
    <3>7. isAllDataRecieved(b) /\ m = putMessage(b) BY <1>2, <1>3, <3>3
    <3>8. NextOrEmpty(l, q, b, d \o w, n) BY <3>4, <3>5, <3>6, <3>7, NextReceived
    <3>9. ASSUME m = Sent[l][r + 1], Remainder(b) \in Seq(Byte), Received(l, s, n),
                 Whole(l, s, Remainder(b) \o (d \o w), n)
          PROVE  Tidy(l)'
      <4>1. /\ Rest(l)' = Remainder(b) /\ cdata'[l] = d /\ wire'[l] = w
            /\ pcRecv'[l] = pcRecv[l]
        BY <1>3, <1>8, <3>2, <3>3 DEF Rest
      <4>2. pcRecv[l] \in {"read", "parse"} => d = <<>> BY <3>1, <3>2 DEF Tidy
      <4> QED BY <1>8, <2>2, <3>2, <3>9, <4>1, <4>2 DEF Tidy, Received, Whole
    <3> QED BY <1>4, <1>6, <3>7, <3>8, <3>9 DEF NextOrEmpty
  <2>4. \A i \in 0..r : AsSent(l, i)' <=> AsSent(l, i)
    <3> SUFFICES ASSUME NEW i \in 0..r PROVE AsSent(l, i)' <=> AsSent(l, i)
      OBVIOUS
    <3>1. \A k \in 1..i : k \in 1..r OBVIOUS
    <3>2. \A k \in 1..i : s[k] = q[k] BY <1>7, <3>1
    <3> QED BY <1>4, <1>8, <3>2 DEF AsSent
  <2>5. Claimed(l)'
    <3> SUFFICES ASSUME NEW i \in 1 .. r + 1, AsSent(l, i - 1)'
                 PROVE  i <= n /\ (s[i] = Sent[l][i] \/ TakenForEmpty(s[i], Sent[l][i]))
      BY <1>7, <1>8, <2>2 DEF Claimed
    <3>1. i - 1 \in 0..r OBVIOUS
    <3>2. AsSent(l, i - 1) BY <2>4, <3>1
    <3>3. CASE i = r + 1
      <4>1. i - 1 = r BY <3>3
      <4> QED BY <1>7, <2>3, <3>2, <3>3, <4>1
    <3>4. CASE i # r + 1
      <4>1. i \in 1..r BY <3>4
      <4> QED BY <1>4, <1>6, <1>7, <2>1, <2>2, <3>2, <4>1 DEF Sound, Claimed
    <3> QED BY <3>3, <3>4
  <2>6. ASSUME AsSent(l, r + 1)'
        PROVE  Tidy(l)'
    <3>1. m = Sent[l][r + 1]
      <4>1. r + 1 \in 1 .. r + 1 OBVIOUS
      <4>2. s[r + 1] = Sent[l][r + 1] BY <1>8, <2>6, <4>1 DEF AsSent
      <4> QED BY <1>7, <4>2
    <3>2. AsSent(l, r)
      <4>1. \A k \in 1..r : k \in 1 .. r + 1 OBVIOUS
      <4>2. \A k \in 1..r : s[k] = Sent[l][k] BY <1>8, <2>6, <4>1 DEF AsSent
      <4> QED BY <1>4, <1>7, <4>2 DEF AsSent
    <3>3. ~TakenForEmpty(m, m)
      <4>1. Len(<<>>) = 0 BY EmptySeq
      <4>2. TakenForEmpty(m, m) => Len(m.payload) # 0 /\ m.payload = <<>> BY DEF TakenForEmpty
      <4> QED BY <4>1, <4>2
    <3> QED BY <2>3, <3>1, <3>2, <3>3
  <2> QED BY <1>7, <1>8, <2>5, <2>6 DEF Sound
<1> QED BY <1>9, <1>10, <1>11 DEF FInv

\* What is left of a read is kept for the next one, or disturbs the links whose buffers change.
LEMMA KeepSound ==
  ASSUME FInv, NEW l \in Link, Keep(l)
  PROVE  FInv'
<1>1. Types BY DEF FInv
<1>2. /\ pcRecv[l] \in {"parse", "split"}
      /\ remaindata' = [remaindata EXCEPT ![StoredIn[l]] = pushdata[l]]
      /\ pushdata' = [pushdata EXCEPT ![l] = <<>>]
      /\ pcRecv' = [pcRecv EXCEPT ![l] = IF @ = "split" THEN "call" ELSE "read"]
      /\ UNCHANGED <<sent, wire, cdata, recvqueue>>
  BY DEF Keep
<1>3. disturbed' = disturbed \cup {k \in Link : Rest(k)' # Rest(k)} BY DEF Keep
<1>4. Types' BY <1>1, <1>2 DEF Types
<1>5. ASSUME NEW j \in Link \ disturbed' PROVE Sound(j)'
  <2>1. j \notin disturbed /\ Rest(j)' = Rest(j) BY <1>3, <1>5
  <2>2. CASE j # l
    <3>1. Alone(j) BY <1>1, <1>2, <2>1, <2>2 DEF Types, Alone
    <3> QED BY <1>1, <1>4, <2>1, <3>1, AloneSound DEF FInv
  <2>3. CASE j = l
    <3>1. /\ sent'[l] = sent[l] /\ recvqueue'[l] = recvqueue[l] /\ wire'[l] = wire[l]
          /\ cdata'[l] = cdata[l] /\ Rest(l)' = Rest(l)
          /\ pcRecv'[l] \in {"read", "parse"} => pcRecv[l] = "parse"
      BY <1>1, <1>2, <2>1, <2>3 DEF Types
    <3>2. Claimed(l)' /\ (AsSent(l, Len(recvqueue[l]))' => AsSent(l, Len(recvqueue[l])))
      <4>1. sent[l] <= sent'[l] /\ Sound(l) BY <1>1, <2>1, <2>3, <3>1 DEF Types, FInv
      <4> QED BY <1>1, <1>4, <3>1, <4>1, ClaimKept DEF Sound
    <3>3. Tidy(l) => Tidy(l)' BY <3>1 DEF Tidy, Received, Whole
    <3> QED BY <2>1, <2>3, <3>1, <3>2, <3>3 DEF Sound, FInv
  <2> QED BY <2>2, <2>3
<1> QED BY <1>4, <1>5 DEF FInv

\* On a link whose bytes came as they were made, with no byte inserted, no read split and
\* the rest of each read in front of the next, the first message queued that is not the one
\* sent is one that was taken for empty: for any links, messages, reads and shared buffers.
THEOREM ReceivedCorrect == Spec => []ReceivedAsSent
<1>1. ASSUME FInv, [Next]_vars PROVE FInv'
  <2>1. ASSUME NEW l \in Link, Send(l) PROVE FInv'
    BY <1>1, <2>1, SendSound
  <2>2. ASSUME NEW l \in Link, Read(l) PROVE FInv'
    BY <1>1, <2>2, ReadSound
  <2>3. ASSUME NEW l \in Link, CallWhole(l) PROVE FInv'
    BY <1>1, <2>3, CallWholeSound
  <2>4. ASSUME NEW l \in Link, CallSplit(l) PROVE FInv'
    BY <1>1, <2>4, CallSplitSound
  <2>5. ASSUME NEW l \in Link, Receive(l) PROVE FInv'
    BY <1>1, <2>5, ReceiveSound
  <2>6. ASSUME NEW l \in Link, Keep(l) PROVE FInv'
    BY <1>1, <2>6, KeepSound
  <2>7. CASE UNCHANGED vars
    <3>1. Types' BY <1>1, <2>7 DEF FInv, Types, vars, threadVars
    <3>2. ASSUME NEW j \in Link \ disturbed' PROVE Sound(j)'
      <4>1. j \notin disturbed /\ Alone(j)
        BY <2>7, <3>2 DEF vars, threadVars, Alone, Rest
      <4> QED BY <1>1, <3>1, <4>1, AloneSound DEF FInv
    <3> QED BY <3>1, <3>2 DEF FInv
  <2> QED BY <1>1, <2>1, <2>2, <2>3, <2>4, <2>5, <2>6, <2>7 DEF Next, RecvThread
<1>2. FInv => ReceivedAsSent BY DEF FInv, Sound, Claimed, ReceivedAsSent
<1> QED BY <1>1, <1>2, FInit, PTL DEF Spec
=============================================================================
