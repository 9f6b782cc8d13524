------------------------------ MODULE Mailbox -------------------------------
(***************************************************************************)
(* What the threads expect of the queue between them: a bounded box, where *)
(* what is put in is taken out in that order, each message once and by the *)
(* consumer it is for, and nothing stays in it.                            *)
(***************************************************************************)
EXTENDS Integers, Sequences

CONSTANTS
  Producer, Consumer,
  Kind,     \* the kinds of messages
  TakenBy,  \* TakenBy[c]: the kinds that are for consumer c
  Max       \* the size of the box

VARIABLES
  box,
  put,      \* put[p]: the number of messages producer p has put in
  got       \* got[c]: what consumer c has taken out

vars == <<box, put, got>>

Message == [from : Producer, number : Nat, kind : Kind]

Put(p) ==
  /\ Len(box) < Max
  /\ put' = [put EXCEPT ![p] = @ + 1]
  /\ \E k \in Kind : box' = Append(box, [from |-> p, number |-> put'[p], kind |-> k])
  /\ UNCHANGED got

Take(c) ==
  /\ box # <<>> /\ Head(box).kind \in TakenBy[c]
  /\ got' = [got EXCEPT ![c] = Append(@, Head(box))]
  /\ box' = Tail(box)
  /\ UNCHANGED put

Init == /\ box = <<>>
        /\ put = [p \in Producer |-> 0] /\ got = [c \in Consumer |-> <<>>]

Next == (\E p \in Producer : Put(p)) \/ (\E c \in Consumer : Take(c))

Spec == Init /\ [][Next]_vars

Fairness == WF_vars(\E c \in Consumer : Take(c))
=============================================================================
