------------------------------ MODULE Delivery ------------------------------
(***************************************************************************)
(* What the broker promises its devices: an accepted datum is sent with    *)
(* others of its priority only, is suspended with them, and only when a    *)
(* more urgent one waits, is resumed when nothing is sent and nothing more *)
(* urgent is first, and is released once.                                  *)
(***************************************************************************)
EXTENDS Integers

CONSTANTS Data, Pri  \* Pri[d]: the priority of d, 0 the most urgent

VARIABLES waiting, sending, suspended, released

vars == <<waiting, sending, suspended, released>>

Accept(d) ==
  /\ d \notin waiting \cup sending \cup suspended \cup released
  /\ waiting' = waiting \cup {d}
  /\ UNCHANGED <<sending, suspended, released>>

Permit(d) ==
  /\ d \in waiting /\ \A e \in sending : Pri[e] = Pri[d]
  /\ waiting' = waiting \ {d}
  /\ sending' = sending \cup {d}
  /\ UNCHANGED <<suspended, released>>

Suspend ==
  /\ sending # {}
  /\ \E d \in waiting : \A e \in sending : Pri[d] < Pri[e]
  /\ sending' = {}
  /\ suspended' = suspended \cup sending
  /\ UNCHANGED <<waiting, released>>

Resume(S) ==
  /\ sending = {} /\ S # {} /\ S \subseteq suspended
  /\ \A d, e \in S : Pri[d] = Pri[e]
  /\ \E d \in waiting : \A e \in S : Pri[e] <= Pri[d]
  /\ sending' = S
  /\ suspended' = suspended \ S
  /\ UNCHANGED <<waiting, released>>

\* A COMPLETE may have been on its way when the datum was suspended.
Release(d) ==
  /\ d \in sending \cup suspended
  /\ sending' = sending \ {d}
  /\ suspended' = suspended \ {d}
  /\ released' = released \cup {d}
  /\ UNCHANGED waiting

Init == waiting = {} /\ sending = {} /\ suspended = {} /\ released = {}

Next == \/ \E d \in Data : Accept(d) \/ Permit(d) \/ Release(d)
        \/ Suspend \/ \E S \in SUBSET Data : Resume(S)

Spec == Init /\ [][Next]_vars
=============================================================================
