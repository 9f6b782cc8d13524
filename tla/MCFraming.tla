------------------------------ MODULE MCFraming ------------------------------
(* Instance of Framing for TLC: the two links of a device, whose remainders  *)
(* share one buffer, with sizes of one and two digits of base 3.             *)
EXTENDS Framing, TLC

CONSTANTS broker, server

\* The i-th message of link number l, with a payload of the size given.
Mess(l, i, size) == [head |-> <<l, i, 2>>, payload |-> [k \in 1..size |-> (k + i) % 6]]
Messages(l, sizes) == [i \in DOMAIN sizes |-> Mess(l, i, sizes[i])]

\* Six Ones: the last digit of the size and the payload.
Ones == [head |-> <<2, 2, 2>>, payload |-> [k \in 1..5 |-> One]]

\* A size that is a multiple of the base, sizes of one digit, and six Ones.
SomeMessages == broker :> Messages(1, <<3, 1, 0>>) @@ server :> <<Mess(2, 1, 1), Ones>>

\* IoTDevices::onRecv_base stores what is left of either link in broker_remaindata.
BrokerRemaindata == [l \in Link |-> broker]
=============================================================================
