------------------------- MODULE MCBrokerScheduler -------------------------
(* Instances of BrokerScheduler for TLC: up to four data on two devices.   *)
EXTENDS BrokerScheduler, TLC

CONSTANTS d1, d2, d3, d4, v1, v2

On(f) == [d \in Data |-> f[d]]

\* Two data on each device.
TwoAndTwo == On(d1 :> v1 @@ d2 :> v2 @@ d3 :> v1 @@ d4 :> v2)

\* Two data of one priority, then more urgent ones: interrupts nest.
Nested   == On(d1 :> 3 @@ d2 :> 3 @@ d3 :> 2 @@ d4 :> 1)
Distinct == On(d1 :> 3 @@ d2 :> 1 @@ d3 :> 2)
OneLevel == [d \in Data |-> 3]

Classes == On(d1 :> 2 @@ d2 :> 0 @@ d3 :> 1 @@ d4 :> 1)

\* Data IDs below 128: State 11 decodes them right.
SmallIDs == [d \in Data |-> d]

\* d2 is its device's 128th datum: its COMPLETE is taken for one of datum -128.
OneWideID == [d \in Data |-> IF d = d2 THEN NoData ELSE d]

\* Rates in which one, two or all classes of a batch find room; the application
\* server reports no less than 2.5 * 8 * 1024.
Narrow == {20 * 1024}
Rates  == {20 * 1024, 60 * 1024, 1024 * 1024}

Zero == {0}
LeastUrgent == {16}
=============================================================================
