----------------------------- MODULE MCTransfer -----------------------------
(* Instances of Transfer for TLC: three data of one to three chunks.       *)
EXTENDS Transfer, TLC

CONSTANTS d1, d2, d3

Sizes == [d \in Data |-> (d1 :> 3 @@ d2 :> 2 @@ d3 :> 1)[d]]

\* Once an item has been overtaken the properties say nothing any more.
InOrder == ~overtaken
=============================================================================
