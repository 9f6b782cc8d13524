--------------------------- MODULE MCMessageQueue ---------------------------
(* Instances of MessageQueue for TLC: the broker's device_recvqueue, with   *)
(* two session threads that push and two threads that poll, and the queue   *)
(* of a sender.                                                            *)
EXTENDS MessageQueue, TLC

CONSTANTS p1, p2, main, queuethread, sender, META, COMPLETE

Shared == {{p1, p2, main, queuethread}, {p1, main, queuethread}, {p1, sender}}

Looked == main :> {META} @@ queuethread :> {COMPLETE} @@ sender :> {META, COMPLETE}
=============================================================================
