----------------------------- MODULE MCSessions -----------------------------
(* Instances of Sessions for TLC: a device whose links break and one whose  *)
(* link does not.                                                          *)
EXTENDS Sessions, TLC

CONSTANTS v1, v2

\* As many as are made, and more.
AllOrMore == {3, 30}

OneEach == v1 :> 1 @@ v2 :> 1
=============================================================================
