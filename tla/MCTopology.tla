----------------------------- MODULE MCTopology -----------------------------
(***************************************************************************)
(* Instances of Topology for TLC.                                          *)
(***************************************************************************)
EXTENDS Topology, TLC

CONSTANTS s1, s2, s3, l1, l2, t1, t2

\* Port l1 may be unplugged and plugged again, port l2 is another one.
ThreeRowsLports == s1 :> l1 @@ s2 :> l1 @@ s3 :> l2
OneTenant == l1 :> t1 @@ l2 :> t1

OneRowLports == s1 :> l1
OneLportTopics == l1 :> t1

\* No call fails and the controller is not restarted.
Undisturbed == Next /\ UNCHANGED faults

UndisturbedSpec == Init /\ [][Undisturbed]_vars /\ Fairness
=============================================================================
