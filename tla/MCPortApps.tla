----------------------------- MODULE MCPortApps -----------------------------
(* TLC instances of PortApps. *)
EXTENDS PortApps, TLC

CONSTANTS p1, p2, n1, h, c1, c2, i0, i1, i2

OneNet     == [p \in Ports |-> n1]
Addresses  == [c \in Chassis |-> CASE c = h -> i0 [] c = c1 -> i1 [] OTHER -> i2]

\* Ports are alike, and so are the two other nodes with their addresses.
Nodewise ==
    {c1 :> c2 @@ c2 :> c1 @@ i1 :> i2 @@ i2 :> i1,
     c1 :> c1 @@ c2 :> c2 @@ i1 :> i1 @@ i2 :> i2}
Symmetry == {f @@ g : f \in Nodewise, g \in Permutations({p1, p2})}
=============================================================================
