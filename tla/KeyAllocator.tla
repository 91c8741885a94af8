---------------------------- MODULE KeyAllocator ----------------------------
(***************************************************************************)
(* What DbApi.allocate_unique_key promises (db/db_api.py): "Allocate a     *)
(* unique id".  issued are the keys given for the objects of one table, in *)
(* the order in which they were given.                                     *)
(***************************************************************************)
EXTENDS Naturals, Sequences

VARIABLE issued

Init == issued = <<>>

\* Some client is given a key that nobody was given before.
Allocate ==
    /\ Len(issued') = Len(issued) + 1
    /\ LET k == issued'[Len(issued')]
       IN  /\ \A i \in DOMAIN issued : issued[i] # k
           /\ issued' = Append(issued, k)

Next == Allocate

Spec == Init /\ [][Next]_issued
=============================================================================
