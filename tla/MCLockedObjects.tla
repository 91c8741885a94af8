-------------------------- MODULE MCLockedObjects --------------------------
(* TLC instances of LockedObjects: workers, objects and session ids are model *)
(* values given in the configurations.                                        *)
EXTENDS LockedObjects, TLC
=============================================================================
