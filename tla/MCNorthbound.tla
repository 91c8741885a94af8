---------------------------- MODULE MCNorthbound ----------------------------
(***************************************************************************)
(* TLC instance of what goes on around the northbound database while       *)
(* several processes use it and requests, events or processes fail: the    *)
(* lock of the plugin (LockedObjects), the handlers that hold it           *)
(* (MechDriver), the allocation of keys (UniqueKeys), the table of         *)
(* publishers (Publishers) and the detection of active ports               *)
(* (ActivePorts).  They share no state, so a behaviour is one of one of    *)
(* them: focus says of which.                                              *)
(***************************************************************************)
EXTENDS LockedObjects, Integers, Sequences, TLC

CONSTANTS n1, n2, n3, own, other, None, h1, h2, d1, d2

VARIABLES focus,
    driver, row, tables, k_pc, read, retry, keys, faults,
    alive, waited, passed, rec, mon, store, heard, slept, unheard, crashes,
    owner, bound, nb, cache, queue, moves, unrecorded,
    scope, topicless, neutron, rows, born, holder, job, handled, late, dead, last,
    commits, failures

\* Three clients of each driver.
Keys == INSTANCE UniqueKeys WITH pc <- k_pc,
    Clients <- 1..3, Restored <- {1}, RetryCount <- 2, MaxKey <- 3,
    MaxFaults <- 1,
    Drivers <- {"etcd", "zookeeper", "ramcloud", "redis", "rethinkdb",
                "cassandra"}

\* A refresh takes longer than the timeout, as with the defaults.
Pub == INSTANCE Publishers WITH Monitors <- {own, other}, Own <- own,
    Timeout <- 2, RateLimit <- 2, SyncTime <- 2, MaxCrashes <- 1

\* The port moves more often than there are nodes.
Act == INSTANCE ActivePorts WITH
    Nodes <- {n1, n2, n3}, MaxMoves <- 5, MaxQueue <- 2

\* Requests handled by two threads, one of which may meet a failing call.
Mech == INSTANCE MechDriver WITH nb <- rows, seen <- handled,
    faults <- failures, Workers <- {h1, h2}, Data <- {d1, d2},
    MaxCommits <- 3, MaxFaults <- 1

keysVars == <<driver, row, tables, k_pc, read, retry, keys, faults>>
pubVars == <<alive, waited, passed, rec, mon, store, heard, slept, unheard,
             crashes>>
actVars == <<owner, bound, nb, cache, queue, moves, unrecorded>>
mechVars == <<scope, topicless, neutron, rows, born, holder, job, handled, late,
              dead, last, commits, failures>>
allVars == <<focus, vars, keysVars, pubVars, actVars, mechVars>>

MCInit ==
    /\ focus \in {"lock", "keys", "publishers", "ports", "requests"}
    /\ Init /\ Keys!Init /\ Pub!Init /\ Act!Init
    /\ focus # "keys" => driver = "etcd" /\ row.value = 0
    /\ focus # "publishers" => heard
    /\ focus \notin {"lock", "requests"} => ~own_frame
    /\ Mech!Init /\ (focus # "requests" => scope = {"group"})

Locking == focus = "lock"
           /\ UNCHANGED <<focus, keysVars, pubVars, actVars, mechVars>>
InKeys == focus = "keys"
          /\ UNCHANGED <<focus, vars, pubVars, actVars, mechVars>>
InPub == focus = "publishers"
         /\ UNCHANGED <<focus, vars, keysVars, actVars, mechVars>>
InAct == focus = "ports"
         /\ UNCHANGED <<focus, vars, keysVars, pubVars, mechVars>>
InMech == focus = "requests"
          /\ UNCHANGED <<focus, vars, keysVars, pubVars, actVars>>

\* Clients, ports and requests may come to rest; the other systems never do.
AtRest == focus \in {"keys", "ports", "requests"} /\ UNCHANGED allVars

MCNext ==
    \/ Locking /\ Next
    \/ InKeys /\ Keys!Next
    \/ InPub /\ Pub!Next
    \/ InAct /\ Act!Next
    \/ InMech /\ Mech!Next
    \/ AtRest

\* The fairness of the modules.
MCFairness ==
    /\ \A w \in Procs : WF_vars(Locking /\ Step(w))
    /\ \A c \in 1..3 : WF_keysVars(InKeys /\ Keys!Step(c))
    /\ WF_pubVars(InPub /\ Pub!Tick)
    /\ WF_pubVars(InPub /\ Pub!QueueTimeout)
    /\ WF_pubVars(InPub /\ Pub!PeriodicSync)
    /\ \A h \in {n1, n2, n3} : WF_actVars(InAct /\ Act!PacketIn(h))
    /\ \A h \in {n1, n2, n3} : WF_actVars(InAct /\ Act!Deliver(h))

MCSpec == MCInit /\ [][MCNext]_allVars /\ MCFairness

----------------------------------------------------------------------------
(* Properties: see the modules; those of the lock keep their names. *)

\* All state keeps its type.
TypesOK == TypeOK /\ Keys!TypeOK /\ Pub!TypeOK /\ Act!TypeOK
           /\ Mech!TypeOK

\* allocate_unique_key: the counter has passed every key given, the drivers
\* implement the abstract allocator, and allocations go on.
KeysAllocated == Keys!KeysAllocated

\* A node listens to a running publisher, or soon will again.
ServiceHeard == Pub!ServiceHeard

\* A publisher that stopped is forgotten.
DeadForgotten == Pub!DeadForgotten

\* ActivePortDetectionApp: the port that keeps the address becomes known, and a
\* port that is gone is not recorded.
OwnerRecorded == Act!OwnerRecorded

\* DFMechDriver: the northbound database ends with what Neutron has.
NeutronFollowed == focus = "requests" => Mech!NeutronFollowed

\* DFMechDriver: under the lock, the handlers of subnets undo no change of the
\* network, and what was created and deleted does not come back.
LockedRowsKept == focus = "requests" /\ ~own_frame => Mech!LockedRowsKept
=============================================================================
