---------------------------- MODULE ActivePorts ----------------------------
(***************************************************************************)
(* ActivePortDetectionApp (controller/apps/active_port_detection.py) on    *)
(* several nodes: ports share one allowed address pair, one of them owns   *)
(* its address, and the controller of the owner's node sees its ARP        *)
(* packets and records the owner in the northbound database (db/api_nb.py),*)
(* whose changes reach each node, the writer's included, later and in      *)
(* order.                                                                  *)
(*                                                                         *)
(* Each node has one port with the pair, which is named by the node.       *)
(***************************************************************************)
EXTENDS Naturals, Sequences

CONSTANTS Nodes, None, MaxMoves, MaxQueue

VARIABLES
    owner,      \* external: the port whose virtual machine has the address
    bound,      \* allowed_address_pairs_refs_list of each node: local ports
                \*   with the pair, whose ARP packets the controller gets
    nb,         \* the active port of the address in the database
    cache,      \* the same, in each node's db_store
    queue,      \* external: events on their way to each node
    moves,      \* changes of owners and ports so far
    unrecorded  \* history: ports unbound before their node knew its record
vars == <<owner, bound, nb, cache, queue, moves, unrecorded>>

\* The database, the caches and the references keep their types.
TypeOK ==
    /\ owner \in Nodes \cup {None} /\ nb \in Nodes \cup {None}
    /\ bound \subseteq Nodes
    /\ cache \in [Nodes -> Nodes \cup {None}]
    /\ queue \in [Nodes -> Seq(Nodes \cup {None})]
    /\ moves \in 0 .. MaxMoves /\ unrecorded \subseteq Nodes

Init ==
    /\ owner = None /\ nb = None /\ cache = [n \in Nodes |-> None]
    /\ bound = {} /\ moves = 0 /\ unrecorded = {}
    /\ queue = [n \in Nodes |-> <<>>]

\* NbApi.create and update write and publish; delete of a missing key, and
\* update of one, raise instead.
Write(value) ==
    /\ nb' = value
    /\ queue' = [n \in Nodes |-> Append(queue[n], value)]

\* The other queues have room (a bound of the model).
Room == \A n \in Nodes : Len(queue[n]) < MaxQueue

----------------------------------------------------------------------------
(* Detection. *)

\* Mutant: a record of another port is not replaced.
UpdateActivePortOnce(n) ==
    IF cache[n] = None THEN Write(n) ELSE UNCHANGED <<nb, queue>>

\* _update_active_port_in_db: created when the node knows of no active port,
\* updated when it knows another one.
UpdateActivePort(n) ==
    IF cache[n] = None \/ (cache[n] # n /\ nb \notin {None, n})
    THEN Write(n) ELSE UNCHANGED <<nb, queue>>

\* packet_in_handler: the owner answers a request that is repeated
\* periodically, or announces itself.
PacketIn(n) ==
    /\ owner = n /\ n \in bound /\ Room
    /\ UpdateActivePort(n)
    /\ UNCHANGED <<owner, bound, cache, moves, unrecorded>>

----------------------------------------------------------------------------
(* Ports come and go: _add_target_ip and _remove_target_ip. *)

AddTargetIp(n) ==
    /\ n \notin bound /\ moves < MaxMoves
    /\ bound' = bound \cup {n} /\ moves' = moves + 1
    /\ unrecorded' = unrecorded \ {n}
    /\ UNCHANGED <<owner, nb, cache, queue>>

\* _remove_active_port_from_db_by_lport.
RemoveActivePort(n) ==
    IF cache[n] = n /\ nb # None THEN Write(None) ELSE UNCHANGED <<nb, queue>>

RemoveTargetIp(n) ==
    /\ n \in bound /\ moves < MaxMoves /\ Room
    /\ bound' = bound \ {n}
    /\ RemoveActivePort(n)
    /\ moves' = moves + 1
    /\ unrecorded' = IF cache[n] # n THEN unrecorded \cup {n} ELSE unrecorded
    /\ UNCHANGED <<owner, cache>>

----------------------------------------------------------------------------
(* The environment. *)

\* The next event reaches the cache of a node.
Deliver(n) ==
    /\ queue[n] # <<>>
    /\ cache' = [cache EXCEPT ![n] = Head(queue[n])]
    /\ queue' = [queue EXCEPT ![n] = Tail(@)]
    /\ UNCHANGED <<owner, bound, nb, moves, unrecorded>>

\* A node reads the whole database; events are still on their way.
Sync(n) ==
    /\ moves < MaxMoves /\ moves' = moves + 1
    /\ cache' = [cache EXCEPT ![n] = nb]
    /\ UNCHANGED <<owner, bound, nb, queue, unrecorded>>

\* The address moves to another virtual machine, or to none.
MoveAddress(o) ==
    /\ o # owner /\ moves < MaxMoves /\ owner' = o /\ moves' = moves + 1
    /\ UNCHANGED <<bound, nb, cache, queue, unrecorded>>

Next ==
    \/ \E n \in Nodes : \/ PacketIn(n) \/ Deliver(n) \/ Sync(n)
                        \/ AddTargetIp(n) \/ RemoveTargetIp(n)
    \/ \E o \in Nodes \cup {None} : MoveAddress(o)

\* The ARP requests are repeated, and events arrive.
Fairness == \A n \in Nodes : WF_vars(PacketIn(n)) /\ WF_vars(Deliver(n))

Spec == Init /\ [][Next]_vars /\ Fairness

----------------------------------------------------------------------------
(* Properties. *)

\* A port that is no longer there is not recorded as active for ever: a
\* record of an unbound port is one its node had not heard of when the port
\* went.
UnboundNotRecorded ==
    nb \in Nodes => nb \in bound \/ nb \in unrecorded

\* Once the address stays with a port that stays bound, every node comes to
\* know this port as the active one, whatever was recorded, removed by stale
\* knowledge or read again before.
OwnerDetected ==
    \A n \in Nodes :
        <>[](owner = n /\ n \in bound) =>
            <>[](nb = n /\ \A m \in Nodes : cache[m] = n)

\* The record of the active port follows the address: to its owner in the end,
\* and away from a port that is unbound.
OwnerRecorded == []UnboundNotRecorded /\ OwnerDetected
=============================================================================
