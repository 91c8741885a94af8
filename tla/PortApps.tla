------------------------------ MODULE PortApps ------------------------------
(***************************************************************************)
(* What a compute node does with logical ports: PortBindingApp             *)
(* (controller/apps/portbinding.py) turns changes of cached ports into     *)
(* bind and unbind events; L2App (l2.py), TunnelingApp (tunneling.py) and  *)
(* ProviderApp (provider.py) install the flows for them; update_chassis,   *)
(* delete_chassis and the reconnection of the switch disturb them all.     *)
(*                                                                         *)
(* Every application keeps a set or a list of ports of its own, from which *)
(* it decides whether a flow of a network is to be added, modified or      *)
(* deleted.  The flows are right only as long as these agree with the      *)
(* cache and with what is in the switch.                                   *)
(*                                                                         *)
(* The state of a node is one record.  A handler is a function from nodes  *)
(* to nodes, as handlers call each other in the middle of a step.  Model   *)
(* events call every registered handler and swallow exceptions             *)
(* (CommonBase._emit), so a handler that fails leaves the others alone.    *)
(* The order of handlers is that of a Python set; those modelled here      *)
(* touch different state.  Logical switches stay cached.                   *)
(***************************************************************************)
EXTENDS Naturals

CONSTANTS
    Ports,      \* logical ports
    Nets,       \* logical switches
    NetOf,      \* the network of a port
    Chassis,    \* compute nodes
    Here,       \* cfg.CONF.host
    Ips,        \* addresses of compute nodes
    ChassisIp,  \* those they start with
    None,
    MaxWrites,      \* bound on writes to the northbound database
    MaxReconnects   \* bound on reconnections of the switch

Lports == [version : 1 .. MaxWrites, enabled : BOOLEAN,
           chassis : Chassis \cup {None}]

ASSUME BoundsAssumption == MaxWrites \in Nat /\ MaxReconnects \in Nat
ASSUME NetsAssumption == NetOf \in [Ports -> Nets]
ASSUME HereAssumption == Here \in Chassis /\ ChassisIp \in [Chassis -> Ips]
                         /\ None \notin Chassis \cup Ips
ASSUME NoneAssumption == /\ None \notin Lports /\ "local" \notin Ips \cup {None}
                         /\ \A S \in (SUBSET Ports) \cup SUBSET Ips : None # S

VARIABLES
    nb,          \* ports in the northbound database
    nb_chassis,  \* addresses of the chassis there
    used,        \* ports that were created there
    tunneled,    \* networks whose type is in tunnel_types, others are vlan
    writes,
    node,        \* the compute node
    resync,      \* CONTROLLER_REINITIALIZE is queued
    reconnects,
    kept,        \* history: the switch reconnected with its flows
    displaced    \* history: ports whose place changed without an unbind

nbVars   == <<nb, nb_chassis, used, writes, tunneled>>
nodeVars == <<node, resync, reconnects, kept, displaced>>
vars     == <<nbVars, nodeVars>>

Nodes ==
    [lports  : [Ports -> Lports \cup {None}],  \* db_store
     chassis : [Chassis -> Ips \cup {None}],   \* db_store
     local_ports  : SUBSET Ports,        \* PortBindingApp
     remote_ports : SUBSET Ports,        \* PortBindingApp
     l2_local     : SUBSET Ports,        \* L2App.local_networks
     tun_local    : [Ports -> Nat],      \* TunnelingApp.local_networks: how
     tun_remote   : [Ports -> Nat],      \*   often a port is in its lists
     prov_local   : [Ports -> Nat],      \* ProviderApp.logical_networks
     dst    : SUBSET Ports,              \* flow: L2 lookup of the port
     in_dst : SUBSET Ports,              \* flow: ingress lookup of the port
     egress : [Ports -> Ips \cup {None, "local"}],  \* flow: egress to it
     bcast  : [Nets -> (SUBSET Ports) \cup {None}], \* flow: local broadcast
     bum    : [Nets -> (SUBSET Ips) \cup {None}],   \* flow: tunnel broadcast
     tun_in : SUBSET Nets,               \* flow: from tunnels
     prov   : SUBSET Nets]               \* flows: provider network

\* The cache, the lists of the applications and the flows keep their types:
\* a broadcast flow has addresses of chassis only (_make_bum_flow_actions).
TypeOK ==
    /\ nb \in [Ports -> Lports \cup {None}]
    /\ nb_chassis \in [Chassis -> Ips \cup {None}]
    /\ used \subseteq Ports
    /\ tunneled \subseteq Nets
    /\ writes \in 0 .. MaxWrites
    /\ node \in Nodes
    /\ resync \in BOOLEAN
    /\ reconnects \in 0 .. MaxReconnects
    /\ kept \in BOOLEAN
    /\ displaced \subseteq Ports

\* A connected switch without flows for ports; register_chassis has cached
\* the chassis.
Init ==
    /\ nb = [p \in Ports |-> None]
    /\ nb_chassis = ChassisIp
    /\ used = {} /\ writes = 0
    /\ tunneled \in SUBSET Nets
    /\ node = [lports  |-> [p \in Ports |-> None],
               chassis |-> ChassisIp,
               local_ports |-> {}, remote_ports |-> {}, l2_local |-> {},
               tun_local  |-> [p \in Ports |-> 0],
               tun_remote |-> [p \in Ports |-> 0],
               prov_local |-> [p \in Ports |-> 0],
               dst |-> {}, in_dst |-> {},
               egress |-> [p \in Ports |-> None],
               bcast  |-> [n \in Nets |-> None],
               bum    |-> [n \in Nets |-> None],
               tun_in |-> {}, prov |-> {}]
    /\ resync = FALSE /\ reconnects = 0 /\ kept = FALSE
    /\ displaced = {}

----------------------------------------------------------------------------
(* Flows and lists. *)

\* What mod_flow makes of a flow: only OFPFC_ADD creates one.
ModFlow(flow, command, new) ==
    CASE command = "ADD"    -> new
      [] command = "MODIFY" -> IF flow = None THEN None ELSE new
      [] command = "DELETE" -> None

\* LogicalNetworks: the list of a network has no entry, or one.
NoPort(list, n) == \A p \in Ports : NetOf[p] = n => list[p] = 0
OnePort(list, n) ==
    \E p \in Ports : /\ NetOf[p] = n /\ list[p] = 1
                     /\ \A q \in Ports \ {p} : NetOf[q] = n => list[q] = 0

Cached(d, P) == {p \in P : d.lports[p] # None}
IsLocal(o)  == o.chassis = Here
IsRemote(o) == o.chassis \notin {Here, None}

----------------------------------------------------------------------------
(* L2App. *)

\* _add_local_port: the first port of a network adds the broadcast flow,
\* others modify it.
L2BindLocal(d, p) ==
    LET n == NetOf[p]
        others == {q \in d.l2_local : NetOf[q] = n}
    IN  [d EXCEPT
           !.dst = @ \cup {p}, !.in_dst = @ \cup {p}, !.egress[p] = "local",
           !.l2_local = @ \cup {p},
           !.bcast[n] = ModFlow(@, IF others = {} THEN "ADD" ELSE "MODIFY",
                                {p} \cup Cached(d, others))]

\* _remove_local_port.
L2UnbindLocal(d, p) ==
    LET n == NetOf[p]
        others == {q \in d.l2_local \ {p} : NetOf[q] = n}
    IN  [d EXCEPT
           !.dst = @ \ {p}, !.in_dst = @ \ {p}, !.egress[p] = None,
           !.l2_local = @ \ {p},
           !.bcast[n] = IF p \notin d.l2_local THEN @
                        ELSE ModFlow(@, IF others = {} THEN "DELETE"
                                        ELSE "MODIFY", Cached(d, others))]

\* _add_remote_port, _remove_remote_port.
L2BindRemote(d, p)   == [d EXCEPT !.dst = @ \cup {p}]
L2UnbindRemote(d, p) == [d EXCEPT !.dst = @ \ {p}]

----------------------------------------------------------------------------
(* TunnelingApp, for networks of its types. *)

\* _add_local_port: the first port of the network adds the ingress flow.
TunBindLocal(d, p) ==
    LET n == NetOf[p]
    IN  IF n \notin tunneled THEN d
        ELSE [d EXCEPT
                !.tun_in = IF NoPort(d.tun_local, n)
                           THEN @ \cup {n} ELSE @,
                !.tun_local[p] = @ + 1]

\* Mutant: the ports are counted before the port is taken out.
TunUnbindLocalCountsFirst(d, p) ==
    LET n == NetOf[p]
        list == [d.tun_local EXCEPT ![p] = IF @ = 0 THEN 0 ELSE @ - 1]
    IN  IF n \notin tunneled THEN d
        ELSE [d EXCEPT
                !.tun_local = list,
                !.tun_in = IF NoPort(d.tun_local, n)
                           THEN @ \ {n} ELSE @]

\* _remove_local_port: the last one removes it.
TunUnbindLocal(d, p) ==
    LET n == NetOf[p]
        list == [d.tun_local EXCEPT ![p] = IF @ = 0 THEN 0 ELSE @ - 1]
    IN  IF n \notin tunneled THEN d
        ELSE [d EXCEPT
                !.tun_local = list,
                !.tun_in = IF NoPort(list, n) THEN @ \ {n} ELSE @]

\* _make_bum_flow_actions: one output for each address of a remote port.  A
\* port without binding, or with a chassis that is not cached, raises.
BumPorts(d, n) ==
    Cached(d, {p \in Ports : NetOf[p] = n /\ d.tun_remote[p] > 0})

\* Mutant: the address of a chassis that is not cached is None.
BumRaisesUnboundOnly(d, n) ==
    \E p \in BumPorts(d, n) : d.lports[p].chassis = None

BumRaises(d, n) ==
    \E p \in BumPorts(d, n) : \/ d.lports[p].chassis = None
                              \/ d.chassis[d.lports[p].chassis] = None

BumActions(d, n) == {d.chassis[d.lports[p].chassis] : p \in BumPorts(d, n)}

\* _modify_egress_bum_flow with _eval_flow_actions.
ModifyEgressBumFlow(d, n, command) ==
    IF NoPort(d.tun_remote, n) THEN [d EXCEPT !.bum[n] = None]
    ELSE IF BumRaises(d, n) THEN d
    ELSE [d EXCEPT !.bum[n] =
            ModFlow(@, IF OnePort(d.tun_remote, n) THEN command ELSE "MODIFY",
                    BumActions(d, n))]

\* _add_remote_port of a port bound to chassis c.
TunBindRemote(d, p, c) ==
    IF NetOf[p] \notin tunneled \/ d.chassis[c] = None THEN d
    ELSE ModifyEgressBumFlow(
            [d EXCEPT !.egress[p] = d.chassis[c], !.tun_remote[p] = @ + 1],
            NetOf[p], "ADD")

\* remove_remote_port.
TunUnbindRemote(d, p) ==
    IF NetOf[p] \notin tunneled THEN d
    ELSE ModifyEgressBumFlow(
            [d EXCEPT !.egress[p] = None,
                      !.tun_remote[p] = IF @ = 0 THEN 0 ELSE @ - 1],
            NetOf[p], "MODIFY")

----------------------------------------------------------------------------
(* ProviderApp, for vlan and flat networks: the flows of a network.        *)

ProvBindLocal(d, p) ==
    LET n == NetOf[p]
    IN  IF n \in tunneled THEN d
        ELSE [d EXCEPT
                !.prov = IF NoPort(d.prov_local, n)
                         THEN @ \cup {n} ELSE @,
                !.prov_local[p] = @ + 1]

ProvUnbindLocal(d, p) ==
    LET n == NetOf[p]
        list == [d.prov_local EXCEPT ![p] = IF @ = 0 THEN 0 ELSE @ - 1]
    IN  IF n \in tunneled THEN d
        ELSE [d EXCEPT
                !.prov_local = list,
                !.prov = IF NoPort(list, n) THEN @ \ {n} ELSE @]

----------------------------------------------------------------------------
(* PortBindingApp.  The first four are the events with all their handlers. *)

EmitBindLocal(d, p) ==
    ProvBindLocal(TunBindLocal(L2BindLocal(
        [d EXCEPT !.local_ports = @ \cup {p}], p), p), p)

EmitUnbindLocal(d, p) ==
    ProvUnbindLocal(TunUnbindLocal(L2UnbindLocal(
        [d EXCEPT !.local_ports = @ \ {p}], p), p), p)

EmitBindRemote(d, p, c) ==
    TunBindRemote(L2BindRemote(
        [d EXCEPT !.remote_ports = @ \cup {p}], p), p, c)

EmitUnbindRemote(d, p) ==
    TunUnbindRemote(L2UnbindRemote(
        [d EXCEPT !.remote_ports = @ \ {p}], p), p)

Bind(d, p, o) ==
    CASE IsLocal(o)  -> EmitBindLocal(d, p)
      [] IsRemote(o) -> EmitBindRemote(d, p, o.chassis)
      [] OTHER       -> d

Unbind(d, p, o) ==
    CASE IsLocal(o)  -> EmitUnbindLocal(d, p)
      [] IsRemote(o) -> EmitUnbindRemote(d, p)
      [] OTHER       -> d

\* _port_created.
PortCreated(d, p, o) == IF o.enabled THEN Bind(d, p, o) ELSE d

\* "port moved between chassis".
Moved(o, orig) == IsLocal(orig) # IsLocal(o) \/ IsRemote(orig) # IsRemote(o)

\* _port_update_unbind and _port_update_bind, called by _port_updated.
PortUpdateUnbind(d, p, o, orig) ==
    IF orig.enabled /\ (Moved(o, orig) \/ ~o.enabled)
    THEN Unbind(d, p, orig) ELSE d
PortUpdateBind(d, p, o, orig) ==
    IF o.enabled /\ (Moved(o, orig) \/ ~orig.enabled)
    THEN Bind(d, p, o) ELSE d
PortUpdated(d, p, o, orig) ==
    PortUpdateBind(PortUpdateUnbind(d, p, o, orig), p, o, orig)

\* _port_deleted.
PortDeleted(d, p, o) ==
    CASE o.enabled /\ p \in d.local_ports  -> EmitUnbindLocal(d, p)
      [] o.enabled /\ p \in d.remote_ports \ d.local_ports
                                           -> EmitUnbindRemote(d, p)
      [] OTHER                             -> d

----------------------------------------------------------------------------
(* DfLocalController. *)

\* update_model_object.
UpdateModelObject(d, p, o) ==
    LET orig == d.lports[p]
        d1   == [d EXCEPT !.lports[p] = o]
    IN  IF orig = None THEN PortCreated(d1, p, o)
        ELSE IF o.version > orig.version THEN PortUpdated(d1, p, o, orig)
        ELSE d

\* delete_model_object: the handlers first, then the cache.
DeleteModelObject(d, p) ==
    [PortDeleted(d, p, d.lports[p]) EXCEPT !.lports[p] = None]

PortsByChassis(d, c) == {p \in Cached(d, Ports) : d.lports[p].chassis = c}

\* update_chassis calls update with the cached ports of the chassis as they are,
\* which update_model_object takes for no newer than themselves: it leaves the
\* node alone (UpdateOfSame in PortAppsProofs).
UpdateChassisObject(d, c, ip) == [d EXCEPT !.chassis[c] = ip]

----------------------------------------------------------------------------
(* The northbound database. *)

Write == writes < MaxWrites /\ writes' = writes + 1

NbCreate(p) ==
    /\ p \notin used /\ Write
    /\ used' = used \cup {p}
    /\ \E e \in BOOLEAN, c \in Chassis \cup {None} :
          nb' = [nb EXCEPT ![p] = [version |-> 1, enabled |-> e, chassis |-> c]]
    /\ UNCHANGED <<nb_chassis, tunneled, nodeVars>>

NbUpdate(p) ==
    /\ nb[p] # None /\ Write
    /\ \E e \in BOOLEAN, c \in Chassis \cup {None} :
          /\ e # nb[p].enabled \/ c # nb[p].chassis
          /\ nb' = [nb EXCEPT ![p] = [version |-> nb[p].version + 1,
                                      enabled |-> e, chassis |-> c]]
    /\ UNCHANGED <<nb_chassis, used, tunneled, nodeVars>>

NbDelete(p) ==
    /\ nb[p] # None /\ Write
    /\ nb' = [nb EXCEPT ![p] = None]
    /\ UNCHANGED <<nb_chassis, used, tunneled, nodeVars>>

\* register_chassis of another node, or its removal by the operator.
NbChassis(c, ip) ==
    /\ c # Here /\ nb_chassis[c] # ip /\ Write
    /\ nb_chassis' = [nb_chassis EXCEPT ![c] = ip]
    /\ UNCHANGED <<nb, used, tunneled, nodeVars>>

----------------------------------------------------------------------------
(* The node.  An event may be late: it is handled with what the database   *)
(* has by then, older versions being what an earlier event would bring.    *)

\* References of an object are cached before it; a chassis that does not
\* exist is met only when the port comes from a sync.
WithChassis(d, c) ==
    IF c # None /\ d.chassis[c] = None
    THEN [d EXCEPT !.chassis[c] = nb_chassis[c]] ELSE d

UpdateLport(p) ==
    LET o == nb[p]
        orig == node.lports[p]
    IN  /\ o # None
        /\ orig # None => o.version > orig.version
        /\ LET d == WithChassis(node, o.chassis)
           IN  /\ node' = UpdateModelObject(d, p, o)
               /\ displaced' =
                    IF \/ resync
                       \/ o.chassis # None /\ d.chassis[o.chassis] = None
                       \/ /\ orig # None /\ IsRemote(orig) /\ IsRemote(o)
                          /\ orig.chassis # o.chassis
                    THEN displaced \cup {p} ELSE displaced
        /\ UNCHANGED <<nbVars, resync, reconnects, kept>>

DeleteLport(p) ==
    /\ nb[p] = None /\ node.lports[p] # None
    /\ node' = DeleteModelObject(node, p)
    /\ displaced' = IF resync THEN displaced \cup {p} ELSE displaced
    /\ UNCHANGED <<nbVars, resync, reconnects, kept>>

UpdateChassis(c) ==
    /\ nb_chassis[c] \notin {None, node.chassis[c]}
    /\ node' = UpdateChassisObject(node, c, nb_chassis[c])
    /\ displaced' = displaced \cup PortsByChassis(node, c)
    /\ UNCHANGED <<nbVars, resync, reconnects, kept>>

\* delete_chassis iterates over the index of the cache that delete changes:
\* after the first port Python raises RuntimeError and the chassis stays.
DeleteChassis(c) ==
    /\ nb_chassis[c] = None /\ node.chassis[c] # None
    /\ LET P == PortsByChassis(node, c)
       IN  \/ /\ P = {}
              /\ node' = [node EXCEPT !.chassis[c] = None]
              /\ UNCHANGED displaced
           \/ \E p \in P :
                /\ node' = DeleteModelObject(node, p)
                /\ displaced' = IF resync THEN displaced \cup {p}
                                ELSE displaced
    /\ UNCHANGED <<nbVars, resync, reconnects, kept>>

\* The switch connects again, having lost its flows in a restart or not:
\* switch_features_handler of every application, which PortBindingApp and
\* L2App use to forget their ports.
SwitchFeatures(lost) ==
    /\ reconnects < MaxReconnects /\ ~resync
    /\ reconnects' = reconnects + 1
    /\ resync' = TRUE
    /\ kept' = (kept \/ ~lost)
    /\ node' = [node EXCEPT
                  !.local_ports = {}, !.remote_ports = {}, !.l2_local = {},
                  !.dst = IF lost THEN {} ELSE @,
                  !.in_dst = IF lost THEN {} ELSE @,
                  !.egress = IF lost THEN [p \in Ports |-> None] ELSE @,
                  !.bcast = IF lost THEN [n \in Nets |-> None] ELSE @,
                  !.bum = IF lost THEN [n \in Nets |-> None] ELSE @,
                  !.tun_in = IF lost THEN {} ELSE @,
                  !.prov = IF lost THEN {} ELSE @]
    /\ UNCHANGED <<nbVars, displaced>>

\* CONTROLLER_REINITIALIZE: the cache is cleared; the sync that follows
\* reads the chassis and then brings the ports, one UpdateLport each.
Reinitialize ==
    /\ resync /\ resync' = FALSE
    /\ node' = [node EXCEPT !.lports = [p \in Ports |-> None],
                            !.chassis = nb_chassis]
    /\ UNCHANGED <<nbVars, reconnects, kept, displaced>>

Next ==
    \/ \E p \in Ports : NbCreate(p) \/ NbUpdate(p) \/ NbDelete(p)
    \/ \E c \in Chassis, ip \in Ips \cup {None} : NbChassis(c, ip)
    \/ \E p \in Ports : UpdateLport(p) \/ DeleteLport(p)
    \/ \E c \in Chassis : UpdateChassis(c) \/ DeleteChassis(c)
    \/ \E lost \in BOOLEAN : SwitchFeatures(lost)
    \/ Reinitialize

Spec == Init /\ [][Next]_vars

----------------------------------------------------------------------------
(* Properties. *)

\* Ports that should be bound, as far as the cache tells.
Wanted(P, Is(_)) ==
    {p \in Cached(node, P) : node.lports[p].enabled /\ Is(node.lports[p])}
Settled == Ports \ displaced
SettledNets == {n \in Nets : \A p \in Ports : NetOf[p] = n => p \in Settled}

\* PortBindingApp knows exactly the enabled ports of the cache that are bound
\* here and elsewhere, whatever sequence of moves, switching on and off,
\* deletions and reconnections led there.
BindingsMatchCache ==
    ~resync => /\ node.local_ports \cap Settled = Wanted(Settled, IsLocal)
               /\ node.remote_ports \cap Settled = Wanted(Settled, IsRemote)

\* A port bound here is reached from its network, by unicast and broadcast,
\* also after the switch lost its flows (l2.py: the networks are forgotten
\* "so the multicast/broadcast flows are installed correctly").
LocalDelivery ==
    ~resync => \A p \in Wanted(Settled, IsLocal) :
        /\ p \in node.dst /\ p \in node.in_dst
        /\ node.egress[p] = "local"
        /\ NetOf[p] \in SettledNets =>
              /\ node.bcast[NetOf[p]] # None
              /\ p \in node.bcast[NetOf[p]]

\* Until the switch reconnects, the flows of networks that count ports are
\* there exactly when a port needs them, and the broadcast to other nodes
\* goes exactly to the addresses of nodes with a port of the network.
NetworkFlows ==
    reconnects = 0 => \A n \in SettledNets :
        LET local  == {p \in Wanted(Ports, IsLocal) : NetOf[p] = n}
            remote == {p \in Wanted(Ports, IsRemote) : NetOf[p] = n}
        IN  /\ n \in node.tun_in \cup node.prov <=> local # {}
            /\ node.bcast[n] = IF local = {} THEN None ELSE local
            /\ n \in tunneled => node.bum[n] =
                  IF remote = {} THEN None
                  ELSE {node.chassis[node.lports[p].chassis] : p \in remote}

\* Unless the switch kept flows while the controller was away, no flow leads
\* to a port that is not bound.
NoStaleFlows ==
    ~resync /\ ~kept => \A p \in Settled :
        /\ p \in node.in_dst => p \in Wanted(Ports, IsLocal)
        /\ p \in node.dst \/ node.egress[p] # None =>
              p \in Wanted(Ports, IsLocal) \cup Wanted(Ports, IsRemote)

\* The lists and the flows of the applications are those of the ports bound
\* according to the cache (PortBindingApp, L2App, TunnelingApp, ProviderApp).
FlowsFollow ==
    BindingsMatchCache /\ LocalDelivery /\ NetworkFlows /\ NoStaleFlows

\* vm_live_migration.rst, step 3: handling the update of the port by Neutron
\* "will ensure the flows are updated correctly", the migration event missed
\* or not: packets to the port are sent to the node it is on.
MovedPortsFollowed ==
    [][\A p \in Ports :
         /\ UpdateLport(p) /\ reconnects = 0 /\ NetOf[p] \in tunneled
         /\ node'.lports[p].enabled /\ IsRemote(node'.lports[p])
         => node'.egress[p] = node'.chassis[node'.lports[p].chassis]]_vars

\* local_controller_reliability.rst: after a restart of Open vSwitch and the
\* sync that follows, the flows are there again.
TunnelsReinstalled ==
    ~resync => \A p \in Wanted(Settled, IsLocal) :
        NetOf[p] \in tunneled => NetOf[p] \in node.tun_in

\* delete_chassis: "there is no reason to keep the remote port in it".
ChassisPortsDeleted ==
    [][\A c \in Chassis : DeleteChassis(c) => PortsByChassis(node', c) = {}]_vars
=============================================================================
