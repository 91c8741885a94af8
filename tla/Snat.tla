-------------------------------- MODULE Snat --------------------------------
(***************************************************************************)
(* Source NAT: ChassisSNATApp (controller/apps/chassis_snat.py with        *)
(* snat_mixin.py) hides the ports of a node behind one external address    *)
(* and the switch's connection tracking; LegacySNatApp (legacy_snat.py)    *)
(* leads the packets for router ports to the node that translates them.    *)
(*                                                                         *)
(* A tenant's packet carries the tenant's address, and addresses of        *)
(* tenants overlap; it is told apart by the key of its port.  Conntrack    *)
(* keeps the key (ct_mark) and the address (ct_label) of a connection.     *)
(***************************************************************************)
EXTENDS FiniteSets

CONSTANTS
    Ports,      \* data ports; a port stands for its unique key
    Address,    \* Address[p]: the tenant's address of a port
    Macs,       \* MAC addresses of the external bridge
    RouterPorts,    \* identifiers of router ports
    RouterMacs,     \* what (lswitch, mac) of a router port may be
    None

EMPTY_MAC == "00:00:00:00:00:00"

VARIABLES
    bridge,     \* the MAC the switch database has for the external bridge
    event,      \* a SwitchPort event with the MAC is under way
    external_bridge_mac, chassis,   \* of the application
    egress_mac,     \* eth_dst of the flow after the egress conntrack
    ingress,    \* ports with a flow that matches their key as ct_mark
    local,      \* ports bound here
    conns,      \* conntrack: [mark, label], and the port it is from
    missed,     \* history: a MAC arrived before the first port was bound
    router,     \* [RouterPorts -> RouterMacs \cup {None}]: cached
    legacy      \* flows: [RouterMacs -> RouterPorts \cup {None}]
chassisVars == <<bridge, event, external_bridge_mac, chassis, egress_mac,
                 ingress, local, conns, missed>>
legacyVars == <<router, legacy>>
vars == <<chassisVars, legacyVars>>

\* The state of both applications keeps its type.
TypeOK ==
    /\ bridge \in Macs \cup {EMPTY_MAC} /\ event \in BOOLEAN
    /\ external_bridge_mac \in Macs \cup {EMPTY_MAC}
    /\ chassis \in BOOLEAN /\ missed \in BOOLEAN
    /\ egress_mac \in Macs \cup {EMPTY_MAC, None}
    /\ ingress \subseteq Ports /\ local \subseteq Ports
    /\ conns \subseteq [mark : Ports, label : {Address[p] : p \in Ports},
                     from : Ports]
    /\ router \in [RouterPorts -> RouterMacs \cup {None}]
    /\ legacy \in [RouterMacs -> RouterPorts \cup {None}]

Init ==
    /\ bridge \in Macs \cup {EMPTY_MAC} /\ event = FALSE
    /\ external_bridge_mac = bridge /\ chassis = FALSE /\ missed = FALSE
    /\ egress_mac = None /\ ingress = {} /\ local = {} /\ conns = {}
    /\ router = [r \in RouterPorts |-> None]
    /\ legacy = [m \in RouterMacs |-> None]

----------------------------------------------------------------------------
(* ChassisSNATApp. *)

\* The switch database changes and an event is queued for the application.
BridgeMac(m) ==
    /\ m # bridge /\ bridge' = m /\ event' = TRUE
    /\ UNCHANGED <<external_bridge_mac, chassis, egress_mac, ingress, local,
                   conns, missed, legacyVars>>

InstallStrategyBasedFlows(mac) == egress_mac' = mac

\* switch_features_handler: the MAC is read from the switch database; flows of
\* ports come with their bindings.
SwitchFeatures ==
    /\ external_bridge_mac' = bridge /\ InstallStrategyBasedFlows(bridge)
    /\ ingress' = {} /\ local' = {} /\ missed' = FALSE
    /\ UNCHANGED <<bridge, event, chassis, conns, legacyVars>>

\* switch_port_updated: without a chassis the flow is not installed again.
SwitchPortUpdated ==
    /\ event /\ event' = FALSE
    /\ IF bridge \in {EMPTY_MAC, external_bridge_mac}
       THEN UNCHANGED <<external_bridge_mac, egress_mac, missed>>
       ELSE /\ external_bridge_mac' = bridge
            /\ egress_mac' = IF chassis THEN bridge ELSE egress_mac
            /\ missed' = (missed \/ ~chassis)
    /\ UNCHANGED <<bridge, chassis, ingress, local, conns, legacyVars>>

AddLocalPort(p) ==
    /\ egress_mac # None /\ p \notin local
    /\ local' = local \cup {p} /\ ingress' = ingress \cup {p}
    /\ chassis' = TRUE
    /\ UNCHANGED <<bridge, event, external_bridge_mac, egress_mac, conns,
                   missed, legacyVars>>

RemoveLocalPort(p) ==
    /\ p \in local
    /\ local' = local \ {p} /\ ingress' = ingress \ {p}
    /\ UNCHANGED <<bridge, event, chassis, external_bridge_mac, egress_mac,
                   conns, missed, legacyVars>>

----------------------------------------------------------------------------
(* What the flows do with packets. *)

\* Mutant: the connection is marked with the tenant's address.
MarkOfAddress(p) == CHOOSE q \in Ports : Address[q] = Address[p]

MarkOf(p) == p

\* _install_snat_egress_conntrack: a packet of a port opens a connection.
Send(p) ==
    /\ p \in local /\ egress_mac # None
    /\ conns' = conns \cup
          {[mark |-> MarkOf(p), label |-> Address[p], from |-> p]}
    /\ UNCHANGED <<bridge, event, external_bridge_mac, chassis, egress_mac,
                   ingress, local, missed, legacyVars>>

Expire(c) ==
    /\ conns' = conns \ {c}
    /\ UNCHANGED <<bridge, event, external_bridge_mac, chassis, egress_mac,
                   ingress, local, missed, legacyVars>>

\* _install_snat_ingress_after_conntrack: where a packet of the connection
\* goes, and with which address, if any flow matches it.
ReturnsTo(c) ==
    IF c.mark \in ingress THEN {[port |-> c.mark, ip |-> c.label]} ELSE {}

----------------------------------------------------------------------------
(* LegacySNatApp. *)

\* router_updated: the ports that changed are removed before any is added.
MovePorts(old, new, f) ==
    LET changed == {r \in RouterPorts : old[r] # new[r]}
        gone    == {old[r] : r \in changed}
    IN  [m \in RouterMacs |->
            IF \E r \in changed : new[r] = m
            THEN CHOOSE r \in changed : new[r] = m
            ELSE IF m \in gone THEN None ELSE f[m]]

\* router_created, router_updated and router_deleted: no ports, no router.
UpdateRouter(new) ==
    /\ new # router
    /\ \A r, s \in RouterPorts : new[r] = new[s] => r = s \/ new[r] = None
    /\ router' = new /\ legacy' = MovePorts(router, new, legacy)
    /\ UNCHANGED chassisVars

ChassisNext ==
    \/ \E m \in Macs : BridgeMac(m)
    \/ SwitchFeatures \/ SwitchPortUpdated
    \/ \E p \in Ports : AddLocalPort(p) \/ RemoveLocalPort(p) \/ Send(p)
    \/ \E c \in conns : Expire(c)
LegacyNext ==
    \E new \in [RouterPorts -> RouterMacs \cup {None}] : UpdateRouter(new)
Next == ChassisNext \/ LegacyNext

Spec == Init /\ [][Next]_vars

----------------------------------------------------------------------------
(* Properties. *)

\* A packet that returns on a connection reaches the port that opened it, with
\* the tenant's address restored, as long as the port is bound here, although
\* tenants use the same addresses (the docstrings of the snat_mixin flows).
ReturnsToSender ==
    \A c \in conns : c.from \in local =>
        ReturnsTo(c) = {[port |-> c.from, ip |-> Address[c.from]]}

\* Translated packets go to the bridge's MAC once its last event was handled,
\* unless the MAC arrived before the first data port was bound.
BridgeMacFollowed ==
    ~event /\ ~missed /\ egress_mac # None /\ bridge # EMPTY_MAC =>
        egress_mac = bridge

\* Each port of the router, and nothing else, has its flow after every update
\* ("Add ports only after all old ones were removed to avoid collision").
LegacyPortsFollowed ==
    \A m \in RouterMacs :
        IF \E r \in RouterPorts : router[r] = m
        THEN legacy[m] # None /\ router[legacy[m]] = m
        ELSE legacy[m] = None

\* Both source NAT applications lead packets where they belong now: replies to
\* their sender, translated packets to the bridge, others to the router's ports.
SnatFollows == ReturnsToSender /\ BridgeMacFollowed /\ LegacyPortsFollowed
=============================================================================
