--------------------------- MODULE MCApplications ---------------------------
(***************************************************************************)
(* TLC instance of SecurityGroups and of the applications that route and   *)
(* serve packets (Snat, Routers, Dhcp, Metadata, ServiceChains).           *)
(* They share no state here, so a behaviour is one of one of them: focus   *)
(* says of which.                                                          *)
(***************************************************************************)
EXTENDS SecurityGroups, Sequences, TLC

CONSTANTS p1, p2, p3, p4, a1, a2, m1, m2, s1, s2, f1, f2, ppa, ppb, g1, g2, r1, r2,
          w1, w2, w3, i1, i2, x1, x2, q1, q2, u1, u2

VARIABLES focus,
    bridge, event, external_bridge_mac, chassis, egress_mac, ingress, local,
    conns, missed, router, legacy,
    l_app, l_node, l_resync, l_switched, l_early, swept, stuck,
    d_node, clock, granted, stale, reordered, reply,
    iface, lports, app, flows, leftover, answer,
    c_node, reshaped, regrouped, left, unchained, relocated

\* Two tenants use the same address.
OneAddress == p1 :> a1 @@ p2 :> a1
Cs == INSTANCE Snat WITH Ports <- {p1, p2}, Address <- OneAddress,
    Macs <- {m1, m2}, RouterPorts <- {r1, r2}, RouterMacs <- {w1, w2, w3}

\* The port p1 is behind interface i1 and p2 behind i2; the destination x2 is
\* inside the subnet of i1.
InterfaceOf == p1 :> i1 @@ p2 :> i2
SubnetOf == x1 :> None @@ x2 :> i1
L3 == INSTANCE Routers WITH app <- l_app, node <- l_node, resync <- l_resync,
    switched <- l_switched, early <- l_early,
    Interfaces <- {i1, i2}, Ports <- {p1, p2}, Behind <- InterfaceOf,
    Dests <- {x1, x2}, Inside <- SubnetOf, Versions <- {1, 2}

\* Two requests in a unit of time, of three units.
Requested == {{}, {"other"}, {"mtu", "router"}}
Dh == INSTANCE Dhcp WITH node <- d_node,
    Subnets <- {s1, s2}, Addresses <- {a1, a2}, Macs <- {m1, m2},
    Opts <- {"router", "other"}, Requests <- Requested,
    MaxRate <- 2, TimeUnit <- 1, MaxClock <- 3

\* Keys of three bits, one of them the flag.
PortKeys == p1 :> 1 @@ p2 :> 3
Md == INSTANCE Metadata WITH Ports <- {p1, p2}, Key <- PortKeys,
    Address <- OneAddress, SourcePorts <- {1, 2},
    Numbers <- {0, 1, 2}, Macs <- {m1, m2}, Width <- 3

\* The classifier f1 is at the source and f2 at the destination; the pair ppa
\* has one port and keeps the label, ppb has two and does not.
ClassifiedPort == f1 :> p1 @@ f2 :> p2
ClassifiedSide == f1 :> "source" @@ f2 :> "dest"
PairIngress == ppa :> p3 @@ ppb :> p4
PairEgress == ppa :> p3 @@ ppb :> p3
PairLists == {<<>>, <<ppa>>, <<ppb>>, <<ppa, ppb>>}
GroupLists == {<<g1>>, <<g2>>, <<g1, g2>>}
Sc == INSTANCE ServiceChains WITH node <- c_node,
    Ports <- {p1, p2, p3, p4},
    Classifiers <- {f1, f2}, FcPort <- ClassifiedPort, Side <- ClassifiedSide,
    Pairs <- {ppa, ppb}, Ingress <- PairIngress, Egress <- PairEgress,
    Mpls <- {ppa}, Groups <- {g1, g2}, GroupPairs <- PairLists,
    ChainGroups <- GroupLists, ChainClassifiers <- {<<f1>>, <<f1, f2>>}

\* The first group lets its own members in, as default groups do, and those
\* of the second, which has no rule.
RuleGroups  == u1 :> g1 @@ u2 :> g1
RuleRemotes == u1 :> g1 @@ u2 :> g2

csVars == <<bridge, event, external_bridge_mac, chassis, egress_mac, ingress,
            local, conns, missed, router, legacy>>
l3Vars == <<l_app, l_node, l_resync, l_switched, l_early, swept, stuck>>
dhVars == <<d_node, clock, granted, stale, reordered, reply>>
mdVars == <<iface, lports, app, flows, leftover, answer>>
scVars == <<c_node, reshaped, regrouped, left, unchained, relocated>>
others == <<csVars, l3Vars, dhVars, mdVars, scVars>>

MCInit ==
    /\ focus \in {"snat", "router", "dhcp", "metadata", "sfc", "groups"}
    /\ Cs!Init /\ L3!Init /\ Dh!Init /\ Md!Init /\ Sc!Init /\ Init
    /\ focus # "snat" => bridge = m1
    /\ focus # "router" => l_app = "proactive"
    /\ focus # "sfc" => \A g \in {g1, g2} : c_node.pairs[g] = <<>>
    /\ focus # "groups" => node.rules = {}

MCNext ==
    \/ /\ focus = "snat" /\ Cs!Next
       /\ UNCHANGED <<focus, l3Vars, dhVars, mdVars, scVars, vars>>
    \/ /\ focus = "router" /\ L3!Next
       /\ UNCHANGED <<focus, csVars, dhVars, mdVars, scVars, vars>>
    \/ /\ focus = "dhcp" /\ Dh!Next
       /\ UNCHANGED <<focus, csVars, l3Vars, mdVars, scVars, vars>>
    \/ /\ focus = "metadata" /\ Md!Next
       /\ UNCHANGED <<focus, csVars, l3Vars, dhVars, scVars, vars>>
    \/ /\ focus = "sfc" /\ Sc!Next
       /\ UNCHANGED <<focus, csVars, l3Vars, dhVars, mdVars, vars>>
    \/ focus = "groups" /\ Next /\ UNCHANGED <<focus, others>>

MCSpec == MCInit /\ [][MCNext]_<<focus, others, vars>>

\* What routes do after one of the histories of Routers is not followed, nor a
\* chain whose labels changed, or whose pairs did, nor a group that may keep a
\* port that is gone.
Followed == /\ l_early = {} /\ swept = {} /\ ~stuck
            /\ ~reshaped /\ relocated = {} /\ regrouped = {}
            /\ leaked = {}

\* The ports of SecurityGroups are alike; no other module has them.
Symmetry == Permutations({q1, q2})

----------------------------------------------------------------------------
(* Properties: see the modules; those of SecurityGroups keep their names. *)

\* All state keeps its type.
TypesOK ==
    /\ focus = "snat" => Cs!TypeOK
    /\ focus = "router" => L3!TypeOK
    /\ focus = "dhcp" => Dh!TypeOK
    /\ focus = "metadata" => Md!TypeOK
    /\ focus = "sfc" => Sc!TypeOK
    /\ focus = "groups" => TypeOK

\* ChassisSNATApp, LegacySNatApp: what returns reaches the port that sent, what
\* leaves the current bridge; the flows are those of the router's ports.
SnatFollows == focus = "snat" => Cs!SnatFollows

\* L3App: routes, interfaces and bound ports have the flows of now.
RouterFollowed == focus = "router" => L3!RouterFollowed

\* DHCPApp: answers are those of the DHCP port and the options, at its rate.
ClientsServed == focus = "dhcp" => Dh!ClientsServed

\* MetadataServiceApp: requests reach the proxy, which tells who asks, and
\* answers return.
MetadataServed == focus = "metadata" => Md!MetadataServed

\* SfcApp, FcApp: packets pass the chain as it is now, or none.
ChainFollowed == focus = "sfc" => Sc!ChainFollowed
=============================================================================
