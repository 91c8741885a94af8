---------------------------- MODULE PortSecurity ----------------------------
(***************************************************************************)
(* PortSecApp (controller/apps/portsec.py): which packets of a local port  *)
(* may leave it.  A port with port security may use its own MAC and        *)
(* addresses and its allowed address pairs; one without is not limited.    *)
(*                                                                         *)
(* Flows match the key of a port, so one port is enough.  Addresses are    *)
(* IPv4.  A flow is a tuple that names its match; its priority and what it *)
(* does follow from its first element.                                     *)
(***************************************************************************)
EXTENDS FiniteSets, TLC, PortEvents

CONSTANTS Macs, Addresses

VARIABLE node       \* lports, bound (PortBindingApp), flows
vars == node

Port == "port"
Pairs == Addresses \X Macs
Absent == [place |-> "absent"]
\* port_security_enabled, mac, ips and allowed_address_pairs of a port.
Lports == {Absent} \cup
    [place : {"unbound", "local", "remote"}, secure : BOOLEAN,
     mac : Macs, ip : Addresses, pairs : SUBSET Pairs]

OnlyVm == {"dhcp", "dhcpv6", "arp_probe", "nd"}
Flows == {<<"open">>} \cup ({"ip", "arp"} \X Addresses \X Macs)
         \cup ({"mac"} \X Macs) \cup (OnlyVm \X Macs)

\* The port and the flows keep their types.
TypeOK ==
    /\ node.lports[Port] \in Lports
    /\ node.bound \subseteq {Port}
    /\ node.flows \subseteq Flows

Init == node = [lports |-> (Port :> Absent), bound |-> {}, flows |-> {}]

----------------------------------------------------------------------------
(* _get_allow_ip_mac_pairs, and _get_allow_macs: the union it computes with *)
(* the MACs of the allowed pairs is not kept.                               *)

AllowPairs(o) == {<<o.ip, o.mac>>} \cup o.pairs
AllowMacs(o)  == {o.mac}

\* _install_flows_check_valid_ip_and_mac, ..._valid_mac, ..._only_vm_mac.
PairFlows(ps) == {<<k, p[1], p[2]>> : k \in {"ip", "arp"}, p \in ps}
MacFlows(ms)  == {<<"mac", m>> : m \in ms}
VmFlows(m)    == {<<k, m>> : k \in OnlyVm}

\* _uninstall_flows_check_only_vm_mac deletes the DHCPv6 flow by the ports of
\* DHCP, which is no flow's match.
RemovedVmFlows(m) == {<<k, m>> : k \in OnlyVm \ {"dhcpv6"}}

SecurityFlows(o) == PairFlows(AllowPairs(o)) \cup MacFlows(AllowMacs(o))

InstallSecurity(d, o)   == [d EXCEPT !.flows =
                               @ \cup SecurityFlows(o) \cup VmFlows(o.mac)]
UninstallSecurity(d, o) == [d EXCEPT !.flows =
                               @ \ (SecurityFlows(o) \cup RemovedVmFlows(o.mac))]
InstallDisable(d)       == [d EXCEPT !.flows = @ \cup {<<"open">>}]
UninstallDisable(d)     == [d EXCEPT !.flows = @ \ {<<"open">>}]

\* Mutant: what was removed is taken away before what is new is added, but
\* for every pair of the old port.
UpdateSecurityDropsPairs(d, o, orig) ==
    [d EXCEPT !.flows =
        ((@ \cup SecurityFlows(o)) \ SecurityFlows(orig))
          \cup (IF o.mac = orig.mac THEN {} ELSE VmFlows(o.mac))]

\* _update_port_security_flows: additions before removals.
UpdateSecurity(d, o, orig) ==
    LET e == [d EXCEPT !.flows = (@ \cup (SecurityFlows(o) \ SecurityFlows(orig)))
                                   \ (SecurityFlows(orig) \ SecurityFlows(o))]
    IN  IF o.mac = orig.mac THEN e
        ELSE [e EXCEPT !.flows = (@ \cup VmFlows(o.mac))
                                   \ RemovedVmFlows(orig.mac)]

----------------------------------------------------------------------------
(* Handlers: _add_local_port, _remove_local_port, _update_local_port.  The *)
(* application does not listen to remote ports.                            *)

Bind(d, p, o) ==
    CASE o.place # "local" -> d
      [] o.place = "local" /\ o.secure -> InstallSecurity(d, o)
      [] OTHER -> InstallDisable(d)

Unbind(d, p, o) ==
    CASE o.place # "local" -> d
      [] o.place = "local" /\ o.secure -> UninstallSecurity(d, o)
      [] OTHER -> UninstallDisable(d)

Update(d, p, o, orig) ==
    CASE o.place # "local" -> d
      [] o.place = "local" /\ o.secure /\ orig.secure ->
            UpdateSecurity(d, o, orig)
      [] o.place = "local" /\ o.secure /\ ~orig.secure ->
            UninstallDisable(InstallSecurity(d, o))
      [] o.place = "local" /\ ~o.secure /\ orig.secure ->
            UninstallSecurity(InstallDisable(d), orig)
      [] OTHER -> d

UpdatePort(o) ==
    /\ o \notin {node.lports[Port], Absent}
    /\ node' = PortUpdated(node, Port, o, Bind, Update, Unbind)

DeletePort ==
    /\ node.lports[Port] # Absent
    /\ node' = PortDeleted(node, Port, Absent, Unbind)

\* The switch restarts and the cache is read again: no flow is left but the
\* ones that drop, which initialize installs.
Restart == node' = [lports |-> (Port :> Absent), bound |-> {}, flows |-> {}]

Next == (\E o \in Lports : UpdatePort(o)) \/ DeletePort \/ Restart

Spec == Init /\ [][Next]_vars

----------------------------------------------------------------------------
(* What the flows do with a packet of the port: an open flow or one for its *)
(* kind lets it pass; IP, IPv6 and ARP packets are dropped before the flow   *)
(* for the MAC is tried.                                                     *)

Passes(kind, ip, mac) ==
    \/ <<"open">> \in node.flows
    \/ kind \in {"ip", "arp"} /\ <<kind, ip, mac>> \in node.flows
    \/ kind \in OnlyVm /\ <<kind, mac>> \in node.flows
    \/ kind = "other" /\ <<"mac", mac>> \in node.flows

\* While the port is bound here its packets pass exactly when port security
\* is off, or their addresses are its own or an allowed pair's; only the
\* port's own MAC passes for what has no address.  DHCPv6 is left out.
PolicyEnforced ==
    LET o == node.lports[Port]
    IN  o.place = "local" =>
        \A ip \in Addresses, mac \in Macs :
            /\ \A k \in {"ip", "arp"} :
                 Passes(k, ip, mac) <=> ~o.secure \/ <<ip, mac>> \in AllowPairs(o)
            /\ \A k \in {"dhcp", "arp_probe", "nd", "other"} :
                 Passes(k, ip, mac) <=> ~o.secure \/ mac = o.mac

\* No packet passes, whatever the port was before, while it is not bound here.
NothingPassesUnbound ==
    node.lports[Port].place # "local" =>
        \A k \in {"ip", "arp", "dhcp", "arp_probe", "nd", "other"},
           ip \in Addresses, mac \in Macs : ~Passes(k, ip, mac)

\* What passes is what the policy of the port says, bound or not: this takes
\* PortSecApp's removal of an old policy to spare what the new one shares.
PortSecured == PolicyEnforced /\ NothingPassesUnbound
=============================================================================
