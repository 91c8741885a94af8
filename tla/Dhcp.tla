-------------------------------- MODULE Dhcp --------------------------------
(***************************************************************************)
(* DHCPApp (controller/apps/dhcp.py) for one network: the DHCP port of the *)
(* network and its addresses per subnet, the flows and responders that     *)
(* follow it, and a client port whose requests are answered, with the rate *)
(* limiter of common/utils.py in front.                                    *)
(*                                                                         *)
(* Addresses are IPv4; the port has one per subnet, in an order.  Options  *)
(* are sets of tags: what a tag's value is encoded to is left out.         *)
(***************************************************************************)
EXTENDS Naturals, Sequences

CONSTANTS Subnets, Addresses, Macs, None,
          Opts, Requests,       \* dhcp_params.opts of the client port; requests
          MaxRate, TimeUnit, MaxClock   \* of the limiter, and of the model

VARIABLES
    node,
    clock,      \* external: the time
    granted,    \* history: when the last requests passed the limiter
    stale,      \* history: subnets known before the last restart only
    reordered,  \* history: the addresses changed their order only
    reply       \* the answer given in the last step, or None
vars == <<node, clock, granted, stale, reordered, reply>>

\* Fixed addresses, one per subnet; the first one is the port's ip.
FixedIps ==
    {f \in UNION {[1 .. k -> Subnets \X Addresses] : k \in 1 .. 2} :
        \A i, j \in DOMAIN f : i # j => f[i][1] # f[j][1] /\ f[i][2] # f[j][2]}
DhcpPorts == [ips : FixedIps, mac : Macs]

\* The client port: its subnet, and whether that has a gateway.
Clients == [subnet : Subnets, gateway : BOOLEAN]

Nodes ==
    [dhcp : DhcpPorts \cup {None}, client : Clients \cup {None},  \* db_store
     server : [Subnets -> Addresses \cup {None}],   \* _dhcp_ip_by_subnet
     limiter : Seq(0 .. MaxClock),      \* _port_rate_limiters[client].deque
     arp : [Addresses -> Macs \cup {None}],         \* flows: ARP responders,
     icmp : SUBSET Addresses,           \*   ICMP responders,
     input : BOOLEAN, block : BOOLEAN]  \*   packet in, and drop

\* The caches, the map of servers and the flows keep their types.
TypeOK ==
    /\ node \in Nodes /\ Len(node.limiter) <= MaxRate
    /\ clock \in 0 .. MaxClock /\ stale \subseteq Subnets
    /\ reordered \in BOOLEAN

Init ==
    /\ node = [dhcp |-> None, client |-> None,
               server |-> [s \in Subnets |-> None], limiter |-> <<>>,
               arp |-> [a \in Addresses |-> None], icmp |-> {},
               input |-> FALSE, block |-> FALSE]
    /\ clock = 0 /\ granted = <<>> /\ stale = {} /\ reordered = FALSE
    /\ reply = None

----------------------------------------------------------------------------
(* The DHCP port. *)

SubnetsOf(o) == {o.ips[i][1] : i \in DOMAIN o.ips}
IpsOf(o) == {o.ips[i][2] : i \in DOMAIN o.ips}
Ip(o) == o.ips[1][2]

\* _install_dhcp_port_responders: an ARP responder for each address, and an
\* ICMP responder, each time for the first one.
InstallResponders(d, o) ==
    [d EXCEPT !.arp = [a \in Addresses |-> IF a \in IpsOf(o) THEN o.mac ELSE @[a]],
              !.icmp = @ \cup {Ip(o)}]
UninstallResponders(d, o) ==
    [d EXCEPT !.arp = [a \in Addresses |-> IF a \in IpsOf(o) THEN None ELSE @[a]],
              !.icmp = @ \ {Ip(o)}]

\* _add_dhcp_ips_by_subnet.
AddIps(d, o) ==
    [d EXCEPT !.server = [s \in Subnets |->
        IF s \in SubnetsOf(o)
        THEN (CHOOSE f \in {o.ips[i] : i \in DOMAIN o.ips} : f[1] = s)[2]
        ELSE @[s]]]
DeleteIps(d, subnets) ==
    [d EXCEPT !.server = [s \in Subnets |-> IF s \in subnets THEN None ELSE @[s]]]

\* _lport_created.
Created(d, o) ==
    AddIps([InstallResponders(d, o) EXCEPT !.input = TRUE], o)

\* Mutant: the addresses of subnets the port left are kept.
UpdatedKeepsSubnets(d, o, orig) ==
    LET d1 == IF IpsOf(o) # IpsOf(orig) \/ o.mac # orig.mac
              THEN InstallResponders(UninstallResponders(d, orig), o) ELSE d
    IN  AddIps(d1, o)

\* _lport_updated.
Updated(d, o, orig) ==
    LET d1 == IF IpsOf(o) # IpsOf(orig) \/ o.mac # orig.mac
              THEN InstallResponders(UninstallResponders(d, orig), o) ELSE d
    IN  DeleteIps(AddIps(d1, o), SubnetsOf(orig) \ SubnetsOf(o))

UpdateDhcpPort(o) ==
    /\ o # node.dhcp
    /\ LET d == [node EXCEPT !.dhcp = o]
       IN  node' = IF node.dhcp = None THEN Created(d, o)
                   ELSE Updated(d, o, node.dhcp)
    /\ stale' = stale \ SubnetsOf(o)
    /\ reordered' = (reordered \/ (node.dhcp # None /\ node.dhcp.mac = o.mac
                         /\ IpsOf(node.dhcp) = IpsOf(o) /\ Ip(node.dhcp) # Ip(o)))
    /\ reply' = None /\ UNCHANGED <<clock, granted>>

\* _lport_deleted, of the DHCP port.
DeleteDhcpPort ==
    /\ node.dhcp # None
    /\ node' = [DeleteIps(UninstallResponders(node, node.dhcp),
                          SubnetsOf(node.dhcp))
                    EXCEPT !.dhcp = None, !.input = FALSE]
    /\ reply' = None /\ UNCHANGED <<clock, granted, stale, reordered>>

----------------------------------------------------------------------------
(* The client port and its requests. *)

UpdateClient(o) ==
    /\ o # node.client
    /\ node' = [node EXCEPT !.client = o]
    /\ reply' = None /\ UNCHANGED <<clock, granted, stale, reordered>>

\* _lport_deleted, of a local port: _delete_lport_rate_limiter.
DeleteClient ==
    /\ node.client # None
    /\ node' = [node EXCEPT !.client = None, !.limiter = <<>>]
    /\ granted' = <<>>
    /\ reply' = None /\ UNCHANGED <<clock, stale, reordered>>

LastOf(q) == IF Len(q) > MaxRate + 1 THEN Tail(q) ELSE q

\* RateLimiter.__call__ on a deque of MaxRate times.
Limit(q, now) ==
    CASE Len(q) < MaxRate -> [over |-> FALSE, deque |-> Append(q, now)]
      [] Len(q) = MaxRate /\ now - q[1] > TimeUnit ->
            [over |-> FALSE, deque |-> Append(Tail(q), now)]
      [] OTHER -> [over |-> TRUE, deque |-> q]

\* _build_response_default_options.
DefaultOptions(c, type) ==
    {"mask"} \cup (IF c.gateway \/ "router" \in Opts THEN {"router"} ELSE {})
             \cup (IF type = "ack" THEN {"mtu"} ELSE {})

\* _build_dhcp_options: requested options of the port that no default answers.
Options(c, type, requested) ==
    [default |-> DefaultOptions(c, type),
     port |-> (requested \cap Opts) \ DefaultOptions(c, type)]

\* _create_dhcp_response: none without an address of the server, or when the
\* gateway is the text of an option, whose encoding raises.
Response(d, type, requested) ==
    LET c == d.client
    IN  IF d.server[c.subnet] = None \/ (~c.gateway /\ "router" \in Opts)
        THEN None
        ELSE [type |-> type, server |-> d.server[c.subnet],
              subnet |-> c.subnet, requested |-> requested,
              options |-> Options(c, type, requested)]

\* packet_in_handler: no DHCP port, over the limit, or handled.
PacketIn(message, requested) ==
    /\ node.input /\ ~node.block /\ node.dhcp # None /\ node.client # None
    /\ LET limit == Limit(node.limiter, clock)
       IN  IF limit.over
           THEN /\ node' = [node EXCEPT !.block = TRUE]
                /\ reply' = None /\ UNCHANGED granted
           ELSE /\ node' = [node EXCEPT !.limiter = limit.deque]
                /\ granted' = LastOf(Append(granted, clock))
                /\ reply' = CASE message = "discover" ->
                                    Response(node, "offer", requested)
                              [] message = "request" ->
                                    Response(node, "ack", requested)
                              [] OTHER -> None
    /\ UNCHANGED <<clock, stale, reordered>>

\* The drop flow reaches its hard timeout.
Unblock ==
    /\ node.block /\ node' = [node EXCEPT !.block = FALSE]
    /\ reply' = None /\ UNCHANGED <<clock, granted, stale, reordered>>

Tick ==
    /\ clock < MaxClock /\ clock' = clock + 1
    /\ reply' = None /\ UNCHANGED <<node, granted, stale, reordered>>

\* The switch restarts: switch_features_handler clears the limiters; the map
\* of servers is kept while the cache is read again.
SwitchFeatures ==
    /\ node' = [node EXCEPT !.dhcp = None, !.client = None, !.limiter = <<>>,
                            !.arp = [a \in Addresses |-> None], !.icmp = {},
                            !.input = FALSE, !.block = FALSE]
    /\ granted' = <<>> /\ reordered' = FALSE
    /\ stale' = stale \cup {s \in Subnets : node.server[s] # None}
    /\ reply' = None /\ UNCHANGED clock

Messages == {"discover", "request", "release"}

Next ==
    \/ \E o \in DhcpPorts : UpdateDhcpPort(o)
    \/ \E o \in Clients : UpdateClient(o)
    \/ \E m \in Messages, r \in Requests : PacketIn(m, r)
    \/ DeleteDhcpPort \/ DeleteClient \/ Unblock \/ Tick \/ SwitchFeatures

Spec == Init /\ [][Next]_vars

----------------------------------------------------------------------------
(* Properties. *)

\* Each subnet is answered for by the address the DHCP port has in it now;
\* what was known before the last restart is the exception.
ServerFollowsPort ==
    \A s \in Subnets \ stale :
        node.server[s] = IF node.dhcp # None /\ s \in SubnetsOf(node.dhcp)
                         THEN (CHOOSE f \in {node.dhcp.ips[i] :
                                    i \in DOMAIN node.dhcp.ips} : f[1] = s)[2]
                         ELSE None

\* The responders are those of the DHCP port: ARP for each of its addresses
\* with its MAC, ICMP for the first, and requests reach the controller while
\* there is one.
RespondersFollowPort ==
    /\ node.input <=> node.dhcp # None
    /\ \A a \in Addresses :
         node.arp[a] = IF node.dhcp # None /\ a \in IpsOf(node.dhcp)
                       THEN node.dhcp.mac ELSE None
    /\ ~reordered => node.icmp = (IF node.dhcp = None THEN {} ELSE {Ip(node.dhcp)})

\* RateLimiter: no more than MaxRate requests pass within TimeUnit.
RateLimited ==
    \A i, j \in DOMAIN granted :
        j - i >= MaxRate => granted[j] - granted[i] > TimeUnit

\* _build_dhcp_options: "explicitly configured options" are always there and
\* an option of the port never replaces one; other options of the port are
\* given when they were requested.
OptionsAnswered ==
    reply # None =>
        /\ {"mask"} \subseteq reply.options.default
        /\ reply.options.port \cap reply.options.default = {}
        /\ reply.options.port \subseteq reply.requested

\* DHCPApp answers for the DHCP port as it is now, with the options that are
\* configured or asked for, and no faster than its limiter lets it.
ClientsServed == /\ ServerFollowsPort /\ RespondersFollowPort
                 /\ RateLimited /\ OptionsAnswered
=============================================================================
