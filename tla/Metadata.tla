------------------------------ MODULE Metadata ------------------------------
(***************************************************************************)
(* The metadata service (controller/apps/metadata_service.py): the flows   *)
(* that lead requests of virtual machines through an interface of the      *)
(* switch to a proxy, and the proxy, which tells from the source address   *)
(* alone which port asks.                                                  *)
(*                                                                         *)
(* The source address of a request is the unique key of its port with the  *)
(* highest bit set.  Addresses have Width bits here.                       *)
(***************************************************************************)
EXTENDS Naturals

CONSTANTS Ports, Key, Address,  \* ports, their unique keys and addresses
          SourcePorts,          \* TCP source ports of requests
          Numbers, Macs,        \* of the interface; number 0 is no number
          Width, None

VARIABLES
    iface,      \* external: the interface at the switch, or None
    lports,     \* logical ports of the database
    app,        \* _port_num, _interface_mac
    flows,
    leftover,   \* history: numbers of the interface that it changed
    answer      \* the proxy's answer of the last step, or None
vars == <<iface, lports, app, flows, leftover, answer>>

\* The flag of request addresses, and its place.
Flag == 2 ^ (Width - 1)

Reply == [key : 0 .. Flag - 1, source : SourcePorts,
          address : {Address[p] : p \in Ports}, reg7 : {Key[p] : p \in Ports}]

\* The application's fields and the flows keep their types.
TypeOK ==
    /\ iface \in [num : Numbers, mac : Macs] \cup {None}
    /\ lports \subseteq Ports
    /\ app \in [num : Numbers \cup {None}, mac : Macs \cup {None}]
    /\ flows.classify \subseteq Numbers         \* packets from the interface
    /\ flows.output \in Numbers \cup {None}     \* requests, to the interface
    /\ flows.arp \in Macs \cup {None}           \* ARP responder
    /\ flows.learned \subseteq Reply            \* replies, back to the port
    /\ leftover \subseteq Numbers

NoFlows == [classify |-> {}, output |-> None, arp |-> None, learned |-> {}]

Init ==
    /\ iface = None /\ lports = {} /\ leftover = {} /\ answer = None
    /\ app = [num |-> None, mac |-> None] /\ flows = NoFlows

----------------------------------------------------------------------------
(* The interface. *)

\* _add_tap_metadata_port.
AddTap(f, num, mac) ==
    [f EXCEPT !.classify = @ \cup {num}, !.output = num, !.arp = mac]

\* switch_port_updated: a number and a MAC, and one of them is new.
SwitchPortUpdated(num, mac) ==
    /\ iface' = [num |-> num, mac |-> mac]
    /\ IF num = 0 \/ mac = None \/ (num = app.num /\ mac = app.mac)
       THEN UNCHANGED <<app, flows, leftover>>
       ELSE /\ flows' = AddTap(flows, num, mac)
            /\ app' = [num |-> num, mac |-> mac]
            /\ leftover' = (leftover \cup {app.num}) \ {None, num}
    /\ answer' = None /\ UNCHANGED lports

\* switch_port_deleted and _remove_metadata_interface_flows.
SwitchPortDeleted ==
    /\ iface # None /\ iface' = None /\ answer' = None
    /\ IF app.num = None THEN UNCHANGED <<app, flows>>
       ELSE /\ flows' = [flows EXCEPT !.classify = @ \ {app.num}]
            /\ app' = [num |-> None, mac |-> None]
    /\ UNCHANGED <<lports, leftover>>

\* The switch restarts: switch_features_handler.
SwitchFeatures ==
    /\ flows' = IF app.num # None /\ app.mac # None
                THEN AddTap(NoFlows, app.num, app.mac) ELSE NoFlows
    /\ leftover' = {} /\ answer' = None
    /\ UNCHANGED <<iface, lports, app>>

----------------------------------------------------------------------------
(* Requests. *)

\* Mutant: one bit of the key too few.
RewrittenShort(key) == Flag + (key % (Flag \div 2))

\* _get_rewrite_ip_and_output_actions: the register, with the last bit set.
Rewritten(key) == Flag + (key % Flag)

\* Mutant: the flag stays in the key.
LearnedFlagged(p, source) ==
    [key |-> Rewritten(Key[p]), source |-> source, address |-> Address[p],
     reg7 |-> Key[p]]

\* _get_learn_actions: the reply to the rewritten address goes back.
Learned(p, source) ==
    [key |-> Key[p] % Flag, source |-> source, address |-> Address[p],
     reg7 |-> Key[p]]

\* DFMetadataProxyHandler.get_headers: the flag is taken out.
TunnelKey(address) == address % Flag

\* _get_logical_port_by_tunnel_key: any port with the key, or it raises.
PortsByTunnelKey(key) == {q \in lports : Key[q] = key}

\* proxy_request: what the remote server answered is passed on; it got the
\* instance of the port, and anything else is an error.
ProxyRequest(p, source, status) ==
    LET found == PortsByTunnelKey(TunnelKey(Rewritten(Key[p])))
    IN  IF found = {} THEN [to |-> p, source |-> source, instance |-> None,
                            status |-> 500]
        ELSE [to |-> p, source |-> source, instance |-> CHOOSE q \in found : TRUE,
              status |-> IF status \in {200, 400, 403, 404, 409} THEN status
                         ELSE 500]

\* A connection of p to the service: its first packet leaves a flow for the
\* replies, and the proxy answers.
Request(p, source, status) ==
    /\ flows.output # None /\ iface # None /\ iface.num = flows.output
    /\ flows' = [flows EXCEPT !.learned =
            {r \in @ : <<r.key, r.source>> # <<Key[p] % Flag, source>>}
                \cup {Learned(p, source)}]
    /\ answer' = ProxyRequest(p, source, status)
    /\ UNCHANGED <<iface, lports, app, leftover>>

\* A learned flow ends with its connection.
Expire(r) ==
    /\ r \in flows.learned /\ answer' = None
    /\ flows' = [flows EXCEPT !.learned = @ \ {r}]
    /\ UNCHANGED <<iface, lports, app, leftover>>

ChangePorts(s) ==
    /\ s # lports /\ lports' = s /\ answer' = None
    /\ UNCHANGED <<iface, app, flows, leftover>>

Statuses == {200, 404, 503}

Next ==
    \/ \E num \in Numbers, mac \in Macs : SwitchPortUpdated(num, mac)
    \/ SwitchPortDeleted \/ SwitchFeatures
    \/ \E p \in Ports, t \in SourcePorts, s \in Statuses : Request(p, t, s)
    \/ \E r \in flows.learned : Expire(r)
    \/ \E s \in SUBSET Ports : ChangePorts(s)

Spec == Init /\ [][Next]_vars

----------------------------------------------------------------------------
(* Properties. *)

\* "For reconnection, if the mac and port_num is set, re-download the flows":
\* while the interface has a number, packets go out through it, come back from
\* it and its MAC answers; a number it does not have leads nowhere, unless it
\* was changed without a deletion.
InterfaceFlowsFollow ==
    /\ iface # None /\ iface.num # 0 =>
         /\ iface.num \in flows.classify /\ flows.output = iface.num
         /\ flows.arp = iface.mac
    /\ iface = None => flows.classify \subseteq leftover

\* "so that the transparent proxy can extract the <reg6> from the source IP
\* address, and be able to identify the source VM": an answer is about the
\* instance of the port that asked.
InstanceIdentified ==
    answer # None /\ answer.status = 200 => answer.instance = answer.to

\* The reply to a connection is led back to the address and the port that
\* opened it, for any number of ports and connections at once.
RepliesReturn ==
    answer # None =>
        {r \in flows.learned : r.key = TunnelKey(Rewritten(Key[answer.to]))
                               /\ r.source = answer.source}
            = {Learned(answer.to, answer.source)}

\* A request gets through the interface of now to the proxy, is answered about
\* the port that asked, and the answer finds its way back to it.
MetadataServed == InterfaceFlowsFollow /\ InstanceIdentified /\ RepliesReturn
=============================================================================
