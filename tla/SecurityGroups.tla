--------------------------- MODULE SecurityGroups ---------------------------
(***************************************************************************)
(* SGApp (controller/apps/sg.py): security groups as conjunctive flows.    *)
(*                                                                         *)
(* A packet to or from a local port passes if the port has an associating  *)
(* flow of a group and a rule of the group has a flow for the other        *)
(* address.  A rule with a remote group has one flow per CIDR of the       *)
(* addresses of that group: the application counts which ports give an     *)
(* address to a group, merges the addresses into CIDRs, and on each change *)
(* adds and deletes the flows of the CIDRs that came and went.             *)
(*                                                                         *)
(* The node is a record and handlers are functions on it.  Rules differ in *)
(* direction or protocol, so no two have a flow in common.  Groups stay    *)
(* cached: the database keeps those in use.  Addresses are of one version. *)
(* Connections allowed by the flows are committed to conntrack; as its     *)
(* entries do not depend on each other, one of them stands for all.        *)
(***************************************************************************)
EXTENDS Naturals, FiniteSetsExt, PortEvents

CONSTANTS
    Ports,      \* logical ports
    Groups,     \* security groups
    Rules,      \* security group rules
    GroupOf,    \* security_group_id of a rule
    RemoteOf,   \* remote_group_id of a rule, or None: any address
    Width,      \* bits of an address
    None,
    MaxReconnects   \* bound on reconnections of the switch

Addresses == 0 .. 2 ^ Width - 1
Blocks == UNION {{{a \in Addresses : a \div 2 ^ k = b} : b \in Addresses}
                 : k \in 0 .. Width} \ {{}}

Absent == [place |-> "absent", ips |-> {}, groups |-> {}]
Lports == {Absent} \cup
    [place : {"unbound", "local", "remote"},
     ips : SUBSET Addresses, groups : SUBSET Groups]
Connections == [rule : Rules, local : Addresses, remote : Addresses]

VARIABLES
    node,
    resync,      \* CONTROLLER_REINITIALIZE is queued
    reconnects,
    leaked       \* history: groups that may keep a port that is gone

vars == <<node, resync, reconnects, leaked>>

Nodes ==
    [lports : [Ports -> Lports],          \* db_store
     rules  : SUBSET Rules,               \* db_store: rules of the groups
     bound  : SUBSET Ports,               \* PortBindingApp
     remote_ref : SUBSET Rules,           \* remote_secgroup_ref
     local_ports : [Groups -> SUBSET Ports],   \* ..._associate_local_ports
     addresses : [Groups -> SUBSET Addresses], \* ..._aggregate_addresses
     ip_refs : [Groups \X Addresses -> SUBSET Ports],  \* secgroup_ip_refs
     associating : SUBSET (Ports \X Groups),   \* flows: port in group
     permit : SUBSET Groups,              \* flows: conjunction of the group
     rule_flows : [Rules -> SUBSET Blocks],    \* flows, by their cookie
     ct : SUBSET Ports,                   \* flows: port tracks connections
     conn : Connections \cup {None}]      \* conntrack

\* The records and the flows keep their types.
TypeOK ==
    /\ node \in Nodes
    /\ resync \in BOOLEAN
    /\ reconnects \in 0 .. MaxReconnects
    /\ leaked \subseteq Groups

\* The groups were read, no port yet.
Init ==
    /\ \E rs \in SUBSET Rules :
       node = [lports |-> [p \in Ports |-> Absent], rules |-> rs,
               bound |-> {}, remote_ref |-> {},
               local_ports |-> [g \in Groups |-> {}],
               addresses |-> [g \in Groups |-> {}],
               ip_refs |-> [k \in Groups \X Addresses |-> {}],
               associating |-> {}, permit |-> {},
               rule_flows |-> [r \in Rules |-> {}], ct |-> {},
               conn |-> None]
    /\ resync = FALSE /\ reconnects = 0 /\ leaked = {}

----------------------------------------------------------------------------
(* Addresses and CIDRs. *)

\* netaddr.IPSet.iter_cidrs: the largest blocks that make up a set.
Cidrs(S) ==
    {b \in SUBSET S \cap Blocks :
        \A c \in SUBSET S \cap Blocks : b \subseteq c => c = b}

IsAssociated(d, g) == d.local_ports[g] # {}

\* _get_lport_added_ips_for_secgroup: an address is added by the first port.
AddedIps(d, g, ips) == {a \in ips : d.ip_refs[g, a] = {}}
IncReferences(d, g, p, ips) ==
    [d EXCEPT !.ip_refs = [k \in DOMAIN @ |->
        IF k[1] = g /\ k[2] \in ips THEN @[k] \cup {p} ELSE @[k]]]

\* _get_lport_removed_ips_for_secgroup: it is removed by the last one.
RemovedIps(d, g, p, ips) == {a \in ips : d.ip_refs[g, a] = {p}}
DecReferences(d, g, p, ips) ==
    [d EXCEPT !.ip_refs = [k \in DOMAIN @ |->
        IF k[1] = g /\ k[2] \in ips THEN @[k] \ {p} ELSE @[k]]]

----------------------------------------------------------------------------
(* Conntrack. *)

RulesOf(d, g) == {r \in d.rules : GroupOf[r] = g}

\* delete_conntrack_entries_by_filter: no remote addresses means all.
DeleteConntrack(d, r, locals, remotes) ==
    IF /\ d.conn # None
       /\ d.conn.rule = r /\ d.conn.local \in locals
       /\ remotes = {} \/ d.conn.remote \in remotes
    THEN [d EXCEPT !.conn = None] ELSE d

\* _delete_conntrack_entries_by_rule: for all ports of the group of the rule,
\* with the addresses the cache has.
DeleteConntrackByRule(d, r, remotes) ==
    DeleteConntrack(d, r, UNION {d.lports[p].ips :
                                 p \in d.local_ports[GroupOf[r]]}, remotes)

\* _delete_conntrack_entries_by_local_port_info.
DeleteConntrackByPort(d, g, ips) ==
    FoldSet(LAMBDA r, e : DeleteConntrack(e, r, ips, {}), d, RulesOf(d, g))

----------------------------------------------------------------------------
(* Rules. *)

\* _install_flows_from_address_list, with OFPFC_ADD and OFPFC_DELETE_STRICT.
AddFlows(d, r, blocks) == [d EXCEPT !.rule_flows[r] = @ \cup blocks]
DeleteFlows(d, r, blocks) == [d EXCEPT !.rule_flows[r] = @ \ blocks]

\* _uninstall_security_group_rule_flows: all flows with the cookie.
UninstallRuleFlows(d, r) == [d EXCEPT !.rule_flows[r] = {}]

\* _install_security_group_rule_flows.
RuleBlocks(d, r) ==
    IF RemoteOf[r] = None THEN {Addresses}
    ELSE Cidrs(d.addresses[RemoteOf[r]])

AddSecurityGroupRule(d, r) ==
    IF ~IsAssociated(d, GroupOf[r]) THEN d
    ELSE AddFlows([d EXCEPT !.remote_ref =
                     IF RemoteOf[r] = None THEN @ ELSE @ \cup {r}],
                  r, RuleBlocks(d, r))

RemoveSecurityGroupRule(d, r) ==
    IF ~IsAssociated(d, GroupOf[r]) THEN d
    ELSE DeleteConntrackByRule(
            UninstallRuleFlows([d EXCEPT !.remote_ref = @ \ {r}], r), r, {})

\* Mutant: only new blocks are looked at, blocks that merged stay.
UpdateRuleFlowsAddsOnly(d, r, added, removed) ==
    IF ~IsAssociated(d, GroupOf[r]) THEN d
    ELSE AddFlows(d, r, added)

\* _update_security_group_rule_flows_by_addresses.
UpdateRuleFlows(d, r, added, removed) ==
    IF ~IsAssociated(d, GroupOf[r]) THEN d
    ELSE DeleteFlows(AddFlows(d, r, added), r, removed)

\* The new addresses of a group reach the rules that have it as remote group.
SetAddresses(d, g, new) ==
    LET old   == d.addresses[g]
        added == Cidrs(new) \ Cidrs(old)
        removed == Cidrs(old) \ Cidrs(new)
    IN  FoldSet(LAMBDA r, e : UpdateRuleFlows(e, r, added, removed),
                [d EXCEPT !.addresses[g] = new],
                {r \in d.remote_ref : RemoteOf[r] = g})

DropRemoteConnections(d, g, removed) ==
    FoldSet(LAMBDA r, e : DeleteConntrackByRule(e, r, removed), d,
            {r \in d.remote_ref : RemoteOf[r] = g})

----------------------------------------------------------------------------
(* Ports in groups. *)

AssociateAddresses(d, g, p, o) ==
    SetAddresses(IncReferences(d, g, p, o.ips), g,
                 d.addresses[g] \cup AddedIps(d, g, o.ips))

DisassociateAddresses(d, g, p, o) ==
    LET removed == RemovedIps(d, g, p, o.ips)
    IN  IF d.addresses[g] = {} THEN d
        ELSE DropRemoteConnections(
                SetAddresses(DecReferences(d, g, p, o.ips), g,
                             d.addresses[g] \ removed), g, removed)

\* _get_lport_updated_ips_for_secgroup: only what differs is counted.
UpdatedIps(d, g, p, o, orig) ==
    [added   |-> AddedIps(d, g, o.ips \ orig.ips),
     removed |-> RemovedIps(d, g, p, orig.ips \ o.ips)]

\* _update_port_addresses_process: a group the port stays in.
UpdateAddresses(d, g, p, o, orig) ==
    LET ips == UpdatedIps(d, g, p, o, orig)
        d1  == IncReferences(d, g, p, o.ips \ orig.ips)
        d2  == DecReferences(d1, g, p, orig.ips \ o.ips)
    IN  DropRemoteConnections(
            SetAddresses(d2, g, (d.addresses[g] \cup ips.added) \ ips.removed),
            g, ips.removed)

\* _install_security_group_flows, _uninstall_security_group_flow.
InstallGroup(d, g) ==
    FoldSet(LAMBDA r, e : AddSecurityGroupRule(e, r),
            [d EXCEPT !.permit = @ \cup {g}], RulesOf(d, g))
UninstallGroup(d, g) ==
    FoldSet(LAMBDA r, e : RemoveSecurityGroupRule(e, r),
            [d EXCEPT !.permit = @ \ {g}], RulesOf(d, g))

InstallAssociating(d, g, p) ==
    IF IsAssociated(d, g) THEN [d EXCEPT !.associating = @ \cup {<<p, g>>}]
    ELSE d
UninstallAssociating(d, g, p) ==
    IF IsAssociated(d, g) THEN [d EXCEPT !.associating = @ \ {<<p, g>>}]
    ELSE d

InstallConntrack(d, p)   == [d EXCEPT !.ct = @ \cup {p}]
UninstallConntrack(d, p) == [d EXCEPT !.ct = @ \ {p}]

\* _add_local_port_associating: the first port installs the group.
AddLocalAssociating(d, g, p, o) ==
    LET d1 == AssociateAddresses(d, g, p, o)
        d2 == [d1 EXCEPT !.local_ports[g] = @ \cup {p}]
        d3 == IF IsAssociated(d1, g) THEN d2 ELSE InstallGroup(d2, g)
    IN  InstallAssociating(d3, g, p)

\* _remove_local_port_associating: the last port uninstalls it, while the
\* record of its ports is still there.
RemoveLocalAssociating(d, g, p, o) ==
    LET d1 == UninstallAssociating(d, g, p)
        d2 == DisassociateAddresses(d1, g, p, o)
        d3 == DeleteConntrackByPort(d2, g, o.ips)
        d4 == IF d.local_ports[g] = {p} THEN UninstallGroup(d3, g) ELSE d3
    IN  IF p \notin d.local_ports[g] THEN d2
        ELSE [d4 EXCEPT !.local_ports[g] = @ \ {p}]

----------------------------------------------------------------------------
(* Handlers of the events of a port. *)

\* _add_local_port, _add_remote_port.
Bind(d, p, o) ==
    IF o.place = "local"
    THEN LET e == FoldSet(LAMBDA g, f : AddLocalAssociating(f, g, p, o),
                          d, o.groups)
         IN  IF o.groups = {} THEN d ELSE InstallConntrack(e, p)
    ELSE FoldSet(LAMBDA g, f : AssociateAddresses(f, g, p, o), d, o.groups)

\* _remove_local_port, _remove_remote_port.
Unbind(d, p, o) ==
    IF o.place = "local"
    THEN FoldSet(LAMBDA g, f : RemoveLocalAssociating(f, g, p, o),
                 IF o.groups = {} THEN d ELSE UninstallConntrack(d, p),
                 o.groups)
    ELSE FoldSet(LAMBDA g, f : DisassociateAddresses(f, g, p, o),
                 d, o.groups)

\* update_local_port.
UpdateLocalPort(d, p, o, orig) ==
    LET same == o.groups \cap orig.groups
        d1 == FoldSet(LAMBDA g, f : AddLocalAssociating(f, g, p, o),
                      d, o.groups \ orig.groups)
        d2 == FoldSet(LAMBDA g, f : RemoveLocalAssociating(f, g, p, orig),
                      d1, orig.groups \ o.groups)
        d3 == FoldSet(LAMBDA g, f :
                        DeleteConntrackByPort(
                            UpdateAddresses(f, g, p, o, orig), g,
                            orig.ips \ o.ips),
                      d2, same)
    IN  IF o.groups = {} THEN UninstallConntrack(d3, p)
        ELSE IF orig.groups = {} THEN InstallConntrack(d3, p) ELSE d3

\* _update_remote_port: groups are left with the new port, not with the
\* original one as update_local_port does.
UpdateRemotePort(d, p, o, orig) ==
    LET d1 == FoldSet(LAMBDA g, f : AssociateAddresses(f, g, p, o),
                      d, o.groups \ orig.groups)
        d2 == FoldSet(LAMBDA g, f : DisassociateAddresses(f, g, p, o),
                      d1, orig.groups \ o.groups)
    IN  FoldSet(LAMBDA g, f : UpdateAddresses(f, g, p, o, orig),
                d2, o.groups \cap orig.groups)

Update(d, p, o, orig) ==
    IF o.place = "local" THEN UpdateLocalPort(d, p, o, orig)
    ELSE UpdateRemotePort(d, p, o, orig)

----------------------------------------------------------------------------
(* Steps. *)

\* A port is created or updated.  A group may be left with a port that is
\* gone when a remote port changes its addresses and its groups at once, and
\* when a port is bound between the reconnection of the switch and the
\* reading of the cache that follows.
UpdatePort(p, o) ==
    /\ o # node.lports[p] /\ o.place # "absent"
    /\ node' = PortUpdated(node, p, o, Bind, Update, Unbind)
    /\ leaked' = leaked \cup
         IF resync THEN o.groups
         ELSE IF /\ {o.place, node.lports[p].place} = {"remote"}
                 /\ node.lports[p].ips \ o.ips # {}
              THEN node.lports[p].groups \ o.groups
              ELSE {}
    /\ UNCHANGED <<resync, reconnects>>

DeletePort(p) ==
    /\ node.lports[p] # Absent
    /\ node' = PortDeleted(node, p, Absent, Unbind)
    /\ UNCHANGED <<resync, reconnects, leaked>>

\* update_security_group: rules that came are added, then those that went
\* are removed.  The cache has the new rules already.
UpdateSecurityGroup(g, rs) ==
    /\ rs # RulesOf(node, g)
    /\ LET old == RulesOf(node, g)
           d1  == [node EXCEPT !.rules = (@ \ old) \cup rs]
           d2  == FoldSet(LAMBDA r, e : AddSecurityGroupRule(e, r),
                          d1, rs \ old)
       IN  node' = FoldSet(LAMBDA r, e : RemoveSecurityGroupRule(e, r),
                           d2, old \ rs)
    /\ UNCHANGED <<resync, reconnects, leaked>>

\* A packet that the flows let through: the connection is committed by the
\* flow of the conjunction.
Connect(c) ==
    /\ node.conn = None
    /\ \E p \in node.ct :
         /\ c.local \in node.lports[p].ips
         /\ <<p, GroupOf[c.rule]>> \in node.associating
    /\ GroupOf[c.rule] \in node.permit
    /\ \E b \in node.rule_flows[c.rule] : c.remote \in b
    /\ node' = [node EXCEPT !.conn = c]
    /\ UNCHANGED <<resync, reconnects, leaked>>

\* The switch restarted without its flows: switch_features_handler.  The
\* connections stay in the kernel.
SwitchFeatures ==
    /\ reconnects < MaxReconnects /\ ~resync
    /\ reconnects' = reconnects + 1 /\ resync' = TRUE
    /\ node' = [node EXCEPT !.bound = {}, !.remote_ref = {},
                  !.local_ports = [g \in Groups |-> {}],
                  !.addresses = [g \in Groups |-> {}],
                  !.ip_refs = [k \in DOMAIN @ |-> {}],
                  !.associating = {}, !.permit = {},
                  !.rule_flows = [r \in Rules |-> {}], !.ct = {}]
    /\ leaked' = {}

\* CONTROLLER_REINITIALIZE: the cache is cleared and read again, groups
\* before ports; the database has the ports as they were cached, or one of
\* them has changed since.
Reinitialize(p, o) ==
    /\ resync /\ resync' = FALSE
    /\ LET lports == [node.lports EXCEPT ![p] = o]
           d1 == [node EXCEPT !.lports = [q \in Ports |-> Absent]]
           d2 == FoldSet(LAMBDA r, e : AddSecurityGroupRule(e, r),
                         d1, d1.rules)
       IN  node' = FoldSet(LAMBDA q, e :
                             PortUpdated(e, q, lports[q], Bind, Update, Unbind),
                           d2, Ports)
    /\ UNCHANGED <<reconnects, leaked>>

\* Ports with addresses; those of a port that is not bound do not matter.
Inputs == {o \in Lports : o.place \in {"local", "remote"} /\ o.ips # {}}
          \cup {[place |-> "unbound", ips |-> {}, groups |-> {}]}

Next ==
    \/ \E p \in Ports : DeletePort(p) \/ \E o \in Inputs : UpdatePort(p, o)
    \/ \E g \in Groups :
         \E rs \in SUBSET {r \in Rules : GroupOf[r] = g} :
            UpdateSecurityGroup(g, rs)
    \/ \E c \in Connections : Connect(c)
    \/ SwitchFeatures
    \/ \E p \in Ports : \E o \in Inputs \cup {Absent} : Reinitialize(p, o)

Spec == Init /\ [][Next]_vars

----------------------------------------------------------------------------
(* Properties. *)

\* The bound ports of a group, as far as the cache tells.
Members(g, places) ==
    {p \in Ports : node.lports[p].place \in places /\ g \in node.lports[p].groups}

\* The addresses of a group are those of its bound ports, local and remote,
\* whatever joined, left, moved or shared an address before (secgroup_ip_refs).
GroupAddresses ==
    ~resync => \A g \in Groups \ leaked :
        node.addresses[g] =
            UNION {node.lports[p].ips : p \in Members(g, {"local", "remote"})}

\* security_groups.rst, 5 to 7: a group has its flows exactly while a local
\* port is in it: one for each such port, and for each rule those of the
\* blocks that make up the addresses of its remote group as they are now.
GroupFlows ==
    ~resync => \A g \in Groups \ leaked :
        LET locals == Members(g, {"local"})
        IN  /\ {p \in Ports : <<p, g>> \in node.associating} = locals
            /\ g \in node.permit <=> locals # {}
            /\ \A r \in Rules : GroupOf[r] = g =>
                 node.rule_flows[r] =
                    IF locals # {} /\ r \in node.rules
                    THEN RuleBlocks(node, r) ELSE {}

\* A rule is in the record of rules with a remote group exactly while it is
\* installed, so that removing it never fails (del associate_rules[id]), and
\* neither does looking up the ports of its group.
RemoteRulesRecorded ==
    node.remote_ref = {r \in node.rules : /\ RemoteOf[r] # None
                                          /\ IsAssociated(node, GroupOf[r])}

\* Established connections bypass the rules, so they must end with what
\* allowed them: a connection is always one that a rule of a group of a local
\* port with this address allows now.  (What the node missed while the switch
\* was away is not made up for.)
ConnectionsAllowed ==
    node.conn # None /\ reconnects = 0 =>
        LET c == node.conn
        IN  /\ c.rule \in node.rules
            /\ \E p \in Members(GroupOf[c.rule], {"local"}) :
                 c.local \in node.lports[p].ips
            /\ \E b \in RuleBlocks(node, c.rule) : c.remote \in b

\* SGApp lets pass what the groups, rules and ports of now allow, by flows and
\* by established connections, and its records suffice to undo it.
GroupsEnforced == /\ GroupAddresses /\ GroupFlows
                  /\ RemoteRulesRecorded /\ ConnectionsAllowed
=============================================================================
