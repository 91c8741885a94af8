------------------------------ MODULE Topology ------------------------------
(***************************************************************************)
(* Selective topology distribution on a compute node                       *)
(* (dragonflow/controller/topology.py, with register_topic of              *)
(* df_local_controller.py and the topics of dragonflow/db/sync.py).        *)
(*                                                                         *)
(* A node receives and caches only the objects of tenants (topics) that    *)
(* have a port on it.  Four pieces of state have to agree on what these    *)
(* tenants are: ovs_to_lport_mapping (which switch ports were counted),    *)
(* topic_subscribed (the logical ports of each topic), the topics of the   *)
(* subscriber and the topics of Sync.  They are changed one after another, *)
(* with reads of the northbound database in between, any of which may      *)
(* fail; most exceptions are logged and swallowed.  check_topology_info    *)
(* recomputes them before every sync.                                      *)
(*                                                                         *)
(* An Open vSwitch row and a logical port have fresh uuids: each comes and *)
(* goes once.  A handler of a switch port is one step, with the failures   *)
(* of its reads as alternatives; check_topology_info is one step per port. *)
(* Of the cache only switch ports and logical ports are kept, and of       *)
(* switch ports only those of virtual machines.                            *)
(***************************************************************************)
EXTENDS Naturals, Sequences

CONSTANTS
    SwitchPorts,  \* rows of the Interface table of Open vSwitch
    Lports,       \* logical ports
    Topics,       \* tenants
    LportOf,      \* the logical port (iface-id) of a switch port
    TopicOf,      \* the tenant of a logical port
    Away,         \* logical ports bound to another chassis
    Migrating,    \* logical ports with a Migration object
    MaxFaults,    \* bound on failing calls and restarts
    LportFirst,   \* a port is plugged only once it is in the database
    SerialReplug  \* a port is plugged again only once its unplugging is handled

ASSUME FunctionsAssumption ==
    /\ LportOf \in [SwitchPorts -> Lports]
    /\ TopicOf \in [Lports -> Topics]
ASSUME FaultsAssumption == MaxFaults \in Nat

VARIABLES
    live,        \* logical ports in the northbound database
    gone,        \* logical ports that were deleted there
    ovs,         \* rows of Open vSwitch
    unplugged,   \* rows that were removed there
    ovsdb,       \* ovsdb[s]: queued events of switch port s
    published,   \* published[l]: queued events of logical port l
    faults,
    switch_ports,          \* switch ports in db_store
    lports,                \* logical ports in db_store
    pending,               \* switch ports that wait for their logical port
    ovs_to_lport_mapping,  \* switch ports with an entry
    topic_subscribed,      \* logical ports of each topic
    topic_list,            \* topics of the subscriber
    topics,                \* Sync._topics
    pc,          \* idle, or the stage of sync()
    scan,        \* switch ports check_topology_info has still to look at
    new_map,     \* new_ovs_to_lport_mapping
    todo         \* entries still to be added, or deleted

worldVars == <<live, gone, ovs, unplugged>>
queueVars == <<ovsdb, published>>
cacheVars == <<switch_ports, lports, pending>>
topoVars  == <<ovs_to_lport_mapping, topic_subscribed, topic_list, topics>>
syncVars  == <<pc, scan, new_map, todo>>
vars == <<worldVars, queueVars, faults, cacheVars, topoVars, syncVars>>

TypeOK ==
    /\ live \subseteq Lports /\ gone \subseteq Lports
    /\ ovs \subseteq SwitchPorts /\ unplugged \subseteq SwitchPorts
    /\ ovsdb \in [SwitchPorts -> Seq({"create", "set", "delete"})]
    /\ published \in [Lports -> Seq({"create", "delete"})]
    /\ faults \in 0 .. MaxFaults
    /\ switch_ports \subseteq SwitchPorts
    /\ lports \subseteq Lports
    /\ pending \subseteq SwitchPorts
    /\ ovs_to_lport_mapping \subseteq SwitchPorts
    /\ topic_subscribed \in [Topics -> SUBSET Lports]
    /\ topic_list \subseteq Topics
    /\ topics \subseteq Topics
    /\ pc \in {"idle", "check", "add"}
    /\ scan \subseteq SwitchPorts
    /\ new_map \subseteq SwitchPorts
    /\ todo \subseteq SwitchPorts

Init ==
    /\ live = {} /\ gone = {} /\ ovs = {} /\ unplugged = {}
    /\ ovsdb = [s \in SwitchPorts |-> <<>>]
    /\ published = [l \in Lports |-> <<>>]
    /\ faults = 0
    /\ switch_ports = {} /\ lports = {} /\ pending = {}
    /\ ovs_to_lport_mapping = {}
    /\ topic_subscribed = [t \in Topics |-> {}]
    /\ topic_list = {} /\ topics = {}
    /\ pc = "idle" /\ scan = {} /\ new_map = {} /\ todo = {}

TopicOfPort(s) == TopicOf[LportOf[s]]
PortsOf(T) == {l \in Lports : TopicOf[l] \in T}
Fault == faults < MaxFaults /\ faults' = faults + 1
NoFault == faults' = faults

----------------------------------------------------------------------------
(* The plugins and Open vSwitch. *)

\* An event is received by a subscriber of its topic.
PublishTo(l, action) ==
    published' = IF TopicOf[l] \in topic_list
                 THEN [published EXCEPT ![l] = Append(@, action)]
                 ELSE published

NbCreate(l) ==
    /\ l \notin live \cup gone
    /\ live' = live \cup {l}
    /\ PublishTo(l, "create")
    /\ UNCHANGED <<gone, ovs, unplugged, ovsdb, faults, cacheVars, topoVars,
                   syncVars>>

NbDelete(l) ==
    /\ l \in live
    /\ live' = live \ {l} /\ gone' = gone \cup {l}
    /\ PublishTo(l, "delete")
    /\ UNCHANGED <<ovs, unplugged, ovsdb, faults, cacheVars, topoVars, syncVars>>

\* DFIdl.notify hands every change of an Interface row to the controller.
Notify(s, action) ==
    /\ ovsdb' = [ovsdb EXCEPT ![s] = Append(@, action)]
    /\ UNCHANGED <<live, gone, published, faults, cacheVars, topoVars, syncVars>>

Plug(s) ==
    /\ s \notin ovs \cup unplugged
    /\ LportFirst => LportOf[s] \in live
    /\ SerialReplug => \A r \in SwitchPorts \ {s} :
          LportOf[r] = LportOf[s] => r \notin ovs /\ ovsdb[r] = <<>>
    /\ ovs' = ovs \cup {s}
    /\ Notify(s, "create")
    /\ UNCHANGED unplugged

Change(s) ==
    /\ s \in ovs /\ ovsdb[s] = <<>>
    /\ Notify(s, "set")
    /\ UNCHANGED <<ovs, unplugged>>

Unplug(s) ==
    /\ s \in ovs
    /\ ovs' = ovs \ {s} /\ unplugged' = unplugged \cup {s}
    /\ Notify(s, "delete")

----------------------------------------------------------------------------
(* Topics.  In the operators c is the set of cached logical ports.         *)

\* Sync.sync reads the objects of the topics T and drops those it does not
\* find there, and those of other topics.
Synced(T) == live \cap PortsOf(T)

\* Sync.sync fails while it reads (A: topics read so far), or while it cleans
\* up (C: topics cleaned up so far).
SyncFails(c) ==
    \E A, C \in SUBSET topics :
        /\ C = {} \/ A = topics
        /\ lports' = (c \cup Synced(A)) \ (PortsOf(C) \ live)

\* Mutant: Sync is told of the topic before the subscriber, and a failing
\* sync leaves it there.
AddToTopicSyncFirst(t, c) ==
    /\ topic_subscribed[t] = {} /\ t \notin topics
    /\ Fault
    /\ topics' = topics \cup {t}
    /\ SyncFails(c)
    /\ UNCHANGED <<topic_subscribed, topic_list>>

\* A read fails in register_topic: the subscriber has the topic and Sync does
\* not.  The sync did not come to its end, or part of the objects were read.
AddToTopicFails(t, c) ==
    /\ topic_subscribed[t] = {} /\ t \notin topics
    /\ Fault
    /\ topic_list' = topic_list \cup {t}
    /\ \/ SyncFails(c)
       \/ \E P \in SUBSET Synced({t}) : lports' = Synced(topics) \cup P
    /\ UNCHANGED <<topic_subscribed, topics>>

\* _add_to_topic_subscribed(t, l) goes well: register_topic of a new topic
\* subscribes to it, syncs, and reads its objects.  The caller then caches
\* the ports in `more'.
AddToTopicSubscribed(t, l, c, more) ==
    /\ NoFault
    /\ topic_subscribed' = [topic_subscribed EXCEPT ![t] = @ \cup {l}]
    /\ IF topic_subscribed[t] # {}
       THEN lports' = c \cup more /\ UNCHANGED <<topic_list, topics>>
       ELSE /\ topic_list' = topic_list \cup {t}
            /\ topics' = topics \cup {t}
            /\ lports' = IF t \in topics THEN c \cup more
                         ELSE Synced(topics \cup {t}) \cup more

\* Mutant: the topic is dropped with any of its ports.
DelFromTopicAlways(t, l, c) ==
    /\ l \in topic_subscribed[t]
    /\ topic_subscribed' = [topic_subscribed EXCEPT ![t] = @ \ {l}]
    /\ topic_list' = topic_list \ {t}
    /\ topics' = topics \ {t}
    /\ lports' = c \ PortsOf({t})

\* Mutant: the last port leaves the topic behind.
DelFromTopicKeeps(t, l, c) ==
    /\ l \in topic_subscribed[t]
    /\ topic_subscribed' = [topic_subscribed EXCEPT ![t] = @ \ {l}]
    /\ lports' = c /\ UNCHANGED <<topic_list, topics>>

\* _del_from_topic_subscribed(t, l); a KeyError if l is not there.  The last
\* port takes the topic and all its objects with it.
DelFromTopicSubscribed(t, l, c) ==
    /\ l \in topic_subscribed[t]
    /\ topic_subscribed' = [topic_subscribed EXCEPT ![t] = @ \ {l}]
    /\ IF topic_subscribed[t] # {l}
       THEN lports' = c /\ UNCHANGED <<topic_list, topics>>
       ELSE /\ topic_list' = topic_list \ {t}
            /\ topics' = topics \ {t}
            /\ lports' = c \ PortsOf({t})

----------------------------------------------------------------------------
(* Events. *)

Take(s) == ovsdb' = [ovsdb EXCEPT ![s] = Tail(@)] /\ UNCHANGED published

\* A create or set event of switch port s.  _send_updates_for_object caches
\* its logical port, then s; _compute_port_updated counts s.
SwitchPortUpdated(s) ==
    LET l == LportOf[s]
        t == TopicOf[l]
    IN
    /\ pc = "idle" /\ ovsdb[s] # <<>> /\ Head(ovsdb[s]) \in {"create", "set"}
    /\ Take(s)
    /\ \/ \* the logical port cannot be read
          /\ l \notin lports /\ Fault
          /\ UNCHANGED <<cacheVars, topoVars>>
       \/ \* there is no such port
          /\ l \notin lports \cup live /\ NoFault
          /\ pending' = pending \cup {s}
          /\ UNCHANGED <<switch_ports, lports, topoVars>>
       \/ \* an exception is swallowed by switch_port_updated
          /\ l \in lports \cup live
          /\ switch_ports' = switch_ports \cup {s}
          /\ AddToTopicFails(t, lports \cup {l})
          /\ UNCHANGED <<pending, ovs_to_lport_mapping>>
       \/ /\ l \in lports \cup live
          /\ switch_ports' = switch_ports \cup {s}
          /\ AddToTopicSubscribed(t, l, lports \cup {l}, {l} \ Away)
          /\ ovs_to_lport_mapping' = ovs_to_lport_mapping \cup {s}
          /\ UNCHANGED pending
    /\ UNCHANGED <<worldVars, syncVars>>

\* A delete event: _compute_port_deleted, then s leaves the cache.  All
\* exceptions are swallowed by switch_port_deleted.
SwitchPortDeleted(s) ==
    LET l == LportOf[s]
        t == TopicOf[l]
        unmap == ovs_to_lport_mapping' = ovs_to_lport_mapping \ {s}
        forget(c) == \/ DelFromTopicSubscribed(t, l, c)
                     \/ /\ l \notin topic_subscribed[t]
                        /\ lports' = c
                        /\ UNCHANGED <<topic_subscribed, topic_list, topics>>
    IN
    /\ pc = "idle" /\ ovsdb[s] # <<>> /\ Head(ovsdb[s]) = "delete"
    /\ Take(s)
    /\ switch_ports' = switch_ports \ {s}
    /\ \/ \* not cached, or neither its port nor a mapping is known
          /\ s \in switch_ports => l \notin lports /\ s \notin ovs_to_lport_mapping
          /\ NoFault
          /\ UNCHANGED <<lports, topoVars>>
       \/ /\ s \in switch_ports \cap ovs_to_lport_mapping /\ l \notin lports
          /\ NoFault
          /\ unmap /\ forget(lports)
       \/ \* no Migration object can be read, one is there (it has no field
          \* `chassis'), or `del' finds no mapping
          /\ s \in switch_ports /\ l \in lports
          /\ \/ Fault
             \/ (l \in Migrating \/ s \notin ovs_to_lport_mapping) /\ NoFault
          /\ lports' = lports \ {l}
          /\ UNCHANGED topoVars
       \/ /\ s \in switch_ports /\ l \in lports
          /\ l \notin Migrating /\ s \in ovs_to_lport_mapping /\ NoFault
          /\ unmap /\ forget(lports \ {l})
    /\ UNCHANGED <<worldVars, pending, syncVars>>

\* An event of logical port l.  Switch ports that waited for it are looked up
\* in the northbound database, which has no switch ports: the exception that
\* follows ends the handling of the event.
LportEvent(l) ==
    /\ pc = "idle" /\ published[l] # <<>>
    /\ published' = [published EXCEPT ![l] = Tail(@)]
    /\ IF Head(published[l]) = "create"
       THEN /\ lports' = lports \cup {l}
            /\ pending' = {s \in pending : LportOf[s] # l}
       ELSE /\ lports' = lports \ {l}
            /\ UNCHANGED pending
    /\ UNCHANGED <<worldVars, ovsdb, faults, switch_ports, topoVars, syncVars>>

----------------------------------------------------------------------------
(* sync(): check_topology_info, then Sync.sync. *)

Goto(label) == pc' = label
Abort == Goto("idle") /\ scan' = {} /\ new_map' = {} /\ todo' = {}

StartSync ==
    /\ pc = "idle" /\ Goto("check")
    /\ scan' = switch_ports /\ new_map' = {} /\ todo' = {}
    /\ UNCHANGED <<worldVars, queueVars, faults, cacheVars, topoVars>>

\* The loop over the switch ports.  An entry that is found is popped from
\* delete_ovs_to_lport_mapping, which is ovs_to_lport_mapping itself.
CheckPort(s) ==
    LET l == LportOf[s]
    IN
    /\ pc = "check" /\ s \in scan
    /\ \/ /\ l \notin lports /\ Fault /\ Abort
          /\ UNCHANGED ovs_to_lport_mapping
       \/ /\ l \notin lports \cup live /\ NoFault
          /\ scan' = scan \ {s}
          /\ UNCHANGED <<ovs_to_lport_mapping, pc, new_map, todo>>
       \/ /\ l \in lports \cup live /\ NoFault
          /\ scan' = scan \ {s}
          /\ new_map' = new_map \cup {s}
          /\ ovs_to_lport_mapping' = ovs_to_lport_mapping \ {s}
          /\ todo' = IF s \in ovs_to_lport_mapping THEN todo ELSE todo \cup {s}
          /\ UNCHANGED pc
    /\ UNCHANGED <<worldVars, queueVars, cacheVars, topic_subscribed,
                   topic_list, topics>>

\* Mutant: the new mapping is added to what is left of the old one.
InstallMappingMerges ==
    /\ pc = "check" /\ scan = {}
    /\ Goto("add")
    /\ ovs_to_lport_mapping' = ovs_to_lport_mapping \cup new_map
    /\ new_map' = ovs_to_lport_mapping
    /\ UNCHANGED <<worldVars, queueVars, faults, cacheVars, topic_subscribed,
                   topic_list, topics, scan, todo>>

\* The new mapping is installed before the topics are; what is left of the
\* old one is deleted (kept in new_map from here on).
InstallMapping ==
    /\ pc = "check" /\ scan = {}
    /\ Goto("add")
    /\ ovs_to_lport_mapping' = new_map
    /\ new_map' = ovs_to_lport_mapping
    /\ UNCHANGED <<worldVars, queueVars, faults, cacheVars, topic_subscribed,
                   topic_list, topics, scan, todo>>

AddPort(s) ==
    /\ pc = "add" /\ s \in todo
    /\ \/ /\ AddToTopicSubscribed(TopicOfPort(s), LportOf[s], lports, {})
          /\ todo' = todo \ {s}
          /\ UNCHANGED <<pc, scan, new_map>>
       \/ AddToTopicFails(TopicOfPort(s), lports) /\ Abort
    /\ UNCHANGED <<worldVars, queueVars, switch_ports, pending,
                   ovs_to_lport_mapping>>

DelPort(s) ==
    /\ pc = "add" /\ todo = {} /\ s \in new_map
    /\ \/ /\ DelFromTopicSubscribed(TopicOfPort(s), LportOf[s], lports)
          /\ new_map' = new_map \ {s}
          /\ UNCHANGED <<pc, scan, todo>>
       \/ /\ LportOf[s] \notin topic_subscribed[TopicOfPort(s)]
          /\ Abort
          /\ UNCHANGED <<lports, topic_subscribed, topic_list, topics>>
    /\ UNCHANGED <<worldVars, queueVars, faults, switch_ports, pending,
                   ovs_to_lport_mapping>>

SyncCache ==
    /\ pc = "add" /\ todo = {} /\ new_map = {}
    /\ Abort
    /\ \/ lports' = Synced(topics) /\ NoFault
       \/ SyncFails(lports) /\ Fault
    /\ UNCHANGED <<worldVars, queueVars, switch_ports, pending, topoVars>>

\* The controller is restarted: Open vSwitch reports all its rows again.
Restart ==
    /\ Fault
    /\ ovsdb' = [s \in SwitchPorts |-> IF s \in ovs THEN <<"create">> ELSE <<>>]
    /\ published' = [l \in Lports |-> <<>>]
    /\ switch_ports' = {} /\ lports' = {} /\ pending' = {}
    /\ ovs_to_lport_mapping' = {}
    /\ topic_subscribed' = [t \in Topics |-> {}]
    /\ topic_list' = {} /\ topics' = {}
    /\ Abort
    /\ UNCHANGED worldVars

----------------------------------------------------------------------------

\* A sync in progress.
SyncStep ==
    \/ \E s \in SwitchPorts : CheckPort(s) \/ AddPort(s) \/ DelPort(s)
    \/ InstallMapping \/ SyncCache

SwitchPortEvent(s) == SwitchPortUpdated(s) \/ SwitchPortDeleted(s)

Next ==
    \/ \E l \in Lports : NbCreate(l) \/ NbDelete(l)
    \/ \E s \in SwitchPorts : Plug(s) \/ Change(s) \/ Unplug(s)
    \/ \E s \in SwitchPorts : SwitchPortEvent(s)
    \/ \E l \in Lports : LportEvent(l)
    \/ StartSync \/ SyncStep \/ Restart

\* The controller thread runs and takes from its queue in order, so no event
\* waits forever; the sync timer fires.
Fairness ==
    /\ WF_vars(SyncStep)
    /\ SF_vars(StartSync)
    /\ \A s \in SwitchPorts : SF_vars(SwitchPortEvent(s))
    /\ \A l \in Lports : SF_vars(LportEvent(l))

Spec == Init /\ [][Next]_vars /\ Fairness

----------------------------------------------------------------------------
(* Properties. *)

\* A topic counted by its ports is known to Sync, and one known to Sync is
\* subscribed to: whatever fails in between, no port relies on a topic whose
\* objects were not read, and no objects are kept whose events do not come.
TopicsNested ==
    /\ \A t \in Topics : topic_subscribed[t] # {} => t \in topics
    /\ topics \subseteq topic_list

\* A logical port that migrates has one switch port here.
MigratedOnce ==
    \A r, s \in SwitchPorts :
        LportOf[r] = LportOf[s] /\ LportOf[r] \in Migrating => r = s

\* Between two handlers, and as long as nothing failed, the logical ports
\* counted for a topic are those of the switch ports that have a mapping.
MappingMatchesTopics ==
    faults = 0 /\ SerialReplug /\ MigratedOnce /\ pc = "idle" =>
      \A t \in Topics :
        topic_subscribed[t] =
          {LportOf[s] : s \in {r \in ovs_to_lport_mapping : TopicOfPort(r) = t}}

\* The topics of the ports that are plugged in and exist.
Wanted == {TopicOfPort(s) : s \in {r \in ovs : LportOf[r] \in live}}

\* Once ports stop coming and going, the node caches exactly the ports of the
\* tenants it has ports of.
TopologyConverges ==
    <>[](topics = Wanted /\ topic_list = Wanted /\ lports = Synced(Wanted))

\* check_topology_info "make[s] sure all the topics of these ovs ports could
\* be subscribed" after the connection to the database broke down.
CheckedPortsSubscribed ==
    <>[](\A s \in switch_ports : LportOf[s] \in live => TopicOfPort(s) \in topics)

\* selective_topo_dist.rst: when a port is added on the bridge the controller
\* queries its topology and subscribes to the tenant's topic.
PluggedPortsSubscribed ==
    <>[](\A s \in ovs : LportOf[s] \in live => TopicOfPort(s) \in topics)
=============================================================================
