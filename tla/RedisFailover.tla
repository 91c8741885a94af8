--------------------------- MODULE RedisFailover ---------------------------
(***************************************************************************)
(* Publish/subscribe over a Redis cluster whose nodes fail and come back:  *)
(* RedisMgt (db/drivers/redis_mgt.py), which follows the cluster's masters *)
(* in every process that opens the northbound API, and the publisher and   *)
(* subscriber agents (db/pubsub_drivers/redis_db_pubsub_driver.py), which  *)
(* move to another master when theirs fails.  The processes are a Neutron  *)
(* server and a controller; both poll the cluster, publish what they see   *)
(* on the topic 'redis' and process it, and the controller subscribes.     *)
(* What is published to one node reaches the subscribers of all nodes.     *)
(* The cluster keeps its nodes and its slots.                              *)
(***************************************************************************)
EXTENDS FiniteSets, Integers

CONSTANTS
    Nodes,       \* nodes of the cluster
    Partner,     \* a master and its slave are each other's partner
    Masters0,    \* the masters at the start
    Topics,      \* topics of the user
    None,
    RetryTimes,  \* publish_retry_times
    Pollers,     \* bound: sets of processes whose detection loops take steps
    MaxFaults,   \* bound: failures of nodes
    MaxSends     \* bound: events and lists of nodes published

VARIABLES
    up,          \* nodes that run
    failed,      \* nodes the cluster has flagged as failed
    role,        \* the role of each node
    mgt,         \* RedisMgt of each process, and its publisher
    polling,     \* processes whose detection loop runs
    polled,      \* the nodes each loop has read and not yet processed, or None
    sending,     \* what each publisher is sending, or None
    sub,         \* the node of the subscriber
    linked,      \* the subscriber knows of no broken connection
    subs,        \* topics subscribed on the subscriber's connection
    wanted,      \* topics the controller has registered
    running,     \* the subscriber's thread runs
    restart,     \* CONTROLLER_DBRESTART is in the controller's queue
    faults,
    sends

cluster == <<up, failed, role>>
publishers == <<mgt, polling, polled, sending>>
subscriber == <<sub, linked, subs, wanted, running, restart>>
vars == <<cluster, publishers, subscriber, faults, sends>>

Processes == {"server", "controller"}
HA == "redis"
Roles == {"master", "slave", "fail"}

\* The selected node, and the node the client was made for.
Link == [remote : Nodes \cup {None}, client : Nodes]

TypeOK ==
    /\ up \subseteq Nodes /\ failed \subseteq Nodes
    /\ role \in [Nodes -> {"master", "slave"}]
    /\ \A p \in Processes :
           /\ mgt[p].nodes \in [Nodes -> Roles]
           /\ mgt[p].masters \subseteq Nodes
           /\ mgt[p].shared \subseteq Nodes
           /\ mgt[p].pub \in Link
           /\ polled[p] # None => polled[p] \in [Nodes -> Roles]
           /\ sending[p] # None =>
                  sending[p] \in [topic : Topics \cup {HA}, ttl : 0..RetryTimes,
                                  alreadysync : BOOLEAN]
    /\ polling \subseteq Processes
    /\ sub \in Link
    /\ {linked, running, restart} \subseteq BOOLEAN
    /\ subs \cup wanted \subseteq Topics \cup {HA}
    /\ faults \in 0..MaxFaults /\ sends \in 0..MaxSends

\* _get_cluster_nodes and _get_role_from_flags.
View == [n \in Nodes |-> IF n \in failed THEN "fail" ELSE role[n]]

\* _parse_to_masterlist
MastersOf(nodes) == {n \in Nodes : nodes[n] = "master"}

\* get_instance, initialize and set_db_change_callback.
Init ==
    /\ up = Nodes /\ failed = {}
    /\ role = [n \in Nodes |-> IF n \in Masters0 THEN "master" ELSE "slave"]
    /\ LET links == {[remote |-> n, client |-> n] : n \in Masters0} IN
       /\ mgt \in [Processes -> [nodes : {role}, masters : {Masters0},
                                 shared : {{}}, pub : links]]
       /\ sub \in links
    /\ polling \in Pollers
    /\ polled = [p \in Processes |-> None]
    /\ sending = [p \in Processes |-> None]
    /\ linked = TRUE /\ running = TRUE /\ restart = FALSE
    /\ subs = {HA} /\ wanted = {HA}
    /\ faults = 0 /\ sends = 0

-----------------------------------------------------------------------------
(* The cluster *)

Fail(n) ==
    /\ n \in up
    /\ faults < MaxFaults
    /\ faults' = faults + 1
    /\ up' = up \ {n}
    /\ linked' = (linked /\ (subs = {} \/ sub.client # n))
    /\ UNCHANGED <<failed, role, publishers>>
    /\ UNCHANGED <<sub, subs, wanted, running, restart, sends>>

\* The cluster agrees that a node has failed and promotes its slave (how it
\* agrees is left out).
Flag(n) ==
    /\ n \notin up \cup failed
    /\ failed' = failed \cup {n}
    /\ role' = IF role[n] = "master" /\ Partner[n] \in up
               THEN [role EXCEPT ![n] = "slave", ![Partner[n]] = "master"]
               ELSE role
    /\ UNCHANGED <<up, publishers, subscriber, faults, sends>>

Recover(n) ==
    /\ n \notin up
    /\ up' = up \cup {n}
    /\ failed' = failed \ {n}
    /\ UNCHANGED <<role, publishers, subscriber, faults, sends>>

-----------------------------------------------------------------------------
(* RedisMgt *)

\* pubsub_select_node_idx and _update_client: any master of the list, at
\* random; without one the client stays.
Selected(link, masters) ==
    IF masters = {} THEN {[link EXCEPT !.remote = None]}
    ELSE {[remote |-> n, client |-> n] : n \in masters}

\* process_ha
Reselected(link, masters) ==
    IF link.remote = None THEN Selected(link, masters) ELSE {link}

remove_node_from_master_list(masters, n) == masters \ {n}

\* Mutant: only the number of masters is compared.
CheckMasterCount(old, new) ==
    IF Cardinality(MastersOf(old)) = Cardinality(MastersOf(new))
    THEN "NOT_CHANGE" ELSE "NODES_CHANGE"

\* The nodes that kept their role are counted; a cluster has as many slaves
\* as masters, so different counts mean that it is changing.
_check_nodes_change(old, new) ==
    LET same    == {n \in Nodes : old[n] = new[n]}
        masters == same \cap MastersOf(new)
    IN  IF \/ Cardinality(masters) # Cardinality(same \ masters)
           \/ Cardinality(same) # Cardinality(Nodes)
        THEN "NODES_CHANGE" ELSE "NOT_CHANGE"

\* redis_failover_callback updates the lists; it goes on to notify when all
\* masters of the new list answer (_check_master_nodes_connection).
Refreshed(m, new) ==
    IF _check_nodes_change(m.nodes, new) = "NOT_CHANGE" THEN m
    ELSE [m EXCEPT !.nodes = new, !.masters = MastersOf(new),
                   !.shared = MastersOf(new)]

Notifies(m, new) ==
    /\ _check_nodes_change(m.nodes, new) = "NODES_CHANGE"
    /\ MastersOf(new) \subseteq up

-----------------------------------------------------------------------------
(* Detection and publishing *)

\* 'cluster_state' is 'ok' on a node that answers: every slot has a master
\* that is not flagged.
ClusterOk ==
    /\ up # {}
    /\ \A n \in Nodes : {n, Partner[n]} \cap MastersOf(View) # {}

Send(p, topic) ==
    /\ sending[p] = None
    /\ sends < MaxSends
    /\ sends' = sends + 1
    /\ sending' = [sending EXCEPT ![p] =
           [topic |-> topic, ttl |-> RetryTimes, alreadysync |-> FALSE]]

\* RedisMgt.run reads the nodes and publishes them.
run(p) ==
    /\ p \in polling
    /\ polled[p] = None
    /\ ClusterOk
    /\ polled' = [polled EXCEPT ![p] = View]
    /\ Send(p, HA)
    /\ UNCHANGED <<cluster, mgt, polling, subscriber, faults>>

\* The server publishes an event.
send_event(t) ==
    /\ polled["server"] = None
    /\ Send("server", t)
    /\ UNCHANGED <<cluster, mgt, polling, polled, subscriber, faults>>

\* The subscriber hands an event on, and a list of nodes to RedisMgt, which
\* queues CONTROLLER_DBRESTART.
Deliver(p) ==
    IF linked /\ running /\ sending[p].topic = HA /\ HA \in subs
    THEN /\ mgt' = [mgt EXCEPT !["controller"] = Refreshed(@, polled[p])]
         /\ restart' = (restart \/ Notifies(mgt["controller"], polled[p]))
    ELSE UNCHANGED <<mgt, restart>>

Published(p) ==
    /\ sending[p] # None
    /\ sending[p].ttl > 0
    /\ mgt[p].pub.client \in up
    /\ sending' = [sending EXCEPT ![p] = None]
    /\ Deliver(p)
    /\ UNCHANGED <<cluster, polling, polled, sub, linked, subs, wanted, running,
                   faults, sends>>

\* The first failure takes the list from shared memory, where it is not
\* empty; the next ones remove the node and select another.
PublishFailed(p) ==
    /\ sending[p] # None
    /\ sending[p].ttl > 0
    /\ mgt[p].pub.client \notin up
    /\ sending' = [sending EXCEPT ![p].ttl = @ - 1, ![p].alreadysync = TRUE]
    /\ LET m == mgt[p]
           masters == IF sending[p].alreadysync
                      THEN remove_node_from_master_list(m.masters, m.pub.remote)
                      ELSE IF m.shared # {} THEN m.shared ELSE m.masters
           kept == ~sending[p].alreadysync /\ m.shared = {}
       IN  \E link \in IF kept THEN {m.pub} ELSE Selected(m.pub, masters) :
               mgt' = [mgt EXCEPT ![p].masters = masters, ![p].pub = link]
    /\ UNCHANGED <<cluster, polling, polled, subscriber, faults, sends>>

GivenUp(p) == sending[p] # None /\ sending[p].ttl = 0

GiveUp(p) ==
    /\ GivenUp(p)
    /\ sending' = [sending EXCEPT ![p] = None]
    /\ UNCHANGED <<cluster, mgt, polling, polled, subscriber, faults, sends>>

\* RedisMgt.run goes on with the nodes it has read.  A controller queues
\* CONTROLLER_DBRESTART.  In the server db_recover_callback has the publisher
\* select a node if it has none, and then raises: DbUpdate is made without a
\* value, and the looping call ends.
redis_failover_callback(p) ==
    /\ polled[p] # None
    /\ sending[p] = None
    /\ polled' = [polled EXCEPT ![p] = None]
    /\ LET m == Refreshed(mgt[p], polled[p])
           notifies == Notifies(mgt[p], polled[p])
           recovers == notifies /\ p = "server"
       IN  /\ \E link \in IF recovers THEN Reselected(m.pub, m.masters)
                          ELSE {m.pub} :
                  mgt' = [mgt EXCEPT ![p] = [m EXCEPT !.pub = link]]
           /\ polling' = IF recovers THEN polling \ {p} ELSE polling
           /\ restart' = (restart \/ (notifies /\ p = "controller"))
    /\ UNCHANGED <<cluster, sending, sub, linked, subs, wanted, running>>
    /\ UNCHANGED <<faults, sends>>

-----------------------------------------------------------------------------
(* The controller *)

register_topic(t) ==
    /\ linked
    /\ sub.client \in up
    /\ t \notin wanted
    /\ wanted' = wanted \cup {t}
    /\ subs' = subs \cup {t}
    /\ UNCHANGED <<cluster, publishers, sub, linked, running, restart>>
    /\ UNCHANGED <<faults, sends>>

\* The subscriber lost its connection and makes it again; the subscriptions
\* are repeated.
Reconnect ==
    /\ running
    /\ ~linked
    /\ sub.client \in up
    /\ linked' = TRUE
    /\ restart' = TRUE
    /\ UNCHANGED <<cluster, publishers, sub, subs, wanted, running>>
    /\ UNCHANGED <<faults, sends>>

\* It cannot: it selects another node and subscribes to the topic 'redis'
\* there.  The thread ends when that raises; without another node it tries
\* the old one again.
Failover ==
    /\ running
    /\ ~linked
    /\ sub.client \notin up
    /\ LET masters == remove_node_from_master_list(mgt["controller"].masters,
                                                   sub.remote)
       IN  /\ mgt' = [mgt EXCEPT !["controller"].masters = masters]
           /\ sub' \in Selected(sub, masters)
    /\ IF sub'.remote = None
       THEN UNCHANGED <<linked, subs, running, restart>>
       ELSE LET works == sub'.client \in up IN
            /\ linked' = works
            /\ running' = works
            /\ subs' = IF works THEN {HA} ELSE {}
            /\ restart' = (restart \/ works)
    /\ UNCHANGED <<cluster, polling, polled, sending, wanted, faults, sends>>

\* CONTROLLER_DBRESTART: process_ha selects a node for the publisher or the
\* subscriber that has none; the subscriber's new client has no subscriptions
\* and so no connection.  The exception that follows makes the controller
\* synchronize.
db_recover_callback ==
    /\ restart
    /\ restart' = FALSE
    /\ LET m == mgt["controller"] IN
       /\ \E link \in Reselected(m.pub, m.masters) :
              mgt' = [mgt EXCEPT !["controller"].pub = link]
       /\ sub' \in Reselected(sub, m.masters)
       /\ IF sub.remote = None /\ m.masters # {}
          THEN subs' = {} /\ linked' = TRUE
          ELSE UNCHANGED <<subs, linked>>
    /\ UNCHANGED <<cluster, polling, polled, sending, wanted, running>>
    /\ UNCHANGED <<faults, sends>>

-----------------------------------------------------------------------------
Next ==
    \/ \E n \in Nodes : Fail(n) \/ Flag(n) \/ Recover(n)
    \/ \E p \in Processes :
           \/ run(p) \/ Published(p) \/ PublishFailed(p) \/ GiveUp(p)
           \/ redis_failover_callback(p)
    \/ \E t \in Topics : send_event(t) \/ register_topic(t)
    \/ Reconnect \/ Failover \/ db_recover_callback

Spec == Init /\ [][Next]_vars

-----------------------------------------------------------------------------
(* Properties *)

\* The server's publisher gives an event up only after it has tried, and
\* removed, every master of its list: the retries suffice for the masters
\* there are, although the first failure brings the list of the shared memory
\* back (RedisPublisherAgent._send_event).
EveryMasterTried == GivenUp("server") => mgt["server"].masters = {}

\* Whichever nodes failed, came back or changed their role since the last
\* look, a process that has processed a list of nodes knows its masters
\* (_check_nodes_change, redis_failover_callback).
MastersSeen ==
    \A p \in Processes : polled[p] # None /\ polled'[p] = None =>
        MastersOf(mgt'[p].nodes) = MastersOf(polled[p])
MastersDetected == [][MastersSeen]_vars

\* The first failure of a node never ends the subscriber's thread, whatever
\* the detection makes of it meanwhile: the thread ends only when it moves to
\* a node that is down as well (RedisSubscriberAgent.run).
SubscriberSurvives == running \/ faults > 1

\* Events get through while one master is left, and the processes come to know
\* the masters there are.
FailoverFollowed ==
    [](EveryMasterTried /\ SubscriberSurvives) /\ MastersDetected
=============================================================================
