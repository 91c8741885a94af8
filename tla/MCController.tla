---------------------------- MODULE MCController ----------------------------
(***************************************************************************)
(* TLC instance of the parts of a controller that follow the northbound    *)
(* database: its cache when events suffice (LocalController), the cache's  *)
(* indexes and embedded objects (DbStore), the topics of its ports while   *)
(* calls fail (Topology) and the subscriber agents (Subscribers,           *)
(* RedisFailover).  They share no state here, so a behaviour is one of one *)
(* of them: focus says of which.                                           *)
(***************************************************************************)
EXTENDS LocalController, TLC

CONSTANTS n, p, q, s1, s3, l1, l2, t1, t2, u1, u2, c1, c2, v1, v2,
          m1, m2, b1, b2

VARIABLES focus,
    live, gone, ovs, unplugged, ovsdb, published, t_faults, switch_ports, lports,
    t_pending, ovs_to_lport_mapping, topic_subscribed, topic_list, topics, t_pc,
    scan, new_map, todo,
    store, cleared,
    driver, is_running, registered, uri_list, sub_socket, watcher, stray, syncs,
    up, failed, role, mgt, polling, polled, sending, sub, linked, subs, wanted,
    running, restart, r_faults, sends

\* A chain such as QoS policy, network, port.
ThreeModels == <<{n}, {p}, {q}>>

\* Two ports of two tenants; one comes from elsewhere, one goes there.
TwoRowsLports == s1 :> l1 @@ s3 :> l2
TwoTenants == l1 :> t1 @@ l2 :> t2
Top == INSTANCE Topology WITH
    faults <- t_faults, pending <- t_pending, pc <- t_pc,
    SwitchPorts <- {s1, s3}, Lports <- {l1, l2}, Topics <- {t1, t2},
    LportOf <- TwoRowsLports, TopicOf <- TwoTenants,
    Away <- {l2}, Migrating <- {l1}, MaxFaults <- 2,
    LportFirst <- FALSE, SerialReplug <- FALSE

\* A child with two keys, and one without a network.
ChildContents == {[lswitch |-> v1, ips |-> {v1, v2}],
                  [lswitch |-> None, ips |-> {v1}]}
Db == INSTANCE DbStore WITH Parents <- {p, q}, Children <- {c1, c2},
    Values <- {v1, v2}, ANY <- None, Contents <- ChildContents

Sub == INSTANCE Subscribers WITH topic_list <- registered,
    Topics <- {t1, t2}, Uris <- {u1, u2}, MaxStray <- 1

\* Two masters with a slave each, of which two nodes may fail.
Replica == m1 :> b1 @@ b1 :> m1 @@ m2 :> b2 @@ b2 :> m2
Red == INSTANCE RedisFailover WITH faults <- r_faults,
    Nodes <- {m1, m2, b1, b2}, Masters0 <- {m1, m2}, Partner <- Replica,
    Topics <- {t1}, RetryTimes <- 5, MaxFaults <- 2, MaxSends <- 1,
    Pollers <- {{"server"}, {"controller"}}

topVars == <<live, gone, ovs, unplugged, ovsdb, published, t_faults, switch_ports,
             lports, t_pending, ovs_to_lport_mapping, topic_subscribed, topic_list,
             topics, t_pc, scan, new_map, todo>>
dbVars == <<store, cleared>>
subVars == <<driver, is_running, registered, uri_list, sub_socket, watcher,
             stray, syncs>>
redVars == <<up, failed, role, mgt, polling, polled, sending, sub, linked, subs,
             wanted, running, restart, r_faults, sends>>
allVars == <<focus, vars, topVars, dbVars, subVars, redVars>>

MCInit ==
    /\ focus \in {"events", "topology", "store", "subscriber", "redis"}
    /\ Init /\ Top!Init /\ Db!Init /\ Sub!Init /\ Red!Init
    \* The masters are alike.
    /\ mgt["server"].pub.remote = m1
    /\ focus # "redis" => /\ mgt["controller"].pub.remote = m1 /\ sub.remote = m1
                          /\ polling = {"server"}
    /\ focus # "subscriber" => driver = "zmq"

\* All but the controller thread may come to rest.
AtRest == focus # "events" /\ UNCHANGED allVars

MCNext ==
    \/ focus = "events" /\ Next /\ UNCHANGED <<focus, topVars, dbVars, subVars, redVars>>
    \/ focus = "topology" /\ Top!Next /\ UNCHANGED <<focus, vars, dbVars, subVars, redVars>>
    \/ focus = "store" /\ Db!Next /\ UNCHANGED <<focus, vars, topVars, subVars, redVars>>
    \/ focus = "subscriber" /\ Sub!Next /\ UNCHANGED <<focus, vars, topVars, dbVars, redVars>>
    \/ focus = "redis" /\ Red!Next /\ UNCHANGED <<focus, vars, topVars, dbVars, subVars>>
    \/ AtRest

MCSpec == MCInit /\ [][MCNext]_allVars

----------------------------------------------------------------------------
(* Properties: see the modules; those of LocalController keep their names. *)

\* All state keeps its type.
TypesOK ==
    /\ focus = "events" => TypeOK
    /\ focus = "topology" => Top!TypeOK
    /\ focus = "store" => Db!TypeOK
    /\ focus = "subscriber" => Sub!TypeOK
    /\ focus = "redis" => Red!TypeOK

\* DbStore: a query finds exactly the cached objects that match, and a child is
\* cached exactly while a cached parent embeds it.
CacheExact == focus = "store" => Db!CacheExact

\* The agents of Redis: an event is given up only after all masters failed, the
\* subscriber survives the first failure, and changes of the masters are seen.
FailoverFollowed ==
    /\ [](focus = "redis" => Red!EveryMasterTried /\ Red!SubscriberSurvives)
    /\ [][focus = "redis" => Red!MastersSeen]_redVars

\* ZMQSubscriberAgent: the socket has the registered topics and publishers.
\* Topology: whatever call fails, the topics counted are topics of Sync, and
\* those are registered.
SubscriptionsExact ==
    /\ focus = "subscriber" => Sub!SocketExact
    /\ focus = "topology" => Top!TopicsNested
=============================================================================
