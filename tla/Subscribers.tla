---------------------------- MODULE Subscribers ----------------------------
(***************************************************************************)
(* The subscriber agents a controller listens with: SubscriberAgentBase    *)
(* (db/pub_sub_api.py) with the ZMQ driver, one socket that subscribes to  *)
(* the topics and is made again after an error, and the etcd driver, one   *)
(* watcher thread per topic.  The calls come from the controller's main    *)
(* thread; the ZMQ loop and the watchers are green threads of their own,   *)
(* which yield at their calls of the network.                              *)
(***************************************************************************)
EXTENDS Integers

CONSTANTS
    Topics,        \* topics of tenants
    Uris,          \* addresses of publishers
    None,
    MaxStray       \* bound: watchers of a topic that outlive it

VARIABLES
    driver,        \* the driver in use
    is_running,
    topic_list,    \* topic_list, or the keys of topic_dict
    uri_list,
    sub_socket,    \* subscriptions per topic and connections per address
    watcher,       \* the thread in topic_dict of each topic
    stray,         \* threads of topics unregistered before they watched
    syncs          \* the loop has put a 'sync' in the controller's queue

lists == <<topic_list, uri_list>>
threads == <<watcher, stray>>
vars == <<driver, is_running, lists, sub_socket, threads, syncs>>

SEND_ALL_TOPIC == "D"
AllTopics == Topics \cup {SEND_ALL_TOPIC}

TypeOK ==
    /\ driver \in {"zmq", "etcd"}
    /\ is_running \in BOOLEAN /\ syncs \in BOOLEAN
    /\ topic_list \subseteq AllTopics /\ uri_list \subseteq Uris
    /\ sub_socket # None =>
           sub_socket \in [topics : [AllTopics -> Nat], uris : SUBSET Uris]
    /\ watcher \in [AllTopics -> {"none", "started", "watching"}]
    /\ stray \in [AllTopics -> 0..MaxStray]

Init ==
    /\ driver \in {"zmq", "etcd"}
    /\ is_running = FALSE /\ syncs = FALSE
    /\ topic_list = {} /\ uri_list = {}
    /\ sub_socket = None
    /\ watcher = [t \in AllTopics |-> "none"]
    /\ stray = [t \in AllTopics |-> 0]

-----------------------------------------------------------------------------
(* The ZMQ driver *)

\* A new socket with every address and topic of the lists.
connect(topics, uris) ==
    [topics |-> [t \in AllTopics |-> IF t \in topics THEN 1 ELSE 0],
     uris |-> uris]

\* The first step of the thread.
ZmqStart ==
    /\ driver = "zmq" /\ is_running
    /\ sub_socket = None
    /\ sub_socket' = connect(topic_list, uri_list)
    /\ UNCHANGED <<driver, is_running, lists, threads, syncs>>

\* An exception: the socket is closed and made again, the controller told.
ZmqException ==
    /\ sub_socket # None
    /\ sub_socket' = connect(topic_list, uri_list)
    /\ syncs' = TRUE
    /\ UNCHANGED <<driver, is_running, lists, threads>>

\* zmq.SUBSCRIBE adds a subscription, zmq.UNSUBSCRIBE takes one away.
Subscriptions(t, by) ==
    IF sub_socket = None THEN None
    ELSE [sub_socket EXCEPT !.topics[t] = @ + by]

-----------------------------------------------------------------------------
(* The etcd driver *)

\* WatcherThread.startWatch: client.watch has returned.
startWatch(t) ==
    /\ watcher[t] = "started"
    /\ watcher' = [watcher EXCEPT ![t] = "watching"]
    /\ UNCHANGED <<driver, is_running, lists, sub_socket, stray, syncs>>

-----------------------------------------------------------------------------
(* The controller's calls *)

\* NbApi._start_subscriber
_start_subscriber(uris) ==
    /\ ~is_running
    /\ is_running' = TRUE
    /\ topic_list' = {SEND_ALL_TOPIC}
    /\ uri_list' = IF driver = "zmq" THEN uris ELSE {}
    /\ watcher' = IF driver = "zmq" THEN watcher
                  ELSE [watcher EXCEPT ![SEND_ALL_TOPIC] = "started"]
    /\ UNCHANGED <<driver, sub_socket, stray, syncs>>

\* Mutant: a topic may be subscribed to twice.
RegisterTopicAgain(t) ==
    /\ is_running
    /\ topic_list' = topic_list \cup {t}
    /\ IF driver = "zmq"
       THEN sub_socket' = Subscriptions(t, 1) /\ UNCHANGED watcher
       ELSE watcher' = [watcher EXCEPT ![t] = "started"] /\ UNCHANGED sub_socket
    /\ UNCHANGED <<driver, is_running, uri_list, stray, syncs>>

\* A topic that is registered already changes nothing.
register_topic(t) ==
    /\ is_running
    /\ t \notin topic_list
    /\ topic_list' = topic_list \cup {t}
    /\ IF driver = "zmq"
       THEN sub_socket' = Subscriptions(t, 1) /\ UNCHANGED watcher
       ELSE watcher' = [watcher EXCEPT ![t] = "started"] /\ UNCHANGED sub_socket
    /\ UNCHANGED <<driver, is_running, uri_list, stray, syncs>>

\* cancel() has nothing to call before the watcher watches.
unregister_topic(t) ==
    /\ t \in topic_list \ {SEND_ALL_TOPIC}
    /\ topic_list' = topic_list \ {t}
    /\ IF driver = "zmq"
       THEN sub_socket' = Subscriptions(t, -1) /\ UNCHANGED threads
       ELSE /\ watcher' = [watcher EXCEPT ![t] = "none"]
            /\ stray' = IF watcher[t] = "watching" THEN stray
                        ELSE [stray EXCEPT ![t] = @ + 1]
            /\ stray'[t] <= MaxStray
            /\ UNCHANGED sub_socket
    /\ UNCHANGED <<driver, is_running, uri_list, syncs>>

\* update_publisher and delete_publisher.
register_listen_address(u) ==
    /\ driver = "zmq" /\ is_running
    /\ u \notin uri_list
    /\ uri_list' = uri_list \cup {u}
    /\ sub_socket' = IF sub_socket = None THEN None
                     ELSE [sub_socket EXCEPT !.uris = @ \cup {u}]
    /\ UNCHANGED <<driver, is_running, topic_list, threads, syncs>>

unregister_listen_address(u) ==
    /\ u \in uri_list
    /\ uri_list' = uri_list \ {u}
    /\ sub_socket' = IF sub_socket = None THEN None
                     ELSE [sub_socket EXCEPT !.uris = @ \ {u}]
    /\ UNCHANGED <<driver, is_running, topic_list, threads, syncs>>

-----------------------------------------------------------------------------
Next ==
    \/ \E uris \in SUBSET Uris : _start_subscriber(uris)
    \/ \E t \in AllTopics :
           register_topic(t) \/ unregister_topic(t) \/ startWatch(t)
    \/ \E u \in Uris : register_listen_address(u) \/ unregister_listen_address(u)
    \/ ZmqStart \/ ZmqException

Spec == Init /\ [][Next]_vars

-----------------------------------------------------------------------------
(* Properties *)

\* Whatever was registered and unregistered before the thread connects, while
\* it is connected and across its reconnections, the ZMQ socket holds exactly
\* one subscription of each registered topic, none of another, and a
\* connection to each registered publisher (ZMQSubscriberAgent.connect,
\* register_topic, unregister_topic).
SocketExact ==
    sub_socket # None =>
        /\ \A t \in AllTopics :
               sub_socket.topics[t] = IF t \in topic_list THEN 1 ELSE 0
        /\ sub_socket.uris = uri_list
=============================================================================
