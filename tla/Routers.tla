------------------------------- MODULE Routers -------------------------------
(***************************************************************************)
(* The router applications (controller/apps/l3_base.py, l3_proactive.py    *)
(* and l3_reactive.py): flows for the interfaces of a router, for its      *)
(* extra routes, and (proactive) for the ports behind it.                  *)
(*                                                                         *)
(* One router.  An interface stands for its subnet and network, a port for *)
(* its address; Behind[p] is the interface whose subnet has the address.   *)
(* A port's version stands for its MAC address and unique key.  A route    *)
(* leads to a destination through a port, its next hop; a router has one   *)
(* route to a destination, and Neutron refuses a route whose next hop is   *)
(* not behind an interface.                                                *)
(***************************************************************************)
EXTENDS FiniteSets, Naturals, PortEvents

CONSTANTS
    Interfaces,
    Ports, Behind,      \* Behind \in [Ports -> Interfaces]
    Dests, Inside,      \* Inside[x]: the interface whose subnet has x, or None
    Versions,
    None

VARIABLES
    app,        \* which application is configured
    node,
    resync, switched,
    early,      \* history: a route was added for a port cached but not bound
    swept,      \* history: destinations of routes, inside a removed subnet
    stuck       \* history: the removal of a route raised
vars == <<app, node, resync, switched, early, swept, stuck>>

Routes == [dst : Dests, via : Ports]
Absent == [place |-> "absent", ver |-> 0]
Lports == {Absent} \cup [place : {"unbound", "local", "remote"}, ver : Versions]
NoRouter == [cached |-> FALSE, ifs |-> {}, routes |-> {}]

Reachable(r) == \A x \in r.routes : Behind[x.via] \in r.ifs
Routers == {r \in [cached : {TRUE}, ifs : SUBSET Interfaces,
                    routes : SUBSET Routes] :
               /\ Reachable(r)
               /\ \A x, y \in r.routes : x.dst = y.dst => x = y}

Nodes ==
    [lports : [Ports -> Lports],        \* db_store
     router : Routers \cup {NoRouter},   \* db_store
     concrete : SUBSET Interfaces,      \* db_store: interfaces' own ports
     bound : SUBSET Ports,              \* PortBindingApp
     added : SUBSET Routes,             \* route_cache: ROUTE_ADDED
     to_add : SUBSET Routes,            \* route_cache: ROUTE_TO_ADD
     ifs : [Interfaces -> {"controller", "port", None}],  \* flows
     subnets : SUBSET Interfaces,       \* flows: to the subnet
     routes : [Interfaces \X Dests -> (Ports \X Versions) \cup {None}],
     forward : [Ports -> Versions \cup {None}]]   \* L3_PROACTIVE_LOOKUP_TABLE

\* The cache, the route cache and the flows keep their types.
TypeOK ==
    /\ app \in {"proactive", "reactive"} /\ node \in Nodes
    /\ resync \in BOOLEAN /\ switched \in BOOLEAN
    /\ early \subseteq Routes /\ swept \subseteq Dests /\ stuck \in BOOLEAN

NoFlows(d) ==
    [d EXCEPT !.ifs = [i \in Interfaces |-> None], !.subnets = {},
              !.routes = [x \in Interfaces \X Dests |-> None],
              !.forward = [p \in Ports |-> None]]

Init ==
    /\ app \in {"proactive", "reactive"}
    /\ node = [lports |-> [p \in Ports |-> Absent], router |-> NoRouter,
               concrete |-> {}, bound |-> {}, added |-> {}, to_add |-> {},
               ifs |-> [i \in Interfaces |-> None], subnets |-> {},
               routes |-> [x \in Interfaces \X Dests |-> None],
               forward |-> [p \in Ports |-> None]]
    /\ resync = FALSE /\ switched = FALSE
    /\ early = {} /\ swept = {} /\ stuck = FALSE

----------------------------------------------------------------------------
(* Interfaces. *)

\* _add_subnet_send_to_route of both applications: to the lookup of the port,
\* or to the controller.
AddSubnetSendToRoute(d, is) == [d EXCEPT !.subnets = @ \cup is]

\* _add_new_router_port: an interface whose port is cached is concrete.
AddRouterPorts(d, is) ==
    [AddSubnetSendToRoute(d, is) EXCEPT
        !.ifs = [i \in Interfaces |->
                    IF i \notin is THEN @[i]
                    ELSE IF i \in d.concrete THEN "port" ELSE "controller"]]

\* _delete_router_port: the flow to the subnet is deleted by a match that is
\* not strict, which takes every flow to a destination inside the subnet.
DeleteRouterPorts(d, is) ==
    [d EXCEPT !.ifs = [i \in Interfaces |-> IF i \in is THEN None ELSE @[i]],
              !.subnets = @ \ is,
              !.routes = [x \in Interfaces \X Dests |->
                             IF Inside[x[2]] \in is THEN None ELSE @[x]]]

----------------------------------------------------------------------------
(* Extra routes. *)

Flow(d, x)    == d.routes[<<Behind[x.via], x.dst>>]
FlowTo(d, p)  == <<p, d.lports[p].ver>>

\* _add_router_extra_route: the next hop counts as soon as it is cached.  The
\* routes of a router lead to different destinations, so they are handled
\* together.
AddRoutes(d, new) ==
    LET now == {x \in new : d.lports[x.via] # Absent}
        e   == [d EXCEPT !.added = @ \cup now, !.to_add = @ \cup (new \ now)]
    IN  [e EXCEPT !.routes = [k \in Interfaces \X Dests |->
            IF \E x \in now : <<Behind[x.via], x.dst>> = k
            THEN FlowTo(d, (CHOOSE x \in now :
                               <<Behind[x.via], x.dst>> = k).via)
            ELSE d.routes[k]]]

\* _delete_router_extra_route
DeleteRoutes(d, old) ==
    [d EXCEPT !.added = @ \ old, !.to_add = @ \ old,
              !.routes = [k \in Interfaces \X Dests |->
                 IF \E x \in old : <<Behind[x.via], x.dst>> = k
                 THEN None ELSE d.routes[k]]]

----------------------------------------------------------------------------
(* Ports that are next hops. *)

Via(routes, p) == {x \in routes : x.via = p}

\* _reprocess_to_add_route and _reprocess_to_delete_route: only for the router
\* that has an interface the port is behind.
ReprocessToAdd(d, p) ==
    IF Behind[p] \notin d.router.ifs THEN d
    ELSE LET e == AddRoutes(d, Via(d.to_add, p))
         IN  [e EXCEPT !.to_add = @ \ Via(d.to_add, p)]

ReprocessToDelete(d, p) ==
    IF Behind[p] \notin d.router.ifs THEN d
    ELSE LET e == DeleteRoutes(d, Via(d.added, p))
         IN  [e EXCEPT !.to_add = @ \cup Via(d.added, p)]

----------------------------------------------------------------------------
(* Handlers of the events of ports. *)

\* _add_port: the proactive application also forwards to the port.
Bind(d, p, o) ==
    LET e == ReprocessToAdd(d, p)
    IN  IF app = "reactive" THEN e ELSE [e EXCEPT !.forward[p] = o.ver]

\* _remove_port
Unbind(d, p, o) ==
    LET e == ReprocessToDelete(d, p)
    IN  IF app = "reactive" THEN e ELSE [e EXCEPT !.forward[p] = None]

\* Mutant: only the flow to the port is written again.
UpdateForwardOnly(d, p, o, orig) ==
    IF app = "reactive" THEN d ELSE [d EXCEPT !.forward[p] = o.ver]

\* _update_port
Update(d, p, o, orig) ==
    IF app = "reactive" \/ o.ver = orig.ver THEN d
    ELSE Bind(Unbind(d, p, orig), p, o)

----------------------------------------------------------------------------
(* Steps. *)

UpdatePort(p, o) ==
    /\ o # node.lports[p] /\ o # Absent
    /\ node' = PortUpdated(node, p, o, Bind, Update, Unbind)
    /\ UNCHANGED <<app, resync, switched, early, swept, stuck>>

DeletePort(p) ==
    /\ node.lports[p] # Absent
    /\ node' = PortDeleted(node, p, Absent, Unbind)
    /\ UNCHANGED <<app, resync, switched, early, swept, stuck>>

\* The port of an interface is bound, if only to a node that hosts it:
\* _add_concrete_router_interface.  Its removal is left to the router.
BindConcrete(i) ==
    /\ i \notin node.concrete
    /\ node' = [node EXCEPT !.concrete = @ \cup {i},
                  !.ifs[i] = IF node.router.cached THEN "port" ELSE @]
    /\ UNCHANGED <<app, resync, switched, early, swept, stuck>>

RemoveConcrete(i) ==
    /\ i \in node.concrete /\ node' = [node EXCEPT !.concrete = @ \ {i}]
    /\ UNCHANGED <<app, resync, switched, early, swept, stuck>>

\* router_created and router_updated: interfaces first, old before new; then
\* old routes and new ones.  The gateway of an old route is looked up among
\* the new interfaces: when it is gone the lookup raises, and the routes that
\* come later in the list are not handled.
UpdateRouter(new) ==
    /\ new # node.router /\ new.cached
    /\ LET old == node.router
           d0  == [node EXCEPT !.router = new]
           d1  == AddRouterPorts(DeleteRouterPorts(d0, old.ifs \ new.ifs),
                                 new.ifs \ old.ifs)
           del == old.routes \ new.routes
           add == new.routes \ old.routes
           bad == {x \in del : Behind[x.via] \notin new.ifs}
       IN  /\ IF bad = {}
              THEN node' = AddRoutes(DeleteRoutes(d1, del), add)
              ELSE \E done \in SUBSET (del \ bad) :
                       node' = DeleteRoutes(d1, done)
           /\ stuck' = (stuck \/ bad # {})
           /\ early' = early \cup
                 {x \in add : node.lports[x.via].place = "unbound"}
           /\ swept' = swept \cup {x.dst : x \in
                 {y \in new.routes \cap old.routes :
                     Inside[y.dst] \in old.ifs \ new.ifs}}
    /\ UNCHANGED <<app, resync, switched>>

\* router_deleted
DeleteRouter ==
    /\ node.router.cached
    /\ LET d == DeleteRoutes(DeleteRouterPorts(node, node.router.ifs),
                             node.router.routes)
       IN  node' = [d EXCEPT !.added = {}, !.to_add = {}, !.router = NoRouter]
    /\ UNCHANGED <<app, resync, switched, early, swept, stuck>>

\* switch_features_handler after a restart of the switch.
SwitchFeatures ==
    /\ ~switched /\ switched' = TRUE /\ resync' = TRUE
    /\ node' = [NoFlows(node) EXCEPT !.bound = {}, !.added = {}, !.to_add = {}]
    /\ UNCHANGED <<app, early, swept, stuck>>

\* CONTROLLER_REINITIALIZE: the cache is read again.
Reinitialize ==
    /\ resync /\ resync' = FALSE
    /\ node' = [node EXCEPT !.lports = [p \in Ports |-> Absent],
                            !.router = NoRouter, !.concrete = {}]
    /\ UNCHANGED <<app, switched, early, swept, stuck>>

\* What an event does that is handled between a reconnection and the reading
\* of the cache is not followed here.
Event ==
    /\ ~resync
    /\ \/ \E p \in Ports : DeletePort(p) \/ \E o \in Lports : UpdatePort(p, o)
       \/ \E i \in Interfaces : BindConcrete(i) \/ RemoveConcrete(i)
       \/ \E new \in Routers : UpdateRouter(new)
       \/ DeleteRouter

Next == Event \/ SwitchFeatures \/ Reinitialize

Spec == Init /\ [][Next]_vars

----------------------------------------------------------------------------
(* Properties. *)

\* Routes whose handling met none of the histories.
Followed(x) == x \notin early /\ x.dst \notin swept

\* The route cache has every route of the cached router once, as added or as
\* waiting for its next hop.
RouteCacheExact ==
    ~resync /\ ~stuck /\ early = {} =>
        /\ node.added \cap node.to_add = {}
        /\ node.added \cup node.to_add = node.router.routes

\* A route has a flow, to the next hop as it is now, exactly while the next
\* hop is bound, in whichever order router and port come, change and go; no
\* flow is left of a route that the router no longer has.
RouteFlowsFollow ==
    ~resync /\ ~stuck /\ app = "proactive" =>
        \A x \in Routes : Followed(x) =>
            /\ x \in node.router.routes =>
                 Flow(node, x) = IF x.via \in node.bound
                                 THEN FlowTo(node, x.via) ELSE None
            /\ Flow(node, x) # None =>
                 \E y \in node.router.routes :
                    y.dst = x.dst /\ Behind[y.via] = Behind[x.via]

\* Every interface of the router is answered for and routed to; a removed one
\* is not routed to.
InterfaceFlowsFollow ==
    ~resync =>
        /\ node.subnets = node.router.ifs
        /\ \A i \in node.router.ifs :
             node.ifs[i] # None /\ (i \in node.concrete => node.ifs[i] = "port")

\* The proactive application forwards to exactly the bound ports, by their
\* current addresses.
ForwardFlowsFollow ==
    ~resync /\ app = "proactive" => \A p \in Ports :
        node.forward[p] = IF p \in node.bound THEN node.lports[p].ver ELSE None

\* The record of routes and all flows of the router applications are those of
\* the router and the ports as they are cached now.
RouterFollowed == /\ RouteCacheExact /\ RouteFlowsFollow
                  /\ InterfaceFlowsFollow /\ ForwardFlowsFollow
=============================================================================
