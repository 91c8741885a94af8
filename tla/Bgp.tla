-------------------------------- MODULE Bgp --------------------------------
(***************************************************************************)
(* Dynamic routing.  The plugin (neutron/services/bgp/bgp_plugin.py) keeps *)
(* a row of the northbound database for a speaker, with its peers, the     *)
(* host routes of floating IPs and the prefix routes of tenant networks,   *)
(* and a row for every peer.  The service (controller/df_bgp_service.py)   *)
(* reads both tables at every pulse and passes the changes to a driver.    *)
(*                                                                         *)
(* Handlers read the row of the speaker and write it back, and others run  *)
(* in between: wrap_db_lock, which some of them have, takes no lock (see   *)
(* LockedObjects).                                                         *)
(*                                                                         *)
(* One speaker with one gateway network.  Lists of peers and of routes are *)
(* sets, a route is a destination with its next hop.  The databases of     *)
(* Neutron, the driver and the looping call are external.                  *)
(***************************************************************************)
EXTENDS Naturals

CONSTANTS
    Workers,     \* threads of the Neutron servers
    Peers, Fips,
    Hosts,       \* chassis, which are the next hops of floating IPs
    None,
    MaxRequests  \* bound on requests

VARIABLES
    neutron,   \* [rows, bound, gateway, fips, prefix]
    nb,        \* [peers, row]
    job,       \* [Workers -> the handler in progress, or None]
    requests,
    stale,     \* history: floating IPs that changed without a handler
    clash,     \* history: a handler wrote what it read before another wrote
    svc,       \* [pc, peers, row]: the service and its cache
    driver,    \* [peers, routes] of the speaker, or None
    torn       \* history: a pulse met the handling of a request
pluginVars == <<neutron, job, requests, stale, clash>>
serviceVars == <<svc, driver>>
vars == <<pluginVars, nb, serviceVars, torn>>

Speaker == "speaker"
Tenant == "tenant network"
Places == Hosts \cup {"unbound", None}
Routes == (Fips \X Hosts) \cup {<<Tenant, "gateway">>}
Rows == [peers : SUBSET Peers, host : SUBSET (Fips \X Hosts),
         prefix : SUBSET {<<Tenant, "gateway">>}]
Ops == {"create_speaker", "update_speaker", "delete_speaker", "create_peer",
        "update_peer", "delete_peer", "add_peer", "remove_peer", "gateway", "fip", "router"}

\* Both databases, the cache and the driver keep their type.
TypeOK ==
    /\ neutron \in [rows : [Peers \cup {Speaker} ->
                                {"none", "live", "deleted"}],
                    bound : SUBSET Peers, gateway : BOOLEAN,
                    fips : [Fips -> Places], prefix : BOOLEAN]
    /\ nb.peers \subseteq Peers /\ (nb.row = None \/ nb.row \in Rows)
    /\ \A w \in Workers : job[w] = None \/ job[w].op \in Ops
    /\ requests \in 0 .. MaxRequests /\ stale \subseteq Fips
    /\ clash \in BOOLEAN /\ torn \in BOOLEAN
    /\ svc.peers \subseteq Peers /\ (svc.row = None \/ svc.row \in Rows)
    /\ svc.pc \in {"idle", "speakers", "cleanup", "cleanup_peers", "stopped"}
    /\ driver = None
       \/ driver \in [peers : SUBSET Peers, routes : SUBSET Routes]

EmptyRow == [peers |-> {}, host |-> {}, prefix |-> {}]

\* Before anything was created, or with a speaker, its gateway network, peers,
\* some of which it is bound to, and floating IPs in every table.  The service
\* has read them, or is starting.
Init ==
    \E live \in SUBSET (Peers \cup {Speaker}),
       places \in [Fips -> Hosts \cup {None}] :
    \E bound \in SUBSET (Peers \cap live) :
        LET row == [peers |-> bound, prefix |-> {},
                    host |-> {<<f, h>> \in Fips \X Hosts : places[f] = h}]
        IN  /\ Speaker \notin live => live = {} /\ row = EmptyRow
            /\ neutron = [rows |-> [x \in Peers \cup {Speaker} |->
                                        IF x \in live THEN "live" ELSE "none"],
                          bound |-> bound, gateway |-> Speaker \in live,
                          fips |-> places, prefix |-> FALSE]
            /\ nb = [peers |-> Peers \cap live,
                     row |-> IF Speaker \in live THEN row ELSE None]
            /\ \/ /\ svc = [pc |-> "idle", peers |-> nb.peers, row |-> nb.row]
                  /\ driver = IF nb.row = None THEN None
                              ELSE [peers |-> bound, routes |-> row.host]
               \/ /\ svc = [pc |-> "idle", peers |-> {}, row |-> None]
                  /\ driver = None
            /\ job = [w \in Workers |-> None]
            /\ requests = 0 /\ stale = {} /\ clash = FALSE /\ torn = FALSE

----------------------------------------------------------------------------
(* Requests. *)

\* The handler of a request starts at pc with what is to be done.
Start(w, op, item, data, pc) ==
    /\ job' = [job EXCEPT ![w] =
           [op |-> op, item |-> item, data |-> data, pc |-> pc,
            at |-> requests', row |-> None, late |-> FALSE, met |-> FALSE]]
    /\ UNCHANGED <<nb, stale, clash, serviceVars, torn>>

Request(w) ==
    job[w] = None /\ requests < MaxRequests /\ requests' = requests + 1

Live(x) == neutron.rows[x] = "live"

CreateBgpSpeaker(w) ==
    /\ Request(w) /\ neutron.rows[Speaker] = "none"
    /\ neutron' = [neutron EXCEPT !.rows[Speaker] = "live"]
    /\ Start(w, "create_speaker", Speaker, None, "create")

\* Writes back the peers that Neutron returns.
UpdateBgpSpeaker(w) ==
    /\ Request(w) /\ Live(Speaker)
    /\ Start(w, "update_speaker", Speaker, neutron.bound, "get")
    /\ UNCHANGED neutron

DeleteBgpSpeaker(w) ==
    /\ Request(w) /\ Live(Speaker)
    /\ neutron' = [neutron EXCEPT !.rows[Speaker] = "deleted",
                                  !.bound = {}, !.gateway = FALSE]
    /\ Start(w, "delete_speaker", Speaker, None, "delete")

AddBgpPeer(w, p) ==
    /\ Request(w) /\ Live(Speaker) /\ Live(p) /\ p \notin neutron.bound
    /\ neutron' = [neutron EXCEPT !.bound = @ \cup {p}]
    /\ Start(w, "add_peer", p, None, "get")

CreateBgpPeer(w, p) ==
    /\ Request(w) /\ neutron.rows[p] = "none"
    /\ neutron' = [neutron EXCEPT !.rows[p] = "live"]
    /\ Start(w, "create_peer", p, None, "create")

UpdateBgpPeer(w, p) ==
    /\ Request(w) /\ Live(p)
    /\ Start(w, "update_peer", p, None, "get_peer") /\ UNCHANGED neutron

\* Which speakers have the peer is read before it is deleted.
DeleteBgpPeer(w, p) ==
    /\ Request(w) /\ Live(p)
    /\ neutron' = [neutron EXCEPT !.rows[p] = "deleted", !.bound = @ \ {p}]
    /\ Start(w, "delete_peer", p, p \in neutron.bound, "delete")

RemoveBgpPeer(w, p) ==
    /\ Request(w) /\ p \in neutron.bound
    /\ neutron' = [neutron EXCEPT !.bound = @ \ {p}]
    /\ Start(w, "remove_peer", p, None, "get")

\* add_gateway_network and remove_gateway_network.
ChangeGatewayNetwork(w) ==
    /\ Request(w) /\ Live(Speaker)
    /\ neutron' = [neutron EXCEPT !.gateway = ~@]
    /\ Start(w, "gateway", Tenant, None, "routes")

\* A floating IP is associated with a port of a host or of none yet, or
\* disassociated.  No speaker is concerned without the gateway network, and a
\* port of no host ends the callback.
FloatingipUpdateCallback(w, f, place) ==
    /\ Request(w) /\ place # neutron.fips[f]
    /\ neutron' = [neutron EXCEPT !.fips[f] = place]
    /\ IF neutron.gateway /\ place # "unbound"
       THEN Start(w, "fip", f, place, "get")
       ELSE /\ stale' = IF neutron.gateway THEN stale \cup {f} ELSE stale
            /\ UNCHANGED <<job, nb, clash, serviceVars, torn>>

\* The networks behind the routers of the gateway network change.
RouterPortCallback(w) ==
    /\ Request(w)
    /\ neutron' = [neutron EXCEPT !.prefix = ~@]
    /\ IF neutron.gateway THEN Start(w, "router", Tenant, None, "routes")
       ELSE UNCHANGED <<job, nb, stale, clash, serviceVars, torn>>

----------------------------------------------------------------------------
(* Handlers. *)

At(w, pc) == job[w] # None /\ job[w].pc = pc

\* The tables change; a pulse under way may have read one of them before.
NbWrites == torn' = (torn \/ svc.pc # "idle")

\* What a handler is about: that of a gateway network, all floating IPs.
About(j) == IF j.op = "gateway" THEN Fips ELSE {j.item}

\* The other handlers once that of w has written.  One that is about the same
\* thing, for an earlier request, is late; one that has begun to read met it.
Others(w) ==
    [v \in Workers |->
        IF v = w \/ job[v] = None THEN job[v]
        ELSE [job[v] EXCEPT
                 !.late = @ \/ /\ job[v].op # "gateway"
                               /\ job[v].at < job[w].at
                               /\ About(job[v]) \cap About(job[w]) # {},
                 !.met = @ \/ job[w].pc = "set" \/ job[w].item = Speaker]]
Done(w) == job' = [Others(w) EXCEPT ![w] = None]

CreateRow(w) ==
    /\ At(w, "create")
    /\ nb' = IF job[w].op = "create_peer"
             THEN [nb EXCEPT !.peers = @ \cup {job[w].item}]
             ELSE [nb EXCEPT !.row = EmptyRow]
    /\ clash' = (clash \/ job[w].late)
    /\ Done(w) /\ NbWrites
    /\ UNCHANGED <<neutron, requests, stale, serviceVars>>

\* delete_bgp_peer goes on with the speaker that had the peer.
DeleteRow(w) ==
    /\ At(w, "delete")
    /\ IF job[w].op = "delete_peer"
       THEN /\ nb' = [nb EXCEPT !.peers = @ \ {job[w].item}]
            /\ IF job[w].data THEN job' = [Others(w) EXCEPT ![w].pc = "get"]
               ELSE Done(w)
       ELSE nb' = [nb EXCEPT !.row = None] /\ Done(w)
    /\ NbWrites
    /\ UNCHANGED <<neutron, requests, stale, clash, serviceVars>>

\* _get_tenant_network_routes_by_bgp_speaker and _get_fip_query, and the
\* addresses of the hosts.
PrefixRoutes ==
    IF neutron.gateway /\ neutron.prefix THEN {<<Tenant, "gateway">>} ELSE {}

HostRoutes ==
    {<<f, h>> \in Fips \X Hosts : neutron.gateway /\ neutron.fips[f] = h}

ReadRoutes(w) ==
    /\ At(w, "routes")
    /\ job' = [job EXCEPT ![w] =
           [@ EXCEPT !.pc = "get", !.met = FALSE,
                     !.data = [host |-> HostRoutes, prefix |-> PrefixRoutes]]]
    /\ stale' = IF job[w].op = "gateway" THEN {} ELSE stale
    /\ UNCHANGED <<neutron, nb, requests, clash, serviceVars, torn>>

\* Mutant: the former route of a floating IP stays.
FipRouteAdded(routes, f, place) ==
    routes \cup {<<f, h>> : h \in {place} \cap Hosts}

\* Mutant: a floating IP without port gets a route.
FipRouteAnywhere(routes, f, place) ==
    {r \in routes : r[1] # f} \cup {<<f, place>>}

\* _add_bgp_speaker_fip_route replaces the route of the destination, and
\* _del_bgp_speaker_fip_route removes it.
FipRoutes(routes, f, place) ==
    {r \in routes : r[1] # f} \cup {<<f, h>> : h \in {place} \cap Hosts}

\* The row of the speaker after the handler of the job.
Changed(j, row) ==
    CASE j.op = "update_speaker" -> [row EXCEPT !.peers = j.data]
      [] j.op = "add_peer" -> [row EXCEPT !.peers = @ \cup {j.item}]
      [] j.op \in {"remove_peer", "delete_peer"} ->
             [row EXCEPT !.peers = @ \ {j.item}]
      [] j.op = "gateway" ->
             [row EXCEPT !.host = j.data.host, !.prefix = j.data.prefix]
      [] j.op = "router" -> [row EXCEPT !.prefix = j.data.prefix]
      [] j.op = "fip" ->
             [row EXCEPT !.host = FipRoutes(@, j.item, j.data)]

\* Handlers that read the database of Neutron before the row.
ReadsFirst(op) == op \in {"update_speaker", "gateway", "router"}

\* The handler reads the row, and raises if there is none (yet).
GetSpeaker(w) ==
    /\ At(w, "get")
    /\ IF nb.row = None
       THEN /\ job' = [job EXCEPT ![w] = None]
            /\ clash' = (clash \/ Live(Speaker))
       ELSE /\ job' = [job EXCEPT ![w] =
                   [@ EXCEPT !.pc = "set", !.row = Changed(job[w], nb.row),
                             !.met = @ /\ ReadsFirst(job[w].op)]]
            /\ UNCHANGED clash
    /\ UNCHANGED <<neutron, nb, requests, stale, serviceVars, torn>>

\* NbApi.update of a row that was read before reads it again, and raises if
\* it is gone.  One that is deleted after that is written back.
SetSpeaker(w) ==
    /\ At(w, "set")
    /\ \/ /\ nb' = [nb EXCEPT !.row = job[w].row]
          /\ IF nb' = nb THEN UNCHANGED torn ELSE NbWrites
          /\ clash' = (clash \/ job[w].late \/ job[w].met)
       \/ /\ nb.row = None /\ ~ReadsFirst(job[w].op)
          /\ UNCHANGED <<nb, torn, clash>>
    /\ Done(w)
    /\ UNCHANGED <<neutron, requests, stale, serviceVars>>

\* NbApi.update of a peer, whose fields are left out, likewise.
GetPeer(w) ==
    /\ At(w, "get_peer")
    /\ job' = IF job[w].item \in nb.peers
              THEN [job EXCEPT ![w].pc = "set_peer"] ELSE [job EXCEPT ![w] = None]
    /\ UNCHANGED <<neutron, nb, requests, stale, clash, serviceVars, torn>>

SetPeer(w) ==
    /\ At(w, "set_peer")
    /\ nb' = [nb EXCEPT !.peers = @ \cup {job[w].item}]
    /\ clash' = (clash \/ job[w].late)
    /\ Done(w) /\ NbWrites
    /\ UNCHANGED <<neutron, requests, stale, serviceVars>>

Handle(w) ==
    CreateRow(w) \/ DeleteRow(w)
    \/ ReadRoutes(w) \/ GetSpeaker(w) \/ SetSpeaker(w)
    \/ GetPeer(w) \/ SetPeer(w)

----------------------------------------------------------------------------
(* The service. *)

AllRoutes(row) == row.host \cup row.prefix

\* withdraw_route names a destination, advertise_route a route.
Withdraw(routes, rs) == {r \in routes : \A s \in rs : s[1] # r[1]}
Advertise(routes, rs) == {r \in routes : \A s \in rs : s[1] # r[1]} \cup rs

Exchange(routes, old, new) ==
    Advertise(Withdraw(routes, old \ new), new \ old)

\* The pulse starts with the table of peers.
UpdatePeers ==
    /\ svc.pc = "idle"
    /\ svc' = [svc EXCEPT !.pc = "speakers", !.peers = @ \cup nb.peers]
    /\ torn' = (torn \/ \E w \in Workers : job[w] # None)
    /\ UNCHANGED <<pluginVars, nb, driver>>

\* The peer of a reference that is not in the cache raises, out of the pulse,
\* which is not repeated then.
Stops(on, peers) ==
    /\ svc' = [svc EXCEPT !.pc = "stopped"]
    /\ driver' = [on EXCEPT !.peers = peers]

\* update_bgp_speaker, then the cache.
UpdateSpeaker(old, new) ==
    LET oldPeers == IF old = None THEN {} ELSE old.peers
        oldRoutes == IF old = None THEN {} ELSE AllRoutes(old)
        on == IF old = None THEN [peers |-> {}, routes |-> {}] ELSE driver
        gone == oldPeers \ new.peers
        added == new.peers \ oldPeers
    IN  \/ /\ ~(gone \subseteq svc.peers)
           /\ \E some \in SUBSET (gone \cap svc.peers) :
                  Stops(on, on.peers \ some)
        \/ /\ gone \subseteq svc.peers /\ ~(added \subseteq svc.peers)
           /\ \E some \in SUBSET (added \cap svc.peers) :
                  Stops(on, (on.peers \ gone) \cup some)
        \/ /\ gone \cup added \subseteq svc.peers
           /\ svc' = [svc EXCEPT !.pc = "cleanup", !.row = new]
           /\ driver' = [peers |-> (on.peers \ gone) \cup added,
                         routes |-> Exchange(on.routes, oldRoutes,
                                             AllRoutes(new))]

UpdateSpeakers ==
    /\ svc.pc = "speakers"
    /\ IF nb.row = None \/ nb.row = svc.row
       THEN svc' = [svc EXCEPT !.pc = "cleanup"] /\ UNCHANGED driver
       ELSE UpdateSpeaker(svc.row, nb.row)
    /\ UNCHANGED <<pluginVars, nb, torn>>

\* Mutant: a speaker that is gone is kept.
CleanupNothing ==
    /\ svc.pc = "cleanup" /\ svc' = [svc EXCEPT !.pc = "cleanup_peers"]
    /\ UNCHANGED <<pluginVars, nb, driver, torn>>

\* delete_bgp_speaker takes the peers from the cache as well.
CleanupSpeakers ==
    /\ svc.pc = "cleanup"
    /\ \/ /\ nb.row # None \/ svc.row = None
          /\ svc' = [svc EXCEPT !.pc = "cleanup_peers"] /\ UNCHANGED driver
       \/ /\ nb.row = None /\ svc.row # None
          /\ svc.row.peers \subseteq svc.peers
          /\ svc' = [svc EXCEPT !.pc = "cleanup_peers", !.row = None]
          /\ driver' = None
       \/ /\ nb.row = None /\ svc.row # None
          /\ ~(svc.row.peers \subseteq svc.peers)
          /\ \E some \in SUBSET (svc.row.peers \cap svc.peers) :
                 Stops(driver, driver.peers \ some)
    /\ UNCHANGED <<pluginVars, nb, torn>>

CleanupPeers ==
    /\ svc.pc = "cleanup_peers"
    /\ svc' = [svc EXCEPT !.pc = "idle", !.peers = @ \cap nb.peers]
    /\ torn' = (torn \/ \E w \in Workers : job[w] # None)
    /\ UNCHANGED <<pluginVars, nb, driver>>

Pulse == UpdatePeers \/ UpdateSpeakers \/ CleanupSpeakers \/ CleanupPeers

Next ==
    \/ \E w \in Workers :
         \/ CreateBgpSpeaker(w) \/ UpdateBgpSpeaker(w) \/ DeleteBgpSpeaker(w)
         \/ \E p \in Peers :
               \/ CreateBgpPeer(w, p) \/ UpdateBgpPeer(w, p)
               \/ DeleteBgpPeer(w, p)
               \/ AddBgpPeer(w, p) \/ RemoveBgpPeer(w, p)
         \/ ChangeGatewayNetwork(w) \/ RouterPortCallback(w)
         \/ \E f \in Fips, place \in Places :
                FloatingipUpdateCallback(w, f, place)
         \/ Handle(w)
    \/ Pulse

\* Handlers go on, and the looping call repeats the pulse.
Fairness == WF_vars(Pulse) /\ \A w \in Workers : WF_vars(Handle(w))

Spec == Init /\ [][Next]_vars /\ Fairness

----------------------------------------------------------------------------
(* Properties. *)

\* When no handler is under way, the rows of the northbound database are what
\* Neutron has, unless handlers of one floating IP or peer came in the wrong
\* order, or one wrote what it had read before another wrote: requests in any
\* order, and handlers that overlap before and after their reading and
\* writing, leave no peer and no route behind.
RowExact ==
    (~clash /\ \A w \in Workers : job[w] = None) =>
        /\ nb.peers = {p \in Peers : Live(p)}
        /\ (nb.row # None) = Live(Speaker)
        /\ nb.row # None =>
               /\ nb.row.peers = neutron.bound
               /\ nb.row.prefix = PrefixRoutes
               /\ {r \in nb.row.host : r[1] \notin stale} =
                  {r \in HostRoutes : r[1] \notin stale}

\* Between two pulses the driver has the peers and advertises the routes of
\* the row that was read, with the next hops of now.
DriverFollows ==
    svc.pc = "idle" =>
        IF svc.row = None THEN driver = None
        ELSE driver = [peers |-> svc.row.peers, routes |-> AllRoutes(svc.row)]

\* The pulse is not ended by an exception as long as it meets no handling of
\* a request and no handler met another: the peers of a speaker are in the
\* cache when they are looked at, whatever was deleted since the last pulse.
PulseSurvives == svc.pc = "stopped" => torn \/ clash

\* Plugin and service carry what Neutron has to the driver: the rows are exact,
\* the driver has what was read of them, and the pulse goes on.
RoutesFollow == RowExact /\ DriverFollows /\ PulseSurvives

\* A service whose pulse goes on ends up with the speaker, peers and routes
\* of the northbound database, whatever it read half-way.
AdvertisedEventually ==
    <>[](svc.pc # "stopped") =>
    <>[](IF nb.row = None THEN driver = None
         ELSE driver = [peers |-> nb.row.peers, routes |-> AllRoutes(nb.row)])
=============================================================================
