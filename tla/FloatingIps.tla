----------------------------- MODULE FloatingIps -----------------------------
(***************************************************************************)
(* DNATApp (controller/apps/dnat.py) with the locations of ports           *)
(* (controller/port_locator.py): a floating IP is translated on the node   *)
(* of the port it is associated with.  Its own port, the floating port, is *)
(* not bound by Neutron; the application binds it where the other port is, *)
(* by recording a location and emitting bind and unbind events for it.     *)
(*                                                                         *)
(* References are resolved in the cache when they are read, so a handler   *)
(* that runs for the old version of a port may see the new one.  Floating  *)
(* IPs and their ports have the same names; the external subnets are IPv4; *)
(* a port has at most one floating IP, as Neutron ensures for an address.  *)
(***************************************************************************)
EXTENDS FiniteSets, PortEvents

CONSTANTS
    Ports,      \* ports of virtual machines
    Fips,       \* floating IPs, and their ports
    None

VARIABLES
    node,
    resync,     \* CONTROLLER_REINITIALIZE is queued
    switched,   \* the switch has reconnected
    moved,      \* history: floating IPs whose port was unbound by a move
    early,      \* history: floating IPs associated with a disabled port, or
                \*   installed before the cache was read again
    deleted     \* floating IPs deleted: identifiers are not used again
vars == <<node, resync, switched, moved, early, deleted>>

Absent == [place |-> "absent"]
Lports == [place : Places \cup {"disabled"}]    \* disabled, bound here
Gone == "gone"                                  \* a floating IP not cached

Nodes ==
    [lports : [Ports -> Lports],             \* db_store
     fips : [Fips -> Ports \cup {None, Gone}],  \* db_store: fip.lport
     fports : SUBSET Fips,                   \* db_store: floating ports
     bound : SUBSET Ports,                   \* PortBindingApp
     f_local : SUBSET Fips,                  \* floating ports bound here, as
     f_remote : SUBSET Fips,                 \*   all applications know them
     locations : [Fips -> {"local", "remote", None}],  \* port_locator
     in_process : SUBSET Fips,               \* lports_in_process
     ingress : [Fips -> Ports \cup {None}],  \* flows: to the port
     egress : [Ports -> Fips \cup {None}]]   \* flows: from the port

\* The cache, the locations and the flows keep their types.
TypeOK ==
    /\ node \in Nodes
    /\ resync \in BOOLEAN /\ switched \in BOOLEAN
    /\ moved \subseteq Fips /\ early \subseteq Fips /\ deleted \subseteq Fips

Init ==
    /\ node = [lports |-> [p \in Ports |-> Absent],
               fips |-> [k \in Fips |-> Gone], fports |-> {},
               bound |-> {}, f_local |-> {}, f_remote |-> {},
               locations |-> [k \in Fips |-> None], in_process |-> {},
               ingress |-> [k \in Fips |-> None],
               egress |-> [p \in Ports |-> None]]
    /\ resync = FALSE /\ switched = FALSE /\ moved = {} /\ early = {}
    /\ deleted = {}

IsLocal(d, p)  == d.lports[p].place \in {"local", "disabled"}
IsRemote(d, p) == d.lports[p].place = "remote"

----------------------------------------------------------------------------
(* Flows. *)

InstallIngress(d, k, p) == [d EXCEPT !.ingress[k] = p]
RemoveIngress(d, k)     == [d EXCEPT !.ingress[k] = None]
InstallEgress(d, k, p)  == [d EXCEPT !.egress[p] = k]
RemoveEgress(d, p)      ==     \* raises when the port is gone
    IF d.lports[p] = Absent THEN d ELSE [d EXCEPT !.egress[p] = None]

----------------------------------------------------------------------------
(* Installing and uninstalling a floating IP. *)

\* copy_port_binding gives the floating port the binding of the port; then
\* its event is emitted.  A floating port that is not cached is only noticed
\* when an attribute other than its id is read, which raises.
InstallLocal(d, k) ==
    LET p == d.fips[k]
        e == InstallEgress(InstallIngress(d, k, p), k, p)
    IN  IF k \notin d.fports THEN d
        ELSE [e EXCEPT !.locations[k] = "local", !.f_local = @ \cup {k}]

InstallRemote(d, k) ==
    [d EXCEPT !.locations[k] = "remote",
              !.f_remote = IF k \in d.fports THEN @ \cup {k} ELSE @]

InstallFloatingip(d, k) ==
    CASE IsLocal(d, d.fips[k])  -> InstallLocal(d, k)
      [] IsRemote(d, d.fips[k]) -> InstallRemote(d, k)
      [] OTHER -> d

\* Mutant: the other applications are not told.
UninstallCommonSilent(d, k, p, emit) == [d EXCEPT !.locations[k] = None]

\* _uninstall_floatingip_common: where the port is now decides which event is
\* emitted; the handler of the event here takes the mark away again.  p is
\* the port the floating IP was associated with.
UninstallCommon(d, k, p, emit) ==
    LET e == [d EXCEPT !.locations[k] = None]
    IN  CASE ~emit -> e
          [] emit /\ k \in d.fports /\ IsLocal(d, p) ->
                [e EXCEPT !.f_local = @ \ {k}]
          [] emit /\ k \in d.fports /\ IsRemote(d, p) ->
                [e EXCEPT !.f_remote = @ \ {k}]
          [] OTHER -> [e EXCEPT !.in_process = @ \cup {k}]

\* _uninstall_local_floatingip: without a location clear_port_binding raises.
UninstallLocal(d, k, p, emit) ==
    IF d.locations[k] = None \/ k \notin d.fports THEN d
    ELSE RemoveEgress(RemoveIngress(UninstallCommon(d, k, p, emit), k), p)

\* Mutant: the location is marked as old instead of being cleared.
UninstallRemoteMarks(d, k, p, emit) ==
    IF d.locations[k] = None THEN d ELSE [d EXCEPT !.locations[k] = "old"]

UninstallRemote(d, k, p, emit) ==
    IF d.locations[k] = None THEN d ELSE UninstallCommon(d, k, p, emit)

\* _uninstall_floatingip: the port may be gone already.
UninstallFloatingip(d, k, p) ==
    CASE IsLocal(d, p)  -> UninstallLocal(d, k, p, TRUE)
      [] IsRemote(d, p) -> UninstallRemote(d, k, p, TRUE)
      [] OTHER -> d

----------------------------------------------------------------------------
(* Events of ports: _local_port_bound, _remote_port_bound and the others.  *)
(* At most one floating IP is associated with a port.                      *)

FipsOf(d, p) == {k \in Fips : d.fips[k] = p}

Bind(d, p, o) ==
    IF FipsOf(d, p) = {} THEN d
    ELSE LET k == CHOOSE k \in FipsOf(d, p) : TRUE
         IN  IF o.place = "local" THEN InstallLocal(d, k)
             ELSE InstallRemote(d, k)

Unbind(d, p, o) ==
    IF FipsOf(d, p) = {} THEN d
    ELSE LET k == CHOOSE k \in FipsOf(d, p) : TRUE
         IN  IF o.place = "local" THEN UninstallLocal(d, k, p, TRUE)
             ELSE UninstallRemote(d, k, p, TRUE)

Update(d, p, o, orig) == d

\* The event of a floating port that is deleted: a marked one is ignored.
FloatingPortUnbound(d, k, local) ==
    CASE k \in d.in_process -> [d EXCEPT !.in_process = @ \ {k}]
      [] k \notin d.in_process /\ d.fips[k] \in Ports ->
            IF local THEN UninstallLocal(d, k, d.fips[k], FALSE)
            ELSE UninstallRemote(d, k, d.fips[k], FALSE)
      [] OTHER -> d

----------------------------------------------------------------------------
(* Steps. *)

SameHost(o, n) ==
    \/ n.place = o.place
    \/ o.place = "local" /\ n.place = "disabled"

UpdatePort(p, o) ==
    /\ o # node.lports[p] /\ o.place # "absent"
    /\ node' = PortUpdated(node, p, o, Bind, Update, Unbind)
    /\ moved' = IF Bound(node.lports[p]) /\ ~SameHost(node.lports[p], o)
                THEN moved \cup FipsOf(node, p) ELSE moved
    /\ early' = IF resync THEN early \cup FipsOf(node, p) ELSE early
    /\ UNCHANGED <<resync, switched, deleted>>

DeletePort(p) ==
    /\ node.lports[p] # Absent
    /\ node' = PortDeleted(node, p, Absent, Unbind)
    /\ UNCHANGED <<resync, switched, moved, early, deleted>>

Early(k, p) ==
    IF p \in Ports /\ (resync \/ node.lports[p].place = "disabled")
    THEN early \cup {k} ELSE early

\* A floating IP is created after the ports it refers to were cached.
CreateFip(k, p) ==
    /\ node.fips[k] = Gone /\ k \notin deleted
    /\ p # None => node.lports[p] # Absent /\ FipsOf(node, p) = {}
    /\ LET d == [node EXCEPT !.fips[k] = p, !.fports = @ \cup {k}]
       IN  node' = IF p = None THEN d ELSE InstallFloatingip(d, k)
    /\ early' = Early(k, p)
    /\ UNCHANGED <<resync, switched, moved, deleted>>

UpdateFip(k, p) ==
    /\ node.fips[k] \notin {Gone, p} /\ k \in node.fports
    /\ p # None => node.lports[p] # Absent /\ FipsOf(node, p) = {}
    /\ LET old == node.fips[k]
           d0  == [node EXCEPT !.fips[k] = p]
           d1  == IF old = None THEN d0 ELSE UninstallFloatingip(d0, k, old)
       IN  node' = IF p = None THEN d1 ELSE InstallFloatingip(d1, k)
    /\ early' = Early(k, p)
    /\ UNCHANGED <<resync, switched, moved, deleted>>

DeleteFip(k) ==
    /\ node.fips[k] # Gone
    /\ LET p == node.fips[k]
           d == IF p = None \/ k \notin node.fports THEN node
                ELSE UninstallFloatingip(node, k, p)
       IN  node' = [d EXCEPT !.fips[k] = Gone]
    /\ deleted' = deleted \cup {k}
    /\ UNCHANGED <<resync, switched, moved, early>>

\* The floating port goes before or after its floating IP.
DeleteFloatingPort(k) ==
    /\ k \in node.fports
    /\ LET d == CASE k \in node.f_local ->
                       FloatingPortUnbound([node EXCEPT !.f_local = @ \ {k}],
                                           k, TRUE)
                  [] k \notin node.f_local /\ k \in node.f_remote ->
                       FloatingPortUnbound([node EXCEPT !.f_remote = @ \ {k}],
                                           k, FALSE)
                  [] OTHER -> node
       IN  node' = [d EXCEPT !.fports = @ \ {k}]
    /\ deleted' = deleted \cup {k}
    /\ UNCHANGED <<resync, switched, moved, early>>

\* switch_features_handler after a restart of the switch: PortBindingApp
\* forgets the ports and resets the locations, DNATApp has no handler.
SwitchFeatures ==
    /\ ~switched /\ switched' = TRUE /\ resync' = TRUE
    /\ node' = [node EXCEPT !.bound = {}, !.f_local = {}, !.f_remote = {},
                  !.locations = [k \in Fips |-> None],
                  !.ingress = [k \in Fips |-> None],
                  !.egress = [p \in Ports |-> None]]
    /\ UNCHANGED <<moved, early, deleted>>

\* CONTROLLER_REINITIALIZE: ports are read again before floating IPs.
Reinitialize ==
    /\ resync /\ resync' = FALSE
    /\ node' = [node EXCEPT !.lports = [p \in Ports |-> Absent],
                            !.fips = [k \in Fips |-> Gone], !.fports = {}]
    /\ UNCHANGED <<switched, moved, early, deleted>>

Next ==
    \/ \E p \in Ports : \/ DeletePort(p)
                        \/ \E o \in Lports : UpdatePort(p, o)
    \/ \E k \in Fips :
         \/ \E p \in Ports \cup {None} : CreateFip(k, p) \/ UpdateFip(k, p)
         \/ DeleteFip(k) \/ DeleteFloatingPort(k)
    \/ SwitchFeatures \/ Reinitialize

Spec == Init /\ [][Next]_vars

----------------------------------------------------------------------------
(* Properties. *)

Associated(k) == node.fips[k] \in Ports /\ k \in node.fports
PlaceOf(k) == node.lports[node.fips[k]].place

\* While the cache has a floating IP of a port bound here, packets to and from
\* it are translated, and to no other port; a floating IP whose port is
\* elsewhere, or that has none, is not translated here.
Translated ==
    ~resync => \A k \in Fips \ early :
        /\ Associated(k) /\ PlaceOf(k) = "local" =>
             /\ node.ingress[k] = node.fips[k]
             /\ node.egress[node.fips[k]] = k
        /\ Associated(k) /\ PlaceOf(k) \in {"remote", "unbound"} =>
             node.ingress[k] = None /\ node.egress[node.fips[k]] # k

\* The port was not moved while bound, nor given the floating IP too early.
Steady(k) == k \notin moved \cup early

\* A floating port is bound, for the applications and in the locations, exactly
\* where the port of its floating IP is, whichever of the four goes first;
\* no mark is left that would make the application ignore its unbinding.
BindingFollows ==
    ~resync => \A k \in node.fports : Steady(k) =>
        /\ k \notin node.in_process
        /\ k \in node.f_local <=> node.locations[k] = "local"
        /\ k \in node.f_remote <=> node.locations[k] = "remote"
        /\ Associated(k) /\ PlaceOf(k) \in {"local", "remote"} =>
             node.locations[k] = PlaceOf(k)
        /\ node.fips[k] \in {Gone, None} => node.locations[k] = None

\* DNATApp keeps both promises at once: flows translate a floating IP, and its
\* floating port is bound, exactly where the port it is associated with is.
FloatingIpsFollow == Translated /\ BindingFollows
=============================================================================
