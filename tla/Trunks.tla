------------------------------- MODULE Trunks -------------------------------
(***************************************************************************)
(* TrunkApp (controller/apps/trunk.py): a port nested in another one, its  *)
(* parent, by a VLAN, a MAC or an address.  Neutron does not bind the      *)
(* nested port; the application binds it where its parent is bound, with   *)
(* a location (controller/port_locator.py) and bind and unbind events, and *)
(* installs a flow that classifies packets from it and one that dispatches *)
(* packets to it through the parent.                                       *)
(*                                                                         *)
(* A child port segmentation (CPS) is the pair of both ports; a nested     *)
(* port has one at most, and so does a parent here.  Nested ports stay     *)
(* cached: Neutron does not delete the port of a trunk.                    *)
(***************************************************************************)
EXTENDS FiniteSets, PortEvents

CONSTANTS Parents, Children, None

VARIABLES
    node,
    early       \* history: children installed while the parent was disabled
vars == <<node, early>>

Absent == [place |-> "absent"]
Lports == [place : Places \cup {"disabled"}]    \* disabled, bound here

Nodes ==
    [lports : [Parents -> Lports],      \* db_store
     cps : [Children -> Parents \cup {None}],   \* db_store
     bound : SUBSET Parents,            \* PortBindingApp
     c_local : SUBSET Children,         \* children bound here, and elsewhere,
     c_remote : SUBSET Children,        \*   as the applications know them
     locations : SUBSET Children,       \* port_locator has a binding
     classify : SUBSET (Parents \X Children),      \* flows
     dispatch : [Children -> Parents \cup {None}]]   \* flows: to the parent

\* The cache, the locations and the flows keep their types.
TypeOK == node \in Nodes /\ early \subseteq Children

Empty ==
    [lports |-> [p \in Parents |-> Absent], cps |-> [c \in Children |-> None],
     bound |-> {}, c_local |-> {}, c_remote |-> {}, locations |-> {},
     classify |-> {}, dispatch |-> [c \in Children |-> None]]

Init == node = Empty /\ early = {}

----------------------------------------------------------------------------
(* Flows: install_classification_rule, install_dispatch_rule and their     *)
(* removals.  The dispatch rule is deleted, strictly, with a priority that *)
(* it was not installed with.                                              *)

InstallRules(d, c, p) ==
    [d EXCEPT !.classify = @ \cup {<<p, c>>}, !.dispatch[c] = p]
DeleteRules(d, c, p) == [d EXCEPT !.classify = @ \ {<<p, c>>}]

----------------------------------------------------------------------------
(* A nested port is installed and uninstalled. *)

InstallLocal(d, c, p) ==
    [InstallRules(d, c, p) EXCEPT !.locations = @ \cup {c},
                                  !.c_local = @ \cup {c}]

InstallRemote(d, c, p) ==
    [d EXCEPT !.locations = @ \cup {c}, !.c_remote = @ \cup {c}]

\* _uninstall_local_cps: the event, the location, which raises when there is
\* none, and the flows.
UninstallLocal(d, c, p) ==
    LET e == [d EXCEPT !.c_local = @ \ {c}, !.locations = @ \ {c}]
    IN  IF c \in d.locations THEN DeleteRules(e, c, p) ELSE e

UninstallRemote(d, c, p) ==
    [d EXCEPT !.c_remote = @ \ {c}, !.locations = @ \ {c}]

\* The binding of the parent decides, whether it is enabled or not.
Install(d, c, p) ==
    CASE d.lports[p].place \in {"local", "disabled"} -> InstallLocal(d, c, p)
      [] d.lports[p].place = "remote" -> InstallRemote(d, c, p)
      [] OTHER -> d
Uninstall(d, c, p) ==
    CASE d.lports[p].place \in {"local", "disabled"} -> UninstallLocal(d, c, p)
      [] d.lports[p].place = "remote" -> UninstallRemote(d, c, p)
      [] OTHER -> d

----------------------------------------------------------------------------
(* Handlers of the events of parents: _local_port_bound and the others. *)

ChildrenOf(d, p) == {c \in Children : d.cps[c] = p}
ChildOf(d, p) == CHOOSE c \in Children : d.cps[c] = p

Bind(d, p, o) ==
    CASE ChildrenOf(d, p) = {} -> d
      [] ChildrenOf(d, p) # {} /\ o.place = "local" ->
            InstallLocal(d, ChildOf(d, p), p)
      [] OTHER -> InstallRemote(d, ChildOf(d, p), p)

\* Mutant: where the parent is now decides what is undone.
UnbindWhereItIs(d, p, o) ==
    IF ChildrenOf(d, p) = {} THEN d ELSE Uninstall(d, ChildOf(d, p), p)

Unbind(d, p, o) ==
    CASE ChildrenOf(d, p) = {} -> d
      [] ChildrenOf(d, p) # {} /\ o.place = "local" ->
            UninstallLocal(d, ChildOf(d, p), p)
      [] OTHER -> UninstallRemote(d, ChildOf(d, p), p)

Update(d, p, o, orig) == d

----------------------------------------------------------------------------
(* Steps. *)

UpdatePort(p, o) ==
    /\ o # node.lports[p] /\ o # Absent
    /\ node' = PortUpdated(node, p, o, Bind, Update, Unbind)
    /\ UNCHANGED early

DeletePort(p) ==
    /\ node.lports[p] # Absent
    /\ node' = PortDeleted(node, p, Absent, Unbind)
    /\ UNCHANGED early

\* _child_port_segmentation_created: its ports were cached before it.
CreateCps(c, p) ==
    /\ node.cps[c] = None /\ ChildrenOf(node, p) = {}
    /\ node.lports[p] # Absent
    /\ node' = Install([node EXCEPT !.cps[c] = p], c, p)
    /\ early' = IF node.lports[p].place = "disabled" THEN early \cup {c}
                ELSE early

\* _child_port_segmentation_deleted: nothing is done when the parent is gone.
DeleteCps(c) ==
    /\ node.cps[c] # None
    /\ node' = [Uninstall(node, c, node.cps[c]) EXCEPT !.cps[c] = None]
    /\ UNCHANGED early

\* The switch restarts: locations and bindings are forgotten and the cache is
\* read again.
Restart == node' = Empty /\ early' = {}

Next ==
    \/ \E p \in Parents : DeletePort(p) \/ \E o \in Lports : UpdatePort(p, o)
    \/ \E c \in Children : DeleteCps(c) \/ \E p \in Parents : CreateCps(c, p)
    \/ Restart

Spec == Init /\ [][Next]_vars

----------------------------------------------------------------------------
(* Properties. *)

\* A nested port is bound exactly where its parent is bound, for all
\* applications, whichever of the port, its parent and the segmentation comes
\* or goes first, and however the parent moves.
ChildFollowsParent ==
    \A c \in Children \ early :
        LET place == IF node.cps[c] = None THEN "absent"
                     ELSE node.lports[node.cps[c]].place
        IN  /\ c \in node.c_local <=> place = "local"
            /\ c \in node.c_remote <=> place = "remote"
            /\ c \in node.locations <=> place \in {"local", "remote"}

\* Packets of a local parent are classified as its nested port's, and packets
\* to a nested port bound here leave through its parent of now.
NestedPackets ==
    \A c \in Children \ early :
        /\ \A p \in Parents : <<p, c>> \in node.classify <=>
             node.cps[c] = p /\ node.lports[p].place = "local"
        /\ c \in node.c_local => node.dispatch[c] = node.cps[c]

\* TrunkApp's bindings and flows of nested ports follow their parents.
NestedPortsFollow == ChildFollowsParent /\ NestedPackets
=============================================================================
