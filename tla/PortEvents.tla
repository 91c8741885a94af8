----------------------------- MODULE PortEvents -----------------------------
(***************************************************************************)
(* How PortBindingApp (controller/apps/portbinding.py) turns a change of a *)
(* cached logical port into the events the other applications register     *)
(* for: bind, update and unbind, of a local or of a remote port.           *)
(*                                                                         *)
(* d is the record of a node: d.lports are the cached ports and d.bound    *)
(* the ports PortBindingApp keeps as local or remote.  A port o has        *)
(* o.place: "absent" when it is not cached, "unbound" when it is disabled  *)
(* or has no binding, "local" or "remote".  The handlers of an application *)
(* are parameters, functions from nodes to nodes.                          *)
(***************************************************************************)

Places == {"absent", "unbound", "local", "remote"}
Bound(o) == o.place \in {"local", "remote"}

\* _port_update_unbind, where the port moved between here and elsewhere or was
\* disabled, and _port_update_bind (_port_created for a port not cached).
Leaves(o, orig) == Bound(orig) /\ orig.place # o.place
Arrives(o, orig) == Bound(o) /\ orig.place # o.place

\* The event of a port that leaves carries the port as it was.
PortUpdateUnbind(d, p, o, orig, Unbind(_, _, _)) ==
    IF Leaves(o, orig) THEN Unbind([d EXCEPT !.bound = @ \ {p}], p, orig) ELSE d

PortUpdateBind(d, p, o, orig, Bind(_, _, _)) ==
    IF Arrives(o, orig) THEN Bind([d EXCEPT !.bound = @ \cup {p}], p, o) ELSE d

\* update_model_object and _port_updated: the cache has the new port before
\* any event; only a port that is known as bound is updated.
PortUpdated(d, p, o, Bind(_, _, _), Update(_, _, _, _), Unbind(_, _, _)) ==
    LET orig == d.lports[p]
        d0 == [d EXCEPT !.lports[p] = o]
        d1 == PortUpdateUnbind(d0, p, o, orig, Unbind)
        d2 == IF p \in d1.bound THEN Update(d1, p, o, orig) ELSE d1
    IN  PortUpdateBind(d2, p, o, orig, Bind)

\* delete_model_object and _port_deleted: the port leaves the cache after
\* the event, which only a port known as bound causes.
PortDeleted(d, p, absent, Unbind(_, _, _)) ==
    LET orig == d.lports[p]
        d1 == IF p \in d.bound
              THEN Unbind([d EXCEPT !.bound = @ \ {p}], p, orig) ELSE d
    IN  [d1 EXCEPT !.lports[p] = absent]
=============================================================================
