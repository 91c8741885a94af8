-------------------------- MODULE PortAppsProofs --------------------------
(***************************************************************************)
(* Proofs about PortApps: the types of the node's state, and FlowsFollow.  *)
(*                                                                         *)
(* A lemma for every handler says what it changes in the record of the     *)
(* node (its Post), and what it leaves alone (Frame).  With these, the     *)
(* events of a port are shown to keep two things: that the lists and flows *)
(* of a port agree with the sets of PortBindingApp (PortOK), and that the  *)
(* flows of a network agree with its ports (NetLocal, NetBum).  The second *)
(* needs the first for all ports of the network, as handlers decide by the *)
(* length of a list whether to add, to modify or to delete.  An update     *)
(* unbinds the port after its new object is cached, so that in between     *)
(* the broadcast of its network is not that of the cache (BumPresent).     *)
(***************************************************************************)
EXTENDS PortApps, TLAPS

----------------------------------------------------------------------------
(* What the handlers change. *)

SameCache(d, r) == r.lports = d.lports /\ r.chassis = d.chassis
SameBindings(d, r) ==
    r.local_ports = d.local_ports /\ r.remote_ports = d.remote_ports
SameL2(d, r) == /\ r.l2_local = d.l2_local /\ r.dst = d.dst
                /\ r.in_dst = d.in_dst /\ r.bcast = d.bcast
SameTun(d, r) == /\ r.tun_local = d.tun_local /\ r.tun_remote = d.tun_remote
                 /\ r.bum = d.bum /\ r.tun_in = d.tun_in
SameProv(d, r) == r.prov_local = d.prov_local /\ r.prov = d.prov

\* Functions that differ at x only.
SameBut(f, g, S, x) == \A y \in S \ {x} : g[y] = f[y]

One(b) == IF b THEN 1 ELSE 0

\* Ports of a network.
Of(S, n) == {p \in S : NetOf[p] = n}

L2BindLocalPost(d, p, r) ==
    /\ r \in Nodes /\ SameCache(d, r) /\ SameBindings(d, r)
    /\ SameTun(d, r) /\ SameProv(d, r)
    /\ r.l2_local = d.l2_local \cup {p}
    /\ r.dst = d.dst \cup {p} /\ r.in_dst = d.in_dst \cup {p}
    /\ r.egress[p] = "local" /\ SameBut(d.egress, r.egress, Ports, p)
    /\ SameBut(d.bcast, r.bcast, Nets, NetOf[p])
    /\ r.bcast[NetOf[p]] =
         IF Of(d.l2_local, NetOf[p]) # {} /\ d.bcast[NetOf[p]] = None
         THEN None ELSE {p} \cup Cached(d, Of(d.l2_local, NetOf[p]))

\* _add_local_port of L2App has this effect.
LEMMA L2BindLocalFields ==
  ASSUME NEW d \in Nodes, NEW p \in Ports, NEW r, r = L2BindLocal(d, p)
  PROVE  L2BindLocalPost(d, p, r)
<1> USE DEF L2BindLocalPost
<1> DEFINE others == Of(d.l2_local, NetOf[p])
           new == {p} \cup Cached(d, others)
           flow == IF others # {} /\ d.bcast[NetOf[p]] = None THEN None ELSE new
           ds == d.dst \cup {p}
           in == d.in_dst \cup {p}
           ll == d.l2_local \cup {p}
           eg == [d.egress EXCEPT ![p] = "local"]
           bc == [d.bcast EXCEPT ![NetOf[p]] = flow]
<1>1. new \in SUBSET Ports /\ NetOf[p] \in Nets
  BY NetsAssumption DEF Nodes, Cached, Of
<1>2. flow = ModFlow(d.bcast[NetOf[p]], IF others = {} THEN "ADD" ELSE "MODIFY", new)
  BY DEF ModFlow
<1>3. r = [d EXCEPT !.dst = ds, !.in_dst = in, !.egress = eg, !.l2_local = ll,
                    !.bcast = bc]
  BY <1>2, Zenon DEF L2BindLocal, Nodes, Of
<1>4. eg \in [Ports -> Ips \cup {None, "local"}]
  BY DEF Nodes
<1>5. bc \in [Nets -> (SUBSET Ports) \cup {None}]
  BY <1>1 DEF Nodes
<1>6. ds \in SUBSET Ports /\ in \in SUBSET Ports /\ ll \in SUBSET Ports
  BY DEF Nodes
<1>7. /\ eg[p] = "local" /\ SameBut(d.egress, eg, Ports, p)
      /\ bc[NetOf[p]] = flow /\ SameBut(d.bcast, bc, Nets, NetOf[p])
  BY <1>1 DEF Nodes, SameBut
<1> HIDE DEF ds, in, ll, eg, bc, flow, others, new
<1>8. /\ r \in Nodes /\ SameCache(d, r) /\ SameBindings(d, r)
      /\ SameTun(d, r) /\ SameProv(d, r)
      /\ r.dst = ds /\ r.in_dst = in /\ r.egress = eg /\ r.l2_local = ll
      /\ r.bcast = bc
  BY <1>3, <1>4, <1>5, <1>6, ZenonT(60)
     DEF Nodes, SameCache, SameBindings, SameTun, SameProv
<1>9. QED
  BY <1>7, <1>8 DEF ds, in, ll, flow, others, new

L2UnbindLocalPost(d, p, r) ==
    /\ r \in Nodes /\ SameCache(d, r) /\ SameBindings(d, r)
    /\ SameTun(d, r) /\ SameProv(d, r)
    /\ r.l2_local = d.l2_local \ {p}
    /\ r.dst = d.dst \ {p} /\ r.in_dst = d.in_dst \ {p}
    /\ r.egress[p] = None /\ SameBut(d.egress, r.egress, Ports, p)
    /\ SameBut(d.bcast, r.bcast, Nets, NetOf[p])
    /\ p \in d.l2_local => r.bcast[NetOf[p]] =
         IF \/ Of(d.l2_local \ {p}, NetOf[p]) = {}
            \/ d.bcast[NetOf[p]] = None
         THEN None ELSE Cached(d, Of(d.l2_local \ {p}, NetOf[p]))

\* _remove_local_port of L2App has this effect.
LEMMA L2UnbindLocalFields ==
  ASSUME NEW d \in Nodes, NEW p \in Ports, NEW r, r = L2UnbindLocal(d, p)
  PROVE  L2UnbindLocalPost(d, p, r)
<1> USE DEF L2UnbindLocalPost
<1> DEFINE others == Of(d.l2_local \ {p}, NetOf[p])
           new == Cached(d, others)
           flow == IF p \notin d.l2_local THEN d.bcast[NetOf[p]]
                   ELSE IF others = {} \/ d.bcast[NetOf[p]] = None THEN None
                   ELSE new
           ds == d.dst \ {p}
           in == d.in_dst \ {p}
           ll == d.l2_local \ {p}
           eg == [d.egress EXCEPT ![p] = None]
           bc == [d.bcast EXCEPT ![NetOf[p]] = flow]
<1>1. new \in SUBSET Ports /\ NetOf[p] \in Nets
  BY NetsAssumption DEF Nodes, Cached, Of
<1>2. flow = IF p \notin d.l2_local THEN d.bcast[NetOf[p]]
             ELSE ModFlow(d.bcast[NetOf[p]],
                          IF others = {} THEN "DELETE" ELSE "MODIFY", new)
  BY DEF ModFlow
<1>3. r = [d EXCEPT !.dst = ds, !.in_dst = in, !.egress = eg, !.l2_local = ll,
                    !.bcast = bc]
  BY <1>2, Zenon DEF L2UnbindLocal, Nodes, Of
<1>4. eg \in [Ports -> Ips \cup {None, "local"}]
  BY DEF Nodes
<1>5. bc \in [Nets -> (SUBSET Ports) \cup {None}]
  BY <1>1, Zenon DEF Nodes
<1>6. ds \in SUBSET Ports /\ in \in SUBSET Ports /\ ll \in SUBSET Ports
  BY DEF Nodes
<1>7. /\ eg[p] = None /\ SameBut(d.egress, eg, Ports, p)
      /\ bc[NetOf[p]] = flow /\ SameBut(d.bcast, bc, Nets, NetOf[p])
  BY <1>1, SMTT(30) DEF Nodes, SameBut
<1> HIDE DEF ds, in, ll, eg, bc, flow, others, new
<1>8. /\ r \in Nodes /\ SameCache(d, r) /\ SameBindings(d, r)
      /\ SameTun(d, r) /\ SameProv(d, r)
      /\ r.dst = ds /\ r.in_dst = in /\ r.egress = eg /\ r.l2_local = ll
      /\ r.bcast = bc
  BY <1>3, <1>4, <1>5, <1>6, ZenonT(60)
     DEF Nodes, SameCache, SameBindings, SameTun, SameProv
<1>9. QED
  BY <1>7, <1>8 DEF ds, in, ll, flow, others, new

TunBindLocalPost(d, p, r) ==
    /\ r \in Nodes /\ SameCache(d, r) /\ SameBindings(d, r)
    /\ SameL2(d, r) /\ SameProv(d, r) /\ r.egress = d.egress
    /\ r.tun_remote = d.tun_remote /\ r.bum = d.bum
    /\ SameBut(d.tun_local, r.tun_local, Ports, p)
    /\ r.tun_local[p] = d.tun_local[p] + One(NetOf[p] \in tunneled)
    /\ r.tun_in = IF NetOf[p] \in tunneled /\ NoPort(d.tun_local, NetOf[p])
                  THEN d.tun_in \cup {NetOf[p]} ELSE d.tun_in

\* _add_local_port of TunnelingApp has this effect.
LEMMA TunBindLocalFields ==
  ASSUME NEW d \in Nodes, NEW p \in Ports, NEW r, r = TunBindLocal(d, p)
  PROVE  TunBindLocalPost(d, p, r)
<1> USE DEF TunBindLocalPost
<1>1. CASE NetOf[p] \notin tunneled
  BY <1>1 DEF TunBindLocal, Nodes, SameCache, SameBindings, SameL2, SameProv,
              SameBut, One
<1>2. CASE NetOf[p] \in tunneled
  <2> DEFINE tl == [d.tun_local EXCEPT ![p] = @ + 1]
             ti == IF NoPort(d.tun_local, NetOf[p]) THEN d.tun_in \cup {NetOf[p]}
                   ELSE d.tun_in
  <2>1. r = [d EXCEPT !.tun_in = ti, !.tun_local = tl]
    BY <1>2 DEF TunBindLocal, Nodes
  <2>2. tl \in [Ports -> Nat] /\ ti \in SUBSET Nets
    BY NetsAssumption DEF Nodes
  <2>3. tl[p] = d.tun_local[p] + 1 /\ SameBut(d.tun_local, tl, Ports, p)
    BY DEF Nodes, SameBut
  <2> HIDE DEF tl, ti
  <2>4. /\ r \in Nodes /\ SameCache(d, r) /\ SameBindings(d, r)
        /\ SameL2(d, r) /\ SameProv(d, r) /\ r.egress = d.egress
        /\ r.tun_remote = d.tun_remote /\ r.bum = d.bum
        /\ r.tun_local = tl /\ r.tun_in = ti
    BY <2>1, <2>2, Zenon DEF Nodes, SameCache, SameBindings, SameL2, SameProv
  <2>5. QED
    BY <1>2, <2>3, <2>4 DEF ti, One
<1>3. QED
  BY <1>1, <1>2

TunUnbindLocalPost(d, p, r) ==
    /\ r \in Nodes /\ SameCache(d, r) /\ SameBindings(d, r)
    /\ SameL2(d, r) /\ SameProv(d, r) /\ r.egress = d.egress
    /\ r.tun_remote = d.tun_remote /\ r.bum = d.bum
    /\ SameBut(d.tun_local, r.tun_local, Ports, p)
    /\ r.tun_local[p] = IF NetOf[p] \notin tunneled \/ d.tun_local[p] = 0
                        THEN d.tun_local[p] ELSE d.tun_local[p] - 1
    /\ r.tun_in = IF NetOf[p] \in tunneled /\ NoPort(r.tun_local, NetOf[p])
                  THEN d.tun_in \ {NetOf[p]} ELSE d.tun_in

\* _remove_local_port of TunnelingApp has this effect.
LEMMA TunUnbindLocalFields ==
  ASSUME NEW d \in Nodes, NEW p \in Ports, NEW r, r = TunUnbindLocal(d, p)
  PROVE  TunUnbindLocalPost(d, p, r)
<1> USE DEF TunUnbindLocalPost
<1>1. CASE NetOf[p] \notin tunneled
  BY <1>1 DEF TunUnbindLocal, Nodes, SameCache, SameBindings, SameL2, SameProv,
              SameBut
<1>2. CASE NetOf[p] \in tunneled
  <2> DEFINE tl == [d.tun_local EXCEPT ![p] = IF @ = 0 THEN 0 ELSE @ - 1]
             ti == IF NoPort(tl, NetOf[p]) THEN d.tun_in \ {NetOf[p]}
                   ELSE d.tun_in
  <2>1. r = [d EXCEPT !.tun_local = tl, !.tun_in = ti]
    BY <1>2 DEF TunUnbindLocal, Nodes
  <2>2. tl \in [Ports -> Nat] /\ ti \in SUBSET Nets
    BY DEF Nodes
  <2>3. /\ tl[p] = IF d.tun_local[p] = 0 THEN d.tun_local[p] ELSE d.tun_local[p] - 1
        /\ SameBut(d.tun_local, tl, Ports, p)
    BY DEF Nodes, SameBut
  <2> HIDE DEF tl, ti
  <2>4. /\ r \in Nodes /\ SameCache(d, r) /\ SameBindings(d, r)
        /\ SameL2(d, r) /\ SameProv(d, r) /\ r.egress = d.egress
        /\ r.tun_remote = d.tun_remote /\ r.bum = d.bum
        /\ r.tun_local = tl /\ r.tun_in = ti
    BY <2>1, <2>2, Zenon DEF Nodes, SameCache, SameBindings, SameL2, SameProv
  <2>5. QED
    BY <1>2, <2>3, <2>4 DEF ti
<1>3. QED
  BY <1>1, <1>2

ProvBindLocalPost(d, p, r) ==
    /\ r \in Nodes /\ SameCache(d, r) /\ SameBindings(d, r)
    /\ SameL2(d, r) /\ r.egress = d.egress
    /\ SameTun(d, r)
    /\ SameBut(d.prov_local, r.prov_local, Ports, p)
    /\ r.prov_local[p] = d.prov_local[p] + One(NetOf[p] \notin tunneled)
    /\ r.prov = IF NetOf[p] \notin tunneled /\ NoPort(d.prov_local, NetOf[p])
                  THEN d.prov \cup {NetOf[p]} ELSE d.prov

\* _add_local_port of ProviderApp has this effect.
LEMMA ProvBindLocalFields ==
  ASSUME NEW d \in Nodes, NEW p \in Ports, NEW r, r = ProvBindLocal(d, p)
  PROVE  ProvBindLocalPost(d, p, r)
<1> USE DEF ProvBindLocalPost
<1>1. CASE NetOf[p] \in tunneled
  BY <1>1 DEF ProvBindLocal, Nodes, SameCache, SameBindings, SameL2, SameTun,
              SameBut, One
<1>2. CASE NetOf[p] \notin tunneled
  <2> DEFINE pl == [d.prov_local EXCEPT ![p] = @ + 1]
             pr == IF NoPort(d.prov_local, NetOf[p]) THEN d.prov \cup {NetOf[p]}
                   ELSE d.prov
  <2>1. r = [d EXCEPT !.prov = pr, !.prov_local = pl]
    BY <1>2 DEF ProvBindLocal, Nodes
  <2>2. pl \in [Ports -> Nat] /\ pr \in SUBSET Nets
    BY NetsAssumption DEF Nodes
  <2>3. pl[p] = d.prov_local[p] + 1 /\ SameBut(d.prov_local, pl, Ports, p)
    BY DEF Nodes, SameBut
  <2> HIDE DEF pl, pr
  <2>4. /\ r \in Nodes /\ SameCache(d, r) /\ SameBindings(d, r)
        /\ SameL2(d, r) /\ r.egress = d.egress
        /\ SameTun(d, r)
        /\ r.prov_local = pl /\ r.prov = pr
    BY <2>1, <2>2, Zenon DEF Nodes, SameCache, SameBindings, SameL2, SameTun
  <2>5. QED
    BY <1>2, <2>3, <2>4 DEF pr, One
<1>3. QED
  BY <1>1, <1>2

ProvUnbindLocalPost(d, p, r) ==
    /\ r \in Nodes /\ SameCache(d, r) /\ SameBindings(d, r)
    /\ SameL2(d, r) /\ r.egress = d.egress
    /\ SameTun(d, r)
    /\ SameBut(d.prov_local, r.prov_local, Ports, p)
    /\ r.prov_local[p] = IF NetOf[p] \in tunneled \/ d.prov_local[p] = 0
                        THEN d.prov_local[p] ELSE d.prov_local[p] - 1
    /\ r.prov = IF NetOf[p] \notin tunneled /\ NoPort(r.prov_local, NetOf[p])
                  THEN d.prov \ {NetOf[p]} ELSE d.prov

\* _remove_local_port of ProviderApp has this effect.
LEMMA ProvUnbindLocalFields ==
  ASSUME NEW d \in Nodes, NEW p \in Ports, NEW r, r = ProvUnbindLocal(d, p)
  PROVE  ProvUnbindLocalPost(d, p, r)
<1> USE DEF ProvUnbindLocalPost
<1>1. CASE NetOf[p] \in tunneled
  BY <1>1 DEF ProvUnbindLocal, Nodes, SameCache, SameBindings, SameL2, SameTun,
              SameBut
<1>2. CASE NetOf[p] \notin tunneled
  <2> DEFINE pl == [d.prov_local EXCEPT ![p] = IF @ = 0 THEN 0 ELSE @ - 1]
             pr == IF NoPort(pl, NetOf[p]) THEN d.prov \ {NetOf[p]}
                   ELSE d.prov
  <2>1. r = [d EXCEPT !.prov_local = pl, !.prov = pr]
    BY <1>2 DEF ProvUnbindLocal, Nodes
  <2>2. pl \in [Ports -> Nat] /\ pr \in SUBSET Nets
    BY DEF Nodes
  <2>3. /\ pl[p] = IF d.prov_local[p] = 0 THEN d.prov_local[p] ELSE d.prov_local[p] - 1
        /\ SameBut(d.prov_local, pl, Ports, p)
    BY DEF Nodes, SameBut
  <2> HIDE DEF pl, pr
  <2>4. /\ r \in Nodes /\ SameCache(d, r) /\ SameBindings(d, r)
        /\ SameL2(d, r) /\ r.egress = d.egress
        /\ SameTun(d, r)
        /\ r.prov_local = pl /\ r.prov = pr
    BY <2>1, <2>2, Zenon DEF Nodes, SameCache, SameBindings, SameL2, SameTun
  <2>5. QED
    BY <1>2, <2>3, <2>4 DEF pr
<1>3. QED
  BY <1>1, <1>2

\* _modify_egress_bum_flow touches the broadcast of the network only.
LEMMA BumFields ==
  ASSUME NEW d \in Nodes, NEW n \in Nets, NEW command \in {"ADD", "MODIFY"},
         NEW r, r = ModifyEgressBumFlow(d, n, command)
  PROVE  /\ r \in Nodes /\ SameCache(d, r) /\ SameBindings(d, r)
         /\ SameL2(d, r) /\ SameProv(d, r) /\ r.egress = d.egress
         /\ r.tun_local = d.tun_local /\ r.tun_remote = d.tun_remote
         /\ r.tun_in = d.tun_in /\ SameBut(d.bum, r.bum, Nets, n)
         /\ NoPort(d.tun_remote, n) => r.bum[n] = None
         /\ /\ ~NoPort(d.tun_remote, n) /\ ~BumRaises(d, n)
            /\ \/ command = "ADD" /\ OnePort(d.tun_remote, n)
               \/ d.bum[n] # None
            => r.bum[n] = BumActions(d, n)
<1>1. CASE ~NoPort(d.tun_remote, n) /\ BumRaises(d, n)
  BY <1>1 DEF ModifyEgressBumFlow, SameCache, SameBindings, SameL2, SameProv, SameBut
<1>2. CASE NoPort(d.tun_remote, n) \/ ~BumRaises(d, n)
  <2> DEFINE flow == IF NoPort(d.tun_remote, n) THEN None
                     ELSE IF \/ command = "ADD" /\ OnePort(d.tun_remote, n)
                             \/ d.bum[n] # None
                     THEN BumActions(d, n) ELSE None
             bu == [d.bum EXCEPT ![n] = flow]
  <2>1. ~BumRaises(d, n) => BumActions(d, n) \in SUBSET Ips
    <3> SUFFICES ASSUME ~BumRaises(d, n), NEW p \in BumPorts(d, n)
                 PROVE  d.chassis[d.lports[p].chassis] \in Ips
      BY DEF BumActions
    <3>1. p \in Ports /\ d.lports[p] # None
      BY DEF BumPorts, Cached
    <3>2. d.lports[p].chassis # None /\ d.chassis[d.lports[p].chassis] # None
      BY DEF BumRaises
    <3>3. d.lports[p] \in Lports
      BY <3>1 DEF Nodes
    <3>4. d.lports[p].chassis \in Chassis
      BY <3>2, <3>3 DEF Lports
    <3>5. QED
      BY <3>2, <3>4 DEF Nodes
  <2>2. NoPort(d.tun_remote, n) \/ flow = ModFlow(d.bum[n],
            IF OnePort(d.tun_remote, n) THEN command ELSE "MODIFY", BumActions(d, n))
    BY DEF ModFlow
  <2>3. r = [d EXCEPT !.bum = bu]
    BY <1>2, <2>2 DEF ModifyEgressBumFlow, Nodes
  <2>4. flow \in (SUBSET Ips) \cup {None}
    BY <1>2, <2>1
  <2>5. bu \in [Nets -> (SUBSET Ips) \cup {None}]
    BY <2>4 DEF Nodes
  <2>6. bu[n] = flow /\ SameBut(d.bum, bu, Nets, n)
    BY DEF Nodes, SameBut
  <2> HIDE DEF flow, bu
  <2>7. /\ r \in Nodes /\ SameCache(d, r) /\ SameBindings(d, r)
        /\ SameL2(d, r) /\ SameProv(d, r) /\ r.egress = d.egress
        /\ r.tun_local = d.tun_local /\ r.tun_remote = d.tun_remote
        /\ r.tun_in = d.tun_in /\ r.bum = bu
    BY <2>3, <2>5 DEF Nodes, SameCache, SameBindings, SameL2, SameProv
  <2>8. QED
    BY <2>6, <2>7 DEF flow
<1>3. QED
  BY <1>1, <1>2

\* What a broadcast to other nodes is made from.
LEMMA BumSame ==
  ASSUME NEW d, NEW r, NEW n, SameCache(d, r), r.tun_remote = d.tun_remote
  PROVE  /\ BumPorts(r, n) = BumPorts(d, n)
         /\ BumRaises(r, n) <=> BumRaises(d, n)
         /\ BumActions(r, n) = BumActions(d, n)
  BY DEF SameCache, BumPorts, Cached, BumRaises, BumActions

TunBindRemotePost(d, p, c, r) ==
    /\ r \in Nodes /\ SameCache(d, r) /\ SameBindings(d, r)
    /\ SameL2(d, r) /\ SameProv(d, r)
    /\ r.tun_local = d.tun_local /\ r.tun_in = d.tun_in
    /\ SameBut(d.egress, r.egress, Ports, p)
    /\ SameBut(d.tun_remote, r.tun_remote, Ports, p)
    /\ SameBut(d.bum, r.bum, Nets, NetOf[p])
    /\ NetOf[p] \notin tunneled \/ d.chassis[c] = None => r = d
    /\ NetOf[p] \in tunneled /\ d.chassis[c] # None =>
         /\ r.egress[p] = d.chassis[c]
         /\ r.tun_remote[p] = d.tun_remote[p] + 1
         /\ /\ ~BumRaises(r, NetOf[p])
            /\ OnePort(r.tun_remote, NetOf[p]) \/ d.bum[NetOf[p]] # None
            => r.bum[NetOf[p]] = BumActions(r, NetOf[p])

\* _add_remote_port of TunnelingApp has this effect.
LEMMA TunBindRemoteFields ==
  ASSUME NEW d \in Nodes, NEW p \in Ports, NEW c \in Chassis,
         NEW r, r = TunBindRemote(d, p, c)
  PROVE  TunBindRemotePost(d, p, c, r)
<1> USE DEF TunBindRemotePost
<1>1. CASE NetOf[p] \notin tunneled \/ d.chassis[c] = None
  BY <1>1 DEF TunBindRemote, SameCache, SameBindings, SameL2, SameProv, SameBut
<1>2. CASE NetOf[p] \in tunneled /\ d.chassis[c] # None
  <2> DEFINE eg == [d.egress EXCEPT ![p] = d.chassis[c]]
             tr == [d.tun_remote EXCEPT ![p] = @ + 1]
             e == [d EXCEPT !.egress = eg, !.tun_remote = tr]
             n == NetOf[p]
  <2>1. r = ModifyEgressBumFlow(e, n, "ADD")
    BY <1>2 DEF TunBindRemote, Nodes
  <2>2. eg \in [Ports -> Ips \cup {None, "local"}] /\ tr \in [Ports -> Nat]
    BY DEF Nodes
  <2>3. /\ eg[p] = d.chassis[c] /\ SameBut(d.egress, eg, Ports, p)
        /\ tr[p] = d.tun_remote[p] + 1 /\ tr[p] # 0
        /\ SameBut(d.tun_remote, tr, Ports, p)
    BY DEF Nodes, SameBut
  <2> HIDE DEF eg, tr
  <2>4. /\ e \in Nodes /\ SameCache(d, e) /\ SameBindings(d, e)
        /\ SameL2(d, e) /\ SameProv(d, e) /\ e.egress = eg /\ e.tun_remote = tr
        /\ e.tun_local = d.tun_local /\ e.tun_in = d.tun_in /\ e.bum = d.bum
    BY <2>2, Zenon DEF Nodes, SameCache, SameBindings, SameL2, SameProv
  <2> HIDE DEF e
  <2>5. n \in Nets
    BY NetsAssumption
  <2>6. ~NoPort(tr, n)
    BY <2>3 DEF NoPort
  <2> HIDE DEF n
  <2>7. /\ r \in Nodes /\ SameCache(e, r) /\ SameBindings(e, r)
        /\ SameL2(e, r) /\ SameProv(e, r) /\ r.egress = e.egress
        /\ r.tun_local = e.tun_local /\ r.tun_remote = e.tun_remote
        /\ r.tun_in = e.tun_in /\ SameBut(e.bum, r.bum, Nets, n)
        /\ ~BumRaises(e, n) /\ (OnePort(e.tun_remote, n) \/ e.bum[n] # None)
           => r.bum[n] = BumActions(e, n)
    BY <2>1, <2>4, <2>5, <2>6, BumFields
  <2>8. /\ BumRaises(r, n) <=> BumRaises(e, n)
        /\ BumActions(r, n) = BumActions(e, n)
    BY <2>7, BumSame
  <2>9. QED
    BY <1>2, <2>3, <2>4, <2>7, <2>8 DEF n, SameCache, SameBindings, SameL2, SameProv
<1>3. QED
  BY <1>1, <1>2

TunUnbindRemotePost(d, p, r) ==
    /\ r \in Nodes /\ SameCache(d, r) /\ SameBindings(d, r)
    /\ SameL2(d, r) /\ SameProv(d, r)
    /\ r.tun_local = d.tun_local /\ r.tun_in = d.tun_in
    /\ SameBut(d.egress, r.egress, Ports, p)
    /\ SameBut(d.tun_remote, r.tun_remote, Ports, p)
    /\ SameBut(d.bum, r.bum, Nets, NetOf[p])
    /\ NetOf[p] \notin tunneled => r = d
    /\ NetOf[p] \in tunneled =>
         /\ r.egress[p] = None
         /\ r.tun_remote[p] = IF d.tun_remote[p] = 0 THEN 0
                              ELSE d.tun_remote[p] - 1
         /\ NoPort(r.tun_remote, NetOf[p]) => r.bum[NetOf[p]] = None
         /\ /\ ~NoPort(r.tun_remote, NetOf[p]) /\ ~BumRaises(r, NetOf[p])
            /\ d.bum[NetOf[p]] # None
            => r.bum[NetOf[p]] = BumActions(r, NetOf[p])

\* remove_remote_port of TunnelingApp has this effect.
LEMMA TunUnbindRemoteFields ==
  ASSUME NEW d \in Nodes, NEW p \in Ports, NEW r, r = TunUnbindRemote(d, p)
  PROVE  TunUnbindRemotePost(d, p, r)
<1> USE DEF TunUnbindRemotePost
<1>1. CASE NetOf[p] \notin tunneled
  BY <1>1 DEF TunUnbindRemote, SameCache, SameBindings, SameL2, SameProv, SameBut
<1>2. CASE NetOf[p] \in tunneled
  <2> DEFINE eg == [d.egress EXCEPT ![p] = None]
             tr == [d.tun_remote EXCEPT ![p] = IF @ = 0 THEN 0 ELSE @ - 1]
             e == [d EXCEPT !.egress = eg, !.tun_remote = tr]
             n == NetOf[p]
  <2>1. r = ModifyEgressBumFlow(e, n, "MODIFY")
    BY <1>2 DEF TunUnbindRemote, Nodes
  <2>2. eg \in [Ports -> Ips \cup {None, "local"}] /\ tr \in [Ports -> Nat]
    BY DEF Nodes
  <2>3. /\ eg[p] = None /\ SameBut(d.egress, eg, Ports, p)
        /\ tr[p] = IF d.tun_remote[p] = 0 THEN 0 ELSE d.tun_remote[p] - 1
        /\ SameBut(d.tun_remote, tr, Ports, p)
    BY DEF Nodes, SameBut
  <2> HIDE DEF eg, tr
  <2>4. /\ e \in Nodes /\ SameCache(d, e) /\ SameBindings(d, e)
        /\ SameL2(d, e) /\ SameProv(d, e) /\ e.egress = eg /\ e.tun_remote = tr
        /\ e.tun_local = d.tun_local /\ e.tun_in = d.tun_in /\ e.bum = d.bum
    BY <2>2, Zenon DEF Nodes, SameCache, SameBindings, SameL2, SameProv
  <2> HIDE DEF e
  <2>5. n \in Nets
    BY NetsAssumption
  <2> HIDE DEF n
  <2>6. /\ r \in Nodes /\ SameCache(e, r) /\ SameBindings(e, r)
        /\ SameL2(e, r) /\ SameProv(e, r) /\ r.egress = e.egress
        /\ r.tun_local = e.tun_local /\ r.tun_remote = e.tun_remote
        /\ r.tun_in = e.tun_in /\ SameBut(e.bum, r.bum, Nets, n)
        /\ NoPort(e.tun_remote, n) => r.bum[n] = None
        /\ ~NoPort(e.tun_remote, n) /\ ~BumRaises(e, n) /\ e.bum[n] # None
           => r.bum[n] = BumActions(e, n)
    BY <2>1, <2>4, <2>5, BumFields
  <2>7. /\ BumRaises(r, n) <=> BumRaises(e, n)
        /\ BumActions(r, n) = BumActions(e, n)
    BY <2>6, BumSame
  <2>8. QED
    BY <1>2, <2>3, <2>4, <2>6, <2>7 DEF n, SameCache, SameBindings, SameL2, SameProv
<1>3. QED
  BY <1>1, <1>2

BindLocalPost(d, p, r) ==
    /\ r \in Nodes /\ SameCache(d, r)
    /\ r.local_ports = d.local_ports \cup {p}
    /\ r.remote_ports = d.remote_ports
    /\ r.l2_local = d.l2_local \cup {p}
    /\ r.dst = d.dst \cup {p} /\ r.in_dst = d.in_dst \cup {p}
    /\ r.egress[p] = "local" /\ SameBut(d.egress, r.egress, Ports, p)
    /\ SameBut(d.bcast, r.bcast, Nets, NetOf[p])
    /\ r.bcast[NetOf[p]] =
         IF Of(d.l2_local, NetOf[p]) # {} /\ d.bcast[NetOf[p]] = None
         THEN None ELSE {p} \cup Cached(d, Of(d.l2_local, NetOf[p]))
    /\ r.tun_remote = d.tun_remote /\ r.bum = d.bum
    /\ SameBut(d.tun_local, r.tun_local, Ports, p)
    /\ r.tun_local[p] = d.tun_local[p] + One(NetOf[p] \in tunneled)
    /\ r.tun_in = IF NetOf[p] \in tunneled /\ NoPort(d.tun_local, NetOf[p])
                  THEN d.tun_in \cup {NetOf[p]} ELSE d.tun_in
    /\ SameBut(d.prov_local, r.prov_local, Ports, p)
    /\ r.prov_local[p] = d.prov_local[p] + One(NetOf[p] \notin tunneled)
    /\ r.prov = IF NetOf[p] \notin tunneled /\ NoPort(d.prov_local, NetOf[p])
                THEN d.prov \cup {NetOf[p]} ELSE d.prov

\* Each event of a port, with all its handlers.
LEMMA BindLocalFields ==
  ASSUME NEW d \in Nodes, NEW p \in Ports, NEW r, r = EmitBindLocal(d, p)
  PROVE  BindLocalPost(d, p, r)
<1> USE DEF BindLocalPost
<1> DEFINE d1 == [d EXCEPT !.local_ports = @ \cup {p}]
           d2 == L2BindLocal(d1, p)
           d3 == TunBindLocal(d2, p)
<1>1. r = ProvBindLocal(d3, p)
  BY DEF EmitBindLocal
<1>2. /\ d1 \in Nodes /\ SameCache(d, d1) /\ SameL2(d, d1) /\ SameTun(d, d1)
      /\ SameProv(d, d1) /\ d1.egress = d.egress
      /\ d1.local_ports = d.local_ports \cup {p} /\ d1.remote_ports = d.remote_ports
  BY Zenon DEF Nodes, SameCache, SameL2, SameTun, SameProv
<1> HIDE DEF d1
<1>3. L2BindLocalPost(d1, p, d2)
  BY <1>2, L2BindLocalFields
<1> HIDE DEF d2
<1>4. TunBindLocalPost(d2, p, d3)
  BY <1>3, TunBindLocalFields DEF L2BindLocalPost
<1> HIDE DEF d3
<1>5. ProvBindLocalPost(d3, p, r)
  BY <1>1, <1>4, ProvBindLocalFields DEF TunBindLocalPost
<1>6. Cached(d1, Of(d1.l2_local, NetOf[p])) = Cached(d, Of(d.l2_local, NetOf[p]))
  BY <1>2 DEF Cached, SameCache, SameL2
<1>7. QED
  BY <1>2, <1>3, <1>4, <1>5, <1>6
     DEF L2BindLocalPost, TunBindLocalPost, ProvBindLocalPost,
         SameCache, SameBindings, SameL2, SameTun, SameProv

UnbindLocalPost(d, p, r) ==
    /\ r \in Nodes /\ SameCache(d, r)
    /\ r.local_ports = d.local_ports \ {p}
    /\ r.remote_ports = d.remote_ports
    /\ r.l2_local = d.l2_local \ {p}
    /\ r.dst = d.dst \ {p} /\ r.in_dst = d.in_dst \ {p}
    /\ r.egress[p] = None /\ SameBut(d.egress, r.egress, Ports, p)
    /\ SameBut(d.bcast, r.bcast, Nets, NetOf[p])
    /\ p \in d.l2_local => r.bcast[NetOf[p]] =
         IF \/ Of(d.l2_local \ {p}, NetOf[p]) = {}
            \/ d.bcast[NetOf[p]] = None
         THEN None ELSE Cached(d, Of(d.l2_local \ {p}, NetOf[p]))
    /\ r.tun_remote = d.tun_remote /\ r.bum = d.bum
    /\ SameBut(d.tun_local, r.tun_local, Ports, p)
    /\ r.tun_local[p] = IF NetOf[p] \notin tunneled \/ d.tun_local[p] = 0
                        THEN d.tun_local[p] ELSE d.tun_local[p] - 1
    /\ r.tun_in = IF NetOf[p] \in tunneled /\ NoPort(r.tun_local, NetOf[p])
                  THEN d.tun_in \ {NetOf[p]} ELSE d.tun_in
    /\ SameBut(d.prov_local, r.prov_local, Ports, p)
    /\ r.prov_local[p] = IF NetOf[p] \in tunneled \/ d.prov_local[p] = 0
                         THEN d.prov_local[p] ELSE d.prov_local[p] - 1
    /\ r.prov = IF NetOf[p] \notin tunneled /\ NoPort(r.prov_local, NetOf[p])
                THEN d.prov \ {NetOf[p]} ELSE d.prov

\* The event that unbinds a local port, with all its handlers.
LEMMA UnbindLocalFields ==
  ASSUME NEW d \in Nodes, NEW p \in Ports, NEW r, r = EmitUnbindLocal(d, p)
  PROVE  UnbindLocalPost(d, p, r)
<1> USE DEF UnbindLocalPost
<1> DEFINE d1 == [d EXCEPT !.local_ports = @ \ {p}]
           d2 == L2UnbindLocal(d1, p)
           d3 == TunUnbindLocal(d2, p)
<1>1. r = ProvUnbindLocal(d3, p)
  BY DEF EmitUnbindLocal
<1>2. /\ d1 \in Nodes /\ SameCache(d, d1) /\ SameL2(d, d1) /\ SameTun(d, d1)
      /\ SameProv(d, d1) /\ d1.egress = d.egress
      /\ d1.local_ports = d.local_ports \ {p} /\ d1.remote_ports = d.remote_ports
  BY SMTT(30) DEF Nodes, SameCache, SameL2, SameTun, SameProv
<1> HIDE DEF d1
<1>3. L2UnbindLocalPost(d1, p, d2)
  BY <1>2, L2UnbindLocalFields
<1> HIDE DEF d2
<1>4. TunUnbindLocalPost(d2, p, d3)
  BY <1>3, TunUnbindLocalFields DEF L2UnbindLocalPost
<1> HIDE DEF d3
<1>5. ProvUnbindLocalPost(d3, p, r)
  BY <1>1, <1>4, ProvUnbindLocalFields DEF TunUnbindLocalPost
<1>6. Cached(d1, Of(d1.l2_local \ {p}, NetOf[p])) = Cached(d, Of(d.l2_local \ {p}, NetOf[p]))
  BY <1>2 DEF Cached, SameCache, SameL2
<1>7. /\ d1.l2_local = d.l2_local /\ d1.bcast = d.bcast /\ r.bcast = d2.bcast
      /\ r.tun_local = d3.tun_local /\ d2.tun_local = d.tun_local
      /\ d2.tun_in = d.tun_in /\ r.tun_in = d3.tun_in
      /\ d3.prov_local = d.prov_local /\ d3.prov = d.prov
      /\ r.tun_remote = d.tun_remote /\ r.bum = d.bum
  BY <1>2, <1>3, <1>4, <1>5
     DEF L2UnbindLocalPost, TunUnbindLocalPost, ProvUnbindLocalPost,
         SameL2, SameTun, SameProv
<1>8. /\ r \in Nodes /\ SameCache(d, r)
      /\ r.local_ports = d.local_ports \ {p} /\ r.remote_ports = d.remote_ports
      /\ r.l2_local = d.l2_local \ {p}
      /\ r.dst = d.dst \ {p} /\ r.in_dst = d.in_dst \ {p}
      /\ r.egress[p] = None /\ SameBut(d.egress, r.egress, Ports, p)
  BY <1>2, <1>3, <1>4, <1>5
     DEF L2UnbindLocalPost, TunUnbindLocalPost, ProvUnbindLocalPost,
         SameCache, SameBindings, SameL2
<1>9. /\ SameBut(d.bcast, r.bcast, Nets, NetOf[p])
      /\ p \in d.l2_local => r.bcast[NetOf[p]] =
           IF \/ Of(d.l2_local \ {p}, NetOf[p]) = {}
              \/ d.bcast[NetOf[p]] = None
           THEN None ELSE Cached(d, Of(d.l2_local \ {p}, NetOf[p]))
  BY <1>3, <1>6, <1>7 DEF L2UnbindLocalPost
<1>10. QED
  BY <1>4, <1>5, <1>7, <1>8, <1>9, Zenon DEF TunUnbindLocalPost, ProvUnbindLocalPost

BindRemotePost(d, p, c, r) ==
    /\ r \in Nodes /\ SameCache(d, r) /\ SameProv(d, r)
    /\ r.local_ports = d.local_ports
    /\ r.remote_ports = d.remote_ports \cup {p}
    /\ r.l2_local = d.l2_local /\ r.bcast = d.bcast
    /\ r.dst = d.dst \cup {p} /\ r.in_dst = d.in_dst
    /\ r.tun_local = d.tun_local /\ r.tun_in = d.tun_in
    /\ SameBut(d.egress, r.egress, Ports, p)
    /\ SameBut(d.tun_remote, r.tun_remote, Ports, p)
    /\ SameBut(d.bum, r.bum, Nets, NetOf[p])
    /\ NetOf[p] \notin tunneled \/ d.chassis[c] = None =>
         r.egress = d.egress /\ r.tun_remote = d.tun_remote /\ r.bum = d.bum
    /\ NetOf[p] \in tunneled /\ d.chassis[c] # None =>
         /\ r.egress[p] = d.chassis[c]
         /\ r.tun_remote[p] = d.tun_remote[p] + 1
         /\ /\ ~BumRaises(r, NetOf[p])
            /\ OnePort(r.tun_remote, NetOf[p]) \/ d.bum[NetOf[p]] # None
            => r.bum[NetOf[p]] = BumActions(r, NetOf[p])

\* The event that binds a remote port, with all its handlers.
LEMMA BindRemoteFields ==
  ASSUME NEW d \in Nodes, NEW p \in Ports, NEW c \in Chassis,
         NEW r, r = EmitBindRemote(d, p, c)
  PROVE  BindRemotePost(d, p, c, r)
<1> USE DEF BindRemotePost
<1> DEFINE d1 == [d EXCEPT !.remote_ports = @ \cup {p}]
           d2 == L2BindRemote(d1, p)
<1>1. r = TunBindRemote(d2, p, c)
  BY DEF EmitBindRemote
<1>2. /\ d1 \in Nodes /\ SameCache(d, d1) /\ SameL2(d, d1) /\ SameTun(d, d1)
      /\ SameProv(d, d1) /\ d1.egress = d.egress
      /\ d1.local_ports = d.local_ports /\ d1.remote_ports = d.remote_ports \cup {p}
  BY DEF Nodes, SameCache, SameL2, SameTun, SameProv
<1> HIDE DEF d1
<1>3. /\ d2 \in Nodes /\ SameCache(d1, d2) /\ SameBindings(d1, d2)
      /\ SameTun(d1, d2) /\ SameProv(d1, d2) /\ d2.egress = d1.egress
      /\ d2.l2_local = d1.l2_local /\ d2.bcast = d1.bcast
      /\ d2.dst = d1.dst \cup {p} /\ d2.in_dst = d1.in_dst
  BY <1>2, SMTT(30) DEF L2BindRemote, Nodes, SameCache, SameBindings, SameTun, SameProv
<1> HIDE DEF d2
<1>4. TunBindRemotePost(d2, p, c, r)
  BY <1>1, <1>3, TunBindRemoteFields
<1>5. QED
  BY <1>2, <1>3, <1>4 DEF TunBindRemotePost,
         SameCache, SameBindings, SameL2, SameTun, SameProv

UnbindRemotePost(d, p, r) ==
    /\ r \in Nodes /\ SameCache(d, r) /\ SameProv(d, r)
    /\ r.local_ports = d.local_ports
    /\ r.remote_ports = d.remote_ports \ {p}
    /\ r.l2_local = d.l2_local /\ r.bcast = d.bcast
    /\ r.dst = d.dst \ {p} /\ r.in_dst = d.in_dst
    /\ r.tun_local = d.tun_local /\ r.tun_in = d.tun_in
    /\ SameBut(d.egress, r.egress, Ports, p)
    /\ SameBut(d.tun_remote, r.tun_remote, Ports, p)
    /\ SameBut(d.bum, r.bum, Nets, NetOf[p])
    /\ NetOf[p] \notin tunneled =>
         r.egress = d.egress /\ r.tun_remote = d.tun_remote /\ r.bum = d.bum
    /\ NetOf[p] \in tunneled =>
         /\ r.egress[p] = None
         /\ r.tun_remote[p] = IF d.tun_remote[p] = 0 THEN 0
                              ELSE d.tun_remote[p] - 1
         /\ NoPort(r.tun_remote, NetOf[p]) => r.bum[NetOf[p]] = None
         /\ /\ ~NoPort(r.tun_remote, NetOf[p]) /\ ~BumRaises(r, NetOf[p])
            /\ d.bum[NetOf[p]] # None
            => r.bum[NetOf[p]] = BumActions(r, NetOf[p])

\* The event that unbinds a remote port, with all its handlers.
LEMMA UnbindRemoteFields ==
  ASSUME NEW d \in Nodes, NEW p \in Ports, NEW r, r = EmitUnbindRemote(d, p)
  PROVE  UnbindRemotePost(d, p, r)
<1> USE DEF UnbindRemotePost
<1> DEFINE d1 == [d EXCEPT !.remote_ports = @ \ {p}]
           d2 == L2UnbindRemote(d1, p)
<1>1. r = TunUnbindRemote(d2, p)
  BY DEF EmitUnbindRemote
<1>2. /\ d1 \in Nodes /\ SameCache(d, d1) /\ SameL2(d, d1) /\ SameTun(d, d1)
      /\ SameProv(d, d1) /\ d1.egress = d.egress
      /\ d1.local_ports = d.local_ports /\ d1.remote_ports = d.remote_ports \ {p}
  BY Zenon DEF Nodes, SameCache, SameL2, SameTun, SameProv
<1> HIDE DEF d1
<1>3. /\ d2 \in Nodes /\ SameCache(d1, d2) /\ SameBindings(d1, d2)
      /\ SameTun(d1, d2) /\ SameProv(d1, d2) /\ d2.egress = d1.egress
      /\ d2.l2_local = d1.l2_local /\ d2.bcast = d1.bcast
      /\ d2.dst = d1.dst \ {p} /\ d2.in_dst = d1.in_dst
  BY <1>2, SMTT(30) DEF L2UnbindRemote, Nodes, SameCache, SameBindings, SameTun, SameProv
<1> HIDE DEF d2
<1>4. TunUnbindRemotePost(d2, p, r)
  BY <1>1, <1>3, TunUnbindRemoteFields
<1>5. QED
  BY <1>2, <1>3, <1>4 DEF TunUnbindRemotePost,
         SameCache, SameBindings, SameL2, SameTun, SameProv

----------------------------------------------------------------------------
(* What the applications hold for a port, and the flows of a network.      *)

\* The lists and flows of a port agree with the sets of PortBindingApp.
PortOK(d, p) ==
    /\ p \in d.l2_local <=> p \in d.local_ports
    /\ p \in d.local_ports =>
         p \in d.dst /\ p \in d.in_dst /\ d.egress[p] = "local"
    /\ ~kept =>
         /\ p \in d.dst => p \in d.local_ports \/ p \in d.remote_ports
         /\ p \in d.in_dst => p \in d.local_ports
         /\ d.egress[p] # None =>
              \/ p \in d.local_ports
              \/ p \in d.remote_ports /\ NetOf[p] \in tunneled
    /\ reconnects = 0 =>
         /\ d.tun_local[p] = One(p \in d.local_ports /\ NetOf[p] \in tunneled)
         /\ d.prov_local[p] = One(p \in d.local_ports /\ NetOf[p] \notin tunneled)
         /\ d.tun_remote[p] = One(p \in d.remote_ports /\ NetOf[p] \in tunneled)

\* The flows a network has for its local ports are those of L2App's list.
NetLocal(d, n) ==
    /\ Of(d.l2_local, n) # {} => d.bcast[n] = Of(d.l2_local, n)
    /\ (~kept /\ Of(d.l2_local, n) = {}) => d.bcast[n] = None
    /\ reconnects = 0 =>
         /\ n \in d.tun_in <=> (n \in tunneled /\ Of(d.l2_local, n) # {})
         /\ n \in d.prov <=> (n \notin tunneled /\ Of(d.l2_local, n) # {})

\* The broadcast of a network to other nodes: there is one when there is a
\* remote port, and it goes to the addresses of the remote ports.
BumPresent(d, n) ==
    (reconnects = 0 /\ n \in tunneled) =>
        (d.bum[n] = None <=> Of(d.remote_ports, n) = {})
NetBum(d, n) ==
    /\ BumPresent(d, n)
    /\ (reconnects = 0 /\ n \in tunneled /\ Of(d.remote_ports, n) # {}) =>
         d.bum[n] = {d.chassis[d.lports[p].chassis] : p \in Of(d.remote_ports, n)}

\* A local port is cached, a remote one with a chassis that is.
RefsOK(d, q) ==
    /\ q \in d.l2_local => d.lports[q] # None
    /\ q \in d.remote_ports =>
         /\ d.lports[q] # None /\ d.lports[q].chassis # None
         /\ d.chassis[d.lports[q].chassis] # None

\* Everything of the other ports and networks is as it was.
SamePort(d, r, q) ==
    /\ r.lports[q] = d.lports[q]
    /\ q \in r.local_ports <=> q \in d.local_ports
    /\ q \in r.remote_ports <=> q \in d.remote_ports
    /\ q \in r.l2_local <=> q \in d.l2_local
    /\ q \in r.dst <=> q \in d.dst
    /\ q \in r.in_dst <=> q \in d.in_dst
    /\ r.egress[q] = d.egress[q]
    /\ r.tun_local[q] = d.tun_local[q]
    /\ r.tun_remote[q] = d.tun_remote[q]
    /\ r.prov_local[q] = d.prov_local[q]
SameNet(d, r, m) ==
    /\ r.bcast[m] = d.bcast[m] /\ r.bum[m] = d.bum[m]
    /\ m \in r.tun_in <=> m \in d.tun_in
    /\ m \in r.prov <=> m \in d.prov
Frame(d, r, p) ==
    /\ r \in Nodes /\ r.chassis = d.chassis
    /\ \A q \in Ports \ {p} : SamePort(d, r, q)
    /\ \A m \in Nets \ {NetOf[p]} : SameNet(d, r, m)

\* The events of a port leave the other ports and networks alone.
LEMMA BindLocalFrame ==
  ASSUME NEW d \in Nodes, NEW p \in Ports, NEW r, BindLocalPost(d, p, r)
  PROVE  Frame(d, r, p) /\ r.lports = d.lports
BY NetsAssumption DEF BindLocalPost, Frame, SamePort, SameNet, SameCache, SameBut

\* The same when a local port is unbound.
LEMMA UnbindLocalFrame ==
  ASSUME NEW d \in Nodes, NEW p \in Ports, NEW r, UnbindLocalPost(d, p, r)
  PROVE  Frame(d, r, p) /\ r.lports = d.lports
BY NetsAssumption DEF UnbindLocalPost, Frame, SamePort, SameNet, SameCache, SameBut

\* The same when a remote port is bound.
LEMMA BindRemoteFrame ==
  ASSUME NEW d \in Nodes, NEW p \in Ports, NEW c \in Chassis, NEW r,
         BindRemotePost(d, p, c, r)
  PROVE  Frame(d, r, p) /\ r.lports = d.lports
BY NetsAssumption
   DEF BindRemotePost, Frame, SamePort, SameNet, SameCache, SameProv, SameBut

\* The same when a remote port is unbound.
LEMMA UnbindRemoteFrame ==
  ASSUME NEW d \in Nodes, NEW p \in Ports, NEW r, UnbindRemotePost(d, p, r)
  PROVE  Frame(d, r, p) /\ r.lports = d.lports
BY NetsAssumption
   DEF UnbindRemotePost, Frame, SamePort, SameNet, SameCache, SameProv, SameBut

\* What two handlers leave alone, both together leave alone.
LEMMA FrameTransitive ==
  ASSUME NEW d, NEW e, NEW r, NEW p \in Ports, Frame(d, e, p), Frame(e, r, p)
  PROVE  Frame(d, r, p)
BY DEF Frame, SamePort, SameNet

\* What is framed keeps what holds of it.
LEMMA FrameKeepsPort ==
  ASSUME NEW d \in Nodes, NEW r, NEW p \in Ports, Frame(d, r, p),
         NEW q \in Ports \ {p}
  PROVE  /\ PortOK(d, q) => PortOK(r, q)
         /\ RefsOK(d, q) => RefsOK(r, q)
BY DEF Frame, SamePort, PortOK, RefsOK

\* The same for networks.
LEMMA FrameKeepsNet ==
  ASSUME NEW d \in Nodes, NEW r, NEW p \in Ports, Frame(d, r, p),
         NEW m \in Nets \ {NetOf[p]}
  PROVE  /\ NetLocal(d, m) => NetLocal(r, m)
         /\ NetBum(d, m) => NetBum(r, m)
<1>1. SameNet(d, r, m) /\ \A q \in Ports \ {p} : SamePort(d, r, q)
  BY DEF Frame
<1>2. /\ Of(r.l2_local, m) = Of(d.l2_local, m)
      /\ Of(r.remote_ports, m) = Of(d.remote_ports, m)
      /\ \A q \in Of(d.remote_ports, m) : q \in Ports \ {p}
  BY <1>1 DEF Of, SamePort, Frame, Nodes
<1>3. \A q \in Of(d.remote_ports, m) :
        r.chassis[r.lports[q].chassis] = d.chassis[d.lports[q].chassis]
  BY <1>1, <1>2, Zenon DEF SamePort, Frame
<1>4. {r.chassis[r.lports[q].chassis] : q \in Of(r.remote_ports, m)}
        = {d.chassis[d.lports[q].chassis] : q \in Of(d.remote_ports, m)}
  BY <1>2, <1>3
<1>5. NetLocal(d, m) => NetLocal(r, m)
  BY <1>1, <1>2 DEF NetLocal, SameNet
<1>6. NetBum(d, m) => NetBum(r, m)
  BY <1>1, <1>2, <1>4, Zenon DEF NetBum, BumPresent, SameNet
<1>7. QED
  BY <1>5, <1>6

\* A port that is bound or unbound has the lists and flows that go with it.
LEMMA BindLocalPort ==
  ASSUME NEW d \in Nodes, NEW p \in Ports, NEW r, BindLocalPost(d, p, r),
         PortOK(d, p), p \notin d.local_ports, p \notin d.remote_ports
  PROVE  PortOK(r, p) /\ p \in r.local_ports /\ p \notin r.remote_ports
BY NoneAssumption DEF BindLocalPost, PortOK, One

\* After a local port is unbound, its flows and its count are gone.
LEMMA UnbindLocalPort ==
  ASSUME NEW d \in Nodes, NEW p \in Ports, NEW r, UnbindLocalPost(d, p, r),
         PortOK(d, p), p \in d.local_ports, p \notin d.remote_ports
  PROVE  PortOK(r, p) /\ p \notin r.local_ports /\ p \notin r.remote_ports
BY DEF UnbindLocalPost, PortOK, One

\* After a remote port with a cached chassis is bound, it is counted once.
LEMMA BindRemotePort ==
  ASSUME NEW d \in Nodes, NEW p \in Ports, NEW c \in Chassis, NEW r,
         BindRemotePost(d, p, c, r), d.chassis[c] # None,
         PortOK(d, p), p \notin d.local_ports, p \notin d.remote_ports
  PROVE  PortOK(r, p) /\ p \notin r.local_ports /\ p \in r.remote_ports
BY DEF BindRemotePost, PortOK, One, SameProv

\* After a remote port is unbound, its flows and its count are gone.
LEMMA UnbindRemotePort ==
  ASSUME NEW d \in Nodes, NEW p \in Ports, NEW r, UnbindRemotePost(d, p, r),
         PortOK(d, p), p \notin d.local_ports, p \in d.remote_ports
  PROVE  PortOK(r, p) /\ p \notin r.local_ports /\ p \notin r.remote_ports
BY DEF UnbindRemotePost, PortOK, One, SameProv

\* Of the ports of network n, all agree with PortBindingApp; those other than
\* p are cached as far as they are bound.
NetPorts(d, n, p) ==
    /\ \A q \in Ports : NetOf[q] = n => PortOK(d, q)
    /\ \A q \in Ports \ {p} : NetOf[q] = n => RefsOK(d, q)

\* The lists of the tunneling and provider applications are empty together
\* with that of L2App.
LEMMA ListsAgree ==
  ASSUME NEW d \in Nodes, NEW n \in Nets, reconnects = 0,
         \A q \in Ports : NetOf[q] = n => PortOK(d, q)
  PROVE  /\ n \in tunneled =>
              (NoPort(d.tun_local, n) <=> Of(d.l2_local, n) = {})
         /\ n \notin tunneled =>
              (NoPort(d.prov_local, n) <=> Of(d.l2_local, n) = {})
         /\ n \in tunneled =>
              (NoPort(d.tun_remote, n) <=> Of(d.remote_ports, n) = {})
<1>1. /\ Of(d.l2_local, n) = {q \in Ports : NetOf[q] = n /\ q \in d.l2_local}
      /\ Of(d.remote_ports, n) = {q \in Ports : NetOf[q] = n /\ q \in d.remote_ports}
  BY DEF Of, Nodes
<1>2. \A q \in Ports : NetOf[q] = n =>
        /\ q \in d.l2_local <=> q \in d.local_ports
        /\ n \in tunneled => (d.tun_local[q] = 0 <=> q \notin d.local_ports)
        /\ n \notin tunneled => (d.prov_local[q] = 0 <=> q \notin d.local_ports)
        /\ n \in tunneled => (d.tun_remote[q] = 0 <=> q \notin d.remote_ports)
  BY DEF PortOK, One
<1>3. QED
  BY <1>1, <1>2 DEF NoPort

\* A local port that is bound brings its network the flows it needs.
LEMMA BindLocalNet ==
  ASSUME NEW d \in Nodes, NEW p \in Ports, NEW r, BindLocalPost(d, p, r),
         NetPorts(d, NetOf[p], p), p \notin d.local_ports,
         NetLocal(d, NetOf[p])
  PROVE  NetLocal(r, NetOf[p])
<1> DEFINE n == NetOf[p]
           L == Of(d.l2_local, n)
<1>1. n \in Nets /\ L \in SUBSET Ports /\ p \notin L
  BY NetsAssumption DEF Nodes, Of, NetPorts, PortOK
<1>2. Of(r.l2_local, n) = L \cup {p}
  BY DEF BindLocalPost, Of
<1>3. Cached(d, L) = L
  BY <1>1 DEF Cached, NetPorts, RefsOK, Of
<1>4. L # {} => d.bcast[n] # None
  BY <1>1, NoneAssumption DEF NetLocal
<1>5. r.bcast[n] = L \cup {p}
  BY <1>3, <1>4 DEF BindLocalPost
<1>6. ASSUME reconnects = 0
      PROVE  /\ n \in r.tun_in <=> n \in tunneled
             /\ n \in r.prov <=> n \notin tunneled
  <2>1. /\ n \in tunneled => (NoPort(d.tun_local, n) <=> L = {})
        /\ n \notin tunneled => (NoPort(d.prov_local, n) <=> L = {})
    BY <1>1, <1>6, ListsAgree DEF NetPorts
  <2>2. /\ n \in d.tun_in <=> (n \in tunneled /\ L # {})
        /\ n \in d.prov <=> (n \notin tunneled /\ L # {})
    BY <1>6 DEF NetLocal
  <2> HIDE DEF L
  <2>3. QED
    BY <2>1, <2>2 DEF BindLocalPost
<1> HIDE DEF L
<1>7. QED
  BY <1>2, <1>5, <1>6 DEF NetLocal

\* A local port that is unbound leaves it those of the others.
LEMMA UnbindLocalNet ==
  ASSUME NEW d \in Nodes, NEW p \in Ports, NEW r, UnbindLocalPost(d, p, r),
         NetPorts(d, NetOf[p], p), p \in d.local_ports, p \notin d.remote_ports,
         NetLocal(d, NetOf[p])
  PROVE  NetLocal(r, NetOf[p])
<1> DEFINE n == NetOf[p]
           L == Of(d.l2_local \ {p}, n)
<1>1. /\ n \in Nets /\ L \in SUBSET Ports /\ p \notin L /\ p \in d.l2_local
      /\ Of(d.l2_local, n) # {}
  BY NetsAssumption DEF Nodes, Of, NetPorts, PortOK
<1>2. Of(r.l2_local, n) = L
  BY DEF UnbindLocalPost, Of
<1>3. Cached(d, L) = L
  BY <1>1 DEF Cached, NetPorts, RefsOK, Of
<1>4. d.bcast[n] # None
  <2>1. Of(d.l2_local, n) \in SUBSET Ports
    BY DEF Of, Nodes
  <2>2. QED
    BY <1>1, <2>1, NoneAssumption DEF NetLocal
<1>5. r.bcast[n] = IF L = {} THEN None ELSE L
  BY <1>1, <1>3, <1>4, Zenon DEF UnbindLocalPost
<1>6. ASSUME reconnects = 0
      PROVE  /\ n \in r.tun_in <=> (n \in tunneled /\ L # {})
             /\ n \in r.prov <=> (n \notin tunneled /\ L # {})
  <2>1. r \in Nodes
    BY DEF UnbindLocalPost
  <2>2. \A q \in Ports : NetOf[q] = n => PortOK(r, q)
    <3>1. PortOK(r, p)
      BY UnbindLocalPort DEF NetPorts
    <3>2. Frame(d, r, p)
      BY UnbindLocalFrame
    <3>3. ASSUME NEW q \in Ports \ {p}, NetOf[q] = n
          PROVE  PortOK(r, q)
      BY <3>2, <3>3, FrameKeepsPort DEF NetPorts
    <3>4. QED
      BY <3>1, <3>3
  <2>3. /\ n \in tunneled => (NoPort(r.tun_local, n) <=> L = {})
        /\ n \notin tunneled => (NoPort(r.prov_local, n) <=> L = {})
    BY <1>1, <1>2, <1>6, <2>1, <2>2, ListsAgree, Zenon
  <2>4. /\ n \in d.tun_in <=> n \in tunneled
        /\ n \in d.prov <=> n \notin tunneled
    BY <1>1, <1>6 DEF NetLocal
  <2> HIDE DEF L
  <2>5. QED
    BY <2>3, <2>4 DEF UnbindLocalPost
<1> HIDE DEF L
<1>7. QED
  BY <1>2, <1>5, <1>6 DEF NetLocal

\* The broadcast to other nodes is left alone by local ports, and the flows
\* for local ports by remote ones.
LEMMA LocalKeepsBum ==
  ASSUME NEW d \in Nodes, NEW p \in Ports, NEW r, NEW n,
         BindLocalPost(d, p, r) \/ UnbindLocalPost(d, p, r)
  PROVE  NetBum(d, n) => NetBum(r, n)
BY DEF BindLocalPost, UnbindLocalPost, SameCache, NetBum, BumPresent

\* Remote ports leave the flows for local ports alone.
LEMMA RemoteKeepsLocal ==
  ASSUME NEW d \in Nodes, NEW p \in Ports, NEW r, NEW n, NEW c,
         BindRemotePost(d, p, c, r) \/ UnbindRemotePost(d, p, r)
  PROVE  NetLocal(d, n) => NetLocal(r, n)
BY DEF BindRemotePost, UnbindRemotePost, SameProv, NetLocal

\* _make_bum_flow_actions does not raise, and gives the addresses of the
\* remote ports, when these are cached with their chassis.
LEMMA BumExact ==
  ASSUME NEW r \in Nodes, NEW n \in Nets, reconnects = 0, n \in tunneled,
         \A q \in Ports : NetOf[q] = n => PortOK(r, q) /\ RefsOK(r, q)
  PROVE  /\ ~BumRaises(r, n)
         /\ BumActions(r, n) =
              {r.chassis[r.lports[q].chassis] : q \in Of(r.remote_ports, n)}
         /\ NoPort(r.tun_remote, n) <=> Of(r.remote_ports, n) = {}
<1>1. BumPorts(r, n) = Of(r.remote_ports, n)
  <2>1. \A q \in Ports : NetOf[q] = n =>
          (r.tun_remote[q] > 0 <=> q \in r.remote_ports)
    BY DEF PortOK, One
  <2>2. \A q \in Ports : (NetOf[q] = n /\ q \in r.remote_ports) => r.lports[q] # None
    BY DEF RefsOK
  <2>3. r.remote_ports \in SUBSET Ports
    BY DEF Nodes
  <2>4. QED
    BY <2>1, <2>2, <2>3 DEF BumPorts, Cached, Of
<1>2. ~BumRaises(r, n)
  BY <1>1 DEF BumRaises, RefsOK, Of, Nodes
<1>3. QED
  BY <1>1, <1>2, ListsAgree DEF BumActions

\* After a remote port is bound or unbound, the broadcast to other nodes goes
\* to the addresses of the remote ports there are.
LEMMA BumAddresses ==
  ASSUME NEW r \in Nodes, NEW n \in Nets,
         \A q \in Ports : NetOf[q] = n => RefsOK(r, q)
  PROVE  {r.chassis[r.lports[q].chassis] : q \in Of(r.remote_ports, n)} # None
<1>1. \A q \in Of(r.remote_ports, n) : r.chassis[r.lports[q].chassis] \in Ips
  <2>1. ASSUME NEW q \in Of(r.remote_ports, n)
        PROVE  r.chassis[r.lports[q].chassis] \in Ips
    <3>1. q \in Ports /\ NetOf[q] = n /\ q \in r.remote_ports
      BY DEF Of, Nodes
    <3>2. /\ r.lports[q] # None /\ r.lports[q].chassis # None
          /\ r.chassis[r.lports[q].chassis] # None
      BY <3>1 DEF RefsOK
    <3>3. r.lports[q] \in Lports /\ r.lports[q].chassis \in Chassis
      BY <3>1, <3>2 DEF Nodes, Lports
    <3>4. QED
      BY <3>2, <3>3 DEF Nodes
  <2>2. QED
    BY <2>1, Zenon
<1>2. {r.chassis[r.lports[q].chassis] : q \in Of(r.remote_ports, n)} \in SUBSET Ips
  BY <1>1
<1>3. QED
  BY <1>2, NoneAssumption

\* Binding a remote port makes the broadcast that of all remote ports.
LEMMA BindRemoteNet ==
  ASSUME NEW d \in Nodes, NEW p \in Ports, NEW c \in Chassis, NEW r,
         BindRemotePost(d, p, c, r), NetPorts(d, NetOf[p], p),
         p \notin d.local_ports, p \notin d.remote_ports,
         d.lports[p] # None, d.lports[p].chassis = c, d.chassis[c] # None,
         BumPresent(d, NetOf[p])
  PROVE  NetBum(r, NetOf[p])
<1> DEFINE n == NetOf[p]
<1> SUFFICES ASSUME reconnects = 0, n \in tunneled
             PROVE  NetBum(r, n)
  BY DEF NetBum, BumPresent
<1>1. r \in Nodes /\ n \in Nets /\ c # None
  BY NetsAssumption, HereAssumption DEF BindRemotePost
<1>2. Frame(d, r, p) /\ r.lports = d.lports
  BY BindRemoteFrame
<1>3. PortOK(r, p) /\ p \in r.remote_ports
  BY BindRemotePort DEF NetPorts
<1>4. RefsOK(r, p)
  BY <1>1, <1>2, <1>3, Zenon DEF RefsOK, Frame, BindRemotePost, NetPorts, PortOK
<1>5. \A q \in Ports : NetOf[q] = n => PortOK(r, q) /\ RefsOK(r, q)
  <2>1. ASSUME NEW q \in Ports \ {p}, NetOf[q] = n
        PROVE  PortOK(r, q) /\ RefsOK(r, q)
    BY <1>2, <2>1, FrameKeepsPort DEF NetPorts
  <2>2. QED
    BY <1>3, <1>4, <2>1
<1>6. /\ ~BumRaises(r, n)
      /\ BumActions(r, n) =
           {r.chassis[r.lports[q].chassis] : q \in Of(r.remote_ports, n)}
  BY <1>1, <1>5, BumExact
<1>7. OnePort(r.tun_remote, n) \/ d.bum[n] # None
  <2>1. SUFFICES ASSUME d.bum[n] = None
                 PROVE  OnePort(r.tun_remote, n)
    OBVIOUS
  <2>2. Of(d.remote_ports, n) = {}
    BY <2>1 DEF BumPresent
  <2>3. \A q \in Ports \ {p} : NetOf[q] = n => r.tun_remote[q] = 0
    <3>1. ASSUME NEW q \in Ports \ {p}, NetOf[q] = n
          PROVE  r.tun_remote[q] = 0
      <4>1. q \notin d.remote_ports
        BY <2>2, <3>1 DEF Of
      <4>2. d.tun_remote[q] = 0
        BY <3>1, <4>1 DEF NetPorts, PortOK, One
      <4>3. QED
        BY <1>2, <4>2 DEF Frame, SamePort
    <3>2. QED
      BY <3>1
  <2>4. r.tun_remote[p] = 1
    BY <1>3 DEF PortOK, One
  <2>5. QED
    BY <2>3, <2>4 DEF OnePort
<1>8. r.bum[n] = BumActions(r, n)
  BY <1>6, <1>7, Zenon DEF BindRemotePost
<1>9. Of(r.remote_ports, n) # {}
  BY <1>3 DEF Of
<1>10. r.bum[n] # None
  BY <1>1, <1>5, <1>6, <1>8, BumAddresses
<1>11. QED
  BY <1>6, <1>8, <1>9, <1>10 DEF NetBum, BumPresent

\* Unbinding a remote port makes the broadcast that of the others.
LEMMA UnbindRemoteNet ==
  ASSUME NEW d \in Nodes, NEW p \in Ports, NEW r,
         UnbindRemotePost(d, p, r), NetPorts(d, NetOf[p], p),
         p \notin d.local_ports, p \in d.remote_ports,
         BumPresent(d, NetOf[p])
  PROVE  NetBum(r, NetOf[p])
<1> DEFINE n == NetOf[p]
<1> SUFFICES ASSUME reconnects = 0, n \in tunneled
             PROVE  NetBum(r, n)
  BY DEF NetBum, BumPresent
<1>1. r \in Nodes /\ n \in Nets
  BY NetsAssumption DEF UnbindRemotePost
<1>2. Frame(d, r, p)
  BY UnbindRemoteFrame
<1>3. PortOK(r, p) /\ p \notin r.remote_ports /\ p \notin r.local_ports
  BY UnbindRemotePort DEF NetPorts
<1>4. RefsOK(r, p)
  BY <1>3 DEF RefsOK, PortOK
<1>5. \A q \in Ports : NetOf[q] = n => PortOK(r, q) /\ RefsOK(r, q)
  <2>1. ASSUME NEW q \in Ports \ {p}, NetOf[q] = n
        PROVE  PortOK(r, q) /\ RefsOK(r, q)
    BY <1>2, <2>1, FrameKeepsPort DEF NetPorts
  <2>2. QED
    BY <1>3, <1>4, <2>1
<1>6. /\ ~BumRaises(r, n)
      /\ BumActions(r, n) =
           {r.chassis[r.lports[q].chassis] : q \in Of(r.remote_ports, n)}
      /\ NoPort(r.tun_remote, n) <=> Of(r.remote_ports, n) = {}
  BY <1>1, <1>5, BumExact
<1>7. d.bum[n] # None
  BY DEF BumPresent, Of
<1>8. CASE Of(r.remote_ports, n) = {}
  <2>1. r.bum[n] = None
    BY <1>6, <1>8, Zenon DEF UnbindRemotePost
  <2>2. QED
    BY <1>8, <2>1 DEF NetBum, BumPresent
<1>9. CASE Of(r.remote_ports, n) # {}
  <2>1. r.bum[n] = BumActions(r, n)
    BY <1>6, <1>7, <1>9, Zenon DEF UnbindRemotePost
  <2>2. r.bum[n] # None
    BY <1>1, <1>5, <1>6, <2>1, BumAddresses
  <2>3. QED
    BY <1>6, <1>9, <2>1, <2>2 DEF NetBum, BumPresent
<1>10. QED
  BY <1>8, <1>9

----------------------------------------------------------------------------
(* Updates and deletions of a port.                                        *)

\* Cached object o asks for a binding here, or elsewhere.
Loc(o) == o # None /\ o.enabled /\ IsLocal(o)
Rem(o) == o # None /\ o.enabled /\ IsRemote(o)

\* What an update does first and last to a port that was bound as b and is
\* to be bound as o.
Detached(d, p, l, r) ==
    IF l THEN EmitUnbindLocal(d, p) ELSE IF r THEN EmitUnbindRemote(d, p) ELSE d
Attached(d, p, o) ==
    IF Loc(o) THEN EmitBindLocal(d, p)
    ELSE IF Rem(o) THEN EmitBindRemote(d, p, o.chassis) ELSE d

\* An update unbinds and binds a port exactly when where it is bound changes.
LEMMA UpdateRebinds ==
  ASSUME NEW d \in Nodes, NEW p \in Ports, NEW o \in Lports,
         NEW orig, orig = d.lports[p],
         orig = None \/ o.version > orig.version,
         NEW d1, d1 = [d EXCEPT !.lports[p] = o]
  PROVE  UpdateModelObject(d, p, o) =
           IF Loc(orig) = Loc(o) /\ Rem(orig) = Rem(o) THEN d1
           ELSE Attached(Detached(d1, p, Loc(orig), Rem(orig)), p, o)
<1>1. o # None /\ o.enabled \in BOOLEAN
  BY NoneAssumption DEF Lports
<1>2. CASE orig = None
  <2>1. UpdateModelObject(d, p, o) = PortCreated(d1, p, o)
    BY <1>2 DEF UpdateModelObject
  <2>2. Loc(orig) = FALSE /\ Rem(orig) = FALSE
    BY <1>2 DEF Loc, Rem
  <2>3. PortCreated(d1, p, o) = Attached(d1, p, o)
    BY <1>1 DEF PortCreated, Bind, Attached, Loc, Rem, IsLocal, IsRemote
  <2>4. Loc(o) = FALSE /\ Rem(o) = FALSE => Attached(d1, p, o) = d1
    BY DEF Attached
  <2>5. Loc(o) \in BOOLEAN /\ Rem(o) \in BOOLEAN
    BY <1>1 DEF Loc, Rem
  <2>6. QED
    BY <2>1, <2>2, <2>3, <2>4, <2>5 DEF Detached
<1>3. CASE orig # None
  <2>1. orig \in Lports /\ orig.enabled \in BOOLEAN
    BY <1>3 DEF Nodes, Lports
  <2>2. UpdateModelObject(d, p, o) = PortUpdated(d1, p, o, orig)
    BY <1>3 DEF UpdateModelObject
  <2> DEFINE u == PortUpdateUnbind(d1, p, o, orig)
  <2>3. PortUpdated(d1, p, o, orig) = PortUpdateBind(u, p, o, orig)
    BY DEF PortUpdated
  <2>4. /\ Loc(o) \in BOOLEAN /\ Rem(o) \in BOOLEAN
        /\ Loc(orig) \in BOOLEAN /\ Rem(orig) \in BOOLEAN
    BY <1>1, <2>1 DEF Loc, Rem
  <2>5. CASE Loc(orig) = Loc(o) /\ Rem(orig) = Rem(o)
    <3>1. u = d1
      BY <1>1, <1>3, <2>1, <2>5
         DEF PortUpdateUnbind, Moved, Unbind, Loc, Rem, IsLocal, IsRemote
    <3> HIDE DEF u
    <3>2. PortUpdateBind(u, p, o, orig) = u
      BY <1>1, <1>3, <2>1, <2>5
         DEF PortUpdateBind, Moved, Bind, Loc, Rem, IsLocal, IsRemote
    <3>3. QED
      BY <2>2, <2>3, <2>5, <3>1, <3>2
  <2>6. CASE ~(Loc(orig) = Loc(o) /\ Rem(orig) = Rem(o))
    <3>1. u = Detached(d1, p, Loc(orig), Rem(orig))
      BY <1>1, <1>3, <2>1, <2>6
         DEF PortUpdateUnbind, Moved, Unbind, Detached, Loc, Rem, IsLocal, IsRemote
    <3> HIDE DEF u
    <3>2. PortUpdateBind(u, p, o, orig) = Attached(u, p, o)
      BY <1>1, <1>3, <2>1, <2>6
         DEF PortUpdateBind, Moved, Bind, Attached, Loc, Rem, IsLocal, IsRemote
    <3>3. QED
      BY <2>2, <2>3, <2>6, <3>1, <3>2
  <2>7. QED
    BY <2>5, <2>6
<1>4. QED
  BY <1>2, <1>3

\* Unbinding a port: the frame, and what holds of the port and its network.
LEMMA DetachedFrame ==
  ASSUME NEW d \in Nodes, NEW p \in Ports, NEW l, NEW m, NEW r,
         r = Detached(d, p, l, m)
  PROVE  Frame(d, r, p) /\ r.lports = d.lports
<1>1. CASE l
  <2>1. UnbindLocalPost(d, p, r)
    BY <1>1, UnbindLocalFields DEF Detached
  <2>2. QED
    BY <2>1, UnbindLocalFrame
<1>2. CASE ~l /\ m
  <2>1. UnbindRemotePost(d, p, r)
    BY <1>2, UnbindRemoteFields DEF Detached
  <2>2. QED
    BY <2>1, UnbindRemoteFrame
<1>3. CASE ~l /\ ~m
  BY <1>3 DEF Detached, Frame, SamePort, SameNet
<1>4. QED
  BY <1>1, <1>2, <1>3

\* A port that agrees with PortBindingApp is unbound for good, and its network
\* keeps the flows of the others.
LEMMA DetachedPort ==
  ASSUME NEW d \in Nodes, NEW p \in Ports, NEW r,
         r = Detached(d, p, p \in d.local_ports, p \in d.remote_ports),
         ~(p \in d.local_ports /\ p \in d.remote_ports), PortOK(d, p)
  PROVE  /\ PortOK(r, p) /\ p \notin r.local_ports /\ p \notin r.remote_ports
         /\ /\ NetPorts(d, NetOf[p], p) /\ NetLocal(d, NetOf[p])
            /\ BumPresent(d, NetOf[p])
            /\ p \notin d.remote_ports => NetBum(d, NetOf[p])
            => NetLocal(r, NetOf[p]) /\ NetBum(r, NetOf[p])
<1>1. CASE p \in d.local_ports
  <2>1. UnbindLocalPost(d, p, r)
    BY <1>1, UnbindLocalFields DEF Detached
  <2>2. PortOK(r, p) /\ p \notin r.local_ports /\ p \notin r.remote_ports
    BY <1>1, <2>1, UnbindLocalPort
  <2>3. NetPorts(d, NetOf[p], p) /\ NetLocal(d, NetOf[p]) => NetLocal(r, NetOf[p])
    BY <1>1, <2>1, UnbindLocalNet
  <2>4. NetBum(d, NetOf[p]) => NetBum(r, NetOf[p])
    BY <2>1, LocalKeepsBum
  <2>5. QED
    BY <1>1, <2>2, <2>3, <2>4
<1>2. CASE p \notin d.local_ports /\ p \in d.remote_ports
  <2>1. UnbindRemotePost(d, p, r)
    BY <1>2, UnbindRemoteFields DEF Detached
  <2>2. PortOK(r, p) /\ p \notin r.local_ports /\ p \notin r.remote_ports
    BY <1>2, <2>1, UnbindRemotePort
  <2>3. NetPorts(d, NetOf[p], p) /\ BumPresent(d, NetOf[p]) => NetBum(r, NetOf[p])
    BY <1>2, <2>1, UnbindRemoteNet
  <2>4. NetLocal(d, NetOf[p]) => NetLocal(r, NetOf[p])
    BY <2>1, RemoteKeepsLocal
  <2>5. QED
    BY <2>2, <2>3, <2>4
<1>3. CASE p \notin d.local_ports /\ p \notin d.remote_ports
  BY <1>3 DEF Detached
<1>4. QED
  BY <1>1, <1>2, <1>3

\* Binding a port.
LEMMA AttachedFrame ==
  ASSUME NEW d \in Nodes, NEW p \in Ports, NEW o \in Lports, NEW r,
         r = Attached(d, p, o)
  PROVE  Frame(d, r, p) /\ r.lports = d.lports
<1>1. CASE Loc(o)
  <2>1. BindLocalPost(d, p, r)
    BY <1>1, BindLocalFields DEF Attached
  <2>2. QED
    BY <2>1, BindLocalFrame
<1>2. CASE ~Loc(o) /\ Rem(o)
  <2>1. o.chassis \in Chassis
    BY <1>2 DEF Rem, IsRemote, Lports
  <2>2. BindRemotePost(d, p, o.chassis, r)
    BY <1>2, <2>1, BindRemoteFields DEF Attached
  <2>3. QED
    BY <2>1, <2>2, BindRemoteFrame
<1>3. CASE ~Loc(o) /\ ~Rem(o)
  BY <1>3 DEF Attached, Frame, SamePort, SameNet
<1>4. QED
  BY <1>1, <1>2, <1>3

\* A port that is nowhere is bound as its object asks.
LEMMA AttachedPort ==
  ASSUME NEW d \in Nodes, NEW p \in Ports, NEW o \in Lports, NEW r,
         r = Attached(d, p, o), d.lports[p] = o,
         o.chassis # None => d.chassis[o.chassis] # None,
         p \notin d.local_ports, p \notin d.remote_ports, PortOK(d, p)
  PROVE  /\ PortOK(r, p)
         /\ p \in r.local_ports <=> Loc(o)
         /\ p \in r.remote_ports <=> Rem(o)
         /\ /\ NetPorts(d, NetOf[p], p) /\ NetLocal(d, NetOf[p])
            /\ NetBum(d, NetOf[p])
            => NetLocal(r, NetOf[p]) /\ NetBum(r, NetOf[p])
<1>1. CASE Loc(o)
  <2>1. BindLocalPost(d, p, r) /\ ~Rem(o)
    BY <1>1, BindLocalFields DEF Attached, Loc, Rem, IsLocal, IsRemote
  <2>2. PortOK(r, p) /\ p \in r.local_ports /\ p \notin r.remote_ports
    BY <2>1, BindLocalPort
  <2>3. NetPorts(d, NetOf[p], p) /\ NetLocal(d, NetOf[p]) => NetLocal(r, NetOf[p])
    BY <2>1, BindLocalNet
  <2>4. NetBum(d, NetOf[p]) => NetBum(r, NetOf[p])
    BY <2>1, LocalKeepsBum
  <2>5. QED
    BY <1>1, <2>1, <2>2, <2>3, <2>4
<1>2. CASE ~Loc(o) /\ Rem(o)
  <2>1. o.chassis \in Chassis /\ o # None /\ o.chassis # None
    BY <1>2 DEF Rem, IsRemote, Lports
  <2>2. BindRemotePost(d, p, o.chassis, r)
    BY <1>2, <2>1, BindRemoteFields DEF Attached
  <2>3. PortOK(r, p) /\ p \notin r.local_ports /\ p \in r.remote_ports
    BY <2>1, <2>2, BindRemotePort
  <2>4. NetPorts(d, NetOf[p], p) /\ NetBum(d, NetOf[p]) => NetBum(r, NetOf[p])
    BY <2>1, <2>2, BindRemoteNet DEF NetBum
  <2>5. NetLocal(d, NetOf[p]) => NetLocal(r, NetOf[p])
    BY <2>2, RemoteKeepsLocal
  <2>6. QED
    BY <1>2, <2>3, <2>4, <2>5
<1>3. CASE ~Loc(o) /\ ~Rem(o)
  BY <1>3 DEF Attached
<1>4. QED
  BY <1>1, <1>2, <1>3

\* The node is right about the ports of S: each is bound as its cached object
\* asks, its chassis is cached, and networks all of whose ports are in S have
\* the flows they need.
Known(d, q) ==
    (d.lports[q] # None /\ d.lports[q].chassis # None) =>
        d.chassis[d.lports[q].chassis] # None
GoodPort(d, q) ==
    /\ PortOK(d, q) /\ Known(d, q)
    /\ q \in d.local_ports <=> Loc(d.lports[q])
    /\ q \in d.remote_ports <=> Rem(d.lports[q])
Within(n, S) == \A q \in Ports : NetOf[q] = n => q \in S
Good(d, S) ==
    /\ \A q \in S : GoodPort(d, q)
    /\ \A n \in Nets : Within(n, S) => NetLocal(d, n) /\ NetBum(d, n)

\* A port that is bound is cached with its chassis, and in one place.
LEMMA GoodRefs ==
  ASSUME NEW d \in Nodes, NEW q \in Ports, GoodPort(d, q)
  PROVE  RefsOK(d, q) /\ ~(q \in d.local_ports /\ q \in d.remote_ports)
BY DEF GoodPort, PortOK, Known, RefsOK, Loc, Rem, IsLocal, IsRemote

\* Ports other than the one that is changed, and their networks, stay good.
LEMMA FrameKeepsGood ==
  ASSUME NEW d \in Nodes, NEW r, NEW p \in Ports, Frame(d, r, p)
  PROVE  /\ \A q \in Ports \ {p} : GoodPort(d, q) => GoodPort(r, q)
         /\ \A n \in Nets \ {NetOf[p]} :
              NetLocal(d, n) /\ NetBum(d, n) => NetLocal(r, n) /\ NetBum(r, n)
<1>1. ASSUME NEW q \in Ports \ {p}, GoodPort(d, q) PROVE GoodPort(r, q)
  <2>1. PortOK(r, q)
    BY <1>1, FrameKeepsPort DEF GoodPort
  <2>2. SamePort(d, r, q) /\ r.chassis = d.chassis
    BY DEF Frame
  <2>3. QED
    BY <1>1, <2>1, <2>2 DEF GoodPort, Known, SamePort
<1>2. ASSUME NEW n \in Nets \ {NetOf[p]}, NetLocal(d, n), NetBum(d, n)
      PROVE  NetLocal(r, n) /\ NetBum(r, n)
  BY <1>2, FrameKeepsNet
<1>3. QED
  BY <1>1, <1>2

\* What caching object o for port p leaves as it was.
CachedOnlyPost(d, p, o, r) ==
    /\ Frame(d, r, p) /\ r.lports[p] = o
    /\ p \in r.local_ports <=> p \in d.local_ports
    /\ p \in r.remote_ports <=> p \in d.remote_ports
    /\ PortOK(d, p) => PortOK(r, p)
    /\ NetLocal(d, NetOf[p]) => NetLocal(r, NetOf[p])
    /\ BumPresent(d, NetOf[p]) => BumPresent(r, NetOf[p])
    /\ p \notin d.remote_ports /\ NetBum(d, NetOf[p]) => NetBum(r, NetOf[p])

\* Caching a new object for a port, before anything is done about it.
LEMMA CachedOnly ==
  ASSUME NEW d \in Nodes, NEW p \in Ports, NEW o \in Lports \cup {None}, NEW d1,
         d1 = [d EXCEPT !.lports[p] = o]
  PROVE  CachedOnlyPost(d, p, o, d1)
<1> DEFINE lp == [d.lports EXCEPT ![p] = o]
<1>1. lp \in [Ports -> Lports \cup {None}] /\ lp[p] = o
      /\ \A q \in Ports \ {p} : lp[q] = d.lports[q]
  BY DEF Nodes
<1>2. d1 = [d EXCEPT !.lports = lp]
  BY DEF Nodes
<1> HIDE DEF lp
<1>3. /\ d1 \in Nodes /\ d1.lports = lp /\ d1.chassis = d.chassis
      /\ SameBindings(d, d1) /\ SameL2(d, d1) /\ SameTun(d, d1)
      /\ SameProv(d, d1) /\ d1.egress = d.egress
  BY <1>1, <1>2, ZenonT(60) DEF Nodes, SameBindings, SameL2, SameTun, SameProv
<1>4. Frame(d, d1, p)
  BY <1>1, <1>3
     DEF Frame, SamePort, SameNet, SameBindings, SameL2, SameTun, SameProv
<1>5. /\ PortOK(d, p) => PortOK(d1, p)
      /\ p \in d1.local_ports <=> p \in d.local_ports
      /\ p \in d1.remote_ports <=> p \in d.remote_ports
  BY <1>3 DEF PortOK, SameBindings, SameL2, SameTun, SameProv
<1>6. /\ NetLocal(d, NetOf[p]) => NetLocal(d1, NetOf[p])
      /\ BumPresent(d, NetOf[p]) => BumPresent(d1, NetOf[p])
  BY <1>3 DEF NetLocal, BumPresent, SameBindings, SameL2, SameTun, SameProv
<1>7. ASSUME p \notin d.remote_ports, NetBum(d, NetOf[p])
      PROVE  NetBum(d1, NetOf[p])
  <2>1. /\ d1.bum = d.bum /\ d1.remote_ports = d.remote_ports
        /\ d.remote_ports \in SUBSET Ports
    BY <1>3 DEF SameTun, SameBindings, Nodes
  <2>2. \A q \in Of(d.remote_ports, NetOf[p]) :
          d1.chassis[d1.lports[q].chassis] = d.chassis[d.lports[q].chassis]
    BY <1>1, <1>3, <1>7, <2>1, Zenon DEF Of
  <2>3. {d1.chassis[d1.lports[q].chassis] : q \in Of(d.remote_ports, NetOf[p])}
          = {d.chassis[d.lports[q].chassis] : q \in Of(d.remote_ports, NetOf[p])}
    BY <2>2
  <2>4. QED
    BY <1>7, <2>1, <2>3 DEF NetBum, BumPresent
<1>8. QED
  BY <1>1, <1>3, <1>4, <1>5, <1>6, <1>7 DEF CachedOnlyPost

\* Whatever an update does is confined to the port and its network.
LEMMA UpdateFrame ==
  ASSUME NEW d \in Nodes, NEW p \in Ports, NEW o \in Lports,
         d.lports[p] = None \/ o.version > d.lports[p].version,
         NEW r, r = UpdateModelObject(d, p, o)
  PROVE  Frame(d, r, p) /\ r.lports[p] = o
<1> DEFINE d1 == [d EXCEPT !.lports[p] = o]
           e == Detached(d1, p, Loc(d.lports[p]), Rem(d.lports[p]))
<1>1. Frame(d, d1, p) /\ d1.lports[p] = o /\ d1 \in Nodes
  <2>1. CachedOnlyPost(d, p, o, d1)
    BY CachedOnly
  <2> HIDE DEF d1
  <2>2. QED
    BY <2>1 DEF CachedOnlyPost, Frame
<1>2. r = d1 \/ r = Attached(e, p, o)
  BY UpdateRebinds
<1> HIDE DEF d1
<1>3. Frame(d1, e, p) /\ e.lports = d1.lports /\ e \in Nodes
  BY <1>1, DetachedFrame DEF Frame
<1> HIDE DEF e
<1>4. CASE r = d1
  BY <1>1, <1>4
<1>5. CASE r = Attached(e, p, o)
  <2>1. Frame(e, r, p) /\ r.lports = e.lports
    BY <1>3, <1>5, AttachedFrame
  <2>2. Frame(d1, r, p)
    BY <1>3, <2>1, FrameTransitive
  <2>3. Frame(d, r, p)
    BY <1>1, <2>2, FrameTransitive
  <2>4. QED
    BY <1>1, <1>3, <2>1, <2>3
<1>6. QED
  BY <1>2, <1>4, <1>5

\* An update of a port whose chassis is cached and that does not move from one
\* remote node to another leaves the node right about it.
LEMMA UpdatePort ==
  ASSUME NEW d \in Nodes, NEW p \in Ports, NEW o \in Lports,
         d.lports[p] = None \/ o.version > d.lports[p].version,
         NEW r, r = UpdateModelObject(d, p, o),
         GoodPort(d, p),
         o.chassis # None => d.chassis[o.chassis] # None,
         (Rem(d.lports[p]) /\ Rem(o)) => d.lports[p].chassis = o.chassis
  PROVE  /\ GoodPort(r, p)
         /\ /\ NetPorts(d, NetOf[p], p)
            /\ NetLocal(d, NetOf[p]) /\ NetBum(d, NetOf[p])
            => NetLocal(r, NetOf[p]) /\ NetBum(r, NetOf[p])
<1> DEFINE n == NetOf[p]
           orig == d.lports[p]
           d1 == [d EXCEPT !.lports[p] = o]
           e == Detached(d1, p, Loc(orig), Rem(orig))
<1>1. /\ Frame(d, d1, p) /\ d1.lports[p] = o
      /\ p \in d1.local_ports <=> p \in d.local_ports
      /\ p \in d1.remote_ports <=> p \in d.remote_ports
      /\ PortOK(d1, p)
      /\ NetLocal(d, n) => NetLocal(d1, n)
      /\ BumPresent(d, n) => BumPresent(d1, n)
      /\ p \notin d.remote_ports /\ NetBum(d, n) => NetBum(d1, n)
  <2>1. CachedOnlyPost(d, p, o, d1)
    BY CachedOnly
  <2> HIDE DEF d1
  <2>2. QED
    BY <2>1 DEF CachedOnlyPost, GoodPort
<1>2. r = IF Loc(orig) = Loc(o) /\ Rem(orig) = Rem(o) THEN d1 ELSE Attached(e, p, o)
  BY UpdateRebinds
<1>3. Frame(d, r, p) /\ r.lports[p] = o
  BY UpdateFrame
<1>4. /\ Loc(orig) \in BOOLEAN /\ Rem(orig) \in BOOLEAN
      /\ Loc(o) \in BOOLEAN /\ Rem(o) \in BOOLEAN
  BY DEF Loc, Rem, Nodes, Lports
<1>5. /\ Loc(orig) = (p \in d1.local_ports) /\ Rem(orig) = (p \in d1.remote_ports)
      /\ ~(p \in d1.local_ports /\ p \in d1.remote_ports)
  BY <1>1, <1>4, GoodRefs DEF GoodPort
<1>6. Known(r, p)
  BY <1>3 DEF Known, Frame
<1>7. NetPorts(d, n, p) => NetPorts(d1, n, p)
  <2>1. ASSUME NetPorts(d, n, p), NEW q \in Ports \ {p}, NetOf[q] = n
        PROVE  PortOK(d1, q) /\ RefsOK(d1, q)
    BY <1>1, <2>1, FrameKeepsPort DEF NetPorts
  <2>2. QED
    BY <1>1, <2>1 DEF NetPorts
<1>8. CASE Loc(orig) = Loc(o) /\ Rem(orig) = Rem(o)
  <2>1. r = d1
    BY <1>2, <1>8
  <2>2. GoodPort(r, p)
    BY <1>1, <1>4, <1>5, <1>6, <1>8, <2>1 DEF GoodPort
  <2>3. ASSUME NetBum(d, n) PROVE NetBum(d1, n)
    <3>1. CASE p \notin d.remote_ports
      BY <1>1, <2>3, <3>1
    <3>2. CASE p \in d.remote_ports
      <4>1. d1.lports[p].chassis = d.lports[p].chassis
        BY <1>1, <1>4, <1>5, <1>8, <3>2
      <4>2. /\ d1.chassis = d.chassis /\ d1.bum = d.bum
            /\ d1.remote_ports = d.remote_ports /\ d.remote_ports \in SUBSET Ports
            /\ \A q \in Ports \ {p} : d1.lports[q] = d.lports[q]
        BY DEF Nodes
      <4>3. \A q \in Of(d.remote_ports, n) :
              d1.chassis[d1.lports[q].chassis] = d.chassis[d.lports[q].chassis]
        BY <4>1, <4>2, Zenon DEF Of
      <4>4. {d1.chassis[d1.lports[q].chassis] : q \in Of(d.remote_ports, n)}
              = {d.chassis[d.lports[q].chassis] : q \in Of(d.remote_ports, n)}
        BY <4>3
      <4>5. QED
        BY <2>3, <4>2, <4>4, Zenon DEF NetBum, BumPresent
    <3>3. QED
      BY <3>1, <3>2
  <2>4. QED
    BY <1>1, <2>1, <2>2, <2>3
<1>9. CASE ~(Loc(orig) = Loc(o) /\ Rem(orig) = Rem(o))
  <2>1. r = Attached(e, p, o)
    BY <1>2, <1>9
  <2>2. d1 \in Nodes /\ d1.chassis = d.chassis
    BY <1>1 DEF Frame
  <2>3. e = Detached(d1, p, p \in d1.local_ports, p \in d1.remote_ports)
    BY <1>5
  <2> HIDE DEF d1, e
  <2>4. Frame(d1, e, p) /\ e.lports = d1.lports
    BY <2>2, <2>3, DetachedFrame
  <2>5. /\ PortOK(e, p) /\ p \notin e.local_ports /\ p \notin e.remote_ports
        /\ /\ NetPorts(d1, n, p) /\ NetLocal(d1, n) /\ BumPresent(d1, n)
           /\ p \notin d1.remote_ports => NetBum(d1, n)
           => NetLocal(e, n) /\ NetBum(e, n)
    BY <1>1, <1>5, <2>2, <2>3, DetachedPort, Zenon
  <2>6. NetPorts(d1, n, p) => NetPorts(e, n, p)
    <3>1. ASSUME NetPorts(d1, n, p), NEW q \in Ports \ {p}, NetOf[q] = n
          PROVE  PortOK(e, q) /\ RefsOK(e, q)
      BY <2>2, <2>4, <3>1, FrameKeepsPort DEF NetPorts
    <3>2. QED
      BY <2>5, <3>1 DEF NetPorts
  <2>7. /\ e \in Nodes /\ e.lports[p] = o
        /\ o.chassis # None => e.chassis[o.chassis] # None
    BY <1>1, <2>2, <2>4 DEF Frame
  <2>8. /\ PortOK(r, p)
        /\ p \in r.local_ports <=> Loc(o)
        /\ p \in r.remote_ports <=> Rem(o)
        /\ NetPorts(e, n, p) /\ NetLocal(e, n) /\ NetBum(e, n)
             => NetLocal(r, n) /\ NetBum(r, n)
    BY <2>1, <2>5, <2>7, AttachedPort, Zenon
  <2>9. GoodPort(r, p)
    BY <1>3, <1>6, <2>8 DEF GoodPort
  <2>10. ASSUME NetPorts(d, n, p), NetLocal(d, n), NetBum(d, n)
         PROVE  NetLocal(r, n) /\ NetBum(r, n)
    <3>1. NetPorts(d1, n, p) /\ NetLocal(d1, n) /\ BumPresent(d1, n)
      BY <1>1, <1>7, <2>10, Zenon DEF NetBum
    <3>2. p \notin d1.remote_ports => NetBum(d1, n)
      BY <1>1, <2>10
    <3>3. QED
      BY <2>5, <2>6, <2>8, <3>1, <3>2
  <2>11. QED
    BY <2>9, <2>10
<1>10. QED
  BY <1>8, <1>9

\* An update with the cached object itself, as update_chassis makes it for the
\* ports of the chassis, changes nothing.
LEMMA UpdateOfSame ==
  ASSUME NEW d \in Nodes, NEW p \in Ports, d.lports[p] # None
  PROVE  UpdateModelObject(d, p, d.lports[p]) = d
<1>1. d.lports[p].version \in Nat
  BY BoundsAssumption DEF Nodes, Lports
<1>2. ~(d.lports[p].version > d.lports[p].version)
  BY <1>1
<1>3. QED
  BY <1>2 DEF UpdateModelObject

\* Deleting a cached port.
LEMMA DeleteFrame ==
  ASSUME NEW d \in Nodes, NEW p \in Ports, d.lports[p] # None,
         NEW r, r = DeleteModelObject(d, p)
  PROVE  Frame(d, r, p) /\ r.lports[p] = None
<1> DEFINE o == d.lports[p]
           e == PortDeleted(d, p, o)
<1>1. o.enabled \in BOOLEAN
  BY DEF Nodes, Lports
<1>2. e = Detached(d, p, o.enabled /\ p \in d.local_ports,
                   o.enabled /\ p \in d.remote_ports)
  BY <1>1 DEF PortDeleted, Detached
<1>3. r = [e EXCEPT !.lports[p] = None]
  BY DEF DeleteModelObject
<1> HIDE DEF o, e
<1>4. Frame(d, e, p) /\ e \in Nodes
  BY <1>2, DetachedFrame DEF Frame
<1>5. CachedOnlyPost(e, p, None, r)
  BY <1>3, <1>4, CachedOnly
<1>6. Frame(e, r, p) /\ r.lports[p] = None
  BY <1>5 DEF CachedOnlyPost
<1>7. QED
  BY <1>4, <1>6, FrameTransitive

\* Deleting a port leaves the node right about it, and about its network.
LEMMA DeletePort ==
  ASSUME NEW d \in Nodes, NEW p \in Ports, d.lports[p] # None,
         NEW r, r = DeleteModelObject(d, p), GoodPort(d, p)
  PROVE  /\ GoodPort(r, p)
         /\ /\ NetPorts(d, NetOf[p], p)
            /\ NetLocal(d, NetOf[p]) /\ NetBum(d, NetOf[p])
            => NetLocal(r, NetOf[p]) /\ NetBum(r, NetOf[p])
<1> DEFINE o == d.lports[p]
           e == PortDeleted(d, p, o)
           n == NetOf[p]
<1>1. /\ o.enabled \in BOOLEAN
      /\ ~o.enabled => p \notin d.local_ports /\ p \notin d.remote_ports
  BY DEF Nodes, Lports, GoodPort, Loc, Rem
<1>2. e = Detached(d, p, p \in d.local_ports, p \in d.remote_ports)
  BY <1>1 DEF PortDeleted, Detached
<1>3. r = [e EXCEPT !.lports[p] = None]
  BY DEF DeleteModelObject
<1> HIDE DEF o, e
<1>4. Frame(d, e, p) /\ e \in Nodes
  BY <1>2, DetachedFrame DEF Frame
<1>5. PortOK(d, p) /\ ~(p \in d.local_ports /\ p \in d.remote_ports)
  BY GoodRefs DEF GoodPort
<1>6. /\ PortOK(e, p) /\ p \notin e.local_ports /\ p \notin e.remote_ports
      /\ /\ NetPorts(d, n, p) /\ NetLocal(d, n) /\ BumPresent(d, n)
         /\ p \notin d.remote_ports => NetBum(d, n)
         => NetLocal(e, n) /\ NetBum(e, n)
  BY <1>2, <1>5, DetachedPort
<1>7. CachedOnlyPost(e, p, None, r)
  BY <1>3, <1>4, CachedOnly
<1>8. GoodPort(r, p)
  BY <1>6, <1>7, Zenon DEF CachedOnlyPost, GoodPort, Known, Loc, Rem
<1>9. ASSUME NetPorts(d, n, p), NetLocal(d, n), NetBum(d, n)
      PROVE  NetLocal(r, n) /\ NetBum(r, n)
  <2>1. NetLocal(e, n) /\ NetBum(e, n)
    BY <1>6, <1>9, Zenon DEF NetBum
  <2>2. QED
    BY <1>6, <1>7, <2>1 DEF CachedOnlyPost
<1>10. QED
  BY <1>8, <1>9

----------------------------------------------------------------------------
(* The invariant.                                                          *)

\* Between a reconnection of the switch and the sync, the applications have
\* forgotten the ports of S.
Bare(d, S) ==
    /\ \A q \in S : PortOK(d, q) /\ q \notin d.local_ports /\ q \notin d.remote_ports
    /\ \A n \in Nets : Within(n, S) => NetLocal(d, n)

\* A change of port p that leaves the node right about p, if p is in T, leaves
\* it right about all of T.
LEMMA StepGood ==
  ASSUME NEW d \in Nodes, NEW r, NEW p \in Ports, Frame(d, r, p),
         NEW S \in SUBSET Ports, NEW T \in SUBSET S, Good(d, S),
         p \in T =>
           /\ GoodPort(r, p)
           /\ /\ NetPorts(d, NetOf[p], p)
              /\ NetLocal(d, NetOf[p]) /\ NetBum(d, NetOf[p])
              => NetLocal(r, NetOf[p]) /\ NetBum(r, NetOf[p])
  PROVE  Good(r, T)
<1>1. ASSUME NEW q \in T PROVE GoodPort(r, q)
  <2>1. q \in S /\ GoodPort(d, q)
    BY DEF Good
  <2>2. CASE q = p
    BY <2>2
  <2>3. CASE q # p
    BY <2>1, <2>3, FrameKeepsGood
  <2>4. QED
    BY <2>2, <2>3
<1>2. ASSUME NEW n \in Nets, Within(n, T) PROVE NetLocal(r, n) /\ NetBum(r, n)
  <2>1. Within(n, S)
    BY <1>2 DEF Within
  <2>2. NetLocal(d, n) /\ NetBum(d, n)
    BY <2>1 DEF Good
  <2>3. CASE n # NetOf[p]
    BY <2>2, <2>3, FrameKeepsGood
  <2>4. CASE n = NetOf[p]
    <3>1. p \in T
      BY <1>2, <2>4 DEF Within
    <3>2. \A q \in Ports : NetOf[q] = n => GoodPort(d, q)
      BY <2>1 DEF Within, Good
    <3>3. NetPorts(d, n, p)
      BY <3>2, GoodRefs DEF NetPorts, GoodPort
    <3>4. QED
      BY <2>2, <2>4, <3>1, <3>3
  <2>5. QED
    BY <2>3, <2>4
<1>3. QED
  BY <1>1, <1>2 DEF Good

\* Between reconnection and sync, a change of a port displaces that port only.
LEMMA StepBare ==
  ASSUME NEW d \in Nodes, NEW r, NEW p \in Ports, Frame(d, r, p),
         NEW S \in SUBSET Ports, NEW T \in SUBSET S, p \notin T, Bare(d, S)
  PROVE  Bare(r, T)
<1>1. ASSUME NEW q \in T
      PROVE  PortOK(r, q) /\ q \notin r.local_ports /\ q \notin r.remote_ports
  <2>1. q \in Ports \ {p} /\ PortOK(d, q)
    BY DEF Bare
  <2>2. PortOK(r, q)
    BY <2>1, FrameKeepsPort
  <2>3. QED
    BY <2>1, <2>2 DEF Bare, Frame, SamePort
<1>2. ASSUME NEW n \in Nets, Within(n, T) PROVE NetLocal(r, n)
  <2>1. n # NetOf[p] /\ Within(n, S)
    BY <1>2 DEF Within
  <2>2. QED
    BY <2>1, FrameKeepsNet DEF Bare
<1>3. QED
  BY <1>1, <1>2 DEF Bare

\* The address of a chassis that no cached port of T is bound to may change.
ChassisPost(d, r, S, T) ==
    /\ r \in Nodes /\ r.lports = d.lports
    /\ Good(d, S) => Good(r, T)
    /\ Bare(d, S) => Bare(r, T)

\* Changing the address of such a chassis leaves the node right about T.
LEMMA ChassisGood ==
  ASSUME NEW d \in Nodes, NEW c \in Chassis, NEW v \in Ips \cup {None},
         NEW r, r = [d EXCEPT !.chassis[c] = v],
         NEW S \in SUBSET Ports, NEW T \in SUBSET S,
         \A q \in T : d.lports[q] # None => d.lports[q].chassis # c
  PROVE  ChassisPost(d, r, S, T)
<1> DEFINE ch == [d.chassis EXCEPT ![c] = v]
<1>1. /\ ch \in [Chassis -> Ips \cup {None}] /\ ch[c] = v
      /\ \A k \in Chassis \ {c} : ch[k] = d.chassis[k]
  BY DEF Nodes
<1>2. r = [d EXCEPT !.chassis = ch]
  BY DEF Nodes
<1> HIDE DEF ch
<1>3. /\ r \in Nodes /\ r.lports = d.lports /\ r.chassis = ch
      /\ SameBindings(d, r) /\ SameL2(d, r) /\ SameTun(d, r)
      /\ SameProv(d, r) /\ r.egress = d.egress
  BY <1>1, <1>2, ZenonT(60) DEF Nodes, SameBindings, SameL2, SameTun, SameProv
<1>4. ASSUME NEW q \in Ports PROVE PortOK(d, q) => PortOK(r, q)
  BY <1>3 DEF PortOK, SameBindings, SameL2, SameTun, SameProv
<1>5. ASSUME NEW n \in Nets
      PROVE  /\ NetLocal(d, n) => NetLocal(r, n)
             /\ BumPresent(d, n) => BumPresent(r, n)
  BY <1>3 DEF NetLocal, BumPresent, SameBindings, SameL2, SameTun, SameProv
<1>6. Bare(d, S) => Bare(r, T)
  <2> SUFFICES ASSUME Bare(d, S) PROVE Bare(r, T)
    OBVIOUS
  <2>1. \A q \in T : /\ PortOK(r, q)
                     /\ q \notin r.local_ports /\ q \notin r.remote_ports
    BY <1>3, <1>4, Zenon DEF Bare, SameBindings
  <2>2. ASSUME NEW n \in Nets, Within(n, T) PROVE NetLocal(r, n)
    BY <1>5, <2>2 DEF Bare, Within
  <2>3. QED
    BY <2>1, <2>2 DEF Bare
<1>7. Good(d, S) => Good(r, T)
  <2> SUFFICES ASSUME Good(d, S) PROVE Good(r, T)
    OBVIOUS
  <2>1. ASSUME NEW q \in T, d.lports[q] # None, d.lports[q].chassis # None
        PROVE  /\ d.lports[q].chassis \in Chassis
               /\ r.chassis[r.lports[q].chassis] = d.chassis[d.lports[q].chassis]
    <3>1. d.lports[q] \in Lports
      BY <2>1 DEF Nodes
    <3>2. d.lports[q].chassis \in Chassis \ {c}
      BY <2>1, <3>1 DEF Lports
    <3>3. QED
      BY <1>1, <1>3, <3>2
  <2>2. ASSUME NEW q \in T PROVE GoodPort(r, q)
    <3>1. GoodPort(d, q) /\ q \in Ports
      BY DEF Good
    <3>2. Known(r, q)
      BY <1>3, <2>1, <3>1 DEF GoodPort, Known
    <3>3. QED
      BY <1>3, <1>4, <3>1, <3>2 DEF GoodPort, SameBindings
  <2>3. ASSUME NEW n \in Nets, Within(n, T) PROVE NetLocal(r, n) /\ NetBum(r, n)
    <3>1. NetLocal(d, n) /\ NetBum(d, n)
      BY <2>3 DEF Good, Within
    <3>2. /\ r.remote_ports = d.remote_ports /\ r.bum = d.bum
          /\ d.remote_ports \in SUBSET Ports
      BY <1>3 DEF SameBindings, SameTun, Nodes
    <3>3. \A q \in Of(d.remote_ports, n) :
            r.chassis[r.lports[q].chassis] = d.chassis[d.lports[q].chassis]
      <4>1. ASSUME NEW q \in Of(d.remote_ports, n)
            PROVE  r.chassis[r.lports[q].chassis] = d.chassis[d.lports[q].chassis]
        <5>1. q \in T /\ q \in d.remote_ports /\ q \in S
          BY <2>3, <3>2 DEF Of, Within
        <5>2. d.lports[q] # None /\ d.lports[q].chassis # None
          BY <5>1 DEF Good, GoodPort, Rem, IsRemote
        <5>3. QED
          BY <2>1, <5>1, <5>2
      <4>2. QED
        BY <4>1
    <3>4. {r.chassis[r.lports[q].chassis] : q \in Of(d.remote_ports, n)}
            = {d.chassis[d.lports[q].chassis] : q \in Of(d.remote_ports, n)}
      BY <3>3
    <3>5. NetBum(r, n)
      BY <3>1, <3>2, <3>4, Zenon DEF NetBum, BumPresent
    <3>6. QED
      BY <1>5, <3>1, <3>5
  <2>4. QED
    BY <2>2, <2>3 DEF Good
<1>8. QED
  BY <1>1, <1>3, <1>6, <1>7 DEF ChassisPost

\* The inductive invariant.  Ports displaced by one of the events that PortApps
\* names are left out of it, and so are networks with such a port.
IInv ==
    /\ TypeOK
    /\ \A p \in Ports : nb[p] # None => nb[p].version <= writes
    /\ resync \/ kept => reconnects > 0
    /\ ~resync => Good(node, Settled)
    /\ resync => Bare(node, Settled)

\* The node starts with no ports and no flows for them.
LEMMA InitIInv == Init => IInv
<1> SUFFICES ASSUME Init PROVE IInv
  OBVIOUS
<1> USE DEF Init
<1>1. node \in Nodes
  BY HereAssumption DEF Nodes
<1>2. TypeOK
  <2>1. nb_chassis \in [Chassis -> Ips \cup {None}]
    BY HereAssumption
  <2>2. writes \in 0 .. MaxWrites /\ reconnects \in 0 .. MaxReconnects
    BY BoundsAssumption
  <2>3. nb \in [Ports -> Lports \cup {None}] /\ used \subseteq Ports
        /\ tunneled \subseteq Nets /\ displaced \subseteq Ports
    OBVIOUS
  <2>4. resync \in BOOLEAN /\ kept \in BOOLEAN
    BY Zenon
  <2> HIDE DEF Init
  <2>5. QED
    BY <1>1, <2>1, <2>2, <2>3, <2>4 DEF TypeOK
<1>3. ASSUME NEW q \in Ports PROVE GoodPort(node, q)
  BY DEF GoodPort, PortOK, Known, Loc, Rem, One
<1>4. ASSUME NEW n \in Nets PROVE NetLocal(node, n) /\ NetBum(node, n)
  BY DEF NetLocal, NetBum, BumPresent, Of
<1>5. Good(node, Settled)
  BY <1>3, <1>4, Zenon DEF Good, Settled
<1>6. QED
  BY <1>2, <1>5 DEF IInv

\* Good and Bare speak of kept, reconnects and tunneled too.
LEMMA GoodNext ==
  ASSUME UNCHANGED <<kept, reconnects, tunneled>>, Good(node', Settled')
  PROVE  Good(node, Settled)'
<1>1. ASSUME NEW q \in Settled' PROVE GoodPort(node, q)'
  <2>1. GoodPort(node', q)
    BY DEF Good
  <2>2. QED
    BY <2>1 DEF GoodPort, PortOK, Known, Loc, Rem, IsLocal, IsRemote, One
<1>2. ASSUME NEW n \in Nets, Within(n, Settled')
      PROVE  NetLocal(node, n)' /\ NetBum(node, n)'
  <2>1. NetLocal(node', n) /\ NetBum(node', n)
    BY <1>2 DEF Good
  <2>2. QED
    BY <2>1 DEF NetLocal, NetBum, BumPresent, Of
<1>3. QED
  BY <1>1, <1>2 DEF Good, Within

\* The same for Bare.
LEMMA BareNext ==
  ASSUME UNCHANGED <<kept, reconnects, tunneled>>, Bare(node', Settled')
  PROVE  Bare(node, Settled)'
BY DEF Bare, PortOK, NetLocal, Within, Of, One

\* A step that leaves the database alone keeps the invariant if it leaves the
\* node right about its settled ports.
LEMMA NodeStep ==
  ASSUME IInv, TypeOK', ~resync => Good(node', Settled'),
         resync => Bare(node', Settled'),
         UNCHANGED <<kept, reconnects, tunneled, resync, nb, writes>>
  PROVE  IInv'
<1>1. ~resync' => Good(node, Settled)'
  BY GoodNext
<1>2. resync' => Bare(node, Settled)'
  BY BareNext
<1>3. QED
  BY <1>1, <1>2 DEF IInv

\* Writes to the database, which the node does not see.
LEMMA NbStep ==
  ASSUME IInv,
         \/ \E p \in Ports : NbCreate(p) \/ NbUpdate(p) \/ NbDelete(p)
         \/ \E c \in Chassis, ip \in Ips \cup {None} : NbChassis(c, ip)
  PROVE  IInv'
<1>1. UNCHANGED <<nodeVars, tunneled>>
  BY DEF NbCreate, NbUpdate, NbDelete, NbChassis
<1>2. /\ writes \in Nat /\ writes' \in 0 .. MaxWrites /\ writes' = writes + 1
  BY BoundsAssumption DEF IInv, TypeOK, NbCreate, NbUpdate, NbDelete, NbChassis, Write
<1> DEFINE Goal == /\ nb' \in [Ports -> Lports \cup {None}] /\ used' \subseteq Ports
                   /\ \A p \in Ports : nb'[p] # None => nb'[p].version <= writes'
                   /\ nb_chassis' \in [Chassis -> Ips \cup {None}]
<1>3. ASSUME NEW p \in Ports, NEW o \in Lports \cup {None},
             o # None => o.version <= writes + 1,
             nb' = [nb EXCEPT ![p] = o], used' \subseteq Ports, UNCHANGED nb_chassis
      PROVE  Goal
  <2>1. ASSUME NEW q \in Ports, nb'[q] # None PROVE nb'[q].version <= writes'
    <3>1. CASE q = p
      BY <1>2, <1>3, <2>1, <3>1 DEF IInv, TypeOK
    <3>2. CASE q # p
      <4>1. nb[q] \in Lports /\ nb'[q] = nb[q] /\ nb[q].version <= writes
        BY <1>3, <2>1, <3>2 DEF IInv, TypeOK
      <4>2. nb[q].version \in Nat
        BY <4>1, BoundsAssumption DEF Lports
      <4>3. QED
        BY <1>2, <4>1, <4>2
    <3>3. QED
      BY <3>1, <3>2
  <2>2. nb' \in [Ports -> Lports \cup {None}] /\ nb_chassis' \in [Chassis -> Ips \cup {None}]
    BY <1>3 DEF IInv, TypeOK
  <2>3. QED
    BY <1>3, <2>1, <2>2
<1>4. ASSUME NEW p \in Ports, NbCreate(p) PROVE Goal
  <2>1. PICK e \in BOOLEAN, c \in Chassis \cup {None} :
          nb' = [nb EXCEPT ![p] = [version |-> 1, enabled |-> e, chassis |-> c]]
    BY <1>4, Zenon DEF NbCreate
  <2> DEFINE o == [version |-> 1, enabled |-> e, chassis |-> c]
  <2>2. o \in Lports /\ o.version <= writes + 1
    BY <1>2, BoundsAssumption DEF Lports
  <2>3. used' \subseteq Ports /\ UNCHANGED nb_chassis /\ nb' = [nb EXCEPT ![p] = o]
    BY <1>4, <2>1, Zenon DEF NbCreate, IInv, TypeOK
  <2> HIDE DEF o, Goal
  <2>4. QED
    BY <1>3, <2>2, <2>3, Zenon
<1>5. ASSUME NEW p \in Ports, NbUpdate(p) PROVE Goal
  <2>1. PICK e \in BOOLEAN, c \in Chassis \cup {None} :
          nb' = [nb EXCEPT ![p] = [version |-> nb[p].version + 1,
                                   enabled |-> e, chassis |-> c]]
    BY <1>5, Zenon DEF NbUpdate
  <2> DEFINE o == [version |-> nb[p].version + 1, enabled |-> e, chassis |-> c]
  <2>2. nb[p] \in Lports /\ nb[p].version \in Nat /\ nb[p].version <= writes
    <3>1. nb[p] # None
      BY <1>5 DEF NbUpdate
    <3>2. nb[p] \in Lports /\ nb[p].version <= writes
      BY <3>1 DEF IInv, TypeOK
    <3>3. QED
      BY <3>2, BoundsAssumption DEF Lports
  <2>3. o \in Lports /\ o.version <= writes + 1
    BY <1>2, <2>2, BoundsAssumption DEF Lports
  <2>4. used' \subseteq Ports /\ UNCHANGED nb_chassis /\ nb' = [nb EXCEPT ![p] = o]
    BY <1>5, <2>1, Zenon DEF NbUpdate, IInv, TypeOK
  <2> HIDE DEF o, Goal
  <2>5. QED
    BY <1>3, <2>3, <2>4, Zenon
<1>6. ASSUME NEW p \in Ports, NbDelete(p) PROVE Goal
  <2>1. used' \subseteq Ports /\ UNCHANGED nb_chassis /\ nb' = [nb EXCEPT ![p] = None]
    BY <1>6 DEF NbDelete, IInv, TypeOK
  <2> HIDE DEF Goal
  <2>2. QED
    BY <1>3, <2>1, Zenon
<1>7. ASSUME NEW c \in Chassis, NEW ip \in Ips \cup {None}, NbChassis(c, ip) PROVE Goal
  <2>1. /\ UNCHANGED <<nb, used>>
        /\ nb_chassis' \in [Chassis -> Ips \cup {None}]
    BY <1>7 DEF NbChassis, IInv, TypeOK
  <2>2. ASSUME NEW q \in Ports, nb[q] # None PROVE nb[q].version <= writes'
    <3>1. nb[q] \in Lports /\ nb[q].version <= writes
      BY <2>2 DEF IInv, TypeOK
    <3>2. nb[q].version \in Nat
      BY <3>1, BoundsAssumption DEF Lports
    <3>3. QED
      BY <1>2, <3>1, <3>2
  <2>3. QED
    BY <2>1, <2>2 DEF IInv, TypeOK
<1>8. Goal
  BY <1>4, <1>5, <1>6, <1>7
<1> HIDE DEF Goal
<1>9. TypeOK'
  BY <1>1, <1>2, <1>8 DEF Goal, IInv, TypeOK, nodeVars
<1>10. /\ ~resync' => Good(node, Settled)'
       /\ resync' => Bare(node, Settled)'
  <2>1. /\ UNCHANGED <<kept, reconnects, tunneled>> /\ resync' = resync
        /\ node' = node /\ Settled' = Settled
    BY <1>1 DEF nodeVars, Settled
  <2>2. QED
    BY <2>1, GoodNext, BareNext DEF IInv
<1>11. QED
  BY <1>1, <1>8, <1>9, <1>10 DEF Goal, IInv, nodeVars

\* References of an object are cached before it.
LEMMA WithChassisGood ==
  ASSUME NEW d \in Nodes, NEW c \in Chassis \cup {None}, NEW r,
         r = WithChassis(d, c), nb_chassis \in [Chassis -> Ips \cup {None}],
         NEW S \in SUBSET Ports
  PROVE  /\ r \in Nodes /\ r.lports = d.lports
         /\ Good(d, S) => Good(r, S)
         /\ Bare(d, S) => Bare(r, S)
<1>1. CASE c # None /\ d.chassis[c] = None
  <2>1. r = [d EXCEPT !.chassis[c] = nb_chassis[c]] /\ c \in Chassis
        /\ nb_chassis[c] \in Ips \cup {None}
    BY <1>1 DEF WithChassis
  <2>2. r \in Nodes /\ r.lports = d.lports
    <3>1. ChassisPost(d, r, S, {})
      BY <2>1, ChassisGood
    <3>2. QED
      BY <3>1 DEF ChassisPost
  <2>3. ASSUME Good(d, S) PROVE Good(r, S)
    <3>1. \A q \in S : d.lports[q] # None => d.lports[q].chassis # c
      BY <1>1, <2>3 DEF Good, GoodPort, Known
    <3>2. QED
      BY <2>1, <2>3, <3>1, ChassisGood DEF ChassisPost
  <2>4. ASSUME Bare(d, S) PROVE Bare(r, S)
    <3>1. SameBindings(d, r) /\ SameL2(d, r) /\ SameTun(d, r)
          /\ SameProv(d, r) /\ r.egress = d.egress
      BY <2>1 DEF Nodes, SameBindings, SameL2, SameTun, SameProv
    <3>2. \A q \in S : PortOK(r, q) /\ q \notin r.local_ports /\ q \notin r.remote_ports
      BY <2>4, <3>1, ZenonT(60) DEF Bare, PortOK, SameBindings, SameL2, SameTun, SameProv
    <3>3. \A n \in Nets : Within(n, S) => NetLocal(r, n)
      BY <2>4, <3>1, Zenon DEF Bare, NetLocal, SameL2, SameTun, SameProv
    <3>4. QED
      BY <3>2, <3>3 DEF Bare
  <2>5. QED
    BY <2>2, <2>3, <2>4
<1>2. CASE ~(c # None /\ d.chassis[c] = None)
  BY <1>2 DEF WithChassis
<1>3. QED
  BY <1>1, <1>2

\* The event of a port.
LEMMA UpdateLportStep ==
  ASSUME IInv, NEW p \in Ports, UpdateLport(p)
  PROVE  IInv'
<1> DEFINE o == nb[p]
           d == WithChassis(node, o.chassis)
<1>1. /\ o # None /\ node' = UpdateModelObject(d, p, o)
      /\ node.lports[p] = None \/ o.version > node.lports[p].version
      /\ UNCHANGED <<nbVars, resync, reconnects, kept>>
  BY DEF UpdateLport
<1>2. o \in Lports /\ node \in Nodes /\ nb_chassis \in [Chassis -> Ips \cup {None}]
  BY <1>1, Zenon DEF IInv, TypeOK
<1>3. o.chassis \in Chassis \cup {None} /\ Settled \in SUBSET Ports
  BY <1>2 DEF Lports, Settled
<1>4. displaced' = displaced \cup {p} \/ displaced' = displaced
  BY DEF UpdateLport
<1>5. /\ resync => p \in displaced'
      /\ p \notin displaced' => (o.chassis # None => d.chassis[o.chassis] # None)
      /\ (p \notin displaced' /\ Rem(node.lports[p]) /\ Rem(o)) =>
           node.lports[p].chassis = o.chassis
  BY DEF UpdateLport, Rem
<1> HIDE DEF o
<1>6. /\ d \in Nodes /\ d.lports = node.lports
      /\ Good(node, Settled) => Good(d, Settled)
      /\ Bare(node, Settled) => Bare(d, Settled)
  BY <1>2, <1>3, WithChassisGood
<1> HIDE DEF d
<1>7. Frame(d, node', p)
  BY <1>1, <1>2, <1>6, UpdateFrame
<1>8. Settled' \in SUBSET Settled /\ (p \in Settled' => p \in Settled /\ p \notin displaced')
  BY <1>4 DEF Settled
<1>9. ~resync => Good(node', Settled')
  <2> SUFFICES ASSUME ~resync PROVE Good(node', Settled')
    OBVIOUS
  <2>1. Good(d, Settled)
    BY <1>6 DEF IInv
  <2>2. ASSUME p \in Settled'
        PROVE  /\ GoodPort(node', p)
               /\ /\ NetPorts(d, NetOf[p], p)
                  /\ NetLocal(d, NetOf[p]) /\ NetBum(d, NetOf[p])
                  => NetLocal(node', NetOf[p]) /\ NetBum(node', NetOf[p])
    <3>1. GoodPort(d, p)
      BY <1>8, <2>1, <2>2 DEF Good
    <3>2. /\ o.chassis # None => d.chassis[o.chassis] # None
          /\ (Rem(d.lports[p]) /\ Rem(o)) => d.lports[p].chassis = o.chassis
      BY <1>5, <1>6, <1>8, <2>2
    <3>3. d.lports[p] = None \/ o.version > d.lports[p].version
      BY <1>1, <1>6
    <3>4. QED
      BY <1>1, <1>2, <1>6, <3>1, <3>2, <3>3, UpdatePort, Zenon
  <2>3. QED
    BY <1>3, <1>6, <1>7, <1>8, <2>1, <2>2, StepGood
<1>10. resync => Bare(node', Settled')
  <2> SUFFICES ASSUME resync PROVE Bare(node', Settled')
    OBVIOUS
  <2>1. Bare(d, Settled) /\ p \notin Settled'
    BY <1>5, <1>6, <1>8 DEF IInv
  <2>2. QED
    BY <1>3, <1>6, <1>7, <1>8, <2>1, StepBare
<1>11. TypeOK' /\ UNCHANGED <<kept, reconnects, tunneled, resync, nb, writes>>
  BY <1>1, <1>4, <1>7, Zenon DEF IInv, TypeOK, Frame, nbVars
<1>12. QED
  BY <1>9, <1>10, <1>11, NodeStep

\* A cached port goes.
LEMMA DeleteStep ==
  ASSUME IInv, NEW p \in Ports, node.lports[p] # None,
         node' = DeleteModelObject(node, p),
         displaced' = IF resync THEN displaced \cup {p} ELSE displaced,
         UNCHANGED <<nbVars, resync, reconnects, kept>>
  PROVE  IInv'
<1>1. node \in Nodes /\ Settled \in SUBSET Ports
  BY DEF IInv, TypeOK, Settled
<1>2. Frame(node, node', p)
  BY <1>1, DeleteFrame
<1>3. Settled' \in SUBSET Settled /\ (resync => p \notin Settled')
  BY DEF Settled
<1>4. ~resync => Good(node', Settled')
  <2> SUFFICES ASSUME ~resync PROVE Good(node', Settled')
    OBVIOUS
  <2>1. Good(node, Settled)
    BY DEF IInv
  <2>2. ASSUME p \in Settled'
        PROVE  /\ GoodPort(node', p)
               /\ /\ NetPorts(node, NetOf[p], p)
                  /\ NetLocal(node, NetOf[p]) /\ NetBum(node, NetOf[p])
                  => NetLocal(node', NetOf[p]) /\ NetBum(node', NetOf[p])
    <3>1. GoodPort(node, p)
      BY <1>3, <2>1, <2>2 DEF Good
    <3>2. QED
      BY <1>1, <3>1, DeletePort
  <2>3. QED
    BY <1>1, <1>2, <1>3, <2>1, <2>2, StepGood
<1>5. resync => Bare(node', Settled')
  <2> SUFFICES ASSUME resync PROVE Bare(node', Settled')
    OBVIOUS
  <2>1. Bare(node, Settled)
    BY DEF IInv
  <2>2. QED
    BY <1>1, <1>2, <1>3, <2>1, StepBare
<1>6. TypeOK' /\ UNCHANGED <<kept, reconnects, tunneled, resync, nb, writes>>
  BY <1>2 DEF IInv, TypeOK, Frame, nbVars
<1>7. QED
  BY <1>4, <1>5, <1>6, NodeStep

\* The address of a chassis changes, or it goes with no port bound to it.
LEMMA ChassisStep ==
  ASSUME IInv, NEW c \in Chassis, NEW v \in Ips \cup {None},
         node' = [node EXCEPT !.chassis[c] = v],
         displaced' = displaced \cup PortsByChassis(node, c),
         UNCHANGED <<nbVars, resync, reconnects, kept>>
  PROVE  IInv'
<1>1. node \in Nodes /\ Settled \in SUBSET Ports
  BY DEF IInv, TypeOK, Settled
<1>2. /\ Settled' \in SUBSET Settled
      /\ \A q \in Settled' : node.lports[q] # None => node.lports[q].chassis # c
  BY DEF Settled, PortsByChassis, Cached
<1>3. /\ node' \in Nodes
      /\ Good(node, Settled) => Good(node', Settled')
      /\ Bare(node, Settled) => Bare(node', Settled')
  <2>1. ChassisPost(node, node', Settled, Settled')
    BY <1>1, <1>2, ChassisGood
  <2>2. QED
    BY <2>1 DEF ChassisPost
<1>4. TypeOK' /\ UNCHANGED <<kept, reconnects, tunneled, resync, nb, writes>>
  <2>1. displaced' \subseteq Ports
    BY DEF IInv, TypeOK, PortsByChassis, Cached
  <2>2. QED
    BY <1>3, <2>1, Zenon DEF IInv, TypeOK, nbVars
<1>5. /\ ~resync => Good(node', Settled')
      /\ resync => Bare(node', Settled')
  BY <1>3 DEF IInv
<1>6. QED
  BY <1>4, <1>5, NodeStep

\* A switch that reconnects: the applications start from nothing, and so do
\* the flows unless the switch kept them.
LEMMA SwitchFeaturesStep ==
  ASSUME IInv, NEW lost \in BOOLEAN, SwitchFeatures(lost)
  PROVE  IInv'
<1>1. node \in Nodes /\ reconnects \in Nat /\ reconnects' = reconnects + 1
  BY BoundsAssumption DEF IInv, TypeOK, SwitchFeatures
<1>2. /\ node' \in Nodes /\ node'.local_ports = {} /\ node'.remote_ports = {}
      /\ node'.l2_local = {}
      /\ lost => /\ node'.dst = {} /\ node'.in_dst = {}
                 /\ node'.egress = [p \in Ports |-> None]
                 /\ node'.bcast = [n \in Nets |-> None]
  <2> DEFINE ds == IF lost THEN {} ELSE node.dst
             in == IF lost THEN {} ELSE node.in_dst
             eg == IF lost THEN [p \in Ports |-> None] ELSE node.egress
             bc == IF lost THEN [n \in Nets |-> None] ELSE node.bcast
             bu == IF lost THEN [n \in Nets |-> None] ELSE node.bum
             ti == IF lost THEN {} ELSE node.tun_in
             pr == IF lost THEN {} ELSE node.prov
  <2>1. node' = [node EXCEPT !.local_ports = {}, !.remote_ports = {}, !.l2_local = {},
                             !.dst = ds, !.in_dst = in, !.egress = eg,
                             !.bcast = bc, !.bum = bu, !.tun_in = ti, !.prov = pr]
    BY <1>1 DEF SwitchFeatures, Nodes
  <2>2. /\ ds \in SUBSET Ports /\ in \in SUBSET Ports
        /\ eg \in [Ports -> Ips \cup {None, "local"}]
        /\ bc \in [Nets -> (SUBSET Ports) \cup {None}]
        /\ bu \in [Nets -> (SUBSET Ips) \cup {None}]
        /\ ti \in SUBSET Nets /\ pr \in SUBSET Nets
    BY <1>1 DEF Nodes
  <2>3. lost => /\ ds = {} /\ in = {} /\ eg = [p \in Ports |-> None]
                /\ bc = [n \in Nets |-> None]
    OBVIOUS
  <2> HIDE DEF ds, in, eg, bc, bu, ti, pr
  <2>4. QED
    BY <1>1, <2>1, <2>2, <2>3, Zenon DEF Nodes
<1>3. /\ resync' = TRUE /\ UNCHANGED <<nb, nb_chassis, used, writes, tunneled, displaced>>
      /\ ~kept' => lost
      /\ reconnects' \in 0 .. MaxReconnects /\ kept' \in BOOLEAN
      /\ reconnects' > 0
  <2>1. /\ resync' = TRUE /\ kept' = (kept \/ ~lost)
        /\ UNCHANGED <<nb, nb_chassis, used, writes, tunneled, displaced>>
    BY DEF SwitchFeatures, nbVars
  <2>2. ~kept' => lost
    BY <2>1, Zenon
  <2>3. kept' \in BOOLEAN
    BY <2>1 DEF IInv, TypeOK
  <2>4. reconnects' \in 0 .. MaxReconnects /\ reconnects' > 0
    BY <1>1, BoundsAssumption DEF SwitchFeatures
  <2>5. QED
    BY <2>1, <2>2, <2>3, <2>4
<1>4. TypeOK'
  BY <1>2, <1>3, Zenon DEF IInv, TypeOK
<1>5. ASSUME NEW q \in Ports PROVE PortOK(node, q)'
  <2>1. q \notin node'.local_ports /\ q \notin node'.remote_ports /\ q \notin node'.l2_local
    BY <1>2
  <2>2. ~kept' => q \notin node'.dst /\ q \notin node'.in_dst /\ node'.egress[q] = None
    BY <1>2, <1>3
  <2>3. reconnects' # 0
    BY <1>3
  <2>4. QED
    BY <2>1, <2>2, <2>3 DEF PortOK
<1>6. ASSUME NEW n \in Nets PROVE NetLocal(node, n)'
  <2>1. Of(node'.l2_local, n) = {}
    BY <1>2 DEF Of
  <2>2. ~kept' => node'.bcast[n] = None
    BY <1>2, <1>3
  <2>3. reconnects' # 0
    BY <1>3
  <2>4. QED
    BY <2>1, <2>2, <2>3 DEF NetLocal
<1>7. Bare(node, Settled)'
  BY <1>2, <1>5, <1>6 DEF Bare, Settled
<1>8. QED
  BY <1>3, <1>4, <1>7 DEF IInv

\* CONTROLLER_REINITIALIZE.
LEMMA ReinitializeStep ==
  ASSUME IInv, Reinitialize
  PROVE  IInv'
<1>1. /\ node \in Nodes /\ Bare(node, Settled) /\ resync /\ ~resync' /\ reconnects > 0
      /\ resync' \in BOOLEAN /\ nb_chassis \in [Chassis -> Ips \cup {None}]
      /\ UNCHANGED <<nb, nb_chassis, used, writes, tunneled, reconnects, kept, displaced>>
  BY Zenon DEF IInv, TypeOK, Reinitialize, nbVars
<1>2. /\ node' \in Nodes /\ node'.lports = [p \in Ports |-> None]
      /\ SameBindings(node, node') /\ SameL2(node, node') /\ SameTun(node, node')
      /\ SameProv(node, node') /\ node'.egress = node.egress
  <2> DEFINE lp == [p \in Ports |-> None]
  <2>1. node' = [node EXCEPT !.lports = lp, !.chassis = nb_chassis]
    BY DEF Reinitialize
  <2>2. lp \in [Ports -> Lports \cup {None}]
    OBVIOUS
  <2> HIDE DEF lp
  <2>3. /\ node' \in Nodes /\ node'.lports = lp
        /\ SameBindings(node, node') /\ SameL2(node, node') /\ SameTun(node, node')
        /\ SameProv(node, node') /\ node'.egress = node.egress
    BY <1>1, <2>1, <2>2, Zenon DEF Nodes, SameBindings, SameL2, SameTun, SameProv
  <2>4. QED
    BY <2>3 DEF lp
<1>3. TypeOK'
  BY <1>1, <1>2 DEF IInv, TypeOK
<1>4. ASSUME NEW q \in Settled PROVE GoodPort(node', q)
  <2>1. PortOK(node, q) /\ q \notin node.local_ports /\ q \notin node.remote_ports
        /\ node'.lports[q] = None
    BY <1>1, <1>2 DEF Bare, Settled
  <2>2. PortOK(node', q) /\ q \notin node'.local_ports /\ q \notin node'.remote_ports
    BY <1>2, <2>1 DEF PortOK, SameBindings, SameL2, SameTun, SameProv
  <2>3. QED
    BY <2>1, <2>2 DEF GoodPort, Known, Loc, Rem
<1>5. ASSUME NEW n \in Nets, Within(n, Settled)
      PROVE  NetLocal(node', n) /\ NetBum(node', n)
  <2>1. NetLocal(node', n)
    BY <1>1, <1>2, <1>5, Zenon DEF Bare, NetLocal, SameL2, SameTun, SameProv
  <2>2. NetBum(node', n)
    BY <1>1 DEF NetBum, BumPresent
  <2>3. QED
    BY <2>1, <2>2
<1>6. Settled' = Settled
  BY <1>1 DEF Settled
<1>7. Good(node', Settled')
  BY <1>4, <1>5, <1>6 DEF Good
<1>8. Good(node, Settled)'
  BY <1>1, <1>7, GoodNext
<1>9. QED
  BY <1>1, <1>3, <1>8 DEF IInv

\* Every step keeps the invariant.
LEMMA NextIInv == IInv /\ [Next]_vars => IInv'
<1> SUFFICES ASSUME IInv, [Next]_vars PROVE IInv'
  OBVIOUS
<1>1. CASE \E p \in Ports : NbCreate(p) \/ NbUpdate(p) \/ NbDelete(p)
  BY <1>1, NbStep
<1>2. CASE \E c \in Chassis, ip \in Ips \cup {None} : NbChassis(c, ip)
  BY <1>2, NbStep
<1>3. CASE \E p \in Ports : UpdateLport(p)
  BY <1>3, UpdateLportStep
<1>4. CASE \E p \in Ports : DeleteLport(p)
  <2>1. PICK p \in Ports : DeleteLport(p)
    BY <1>4
  <2>2. QED
    BY <2>1, DeleteStep DEF DeleteLport
<1>5. CASE \E c \in Chassis : UpdateChassis(c)
  <2>1. PICK c \in Chassis : UpdateChassis(c)
    BY <1>5
  <2>2. nb_chassis[c] \in Ips \cup {None}
    BY DEF IInv, TypeOK
  <2>3. QED
    BY <2>1, <2>2, ChassisStep DEF UpdateChassis, UpdateChassisObject
<1>6. CASE \E c \in Chassis : DeleteChassis(c)
  <2>1. PICK c \in Chassis : DeleteChassis(c)
    BY <1>6
  <2>2. CASE /\ PortsByChassis(node, c) = {}
             /\ node' = [node EXCEPT !.chassis[c] = None] /\ UNCHANGED displaced
    <3>1. displaced' = displaced \cup PortsByChassis(node, c)
      BY <2>2
    <3>2. QED
      BY <2>1, <2>2, <3>1, ChassisStep DEF DeleteChassis
  <2>3. CASE \E p \in PortsByChassis(node, c) :
               /\ node' = DeleteModelObject(node, p)
               /\ displaced' = IF resync THEN displaced \cup {p} ELSE displaced
    <3>1. PICK p \in PortsByChassis(node, c) :
            /\ node' = DeleteModelObject(node, p)
            /\ displaced' = IF resync THEN displaced \cup {p} ELSE displaced
      BY <2>3, SMTT(30)
    <3>2. p \in Ports /\ node.lports[p] # None
      BY DEF PortsByChassis, Cached
    <3>3. QED
      BY <2>1, <3>1, <3>2, DeleteStep DEF DeleteChassis
  <2>4. QED
    BY <2>1, <2>2, <2>3 DEF DeleteChassis
<1>7. CASE \E lost \in BOOLEAN : SwitchFeatures(lost)
  BY <1>7, SwitchFeaturesStep
<1>8. CASE Reinitialize
  BY <1>8, ReinitializeStep
<1>9. CASE UNCHANGED vars
  <2>1. /\ UNCHANGED <<kept, reconnects, tunneled, resync, nb, nb_chassis, used, writes>>
        /\ node' = node /\ displaced' = displaced
    BY <1>9 DEF vars, nbVars, nodeVars
  <2>2. Settled' = Settled
    BY <2>1 DEF Settled
  <2>3. TypeOK'
    BY <2>1 DEF IInv, TypeOK
  <2>4. /\ ~resync => Good(node', Settled')
        /\ resync => Bare(node', Settled')
    BY <2>1, <2>2 DEF IInv
  <2>5. QED
    BY <2>1, <2>3, <2>4, NodeStep
<1>10. QED
  BY <1>1, <1>2, <1>3, <1>4, <1>5, <1>6, <1>7, <1>8, <1>9 DEF Next

----------------------------------------------------------------------------
(* The properties.                                                         *)

\* The invariant implies the four parts of FlowsFollow.
LEMMA InvFollow == IInv => FlowsFollow
<1> SUFFICES ASSUME IInv PROVE FlowsFollow
  OBVIOUS
<1>1. node \in Nodes /\ Settled \in SUBSET Ports
  BY DEF IInv, TypeOK, Settled
<1>2. BindingsMatchCache
  <2> SUFFICES ASSUME ~resync PROVE BindingsMatchCache
    BY DEF BindingsMatchCache
  <2>1. \A q \in Settled : GoodPort(node, q)
    BY DEF IInv, Good
  <2>2. QED
    BY <1>1, <2>1 DEF BindingsMatchCache, Wanted, Cached, GoodPort, Loc, Rem
<1>3. LocalDelivery
  <2> SUFFICES ASSUME ~resync, NEW p \in Wanted(Settled, IsLocal)
               PROVE  /\ p \in node.dst /\ p \in node.in_dst
                      /\ node.egress[p] = "local"
                      /\ NetOf[p] \in SettledNets =>
                            /\ node.bcast[NetOf[p]] # None
                            /\ p \in node.bcast[NetOf[p]]
    BY DEF LocalDelivery
  <2>1. p \in Settled /\ p \in Ports /\ Loc(node.lports[p]) /\ GoodPort(node, p)
    BY <1>1 DEF Wanted, Cached, Loc, IInv, Good
  <2>2. p \in node.local_ports /\ PortOK(node, p)
    BY <2>1 DEF GoodPort
  <2>3. ASSUME NetOf[p] \in SettledNets
        PROVE  node.bcast[NetOf[p]] # None /\ p \in node.bcast[NetOf[p]]
    <3>1. Within(NetOf[p], Settled) /\ NetOf[p] \in Nets
      BY <2>3 DEF SettledNets, Within
    <3>2. NetLocal(node, NetOf[p])
      BY <3>1 DEF IInv, Good
    <3>3. p \in Of(node.l2_local, NetOf[p]) /\ Of(node.l2_local, NetOf[p]) \in SUBSET Ports
      BY <1>1, <2>2 DEF PortOK, Of, Nodes
    <3>4. QED
      BY <3>2, <3>3, NoneAssumption DEF NetLocal
  <2>4. QED
    BY <2>2, <2>3 DEF PortOK
<1>4. NetworkFlows
  <2> SUFFICES ASSUME reconnects = 0, NEW n \in SettledNets
      PROVE LET local  == {p \in Wanted(Ports, IsLocal) : NetOf[p] = n}
                remote == {p \in Wanted(Ports, IsRemote) : NetOf[p] = n}
            IN  /\ n \in node.tun_in \cup node.prov <=> local # {}
                /\ node.bcast[n] = IF local = {} THEN None ELSE local
                /\ n \in tunneled => node.bum[n] =
                      IF remote = {} THEN None
                      ELSE {node.chassis[node.lports[p].chassis] : p \in remote}
    BY Zenon DEF NetworkFlows
  <2>1. ~resync /\ ~kept /\ n \in Nets /\ Within(n, Settled)
    BY DEF IInv, TypeOK, SettledNets, Within
  <2>2. NetLocal(node, n) /\ NetBum(node, n)
    BY <2>1 DEF IInv, Good
  <2>3. \A q \in Ports : NetOf[q] = n => GoodPort(node, q)
    BY <2>1 DEF IInv, Good, Within
  <2>4. {p \in Wanted(Ports, IsLocal) : NetOf[p] = n} = Of(node.l2_local, n)
    BY <1>1, <2>3, Zenon DEF Wanted, Cached, GoodPort, PortOK, Loc, Of, Nodes
  <2>5. {p \in Wanted(Ports, IsRemote) : NetOf[p] = n} = Of(node.remote_ports, n)
    BY <1>1, <2>3 DEF Wanted, Cached, GoodPort, Rem, Of, Nodes
  <2>6. /\ n \in node.tun_in \cup node.prov <=> Of(node.l2_local, n) # {}
        /\ node.bcast[n] = IF Of(node.l2_local, n) = {} THEN None
                           ELSE Of(node.l2_local, n)
    BY <2>1, <2>2, Zenon DEF NetLocal
  <2>7. n \in tunneled => node.bum[n] =
          IF Of(node.remote_ports, n) = {} THEN None
          ELSE {node.chassis[node.lports[p].chassis] : p \in Of(node.remote_ports, n)}
    BY <2>2, Zenon DEF NetBum, BumPresent
  <2>8. QED
    BY <2>4, <2>5, <2>6, <2>7, Zenon
<1>5. NoStaleFlows
  <2> SUFFICES ASSUME ~resync, ~kept, NEW p \in Settled
               PROVE  /\ p \in node.in_dst => p \in Wanted(Ports, IsLocal)
                      /\ p \in node.dst \/ node.egress[p] # None =>
                           p \in Wanted(Ports, IsLocal) \cup Wanted(Ports, IsRemote)
    BY DEF NoStaleFlows
  <2>1. p \in Ports /\ GoodPort(node, p)
    BY <1>1 DEF IInv, Good
  <2>2. /\ p \in node.local_ports => p \in Wanted(Ports, IsLocal)
        /\ p \in node.remote_ports => p \in Wanted(Ports, IsRemote)
    BY <2>1 DEF GoodPort, Wanted, Cached, Loc, Rem
  <2>3. QED
    BY <2>1, <2>2 DEF GoodPort, PortOK
<1>6. QED
  BY <1>2, <1>3, <1>4, <1>5 DEF FlowsFollow

\* The state of the node and of the applications keeps its types whatever the
\* order of events: a list of ports never counts below zero, and no broadcast
\* flow has an address that is not one of a chassis.
THEOREM TypeCorrect == Spec => []TypeOK
<1>1. Init => IInv
  BY InitIInv
<1>2. IInv /\ [Next]_vars => IInv'
  BY NextIInv
<1>3. IInv => TypeOK
  BY DEF IInv
<1>4. QED
  BY <1>1, <1>2, <1>3, PTL DEF Spec

\* For every set of ports, networks and nodes: the sets of PortBindingApp, the
\* lists of the applications and the flows are those of the ports that the
\* cache says are bound, after every sequence of events (FlowsFollow).
THEOREM PortFlowsFollow == Spec => []FlowsFollow
<1>1. Init => IInv
  BY InitIInv
<1>2. IInv /\ [Next]_vars => IInv'
  BY NextIInv
<1>3. IInv => FlowsFollow
  BY InvFollow
<1>4. QED
  BY <1>1, <1>2, <1>3, PTL DEF Spec
=============================================================================
