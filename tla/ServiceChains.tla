---------------------------- MODULE ServiceChains ----------------------------
(***************************************************************************)
(* Service function chaining: FcApp (controller/apps/fc.py) classifies     *)
(* packets of a port, and SfcApp (sfc.py) with its MPLS driver             *)
(* (sfc_mpls_driver.py) leads them through the groups of port pairs of a   *)
(* port chain, by labels that number the classifier and the group.         *)
(*                                                                         *)
(* One node and one chain: labels carry the chain's number.  All objects   *)
(* the chain refers to are cached before it, and a port stays cached while *)
(* its binding moves.  A flow for an Ethernet type stands for both types.  *)
(***************************************************************************)
EXTENDS FiniteSets, Naturals, Sequences

CONSTANTS
    Ports,
    Classifiers, FcPort, Side,  \* Side[f]: "source" or "dest" is FcPort[f]
    Pairs, Ingress, Egress,     \* ports of a pair
    Mpls,                       \* pairs that keep the label
    Groups, GroupPairs,         \* port_pairs a group may have
    ChainGroups, ChainClassifiers,  \* lists a chain may have
    None

VARIABLES
    node,
    reshaped,   \* history: the chain's lists changed so that labels did
    regrouped,  \* history: groups of the chain whose pairs were changed
    left,       \* history: classifiers whose destination left this node
    unchained,  \* history: classifiers whose port came while in no chain
    relocated   \* history: pairs whose ingress port alone came or left
hist == <<reshaped, regrouped, left, unchained, relocated>>
vars == <<node, hist>>

MaxFcs == 2
MaxGroups == 2

\* _create_label: ppg_idx | (fc_idx << 8) | (chain_idx << 11), for chain 0.
CreateLabel(fc_idx, ppg_idx) == ppg_idx + 256 * fc_idx
Labels == {CreateLabel(i, j) : i \in 0 .. MaxFcs - 1, j \in 0 .. MaxGroups}

Chains == [fcs : ChainClassifiers, groups : ChainGroups]
\* reg7 and the table after a port pair is chosen: its shim is taken off here
\* when it needs that and is local.
Buckets == Pairs \X {"egress", "decap"}

Nodes ==
    [local : SUBSET Ports, chain : Chains \cup {None},          \* db_store
     pairs : [Groups -> GroupPairs],                            \* db_store
     classify : SUBSET Classifiers,     \* flows of FcApp: into the chain,
     finish : SUBSET Classifiers,       \*   and after its end
     encap : [Classifiers -> Labels \cup {None}],     \* SFC_ENCAP_TABLE
     ends : [Labels -> ({"decap", "forward"} \X Classifiers) \cup {None}],
     all : [Labels -> (SUBSET Buckets) \cup {None}],   \* SFC_MPLS_DISPATCH
     here : [Labels -> (SUBSET Buckets) \cup {None}],  \* port lookup table
     shim : SUBSET Labels,                      \* SFC_MPLS_PP_DECAP_TABLE
     out_mpls : SUBSET (Ports \X Labels \X Labels),     \* portsec table
     out_none : [Ports -> Labels \cup {None}]]          \* portsec table

\* The cache and the flows keep their types.
TypeOK ==
    /\ node \in Nodes /\ reshaped \in BOOLEAN /\ regrouped \subseteq Groups
    /\ left \subseteq Classifiers /\ unchained \subseteq Classifiers
    /\ relocated \subseteq Pairs

ToSet(s) == {s[i] : i \in DOMAIN s}
IndexOf(s, x) == CHOOSE i \in DOMAIN s : s[i] = x

\* A port pair is in one group at most.
Disjoint(pairs) ==
    \A g, h \in Groups : g # h => ToSet(pairs[g]) \cap ToSet(pairs[h]) = {}

Nowhere == [l \in Labels |-> None]
Init ==
    /\ \E pairs \in {x \in [Groups -> GroupPairs] : Disjoint(x)} :
         node = [local |-> {}, chain |-> None, pairs |-> pairs,
                 classify |-> {}, finish |-> {},
                 encap |-> [f \in Classifiers |-> None],
                 ends |-> Nowhere, all |-> Nowhere, here |-> Nowhere,
                 shim |-> {}, out_mpls |-> {}, out_none |-> [p \in Ports |-> None]]
    /\ reshaped = FALSE /\ regrouped = {} /\ left = {} /\ unchained = {}
    /\ relocated = {}

----------------------------------------------------------------------------
(* Labels. *)

IngressLabel(c, f, g) ==
    CreateLabel(IndexOf(c.fcs, f) - 1, IndexOf(c.groups, g) - 1)
EgressLabel(c, f, g) == IngressLabel(c, f, g) + 1
EncapLabel(c, f) == IngressLabel(c, f, c.groups[1])
DecapLabel(c, f) == EgressLabel(c, f, c.groups[Len(c.groups)])

----------------------------------------------------------------------------
(* Flow classifiers: is_classification_local, is_dispatch_local, the flows *)
(* of FcApp and those of the driver.                                       *)

ClassifiedHere(d, f) == Side[f] = "source" => FcPort[f] \in d.local
DispatchedHere(d, f) == Side[f] = "dest" => FcPort[f] \in d.local

InstallEncap(d, c, f) == [d EXCEPT !.encap[f] = EncapLabel(c, f)]
UninstallEncap(d, f) == [d EXCEPT !.encap[f] = None]
InstallEnd(d, c, f, kind) == [d EXCEPT !.ends[DecapLabel(c, f)] = <<kind, f>>]
\* uninstall_decap_flows and uninstall_forward_to_dest have the same match.
UninstallEnd(d, c, f) == [d EXCEPT !.ends[DecapLabel(c, f)] = None]

\* _install_flow_classifier_flows of SfcApp: only one of the ends.
InstallClassifierFlows(d, c, f) ==
    LET d1 == IF ClassifiedHere(d, f) THEN InstallEncap(d, c, f) ELSE d
    IN  InstallEnd(d1, c, f, IF DispatchedHere(d, f) THEN "decap" ELSE "forward")

UninstallClassifierFlows(d, c, f) ==
    UninstallEnd(IF ClassifiedHere(d, f) THEN UninstallEncap(d, f) ELSE d, c, f)

\* _install_flow_classifier of FcApp, after SfcApp's flows.
InstallClassifier(d, c, f) ==
    [InstallClassifierFlows(d, c, f) EXCEPT
        !.classify = IF ClassifiedHere(d, f) THEN @ \cup {f} ELSE @,
        !.finish = IF DispatchedHere(d, f) THEN @ \cup {f} ELSE @]

UninstallClassifier(d, c, f) ==
    [UninstallClassifierFlows(d, c, f) EXCEPT
        !.classify = IF ClassifiedHere(d, f) THEN @ \ {f} ELSE @,
        !.finish = IF DispatchedHere(d, f) THEN @ \ {f} ELSE @]

----------------------------------------------------------------------------
(* Groups of port pairs. *)

Bucket(d, pp) ==
    <<pp, IF pp \in Mpls \/ Ingress[pp] \notin d.local THEN "egress" ELSE "decap">>
LocalPairs(d, pps) == {pp \in pps : Ingress[pp] \in d.local}

\* install_port_pair_group_flows: to all pairs, and to the local ones of
\* packets from other nodes.
InstallGroup(d, c, g, pps) ==
    LET ls == {IngressLabel(c, f, g) : f \in ToSet(c.fcs)}
        local == LocalPairs(d, pps)
    IN  [d EXCEPT
            !.shim = @ \cup ls,
            !.all = [l \in Labels |-> IF l \in ls THEN {Bucket(d, pp) : pp \in pps}
                                      ELSE @[l]],
            !.here = [l \in Labels |-> IF l \in ls /\ local # {}
                                       THEN {Bucket(d, pp) : pp \in local}
                                       ELSE @[l]]]

\* uninstall_port_pair_group_flows: the match of _uninstall_port_pair_decap_-
\* flows is no flow's; the local flow is only taken when a pair is local now.
UninstallGroup(d, c, g, pps) ==
    LET ls == {IngressLabel(c, f, g) : f \in ToSet(c.fcs)}
    IN  [d EXCEPT
            !.all = [l \in Labels |-> IF l \in ls THEN None ELSE @[l]],
            !.here = [l \in Labels |-> IF l \in ls /\ LocalPairs(d, pps) # {}
                                       THEN None ELSE @[l]]]

\* install_port_pair_egress_flows: without a label, one flow for the port
\* serves all classifiers, the last one's label staying.
InstallEgress(d, c, g, pp) ==
    LET last == c.fcs[Len(c.fcs)]
    IN  IF pp \in Mpls
        THEN [d EXCEPT !.out_mpls = @ \cup
                {<<Egress[pp], IngressLabel(c, f, g), EgressLabel(c, f, g)>> :
                    f \in ToSet(c.fcs)}]
        ELSE [d EXCEPT !.out_none[Egress[pp]] = EgressLabel(c, last, g)]

UninstallEgress(d, c, g, pp) ==
    IF pp \in Mpls
    THEN [d EXCEPT !.out_mpls = {x \in @ : ~ \E f \in ToSet(c.fcs) :
            x[1] = Egress[pp] /\ x[2] = IngressLabel(c, f, g)}]
    ELSE [d EXCEPT !.out_none[Egress[pp]] = None]

\* _install_port_pair_egress, _uninstall_port_pair_egress.
InstallLocalEgress(d, c, g, pp) ==
    IF Egress[pp] \in d.local THEN InstallEgress(d, c, g, pp) ELSE d
UninstallLocalEgress(d, c, g, pp) ==
    IF Egress[pp] \in d.local THEN UninstallEgress(d, c, g, pp) ELSE d

\* For each element of a list, in its order.
ForEach(Op(_, _, _), d, c, s) ==
    LET step[k \in 0 .. Len(s)] ==
            IF k = 0 THEN d ELSE Op(step[k - 1], c, s[k])
    IN  step[Len(s)]

AddGroup(d, c, g) ==
    ForEach(LAMBDA e, x, pp : InstallLocalEgress(e, x, g, pp),
            InstallGroup(d, c, g, ToSet(d.pairs[g])), c, d.pairs[g])
RemoveGroup(d, c, g) ==
    ForEach(LAMBDA e, x, pp : UninstallLocalEgress(e, x, g, pp),
            UninstallGroup(d, c, g, ToSet(d.pairs[g])), c, d.pairs[g])

----------------------------------------------------------------------------
(* Handlers of the events of chains. *)

ChainCreated(d, c) ==
    ForEach(AddGroup, ForEach(InstallClassifier, d, c, c.fcs), c, c.groups)
ChainDeleted(d, c) ==
    ForEach(RemoveGroup, ForEach(UninstallClassifier, d, c, c.fcs), c, c.groups)

Only(s, x) == SelectSeq(s, LAMBDA e : e \notin ToSet(x))

\* _port_chain_updated: groups are compared one by one; the labels of lists
\* that stay are not looked at.
ChainUpdated(d, new, old) ==
    LET d1 == ForEach(UninstallClassifier, d, old, Only(old.fcs, new.fcs))
        d2 == ForEach(InstallClassifier, d1, new, Only(new.fcs, old.fcs))
        n == IF Len(old.groups) > Len(new.groups) THEN Len(old.groups)
             ELSE Len(new.groups)
        step[k \in 0 .. n] ==
            IF k = 0 THEN d2
            ELSE LET has_old == k <= Len(old.groups)
                     has_new == k <= Len(new.groups)
                     same == has_old /\ has_new /\ old.groups[k] = new.groups[k]
                     e == IF has_old /\ ~same
                          THEN RemoveGroup(step[k - 1], old, old.groups[k])
                          ELSE step[k - 1]
                 IN  IF has_new /\ ~same THEN AddGroup(e, new, new.groups[k])
                     ELSE e
    IN  step[n]

\* _port_pair_group_updated: the names of the old and the new pair are
\* exchanged, so the egress flows of new pairs are removed and those of old
\* ones installed.
GroupUpdated(d, c, g, pps, old) ==
    LET d1 == InstallGroup(UninstallGroup(d, c, g, ToSet(old)), c, g, ToSet(pps))
        n == IF Len(old) > Len(pps) THEN Len(old) ELSE Len(pps)
        at(s, k) == IF k <= Len(s) THEN s[k] ELSE None
        step[k \in 0 .. n] ==
            IF k = 0 THEN d1
            ELSE LET x == at(pps, k)
                     y == at(old, k)
                     e == IF x \in {None, y} THEN step[k - 1]
                          ELSE UninstallLocalEgress(step[k - 1], c, g, x)
                 IN  IF y \in {None, x} THEN e ELSE InstallLocalEgress(e, c, g, y)
    IN  step[n]

----------------------------------------------------------------------------
(* Handlers of the events of ports.  The lookup of port pairs by ingress    *)
(* port asks with the egress port, and finds none.                          *)

FcsOf(p) == {f \in Classifiers : FcPort[f] = p}
InChain(d, f) == d.chain # None /\ f \in ToSet(d.chain.fcs)
GroupsOf(d, pp) == {g \in Groups : pp \in ToSet(d.pairs[g])}
ChainedPairs(d, p) ==
    {pp \in Pairs : Egress[pp] = p /\ d.chain # None /\
                    \E g \in ToSet(d.chain.groups) : pp \in ToSet(d.pairs[g])}

RECURSIVE PairsBound(_, _, _)
PairsBound(d, pps, bound) ==
    IF pps = {} THEN d
    ELSE LET pp == CHOOSE pp \in pps : TRUE
             g == CHOOSE g \in GroupsOf(d, pp) : TRUE
             e == IF bound THEN InstallEgress(d, d.chain, g, pp)
                  ELSE UninstallEgress(d, d.chain, g, pp)
             all == ToSet(d.pairs[g])
             r == IF Ingress[pp] # Egress[pp] THEN e
                  ELSE InstallGroup(UninstallGroup(e, d.chain, g, all),
                                    d.chain, g, all)
         IN  PairsBound(r, pps \ {pp}, bound)

\* Mutant: the forward flow is not replaced.
FcBoundKeepsForward(d, f) ==
    LET d1 == IF Side[f] = "source" THEN [d EXCEPT !.classify = @ \cup {f}]
              ELSE [d EXCEPT !.finish = @ \cup {f}]
    IN  IF ~InChain(d, f) \/ Side[f] = "dest" THEN d1
        ELSE InstallEncap(d1, d.chain, f)

\* _local_lport_added of FcApp, in a chain or not; _local_lport_created.
FcBound(d, f) ==
    LET d1 == IF Side[f] = "source" THEN [d EXCEPT !.classify = @ \cup {f}]
              ELSE [d EXCEPT !.finish = @ \cup {f}]
    IN  CASE ~InChain(d, f) -> d1
          [] InChain(d, f) /\ Side[f] = "source" -> InstallEncap(d1, d.chain, f)
          [] OTHER -> InstallEnd(UninstallEnd(d1, d.chain, f), d.chain, f, "decap")

\* _remove_local_port of FcApp; _local_lport_deleted: the forward flow is
\* installed and the decap flow, of the same match, is removed.
FcUnbound(d, f) ==
    LET d1 == IF Side[f] = "source" THEN [d EXCEPT !.classify = @ \ {f}]
              ELSE [d EXCEPT !.finish = @ \ {f}]
    IN  CASE ~InChain(d, f) -> d1
          [] InChain(d, f) /\ Side[f] = "source" -> UninstallEncap(d1, f)
          [] OTHER -> UninstallEnd(InstallEnd(d1, d.chain, f, "forward"), d.chain, f)

RECURSIVE FcsBound(_, _, _)
FcsBound(d, fs, bound) ==
    IF fs = {} THEN d
    ELSE LET f == CHOOSE f \in fs : TRUE
         IN  FcsBound(IF bound THEN FcBound(d, f) ELSE FcUnbound(d, f),
                      fs \ {f}, bound)

----------------------------------------------------------------------------
(* Steps. *)

Alone(p) == {pp \in Pairs : Ingress[pp] = p /\ Egress[pp] # p}

BindLocal(p) ==
    /\ p \notin node.local
    /\ LET d == [node EXCEPT !.local = @ \cup {p}]
       IN  node' = PairsBound(FcsBound(d, FcsOf(p), TRUE), ChainedPairs(d, p), TRUE)
    /\ unchained' = unchained \cup {f \in FcsOf(p) : ~InChain(node, f)}
    /\ relocated' = relocated \cup (IF node.chain # None THEN Alone(p) ELSE {})
    /\ UNCHANGED <<reshaped, regrouped, left>>

\* The port moves away: the cache has its new binding when the event comes.
UnbindLocal(p) ==
    /\ p \in node.local
    /\ LET d == [node EXCEPT !.local = @ \ {p}]
       IN  node' = PairsBound(FcsBound(d, FcsOf(p), FALSE), ChainedPairs(d, p), FALSE)
    /\ left' = left \cup {f \in FcsOf(p) : InChain(node, f) /\ Side[f] = "dest"}
    /\ unchained' = unchained \ FcsOf(p)
    /\ relocated' = relocated \cup
          (IF node.chain # None THEN {pp \in Pairs : Ingress[pp] = p} ELSE {})
    /\ UNCHANGED <<reshaped, regrouped>>

CreateChain(c) ==
    /\ node.chain = None
    /\ node' = ChainCreated([node EXCEPT !.chain = c], c)
    /\ unchained' = unchained \ ToSet(c.fcs)
    /\ UNCHANGED <<reshaped, regrouped, left, relocated>>

\* A label of a classifier or a group that stays is another one.
Reshapes(new, old) ==
    \/ new.fcs # old.fcs \/ Len(new.groups) # Len(old.groups)
    \/ \E i, j \in DOMAIN new.groups : i # j /\ new.groups[i] = old.groups[j]

UpdateChain(c) ==
    /\ node.chain \notin {None, c}
    /\ node' = ChainUpdated([node EXCEPT !.chain = c], c, node.chain)
    /\ reshaped' = (reshaped \/ Reshapes(c, node.chain))
    /\ UNCHANGED <<regrouped, left, unchained, relocated>>

DeleteChain ==
    /\ node.chain # None
    /\ node' = [ChainDeleted(node, node.chain) EXCEPT !.chain = None]
    /\ UNCHANGED hist

UpdateGroup(g, pps) ==
    /\ pps # node.pairs[g] /\ Disjoint([node.pairs EXCEPT ![g] = pps])
    /\ LET d == [node EXCEPT !.pairs[g] = pps]
           chained == node.chain # None /\ g \in ToSet(node.chain.groups)
       IN  /\ node' = IF chained
                      THEN GroupUpdated(d, d.chain, g, pps, node.pairs[g]) ELSE d
           /\ regrouped' = IF chained THEN regrouped \cup {g} ELSE regrouped
    /\ UNCHANGED <<reshaped, left, unchained, relocated>>

Next ==
    \/ \E p \in Ports : BindLocal(p) \/ UnbindLocal(p)
    \/ \E c \in Chains : CreateChain(c) \/ UpdateChain(c)
    \/ DeleteChain
    \/ \E g \in Groups, pps \in GroupPairs : UpdateGroup(g, pps)

Spec == Init /\ [][Next]_vars

----------------------------------------------------------------------------
(* Properties. *)

Chain == node.chain
Stages == 1 .. Len(Chain.groups)
PairsAt(k) == ToSet(node.pairs[Chain.groups[k]])
LabelAt(f, k) == CreateLabel(IndexOf(Chain.fcs, f) - 1, k - 1)

\* Packets of a classifier of the chain enter at the first group, are offered
\* every pair of each group, leave a local pair with the label of the next
\* group, and end at the destination or on the way to it, whatever ports came
\* and went.  A pair that loses the label serves one classifier only.
ChainTraversed ==
    Chain # None /\ ~reshaped => \A f \in ToSet(Chain.fcs) :
        /\ ClassifiedHere(node, f) => node.encap[f] = LabelAt(f, 1)
        /\ \A k \in Stages :
             /\ {b[1] : b \in node.all[LabelAt(f, k)]} = PairsAt(k)
             /\ Chain.groups[k] \notin regrouped =>
                \A pp \in PairsAt(k) : Egress[pp] \in node.local =>
                  IF pp \in Mpls
                  THEN {x \in node.out_mpls : x[1] = Egress[pp] /\ x[2] = LabelAt(f, k)}
                          = {<<Egress[pp], LabelAt(f, k), LabelAt(f, k + 1)>>}
                  ELSE Len(Chain.fcs) = 1 =>
                          node.out_none[Egress[pp]] = LabelAt(f, k + 1)
        /\ f \notin left => node.ends[LabelAt(f, Len(Chain.groups) + 1)] =
             <<IF DispatchedHere(node, f) THEN "decap" ELSE "forward", f>>

\* Packets are classified, and finish, exactly for the classifiers of the
\* chain and on the nodes the comments of _install_flow_classifier name.
Classified ==
    ~reshaped => \A f \in Classifiers \ unchained :
        /\ f \in node.classify <=> InChain(node, f) /\ ClassifiedHere(node, f)
        /\ f \in node.finish <=> InChain(node, f) /\ DispatchedHere(node, f)

\* Nothing of a deleted chain is left, however its ports moved while it was
\* there; what its pairs' own flows left behind is unused.
ChainRemoved ==
    Chain = None /\ ~reshaped =>
        /\ \A f \in Classifiers : node.encap[f] = None
        /\ \A l \in Labels : node.all[l] = None /\ node.ends[l] = None
        /\ regrouped = {} => /\ node.out_mpls = {}
                             /\ \A p \in Ports : node.out_none[p] = None
        /\ regrouped = {} /\ relocated = {} => \A l \in Labels : node.here[l] = None

\* Flows lead through a chain exactly as it is now, and through none when it is
\* gone (SfcApp, FcApp).
ChainFollowed == ChainTraversed /\ Classified /\ ChainRemoved
=============================================================================
