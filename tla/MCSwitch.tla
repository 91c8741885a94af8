------------------------------ MODULE MCSwitch ------------------------------
(***************************************************************************)
(* TLC instance of what a controller writes to the switch: the flows of    *)
(* ports and chassis (PortApps), of floating IPs (FloatingIps), of single  *)
(* ports (PortSecurity, Trunks), and below them the pipeline               *)
(* (Datapath), the fields of cookies (Cookies) and the removal of old      *)
(* flows (Aging).  They share no state here, so a behaviour is one of one  *)
(* of them: focus says of which.                                           *)
(***************************************************************************)
EXTENDS PortApps, Integers, Sequences, TLC

CONSTANTS p1, p2, n1, h, c1, c2, i0, i1, i2,
          y1, y2, z1, z2, k1, a1, a2, m1, m2

VARIABLES focus,
    f_node, f_resync, f_switched, f_moved, f_early, f_deleted,
    sec_node,
    t_node, t_early,
    layout, dp_allocs, public_variables, table, d_apps, table_handlers, d_flows,
    d_pc, next, setups,
    cookies, used_bits, modifiers,
    plugged, canary, flows, a_pc, queue, cached, do_aging, aging_cookie, timers,
    fresh, removed, a_faults, changes

OneNet == [p \in Ports |-> n1]
Addresses == [c \in Chassis |-> CASE c = h -> i0 [] c = c1 -> i1 [] OTHER -> i2]

\* Ports of PortApps are alike, and so are the two other nodes with their
\* addresses; no other module has them.
Nodewise ==
    {c1 :> c2 @@ c2 :> c1 @@ i1 :> i2 @@ i2 :> i1,
     c1 :> c1 @@ c2 :> c2 @@ i1 :> i1 @@ i2 :> i2}
Symmetry == {f @@ g : f \in Nodewise, g \in Permutations({p1, p2})}

Fip == INSTANCE FloatingIps WITH Ports <- {y1, y2}, Fips <- {k1},
    node <- f_node, resync <- f_resync, switched <- f_switched,
    moved <- f_moved, early <- f_early, deleted <- f_deleted

Sec == INSTANCE PortSecurity WITH node <- sec_node,
    Macs <- {m1, m2}, Addresses <- {a1, a2}

Tr == INSTANCE Trunks WITH node <- t_node, early <- t_early,
    Parents <- {y1, y2}, Children <- {z1, z2}

\* Four applications: one of the repository (portsec), one that watches packets,
\* one with more tables and variables, one with a variable nobody else has.
Specs ==
    [portsec |-> [states |-> <<"main">>, exitpoints |-> <<"default", "services">>,
                  entrypoints |-> [default |-> "main"],
                  public_mapping |-> [source |-> "r2"],
                  private_mapping |-> <<>>, handler |-> FALSE],
     log     |-> [states |-> <<"main">>, exitpoints |-> <<"default">>,
                  entrypoints |-> [default |-> "main"], public_mapping |-> <<>>,
                  private_mapping |-> <<>>, handler |-> TRUE],
     full    |-> [states |-> <<"main", "more">>, exitpoints |-> <<"default">>,
                  entrypoints |-> [default |-> "more"],
                  public_mapping |-> [network |-> "r0", source |-> "r1"],
                  private_mapping |-> [mine |-> "r2"], handler |-> TRUE],
     greedy  |-> [states |-> <<"main">>, exitpoints |-> <<>>,
                  entrypoints |-> [default |-> "main"],
                  public_mapping |-> [extra |-> "r0"],
                  private_mapping |-> [mine |-> "r1", more |-> "r2"],
                  handler |-> FALSE]]

Vertex(name, type) == [name |-> name, type |-> type]
Edge(v, x, w, y) == [exitpoint |-> [vertex |-> v, name |-> x],
                     entrypoint |-> [vertex |-> w, name |-> y]]
Old == "dragonflow-legacy"

\* The shape of the repository's layout, one whose variables change registers
\* twice, and three that cannot be set up: a variable is missing, there are too
\* few registers, a type is unknown.
DpLayouts ==
    {[vertices |-> <<Vertex("log", "log"), Vertex("portsec", "portsec")>>,
      edges |-> <<Edge(Old, 1, "log", "default"),
                  Edge("log", "default", "portsec", "default"),
                  Edge("portsec", "default", Old, 0),
                  Edge("portsec", "services", Old, 1)>>],
     [vertices |-> <<Vertex("a", "full"), Vertex("log", "log"),
                     Vertex("portsec", "portsec")>>,
      edges |-> <<Edge(Old, 1, "portsec", "default"),
                  Edge("portsec", "default", "a", "default"),
                  Edge("a", "default", "log", "default"),
                  Edge("log", "default", Old, 0)>>],
     [vertices |-> <<Vertex("log", "log"), Vertex("b", "greedy")>>,
      edges |-> <<Edge("log", "default", "b", "default"),
                  Edge("b", "default", Old, 0)>>],
     [vertices |-> <<Vertex("b", "greedy"), Vertex("a", "full")>>, edges |-> <<>>],
     [vertices |-> <<Vertex("log", "log"), Vertex("x", "unknown")>>,
      edges |-> <<>>]}

Dp == INSTANCE Datapath WITH apps <- d_apps, flows <- d_flows, pc <- d_pc,
    Layouts <- DpLayouts, Specification <- Specs,
    Regs <- {"r0", "r1", "r2", "r3"}, Offset <- 2,
    LegacyMapping <- [source |-> "r2", network |-> "r3"], MaxSetUps <- 2

Ck == INSTANCE Cookies WITH Apps <- {"sg", "l3"}, Names <- {"aging", "rule"},
    MaxLength <- 2, MaxGlobal <- 3, MaxLocal <- 3

Ag == INSTANCE Aging WITH pc <- a_pc, faults <- a_faults,
    Ports <- {y1, y2}, MaxFaults <- 2, MaxChanges <- 2

fipVars == <<f_node, f_resync, f_switched, f_moved, f_early, f_deleted>>
trVars == <<t_node, t_early>>
appVars == <<fipVars, sec_node, trVars>>
dpVars == <<layout, dp_allocs, public_variables, table, d_apps, table_handlers,
            d_flows, d_pc, next, setups>>
ckVars == <<cookies, used_bits, modifiers>>
agVars == <<plugged, canary, flows, a_pc, queue, cached, do_aging, aging_cookie,
            timers, fresh, removed, a_faults, changes>>
lowVars == <<dpVars, ckVars, agVars>>

MCInit ==
    /\ focus \in {"ports", "floating", "portsec", "trunk",
                  "datapath", "cookies", "aging"}
    /\ Init /\ Fip!Init /\ Sec!Init /\ Tr!Init
    /\ Dp!Init /\ Ck!Init /\ Ag!Init
    /\ focus # "ports" => tunneled = {}
    /\ focus # "datapath" => Len(layout.vertices) = 3
    /\ focus # "aging" => plugged = {}

MCNext ==
    \/ focus = "ports" /\ Next /\ UNCHANGED <<focus, appVars, lowVars>>
    \/ /\ focus = "floating" /\ Fip!Next
       /\ UNCHANGED <<focus, vars, sec_node, trVars, lowVars>>
    \/ /\ focus = "portsec" /\ Sec!Next
       /\ UNCHANGED <<focus, vars, fipVars, trVars, lowVars>>
    \/ /\ focus = "trunk" /\ Tr!Next
       /\ UNCHANGED <<focus, vars, fipVars, sec_node, lowVars>>
    \/ focus = "datapath" /\ Dp!Next /\ UNCHANGED <<focus, vars, appVars, ckVars, agVars>>
    \/ focus = "cookies" /\ Ck!Next /\ UNCHANGED <<focus, vars, appVars, dpVars, agVars>>
    \/ focus = "aging" /\ Ag!Next /\ UNCHANGED <<focus, vars, appVars, dpVars, ckVars>>

MCSpec == MCInit /\ [][MCNext]_<<focus, vars, appVars, lowVars>>

----------------------------------------------------------------------------
(* Properties: see the modules; those of PortApps keep their names. *)

\* All state keeps its type.
TypesOK ==
    /\ focus = "ports" => TypeOK
    /\ focus = "floating" => Fip!TypeOK
    /\ focus = "portsec" => Sec!TypeOK
    /\ focus = "trunk" => Tr!TypeOK
    /\ focus = "datapath" => Dp!TypeOK
    /\ focus = "cookies" => Ck!TypeOK
    /\ focus = "aging" => Ag!TypeOK

\* DNATApp: floating IPs are translated, and their ports bound, where the port
\* they are associated with is.
FloatingIpsFollow == focus = "floating" => Fip!FloatingIpsFollow

\* PortSecApp: what passes is what the port's current policy says.
PortSecured == focus = "portsec" => Sec!PortSecured

\* TrunkApp: nested ports are bound where their parents are, with their flows.
NestedPortsFollow == focus = "trunk" => Tr!NestedPortsFollow

\* Datapath: edges carry every public variable from the register of one side to
\* that of the other, and tables and registers do not interfere.
PipelineExact == focus = "datapath" => Dp!PipelineExact

\* Cookies: fields that may be in one cookie have no bit in common, and what is
\* put into one is what is read from it.
CookiesExact == focus = "cookies" => Ck!CookiesExact

\* AgingApp: in the end only flows of the current bit are left and none of a
\* removed port, and no flow that was just written is deleted.
AgingExact == [][focus = "aging" => Ag!AgingStep]_agVars
=============================================================================
