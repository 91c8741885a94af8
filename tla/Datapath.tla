------------------------------ MODULE Datapath ------------------------------
(***************************************************************************)
(* The pipeline of the applications written for app_base                   *)
(* (switch/drivers/ovs/datapath.py): every time the switch connects,       *)
(* set_up gives each application of the layout tables of its own and a     *)
(* register for each public variable, and wires exit points to entry       *)
(* points with flows that carry the variables from one application's       *)
(* registers to the next one's.                                            *)
(*                                                                         *)
(* The sets of the code are visited and popped in any order.  The old      *)
(* applications, kept in flat tables below the offset, are one vertex.     *)
(***************************************************************************)
EXTENDS Naturals, FiniteSets, Sequences
LOCAL INSTANCE Functions
LOCAL INSTANCE SequencesExt

CONSTANTS
    Layouts,        \* [vertices : Seq([name, type]), edges : Seq(Edge)]
    Specification,  \* application type -> its app_base.Specification
    Regs,           \* REGS
    Offset,         \* datapath_autoalloc_table_offset
    LegacyMapping,  \* full_mapping of the old applications
    MaxSetUps       \* bound on connections of the switch

LEGACY_APP == "dragonflow-legacy"

VARIABLES
    layout,
    dp_allocs,      \* vertex -> [states, exitpoints, entrypoints, full_mapping]
    public_variables,
    table,          \* what _table_generator yields next
    apps,           \* the vertices instantiated since the last set_up
    table_handlers, \* table -> set_up that registered its packet-in handler
    flows,          \* exit table -> [dest, actions]
    pc, next,       \* the loop of set_up and its position
    setups          \* number of calls of set_up
vars == <<layout, dp_allocs, public_variables, table, apps, table_handlers,
          flows, pc, next, setups>>

Names == {layout.vertices[i].name : i \in DOMAIN layout.vertices}
SpecOf(i) == Specification[layout.vertices[i].type]

\* The allocation, the wiring and the handlers keep their type.
TypeOK ==
    /\ layout \in Layouts /\ setups \in 0 .. MaxSetUps
    /\ DOMAIN dp_allocs \subseteq Names \cup {LEGACY_APP}
    /\ \A v \in DOMAIN dp_allocs : Range(dp_allocs[v].full_mapping) \subseteq Regs
    /\ table \in Nat /\ apps \subseteq DOMAIN dp_allocs
    /\ Range(table_handlers) \subseteq 1 .. setups
    /\ \A t \in DOMAIN flows : flows[t].dest \in Nat
    /\ pc \in {"connecting", "alloc", "initialize", "wire", "done", "failed"}
    /\ next \in 1 .. 1 + Len(layout.vertices) + Len(layout.edges)

\* All tables below the offset are both exits and entries.
CreateLegacyDpAlloc ==
    [states |-> <<>>, entrypoints |-> [t \in 0 .. Offset - 1 |-> t],
     exitpoints |-> [t \in 0 .. Offset - 1 |-> t],
     full_mapping |-> LegacyMapping]

Init ==
    /\ layout \in Layouts
    /\ dp_allocs = [v \in {LEGACY_APP} |-> CreateLegacyDpAlloc]
    /\ public_variables = {} /\ table = Offset /\ apps = {}
    /\ table_handlers = <<>> /\ flows = <<>>
    /\ pc = "connecting" /\ next = 1 /\ setups = 0

----------------------------------------------------------------------------
(* set_up, from switch_features_handler. *)

\* The handlers of the tables of the last set_up's applications go.
ClearOldSetUp ==
    Restrict(table_handlers, DOMAIN table_handlers \
                  UNION {Range(dp_allocs[v].states) : v \in apps})

\* The vertices before the first whose class cannot be loaded.
Loaded == {i \in DOMAIN layout.vertices : \A j \in 1 .. i :
              layout.vertices[j].type \in DOMAIN Specification}

\* The switch connects, with or without the flows it had.
SetUp ==
    /\ pc \in {"connecting", "done", "failed"} /\ setups < MaxSetUps
    /\ setups' = setups + 1
    /\ flows' \in {flows, <<>>}
    /\ table_handlers' = ClearOldSetUp
    /\ table' = Offset /\ apps' = {} /\ next' = 1
    /\ public_variables' =
           UNION {DOMAIN SpecOf(i).public_mapping : i \in Loaded}
    /\ pc' = IF Loaded = DOMAIN layout.vertices THEN "alloc" ELSE "failed"
    /\ UNCHANGED <<layout, dp_allocs>>

\* Mutant: the registers an application keeps for itself are given away.
PrivateRegsToo(spec) == Regs \ Range(spec.public_mapping)

\* The registers for the variables a specification does not map.
UnmappedRegs(spec) ==
    Regs \ (Range(spec.public_mapping) \cup Range(spec.private_mapping))

\* Each state and each exit point takes the next table.
Tables(first, names) == [s \in Range(names) |->
    first - 1 + CHOOSE k \in DOMAIN names : names[k] = s]

\* The tables of a specification, its registers being chosen.
DpAlloc(spec, mapping) ==
    LET states == Tables(table, spec.states) IN
    [states |-> states,
     exitpoints |-> Tables(table + Len(spec.states), spec.exitpoints),
     entrypoints |-> [e \in DOMAIN spec.entrypoints |->
                          states[spec.entrypoints[e]]],
     full_mapping |-> [v \in DOMAIN spec.public_mapping \cup DOMAIN mapping |->
         IF v \in DOMAIN mapping THEN mapping[v] ELSE spec.public_mapping[v]]]

\* A vertex is allocated and instantiated; without enough registers set_up
\* raises, and the applications before it are left uninitialised.
CreateDpAlloc ==
    /\ pc = "alloc" /\ next <= Len(layout.vertices)
    /\ LET spec == SpecOf(next)
           unmapped_vars == public_variables \ DOMAIN spec.public_mapping
           mappings == Injection(unmapped_vars, UnmappedRegs(spec))
           name == layout.vertices[next].name
       IN  \/ /\ mappings = {}
              /\ pc' = "failed"
              /\ UNCHANGED <<dp_allocs, table, apps, next>>
           \/ \E m \in mappings :
                 /\ dp_allocs' = [v \in DOMAIN dp_allocs \cup {name} |->
                        IF v = name THEN DpAlloc(spec, m) ELSE dp_allocs[v]]
                 /\ table' = table + Len(spec.states) + Len(spec.exitpoints)
                 /\ apps' = apps \cup {name}
                 /\ next' = next + 1
                 /\ pc' = pc
    /\ UNCHANGED <<layout, public_variables, table_handlers, flows, setups>>

\* A table that has a handler keeps it: the registration raises.
RegisterTableHandler(t) ==
    IF t \in DOMAIN table_handlers THEN table_handlers
    ELSE [u \in DOMAIN table_handlers \cup {t} |->
              IF u = t THEN setups ELSE table_handlers[u]]

\* app.initialize(), whose failure is logged.
InitializeApp ==
    /\ pc = "initialize" /\ next <= Len(layout.vertices)
    /\ table_handlers' =
           IF SpecOf(next).handler
           THEN RegisterTableHandler(
                    dp_allocs[layout.vertices[next].name].states["main"])
           ELSE table_handlers
    /\ next' = next + 1
    /\ UNCHANGED <<layout, dp_allocs, public_variables, table, apps, flows,
                   pc, setups>>

\* Push the registers, then pop them in reverse order.
Translate(translations) ==
    LET regs(side) == [i \in DOMAIN translations |-> translations[i][side]] IN
    [i \in DOMAIN translations |-> <<"push", regs("exit")[i]>>]
    \o [i \in DOMAIN translations |-> <<"pop", Reverse(regs("entry"))[i]>>]

\* A variable is moved where the applications keep it in different registers.
Translations(exit, entry) ==
    {[exit |-> exit[v], entry |-> entry[v]] : v \in
         {w \in public_variables : exit[w] # entry[w]}}

\* An edge can be installed: no look-up of the code raises KeyError.
Wirable(e) ==
    /\ {e.exitpoint.vertex, e.entrypoint.vertex} \subseteq DOMAIN dp_allocs
    /\ LET exit == dp_allocs[e.exitpoint.vertex]
           entry == dp_allocs[e.entrypoint.vertex]
       IN  /\ public_variables \subseteq DOMAIN exit.full_mapping
                                         \cap DOMAIN entry.full_mapping
           /\ e.exitpoint.name \in DOMAIN exit.exitpoints
           /\ e.entrypoint.name \in DOMAIN entry.entrypoints

\* The flow of an exit table replaces the one it had.
InstallEdge ==
    /\ pc = "wire" /\ next <= Len(layout.edges)
    /\ LET e == layout.edges[next] IN
       \/ ~Wirable(e) /\ pc' = "failed" /\ UNCHANGED <<flows, next>>
       \/ /\ Wirable(e)
          /\ LET exit == dp_allocs[e.exitpoint.vertex]
                 entry == dp_allocs[e.entrypoint.vertex]
                 source == exit.exitpoints[e.exitpoint.name]
             IN \E translations \in SetToSeqs(
                       Translations(exit.full_mapping, entry.full_mapping)) :
                   flows' = [t \in DOMAIN flows \cup {source} |->
                       IF t = source
                       THEN [dest |-> entry.entrypoints[e.entrypoint.name],
                             actions |-> Translate(translations)]
                       ELSE flows[t]]
          /\ next' = next + 1 /\ pc' = pc
    /\ UNCHANGED <<layout, dp_allocs, public_variables, table, apps,
                   table_handlers, setups>>

\* set_up goes on to its next loop.
NextLoop ==
    /\ \/ pc = "alloc" /\ next > Len(layout.vertices) /\ pc' = "initialize"
       \/ pc = "initialize" /\ next > Len(layout.vertices) /\ pc' = "wire"
       \/ pc = "wire" /\ next > Len(layout.edges) /\ pc' = "done"
    /\ next' = 1
    /\ UNCHANGED <<layout, dp_allocs, public_variables, table, apps,
                   table_handlers, flows, setups>>

Next == SetUp \/ CreateDpAlloc \/ InitializeApp \/ InstallEdge \/ NextLoop

Spec == Init /\ [][Next]_vars

----------------------------------------------------------------------------
(* Properties. *)

\* What the actions of a flow do to a packet's registers.
Act(packet, action) ==
    IF action[1] = "push"
    THEN [packet EXCEPT !.stack = <<packet.regs[action[2]]>> \o @]
    ELSE [stack |-> Tail(packet.stack),
          regs |-> [packet.regs EXCEPT ![action[2]] = Head(packet.stack)]]

\* An edge leads to the application it names, and every public variable
\* arrives in the register where that application looks for it, in whatever
\* register the other one left it and however the moves overlap
\* (_install_edge and _install_goto).  Once set_up ended, so do all edges,
\* those the switch kept from an earlier connection included.
VariablesCarried ==
    pc = "done" => \A i \in DOMAIN layout.edges :
        LET e == layout.edges[i]
            exit == dp_allocs[e.exitpoint.vertex]
            entry == dp_allocs[e.entrypoint.vertex]
            flow == flows[exit.exitpoints[e.exitpoint.name]]
            packet == [stack |-> <<>>, regs |-> [r \in Regs |-> r]]
            arrived == FoldLeft(Act, packet, flow.actions)
        IN  /\ flow.dest = entry.entrypoints[e.entrypoint.name]
            /\ \A v \in public_variables :
                   arrived.regs[entry.full_mapping[v]] = exit.full_mapping[v]

\* No two public variables of an application share a register, and none is in
\* a register the application keeps for itself (_create_dp_alloc).
RegistersApart ==
    \A i \in DOMAIN layout.vertices :
        layout.vertices[i].name \in apps =>
            LET mapping == dp_allocs[layout.vertices[i].name].full_mapping IN
            /\ IsInjective(mapping)
            /\ Range(mapping) \cap Range(SpecOf(i).private_mapping) = {}

\* Every state and every exit point of the applications has a table of its
\* own, which no old application uses (_table_generator), and packets sent to
\* the controller from it reach the application of this connection, not the
\* one of an earlier connection (clear_old_set_up).
TablesApart ==
    /\ \A v, w \in apps :
         LET own == dp_allocs[v] other == dp_allocs[w] IN
         /\ Range(own.states) \cap Range(other.exitpoints) = {}
         /\ v # w => /\ Range(own.states) \cap Range(other.states) = {}
                     /\ Range(own.exitpoints) \cap Range(other.exitpoints) = {}
         /\ \A t \in Range(own.states) \cup Range(own.exitpoints) : t >= Offset
    /\ pc = "done" => \A i \in DOMAIN layout.vertices : SpecOf(i).handler =>
         table_handlers[dp_allocs[layout.vertices[i].name].states["main"]]
             = setups

\* A set-up that ends well is a pipeline: edges carry the variables, and tables
\* and registers do not interfere.
PipelineExact == VariablesCarried /\ RegistersApart /\ TablesApart
=============================================================================
