--------------------------- MODULE TopologyProofs ---------------------------
(***************************************************************************)
(* Proofs about Topology, for any number of ports, tenants and failures.   *)
(*                                                                         *)
(* TopicsStayNested: TopicsNested is inductive once it is known that       *)
(* topic_subscribed is a function on the topics; only the three operators  *)
(* on topics and a restart can disturb it.                                 *)
(*                                                                         *)
(* CountsFollowMapping: that the counted ports are those with a mapping    *)
(* between two handlers needs CountInv: at most one row per port is        *)
(* active, the events of a row end with what became of it, a mapping       *)
(* without a cached row is that of a migrating port or of a sync under     *)
(* way, and how far that sync has got (Counts, SyncInProgress).            *)
(***************************************************************************)
EXTENDS Topology, SequenceTheorems, TLAPS

Subscribed == topic_subscribed \in [Topics -> SUBSET Lports]

IInv == Subscribed /\ TopicsNested

\* register_topic subscribes before it tells Sync, and topic_subscribed is set
\* last.
LEMMA AddKeeps ==
  ASSUME IInv, NEW t \in Topics, NEW l \in Lports, NEW c, NEW more,
         AddToTopicSubscribed(t, l, c, more)
  PROVE  IInv'
<1>1. Subscribed'
  BY DEF IInv, Subscribed, AddToTopicSubscribed
<1>2. t \in topics' /\ topics \subseteq topics' /\ topics' \subseteq topics \cup {t}
      /\ topic_list \subseteq topic_list' /\ (t \in topic_list')
  BY DEF IInv, Subscribed, TopicsNested, AddToTopicSubscribed
<1>3. \A u \in Topics : topic_subscribed'[u] # {} => u = t \/ topic_subscribed[u] # {}
  BY DEF IInv, Subscribed, AddToTopicSubscribed
<1>4. QED
  BY <1>1, <1>2, <1>3 DEF IInv, TopicsNested

\* A register_topic that fails leaves at most a topic too many with the
\* subscriber.
LEMMA FailedAddKeeps ==
  ASSUME IInv, NEW t \in Topics, NEW c, AddToTopicFails(t, c)
  PROVE  IInv'
  BY DEF IInv, Subscribed, TopicsNested, AddToTopicFails

\* The last port of a topic takes it out of topic_subscribed, the subscriber
\* and Sync together.
LEMMA DelKeeps ==
  ASSUME IInv, NEW t \in Topics, NEW l \in Lports, NEW c,
         DelFromTopicSubscribed(t, l, c)
  PROVE  IInv'
<1>1. Subscribed'
  BY DEF IInv, Subscribed, DelFromTopicSubscribed
<1>2. CASE topic_subscribed[t] = {l}
  <2>1. topic_subscribed'[t] = {}
    BY <1>2 DEF IInv, Subscribed, DelFromTopicSubscribed
  <2>2. \A u \in Topics : topic_subscribed'[u] # {} =>
           u # t /\ topic_subscribed[u] # {}
    BY <2>1 DEF IInv, Subscribed, DelFromTopicSubscribed
  <2>3. topics' = topics \ {t} /\ topic_list' = topic_list \ {t}
    BY <1>2 DEF DelFromTopicSubscribed
  <2>4. QED
    BY <1>1, <2>2, <2>3 DEF IInv, TopicsNested
<1>3. CASE topic_subscribed[t] # {l}
  <2>1. \A u \in Topics : topic_subscribed'[u] # {} => topic_subscribed[u] # {}
    BY DEF IInv, Subscribed, DelFromTopicSubscribed
  <2>2. UNCHANGED <<topics, topic_list>>
    BY <1>3 DEF DelFromTopicSubscribed
  <2>3. QED
    BY <1>1, <2>1, <2>2 DEF IInv, TopicsNested
<1>4. QED
  BY <1>2, <1>3

\* Everything else leaves the topics alone.
LEMMA QuietKeeps ==
  ASSUME IInv, UNCHANGED <<topic_subscribed, topic_list, topics>>
  PROVE  IInv'
  BY DEF IInv, Subscribed, TopicsNested

LEMMA NextKeeps == IInv /\ [Next]_vars => IInv'
<1> SUFFICES ASSUME IInv, [Next]_vars PROVE IInv'
  OBVIOUS
<1> USE FunctionsAssumption
<1>1. ASSUME NEW l \in Lports, NbCreate(l) \/ NbDelete(l) \/ LportEvent(l)
      PROVE  IInv'
  BY <1>1, QuietKeeps DEF NbCreate, NbDelete, LportEvent, topoVars
<1>2. ASSUME NEW s \in SwitchPorts, Plug(s) \/ Change(s) \/ Unplug(s)
      PROVE  IInv'
  BY <1>2, QuietKeeps DEF Plug, Change, Unplug, Notify, topoVars
<1>3. ASSUME NEW s \in SwitchPorts, SwitchPortUpdated(s) PROVE IInv'
  <2>1. LportOf[s] \in Lports /\ TopicOf[LportOf[s]] \in Topics
    OBVIOUS
  <2>2. \/ UNCHANGED topoVars
        \/ AddToTopicFails(TopicOf[LportOf[s]], lports \cup {LportOf[s]})
        \/ AddToTopicSubscribed(TopicOf[LportOf[s]], LportOf[s],
                                lports \cup {LportOf[s]}, {LportOf[s]} \ Away)
    BY <1>3 DEF SwitchPortUpdated
  <2>3. QED
    BY <2>1, <2>2, QuietKeeps, AddKeeps, FailedAddKeeps DEF topoVars
<1>4. ASSUME NEW s \in SwitchPorts, SwitchPortDeleted(s) PROVE IInv'
  <2>1. LportOf[s] \in Lports /\ TopicOf[LportOf[s]] \in Topics
    OBVIOUS
  <2>2. \/ UNCHANGED <<topic_subscribed, topic_list, topics>>
        \/ \E c : DelFromTopicSubscribed(TopicOf[LportOf[s]], LportOf[s], c)
    BY <1>4 DEF SwitchPortDeleted, topoVars
  <2>3. QED
    BY <2>1, <2>2, QuietKeeps, DelKeeps
<1>5. ASSUME NEW s \in SwitchPorts, AddPort(s) PROVE IInv'
  BY <1>5, AddKeeps, FailedAddKeeps DEF AddPort, TopicOfPort
<1>6. ASSUME NEW s \in SwitchPorts, DelPort(s) PROVE IInv'
  BY <1>6, DelKeeps, QuietKeeps DEF DelPort, TopicOfPort
<1>7. ASSUME NEW s \in SwitchPorts, CheckPort(s) PROVE IInv'
  BY <1>7, QuietKeeps DEF CheckPort
<1>8. CASE StartSync \/ InstallMapping \/ SyncCache \/ UNCHANGED vars
  BY <1>8, QuietKeeps DEF StartSync, InstallMapping, SyncCache, vars, topoVars
<1>9. CASE Restart
  BY <1>9 DEF Restart, IInv, Subscribed, TopicsNested
<1>10. QED
  BY <1>1, <1>2, <1>3, <1>4, <1>5, <1>6, <1>7, <1>8, <1>9
     DEF Next, SyncStep, SwitchPortEvent

\* A topic some port counts on was read by Sync, and Sync keeps no topic whose
\* events are not received, whatever fails in register_topic and in
\* check_topology_info and in whichever order ports come and go.
THEOREM TopicsStayNested == Spec => []TopicsNested
<1>1. Init => IInv
  BY DEF Init, IInv, Subscribed, TopicsNested
<1>2. IInv => TopicsNested
  BY DEF IInv
<1>3. QED
  BY <1>1, <1>2, NextKeeps, PTL DEF Spec

----------------------------------------------------------------------------
(* The counts of the topics. *)

Actions == {"create", "set", "delete"}

\* Open vSwitch has s, or events of it are queued.
Active(s) == s \in ovs \/ ovsdb[s] # <<>>

\* The rows whose ports are counted, in the middle of sync() too.
Counted == (ovs_to_lport_mapping \cup new_map) \ todo

\* The rows the controller knows of.
Rows == switch_ports \cup ovs_to_lport_mapping \cup new_map

MigratingRows == {s \in SwitchPorts : LportOf[s] \in Migrating}

\* The part of TypeOK that the counts need.
CountTypes ==
    /\ Subscribed
    /\ faults \in Nat
    /\ ovsdb \in [SwitchPorts -> Seq(Actions)]
    /\ switch_ports \subseteq SwitchPorts
    /\ ovs_to_lport_mapping \subseteq SwitchPorts
    /\ pc \in {"idle", "check", "add"}
    /\ new_map \subseteq SwitchPorts

\* The last event of a row that was removed says so.
QueueEnds ==
    \A s \in SwitchPorts : s \notin ovs /\ ovsdb[s] # <<>> =>
        ovsdb[s][Len(ovsdb[s])] = "delete"

\* A port is not plugged again before the events of its last row were handled.
OneRow ==
    \A r, s \in SwitchPorts :
        LportOf[r] = LportOf[s] /\ Active(r) /\ Active(s) => r = s

\* The controller knows a row until its deletion, except one that migrates,
\* whose mapping stays.
RowsActive == \A s \in Rows \ MigratingRows : Active(s)

MappingCached ==
    ovs_to_lport_mapping \cup new_map \subseteq switch_ports \cup MigratingRows

\* check_topology_info moves rows from the old mapping to the new one, and
\* remembers those it has still to count.
SyncInProgress ==
    /\ pc = "idle" => scan = {} /\ new_map = {} /\ todo = {}
    /\ pc = "add" => scan = {}
    /\ scan \subseteq switch_ports /\ scan \cap new_map = {}
    /\ ovs_to_lport_mapping \cap new_map = {}
    /\ todo \subseteq ovs_to_lport_mapping \cup new_map

Counts ==
    \A t \in Topics :
        topic_subscribed[t] = {LportOf[s] : s \in {r \in Counted : TopicOfPort(r) = t}}

Quiet == faults = 0 /\ SerialReplug /\ MigratedOnce

CountInv ==
    /\ CountTypes
    /\ Quiet => /\ QueueEnds /\ OneRow /\ RowsActive
                /\ MappingCached /\ SyncInProgress /\ Counts

\* A fault is counted.
LEMMA FaultCounted == ASSUME faults \in Nat, Fault PROVE faults' \in Nat /\ faults' # 0
  BY DEF Fault

LEMMA TypesKept == CountTypes /\ [Next]_vars => CountTypes'
<1> SUFFICES ASSUME CountTypes, [Next]_vars PROVE CountTypes'
  OBVIOUS
<1> USE FunctionsAssumption DEF CountTypes, Subscribed
<1>1. ASSUME NEW s \in SwitchPorts, NEW a \in Actions PROVE Append(ovsdb[s], a) \in Seq(Actions)
  OBVIOUS
<1>2. ASSUME NEW s \in SwitchPorts, ovsdb[s] # <<>> PROVE Tail(ovsdb[s]) \in Seq(Actions)
  BY <1>2
<1>3. ASSUME NEW l \in Lports, NbCreate(l) \/ NbDelete(l) \/ LportEvent(l)
      PROVE  CountTypes'
  BY <1>3 DEF NbCreate, NbDelete, LportEvent, topoVars, cacheVars, syncVars
<1>4. ASSUME NEW s \in SwitchPorts, Plug(s) \/ Change(s) \/ Unplug(s)
      PROVE  CountTypes'
  <2>1. "create" \in Actions /\ "set" \in Actions /\ "delete" \in Actions
    BY DEF Actions
  <2>2. PICK a \in Actions : Notify(s, a)
    BY <1>4, <2>1 DEF Plug, Change, Unplug
  <2>3. ovsdb' \in [SwitchPorts -> Seq(Actions)]
    BY <1>1, <2>2 DEF Notify
  <2>4. QED
    BY <2>2, <2>3 DEF Notify, topoVars, cacheVars, syncVars
<1>5. ASSUME NEW s \in SwitchPorts, SwitchPortUpdated(s) PROVE CountTypes'
  BY <1>5, <1>2 DEF SwitchPortUpdated, Take, Fault, NoFault, AddToTopicFails,
       AddToTopicSubscribed, topoVars, cacheVars, syncVars
<1>6. ASSUME NEW s \in SwitchPorts, SwitchPortDeleted(s) PROVE CountTypes'
  <2>1. ovsdb' \in [SwitchPorts -> Seq(Actions)]
    BY <1>6, <1>2 DEF SwitchPortDeleted, Take
  <2>2. \/ UNCHANGED topic_subscribed
        \/ \E c : DelFromTopicSubscribed(TopicOf[LportOf[s]], LportOf[s], c)
    BY <1>6 DEF SwitchPortDeleted, topoVars
  <2>3. topic_subscribed' \in [Topics -> SUBSET Lports]
    BY <2>2 DEF DelFromTopicSubscribed
  <2>4. QED
    BY <1>6, <2>1, <2>3 DEF SwitchPortDeleted, Fault, NoFault, topoVars, syncVars
<1>7. ASSUME NEW s \in SwitchPorts, CheckPort(s) PROVE CountTypes'
  BY <1>7 DEF CheckPort, Fault, NoFault, Abort, Goto, topoVars, cacheVars, queueVars
<1>8. ASSUME NEW s \in SwitchPorts, AddPort(s) PROVE CountTypes'
  BY <1>8 DEF AddPort, Fault, NoFault, Abort, Goto, AddToTopicFails,
       AddToTopicSubscribed, queueVars, TopicOfPort
<1>9. ASSUME NEW s \in SwitchPorts, DelPort(s) PROVE CountTypes'
  BY <1>9 DEF DelPort, Abort, Goto, DelFromTopicSubscribed, queueVars, TopicOfPort
<1>10. CASE StartSync \/ InstallMapping \/ SyncCache \/ UNCHANGED vars
  BY <1>10 DEF StartSync, InstallMapping, SyncCache, Abort, Goto, Fault, NoFault,
       vars, topoVars, cacheVars, queueVars, syncVars
<1>11. CASE Restart
  <2>1. <<"create">> \in Seq(Actions) /\ <<>> \in Seq(Actions)
    BY DEF Actions
  <2>2. QED
    BY <1>11, <2>1 DEF Restart, Abort, Goto, Fault
<1>12. QED
  BY <1>3, <1>4, <1>5, <1>6, <1>7, <1>8, <1>9, <1>10, <1>11
     DEF Next, SyncStep, SwitchPortEvent

\* The controller knows at most one row of a logical port.
LEMMA RowsDiffer ==
  ASSUME Quiet, OneRow, RowsActive, CountTypes, NEW r \in Rows, NEW s \in Rows,
         LportOf[r] = LportOf[s]
  PROVE  r = s
<1>1. r \in SwitchPorts /\ s \in SwitchPorts
  BY DEF Rows, CountTypes
<1>2. CASE LportOf[r] \in Migrating
  BY <1>1, <1>2 DEF Quiet, MigratedOnce
<1>3. CASE LportOf[r] \notin Migrating
  BY <1>1, <1>3 DEF MigratingRows, RowsActive, OneRow
<1>4. QED
  BY <1>2, <1>3

\* An event of s is taken from its queue.
LEMMA QueueTaken ==
  ASSUME CountTypes, QueueEnds, OneRow, NEW s \in SwitchPorts,
         ovsdb[s] # <<>>, Take(s), UNCHANGED ovs
  PROVE  /\ QueueEnds' /\ OneRow'
         /\ Head(ovsdb[s]) # "delete" => Active(s)'
         /\ \A r \in SwitchPorts : r # s => (Active(r)' <=> Active(r))
<1>1. ovsdb' = [ovsdb EXCEPT ![s] = Tail(ovsdb[s])] /\ ovsdb[s] \in Seq(Actions)
  BY DEF Take, CountTypes
<1>2. \A r \in SwitchPorts : r # s => ovsdb'[r] = ovsdb[r]
  BY <1>1 DEF CountTypes
<1>3. ovsdb'[s] = Tail(ovsdb[s])
  BY <1>1 DEF CountTypes
<1>4. Tail(ovsdb[s]) # <<>> =>
        /\ Len(ovsdb[s]) > 1
        /\ Tail(ovsdb[s])[Len(Tail(ovsdb[s]))] = ovsdb[s][Len(ovsdb[s])]
  <2>1. /\ Tail(ovsdb[s]) \in Seq(Actions) /\ Len(Tail(ovsdb[s])) = Len(ovsdb[s]) - 1
        /\ \A i \in 1 .. Len(Tail(ovsdb[s])) : Tail(ovsdb[s])[i] = ovsdb[s][i + 1]
    BY <1>1, HeadTailProperties
  <2>2. Tail(ovsdb[s]) # <<>> => Len(Tail(ovsdb[s])) \in 1 .. Len(Tail(ovsdb[s]))
    BY <2>1
  <2>3. Len(ovsdb[s]) \in Nat
    BY <1>1
  <2>4. QED
    BY <2>1, <2>2, <2>3
<1>5. Tail(ovsdb[s]) = <<>> => Head(ovsdb[s]) = ovsdb[s][Len(ovsdb[s])]
  <2> DEFINE t == Tail(ovsdb[s])
  <2>1. Len(t) = Len(ovsdb[s]) - 1 /\ Len(ovsdb[s]) \in Nat
    BY <1>1, HeadTailProperties
  <2> HIDE DEF t
  <2>2. t = <<>> => Len(ovsdb[s]) = 1
    BY <2>1
  <2>3. Head(ovsdb[s]) = ovsdb[s][1]
    BY <1>1
  <2>4. QED
    BY <2>2, <2>3 DEF t
<1>6. QueueEnds'
  BY <1>2, <1>3, <1>4 DEF QueueEnds
<1>7. \A r \in SwitchPorts : r # s => (Active(r)' <=> Active(r))
  BY <1>2 DEF Active
<1>8. Head(ovsdb[s]) # "delete" => Active(s)'
  BY <1>3, <1>5 DEF QueueEnds, Active
<1>9. OneRow'
  <2>1. Active(s)
    BY DEF Active
  <2>2. \A r \in SwitchPorts : Active(r)' => Active(r)
    BY <1>7, <2>1
  <2>3. QED
    BY <2>2 DEF OneRow
<1>10. QED
  BY <1>6, <1>7, <1>8, <1>9

\* Steps of the plugins and of Open vSwitch.
LEMMA WorldKeepsCounts ==
  ASSUME CountInv, NEW s \in SwitchPorts, Plug(s) \/ Change(s) \/ Unplug(s), Quiet'
  PROVE  /\ QueueEnds' /\ OneRow' /\ RowsActive'
         /\ MappingCached' /\ SyncInProgress' /\ Counts'
<1>1. PICK a \in Actions : Notify(s, a) /\ (a = "delete" <=> Unplug(s))
  BY DEF Plug, Change, Unplug, Notify, Actions
<1>2. Quiet
  BY <1>1 DEF Notify, Quiet
<1>3. /\ QueueEnds /\ OneRow /\ RowsActive
      /\ MappingCached /\ SyncInProgress /\ Counts /\ CountTypes
  BY <1>2 DEF CountInv
<1>4. MappingCached' /\ SyncInProgress' /\ Counts' /\ Rows' = Rows
  BY <1>1, <1>3 DEF Notify, cacheVars, topoVars, syncVars, MappingCached,
       SyncInProgress, Counts, Counted, Rows
<1>5. /\ ovsdb' = [ovsdb EXCEPT ![s] = Append(ovsdb[s], a)]
      /\ ovsdb[s] \in Seq(Actions)
  BY <1>1, <1>3 DEF Notify, CountTypes
<1>6. /\ ovsdb'[s] # <<>> /\ ovsdb'[s][Len(ovsdb'[s])] = a
      /\ \A r \in SwitchPorts : r # s => ovsdb'[r] = ovsdb[r]
  BY <1>3, <1>5 DEF CountTypes
<1>7. /\ \A r \in SwitchPorts : r # s => (r \in ovs' <=> r \in ovs)
      /\ ~Unplug(s) => s \in ovs'
  BY <1>1 DEF Plug, Change, Unplug
<1>8. QueueEnds'
  BY <1>1, <1>3, <1>6, <1>7 DEF QueueEnds
<1>9. \A r \in SwitchPorts :
        (r # s => (Active(r)' <=> Active(r))) /\ (r = s => Active(r)')
  BY <1>6, <1>7 DEF Active
<1>10. RowsActive'
  <2> SUFFICES ASSUME NEW r \in Rows \ MigratingRows PROVE Active(r)'
    BY <1>4 DEF RowsActive, MigratingRows
  <2>1. r \in SwitchPorts /\ Active(r)
    BY <1>3 DEF RowsActive, Rows, CountTypes
  <2>2. QED
    BY <2>1, <1>9
<1>11. Active(s) \/ \A r \in SwitchPorts : LportOf[r] = LportOf[s] /\ r # s => ~Active(r)
  BY <1>2 DEF Plug, Change, Unplug, Active, Quiet
<1>12. OneRow'
  <2> SUFFICES ASSUME NEW r \in SwitchPorts, NEW q \in SwitchPorts,
                      LportOf[r] = LportOf[q], Active(r)', Active(q)', r # q
               PROVE  FALSE
    BY DEF OneRow
  <2>1. CASE r # s /\ q # s
    BY <2>1, <1>3, <1>9 DEF OneRow
  <2>2. CASE r = s
    BY <2>2, <1>3, <1>9, <1>11 DEF OneRow
  <2>3. CASE q = s
    BY <2>3, <1>3, <1>9, <1>11 DEF OneRow
  <2>4. QED
    BY <2>1, <2>2, <2>3
<1>13. QED
  BY <1>4, <1>8, <1>10, <1>12

\* A row is counted.
LEMMA CountsAdded ==
  ASSUME CountTypes, Counts, NEW s \in SwitchPorts,
         topic_subscribed' = [topic_subscribed EXCEPT
             ![TopicOf[LportOf[s]]] = @ \cup {LportOf[s]}],
         Counted' = Counted \cup {s}
  PROVE  Counts'
<1> SUFFICES ASSUME NEW t \in Topics
             PROVE  topic_subscribed'[t] =
                      {LportOf[x] : x \in {r \in Counted \cup {s} : TopicOfPort(r) = t}}
  BY DEF Counts
<1>1. topic_subscribed[t] = {LportOf[x] : x \in {r \in Counted : TopicOfPort(r) = t}}
  BY DEF Counts
<1>2. TopicOf[LportOf[s]] \in Topics
  BY FunctionsAssumption
<1>3. CASE t = TopicOf[LportOf[s]]
  <2>1. topic_subscribed'[t] = topic_subscribed[t] \cup {LportOf[s]}
    BY <1>2, <1>3 DEF CountTypes, Subscribed
  <2>2. {r \in Counted \cup {s} : TopicOfPort(r) = t} =
        {r \in Counted : TopicOfPort(r) = t} \cup {s}
    BY <1>3 DEF TopicOfPort
  <2>3. QED
    BY <1>1, <2>1, <2>2
<1>4. CASE t # TopicOf[LportOf[s]]
  <2>1. topic_subscribed'[t] = topic_subscribed[t]
    BY <1>2, <1>4 DEF CountTypes, Subscribed
  <2>2. {r \in Counted \cup {s} : TopicOfPort(r) = t} =
        {r \in Counted : TopicOfPort(r) = t}
    BY <1>4 DEF TopicOfPort
  <2>3. QED
    BY <1>1, <2>1, <2>2
<1>5. QED
  BY <1>3, <1>4

\* The only row of its port is not counted any more.
LEMMA CountsRemoved ==
  ASSUME CountTypes, Counts, NEW s \in SwitchPorts, s \in Counted,
         \A r \in Counted : LportOf[r] = LportOf[s] => r = s,
         topic_subscribed' = [topic_subscribed EXCEPT
             ![TopicOf[LportOf[s]]] = @ \ {LportOf[s]}],
         Counted' = Counted \ {s}
  PROVE  Counts'
<1> SUFFICES ASSUME NEW t \in Topics
             PROVE  topic_subscribed'[t] =
                      {LportOf[x] : x \in {r \in Counted \ {s} : TopicOfPort(r) = t}}
  BY DEF Counts
<1>1. topic_subscribed[t] = {LportOf[x] : x \in {r \in Counted : TopicOfPort(r) = t}}
  BY DEF Counts
<1>2. TopicOf[LportOf[s]] \in Topics
  BY FunctionsAssumption
<1>3. CASE t = TopicOf[LportOf[s]]
  <2>1. topic_subscribed'[t] = topic_subscribed[t] \ {LportOf[s]}
    BY <1>2, <1>3 DEF CountTypes, Subscribed
  <2>2. QED
    BY <1>1, <2>1
<1>4. CASE t # TopicOf[LportOf[s]]
  <2>1. topic_subscribed'[t] = topic_subscribed[t]
    BY <1>2, <1>4 DEF CountTypes, Subscribed
  <2>2. {r \in Counted \ {s} : TopicOfPort(r) = t} =
        {r \in Counted : TopicOfPort(r) = t}
    BY <1>4 DEF TopicOfPort
  <2>3. QED
    BY <1>1, <2>1, <2>2
<1>5. QED
  BY <1>3, <1>4

\* The port of a counted row is counted.
LEMMA CountedSubscribed ==
  ASSUME Counts, NEW s \in Counted, s \in SwitchPorts
  PROVE  LportOf[s] \in topic_subscribed[TopicOf[LportOf[s]]]
<1>1. TopicOf[LportOf[s]] \in Topics
  BY FunctionsAssumption
<1>2. QED
  BY <1>1 DEF Counts, TopicOfPort

\* A create or set event.
LEMMA UpdatedKeepsCounts ==
  ASSUME CountInv, NEW s \in SwitchPorts, SwitchPortUpdated(s), Quiet'
  PROVE  /\ QueueEnds' /\ OneRow' /\ RowsActive'
         /\ MappingCached' /\ SyncInProgress' /\ Counts'
<1>1. ~Fault
  BY FaultCounted DEF Quiet, CountInv, CountTypes
<1>2. NoFault
  BY <1>1 DEF SwitchPortUpdated, AddToTopicFails, AddToTopicSubscribed
<1>3. Quiet
  BY <1>2 DEF NoFault, Quiet
<1>4. /\ QueueEnds /\ OneRow /\ RowsActive
      /\ MappingCached /\ SyncInProgress /\ Counts /\ CountTypes
  BY <1>3 DEF CountInv
<1>5. /\ pc = "idle" /\ scan = {} /\ new_map = {} /\ todo = {}
      /\ UNCHANGED <<ovs, pc, scan, new_map, todo>>
      /\ Take(s) /\ ovsdb[s] # <<>> /\ Head(ovsdb[s]) # "delete"
  BY <1>4 DEF SwitchPortUpdated, SyncInProgress, worldVars, syncVars
<1>6. QueueEnds' /\ OneRow' /\ \A r \in SwitchPorts : Active(r) => Active(r)'
  BY <1>4, <1>5, QueueTaken
<1>7. Active(s)'
  BY <1>4, <1>5, QueueTaken
<1>8. CASE UNCHANGED <<switch_ports, topoVars>>
  <2>1. Rows' = Rows /\ Counted' = Counted
    BY <1>5, <1>8 DEF Rows, Counted, topoVars
  <2>2. RowsActive'
    BY <1>4, <1>6, <2>1 DEF RowsActive, Rows, CountTypes, MigratingRows
  <2>3. QED
    BY <1>4, <1>5, <1>6, <1>8, <2>1, <2>2
       DEF topoVars, MappingCached, SyncInProgress, Counts, MigratingRows
<1>9. CASE /\ switch_ports' = switch_ports \cup {s}
           /\ \E c, more : AddToTopicSubscribed(TopicOf[LportOf[s]], LportOf[s], c, more)
           /\ ovs_to_lport_mapping' = ovs_to_lport_mapping \cup {s}
  <2>1. Rows' = Rows \cup {s} /\ Counted' = Counted \cup {s}
    BY <1>5, <1>9 DEF Rows, Counted
  <2>2. RowsActive'
    BY <1>4, <1>6, <1>7, <2>1 DEF RowsActive, Rows, CountTypes, MigratingRows
  <2>3. Counts'
    BY <1>4, <1>9, <2>1, CountsAdded DEF AddToTopicSubscribed
  <2>4. QED
    BY <1>4, <1>5, <1>6, <1>9, <2>2, <2>3
       DEF MappingCached, SyncInProgress, MigratingRows
<1>10. QED
  BY <1>1, <1>8, <1>9 DEF SwitchPortUpdated, AddToTopicFails, topoVars, cacheVars

\* A delete event.
LEMMA DeletedKeepsCounts ==
  ASSUME CountInv, NEW s \in SwitchPorts, SwitchPortDeleted(s), Quiet'
  PROVE  /\ QueueEnds' /\ OneRow' /\ RowsActive'
         /\ MappingCached' /\ SyncInProgress' /\ Counts'
<1>1. ~Fault
  BY FaultCounted DEF Quiet, CountInv, CountTypes
<1>2. NoFault
  BY <1>1 DEF SwitchPortDeleted
<1>3. Quiet
  BY <1>2 DEF NoFault, Quiet
<1>4. /\ QueueEnds /\ OneRow /\ RowsActive
      /\ MappingCached /\ SyncInProgress /\ Counts /\ CountTypes
  BY <1>3 DEF CountInv
<1>5. /\ pc = "idle" /\ scan = {} /\ new_map = {} /\ todo = {}
      /\ UNCHANGED <<ovs, pc, scan, new_map, todo>>
      /\ Take(s) /\ ovsdb[s] # <<>>
      /\ switch_ports' = switch_ports \ {s}
  BY <1>4 DEF SwitchPortDeleted, SyncInProgress, worldVars, syncVars
<1>6. QueueEnds' /\ OneRow' /\ \A r \in SwitchPorts : r # s => (Active(r)' <=> Active(r))
  BY <1>4, <1>5, QueueTaken
<1>7. CASE UNCHANGED topoVars /\ (s \in MigratingRows \/ s \notin ovs_to_lport_mapping)
  <2>1. Counted' = Counted /\ ovs_to_lport_mapping' = ovs_to_lport_mapping
    BY <1>5, <1>7 DEF Counted, topoVars
  <2>2. RowsActive'
    BY <1>4, <1>5, <1>6, <1>7, <2>1 DEF RowsActive, Rows, CountTypes, MigratingRows
  <2>3. MappingCached'
    BY <1>4, <1>5, <1>7, <2>1 DEF MappingCached, MigratingRows
  <2>4. QED
    BY <1>4, <1>5, <1>6, <1>7, <2>1, <2>2, <2>3
       DEF topoVars, SyncInProgress, Counts
<1>8. CASE /\ s \in ovs_to_lport_mapping
           /\ ovs_to_lport_mapping' = ovs_to_lport_mapping \ {s}
           /\ \E c : DelFromTopicSubscribed(TopicOf[LportOf[s]], LportOf[s], c)
  <2>1. s \in Counted /\ Counted' = Counted \ {s} /\ Rows' = Rows \ {s} /\ Counted \subseteq Rows
    BY <1>5, <1>8 DEF Counted, Rows
  <2>2. RowsActive'
    BY <1>4, <1>6, <2>1 DEF RowsActive, Rows, CountTypes, MigratingRows
  <2>3. Counts'
    BY <1>3, <1>4, <1>8, <2>1, RowsDiffer, CountsRemoved DEF DelFromTopicSubscribed
  <2>4. QED
    BY <1>4, <1>5, <1>6, <1>8, <2>2, <2>3
       DEF MappingCached, SyncInProgress, MigratingRows
<1>9. s \in ovs_to_lport_mapping => LportOf[s] \in topic_subscribed[TopicOf[LportOf[s]]]
  BY <1>4, <1>5, CountedSubscribed DEF Counted
<1>10. s \notin switch_ports => s \in MigratingRows \/ s \notin ovs_to_lport_mapping
  BY <1>4 DEF MappingCached
<1>11. LportOf[s] \in Migrating => s \in MigratingRows
  BY DEF MigratingRows
<1>12. QED
  BY <1>1, <1>7, <1>8, <1>9, <1>10, <1>11 DEF SwitchPortDeleted

\* check_topology_info moves a row to the new mapping.
LEMMA CheckKeepsCounts ==
  ASSUME CountInv, NEW s \in SwitchPorts, CheckPort(s), Quiet'
  PROVE  /\ QueueEnds' /\ OneRow' /\ RowsActive'
         /\ MappingCached' /\ SyncInProgress' /\ Counts'
<1>1. ~Fault
  BY FaultCounted DEF Quiet, CountInv, CountTypes
<1>2. NoFault
  BY <1>1 DEF CheckPort
<1>3. Quiet
  BY <1>2 DEF NoFault, Quiet
<1>4. /\ QueueEnds /\ OneRow /\ RowsActive
      /\ MappingCached /\ SyncInProgress /\ Counts /\ CountTypes
  BY <1>3 DEF CountInv
<1>5. /\ pc = "check" /\ s \in scan /\ scan' = scan \ {s}
      /\ UNCHANGED <<ovs, ovsdb, switch_ports, topic_subscribed, pc>>
  BY <1>1 DEF CheckPort, worldVars, queueVars, cacheVars
<1>6. s \in switch_ports /\ s \notin new_map
  BY <1>4, <1>5 DEF SyncInProgress
<1>7. \/ UNCHANGED <<ovs_to_lport_mapping, new_map, todo>>
      \/ /\ new_map' = new_map \cup {s}
         /\ ovs_to_lport_mapping' = ovs_to_lport_mapping \ {s}
         /\ todo' = IF s \in ovs_to_lport_mapping THEN todo ELSE todo \cup {s}
  BY <1>1 DEF CheckPort
<1>8. Counted' = Counted /\ Rows' = Rows
  BY <1>5, <1>6, <1>7, <1>4 DEF Counted, Rows, SyncInProgress
<1>9. SyncInProgress'
  BY <1>4, <1>5, <1>6, <1>7 DEF SyncInProgress
<1>10. MappingCached'
  BY <1>4, <1>5, <1>6, <1>7 DEF MappingCached, MigratingRows
<1>11. QED
  BY <1>4, <1>5, <1>8, <1>9, <1>10
     DEF QueueEnds, OneRow, RowsActive, Active, Counts, MigratingRows

\* A row of the new mapping is counted.
LEMMA AddKeepsCounts ==
  ASSUME CountInv, NEW s \in SwitchPorts, AddPort(s), Quiet'
  PROVE  /\ QueueEnds' /\ OneRow' /\ RowsActive'
         /\ MappingCached' /\ SyncInProgress' /\ Counts'
<1>1. ~Fault
  BY FaultCounted DEF Quiet, CountInv, CountTypes
<1>2. /\ AddToTopicSubscribed(TopicOf[LportOf[s]], LportOf[s], lports, {})
      /\ todo' = todo \ {s} /\ UNCHANGED <<pc, scan, new_map>>
  BY <1>1 DEF AddPort, AddToTopicFails, TopicOfPort
<1>3. Quiet
  BY <1>2 DEF AddToTopicSubscribed, NoFault, Quiet
<1>4. /\ QueueEnds /\ OneRow /\ RowsActive
      /\ MappingCached /\ SyncInProgress /\ Counts /\ CountTypes
  BY <1>3 DEF CountInv
<1>5. /\ pc = "add" /\ s \in todo
      /\ UNCHANGED <<ovs, ovsdb, switch_ports, ovs_to_lport_mapping>>
  BY DEF AddPort, worldVars, queueVars
<1>6. Counted' = Counted \cup {s} /\ Rows' = Rows
  BY <1>2, <1>4, <1>5 DEF Counted, Rows, SyncInProgress
<1>7. Counts'
  BY <1>2, <1>4, <1>6, CountsAdded DEF AddToTopicSubscribed
<1>8. SyncInProgress' /\ MappingCached'
  BY <1>2, <1>4, <1>5 DEF SyncInProgress, MappingCached, MigratingRows
<1>9. QED
  BY <1>4, <1>5, <1>6, <1>7, <1>8 DEF QueueEnds, OneRow, RowsActive, Active, MigratingRows

\* A row of the old mapping is not counted any more.
LEMMA DelKeepsCounts ==
  ASSUME CountInv, NEW s \in SwitchPorts, DelPort(s), Quiet'
  PROVE  /\ QueueEnds' /\ OneRow' /\ RowsActive'
         /\ MappingCached' /\ SyncInProgress' /\ Counts'
<1>1. Quiet
  BY DEF DelPort, Quiet
<1>2. /\ QueueEnds /\ OneRow /\ RowsActive
      /\ MappingCached /\ SyncInProgress /\ Counts /\ CountTypes
  BY <1>1 DEF CountInv
<1>3. /\ pc = "add" /\ todo = {} /\ s \in new_map
      /\ UNCHANGED <<ovs, ovsdb, switch_ports, ovs_to_lport_mapping>>
  BY DEF DelPort, worldVars, queueVars
<1>4. s \in Counted /\ Counted \subseteq Rows
  BY <1>3 DEF Counted, Rows
<1>5. /\ DelFromTopicSubscribed(TopicOf[LportOf[s]], LportOf[s], lports)
      /\ new_map' = new_map \ {s} /\ UNCHANGED <<pc, scan, todo>>
  BY <1>2, <1>4, CountedSubscribed DEF DelPort, TopicOfPort
<1>6. Counted' = Counted \ {s} /\ Rows' \subseteq Rows
  BY <1>2, <1>3, <1>5 DEF Counted, Rows, SyncInProgress
<1>7. Counts'
  BY <1>1, <1>2, <1>4, <1>5, <1>6, RowsDiffer, CountsRemoved DEF DelFromTopicSubscribed
<1>8. SyncInProgress' /\ MappingCached'
  BY <1>2, <1>3, <1>5 DEF SyncInProgress, MappingCached, MigratingRows
<1>9. QED
  BY <1>2, <1>3, <1>6, <1>7, <1>8 DEF QueueEnds, OneRow, RowsActive, Active, MigratingRows

\* The other steps of sync().
LEMMA SyncKeepsCounts ==
  ASSUME CountInv, StartSync \/ InstallMapping \/ SyncCache, Quiet'
  PROVE  /\ QueueEnds' /\ OneRow' /\ RowsActive'
         /\ MappingCached' /\ SyncInProgress' /\ Counts'
<1>1. ~Fault
  BY FaultCounted DEF Quiet, CountInv, CountTypes
<1>2. /\ faults' = faults
      /\ UNCHANGED <<ovs, ovsdb, switch_ports, topic_subscribed>>
  BY <1>1 DEF StartSync, InstallMapping, SyncCache, NoFault, worldVars, queueVars,
       cacheVars, topoVars
<1>3. Quiet
  BY <1>2 DEF Quiet
<1>4. /\ QueueEnds /\ OneRow /\ RowsActive
      /\ MappingCached /\ SyncInProgress /\ Counts /\ CountTypes
  BY <1>3 DEF CountInv
<1>5. Counted' = Counted /\ Rows' = Rows /\ SyncInProgress' /\ MappingCached'
  <2>1. CASE StartSync
    BY <2>1, <1>2, <1>4 DEF StartSync, Goto, cacheVars, topoVars, Counted, Rows,
         SyncInProgress, MappingCached, MigratingRows
  <2>2. CASE InstallMapping
    BY <2>2, <1>2, <1>4 DEF InstallMapping, Goto, Counted, Rows,
         SyncInProgress, MappingCached, MigratingRows
  <2>3. CASE SyncCache
    BY <2>3, <1>2, <1>4 DEF SyncCache, Abort, Goto, topoVars, Counted, Rows,
         SyncInProgress, MappingCached, MigratingRows
  <2>4. QED
    BY <2>1, <2>2, <2>3
<1>6. QED
  BY <1>2, <1>4, <1>5 DEF QueueEnds, OneRow, RowsActive, Active, Counts, MigratingRows

LEMMA NextKeepsCounts == CountInv /\ [Next]_vars => CountInv'
<1> SUFFICES ASSUME CountInv, [Next]_vars, Quiet'
             PROVE  /\ QueueEnds' /\ OneRow' /\ RowsActive'
                    /\ MappingCached' /\ SyncInProgress' /\ Counts'
  BY TypesKept DEF CountInv
<1>1. ASSUME UNCHANGED <<ovs, ovsdb, faults, switch_ports, ovs_to_lport_mapping,
                         topic_subscribed, syncVars>>
      PROVE  /\ QueueEnds' /\ OneRow' /\ RowsActive'
             /\ MappingCached' /\ SyncInProgress' /\ Counts'
  <2>1. Quiet
    BY <1>1 DEF Quiet
  <2>2. QED
    BY <1>1, <2>1 DEF CountInv, syncVars, QueueEnds, OneRow, RowsActive, Active,
         Rows, MappingCached, SyncInProgress, Counts, Counted, MigratingRows
<1>2. ASSUME NEW l \in Lports, NbCreate(l) \/ NbDelete(l) \/ LportEvent(l)
      PROVE  UNCHANGED <<ovs, ovsdb, faults, switch_ports, ovs_to_lport_mapping,
                         topic_subscribed, syncVars>>
  BY <1>2 DEF NbCreate, NbDelete, LportEvent, worldVars, cacheVars, topoVars
<1>3. CASE UNCHANGED vars
  BY <1>1, <1>3 DEF vars, worldVars, queueVars, cacheVars, topoVars
<1>4. CASE Restart
  BY <1>4, FaultCounted DEF Restart, Quiet, CountInv, CountTypes
<1>5. QED
  BY <1>1, <1>2, <1>3, <1>4, WorldKeepsCounts, UpdatedKeepsCounts,
     DeletedKeepsCounts, CheckKeepsCounts, AddKeepsCounts, DelKeepsCounts,
     SyncKeepsCounts DEF Next, SyncStep, SwitchPortEvent

\* The counts of the topics follow the mapping: between two handlers a topic
\* counts the ports of the rows that have a mapping, however events and checks
\* follow each other, as long as no call failed, ports are plugged again only
\* after the events of their last row were handled, and a port that migrates
\* has one row.
THEOREM CountsFollowMapping == Spec => []MappingMatchesTopics
<1>1. Init => CountInv
  <2> SUFFICES ASSUME Init PROVE CountInv
    OBVIOUS
  <2>1. CountTypes
    BY DEF Init, CountTypes, Subscribed
  <2>2. Counted = {} /\ Rows = {}
    BY DEF Init, Counted, Rows
  <2>3. QED
    BY <2>1, <2>2 DEF Init, CountInv, QueueEnds, OneRow, RowsActive, Active,
         MappingCached, SyncInProgress, Counts
<1>2. CountInv => MappingMatchesTopics
  BY DEF CountInv, Quiet, SyncInProgress, Counts, Counted, MappingMatchesTopics
<1>3. QED
  BY <1>1, <1>2, NextKeepsCounts, PTL DEF Spec
=============================================================================
