-------------------------- MODULE LocalController --------------------------
(***************************************************************************)
(* The local controller of a compute node                                  *)
(* (dragonflow/controller/df_local_controller.py, dragonflow/db/sync.py)   *)
(* that keeps db_store, its cache of the northbound database, up to date.  *)
(*                                                                         *)
(* Plugins write objects to the northbound database and publish each       *)
(* write.  The controller takes one event at a time from its queue.  An    *)
(* update whose references are known is cached, one whose references are   *)
(* not is put aside until the missing object shows up.  Because events may *)
(* be lost, reordered or fail, a full synchronisation runs periodically,   *)
(* and after an exception, at most once per DB_SYNC_MINIMUM_INTERVAL.      *)
(*                                                                         *)
(* Every read of the northbound database is a step of its own: other nodes *)
(* write between two of them.  What the controller does between two reads  *)
(* is local to its only thread, hence one step.                            *)
(*                                                                         *)
(* An object is a version (any change of an unversioned object gives it    *)
(* another one) and the set of objects it references.  Selective topology  *)
(* distribution is off: every event reaches the controller and topics are  *)
(* not used.                                                               *)
(***************************************************************************)
EXTENDS Naturals, Sequences, FiniteSets

CONSTANTS
    Models,      \* the ids of each model, models in dependency order
    Versioned,   \* ids of objects with the Version mixin
    None,        \* no object: deleted, or not there
    MaxVersion,  \* bound on versions
    MaxWrites,   \* bound on writes to the northbound database
    MaxFaults,   \* bound on losses, outages, reinitialisations and restarts
    InOrder      \* events about one object are delivered in their order

NumModels == Len(Models)
Ids       == UNION {Models[m] : m \in 1 .. NumModels}
Versions  == 1 .. MaxVersion

\* References point to models that come earlier in the dependency order.
Referable(id) ==
    UNION {Models[k] : k \in {j \in 1 .. NumModels :
                \E m \in 1 .. NumModels : j < m /\ id \in Models[m]}}

Objects == [version : Versions, refs : SUBSET Ids]
MaybeObjects == Objects \cup {None}

ASSUME ModelsAssumption == Models \in Seq(SUBSET Ids)
ASSUME NoneAssumption == None \notin Objects
ASSUME BoundsAssumption ==
    /\ MaxVersion \in Nat /\ MaxWrites \in Nat /\ MaxFaults \in Nat
    /\ InOrder \in BOOLEAN

VARIABLES
    nb,          \* northbound database
    used,        \* ids that were created there
    writes,      \* number of writes so far
    nb_up,       \* the northbound database answers
    events,      \* events[id]: published writes of id, None for a deletion
    faults,      \* number of faults so far
    db_store,    \* the cache
    pending,     \* _pending_objects: ids waiting for an object
    pc,          \* what the controller thread does
    guarded,     \* it is inside the try of _handle_update
    task,        \* the _send_updates_for_object in progress
    loops,       \* items left in the nested loops of _send_pending_events
    sync_pos,    \* next step of the sync in progress
    sync_due,    \* a CONTROLLER_SYNC event is queued
    limited,     \* sync_rate_limiter refuses
    quiet,       \* history: no write since the sync in progress began
    dropped      \* history: an exception was not followed by a sync

nbVars  == <<nb, used, writes, events, quiet>>
ctlVars == <<db_store, pending, pc, guarded, task, loops, sync_pos,
             dropped>>
envVars == <<nb_up, faults, sync_due, limited>>
vars    == <<nbVars, ctlVars, envVars>>

Tasks == [id : Ids, obj : Objects, todo : SUBSET Ids,
          found : [Ids -> MaybeObjects]]

ASSUME NoTaskAssumption == None \notin Tasks

TypeOK ==
    /\ nb \in [Ids -> MaybeObjects]
    /\ used \subseteq Ids
    /\ writes \in 0 .. MaxWrites
    /\ nb_up \in BOOLEAN
    /\ events \in [Ids -> Seq(MaybeObjects)]
    /\ faults \in 0 .. MaxFaults
    /\ db_store \in [Ids -> MaybeObjects]
    /\ pending \in [Ids -> SUBSET Ids]
    /\ pc \in {"idle", "update", "sync", "dead"}
    /\ guarded \in BOOLEAN
    /\ task \in Tasks \cup {None}
    /\ loops \in Seq(SUBSET Ids)
    /\ sync_pos \in 0 .. 2 * NumModels
    /\ sync_due \in BOOLEAN
    /\ limited \in BOOLEAN
    /\ quiet \in BOOLEAN
    /\ dropped \in BOOLEAN

\* The controller starts with an empty cache: run() begins with a sync.
Init ==
    /\ nb = [id \in Ids |-> None]
    /\ used = {}
    /\ writes = 0
    /\ nb_up = TRUE
    /\ events = [id \in Ids |-> <<>>]
    /\ faults = 0
    /\ db_store = [id \in Ids |-> None]
    /\ pending = [id \in Ids |-> {}]
    /\ pc = "sync"
    /\ guarded = FALSE
    /\ task = None
    /\ loops = <<>>
    /\ sync_pos = 0
    /\ sync_due = FALSE
    /\ limited = FALSE
    /\ quiet = TRUE
    /\ dropped = FALSE

----------------------------------------------------------------------------
(* The plugins: NbApi writes, then publishes. *)

Publish(id, value) ==
    /\ nb' = [nb EXCEPT ![id] = value]
    /\ events' = [events EXCEPT ![id] = Append(@, value)]
    /\ writes < MaxWrites /\ writes' = writes + 1
    /\ quiet' = FALSE

\* NbApi.create.  A versioned object starts at version 1 and has a fresh
\* uuid; others are identified by a name that may be used again.
NbCreate(id) ==
    /\ nb_up /\ nb[id] = None
    /\ id \in Versioned => id \notin used
    /\ used' = used \cup {id}
    /\ \E v \in Versions, R \in SUBSET Referable(id) :
          /\ id \in Versioned => v = 1
          /\ Publish(id, [version |-> v, refs |-> R])
    /\ UNCHANGED <<ctlVars, envVars>>

\* NbApi.update with Version.on_update_pre.
NbUpdate(id) ==
    /\ nb_up /\ nb[id] # None
    /\ \E v \in Versions, R \in SUBSET Referable(id) :
          /\ v # nb[id].version
          /\ id \in Versioned => v = nb[id].version + 1
          /\ Publish(id, [version |-> v, refs |-> R])
    /\ UNCHANGED <<used, ctlVars, envVars>>

\* NbApi.delete.
NbDelete(id) ==
    /\ nb_up /\ nb[id] # None
    /\ Publish(id, None)
    /\ UNCHANGED <<used, ctlVars, envVars>>

----------------------------------------------------------------------------
(* The environment. *)

\* The event at position i of s is taken out.
Without(s, i) == SubSeq(s, 1, i - 1) \o SubSeq(s, i + 1, Len(s))

Fault == faults < MaxFaults /\ faults' = faults + 1

\* The publisher or the connection to it drops an event.
LoseEvent(id, i) ==
    /\ Fault
    /\ events' = [events EXCEPT ![id] = Without(@, i)]
    /\ UNCHANGED <<nb, used, writes, quiet, ctlVars, nb_up, sync_due, limited>>

NbFails ==
    /\ nb_up /\ Fault
    /\ nb_up' = FALSE
    /\ UNCHANGED <<nbVars, ctlVars, sync_due, limited>>

NbRecovers ==
    /\ ~nb_up /\ nb_up' = TRUE
    /\ UNCHANGED <<nbVars, ctlVars, faults, sync_due, limited>>

\* _sync_pulse fires (so do the reconnections of the zmq subscriber).
SubmitSyncEvent ==
    /\ pc # "dead" /\ ~sync_due
    /\ sync_due' = TRUE
    /\ UNCHANGED <<nbVars, ctlVars, nb_up, faults, limited>>

\* DB_SYNC_MINIMUM_INTERVAL has passed.
LimiterExpires ==
    /\ limited /\ limited' = FALSE
    /\ UNCHANGED <<nbVars, ctlVars, nb_up, faults, sync_due>>

----------------------------------------------------------------------------
(* Building blocks of the controller. *)

\* Mutant: the last event wins.
IsNewerAlways(id, obj, cached) == TRUE

\* _is_newer: by version, or by comparison for models without Version.
IsNewer(id, obj, cached) ==
    \/ cached = None
    \/ id \in Versioned /\ obj.version > cached.version
    \/ id \notin Versioned /\ obj # cached

\* update_model_object for every object that new has, on cache s.
Updated(s, new) ==
    [id \in Ids |-> IF new[id] # None /\ IsNewer(id, new[id], s[id])
                    THEN new[id] ELSE s[id]]

\* Sync.sync begins.
StartSync(protected) ==
    /\ pc' = "sync" /\ sync_pos' = 0 /\ guarded' = protected
    /\ quiet' = TRUE /\ dropped' = FALSE
    /\ task' = None /\ loops' = <<>>

\* The work in progress ends, normally or not.
Stop(label) ==
    /\ pc' = label /\ sync_pos' = 0 /\ guarded' = (label = "idle")
    /\ quiet' = FALSE
    /\ task' = None /\ loops' = <<>>

\* An exception.  _handle_update catches it and syncs unless the rate
\* limiter refuses; during that sync, and at boot, nothing catches it.
Raise ==
    /\ \/ /\ guarded /\ ~limited
          /\ limited' = TRUE
          /\ StartSync(FALSE)
       \/ /\ guarded /\ limited
          /\ Stop("idle") /\ dropped' = TRUE
          /\ UNCHANGED limited
       \/ /\ ~guarded
          /\ Stop("dead")
          /\ UNCHANGED <<dropped, limited>>
    /\ UNCHANGED <<db_store, pending>>

\* _send_updates_for_object(obj) begins.
NewTask(id, obj) ==
    [id |-> id, obj |-> obj, todo |-> obj.refs,
     found |-> [i \in Ids |-> None]]

\* The _send_updates_for_object in progress returns with l left to do.
TaskDone(l) ==
    /\ task' = None
    /\ loops' = l
    /\ pc' = IF l = <<>> THEN "idle" ELSE "update"

----------------------------------------------------------------------------
(* process_changes: the events. *)

Deliverable(id) ==
    IF InOrder /\ events[id] # <<>> THEN {1} ELSE DOMAIN events[id]

\* _handle_db_change of a create or set event.
HandleSet(id, i) ==
    /\ pc = "idle" /\ events[id][i] # None
    /\ events' = [events EXCEPT ![id] = Without(@, i)]
    /\ pc' = "update"
    /\ task' = NewTask(id, events[id][i])
    /\ UNCHANGED <<nb, used, writes, quiet, db_store, pending, guarded, loops,
                   sync_pos, dropped, envVars>>

\* _handle_db_change of a delete event: delete_by_id, delete_model_object.
HandleDelete(id, i) ==
    /\ pc = "idle" /\ events[id][i] = None
    /\ events' = [events EXCEPT ![id] = Without(@, i)]
    /\ db_store' = [db_store EXCEPT ![id] = None]
    /\ UNCHANGED <<nb, used, writes, quiet, pending, pc, guarded, task, loops,
                   sync_pos, dropped, envVars>>

\* CONTROLLER_SYNC.
HandleSync ==
    /\ pc = "idle" /\ sync_due
    /\ sync_due' = FALSE
    /\ StartSync(TRUE)
    /\ UNCHANGED <<nb, used, writes, events, db_store, pending, nb_up, faults,
                   limited>>

\* CONTROLLER_REINITIALIZE, after the switch reconnected.
HandleReinitialize ==
    /\ pc = "idle" /\ Fault
    /\ db_store' = [id \in Ids |-> None]
    /\ StartSync(TRUE)
    /\ UNCHANGED <<nb, used, writes, events, pending, nb_up, sync_due, limited>>

\* CONTROLLER_DBRESTART: db_recover_callback builds its DbUpdate without the
\* argument `value', which raises TypeError.
HandleDbRestart ==
    /\ pc = "idle" /\ Fault
    /\ Raise
    /\ UNCHANGED <<nb, used, writes, events, nb_up, sync_due>>

----------------------------------------------------------------------------
(* _send_updates_for_object. *)

\* Mutant: the object itself, not its id, is put aside.
DereferencePendsObject(r) ==
    /\ pc = "update" /\ task # None /\ r \in task.todo
    /\ db_store[r] = None /\ nb_up /\ nb[r] = None
    /\ pending' = [pending EXCEPT ![r] = @ \cup {task.obj}]
    /\ TaskDone(loops)
    /\ UNCHANGED <<nbVars, db_store, guarded, sync_pos, dropped, envVars>>

\* iter_model_references_deep takes the next reference and dereferences it:
\* from the cache, or from the northbound database.  A reference that is in
\* neither puts the object aside (ReferencedObjectNotFound).
Dereference(r) ==
    /\ pc = "update" /\ task # None /\ r \in task.todo
    /\ LET read == db_store[r] = None
           item == IF read THEN nb[r] ELSE db_store[r]
           seen == {task.id, r} \cup {i \in Ids : task.found[i] # None}
       IN  \/ /\ read /\ ~nb_up
              /\ Raise
           \/ /\ read => nb_up
              /\ item = None
              /\ pending' = [pending EXCEPT ![r] = @ \cup {task.id}]
              /\ TaskDone(loops)
              /\ UNCHANGED <<db_store, guarded, sync_pos, quiet, dropped,
                             limited>>
           \/ /\ read => nb_up
              /\ item # None
              /\ task' = [task EXCEPT
                            !.found[r] = item,
                            !.todo = (@ \cup item.refs) \ seen]
              /\ UNCHANGED <<db_store, pending, pc, guarded, loops, sync_pos,
                             quiet, dropped, limited>>
    /\ UNCHANGED <<nb, used, writes, events, nb_up, faults, sync_due>>

\* Mutant: references read from the database are not cached.
SendOnlyObject ==
    /\ pc = "update" /\ task # None /\ task.todo = {}
    /\ db_store' = Updated(db_store,
                [id \in Ids |-> IF id = task.id THEN task.obj ELSE None])
    /\ pending' = [pending EXCEPT ![task.id] = {}]
    /\ TaskDone(IF pending[task.id] = {} THEN loops
                ELSE <<pending[task.id]>> \o loops)
    /\ UNCHANGED <<nbVars, guarded, sync_pos, dropped, envVars>>

\* Mutant: those who waited for the object are only told of a first version.
SendPendingIfNew ==
    /\ pc = "update" /\ task # None /\ task.todo = {}
    /\ db_store' = Updated(db_store, [task.found EXCEPT ![task.id] = task.obj])
    /\ pending' = [pending EXCEPT ![task.id] = {}]
    /\ TaskDone(IF pending[task.id] = {} \/ db_store[task.id] # None
                THEN loops ELSE <<pending[task.id]>> \o loops)
    /\ UNCHANGED <<nbVars, guarded, sync_pos, dropped, envVars>>

\* _send_update_events: the references, then the object; then
\* _send_pending_events takes those who waited for the object.
SendUpdateEvents ==
    /\ pc = "update" /\ task # None /\ task.todo = {}
    /\ db_store' = Updated(db_store, [task.found EXCEPT ![task.id] = task.obj])
    /\ pending' = [pending EXCEPT ![task.id] = {}]
    /\ TaskDone(IF pending[task.id] = {} THEN loops
                ELSE <<pending[task.id]>> \o loops)
    /\ UNCHANGED <<nbVars, guarded, sync_pos, dropped, envVars>>

\* _send_pending_events fetches the next waiting object.  One that is gone
\* comes back as None, which raises in _send_updates_for_object.
SendPendingEvent(id) ==
    /\ pc = "update" /\ task = None /\ loops # <<>> /\ id \in Head(loops)
    /\ \/ /\ ~nb_up \/ nb[id] = None
          /\ Raise
       \/ /\ nb_up /\ nb[id] # None
          /\ task' = NewTask(id, nb[id])
          /\ LET rest == Head(loops) \ {id}
             IN  loops' = IF rest = {} THEN Tail(loops)
                          ELSE <<rest>> \o Tail(loops)
          /\ UNCHANGED <<db_store, pending, pc, guarded, sync_pos, quiet,
                         dropped, limited>>
    /\ UNCHANGED <<nb, used, writes, events, nb_up, faults, sync_due>>

----------------------------------------------------------------------------
(* Sync.sync: models in order are updated, then cleaned up in reverse. *)

SyncUpdates  == pc = "sync" /\ sync_pos < NumModels
SyncCleansUp == pc = "sync" /\ sync_pos >= NumModels /\ sync_pos < 2 * NumModels

\* _update_model.
UpdateModel ==
    /\ SyncUpdates
    /\ \/ /\ ~nb_up /\ Raise
       \/ /\ nb_up
          /\ db_store' = Updated(db_store,
                [id \in Ids |-> IF id \in Models[sync_pos + 1] THEN nb[id]
                                ELSE None])
          /\ sync_pos' = sync_pos + 1
          /\ UNCHANGED <<pending, pc, guarded, task, loops, quiet, dropped,
                         limited>>
    /\ UNCHANGED <<nb, used, writes, events, nb_up, faults, sync_due>>

\* Mutant: objects the database does not have are left in the cache.
CleanupNothing ==
    /\ SyncCleansUp
    /\ \/ /\ ~nb_up /\ Raise
       \/ /\ nb_up
          /\ sync_pos' = sync_pos + 1
          /\ UNCHANGED <<db_store, pending, pc, guarded, task, loops, quiet,
                         dropped, limited>>
    /\ UNCHANGED <<nb, used, writes, events, nb_up, faults, sync_due>>

\* _cleanup_model.
CleanupModel ==
    /\ SyncCleansUp
    /\ \/ /\ ~nb_up /\ Raise
       \/ /\ nb_up
          /\ LET model == Models[2 * NumModels - sync_pos]
             IN  db_store' = [id \in Ids |->
                    IF id \in model /\ nb[id] = None THEN None
                    ELSE db_store[id]]
          /\ sync_pos' = sync_pos + 1
          /\ UNCHANGED <<pending, pc, guarded, task, loops, quiet, dropped,
                         limited>>
    /\ UNCHANGED <<nb, used, writes, events, nb_up, faults, sync_due>>

\* sync() returns.
EndSync ==
    /\ pc = "sync" /\ sync_pos = 2 * NumModels
    /\ Stop("idle")
    /\ UNCHANGED <<nb, used, writes, events, db_store, pending, dropped,
                   envVars>>

----------------------------------------------------------------------------

\* The process is killed, or ended by an exception nobody caught, and
\* started again: run() subscribes before it syncs.
Crash ==
    /\ pc # "dead" /\ Fault
    /\ Stop("dead")
    /\ UNCHANGED <<nb, used, writes, events, db_store, pending, dropped,
                   nb_up, sync_due, limited>>

Restart ==
    /\ pc = "dead"
    /\ db_store' = [id \in Ids |-> None]
    /\ pending' = [id \in Ids |-> {}]
    /\ events' = [id \in Ids |-> <<>>]
    /\ sync_due' = FALSE /\ limited' = FALSE
    /\ StartSync(FALSE)
    /\ UNCHANGED <<nb, used, writes, nb_up, faults>>

\* What the controller thread does by itself.
Step ==
    \/ \E r \in Ids : Dereference(r) \/ SendPendingEvent(r)
    \/ SendUpdateEvents
    \/ UpdateModel \/ CleanupModel \/ EndSync
    \/ \E id \in Ids : \E i \in Deliverable(id) :
          HandleSet(id, i) \/ HandleDelete(id, i)

Next ==
    \/ \E id \in Ids : NbCreate(id) \/ NbUpdate(id) \/ NbDelete(id)
    \/ \E id \in Ids : \E i \in DOMAIN events[id] : LoseEvent(id, i)
    \/ NbFails \/ NbRecovers \/ SubmitSyncEvent \/ LimiterExpires
    \/ Step
    \/ HandleSync \/ HandleReinitialize \/ HandleDbRestart
    \/ Crash \/ Restart

\* The controller thread runs, the queue is served in order, the sync timer
\* fires, a dead controller is restarted and outages end.  Nothing is
\* assumed of the plugins, nor of the delivery of events.
Fairness ==
    /\ WF_vars(Step)
    /\ SF_vars(HandleSync)
    /\ WF_vars(SubmitSyncEvent)
    /\ WF_vars(NbRecovers)
    /\ WF_vars(Restart)

Spec == Init /\ [][Next]_vars /\ Fairness

----------------------------------------------------------------------------
(* Properties. *)

\* A sync during which nobody writes leaves the cache equal to the database,
\* whatever events were lost, applied out of order or dropped before it.
SyncConverges ==
    pc = "sync" /\ sync_pos = 2 * NumModels /\ quiet => db_store = nb

\* A cached versioned object is never replaced by an older version, neither
\* by a late event, nor by a reference or a waiting object fetched before,
\* nor by a sync; only a restart or a reinitialisation empties the cache.
VersionsAdvance ==
    [][\A id \in Versioned \cap Ids :
         db_store[id] # None /\ db_store'[id] # None =>
            db_store'[id].version >= db_store[id].version]_vars

\* Everything object o references, directly or not, is in cache s: some set of
\* cached objects has the references of o and those of its own objects.
RefsClosed(s, o) ==
    \E D \in SUBSET Ids :
      /\ o.refs \subseteq D
      /\ \A i \in D : s[i] # None /\ s[i].refs \subseteq D

\* When the applications are told of the object of an event, everything it
\* references, directly or not, is in the cache they look it up in.
ReferencesCached ==
    [][SendUpdateEvents /\ db_store'[task.id] = task.obj
         => RefsClosed(db_store', task.obj)]_vars

\* W has the objects put aside for one of its own.
PendingClosed(W) == \A r \in W : pending[r] \subseteq W

\* Objects that wait, directly or not, for one the database lacks: those in
\* the least set that has the missing ones and is closed under waiting.
Waiting ==
    {id \in Ids :
       /\ nb[id] # None
       /\ \A W \in SUBSET Ids :
            PendingClosed(W) /\ {i \in Ids : nb[i] = None} \subseteq W
              => id \in W}

\* Without faults events alone keep the cache right: when every event was
\* handled, an object is cached as it is in the database, or it waits for a
\* reference that does not exist.
EventsSuffice ==
    /\ InOrder /\ faults = 0 /\ ~dropped
    /\ pc = "idle" /\ \A id \in Ids : events[id] = <<>>
    => \A id \in Ids : db_store[id] = nb[id] \/ id \in Waiting

\* Once the plugins stop writing and the faults end, the cache becomes equal
\* to the database and stays so: the periodic sync makes up for everything
\* events failed to do, and a late event cannot spoil the cache for good.
EventuallyConsistent == <>[](db_store = nb)
=============================================================================
