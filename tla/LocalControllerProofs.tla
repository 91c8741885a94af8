----------------------- MODULE LocalControllerProofs -----------------------
(***************************************************************************)
(* Proofs about LocalController, for any number of models, objects,        *)
(* versions, writes and faults.                                            *)
(*                                                                         *)
(* TypeCorrect is an invariance proof with one step per action.            *)
(* VersionsNeverGoBack looks at the four ways into the cache (CacheStep).  *)
(* SyncRepairs needs IInv: TypeOK, that every copy of a versioned object   *)
(* is one the database had (CopiesOK), and how far a sync got (SyncDone).  *)
(*                                                                         *)
(* ReferencesAreCached needs SearchOK: what the depth first search of      *)
(* iter_model_references_deepest_first still has to look at, together with *)
(* what it sent, contains the references of all it found.                  *)
(*                                                                         *)
(* EventsAreEnough needs EventInv: while no call fails and no event is     *)
(* lost (Calm), the last event of every object tells what the database has *)
(* (LastEvent), the task at hand has it unless an event is still to come   *)
(* (TaskFresh), a sync has read what it passed (SyncRead), and every       *)
(* cached object that differs from the database, and every object that is  *)
(* missing, is either told of by such an event or task or waits for an     *)
(* object that is (CacheFollows).                                          *)
(***************************************************************************)
EXTENDS LocalController, SequenceTheorems, TLAPS

\* Taking an element out of a sequence leaves the others.
LEMMA WithoutProperties ==
  ASSUME NEW S, NEW s \in Seq(S), NEW i \in 1 .. Len(s)
  PROVE  /\ Without(s, i) \in Seq(S)
         /\ \A j \in 1 .. Len(Without(s, i)) :
               \E k \in 1 .. Len(s) : Without(s, i)[j] = s[k]
<1> DEFINE a == SubSeq(s, 1, i - 1)
           b == SubSeq(s, i + 1, Len(s))
<1>1. a \in Seq(S) /\ Len(a) = i - 1 /\ \A j \in 1 .. i - 1 : a[j] = s[j]
  BY SubSeqProperties
<1>2. b \in Seq(S) /\ Len(b) = Len(s) - i
      /\ \A j \in 1 .. Len(s) - i : b[j] = s[j + i]
  BY SubSeqProperties
<1>3. Without(s, i) = a \o b
  BY DEF Without
<1> HIDE DEF a, b
<1>4. a \o b \in Seq(S) /\ Len(a \o b) = Len(a) + Len(b)
      /\ \A j \in 1 .. Len(a) + Len(b) :
            (a \o b)[j] = IF j <= Len(a) THEN a[j] ELSE b[j - Len(a)]
  BY <1>1, <1>2, ConcatProperties, Zenon
<1>5. ASSUME NEW j \in 1 .. Len(a) + Len(b)
      PROVE  \E k \in 1 .. Len(s) : (a \o b)[j] = s[k]
  <2>1. CASE j <= Len(a)
    <3>1. (a \o b)[j] = s[j] /\ j \in 1 .. Len(s)
      BY <2>1, <1>1, <1>4
    <3>2. QED
      BY <3>1
  <2>2. CASE j > Len(a)
    <3>1. j - Len(a) \in 1 .. Len(s) - i /\ (j - Len(a)) + i = j + 1
      BY <2>2, <1>1, <1>2
    <3>2. (a \o b)[j] = b[j - Len(a)]
      BY <2>2, <1>1, <1>4
    <3>3. (a \o b)[j] = s[j + 1] /\ j + 1 \in 1 .. Len(s)
      BY <3>1, <3>2, <1>1, <1>2
    <3>4. QED
      BY <3>3
  <2>3. QED
    BY <2>1, <2>2, <1>1
<1>6. QED
  BY <1>3, <1>4, <1>5

\* The models are sets of ids, and every id belongs to one.
LEMMA ModelFacts ==
  /\ NumModels \in Nat
  /\ \A m \in 1 .. NumModels : Models[m] \subseteq Ids
  /\ \A id \in Ids : \E m \in 1 .. NumModels : id \in Models[m]
  /\ \A id \in Ids : Referable(id) \subseteq Ids
  BY ModelsAssumption DEF NumModels, Ids, Referable

\* update_model_object replaces a cached object by a newer one, or not at all.
LEMMA UpdatedProperties ==
  ASSUME NEW s \in [Ids -> MaybeObjects], NEW new \in [Ids -> MaybeObjects]
  PROVE  /\ Updated(s, new) \in [Ids -> MaybeObjects]
         /\ \A id \in Ids :
              Updated(s, new)[id] =
                 IF new[id] # None /\ IsNewer(id, new[id], s[id])
                 THEN new[id] ELSE s[id]
  BY DEF Updated

\* The types of what an exception, or the start or end of a sync, changes.
ControlTypes ==
    /\ pc \in {"idle", "update", "sync", "dead"}
    /\ guarded \in BOOLEAN
    /\ task \in Tasks \cup {None}
    /\ loops \in Seq(SUBSET Ids)
    /\ sync_pos \in 0 .. 2 * NumModels
    /\ limited \in BOOLEAN
    /\ quiet \in BOOLEAN
    /\ dropped \in BOOLEAN

LEMMA StartSyncTypes ==
  ASSUME NEW b \in BOOLEAN, StartSync(b), limited' \in BOOLEAN
  PROVE  ControlTypes'
<1>1. sync_pos' \in 0 .. 2 * NumModels
  BY ModelFacts DEF StartSync
<1>2. loops' \in Seq(SUBSET Ids)
  BY EmptySeq DEF StartSync
<1>3. guarded' \in BOOLEAN /\ quiet' \in BOOLEAN /\ dropped' \in BOOLEAN
  BY Zenon DEF StartSync
<1>4. QED
  BY <1>1, <1>2, <1>3 DEF StartSync, ControlTypes

LEMMA StopTypes ==
  ASSUME NEW label \in {"idle", "dead"}, Stop(label),
         limited' \in BOOLEAN, dropped' \in BOOLEAN
  PROVE  ControlTypes'
<1>1. sync_pos' \in 0 .. 2 * NumModels
  BY ModelFacts DEF Stop
<1>2. loops' \in Seq(SUBSET Ids)
  BY EmptySeq DEF Stop
<1>3. guarded' \in BOOLEAN /\ quiet' \in BOOLEAN
  BY Zenon DEF Stop
<1>4. QED
  BY <1>1, <1>2, <1>3 DEF Stop, ControlTypes

LEMMA RaiseTypes == TypeOK /\ Raise => ControlTypes'
<1> SUFFICES ASSUME TypeOK, Raise PROVE ControlTypes'
  OBVIOUS
<1>1. CASE limited' = TRUE /\ StartSync(FALSE)
  BY <1>1, StartSyncTypes, Zenon
<1>2. CASE Stop("idle") /\ dropped' = TRUE /\ UNCHANGED limited
  BY <1>2, StopTypes DEF TypeOK
<1>3. CASE Stop("dead") /\ UNCHANGED <<dropped, limited>>
  BY <1>3, StopTypes DEF TypeOK
<1>4. QED
  BY <1>1, <1>2, <1>3, Zenon DEF Raise

\* Every step of the plugins, of the network and of the controller thread
\* keeps the types of the database, the events and the controller's state.
LEMMA TypeStep == TypeOK /\ [Next]_vars => TypeOK'
<1> SUFFICES ASSUME TypeOK, [Next]_vars PROVE TypeOK'
  OBVIOUS
<1>p. ASSUME NEW id \in Ids, NEW v \in MaybeObjects, Publish(id, v)
      PROVE  /\ nb' \in [Ids -> MaybeObjects]
             /\ events' \in [Ids -> Seq(MaybeObjects)]
             /\ writes' \in 0 .. MaxWrites /\ quiet' \in BOOLEAN
  <2>1. Append(events[id], v) \in Seq(MaybeObjects)
    BY AppendProperties DEF TypeOK
  <2>2. nb' \in [Ids -> MaybeObjects]
    BY <1>p DEF TypeOK, Publish
  <2>3. events' \in [Ids -> Seq(MaybeObjects)]
    BY <1>p, <2>1 DEF TypeOK, Publish
  <2>4. writes' \in 0 .. MaxWrites
    BY <1>p, BoundsAssumption DEF TypeOK, Publish
  <2>5. quiet' \in BOOLEAN
    BY <1>p, Zenon DEF Publish
  <2>6. QED
    BY <2>2, <2>3, <2>4, <2>5
<1>f. Fault => faults' \in 0 .. MaxFaults
  BY BoundsAssumption DEF Fault, TypeOK
<1>o. ASSUME NEW id \in Ids, NEW v \in Versions,
             NEW R \in SUBSET Referable(id)
      PROVE  [version |-> v, refs |-> R] \in MaybeObjects
  BY <1>o, ModelFacts DEF MaybeObjects, Objects
<1>1. ASSUME NEW id \in Ids, NbCreate(id) PROVE TypeOK'
  BY <1>1, <1>p, <1>o DEF TypeOK, NbCreate, ctlVars, envVars
<1>2. ASSUME NEW id \in Ids, NbUpdate(id) PROVE TypeOK'
  BY <1>2, <1>p, <1>o DEF TypeOK, NbUpdate, ctlVars, envVars
<1>3. ASSUME NEW id \in Ids, NbDelete(id) PROVE TypeOK'
  BY <1>3, <1>p DEF TypeOK, NbDelete, MaybeObjects, ctlVars, envVars
<1>4. ASSUME NEW id \in Ids, NEW i \in DOMAIN events[id], LoseEvent(id, i)
      PROVE  TypeOK'
  <2>0. i \in 1 .. Len(events[id]) /\ events[id] \in Seq(MaybeObjects)
    BY DEF TypeOK
  <2>1. Without(events[id], i) \in Seq(MaybeObjects)
    BY <2>0, WithoutProperties
  <2>2. QED
    BY <1>4, <1>f, <2>1 DEF TypeOK, LoseEvent, ctlVars
<1>5. ASSUME NbFails \/ NbRecovers \/ SubmitSyncEvent \/ LimiterExpires
      PROVE  TypeOK'
  <2>1. UNCHANGED <<nbVars, ctlVars>>
    BY <1>5 DEF NbFails, NbRecovers, SubmitSyncEvent, LimiterExpires
  <2>2. faults' \in 0 .. MaxFaults
    BY <1>5, <1>f DEF NbFails, NbRecovers, SubmitSyncEvent, LimiterExpires,
                      TypeOK
  <2>3. nb_up' \in BOOLEAN /\ sync_due' \in BOOLEAN /\ limited' \in BOOLEAN
    BY <1>5, Zenon DEF NbFails, NbRecovers, SubmitSyncEvent, LimiterExpires,
                       TypeOK
  <2>4. QED
    BY <2>1, <2>2, <2>3 DEF TypeOK, nbVars, ctlVars
<1>6. ASSUME NEW id \in Ids, NEW i \in Deliverable(id), HandleSet(id, i)
      PROVE  TypeOK'
  <2>0. i \in 1 .. Len(events[id]) /\ events[id] \in Seq(MaybeObjects)
    BY DEF Deliverable, TypeOK
  <2>1. Without(events[id], i) \in Seq(MaybeObjects)
    BY <2>0, WithoutProperties
  <2>2. events[id][i] \in Objects
    BY <1>6, <2>0 DEF HandleSet, MaybeObjects
  <2>3. NewTask(id, events[id][i]) \in Tasks
    BY <2>2 DEF NewTask, Tasks, Objects, MaybeObjects
  <2>4. QED
    BY <1>6, <2>1, <2>3 DEF TypeOK, HandleSet, envVars
<1>7. ASSUME NEW id \in Ids, NEW i \in Deliverable(id), HandleDelete(id, i)
      PROVE  TypeOK'
  <2>0. i \in 1 .. Len(events[id]) /\ events[id] \in Seq(MaybeObjects)
    BY DEF Deliverable, TypeOK
  <2>1. Without(events[id], i) \in Seq(MaybeObjects)
    BY <2>0, WithoutProperties
  <2>2. QED
    BY <1>7, <2>1 DEF TypeOK, HandleDelete, MaybeObjects, envVars
<1>8. ASSUME HandleSync PROVE TypeOK'
  <2>1. ControlTypes'
    BY <1>8, StartSyncTypes, Zenon DEF HandleSync, TypeOK
  <2>2. QED
    BY <1>8, <2>1, Zenon DEF TypeOK, ControlTypes, HandleSync
<1>9. ASSUME HandleReinitialize PROVE TypeOK'
  <2>1. ControlTypes'
    BY <1>9, StartSyncTypes, Zenon DEF HandleReinitialize, TypeOK
  <2>2. QED
    BY <1>9, <1>f, <2>1 DEF TypeOK, ControlTypes, HandleReinitialize,
                            MaybeObjects
<1>10. ASSUME HandleDbRestart PROVE TypeOK'
  <2>1. ControlTypes' /\ UNCHANGED <<db_store, pending>>
    BY <1>10, RaiseTypes, Zenon DEF HandleDbRestart, Raise
  <2>2. QED
    BY <1>10, <1>f, <2>1 DEF TypeOK, ControlTypes, HandleDbRestart
<1>11. ASSUME NEW r \in Ids, Dereference(r) PROVE TypeOK'
  <2> DEFINE item == IF db_store[r] = None THEN nb[r] ELSE db_store[r]
             seen == {task.id, r} \cup {i \in Ids : task.found[i] # None}
  <2>1. task \in Tasks /\ item \in MaybeObjects
    BY <1>11, NoneAssumption DEF TypeOK, Dereference
  <2>2. CASE Raise
    <3>1. ControlTypes' /\ UNCHANGED <<db_store, pending>>
      BY <2>2, RaiseTypes, Zenon DEF Raise
    <3>2. QED
      BY <1>11, <3>1 DEF TypeOK, ControlTypes, Dereference
  <2>3. CASE /\ pending' = [pending EXCEPT ![r] = @ \cup {task.id}]
             /\ TaskDone(loops)
             /\ UNCHANGED <<db_store, guarded, sync_pos, quiet, dropped,
                            limited>>
    <3>1. pending' \in [Ids -> SUBSET Ids]
      BY <2>1, <2>3 DEF TypeOK, Tasks
    <3>2. QED
      BY <1>11, <2>3, <3>1 DEF TypeOK, Dereference, TaskDone
  <2>4. CASE /\ item # None
             /\ task' = [task EXCEPT !.found[r] = item,
                                     !.todo = (@ \cup item.refs) \ seen]
             /\ UNCHANGED <<db_store, pending, pc, guarded, loops, sync_pos,
                            quiet, dropped, limited>>
    <3>1. item \in Objects
      BY <2>1, <2>4 DEF MaybeObjects
    <3>2. task' \in Tasks
      BY <2>1, <2>4, <3>1, Zenon DEF Tasks, Objects
    <3>3. QED
      BY <1>11, <2>4, <3>2 DEF TypeOK, Dereference
  <2>5. QED
    BY <1>11, <2>2, <2>3, <2>4 DEF Dereference
<1>12. ASSUME SendUpdateEvents PROVE TypeOK'
  <2> DEFINE new == [task.found EXCEPT ![task.id] = task.obj]
  <2>1. task \in Tasks
    BY <1>12 DEF TypeOK, SendUpdateEvents
  <2>2. new \in [Ids -> MaybeObjects]
    BY <2>1 DEF Tasks, MaybeObjects
  <2>3. db_store' \in [Ids -> MaybeObjects]
    BY <1>12, <2>2, UpdatedProperties, Zenon DEF TypeOK, SendUpdateEvents
  <2>4. pending' \in [Ids -> SUBSET Ids]
    BY <1>12, <2>1 DEF TypeOK, SendUpdateEvents, Tasks
  <2>5. <<pending[task.id]>> \o loops \in Seq(SUBSET Ids)
    BY <2>1 DEF TypeOK, Tasks
  <2>6. loops' \in Seq(SUBSET Ids)
    BY <1>12, <2>5, Zenon DEF TypeOK, SendUpdateEvents, TaskDone
  <2>7. task' = None /\ pc' \in {"idle", "update"}
    BY <1>12 DEF SendUpdateEvents, TaskDone
  <2>8. QED
    BY <1>12, <2>3, <2>4, <2>6, <2>7, Zenon
       DEF TypeOK, SendUpdateEvents, nbVars, envVars
<1>13. ASSUME NEW id \in Ids, SendPendingEvent(id) PROVE TypeOK'
  <2>1. CASE Raise
    <3>1. ControlTypes' /\ UNCHANGED <<db_store, pending>>
      BY <2>1, RaiseTypes, Zenon DEF Raise
    <3>2. QED
      BY <1>13, <3>1 DEF TypeOK, ControlTypes, SendPendingEvent
  <2>2. CASE ~Raise
    <3>1. nb[id] \in Objects
      BY <1>13, <2>2 DEF SendPendingEvent, TypeOK, MaybeObjects
    <3>2. NewTask(id, nb[id]) \in Tasks
      BY <3>1 DEF NewTask, Tasks, Objects, MaybeObjects
    <3>3. Head(loops) \in SUBSET Ids /\ Tail(loops) \in Seq(SUBSET Ids)
      BY <1>13, HeadTailProperties DEF SendPendingEvent, TypeOK
    <3>4. <<Head(loops) \ {id}>> \o Tail(loops) \in Seq(SUBSET Ids)
      BY <3>3
    <3>5. loops' \in Seq(SUBSET Ids)
      BY <1>13, <2>2, <3>3, <3>4, Zenon DEF SendPendingEvent
    <3>6. QED
      BY <1>13, <2>2, <3>2, <3>5 DEF TypeOK, SendPendingEvent
  <2>3. QED
    BY <2>1, <2>2
<1>14. ASSUME UpdateModel PROVE TypeOK'
  <2>1. CASE Raise
    <3>1. ControlTypes' /\ UNCHANGED <<db_store, pending>>
      BY <2>1, RaiseTypes, Zenon DEF Raise
    <3>2. QED
      BY <1>14, <3>1 DEF TypeOK, ControlTypes, UpdateModel
  <2>2. CASE ~Raise
    <3> DEFINE new == [id \in Ids |-> IF id \in Models[sync_pos + 1]
                                      THEN nb[id] ELSE None]
    <3>1. new \in [Ids -> MaybeObjects]
      BY DEF TypeOK, MaybeObjects
    <3>a. db_store' = Updated(db_store, new)
      BY <1>14, <2>2 DEF UpdateModel
    <3> HIDE DEF new
    <3>2. db_store' \in [Ids -> MaybeObjects]
      BY <3>1, <3>a, UpdatedProperties DEF TypeOK
    <3>3. sync_pos' \in 0 .. 2 * NumModels
      BY <1>14, <2>2, ModelFacts DEF UpdateModel, SyncUpdates, TypeOK
    <3>4. QED
      BY <1>14, <2>2, <3>2, <3>3 DEF TypeOK, UpdateModel
  <2>3. QED
    BY <2>1, <2>2
<1>15. ASSUME CleanupModel PROVE TypeOK'
  <2>1. CASE Raise
    <3>1. ControlTypes' /\ UNCHANGED <<db_store, pending>>
      BY <2>1, RaiseTypes, Zenon DEF Raise
    <3>2. QED
      BY <1>15, <3>1 DEF TypeOK, ControlTypes, CleanupModel
  <2>2. CASE ~Raise
    <3>1. db_store' \in [Ids -> MaybeObjects]
      BY <1>15, <2>2 DEF CleanupModel, TypeOK, MaybeObjects
    <3>2. sync_pos' \in 0 .. 2 * NumModels
      BY <1>15, <2>2, ModelFacts DEF CleanupModel, SyncCleansUp, TypeOK
    <3>3. QED
      BY <1>15, <2>2, <3>1, <3>2 DEF TypeOK, CleanupModel
  <2>3. QED
    BY <2>1, <2>2
<1>16. ASSUME EndSync PROVE TypeOK'
  <2>1. ControlTypes'
    BY <1>16, StopTypes DEF EndSync, TypeOK, envVars
  <2>2. QED
    BY <1>16, <2>1 DEF TypeOK, ControlTypes, EndSync, envVars
<1>17. ASSUME Crash PROVE TypeOK'
  <2>1. ControlTypes'
    BY <1>17, StopTypes DEF Crash, TypeOK
  <2>2. QED
    BY <1>17, <1>f, <2>1 DEF TypeOK, ControlTypes, Crash
<1>18. ASSUME Restart PROVE TypeOK'
  <2>1. ControlTypes'
    BY <1>18, StartSyncTypes, Zenon DEF Restart, TypeOK
  <2>2. /\ db_store' \in [Ids -> MaybeObjects]
        /\ pending' \in [Ids -> SUBSET Ids]
        /\ events' \in [Ids -> Seq(MaybeObjects)]
    BY <1>18, EmptySeq DEF Restart, MaybeObjects
  <2>3. QED
    BY <1>18, <2>1, <2>2, Zenon DEF TypeOK, ControlTypes, Restart
<1>19. CASE UNCHANGED vars
  BY <1>19 DEF TypeOK, vars, nbVars, ctlVars, envVars
<1>20. QED
  BY <1>1, <1>2, <1>3, <1>4, <1>5, <1>6, <1>7, <1>8, <1>9, <1>10, <1>11,
     <1>12, <1>13, <1>14, <1>15, <1>16, <1>17, <1>18, <1>19 DEF Next, Step

\* Initially nothing was written and the cache is empty.
LEMMA TypeInit == Init => TypeOK
<1> SUFFICES ASSUME Init PROVE TypeOK
  OBVIOUS
<1>1. <<>> \in Seq(SUBSET Ids) /\ <<>> \in Seq(MaybeObjects)
  BY EmptySeq
<1>2. 0 \in 0 .. MaxWrites /\ 0 \in 0 .. MaxFaults /\ 0 \in 0 .. 2 * NumModels
  BY BoundsAssumption, ModelFacts
<1>3. None \in MaybeObjects
  BY DEF MaybeObjects
<1>4. QED
  BY <1>1, <1>2, <1>3, Zenon DEF Init, TypeOK

\* The controller's state is well typed in every reachable state, whatever is
\* lost, reordered or raised: in particular only ids are put aside, and a sync
\* never indexes past the models.
THEOREM TypeCorrect == Spec => []TypeOK
<1>1. QED
  BY TypeInit, TypeStep, PTL DEF Spec

----------------------------------------------------------------------------
(* How a step changes the cache. *)

\* An exception leaves the cache alone.
LEMMA RaiseCache == Raise => UNCHANGED <<db_store, pending>>
  BY DEF Raise

\* An object already cached is replaced by one that is newer, is dropped, or
\* stays.
LEMMA CacheStep ==
  ASSUME TypeOK, [Next]_vars, NEW id \in Ids
  PROVE  \/ db_store'[id] = db_store[id]
         \/ db_store'[id] = None
         \/ /\ db_store'[id] \in Objects
            /\ IsNewer(id, db_store'[id], db_store[id])
<1>u. ASSUME NEW new \in [Ids -> MaybeObjects], db_store' = Updated(db_store, new)
      PROVE  \/ db_store'[id] = db_store[id]
             \/ /\ db_store'[id] \in Objects
                /\ IsNewer(id, db_store'[id], db_store[id])
  BY <1>u, UpdatedProperties, Zenon DEF TypeOK, MaybeObjects
<1>1. CASE UNCHANGED db_store
  BY <1>1
<1>2. CASE HandleReinitialize \/ Restart
  BY <1>2, Zenon DEF HandleReinitialize, Restart
<1>3. ASSUME NEW k \in Ids, NEW i, HandleDelete(k, i)
      PROVE  db_store'[id] = db_store[id] \/ db_store'[id] = None
  BY <1>3 DEF HandleDelete, TypeOK
<1>4. CASE CleanupModel
  BY <1>4, RaiseCache DEF CleanupModel
<1>5. CASE SendUpdateEvents
  <2> DEFINE new == [task.found EXCEPT ![task.id] = task.obj]
  <2>1. new \in [Ids -> MaybeObjects]
    BY <1>5 DEF SendUpdateEvents, TypeOK, Tasks, MaybeObjects
  <2>2. db_store' = Updated(db_store, new)
    BY <1>5 DEF SendUpdateEvents
  <2> HIDE DEF new
  <2>3. QED
    BY <2>1, <2>2, <1>u
<1>6. CASE UpdateModel
  <2> DEFINE new == [k \in Ids |-> IF k \in Models[sync_pos + 1]
                                   THEN nb[k] ELSE None]
  <2>1. new \in [Ids -> MaybeObjects]
    BY DEF TypeOK, MaybeObjects
  <2>2. db_store' = Updated(db_store, new) \/ UNCHANGED db_store
    BY <1>6, RaiseCache DEF UpdateModel
  <2> HIDE DEF new
  <2>3. QED
    BY <2>1, <2>2, <1>u
<1>7. \/ UNCHANGED db_store
      \/ HandleReinitialize \/ Restart \/ CleanupModel
      \/ SendUpdateEvents \/ UpdateModel
      \/ \E k \in Ids : \E i \in Deliverable(k) : HandleDelete(k, i)
  <2>1. CASE UNCHANGED vars
    BY <2>1 DEF vars, ctlVars
  <2>2. ASSUME NEW k \in Ids, NbCreate(k) \/ NbUpdate(k) \/ NbDelete(k)
        PROVE  UNCHANGED db_store
    BY <2>2 DEF NbCreate, NbUpdate, NbDelete, ctlVars
  <2>3. ASSUME NEW k \in Ids, NEW i \in DOMAIN events[k], LoseEvent(k, i)
        PROVE  UNCHANGED db_store
    BY <2>3 DEF LoseEvent, ctlVars
  <2>4. CASE \/ NbFails \/ NbRecovers \/ SubmitSyncEvent \/ LimiterExpires
             \/ HandleSync \/ HandleDbRestart \/ Crash \/ EndSync
    BY <2>4, RaiseCache, Zenon
       DEF NbFails, NbRecovers, SubmitSyncEvent, LimiterExpires, HandleSync,
           HandleDbRestart, Crash, EndSync, ctlVars
  <2>5. ASSUME NEW r \in Ids, Dereference(r) \/ SendPendingEvent(r)
        PROVE  UNCHANGED db_store
    BY <2>5, RaiseCache DEF Dereference, SendPendingEvent
  <2>6. ASSUME NEW k \in Ids, NEW i \in Deliverable(k), HandleSet(k, i)
        PROVE  UNCHANGED db_store
    BY <2>6 DEF HandleSet
  <2>7. QED
    BY <2>1, <2>2, <2>3, <2>4, <2>5, <2>6 DEF Next, Step
<1>8. QED
  BY <1>1, <1>2, <1>3, <1>4, <1>5, <1>6, <1>7

\* _is_newer guards every way into the cache: a cached versioned object is
\* never replaced by an older version, for any number of objects, models,
\* versions and faults.
THEOREM VersionsNeverGoBack == Spec => VersionsAdvance
<1>1. ASSUME TypeOK, [Next]_vars, NEW id \in Versioned \cap Ids,
             db_store[id] # None, db_store'[id] # None
      PROVE  db_store'[id].version >= db_store[id].version
  <2>1. db_store[id] \in Objects
    BY <1>1 DEF TypeOK, MaybeObjects
  <2>2. \/ db_store'[id] = db_store[id]
        \/ /\ db_store'[id] \in Objects
           /\ db_store'[id].version > db_store[id].version
    BY <1>1, CacheStep DEF IsNewer
  <2>3. QED
    BY <2>1, <2>2, BoundsAssumption DEF Objects, Versions
<1>2. TypeOK /\ [Next]_vars =>
        [\A id \in Versioned \cap Ids :
           db_store[id] # None /\ db_store'[id] # None =>
              db_store'[id].version >= db_store[id].version]_vars
  BY <1>1
<1>3. QED
  BY <1>2, TypeCorrect, PTL DEF Spec, VersionsAdvance

----------------------------------------------------------------------------
(* Why a sync repairs the cache.  For an object without a version the sync *)
(* overwrites what differs.  For a versioned one it relies on every copy   *)
(* of the object, wherever it travels, being one the database had before.  *)

\* Copy c of object id is not from the future, and a copy with the version of
\* the database is the object of the database.
Copy(id, c) ==
    c # None =>
      /\ id \in used
      /\ nb[id] # None =>
           /\ c.version <= nb[id].version
           /\ c.version = nb[id].version => c = nb[id]

\* The copies of versioned objects: in the cache, in events on their way and
\* in the update being prepared.
CopiesOK ==
    \A id \in Versioned \cap Ids :
      /\ nb[id] # None => id \in used
      /\ Copy(id, db_store[id])
      /\ \A i \in 1 .. Len(events[id]) : Copy(id, events[id][i])
      /\ task # None =>
           /\ task.id = id => Copy(id, task.obj)
           /\ Copy(id, task.found[id])

\* What an undisturbed sync has achieved so far.
SyncDone ==
    pc = "sync" /\ quiet =>
      \A m \in 1 .. NumModels : \A id \in Models[m] :
        /\ m <= sync_pos /\ nb[id] # None => db_store[id] = nb[id]
        /\ m > 2 * NumModels - sync_pos /\ nb[id] = None => db_store[id] = None

IInv == TypeOK /\ CopiesOK /\ SyncDone

\* What the database has is a copy of itself.
LEMMA CopyOfNb ==
  ASSUME CopiesOK, TypeOK, NEW id \in Versioned \cap Ids
  PROVE  Copy(id, nb[id])
<1>1. nb[id] # None => nb[id].version \in Nat
  BY BoundsAssumption DEF TypeOK, MaybeObjects, Objects, Versions
<1>2. QED
  BY <1>1 DEF CopiesOK, Copy

\* While nobody writes, new copies are made from old ones.
LEMMA CopiesKept ==
  ASSUME CopiesOK, UNCHANGED <<nb, used>>,
         \A id \in Versioned \cap Ids :
           /\ Copy(id, db_store'[id])
           /\ \A i \in 1 .. Len(events'[id]) : Copy(id, events'[id][i])
           /\ task' # None =>
                /\ task'.id = id => Copy(id, task'.obj)
                /\ Copy(id, task'.found[id])
  PROVE  CopiesOK'
  BY DEF CopiesOK, Copy

\* A write makes all copies of the object older, and a versioned object whose
\* id was used is not created again.
LEMMA WriteCopies ==
  ASSUME TypeOK, CopiesOK, NEW w \in Ids,
         NbCreate(w) \/ NbUpdate(w) \/ NbDelete(w)
  PROVE  CopiesOK'
<1>1. PICK v \in MaybeObjects :
        /\ nb' = [nb EXCEPT ![w] = v]
        /\ events' = [events EXCEPT ![w] = Append(@, v)]
        /\ UNCHANGED <<db_store, task>>
        /\ used \subseteq used'
        /\ w \in Versioned /\ v # None =>
             /\ w \in used'
             /\ \/ w \notin used
                \/ nb[w] # None /\ v.version = nb[w].version + 1
  <2>1. ASSUME NEW v \in Versions, NEW R \in SUBSET Referable(w)
        PROVE  [version |-> v, refs |-> R] \in Objects
    BY <2>1, ModelFacts DEF Objects
  <2>2. CASE NbCreate(w)
    BY <2>1, <2>2, Zenon DEF NbCreate, Publish, ctlVars, MaybeObjects
  <2>3. CASE NbUpdate(w)
    <3>1. PICK v \in Versions, R \in SUBSET Referable(w) :
             /\ w \in Versioned => v = nb[w].version + 1
             /\ Publish(w, [version |-> v, refs |-> R])
      BY <2>3 DEF NbUpdate
    <3>2. [version |-> v, refs |-> R] \in MaybeObjects
      BY <2>1 DEF MaybeObjects
    <3>3. nb[w] # None /\ UNCHANGED <<used, db_store, task>>
      BY <2>3 DEF NbUpdate, ctlVars
    <3>4. w \in used \/ w \notin Versioned
      BY <3>3 DEF CopiesOK
    <3>5. QED
      BY <3>1, <3>2, <3>3, <3>4, Zenon DEF Publish
  <2>4. CASE NbDelete(w)
    BY <2>4, Zenon DEF NbDelete, Publish, ctlVars, MaybeObjects
  <2>5. QED
    BY <2>2, <2>3, <2>4
<1>2. ASSUME NEW id \in Versioned \cap Ids PROVE nb'[id] # None => id \in used'
  BY <1>1 DEF CopiesOK, TypeOK
<1>3. ASSUME NEW id \in Versioned \cap Ids, NEW c \in MaybeObjects, Copy(id, c)
      PROVE  Copy(id, c)'
  <2>1. CASE id # w
    BY <1>1, <1>3, <2>1 DEF Copy, TypeOK
  <2>2. CASE id = w
    <3>1. CASE c = None \/ v = None
      BY <1>1, <1>3, <2>2, <3>1 DEF Copy, TypeOK
    <3>2. CASE c # None /\ v # None
      <4>1. id \in used /\ nb'[id] = v
        BY <1>1, <1>3, <2>2, <3>2 DEF Copy, TypeOK
      <4>2. /\ nb[id] # None /\ v.version = nb[id].version + 1
            /\ c.version <= nb[id].version
        BY <1>1, <1>3, <2>2, <3>2, <4>1 DEF Copy
      <4>3. c.version \in Nat /\ nb[id].version \in Nat
        BY <3>2, <4>2, BoundsAssumption
           DEF TypeOK, MaybeObjects, Objects, Versions
      <4>4. c.version < v.version
        BY <4>2, <4>3
      <4>5. QED
        BY <1>1, <4>1, <4>2, <4>3, <4>4 DEF Copy
    <3>3. QED
      BY <3>1, <3>2
  <2>3. QED
    BY <2>1, <2>2
<1>4. ASSUME NEW id \in Versioned \cap Ids, NEW i \in 1 .. Len(events'[id])
      PROVE  Copy(id, events[id][i])'
  <2>1. CASE i \in 1 .. Len(events[id]) /\ events'[id][i] = events[id][i]
    <3>1. events[id][i] \in MaybeObjects /\ Copy(id, events[id][i])
      BY <2>1 DEF TypeOK, CopiesOK
    <3>2. QED
      BY <1>3, <2>1, <3>1
  <2>2. CASE id = w /\ events'[id][i] = v
    <3>1. nb'[id] = v /\ (v # None => v.version \in Nat /\ id \in used')
      BY <1>1, <2>2, BoundsAssumption
         DEF TypeOK, MaybeObjects, Objects, Versions
    <3>2. QED
      BY <2>2, <3>1 DEF Copy
  <2>3. \/ i \in 1 .. Len(events[id]) /\ events'[id][i] = events[id][i]
        \/ id = w /\ events'[id][i] = v
    BY <1>1, AppendProperties DEF TypeOK
  <2>4. QED
    BY <2>1, <2>2, <2>3
<1>5. ASSUME NEW id \in Versioned \cap Ids
      PROVE  /\ Copy(id, db_store[id])'
             /\ task' # None =>
                  /\ task'.id = id => Copy(id, task.obj)'
                  /\ Copy(id, task.found[id])'
  <2>1. Copy(id, db_store[id])'
    BY <1>1, <1>3 DEF TypeOK, CopiesOK
  <2>2. task # None => task.obj \in MaybeObjects /\ task.found[id] \in MaybeObjects
    BY DEF TypeOK, Tasks, MaybeObjects
  <2>3. QED
    BY <1>1, <1>3, <2>1, <2>2 DEF CopiesOK
<1>6. QED
  BY <1>2, <1>4, <1>5 DEF CopiesOK

\* What goes into the cache is a copy if it came from one.
LEMMA UpdatedCopies ==
  ASSUME TypeOK, CopiesOK, NEW new \in [Ids -> MaybeObjects],
         db_store' = Updated(db_store, new),
         \A id \in Versioned \cap Ids : Copy(id, new[id])
  PROVE  \A id \in Versioned \cap Ids : Copy(id, db_store'[id])
  BY UpdatedProperties, Zenon DEF TypeOK, CopiesOK

\* An event taken out of the queue leaves the others.
LEMMA TakenEvent ==
  ASSUME TypeOK, CopiesOK, NEW k \in Ids, NEW i \in 1 .. Len(events[k]),
         events' = [events EXCEPT ![k] = Without(@, i)]
  PROVE  \A id \in Versioned \cap Ids :
           \A j \in 1 .. Len(events'[id]) : Copy(id, events'[id][j])
<1> SUFFICES ASSUME NEW id \in Versioned \cap Ids,
                    NEW j \in 1 .. Len(events'[id])
             PROVE  Copy(id, events'[id][j])
  OBVIOUS
<1>1. CASE id # k
  BY <1>1, Zenon DEF TypeOK, CopiesOK
<1>2. CASE id = k
  <2>1. events[k] \in Seq(MaybeObjects) /\ events'[k] = Without(events[k], i)
    BY DEF TypeOK
  <2>2. \E l \in 1 .. Len(events[k]) : events'[k][j] = events[k][l]
    BY <1>2, <2>1, WithoutProperties
  <2>3. QED
    BY <1>2, <2>2 DEF CopiesOK
<1>3. QED
  BY <1>1, <1>2

\* An exception makes no copies.
LEMMA RaiseCopies ==
  ASSUME CopiesOK, Raise, UNCHANGED <<nb, used, events>>
  PROVE  CopiesOK'
<1>1. task' = None /\ UNCHANGED db_store
  BY DEF Raise, StartSync, Stop
<1>2. QED
  BY <1>1, CopiesKept DEF CopiesOK

\* No step brings a copy the database never had.
LEMMA CopiesStep == TypeOK /\ CopiesOK /\ [Next]_vars => CopiesOK'
<1> SUFFICES ASSUME TypeOK, CopiesOK, [Next]_vars PROVE CopiesOK'
  OBVIOUS
<1>1. ASSUME NEW id \in Ids, NbCreate(id) \/ NbUpdate(id) \/ NbDelete(id)
      PROVE  CopiesOK'
  BY <1>1, WriteCopies
<1>2. CASE UNCHANGED <<nb, used, events, db_store, task>>
  BY <1>2, CopiesKept DEF CopiesOK
<1>3. CASE /\ UNCHANGED <<nb, used, events>> /\ task' = None
           /\ db_store' = db_store \/ db_store' = [id \in Ids |-> None]
  <2>1. \A id \in Versioned \cap Ids : Copy(id, db_store'[id])
    BY <1>3 DEF CopiesOK, Copy
  <2>2. QED
    BY <1>3, <2>1, CopiesKept DEF CopiesOK
<1>4. ASSUME NEW id \in Ids, NEW i \in DOMAIN events[id], LoseEvent(id, i)
      PROVE  CopiesOK'
  <2>1. i \in 1 .. Len(events[id])
    BY DEF TypeOK
  <2>2. /\ events' = [events EXCEPT ![id] = Without(@, i)]
        /\ UNCHANGED <<nb, used, db_store, task>>
    BY <1>4 DEF LoseEvent, ctlVars
  <2>3. QED
    BY <2>1, <2>2, TakenEvent, CopiesKept, Zenon DEF CopiesOK
<1>5. ASSUME NEW id \in Ids, NEW i \in Deliverable(id), HandleSet(id, i)
      PROVE  CopiesOK'
  <2>1. i \in 1 .. Len(events[id])
    BY DEF Deliverable, TypeOK
  <2>2. /\ events' = [events EXCEPT ![id] = Without(@, i)]
        /\ UNCHANGED <<nb, used, db_store>>
        /\ task'.id = id /\ task'.obj = events[id][i]
        /\ task'.found = [k \in Ids |-> None]
    BY <1>5 DEF HandleSet, NewTask
  <2>3. \A k \in Versioned \cap Ids :
           /\ task'.id = k => Copy(k, task'.obj)
           /\ Copy(k, task'.found[k])
    BY <2>1, <2>2 DEF CopiesOK, Copy
  <2>4. QED
    BY <2>1, <2>2, <2>3, TakenEvent, CopiesKept, Zenon DEF CopiesOK
<1>6. ASSUME NEW id \in Ids, NEW i \in Deliverable(id), HandleDelete(id, i)
      PROVE  CopiesOK'
  <2>1. i \in 1 .. Len(events[id])
    BY DEF Deliverable, TypeOK
  <2>2. /\ events' = [events EXCEPT ![id] = Without(@, i)]
        /\ UNCHANGED <<nb, used, task>>
        /\ db_store' = [db_store EXCEPT ![id] = None]
    BY <1>6 DEF HandleDelete
  <2>3. \A k \in Versioned \cap Ids : Copy(k, db_store'[k])
    BY <2>2 DEF CopiesOK, Copy, TypeOK
  <2>4. QED
    BY <2>1, <2>2, <2>3, TakenEvent, CopiesKept, Zenon DEF CopiesOK
<1>7. ASSUME NEW r \in Ids, Dereference(r) PROVE CopiesOK'
  <2> DEFINE item == IF db_store[r] = None THEN nb[r] ELSE db_store[r]
             seen == {task.id, r} \cup {i \in Ids : task.found[i] # None}
  <2>1. task \in Tasks /\ UNCHANGED <<nb, used, events>>
    BY <1>7 DEF Dereference, TypeOK
  <2>2. CASE Raise
    BY <2>1, <2>2, RaiseCopies
  <2>3. CASE TaskDone(loops) /\ UNCHANGED db_store
    BY <1>3, <2>1, <2>3 DEF TaskDone
  <2>4. CASE /\ task' = [task EXCEPT !.found[r] = item,
                                     !.todo = (@ \cup item.refs) \ seen]
             /\ UNCHANGED db_store
    <3>1. r \in Versioned => Copy(r, item)
      BY CopyOfNb DEF CopiesOK
    <3> HIDE DEF item
    <3>2. /\ task'.id = task.id /\ task'.obj = task.obj
          /\ task'.found = [task.found EXCEPT ![r] = item]
      BY <2>1, <2>4 DEF Tasks
    <3>3. task # None
      BY <1>7 DEF Dereference
    <3>4. \A k \in Versioned \cap Ids :
             /\ task'.id = k => Copy(k, task'.obj)
             /\ Copy(k, task'.found[k])
      BY <2>1, <3>1, <3>2, <3>3 DEF CopiesOK, Tasks
    <3>5. QED
      BY <2>1, <2>4, <3>4, CopiesKept, Zenon DEF CopiesOK
  <2>5. QED
    BY <1>7, <2>2, <2>3, <2>4 DEF Dereference
<1>8. CASE SendUpdateEvents
  <2> DEFINE new == [task.found EXCEPT ![task.id] = task.obj]
  <2>1. new \in [Ids -> MaybeObjects] /\ task \in Tasks /\ task # None
    BY <1>8 DEF SendUpdateEvents, TypeOK, Tasks, MaybeObjects
  <2>2. \A k \in Versioned \cap Ids : Copy(k, new[k])
    BY <2>1 DEF CopiesOK, Tasks
  <2>3. /\ db_store' = Updated(db_store, new) /\ task' = None
        /\ UNCHANGED <<nb, used, events>>
    BY <1>8 DEF SendUpdateEvents, TaskDone, nbVars
  <2> HIDE DEF new
  <2>4. \A k \in Versioned \cap Ids : Copy(k, db_store'[k])
    BY <2>1, <2>2, <2>3, UpdatedCopies
  <2>5. QED
    BY <2>3, <2>4, CopiesKept DEF CopiesOK
<1>9. ASSUME NEW id \in Ids, SendPendingEvent(id) PROVE CopiesOK'
  <2>1. CASE Raise
    BY <1>9, <2>1, RaiseCopies DEF SendPendingEvent
  <2>2. CASE ~Raise
    <3>1. /\ task'.id = id /\ task'.obj = nb[id]
          /\ task'.found = [k \in Ids |-> None]
          /\ UNCHANGED <<nb, used, events, db_store>>
      BY <1>9, <2>2 DEF SendPendingEvent, NewTask
    <3>2. \A k \in Versioned \cap Ids :
             /\ task'.id = k => Copy(k, task'.obj)
             /\ Copy(k, task'.found[k])
      <4>1. \A k \in Versioned \cap Ids : Copy(k, task'.found[k])
        BY <3>1 DEF Copy
      <4>2. id \in Versioned => Copy(id, nb[id])
        BY CopyOfNb
      <4>3. QED
        BY <3>1, <4>1, <4>2
    <3>3. QED
      BY <3>1, <3>2, CopiesKept DEF CopiesOK
  <2>3. QED
    BY <2>1, <2>2
<1>10. CASE UpdateModel
  <2>1. CASE Raise
    BY <1>10, <2>1, RaiseCopies DEF UpdateModel
  <2>2. CASE ~Raise
    <3> DEFINE new == [id \in Ids |-> IF id \in Models[sync_pos + 1]
                                      THEN nb[id] ELSE None]
    <3>1. new \in [Ids -> MaybeObjects]
      BY DEF TypeOK, MaybeObjects
    <3>2. ASSUME NEW k \in Versioned \cap Ids PROVE Copy(k, new[k])
      <4>1. Copy(k, nb[k]) /\ Copy(k, None)
        BY CopyOfNb DEF Copy
      <4>2. QED
        BY <4>1
    <3>3. /\ db_store' = Updated(db_store, new)
          /\ UNCHANGED <<nb, used, events, task>>
      BY <1>10, <2>2 DEF UpdateModel
    <3> HIDE DEF new
    <3>4. \A k \in Versioned \cap Ids : Copy(k, db_store'[k])
      BY <3>1, <3>2, <3>3, UpdatedCopies
    <3>5. QED
      BY <3>3, <3>4, CopiesKept DEF CopiesOK
  <2>3. QED
    BY <2>1, <2>2
<1>11. CASE CleanupModel
  <2>1. CASE Raise
    BY <1>11, <2>1, RaiseCopies DEF CleanupModel
  <2>2. CASE ~Raise
    <3>1. /\ \A k \in Ids : db_store'[k] = None \/ db_store'[k] = db_store[k]
          /\ UNCHANGED <<nb, used, events, task>>
      BY <1>11, <2>2 DEF CleanupModel
    <3>2. \A k \in Versioned \cap Ids : Copy(k, db_store'[k])
      BY <3>1 DEF CopiesOK, Copy
    <3>3. QED
      BY <3>1, <3>2, CopiesKept DEF CopiesOK
  <2>3. QED
    BY <2>1, <2>2
<1>12. CASE Restart
  <2>1. /\ db_store' = [id \in Ids |-> None] /\ task' = None
        /\ events' = [id \in Ids |-> <<>>] /\ UNCHANGED <<nb, used>>
    BY <1>12 DEF Restart, StartSync
  <2>2. \A k \in Versioned \cap Ids : Copy(k, db_store'[k])
    BY <2>1 DEF Copy
  <2>3. \A k \in Versioned \cap Ids : Len(events'[k]) = 0
    BY <2>1, EmptySeq
  <2>4. QED
    BY <2>1, <2>2, <2>3, CopiesKept
<1>13. CASE NbFails \/ NbRecovers \/ SubmitSyncEvent \/ LimiterExpires
            \/ UNCHANGED vars
  BY <1>2, <1>13 DEF NbFails, NbRecovers, SubmitSyncEvent, LimiterExpires,
                     vars, nbVars, ctlVars
<1>14. CASE HandleSync \/ HandleReinitialize \/ EndSync \/ Crash
  BY <1>3, <1>14 DEF HandleSync, HandleReinitialize, EndSync, Crash,
                     StartSync, Stop
<1>15. CASE HandleDbRestart
  BY <1>15, RaiseCopies DEF HandleDbRestart
<1>16. QED
  BY <1>1, <1>4, <1>5, <1>6, <1>7, <1>8, <1>9, <1>10, <1>11, <1>12, <1>13,
     <1>14, <1>15 DEF Next, Step

\* Reading an object from the database makes the cache agree with it, also
\* when _is_newer keeps what was cached.
LEMMA ReadAgrees ==
  ASSUME TypeOK, CopiesOK, NEW id \in Ids, nb[id] # None,
         ~IsNewer(id, nb[id], db_store[id])
  PROVE  db_store[id] = nb[id]
<1>1. db_store[id] \in Objects /\ nb[id] \in Objects
  BY DEF IsNewer, TypeOK, MaybeObjects
<1>2. CASE id \in Versioned
  <2>1. ~(nb[id].version > db_store[id].version)
    BY <1>2 DEF IsNewer
  <2>2. /\ db_store[id].version <= nb[id].version
        /\ db_store[id].version = nb[id].version => db_store[id] = nb[id]
    BY <1>1, <1>2, NoneAssumption DEF CopiesOK, Copy
  <2>3. db_store[id].version \in Nat /\ nb[id].version \in Nat
    BY <1>1, BoundsAssumption DEF Objects, Versions
  <2>4. QED
    BY <2>1, <2>2, <2>3
<1>3. CASE id \notin Versioned
  BY <1>3 DEF IsNewer
<1>4. QED
  BY <1>2, <1>3

\* A step leaves the sync where it is and the cache alone, or ends or starts
\* a sync, or is not quiet, or is one of the two steps of the sync.
LEMMA SyncStep == IInv /\ [Next]_vars => SyncDone'
<1> SUFFICES ASSUME IInv, [Next]_vars PROVE SyncDone'
  OBVIOUS
<1> USE DEF IInv
<1>1. CASE pc' # "sync" \/ quiet' = FALSE
  BY <1>1 DEF SyncDone
<1>2. CASE StartSync(TRUE) \/ StartSync(FALSE)
  <2>1. sync_pos' = 0
    BY <1>2 DEF StartSync
  <2>2. ASSUME NEW m \in 1 .. NumModels
        PROVE  ~(m <= sync_pos') /\ ~(m > 2 * NumModels - sync_pos')
    BY <2>1, ModelFacts
  <2>3. QED
    BY <2>2 DEF SyncDone
<1>3. CASE UNCHANGED <<nb, db_store, pc, sync_pos, quiet>>
  BY <1>3 DEF SyncDone
<1>4. CASE Raise
  BY <1>1, <1>2, <1>4, Zenon DEF Raise, Stop
<1>5. CASE UpdateModel /\ ~Raise
  <2> DEFINE new == [id \in Ids |-> IF id \in Models[sync_pos + 1]
                                    THEN nb[id] ELSE None]
  <2>1. new \in [Ids -> MaybeObjects]
    BY DEF TypeOK, MaybeObjects
  <2>2. /\ db_store' = Updated(db_store, new) /\ sync_pos' = sync_pos + 1
        /\ UNCHANGED <<nb, pc, quiet>> /\ pc = "sync" /\ sync_pos < NumModels
    BY <1>5 DEF UpdateModel, SyncUpdates
  <2>3. \A id \in Ids : new[id] = IF id \in Models[sync_pos + 1]
                                  THEN nb[id] ELSE None
    OBVIOUS
  <2> HIDE DEF new
  <2>4. ASSUME NEW id \in Ids
        PROVE  db_store'[id] =
                 IF new[id] # None /\ IsNewer(id, new[id], db_store[id])
                 THEN new[id] ELSE db_store[id]
    BY <2>1, <2>2, UpdatedProperties, Zenon DEF TypeOK
  <2>5. SUFFICES ASSUME quiet, NEW m \in 1 .. NumModels, NEW id \in Models[m]
                 PROVE  /\ m <= sync_pos' /\ nb[id] # None
                             => db_store'[id] = nb[id]
                        /\ ~(m > 2 * NumModels - sync_pos')
    BY <2>2 DEF SyncDone
  <2>6. ~(m > 2 * NumModels - sync_pos')
    BY <2>2, ModelFacts DEF TypeOK
  <2>7. id \in Ids
    BY ModelFacts
  <2>8. ASSUME m <= sync_pos', nb[id] # None PROVE db_store'[id] = nb[id]
    <3>1. CASE id \in Models[sync_pos + 1]
      BY <2>3, <2>4, <2>7, <2>8, <3>1, ReadAgrees
    <3>2. CASE id \notin Models[sync_pos + 1]
      <4>1. m <= sync_pos
        BY <2>2, <2>8, <3>2 DEF TypeOK
      <4>2. db_store[id] = nb[id]
        BY <2>2, <2>5, <2>8, <4>1 DEF SyncDone
      <4>3. db_store'[id] = db_store[id]
        BY <2>3, <2>4, <2>7, <3>2
      <4>4. QED
        BY <4>2, <4>3
    <3>3. QED
      BY <3>1, <3>2
  <2>9. QED
    BY <2>6, <2>8
<1>6. CASE CleanupModel /\ ~Raise
  <2>1. /\ sync_pos' = sync_pos + 1 /\ UNCHANGED <<nb, pc, quiet>>
        /\ pc = "sync" /\ sync_pos >= NumModels
        /\ \A id \in Ids : db_store'[id] =
             IF id \in Models[2 * NumModels - sync_pos] /\ nb[id] = None
             THEN None ELSE db_store[id]
    BY <1>6 DEF CleanupModel, SyncCleansUp
  <2>2. SUFFICES ASSUME quiet, NEW m \in 1 .. NumModels, NEW id \in Models[m]
                 PROVE  /\ nb[id] # None => db_store'[id] = nb[id]
                        /\ m > 2 * NumModels - sync_pos' /\ nb[id] = None
                             => db_store'[id] = None
    BY <2>1 DEF SyncDone
  <2>3. id \in Ids /\ m <= sync_pos
    BY <2>1, ModelFacts DEF TypeOK
  <2>4. nb[id] # None => db_store'[id] = nb[id]
    BY <2>1, <2>2, <2>3 DEF SyncDone
  <2>5. ASSUME m > 2 * NumModels - sync_pos', nb[id] = None
        PROVE  db_store'[id] = None
    <3>1. m = 2 * NumModels - sync_pos \/ m > 2 * NumModels - sync_pos
      BY <2>1, <2>5, ModelFacts DEF TypeOK
    <3>2. db_store[id] = None \/ m = 2 * NumModels - sync_pos
      BY <2>1, <2>2, <2>5, <3>1 DEF SyncDone
    <3>3. QED
      BY <2>1, <2>3, <2>5, <3>2
  <2>6. QED
    BY <2>4, <2>5
<1>7. \/ pc' # "sync" \/ quiet' = FALSE
      \/ StartSync(TRUE) \/ StartSync(FALSE) \/ Raise
      \/ UNCHANGED <<nb, db_store, pc, sync_pos, quiet>>
      \/ (UpdateModel /\ ~Raise) \/ (CleanupModel /\ ~Raise)
  <2>1. ASSUME NEW id \in Ids, NbCreate(id) \/ NbUpdate(id) \/ NbDelete(id)
        PROVE  quiet' = FALSE
    BY <2>1, Zenon DEF NbCreate, NbUpdate, NbDelete, Publish
  <2>2. ASSUME NEW id \in Ids, NEW i, LoseEvent(id, i)
        PROVE  UNCHANGED <<nb, db_store, pc, sync_pos, quiet>>
    BY <2>2 DEF LoseEvent, ctlVars
  <2>3. CASE NbFails \/ NbRecovers \/ SubmitSyncEvent \/ LimiterExpires
             \/ UNCHANGED vars
    BY <2>3, Zenon DEF NbFails, NbRecovers, SubmitSyncEvent, LimiterExpires, vars,
                nbVars, ctlVars
  <2>4. ASSUME NEW id \in Ids, NEW i, HandleSet(id, i) \/ HandleDelete(id, i)
        PROVE  pc' # "sync"
    BY <2>4 DEF HandleSet, HandleDelete
  <2>5. ASSUME NEW r \in Ids, Dereference(r) \/ SendPendingEvent(r)
        PROVE  Raise \/ pc' # "sync"
    BY <2>5 DEF Dereference, SendPendingEvent, TaskDone
  <2>6. CASE SendUpdateEvents
    BY <2>6 DEF SendUpdateEvents, TaskDone
  <2>7. CASE HandleSync \/ HandleReinitialize \/ Restart
    BY <2>7, Zenon DEF HandleSync, HandleReinitialize, Restart
  <2>8. CASE HandleDbRestart
    BY <2>8 DEF HandleDbRestart
  <2>9. CASE EndSync \/ Crash
    BY <2>9, Zenon DEF EndSync, Crash, Stop
  <2>10. QED
    BY <2>1, <2>2, <2>3, <2>4, <2>5, <2>6, <2>7, <2>8, <2>9, Zenon DEF Next, Step
<1>8. QED
  BY <1>1, <1>2, <1>3, <1>4, <1>5, <1>6, <1>7, Zenon

LEMMA InitIInv == Init => IInv
<1> SUFFICES ASSUME Init PROVE IInv
  OBVIOUS
<1>1. TypeOK
  BY TypeInit
<1>2. CopiesOK
  BY EmptySeq DEF Init, CopiesOK, Copy
<1>3. SyncDone
  BY ModelFacts DEF Init, SyncDone
<1>4. QED
  BY <1>1, <1>2, <1>3 DEF IInv

\* A sync that nobody disturbed and that read all the models leaves the cache
\* equal to the northbound database, for every set of models and every
\* history of lost, reordered and dropped events, outages and restarts.
THEOREM SyncRepairs == Spec => []SyncConverges
<1>1. IInv /\ [Next]_vars => IInv'
  BY TypeStep, CopiesStep, SyncStep DEF IInv
<1>2. IInv => SyncConverges
  <2> SUFFICES ASSUME IInv, pc = "sync", sync_pos = 2 * NumModels, quiet
               PROVE  db_store = nb
    BY DEF SyncConverges
  <2>1. ASSUME NEW id \in Ids PROVE db_store[id] = nb[id]
    <3>1. PICK m \in 1 .. NumModels : id \in Models[m]
      BY ModelFacts
    <3>2. m <= sync_pos /\ m > 2 * NumModels - sync_pos
      BY ModelFacts
    <3>3. QED
      BY <3>1, <3>2 DEF IInv, SyncDone
  <2>2. QED
    BY <2>1 DEF IInv, TypeOK
<1>3. QED
  BY InitIInv, <1>1, <1>2, PTL DEF Spec

----------------------------------------------------------------------------
(* Why the references of an object are cached before the applications are  *)
(* told of it: the search of iter_model_references_deep ends only with a   *)
(* set that is closed under references, and the cache does not change      *)
(* while it runs.                                                          *)

\* The object of the update in progress and what was found so far.
Found == {task.id} \cup {i \in Ids : task.found[i] # None}

\* The search: what was found references what was found or is to be looked
\* up, and what was found in the cache is still there.
SearchOK ==
    task # None =>
      /\ pc = "update"
      /\ task.obj.refs \subseteq Found \cup task.todo
      /\ \A i \in Ids : task.found[i] # None =>
           /\ task.found[i].refs \subseteq Found \cup task.todo
           /\ db_store[i] # None => task.found[i] = db_store[i]

\* A new search knows what the object references.
LEMMA NewSearch ==
  ASSUME NEW id \in Ids, NEW o \in Objects, task' = NewTask(id, o), pc' = "update"
  PROVE  SearchOK'
<1>1. task'.obj = o /\ task'.todo = o.refs /\ \A i \in Ids : task'.found[i] = None
  BY DEF NewTask
<1>2. QED
  BY <1>1 DEF SearchOK

\* The steps of the search keep what it knows, and no other step of the
\* controller thread falls between them.
LEMMA SearchStep == TypeOK /\ SearchOK /\ [Next]_vars => SearchOK'
<1> SUFFICES ASSUME TypeOK, SearchOK, [Next]_vars PROVE SearchOK'
  OBVIOUS
<1>1. CASE UNCHANGED <<task, pc, db_store>>
  BY <1>1 DEF SearchOK, Found
<1>2. CASE task' = None
  BY <1>2 DEF SearchOK
<1>3. CASE Raise
  BY <1>2, <1>3 DEF Raise, StartSync, Stop
<1>4. ASSUME NEW id \in Ids, NEW i \in Deliverable(id), HandleSet(id, i)
      PROVE  SearchOK'
  <2>1. events[id][i] \in Objects
    BY <1>4 DEF HandleSet, Deliverable, TypeOK, MaybeObjects
  <2>2. QED
    BY <1>4, <2>1, NewSearch DEF HandleSet
<1>5. ASSUME NEW r \in Ids, Dereference(r) PROVE SearchOK'
  <2> DEFINE item == IF db_store[r] = None THEN nb[r] ELSE db_store[r]
             seen == {task.id, r} \cup {i \in Ids : task.found[i] # None}
  <2>1. task \in Tasks /\ task # None /\ r \in task.todo /\ pc = "update"
    BY <1>5 DEF TypeOK, Dereference
  <2>2. CASE TaskDone(loops)
    BY <1>2, <2>2 DEF TaskDone
  <2>3. CASE /\ item # None
             /\ task' = [task EXCEPT !.found[r] = item,
                                     !.todo = (@ \cup item.refs) \ seen]
             /\ UNCHANGED <<db_store, pc>>
    <3>1. /\ task'.id = task.id /\ task'.obj = task.obj
          /\ task'.found = [task.found EXCEPT ![r] = item]
          /\ task'.todo = (task.todo \cup item.refs) \ seen
      BY <2>1, <2>3 DEF Tasks
    <3>2. db_store[r] # None => item = db_store[r]
      OBVIOUS
    <3> HIDE DEF item
    <3>3. ASSUME NEW i \in Ids
          PROVE  task'.found[i] = IF i = r THEN item ELSE task.found[i]
      BY <2>1, <3>1 DEF Tasks
    <3>4. Found' = Found \cup {r} /\ seen = Found \cup {r}
      BY <2>3, <3>1, <3>3 DEF Found
    <3> HIDE DEF seen
    <3>5. Found \cup task.todo \cup item.refs \subseteq Found' \cup task'.todo
      BY <3>1, <3>4
    <3>6. task.obj.refs \subseteq Found' \cup task'.todo
      BY <2>1, <3>5 DEF SearchOK
    <3>7. ASSUME NEW i \in Ids, task'.found[i] # None
          PROVE  /\ task'.found[i].refs \subseteq Found' \cup task'.todo
                 /\ db_store[i] # None => task'.found[i] = db_store[i]
      BY <2>1, <3>2, <3>3, <3>5, <3>7 DEF SearchOK
    <3>8. QED
      BY <2>1, <2>3, <3>1, <3>6, <3>7 DEF SearchOK
  <2>4. QED
    BY <1>3, <1>5, <2>2, <2>3 DEF Dereference
<1>6. ASSUME NEW id \in Ids, SendPendingEvent(id) PROVE SearchOK'
  <2>1. CASE ~Raise
    <3>1. nb[id] \in Objects
      BY <1>6, <2>1 DEF SendPendingEvent, TypeOK, MaybeObjects
    <3>2. QED
      BY <1>6, <2>1, <3>1, NewSearch DEF SendPendingEvent
  <2>2. QED
    BY <1>3, <2>1
<1>7. ASSUME NEW id \in Ids, NEW i, HandleDelete(id, i) PROVE SearchOK'
  BY <1>7 DEF HandleDelete, SearchOK
<1>8. CASE UpdateModel \/ CleanupModel
  <2>1. pc = "sync"
    BY <1>8 DEF UpdateModel, CleanupModel, SyncUpdates, SyncCleansUp
  <2>2. task = None
    BY <2>1 DEF SearchOK
  <2>3. Raise \/ task' = task
    BY <1>8 DEF UpdateModel, CleanupModel
  <2>4. QED
    BY <1>2, <1>3, <2>2, <2>3
<1>9. CASE SendUpdateEvents
  BY <1>2, <1>9 DEF SendUpdateEvents, TaskDone
<1>10. CASE HandleSync \/ HandleReinitialize \/ EndSync \/ Crash \/ Restart
  BY <1>2, <1>10 DEF HandleSync, HandleReinitialize, EndSync, Crash, Restart,
                     StartSync, Stop
<1>11. CASE HandleDbRestart
  BY <1>3, <1>11 DEF HandleDbRestart
<1>12. ASSUME NEW id \in Ids, NbCreate(id) \/ NbUpdate(id) \/ NbDelete(id)
       PROVE  SearchOK'
  BY <1>1, <1>12 DEF NbCreate, NbUpdate, NbDelete, ctlVars
<1>13. ASSUME NEW id \in Ids, NEW i, LoseEvent(id, i) PROVE SearchOK'
  BY <1>1, <1>13 DEF LoseEvent, ctlVars
<1>14. CASE NbFails \/ NbRecovers \/ SubmitSyncEvent \/ LimiterExpires
            \/ UNCHANGED vars
  BY <1>1, <1>14 DEF NbFails, NbRecovers, SubmitSyncEvent, LimiterExpires,
                     vars, ctlVars
<1>15. QED
  BY <1>4, <1>5, <1>6, <1>7, <1>8, <1>9, <1>10, <1>11, <1>12, <1>13, <1>14
     DEF Next, Step

\* What _send_update_events caches is closed under references.
LEMMA SearchClosed ==
  ASSUME TypeOK, SearchOK, SendUpdateEvents, db_store'[task.id] = task.obj
  PROVE  RefsClosed(db_store', task.obj)
<1> DEFINE new == [task.found EXCEPT ![task.id] = task.obj]
<1>1. task \in Tasks /\ task # None /\ task.todo = {}
  BY DEF SendUpdateEvents, TypeOK
<1>2. new \in [Ids -> MaybeObjects] /\ db_store' = Updated(db_store, new)
  BY <1>1 DEF SendUpdateEvents, Tasks, MaybeObjects
<1>3. \A i \in Ids : new[i] = IF i = task.id THEN task.obj ELSE task.found[i]
  BY <1>1 DEF Tasks
<1> HIDE DEF new
<1>4. Found \in SUBSET Ids /\ task.obj.refs \subseteq Found
  BY <1>1 DEF Found, SearchOK, Tasks
<1>5. ASSUME NEW i \in Found
      PROVE  db_store'[i] # None /\ db_store'[i].refs \subseteq Found
  <2>1. CASE i = task.id
    <3>1. task.obj # None
      BY <1>1, NoneAssumption DEF Tasks
    <3>2. QED
      BY <1>4, <2>1, <3>1
  <2>2. CASE i # task.id
    <3>1. i \in Ids /\ task.found[i] # None /\ new[i] = task.found[i]
      BY <1>3, <2>2 DEF Found
    <3>2. db_store'[i] = IF IsNewer(i, new[i], db_store[i])
                         THEN new[i] ELSE db_store[i]
      BY <1>2, <3>1, UpdatedProperties, Zenon DEF TypeOK
    <3>3. db_store[i] # None => task.found[i] = db_store[i]
      BY <1>1, <3>1 DEF SearchOK
    <3>4. db_store'[i] = task.found[i]
      BY <3>1, <3>2, <3>3 DEF IsNewer
    <3>5. QED
      BY <1>1, <3>1, <3>4 DEF SearchOK
  <2>3. QED
    BY <2>1, <2>2
<1>6. QED
  BY <1>4, <1>5 DEF RefsClosed

\* The applications are told of an object only when all it references,
\* directly or not, is in the cache, for every set of models and whatever is
\* lost, reordered or written meanwhile.
THEOREM ReferencesAreCached == Spec => ReferencesCached
<1>1. Init => SearchOK
  BY DEF Init, SearchOK
<1>2. TypeOK /\ SearchOK /\ [Next]_vars =>
        [SendUpdateEvents /\ db_store'[task.id] = task.obj
           => RefsClosed(db_store', task.obj)]_vars
  BY SearchClosed
<1>3. QED
  BY <1>1, <1>2, SearchStep, TypeCorrect, PTL DEF Spec, ReferencesCached

----------------------------------------------------------------------------
(* Why events alone keep the cache right while nothing fails.  An object   *)
(* that is not cached as the database has it is one somebody will come     *)
(* back to: it has an event in the queue, is being worked on, or was put   *)
(* aside, perhaps over several steps, for such an object.                  *)

\* Nothing failed and events keep their order.
Calm == InOrder /\ faults = 0

\* The last event of an object is what the database has.
LastEvent ==
    Calm => \A id \in Ids : events[id] # <<>> => events[id][Len(events[id])] = nb[id]

\* Where the controller thread can be.
ThreadOK ==
    /\ pc # "update" => task = None /\ loops = <<>>
    /\ faults = 0 => nb_up /\ pc # "dead"
    /\ pc \in {"idle", "update"} => guarded

\* The update in progress has what the database has, unless an event tells of
\* a later write; what it found is what the database or the cache has.
TaskFresh ==
    Calm /\ task # None =>
      /\ events[task.id] = <<>> => task.obj = nb[task.id]
      /\ \A i \in Ids : task.found[i] # None /\ events[i] = <<>> =>
           task.found[i] = nb[i] \/ task.found[i] = db_store[i]

\* Whom a sync has read so far is right, or was written since.
SyncRead ==
    Calm /\ pc = "sync" =>
      \A m \in 1 .. NumModels : \A id \in Models[m] :
        events[id] = <<>> =>
          /\ m <= sync_pos /\ nb[id] # None => db_store[id] = nb[id]
          /\ m > 2 * NumModels - sync_pos /\ nb[id] = None => db_store[id] = None

\* Object id will be looked at, or is to be created.
Attended(id) ==
    \/ nb[id] = None
    \/ events[id] # <<>>
    \/ task # None /\ task.id = id
    \/ \E l \in 1 .. Len(loops) : id \in loops[l]

\* Object id waits, directly or not, for an attended one.
Awaited(id) ==
    \A W \in SUBSET Ids :
      PendingClosed(W) /\ (\A i \in Ids : Attended(i) => i \in W) => id \in W

\* Outside of a sync, an object that is not cached as the database has it is
\* waited for, and a deleted one has gone from the cache with its last event.
CacheFollows ==
    Calm /\ ~dropped /\ pc \in {"idle", "update"} =>
      \A id \in Ids :
        \/ db_store[id] = nb[id]
        \/ Awaited(id) /\ (nb[id] = None => events[id] # <<>>)

EventInv == IInv /\ LastEvent /\ ThreadOK /\ TaskFresh /\ SyncRead /\ CacheFollows

\* What waits for an attended object is in every set that has the attended
\* ones and those put aside for its own.
Holds(W) == PendingClosed(W) /\ \A i \in Ids : Attended(i) => i \in W

LEMMA AwaitedHolds ==
  ASSUME NEW id \in Ids
  PROVE  /\ Awaited(id) <=> \A W \in SUBSET Ids : Holds(W) => id \in W
         /\ Attended(id) => Awaited(id)
  BY DEF Awaited, Holds

\* Taking the first event leaves the last one, if it was not the only one.
LEMMA WithoutFirst ==
  ASSUME NEW S, NEW s \in Seq(S), s # <<>>
  PROVE  /\ Without(s, 1) \in Seq(S)
         /\ Without(s, 1) # <<>> => Without(s, 1)[Len(Without(s, 1))] = s[Len(s)]
         /\ Without(s, 1) = <<>> => Len(s) = 1
<1> DEFINE a == SubSeq(s, 1, 0)
           b == SubSeq(s, 2, Len(s))
<1>0. Len(s) \in Nat /\ Len(s) >= 1
  BY EmptySeq
<1>1. a \in Seq(S) /\ Len(a) = 0
  BY <1>0, SubSeqProperties
<1>2. b \in Seq(S) /\ Len(b) = Len(s) - 1
      /\ \A j \in 1 .. Len(s) - 1 : b[j] = s[j + 1]
  <2>1. 2 \in Int /\ Len(s) \in Int /\ \A j \in 2 .. Len(s) : s[j] \in S
    BY <1>0
  <2>2. /\ b \in Seq(S)
        /\ Len(b) = IF 2 <= Len(s) THEN Len(s) - 2 + 1 ELSE 0
        /\ \A j \in 1 .. Len(s) - 2 + 1 : b[j] = s[2 + j - 1]
    BY <2>1, SubSeqProperties
  <2> HIDE DEF b
  <2>3. Len(b) = Len(s) - 1
    <3> DEFINE n == Len(s)
    <3>1. n \in Nat /\ n >= 1 /\ Len(b) = IF 2 <= n THEN n - 2 + 1 ELSE 0
      BY <1>0, <2>2
    <3> HIDE DEF n
    <3>2. Len(b) = n - 1
      BY <3>1
    <3>3. QED
      BY <3>2 DEF n
  <2>4. ASSUME NEW j \in 1 .. Len(s) - 1 PROVE b[j] = s[j + 1]
    <3>1. j \in 1 .. Len(s) - 2 + 1 /\ 2 + j - 1 = j + 1
      BY <1>0
    <3>2. QED
      BY <2>2, <3>1
  <2>5. QED
    BY <2>2, <2>3, <2>4
<1>3. Without(s, 1) = a \o b
  BY DEF Without
<1> HIDE DEF a, b
<1>4. a \o b \in Seq(S) /\ Len(a \o b) = Len(s) - 1
      /\ \A j \in 1 .. Len(s) - 1 : (a \o b)[j] = b[j]
  BY <1>0, <1>1, <1>2, ConcatProperties
<1>5. a \o b = <<>> => Len(s) = 1
  BY <1>0, <1>4
<1>6. ASSUME a \o b # <<>>
      PROVE  (a \o b)[Len(a \o b)] = s[Len(s)]
  <2>1. Len(s) - 1 \in 1 .. Len(s) - 1
    BY <1>0, <1>4, <1>6, EmptySeq
  <2>2. (a \o b)[Len(s) - 1] = s[(Len(s) - 1) + 1]
    BY <1>2, <1>4, <2>1
  <2>3. QED
    BY <1>0, <1>4, <2>2
<1>7. QED
  BY <1>3, <1>4, <1>5, <1>6, Zenon

\* A write changes one object and tells of it.
LEMMA Written ==
  ASSUME TypeOK, NEW w \in Ids, NbCreate(w) \/ NbUpdate(w) \/ NbDelete(w)
  PROVE  /\ UNCHANGED <<ctlVars, envVars>>
         /\ \A i \in Ids : i # w => nb'[i] = nb[i] /\ events'[i] = events[i]
         /\ events'[w] # <<>> /\ events'[w][Len(events'[w])] = nb'[w]
<1>o. ASSUME NEW v \in Versions, NEW R \in SUBSET Referable(w)
      PROVE  [version |-> v, refs |-> R] \in MaybeObjects
  BY ModelFacts DEF MaybeObjects, Objects
<1>1. PICK v \in MaybeObjects :
        nb' = [nb EXCEPT ![w] = v] /\ events' = [events EXCEPT ![w] = Append(@, v)]
  <2>1. CASE NbDelete(w)
    BY <2>1, Zenon DEF NbDelete, Publish, MaybeObjects
  <2>2. CASE NbCreate(w) \/ NbUpdate(w)
    BY <1>o, <2>2, Zenon DEF NbCreate, NbUpdate, Publish
  <2>3. QED
    BY <2>1, <2>2
<1>2. UNCHANGED <<ctlVars, envVars>>
  BY DEF NbCreate, NbUpdate, NbDelete
<1>3. nb'[w] = v /\ events'[w] = Append(events[w], v)
  BY <1>1 DEF TypeOK
<1>4. /\ Append(events[w], v) # <<>>
      /\ Append(events[w], v)[Len(Append(events[w], v))] = v
  <2>1. events[w] \in Seq(MaybeObjects)
    BY DEF TypeOK
  <2>2. QED
    BY <2>1, AppendProperties, EmptySeq
<1>5. QED
  BY <1>1, <1>2, <1>3, <1>4 DEF TypeOK

\* An exception ends what the thread does; inside of _handle_update it does
\* not end the process.
LEMMA RaiseThread ==
  ASSUME Raise
  PROVE  /\ pc' # "update" /\ task' = None /\ loops' = <<>>
         /\ pc' = "idle" => guarded' /\ dropped'
         /\ guarded => pc' # "dead"
  BY Zenon DEF Raise, StartSync, Stop

\* Where the thread is, whatever happens.
LEMMA ThreadStep == TypeOK /\ ThreadOK /\ [Next]_vars => ThreadOK'
<1> SUFFICES ASSUME TypeOK, ThreadOK, [Next]_vars PROVE ThreadOK'
  OBVIOUS
<1>f. Fault => faults' # 0
  BY BoundsAssumption DEF Fault, TypeOK
<1>1. CASE /\ UNCHANGED <<pc, task, loops, guarded>>
           /\ faults' = 0 => faults = 0 /\ nb_up'
  BY <1>1 DEF ThreadOK
<1>2. ASSUME NEW id \in Ids, NbCreate(id) \/ NbUpdate(id) \/ NbDelete(id)
      PROVE  ThreadOK'
  BY <1>2 DEF NbCreate, NbUpdate, NbDelete, ctlVars, envVars, ThreadOK
<1>3. ASSUME NEW id \in Ids, NEW i, LoseEvent(id, i) PROVE ThreadOK'
  BY <1>f, <1>3 DEF LoseEvent, ctlVars, ThreadOK
<1>4. CASE NbFails \/ NbRecovers \/ SubmitSyncEvent \/ LimiterExpires
           \/ UNCHANGED vars
  BY <1>f, <1>4 DEF NbFails, NbRecovers, SubmitSyncEvent, LimiterExpires, vars,
                    ctlVars, envVars, ThreadOK
<1>5. ASSUME NEW id \in Ids, NEW i, HandleSet(id, i) \/ HandleDelete(id, i)
      PROVE  ThreadOK'
  BY <1>5 DEF HandleSet, HandleDelete, envVars, ThreadOK
<1>6. CASE HandleSync \/ HandleReinitialize \/ Restart
  <2>1. pc' = "sync" /\ task' = None /\ loops' = <<>>
    BY <1>6 DEF HandleSync, HandleReinitialize, Restart, StartSync
  <2>2. faults' = 0 => nb_up'
    BY <1>f, <1>6, Zenon DEF HandleSync, HandleReinitialize, Restart, ThreadOK
  <2>3. QED
    BY <2>1, <2>2 DEF ThreadOK
<1>7. CASE HandleDbRestart
  BY <1>f, <1>7, RaiseThread DEF HandleDbRestart, ThreadOK, TypeOK
<1>8. ASSUME NEW r \in Ids, Dereference(r) PROVE ThreadOK'
  <2>1. UNCHANGED <<faults, nb_up>> /\ pc = "update"
    BY <1>8 DEF Dereference
  <2>2. CASE Raise
    BY <2>1, <2>2, RaiseThread DEF ThreadOK
  <2>3. CASE TaskDone(loops) /\ UNCHANGED guarded
    BY <2>1, <2>3 DEF TaskDone, ThreadOK
  <2>4. CASE UNCHANGED <<pc, guarded, loops>>
    BY <2>1, <2>4 DEF ThreadOK
  <2>5. QED
    BY <1>8, <2>2, <2>3, <2>4 DEF Dereference
<1>9. ASSUME NEW id \in Ids, SendPendingEvent(id) PROVE ThreadOK'
  <2>1. UNCHANGED <<faults, nb_up>> /\ pc = "update"
    BY <1>9 DEF SendPendingEvent
  <2>2. CASE Raise
    BY <2>1, <2>2, RaiseThread DEF ThreadOK
  <2>3. CASE UNCHANGED <<pc, guarded>>
    BY <2>1, <2>3 DEF ThreadOK
  <2>4. QED
    BY <1>9, <2>2, <2>3 DEF SendPendingEvent
<1>10. CASE SendUpdateEvents
  BY <1>10 DEF SendUpdateEvents, TaskDone, envVars, ThreadOK
<1>11. CASE UpdateModel \/ CleanupModel
  <2>1. UNCHANGED <<faults, nb_up>> /\ pc = "sync"
    BY <1>11 DEF UpdateModel, CleanupModel, SyncUpdates, SyncCleansUp
  <2>2. CASE ~nb_up /\ Raise
    BY <2>1, <2>2, RaiseThread DEF ThreadOK
  <2>3. CASE UNCHANGED <<pc, task, loops, guarded>>
    BY <2>1, <2>3 DEF ThreadOK
  <2>4. QED
    BY <1>11, <2>2, <2>3 DEF UpdateModel, CleanupModel
<1>12. CASE EndSync
  BY <1>12, Zenon DEF EndSync, Stop, envVars, ThreadOK
<1>13. CASE Crash
  BY <1>f, <1>13 DEF Crash, Stop, ThreadOK
<1>14. QED
  BY <1>2, <1>3, <1>4, <1>5, <1>6, <1>7, <1>8, <1>9, <1>10, <1>11, <1>12, <1>13
     DEF Next, Step

\* The steps that can happen while nothing fails.
LEMMA CalmStep ==
  ASSUME TypeOK, ThreadOK, [Next]_vars, Calm'
  PROVE  /\ Calm /\ nb_up
         /\ \/ UNCHANGED <<nb, events, db_store, pending, pc, task, loops,
                           sync_pos, dropped>>
            \/ \E id \in Ids : NbCreate(id) \/ NbUpdate(id) \/ NbDelete(id)
            \/ \E id \in Ids : events[id] # <<>> /\ (HandleSet(id, 1) \/ HandleDelete(id, 1))
            \/ \E r \in Ids : Dereference(r) \/ SendPendingEvent(r)
            \/ SendUpdateEvents \/ UpdateModel \/ CleanupModel \/ EndSync
            \/ HandleSync
<1>f. ~Fault
  BY BoundsAssumption DEF Fault, TypeOK, Calm
<1>1. ~(NbFails \/ HandleReinitialize \/ HandleDbRestart \/ Crash)
  BY <1>f, Zenon DEF NbFails, HandleReinitialize, HandleDbRestart, Crash
<1>2. \A id \in Ids : \A i : ~LoseEvent(id, i)
  BY <1>f DEF LoseEvent
<1>3. ~Restart
  BY Zenon DEF Restart, Calm, ThreadOK
<1>4. ASSUME NEW id \in Ids, NEW i \in Deliverable(id)
      PROVE  i = 1 /\ events[id] # <<>>
  BY EmptySeq DEF Deliverable, Calm, TypeOK
<1>5. CASE NbRecovers \/ SubmitSyncEvent \/ LimiterExpires \/ UNCHANGED vars
  BY <1>5 DEF NbRecovers, SubmitSyncEvent, LimiterExpires, vars, nbVars,
              ctlVars, envVars, Calm, ThreadOK
<1>6. ASSUME NEW id \in Ids, NbCreate(id) \/ NbUpdate(id) \/ NbDelete(id)
      PROVE  faults' = faults
  BY <1>6 DEF NbCreate, NbUpdate, NbDelete, envVars
<1>7. ASSUME NEW r \in Ids, Dereference(r) \/ SendPendingEvent(r)
      PROVE  faults' = faults
  BY <1>7 DEF Dereference, SendPendingEvent
<1>8. ASSUME NEW id \in Ids, NEW i, HandleSet(id, i) \/ HandleDelete(id, i)
      PROVE  faults' = faults
  BY <1>8 DEF HandleSet, HandleDelete, envVars
<1>9. CASE SendUpdateEvents \/ UpdateModel \/ CleanupModel \/ EndSync \/ HandleSync
  <2>1. faults' = faults
    BY <1>9, Zenon DEF SendUpdateEvents, UpdateModel, CleanupModel, EndSync, HandleSync,
                envVars
  <2>2. QED
    BY <1>9, <2>1 DEF Calm, ThreadOK
<1>10. ASSUME NEW id \in Ids, NEW i \in Deliverable(id),
              HandleSet(id, i) \/ HandleDelete(id, i)
       PROVE  /\ Calm /\ nb_up /\ events[id] # <<>>
              /\ HandleSet(id, 1) \/ HandleDelete(id, 1)
  BY <1>4, <1>8, <1>10 DEF Calm, ThreadOK
<1>11. QED
  BY <1>1, <1>2, <1>3, <1>5, <1>6, <1>7, <1>9, <1>10 DEF Next, Step, Calm, ThreadOK

\* Taking its first event leaves an object its last one.
LEMMA FirstTaken ==
  ASSUME TypeOK, LastEvent, Calm, NEW k \in Ids, events[k] # <<>>,
         events' = [events EXCEPT ![k] = Without(@, 1)]
  PROVE  /\ \A i \in Ids : i # k => events'[i] = events[i]
         /\ events'[k] # <<>> => events'[k][Len(events'[k])] = nb[k]
         /\ events'[k] = <<>> => events[k][1] = nb[k]
<1>1. events[k] \in Seq(MaybeObjects) /\ events'[k] = Without(events[k], 1)
  BY DEF TypeOK
<1>2. events[k][Len(events[k])] = nb[k]
  BY DEF LastEvent
<1>3. /\ events'[k] # <<>> => events'[k][Len(events'[k])] = events[k][Len(events[k])]
      /\ events'[k] = <<>> => Len(events[k]) = 1
  BY <1>1, WithoutFirst
<1>4. \A i \in Ids : i # k => events'[i] = events[i]
  BY DEF TypeOK
<1>5. QED
  BY <1>2, <1>3, <1>4

\* The last event of an object stays what the database has.
LEMMA LastEventStep ==
  TypeOK /\ ThreadOK /\ LastEvent /\ [Next]_vars => LastEvent'
<1> SUFFICES ASSUME TypeOK, ThreadOK, LastEvent, [Next]_vars, Calm'
             PROVE  \A id \in Ids : events'[id] # <<>> =>
                      events'[id][Len(events'[id])] = nb'[id]
  BY DEF LastEvent
<1>0. Calm
  BY CalmStep
<1>1. CASE UNCHANGED <<nb, events>>
  BY <1>0, <1>1 DEF LastEvent
<1>2. ASSUME NEW w \in Ids, NbCreate(w) \/ NbUpdate(w) \/ NbDelete(w)
      PROVE  \A id \in Ids : events'[id] # <<>> =>
               events'[id][Len(events'[id])] = nb'[id]
  BY <1>0, <1>2, Written DEF LastEvent
<1>3. ASSUME NEW k \in Ids, events[k] # <<>>, HandleSet(k, 1) \/ HandleDelete(k, 1)
      PROVE  \A id \in Ids : events'[id] # <<>> =>
               events'[id][Len(events'[id])] = nb'[id]
  <2>1. events' = [events EXCEPT ![k] = Without(@, 1)] /\ nb' = nb
    BY <1>3 DEF HandleSet, HandleDelete
  <2>2. /\ \A i \in Ids : i # k => events'[i] = events[i]
        /\ events'[k] # <<>> => events'[k][Len(events'[k])] = nb[k]
    BY <1>0, <1>3, <2>1, FirstTaken, Zenon
  <2>3. QED
    BY <1>0, <2>1, <2>2 DEF LastEvent
<1>4. ASSUME NEW r \in Ids, Dereference(r) \/ SendPendingEvent(r)
      PROVE  UNCHANGED <<nb, events>>
  BY <1>4 DEF Dereference, SendPendingEvent
<1>5. CASE SendUpdateEvents \/ UpdateModel \/ CleanupModel \/ EndSync \/ HandleSync
  BY <1>1, <1>5, Zenon DEF SendUpdateEvents, UpdateModel, CleanupModel, EndSync,
                    HandleSync, nbVars
<1>6. QED
  BY <1>1, <1>2, <1>3, <1>4, <1>5, CalmStep

\* The update in progress stays fresh: writes tell of themselves, and their
\* events are not taken before the update ended.
LEMMA TaskFreshStep ==
  TypeOK /\ ThreadOK /\ LastEvent /\ TaskFresh /\ [Next]_vars => TaskFresh'
<1> SUFFICES ASSUME TypeOK, ThreadOK, LastEvent, TaskFresh, [Next]_vars, Calm',
                    task' # None
             PROVE  /\ events'[task'.id] = <<>> => task'.obj = nb'[task'.id]
                    /\ \A i \in Ids : task'.found[i] # None /\ events'[i] = <<>> =>
                         task'.found[i] = nb'[i] \/ task'.found[i] = db_store'[i]
  BY DEF TaskFresh
<1> DEFINE Goal == /\ events'[task'.id] = <<>> => task'.obj = nb'[task'.id]
                   /\ \A i \in Ids : task'.found[i] # None /\ events'[i] = <<>> =>
                        task'.found[i] = nb'[i] \/ task'.found[i] = db_store'[i]
<1>0. Calm /\ nb_up
  BY CalmStep
<1>t. task # None => task \in Tasks /\ task.id \in Ids
  BY DEF TypeOK, Tasks
<1>1. CASE UNCHANGED <<nb, events, db_store, task>>
  BY <1>0, <1>1 DEF TaskFresh
<1>2. ASSUME NEW w \in Ids, NbCreate(w) \/ NbUpdate(w) \/ NbDelete(w) PROVE Goal
  <2>1. UNCHANGED <<db_store, task>>
    BY <1>2, Written DEF ctlVars
  <2>2. QED
    BY <1>0, <1>t, <1>2, <2>1, Written DEF TaskFresh
<1>n. ASSUME NEW k \in Ids, NEW o, task' = NewTask(k, o), events'[k] = <<>> => o = nb'[k]
      PROVE  Goal
  <2>1. task'.id = k /\ task'.obj = o /\ \A i \in Ids : task'.found[i] = None
    BY <1>n DEF NewTask
  <2>2. QED
    BY <1>n, <2>1
<1>3. ASSUME NEW k \in Ids, events[k] # <<>>, HandleSet(k, 1) PROVE Goal
  <2>1. /\ events' = [events EXCEPT ![k] = Without(@, 1)] /\ nb' = nb
        /\ task' = NewTask(k, events[k][1])
    BY <1>3 DEF HandleSet
  <2>2. events'[k] = <<>> => events[k][1] = nb'[k]
    BY <1>0, <1>3, <2>1, FirstTaken, Zenon
  <2>3. QED
    BY <1>n, <2>1, <2>2
<1>4. ASSUME NEW k \in Ids, HandleDelete(k, 1) PROVE Goal
  BY <1>4 DEF HandleDelete, ThreadOK
<1>5. ASSUME NEW r \in Ids, Dereference(r) PROVE Goal
  <2> DEFINE item == IF db_store[r] = None THEN nb[r] ELSE db_store[r]
  <2>1. task # None /\ UNCHANGED <<nb, events>>
    BY <1>5 DEF Dereference
  <2>2. /\ UNCHANGED db_store
        /\ \E T : task' = [task EXCEPT !.found[r] = item, !.todo = T]
    BY <1>0, <1>5, Zenon DEF Dereference, TaskDone
  <2>3. item = nb[r] \/ item = db_store[r]
    OBVIOUS
  <2> HIDE DEF item
  <2>4. /\ task'.id = task.id /\ task'.obj = task.obj
        /\ task'.found = [task.found EXCEPT ![r] = item]
    BY <1>t, <2>1, <2>2 DEF Tasks
  <2>5. \A i \in Ids : task'.found[i] = IF i = r THEN item ELSE task.found[i]
    BY <1>t, <2>1, <2>4 DEF Tasks
  <2>6. QED
    BY <1>0, <2>1, <2>2, <2>3, <2>4, <2>5 DEF TaskFresh
<1>6. ASSUME NEW k \in Ids, SendPendingEvent(k) PROVE Goal
  <2>1. task' = NewTask(k, nb[k]) /\ nb' = nb
    BY <1>6, RaiseThread DEF SendPendingEvent
  <2>2. QED
    BY <1>n, <2>1
<1>7. CASE SendUpdateEvents \/ EndSync \/ HandleSync
  BY <1>7 DEF SendUpdateEvents, TaskDone, EndSync, Stop, HandleSync, StartSync
<1>8. CASE UpdateModel \/ CleanupModel
  <2>1. pc = "sync"
    BY <1>8 DEF UpdateModel, CleanupModel, SyncUpdates, SyncCleansUp
  <2>2. task = None /\ (Raise \/ task' = task)
    BY <1>8, <2>1 DEF UpdateModel, CleanupModel, ThreadOK
  <2>3. QED
    BY <2>2, RaiseThread
<1>9. QED
  BY <1>1, <1>2, <1>3, <1>4, <1>5, <1>6, <1>7, <1>8, CalmStep

\* A sync makes right what it reads, unless it is written afterwards.
LEMMA SyncReadStep ==
  IInv /\ ThreadOK /\ SyncRead /\ [Next]_vars => SyncRead'
<1> SUFFICES ASSUME IInv, ThreadOK, SyncRead, [Next]_vars, Calm', pc' = "sync",
                    NEW m \in 1 .. NumModels, NEW id \in Models[m],
                    events'[id] = <<>>
             PROVE  /\ m <= sync_pos' /\ nb'[id] # None => db_store'[id] = nb'[id]
                    /\ m > 2 * NumModels - sync_pos' /\ nb'[id] = None
                         => db_store'[id] = None
  BY DEF SyncRead
<1> DEFINE Goal == /\ m <= sync_pos' /\ nb'[id] # None => db_store'[id] = nb'[id]
                   /\ m > 2 * NumModels - sync_pos' /\ nb'[id] = None
                        => db_store'[id] = None
<1> USE DEF IInv
<1>0. Calm /\ nb_up
  BY CalmStep
<1>i. id \in Ids
  BY ModelFacts
<1>1. CASE UNCHANGED <<nb, events, db_store, pc, sync_pos>>
  BY <1>0, <1>1 DEF SyncRead
<1>2. CASE sync_pos' = 0
  <2>1. ~(m <= sync_pos') /\ ~(m > 2 * NumModels - sync_pos')
    BY <1>2, ModelFacts
  <2>2. QED
    BY <2>1
<1>3. ASSUME NEW w \in Ids, NbCreate(w) \/ NbUpdate(w) \/ NbDelete(w) PROVE Goal
  <2>1. UNCHANGED <<db_store, pc, sync_pos>>
    BY <1>3, Written DEF ctlVars
  <2>2. nb'[id] = nb[id] /\ events'[id] = events[id]
    BY <1>i, <1>3, Written
  <2>3. QED
    BY <1>0, <2>1, <2>2 DEF SyncRead
<1>4. ASSUME NEW k \in Ids, HandleSet(k, 1) \/ HandleDelete(k, 1) PROVE Goal
  BY <1>4 DEF HandleSet, HandleDelete
<1>5. ASSUME NEW r \in Ids, Dereference(r) \/ SendPendingEvent(r) PROVE Goal
  <2>1. CASE Raise
    BY <1>2, <2>1 DEF Raise, StartSync, Stop
  <2>2. CASE ~Raise
    BY <1>5, <2>2 DEF Dereference, SendPendingEvent, TaskDone
  <2>3. QED
    BY <2>1, <2>2
<1>6. CASE SendUpdateEvents \/ EndSync \/ HandleSync
  BY <1>2, <1>6 DEF SendUpdateEvents, TaskDone, EndSync, Stop, HandleSync, StartSync
<1>7. CASE UpdateModel
  <2> DEFINE new == [k \in Ids |-> IF k \in Models[sync_pos + 1]
                                   THEN nb[k] ELSE None]
  <2>1. new \in [Ids -> MaybeObjects]
    BY DEF TypeOK, MaybeObjects
  <2>2. /\ db_store' = Updated(db_store, new) /\ sync_pos' = sync_pos + 1
        /\ UNCHANGED <<nb, events>> /\ pc = "sync" /\ sync_pos < NumModels
    BY <1>0, <1>7 DEF UpdateModel, SyncUpdates
  <2>3. new[id] = IF id \in Models[sync_pos + 1] THEN nb[id] ELSE None
    BY <1>i
  <2> HIDE DEF new
  <2>4. db_store'[id] = IF new[id] # None /\ IsNewer(id, new[id], db_store[id])
                        THEN new[id] ELSE db_store[id]
    BY <1>i, <2>1, <2>2, UpdatedProperties, Zenon DEF TypeOK
  <2>5. ~(m > 2 * NumModels - sync_pos')
    <3>1. NumModels \in Nat
      BY ModelFacts
    <3>2. sync_pos \in 0 .. 2 * NumModels
      BY DEF TypeOK
    <3> HIDE DEF IInv
    <3>3. QED
      BY <2>2, <3>1, <3>2
  <2>6. ASSUME m <= sync_pos', nb[id] # None PROVE db_store'[id] = nb[id]
    <3>1. CASE id \in Models[sync_pos + 1]
      BY <1>i, <2>3, <2>4, <2>6, <3>1, ReadAgrees
    <3>2. CASE id \notin Models[sync_pos + 1]
      <4>1. m <= sync_pos
        <5>1. sync_pos \in Nat /\ sync_pos' = sync_pos + 1 /\ m <= sync_pos'
          BY <2>2, <2>6, ModelFacts DEF TypeOK
        <5>2. m # sync_pos + 1
          BY <3>2
        <5>3. QED
          BY <5>1, <5>2
      <4>2. db_store[id] = nb[id]
        BY <1>0, <2>2, <2>6, <4>1 DEF SyncRead
      <4>3. QED
        BY <2>3, <2>4, <3>2, <4>2
    <3>3. QED
      BY <3>1, <3>2
  <2>7. QED
    BY <2>2, <2>5, <2>6
<1>8. CASE CleanupModel
  <2>1. /\ sync_pos' = sync_pos + 1 /\ UNCHANGED <<nb, events>>
        /\ pc = "sync" /\ sync_pos >= NumModels
        /\ db_store'[id] =
             IF id \in Models[2 * NumModels - sync_pos] /\ nb[id] = None
             THEN None ELSE db_store[id]
    BY <1>0, <1>i, <1>8 DEF CleanupModel, SyncCleansUp
  <2>2. m <= sync_pos
    BY <2>1, ModelFacts DEF TypeOK
  <2>3. nb[id] # None => db_store'[id] = nb[id]
    BY <1>0, <2>1, <2>2 DEF SyncRead
  <2>4. ASSUME m > 2 * NumModels - sync_pos', nb[id] = None
        PROVE  db_store'[id] = None
    <3>1. m = 2 * NumModels - sync_pos \/ m > 2 * NumModels - sync_pos
      BY <2>1, <2>4, ModelFacts DEF TypeOK
    <3>2. db_store[id] = None \/ m = 2 * NumModels - sync_pos
      BY <1>0, <2>1, <2>4, <3>1 DEF SyncRead
    <3>3. QED
      BY <2>1, <2>4, <3>2
  <2>5. QED
    BY <2>1, <2>3, <2>4
<1>9. QED
  BY <1>1, <1>3, <1>4, <1>5, <1>6, <1>7, <1>8, CalmStep

\* Something in front of a sequence.
LEMMA InFront ==
  ASSUME NEW T, NEW s \in Seq(T), NEW x \in T
  PROVE  /\ <<x>> \o s \in Seq(T) /\ Len(<<x>> \o s) = Len(s) + 1
         /\ (<<x>> \o s)[1] = x
         /\ \A l \in 1 .. Len(s) : (<<x>> \o s)[l + 1] = s[l]
<1>1. <<x>> \in Seq(T) /\ Len(<<x>>) = 1 /\ <<x>>[1] = x
  OBVIOUS
<1>2. /\ <<x>> \o s \in Seq(T) /\ Len(<<x>> \o s) = 1 + Len(s)
      /\ \A j \in 1 .. 1 + Len(s) :
           (<<x>> \o s)[j] = IF j <= 1 THEN <<x>>[j] ELSE s[j - 1]
  BY <1>1, ConcatProperties
<1>3. Len(s) \in Nat
  OBVIOUS
<1>4. ASSUME NEW l \in 1 .. Len(s) PROVE (<<x>> \o s)[l + 1] = s[l]
  <2>1. l + 1 \in 1 .. 1 + Len(s) /\ ~(l + 1 <= 1) /\ (l + 1) - 1 = l
    BY <1>3
  <2>2. QED
    BY <1>2, <2>1
<1>5. QED
  BY <1>1, <1>2, <1>3, <1>4

\* _send_pending_events takes one object and leaves the others for later.
LEMMA LoopTaken ==
  ASSUME TypeOK, loops # <<>>, NEW id, NEW i, i # id,
         NEW l \in 1 .. Len(loops), i \in loops[l],
         loops' = IF Head(loops) \ {id} = {} THEN Tail(loops)
                  ELSE <<Head(loops) \ {id}>> \o Tail(loops)
  PROVE  \E k \in 1 .. Len(loops') : i \in loops'[k]
<1> DEFINE rest == Head(loops) \ {id}
           tail == Tail(loops)
<1>1. /\ loops \in Seq(SUBSET Ids) /\ Len(loops) \in Nat
      /\ Head(loops) = loops[1] /\ rest \in SUBSET Ids
      /\ tail \in Seq(SUBSET Ids) /\ Len(tail) = Len(loops) - 1
      /\ \A j \in 1 .. Len(tail) : tail[j] = loops[j + 1]
  BY HeadTailProperties DEF TypeOK
<1>2. loops' = IF rest = {} THEN tail ELSE <<rest>> \o tail
  OBVIOUS
<1>3. l = 1 => i \in rest
  BY <1>1
<1> HIDE DEF rest, tail
<1>4. CASE l = 1
  BY <1>1, <1>2, <1>3, <1>4, InFront
<1>5. CASE l # 1
  <2>1. l - 1 \in 1 .. Len(tail) /\ (l - 1) + 1 = l
    BY <1>1, <1>5
  <2>2. i \in tail[l - 1]
    BY <1>1, <2>1
  <2>3. CASE rest = {}
    BY <1>2, <2>1, <2>2, <2>3
  <2>4. CASE rest # {}
    <3>1. Len(loops') = Len(tail) + 1 /\ loops'[(l - 1) + 1] = tail[l - 1]
      BY <1>1, <1>2, <2>1, <2>4, InFront
    <3>2. l \in 1 .. Len(loops')
      BY <1>1, <3>1
    <3>3. QED
      BY <2>1, <2>2, <3>1, <3>2
  <2>5. QED
    BY <2>3, <2>4
<1>6. QED
  BY <1>4, <1>5

\* A step that leaves the objects of every set that holds afterwards waited
\* for leaves all objects waited for.
LEMMA AwaitedKept ==
  ASSUME NEW id \in Ids, Awaited(id),
         \A r \in Ids : pending[r] \subseteq pending'[r],
         \A W \in SUBSET Ids : Holds(W)' => \A i \in Ids : Attended(i) => i \in W
  PROVE  Awaited(id)'
<1>1. ASSUME NEW W \in SUBSET Ids, Holds(W)' PROVE id \in W
  <2>1. PendingClosed(W)
    BY <1>1 DEF Holds, PendingClosed
  <2>2. Holds(W)
    BY <1>1, <2>1 DEF Holds
  <2>3. QED
    BY <2>2, AwaitedHolds
<1>2. QED
  BY <1>1 DEF Awaited, Holds

\* An attended object is waited for, also after a step.
LEMMA AttendedAwaited ==
  ASSUME NEW id \in Ids, Attended(id)'
  PROVE  Awaited(id)'
  BY DEF Awaited

\* What is right about object id outside of a sync.
Follows(id) ==
    \/ db_store[id] = nb[id]
    \/ Awaited(id) /\ (nb[id] = None => events[id] # <<>>)

\* _send_update_events caches the object of the update, and what it found.
\* Who waited for the object is attended to, and so is who waited for those.
LEMMA SendFollows ==
  ASSUME IInv, TaskFresh, Calm, NEW id \in Ids, Follows(id), SendUpdateEvents
  PROVE  Follows(id)'
<1> USE DEF IInv
<1> DEFINE t == task.id
           new == [task.found EXCEPT ![t] = task.obj]
<1>1. /\ task \in Tasks /\ t \in Ids /\ task # None
      /\ task' = None /\ UNCHANGED <<nb, events>>
      /\ pending' = [pending EXCEPT ![t] = {}]
      /\ loops' = IF pending[t] = {} THEN loops ELSE <<pending[t]>> \o loops
  BY DEF SendUpdateEvents, TypeOK, Tasks, TaskDone, nbVars
<1>2. new \in [Ids -> MaybeObjects] /\ db_store' = Updated(db_store, new)
  BY <1>1 DEF SendUpdateEvents, Tasks, MaybeObjects
<1>3. new[id] = IF id = t THEN task.obj ELSE task.found[id]
  BY <1>1 DEF Tasks
<1> HIDE DEF new
<1>4. db_store'[id] = IF new[id] # None /\ IsNewer(id, new[id], db_store[id])
                      THEN new[id] ELSE db_store[id]
  BY <1>2, UpdatedProperties, Zenon DEF TypeOK
<1>5. CASE events[id] # <<>>
  BY <1>1, <1>5, AttendedAwaited DEF Attended, Follows
<1>6. CASE events[id] = <<>> /\ id = t
  <2>1. new[id] = nb[id] /\ nb[id] # None
    <3>1. task.obj = nb[id] /\ task.obj \in Objects
      BY <1>1, <1>6 DEF TaskFresh, Tasks
    <3>2. QED
      BY <1>3, <1>6, <3>1, NoneAssumption
  <2>2. db_store'[id] = nb[id]
    BY <1>4, <2>1, ReadAgrees
  <2>3. QED
    BY <1>1, <2>2 DEF Follows
<1>7. CASE events[id] = <<>> /\ id # t
  <2>1. db_store'[id] = nb[id] \/ db_store'[id] = db_store[id]
    BY <1>1, <1>3, <1>4, <1>7 DEF TaskFresh
  <2>2. CASE db_store[id] = nb[id] \/ db_store'[id] = nb[id]
    BY <1>1, <2>1, <2>2 DEF Follows
  <2>3. CASE Awaited(id) /\ nb[id] # None
    <3>1. ASSUME NEW W \in SUBSET Ids, Holds(W)' PROVE id \in W
      <4>1. loops \in Seq(SUBSET Ids) /\ pending[t] \in SUBSET Ids
        BY <1>1 DEF TypeOK
      <4>2. ASSUME NEW i \in pending[t] PROVE i \in W
        <5>1. 1 \in 1 .. Len(loops') /\ i \in loops'[1]
          <6>1. loops' = <<pending[t]>> \o loops
            BY <1>1, <4>2
          <6>2. Len(loops') = Len(loops) + 1 /\ loops'[1] = pending[t]
            BY <4>1, <6>1, InFront
          <6>3. Len(loops) \in Nat
            BY <4>1
          <6>4. QED
            BY <4>2, <6>2, <6>3
        <5>2. Attended(i)' /\ i \in Ids
          BY <4>1, <4>2, <5>1 DEF Attended
        <5>3. QED
          BY <3>1, <5>2 DEF Holds
      <4>3. PendingClosed(W \cup {t})
        <5>1. \A r \in W : r # t => pending[r] \subseteq W
          BY <1>1, <3>1 DEF Holds, PendingClosed, TypeOK
        <5>2. QED
          BY <4>2, <5>1 DEF PendingClosed
      <4>4. ASSUME NEW i \in Ids, Attended(i) PROVE i \in W \cup {t}
        <5>1. CASE nb[i] = None \/ events[i] # <<>>
          BY <1>1, <3>1, <5>1 DEF Holds, Attended
        <5>2. CASE task.id = i
          BY <5>2
        <5>3. ASSUME NEW l \in 1 .. Len(loops), i \in loops[l]
              PROVE  i \in W
          <6>1. \E k \in 1 .. Len(loops') : i \in loops'[k]
            <7>1. CASE loops' = loops
              BY <5>3, <7>1
            <7>2. CASE loops' = <<pending[t]>> \o loops
              <8>1. Len(loops') = Len(loops) + 1 /\ loops'[l + 1] = loops[l]
                BY <4>1, <7>2, InFront
              <8>2. l + 1 \in 1 .. Len(loops')
                BY <4>1, <8>1
              <8>3. QED
                BY <5>3, <8>1, <8>2
            <7>3. QED
              BY <1>1, <7>1, <7>2
          <6>2. Attended(i)'
            BY <6>1 DEF Attended
          <6>3. QED
            BY <3>1, <6>2 DEF Holds
        <5>4. QED
          BY <4>4, <5>1, <5>2, <5>3 DEF Attended
      <4>5. Holds(W \cup {t}) /\ W \cup {t} \in SUBSET Ids
        BY <1>1, <4>3, <4>4 DEF Holds
      <4>6. id \in W \cup {t}
        BY <2>3, <4>5, AwaitedHolds
      <4>7. QED
        BY <1>7, <4>6
    <3>2. Awaited(id)'
      BY <3>1 DEF Awaited, Holds
    <3>3. QED
      BY <1>1, <2>3, <3>2 DEF Follows
  <2>4. QED
    BY <1>7, <2>2, <2>3 DEF Follows
<1>8. QED
  BY <1>5, <1>6, <1>7

\* _send_updates_for_object has something to do.
LEMMA NewTaskIsTask ==
  ASSUME NEW id \in Ids, NEW o \in Objects
  PROVE  NewTask(id, o) # None /\ NewTask(id, o).id = id
<1>1. NewTask(id, o) \in Tasks
  BY DEF NewTask, Tasks, Objects, MaybeObjects
<1>2. QED
  BY <1>1, NoTaskAssumption DEF NewTask

\* No step leaves an object behind.
LEMMA FollowStep == EventInv /\ [Next]_vars => CacheFollows'
<1> SUFFICES ASSUME EventInv, [Next]_vars, Calm', ~dropped', pc' \in {"idle", "update"},
                    NEW id \in Ids
             PROVE  Follows(id)'
  BY DEF CacheFollows, Follows
<1> USE DEF EventInv, IInv
<1>0. Calm /\ nb_up
  BY CalmStep
<1>f. ~dropped /\ pc \in {"idle", "update"} => Follows(id)
  BY <1>0 DEF CacheFollows, Follows
<1>k. ASSUME UNCHANGED <<nb, db_store>>, ~dropped, pc \in {"idle", "update"},
             events'[id] = events[id] \/ events'[id] # <<>>,
             \A r \in Ids : pending[r] \subseteq pending'[r],
             \A i \in Ids : Attended(i) => Attended(i)'
      PROVE  Follows(id)'
  <2>1. \A W \in SUBSET Ids : Holds(W)' => \A i \in Ids : Attended(i) => i \in W
    BY <1>k DEF Holds
  <2>2. Awaited(id) => Awaited(id)'
    BY <1>k, <2>1, AwaitedKept
  <2>3. QED
    BY <1>f, <1>k, <2>2 DEF Follows
<1>1. CASE UNCHANGED <<nb, events, db_store, pending, pc, task, loops, sync_pos,
                       dropped>>
  BY <1>1, <1>k DEF Attended
<1>2. ASSUME NEW w \in Ids, NbCreate(w) \/ NbUpdate(w) \/ NbDelete(w)
      PROVE  Follows(id)'
  <2>1. UNCHANGED <<db_store, pending, pc, task, loops, dropped>>
    BY <1>2, Written DEF ctlVars
  <2>2. /\ \A i \in Ids : i # w => nb'[i] = nb[i] /\ events'[i] = events[i]
        /\ events'[w] # <<>>
    BY <1>2, Written
  <2>3. CASE id = w
    BY <2>2, <2>3, AttendedAwaited DEF Follows, Attended
  <2>4. CASE id # w
    <3>1. \A i \in Ids : Attended(i) => Attended(i)'
      BY <2>1, <2>2 DEF Attended
    <3>2. \A W \in SUBSET Ids : Holds(W)' => \A i \in Ids : Attended(i) => i \in W
      BY <3>1 DEF Holds
    <3>3. Awaited(id) => Awaited(id)'
      BY <2>1, <3>2, AwaitedKept
    <3>4. QED
      BY <1>f, <2>1, <2>2, <2>4, <3>3 DEF Follows
  <2>5. QED
    BY <2>3, <2>4
<1>3. ASSUME NEW k \in Ids, events[k] # <<>>, HandleSet(k, 1)
      PROVE  Follows(id)'
  <2>1. /\ events' = [events EXCEPT ![k] = Without(@, 1)] /\ events[k][1] # None
        /\ task' = NewTask(k, events[k][1]) /\ pc = "idle"
        /\ UNCHANGED <<nb, db_store, pending, loops, dropped>>
    BY <1>3 DEF HandleSet
  <2>2. /\ \A i \in Ids : i # k => events'[i] = events[i]
        /\ events'[k] = <<>> => events[k][1] = nb[k]
    BY <1>0, <1>3, <2>1, FirstTaken, Zenon
  <2>3. task' # None /\ task'.id = k
    <3>1. events[k][1] \in Objects
      BY <1>3, <2>1, EmptySeq DEF TypeOK, MaybeObjects
    <3>2. QED
      BY <2>1, <3>1, NewTaskIsTask
  <2>4. \A i \in Ids : Attended(i) => Attended(i)'
    BY <2>1, <2>2, <2>3 DEF Attended, ThreadOK
  <2>5. CASE id = k
    <3>1. Awaited(id)'
      BY <2>3, <2>5, AttendedAwaited DEF Attended
    <3>2. nb[id] = None => events'[id] # <<>>
      BY <2>1, <2>2, <2>5
    <3>3. QED
      BY <2>1, <3>1, <3>2 DEF Follows
  <2>6. CASE id # k
    BY <1>k, <2>1, <2>2, <2>4, <2>6
  <2>7. QED
    BY <2>5, <2>6
<1>4. ASSUME NEW k \in Ids, events[k] # <<>>, HandleDelete(k, 1)
      PROVE  Follows(id)'
  <2>1. /\ events' = [events EXCEPT ![k] = Without(@, 1)] /\ events[k][1] = None
        /\ db_store' = [db_store EXCEPT ![k] = None] /\ pc = "idle"
        /\ UNCHANGED <<nb, pending, task, loops, dropped>>
    BY <1>4 DEF HandleDelete
  <2>2. /\ \A i \in Ids : i # k => events'[i] = events[i]
        /\ events'[k] = <<>> => nb[k] = None
    BY <1>0, <1>4, <2>1, FirstTaken, Zenon
  <2>3. \A i \in Ids : Attended(i) => Attended(i)'
    BY <2>1, <2>2 DEF Attended
  <2>4. CASE id = k
    <3>1. db_store'[id] = None
      BY <2>1, <2>4 DEF TypeOK
    <3>2. CASE events'[id] = <<>>
      BY <2>1, <2>2, <2>4, <3>1, <3>2 DEF Follows
    <3>3. CASE events'[id] # <<>>
      BY <3>3, AttendedAwaited DEF Follows, Attended
    <3>4. QED
      BY <3>2, <3>3
  <2>5. CASE id # k
    <3>1. db_store'[id] = db_store[id]
      BY <2>1, <2>5 DEF TypeOK
    <3>2. \A W \in SUBSET Ids : Holds(W)' => \A i \in Ids : Attended(i) => i \in W
      BY <2>3 DEF Holds
    <3>3. Awaited(id) => Awaited(id)'
      BY <2>1, <3>2, AwaitedKept
    <3>4. QED
      BY <1>f, <2>1, <2>2, <2>5, <3>1, <3>3 DEF Follows
  <2>6. QED
    BY <2>4, <2>5
<1>5. ASSUME NEW r \in Ids, Dereference(r) PROVE Follows(id)'
  <2>1. /\ pc = "update" /\ task # None /\ UNCHANGED <<nb, events>>
        /\ task \in Tasks /\ ~dropped
    <3>1. UNCHANGED <<nb, events>> /\ pc = "update" /\ task # None
      BY <1>5 DEF Dereference
    <3>2. ~dropped
      BY <1>0, <1>5 DEF Dereference
    <3>3. QED
      BY <3>1, <3>2 DEF TypeOK
  <2>2. CASE /\ db_store[r] = None /\ nb[r] = None
             /\ pending' = [pending EXCEPT ![r] = @ \cup {task.id}]
             /\ TaskDone(loops) /\ UNCHANGED db_store
    <3>1. /\ task' = None /\ loops' = loops /\ task.id \in pending'[r]
          /\ \A i \in Ids : pending[i] \subseteq pending'[i]
      BY <2>1, <2>2 DEF TaskDone, TypeOK
    <3>2. ASSUME NEW W \in SUBSET Ids, Holds(W)', NEW i \in Ids, Attended(i)
          PROVE  i \in W
      <4>1. r \in W
        BY <2>1, <2>2, <3>2 DEF Holds, Attended
      <4>2. task.id \in W
        BY <3>1, <3>2, <4>1 DEF Holds, PendingClosed
      <4>3. CASE i # task.id
        <5>1. Attended(i)'
          BY <2>1, <3>1, <3>2, <4>3 DEF Attended
        <5>2. QED
          BY <3>2, <5>1 DEF Holds
      <4>4. QED
        BY <4>2, <4>3
    <3>3. Awaited(id) => Awaited(id)'
      BY <3>1, <3>2, AwaitedKept
    <3>4. QED
      BY <1>f, <2>1, <2>2, <3>3 DEF Follows
  <2>3. CASE /\ task'.id = task.id /\ task' # None
             /\ UNCHANGED <<db_store, pending, loops>>
    <3>1. \A i \in Ids : Attended(i) => Attended(i)'
      BY <2>1, <2>3 DEF Attended
    <3>2. QED
      BY <1>k, <2>1, <2>3, <3>1
  <2>4. QED
    <3> DEFINE item == IF db_store[r] = None THEN nb[r] ELSE db_store[r]
               seen == {task.id, r} \cup {i \in Ids : task.found[i] # None}
    <3>1. ASSUME item # None,
                 task' = [task EXCEPT !.found[r] = item,
                                      !.todo = (@ \cup item.refs) \ seen]
          PROVE  task'.id = task.id /\ task' # None
      <4>1. item \in Objects
        BY <3>1 DEF TypeOK, MaybeObjects
      <4>2. task' \in Tasks /\ task'.id = task.id
        BY <2>1, <3>1, <4>1, Zenon DEF Tasks, Objects, MaybeObjects
      <4>3. QED
        BY <4>2, NoTaskAssumption
    <3>2. QED
      BY <1>0, <1>5, <2>2, <2>3, <3>1 DEF Dereference
<1>6. ASSUME NEW k \in Ids, SendPendingEvent(k) PROVE Follows(id)'
  <2>1. ~Raise
    BY <1>6, RaiseThread DEF SendPendingEvent, ThreadOK, TypeOK
  <2>2. /\ task = None /\ loops # <<>> /\ k \in Head(loops) /\ pc = "update"
        /\ nb[k] # None /\ task' = NewTask(k, nb[k])
        /\ UNCHANGED <<nb, events, db_store, pending, dropped>>
        /\ loops' = IF Head(loops) \ {k} = {} THEN Tail(loops)
                    ELSE <<Head(loops) \ {k}>> \o Tail(loops)
    BY <1>6, <2>1, Zenon DEF SendPendingEvent
  <2>3. task' # None /\ task'.id = k
    BY <2>2, NewTaskIsTask DEF TypeOK, MaybeObjects
  <2>4. ASSUME NEW i \in Ids, Attended(i) PROVE Attended(i)'
    <3>1. CASE i = k
      BY <2>3, <3>1 DEF Attended
    <3>2. CASE i # k
      <4>1. ASSUME NEW l \in 1 .. Len(loops), i \in loops[l]
            PROVE  \E j \in 1 .. Len(loops') : i \in loops'[j]
        BY <2>2, <3>2, <4>1, LoopTaken, Zenon
      <4>2. QED
        BY <2>2, <2>4, <4>1, Zenon DEF Attended
    <3>3. QED
      BY <3>1, <3>2
  <2>5. QED
    BY <1>k, <2>2, <2>4
<1>7. CASE SendUpdateEvents
  <2>1. Follows(id)
    BY <1>f, <1>7 DEF SendUpdateEvents
  <2>2. QED
    BY <1>0, <1>7, <2>1, SendFollows
<1>8. CASE UpdateModel \/ CleanupModel \/ HandleSync
  BY <1>0, <1>8, Zenon DEF UpdateModel, CleanupModel, SyncUpdates, SyncCleansUp,
                    HandleSync, StartSync
<1>9. CASE EndSync
  <2>1. UNCHANGED <<nb, events, db_store>> /\ pc = "sync" /\ sync_pos = 2 * NumModels
    BY <1>9 DEF EndSync
  <2>2. CASE events[id] # <<>>
    BY <2>1, <2>2, AttendedAwaited DEF Follows, Attended
  <2>3. CASE events[id] = <<>>
    <3>1. PICK m \in 1 .. NumModels : id \in Models[m]
      BY ModelFacts
    <3>2. m <= sync_pos /\ m > 2 * NumModels - sync_pos
      BY <2>1, ModelFacts
    <3>3. db_store[id] = nb[id]
      BY <1>0, <2>1, <2>3, <3>1, <3>2 DEF SyncRead
    <3>4. QED
      BY <2>1, <3>3 DEF Follows
  <2>4. QED
    BY <2>2, <2>3
<1>10. QED
  BY <1>1, <1>2, <1>3, <1>4, <1>5, <1>6, <1>7, <1>8, <1>9, CalmStep

\* Without faults, for every set of models and every interleaving of writes,
\* events, reads and syncs: when every event was handled, an object is cached
\* as it is in the database or waits for a reference that does not exist.
THEOREM EventsAreEnough == Spec => []EventsSuffice
<1>1. Init => EventInv
  <2> SUFFICES ASSUME Init PROVE EventInv
    OBVIOUS
  <2>1. IInv
    BY InitIInv
  <2>2. LastEvent
    BY DEF Init, LastEvent
  <2>3. ThreadOK
    BY DEF Init, ThreadOK
  <2>4. TaskFresh
    BY DEF Init, TaskFresh
  <2>5. SyncRead /\ CacheFollows
    BY DEF Init, SyncRead, CacheFollows
  <2>6. QED
    BY <2>1, <2>2, <2>3, <2>4, <2>5 DEF EventInv
<1>2. EventInv /\ [Next]_vars => EventInv'
  BY TypeStep, CopiesStep, SyncStep, LastEventStep, ThreadStep, TaskFreshStep,
     SyncReadStep, FollowStep DEF EventInv, IInv
<1>3. EventInv => EventsSuffice
  <2> SUFFICES ASSUME EventInv, InOrder, faults = 0, ~dropped, pc = "idle",
                      \A id \in Ids : events[id] = <<>>,
                      NEW id \in Ids, db_store[id] # nb[id]
               PROVE  id \in Waiting
    BY DEF EventsSuffice
  <2>1. Awaited(id) /\ nb[id] # None
    BY DEF EventInv, CacheFollows, Calm
  <2>2. task = None /\ Len(loops) = 0
    BY EmptySeq DEF EventInv, ThreadOK
  <2>3. ASSUME NEW W \in SUBSET Ids, PendingClosed(W),
               {i \in Ids : nb[i] = None} \subseteq W
        PROVE  id \in W
    <3>1. \A i \in Ids : Attended(i) => i \in W
      BY <2>2, <2>3 DEF Attended
    <3>2. QED
      BY <2>1, <2>3, <3>1 DEF Awaited
  <2>4. QED
    BY <2>1, <2>3 DEF Waiting
<1>4. QED
  BY <1>1, <1>2, <1>3, PTL DEF Spec
=============================================================================
