------------------------ MODULE LockedObjectsProofs ------------------------
(***************************************************************************)
(* Proofs about the distributed lock, for any number of workers, objects   *)
(* and retries.                                                            *)
(*                                                                         *)
(* MutualExclusion is not inductive: a release of one worker could free    *)
(* the lock of another if their session ids agreed, and a reset could free *)
(* a lock acquired after the row was read.  IInv adds what excludes that:  *)
(* session ids of workers inside a lock are distinct, a worker that was    *)
(* not reset still owns its row, a reset worker's session id is in no row, *)
(* and a row that still matches what a resetter read has timed out.        *)
(***************************************************************************)
EXTENDS LockedObjects, TLAPS

\* What worker p, inside its lock, can rely on.
Holds(p) ==
    /\ sid[p] \in Sids
    /\ \A o \in Oids : session_id[o] = sid[p] => o = oid[p]
    /\ ~lapsed[p] => Matches(oid[p], sid[p])
    /\ lapsed[p] => \A o \in Oids : session_id[o] # sid[p]

\* The strengthening of MutualExclusion that every step preserves.
IInv ==
    /\ TypeOK
    /\ \A p \in Procs : Inside(p) => Holds(p)
    /\ \A p, q \in Procs :
          p # q /\ Inside(p) /\ Inside(q) => sid[p] # sid[q]
    /\ \A p \in Procs :
          pc[p] = "reset" /\ Matches(oid[p], seen[p]) => timed_out[oid[p]]
    /\ \A o \in Oids : lock[o] => exists[o]

\* The initial table is empty and every worker is idle.
LEMMA InitIInv == Init => IInv
  BY MaxRetriesAssumption DEF Init, IInv, TypeOK, PCs, Inside, Holds, Matches

\* Every SQL statement of every worker keeps the types of the lock table and
\* of the workers' local state.
LEMMA TypeStep == TypeOK /\ [Next]_vars => TypeOK'
<1> USE MaxRetriesAssumption, NoSidAssumption, NoOidAssumption
<1> SUFFICES ASSUME TypeOK, [Next]_vars PROVE TypeOK'
  OBVIOUS
<1>1. ASSUME NEW p \in Procs, NEW o \in Oids, CallLocked(p, o) PROVE TypeOK'
  BY <1>1 DEF TypeOK, PCs, CallLocked, Goto, rowVars
<1>2. ASSUME NEW p \in Procs, NEW o \in Oids, CallNested(p, o) PROVE TypeOK'
  BY <1>2 DEF TypeOK, PCs, CallNested, rowVars
<1>3. ASSUME NEW p \in Procs, TestObject(p) PROVE TypeOK'
  BY <1>3 DEF TypeOK, PCs, TestObject, Goto, rowVars
<1>r. ASSUME NEW p \in Procs, NEW again \in PCs \ {"idle", "dead"},
              oid[p] \in Oids, oid' = oid, RetryAt(p, again)
      PROVE  /\ pc' \in [Procs -> PCs] /\ tries' \in [Procs -> 0..MaxRetries]
             /\ \A q \in Procs :
                   pc'[q] \notin {"idle", "dead"} => oid'[q] \in Oids
  BY <1>r DEF TypeOK, PCs, RetryAt
<1>g. ASSUME NEW p \in Procs, NEW label \in PCs,
              oid[p] \in Oids, oid' = oid, Goto(p, label)
      PROVE  /\ pc' \in [Procs -> PCs] /\ tries' \in [Procs -> 0..MaxRetries]
             /\ \A q \in Procs :
                   pc'[q] \notin {"idle", "dead"} => oid'[q] \in Oids
  BY <1>g DEF TypeOK, PCs, Goto
<1>u. ASSUME NEW o \in Oids, Unlock(o)
      PROVE  /\ exists' \in [Oids -> BOOLEAN] /\ lock' \in [Oids -> BOOLEAN]
             /\ session_id' \in [Oids -> Sids \cup {NoSid}]
             /\ timed_out' \in [Oids -> BOOLEAN]
  BY <1>u DEF TypeOK, Unlock
<1>4. ASSUME NEW p \in Procs, ResetLock(p) PROVE TypeOK'
  <2>1. lapsed' \in [Procs -> BOOLEAN]
    BY <1>4 DEF TypeOK, ResetLock, rowVars
  <2>2. oid[p] \in Oids /\ oid' = oid /\ sid' = sid /\ inner' = inner
        /\ seen' \in [Procs -> Sids \cup {NoSid}]
    BY <1>4 DEF TypeOK, ResetLock
  <2>3. CASE Unlock(oid[p]) /\ Goto(p, "acquire")
    BY <2>1, <2>2, <2>3, <1>g, <1>u DEF TypeOK, PCs
  <2>4. CASE RetryAt(p, "test") /\ UNCHANGED rowVars
    BY <2>1, <2>2, <2>4, <1>r DEF TypeOK, PCs, rowVars
  <2>5. QED
    BY <1>4, <2>3, <2>4 DEF ResetLock
<1>5. ASSUME NEW p \in Procs, CreateRow(p) PROVE TypeOK'
  BY <1>5 DEF TypeOK, PCs, CreateRow, Goto
<1>6. ASSUME NEW p \in Procs, AcquireLock(p) PROVE TypeOK'
  <2>1. oid[p] \in Oids /\ oid' = oid /\ seen' = seen /\ inner' = inner
    BY <1>6 DEF TypeOK, AcquireLock
  <2>2. CASE Goto(p, "body") /\ ~UNCHANGED rowVars
    <3>1. PICK s \in FreshSids :
             /\ sid' = [sid EXCEPT ![p] = s]
             /\ session_id' = [session_id EXCEPT ![oid[p]] = s]
             /\ lock' = [lock EXCEPT ![oid[p]] = TRUE]
             /\ timed_out' = [timed_out EXCEPT ![oid[p]] = FALSE]
             /\ lapsed' = [lapsed EXCEPT ![p] = FALSE]
             /\ UNCHANGED exists
      BY <1>6, <2>2 DEF AcquireLock
    <3>2. QED
      BY <3>1, <2>1, <2>2, <1>g DEF TypeOK, PCs, FreshSids
  <2>3. CASE RetryAt(p, "acquire") /\ UNCHANGED <<rowVars, sid, lapsed>>
    BY <2>1, <2>3, <1>r DEF TypeOK, PCs, rowVars
  <2>4. QED
    BY <1>6, <2>2, <2>3 DEF AcquireLock, TypeOK, rowVars, FreshSids
<1>7. ASSUME NEW p \in Procs, ReturnNested(p) PROVE TypeOK'
  BY <1>7 DEF TypeOK, PCs, ReturnNested, rowVars
<1>8. ASSUME NEW p \in Procs, LeaveBody(p) PROVE TypeOK'
  BY <1>8 DEF TypeOK, PCs, LeaveBody, Goto, rowVars
<1>9. ASSUME NEW p \in Procs, ReleaseLock(p) PROVE TypeOK'
  <2>1. oid[p] \in Oids /\ oid' = oid /\ seen' = seen /\ inner' = inner
        /\ lapsed' = lapsed /\ sid' \in [Procs -> Sids \cup {NoSid}]
    BY <1>9 DEF TypeOK, ReleaseLock
  <2>2. CASE Unlock(oid[p]) /\ Goto(p, "idle")
    BY <2>1, <2>2, <1>g, <1>u DEF TypeOK, PCs
  <2>3. CASE RetryAt(p, "release") /\ UNCHANGED rowVars
    BY <2>1, <2>3, <1>r DEF TypeOK, PCs, rowVars
  <2>4. QED
    BY <1>9, <2>2, <2>3 DEF ReleaseLock
<1>10. ASSUME NEW p \in Procs, Crash(p) PROVE TypeOK'
  BY <1>10 DEF TypeOK, PCs, Crash, Goto, rowVars
<1>11. ASSUME NEW p \in Procs, Restart(p) PROVE TypeOK'
  BY <1>11 DEF TypeOK, PCs, Restart, Goto, rowVars
<1>12. ASSUME NEW o \in Oids, PassTtl(o) PROVE TypeOK'
  BY <1>12 DEF TypeOK, PCs, PassTtl, procVars
<1>13. CASE UNCHANGED vars
  BY <1>13 DEF TypeOK, vars, rowVars, procVars
<1>14. ASSUME NEW p \in Procs, NEW o \in Oids, CallUnlocked(p, o) PROVE TypeOK'
  BY <1>14 DEF TypeOK, PCs, CallUnlocked, Goto, rowVars
<1>15. ASSUME NEW p \in Procs, ReturnUnlocked(p) PROVE TypeOK'
  BY <1>15 DEF TypeOK, PCs, ReturnUnlocked, Goto, rowVars
<1>16. QED
  BY <1>1, <1>2, <1>3, <1>4, <1>5, <1>6, <1>7, <1>8, <1>9, <1>10, <1>11,
     <1>12, <1>13, <1>14, <1>15 DEF Next, Step, Calls

\* A step that changes no row, no session id and no history flag, and lets
\* nobody into a lock, keeps what the workers inside rely on.
LEMMA QuietStep ==
  ASSUME IInv, TypeOK',
         UNCHANGED <<exists, lock, session_id, oid, sid, lapsed>>,
         \A q \in Procs : Inside(q)' => Inside(q),
         \A o \in Oids : timed_out[o] => timed_out'[o],
         \A q \in Procs : pc'[q] = "reset" =>
            \/ pc[q] = "reset" /\ seen'[q] = seen[q]
            \/ timed_out[oid[q]]
  PROVE  IInv'
  BY DEF IInv, TypeOK, Holds, Matches, Inside

\* Every step preserves the strengthened invariant.
LEMMA NextIInv == IInv /\ [Next]_vars => IInv'
<1> SUFFICES ASSUME IInv, [Next]_vars PROVE IInv'
  OBVIOUS
<1> USE NoSidAssumption, NoOidAssumption
<1>t. TypeOK /\ TypeOK'
  BY TypeStep DEF IInv
<1>1. ASSUME NEW p \in Procs, NEW o \in Oids, CallLocked(p, o) PROVE IInv'
  <2>1. ~Inside(p) /\ ~Inside(p)' /\ pc'[p] = "test"
    BY <1>1, <1>t DEF CallLocked, Goto, TypeOK, Inside
  <2>2. \A q \in Procs : q # p => pc'[q] = pc[q] /\ oid'[q] = oid[q]
    BY <1>1, <1>t DEF CallLocked, Goto, TypeOK
  <2>3. UNCHANGED <<rowVars, sid, seen, lapsed>>
    BY <1>1 DEF CallLocked
  <2>4. QED
    BY <1>t, <2>1, <2>2, <2>3 DEF IInv, Holds, Matches, Inside, rowVars
<1>2. ASSUME NEW p \in Procs, NEW o \in Oids, CallNested(p, o) PROVE IInv'
  BY <1>2, <1>t, QuietStep DEF CallNested, rowVars, Inside
<1>3. ASSUME NEW p \in Procs, TestObject(p) PROVE IInv'
  <2>1. UNCHANGED <<rowVars, oid, sid, lapsed>>
    BY <1>3 DEF TestObject
  <2>2. pc[p] = "test" /\ pc'[p] \in {"create", "reset", "acquire"}
    BY <1>3, <1>t DEF TestObject, Goto, TypeOK
  <2>3. pc'[p] = "reset" => timed_out[oid[p]]
    BY <1>3, <1>t DEF TestObject, Goto, TypeOK
  <2>4. \A q \in Procs : q # p => pc'[q] = pc[q] /\ seen'[q] = seen[q]
    BY <1>3, <1>t DEF TestObject, Goto, TypeOK
  <2>5. QED
    BY <1>t, <2>1, <2>2, <2>3, <2>4, QuietStep DEF rowVars, Inside
<1>4. ASSUME NEW p \in Procs, ResetLock(p) PROVE IInv'
  <2>1. UNCHANGED <<oid, sid>> /\ pc[p] = "reset" /\ ~Inside(p)
        /\ pc'[p] \in {"acquire", "test", "idle"}
    BY <1>4, <1>t DEF ResetLock, Goto, RetryAt, TypeOK, Inside
  <2>2. \A q \in Procs : q # p => pc'[q] = pc[q] /\ seen'[q] = seen[q]
    BY <1>4, <1>t DEF ResetLock, Goto, RetryAt, TypeOK
  <2>3. CASE Matches(oid[p], seen[p])
    <3>1. Unlock(oid[p])
      BY <1>4, <2>3 DEF ResetLock
    <3>2. \A q \in Procs : lapsed'[q] = (\/ lapsed[q]
                                         \/ /\ Inside(q)
                                            /\ oid[q] = oid[p]
                                            /\ sid[q] = seen[p])
      BY <1>4, <2>3 DEF ResetLock
    <3>3. ASSUME NEW q \in Procs, Inside(q)' PROVE Holds(q)'
      <4>1. q # p /\ Inside(q) /\ Holds(q) /\ oid[p] \in Oids
            /\ oid[q] \in Oids
        BY <3>3, <2>1, <2>2, <1>t DEF Inside, IInv, TypeOK
      <4>2. sid'[q] \in Sids
            /\ \A o \in Oids : session_id'[o] = sid'[q] => o = oid'[q]
        BY <4>1, <3>1, <2>1, <1>t DEF Holds, Unlock, TypeOK
      <4>3. ~lapsed'[q] => Matches(oid[q], sid[q])'
        <5>1. SUFFICES ASSUME ~lapsed'[q] PROVE Matches(oid[q], sid[q])'
          OBVIOUS
        <5>2. ~lapsed[q] /\ ~(oid[q] = oid[p] /\ sid[q] = seen[p])
          BY <5>1, <3>2, <4>1
        <5>3. Matches(oid[q], sid[q])
          BY <5>2, <4>1 DEF Holds
        <5>4. oid[q] # oid[p]
          BY <5>2, <5>3, <2>3 DEF Matches
        <5>5. QED
          BY <5>3, <5>4, <3>1, <2>1, <1>t, <4>1 DEF Matches, Unlock, TypeOK
      <4>4. lapsed'[q] => \A o \in Oids : session_id'[o] # sid'[q]
        <5>1. CASE lapsed[q]
          BY <5>1, <4>1, <3>1, <2>1, <1>t DEF Holds, Unlock, TypeOK
        <5>2. CASE oid[q] = oid[p] /\ sid[q] = seen[p]
          BY <5>2, <4>1, <3>1, <2>1, <1>t DEF Holds, Unlock, TypeOK
        <5>3. QED
          BY <5>1, <5>2, <3>2, <4>1
      <4>5. QED
        BY <4>2, <4>3, <4>4, <2>1 DEF Holds, Matches
    <3>4. \A q \in Procs : pc'[q] = "reset" /\ Matches(oid[q], seen[q])'
                            => timed_out'[oid'[q]]
      <4>1. SUFFICES ASSUME NEW q \in Procs, pc'[q] = "reset",
                            Matches(oid[q], seen[q])'
                     PROVE  timed_out'[oid'[q]]
        OBVIOUS
      <4>2. q # p /\ pc[q] = "reset" /\ oid[q] \in Oids /\ oid[p] \in Oids
        BY <4>1, <2>1, <2>2, <1>t DEF TypeOK
      <4>3. oid[q] # oid[p]
        BY <4>1, <4>2, <3>1, <2>1, <1>t DEF Matches, Unlock, TypeOK
      <4>4. Matches(oid[q], seen[q])
        BY <4>1, <4>2, <4>3, <3>1, <2>1, <2>2, <1>t
           DEF Matches, Unlock, TypeOK
      <4>5. QED
        BY <4>2, <4>3, <4>4, <3>1, <2>1, <1>t DEF IInv, Unlock, TypeOK
    <3>5. \A o \in Oids : lock'[o] => exists'[o]
      BY <3>1, <1>t DEF IInv, Unlock, TypeOK
    <3>6. QED
      BY <3>3, <3>4, <3>5, <2>1, <2>2, <1>t DEF IInv, Inside, Matches
  <2>4. CASE ~Matches(oid[p], seen[p])
    <3>1. UNCHANGED <<rowVars, lapsed>>
      BY <1>4, <2>4 DEF ResetLock
    <3>2. QED
      BY <3>1, <2>1, <2>2, <1>t, QuietStep DEF rowVars, Inside
  <2>5. QED
    BY <2>3, <2>4
<1>5. ASSUME NEW p \in Procs, CreateRow(p) PROVE IInv'
  <2>1. UNCHANGED <<lock, session_id, timed_out, oid, sid, seen, lapsed>>
        /\ pc[p] = "create" /\ pc'[p] = "acquire"
    BY <1>5, <1>t DEF CreateRow, Goto, TypeOK
  <2>2. \A q \in Procs : q # p => pc'[q] = pc[q]
    BY <1>5, <1>t DEF CreateRow, Goto, TypeOK
  <2>3. CASE exists[oid[p]]
    BY <2>1, <2>2, <2>3, <1>5, <1>t, QuietStep
       DEF CreateRow, TypeOK, Inside
  <2>4. CASE ~exists[oid[p]]
    <3>1. \A o \in Oids : exists[o] => exists'[o]
      BY <1>5, <1>t DEF CreateRow, TypeOK
    <3>2. \A q \in Procs : Inside(q)' => Holds(q)'
      BY <3>1, <2>1, <2>2, <1>t DEF IInv, Holds, Inside, Matches, TypeOK
    <3>3. ASSUME NEW q \in Procs, pc'[q] = "reset", Matches(oid[q], seen[q])'
          PROVE  timed_out'[oid'[q]]
      <4>1. q # p /\ pc[q] = "reset" /\ oid[q] \in Oids
        BY <3>3, <2>1, <2>2, <1>t DEF TypeOK
      <4>2. Matches(oid[q], seen[q])
        BY <3>3, <4>1, <2>1 DEF Matches, IInv
      <4>3. QED
        BY <4>1, <4>2, <2>1 DEF IInv
    <3>4. \A o \in Oids : lock'[o] => exists'[o]
      BY <3>1, <2>1 DEF IInv
    <3>5. QED
      BY <3>2, <3>3, <3>4, <2>1, <2>2, <1>t DEF IInv, Inside, Matches
  <2>5. QED
    BY <2>3, <2>4
<1>6. ASSUME NEW p \in Procs, AcquireLock(p) PROVE IInv'
  <2>1. pc[p] = "acquire" /\ UNCHANGED <<oid, seen>> /\ ~Inside(p)
        /\ oid[p] \in Oids
    BY <1>6, <1>t DEF AcquireLock, Inside, TypeOK
  <2>2. CASE /\ ~(exists[oid[p]] /\ ~lock[oid[p]])
             /\ RetryAt(p, "acquire")
             /\ UNCHANGED <<rowVars, sid, lapsed>>
    <3>1. pc'[p] \in {"acquire", "idle"}
          /\ \A q \in Procs : q # p => pc'[q] = pc[q]
      BY <2>2, <1>t DEF RetryAt, TypeOK
    <3>2. QED
      BY <3>1, <2>1, <2>2, <1>t, QuietStep DEF rowVars, Inside
  <2>3. ASSUME exists[oid[p]], ~lock[oid[p]],
               NEW s \in FreshSids,
               sid' = [sid EXCEPT ![p] = s],
               session_id' = [session_id EXCEPT ![oid[p]] = s],
               lock' = [lock EXCEPT ![oid[p]] = TRUE],
               timed_out' = [timed_out EXCEPT ![oid[p]] = FALSE],
               lapsed' = [lapsed EXCEPT ![p] = FALSE],
               Goto(p, "body"),
               UNCHANGED exists
        PROVE  IInv'
    <3>1. pc'[p] = "body" /\ \A q \in Procs : q # p => pc'[q] = pc[q]
      BY <2>3, <1>t DEF Goto, TypeOK
    <3>2. /\ s \in Sids
          /\ \A o \in Oids : session_id[o] # s
          /\ \A q \in Procs : seen[q] # s
          /\ \A q \in Procs : Inside(q) => sid[q] # s
      BY DEF FreshSids, SidsInUse
    <3>3. Holds(p)'
      BY <2>1, <2>3, <3>1, <3>2, <1>t DEF Holds, Matches, TypeOK
    <3>4. ASSUME NEW q \in Procs, q # p, Inside(q)' PROVE Holds(q)'
      <4>1. Inside(q) /\ Holds(q) /\ oid[q] \in Oids /\ sid[q] # s
        BY <3>4, <3>1, <3>2, <1>t DEF Inside, IInv, TypeOK
      <4>2. sid'[q] = sid[q] /\ lapsed'[q] = lapsed[q] /\ oid'[q] = oid[q]
        BY <3>4, <2>1, <2>3, <1>t DEF TypeOK
      <4>3. \A o \in Oids : session_id'[o] = sid[q] => session_id[o] = sid[q]
        BY <2>3, <4>1, <1>t DEF TypeOK
      <4>4. Matches(oid[q], sid[q]) => Matches(oid[q], sid[q])'
        BY <2>1, <2>3, <4>1, <4>2, <1>t DEF Matches, TypeOK
      <4>5. QED
        BY <4>1, <4>2, <4>3, <4>4 DEF Holds, Matches
    <3>5. \A q, r \in Procs :
             q # r /\ Inside(q)' /\ Inside(r)' => sid'[q] # sid'[r]
      BY <2>3, <3>1, <3>2, <1>t DEF IInv, Inside, TypeOK
    <3>6. ASSUME NEW q \in Procs, pc'[q] = "reset", Matches(oid[q], seen[q])'
          PROVE  timed_out'[oid'[q]]
      <4>1. q # p /\ pc[q] = "reset" /\ oid[q] \in Oids /\ seen[q] # s
        BY <3>1, <3>2, <3>6, <1>t DEF TypeOK
      <4>2. oid[q] # oid[p]
        BY <2>1, <2>3, <3>6, <4>1, <1>t DEF Matches, TypeOK
      <4>3. Matches(oid[q], seen[q])
        BY <2>1, <2>3, <3>6, <4>1, <4>2, <1>t DEF Matches, TypeOK
      <4>4. QED
        BY <2>1, <2>3, <4>1, <4>2, <4>3, <1>t DEF IInv, TypeOK
    <3>7. \A o \in Oids : lock'[o] => exists'[o]
      BY <2>1, <2>3, <1>t DEF IInv, TypeOK
    <3>8. QED
      BY <3>3, <3>4, <3>5, <3>6, <3>7, <2>1, <1>t DEF IInv, Inside, Matches
  <2>4. QED
    BY <1>6, <2>2, <2>3 DEF AcquireLock
<1>7. ASSUME NEW p \in Procs, ReturnNested(p) PROVE IInv'
  BY <1>7, <1>t, QuietStep DEF ReturnNested, rowVars, Inside
<1>8. ASSUME NEW p \in Procs, LeaveBody(p) PROVE IInv'
  <2>1. UNCHANGED <<rowVars, oid, sid, seen, lapsed>>
        /\ pc[p] = "body" /\ pc'[p] = "release"
        /\ \A q \in Procs : q # p => pc'[q] = pc[q]
    BY <1>8, <1>t DEF LeaveBody, Goto, TypeOK
  <2>2. QED
    BY <2>1, <1>t, QuietStep DEF rowVars, Inside
<1>9. ASSUME NEW p \in Procs, ReleaseLock(p) PROVE IInv'
  <2>1. pc[p] = "release" /\ UNCHANGED <<oid, sid, seen, lapsed>>
        /\ Inside(p) /\ Holds(p) /\ oid[p] \in Oids
    BY <1>9, <1>t DEF ReleaseLock, Inside, TypeOK, IInv
  <2>2. CASE ~Matches(oid[p], sid[p]) /\ RetryAt(p, "release")
             /\ UNCHANGED rowVars
    <3>1. pc'[p] \in {"release", "idle"}
          /\ \A q \in Procs : q # p => pc'[q] = pc[q]
      BY <2>2, <1>t DEF RetryAt, TypeOK
    <3>2. QED
      BY <3>1, <2>1, <2>2, <1>t, QuietStep DEF rowVars, Inside
  <2>3. CASE Matches(oid[p], sid[p]) /\ Unlock(oid[p]) /\ Goto(p, "idle")
    <3>1. pc'[p] = "idle" /\ \A q \in Procs : q # p => pc'[q] = pc[q]
      BY <2>3, <1>t DEF Goto, TypeOK
    <3>2. ASSUME NEW q \in Procs, Inside(q)' PROVE Holds(q)'
      <4>1. q # p /\ Inside(q) /\ Holds(q) /\ oid[q] \in Oids
            /\ sid[q] # sid[p]
        BY <3>1, <3>2, <2>1, <1>t DEF Inside, IInv, TypeOK
      <4>2. \A o \in Oids : session_id'[o] = sid[q] => session_id[o] = sid[q]
        BY <2>1, <2>3, <4>1, <1>t DEF Unlock, TypeOK, Holds
      <4>3. Matches(oid[q], sid[q]) => oid[q] # oid[p]
        BY <2>3, <4>1 DEF Matches
      <4>4. Matches(oid[q], sid[q]) => Matches(oid[q], sid[q])'
        BY <2>1, <2>3, <4>1, <4>3, <1>t DEF Matches, Unlock, TypeOK
      <4>5. QED
        BY <4>1, <4>2, <4>4, <2>1 DEF Holds, Matches
    <3>3. ASSUME NEW q \in Procs, pc'[q] = "reset", Matches(oid[q], seen[q])'
          PROVE  timed_out'[oid'[q]]
      <4>1. q # p /\ pc[q] = "reset" /\ oid[q] \in Oids
        BY <3>1, <3>3, <1>t DEF TypeOK
      <4>2. oid[q] # oid[p]
        BY <2>1, <2>3, <3>3, <4>1, <1>t DEF Matches, Unlock, TypeOK
      <4>3. Matches(oid[q], seen[q])
        BY <2>1, <2>3, <3>3, <4>1, <4>2, <1>t DEF Matches, Unlock, TypeOK
      <4>4. QED
        BY <2>1, <2>3, <4>1, <4>2, <4>3, <1>t DEF IInv, Unlock, TypeOK
    <3>4. \A o \in Oids : lock'[o] => exists'[o]
      BY <2>1, <2>3, <1>t DEF IInv, Unlock, TypeOK
    <3>5. QED
      BY <3>1, <3>2, <3>3, <3>4, <2>1, <1>t DEF IInv, Inside, Matches
  <2>4. QED
    BY <1>9, <2>2, <2>3 DEF ReleaseLock
<1>10. ASSUME NEW p \in Procs, Crash(p) PROVE IInv'
  <2>1. UNCHANGED <<rowVars, oid, sid, lapsed>> /\ pc'[p] = "dead"
        /\ \A q \in Procs : q # p => pc'[q] = pc[q] /\ seen'[q] = seen[q]
    BY <1>10, <1>t DEF Crash, Goto, TypeOK
  <2>2. QED
    BY <2>1, <1>t, QuietStep DEF rowVars, Inside
<1>11. ASSUME NEW p \in Procs, Restart(p) PROVE IInv'
  <2>1. UNCHANGED <<rowVars, oid, sid, seen, lapsed>> /\ pc'[p] = "idle"
        /\ \A q \in Procs : q # p => pc'[q] = pc[q]
    BY <1>11, <1>t DEF Restart, Goto, TypeOK
  <2>2. QED
    BY <2>1, <1>t, QuietStep DEF rowVars, Inside
<1>12. ASSUME NEW o \in Oids, PassTtl(o) PROVE IInv'
  <2>1. \A x \in Oids : timed_out[x] => timed_out'[x]
    BY <1>12, <1>t DEF PassTtl, TypeOK
  <2>2. QED
    BY <1>12, <2>1, <1>t, QuietStep DEF PassTtl, procVars, Inside
<1>13. CASE UNCHANGED vars
  BY <1>13, <1>t, QuietStep DEF vars, rowVars, procVars, Inside
<1>14. ASSUME NEW p \in Procs, NEW o \in Oids, CallUnlocked(p, o) PROVE IInv'
  <2>1. ~Inside(p) /\ ~Inside(p)' /\ pc'[p] = "open"
    BY <1>14, <1>t DEF CallUnlocked, Goto, TypeOK, Inside
  <2>2. \A q \in Procs : q # p => pc'[q] = pc[q] /\ oid'[q] = oid[q]
    BY <1>14, <1>t DEF CallUnlocked, Goto, TypeOK
  <2>3. UNCHANGED <<rowVars, sid, seen, lapsed>>
    BY <1>14 DEF CallUnlocked
  <2>4. QED
    BY <1>t, <2>1, <2>2, <2>3 DEF IInv, Holds, Matches, Inside, rowVars
<1>15. ASSUME NEW p \in Procs, ReturnUnlocked(p) PROVE IInv'
  <2>1. UNCHANGED <<rowVars, oid, sid, seen, lapsed>> /\ pc'[p] = "idle"
        /\ \A q \in Procs : q # p => pc'[q] = pc[q]
    BY <1>15, <1>t DEF ReturnUnlocked, Goto, TypeOK
  <2>2. QED
    BY <2>1, <1>t, QuietStep DEF rowVars, Inside
<1>16. QED
  BY <1>1, <1>2, <1>3, <1>4, <1>5, <1>6, <1>7, <1>8, <1>9, <1>10, <1>11,
     <1>12, <1>13, <1>14, <1>15 DEF Next, Step, Calls

\* A step that takes the lock from the session holding it is that session's
\* release, or comes after the TTL.
LEMMA UnlockStep ==
  ASSUME IInv, [Next]_vars, NEW o \in Oids,
         lock[o], ~(lock'[o] /\ session_id'[o] = session_id[o])
  PROVE  \/ timed_out[o]
         \/ \E p \in Procs : /\ pc[p] = "release" /\ pc'[p] = "idle"
                             /\ oid[p] = o /\ sid[p] = session_id[o]
                             /\ ~lapsed[p]
<1>1. CASE UNCHANGED <<lock, session_id>>
  BY <1>1
<1>2. ASSUME NEW p \in Procs, ResetLock(p) PROVE timed_out[o]
  <2>1. CASE UNCHANGED rowVars
    BY <2>1 DEF rowVars
  <2>2. CASE Matches(oid[p], seen[p]) /\ Unlock(oid[p])
    <3>1. oid[p] = o
      BY <2>2 DEF Unlock, IInv, TypeOK
    <3>2. QED
      BY <3>1, <1>2, <2>2 DEF IInv, ResetLock
  <2>3. QED
    BY <1>2, <2>1, <2>2 DEF ResetLock
<1>3. ASSUME NEW p \in Procs, AcquireLock(p) PROVE FALSE
  BY <1>3 DEF AcquireLock, rowVars, IInv, TypeOK
<1>4. ASSUME NEW p \in Procs, ReleaseLock(p)
      PROVE /\ pc[p] = "release" /\ pc'[p] = "idle"
            /\ oid[p] = o /\ sid[p] = session_id[o] /\ ~lapsed[p]
  <2>1. CASE UNCHANGED rowVars
    BY <2>1 DEF rowVars
  <2>2. CASE Matches(oid[p], sid[p]) /\ Unlock(oid[p]) /\ Goto(p, "idle")
    <3>1. oid[p] = o /\ pc[p] = "release" /\ pc'[p] = "idle"
      BY <1>4, <2>2 DEF Unlock, Goto, ReleaseLock, IInv, TypeOK
    <3>2. Holds(p)
      BY <3>1 DEF IInv, Inside
    <3>3. QED
      BY <3>1, <3>2, <2>2 DEF Holds, Matches
  <2>3. QED
    BY <1>4, <2>1, <2>2 DEF ReleaseLock
<1>5. QED
  BY <1>1, <1>2, <1>3, <1>4
     DEF Next, Step, Calls, CallLocked, CallUnlocked, CallNested, TestObject,
         CreateRow, ReturnNested, ReturnUnlocked, LeaveBody, Crash, Restart,
         PassTtl, vars, rowVars, procVars

\* The lock table and the workers keep their types, for any number of
\* workers, objects and retries.
THEOREM TypeCorrect == Spec => []TypeOK
<1>1. Init => TypeOK
  BY InitIInv DEF IInv
<1>2. QED
  BY <1>1, TypeStep, PTL DEF Spec

\* The strengthened invariant holds in every reachable state.
THEOREM Invariance == Spec => []IInv
  BY InitIInv, NextIInv, PTL DEF Spec

\* wrap_db_lock excludes two workers from the same object unless the TTL
\* reset the lock of one of them.
THEOREM LockExcludes == Spec => []MutualExclusion
<1>1. IInv => MutualExclusion
  <2>1. SUFFICES ASSUME IInv, NEW p \in Procs, NEW q \in Procs, p # q,
                        Inside(p), Inside(q), oid[p] = oid[q],
                        ~lapsed[p], ~lapsed[q]
                 PROVE  FALSE
    BY DEF MutualExclusion
  <2>2. Matches(oid[p], sid[p]) /\ Matches(oid[q], sid[q])
    BY <2>1 DEF IInv, Holds
  <2>3. sid[p] # sid[q]
    BY <2>1 DEF IInv
  <2>4. QED
    BY <2>1, <2>2, <2>3 DEF Matches
<1>2. QED
  BY <1>1, Invariance, PTL

\* The compare-and-swaps of _lock_free_update never free the lock of a
\* session that neither released it nor let its TTL pass.
THEOREM UnlockSafe == Spec => OnlyOwnerOrTtlUnlocks
<1> DEFINE A == \A o \in Oids :
         lock[o] /\ ~(lock'[o] /\ session_id'[o] = session_id[o]) =>
            \/ timed_out[o]
            \/ \E p \in Procs : /\ pc[p] = "release" /\ pc'[p] = "idle"
                                /\ oid[p] = o /\ sid[p] = session_id[o]
                                /\ ~lapsed[p]
<1>1. IInv /\ [Next]_vars => [A]_vars
  BY UnlockStep
<1>2. QED
  BY <1>1, Invariance, PTL DEF Spec, OnlyOwnerOrTtlUnlocks
=============================================================================
