--------------------------- MODULE LockedObjects ---------------------------
(***************************************************************************)
(* The distributed lock of the Neutron plugin                              *)
(* (dragonflow/db/neutron/lockedobjects_db.py).                            *)
(*                                                                         *)
(* API workers of several neutron-server processes protect the handlers    *)
(* that write to the northbound database with a row per locked object in   *)
(* the Neutron SQL database.  A row carries (lock, session_id,             *)
(* created_at); every UPDATE stamps created_at.  Each SQL statement is     *)
(* atomic, but the test of the TTL, its reset, the creation of the row,    *)
(* the acquisition and the release are separate statements, so those of    *)
(* other workers fall between them.                                        *)
(*                                                                         *)
(* Time is abstracted to one bit per row: timed_out[o] says that           *)
(* created_at is older than distributed_lock_ttl.                          *)
(*                                                                         *)
(* is_within_wrapper looks for a frame of wrap_db_lock on the stack, and   *)
(* always finds that of the very call it is asked for: as the code is      *)
(* (own_frame), no call takes the lock.  What its comment means, to find   *)
(* the frame of an outer call, is the other initial state.                 *)
(***************************************************************************)
EXTENDS Naturals, FiniteSets

CONSTANTS
    Procs,        \* API workers that call a wrap_db_lock function
    Oids,         \* lock ids: ids of networks, ports, routers, tenants, ...
    Sids,         \* session ids, randint(0, LOCK_SEED)
    NoSid,        \* the session id 0 of a free row
    NoOid,        \* no nested call in progress
    MaxRetries    \* LOCK_MAX_RETRIES

ASSUME NoSidAssumption == NoSid \notin Sids
ASSUME NoOidAssumption == NoOid \notin Oids
ASSUME MaxRetriesAssumption == MaxRetries \in Nat

VARIABLES
    own_frame,    \* is_within_wrapper finds the frame of its own call
    exists,       \* exists[o]: table dflockedobjects has a row for o
    lock,         \* column lock
    session_id,   \* column session_id
    timed_out,    \* created_at is older than distributed_lock_ttl
    pc,           \* where worker p is in wrap_db_lock.lock()
    oid,          \* the lock_id of p's call
    sid,          \* p's session_id
    seen,         \* row.session_id as read by p's _test_and_create_object
    tries,        \* retries of the wrap_db_retry function p is in
    inner,        \* lock_id of a wrapped function p calls from its body
    lapsed        \* history: p's lock was reset under it

rowVars  == <<exists, lock, session_id, timed_out>>
procVars == <<pc, oid, sid, seen, tries, inner, lapsed>>
vars     == <<own_frame, rowVars, procVars>>

PCs == {"idle", "test", "reset", "create", "acquire", "body", "release",
        "open", "dead"}

TypeOK ==
    /\ exists \in [Oids -> BOOLEAN]
    /\ lock \in [Oids -> BOOLEAN]
    /\ session_id \in [Oids -> Sids \cup {NoSid}]
    /\ timed_out \in [Oids -> BOOLEAN]
    /\ pc \in [Procs -> PCs]
    /\ oid \in [Procs -> Oids \cup {NoOid}]
    /\ \A p \in Procs : pc[p] \notin {"idle", "dead"} => oid[p] \in Oids
    /\ sid \in [Procs -> Sids \cup {NoSid}]
    /\ seen \in [Procs -> Sids \cup {NoSid}]
    /\ tries \in [Procs -> 0 .. MaxRetries]
    /\ inner \in [Procs -> Oids \cup {NoOid}]
    /\ lapsed \in [Procs -> BOOLEAN]

Init ==
    /\ own_frame \in BOOLEAN
    /\ exists = [o \in Oids |-> FALSE]
    /\ lock = [o \in Oids |-> FALSE]
    /\ session_id = [o \in Oids |-> NoSid]
    /\ timed_out = [o \in Oids |-> FALSE]
    /\ pc = [p \in Procs |-> "idle"]
    /\ oid = [p \in Procs |-> NoOid]
    /\ sid = [p \in Procs |-> NoSid]
    /\ seen = [p \in Procs |-> NoSid]
    /\ tries = [p \in Procs |-> 0]
    /\ inner = [p \in Procs |-> NoOid]
    /\ lapsed = [p \in Procs |-> FALSE]

----------------------------------------------------------------------------
(* The lock table. *)

\* _lock_free_update(lock_state=True): the compare-and-swap that releases or
\* resets the lock o, which matches no row unless session s holds it.
Matches(o, s) == exists[o] /\ lock[o] /\ session_id[o] = s

Unlock(o) ==
    /\ lock' = [lock EXCEPT ![o] = FALSE]
    /\ session_id' = [session_id EXCEPT ![o] = NoSid]
    /\ timed_out' = [timed_out EXCEPT ![o] = FALSE]
    /\ UNCHANGED exists

\* Workers that run the protected code of a lock they acquired.
Inside(p) == pc[p] \in {"body", "release"}

\* Session ids somebody still remembers.  randint over ten decimal digits is
\* modelled (_generate_session_id) as never repeating one of these.
SidsInUse ==
    {session_id[o] : o \in Oids} \cup {seen[p] : p \in Procs}
        \cup {sid[p] : p \in {q \in Procs : Inside(q)}}

FreshSids == Sids \ SidsInUse

\* Mutant: the number of retries is not limited.
RetryCountForever(p, again) ==
    /\ tries' = [tries EXCEPT ![p] = IF @ > MaxRetries THEN @ ELSE @ + 1]
    /\ pc' = [pc EXCEPT ![p] = again]

\* Mutant: the retries are not counted.
RetryUncounted(p, again) ==
    /\ tries' = tries
    /\ pc' = [pc EXCEPT ![p] = again]

\* wrap_db_retry around a failed compare-and-swap of p: sleep and call the
\* function again at label `again', or raise when the retries are used up.
\* Raising ends the call: the exception leaves lock(), or is logged.
RetryAt(p, again) ==
    \/ /\ tries[p] < MaxRetries
       /\ tries' = [tries EXCEPT ![p] = @ + 1]
       /\ pc' = [pc EXCEPT ![p] = again]
    \/ /\ tries[p] = MaxRetries
       /\ tries' = [tries EXCEPT ![p] = 0]
       /\ pc' = [pc EXCEPT ![p] = "idle"]

Goto(p, label) ==
    /\ pc' = [pc EXCEPT ![p] = label]
    /\ tries' = [tries EXCEPT ![p] = 0]

----------------------------------------------------------------------------
(* wrap_db_lock.lock, one action per SQL transaction. *)

\* A handler decorated with wrap_db_lock is called from outside any other:
\* is_within_wrapper() is false and _get_lock_id_by_resource_type gives o.
CallLocked(p, o) ==
    /\ pc[p] = "idle" /\ ~own_frame
    /\ Goto(p, "test")
    /\ oid' = [oid EXCEPT ![p] = o]
    /\ UNCHANGED <<rowVars, sid, seen, inner, lapsed>>

\* is_within_wrapper() finds the call itself: the handler runs without lock.
CallUnlocked(p, o) ==
    /\ pc[p] = "idle" /\ own_frame
    /\ Goto(p, "open")
    /\ oid' = [oid EXCEPT ![p] = o]
    /\ UNCHANGED <<rowVars, sid, seen, inner, lapsed>>

ReturnUnlocked(p) ==
    /\ pc[p] = "open" /\ inner[p] = NoOid
    /\ Goto(p, "idle")
    /\ UNCHANGED <<rowVars, oid, sid, seen, inner, lapsed>>

\* _test_and_create_object reads the row and decides.
TestObject(p) ==
    /\ pc[p] = "test"
    /\ \/ /\ ~exists[oid[p]]
          /\ Goto(p, "create")
          /\ UNCHANGED seen
       \/ /\ exists[oid[p]]
          /\ lock[oid[p]] /\ timed_out[oid[p]]
          /\ seen' = [seen EXCEPT ![p] = session_id[oid[p]]]
          /\ pc' = [pc EXCEPT ![p] = "reset"]
          /\ UNCHANGED tries
       \/ /\ exists[oid[p]]
          /\ ~(lock[oid[p]] /\ timed_out[oid[p]])
          /\ Goto(p, "acquire")
          /\ UNCHANGED seen
    /\ UNCHANGED <<rowVars, oid, sid, inner, lapsed>>

\* Mutant: the reset updates the row by its id only.
ResetLockUnconditionally(p) ==
    /\ pc[p] = "reset"
    /\ Unlock(oid[p])
    /\ lapsed' = [q \in Procs |->
                    lapsed[q] \/ (Inside(q) /\ oid[q] = oid[p])]
    /\ Goto(p, "acquire")
    /\ seen' = [seen EXCEPT ![p] = NoSid]
    /\ UNCHANGED <<oid, sid, inner>>

\* ... resets a lock that timed out.  The holder, if it still runs, is not
\* told: the history variable lapsed records that it lost its lock.
ResetLock(p) ==
    /\ pc[p] = "reset"
    /\ \/ /\ Matches(oid[p], seen[p])
          /\ Unlock(oid[p])
          /\ lapsed' = [q \in Procs |->
                          \/ lapsed[q]
                          \/ /\ Inside(q)
                             /\ oid[q] = oid[p]
                             /\ sid[q] = seen[p]]
          /\ Goto(p, "acquire")
       \/ /\ ~Matches(oid[p], seen[p])
          /\ RetryAt(p, "test")
          /\ UNCHANGED <<rowVars, lapsed>>
    /\ seen' = [seen EXCEPT ![p] = NoSid]
    /\ UNCHANGED <<oid, sid, inner>>

\* ... or inserts the missing row; DBDuplicateEntry is ignored.
CreateRow(p) ==
    /\ pc[p] = "create"
    /\ exists' = [exists EXCEPT ![oid[p]] = TRUE]
    /\ Goto(p, "acquire")
    /\ UNCHANGED <<lock, session_id, timed_out, oid, sid, seen, inner, lapsed>>

\* Mutant: the acquiring UPDATE does not filter on lock = False.
AcquireHeldLock(p) ==
    /\ pc[p] = "acquire" /\ exists[oid[p]]
    /\ \E s \in FreshSids :
          /\ sid' = [sid EXCEPT ![p] = s]
          /\ session_id' = [session_id EXCEPT ![oid[p]] = s]
    /\ lock' = [lock EXCEPT ![oid[p]] = TRUE]
    /\ timed_out' = [timed_out EXCEPT ![oid[p]] = FALSE]
    /\ lapsed' = [lapsed EXCEPT ![p] = FALSE]
    /\ Goto(p, "body")
    /\ UNCHANGED <<exists, oid, seen, inner>>

\* _acquire_lock: a fresh session id at every attempt.
AcquireLock(p) ==
    /\ pc[p] = "acquire"
    /\ \/ /\ exists[oid[p]] /\ ~lock[oid[p]]
          /\ \E s \in FreshSids :
                /\ sid' = [sid EXCEPT ![p] = s]
                /\ session_id' = [session_id EXCEPT ![oid[p]] = s]
          /\ lock' = [lock EXCEPT ![oid[p]] = TRUE]
          /\ timed_out' = [timed_out EXCEPT ![oid[p]] = FALSE]
          /\ lapsed' = [lapsed EXCEPT ![p] = FALSE]
          /\ Goto(p, "body")
          /\ UNCHANGED exists
       \/ /\ ~(exists[oid[p]] /\ ~lock[oid[p]])
          /\ RetryAt(p, "acquire")
          /\ UNCHANGED <<rowVars, sid, lapsed>>
    /\ UNCHANGED <<oid, seen, inner>>

\* The handler calls another wrapped function, of object o: the frame
\* inspection of is_within_wrapper finds the outer wrapper and the inner
\* function runs without a lock of its own.
CallNested(p, o) ==
    /\ pc[p] \in {"body", "open"} /\ inner[p] = NoOid
    /\ inner' = [inner EXCEPT ![p] = o]
    /\ UNCHANGED <<rowVars, pc, oid, sid, seen, tries, lapsed>>

ReturnNested(p) ==
    /\ pc[p] \in {"body", "open"} /\ inner[p] # NoOid
    /\ inner' = [inner EXCEPT ![p] = NoOid]
    /\ UNCHANGED <<rowVars, pc, oid, sid, seen, tries, lapsed>>

\* The protected handler returns or raises; `finally' starts the release.
LeaveBody(p) ==
    /\ pc[p] = "body" /\ inner[p] = NoOid
    /\ Goto(p, "release")
    /\ UNCHANGED <<rowVars, oid, sid, seen, inner, lapsed>>

\* _release_lock; a release that never matches is logged and dropped.
ReleaseLock(p) ==
    /\ pc[p] = "release"
    /\ \/ /\ Matches(oid[p], sid[p])
          /\ Unlock(oid[p])
          /\ Goto(p, "idle")
       \/ /\ ~Matches(oid[p], sid[p])
          /\ RetryAt(p, "release")
          /\ UNCHANGED rowVars
    /\ UNCHANGED <<oid, sid, seen, inner, lapsed>>

\* The neutron-server process of p dies, possibly holding the lock, and is
\* started again.
Crash(p) ==
    /\ pc[p] \notin {"idle", "dead"}
    /\ Goto(p, "dead")
    /\ seen' = [seen EXCEPT ![p] = NoSid]
    /\ inner' = [inner EXCEPT ![p] = NoOid]
    /\ UNCHANGED <<rowVars, oid, sid, lapsed>>

Restart(p) ==
    /\ pc[p] = "dead"
    /\ Goto(p, "idle")
    /\ UNCHANGED <<rowVars, oid, sid, seen, inner, lapsed>>

\* distributed_lock_ttl seconds pass since the last UPDATE of row o.
PassTtl(o) ==
    /\ lock[o] /\ ~timed_out[o]
    /\ timed_out' = [timed_out EXCEPT ![o] = TRUE]
    /\ UNCHANGED <<exists, lock, session_id, procVars>>

\* The statements p runs by itself from the call to the end of the release.
Step(p) ==
    /\ \/ TestObject(p)
       \/ ResetLock(p)
       \/ CreateRow(p)
       \/ AcquireLock(p)
       \/ ReleaseLock(p)
    /\ UNCHANGED own_frame

Calls(p) ==
    /\ \/ \E o \in Oids :
             CallLocked(p, o) \/ CallUnlocked(p, o) \/ CallNested(p, o)
       \/ ReturnNested(p) \/ ReturnUnlocked(p)
       \/ LeaveBody(p)
       \/ Crash(p)
       \/ Restart(p)
    /\ UNCHANGED own_frame

Next ==
    \/ \E p \in Procs : Calls(p) \/ Step(p)
    \/ \E o \in Oids : PassTtl(o) /\ UNCHANGED own_frame

\* A worker thread runs: nothing is assumed of how long a body takes, of
\* crashes, or of the clock.
Fairness == \A p \in Procs : WF_vars(Step(p))

Spec == Init /\ [][Next]_vars /\ Fairness

----------------------------------------------------------------------------
(* Properties. *)

\* Two workers inside the code protected by the same lock: at least one of
\* them outlived distributed_lock_ttl and had its lock reset.  This is what
\* the three separate statements test / reset / acquire and the session id
\* compare-and-swap have to add up to.
MutualExclusion ==
    \A p, q \in Procs :
        /\ p # q /\ Inside(p) /\ Inside(q) /\ oid[p] = oid[q]
        => lapsed[p] \/ lapsed[q]

\* A lock is taken from the session that holds it by that session's own
\* release, or after the TTL has passed since it was acquired: never by the
\* late release of a worker whose lock was reset before, nor by a reset that
\* was decided on an earlier session of the row.
OnlyOwnerOrTtlUnlocks ==
    [][\A o \in Oids :
         lock[o] /\ ~(lock'[o] /\ session_id'[o] = session_id[o]) =>
            \/ timed_out[o]
            \/ \E p \in Procs : /\ pc[p] = "release" /\ pc'[p] = "idle"
                                /\ oid[p] = o /\ sid[p] = session_id[o]
                                /\ ~lapsed[p]]_vars

\* Entering a lock always comes to an end, whatever the other workers do:
\* every chain of test, reset, create and acquire with its retries leads to
\* the protected code or to an exception.
EntryEnds ==
    \A p \in Procs :
        pc[p] \in {"test", "reset", "create", "acquire"}
            ~> pc[p] \in {"body", "idle", "dead"}

\* A call that starts when the lock has timed out (its holder crashed, or is
\* stuck) frees it: only the end of a session resets the clock of the row.
StaleLockReset ==
    \A p \in Procs, o \in Oids :
        (pc[p] = "test" /\ oid[p] = o /\ lock[o] /\ timed_out[o])
            ~> (~timed_out[o] \/ pc[p] = "dead")

\* Workers that want a lock make progress (wrap_db_lock, _lock_object): none is
\* kept waiting for ever, and a lock left behind is freed.
LockProgress == EntryEnds /\ StaleLockReset

\* keep_db_consistency.rst: the lock prevents concurrent write operations on
\* the same records.  As the code is, no call takes it; and a nested call is
\* meant to write its object without its lock.
Writing(p) ==
    IF pc[p] \in {"body", "open"} THEN {oid[p], inner[p]} \ {NoOid} ELSE {}

NoConcurrentWrites ==
    \A p, q \in Procs :
        p # q /\ Writing(p) \cap Writing(q) # {} => lapsed[p] \/ lapsed[q]
=============================================================================
