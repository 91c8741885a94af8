----------------------------- MODULE Publishers -----------------------------
(***************************************************************************)
(* How a compute node comes to listen to a publisher service, and how it   *)
(* stops.  A publisher service (controller/df_publisher_service.py) keeps  *)
(* a row of the publisher table with the time of its last activity; every  *)
(* service runs a monitor (db/pub_sub_api.py) that deletes stale rows of   *)
(* others and publishes the changes of the table; a compute node           *)
(* (controller/df_local_controller.py) registers the addresses it hears of *)
(* and those it finds in the table when it synchronizes.                   *)
(*                                                                         *)
(* One service is followed.  Time passes in ticks; a deadline that is due  *)
(* (a queue timeout, a periodic synchronization) is met before the next    *)
(* tick.  A monitor takes any time between two requests to the database.   *)
(***************************************************************************)
EXTENDS Naturals

CONSTANTS
    Monitors,    \* the monitors of the publisher table
    Own,         \* the one that runs inside the followed service
    None,
    Timeout,     \* publisher_timeout
    RateLimit,   \* publisher_rate_limit_timeout
    SyncTime,    \* db_sync_time of the compute node
    MaxCrashes   \* bound: crashes of the followed service

VARIABLES
    alive,       \* the service runs
    waited,      \* time since its main loop began to wait for an event
    passed,      \* time since its rate limiter let an update pass, or None
    rec,         \* age of the timestamp in its row, or None without a row
    mon,         \* the monitors: pc, and their cache of the row
    store,       \* the compute node has the publisher in its db_store
    heard,       \* the publisher's address is in the subscriber's uri_list
    slept,       \* time since the node's last synchronization
    unheard,     \* how long a live publisher has been missing in uri_list
    crashes

vars == <<alive, waited, passed, rec, mon, store, heard, slept, unheard,
          crashes>>

Wait == Timeout \div 2

\* The longest time between two updates of the row.
Refresh == RateLimit + Wait

\* bound: an age beyond this tells nothing more
MaxAge == Refresh + Timeout + SyncTime + 1

Age == 0..MaxAge
Older(a) == IF a = None \/ a = MaxAge THEN a ELSE a + 1

\* A monitor that got an exception from the database is "dead": the looping
\* call that runs it has ended.
TypeOK ==
    /\ {alive, store, heard} \subseteq BOOLEAN
    /\ waited \in 0..Wait
    /\ passed \in Age \cup {None}
    /\ rec \in Age \cup {None}
    /\ mon \in [Monitors ->
                    [pc : {"idle", "scan", "stale", "list", "poll", "dead"},
                     cache : {"missing", "same", "changed"}]]
    /\ slept \in 0..SyncTime
    /\ unheard \in Age
    /\ crashes \in 0..MaxCrashes

Init ==
    /\ alive = FALSE
    /\ waited = 0
    /\ passed = None
    /\ rec = None
    /\ mon = [m \in Monitors |-> [pc |-> IF m = Own THEN "dead" ELSE "idle",
                                  cache |-> "missing"]]
    /\ store = FALSE
    /\ heard \in BOOLEAN
    /\ slept = 0
    /\ unheard = 0
    /\ crashes = 0

-----------------------------------------------------------------------------
(* The publisher service *)

\* The row is written: what the monitors have cached is no longer its value.
WriteRow(ms) ==
    /\ rec' = 0
    /\ mon' = [m \in Monitors |->
                  [ms[m] EXCEPT !.cache = IF @ = "same" THEN "changed" ELSE @]]

\* The service starts and registers; its monitor starts with an empty cache.
_register_as_publisher ==
    /\ ~alive
    /\ alive' = TRUE
    /\ waited' = 0
    /\ passed' = None
    /\ WriteRow([mon EXCEPT ![Own] = [pc |-> "idle", cache |-> "missing"]])
    /\ unheard' = 0
    /\ UNCHANGED <<store, heard, slept, crashes>>

Crash ==
    /\ alive
    /\ crashes < MaxCrashes
    /\ crashes' = crashes + 1
    /\ alive' = FALSE
    /\ mon' = [mon EXCEPT ![Own].pc = "dead"]
    /\ unheard' = 0
    /\ UNCHANGED <<waited, passed, rec, store, heard, slept>>

\* RateLimiter.__call__, with one update per time unit.
Limited == passed # None /\ passed <= RateLimit

\* The row is updated, or created again when it was removed.
_update_timestamp_in_db ==
    IF Limited
    THEN UNCHANGED <<passed, rec, mon>>
    ELSE passed' = 0 /\ WriteRow(mon)

\* An event was published, or waiting for one timed out.
MainLoop ==
    /\ alive
    /\ waited' = 0
    /\ _update_timestamp_in_db
    /\ UNCHANGED <<alive, store, heard, slept, unheard, crashes>>

PublishEvent == waited < Wait /\ MainLoop
QueueTimeout == waited = Wait /\ MainLoop

-----------------------------------------------------------------------------
(* The compute node *)

\* Mutant: the age of a row is not looked at.
Registered == rec # None

\* Publisher.is_stale, which on_get_all_post applies to what get_all returns.
Fresh == rec # None /\ rec <= Timeout

\* Mutant: publishers are not synchronized.
SyncSkipsPublishers == slept' = 0 /\ UNCHANGED <<store, heard>>

\* A synchronization updates the publishers it finds, then deletes those of
\* db_store it did not find (update_publisher, delete_publisher).
Sync ==
    /\ store' = Fresh
    /\ heard' = (Fresh \/ (heard /\ ~store))
    /\ slept' = 0

PeriodicSync ==
    /\ slept = SyncTime
    /\ Sync
    /\ UNCHANGED <<alive, waited, passed, rec, mon, unheard, crashes>>

\* An event about the row: update_publisher.  It may be lost.
HandleUpdate ==
    \/ store' = TRUE /\ heard' = TRUE /\ UNCHANGED slept
    \/ UNCHANGED <<store, heard, slept>>

\* An event about its deletion: delete_publisher gets an object without uri,
\* for which unregister_listen_address raises; the controller synchronizes
\* unless its rate limiter forbids it.
HandleDelete == Sync \/ UNCHANGED <<store, heard, slept>>

-----------------------------------------------------------------------------
(* The monitors *)

MonitorAt(m, pc, cache) ==
    mon' = [mon EXCEPT ![m] = [pc |-> pc, cache |-> cache]]

MonitorGoes(m, pc) == MonitorAt(m, pc, mon[m].cache)

\* StalePublisherMonitor._poll_once lists the rows, ...
ListForStale(m) ==
    /\ mon[m].pc = "idle"
    /\ MonitorGoes(m, IF rec = None THEN "list" ELSE "scan")
    /\ UNCHANGED <<alive, waited, passed, rec, store, heard, slept, unheard,
                   crashes>>

\* ... reads each, which raises when the row is gone by now, ...
ReadForStale(m) ==
    /\ mon[m].pc = "scan"
    /\ MonitorGoes(m, CASE rec = None -> "dead"
                        [] m # Own /\ rec > Timeout -> "stale"
                        [] OTHER -> "list")
    /\ UNCHANGED <<alive, waited, passed, rec, store, heard, slept, unheard,
                   crashes>>

\* ... and deletes the stale ones, whatever they have become.
DeleteStale(m) ==
    /\ mon[m].pc = "stale"
    /\ rec' = None
    /\ MonitorGoes(m, "list")
    /\ UNCHANGED <<alive, waited, passed, store, heard, slept, unheard, crashes>>

\* TableMonitor._poll_once lists the rows; one that is cached and not listed
\* was deleted.
ListTable(m) ==
    /\ mon[m].pc = "list"
    /\ \/ rec # None /\ MonitorGoes(m, "poll")
          /\ UNCHANGED <<store, heard, slept>>
       \/ rec = None /\ MonitorAt(m, "idle", "missing")
          /\ IF mon[m].cache = "missing" THEN UNCHANGED <<store, heard, slept>>
                                         ELSE HandleDelete
    /\ UNCHANGED <<alive, waited, passed, rec, unheard, crashes>>

\* It reads each row and publishes those that are new or changed.
PollRow(m) ==
    /\ mon[m].pc = "poll"
    /\ \/ rec = None /\ MonitorGoes(m, "dead")
          /\ UNCHANGED <<store, heard, slept>>
       \/ rec # None /\ MonitorAt(m, "idle", "same")
          /\ IF mon[m].cache = "same" THEN UNCHANGED <<store, heard, slept>>
                                      ELSE HandleUpdate
    /\ UNCHANGED <<alive, waited, passed, rec, unheard, crashes>>

-----------------------------------------------------------------------------
Tick ==
    /\ alive => waited < Wait
    /\ slept < SyncTime
    /\ waited' = IF alive THEN waited + 1 ELSE waited
    /\ passed' = Older(passed)
    /\ rec' = Older(rec)
    /\ slept' = slept + 1
    /\ unheard' = IF alive /\ ~heard THEN Older(unheard) ELSE 0
    /\ UNCHANGED <<alive, mon, store, heard, crashes>>

MonitorStep(m) == \/ ListForStale(m) \/ ReadForStale(m) \/ DeleteStale(m)
                  \/ ListTable(m) \/ PollRow(m)

Next ==
    \/ _register_as_publisher \/ Crash
    \/ PublishEvent \/ QueueTimeout
    \/ PeriodicSync
    \/ \E m \in Monitors : MonitorStep(m)
    \/ Tick

Spec == Init /\ [][Next]_vars

\* Time passes and what is due happens.
Fairness == WF_vars(Tick) /\ WF_vars(QueueTimeout) /\ WF_vars(PeriodicSync)

-----------------------------------------------------------------------------
(* Properties *)

\* A running service updates its row at least every RateLimit + Timeout / 2,
\* however its events are spaced: a call that the rate limiter refuses does
\* not put off the next one (PublisherService.run, RateLimiter.__call__).
RowRefreshed ==
    alive => /\ rec # None => rec <= Refresh
             /\ passed # None => passed <= Refresh

\* A compute node that lost a running publisher, because its row grew stale or
\* a monitor deleted the row just after it was updated, listens to it again
\* after one refresh and one synchronization; a service that has just started
\* may wait once more (_update_timestamp_in_db, update_publisher,
\* StalePublisherMonitor._poll_once).
LivePublisherHeard == alive => unheard <= Wait + Refresh + SyncTime

\* The addresses of the publishers in db_store are in uri_list, so that
\* delete_publisher does not raise while the node synchronizes, which would
\* end the controller's main loop (unregister_listen_address).
UnregisterSafe == store => heard

\* A node keeps listening to a service that runs: the row is refreshed in time,
\* a publisher that was lost is found again, and losing it raises nothing.
ServiceHeard == RowRefreshed /\ LivePublisherHeard /\ UnregisterSafe

\* A publisher that stopped is forgotten by the compute node, for good, even
\* when monitors still announce its row (on_get_all_post).
DeadForgotten == <>[](~alive) => <>[](~store)
=============================================================================
