------------------------------- MODULE Aging -------------------------------
(***************************************************************************)
(* The flows a restarted controller finds in the switch                    *)
(* (controller/apps/aging.py).  The switch keeps its flows while the       *)
(* controller is away.  One bit of the cookie of every flow says in which  *)
(* synchronisation it was written; a canary flow keeps the bit in use.     *)
(* CONTROLLER_SWITCH_SYNC_STARTED inverts it, and some seconds after       *)
(* CONTROLLER_SWITCH_SYNC_FINISHED the flows with the other bit go.  A     *)
(* starting controller goes through this twice: once when it reads the     *)
(* switch database, once when the switch connects.                         *)
(*                                                                         *)
(* mod_flow puts the bit into the cookie and the mask of all it sends, so  *)
(* an application's deletion only matches flows with the bit in use.       *)
(* Cookies shows that the other bits of a cookie do not interfere.         *)
(***************************************************************************)
EXTENDS Naturals, Sequences
LOCAL INSTANCE SequencesExt

CONSTANTS
    Ports,      \* objects with flows that come from the switch database
    None,
    MaxFaults,  \* bound on crashes, restarts of the switch, lost replies
    MaxChanges  \* bound on ports plugged and unplugged

VARIABLES
    plugged,    \* the ports of the switch database
    canary,     \* the bit of the canary flow, or None
    flows,      \* [Owners -> {0, 1, None}]: the bit of its flow
    pc,         \* how far the controller has started
    queue,      \* events, oldest first
    cached,     \* ports in db_store
    do_aging, aging_cookie, \* of AgingApp
    timers,     \* calls of _start_aging that are due
    fresh,      \* history: what was written since the last sync started
    removed,    \* history: ports whose flows this controller took out
    faults, changes
switchVars == <<plugged, canary, flows>>
appVars == <<do_aging, aging_cookie, timers>>
vars == <<switchVars, pc, queue, cached, appVars, fresh, removed,
          faults, changes>>

\* What has flows: ports, the tables of the applications, and the edges between
\* applications (Datapath).
Owners == Ports \cup {"static", "edges"}
Bits == {0, 1}
Events == {<<"sync_started">>, <<"sync_finished">>}
          \cup {"set", "delete"} \X Ports

\* The state of the switch and of the application keeps its type.
TypeOK ==
    /\ plugged \subseteq Ports /\ canary \in Bits \cup {None}
    /\ flows \in [Owners -> Bits \cup {None}]
    /\ pc \in {"down", "starting", "connected", "written", "ready"}
    /\ queue \in Seq(Events) /\ cached \subseteq Ports
    /\ do_aging \in BOOLEAN /\ aging_cookie \in Bits /\ timers \in 0 .. 2
    /\ fresh \subseteq Owners /\ removed \subseteq Ports
    /\ faults \in 0 .. MaxFaults /\ changes \in 0 .. MaxChanges

Init ==
    /\ plugged \in SUBSET Ports /\ canary = None
    /\ flows = [o \in Owners |-> None]
    /\ pc = "down" /\ queue = <<>> /\ cached = {}
    /\ do_aging = TRUE /\ aging_cookie = 0 /\ timers = 0
    /\ fresh = {} /\ removed = {} /\ faults = 0 /\ changes = 0

----------------------------------------------------------------------------
(* The start of the controller. *)

\* OvsApi.initialize: the rows of the switch database between two marks.
InitializeOvs(q) ==
    \E order \in SetToSeqs(plugged) :
        queue' = q \o <<<<"sync_started">>>>
                   \o [i \in DOMAIN order |-> <<"set", order[i]>>]
                   \o <<<<"sync_finished">>>>

\* DfOvsDriver.start, up to the wait for the switch.
Start ==
    /\ pc = "down" /\ pc' = "starting"
    /\ InitializeOvs(<<>>)
    /\ do_aging' = TRUE /\ aging_cookie' = 0 /\ timers' = 0
    /\ cached' = {} /\ fresh' = {} /\ removed' = {}
    /\ UNCHANGED <<switchVars, faults, changes>>

\* The datapath is known: the main thread may handle events from now on.
Connect ==
    /\ pc = "starting" /\ pc' = "connected"
    /\ UNCHANGED <<switchVars, queue, cached, appVars, fresh, removed,
                   faults, changes>>

\* switch_features_handler: the flows of the edges, which do not go through
\* mod_flow and have cookie 0, and those of the tables.
WriteStatic ==
    /\ pc = "connected" /\ pc' = "written"
    /\ flows' = [flows EXCEPT !["edges"] = 0, !["static"] = aging_cookie]
    /\ fresh' = fresh \cup {"static"}
    /\ UNCHANGED <<plugged, canary, queue, cached, appVars, removed,
                   faults, changes>>

\* The end of switch_features_handler: the switch database is read again.
ReadAgain ==
    /\ pc = "written" /\ pc' = "ready"
    /\ InitializeOvs(queue)
    /\ UNCHANGED <<switchVars, cached, appVars, fresh, removed, faults, changes>>

----------------------------------------------------------------------------
(* AgingApp. *)

InvertCookie(bit) == 1 - bit

\* Mutant: a canary flow that is there is not written again.
SwitchSyncKeepsCanary(found) ==
    /\ do_aging' = (found # None)
    /\ aging_cookie' = IF found = None THEN 1 ELSE InvertCookie(found)
    /\ canary' = IF found = None THEN 1 ELSE found
    /\ fresh' = {}

\* _get_canary_flow, where get_flows gives nothing if the reply is late.
SwitchSyncStarted(found) ==
    /\ do_aging' = (found # None)
    /\ aging_cookie' = IF found = None THEN 1 ELSE InvertCookie(found)
    /\ canary' = aging_cookie'
    /\ fresh' = {}

\* _start_aging is spawned.
SwitchSyncFinished == timers' = IF do_aging THEN timers + 1 ELSE timers

\* _cleanup_flows: what has the inverse of the bit in use goes.
Aged(f) == [o \in Owners |-> IF f[o] = InvertCookie(aging_cookie)
                             THEN None ELSE f[o]]

StartAging ==
    /\ timers > 0 /\ timers' = timers - 1
    /\ flows' = Aged(flows)
    /\ UNCHANGED <<plugged, canary, pc, queue, cached, do_aging, aging_cookie,
                   fresh, removed, faults, changes>>

----------------------------------------------------------------------------
(* The main thread and the applications. *)

HandleSyncStarted ==
    /\ pc \in {"connected", "written", "ready"}
    /\ queue # <<>> /\ Head(queue) = <<"sync_started">>
    /\ \/ SwitchSyncStarted(canary) /\ faults' = faults
       \/ faults < MaxFaults /\ SwitchSyncStarted(None) /\ faults' = faults + 1
    /\ queue' = Tail(queue)
    /\ UNCHANGED <<plugged, flows, pc, cached, timers, removed, changes>>

HandleSyncFinished ==
    /\ pc \in {"connected", "written", "ready"}
    /\ queue # <<>> /\ Head(queue) = <<"sync_finished">>
    /\ SwitchSyncFinished
    /\ queue' = Tail(queue)
    /\ UNCHANGED <<switchVars, pc, cached, do_aging, aging_cookie, fresh,
                   removed, faults, changes>>

\* update_model_object: a port that is cached as it is emits nothing.
HandleSet ==
    /\ pc \in {"connected", "written", "ready"}
    /\ queue # <<>> /\ Head(queue)[1] = "set"
    /\ LET port == Head(queue)[2] IN
       IF port \in cached
       THEN UNCHANGED <<flows, cached, fresh, removed>>
       ELSE /\ flows' = [flows EXCEPT ![port] = aging_cookie]
            /\ cached' = cached \cup {port}
            /\ fresh' = fresh \cup {port} /\ removed' = removed \ {port}
    /\ queue' = Tail(queue)
    /\ UNCHANGED <<plugged, canary, pc, appVars, faults, changes>>

\* A deletion matches the bit in use.
ModFlowDelete(port) == [flows EXCEPT ![port] = IF @ = aging_cookie THEN None ELSE @]

HandleDelete ==
    /\ pc \in {"connected", "written", "ready"}
    /\ queue # <<>> /\ Head(queue)[1] = "delete"
    /\ LET port == Head(queue)[2] IN
       IF port \notin cached
       THEN UNCHANGED <<flows, cached, fresh, removed>>
       ELSE /\ flows' = ModFlowDelete(port)
            /\ cached' = cached \ {port}
            /\ fresh' = fresh \ {port} /\ removed' = removed \cup {port}
    /\ queue' = Tail(queue)
    /\ UNCHANGED <<plugged, canary, pc, appVars, faults, changes>>

----------------------------------------------------------------------------
(* The surroundings. *)

\* The IDL reports a change while the controller runs.
Plug(port) ==
    /\ changes < MaxChanges /\ changes' = changes + 1
    /\ plugged' = (plugged \cup {port}) \ (plugged \cap {port})
    /\ queue' = IF pc = "down" THEN queue
                ELSE Append(queue, <<IF port \in plugged THEN "delete" ELSE "set",
                                     port>>)
    /\ UNCHANGED <<canary, flows, pc, cached, appVars, fresh, removed, faults>>

\* The controller stops; the switch, in fail mode secure, keeps its flows.
Crash ==
    /\ pc # "down" /\ faults < MaxFaults /\ faults' = faults + 1
    /\ pc' = "down" /\ queue' = <<>> /\ timers' = 0 /\ cached' = {}
    /\ fresh' = {} /\ removed' = {}
    /\ UNCHANGED <<switchVars, do_aging, aging_cookie, changes>>

\* The switch restarts while no controller is connected.
SwitchRestart ==
    /\ pc \in {"down", "starting"} /\ faults < MaxFaults /\ faults' = faults + 1
    /\ flows' = [o \in Owners |-> None] /\ canary' = None
    /\ UNCHANGED <<plugged, pc, queue, cached, appVars, fresh, removed, changes>>

Next ==
    \/ Start \/ Connect \/ WriteStatic \/ ReadAgain \/ StartAging
    \/ HandleSyncStarted \/ HandleSyncFinished \/ HandleSet \/ HandleDelete
    \/ \E port \in Ports : Plug(port)
    \/ Crash \/ SwitchRestart

Spec == Init /\ [][Next]_vars

----------------------------------------------------------------------------
(* Properties. *)

\* Aging deletes no flow written since the last synchronisation started, not
\* even when it was due from an earlier one: _start_aging looks at the bit in
\* use when it runs, not when it was spawned.  (The flows of edges, whose bit
\* is always 0, go when it runs while the bit in use is 1.)
FreshKept ==
    timers' < timers /\ pc' = pc =>
        \A o \in fresh : flows[o] # None => flows'[o] # None

\* Once a start came to rest after aging, every flow has the bit of the canary
\* flow, whatever earlier starts left behind when they were interrupted: so the
\* next start can tell its flows from these (switch_sync_started).
OneCookieLeft ==
    pc = "ready" /\ queue = <<>> /\ timers = 0 /\ do_aging =>
        /\ canary = aging_cookie
        /\ \A o \in Owners : flows[o] \in {None, canary}

\* A port this controller took out has no flow left once aging is over,
\* although mod_flow's deletion only matches the bit in use.  (When the
\* canary flow cannot be read, there is no aging, and flows written before
\* may be out of reach until the next start.)
RemovedFlowsGone ==
    pc = "ready" /\ queue = <<>> /\ timers = 0 /\ do_aging =>
        \A port \in removed : flows[port] = None

\* Aging removes the flows of earlier starts and of ports that are gone, all of
\* them in the end, and never a flow just written.  (Before the first step the
\* controller is down and there is no flow.)
AgingStep == OneCookieLeft' /\ RemovedFlowsGone' /\ FreshKept
AgingExact == [][AgingStep]_vars
=============================================================================
