----------------------------- MODULE MechDriver -----------------------------
(***************************************************************************)
(* The mechanism driver of Neutron (neutron/ml2/mech_driver.py): workers   *)
(* commit requests to the database of Neutron, then a handler brings the   *)
(* northbound database up to date, with the object as it was when          *)
(* committed or as it is read again.  NbApi.update reads a row, merges the *)
(* fields that are set, and writes it: other handlers run in between.      *)
(* wrap_db_lock is meant to lock the object for the handler, but as the    *)
(* code is (own_frame, see LockedObjects) takes no lock; the model has     *)
(* both, the lock that is meant and the code without it.                   *)
(*                                                                         *)
(* One network with a subnet, one port, one security group; data stands    *)
(* for the fields of an object other than its version.  The database of    *)
(* Neutron is external: a commit is one step and raises the revision.      *)
(***************************************************************************)
EXTENDS Naturals, FiniteSets

CONSTANTS
    Workers,    \* threads of the Neutron servers
    Data,       \* what the fields of an object may be
    None,
    MaxCommits, \* bound on requests
    MaxFaults   \* bound on failing calls of the northbound database

Objects == {"network", "subnet", "port", "group"}
Ops == {"create", "update", "status", "rule", "delete"}

VARIABLES
    scope,      \* the objects requests are about
    topicless,  \* the port belongs to no tenant (a floating IP's)
    own_frame,  \* wrap_db_lock takes no lock
    neutron,    \* [Objects -> [rev, data], or None]
    nb,         \* [Objects -> [version, data], or None]
    born,       \* objects that were created in Neutron
    holder,     \* [Objects -> Workers or None]: who has the lock
    job,        \* [Workers -> the request in progress, or None]
    seen,       \* history: the newest revision handled of each object
    late,       \* history: objects one of whose handlers was overtaken
    dead,       \* history: objects whose creation and deletion were handled
    last,       \* history: data last written by the network's own handlers
    commits, faults
fixed == <<scope, topicless, own_frame>>
histVars == <<seen, late, dead, last>>
vars == <<fixed, neutron, nb, born, holder, job, histVars, commits, faults>>

Revs == 0 .. MaxCommits + 1
Versions == 0 .. 2 * MaxCommits + 1
Rows == [version : Versions, data : Data] \cup {None}
Jobs == [op : Ops, obj : Objects, rev : Revs, data : Data \cup {None},
         net : Revs, read : Rows,
         pc : {"lock", "start", "get", "set", "get_net", "set_net", "release",
               "raise", "commit"}]

\* Both databases, the locks and the requests keep their type.
TypeOK ==
    /\ scope \subseteq Objects /\ topicless \in BOOLEAN /\ own_frame \in BOOLEAN
    /\ \A o \in Objects : neutron[o] # None =>
           neutron[o].rev \in Revs /\ neutron[o].data \in Data
    /\ \A o \in Objects : nb[o] \in Rows
    /\ born \subseteq Objects /\ late \subseteq Objects /\ dead \subseteq born
    /\ holder \in [Objects -> Workers \cup {None}]
    /\ \A w \in Workers : job[w] = None \/ job[w] \in Jobs
    /\ seen \in [Objects -> Revs] /\ last \in Data \cup {None}
    /\ commits \in 0 .. MaxCommits /\ faults \in 0 .. MaxFaults

Init ==
    /\ scope \in {{"network", "subnet"}, {"network", "port"}, {"group"}}
    /\ topicless \in BOOLEAN /\ (topicless => "port" \in scope)
    /\ own_frame \in BOOLEAN
    /\ neutron = [o \in Objects |-> None] /\ nb = [o \in Objects |-> None]
    /\ born = {} /\ holder = [o \in Objects |-> None]
    /\ job = [w \in Workers |-> None]
    /\ seen = [o \in Objects |-> 0] /\ late = {} /\ dead = {} /\ last = None
    /\ commits = 0 /\ faults = 0

----------------------------------------------------------------------------
(* Requests. *)

\* Mutant: the handlers of a subnet lock the subnet.
LockOwn(o) == o

\* What is locked: _get_lock_id_by_resource_type.
LockOf(o) == IF o = "subnet" THEN "network" ELSE o

Rev(o) == IF neutron[o] = None THEN 0 ELSE neutron[o].rev

\* Neutron's own rules: a subnet and a port need their network.
Allowed(op, o) ==
    /\ op = "create" => /\ o \notin born
                        /\ o \in {"subnet", "port"} => neutron["network"] # None
    /\ op # "create" => neutron[o] # None
    /\ op = "status" => o = "port"
    /\ op = "rule" => o = "group"
    /\ op = "delete" /\ o = "network" =>
           neutron["subnet"] = None /\ neutron["port"] = None

\* A request is committed, and its handler gets the object as committed; a
\* change of a subnet raises the revision of its network too.  The deletion of
\* a security group is announced before it is committed.
Commit(w, op, o) ==
    /\ job[w] = None /\ o \in scope /\ Allowed(op, o)
    /\ commits < MaxCommits /\ commits' = commits + 1
    /\ \E data \in Data :
         LET rev == Rev(o) + 1
             old == neutron[o]
             new == [rev |-> rev,
                     data |-> IF op = "status" THEN old.data ELSE data]
             raised == IF o = "subnet"
                       THEN [neutron EXCEPT !["network"].rev = @ + 1]
                       ELSE neutron
         IN  /\ op = "delete" => data = old.data
             /\ op = "status" => data = old.data
             /\ op \in {"update", "rule"} => data # old.data
             /\ neutron' = IF op = "delete"
                           THEN IF o = "group" THEN neutron
                                ELSE [raised EXCEPT ![o] = None]
                           ELSE [raised EXCEPT ![o] = new]
             /\ job' = [job EXCEPT ![w] =
                   [op |-> op, obj |-> o, rev |-> rev, data |-> new.data,
                    net |-> IF o = "subnet" THEN Rev("network") + 1 ELSE 0,
                    pc |-> "lock", read |-> None]]
    /\ born' = IF op = "create" THEN born \cup {o} ELSE born
    /\ UNCHANGED <<nb, holder, histVars, faults>>

----------------------------------------------------------------------------
(* The lock of a handler. *)

At(w, pc) == job[w] # None /\ job[w].pc = pc
Goto(w, pc) == job' = [job EXCEPT ![w].pc = pc]

\* A handler whose object was handled at a newer revision came too late.
Enter(w) ==
    LET o == job[w].obj IN
    /\ At(w, "lock") /\ Goto(w, "start")
    /\ seen' = [seen EXCEPT ![o] = IF job[w].rev > @ THEN job[w].rev ELSE @]
    /\ late' = IF job[w].rev < seen[o] /\ job[w].op # "rule"
               THEN late \cup {o} ELSE late
    /\ UNCHANGED <<neutron, nb, born, dead, last, commits,
                   faults>>

Acquire(w) ==
    /\ ~own_frame /\ At(w, "lock") /\ holder[LockOf(job[w].obj)] = None
    /\ holder' = [holder EXCEPT ![LockOf(job[w].obj)] = w]
    /\ Enter(w)

\* is_within_wrapper finds the frame of the call itself.
SkipLock(w) == own_frame /\ Enter(w) /\ UNCHANGED holder

\* All attempts to take the lock fail: the handler does not run, and a
\* deletion that was announced is not committed.
LockFails(w) ==
    /\ At(w, "lock") /\ holder[LockOf(job[w].obj)] # None
    /\ faults < MaxFaults /\ faults' = faults + 1
    /\ job' = [job EXCEPT ![w] = None] /\ late' = late \cup {job[w].obj}
    /\ UNCHANGED <<neutron, nb, born, holder, seen, dead,
                   last, commits>>

----------------------------------------------------------------------------
(* What the handlers call. *)

Starts(w, o, ops) == At(w, "start") /\ job[w].obj = o /\ job[w].op \in ops

\* The handler ends without having done its work.
Fail(w) ==
    /\ Goto(w, "raise") /\ late' = late \cup {job[w].obj}
    /\ UNCHANGED <<nb, dead, last>>

\* Without the lock, a handler may write object o when this was handled at a
\* newer revision meanwhile, or is not as it was read.
Marked(o, overtaken) ==
    late' = IF own_frame /\ overtaken THEN late \cup {o} ELSE late

\* NbApi.create.
NbCreate(w, pc) ==
    /\ nb' = [nb EXCEPT ![job[w].obj] =
                  [version |-> job[w].rev, data |-> job[w].data]]
    /\ last' = IF job[w].obj = "network" THEN job[w].data ELSE last
    /\ Marked(job[w].obj, job[w].rev < seen[job[w].obj])
    /\ Goto(w, pc) /\ UNCHANGED dead

\* NbApi.update reads the row, and raises if it is not there.
NbUpdate(w) ==
    /\ job' = IF nb[job[w].obj] = None THEN [job EXCEPT ![w].pc = "raise"]
              ELSE [job EXCEPT ![w] =
                        [@ EXCEPT !.pc = "set", !.read = nb[job[w].obj]]]
    /\ UNCHANGED <<nb, late, dead, last>>

\* NbApi.delete: some drivers raise DBKeyNotFound if the row is not there.
NbDelete(w, pc, missing) ==
    LET o == job[w].obj IN
    /\ nb' = [nb EXCEPT ![o] = None]
    /\ dead' = IF nb[o] # None THEN dead \cup {o} ELSE dead
    /\ last' = IF o = "network" THEN None ELSE last
    /\ \E raises \in {FALSE, nb[o] = None} :
           job' = [job EXCEPT ![w] =
                      [@ EXCEPT !.pc = IF raises THEN missing ELSE pc,
                                !.net = Rev("network")]]
    /\ UNCHANGED late

unhandled == <<neutron, born, holder, seen, commits, faults>>

----------------------------------------------------------------------------
(* Handlers of networks, subnets and ports. *)

CreateNetworkPostcommit(w) ==
    Starts(w, "network", {"create"}) /\ NbCreate(w, "release")
    /\ UNCHANGED unhandled

UpdateNetworkPostcommit(w) ==
    Starts(w, "network", {"update"}) /\ NbUpdate(w) /\ UNCHANGED unhandled

DeleteNetworkPostcommit(w) ==
    Starts(w, "network", {"delete"}) /\ NbDelete(w, "release", "release")
    /\ UNCHANGED unhandled

CreateSubnetPostcommit(w) ==
    Starts(w, "subnet", {"create"}) /\ NbCreate(w, "get_net")
    /\ UNCHANGED unhandled

UpdateSubnetPostcommit(w) ==
    Starts(w, "subnet", {"update"}) /\ NbUpdate(w) /\ UNCHANGED unhandled

\* The network is read from Neutron, where it may be gone as well.
DeleteSubnetPostcommit(w) ==
    /\ Starts(w, "subnet", {"delete"})
    /\ IF neutron["network"] = None THEN Fail(w)
       ELSE NbDelete(w, "get_net", "release")
    /\ UNCHANGED unhandled

\* _get_lswitch_topic: a port that belongs to no tenant takes the topic of its
\* network, and its handler raises when the network is not there.
NoTopic == topicless /\ nb["network"] = None

CreatePortPostcommit(w) ==
    /\ Starts(w, "port", {"create"})
    /\ IF NoTopic THEN Fail(w) ELSE NbCreate(w, "release")
    /\ UNCHANGED unhandled

\* A row that is gone ends the handler, and so does a change of the status if
\* the notifier is there to tell Neutron of it.
UpdatePortPostcommit(w) ==
    /\ Starts(w, "port", {"update", "status"})
    /\ \/ /\ nb["port"] = None \/ job[w].op = "status"
          /\ Goto(w, "release") /\ UNCHANGED <<nb, late, dead, last>>
       \/ nb["port"] # None /\ NoTopic /\ Fail(w)
       \/ nb["port"] # None /\ ~NoTopic /\ NbUpdate(w)
    /\ UNCHANGED unhandled

DeletePortPostcommit(w) ==
    /\ Starts(w, "port", {"delete"})
    /\ IF NoTopic THEN Fail(w) ELSE NbDelete(w, "release", "release")
    /\ UNCHANGED unhandled

----------------------------------------------------------------------------
(* Handlers of security groups. *)

UpdateSecurityGroup(w) ==
    /\ \/ Starts(w, "group", {"create"}) /\ NbCreate(w, "release")
       \/ Starts(w, "group", {"update"}) /\ NbUpdate(w)
    /\ UNCHANGED unhandled

DeleteSecurityGroup(w) ==
    Starts(w, "group", {"delete"}) /\ NbDelete(w, "release", "raise")
    /\ UNCHANGED unhandled

\* Mutant: the handler of a rule uses the group as committed.
ReadGroupCommitted(w) ==
    Starts(w, "group", {"rule"}) /\ Goto(w, "get")
    /\ UNCHANGED <<unhandled, nb, late, dead, last>>

\* create_security_group_rule and delete_security_group_rule read the group
\* again; it may be gone by now.
ReadGroup(w) ==
    /\ Starts(w, "group", {"rule"})
    /\ job' = IF neutron["group"] = None
              THEN [job EXCEPT ![w].pc = "raise"]
              ELSE [job EXCEPT ![w] =
                        [@ EXCEPT !.pc = "get",
                                  !.rev = neutron["group"].rev,
                                  !.data = neutron["group"].data]]
    /\ UNCHANGED <<unhandled, nb, late, dead, last>>

UpdateGroup(w) == At(w, "get") /\ NbUpdate(w) /\ UNCHANGED unhandled

----------------------------------------------------------------------------
(* The rest of the handlers. *)

\* The row with the fields of the request; nothing is written if none changes,
\* and a version that did not change is raised (Version.on_update_pre).
Merged(row, version, data) ==
    IF row.version = version /\ row.data # data
    THEN [version |-> version + 1, data |-> data]
    ELSE [version |-> version, data |-> data]

Set(w) ==
    /\ At(w, "set")
    /\ LET o == job[w].obj IN
       /\ nb' = [nb EXCEPT ![o] = Merged(job[w].read, job[w].rev, job[w].data)]
       /\ last' = IF o = "network" THEN job[w].data ELSE last
       /\ Marked(o, job[w].rev < seen[o] \/ nb[o] # job[w].read)
       /\ Goto(w, IF o = "subnet" THEN "get_net" ELSE "release")
    /\ UNCHANGED <<unhandled, dead>>

\* The second row of the handlers of a subnet: the version of the network.
GetNetwork(w) ==
    /\ At(w, "get_net")
    /\ job' = IF nb["network"] = None THEN [job EXCEPT ![w].pc = "release"]
              ELSE [job EXCEPT ![w] =
                        [@ EXCEPT !.pc = "set_net", !.read = nb["network"]]]
    /\ UNCHANGED <<neutron, nb, born, holder, histVars,
                   commits, faults>>

SetNetwork(w) ==
    /\ At(w, "set_net")
    /\ nb' = [nb EXCEPT !["network"] =
                  [version |-> job[w].net, data |-> job[w].read.data]]
    /\ Marked("network", nb["network"] # job[w].read)
    /\ Goto(w, "release")
    /\ UNCHANGED <<unhandled, dead, last>>

\* The lock is released, also by an exception, which keeps a group in Neutron.
Release(w) ==
    /\ At(w, "release") \/ At(w, "raise")
    /\ holder' = [holder EXCEPT ![LockOf(job[w].obj)] = None]
    /\ job' = IF /\ At(w, "release")
                 /\ job[w].obj = "group" /\ job[w].op = "delete"
              THEN [job EXCEPT ![w].pc = "commit"] ELSE [job EXCEPT ![w] = None]
    /\ UNCHANGED <<neutron, nb, born, histVars, commits,
                   faults>>

\* Neutron deletes the group, or finds that it is in use after all.
CommitDelete(w) ==
    /\ At(w, "commit")
    /\ \/ /\ neutron' = [neutron EXCEPT !["group"] = None]
          /\ UNCHANGED <<late, faults>>
       \/ /\ faults < MaxFaults /\ faults' = faults + 1
          /\ late' = late \cup {"group"} /\ UNCHANGED neutron
    /\ job' = [job EXCEPT ![w] = None]
    /\ UNCHANGED <<nb, born, holder, seen, dead, last,
                   commits>>

\* A call of the northbound database fails: the handler raises.
NbFails(w) ==
    /\ faults < MaxFaults /\ faults' = faults + 1
    /\ \E pc \in {"start", "get", "set", "get_net", "set_net"} : At(w, pc)
    /\ Goto(w, "raise") /\ late' = late \cup {job[w].obj}
    /\ UNCHANGED <<neutron, nb, born, holder, seen, dead,
                   last, commits>>

Handle(w) ==
    \/ CreateNetworkPostcommit(w) \/ UpdateNetworkPostcommit(w)
    \/ DeleteNetworkPostcommit(w)
    \/ CreateSubnetPostcommit(w) \/ UpdateSubnetPostcommit(w)
    \/ DeleteSubnetPostcommit(w)
    \/ CreatePortPostcommit(w) \/ UpdatePortPostcommit(w)
    \/ DeletePortPostcommit(w)
    \/ UpdateSecurityGroup(w) \/ DeleteSecurityGroup(w)
    \/ ReadGroup(w) \/ UpdateGroup(w)

Next ==
    /\ \E w \in Workers :
          \/ \E op \in Ops, o \in Objects : Commit(w, op, o)
          \/ Acquire(w) \/ SkipLock(w) \/ LockFails(w)
          \/ Handle(w)
          \/ Set(w) \/ GetNetwork(w) \/ SetNetwork(w)
          \/ Release(w) \/ CommitDelete(w) \/ NbFails(w)
    /\ UNCHANGED fixed

Spec == Init /\ [][Next]_vars

----------------------------------------------------------------------------
(* Properties. *)

Idle(o) == \A w \in Workers : job[w] = None \/ job[w].obj # o

\* When the handlers of an object are done, the northbound database has what
\* Neutron has, if no handler failed, came after one of a newer revision or,
\* without the lock, wrote a row that others had changed since it was read.
\* Under the lock the handlers of security group rules may come in any order:
\* they read the group again.
NeutronFollowed ==
    \A o \in Objects \ late : Idle(o) =>
        IF neutron[o] = None THEN nb[o] = None
        ELSE nb[o] # None /\ nb[o].data = neutron[o].data

\* The handlers of subnets, which read and write the whole row of the network
\* for the sake of its version, never undo what a handler of the network
\* wrote, in whatever order they run, if they lock the network.
NetworkKept ==
    nb["network"] # None => nb["network"].data = last

\* An object whose creation and deletion were handled does not come back if
\* its handlers lock it: an update that was committed before finds no row, and
\* no update is between its reading and its writing when the object is
\* deleted.
DeletedStaysDeleted == \A o \in dead : nb[o] = None

\* What the handlers of DFMechDriver owe to the lock, if they take it.
LockedRowsKept == NetworkKept /\ DeletedStaysDeleted
=============================================================================
