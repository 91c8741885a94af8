-------------------------- MODULE MechDriverProofs --------------------------
(***************************************************************************)
(* Proofs about MechDriver for any number of workers, requests and         *)
(* failures, from the lemmas about the kinds of steps.                     *)
(***************************************************************************)
EXTENDS MechDriverLemmas

----------------------------------------------------------------------------
(* The calls of handlers. *)

\* The object of a request, which was not deleted if a row is there.
LEMMA JobFacts ==
    ASSUME IInv, NEW w \in Workers, job[w] # None
    PROVE  /\ job[w] \in Job /\ job[w].obj \in Objects
           /\ nb[job[w].obj] # None =>
                  job[w].obj \in born /\ job[w].obj \notin dead
BY DEF IInv, Types, Job, RowsBorn, DeletedStaysDeleted

\* A handler that fails keeps the invariant.
LEMMA FailKeeps ==
    ASSUME IInv, NoneApart, NEW w \in Workers, job[w] # None,
           job[w].pc \notin {"lock", "commit"}, Fail(w), UNCHANGED unhandled
    PROVE  IInv'
<1>1. Moves(w, "raise")
  BY GotoMoves DEF IInv, Fail, PCs
<1> QED BY <1>1, QuietKeeps DEF Fail, unhandled, PCs

\* NbApi.create keeps the invariant.
LEMMA NbCreateKeeps ==
    ASSUME IInv, NoneApart, NEW w \in Workers, At(w, "start"),
           job[w].op = "create", NEW x \in {"release", "get_net"},
           x = "get_net" => job[w].obj = "subnet",
           NbCreate(w, x), UNCHANGED unhandled
    PROVE  IInv'
<1> DEFINE row == [version |-> job[w].rev, data |-> job[w].data]
<1>1. job[w] # None /\ job[w].pc = "start"
  BY DEF At
<1>2. job[w] \in Job /\ job[w].obj \in Objects
  BY <1>1, JobFacts
<1>3. row \in Row /\ row.data = job[w].data
  BY <1>2 DEF Job, Row
<1>4. Moves(w, x)
  BY <1>1, GotoMoves DEF IInv, NbCreate, PCs
<1>5. job[w].obj \in born /\ job[w].obj \notin dead
  BY <1>1, Parts DEF Creates
<1>6. /\ nb' = [nb EXCEPT ![job[w].obj] = row]
      /\ last' = IF job[w].obj = "network" THEN row.data ELSE last
      /\ UNCHANGED <<neutron, holder, born, dead>>
  BY <1>3 DEF NbCreate, unhandled
<1> HIDE DEF row
<1> QED BY <1>1, <1>2, <1>3, <1>4, <1>5, <1>6, WriteKeeps, Zenon

\* The reading of NbApi.update keeps the invariant.
LEMMA NbUpdateKeeps ==
    ASSUME IInv, NoneApart, NEW w \in Workers, job[w] # None,
           job[w].pc \notin {"lock", "commit"}, NbUpdate(w), UNCHANGED unhandled
    PROVE  IInv'
<1>a. UNCHANGED <<neutron, nb, holder, born, dead, last>>
  BY DEF NbUpdate, unhandled
<1>1. CASE nb[job[w].obj] = None
  <2>1. Moves(w, "raise")
    BY <1>1, GotoMoves, Zenon DEF IInv, NbUpdate, Goto, PCs
  <2> QED BY <1>a, <2>1, QuietKeeps DEF PCs
<1>2. CASE nb[job[w].obj] # None
  <2> DEFINE j == [job[w] EXCEPT !.pc = "set", !.read = nb[job[w].obj]]
  <2>1. job[w] \in Job /\ nb[job[w].obj] \in Row
    BY <1>2, JobFacts DEF IInv, Types
  <2>2. /\ j \in Job /\ j.op = job[w].op /\ j.obj = job[w].obj
        /\ j.pc = "set"
    BY <2>1, Zenon DEF Job, PCs
  <2>3. job' = [job EXCEPT ![w] = j]
    BY <1>2 DEF NbUpdate
  <2> HIDE DEF j
  <2>4. Moves(w, "set")
    BY <2>2, <2>3 DEF IInv, Types, Moves, NoneApart
  <2> QED BY <1>a, <1>2, <2>4, QuietKeeps DEF PCs
<1> QED BY <1>1, <1>2

\* NbApi.delete keeps the invariant.
LEMMA NbDeleteKeeps ==
    ASSUME IInv, NoneApart, NEW w \in Workers, job[w] # None,
           job[w].pc \notin {"lock", "commit"},
           NEW x \in {"release", "get_net"}, NEW y \in {"release", "raise"},
           x = "get_net" => job[w].obj = "subnet",
           NbDelete(w, x, y), UNCHANGED unhandled
    PROVE  IInv'
<1>1. PICK raises \in BOOLEAN :
          job' = [job EXCEPT ![w] = [@ EXCEPT !.pc = IF raises THEN y ELSE x,
                                              !.net = Rev("network")]]
  BY DEF NbDelete
<1> DEFINE z == IF raises THEN y ELSE x
           j == [job[w] EXCEPT !.pc = z, !.net = Rev("network")]
<1>2. job[w] \in Job /\ job[w].obj \in Objects
  BY JobFacts
<1>3. Rev("network") \in Nat
  BY DEF IInv, Types, Rev, NeutronRow, Objects
<1>4. z \in {"release", "raise", "get_net"} /\ (z = "get_net" => z = x)
  OBVIOUS
<1>5. job' = [job EXCEPT ![w] = j]
  BY <1>1
<1> HIDE DEF z
<1>6. j \in Job /\ j.op = job[w].op /\ j.obj = job[w].obj /\ j.pc = z
  BY <1>2, <1>3, <1>4, Zenon DEF Job, PCs
<1> HIDE DEF j
<1>7. Moves(w, z)
  BY <1>5, <1>6 DEF IInv, Types, Moves, NoneApart
<1>8. /\ nb' = [nb EXCEPT ![job[w].obj] = None]
      /\ dead' = IF nb[job[w].obj] # None THEN dead \cup {job[w].obj} ELSE dead
      /\ job[w].obj # "network" => last' = last
      /\ UNCHANGED <<neutron, holder, born>>
  BY DEF NbDelete, unhandled
<1> QED BY <1>2, <1>4, <1>7, <1>8, DeleteKeeps, Zenon

----------------------------------------------------------------------------
(* The steps of Next. *)

\* What Neutron commits has its type, and a subnet keeps its network.
LEMMA CommitTypes ==
    ASSUME IInv, NoneApart, NEW w \in Workers, NEW op \in Ops,
           NEW o \in Objects, Commit(w, op, o)
    PROVE  /\ Types'
           /\ job'[w] # None /\ job'[w].op = op /\ job'[w].obj = o
           /\ job'[w].pc = "lock"
           /\ \A v \in Workers : v # w => job'[v] = job[v]
<1> DEFINE old == neutron[o]
           rev == Rev(o) + 1
           net == IF o = "subnet" THEN Rev("network") + 1 ELSE 0
           raised == IF o = "subnet"
                     THEN [neutron EXCEPT !["network"].rev = @ + 1] ELSE neutron
<1>1. PICK data \in Data :
        LET new == [rev |-> rev,
                    data |-> IF op = "status" THEN old.data ELSE data]
        IN  /\ neutron' = IF op = "delete"
                          THEN IF o = "group" THEN neutron
                               ELSE [raised EXCEPT ![o] = None]
                          ELSE [raised EXCEPT ![o] = new]
            /\ job' = [job EXCEPT ![w] =
                  [op |-> op, obj |-> o, rev |-> rev, data |-> new.data,
                   net |-> net, pc |-> "lock", read |-> None]]
  BY Zenon DEF Commit
<1> DEFINE new == [rev |-> rev,
                   data |-> IF op = "status" THEN old.data ELSE data]
           j == [op |-> op, obj |-> o, rev |-> rev, data |-> new.data,
                 net |-> net, pc |-> "lock", read |-> None]
<1>2. neutron \in [Objects -> NeutronRow \cup {None}]
      /\ (neutron["subnet"] # None => neutron["network"] # None)
  BY DEF IInv, Types
<1>3. rev \in Nat /\ net \in Nat
  BY <1>2 DEF Rev, NeutronRow, Objects
<1>4. Allowed(op, o)
  BY DEF Commit
<1>5. op # "create" => old \in NeutronRow
  BY <1>2, <1>4 DEF Allowed
<1>6. new \in NeutronRow
  BY <1>3, <1>5 DEF NeutronRow
<1>7. new.data \in Data
  BY <1>6 DEF NeutronRow
<1>8. o = "subnet" => neutron["network"] \in NeutronRow
  BY <1>2, <1>4 DEF Allowed, Objects
<1>9. raised \in [Objects -> NeutronRow \cup {None}]
      /\ \A p \in Objects : (raised[p] = None) <=> (neutron[p] = None)
  <2>1. CASE o = "subnet"
    <3> DEFINE row == [neutron["network"] EXCEPT !.rev = @ + 1]
    <3>1. row \in NeutronRow
      BY <1>8, <2>1 DEF NeutronRow
    <3>2. row # None /\ neutron["network"] # None
      BY <1>8, <2>1, <3>1 DEF NoneApart
    <3>3. raised = [neutron EXCEPT !["network"] = row]
      BY <2>1
    <3> HIDE DEF row, raised
    <3> QED BY <1>2, <3>1, <3>2, <3>3 DEF Objects
  <2>2. CASE o # "subnet"
    BY <1>2, <2>2
  <2> QED BY <2>1, <2>2
<1>10. j \in Job
  BY <1>3, <1>7 DEF Job, PCs
<1>11. /\ j.op = op /\ j.obj = o /\ j.pc = "lock"
       /\ job' = [job EXCEPT ![w] = j]
  BY <1>1
<1>12. \/ neutron' = neutron
       \/ op = "delete" /\ neutron' = [raised EXCEPT ![o] = None]
       \/ op # "delete" /\ neutron' = [raised EXCEPT ![o] = new]
  BY <1>1
<1>13. new # None
  BY <1>6 DEF NoneApart
<1> HIDE DEF j, new, raised, rev, net, old
<1>14. neutron' \in [Objects -> NeutronRow \cup {None}]
  BY <1>2, <1>6, <1>9, <1>12
<1>15. neutron'["subnet"] # None => neutron'["network"] # None
  <2>1. CASE neutron' = neutron
    BY <1>2, <2>1
  <2>2. CASE op = "delete" /\ neutron' = [raised EXCEPT ![o] = None]
    BY <1>2, <1>4, <1>9, <2>2 DEF Allowed, Objects
  <2>3. CASE op # "delete" /\ neutron' = [raised EXCEPT ![o] = new]
    BY <1>2, <1>8, <1>9, <1>13, <2>3 DEF Objects, NoneApart
  <2> QED BY <1>12, <2>1, <2>2, <2>3
<1>16. /\ job' \in [Workers -> Job \cup {None}] /\ job'[w] = j
       /\ \A v \in Workers : v # w => job'[v] = job[v]
  BY <1>10, <1>11 DEF IInv, Types
<1>17. UNCHANGED <<nb, holder, dead>>
       /\ born' = IF op = "create" THEN born \cup {o} ELSE born
  BY DEF Commit, histVars
<1>18. Types'
  BY <1>14, <1>15, <1>16, <1>17 DEF IInv, Types
<1> QED BY <1>10, <1>11, <1>16, <1>18 DEF NoneApart

\* A new request keeps the invariant.
LEMMA CommitKeeps ==
    ASSUME IInv, NoneApart, NEW w \in Workers, NEW op \in Ops,
           NEW o \in Objects, Commit(w, op, o)
    PROVE  IInv'
<1>a. /\ Types'
      /\ job'[w] # None /\ job'[w].op = op /\ job'[w].obj = o
      /\ job'[w].pc = "lock"
      /\ \A v \in Workers : v # w => job'[v] = job[v]
  BY CommitTypes
<1>b. /\ UNCHANGED <<nb, holder, dead, last>>
      /\ born' = IF op = "create" THEN born \cup {o} ELSE born
      /\ op = "create" => o \notin born
  BY DEF Commit, histVars, Allowed
<1>1. ASSUME NEW v \in Workers PROVE Holds(v)'
  BY <1>a, <1>b, Parts DEF Holds, LockOf
<1>2. ASSUME NEW v \in Workers PROVE Fresh(v)'
  BY <1>a, <1>b, Parts DEF Fresh
<1>3. ASSUME NEW v \in Workers PROVE Creates(v)'
  BY <1>a, <1>b DEF IInv, Creates, RowsBorn
<1>4. ASSUME NEW u \in Workers, NEW v \in Workers PROVE Once(u, v)'
  BY <1>a, <1>b, Parts DEF Once, Creates
<1>5. (RowsBorn /\ NetworkKept /\ DeletedStaysDeleted)'
  BY <1>b DEF IInv, RowsBorn, NetworkKept, DeletedStaysDeleted
<1> QED BY <1>a, <1>1, <1>2, <1>3, <1>4, <1>5 DEF IInv

\* Reading the security group again keeps the invariant.
LEMMA ReadGroupKeeps ==
    ASSUME IInv, NoneApart, NEW w \in Workers, ReadGroup(w)
    PROVE  IInv'
<1>a. UNCHANGED <<neutron, nb, holder, born, dead, last>>
  BY DEF ReadGroup, unhandled
<1>b. job[w] # None /\ job[w].pc = "start" /\ job[w] \in Job
  BY JobFacts DEF ReadGroup, Starts, At
<1>1. CASE neutron["group"] = None
  <2>1. Moves(w, "raise")
    BY <1>1, <1>b, GotoMoves, Zenon DEF IInv, ReadGroup, Goto, PCs
  <2> QED BY <1>a, <1>b, <2>1, QuietKeeps DEF PCs
<1>2. CASE neutron["group"] # None
  <2> DEFINE row == neutron["group"]
             j == [job[w] EXCEPT !.pc = "get", !.rev = row.rev,
                                 !.data = row.data]
  <2>1. row.rev \in Nat /\ row.data \in Data
    BY <1>2 DEF IInv, Types, NeutronRow, Objects
  <2>2. job' = [job EXCEPT ![w] = j]
    BY <1>2 DEF ReadGroup
  <2> HIDE DEF row
  <2>3. j \in Job /\ j.op = job[w].op /\ j.obj = job[w].obj /\ j.pc = "get"
    BY <1>b, <2>1, Zenon DEF Job, PCs
  <2> HIDE DEF j
  <2>4. Moves(w, "get")
    BY <1>b, <2>2, <2>3 DEF IInv, Types, Moves, NoneApart
  <2> QED BY <1>a, <1>b, <2>4, QuietKeeps DEF PCs
<1> QED BY <1>1, <1>2

\* The first call of every handler keeps the invariant.
LEMMA HandleKeeps ==
    ASSUME IInv, NoneApart, NEW w \in Workers, Handle(w)
    PROVE  IInv'
<1>a. ASSUME NEW o, NEW ops, Starts(w, o, ops)
      PROVE  /\ At(w, "start") /\ job[w] # None
             /\ job[w].pc \notin {"lock", "commit"}
             /\ job[w].obj = o /\ job[w].op \in ops
  BY <1>a DEF Starts, At
<1>1. CASE CreateNetworkPostcommit(w)
  BY <1>1, <1>a, NbCreateKeeps DEF CreateNetworkPostcommit
<1>2. CASE UpdateNetworkPostcommit(w)
  BY <1>2, <1>a, NbUpdateKeeps DEF UpdateNetworkPostcommit
<1>3. CASE DeleteNetworkPostcommit(w)
  BY <1>3, <1>a, NbDeleteKeeps DEF DeleteNetworkPostcommit
<1>4. CASE CreateSubnetPostcommit(w)
  BY <1>4, <1>a, NbCreateKeeps DEF CreateSubnetPostcommit
<1>5. CASE UpdateSubnetPostcommit(w)
  BY <1>5, <1>a, NbUpdateKeeps DEF UpdateSubnetPostcommit
<1>6. CASE DeleteSubnetPostcommit(w)
  BY <1>6, <1>a, FailKeeps, NbDeleteKeeps DEF DeleteSubnetPostcommit
<1>7. CASE CreatePortPostcommit(w)
  BY <1>7, <1>a, FailKeeps, NbCreateKeeps DEF CreatePortPostcommit
<1>8. CASE UpdatePortPostcommit(w)
  <2>1. CASE Goto(w, "release") /\ UNCHANGED <<nb, late, dead, last>>
    <3>1. Moves(w, "release")
      BY <1>8, <1>a, <2>1, GotoMoves DEF IInv, UpdatePortPostcommit, PCs
    <3> QED BY <1>8, <1>a, <2>1, <3>1, QuietKeeps
            DEF UpdatePortPostcommit, unhandled, PCs
  <2>2. CASE Fail(w)
    BY <1>8, <1>a, <2>2, FailKeeps DEF UpdatePortPostcommit
  <2>3. CASE NbUpdate(w)
    BY <1>8, <1>a, <2>3, NbUpdateKeeps DEF UpdatePortPostcommit
  <2> QED BY <1>8, <2>1, <2>2, <2>3 DEF UpdatePortPostcommit
<1>9. CASE DeletePortPostcommit(w)
  BY <1>9, <1>a, FailKeeps, NbDeleteKeeps DEF DeletePortPostcommit
<1>10. CASE UpdateSecurityGroup(w)
  BY <1>10, <1>a, NbCreateKeeps, NbUpdateKeeps DEF UpdateSecurityGroup
<1>11. CASE DeleteSecurityGroup(w)
  BY <1>11, <1>a, NbDeleteKeeps DEF DeleteSecurityGroup
<1>12. CASE ReadGroup(w)
  BY <1>12, ReadGroupKeeps
<1>13. CASE UpdateGroup(w)
  BY <1>13, NbUpdateKeeps DEF UpdateGroup, At
<1> QED BY <1>1, <1>2, <1>3, <1>4, <1>5, <1>6, <1>7, <1>8, <1>9, <1>10, <1>11,
           <1>12, <1>13 DEF Handle

\* The writing of NbApi.update keeps the invariant.
LEMMA SetKeeps ==
    ASSUME IInv, NoneApart, NEW w \in Workers, Set(w)
    PROVE  IInv'
<1> DEFINE o == job[w].obj
           x == IF o = "subnet" THEN "get_net" ELSE "release"
           row == Merged(job[w].read, job[w].rev, job[w].data)
<1>1. job[w] # None /\ job[w].pc = "set"
  BY DEF Set, At
<1>2. nb[o] # None
  BY <1>1, Parts DEF Fresh
<1>3. job[w] \in Job /\ o \in Objects /\ o \in born /\ o \notin dead
  BY <1>1, <1>2, JobFacts
<1>4. row \in Row /\ row.data = job[w].data
  BY <1>3 DEF Merged, Job, Row
<1>5. Moves(w, x)
  BY <1>1, GotoMoves DEF IInv, Set, PCs
<1>6. /\ nb' = [nb EXCEPT ![o] = row]
      /\ last' = IF o = "network" THEN row.data ELSE last
      /\ UNCHANGED <<neutron, holder, born, dead>>
  BY <1>4 DEF Set, unhandled
<1> HIDE DEF row
<1> QED BY <1>1, <1>2, <1>3, <1>4, <1>5, <1>6, WriteKeeps, Zenon

\* Reading the network for its version keeps the invariant.
LEMMA GetNetworkKeeps ==
    ASSUME IInv, NoneApart, NEW w \in Workers, GetNetwork(w)
    PROVE  IInv'
<1>a. UNCHANGED <<neutron, nb, holder, born, dead, last>>
  BY DEF GetNetwork, histVars
<1>b. /\ job[w] # None /\ job[w].pc = "get_net" /\ job[w] \in Job
      /\ job[w].obj = "subnet"
  BY JobFacts, Parts DEF GetNetwork, At, Fresh
<1>1. CASE nb["network"] = None
  <2>1. Moves(w, "release")
    BY <1>1, <1>b, GotoMoves, Zenon DEF IInv, GetNetwork, Goto, PCs
  <2> QED BY <1>a, <1>b, <2>1, QuietKeeps DEF PCs
<1>2. CASE nb["network"] # None
  <2> DEFINE j == [job[w] EXCEPT !.pc = "set_net", !.read = nb["network"]]
  <2>1. nb["network"] \in Row
    BY <1>2 DEF IInv, Types, Objects
  <2>2. job' = [job EXCEPT ![w] = j]
    BY <1>2 DEF GetNetwork
  <2>3. /\ j \in Job /\ j.op = job[w].op /\ j.obj = job[w].obj
        /\ j.pc = "set_net" /\ j.read = nb["network"]
    BY <1>b, <2>1, Zenon DEF Job, PCs
  <2> HIDE DEF j
  <2>4. Moves(w, "set_net") /\ job'[w].read = nb["network"]
    BY <1>b, <2>2, <2>3 DEF IInv, Types, Moves, NoneApart
  <2> QED BY <1>a, <1>b, <1>2, <2>4, QuietKeeps DEF PCs
<1> QED BY <1>1, <1>2

\* The end of a handler keeps the invariant.
LEMMA ReleaseKeeps ==
    ASSUME IInv, NoneApart, NEW w \in Workers, Release(w)
    PROVE  IInv'
<1>1. job[w] # None /\ job[w].pc \notin {"lock", "commit"}
  BY DEF Release, At
<1>2. Ends(w) \/ Moves(w, "commit")
  <2>1. CASE job' = [job EXCEPT ![w].pc = "commit"]
    BY <1>1, <2>1, GotoMoves, Zenon DEF IInv, Goto, PCs
  <2>2. CASE job' = [job EXCEPT ![w] = None]
    BY <2>2 DEF IInv, Types, Ends
  <2> QED BY <2>1, <2>2 DEF Release
<1> QED BY <1>1, <1>2, EndKeeps, Zenon DEF Release, histVars

\* Every step keeps the invariant, if handlers take their lock.
LEMMA NextKeeps ==
    ASSUME IInv, NoneApart, ~own_frame, [Next]_vars
    PROVE  IInv' /\ ~own_frame'
<1>0. ~own_frame'
  BY DEF Next, vars, fixed
<1> SUFFICES IInv'
  BY <1>0
<1>1. CASE UNCHANGED vars
  BY <1>1 DEF vars, histVars, IInv, Types, Holds, Fresh, Creates, Once,
              RowsBorn, NetworkKept, DeletedStaysDeleted, LockOf
<1>2. ASSUME NEW w \in Workers, LockFails(w) PROVE IInv'
  <2>1. Ends(w)
    BY <1>2 DEF LockFails, IInv, Types, Ends
  <2> QED BY <1>2, <2>1, EndKeeps DEF LockFails, At
<1>3. ASSUME NEW w \in Workers, CommitDelete(w) PROVE IInv'
  <2>1. Ends(w)
    BY <1>3 DEF CommitDelete, IInv, Types, Ends
  <2> QED BY <1>3, <2>1, EndKeeps DEF CommitDelete, At
<1>4. ASSUME NEW w \in Workers, NbFails(w) PROVE IInv'
  <2>1. job[w] # None /\ job[w].pc \notin {"lock", "commit"}
    BY <1>4 DEF NbFails, At
  <2>2. Moves(w, "raise")
    BY <1>4, <2>1, GotoMoves DEF IInv, NbFails, PCs
  <2> QED BY <1>4, <2>1, <2>2, QuietKeeps DEF NbFails, PCs
<1> QED BY <1>1, <1>2, <1>3, <1>4, CommitKeeps, AcquireKeeps, HandleKeeps,
           SetKeeps, GetNetworkKeeps, SetNetworkKeeps, ReleaseKeeps
        DEF Next, SkipLock

\* Whether handlers take their lock does not change.
LEMMA FrameKept == ASSUME own_frame, [Next]_vars PROVE own_frame'
BY DEF Next, vars, fixed

\* The first state has the invariant.
LEMMA InitKeeps == ASSUME NoneApart PROVE Init => IInv
BY DEF Init, IInv, Types, Holds, Fresh, Creates, Once, RowsBorn, NetworkKept,
       DeletedStaysDeleted, Objects

----------------------------------------------------------------------------
(* Theorems. *)

\* For any number of workers, requests and failures, the handlers of subnets
\* never undo what a handler of their network wrote, if the lock of the
\* network that they ask for is taken.
THEOREM NetworkNeverUndone ==
    ASSUME NoneApart PROVE Spec => [](~own_frame => NetworkKept)
<1>1. IInv => NetworkKept
  BY DEF IInv
<1> QED BY <1>1, InitKeeps, NextKeeps, FrameKept, PTL DEF Spec

\* For any number of workers, requests and failures, an object whose creation
\* and deletion were handled has no row again, if its handlers take its lock.
THEOREM DeletedNeverReturns ==
    ASSUME NoneApart PROVE Spec => [](~own_frame => DeletedStaysDeleted)
<1>1. IInv => DeletedStaysDeleted
  BY DEF IInv
<1> QED BY <1>1, InitKeeps, NextKeeps, FrameKept, PTL DEF Spec
=============================================================================
