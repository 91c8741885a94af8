-------------------------- MODULE MechDriverLemmas --------------------------
(***************************************************************************)
(* The inductive invariant of MechDriver, and that every kind of step      *)
(* keeps it.  NetworkKept and DeletedStaysDeleted depend on what a handler *)
(* read staying true until it writes: on the lock, so that they are proved *)
(* of the code whose lock is taken.  The invariant says who has the        *)
(* lock of whom, what the rows are that handlers have read, and that an    *)
(* object is created once.                                                 *)
(***************************************************************************)
EXTENDS MechDriver, TLAPS

PCs == {"lock", "start", "get", "set", "get_net", "set_net", "release", "raise",
        "commit"}
Row == [version : Nat, data : Data]
NeutronRow == [rev : Nat, data : Data]
Job == [op : Ops, obj : Objects, rev : Nat, data : Data, net : Nat,
        read : Row \cup {None}, pc : PCs]

\* None is none of the values it stands beside.
NoneApart == None \notin Row \cup NeutronRow \cup Job \cup Workers

Types ==
    /\ neutron \in [Objects -> NeutronRow \cup {None}]
    /\ neutron["subnet"] # None => neutron["network"] # None
    /\ nb \in [Objects -> Row \cup {None}]
    /\ holder \in [Objects -> Workers \cup {None}]
    /\ job \in [Workers -> Job \cup {None}]
    /\ born \in SUBSET Objects /\ dead \in SUBSET Objects

\* A handler has its lock from its first to its last step.
Holds(w) == job[w] # None /\ job[w].pc \notin {"lock", "commit"} =>
                holder[LockOf(job[w].obj)] = w

\* What a handler is about to write follows from what it read, which is
\* still so.
Fresh(w) == job[w] # None =>
    /\ job[w].pc = "set" => nb[job[w].obj] # None
    /\ job[w].pc \in {"get_net", "set_net"} => job[w].obj = "subnet"
    /\ job[w].pc = "set_net" =>
           /\ nb["network"] # None
           /\ job[w].read # None
           /\ job[w].read.data = nb["network"].data

\* A creation that was not handled yet is that of an object without a row.
Creates(w) == job[w] # None /\ job[w].op = "create" =>
    /\ job[w].obj \in born
    /\ job[w].pc \in {"lock", "start"} =>
           nb[job[w].obj] = None /\ job[w].obj \notin dead

\* An object is created once.
Once(v, w) ==
    job[v] # None /\ job[v].op = "create" /\ job[w] # None
    /\ job[w].op = "create" /\ job[v].obj = job[w].obj => v = w

RowsBorn == \A o \in Objects : nb[o] # None \/ o \in dead => o \in born

IInv ==
    /\ Types
    /\ \A w \in Workers : Holds(w)
    /\ \A w \in Workers : Fresh(w)
    /\ \A w \in Workers : Creates(w)
    /\ \A v, w \in Workers : Once(v, w)
    /\ RowsBorn
    /\ NetworkKept
    /\ DeletedStaysDeleted

----------------------------------------------------------------------------
(* Steps of a job. *)

\* A worker goes on with its request.
Moves(w, pc) ==
    /\ job' \in [Workers -> Job \cup {None}]
    /\ job[w] # None /\ job'[w] # None
    /\ job'[w].op = job[w].op /\ job'[w].obj = job[w].obj /\ job'[w].pc = pc
    /\ \A v \in Workers : v # w => job'[v] = job[v]

\* A worker ends its request.
Ends(w) ==
    /\ job' \in [Workers -> Job \cup {None}]
    /\ job'[w] = None
    /\ \A v \in Workers : v # w => job'[v] = job[v]

\* Goto moves its worker.
LEMMA GotoMoves ==
    ASSUME Types, NoneApart, NEW w \in Workers, job[w] # None,
           NEW x \in PCs, Goto(w, x)
    PROVE  Moves(w, x) /\ job'[w].read = job[w].read
<1>1. job[w] \in Job
  BY DEF Types
<1>2. job' = [job EXCEPT ![w] = [job[w] EXCEPT !.pc = x]]
  BY DEF Goto
<1>3. [job[w] EXCEPT !.pc = x] \in Job
  BY <1>1 DEF Job
<1>4. /\ [job[w] EXCEPT !.pc = x].op = job[w].op
      /\ [job[w] EXCEPT !.pc = x].obj = job[w].obj
      /\ [job[w] EXCEPT !.pc = x].pc = x
      /\ [job[w] EXCEPT !.pc = x].read = job[w].read
  BY <1>1 DEF Job
<1>5. /\ job' \in [Workers -> Job \cup {None}]
      /\ job'[w] = [job[w] EXCEPT !.pc = x]
      /\ \A v \in Workers : v # w => job'[v] = job[v]
  BY <1>2, <1>3 DEF Types
<1> QED BY <1>3, <1>4, <1>5 DEF Moves, NoneApart

\* The parts of the invariant that speak of workers.
LEMMA Parts ==
    ASSUME IInv, NEW v \in Workers
    PROVE  /\ Holds(v) /\ Fresh(v) /\ Creates(v)
           /\ \A u \in Workers : Once(u, v)
BY DEF IInv

\* Two handlers with the same lock are one.
LEMMA Alone ==
    ASSUME IInv, NEW v \in Workers, NEW w \in Workers,
           job[v] # None, job[v].pc \notin {"lock", "commit"},
           job[w] # None, job[w].pc \notin {"lock", "commit"},
           LockOf(job[v].obj) = LockOf(job[w].obj)
    PROVE  v = w
BY Parts DEF Holds

----------------------------------------------------------------------------
(* Kinds of steps. *)

\* A step that writes nothing keeps the invariant, also one that reads a row.
LEMMA QuietKeeps ==
    ASSUME IInv, NEW w \in Workers, NEW x \in PCs \ {"lock", "start", "commit"},
           Moves(w, x), job[w].pc \notin {"lock", "commit"},
           x = "set" => nb[job[w].obj] # None,
           x \in {"get_net", "set_net"} => job[w].obj = "subnet",
           x = "set_net" =>
               nb["network"] # None /\ job'[w].read = nb["network"],
           UNCHANGED <<neutron, nb, holder, born, dead, last>>
    PROVE  IInv'
<1>1. Types'
  BY DEF IInv, Types, Moves
<1>2. ASSUME NEW v \in Workers PROVE Holds(v)'
  BY Parts DEF Holds, Moves, LockOf
<1>3. ASSUME NEW v \in Workers PROVE Fresh(v)'
  BY Parts DEF Fresh, Moves
<1>4. ASSUME NEW v \in Workers PROVE Creates(v)'
  BY Parts DEF Creates, Moves
<1>5. ASSUME NEW u \in Workers, NEW v \in Workers PROVE Once(u, v)'
  BY Parts DEF Once, Moves
<1>6. (RowsBorn /\ NetworkKept /\ DeletedStaysDeleted)'
  BY DEF IInv, RowsBorn, NetworkKept, DeletedStaysDeleted
<1> QED BY <1>1, <1>2, <1>3, <1>4, <1>5, <1>6 DEF IInv

\* A handler that writes the row of its own object, which was not deleted
\* before, keeps the invariant.
LEMMA WriteKeeps ==
    ASSUME IInv, NEW w \in Workers, NEW x \in {"release", "get_net"},
           NEW row \in Row, NoneApart,
           Moves(w, x), job[w].pc \notin {"lock", "commit"},
           x = "get_net" => job[w].obj = "subnet",
           job[w].obj \in Objects, job[w].obj \in born, job[w].obj \notin dead,
           nb[job[w].obj] # None \/ job[w].op = "create",
           nb' = [nb EXCEPT ![job[w].obj] = row],
           last' = IF job[w].obj = "network" THEN row.data ELSE last,
           UNCHANGED <<neutron, holder, born, dead>>
    PROVE  IInv'
<1> DEFINE o == job[w].obj
<1>a. row # None
  BY DEF NoneApart
<1>b. nb'[o] = row /\ \A p \in Objects : p # o => nb'[p] = nb[p]
  BY DEF IInv, Types
<1>1. Types'
  BY DEF IInv, Types, Moves
<1>2. ASSUME NEW v \in Workers PROVE Holds(v)'
  BY Parts DEF Holds, Moves, LockOf
<1>3. ASSUME NEW v \in Workers PROVE Fresh(v)'
  <2>1. CASE v = w
    BY <2>1 DEF Fresh, Moves
  <2>2. CASE v # w
    <3>1. job'[v] = job[v]
      BY <2>2 DEF Moves
    <3>2. SUFFICES ASSUME job[v] # None PROVE Fresh(v)'
      BY <3>1 DEF Fresh
    <3>3. job[v].obj \in Objects
      BY <3>2 DEF IInv, Types, Job
    <3>4. job[v].pc = "set_net" => o # "network"
      <4> SUFFICES ASSUME job[v].pc = "set_net", o = "network" PROVE FALSE
        OBVIOUS
      <4>1. LockOf(job[v].obj) = LockOf(o)
        BY <3>2, Parts DEF Fresh, LockOf
      <4> QED BY <4>1, <3>2, <2>2, Alone DEF Moves
    <3>5. Fresh(v)
      BY DEF IInv
    <3>6. nb'[job[v].obj] # None \/ nb[job[v].obj] = None
      BY <1>a, <1>b, <3>3
    <3>7. job[v].pc = "set_net" => nb'["network"] = nb["network"]
      BY <1>b, <3>4 DEF Objects
    <3> QED BY <3>1, <3>2, <3>5, <3>6, <3>7 DEF Fresh
  <2> QED BY <2>1, <2>2
<1>4. ASSUME NEW v \in Workers PROVE Creates(v)'
  <2>1. CASE v = w
    BY <2>1, Parts DEF Creates, Moves
  <2>2. CASE v # w
    <3>1. job'[v] = job[v] /\ Creates(v) /\ Once(v, w)
      BY <2>2 DEF Moves, IInv
    <3>2. SUFFICES ASSUME job[v] # None, job[v].op = "create" PROVE Creates(v)'
      BY <3>1 DEF Creates
    <3>3. job[v].obj \in Objects
      BY <3>2 DEF IInv, Types, Job
    <3>4. CASE job[v].obj = o
      BY <2>2, <3>1, <3>2, <3>4 DEF Creates, Once, Moves
    <3>5. CASE job[v].obj # o
      BY <1>b, <3>1, <3>2, <3>3, <3>5 DEF Creates
    <3> QED BY <3>4, <3>5
  <2> QED BY <2>1, <2>2
<1>5. ASSUME NEW u \in Workers, NEW v \in Workers PROVE Once(u, v)'
  BY Parts DEF Once, Moves
<1>6. RowsBorn'
  BY <1>b DEF IInv, RowsBorn
<1>7. NetworkKept'
  BY <1>b DEF IInv, NetworkKept, Objects
<1>8. DeletedStaysDeleted'
  BY <1>b DEF IInv, Types, DeletedStaysDeleted
<1> QED BY <1>1, <1>2, <1>3, <1>4, <1>5, <1>6, <1>7, <1>8 DEF IInv

\* A handler that deletes the row of its own object keeps the invariant: no
\* other handler of the object is between its reading and its writing.
LEMMA DeleteKeeps ==
    ASSUME IInv, NEW w \in Workers, NEW x \in {"release", "raise", "get_net"},
           Moves(w, x), job[w].pc \notin {"lock", "commit"},
           x = "get_net" => job[w].obj = "subnet",
           job[w].obj \in Objects,
           nb' = [nb EXCEPT ![job[w].obj] = None],
           dead' = IF nb[job[w].obj] # None
                   THEN dead \cup {job[w].obj} ELSE dead,
           UNCHANGED <<neutron, holder, born>>,
           job[w].obj # "network" => last' = last
    PROVE  IInv'
<1> DEFINE o == job[w].obj
<1>b. nb'[o] = None /\ \A p \in Objects : p # o => nb'[p] = nb[p]
  BY DEF IInv, Types
<1>1. Types'
  BY DEF IInv, Types, Moves
<1>2. ASSUME NEW v \in Workers PROVE Holds(v)'
  BY Parts DEF Holds, Moves, LockOf
<1>3. ASSUME NEW v \in Workers PROVE Fresh(v)'
  <2>1. CASE v = w
    BY <2>1 DEF Fresh, Moves
  <2>2. CASE v # w
    <3>1. job'[v] = job[v]
      BY <2>2 DEF Moves
    <3>2. SUFFICES ASSUME job[v] # None PROVE Fresh(v)'
      BY <3>1 DEF Fresh
    <3>3. job[v].obj \in Objects /\ Fresh(v)
      BY <3>2 DEF IInv, Types, Job
    <3>4. job[v].pc = "set_net" => o # "network"
      <4> SUFFICES ASSUME job[v].pc = "set_net", o = "network" PROVE FALSE
        OBVIOUS
      <4>1. LockOf(job[v].obj) = LockOf(o)
        BY <3>2, <3>3 DEF Fresh, LockOf
      <4> QED BY <4>1, <3>2, <2>2, Alone DEF Moves
    <3>5. job[v].pc = "set" => o # job[v].obj
      BY <3>2, <2>2, Alone DEF Moves
    <3>6. job[v].pc = "set" => nb'[job[v].obj] = nb[job[v].obj]
      BY <1>b, <3>3, <3>5
    <3>7. job[v].pc = "set_net" => nb'["network"] = nb["network"]
      BY <1>b, <3>4 DEF Objects
    <3> QED BY <3>1, <3>2, <3>3, <3>6, <3>7 DEF Fresh
  <2> QED BY <2>1, <2>2
<1>4. ASSUME NEW v \in Workers PROVE Creates(v)'
  <2>1. CASE v = w
    BY <2>1, Parts, Zenon DEF Creates, Moves
  <2>2. CASE v # w
    <3>1. job'[v] = job[v] /\ Creates(v)
      BY <2>2 DEF Moves, IInv
    <3>2. SUFFICES ASSUME job[v] # None, job[v].op = "create" PROVE Creates(v)'
      BY <3>1 DEF Creates
    <3>3. job[v].obj \in Objects
      BY <3>2 DEF IInv, Types, Job
    <3> QED BY <1>b, <3>1, <3>2, <3>3 DEF Creates
  <2> QED BY <2>1, <2>2
<1>5. ASSUME NEW u \in Workers, NEW v \in Workers PROVE Once(u, v)'
  BY Parts DEF Once, Moves
<1>6. RowsBorn'
  BY <1>b DEF IInv, RowsBorn
<1>7. NetworkKept'
  BY <1>b DEF IInv, NetworkKept, Objects
<1>8. DeletedStaysDeleted'
  BY <1>b DEF IInv, Types, DeletedStaysDeleted
<1> QED BY <1>1, <1>2, <1>3, <1>4, <1>5, <1>6, <1>7, <1>8 DEF IInv

\* A worker that ends its request without its lock, or gives the lock back,
\* keeps the invariant.
LEMMA EndKeeps ==
    ASSUME IInv, NoneApart, NEW w \in Workers, job[w] # None,
           \/ Ends(w)
           \/ Moves(w, "commit"),
           \/ job[w].pc \in {"lock", "commit"} /\ UNCHANGED holder
           \/ /\ job[w].pc \notin {"lock", "commit"}
              /\ holder' = [holder EXCEPT ![LockOf(job[w].obj)] = None],
           \/ UNCHANGED neutron
           \/ neutron' = [neutron EXCEPT !["group"] = None],
           UNCHANGED <<nb, born, dead, last>>
    PROVE  IInv'
<1>a. job' \in [Workers -> Job \cup {None}]
      /\ \A v \in Workers : v # w => job'[v] = job[v]
  BY DEF Ends, Moves
<1>b. job'[w] # None =>
          /\ job'[w].pc = "commit"
          /\ job'[w].op = job[w].op /\ job'[w].obj = job[w].obj
  BY DEF Ends, Moves
<1>c. job[w].obj \in Objects /\ LockOf(job[w].obj) \in Objects
  BY DEF IInv, Types, Job, LockOf, Objects
<1>1. Types'
  BY <1>a, <1>c DEF IInv, Types, Objects
<1>2. ASSUME NEW v \in Workers PROVE Holds(v)'
  <2>1. CASE v = w
    BY <2>1, <1>b DEF Holds
  <2>2. CASE v # w
    <3>1. job'[v] = job[v] /\ Holds(v)
      BY <1>a, <2>2 DEF IInv
    <3>2. SUFFICES ASSUME job[v] # None, job[v].pc \notin {"lock", "commit"}
                   PROVE  holder'[LockOf(job[v].obj)] = v
      BY <3>1 DEF Holds, LockOf
    <3>3. LockOf(job[v].obj) \in Objects
      BY <3>2 DEF IInv, Types, Job, LockOf, Objects
    <3>4. holder[LockOf(job[v].obj)] = v
      BY <3>1, <3>2 DEF Holds
    <3>5. CASE job[w].pc \in {"lock", "commit"} /\ UNCHANGED holder
      BY <3>4, <3>5
    <3>6. CASE /\ job[w].pc \notin {"lock", "commit"}
               /\ holder' = [holder EXCEPT ![LockOf(job[w].obj)] = None]
      <4>1. LockOf(job[v].obj) # LockOf(job[w].obj)
        BY <2>2, <3>2, <3>6, Alone
      <4> QED BY <4>1, <1>c, <3>3, <3>4, <3>6 DEF IInv, Types
    <3> QED BY <3>5, <3>6
  <2> QED BY <2>1, <2>2
<1>3. ASSUME NEW v \in Workers PROVE Fresh(v)'
  BY <1>a, <1>b, Parts DEF Fresh
<1>4. ASSUME NEW v \in Workers PROVE Creates(v)'
  BY <1>a, <1>b, Parts DEF Creates
<1>5. ASSUME NEW u \in Workers, NEW v \in Workers PROVE Once(u, v)'
  BY <1>a, <1>b, Parts DEF Once
<1>6. (RowsBorn /\ NetworkKept /\ DeletedStaysDeleted)'
  BY DEF IInv, RowsBorn, NetworkKept, DeletedStaysDeleted
<1> QED BY <1>1, <1>2, <1>3, <1>4, <1>5, <1>6 DEF IInv

\* Taking a lock that nobody has keeps the invariant.
LEMMA AcquireKeeps ==
    ASSUME IInv, NoneApart, NEW w \in Workers, Acquire(w)
    PROVE  IInv'
<1>a. job[w] # None /\ job[w].pc = "lock" /\ holder[LockOf(job[w].obj)] = None
  BY DEF Acquire, At
<1>b. Moves(w, "start")
  BY <1>a, GotoMoves DEF IInv, Acquire, Enter, PCs
<1>c. LockOf(job[w].obj) \in Objects
  BY <1>a DEF IInv, Types, Job, LockOf, Objects
<1>d. /\ holder' = [holder EXCEPT ![LockOf(job[w].obj)] = w]
      /\ UNCHANGED <<neutron, nb, born, dead, last>>
  BY DEF Acquire, Enter
<1>1. Types'
  BY <1>b, <1>c, <1>d DEF IInv, Types, Moves
<1>2. ASSUME NEW v \in Workers PROVE Holds(v)'
  <2>1. CASE v = w
    BY <2>1, <1>b, <1>c, <1>d DEF IInv, Types, Holds, Moves, LockOf
  <2>2. CASE v # w
    <3>1. job'[v] = job[v] /\ Holds(v)
      BY <1>b, <2>2 DEF IInv, Moves
    <3>2. SUFFICES ASSUME job[v] # None, job[v].pc \notin {"lock", "commit"}
                   PROVE  holder'[LockOf(job[v].obj)] = v
      BY <3>1 DEF Holds, LockOf
    <3>3. LockOf(job[v].obj) \in Objects
      BY <3>2 DEF IInv, Types, Job, LockOf, Objects
    <3>4. holder[LockOf(job[v].obj)] = v
      BY <3>1, <3>2 DEF Holds
    <3>5. LockOf(job[v].obj) # LockOf(job[w].obj)
      BY <1>a, <3>4 DEF NoneApart
    <3> QED BY <1>c, <1>d, <3>3, <3>4, <3>5 DEF IInv, Types
  <2> QED BY <2>1, <2>2
<1>3. ASSUME NEW v \in Workers PROVE Fresh(v)'
  BY <1>b, <1>d, Parts DEF Fresh, Moves
<1>4. ASSUME NEW v \in Workers PROVE Creates(v)'
  BY <1>a, <1>b, <1>d, Parts DEF Creates, Moves
<1>5. ASSUME NEW u \in Workers, NEW v \in Workers PROVE Once(u, v)'
  BY <1>b, Parts DEF Once, Moves
<1>6. (RowsBorn /\ NetworkKept /\ DeletedStaysDeleted)'
  BY <1>d DEF IInv, RowsBorn, NetworkKept, DeletedStaysDeleted
<1> QED BY <1>1, <1>2, <1>3, <1>4, <1>5, <1>6 DEF IInv

\* A handler of a subnet that writes the row of the network back, with the
\* data it read, keeps the invariant.
LEMMA SetNetworkKeeps ==
    ASSUME IInv, NoneApart, NEW w \in Workers, SetNetwork(w)
    PROVE  IInv'
<1> DEFINE row == [version |-> job[w].net, data |-> job[w].read.data]
<1>a. job[w] # None /\ job[w].pc = "set_net" /\ job[w] \in Job
  BY DEF SetNetwork, At, IInv, Types
<1>b. Moves(w, "release")
  BY <1>a, GotoMoves DEF IInv, SetNetwork, PCs
<1>c. /\ nb' = [nb EXCEPT !["network"] = row]
      /\ UNCHANGED <<neutron, holder, born, dead, last>>
  BY DEF SetNetwork, unhandled
<1>d. /\ job[w].obj = "subnet" /\ nb["network"] # None
      /\ job[w].read # None /\ job[w].read.data = nb["network"].data
  BY <1>a, Parts DEF Fresh
<1>e. row \in Row /\ row.data = nb["network"].data
  BY <1>a, <1>d DEF Job, Row
<1>f. row # None
  BY <1>e DEF NoneApart
<1>g. nb'["network"] = row
      /\ \A p \in Objects : p # "network" => nb'[p] = nb[p]
  BY <1>c DEF IInv, Types, Objects
<1> HIDE DEF row
<1>1. Types'
  BY <1>b, <1>c, <1>e, Zenon DEF IInv, Types, Moves
<1>2. ASSUME NEW v \in Workers PROVE Holds(v)'
  BY <1>a, <1>b, <1>c, Parts DEF Holds, Moves, LockOf
<1>3. ASSUME NEW v \in Workers PROVE Fresh(v)'
  <2>1. CASE v = w
    BY <2>1, <1>b DEF Fresh, Moves
  <2>2. CASE v # w
    <3>1. job'[v] = job[v] /\ Fresh(v)
      BY <1>b, <2>2 DEF IInv, Moves
    <3>2. SUFFICES ASSUME job[v] # None PROVE Fresh(v)'
      BY <3>1 DEF Fresh
    <3>3. job[v].obj \in Objects
      BY <3>2 DEF IInv, Types, Job
    <3> QED BY <1>e, <1>f, <1>g, <3>1, <3>2, <3>3 DEF Fresh
  <2> QED BY <2>1, <2>2
<1>4. ASSUME NEW v \in Workers PROVE Creates(v)'
  <2>1. CASE v = w
    BY <2>1, <1>b, <1>c, Parts DEF Creates, Moves
  <2>2. CASE v # w
    <3>1. job'[v] = job[v] /\ Creates(v)
      BY <1>b, <2>2 DEF IInv, Moves
    <3>2. SUFFICES ASSUME job[v] # None, job[v].op = "create" PROVE Creates(v)'
      BY <3>1 DEF Creates
    <3>3. job[v].obj \in Objects
      BY <3>2 DEF IInv, Types, Job
    <3> QED BY <1>c, <1>d, <1>g, <3>1, <3>2, <3>3 DEF Creates
  <2> QED BY <2>1, <2>2
<1>5. ASSUME NEW u \in Workers, NEW v \in Workers PROVE Once(u, v)'
  BY <1>b, Parts DEF Once, Moves
<1>6. RowsBorn'
  BY <1>c, <1>d, <1>g DEF IInv, RowsBorn
<1>7. NetworkKept'
  BY <1>c, <1>d, <1>e, <1>g DEF IInv, NetworkKept
<1>8. DeletedStaysDeleted'
  BY <1>c, <1>d, <1>g DEF IInv, Types, DeletedStaysDeleted
<1> QED BY <1>1, <1>2, <1>3, <1>4, <1>5, <1>6, <1>7, <1>8 DEF IInv
=============================================================================
