-------------------------- MODULE UniqueKeysProofs --------------------------
(***************************************************************************)
(* Proofs about UniqueKeys for every set of clients, every configured      *)
(* driver, every restored counter and any number of allocations and of     *)
(* faults.  A returned key is one more than the value of the row that was  *)
(* read; it is new because the row has not changed in between, which a     *)
(* versioned write concludes from the version.  So the inductive invariant *)
(* relates the rows the clients have read to the row that is stored.       *)
(***************************************************************************)
EXTENDS UniqueKeys, TLAPS

Types ==
    /\ row \in Row
    /\ read \in [Clients -> Row]
    /\ pc \in [Clients -> Requests]
    /\ keys \in Seq(Nat)

\* What a client has read is not newer than the row, and it is the row when
\* the version or the value is.
ReadsOld ==
    \A c \in Clients :
        /\ read[c].version <= row.version
        /\ pc[c] = "set" =>
               /\ read[c].value <= row.value
               /\ read[c].version = row.version => read[c].value = row.value

IInv == Types /\ ReadsOld /\ CounterCovers

\* A step leaves the row as it was, or stores a later version with a value
\* that is not smaller.
RowGrows ==
    \/ row' = row
    \/ row'.version = row.version + 1 /\ row'.value >= row.value

\* A step gives no key, or one that the row has reached; only the driver of
\* Cassandra gives one that the row had reached before.
KeyGiven ==
    \/ keys' = keys
    \/ \E k \in 1..row'.value :
           /\ driver # "cassandra" => k > row.value
           /\ keys' = Append(keys, k)

\* A client reads the row, or no client is about to write that was not.
Reads ==
    \/ \E c \in Clients : /\ read' = [read EXCEPT ![c] = row]
                          /\ row' = row
                          /\ \E r \in Requests : pc' = [pc EXCEPT ![c] = r]
    \/ /\ read' = read
       /\ \A d \in Clients : pc'[d] = "set" => pc[d] = "set"

\* Appending a number keeps a sequence of numbers, adds one position and
\* leaves the others.
LEMMA AppendFacts ==
    ASSUME NEW s \in Seq(Nat), NEW k \in Nat
    PROVE  /\ Append(s, k) \in Seq(Nat)
           /\ Len(Append(s, k)) = Len(s) + 1
           /\ Append(s, k)[Len(s) + 1] = k
           /\ \A i \in 1..Len(s) : Append(s, k)[i] = s[i]
           /\ DOMAIN s = 1..Len(s)
           /\ DOMAIN Append(s, k) = 1..(Len(s) + 1)
           /\ Len(s) \in Nat
  OBVIOUS

\* Initially nothing was read and no key was given.
LEMMA InitIInv ==
    ASSUME Restored \subseteq Nat, Init
    PROVE  IInv
  <1>1. PICK v \in Nat : row = [value |-> v, version |-> 0]
    BY DEF Init
  <1>vars. /\ pc = [c \in Clients |-> "idle"]
        /\ read = [c \in Clients |-> [value |-> 0, version |-> 0]]
        /\ keys = <<>>
    BY DEF Init
  <1>2. Types
    BY <1>1, <1>vars DEF Types, Row, Requests
  <1>3. ReadsOld
    <2>1. ASSUME NEW c \in Clients
          PROVE  read[c].version <= row.version
      <3>1. read[c].version = row.version
        BY <1>1, <1>vars
      <3>2. row.version \in Nat
        BY <1>1
      <3>3. QED
        BY <3>1, <3>2
    <2>2. \A c \in Clients : pc[c] # "set"
      BY <1>vars
    <2>3. QED
      BY <2>1, <2>2, Zenon DEF ReadsOld
  <1>4. CounterCovers
    BY DEF Init, CounterCovers
  <1>5. QED
    BY <1>2, <1>3, <1>4 DEF IInv

\* A write stores the value and the next version.
LEMMA WriteFacts ==
    ASSUME IInv, NEW v \in Nat, v >= row.value, Write(v)
    PROVE  /\ row' \in Row
           /\ row'.value = v
           /\ RowGrows
  BY DEF IInv, Types, Row, Write, RowGrows

\* A request that does not write the row leaves it alone.
LEMMA SameRow ==
    ASSUME IInv, row' = row
    PROVE  row' \in Row /\ RowGrows
  BY DEF IInv, Types, RowGrows

\* A client goes on to a request other than the write of a row it has read.
LEMMA GoToFacts ==
    ASSUME IInv, NEW c \in Clients, NEW r \in Requests \ {"set"}, GoTo(c, r),
           read' = read
    PROVE  /\ pc' \in [Clients -> Requests]
           /\ read' \in [Clients -> Row]
           /\ Reads
  BY DEF IInv, Types, GoTo, Reads

\* A key that the row has reached, and had not reached unless the driver is
\* Cassandra's, is given.
LEMMA ReturnFacts ==
    ASSUME NEW c \in Clients, NEW k \in 1..row'.value, Return(c, k),
           driver = "cassandra" \/ k > row.value
    PROVE  KeyGiven
  BY DEF KeyGiven, Return

\* What every request of every driver does to the row, to what the clients
\* know of it and to the keys.
LEMMA StepFacts ==
    ASSUME IInv, NEW c \in Clients,
           on_create_pre(c) \/ Step(c) \/ AnswerLost(c) \/ _key_command(c)
    PROVE  /\ row' \in Row
           /\ read' \in [Clients -> Row]
           /\ pc' \in [Clients -> Requests]
           /\ driver' = driver
           /\ RowGrows
           /\ KeyGiven
           /\ Reads
  <1>0. /\ row.value \in Nat
        /\ read[c].value \in Nat
        /\ pc[c] = "set" =>
             /\ read[c].value <= row.value
             /\ read[c].version = row.version => read[c].value = row.value
    BY DEF IInv, Types, Row, ReadsOld
  <1>requests. "idle" \in Requests \ {"set"} /\ "get" \in Requests \ {"set"} /\
        "create" \in Requests \ {"set"} /\ "incr" \in Requests \ {"set"} /\
        "list" \in Requests \ {"set"} /\ "replace" \in Requests \ {"set"} /\
        "create table" \in Requests \ {"set"} /\ "set" \in Requests
    BY DEF Requests
  <1>1. CASE on_create_pre(c)
    <2>1. row' = row /\ keys' = keys /\ read' = read /\ driver' = driver
      BY <1>1 DEF on_create_pre
    <2>2. PICK r \in Requests \ {"set"} : GoTo(c, r)
      BY <1>1, <1>requests DEF on_create_pre, FirstRequest
    <2>3. QED
      BY <2>1, <2>2, SameRow, GoToFacts DEF KeyGiven
  <1>2. CASE Get(c)
    <2>1. row' = row /\ keys' = keys /\ driver' = driver
          /\ read' = [read EXCEPT ![c] = row]
      BY <1>2 DEF Get
    <2>2. PICK r \in Requests : pc' = [pc EXCEPT ![c] = r]
      BY <1>2, <1>requests DEF Get, GoTo
    <2>3. Reads
      BY <2>1, <2>2 DEF Reads
    <2>4. read' \in [Clients -> Row] /\ pc' \in [Clients -> Requests]
      BY <2>1, <2>2 DEF IInv, Types
    <2>5. QED
      BY <2>1, <2>3, <2>4, SameRow DEF KeyGiven
  <1>3. CASE Set(c)
    <2>0. driver' = driver /\ read' = read /\ pc[c] = "set"
      BY <1>3 DEF Set
    <2>1. CASE Write(read[c].value + 1) /\ Return(c, read[c].value + 1)
               /\ read[c].value = row.value
      <3>1. row' \in Row /\ RowGrows /\ row'.value = read[c].value + 1
        BY <1>0, <2>1, WriteFacts
      <3>2. KeyGiven
        BY <1>0, <2>1, <3>1, ReturnFacts
      <3>3. QED
        BY <1>requests, <2>0, <2>1, <3>1, <3>2, GoToFacts DEF Return
    <2>2. CASE Again(c) /\ row' = row
      BY <1>requests, <2>0, <2>2, SameRow, GoToFacts DEF Again, KeyGiven
    <2>3. CASE /\ driver = "cassandra"
               /\ row' = row
               /\ Return(c, read[c].value + 1)
               /\ row.value # read[c].value
      <3>1. KeyGiven
        BY <1>0, <2>0, <2>3, ReturnFacts
      <3>2. QED
        BY <1>requests, <2>0, <2>3, <3>1, SameRow, GoToFacts DEF Return
    <2>4. CASE GoTo(c, "create") /\ row' = row /\ keys' = keys
      BY <1>requests, <2>0, <2>4, SameRow, GoToFacts DEF KeyGiven
    <2>5. QED
      BY <1>0, <1>3, <2>0, <2>1, <2>2, <2>3, <2>4
         DEF Set, EtcdReplace, VersionedSet, CassandraUpdate
  <1>4. CASE CreateRow(c)
    <2>0. driver' = driver /\ read' = read
      BY <1>4 DEF CreateRow
    <2>1. CASE row.value = 0 /\ Write(1) /\ Return(c, 1)
      <3>1. row' \in Row /\ RowGrows /\ row'.value = 1
        BY <2>1, WriteFacts
      <3>2. KeyGiven
        BY <2>1, <3>1, ReturnFacts
      <3>3. QED
        BY <1>requests, <2>0, <2>1, <3>1, <3>2, GoToFacts DEF Return
    <2>2. CASE (Again(c) \/ Raise(c)) /\ row' = row
      BY <1>requests, <2>0, <2>2, SameRow, GoToFacts DEF Again, Raise, KeyGiven
    <2>3. CASE driver = "cassandra" /\ Return(c, 1) /\ row' = row
               /\ row.value # 0
      <3>1. KeyGiven
        BY <1>0, <2>3, ReturnFacts
      <3>2. QED
        BY <1>requests, <2>0, <2>3, <3>1, SameRow, GoToFacts DEF Return
    <2>4. QED
      BY <1>4, <2>1, <2>2, <2>3 DEF CreateRow
  <1>5. CASE AnswerLost(c)
    <2>0. driver' = driver /\ read' = read /\ keys' = keys /\ GoTo(c, "idle")
      BY <1>5 DEF AnswerLost, Raise
    <2>1. row' = row \/ (row.value = 0 /\ Write(1)) \/ Write(row.value + 1)
      BY <1>5 DEF AnswerLost
    <2>2. row' \in Row /\ RowGrows
      BY <1>0, <2>1, SameRow, WriteFacts
    <2>3. QED
      BY <1>requests, <2>0, <2>2, GoToFacts DEF KeyGiven
  <1>6. CASE Incr(c) \/ Replace(c)
    <2>1. /\ driver' = driver /\ read' = read
          /\ Write(row.value + 1) /\ Return(c, row.value + 1)
      BY <1>6 DEF Incr, Replace
    <2>2. row' \in Row /\ RowGrows /\ row'.value = row.value + 1
      BY <1>0, <2>1, WriteFacts
    <2>3. KeyGiven
      BY <1>0, <2>1, <2>2, ReturnFacts
    <2>4. QED
      BY <1>requests, <2>1, <2>2, <2>3, GoToFacts DEF Return
  <1>7. CASE _key_command(c)
    <2>1. driver' = driver /\ read' = read /\ keys' = keys
      BY <1>7 DEF _key_command
    <2>2. GoTo(c, "incr") \/ GoTo(c, "idle")
      BY <1>7 DEF _key_command
    <2>3. row' \in Row /\ RowGrows
      BY <1>0, <1>7, SameRow, WriteFacts DEF _key_command
    <2>4. QED
      BY <1>requests, <2>1, <2>2, <2>3, GoToFacts DEF KeyGiven
  <1>8. CASE ListTables(c) \/ CreateTable(c)
    <2>1. driver' = driver /\ read' = read /\ keys' = keys /\ row' = row
      BY <1>8 DEF ListTables, CreateTable
    <2>2. GoTo(c, "replace") \/ GoTo(c, "create table") \/ GoTo(c, "idle")
      BY <1>8 DEF ListTables, CreateTable
    <2>3. QED
      BY <1>requests, <2>1, <2>2, SameRow, GoToFacts DEF KeyGiven
  <1>9. QED
    BY <1>1, <1>2, <1>3, <1>4, <1>5, <1>6, <1>7, <1>8 DEF Step

\* Every step keeps the inductive invariant.
LEMMA NextIInv ==
    ASSUME IInv, [Next]_vars
    PROVE  IInv'
  <1>1. CASE UNCHANGED vars
    BY <1>1 DEF vars, IInv, Types, ReadsOld, CounterCovers
  <1>2. CASE Next
    <2>0. PICK c \in Clients :
              on_create_pre(c) \/ Step(c) \/ AnswerLost(c) \/ _key_command(c)
      BY <1>2 DEF Next
    <2>1. /\ row' \in Row /\ read' \in [Clients -> Row]
          /\ pc' \in [Clients -> Requests]
          /\ RowGrows /\ KeyGiven /\ Reads
      BY <2>0, StepFacts
    <2>2. /\ row \in Row /\ read \in [Clients -> Row]
          /\ pc \in [Clients -> Requests] /\ keys \in Seq(Nat)
      BY DEF IInv, Types
    <2>3. row.value <= row'.value /\ row.version <= row'.version
          /\ (row.version = row'.version => row.value = row'.value)
      BY <2>1, <2>2 DEF RowGrows, Row
    <2>4. keys' \in Seq(Nat) /\ CounterCovers'
      <3>1. CASE keys' = keys
        BY <2>1, <2>2, <2>3, <3>1 DEF IInv, CounterCovers, Row
      <3>2. CASE \E k \in 1..row'.value : keys' = Append(keys, k)
        <4>1. PICK k \in 1..row'.value : keys' = Append(keys, k)
          BY <3>2
        <4>2. k \in Nat /\ row'.value \in Nat /\ row.value \in Nat
          BY <2>1, <2>2 DEF Row
        <4>3. \A i \in 1..Len(keys) : keys[i] \in 1..row'.value
          BY <2>2, <2>3, <4>2, AppendFacts DEF IInv, CounterCovers
        <4>4. \A i \in 1..(Len(keys) + 1) : keys'[i] \in 1..row'.value
          <5>1. TAKE i \in 1..(Len(keys) + 1)
          <5>2. CASE i = Len(keys) + 1
            BY <2>2, <4>1, <4>2, <5>2, AppendFacts
          <5>3. CASE i \in 1..Len(keys)
            BY <2>2, <4>1, <4>2, <4>3, <5>3, AppendFacts
          <5>4. QED
            BY <2>2, <4>2, <5>2, <5>3, AppendFacts
        <4>5. QED
          BY <2>2, <4>1, <4>2, <4>4, AppendFacts DEF CounterCovers
      <3>3. QED
        BY <2>1, <3>1, <3>2 DEF KeyGiven
    <2>5. ReadsOld'
      <3>1. SUFFICES ASSUME NEW d \in Clients
                     PROVE  /\ read'[d].version <= row'.version
                            /\ pc'[d] = "set" =>
                                 /\ read'[d].value <= row'.value
                                 /\ read'[d].version = row'.version
                                        => read'[d].value = row'.value
        BY DEF ReadsOld
      <3>2. /\ row.value \in Nat /\ row.version \in Nat
            /\ row'.value \in Nat /\ row'.version \in Nat
            /\ read[d].value \in Nat /\ read[d].version \in Nat
        BY <2>1, <2>2 DEF Row
      <3>3. CASE read'[d] = row /\ row' = row
        BY <3>2, <3>3
      <3>4. CASE read'[d] = read[d] /\ (pc'[d] = "set" => pc[d] = "set")
        <4>1. /\ read[d].version <= row.version
              /\ pc[d] = "set" =>
                   /\ read[d].value <= row.value
                   /\ read[d].version = row.version
                          => read[d].value = row.value
          BY DEF IInv, ReadsOld
        <4>2. QED
          BY <2>3, <3>2, <3>4, <4>1
      <3>5. QED
        BY <2>1, <2>2, <3>3, <3>4 DEF Reads
    <2>6. QED
      BY <2>1, <2>4, <2>5 DEF IInv, Types
  <1>3. QED
    BY <1>1, <1>2

\* Every key that any driver gave is at most the stored counter, at all times
\* and for any number of clients: a backup of the counter covers them all.
THEOREM CounterCoversKeys ==
    ASSUME Restored \subseteq Nat
    PROVE  Spec => []CounterCovers
  <1>1. Init => IInv
    BY InitIInv
  <1>2. IInv /\ [Next]_vars => IInv'
    BY NextIInv
  <1>3. IInv => CounterCovers
    BY DEF IInv
  <1>4. QED
    BY <1>1, <1>2, <1>3, PTL DEF Spec

\* A step of any driver but Cassandra's is a step of the abstract allocator.
LEMMA StepImplements ==
    ASSUME IInv, [Next]_vars
    PROVE  [Allocator!Next]_(IF driver = "cassandra" THEN <<>> ELSE keys)
  <1> DEFINE issued == IF driver = "cassandra" THEN <<>> ELSE keys
  <1>1. CASE UNCHANGED vars
    BY <1>1 DEF vars
  <1>2. CASE Next
    <2>0. PICK c \in Clients :
              on_create_pre(c) \/ Step(c) \/ AnswerLost(c) \/ _key_command(c)
      BY <1>2 DEF Next
    <2>1. driver' = driver /\ KeyGiven /\ row' \in Row
      BY <2>0, StepFacts
    <2>2. CASE driver = "cassandra" \/ keys' = keys
      BY <2>1, <2>2
    <2>3. CASE /\ driver # "cassandra"
               /\ \E k \in 1..row'.value : k > row.value
                                           /\ keys' = Append(keys, k)
      <3>1. PICK k \in 1..row'.value : k > row.value /\ keys' = Append(keys, k)
        BY <2>3
      <3>2. /\ k \in Nat /\ keys \in Seq(Nat) /\ row.value \in Nat
            /\ CounterCovers
        BY <2>1, <3>1 DEF IInv, Types, Row
      <3>3. /\ Len(keys') = Len(keys) + 1
            /\ keys'[Len(keys')] = k
        BY <3>1, <3>2, AppendFacts
      <3>4. \A i \in DOMAIN keys : keys[i] # k
        BY <3>1, <3>2 DEF CounterCovers
      <3>5. issued = keys /\ issued' = keys'
        BY <2>1, <2>3
      <3>6. Allocator!Allocate
        BY <3>1, <3>3, <3>4, <3>5 DEF Allocator!Allocate
      <3>7. QED
        BY <3>6 DEF Allocator!Next
    <2>4. QED
      BY <2>1, <2>2, <2>3 DEF KeyGiven
  <1>3. QED
    BY <1>1, <1>2

\* The drivers of etcd, ZooKeeper, RAMCloud, Redis and RethinkDB implement the
\* promise of DbApi.allocate_unique_key: no key is given twice, for any number
\* of clients whose requests interleave and fail in any way.
THEOREM DriversImplementAllocator ==
    ASSUME Restored \subseteq Nat
    PROVE  Spec => AllocatorImplemented
  <1>1. Init => IInv
    BY InitIInv
  <1>2. IInv /\ [Next]_vars => IInv'
    BY NextIInv
  <1>3. Init => Allocator!Init
    BY DEF Init, Allocator!Init
  <1>4. IInv /\ [Next]_vars
          => [Allocator!Next]_(IF driver = "cassandra" THEN <<>> ELSE keys)
    BY StepImplements
  <1>5. QED
    BY <1>1, <1>2, <1>3, <1>4, PTL DEF Spec, AllocatorImplemented, Allocator!Spec
=============================================================================
