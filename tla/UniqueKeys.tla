----------------------------- MODULE UniqueKeys -----------------------------
(***************************************************************************)
(* allocate_unique_key of the six northbound database drivers              *)
(* (db/drivers/*_db_driver.py), called by every client that creates an     *)
(* object with a unique key (db/models/mixins.py).  A table's counter is   *)
(* one row of the database.  etcd, ZooKeeper, RAMCloud and Cassandra read  *)
(* the row and write it back on a condition; Redis and RethinkDB increment *)
(* it in one request.  Requests of different clients interleave, and the   *)
(* answer to a request may be lost after the request was carried out.      *)
(***************************************************************************)
EXTENDS Naturals, Sequences

CONSTANTS
    Clients,     \* processes that allocate keys
    Drivers,     \* the drivers that may be configured, by name
    Restored,    \* counters a restored backup may have left (df-db restore)
    RetryCount,  \* attempts of a Redis command ([df_redis] retries)
    MaxKey,      \* bound: allocations, and the value of the counter
    MaxFaults    \* bound: failing requests

VARIABLES
    driver,      \* the configured driver
    row,         \* the counter's row; value 0 stands for a missing row
    tables,      \* the tables of RethinkDB
    pc,          \* the request each client makes next, or "idle"
    read,        \* the row as each client last read it
    retry,       \* attempts each client has made of its Redis command
    keys,        \* keys the clients were given, in order
    faults       \* requests that failed

vars == <<driver, row, tables, pc, read, retry, keys, faults>>

UNIQUE_KEY_TABLE == "unique_key"

Row == [value : Nat, version : Nat]

Requests == {"idle", "get", "set", "create", "incr", "list", "create table",
             "replace"}

\* The drivers promise what KeyAllocator says; the one for Cassandra does not
\* keep the promise.
Allocator == INSTANCE KeyAllocator
                 WITH issued <- IF driver = "cassandra" THEN <<>> ELSE keys

TypeOK ==
    /\ driver \in Drivers
    /\ row \in Row
    /\ tables \subseteq {UNIQUE_KEY_TABLE}
    /\ pc \in [Clients -> Requests]
    /\ read \in [Clients -> Row]
    /\ retry \in [Clients -> 0..RetryCount]
    /\ keys \in Seq(Nat)
    /\ faults \in 0..MaxFaults

Init ==
    /\ driver \in Drivers
    /\ \E v \in Restored \cup {0} : row = [value |-> v, version |-> 0]
    /\ tables \in {{}, {UNIQUE_KEY_TABLE}}
    /\ driver # "rethinkdb" => tables = {}
    /\ pc = [c \in Clients |-> "idle"]
    /\ read = [c \in Clients |-> [value |-> 0, version |-> 0]]
    /\ retry = [c \in Clients |-> 0]
    /\ keys = <<>>
    /\ faults = 0

GoTo(c, request) == pc' = [pc EXCEPT ![c] = request]

\* allocate_unique_key returns the key k.
Return(c, k) ==
    /\ keys' = Append(keys, k)
    /\ GoTo(c, "idle")

\* allocate_unique_key raises.
Raise(c) == GoTo(c, "idle") /\ UNCHANGED keys

\* The loop of allocate_unique_key starts over.
Again(c) == GoTo(c, "get") /\ UNCHANGED keys

Write(v) == row' = [value |-> v, version |-> row.version + 1]

FirstRequest ==
    CASE driver = "redis" -> "incr"
      [] driver = "rethinkdb" -> "list"
      [] OTHER -> "get"

\* A client creates an object with a unique key.
on_create_pre(c) ==
    /\ pc[c] = "idle"
    /\ row.value < MaxKey /\ Len(keys) < MaxKey
    /\ GoTo(c, FirstRequest)
    /\ retry' = [retry EXCEPT ![c] = 0]
    /\ UNCHANGED <<driver, row, tables, read, keys, faults>>

-----------------------------------------------------------------------------
(* etcd, ZooKeeper, RAMCloud and Cassandra *)

\* RAMCloud raises NoObjectError, which its driver does not handle.
Get(c) ==
    /\ pc[c] = "get"
    /\ read' = [read EXCEPT ![c] = row]
    /\ GoTo(c, CASE row.value # 0 -> "set"
                 [] driver = "ramcloud" -> "idle"
                 [] OTHER -> "create")
    /\ UNCHANGED <<driver, row, tables, retry, keys, faults>>

\* client.replace compares the values.
EtcdReplace(c) ==
    /\ driver = "etcd"
    /\ IF row.value = read[c].value
       THEN Write(read[c].value + 1) /\ Return(c, read[c].value + 1)
       ELSE Again(c) /\ UNCHANGED row

\* A write that names the version that was read.
VersionedSet(c) ==
    /\ driver \in {"zookeeper", "ramcloud"}
    /\ IF row.version = read[c].version
       THEN Write(read[c].value + 1) /\ Return(c, read[c].value + 1)
       ELSE Again(c) /\ UNCHANGED row

\* Whether the conditional UPDATE was applied is not looked at; the statement
\* does not quote the key, and raises when the server refuses it.
CassandraUpdate(c) ==
    /\ driver = "cassandra"
    /\ \/ /\ IF row.value = read[c].value THEN Write(read[c].value + 1)
                                          ELSE UNCHANGED row
          /\ Return(c, read[c].value + 1)
       \/ GoTo(c, "create") /\ UNCHANGED <<row, keys>>

Set(c) ==
    /\ pc[c] = "set"
    /\ EtcdReplace(c) \/ VersionedSet(c) \/ CassandraUpdate(c)
    /\ UNCHANGED <<driver, tables, read, retry, faults>>

\* Mutant: that another client was faster goes unnoticed.
CreateRowUnchecked(c) ==
    /\ pc[c] = "create"
    /\ IF row.value = 0 THEN Write(1) ELSE UNCHANGED row
    /\ Return(c, 1)
    /\ UNCHANGED <<driver, tables, read, retry, faults>>

\* When another client was faster, etcd starts over, ZooKeeper raises
\* NodeExistsError, and Cassandra does not notice.
CreateRow(c) ==
    /\ pc[c] = "create"
    /\ \/ row.value = 0 /\ Write(1) /\ Return(c, 1)
       \/ /\ row.value # 0
          /\ \/ driver = "etcd"      /\ Again(c)
             \/ driver = "zookeeper" /\ Raise(c)
             \/ driver = "cassandra" /\ Return(c, 1)
          /\ UNCHANGED row
    /\ UNCHANGED <<driver, tables, read, retry, faults>>

\* The write was carried out, its answer is lost: the driver raises.
AnswerLost(c) ==
    /\ pc[c] \in {"set", "create"}
    /\ driver \in {"etcd", "zookeeper", "ramcloud"}
    /\ faults < MaxFaults
    /\ faults' = faults + 1
    /\ CASE pc[c] = "create" /\ row.value = 0 -> Write(1)
         [] pc[c] = "set" /\ row = read[c] -> Write(row.value + 1)
         [] OTHER -> UNCHANGED row
    /\ Raise(c)
    /\ UNCHANGED <<driver, tables, read, retry>>

-----------------------------------------------------------------------------
(* Redis *)

\* INCR, sent by _key_command.
Incr(c) ==
    /\ pc[c] = "incr"
    /\ Write(row.value + 1)
    /\ Return(c, row.value + 1)
    /\ UNCHANGED <<driver, tables, read, retry, faults>>

\* A redirection leaves the row as it was, a connection error may come after
\* the increment; _key_command tries again, then raises DBKeyNotFound.
_key_command(c) ==
    /\ pc[c] = "incr"
    /\ faults < MaxFaults
    /\ faults' = faults + 1
    /\ Write(row.value + 1) \/ UNCHANGED row
    /\ retry' = [retry EXCEPT ![c] = @ + 1]
    /\ GoTo(c, IF retry[c] + 1 < RetryCount THEN "incr" ELSE "idle")
    /\ UNCHANGED <<driver, tables, read, keys>>

-----------------------------------------------------------------------------
(* RethinkDB *)

\* _ensure_table_exists lists the tables, then creates the missing one; the
\* creation raises when another client was faster.
ListTables(c) ==
    /\ pc[c] = "list"
    /\ GoTo(c, IF UNIQUE_KEY_TABLE \in tables THEN "replace" ELSE "create table")
    /\ UNCHANGED <<driver, row, tables, read, retry, keys, faults>>

CreateTable(c) ==
    /\ pc[c] = "create table"
    /\ GoTo(c, IF UNIQUE_KEY_TABLE \in tables THEN "idle" ELSE "replace")
    /\ tables' = tables \cup {UNIQUE_KEY_TABLE}
    /\ UNCHANGED <<driver, row, read, retry, keys, faults>>

Replace(c) ==
    /\ pc[c] = "replace"
    /\ Write(row.value + 1)
    /\ Return(c, row.value + 1)
    /\ UNCHANGED <<driver, tables, read, retry, faults>>

-----------------------------------------------------------------------------
Step(c) == \/ Get(c) \/ Set(c) \/ CreateRow(c)
           \/ Incr(c)
           \/ ListTables(c) \/ CreateTable(c) \/ Replace(c)

Next == \E c \in Clients :
            on_create_pre(c) \/ Step(c) \/ AnswerLost(c) \/ _key_command(c)

Spec == Init /\ [][Next]_vars

\* A client that has called the driver goes on making requests.
Fairness == \A c \in Clients : WF_vars(Step(c))

-----------------------------------------------------------------------------
(* Properties *)

\* The counter is never behind the keys: every key a client was given, by any
\* driver, is at most the value stored in the database, so the counter that a
\* backup extracts and restores has passed all of them (_allocate_unique_key).
CounterCovers == \A i \in DOMAIN keys : keys[i] \in 1..row.value

\* The drivers of etcd, ZooKeeper, RAMCloud, Redis and RethinkDB implement the
\* abstract allocator: however the requests of the clients interleave and
\* fail, each return of allocate_unique_key gives a key not given before.
AllocatorImplemented == Allocator!Spec

\* The retry loops of etcd, ZooKeeper and RAMCloud make progress: while
\* clients compete for the row some allocation succeeds, or all of them end;
\* the clients do not keep each other retrying (allocate_unique_key).
SomeAllocationSucceeds ==
    \A v \in 1..MaxKey :
        row.value = v /\ (\E c \in Clients : pc[c] = "set")
            ~> (row.value # v \/ \A c \in Clients : pc[c] # "set")

\* allocate_unique_key of all drivers: keys are covered by the counter, unique,
\* and allocations go on.
KeysAllocated ==
    []CounterCovers /\ AllocatorImplemented /\ SomeAllocationSucceeds
=============================================================================
