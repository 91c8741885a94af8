------------------------------ MODULE DbStore ------------------------------
(***************************************************************************)
(* The controller's cache (db/db_store.py): for each model the objects by  *)
(* ID and one index, a constant depth tree of sets of IDs                  *)
(* (utils/radix_tree.py).  An object of the model Parent embeds objects of *)
(* the model Child, which the store caches on their own while some parent  *)
(* refers to them.  A parent is indexed by its topic, a child by its       *)
(* network and each of its addresses.                                      *)
(***************************************************************************)
EXTENDS Integers, FiniteSetsExt, TLC

CONSTANTS
    Parents, Children,   \* IDs
    Values,              \* values of the indexed fields
    Contents,            \* the children's fields: [lswitch, ips]
    ANY                  \* None: a field not set, and the wildcard of a query

VARIABLES
    store,       \* the DbStore; see EmptyStore
    cleared      \* it was cleared while it held children

vars == <<store, cleared>>

ModelNames == {"Parent", "Child"}
depth == [Parent |-> 1, Child |-> 2]

\* A parent, with the children it embeds.
Embeddings == UNION {[S -> Contents] : S \in SUBSET Children}

Paths(m) == [1..depth[m] -> Values \cup {ANY}]

EmptyCache == [objs |-> <<>>, keys |-> <<>>, tree |-> <<>>]

\* The caches of the models, the children of each parent, the parents of each
\* child, and whether the last operation raised KeyError.
EmptyStore ==
    [cache |-> [m \in ModelNames |-> EmptyCache],
     obj_to_embedded |-> [p \in Parents |-> {}],
     embedded_refs |-> [c \in Children |-> {}],
     raised |-> FALSE]

TypeOK ==
    /\ \A m \in ModelNames : LET c == store.cache[m] IN
           /\ DOMAIN c.objs \subseteq Parents \cup Children
           /\ DOMAIN c.keys = DOMAIN c.objs
           /\ DOMAIN c.tree \subseteq Paths(m)
    /\ store.obj_to_embedded \in [Parents -> SUBSET Children]
    /\ store.embedded_refs \in [Children -> SUBSET Parents]
    /\ store.raised \in BOOLEAN
    /\ cleared \in BOOLEAN

Init == store = EmptyStore /\ cleared = FALSE

-----------------------------------------------------------------------------
(* RadixTree: the paths that exist and the IDs at each *)

At(f, x) == IF x \in DOMAIN f THEN f[x] ELSE {}

\* Going to a leaf makes the path.  delete never removes one: the key of a
\* node it went through is always in the node.
TreeUpdate(tree, added, deleted, id) ==
    [q \in DOMAIN tree \cup added \cup deleted |->
        (At(tree, q) \cup {i \in {id} : q \in added})
            \ {i \in {id} : q \in deleted}]

get_all(tree, path) ==
    UNION {tree[q] : q \in {q \in DOMAIN tree :
               \A i \in DOMAIN path : path[i] \in {ANY, q[i]}}}

-----------------------------------------------------------------------------
(* _IndexCache and _ModelCache *)

\* A list gives a key for each of its elements, a field not set ANY (MISSING).
_get_keys(m, obj) ==
    IF m = "Parent" THEN {<<obj.topic>>}
    ELSE {<<obj.lswitch, ip>> : ip \in obj.ips}

CacheUpdate(s, m, id, obj) ==
    LET new == _get_keys(m, obj)
        old == At(s.cache[m].keys, id)
    IN  [s EXCEPT !.cache[m] =
            [objs |-> id :> obj @@ @.objs, keys |-> id :> new @@ @.keys,
             tree |-> TreeUpdate(@.tree, new \ old, old \ new, id)]]

\* _keys.pop and _objs.pop raise for an object that is not cached.
CacheDelete(s, m, id) ==
    IF id \notin DOMAIN s.cache[m].objs THEN [s EXCEPT !.raised = TRUE]
    ELSE [s EXCEPT !.cache[m] =
            [objs |-> [i \in DOMAIN @.objs \ {id} |-> @.objs[i]],
             keys |-> [i \in DOMAIN @.keys \ {id} |-> @.keys[i]],
             tree |-> TreeUpdate(@.tree, {}, @.keys[id], id)]]

-----------------------------------------------------------------------------
(* DbStore *)

\* Mutant: the other parents are not looked at.
DeleteEmbeddedAlways(s, p, child) ==
    CacheDelete([s EXCEPT !.embedded_refs[child] = @ \ {p}], "Child", child)

\* The child goes with the last parent that refers to it.
_delete_embedded(s, p, child) ==
    LET t == [s EXCEPT !.embedded_refs[child] = @ \ {p}]
    IN  IF t.embedded_refs[child] # {} THEN t
        ELSE CacheDelete(t, "Child", child)

\* An exception ends the loop over the children.
DeleteAllEmbedded(s, p, children) ==
    LET Step(child, t) == IF t.raised THEN t ELSE _delete_embedded(t, p, child)
    IN  FoldSet(Step, s, children)

_update_embedded(s, p, embedded) ==
    LET Add(child, t) ==
            [CacheUpdate(t, "Child", child, embedded[child])
                EXCEPT !.embedded_refs[child] = @ \cup {p}]
        t == DeleteAllEmbedded(FoldSet(Add, s, DOMAIN embedded), p,
                               s.obj_to_embedded[p] \ DOMAIN embedded)
    IN  IF t.raised THEN t
        ELSE [t EXCEPT !.obj_to_embedded[p] = DOMAIN embedded]

Called == [store EXCEPT !.raised = FALSE]

\* update_model_object
update(p, topic, embedded) ==
    LET obj == [topic |-> topic, embedded |-> embedded]
    IN  /\ store' = _update_embedded(CacheUpdate(Called, "Parent", p, obj),
                                     p, embedded)
        /\ UNCHANGED cleared

\* delete_model_object, of an object that is cached.
delete(p) ==
    /\ p \in DOMAIN store.cache["Parent"].objs
    /\ LET s == DeleteAllEmbedded([Called EXCEPT !.obj_to_embedded[p] = {}],
                                  p, store.obj_to_embedded[p])
       IN  store' = IF s.raised THEN s ELSE CacheDelete(s, "Parent", p)
    /\ UNCHANGED cleared

\* CONTROLLER_REINITIALIZE: the caches go, the references stay.
clear ==
    /\ store' = [Called EXCEPT !.cache = EmptyStore.cache]
    /\ cleared' = (cleared \/ DOMAIN store.cache["Child"].objs # {})

-----------------------------------------------------------------------------
Next ==
    \/ \E p \in Parents, topic \in Values, embedded \in Embeddings :
           update(p, topic, embedded)
    \/ \E p \in Parents : delete(p)
    \/ clear

Spec == Init /\ [][Next]_vars

-----------------------------------------------------------------------------
(* Properties *)

\* A query by an index, with or without wildcards, finds exactly the cached
\* objects one of whose keys matches, whatever the objects' keys were before
\* (_IndexCache.update, _IndexCache.delete, RadixTree.get_all).
IndexExact ==
    \A m \in ModelNames : LET c == store.cache[m] IN
        \A path \in Paths(m) :
            get_all(c.tree, path) =
                {id \in DOMAIN c.objs : \E key \in _get_keys(m, c.objs[id]) :
                    \A i \in DOMAIN path : path[i] \in {ANY, key[i]}}

\* Unless the store was cleared while it held children, a child is cached
\* exactly while a cached parent embeds it, also when several parents share
\* it, and no operation raises (_update_embedded, _delete_embedded, delete).
EmbeddedExact ==
    ~cleared =>
        /\ ~store.raised
        /\ DOMAIN store.cache["Child"].objs =
               LET parents == store.cache["Parent"].objs
               IN  UNION {DOMAIN parents[p].embedded : p \in DOMAIN parents}

\* What DbStore is asked for is what was put into it: by ID, by index, and for
\* objects that are embedded in others.
CacheExact == IndexExact /\ EmbeddedExact
=============================================================================
