-------------------------------- MODULE OpHash --------------------------------
(***************************************************************************)
(* The hash table of opbox/hash.c, used by the allocator, the remote calls,  *)
(* the command line and the file scanner (base/hash_mem.c is the same code   *)
(* on the pool allocator, with another MIN_NODES).  It is a linear hash      *)
(* table: it grows and shrinks by one bucket at a time, splitting bucket p   *)
(* or merging the last bucket back into it.                                 *)
(*                                                                         *)
(* A chain is the set of its entries; an entry is a key and the data under    *)
(* it.  Nothing depends on the order in a chain, and an operation works on    *)
(* one entry of a key even if there were two.  LH_LOAD_MULT cancels out of    *)
(* the load tests.                                                          *)
(***************************************************************************)
EXTENDS Integers

CONSTANTS
    Key, Value, Null,
    Hash,        \* the hash of each key
    MIN_NODES,
    Failure      \* what may fail: subset of {"calloc", "expand", "contract"}

ASSUME HashConstants ==
    /\ Null \notin Value
    /\ Hash \in [Key -> Nat]
    /\ MIN_NODES \in Nat /\ MIN_NODES >= 2 /\ MIN_NODES % 2 = 0
    /\ Failure \subseteq {"calloc", "expand", "contract"}

VARIABLES
    b,                     \* the chains; its domain is what is allocated
    num_nodes, num_alloc_nodes, p, pmax, num_items,
    ret,                   \* what the last operation returned
    lost                   \* history: the last operation has dropped entries

shape == <<num_nodes, num_alloc_nodes, p, pmax>>
vars == <<b, shape, num_items, ret, lost>>

Entry(k, v) == [key |-> k, data |-> v]

\* op_hash_new.
Init ==
    /\ b = [i \in 0 .. MIN_NODES - 1 |-> {}]
    /\ num_nodes = MIN_NODES \div 2 /\ num_alloc_nodes = MIN_NODES
    /\ p = 0 /\ pmax = MIN_NODES \div 2 /\ num_items = 0
    /\ ret = Null /\ lost = FALSE

Same == [b |-> b, alloc |-> num_alloc_nodes, pmax |-> pmax, p |-> p]

\* As BucketIn, with bucket p taken for split.
BucketInSplitP(t, k) ==
    LET nn == Hash[k] % t.pmax IN IF nn <= t.p THEN Hash[k] % t.alloc ELSE nn

\* getrn: the bucket of a key in the table t.
BucketIn(t, k) ==
    LET nn == Hash[k] % t.pmax IN IF nn < t.p THEN Hash[k] % t.alloc ELSE nn

\* getrn: the walk along the chain stops at an entry of the key, if there is one.
Has(chain, k) == \E e \in chain : e.key = k

The(chain, k) == CHOOSE e \in chain : e.key = k

Data(chain, k) == IF Has(chain, k) THEN The(chain, k).data ELSE Null
------------------------------------------------------------------------------
\* As Stays, by the hash modulo the old number of buckets.
StaysOld(e) == Hash[e.key] % pmax = p

\* expand leaves the entry in bucket p.
Stays(e) == Hash[e.key] % num_alloc_nodes = p

\* expand reallocates when every bucket of this round has been split.
Grows == p + 1 >= pmax

\* expand: the table as it is afterwards.
expand ==
    LET nni  == num_alloc_nodes
        size == IF Grows THEN 2 * nni ELSE nni
    IN  [b |-> [i \in 0 .. size - 1 |->
                  IF i = p THEN {e \in b[p] : Stays(e)}
                  ELSE IF i = p + pmax THEN {e \in b[p] : ~ Stays(e)}
                  ELSE IF i < nni THEN b[i] ELSE {}],
         alloc |-> size,
         pmax |-> IF Grows THEN nni ELSE pmax,
         p |-> IF Grows THEN 0 ELSE p + 1]

\* The table t becomes the table.
Becomes(t) ==
    /\ num_alloc_nodes' = t.alloc /\ pmax' = t.pmax /\ p' = t.p
    /\ num_nodes' = t.p + t.pmax

Overloaded == 2 <= num_items \div num_nodes

\* op_hash_insert, on the table after the load test: replace or append.
Place(t, k, v) ==
    LET i == BucketIn(t, k)
        c == t.b[i]
    IN  \/ /\ Has(c, k)
           /\ b' = [t.b EXCEPT ![i] = (c \ {The(c, k)}) \union {Entry(k, v)}]
           /\ ret' = Data(c, k) /\ UNCHANGED num_items
        \/ /\ ~ Has(c, k)
           /\ b' = [t.b EXCEPT ![i] = c \union {Entry(k, v)}]
           /\ ret' = Null /\ num_items' = num_items + 1
        \/ /\ ~ Has(c, k) /\ "calloc" \in Failure
           /\ b' = t.b /\ ret' = Null /\ UNCHANGED num_items

\* realloc fails in expand: nothing is inserted.
FailedExpand == ret' = Null /\ UNCHANGED <<b, shape, num_items>>

op_hash_insert(k, v) ==
    /\ \/ ~ Overloaded /\ Place(Same, k, v) /\ Becomes(Same)
       \/ Overloaded /\ Place(expand, k, v) /\ Becomes(expand)
       \/ Overloaded /\ Grows /\ "expand" \in Failure /\ FailedExpand
    /\ lost' = FALSE

\* contract, on the chains c that op_hash_delete leaves: the last chain is put
\* behind that of the bucket it was split from.
contract(c) ==
    LET last == p + pmax - 1
        q    == IF p = 0 THEN (pmax \div 2) - 1 ELSE p - 1
        half == IF p = 0 THEN num_alloc_nodes \div 2 ELSE num_alloc_nodes
    IN  \/ /\ b' = [i \in 0 .. half - 1 |->
                     IF i = q THEN c[q] \union c[last] ELSE IF i = last THEN {} ELSE c[i]]
           /\ num_alloc_nodes' = half /\ p' = q
           /\ pmax' = IF p = 0 THEN pmax \div 2 ELSE pmax
           /\ num_nodes' = num_nodes - 1
           /\ lost' = FALSE
        \/ /\ p = 0 /\ "contract" \in Failure
           /\ b' = [c EXCEPT ![last] = {}]
           /\ lost' = (c[last] # {})
           /\ UNCHANGED shape

\* The load test of op_hash_delete, for n items: down_load >= n * 256 / num_nodes.
Underloaded(n) == num_nodes > MIN_NODES /\ (n * 256) \div num_nodes <= 256

op_hash_delete(k) ==
    LET i == BucketIn(Same, k)
        c == [b EXCEPT ![i] = @ \ {The(@, k)}]
    IN  /\ ret' = Data(b[i], k)
        /\ IF ~ Has(b[i], k) THEN lost' = FALSE /\ UNCHANGED <<b, shape, num_items>>
           ELSE /\ num_items' = num_items - 1
                /\ IF Underloaded(num_items') THEN contract(c)
                   ELSE b' = c /\ lost' = FALSE /\ UNCHANGED shape

op_hash_retrieve(k) ==
    /\ ret' = Data(b[BucketIn(Same, k)], k)
    /\ lost' = FALSE
    /\ UNCHANGED <<b, shape, num_items>>

Next ==
    \E k \in Key :
       \/ \E v \in Value : op_hash_insert(k, v)
       \/ op_hash_delete(k)
       \/ op_hash_retrieve(k)

Spec == Init /\ [][Next]_vars
------------------------------------------------------------------------------
\* Through every split and merge an entry stays in the bucket where getrn looks for
\* it, no chain has two entries of a key, and none is in a bucket beyond num_nodes
\* (hash.c:246-354).
Placed ==
    \A i \in DOMAIN b : \A e \in b[i] :
       /\ BucketIn(Same, e.key) = i /\ i < num_nodes
       /\ \A f \in b[i] : f.key = e.key => f = e

\* The map the table stands for.
Contents == [k \in Key |-> Data(b[BucketIn(Same, k)], k)]

Map == INSTANCE OpMap WITH map <- Contents

\* Every operation is that of a map, the growing and shrinking included, but for a
\* delete whose contract could not reallocate and took a chain with it
\* (hash.c:302-308).
ImplementsMap == Map!Init /\ [][~ lost' => Map!Next]_(Map!vars)
==============================================================================
