-------------------------------- MODULE OpMem --------------------------------
(***************************************************************************)
(* The pool allocator of base/opmem.c.  Requests up to MaxSize are served   *)
(* from pools of equal blocks; a pool that runs dry grows by one chunk (a   *)
(* "father") and a periodic check gives idle chunks back.  Larger requests  *)
(* go to the C library.                                                     *)
(*                                                                         *)
(* A critical section of the one mutex is one action, or two under lock;    *)
(* what the code does after the unlock (reading mem_node->ptr in op_malloc, *)
(* p_node in op_realloc) is a step of its own.  Abstractions: a free list is a set    *)
(* (list_first_entry may return any member); addresses are identities;      *)
(* block contents are left out.  A structure that is read or written after  *)
(* free() takes the model to undefined = "freed", a copy to the null        *)
(* pointer to undefined = "null", and nothing is promised from there on.    *)
(***************************************************************************)
EXTENDS Integers, FiniteSets, FiniteSetsExt, Functions

CONSTANTS
    Thread,    \* threads that call the allocator
    PoolSize,  \* op_mem_ele[i].size, a sequence in table order
    PoolNum,   \* op_mem_ele[i].num, same domain
    Father,    \* addresses the C library returns for father headers
    SysNode,   \* nodes of the allocations served by the C library
    SysSize,   \* size of each of those
    ReqSize,   \* sizes callers ask for
    Failure,   \* allocations that may fail: subset of FailurePoint
    MaxMalloc, \* bound on the number of pool allocations
    NULL

Pool == DOMAIN PoolSize

FailurePoint == {"father", "chunk", "node", "hash", "system"}

\* The table at opmem.c:56-72 lists the pools by growing size and the last one
\* has OP_MEM_MAX_SIZE, so every request up to it finds a pool.
ASSUME PoolTable ==
    /\ Pool = 1 .. Cardinality(Pool)
    /\ IsFiniteSet(Pool) /\ Pool # {}
    /\ PoolSize \in [Pool -> Nat \ {0}]
    /\ PoolNum \in [Pool -> Nat \ {0}]
    /\ \A p, q \in Pool : p < q => PoolSize[p] < PoolSize[q]

ASSUME Addresses ==
    /\ NULL \notin SysNode \cup Thread \cup Pool
    /\ \A n \in SysNode \cup {NULL} : n \notin [pool : Pool, father : Father, index : Nat]
    /\ SysSize \in Nat
    /\ \A p \in Pool : SysSize > PoolSize[p]
    /\ ReqSize \subseteq Nat
    /\ Failure \subseteq FailurePoint
    /\ MaxMalloc \in Nat

\* struct op_mem_node: its pool stands for the size field.
Node == [pool : Pool, father : Father, index : Nat]

\* A block is known to the callers by its node: ptr is a function of it.
Block == Node \cup SysNode

VARIABLES
    self,                \* the allocator is initialised
    hash,                \* self->hash: the blocks op_free can find
    list,                \* op_mem_ele[p].list
    can_used_num, all_num, op_malloc_num, op_free_num,
    father_node_list,    \* fathers linked on self->father_node_list
    type, ele, used_size, \* fields of a father
    pool_alloc, pool_alloc_noused, pool_alloc_used,
    system_alloc, system_alloc_used, sys_list,
    heapNode,            \* node structures calloc'ed and not freed
    heapFather,          \* father headers calloc'ed and not freed
    lock,                \* holder of self->lock between two steps, or NULL
    pc, want, mem_node, p_node, \* per thread: position and locals
    held,                \* blocks the callers own
    undefined

poolVars   == <<list, can_used_num, all_num, op_malloc_num, op_free_num>>
fatherVars == <<father_node_list, type, ele, used_size>>
statVars   == <<pool_alloc, pool_alloc_noused, pool_alloc_used>>
sysVars    == <<system_alloc, system_alloc_used, sys_list>>
heapVars   == <<heapNode, heapFather>>
threadVars == <<lock, pc, want, mem_node, p_node, held>>
vars == <<self, hash, poolVars, fatherVars, statVars, sysVars, heapVars,
          threadVars, undefined>>

Total(f) == MapThenSumSet(LAMBDA p : f[p], Pool)

\* The nodes carved out of a chunk of pool p by the first k rounds of the loop.
Carved(p, f, k) == {[pool |-> p, father |-> f, index |-> i] : i \in 0 .. (k - 1)}

op_mem_get_list(size) ==
    CHOOSE p \in Pool : /\ PoolSize[p] >= size
                        /\ \A q \in Pool : PoolSize[q] >= size => p <= q

FitsPool(size) == \E p \in Pool : PoolSize[p] >= size

SizeOf(n) == IF n \in SysNode THEN SysSize ELSE PoolSize[n.pool]

Init ==
    /\ self = FALSE
    /\ hash = {}
    /\ list = [p \in Pool |-> {}]
    /\ can_used_num = [p \in Pool |-> 0]
    /\ all_num = [p \in Pool |-> 0]
    /\ op_malloc_num = [p \in Pool |-> 0]
    /\ op_free_num = [p \in Pool |-> 0]
    /\ father_node_list = {}
    /\ type = [f \in Father |-> NULL]
    /\ ele = [f \in Father |-> NULL]
    /\ used_size = [f \in Father |-> 0]
    /\ pool_alloc = 0 /\ pool_alloc_noused = 0 /\ pool_alloc_used = 0
    /\ system_alloc = 0 /\ system_alloc_used = 0 /\ sys_list = {}
    /\ heapNode = {} /\ heapFather = {}
    /\ pc = [t \in Thread |-> "idle"]
    /\ lock = NULL
    /\ want = [t \in Thread |-> NULL]
    /\ mem_node = [t \in Thread |-> NULL]
    /\ p_node = [t \in Thread |-> NULL]
    /\ held = {}
    /\ undefined = "no"

\* One father per pool, of the kind that is never given back.  When an
\* allocation fails opmem_init returns NULL and the program ends.
opmem_init ==
    /\ ~self
    /\ \E first \in Injection(Pool, Father) :
          /\ father_node_list' = {first[p] : p \in Pool}
          /\ heapFather' = {first[p] : p \in Pool}
          /\ type' = [f \in Father |->
                        IF \E p \in Pool : f = first[p] THEN "CANNOT_FREE" ELSE type[f]]
          /\ ele' = [f \in Father |->
                        IF \E p \in Pool : f = first[p]
                        THEN CHOOSE p \in Pool : f = first[p] ELSE ele[f]]
          /\ list' = [p \in Pool |-> Carved(p, first[p], PoolNum[p])]
          /\ heapNode' = UNION {Carved(p, first[p], PoolNum[p]) : p \in Pool}
    /\ can_used_num' = PoolNum
    /\ all_num' = PoolNum
    /\ pool_alloc' = Total([p \in Pool |-> PoolSize[p] * PoolNum[p]])
    /\ pool_alloc_noused' = Total([p \in Pool |-> PoolSize[p] * PoolNum[p]])
    /\ self' = TRUE
    /\ UNCHANGED <<hash, op_malloc_num, op_free_num, used_size, pool_alloc_used,
                   sysVars, threadVars, undefined>>
------------------------------------------------------------------------------
\* The C program goes on with memory it has given back, or with a null pointer.
Undefined(why) ==
    /\ undefined' = why
    /\ UNCHANGED <<self, hash, poolVars, fatherVars, statVars, sysVars, heapVars,
                   threadVars>>

\* The value of undefined after using structures that ought to be allocated.
Touching(allocated) == IF allocated THEN undefined ELSE "freed"

\* op_hash_insert: its result is not looked at, so a failure goes unnoticed.
HashInsert(n) ==
    \/ hash' = hash \cup {n}
    \/ "hash" \in Failure /\ UNCHANGED hash

\* A node leaves or joins the free list of pool p.
UnlinkKeepsCount(p, n) ==
    /\ list' = [list EXCEPT ![p] = @ \ {n}]
    /\ UNCHANGED can_used_num

UnlinkKeepsNode(p, n) ==
    /\ can_used_num' = [can_used_num EXCEPT ![p] = @ - 1]
    /\ UNCHANGED list

Unlink(p, n) ==
    /\ can_used_num' = [can_used_num EXCEPT ![p] = @ - 1]
    /\ list' = [list EXCEPT ![p] = @ \ {n}]

Link(p, n) ==
    /\ list' = [list EXCEPT ![p] = @ \cup {n}]
    /\ can_used_num' = [can_used_num EXCEPT ![p] = @ + 1]

\* The bytes charged to a father, and those moved from unused to used.
ChargeNeverReturns(n, size) ==
    used_size' = [used_size EXCEPT ![n.father] = IF size > 0 THEN @ + size ELSE @]

Charge(n, size) == used_size' = [used_size EXCEPT ![n.father] = @ + size]

CountUsed(size) ==
    /\ pool_alloc_noused' = pool_alloc_noused - size
    /\ pool_alloc_used' = pool_alloc_used + size

\* What t asks op_malloc for: its caller's size, or from op_realloc the old
\* size plus the new one (opmem.c:357).
Asks(t, size) ==
    /\ self /\ undefined = "no" /\ lock = NULL
    /\ \/ pc[t] = "idle" /\ size \in ReqSize
       \/ pc[t] = "resize" /\ \E more \in ReqSize : size = SizeOf(p_node[t]) + more

\* A non-null result reaches the caller.  op_realloc answers it by returning
\* NULL (opmem.c:358): its caller keeps the old block and nobody has the new one.
Deliver(t, n) ==
    /\ held' = held \cup {IF p_node[t] = NULL THEN n ELSE p_node[t]}
    /\ pc' = [pc EXCEPT ![t] = "idle"]
    /\ mem_node' = [mem_node EXCEPT ![t] = NULL]
    /\ p_node' = [p_node EXCEPT ![t] = NULL]

\* A null result: op_realloc goes on to copy to it (opmem.c:361).
FailsTo(t) == undefined' = IF p_node[t] = NULL THEN undefined ELSE "null"

op_malloc_system(t, size) ==
    /\ Asks(t, size) /\ ~ FitsPool(size)
    /\ \/ \E n \in SysNode \ sys_list :
             /\ sys_list' = sys_list \cup {n}
             /\ HashInsert(n)
             /\ system_alloc' = system_alloc + SysSize
             /\ system_alloc_used' = system_alloc_used + SysSize
             /\ Deliver(t, n)
             /\ UNCHANGED undefined
       \/ /\ "system" \in Failure \/ SysNode \subseteq sys_list
          /\ FailsTo(t)
          /\ UNCHANGED <<hash, sysVars, pc, mem_node, p_node, held>>
    /\ UNCHANGED <<self, poolVars, fatherVars, statVars, heapVars, lock, want>>

\* opmem.c:264-266: the pool has a free node.
op_malloc_lock(t, size) ==
    /\ Asks(t, size) /\ FitsPool(size)
    /\ LET p == op_mem_get_list(size) IN
       /\ list[p] # {}
       /\ Total(op_malloc_num) < MaxMalloc
       /\ want' = [want EXCEPT ![t] = p]
    /\ lock' = t
    /\ pc' = [pc EXCEPT ![t] = "take"]
    /\ UNCHANGED <<self, hash, poolVars, fatherVars, statVars, sysVars, heapVars,
                   mem_node, p_node, held, undefined>>

\* opmem.c:267-308: the pool grows by a father, its chunk and its nodes.
op_malloc_grow(t, size) ==
    /\ Asks(t, size) /\ FitsPool(size)
    /\ father_node_list \subseteq heapFather
    /\ LET p == op_mem_get_list(size) IN
       /\ list[p] = {}
       /\ Total(op_malloc_num) < MaxMalloc
       /\ \E f \in Father \ heapFather :
             /\ father_node_list' = father_node_list \cup {f}
             /\ heapFather' = heapFather \cup {f}
             /\ type' = [type EXCEPT ![f] = "CAN_FREE"]
             /\ ele' = [ele EXCEPT ![f] = p]
             /\ used_size' = [used_size EXCEPT ![f] = 0]
             /\ list' = [list EXCEPT ![p] = Carved(p, f, PoolNum[p])]
             /\ heapNode' = heapNode \cup Carved(p, f, PoolNum[p])
       /\ can_used_num' = [can_used_num EXCEPT ![p] = @ + PoolNum[p]]
       /\ all_num' = [all_num EXCEPT ![p] = @ + PoolNum[p]]
       /\ pool_alloc' = pool_alloc + PoolSize[p] * PoolNum[p]
       /\ pool_alloc_noused' = pool_alloc_noused + PoolSize[p] * PoolNum[p]
       /\ want' = [want EXCEPT ![t] = p]
    /\ lock' = t
    /\ pc' = [pc EXCEPT ![t] = "take"]
    /\ UNCHANGED <<self, hash, op_malloc_num, op_free_num, pool_alloc_used, sysVars,
                   mem_node, p_node, held, undefined>>

\* The father header cannot be allocated.
op_malloc_no_father(t, size) ==
    /\ Asks(t, size) /\ FitsPool(size)
    /\ list[op_mem_get_list(size)] = {}
    /\ "father" \in Failure \/ Father \subseteq heapFather
    /\ FailsTo(t)
    /\ UNCHANGED <<self, hash, poolVars, fatherVars, statVars, sysVars, heapVars,
                   threadVars>>

\* The chunk (k = 0) or the node of index k cannot be allocated: the father is
\* freed but stays linked, and the nodes made so far stay on the pool's list.
op_malloc_no_chunk(t, size, k) ==
    /\ Asks(t, size) /\ FitsPool(size)
    /\ father_node_list \subseteq heapFather
    /\ IF k = 0 THEN Failure \cap {"chunk", "node"} # {} ELSE "node" \in Failure
    /\ LET p == op_mem_get_list(size) IN
       /\ list[p] = {}
       /\ k < PoolNum[p]
       /\ \E f \in Father \ heapFather :
             /\ father_node_list' = father_node_list \cup {f}
             /\ type' = [type EXCEPT ![f] = "CAN_FREE"]
             /\ ele' = [ele EXCEPT ![f] = p]
             /\ used_size' = [used_size EXCEPT ![f] = 0]
             /\ list' = [list EXCEPT ![p] = Carved(p, f, k)]
             /\ heapNode' = heapNode \cup Carved(p, f, k)
       /\ can_used_num' = [can_used_num EXCEPT ![p] = @ + k]
       /\ all_num' = [all_num EXCEPT ![p] = @ + k]
       /\ pool_alloc' = pool_alloc + PoolSize[p] * k
       /\ pool_alloc_noused' = pool_alloc_noused + PoolSize[p] * k
    /\ FailsTo(t)
    /\ UNCHANGED <<self, hash, op_malloc_num, op_free_num, heapFather,
                   pool_alloc_used, sysVars, threadVars>>

\* Linking a new father writes to the last one on the list.
op_malloc_link_freed(t, size) ==
    /\ Asks(t, size) /\ FitsPool(size)
    /\ list[op_mem_get_list(size)] = {}
    /\ ~ (father_node_list \subseteq heapFather)
    /\ Undefined("freed")

\* opmem.c:312-323.
op_malloc_take(t) ==
    /\ pc[t] = "take" /\ undefined = "no"
    /\ \E n \in list[want[t]] :
          \/ n.father \notin heapFather /\ Undefined("freed")
          \/ /\ n.father \in heapFather
             /\ Unlink(want[t], n)
             /\ HashInsert(n)
             /\ Charge(n, SizeOf(n))
             /\ CountUsed(SizeOf(n))
             /\ op_malloc_num' = [op_malloc_num EXCEPT ![want[t]] = @ + 1]
             /\ mem_node' = [mem_node EXCEPT ![t] = n]
             /\ lock' = NULL
             /\ pc' = [pc EXCEPT ![t] = "got"]
             /\ UNCHANGED <<self, all_num, op_free_num, father_node_list, type, ele,
                            pool_alloc, sysVars, heapVars, want, p_node, held, undefined>>

\* opmem.c:324: mem_node->ptr is read after the unlock.
op_malloc_return(t) ==
    /\ pc[t] = "got" /\ undefined = "no"
    /\ undefined' = Touching(mem_node[t] \in heapNode)
    /\ Deliver(t, mem_node[t])
    /\ want' = [want EXCEPT ![t] = NULL]
    /\ UNCHANGED <<self, hash, poolVars, fatherVars, statVars, sysVars, heapVars, lock>>
------------------------------------------------------------------------------
\* A block the hash does not know (its insertion failed) is left alone.
op_free_unknown(n) ==
    /\ n \notin hash
    /\ UNCHANGED <<self, hash, poolVars, fatherVars, statVars, sysVars, heapVars,
                   lock, pc, want, mem_node, p_node, undefined>>

op_free_system(n) ==
    /\ n \in hash /\ n \in SysNode
    /\ hash' = hash \ {n}
    /\ sys_list' = sys_list \ {n}
    /\ system_alloc' = system_alloc - SysSize
    /\ system_alloc_used' = system_alloc_used - SysSize
    /\ UNCHANGED <<self, poolVars, fatherVars, statVars, heapVars,
                   lock, pc, want, mem_node, p_node, undefined>>

op_free_pool(n) ==
    /\ n \in hash /\ n \notin SysNode
    /\ undefined' = Touching(n \in heapNode /\ n.father \in heapFather)
    /\ LET p == op_mem_get_list(SizeOf(n)) IN
       /\ hash' = hash \ {n}
       /\ Link(p, n)
       /\ Charge(n, -SizeOf(n))
       /\ CountUsed(-SizeOf(n))
       /\ op_free_num' = [op_free_num EXCEPT ![p] = @ + 1]
    /\ UNCHANGED <<self, all_num, op_malloc_num, father_node_list, type, ele, pool_alloc,
                   sysVars, heapVars, lock, pc, want, mem_node, p_node>>

\* The owner of a block gives it back.
op_free(t, n) ==
    /\ self /\ undefined = "no" /\ lock = NULL /\ pc[t] = "idle" /\ n \in held
    /\ held' = held \ {n}
    /\ op_free_unknown(n) \/ op_free_system(n) \/ op_free_pool(n)

\* opmem.c:347-355; the caller does not use the block during the call.
op_realloc(t, n) ==
    /\ self /\ undefined = "no" /\ lock = NULL /\ pc[t] = "idle"
    /\ n \in held /\ n \in hash
    /\ p_node' = [p_node EXCEPT ![t] = n]
    /\ held' = held \ {n}
    /\ pc' = [pc EXCEPT ![t] = "realloc"]
    /\ UNCHANGED <<self, hash, poolVars, fatherVars, statVars, sysVars, heapVars,
                   lock, want, mem_node, undefined>>

\* opmem.c:357: p_node->size is read after the unlock.
op_realloc_size(t) ==
    /\ pc[t] = "realloc" /\ undefined = "no"
    /\ undefined' = Touching(p_node[t] \in heapNode \cup sys_list)
    /\ pc' = [pc EXCEPT ![t] = "resize"]
    /\ UNCHANGED <<self, hash, poolVars, fatherVars, statVars, sysVars, heapVars,
                   lock, want, mem_node, p_node, held>>
------------------------------------------------------------------------------
\* Fathers that op_mem_release_check gives back, and their nodes on pool p.
ReleasableInUse == {f \in father_node_list : type[f] # "CANNOT_FREE"}

Releasable ==
    {f \in father_node_list : type[f] # "CANNOT_FREE" /\ used_size[f] = 0}

Removed(p) == {n \in list[p] : n.father \in Releasable /\ ele[n.father] = p}

RemovedBytes == Total([p \in Pool |-> PoolSize[p] * Cardinality(Removed(p))])

\* Called from a timer of the main loop.  The chunk itself is not freed.
op_mem_release_check ==
    /\ self /\ undefined = "no" /\ lock = NULL
    /\ father_node_list \subseteq heapFather
    /\ list' = [p \in Pool |-> list[p] \ Removed(p)]
    /\ can_used_num' = [p \in Pool |-> can_used_num[p] - Cardinality(Removed(p))]
    /\ all_num' = [p \in Pool |-> all_num[p] - Cardinality(Removed(p))]
    /\ pool_alloc' = pool_alloc - RemovedBytes
    /\ pool_alloc_noused' = pool_alloc_noused - RemovedBytes
    /\ heapNode' = heapNode \ UNION {Removed(p) : p \in Pool}
    /\ father_node_list' = father_node_list \ Releasable
    /\ heapFather' = heapFather \ Releasable
    /\ UNCHANGED <<self, hash, op_malloc_num, op_free_num, type, ele, used_size,
                   pool_alloc_used, sysVars, threadVars, undefined>>

\* Both walk the father list under the lock and read every header on it.
walk_freed_father ==
    /\ self /\ undefined = "no" /\ lock = NULL
    /\ ~ (father_node_list \subseteq heapFather)
    /\ Undefined("freed")

\* Nothing is known of the program any more.
Stopped == undefined # "no" /\ UNCHANGED vars

AskedSize == ReqSize \cup {PoolSize[p] + more : p \in Pool, more \in ReqSize}
                     \cup {SysSize + more : more \in ReqSize}

op_malloc(t) ==
    \/ \E size \in AskedSize :
          \/ op_malloc_system(t, size)
          \/ op_malloc_lock(t, size)
          \/ op_malloc_grow(t, size)
          \/ op_malloc_no_father(t, size)
          \/ \E k \in 0 .. Max({PoolNum[p] : p \in Pool}) : op_malloc_no_chunk(t, size, k)
          \/ op_malloc_link_freed(t, size)
    \/ op_malloc_take(t)
    \/ op_malloc_return(t)
    \/ op_realloc_size(t)

Next ==
    \/ opmem_init
    \/ \E t \in Thread : op_malloc(t)
    \/ \E t \in Thread, n \in held : op_free(t, n) \/ op_realloc(t, n)
    \/ op_mem_release_check
    \/ walk_freed_father
    \/ Stopped

Spec == Init /\ [][Next]_vars
------------------------------------------------------------------------------
FreeNode == UNION {list[p] : p \in Pool}

\* Nodes of father f that are out: handed to a caller or lost on the way.
OutOf(f) == {n \in heapNode \ FreeNode : n.father = f}

\* Blocks some thread is going to touch or some caller owns.
InHand == held \cup {mem_node[t] : t \in Thread} \cup {p_node[t] : t \in Thread}

TypeOK ==
    /\ self \in BOOLEAN
    /\ hash \subseteq Block
    /\ list \in [Pool -> SUBSET Node]
    /\ can_used_num \in [Pool -> Nat] /\ all_num \in [Pool -> Nat]
    /\ op_malloc_num \in [Pool -> Nat] /\ op_free_num \in [Pool -> Nat]
    /\ father_node_list \subseteq Father
    /\ type \in [Father -> {"CAN_FREE", "CANNOT_FREE", NULL}]
    /\ ele \in [Father -> Pool \cup {NULL}]
    /\ used_size \in [Father -> Nat]
    /\ sys_list \subseteq SysNode
    /\ heapNode \subseteq Node /\ heapFather \subseteq Father
    /\ lock \in Thread \cup {NULL}
    /\ pc \in [Thread -> {"idle", "take", "got", "realloc", "resize"}]
    /\ want \in [Thread -> Pool \cup {NULL}]
    /\ mem_node \in [Thread -> Node \cup {NULL}]
    /\ p_node \in [Thread -> Block \cup {NULL}]
    /\ held \subseteq Block
    /\ undefined \in {"no", "freed", "null"}

\* opmem.c:425 gives a chunk back on the strength of used_size alone, so it must
\* be, for every live father, the bytes of its nodes that are out.
UsedSizeExact ==
    \A f \in heapFather : used_size[f] = PoolSize[ele[f]] * Cardinality(OutOf(f))

\* The per-pool counters that op_mem_information prints agree with the lists,
\* whichever allocations failed on the way.
CountersExact ==
    \A p \in Pool :
       /\ can_used_num[p] = Cardinality(list[p])
       /\ all_num[p] = Cardinality({n \in heapNode : n.pool = p})
       /\ op_malloc_num[p] - op_free_num[p] = all_num[p] - can_used_num[p]

\* A block that is owned or on its way to an owner is not on a free list, its
\* node is allocated, and no two threads are given the same block: op_malloc
\* never hands out a block twice and op_mem_release_check never takes one away.
NoDoubleIssue ==
    /\ InHand \cap FreeNode = {}
    /\ InHand \subseteq heapNode \cup sys_list \cup {NULL}
    /\ \A t, u \in Thread : t # u /\ mem_node[t] # NULL => mem_node[t] # mem_node[u]
    /\ \A t \in Thread : mem_node[t] \notin held

\* Freed memory is touched only after the allocation of a chunk or of one of its
\* nodes has failed and left a freed father on the list (opmem.c:281, 293).
FreedUseNeedsFailedGrow ==
    undefined = "freed" => ~ (father_node_list \subseteq heapFather)
==============================================================================
