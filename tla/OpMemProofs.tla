----------------------------- MODULE OpMemProofs -----------------------------
(*****************************************************************************)
(* Theorems about the pool allocator: TypeOK, UsedSizeExact, CountersExact,  *)
(* NoDoubleIssue and FreedUseNeedsFailedGrow hold for any number of threads, *)
(* any pool table and any pattern of allocation failures.  First the         *)
(* inductive invariant and the steps of op_malloc, op_calloc, op_realloc and *)
(* op_free; then opmem_init, the growth of a pool and op_mem_release_check;  *)
(* then the theorems.                                                        *)
(*****************************************************************************)
EXTENDS OpMem, FiniteSetTheorems, TLAPS

USE SMTT(60)

\* The variables the invariant speaks of, with counters that might be negative.
BaseType ==
    /\ self \in BOOLEAN
    /\ hash \subseteq Block
    /\ list \in [Pool -> SUBSET Node]
    /\ can_used_num \in [Pool -> Int] /\ all_num \in [Pool -> Int]
    /\ op_malloc_num \in [Pool -> Nat] /\ op_free_num \in [Pool -> Nat]
    /\ father_node_list \subseteq Father
    /\ type \in [Father -> {"CAN_FREE", "CANNOT_FREE", NULL}]
    /\ ele \in [Father -> Pool \cup {NULL}]
    /\ used_size \in [Father -> Int]
    /\ sys_list \subseteq SysNode
    /\ heapNode \subseteq Node /\ heapFather \subseteq Father
    /\ lock \in Thread \cup {NULL}
    /\ pc \in [Thread -> {"idle", "take", "got", "realloc", "resize"}]
    /\ want \in [Thread -> Pool \cup {NULL}]
    /\ mem_node \in [Thread -> Node \cup {NULL}]
    /\ p_node \in [Thread -> Block \cup {NULL}]
    /\ held \subseteq Block
    /\ undefined \in {"no", "freed", "null"}

NodesOf(p) == {n \in heapNode : n.pool = p}

\* Every node belongs to a linked father of its pool; only free nodes may
\* belong to a father that was freed while linked.
Shape ==
    /\ \A p \in Pool : list[p] \subseteq NodesOf(p)
    /\ heapFather \subseteq father_node_list
    /\ \A f \in father_node_list : ele[f] \in Pool
    /\ \A n \in heapNode : n.father \in father_node_list /\ ele[n.father] = n.pool
    /\ \A p \in Pool : \A n \in NodesOf(p) \ list[p] : n.father \in heapFather

\* The nodes of father f that are out.
Lent(f) == {n \in NodesOf(ele[f]) \ list[ele[f]] : n.father = f}

\* The counters, over sets that are finite.
Counts ==
    /\ \A p \in Pool : /\ IsFiniteSet(NodesOf(p))
                       /\ can_used_num[p] = Cardinality(list[p])
                       /\ all_num[p] = Cardinality(NodesOf(p))
                       /\ op_malloc_num[p] - op_free_num[p] = all_num[p] - can_used_num[p]
    /\ \A f \in heapFather : used_size[f] = PoolSize[ele[f]] * Cardinality(Lent(f))
    /\ \A f \in Father \ heapFather : used_size[f] = 0

\* A block that is out: its node is allocated and on no free list.
IsOut(n) == \/ n \in sys_list
            \/ n \in heapNode /\ n \notin list[n.pool]

\* What the hash knows, what callers own and what threads carry is out, and
\* no block has two owners.
Owners ==
    /\ \A n \in hash \cup held : IsOut(n)
    /\ \A t \in Thread :
          /\ mem_node[t] # NULL => IsOut(mem_node[t]) /\ mem_node[t] \notin held
          /\ p_node[t] # NULL => IsOut(p_node[t]) /\ p_node[t] \notin held
          /\ \A u \in Thread :
                /\ mem_node[t] # NULL => mem_node[t] # p_node[u]
                /\ t # u /\ mem_node[t] # NULL => mem_node[t] # mem_node[u]
                /\ t # u /\ p_node[t] # NULL => p_node[t] # p_node[u]

\* What a thread carries at each position.
Positions ==
    \A t \in Thread :
       /\ pc[t] = "idle" => mem_node[t] = NULL /\ p_node[t] = NULL
       /\ pc[t] = "take" => lock = t /\ want[t] \in Pool /\ mem_node[t] = NULL
       /\ pc[t] = "got" => mem_node[t] # NULL
       /\ pc[t] \in {"realloc", "resize"} => p_node[t] # NULL /\ mem_node[t] = NULL
       /\ lock = t => pc[t] = "take"

\* Before opmem_init there is nothing.
Fresh ==
    ~self => /\ heapNode = {} /\ father_node_list = {} /\ heapFather = {}
             /\ \A p \in Pool : op_malloc_num[p] = 0 /\ op_free_num[p] = 0
             /\ undefined = "no"

IInv ==
    /\ BaseType /\ Shape /\ Counts /\ Owners /\ Positions /\ Fresh
    /\ FreedUseNeedsFailedGrow
------------------------------------------------------------------------------
\* The loop that carves a chunk makes k distinct nodes of its pool and father.
LEMMA CarvedFacts ==
    ASSUME NEW p \in Pool, NEW f \in Father, NEW k \in Nat
    PROVE  /\ Carved(p, f, k) \subseteq Node
           /\ \A n \in Carved(p, f, k) : n.pool = p /\ n.father = f
           /\ IsFiniteSet(Carved(p, f, k))
           /\ Cardinality(Carved(p, f, k)) = k
<1> DEFINE I == 0 .. (k - 1)
           g == [i \in I |-> [pool |-> p, father |-> f, index |-> i]]
<1>1. IsFiniteSet(I) /\ Cardinality(I) = k
  BY FS_Interval
<1>2. g \in Surjection(I, Carved(p, f, k))
  BY ZenonT(60) DEF Surjection, Carved
<1>3. g \in Injection(I, Carved(p, f, k))
  BY ZenonT(60) DEF Injection, IsInjective, Carved
<1>4. IsFiniteSet(Carved(p, f, k)) /\ Cardinality(Carved(p, f, k)) = k
  BY <1>1, <1>2, <1>3, FS_Surjection
<1>5. QED
  BY <1>4 DEF Carved, Node

\* The rows of the pool table are numbered.
LEMMA PoolNumbers ==
    /\ Pool \subseteq Nat
    /\ \A p \in Pool : PoolSize[p] \in Nat /\ PoolSize[p] > 0
    /\ \A p \in Pool : PoolNum[p] \in Nat /\ PoolNum[p] > 0
<1>1. \A n \in Nat : 1 .. n \subseteq Nat
  OBVIOUS
<1>2. Cardinality(Pool) \in Nat
  BY PoolTable, FS_CardinalityType, ZenonT(60)
<1>3. Pool \subseteq Nat
  BY <1>1, <1>2, PoolTable, ZenonT(60)
<1>4. QED
  BY <1>3, PoolTable

\* op_mem_get_list finds a pool for every size some pool holds.
LEMMA GetListInPool ==
    ASSUME NEW size \in Int, FitsPool(size)
    PROVE  op_mem_get_list(size) \in Pool
<1> DEFINE T == {p \in Pool : PoolSize[p] >= size}
<1>1. Pool \subseteq Nat
  BY PoolNumbers, ZenonT(60)
<1>2. T # {} /\ T \subseteq Nat
  BY ZenonT(60), <1>1 DEF FitsPool
<1>3. PICK p \in T : \A q \in T : ~ (<<q, p>> \in OpToRel(<, Nat))
  BY ZenonT(60), <1>2, NatLessThanWellFounded, WFMin
<1>4. \A q \in T : p <= q
  <2>1. SUFFICES ASSUME NEW q \in T, ~ (p <= q) PROVE FALSE
    BY ZenonT(60)
  <2>2. p \in Nat /\ q \in Nat
    BY <1>2, ZenonT(60)
  <2>3. <<q, p>> \in OpToRel(<, Nat)
    BY <2>1, <2>2 DEF OpToRel
  <2>4. QED
    BY ZenonT(60), <1>3, <2>3
<1>5. QED
  BY <1>4, ZenonT(60) DEF op_mem_get_list

\* op_free finds the pool a node came from by its size (opmem.c:391).
LEMMA GetListOfNode ==
    ASSUME NEW p \in Pool
    PROVE  op_mem_get_list(PoolSize[p]) = p
<1>1. Pool \subseteq Nat /\ \A q \in Pool : PoolSize[q] \in Nat
  BY PoolNumbers, ZenonT(60)
<1>2. \A q \in Pool : PoolSize[q] >= PoolSize[p] => p <= q
  BY <1>1, PoolTable
<1>3. \A q \in Pool : (/\ PoolSize[q] >= PoolSize[p]
                     /\ \A r \in Pool : PoolSize[r] >= PoolSize[p] => q <= r) => q = p
  BY <1>1, <1>2
<1> DEFINE P(q) == /\ PoolSize[q] >= PoolSize[p]
                   /\ \A r \in Pool : PoolSize[r] >= PoolSize[p] => q <= r
<1>4. P(p)
  BY <1>1, <1>2
<1>5. P(CHOOSE q \in Pool : P(q)) /\ (CHOOSE q \in Pool : P(q)) \in Pool
  BY <1>4, ZenonT(60)
<1>6. QED
  BY <1>3, <1>5, ZenonT(60) DEF op_mem_get_list
------------------------------------------------------------------------------
LEMMA InitIInv == Init => IInv
<1> SUFFICES ASSUME Init PROVE IInv
  BY ZenonT(60)
<1>1. BaseType
  <2>1. /\ can_used_num \in [Pool -> Int] /\ all_num \in [Pool -> Int]
        /\ op_malloc_num \in [Pool -> Nat] /\ op_free_num \in [Pool -> Nat]
        /\ used_size \in [Father -> Int]
    BY DEF Init
  <2>2. /\ pc \in [Thread -> {"idle", "take", "got", "realloc", "resize"}]
        /\ want \in [Thread -> Pool \cup {NULL}]
        /\ mem_node \in [Thread -> Node \cup {NULL}]
        /\ p_node \in [Thread -> Block \cup {NULL}]
        /\ type \in [Father -> {"CAN_FREE", "CANNOT_FREE", NULL}]
        /\ ele \in [Father -> Pool \cup {NULL}]
        /\ list \in [Pool -> SUBSET Node]
    BY ZenonT(60) DEF Init
  <2>3. QED
    BY ZenonT(60), <2>1, <2>2 DEF Init, BaseType
<1>2. Shape
  BY ZenonT(60) DEF Init, Shape, NodesOf
<1>3. Counts
  <2>1. \A p \in Pool : NodesOf(p) = {} /\ list[p] = {}
    BY ZenonT(60) DEF Init, NodesOf
  <2>2. QED
    BY <2>1, FS_EmptySet, ZenonT(60) DEF Init, Counts
<1>4. Owners
  BY ZenonT(60) DEF Init, Owners
<1>5. Positions /\ Fresh /\ FreedUseNeedsFailedGrow
  BY Addresses, ZenonT(60) DEF Init, Positions, Fresh, FreedUseNeedsFailedGrow
<1>6. QED
  BY <1>1, <1>2, <1>3, <1>4, <1>5, ZenonT(60) DEF IInv

\* Steps that leave the pools and the fathers alone keep their invariants.
LEMMA SameMemory ==
    ASSUME Shape, Counts, UNCHANGED <<poolVars, fatherVars, heapVars>>
    PROVE  Shape' /\ Counts'
<1>1. \A p : NodesOf(p)' = NodesOf(p)
  BY ZenonT(60) DEF NodesOf, heapVars
<1>2. Shape'
  BY <1>1, ZenonT(60) DEF Shape, poolVars, fatherVars, heapVars
<1>3. Counts'
  BY <1>1, ZenonT(60) DEF Counts, Lent, poolVars, fatherVars, heapVars
<1>4. QED
  BY <1>2, <1>3, ZenonT(60)

\* A step that leaves the pools and the system's list alone loses no block.
LEMMA SameOut ==
    ASSUME UNCHANGED <<list, heapNode>>, sys_list \subseteq sys_list', NEW n, IsOut(n)
    PROVE  IsOut(n)'
BY ZenonT(60) DEF IsOut

LEMMA StutterIInv == ASSUME IInv, UNCHANGED vars PROVE IInv'
<1> USE DEF vars, poolVars, fatherVars, statVars, sysVars, heapVars, threadVars
<1>1. Shape' /\ Counts'
  BY ZenonT(60), SameMemory DEF IInv
<1>2. Owners'
  BY ZenonT(60) DEF IInv, Owners, IsOut
<1>3. QED
  BY <1>1, <1>2, ZenonT(60) DEF IInv, BaseType, Positions, Fresh, FreedUseNeedsFailedGrow

\* A freed father is on the list: its use keeps the invariant.
LEMMA UndefinedIInv ==
    ASSUME IInv, self, Undefined("freed"), ~ (father_node_list \subseteq heapFather)
    PROVE  IInv'
<1> USE DEF Undefined, poolVars, fatherVars, statVars, sysVars, heapVars, threadVars
<1>1. Shape' /\ Counts'
  BY SameMemory, ZenonT(60) DEF IInv
<1>2. Owners'
  BY ZenonT(60) DEF IInv, Owners, IsOut
<1>3. QED
  BY <1>1, <1>2, ZenonT(60) DEF IInv, BaseType, Positions, Fresh, FreedUseNeedsFailedGrow

\* op_malloc's result n reaches its caller, or op_realloc returns the old block.
LEMMA DeliverOwners ==
    ASSUME BaseType, Owners, NEW t \in Thread, NEW n, Deliver(t, n),
           IsOut(n)', n # NULL, hash' \subseteq hash \cup {n},
           \A m : IsOut(m) => IsOut(m)',
           \A u \in Thread \ {t} : mem_node[u] # n /\ p_node[u] # n
    PROVE  Owners'
<1>1. \A u \in Thread : /\ mem_node'[u] = IF u = t THEN NULL ELSE mem_node[u]
                        /\ p_node'[u] = IF u = t THEN NULL ELSE p_node[u]
  BY ZenonT(60) DEF Deliver, BaseType
<1>2. \A m \in hash' \cup held' : IsOut(m)'
  BY ZenonT(60) DEF Owners, Deliver
<1>3. ASSUME NEW u \in Thread
      PROVE  /\ mem_node'[u] # NULL => IsOut(mem_node[u])' /\ mem_node'[u] \notin held'
             /\ p_node'[u] # NULL => IsOut(p_node[u])' /\ p_node'[u] \notin held'
  BY <1>1, <1>3 DEF Owners, Deliver
<1>4. ASSUME NEW u \in Thread, NEW v \in Thread
      PROVE  /\ mem_node'[u] # NULL => mem_node'[u] # p_node'[v]
             /\ u # v /\ mem_node'[u] # NULL => mem_node'[u] # mem_node'[v]
             /\ u # v /\ p_node'[u] # NULL => p_node'[u] # p_node'[v]
  BY <1>1, <1>4, ZenonT(60) DEF Owners
<1>5. QED
  BY <1>2, <1>3, <1>4, ZenonT(60) DEF Owners, IsOut
------------------------------------------------------------------------------
LEMMA SystemIInv ==
    ASSUME IInv, NEW t \in Thread, NEW size \in Int, op_malloc_system(t, size)
    PROVE  IInv'
<1> USE DEF poolVars, fatherVars, heapVars
<1>1. Shape' /\ Counts'
  BY ZenonT(60), SameMemory DEF IInv, op_malloc_system
<1>2. CASE /\ FailsTo(t)
           /\ UNCHANGED <<hash, sysVars, pc, mem_node, p_node, held>>
  <2>1. Owners'
    BY <1>2, ZenonT(60) DEF IInv, Owners, IsOut, op_malloc_system, sysVars
  <2>2. QED
    BY ZenonT(60), <1>1, <1>2, <2>1 DEF IInv, BaseType, Positions, Fresh, FreedUseNeedsFailedGrow,
       op_malloc_system, FailsTo, Asks, sysVars
<1>3. CASE \E n \in SysNode \ sys_list : /\ sys_list' = sys_list \cup {n}
                                         /\ HashInsert(n)
                                         /\ Deliver(t, n)
                                         /\ UNCHANGED undefined
  <2>1. PICK n \in SysNode \ sys_list : /\ sys_list' = sys_list \cup {n}
                                        /\ HashInsert(n)
                                        /\ Deliver(t, n)
                                        /\ UNCHANGED undefined
    BY ZenonT(60), <1>3
  <2>2. ~ IsOut(n) /\ IsOut(n)' /\ n # NULL /\ \A m : IsOut(m) => IsOut(m)'
    BY ZenonT(60), <2>1, Addresses DEF IInv, BaseType, IsOut, Node, op_malloc_system
  <2>3. \A u \in Thread : mem_node[u] # n /\ p_node[u] # n
    BY <2>2, ZenonT(60) DEF IInv, Owners
  <2>4. hash' \subseteq hash \cup {n}
    BY ZenonT(60), <2>1 DEF HashInsert
  <2>5. Owners'
    BY ZenonT(60), <2>1, <2>2, <2>3, <2>4, DeliverOwners DEF IInv
  <2>6. BaseType'
    BY <2>1, <2>4, ZenonT(60) DEF IInv, BaseType, op_malloc_system, Deliver, Block
  <2>7. Positions'
    BY <2>1, ZenonT(60) DEF IInv, BaseType, Positions, op_malloc_system, Asks, Deliver
  <2>8. QED
    BY <1>1, <2>1, <2>5, <2>6, <2>7, ZenonT(60)
       DEF IInv, Fresh, FreedUseNeedsFailedGrow, op_malloc_system
<1>4. QED
  BY <1>2, <1>3, ZenonT(60) DEF op_malloc_system

LEMMA LockIInv ==
    ASSUME IInv, NEW t \in Thread, NEW size \in Int, op_malloc_lock(t, size)
    PROVE  IInv'
<1> USE DEF poolVars, fatherVars, heapVars
<1>1. Shape' /\ Counts'
  BY ZenonT(60), SameMemory DEF IInv, op_malloc_lock
<1>2. Owners'
  BY ZenonT(60) DEF IInv, Owners, IsOut, op_malloc_lock, sysVars
<1>3. op_mem_get_list(size) \in Pool
  BY ZenonT(60), GetListInPool DEF op_malloc_lock
<1>4. BaseType'
  BY ZenonT(60), <1>3 DEF IInv, BaseType, op_malloc_lock, sysVars
<1>5. Positions'
  BY ZenonT(60), <1>3, Addresses DEF IInv, BaseType, Positions, op_malloc_lock, Asks
<1>6. QED
  BY ZenonT(60), <1>1, <1>2, <1>4, <1>5 DEF IInv, Fresh, FreedUseNeedsFailedGrow, op_malloc_lock

LEMMA NoFatherIInv ==
    ASSUME IInv, NEW t \in Thread, NEW size \in Int, op_malloc_no_father(t, size)
    PROVE  IInv'
<1> USE DEF poolVars, fatherVars, heapVars, threadVars, sysVars, op_malloc_no_father
<1>1. Shape' /\ Counts'
  BY ZenonT(60), SameMemory DEF IInv
<1>2. Owners'
  BY ZenonT(60) DEF IInv, Owners, IsOut
<1>3. QED
  BY <1>1, <1>2, ZenonT(60) DEF IInv, BaseType, Positions, Fresh, FreedUseNeedsFailedGrow, FailsTo, Asks

LEMMA ReturnIInv ==
    ASSUME IInv, NEW t \in Thread, op_malloc_return(t)
    PROVE  IInv'
<1> USE DEF poolVars, fatherVars, heapVars, sysVars
<1>1. Shape' /\ Counts'
  BY ZenonT(60), SameMemory DEF IInv, op_malloc_return
<1>2. mem_node[t] # NULL /\ mem_node[t] \in heapNode
  BY Addresses, ZenonT(60) DEF IInv, BaseType, Positions, Owners, IsOut, op_malloc_return, Node
<1>3. \A m : IsOut(m) => IsOut(m)'
  BY ZenonT(60) DEF IsOut, op_malloc_return
<1>4. Owners'
  <2>1. IsOut(mem_node[t]) /\ \A u \in Thread \ {t} : mem_node[u] # mem_node[t] /\ p_node[u] # mem_node[t]
    BY <1>2, ZenonT(60) DEF IInv, Owners
  <2>2. PICK n : n = mem_node[t]
    BY ZenonT(60)
  <2>3. IsOut(n)'
    BY ZenonT(60), <1>3, <2>1, <2>2
  <2>4. Deliver(t, n)
    BY <2>2, ZenonT(60) DEF op_malloc_return
  <2>5. QED
    BY ZenonT(60), <1>2, <1>3, <2>1, <2>2, <2>3, <2>4, DeliverOwners DEF IInv, op_malloc_return
<1>5. undefined' = undefined
  BY ZenonT(60), <1>2 DEF op_malloc_return, Touching
<1>6. BaseType'
  BY ZenonT(60), <1>2, <1>5 DEF IInv, BaseType, op_malloc_return, Deliver, Block
<1>7. Positions'
  BY ZenonT(60) DEF IInv, BaseType, Positions, op_malloc_return, Deliver
<1>8. QED
  BY ZenonT(60), <1>1, <1>4, <1>5, <1>6, <1>7
     DEF IInv, Fresh, FreedUseNeedsFailedGrow, op_malloc_return

LEMMA FreeUnknownIInv ==
    ASSUME IInv, NEW t \in Thread, NEW n \in held, op_free(t, n), op_free_unknown(n)
    PROVE  IInv'
<1> USE DEF poolVars, fatherVars, heapVars, sysVars, op_free, op_free_unknown
<1>1. Shape' /\ Counts'
  BY SameMemory, ZenonT(60) DEF IInv
<1>2. Owners'
  BY ZenonT(60) DEF IInv, Owners, IsOut
<1>3. QED
  BY ZenonT(60), <1>1, <1>2 DEF IInv, BaseType, Positions, Fresh, FreedUseNeedsFailedGrow

LEMMA FreeSystemIInv ==
    ASSUME IInv, NEW t \in Thread, NEW n \in held, op_free(t, n), op_free_system(n)
    PROVE  IInv'
<1> USE DEF poolVars, fatherVars, heapVars, sysVars, op_free, op_free_system
<1>1. Shape' /\ Counts'
  BY SameMemory, ZenonT(60) DEF IInv
<1>2. \A m : IsOut(m) /\ m # n => IsOut(m)'
  BY ZenonT(60) DEF IsOut
<1>3. n # NULL
  BY ZenonT(60), Addresses
<1>4. Owners'
  BY ZenonT(60), <1>2, <1>3 DEF IInv, Owners, IsOut
<1>5. QED
  BY ZenonT(60), <1>1, <1>4 DEF IInv, BaseType, Positions, Fresh, FreedUseNeedsFailedGrow

LEMMA ReallocIInv ==
    ASSUME IInv, NEW t \in Thread, NEW n \in held, op_realloc(t, n)
    PROVE  IInv'
<1> USE DEF poolVars, fatherVars, heapVars, sysVars, op_realloc
<1>1. Shape' /\ Counts'
  BY ZenonT(60), SameMemory DEF IInv
<1>2. \A m : IsOut(m) => IsOut(m)'
  BY ZenonT(60) DEF IsOut
<1>3. n \in Block /\ n # NULL
  BY ZenonT(60), Addresses DEF IInv, BaseType, Block, Node
<1>4. \A u \in Thread : p_node'[u] = IF u = t THEN n ELSE p_node[u]
  BY ZenonT(60) DEF IInv, BaseType
<1>5. \A m \in hash' \cup held' : IsOut(m)'
  BY ZenonT(60), <1>2 DEF IInv, Owners
<1>6. ASSUME NEW u \in Thread
      PROVE  /\ mem_node'[u] # NULL => IsOut(mem_node[u])' /\ mem_node'[u] \notin held'
             /\ p_node'[u] # NULL => IsOut(p_node[u])' /\ p_node'[u] \notin held'
  BY <1>2, <1>4, <1>6 DEF IInv, Owners
<1>7. ASSUME NEW u \in Thread, NEW v \in Thread
      PROVE  /\ mem_node'[u] # NULL => mem_node'[u] # p_node'[v]
             /\ u # v /\ mem_node'[u] # NULL => mem_node'[u] # mem_node'[v]
             /\ u # v /\ p_node'[u] # NULL => p_node'[u] # p_node'[v]
  BY <1>4, <1>7 DEF IInv, Owners
<1>8. Owners'
  BY ZenonT(60), <1>5, <1>6, <1>7 DEF Owners, IsOut
<1>9. BaseType'
  BY ZenonT(60), <1>3 DEF IInv, BaseType
<1>10. Positions'
  BY <1>3, ZenonT(60) DEF IInv, BaseType, Positions
<1>11. QED
  BY ZenonT(60), <1>1, <1>8, <1>9, <1>10 DEF IInv, Fresh, FreedUseNeedsFailedGrow

LEMMA ReallocSizeIInv ==
    ASSUME IInv, NEW t \in Thread, op_realloc_size(t)
    PROVE  IInv'
<1> USE DEF poolVars, fatherVars, heapVars, sysVars, op_realloc_size
<1>1. Shape' /\ Counts'
  BY ZenonT(60), SameMemory DEF IInv
<1>2. p_node[t] \in heapNode \cup sys_list
  BY ZenonT(60) DEF IInv, Positions, Owners, IsOut
<1>3. Owners'
  BY ZenonT(60) DEF IInv, Owners, IsOut
<1>4. undefined' = undefined
  BY ZenonT(60), <1>2 DEF Touching
<1>5. BaseType' /\ Positions'
  BY <1>4, ZenonT(60) DEF IInv, BaseType, Positions
<1>6. QED
  BY ZenonT(60), <1>1, <1>3, <1>4, <1>5 DEF IInv, Fresh, FreedUseNeedsFailedGrow
------------------------------------------------------------------------------
\* The sets the counters count are finite.
LEMMA FiniteSets ==
    ASSUME Shape, Counts
    PROVE  /\ \A p \in Pool : IsFiniteSet(list[p]) /\ Cardinality(list[p]) \in Nat
           /\ \A p \in Pool : IsFiniteSet(NodesOf(p)) /\ Cardinality(NodesOf(p)) \in Nat
           /\ \A f \in father_node_list : IsFiniteSet(Lent(f)) /\ Cardinality(Lent(f)) \in Nat
<1>1. \A p \in Pool : IsFiniteSet(NodesOf(p)) /\ list[p] \subseteq NodesOf(p)
  BY ZenonT(60) DEF Shape, Counts
<1>2. \A f \in father_node_list : ele[f] \in Pool /\ Lent(f) \subseteq NodesOf(ele[f])
  BY ZenonT(60) DEF Shape, Lent
<1>3. QED
  BY <1>1, <1>2, FS_Subset, FS_CardinalityType, ZenonT(60)

\* op_malloc takes a node off the list.
LEMMA TakeIInv ==
    ASSUME IInv, NEW t \in Thread, op_malloc_take(t)
    PROVE  IInv'
<1>0. PICK p : p = want[t]
  BY ZenonT(60)
<1>1. p \in Pool /\ self /\ lock = t /\ mem_node[t] = NULL
  <2>1. p \in Pool /\ lock = t /\ mem_node[t] = NULL
    BY <1>0, ZenonT(60) DEF IInv, Positions, op_malloc_take
  <2>2. PICK n \in list[p] : TRUE
    BY <1>0, ZenonT(60) DEF op_malloc_take
  <2>3. QED
    BY <2>1, <2>2, ZenonT(60) DEF IInv, Shape, NodesOf, Fresh, BaseType
<1>2. PICK n \in list[p] :
          \/ n.father \notin heapFather /\ Undefined("freed")
          \/ /\ n.father \in heapFather
             /\ Unlink(p, n)
             /\ HashInsert(n)
             /\ Charge(n, SizeOf(n))
             /\ op_malloc_num' = [op_malloc_num EXCEPT ![p] = @ + 1]
             /\ mem_node' = [mem_node EXCEPT ![t] = n]
             /\ lock' = NULL
             /\ pc' = [pc EXCEPT ![t] = "got"]
             /\ UNCHANGED <<self, all_num, op_free_num, father_node_list, type, ele,
                            sysVars, heapVars, want, p_node, held, undefined>>
  BY ZenonT(60), <1>0 DEF op_malloc_take
<1>3. n \in heapNode /\ n.pool = p /\ n \in Node /\ n.father \in father_node_list /\ ele[n.father] = p
  BY <1>1, <1>2, ZenonT(60) DEF IInv, Shape, NodesOf, BaseType
<1>4. CASE n.father \notin heapFather /\ Undefined("freed")
  BY ZenonT(60), <1>1, <1>3, <1>4, UndefinedIInv
<1>5. CASE n.father \in heapFather
  <2> DEFINE f == n.father
  <2>1. f \in heapFather /\ f \in Father /\ n # NULL /\ n \notin SysNode /\ SizeOf(n) = PoolSize[p]
    BY ZenonT(60), <1>3, <1>5, Addresses DEF IInv, BaseType, SizeOf, Node
  <2>2. /\ list' = [list EXCEPT ![p] = @ \ {n}]
        /\ can_used_num' = [can_used_num EXCEPT ![p] = @ - 1]
        /\ used_size' = [used_size EXCEPT ![f] = @ + PoolSize[p]]
        /\ op_malloc_num' = [op_malloc_num EXCEPT ![p] = @ + 1]
        /\ hash' \subseteq hash \cup {n}
        /\ mem_node' = [mem_node EXCEPT ![t] = n]
        /\ lock' = NULL
        /\ pc' = [pc EXCEPT ![t] = "got"]
        /\ UNCHANGED <<self, all_num, op_free_num, father_node_list, type, ele,
                       sys_list, heapNode, heapFather, want, p_node, held, undefined>>
    BY <1>2, <1>5, <2>1, ZenonT(60) DEF Unlink, HashInsert, Charge, sysVars, heapVars
  <2>3. PoolSize[p] \in Nat /\ p \in Pool
    BY ZenonT(60), <1>1, PoolNumbers
  <2>4. BaseType'
    BY <1>3, <2>2, <2>3, <2>1 DEF IInv, BaseType, Block
  <2>5. \A q : NodesOf(q)' = NodesOf(q)
    BY ZenonT(60), <2>2 DEF NodesOf
  <2>6. \A q \in Pool : list'[q] = IF q = p THEN list[q] \ {n} ELSE list[q]
    BY ZenonT(60), <2>2 DEF IInv, BaseType
  <2>7. Shape'
    BY <1>3, <1>5, <2>2, <2>5, <2>6 DEF IInv, Shape
  <2>8. Counts'
    <3>1. Cardinality(list'[p]) = Cardinality(list[p]) - 1
      <4>1. IsFiniteSet(list[p])
        BY <1>1, FiniteSets, ZenonT(60) DEF IInv
      <4>2. n \in list[p] /\ list'[p] = list[p] \ {n}
        BY ZenonT(60), <1>1, <1>2, <2>6
      <4>3. QED
        BY ZenonT(60), <4>1, <4>2, FS_RemoveElement
    <3>2. Lent(f)' = Lent(f) \cup {n} /\ n \notin Lent(f)
      <4>1. Lent(f) = {m \in heapNode : m.pool = p /\ m \notin list[p] /\ m.father = f}
        BY <1>3, ZenonT(60) DEF Lent, NodesOf
      <4>2. Lent(f)' = {m \in heapNode' : m.pool = p /\ m \notin list'[p] /\ m.father = f}
        BY ZenonT(60), <1>3, <2>2 DEF Lent, NodesOf
      <4>3. list'[p] = list[p] \ {n} /\ n \in list[p] /\ heapNode' = heapNode
        BY ZenonT(60), <1>1, <1>2, <2>2, <2>6
      <4>4. QED
        BY ZenonT(60), <1>3, <4>1, <4>2, <4>3
    <3>3. Cardinality(Lent(f)') = Cardinality(Lent(f)) + 1 /\ Cardinality(Lent(f)) \in Nat
      BY ZenonT(60), <1>3, <3>2, FiniteSets, FS_AddElement DEF IInv
    <3>4. \A g \in heapFather \ {f} : Lent(g)' = Lent(g)
      BY <2>2, <2>5, <2>6 DEF IInv, Shape, Lent
    <3>5. \A a \in Nat, c \in Nat : a * c + a = a * (c + 1)
      OBVIOUS
    <3>6. used_size'[f] = PoolSize[p] * Cardinality(Lent(f)')
      <4>1. used_size[f] = PoolSize[p] * Cardinality(Lent(f))
        BY ZenonT(60), <1>3, <2>1 DEF IInv, Counts
      <4>2. used_size'[f] = used_size[f] + PoolSize[p]
        BY ZenonT(60), <2>1, <2>2 DEF IInv, BaseType
      <4>3. QED
        BY ZenonT(60), <2>3, <3>3, <3>5, <4>1, <4>2
    <3>7. \A g \in heapFather' : used_size'[g] = PoolSize[ele'[g]] * Cardinality(Lent(g)')
      BY ZenonT(60), <1>3, <2>1, <2>2, <3>4, <3>6 DEF IInv, BaseType, Counts
    <3>8. \A q \in Pool : /\ can_used_num'[q] = Cardinality(list'[q])
                          /\ op_malloc_num'[q] - op_free_num'[q] = all_num'[q] - can_used_num'[q]
      <4>1. /\ op_malloc_num \in [Pool -> Nat] /\ op_free_num \in [Pool -> Nat]
            /\ can_used_num \in [Pool -> Int] /\ all_num \in [Pool -> Int]
            /\ \A q \in Pool : /\ can_used_num[q] = Cardinality(list[q])
                               /\ op_malloc_num[q] - op_free_num[q] = all_num[q] - can_used_num[q]
        BY ZenonT(60) DEF IInv, BaseType, Counts
      <4>2. \A q \in Pool :
               /\ can_used_num'[q] = IF q = p THEN can_used_num[q] - 1 ELSE can_used_num[q]
               /\ op_malloc_num'[q] = IF q = p THEN op_malloc_num[q] + 1 ELSE op_malloc_num[q]
               /\ all_num'[q] = all_num[q] /\ op_free_num'[q] = op_free_num[q]
        BY ZenonT(60), <2>2, <4>1
      <4>3. TAKE q \in Pool
      <4>4. CASE q # p
        BY ZenonT(60), <2>6, <4>1, <4>2, <4>4
      <4>5. CASE q = p
        <5>1. /\ can_used_num'[q] = can_used_num[q] - 1 /\ all_num'[q] = all_num[q]
              /\ op_malloc_num'[q] = op_malloc_num[q] + 1 /\ op_free_num'[q] = op_free_num[q]
              /\ can_used_num[q] = Cardinality(list[q])
              /\ Cardinality(list'[q]) = Cardinality(list[q]) - 1
          BY ZenonT(60), <3>1, <4>1, <4>2, <4>5
        <5>2. op_malloc_num'[q] - op_free_num'[q] = all_num'[q] - can_used_num'[q]
          <6>1. /\ op_malloc_num[q] \in Int /\ op_free_num[q] \in Int
                /\ all_num[q] \in Int /\ can_used_num[q] \in Int
                /\ op_malloc_num[q] - op_free_num[q] = all_num[q] - can_used_num[q]
            BY <4>1
          <6>2. \A m, k, a, c \in Int : m - k = a - c => (m + 1) - k = a - (c - 1)
            OBVIOUS
          <6>3. QED
            BY <5>1, <6>1, <6>2
        <5>3. QED
          BY ZenonT(60), <5>1, <5>2
      <4>6. QED
        BY <4>4, <4>5, ZenonT(60)
    <3>9. \A g \in Father \ heapFather' : used_size'[g] = 0
      BY <2>1, <2>2, ZenonT(60) DEF IInv, BaseType, Counts
    <3>10. QED
      BY ZenonT(60), <2>2, <2>5, <3>7, <3>8, <3>9 DEF IInv, Counts
  <2>9. ~ IsOut(n) /\ IsOut(n)' /\ \A m : IsOut(m) => IsOut(m)'
    <3>1. n \in list[n.pool] /\ n \notin list'[n.pool] /\ n \notin sys_list
      BY ZenonT(60), <1>2, <1>3, <2>1, <2>3, <2>6 DEF IInv, BaseType
    <3>2. \A m \in heapNode : m.pool \in Pool
      BY ZenonT(60) DEF IInv, BaseType, Node
    <3>3. QED
      BY <1>3, <2>2, <2>6, <3>1, <3>2 DEF IsOut
  <2>10. Owners'
    <3>1. \A u \in Thread : mem_node'[u] = IF u = t THEN n ELSE mem_node[u]
      BY ZenonT(60), <2>2 DEF IInv, BaseType
    <3>2. \A m \in hash' \cup held' : IsOut(m)'
      BY ZenonT(60), <2>2, <2>9 DEF IInv, Owners
    <3>3. ASSUME NEW u \in Thread
          PROVE  /\ mem_node'[u] # NULL => IsOut(mem_node[u])' /\ mem_node'[u] \notin held'
                 /\ p_node'[u] # NULL => IsOut(p_node[u])' /\ p_node'[u] \notin held'
      BY <2>2, <2>9, <3>1, <3>3 DEF IInv, Owners
    <3>4. ASSUME NEW u \in Thread, NEW v \in Thread
          PROVE  /\ mem_node'[u] # NULL => mem_node'[u] # p_node'[v]
                 /\ u # v /\ mem_node'[u] # NULL => mem_node'[u] # mem_node'[v]
                 /\ u # v /\ p_node'[u] # NULL => p_node'[u] # p_node'[v]
      BY <2>1, <2>2, <2>9, <3>1, <3>4 DEF IInv, Owners
    <3>5. QED
      BY ZenonT(60), <3>2, <3>3, <3>4 DEF Owners, IsOut
  <2>11. Positions'
    BY ZenonT(60), <1>1, <2>1, <2>2, Addresses DEF IInv, BaseType, Positions
  <2>12. QED
    BY ZenonT(60), <1>1, <2>2, <2>4, <2>7, <2>8, <2>10, <2>11 DEF IInv, Fresh, FreedUseNeedsFailedGrow
<1>6. QED
  BY <1>2, <1>4, <1>5, ZenonT(60)

\* op_free puts a node back on the list.
LEMMA FreePoolIInv ==
    ASSUME IInv, NEW t \in Thread, NEW n \in held, op_free(t, n), op_free_pool(n)
    PROVE  IInv'
<1> DEFINE p == n.pool
           f == n.father
<1>1. /\ n \in heapNode /\ n \in Node /\ n \notin list[p] /\ p \in Pool /\ f \in Father
      /\ n # NULL /\ n \notin SysNode
  BY Addresses DEF IInv, BaseType, Owners, IsOut, op_free_pool, Node
<1>2. f \in heapFather /\ f \in father_node_list /\ ele[f] = p
  BY <1>1, ZenonT(60) DEF IInv, Shape, NodesOf
<1>3. PoolSize[p] \in Nat /\ SizeOf(n) = PoolSize[p] /\ op_mem_get_list(SizeOf(n)) = p
  BY ZenonT(60), <1>1, PoolNumbers, GetListOfNode DEF SizeOf
<1>4. /\ list' = [list EXCEPT ![p] = @ \cup {n}]
      /\ can_used_num' = [can_used_num EXCEPT ![p] = @ + 1]
      /\ used_size' = [used_size EXCEPT ![f] = @ + (-PoolSize[p])]
      /\ op_free_num' = [op_free_num EXCEPT ![p] = @ + 1]
      /\ hash' = hash \ {n} /\ held' = held \ {n}
      /\ UNCHANGED <<self, all_num, op_malloc_num, father_node_list, type, ele, sys_list,
                     heapNode, heapFather, lock, pc, want, mem_node, p_node, undefined>>
  BY ZenonT(60), <1>1, <1>2, <1>3 DEF op_free, op_free_pool, Link, Charge, Touching, sysVars, heapVars
<1> HIDE DEF p, f
<1>5. BaseType'
  BY <1>1, <1>3, <1>4 DEF IInv, BaseType
<1>6. \A q : NodesOf(q)' = NodesOf(q)
  BY ZenonT(60), <1>4 DEF NodesOf
<1>7. \A q \in Pool : list'[q] = IF q = p THEN list[q] \cup {n} ELSE list[q]
  BY ZenonT(60), <1>4 DEF IInv, BaseType
<1>8. Shape'
  <2>1. \A q \in Pool : list'[q] \subseteq NodesOf(q)'
    <3>1. \A q \in Pool : list[q] \subseteq NodesOf(q)
      BY ZenonT(60) DEF IInv, Shape
    <3>2. n \in NodesOf(p)
      BY <1>1, ZenonT(60) DEF NodesOf, p
    <3>3. QED
      BY ZenonT(60), <1>6, <1>7, <3>1, <3>2
  <2>2. \A q \in Pool : \A m \in NodesOf(q)' \ list'[q] : m.father \in heapFather'
    <3>1. \A q \in Pool : \A m \in NodesOf(q) \ list[q] : m.father \in heapFather
      BY ZenonT(60) DEF IInv, Shape
    <3>2. heapFather' = heapFather
      BY <1>4, ZenonT(60)
    <3>3. QED
      BY ZenonT(60), <1>6, <1>7, <3>1, <3>2
  <2>3. QED
    BY ZenonT(60), <1>4, <2>1, <2>2 DEF IInv, Shape
<1>9. Counts'
  <2>1. Cardinality(list'[p]) = Cardinality(list[p]) + 1
    <3>1. IsFiniteSet(list[p])
      BY <1>1, FiniteSets, ZenonT(60) DEF IInv
    <3>2. n \notin list[p] /\ list'[p] = list[p] \cup {n}
      BY ZenonT(60), <1>1, <1>7
    <3>3. QED
      BY ZenonT(60), <3>1, <3>2, FS_AddElement
  <2>2. Lent(f)' = Lent(f) \ {n} /\ n \in Lent(f)
    <3>1. Lent(f) = {m \in heapNode : m.pool = p /\ m \notin list[p] /\ m.father = f}
      BY ZenonT(60), <1>2 DEF Lent, NodesOf
    <3>2. Lent(f)' = {m \in heapNode' : m.pool = p /\ m \notin list'[p] /\ m.father = f}
      BY ZenonT(60), <1>2, <1>4 DEF Lent, NodesOf, f
    <3>3. list'[p] = list[p] \cup {n} /\ heapNode' = heapNode
      BY <1>1, <1>4, <1>7, ZenonT(60)
    <3>4. QED
      BY ZenonT(60), <1>1, <3>1, <3>2, <3>3 DEF p, f
  <2>3. Cardinality(Lent(f)') = Cardinality(Lent(f)) - 1 /\ Cardinality(Lent(f)) \in Nat
    BY ZenonT(60), <1>2, <2>2, FiniteSets, FS_RemoveElement DEF IInv
  <2>4. \A g \in heapFather \ {f} : Lent(g)' = Lent(g)
    BY <1>4, <1>6, <1>7 DEF IInv, Shape, Lent, f
  <2>5. \A a \in Nat, c \in Nat : a * c + (-a) = a * (c - 1)
    OBVIOUS
  <2>6. used_size'[f] = PoolSize[p] * Cardinality(Lent(f)')
    <3>1. used_size[f] = PoolSize[p] * Cardinality(Lent(f))
      BY ZenonT(60), <1>2 DEF IInv, Counts
    <3>2. used_size'[f] = used_size[f] + (-PoolSize[p])
      BY ZenonT(60), <1>1, <1>4 DEF IInv, BaseType
    <3>3. QED
      BY ZenonT(60), <1>3, <2>3, <2>5, <3>1, <3>2
  <2>7. \A g \in heapFather' : used_size'[g] = PoolSize[ele'[g]] * Cardinality(Lent(g)')
    BY ZenonT(60), <1>1, <1>2, <1>4, <2>4, <2>6 DEF IInv, BaseType, Counts
  <2>8. \A q \in Pool : /\ can_used_num'[q] = Cardinality(list'[q])
                        /\ op_malloc_num'[q] - op_free_num'[q] = all_num'[q] - can_used_num'[q]
    BY <1>1, <1>4, <1>7, <2>1 DEF IInv, BaseType, Counts
  <2>9. \A g \in Father \ heapFather' : used_size'[g] = 0
    BY ZenonT(60), <1>2, <1>4 DEF IInv, BaseType, Counts
  <2>10. QED
    BY ZenonT(60), <1>4, <1>6, <2>7, <2>8, <2>9 DEF IInv, Counts
<1>10. \A m : IsOut(m) /\ m # n => IsOut(m)'
  <2>1. \A m \in heapNode : m.pool \in Pool
    BY ZenonT(60) DEF IInv, BaseType, Node
  <2>2. SUFFICES ASSUME NEW m, IsOut(m), m # n PROVE IsOut(m)'
    BY ZenonT(60)
  <2>3. CASE m \in sys_list
    BY ZenonT(60), <1>4, <2>3 DEF IsOut
  <2>4. CASE m \in heapNode /\ m \notin list[m.pool]
    <3>1. list'[m.pool] \subseteq list[m.pool] \cup {n}
      BY ZenonT(60), <1>7, <2>1, <2>4
    <3>2. QED
      BY ZenonT(60), <1>4, <2>2, <2>4, <3>1 DEF IsOut
  <2>5. QED
    BY ZenonT(60), <2>2, <2>3, <2>4 DEF IsOut
<1>11. Owners'
  BY ZenonT(60), <1>1, <1>4, <1>10 DEF IInv, Owners, IsOut
<1>12. Positions'
  BY ZenonT(60), <1>4 DEF IInv, Positions
<1>13. QED
  BY ZenonT(60), <1>4, <1>5, <1>8, <1>9, <1>11, <1>12
     DEF IInv, Fresh, FreedUseNeedsFailedGrow, op_free
------------------------------------------------------------------------------
\* A pool that ran dry is given k nodes of a father that is new to the list.
LEMMA GrowMemory ==
    ASSUME IInv, NEW p \in Pool, NEW f \in Father \ heapFather, NEW k \in Nat,
           list[p] = {}, father_node_list \subseteq heapFather,
           father_node_list' = father_node_list \cup {f},
           heapFather' \subseteq heapFather \cup {f}, heapFather \subseteq heapFather',
           ele' = [ele EXCEPT ![f] = p],
           used_size' = [used_size EXCEPT ![f] = 0],
           list' = [list EXCEPT ![p] = Carved(p, f, k)],
           heapNode' = heapNode \cup Carved(p, f, k),
           can_used_num' = [can_used_num EXCEPT ![p] = @ + k],
           all_num' = [all_num EXCEPT ![p] = @ + k],
           UNCHANGED <<op_malloc_num, op_free_num, sys_list>>
    PROVE  /\ Shape' /\ Counts'
           /\ \A m : IsOut(m) => IsOut(m)'
<1> DEFINE C == Carved(p, f, k)
<1>1. /\ C \subseteq Node /\ IsFiniteSet(C) /\ Cardinality(C) = k
      /\ \A n \in C : n.pool = p /\ n.father = f
  BY CarvedFacts, ZenonT(60)
<1> HIDE DEF C
<1>2. /\ f \notin father_node_list
      /\ \A n \in heapNode : n.father # f /\ n.father \in heapFather /\ n.pool \in Pool
      /\ heapNode \cap C = {}
  BY <1>1 DEF IInv, Shape, BaseType, Node
<1>3. \A q \in Pool : /\ list'[q] = IF q = p THEN C ELSE list[q]
                      /\ NodesOf(q)' = IF q = p THEN NodesOf(q) \cup C ELSE NodesOf(q)
  BY <1>1, ZenonT(60) DEF IInv, BaseType, NodesOf, C
<1>4. \A g \in Father : ele'[g] = IF g = f THEN p ELSE ele[g]
  BY ZenonT(60) DEF IInv, BaseType
<1>5. Shape'
  <2>1. \A q \in Pool : list'[q] \subseteq NodesOf(q)'
    BY <1>3 DEF IInv, Shape
  <2>2. \A g \in father_node_list' : ele'[g] \in Pool
    BY <1>4, ZenonT(60) DEF IInv, Shape, BaseType
  <2>3. \A n \in heapNode' : n.father \in father_node_list' /\ ele'[n.father] = n.pool
    <3>1. \A n \in heapNode : n.father \in father_node_list /\ ele[n.father] = n.pool
      BY ZenonT(60) DEF IInv, Shape
    <3>2. father_node_list \subseteq Father /\ heapNode' = heapNode \cup C
      BY ZenonT(60) DEF IInv, BaseType, C
    <3>3. QED
      BY ZenonT(60), <1>1, <1>2, <1>4, <3>1, <3>2
  <2>4. \A q \in Pool : \A n \in NodesOf(q)' \ list'[q] : n.father \in heapFather'
    BY <1>2, <1>3 DEF NodesOf
  <2>5. QED
    BY <2>1, <2>2, <2>3, <2>4, ZenonT(60) DEF IInv, Shape
<1>6. Counts'
  <2>1. \A q \in Pool : /\ IsFiniteSet(NodesOf(q)')
                        /\ can_used_num'[q] = Cardinality(list'[q])
                        /\ all_num'[q] = Cardinality(NodesOf(q)')
    <3>1. \A q \in Pool \ {p} : /\ IsFiniteSet(NodesOf(q)')
                                /\ can_used_num'[q] = Cardinality(list'[q])
                                /\ all_num'[q] = Cardinality(NodesOf(q)')
      BY <1>3, ZenonT(60) DEF IInv, BaseType, Counts
    <3>2. can_used_num'[p] = Cardinality(list'[p])
      <4>1. can_used_num[p] = 0
        BY ZenonT(60), FS_EmptySet DEF IInv, Counts
      <4>2. can_used_num'[p] = k
        BY <4>1 DEF IInv, BaseType
      <4>3. QED
        BY <1>1, <1>3, <4>2, ZenonT(60)
    <3>3. IsFiniteSet(NodesOf(p)') /\ all_num'[p] = Cardinality(NodesOf(p)')
      <4>1. NodesOf(p) \cap C = {} /\ IsFiniteSet(NodesOf(p)) /\ all_num[p] = Cardinality(NodesOf(p))
        BY ZenonT(60), <1>2 DEF IInv, Counts, NodesOf
      <4>2. /\ IsFiniteSet(NodesOf(p) \cup C)
            /\ Cardinality(NodesOf(p) \cup C)
                 = Cardinality(NodesOf(p)) + Cardinality(C) - Cardinality(NodesOf(p) \cap C)
        BY ZenonT(60), <1>1, <4>1, FS_Union
      <4>3. NodesOf(p)' = NodesOf(p) \cup C /\ all_num'[p] = all_num[p] + k /\ all_num[p] \in Int
        BY <1>3, ZenonT(60) DEF IInv, BaseType
      <4>4. Cardinality(NodesOf(p) \cap C) = 0
        BY ZenonT(60), <4>1, FS_EmptySet
      <4>5. QED
        BY <1>1, <4>1, <4>2, <4>3, <4>4
    <3>4. QED
      BY ZenonT(60), <3>1, <3>2, <3>3
  <2>2. \A q \in Pool : op_malloc_num'[q] - op_free_num'[q] = all_num'[q] - can_used_num'[q]
    BY DEF IInv, BaseType, Counts
  <2>3. Lent(f)' = {}
    <3>1. Lent(f)' = {n \in heapNode' : n.pool = p /\ n \notin list'[p] /\ n.father = f}
      BY <1>4, ZenonT(60) DEF Lent, NodesOf
    <3>2. heapNode' = heapNode \cup C /\ list'[p] = C
      BY <1>3, ZenonT(60) DEF C
    <3>3. QED
      BY <1>2, <3>1, <3>2, ZenonT(60)
  <2>4. \A g \in heapFather : Lent(g)' = Lent(g)
    <3>1. SUFFICES ASSUME NEW g \in heapFather PROVE Lent(g)' = Lent(g)
      BY ZenonT(60)
    <3>2. g # f /\ ele'[g] = ele[g] /\ ele[g] \in Pool
      BY ZenonT(60), <1>2, <1>4, <3>1 DEF IInv, Shape, BaseType
    <3>3. Lent(g)' = {n \in heapNode' : n.pool = ele[g] /\ n \notin list'[ele[g]] /\ n.father = g}
      BY <3>2, ZenonT(60) DEF Lent, NodesOf
    <3>4. Lent(g) = {n \in heapNode : n.pool = ele[g] /\ n \notin list[ele[g]] /\ n.father = g}
      BY ZenonT(60) DEF Lent, NodesOf
    <3>5. heapNode' = heapNode \cup C /\ list'[ele[g]] = IF ele[g] = p THEN C ELSE list[ele[g]]
      BY <1>3, <3>2, ZenonT(60) DEF C
    <3>6. QED
      BY <1>1, <1>2, <3>2, <3>3, <3>4, <3>5
  <2>5. \A g \in heapFather' : used_size'[g] = PoolSize[ele'[g]] * Cardinality(Lent(g)')
    <3>1. used_size'[f] = 0 /\ Cardinality(Lent(f)') = 0 /\ PoolSize[ele'[f]] \in Nat
      BY ZenonT(60), <1>4, <2>3, FS_EmptySet, PoolNumbers DEF IInv, BaseType
    <3>2. used_size'[f] = PoolSize[ele'[f]] * Cardinality(Lent(f)')
      <4>1. \A a \in Nat : 0 = a * 0
        OBVIOUS
      <4>2. QED
        BY ZenonT(60), <3>1, <4>1
    <3>3. \A g \in heapFather : used_size'[g] = PoolSize[ele'[g]] * Cardinality(Lent(g)')
      BY ZenonT(60), <1>2, <1>4, <2>4 DEF IInv, BaseType, Counts
    <3>4. QED
      BY ZenonT(60), <3>2, <3>3
  <2>6. \A g \in Father \ heapFather' : used_size'[g] = 0
    BY ZenonT(60) DEF IInv, BaseType, Counts
  <2>7. QED
    BY ZenonT(60), <2>1, <2>2, <2>5, <2>6 DEF Counts
<1>7. \A m : IsOut(m) => IsOut(m)'
  BY ZenonT(60), <1>2, <1>3 DEF IsOut, C
<1>8. QED
  BY <1>5, <1>6, <1>7, ZenonT(60)

\* Blocks, owners and positions when only the pools grow and t may move to "take".
LEMMA SameOwners ==
    ASSUME Owners, \A m : IsOut(m) => IsOut(m)',
           UNCHANGED <<hash, held, mem_node, p_node>>
    PROVE  Owners'
<1>1. \A m \in hash' \cup held' : IsOut(m)'
  BY ZenonT(60) DEF Owners
<1>2. ASSUME NEW u \in Thread
      PROVE  /\ mem_node'[u] # NULL => IsOut(mem_node[u])' /\ mem_node'[u] \notin held'
             /\ p_node'[u] # NULL => IsOut(p_node[u])' /\ p_node'[u] \notin held'
  BY ZenonT(60), <1>2 DEF Owners
<1>3. QED
  BY <1>1, <1>2, ZenonT(60) DEF Owners, IsOut

LEMMA GrowIInv ==
    ASSUME IInv, NEW t \in Thread, NEW size \in Int, op_malloc_grow(t, size)
    PROVE  IInv'
<1> DEFINE p == op_mem_get_list(size)
<1>1. p \in Pool /\ PoolNum[p] \in Nat
  BY ZenonT(60), GetListInPool, PoolNumbers DEF op_malloc_grow
<1> HIDE DEF p
<1>2. PICK f \in Father \ heapFather :
          /\ father_node_list' = father_node_list \cup {f}
          /\ heapFather' = heapFather \cup {f}
          /\ type' = [type EXCEPT ![f] = "CAN_FREE"]
          /\ ele' = [ele EXCEPT ![f] = p]
          /\ used_size' = [used_size EXCEPT ![f] = 0]
          /\ list' = [list EXCEPT ![p] = Carved(p, f, PoolNum[p])]
          /\ heapNode' = heapNode \cup Carved(p, f, PoolNum[p])
  BY ZenonT(60) DEF op_malloc_grow, p
<1>3. /\ self /\ undefined = "no" /\ lock = NULL /\ pc[t] \in {"idle", "resize"}
      /\ list[p] = {} /\ father_node_list \subseteq heapFather
      /\ can_used_num' = [can_used_num EXCEPT ![p] = @ + PoolNum[p]]
      /\ all_num' = [all_num EXCEPT ![p] = @ + PoolNum[p]]
      /\ want' = [want EXCEPT ![t] = p]
      /\ lock' = t
      /\ pc' = [pc EXCEPT ![t] = "take"]
      /\ UNCHANGED <<self, hash, op_malloc_num, op_free_num, sys_list,
                     mem_node, p_node, held, undefined>>
  BY ZenonT(60) DEF op_malloc_grow, Asks, sysVars, p
<1>4. Shape' /\ Counts' /\ \A m : IsOut(m) => IsOut(m)'
  BY ZenonT(60), <1>1, <1>2, <1>3, GrowMemory
<1>5. Owners'
  BY ZenonT(60), <1>3, <1>4, SameOwners DEF IInv
<1>6. BaseType'
  <2>1. Carved(p, f, PoolNum[p]) \subseteq Node
    BY ZenonT(60), <1>1, CarvedFacts
  <2>2. QED
    BY <1>1, <1>2, <1>3, <2>1 DEF IInv, BaseType
<1>7. Positions'
  BY ZenonT(60), <1>1, <1>3, Addresses DEF IInv, BaseType, Positions
<1>8. QED
  BY <1>2, <1>3, <1>4, <1>5, <1>6, <1>7, ZenonT(60) DEF IInv, Fresh, FreedUseNeedsFailedGrow

LEMMA NoChunkIInv ==
    ASSUME IInv, NEW t \in Thread, NEW size \in Int, NEW k \in Nat,
           op_malloc_no_chunk(t, size, k)
    PROVE  IInv'
<1> DEFINE p == op_mem_get_list(size)
<1>1. p \in Pool
  BY ZenonT(60), GetListInPool DEF op_malloc_no_chunk
<1> HIDE DEF p
<1>2. PICK f \in Father \ heapFather :
          /\ father_node_list' = father_node_list \cup {f}
          /\ type' = [type EXCEPT ![f] = "CAN_FREE"]
          /\ ele' = [ele EXCEPT ![f] = p]
          /\ used_size' = [used_size EXCEPT ![f] = 0]
          /\ list' = [list EXCEPT ![p] = Carved(p, f, k)]
          /\ heapNode' = heapNode \cup Carved(p, f, k)
  BY ZenonT(60) DEF op_malloc_no_chunk, p
<1>3. /\ self /\ undefined = "no"
      /\ list[p] = {} /\ father_node_list \subseteq heapFather
      /\ can_used_num' = [can_used_num EXCEPT ![p] = @ + k]
      /\ all_num' = [all_num EXCEPT ![p] = @ + k]
      /\ undefined' \in {"no", "null"}
      /\ UNCHANGED <<self, hash, op_malloc_num, op_free_num, heapFather, sys_list,
                     lock, pc, want, mem_node, p_node, held>>
  BY ZenonT(60) DEF op_malloc_no_chunk, Asks, FailsTo, sysVars, threadVars, p
<1>4. Shape' /\ Counts' /\ \A m : IsOut(m) => IsOut(m)'
  BY ZenonT(60), <1>1, <1>2, <1>3, GrowMemory
<1>5. Owners'
  BY ZenonT(60), <1>3, <1>4, SameOwners DEF IInv
<1>6. BaseType'
  <2>1. Carved(p, f, k) \subseteq Node
    BY ZenonT(60), <1>1, CarvedFacts
  <2>2. QED
    BY <1>1, <1>2, <1>3, <2>1 DEF IInv, BaseType
<1>7. QED
  BY <1>3, <1>4, <1>5, <1>6, ZenonT(60) DEF IInv, Positions, Fresh, FreedUseNeedsFailedGrow

\* Giving back the fathers with nothing charged to them takes no node that is out.
LEMMA ReleaseIInv ==
    ASSUME IInv, op_mem_release_check
    PROVE  IInv'
<1> DEFINE R == Releasable
<1>1. /\ list' = [p \in Pool |-> list[p] \ Removed(p)]
      /\ can_used_num' = [p \in Pool |-> can_used_num[p] - Cardinality(Removed(p))]
      /\ all_num' = [p \in Pool |-> all_num[p] - Cardinality(Removed(p))]
      /\ heapNode' = heapNode \ UNION {Removed(p) : p \in Pool}
      /\ father_node_list' = father_node_list \ R
      /\ heapFather' = heapFather \ R
      /\ father_node_list = heapFather
      /\ self /\ undefined = "no"
      /\ UNCHANGED <<self, hash, op_malloc_num, op_free_num, type, ele, used_size,
                     sys_list, lock, pc, want, mem_node, p_node, held, undefined>>
  BY ZenonT(60) DEF op_mem_release_check, sysVars, threadVars, IInv, Shape
<1>2. \A f \in R : f \in father_node_list /\ Lent(f) = {}
  <2>1. SUFFICES ASSUME NEW f \in R PROVE f \in father_node_list /\ Lent(f) = {}
    BY ZenonT(60)
  <2>2. f \in father_node_list /\ f \in heapFather /\ used_size[f] = 0 /\ ele[f] \in Pool
    BY <1>1, ZenonT(60) DEF Releasable, IInv, Shape
  <2>3. PoolSize[ele[f]] \in Nat /\ PoolSize[ele[f]] > 0
    BY ZenonT(60), <2>2, PoolNumbers
  <2>4. IsFiniteSet(Lent(f)) /\ Cardinality(Lent(f)) \in Nat
    BY ZenonT(60), <2>2, FiniteSets DEF IInv
  <2>5. 0 = PoolSize[ele[f]] * Cardinality(Lent(f))
    BY <2>2, ZenonT(60) DEF IInv, Counts
  <2>6. \A a, c \in Nat : a > 0 /\ 0 = a * c => c = 0
    OBVIOUS
  <2>7. Cardinality(Lent(f)) = 0
    BY ZenonT(60), <2>3, <2>4, <2>5, <2>6
  <2>8. QED
    BY <2>2, <2>4, <2>7, FS_EmptySet, ZenonT(60)
<1>3. \A n \in heapNode : /\ n.pool \in Pool /\ n.father \in father_node_list
                          /\ ele[n.father] = n.pool
  BY ZenonT(60) DEF IInv, Shape, BaseType, Node
<1>4. \A p \in Pool : Removed(p) = {n \in NodesOf(p) : n.father \in R}
  <2>1. SUFFICES ASSUME NEW p \in Pool
                 PROVE  Removed(p) = {n \in NodesOf(p) : n.father \in R}
    BY ZenonT(60)
  <2>2. list[p] \subseteq NodesOf(p)
    BY ZenonT(60) DEF IInv, Shape
  <2>3. \A n \in NodesOf(p) : n.father \in R => n \in list[p]
    BY <1>2, <1>3, ZenonT(60) DEF Lent, NodesOf
  <2>4. QED
    BY <1>3, <2>2, <2>3, ZenonT(60) DEF Removed, NodesOf
<1>5. heapNode' = {n \in heapNode : n.father \notin R}
  BY <1>1, <1>3, <1>4 DEF NodesOf
<1>6. \A p \in Pool : /\ list'[p] = list[p] \ Removed(p)
                      /\ NodesOf(p)' = NodesOf(p) \ Removed(p)
                      /\ Removed(p) \subseteq list[p]
  BY ZenonT(60), <1>1, <1>4, <1>5 DEF NodesOf, Removed
<1>7. Shape'
  <2>1. \A p \in Pool : list'[p] \subseteq NodesOf(p)'
    BY ZenonT(60), <1>6 DEF IInv, Shape
  <2>2. \A n \in heapNode' : n.father \in father_node_list' /\ ele'[n.father] = n.pool
    BY ZenonT(60), <1>1, <1>3, <1>5
  <2>3. \A p \in Pool : \A n \in NodesOf(p)' \ list'[p] : n.father \in heapFather'
    BY <1>1, <1>3, <1>5, <1>6, ZenonT(60) DEF NodesOf
  <2>4. QED
    BY <1>1, <2>1, <2>2, <2>3, ZenonT(60) DEF IInv, Shape
<1>8. Counts'
  <2>1. ASSUME NEW p \in Pool
        PROVE  /\ IsFiniteSet(NodesOf(p)')
               /\ can_used_num'[p] = Cardinality(list'[p])
               /\ all_num'[p] = Cardinality(NodesOf(p)')
    <3>1. IsFiniteSet(list[p]) /\ IsFiniteSet(NodesOf(p)) /\ list[p] \subseteq NodesOf(p)
      BY FiniteSets, ZenonT(60) DEF IInv, Shape
    <3>2. list[p] \cap Removed(p) = Removed(p) /\ NodesOf(p) \cap Removed(p) = Removed(p)
      BY ZenonT(60), <1>6, <3>1
    <3>3. /\ Cardinality(list[p] \ Removed(p)) = Cardinality(list[p]) - Cardinality(Removed(p))
          /\ IsFiniteSet(NodesOf(p) \ Removed(p))
          /\ Cardinality(NodesOf(p) \ Removed(p))
               = Cardinality(NodesOf(p)) - Cardinality(Removed(p))
      <4>1. Cardinality(list[p] \ Removed(p))
              = Cardinality(list[p]) - Cardinality(list[p] \cap Removed(p))
        BY ZenonT(60), <3>1, FS_Difference
      <4>2. /\ IsFiniteSet(NodesOf(p) \ Removed(p))
            /\ Cardinality(NodesOf(p) \ Removed(p))
                 = Cardinality(NodesOf(p)) - Cardinality(NodesOf(p) \cap Removed(p))
        BY ZenonT(60), <3>1, FS_Difference
      <4>3. QED
        BY <3>2, <4>1, <4>2, ZenonT(60)
    <3>4. QED
      BY ZenonT(60), <1>1, <1>6, <3>3 DEF IInv, Counts
  <2>2. \A p \in Pool : IsFiniteSet(Removed(p)) /\ Cardinality(Removed(p)) \in Nat
    BY ZenonT(60), <1>6, FiniteSets, FS_Subset, FS_CardinalityType DEF IInv
  <2>3. \A p \in Pool : op_malloc_num'[p] - op_free_num'[p] = all_num'[p] - can_used_num'[p]
    BY <1>1, <2>2 DEF IInv, BaseType, Counts
  <2>4. \A f \in heapFather' : Lent(f)' = Lent(f)
    BY ZenonT(60), <1>1, <1>6 DEF IInv, Shape, Lent, Removed
  <2>5. \A f \in Father \ heapFather' : used_size'[f] = 0
    BY <1>1, ZenonT(60) DEF IInv, Counts, Releasable
  <2>6. QED
    BY ZenonT(60), <1>1, <2>1, <2>3, <2>4, <2>5 DEF IInv, Counts
<1>9. \A m : IsOut(m) => IsOut(m)'
  <2>1. SUFFICES ASSUME NEW m, IsOut(m) PROVE IsOut(m)'
    BY ZenonT(60)
  <2>2. CASE m \in sys_list
    BY ZenonT(60), <1>1, <2>2 DEF IsOut
  <2>3. CASE m \in heapNode /\ m \notin list[m.pool]
    <3>1. m \in NodesOf(m.pool) \ Removed(m.pool) /\ m.pool \in Pool
      BY <1>3, <1>6, <2>3, ZenonT(60) DEF NodesOf
    <3>2. m \in heapNode' /\ m \notin list'[m.pool]
      BY <1>4, <1>5, <1>6, <2>3, <3>1
    <3>3. QED
      BY ZenonT(60), <3>2 DEF IsOut
  <2>4. QED
    BY <2>1, <2>2, <2>3, ZenonT(60) DEF IsOut
<1>10. Owners'
  BY ZenonT(60), <1>1, <1>9, SameOwners DEF IInv
<1>11. BaseType'
  <2>1. \A p \in Pool : Cardinality(Removed(p)) \in Nat
    BY ZenonT(60), <1>6, FiniteSets, FS_Subset, FS_CardinalityType DEF IInv
  <2>2. QED
    BY <1>1, <2>1 DEF IInv, BaseType
<1>12. QED
  BY <1>1, <1>7, <1>8, <1>10, <1>11, ZenonT(60) DEF IInv, Positions, Fresh, FreedUseNeedsFailedGrow

\* opmem_init makes one father and its nodes for each pool.
LEMMA InitialiseIInv ==
    ASSUME IInv, opmem_init
    PROVE  IInv'
<1> USE DEF sysVars, threadVars
<1>1. PICK first \in Injection(Pool, Father) :
          /\ father_node_list' = {first[p] : p \in Pool}
          /\ heapFather' = {first[p] : p \in Pool}
          /\ type' = [f \in Father |->
                        IF \E p \in Pool : f = first[p] THEN "CANNOT_FREE" ELSE type[f]]
          /\ ele' = [f \in Father |->
                        IF \E p \in Pool : f = first[p]
                        THEN CHOOSE p \in Pool : f = first[p] ELSE ele[f]]
          /\ list' = [p \in Pool |-> Carved(p, first[p], PoolNum[p])]
          /\ heapNode' = UNION {Carved(p, first[p], PoolNum[p]) : p \in Pool}
  BY ZenonT(60) DEF opmem_init
<1>2. /\ ~self /\ self' = TRUE
      /\ can_used_num' = PoolNum /\ all_num' = PoolNum
      /\ UNCHANGED <<hash, op_malloc_num, op_free_num, used_size, sys_list, lock, pc,
                     want, mem_node, p_node, held, undefined>>
  BY ZenonT(60) DEF opmem_init
<1>3. /\ heapNode = {}
      /\ \A p \in Pool : op_malloc_num[p] = 0 /\ op_free_num[p] = 0
      /\ \A f \in Father : used_size[f] = 0
      /\ undefined = "no"
  BY ZenonT(60), <1>2 DEF IInv, Fresh, Counts
<1>4. \A p \in Pool : first[p] \in Father
  BY ZenonT(60), <1>1 DEF Injection
<1>5. \A p, q \in Pool : first[p] = first[q] => p = q
  BY ZenonT(60), <1>1 DEF Injection, IsInjective
<1>6. \A p \in Pool : ele'[first[p]] = p
  BY ZenonT(60), <1>1, <1>4, <1>5
<1>7. \A p \in Pool : /\ list'[p] \subseteq Node
                      /\ \A n \in list'[p] : n.pool = p /\ n.father = first[p]
                      /\ IsFiniteSet(list'[p]) /\ Cardinality(list'[p]) = PoolNum[p]
  <2>1. SUFFICES ASSUME NEW p \in Pool
                 PROVE  /\ list'[p] \subseteq Node
                        /\ \A n \in list'[p] : n.pool = p /\ n.father = first[p]
                        /\ IsFiniteSet(list'[p]) /\ Cardinality(list'[p]) = PoolNum[p]
    BY ZenonT(60)
  <2>2. list'[p] = Carved(p, first[p], PoolNum[p])
    BY <1>1, ZenonT(60)
  <2>3. first[p] \in Father /\ PoolNum[p] \in Nat
    BY ZenonT(60), <1>4, PoolNumbers
  <2>4. QED
    BY <2>2, <2>3, CarvedFacts
<1>8. heapNode' = UNION {list'[p] : p \in Pool}
  BY <1>1, ZenonT(60)
<1>9. \A p \in Pool : NodesOf(p)' = list'[p]
  BY <1>7, <1>8 DEF NodesOf
<1>10. BaseType'
  <2>1. heapNode' \subseteq Node
    BY <1>7, <1>8, ZenonT(60)
  <2>2. list' \in [Pool -> SUBSET Node]
    BY ZenonT(60), <1>1, <1>7
  <2>3. father_node_list' \subseteq Father /\ heapFather' \subseteq Father
    BY ZenonT(60), <1>1, <1>4
  <2>4. ele' \in [Father -> Pool \cup {NULL}]
    BY ZenonT(60), <1>1 DEF IInv, BaseType
  <2>5. type' \in [Father -> {"CAN_FREE", "CANNOT_FREE", NULL}]
    BY <1>1, ZenonT(60) DEF IInv, BaseType
  <2>6. PoolNum \in [Pool -> Int]
    BY PoolTable
  <2>7. QED
    BY ZenonT(60), <1>2, <2>1, <2>2, <2>3, <2>4, <2>5, <2>6 DEF IInv, BaseType
<1>11. Shape'
  <2>1. \A f \in father_node_list' : ele'[f] \in Pool
    BY ZenonT(60), <1>1, <1>6
  <2>2. \A n \in heapNode' : n.father \in father_node_list' /\ ele'[n.father] = n.pool
    <3>1. SUFFICES ASSUME NEW n \in heapNode'
                   PROVE  n.father \in father_node_list' /\ ele'[n.father] = n.pool
      BY ZenonT(60)
    <3>2. PICK p \in Pool : n \in list'[p]
      BY ZenonT(60), <1>8, <3>1
    <3>3. n.pool = p /\ n.father = first[p]
      BY ZenonT(60), <1>7, <3>2
    <3>4. QED
      BY <1>1, <1>6, <3>3, ZenonT(60)
  <2>3. QED
    BY ZenonT(60), <1>1, <1>9, <2>1, <2>2 DEF Shape
<1>12. Counts'
  <2>1. \A f \in heapFather' : Lent(f)' = {}
    BY <1>1, <1>6, <1>9 DEF Lent
  <2>2. \A f \in heapFather' : used_size'[f] = PoolSize[ele'[f]] * Cardinality(Lent(f)')
    <3>1. \A f \in heapFather' : used_size'[f] = 0 /\ PoolSize[ele'[f]] \in Nat
      <4>1. \A p \in Pool : /\ used_size'[first[p]] = 0
                            /\ PoolSize[ele'[first[p]]] \in Nat
        BY <1>2, <1>3, <1>4, <1>6, PoolNumbers, ZenonT(60)
      <4>2. QED
        BY ZenonT(60), <1>1, <4>1
    <3>2. \A a \in Nat : 0 = a * 0
      OBVIOUS
    <3>3. QED
      BY <2>1, <3>1, <3>2, FS_EmptySet, ZenonT(60)
  <2>3. \A p \in Pool : PoolNum[p] \in Nat
    BY PoolNumbers, ZenonT(60)
  <2>4. QED
    BY <1>2, <1>3, <1>7, <1>9, <2>2, <2>3 DEF Counts
<1>13. Owners'
  <2>1. \A m : IsOut(m) => IsOut(m)'
    BY <1>2, <1>3, ZenonT(60) DEF IsOut
  <2>2. QED
    BY ZenonT(60), <1>2, <2>1, SameOwners DEF IInv
<1>14. QED
  BY ZenonT(60), <1>2, <1>3, <1>10, <1>11, <1>12, <1>13
     DEF IInv, Positions, Fresh, FreedUseNeedsFailedGrow
------------------------------------------------------------------------------
LEMMA NextIInv ==
    ASSUME IInv, [Next]_vars
    PROVE  IInv'
<1>1. CASE UNCHANGED vars
  BY <1>1, StutterIInv, ZenonT(60)
<1>2. CASE opmem_init
  BY <1>2, InitialiseIInv, ZenonT(60)
<1>3. ASSUME NEW t \in Thread, op_malloc(t)
      PROVE  IInv'
  <2>1. AskedSize \subseteq Int
    <3>1. /\ ReqSize \subseteq Int /\ SysSize \in Int
          /\ \A p \in Pool : PoolSize[p] \in Int
      <4>1. ReqSize \subseteq Nat /\ SysSize \in Nat
        BY Addresses, ZenonT(60)
      <4>2. \A p \in Pool : PoolSize[p] \in Nat
        BY PoolNumbers, ZenonT(60)
      <4>3. QED
        BY <4>1, <4>2
    <3>2. /\ \A p \in Pool, more \in ReqSize : PoolSize[p] + more \in Int
          /\ \A more \in ReqSize : SysSize + more \in Int
      BY <3>1
    <3>3. SUFFICES ASSUME NEW size \in AskedSize PROVE size \in Int
      BY ZenonT(60)
    <3>4. \/ size \in ReqSize
          \/ \E p \in Pool, more \in ReqSize : size = PoolSize[p] + more
          \/ \E more \in ReqSize : size = SysSize + more
      BY <3>3 DEF AskedSize
    <3>5. QED
      BY ZenonT(60), <3>1, <3>2, <3>4
  <2>2. ASSUME NEW size \in AskedSize, op_malloc_link_freed(t, size)
        PROVE  IInv'
    BY <2>2, UndefinedIInv, ZenonT(60) DEF op_malloc_link_freed, Asks
  <2>3. ASSUME NEW size \in AskedSize, NEW k \in 0 .. Max({PoolNum[p] : p \in Pool}),
               op_malloc_no_chunk(t, size, k)
        PROVE  IInv'
    <3>1. k \in Nat
      OBVIOUS
    <3>2. QED
      BY <2>1, <2>3, <3>1, NoChunkIInv, ZenonT(60)
  <2>4. QED
    BY ZenonT(60), <1>3, <2>1, <2>2, <2>3, SystemIInv, LockIInv, GrowIInv, NoFatherIInv, TakeIInv,
       ReturnIInv, ReallocSizeIInv DEF op_malloc
<1>4. ASSUME NEW t \in Thread, NEW n \in held, op_free(t, n)
      PROVE  IInv'
  BY <1>4, FreeUnknownIInv, FreeSystemIInv, FreePoolIInv, ZenonT(60) DEF op_free
<1>5. ASSUME NEW t \in Thread, NEW n \in held, op_realloc(t, n)
      PROVE  IInv'
  BY <1>5, ReallocIInv, ZenonT(60)
<1>6. CASE op_mem_release_check
  BY <1>6, ReleaseIInv, ZenonT(60)
<1>7. CASE walk_freed_father
  BY <1>7, UndefinedIInv, ZenonT(60) DEF walk_freed_father
<1>8. CASE Stopped
  BY <1>8, StutterIInv, ZenonT(60) DEF Stopped
<1>9. QED
  BY ZenonT(60), <1>1, <1>2, <1>3, <1>4, <1>5, <1>6, <1>7, <1>8 DEF Next

\* The inductive invariant: free lists, fathers, counters, owners and the
\* positions of the threads fit together in every reachable state of opmem.c.
THEOREM Inductive == Spec => []IInv
<1>1. Init => IInv
  BY InitIInv, ZenonT(60)
<1>2. IInv /\ [Next]_vars => IInv'
  BY NextIInv, ZenonT(60)
<1>3. QED
  BY <1>1, <1>2, PTL DEF Spec

\* used_size and the per-pool counters never go below zero, and every field of
\* opmem.c keeps its type.
THEOREM TypeCorrect == Spec => []TypeOK
<1>1. IInv => TypeOK
  <2>1. SUFFICES ASSUME IInv PROVE TypeOK
    BY ZenonT(60)
  <2>2. \A p \in Pool : can_used_num[p] \in Nat /\ all_num[p] \in Nat
    BY <2>1, FiniteSets, ZenonT(60) DEF IInv, Counts
  <2>3. \A f \in heapFather : used_size[f] \in Nat
    <3>1. SUFFICES ASSUME NEW f \in heapFather PROVE used_size[f] \in Nat
      BY ZenonT(60)
    <3>2. f \in father_node_list /\ ele[f] \in Pool
      BY <2>1, <3>1, ZenonT(60) DEF IInv, Shape
    <3>3. Cardinality(Lent(f)) \in Nat /\ PoolSize[ele[f]] \in Nat
      BY ZenonT(60), <2>1, <3>2, FiniteSets, PoolNumbers DEF IInv
    <3>4. \A a, c \in Nat : a * c \in Nat
      OBVIOUS
    <3>5. QED
      BY <2>1, <3>3, <3>4, ZenonT(60) DEF IInv, Counts
  <2>4. used_size \in [Father -> Nat]
    BY <2>1, <2>3 DEF IInv, BaseType, Counts
  <2>5. can_used_num \in [Pool -> Nat] /\ all_num \in [Pool -> Nat]
    BY ZenonT(60), <2>1, <2>2 DEF IInv, BaseType
  <2>6. QED
    BY <2>1, <2>4, <2>5, ZenonT(60) DEF IInv, BaseType, TypeOK
<1>2. QED
  BY <1>1, Inductive, PTL

\* op_mem_release_check may trust used_size: it is the bytes of a father's nodes
\* that are out, for any pool table and any number of threads.
THEOREM UsedSizeIsExact == Spec => []UsedSizeExact
<1>1. IInv => UsedSizeExact
  <2>1. SUFFICES ASSUME IInv, NEW f \in heapFather
                 PROVE  used_size[f] = PoolSize[ele[f]] * Cardinality(OutOf(f))
    BY ZenonT(60) DEF UsedSizeExact
  <2>2. OutOf(f) = Lent(f)
    <3>1. \A p \in Pool : list[p] \subseteq {n \in heapNode : n.pool = p}
      BY <2>1, ZenonT(60) DEF IInv, Shape, NodesOf
    <3>2. \A n \in heapNode : n.pool \in Pool /\ ele[n.father] = n.pool
      BY <2>1, ZenonT(60) DEF IInv, Shape, BaseType, Node
    <3>3. \A n \in heapNode : n \in FreeNode <=> n \in list[n.pool]
      BY <3>1, <3>2 DEF FreeNode
    <3>4. QED
      BY <3>2, <3>3, ZenonT(60) DEF OutOf, Lent, NodesOf
  <2>3. QED
    BY <2>1, <2>2, ZenonT(60) DEF IInv, Counts
<1>2. QED
  BY <1>1, Inductive, PTL

\* The counters op_mem_information prints are the sizes of the lists.
THEOREM CountersAreExact == Spec => []CountersExact
<1>1. IInv => CountersExact
  BY ZenonT(60) DEF IInv, Counts, NodesOf, CountersExact
<1>2. QED
  BY <1>1, Inductive, PTL

\* op_malloc never hands out a block twice and op_mem_release_check never takes
\* one away, whatever the interleaving and whatever allocation fails.
THEOREM NoBlockIssuedTwice == Spec => []NoDoubleIssue
<1>1. IInv => NoDoubleIssue
  <2>1. SUFFICES ASSUME IInv PROVE NoDoubleIssue
    BY ZenonT(60)
  <2>2. \A n \in FreeNode : n \in Node /\ n \in heapNode /\ n \in list[n.pool]
    BY <2>1 DEF IInv, Shape, NodesOf, FreeNode, BaseType
  <2>3. \A n : IsOut(n) => n \notin FreeNode /\ n \in heapNode \cup sys_list
    BY ZenonT(60), <2>1, <2>2, Addresses DEF IInv, BaseType, IsOut, Node
  <2>4. NULL \notin FreeNode /\ NULL \notin held
    BY ZenonT(60), <2>1, <2>2, Addresses DEF IInv, BaseType, Block, Node
  <2>5. \A n \in InHand : n = NULL \/ IsOut(n)
    BY <2>1, ZenonT(60) DEF IInv, Owners, InHand
  <2>6. QED
    BY ZenonT(60), <2>1, <2>3, <2>4, <2>5 DEF IInv, Owners, NoDoubleIssue
<1>2. QED
  BY <1>1, Inductive, PTL

\* Only the failure of a chunk's or a node's allocation in op_malloc, which
\* leaves a freed father on the list, can lead to the use of freed memory.
THEOREM FreedUseOnlyAfterFailedGrow == Spec => []FreedUseNeedsFailedGrow
<1>1. IInv => FreedUseNeedsFailedGrow
  BY ZenonT(60) DEF IInv
<1>2. QED
  BY <1>1, Inductive, PTL
==============================================================================
