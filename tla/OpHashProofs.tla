----------------------------- MODULE OpHashProofs -----------------------------
(*****************************************************************************)
(* The linear hash table implements a map for every set of keys, every hash   *)
(* and every MIN_NODES, however often it grows, shrinks and fails to.  The     *)
(* file type detection, which keeps its expressions in such a table, names    *)
(* the longest match and holds exactly what it should, for every magic file.  *)
(*****************************************************************************)
EXTENDS OpHash, OpFile, WellFoundedInduction, TLAPS


\* Arithmetic of the two moduli.
LEMMA Mod ==
    ASSUME NEW h \in Nat, NEW n \in Nat \ {0}
    PROVE  h \div n \in Int /\ h % n \in 0 .. n - 1 /\ h = n * (h \div n) + (h % n)
OBVIOUS

LEMMA ModUnique ==
    ASSUME NEW h \in Nat, NEW m \in Nat \ {0}, NEW q \in Int, NEW r \in 0 .. m - 1,
           h = q * m + r
    PROVE  h % m = r
OBVIOUS

LEMMA EvenQuotient ==
    ASSUME NEW q \in Int, NEW r \in Int, NEW h \in Nat, NEW m \in Nat,
           h = (2*m) * q + r
    PROVE  h = (2*q)*m + r
OBVIOUS

LEMMA OddQuotient ==
    ASSUME NEW q \in Int, NEW r \in Int, NEW h \in Nat, NEW m \in Nat,
           h = (2*m) * q + r
    PROVE  h = (2*q+1)*m + (r - m)
OBVIOUS

\* Modulo twice as many buckets a hash falls into its old bucket or that bucket's copy.
LEMMA ModDouble ==
    ASSUME NEW h \in Nat, NEW m \in Nat \ {0}, NEW n, n = 2 * m
    PROVE  h % n = h % m \/ h % n = (h % m) + m
<1>. DEFINE q == h \div n
            r == h % n
<1>1. n \in Nat \ {0}
  OBVIOUS
<1>2. q \in Int /\ r \in 0 .. n - 1 /\ h = n * q + r
  BY <1>1, Mod, Zenon
<1>. HIDE DEF q, r
<1>3. CASE r < m
  <2>1. h = (2 * q) * m + r
    BY <1>2, EvenQuotient
  <2>2. ASSUME NEW x \in Int, x = 2 * q
        PROVE  h % m = r
    <3>1. h = x * m + r /\ r \in 0 .. m - 1
      BY <2>1, <2>2, <1>2, <1>3
    <3>. QED  BY <3>1, ModUnique
  <2>. QED  BY <1>2, <2>2 DEF r
<1>4. CASE r >= m
  <2>1. h = (2 * q + 1) * m + (r - m)
    BY <1>2, OddQuotient
  <2>2. ASSUME NEW x \in Int, x = 2 * q + 1, NEW y \in Int, y = r - m
        PROVE  h % m = y
    <3>1. h = x * m + y /\ y \in 0 .. m - 1
      BY <2>1, <2>2, <1>2, <1>4
    <3>. QED  BY <3>1, ModUnique
  <2>3. h % m = r - m
    BY <1>2, <2>2
  <2>. QED  BY <1>2, <2>3 DEF r
<1>. QED  BY <1>2, <1>3, <1>4
------------------------------------------------------------------------------
\* pmax can be halved down to half of MIN_NODES: some set of sizes that holds it
\* holds the half of every other size in it.
Halvable(m) ==
    \E S \in SUBSET Nat :
       /\ m \in S
       /\ \A x \in S : x = MIN_NODES \div 2 \/ (x % 2 = 0 /\ x \div 2 \in S)

Chain == SUBSET [key : Key, data : Value]

\* A table with its sizes in order.
Table(t) ==
    /\ t.pmax \in Nat \ {0} /\ t.p \in 0 .. t.pmax - 1 /\ t.alloc = 2 * t.pmax
    /\ t.b \in [0 .. t.alloc - 1 -> Chain]

\* A table in which getrn finds every entry.
Good(t) ==
    \A i \in 0 .. t.alloc - 1 : \A e \in t.b[i] :
       /\ BucketIn(t, e.key) = i
       /\ \A f \in t.b[i] : f.key = e.key => f = e

\* What getrn finds under k, and the entries anywhere in the table.
At(t, k) == Data(t.b[BucketIn(t, k)], k)

In(t, e) == \E i \in 0 .. t.alloc - 1 : e \in t.b[i]

LEMMA BucketRange ==
    ASSUME NEW t, Table(t), NEW k \in Key
    PROVE  /\ BucketIn(t, k) \in 0 .. t.p + t.pmax - 1
           /\ BucketIn(t, k) \in 0 .. t.alloc - 1
<1>1. Hash[k] \in Nat /\ t.pmax \in Nat \ {0} /\ t.alloc = 2 * t.pmax /\ t.p \in 0 .. t.pmax - 1
  BY HashConstants DEF Table
<1>. DEFINE nn == Hash[k] % t.pmax
            mm == Hash[k] % t.alloc
<1>2. nn \in 0 .. t.pmax - 1
  BY <1>1, Mod, Zenon
<1>3. mm = nn \/ mm = nn + t.pmax
  BY <1>1, ModDouble, Zenon
<1>4. BucketIn(t, k) = IF nn < t.p THEN mm ELSE nn
  BY DEF BucketIn
<1>. HIDE DEF nn, mm
<1>. QED  BY <1>1, <1>2, <1>3, <1>4

\* Of a key in the table its only entry is found, of another nothing.
LEMMA FoundThere ==
    ASSUME NEW t, Table(t), Good(t), NEW e, In(t, e)
    PROVE  e \in [key : Key, data : Value] /\ At(t, e.key) = e.data
<1>1. PICK i \in 0 .. t.alloc - 1 : e \in t.b[i]
  BY DEF In
<1>2. e \in [key : Key, data : Value]
  BY <1>1, ZenonT(60) DEF Table, Chain
<1>3. BucketIn(t, e.key) = i /\ \A f \in t.b[i] : f.key = e.key => f = e
  BY <1>1 DEF Good
<1>4. Has(t.b[i], e.key) /\ The(t.b[i], e.key) = e
  BY <1>1, <1>3 DEF Has, The
<1>. QED  BY <1>2, <1>3, <1>4 DEF At, Data

LEMMA NotFound ==
    ASSUME NEW t, Table(t), NEW k \in Key, \A e : In(t, e) => e.key # k
    PROVE  At(t, k) = Null
<1>1. BucketIn(t, k) \in 0 .. t.alloc - 1
  BY BucketRange
<1>2. ~ Has(t.b[BucketIn(t, k)], k)
  BY <1>1 DEF Has, In
<1>. QED  BY <1>2 DEF At, Data

\* Two tables with the same entries of a key give the same under it.
LEMMA Agree ==
    ASSUME NEW t, Table(t), Good(t), NEW u, Table(u), Good(u), NEW k \in Key,
           \A e : e.key = k => (In(t, e) <=> In(u, e))
    PROVE  At(t, k) = At(u, k)
<1>1. CASE \E e : In(t, e) /\ e.key = k
  <2>1. PICK e : In(t, e) /\ e.key = k
    BY <1>1
  <2>2. In(u, e)
    BY <2>1
  <2>3. At(t, e.key) = e.data
    BY <2>1, FoundThere
  <2>4. At(u, e.key) = e.data
    BY <2>2, FoundThere
  <2>. QED  BY <2>1, <2>3, <2>4
<1>2. CASE \A e : In(t, e) => e.key # k
  <2>1. At(t, k) = Null
    BY <1>2, NotFound
  <2>2. \A e : In(u, e) => e.key # k
    BY <1>2
  <2>3. At(u, k) = Null
    BY <2>2, NotFound
  <2>. QED  BY <2>1, <2>3
<1>. QED  BY <1>1, <1>2
------------------------------------------------------------------------------
\* The operations on chains.

\* The table t with the chains c.
WithBuckets(t, c) == [b |-> c, alloc |-> t.alloc, pmax |-> t.pmax, p |-> t.p]

\* The chains of t with X in the place of the entries of k.
Replaced(t, k, X) == [t.b EXCEPT ![BucketIn(t, k)] = {e \in @ : e.key # k} \union X]

\* Where the entry of k was there is the entry of k with v, or none.
LEMMA Put ==
    ASSUME NEW t, Table(t), Good(t), NEW k \in Key, NEW v \in Value,
           NEW X, X \subseteq {Entry(k, v)}
    PROVE  LET u == WithBuckets(t, Replaced(t, k, X)) IN
           /\ Table(u) /\ Good(u)
           /\ \A j \in Key \ {k} : At(u, j) = At(t, j)
           /\ X = {} => At(u, k) = Null
           /\ X # {} => At(u, k) = v
<1>. DEFINE c == Replaced(t, k, X)
            u == WithBuckets(t, c)
            i == BucketIn(t, k)
<1>1. i \in 0 .. t.alloc - 1
  BY BucketRange
<1>2. u.b = c /\ u.alloc = t.alloc /\ u.pmax = t.pmax /\ u.p = t.p
  BY DEF WithBuckets
<1>3. \A j : BucketIn(u, j) = BucketIn(t, j)
  BY <1>2 DEF BucketIn
<1>. HIDE DEF u
<1>4. /\ DOMAIN t.b = 0 .. t.alloc - 1
      /\ \A j \in 0 .. t.alloc - 1 : t.b[j] \subseteq [key : Key, data : Value]
  BY DEF Table, Chain
<1>5. \A e \in X : e = Entry(k, v) /\ e \in [key : Key, data : Value] /\ e.key = k /\ e.data = v
  BY DEF Entry
<1>6. /\ c[i] = {e \in t.b[i] : e.key # k} \union X
      /\ \A j \in 0 .. t.alloc - 1 : j # i => c[j] = t.b[j]
      /\ c \in [0 .. t.alloc - 1 -> Chain]
  <2>1. {e \in t.b[i] : e.key # k} \union X \subseteq [key : Key, data : Value]
    BY <1>1, <1>4, <1>5
  <2>. QED  BY <1>1, <1>4, <2>1, ZenonT(60) DEF Table, Chain, Replaced
<1>. HIDE DEF c
<1>7. Table(u)
  BY <1>2, <1>6 DEF Table
<1>8. Good(u)
  <2>. SUFFICES ASSUME NEW j \in 0 .. t.alloc - 1, NEW e \in c[j]
               PROVE  /\ BucketIn(t, e.key) = j
                      /\ \A f \in c[j] : f.key = e.key => f = e
    BY <1>2, <1>3 DEF Good
  <2>1. CASE j # i
    BY <1>6, <2>1 DEF Good
  <2>2. CASE j = i
    <3>1. CASE e \in X
      BY <1>5, <1>6, <2>2, <3>1
    <3>2. CASE e \notin X
      <4>1. e \in t.b[i] /\ e.key # k
        BY <1>6, <2>2, <3>2
      <4>. QED  BY <1>1, <1>5, <1>6, <2>2, <4>1 DEF Good
    <3>. QED  BY <3>1, <3>2
  <2>. QED  BY <2>1, <2>2
<1>9. ASSUME NEW j \in Key \ {k}
      PROVE  At(u, j) = At(t, j)
  <2>1. ASSUME NEW e, e.key = j
        PROVE  In(t, e) <=> In(u, e)
    <3>1. \A n \in 0 .. t.alloc - 1 : e \in t.b[n] <=> e \in c[n]
      BY <1>1, <1>5, <1>6, <2>1
    <3>. QED  BY <1>2, <3>1 DEF In
  <2>2. \A e : e.key = j => (In(t, e) <=> In(u, e))
    BY <2>1
  <2>. QED  BY <1>7, <1>8, <2>2, Agree
<1>10. ASSUME X = {}
       PROVE  At(u, k) = Null
  <2>1. ASSUME NEW e, In(u, e)
        PROVE  e.key # k
    <3>1. PICK n \in 0 .. t.alloc - 1 : e \in c[n]
      BY <1>2, <2>1 DEF In
    <3>2. CASE n = i
      BY <1>6, <1>10, <3>1, <3>2
    <3>3. CASE n # i
      BY <1>6, <3>1, <3>3 DEF Good
    <3>. QED  BY <3>2, <3>3
  <2>. QED  BY <1>7, <2>1, NotFound
<1>11. ASSUME X # {}
       PROVE  At(u, k) = v
  <2>1. Entry(k, v) \in c[i]
    BY <1>6, <1>11
  <2>2. In(u, Entry(k, v))
    BY <1>1, <1>2, <2>1 DEF In
  <2>3. At(u, Entry(k, v).key) = Entry(k, v).data
    BY <1>7, <1>8, <2>2, FoundThere
  <2>. QED  BY <2>3 DEF Entry
<1>. QED  BY <1>7, <1>8, <1>9, <1>10, <1>11 DEF u, c

\* WithBuckets one entry of a key at most, to drop The(chain, k) is to drop all of the key.
LEMMA OnlyOne ==
    ASSUME NEW t, Table(t), Good(t), NEW k \in Key
    PROVE  LET chain == t.b[BucketIn(t, k)] IN
           /\ Has(chain, k) => chain \ {The(chain, k)} = {e \in chain : e.key # k}
           /\ ~ Has(chain, k) => chain = {e \in chain : e.key # k}
<1>. DEFINE chain == t.b[BucketIn(t, k)]
<1>1. \A e, f \in chain : e.key = f.key => e = f
  BY BucketRange DEF Good
<1>2. ASSUME Has(chain, k)
      PROVE  chain \ {The(chain, k)} = {e \in chain : e.key # k}
  <2>1. The(chain, k) \in chain /\ The(chain, k).key = k
    BY <1>2 DEF Has, The
  <2>. QED  BY <1>1, <2>1
<1>3. ASSUME ~ Has(chain, k)
      PROVE  chain = {e \in chain : e.key # k}
  BY <1>3 DEF Has
<1>. QED  BY <1>2, <1>3
------------------------------------------------------------------------------
\* The table of the program.
HashInv ==
    /\ Table(Same) /\ Good(Same)
    /\ Halvable(pmax) /\ num_nodes = p + pmax

LEMMA SameIs == /\ Same.b = b /\ Same.alloc = num_alloc_nodes
                /\ Same.pmax = pmax /\ Same.p = p
BY DEF Same

\* The sizes after expand.
LEMMA ExpandSizes ==
    ASSUME HashInv
    PROVE  /\ pmax \in Nat \ {0} /\ p \in 0 .. pmax - 1 /\ num_alloc_nodes = 2 * pmax
           /\ expand.pmax \in Nat \ {0} /\ expand.p \in 0 .. expand.pmax - 1
           /\ expand.alloc = 2 * expand.pmax /\ expand.alloc >= num_alloc_nodes
           /\ expand.p + expand.pmax = p + pmax + 1
           /\ Halvable(expand.pmax)
<1>1. pmax \in Nat \ {0} /\ p \in 0 .. pmax - 1 /\ num_alloc_nodes = 2 * pmax
  BY SameIs DEF HashInv, Table
<1>2. /\ expand.pmax = IF Grows THEN 2 * pmax ELSE pmax
      /\ expand.p = IF Grows THEN 0 ELSE p + 1
      /\ expand.alloc = IF Grows THEN 2 * num_alloc_nodes ELSE num_alloc_nodes
  BY <1>1 DEF expand
<1>3. Halvable(2 * pmax)
  <2>1. PICK S \in SUBSET Nat :
              /\ pmax \in S
              /\ \A x \in S : x = MIN_NODES \div 2 \/ (x % 2 = 0 /\ x \div 2 \in S)
    BY DEF HashInv, Halvable
  <2>2. (2 * pmax) % 2 = 0 /\ (2 * pmax) \div 2 = pmax /\ 2 * pmax \in Nat
    BY <1>1
  <2>3. S \union {2 * pmax} \in SUBSET Nat
    BY <2>2, Zenon
  <2>. QED  BY <2>1, <2>2, <2>3, Zenon DEF Halvable
<1>. QED  BY <1>1, <1>2, <1>3 DEF Grows, HashInv

\* Only keys of bucket p change their bucket.
LEMMA ExpandBucket ==
    ASSUME HashInv, NEW k \in Key
    PROVE  /\ BucketIn(expand, k) = IF BucketIn(Same, k) = p THEN Hash[k] % num_alloc_nodes
                                    ELSE BucketIn(Same, k)
           /\ BucketIn(Same, k) = p => Hash[k] % num_alloc_nodes \in {p, p + pmax}
<1>1. pmax \in Nat \ {0} /\ p \in 0 .. pmax - 1 /\ num_alloc_nodes = 2 * pmax /\ Hash[k] \in Nat
  BY ExpandSizes, HashConstants
<1>. DEFINE nn == Hash[k] % pmax
            mm == Hash[k] % num_alloc_nodes
<1>2. nn \in 0 .. pmax - 1
  BY <1>1, Mod, Zenon
<1>3. mm = nn \/ mm = nn + pmax
  BY <1>1, ModDouble, Zenon
<1>4. BucketIn(Same, k) = IF nn < p THEN mm ELSE nn
  BY SameIs DEF BucketIn
<1>5. CASE Grows
  <2>1. expand.pmax = num_alloc_nodes /\ expand.p = 0
    BY <1>5 DEF expand
  <2>2. BucketIn(expand, k) = IF mm < 0 THEN Hash[k] % expand.alloc ELSE mm
    BY <2>1 DEF BucketIn
  <2>3. p = pmax - 1
    BY <1>1, <1>5 DEF Grows
  <2>. HIDE DEF nn, mm
  <2>4. BucketIn(expand, k) = mm
    BY <1>1, <1>2, <1>3, <2>2
  <2>. QED  BY <1>1, <1>2, <1>3, <1>4, <2>3, <2>4 DEF mm
<1>6. CASE ~ Grows
  <2>1. expand.pmax = pmax /\ expand.p = p + 1 /\ expand.alloc = num_alloc_nodes
    BY <1>6 DEF expand
  <2>2. BucketIn(expand, k) = IF nn < p + 1 THEN mm ELSE nn
    BY <2>1 DEF BucketIn
  <2>. HIDE DEF nn, mm
  <2>. QED  BY <1>1, <1>2, <1>3, <1>4, <2>2 DEF mm
<1>. QED  BY <1>5, <1>6

LEMMA ExpandGood ==
    ASSUME HashInv
    PROVE  /\ Table(expand) /\ Good(expand)
           /\ \A k \in Key : At(expand, k) = At(Same, k)
<1>1. /\ pmax \in Nat \ {0} /\ p \in 0 .. pmax - 1 /\ num_alloc_nodes = 2 * pmax
      /\ expand.alloc \in Nat /\ expand.alloc >= num_alloc_nodes
  BY ExpandSizes
<1>2. Table(Same) /\ Good(Same) /\ Same.b = b /\ Same.alloc = num_alloc_nodes
  BY SameIs DEF HashInv
<1>3. \A i \in 0 .. num_alloc_nodes - 1 : b[i] \subseteq [key : Key, data : Value]
  BY <1>2, Zenon DEF Table, Chain
<1>4. expand.b = [i \in 0 .. expand.alloc - 1 |->
                    IF i = p THEN {e \in b[p] : Stays(e)}
                    ELSE IF i = p + pmax THEN {e \in b[p] : ~ Stays(e)}
                    ELSE IF i < num_alloc_nodes THEN b[i] ELSE {}]
  BY DEF expand
<1>. DEFINE X == expand
<1>. HIDE DEF X
<1>5. /\ p \in 0 .. X.alloc - 1 /\ p + pmax \in 0 .. X.alloc - 1 /\ p # p + pmax
      /\ p \in 0 .. num_alloc_nodes - 1 /\ p + pmax \in 0 .. num_alloc_nodes - 1
  BY <1>1 DEF X
<1>6. /\ X.b[p] = {e \in b[p] : Stays(e)}
      /\ X.b[p + pmax] = {e \in b[p] : ~ Stays(e)}
      /\ \A i \in 0 .. X.alloc - 1 :
            i # p /\ i # p + pmax => X.b[i] = IF i < num_alloc_nodes THEN b[i] ELSE {}
      /\ DOMAIN X.b = 0 .. X.alloc - 1
  BY <1>4, <1>5 DEF X
<1>7. \A i \in 0 .. X.alloc - 1 : X.b[i] \in Chain
  BY <1>1, <1>3, <1>5, <1>6 DEF Chain
<1>8. Table(X)
  <2>1. X.b \in [0 .. X.alloc - 1 -> Chain]
    BY <1>4, <1>7, Zenon DEF X
  <2>. QED  BY <2>1, ExpandSizes, ZenonT(60) DEF X, Table
<1>9. Good(X)
  <2>. SUFFICES ASSUME NEW i \in 0 .. X.alloc - 1, NEW e \in X.b[i]
               PROVE  /\ BucketIn(X, e.key) = i
                      /\ \A f \in X.b[i] : f.key = e.key => f = e
    BY DEF Good
  <2>1. e.key \in Key
    BY <1>7 DEF Chain
  <2>2. CASE i = p \/ i = p + pmax
    <3>1. e \in b[p] /\ \A f \in X.b[i] : f \in b[p]
      BY <1>6, <2>2
    <3>2. BucketIn(Same, e.key) = p /\ \A f \in b[p] : f.key = e.key => f = e
      BY <1>2, <1>5, <3>1 DEF Good
    <3>3. /\ BucketIn(X, e.key) = Hash[e.key] % num_alloc_nodes
          /\ Hash[e.key] % num_alloc_nodes \in {p, p + pmax}
      BY <2>1, <3>2, ExpandBucket DEF X
    <3>4. i = p <=> Hash[e.key] % num_alloc_nodes = p
      BY <1>5, <1>6, <2>2 DEF Stays
    <3>. QED  BY <2>2, <3>1, <3>2, <3>3, <3>4
  <2>3. CASE i # p /\ i # p + pmax
    <3>1. e \in b[i] /\ X.b[i] = b[i] /\ i \in 0 .. num_alloc_nodes - 1
      BY <1>1, <1>6, <2>3
    <3>2. BucketIn(Same, e.key) = i /\ \A f \in b[i] : f.key = e.key => f = e
      BY <1>2, <3>1 DEF Good
    <3>. QED  BY <2>1, <2>3, <3>1, <3>2, ExpandBucket DEF X
  <2>. QED  BY <2>2, <2>3
<1>10. ASSUME NEW e
       PROVE  In(Same, e) <=> In(X, e)
  <2>1. ASSUME NEW i \in 0 .. num_alloc_nodes - 1, e \in b[i]
        PROVE  In(X, e)
    <3>1. i # p + pmax
      <4>1. BucketIn(Same, e.key) = i /\ e.key \in Key
        BY <1>2, <1>3, <2>1 DEF Good
      <4>2. BucketIn(Same, e.key) \in 0 .. p + pmax - 1
        BY <1>2, <4>1, BucketRange, SameIs
      <4>. QED  BY <1>1, <4>1, <4>2
    <3>2. CASE i = p
      BY <1>5, <1>6, <2>1, <3>2 DEF In
    <3>3. CASE i # p
      <4>1. i \in 0 .. X.alloc - 1 /\ i < num_alloc_nodes
        BY <1>1 DEF X
      <4>. QED  BY <1>6, <2>1, <3>1, <3>3, <4>1 DEF In
    <3>. QED  BY <3>2, <3>3
  <2>2. ASSUME NEW i \in 0 .. X.alloc - 1, e \in X.b[i]
        PROVE  \E j \in 0 .. num_alloc_nodes - 1 : e \in b[j]
    <3>1. CASE i = p \/ i = p + pmax
      BY <1>5, <1>6, <2>2, <3>1
    <3>2. CASE i # p /\ i # p + pmax
      BY <1>1, <1>6, <2>2, <3>2
    <3>. QED  BY <3>1, <3>2
  <2>. QED  BY <1>2, <2>1, <2>2 DEF In
<1>11. \A k \in Key : At(X, k) = At(Same, k)
  BY <1>2, <1>8, <1>9, <1>10, Agree, Zenon
<1>. QED  BY <1>8, <1>9, <1>11 DEF X
------------------------------------------------------------------------------
\* contract, of a table d.
LastOf(d) == d.p + d.pmax - 1
HeadOf(d) == IF d.p = 0 THEN (d.pmax \div 2) - 1 ELSE d.p - 1
HalfOf(d) == IF d.p = 0 THEN d.alloc \div 2 ELSE d.alloc

Merged(d) ==
    [b |-> [i \in 0 .. HalfOf(d) - 1 |->
              IF i = HeadOf(d) THEN d.b[HeadOf(d)] \union d.b[LastOf(d)]
              ELSE IF i = LastOf(d) THEN {} ELSE d.b[i]],
     alloc |-> HalfOf(d),
     pmax |-> IF d.p = 0 THEN d.pmax \div 2 ELSE d.pmax,
     p |-> HeadOf(d)]

\* The sizes after contract; at p = 0 pmax is even.
LEMMA MergedSizes ==
    ASSUME NEW d, Table(d), Halvable(d.pmax), d.p + d.pmax > MIN_NODES
    PROVE  LET u == Merged(d) IN
           /\ d.p = 0 => d.pmax = 2 * u.pmax
           /\ u.pmax \in Nat \ {0} /\ u.p \in 0 .. u.pmax - 1 /\ u.alloc = 2 * u.pmax
           /\ u.p + u.pmax = d.p + d.pmax - 1
           /\ Halvable(u.pmax)
           /\ HeadOf(d) \in 0 .. HalfOf(d) - 1 /\ LastOf(d) \in 0 .. HalfOf(d) - 1
           /\ HeadOf(d) < LastOf(d)
           /\ HalfOf(d) <= d.alloc
<1>1. d.pmax \in Nat \ {0} /\ d.p \in 0 .. d.pmax - 1 /\ d.alloc = 2 * d.pmax
  BY ZenonT(60) DEF Table
<1>2. /\ Merged(d).pmax = IF d.p = 0 THEN d.pmax \div 2 ELSE d.pmax
      /\ Merged(d).p = HeadOf(d) /\ Merged(d).alloc = HalfOf(d)
  BY DEF Merged
<1>3. CASE d.p = 0
  <2>1. PICK S \in SUBSET Nat :
              /\ d.pmax \in S
              /\ \A x \in S : x = MIN_NODES \div 2 \/ (x % 2 = 0 /\ x \div 2 \in S)
    BY DEF Halvable
  <2>2. d.pmax # MIN_NODES \div 2 /\ d.pmax > 2
    BY <1>1, <1>3, HashConstants
  <2>3. d.pmax % 2 = 0 /\ d.pmax \div 2 \in S
    BY <2>1, <2>2, Zenon
  <2>4. Halvable(d.pmax \div 2)
    BY <2>1, <2>3 DEF Halvable
  <2>5. d.pmax \div 2 \in Nat \ {0} /\ d.pmax = 2 * (d.pmax \div 2)
    BY <1>1, <2>2, <2>3
  <2>6. d.alloc \div 2 = d.pmax
    BY <1>1
  <2>. QED  BY <1>1, <1>2, <1>3, <2>4, <2>5, <2>6 DEF HeadOf, LastOf, HalfOf
<1>4. CASE d.p # 0
  BY <1>1, <1>2, <1>4 DEF HeadOf, LastOf, HalfOf
<1>. QED  BY <1>3, <1>4

\* Only keys of the last bucket change their bucket.
LEMMA MergedBucket ==
    ASSUME NEW d, Table(d), Halvable(d.pmax), d.p + d.pmax > MIN_NODES, NEW k \in Key
    PROVE  BucketIn(Merged(d), k) =
             IF BucketIn(d, k) = LastOf(d) THEN HeadOf(d) ELSE BucketIn(d, k)
<1>. DEFINE u == Merged(d)
<1>1. d.pmax \in Nat \ {0} /\ d.p \in 0 .. d.pmax - 1 /\ d.alloc = 2 * d.pmax /\ Hash[k] \in Nat
  BY HashConstants DEF Table
<1>2. /\ d.p = 0 => d.pmax = 2 * u.pmax
      /\ u.pmax \in Nat \ {0} /\ u.alloc = 2 * u.pmax
  BY MergedSizes, ZenonT(60)
<1>3. /\ u.pmax = IF d.p = 0 THEN d.pmax \div 2 ELSE d.pmax
      /\ u.p = HeadOf(d)
  BY DEF Merged
<1>. HIDE DEF u
<1>4. CASE d.p = 0
  <2>. DEFINE nn == Hash[k] % u.pmax
              mm == Hash[k] % d.pmax
  <2>1. nn \in 0 .. u.pmax - 1
    BY <1>1, <1>2, Mod, Zenon
  <2>2. mm = nn \/ mm = nn + u.pmax
    BY <1>1, <1>2, <1>4, ModDouble, Zenon
  <2>3. u.alloc = d.pmax
    BY <1>2, <1>4
  <2>4. BucketIn(u, k) = IF nn < u.p THEN mm ELSE nn
    BY <2>3 DEF BucketIn
  <2>5. BucketIn(d, k) = IF mm < 0 THEN Hash[k] % d.alloc ELSE mm
    BY <1>4 DEF BucketIn
  <2>6. u.p = u.pmax - 1 /\ HeadOf(d) = u.pmax - 1 /\ LastOf(d) = u.pmax - 1 + u.pmax
    BY <1>1, <1>2, <1>3, <1>4 DEF HeadOf, LastOf
  <2>. HIDE DEF nn, mm
  <2>7. BucketIn(d, k) = mm
    BY <1>2, <2>1, <2>2, <2>5
  <2>. QED  BY <1>2, <2>1, <2>2, <2>4, <2>6, <2>7 DEF u
<1>5. CASE d.p # 0
  <2>. DEFINE nn == Hash[k] % d.pmax
              mm == Hash[k] % d.alloc
  <2>1. nn \in 0 .. d.pmax - 1
    BY <1>1, Mod, Zenon
  <2>2. mm = nn \/ mm = nn + d.pmax
    BY <1>1, ModDouble, Zenon
  <2>3. u.pmax = d.pmax /\ u.alloc = d.alloc /\ u.p = d.p - 1
    BY <1>1, <1>2, <1>3, <1>5 DEF HeadOf
  <2>4. BucketIn(u, k) = IF nn < u.p THEN mm ELSE nn
    BY <2>3 DEF BucketIn
  <2>5. BucketIn(d, k) = IF nn < d.p THEN mm ELSE nn
    BY DEF BucketIn
  <2>6. HeadOf(d) = d.p - 1 /\ LastOf(d) = d.p - 1 + d.pmax
    BY <1>1, <1>5 DEF HeadOf, LastOf
  <2>. HIDE DEF nn, mm
  <2>. QED  BY <1>1, <1>5, <2>1, <2>2, <2>3, <2>4, <2>5, <2>6 DEF u
<1>. QED  BY <1>4, <1>5

LEMMA MergedGood ==
    ASSUME NEW d, Table(d), Good(d), Halvable(d.pmax), d.p + d.pmax > MIN_NODES
    PROVE  /\ Table(Merged(d)) /\ Good(Merged(d))
           /\ \A k \in Key : At(Merged(d), k) = At(d, k)
<1>. DEFINE u == Merged(d)
            q == HeadOf(d)
            last == LastOf(d)
<1>1. /\ u.pmax \in Nat \ {0} /\ u.p \in 0 .. u.pmax - 1 /\ u.alloc = 2 * u.pmax
      /\ q \in 0 .. HalfOf(d) - 1 /\ last \in 0 .. HalfOf(d) - 1 /\ q < last
      /\ HalfOf(d) <= d.alloc /\ u.alloc = HalfOf(d)
      /\ d.alloc \in Nat
  <2>1. u.alloc = HalfOf(d)
    BY DEF Merged
  <2>2. d.alloc \in Nat
    BY DEF Table
  <2>. QED  BY <2>1, <2>2, MergedSizes, Zenon
<1>2. u.b = [i \in 0 .. u.alloc - 1 |-> IF i = q THEN d.b[q] \union d.b[last]
                                       ELSE IF i = last THEN {} ELSE d.b[i]]
  BY DEF Merged
<1>3. \A k \in Key : BucketIn(u, k) = IF BucketIn(d, k) = last THEN q ELSE BucketIn(d, k)
  BY MergedBucket
<1>4. \A k \in Key : BucketIn(d, k) \in 0 .. last
  BY BucketRange DEF LastOf
<1>. HIDE DEF u, q, last
<1>5. /\ q # last /\ q \in 0 .. u.alloc - 1 /\ last \in 0 .. u.alloc - 1
      /\ 0 .. u.alloc - 1 \subseteq 0 .. d.alloc - 1
  BY <1>1
<1>6. /\ u.b[q] = d.b[q] \union d.b[last] /\ u.b[last] = {}
      /\ \A i \in 0 .. u.alloc - 1 : i # q /\ i # last => u.b[i] = d.b[i]
  BY <1>2, <1>5
<1>7. \A i \in 0 .. d.alloc - 1 : d.b[i] \in Chain
  BY DEF Table
<1>8. \A i \in 0 .. u.alloc - 1 : u.b[i] \in Chain
  BY <1>5, <1>6, <1>7 DEF Chain
<1>9. Table(u)
  BY <1>1, <1>2, <1>8, Zenon DEF Table
<1>10. Good(u)
  <2>. SUFFICES ASSUME NEW i \in 0 .. u.alloc - 1, NEW e \in u.b[i]
               PROVE  /\ BucketIn(u, e.key) = i
                      /\ \A f \in u.b[i] : f.key = e.key => f = e
    BY DEF Good
  <2>1. e.key \in Key
    BY <1>8 DEF Chain
  <2>2. CASE i = q
    <3>1. \A f \in u.b[q] : \/ f \in d.b[q] /\ BucketIn(d, f.key) = q
                            \/ f \in d.b[last] /\ BucketIn(d, f.key) = last
      BY <1>5, <1>6 DEF Good
    <3>2. BucketIn(u, e.key) = q
      BY <1>3, <1>5, <2>1, <2>2, <3>1, Zenon
    <3>3. \A f \in u.b[q] : f.key = e.key => f = e
      BY <1>5, <2>2, <3>1, Zenon DEF Good
    <3>. QED  BY <2>2, <3>2, <3>3, Zenon
  <2>3. CASE i # q
    <3>1. i # last /\ u.b[i] = d.b[i] /\ i \in 0 .. d.alloc - 1
      BY <1>5, <1>6, <2>3, Zenon
    <3>2. BucketIn(d, e.key) = i /\ \A f \in d.b[i] : f.key = e.key => f = e
      BY <3>1 DEF Good
    <3>. QED  BY <1>3, <2>1, <3>1, <3>2, Zenon
  <2>. QED  BY <2>2, <2>3, Zenon
<1>11. ASSUME NEW e
       PROVE  In(d, e) <=> In(u, e)
  <2>1. ASSUME NEW i \in 0 .. d.alloc - 1, e \in d.b[i]
        PROVE  In(u, e)
    <3>1. i \in 0 .. last
      BY <1>4, <1>7, <2>1 DEF Good, Chain
    <3>2. i \in 0 .. u.alloc - 1
      BY <1>1, <1>5, <3>1
    <3>. QED  BY <1>5, <1>6, <2>1, <3>2, Zenon DEF In
  <2>2. ASSUME NEW i \in 0 .. u.alloc - 1, e \in u.b[i]
        PROVE  In(d, e)
    BY <1>5, <1>6, <2>2 DEF In
  <2>. QED  BY <2>1, <2>2 DEF In
<1>12. \A k \in Key : At(u, k) = At(d, k)
  BY <1>9, <1>10, <1>11, Agree, Zenon
<1>. QED  BY <1>9, <1>10, <1>12 DEF u

\* A contract that fails drops the last chain and leaves the others.
LEMMA Dropped ==
    ASSUME NEW d, Table(d), Good(d), NEW c, c = [d.b EXCEPT ![LastOf(d)] = {}],
           LastOf(d) \in 0 .. d.alloc - 1
    PROVE  /\ Table(WithBuckets(d, c)) /\ Good(WithBuckets(d, c))
           /\ d.b[LastOf(d)] = {} => \A k \in Key : At(WithBuckets(d, c), k) = At(d, k)
<1>. DEFINE u == WithBuckets(d, c)
<1>1. u.b = c /\ u.alloc = d.alloc /\ u.pmax = d.pmax /\ u.p = d.p
  BY DEF WithBuckets
<1>. HIDE DEF u
<1>2. \A k : BucketIn(u, k) = BucketIn(d, k)
  BY <1>1 DEF BucketIn
<1>3. c \in [0 .. d.alloc - 1 -> Chain] /\ \A i \in 0 .. d.alloc - 1 : c[i] \subseteq d.b[i]
  BY DEF Table, Chain
<1>4. Table(u)
  BY <1>1, <1>3 DEF Table
<1>5. Good(u)
  BY <1>1, <1>2, <1>3 DEF Good
<1>6. ASSUME d.b[LastOf(d)] = {}, NEW k \in Key
      PROVE  At(u, k) = At(d, k)
  <2>1. c = d.b
    BY <1>6, Zenon DEF Table
  <2>. QED  BY <1>1, <1>2, <2>1 DEF At
<1>. QED  BY <1>4, <1>5, <1>6, Zenon DEF u
------------------------------------------------------------------------------
\* The steps.

\* The invariant after a step, from the table after it.
LEMMA NextTable ==
    ASSUME NEW t, Table(t), Good(t), Halvable(t.pmax),
           b' = t.b, num_alloc_nodes' = t.alloc, pmax' = t.pmax, p' = t.p,
           num_nodes' = t.p + t.pmax
    PROVE  HashInv' /\ \A k : At(Same', k) = At(t, k)
<1>1. Same'.b = t.b /\ Same'.alloc = t.alloc /\ Same'.pmax = t.pmax /\ Same'.p = t.p
  BY DEF Same
<1>2. \A k : BucketIn(Same', k) = BucketIn(t, k)
  BY <1>1, Zenon DEF BucketIn
<1>3. Table(Same')
  BY <1>1, <1>2, Zenon DEF Table
<1>5. Good(Same')
  BY <1>1, <1>2, Zenon DEF Good
<1>4. \A k : At(Same', k) = At(t, k)
  BY <1>1, <1>2, Zenon DEF At
<1>. QED  BY <1>3, <1>4, <1>5, Zenon DEF HashInv

\* A step changes at most what is under k, and returns what a map would.
Mapped(k) ==
    /\ \A j \in Key \ {k} : At(Same', j) = At(Same, j)
    /\ \/ \E v \in Value : At(Same', k) = v /\ ret' = At(Same, k)
       \/ At(Same', k) = At(Same, k) /\ ret' = Null
       \/ At(Same', k) = At(Same, k) /\ ret' = At(Same, k)
       \/ At(Same', k) = Null /\ ret' = At(Same, k)

LEMMA PlaceStep ==
    ASSUME NEW t, Table(t), Good(t), Halvable(t.pmax),
           \A j \in Key : At(t, j) = At(Same, j),
           NEW k \in Key, NEW v \in Value, Place(t, k, v), Becomes(t)
    PROVE  HashInv' /\ Mapped(k)
<1>. DEFINE i == BucketIn(t, k)
            c == t.b[i]
<1>1. num_alloc_nodes' = t.alloc /\ pmax' = t.pmax /\ p' = t.p /\ num_nodes' = t.p + t.pmax
  BY Zenon DEF Becomes
<1>2. /\ Has(c, k) => c \ {The(c, k)} = {e \in c : e.key # k}
      /\ ~ Has(c, k) => c = {e \in c : e.key # k}
  BY OnlyOne
<1>3. At(t, k) = Data(c, k)
  BY DEF At
<1>4. CASE b' = t.b /\ ret' = Null
  <2>1. HashInv' /\ \A j : At(Same', j) = At(t, j)
    BY <1>1, <1>4, NextTable, Zenon
  <2>. QED  BY <1>4, <2>1 DEF Mapped
<1>5. CASE b' = [t.b EXCEPT ![i] = {e \in c : e.key # k} \union {Entry(k, v)}] /\ ret' = Data(c, k)
  <2>. DEFINE X == {Entry(k, v)}
              u == WithBuckets(t, Replaced(t, k, X))
  <2>1. b' = Replaced(t, k, X) /\ X \subseteq {Entry(k, v)} /\ X # {}
    BY <1>5, Zenon DEF Replaced
  <2>. HIDE DEF X
  <2>2. /\ Table(u) /\ Good(u) /\ At(u, k) = v
        /\ \A j \in Key \ {k} : At(u, j) = At(t, j)
    BY <2>1, Put
  <2>3. u.b = b' /\ u.alloc = t.alloc /\ u.pmax = t.pmax /\ u.p = t.p
    BY <2>1 DEF WithBuckets
  <2>. HIDE DEF u
  <2>4. HashInv' /\ \A j : At(Same', j) = At(u, j)
    BY <1>1, <2>2, <2>3, NextTable
  <2>. QED  BY <1>3, <1>5, <2>2, <2>4, Zenon DEF Mapped
<1>. QED  BY <1>2, <1>4, <1>5 DEF Place, Data

LEMMA InsertStep ==
    ASSUME HashInv, NEW k \in Key, NEW v \in Value, op_hash_insert(k, v)
    PROVE  HashInv' /\ Mapped(k)
<1>1. CASE Place(Same, k, v) /\ Becomes(Same)
  BY <1>1, PlaceStep, SameIs DEF HashInv
<1>2. CASE Place(expand, k, v) /\ Becomes(expand)
  <2>1. Halvable(expand.pmax)
    BY ExpandSizes, Zenon
  <2>. QED  BY <1>2, <2>1, ExpandGood, PlaceStep
<1>3. CASE FailedExpand
  <2>1. HashInv' /\ \A j : At(Same', j) = At(Same, j)
    BY <1>3, NextTable, SameIs, Zenon DEF FailedExpand, shape, HashInv
  <2>. QED  BY <1>3, <2>1 DEF Mapped, FailedExpand
<1>. QED  BY <1>1, <1>2, <1>3 DEF op_hash_insert

LEMMA DeleteStep ==
    ASSUME HashInv, NEW k \in Key, op_hash_delete(k)
    PROVE  HashInv' /\ (~ lost' => Mapped(k))
<1>. DEFINE i == BucketIn(Same, k)
            c == [b EXCEPT ![i] = @ \ {The(@, k)}]
            d == WithBuckets(Same, c)
<1>1. ret' = At(Same, k)
  BY SameIs DEF op_hash_delete, At
<1>2. CASE UNCHANGED <<b, shape>>
  <2>1. HashInv' /\ \A j : At(Same', j) = At(Same, j)
    BY <1>2, NextTable, SameIs DEF shape, HashInv
  <2>. QED  BY <1>1, <2>1 DEF Mapped
<1>3. CASE Has(b[i], k)
  <2>1. i \in 0 .. Same.alloc - 1
    BY BucketRange DEF HashInv
  <2>2. The(b[i], k) \in b[i]
    BY <1>3, Zenon DEF Has, The
  <2>3. PICK v \in Value : v = The(b[i], k).data
    BY <2>1, <2>2, SameIs DEF HashInv, Table, Chain
  <2>4. b[i] \ {The(b[i], k)} = {e \in b[i] : e.key # k}
    BY <1>3, OnlyOne, SameIs DEF HashInv
  <2>. DEFINE X == {}
  <2>5. c = Replaced(Same, k, X) /\ X \subseteq {Entry(k, v)} /\ X = {}
    BY <2>4, SameIs, Zenon DEF Replaced
  <2>. HIDE DEF X
  <2>6. /\ Table(d) /\ Good(d) /\ At(d, k) = Null
        /\ \A j \in Key \ {k} : At(d, j) = At(Same, j)
    <3>. DEFINE w == WithBuckets(Same, Replaced(Same, k, X))
    <3>1. Table(Same) /\ Good(Same) /\ X \subseteq {Entry(k, v)} /\ X = {}
      BY <2>5 DEF HashInv
    <3>2. /\ Table(w) /\ Good(w) /\ At(w, k) = Null
          /\ \A j \in Key \ {k} : At(w, j) = At(Same, j)
      BY <3>1, Put
    <3>. HIDE DEF c
    <3>3. d = w
      BY <2>5, Zenon
    <3>. QED  BY <3>2, <3>3
  <2>7. /\ d.b = c /\ d.alloc = num_alloc_nodes /\ d.pmax = pmax /\ d.p = p
    BY SameIs, Zenon DEF WithBuckets
  <2>8. Halvable(d.pmax) /\ num_nodes = d.p + d.pmax
    BY <2>7, Zenon DEF HashInv
  <2>9. /\ \/ Underloaded(num_items') /\ contract(c)
           \/ b' = c /\ UNCHANGED shape
    BY <1>3 DEF op_hash_delete
  <2>. HIDE DEF c, d
  <2>10. CASE b' = c /\ UNCHANGED shape
    <3>1. HashInv' /\ \A j : At(Same', j) = At(d, j)
      BY <2>6, <2>7, <2>8, <2>10, NextTable, Zenon DEF shape
    <3>. QED  BY <1>1, <2>6, <3>1, Zenon DEF Mapped
  <2>11. CASE Underloaded(num_items') /\ contract(c)
    <3>1. d.p + d.pmax > MIN_NODES
      BY <2>8, <2>11, Zenon DEF Underloaded
    <3>. DEFINE u == Merged(d)
    <3>2. /\ Halvable(u.pmax) /\ u.p + u.pmax = d.p + d.pmax - 1
          /\ LastOf(d) \in 0 .. HalfOf(d) - 1 /\ HalfOf(d) <= d.alloc
          /\ u.alloc = 2 * u.pmax /\ u.pmax \in Nat /\ u.p \in Nat
      BY <2>6, <2>8, <3>1, MergedSizes
    <3>0. d.p \in Nat /\ d.pmax \in Nat /\ d.alloc \in Nat /\ HalfOf(d) \in Nat
      BY <2>6 DEF Table, HalfOf
    <3>3. Table(u) /\ Good(u) /\ \A j \in Key : At(u, j) = At(d, j)
      BY <2>6, <2>8, <3>1, MergedGood, Zenon
    <3>4. CASE b' = u.b /\ num_alloc_nodes' = u.alloc /\ p' = u.p /\ pmax' = u.pmax
               /\ num_nodes' = num_nodes - 1
      <4>. HIDE DEF u
      <4>1. num_nodes' = u.p + u.pmax
        BY <2>8, <3>0, <3>2, <3>4
      <4>2. HashInv' /\ \A j : At(Same', j) = At(u, j)
        BY <3>2, <3>3, <3>4, <4>1, NextTable
      <4>. QED  BY <1>1, <2>6, <3>3, <4>2, Zenon DEF Mapped
    <3>5. CASE b' = [d.b EXCEPT ![LastOf(d)] = {}] /\ lost' = (d.b[LastOf(d)] # {})
               /\ UNCHANGED shape
      <4>1. LastOf(d) \in 0 .. d.alloc - 1
        BY <3>0, <3>2
      <4>. DEFINE w == WithBuckets(d, b')
      <4>2. /\ Table(w) /\ Good(w)
            /\ d.b[LastOf(d)] = {} => \A j \in Key : At(w, j) = At(d, j)
        BY <2>6, <3>5, <4>1, Dropped, Zenon
      <4>3. w.b = b' /\ w.alloc = d.alloc /\ w.pmax = d.pmax /\ w.p = d.p
        BY DEF WithBuckets
      <4>. HIDE DEF w
      <4>4. HashInv' /\ \A j : At(Same', j) = At(w, j)
        BY <2>7, <2>8, <3>5, <4>2, <4>3, NextTable, Zenon DEF shape
      <4>. QED  BY <1>1, <2>6, <3>5, <4>2, <4>4, Zenon DEF Mapped
    <3>6. LastOf(d) = p + pmax - 1 /\ u.p = HeadOf(d) /\ u.alloc = HalfOf(d)
      BY <2>7, Zenon DEF LastOf, Merged
    <3>. QED
      BY <2>7, <2>11, <3>4, <3>5, <3>6, Zenon DEF contract, Merged, HeadOf, HalfOf, LastOf
  <2>. QED  BY <2>9, <2>10, <2>11
<1>. QED  BY <1>2, <1>3, Zenon DEF op_hash_delete

LEMMA RetrieveStep ==
    ASSUME HashInv, NEW k \in Key, op_hash_retrieve(k)
    PROVE  HashInv' /\ Mapped(k)
<1>1. ret' = At(Same, k)
  BY SameIs, Zenon DEF op_hash_retrieve, At
<1>2. HashInv' /\ \A j : At(Same', j) = At(Same, j)
  BY NextTable, SameIs DEF op_hash_retrieve, shape, HashInv
<1>. QED  BY <1>1, <1>2 DEF Mapped

LEMMA HashStep ==
    ASSUME HashInv, Next
    PROVE  HashInv' /\ (~ lost' => \E k \in Key : Mapped(k))
BY InsertStep, DeleteStep, RetrieveStep DEF Next

LEMMA HashInit ==
    ASSUME Init
    PROVE  HashInv /\ \A k \in Key : At(Same, k) = Null
<1>1. /\ pmax \in Nat \ {0} /\ p = 0 /\ num_alloc_nodes = 2 * pmax /\ num_nodes = pmax
      /\ pmax = MIN_NODES \div 2 /\ b = [i \in 0 .. num_alloc_nodes - 1 |-> {}]
  <2>1. MIN_NODES \div 2 \in Nat \ {0} /\ MIN_NODES = 2 * (MIN_NODES \div 2)
    BY HashConstants
  <2>. QED  BY <2>1 DEF Init
<1>2. Table(Same)
  BY <1>1, SameIs DEF Table, Chain
<1>3. Good(Same) /\ \A e : ~ In(Same, e)
  BY <1>1, SameIs DEF Good, In
<1>4. Halvable(pmax)
  <2>1. {pmax} \in SUBSET Nat /\ \A x \in {pmax} : x = MIN_NODES \div 2
    BY <1>1
  <2>. QED  BY <2>1, Zenon DEF Halvable
<1>5. \A k \in Key : At(Same, k) = Null
  BY <1>2, <1>3, NotFound, Zenon
<1>. QED  BY <1>1, <1>2, <1>3, <1>4, <1>5 DEF HashInv

LEMMA HashStutter ==
    ASSUME HashInv, UNCHANGED vars
    PROVE  HashInv'
BY NextTable, SameIs DEF vars, shape, HashInv

\* The sizes stay those of a linear hash table, at p = 0 pmax can be halved, and getrn
\* finds every entry: every operation keeps it.
THEOREM HashInductive == Spec => []HashInv
<1>1. HashInv /\ [Next]_vars => HashInv'
  BY HashStep, HashStutter
<1>. QED  BY HashInit, <1>1, PTL DEF Spec

\* For every hash and every MIN_NODES an entry stays, through any number of splits and
\* merges, in the bucket where getrn looks for it, and alone with its key.
THEOREM EntriesPlaced == Spec => []Placed
<1>1. HashInv => Placed
  <2>. SUFFICES ASSUME HashInv, NEW i \in DOMAIN b, NEW e \in b[i]
               PROVE  /\ BucketIn(Same, e.key) = i /\ i < num_nodes
                      /\ \A f \in b[i] : f.key = e.key => f = e
    BY Zenon DEF Placed
  <2>1. i \in 0 .. Same.alloc - 1 /\ e \in Same.b[i] /\ e.key \in Key
    BY SameIs DEF HashInv, Table, Chain
  <2>2. BucketIn(Same, e.key) = i /\ \A f \in b[i] : f.key = e.key => f = e
    BY <2>1, SameIs, Zenon DEF HashInv, Good
  <2>3. BucketIn(Same, e.key) \in 0 .. p + pmax - 1
    BY <2>1, BucketRange, SameIs DEF HashInv
  <2>4. p \in Int /\ pmax \in Int /\ num_nodes = p + pmax
    BY SameIs DEF HashInv, Table
  <2>. QED  BY <2>2, <2>3, <2>4
<1>. QED  BY <1>1, HashInductive, PTL

\* The linear hash table implements the map of OpMap: every operation of it, with the
\* growing and shrinking it brings about, is one of the map, for any keys and any hash,
\* but for the delete that loses a chain (hash.c:302-308).
THEOREM TableIsMap == Spec => ImplementsMap
<1>1. Init => Map!Init
  <2>. SUFFICES ASSUME Init PROVE Map!Init
    OBVIOUS
  <2>1. \A k \in Key : Data(b[BucketIn(Same, k)], k) = Null
    BY HashInit, SameIs, Zenon DEF At
  <2>. QED  BY <2>1, Zenon DEF Init, Map!Init, Contents
<1>2. HashInv /\ [Next]_vars => [~ lost' => Map!Next]_(Map!vars)
  <2>. SUFFICES ASSUME HashInv, [Next]_vars
               PROVE  [~ lost' => Map!Next]_(Map!vars)
    OBVIOUS
  <2>1. \A k \in Key : Contents[k] = At(Same, k)
    BY SameIs, Zenon DEF Contents, At
  <2>2. \A k \in Key : Contents'[k] = At(Same', k)
    BY DEF Contents, At, Same
  <2>3. ASSUME NEW k \in Key, Mapped(k)
        PROVE  Map!Next
    <3>1. Map!Only(k)
      BY <2>1, <2>2, <2>3, Zenon DEF Mapped, Map!Only
    <3>2. Map!Retrieve(k) \/ Map!InsertFails(k) \/ Map!Delete(k) \/ \E v \in Value : Map!Insert(k, v)
      BY <2>1, <2>2, <2>3 DEF Mapped, Map!Retrieve, Map!InsertFails, Map!Delete, Map!Insert
    <3>. QED  BY <3>1, <3>2, Zenon DEF Map!Next
  <2>4. CASE Next
    BY <2>3, <2>4, HashStep, Zenon
  <2>5. CASE UNCHANGED vars
    BY <2>5 DEF vars, shape, Map!vars, Contents, Same
  <2>. QED  BY <2>4, <2>5
<1>. QED  BY <1>1, <1>2, HashInductive, PTL DEF Spec, ImplementsMap
-------------------------------------------------------------------------------
\* The file type detection.


FileType ==
    /\ stage \in {"parse", "ready", "failed"} /\ next \in Nat /\ next > 0
    /\ hash \subseteq Magic /\ db \subseteq hash /\ (stage = "parse" => db = {})
    /\ live \in [Kind -> Int] /\ missed \in Nat /\ checks \in Nat
    /\ pc \in {"idle", "begin", "scan", "choose", "return"} /\ (stage = "parse" => pc = "idle")
    /\ matched \in Seq(Magic) /\ result \in Magic \cup {0}

\* What a check holds from one call of the allocator to the next.
Holds ==
    /\ pc \in {"begin", "scan", "choose"} => result = 0
    /\ pc = "idle" => live["buf"] = 0
    /\ live["file"] = IF pc \in {"scan", "choose"} \/ (pc = "return" /\ result # 0) THEN 1 ELSE 0
    /\ live["magic_ex"] = missed + (IF pc \in {"scan", "choose"} THEN 1 ELSE 0)

FileInv == FileType /\ Holds /\ LongestWins
------------------------------------------------------------------------------
\* Induction over an interval, for a set: the induction theorems of the library are about
\* operators.
LEMMA UpTo ==
    ASSUME NEW n \in Nat, NEW S, 1 \in S, \A k \in 1 .. n - 1 : k \in S => k + 1 \in S
    PROVE  1 .. n \subseteq S
<1> DEFINE T == {k \in Nat : k \in 1 .. n /\ k \notin S}
<1>1. SUFFICES ASSUME T # {} PROVE FALSE
  OBVIOUS
<1>2. T \subseteq Nat
  OBVIOUS
<1>3. PICK k \in T : \A j \in T : ~ (<<j, k>> \in OpToRel(<, Nat))
  BY <1>1, <1>2, NatLessThanWellFounded, WFMin, Zenon
<1>4. k \in Nat /\ k \in 1 .. n /\ k \notin S /\ k # 1
  OBVIOUS
<1>5. k - 1 \in Nat /\ k - 1 \in 1 .. n - 1 /\ k - 1 < k /\ (k - 1) + 1 = k
  BY <1>4
<1>6. k - 1 \notin S
  BY <1>4, <1>5
<1>7. <<k - 1, k>> \in OpToRel(<, Nat)
  BY <1>4, <1>5 DEF OpToRel
<1>8. k - 1 \in T
  BY <1>4, <1>5, <1>6
<1>9. QED
  BY <1>3, <1>7, <1>8, Zenon

\* Match m is the first of the longest among the first k.
FirstLongest(m, k) ==
    /\ m \in 1 .. k
    /\ \A j \in 1 .. k : Size[matched[j]] <= Size[matched[m]]
    /\ \A j \in 1 .. m - 1 : Size[matched[j]] < Size[matched[m]]

LEMMA Sizes ==
    ASSUME matched \in Seq(Magic)
    PROVE  /\ Len(matched) \in Nat
           /\ \A j \in 1 .. Len(matched) : matched[j] \in Magic /\ matched[j] # 0 /\ Size[matched[j]] \in Nat
<1>1. Len(matched) \in Nat /\ \A j \in 1 .. Len(matched) : matched[j] \in Magic
  OBVIOUS
<1>2. \A g \in Magic : g # 0 /\ Size[g] \in Nat
  BY OpFileConstants DEF Magic
<1>3. QED
  BY <1>1, <1>2, Zenon

\* One more match: it is the first of the longest if it is better, else the one there was.
LEMMA OneMore ==
    ASSUME matched \in Seq(Magic), NEW k \in 1 .. Len(matched) - 1, NEW m, FirstLongest(m, k)
    PROVE  IF Better(k + 1, matched[m]) THEN FirstLongest(k + 1, k + 1) ELSE FirstLongest(m, k + 1)
<1>1. /\ k \in Nat /\ m \in Nat /\ k + 1 \in 1 .. Len(matched) /\ m \in 1 .. k /\ m \in 1 .. Len(matched)
      /\ \A j \in 1 .. k + 1 : j \in Int /\ j \in 1 .. Len(matched) /\ (j \in 1 .. k \/ j = k + 1)
      /\ m \in 1 .. k + 1 /\ (k + 1) - 1 = k /\ k + 1 \in 1 .. k + 1
  BY Sizes DEF FirstLongest
<1> DEFINE s(j) == Size[matched[j]]
<1>2. \A j \in 1 .. k + 1 : s(j) \in Nat /\ matched[j] # 0
  BY <1>1, Sizes
<1>3. (\A j \in 1 .. k : s(j) <= s(m)) /\ (\A j \in 1 .. m - 1 : s(j) < s(m))
  BY DEF FirstLongest
<1>4. Better(k + 1, matched[m]) <=> s(k + 1) > s(m)
  BY <1>1, <1>2, Zenon DEF Better
<1>5. CASE Better(k + 1, matched[m])
  <2>1. \A j \in 1 .. k : s(j) < s(k + 1)
    BY <1>1, <1>2, <1>3, <1>4, <1>5
  <2>2. \A j \in 1 .. k + 1 : s(j) <= s(k + 1)
    BY <1>1, <1>2, <2>1
  <2>3. QED
    BY <1>1, <1>5, <2>1, <2>2, Zenon DEF FirstLongest
<1>6. CASE ~ Better(k + 1, matched[m])
  <2>1. \A j \in 1 .. k + 1 : s(j) <= s(m)
    BY <1>1, <1>2, <1>3, <1>4, <1>6
  <2>2. QED
    BY <1>1, <1>3, <1>6, <2>1, Zenon DEF FirstLongest
<1>7. QED
  BY <1>5, <1>6

\* The loop over the matches ends at the first of the longest.
LEMMA LongestIsFirst ==
    ASSUME matched \in Seq(Magic), matched # <<>>
    PROVE  \E m \in 1 .. Len(matched) : Longest = matched[m] /\ FirstLongest(m, Len(matched))
<1> DEFINE n == Len(matched)
           Turn(f, m) == IF m = 1 THEN matched[1]
                         ELSE IF Better(m, f[m - 1]) THEN matched[m] ELSE f[m - 1]
           IsBest(f) == f = [m \in 1 .. n |-> Turn(f, m)]
<1>1. n \in Nat /\ n > 0 /\ 1 \in 1 .. n
  BY Sizes
<1>2. FirstLongest(1, 1)
  BY <1>1, Sizes DEF FirstLongest
<1>3. \A k \in 1 .. n : \E m \in 1 .. k : FirstLongest(m, k)
  <2> DEFINE S == {k \in 1 .. n : \E m \in 1 .. k : FirstLongest(m, k)}
  <2>1. 1 \in S
    BY <1>1, <1>2
  <2>2. ASSUME NEW k \in 1 .. n - 1, k \in S PROVE k + 1 \in S
    <3>1. PICK m \in 1 .. k : FirstLongest(m, k)
      BY <2>2
    <3>2. k + 1 \in 1 .. n /\ m \in 1 .. k + 1 /\ k + 1 \in 1 .. k + 1
      BY <1>1
    <3>3. QED
      BY <3>1, <3>2, OneMore
  <2>3. QED
    BY <1>1, <2>1, <2>2, UpTo, Zenon
<1>4. ASSUME NEW k \in 1 .. n, NEW m, NEW o, FirstLongest(m, k), FirstLongest(o, k) PROVE m = o
  <2>1. m \in 1 .. n /\ o \in 1 .. n /\ m \in 1 .. k /\ o \in 1 .. k
    BY <1>1, <1>4 DEF FirstLongest
  <2>2. Size[matched[m]] \in Nat /\ Size[matched[o]] \in Nat
    BY <2>1, Sizes
  <2>3. ~ (m < o) /\ ~ (o < m)
    BY <1>4, <2>1, <2>2 DEF FirstLongest
  <2>4. QED
    BY <2>1, <2>3
<1> DEFINE first(k) == CHOOSE m \in 1 .. k : FirstLongest(m, k)
           loop == [k \in 1 .. n |-> matched[first(k)]]
<1>5. \A k \in 1 .. n : first(k) \in 1 .. k /\ FirstLongest(first(k), k)
  BY <1>3
<1> HIDE DEF first
<1>6. ASSUME NEW k \in 1 .. n - 1
      PROVE  matched[first(k + 1)] = IF Better(k + 1, matched[first(k)]) THEN matched[k + 1]
                                     ELSE matched[first(k)]
  <2>1. k \in 1 .. n /\ k + 1 \in 1 .. n
    BY <1>1
  <2>2. FirstLongest(first(k), k) /\ FirstLongest(first(k + 1), k + 1)
    BY <1>5, <2>1
  <2>3. IF Better(k + 1, matched[first(k)]) THEN FirstLongest(k + 1, k + 1) ELSE FirstLongest(first(k), k + 1)
    BY <2>2, OneMore, Zenon
  <2>4. IF Better(k + 1, matched[first(k)]) THEN first(k + 1) = k + 1 ELSE first(k + 1) = first(k)
    BY <1>4, <2>1, <2>2, <2>3, Zenon
  <2>5. QED
    BY <2>4
<1>7. IsBest(loop)
  <2>1. first(1) = 1
    BY <1>1, <1>5
  <2>2. ASSUME NEW k \in 1 .. n PROVE matched[first(k)] = Turn(loop, k)
    <3>1. CASE k = 1
      BY <2>1, <3>1, Zenon
    <3>2. CASE k # 1
      <4>1. k - 1 \in 1 .. n - 1 /\ k - 1 \in 1 .. n /\ (k - 1) + 1 = k
        BY <1>1, <3>2
      <4>2. loop[k - 1] = matched[first(k - 1)]
        BY <4>1
      <4>3. matched[first(k)] = IF Better(k, matched[first(k - 1)]) THEN matched[k]
                                ELSE matched[first(k - 1)]
        BY <1>6, <4>1, ZenonT(60)
      <4>4. QED
        BY <3>2, <4>2, <4>3
    <3>3. QED
      BY <3>1, <3>2
  <2>3. QED
    BY <2>2
<1> DEFINE best == CHOOSE f : IsBest(f)
<1>8. IsBest(best)
  BY <1>7, Zenon
<1>9. Longest = best[n]
  BY DEF Longest
<1> HIDE DEF best
<1>10. \A k \in 1 .. n : best[k] = Turn(best, k)
  BY <1>8
<1>11. 1 .. n \subseteq {k \in 1 .. n : \E m \in 1 .. k : best[k] = matched[m] /\ FirstLongest(m, k)}
  <2> DEFINE S == {k \in 1 .. n : \E m \in 1 .. k : best[k] = matched[m] /\ FirstLongest(m, k)}
  <2>1. 1 \in S
    BY <1>1, <1>2, <1>10
  <2>2. ASSUME NEW k \in 1 .. n - 1, k \in S PROVE k + 1 \in S
    <3>1. PICK m \in 1 .. k : best[k] = matched[m] /\ FirstLongest(m, k)
      BY <2>2
    <3>2. k + 1 \in 1 .. n /\ m \in 1 .. k + 1 /\ k + 1 \in 1 .. k + 1 /\ k + 1 # 1 /\ (k + 1) - 1 = k
      BY <1>1
    <3>3. best[k + 1] = IF Better(k + 1, best[k]) THEN matched[k + 1] ELSE best[k]
      BY <1>10, <3>2, ZenonT(60)
    <3>4. IF Better(k + 1, matched[m]) THEN FirstLongest(k + 1, k + 1) ELSE FirstLongest(m, k + 1)
      BY <3>1, OneMore
    <3>5. QED
      BY <3>1, <3>2, <3>3, <3>4
  <2>3. QED
    BY <1>1, <2>1, <2>2, UpTo, Zenon
<1>12. n \in 1 .. n
  BY <1>1
<1>13. QED
  BY <1>9, <1>11, <1>12
------------------------------------------------------------------------------
LEMMA FileInitInv == FileInit => FileInv
<1> SUFFICES ASSUME FileInit PROVE FileInv
  OBVIOUS
<1>1. FileType
  BY DEF FileInit, FileType
<1>2. Holds /\ LongestWins
  BY DEF FileInit, Holds, LongestWins, Kind
<1>3. QED
  BY <1>1, <1>2 DEF FileInv

LEMMA FileNextInv == FileInv /\ [FileNext]_file_vars => FileInv'
<1> SUFFICES ASSUME FileInv, [FileNext]_file_vars PROVE FileInv'
  OBVIOUS
<1> USE DEF FileInv
<1>0. Len(Size) \in Nat /\ Magic = 1 .. Len(Size)
  BY OpFileConstants DEF Magic
<1>1. CASE UNCHANGED file_vars
  BY <1>1 DEF file_vars, FileType, Holds, LongestWins
<1>2. CASE Parse
  <2>1. FileType'
    <3>1. next \in Magic /\ next + 1 \in Nat /\ next + 1 > 0
      BY <1>0, <1>2 DEF Parse, FileType
    <3>2. live' \in [Kind -> Int]
      BY <1>2 DEF Parse, With, FileType, Kind
    <3>3. QED
      BY <1>2, <3>1, <3>2, Zenon DEF Parse, FileType
  <2>2. Holds' /\ LongestWins'
    BY <1>2, Zenon DEF Parse, With, FileType, Kind, Holds, LongestWins
  <2>3. QED
    BY <2>1, <2>2, Zenon
<1>3. CASE Compile
  <2>1. FileType'
    BY <1>3 DEF Compile, With, FileType, Kind
  <2>2. Holds' /\ LongestWins'
    BY <1>3, Zenon DEF Compile, With, FileType, Kind, Holds, LongestWins
  <2>3. QED
    BY <2>1, <2>2
<1>4. CASE Call
  <2>1. FileType'
    BY <1>4 DEF Call, With, FileType, Kind, load_vars
  <2>2. Holds' /\ LongestWins'
    BY <1>4, Zenon DEF Call, With, FileType, Kind, Holds, LongestWins
  <2>3. QED
    BY <2>1, <2>2
<1>5. CASE Begin
  <2>1. FileType'
    BY <1>5 DEF Begin, FileType, Kind, load_vars
  <2>2. Holds' /\ LongestWins'
    BY <1>5 DEF Begin, FileType, Kind, Holds, LongestWins
  <2>3. QED
    BY <2>1, <2>2
<1>6. CASE EndScan
  <2>1. FileType'
    BY <1>6 DEF EndScan, Failed, With, FileType, Kind, load_vars
  <2>2. Holds' /\ LongestWins'
    BY <1>6 DEF EndScan, Failed, With, FileType, Kind, Holds, LongestWins
  <2>3. QED
    BY <2>1, <2>2
<1>7. ASSUME NEW id \in Magic, Match(id) PROVE FileInv'
  <2>1. Found(id) \in Magic
    BY <1>7, Zenon DEF Match, Found, FileType
  <2>2. FileType'
    BY <1>7, <2>1 DEF Match, Collect, FileType, load_vars
  <2>3. Holds' /\ LongestWins'
    BY <1>7 DEF Match, Collect, FileType, Holds, LongestWins
  <2>4. QED
    BY <2>2, <2>3, Zenon
<1>8. CASE Choose
  <2>1. CASE matched = <<>> \/ matched[1] = 0
    <3>1. FileType'
      BY <1>8, <2>1 DEF Choose, Failed, With, FileType, Kind, load_vars
    <3>2. Holds' /\ LongestWins'
      BY <1>8, <2>1 DEF Choose, Failed, With, FileType, Kind, Holds, LongestWins
    <3>3. QED
      BY <3>1, <3>2
  <2>2. CASE ~ (matched = <<>> \/ matched[1] = 0)
    <3>0. result' = Longest /\ matched' = matched /\ missed' = missed /\ pc = "choose" /\ pc' = "return"
          /\ live' = [live EXCEPT !["magic_ex"] = @ - 1]
      BY <1>8, <2>2, Zenon DEF Choose, With
    <3>1. PICK m \in 1 .. Len(matched) : Longest = matched[m] /\ FirstLongest(m, Len(matched))
      BY <2>2, LongestIsFirst DEF FileType
    <3>2. Longest \in Magic /\ Longest # 0
      BY <3>1, Sizes DEF FileType
    <3>3. FileType'
      BY <1>8, <3>0, <3>2 DEF Choose, FileType, Kind, load_vars
    <3>4. Holds'
      BY <3>0, <3>2 DEF FileType, Kind, Holds
    <3>5. LongestWins'
      BY <3>0, <3>1 DEF FileType, LongestWins, FirstLongest
    <3>6. QED
      BY <3>3, <3>4, <3>5, Zenon
  <2>3. QED
    BY <2>1, <2>2, Zenon
<1>9. CASE Return
  <2>1. FileType'
    BY <1>9 DEF Return, FileType, Kind, load_vars
  <2>2. Holds' /\ LongestWins'
    BY <1>9 DEF Return, FileType, Kind, Holds, LongestWins
  <2>3. QED
    BY <2>1, <2>2
<1>10. QED
  BY <1>1, <1>2, <1>3, <1>4, <1>5, <1>6, <1>7, <1>8, <1>9, Zenon DEF FileNext

LEMMA FileInductive == FileSpec => []FileInv
BY FileInitInv, FileNextInv, PTL DEF FileSpec

\* The type named is the one of the first of the longest expressions that matched, however
\* many matched and in whatever order (opfile_check_mem).
THEOREM FirstOfLongestWins == FileSpec => []LongestWins
<1>1. FileInv => LongestWins
  BY Zenon DEF FileInv
<1>2. QED
  BY <1>1, FileInductive, PTL

\* Between checks nothing of a check is held but the magic_ex of each one that ended without
\* a type: opfile_check_mem frees the rest on every path.
THEOREM HeldIsExact == FileSpec => []HeldExact
<1>1. FileInv => HeldExact
  BY DEF FileInv, FileType, Holds, HeldExact
<1>2. QED
  BY <1>1, FileInductive, PTL
===============================================================================
