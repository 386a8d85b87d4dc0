---------------------------- MODULE NodeTreeProofs ----------------------------
(***************************************************************************)
(* Proofs about moves of nodes, for every number of nodes and sessions:    *)
(* types, and that moves which do not overlap rewrite what they move and   *)
(* go through the steps of the abstract hierarchy, which keep it a forest. *)
(***************************************************************************)
EXTENDS NodeTree, FiniteSetTheorems, WellFoundedInduction, TLAPS

-----------------------------------------------------------------------------
(* Induction over the rounds of a recursive query, as sets of numbers.     *)

LEMMA LeastNumber ==
    ASSUME NEW T \in SUBSET Nat, T # {}
    PROVE  \E n \in T : \A m \in T : n <= m
<1>1. PICK n \in T : \A m \in T : <<m, n>> \notin OpToRel(<, Nat)
    BY WFMin, NatLessThanWellFounded
<1>2. \A m \in T : ~(m < n)
    BY <1>1 DEF OpToRel
<1> QED
    BY <1>2

LEMMA AllNumbers ==
    ASSUME NEW T \in SUBSET Nat, 0 \in T, \A n \in T : n + 1 \in T
    PROVE  \A n \in Nat : n \in T
<1> SUFFICES ASSUME Nat \ T # {} PROVE FALSE
    OBVIOUS
<1>1. PICK n \in Nat \ T : \A m \in Nat \ T : n <= m
    BY LeastNumber
<1>2. n - 1 \in Nat /\ n - 1 \in T
    BY <1>1
<1> QED
    BY <1>1, <1>2

FirstLevel(s) == {<<target[s], parents[target[s]]>>}

NextLevel(s, W) ==
    UNION {{<<c, Append(w[2], w[1])>> : c \in Children(s, w[1])} : w \in W}

\* The first n + 1 rounds of the query.
Rounds(s, n, g) ==
    /\ DOMAIN g = 0..n /\ g[0] = FirstLevel(s)
    /\ \A i \in 0..(n - 1) : g[i + 1] = NextLevel(s, g[i])

LEMMA RoundsAgree ==
    ASSUME NEW s, NEW n \in Nat, NEW m \in Nat, NEW g, NEW h, Rounds(s, n, g), Rounds(s, m, h)
    PROVE  \A i \in Nat : i <= n /\ i <= m => g[i] = h[i]
<1> DEFINE T == {i \in Nat : i <= n /\ i <= m => g[i] = h[i]}
<1>1. 0 \in T
    BY DEF Rounds
<1>2. ASSUME NEW i \in T PROVE i + 1 \in T
    <2>1. CASE i + 1 <= n /\ i + 1 <= m
        <3>1. g[i] = h[i] /\ i \in 0..(n - 1) /\ i \in 0..(m - 1)
            BY <2>1
        <3> QED
            BY <3>1 DEF Rounds
    <2> QED
        BY <2>1
<1> HIDE DEF T
<1>3. \A i \in Nat : i \in T
    BY <1>1, <1>2, AllNumbers DEF T
<1> QED
    BY <1>3 DEF T

LEMMA RoundsExist ==
    ASSUME NEW s, NEW n \in Nat
    PROVE  \E g : Rounds(s, n, g)
<1> DEFINE T == {i \in Nat : \E g : Rounds(s, i, g)}
<1>1. 0 \in T
    <2>1. Rounds(s, 0, [i \in 0..0 |-> FirstLevel(s)])
        BY DEF Rounds
    <2> QED
        BY <2>1
<1>2. ASSUME NEW i \in T PROVE i + 1 \in T
    <2>1. PICK g : Rounds(s, i, g)
        OBVIOUS
    <2> DEFINE h == [j \in 0..(i + 1) |-> IF j = i + 1 THEN NextLevel(s, g[i]) ELSE g[j]]
    <2>2. DOMAIN h = 0..(i + 1) /\ h[0] = FirstLevel(s)
        BY <2>1 DEF Rounds
    <2>3. ASSUME NEW j \in 0..((i + 1) - 1) PROVE h[j + 1] = NextLevel(s, h[j])
        <3>1. CASE j = i
            BY <3>1
        <3>2. CASE j # i
            <4>1. j \in 0..(i - 1)
                BY <3>2
            <4>2. h[j + 1] = g[j + 1] /\ h[j] = g[j]
                BY <4>1
            <4> QED
                BY <2>1, <4>1, <4>2 DEF Rounds
        <3> QED
            BY <3>1, <3>2
    <2> HIDE DEF h
    <2>4. Rounds(s, i + 1, h)
        BY <2>2, <2>3 DEF Rounds
    <2> QED
        BY <2>4
<1> HIDE DEF T
<1>3. \A i \in Nat : i \in T
    BY <1>1, <1>2, AllNumbers DEF T
<1> QED
    BY <1>3 DEF T

\* Branch is what its recursive definition says.
LEMMA BranchRounds ==
    ASSUME NEW s
    PROVE  /\ DOMAIN Branch(s) = Nat /\ Branch(s)[0] = FirstLevel(s)
           /\ \A n \in Nat : Branch(s)[n + 1] = NextLevel(s, Branch(s)[n])
<1> DEFINE G(n) == CHOOSE g : Rounds(s, n, g)
           L == [n \in Nat |-> G(n)[n]]
<1>1. \A n \in Nat : Rounds(s, n, G(n))
    BY RoundsExist
<1>2. L[0] = FirstLevel(s)
    BY <1>1 DEF Rounds
<1>3. ASSUME NEW n \in Nat PROVE L[n + 1] = NextLevel(s, L[n])
    <2>1. Rounds(s, n, G(n)) /\ Rounds(s, n + 1, G(n + 1))
        BY <1>1
    <2>2. G(n + 1)[n] = G(n)[n]
        BY <2>1, RoundsAgree
    <2>3. G(n + 1)[n + 1] = NextLevel(s, G(n + 1)[n])
        BY <2>1 DEF Rounds
    <2> QED
        BY <2>2, <2>3
<1> HIDE DEF L
<1>4. L = [n \in Nat |-> IF n = 0 THEN FirstLevel(s) ELSE NextLevel(s, L[n - 1])]
    <2>1. L = [n \in Nat |-> L[n]]
        BY DEF L
    <2>2. ASSUME NEW n \in Nat
          PROVE  L[n] = IF n = 0 THEN FirstLevel(s) ELSE NextLevel(s, L[n - 1])
        <3>1. CASE n = 0
            BY <1>2, <3>1
        <3>2. CASE n # 0
            <4>1. n - 1 \in Nat /\ (n - 1) + 1 = n
                BY <3>2
            <4> QED
                BY <1>3, <3>2, <4>1
        <3> QED
            BY <3>1, <3>2
    <2> QED
        BY <2>1, <2>2
<1>5. Branch(s) = [n \in Nat |->
          IF n = 0 THEN FirstLevel(s) ELSE NextLevel(s, Branch(s)[n - 1])]
    BY <1>4 DEF Branch, FirstLevel, NextLevel
<1> HIDE DEF G
<1> QED
    BY <1>5

-----------------------------------------------------------------------------
(* What the query finds when it ends.                                      *)

\* The parents there will be, and the rows that round n comes to.
Moved(s) == [parent EXCEPT ![uuid[s]] = target[s]]
InRound(s, n) == {w[1] : w \in Branch(s)[n]}
Below(s) == UNION {InRound(s, n) : n \in Nat}

\* The row of w is a child of that of v.
Extends(s, w, v) ==
    w[2] = Append(v[2], v[1]) /\ w[1] \in Rows /\ Moved(s)[w[1]] = v[1]

LEMMA RoundStep ==
    ASSUME NEW s, NEW n \in Nat, NEW w \in Branch(s)[n + 1]
    PROVE  \E v \in Branch(s)[n] : Extends(s, w, v)
<1>1. w \in NextLevel(s, Branch(s)[n])
    BY BranchRounds
<1>2. PICK v \in Branch(s)[n] : \E c \in Children(s, v[1]) : w = <<c, Append(v[2], v[1])>>
    BY <1>1 DEF NextLevel
<1>3. PICK c \in Children(s, v[1]) : w = <<c, Append(v[2], v[1])>>
    BY <1>2
<1>4. w[1] = c /\ w[2] = Append(v[2], v[1])
    BY <1>3
<1>5. c \in Rows /\ Moved(s)[c] = v[1]
    BY <1>3 DEF Children, Moved
<1> QED
    BY <1>4, <1>5 DEF Extends

LEMMA RoundRows ==
    ASSUME NEW s, NEW n \in Nat
    PROVE  /\ InRound(s, 0) = {target[s]}
           /\ InRound(s, n + 1) = {c \in Rows : Moved(s)[c] \in InRound(s, n)}
           /\ InRound(s, n) = {} <=> Branch(s)[n] = {}
<1>1. InRound(s, 0) = {target[s]}
    <2> DEFINE b == <<target[s], parents[target[s]]>>
    <2>1. Branch(s)[0] = {b} /\ b[1] = target[s]
        BY BranchRounds DEF FirstLevel
    <2> HIDE DEF b
    <2> QED
        BY <2>1 DEF InRound
<1>2. InRound(s, n + 1) \subseteq {c \in Rows : Moved(s)[c] \in InRound(s, n)}
    <2> SUFFICES ASSUME NEW w \in Branch(s)[n + 1]
                 PROVE  w[1] \in Rows /\ Moved(s)[w[1]] \in InRound(s, n)
        BY DEF InRound
    <2>1. PICK v \in Branch(s)[n] : Extends(s, w, v)
        BY RoundStep
    <2> QED
        BY <2>1 DEF Extends, InRound
<1>3. ASSUME NEW c \in Rows, Moved(s)[c] \in InRound(s, n) PROVE c \in InRound(s, n + 1)
    <2>1. PICK v \in Branch(s)[n] : v[1] = Moved(s)[c]
        BY <1>3 DEF InRound
    <2>2. c \in Children(s, v[1])
        BY <2>1 DEF Children, Moved
    <2>3. <<c, Append(v[2], v[1])>> \in NextLevel(s, Branch(s)[n])
        BY <2>2 DEF NextLevel
    <2>4. <<c, Append(v[2], v[1])>> \in Branch(s)[n + 1]
        BY <2>3, BranchRounds
    <2> QED
        BY <2>4 DEF InRound
<1>4. InRound(s, n) = {} <=> Branch(s)[n] = {}
    BY DEF InRound
<1> QED
    BY <1>1, <1>2, <1>3, <1>4

\* A query that ends does not come back to where it started.
LEMMA NoWayBack ==
    ASSUME NEW s, NEW d \in Nat, Branch(s)[d] = {}, NEW m \in Nat
    PROVE  target[s] \notin InRound(s, m + 1)
<1> SUFFICES ASSUME target[s] \in InRound(s, m + 1) PROVE FALSE
    OBVIOUS
<1> DEFINE k == m + 1
           T == {n \in Nat : InRound(s, n) \subseteq InRound(s, n + k)}
           X == {n \in Nat : InRound(s, n) = {}}
<1>1. \A n \in Nat : n \in T
    <2>1. 0 \in T
        BY RoundRows
    <2>2. ASSUME NEW n \in T PROVE n + 1 \in T
        <3>1. n + k \in Nat /\ (n + 1) + k = (n + k) + 1
            OBVIOUS
        <3>2. InRound(s, n + 1) = {c \in Rows : Moved(s)[c] \in InRound(s, n)}
            BY RoundRows
        <3>3. InRound(s, (n + k) + 1) = {c \in Rows : Moved(s)[c] \in InRound(s, n + k)}
            BY <3>1, RoundRows
        <3> QED
            BY <3>1, <3>2, <3>3
    <2> HIDE DEF T, k
    <2> QED
        BY <2>1, <2>2, AllNumbers DEF T
<1>2. PICK x \in X : \A y \in X : x <= y
    <2>1. d \in X
        BY RoundRows
    <2> HIDE DEF X
    <2>2. X \in SUBSET Nat
        BY DEF X
    <2> QED
        BY <2>1, <2>2, LeastNumber
<1>3. x \in Nat /\ InRound(s, x) = {} /\ x # 0
    BY RoundRows
<1>4. \A n \in Nat : InRound(s, x + n) = {}
    <2> DEFINE E == {n \in Nat : InRound(s, x + n) = {}}
    <2>1. 0 \in E
        BY <1>3
    <2>2. ASSUME NEW n \in E PROVE n + 1 \in E
        <3>1. x + n \in Nat /\ x + (n + 1) = (x + n) + 1
            BY <1>3
        <3>2. InRound(s, (x + n) + 1) = {c \in Rows : Moved(s)[c] \in InRound(s, x + n)}
            BY <3>1, RoundRows
        <3> QED
            BY <3>1, <3>2
    <2> HIDE DEF E
    <2> QED
        BY <2>1, <2>2, AllNumbers DEF E
<1>5. x - 1 \in Nat /\ InRound(s, x - 1) # {}
    BY <1>2, <1>3
<1>6. InRound(s, x - 1) \subseteq InRound(s, (x - 1) + k)
    BY <1>1, <1>5
<1>7. (x - 1) + k = x + m
    BY <1>3
<1> QED
    BY <1>4, <1>5, <1>6, <1>7

\* No row is found on two ways.
LEMMA OnePath ==
    ASSUME NEW s, NEW d \in Nat, Branch(s)[d] = {}, NEW n \in Nat, NEW m \in Nat,
           NEW w \in Branch(s)[n], NEW v \in Branch(s)[m], w[1] = v[1]
    PROVE  w[2] = v[2]
<1> DEFINE T == {i \in Nat : \A j \in Nat : \A a \in Branch(s)[i] : \A b \in Branch(s)[j] :
                     a[1] = b[1] => a[2] = b[2]}
<1>1. ASSUME NEW j \in Nat, NEW b \in Branch(s)[j], b[1] = target[s], j # 0 PROVE FALSE
    <2>1. j - 1 \in Nat /\ (j - 1) + 1 = j
        BY <1>1
    <2>2. target[s] \in InRound(s, j)
        BY <1>1 DEF InRound
    <2> QED
        BY <2>1, <2>2, NoWayBack
<1>2. ASSUME NEW b \in Branch(s)[0] PROVE b[1] = target[s] /\ b[2] = parents[target[s]]
    BY BranchRounds DEF FirstLevel
<1>3. 0 \in T
    BY <1>1, <1>2
<1>4. ASSUME NEW i \in T PROVE i + 1 \in T
    <2> SUFFICES ASSUME NEW j \in Nat, NEW a \in Branch(s)[i + 1], NEW b \in Branch(s)[j],
                        a[1] = b[1]
                 PROVE  a[2] = b[2]
        OBVIOUS
    <2>1. j # 0
        BY <1>1, <1>2
    <2>2. j - 1 \in Nat /\ (j - 1) + 1 = j
        BY <2>1
    <2>3. PICK x \in Branch(s)[i] : Extends(s, a, x)
        BY RoundStep
    <2>4. PICK y \in Branch(s)[j - 1] : Extends(s, b, y)
        BY <2>2, RoundStep
    <2>5. x[2] = y[2]
        BY <2>2, <2>3, <2>4 DEF Extends
    <2> QED
        BY <2>3, <2>4, <2>5 DEF Extends
<1> HIDE DEF T
<1>5. \A i \in Nat : i \in T
    BY <1>3, <1>4, AllNumbers DEF T
<1> QED
    BY <1>5 DEF T

\* The result of a query that ends after round d - 1.
Found(s, d) == UNION {Branch(s)[n] : n \in 0 .. d - 1}

Result(s, d) ==
    [x \in {w[1] : w \in Found(s, d)} |-> (CHOOSE w \in Found(s, d) : w[1] = x)[2]]

LEMMA ResultRows ==
    ASSUME NEW s, NEW d \in Nat, Branch(s)[d] = {}
    PROVE  /\ DOMAIN Result(s, d) = Below(s)
           /\ \A n \in Nat : \A w \in Branch(s)[n] :
                  w[1] \in Below(s) /\ Result(s, d)[w[1]] = w[2]
<1>1. \A n \in Nat : Branch(s)[d + n] = {}
    <2> DEFINE T == {n \in Nat : Branch(s)[d + n] = {}}
    <2>1. 0 \in T
        OBVIOUS
    <2>2. ASSUME NEW n \in T PROVE n + 1 \in T
        <3>1. d + n \in Nat /\ d + (n + 1) = (d + n) + 1
            OBVIOUS
        <3>2. NextLevel(s, {}) = {}
            BY DEF NextLevel
        <3>3. Branch(s)[(d + n) + 1] = NextLevel(s, Branch(s)[d + n])
            BY <3>1, BranchRounds
        <3> QED
            BY <3>1, <3>2, <3>3
    <2> HIDE DEF T
    <2> QED
        BY <2>1, <2>2, AllNumbers DEF T
<1>2. ASSUME NEW n \in Nat, NEW w \in Branch(s)[n] PROVE w \in Found(s, d)
    <2>1. ~(n >= d)
        <3>1. n >= d => n - d \in Nat /\ d + (n - d) = n
            OBVIOUS
        <3> QED
            BY <1>1, <3>1
    <2> QED
        BY <2>1 DEF Found
<1>3. ASSUME NEW w \in Found(s, d) PROVE \E n \in Nat : w \in Branch(s)[n]
    BY DEF Found
<1>4. DOMAIN Result(s, d) = {w[1] : w \in Found(s, d)}
    BY DEF Result
<1>5. DOMAIN Result(s, d) = Below(s)
    BY <1>2, <1>3, <1>4 DEF Below, InRound
<1>6. ASSUME NEW n \in Nat, NEW w \in Branch(s)[n]
      PROVE  w[1] \in Below(s) /\ Result(s, d)[w[1]] = w[2]
    <2> DEFINE v == CHOOSE v \in Found(s, d) : v[1] = w[1]
    <2>1. w \in Found(s, d)
        BY <1>2
    <2>2. v \in Found(s, d) /\ v[1] = w[1]
        BY <2>1
    <2>3. w[1] \in Below(s) /\ Result(s, d)[w[1]] = v[2]
        BY <1>4, <1>5, <2>1 DEF Result
    <2> HIDE DEF v
    <2>4. v[2] = w[2]
        BY <1>3, <2>2, OnePath
    <2> QED
        BY <2>3, <2>4
<1> QED
    BY <1>5, <1>6

-----------------------------------------------------------------------------
(* What the result is worth when nobody else moves nodes.                  *)

ParentsInRows ==
    /\ NoParent \notin Rows
    /\ \A x \in Rows : parent[x] \in Rows \cup {NoParent}

\* Each array goes down to the parent, as ParentsArePath says of the columns.
IsPath(f, a) ==
    \A x \in DOMAIN f : a[x] = IF f[x] = NoParent THEN <<>> ELSE Append(a[f[x]], f[x])

LEMMA BelowRows ==
    ASSUME NEW s, NEW d \in Nat, Branch(s)[d] = {},
           uuid[s] \in Rows, target[s] \in Rows
    PROVE  /\ Below(s) \subseteq Rows /\ target[s] \in Below(s)
           /\ uuid[s] \in Below(s) /\ uuid[s] # target[s]
           /\ \A x \in Rows \ {target[s]} : x \in Below(s) <=> Moved(s)[x] \in Below(s)
           /\ Moved(s)[target[s]] \notin Below(s)
<1>1. ASSUME NEW n \in Nat, NEW x \in InRound(s, n) PROVE x \in Rows
    <2>1. CASE n = 0
        BY <2>1, RoundRows
    <2>2. CASE n # 0
        <3>1. n - 1 \in Nat /\ (n - 1) + 1 = n
            BY <2>2
        <3> QED
            BY <3>1, RoundRows
    <2> QED
        BY <2>1, <2>2
<1>2. target[s] \in Below(s)
    BY RoundRows DEF Below
<1>3. ASSUME NEW x \in Rows, Moved(s)[x] \in Below(s)
      PROVE  x \in Below(s) /\ x # target[s]
    <2>1. PICK n \in Nat : Moved(s)[x] \in InRound(s, n)
        BY <1>3 DEF Below
    <2>2. x \in InRound(s, n + 1) /\ n + 1 \in Nat
        BY <2>1, RoundRows
    <2>3. x # target[s]
        BY <2>2, NoWayBack
    <2> QED
        BY <2>2, <2>3 DEF Below
<1>4. Moved(s)[uuid[s]] = target[s]
    BY DEF Moved, Rows
<1>5. ASSUME NEW x \in Below(s), x # target[s] PROVE Moved(s)[x] \in Below(s)
    <2>1. PICK n \in Nat : x \in InRound(s, n)
        BY DEF Below
    <2>2. n # 0
        BY <1>5, <2>1, RoundRows
    <2>3. n - 1 \in Nat /\ (n - 1) + 1 = n
        BY <2>2
    <2>4. Moved(s)[x] \in InRound(s, n - 1)
        BY <2>1, <2>3, RoundRows
    <2> QED
        BY <2>3, <2>4 DEF Below
<1> QED
    BY <1>1, <1>2, <1>3, <1>4, <1>5 DEF Below

\* The array of a row below the target continues that of its parent.
LEMMA ResultContinues ==
    ASSUME NEW s, NEW d \in Nat, Branch(s)[d] = {}, NEW x \in Below(s), x # target[s]
    PROVE  LET q == Moved(s)[x] IN
           q \in Below(s) /\ Result(s, d)[x] = Append(Result(s, d)[q], q)
<1>1. PICK n \in Nat : x \in InRound(s, n)
    BY DEF Below
<1>2. PICK w \in Branch(s)[n] : w[1] = x
    BY <1>1 DEF InRound
<1>3. n # 0
    BY <1>1, RoundRows
<1>4. n - 1 \in Nat /\ (n - 1) + 1 = n
    BY <1>3
<1>5. PICK v \in Branch(s)[n - 1] : Extends(s, w, v)
    BY <1>4, RoundStep
<1>6. Result(s, d)[x] = w[2]
    BY <1>2, ResultRows
<1>7. v[1] \in Below(s) /\ Result(s, d)[v[1]] = v[2]
    BY <1>4, ResultRows
<1>8. w[2] = Append(v[2], v[1]) /\ Moved(s)[x] = v[1]
    BY <1>2, <1>5 DEF Extends
<1> QED
    BY <1>6, <1>7, <1>8

\* Once the arrays below the target are rewritten, they fit the moved node.
LEMMA ResultFits ==
    ASSUME NEW s, NEW d \in Nat, Branch(s)[d] = {},
           ParentsInRows, uuid[s] \in Rows, target[s] \in Rows, IsPath(parent, parents),
           DOMAIN parents = Rows
    PROVE  IsPath(Moved(s), Overlay(parents, Result(s, d)))
<1> DEFINE p == target[s]
           R == Result(s, d)
           a == Overlay(parents, R)
           f == Moved(s)
<1>1. DOMAIN R = Below(s) /\ DOMAIN f = Rows
    BY ResultRows DEF Moved, Rows
<1>2. /\ \A x \in Below(s) : a[x] = R[x]
      /\ \A x \in Rows \ Below(s) : a[x] = parents[x]
    BY <1>1, BelowRows DEF Overlay
<1>3. \A x \in Rows : x # uuid[s] => f[x] = parent[x]
    BY DEF Moved, Rows
<1> SUFFICES ASSUME NEW x \in Rows
             PROVE  a[x] = IF f[x] = NoParent THEN <<>> ELSE Append(a[f[x]], f[x])
    BY <1>1 DEF IsPath
<1>4. CASE x = p
    <2>1. p \in Below(s) /\ p # uuid[s] /\ f[p] \notin Below(s)
        BY BelowRows
    <2>2. f[p] = parent[p]
        BY <1>3, <2>1
    <2>3. a[p] = parents[p]
        <3>1. <<p, parents[p]>> \in Branch(s)[0]
            BY BranchRounds DEF FirstLevel
        <3>2. R[p] = parents[p]
            BY <3>1, ResultRows
        <3> QED
            BY <1>2, <2>1, <3>2
    <2>4. parent[p] # NoParent => a[parent[p]] = parents[parent[p]]
        BY <1>2, <2>1, <2>2 DEF ParentsInRows
    <2>5. parents[p] = IF parent[p] = NoParent THEN <<>> ELSE Append(parents[parent[p]], parent[p])
        BY DEF IsPath, Rows
    <2> HIDE DEF a, f, p
    <2> QED
        BY <1>4, <2>2, <2>3, <2>4, <2>5
<1>5. CASE x # p /\ x \in Below(s)
    <2>1. f[x] \in Below(s) /\ R[x] = Append(R[f[x]], f[x])
        BY <1>5, ResultContinues
    <2>2. f[x] # NoParent
        BY <2>1, BelowRows DEF ParentsInRows
    <2>3. a[x] = R[x] /\ a[f[x]] = R[f[x]]
        BY <1>2, <1>5, <2>1
    <2> HIDE DEF a, f, R
    <2> QED
        BY <2>1, <2>2, <2>3
<1>6. CASE x # p /\ x \notin Below(s)
    <2>1. f[x] \notin Below(s) /\ f[x] = parent[x] /\ a[x] = parents[x]
        BY <1>2, <1>3, <1>6, BelowRows
    <2>2. parent[x] # NoParent => a[parent[x]] = parents[parent[x]]
        BY <1>2, <2>1 DEF ParentsInRows
    <2>3. parents[x] = IF parent[x] = NoParent THEN <<>> ELSE Append(parents[parent[x]], parent[x])
        BY DEF IsPath, Rows
    <2> HIDE DEF a, f
    <2> QED
        BY <2>1, <2>2, <2>3
<1> QED
    BY <1>4, <1>5, <1>6

\* A query that ends shows that the node is not above its new parent.
LEMMA ResultDecides ==
    ASSUME NEW s, NEW d \in Nat, Branch(s)[d] = {},
           ParentsInRows, uuid[s] \in Rows, target[s] \in Rows
    PROVE  ~AtOrAbove(parent, uuid[s], target[s])
<1> DEFINE S == {target[s]} \cup (Rows \ Below(s))
<1>1. S \in SUBSET DOMAIN parent /\ target[s] \in S /\ uuid[s] \notin S
    BY BelowRows DEF Rows
<1>2. \A x \in Rows : x # uuid[s] => Moved(s)[x] = parent[x]
    BY DEF Moved, Rows
<1>3. ASSUME NEW x \in S PROVE parent[x] \in S \cup {NoParent}
    <2>1. x \in Rows /\ x # uuid[s] /\ Moved(s)[x] \notin Below(s)
        BY <1>1, BelowRows DEF Rows
    <2> QED
        BY <1>2, <2>1 DEF ParentsInRows
<1> HIDE DEF S
<1> QED
    BY <1>1, <1>3 DEF AtOrAbove, Closed

-----------------------------------------------------------------------------
(* Types.                                                                  *)

RowsOK ==
    /\ IsFiniteSet(Rows) /\ Rows \subseteq Nodes
    /\ \A x \in Rows : parent[x] \in Nodes \cup {NoParent}
    /\ DOMAIN parents = Rows /\ \A x \in Rows : parents[x] \in Seq(Nodes)

\* Values of the column parents.
Arrays(f) == DOMAIN f \subseteq Rows /\ \A x \in DOMAIN f : f[x] \in Seq(Nodes)

SessionOK(s) ==
    /\ pc[s] # "idle" => uuid[s] \in Rows /\ target[s] \in Rows /\ answer[s] = "none"
    /\ pc[s] = "lock" => want[s] \in Rows
    /\ pc[s] = "rewrite" => want[s] \in DOMAIN rewrite[s]
    /\ pc[s] \in {"idle", "lock", "read", "spin"} => written[s] = NoRows
    /\ pc[s] # "rewrite" => rewrite[s] = NoRows
    /\ Arrays(rewrite[s]) /\ Arrays(written[s])
    /\ DOMAIN written[s] \subseteq locks[s]

ControlOK ==
    /\ pc \in [Sessions -> {"idle", "lock", "read", "rewrite", "commit", "spin"}]
    /\ uuid \in [Sessions -> Nodes \cup {None}]
    /\ target \in [Sessions -> Nodes \cup {None}]
    /\ want \in [Sessions -> Nodes \cup {None}]
    /\ DOMAIN rewrite = Sessions
    /\ locks \in [Sessions -> SUBSET Nodes]
    /\ DOMAIN written = Sessions
    /\ answer \in [Sessions -> {"none", "moved", "unmoved", "error"}]
    /\ astray \in BOOLEAN

TreeInv == RowsOK /\ ControlOK /\ \A s \in Sessions : SessionOK(s)

LEMMA TreeInvTypes == TreeInv => TreeTypeOK
BY DEF TreeInv, TreeTypeOK, RowsOK, ControlOK, SessionOK, Arrays

LEMMA TreeInvInit == TreeInit => TreeInv
<1> SUFFICES ASSUME TreeInit PROVE TreeInv
    OBVIOUS
<1>1. Rows = {} /\ DOMAIN NoRows = {}
    BY DEF TreeInit, Rows, NoRows
<1>2. RowsOK
    BY <1>1, FS_EmptySet DEF TreeInit, RowsOK
<1>3. ControlOK
    BY DEF TreeInit, ControlOK
<1>4. \A s \in Sessions : SessionOK(s)
    BY <1>1 DEF TreeInit, SessionOK, Arrays
<1> QED
    BY <1>2, <1>3, <1>4 DEF TreeInv

\* The steps of one session leave the others as they are.
Untouched(t) ==
    /\ pc'[t] = pc[t] /\ uuid'[t] = uuid[t] /\ target'[t] = target[t] /\ want'[t] = want[t]
    /\ rewrite'[t] = rewrite[t] /\ locks'[t] = locks[t] /\ written'[t] = written[t]
    /\ answer'[t] = answer[t]

LEMMA UntouchedOK ==
    ASSUME NEW t, SessionOK(t), Untouched(t), Rows \subseteq Rows'
    PROVE  SessionOK(t)'
BY DEF SessionOK, Untouched, Arrays

LEMMA EndOK ==
    ASSUME TreeInv, NEW s \in Sessions, NEW r \in {"moved", "error"}, End(s, r), Rows' = Rows,
           UNCHANGED astray
    PROVE  ControlOK' /\ \A t \in Sessions : SessionOK(t)'
<1>1. ControlOK'
    BY DEF End, TreeInv, ControlOK
<1>2. \A t \in Sessions \ {s} : Untouched(t)
    BY DEF End, TreeInv, ControlOK, Untouched
<1>3. pc'[s] = "idle" /\ rewrite'[s] = NoRows /\ written'[s] = NoRows /\ locks'[s] = {}
    BY DEF End, TreeInv, ControlOK
<1>4. DOMAIN NoRows = {}
    BY DEF NoRows
<1>5. SessionOK(s)'
    BY <1>3, <1>4 DEF SessionOK, Arrays
<1> QED
    BY <1>1, <1>2, <1>5, UntouchedOK DEF TreeInv

LEMMA FittingArrays ==
    ASSUME RowsOK, NEW p \in Nodes \cup {NoParent}, NEW a \in Brought \cup Fitting(p)
    PROVE  a \in Seq(Nodes)
<1>1. CASE a \in Brought
    BY <1>1, TreeConstants
<1>2. CASE p = NoParent /\ a = <<>>
    BY <1>2
<1>3. CASE p \in Rows /\ a = Append(parents[p], p)
    BY <1>3 DEF RowsOK
<1> QED
    BY <1>1, <1>2, <1>3 DEF Fitting

LEMMA CreateTyped ==
    ASSUME TreeInv, NEW u \in Nodes, NEW p \in Nodes \cup {NoParent}, NEW a \in Seq(Nodes),
           Create(u, p, a)
    PROVE  TreeInv'
<1>1. /\ u \notin Rows /\ Rows' = Rows \cup {u}
      /\ parent'[u] = p /\ \A x \in Rows : parent'[x] = parent[x]
      /\ DOMAIN parents' = Rows'
      /\ parents'[u] = a /\ \A x \in Rows : parents'[x] = parents[x]
    BY DEF Create, Rows
<1>2. IsFiniteSet(Rows')
    BY <1>1, FS_AddElement DEF TreeInv, RowsOK
<1>3. RowsOK'
    BY <1>1, <1>2 DEF TreeInv, RowsOK
<1>4. astray' \in BOOLEAN
    BY DEF Create, TreeInv, ControlOK
<1>5. ControlOK' /\ \A t \in Sessions : Untouched(t)
    BY <1>4 DEF Create, session, TreeInv, ControlOK, Untouched
<1> QED
    BY <1>1, <1>3, <1>5, UntouchedOK DEF TreeInv

LEMMA MoveTyped ==
    ASSUME TreeInv, NEW s \in Sessions, NEW u \in Nodes, NEW p \in Nodes, Move(s, u, p)
    PROVE  TreeInv'
<1>1. Rows' = Rows /\ RowsOK'
    BY DEF Move, TreeInv, RowsOK, Rows
<1>2. ControlOK'
    BY DEF Move, TreeInv, ControlOK
<1>3. \A t \in Sessions \ {s} : Untouched(t)
    BY DEF Move, TreeInv, ControlOK, Untouched
<1>4. /\ rewrite'[s] = rewrite[s] /\ written'[s] = written[s] /\ locks'[s] = locks[s]
      /\ pc[s] = "idle" /\ pc'[s] \in {"idle", "lock"}
      /\ pc'[s] = "lock" => uuid'[s] \in Rows /\ target'[s] \in Rows /\ want'[s] \in Rows
      /\ pc'[s] = "lock" => answer'[s] = "none"
    BY DEF Move, AdmitsMove, TreeInv, ControlOK
<1>5. SessionOK(s)'
    BY <1>1, <1>4 DEF TreeInv, SessionOK, Arrays
<1> QED
    BY <1>1, <1>2, <1>3, <1>5, UntouchedOK DEF TreeInv

LEMMA SetParentTyped ==
    ASSUME TreeInv, NEW s \in Sessions, SetParent(s)
    PROVE  TreeInv'
<1>1. Rows' = Rows /\ RowsOK'
    BY DEF SetParent, TreeInv, RowsOK, Rows
<1>2. uuid[s] \in Nodes
    BY DEF SetParent, TreeInv, SessionOK, RowsOK
<1>3. ControlOK'
    BY <1>2 DEF SetParent, TreeInv, ControlOK
<1>4. \A t \in Sessions \ {s} : Untouched(t)
    BY DEF SetParent, TreeInv, ControlOK, Untouched
<1>5. /\ rewrite'[s] = rewrite[s] /\ written'[s] = written[s]
      /\ pc[s] = "lock" /\ pc'[s] = "read" /\ uuid'[s] = uuid[s] /\ target'[s] = target[s]
      /\ answer'[s] = answer[s]
    BY DEF SetParent, TreeInv, ControlOK
<1>6. DOMAIN NoRows = {}
    BY DEF NoRows
<1>7. SessionOK(s)'
    BY <1>1, <1>5, <1>6 DEF TreeInv, SessionOK, Arrays
<1> QED
    BY <1>1, <1>3, <1>4, <1>7, UntouchedOK DEF TreeInv

LEMMA ResultTyped ==
    ASSUME RowsOK, NEW s, NEW d \in Nat, Branch(s)[d] = {},
           uuid[s] \in Rows, target[s] \in Rows
    PROVE  Arrays(Result(s, d))
<1> DEFINE T == {n \in Nat : \A w \in Branch(s)[n] : w[1] \in Nodes /\ w[2] \in Seq(Nodes)}
<1>1. 0 \in T
    <2>1. parents[target[s]] \in Seq(Nodes) /\ target[s] \in Nodes
        BY DEF RowsOK
    <2>2. Branch(s)[0] = {<<target[s], parents[target[s]]>>}
        BY BranchRounds DEF FirstLevel
    <2> QED
        BY <2>1, <2>2
<1>2. ASSUME NEW n \in T PROVE n + 1 \in T
    <2> SUFFICES ASSUME NEW w \in Branch(s)[n + 1] PROVE w[1] \in Nodes /\ w[2] \in Seq(Nodes)
        OBVIOUS
    <2>1. PICK v \in Branch(s)[n] : Extends(s, w, v)
        BY RoundStep
    <2>2. v[1] \in Nodes /\ v[2] \in Seq(Nodes)
        OBVIOUS
    <2>3. Append(v[2], v[1]) \in Seq(Nodes)
        BY <2>2
    <2> QED
        BY <2>1, <2>3 DEF Extends, RowsOK
<1> HIDE DEF T
<1>3. \A n \in Nat : n \in T
    BY <1>1, <1>2, AllNumbers DEF T
<1>4. ASSUME NEW x \in Below(s) PROVE Result(s, d)[x] \in Seq(Nodes)
    <2>1. PICK n \in Nat : x \in InRound(s, n)
        BY DEF Below
    <2>2. PICK w \in Branch(s)[n] : w[1] = x
        BY <2>1 DEF InRound
    <2>3. w[2] \in Seq(Nodes)
        BY <1>3 DEF T
    <2> QED
        BY <2>2, <2>3, ResultRows
<1> QED
    BY <1>4, ResultRows, BelowRows DEF Arrays, RowsOK

LEMMA ReadBranchReads ==
    ASSUME NEW s, ReadBranch(s)
    PROVE  LET d == Cardinality(Rows) IN
           IF Branch(s)[d] # {}
           THEN pc' = [pc EXCEPT ![s] = "spin"] /\ UNCHANGED <<want, rewrite>>
           ELSE /\ rewrite' = [rewrite EXCEPT ![s] = Result(s, d)]
                /\ \E x \in DOMAIN rewrite'[s] : want' = [want EXCEPT ![s] = x]
                /\ pc' = [pc EXCEPT ![s] = "rewrite"]
BY DEF ReadBranch, Result, Found

LEMMA ReadBranchTyped ==
    ASSUME TreeInv, NEW s \in Sessions, ReadBranch(s)
    PROVE  TreeInv'
<1> DEFINE d == Cardinality(Rows)
<1>1. Rows' = Rows /\ RowsOK'
    BY DEF ReadBranch, TreeInv, RowsOK, Rows
<1>2. d \in Nat
    BY FS_CardinalityType DEF TreeInv, RowsOK
<1>3. /\ pc[s] = "read" /\ uuid[s] \in Rows /\ target[s] \in Rows /\ answer[s] = "none"
      /\ UNCHANGED <<parent, parents, uuid, target, locks, written, answer, astray>>
    BY DEF ReadBranch, TreeInv, SessionOK
<1>4. CASE Branch(s)[d] # {}
    <2>1. pc' = [pc EXCEPT ![s] = "spin"] /\ UNCHANGED <<want, rewrite>>
        BY <1>4, ReadBranchReads
    <2>2. ControlOK' /\ \A t \in Sessions \ {s} : Untouched(t)
        BY <1>3, <2>1 DEF TreeInv, ControlOK, Untouched
    <2>3. SessionOK(s)'
        BY <1>1, <1>3, <2>1 DEF TreeInv, ControlOK, SessionOK, Arrays
    <2> QED
        BY <1>1, <2>2, <2>3, UntouchedOK DEF TreeInv
<1>5. CASE Branch(s)[d] = {}
    <2>1. /\ rewrite' = [rewrite EXCEPT ![s] = Result(s, d)]
          /\ \E x \in DOMAIN rewrite'[s] : want' = [want EXCEPT ![s] = x]
          /\ pc' = [pc EXCEPT ![s] = "rewrite"]
        BY <1>5, ReadBranchReads
    <2>2. PICK x \in DOMAIN rewrite'[s] : want' = [want EXCEPT ![s] = x]
        BY <2>1
    <2>3. Arrays(Result(s, d))
        BY <1>2, <1>3, <1>5, ResultTyped DEF TreeInv
    <2>4. rewrite'[s] = Result(s, d)
        BY <2>1 DEF TreeInv, ControlOK
    <2>5. x \in Nodes
        BY <2>2, <2>3, <2>4 DEF Arrays, TreeInv, RowsOK
    <2>6. ControlOK' /\ \A t \in Sessions \ {s} : Untouched(t)
        BY <1>3, <2>1, <2>2, <2>5 DEF TreeInv, ControlOK, Untouched
    <2>7. pc'[s] = "rewrite" /\ want'[s] = x
        BY <2>1, <2>2 DEF TreeInv, ControlOK
    <2>8. (Arrays(rewrite[s]) /\ Arrays(written[s]) /\ DOMAIN written[s] \subseteq locks[s])'
        <3>1. Arrays(written[s]) /\ DOMAIN written[s] \subseteq locks[s]
            BY DEF TreeInv, SessionOK
        <3> QED
            BY <1>1, <1>3, <2>3, <2>4, <3>1 DEF Arrays
    <2>9. SessionOK(s)'
        BY <1>1, <1>3, <2>7, <2>8 DEF SessionOK, Arrays
    <2> QED
        BY <1>1, <2>6, <2>9, UntouchedOK DEF TreeInv
<1> QED
    BY <1>4, <1>5

LEMMA SetParentsWrites ==
    ASSUME TreeInv, NEW s \in Sessions, SetParents(s)
    PROVE  LET x == want[s] IN
           /\ pc[s] = "rewrite" /\ x \in DOMAIN rewrite[s]
           /\ DOMAIN written'[s] = DOMAIN written[s] \cup {x}
           /\ written'[s][x] = rewrite[s][x]
           /\ \A y \in DOMAIN written[s] \ {x} : written'[s][y] = written[s][y]
           /\ DOMAIN rewrite'[s] = DOMAIN rewrite[s] \ {x}
           /\ \A y \in DOMAIN rewrite'[s] : rewrite'[s][y] = rewrite[s][y]
           /\ locks'[s] = locks[s] \cup {x}
           /\ IF DOMAIN rewrite'[s] = {}
              THEN pc'[s] = "commit" /\ rewrite'[s] = NoRows
              ELSE pc'[s] = "rewrite" /\ want'[s] \in DOMAIN rewrite'[s]
<1> DEFINE x == want[s]
           rest == DOMAIN rewrite[s] \ {x}
<1>1. pc[s] = "rewrite" /\ x \in DOMAIN rewrite[s]
    BY DEF SetParents, TreeInv, SessionOK
<1>2. /\ written'[s] = [y \in DOMAIN written[s] \cup {x} |->
                            IF y = x THEN rewrite[s][x] ELSE written[s][y]]
      /\ rewrite'[s] = [y \in rest |-> rewrite[s][y]]
      /\ locks'[s] = locks[s] \cup {x}
    BY DEF SetParents, TreeInv, ControlOK
<1>3. CASE rest = {}
    <2>1. pc'[s] = "commit"
        BY <1>3 DEF SetParents, TreeInv, ControlOK
    <2>2. rewrite'[s] = NoRows
        BY <1>2, <1>3 DEF NoRows
    <2> QED
        BY <1>1, <1>2, <1>3, <2>1, <2>2
<1>4. CASE rest # {}
    <2>1. pc'[s] = "rewrite" /\ want'[s] \in rest
        BY <1>1, <1>4 DEF SetParents, TreeInv, ControlOK
    <2> HIDE DEF rest
    <2>2. DOMAIN rewrite'[s] = rest
        BY <1>2
    <2> QED
        BY <1>1, <1>2, <1>4, <2>1, <2>2 DEF rest
<1> QED
    BY <1>3, <1>4

LEMMA SetParentsTyped ==
    ASSUME TreeInv, NEW s \in Sessions, SetParents(s)
    PROVE  TreeInv'
<1>1. Rows' = Rows /\ RowsOK'
    BY DEF SetParents, TreeInv, RowsOK, Rows
<1>2. /\ want[s] \in DOMAIN rewrite[s] /\ pc[s] = "rewrite"
      /\ Arrays(rewrite[s]) /\ Arrays(written[s]) /\ DOMAIN written[s] \subseteq locks[s]
    BY SetParentsWrites DEF TreeInv, SessionOK
<1>3. DOMAIN rewrite[s] \subseteq Nodes
    BY <1>2 DEF Arrays, TreeInv, RowsOK
<1>4. ControlOK'
    BY <1>2, <1>3 DEF SetParents, TreeInv, ControlOK
<1>5. \A t \in Sessions \ {s} : Untouched(t)
    BY DEF SetParents, TreeInv, ControlOK, Untouched
<1>6. /\ uuid'[s] = uuid[s] /\ target'[s] = target[s] /\ answer'[s] = answer[s]
      /\ uuid[s] \in Rows /\ target[s] \in Rows /\ answer[s] = "none"
    BY <1>2 DEF SetParents, TreeInv, SessionOK
<1>7. (Arrays(rewrite[s]) /\ Arrays(written[s]) /\ DOMAIN written[s] \subseteq locks[s])'
    BY <1>1, <1>2, SetParentsWrites DEF Arrays
<1>8. SessionOK(s)'
    BY <1>1, <1>6, <1>7, SetParentsWrites DEF SessionOK
<1> QED
    BY <1>1, <1>4, <1>5, <1>8, UntouchedOK DEF TreeInv

LEMMA CommitWrites ==
    ASSUME TreeInv, NEW s \in Sessions, Commit(s)
    PROVE  /\ Rows' = Rows /\ parent' = Moved(s) /\ parents' = Overlay(parents, written[s])
           /\ uuid[s] \in Rows /\ target[s] \in Rows
           /\ DOMAIN parents' = Rows /\ pc[s] = "commit"
           /\ parent'[uuid[s]] = target[s]
           /\ \A x \in Rows : x # uuid[s] => parent'[x] = parent[x]
<1>1. pc[s] = "commit" /\ parent' = Moved(s) /\ parents' = Overlay(parents, written[s])
    BY DEF Commit, Moved
<1>2. uuid[s] \in Rows /\ target[s] \in Rows
    BY <1>1 DEF TreeInv, SessionOK
<1> QED
    BY <1>1, <1>2 DEF Moved, Rows, Overlay, TreeInv, RowsOK

LEMMA CommitTyped ==
    ASSUME TreeInv, NEW s \in Sessions, Commit(s)
    PROVE  TreeInv'
<1>1. ControlOK' /\ \A t \in Sessions : SessionOK(t)'
    BY CommitWrites, EndOK DEF Commit
<1>2. \A x \in Rows : parent'[x] \in Nodes \cup {NoParent}
    BY CommitWrites DEF TreeInv, RowsOK
<1>3. ASSUME NEW x \in Rows PROVE parents'[x] \in Seq(Nodes)
    <2>1. Arrays(written[s])
        BY DEF TreeInv, SessionOK
    <2>2. x \in DOMAIN parents
        BY DEF TreeInv, RowsOK
    <2> QED
        BY <2>1, <2>2, CommitWrites DEF Overlay, Arrays, TreeInv, RowsOK
<1>4. RowsOK'
    BY <1>2, <1>3, CommitWrites DEF TreeInv, RowsOK
<1> QED
    BY <1>1, <1>4 DEF TreeInv

LEMMA EndTyped ==
    ASSUME TreeInv, NEW s \in Sessions, End(s, "error"), UNCHANGED <<parent, parents, astray>>
    PROVE  TreeInv'
<1>1. Rows' = Rows /\ RowsOK'
    BY DEF TreeInv, RowsOK, Rows
<1> QED
    BY <1>1, EndOK DEF TreeInv

LEMMA TreeInvStep == TreeInv /\ [TreeNext]_treeVars => TreeInv'
<1> SUFFICES ASSUME TreeInv, [TreeNext]_treeVars PROVE TreeInv'
    OBVIOUS
<1>1. ASSUME NEW u \in Nodes, NEW p \in Named, NEW a \in Brought \cup Fitting(p), Create(u, p, a)
      PROVE  TreeInv'
    <2>1. p \in Nodes \cup {NoParent}
        BY TreeConstants
    <2>2. a \in Seq(Nodes)
        BY <2>1, FittingArrays DEF TreeInv
    <2> QED
        BY <1>1, <2>1, <2>2, CreateTyped
<1>2. ASSUME NEW s \in Sessions, NEW u \in Nodes, NEW p \in Nodes, Move(s, u, p) PROVE TreeInv'
    BY <1>2, MoveTyped
<1>3. ASSUME NEW s \in Sessions, Proceed(s) PROVE TreeInv'
    <2>1. CASE DeadlockVictim(s)
        BY <2>1, EndTyped DEF DeadlockVictim
    <2> QED
        BY <1>3, <2>1, SetParentTyped, ReadBranchTyped, SetParentsTyped, CommitTyped DEF Proceed
<1>4. ASSUME NEW s \in Sessions, Rollback(s) PROVE TreeInv'
    BY <1>4, EndTyped DEF Rollback
<1>5. CASE UNCHANGED treeVars
    <2>1. Rows' = Rows /\ RowsOK' /\ ControlOK' /\ \A t \in Sessions : Untouched(t)
        BY <1>5 DEF treeVars, TreeInv, RowsOK, ControlOK, Untouched, Rows
    <2> QED
        BY <2>1, UntouchedOK DEF TreeInv
<1> QED
    BY <1>1, <1>2, <1>3, <1>4, <1>5 DEF TreeNext

\* However many goroutines move nodes, the columns hold rows and lists of rows,
\* and what a transaction has written it has locked.
THEOREM TreeTypes == TreeSpec => []TreeTypeOK
BY TreeInvInit, TreeInvStep, TreeInvTypes, PTL DEF TreeSpec

-----------------------------------------------------------------------------
(* Moves one after the other.                                              *)

\* At any time one session at most is in a transaction.
NoOverlap ==
    \A s, t \in Sessions : pc[s] # "idle" /\ pc[t] # "idle" => s = t

\* The arrays there are once session s has done what it has read to do.
Final(s) ==
    [x \in Rows |->
        IF x \in DOMAIN rewrite[s] THEN rewrite[s][x]
        ELSE IF x \in DOMAIN written[s] THEN written[s][x] ELSE parents[x]]

Prepared(s) ==
    pc[s] \in {"rewrite", "commit"} =>
        /\ IsPath(Moved(s), Final(s))
        /\ ~AtOrAbove(parent, uuid[s], target[s])

Sound ==
    /\ ParentsInRows /\ IsPath(parent, parents)
    /\ \A s \in Sessions : Prepared(s)

AloneInv == ~astray => Sound

LEMMA PathAgrees ==
    ASSUME NEW f, NEW a, NEW b, IsPath(f, a),
           \A x \in DOMAIN f : f[x] \in DOMAIN f \cup {NoParent} /\ a[x] = b[x]
    PROVE  IsPath(f, b)
BY DEF IsPath

LEMMA MovedRows ==
    ASSUME ParentsInRows, NEW s, target[s] \in Rows
    PROVE  DOMAIN Moved(s) = Rows /\ \A x \in Rows : Moved(s)[x] \in Rows \cup {NoParent}
<1>1. DOMAIN Moved(s) = Rows
    BY DEF Moved, Rows
<1>2. ASSUME NEW x \in Rows PROVE Moved(s)[x] \in Rows \cup {NoParent}
    <2>1. Moved(s)[x] = IF x = uuid[s] THEN target[s] ELSE parent[x]
        BY DEF Moved, Rows
    <2> QED
        BY <2>1 DEF ParentsInRows
<1> QED
    BY <1>1, <1>2

LEMMA AloneInit == TreeInit => AloneInv
<1> SUFFICES ASSUME TreeInit PROVE AloneInv
    OBVIOUS
<1>1. Rows = {}
    BY DEF TreeInit, NoRows, Rows
<1>2. ParentsInRows /\ IsPath(parent, parents)
    BY <1>1 DEF ParentsInRows, IsPath, Rows
<1> QED
    BY <1>2 DEF TreeInit, AloneInv, Sound, Prepared

\* A session that nobody disturbs stays prepared.
LEMMA UntouchedPrepared ==
    ASSUME NEW t, Prepared(t), Untouched(t), UNCHANGED <<parent, parents>>
    PROVE  Prepared(t)'
<1>1. Rows' = Rows /\ Moved(t)' = Moved(t) /\ Final(t)' = Final(t)
    BY DEF Rows, Moved, Final, Untouched
<1> QED
    BY <1>1 DEF Prepared, Untouched, IsPath, AtOrAbove, Closed

LEMMA RowsStaySound ==
    ASSUME ParentsInRows, IsPath(parent, parents), UNCHANGED <<parent, parents>>
    PROVE  ParentsInRows' /\ IsPath(parent, parents)'
BY DEF ParentsInRows, IsPath, Rows

\* What an insert in its place does to the rows.
LEMMA CreateWrites ==
    ASSUME TreeInv, NEW u \in Nodes, NEW p \in Nodes \cup {NoParent}, NEW a,
           Create(u, p, a), ~astray'
    PROVE  /\ u \notin Rows /\ Rows' = Rows \cup {u} /\ ~astray
           /\ parent'[u] = p /\ \A x \in Rows : parent'[x] = parent[x]
           /\ parents'[u] = a /\ \A x \in Rows : parents'[x] = parents[x]
           /\ \/ p = NoParent /\ a = <<>>
              \/ p \in Rows /\ a = Append(parents[p], p) /\ \A s \in Sessions : pc[s] = "idle"
<1>1. a \in Fitting(p) /\ ~astray /\ ~(p # NoParent /\ \E s \in Sessions : pc[s] # "idle")
    BY DEF Create
<1>2. \/ p = NoParent /\ a = <<>>
      \/ p # NoParent /\ p \in Rows /\ a = Append(parents[p], p)
    BY <1>1 DEF Fitting
<1> QED
    BY <1>1, <1>2 DEF Create, Rows

LEMMA CreateAlone ==
    ASSUME TreeInv, Sound, NEW u \in Nodes, NEW p \in Nodes \cup {NoParent}, NEW a,
           Create(u, p, a), ~astray'
    PROVE  Sound'
<1>1. /\ u \notin Rows /\ Rows' = Rows \cup {u}
      /\ parent'[u] = p /\ \A x \in Rows : parent'[x] = parent[x]
      /\ parents'[u] = a /\ \A x \in Rows : parents'[x] = parents[x]
      /\ DOMAIN parent' = Rows'
    BY CreateWrites DEF Rows
<1>2. /\ p = NoParent => a = <<>>
      /\ p # NoParent => p \in Rows /\ a = Append(parents[p], p)
      /\ p # NoParent => \A s \in Sessions : pc[s] = "idle"
    BY CreateWrites DEF Sound, ParentsInRows
<1>3. \A x \in Rows : parent[x] \in Rows \cup {NoParent}
    BY DEF Sound, ParentsInRows
<1>4. ParentsInRows'
    BY <1>1, <1>2, <1>3, NoParentAssumption DEF Sound, ParentsInRows
<1>5. IsPath(parent, parents)'
    <2>1. ASSUME NEW x \in Rows
          PROVE  parents'[x] = IF parent'[x] = NoParent THEN <<>> ELSE Append(parents'[parent'[x]], parent'[x])
        BY <1>1, <1>3 DEF Sound, IsPath, Rows
    <2>2. parents'[u] = IF parent'[u] = NoParent THEN <<>> ELSE Append(parents'[parent'[u]], parent'[u])
        BY <1>1, <1>2
    <2> QED
        BY <1>1, <2>1, <2>2 DEF IsPath
<1>6. ASSUME NEW s \in Sessions PROVE Prepared(s)'
    <2> SUFFICES ASSUME pc[s] \in {"rewrite", "commit"}
                 PROVE  IsPath(Moved(s), Final(s))' /\ ~AtOrAbove(parent, uuid[s], target[s])'
        BY DEF Prepared, Create, session
    <2>0. p = NoParent /\ a = <<>>
        BY <1>2
    <2>1. /\ uuid' = uuid /\ target' = target /\ rewrite' = rewrite /\ written' = written
          /\ uuid[s] \in Rows /\ target[s] \in Rows
          /\ DOMAIN rewrite[s] \subseteq Rows /\ DOMAIN written[s] \subseteq Rows
        BY DEF Create, session, TreeInv, SessionOK, Arrays
    <2>2. IsPath(Moved(s), Final(s)) /\ ~AtOrAbove(parent, uuid[s], target[s])
        BY DEF Sound, Prepared
    <2> DEFINE f == Moved(s)
               g == [parent' EXCEPT ![uuid[s]] = target[s]]
               b == [x \in Rows' |->
                        IF x \in DOMAIN rewrite[s] THEN rewrite[s][x]
                        ELSE IF x \in DOMAIN written[s] THEN written[s][x] ELSE parents'[x]]
    <2>3. Moved(s)' = g /\ Final(s)' = b
        BY <2>1 DEF Moved, Final
    <2>4. DOMAIN f = Rows /\ \A x \in Rows : f[x] \in Rows \cup {NoParent}
        BY <2>1, MovedRows DEF Sound
    <2>5. DOMAIN g = Rows' /\ g[u] = NoParent /\ \A x \in Rows : g[x] = f[x]
        BY <1>1, <2>0, <2>1 DEF Moved, Rows
    <2>6. b[u] = <<>> /\ \A x \in Rows : b[x] = Final(s)[x]
        BY <1>1, <2>0, <2>1 DEF Final
    <2>7. \A x \in Rows : Final(s)[x] =
              IF f[x] = NoParent THEN <<>> ELSE Append(Final(s)[f[x]], f[x])
        BY <2>2, <2>4 DEF IsPath
    <2> HIDE DEF f, g, b
    <2>8. IsPath(g, b)
        BY <1>1, <2>4, <2>5, <2>6, <2>7 DEF IsPath
    <2>9. PICK S \in SUBSET Rows : target[s] \in S /\ Closed(parent, S) /\ uuid[s] \notin S
        BY <2>2 DEF AtOrAbove, Rows
    <2>10. Closed(parent', S)
        BY <1>1, <2>9 DEF Closed
    <2>11. ~AtOrAbove(parent', uuid[s], target[s])
        BY <1>1, <2>9, <2>10 DEF AtOrAbove
    <2>12. IsPath(Moved(s), Final(s))'
        BY <2>3, <2>8 DEF IsPath
    <2>13. ~AtOrAbove(parent, uuid[s], target[s])'
        BY <2>1, <2>11 DEF AtOrAbove, Closed
    <2> QED
        BY <2>12, <2>13
<1> QED
    BY <1>4, <1>5, <1>6 DEF Sound

LEMMA ReadBranchAlone ==
    ASSUME TreeInv, Sound, NEW s \in Sessions, ReadBranch(s)
    PROVE  Sound'
<1> DEFINE d == Cardinality(Rows)
<1>1. /\ UNCHANGED <<parent, parents, uuid, target, written>> /\ Rows' = Rows
      /\ pc[s] = "read" /\ uuid[s] \in Rows /\ target[s] \in Rows /\ written[s] = NoRows
    BY DEF ReadBranch, Rows, TreeInv, SessionOK
<1>2. d \in Nat
    BY FS_CardinalityType DEF TreeInv, RowsOK
<1>3. \A t \in Sessions \ {s} : Untouched(t)
    BY <1>1, ReadBranchReads DEF ReadBranch, Untouched, TreeInv, ControlOK
<1>4. CASE Branch(s)[d] # {}
    <2>1. pc'[s] = "spin"
        BY <1>4, ReadBranchReads DEF TreeInv, ControlOK
    <2>2. Prepared(s)'
        BY <2>1 DEF Prepared
    <2> QED
        BY <1>1, <1>3, <2>2, UntouchedPrepared, RowsStaySound DEF Sound
<1>5. CASE Branch(s)[d] = {}
    <2> DEFINE a == Overlay(parents, Result(s, d))
    <2>1. rewrite'[s] = Result(s, d)
        BY <1>5, ReadBranchReads DEF TreeInv, ControlOK
    <2>2. ParentsInRows /\ DOMAIN parents = Rows /\ IsPath(parent, parents)
        BY DEF TreeInv, RowsOK, Sound
    <2>3. IsPath(Moved(s), a) /\ ~AtOrAbove(parent, uuid[s], target[s])
        BY <1>1, <1>2, <1>5, <2>2, ResultFits, ResultDecides
    <2>4. \A x \in Rows : Final(s)'[x] = a[x]
        <3>1. DOMAIN NoRows = {}
            BY DEF NoRows
        <3> QED
            BY <1>1, <2>1, <2>2, <3>1 DEF Final, Overlay
    <2>5. Moved(s)' = Moved(s)
        BY <1>1 DEF Moved
    <2> HIDE DEF a
    <2>6. IsPath(Moved(s), Final(s)')
        BY <1>1, <2>3, <2>4, MovedRows, PathAgrees DEF Sound
    <2>7. IsPath(Moved(s), Final(s))'
        BY <2>5, <2>6 DEF IsPath
    <2>8. ~AtOrAbove(parent, uuid[s], target[s])'
        BY <1>1, <2>3 DEF AtOrAbove, Closed
    <2>9. Prepared(s)'
        BY <2>7, <2>8 DEF Prepared
    <2> QED
        BY <1>1, <1>3, <2>9, UntouchedPrepared, RowsStaySound DEF Sound
<1> QED
    BY <1>4, <1>5

LEMMA SetParentsAlone ==
    ASSUME TreeInv, Sound, NEW s \in Sessions, SetParents(s)
    PROVE  Sound'
<1>1. UNCHANGED <<parent, parents, uuid, target>> /\ Rows' = Rows
    BY DEF SetParents, Rows
<1>2. \A t \in Sessions \ {s} : Untouched(t)
    BY DEF SetParents, TreeInv, ControlOK, Untouched
<1>3. pc[s] = "rewrite" /\ target[s] \in Rows
    BY DEF SetParents, TreeInv, SessionOK
<1>4. Moved(s)' = Moved(s)
    BY <1>1 DEF Moved
<1>5. \A x \in Rows : Final(s)'[x] = Final(s)[x]
    BY <1>1, SetParentsWrites DEF Final
<1>6. IsPath(Moved(s), Final(s)) /\ ~AtOrAbove(parent, uuid[s], target[s])
    BY <1>3 DEF Sound, Prepared
<1>7. IsPath(Moved(s), Final(s)')
    BY <1>3, <1>5, <1>6, MovedRows, PathAgrees DEF Sound
<1>8. IsPath(Moved(s), Final(s))'
    BY <1>4, <1>7 DEF IsPath
<1>9. Prepared(s)'
    BY <1>1, <1>6, <1>8 DEF Prepared, AtOrAbove, Closed
<1> QED
    BY <1>1, <1>2, <1>9, UntouchedPrepared, RowsStaySound DEF Sound

LEMMA CommitAlone ==
    ASSUME TreeInv, Sound, NoOverlap, NEW s \in Sessions, Commit(s)
    PROVE  Sound'
<1>1. pc[s] = "commit" /\ IsPath(Moved(s), Final(s)) /\ target[s] \in Rows
    BY CommitWrites DEF Sound, Prepared
<1>2. rewrite[s] = NoRows /\ DOMAIN NoRows = {} /\ DOMAIN parents = Rows
    BY <1>1 DEF TreeInv, SessionOK, RowsOK, NoRows
<1>3. parent' = Moved(s) /\ \A x \in Rows : Final(s)[x] = parents'[x]
    BY <1>2, CommitWrites DEF Final, Overlay
<1>4. IsPath(Moved(s), parents')
    BY <1>1, <1>3, MovedRows, PathAgrees DEF Sound
<1>5. IsPath(parent, parents)' /\ ParentsInRows'
    <2>1. IsPath(parent, parents)'
        BY <1>3, <1>4 DEF IsPath
    <2>2. \A x \in Rows : parent'[x] \in Rows \cup {NoParent}
        BY <1>1, <1>3, MovedRows DEF Sound
    <2> QED
        BY <2>1, <2>2, CommitWrites DEF Sound, ParentsInRows
<1>6. \A t \in Sessions : pc'[t] = "idle"
    BY <1>1 DEF Commit, End, NoOverlap, TreeInv, ControlOK
<1> QED
    BY <1>5, <1>6 DEF Sound, Prepared

LEMMA EndAlone ==
    ASSUME TreeInv, Sound, NEW s \in Sessions, End(s, "error"), UNCHANGED <<parent, parents>>
    PROVE  Sound'
<1>1. \A t \in Sessions \ {s} : Untouched(t)
    BY DEF End, TreeInv, ControlOK, Untouched
<1>2. Prepared(s)'
    BY DEF End, TreeInv, ControlOK, Prepared
<1> QED
    BY <1>1, <1>2, UntouchedPrepared, RowsStaySound DEF Sound

LEMMA AloneStep == TreeInv /\ AloneInv /\ NoOverlap /\ [TreeNext]_treeVars => AloneInv'
<1> SUFFICES ASSUME TreeInv, AloneInv, NoOverlap, [TreeNext]_treeVars, ~astray' PROVE Sound'
    BY DEF AloneInv
<1>1. ASSUME NEW u \in Nodes, NEW p \in Named, NEW a, Create(u, p, a) PROVE Sound'
    <2>1. p \in Nodes \cup {NoParent}
        BY TreeConstants
    <2> QED
        BY <1>1, <2>1, CreateAlone, CreateWrites DEF AloneInv
<1>2. ASSUME NEW s \in Sessions, \/ SetParent(s)
                                 \/ \E u, p \in Nodes : Move(s, u, p)
      PROVE  Sound'
    <2>1. /\ UNCHANGED <<parent, parents, astray>>
          /\ \A t \in Sessions \ {s} : Untouched(t)
        BY <1>2 DEF Move, SetParent, Untouched, TreeInv, ControlOK
    <2>2. pc'[s] \in {"idle", "lock", "read"}
        BY <1>2 DEF Move, SetParent, TreeInv, ControlOK
    <2>3. Prepared(s)'
        BY <2>2 DEF Prepared
    <2> QED
        BY <2>1, <2>3, UntouchedPrepared, RowsStaySound DEF AloneInv, Sound
<1>3. ASSUME NEW s \in Sessions, Proceed(s) PROVE Sound'
    <2>1. astray' = astray
        BY <1>3 DEF Proceed, SetParent, ReadBranch, SetParents, Commit, DeadlockVictim
    <2>2. CASE DeadlockVictim(s)
        BY <2>1, <2>2, EndAlone DEF DeadlockVictim, AloneInv
    <2> QED
        BY <1>2, <1>3, <2>1, <2>2, ReadBranchAlone, SetParentsAlone, CommitAlone DEF Proceed, AloneInv
<1>4. ASSUME NEW s \in Sessions, Rollback(s) PROVE Sound'
    BY <1>4, EndAlone DEF Rollback, AloneInv
<1>5. CASE UNCHANGED treeVars
    <2>1. UNCHANGED <<parent, parents, astray>> /\ \A t \in Sessions : Untouched(t)
        BY <1>5 DEF treeVars, Untouched
    <2> QED
        BY <2>1, UntouchedPrepared, RowsStaySound DEF AloneInv, Sound
<1> QED
    BY <1>1, <1>2, <1>3, <1>4, <1>5 DEF TreeNext

\* As long as moves do not overlap and rows come in their places, each array
\* stays the path to its row, whatever number of rows a move rewrites and
\* wherever it is rolled back.
THEOREM PathsKept == TreeSpec /\ []NoOverlap => []ParentsArePath
<1>1. AloneInv => ParentsArePath
    BY DEF AloneInv, Sound, IsPath, ParentsArePath, Rows
<1> QED
    BY <1>1, TreeInvInit, TreeInvStep, AloneInit, AloneStep, PTL DEF TreeSpec

-----------------------------------------------------------------------------
(* What a move rewrites, whatever rows and arrays there are.               *)

Writes(s) == DOMAIN rewrite[s] \cup DOMAIN written[s]

\* The rows a session writes continue each other's arrays up to the target.
Rewriting(s) ==
    pc[s] \in {"rewrite", "commit"} =>
        /\ uuid[s] \in Writes(s)
        /\ \A x \in Writes(s) \ {target[s]} :
              LET q == Moved(s)[x]
              IN  q \in Writes(s) /\ Final(s)[x] = Append(Final(s)[q], q)

RewriteInv == \A s \in Sessions : Rewriting(s)

LEMMA UntouchedRewriting ==
    ASSUME TreeInv, NEW t \in Sessions, Rewriting(t), Untouched(t), Rows \subseteq Rows',
           \A x \in Rows : parent'[x] = parent[x] /\ parents'[x] = parents[x]
    PROVE  Rewriting(t)'
<1> SUFFICES ASSUME pc[t] \in {"rewrite", "commit"}
             PROVE  /\ uuid[t] \in Writes(t)'
                    /\ \A x \in Writes(t)' \ {target[t]} :
                          LET q == Moved(t)'[x]
                          IN  q \in Writes(t)' /\ Final(t)'[x] = Append(Final(t)'[q], q)
    BY DEF Rewriting, Untouched
<1>1. Writes(t)' = Writes(t) /\ Writes(t) \subseteq Rows
    BY DEF Writes, Untouched, TreeInv, SessionOK, Arrays
<1>2. \A x \in Rows : Moved(t)'[x] = Moved(t)[x]
    BY DEF Moved, Untouched, Rows
<1>3. \A x \in Rows : Final(t)'[x] = Final(t)[x]
    BY DEF Final, Untouched
<1> QED
    BY <1>1, <1>2, <1>3 DEF Rewriting

LEMMA ReadBranchRewrites ==
    ASSUME TreeInv, NEW s \in Sessions, ReadBranch(s)
    PROVE  Rewriting(s)'
<1> DEFINE d == Cardinality(Rows)
<1>1. /\ UNCHANGED <<parent, parents, uuid, target, written>> /\ Rows' = Rows
      /\ uuid[s] \in Rows /\ target[s] \in Rows /\ written[s] = NoRows
    BY DEF ReadBranch, Rows, TreeInv, SessionOK
<1>2. d \in Nat
    BY FS_CardinalityType DEF TreeInv, RowsOK
<1>3. CASE Branch(s)[d] # {}
    BY <1>3, ReadBranchReads DEF TreeInv, ControlOK, Rewriting
<1>4. CASE Branch(s)[d] = {}
    <2> DEFINE R == Result(s, d)
    <2>1. rewrite'[s] = R
        BY <1>4, ReadBranchReads DEF TreeInv, ControlOK
    <2> HIDE DEF d
    <2>2. DOMAIN R = Below(s) /\ uuid[s] \in Below(s) /\ Below(s) \subseteq Rows
        BY <1>1, <1>2, <1>4, ResultRows, BelowRows
    <2>3. \A x \in Below(s) \ {target[s]} :
              Moved(s)[x] \in Below(s) /\ R[x] = Append(R[Moved(s)[x]], Moved(s)[x])
        BY <1>2, <1>4, ResultContinues
    <2> HIDE DEF R
    <2>4. Writes(s)' = Below(s)
        <3>1. DOMAIN NoRows = {}
            BY DEF NoRows
        <3> QED
            BY <1>1, <2>1, <2>2, <3>1 DEF Writes
    <2>5. Moved(s)' = Moved(s) /\ \A x \in Below(s) : Final(s)'[x] = R[x]
        BY <1>1, <2>1, <2>2 DEF Moved, Final
    <2> QED
        BY <1>1, <2>2, <2>3, <2>4, <2>5 DEF Rewriting
<1> QED
    BY <1>3, <1>4

LEMMA SetParentsRewrites ==
    ASSUME TreeInv, NEW s \in Sessions, Rewriting(s), SetParents(s)
    PROVE  Rewriting(s)'
<1>1. UNCHANGED <<parent, parents, uuid, target>> /\ Rows' = Rows /\ pc[s] = "rewrite"
    BY DEF SetParents, Rows
<1>2. Moved(s)' = Moved(s)
    BY <1>1 DEF Moved
<1>3. Writes(s)' = Writes(s)
    BY SetParentsWrites DEF Writes
<1>4. Writes(s) \subseteq Rows
    BY DEF Writes, TreeInv, SessionOK, Arrays
<1>5. \A x \in Rows : Final(s)'[x] = Final(s)[x]
    BY <1>1, SetParentsWrites DEF Final
<1> QED
    BY <1>1, <1>2, <1>3, <1>4, <1>5 DEF Rewriting

LEMMA RewriteStep == TreeInv /\ RewriteInv /\ NoOverlap /\ [TreeNext]_treeVars => RewriteInv'
<1> SUFFICES ASSUME TreeInv, RewriteInv, NoOverlap, [TreeNext]_treeVars, NEW t \in Sessions
             PROVE  Rewriting(t)'
    BY DEF RewriteInv
<1>1. Rewriting(t)
    BY DEF RewriteInv
<1>2. ASSUME NEW u, NEW p, NEW a, Create(u, p, a) PROVE Rewriting(t)'
    BY <1>1, <1>2, UntouchedRewriting DEF Create, session, Untouched, Rows
<1>3. ASSUME NEW s \in Sessions,
             \/ SetParent(s) \/ ReadBranch(s) \/ SetParents(s)
             \/ DeadlockVictim(s) \/ Rollback(s)
             \/ \E u, p \in Nodes : Move(s, u, p)
      PROVE  Rewriting(t)'
    <2>1. UNCHANGED <<parent, parents>> /\ Rows' = Rows
        BY <1>3 DEF SetParent, ReadBranch, SetParents, DeadlockVictim, Rollback, Move, Rows
    <2>2. CASE t # s
        <3>1. Untouched(t)
            <4>1. CASE ReadBranch(s)
                BY <2>2, <4>1, ReadBranchReads DEF ReadBranch, Untouched, TreeInv, ControlOK
            <4> QED
                BY <1>3, <2>2, <4>1 DEF SetParent, SetParents, DeadlockVictim, Rollback, Move, End,
                                        Untouched, TreeInv, ControlOK
        <3> QED
            BY <1>1, <2>1, <3>1, UntouchedRewriting
    <2>3. CASE t = s /\ (ReadBranch(s) \/ SetParents(s))
        BY <1>1, <2>3, ReadBranchRewrites, SetParentsRewrites
    <2>4. CASE t = s /\ ~(ReadBranch(s) \/ SetParents(s))
        <3>1. pc'[s] \in {"idle", "lock", "read"}
            BY <1>3, <2>4 DEF SetParent, DeadlockVictim, Rollback, Move, End, TreeInv, ControlOK
        <3> QED
            BY <2>4, <3>1 DEF Rewriting
    <2> QED
        BY <2>2, <2>3, <2>4
<1>4. ASSUME NEW s \in Sessions, Commit(s) PROVE Rewriting(t)'
    <2>1. pc'[t] = "idle"
        BY <1>4 DEF Commit, End, NoOverlap, TreeInv, ControlOK
    <2> QED
        BY <2>1 DEF Rewriting
<1>5. CASE UNCHANGED treeVars
    BY <1>1, <1>5, UntouchedRewriting DEF treeVars, Untouched, Rows
<1> QED
    BY <1>2, <1>3, <1>4, <1>5 DEF TreeNext, Proceed

Rewritten ==
    \A s \in Sessions :
        pc[s] = "commit" /\ answer'[s] = "moved" =>
            /\ uuid[s] \in DOMAIN written[s]
            /\ \A x \in DOMAIN written[s] \ {target[s]} :
                  /\ parent'[x] \in DOMAIN written[s]
                  /\ parents'[x] = Append(parents'[parent'[x]], parent'[x])

LEMMA RewrittenStep ==
    ASSUME TreeInv, RewriteInv, NoOverlap, [TreeNext]_treeVars
    PROVE  [Rewritten]_treeVars
<1> SUFFICES ASSUME TreeNext, NEW s \in Sessions, pc[s] = "commit", answer'[s] = "moved"
             PROVE  /\ uuid[s] \in DOMAIN written[s]
                    /\ \A x \in DOMAIN written[s] \ {target[s]} :
                          /\ parent'[x] \in DOMAIN written[s]
                          /\ parents'[x] = Append(parents'[parent'[x]], parent'[x])
    BY DEF Rewritten
<1>1. CASE Commit(s)
    <2>1. rewrite[s] = NoRows /\ DOMAIN NoRows = {} /\ DOMAIN written[s] \subseteq Rows
        BY DEF TreeInv, SessionOK, NoRows, Arrays
    <2>2. Writes(s) = DOMAIN written[s]
        BY <2>1 DEF Writes
    <2>3. parent' = Moved(s) /\ \A x \in DOMAIN written[s] : parents'[x] = Final(s)[x]
        BY <1>1, <2>1, CommitWrites DEF Final, Overlay, TreeInv, RowsOK
    <2> QED
        BY <2>2, <2>3 DEF RewriteInv, Rewriting
<1>2. CASE ~Commit(s)
    <2>1. answer[s] = "none"
        BY DEF TreeInv, SessionOK
    <2>2. ASSUME NEW t \in Sessions, Proceed(t) \/ Rollback(t), t # s PROVE answer'[s] = answer[s]
        BY <2>2 DEF Proceed, SetParent, ReadBranch, SetParents, Commit, DeadlockVictim, Rollback,
                    End, TreeInv, ControlOK
    <2>3. ASSUME Proceed(s) \/ Rollback(s) PROVE answer'[s] # "moved"
        BY <1>2, <2>1, <2>3 DEF Proceed, SetParent, ReadBranch, SetParents, DeadlockVictim, Rollback,
                                End, TreeInv, ControlOK
    <2>4. ASSUME NEW t \in Sessions, NEW u, NEW p, Move(t, u, p) PROVE answer'[s] # "moved"
        BY <2>1, <2>4 DEF Move, TreeInv, ControlOK
    <2>5. ASSUME NEW u, NEW p, NEW a, Create(u, p, a) PROVE answer'[s] = answer[s]
        BY <2>5 DEF Create, session
    <2> QED
        BY <2>1, <2>2, <2>3, <2>4, <2>5 DEF TreeNext
<1> QED
    BY <1>1, <1>2

LEMMA RewriteInit == TreeInit => RewriteInv
BY DEF TreeInit, RewriteInv, Rewriting

\* As long as moves do not overlap, a move that commits has rewritten its node
\* and whatever it has found below, whatever arrays there were: no document
\* can keep a moved branch from getting the arrays that continue its target's.
THEOREM BranchRewritten == TreeSpec /\ []NoOverlap => MoveRewrites
BY RewriteInit, RewriteStep, RewrittenStep, TreeInvInit, TreeInvStep, PTL
   DEF TreeSpec, MoveRewrites, Rewritten

-----------------------------------------------------------------------------
(* The hierarchy they implement.                                           *)

LEMMA InitMaps == TreeInit => H!HierarchyInit
BY DEF TreeInit, NoRows, H!HierarchyInit

LEMMA CreateMaps ==
    ASSUME TreeInv, NEW u \in Nodes, NEW p \in Nodes \cup {NoParent}, NEW a, Create(u, p, a)
    PROVE  H!Add(u, p) \/ H!Graft(u, p)
<1>1. CASE astray'
    BY <1>1 DEF Create, H!Graft, H!Members, Rows, TreeInv, ControlOK
<1>2. CASE ~astray'
    <2>1. p \in Rows \cup {NoParent} /\ ~astray
        BY <1>2, CreateWrites
    <2>2. UNCHANGED astray
        <3>1. astray \in BOOLEAN /\ astray' \in BOOLEAN
            BY DEF Create, TreeInv, ControlOK
        <3> QED
            BY <1>2, <2>1, <3>1
    <2> QED
        BY <2>1, <2>2 DEF Create, H!Add, H!Members, Rows
<1> QED
    BY <1>1, <1>2

LEMMA CommitMaps ==
    ASSUME TreeInv, AloneInv, NEW s \in Sessions, Commit(s)
    PROVE  /\ uuid[s] \in Nodes /\ target[s] \in Nodes
           /\ H!Reparent(uuid[s], target[s]) \/ H!Graft(uuid[s], target[s])
<1>1. /\ pc[s] = "commit" /\ uuid[s] \in Rows /\ target[s] \in Rows
      /\ parent' = Moved(s) /\ astray' = astray /\ astray \in BOOLEAN
    BY CommitWrites DEF Commit, TreeInv, ControlOK
<1>2. CASE ~astray
    <2>1. ~AtOrAbove(parent, uuid[s], target[s])
        BY <1>1, <1>2 DEF AloneInv, Sound, Prepared
    <2>2. ~H!AtOrAbove(parent, uuid[s], target[s])
        BY <2>1 DEF AtOrAbove, Closed, H!AtOrAbove, H!Closed
    <2> QED
        BY <1>1, <2>2 DEF Moved, H!Reparent, H!Members, Rows, TreeInv, RowsOK
<1>3. CASE astray
    <2>1. Moved(s) = [x \in Rows \cup {uuid[s]} |-> IF x = uuid[s] THEN target[s] ELSE parent[x]]
        BY <1>1 DEF Moved, Rows
    <2> QED
        BY <1>1, <1>3, <2>1 DEF H!Graft, H!Members, Rows, TreeInv, RowsOK
<1> QED
    BY <1>1, <1>2, <1>3

LEMMA StepMaps ==
    TreeInv /\ AloneInv /\ [TreeNext]_treeVars => [H!HierarchyNext]_<<parent, astray>>
<1> SUFFICES ASSUME TreeInv, AloneInv, [TreeNext]_treeVars, UNCHANGED <<parent, astray>> => FALSE
             PROVE  H!HierarchyNext
    OBVIOUS
<1>1. ASSUME NEW u \in Nodes, NEW p \in Named, NEW a, Create(u, p, a) PROVE H!HierarchyNext
    <2>1. p \in Nodes \cup {NoParent}
        BY TreeConstants
    <2> QED
        BY <1>1, <2>1, CreateMaps DEF H!HierarchyNext
<1>2. ASSUME NEW s \in Sessions, Commit(s) PROVE H!HierarchyNext
    BY <1>2, CommitMaps DEF H!HierarchyNext
<1>3. ASSUME NEW s \in Sessions, \/ Proceed(s) /\ ~Commit(s)
                                 \/ Rollback(s)
                                 \/ \E u, p \in Nodes : Move(s, u, p)
      PROVE  UNCHANGED <<parent, astray>>
    BY <1>3 DEF Proceed, SetParent, ReadBranch, SetParents, DeadlockVictim, Rollback, Move
<1>4. CASE UNCHANGED treeVars
    BY <1>4 DEF treeVars
<1> QED
    BY <1>1, <1>2, <1>3, <1>4 DEF TreeNext

\* Moves that do not overlap are atomic to whoever reads the committed rows,
\* and as long as rows come in their places no move puts a node below itself:
\* what the guard of Move does not notice, its recursive query does.
THEOREM MovesImplementHierarchy == TreeSpec /\ []NoOverlap => ImplementsHierarchy
BY InitMaps, StepMaps, TreeInvInit, TreeInvStep, AloneInit, AloneStep, PTL
   DEF TreeSpec, ImplementsHierarchy, H!HierarchySpec, H!hierarchyVars

ForestOK == H!HierarchyTypeOK /\ IsForest(parent)

HierarchyInv == ~astray => ForestOK

\* A new node is nobody's parent and closes no cycle.
LEMMA AddKeepsForest ==
    ASSUME ForestOK, NEW u \in Nodes, NEW p, H!Add(u, p)
    PROVE  ForestOK'
<1>1. /\ u \notin Rows /\ p \in Rows \cup {NoParent}
      /\ parent' = [x \in Rows \cup {u} |-> IF x = u THEN p ELSE parent[x]]
    BY DEF H!Add, H!Members, Rows
<1>2. /\ Rows' = Rows \cup {u}
      /\ parent'[u] = p
      /\ \A x \in Rows : parent'[x] = parent[x]
    BY <1>1 DEF Rows
<1>3. H!HierarchyTypeOK'
    BY <1>1, <1>2 DEF ForestOK, H!HierarchyTypeOK, H!Members, Rows
<1>4. ASSUME NEW S \in SUBSET Rows', S # {}
      PROVE  \E x \in S : parent'[x] \notin S
    <2>1. CASE S = {u}
        BY <1>1, <1>2, <2>1, NoParentAssumption
    <2>2. CASE S # {u}
        <3>1. S \ {u} \in SUBSET Rows /\ S \ {u} # {}
            BY <1>2, <1>4, <2>2
        <3>2. PICK x \in S \ {u} : parent[x] \notin S \ {u}
            BY <3>1 DEF ForestOK, IsForest, Rows
        <3>3. parent[x] # u
            BY <1>1, <3>1, <3>2, NoParentAssumption DEF ForestOK, H!HierarchyTypeOK, H!Members, Rows
        <3> QED
            BY <1>2, <3>1, <3>2, <3>3
    <2> QED
        BY <2>1, <2>2
<1> QED
    BY <1>3, <1>4 DEF ForestOK, IsForest, Rows

\* If u is not above p, some set closed under parents holds p and not u.  A
\* cycle through the new edge would lie in it, and was there before.
LEMMA ReparentKeepsForest ==
    ASSUME ForestOK, NEW u \in Nodes, NEW p \in Nodes, H!Reparent(u, p)
    PROVE  ForestOK'
<1>1. /\ u \in Rows /\ p \in Rows /\ ~H!AtOrAbove(parent, u, p)
      /\ parent' = [parent EXCEPT ![u] = p]
    BY DEF H!Reparent, H!Members, Rows
<1>2. /\ Rows' = Rows
      /\ parent'[u] = p
      /\ \A x \in Rows \ {u} : parent'[x] = parent[x]
    BY <1>1 DEF Rows
<1>3. H!HierarchyTypeOK'
    BY <1>1, <1>2 DEF ForestOK, H!HierarchyTypeOK, H!Members, Rows
<1>4. PICK C \in SUBSET Rows : p \in C /\ Closed(parent, C) /\ u \notin C
    BY <1>1 DEF H!AtOrAbove, H!Closed, Closed, Rows
<1>5. ASSUME NEW S \in SUBSET Rows, S # {}
      PROVE  \E x \in S : parent'[x] \notin S
    <2>1. CASE u \notin S
        BY <1>2, <1>5, <2>1 DEF ForestOK, IsForest, Rows
    <2>2. CASE u \in S /\ p \notin S
        BY <1>2, <2>2
    <2>3. CASE u \in S /\ p \in S
        <3>1. PICK x \in S \cap C : parent[x] \notin S \cap C
            BY <1>4, <2>3 DEF ForestOK, IsForest, Rows
        <3>2. parent[x] \in C \cup {NoParent}
            BY <1>4, <3>1 DEF Closed
        <3>3. NoParent \notin S
            BY NoParentAssumption DEF ForestOK, H!HierarchyTypeOK, H!Members, Rows
        <3>4. parent'[x] = parent[x]
            BY <1>2, <1>4, <3>1
        <3> QED
            BY <3>1, <3>2, <3>3, <3>4
    <2> QED
        BY <2>1, <2>2, <2>3
<1> QED
    BY <1>2, <1>3, <1>5 DEF ForestOK, IsForest, Rows

\* "cannot move a parent node into its child" (test/api/parent_test.go:50) is
\* enough: as long as rows come in their places, nobody is its own ancestor.
THEOREM HierarchyIsForest == H!HierarchySpec => []CommittedForest
<1>1. H!HierarchyInit => HierarchyInv
    <2> SUFFICES ASSUME H!HierarchyInit PROVE ForestOK
        BY DEF HierarchyInv
    <2>1. Rows = {}
        BY DEF H!HierarchyInit, Rows
    <2> QED
        BY <2>1 DEF ForestOK, H!HierarchyTypeOK, H!Members, IsForest, Rows
<1>2. HierarchyInv /\ [H!HierarchyNext]_H!hierarchyVars => HierarchyInv'
    <2> SUFFICES ASSUME HierarchyInv, [H!HierarchyNext]_H!hierarchyVars, ~astray' PROVE ForestOK'
        BY DEF HierarchyInv
    <2>1. CASE H!HierarchyNext
        <3>1. ASSUME NEW u \in Nodes, NEW p, H!Add(u, p) PROVE ForestOK'
            <4>1. ~astray
                BY <3>1 DEF H!Add
            <4> QED
                BY <3>1, <4>1, AddKeepsForest DEF HierarchyInv
        <3>2. ASSUME NEW u \in Nodes, NEW p \in Nodes, H!Reparent(u, p) PROVE ForestOK'
            <4>1. ~astray
                BY <3>2 DEF H!Reparent
            <4> QED
                BY <3>2, <4>1, ReparentKeepsForest DEF HierarchyInv
        <3>3. ASSUME NEW u, NEW p, H!Graft(u, p) PROVE FALSE
            BY <3>3 DEF H!Graft
        <3> QED
            BY <2>1, <3>1, <3>2, <3>3 DEF H!HierarchyNext
    <2>2. CASE UNCHANGED H!hierarchyVars
        BY <2>2 DEF H!hierarchyVars, HierarchyInv, ForestOK, H!HierarchyTypeOK, H!Members, IsForest
    <2> QED
        BY <2>1, <2>2
<1>3. HierarchyInv => CommittedForest
    BY DEF HierarchyInv, ForestOK, CommittedForest
<1> QED
    BY <1>1, <1>2, <1>3, PTL DEF H!HierarchySpec

\* The disagreement that the run tree_cycle finds needs two moves at a time.
COROLLARY AloneCommittedForest == TreeSpec /\ []NoOverlap => []CommittedForest
BY MovesImplementHierarchy, HierarchyIsForest, PTL DEF ImplementsHierarchy

-----------------------------------------------------------------------------
(* The moves that are refused.                                             *)

\* Whatever set of rows holds their parents holds all that the array of one of
\* them lists.
LEMMA ListedAbove ==
    ASSUME RowsOK, IsPath(parent, parents), NEW S \in SUBSET Rows, Closed(parent, S), NEW p \in S
    PROVE  ToSet(parents[p]) \subseteq S
<1> DEFINE T == {n \in Nat : \A x \in S : Len(parents[x]) = n => ToSet(parents[x]) \subseteq S}
<1>1. ASSUME NEW x \in S
      PROVE  \/ parents[x] = <<>>
             \/ parent[x] \in S /\ parents[x] = Append(parents[parent[x]], parent[x])
    BY DEF IsPath, Closed, Rows
<1>2. \A x \in S : parents[x] \in Seq(Nodes) /\ Len(parents[x]) \in Nat
    BY DEF RowsOK
<1>3. 0 \in T
    <2>1. ASSUME NEW x \in S, Len(parents[x]) = 0 PROVE ToSet(parents[x]) = {}
        BY <1>2, <2>1 DEF ToSet
    <2> QED
        BY <2>1
<1>4. ASSUME NEW n \in T PROVE n + 1 \in T
    <2> SUFFICES ASSUME NEW x \in S, Len(parents[x]) = n + 1 PROVE ToSet(parents[x]) \subseteq S
        OBVIOUS
    <2> DEFINE q == parent[x]
    <2>1. parents[x] # <<>>
        BY <1>2
    <2>2. q \in S /\ parents[x] = Append(parents[q], q)
        BY <1>1, <2>1
    <2>3. parents[q] \in Seq(Nodes) /\ q \in Nodes
        BY <1>2, <2>2 DEF RowsOK
    <2>4. Len(parents[q]) = n
        BY <2>2, <2>3
    <2>5. ToSet(parents[q]) \subseteq S
        BY <2>2, <2>4
    <2>6. ASSUME NEW i \in DOMAIN parents[x] PROVE parents[x][i] \in ToSet(parents[q]) \cup {q}
        BY <2>2, <2>3 DEF ToSet
    <2> HIDE DEF q
    <2> QED
        BY <2>2, <2>5, <2>6 DEF ToSet
<1> HIDE DEF T
<1>5. \A n \in Nat : n \in T
    BY <1>3, <1>4, AllNumbers DEF T
<1> QED
    BY <1>2, <1>5 DEF T

\* The guard of Move looks at one array and refuses nothing it should not.
THEOREM RefusalsJustified == TreeSpec /\ []NoOverlap => []RefusedForAReason
<1>1. TreeInv /\ AloneInv => RefusedForAReason
    <2> SUFFICES ASSUME TreeInv, Sound, NEW u \in Rows, NEW p \in Rows, ~AdmitsMove(u, p)
                 PROVE  AtOrAbove(parent, u, p)
        BY DEF RefusedForAReason, AloneInv
    <2>1. u \in ToSet(parents[p])
        BY DEF AdmitsMove
    <2> QED
        BY <2>1, ListedAbove DEF AtOrAbove, Rows, TreeInv, Sound
<1> QED
    BY <1>1, TreeInvInit, TreeInvStep, AloneInit, AloneStep, PTL DEF TreeSpec

\* One goroutine is enough for all of it.
COROLLARY OneMover ==
    ASSUME NEW only, Sessions = {only}
    PROVE  TreeSpec => /\ []ParentsArePath /\ []CommittedForest /\ []RefusedForAReason
                       /\ ImplementsHierarchy /\ MoveRewrites
<1>1. NoOverlap
    BY DEF NoOverlap
<1> QED
    BY <1>1, PathsKept, AloneCommittedForest, RefusalsJustified, MovesImplementHierarchy,
       BranchRewritten, PTL

=============================================================================
