--------------------------- MODULE JsonTreeProofs ---------------------------
(* Proofs about JsonTree: whatever a program does with its documents, links *)
(* and indices agree with the tree, and the path of a node leads to it.     *)
EXTENDS JsonTree, FiniteSetTheorems, WellFoundedInduction, TLAPS

(***************************************************************************)
(* The inductive invariant                                                 *)
(***************************************************************************)

IsNode(r) ==
  r = [type |-> r.type, key |-> r.key, val |-> r.val, ndx |-> r.ndx,
       parent |-> r.parent, children |-> r.children]

\* A heap is a finite function on addresses, and no child is dangling.
Formed(h) ==
  /\ h = [m \in DOMAIN h |-> h[m]]
  /\ DOMAIN h \subseteq Nat /\ IsFiniteSet(DOMAIN h)
  /\ \A m \in DOMAIN h : IsNode(h[m]) /\ h[m].children \in Seq(DOMAIN h)

\* Children and parents know each other.
Linked(h) ==
  \A m \in DOMAIN h :
    /\ \A i \in 1..Size(h, m) : h[h[m].children[i]].parent = m /\ h[h[m].children[i]].ndx = i - 1
    /\ Size(h, m) > 0 => h[m].type \in Structured
    /\ ~IsTop(h, m) => /\ h[m].parent \in DOMAIN h
                       /\ \E i \in 1..Size(h, h[m].parent) : h[h[m].parent].children[i] = m

\* Who goes up from a node comes to a top: among any nodes there is one whose
\* parent is not among them.
Grounded(h) == \A S \in SUBSET DOMAIN h : S # {} => \E m \in S : h[m].parent \notin S

KeyAt(h, m, i) == h[h[m].children[i]].key

\* Numbers are written differently, and no name is written like a number.
Written == /\ \A i, j \in Nat : ToString(i) = ToString(j) => i = j
           /\ \A i \in Nat, a \in Names : ToString(i) # a

\* The elements of an array have their index as key, but those that were added
\* by a name, which is the key of no other.
Numbered(h) ==
  Written =>
    \A m \in DOMAIN h : h[m].type = "Array" =>
      \A i \in 1..Size(h, m) :
        \/ KeyAt(h, m, i) = ToString(i - 1)
        \/ /\ KeyAt(h, m, i) \in Names
           /\ \A j \in 1..Size(h, m) : KeyAt(h, m, j) = KeyAt(h, m, i) => j = i

Good(h) == Formed(h) /\ Linked(h) /\ Grounded(h) /\ Numbered(h)

TreeInv == Good(node)

(***************************************************************************)
(* Numbers                                                                 *)
(***************************************************************************)

\* Induction, of a set of numbers.
LEMMA NatSet ==
  ASSUME NEW S, 0 \in S, \A k \in Nat : k \in S => k + 1 \in S
  PROVE  Nat \subseteq S
<1> SUFFICES ASSUME NEW T, T = Nat \ S, T # {} PROVE FALSE
  OBVIOUS
<1>1. IsWellFoundedOn(OpToRel(<, Nat), Nat)
  BY NatLessThanWellFounded, Zenon
<1>2. PICK x \in T : \A y \in T : ~ (<<y, x>> \in OpToRel(<, Nat))
  BY <1>1, WFMin, Zenon
<1>3. \A y \in Nat : y < x => <<y, x>> \in OpToRel(<, Nat)
  BY DEF OpToRel
<1>4. \A y \in Nat : y < x => y \in S
  BY <1>2, <1>3
<1>5. x # 0 /\ x - 1 \in Nat /\ x - 1 < x /\ x - 1 \in S
  BY <1>4
<1> QED BY <1>5

LEMMA Joined ==
  ASSUME NEW S, NEW a \in Seq(S), NEW b \in Seq(S)
  PROVE  a \o b \in Seq(S) /\ Len(a \o b) = Len(a) + Len(b)
OBVIOUS

LEMMA MinIs ==
  ASSUME NEW S \in SUBSET Nat, S # {}
  PROVE  Min(S) \in S /\ \A x \in S : Min(S) <= x
<1>1. IsWellFoundedOn(OpToRel(<, Nat), Nat)
  BY NatLessThanWellFounded, Zenon
<1>2. PICK x \in S : \A y \in S : ~ (<<y, x>> \in OpToRel(<, Nat))
  BY <1>1, WFMin, Zenon
<1>3. \A y \in Nat : y < x => <<y, x>> \in OpToRel(<, Nat)
  BY DEF OpToRel
<1>4. \A y \in S : ~(y < x)
  BY <1>2, <1>3
<1>5. \A y \in S : x <= y
  BY <1>4
<1> QED BY <1>5 DEF Min

LEMMA FreeNodesAre ==
  ASSUME NEW h, DOMAIN h \subseteq Nat, IsFiniteSet(DOMAIN h), NEW k \in Nat
  PROVE  /\ FreeNodes(h, k) \subseteq Nat \ DOMAIN h /\ IsFiniteSet(FreeNodes(h, k))
         /\ Cardinality(FreeNodes(h, k)) >= k
<1> DEFINE all == 1..(Cardinality(DOMAIN h) + k)
<1>1. Cardinality(DOMAIN h) \in Nat
  BY FS_CardinalityType
<1>2. IsFiniteSet(all) /\ Cardinality(all) = Cardinality(DOMAIN h) + k /\ all \subseteq Nat
  <2>1. PICK c \in Nat : c = Cardinality(DOMAIN h) + k
    BY <1>1
  <2>2. IsFiniteSet(1..c) /\ Cardinality(1..c) = c
    BY FS_Interval
  <2> QED BY <2>1, <2>2
<1> HIDE DEF all
<1>3. /\ IsFiniteSet(all \ DOMAIN h)
      /\ Cardinality(all \ DOMAIN h) = Cardinality(all) - Cardinality(all \cap DOMAIN h)
  BY <1>2, FS_Difference
<1>4. Cardinality(all \cap DOMAIN h) <= Cardinality(DOMAIN h) /\ Cardinality(all \cap DOMAIN h) \in Nat
  BY FS_Intersection, FS_CardinalityType
<1> QED BY <1>1, <1>2, <1>3, <1>4 DEF FreeNodes, all

LEMMA NewNodeIs ==
  ASSUME NEW h, Formed(h)
  PROVE  NewNode(h) \in Nat \ DOMAIN h /\ NewNode(h) # NoNode
<1>1. FreeNodes(h, 1) \subseteq Nat \ DOMAIN h /\ FreeNodes(h, 1) # {}
  <2>1. /\ FreeNodes(h, 1) \subseteq Nat \ DOMAIN h /\ IsFiniteSet(FreeNodes(h, 1))
        /\ Cardinality(FreeNodes(h, 1)) >= 1
    BY FreeNodesAre DEF Formed
  <2> QED BY <2>1, FS_EmptySet
<1> QED BY <1>1, MinIs, NoNodeAssumption DEF NewNode

(***************************************************************************)
(* What is below a node                                                    *)
(***************************************************************************)

LEMMA ChildrenAre ==
  ASSUME NEW h, Formed(h), NEW m \in DOMAIN h
  PROVE  /\ Size(h, m) \in Nat /\ DOMAIN h[m].children = 1..Size(h, m)
         /\ \A i \in 1..Size(h, m) : h[m].children[i] \in DOMAIN h
<1>1. PICK c \in Seq(DOMAIN h) : c = h[m].children
  BY DEF Formed
<1>2. Len(c) \in Nat /\ DOMAIN c = 1..Len(c) /\ \A i \in 1..Len(c) : c[i] \in DOMAIN h
  OBVIOUS
<1> QED BY <1>1, <1>2 DEF Size

LEMMA ToSetIs ==
  ASSUME NEW h, Formed(h), NEW m \in DOMAIN h, NEW x
  PROVE  x \in ToSet(h[m].children) <=> \E i \in 1..Size(h, m) : x = h[m].children[i]
BY ChildrenAre DEF ToSet

Closed(h, S) == \A m \in S : \A i \in 1..Size(h, m) : h[m].children[i] \in S

Goes(h, n, N, d) ==
  d[0] = {n} /\ Below(h, n) = d[N] /\ \A k \in 1..N : d[k] = Deeper(h, d[k - 1])

\* The recursive function of Below: it exists, and goes down step by step.
LEMMA DownIs ==
  ASSUME NEW h, NEW n, NEW N \in Nat, N = Cardinality(DOMAIN h)
  PROVE  \E d : Goes(h, n, N, d)
<1> DEFINE Rec(j, g) == g = [k \in 0..j |-> IF k = 0 THEN {n} ELSE Deeper(h, g[k - 1])]
<1> DEFINE S == {j \in Nat : \E g : Rec(j, g)}
<1>1. 0 \in S
  <2>1. Rec(0, [k \in 0..0 |-> {n}])
    OBVIOUS
  <2> QED BY <2>1
<1>2. ASSUME NEW j \in Nat, j \in S PROVE j + 1 \in S
  <2>1. PICK g : Rec(j, g)
    BY <1>2
  <2>2. \A k \in 0..j : g[k] = IF k = 0 THEN {n} ELSE Deeper(h, g[k - 1])
    BY <2>1
  <2>3. PICK f : f = [k \in 0..(j + 1) |-> IF k <= j THEN g[k] ELSE Deeper(h, g[j])]
    OBVIOUS
  <2>4. \A k \in 0..j : f[k] = g[k]
    BY <2>3
  <2>5. f[j + 1] = Deeper(h, g[j])
    BY <2>3
  <2>6. \A k \in 0..(j + 1) : f[k] = IF k = 0 THEN {n} ELSE Deeper(h, f[k - 1])
    <3> TAKE k \in 0..(j + 1)
    <3>1. CASE k = j + 1
      BY <3>1, <2>4, <2>5
    <3>2. CASE k # j + 1
      <4>1. k \in 0..j /\ (k # 0 => k - 1 \in 0..j)
        BY <3>2
      <4> QED BY <4>1, <2>2, <2>4
    <3> QED BY <3>1, <3>2
  <2>7. f = [k \in 0..(j + 1) |-> f[k]]
    BY <2>3
  <2>8. Rec(j + 1, f)
    BY <2>6, <2>7
  <2> QED BY <2>8
<1>3. \E g : Rec(N, g)
  <2> HIDE DEF Rec
  <2>1. N \in S
    <3> HIDE DEF S
    <3> QED BY <1>1, <1>2, NatSet
  <2> QED BY <2>1
<1> DEFINE d == CHOOSE g : Rec(N, g)
<1>4. Rec(N, d)
  <2> HIDE DEF Rec
  <2> QED BY <1>3
<1>5. Below(h, n) = d[N]
  BY DEF Below
<1> HIDE DEF d
<1>6. \A k \in 0..N : d[k] = IF k = 0 THEN {n} ELSE Deeper(h, d[k - 1])
  BY <1>4
<1>7. d[0] = {n} /\ \A k \in 1..N : d[k] = Deeper(h, d[k - 1])
  BY <1>6
<1> QED BY <1>5, <1>7 DEF Goes

\* What is below n: n, and all it reaches through children, and no more.
LEMMA BelowIs ==
  ASSUME NEW h, Formed(h), NEW n \in DOMAIN h
  PROVE  /\ n \in Below(h, n) /\ Below(h, n) \subseteq DOMAIN h
         /\ Closed(h, Below(h, n))
         /\ \A S : n \in S /\ Closed(h, S) => Below(h, n) \subseteq S
<1>0. PICK N \in Nat : N = Cardinality(DOMAIN h)
  BY FS_CardinalityType DEF Formed
<1>1. PICK d : d[0] = {n} /\ Below(h, n) = d[N] /\ \A k \in 1..N : d[k] = Deeper(h, d[k - 1])
  <2>1. \E d : Goes(h, n, N, d)
    BY <1>0, DownIs
  <2> QED BY <2>1 DEF Goes
<1>2. ASSUME NEW S, n \in S, S \subseteq DOMAIN h, Closed(h, S)
      PROVE  \A k \in 0..N : d[k] \subseteq S
  <2> DEFINE T == {k \in Nat : k <= N => d[k] \subseteq S}
  <2>1. 0 \in T
    BY <1>1, <1>2
  <2>2. ASSUME NEW k \in Nat, k \in T PROVE k + 1 \in T
    <3>1. SUFFICES ASSUME k + 1 <= N PROVE d[k + 1] \subseteq S
      OBVIOUS
    <3>2. d[k + 1] = Deeper(h, d[k]) /\ d[k] \subseteq S
      BY <3>1, <2>2, <1>1
    <3>3. \A m \in S : ToSet(h[m].children) \subseteq S
      <4> TAKE m \in S
      <4>1. m \in DOMAIN h /\ \A i \in 1..Size(h, m) : h[m].children[i] \in S
        BY <1>2 DEF Closed
      <4>2. ASSUME NEW x \in ToSet(h[m].children) PROVE x \in S
        <5>1. PICK i \in 1..Size(h, m) : x = h[m].children[i]
          BY <4>1, ToSetIs
        <5> QED BY <4>1, <5>1
      <4> QED BY <4>2
    <3> QED BY <3>2, <3>3 DEF Deeper
  <2> HIDE DEF T
  <2>3. Nat \subseteq T
    BY <2>1, <2>2, NatSet
  <2> QED BY <2>3 DEF T
<1>3. \A k \in 0..N : d[k] \subseteq DOMAIN h
  <2>1. Closed(h, DOMAIN h)
    BY DEF Closed, Formed, Size
  <2> QED BY <2>1, <1>2
<1>4. \A k \in 0..N : n \in d[k]
  <2> DEFINE T == {k \in Nat : k <= N => n \in d[k]}
  <2>1. 0 \in T
    BY <1>1
  <2>2. ASSUME NEW k \in Nat, k \in T PROVE k + 1 \in T
    BY <2>2, <1>1 DEF Deeper
  <2> HIDE DEF T
  <2>3. Nat \subseteq T
    BY <2>1, <2>2, NatSet
  <2> QED BY <2>3 DEF T
<1>5. Deeper(h, d[N]) = d[N]
  <2>1. SUFFICES ASSUME Deeper(h, d[N]) # d[N] PROVE FALSE
    OBVIOUS
  <2>2. ASSUME NEW k \in 0..N, Deeper(h, d[k]) = d[k] PROVE FALSE
    <3> DEFINE T == {j \in Nat : k + j <= N => d[k + j] = d[k]}
    <3>1. 0 \in T
      OBVIOUS
    <3>2. ASSUME NEW j \in Nat, j \in T PROVE j + 1 \in T
      <4>1. SUFFICES ASSUME k + (j + 1) <= N PROVE d[k + (j + 1)] = d[k]
        OBVIOUS
      <4>2. k + (j + 1) \in 1..N /\ k + (j + 1) - 1 = k + j
        BY <4>1
      <4>3. d[k + (j + 1)] = Deeper(h, d[k + j])
        BY <4>2, <1>1
      <4> QED BY <4>1, <4>3, <3>2, <2>2
    <3> HIDE DEF T
    <3>3. N - k \in T
      BY <3>1, <3>2, NatSet
    <3> QED BY <3>3, <2>1, <2>2 DEF T
  <2>3. ASSUME NEW k \in 0..N PROVE IsFiniteSet(d[k]) /\ Cardinality(d[k]) \in Nat
    BY <1>3, FS_Subset, FS_CardinalityType DEF Formed
  <2>4. ASSUME NEW k \in 1..N PROVE Cardinality(d[k]) > Cardinality(d[k - 1])
    <3>1. d[k - 1] \subseteq d[k] /\ d[k - 1] # d[k]
      <4>1. d[k] = Deeper(h, d[k - 1]) /\ k - 1 \in 0..N
        BY <1>1
      <4> QED BY <4>1, <2>2 DEF Deeper
    <3>2. k \in 0..N /\ k - 1 \in 0..N
      OBVIOUS
    <3>3. Cardinality(d[k - 1]) <= Cardinality(d[k]) /\ Cardinality(d[k - 1]) # Cardinality(d[k])
      BY <3>1, <3>2, <2>3, FS_Subset
    <3> QED BY <3>2, <3>3, <2>3
  <2> DEFINE T == {k \in Nat : k <= N => Cardinality(d[k]) >= k + 1}
  <2>5. 0 \in T
    <3>1. Cardinality({n}) = 1
      BY FS_Singleton
    <3> QED BY <3>1, <1>1
  <2>6. ASSUME NEW k \in Nat, k \in T PROVE k + 1 \in T
    <3>1. SUFFICES ASSUME k + 1 <= N PROVE Cardinality(d[k + 1]) >= k + 2
      OBVIOUS
    <3>2. k + 1 \in 1..N /\ k + 1 - 1 = k /\ k \in 0..N /\ k + 1 \in 0..N
      BY <3>1
    <3>3. Cardinality(d[k + 1]) > Cardinality(d[k])
      BY <3>2, <2>4
    <3>4. Cardinality(d[k]) >= k + 1
      BY <2>6, <3>2
    <3> QED BY <3>2, <3>3, <3>4, <2>3
  <2> HIDE DEF T
  <2>7. N \in T
    BY <2>5, <2>6, NatSet
  <2>8. Cardinality(d[N]) >= N + 1
    BY <2>7 DEF T
  <2>9. Cardinality(d[N]) <= N
    BY <1>0, <1>3, FS_Subset DEF Formed
  <2> QED BY <2>3, <2>8, <2>9
<1>6. Closed(h, d[N])
  <2>1. \A m \in d[N] : ToSet(h[m].children) \subseteq d[N]
    BY <1>5 DEF Deeper
  <2> SUFFICES ASSUME NEW m \in d[N] PROVE \A i \in 1..Size(h, m) : h[m].children[i] \in d[N]
    BY DEF Closed
  <2>2. m \in DOMAIN h
    BY <1>3
  <2> QED BY <2>1, <2>2, ToSetIs
<1>7. ASSUME NEW S, n \in S, Closed(h, S) PROVE d[N] \subseteq S
  <2>1. Closed(h, S \cap DOMAIN h)
    BY <1>7 DEF Closed, Formed, Size
  <2> QED BY <2>1, <1>2, <1>7
<1> QED BY <1>1, <1>3, <1>4, <1>6, <1>7

LEMMA FindKeyIs ==
  ASSUME NEW h, Formed(h), NEW n \in DOMAIN h, NEW key
  PROVE  /\ FindKey(h, n, key) \in 0..Size(h, n)
         /\ FindKey(h, n, key) # 0 => h[h[n].children[FindKey(h, n, key)]].key = key
         /\ FindKey(h, n, key) = 0 => \A i \in 1..Size(h, n) : h[h[n].children[i]].key # key
<1>1. PICK c \in Seq(DOMAIN h) : c = h[n].children
  BY DEF Formed
<1>2. PICK I : I = {i \in 1..Len(c) : h[c[i]].key = key}
  OBVIOUS
<1>3. FindKey(h, n, key) = IF I # {} THEN Min(I) ELSE 0
  BY <1>1, <1>2 DEF FindKey, SelectInSeq
<1>4. I \in SUBSET Nat /\ Len(c) \in Nat
  BY <1>2
<1>5. I # {} => Min(I) \in I
  BY <1>4, MinIs
<1>6. \A i \in I : i \in 1..Len(c) /\ h[c[i]].key = key
  BY <1>2
<1>7. \A i \in 1..Len(c) : h[c[i]].key = key => i \in I
  BY <1>2
<1>8. PICK k : k = FindKey(h, n, key)
  OBVIOUS
<1>9. CASE I # {}
  <2>1. k \in 1..Len(c) /\ h[c[k]].key = key
    BY <1>3, <1>5, <1>6, <1>8, <1>9
  <2>2. k # 0 /\ k \in 0..Len(c)
    BY <2>1
  <2> QED BY <2>1, <2>2, <1>1, <1>8 DEF Size
<1>10. CASE I = {}
  <2>1. k = 0 /\ k \in 0..Len(c) /\ \A i \in 1..Len(c) : h[c[i]].key # key
    BY <1>3, <1>4, <1>7, <1>8, <1>10
  <2> QED BY <2>1, <1>1, <1>8 DEF Size
<1> QED BY <1>9, <1>10

\* A tree: below a node only the node itself has its parent elsewhere.
LEMMA BelowTree ==
  ASSUME NEW h, Good(h), NEW n \in DOMAIN h
  PROVE  /\ \A m \in Below(h, n) \ {n} : h[m].parent \in Below(h, n)
         /\ h[n].parent \notin Below(h, n)
         /\ \A m \in DOMAIN h \ Below(h, n) : \A i \in 1..Size(h, m) :
               h[m].children[i] \notin Below(h, n) \ {n}
<1>1. PICK B : B = Below(h, n)
  OBVIOUS
<1>2. n \in B /\ B \subseteq DOMAIN h /\ Closed(h, B) /\ \A S : n \in S /\ Closed(h, S) => B \subseteq S
  BY <1>1, BelowIs DEF Good
<1>3. \A m \in B \ {n} : h[m].parent \in B
  <2> DEFINE S == {m \in B : m = n \/ h[m].parent \in B}
  <2>1. n \in S
    BY <1>2
  <2>2. Closed(h, S)
    BY <1>2 DEF Closed, Good, Linked
  <2> HIDE DEF S
  <2>3. B \subseteq S
    BY <1>2, <2>1, <2>2
  <2> QED BY <2>3 DEF S
<1>4. h[n].parent \notin B
  BY <1>2, <1>3 DEF Good, Grounded
<1>5. ASSUME NEW m \in DOMAIN h \ B, NEW i \in 1..Size(h, m) PROVE h[m].children[i] \notin B \ {n}
  <2>1. h[h[m].children[i]].parent = m
    BY DEF Good, Linked
  <2> QED BY <2>1, <1>3
<1> QED BY <1>1, <1>3, <1>4, <1>5

LEMMA ChildrenDiffer ==
  ASSUME NEW h, Linked(h), NEW m \in DOMAIN h, NEW i \in 1..Size(h, m), NEW j \in 1..Size(h, m),
         h[m].children[i] = h[m].children[j]
  PROVE  i = j
<1>1. h[h[m].children[i]].ndx = i - 1 /\ h[h[m].children[j]].ndx = j - 1
  BY DEF Linked
<1> QED BY <1>1

LEMMA NoChildrenBelow ==
  ASSUME NEW h, Formed(h), NEW n \in DOMAIN h, h[n].children = <<>>
  PROVE  Below(h, n) = {n}
<1>1. Closed(h, {n})
  BY DEF Closed, Size
<1> QED BY <1>1, BelowIs

\* Some nodes are dropped, with all that is below them, and the others keep
\* their parents.
LEMMA GroundedCut ==
  ASSUME NEW h, NEW g, Grounded(h), DOMAIN g \subseteq DOMAIN h,
         \A m \in DOMAIN g : g[m].parent = h[m].parent
  PROVE  Grounded(g)
<1> SUFFICES ASSUME NEW S \in SUBSET DOMAIN g, S # {} PROVE \E m \in S : g[m].parent \notin S
  BY DEF Grounded
<1>1. PICK m \in S : h[m].parent \notin S
  BY DEF Grounded
<1> QED BY <1>1

\* Every array has the first keys that one had before.
LEMMA NumberedKept ==
  ASSUME NEW h, Numbered(h), NEW g,
         \A m \in DOMAIN g : g[m].type = "Array" =>
           \/ Size(g, m) = 0
           \/ \E k \in DOMAIN h : /\ h[k].type = "Array" /\ 1..Size(g, m) \subseteq 1..Size(h, k)
                                  /\ \A i \in 1..Size(g, m) : KeyAt(g, m, i) = KeyAt(h, k, i)
  PROVE  Numbered(g)
<1> SUFFICES ASSUME Written, NEW m \in DOMAIN g, g[m].type = "Array", NEW i \in 1..Size(g, m)
             PROVE  \/ KeyAt(g, m, i) = ToString(i - 1)
                    \/ /\ KeyAt(g, m, i) \in Names
                       /\ \A j \in 1..Size(g, m) : KeyAt(g, m, j) = KeyAt(g, m, i) => j = i
  BY DEF Numbered
<1>1. Size(g, m) # 0
  OBVIOUS
<1>2. PICK k \in DOMAIN h : /\ h[k].type = "Array" /\ 1..Size(g, m) \subseteq 1..Size(h, k)
                            /\ \A j \in 1..Size(g, m) : KeyAt(g, m, j) = KeyAt(h, k, j)
  BY <1>1
<1>3. \/ KeyAt(h, k, i) = ToString(i - 1)
      \/ /\ KeyAt(h, k, i) \in Names
         /\ \A j \in 1..Size(h, k) : KeyAt(h, k, j) = KeyAt(h, k, i) => j = i
  BY <1>2 DEF Numbered
<1> QED BY <1>2, <1>3

(***************************************************************************)
(* update_node and clear                                                   *)
(***************************************************************************)

\* g is h with the children of n dropped.
Updated(h, n, t, v, g) ==
  /\ DOMAIN g = DOMAIN h \ (Below(h, n) \ {n}) /\ g = [m \in DOMAIN g |-> g[m]]
  /\ \A m \in DOMAIN g \ {n} : g[m] = h[m]
  /\ g[n] = [type |-> t, key |-> h[n].key, val |-> v, ndx |-> h[n].ndx,
             parent |-> h[n].parent, children |-> <<>>]

LEMMA UpdateNodeIs ==
  ASSUME NEW h, Formed(h), NEW n \in DOMAIN h, NEW t, NEW v
  PROVE  Updated(h, n, t, v, UpdateNode(h, n, t, v))
<1>0. PICK g : g = UpdateNode(h, n, t, v)
  OBVIOUS
<1>1. PICK D : D = DOMAIN h \ (Below(h, n) \ {n})
  OBVIOUS
<1>2. PICK f : f = [m \in D |-> h[m]]
  OBVIOUS
<1>3. ChildrenDropped(h, n) = f
  BY <1>1, <1>2 DEF ChildrenDropped, Dropped, Restrict
<1>4. n \in D
  BY <1>1
<1>5. PICK r : r = h[n] /\ IsNode(r)
  BY DEF Formed
<1>6. g = [f EXCEPT ![n] = [r EXCEPT !.type = t, !.val = v, !.children = <<>>]]
  BY <1>0, <1>2, <1>3, <1>4, <1>5 DEF UpdateNode
<1>7. [r EXCEPT !.type = t, !.val = v, !.children = <<>>]
        = [type |-> t, key |-> r.key, val |-> v, ndx |-> r.ndx, parent |-> r.parent, children |-> <<>>]
  <2>1. PICK x : x = [r EXCEPT !.type = t]
    OBVIOUS
  <2>2. x = [type |-> t, key |-> r.key, val |-> r.val, ndx |-> r.ndx, parent |-> r.parent,
             children |-> r.children]
    BY <1>5, <2>1 DEF IsNode
  <2>3. PICK y : y = [x EXCEPT !.val = v]
    OBVIOUS
  <2>4. y = [type |-> t, key |-> r.key, val |-> v, ndx |-> r.ndx, parent |-> r.parent,
             children |-> r.children]
    BY <2>2, <2>3
  <2>5. PICK z : z = [y EXCEPT !.children = <<>>]
    OBVIOUS
  <2>6. z = [type |-> t, key |-> r.key, val |-> v, ndx |-> r.ndx, parent |-> r.parent, children |-> <<>>]
    BY <2>4, <2>5
  <2>7. [r EXCEPT !.type = t, !.val = v, !.children = <<>>] = z
    BY <2>1, <2>3, <2>5
  <2> QED BY <2>6, <2>7
<1> QED BY <1>0, <1>1, <1>2, <1>4, <1>5, <1>6, <1>7 DEF Updated

LEMMA UpdatedFields ==
  ASSUME NEW h, NEW n, NEW t, NEW v, NEW g, Updated(h, n, t, v, g)
  PROVE  g[n].type = t /\ g[n].parent = h[n].parent /\ g[n].children = <<>>
BY DEF Updated

LEMMA UpdateNodeGood ==
  ASSUME NEW h, Good(h), NEW n \in DOMAIN h, NEW t, NEW v
  PROVE  Good(UpdateNode(h, n, t, v)) /\ n \in DOMAIN UpdateNode(h, n, t, v)
<1>1. PICK g : g = UpdateNode(h, n, t, v)
  OBVIOUS
<1>2. PICK B : B = Below(h, n)
  OBVIOUS
<1>3. /\ DOMAIN g = DOMAIN h \ (B \ {n}) /\ g = [m \in DOMAIN g |-> g[m]]
      /\ \A m \in DOMAIN g \ {n} : g[m] = h[m]
      /\ g[n] = [type |-> t, key |-> h[n].key, val |-> v, ndx |-> h[n].ndx,
                 parent |-> h[n].parent, children |-> <<>>]
  <2>1. Updated(h, n, t, v, g)
    BY <1>1, UpdateNodeIs DEF Good
  <2> QED BY <1>2, <2>1 DEF Updated
<1>4. /\ \A m \in DOMAIN g \ {n} : \A i \in 1..Size(h, m) : h[m].children[i] \in DOMAIN g
      /\ \A m \in DOMAIN g : h[m].parent \notin B \ {n}
  <2>1. /\ n \in B /\ Closed(h, B)
        /\ \A m \in B \ {n} : h[m].parent \in B
        /\ h[n].parent \notin B
        /\ \A m \in DOMAIN h \ B : \A i \in 1..Size(h, m) : h[m].children[i] \notin B \ {n}
    BY <1>2, BelowIs, BelowTree DEF Good
  <2>2. \A m \in DOMAIN g \ {n} : \A i \in 1..Size(h, m) : h[m].children[i] \in DOMAIN g
    BY <1>3, <2>1, ChildrenAre DEF Good
  <2>3. ASSUME NEW m \in DOMAIN g, h[m].parent \in B \ {n} PROVE FALSE
    <3>1. m # n /\ m \notin B
      BY <1>3, <2>1, <2>3
    <3>2. h[m].parent # NoNode
      BY <2>3, BelowIs, <1>2, NoNodeAssumption DEF Good, Formed
    <3>3. PICK i \in 1..Size(h, h[m].parent) : h[h[m].parent].children[i] = m
      BY <3>2, <1>3 DEF Good, Linked, IsTop
    <3> QED BY <3>1, <3>3, <2>1, <2>3 DEF Closed
  <2> QED BY <2>2, <2>3
<1>5. Formed(g)
  <2>1. DOMAIN g \subseteq Nat /\ IsFiniteSet(DOMAIN g)
    BY <1>3, FS_Subset DEF Good, Formed
  <2>2. ASSUME NEW m \in DOMAIN g \ {n} PROVE IsNode(g[m]) /\ g[m].children \in Seq(DOMAIN g)
    <3>1. IsNode(h[m]) /\ h[m].children \in Seq(DOMAIN h)
      BY <1>3 DEF Good, Formed
    <3> QED BY <3>1, <1>3, <1>4 DEF Size
  <2>3. IsNode(g[n]) /\ g[n].children \in Seq(DOMAIN g)
    BY <1>3 DEF IsNode
  <2> QED BY <1>3, <2>1, <2>2, <2>3 DEF Formed
<1>6. Linked(g)
  <2>1. n \in DOMAIN g
    BY <1>3
  <2>2. \A m \in DOMAIN g : g[m].parent = h[m].parent /\ g[m].ndx = h[m].ndx
    BY <1>3
  <2>3. ASSUME NEW m \in DOMAIN g, ~IsTop(g, m)
        PROVE  /\ g[m].parent \in DOMAIN g
               /\ \E i \in 1..Size(g, g[m].parent) : g[g[m].parent].children[i] = m
    <3>1. h[m].parent \in DOMAIN h /\ \E i \in 1..Size(h, h[m].parent) : h[h[m].parent].children[i] = m
      BY <1>3, <2>2, <2>3 DEF Good, Linked, IsTop
    <3>2. h[m].parent \in DOMAIN g /\ h[m].parent # n
      <4>1. h[m].parent # n
        <5>1. SUFFICES ASSUME h[m].parent = n PROVE FALSE
          OBVIOUS
        <5>2. m \in B
          BY <3>1, <5>1, <1>2, BelowIs DEF Good, Closed
        <5>3. m = n
          BY <5>2, <1>3
        <5> QED BY <5>1, <5>3, <1>2, BelowTree, BelowIs DEF Good
      <4> QED BY <4>1, <3>1, <1>3, <1>4
    <3> QED BY <3>1, <3>2, <2>2, <1>3 DEF Size
  <2>4. ASSUME NEW m \in DOMAIN g \ {n}
        PROVE  /\ \A i \in 1..Size(g, m) : g[g[m].children[i]].parent = m /\ g[g[m].children[i]].ndx = i - 1
               /\ Size(g, m) > 0 => g[m].type \in Structured
    <3>1. g[m] = h[m] /\ Size(g, m) = Size(h, m)
      BY <1>3 DEF Size
    <3>2. /\ \A i \in 1..Size(h, m) : h[h[m].children[i]].parent = m /\ h[h[m].children[i]].ndx = i - 1
          /\ Size(h, m) > 0 => h[m].type \in Structured
      BY <1>3 DEF Good, Linked
    <3> QED BY <3>1, <3>2, <1>4, <2>2
  <2>5. Size(g, n) = 0
    BY <1>3 DEF Size
  <2> QED BY <2>3, <2>4, <2>5 DEF Linked
<1>7. Grounded(g)
  BY <1>3, GroundedCut DEF Good
<1>8. Numbered(g)
  <2>1. \A m \in DOMAIN g : g[m].key = h[m].key
    BY <1>3
  <2>2. ASSUME NEW m \in DOMAIN g \ {n}
        PROVE  /\ m \in DOMAIN h /\ g[m].type = h[m].type /\ Size(g, m) = Size(h, m)
               /\ \A i \in 1..Size(g, m) : KeyAt(g, m, i) = KeyAt(h, m, i)
    BY <2>1, <1>3, <1>4 DEF Size, KeyAt
  <2>3. Size(g, n) = 0
    BY <1>3 DEF Size
  <2> QED BY <2>2, <2>3, NumberedKept DEF Good
<1> QED BY <1>1, <1>3, <1>5, <1>6, <1>7, <1>8 DEF Good

(***************************************************************************)
(* New nodes                                                               *)
(***************************************************************************)

\* g is h and a new top r.
WithTop(h, r, g) == Good(g) /\ DOMAIN g = DOMAIN h \cup {NewNode(h)} /\ g[NewNode(h)] = r

LEMMA TopGood ==
  ASSUME NEW h, Good(h), NEW r, IsNode(r), r.parent = NoNode, r.children = <<>>
  PROVE  WithTop(h, r, Added(h, NewNode(h), r))
<1>0. PICK g : g = Added(h, NewNode(h), r)
  OBVIOUS
<1>1. PICK m : m = NewNode(h)
  OBVIOUS
<1>2. m \in Nat /\ m \notin DOMAIN h /\ m # NoNode
  BY <1>1, NewNodeIs DEF Good
<1>3. DOMAIN g = DOMAIN h \cup {m} /\ g = [k \in DOMAIN g |-> g[k]]
  BY <1>0, <1>1 DEF Added
<1>4. g[m] = r /\ \A k \in DOMAIN h : g[k] = h[k]
  BY <1>0, <1>1, <1>2 DEF Added
<1>5. Formed(g)
  <2>1. DOMAIN g \subseteq Nat /\ IsFiniteSet(DOMAIN g)
    BY <1>2, <1>3, FS_AddElement DEF Good, Formed
  <2>2. ASSUME NEW k \in DOMAIN h PROVE IsNode(g[k]) /\ g[k].children \in Seq(DOMAIN g)
    BY <1>3, <1>4 DEF Good, Formed
  <2>3. IsNode(g[m]) /\ g[m].children \in Seq(DOMAIN g)
    <3>1. g[m] = r /\ g[m].children = <<>>
      BY <1>4
    <3>2. <<>> \in Seq(DOMAIN g)
      OBVIOUS
    <3>3. IsNode(g[m])
      BY <3>1, Zenon
    <3> QED BY <3>1, <3>2, <3>3, Zenon
  <2>4. \A k \in DOMAIN g : IsNode(g[k]) /\ g[k].children \in Seq(DOMAIN g)
    BY <1>3, <2>2, <2>3
  <2> QED BY <1>3, <2>1, <2>4 DEF Formed
<1>6. Linked(g)
  <2>1. ASSUME NEW k \in DOMAIN h
        PROVE  /\ \A i \in 1..Size(g, k) : g[g[k].children[i]].parent = k /\ g[g[k].children[i]].ndx = i - 1
               /\ Size(g, k) > 0 => g[k].type \in Structured
               /\ ~IsTop(g, k) => /\ g[k].parent \in DOMAIN g
                                  /\ \E i \in 1..Size(g, g[k].parent) : g[g[k].parent].children[i] = k
    <3>1. g[k] = h[k] /\ Size(g, k) = Size(h, k)
      BY <1>4 DEF Size
    <3>2. \A i \in 1..Size(h, k) : g[h[k].children[i]] = h[h[k].children[i]]
      BY <1>4, ChildrenAre DEF Good
    <3>3. ~IsTop(h, k) => h[k].parent \in DOMAIN h /\ g[h[k].parent] = h[h[k].parent]
      BY <1>4 DEF Good, Linked
    <3> QED BY <1>3, <3>1, <3>2, <3>3 DEF Good, Linked, IsTop, Size
  <2>2. Size(g, m) = 0 /\ IsTop(g, m)
    BY <1>4 DEF Size, IsTop
  <2> QED BY <1>3, <2>1, <2>2 DEF Linked
<1>7. Grounded(g)
  <2> SUFFICES ASSUME NEW S \in SUBSET DOMAIN g, S # {} PROVE \E k \in S : g[k].parent \notin S
    BY DEF Grounded
  <2>1. CASE m \in S
    BY <1>2, <1>3, <1>4, <2>1, NoNodeAssumption DEF Good, Formed
  <2>2. CASE m \notin S
    <3>1. S \in SUBSET DOMAIN h
      BY <1>3, <2>2
    <3> QED BY <3>1, <1>4 DEF Good, Grounded
  <2> QED BY <2>1, <2>2
<1>8. Numbered(g)
  <2>1. ASSUME NEW k \in DOMAIN h
        PROVE  /\ g[k].type = h[k].type /\ Size(g, k) = Size(h, k)
               /\ \A i \in 1..Size(g, k) : KeyAt(g, k, i) = KeyAt(h, k, i)
    <3>1. \A i \in 1..Size(h, k) : h[k].children[i] \in DOMAIN h
      BY ChildrenAre DEF Good
    <3> QED BY <3>1, <1>4 DEF Size, KeyAt
  <2>2. Size(g, m) = 0
    BY <1>4 DEF Size
  <2> QED BY <2>1, <2>2, <1>3, NumberedKept DEF Good
<1> QED BY <1>0, <1>1, <1>3, <1>4, <1>5, <1>6, <1>7, <1>8 DEF Good, WithTop

\* g is h with a new node behind the children of n.
Extended(h, n, key, t, v, g) ==
  /\ DOMAIN g = DOMAIN h \cup {NewNode(h)} /\ g = [k \in DOMAIN g |-> g[k]]
  /\ \A k \in DOMAIN h \ {n} : g[k] = h[k]
  /\ g[n] = [type |-> h[n].type, key |-> h[n].key, val |-> h[n].val, ndx |-> h[n].ndx,
             parent |-> h[n].parent, children |-> Append(h[n].children, NewNode(h))]
  /\ g[NewNode(h)] = [type |-> t, key |-> key, val |-> v, ndx |-> Size(h, n),
                      parent |-> n, children |-> <<>>]

LEMMA AppendNodeIs ==
  ASSUME NEW h, Formed(h), NEW n \in DOMAIN h, NEW key, NEW t, NEW v
  PROVE  Extended(h, n, key, t, v, AppendNode(h, n, key, t, v))
<1>1. PICK m : m = NewNode(h)
  OBVIOUS
<1>2. m \notin DOMAIN h
  BY <1>1, NewNodeIs
<1>3. PICK r : r = h[n] /\ IsNode(r)
  BY DEF Formed
<1>4. PICK q : q = [r EXCEPT !.children = Append(r.children, m)]
  OBVIOUS
<1>5. q = [type |-> r.type, key |-> r.key, val |-> r.val, ndx |-> r.ndx, parent |-> r.parent,
           children |-> Append(r.children, m)]
  <2>1. PICK c : c = Append(r.children, m)
    OBVIOUS
  <2> QED BY <1>3, <1>4, <2>1 DEF IsNode
<1>6. PICK f : f = [h EXCEPT ![n] = q]
  OBVIOUS
<1>7. DOMAIN f = DOMAIN h /\ f[n] = q /\ \A k \in DOMAIN h \ {n} : f[k] = h[k]
  BY <1>6
<1>8. PICK b : b = [type |-> t, key |-> key, val |-> v, ndx |-> Size(h, n), parent |-> n, children |-> <<>>]
  OBVIOUS
<1>9. AppendNode(h, n, key, t, v) = Added(f, m, b)
  BY <1>1, <1>3, <1>4, <1>6, <1>8 DEF AppendNode
<1>10. PICK g : g = Added(f, m, b)
  OBVIOUS
<1>11. DOMAIN g = DOMAIN h \cup {m} /\ g = [k \in DOMAIN g |-> g[k]]
  BY <1>7, <1>10 DEF Added
<1>12. g[m] = b /\ \A k \in DOMAIN h : g[k] = f[k]
  BY <1>2, <1>7, <1>10 DEF Added
<1> QED BY <1>1, <1>3, <1>5, <1>7, <1>8, <1>9, <1>10, <1>11, <1>12 DEF Extended

\* In an array the key is the next number, or a name that is not there.
Fits(h, n, key) ==
  h[n].type = "Array" => key = NextKey(h, n) \/ (key \in Names /\ FindKey(h, n, key) = 0)

LEMMA AppendNodeGood ==
  ASSUME NEW h, Good(h), NEW n \in DOMAIN h, h[n].type \in Structured,
         NEW key, Fits(h, n, key), NEW t, NEW v
  PROVE  Good(AppendNode(h, n, key, t, v))
<1>0. PICK g : g = AppendNode(h, n, key, t, v)
  OBVIOUS
<1>1. PICK m : m = NewNode(h)
  OBVIOUS
<1>2. m \in Nat /\ m \notin DOMAIN h /\ m # NoNode
  BY <1>1, NewNodeIs DEF Good
<1>3. PICK s \in Nat : s = Size(h, n)
  BY ChildrenAre DEF Good
<1>4. /\ DOMAIN g = DOMAIN h \cup {m} /\ g = [k \in DOMAIN g |-> g[k]]
      /\ \A k \in DOMAIN h \ {n} : g[k] = h[k]
      /\ g[n] = [type |-> h[n].type, key |-> h[n].key, val |-> h[n].val, ndx |-> h[n].ndx,
                 parent |-> h[n].parent, children |-> Append(h[n].children, m)]
      /\ g[m] = [type |-> t, key |-> key, val |-> v, ndx |-> s, parent |-> n, children |-> <<>>]
  <2>1. Extended(h, n, key, t, v, g)
    BY <1>0, AppendNodeIs DEF Good
  <2> QED BY <1>1, <1>3, <2>1 DEF Extended
<1>5. /\ g[n].parent = h[n].parent /\ g[n].ndx = h[n].ndx /\ g[n].type = h[n].type /\ IsNode(g[n])
      /\ g[m].parent = n /\ g[m].ndx = s /\ IsNode(g[m]) /\ Size(g, m) = 0 /\ g[m].children = <<>>
      /\ \A k \in DOMAIN h \ {n} : Size(g, k) = Size(h, k)
  BY <1>4 DEF IsNode, Size
<1>6. /\ Size(g, n) = s + 1 /\ g[n].children[s + 1] = m /\ g[n].children \in Seq(DOMAIN g)
      /\ \A i \in 1..s : g[n].children[i] = h[n].children[i]
  <2>1. PICK c \in Seq(DOMAIN h) : c = h[n].children
    BY DEF Good, Formed
  <2>2. g[n].children = Append(c, m) /\ s = Len(c)
    BY <1>3, <1>4, <2>1 DEF Size
  <2> QED BY <1>4, <2>1, <2>2 DEF Size
<1>7. Formed(g)
  <2>1. DOMAIN g \subseteq Nat /\ IsFiniteSet(DOMAIN g)
    <3>1. DOMAIN h \subseteq Nat /\ IsFiniteSet(DOMAIN h)
      BY DEF Good, Formed
    <3>2. DOMAIN g = DOMAIN h \cup {m}
      BY <1>4
    <3> QED BY <1>2, <3>1, <3>2, FS_AddElement
  <2>2. ASSUME NEW k \in DOMAIN h \ {n} PROVE IsNode(g[k]) /\ g[k].children \in Seq(DOMAIN g)
    BY <1>4 DEF Good, Formed
  <2>3. IsNode(g[m]) /\ g[m].children \in Seq(DOMAIN g)
    BY <1>5
  <2>4. \A k \in DOMAIN g : IsNode(g[k]) /\ g[k].children \in Seq(DOMAIN g)
    BY <1>4, <1>5, <1>6, <2>2, <2>3
  <2>5. g = [k \in DOMAIN g |-> g[k]]
    BY <1>4
  <2> QED BY <2>1, <2>4, <2>5 DEF Formed
<1>8. \A k \in DOMAIN h : g[k].parent = h[k].parent /\ g[k].ndx = h[k].ndx /\ g[k].type = h[k].type
  BY <1>4, <1>5
<1>9. Linked(g)
  <2>1. ASSUME NEW k \in DOMAIN h
        PROVE  ~IsTop(g, k) => /\ g[k].parent \in DOMAIN g
                               /\ \E i \in 1..Size(g, g[k].parent) : g[g[k].parent].children[i] = k
    <3>1. SUFFICES ASSUME h[k].parent # NoNode
                   PROVE  /\ h[k].parent \in DOMAIN h
                          /\ \E i \in 1..Size(g, h[k].parent) : g[h[k].parent].children[i] = k
      BY <1>4, <1>8 DEF IsTop
    <3>2. PICK i \in 1..Size(h, h[k].parent) : h[k].parent \in DOMAIN h /\ h[h[k].parent].children[i] = k
      BY <3>1 DEF Good, Linked, IsTop
    <3>3. CASE h[k].parent = n
      BY <3>2, <3>3, <1>3, <1>6
    <3>4. CASE h[k].parent # n
      BY <3>2, <3>4, <1>4, <1>5
    <3> QED BY <3>2, <3>3, <3>4
  <2>2. ASSUME NEW k \in DOMAIN h \ {n}
        PROVE  /\ \A i \in 1..Size(g, k) : g[g[k].children[i]].parent = k /\ g[g[k].children[i]].ndx = i - 1
               /\ Size(g, k) > 0 => g[k].type \in Structured
    <3>1. g[k] = h[k] /\ Size(g, k) = Size(h, k)
      BY <1>4, <1>5
    <3>2. \A i \in 1..Size(h, k) : h[k].children[i] \in DOMAIN h
      BY ChildrenAre DEF Good
    <3> QED BY <3>1, <3>2, <1>8 DEF Good, Linked
  <2>3. \A i \in 1..Size(g, n) : g[g[n].children[i]].parent = n /\ g[g[n].children[i]].ndx = i - 1
    <3>1. \A i \in 1..s : g[g[n].children[i]].parent = n /\ g[g[n].children[i]].ndx = i - 1
      <4>1. \A i \in 1..s : h[n].children[i] \in DOMAIN h
        BY <1>3, ChildrenAre DEF Good
      <4>2. \A i \in 1..s : h[h[n].children[i]].parent = n /\ h[h[n].children[i]].ndx = i - 1
        BY <1>3 DEF Good, Linked
      <4> QED BY <4>1, <4>2, <1>6, <1>8
    <3>2. g[g[n].children[s + 1]].parent = n /\ g[g[n].children[s + 1]].ndx = (s + 1) - 1
      BY <1>5, <1>6
    <3>3. \A i \in 1..Size(g, n) : i \in 1..s \/ i = s + 1
      BY <1>6
    <3> QED BY <3>1, <3>2, <3>3
  <2>4. \E i \in 1..Size(g, n) : g[n].children[i] = m
    BY <1>6
  <2>5. ASSUME NEW k \in DOMAIN g
        PROVE  /\ \A i \in 1..Size(g, k) : g[g[k].children[i]].parent = k /\ g[g[k].children[i]].ndx = i - 1
               /\ Size(g, k) > 0 => g[k].type \in Structured
               /\ ~IsTop(g, k) => /\ g[k].parent \in DOMAIN g
                                  /\ \E i \in 1..Size(g, g[k].parent) : g[g[k].parent].children[i] = k
    <3>1. CASE k = m
      <4>1. g[k].parent = n /\ n \in DOMAIN g /\ \E i \in 1..Size(g, n) : g[n].children[i] = k
        BY <3>1, <1>4, <1>5, <2>4
      <4>2. Size(g, k) = 0
        BY <3>1, <1>5
      <4> QED BY <4>1, <4>2
    <3>2. CASE k = n
      BY <3>2, <1>5, <2>1, <2>3
    <3>3. CASE k \in DOMAIN h \ {n}
      BY <3>3, <2>1, <2>2
    <3> QED BY <1>4, <3>1, <3>2, <3>3
  <2> QED BY <2>5 DEF Linked
<1>10. Grounded(g)
  <2> SUFFICES ASSUME NEW S \in SUBSET DOMAIN g, S # {} PROVE \E k \in S : g[k].parent \notin S
    BY DEF Grounded
  <2>1. CASE S \ {m} = {}
    BY <1>2, <1>5, <2>1
  <2>2. CASE S \ {m} # {}
    <3>1. S \ {m} \in SUBSET DOMAIN h
      BY <1>4
    <3>2. PICK k \in S \ {m} : h[k].parent \notin S \ {m}
      BY <2>2, <3>1 DEF Good, Grounded
    <3>3. h[k].parent # m
      BY <1>2, <3>1, <3>2 DEF Good, Linked, IsTop
    <3> QED BY <3>1, <3>2, <3>3, <1>8
  <2> QED BY <2>1, <2>2
<1>11. Numbered(g)
  <2> SUFFICES ASSUME Written, NEW k \in DOMAIN g, g[k].type = "Array", NEW i \in 1..Size(g, k)
               PROVE  \/ KeyAt(g, k, i) = ToString(i - 1)
                      \/ /\ KeyAt(g, k, i) \in Names
                         /\ \A j \in 1..Size(g, k) : KeyAt(g, k, j) = KeyAt(g, k, i) => j = i
    BY DEF Numbered
  <2>1. \A x \in DOMAIN h : g[x].key = h[x].key
    BY <1>4
  <2>2. k # m
    BY <1>5
  <2>3. k \in DOMAIN h /\ h[k].type = "Array" /\ \A j \in 1..Size(h, k) : h[k].children[j] \in DOMAIN h
    BY <2>2, <1>4, <1>8, ChildrenAre DEF Good
  <2>4. \A j \in 1..Size(h, k) :
          \/ KeyAt(h, k, j) = ToString(j - 1)
          \/ /\ KeyAt(h, k, j) \in Names
             /\ \A l \in 1..Size(h, k) : KeyAt(h, k, l) = KeyAt(h, k, j) => l = j
    BY <2>3 DEF Good, Numbered
  <2>5. CASE k # n
    <3>1. Size(g, k) = Size(h, k) /\ \A j \in 1..Size(h, k) : KeyAt(g, k, j) = KeyAt(h, k, j)
      BY <2>1, <2>3, <2>5, <1>4, <1>5 DEF KeyAt
    <3> QED BY <2>4, <3>1
  <2>6. CASE k = n
    <3>1. \A j \in 1..s : KeyAt(g, n, j) = KeyAt(h, n, j)
      BY <2>1, <2>3, <2>6, <1>3, <1>6 DEF KeyAt
    <3>2. KeyAt(g, n, s + 1) = key
      <4>1. g[m].key = key
        BY <1>4
      <4> QED BY <4>1, <1>6 DEF KeyAt
    <3>3. key = ToString(s) \/ (key \in Names /\ \A j \in 1..s : KeyAt(h, n, j) # key)
      BY <2>3, <2>6, <1>3, FindKeyIs DEF Fits, NextKey, KeyAt, Good
    <3>4. CASE i = s + 1
      <4>1. CASE key = ToString(s)
        BY <3>2, <3>4, <4>1, <2>6
      <4>2. CASE key \in Names /\ \A j \in 1..s : KeyAt(h, n, j) # key
        BY <3>1, <3>2, <3>4, <4>2, <2>6, <1>6
      <4> QED BY <3>3, <4>1, <4>2
    <3>5. CASE i \in 1..s
      <4>1. KeyAt(g, n, i) = KeyAt(h, n, i)
        BY <3>1, <3>5
      <4>2. CASE KeyAt(h, n, i) = ToString(i - 1)
        BY <4>1, <4>2, <2>6
      <4>3. CASE /\ KeyAt(h, n, i) \in Names
                 /\ \A l \in 1..s : KeyAt(h, n, l) = KeyAt(h, n, i) => l = i
        <5>1. key # KeyAt(h, n, i)
          BY <3>3, <3>5, <4>3 DEF Written
        <5>2. ASSUME NEW j \in 1..Size(g, n), KeyAt(g, n, j) = KeyAt(g, n, i) PROVE j = i
          <6>1. j # s + 1
            BY <5>1, <5>2, <4>1, <3>2
          <6>2. j \in 1..s
            BY <6>1, <1>6
          <6> QED BY <6>2, <5>2, <4>1, <4>3, <3>1
        <5> QED BY <5>2, <4>1, <4>3, <2>6
      <4> QED BY <4>2, <4>3, <2>4, <2>6, <1>3, <3>5
    <3> QED BY <3>4, <3>5, <2>6, <1>6
  <2> QED BY <2>5, <2>6
<1> QED BY <1>0, <1>7, <1>9, <1>10, <1>11 DEF Good

(***************************************************************************)
(* Nodes taken away                                                        *)
(***************************************************************************)

\* A document is dropped, and nothing else.
LEMMA DropTopGood ==
  ASSUME NEW h, Good(h), NEW n \in DOMAIN h, IsTop(h, n)
  PROVE  Good(Dropped(h, Below(h, n)))
<1>1. PICK g : g = Dropped(h, Below(h, n))
  OBVIOUS
<1>2. PICK B : B = Below(h, n)
  OBVIOUS
<1>3. DOMAIN g = DOMAIN h \ B /\ g = [m \in DOMAIN g |-> g[m]] /\ \A m \in DOMAIN g : g[m] = h[m]
  BY <1>1, <1>2 DEF Dropped, Restrict
<1>4. /\ n \in B /\ B \subseteq DOMAIN h /\ Closed(h, B)
      /\ \A m \in DOMAIN h \ B : \A i \in 1..Size(h, m) : h[m].children[i] \notin B \ {n}
  BY <1>2, BelowIs, BelowTree DEF Good
<1>5. \A m \in DOMAIN g : \A i \in 1..Size(h, m) : h[m].children[i] \in DOMAIN g
  <2> SUFFICES ASSUME NEW m \in DOMAIN g, NEW i \in 1..Size(h, m) PROVE h[m].children[i] \in DOMAIN g
    OBVIOUS
  <2>1. m \in DOMAIN h /\ m \notin B
    BY <1>3
  <2>2. h[m].children[i] \in DOMAIN h /\ h[h[m].children[i]].parent = m
    BY <2>1, ChildrenAre DEF Good, Linked
  <2>3. h[m].children[i] # n
    BY <2>1, <2>2, NoNodeAssumption DEF IsTop, Good, Formed
  <2> QED BY <1>3, <1>4, <2>1, <2>2, <2>3
<1>6. \A m \in DOMAIN g : h[m].parent \notin B
  <2> SUFFICES ASSUME NEW m \in DOMAIN g, h[m].parent \in B PROVE FALSE
    OBVIOUS
  <2>1. m \in DOMAIN h /\ m \notin B /\ h[m].parent # NoNode
    BY <1>3, <1>4, NoNodeAssumption DEF Good, Formed
  <2>2. PICK i \in 1..Size(h, h[m].parent) : h[h[m].parent].children[i] = m
    BY <2>1 DEF Good, Linked, IsTop
  <2> QED BY <1>4, <2>1, <2>2 DEF Closed
<1>7. Formed(g)
  <2>1. DOMAIN g \subseteq Nat /\ IsFiniteSet(DOMAIN g)
    BY <1>3, FS_Subset DEF Good, Formed
  <2>2. ASSUME NEW m \in DOMAIN g PROVE IsNode(g[m]) /\ g[m].children \in Seq(DOMAIN g)
    <3>1. IsNode(h[m]) /\ h[m].children \in Seq(DOMAIN h)
      BY <1>3 DEF Good, Formed
    <3> QED BY <3>1, <1>3, <1>5 DEF Size
  <2> QED BY <1>3, <2>1, <2>2 DEF Formed
<1>8. Linked(g)
  <2> SUFFICES ASSUME NEW m \in DOMAIN g
               PROVE  /\ \A i \in 1..Size(g, m) : /\ g[g[m].children[i]].parent = m
                                                  /\ g[g[m].children[i]].ndx = i - 1
                      /\ Size(g, m) > 0 => g[m].type \in Structured
                      /\ ~IsTop(g, m) =>
                           /\ g[m].parent \in DOMAIN g
                           /\ \E i \in 1..Size(g, g[m].parent) : g[g[m].parent].children[i] = m
    BY DEF Linked
  <2>1. m \in DOMAIN h /\ g[m] = h[m] /\ Size(g, m) = Size(h, m)
    BY <1>3 DEF Size
  <2>2. \A i \in 1..Size(h, m) : g[h[m].children[i]] = h[h[m].children[i]]
    BY <1>3, <1>5
  <2>3. ~IsTop(h, m) => h[m].parent \in DOMAIN g /\ g[h[m].parent] = h[h[m].parent]
    BY <1>3, <1>6, <2>1 DEF Good, Linked
  <2> QED BY <2>1, <2>2, <2>3 DEF Good, Linked, IsTop, Size
<1>9. Grounded(g)
  BY <1>3, GroundedCut DEF Good
<1>10. Numbered(g)
  <2>1. ASSUME NEW m \in DOMAIN g
        PROVE  /\ m \in DOMAIN h /\ g[m].type = h[m].type /\ Size(g, m) = Size(h, m)
               /\ \A i \in 1..Size(g, m) : KeyAt(g, m, i) = KeyAt(h, m, i)
    BY <1>3, <1>5 DEF Size, KeyAt
  <2> QED BY <2>1, NumberedKept DEF Good
<1> QED BY <1>1, <1>7, <1>8, <1>9, <1>10 DEF Good

LEMMA PlaceOfIs ==
  ASSUME NEW h, Formed(h), Linked(h), NEW n \in DOMAIN h, NEW pos \in 1..Size(h, n)
  PROVE  PlaceOf(h, n, h[n].children[pos]) = pos
<1>1. PICK c \in Seq(DOMAIN h) : c = h[n].children
  BY DEF Formed
<1>2. \A i \in 1..Len(c) : c[i] = c[pos] <=> i = pos
  BY <1>1, ChildrenDiffer DEF Size
<1>3. PICK I : I = {i \in 1..Len(c) : c[i] = c[pos]}
  OBVIOUS
<1>4. I = {pos} /\ pos \in Nat
  BY <1>1, <1>2, <1>3 DEF Size
<1>5. Min(I) = pos
  <2>1. I \in SUBSET Nat /\ I # {}
    BY <1>4
  <2>2. Min(I) \in I
    BY <2>1, MinIs
  <2> QED BY <2>2, <1>4
<1> QED BY <1>1, <1>3, <1>4, <1>5 DEF PlaceOf, SelectInSeq

\* g is h without the child at pos of n.
Removed(h, n, pos, isArray, g) ==
  /\ DOMAIN g = DOMAIN h \ Below(h, h[n].children[pos]) /\ g = [m \in DOMAIN g |-> g[m]]
  /\ \A m \in DOMAIN g :
       /\ IsNode(g[m]) /\ g[m].parent = h[m].parent /\ g[m].type = h[m].type
       /\ m # n => g[m].children = h[m].children
       /\ g[m].ndx = IF \E i \in (pos + 1)..Size(h, n) : h[n].children[i] = m
                     THEN h[m].ndx - 1 ELSE h[m].ndx
       /\ g[m].key = IF isArray /\ \E i \in (pos + 1)..Size(h, n) : h[n].children[i] = m
                     THEN ToString(h[m].ndx - 1) ELSE h[m].key
  /\ Size(g, n) = Size(h, n) - 1
  /\ \A i \in 1..Size(g, n) : g[n].children[i] = h[n].children[IF i < pos THEN i ELSE i + 1]
  /\ g[n].children \in Seq(DOMAIN h)

LEMMA RemoveChildIs ==
  ASSUME NEW h, Good(h), NEW n \in DOMAIN h, NEW pos \in 1..Size(h, n), NEW isArray \in BOOLEAN
  PROVE  Removed(h, n, pos, isArray, RemoveChild(h, n, h[n].children[pos], isArray))
<1>1. PICK c \in Seq(DOMAIN h) : c = h[n].children
  BY DEF Good, Formed
<1>2. Len(c) \in Nat /\ Len(c) = Size(h, n) /\ pos \in 1..Len(c)
  BY <1>1 DEF Size
<1>3. PlaceOf(h, n, h[n].children[pos]) = pos
  BY PlaceOfIs DEF Good
<1>4. PICK behind : behind = {h[n].children[i] : i \in (pos + 1)..Size(h, n)}
  OBVIOUS
<1>5. PICK B : B = Below(h, h[n].children[pos])
  OBVIOUS
<1>6. h[n].children[pos] \in DOMAIN h /\ n \notin B
  <2>1. h[n].children[pos] \in DOMAIN h /\ h[h[n].children[pos]].parent = n
    BY <1>1, <1>2 DEF Good, Linked
  <2> QED BY <2>1, <1>5, BelowTree
<1>7. PICK q : q = RemoveAt(c, pos)
  OBVIOUS
<1>8. /\ q \in Seq(DOMAIN h) /\ Len(q) = Len(c) - 1
      /\ \A i \in 1..Len(q) : q[i] = c[IF i < pos THEN i ELSE i + 1]
  <2>1. PICK a : a = SubSeq(c, 1, pos - 1)
    OBVIOUS
  <2>2. PICK b : b = SubSeq(c, pos + 1, Len(c))
    OBVIOUS
  <2>3. a \in Seq(DOMAIN h) /\ Len(a) = pos - 1 /\ \A i \in 1..(pos - 1) : a[i] = c[i]
    BY <1>2, <2>1
  <2>4. /\ b \in Seq(DOMAIN h) /\ Len(b) = Len(c) - pos
        /\ \A i \in 1..(Len(c) - pos) : b[i] = c[pos + i]
    BY <1>2, <2>2
  <2>5. q = a \o b
    BY <1>7, <2>1, <2>2 DEF RemoveAt
  <2>6. q \in Seq(DOMAIN h) /\ Len(q) = Len(c) - 1
    <3>1. q \in Seq(DOMAIN h) /\ Len(q) = Len(a) + Len(b)
      BY <2>3, <2>4, <2>5, Joined
    <3>2. Len(a) + Len(b) = Len(c) - 1
      BY <1>2, <2>3, <2>4
    <3> QED BY <3>1, <3>2
  <2>7. \A i \in 1..Len(q) : i < pos => q[i] = c[i]
    BY <1>2, <2>3, <2>4, <2>5
  <2>8. ASSUME NEW i \in 1..Len(q), ~(i < pos) PROVE q[i] = c[i + 1]
    <3>1. q[i] = b[i - (pos - 1)]
      BY <1>2, <2>3, <2>4, <2>5, <2>6, <2>8
    <3>2. i - (pos - 1) \in 1..(Len(c) - pos) /\ pos + (i - (pos - 1)) = i + 1
      BY <1>2, <2>6, <2>8
    <3> QED BY <3>1, <3>2, <2>4
  <2> QED BY <2>6, <2>7, <2>8
<1>9. PICK u : u = [m \in DOMAIN h |-> [h[m] EXCEPT !.ndx = @ - 1, !.key = IF isArray THEN ToString(h[m].ndx - 1) ELSE @]]
  OBVIOUS
<1>10. PICK f : f = [m \in DOMAIN h |-> IF m \in behind THEN u[m] ELSE h[m]]
  OBVIOUS
<1>11. PICK e : e = [f EXCEPT ![n] = [f[n] EXCEPT !.children = RemoveAt(f[n].children, pos)]]
  OBVIOUS
<1>12. RemoveChild(h, n, h[n].children[pos], isArray) = Dropped(e, B)
  <2>1. f = [m \in DOMAIN h |-> IF m \in behind
                THEN [h[m] EXCEPT !.ndx = @ - 1, !.key = IF isArray THEN ToString(h[m].ndx - 1) ELSE @]
                ELSE h[m]]
    BY <1>9, <1>10
  <2>2. e = [f EXCEPT ![n].children = RemoveAt(@, pos)]
    BY <1>11
  <2> QED BY <1>3, <1>4, <1>5, <2>1, <2>2 DEF RemoveChild
<1>13. \A m \in DOMAIN h : /\ IsNode(u[m]) /\ u[m].parent = h[m].parent /\ u[m].type = h[m].type
                           /\ u[m].children = h[m].children /\ u[m].ndx = h[m].ndx - 1
                           /\ u[m].key = IF isArray THEN ToString(h[m].ndx - 1) ELSE h[m].key
  <2> TAKE m \in DOMAIN h
  <2>1. PICK r : r = h[m] /\ IsNode(r)
    BY DEF Good, Formed
  <2>2. PICK x : x = [r EXCEPT !.ndx = r.ndx - 1]
    OBVIOUS
  <2>3. x = [type |-> r.type, key |-> r.key, val |-> r.val, ndx |-> r.ndx - 1,
             parent |-> r.parent, children |-> r.children]
    BY <2>1, <2>2 DEF IsNode
  <2>4. PICK k : k = IF isArray THEN ToString(h[m].ndx - 1) ELSE r.key
    OBVIOUS
  <2>5. PICK y : y = [x EXCEPT !.key = k]
    OBVIOUS
  <2>6. y = [type |-> r.type, key |-> k, val |-> r.val, ndx |-> r.ndx - 1,
             parent |-> r.parent, children |-> r.children]
    BY <2>3, <2>5
  <2>7. u[m] = y
    BY <1>9, <2>1, <2>2, <2>4, <2>5
  <2> QED BY <2>1, <2>4, <2>6, <2>7 DEF IsNode
<1>14. n \notin behind
  <2>1. SUFFICES ASSUME NEW i \in (pos + 1)..Size(h, n), h[n].children[i] = n PROVE FALSE
    BY <1>4
  <2>2. i \in 1..Size(h, n)
    BY <1>2
  <2>3. h[n].parent = n
    BY <2>1, <2>2 DEF Good, Linked
  <2> QED BY <2>3, BelowTree, BelowIs DEF Good
<1>15. e[n] = [type |-> h[n].type, key |-> h[n].key, val |-> h[n].val, ndx |-> h[n].ndx,
               parent |-> h[n].parent, children |-> q]
  <2>1. PICK r : r = h[n] /\ IsNode(r)
    BY DEF Good, Formed
  <2>2. f[n] = r
    BY <1>10, <1>14, <2>1
  <2>3. e[n] = [r EXCEPT !.children = q]
    BY <1>1, <1>7, <1>10, <1>11, <2>1, <2>2
  <2> QED BY <2>1, <2>3 DEF IsNode
<1>16. \A m \in DOMAIN h \ {n} : e[m] = IF m \in behind THEN u[m] ELSE h[m]
  BY <1>10, <1>11
<1>17. PICK g : g = Dropped(e, B)
  OBVIOUS
<1>18. DOMAIN g = DOMAIN h \ B /\ g = [m \in DOMAIN g |-> g[m]] /\ \A m \in DOMAIN g : g[m] = e[m]
  BY <1>10, <1>11, <1>17 DEF Dropped, Restrict
<1>19. ASSUME NEW m \in DOMAIN g
       PROVE  /\ IsNode(g[m]) /\ g[m].parent = h[m].parent /\ g[m].type = h[m].type
              /\ m # n => g[m].children = h[m].children
              /\ g[m].ndx = IF m \in behind THEN h[m].ndx - 1 ELSE h[m].ndx
              /\ g[m].key = IF isArray /\ m \in behind THEN ToString(h[m].ndx - 1) ELSE h[m].key
  <2>1. m \in DOMAIN h /\ g[m] = e[m]
    BY <1>18
  <2>2. CASE m = n
    BY <2>1, <2>2, <1>14, <1>15 DEF IsNode
  <2>3. CASE m # n /\ m \in behind
    BY <2>1, <2>3, <1>13, <1>16
  <2>4. CASE m # n /\ m \notin behind
    BY <2>1, <2>4, <1>16 DEF Good, Formed
  <2> QED BY <2>2, <2>3, <2>4
<1>20. n \in DOMAIN g /\ g[n].children = q
  BY <1>6, <1>15, <1>18
<1>21. \A m : m \in behind <=> \E i \in (pos + 1)..Size(h, n) : h[n].children[i] = m
  BY <1>4
<1>22. Removed(h, n, pos, isArray, g)
  BY <1>1, <1>2, <1>5, <1>8, <1>18, <1>19, <1>20, <1>21 DEF Removed, Size
<1> QED BY <1>12, <1>17, <1>22

LEMMA RemoveChildGood ==
  ASSUME NEW h, Good(h), NEW n \in DOMAIN h, NEW pos \in 1..Size(h, n),
         NEW isArray, isArray = (h[n].type = "Array")
  PROVE  Good(RemoveChild(h, n, h[n].children[pos], isArray))
<1>1. PICK g : g = RemoveChild(h, n, h[n].children[pos], isArray)
  OBVIOUS
<1>2. Removed(h, n, pos, isArray, g)
  <2>1. isArray \in BOOLEAN
    OBVIOUS
  <2> QED BY <1>1, <2>1, RemoveChildIs
<1>3. PICK c : c = h[n].children[pos]
  OBVIOUS
<1>4. PICK B : B = Below(h, c)
  OBVIOUS
<1>5. PICK s \in Nat : s = Size(h, n)
  BY ChildrenAre DEF Good
<1>6. c \in DOMAIN h /\ h[c].parent = n
  BY <1>3, ChildrenAre DEF Good, Linked
<1>7. /\ c \in B /\ B \subseteq DOMAIN h /\ Closed(h, B) /\ n \notin B
      /\ \A m \in DOMAIN h \ B : \A i \in 1..Size(h, m) : h[m].children[i] \notin B \ {c}
  BY <1>4, <1>6, BelowIs, BelowTree DEF Good
<1>8. /\ DOMAIN g = DOMAIN h \ B /\ g = [m \in DOMAIN g |-> g[m]] /\ n \in DOMAIN g
      /\ \A m \in DOMAIN g :
           /\ IsNode(g[m]) /\ g[m].parent = h[m].parent /\ g[m].type = h[m].type
           /\ m # n => g[m].children = h[m].children /\ Size(g, m) = Size(h, m)
      /\ \A m \in DOMAIN g : (\E i \in (pos + 1)..s : h[n].children[i] = m) => g[m].ndx = h[m].ndx - 1
      /\ \A m \in DOMAIN g : (~\E i \in (pos + 1)..s : h[n].children[i] = m) => g[m].ndx = h[m].ndx
  BY <1>2, <1>3, <1>4, <1>5, <1>7 DEF Removed, Size
<1>9. /\ Size(g, n) = s - 1 /\ g[n].children \in Seq(DOMAIN h)
      /\ \A i \in 1..(s - 1) : g[n].children[i] = h[n].children[IF i < pos THEN i ELSE i + 1]
  BY <1>2, <1>5 DEF Removed
<1>10. \A m \in DOMAIN g : h[m].parent \notin B
  <2> SUFFICES ASSUME NEW m \in DOMAIN g, h[m].parent \in B PROVE FALSE
    OBVIOUS
  <2>1. m \in DOMAIN h /\ m \notin B /\ h[m].parent # NoNode
    BY <1>7, <1>8, NoNodeAssumption DEF Good, Formed
  <2>2. PICK i \in 1..Size(h, h[m].parent) : h[h[m].parent].children[i] = m
    BY <2>1 DEF Good, Linked, IsTop
  <2> QED BY <1>7, <2>1, <2>2 DEF Closed
<1>11. \A m \in DOMAIN g \ {n} : \A i \in 1..Size(h, m) :
          /\ h[m].children[i] \in DOMAIN g
          /\ g[h[m].children[i]].parent = m /\ g[h[m].children[i]].ndx = i - 1
  <2> SUFFICES ASSUME NEW m \in DOMAIN g \ {n}, NEW i \in 1..Size(h, m)
               PROVE  /\ h[m].children[i] \in DOMAIN g
                      /\ g[h[m].children[i]].parent = m /\ g[h[m].children[i]].ndx = i - 1
    OBVIOUS
  <2>1. PICK x : x = h[m].children[i]
    OBVIOUS
  <2>2. m \in DOMAIN h \ B /\ x \in DOMAIN h /\ h[x].parent = m /\ h[x].ndx = i - 1
    BY <1>8, <2>1, ChildrenAre DEF Good, Linked
  <2>3. x # c
    BY <1>6, <2>2
  <2>4. x \in DOMAIN g
    BY <1>7, <1>8, <2>1, <2>2, <2>3
  <2>5. ~\E j \in (pos + 1)..s : h[n].children[j] = x
    <3>1. \A j \in (pos + 1)..s : j \in 1..Size(h, n)
      BY <1>5
    <3> QED BY <3>1, <2>2 DEF Good, Linked
  <2> QED BY <2>1, <2>2, <2>4, <2>5, <1>8
<1>12. \A i \in 1..(s - 1) : /\ g[n].children[i] \in DOMAIN g
                             /\ g[g[n].children[i]].parent = n /\ g[g[n].children[i]].ndx = i - 1
  <2> TAKE i \in 1..(s - 1)
  <2>1. PICK j \in 1..s : j = IF i < pos THEN i ELSE i + 1
    OBVIOUS
  <2>2. PICK x : x = h[n].children[j]
    OBVIOUS
  <2>3. g[n].children[i] = x /\ j # pos
    BY <1>9, <2>1, <2>2
  <2>4. x \in DOMAIN h /\ h[x].parent = n /\ h[x].ndx = j - 1
    BY <1>5, <2>2, ChildrenAre DEF Good, Linked
  <2>5. x # c
    <3>1. SUFFICES ASSUME h[n].children[j] = h[n].children[pos] PROVE FALSE
      BY <1>3, <2>2
    <3> QED BY <3>1, <2>3, <1>5, ChildrenDiffer DEF Good
  <2>6. x \in DOMAIN g
    BY <1>5, <1>7, <1>8, <2>2, <2>4, <2>5
  <2>7. CASE i < pos
    <3>1. ASSUME NEW k \in (pos + 1)..s, h[n].children[k] = x PROVE FALSE
      <4>1. k \in 1..Size(h, n) /\ j \in 1..Size(h, n) /\ k # j
        BY <1>5, <2>1, <2>7
      <4> QED BY <4>1, <3>1, <2>2, ChildrenDiffer DEF Good
    <3> QED BY <3>1, <2>1, <2>3, <2>4, <2>6, <2>7, <1>8
  <2>8. CASE ~(i < pos)
    <3>1. j \in (pos + 1)..s /\ h[n].children[j] = x
      BY <2>1, <2>2, <2>8
    <3> QED BY <3>1, <2>1, <2>3, <2>4, <2>6, <2>8, <1>8
  <2> QED BY <2>7, <2>8
<1>13. Formed(g)
  <2>1. DOMAIN g \subseteq Nat /\ IsFiniteSet(DOMAIN g)
    BY <1>8, FS_Subset DEF Good, Formed
  <2>2. ASSUME NEW m \in DOMAIN g \ {n} PROVE g[m].children \in Seq(DOMAIN g)
    <3>1. h[m].children \in Seq(DOMAIN h)
      BY <1>8 DEF Good, Formed
    <3>2. g[m].children = h[m].children
      BY <1>8
    <3>3. \A i \in 1..Len(h[m].children) : h[m].children[i] \in DOMAIN g
      BY <1>11 DEF Size
    <3> QED BY <3>1, <3>2, <3>3
  <2>3. g[n].children \in Seq(DOMAIN g)
    <3>1. PICK q \in Seq(DOMAIN h) : q = g[n].children
      BY <1>9
    <3>2. \A i \in 1..Len(q) : q[i] \in DOMAIN g
      BY <3>1, <1>9, <1>12 DEF Size
    <3>3. q \in Seq(DOMAIN g)
      BY <3>2
    <3> QED BY <3>1, <3>3
  <2> QED BY <1>8, <2>1, <2>2, <2>3 DEF Formed
<1>14. Linked(g)
  <2>1. ASSUME NEW m \in DOMAIN g, ~IsTop(g, m)
        PROVE  /\ g[m].parent \in DOMAIN g
               /\ \E i \in 1..Size(g, g[m].parent) : g[g[m].parent].children[i] = m
    <3>1. PICK k \in DOMAIN h : k = h[m].parent /\ k \in DOMAIN g /\ g[m].parent = k
      BY <1>8, <1>10, <2>1 DEF IsTop, Good, Linked
    <3>2. PICK i \in 1..Size(h, k) : h[k].children[i] = m
      BY <1>8, <2>1, <3>1 DEF IsTop, Good, Linked
    <3>3. CASE k # n
      BY <1>8, <3>1, <3>2, <3>3
    <3>4. CASE k = n
      <4>1. i # pos
        BY <1>3, <1>7, <1>8, <3>2, <3>4
      <4>2. CASE i < pos
        <5>1. i \in 1..(s - 1) /\ i \in 1..Size(g, n)
          BY <1>5, <1>9, <3>4, <4>2
        <5>2. g[n].children[i] = h[n].children[i]
          BY <1>9, <4>2, <5>1
        <5> QED BY <3>1, <3>2, <3>4, <5>1, <5>2
      <4>3. CASE i > pos
        <5>1. i - 1 \in 1..(s - 1) /\ ~(i - 1 < pos) /\ (i - 1) + 1 = i
          BY <1>5, <3>4, <4>3
        <5>2. g[n].children[i - 1] = h[n].children[i]
          BY <1>9, <5>1
        <5> QED BY <1>9, <3>1, <3>2, <3>4, <5>1, <5>2
      <4> QED BY <4>1, <4>2, <4>3, <1>5, <3>4
    <3> QED BY <3>3, <3>4
  <2>2. ASSUME NEW m \in DOMAIN g
        PROVE  /\ \A i \in 1..Size(g, m) : g[g[m].children[i]].parent = m /\ g[g[m].children[i]].ndx = i - 1
               /\ Size(g, m) > 0 => g[m].type \in Structured
    <3>1. CASE m = n
      <4>1. Size(g, n) > 0 => g[n].type \in Structured
        BY <1>5, <1>8, <1>9 DEF Good, Linked
      <4> QED BY <3>1, <4>1, <1>9, <1>12
    <3>2. CASE m # n
      BY <3>2, <1>8, <1>11 DEF Good, Linked
    <3> QED BY <3>1, <3>2
  <2> QED BY <2>1, <2>2 DEF Linked
<1>15. Grounded(g)
  BY <1>8, GroundedCut DEF Good
<1>16. \A m \in DOMAIN g : (~\E i \in (pos + 1)..s : h[n].children[i] = m) => g[m].key = h[m].key
  BY <1>2, <1>5 DEF Removed
<1>17. \A m \in DOMAIN g \ {n} : \A i \in 1..Size(g, m) : KeyAt(g, m, i) = KeyAt(h, m, i)
  <2> SUFFICES ASSUME NEW m \in DOMAIN g \ {n}, NEW i \in 1..Size(h, m)
               PROVE  KeyAt(g, m, i) = KeyAt(h, m, i)
    BY <1>8
  <2>1. PICK x : x = h[m].children[i]
    OBVIOUS
  <2>2. x \in DOMAIN g /\ h[x].parent = m
    BY <1>8, <1>11, <2>1
  <2>3. ASSUME NEW j \in (pos + 1)..s, h[n].children[j] = x PROVE FALSE
    <3>1. h[x].parent = n
      BY <1>5, <2>3 DEF Good, Linked
    <3> QED BY <2>2, <3>1
  <2>4. g[x].key = h[x].key
    BY <2>2, <2>3, <1>16
  <2> QED BY <2>1, <2>4, <1>8 DEF KeyAt
<1>18. ASSUME isArray, NEW i \in 1..(s - 1)
       PROVE  KeyAt(g, n, i) = IF i < pos THEN KeyAt(h, n, i) ELSE ToString(i - 1)
  <2>1. PICK x : x = g[n].children[i]
    OBVIOUS
  <2>2. x \in DOMAIN g /\ x = h[n].children[IF i < pos THEN i ELSE i + 1]
    BY <1>9, <1>12, <2>1
  <2>3. CASE i < pos
    <3>1. ASSUME NEW k \in (pos + 1)..s, h[n].children[k] = x PROVE FALSE
      <4>1. k \in 1..Size(h, n) /\ i \in 1..Size(h, n) /\ k # i /\ h[n].children[k] = h[n].children[i]
        BY <1>5, <2>2, <2>3, <3>1
      <4> QED BY <4>1, ChildrenDiffer DEF Good
    <3>2. g[x].key = h[x].key
      BY <3>1, <2>2, <1>16
    <3> QED BY <3>2, <2>1, <2>2, <2>3 DEF KeyAt
  <2>4. CASE ~(i < pos)
    <3>1. i + 1 \in (pos + 1)..s /\ i + 1 \in 1..Size(h, n) /\ h[n].children[i + 1] = x
      BY <1>5, <2>2, <2>4
    <3>2. h[x].ndx = (i + 1) - 1
      BY <3>1 DEF Good, Linked
    <3>3. g[x].key = ToString(h[x].ndx - 1)
      BY <1>2, <1>5, <1>18, <2>2, <3>1 DEF Removed
    <3>4. h[x].ndx - 1 = i - 1
      BY <3>2
    <3> QED BY <3>3, <3>4, <2>1, <2>4 DEF KeyAt
  <2> QED BY <2>3, <2>4
<1>19. Numbered(g)
  <2> SUFFICES ASSUME Written, NEW m \in DOMAIN g, g[m].type = "Array", NEW i \in 1..Size(g, m)
               PROVE  \/ KeyAt(g, m, i) = ToString(i - 1)
                      \/ /\ KeyAt(g, m, i) \in Names
                         /\ \A j \in 1..Size(g, m) : KeyAt(g, m, j) = KeyAt(g, m, i) => j = i
    BY DEF Numbered
  <2>1. m \in DOMAIN h /\ h[m].type = "Array"
    BY <1>8
  <2>2. \A j \in 1..Size(h, m) :
          \/ KeyAt(h, m, j) = ToString(j - 1)
          \/ /\ KeyAt(h, m, j) \in Names
             /\ \A l \in 1..Size(h, m) : KeyAt(h, m, l) = KeyAt(h, m, j) => l = j
    BY <2>1 DEF Good, Numbered
  <2>3. CASE m # n
    BY <2>2, <2>3, <1>8, <1>17
  <2>4. CASE m = n
    <3>0. isArray
      BY <2>1, <2>4
    <3>1. isArray /\ i \in 1..(s - 1) /\ 1..(s - 1) \subseteq 1..Size(h, n)
      <4>1. i \in 1..(s - 1)
        BY <2>4, <1>9
      <4>2. 1..(s - 1) \subseteq 1..Size(h, n)
        BY <1>5
      <4> QED BY <3>0, <4>1, <4>2
    <3>2. CASE ~(i < pos)
      BY <3>1, <3>2, <2>4, <1>18
    <3>3. CASE i < pos /\ KeyAt(h, n, i) = ToString(i - 1)
      BY <3>1, <3>3, <2>4, <1>18
    <3>4. CASE i < pos /\ KeyAt(h, n, i) \in Names
               /\ \A l \in 1..Size(h, n) : KeyAt(h, n, l) = KeyAt(h, n, i) => l = i
      <4>1. KeyAt(g, n, i) = KeyAt(h, n, i)
        BY <3>1, <3>4, <1>18
      <4>2. ASSUME NEW j \in 1..(s - 1), KeyAt(g, n, j) = KeyAt(g, n, i) PROVE j = i
        <5>1. CASE j < pos
          <6>1. KeyAt(g, n, j) = KeyAt(h, n, j)
            BY <3>1, <5>1, <1>18
          <6> QED BY <6>1, <4>1, <4>2, <3>1, <3>4
        <5>2. CASE ~(j < pos)
          <6>1. KeyAt(g, n, j) = ToString(j - 1) /\ j - 1 \in Nat
            BY <3>1, <5>2, <1>18
          <6> QED BY <6>1, <4>1, <4>2, <3>4 DEF Written
        <5> QED BY <5>1, <5>2
      <4> QED BY <4>1, <4>2, <3>4, <2>4, <1>9
    <3> QED BY <3>1, <3>2, <3>3, <3>4, <2>2, <2>4
  <2> QED BY <2>3, <2>4
<1> QED BY <1>1, <1>13, <1>14, <1>15, <1>19 DEF Good

\* g is h with the first children of n only.
Shortened(h, n, size, g) ==
  /\ DOMAIN g \subseteq DOMAIN h /\ n \in DOMAIN g
  /\ \A m \in DOMAIN g : g[m].type = h[m].type /\ g[m].parent = h[m].parent
  /\ \A m \in DOMAIN h : h[m].parent = h[n].parent => m \in DOMAIN g
  /\ \A i \in 1..size : h[n].children[i] \in DOMAIN g
  /\ Size(g, n) = size
  /\ \A i \in 1..size : g[n].children[i] = h[n].children[i]

LEMMA ShrunkGood ==
  ASSUME NEW h, Good(h), NEW n \in DOMAIN h, NEW size \in 0..Size(h, n)
  PROVE  Good(Shrunk(h, n, size)) /\ Shortened(h, n, size, Shrunk(h, n, size))
<1>1. PICK s \in Nat : s = Size(h, n) /\ size \in Nat /\ size <= s
  BY ChildrenAre DEF Good
<1>2. PICK tail : tail = {h[n].children[i] : i \in (size + 1)..Size(h, n)}
  OBVIOUS
<1>3. PICK B : B = UNION {Below(h, m) : m \in tail}
  OBVIOUS
<1>4. \A x : x \in tail <=> \E i \in (size + 1)..s : x = h[n].children[i]
  BY <1>1, <1>2
<1>5. \A x \in tail : x \in DOMAIN h /\ h[x].parent = n
  <2>1. \A i \in (size + 1)..s : i \in 1..Size(h, n)
    BY <1>1
  <2> QED BY <1>4, <2>1, ChildrenAre DEF Good, Linked
<1>6. \A y : y \in B <=> \E x \in tail : y \in Below(h, x)
  BY <1>3
<1>7. /\ B \subseteq DOMAIN h /\ n \notin B /\ Closed(h, B) /\ tail \subseteq B
      /\ \A y \in B : y \in tail \/ h[y].parent \in B
  <2>1. \A x \in tail : /\ x \in Below(h, x) /\ Below(h, x) \subseteq DOMAIN h /\ Closed(h, Below(h, x))
                        /\ \A y \in Below(h, x) \ {x} : h[y].parent \in Below(h, x)
                        /\ n \notin Below(h, x)
    BY <1>5, BelowIs, BelowTree DEF Good
  <2>2. B \subseteq DOMAIN h /\ n \notin B /\ tail \subseteq B /\ \A y \in B : y \in tail \/ h[y].parent \in B
    BY <1>6, <2>1
  <2>3. Closed(h, B)
    <3> SUFFICES ASSUME NEW y \in B, NEW i \in 1..Size(h, y) PROVE h[y].children[i] \in B
      BY DEF Closed
    <3>1. PICK x \in tail : y \in Below(h, x)
      BY <1>6
    <3>2. h[y].children[i] \in Below(h, x)
      BY <2>1, <3>1 DEF Closed
    <3> QED BY <1>6, <3>1, <3>2
  <2> QED BY <2>2, <2>3
<1>8. PICK q : q = SubSeq(h[n].children, 1, size)
  OBVIOUS
<1>9. q \in Seq(DOMAIN h) /\ Len(q) = size /\ \A i \in 1..size : q[i] = h[n].children[i]
  <2>1. PICK c \in Seq(DOMAIN h) : c = h[n].children
    BY DEF Good, Formed
  <2> QED BY <1>1, <1>8, <2>1 DEF Size
<1>10. PICK e : e = [h EXCEPT ![n] = [h[n] EXCEPT !.children = q]]
  OBVIOUS
<1>11. PICK g : g = Dropped(e, B)
  OBVIOUS
<1>12. Shrunk(h, n, size) = g
  <2>1. e = [h EXCEPT ![n].children = SubSeq(@, 1, size)]
    BY <1>8, <1>10
  <2> QED BY <1>2, <1>3, <1>11, <2>1 DEF Shrunk
<1>13. e[n] = [type |-> h[n].type, key |-> h[n].key, val |-> h[n].val, ndx |-> h[n].ndx,
               parent |-> h[n].parent, children |-> q]
  <2>1. PICK r : r = h[n] /\ IsNode(r)
    BY DEF Good, Formed
  <2>2. e[n] = [r EXCEPT !.children = q]
    BY <1>10, <2>1 DEF Good, Formed
  <2> QED BY <2>1, <2>2 DEF IsNode
<1>14. DOMAIN e = DOMAIN h /\ \A m \in DOMAIN h \ {n} : e[m] = h[m]
  BY <1>10
<1>15. /\ DOMAIN g = DOMAIN h \ B /\ n \in DOMAIN g /\ g = [m \in DOMAIN g |-> g[m]]
       /\ \A m \in DOMAIN g \ {n} : g[m] = h[m]
       /\ g[n] = [type |-> h[n].type, key |-> h[n].key, val |-> h[n].val, ndx |-> h[n].ndx,
                  parent |-> h[n].parent, children |-> q]
  BY <1>7, <1>11, <1>13, <1>14 DEF Dropped, Restrict
<1>16. \A m \in DOMAIN g : /\ IsNode(g[m]) /\ g[m].parent = h[m].parent /\ g[m].type = h[m].type
                           /\ g[m].ndx = h[m].ndx
  <2>1. IsNode(g[n]) /\ g[n].parent = h[n].parent /\ g[n].type = h[n].type /\ g[n].ndx = h[n].ndx
    BY <1>15 DEF IsNode
  <2> QED BY <2>1, <1>15 DEF Good, Formed
<1>17. g[n].children = q /\ Size(g, n) = size
  BY <1>9, <1>15 DEF Size
<1>18. \A m \in DOMAIN g : h[m].parent \notin B
  <2> SUFFICES ASSUME NEW m \in DOMAIN g, h[m].parent \in B PROVE FALSE
    OBVIOUS
  <2>1. m \in DOMAIN h /\ m \notin B /\ h[m].parent # NoNode
    BY <1>7, <1>15, NoNodeAssumption DEF Good, Formed
  <2>2. PICK i \in 1..Size(h, h[m].parent) : h[h[m].parent].children[i] = m
    BY <2>1 DEF Good, Linked, IsTop
  <2> QED BY <1>7, <2>1, <2>2 DEF Closed
<1>19. \A m \in DOMAIN g \ {n} : \A i \in 1..Size(h, m) : h[m].children[i] \in DOMAIN g
  <2> SUFFICES ASSUME NEW m \in DOMAIN g \ {n}, NEW i \in 1..Size(h, m) PROVE h[m].children[i] \in DOMAIN g
    OBVIOUS
  <2>1. h[m].children[i] \in DOMAIN h /\ h[h[m].children[i]].parent = m
    BY <1>15, ChildrenAre DEF Good, Linked
  <2> QED BY <1>5, <1>7, <1>15, <2>1
<1>20. \A i \in 1..size : h[n].children[i] \in DOMAIN g
  <2> TAKE i \in 1..size
  <2>1. i \in 1..Size(h, n)
    BY <1>1
  <2>2. h[n].children[i] \in DOMAIN h /\ h[h[n].children[i]].parent = n
    BY <2>1, ChildrenAre DEF Good, Linked
  <2>3. h[n].children[i] \notin tail
    <3>1. SUFFICES ASSUME NEW j \in (size + 1)..s, h[n].children[i] = h[n].children[j] PROVE FALSE
      BY <1>4
    <3>2. j \in 1..Size(h, n) /\ j # i
      BY <1>1
    <3> QED BY <2>1, <3>1, <3>2, ChildrenDiffer DEF Good
  <2> QED BY <1>7, <1>15, <2>2, <2>3
<1>21. Formed(g)
  <2>1. DOMAIN g \subseteq Nat /\ IsFiniteSet(DOMAIN g)
    BY <1>15, FS_Subset DEF Good, Formed
  <2>2. ASSUME NEW m \in DOMAIN g \ {n} PROVE g[m].children \in Seq(DOMAIN g)
    <3>1. h[m].children \in Seq(DOMAIN h) /\ g[m] = h[m]
      BY <1>15 DEF Good, Formed
    <3>2. \A i \in 1..Len(h[m].children) : h[m].children[i] \in DOMAIN g
      BY <1>19 DEF Size
    <3> QED BY <3>1, <3>2
  <2>3. g[n].children \in Seq(DOMAIN g)
    <3>1. \A i \in 1..Len(q) : q[i] \in DOMAIN g
      BY <1>9, <1>20
    <3> QED BY <3>1, <1>9, <1>17
  <2> QED BY <1>15, <1>16, <2>1, <2>2, <2>3 DEF Formed
<1>22. Linked(g)
  <2>1. ASSUME NEW m \in DOMAIN g, ~IsTop(g, m)
        PROVE  /\ g[m].parent \in DOMAIN g
               /\ \E i \in 1..Size(g, g[m].parent) : g[g[m].parent].children[i] = m
    <3>1. PICK k \in DOMAIN h : k = h[m].parent /\ k \in DOMAIN g /\ g[m].parent = k
      BY <1>15, <1>16, <1>18, <2>1 DEF IsTop, Good, Linked
    <3>2. PICK i \in 1..Size(h, k) : h[k].children[i] = m
      BY <1>15, <1>16, <2>1, <3>1 DEF IsTop, Good, Linked
    <3>3. CASE k # n
      BY <1>15, <3>1, <3>2, <3>3 DEF Size
    <3>4. CASE k = n
      <4>1. i \in 1..size
        <5>1. SUFFICES ASSUME i \notin 1..size PROVE FALSE
          OBVIOUS
        <5>2. i \in (size + 1)..s
          BY <1>1, <3>4, <5>1
        <5> QED BY <5>2, <1>4, <1>7, <1>15, <3>2, <3>4
      <4> QED BY <3>1, <3>2, <3>4, <4>1, <1>9, <1>17
    <3> QED BY <3>3, <3>4
  <2>2. ASSUME NEW m \in DOMAIN g
        PROVE  /\ \A i \in 1..Size(g, m) : g[g[m].children[i]].parent = m /\ g[g[m].children[i]].ndx = i - 1
               /\ Size(g, m) > 0 => g[m].type \in Structured
    <3>1. CASE m = n
      <4>1. Size(g, n) > 0 => g[n].type \in Structured
        BY <1>1, <1>16, <1>17, <1>15 DEF Good, Linked
      <4>2. ASSUME NEW i \in 1..size
            PROVE  g[h[n].children[i]].parent = n /\ g[h[n].children[i]].ndx = i - 1
        <5>1. i \in 1..Size(h, n) /\ h[n].children[i] \in DOMAIN g
          BY <1>1, <1>20
        <5> QED BY <5>1, <1>16 DEF Good, Linked
      <4> QED BY <3>1, <4>1, <4>2, <1>9, <1>17
    <3>2. CASE m # n
      <4>1. m \in DOMAIN h /\ g[m] = h[m] /\ Size(g, m) = Size(h, m)
        BY <3>2, <1>15 DEF Size
      <4>2. \A i \in 1..Size(h, m) : h[m].children[i] \in DOMAIN g
        BY <3>2, <1>19
      <4> QED BY <4>1, <4>2, <1>16 DEF Good, Linked
    <3> QED BY <3>1, <3>2
  <2> QED BY <2>1, <2>2 DEF Linked
<1>23. Grounded(g)
  BY <1>15, <1>16, GroundedCut DEF Good
<1>25. Numbered(g)
  <2>1. \A m \in DOMAIN g : g[m].key = h[m].key
    BY <1>15
  <2>2. ASSUME NEW m \in DOMAIN g \ {n}
        PROVE  /\ m \in DOMAIN h /\ g[m].type = h[m].type /\ Size(g, m) = Size(h, m)
               /\ \A i \in 1..Size(g, m) : KeyAt(g, m, i) = KeyAt(h, m, i)
    BY <2>1, <1>15, <1>19 DEF Size, KeyAt
  <2>3. \A i \in 1..Size(g, n) : KeyAt(g, n, i) = KeyAt(h, n, i)
    BY <2>1, <1>9, <1>17, <1>20 DEF KeyAt
  <2>4. n \in DOMAIN h /\ g[n].type = h[n].type /\ 1..Size(g, n) \subseteq 1..Size(h, n)
    BY <1>1, <1>15, <1>16, <1>17
  <2>5. \A m \in DOMAIN g : \E k \in DOMAIN h :
          /\ g[m].type = h[k].type /\ 1..Size(g, m) \subseteq 1..Size(h, k)
          /\ \A i \in 1..Size(g, m) : KeyAt(g, m, i) = KeyAt(h, k, i)
    BY <2>2, <2>3, <2>4
  <2> QED BY <2>5, NumberedKept DEF Good
<1>24. Shortened(h, n, size, g)
  <2>1. \A m \in DOMAIN h : h[m].parent = h[n].parent => m \in DOMAIN g
    <3> SUFFICES ASSUME NEW m \in DOMAIN h, h[m].parent = h[n].parent, m \in B PROVE FALSE
      BY <1>15
    <3>1. h[n].parent \notin B
      BY <1>15, <1>18
    <3>2. h[n].parent = n
      BY <3>1, <1>5, <1>7
    <3> QED BY <3>2, BelowTree, BelowIs DEF Good
  <2> QED BY <2>1, <1>9, <1>15, <1>16, <1>17, <1>20 DEF Shortened
<1> QED BY <1>12, <1>21, <1>22, <1>23, <1>24, <1>25 DEF Good

(***************************************************************************)
(* Moves                                                                   *)
(***************************************************************************)

LEMMA ListedBelow ==
  ASSUME NEW h, Good(h), NEW n \in DOMAIN h, NEW m \in DOMAIN h, h[m].parent \in Below(h, n)
  PROVE  m \in Below(h, n)
<1>1. Below(h, n) \subseteq DOMAIN h /\ Closed(h, Below(h, n))
  BY BelowIs DEF Good
<1>2. h[m].parent # NoNode
  BY <1>1, NoNodeAssumption DEF Good, Formed
<1>3. PICK i \in 1..Size(h, h[m].parent) : h[h[m].parent].children[i] = m
  BY <1>2 DEF Good, Linked, IsTop
<1> QED BY <1>1, <1>3 DEF Closed

\* g is h after the children of s became those of t.
Moved(h, t, s, g) ==
  LET D == DOMAIN h \ (Below(h, t) \ {t})
  IN /\ DOMAIN g = D /\ g = [m \in D |-> g[m]]
     /\ \A m \in D : IsNode(g[m]) /\ g[m].ndx = h[m].ndx /\ g[m].key = h[m].key
     /\ \A m \in D : m \in ToSet(h[s].children) => g[m].parent = t
     /\ \A m \in D : m \notin ToSet(h[s].children) => g[m].parent = h[m].parent
     /\ \A m \in D \ {t, s} : g[m].type = h[m].type /\ g[m].children = h[m].children
     /\ g[t].type = h[s].type /\ g[t].children = h[s].children
     /\ g[s].type = h[s].type /\ g[s].children = <<>>

LEMMA MoveIs ==
  ASSUME NEW h, Good(h), NEW t \in DOMAIN h, NEW s \in DOMAIN h,
         t \notin Below(h, s), s \notin Below(h, t)
  PROVE  Moved(h, t, s, Move(h, t, s))
<1>1. PICK D : D = DOMAIN h \ (Below(h, t) \ {t})
  OBVIOUS
<1>2. PICK c : c = ToSet(h[s].children)
  OBVIOUS
<1>3. t # s /\ t \in D /\ s \in D /\ t \notin c /\ s \notin c
  <2>1. t \in Below(h, t) /\ s \in Below(h, s) /\ Closed(h, Below(h, s)) /\ h[s].parent \notin Below(h, s)
    BY BelowIs, BelowTree DEF Good
  <2>2. t \notin c
    BY <1>2, <2>1, ToSetIs DEF Closed, Good
  <2>3. s \notin c
    BY <1>2, <2>1, ToSetIs DEF Good, Linked
  <2> QED BY <1>1, <2>1, <2>2, <2>3
<1>4. PICK f : f = [m \in D |-> h[m]]
  OBVIOUS
<1>5. ChildrenDropped(h, t) = f
  BY <1>1, <1>4 DEF ChildrenDropped, Dropped, Restrict
<1>6. PICK p : p = [m \in D |-> [h[m] EXCEPT !.parent = t]]
  OBVIOUS
<1>7. PICK a : a = [m \in D |-> IF m \in c THEN p[m] ELSE h[m]]
  OBVIOUS
<1>8. Adopted(f, t, s) = a
  <2>1. f[s] = h[s] /\ DOMAIN f = D /\ \A m \in D : f[m] = h[m]
    BY <1>3, <1>4
  <2> QED BY <1>2, <1>6, <1>7, <2>1 DEF Adopted
<1>9. \A m \in D : /\ IsNode(p[m]) /\ p[m].type = h[m].type /\ p[m].ndx = h[m].ndx
                   /\ p[m].children = h[m].children /\ p[m].parent = t /\ p[m].key = h[m].key
  <2> TAKE m \in D
  <2>1. PICK r : r = h[m] /\ IsNode(r)
    BY <1>1 DEF Good, Formed
  <2>2. p[m] = [r EXCEPT !.parent = t]
    BY <1>6, <2>1
  <2>3. p[m] = [type |-> r.type, key |-> r.key, val |-> r.val, ndx |-> r.ndx,
                parent |-> t, children |-> r.children]
    BY <2>1, <2>2 DEF IsNode
  <2> QED BY <2>1, <2>3 DEF IsNode
<1>10. PICK rt : rt = [a[t] EXCEPT !.type = h[s].type, !.val = h[s].val, !.children = h[s].children]
  OBVIOUS
<1>11. PICK rs : rs = [a[s] EXCEPT !.val = "", !.children = <<>>]
  OBVIOUS
<1>12. PICK g : g = [a EXCEPT ![t] = rt, ![s] = rs]
  OBVIOUS
<1>13. Move(h, t, s) = g
  <2>1. a \in [D -> {a[m] : m \in D}] /\ t # s /\ t \in D /\ s \in D
    BY <1>3, <1>7
  <2>2. g = [a EXCEPT ![t] = [@ EXCEPT !.type = h[s].type, !.val = h[s].val, !.children = h[s].children],
                      ![s] = [@ EXCEPT !.val = "", !.children = <<>>]]
    BY <1>10, <1>11, <1>12, <2>1
  <2> QED BY <1>5, <1>8, <2>2 DEF Move
<1>14. /\ IsNode(rt) /\ rt.type = h[s].type /\ rt.children = h[s].children
       /\ rt.ndx = h[t].ndx /\ rt.key = h[t].key /\ rt.parent = h[t].parent
  <2>1. PICK r : r = h[t] /\ IsNode(r) /\ a[t] = r
    BY <1>3, <1>7 DEF Good, Formed
  <2>2. PICK x : x = [r EXCEPT !.type = h[s].type]
    OBVIOUS
  <2>3. x = [type |-> h[s].type, key |-> r.key, val |-> r.val, ndx |-> r.ndx, parent |-> r.parent,
             children |-> r.children]
    BY <2>1, <2>2 DEF IsNode
  <2>4. PICK y : y = [x EXCEPT !.val = h[s].val]
    OBVIOUS
  <2>5. y = [type |-> h[s].type, key |-> r.key, val |-> h[s].val, ndx |-> r.ndx, parent |-> r.parent,
             children |-> r.children]
    BY <2>3, <2>4
  <2>6. PICK z : z = [y EXCEPT !.children = h[s].children]
    OBVIOUS
  <2>7. z = [type |-> h[s].type, key |-> r.key, val |-> h[s].val, ndx |-> r.ndx, parent |-> r.parent,
             children |-> h[s].children]
    BY <2>5, <2>6
  <2>8. rt = z
    BY <1>10, <2>1, <2>2, <2>4, <2>6
  <2> QED BY <2>1, <2>7, <2>8 DEF IsNode
<1>15. /\ IsNode(rs) /\ rs.type = h[s].type /\ rs.children = <<>>
       /\ rs.ndx = h[s].ndx /\ rs.key = h[s].key /\ rs.parent = h[s].parent
  <2>1. PICK r : r = h[s] /\ IsNode(r) /\ a[s] = r
    BY <1>3, <1>7 DEF Good, Formed
  <2>2. PICK y : y = [r EXCEPT !.val = ""]
    OBVIOUS
  <2>3. y = [type |-> r.type, key |-> r.key, val |-> "", ndx |-> r.ndx, parent |-> r.parent,
             children |-> r.children]
    BY <2>1, <2>2 DEF IsNode
  <2>4. PICK z : z = [y EXCEPT !.children = <<>>]
    OBVIOUS
  <2>5. z = [type |-> r.type, key |-> r.key, val |-> "", ndx |-> r.ndx, parent |-> r.parent,
             children |-> <<>>]
    BY <2>3, <2>4
  <2>6. rs = z
    BY <1>11, <2>1, <2>2, <2>4
  <2> QED BY <2>1, <2>5, <2>6 DEF IsNode
<1>16. DOMAIN g = D /\ g = [m \in D |-> g[m]] /\ g[t] = rt /\ g[s] = rs /\ \A m \in D \ {t, s} : g[m] = a[m]
  BY <1>3, <1>7, <1>12
<1>17. \A m \in D \ {t, s} : /\ IsNode(g[m]) /\ g[m].ndx = h[m].ndx /\ g[m].type = h[m].type
                             /\ g[m].key = h[m].key /\ g[m].children = h[m].children
                             /\ m \in c => g[m].parent = t
                             /\ m \notin c => g[m].parent = h[m].parent
  <2> TAKE m \in D \ {t, s}
  <2>1. CASE m \in c
    BY <2>1, <1>7, <1>9, <1>16
  <2>2. CASE m \notin c
    BY <2>2, <1>1, <1>7, <1>16 DEF Good, Formed
  <2> QED BY <2>1, <2>2
<1> QED BY <1>1, <1>2, <1>3, <1>13, <1>14, <1>15, <1>16, <1>17 DEF Moved

LEMMA MoveGood ==
  ASSUME NEW h, Good(h), NEW t \in DOMAIN h, NEW s \in DOMAIN h,
         t \notin Below(h, s), s \notin Below(h, t)
  PROVE  Good(Move(h, t, s))
<1>1. PICK g : g = Move(h, t, s)
  OBVIOUS
<1>2. PICK D : D = DOMAIN h \ (Below(h, t) \ {t})
  OBVIOUS
<1>3. Moved(h, t, s, g)
  BY <1>1, MoveIs
<1>4. /\ DOMAIN g = D /\ g = [m \in D |-> g[m]]
      /\ \A m \in D : IsNode(g[m]) /\ g[m].ndx = h[m].ndx /\ g[m].key = h[m].key
      /\ \A m \in D \ {t, s} : g[m].type = h[m].type /\ g[m].children = h[m].children
      /\ g[t].type = h[s].type /\ g[t].children = h[s].children
      /\ g[s].type = h[s].type /\ g[s].children = <<>>
  BY <1>2, <1>3 DEF Moved
<1>5. \A m \in D : /\ (\E i \in 1..Size(h, s) : m = h[s].children[i]) => g[m].parent = t
                   /\ (~\E i \in 1..Size(h, s) : m = h[s].children[i]) => g[m].parent = h[m].parent
  <2>1. \A m : m \in ToSet(h[s].children) <=> \E i \in 1..Size(h, s) : m = h[s].children[i]
    BY ToSetIs DEF Good
  <2>2. PICK c : c = ToSet(h[s].children)
    OBVIOUS
  <2>3. \A m \in D : (m \in c => g[m].parent = t) /\ (m \notin c => g[m].parent = h[m].parent)
    BY <1>2, <1>3, <2>2 DEF Moved
  <2> QED BY <2>1, <2>2, <2>3
<1>6. /\ t # s /\ t \in D /\ s \in D /\ D \subseteq DOMAIN h
      /\ \A i \in 1..Size(h, s) : h[s].children[i] \in D \ {t, s} /\ h[s].children[i] \in Below(h, s)
  <2>1. t \in Below(h, t) /\ s \in Below(h, s) /\ Closed(h, Below(h, s)) /\ h[s].parent \notin Below(h, s)
    BY BelowIs, BelowTree DEF Good
  <2>2. ASSUME NEW i \in 1..Size(h, s)
        PROVE  h[s].children[i] \in D \ {t, s} /\ h[s].children[i] \in Below(h, s)
    <3>1. PICK x : x = h[s].children[i]
      OBVIOUS
    <3>2. x \in DOMAIN h /\ h[x].parent = s /\ x \in Below(h, s)
      BY <2>1, <3>1, ChildrenAre DEF Good, Linked, Closed
    <3>3. x # s /\ x # t
      BY <2>1, <3>2
    <3>4. x \notin Below(h, t) \ {t}
      BY <3>2, BelowTree
    <3> QED BY <1>2, <3>1, <3>2, <3>3, <3>4
  <2> QED BY <1>2, <2>1, <2>2
<1>7. \A m \in D \ {t, s} : \A i \in 1..Size(h, m) :
        /\ h[m].children[i] \in D
        /\ g[h[m].children[i]].parent = m /\ g[h[m].children[i]].ndx = i - 1
  <2> SUFFICES ASSUME NEW m \in D \ {t, s}, NEW i \in 1..Size(h, m)
               PROVE  /\ h[m].children[i] \in D
                      /\ g[h[m].children[i]].parent = m /\ g[h[m].children[i]].ndx = i - 1
    OBVIOUS
  <2>1. PICK x : x = h[m].children[i]
    OBVIOUS
  <2>2. x \in DOMAIN h /\ h[x].parent = m /\ h[x].ndx = i - 1 /\ m \in DOMAIN h \ Below(h, t)
    BY <1>2, <2>1, ChildrenAre DEF Good, Linked
  <2>3. x \in D
    BY <1>2, <2>1, <2>2, BelowTree
  <2>4. ~\E j \in 1..Size(h, s) : x = h[s].children[j]
    BY <2>2 DEF Good, Linked
  <2> QED BY <1>4, <1>5, <2>1, <2>2, <2>3, <2>4
<1>8. Formed(g)
  <2>1. D \subseteq Nat /\ IsFiniteSet(D)
    BY <1>6, FS_Subset DEF Good, Formed
  <2>2. ASSUME NEW m \in D \ {t, s} PROVE g[m].children \in Seq(D)
    <3>1. h[m].children \in Seq(DOMAIN h) /\ g[m].children = h[m].children
      BY <1>4, <1>6 DEF Good, Formed
    <3>2. \A i \in 1..Len(h[m].children) : h[m].children[i] \in D
      BY <1>7 DEF Size
    <3> QED BY <3>1, <3>2
  <2>3. g[t].children \in Seq(D)
    <3>1. h[s].children \in Seq(DOMAIN h) /\ g[t].children = h[s].children
      BY <1>4 DEF Good, Formed
    <3>2. \A i \in 1..Len(h[s].children) : h[s].children[i] \in D
      BY <1>6 DEF Size
    <3> QED BY <3>1, <3>2
  <2>4. g[s].children \in Seq(D)
    <3>1. <<>> \in Seq(D)
      OBVIOUS
    <3> QED BY <3>1, <1>4
  <2> QED BY <1>4, <2>1, <2>2, <2>3, <2>4 DEF Formed
<1>9. Linked(g)
  <2>1. ASSUME NEW m \in D, ~IsTop(g, m)
        PROVE  /\ g[m].parent \in D
               /\ \E i \in 1..Size(g, g[m].parent) : g[g[m].parent].children[i] = m
    <3>1. CASE \E i \in 1..Size(h, s) : m = h[s].children[i]
      BY <3>1, <1>4, <1>5, <1>6 DEF Size
    <3>2. CASE ~\E i \in 1..Size(h, s) : m = h[s].children[i]
      <4>1. PICK k : k = h[m].parent /\ g[m].parent = k
        BY <3>2, <1>5
      <4>2. PICK i \in 1..Size(h, k) : k \in DOMAIN h /\ h[k].children[i] = m
        BY <1>6, <2>1, <4>1 DEF IsTop, Good, Linked
      <4>3. k # s
        BY <3>2, <4>2
      <4>4. k \notin Below(h, t)
        <5>1. SUFFICES ASSUME k \in Below(h, t) PROVE FALSE
          OBVIOUS
        <5>2. m \in Below(h, t)
          BY <1>6, <4>1, <5>1, ListedBelow
        <5>3. m = t
          BY <1>2, <5>2
        <5> QED BY <4>1, <5>1, <5>3, BelowTree
      <4>5. k \in D \ {t, s}
        BY <1>2, <1>6, <4>2, <4>3, <4>4, BelowIs DEF Good
      <4> QED BY <1>4, <4>1, <4>2, <4>5 DEF Size
    <3> QED BY <3>1, <3>2
  <2>2. ASSUME NEW m \in D
        PROVE  /\ \A i \in 1..Size(g, m) : g[g[m].children[i]].parent = m /\ g[g[m].children[i]].ndx = i - 1
               /\ Size(g, m) > 0 => g[m].type \in Structured
    <3>1. CASE m = t
      <4>1. Size(g, t) = Size(h, s) /\ (Size(h, s) > 0 => h[s].type \in Structured)
        BY <1>4 DEF Size, Good, Linked
      <4>2. \A i \in 1..Size(h, s) : g[h[s].children[i]].parent = t /\ g[h[s].children[i]].ndx = i - 1
        BY <1>4, <1>5, <1>6 DEF Good, Linked
      <4> QED BY <3>1, <4>1, <4>2, <1>4
    <3>2. CASE m = s
      BY <3>2, <1>4 DEF Size
    <3>3. CASE m \in D \ {t, s}
      <4>1. Size(g, m) = Size(h, m) /\ g[m].children = h[m].children /\ g[m].type = h[m].type
        BY <3>3, <1>4 DEF Size
      <4>2. Size(h, m) > 0 => h[m].type \in Structured
        BY <1>6 DEF Good, Linked
      <4> QED BY <3>3, <4>1, <4>2, <1>7
    <3> QED BY <3>1, <3>2, <3>3
  <2> QED BY <1>4, <2>1, <2>2 DEF Linked
<1>10. Grounded(g)
  <2> SUFFICES ASSUME NEW S \in SUBSET D, S # {} PROVE \E m \in S : g[m].parent \notin S
    BY <1>4 DEF Grounded
  <2>1. CASE S \subseteq Below(h, s)
    <3>1. PICK m \in S : h[m].parent \notin S
      BY <1>6 DEF Good, Grounded
    <3>2. g[m].parent = t \/ g[m].parent = h[m].parent
      BY <1>5
    <3> QED BY <2>1, <3>1, <3>2
  <2>2. CASE ~(S \subseteq Below(h, s))
    <3>1. S \ Below(h, s) \in SUBSET DOMAIN h /\ S \ Below(h, s) # {}
      BY <1>6, <2>2
    <3>2. PICK m \in S \ Below(h, s) : h[m].parent \notin S \ Below(h, s)
      BY <3>1 DEF Good, Grounded
    <3>3. g[m].parent = h[m].parent
      BY <1>5, <1>6, <3>2
    <3>4. h[m].parent \notin Below(h, s)
      BY <1>6, <3>2, ListedBelow
    <3> QED BY <3>2, <3>3, <3>4
  <2> QED BY <2>1, <2>2
<1>11. Numbered(g)
  <2>1. ASSUME NEW m \in D \ {t, s}
        PROVE  /\ m \in DOMAIN h /\ g[m].type = h[m].type /\ Size(g, m) = Size(h, m)
               /\ \A i \in 1..Size(g, m) : KeyAt(g, m, i) = KeyAt(h, m, i)
    BY <1>4, <1>6, <1>7 DEF Size, KeyAt
  <2>2. /\ g[t].type = h[s].type /\ Size(g, t) = Size(h, s)
        /\ \A i \in 1..Size(g, t) : KeyAt(g, t, i) = KeyAt(h, s, i)
    BY <1>4, <1>6 DEF Size, KeyAt
  <2>3. Size(g, s) = 0
    BY <1>4 DEF Size
  <2> QED BY <2>1, <2>2, <2>3, <1>4, NumberedKept DEF Good
<1> QED BY <1>1, <1>8, <1>9, <1>10, <1>11 DEF Good

(***************************************************************************)
(* Copies                                                                  *)
(***************************************************************************)

LEMMA RankIs ==
  ASSUME NEW F \in SUBSET Nat, IsFiniteSet(F)
  PROVE  /\ \A m \in F : Rank(F, m) \in 0..(Cardinality(F) - 1)
         /\ \A k, m \in F : Rank(F, k) = Rank(F, m) => k = m
         /\ \A r \in 0..(Cardinality(F) - 1) : \E m \in F : Rank(F, m) = r
<1>1. PICK N \in Nat : N = Cardinality(F)
  BY FS_CardinalityType
<1>2. ASSUME NEW m \in F
      PROVE  Rank(F, m) \in Nat /\ Rank(F, m) < N
  <2>1. PICK R : R = {k \in F : k < m}
    OBVIOUS
  <2>2. R \in SUBSET F /\ R # F
    BY <2>1
  <2>3. IsFiniteSet(R) /\ Cardinality(R) <= N /\ Cardinality(R) # N
    BY <1>1, <2>2, FS_Subset
  <2>4. Cardinality(R) \in Nat
    BY <2>3, FS_CardinalityType
  <2> QED BY <2>1, <2>3, <2>4, <1>1 DEF Rank
<1>3. ASSUME NEW k \in F, NEW m \in F, k < m PROVE Rank(F, k) < Rank(F, m)
  <2>1. PICK R : R = {j \in F : j < k}
    OBVIOUS
  <2>2. PICK Q : Q = {j \in F : j < m}
    OBVIOUS
  <2>3. R \in SUBSET Q /\ R # Q /\ Q \in SUBSET F
    <3>1. k \in Q /\ k \notin R
      BY <1>3, <2>1, <2>2
    <3>2. \A j \in R : j \in Q
      BY <1>3, <2>1, <2>2
    <3> QED BY <2>2, <3>1, <3>2
  <2>4. IsFiniteSet(Q)
    BY <2>3, FS_Subset
  <2>5. Cardinality(R) <= Cardinality(Q) /\ Cardinality(R) # Cardinality(Q)
    BY <2>3, <2>4, FS_Subset
  <2> QED BY <2>1, <2>2, <2>5, <1>2 DEF Rank
<1>4. \A k, m \in F : Rank(F, k) = Rank(F, m) => k = m
  <2> TAKE k, m \in F
  <2>1. k < m \/ m < k \/ k = m
    OBVIOUS
  <2> QED BY <2>1, <1>2, <1>3
<1>5. ASSUME NEW r \in 0..(N - 1) PROVE \E m \in F : Rank(F, m) = r
  <2>1. PICK T : T = 0..(N - 1)
    OBVIOUS
  <2>2. IsFiniteSet(T) /\ Cardinality(T) = N
    BY <1>1, <2>1, FS_Interval
  <2>3. PICK f : f = [m \in F |-> Rank(F, m)]
    OBVIOUS
  <2>4. f \in Injection(F, T)
    BY <1>2, <1>4, <1>1, <2>1, <2>3 DEF Injection, IsInjective
  <2>5. f \in Surjection(F, T)
    BY <1>1, <2>2, <2>4, FS_Injection
  <2> QED BY <2>1, <2>3, <2>5 DEF Surjection
<1>6. \A m \in F : Rank(F, m) \in 0..(N - 1)
  BY <1>2
<1> QED BY <1>1, <1>4, <1>5, <1>6

\* Twins are new nodes, and differ when their originals do.
LEMMA TwinsAre ==
  ASSUME NEW h, Formed(h), NEW S \in SUBSET DOMAIN h
  PROVE  /\ DOMAIN Twins(h, S) = S
         /\ \A m \in S : Twins(h, S)[m] \in Nat \ DOMAIN h
         /\ \A k, m \in S : Twins(h, S)[k] = Twins(h, S)[m] => k = m
<1>1. S \in SUBSET Nat /\ IsFiniteSet(S)
  BY FS_Subset DEF Formed
<1>2. PICK N \in Nat : N = Cardinality(S)
  BY <1>1, FS_CardinalityType
<1>3. PICK F : F = FreeNodes(h, N)
  OBVIOUS
<1>4. F \subseteq Nat \ DOMAIN h /\ IsFiniteSet(F) /\ Cardinality(F) >= N
  BY <1>2, <1>3, FreeNodesAre DEF Formed
<1>5. PICK M \in Nat : M = Cardinality(F)
  BY <1>4, FS_CardinalityType
<1>6. PICK tw : tw = [m \in S |-> CHOOSE k \in F : Rank(F, k) = Rank(S, m)]
  OBVIOUS
<1>7. Twins(h, S) = tw
  BY <1>2, <1>3, <1>6 DEF Twins
<1>8. \A m \in S : tw[m] \in F /\ Rank(F, tw[m]) = Rank(S, m)
  <2> TAKE m \in S
  <2>1. PICK r : r = Rank(S, m)
    OBVIOUS
  <2>2. r \in 0..(N - 1)
    BY <1>1, <1>2, <2>1, RankIs
  <2>3. r \in 0..(M - 1)
    BY <1>4, <1>5, <2>2
  <2>4. \E k \in F : Rank(F, k) = r
    BY <1>4, <1>5, <2>3, RankIs
  <2>5. tw[m] = CHOOSE k \in F : Rank(F, k) = r
    BY <1>6, <2>1
  <2> QED BY <2>1, <2>4, <2>5
<1>9. \A k, m \in S : tw[k] = tw[m] => k = m
  BY <1>1, <1>8, RankIs
<1> QED BY <1>4, <1>6, <1>7, <1>8, <1>9

\* g is h and the nodes tw[m], copies of the m below s, as children of t.
CopiedBelow(h, t, s, tw, g) ==
  LET from == Below(h, s) \ {s}
  IN /\ DOMAIN tw = from /\ \A m \in from : tw[m] \in Nat \ DOMAIN h
     /\ \A k, m \in from : tw[k] = tw[m] => k = m
     /\ DOMAIN g = DOMAIN h \cup {tw[m] : m \in from} /\ g = [m \in DOMAIN g |-> g[m]]
     /\ \A m \in DOMAIN h \ {t} : g[m] = h[m]
     /\ g[t] = [type |-> h[t].type, key |-> h[t].key, val |-> h[t].val, ndx |-> h[t].ndx,
                parent |-> h[t].parent, children |-> [i \in 1..Size(h, s) |-> tw[h[s].children[i]]]]
     /\ \A m \in from :
          g[tw[m]] = [type |-> h[m].type, key |-> h[m].key, val |-> h[m].val, ndx |-> h[m].ndx,
                      parent |-> IF h[m].parent = s THEN t ELSE tw[h[m].parent],
                      children |-> [i \in 1..Size(h, m) |-> tw[h[m].children[i]]]]

LEMMA CopyBelowIs ==
  ASSUME NEW h, Good(h), NEW t \in DOMAIN h, NEW s \in DOMAIN h
  PROVE  \E tw : CopiedBelow(h, t, s, tw, CopyBelow(h, t, s))
<1>1. PICK from : from = Below(h, s) \ {s}
  OBVIOUS
<1>2. from \in SUBSET DOMAIN h /\ \A m \in from : h[m].parent \in DOMAIN h
  BY <1>1, BelowIs, BelowTree DEF Good
<1>3. PICK tw : tw = Twins(h, from)
  OBVIOUS
<1>4. /\ DOMAIN tw = from /\ \A m \in from : tw[m] \in Nat \ DOMAIN h
      /\ \A k, m \in from : tw[k] = tw[m] => k = m
  BY <1>2, <1>3, TwinsAre DEF Good
<1>5. PICK q : q = TwinsOf(h[s].children, tw)
  OBVIOUS
<1>6. PICK e : e = [h EXCEPT ![t] = [h[t] EXCEPT !.children = q]]
  OBVIOUS
<1>7. PICK W : W = {tw[m] : m \in from}
  OBVIOUS
<1>8. PICK g : g = [k \in DOMAIN h \cup W |->
                      IF k \in W THEN TwinOf(h, t, s, tw, CHOOSE m \in from : tw[m] = k) ELSE e[k]]
  OBVIOUS
<1>9. CopyBelow(h, t, s) = g
  <2>1. e = [h EXCEPT ![t].children = TwinsOf(h[s].children, tw)]
    BY <1>5, <1>6
  <2> QED BY <1>1, <1>3, <1>7, <1>8, <2>1 DEF CopyBelow
<1>10. \A k \in from : tw[k] \in W /\ (CHOOSE m \in from : tw[m] = tw[k]) = k
  BY <1>4, <1>7
<1>11. \A x \in W : x \in Nat \ DOMAIN h
  BY <1>4, <1>7
<1>12. DOMAIN g = DOMAIN h \cup W /\ g = [m \in DOMAIN g |-> g[m]]
  BY <1>8
<1>13. \A k \in DOMAIN h : g[k] = e[k]
  BY <1>8, <1>11
<1>14. \A m \in DOMAIN h \ {t} : g[m] = h[m]
  BY <1>6, <1>13
<1>15. g[t] = [type |-> h[t].type, key |-> h[t].key, val |-> h[t].val, ndx |-> h[t].ndx,
               parent |-> h[t].parent, children |-> [i \in 1..Size(h, s) |-> tw[h[s].children[i]]]]
  <2>1. PICK r : r = h[t] /\ IsNode(r)
    BY DEF Good, Formed
  <2>2. g[t] = [r EXCEPT !.children = q]
    BY <1>6, <1>13, <2>1 DEF Good, Formed
  <2>3. q = [i \in 1..Size(h, s) |-> tw[h[s].children[i]]]
    BY <1>5, ChildrenAre DEF Good, TwinsOf
  <2> QED BY <2>1, <2>2, <2>3 DEF IsNode
<1>16. ASSUME NEW m \in from
       PROVE  g[tw[m]] = [type |-> h[m].type, key |-> h[m].key, val |-> h[m].val, ndx |-> h[m].ndx,
                          parent |-> IF h[m].parent = s THEN t ELSE tw[h[m].parent],
                          children |-> [i \in 1..Size(h, m) |-> tw[h[m].children[i]]]]
  <2>1. g[tw[m]] = TwinOf(h, t, s, tw, m)
    BY <1>8, <1>10
  <2>2. PICK r : r = h[m] /\ IsNode(r) /\ m \in DOMAIN h /\ r.parent \in DOMAIN h
    BY <1>2 DEF Good, Formed
  <2>3. PICK p : p = IF r.parent = s THEN t ELSE tw[r.parent]
    OBVIOUS
  <2>4. PlaceOf(h, r.parent, m) - 1 = r.ndx
    <3>1. PICK i \in 1..Size(h, r.parent) : h[r.parent].children[i] = m
      BY <2>2, NoNodeAssumption DEF Good, Formed, Linked, IsTop
    <3>2. PlaceOf(h, r.parent, h[r.parent].children[i]) = i
      BY <2>2, <3>1, PlaceOfIs DEF Good
    <3>3. h[h[r.parent].children[i]].ndx = i - 1
      BY <2>2, <3>1 DEF Good, Linked
    <3> QED BY <2>2, <3>1, <3>2, <3>3
  <2>5. PICK c : c = TwinsOf(r.children, tw)
    OBVIOUS
  <2>6. c = [i \in 1..Size(h, m) |-> tw[h[m].children[i]]]
    BY <2>2, <2>5, ChildrenAre DEF Good, TwinsOf
  <2>7. PICK x : x = [r EXCEPT !.parent = p]
    OBVIOUS
  <2>8. x = [type |-> r.type, key |-> r.key, val |-> r.val, ndx |-> r.ndx, parent |-> p,
             children |-> r.children]
    BY <2>2, <2>7 DEF IsNode
  <2>9. PICK y : y = [x EXCEPT !.ndx = r.ndx]
    OBVIOUS
  <2>10. y = [type |-> r.type, key |-> r.key, val |-> r.val, ndx |-> r.ndx, parent |-> p,
              children |-> r.children]
    BY <2>8, <2>9
  <2>11. PICK z : z = [y EXCEPT !.children = c]
    OBVIOUS
  <2>12. z = [type |-> r.type, key |-> r.key, val |-> r.val, ndx |-> r.ndx, parent |-> p, children |-> c]
    BY <2>10, <2>11
  <2>13. TwinOf(h, t, s, tw, m) = z
    <3>1. TwinOf(h, t, s, tw, m) = [r EXCEPT !.parent = p, !.ndx = r.ndx, !.children = c]
      BY <2>2, <2>3, <2>4, <2>5 DEF TwinOf
    <3> QED BY <2>7, <2>9, <2>11, <3>1
  <2> QED BY <2>1, <2>2, <2>3, <2>6, <2>12, <2>13
<1>17. CopiedBelow(h, t, s, tw, g)
  BY <1>1, <1>4, <1>7, <1>12, <1>14, <1>15, <1>16 DEF CopiedBelow
<1> QED BY <1>9, <1>17

LEMMA CopyBelowGood ==
  ASSUME NEW h, Good(h), NEW t \in DOMAIN h, NEW s \in DOMAIN h,
         h[t].children = <<>>, t \notin Below(h, s), Size(h, s) > 0 => h[t].type = h[s].type
  PROVE  /\ Good(CopyBelow(h, t, s)) /\ DOMAIN h \subseteq DOMAIN CopyBelow(h, t, s)
         /\ \A m \in DOMAIN h : /\ CopyBelow(h, t, s)[m].type = h[m].type
                                /\ CopyBelow(h, t, s)[m].parent = h[m].parent
                                /\ m # t => CopyBelow(h, t, s)[m].children = h[m].children
         /\ \A m \in DOMAIN h \ {t} : CopyBelow(h, t, s)[m] = h[m]
         /\ CopyBelow(h, t, s)[t].key = h[t].key
<1>0. Size(h, s) > 0 => h[t].type \in Structured
  BY DEF Good, Linked
<1>1. PICK g : g = CopyBelow(h, t, s)
  OBVIOUS
<1>2. PICK from : from = Below(h, s) \ {s}
  OBVIOUS
<1>3. PICK tw : CopiedBelow(h, t, s, tw, g)
  BY <1>1, CopyBelowIs
<1>4. PICK W : W = {tw[m] : m \in from}
  OBVIOUS
<1>5. /\ \A m \in from : tw[m] \in Nat \ DOMAIN h /\ tw[m] \in W
      /\ \A x \in W : x \in Nat \ DOMAIN h /\ \E m \in from : x = tw[m]
      /\ DOMAIN g = DOMAIN h \cup W /\ g = [m \in DOMAIN g |-> g[m]]
      /\ \A m \in DOMAIN h \ {t} : g[m] = h[m]
  BY <1>2, <1>3, <1>4 DEF CopiedBelow
<1>6. /\ g[t] = [type |-> h[t].type, key |-> h[t].key, val |-> h[t].val, ndx |-> h[t].ndx,
                 parent |-> h[t].parent, children |-> [i \in 1..Size(h, s) |-> tw[h[s].children[i]]]]
      /\ \A m \in from :
           g[tw[m]] = [type |-> h[m].type, key |-> h[m].key, val |-> h[m].val, ndx |-> h[m].ndx,
                       parent |-> IF h[m].parent = s THEN t ELSE tw[h[m].parent],
                       children |-> [i \in 1..Size(h, m) |-> tw[h[m].children[i]]]]
  BY <1>2, <1>3 DEF CopiedBelow
<1>7. /\ from \in SUBSET DOMAIN h /\ IsFiniteSet(from)
      /\ \A m \in from : h[m].parent = s \/ h[m].parent \in from
      /\ \A m \in from \cup {s} : \A i \in 1..Size(h, m) : h[m].children[i] \in from
  <2>1. /\ s \in Below(h, s) /\ Below(h, s) \subseteq DOMAIN h /\ Closed(h, Below(h, s))
        /\ \A m \in Below(h, s) \ {s} : h[m].parent \in Below(h, s)
        /\ h[s].parent \notin Below(h, s)
    BY BelowIs, BelowTree DEF Good
  <2>2. from \in SUBSET DOMAIN h /\ IsFiniteSet(from)
    BY <1>2, <2>1, FS_Subset DEF Good, Formed
  <2>3. ASSUME NEW m \in from \cup {s}, NEW i \in 1..Size(h, m) PROVE h[m].children[i] \in from
    <3>1. m \in Below(h, s) /\ m \in DOMAIN h
      BY <1>2, <2>1
    <3>2. h[m].children[i] \in Below(h, s) /\ h[h[m].children[i]].parent = m
      BY <2>1, <3>1 DEF Closed, Good, Linked
    <3>3. h[m].children[i] # s
      BY <2>1, <3>1, <3>2
    <3> QED BY <1>2, <3>2, <3>3
  <2> QED BY <1>2, <2>1, <2>2, <2>3
<1>8. ASSUME NEW m \in from
      PROVE  /\ IsNode(g[tw[m]]) /\ g[tw[m]].type = h[m].type /\ g[tw[m]].ndx = h[m].ndx
             /\ h[m].parent = s => g[tw[m]].parent = t
             /\ h[m].parent # s => g[tw[m]].parent = tw[h[m].parent]
             /\ g[tw[m]].key = h[m].key
             /\ g[tw[m]].children \in Seq(W) /\ Size(g, tw[m]) = Size(h, m)
             /\ \A i \in 1..Size(h, m) : g[tw[m]].children[i] = tw[h[m].children[i]]
  <2>1. PICK c : c = [i \in 1..Size(h, m) |-> tw[h[m].children[i]]]
    OBVIOUS
  <2>2. Size(h, m) \in Nat /\ \A i \in 1..Size(h, m) : tw[h[m].children[i]] \in W
    BY <1>5, <1>7, ChildrenAre DEF Good
  <2>3. c \in Seq(W) /\ Len(c) = Size(h, m) /\ \A i \in 1..Size(h, m) : c[i] = tw[h[m].children[i]]
    BY <2>1, <2>2
  <2>4. PICK p : p = IF h[m].parent = s THEN t ELSE tw[h[m].parent]
    OBVIOUS
  <2>5. g[tw[m]] = [type |-> h[m].type, key |-> h[m].key, val |-> h[m].val, ndx |-> h[m].ndx,
                    parent |-> p, children |-> c]
    BY <1>6, <2>1, <2>4
  <2>6. IsNode(g[tw[m]])
    BY <2>5 DEF IsNode
  <2>7. /\ g[tw[m]].type = h[m].type /\ g[tw[m]].ndx = h[m].ndx /\ g[tw[m]].parent = p
        /\ g[tw[m]].key = h[m].key /\ g[tw[m]].children = c
    BY <2>5
  <2> QED BY <2>3, <2>4, <2>6, <2>7 DEF Size
<1>9. /\ IsNode(g[t]) /\ g[t].type = h[t].type /\ g[t].ndx = h[t].ndx /\ g[t].parent = h[t].parent
      /\ g[t].children \in Seq(W) /\ Size(g, t) = Size(h, s)
      /\ \A i \in 1..Size(h, s) : g[t].children[i] = tw[h[s].children[i]]
  <2>1. PICK c : c = [i \in 1..Size(h, s) |-> tw[h[s].children[i]]]
    OBVIOUS
  <2>2. Size(h, s) \in Nat /\ \A i \in 1..Size(h, s) : tw[h[s].children[i]] \in W
    BY <1>5, <1>7, ChildrenAre DEF Good
  <2>3. c \in Seq(W) /\ Len(c) = Size(h, s) /\ \A i \in 1..Size(h, s) : c[i] = tw[h[s].children[i]]
    BY <2>1, <2>2
  <2>4. g[t] = [type |-> h[t].type, key |-> h[t].key, val |-> h[t].val, ndx |-> h[t].ndx,
                parent |-> h[t].parent, children |-> c]
    BY <1>6, <2>1
  <2>5. IsNode(g[t])
    BY <2>4 DEF IsNode
  <2>6. /\ g[t].type = h[t].type /\ g[t].ndx = h[t].ndx /\ g[t].parent = h[t].parent
        /\ g[t].children = c
    BY <2>4
  <2> QED BY <2>3, <2>5, <2>6 DEF Size
<1>10. \A m \in DOMAIN h : /\ IsNode(g[m]) /\ g[m].type = h[m].type /\ g[m].ndx = h[m].ndx
                           /\ g[m].parent = h[m].parent
  BY <1>5, <1>9 DEF Good, Formed
<1>11. \A m \in DOMAIN h : h[m].parent # t /\ h[m].parent \notin W
  <2> SUFFICES ASSUME NEW m \in DOMAIN h PROVE h[m].parent # t /\ h[m].parent \notin W
    OBVIOUS
  <2>1. CASE IsTop(h, m)
    BY <2>1, <1>5, NoNodeAssumption DEF IsTop, Good, Formed
  <2>2. CASE ~IsTop(h, m)
    <3>1. PICK i \in 1..Size(h, h[m].parent) : h[m].parent \in DOMAIN h
      BY <2>2 DEF Good, Linked
    <3>2. Size(h, t) = 0
      BY DEF Size
    <3> QED BY <3>1, <3>2, <1>5
  <2> QED BY <2>1, <2>2
<1>12. Formed(g)
  <2>1. DOMAIN g \subseteq Nat /\ IsFiniteSet(DOMAIN g)
    <3>1. PICK f : f = [m \in from |-> tw[m]]
      OBVIOUS
    <3>2. f \in Surjection(from, W)
      BY <1>5, <3>1 DEF Surjection
    <3>3. IsFiniteSet(W)
      BY <1>7, <3>2, FS_Surjection
    <3>4. DOMAIN h \subseteq Nat /\ IsFiniteSet(DOMAIN h)
      BY DEF Good, Formed
    <3>5. DOMAIN g = DOMAIN h \cup W
      BY <1>5
    <3>6. IsFiniteSet(DOMAIN h \cup W)
      BY <3>3, <3>4, FS_Union
    <3>7. DOMAIN h \cup W \subseteq Nat
      BY <1>5, <3>4
    <3> QED BY <3>5, <3>6, <3>7
  <2>2. ASSUME NEW m \in DOMAIN h \ {t} PROVE g[m].children \in Seq(DOMAIN g)
    BY <1>5 DEF Good, Formed
  <2>3. Seq(W) \subseteq Seq(DOMAIN g)
    BY <1>5
  <2>4. g[t].children \in Seq(DOMAIN g)
    BY <1>9, <2>3
  <2>5. ASSUME NEW x \in W PROVE IsNode(g[x]) /\ g[x].children \in Seq(DOMAIN g)
    BY <1>5, <1>8, <2>3
  <2> QED BY <1>5, <1>10, <2>1, <2>2, <2>4, <2>5 DEF Formed
<1>13. Linked(g)
  <2>1. ASSUME NEW m \in DOMAIN h
        PROVE  /\ \A i \in 1..Size(g, m) : g[g[m].children[i]].parent = m /\ g[g[m].children[i]].ndx = i - 1
               /\ Size(g, m) > 0 => g[m].type \in Structured
    <3>1. CASE m = t
      <4>1. ASSUME NEW i \in 1..Size(h, s)
            PROVE  g[tw[h[s].children[i]]].parent = t /\ g[tw[h[s].children[i]]].ndx = i - 1
        <5>1. h[s].children[i] \in from /\ h[h[s].children[i]].parent = s /\ h[h[s].children[i]].ndx = i - 1
          BY <1>7 DEF Good, Linked
        <5> QED BY <5>1, <1>8
      <4> QED BY <3>1, <4>1, <1>0, <1>9
    <3>2. CASE m # t
      <4>1. g[m] = h[m] /\ Size(g, m) = Size(h, m)
        BY <3>2, <1>5 DEF Size
      <4>2. \A i \in 1..Size(h, m) : h[m].children[i] \in DOMAIN h
        BY ChildrenAre DEF Good
      <4> QED BY <4>1, <4>2, <1>10 DEF Good, Linked
    <3> QED BY <3>1, <3>2
  <2>2. ASSUME NEW m \in from
        PROVE  /\ \A i \in 1..Size(g, tw[m]) : /\ g[g[tw[m]].children[i]].parent = tw[m]
                                               /\ g[g[tw[m]].children[i]].ndx = i - 1
               /\ Size(g, tw[m]) > 0 => g[tw[m]].type \in Structured
    <3>1. ASSUME NEW i \in 1..Size(h, m)
          PROVE  g[tw[h[m].children[i]]].parent = tw[m] /\ g[tw[h[m].children[i]]].ndx = i - 1
      <4>1. /\ h[m].children[i] \in from /\ h[h[m].children[i]].parent = m
            /\ h[h[m].children[i]].ndx = i - 1 /\ m # s
        BY <1>2, <1>7 DEF Good, Linked
      <4> QED BY <4>1, <1>8
    <3>2. Size(h, m) > 0 => h[m].type \in Structured
      BY <1>7 DEF Good, Linked
    <3> QED BY <3>1, <3>2, <1>8
  <2>3. ASSUME NEW m \in DOMAIN h, ~IsTop(g, m)
        PROVE  /\ g[m].parent \in DOMAIN g
               /\ \E i \in 1..Size(g, g[m].parent) : g[g[m].parent].children[i] = m
    <3>1. PICK k \in DOMAIN h : k = h[m].parent /\ g[m].parent = k /\ k # t
      BY <2>3, <1>10, <1>11 DEF IsTop, Good, Linked
    <3>2. PICK i \in 1..Size(h, k) : h[k].children[i] = m
      BY <2>3, <3>1, <1>10 DEF IsTop, Good, Linked
    <3>3. g[k] = h[k] /\ Size(g, k) = Size(h, k)
      BY <3>1, <1>5 DEF Size
    <3> QED BY <3>1, <3>2, <3>3, <1>5
  <2>4. ASSUME NEW m \in from
        PROVE  /\ g[tw[m]].parent \in DOMAIN g
               /\ \E i \in 1..Size(g, g[tw[m]].parent) : g[g[tw[m]].parent].children[i] = tw[m]
    <3>1. h[m].parent \in DOMAIN h /\ m \in DOMAIN h
      BY <1>7
    <3>2. PICK i \in 1..Size(h, h[m].parent) : h[h[m].parent].children[i] = m
      BY <3>1, NoNodeAssumption DEF Good, Formed, Linked, IsTop
    <3>3. CASE h[m].parent = s
      BY <3>2, <3>3, <1>5, <1>8, <1>9
    <3>4. CASE h[m].parent # s
      <4>1. h[m].parent \in from
        BY <3>4, <1>7
      <4>2. g[tw[m]].parent = tw[h[m].parent] /\ tw[h[m].parent] \in DOMAIN g
        BY <3>4, <4>1, <1>5, <1>8
      <4>3. /\ Size(g, tw[h[m].parent]) = Size(h, h[m].parent)
            /\ g[tw[h[m].parent]].children[i] = tw[h[h[m].parent].children[i]]
        BY <4>1, <1>8
      <4> QED BY <3>2, <4>2, <4>3
    <3> QED BY <3>3, <3>4
  <2> QED BY <1>5, <2>1, <2>2, <2>3, <2>4 DEF Linked
<1>14. Grounded(g)
  <2> SUFFICES ASSUME NEW S \in SUBSET DOMAIN g, S # {} PROVE \E m \in S : g[m].parent \notin S
    BY DEF Grounded
  <2>1. CASE S \cap DOMAIN h # {}
    <3>1. PICK m \in S \cap DOMAIN h : h[m].parent \notin S \cap DOMAIN h
      BY <2>1 DEF Good, Grounded
    <3>2. h[m].parent \in S => h[m].parent \in DOMAIN h
      BY <1>5, <1>11, <3>1
    <3> QED BY <3>1, <3>2, <1>10
  <2>2. CASE S \cap DOMAIN h = {}
    <3>1. PICK P : P = {m \in from : tw[m] \in S}
      OBVIOUS
    <3>2. P # {}
      BY <2>2, <3>1, <1>5
    <3>3. P \in SUBSET DOMAIN h
      BY <3>1, <1>7
    <3>4. PICK m \in P : h[m].parent \notin P
      BY <3>2, <3>3 DEF Good, Grounded
    <3>5. m \in from /\ tw[m] \in S
      BY <3>1, <3>4
    <3>6. CASE h[m].parent = s
      BY <3>5, <3>6, <2>2, <1>8
    <3>7. CASE h[m].parent # s
      <4>1. h[m].parent \in from /\ tw[h[m].parent] \notin S
        BY <3>1, <3>4, <3>5, <3>7, <1>7
      <4> QED BY <3>5, <3>7, <4>1, <1>8
    <3> QED BY <3>6, <3>7
  <2> QED BY <2>1, <2>2
<1>15. Numbered(g)
  <2>1. \A m \in DOMAIN h : g[m].key = h[m].key
    <3>1. g[t].key = h[t].key
      BY <1>6
    <3> QED BY <3>1, <1>5
  <2>2. \A m \in from \cup {s} : \A i \in 1..Size(h, m) : g[tw[h[m].children[i]]].key = KeyAt(h, m, i)
    BY <1>7, <1>8 DEF KeyAt
  <2>3. ASSUME NEW m \in DOMAIN h \ {t}
        PROVE  /\ g[m].type = h[m].type /\ Size(g, m) = Size(h, m)
               /\ \A i \in 1..Size(g, m) : KeyAt(g, m, i) = KeyAt(h, m, i)
    <3>1. \A i \in 1..Size(h, m) : h[m].children[i] \in DOMAIN h
      BY ChildrenAre DEF Good
    <3> QED BY <3>1, <2>1, <1>5 DEF Size, KeyAt
  <2>4. ASSUME NEW m \in from
        PROVE  /\ g[tw[m]].type = h[m].type /\ Size(g, tw[m]) = Size(h, m)
               /\ \A i \in 1..Size(g, tw[m]) : KeyAt(g, tw[m], i) = KeyAt(h, m, i)
    BY <2>2, <1>8 DEF KeyAt
  <2>5. /\ g[t].type = h[t].type /\ Size(g, t) = Size(h, s)
        /\ \A i \in 1..Size(g, t) : KeyAt(g, t, i) = KeyAt(h, s, i)
    BY <2>2, <1>9 DEF KeyAt
  <2>6. ASSUME NEW x \in DOMAIN g
        PROVE  \/ Size(g, x) = 0
               \/ \E k \in DOMAIN h : /\ g[x].type = h[k].type /\ Size(g, x) = Size(h, k)
                                      /\ \A i \in 1..Size(g, x) : KeyAt(g, x, i) = KeyAt(h, k, i)
    <3>1. CASE x \in W
      <4>1. PICK m \in from : x = tw[m]
        BY <3>1, <1>5
      <4> QED BY <4>1, <2>4, <1>7
    <3>2. CASE x \in DOMAIN h \ {t}
      BY <3>2, <2>3
    <3>3. CASE x = t
      <4>1. Size(h, s) \in Nat
        BY ChildrenAre DEF Good
      <4> QED BY <3>3, <4>1, <2>5
    <3> QED BY <3>1, <3>2, <3>3, <1>5
  <2> QED BY <2>6, NumberedKept DEF Good
<1>16. g[t].key = h[t].key
  BY <1>6
<1> QED BY <1>1, <1>5, <1>10, <1>12, <1>13, <1>14, <1>15, <1>16 DEF Good

\* A new top to copy or to move n to.
LEMMA NewTop ==
  ASSUME NEW h, Good(h), NEW n \in DOMAIN h, NEW r, IsNode(r), r.parent = NoNode, r.children = <<>>
  PROVE  LET m == NewNode(h)
             g == Added(h, m, r)
         IN /\ Good(g) /\ DOMAIN g = DOMAIN h \cup {m} /\ m \notin DOMAIN h
            /\ g[m] = r /\ \A k \in DOMAIN h : g[k] = h[k]
            /\ m \notin Below(g, n) /\ n \notin Below(g, m)
<1>1. PICK m : m = NewNode(h)
  OBVIOUS
<1>2. PICK g : g = Added(h, m, r)
  OBVIOUS
<1>3. Good(g) /\ DOMAIN g = DOMAIN h \cup {m} /\ g[m] = r /\ m \notin DOMAIN h
  <2>1. g = Added(h, NewNode(h), r)
    BY <1>1, <1>2
  <2>2. Good(g) /\ DOMAIN g = DOMAIN h \cup {NewNode(h)} /\ g[NewNode(h)] = r
    BY <2>1, TopGood DEF WithTop
  <2>3. NewNode(h) \notin DOMAIN h
    BY NewNodeIs DEF Good
  <2> QED BY <2>2, <2>3, <1>1
<1>4. \A k \in DOMAIN h : g[k] = h[k]
  BY <1>2, <1>3 DEF Added
<1>5. m \notin Below(g, n)
  <2>1. SUFFICES ASSUME m \in Below(g, n) PROVE FALSE
    OBVIOUS
  <2>2. g[m].parent \in Below(g, n)
    BY <2>1, <1>3, BelowTree
  <2> QED BY <2>2, <1>3, BelowIs, NoNodeAssumption DEF Good, Formed
<1>6. Below(g, m) = {m}
  BY <1>3, NoChildrenBelow DEF Good
<1> QED BY <1>1, <1>2, <1>3, <1>4, <1>5, <1>6

\* A copy is a tree of its own.
Apart(h, key, g, m) ==
  /\ Good(g) /\ m \in DOMAIN g \ DOMAIN h /\ IsTop(g, m) /\ g[m].key = key
  /\ DOMAIN h \subseteq DOMAIN g /\ \A k \in DOMAIN h : g[k] = h[k] /\ k \notin Below(g, m)

LEMMA CopiedGood ==
  ASSUME NEW h, Good(h), NEW c \in DOMAIN h
  PROVE  Apart(h, h[c].key, Copied(h, c).h, Copied(h, c).at)
<1>1. PICK m : m = NewNode(h)
  OBVIOUS
<1>2. PICK x : x = h[c] /\ IsNode(x)
  BY DEF Good, Formed
<1>3. PICK r : r = [x EXCEPT !.ndx = 0, !.parent = NoNode, !.children = <<>>]
  OBVIOUS
<1>4. IsNode(r) /\ r.parent = NoNode /\ r.children = <<>> /\ r.key = x.key /\ r.type = x.type
  <2>1. r = [type |-> x.type, key |-> x.key, val |-> x.val, ndx |-> 0, parent |-> NoNode, children |-> <<>>]
    BY <1>2, <1>3 DEF IsNode
  <2> QED BY <2>1 DEF IsNode
<1>5. PICK f : f = Added(h, m, r)
  OBVIOUS
<1>6. /\ Good(f) /\ DOMAIN f = DOMAIN h \cup {m} /\ m \notin DOMAIN h
      /\ f[m] = r /\ \A k \in DOMAIN h : f[k] = h[k]
      /\ m \notin Below(f, c) /\ c \notin Below(f, m)
  <2>1. /\ Good(Added(h, NewNode(h), r)) /\ DOMAIN Added(h, NewNode(h), r) = DOMAIN h \cup {NewNode(h)}
        /\ NewNode(h) \notin DOMAIN h /\ Added(h, NewNode(h), r)[NewNode(h)] = r
        /\ \A k \in DOMAIN h : Added(h, NewNode(h), r)[k] = h[k]
        /\ NewNode(h) \notin Below(Added(h, NewNode(h), r), c)
        /\ c \notin Below(Added(h, NewNode(h), r), NewNode(h))
    BY <1>4, NewTop
  <2> QED BY <2>1, <1>1, <1>5
<1>7. PICK g : g = CopyBelow(f, m, c)
  OBVIOUS
<1>8. Copied(h, c) = Result(g, m)
  BY <1>1, <1>2, <1>3, <1>5, <1>7 DEF Copied
<1>9. /\ Good(g) /\ DOMAIN f \subseteq DOMAIN g /\ g[m].parent = f[m].parent /\ g[m].key = f[m].key
      /\ \A k \in DOMAIN f \ {m} : g[k] = f[k]
  <2>1. f[m].children = <<>> /\ f[m].type = f[c].type /\ m \in DOMAIN f /\ c \in DOMAIN f
    BY <1>2, <1>4, <1>6
  <2> QED BY <2>1, <1>6, <1>7, CopyBelowGood
<1>10. /\ m \in DOMAIN g \ DOMAIN h /\ IsTop(g, m) /\ g[m].key = h[c].key
       /\ DOMAIN h \subseteq DOMAIN g /\ \A k \in DOMAIN h : g[k] = h[k]
  BY <1>2, <1>4, <1>6, <1>9 DEF IsTop
<1>11. \A k \in DOMAIN h : k \notin Below(g, m)
  <2>1. PICK N : N = DOMAIN g \ DOMAIN h
    OBVIOUS
  <2>2. Closed(g, N)
    <3> SUFFICES ASSUME NEW k \in N, NEW i \in 1..Size(g, k) PROVE g[k].children[i] \in N
      BY DEF Closed
    <3>1. k \in DOMAIN g /\ k \notin DOMAIN h /\ k # NoNode
      BY <2>1, <1>9, NoNodeAssumption DEF Good, Formed
    <3>2. g[k].children[i] \in DOMAIN g /\ g[g[k].children[i]].parent = k
      BY <3>1, <1>9, ChildrenAre DEF Good, Linked
    <3>3. \A y \in DOMAIN h : h[y].parent # k
      BY <3>1 DEF Good, Linked, IsTop
    <3> QED BY <3>2, <3>3, <2>1, <1>10
  <2>3. Below(g, m) \subseteq N
    BY <2>1, <2>2, <1>9, <1>10, BelowIs DEF Good
  <2> QED BY <2>1, <2>3
<1>12. Copied(h, c).h = g /\ Copied(h, c).at = m
  BY <1>8 DEF Result
<1> QED BY <1>9, <1>10, <1>11, <1>12 DEF Apart

\* g is h with the top m behind the children of t.
Joining(h, t, m, g) ==
  /\ DOMAIN g = DOMAIN h /\ g = [k \in DOMAIN g |-> g[k]]
  /\ \A k \in DOMAIN h \ {t, m} : g[k] = h[k]
  /\ IsNode(g[t]) /\ g[t].type = h[t].type /\ g[t].key = h[t].key /\ g[t].ndx = h[t].ndx
  /\ g[t].parent = h[t].parent /\ g[t].children = Append(h[t].children, m)
  /\ IsNode(g[m]) /\ g[m].type = h[m].type /\ g[m].key = h[m].key /\ g[m].ndx = Size(h, t)
  /\ g[m].parent = t /\ g[m].children = h[m].children

LEMMA AttachedIs ==
  ASSUME NEW h, Formed(h), NEW t \in DOMAIN h, NEW m \in DOMAIN h, t # m
  PROVE  Joining(h, t, m, Attached(h, t, m))
<1>1. PICK x : x = h[m] /\ IsNode(x)
  BY DEF Formed
<1>2. PICK y : y = h[t] /\ IsNode(y)
  BY DEF Formed
<1>3. PICK z : z = Size(h, t)
  OBVIOUS
<1>4. PICK a : a = [x EXCEPT !.parent = t, !.ndx = z]
  OBVIOUS
<1>5. a = [type |-> x.type, key |-> x.key, val |-> x.val, ndx |-> z, parent |-> t, children |-> x.children]
  BY <1>1, <1>4 DEF IsNode
<1>6. PICK c : c = Append(y.children, m)
  OBVIOUS
<1>7. PICK b : b = [y EXCEPT !.children = c]
  OBVIOUS
<1>8. b = [type |-> y.type, key |-> y.key, val |-> y.val, ndx |-> y.ndx, parent |-> y.parent, children |-> c]
  BY <1>2, <1>7 DEF IsNode
<1>9. PICK f : f = [h EXCEPT ![m] = a]
  OBVIOUS
<1>10. f[t] = y /\ DOMAIN f = DOMAIN h /\ f[m] = a /\ \A k \in DOMAIN h \ {m} : f[k] = h[k]
  BY <1>2, <1>9
<1>11. PICK g : g = [f EXCEPT ![t] = b]
  OBVIOUS
<1>12. Attached(h, t, m) = g
  BY <1>1, <1>2, <1>3, <1>4, <1>6, <1>7, <1>9, <1>10, <1>11 DEF Attached
<1>13. /\ DOMAIN g = DOMAIN h /\ g = [k \in DOMAIN g |-> g[k]]
       /\ g[t] = b /\ g[m] = a /\ \A k \in DOMAIN h \ {t, m} : g[k] = h[k]
  BY <1>10, <1>11
<1>14. /\ IsNode(b) /\ b.type = y.type /\ b.key = y.key /\ b.ndx = y.ndx /\ b.parent = y.parent
       /\ b.children = c
  BY <1>8 DEF IsNode
<1>15. /\ IsNode(a) /\ a.type = x.type /\ a.key = x.key /\ a.ndx = z /\ a.parent = t
       /\ a.children = x.children
  BY <1>5 DEF IsNode
<1> QED BY <1>1, <1>2, <1>3, <1>6, <1>12, <1>13, <1>14, <1>15 DEF Joining

\* The next of the children of s, copied, becomes one of t.
LEMMA AttachedGood ==
  ASSUME NEW h, Good(h), NEW t \in DOMAIN h, NEW m \in DOMAIN h, NEW s \in DOMAIN h \ {t},
         IsTop(h, m), t \notin Below(h, m), h[t].type \in Structured, h[t].type = h[s].type,
         Size(h, t) < Size(h, s), h[m].key = KeyAt(h, s, Size(h, t) + 1), s # m,
         \A j \in 1..Size(h, t) : KeyAt(h, t, j) = KeyAt(h, s, j)
  PROVE  Good(Attached(h, t, m))
<1>1. PICK g : g = Attached(h, t, m)
  OBVIOUS
<1>2. t # m /\ Below(h, m) \subseteq DOMAIN h /\ m \in Below(h, m) /\ Closed(h, Below(h, m))
  BY BelowIs DEF Good
<1>3. Joining(h, t, m, g)
  BY <1>1, <1>2, AttachedIs DEF Good
<1>4. PICK z \in Nat : z = Size(h, t) /\ h[t].children \in Seq(DOMAIN h)
  BY ChildrenAre DEF Good, Formed
<1>5. /\ Size(g, t) = z + 1 /\ g[t].children[z + 1] = m /\ g[t].children \in Seq(DOMAIN h)
      /\ \A i \in 1..z : g[t].children[i] = h[t].children[i]
  <2>1. PICK c \in Seq(DOMAIN h) : c = h[t].children /\ z = Len(c)
    BY <1>4 DEF Size
  <2>2. g[t].children = Append(c, m)
    BY <2>1, <1>3 DEF Joining
  <2> QED BY <2>1, <2>2 DEF Size
<1>6. /\ DOMAIN g = DOMAIN h /\ g = [k \in DOMAIN g |-> g[k]]
      /\ \A k \in DOMAIN h \ {t, m} : g[k] = h[k]
      /\ \A k \in DOMAIN h \ {t} : g[k].children = h[k].children /\ Size(g, k) = Size(h, k)
      /\ \A k \in DOMAIN h : IsNode(g[k]) /\ g[k].type = h[k].type /\ g[k].key = h[k].key
      /\ \A k \in DOMAIN h \ {m} : g[k].parent = h[k].parent /\ g[k].ndx = h[k].ndx
      /\ g[m].parent = t /\ g[m].ndx = z
  BY <1>3, <1>4 DEF Joining, Size, Good, Formed
<1>7. \A k \in DOMAIN h : \A i \in 1..Size(h, k) :
        /\ h[k].children[i] \in DOMAIN h \ {m} /\ h[h[k].children[i]].parent = k
        /\ h[h[k].children[i]].ndx = i - 1
  <2>1. \A k \in DOMAIN h : \A i \in 1..Size(h, k) :
          h[k].children[i] \in DOMAIN h /\ h[h[k].children[i]].parent = k /\ h[h[k].children[i]].ndx = i - 1
    BY ChildrenAre DEF Good, Linked
  <2>2. \A k \in DOMAIN h : k # NoNode
    BY NoNodeAssumption DEF Good, Formed
  <2> QED BY <2>1, <2>2 DEF IsTop
<1>8. Formed(g)
  BY <1>5, <1>6 DEF Good, Formed
<1>9. Linked(g)
  <2>1. ASSUME NEW k \in DOMAIN h \ {t}
        PROVE  /\ \A i \in 1..Size(g, k) : g[g[k].children[i]].parent = k /\ g[g[k].children[i]].ndx = i - 1
               /\ Size(g, k) > 0 => g[k].type \in Structured
    BY <1>6, <1>7 DEF Good, Linked
  <2>2. ASSUME NEW i \in 1..Size(g, t) PROVE g[g[t].children[i]].parent = t /\ g[g[t].children[i]].ndx = i - 1
    <3>1. CASE i = z + 1
      BY <3>1, <1>5, <1>6
    <3>2. CASE i # z + 1
      <4>1. i \in 1..z
        BY <3>2, <1>5
      <4> QED BY <4>1, <1>4, <1>5, <1>6, <1>7
    <3> QED BY <3>1, <3>2
  <2>3. ASSUME NEW k \in DOMAIN h \ {m}, ~IsTop(g, k)
        PROVE  g[k].parent \in DOMAIN h /\ \E i \in 1..Size(g, g[k].parent) : g[g[k].parent].children[i] = k
    <3>1. g[k].parent = h[k].parent /\ h[k].parent # NoNode
      BY <2>3, <1>6 DEF IsTop
    <3>2. PICK i \in 1..Size(h, h[k].parent) : h[k].parent \in DOMAIN h /\ h[h[k].parent].children[i] = k
      BY <3>1 DEF Good, Linked, IsTop
    <3>3. CASE h[k].parent = t
      <4>1. i \in 1..z /\ i \in 1..(z + 1)
        BY <3>2, <3>3, <1>4
      <4> QED BY <3>1, <3>2, <3>3, <4>1, <1>5
    <3>4. CASE h[k].parent # t
      BY <3>1, <3>2, <3>4, <1>6
    <3> QED BY <3>3, <3>4
  <2>4. g[m].parent \in DOMAIN h /\ \E i \in 1..Size(g, g[m].parent) : g[g[m].parent].children[i] = m
    <3>1. z + 1 \in 1..Size(g, t)
      BY <1>5
    <3> QED BY <3>1, <1>5, <1>6
  <2> QED BY <1>6, <2>1, <2>2, <2>3, <2>4 DEF Linked
<1>10. Grounded(g)
  <2> SUFFICES ASSUME NEW S \in SUBSET DOMAIN h, S # {} PROVE \E k \in S : g[k].parent \notin S
    BY <1>6 DEF Grounded
  <2>1. CASE m \notin S \/ t \notin S
    <3>1. PICK k \in S : h[k].parent \notin S
      BY DEF Good, Grounded
    <3> QED BY <2>1, <3>1, <1>6
  <2>2. CASE m \in S /\ t \in S
    <3>1. PICK R : R = S \ Below(h, m)
      OBVIOUS
    <3>2. R \in SUBSET DOMAIN h /\ R # {}
      BY <2>2, <3>1
    <3>3. PICK k \in R : h[k].parent \notin R
      BY <3>2 DEF Good, Grounded
    <3>4. k \in DOMAIN h /\ k \in S /\ k # m /\ k \notin Below(h, m)
      BY <3>1, <3>3, <1>2
    <3>5. h[k].parent \notin Below(h, m)
      BY <3>4, ListedBelow
    <3> QED BY <3>1, <3>3, <3>4, <3>5, <1>6
  <2> QED BY <2>1, <2>2
<1>11. Numbered(g)
  <2>1. ASSUME NEW k \in DOMAIN h \ {t}
        PROVE  /\ g[k].type = h[k].type /\ Size(g, k) = Size(h, k)
               /\ \A i \in 1..Size(g, k) : KeyAt(g, k, i) = KeyAt(h, k, i)
    BY <1>6, <1>7 DEF KeyAt
  <2>2. Size(h, s) \in Nat /\ 1..Size(g, t) \subseteq 1..Size(h, s)
    <3>1. Size(h, s) \in Nat
      BY ChildrenAre DEF Good
    <3> QED BY <3>1, <1>4, <1>5
  <2>3. ASSUME NEW i \in 1..Size(g, t) PROVE KeyAt(g, t, i) = KeyAt(h, s, i)
    <3>1. CASE i = z + 1
      <4>1. KeyAt(g, t, i) = h[m].key
        BY <3>1, <1>5, <1>6 DEF KeyAt
      <4> QED BY <3>1, <4>1, <1>4
    <3>2. CASE i # z + 1
      <4>1. i \in 1..z
        BY <3>2, <1>5
      <4>2. KeyAt(g, t, i) = KeyAt(h, t, i)
        BY <4>1, <1>4, <1>5, <1>6, <1>7 DEF KeyAt
      <4> QED BY <4>1, <4>2, <1>4
    <3> QED BY <3>1, <3>2
  <2>4. ASSUME NEW k \in DOMAIN g, g[k].type = "Array"
        PROVE  \E x \in DOMAIN h : /\ h[x].type = "Array" /\ 1..Size(g, k) \subseteq 1..Size(h, x)
                                   /\ \A i \in 1..Size(g, k) : KeyAt(g, k, i) = KeyAt(h, x, i)
    <3>1. CASE k = t
      BY <3>1, <2>2, <2>3, <2>4, <1>6
    <3>2. CASE k # t
      BY <3>2, <2>1, <2>4, <1>6
    <3> QED BY <3>1, <3>2
  <2> QED BY <2>4, NumberedKept DEF Good
<1> QED BY <1>1, <1>8, <1>9, <1>10, <1>11 DEF Good

\* f is h and copies of the first i children of s, given to t.
CopiedSome(h, t, s, i, f) ==
  /\ Good(f) /\ DOMAIN h \subseteq DOMAIN f
  /\ \A k \in DOMAIN h : f[k].type = h[k].type /\ f[k].key = h[k].key
  /\ \A k \in DOMAIN h \ {t} : f[k].children = h[k].children
  /\ Size(f, t) = i /\ \A j \in 1..i : KeyAt(f, t, j) = KeyAt(h, s, j)

LEMMA CopyChildGood ==
  ASSUME NEW h, Good(h), NEW t \in DOMAIN h, NEW s \in DOMAIN h \ {t}, h[t].type = h[s].type,
         NEW i \in Nat, i + 1 \in 1..Size(h, s), NEW f, CopiedSome(h, t, s, i, f)
  PROVE  CopiedSome(h, t, s, i + 1, CopyChild(f, t, h[s].children[i + 1]))
<1>0. PICK z \in Nat : z = Size(h, s)
  BY ChildrenAre DEF Good
<1>1. PICK c \in DOMAIN h : c = h[s].children[i + 1]
  BY ChildrenAre DEF Good
<1>2. /\ Good(f) /\ c \in DOMAIN f /\ f[c].key = KeyAt(h, s, i + 1) /\ t \in DOMAIN f /\ s \in DOMAIN f
      /\ Size(f, t) = i /\ f[s].children = h[s].children /\ Size(f, s) = Size(h, s)
      /\ f[t].type = f[s].type
      /\ \A j \in 1..i : KeyAt(f, t, j) = KeyAt(h, s, j)
      /\ \A k \in DOMAIN h : k \in DOMAIN f /\ f[k].type = h[k].type /\ f[k].key = h[k].key
      /\ \A k \in DOMAIN h \ {t} : f[k].children = h[k].children
  BY <1>1 DEF CopiedSome, KeyAt, Size
<1>3. PICK e, m : e = Copied(f, c).h /\ m = Copied(f, c).at
  OBVIOUS
<1>4. /\ Good(e) /\ m \in DOMAIN e \ DOMAIN f /\ IsTop(e, m) /\ e[m].key = f[c].key
      /\ DOMAIN f \subseteq DOMAIN e /\ \A k \in DOMAIN f : e[k] = f[k] /\ k \notin Below(e, m)
  BY <1>2, <1>3, CopiedGood DEF Apart
<1>5. PICK g : g = Attached(e, t, m)
  OBVIOUS
<1>6. CopyChild(f, t, c) = g
  BY <1>3, <1>5 DEF CopyChild
<1>7. /\ \A j \in 1..Size(f, t) : f[t].children[j] \in DOMAIN f
      /\ \A j \in 1..Size(f, s) : f[s].children[j] \in DOMAIN f
      /\ \A j \in 1..Size(h, s) : h[s].children[j] \in DOMAIN h
  BY <1>2, ChildrenAre DEF Good
<1>8. /\ t \in DOMAIN e /\ s \in DOMAIN e \ {t} /\ s # m /\ t # m /\ t \notin Below(e, m)
      /\ Size(e, t) = i /\ Size(e, s) = Size(h, s) /\ e[t].type = e[s].type /\ e[m].key = KeyAt(h, s, i + 1)
      /\ \A j \in 1..i : KeyAt(e, t, j) = KeyAt(h, s, j)
      /\ \A j \in 1..Size(h, s) : KeyAt(e, s, j) = KeyAt(h, s, j)
  <2>1. /\ t \in DOMAIN e /\ s \in DOMAIN e \ {t} /\ s # m /\ t # m /\ t \notin Below(e, m)
        /\ e[t] = f[t] /\ e[s] = f[s] /\ e[m].key = KeyAt(h, s, i + 1)
    BY <1>2, <1>4
  <2>2. Size(e, t) = i /\ Size(e, s) = Size(h, s) /\ e[t].type = e[s].type
    BY <1>2, <2>1 DEF Size
  <2>3. \A j \in 1..i : KeyAt(e, t, j) = KeyAt(h, s, j)
    BY <1>2, <1>4, <1>7, <2>1 DEF KeyAt
  <2>4. \A j \in 1..Size(h, s) : KeyAt(e, s, j) = KeyAt(h, s, j)
    BY <1>2, <1>4, <1>7, <2>1 DEF KeyAt
  <2> QED BY <2>1, <2>2, <2>3, <2>4
<1>9. e[s].type \in Structured
  <2>1. Size(h, s) > 0
    BY <1>0, <1>8
  <2> QED BY <2>1, <1>4, <1>8 DEF Good, Linked
<1>10. Good(g)
  <2>1. e[m].key = KeyAt(e, s, Size(e, t) + 1) /\ Size(e, t) < Size(e, s)
    BY <1>0, <1>8
  <2>2. \A j \in 1..Size(e, t) : KeyAt(e, t, j) = KeyAt(e, s, j)
    BY <1>0, <1>8
  <2> QED BY <2>1, <2>2, <1>4, <1>5, <1>8, <1>9, AttachedGood
<1>11. Joining(e, t, m, g)
  BY <1>4, <1>5, <1>8, AttachedIs DEF Good
<1>12. /\ DOMAIN h \subseteq DOMAIN g
       /\ \A k \in DOMAIN e : g[k].type = e[k].type /\ g[k].key = e[k].key
       /\ \A k \in DOMAIN h : g[k].type = h[k].type /\ g[k].key = h[k].key
       /\ \A k \in DOMAIN h \ {t} : g[k].children = h[k].children
  BY <1>2, <1>4, <1>11 DEF Joining
<1>13. /\ Size(g, t) = i + 1 /\ g[t].children[i + 1] = m
       /\ \A j \in 1..i : g[t].children[j] = e[t].children[j]
  <2>1. PICK d \in Seq(DOMAIN e) : d = e[t].children /\ i = Len(d)
    BY <1>4, <1>8 DEF Size, Good, Formed
  <2>2. g[t].children = Append(d, m)
    BY <2>1, <1>11 DEF Joining
  <2> QED BY <2>1, <2>2 DEF Size
<1>14. ASSUME NEW j \in 1..(i + 1) PROVE KeyAt(g, t, j) = KeyAt(h, s, j)
  <2>1. CASE j = i + 1
    BY <2>1, <1>4, <1>8, <1>12, <1>13 DEF KeyAt
  <2>2. CASE j # i + 1
    <3>1. j \in 1..i
      BY <2>2
    <3>2. e[t].children[j] \in DOMAIN e
      BY <3>1, <1>4, <1>8, ChildrenAre DEF Good
    <3> QED BY <3>1, <3>2, <1>8, <1>12, <1>13 DEF KeyAt
  <2> QED BY <2>1, <2>2
<1> QED BY <1>1, <1>6, <1>10, <1>12, <1>13, <1>14 DEF CopiedSome

LEMMA CopyChildrenGood ==
  ASSUME NEW h, Good(h), NEW t \in DOMAIN h, NEW s \in DOMAIN h \ {t},
         h[t].children = <<>>, h[t].type = h[s].type
  PROVE  Good(CopyChildren(h, t, s))
<1>0. PICK L \in Nat : L = Size(h, s)
  BY ChildrenAre DEF Good
<1> DEFINE Step(g, i) == CopyChild(g, t, h[s].children[i])
<1> DEFINE Rec(j, g) == g = [i \in 0..j |-> IF i = 0 THEN h ELSE Step(g[i - 1], i)]
<1> DEFINE S == {j \in Nat : \E g : Rec(j, g)}
<1>1. 0 \in S
  <2> HIDE DEF Step
  <2>1. Rec(0, [i \in 0..0 |-> h])
    OBVIOUS
  <2> QED BY <2>1
<1>2. ASSUME NEW j \in Nat, j \in S PROVE j + 1 \in S
  <2>1. PICK g : Rec(j, g)
    BY <1>2
  <2> HIDE DEF Step
  <2>2. \A k \in 0..j : g[k] = IF k = 0 THEN h ELSE Step(g[k - 1], k)
    BY <2>1
  <2>3. PICK f : f = [k \in 0..(j + 1) |-> IF k <= j THEN g[k] ELSE Step(g[j], j + 1)]
    OBVIOUS
  <2>4. \A k \in 0..j : f[k] = g[k]
    BY <2>3
  <2>5. f[j + 1] = Step(g[j], j + 1)
    BY <2>3
  <2>6. \A k \in 0..(j + 1) : f[k] = IF k = 0 THEN h ELSE Step(f[k - 1], k)
    <3> TAKE k \in 0..(j + 1)
    <3>1. CASE k = j + 1
      BY <3>1, <2>4, <2>5
    <3>2. CASE k # j + 1
      <4>1. k \in 0..j /\ (k # 0 => k - 1 \in 0..j)
        BY <3>2
      <4> QED BY <4>1, <2>2, <2>4
    <3> QED BY <3>1, <3>2
  <2>7. f = [k \in 0..(j + 1) |-> f[k]]
    BY <2>3
  <2>8. Rec(j + 1, f)
    BY <2>6, <2>7
  <2> QED BY <2>8
<1>3. \E g : Rec(L, g)
  <2> HIDE DEF Rec
  <2>1. L \in S
    <3> HIDE DEF S
    <3> QED BY <1>1, <1>2, NatSet
  <2> QED BY <2>1
<1> DEFINE after == CHOOSE g : Rec(L, g)
<1>4. Rec(L, after)
  <2> HIDE DEF Rec
  <2> QED BY <1>3
<1>5. CopyChildren(h, t, s) = after[L]
  BY <1>0 DEF CopyChildren
<1> HIDE DEF after
<1>6. after[0] = h /\ \A i \in 1..L : after[i] = Step(after[i - 1], i)
  <2> HIDE DEF Step
  <2>1. \A i \in 0..L : after[i] = IF i = 0 THEN h ELSE Step(after[i - 1], i)
    BY <1>4
  <2> QED BY <2>1
<1> DEFINE T == {i \in Nat : i <= L => CopiedSome(h, t, s, i, after[i])}
<1>7. 0 \in T
  BY <1>6 DEF CopiedSome, Size
<1>8. ASSUME NEW i \in Nat, i \in T PROVE i + 1 \in T
  <2> SUFFICES ASSUME i + 1 <= L PROVE CopiedSome(h, t, s, i + 1, after[i + 1])
    OBVIOUS
  <2>1. CopiedSome(h, t, s, i, after[i])
    BY <1>8
  <2>2. i + 1 \in 1..L /\ (i + 1) - 1 = i
    OBVIOUS
  <2>3. after[i + 1] = CopyChild(after[i], t, h[s].children[i + 1])
    BY <1>6, <2>2
  <2> HIDE DEF Rec, Step, S, T
  <2>4. CopiedSome(h, t, s, i + 1, CopyChild(after[i], t, h[s].children[i + 1]))
    BY <2>1, <2>2, <1>0, CopyChildGood
  <2> QED BY <2>3, <2>4
<1> HIDE DEF T
<1>9. L \in T
  BY <1>7, <1>8, NatSet
<1> QED BY <1>5, <1>9 DEF T, CopiedSome

\* Also when t is below s: the copy of its children then has a part of itself.
LEMMA CopyGood ==
  ASSUME NEW h, Good(h), NEW t \in DOMAIN h, NEW s \in DOMAIN h, s \notin Below(h, t)
  PROVE  Good(Copy(h, t, s))
<1>1. PICK u : u = UpdateNode(h, t, h[s].type, h[s].val)
  OBVIOUS
<1>2. Good(u) /\ t \in DOMAIN u
  BY <1>1, UpdateNodeGood
<1>3. Updated(h, t, h[s].type, h[s].val, u)
  BY <1>1, UpdateNodeIs DEF Good
<1>4. s # t /\ s \in DOMAIN u
  BY <1>3, BelowIs DEF Updated, Good
<1>5. u[t].children = <<>> /\ u[t].type = h[s].type /\ u[s] = h[s]
  BY <1>3, <1>4 DEF Updated
<1>6. Good(CopyChildren(u, t, s))
  BY <1>2, <1>4, <1>5, CopyChildrenGood
<1> QED BY <1>1, <1>6 DEF Copy

(***************************************************************************)
(* Labels                                                                  *)
(***************************************************************************)

\* Values change, and the types of nodes without children.
LEMMA LabelsGood ==
  ASSUME NEW h, Good(h), NEW g, DOMAIN g = DOMAIN h, g = [m \in DOMAIN g |-> g[m]],
         \A m \in DOMAIN h : /\ IsNode(g[m]) /\ g[m].parent = h[m].parent /\ g[m].ndx = h[m].ndx
                             /\ g[m].children = h[m].children /\ g[m].key = h[m].key
                             /\ g[m].type = h[m].type \/ Size(h, m) = 0
  PROVE  Good(g)
<1>1. \A m \in DOMAIN h : Size(g, m) = Size(h, m)
  BY DEF Size
<1>2. Formed(g)
  BY DEF Good, Formed
<1>3. Grounded(g)
  BY GroundedCut DEF Good
<1>4. Linked(g)
  <2> SUFFICES ASSUME NEW m \in DOMAIN h
               PROVE  /\ \A i \in 1..Size(g, m) : /\ g[g[m].children[i]].parent = m
                                                  /\ g[g[m].children[i]].ndx = i - 1
                      /\ Size(g, m) > 0 => g[m].type \in Structured
                      /\ ~IsTop(g, m) =>
                           /\ g[m].parent \in DOMAIN g
                           /\ \E i \in 1..Size(g, g[m].parent) : g[g[m].parent].children[i] = m
    BY DEF Linked
  <2>1. \A i \in 1..Size(h, m) : h[m].children[i] \in DOMAIN h
    BY ChildrenAre DEF Good
  <2>2. \A i \in 1..Size(g, m) : g[g[m].children[i]].parent = m /\ g[g[m].children[i]].ndx = i - 1
    BY <1>1, <2>1 DEF Good, Linked
  <2>3. Size(g, m) > 0 => g[m].type \in Structured
    BY <1>1 DEF Good, Linked
  <2>4. ASSUME ~IsTop(g, m)
        PROVE  /\ g[m].parent \in DOMAIN g
               /\ \E i \in 1..Size(g, g[m].parent) : g[g[m].parent].children[i] = m
    <3>1. h[m].parent \in DOMAIN h /\ \E i \in 1..Size(h, h[m].parent) : h[h[m].parent].children[i] = m
      BY <2>4 DEF IsTop, Good, Linked
    <3> QED BY <3>1, <1>1
  <2> QED BY <2>2, <2>3, <2>4
<1>5. Numbered(g)
  <2>1. \A m \in DOMAIN h : \A i \in 1..Size(h, m) : h[m].children[i] \in DOMAIN h
    BY ChildrenAre DEF Good
  <2>2. \A m \in DOMAIN h : \A i \in 1..Size(g, m) : KeyAt(g, m, i) = KeyAt(h, m, i)
    BY <2>1, <1>1 DEF KeyAt
  <2> QED BY <2>2, <1>1, NumberedKept DEF Good
<1> QED BY <1>2, <1>3, <1>4, <1>5 DEF Good

LEMMA PlaceholdNullGood ==
  ASSUME NEW h, Good(h), NEW n \in DOMAIN h
  PROVE  Good(PlaceholdNull(h, n))
<1>1. PICK B : B = Below(h, n) \ {n}
  OBVIOUS
<1>2. PICK u : u = [m \in DOMAIN h |-> [h[m] EXCEPT !.type = "String", !.val = "---"]]
  OBVIOUS
<1>3. PICK g : g = [m \in DOMAIN h |-> IF m \in B /\ h[m].type = "Null" THEN u[m] ELSE h[m]]
  OBVIOUS
<1>4. PlaceholdNull(h, n) = g
  BY <1>1, <1>2, <1>3 DEF PlaceholdNull
<1>5. \A m \in DOMAIN h : /\ IsNode(u[m]) /\ u[m].parent = h[m].parent /\ u[m].ndx = h[m].ndx
                          /\ u[m].children = h[m].children /\ u[m].key = h[m].key
  <2> TAKE m \in DOMAIN h
  <2>1. PICK r : r = h[m] /\ IsNode(r)
    BY DEF Good, Formed
  <2>2. PICK x : x = [r EXCEPT !.type = "String"]
    OBVIOUS
  <2>3. x = [type |-> "String", key |-> r.key, val |-> r.val, ndx |-> r.ndx, parent |-> r.parent,
             children |-> r.children]
    BY <2>1, <2>2 DEF IsNode
  <2>4. PICK y : y = [x EXCEPT !.val = "---"]
    OBVIOUS
  <2>5. y = [type |-> "String", key |-> r.key, val |-> "---", ndx |-> r.ndx, parent |-> r.parent,
             children |-> r.children]
    BY <2>3, <2>4
  <2>6. u[m] = y
    BY <1>2, <2>1, <2>2, <2>4
  <2> QED BY <2>1, <2>5, <2>6 DEF IsNode
<1>6. \A m \in DOMAIN h : h[m].type = "Null" => Size(h, m) = 0
  BY ChildrenAre DEF Good, Linked, Structured
<1>7. \A m \in DOMAIN h : /\ IsNode(g[m]) /\ g[m].parent = h[m].parent /\ g[m].ndx = h[m].ndx
                          /\ g[m].children = h[m].children /\ g[m].key = h[m].key
                          /\ g[m].type = h[m].type \/ Size(h, m) = 0
  <2> TAKE m \in DOMAIN h
  <2>1. CASE m \in B /\ h[m].type = "Null"
    BY <2>1, <1>3, <1>5, <1>6
  <2>2. CASE ~(m \in B /\ h[m].type = "Null")
    BY <2>2, <1>3 DEF Good, Formed
  <2> QED BY <2>1, <2>2
<1>8. DOMAIN g = DOMAIN h /\ g = [m \in DOMAIN g |-> g[m]]
  BY <1>3
<1> QED BY <1>4, <1>7, <1>8, LabelsGood

\* g differs from h in values only.
SameTree(h, g) ==
  /\ Good(g) /\ DOMAIN g = DOMAIN h
  /\ \A m \in DOMAIN h : g[m].type = h[m].type /\ g[m].parent = h[m].parent /\ g[m].children = h[m].children

LEMMA ValGood ==
  ASSUME NEW h, Good(h), NEW n \in DOMAIN h, NEW v
  PROVE  SameTree(h, [h EXCEPT ![n].val = v])
<1>1. PICK r : r = h[n] /\ IsNode(r)
  BY DEF Good, Formed
<1>2. PICK x : x = [r EXCEPT !.val = v]
  OBVIOUS
<1>3. x = [type |-> r.type, key |-> r.key, val |-> v, ndx |-> r.ndx, parent |-> r.parent,
           children |-> r.children]
  BY <1>1, <1>2 DEF IsNode
<1>4. PICK g : g = [h EXCEPT ![n] = x]
  OBVIOUS
<1>5. g = [h EXCEPT ![n].val = v]
  BY <1>1, <1>2, <1>4
<1>6. g[n] = x /\ DOMAIN g = DOMAIN h /\ \A m \in DOMAIN h \ {n} : g[m] = h[m]
  BY <1>4
<1>7. g = [m \in DOMAIN g |-> g[m]]
  BY <1>4
<1>8. \A m \in DOMAIN h : /\ IsNode(g[m]) /\ g[m].parent = h[m].parent /\ g[m].ndx = h[m].ndx
                          /\ g[m].children = h[m].children /\ g[m].type = h[m].type
                          /\ g[m].key = h[m].key
  <2> TAKE m \in DOMAIN h
  <2>1. CASE m = n
    BY <2>1, <1>1, <1>3, <1>6 DEF IsNode
  <2>2. CASE m # n
    BY <2>2, <1>6 DEF Good, Formed
  <2> QED BY <2>1, <2>2
<1>9. Good(g)
  BY <1>6, <1>7, <1>8, LabelsGood
<1> QED BY <1>5, <1>6, <1>8, <1>9 DEF SameTree

(***************************************************************************)
(* Loops                                                                   *)
(***************************************************************************)

\* What was there is there, of the same type and below the same parent.
Keeps(h, g) == DOMAIN h \subseteq DOMAIN g /\ \A m \in DOMAIN h : g[m].type = h[m].type /\ g[m].parent = h[m].parent

\* g is h with the new node m, of type t, behind the children of n.
Longer(h, n, t, m, g) ==
  /\ Keeps(h, g) /\ LastChild(g, n) = m /\ DOMAIN g = DOMAIN h \cup {m} /\ m \notin DOMAIN h
  /\ g[m].type = t /\ g[m].children = <<>> /\ g[m].parent = n
  /\ Size(g, n) = Size(h, n) + 1
  /\ \A i \in 1..Size(h, n) : g[n].children[i] = h[n].children[i]
  /\ \A k \in DOMAIN h \ {n} : g[k] = h[k]

LEMMA AppendedIs ==
  ASSUME NEW h, Good(h), NEW n \in DOMAIN h, NEW key, NEW t, NEW v
  PROVE  Longer(h, n, t, NewNode(h), AppendNode(h, n, key, t, v))
<1>0. PICK g : g = AppendNode(h, n, key, t, v)
  OBVIOUS
<1>1. PICK m : m = NewNode(h) /\ m \notin DOMAIN h
  BY NewNodeIs DEF Good
<1>2. PICK c \in Seq(DOMAIN h) : c = h[n].children
  BY DEF Good, Formed
<1>3. /\ DOMAIN g = DOMAIN h \cup {m} /\ \A k \in DOMAIN h \ {n} : g[k] = h[k]
      /\ g[n] = [type |-> h[n].type, key |-> h[n].key, val |-> h[n].val, ndx |-> h[n].ndx,
                 parent |-> h[n].parent, children |-> Append(c, m)]
      /\ g[m] = [type |-> t, key |-> key, val |-> v, ndx |-> Size(h, n), parent |-> n, children |-> <<>>]
  <2>1. Extended(h, n, key, t, v, g)
    BY <1>0, AppendNodeIs DEF Good
  <2> QED BY <1>1, <1>2, <2>1 DEF Extended
<1>4. g[n].children = Append(c, m) /\ g[n].type = h[n].type /\ g[n].parent = h[n].parent
  BY <1>3
<1>5. /\ Len(Append(c, m)) = Len(c) + 1 /\ Append(c, m)[Len(c) + 1] = m
      /\ \A i \in 1..Len(c) : Append(c, m)[i] = c[i]
  OBVIOUS
<1>6. Size(g, n) = Size(h, n) + 1 /\ \A i \in 1..Size(h, n) : g[n].children[i] = h[n].children[i]
  BY <1>2, <1>4, <1>5 DEF Size
<1>7. LastChild(g, n) = m
  BY <1>4, <1>5 DEF LastChild, Last
<1>8. Keeps(h, g)
  BY <1>3, <1>4 DEF Keeps
<1>9. g[m].type = t /\ g[m].children = <<>> /\ g[m].parent = n
  BY <1>3
<1> QED BY <1>0, <1>1, <1>3, <1>6, <1>7, <1>8, <1>9 DEF Longer

LEMMA KeepsTrans ==
  ASSUME NEW h, NEW g, NEW f, Keeps(h, g), Keeps(g, f)
  PROVE  Keeps(h, f)
BY DEF Keeps

LEMMA AppendAllGood ==
  ASSUME NEW h, Good(h), NEW n \in DOMAIN h, h[n].type \in Structured,
         NEW entries, NEW L \in Nat, L = Len(entries),
         h[n].type = "Array" => Size(h, n) = 0 /\ \A i \in 1..L : entries[i][1] = ToString(i - 1)
  PROVE  Good(AppendAll(h, n, entries)) /\ Keeps(h, AppendAll(h, n, entries))
<1> DEFINE Step(g, i) == AppendNode(g, n, entries[i][1], entries[i][2][1], entries[i][2][2])
<1> DEFINE Rec(j, g) == g = [i \in 0..j |-> IF i = 0 THEN h ELSE Step(g[i - 1], i)]
<1> DEFINE S == {j \in Nat : \E g : Rec(j, g)}
<1>1. 0 \in S
  <2> HIDE DEF Step
  <2>1. Rec(0, [i \in 0..0 |-> h])
    OBVIOUS
  <2> QED BY <2>1
<1>2. ASSUME NEW j \in Nat, j \in S PROVE j + 1 \in S
  <2>1. PICK g : Rec(j, g)
    BY <1>2
  <2> HIDE DEF Step
  <2>2. \A k \in 0..j : g[k] = IF k = 0 THEN h ELSE Step(g[k - 1], k)
    BY <2>1
  <2>3. PICK f : f = [k \in 0..(j + 1) |-> IF k <= j THEN g[k] ELSE Step(g[j], j + 1)]
    OBVIOUS
  <2>4. \A k \in 0..j : f[k] = g[k]
    BY <2>3
  <2>5. f[j + 1] = Step(g[j], j + 1)
    BY <2>3
  <2>6. \A k \in 0..(j + 1) : f[k] = IF k = 0 THEN h ELSE Step(f[k - 1], k)
    <3> TAKE k \in 0..(j + 1)
    <3>1. CASE k = j + 1
      BY <3>1, <2>4, <2>5
    <3>2. CASE k # j + 1
      <4>1. k \in 0..j /\ (k # 0 => k - 1 \in 0..j)
        BY <3>2
      <4> QED BY <4>1, <2>2, <2>4
    <3> QED BY <3>1, <3>2
  <2>7. f = [k \in 0..(j + 1) |-> f[k]]
    BY <2>3
  <2>8. Rec(j + 1, f)
    BY <2>6, <2>7
  <2> QED BY <2>8
<1>3. \E g : Rec(L, g)
  <2> HIDE DEF Rec
  <2>1. L \in S
    <3> HIDE DEF S
    <3> QED BY <1>1, <1>2, NatSet
  <2> QED BY <2>1
<1> DEFINE after == CHOOSE g : Rec(L, g)
<1>4. Rec(L, after)
  <2> HIDE DEF Rec
  <2> QED BY <1>3
<1>5. AppendAll(h, n, entries) = after[L]
  BY DEF AppendAll
<1> HIDE DEF after
<1>6. after[0] = h /\ \A i \in 1..L : after[i] = Step(after[i - 1], i)
  <2> HIDE DEF Step
  <2>1. \A i \in 0..L : after[i] = IF i = 0 THEN h ELSE Step(after[i - 1], i)
    BY <1>4
  <2> QED BY <2>1
<1> DEFINE T == {i \in Nat : i <= L => /\ Good(after[i]) /\ Keeps(h, after[i])
                                      /\ Size(after[i], n) = Size(h, n) + i}
<1>7. 0 \in T
  <2>1. Size(h, n) + 0 = Size(h, n)
    BY ChildrenAre DEF Good
  <2> QED BY <2>1, <1>6 DEF Keeps
<1>8. ASSUME NEW i \in Nat, i \in T PROVE i + 1 \in T
  <2> SUFFICES ASSUME i + 1 <= L
               PROVE  /\ Good(after[i + 1]) /\ Keeps(h, after[i + 1])
                      /\ Size(after[i + 1], n) = Size(h, n) + (i + 1)
    OBVIOUS
  <2>1. Good(after[i]) /\ Keeps(h, after[i]) /\ Size(after[i], n) = Size(h, n) + i
    BY <1>8
  <2>2. n \in DOMAIN after[i] /\ after[i][n].type = h[n].type
    BY <2>1 DEF Keeps
  <2>3. i + 1 \in 1..L /\ (i + 1) - 1 = i
    OBVIOUS
  <2>4. after[i + 1] = Step(after[i], i + 1)
    BY <1>6, <2>3
  <2>7. Fits(after[i], n, entries[i + 1][1])
    <3>1. SUFFICES ASSUME h[n].type = "Array" PROVE entries[i + 1][1] = NextKey(after[i], n)
      BY <2>2 DEF Fits
    <3>2. Size(after[i], n) = i
      BY <2>1, <3>1
    <3> QED BY <2>3, <3>1, <3>2 DEF NextKey
  <2>5. Good(after[i + 1])
    BY <2>1, <2>2, <2>4, <2>7, AppendNodeGood
  <2>6. Keeps(after[i], after[i + 1]) /\ Size(after[i + 1], n) = Size(after[i], n) + 1
    <3>1. Longer(after[i], n, entries[i + 1][2][1], NewNode(after[i]), after[i + 1])
      BY <2>1, <2>2, <2>4, AppendedIs
    <3> QED BY <3>1 DEF Longer
  <2>8. Size(after[i + 1], n) = Size(h, n) + (i + 1)
    BY <2>1, <2>6, ChildrenAre DEF Good
  <2> QED BY <2>1, <2>5, <2>6, <2>8, KeepsTrans
<1> HIDE DEF T
<1>9. L \in T
  BY <1>7, <1>8, NatSet
<1> QED BY <1>5, <1>9 DEF T

\* r is what an operation gives of h: a node, when it gives one, that is there.
Reached(h, r) ==
  r = Result(r.h, r.at) /\ Good(r.h) /\ Keeps(h, r.h) /\ r.at \in DOMAIN r.h \cup {NoNode}

LEMMA AppendedReached ==
  ASSUME NEW h, Good(h), NEW n \in DOMAIN h, h[n].type \in Structured,
         NEW key, Fits(h, n, key), NEW t, NEW v
  PROVE  Reached(h, Appended(h, n, key, t, v)) /\ Appended(h, n, key, t, v).h = AppendNode(h, n, key, t, v)
<1>1. PICK g : g = AppendNode(h, n, key, t, v)
  OBVIOUS
<1>2. Longer(h, n, t, NewNode(h), g) /\ Good(g)
  BY <1>1, AppendedIs, AppendNodeGood
<1>3. PICK r : r = Appended(h, n, key, t, v)
  OBVIOUS
<1>4. r = [h |-> g, at |-> LastChild(g, n)]
  BY <1>1, <1>3 DEF Appended, Result
<1>5. r.h = g /\ r.at = NewNode(h) /\ r.at \in DOMAIN g /\ Keeps(h, g)
  BY <1>2, <1>4 DEF Longer
<1>6. r = Result(r.h, r.at)
  BY <1>4 DEF Result
<1> QED BY <1>1, <1>2, <1>3, <1>5, <1>6 DEF Reached

LEMMA FieldAddNameReached ==
  ASSUME NEW h, NEW r, Reached(h, r), NEW name
  PROVE  Reached(h, FieldAddName(r, name))
<1>1. CASE r.at = NoNode
  BY <1>1 DEF FieldAddName
<1>2. CASE r.at # NoNode /\ FindKey(r.h, r.at, name) # 0
  <2>1. PICK x : x = r.h[r.at].children[FindKey(r.h, r.at, name)]
    OBVIOUS
  <2>2. r.at \in DOMAIN r.h
    BY <1>2 DEF Reached
  <2>3. FindKey(r.h, r.at, name) \in 1..Size(r.h, r.at)
    BY <1>2, <2>2, FindKeyIs, ChildrenAre DEF Reached, Good
  <2>4. x \in DOMAIN r.h
    BY <2>1, <2>2, <2>3, ChildrenAre DEF Reached, Good
  <2>5. PICK q : q = [r EXCEPT !.at = x]
    OBVIOUS
  <2>6. FieldAddName(r, name) = q
    BY <1>2, <2>1, <2>5 DEF FieldAddName, Reached, Result
  <2>7. r = [h |-> r.h, at |-> r.at]
    BY DEF Reached, Result
  <2>8. q = [h |-> r.h, at |-> x]
    BY <2>5, <2>7
  <2>9. q.h = r.h /\ q.at = x
    BY <2>8
  <2>10. q = Result(q.h, q.at)
    BY <2>8, <2>9 DEF Result
  <2> QED BY <2>4, <2>6, <2>9, <2>10 DEF Reached
<1>3. CASE r.at # NoNode /\ FindKey(r.h, r.at, name) = 0
  <2>1. r.at \in DOMAIN r.h /\ Good(r.h) /\ Keeps(h, r.h)
    BY <1>3 DEF Reached
  <2>2. FieldAddName(r, name) =
          IF r.h[r.at].type = "Object" \/ (r.h[r.at].type = "Array" /\ name = NextKey(r.h, r.at))
          THEN Appended(r.h, r.at, name, "Object", "") ELSE [r EXCEPT !.at = NoNode]
    BY <1>3 DEF FieldAddName
  <2>3. CASE r.h[r.at].type = "Object" \/ (r.h[r.at].type = "Array" /\ name = NextKey(r.h, r.at))
    <3>1. r.h[r.at].type \in Structured /\ Fits(r.h, r.at, name)
      BY <2>3 DEF Structured, Fits
    <3>2. PICK q : q = Appended(r.h, r.at, name, "Object", "") /\ Reached(r.h, q)
      BY <2>1, <3>1, AppendedReached
    <3>3. Keeps(h, q.h)
      BY <2>1, <3>2, KeepsTrans DEF Reached
    <3>4. Reached(h, q)
      BY <3>2, <3>3 DEF Reached
    <3> QED BY <2>2, <2>3, <3>2, <3>4
  <2>4. CASE ~(r.h[r.at].type = "Object" \/ (r.h[r.at].type = "Array" /\ name = NextKey(r.h, r.at)))
    <3>1. PICK q : q = [r EXCEPT !.at = NoNode]
      OBVIOUS
    <3>2. r = [h |-> r.h, at |-> r.at]
      BY DEF Reached, Result
    <3>3. q = [h |-> r.h, at |-> NoNode]
      BY <3>1, <3>2
    <3>4. q.h = r.h /\ q.at = NoNode
      BY <3>3
    <3>5. q = Result(q.h, q.at)
      BY <3>3, <3>4 DEF Result
    <3>6. Reached(h, q)
      BY <3>4, <3>5, <2>1 DEF Reached
    <3> QED BY <2>2, <2>4, <3>1, <3>6
  <2> QED BY <2>3, <2>4
<1> QED BY <1>1, <1>2, <1>3

LEMMA FieldAddReached ==
  ASSUME NEW h, Good(h), NEW n \in DOMAIN h, NEW path, NEW L \in Nat, L = Len(path)
  PROVE  Reached(h, FieldAdd(h, n, path))
<1> DEFINE Step(g, i) == FieldAddName(g, path[i])
<1> DEFINE Rec(j, g) == g = [i \in 0..j |-> IF i = 0 THEN Result(h, n) ELSE Step(g[i - 1], i)]
<1> DEFINE S == {j \in Nat : \E g : Rec(j, g)}
<1>1. 0 \in S
  <2> HIDE DEF Step
  <2>1. Rec(0, [i \in 0..0 |-> Result(h, n)])
    OBVIOUS
  <2> QED BY <2>1
<1>2. ASSUME NEW j \in Nat, j \in S PROVE j + 1 \in S
  <2>1. PICK g : Rec(j, g)
    BY <1>2
  <2> HIDE DEF Step
  <2>2. \A k \in 0..j : g[k] = IF k = 0 THEN Result(h, n) ELSE Step(g[k - 1], k)
    BY <2>1
  <2>3. PICK f : f = [k \in 0..(j + 1) |-> IF k <= j THEN g[k] ELSE Step(g[j], j + 1)]
    OBVIOUS
  <2>4. \A k \in 0..j : f[k] = g[k]
    BY <2>3
  <2>5. f[j + 1] = Step(g[j], j + 1)
    BY <2>3
  <2>6. \A k \in 0..(j + 1) : f[k] = IF k = 0 THEN Result(h, n) ELSE Step(f[k - 1], k)
    <3> TAKE k \in 0..(j + 1)
    <3>1. CASE k = j + 1
      BY <3>1, <2>4, <2>5
    <3>2. CASE k # j + 1
      <4>1. k \in 0..j /\ (k # 0 => k - 1 \in 0..j)
        BY <3>2
      <4> QED BY <4>1, <2>2, <2>4
    <3> QED BY <3>1, <3>2
  <2>7. f = [k \in 0..(j + 1) |-> f[k]]
    BY <2>3
  <2>8. Rec(j + 1, f)
    BY <2>6, <2>7
  <2> QED BY <2>8
<1>3. \E g : Rec(L, g)
  <2> HIDE DEF Rec
  <2>1. L \in S
    <3> HIDE DEF S
    <3> QED BY <1>1, <1>2, NatSet
  <2> QED BY <2>1
<1> DEFINE after == CHOOSE g : Rec(L, g)
<1>4. Rec(L, after)
  <2> HIDE DEF Rec
  <2> QED BY <1>3
<1>5. FieldAdd(h, n, path) = after[L]
  BY DEF FieldAdd
<1> HIDE DEF after
<1>6. after[0] = Result(h, n) /\ \A i \in 1..L : after[i] = Step(after[i - 1], i)
  <2> HIDE DEF Step
  <2>1. \A i \in 0..L : after[i] = IF i = 0 THEN Result(h, n) ELSE Step(after[i - 1], i)
    BY <1>4
  <2> QED BY <2>1
<1> DEFINE T == {i \in Nat : i <= L => Reached(h, after[i])}
<1>7. 0 \in T
  <2>1. Reached(h, Result(h, n))
    BY DEF Reached, Keeps, Result
  <2> QED BY <2>1, <1>6
<1>8. ASSUME NEW i \in Nat, i \in T PROVE i + 1 \in T
  <2> SUFFICES ASSUME i + 1 <= L PROVE Reached(h, after[i + 1])
    OBVIOUS
  <2>1. Reached(h, after[i])
    BY <1>8
  <2>2. i + 1 \in 1..L /\ (i + 1) - 1 = i
    OBVIOUS
  <2>3. after[i + 1] = FieldAddName(after[i], path[i + 1])
    BY <1>6, <2>2
  <2> QED BY <2>1, <2>3, FieldAddNameReached
<1> HIDE DEF T
<1>9. L \in T
  BY <1>7, <1>8, NatSet
<1> QED BY <1>5, <1>9 DEF T

LEMMA CopyFirstGood ==
  ASSUME NEW h, Good(h), NEW n \in DOMAIN h, h[n].type \in Structured, Size(h, n) > 0, NEW text
  PROVE  /\ Good(CopyFirst(h, n, text)) /\ Keeps(h, CopyFirst(h, n, text))
         /\ Size(CopyFirst(h, n, text), n) > 0
<1>1. PICK d : d = h[n].children[1]
  OBVIOUS
<1>2. PICK s \in Nat : s = Size(h, n) /\ s > 0
  BY ChildrenAre DEF Good
<1>3. d \in DOMAIN h /\ h[d].parent = n /\ d # n
  <2>1. 1 \in 1..Size(h, n)
    BY <1>2
  <2>2. d \in DOMAIN h /\ h[d].parent = n
    BY <1>1, <2>1, ChildrenAre DEF Good, Linked
  <2>3. h[n].parent # n
    BY BelowTree, BelowIs DEF Good
  <2> QED BY <2>2, <2>3
<1>4. PICK r : r = Appended(h, n, NextKey(h, n), h[d].type, h[d].val)
  OBVIOUS
<1>5. PICK f : f = AppendNode(h, n, NextKey(h, n), h[d].type, h[d].val)
  OBVIOUS
<1>6. PICK m : m = NewNode(h)
  OBVIOUS
<1>7. Longer(h, n, h[d].type, m, f) /\ Good(f)
  BY <1>5, <1>6, AppendedIs, AppendNodeGood DEF Fits
<1>8. r.h = f /\ r.at = m
  BY <1>4, <1>5, <1>7 DEF Appended, Result, Longer
<1>9. /\ Keeps(h, f) /\ m \notin DOMAIN h /\ m \in DOMAIN f /\ f[m].type = h[d].type
      /\ f[m].children = <<>> /\ f[m].parent = n /\ Size(f, n) = s + 1
      /\ f[d] = h[d] /\ d \in DOMAIN f /\ n \in DOMAIN f
  BY <1>2, <1>3, <1>7 DEF Longer, Keeps
<1>10. m \notin Below(f, d)
  <2>1. f[d].parent \notin Below(f, d) /\ f[d].parent = n
    BY <1>3, <1>7, <1>9, BelowTree
  <2>2. m # d
    BY <1>3, <1>9
  <2> QED BY <2>1, <2>2, <1>7, <1>9, BelowTree
<1>11. f[m].type = f[d].type
  BY <1>9
<1>12. PICK g : g = CopyBelow(f, m, d)
  OBVIOUS
<1>13. /\ Good(g) /\ DOMAIN f \subseteq DOMAIN g
       /\ \A k \in DOMAIN f : /\ g[k].type = f[k].type /\ g[k].parent = f[k].parent
                              /\ k # m => g[k].children = f[k].children
  BY <1>7, <1>9, <1>10, <1>11, <1>12, CopyBelowGood
<1>14. Keeps(h, g) /\ Size(g, n) > 0 /\ m \in DOMAIN g
  <2>1. Keeps(f, g)
    BY <1>13 DEF Keeps
  <2>2. Size(g, n) = s + 1
    BY <1>9, <1>13 DEF Size
  <2> QED BY <2>1, <2>2, <1>2, <1>9, <1>13, KeepsTrans
<1>15. PICK v : v = CheckedValue(h[d].type, text)
  OBVIOUS
<1>16. PICK e : e = [g EXCEPT ![m].val = v]
  OBVIOUS
<1>17. CopyFirst(h, n, text) = IF text # "" /\ h[d].type \notin Structured THEN e ELSE g
  BY <1>1, <1>4, <1>8, <1>12, <1>15, <1>16 DEF CopyFirst
<1>18. Good(e) /\ Keeps(h, e) /\ Size(e, n) > 0
  <2>1. /\ Good(e) /\ DOMAIN e = DOMAIN g
        /\ \A k \in DOMAIN g : e[k].type = g[k].type /\ e[k].parent = g[k].parent /\ e[k].children = g[k].children
    <3>1. SameTree(g, [g EXCEPT ![m].val = v])
      BY <1>13, <1>14, ValGood, Zenon
    <3> QED BY <3>1, <1>16, Zenon DEF SameTree
  <2>2. Keeps(g, e)
    BY <2>1 DEF Keeps
  <2> QED BY <2>1, <2>2, <1>9, <1>13, <1>14, KeepsTrans DEF Size
<1> QED BY <1>13, <1>14, <1>17, <1>18

LEMMA CopiesOfFirstGood ==
  ASSUME NEW h, Good(h), NEW n \in DOMAIN h, h[n].type \in Structured, Size(h, n) > 0,
         NEW count \in Nat, NEW text
  PROVE  Good(CopiesOfFirst(h, n, count, text)) /\ Keeps(h, CopiesOfFirst(h, n, count, text))
<1> DEFINE Step(g, i) == CopyFirst(g, n, text)
<1> DEFINE Rec(j, g) == g = [i \in 0..j |-> IF i = 0 THEN h ELSE Step(g[i - 1], i)]
<1> DEFINE S == {j \in Nat : \E g : Rec(j, g)}
<1>1. 0 \in S
  <2> HIDE DEF Step
  <2>1. Rec(0, [i \in 0..0 |-> h])
    OBVIOUS
  <2> QED BY <2>1
<1>2. ASSUME NEW j \in Nat, j \in S PROVE j + 1 \in S
  <2>1. PICK g : Rec(j, g)
    BY <1>2
  <2> HIDE DEF Step
  <2>2. \A k \in 0..j : g[k] = IF k = 0 THEN h ELSE Step(g[k - 1], k)
    BY <2>1
  <2>3. PICK f : f = [k \in 0..(j + 1) |-> IF k <= j THEN g[k] ELSE Step(g[j], j + 1)]
    OBVIOUS
  <2>4. \A k \in 0..j : f[k] = g[k]
    BY <2>3
  <2>5. f[j + 1] = Step(g[j], j + 1)
    BY <2>3
  <2>6. \A k \in 0..(j + 1) : f[k] = IF k = 0 THEN h ELSE Step(f[k - 1], k)
    <3> TAKE k \in 0..(j + 1)
    <3>1. CASE k = j + 1
      BY <3>1, <2>4, <2>5
    <3>2. CASE k # j + 1
      <4>1. k \in 0..j /\ (k # 0 => k - 1 \in 0..j)
        BY <3>2
      <4> QED BY <4>1, <2>2, <2>4
    <3> QED BY <3>1, <3>2
  <2>7. f = [k \in 0..(j + 1) |-> f[k]]
    BY <2>3
  <2>8. Rec(j + 1, f)
    BY <2>6, <2>7
  <2> QED BY <2>8
<1>3. \E g : Rec(count, g)
  <2> HIDE DEF Rec
  <2>1. count \in S
    <3> HIDE DEF S
    <3> QED BY <1>1, <1>2, NatSet
  <2> QED BY <2>1
<1> DEFINE after == CHOOSE g : Rec(count, g)
<1>4. Rec(count, after)
  <2> HIDE DEF Rec
  <2> QED BY <1>3
<1>5. CopiesOfFirst(h, n, count, text) = after[count]
  BY DEF CopiesOfFirst
<1> HIDE DEF after
<1>6. after[0] = h /\ \A i \in 1..count : after[i] = Step(after[i - 1], i)
  <2> HIDE DEF Step
  <2>1. \A i \in 0..count : after[i] = IF i = 0 THEN h ELSE Step(after[i - 1], i)
    BY <1>4
  <2> QED BY <2>1
<1> DEFINE T == {i \in Nat : i <= count => Good(after[i]) /\ Keeps(h, after[i]) /\ Size(after[i], n) > 0}
<1>7. 0 \in T
  BY <1>6 DEF Keeps
<1>8. ASSUME NEW i \in Nat, i \in T PROVE i + 1 \in T
  <2> SUFFICES ASSUME i + 1 <= count
               PROVE  Good(after[i + 1]) /\ Keeps(h, after[i + 1]) /\ Size(after[i + 1], n) > 0
    OBVIOUS
  <2>1. Good(after[i]) /\ Keeps(h, after[i]) /\ Size(after[i], n) > 0
    BY <1>8
  <2>2. n \in DOMAIN after[i] /\ after[i][n].type \in Structured
    BY <2>1 DEF Keeps
  <2>3. i + 1 \in 1..count /\ (i + 1) - 1 = i
    OBVIOUS
  <2>4. after[i + 1] = CopyFirst(after[i], n, text)
    BY <1>6, <2>3
  <2>5. Good(after[i + 1]) /\ Keeps(after[i], after[i + 1]) /\ Size(after[i + 1], n) > 0
    BY <2>1, <2>2, <2>4, CopyFirstGood
  <2> QED BY <2>1, <2>5, KeepsTrans
<1> HIDE DEF T
<1>9. count \in T
  BY <1>7, <1>8, NatSet
<1> QED BY <1>5, <1>9 DEF T

\* c and the nodes with the same parent are still there.
Stays(h, g, c) ==
  /\ c \in DOMAIN g
  /\ \A m \in DOMAIN h : h[m].parent = h[c].parent => m \in DOMAIN g /\ g[m].parent = h[m].parent

LEMMA ArrayResizeGood ==
  ASSUME NEW h, Good(h), NEW n \in DOMAIN h, h[n].type = "Array", NEW size \in Nat, NEW text
  PROVE  Good(ArrayResize(h, n, size, text)) /\ Stays(h, ArrayResize(h, n, size, text), n)
<1>1. PICK s \in Nat : s = Size(h, n)
  BY ChildrenAre DEF Good
<1>2. h[n].type \in Structured
  BY DEF Structured
<1>3. CASE size <= s
  <2>1. PICK g : g = Shrunk(h, n, size)
    OBVIOUS
  <2>2. ArrayResize(h, n, size, text) = g
    <3>1. size <= Size(h, n) /\ ~(size > Size(h, n))
      BY <1>1, <1>3
    <3> QED BY <3>1, <2>1 DEF ArrayResize
  <2>3. Good(g) /\ Shortened(h, n, size, g)
    BY <1>1, <1>3, <2>1, ShrunkGood
  <2>4. Stays(h, g, n)
    BY <2>3 DEF Stays, Shortened
  <2> QED BY <2>2, <2>3, <2>4
<1>4. CASE size > s /\ s > 0
  <2>1. PICK g : g = CopiesOfFirst(h, n, size - s, text)
    OBVIOUS
  <2>2. ArrayResize(h, n, size, text) = g
    <3>1. size > Size(h, n) /\ Size(h, n) > 0 /\ ~(size <= Size(h, n)) /\ Size(h, n) # 0
      BY <1>1, <1>4
    <3>2. g = CopiesOfFirst(h, n, size - Size(h, n), text)
      BY <1>1, <2>1
    <3> QED BY <3>1, <3>2 DEF ArrayResize
  <2>3. Good(g) /\ Keeps(h, g)
    BY <1>1, <1>2, <1>4, <2>1, CopiesOfFirstGood
  <2>4. Stays(h, g, n)
    BY <2>3 DEF Stays, Keeps
  <2> QED BY <2>2, <2>3, <2>4
<1>5. CASE size > s /\ s = 0
  <2>1. PICK e : e = [i \in 1..size |-> <<ToString(i - 1), Infer(text)>>]
    OBVIOUS
  <2>0. PICK w : w = ""
    OBVIOUS
  <2>2. PICK u : u = UpdateNode(h, n, "Array", w)
    OBVIOUS
  <2>3. PICK g : g = AppendAll(u, n, e)
    OBVIOUS
  <2>4. ArrayResize(h, n, size, text) = g
    <3>1. size > Size(h, n) /\ ~(Size(h, n) > 0) /\ ~(size <= Size(h, n)) /\ Size(h, n) = 0
      BY <1>1, <1>5
    <3>2. g = AppendAll(UpdateNode(h, n, "Array", ""), n, [i \in 1..size |-> <<ToString(i - 1), Infer(text)>>])
      BY <2>0, <2>1, <2>2, <2>3
    <3> QED BY <3>1, <3>2 DEF ArrayResize
  <2>5. Good(u) /\ Updated(h, n, "Array", w, u)
    BY <2>2, UpdateNodeGood, UpdateNodeIs DEF Good
  <2>6. Below(h, n) = {n}
    <3>1. PICK c \in Seq(DOMAIN h) : c = h[n].children
      BY DEF Good, Formed
    <3>2. Len(c) = 0
      BY <3>1, <1>1, <1>5 DEF Size
    <3>3. c = <<>>
      BY <3>2
    <3> QED BY <3>1, <3>3, NoChildrenBelow DEF Good
  <2>7. /\ DOMAIN u = DOMAIN h /\ u[n].type \in Structured /\ Size(u, n) = 0
        /\ \A m \in DOMAIN h : u[m].parent = h[m].parent
    <3>1. u[n].type = "Array" /\ u[n].parent = h[n].parent /\ Size(u, n) = 0
      BY <2>5, UpdatedFields DEF Size
    <3> QED BY <2>5, <2>6, <3>1 DEF Updated, Structured
  <2>8. size = Len(e) /\ \A i \in 1..size : e[i][1] = ToString(i - 1)
    BY <2>1
  <2>9. Good(g) /\ Keeps(u, g)
    BY <2>3, <2>5, <2>7, <2>8, AppendAllGood
  <2>10. Stays(h, g, n)
    BY <2>7, <2>9 DEF Stays, Keeps
  <2> QED BY <2>4, <2>9, <2>10
<1> QED BY <1>3, <1>4, <1>5

\* The heap of r is good, and those of C are still there, with the parent n.
Standing(C, n, r) == Good(r.h) /\ \A x \in C : x \in DOMAIN r.h /\ r.h[x].parent = n

LEMMA ResizeChildStands ==
  ASSUME NEW C, NEW n, NEW r, Standing(C, n, r), NEW c \in C, NEW size \in Nat, NEW text
  PROVE  Standing(C, n, ResizeChild(r, c, size, text))
<1>1. PICK q : q = ResizeChild(r, c, size, text)
  OBVIOUS
<1>2. Good(r.h) /\ \A x \in C : x \in DOMAIN r.h /\ r.h[x].parent = n
  BY DEF Standing
<1>3. CASE r.at = NoNode \/ r.h[c].type # "Array"
  <2>1. q = [h |-> r.h, at |-> NoNode]
    BY <1>1, <1>3 DEF ResizeChild, Result
  <2>2. q.h = r.h
    BY <2>1
  <2> QED BY <2>2, <1>1, <1>2 DEF Standing
<1>4. CASE ~(r.at = NoNode \/ r.h[c].type # "Array")
  <2>1. PICK f : f = ArrayResize(r.h, c, size, text)
    OBVIOUS
  <2>2. Good(f) /\ Stays(r.h, f, c)
    BY <2>1, <1>2, <1>4, ArrayResizeGood
  <2>3. q = [h |-> f, at |-> r.at]
    BY <1>1, <1>4, <2>1 DEF ResizeChild, Result
  <2>4. q.h = f
    BY <2>3
  <2>5. \A x \in C : x \in DOMAIN f /\ f[x].parent = n
    BY <1>2, <2>2 DEF Stays
  <2> QED BY <2>2, <2>4, <2>5, <1>1 DEF Standing
<1> QED BY <1>3, <1>4

LEMMA ArrayResize2DGood ==
  ASSUME NEW h, Good(h), NEW n \in DOMAIN h, h[n].type = "Array",
         NEW size1 \in Nat, NEW size2 \in Nat, NEW text
  PROVE  Good(ArrayResize2D(h, n, size1, size2, text).h)
<1> DEFINE g0 == ArrayResize(h, n, size1, text)
<1> DEFINE L == Size(g0, n)
<1>0. Good(g0) /\ n \in DOMAIN g0 /\ L \in Nat
  BY ArrayResizeGood, ChildrenAre DEF Stays, Good
<1> HIDE DEF L
<1> DEFINE Step(g, i) == ResizeChild(g, g0[n].children[i], size2, text)
<1> DEFINE Rec(j, g) == g = [i \in 0..j |-> IF i = 0 THEN Result(g0, n) ELSE Step(g[i - 1], i)]
<1> DEFINE S == {j \in Nat : \E g : Rec(j, g)}
<1>1. 0 \in S
  <2> HIDE DEF Step
  <2>1. Rec(0, [i \in 0..0 |-> Result(g0, n)])
    OBVIOUS
  <2> QED BY <2>1
<1>2. ASSUME NEW j \in Nat, j \in S PROVE j + 1 \in S
  <2>1. PICK g : Rec(j, g)
    BY <1>2
  <2> HIDE DEF Step
  <2>2. \A k \in 0..j : g[k] = IF k = 0 THEN Result(g0, n) ELSE Step(g[k - 1], k)
    BY <2>1
  <2>3. PICK f : f = [k \in 0..(j + 1) |-> IF k <= j THEN g[k] ELSE Step(g[j], j + 1)]
    OBVIOUS
  <2>4. \A k \in 0..j : f[k] = g[k]
    BY <2>3
  <2>5. f[j + 1] = Step(g[j], j + 1)
    BY <2>3
  <2>6. \A k \in 0..(j + 1) : f[k] = IF k = 0 THEN Result(g0, n) ELSE Step(f[k - 1], k)
    <3> TAKE k \in 0..(j + 1)
    <3>1. CASE k = j + 1
      BY <3>1, <2>4, <2>5
    <3>2. CASE k # j + 1
      <4>1. k \in 0..j /\ (k # 0 => k - 1 \in 0..j)
        BY <3>2
      <4> QED BY <4>1, <2>2, <2>4
    <3> QED BY <3>1, <3>2
  <2>7. f = [k \in 0..(j + 1) |-> f[k]]
    BY <2>3
  <2>8. Rec(j + 1, f)
    BY <2>6, <2>7
  <2> QED BY <2>8
<1>3. \E g : Rec(L, g)
  <2> HIDE DEF Rec
  <2>1. L \in S
    <3> HIDE DEF S
    <3> QED BY <1>0, <1>1, <1>2, NatSet
  <2> QED BY <2>1
<1> DEFINE after == CHOOSE g : Rec(L, g)
<1>4. Rec(L, after)
  <2> HIDE DEF Rec
  <2> QED BY <1>3
<1>5. ArrayResize2D(h, n, size1, size2, text) = after[L]
  BY DEF ArrayResize2D, L
<1> HIDE DEF after
<1>6. after[0] = Result(g0, n) /\ \A i \in 1..L : after[i] = Step(after[i - 1], i)
  <2> HIDE DEF Step
  <2>1. \A i \in 0..L : after[i] = IF i = 0 THEN Result(g0, n) ELSE Step(after[i - 1], i)
    BY <1>4
  <2> QED BY <1>0, <2>1
<1> HIDE DEF g0
<1> DEFINE C == {g0[n].children[i] : i \in 1..L}
<1> DEFINE T == {i \in Nat : i <= L => Standing(C, n, after[i])}
<1>7. 0 \in T
  <2>1. \A i \in 1..L : g0[n].children[i] \in DOMAIN g0 /\ g0[g0[n].children[i]].parent = n
    BY <1>0, ChildrenAre DEF L, g0, Good, Linked
  <2>2. Standing(C, n, Result(g0, n))
    BY <1>0, <2>1 DEF Standing, Result
  <2> QED BY <2>2, <1>6
<1>8. ASSUME NEW i \in Nat, i \in T PROVE i + 1 \in T
  <2> SUFFICES ASSUME i + 1 <= L PROVE Standing(C, n, after[i + 1])
    OBVIOUS
  <2>1. Standing(C, n, after[i])
    BY <1>0, <1>8
  <2>2. i + 1 \in 1..L /\ (i + 1) - 1 = i
    BY <1>0
  <2>3. after[i + 1] = ResizeChild(after[i], g0[n].children[i + 1], size2, text)
    BY <1>6, <2>2
  <2>4. g0[n].children[i + 1] \in C
    BY <2>2
  <2> HIDE DEF C
  <2> QED BY <2>1, <2>3, <2>4, ResizeChildStands
<1> HIDE DEF T
<1>9. L \in T
  BY <1>0, <1>7, <1>8, NatSet
<1> QED BY <1>0, <1>5, <1>9 DEF T, Standing

(***************************************************************************)
(* Values and paths                                                        *)
(***************************************************************************)

LEMMA SetListGood ==
  ASSUME NEW h, Good(h), NEW n \in DOMAIN h, NEW values, NEW L \in Nat, DOMAIN values = 1..L
  PROVE  Good(SetListFrom(h, n, values))
<1>1. PICK w : w = ""
  OBVIOUS
<1>2. PICK u : u = UpdateNode(h, n, "Array", w)
  OBVIOUS
<1>3. PICK e : e = [i \in 1..L |-> <<ToString(i - 1), values[i]>>]
  OBVIOUS
<1>4. SetListFrom(h, n, values) = AppendAll(u, n, e)
  BY <1>1, <1>2, <1>3 DEF SetListFrom
<1>5. Good(u) /\ n \in DOMAIN u /\ Updated(h, n, "Array", w, u)
  BY <1>2, UpdateNodeGood, UpdateNodeIs DEF Good
<1>6. u[n].type \in Structured /\ Size(u, n) = 0
  <2>1. u[n].type = "Array" /\ u[n].children = <<>>
    BY <1>5, UpdatedFields
  <2> QED BY <2>1 DEF Structured, Size
<1>7. L = Len(e) /\ \A i \in 1..L : e[i][1] = ToString(i - 1)
  BY <1>3
<1> QED BY <1>4, <1>5, <1>6, <1>7, AppendAllGood

LEMMA SetMapGood ==
  ASSUME NEW h, Good(h), NEW n \in DOMAIN h, NEW a, NEW v
  PROVE  Good(SetMapFrom(h, n, <<<<a, v>>>>))
<1>1. PICK w : w = ""
  OBVIOUS
<1>2. PICK u : u = UpdateNode(h, n, "Object", w)
  OBVIOUS
<1>3. PICK e : e = <<<<a, v>>>>
  OBVIOUS
<1>4. SetMapFrom(h, n, <<<<a, v>>>>) = AppendAll(u, n, e)
  BY <1>1, <1>2, <1>3 DEF SetMapFrom
<1>5. Good(u) /\ n \in DOMAIN u /\ Updated(h, n, "Object", w, u)
  BY <1>2, UpdateNodeGood, UpdateNodeIs DEF Good
<1>6. u[n].type \in Structured /\ u[n].type # "Array"
  <2>1. u[n].type = "Object"
    BY <1>5, UpdatedFields
  <2> QED BY <2>1 DEF Structured
<1>7. Len(e) \in Nat
  BY <1>3
<1> QED BY <1>4, <1>5, <1>6, <1>7, AppendAllGood

\* A top is still there when another node is updated.
LEMMA SetValueGood ==
  ASSUME NEW h, Good(h), NEW n \in DOMAIN h, NEW path, NEW L \in Nat, L = Len(path), NEW t, NEW v
  PROVE  /\ Good(SetValueViaPath(h, n, path, t, v))
         /\ IsTop(h, n) => n \in DOMAIN SetValueViaPath(h, n, path, t, v)
<1>1. PICK r : r = FieldAdd(h, n, path)
  OBVIOUS
<1>2. Reached(h, r)
  BY <1>1, FieldAddReached
<1>3. Good(r.h) /\ n \in DOMAIN r.h /\ r.h[n].parent = h[n].parent
  BY <1>2 DEF Reached, Keeps
<1>4. CASE r.at = NoNode
  BY <1>1, <1>3, <1>4 DEF SetValueViaPath
<1>5. CASE r.at # NoNode
  <2>1. r.at \in DOMAIN r.h
    BY <1>2, <1>5 DEF Reached
  <2>2. PICK g : g = UpdateNode(r.h, r.at, t, v)
    OBVIOUS
  <2>3. SetValueViaPath(h, n, path, t, v) = g
    BY <1>1, <1>5, <2>2 DEF SetValueViaPath
  <2>4. Good(g) /\ Updated(r.h, r.at, t, v, g)
    BY <1>3, <2>1, <2>2, UpdateNodeGood, UpdateNodeIs DEF Good
  <2>5. IsTop(h, n) => n \in DOMAIN g
    <3>1. SUFFICES ASSUME h[n].parent = NoNode, n \in Below(r.h, r.at) \ {r.at} PROVE FALSE
      BY <1>3, <2>4 DEF IsTop, Updated
    <3>2. NoNode \in Below(r.h, r.at)
      BY <1>3, <2>1, <3>1, BelowTree
    <3> QED BY <1>3, <2>1, <3>2, BelowIs, NoNodeAssumption DEF Good, Formed
  <2> QED BY <2>3, <2>4, <2>5
<1> QED BY <1>4, <1>5

LEMMA AddViaGood ==
  ASSUME NEW h, Good(h), NEW n \in DOMAIN h, NEW path, NEW L \in Nat, L = Len(path), NEW t
  PROVE  Good(AddViaPath(h, n, path, t).h)
<1>1. PICK r : r = FieldAdd(h, n, path)
  OBVIOUS
<1>2. Reached(h, r)
  BY <1>1, FieldAddReached
<1>3. CASE r.at = NoNode \/ r.h[r.at].type = t
  BY <1>1, <1>2, <1>3 DEF AddViaPath, Reached
<1>4. CASE ~(r.at = NoNode \/ r.h[r.at].type = t)
  <2>1. PICK g : g = UpdateNode(r.h, r.at, t, "")
    OBVIOUS
  <2>2. Good(g)
    BY <1>2, <1>4, <2>1, UpdateNodeGood DEF Reached
  <2>3. PICK q : q = [r EXCEPT !.h = g]
    OBVIOUS
  <2>4. AddViaPath(h, n, path, t) = q
    BY <1>1, <1>4, <2>1, <2>3 DEF AddViaPath
  <2>5. r = [h |-> r.h, at |-> r.at]
    BY <1>2 DEF Reached, Result
  <2>6. q = [h |-> g, at |-> r.at]
    BY <2>3, <2>5
  <2> QED BY <2>2, <2>4, <2>6
<1> QED BY <1>3, <1>4

LEMMA SetOidGood ==
  ASSUME NEW h, Good(h), NEW n \in DOMAIN h, IsTop(h, n), NEW key, NEW id
  PROVE  Good(SetOid(h, n, key, id))
<1>1. Len(<<"_key">>) \in Nat /\ Len(<<"_id">>) \in Nat
  OBVIOUS
<1>2. PICK p : p = <<"_key">>
  OBVIOUS
<1>3. PICK q : q = <<"_id">>
  OBVIOUS
<1>4. PICK g : g = SetValueViaPath(h, n, p, "String", key)
  OBVIOUS
<1>5. Good(g) /\ n \in DOMAIN g
  BY <1>1, <1>2, <1>4, SetValueGood
<1>6. Good(SetValueViaPath(g, n, q, "String", id))
  BY <1>1, <1>3, <1>5, SetValueGood
<1> QED BY <1>2, <1>3, <1>4, <1>6 DEF SetOid

LEMMA IndexedGood ==
  ASSUME NEW h, Good(h), NEW n \in DOMAIN h, NEW t
  PROVE  Good(Indexed(h, n, t)) /\ n \in DOMAIN Indexed(h, n, t)
<1>1. CASE h[n].type = "Null"
  BY <1>1, UpdateNodeGood DEF Indexed
<1>2. CASE h[n].type # "Null"
  BY <1>2 DEF Indexed
<1> QED BY <1>1, <1>2

LEMMA GetChildGood ==
  ASSUME NEW h, Good(h), NEW n \in DOMAIN h, h[n].type \in Structured
  PROVE  /\ \A idx \in Nat : Good(GetChildAt(h, n, idx).h)
         /\ \A key \in Names : Good(GetChildKey(h, n, key).h)
<1>1. \A key, t, v : Fits(h, n, key) => Good(Appended(h, n, key, t, v).h)
  BY AppendedReached, AppendNodeGood
<1>2. \A x : Result(h, x).h = h
  BY DEF Result
<1>3. ASSUME NEW idx \in Nat PROVE Good(GetChildAt(h, n, idx).h)
  <2>0. Size(h, n) \in Nat
    BY ChildrenAre DEF Good
  <2>1. CASE idx > Size(h, n)
    <3>1. idx # Size(h, n)
      BY <2>0, <2>1
    <3> QED BY <2>1, <3>1, <1>2 DEF GetChildAt
  <2>2. CASE idx = Size(h, n)
    <3>1. ~(idx > Size(h, n))
      BY <2>0, <2>2
    <3> QED BY <2>2, <3>1, <1>1 DEF GetChildAt, Fits
  <2>3. CASE ~(idx > Size(h, n)) /\ idx # Size(h, n)
    BY <2>3, <1>2 DEF GetChildAt
  <2> QED BY <2>1, <2>2, <2>3
<1>4. ASSUME NEW key \in Names PROVE Good(GetChildKey(h, n, key).h)
  BY <1>1, <1>2 DEF GetChildKey, Fits
<1> QED BY <1>3, <1>4

(***************************************************************************)
(* The actions                                                             *)
(***************************************************************************)

LEMMA NoNodesGood == Good(<<>>)
<1>1. DOMAIN <<>> = {} /\ <<>> = [m \in DOMAIN <<>> |-> <<>>[m]]
  OBVIOUS
<1>2. Formed(<<>>)
  BY <1>1, FS_EmptySet DEF Formed
<1> QED BY <1>1, <1>2 DEF Good, Linked, Grounded, Numbered

LEMMA InitGood == InitTree => Good(node)
<1>1. PICK r : r = Top("Object")
  OBVIOUS
<1>2. IsNode(r) /\ r.parent = NoNode /\ r.children = <<>>
  BY <1>1 DEF Top, IsNode
<1>3. Good(Added(<<>>, NewNode(<<>>), r))
  BY <1>2, NoNodesGood, TopGood DEF WithTop
<1> QED BY <1>1, <1>3 DEF InitTree

LEMMA DocumentSteps ==
  ASSUME Slips = {}, Good(node), NextDocument
  PROVE  Good(node')
<1>1. ASSUME NEW type \in Structured, Construct(type) PROVE Good(node')
  <2>1. PICK r : r = Top(type)
    OBVIOUS
  <2>2. IsNode(r) /\ r.parent = NoNode /\ r.children = <<>>
    BY <2>1 DEF Top, IsNode
  <2>3. Good(Added(node, NewNode(node), r))
    BY <2>2, TopGood DEF WithTop
  <2> QED BY <1>1, <2>1, <2>3 DEF Construct, Call
<1>2. ASSUME NEW n \in DOMAIN node, Destroy(n) PROVE Good(node')
  <2>1. ~Owned(node, n)
    BY <1>2 DEF Destroy, Documents
  <2>2. IsTop(node, n)
    <3> SUFFICES ASSUME ~IsTop(node, n) PROVE FALSE
      OBVIOUS
    <3>1. PICK i \in 1..Size(node, node[n].parent) :
             node[n].parent \in DOMAIN node /\ node[node[n].parent].children[i] = n
      BY DEF Good, Linked
    <3>2. n \in ToSet(node[node[n].parent].children)
      BY <3>1, ToSetIs DEF Good
    <3> QED BY <2>1, <3>1, <3>2 DEF Owned
  <2> QED BY <1>2, <2>2, DropTopGood DEF Destroy, Call
<1>3. ASSUME NEW n \in DOMAIN node, CopyConstruct(n) PROVE Good(node')
  BY <1>3, CopiedGood DEF CopyConstruct, Call, Apart
<1>4. ASSUME NEW n \in DOMAIN node, MoveConstruct(n) PROVE Good(node')
  <2>1. PICK m : m = NewNode(node)
    OBVIOUS
  <2>2. PICK x : x = node[n] /\ IsNode(x) /\ x.parent = NoNode
    BY <1>4 DEF MoveConstruct, IsTop, Good, Formed
  <2>3. PICK w : w = ""
    OBVIOUS
  <2>4. PICK r : r = [x EXCEPT !.val = w, !.children = <<>>]
    OBVIOUS
  <2>5. IsNode(r) /\ r.parent = NoNode /\ r.children = <<>>
    <3>1. r = [type |-> x.type, key |-> x.key, val |-> w, ndx |-> x.ndx, parent |-> x.parent,
               children |-> <<>>]
      BY <2>2, <2>4 DEF IsNode
    <3> QED BY <3>1, <2>2 DEF IsNode
  <2>6. PICK g : g = Added(node, m, r)
    OBVIOUS
  <2>7. node' = Move(g, m, n)
    BY <1>4, <2>1, <2>2, <2>3, <2>4, <2>6 DEF MoveConstruct, Call
  <2>8. Good(g) /\ m \in DOMAIN g /\ n \in DOMAIN g /\ m \notin Below(g, n) /\ n \notin Below(g, m)
    BY <2>1, <2>5, <2>6, NewTop
  <2> QED BY <2>7, <2>8, MoveGood
<1>5. ASSUME NEW t \in DOMAIN node, NEW s \in DOMAIN node, CopyAssign(t, s) PROVE Good(node')
  BY <1>5, CopyGood DEF CopyAssign, Call
<1>6. ASSUME NEW t \in DOMAIN node, NEW s \in DOMAIN node, MoveAssign(t, s) PROVE Good(node')
  BY <1>6, MoveGood DEF MoveAssign, Call
<1> QED BY <1>1, <1>2, <1>3, <1>4, <1>5, <1>6 DEF NextDocument

LEMMA NodeSteps ==
  ASSUME Good(node), NextNode
  PROVE  Good(node')
<1> SUFFICES ASSUME NEW n \in DOMAIN node,
                    \/ Clear(n) \/ RemoveField(n) \/ PlaceholdNulls(n)
                    \/ \E v \in Values : SetFrom(n, v) \/ AddToArray(n, v)
                    \/ \E a \in Names, v \in Values : SetMap(n, a, v) \/ AddToObject(n, a, v)
                    \/ \E values \in SmallArrays : SetList(n, values)
                    \/ \E type \in Structured : StartBuilder(n, type)
                    \/ \E idx \in 0..1 : IndexNumber(n, idx)
                    \/ \E a \in Names : IndexName(n, a)
             PROVE  Good(node')
  BY DEF NextNode
<1>1. CASE Clear(n)
  BY <1>1, UpdateNodeGood DEF Clear, ClearNode, Call
<1>2. CASE RemoveField(n)
  <2>1. PICK p \in DOMAIN node : p = node[n].parent
    BY <1>2 DEF RemoveField, Good, Linked
  <2>2. PICK i \in 1..Size(node, p) : node[p].children[i] = n
    BY <1>2, <2>1 DEF RemoveField, Good, Linked
  <2>3. PICK b : b = (node[p].type = "Array")
    OBVIOUS
  <2>4. node' = RemoveChild(node, p, node[p].children[i], b)
    BY <1>2, <2>1, <2>2, <2>3 DEF RemoveField, Call
  <2> QED BY <2>3, <2>4, RemoveChildGood
<1>3. CASE PlaceholdNulls(n)
  BY <1>3, PlaceholdNullGood DEF PlaceholdNulls, Call
<1>4. ASSUME NEW v \in Values, SetFrom(n, v) PROVE Good(node')
  BY <1>4, UpdateNodeGood DEF SetFrom, Call
<1>5. ASSUME NEW v \in Values, AddToArray(n, v) PROVE Good(node')
  BY <1>5, AppendNodeGood DEF AddToArray, Call, Structured, Fits
<1>6. ASSUME NEW a \in Names, NEW v \in Values, SetMap(n, a, v) PROVE Good(node')
  BY <1>6, SetMapGood DEF SetMap, Call
<1>7. ASSUME NEW a \in Names, NEW v \in Values, AddToObject(n, a, v) PROVE Good(node')
  BY <1>7, AppendNodeGood DEF AddToObject, Call, Structured, Fits
<1>8. ASSUME NEW values \in SmallArrays, SetList(n, values) PROVE Good(node')
  <2>1. PICK k \in 0..2 : values \in [1..k -> Values]
    BY DEF SmallArrays
  <2>2. k \in Nat /\ DOMAIN values = 1..k
    BY <2>1
  <2> QED BY <1>8, <2>2, SetListGood DEF SetList, Call
<1>9. ASSUME NEW type \in Structured, StartBuilder(n, type) PROVE Good(node')
  BY <1>9, UpdateNodeGood DEF StartBuilder, Call
<1>10. ASSUME NEW idx \in 0..1, IndexNumber(n, idx) PROVE Good(node')
  <2>1. PICK h : h = Indexed(node, n, "Array")
    OBVIOUS
  <2>2. h[n].type \in Structured /\ node' = GetChildAt(h, n, idx).h
    BY <1>10, <2>1 DEF IndexNumber, Call
  <2>3. Good(h) /\ n \in DOMAIN h /\ idx \in Nat
    BY <2>1, IndexedGood
  <2> QED BY <2>2, <2>3, GetChildGood
<1>11. ASSUME NEW a \in Names, IndexName(n, a) PROVE Good(node')
  <2>1. PICK h : h = Indexed(node, n, "Object")
    OBVIOUS
  <2>2. h[n].type \in Structured /\ node' = GetChildKey(h, n, a).h
    BY <1>11, <2>1 DEF IndexName, Call
  <2>3. Good(h) /\ n \in DOMAIN h
    BY <2>1, IndexedGood
  <2> QED BY <2>2, <2>3, GetChildGood
<1> QED BY <1>1, <1>2, <1>3, <1>4, <1>5, <1>6, <1>7, <1>8, <1>9, <1>10, <1>11

LEMMA PathSteps ==
  ASSUME Good(node), NextPath
  PROVE  Good(node')
<1> SUFFICES ASSUME NEW n \in DOMAIN node,
                    \/ \E path \in Paths, text \in Texts : SetScalarVia(n, path, text)
                    \/ \E path \in Paths, type \in Structured : AddVia(n, path, type)
                    \/ \E id \in Texts : SetOidOf(n, id)
                    \/ \E size \in 0..2, text \in Texts : Resize(n, size, text)
                    \/ \E size1, size2 \in 1..2, text \in Texts : ResizeXD(n, size1, size2, text)
             PROVE  Good(node')
  BY DEF NextPath
<1>0. \A path \in Paths : Len(path) \in Nat
  BY DEF Paths
<1>1. ASSUME NEW path \in Paths, NEW text \in Texts, SetScalarVia(n, path, text) PROVE Good(node')
  <2>1. node' = SetValueViaPath(node, n, path, Infer(text)[1], Infer(text)[2])
    BY <1>1 DEF SetScalarVia, SetScalarViaPath, Call
  <2> QED BY <2>1, <1>0, SetValueGood
<1>2. ASSUME NEW path \in Paths, NEW type \in Structured, AddVia(n, path, type) PROVE Good(node')
  <2>1. node' = AddViaPath(node, n, path, type).h
    BY <1>2 DEF AddVia, Call
  <2> QED BY <2>1, <1>0, AddViaGood
<1>3. ASSUME NEW id \in Texts, SetOidOf(n, id) PROVE Good(node')
  BY <1>3, SetOidGood DEF SetOidOf, Call
<1>4. ASSUME NEW size \in 0..2, NEW text \in Texts, Resize(n, size, text) PROVE Good(node')
  <2>1. size \in Nat /\ node[n].type = "Array" /\ node' = ArrayResize(node, n, size, text)
    BY <1>4 DEF Resize, Call
  <2> QED BY <2>1, ArrayResizeGood
<1>5. ASSUME NEW size1 \in 1..2, NEW size2 \in 1..2, NEW text \in Texts, ResizeXD(n, size1, size2, text)
      PROVE  Good(node')
  <2>1. /\ size1 \in Nat /\ size2 \in Nat /\ node[n].type = "Array"
        /\ node' = ArrayResize2D(node, n, size1, size2, text).h
    BY <1>5 DEF ResizeXD, Call
  <2> QED BY <2>1, ArrayResize2DGood
<1> QED BY <1>1, <1>2, <1>3, <1>4, <1>5

(***************************************************************************)
(* Paths                                                                   *)
(***************************************************************************)

Own(h, m) == IsTop(h, m) \/ IsTop(h, h[m].parent)

\* One more key in front of the paths up.
Led(h, up) ==
  [m \in DOMAIN h |-> IF Own(h, m) THEN <<h[m].key>> ELSE Append(up[h[m].parent], h[m].key)]

Climbs(h, N, up) ==
  /\ up[0] = [m \in DOMAIN h |-> <<h[m].key>>] /\ \A x : GetPath(h, x) = up[N][x]
  /\ \A k \in 1..N : up[k] = Led(h, up[k - 1])

\* The recursive function of GetPath: it exists, and goes up step by step.
LEMMA UpIs ==
  ASSUME NEW h, NEW N \in Nat, N = Cardinality(DOMAIN h)
  PROVE  \E up : Climbs(h, N, up)
<1> DEFINE Start == [m \in DOMAIN h |-> <<h[m].key>>]
<1> DEFINE Step(g, i) == Led(h, g)
<1> DEFINE Rec(j, g) == g = [i \in 0..j |-> IF i = 0 THEN Start ELSE Step(g[i - 1], i)]
<1> DEFINE S == {j \in Nat : \E g : Rec(j, g)}
<1>1. 0 \in S
  <2> HIDE DEF Step
  <2>1. Rec(0, [i \in 0..0 |-> Start])
    OBVIOUS
  <2> QED BY <2>1
<1>2. ASSUME NEW j \in Nat, j \in S PROVE j + 1 \in S
  <2>1. PICK g : Rec(j, g)
    BY <1>2
  <2> HIDE DEF Step
  <2>2. \A k \in 0..j : g[k] = IF k = 0 THEN Start ELSE Step(g[k - 1], k)
    BY <2>1
  <2>3. PICK f : f = [k \in 0..(j + 1) |-> IF k <= j THEN g[k] ELSE Step(g[j], j + 1)]
    OBVIOUS
  <2>4. \A k \in 0..j : f[k] = g[k]
    BY <2>3
  <2>5. f[j + 1] = Step(g[j], j + 1)
    BY <2>3
  <2>6. \A k \in 0..(j + 1) : f[k] = IF k = 0 THEN Start ELSE Step(f[k - 1], k)
    <3> TAKE k \in 0..(j + 1)
    <3>1. CASE k = j + 1
      BY <3>1, <2>4, <2>5
    <3>2. CASE k # j + 1
      <4>1. k \in 0..j /\ (k # 0 => k - 1 \in 0..j)
        BY <3>2
      <4> QED BY <4>1, <2>2, <2>4
    <3> QED BY <3>1, <3>2
  <2>7. f = [k \in 0..(j + 1) |-> f[k]]
    BY <2>3
  <2>8. Rec(j + 1, f)
    BY <2>6, <2>7
  <2> QED BY <2>8
<1>3. \E g : Rec(N, g)
  <2> HIDE DEF Rec
  <2>1. N \in S
    <3> HIDE DEF S
    <3> QED BY <1>1, <1>2, NatSet
  <2> QED BY <2>1
<1> DEFINE after == CHOOSE g : Rec(N, g)
<1>4. Rec(N, after)
  <2> HIDE DEF Rec
  <2> QED BY <1>3
<1>5. \A x : GetPath(h, x) = after[N][x]
  BY DEF GetPath, Led, Own
<1> HIDE DEF after
<1>6. after[0] = Start /\ \A i \in 1..N : after[i] = Step(after[i - 1], i)
  <2> HIDE DEF Step
  <2>1. \A i \in 0..N : after[i] = IF i = 0 THEN Start ELSE Step(after[i - 1], i)
    BY <1>4
  <2> QED BY <2>1
<1> QED BY <1>5, <1>6 DEF Climbs

\* The paths are long enough after as many steps as there are nodes: the nodes
\* whose path is settled grow by one in every step.
LEMMA PathIs ==
  ASSUME NEW h, Good(h), NEW m \in DOMAIN h
  PROVE  GetPath(h, m) = IF Own(h, m) THEN <<h[m].key>> ELSE Append(GetPath(h, h[m].parent), h[m].key)
<1>1. PICK N \in Nat : N = Cardinality(DOMAIN h)
  BY FS_CardinalityType DEF Good, Formed
<1>2. PICK up : Climbs(h, N, up)
  BY <1>1, UpIs
<1>3. \A x \in DOMAIN h : up[0][x] = <<h[x].key>>
  BY <1>2 DEF Climbs
<1>4. ASSUME NEW k \in 1..N, NEW x \in DOMAIN h
      PROVE  up[k][x] = IF Own(h, x) THEN <<h[x].key>> ELSE Append(up[k - 1][h[x].parent], h[x].key)
  <2>1. up[k] = Led(h, up[k - 1])
    BY <1>2 DEF Climbs
  <2> QED BY <2>1 DEF Led
<1> DEFINE D(k) == {x \in DOMAIN h : \A j \in k..N : up[j][x] = up[k][x]}
<1>5. ASSUME NEW k \in 0..N PROVE D(k) \subseteq DOMAIN h /\ IsFiniteSet(D(k)) /\ Cardinality(D(k)) \in Nat
  <2>1. D(k) \subseteq DOMAIN h
    OBVIOUS
  <2> HIDE DEF D
  <2> QED BY <2>1, FS_Subset, FS_CardinalityType DEF Good, Formed
<1>6. ASSUME NEW k \in Nat, k < N, D(k) # DOMAIN h
      PROVE  D(k) \subseteq D(k + 1) /\ D(k) # D(k + 1)
  <2>1. k \in 0..N /\ k + 1 \in 1..N
    BY <1>6
  <2>2. D(k) \subseteq D(k + 1)
    <3> SUFFICES ASSUME NEW x \in D(k) PROVE x \in D(k + 1)
      OBVIOUS
    <3>1. \A j \in k..N : up[j][x] = up[k][x]
      OBVIOUS
    <3>2. k + 1 \in k..N /\ \A j \in (k + 1)..N : j \in k..N
      BY <2>1
    <3> QED BY <3>1, <3>2
  <2>3. PICK x \in DOMAIN h \ D(k) : h[x].parent \notin DOMAIN h \ D(k)
    <3>1. DOMAIN h \ D(k) # {}
      BY <1>6
    <3> QED BY <3>1 DEF Good, Grounded
  <2>4. ASSUME NEW j \in (k + 1)..N PROVE up[j][x] = up[k + 1][x]
    <3>1. j \in 1..N /\ j - 1 \in k..N /\ k + 1 \in 1..N /\ (k + 1) - 1 = k
      BY <2>1
    <3>2. CASE Own(h, x)
      BY <3>1, <3>2, <1>4
    <3>3. CASE ~Own(h, x)
      <4>1. h[x].parent \in DOMAIN h
        BY <3>3 DEF Own, Good, Linked
      <4>2. h[x].parent \in D(k)
        BY <4>1, <2>3
      <4>3. up[j - 1][h[x].parent] = up[k][h[x].parent]
        BY <4>2, <3>1
      <4> HIDE DEF D
      <4>4. up[j][x] = Append(up[j - 1][h[x].parent], h[x].key)
        BY <3>1, <3>3, <1>4
      <4>5. up[k + 1][x] = Append(up[(k + 1) - 1][h[x].parent], h[x].key)
        BY <3>1, <3>3, <1>4
      <4> QED BY <3>1, <4>3, <4>4, <4>5
    <3> QED BY <3>2, <3>3
  <2>5. x \in D(k + 1)
    BY <2>3, <2>4
  <2> QED BY <2>2, <2>3, <2>5
<1> DEFINE T == {k \in Nat : k <= N => D(k) = DOMAIN h \/ Cardinality(D(k)) > k}
<1>7. 0 \in T
  <2> SUFFICES ASSUME DOMAIN h # {} PROVE Cardinality(D(0)) > 0
    OBVIOUS
  <2>1. PICK x \in DOMAIN h : h[x].parent \notin DOMAIN h
    BY DEF Good, Grounded
  <2>2. Own(h, x)
    BY <2>1 DEF Own, Good, Linked
  <2>3. ASSUME NEW j \in 0..N PROVE up[j][x] = up[0][x]
    <3>1. j = 0 \/ j \in 1..N
      OBVIOUS
    <3> QED BY <3>1, <2>2, <1>3, <1>4
  <2>4. x \in D(0)
    BY <2>3
  <2> HIDE DEF D
  <2>5. IsFiniteSet(D(0)) /\ Cardinality(D(0)) \in Nat
    BY <1>5
  <2>6. Cardinality(D(0)) # 0
    BY <2>4, <2>5, FS_EmptySet
  <2> QED BY <2>5, <2>6
<1>8. ASSUME NEW k \in Nat, k \in T PROVE k + 1 \in T
  <2> HIDE DEF D
  <2> SUFFICES ASSUME k + 1 <= N, D(k + 1) # DOMAIN h PROVE Cardinality(D(k + 1)) > k + 1
    OBVIOUS
  <2>1. k < N /\ k \in 0..N /\ k + 1 \in 0..N
    OBVIOUS
  <2>2. D(k) # DOMAIN h
    <3>1. SUFFICES ASSUME D(k) = DOMAIN h PROVE FALSE
      OBVIOUS
    <3>2. D(k) \subseteq D(k + 1)
      <4> USE DEF D
      <4> SUFFICES ASSUME NEW x \in D(k) PROVE x \in D(k + 1)
        OBVIOUS
      <4>1. \A j \in k..N : up[j][x] = up[k][x]
        OBVIOUS
      <4>2. k + 1 \in k..N /\ \A j \in (k + 1)..N : j \in k..N
        BY <2>1
      <4> QED BY <4>1, <4>2
    <3> QED BY <2>1, <3>1, <3>2, <1>5
  <2>3. Cardinality(D(k)) > k
    BY <1>8, <2>1, <2>2
  <2>4. D(k) \subseteq D(k + 1) /\ D(k) # D(k + 1)
    BY <1>6, <2>1, <2>2
  <2>5. Cardinality(D(k)) <= Cardinality(D(k + 1)) /\ Cardinality(D(k)) # Cardinality(D(k + 1))
    BY <2>1, <2>4, <1>5, FS_Subset
  <2> QED BY <2>1, <2>3, <2>5, <1>5
<1>9. N > 0
  <2>1. N # 0
    BY <1>1, FS_EmptySet DEF Good, Formed
  <2> QED BY <2>1
<1>10. D(N - 1) = DOMAIN h
  <2> HIDE DEF D
  <2>1. N - 1 \in T
    <3> HIDE DEF T
    <3>1. N - 1 \in Nat
      BY <1>9
    <3> QED BY <3>1, <1>7, <1>8, NatSet
  <2>2. N - 1 \in 0..N
    BY <1>9
  <2>3. SUFFICES ASSUME Cardinality(D(N - 1)) > N - 1 PROVE D(N - 1) = DOMAIN h
    BY <2>1, <2>2
  <2>4. D(N - 1) \subseteq DOMAIN h /\ Cardinality(D(N - 1)) \in Nat
    BY <2>2, <1>5
  <2>5. Cardinality(D(N - 1)) <= N /\ (Cardinality(D(N - 1)) = N => D(N - 1) = DOMAIN h)
    BY <1>1, <2>4, FS_Subset DEF Good, Formed
  <2> QED BY <2>3, <2>4, <2>5
<1>11. \A x \in DOMAIN h : up[N][x] = up[N - 1][x]
  <2>1. N \in (N - 1)..N
    BY <1>9
  <2> QED BY <1>10, <2>1
<1>12. \A x : GetPath(h, x) = up[N][x]
  BY <1>2 DEF Climbs
<1>13. ~Own(h, m) => h[m].parent \in DOMAIN h
  BY DEF Own, Good, Linked
<1>14. N \in 1..N
  BY <1>9
<1> HIDE DEF D, T
<1> QED BY <1>4, <1>11, <1>12, <1>13, <1>14

LEMMA PathSeq ==
  ASSUME NEW h, Good(h), NEW m \in DOMAIN h
  PROVE  GetPath(h, m) \in Seq({h[x].key : x \in DOMAIN h})
<1>1. PICK K : K = {h[x].key : x \in DOMAIN h}
  OBVIOUS
<1>2. PICK S : S = {x \in DOMAIN h : GetPath(h, x) \notin Seq(K)}
  OBVIOUS
<1>3. SUFFICES ASSUME S # {} PROVE FALSE
  BY <1>1, <1>2
<1>4. PICK x \in S : h[x].parent \notin S
  BY <1>2, <1>3 DEF Good, Grounded
<1>5. x \in DOMAIN h /\ h[x].key \in K /\ GetPath(h, x) \notin Seq(K)
  BY <1>1, <1>2, <1>4
<1>6. CASE Own(h, x)
  <2>1. GetPath(h, x) = <<h[x].key>>
    BY <1>5, <1>6, PathIs
  <2>2. <<h[x].key>> \in Seq(K)
    BY <1>5
  <2> QED BY <2>1, <2>2, <1>5
<1>7. CASE ~Own(h, x)
  <2>1. GetPath(h, x) = Append(GetPath(h, h[x].parent), h[x].key)
    BY <1>5, <1>7, PathIs
  <2>2. h[x].parent \in DOMAIN h
    BY <1>5, <1>7 DEF Own, Good, Linked
  <2>3. GetPath(h, h[x].parent) \in Seq(K)
    BY <2>2, <1>2, <1>4
  <2> QED BY <2>1, <2>3, <1>5
<1> QED BY <1>6, <1>7

\* The child of x with the given key.
Onward(h, x, key) ==
  IF x = NoNode \/ FindKey(h, x, key) = 0 THEN NoNode ELSE h[x].children[FindKey(h, x, key)]

Finds(h, n, path, L, at) ==
  at[0] = n /\ FieldNames(h, n, path) = at[L] /\ \A i \in 1..L : at[i] = Onward(h, at[i - 1], path[i])

LEMMA FieldIs ==
  ASSUME NEW h, NEW n, NEW path, NEW L \in Nat, L = Len(path)
  PROVE  \E at : Finds(h, n, path, L, at)
<1> DEFINE Step(g, i) == Onward(h, g, path[i])
<1> DEFINE Rec(j, g) == g = [i \in 0..j |-> IF i = 0 THEN n ELSE Step(g[i - 1], i)]
<1> DEFINE S == {j \in Nat : \E g : Rec(j, g)}
<1>1. 0 \in S
  <2> HIDE DEF Step
  <2>1. Rec(0, [i \in 0..0 |-> n])
    OBVIOUS
  <2> QED BY <2>1
<1>2. ASSUME NEW j \in Nat, j \in S PROVE j + 1 \in S
  <2>1. PICK g : Rec(j, g)
    BY <1>2
  <2> HIDE DEF Step
  <2>2. \A k \in 0..j : g[k] = IF k = 0 THEN n ELSE Step(g[k - 1], k)
    BY <2>1
  <2>3. PICK f : f = [k \in 0..(j + 1) |-> IF k <= j THEN g[k] ELSE Step(g[j], j + 1)]
    OBVIOUS
  <2>4. \A k \in 0..j : f[k] = g[k]
    BY <2>3
  <2>5. f[j + 1] = Step(g[j], j + 1)
    BY <2>3
  <2>6. \A k \in 0..(j + 1) : f[k] = IF k = 0 THEN n ELSE Step(f[k - 1], k)
    <3> TAKE k \in 0..(j + 1)
    <3>1. CASE k = j + 1
      BY <3>1, <2>4, <2>5
    <3>2. CASE k # j + 1
      <4>1. k \in 0..j /\ (k # 0 => k - 1 \in 0..j)
        BY <3>2
      <4> QED BY <4>1, <2>2, <2>4
    <3> QED BY <3>1, <3>2
  <2>7. f = [k \in 0..(j + 1) |-> f[k]]
    BY <2>3
  <2>8. Rec(j + 1, f)
    BY <2>6, <2>7
  <2> QED BY <2>8
<1>3. \E g : Rec(L, g)
  <2> HIDE DEF Rec
  <2>1. L \in S
    <3> HIDE DEF S
    <3> QED BY <1>1, <1>2, NatSet
  <2> QED BY <2>1
<1> DEFINE after == CHOOSE g : Rec(L, g)
<1>4. Rec(L, after)
  <2> HIDE DEF Rec
  <2> QED BY <1>3
<1>5. FieldNames(h, n, path) = after[L]
  BY DEF FieldNames, Onward
<1> HIDE DEF after
<1>6. after[0] = n /\ \A i \in 1..L : after[i] = Step(after[i - 1], i)
  <2> HIDE DEF Step
  <2>1. \A i \in 0..L : after[i] = IF i = 0 THEN n ELSE Step(after[i - 1], i)
    BY <1>4
  <2> QED BY <2>1
<1> QED BY <1>5, <1>6 DEF Finds

LEMMA FieldAppend ==
  ASSUME NEW h, NEW n, NEW K, NEW path \in Seq(K), NEW key \in K
  PROVE  FieldNames(h, n, Append(path, key)) = Onward(h, FieldNames(h, n, path), key)
<1>1. PICK L \in Nat : L = Len(path)
  OBVIOUS
<1>2. PICK q : q = Append(path, key)
  OBVIOUS
<1>3. L + 1 \in Nat /\ L + 1 = Len(q) /\ q[L + 1] = key /\ \A i \in 1..L : q[i] = path[i]
  BY <1>1, <1>2
<1>4. PICK a : Finds(h, n, path, L, a)
  BY <1>1, FieldIs
<1>5. PICK b : Finds(h, n, q, L + 1, b)
  BY <1>3, FieldIs
<1> DEFINE T == {i \in Nat : i <= L => a[i] = b[i]}
<1>6. 0 \in T
  BY <1>4, <1>5 DEF Finds
<1>7. ASSUME NEW i \in Nat, i \in T PROVE i + 1 \in T
  <2> SUFFICES ASSUME i + 1 <= L PROVE a[i + 1] = b[i + 1]
    OBVIOUS
  <2>1. i + 1 \in 1..L /\ i + 1 \in 1..(L + 1) /\ (i + 1) - 1 = i /\ a[i] = b[i]
    BY <1>7
  <2>2. a[i + 1] = Onward(h, a[i], path[i + 1])
    BY <2>1, <1>4 DEF Finds
  <2>3. b[i + 1] = Onward(h, b[i], q[i + 1])
    BY <2>1, <1>5 DEF Finds
  <2> QED BY <2>1, <2>2, <2>3, <1>3
<1> HIDE DEF T
<1>8. a[L] = b[L]
  <2>1. L \in T
    BY <1>6, <1>7, NatSet
  <2> QED BY <2>1 DEF T
<1>9. b[L + 1] = Onward(h, b[L], q[L + 1])
  <2>1. L + 1 \in 1..(L + 1) /\ (L + 1) - 1 = L
    OBVIOUS
  <2> QED BY <2>1, <1>5 DEF Finds
<1>10. FieldNames(h, n, q) = b[L + 1] /\ FieldNames(h, n, path) = a[L]
  BY <1>4, <1>5 DEF Finds
<1> QED BY <1>2, <1>3, <1>8, <1>9, <1>10

LEMMA FieldOne ==
  ASSUME NEW h, NEW n, NEW key
  PROVE  FieldNames(h, n, <<key>>) = Onward(h, n, key)
<1>1. PICK q : q = <<key>>
  BY Zenon
<1>2. Len(q) = 1 /\ q[1] = key
  BY <1>1
<1>3. PICK a : Finds(h, n, q, 1, a)
  BY <1>2, FieldIs
<1>4. 1 \in 1..1 /\ 1 - 1 = 0
  OBVIOUS
<1> QED BY <1>1, <1>2, <1>3, <1>4 DEF Finds

\* The keys of the children of m differ.
Distinct(h, m) == \A i, j \in 1..Size(h, m) : KeyAt(h, m, i) = KeyAt(h, m, j) => i = j

LEMMA OnwardIs ==
  ASSUME NEW h, Good(h), NEW m \in DOMAIN h, Distinct(h, m), NEW i \in 1..Size(h, m)
  PROVE  Onward(h, m, h[h[m].children[i]].key) = h[m].children[i]
<1>1. PICK key : key = h[h[m].children[i]].key
  OBVIOUS
<1>2. PICK k : k = FindKey(h, m, key)
  OBVIOUS
<1>3. /\ k \in 0..Size(h, m) /\ (k # 0 => h[h[m].children[k]].key = key)
      /\ (k = 0 => \A j \in 1..Size(h, m) : h[h[m].children[j]].key # key)
  BY <1>2, FindKeyIs DEF Good
<1>4. k # 0 /\ Size(h, m) \in Nat
  BY <1>1, <1>3, ChildrenAre DEF Good
<1>5. k \in 1..Size(h, m)
  BY <1>3, <1>4
<1>6. k = i
  BY <1>1, <1>3, <1>4, <1>5 DEF Distinct, KeyAt
<1>7. m # NoNode
  BY NoNodeAssumption DEF Good, Formed
<1> QED BY <1>1, <1>2, <1>4, <1>6, <1>7 DEF Onward

\* A path leads back to its node when the keys on the way are no other's.
LEMMA PathsBack ==
  ASSUME NEW h, Good(h), \A m \in DOMAIN h : Distinct(h, m),
         NEW top \in DOMAIN h, IsTop(h, top), NEW n \in Below(h, top) \ {top}
  PROVE  FieldNames(h, top, GetPath(h, n)) = n
<1>1. PICK B : B = Below(h, top)
  OBVIOUS
<1>2. /\ top \in B /\ B \subseteq DOMAIN h /\ Closed(h, B)
      /\ \A S : top \in S /\ Closed(h, S) => B \subseteq S
      /\ \A m \in B \ {top} : h[m].parent \in B
  BY <1>1, BelowIs, BelowTree DEF Good
<1>3. PICK S : S = {top} \cup {m \in B \ {top} : FieldNames(h, top, GetPath(h, m)) = m}
  OBVIOUS
<1>4. Closed(h, S)
  <2> SUFFICES ASSUME NEW m \in S, NEW i \in 1..Size(h, m) PROVE h[m].children[i] \in S
    BY DEF Closed
  <2>1. PICK c : c = h[m].children[i]
    OBVIOUS
  <2>2. m \in B /\ m \in DOMAIN h /\ m # NoNode
    BY <1>2, <1>3, NoNodeAssumption DEF Good, Formed
  <2>3. c \in B /\ c \in DOMAIN h /\ h[c].parent = m /\ c # top
    BY <1>2, <2>1, <2>2 DEF Closed, Good, Linked, IsTop
  <2>4. Onward(h, m, h[c].key) = c
    BY <2>1, <2>2, OnwardIs
  <2>5. CASE m = top
    <3>1. GetPath(h, c) = <<h[c].key>>
      BY <2>3, <2>5, PathIs DEF Own
    <3> QED BY <3>1, <2>1, <2>3, <2>4, <2>5, <1>3, FieldOne
  <2>6. CASE m # top
    <3>1. h[m].parent \in DOMAIN h /\ h[m].parent # NoNode
      BY <2>2, <2>6, <1>2, NoNodeAssumption DEF Good, Formed
    <3>2. ~Own(h, c)
      BY <3>1, <2>2, <2>3 DEF Own, IsTop
    <3>3. GetPath(h, c) = Append(GetPath(h, m), h[c].key)
      BY <3>2, <2>3, PathIs
    <3>4. PICK K : K = {h[x].key : x \in DOMAIN h}
      OBVIOUS
    <3>5. GetPath(h, m) \in Seq(K) /\ h[c].key \in K
      BY <3>4, <2>2, <2>3, PathSeq
    <3>6. FieldNames(h, top, GetPath(h, c)) = Onward(h, FieldNames(h, top, GetPath(h, m)), h[c].key)
      BY <3>3, <3>5, FieldAppend
    <3>7. FieldNames(h, top, GetPath(h, m)) = m
      BY <2>6, <1>3
    <3> QED BY <3>6, <3>7, <2>1, <2>3, <2>4, <1>3
  <2> QED BY <2>5, <2>6
<1>5. B \subseteq S
  BY <1>2, <1>3, <1>4
<1> QED BY <1>1, <1>3, <1>5

\* The elements of an array have different keys.
LEMMA ArrayKeys ==
  ASSUME Written, NEW h, Good(h), NEW m \in DOMAIN h, h[m].type = "Array"
  PROVE  Distinct(h, m)
<1> SUFFICES ASSUME NEW i \in 1..Size(h, m), NEW j \in 1..Size(h, m), KeyAt(h, m, i) = KeyAt(h, m, j)
             PROVE  i = j
  BY DEF Distinct
<1>1. \A k \in 1..Size(h, m) :
        \/ KeyAt(h, m, k) = ToString(k - 1)
        \/ /\ KeyAt(h, m, k) \in Names
           /\ \A l \in 1..Size(h, m) : KeyAt(h, m, l) = KeyAt(h, m, k) => l = k
  BY DEF Good, Numbered
<1>2. CASE KeyAt(h, m, i) = ToString(i - 1) /\ KeyAt(h, m, j) = ToString(j - 1)
  <2>1. i - 1 \in Nat /\ j - 1 \in Nat
    OBVIOUS
  <2>2. ToString(i - 1) = ToString(j - 1)
    BY <1>2
  <2>3. i - 1 = j - 1
    BY <2>1, <2>2 DEF Written
  <2> QED BY <2>3
<1> QED BY <1>1, <1>2

\* What split() leaves as it is.
LEMMA SplitWhole ==
  ASSUME NEW K, NEW path \in Seq(K), \A i \in 1..Len(path) : path[i] \notin DOMAIN Cuts
  PROVE  Split(path) = path
<1>0. PICK L \in Nat : L = Len(path)
  OBVIOUS
<1> DEFINE Step(g, i) == g \o (IF path[i] \in DOMAIN Cuts THEN Cuts[path[i]] ELSE <<path[i]>>)
<1> DEFINE Rec(j, g) == g = [i \in 0..j |-> IF i = 0 THEN <<>> ELSE Step(g[i - 1], i)]
<1> DEFINE S == {j \in Nat : \E g : Rec(j, g)}
<1>1. 0 \in S
  <2> HIDE DEF Step
  <2>1. Rec(0, [i \in 0..0 |-> <<>>])
    OBVIOUS
  <2> QED BY <2>1
<1>2. ASSUME NEW j \in Nat, j \in S PROVE j + 1 \in S
  <2>1. PICK g : Rec(j, g)
    BY <1>2
  <2> HIDE DEF Step
  <2>2. \A k \in 0..j : g[k] = IF k = 0 THEN <<>> ELSE Step(g[k - 1], k)
    BY <2>1
  <2>3. PICK f : f = [k \in 0..(j + 1) |-> IF k <= j THEN g[k] ELSE Step(g[j], j + 1)]
    OBVIOUS
  <2>4. \A k \in 0..j : f[k] = g[k]
    BY <2>3
  <2>5. f[j + 1] = Step(g[j], j + 1)
    BY <2>3
  <2>6. \A k \in 0..(j + 1) : f[k] = IF k = 0 THEN <<>> ELSE Step(f[k - 1], k)
    <3> TAKE k \in 0..(j + 1)
    <3>1. CASE k = j + 1
      BY <3>1, <2>4, <2>5
    <3>2. CASE k # j + 1
      <4>1. k \in 0..j /\ (k # 0 => k - 1 \in 0..j)
        BY <3>2
      <4> QED BY <4>1, <2>2, <2>4
    <3> QED BY <3>1, <3>2
  <2>7. f = [k \in 0..(j + 1) |-> f[k]]
    BY <2>3
  <2>8. Rec(j + 1, f)
    BY <2>6, <2>7
  <2> QED BY <2>8
<1>3. \E g : Rec(L, g)
  <2> HIDE DEF Rec
  <2>1. L \in S
    <3> HIDE DEF S
    <3> QED BY <1>1, <1>2, NatSet
  <2> QED BY <2>1
<1> DEFINE names == CHOOSE g : Rec(L, g)
<1>4. Rec(L, names)
  <2> HIDE DEF Rec
  <2> QED BY <1>3
<1>5. Split(path) = names[L]
  BY <1>0 DEF Split
<1> HIDE DEF names
<1>6. names[0] = <<>> /\ \A i \in 1..L : names[i] = Step(names[i - 1], i)
  <2> HIDE DEF Step
  <2>1. \A i \in 0..L : names[i] = IF i = 0 THEN <<>> ELSE Step(names[i - 1], i)
    BY <1>4
  <2> QED BY <2>1
<1> DEFINE T == {i \in Nat : i <= L => names[i] = SubSeq(path, 1, i)}
<1>7. 0 \in T
  <2>1. PICK e : e = SubSeq(path, 1, 0)
    OBVIOUS
  <2>2. e \in Seq(K) /\ Len(e) = 0
    BY <2>1
  <2>3. e = <<>>
    BY <2>2
  <2> QED BY <2>1, <2>3, <1>6
<1>8. ASSUME NEW i \in Nat, i \in T PROVE i + 1 \in T
  <2> SUFFICES ASSUME i + 1 <= L PROVE names[i + 1] = SubSeq(path, 1, i + 1)
    OBVIOUS
  <2>1. i + 1 \in 1..L /\ (i + 1) - 1 = i /\ names[i] = SubSeq(path, 1, i)
    BY <1>8
  <2>2. names[i + 1] = Step(names[i], i + 1)
    BY <1>6, <2>1
  <2>3. path[i + 1] \notin DOMAIN Cuts
    BY <1>0, <2>1
  <2>4. names[i + 1] = names[i] \o <<path[i + 1]>>
    BY <2>2, <2>3
  <2>5. SubSeq(path, 1, i + 1) = SubSeq(path, 1, i) \o <<path[i + 1]>>
    BY <1>0, <2>1
  <2> QED BY <2>1, <2>4, <2>5
<1> HIDE DEF T
<1>9. L \in T
  BY <1>7, <1>8, NatSet
<1>10. SubSeq(path, 1, L) = path
  BY <1>0
<1> QED BY <1>5, <1>9, <1>10 DEF T

(***************************************************************************)
(* The theorems                                                            *)
(***************************************************************************)

\* Whatever calls a program makes, its documents are trees of nodes that are
\* all there: no child or parent dangles, and who goes up comes to a top. It
\* is taken that the program makes no document of a field by move, after which
\* the links do not agree, and moves no node into one below it.
THEOREM TreesStayGood == ASSUME Slips = {} PROVE SpecTree => []TreeInv
<1>1. InitTree => TreeInv
  BY InitGood DEF TreeInv
<1>2. TreeInv /\ [NextTree]_treeVars => TreeInv'
  <2> SUFFICES ASSUME TreeInv, [NextTree]_treeVars PROVE Good(node')
    BY DEF TreeInv
  <2>1. CASE NextDocument
    BY <2>1, DocumentSteps DEF TreeInv
  <2>2. CASE NextNode
    BY <2>2, NodeSteps DEF TreeInv
  <2>3. CASE NextPath
    BY <2>3, PathSteps DEF TreeInv
  <2>4. CASE UNCHANGED treeVars
    BY <2>4 DEF TreeInv, treeVars
  <2> QED BY <2>1, <2>2, <2>3, <2>4 DEF NextTree
<1> QED BY <1>1, <1>2, PTL DEF SpecTree

\* After any calls but those two moves every child has the parent that lists
\* it, at the index it has there, every node that has a parent is listed by it,
\* and only structures have children: ParentsAgree of JsonTree. Assignments of
\* whole trees to their own inner nodes by copy are among the calls.
THEOREM LinksAgree == ASSUME Slips = {} PROVE SpecTree => []ParentsAgree
<1>1. TreeInv => ParentsAgree
  BY DEF TreeInv, Good, Linked, ParentsAgree
<1> QED BY <1>1, TreesStayGood, PTL

\* The path that a node gives as its own leads from its top back to it unless
\* split() cuts a key on the way, for any numbers of names, texts, nodes and
\* calls: PathsResolve of JsonTree. Besides Slips it is taken that different
\* numbers are written differently and that no name is written like a number;
\* a name "1" could be added to an array before its second element, which is
\* given the same key.
THEOREM PathsLeadBack == ASSUME Slips = {}, Written PROVE SpecTree => []PathsResolve
<1>1. TreeInv => PathsResolve
  <2> SUFFICES ASSUME TreeInv, NEW top \in Tops, NEW n \in Below(node, top) \ {top},
                      \A m \in DOMAIN node : node[m].type = "Object" =>
                        IsInjective([i \in 1..Size(node, m) |-> node[node[m].children[i]].key]),
                      \A i \in DOMAIN GetPath(node, n) : GetPath(node, n)[i] \notin DOMAIN Cuts
               PROVE  Field(node, top, GetPath(node, n)) = n
    BY DEF PathsResolve
  <2>1. ASSUME NEW m \in DOMAIN node PROVE Distinct(node, m)
    <3>1. CASE node[m].type = "Array"
      BY <3>1, ArrayKeys DEF TreeInv
    <3>2. CASE node[m].type = "Object"
      BY <3>2 DEF IsInjective, Distinct, KeyAt
    <3>3. CASE node[m].type \notin {"Array", "Object"}
      BY <3>3, ChildrenAre DEF TreeInv, Good, Linked, Structured, Distinct
    <3> QED BY <3>1, <3>2, <3>3
  <2>2. top \in DOMAIN node /\ IsTop(node, top)
    BY DEF Tops
  <2>3. n \in DOMAIN node
    BY <2>2, BelowIs DEF TreeInv, Good
  <2>4. PICK p : p = GetPath(node, n)
    OBVIOUS
  <2>5. PICK K : p \in Seq(K)
    BY <2>3, <2>4, PathSeq DEF TreeInv
  <2>6. \A i \in 1..Len(p) : p[i] \notin DOMAIN Cuts
    BY <2>4, <2>5
  <2>7. Split(p) = p
    BY <2>5, <2>6, SplitWhole
  <2>8. FieldNames(node, top, p) = n
    BY <2>1, <2>2, <2>4, PathsBack DEF TreeInv
  <2> QED BY <2>4, <2>7, <2>8 DEF Field
<1> QED BY <1>1, TreesStayGood, PTL

=============================================================================
