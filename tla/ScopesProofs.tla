----------------------------- MODULE ScopesProofs -----------------------------
(***************************************************************************)
(* The scopes: whatever the functions of the page do while a digest walks  *)
(* over them, the links are those of a tree, and a digest that ends        *)
(* without giving up has seen every change.                                *)
(***************************************************************************)
EXTENDS Scopes, SequenceTheorems, WellFoundedInduction, TLAPS

ScopeConstants == Root \in ScopeIds /\ NoScope \notin ScopeIds

LEMMA GivenScopes == ScopeConstants
BY ScopeAssumption DEF ScopeConstants

\* A set of numbers that is not empty has a least one.
LEMMA LeastOf ==
  ASSUME NEW T, T \subseteq Nat, T # {}
  PROVE  \E m \in T : \A n \in T : m <= n
<1> DEFINE R == OpToRel(<, Nat)
<1>1. IsWellFoundedOn(R, Nat)
  BY NatLessThanWellFounded
<1>2. \E x \in T : \A y \in T : ~(<<y, x>> \in R)
  <2> HIDE DEF R
  <2> QED BY <1>1, WFMin
<1>3. ASSUME NEW x \in T, NEW y \in T, ~(<<y, x>> \in R)
      PROVE  x <= y
  BY <1>3 DEF OpToRel
<1> QED
  BY <1>2, <1>3, Zenon

-----------------------------------------------------------------------------
(* The tree, for any links l and lists of children k *)

\* The scopes that were ever made.
Born(l) == {Root} \cup {x \in ScopeIds : l[x].parent # NoScope}

ListedIn(l, k, s) ==
  /\ l[s].head = IF k[s] = << >> THEN NoScope ELSE k[s][1]
  /\ l[s].tail = IF k[s] = << >> THEN NoScope ELSE k[s][Len(k[s])]
  /\ \A i \in 1..Len(k[s]) :
       /\ l[k[s][i]].parent = s
       /\ l[k[s][i]].next = IF i = Len(k[s]) THEN NoScope ELSE k[s][i + 1]
       /\ l[k[s][i]].prev = IF i = 1 THEN NoScope ELSE k[s][i - 1]

\* Parents are of a lower rank.
RankedBy(l, r) == \A x \in ScopeIds : l[x].parent # NoScope => r[l[x].parent] < r[x]
Ranked(l)      == \E n \in Nat : \E r \in [ScopeIds -> 0..n] : RankedBy(l, r)

LinksToBorn(l) ==
  \A x \in ScopeIds : {l[x].parent, l[x].head, l[x].tail, l[x].next, l[x].prev}
                        \subseteq Born(l) \cup {NoScope}
DistinctKids(k) == \A x \in ScopeIds : \A i, j \in 1..Len(k[x]) : k[x][i] = k[x][j] => i = j

Tree(l, k) ==
  /\ l \in [ScopeIds -> LinkFields] /\ k \in [ScopeIds -> Seq(ScopeIds)]
  /\ \A s \in ScopeIds : ListedIn(l, k, s)
  /\ l[Root].parent = NoScope
  /\ LinksToBorn(l) /\ DistinctKids(k) /\ Ranked(l)
  /\ \A x \in ScopeIds \ Born(l) : k[x] = << >>

LEMMA TreeTyped ==
  ASSUME ScopeConstants, NEW l, NEW k, Tree(l, k)
  PROVE  /\ \A x \in ScopeIds : /\ l[x].parent \in Places /\ l[x].head \in Places
                                /\ l[x].tail \in Places /\ l[x].next \in Places
                                /\ l[x].prev \in Places
         /\ \A x \in ScopeIds : k[x] \in Seq(ScopeIds) /\ Len(k[x]) \in Nat
                                /\ DOMAIN k[x] = 1..Len(k[x])
                                /\ \A i \in 1..Len(k[x]) : k[x][i] \in ScopeIds
         /\ \A x \in ScopeIds : k[x] = << >> <=> Len(k[x]) = 0
         /\ Born(l) \subseteq ScopeIds
<1>1. \A x \in ScopeIds : l[x] \in LinkFields
  BY DEF Tree
<1>2. \A x \in ScopeIds : k[x] \in Seq(ScopeIds)
  BY DEF Tree
<1>3. ASSUME NEW q \in Seq(ScopeIds)
      PROVE  /\ Len(q) \in Nat /\ DOMAIN q = 1..Len(q) /\ \A i \in 1..Len(q) : q[i] \in ScopeIds
             /\ q = << >> <=> Len(q) = 0
  OBVIOUS
<1> QED
  BY <1>1, <1>2, <1>3 DEF LinkFields, Born, ScopeConstants

\* A child has its parent, and is not the root.
LEMMA Kids ==
  ASSUME ScopeConstants, NEW l, NEW k, Tree(l, k),
         NEW s \in ScopeIds, NEW i \in 1..Len(k[s])
  PROVE  /\ k[s][i] \in ScopeIds /\ k[s][i] \in Born(l) /\ s \in Born(l)
         /\ l[k[s][i]].parent = s /\ k[s][i] # Root /\ k[s][i] # NoScope
<1>1. k[s][i] \in ScopeIds /\ k[s] # << >>
  BY TreeTyped
<1>2. l[k[s][i]].parent = s
  BY DEF Tree, ListedIn
<1>3. s # NoScope /\ l[Root].parent = NoScope
  BY DEF ScopeConstants, Tree
<1>4. s \in Born(l)
  BY <1>1 DEF Tree
<1> QED
  BY <1>1, <1>2, <1>3, <1>4 DEF Born, ScopeConstants

\* Nobody is its own child.
LEMMA NotOwnKid ==
  ASSUME ScopeConstants, NEW l, NEW k, Tree(l, k), NEW x \in ScopeIds
  PROVE  l[x].parent # x
<1>0. PICK n \in Nat : \E r \in [ScopeIds -> 0..n] : RankedBy(l, r)
  BY DEF Tree, Ranked
<1>1. PICK r \in [ScopeIds -> 0..n] : RankedBy(l, r)
  BY <1>0
<1>2. r[x] \in Nat
  OBVIOUS
<1> QED
  BY <1>1, <1>2 DEF RankedBy, ScopeConstants

-----------------------------------------------------------------------------
(* The way up *)

UpEndsIn(l, s) == s = Root \/ l[s].next # NoScope
UpFromIn(l, S) == \A x \in S : ~UpEndsIn(l, x) => l[x].parent \in S
TopIn(l, s, t) == UpEndsIn(l, t) /\ \A S \in SUBSET ScopeIds : s \in S /\ UpFromIn(l, S) => t \in S
TheTop(l, s)   == CHOOSE t \in ScopeIds : TopIn(l, s, t)
ClimbIn(l, s)  == IF TheTop(l, s) = Root THEN NoScope ELSE l[TheTop(l, s)].next
AfterIn(l, s)  == IF l[s].head # NoScope THEN l[s].head ELSE ClimbIn(l, s)

LEMMA AfterNow == \A s : After(s) = AfterIn(link, s)
BY DEF After, AfterIn, Climb, ClimbIn, TheTop, TopIn, UpFromIn, UpEndsIn, UpEnds, UpFrom

\* What the parent leads to the child leads to.
LEMMA TopOfParent ==
  ASSUME NEW l, NEW s, NEW t, ~UpEndsIn(l, s), TopIn(l, l[s].parent, t)
  PROVE  TopIn(l, s, t)
BY DEF TopIn, UpFromIn

LEMMA TopExists ==
  ASSUME ScopeConstants, NEW l, NEW k, Tree(l, k), NEW s \in Born(l)
  PROVE  \E t \in Born(l) : TopIn(l, s, t)
<1>1. PICK n \in Nat : \E q \in [ScopeIds -> 0..n] : RankedBy(l, q)
  BY DEF Tree, Ranked
<1>2. PICK r \in [ScopeIds -> 0..n] : RankedBy(l, r)
  BY <1>1
<1> DEFINE Bad == {x \in Born(l) : ~\E t \in Born(l) : TopIn(l, x, t)}
           T   == {r[x] : x \in Bad}
<1>3. \A x \in Born(l) : x \in ScopeIds /\ r[x] \in Nat
  BY TreeTyped, <1>2
<1>4. SUFFICES ASSUME s \in Bad PROVE FALSE
  OBVIOUS
<1>5. T \subseteq Nat /\ T # {}
  BY <1>3, <1>4
<1>6. PICK m \in T : \A j \in T : m <= j
  <2> HIDE DEF T
  <2> QED BY <1>5, LeastOf
<1>7. PICK x \in Bad : m = r[x]
  BY <1>6
<1>8. ~UpEndsIn(l, x)
  <2>1. SUFFICES ASSUME UpEndsIn(l, x) PROVE FALSE
    OBVIOUS
  <2>2. TopIn(l, x, x)
    BY <2>1 DEF TopIn
  <2> QED
    BY <2>2, <1>7
<1> DEFINE y == l[x].parent
<1>9. x \in ScopeIds /\ y # NoScope /\ y \in Born(l)
  <2>1. x \in Born(l) /\ x # Root
    BY <1>8 DEF UpEndsIn
  <2>2. x \in ScopeIds /\ y # NoScope
    BY <2>1, <1>3 DEF Born
  <2>3. y \in Born(l) \cup {NoScope}
    BY <2>2 DEF Tree, LinksToBorn
  <2> QED
    BY <2>2, <2>3
<1>10. r[y] < r[x]
  BY <1>9, <1>2 DEF RankedBy
<1>11. y \notin Bad
  BY <1>10, <1>6, <1>7, <1>9, <1>3, SMTT(60)
<1>12. PICK t \in Born(l) : TopIn(l, y, t)
  BY <1>11, <1>9
<1>13. TopIn(l, x, t)
  BY <1>12, <1>8, TopOfParent
<1> QED
  BY <1>13, <1>7

\* Who does not end the way up has a parent.
LEMMA ParentBorn ==
  ASSUME ScopeConstants, NEW l, NEW k, Tree(l, k), NEW x \in Born(l), ~UpEndsIn(l, x)
  PROVE  x \in ScopeIds /\ l[x].parent \in Born(l) /\ l[x].parent \in ScopeIds
<1>1. x \in ScopeIds /\ x # Root
  BY TreeTyped DEF UpEndsIn
<1>2. l[x].parent # NoScope
  BY <1>1 DEF Born
<1>3. l[x].parent \in Born(l) \cup {NoScope}
  BY <1>1 DEF Tree, LinksToBorn
<1> QED
  BY <1>1, <1>2, <1>3, TreeTyped

LEMMA OneTop ==
  ASSUME ScopeConstants, NEW l, NEW k, Tree(l, k), NEW s \in Born(l),
         NEW t, NEW u \in ScopeIds, TopIn(l, s, t), TopIn(l, s, u)
  PROVE  t = u
<1> DEFINE V == {x \in Born(l) : \A T \in SUBSET ScopeIds : x \in T /\ UpFromIn(l, T) => t \in T}
<1>1. s \in V /\ V \in SUBSET ScopeIds
  BY TreeTyped DEF TopIn
<1>2. ASSUME NEW x \in V, ~UpEndsIn(l, x)
      PROVE  l[x].parent \in V
  <2>1. x \in ScopeIds /\ l[x].parent \in Born(l)
    BY <1>2, ParentBorn
  <2>2. ASSUME NEW T \in SUBSET ScopeIds, l[x].parent \in T, UpFromIn(l, T)
        PROVE  t \in T
    <3>1. T \cup {x} \in SUBSET ScopeIds /\ UpFromIn(l, T \cup {x})
      BY <2>1, <2>2 DEF UpFromIn
    <3>2. t \in T \cup {x}
      BY <3>1
    <3> QED
      BY <3>2, <1>2 DEF TopIn
  <2> QED
    BY <2>1, <2>2
<1>3. UpFromIn(l, V)
  BY <1>2 DEF UpFromIn
<1>4. u \in V
  BY <1>1, <1>3 DEF TopIn
<1>5. {u} \in SUBSET ScopeIds /\ UpFromIn(l, {u})
  BY DEF TopIn, UpFromIn
<1> QED
  BY <1>4, <1>5

LEMMA TheTopIs ==
  ASSUME ScopeConstants, NEW l, NEW k, Tree(l, k), NEW s \in Born(l)
  PROVE  /\ TheTop(l, s) \in Born(l) /\ TheTop(l, s) \in ScopeIds /\ TopIn(l, s, TheTop(l, s))
         /\ \A t \in ScopeIds : TopIn(l, s, t) => TheTop(l, s) = t
<1>1. PICK t \in Born(l) : TopIn(l, s, t)
  BY TopExists
<1>2. t \in ScopeIds
  BY <1>1, TreeTyped
<1>3. TheTop(l, s) \in ScopeIds /\ TopIn(l, s, TheTop(l, s))
  BY <1>1, <1>2 DEF TheTop
<1>4. \A u \in ScopeIds : TopIn(l, s, u) => TheTop(l, s) = u
  BY <1>3, OneTop
<1> QED
  BY <1>1, <1>2, <1>3, <1>4

\* Where the climb from s leads: to its next sibling, or where it leads from its parent.
LEMMA ClimbFrom ==
  ASSUME ScopeConstants, NEW l, NEW k, Tree(l, k), NEW s \in Born(l)
  PROVE  /\ s = Root => ClimbIn(l, s) = NoScope
         /\ s # Root /\ l[s].next # NoScope => ClimbIn(l, s) = l[s].next
         /\ s # Root /\ l[s].next = NoScope => ClimbIn(l, s) = ClimbIn(l, l[s].parent)
         /\ ClimbIn(l, s) \in Born(l) \cup {NoScope}
<1>0. s \in ScopeIds
  BY TreeTyped
<1>1. ASSUME UpEndsIn(l, s)
      PROVE  TheTop(l, s) = s
  <2>1. TopIn(l, s, s)
    BY <1>1 DEF TopIn
  <2> QED
    BY <2>1, <1>0, TheTopIs
<1>2. ASSUME ~UpEndsIn(l, s)
      PROVE  TheTop(l, s) = TheTop(l, l[s].parent)
  <2>1. l[s].parent \in Born(l)
    BY <1>2, ParentBorn
  <2> DEFINE t == TheTop(l, l[s].parent)
  <2>2. t \in ScopeIds /\ TopIn(l, l[s].parent, t)
    BY <2>1, TheTopIs
  <2>3. TopIn(l, s, t)
    BY <2>2, <1>2, TopOfParent
  <2> QED
    BY <2>2, <2>3, TheTopIs
<1>3. ClimbIn(l, s) \in Born(l) \cup {NoScope}
  <2>1. TheTop(l, s) \in ScopeIds
    BY TheTopIs
  <2>2. l[TheTop(l, s)].next \in Born(l) \cup {NoScope}
    BY <2>1 DEF Tree, LinksToBorn
  <2> QED
    BY <2>2 DEF ClimbIn
<1> QED
  BY <1>1, <1>2, <1>3 DEF ClimbIn, UpEndsIn

LEMMA AfterTyped ==
  ASSUME ScopeConstants, NEW l, NEW k, Tree(l, k), NEW s \in Born(l)
  PROVE  AfterIn(l, s) \in Born(l) \cup {NoScope}
<1>1. s \in ScopeIds
  BY TreeTyped
<1>2. l[s].head \in Born(l) \cup {NoScope}
  BY <1>1 DEF Tree, LinksToBorn
<1> QED
  BY <1>2, ClimbFrom DEF AfterIn

-----------------------------------------------------------------------------
(* The walk of a digest meets everybody *)

WithKidsIn(k, S) == \A x \in S : \A i \in DOMAIN k[x] : k[x][i] \in S
LiveIn(k) == {x \in ScopeIds : \A S \in SUBSET ScopeIds : Root \in S /\ WithKidsIn(k, S) => x \in S}

LEMMA LiveNow == Live = LiveIn(kids)
BY DEF Live, Below, WithKids, LiveIn, WithKidsIn

LEMMA LiveFacts ==
  ASSUME ScopeConstants, NEW l, NEW k, Tree(l, k)
  PROVE  /\ Root \in LiveIn(k) /\ LiveIn(k) \subseteq Born(l) /\ LiveIn(k) \subseteq ScopeIds
         /\ \A x \in LiveIn(k) : x # Root =>
              /\ l[x].parent \in ScopeIds
              /\ \E i \in 1..Len(k[l[x].parent]) : k[l[x].parent][i] = x
<1>1. Root \in LiveIn(k) /\ LiveIn(k) \subseteq ScopeIds
  BY DEF LiveIn, ScopeConstants
<1>2. LiveIn(k) \subseteq Born(l)
  <2>1. Born(l) \in SUBSET ScopeIds /\ Root \in Born(l)
    BY TreeTyped DEF Born
  <2>2. ASSUME NEW x \in Born(l), NEW i \in DOMAIN k[x] PROVE k[x][i] \in Born(l)
    BY <2>1, <2>2, TreeTyped, Kids
  <2>3. WithKidsIn(k, Born(l))
    BY <2>2 DEF WithKidsIn
  <2> QED
    BY <2>1, <2>3 DEF LiveIn
<1>3. ASSUME NEW x \in LiveIn(k), x # Root
      PROVE  l[x].parent \in ScopeIds /\ \E i \in 1..Len(k[l[x].parent]) : k[l[x].parent][i] = x
  <2> DEFINE S == ScopeIds \ {x}
  <2>1. S \in SUBSET ScopeIds /\ Root \in S /\ x \notin S
    BY <1>3 DEF ScopeConstants
  <2>2. ~WithKidsIn(k, S)
    BY <2>1, <1>3 DEF LiveIn
  <2>3. PICK y \in S : \E i \in DOMAIN k[y] : k[y][i] \notin S
    BY <2>2 DEF WithKidsIn
  <2>4. PICK i \in DOMAIN k[y] : k[y][i] \notin S
    BY <2>3
  <2>5. y \in ScopeIds /\ i \in 1..Len(k[y]) /\ k[y][i] \in ScopeIds
    BY <2>3, <2>4, TreeTyped
  <2>6. k[y][i] = x
    BY <2>4, <2>5
  <2>7. l[x].parent = y
    BY <2>5, <2>6, Kids
  <2> QED
    BY <2>5, <2>6, <2>7
<1> QED
  BY <1>1, <1>2, <1>3

\* A set that the walk does not leave has everybody who is live: when the walk comes
\* to a scope, it comes to all of its children, and then to where the climb from it leads.
LEMMA WalkMeetsAll ==
  ASSUME ScopeConstants, NEW l, NEW k, Tree(l, k), NEW V \in SUBSET ScopeIds, Root \in V,
         \A x \in V : AfterIn(l, x) \in V \cup {NoScope}
  PROVE  LiveIn(k) \subseteq V
<1> DEFINE B == V \cap Born(l)
           Whole(x) == /\ ClimbIn(l, x) \in V \cup {NoScope}
                       /\ \A i \in 1..Len(k[x]) : k[x][i] \in V
           Bad == {x \in B : ~Whole(x)}
<1>1. PICK n \in Nat : \E q \in [ScopeIds -> 0..n] : RankedBy(l, q)
  BY DEF Tree, Ranked
<1>2. PICK r \in [ScopeIds -> 0..n] : RankedBy(l, r)
  BY <1>1
<1>3. \A x \in ScopeIds : r[x] \in 0..n /\ n - r[x] \in Nat
  BY <1>2
<1>4. \A x \in B : Whole(x)
  <2>1. SUFFICES ASSUME Bad # {} PROVE FALSE
    OBVIOUS
  <2> DEFINE T == {n - r[x] : x \in Bad}
  <2>2. T \subseteq Nat /\ T # {}
    BY <2>1, <1>3
  <2>3. PICK m \in T : \A j \in T : m <= j
    <3> HIDE DEF T
    <3> QED BY <2>2, LeastOf
  <2>4. PICK x \in Bad : m = n - r[x]
    BY <2>3
  <2>5. x \in ScopeIds /\ x \in V /\ x \in Born(l) /\ ~Whole(x)
    BY <2>4
  <2>6. ASSUME NEW y \in B, r[x] < r[y] PROVE Whole(y)
    <3>1. SUFFICES ASSUME ~Whole(y) PROVE FALSE
      OBVIOUS
    <3>2. n - r[y] \in T
      BY <3>1
    <3> HIDE DEF T, Bad, Whole
    <3>3. n - r[x] <= n - r[y]
      BY <3>2, <2>3, <2>4
    <3>4. y \in ScopeIds /\ r[x] \in 0..n /\ r[y] \in 0..n
      BY <2>5, <1>2
    <3> QED
      BY <3>3, <3>4, <2>6
  <2> HIDE DEF T, Bad
  <2>7. ASSUME NEW i \in 1..Len(k[x]), k[x][i] \in V
        PROVE  Whole(k[x][i]) /\ k[x][i] \in Born(l) /\ k[x][i] # Root /\ l[k[x][i]].parent = x
    <3>1. k[x][i] \in ScopeIds /\ k[x][i] \in Born(l) /\ l[k[x][i]].parent = x /\ k[x][i] # Root
      BY <2>5, Kids
    <3>2. r[x] < r[k[x][i]]
      BY <3>1, <2>5, <1>2 DEF RankedBy, ScopeConstants
    <3> QED
      BY <3>1, <3>2, <2>6, <2>7
  <2>8. AfterIn(l, x) \in V \cup {NoScope}
    BY <2>5
  <2>9. ListedIn(l, k, x) /\ Len(k[x]) \in Nat /\ (k[x] = << >> <=> Len(k[x]) = 0)
    BY <2>5, TreeTyped DEF Tree
  <2>10. CASE k[x] = << >>
    <3>1. l[x].head = NoScope
      BY <2>10, <2>9 DEF ListedIn
    <3>2. ClimbIn(l, x) \in V \cup {NoScope}
      BY <3>1, <2>8 DEF AfterIn
    <3> QED
      BY <3>2, <2>5, <2>9, <2>10
  <2>11. CASE k[x] # << >>
    <3> DEFINE len == Len(k[x])
    <3>0. len \in Nat /\ 1 <= len
      BY <2>9, <2>11
    <3>1. k[x][1] \in V
      <4>1. l[x].head = k[x][1] /\ k[x][1] # NoScope
        BY <2>5, <2>9, <2>11, <3>0, Kids DEF ListedIn
      <4> QED
        BY <4>1, <2>8 DEF AfterIn
    <3>2. ASSUME NEW i \in 1..len, i # len, k[x][i] \in V
          PROVE  k[x][i + 1] \in V
      <4>1. i + 1 \in 1..len
        BY <3>0, <3>2
      <4>2. l[k[x][i]].next = k[x][i + 1] /\ k[x][i + 1] # NoScope
        BY <4>1, <3>2, <2>5, <2>9, Kids DEF ListedIn
      <4>3. Whole(k[x][i]) /\ k[x][i] \in Born(l) /\ k[x][i] # Root
        BY <2>7, <3>2
      <4>4. ClimbIn(l, k[x][i]) = k[x][i + 1]
        BY <4>2, <4>3, ClimbFrom
      <4> QED
        BY <4>2, <4>3, <4>4
    <3>3. \A i \in 1..len : k[x][i] \in V
      <4>1. SUFFICES ASSUME {i \in 1..len : k[x][i] \notin V} # {} PROVE FALSE
        OBVIOUS
      <4> DEFINE U == {i \in 1..len : k[x][i] \notin V}
      <4>2. U \subseteq Nat /\ U # {}
        BY <4>1
      <4>3. PICK i \in U : \A j \in U : i <= j
        <5> HIDE DEF U
        <5> QED BY <4>2, LeastOf
      <4>4. i \in 1..len /\ i # 1
        BY <4>3, <3>1
      <4>5. i - 1 \in 1..len /\ i - 1 # len /\ ~(i <= i - 1) /\ (i - 1) + 1 = i
        BY <4>4, <3>0
      <4>6. k[x][i - 1] \in V
        BY <4>3, <4>5
      <4>7. k[x][(i - 1) + 1] \in V
        BY <4>5, <4>6, <3>2
      <4> QED
        BY <4>7, <4>5, <4>3
    <3>4. len \in 1..len
      BY <3>0
    <3>5. Whole(k[x][len]) /\ k[x][len] \in Born(l) /\ k[x][len] # Root /\ l[k[x][len]].parent = x
      BY <3>3, <3>4, <2>7
    <3>6. l[k[x][len]].next = NoScope
      BY <3>4, <2>9 DEF ListedIn
    <3>7. ClimbIn(l, k[x][len]) = ClimbIn(l, x)
      BY <3>5, <3>6, ClimbFrom
    <3> QED
      BY <3>3, <3>5, <3>7, <2>5
  <2> QED
    BY <2>10, <2>11
<1>5. B \in SUBSET ScopeIds /\ Root \in B
  BY DEF Born
<1>6. ASSUME NEW x \in B, NEW i \in DOMAIN k[x] PROVE k[x][i] \in B
  <2>1. x \in ScopeIds /\ i \in 1..Len(k[x])
    BY <1>6, TreeTyped
  <2> QED
    BY <2>1, <1>4, Kids
<1>7. WithKidsIn(k, B)
  BY <1>6 DEF WithKidsIn
<1> QED
  BY <1>5, <1>7 DEF LiveIn

\* The scopes that the walk still comes to, after c.
StepsInto(l, c, S) == AfterIn(l, c) \in S \cup {NoScope}
Ahead(l, c) ==
  {y \in ScopeIds : \A S \in SUBSET ScopeIds :
     StepsInto(l, c, S) /\ (\A x \in S : StepsInto(l, x, S)) => y \in S}

LEMMA AheadClosed ==
  ASSUME ScopeConstants, NEW l, NEW k, Tree(l, k), NEW c \in Born(l)
  PROVE  Ahead(l, c) \subseteq Born(l) /\ \A x \in Ahead(l, c) : StepsInto(l, x, Ahead(l, c))
<1>1. Born(l) \in SUBSET ScopeIds /\ \A x \in Born(l) : StepsInto(l, x, Born(l))
  BY TreeTyped, AfterTyped DEF StepsInto
<1>2. Ahead(l, c) \subseteq Born(l)
  BY <1>1 DEF Ahead
<1>3. ASSUME NEW x \in Ahead(l, c)
      PROVE  StepsInto(l, x, Ahead(l, c))
  <2>1. SUFFICES ASSUME AfterIn(l, x) # NoScope PROVE AfterIn(l, x) \in Ahead(l, c)
    BY DEF StepsInto
  <2>2. AfterIn(l, x) \in ScopeIds
    BY <1>2, <2>1, AfterTyped, TreeTyped
  <2>3. ASSUME NEW S \in SUBSET ScopeIds, StepsInto(l, c, S), \A y \in S : StepsInto(l, y, S)
        PROVE  AfterIn(l, x) \in S
    <3>1. x \in S
      BY <2>3, <1>3 DEF Ahead
    <3> QED
      BY <3>1, <2>3, <2>1 DEF StepsInto
  <2> QED
    BY <2>2, <2>3 DEF Ahead
<1> QED
  BY <1>2, <1>3

LEMMA AheadStep ==
  ASSUME ScopeConstants, NEW l, NEW k, Tree(l, k), NEW c \in Born(l), NEW y \in Ahead(l, c)
  PROVE  /\ AfterIn(l, c) # NoScope
         /\ y = AfterIn(l, c) \/ y \in Ahead(l, AfterIn(l, c))
<1>1. AfterIn(l, c) # NoScope
  <2>1. SUFFICES ASSUME AfterIn(l, c) = NoScope PROVE FALSE
    OBVIOUS
  <2>2. StepsInto(l, c, {}) /\ {} \in SUBSET ScopeIds
    BY <2>1 DEF StepsInto
  <2> QED
    BY <2>2 DEF Ahead
<1> DEFINE d == AfterIn(l, c)
           S == {d} \cup Ahead(l, d)
<1>2. d \in Born(l) /\ d \in ScopeIds
  BY <1>1, AfterTyped, TreeTyped
<1> HIDE DEF d
<1>3. Ahead(l, d) \subseteq ScopeIds /\ \A x \in Ahead(l, d) : StepsInto(l, x, Ahead(l, d))
  BY <1>2, AheadClosed, TreeTyped
<1>4. StepsInto(l, d, Ahead(l, d))
  <2>1. SUFFICES ASSUME AfterIn(l, d) # NoScope PROVE AfterIn(l, d) \in Ahead(l, d)
    BY DEF StepsInto
  <2>2. AfterIn(l, d) \in ScopeIds
    BY <1>2, <2>1, AfterTyped, TreeTyped
  <2> QED
    BY <2>1, <2>2 DEF Ahead, StepsInto
<1>5. S \in SUBSET ScopeIds /\ \A x \in S : StepsInto(l, x, S)
  BY <1>2, <1>3, <1>4 DEF StepsInto
<1>6. StepsInto(l, c, S)
  BY DEF StepsInto, d
<1>7. y \in S
  BY <1>5, <1>6 DEF Ahead
<1> QED
  BY <1>1, <1>7 DEF d

\* From the root the walk comes to everybody else.
LEMMA AheadOfRoot ==
  ASSUME ScopeConstants, NEW l, NEW k, Tree(l, k)
  PROVE  \A x \in LiveIn(k) : x = Root \/ x \in Ahead(l, Root)
<1> DEFINE V == {Root} \cup Ahead(l, Root)
<1>1. Root \in Born(l)
  BY DEF Born
<1>2. Ahead(l, Root) \subseteq ScopeIds /\ \A x \in Ahead(l, Root) : StepsInto(l, x, Ahead(l, Root))
  BY <1>1, AheadClosed, TreeTyped
<1>3. AfterIn(l, Root) \in Ahead(l, Root) \cup {NoScope}
  <2>1. AfterIn(l, Root) \in ScopeIds \cup {NoScope}
    BY <1>1, AfterTyped, TreeTyped
  <2> QED
    BY <2>1 DEF Ahead, StepsInto
<1>4. V \in SUBSET ScopeIds /\ \A x \in V : AfterIn(l, x) \in V \cup {NoScope}
  BY <1>2, <1>3 DEF StepsInto, ScopeConstants
<1>5. LiveIn(k) \subseteq V
  <2> HIDE DEF V
  <2>1. Root \in V
    BY DEF V
  <2> QED
    BY <2>1, <1>4, WalkMeetsAll
<1> QED
  BY <1>5

-----------------------------------------------------------------------------
(* $new *)

Appended(l, m, p, s) ==
  LET t == l[p].tail IN
  m = [x \in ScopeIds |->
    CASE x = s -> [Unlinked EXCEPT !.parent = p, !.prev = t]
      [] x = p -> [l[p] EXCEPT !.head = IF @ = NoScope THEN s ELSE @, !.tail = s]
      [] x = t /\ l[p].head # NoScope -> [l[t] EXCEPT !.next = s]
      [] OTHER -> l[x]]

\* What it leaves of another scope x.
KeptBut(l, m, p, s, x) ==
  /\ m[x].parent = l[x].parent /\ m[x].prev = l[x].prev
  /\ m[x].next = IF x = l[p].tail THEN s ELSE l[x].next
  /\ m[x].head = IF x = p /\ l[x].head = NoScope THEN s ELSE l[x].head
  /\ m[x].tail = IF x = p THEN s ELSE l[x].tail

AppendedKid(k, q, p, s) == q = [k EXCEPT ![p] = Append(@, s)]

LEMMA Appending ==
  ASSUME ScopeConstants, NEW l, NEW k, Tree(l, k), NEW m, NEW p \in Born(l), NEW s \in ScopeIds,
         s # Root, l[s].parent = NoScope, Appended(l, m, p, s)
  PROVE  /\ m \in [ScopeIds -> LinkFields]
         /\ m[s].parent = p /\ m[s].prev = l[p].tail /\ m[s].next = NoScope
         /\ m[s].head = NoScope /\ m[s].tail = NoScope
         /\ \A x \in ScopeIds \ {s} : KeptBut(l, m, p, s, x)
         /\ s \notin Born(l) /\ Born(m) = Born(l) \cup {s}
<1> DEFINE t == l[p].tail
<1>1. p \in ScopeIds /\ s \notin Born(l) /\ p # s
  BY TreeTyped DEF Born
<1>2. t \in Places /\ (l[p].head = NoScope => t = NoScope) /\ t # p /\ t # s
  <2>1. ListedIn(l, k, p) /\ Len(k[p]) \in Nat /\ (k[p] = << >> <=> Len(k[p]) = 0)
    BY <1>1, TreeTyped DEF Tree
  <2>2. CASE k[p] = << >>
    BY <2>1, <2>2, <1>1 DEF ListedIn, Places, ScopeConstants
  <2>3. CASE k[p] # << >>
    <3>1. 1 \in 1..Len(k[p]) /\ Len(k[p]) \in 1..Len(k[p])
      BY <2>1, <2>3
    <3>2. l[p].head = k[p][1] /\ t = k[p][Len(k[p])]
      BY <2>1, <2>3 DEF ListedIn
    <3>3. k[p][1] # NoScope /\ t \in ScopeIds /\ l[t].parent = p /\ t \in Born(l)
      BY <3>1, <3>2, <1>1, Kids
    <3> QED
      BY <3>2, <3>3, <1>1, NotOwnKid DEF Places
  <2> QED
    BY <2>2, <2>3
<1>3. \A x \in ScopeIds : l[x] \in LinkFields
  BY DEF Tree
<1>4. \A x \in ScopeIds : m[x] =
        CASE x = s -> [Unlinked EXCEPT !.parent = p, !.prev = t]
          [] x = p -> [l[p] EXCEPT !.head = IF @ = NoScope THEN s ELSE @, !.tail = s]
          [] x = t /\ l[p].head # NoScope -> [l[t] EXCEPT !.next = s]
          [] OTHER -> l[x]
  BY DEF Appended
<1> HIDE DEF t
<1>5. m[s] = [parent |-> p, head |-> NoScope, tail |-> NoScope, next |-> NoScope, prev |-> t]
  BY <1>1, <1>2, <1>4 DEF Unlinked
<1>6. m[p] = [l[p] EXCEPT !.head = IF @ = NoScope THEN s ELSE @, !.tail = s]
  BY <1>1, <1>2, <1>4
<1>7. ASSUME NEW x \in ScopeIds, x # s, x # p
      PROVE  m[x] = IF x = t THEN [l[x] EXCEPT !.next = s] ELSE l[x]
  BY <1>2, <1>4, <1>7 DEF ScopeConstants
<1>8. ASSUME NEW x \in ScopeIds \ {s}
      PROVE  /\ m[x] \in LinkFields
             /\ m[x].parent = l[x].parent /\ m[x].prev = l[x].prev
             /\ m[x].next = IF x = t THEN s ELSE l[x].next
             /\ m[x].head = IF x = p /\ l[x].head = NoScope THEN s ELSE l[x].head
             /\ m[x].tail = IF x = p THEN s ELSE l[x].tail
  <2>0. l[x] \in LinkFields /\ s \in Places
    BY <1>3 DEF Places
  <2>1. CASE x = p
    BY <2>0, <2>1, <1>6, <1>2 DEF LinkFields
  <2>2. CASE x # p
    BY <2>0, <2>2, <1>7 DEF LinkFields
  <2> QED
    BY <2>1, <2>2
<1>9. m[s] \in LinkFields
  BY <1>5, <1>1, <1>2 DEF LinkFields, Places
<1>10. m \in [ScopeIds -> LinkFields]
  <2>1. m = [x \in ScopeIds |-> m[x]]
    BY DEF Appended
  <2> QED
    BY <2>1, <1>8, <1>9
<1>11. p # NoScope
  BY <1>1 DEF ScopeConstants
<1>12. Born(m) = Born(l) \cup {s}
  BY <1>5, <1>8, <1>11 DEF Born
<1> QED
  BY <1>1, <1>5, <1>8, <1>10, <1>12 DEF t, KeptBut

LEMMA NewKeepsTree ==
  ASSUME ScopeConstants, NEW l, NEW k, Tree(l, k), NEW m, NEW q, NEW p \in Born(l), NEW s \in ScopeIds,
         s # Root, l[s].parent = NoScope, Appended(l, m, p, s), AppendedKid(k, q, p, s)
  PROVE  Tree(m, q) /\ Born(l) \subseteq Born(m)
<1> DEFINE t == l[p].tail
           n == Len(k[p])
<1>1. p \in ScopeIds /\ p # s /\ k[p] \in Seq(ScopeIds) /\ k[s] = << >>
  BY TreeTyped DEF Born, Tree
<1>2. /\ m \in [ScopeIds -> LinkFields]
      /\ m[s].parent = p /\ m[s].prev = t /\ m[s].next = NoScope
      /\ m[s].head = NoScope /\ m[s].tail = NoScope
      /\ s \notin Born(l) /\ Born(m) = Born(l) \cup {s}
  BY Appending
<1>3. \A x \in ScopeIds \ {s} :
        /\ m[x].parent = l[x].parent /\ m[x].prev = l[x].prev
        /\ m[x].next = IF x = t THEN s ELSE l[x].next
        /\ m[x].head = IF x = p /\ l[x].head = NoScope THEN s ELSE l[x].head
        /\ m[x].tail = IF x = p THEN s ELSE l[x].tail
  <2>1. \A x \in ScopeIds \ {s} : KeptBut(l, m, p, s, x)
    BY Appending
  <2> QED
    BY <2>1 DEF KeptBut
<1>4. n \in Nat /\ (k[p] = << >> <=> n = 0)
  BY <1>1, TreeTyped
<1>5. /\ q[p] \in Seq(ScopeIds) /\ Len(q[p]) = n + 1 /\ q[p][n + 1] = s
      /\ \A i \in 1..n : q[p][i] = k[p][i]
  <2>1. q[p] = Append(k[p], s)
    BY <1>1 DEF Tree, AppendedKid
  <2> QED
    BY <2>1, <1>1
<1>6. \A x \in ScopeIds : x # p => q[x] = k[x]
  BY DEF Tree, AppendedKid
<1>7. q \in [ScopeIds -> Seq(ScopeIds)]
  BY <1>1 DEF Tree, AppendedKid
<1>8. t = IF n = 0 THEN NoScope ELSE k[p][n]
  BY <1>1, <1>4 DEF Tree, ListedIn
<1>8a. l[p].head = IF n = 0 THEN NoScope ELSE k[p][1]
  BY <1>1, <1>4 DEF Tree, ListedIn
<1>8b. t # NoScope => t \in Born(l) /\ t \in ScopeIds /\ l[t].parent = p
  <2>1. n # 0 => n \in 1..n
    BY <1>4
  <2> QED
    BY <2>1, <1>1, <1>8, Kids
<1> HIDE DEF t, n
<1>9. ListedIn(m, q, p)
  <2>1. m[p].head = q[p][1] /\ m[p].tail = q[p][Len(q[p])] /\ q[p] # << >>
    <3>1. n = 0 => q[p][1] = s
      BY <1>5
    <3>2. n # 0 => q[p][1] = k[p][1] /\ k[p][1] # NoScope
      <4>1. n # 0 => 1 \in 1..n
        BY <1>4
      <4> QED
        BY <4>1, <1>5, <1>1, Kids DEF n
    <3>3. q[p] # << >>
      BY <1>5, <1>4
    <3> QED
      BY <3>1, <3>2, <3>3, <1>1, <1>3, <1>5, <1>8a
  <2>2. ASSUME NEW i \in 1..Len(q[p])
        PROVE  /\ m[q[p][i]].parent = p
               /\ m[q[p][i]].next = IF i = Len(q[p]) THEN NoScope ELSE q[p][i + 1]
               /\ m[q[p][i]].prev = IF i = 1 THEN NoScope ELSE q[p][i - 1]
    <3>1. CASE i = n + 1
      <4>1. n # 0 => q[p][n] = k[p][n]
        BY <1>4, <1>5
      <4>2. q[p][i] = s /\ i = Len(q[p]) /\ i - 1 = n /\ (i = 1 <=> n = 0)
        BY <3>1, <1>4, <1>5
      <4> QED
        BY <4>1, <4>2, <1>2, <1>8
    <3>2. CASE i # n + 1
      <4>1. i \in 1..n /\ i # Len(q[p])
        BY <3>2, <1>4, <1>5
      <4> DEFINE c == k[p][i]
      <4>2. c = q[p][i] /\ c \in ScopeIds /\ c # s
        <5>1. c \in ScopeIds /\ c \in Born(l)
          BY <4>1, <1>1, Kids DEF n
        <5> QED
          BY <5>1, <4>1, <1>2, <1>5
      <4>3. /\ l[c].parent = p
            /\ l[c].next = IF i = n THEN NoScope ELSE k[p][i + 1]
            /\ l[c].prev = IF i = 1 THEN NoScope ELSE k[p][i - 1]
        BY <4>1, <1>1 DEF Tree, ListedIn, n
      <4>4. i = n <=> c = t
        <5>1. n # 0 /\ n \in 1..n
          BY <4>1, <1>4
        <5>2. k[p][i] = k[p][n] => i = n
          BY <5>1, <4>1, <1>1 DEF Tree, DistinctKids, n
        <5> QED
          BY <5>1, <5>2, <1>8
      <4>5. m[c].next = q[p][i + 1]
        <5>1. CASE i = n
          BY <5>1, <4>2, <4>4, <1>3, <1>5
        <5>2. CASE i # n
          <6>1. i + 1 \in 1..n
            BY <5>2, <4>1, <1>4
          <6> QED
            BY <6>1, <5>2, <4>2, <4>3, <4>4, <1>3, <1>5
        <5> QED
          BY <5>1, <5>2
      <4>6. i # 1 => q[p][i - 1] = k[p][i - 1]
        <5>1. i # 1 => i - 1 \in 1..n
          BY <4>1, <1>4
        <5> QED
          BY <5>1, <1>5
      <4> HIDE DEF c
      <4> QED
        BY <4>1, <4>2, <4>3, <4>5, <4>6, <1>3
    <3> QED
      BY <3>1, <3>2
  <2> QED
    BY <2>1, <2>2 DEF ListedIn
<1>10. ListedIn(m, q, s)
  <2>1. q[s] = << >>
    BY <1>1, <1>6
  <2>2. Len(q[s]) = 0
    BY <2>1
  <2> QED
    BY <2>1, <2>2, <1>2 DEF ListedIn
<1>11. ASSUME NEW x \in ScopeIds, x # p, x # s
       PROVE  ListedIn(m, q, x)
  <2>1. q[x] = k[x] /\ m[x].head = l[x].head /\ m[x].tail = l[x].tail
    BY <1>11, <1>3, <1>6
  <2>2. ASSUME NEW i \in 1..Len(k[x])
        PROVE  /\ m[k[x][i]].parent = l[k[x][i]].parent
               /\ m[k[x][i]].next = l[k[x][i]].next
               /\ m[k[x][i]].prev = l[k[x][i]].prev
    <3>1. k[x][i] \in ScopeIds /\ k[x][i] \in Born(l) /\ l[k[x][i]].parent = x /\ k[x][i] # NoScope
      BY Kids
    <3>2. k[x][i] # s /\ k[x][i] # t
      BY <3>1, <1>11, <1>2, <1>8b
    <3> QED
      BY <3>1, <3>2, <1>3
  <2>3. ListedIn(l, k, x)
    BY DEF Tree
  <2>4. \A i \in 1..Len(k[x]) :
          /\ m[k[x][i]].parent = x
          /\ m[k[x][i]].next = IF i = Len(k[x]) THEN NoScope ELSE k[x][i + 1]
          /\ m[k[x][i]].prev = IF i = 1 THEN NoScope ELSE k[x][i - 1]
    BY <2>2, <2>3, ZenonT(60) DEF ListedIn
  <2>5. /\ l[x].head = IF k[x] = << >> THEN NoScope ELSE k[x][1]
        /\ l[x].tail = IF k[x] = << >> THEN NoScope ELSE k[x][Len(k[x])]
    BY <2>3 DEF ListedIn
  <2> QED
    <3>1. \A i \in 1..Len(q[x]) :
            /\ m[q[x][i]].parent = x
            /\ m[q[x][i]].next = IF i = Len(q[x]) THEN NoScope ELSE q[x][i + 1]
            /\ m[q[x][i]].prev = IF i = 1 THEN NoScope ELSE q[x][i - 1]
      BY <2>1, <2>4
    <3>2. /\ m[x].head = IF q[x] = << >> THEN NoScope ELSE q[x][1]
          /\ m[x].tail = IF q[x] = << >> THEN NoScope ELSE q[x][Len(q[x])]
      BY <2>1, <2>5
    <3> QED
      BY <3>1, <3>2 DEF ListedIn
<1>12. LinksToBorn(m)
  <2>1. ASSUME NEW x \in ScopeIds
        PROVE  {m[x].parent, m[x].head, m[x].tail, m[x].next, m[x].prev} \subseteq Born(m) \cup {NoScope}
    <3>1. CASE x = s
      BY <3>1, <1>2, <1>8b
    <3>2. CASE x # s
      <4>1. {l[x].parent, l[x].head, l[x].tail, l[x].next, l[x].prev} \subseteq Born(l) \cup {NoScope}
        BY DEF Tree, LinksToBorn
      <4> QED
        BY <3>2, <4>1, <1>2, <1>3
    <3> QED
      BY <3>1, <3>2
  <2> QED
    BY <2>1 DEF LinksToBorn
<1>13. DistinctKids(q)
  <2>1. ASSUME NEW i \in 1..Len(q[p]), NEW j \in 1..Len(q[p]), q[p][i] = q[p][j]
        PROVE  i = j
    <3>1. \A h \in 1..n : k[p][h] # s
      BY <1>1, <1>2, Kids DEF n
    <3>2. i = n + 1 \/ i \in 1..n
      BY <1>4, <1>5
    <3>3. j = n + 1 \/ j \in 1..n
      BY <1>4, <1>5
    <3>4. i \in 1..n /\ j \in 1..n => (k[p][i] = k[p][j] => i = j)
      BY <1>1 DEF Tree, DistinctKids, n
    <3> QED
      BY <2>1, <3>1, <3>2, <3>3, <3>4, <1>5
  <2>2. \A x \in ScopeIds : x # p => \A i, j \in 1..Len(q[x]) : q[x][i] = q[x][j] => i = j
    BY <1>6 DEF Tree, DistinctKids
  <2> QED
    BY <2>1, <2>2 DEF DistinctKids
<1>14. Ranked(m)
  <2>1. PICK h \in Nat : \E r \in [ScopeIds -> 0..h] : RankedBy(l, r)
    BY DEF Tree, Ranked
  <2>2. PICK r \in [ScopeIds -> 0..h] : RankedBy(l, r)
    BY <2>1
  <2> DEFINE r2 == [x \in ScopeIds |-> IF x = s THEN h + 1 ELSE r[x]]
  <2>3. \A x \in ScopeIds : r[x] \in 0..h
    BY <2>2
  <2>4. r2 \in [ScopeIds -> 0..(h + 1)] /\ h + 1 \in Nat
    BY <2>3
  <2>5. ASSUME NEW x \in ScopeIds, m[x].parent # NoScope
        PROVE  r2[m[x].parent] < r2[x]
    <3>1. CASE x = s
      BY <3>1, <2>3, <1>1, <1>2
    <3>2. CASE x # s
      <4>1. m[x].parent = l[x].parent /\ l[x].parent # NoScope
        BY <3>2, <2>5, <1>3
      <4>2. l[x].parent \in Born(l)
        BY <4>1 DEF Tree, LinksToBorn
      <4>3. l[x].parent \in ScopeIds /\ l[x].parent # s
        BY <4>2, <1>2, TreeTyped
      <4>4. r[l[x].parent] < r[x]
        BY <4>1, <2>2 DEF RankedBy
      <4> QED
        BY <4>1, <4>3, <4>4, <3>2
    <3> QED
      BY <3>1, <3>2
  <2> HIDE DEF r2
  <2>6. RankedBy(m, r2)
    BY <2>5 DEF RankedBy
  <2> QED
    BY <2>4, <2>6 DEF Ranked
<1>15. m[Root].parent = NoScope
  BY <1>3 DEF Tree, ScopeConstants
<1>16. \A x \in ScopeIds \ Born(m) : q[x] = << >>
  BY <1>2, <1>6 DEF Tree
<1> QED
  BY <1>2, <1>7, <1>9, <1>10, <1>11, <1>12, <1>13, <1>14, <1>15, <1>16 DEF Tree

-----------------------------------------------------------------------------
(* $destroy *)

LinkWithout(l, s, x) ==
  CASE x = l[s].parent -> [l[x] EXCEPT !.head = IF @ = s THEN l[s].next ELSE @,
                                       !.tail = IF @ = s THEN l[s].prev ELSE @]
    [] x = l[s].prev -> [l[x] EXCEPT !.next = l[s].next]
    [] x = l[s].next -> [l[x] EXCEPT !.prev = l[s].prev]
    [] OTHER -> l[x]

Unhooked(l, m, s) == m = [x \in ScopeIds |-> LinkWithout(l, s, x)]

\* What the child s = k[p][j] is tied to.
LEMMA TiesOf ==
  ASSUME ScopeConstants, NEW l, NEW k, Tree(l, k), NEW p \in ScopeIds, NEW j \in 1..Len(k[p])
  PROVE  LET n == Len(k[p])
             s == k[p][j]
         IN /\ s \in ScopeIds /\ s # p /\ n \in Nat /\ n # 0
            /\ l[s].parent = p
            /\ l[s].prev = IF j = 1 THEN NoScope ELSE k[p][j - 1]
            /\ l[s].next = IF j = n THEN NoScope ELSE k[p][j + 1]
            /\ l[p].head = k[p][1] /\ l[p].tail = k[p][n]
            /\ (l[p].head = s <=> j = 1) /\ (l[p].tail = s <=> j = n)
            /\ l[s].prev # p /\ l[s].next # p
            /\ l[s].prev # NoScope => l[s].prev # l[s].next
            /\ \A i \in 1..n : /\ k[p][i] \in ScopeIds /\ k[p][i] # NoScope /\ k[p][i] # p
                               /\ (k[p][i] = l[s].prev <=> i = j - 1)
                               /\ (k[p][i] = l[s].next <=> i = j + 1)
            /\ \A x \in ScopeIds : \A i \in 1..Len(k[x]) :
                 x # p => k[x][i] # l[s].prev /\ k[x][i] # l[s].next
<1> DEFINE n == Len(k[p])
           s == k[p][j]
<1>1. n \in Nat /\ j \in 1..n /\ k[p] # << >> /\ 1 \in 1..n /\ n \in 1..n
  BY TreeTyped
<1>2. ListedIn(l, k, p)
  BY DEF Tree
<1>3. /\ l[s].parent = p
      /\ l[s].prev = IF j = 1 THEN NoScope ELSE k[p][j - 1]
      /\ l[s].next = IF j = n THEN NoScope ELSE k[p][j + 1]
      /\ l[p].head = k[p][1] /\ l[p].tail = k[p][n]
  BY <1>1, <1>2 DEF ListedIn
<1>4. \A i \in 1..n : /\ k[p][i] \in ScopeIds /\ k[p][i] # NoScope /\ l[k[p][i]].parent = p
                      /\ k[p][i] # p
  BY Kids, NotOwnKid
<1>5. \A i, h \in 1..n : k[p][i] = k[p][h] => i = h
  BY DEF Tree, DistinctKids
<1>6. j # 1 => j - 1 \in 1..n
  BY <1>1
<1>7. j # n => j + 1 \in 1..n
  BY <1>1
<1>8. p # NoScope
  BY DEF ScopeConstants
<1> HIDE DEF n, s
<1>9. (l[p].head = s <=> j = 1) /\ (l[p].tail = s <=> j = n)
  BY <1>1, <1>3, <1>5 DEF s
<1>10. l[s].prev # p /\ l[s].next # p
  BY <1>3, <1>4, <1>6, <1>7, <1>8
<1>11. l[s].prev # NoScope => l[s].prev # l[s].next
  <2>1. j # 1 /\ j # n => k[p][j - 1] # k[p][j + 1]
    BY <1>1, <1>5, <1>6, <1>7
  <2>2. j # 1 => k[p][j - 1] # NoScope
    BY <1>6, <1>4
  <2> QED
    BY <2>1, <2>2, <1>3
<1>12. ASSUME NEW i \in 1..n
       PROVE  /\ (k[p][i] = l[s].prev <=> i = j - 1)
              /\ (k[p][i] = l[s].next <=> i = j + 1)
  <2>1. k[p][i] # NoScope /\ i \in Nat /\ j \in Nat
    BY <1>1, <1>4
  <2>2. k[p][i] = l[s].prev <=> i = j - 1
    <3>1. CASE j = 1
      BY <3>1, <2>1, <1>1, <1>3
    <3>2. CASE j # 1
      <4>1. k[p][i] = k[p][j - 1] => i = j - 1
        BY <3>2, <1>5, <1>6
      <4> QED
        BY <4>1, <3>2, <1>3
    <3> QED
      BY <3>1, <3>2
  <2>3. k[p][i] = l[s].next <=> i = j + 1
    <3>1. CASE j = n
      BY <3>1, <2>1, <1>1, <1>3
    <3>2. CASE j # n
      <4>1. k[p][i] = k[p][j + 1] => i = j + 1
        BY <3>2, <1>5, <1>7
      <4> QED
        BY <4>1, <3>2, <1>3
    <3> QED
      BY <3>1, <3>2
  <2> QED
    BY <2>2, <2>3
<1>13. ASSUME NEW x \in ScopeIds, NEW i \in 1..Len(k[x]), x # p
       PROVE  k[x][i] # l[s].prev /\ k[x][i] # l[s].next
  <2>1. l[k[x][i]].parent = x /\ k[x][i] # NoScope
    BY Kids
  <2>2. j # 1 => l[k[p][j - 1]].parent = p
    BY <1>4, <1>6
  <2>3. j # n => l[k[p][j + 1]].parent = p
    BY <1>4, <1>7
  <2> QED
    BY <2>1, <2>2, <2>3, <1>3, <1>13
<1>14. s \in ScopeIds /\ s # p
  BY <1>1, <1>4 DEF s
<1>15. n # 0
  BY <1>1
<1> QED
  BY <1>1, <1>3, <1>4, <1>9, <1>10, <1>11, <1>12, <1>13, <1>14, <1>15 DEF n, s

LEMMA Unhooking ==
  ASSUME ScopeConstants, NEW l, NEW k, Tree(l, k), NEW m, NEW s \in ScopeIds,
         NEW p \in ScopeIds, NEW j \in 1..Len(k[p]), s = k[p][j], Unhooked(l, m, s)
  PROVE  /\ m \in [ScopeIds -> LinkFields]
         /\ \A x \in ScopeIds :
              /\ m[x].parent = l[x].parent
              /\ m[x].head = IF x = p /\ j = 1 THEN l[s].next ELSE l[x].head
              /\ m[x].tail = IF x = p /\ j = Len(k[p]) THEN l[s].prev ELSE l[x].tail
              /\ m[x].next = IF x = l[s].prev THEN l[s].next ELSE l[x].next
              /\ m[x].prev = IF x = l[s].next THEN l[s].prev ELSE l[x].prev
         /\ Born(m) = Born(l)
<1> DEFINE a == l[s].prev
           b == l[s].next
<1>1. /\ l[s].parent = p
      /\ (l[p].head = s <=> j = 1) /\ (l[p].tail = s <=> j = Len(k[p]))
      /\ a # p /\ b # p
      /\ a # NoScope => a # b
  BY TiesOf
<1>2. \A x \in ScopeIds : l[x] \in LinkFields /\ x # NoScope
  BY DEF Tree, ScopeConstants
<1>3. a \in Places /\ b \in Places
  BY <1>2 DEF LinkFields
<1>4. ASSUME NEW x \in ScopeIds
      PROVE  /\ x = p => m[x] = [l[x] EXCEPT !.head = IF @ = s THEN b ELSE @,
                                              !.tail = IF @ = s THEN a ELSE @]
             /\ x = a => m[x] = [l[x] EXCEPT !.next = b]
             /\ x # a /\ x = b => m[x] = [l[x] EXCEPT !.prev = a]
             /\ x # p /\ x # a /\ x # b => m[x] = l[x]
  <2>1. m[x] = LinkWithout(l, s, x)
    BY DEF Unhooked
  <2>2. CASE x = p
    BY <2>1, <2>2, <1>1 DEF LinkWithout
  <2>3. CASE x = a
    BY <2>1, <2>3, <1>1, <1>2 DEF LinkWithout
  <2>4. CASE x # a /\ x = b
    BY <2>1, <2>4, <1>1 DEF LinkWithout
  <2>5. CASE x # p /\ x # a /\ x # b
    BY <2>1, <2>5, <1>1 DEF LinkWithout
  <2> QED
    BY <2>2, <2>3, <2>4, <2>5, <1>1, <1>2
<1> HIDE DEF a, b
<1>5. ASSUME NEW x \in ScopeIds
      PROVE  /\ m[x] \in LinkFields
             /\ m[x].parent = l[x].parent
             /\ m[x].head = IF x = p /\ j = 1 THEN b ELSE l[x].head
             /\ m[x].tail = IF x = p /\ j = Len(k[p]) THEN a ELSE l[x].tail
             /\ m[x].next = IF x = a THEN b ELSE l[x].next
             /\ m[x].prev = IF x = b THEN a ELSE l[x].prev
  <2>1. CASE x = p
    <3>1. m[x] = [l[x] EXCEPT !.head = IF @ = s THEN b ELSE @, !.tail = IF @ = s THEN a ELSE @]
      BY <2>1, <1>1, <1>4
    <3> QED
      BY <3>1, <2>1, <1>1, <1>2, <1>3 DEF LinkFields
  <2>2. CASE x = a
    <3>1. m[x] = [l[x] EXCEPT !.next = b] /\ x # p /\ x # b
      BY <2>2, <1>1, <1>2, <1>4
    <3> QED
      BY <3>1, <2>2, <1>2, <1>3 DEF LinkFields
  <2>3. CASE x = b /\ x # a
    <3>1. m[x] = [l[x] EXCEPT !.prev = a] /\ x # p
      BY <2>3, <1>1, <1>4
    <3> QED
      BY <3>1, <2>3, <1>2, <1>3 DEF LinkFields
  <2>4. CASE x # p /\ x # a /\ x # b
    <3>1. m[x] = l[x]
      BY <2>4, <1>4
    <3> QED
      BY <3>1, <2>4, <1>2
  <2> QED
    BY <2>1, <2>2, <2>3, <2>4
<1>6. m \in [ScopeIds -> LinkFields]
  <2>1. m = [x \in ScopeIds |-> m[x]]
    BY DEF Unhooked
  <2> QED
    BY <2>1, <1>5
<1>7. Born(m) = Born(l)
  BY <1>5 DEF Born
<1> QED
  BY <1>5, <1>6, <1>7 DEF a, b

\* A list without its j-th element.
LEMMA RemovedAt ==
  ASSUME NEW S, NEW q \in Seq(S), NEW j \in 1..Len(q)
  PROVE  /\ Lists!RemoveAt(q, j) \in Seq(S) /\ Len(Lists!RemoveAt(q, j)) = Len(q) - 1 /\ Len(q) \in Nat
         /\ \A i \in 1..(Len(q) - 1) : Lists!RemoveAt(q, j)[i] = IF i < j THEN q[i] ELSE q[i + 1]
<1> DEFINE u == SubSeq(q, 1, j - 1)
           v == SubSeq(q, j + 1, Len(q))
<1>1. Len(q) \in Nat /\ j \in Nat /\ 1 <= j /\ j <= Len(q)
  OBVIOUS
<1>2. u \in Seq(S) /\ Len(u) = j - 1 /\ \A i \in 1..(j - 1) : u[i] = q[i]
  BY <1>1
<1>3. v \in Seq(S) /\ Len(v) = Len(q) - j /\ \A i \in 1..(Len(q) - j) : v[i] = q[i + j]
  BY <1>1
<1>4. Lists!RemoveAt(q, j) = u \o v
  BY DEF Lists!RemoveAt
<1> HIDE DEF u, v
<1>5. u \o v \in Seq(S) /\ Len(u \o v) = Len(u) + Len(v)
      /\ \A i \in 1..(Len(u) + Len(v)) : (u \o v)[i] = IF i <= Len(u) THEN u[i] ELSE v[i - Len(u)]
  <2>1. ASSUME NEW y \in Seq(S), NEW z \in Seq(S)
        PROVE  y \o z \in Seq(S) /\ Len(y \o z) = Len(y) + Len(z)
               /\ \A i \in 1..(Len(y) + Len(z)) : (y \o z)[i] = IF i <= Len(y) THEN y[i] ELSE z[i - Len(y)]
    BY ConcatProperties
  <2> QED
    BY <2>1, <1>2, <1>3
<1>6. ASSUME NEW i \in 1..(Len(q) - 1)
      PROVE  (u \o v)[i] = IF i < j THEN q[i] ELSE q[i + 1]
  <2>1. CASE i < j
    BY <2>1, <1>1, <1>2, <1>3, <1>5
  <2>2. CASE ~(i < j)
    <3>1. i - (j - 1) \in 1..(Len(q) - j) /\ (i - (j - 1)) + j = i + 1
      BY <2>2, <1>1
    <3>2. (u \o v)[i] = v[i - (j - 1)]
      BY <2>2, <1>1, <1>2, <1>3, <1>5
    <3> QED
      BY <3>1, <3>2, <2>2, <1>3
  <2> QED
    BY <2>1, <2>2
<1> QED
  BY <1>1, <1>2, <1>3, <1>4, <1>5, <1>6, SMTT(60)

LEMMA DestroyKeepsTree ==
  ASSUME ScopeConstants, NEW l, NEW k, Tree(l, k), NEW m, NEW q, NEW s \in ScopeIds,
         NEW p \in ScopeIds, NEW j \in 1..Len(k[p]), s = k[p][j], Unhooked(l, m, s),
         q = [k EXCEPT ![l[s].parent] = Without(@, s)]
  PROVE  Tree(m, q) /\ Born(m) = Born(l)
<1> DEFINE n == Len(k[p])
           a == l[s].prev
           b == l[s].next
<1>1. /\ m \in [ScopeIds -> LinkFields] /\ Born(m) = Born(l)
      /\ \A x \in ScopeIds :
           /\ m[x].parent = l[x].parent
           /\ m[x].head = IF x = p /\ j = 1 THEN b ELSE l[x].head
           /\ m[x].tail = IF x = p /\ j = n THEN a ELSE l[x].tail
           /\ m[x].next = IF x = a THEN b ELSE l[x].next
           /\ m[x].prev = IF x = b THEN a ELSE l[x].prev
  BY Unhooking
<1>2. /\ n \in Nat /\ n # 0 /\ l[s].parent = p
      /\ a = IF j = 1 THEN NoScope ELSE k[p][j - 1]
      /\ b = IF j = n THEN NoScope ELSE k[p][j + 1]
      /\ l[p].head = k[p][1] /\ l[p].tail = k[p][n]
  BY TiesOf
<1>3. \A i \in 1..n : /\ k[p][i] \in ScopeIds /\ k[p][i] # NoScope
                      /\ (k[p][i] = a <=> i = j - 1)
                      /\ (k[p][i] = b <=> i = j + 1)
  BY TiesOf
<1>4. \A x \in ScopeIds : \A i \in 1..Len(k[x]) : x # p => k[x][i] # a /\ k[x][i] # b
  BY TiesOf
<1>5. k[p] \in Seq(ScopeIds)
  BY DEF Tree
<1>6. (CHOOSE i \in DOMAIN k[p] : k[p][i] = s) = j
  <2>1. DOMAIN k[p] = 1..n
    BY <1>5
  <2>2. \A i \in 1..n : k[p][i] = s => i = j
    BY DEF Tree, DistinctKids
  <2> QED
    BY <2>1, <2>2
<1>7. /\ q[p] \in Seq(ScopeIds) /\ Len(q[p]) = n - 1
      /\ \A i \in 1..(n - 1) : q[p][i] = IF i < j THEN k[p][i] ELSE k[p][i + 1]
  <2>1. q[p] = Lists!RemoveAt(k[p], j)
    BY <1>2, <1>6 DEF Without, Tree
  <2> QED
    BY <2>1, <1>5, RemovedAt, ZenonT(60)
<1>8. \A x \in ScopeIds : x # p => q[x] = k[x]
  BY <1>2 DEF Tree
<1>9. q \in [ScopeIds -> Seq(ScopeIds)]
  <2>1. q = [k EXCEPT ![p] = q[p]]
    BY <1>2 DEF Tree
  <2> QED
    BY <2>1, <1>7 DEF Tree
<1>10. j \in 1..n
  OBVIOUS
<1>11. \A i \in 1..n : /\ l[k[p][i]].parent = p
                       /\ l[k[p][i]].next = IF i = n THEN NoScope ELSE k[p][i + 1]
                       /\ l[k[p][i]].prev = IF i = 1 THEN NoScope ELSE k[p][i - 1]
  BY DEF Tree, ListedIn
<1> HIDE DEF n, a, b
<1>12. ListedIn(m, q, p)
  <2>0. q[p] = << >> <=> n = 1
    BY <1>2, <1>7
  <2>1. m[p].head = IF q[p] = << >> THEN NoScope ELSE q[p][1]
    <3>1. CASE j = 1
      <4>0. n # 1 => 1 \in 1..(n - 1) /\ ~(1 < j) /\ j + 1 = 2 /\ 1 + 1 = 2
        BY <3>1, <1>2
      <4>1. n # 1 => q[p][1] = k[p][2] /\ j + 1 = 2
        BY <4>0, <1>7
      <4> QED
        BY <4>1, <3>1, <2>0, <1>1, <1>2
    <3>2. CASE j # 1
      <4>0. n # 1 /\ 1 \in 1..(n - 1) /\ 1 < j
        BY <3>2, <1>2, <1>10
      <4>1. n # 1 /\ q[p][1] = k[p][1]
        BY <4>0, <1>7
      <4> QED
        BY <4>1, <3>2, <2>0, <1>1, <1>2
    <3> QED
      BY <3>1, <3>2
  <2>2. m[p].tail = IF q[p] = << >> THEN NoScope ELSE q[p][Len(q[p])]
    <3>1. CASE j = n
      <4>0. n # 1 => n - 1 \in 1..(n - 1) /\ n - 1 < j
        BY <3>1, <1>2
      <4>1. n # 1 => q[p][n - 1] = k[p][n - 1]
        BY <4>0, <1>7
      <4> QED
        BY <4>1, <3>1, <2>0, <1>1, <1>2, <1>7
    <3>2. CASE j # n
      <4>1. n # 1 /\ n - 1 \in 1..(n - 1) /\ ~(n - 1 < j) /\ (n - 1) + 1 = n
        BY <3>2, <1>2, <1>10
      <4>2. q[p][n - 1] = k[p][n]
        BY <4>1, <1>7
      <4> QED
        BY <4>1, <4>2, <3>2, <2>0, <1>1, <1>2, <1>7
    <3> QED
      BY <3>1, <3>2
  <2>3. ASSUME NEW i \in 1..Len(q[p])
        PROVE  /\ m[q[p][i]].parent = p
               /\ m[q[p][i]].next = IF i = Len(q[p]) THEN NoScope ELSE q[p][i + 1]
               /\ m[q[p][i]].prev = IF i = 1 THEN NoScope ELSE q[p][i - 1]
    <3>0. i \in 1..(n - 1) /\ i \in Nat /\ j \in Nat /\ j <= n
      BY <1>2, <1>7, <1>10
    <3>1. CASE i < j
      <4> DEFINE c == k[p][i]
      <4>0. i \in 1..n
        BY <3>0, <1>2
      <4>1. i \in 1..n /\ q[p][i] = c
        BY <4>0, <3>0, <3>1, <1>7
      <4>2. /\ c \in ScopeIds /\ (c = a <=> i = j - 1) /\ c # b
            /\ l[c].parent = p
            /\ l[c].next = IF i = n THEN NoScope ELSE k[p][i + 1]
            /\ l[c].prev = IF i = 1 THEN NoScope ELSE k[p][i - 1]
        <5>1. i # j + 1
          BY <3>0, <3>1
        <5> QED
          BY <5>1, <4>1, <1>3, <1>11
      <4> HIDE DEF c
      <4>3. m[c].parent = p /\ m[c].prev = l[c].prev /\ m[c].next = IF c = a THEN b ELSE l[c].next
        BY <4>2, <1>1
      <4>4. i # 1 => q[p][i - 1] = k[p][i - 1]
        BY <3>0, <3>1, <1>7
      <4>5. i + 1 # j => q[p][i + 1] = k[p][i + 1] /\ i # n - 1 /\ i # n
        <5>1. i + 1 # j => i + 1 < j /\ i + 1 \in 1..(n - 1) /\ i # n - 1 /\ i # n
          BY <3>0, <3>1, <1>2
        <5> QED
          BY <5>1, <1>7
      <4>6. i + 1 = j => (IF i = n - 1 THEN NoScope ELSE q[p][i + 1]) = b
        <5>1. CASE i = n - 1
          BY <5>1, <3>0, <1>2
        <5>2. CASE i # n - 1
          <6>1. i + 1 = j => j # n /\ i + 1 \in 1..(n - 1) /\ ~(i + 1 < j) /\ (i + 1) + 1 = j + 1
            BY <5>2, <3>0, <1>2, SMTT(60)
          <6> QED
            BY <6>1, <5>2, <1>2, <1>7
        <5> QED
          BY <5>1, <5>2
      <4>7. i = j - 1 <=> i + 1 = j
        BY <3>0
      <4> QED
        BY <4>1, <4>2, <4>3, <4>4, <4>5, <4>6, <4>7, <1>7
    <3>2. CASE ~(i < j)
      <4> DEFINE c == k[p][i + 1]
      <4>0. i + 1 \in 1..n /\ i + 1 # j - 1 /\ i + 1 # 1
        BY <3>0, <3>2, <1>2
      <4>1. i + 1 \in 1..n /\ q[p][i] = c /\ i + 1 # j - 1 /\ i + 1 # 1
        BY <4>0, <3>0, <3>2, <1>7
      <4>2. /\ c \in ScopeIds /\ (c = b <=> i + 1 = j + 1) /\ c # a
            /\ l[c].parent = p
            /\ l[c].next = IF i + 1 = n THEN NoScope ELSE k[p][(i + 1) + 1]
            /\ l[c].prev = k[p][(i + 1) - 1]
        BY <4>1, <1>3, <1>11
      <4> HIDE DEF c
      <4>3. m[c].parent = p /\ m[c].next = l[c].next /\ m[c].prev = IF c = b THEN a ELSE l[c].prev
        BY <4>2, <1>1
      <4>4. i # n - 1 => q[p][i + 1] = k[p][(i + 1) + 1]
        <5>1. i # n - 1 => i + 1 \in 1..(n - 1) /\ ~(i + 1 < j)
          BY <3>0, <3>2, <1>2
        <5> QED
          BY <5>1, <1>7
      <4>5. i # j => i - 1 \in 1..(n - 1) /\ ~(i - 1 < j) /\ (i - 1) + 1 = i /\ i # 1 /\ (i + 1) - 1 = i
        BY <3>0, <3>2, <1>2, <1>10
      <4>6. i # j => q[p][i - 1] = k[p][(i + 1) - 1]
        BY <4>5, <1>7
      <4>7. i = j /\ i # 1 => q[p][i - 1] = k[p][j - 1]
        <5>1. i = j /\ i # 1 => i - 1 \in 1..(n - 1) /\ i - 1 < j
          BY <3>0, <1>2
        <5> QED
          BY <5>1, <1>7
      <4>8. (i = n - 1 <=> i + 1 = n) /\ (i = j <=> i + 1 = j + 1)
        BY <3>0, <1>2
      <4>9. m[c].next = IF i = n - 1 THEN NoScope ELSE q[p][i + 1]
        BY <4>2, <4>3, <4>4, <4>8
      <4>10. m[c].prev = IF i = 1 THEN NoScope ELSE q[p][i - 1]
        <5>1. CASE i = j
          BY <5>1, <4>2, <4>3, <4>7, <4>8, <1>2
        <5>2. CASE i # j
          BY <5>2, <4>2, <4>3, <4>5, <4>6, <4>8
        <5> QED
          BY <5>1, <5>2
      <4> QED
        BY <4>1, <4>3, <4>9, <4>10, <1>7
    <3> QED
      BY <3>1, <3>2
  <2> QED
    BY <2>1, <2>2, <2>3 DEF ListedIn
<1>13. ASSUME NEW x \in ScopeIds, x # p
       PROVE  ListedIn(m, q, x)
  <2>1. q[x] = k[x] /\ m[x].head = l[x].head /\ m[x].tail = l[x].tail
    BY <1>13, <1>1, <1>8
  <2>2. ASSUME NEW i \in 1..Len(k[x])
        PROVE  /\ m[k[x][i]].parent = l[k[x][i]].parent
               /\ m[k[x][i]].next = l[k[x][i]].next
               /\ m[k[x][i]].prev = l[k[x][i]].prev
    <3>1. k[x][i] \in ScopeIds
      BY Kids
    <3> QED
      BY <3>1, <1>13, <1>1, <1>4
  <2>3. ListedIn(l, k, x)
    BY DEF Tree
  <2>4. \A i \in 1..Len(k[x]) :
          /\ m[k[x][i]].parent = x
          /\ m[k[x][i]].next = IF i = Len(k[x]) THEN NoScope ELSE k[x][i + 1]
          /\ m[k[x][i]].prev = IF i = 1 THEN NoScope ELSE k[x][i - 1]
    BY <2>2, <2>3, ZenonT(60) DEF ListedIn
  <2>5. /\ l[x].head = IF k[x] = << >> THEN NoScope ELSE k[x][1]
        /\ l[x].tail = IF k[x] = << >> THEN NoScope ELSE k[x][Len(k[x])]
    BY <2>3 DEF ListedIn
  <2> QED
    <3>1. ASSUME NEW i \in 1..Len(q[x])
          PROVE  /\ m[q[x][i]].parent = x
                 /\ m[q[x][i]].next = IF i = Len(q[x]) THEN NoScope ELSE q[x][i + 1]
                 /\ m[q[x][i]].prev = IF i = 1 THEN NoScope ELSE q[x][i - 1]
      <4>1. i \in 1..Len(k[x])
        BY <2>1
      <4>2. /\ m[k[x][i]].parent = x
            /\ m[k[x][i]].next = IF i = Len(k[x]) THEN NoScope ELSE k[x][i + 1]
            /\ m[k[x][i]].prev = IF i = 1 THEN NoScope ELSE k[x][i - 1]
        BY <4>1, <2>4
      <4>3. q[x] = k[x]
        BY <2>1
      <4> QED
        BY <4>2, <4>3, ZenonT(60)
    <3>2. /\ m[x].head = IF q[x] = << >> THEN NoScope ELSE q[x][1]
          /\ m[x].tail = IF q[x] = << >> THEN NoScope ELSE q[x][Len(q[x])]
      BY <2>1, <2>5
    <3> QED
      BY <3>1, <3>2 DEF ListedIn
<1>14. LinksToBorn(m)
  <2>1. \A x \in ScopeIds : {l[x].parent, l[x].head, l[x].tail, l[x].next, l[x].prev} \subseteq Born(l) \cup {NoScope}
    BY DEF Tree, LinksToBorn
  <2>2. {a, b} \subseteq Born(l) \cup {NoScope}
    BY <2>1 DEF a, b
  <2>3. ASSUME NEW x \in ScopeIds
        PROVE  {m[x].parent, m[x].head, m[x].tail, m[x].next, m[x].prev} \subseteq Born(m) \cup {NoScope}
    <3>1. /\ m[x].parent = l[x].parent
          /\ m[x].head = b \/ m[x].head = l[x].head
          /\ m[x].tail = a \/ m[x].tail = l[x].tail
          /\ m[x].next = b \/ m[x].next = l[x].next
          /\ m[x].prev = a \/ m[x].prev = l[x].prev
      BY <1>1
    <3> QED
      BY <3>1, <2>1, <2>2, <1>1
  <2> QED
    BY <2>3 DEF LinksToBorn
<1>15. DistinctKids(q)
  <2>1. ASSUME NEW i \in 1..Len(q[p]), NEW h \in 1..Len(q[p]), q[p][i] = q[p][h]
        PROVE  i = h
    <3>1. \A u, v \in 1..n : k[p][u] = k[p][v] => u = v
      BY DEF Tree, DistinctKids, n
    <3>2. i \in 1..(n - 1) /\ h \in 1..(n - 1)
      BY <1>7
    <3>3. i \in 1..n /\ i + 1 \in 1..n /\ h \in 1..n /\ h + 1 \in 1..n /\ j \in 1..n
      BY <3>2, <1>2, <1>10
    <3>4. q[p][i] = IF i < j THEN k[p][i] ELSE k[p][i + 1]
      BY <3>2, <1>7
    <3>5. q[p][h] = IF h < j THEN k[p][h] ELSE k[p][h + 1]
      BY <3>2, <1>7
    <3>6. (IF i < j THEN i ELSE i + 1) = (IF h < j THEN h ELSE h + 1)
      BY <2>1, <3>1, <3>3, <3>4, <3>5
    <3> QED
      BY <3>3, <3>6
  <2>2. ASSUME NEW x \in ScopeIds, NEW i \in 1..Len(q[x]), NEW h \in 1..Len(q[x]), q[x][i] = q[x][h]
        PROVE  i = h
    <3>1. CASE x = p
      BY <3>1, <2>1, <2>2
    <3>2. CASE x # p
      <4>1. q[x] = k[x]
        BY <3>2, <1>8
      <4>2. i \in 1..Len(k[x]) /\ h \in 1..Len(k[x]) /\ k[x][i] = k[x][h]
        BY <4>1, <2>2
      <4> QED
        BY <4>2 DEF Tree, DistinctKids
    <3> QED
      BY <3>1, <3>2
  <2> QED
    BY <2>2 DEF DistinctKids
<1>16. Ranked(m)
  BY <1>1, ZenonT(60) DEF Tree, Ranked, RankedBy
<1>17. m[Root].parent = NoScope
  BY <1>1 DEF Tree, ScopeConstants
<1>18. ASSUME NEW x \in ScopeIds \ Born(m)
       PROVE  q[x] = << >>
  <2>1. k[x] = << >>
    BY <1>1 DEF Tree
  <2>2. x # p
    BY <2>1, <1>2 DEF n
  <2> QED
    BY <2>1, <2>2, <1>8
<1> QED
  BY <1>1, <1>9, <1>12, <1>13, <1>14, <1>15, <1>16, <1>17, <1>18 DEF Tree

-----------------------------------------------------------------------------
(* The invariant of the digest *)

Watchers == [of : Cells, last : {0, 1, NoScope}]
WatchersOK(w) ==
  /\ w \in [ScopeIds -> Seq(Watchers)]
  /\ \A x \in ScopeIds : Len(w[x]) <= MaxWatchers

LEMMA WatchersChanged ==
  ASSUME NEW w, WatchersOK(w), NEW s \in ScopeIds, NEW q \in Seq(Watchers), Len(q) <= MaxWatchers,
         NEW v, v = [w EXCEPT ![s] = q]
  PROVE  WatchersOK(v)
<1>1. v \in [ScopeIds -> Seq(Watchers)]
  BY DEF WatchersOK
<1>2. ASSUME NEW x \in ScopeIds
      PROVE  Len(v[x]) <= MaxWatchers
  <2>1. v[x] = IF x = s THEN q ELSE w[x]
    BY DEF WatchersOK
  <2> QED
    BY <2>1 DEF WatchersOK
<1> QED
  BY <1>1, <1>2 DEF WatchersOK

Shape ==
  /\ Tree(link, kids)
  /\ cell \in [Cells -> 0..1]
  /\ WatchersOK(watchers)
  /\ queue \in [ScopeIds -> 0..Effects] /\ left \in 0..Effects
  /\ \A x \in ScopeIds : x # Root => queue[x] = 0
  /\ queue[Root] + left <= Effects

DigestOK ==
  /\ digest \in [at : {"idle", "scope", "task", "watch", "listener", "apply"}, current : ScopeIds,
                 length : 0..MaxWatchers, dirty : BOOLEAN, ttl : 0..Iterations, thrown : BOOLEAN]
  /\ digest.current \in Born(link)

Clean(s, i) == watchers[s][i].last = cell[watchers[s][i].of]

\* While a pass has found nothing it has run no function of the page, but for the root's
\* tasks before the first watcher; so whoever the walk does not come to any more is clean.
Pass ==
  ~digest.dirty =>
    /\ digest.at \in {"apply", "task"} => digest.current = Root
    /\ digest.at # "listener"
    /\ digest.at = "scope" /\ digest.current # Root =>
         /\ queue[Root] = 0
         /\ \A s \in Live : \A i \in 1..Len(watchers[s]) :
              s = digest.current \/ s \in Ahead(link, digest.current) \/ Clean(s, i)
    /\ digest.at = "watch" =>
         /\ queue[Root] = 0
         /\ \A s \in Live : \A i \in 1..Len(watchers[s]) :
              \/ s \in Ahead(link, digest.current)
              \/ s = digest.current /\ i <= digest.length
              \/ Clean(s, i)

ScopeInv == Shape /\ DigestOK /\ Pass /\ SeesAllChanges

LEMMA ScopeInvTyped == ScopeInv => ScopeTypeOK
BY DEF ScopeInv, Shape, DigestOK, ScopeTypeOK, Tree, WatchersOK, Watchers

LEMMA ScopeInitInv == ScopeInit => ScopeInv
<1> SUFFICES ASSUME ScopeInit PROVE ScopeInv
  OBVIOUS
<1>0. ScopeConstants
  BY GivenScopes
<1>1. \A x \in ScopeIds : link[x] = Unlinked /\ kids[x] = << >> /\ watchers[x] = << >> /\ queue[x] = 0
  BY DEF ScopeInit
<1>2. Unlinked \in LinkFields /\ Unlinked.parent = NoScope /\ Unlinked.head = NoScope
      /\ Unlinked.tail = NoScope /\ Unlinked.next = NoScope /\ Unlinked.prev = NoScope
  BY DEF Unlinked, LinkFields, Places
<1>3. Len(<< >>) = 0 /\ << >> \in Seq(ScopeIds)
  OBVIOUS
<1>4. Ranked(link)
  <2> DEFINE r == [x \in ScopeIds |-> 0]
  <2>1. r \in [ScopeIds -> 0..0]
    OBVIOUS
  <2>2. RankedBy(link, r)
    BY <1>1, <1>2 DEF RankedBy
  <2> QED
    BY <2>1, <2>2 DEF Ranked
<1>5. Tree(link, kids)
  <2>1. link \in [ScopeIds -> LinkFields] /\ kids \in [ScopeIds -> Seq(ScopeIds)]
    BY <1>2, <1>3 DEF ScopeInit
  <2>2. ASSUME NEW x \in ScopeIds
        PROVE  ListedIn(link, kids, x)
    <3>1. kids[x] = << >> /\ link[x].head = NoScope /\ link[x].tail = NoScope
      BY <1>1, <1>2
    <3>2. 1..Len(kids[x]) = {}
      BY <3>1, <1>3
    <3> QED
      BY <3>1, <3>2 DEF ListedIn
  <2>3. LinksToBorn(link)
    BY <1>1, <1>2 DEF LinksToBorn
  <2>4. DistinctKids(kids)
    BY <1>1, <1>3 DEF DistinctKids
  <2> QED
    BY <2>1, <2>2, <2>3, <2>4, <1>0, <1>1, <1>2, <1>4 DEF Tree, ScopeConstants
<1>6. Shape
  <2>1. << >> \in Seq(Watchers)
    OBVIOUS
  <2>2. \A x \in ScopeIds : Len(watchers[x]) = 0
    BY <1>1, <1>3
  <2>3. WatchersOK(watchers)
    BY <2>1, <2>2, ScopeAssumption DEF WatchersOK, ScopeInit
  <2> QED
    BY <2>3, <1>0, <1>1, <1>5, ScopeAssumption DEF Shape, ScopeInit, ScopeConstants
<1>7. DigestOK
  BY ScopeAssumption DEF DigestOK, ScopeInit, AtRest, Born
<1>8. Pass /\ SeesAllChanges
  <2>1. \A x \in ScopeIds : Len(watchers[x]) = 0
    BY <1>1, <1>3
  <2>2. Live \subseteq ScopeIds
    BY DEF Live, Below
  <2> QED
    BY <2>1, <2>2, <1>0, <1>1 DEF Pass, SeesAllChanges, ScopeInit, AtRest, ScopeConstants
<1> QED
  BY <1>6, <1>7, <1>8 DEF ScopeInv

\* What a function of the page does.
LEMMA EffectKeeps ==
  ASSUME Shape, Effect
  PROVE  Shape' /\ Born(link) \subseteq Born(link')
<1>0. ScopeConstants /\ Effects \in Nat /\ MaxWatchers \in Nat
  BY GivenScopes, ScopeAssumption
<1>1. left > 0 /\ left' = left - 1 /\ left' \in 0..Effects /\ left \in Nat
  BY <1>0 DEF Effect, Shape
<1>2. Live \subseteq Born(link) /\ Live \subseteq ScopeIds
  BY <1>0, LiveNow, LiveFacts DEF Shape
<1>3. queue[Root] \in Nat /\ queue[Root] + left' <= Effects
  BY <1>0, <1>1 DEF Shape, ScopeConstants
<1>4. ASSUME NEW p \in Live, NEW s \in ScopeIds, NewChild(p, s)
      PROVE  Shape' /\ Born(link) \subseteq Born(link')
  <2>1. p \in Born(link) /\ s # Root /\ link[s].parent = NoScope
    BY <1>2, <1>4 DEF NewChild
  <2>2. Appended(link, link', p, s) /\ AppendedKid(kids, kids', p, s)
    BY <1>4 DEF NewChild, Appended, AppendedKid
  <2>3. Tree(link, kids)
    BY DEF Shape
  <2>4. Tree(link', kids') /\ Born(link) \subseteq Born(link')
    BY <2>1, <2>2, <2>3, <1>0, NewKeepsTree
  <2>5. UNCHANGED <<cell, watchers, queue>>
    BY <1>4 DEF NewChild
  <2> QED
    BY <2>4, <2>5, <1>1, <1>3 DEF Shape
<1>5. ASSUME NEW s \in Live, Destroy(s)
      PROVE  Shape' /\ Born(link) \subseteq Born(link')
  <2>1. s \in ScopeIds /\ s # Root /\ s \in LiveIn(kids)
    BY <1>2, <1>5, LiveNow DEF Destroy
  <2> DEFINE p == link[s].parent
  <2>2. p \in ScopeIds /\ \E j \in 1..Len(kids[p]) : kids[p][j] = s
    BY <2>1, <1>0, LiveFacts DEF Shape
  <2>3. PICK j \in 1..Len(kids[p]) : kids[p][j] = s
    BY <2>2
  <2>4. link' = [x \in ScopeIds |-> LinkWithout(link, s, x)]
    BY <1>5 DEF Destroy, LinkWithout
  <2>5. Unhooked(link, link', s) /\ kids' = [kids EXCEPT ![p] = Without(@, s)]
    BY <1>5, <2>4 DEF Destroy, Unhooked
  <2>6. Tree(link', kids') /\ Born(link') = Born(link)
    BY <2>1, <2>2, <2>3, <2>5, <1>0, DestroyKeepsTree, ZenonT(60) DEF Shape
  <2> QED
    BY <2>6, <1>1, <1>3, <1>5 DEF Destroy, Shape
<1>6. ASSUME NEW s \in Live, NEW c \in Cells, Watch(s, c)
      PROVE  Shape' /\ Born(link) \subseteq Born(link')
  <2> DEFINE w == [of |-> c, last |-> NoScope]
  <2>1. s \in ScopeIds /\ watchers[s] \in Seq(Watchers) /\ Len(watchers[s]) < MaxWatchers
    BY <1>2, <1>6 DEF Shape, Watch, WatchersOK
  <2>2. w \in Watchers
    BY DEF Watchers
  <2> HIDE DEF w
  <2>3. <<w>> \in Seq(Watchers) /\ Len(<<w>>) = 1
    BY <2>2
  <2>4. <<w>> \o watchers[s] \in Seq(Watchers) /\ Len(<<w>> \o watchers[s]) = 1 + Len(watchers[s])
    BY <2>1, <2>3, ConcatProperties
  <2>5. Len(<<w>> \o watchers[s]) <= MaxWatchers
    <3>1. Len(watchers[s]) \in Nat
      BY <2>1
    <3> QED
      BY <3>1, <2>1, <2>4, <1>0
  <2>6. watchers' = [watchers EXCEPT ![s] = <<w>> \o watchers[s]]
    BY <1>6 DEF Watch, w
  <2>7. WatchersOK(watchers')
    BY <2>1, <2>4, <2>5, <2>6, WatchersChanged DEF Shape
  <2>8. UNCHANGED <<link, kids, cell, queue>>
    BY <1>6 DEF Watch
  <2> QED
    BY <2>7, <2>8, <1>1, <1>3 DEF Shape
<1>7. ASSUME NEW s \in Live, NEW i \in 1..Len(watchers[s]), Unwatch(s, i)
      PROVE  Shape' /\ Born(link) \subseteq Born(link')
  <2>1. s \in ScopeIds /\ watchers[s] \in Seq(Watchers) /\ Len(watchers[s]) <= MaxWatchers
    BY <1>2 DEF Shape, WatchersOK
  <2> DEFINE q == Lists!RemoveAt(watchers[s], i)
  <2>2. q \in Seq(Watchers) /\ Len(q) = Len(watchers[s]) - 1 /\ Len(watchers[s]) \in Nat
    BY <2>1, RemovedAt
  <2>3. watchers' = [watchers EXCEPT ![s] = q] /\ UNCHANGED <<link, kids, cell, queue>>
    BY <1>7 DEF Unwatch
  <2> HIDE DEF q
  <2>4. Len(q) <= MaxWatchers
    BY <2>1, <2>2, <1>0
  <2>5. WatchersOK(watchers')
    BY <2>1, <2>2, <2>3, <2>4, WatchersChanged DEF Shape
  <2> QED
    BY <2>3, <2>5, <1>1, <1>3 DEF Shape
<1>8. ASSUME NEW c \in Cells, Write(c)
      PROVE  Shape' /\ Born(link) \subseteq Born(link')
  <2>1. UNCHANGED <<link, kids, watchers, queue>> /\ cell' = [cell EXCEPT ![c] = 1 - cell[c]]
    BY <1>8 DEF Write
  <2>2. cell \in [Cells -> 0..1] /\ 1 - cell[c] \in 0..1
    <3>1. cell \in [Cells -> 0..1]
      BY DEF Shape
    <3>2. cell[c] \in 0..1
      BY <3>1
    <3> QED
      BY <3>1, <3>2
  <2>3. cell' \in [Cells -> 0..1]
    BY <2>1, <2>2
  <2> QED
    BY <2>1, <2>3, <1>1, <1>3 DEF Shape
<1>9. ASSUME EvalAsync
      PROVE  Shape' /\ Born(link) \subseteq Born(link')
  <2>1. queue' = [queue EXCEPT ![Root] = @ + 1] /\ Root \in ScopeIds
    BY <1>9, <1>0 DEF EvalAsync, ScopeConstants
  <2>2. queue'[Root] + left' <= Effects /\ queue[Root] + 1 \in 0..Effects
    BY <2>1, <1>0, <1>1 DEF Shape
  <2>3. queue' \in [ScopeIds -> 0..Effects] /\ \A x \in ScopeIds : x # Root => queue'[x] = 0
    BY <2>1, <2>2 DEF Shape
  <2> QED
    BY <2>2, <2>3, <1>1, <1>9 DEF EvalAsync, Shape
<1> QED
  BY <1>4, <1>5, <1>6, <1>7, <1>8, <1>9 DEF Effect

-----------------------------------------------------------------------------
(* One lemma for each action *)

\* Nothing but the digest's own variables and, maybe, a queue has changed.
LEMMA SameShape ==
  ASSUME Shape, Inert
  PROVE  Shape' /\ Born(link') = Born(link) /\ Live' = Live /\ \A s, i : Clean(s, i)' = Clean(s, i)
<1>1. UNCHANGED <<link, kids, cell, watchers, queue, left>>
  BY DEF Inert
<1>2. Shape'
  BY <1>1 DEF Shape
<1>3. Live' = Live
  BY <1>1 DEF Live, Below, WithKids
<1>4. \A s, i : Clean(s, i)' = Clean(s, i)
  BY <1>1 DEF Clean
<1> QED
  BY <1>1, <1>2, <1>3, <1>4

LEMMA ApplyKeeps ==
  ASSUME ScopeInv, Apply
  PROVE  ScopeInv'
<1>1. Shape' /\ Born(link') = Born(link)
  BY SameShape DEF ScopeInv, Apply
<1>2. digest' = [AtRest EXCEPT !.at = "apply"]
  BY DEF Apply
<1>3. DigestOK'
  <2>1. digest' = [at |-> "apply", current |-> Root, length |-> 0, dirty |-> FALSE,
                   ttl |-> Iterations, thrown |-> FALSE]
    BY <1>2 DEF AtRest
  <2> QED
    BY <2>1, ScopeAssumption DEF DigestOK, Born
<1>4. Pass' /\ SeesAllChanges'
  BY <1>2 DEF Pass, SeesAllChanges, AtRest
<1> QED
  BY <1>1, <1>3, <1>4 DEF ScopeInv

LEMMA RunFunctionKeeps ==
  ASSUME ScopeInv, RunFunction
  PROVE  ScopeInv'
<1>1. Shape' /\ Born(link) \subseteq Born(link')
  <2>1. CASE Effect
    BY <2>1, EffectKeeps DEF ScopeInv
  <2>2. CASE Inert
    BY <2>2, SameShape DEF ScopeInv
  <2> QED
    BY <2>1, <2>2 DEF RunFunction
<1>2. /\ digest.at \in {"task", "listener", "apply"}
      /\ digest' = [digest EXCEPT !.at = IF digest.at = "listener" THEN "watch" ELSE "scope"]
  BY DEF RunFunction, Return
<1>3. DigestOK'
  BY <1>1, <1>2 DEF DigestOK, ScopeInv
<1>4. Pass'
  BY <1>2 DEF Pass, ScopeInv, DigestOK
<1>5. SeesAllChanges'
  BY <1>2 DEF SeesAllChanges, ScopeInv, DigestOK
<1> QED
  BY <1>1, <1>3, <1>4, <1>5 DEF ScopeInv

LEMMA TakeTaskKeeps ==
  ASSUME ScopeInv, TakeTask
  PROVE  ScopeInv'
<1> DEFINE c == digest.current
<1>1. c \in ScopeIds /\ queue[c] > 0 /\ queue \in [ScopeIds -> 0..Effects] /\ Effects \in Nat
  BY ScopeAssumption DEF ScopeInv, DigestOK, Shape, TakeTask
<1>2. c = Root
  BY <1>1 DEF ScopeInv, Shape
<1>3. queue' = [queue EXCEPT ![Root] = queue[Root] - 1] /\ UNCHANGED <<link, kids, cell, watchers, left>>
  BY <1>2 DEF TakeTask
<1>4. digest' = [digest EXCEPT !.at = "task"]
  BY DEF TakeTask
<1>5. Shape'
  <2>1. Root \in ScopeIds /\ queue[Root] \in Nat /\ queue[Root] - 1 \in 0..Effects
    BY <1>1, <1>2
  <2>2. queue' \in [ScopeIds -> 0..Effects] /\ queue'[Root] = queue[Root] - 1
        /\ \A x \in ScopeIds : x # Root => queue'[x] = queue[x]
    BY <2>1, <1>1, <1>3
  <2>3. left \in Nat /\ queue'[Root] + left <= Effects
    BY <2>1, <2>2, <1>1 DEF ScopeInv, Shape
  <2> QED
    BY <2>2, <2>3, <1>3 DEF ScopeInv, Shape
<1>6. DigestOK'
  BY <1>3, <1>4 DEF DigestOK, ScopeInv
<1>7. Pass' /\ SeesAllChanges'
  BY <1>2, <1>4 DEF Pass, SeesAllChanges, ScopeInv, DigestOK
<1> QED
  BY <1>5, <1>6, <1>7 DEF ScopeInv

LEMMA EnterScopeKeeps ==
  ASSUME ScopeInv, EnterScope
  PROVE  ScopeInv'
<1> DEFINE c == digest.current
<1>0. c \in ScopeIds /\ ScopeConstants /\ Tree(link, kids)
  BY GivenScopes DEF ScopeInv, DigestOK, Shape
<1>1. Inert /\ digest.at = "scope" /\ queue[c] = 0
  BY DEF EnterScope
<1>2. Shape' /\ Born(link') = Born(link) /\ Live' = Live /\ \A s, i : Clean(s, i)' = Clean(s, i)
  BY <1>1, SameShape DEF ScopeInv
<1>3. digest' = [digest EXCEPT !.at = "watch", !.length = Len(watchers[c])]
  BY DEF EnterScope
<1>4. Len(watchers[c]) \in 0..MaxWatchers
  <2>1. watchers[c] \in Seq(Watchers) /\ Len(watchers[c]) <= MaxWatchers
    BY <1>0 DEF ScopeInv, Shape, WatchersOK
  <2>2. Len(watchers[c]) \in Nat
    BY <2>1
  <2> QED
    BY <2>1, <2>2, ScopeAssumption
<1>5. DigestOK'
  BY <1>2, <1>3, <1>4 DEF DigestOK, ScopeInv
<1>6. Pass'
  <2>1. SUFFICES ASSUME ~digest.dirty PROVE Pass'
    BY <1>3 DEF Pass, ScopeInv, DigestOK
  <2>2. queue[Root] = 0 /\ \A s \in Live : \A i \in 1..Len(watchers[s]) :
          s = c \/ s \in Ahead(link, c) \/ Clean(s, i)
    <3>1. CASE c = Root
      BY <3>1, <1>0, <1>1, AheadOfRoot, LiveNow
    <3>2. CASE c # Root
      BY <3>2, <2>1, <1>1 DEF ScopeInv, Pass
    <3> QED
      BY <3>1, <3>2
  <2>3. ASSUME NEW s \in Live, NEW i \in 1..Len(watchers[s])
        PROVE  s \in Ahead(link, c) \/ (s = c /\ i <= Len(watchers[c])) \/ Clean(s, i)
    <3>1. s = c => i <= Len(watchers[c])
      BY <1>4
    <3> QED
      BY <3>1, <2>2
  <2>4. UNCHANGED <<link, kids, cell, watchers, queue, left>>
    BY <1>1 DEF Inert
  <2>5. digest'.at = "watch" /\ digest'.current = c /\ digest'.length = Len(watchers[c])
    BY <1>3 DEF ScopeInv, DigestOK
  <2> QED
    BY <2>2, <2>3, <2>4, <2>5, <1>2 DEF Pass
<1>7. SeesAllChanges'
  BY <1>3 DEF SeesAllChanges, ScopeInv, DigestOK
<1> QED
  BY <1>2, <1>5, <1>6, <1>7 DEF ScopeInv

LEMMA WatcherCleanKeeps ==
  ASSUME ScopeInv, WatcherClean
  PROVE  ScopeInv'
<1> DEFINE c == digest.current
           n == digest.length
<1>0. c \in ScopeIds /\ n \in 0..MaxWatchers /\ MaxWatchers \in Nat
  BY ScopeAssumption DEF ScopeInv, DigestOK
<1>1. Inert /\ digest.at = "watch" /\ n > 0 /\ (n > Len(watchers[c]) \/ Clean(c, n))
  BY DEF WatcherClean, Gone, HasChanged, At, Clean
<1>2. Shape' /\ Born(link') = Born(link) /\ Live' = Live /\ \A s, i : Clean(s, i)' = Clean(s, i)
  BY <1>1, SameShape DEF ScopeInv
<1>3. digest' = [digest EXCEPT !.length = n - 1]
  BY DEF WatcherClean
<1>4. n - 1 \in 0..MaxWatchers /\ n - 1 \in Nat
  BY <1>0, <1>1
<1>5. DigestOK'
  BY <1>2, <1>3, <1>4 DEF DigestOK, ScopeInv
<1>6. Pass'
  <2>1. SUFFICES ASSUME ~digest.dirty PROVE Pass'
    BY <1>3 DEF Pass, ScopeInv, DigestOK
  <2>2. queue[Root] = 0 /\ \A s \in Live : \A i \in 1..Len(watchers[s]) :
          s \in Ahead(link, c) \/ (s = c /\ i <= n) \/ Clean(s, i)
    BY <2>1, <1>1 DEF ScopeInv, Pass
  <2>3. ASSUME NEW s \in Live, NEW i \in 1..Len(watchers[s])
        PROVE  s \in Ahead(link, c) \/ (s = c /\ i <= n - 1) \/ Clean(s, i)
    <3>1. SUFFICES ASSUME s = c, i <= n PROVE i <= n - 1 \/ Clean(s, i)
      BY <2>2
    <3>2. Len(watchers[c]) \in Nat /\ i \in Nat /\ i <= Len(watchers[c])
      <4>1. watchers[c] \in Seq(Watchers)
        BY <1>0 DEF ScopeInv, Shape, WatchersOK
      <4>2. Len(watchers[c]) \in Nat
        BY <4>1
      <4> QED
        BY <4>2, <3>1
    <3>3. i = n => Clean(s, i)
      BY <3>1, <3>2, <1>0, <1>1
    <3> QED
      BY <3>1, <3>2, <3>3, <1>0
  <2>4. UNCHANGED <<link, kids, cell, watchers, queue, left>>
    BY <1>1 DEF Inert
  <2>5. digest'.at = "watch" /\ digest'.current = c /\ digest'.length = n - 1
    BY <1>1, <1>3 DEF ScopeInv, DigestOK
  <2> QED
    BY <2>2, <2>3, <2>4, <2>5, <1>2 DEF Pass
<1>7. SeesAllChanges'
  BY <1>1, <1>3 DEF SeesAllChanges, ScopeInv, DigestOK
<1> QED
  BY <1>2, <1>5, <1>6, <1>7 DEF ScopeInv

LEMMA WatcherFiresKeeps ==
  ASSUME ScopeInv, WatcherFires
  PROVE  ScopeInv'
<1> DEFINE c == digest.current
           n == digest.length
<1>0. c \in ScopeIds /\ n \in 0..MaxWatchers /\ MaxWatchers \in Nat /\ n > 0
  BY ScopeAssumption DEF ScopeInv, DigestOK, WatcherFires
<1>1. digest' = [digest EXCEPT !.at = "listener", !.length = n - 1, !.dirty = TRUE]
  BY DEF WatcherFires
<1>2. n - 1 \in 0..MaxWatchers
  BY <1>0
<1>3. watchers[c] \in Seq(Watchers) /\ Len(watchers[c]) <= MaxWatchers
  BY <1>0 DEF ScopeInv, Shape, WatchersOK
<1>4. n \in 1..Len(watchers[c])
  <2>1. Len(watchers[c]) \in Nat
    BY <1>3
  <2> QED
    BY <2>1, <1>0 DEF WatcherFires, Gone
<1> DEFINE w == watchers[c][n]
           q == [watchers[c] EXCEPT ![n] = [w EXCEPT !.last = cell[w.of]]]
<1>5. w \in Watchers /\ cell \in [Cells -> 0..1]
  BY <1>3, <1>4 DEF ScopeInv, Shape
<1>6. [w EXCEPT !.last = cell[w.of]] \in Watchers
  <2>1. w.of \in Cells
    BY <1>5 DEF Watchers
  <2>2. cell[w.of] \in {0, 1, NoScope}
    BY <2>1, <1>5
  <2> QED
    BY <2>2, <1>5 DEF Watchers
<1>7. watchers' = [watchers EXCEPT ![c] = q] /\ UNCHANGED <<link, kids, cell, queue, left>>
  BY DEF WatcherFires, At
<1>8. q \in Seq(Watchers) /\ Len(q) = Len(watchers[c])
  <2> DEFINE e == [w EXCEPT !.last = cell[w.of]]
  <2>1. e \in Watchers
    BY <1>6
  <2> HIDE DEF e, w
  <2>2. [watchers[c] EXCEPT ![n] = e] \in Seq(Watchers) /\ Len([watchers[c] EXCEPT ![n] = e]) = Len(watchers[c])
    BY <2>1, <1>3, <1>4
  <2> QED
    BY <2>2 DEF e
<1> HIDE DEF q, w
<1>9. WatchersOK(watchers')
  <2>1. WatchersOK(watchers) /\ Len(q) <= MaxWatchers
    BY <1>3, <1>8 DEF ScopeInv, Shape
  <2> QED
    BY <2>1, <1>0, <1>7, <1>8, WatchersChanged
<1>10. Shape'
  BY <1>7, <1>9 DEF ScopeInv, Shape
<1>11. DigestOK'
  BY <1>1, <1>2, <1>7 DEF DigestOK, ScopeInv
<1>12. Pass' /\ SeesAllChanges'
  BY <1>1 DEF Pass, SeesAllChanges, ScopeInv, DigestOK
<1> QED
  BY <1>10, <1>11, <1>12 DEF ScopeInv

LEMMA NextScopeKeeps ==
  ASSUME ScopeInv, NextScope
  PROVE  ScopeInv'
<1> DEFINE c == digest.current
           d == AfterIn(link, c)
<1>0. c \in ScopeIds /\ c \in Born(link) /\ ScopeConstants /\ Tree(link, kids)
  BY GivenScopes DEF ScopeInv, DigestOK, Shape
<1>1. Inert /\ digest.at = "watch" /\ digest.length = 0 /\ d # NoScope
  BY AfterNow DEF NextScope
<1>2. Shape' /\ Born(link') = Born(link) /\ Live' = Live /\ \A s, i : Clean(s, i)' = Clean(s, i)
  BY <1>1, SameShape DEF ScopeInv
<1>3. digest' = [digest EXCEPT !.at = "scope", !.current = d]
  BY AfterNow DEF NextScope
<1>4. d \in Born(link) /\ d \in ScopeIds
  BY <1>0, <1>1, AfterTyped, TreeTyped
<1> HIDE DEF d
<1>5. DigestOK'
  BY <1>2, <1>3, <1>4 DEF DigestOK, ScopeInv
<1>6. Pass'
  <2>1. SUFFICES ASSUME ~digest.dirty PROVE Pass'
    BY <1>3 DEF Pass, ScopeInv, DigestOK
  <2>2. queue[Root] = 0 /\ \A s \in Live : \A i \in 1..Len(watchers[s]) :
          s \in Ahead(link, c) \/ (s = c /\ i <= 0) \/ Clean(s, i)
    BY <2>1, <1>1 DEF ScopeInv, Pass
  <2>3. ASSUME NEW s \in Live, NEW i \in 1..Len(watchers[s])
        PROVE  s = d \/ s \in Ahead(link, d) \/ Clean(s, i)
    <3>1. ~(i <= 0)
      <4>1. i \in 1..Len(watchers[s])
        OBVIOUS
      <4> QED
        BY <4>1
    <3>2. s \in Ahead(link, c) => s = d \/ s \in Ahead(link, d)
      BY <1>0, AheadStep DEF d
    <3> QED
      BY <3>1, <3>2, <2>2
  <2>4. UNCHANGED <<link, kids, cell, watchers, queue, left>>
    BY <1>1 DEF Inert
  <2>5. digest'.at = "scope" /\ digest'.current = d
    BY <1>3 DEF ScopeInv, DigestOK
  <2> QED
    BY <2>2, <2>3, <2>4, <2>5, <1>2 DEF Pass
<1>7. SeesAllChanges'
  BY <1>3 DEF SeesAllChanges, ScopeInv, DigestOK
<1> QED
  BY <1>2, <1>5, <1>6, <1>7 DEF ScopeInv

LEMMA NextPassKeeps ==
  ASSUME ScopeInv, NextPass
  PROVE  ScopeInv'
<1>1. Inert
  BY DEF NextPass, PassOver
<1>2. Shape' /\ Born(link') = Born(link)
  BY <1>1, SameShape DEF ScopeInv
<1>3. PICK t \in 0..Iterations : digest' = [AtRest EXCEPT !.at = "scope", !.ttl = t]
  <2>1. digest.ttl \in 0..Iterations /\ Iterations \in Nat
    BY ScopeAssumption DEF ScopeInv, DigestOK
  <2>2. CASE digest.dirty
    <3>1. digest.ttl - 1 \in 0..Iterations
      BY <2>1, <2>2 DEF NextPass
    <3> QED
      BY <3>1, <2>2 DEF NextPass
  <2>3. CASE ~digest.dirty
    BY <2>1, <2>3 DEF NextPass
  <2> QED
    BY <2>2, <2>3
<1>4. DigestOK'
  <2>1. digest' = [at |-> "scope", current |-> Root, length |-> 0, dirty |-> FALSE,
                   ttl |-> t, thrown |-> FALSE]
    BY <1>3 DEF AtRest
  <2> QED
    BY <2>1, ScopeAssumption DEF DigestOK, Born
<1>5. Pass' /\ SeesAllChanges'
  BY <1>3 DEF Pass, SeesAllChanges, AtRest
<1> QED
  BY <1>2, <1>4, <1>5 DEF ScopeInv

\* The digest ends when nobody is ahead of it, and whoever is not is clean.
LEMMA EndDigestKeeps ==
  ASSUME ScopeInv, EndDigest
  PROVE  ScopeInv'
<1> DEFINE c == digest.current
<1>0. c \in Born(link) /\ ScopeConstants /\ Tree(link, kids)
  BY GivenScopes DEF ScopeInv, DigestOK, Shape
<1>1. Inert /\ digest.at = "watch" /\ digest.length = 0 /\ ~digest.dirty /\ AfterIn(link, c) = NoScope
  BY AfterNow DEF EndDigest, PassOver
<1>2. Shape' /\ Born(link') = Born(link) /\ Live' = Live /\ \A s, i : Clean(s, i)' = Clean(s, i)
  BY <1>1, SameShape DEF ScopeInv
<1>3. digest' = AtRest
  BY DEF EndDigest
<1>4. DigestOK'
  <2>1. digest' = [at |-> "idle", current |-> Root, length |-> 0, dirty |-> FALSE,
                   ttl |-> Iterations, thrown |-> FALSE]
    BY <1>3 DEF AtRest
  <2> QED
    BY <2>1, ScopeAssumption DEF DigestOK, Born
<1>5. Pass'
  BY <1>3 DEF Pass, AtRest
<1>6. queue[Root] = 0 /\ \A s \in Live : \A i \in 1..Len(watchers[s]) : Clean(s, i)
  <2>1. queue[Root] = 0 /\ \A s \in Live : \A i \in 1..Len(watchers[s]) :
          s \in Ahead(link, c) \/ (s = c /\ i <= 0) \/ Clean(s, i)
    BY <1>1 DEF ScopeInv, Pass
  <2>2. ASSUME NEW s \in Live, NEW i \in 1..Len(watchers[s])
        PROVE  Clean(s, i)
    <3>1. ~(i <= 0)
      <4>1. i \in 1..Len(watchers[s])
        OBVIOUS
      <4> QED
        BY <4>1
    <3>2. s \notin Ahead(link, c)
      BY <1>0, <1>1, AheadStep
    <3> QED
      BY <3>1, <3>2, <2>1
  <2> QED
    BY <2>1, <2>2
<1>7. SeesAllChanges'
  BY <1>1, <1>2, <1>6 DEF SeesAllChanges, Clean, Inert
<1> QED
  BY <1>2, <1>4, <1>5, <1>7 DEF ScopeInv

LEMMA GiveUpKeeps ==
  ASSUME ScopeInv, GiveUp
  PROVE  ScopeInv'
<1>1. Inert
  BY DEF GiveUp, PassOver
<1>2. Shape' /\ Born(link') = Born(link)
  BY <1>1, SameShape DEF ScopeInv
<1>3. digest' = [AtRest EXCEPT !.thrown = TRUE]
  BY DEF GiveUp
<1>4. DigestOK'
  <2>1. digest' = [at |-> "idle", current |-> Root, length |-> 0, dirty |-> FALSE,
                   ttl |-> Iterations, thrown |-> TRUE]
    BY <1>3 DEF AtRest
  <2> QED
    BY <2>1, ScopeAssumption DEF DigestOK, Born
<1>5. Pass' /\ SeesAllChanges'
  BY <1>3 DEF Pass, SeesAllChanges, AtRest
<1> QED
  BY <1>2, <1>4, <1>5 DEF ScopeInv

LEMMA ScopeStutter ==
  ASSUME ScopeInv, UNCHANGED scopeVars
  PROVE  ScopeInv'
<1>1. Inert /\ digest' = digest
  BY DEF scopeVars, Inert
<1>2. Shape' /\ Born(link') = Born(link) /\ Live' = Live /\ \A s, i : Clean(s, i)' = Clean(s, i)
  BY <1>1, SameShape DEF ScopeInv
<1>3. UNCHANGED <<link, kids, cell, watchers, queue, left>>
  BY <1>1 DEF Inert
<1> QED
  BY <1>1, <1>2, <1>3 DEF ScopeInv, DigestOK, Pass, SeesAllChanges

LEMMA ScopeInvTells == ScopeInv => ScopesKept
<1> SUFFICES ASSUME ScopeInv PROVE ScopesKept
  OBVIOUS
<1>1. \A s \in ScopeIds : ListedIn(link, kids, s) /\ DOMAIN kids[s] = 1..Len(kids[s])
  BY GivenScopes, TreeTyped DEF ScopeInv, Shape, Tree
<1>2. ASSUME NEW s \in Live
      PROVE  Listed(s)
  <2>1. s \in ScopeIds
    BY DEF Live, Below
  <2>2. ListedIn(link, kids, s) /\ DOMAIN kids[s] = 1..Len(kids[s])
    BY <2>1, <1>1
  <2>3. \A i \in DOMAIN kids[s] :
          /\ link[kids[s][i]].parent = s
          /\ link[kids[s][i]].next = IF i = Len(kids[s]) THEN NoScope ELSE kids[s][i + 1]
          /\ link[kids[s][i]].prev = IF i = 1 THEN NoScope ELSE kids[s][i - 1]
    BY <2>2 DEF ListedIn
  <2>4. /\ link[s].head = IF kids[s] = << >> THEN NoScope ELSE kids[s][1]
        /\ link[s].tail = IF kids[s] = << >> THEN NoScope ELSE kids[s][Len(kids[s])]
    BY <2>2 DEF ListedIn
  <2> QED
    BY <2>3, <2>4 DEF Listed
<1> QED
  BY <1>2 DEF ScopesKept, LinksAreTree, ScopeInv

\* For any number of scopes, watchers and passes: whatever the functions of the page do
\* to the tree of scopes while a digest walks over it, $new and $destroy keep the links
\* those of the tree, and a digest that ends without giving up has seen every change.
THEOREM ScopesStayKept == ScopeSpec => [](ScopeTypeOK /\ ScopesKept)
<1>1. ScopeInv /\ [ScopeNext]_scopeVars => ScopeInv'
  BY ApplyKeeps, RunFunctionKeeps, TakeTaskKeeps, EnterScopeKeeps, WatcherCleanKeeps,
     WatcherFiresKeeps, NextScopeKeeps, NextPassKeeps, EndDigestKeeps, GiveUpKeeps, ScopeStutter
     DEF ScopeNext
<1>2. ScopeInv => ScopeTypeOK /\ ScopesKept
  BY ScopeInvTyped, ScopeInvTells
<1> QED
  BY ScopeInitInv, <1>1, <1>2, PTL DEF ScopeSpec
=============================================================================
