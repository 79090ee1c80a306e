--------------------------- MODULE PagePartsProofs ---------------------------
(***************************************************************************)
(* Proofs about parts of the page that share no state: the dialog of a     *)
(* connection, the loader of modules, the creation of services, the        *)
(* elements under a digest and the address of the page.                    *)
(***************************************************************************)
EXTENDS ConnectionDialog, Injector, Elements, Location, FiniteSetTheorems, SequenceTheorems, TLAPS

-----------------------------------------------------------------------------
(* Sequences *)

\* A sequence with one more in front.
LEMMA InFront ==
  ASSUME NEW S, NEW s \in Seq(S), NEW x \in S
  PROVE  /\ <<x>> \o s \in Seq(S) /\ Len(<<x>> \o s) = Len(s) + 1
         /\ (<<x>> \o s)[1] = x
         /\ \A i \in 1..Len(s) : (<<x>> \o s)[i + 1] = s[i]
         /\ \A i \in 2..(Len(s) + 1) : (<<x>> \o s)[i] = s[i - 1]
<1>1. <<x>> \in Seq(S) /\ Len(<<x>>) = 1 /\ <<x>>[1] = x
  OBVIOUS
<1>2. Len(s) \in Nat
  OBVIOUS
<1>3. /\ <<x>> \o s \in Seq(S) /\ Len(<<x>> \o s) = 1 + Len(s)
      /\ \A i \in 1..(1 + Len(s)) : (<<x>> \o s)[i] = IF i <= 1 THEN <<x>>[i] ELSE s[i - 1]
  BY <1>1, ConcatProperties
<1> QED
  BY <1>1, <1>2, <1>3

\* What is behind the first of a sequence.
LEMMA Behind ==
  ASSUME NEW S, NEW s \in Seq(S), s # << >>
  PROVE  /\ Len(s) \in Nat /\ Len(s) > 0 /\ s[1] \in S /\ Head(s) = s[1]
         /\ Tail(s) \in Seq(S) /\ Len(Tail(s)) = Len(s) - 1
         /\ \A i \in 1..(Len(s) - 1) : Tail(s)[i] = s[i + 1]
         /\ ToSet(s) = {Head(s)} \cup ToSet(Tail(s))
<1>1. Len(s) \in Nat /\ Len(s) > 0 /\ s[1] \in S /\ Head(s) = s[1]
  OBVIOUS
<1>2. /\ Tail(s) \in Seq(S) /\ Len(Tail(s)) = Len(s) - 1
      /\ \A i \in 1..(Len(s) - 1) : Tail(s)[i] = s[i + 1]
  OBVIOUS
<1>3. ToSet(s) = {Head(s)} \cup ToSet(Tail(s))
  <2>1. ASSUME NEW i \in 1..Len(s) PROVE s[i] = Head(s) \/ \E j \in 1..(Len(s) - 1) : Tail(s)[j] = s[i]
    <3>1. CASE i = 1
      BY <1>1, <3>1
    <3>2. CASE i # 1
      <4>1. i - 1 \in 1..(Len(s) - 1) /\ Tail(s)[i - 1] = s[i]
        BY <1>1, <1>2, <3>2
      <4> QED
        BY <4>1
    <3> QED
      BY <3>1, <3>2
  <2>2. \A j \in 1..(Len(s) - 1) : j + 1 \in 1..Len(s)
    BY <1>1
  <2>3. 1 \in 1..Len(s)
    BY <1>1
  <2>4. DOMAIN s = 1..Len(s) /\ DOMAIN Tail(s) = 1..(Len(s) - 1)
    BY <1>1, <1>2
  <2>5. ToSet(s) = {s[i] : i \in 1..Len(s)} /\ ToSet(Tail(s)) = {Tail(s)[j] : j \in 1..(Len(s) - 1)}
    BY <2>4 DEF ToSet
  <2>6. ASSUME NEW x \in ToSet(s) PROVE x = Head(s) \/ x \in ToSet(Tail(s))
    <3>1. PICK i \in 1..Len(s) : x = s[i]
      BY <2>5, <2>6
    <3> QED
      BY <2>1, <2>5, <3>1
  <2>7. ASSUME NEW x \in ToSet(Tail(s)) PROVE x \in ToSet(s)
    <3>1. PICK j \in 1..(Len(s) - 1) : x = Tail(s)[j]
      BY <2>5, <2>7
    <3>2. x = s[j + 1] /\ j + 1 \in 1..Len(s)
      BY <1>2, <2>2, <3>1
    <3> QED
      BY <2>5, <3>2
  <2>8. Head(s) \in ToSet(s)
    BY <1>1, <2>3, <2>5
  <2> QED
    BY <2>6, <2>7, <2>8
<1> QED
  BY <1>1, <1>2, <1>3

\* A finite set as a sequence has all that is in it.
LEMMA AsSequence ==
  ASSUME NEW S, IsFiniteSet(S)
  PROVE  SetToSeq(S) \in Seq(S) /\ ToSet(SetToSeq(S)) = S
<1> DEFINE n == Cardinality(S)
           s == SetToSeq(S)
<1>1. n \in Nat /\ ExistsBijection(1..n, S)
  BY FS_CardinalityType
<1>2. \E f \in [1..n -> S] : IsInjective(f)
  BY <1>1 DEF ExistsBijection, Bijection, Injection
<1>3. s \in [1..n -> S] /\ IsInjective(s)
  BY <1>2 DEF SetToSeq
<1>4. IsFiniteSet(1..n) /\ Cardinality(1..n) = n
  BY <1>1, FS_Bijection, FS_CardinalityType, FS_Interval
<1> HIDE DEF n, s
<1>5. s \in Surjection(1..n, S)
  <2>1. s \in Injection(1..n, S)
    BY <1>3 DEF Injection
  <2> QED
    BY <2>1, <1>4, FS_Injection DEF n
<1>6. \A x \in S : \E i \in 1..n : s[i] = x
  BY <1>5 DEF Surjection
<1>7. s \in Seq(S) /\ DOMAIN s = 1..n
  BY <1>1, <1>3
<1>8. ToSet(s) = S
  BY <1>3, <1>6, <1>7 DEF ToSet
<1> QED
  BY <1>7, <1>8 DEF s

-----------------------------------------------------------------------------
(* The dialog of a connection *)

\* What the constants are: null, undefined and "DIRECT" are nothing else.
DialogConstants ==
  /\ IsFiniteSet(Connections) /\ MaxPresses \in Nat
  /\ Nil \notin Objects /\ Undefined \notin Objects /\ Undefined \notin Connections
  /\ Nil # Undefined /\ Nil \notin Proxies /\ "DIRECT" \notin Proxies
  /\ Nil \notin [type : Proxies \cup {"DIRECT"}, of : Connections]

\* What somebody has is an object, and the object of a row is that of its connection.
Held ==
  /\ \A o \in Used : heap[o] # Nil
  /\ \A c \in Connections : rows[c] \in Objects => heap[rows[c]].of = c

\* There are no more updates under way than were sent.
Sent == IsFiniteSet(requests) /\ Cardinality(requests) <= presses

\* While a patient user waits, the dialog is open for what he waits for, and it sends
\* for no other connection than its own.
Awaits ==
  patient =>
    /\ edit.id \in {edit.of, Undefined}
    /\ \A r, s \in requests : r = s
    /\ \A r \in requests : open /\ heap[r.saved].of = edit.of

\* The inductive invariant.
DialogInv == ConnectionTypeOK /\ Held /\ Sent /\ Awaits /\ DialogIsOwn

\* There is always an object for whoever needs a new one, and enough for a new list.
LEMMA Room ==
  ASSUME DialogConstants, DialogInv
  PROVE  /\ Used \subseteq Objects
         /\ Fresh \in Objects \ Used
         /\ (\A c \in Connections : rows[c] = Undefined) =>
              \E f \in [Connections -> Objects \ Used] :
                \A c, d \in Connections : f[c] = f[d] => c = d
<1>1. /\ IsFiniteSet(Connections) /\ MaxPresses \in Nat /\ presses \in 0..MaxPresses
      /\ Cardinality(Connections) \in Nat /\ Cardinality(Connections) > 0
  <2>1. /\ IsFiniteSet(Connections) /\ MaxPresses \in Nat /\ presses \in 0..MaxPresses
        /\ edit.of \in Connections
    BY DEF DialogConstants, DialogInv, ConnectionTypeOK
  <2>2. Cardinality(Connections) \in Nat /\ Cardinality(Connections) # 0
    BY <2>1, FS_CardinalityType, FS_EmptySet
  <2> QED
    BY <2>1, <2>2
<1>2. /\ IsFiniteSet(Objects)
      /\ Cardinality(Objects) = 2 * Cardinality(Connections) + MaxPresses + 1
  <2> DEFINE n == 2 * Cardinality(Connections) + MaxPresses + 1
  <2>1. n \in Nat /\ n > 0 /\ 1 \in Int /\ Objects = 1..n
    BY <1>1 DEF Objects
  <2> HIDE DEF n
  <2>2. IsFiniteSet(1..n) /\ Cardinality(1..n) = n
    <3>1. n \in Int /\ (IF 1 > n THEN 0 ELSE n - 1 + 1) = n
      BY <2>1
    <3> QED
      BY <2>1, <3>1, FS_Interval
  <2> QED
    BY <2>1, <2>2 DEF n
<1> DEFINE ofRows == {rows[c] : c \in Connections}
           ofRequests == {r.saved : r \in requests}
<1>3. IsFiniteSet(ofRows) /\ Cardinality(ofRows) <= Cardinality(Connections)
  <2>1. [c \in Connections |-> rows[c]] \in Surjection(Connections, ofRows)
    BY DEF Surjection
  <2> QED
    BY <1>1, <2>1, FS_Surjection
<1>4. /\ IsFiniteSet(requests) /\ Cardinality(requests) \in Nat
      /\ Cardinality(requests) <= MaxPresses
  <2>1. IsFiniteSet(requests) /\ Cardinality(requests) <= presses
    BY DEF DialogInv, Sent
  <2> QED
    BY <1>1, <2>1, FS_CardinalityType
<1>5. IsFiniteSet(ofRequests) /\ Cardinality(ofRequests) <= Cardinality(requests)
  <2>1. [r \in requests |-> r.saved] \in Surjection(requests, ofRequests)
    BY DEF Surjection
  <2> QED
    BY <1>4, <2>1, FS_Surjection
<1>6. IsFiniteSet({edit.proxy}) /\ Cardinality({edit.proxy}) = 1
  BY FS_Singleton
<1> DEFINE others == {edit.proxy} \cup ofRequests
<1>7. IsFiniteSet(others) /\ Cardinality(others) <= MaxPresses + 1 /\ Cardinality(others) \in Nat
  <2>1. Cardinality(ofRequests) \in Nat /\ Cardinality({edit.proxy} \cap ofRequests) \in Nat
    <3>1. IsFiniteSet({edit.proxy} \cap ofRequests)
      BY <1>6, FS_Intersection
    <3> QED
      BY <3>1, <1>5, FS_CardinalityType
  <2>2. /\ IsFiniteSet(others)
        /\ Cardinality(others) = Cardinality({edit.proxy}) + Cardinality(ofRequests)
                                   - Cardinality({edit.proxy} \cap ofRequests)
    BY <1>5, <1>6, FS_Union
  <2>3. Cardinality(others) \in Nat
    BY <2>2, FS_CardinalityType
  <2> QED
    BY <1>1, <1>4, <1>5, <1>6, <2>1, <2>2, <2>3
<1> HIDE DEF ofRows, ofRequests, others
<1>8. Used = (ofRows \cup others) \ {Nil, Undefined}
  BY DEF Used, ofRows, ofRequests, others
<1>9. Used \subseteq Objects
  BY DEF DialogInv, ConnectionTypeOK, Used
<1>10. IsFiniteSet(Used) /\ Cardinality(Used) \in Nat
  BY <1>9, <1>2, FS_Subset, FS_CardinalityType
<1>11. Cardinality(Objects \ Used) = Cardinality(Objects) - Cardinality(Used)
  <2>1. Objects \cap Used = Used
    BY <1>9
  <2>2. Cardinality(Objects \ Used) = Cardinality(Objects) - Cardinality(Objects \cap Used)
    BY <1>2, FS_Difference
  <2> QED
    BY <2>1, <2>2
<1>12. Cardinality(Used) <= Cardinality(Connections) + MaxPresses + 1
  <2>1. Cardinality(ofRows) \in Nat /\ Cardinality(ofRows \cap others) \in Nat
    <3>1. IsFiniteSet(ofRows \cap others)
      BY <1>3, FS_Intersection
    <3> QED
      BY <3>1, <1>3, FS_CardinalityType
  <2>2. /\ IsFiniteSet(ofRows \cup others)
        /\ Cardinality(ofRows \cup others) = Cardinality(ofRows) + Cardinality(others)
                                               - Cardinality(ofRows \cap others)
    BY <1>3, <1>7, FS_Union
  <2>3. Used \in SUBSET (ofRows \cup others)
    BY <1>8
  <2>4. Cardinality(Used) <= Cardinality(ofRows \cup others)
    BY <2>2, <2>3, FS_Subset
  <2> QED
    BY <1>1, <1>3, <1>7, <1>10, <2>1, <2>2, <2>4
<1>13. Cardinality(Objects \ Used) >= Cardinality(Connections)
       /\ Cardinality(Objects \ Used) \in Nat
  BY <1>1, <1>2, <1>10, <1>11, <1>12
<1>14. Fresh \in Objects \ Used
  <2>1. \E o \in Objects : o \notin Used
    <3>1. SUFFICES ASSUME Objects = Used PROVE FALSE
      BY <1>9
    <3> QED
      BY <3>1, <1>1, <1>2, <1>12
  <2> QED
    BY <2>1 DEF Fresh
<1>15. \E f \in [Connections -> Objects \ Used] :
         \A c, d \in Connections : f[c] = f[d] => c = d
  <2> DEFINE n == Cardinality(Connections)
             m == Cardinality(Objects \ Used)
  <2>1. IsFiniteSet(Objects \ Used)
    BY <1>2, FS_Difference
  <2>2. PICK g : g \in Bijection(1..n, Connections)
    BY <1>1, FS_CardinalityType DEF ExistsBijection
  <2>3. PICK h : h \in Bijection(1..m, Objects \ Used)
    BY <2>1, FS_CardinalityType DEF ExistsBijection
  <2>4. n \in Nat /\ m \in Nat /\ n <= m
    BY <1>1, <1>13
  <2> HIDE DEF n, m
  <2>5. /\ g \in [1..n -> Connections]
        /\ \A c \in Connections : \E i \in 1..n : g[i] = c
    BY <2>2 DEF Bijection, Surjection
  <2>6. /\ h \in [1..m -> Objects \ Used]
        /\ \A i, j \in 1..m : h[i] = h[j] => i = j
    BY <2>3 DEF Bijection, Injection, IsInjective
  <2> DEFINE pos(c) == CHOOSE i \in 1..n : g[i] = c
             f == [c \in Connections |-> h[pos(c)]]
  <2>7. \A c \in Connections : pos(c) \in 1..n /\ g[pos(c)] = c
    BY <2>5
  <2> HIDE DEF pos
  <2>8. \A c \in Connections : pos(c) \in 1..m
    BY <2>4, <2>7
  <2>9. f \in [Connections -> Objects \ Used]
    BY <2>6, <2>8
  <2>10. ASSUME NEW c \in Connections, NEW d \in Connections, f[c] = f[d] PROVE c = d
    <3>1. pos(c) = pos(d)
      BY <2>6, <2>8, <2>10
    <3> QED
      BY <3>1, <2>7
  <2> QED
    BY <2>9, <2>10
<1> QED
  BY <1>9, <1>14, <1>15

\* What the proxy objects are.
ProxyObjects == [type : Proxies \cup {"DIRECT"}, of : Connections]

\* What the types and the heap are after a step whose objects are those of h.
LEMMA OthersKept ==
  ASSUME NEW h, heap' = Collected(h),
         Nil \notin Objects, Undefined \notin Objects, Nil \notin ProxyObjects,
         rows' \in [Connections -> Objects \cup {Nil, Undefined}],
         edit' \in [of : Connections, id : Connections \cup {Undefined},
                   proxy : Objects \cup {Nil}],
         \A r \in requests' : r.saved \in Objects /\ h[r.saved] \in ProxyObjects,
         edit'.proxy # Nil => h[edit'.proxy] \in ProxyObjects,
         \A c \in Connections : rows'[c] \in Objects =>
           h[rows'[c]] \in ProxyObjects /\ h[rows'[c]].of = c
  PROVE  /\ heap' \in [Objects -> [type : Proxies \cup {"DIRECT"}, of : Connections] \cup {Nil}]
         /\ Held'
         /\ edit'.proxy # Nil => heap'[edit'.proxy] = h[edit'.proxy]
         /\ \A r \in requests' : heap'[r.saved] = h[r.saved]
<1>1. \A o \in Used' : o \in Objects /\ h[o] \in ProxyObjects
  BY DEF Used
<1>2. heap' = [o \in Objects |-> IF o \in Used' THEN h[o] ELSE Nil]
  BY DEF Collected
<1>3. heap' \in [Objects -> ProxyObjects \cup {Nil}]
  BY <1>1, <1>2
<1>4. \A o \in Used' : heap'[o] = h[o] /\ heap'[o] # Nil
  BY <1>1, <1>2
<1>5. edit'.proxy # Nil => edit'.proxy \in Used' \/ edit'.proxy = Undefined
  BY DEF Used
<1>6. \A r \in requests' : r.saved \in Used' \/ r.saved \in {Nil, Undefined}
  BY DEF Used
<1>7. \A c \in Connections : rows'[c] \in Objects => rows'[c] \in Used' \/ rows'[c] \in {Nil, Undefined}
  BY DEF Used
<1> QED
  BY <1>3, <1>4, <1>5, <1>6, <1>7 DEF ProxyObjects, Held

\* What the invariant says of the types, for the steps below.
LEMMA DialogTyped ==
  ASSUME DialogConstants, DialogInv
  PROVE  /\ rows \in [Connections -> Objects \cup {Nil, Undefined}]
         /\ heap \in [Objects -> ProxyObjects \cup {Nil}]
         /\ edit \in [of : Connections, id : Connections \cup {Undefined},
                      proxy : Objects \cup {Nil}]
         /\ requests \subseteq [n : 0..(MaxPresses - 1), id : Connections \cup {Undefined},
                                of : Connections, saved : Objects, sent : Proxies \cup {Nil}]
         /\ presses \in 0..MaxPresses /\ MaxPresses \in Nat
         /\ Nil \notin Objects /\ Undefined \notin Objects /\ Nil # Undefined
         /\ Nil \notin ProxyObjects /\ Undefined \notin Connections /\ Nil \notin Proxies
         /\ IsFiniteSet(requests) /\ Cardinality(requests) \in Nat
         /\ edit.proxy # Nil => edit.proxy \in Used /\ heap[edit.proxy] \in ProxyObjects
         /\ \A c \in Connections : rows[c] \in Objects =>
              rows[c] \in Used /\ heap[rows[c]] \in ProxyObjects /\ heap[rows[c]].of = c
         /\ \A r \in requests : r.saved \in Used /\ heap[r.saved] \in ProxyObjects
<1>1. ConnectionTypeOK /\ Held /\ Sent
  BY DEF DialogInv
<1>2. IsFiniteSet(requests) /\ Cardinality(requests) \in Nat
  BY <1>1, FS_CardinalityType DEF Sent
<1> QED
  BY <1>1, <1>2 DEF DialogConstants, ConnectionTypeOK, ProxyObjects, Held, Used

\* The page starts with a list that is being read.
LEMMA DialogStarts ==
  ASSUME DialogConstants PROVE ConnectionInit => DialogInv
<1> SUFFICES ASSUME ConnectionInit PROVE DialogInv
  OBVIOUS
<1>1. MaxPresses \in Nat /\ Nil \notin Objects /\ Undefined \notin Objects /\ Nil # Undefined
  BY DEF DialogConstants
<1>2. ConnectionTypeOK
  <2>1. edit \in [of : Connections, id : Connections \cup {Undefined}, proxy : Objects \cup {Nil}]
    BY DEF ConnectionInit
  <2>2. rows \in [Connections -> Objects \cup {Nil, Undefined}]
    BY DEF ConnectionInit
  <2>3. heap \in [Objects -> [type : Proxies \cup {"DIRECT"}, of : Connections] \cup {Nil}]
    BY DEF ConnectionInit
  <2>4. presses \in 0..MaxPresses
    BY <1>1 DEF ConnectionInit
  <2>5. server \in [Connections -> Proxies \cup {Nil}] /\ patient \in BOOLEAN /\ open \in BOOLEAN
    BY DEF ConnectionInit
  <2>6. requests = {}
    BY DEF ConnectionInit
  <2> QED
    BY <2>1, <2>2, <2>3, <2>4, <2>5, <2>6 DEF ConnectionTypeOK
<1>3. Held
  BY <1>1 DEF ConnectionInit, Held, Used
<1>4. Sent
  BY FS_EmptySet DEF ConnectionInit, Sent
<1> QED
  BY <1>2, <1>3, <1>4 DEF ConnectionInit, DialogInv, Awaits, DialogIsOwn

\* A new list has objects of its own, one for each row that has a proxy.
LEMMA ReadKeeps ==
  ASSUME DialogConstants, DialogInv, Read PROVE DialogInv'
<1>0. DialogConstants /\ DialogInv
  OBVIOUS
<1> DEFINE f == CHOOSE f \in [Connections -> Objects \ Used] :
                  \A c, d \in Connections : f[c] = f[d] => c = d
           h == [o \in Objects |->
                  IF \E c \in Connections : f[c] = o
                    THEN LET c == CHOOSE c \in Connections : f[c] = o
                         IN [type |-> server[c], of |-> c]
                    ELSE heap[o]]
<1>1. /\ \A c \in Connections : rows[c] = Undefined
      /\ rows' = [c \in Connections |-> IF server[c] = Nil THEN Nil ELSE f[c]]
      /\ UNCHANGED <<patient, server, edit, open, requests, presses>>
      /\ heap' = Collected(h)
  BY DEF Read
<1>2. /\ f \in [Connections -> Objects \ Used]
      /\ \A c, d \in Connections : f[c] = f[d] => c = d
  BY <1>1, Room
<1> HIDE DEF f
<1>3. \A c \in Connections : (CHOOSE d \in Connections : f[d] = f[c]) = c
  <2> TAKE c \in Connections
  <2> DEFINE e == CHOOSE d \in Connections : f[d] = f[c]
  <2>1. e \in Connections /\ f[e] = f[c]
    OBVIOUS
  <2> HIDE DEF e
  <2>2. e = c
    BY <1>2, <2>1
  <2> QED
    BY <2>2 DEF e
<1>4. \A c \in Connections : f[c] \in Objects /\ h[f[c]] = [type |-> server[c], of |-> c]
  <2> TAKE c \in Connections
  <2>1. f[c] \in Objects /\ (CHOOSE d \in Connections : f[d] = f[c]) = c
    BY <1>2, <1>3
  <2> QED
    BY <2>1
<1>5. \A o \in Used : o \in Objects => h[o] = heap[o]
  BY <1>2
<1> HIDE DEF h
<1>6. rows' \in [Connections -> Objects \cup {Nil, Undefined}]
  BY <1>1, <1>4
<1>7. server \in [Connections -> Proxies \cup {Nil}]
  BY DEF DialogInv, ConnectionTypeOK
<1>8. \A c \in Connections : rows'[c] \in Objects =>
        h[rows'[c]] \in ProxyObjects /\ h[rows'[c]].of = c
  <2> TAKE c \in Connections
  <2>1. Nil \notin Objects
    BY DEF DialogConstants
  <2>2. rows'[c] \in Objects => server[c] \in Proxies /\ rows'[c] = f[c]
    BY <1>1, <1>7, <2>1
  <2>3. server[c] \in Proxies => [type |-> server[c], of |-> c] \in ProxyObjects
    BY DEF ProxyObjects
  <2> QED
    BY <1>4, <2>2, <2>3
<1>9. /\ \A r \in requests : r.saved \in Objects /\ h[r.saved] = heap[r.saved]
                             /\ h[r.saved] \in ProxyObjects
      /\ edit.proxy # Nil => h[edit.proxy] = heap[edit.proxy] /\ h[edit.proxy] \in ProxyObjects
  BY <1>0, <1>5, DialogTyped
<1>10. /\ heap' \in [Objects -> [type : Proxies \cup {"DIRECT"}, of : Connections] \cup {Nil}]
       /\ Held'
       /\ edit.proxy # Nil => heap'[edit.proxy] = heap[edit.proxy]
       /\ \A r \in requests : heap'[r.saved] = heap[r.saved]
  BY <1>0, <1>1, <1>6, <1>8, <1>9, OthersKept, DialogTyped
<1>11. ConnectionTypeOK'
  BY <1>1, <1>6, <1>10 DEF DialogInv, ConnectionTypeOK
<1>12. Sent' /\ Awaits' /\ DialogIsOwn'
  BY <1>1, <1>10 DEF DialogInv, Sent, Awaits, DialogIsOwn
<1> QED
  BY <1>10, <1>11, <1>12 DEF DialogInv

\* A dialog opens with the object of its row, or with a new one.
LEMMA ShowEditKeeps ==
  ASSUME DialogConstants, DialogInv, NEW c \in Connections, ShowEdit(c) PROVE DialogInv'
<1>0. DialogConstants /\ DialogInv
  OBVIOUS
<1> DEFINE o == IF rows[c] = Nil THEN Fresh ELSE rows[c]
           h == IF rows[c] = Nil THEN [heap EXCEPT ![Fresh] = [type |-> "DIRECT", of |-> c]] ELSE heap
<1>1. /\ ~open /\ rows[c] # Undefined /\ open' = TRUE
      /\ edit' = [of |-> c, id |-> c, proxy |-> o]
      /\ UNCHANGED <<patient, server, rows, requests, presses>>
      /\ heap' = Collected(h)
  BY DEF ShowEdit
<1>2. Fresh \in Objects /\ Fresh \notin Used
  BY Room
<1>3. /\ o \in Objects /\ h[o] \in ProxyObjects /\ h[o].of = c
      /\ \A u \in Used : h[u] = heap[u]
  <2>1. CASE rows[c] = Nil
    <3>1. h = [heap EXCEPT ![Fresh] = [type |-> "DIRECT", of |-> c]] /\ o = Fresh
      BY <2>1
    <3>2. heap \in [Objects -> ProxyObjects \cup {Nil}]
      BY DialogTyped
    <3> HIDE DEF h, o
    <3> QED
      BY <1>2, <3>1, <3>2 DEF ProxyObjects
  <2>2. CASE rows[c] # Nil
    <3>1. rows[c] \in Objects
      BY <1>0, <1>1, <2>2, DialogTyped
    <3> QED
      BY <1>0, <2>2, <3>1, DialogTyped
  <2> QED
    BY <2>1, <2>2
<1> HIDE DEF o, h
<1>4. /\ \A r \in requests : r.saved \in Objects /\ h[r.saved] = heap[r.saved]
                             /\ h[r.saved] \in ProxyObjects
      /\ \A d \in Connections : rows[d] \in Objects =>
           h[rows[d]] \in ProxyObjects /\ h[rows[d]].of = d
  BY <1>0, <1>3, DialogTyped
<1>5. edit' \in [of : Connections, id : Connections \cup {Undefined}, proxy : Objects \cup {Nil}]
      /\ edit'.proxy # Nil /\ edit'.proxy = o
  BY <1>0, <1>1, <1>3, DialogTyped
<1>6. /\ heap' \in [Objects -> [type : Proxies \cup {"DIRECT"}, of : Connections] \cup {Nil}]
      /\ Held'
      /\ heap'[edit'.proxy] = h[o]
      /\ \A r \in requests : heap'[r.saved] = heap[r.saved]
  BY <1>0, <1>1, <1>3, <1>4, <1>5, OthersKept, DialogTyped
<1>7. ConnectionTypeOK'
  BY <1>1, <1>5, <1>6 DEF DialogInv, ConnectionTypeOK
<1>8. Sent' /\ Awaits' /\ DialogIsOwn'
  BY <1>1, <1>3, <1>5, <1>6 DEF DialogInv, Sent, Awaits, DialogIsOwn
<1> QED
  BY <1>6, <1>7, <1>8 DEF DialogInv

\* The choice changes the type of the object, and whose it is only when it is new.
LEMMA ChooseKeeps ==
  ASSUME DialogConstants, DialogInv, NEW t \in Proxies \cup {"DIRECT"}, Choose(t) PROVE DialogInv'
<1>0. DialogConstants /\ DialogInv
  OBVIOUS
<1> DEFINE o == IF edit.proxy = Nil THEN Fresh ELSE edit.proxy
           new == [type |-> t, of |-> IF edit.proxy = Nil THEN edit.of ELSE heap[o].of]
           h == [heap EXCEPT ![o] = new]
<1>1. /\ open /\ edit' = [edit EXCEPT !.proxy = o]
      /\ UNCHANGED <<patient, server, rows, open, requests, presses>>
      /\ heap' = Collected(h)
  BY DEF Choose
<1>2. Fresh \in Objects /\ Fresh \notin Used
  BY Room
<1>3. edit \in [of : Connections, id : Connections \cup {Undefined}, proxy : Objects \cup {Nil}]
  BY DialogTyped
<1>4. /\ o \in Objects /\ new \in ProxyObjects /\ o # Nil
      /\ edit.proxy = Nil => o \notin Used
      /\ edit.proxy # Nil => new.of = heap[edit.proxy].of /\ o = edit.proxy
      /\ edit.proxy = Nil => new.of = edit.of
  <2>1. edit.proxy # Nil => heap[edit.proxy] \in ProxyObjects
    BY DialogTyped
  <2>2. Nil \notin Objects
    BY DEF DialogConstants
  <2> QED
    BY <1>2, <1>3, <2>1, <2>2 DEF ProxyObjects
<1> HIDE DEF o, new
<1>5. /\ \A u \in Used : u \in Objects => h[u].of = heap[u].of
                                         /\ (heap[u] \in ProxyObjects => h[u] \in ProxyObjects)
      /\ h[o] = new
  <2>1. heap \in [Objects -> ProxyObjects \cup {Nil}]
    BY DialogTyped
  <2> QED
    BY <1>4, <2>1
<1> HIDE DEF h
<1>6. /\ \A r \in requests : r.saved \in Objects /\ h[r.saved].of = heap[r.saved].of
                             /\ h[r.saved] \in ProxyObjects
      /\ \A d \in Connections : rows[d] \in Objects =>
           h[rows[d]] \in ProxyObjects /\ h[rows[d]].of = d
  BY <1>0, <1>5, DialogTyped
<1>7. /\ edit' \in [of : Connections, id : Connections \cup {Undefined}, proxy : Objects \cup {Nil}]
      /\ edit'.proxy # Nil /\ edit'.proxy = o /\ edit'.of = edit.of /\ edit'.id = edit.id
  BY <1>1, <1>3, <1>4
<1>8. /\ heap' \in [Objects -> [type : Proxies \cup {"DIRECT"}, of : Connections] \cup {Nil}]
      /\ Held'
      /\ heap'[edit'.proxy] = new
      /\ \A r \in requests : heap'[r.saved].of = heap[r.saved].of
  BY <1>0, <1>1, <1>4, <1>5, <1>6, <1>7, OthersKept, DialogTyped
<1>9. ConnectionTypeOK'
  BY <1>1, <1>7, <1>8 DEF DialogInv, ConnectionTypeOK
<1>10. Sent' /\ Awaits' /\ DialogIsOwn'
  BY <1>1, <1>4, <1>7, <1>8 DEF DialogInv, Sent, Awaits, DialogIsOwn
<1> QED
  BY <1>8, <1>9, <1>10 DEF DialogInv

\* What is sent is of the connection that is edited, when the user waits.
LEMMA UpdateKeeps ==
  ASSUME DialogConstants, DialogInv, Update PROVE DialogInv'
<1>0. DialogConstants /\ DialogInv
  OBVIOUS
<1> DEFINE direct == heap[edit.proxy].type = "DIRECT"
           sent == [n |-> presses, id |-> edit.id, of |-> heap[edit.proxy].of,
                    saved |-> edit.proxy, sent |-> IF direct THEN Nil ELSE heap[edit.proxy].type]
<1>1. /\ open /\ edit.proxy # Nil /\ presses < MaxPresses
      /\ patient => requests = {}
      /\ presses' = presses + 1
      /\ requests' = requests \cup {sent}
      /\ edit' = [edit EXCEPT !.id = Undefined, !.proxy = IF direct THEN Nil ELSE @]
      /\ UNCHANGED <<patient, server, rows, open>>
      /\ heap' = Collected(heap)
  BY DEF Update
<1>2. /\ edit \in [of : Connections, id : Connections \cup {Undefined}, proxy : Objects \cup {Nil}]
      /\ heap[edit.proxy] \in ProxyObjects
      /\ presses \in 0..MaxPresses /\ MaxPresses \in Nat
      /\ IsFiniteSet(requests) /\ Cardinality(requests) \in Nat
  BY <1>0, <1>1, DialogTyped
<1>3. sent \in [n : 0..(MaxPresses - 1), id : Connections \cup {Undefined},
               of : Connections, saved : Objects, sent : Proxies \cup {Nil}]
  BY <1>1, <1>2 DEF ProxyObjects
<1>4. /\ sent.id = edit.id /\ sent.of = heap[edit.proxy].of /\ sent.saved = edit.proxy
      /\ direct => sent.sent = Nil
  OBVIOUS
<1> HIDE DEF sent
<1>5. /\ edit' \in [of : Connections, id : Connections \cup {Undefined}, proxy : Objects \cup {Nil}]
      /\ edit'.of = edit.of /\ edit'.id = Undefined
      /\ edit'.proxy # Nil => edit'.proxy = edit.proxy
      /\ edit'.proxy = Nil => direct
  BY <1>1, <1>2
<1> HIDE DEF direct
<1>6. \A r \in requests' : r.saved \in Objects /\ heap[r.saved] \in ProxyObjects
  BY <1>0, <1>1, <1>2, <1>3, <1>4, DialogTyped
<1>7. \A d \in Connections : rows[d] \in Objects =>
        heap[rows[d]] \in ProxyObjects /\ heap[rows[d]].of = d
  BY <1>0, DialogTyped
<1>8. /\ heap' \in [Objects -> [type : Proxies \cup {"DIRECT"}, of : Connections] \cup {Nil}]
      /\ Held'
      /\ edit'.proxy # Nil => heap'[edit'.proxy] = heap[edit.proxy]
      /\ \A r \in requests' : heap'[r.saved] = heap[r.saved]
  BY <1>0, <1>1, <1>2, <1>5, <1>6, <1>7, OthersKept, DialogTyped
<1>9. presses' \in 0..MaxPresses
  BY <1>1, <1>2
<1>10. ConnectionTypeOK'
  BY <1>1, <1>3, <1>5, <1>8, <1>9 DEF DialogInv, ConnectionTypeOK
<1>11. Sent'
  <2>1. /\ IsFiniteSet(requests')
        /\ Cardinality(requests') \in {Cardinality(requests), Cardinality(requests) + 1}
    BY <1>1, <1>2, FS_AddElement
  <2> QED
    BY <1>1, <1>2, <2>1 DEF DialogInv, Sent
<1>12. patient => edit.id \in {edit.of, Undefined} /\ heap[edit.proxy].of = edit.of
  BY <1>1 DEF DialogInv, Awaits, DialogIsOwn
<1>13. Awaits'
  <2>1. patient' => requests' = {sent}
    BY <1>1
  <2> QED
    BY <1>1, <1>4, <1>5, <1>8, <1>12, <2>1 DEF Awaits
<1>14. DialogIsOwn'
  <2>1. edit'.proxy = Nil => \E r \in requests' : r.sent = Nil
    BY <1>1, <1>4, <1>5
  <2>2. patient' => requests' = {sent}
    BY <1>1
  <2> QED
    BY <1>1, <1>4, <1>5, <1>8, <1>12, <2>1, <2>2 DEF DialogIsOwn
<1> QED
  BY <1>8, <1>10, <1>11, <1>13, <1>14 DEF DialogInv

\* A dialog that is cancelled has no answer to wait for, when the user waits.
LEMMA CancelKeeps ==
  ASSUME DialogConstants, DialogInv, Cancel PROVE DialogInv'
<1>1. /\ open' = FALSE /\ (patient => requests = {})
      /\ UNCHANGED <<patient, server, rows, heap, edit, requests, presses>>
  BY DEF Cancel
<1>2. ConnectionTypeOK'
  BY <1>1 DEF DialogInv, ConnectionTypeOK
<1>3. Used' = Used
  BY <1>1 DEF Used
<1>4. Held' /\ Sent'
  BY <1>1, <1>3 DEF DialogInv, Held, Sent
<1>5. Awaits' /\ DialogIsOwn'
  BY <1>1 DEF DialogInv, Awaits, DialogIsOwn
<1> QED
  BY <1>2, <1>4, <1>5 DEF DialogInv

\* An answer takes its request away: what is left of them.
LEMMA OneLess ==
  ASSUME DialogConstants, DialogInv, NEW r \in requests, requests' = requests \ {r}, presses' = presses
  PROVE  Sent' /\ presses' \in 0..MaxPresses
<1>1. presses \in 0..MaxPresses /\ MaxPresses \in Nat
  BY DialogTyped
<1>2. IsFiniteSet(requests) /\ Cardinality(requests) \in Nat /\ Cardinality(requests) <= presses
  BY DialogTyped DEF DialogInv, Sent
<1>3. IsFiniteSet(requests') /\ Cardinality(requests') = Cardinality(requests) - 1
  BY <1>2, FS_RemoveElement
<1> QED
  BY <1>1, <1>2, <1>3 DEF Sent

\* An OK closes the dialog: nothing has to be its own any more.
LEMMA AcceptedKeeps ==
  ASSUME DialogConstants, DialogInv, NEW r \in requests, Accepted(r) PROVE DialogInv'
<1>0. DialogConstants /\ DialogInv
  OBVIOUS
<1>1. /\ requests' = requests \ {r} /\ server' = Served(r)
      /\ rows' = [c \in Connections |-> Undefined]
      /\ open' = FALSE
      /\ UNCHANGED <<patient, edit, presses>>
      /\ heap' = Collected(heap)
  BY DEF Accepted
<1>2. Sent' /\ presses' \in 0..MaxPresses
  BY <1>0, <1>1, OneLess
<1>3. rows' \in [Connections -> Objects \cup {Nil, Undefined}]
      /\ \A c \in Connections : rows'[c] \notin Objects
  BY <1>0, <1>1, DialogTyped
<1>4. server' \in [Connections -> Proxies \cup {Nil}]
  <2>1. r.id \in Connections \cup {Undefined} /\ r.sent \in Proxies \cup {Nil}
    BY <1>0, DialogTyped
  <2> QED
    BY <1>1, <2>1 DEF Served, DialogInv, ConnectionTypeOK
<1>5. /\ \A q \in requests' : q.saved \in Objects /\ heap[q.saved] \in ProxyObjects
      /\ edit'.proxy # Nil => heap[edit'.proxy] \in ProxyObjects
      /\ edit' \in [of : Connections, id : Connections \cup {Undefined}, proxy : Objects \cup {Nil}]
  BY <1>0, <1>1, DialogTyped
<1>6. /\ heap' \in [Objects -> [type : Proxies \cup {"DIRECT"}, of : Connections] \cup {Nil}]
      /\ Held'
      /\ edit.proxy # Nil => heap'[edit.proxy] = heap[edit.proxy]
  BY <1>0, <1>1, <1>3, <1>5, OthersKept, DialogTyped
<1>7. ConnectionTypeOK'
  BY <1>1, <1>2, <1>3, <1>4, <1>5, <1>6 DEF DialogInv, ConnectionTypeOK
<1>8. patient' => requests' = {}
  <2>1. patient => \A q \in requests : q = r
    BY DEF DialogInv, Awaits
  <2> QED
    BY <1>1, <2>1
<1>9. Awaits' /\ DialogIsOwn'
  BY <1>1, <1>6, <1>8 DEF DialogInv, Awaits, DialogIsOwn
<1> QED
  BY <1>2, <1>6, <1>7, <1>9 DEF DialogInv

\* A refusal puts the proxy back, into what a patient user still edits.
LEMMA RefusedKeeps ==
  ASSUME DialogConstants, DialogInv, NEW r \in requests, Refused(r) PROVE DialogInv'
<1>0. DialogConstants /\ DialogInv
  OBVIOUS
<1>1. /\ requests' = requests \ {r} /\ server' \in {server, Served(r)}
      /\ edit' = [edit EXCEPT !.proxy = r.saved]
      /\ UNCHANGED <<patient, rows, open, presses>>
      /\ heap' = Collected(heap)
  BY DEF Refused
<1>2. Sent' /\ presses' \in 0..MaxPresses
  BY <1>0, <1>1, OneLess
<1>3. /\ r.id \in Connections \cup {Undefined} /\ r.sent \in Proxies \cup {Nil}
      /\ r.saved \in Objects /\ heap[r.saved] \in ProxyObjects /\ r.saved # Nil
  BY <1>0, DialogTyped
<1>4. server' \in [Connections -> Proxies \cup {Nil}]
  BY <1>1, <1>3 DEF Served, DialogInv, ConnectionTypeOK
<1>5. /\ edit' \in [of : Connections, id : Connections \cup {Undefined}, proxy : Objects \cup {Nil}]
      /\ edit'.proxy = r.saved /\ edit'.of = edit.of /\ edit'.id = edit.id
  BY <1>0, <1>1, <1>3, DialogTyped
<1>6. /\ \A q \in requests' : q.saved \in Objects /\ heap[q.saved] \in ProxyObjects
      /\ \A c \in Connections : rows[c] \in Objects =>
           heap[rows[c]] \in ProxyObjects /\ heap[rows[c]].of = c
      /\ rows \in [Connections -> Objects \cup {Nil, Undefined}]
  BY <1>0, <1>1, DialogTyped
<1>7. /\ heap' \in [Objects -> [type : Proxies \cup {"DIRECT"}, of : Connections] \cup {Nil}]
      /\ Held'
      /\ heap'[edit'.proxy] = heap[r.saved]
  BY <1>0, <1>1, <1>3, <1>5, <1>6, OthersKept, DialogTyped
<1>8. ConnectionTypeOK'
  BY <1>1, <1>2, <1>4, <1>5, <1>7 DEF DialogInv, ConnectionTypeOK
<1>9. patient => requests' = {} /\ heap[r.saved].of = edit.of
  <2>1. patient => /\ \A q \in requests : q = r
                   /\ heap[r.saved].of = edit.of
    BY DEF DialogInv, Awaits
  <2> QED
    BY <1>1, <2>1
<1>10. Awaits' /\ DialogIsOwn'
  BY <1>1, <1>3, <1>5, <1>7, <1>9 DEF DialogInv, Awaits, DialogIsOwn
<1> QED
  BY <1>2, <1>7, <1>8, <1>10 DEF DialogInv

\* The dialog has the proxy of its own connection and sends it for no other, as long as
\* the user waits for each answer (config.js, ConfigConnectionCtrl); and whatever he
\* does, an open dialog without a proxy waits for an answer that puts it back.
THEOREM ConnectionDialogIsOwn ==
  ASSUME DialogConstants
  PROVE  ConnectionInit /\ [][ConnectionNext]_connectionVars => []DialogIsOwn
<1>1. ConnectionInit => DialogInv
  BY DialogStarts
<1>2. DialogInv /\ [ConnectionNext]_connectionVars => DialogInv'
  <2> SUFFICES ASSUME DialogInv, [ConnectionNext]_connectionVars PROVE DialogInv'
    OBVIOUS
  <2>1. CASE Read
    BY <2>1, ReadKeeps
  <2>2. CASE Update
    BY <2>2, UpdateKeeps
  <2>3. CASE Cancel
    BY <2>3, CancelKeeps
  <2>4. ASSUME NEW c \in Connections, ShowEdit(c) PROVE DialogInv'
    BY <2>4, ShowEditKeeps
  <2>5. ASSUME NEW t \in Proxies \cup {"DIRECT"}, Choose(t) PROVE DialogInv'
    BY <2>5, ChooseKeeps
  <2>6. ASSUME NEW r \in requests, Accepted(r) \/ Refused(r) PROVE DialogInv'
    BY <2>6, AcceptedKeeps, RefusedKeeps
  <2>7. CASE UNCHANGED connectionVars
    BY <2>7 DEF connectionVars, DialogInv, ConnectionTypeOK, Held, Used, Sent, Awaits, DialogIsOwn
  <2> QED
    BY <2>1, <2>2, <2>3, <2>4, <2>5, <2>6, <2>7 DEF ConnectionNext
<1>3. DialogInv => DialogIsOwn
  BY DEF DialogInv
<1> QED
  BY <1>1, <1>2, <1>3, PTL

-----------------------------------------------------------------------------
(* Creation of services *)

Creations == [service : Services, left : Seq(Services)]

\* The services on p are marked and different, and what one of them asks for is left to
\* ask for, is there, or is being created for it; the first also waits for those in `also'.
Waits(p, also) ==
  /\ p \in Seq(Creations)
  /\ \A i, j \in 1..Len(p) : p[i].service = p[j].service => i = j
  /\ \A i \in 1..Len(p) : instanceCache[p[i].service] = "instantiating"
  /\ \A i \in 1..Len(p) : \A x \in asks[p[i].service] :
       \/ x \in ToSet(p[i].left) \/ instanceCache[x] = "instance"
       \/ i > 1 /\ x = p[i - 1].service
       \/ i = 1 /\ x \in also

\* The inductive invariant.
ServiceInv == InjectorTypeOK /\ Waits(path, {}) /\ OneInstance

\* What was created needs only what was created before it, and so not itself.
LEMMA InvHasNoCircle ==
  ASSUME ServiceInv PROVE ServicesAreCreatedOnce
<1>1. /\ asks \in [Services -> SUBSET Services] /\ created \in Seq(Services)
      /\ Len(created) \in Nat /\ DOMAIN created = 1..Len(created)
  BY DEF ServiceInv, InjectorTypeOK
<1>2. path \in Seq(Creations) /\ DOMAIN path = 1..Len(path)
  BY DEF ServiceInv, Waits
<1>3. PathIsDistinct
  BY <1>2 DEF ServiceInv, Waits, PathIsDistinct
<1>4. ASSUME NEW s \in Services, instanceCache[s] = "instance" PROVE s \notin Requirements(s)
  <2>1. s \in ToSet(created)
    BY <1>4 DEF ServiceInv, OneInstance
  <2>2. PICK n \in 1..Len(created) : created[n] = s
    BY <1>1, <2>1 DEF ToSet
  <2> DEFINE C == {x \in Services : \E j \in 1..(n - 1) : created[j] = x}
  <2>3. \A i \in 1..Len(created) : \A x \in asks[created[i]] : \E j \in 1..(i - 1) : created[j] = x
    BY <1>1 DEF ServiceInv, OneInstance
  <2>4. \A i \in 1..n : asks[created[i]] \subseteq C
    <3>1. SUFFICES ASSUME NEW i \in 1..n, NEW x \in asks[created[i]] PROVE x \in C
      OBVIOUS
    <3>2. i \in 1..Len(created) /\ created[i] \in Services
      BY <1>1, <2>2
    <3>3. PICK j \in 1..(i - 1) : created[j] = x
      BY <2>3, <3>1, <3>2
    <3>4. j \in 1..(n - 1) /\ x \in Services
      BY <1>1, <2>2, <3>1, <3>2, <3>3
    <3> QED
      BY <3>3, <3>4
  <2>5. asks[s] \subseteq C
    BY <2>2, <2>4, <1>1
  <2>6. \A y \in C : asks[y] \subseteq C
    <3>1. SUFFICES ASSUME NEW y \in C PROVE asks[y] \subseteq C
      OBVIOUS
    <3>2. PICK j \in 1..(n - 1) : created[j] = y
      BY <3>1
    <3>3. j \in 1..n
      BY <2>2, <1>1, <3>2
    <3> QED
      BY <2>4, <3>2, <3>3
  <2>7. s \notin C
    <3>1. SUFFICES ASSUME NEW j \in 1..(n - 1), created[j] = s PROVE FALSE
      OBVIOUS
    <3>2. j \in DOMAIN created /\ n \in DOMAIN created /\ j # n
      BY <1>1, <2>2
    <3> QED
      BY <2>2, <3>1, <3>2 DEF ServiceInv, OneInstance, IsInjective
  <2> QED
    BY <2>5, <2>6, <2>7 DEF Requirements
<1> QED
  BY <1>3, <1>4 DEF ServicesAreCreatedOnce, NoCircleIsCreated, ServiceInv

\* Asking for s keeps the path: s is there, a circle or missing and the path ends, or is new.
LEMMA AskingKeeps ==
  ASSUME IsFiniteSet(Services), InjectorTypeOK, NEW s \in Services, NEW w, Waits(w, {s}),
         GetService(s, w), asks' = asks
  PROVE  /\ Waits(path, {})' /\ instanceCache' \in [Services -> {"none", "instantiating", "instance"}]
         /\ \A x \in Services : instanceCache'[x] = "instance" <=> instanceCache[x] = "instance"
<1>0. /\ asks \in [Services -> SUBSET Services]
      /\ instanceCache \in [Services -> {"none", "instantiating", "instance"}]
  BY DEF InjectorTypeOK
<1>w. /\ w \in Seq(Creations) /\ Len(w) \in Nat
      /\ \A i \in 1..Len(w) : w[i] \in Creations /\ w[i].service \in Services
  <2>1. w \in Seq(Creations)
    BY DEF Waits
  <2>2. Len(w) \in Nat /\ \A i \in 1..Len(w) : w[i] \in Creations
    BY <2>1
  <2> QED
    BY <2>1, <2>2 DEF Creations
<1>e. CASE path' = << >>
  <2>1. Waits(path, {})'
    BY <1>e DEF Waits
  <2>2. instanceCache' = instanceCache \/ (instanceCache' = MarkService(s) /\ instanceCache[s] # "instance")
    <3>1. CASE instanceCache[s] = "instance"
      BY <3>1 DEF GetService
    <3>2. CASE instanceCache[s] = "instantiating"
      BY <3>2 DEF GetService
    <3>3. CASE instanceCache[s] = "none"
      BY <3>3 DEF GetService
    <3> QED
      BY <1>0, <3>1, <3>2, <3>3
  <2> QED
    BY <1>0, <2>1, <2>2 DEF MarkService
<1>1. CASE instanceCache[s] = "instance"
  <2>1. path' = w /\ instanceCache' = instanceCache
    BY <1>1 DEF GetService
  <2>2. Waits(w, {})
    BY <1>1 DEF Waits
  <2> QED
    BY <1>0, <2>1, <2>2 DEF Waits
<1>2. CASE instanceCache[s] = "instantiating"
  BY <1>2, <1>e DEF GetService, Throw
<1>3. CASE instanceCache[s] = "none" /\ s \notin provided
  BY <1>3, <1>e DEF GetService, Throw
<1>4. CASE instanceCache[s] = "none" /\ s \in provided
  <2> DEFINE new == [service |-> s, left |-> SetToSeq(asks[s])]
  <2>1. instanceCache' = MarkService(s) /\ path' = <<new>> \o w
    BY <1>4 DEF GetService
  <2>2. SetToSeq(asks[s]) \in Seq(asks[s]) /\ ToSet(SetToSeq(asks[s])) = asks[s]
    <3>1. asks[s] \in SUBSET Services
      BY <1>0
    <3>2. IsFiniteSet(asks[s])
      BY <3>1, FS_Subset
    <3> QED
      BY <3>2, AsSequence
  <2>3. new \in Creations /\ new.service = s /\ ToSet(new.left) = asks[s]
    <3>1. SetToSeq(asks[s]) \in Seq(Services)
      BY <1>0, <2>2, SeqMonotonic
    <3> QED
      BY <2>2, <3>1 DEF Creations
  <2> HIDE DEF new
  <2>4. /\ path' \in Seq(Creations) /\ Len(path') = Len(w) + 1
        /\ path'[1] = new /\ \A i \in 2..(Len(w) + 1) : path'[i] = w[i - 1]
    BY <1>w, <2>1, <2>3, InFront
  <2>5. /\ instanceCache' \in [Services -> {"none", "instantiating", "instance"}]
        /\ instanceCache'[s] = "instantiating" /\ \A x \in Services \ {s} : instanceCache'[x] = instanceCache[x]
    BY <1>0, <2>1 DEF MarkService
  <2>6. \A i \in 1..Len(w) : w[i].service # s
    BY <1>4 DEF Waits
  <2>7. ASSUME NEW i \in 1..Len(path') PROVE i = 1 \/ (i - 1 \in 1..Len(w) /\ path'[i] = w[i - 1])
    <3>1. i \in 1..(Len(w) + 1) /\ Len(w) \in Nat
      BY <1>w, <2>4, <2>7
    <3>2. i # 1 => i \in 2..(Len(w) + 1) /\ i - 1 \in 1..Len(w)
      BY <3>1
    <3> QED
      BY <2>4, <3>2
  <2>8. \A i, j \in 1..Len(path') : path'[i].service = path'[j].service => i = j
    <3>1. SUFFICES ASSUME NEW i \in 1..Len(path'), NEW j \in 1..Len(path'),
                          path'[i].service = path'[j].service PROVE i = j
      OBVIOUS
    <3>2. CASE i = 1 \/ j = 1
      BY <2>3, <2>4, <2>6, <2>7, <3>1, <3>2
    <3>3. CASE i # 1 /\ j # 1
      <4>1. i - 1 = j - 1
        BY <2>7, <3>1, <3>3 DEF Waits
      <4> QED
        BY <2>4, <1>w, <4>1
    <3> QED
      BY <3>2, <3>3
  <2>9. \A i \in 1..Len(path') : instanceCache'[path'[i].service] = "instantiating"
    <3>1. SUFFICES ASSUME NEW i \in 1..Len(path'), i # 1
                   PROVE  instanceCache'[path'[i].service] = "instantiating"
      BY <2>3, <2>4, <2>5
    <3>2. i - 1 \in 1..Len(w) /\ path'[i] = w[i - 1]
      BY <2>7, <3>1
    <3> QED
      BY <1>w, <2>5, <2>6, <3>2 DEF Waits
  <2>10. ASSUME NEW i \in 1..Len(path'), NEW x \in asks[path'[i].service]
         PROVE  \/ x \in ToSet(path'[i].left) \/ instanceCache'[x] = "instance"
                \/ i > 1 /\ x = path'[i - 1].service
    <3>1. CASE i = 1
      BY <2>3, <2>4, <2>10, <3>1
    <3>2. CASE i # 1
      <4> DEFINE j == i - 1
      <4>1. j \in 1..Len(w) /\ path'[i] = w[j] /\ i > 1
        BY <2>7, <2>4, <1>w, <3>2
      <4>2. \/ x \in ToSet(w[j].left) \/ instanceCache[x] = "instance"
            \/ j > 1 /\ x = w[j - 1].service
            \/ j = 1 /\ x = s
        BY <2>10, <4>1 DEF Waits
      <4>3. j > 1 => path'[j] = w[j - 1]
        <5>1. j > 1 => j \in 2..(Len(w) + 1)
          BY <1>w, <4>1
        <5> QED
          BY <5>1, <2>4
      <4>4. x \in Services
        BY <1>0, <1>w, <2>10, <4>1
      <4>5. instanceCache[x] = "instance" => instanceCache'[x] = "instance"
        BY <1>4, <2>5, <4>4
      <4>6. j = 1 => path'[j].service = s
        BY <2>3, <2>4
      <4> QED
        BY <4>1, <4>2, <4>3, <4>5, <4>6
    <3> QED
      BY <3>1, <3>2
  <2>11. Waits(path, {})'
    <3>1. asks' = asks
      OBVIOUS
    <3> QED
      BY <2>4, <2>8, <2>9, <2>10, <3>1 DEF Waits
  <2> QED
    BY <1>4, <2>5, <2>11
<1> QED
  BY <1>0, <1>1, <1>2, <1>3, <1>4

\* What was created stays so when a step creates nothing.
LEMMA SameCreated ==
  ASSUME InjectorTypeOK, OneInstance, UNCHANGED <<asks, created>>,
         \A x \in Services : instanceCache'[x] = "instance" <=> instanceCache[x] = "instance"
  PROVE  OneInstance'
<1>1. {x \in Services : instanceCache'[x] = "instance"} = {x \in Services : instanceCache[x] = "instance"}
  OBVIOUS
<1> QED
  BY <1>1 DEF OneInstance, IsInjective, ToSet

\* The page asks, and nothing waits for what it asked for.
LEMMA PageGetsKeeps ==
  ASSUME IsFiniteSet(Services), ServiceInv, NEW s \in Services, PageGets(s) PROVE ServiceInv'
<1>1. /\ InjectorTypeOK /\ OneInstance /\ IsFiniteSet(Services)
      /\ UNCHANGED <<asks, provided, created>> /\ GetService(s, << >>)
  BY DEF ServiceInv, PageGets
<1>2. Waits(<< >>, {s})
  BY DEF Waits
<1>3. /\ Waits(path, {})' /\ instanceCache' \in [Services -> {"none", "instantiating", "instance"}]
      /\ \A x \in Services : instanceCache'[x] = "instance" <=> instanceCache[x] = "instance"
  BY <1>1, <1>2, AskingKeeps
<1>4. path' \in Seq(Creations)
  BY <1>3 DEF Waits
<1>5. InjectorTypeOK'
  BY <1>1, <1>3, <1>4 DEF InjectorTypeOK, Creations
<1> QED
  BY <1>1, <1>3, <1>5, SameCreated DEF ServiceInv

\* A factory asks for the first of what is left, and waits for it.
LEMMA FactoryAsksKeeps ==
  ASSUME IsFiniteSet(Services), ServiceInv, FactoryAsks PROVE ServiceInv'
<1> DEFINE s == Head(path[1].left)
           front == [path[1] EXCEPT !.left = Tail(@)]
           w == <<front>> \o Tail(path)
<1>1. /\ InjectorTypeOK /\ OneInstance /\ IsFiniteSet(Services)
      /\ path # << >> /\ path[1].left # << >>
      /\ UNCHANGED <<asks, provided, created>> /\ GetService(s, w)
  BY DEF ServiceInv, FactoryAsks
<1>2. /\ path \in Seq(Creations) /\ Waits(path, {})
      /\ asks \in [Services -> SUBSET Services]
  BY DEF ServiceInv, Waits, InjectorTypeOK
<1>3. /\ path[1] \in Creations /\ Len(path) \in Nat /\ Len(path) > 0
      /\ Tail(path) \in Seq(Creations) /\ Len(Tail(path)) = Len(path) - 1
      /\ \A i \in 1..(Len(path) - 1) : Tail(path)[i] = path[i + 1]
  BY <1>1, <1>2, Behind
<1>4. /\ s \in Services /\ front \in Creations /\ front.service = path[1].service
      /\ ToSet(path[1].left) = {s} \cup ToSet(front.left)
  <2>1. path[1].left \in Seq(Services) /\ path[1].service \in Services
    BY <1>3 DEF Creations
  <2>2. /\ s \in Services /\ Tail(path[1].left) \in Seq(Services)
        /\ ToSet(path[1].left) = {s} \cup ToSet(Tail(path[1].left))
    BY <1>1, <2>1, Behind
  <2> QED
    BY <1>3, <2>1, <2>2 DEF Creations
<1> HIDE DEF s, front
<1>5. /\ w \in Seq(Creations) /\ Len(w) = Len(path) /\ w[1] = front
      /\ \A i \in 2..Len(path) : w[i] = path[i]
  <2>1. /\ w \in Seq(Creations) /\ Len(w) = Len(Tail(path)) + 1 /\ w[1] = front
        /\ \A i \in 2..(Len(Tail(path)) + 1) : w[i] = Tail(path)[i - 1]
    BY <1>3, <1>4, InFront
  <2>2. \A i \in 2..Len(path) : i - 1 \in 1..(Len(path) - 1) /\ (i - 1) + 1 = i
    BY <1>3
  <2> QED
    BY <1>3, <2>1, <2>2
<1> HIDE DEF w
<1>6. \A i \in 1..Len(path) : /\ w[i].service = path[i].service
                             /\ (i = 1 \/ w[i] = path[i])
  <2>1. \A i \in 1..Len(path) : i = 1 \/ i \in 2..Len(path)
    BY <1>3
  <2> QED
    BY <1>4, <1>5, <2>1
<1>7. Waits(w, {s})
  <2>1. /\ \A i, j \in 1..Len(w) : w[i].service = w[j].service => i = j
        /\ \A i \in 1..Len(w) : instanceCache[w[i].service] = "instantiating"
    BY <1>2, <1>5, <1>6 DEF Waits
  <2>2. ASSUME NEW i \in 1..Len(w), NEW x \in asks[w[i].service]
        PROVE  \/ x \in ToSet(w[i].left) \/ instanceCache[x] = "instance"
               \/ i > 1 /\ x = w[i - 1].service
               \/ i = 1 /\ x \in {s}
    <3>1. \/ x \in ToSet(path[i].left) \/ instanceCache[x] = "instance"
          \/ i > 1 /\ x = path[i - 1].service
      BY <1>2, <1>5, <1>6, <2>2 DEF Waits
    <3>2. i > 1 => i - 1 \in 1..Len(path)
      BY <1>3, <1>5, <2>2
    <3>3. i = 1 => path[i].left = path[1].left /\ w[i].left = front.left
      BY <1>5
    <3> QED
      BY <1>4, <1>5, <1>6, <2>2, <3>1, <3>2, <3>3
  <2> QED
    BY <1>5, <2>1, <2>2 DEF Waits
<1>8. /\ Waits(path, {})' /\ instanceCache' \in [Services -> {"none", "instantiating", "instance"}]
      /\ \A x \in Services : instanceCache'[x] = "instance" <=> instanceCache[x] = "instance"
  BY <1>1, <1>4, <1>7, AskingKeeps
<1>9. path' \in Seq(Creations)
  BY <1>8 DEF Waits
<1>10. InjectorTypeOK'
  BY <1>1, <1>8, <1>9 DEF InjectorTypeOK, Creations
<1> QED
  BY <1>1, <1>8, <1>10, SameCreated DEF ServiceInv

\* A factory that has all that it asked for is the innermost: what it creates comes after it.
LEMMA FactoryReturnsKeeps ==
  ASSUME ServiceInv, FactoryReturns PROVE ServiceInv'
<1> DEFINE s == path[1].service
           n == Len(created)
<1>1. /\ path # << >> /\ path[1].left = << >>
      /\ instanceCache' = [instanceCache EXCEPT ![s] = "instance"]
      /\ created' = Append(created, s)
      /\ path' = Tail(path)
      /\ UNCHANGED <<asks, provided>>
  BY DEF FactoryReturns
<1>2. /\ path \in Seq(Creations) /\ Waits(path, {}) /\ OneInstance
      /\ asks \in [Services -> SUBSET Services] /\ created \in Seq(Services)
      /\ instanceCache \in [Services -> {"none", "instantiating", "instance"}]
  BY DEF ServiceInv, Waits, InjectorTypeOK
<1>3. /\ path[1] \in Creations /\ Len(path) \in Nat /\ Len(path) > 0
      /\ path' \in Seq(Creations) /\ Len(path') = Len(path) - 1
      /\ \A i \in 1..(Len(path) - 1) : path'[i] = path[i + 1]
  BY <1>1, <1>2, Behind
<1>4. s \in Services /\ instanceCache[s] = "instantiating"
  BY <1>2, <1>3 DEF Waits, Creations
<1>5. /\ n \in Nat /\ created' \in Seq(Services) /\ Len(created') = n + 1
      /\ created'[n + 1] = s /\ \A i \in 1..n : created'[i] = created[i] /\ created[i] \in Services
      /\ DOMAIN created = 1..n /\ DOMAIN created' = 1..(n + 1)
  BY <1>1, <1>2, <1>4
<1>6. /\ instanceCache' \in [Services -> {"none", "instantiating", "instance"}]
      /\ instanceCache'[s] = "instance" /\ \A x \in Services \ {s} : instanceCache'[x] = instanceCache[x]
  BY <1>1, <1>2, <1>4
<1>7. \A i \in 1..n : created[i] # s
  BY <1>2, <1>4, <1>5 DEF OneInstance, ToSet
<1>8. \A x \in asks[s] : x \in Services /\ instanceCache[x] = "instance"
  <2>1. ToSet(path[1].left) = {}
    BY <1>1 DEF ToSet
  <2>2. 1 \in 1..Len(path) /\ ~(1 > 1)
    BY <1>3
  <2> QED
    BY <1>2, <1>4, <2>1, <2>2 DEF Waits
<1> HIDE DEF s, n
<1>9. OneInstance'
  <2>1. IsInjective(created')
    <3>1. SUFFICES ASSUME NEW i \in 1..(n + 1), NEW j \in 1..(n + 1), created'[i] = created'[j]
                   PROVE  i = j
      BY <1>5 DEF IsInjective
    <3>2. \A k \in 1..(n + 1) : k = n + 1 \/ k \in 1..n
      BY <1>5
    <3>3. CASE i \in 1..n /\ j \in 1..n
      BY <1>2, <1>5, <3>1, <3>3 DEF OneInstance, IsInjective
    <3> QED
      BY <1>5, <1>7, <3>1, <3>2, <3>3
  <2>2. ToSet(created') = ToSet(created) \cup {s}
    <3>1. ToSet(created') = {created'[i] : i \in 1..(n + 1)} /\ ToSet(created) = {created[i] : i \in 1..n}
      BY <1>5 DEF ToSet
    <3>2. 1..(n + 1) = (1..n) \cup {n + 1}
      BY <1>5
    <3> QED
      BY <1>5, <3>1, <3>2
  <2>3. ToSet(created') = {x \in Services : instanceCache'[x] = "instance"}
    BY <1>2, <1>4, <1>6, <2>2 DEF OneInstance
  <2>4. ASSUME NEW i \in 1..(n + 1), NEW x \in asks[created'[i]]
        PROVE  \E j \in 1..(i - 1) : created'[j] = x
    <3>1. CASE i = n + 1
      <4>1. x \in Services /\ instanceCache[x] = "instance"
        BY <1>5, <1>8, <2>4, <3>1
      <4>2. x \in ToSet(created)
        BY <1>2, <4>1 DEF OneInstance
      <4>3. PICK j \in 1..n : created[j] = x
        BY <1>5, <4>2 DEF ToSet
      <4>4. j \in 1..(i - 1)
        BY <1>5, <3>1, <4>3
      <4> QED
        BY <1>5, <4>3, <4>4
    <3>2. CASE i \in 1..n
      <4>1. PICK j \in 1..(i - 1) : created[j] = x
        BY <1>2, <1>5, <2>4, <3>2 DEF OneInstance
      <4>2. j \in 1..n
        BY <1>5, <3>2, <4>1
      <4> QED
        BY <1>5, <4>1, <4>2
    <3> QED
      BY <1>5, <2>4, <3>1, <3>2
  <2>5. \A i \in DOMAIN created' : \A x \in asks'[created'[i]] : \E j \in 1..(i - 1) : created'[j] = x
    BY <1>1, <1>5, <2>4
  <2> QED
    BY <2>1, <2>3, <2>5 DEF OneInstance
<1>10. \A i \in 1..Len(path') : /\ i + 1 \in 1..Len(path) /\ path'[i] = path[i + 1]
                               /\ path'[i].service \in Services /\ path'[i].service # s
  <2>1. \A i \in 1..Len(path') : i + 1 \in 1..Len(path) /\ path'[i] = path[i + 1] /\ i + 1 # 1
    BY <1>3
  <2>2. \A i \in 1..Len(path') : path'[i].service \in Services
    <3>1. \A i \in 1..Len(path') : path'[i] \in Creations
      BY <1>3
    <3> QED
      BY <3>1 DEF Creations
  <2>3. 1 \in 1..Len(path)
    BY <1>3
  <2> QED
    BY <1>2, <2>1, <2>2, <2>3 DEF Waits, s
<1>11. Waits(path, {})'
  <2>1. ASSUME NEW i \in 1..Len(path'), NEW j \in 1..Len(path'), path'[i].service = path'[j].service
        PROVE  i = j
    <3>1. i + 1 = j + 1
      BY <1>2, <1>10, <2>1 DEF Waits
    <3> QED
      BY <1>3, <3>1
  <2>2. \A i \in 1..Len(path') : instanceCache'[path'[i].service] = "instantiating"
    BY <1>2, <1>6, <1>10 DEF Waits
  <2>3. ASSUME NEW i \in 1..Len(path'), NEW x \in asks[path'[i].service]
        PROVE  \/ x \in ToSet(path'[i].left) \/ instanceCache'[x] = "instance"
               \/ i > 1 /\ x = path'[i - 1].service
    <3>1. \/ x \in ToSet(path[i + 1].left) \/ instanceCache[x] = "instance"
          \/ x = path[(i + 1) - 1].service
      BY <1>2, <1>3, <1>10, <2>3 DEF Waits
    <3>2. (i + 1) - 1 = i /\ (i = 1 \/ (i > 1 /\ i - 1 \in 1..Len(path')))
      BY <1>3, <2>3
    <3>3. i > 1 => path'[i - 1] = path[i]
      <4>1. i > 1 => path'[i - 1] = path[(i - 1) + 1] /\ (i - 1) + 1 = i
        BY <1>3, <1>10, <3>2
      <4> QED
        BY <4>1
    <3>4. x \in Services
      BY <1>2, <1>10, <2>3
    <3>5. instanceCache[x] = "instance" \/ x = s => instanceCache'[x] = "instance"
      BY <1>6, <3>4
    <3> QED
      BY <1>10, <3>1, <3>2, <3>3, <3>5 DEF s
  <2> QED
    BY <1>1, <1>3, <2>1, <2>2, <2>3 DEF Waits
<1>12. InjectorTypeOK'
  BY <1>1, <1>3, <1>5, <1>6 DEF ServiceInv, InjectorTypeOK, Creations
<1> QED
  BY <1>9, <1>11, <1>12 DEF ServiceInv

\* Whoever is asked for in whatever order, and whichever factories throw: a service is
\* created once, after what it asks for, and none that needs itself (createInjector's
\* getService).
THEOREM InjectorCreatesOnce ==
  ASSUME IsFiniteSet(Services)
  PROVE  /\ asks \in [Services -> SUBSET Services] /\ provided \subseteq Services
         /\ InjectorInit /\ [][InjectorNext]_injectorVars
         => []ServicesAreCreatedOnce
<1>1. /\ asks \in [Services -> SUBSET Services] /\ provided \subseteq Services /\ InjectorInit
      => ServiceInv
  <2> SUFFICES ASSUME asks \in [Services -> SUBSET Services], provided \subseteq Services,
                      InjectorInit
               PROVE  ServiceInv
    OBVIOUS
  <2>1. InjectorTypeOK
    BY DEF InjectorInit, InjectorTypeOK
  <2>2. Waits(path, {})
    BY DEF InjectorInit, Waits
  <2>3. OneInstance
    BY DEF InjectorInit, OneInstance, IsInjective, ToSet
  <2> QED
    BY <2>1, <2>2, <2>3 DEF ServiceInv
<1>2. ServiceInv /\ [InjectorNext]_injectorVars => ServiceInv'
  <2> SUFFICES ASSUME ServiceInv, [InjectorNext]_injectorVars PROVE ServiceInv'
    OBVIOUS
  <2>1. ASSUME NEW s \in Services, PageGets(s) PROVE ServiceInv'
    BY <2>1, PageGetsKeeps
  <2>2. CASE FactoryAsks
    BY <2>2, FactoryAsksKeeps
  <2>3. CASE FactoryReturns
    BY <2>3, FactoryReturnsKeeps
  <2>4. CASE FactoryThrows
    <3>1. path' = << >> /\ UNCHANGED <<asks, provided, instanceCache, created>>
      BY <2>4 DEF FactoryThrows, Throw
    <3>2. Waits(path, {})'
      BY <3>1 DEF Waits
    <3>3. InjectorTypeOK'
      BY <3>1 DEF ServiceInv, InjectorTypeOK
    <3> QED
      BY <3>1, <3>2, <3>3 DEF ServiceInv, OneInstance
  <2>5. CASE UNCHANGED injectorVars
    <3>1. path' = path /\ instanceCache' = instanceCache /\ asks' = asks /\ created' = created /\ provided' = provided
      BY <2>5 DEF injectorVars
    <3>2. InjectorTypeOK' /\ OneInstance'
      BY <3>1 DEF ServiceInv, InjectorTypeOK, OneInstance
    <3>3. Waits(path, {})'
      BY <3>1 DEF ServiceInv, Waits
    <3> QED
      BY <3>2, <3>3 DEF ServiceInv
  <2> QED
    BY <2>1, <2>2, <2>3, <2>4, <2>5 DEF InjectorNext
<1>3. ServiceInv => ServicesAreCreatedOnce
  BY InvHasNoCircle
<1> QED
  BY <1>1, <1>2, <1>3, PTL

-----------------------------------------------------------------------------
(* Loading of modules *)

LoadCalls == [left : Seq(Modules), blocks : Seq(Modules), for : SUBSET Modules]

\* What the page needs: its own module and what that needs.
Wanted == {App} \cup Needs(App)

\* The blocks of the calls are pieces of what was configured, the last call's behind.
CutAt(b) ==
  /\ b \in [0..Len(calls) -> 0..Len(configured)]
  /\ b[0] = Len(configured) /\ b[Len(calls)] = 0
  /\ \A i \in 1..Len(calls) :
       b[i] <= b[i - 1] /\ calls[i].blocks = SubSeq(configured, b[i] + 1, b[i - 1])
Pieces == \E b : CutAt(b)

\* Each call but that of the page is for one module, that those of the earlier calls
\* need, and that is not configured.
CallsNest ==
  /\ calls[Len(calls)].for = {}
  /\ \A i \in 1..(Len(calls) - 1) : \E m \in Modules : calls[i].for = {m}
  /\ \A i, j \in 1..Len(calls) : \A m \in calls[i].for, k \in calls[j].for :
       i < j => m \in Needs(k) /\ m # k
  /\ \A i \in 1..Len(calls) : \A m \in calls[i].for : m \notin ToSet(configured)

\* A module is loaded when it is configured or a call is for it.
LoadedOnce ==
  \A m \in Modules : m \in loadedModules <=>
    m \in ToSet(configured) \/ \E i \in 1..Len(calls) : m \in calls[i].for

\* What a module requires is loaded, or left for the call that is for the module; and
\* nothing else is loaded.
NothingLeftOut ==
  /\ \A i \in 1..Len(calls) : \A m \in calls[i].for :
       /\ requires[m] \subseteq ToSet(calls[i].left) \cup loadedModules
       /\ ToSet(calls[i].left) \subseteq requires[m]
  /\ \A m \in ToSet(configured) : requires[m] \subseteq loadedModules
  /\ App \in ToSet(calls[Len(calls)].left) \cup loadedModules
  /\ \A i \in 1..Len(calls) : ToSet(calls[i].left) \subseteq Wanted
  /\ loadedModules \subseteq Wanted

\* What runs is what was configured, when all was.
RunsThen ==
  \/ run = << >> /\ loading \in {"loading", "failed"}
  \/ /\ loading \in {"running", "done", "failed"}
     /\ ToSet(configured) = Wanted
     /\ run \o calls[1].blocks = configured
     /\ loading = "done" => calls[1].blocks = << >>

\* The inductive invariant.
LoaderInv ==
  /\ LoaderTypeOK /\ Len(calls) > 0
  /\ ConfiguredInOrder /\ RunsThen
  /\ loading = "loading" => Pieces /\ CallsNest /\ LoadedOnce /\ NothingLeftOut

\* The types, for the steps below.
LEMMA LoaderTyped ==
  ASSUME LoaderInv
  PROVE  /\ requires \in [Modules -> SUBSET Modules]
         /\ calls \in Seq(LoadCalls) /\ calls # << >> /\ Len(calls) \in Nat /\ Len(calls) > 0
         /\ \A i \in 1..Len(calls) :
              /\ calls[i] \in LoadCalls /\ calls[i].for \subseteq Modules
              /\ calls[i].left \in Seq(Modules) /\ calls[i].blocks \in Seq(Modules)
         /\ configured \in Seq(Modules) /\ Len(configured) \in Nat
         /\ DOMAIN configured = 1..Len(configured) /\ ToSet(configured) \subseteq Modules
         /\ run \in Seq(Modules) /\ loadedModules \subseteq Modules
<1>1. /\ requires \in [Modules -> SUBSET Modules] /\ calls \in Seq(LoadCalls) /\ Len(calls) > 0
      /\ configured \in Seq(Modules) /\ run \in Seq(Modules) /\ loadedModules \subseteq Modules
  BY DEF LoaderInv, LoaderTypeOK, LoadCalls
<1>2. /\ Len(calls) \in Nat /\ \A i \in 1..Len(calls) : calls[i] \in LoadCalls
      /\ Len(configured) \in Nat /\ DOMAIN configured = 1..Len(configured) /\ calls # << >>
  BY <1>1
<1>3. ToSet(configured) \subseteq Modules
  BY <1>1, <1>2 DEF ToSet
<1> QED
  BY <1>1, <1>2, <1>3 DEF LoadCalls

\* What a module needs has what it requires and what anyone in it requires and needs,
\* and is in every set that has.
LEMMA NeedsFacts ==
  ASSUME requires \in [Modules -> SUBSET Modules], NEW m \in Modules
  PROVE  /\ Needs(m) \subseteq Modules /\ requires[m] \subseteq Needs(m)
         /\ \A y \in Needs(m) : requires[y] \subseteq Needs(m)
         /\ \A C \in SUBSET Modules :
              requires[m] \subseteq C /\ (\A y \in C : requires[y] \subseteq C) => Needs(m) \subseteq C
<1>1. Needs(m) \subseteq Modules
  BY DEF Needs
<1>2. requires[m] \subseteq Needs(m)
  BY DEF Needs
<1>3. ASSUME NEW y \in Needs(m), NEW x \in requires[y] PROVE x \in Needs(m)
  <2>1. x \in Modules
    BY <1>1, <1>3
  <2>2. ASSUME NEW C \in SUBSET Modules, requires[m] \subseteq C, \A z \in C : requires[z] \subseteq C
        PROVE  x \in C
    <3>1. y \in C
      BY <2>2 DEF Needs
    <3> QED
      BY <1>3, <2>2, <3>1
  <2> QED
    BY <2>1, <2>2 DEF Needs
<1>4. \A C \in SUBSET Modules :
        requires[m] \subseteq C /\ (\A y \in C : requires[y] \subseteq C) => Needs(m) \subseteq C
  BY DEF Needs
<1> QED
  BY <1>1, <1>2, <1>3, <1>4

\* Who runs one more of the blocks has one less behind.
LEMMA OneMore ==
  ASSUME NEW S, NEW s \in Seq(S), NEW t \in Seq(S), t # << >>
  PROVE  /\ Append(s, Head(t)) \in Seq(S) /\ Tail(t) \in Seq(S)
         /\ Append(s, Head(t)) \o Tail(t) = s \o t
<1>1. /\ Head(t) \in S /\ Tail(t) \in Seq(S) /\ t = <<Head(t)>> \o Tail(t)
      /\ <<Head(t)>> \in Seq(S) /\ Append(s, Head(t)) = s \o <<Head(t)>>
      /\ Append(s, Head(t)) \in Seq(S)
  OBVIOUS
<1>2. (s \o <<Head(t)>>) \o Tail(t) = s \o (<<Head(t)>> \o Tail(t))
  BY <1>1, ConcatAssociative
<1> QED
  BY <1>1, <1>2

\* The invariant has the properties.
LEMMA LoaderInvIsEnough ==
  ASSUME LoaderInv PROVE ModulesLoad
<1>1. configured \in Seq(Modules) /\ run \in Seq(Modules) /\ Len(run) \in Nat /\ calls[1].blocks \in Seq(Modules)
  <2>1. 1 \in 1..Len(calls)
    BY LoaderTyped
  <2> QED
    BY <2>1, LoaderTyped
<1>2. CASE run = << >> /\ loading \in {"loading", "failed"}
  <2>1. Len(run) = 0 /\ Len(run) <= Len(configured) /\ SubSeq(run, 1, 0) = << >> /\ SubSeq(configured, 1, 0) = << >>
    BY <1>1, <1>2
  <2> QED
    BY <1>2, <2>1 DEF LoaderInv, ModulesLoad, RunAfterConfiguration, IsPrefix
<1>3. CASE /\ ToSet(configured) = Wanted /\ run \o calls[1].blocks = configured
           /\ loading = "done" => calls[1].blocks = << >>
  <2>1. /\ Len(configured) = Len(run) + Len(calls[1].blocks) /\ Len(calls[1].blocks) \in Nat
        /\ \A i \in 1..Len(run) : configured[i] = run[i]
    BY <1>1, <1>3
  <2>2. SubSeq(run, 1, Len(run)) = run /\ SubSeq(configured, 1, Len(run)) = run
    <3>1. \A i \in 1..Len(run) : configured[i] \in Modules /\ (1 + i) - 1 = i
      BY <1>1, <2>1
    <3>2. /\ SubSeq(configured, 1, Len(run)) \in Seq(Modules)
          /\ Len(SubSeq(configured, 1, Len(run))) = Len(run)
          /\ \A i \in 1..Len(run) : SubSeq(configured, 1, Len(run))[i] = run[i]
      BY <1>1, <2>1, <3>1
    <3>3. SubSeq(configured, 1, Len(run)) = run
      BY <1>1, <3>2, SeqEqual
    <3> QED
      BY <1>1, <3>3, SubSeqFull
  <2>3. calls[1].blocks = << >> => run = configured
    BY <1>1, <1>3, ConcatEmptySeq
  <2> QED
    BY <1>1, <1>3, <2>1, <2>2, <2>3 DEF LoaderInv, ModulesLoad, RunAfterConfiguration, IsPrefix, Wanted
<1> QED
  BY <1>2, <1>3 DEF LoaderInv, RunsThen

\* The calls when the innermost has taken the first of what is left.
Rest == [calls[1] EXCEPT !.left = Tail(@)]
Relieved == <<Rest>> \o Tail(calls)

\* They are the same calls, but for this module.
LEMMA RelievedCalls ==
  ASSUME LoaderInv, calls[1].left # << >>
  PROVE  /\ Head(calls[1].left) \in Modules /\ Head(calls[1].left) \in ToSet(calls[1].left)
         /\ Rest \in LoadCalls
         /\ Relieved \in Seq(LoadCalls) /\ Len(Relieved) = Len(calls)
         /\ \A i \in 1..Len(calls) :
              /\ Relieved[i].for = calls[i].for /\ Relieved[i].blocks = calls[i].blocks
              /\ ToSet(Relieved[i].left) \subseteq ToSet(calls[i].left)
              /\ ToSet(calls[i].left) \subseteq ToSet(Relieved[i].left) \cup {Head(calls[1].left)}
<1>1. /\ calls \in Seq(LoadCalls) /\ calls # << >> /\ Len(calls) \in Nat /\ Len(calls) > 0
      /\ calls[1] \in LoadCalls /\ calls[1].left \in Seq(Modules)
  <2>1. /\ calls \in Seq(LoadCalls) /\ calls # << >> /\ Len(calls) \in Nat /\ Len(calls) > 0
        /\ \A i \in 1..Len(calls) : calls[i] \in LoadCalls /\ calls[i].left \in Seq(Modules)
    BY LoaderTyped
  <2>2. 1 \in 1..Len(calls)
    BY <2>1
  <2> QED
    BY <2>1, <2>2
<1>2. /\ Head(calls[1].left) \in Modules /\ Tail(calls[1].left) \in Seq(Modules)
      /\ ToSet(calls[1].left) = {Head(calls[1].left)} \cup ToSet(Tail(calls[1].left))
  BY <1>1, Behind
<1>3. /\ Rest \in LoadCalls /\ Rest.for = calls[1].for /\ Rest.blocks = calls[1].blocks
      /\ Rest.left = Tail(calls[1].left)
  BY <1>1, <1>2 DEF Rest, LoadCalls
<1>4. /\ Tail(calls) \in Seq(LoadCalls) /\ Len(Tail(calls)) = Len(calls) - 1
      /\ \A i \in 1..(Len(calls) - 1) : Tail(calls)[i] = calls[i + 1]
  BY <1>1, Behind
<1>5. /\ Relieved \in Seq(LoadCalls) /\ Len(Relieved) = Len(Tail(calls)) + 1 /\ Relieved[1] = Rest
      /\ \A i \in 2..(Len(Tail(calls)) + 1) : Relieved[i] = Tail(calls)[i - 1]
  BY <1>3, <1>4, InFront DEF Relieved
<1>6. \A i \in 2..Len(calls) : Relieved[i] = calls[i]
  <2>1. \A i \in 2..Len(calls) : i - 1 \in 1..(Len(calls) - 1) /\ (i - 1) + 1 = i
    BY <1>1
  <2> QED
    BY <1>1, <1>4, <1>5, <2>1
<1>7. Len(Relieved) = Len(calls)
  BY <1>1, <1>4, <1>5
<1>8. \A i \in 1..Len(calls) : i = 1 \/ i \in 2..Len(calls)
  BY <1>1
<1> QED
  BY <1>2, <1>3, <1>5, <1>6, <1>7, <1>8

\* A module that is loaded already, or is missing.
LEMMA PassesOver ==
  ASSUME LoaderInv, loading = "loading", calls[1].left # << >>,
         Head(calls[1].left) \in loadedModules, calls' = Relieved,
         UNCHANGED <<requires, declared, loadedModules, configured, run, loading>>
  PROVE  LoaderInv'
<1> DEFINE m == Head(calls[1].left)
<1>1. /\ Pieces /\ CallsNest /\ LoadedOnce /\ NothingLeftOut /\ LoaderTypeOK /\ ConfiguredInOrder
      /\ run = << >> /\ Len(calls) > 0 /\ Len(calls) \in Nat
  BY LoaderTyped DEF LoaderInv, RunsThen
<1>2. /\ calls' \in Seq(LoadCalls) /\ Len(calls') = Len(calls)
      /\ \A i \in 1..Len(calls) :
           /\ calls'[i].for = calls[i].for /\ calls'[i].blocks = calls[i].blocks
           /\ ToSet(calls'[i].left) \subseteq ToSet(calls[i].left)
           /\ ToSet(calls[i].left) \subseteq ToSet(calls'[i].left) \cup {m}
  BY RelievedCalls
<1>n. Len(calls) \in 1..Len(calls) /\ 1..(Len(calls) - 1) \subseteq 1..Len(calls)
  BY <1>1
<1>3. LoaderTypeOK'
  BY <1>1, <1>2 DEF LoaderTypeOK, LoadCalls
<1>4. ConfiguredInOrder'
  BY <1>1 DEF ConfiguredInOrder, Needs
<1>5. Pieces'
  <2>1. PICK b : CutAt(b)
    BY <1>1 DEF Pieces
  <2>2. configured' = configured /\ Len(calls') = Len(calls)
    BY <1>2
  <2>3. CutAt(b)'
    BY <1>2, <2>1, <2>2 DEF CutAt
  <2> QED
    BY <2>3 DEF Pieces
<1>6. CallsNest'
  <2>1. calls'[Len(calls)].for = {}
    BY <1>1, <1>2, <1>n DEF CallsNest
  <2>2. \A i \in 1..(Len(calls) - 1) : \E k \in Modules : calls'[i].for = {k}
    BY <1>1, <1>2, <1>n, SMTT(60) DEF CallsNest
  <2>3. \A i, j \in 1..Len(calls) : \A k \in calls'[i].for, l \in calls'[j].for :
          i < j => k \in Needs(l) /\ k # l
    BY <1>1, <1>2 DEF CallsNest
  <2>4. \A i \in 1..Len(calls) : \A k \in calls'[i].for : k \notin ToSet(configured)
    BY <1>1, <1>2 DEF CallsNest
  <2>5. \A k : Needs(k)' = Needs(k)
    BY DEF Needs
  <2> QED
    BY <1>2, <2>1, <2>2, <2>3, <2>4, <2>5 DEF CallsNest
<1>7. LoadedOnce'
  BY <1>1, <1>2 DEF LoadedOnce
<1>8. NothingLeftOut'
  <2>1. /\ \A i \in 1..Len(calls) : \A k \in calls[i].for :
             /\ requires[k] \subseteq ToSet(calls'[i].left) \cup loadedModules
             /\ ToSet(calls'[i].left) \subseteq requires[k]
    BY <1>1, <1>2 DEF NothingLeftOut
  <2>2. App \in ToSet(calls'[Len(calls)].left) \cup loadedModules
    BY <1>1, <1>2, <1>n DEF NothingLeftOut
  <2>3. \A i \in 1..Len(calls) : ToSet(calls'[i].left) \subseteq Wanted
    BY <1>1, <1>2 DEF NothingLeftOut
  <2>4. Wanted' = Wanted
    BY DEF Wanted, Needs
  <2> QED
    BY <1>1, <1>2, <2>1, <2>2, <2>3, <2>4 DEF NothingLeftOut
<1>9. RunsThen'
  BY <1>1 DEF RunsThen
<1> QED
  BY <1>1, <1>2, <1>3, <1>4, <1>5, <1>6, <1>7, <1>8, <1>9 DEF LoaderInv

\* A module that is new: a call for it goes inside the others.
LEMMA Enters ==
  ASSUME IsFiniteSet(Modules), App \in Modules, LoaderInv, loading = "loading", calls[1].left # << >>,
         NEW m \in Modules, m = Head(calls[1].left), m \notin loadedModules,
         calls' = <<LoadCall(SetToSeq(requires[m]), {m})>> \o Relieved,
         loadedModules' = loadedModules \cup {m},
         UNCHANGED <<requires, declared, configured, run, loading>>
  PROVE  LoaderInv'
<1> DEFINE n == Len(calls)
           new == LoadCall(SetToSeq(requires[m]), {m})
<1>1. /\ Pieces /\ CallsNest /\ LoadedOnce /\ NothingLeftOut /\ LoaderTypeOK /\ ConfiguredInOrder
      /\ run = << >> /\ n > 0 /\ n \in Nat
      /\ requires \in [Modules -> SUBSET Modules]
      /\ configured \in Seq(Modules) /\ Len(configured) \in Nat /\ ToSet(configured) \subseteq Modules
      /\ \A i \in 1..n : calls[i].for \subseteq Modules
  BY LoaderTyped DEF LoaderInv, RunsThen
<1>2. /\ Relieved \in Seq(LoadCalls) /\ Len(Relieved) = n
      /\ m \in ToSet(calls[1].left)
      /\ \A i \in 1..n :
           /\ Relieved[i].for = calls[i].for /\ Relieved[i].blocks = calls[i].blocks
           /\ ToSet(Relieved[i].left) \subseteq ToSet(calls[i].left)
           /\ ToSet(calls[i].left) \subseteq ToSet(Relieved[i].left) \cup {m}
  BY RelievedCalls
<1>3. /\ SetToSeq(requires[m]) \in Seq(Modules) /\ ToSet(SetToSeq(requires[m])) = requires[m]
  <2>1. requires[m] \in SUBSET Modules
    BY <1>1
  <2>2. IsFiniteSet(requires[m])
    BY <2>1, FS_Subset
  <2>3. SetToSeq(requires[m]) \in Seq(requires[m]) /\ ToSet(SetToSeq(requires[m])) = requires[m]
    BY <2>2, AsSequence
  <2> QED
    BY <2>1, <2>3, SeqMonotonic
<1>4. /\ new \in LoadCalls /\ new.for = {m} /\ new.blocks = << >> /\ ToSet(new.left) = requires[m]
  BY <1>3 DEF LoadCall, LoadCalls
<1>5. /\ calls' \in Seq(LoadCalls) /\ Len(calls') = n + 1 /\ calls'[1] = new
      /\ \A i \in 1..n : calls'[i + 1] = Relieved[i]
  <2> HIDE DEF new
  <2>1. Relieved \in Seq(LoadCalls) /\ new \in LoadCalls /\ Len(Relieved) = n
    BY <1>2, <1>4
  <2>2. calls' = <<new>> \o Relieved
    BY DEF new
  <2>3. /\ <<new>> \o Relieved \in Seq(LoadCalls)
        /\ Len(<<new>> \o Relieved) = Len(Relieved) + 1
        /\ (<<new>> \o Relieved)[1] = new
        /\ \A i \in 1..Len(Relieved) : (<<new>> \o Relieved)[i + 1] = Relieved[i]
    BY <2>1, InFront
  <2> QED
    BY <2>1, <2>2, <2>3
<1> HIDE DEF new
<1>6. \A i \in 1..n :
        /\ calls'[i + 1].for = calls[i].for /\ calls'[i + 1].blocks = calls[i].blocks
        /\ ToSet(calls'[i + 1].left) \subseteq ToSet(calls[i].left)
        /\ ToSet(calls[i].left) \subseteq ToSet(calls'[i + 1].left) \cup {m}
  BY <1>2, <1>5
<1>7. \A i \in 1..(n + 1) : i = 1 \/ (i - 1 \in 1..n /\ (i - 1) + 1 = i)
  BY <1>1
<1>8. /\ \A k : Needs(k)' = Needs(k)
      /\ Wanted' = Wanted
  BY DEF Needs, Wanted
<1> HIDE DEF n
<1>9. LoaderTypeOK'
  BY <1>1, <1>5 DEF LoaderTypeOK, LoadCalls
<1>10. ConfiguredInOrder'
  BY <1>1, <1>8 DEF ConfiguredInOrder
<1>11. Pieces'
  <2>1. PICK b : CutAt(b)
    BY <1>1 DEF Pieces
  <2>c. PICK c : c = [i \in 0..(n + 1) |-> IF i = 0 THEN Len(configured) ELSE b[i - 1]]
    OBVIOUS
  <2>2. /\ b \in [0..n -> 0..Len(configured)] /\ b[0] = Len(configured) /\ b[n] = 0
        /\ \A i \in 1..n : b[i] <= b[i - 1] /\ calls[i].blocks = SubSeq(configured, b[i] + 1, b[i - 1])
    BY <2>1 DEF CutAt, n
  <2>3. /\ c \in [0..(n + 1) -> 0..Len(configured)] /\ c[0] = Len(configured) /\ c[1] = Len(configured)
        /\ c[n + 1] = 0 /\ \A i \in 0..n : c[i + 1] = b[i]
    <3>1. \A i \in 0..(n + 1) : c[i] = IF i = 0 THEN Len(configured) ELSE b[i - 1]
      BY <2>c
    <3>2. /\ \A i \in 0..n : i + 1 \in 0..(n + 1) /\ i + 1 # 0 /\ (i + 1) - 1 = i
          /\ 0 \in 0..n /\ n \in 0..n /\ 0 \in 0..(n + 1) /\ 0 + 1 = 1
      BY <1>1
    <3>3. \A i \in 0..n : c[i + 1] = b[i]
      BY <3>1, <3>2
    <3>4. c[0] = Len(configured) /\ c[1] = Len(configured) /\ c[n + 1] = 0
      BY <2>2, <3>1, <3>2, <3>3
    <3>5. ASSUME NEW i \in 0..(n + 1) PROVE c[i] \in 0..Len(configured)
      <4>1. i = 0 \/ i - 1 \in 0..n
        BY <1>1, <3>5
      <4> QED
        BY <1>1, <2>2, <3>1, <4>1
    <3> QED
      BY <2>c, <3>3, <3>4, <3>5
  <2>4. c[1] <= c[1 - 1] /\ calls'[1].blocks = SubSeq(configured, c[1] + 1, c[1 - 1])
    <3>1. SubSeq(configured, Len(configured) + 1, Len(configured)) = << >>
      BY <1>1
    <3>2. 1 - 1 = 0 /\ c[1] = Len(configured) /\ c[1 - 1] = Len(configured) /\ calls'[1].blocks = << >>
      BY <1>4, <1>5, <2>3
    <3>3. SubSeq(configured, c[1] + 1, c[1 - 1]) = << >>
      BY <3>1, <3>2
    <3>4. c[1] <= c[1 - 1]
      BY <1>1, <3>2
    <3> QED
      BY <3>2, <3>3, <3>4
  <2>5. ASSUME NEW i \in 1..n
        PROVE  c[i + 1] <= c[(i + 1) - 1]
               /\ calls'[i + 1].blocks = SubSeq(configured, c[i + 1] + 1, c[(i + 1) - 1])
    <3>1. (i + 1) - 1 = i /\ i \in 0..n /\ i - 1 \in 0..n /\ (i - 1) + 1 = i
      BY <1>1, <2>5
    <3>2. c[i + 1] = b[i] /\ c[(i + 1) - 1] = b[i - 1]
      BY <2>3, <3>1
    <3> QED
      BY <1>6, <2>2, <3>2
  <2>6. \A i \in 1..(n + 1) : c[i] <= c[i - 1] /\ calls'[i].blocks = SubSeq(configured, c[i] + 1, c[i - 1])
    <3>1. SUFFICES ASSUME NEW i \in 1..(n + 1), i # 1
                   PROVE  c[i] <= c[i - 1] /\ calls'[i].blocks = SubSeq(configured, c[i] + 1, c[i - 1])
      BY <2>4
    <3>2. i - 1 \in 1..n /\ (i - 1) + 1 = i
      BY <1>7, <3>1
    <3> QED
      BY <2>5, <3>2
  <2>7. CutAt(c)'
    <3>1. configured' = configured
      OBVIOUS
    <3> QED
      BY <1>5, <2>3, <2>6, <3>1 DEF CutAt
  <2> QED
    BY <2>7 DEF Pieces
<1>12. m \notin ToSet(configured) /\ \A i \in 1..n : m \notin calls[i].for
  BY <1>1 DEF LoadedOnce, n
<1>13. CallsNest'
  <2>1. calls'[n + 1].for = {}
    <3>1. n \in 1..n
      BY <1>1
    <3> QED
      BY <1>1, <1>6, <3>1 DEF CallsNest, n
  <2>2. ASSUME NEW i \in 1..n PROVE \E k \in Modules : calls'[i].for = {k}
    <3>1. CASE i = 1
      BY <1>4, <1>5, <3>1
    <3>2. CASE i # 1
      <4>1. i - 1 \in 1..(n - 1) /\ i - 1 \in 1..n /\ (i - 1) + 1 = i
        BY <1>1, <2>2, <3>2
      <4>2. PICK k \in Modules : calls[i - 1].for = {k}
        BY <1>1, <4>1 DEF CallsNest, n
      <4>3. calls'[i].for = calls[i - 1].for
        BY <1>6, <4>1
      <4> QED
        BY <4>2, <4>3
    <3> QED
      BY <3>1, <3>2
  <2>3. ASSUME NEW i \in 1..(n + 1), NEW j \in 1..(n + 1), NEW k \in calls'[i].for, NEW l \in calls'[j].for, i < j
        PROVE  k \in Needs(l) /\ k # l
    <3>1. j - 1 \in 1..n /\ (j - 1) + 1 = j /\ l \in calls[j - 1].for
      <4>1. j - 1 \in 1..n /\ (j - 1) + 1 = j
        BY <1>1, <2>3
      <4> QED
        BY <1>6, <2>3, <4>1
    <3>2. CASE i = 1
      <4>1. k = m /\ l # m /\ l \in Modules
        BY <1>1, <1>4, <1>5, <1>12, <2>3, <3>1, <3>2
      <4>2. 1 \in 1..n
        BY <1>1
      <4>3. CASE j - 1 = 1
        <5>1. m \in requires[l]
          BY <1>1, <1>2, <3>1, <4>2, <4>3 DEF NothingLeftOut, n
        <5> QED
          BY <1>1, <4>1, <5>1, NeedsFacts
      <4>4. CASE j - 1 # 1
        <5>1. 1 < j - 1 /\ 1 \in 1..(n - 1)
          BY <1>1, <3>1, <4>4
        <5>2. PICK p \in Modules : calls[1].for = {p}
          BY <1>1, <5>1 DEF CallsNest, n
        <5>3. p \in Needs(l)
          BY <1>1, <3>1, <4>2, <5>1, <5>2 DEF CallsNest, n
        <5>4. m \in requires[p]
          BY <1>1, <1>2, <4>2, <5>2, SMTT(60) DEF NothingLeftOut, n
        <5> QED
          BY <1>1, <4>1, <5>3, <5>4, NeedsFacts
      <4> QED
        BY <4>3, <4>4
    <3>3. CASE i # 1
      <4>1. i - 1 \in 1..n /\ (i - 1) + 1 = i /\ i - 1 < j - 1
        BY <1>1, <2>3, <3>3
      <4>2. k \in calls[i - 1].for
        BY <1>6, <2>3, <4>1
      <4> QED
        BY <1>1, <3>1, <4>1, <4>2 DEF CallsNest, n
    <3> QED
      BY <3>2, <3>3
  <2>4. ASSUME NEW i \in 1..(n + 1), NEW k \in calls'[i].for PROVE k \notin ToSet(configured)
    <3>1. CASE i = 1
      BY <1>4, <1>5, <1>12, <2>4, <3>1
    <3>2. CASE i - 1 \in 1..n /\ (i - 1) + 1 = i
      BY <1>1, <1>6, <2>4, <3>2 DEF CallsNest, n
    <3> QED
      BY <1>7, <3>1, <3>2
  <2>5. (n + 1) - 1 = n /\ configured' = configured
    BY <1>1
  <2>6. Len(calls') = n + 1 /\ Len(calls') - 1 = n
    BY <1>5, <2>5
  <2>7. \A i, j \in 1..Len(calls') : \A k \in calls'[i].for, l \in calls'[j].for :
          i < j => k \in Needs(l) /\ k # l
    BY <2>3, <2>6
  <2>8. \A i \in 1..Len(calls') : \A k \in calls'[i].for : k \notin ToSet(configured')
    BY <2>4, <2>5, <2>6
  <2>9. requires' = requires
    OBVIOUS
  <2> QED
    <3>1. calls'[Len(calls')].for = {}
      BY <2>1, <2>6
    <3>2. \A i \in 1..(Len(calls') - 1) : \E k \in Modules : calls'[i].for = {k}
      BY <2>2, <2>6
    <3>3. \A k : Needs(k)' = Needs(k)
      BY <2>9 DEF Needs
    <3>4. (\A i, j \in 1..Len(calls) : \A k \in calls[i].for, l \in calls[j].for :
             i < j => k \in Needs(l) /\ k # l)'
      <4>1. SUFFICES ASSUME NEW i \in 1..Len(calls'), NEW j \in 1..Len(calls'),
                            NEW k \in calls'[i].for, NEW l \in calls'[j].for, i < j
                     PROVE  k \in Needs(l)' /\ k # l
        OBVIOUS
      <4>2. k \in Needs(l) /\ k # l
        BY <2>7, <4>1
      <4>3. Needs(l)' = Needs(l)
        BY <3>3
      <4> QED
        BY <4>2, <4>3
    <3>5. (\A i \in 1..Len(calls) : \A k \in calls[i].for : k \notin ToSet(configured))'
      BY <2>8
    <3> QED
      BY <3>1, <3>2, <3>4, <3>5 DEF CallsNest
<1>14. LoadedOnce'
  <2>1. ASSUME NEW k \in Modules
        PROVE  (\E i \in 1..(n + 1) : k \in calls'[i].for) <=> k = m \/ \E i \in 1..n : k \in calls[i].for
    <3>1. ASSUME NEW i \in 1..(n + 1), k \in calls'[i].for
          PROVE  k = m \/ \E j \in 1..n : k \in calls[j].for
      <4>1. CASE i = 1
        BY <1>4, <1>5, <3>1, <4>1
      <4>2. CASE i - 1 \in 1..n /\ (i - 1) + 1 = i
        BY <1>6, <3>1, <4>2
      <4> QED
        BY <1>7, <4>1, <4>2
    <3>2. 1 \in 1..(n + 1) /\ m \in calls'[1].for
      BY <1>1, <1>4, <1>5
    <3>3. ASSUME NEW j \in 1..n, k \in calls[j].for PROVE \E i \in 1..(n + 1) : k \in calls'[i].for
      <4>1. j + 1 \in 1..(n + 1)
        BY <1>1
      <4> QED
        BY <1>6, <3>3, <4>1
    <3> QED
      BY <3>1, <3>2, <3>3
  <2>2. configured' = configured
    OBVIOUS
  <2> QED
    BY <1>1, <1>5, <2>1, <2>2 DEF LoadedOnce, n
<1>15. NothingLeftOut'
  <2>1. m \in Wanted
    <3>1. 1 \in 1..n
      BY <1>1
    <3> QED
      BY <1>1, <1>2, <3>1 DEF NothingLeftOut, n
  <2>2. ASSUME NEW i \in 1..(n + 1), NEW k \in calls'[i].for
        PROVE  /\ requires[k] \subseteq ToSet(calls'[i].left) \cup loadedModules'
               /\ ToSet(calls'[i].left) \subseteq requires[k]
    <3>1. CASE i = 1
      BY <1>4, <1>5, <2>2, <3>1, ZenonT(60)
    <3>2. CASE i - 1 \in 1..n /\ (i - 1) + 1 = i
      <4>1. /\ requires[k] \subseteq ToSet(calls[i - 1].left) \cup loadedModules
            /\ ToSet(calls[i - 1].left) \subseteq requires[k]
        BY <1>1, <1>6, <2>2, <3>2, ZenonT(60) DEF NothingLeftOut, n
      <4> QED
        BY <1>6, <3>2, <4>1
    <3> QED
      BY <1>7, <3>1, <3>2
  <2>3. App \in ToSet(calls'[n + 1].left) \cup loadedModules'
    <3>1. n \in 1..n
      BY <1>1
    <3>2. App \in ToSet(calls[n].left) \cup loadedModules
      BY <1>1 DEF NothingLeftOut, n
    <3> QED
      BY <1>6, <3>1, <3>2
  <2>4. requires[m] \subseteq Wanted
    BY <1>1, <2>1, NeedsFacts DEF Wanted
  <2>5. ASSUME NEW i \in 1..(n + 1) PROVE ToSet(calls'[i].left) \subseteq Wanted
    <3>1. CASE i = 1
      BY <1>4, <1>5, <2>4, <3>1
    <3>2. CASE i - 1 \in 1..n /\ (i - 1) + 1 = i
      BY <1>1, <1>6, <3>2 DEF NothingLeftOut, n
    <3> QED
      BY <1>7, <3>1, <3>2
  <2>6. \A k \in ToSet(configured) : requires[k] \subseteq loadedModules'
    BY <1>1 DEF NothingLeftOut
  <2>7. loadedModules' \subseteq Wanted
    BY <1>1, <2>1 DEF NothingLeftOut
  <2>8. configured' = configured /\ requires' = requires
    OBVIOUS
  <2>9. Len(calls') = n + 1
    BY <1>5
  <2>10. \A i \in 1..Len(calls') : \A k \in calls'[i].for :
           /\ requires'[k] \subseteq ToSet(calls'[i].left) \cup loadedModules'
           /\ ToSet(calls'[i].left) \subseteq requires'[k]
    BY <2>2, <2>8, <2>9
  <2>11. \A k \in ToSet(configured') : requires'[k] \subseteq loadedModules'
    BY <2>6, <2>8
  <2>12. App \in ToSet(calls'[Len(calls')].left) \cup loadedModules'
    BY <2>3, <2>9
  <2>13. \A i \in 1..Len(calls') : ToSet(calls'[i].left) \subseteq Wanted'
    BY <1>8, <2>5, <2>9
  <2>14. loadedModules' \subseteq Wanted'
    BY <1>8, <2>7
  <2> QED
    BY <2>10, <2>11, <2>12, <2>13, <2>14 DEF NothingLeftOut
<1>16. RunsThen'
  BY <1>1 DEF RunsThen
<1> QED
  BY <1>1, <1>5, <1>9, <1>10, <1>11, <1>13, <1>14, <1>15, <1>16 DEF LoaderInv

\* A sequence in two pieces, with one more behind.
LEMMA TwoPieces ==
  ASSUME NEW S, NEW s \in Seq(S), NEW x \in S, NEW a \in 0..Len(s), NEW b \in 0..Len(s), a <= b
  PROVE  /\ (SubSeq(s, a + 1, b) \o SubSeq(s, b + 1, Len(s))) \o <<x>>
              = SubSeq(Append(s, x), a + 1, Len(s) + 1)
         /\ SubSeq(Append(s, x), a + 1, b) = SubSeq(s, a + 1, b)
<1> DEFINE n == Len(s)
           t == Append(s, x)
<1>1. n \in Nat
  OBVIOUS
<1>2. a \in 0..n /\ b \in 0..n /\ a \in Int /\ b \in Int /\ a >= 0 /\ b <= n /\ a <= b
  BY <1>1
<1>3. t \in Seq(S) /\ Len(t) = n + 1 /\ t[n + 1] = x /\ \A i \in 1..n : t[i] = s[i]
  BY <1>1
<1> HIDE DEF n, t
<1>4. /\ SubSeq(s, a + 1, b) \in Seq(S) /\ Len(SubSeq(s, a + 1, b)) = b - a
      /\ \A i \in 1..(b - a) : SubSeq(s, a + 1, b)[i] = s[a + i]
  <2>1. \A i \in (a + 1)..b : s[i] \in S
    BY <1>1, <1>2 DEF n
  <2>2. /\ SubSeq(s, a + 1, b) \in Seq(S)
        /\ Len(SubSeq(s, a + 1, b)) = IF a + 1 <= b THEN b - (a + 1) + 1 ELSE 0
        /\ \A i \in 1..(b - (a + 1) + 1) : SubSeq(s, a + 1, b)[i] = s[(a + 1) + i - 1]
    BY <1>2, <2>1, SubSeqProperties DEF n
  <2> QED
    BY <1>2, <2>2
<1>5. /\ SubSeq(s, b + 1, n) \in Seq(S) /\ Len(SubSeq(s, b + 1, n)) = n - b
      /\ \A i \in 1..(n - b) : SubSeq(s, b + 1, n)[i] = s[b + i]
  <2>1. \A i \in (b + 1)..n : s[i] \in S
    BY <1>1, <1>2 DEF n
  <2>2. /\ SubSeq(s, b + 1, n) \in Seq(S)
        /\ Len(SubSeq(s, b + 1, n)) = IF b + 1 <= n THEN n - (b + 1) + 1 ELSE 0
        /\ \A i \in 1..(n - (b + 1) + 1) : SubSeq(s, b + 1, n)[i] = s[(b + 1) + i - 1]
    BY <1>1, <1>2, <2>1, SubSeqProperties DEF n
  <2> QED
    BY <1>1, <1>2, <2>2
<1>6. /\ SubSeq(t, a + 1, n + 1) \in Seq(S) /\ Len(SubSeq(t, a + 1, n + 1)) = n + 1 - a
      /\ \A i \in 1..(n + 1 - a) : SubSeq(t, a + 1, n + 1)[i] = t[a + i]
  <2>1. \A i \in (a + 1)..(n + 1) : t[i] \in S
    BY <1>1, <1>2, <1>3
  <2>2. /\ SubSeq(t, a + 1, n + 1) \in Seq(S)
        /\ Len(SubSeq(t, a + 1, n + 1)) = IF a + 1 <= n + 1 THEN n + 1 - (a + 1) + 1 ELSE 0
        /\ \A i \in 1..(n + 1 - (a + 1) + 1) : SubSeq(t, a + 1, n + 1)[i] = t[(a + 1) + i - 1]
    BY <1>1, <1>2, <1>3, <2>1, SubSeqProperties
  <2>3. a + 1 <= n + 1 /\ n + 1 - (a + 1) + 1 = n + 1 - a
    BY <1>1, <1>2
  <2>4. \A i \in 1..(n + 1 - a) : (a + 1) + i - 1 = a + i
    BY <1>1, <1>2
  <2>5. Len(SubSeq(t, a + 1, n + 1)) = n + 1 - a
    BY <2>2, <2>3
  <2>6. \A i \in 1..(n + 1 - a) : SubSeq(t, a + 1, n + 1)[i] = t[(a + 1) + i - 1]
    BY <2>2, <2>3
  <2> QED
    BY <2>2, <2>4, <2>5, <2>6
<1>7. /\ SubSeq(t, a + 1, b) \in Seq(S) /\ Len(SubSeq(t, a + 1, b)) = b - a
      /\ \A i \in 1..(b - a) : SubSeq(t, a + 1, b)[i] = t[a + i]
  <2>1. \A i \in (a + 1)..b : t[i] \in S
    BY <1>1, <1>2, <1>3
  <2>2. /\ SubSeq(t, a + 1, b) \in Seq(S)
        /\ Len(SubSeq(t, a + 1, b)) = IF a + 1 <= b THEN b - (a + 1) + 1 ELSE 0
        /\ \A i \in 1..(b - (a + 1) + 1) : SubSeq(t, a + 1, b)[i] = t[(a + 1) + i - 1]
    BY <1>1, <1>2, <1>3, <2>1, SubSeqProperties
  <2>3. b - (a + 1) + 1 = b - a /\ (~(a + 1 <= b) => b - a = 0)
    BY <1>2
  <2>4. \A i \in 1..(b - a) : (a + 1) + i - 1 = a + i
    BY <1>2
  <2>5. Len(SubSeq(t, a + 1, b)) = b - a
    BY <2>2, <2>3
  <2>6. \A i \in 1..(b - a) : SubSeq(t, a + 1, b)[i] = t[(a + 1) + i - 1]
    BY <2>2, <2>3
  <2> QED
    BY <2>2, <2>4, <2>5, <2>6
<1>8. SubSeq(t, a + 1, b) = SubSeq(s, a + 1, b)
  <2>1. \A i \in 1..(b - a) : a + i \in 1..n
    BY <1>1, <1>2
  <2>2. \A i \in 1..(b - a) : SubSeq(t, a + 1, b)[i] = SubSeq(s, a + 1, b)[i]
    BY <1>3, <1>4, <1>7, <2>1
  <2> QED
    BY <1>4, <1>7, <2>2, SeqEqual
<1>9. (SubSeq(s, a + 1, b) \o SubSeq(s, b + 1, n)) \o <<x>> = SubSeq(t, a + 1, n + 1)
  <2> DEFINE p == SubSeq(s, a + 1, b)
             q == SubSeq(s, b + 1, n)
             r == SubSeq(t, a + 1, n + 1)
  <2>1. p \in Seq(S) /\ q \in Seq(S) /\ r \in Seq(S) /\ Len(p) = b - a /\ Len(q) = n - b /\ Len(r) = n + 1 - a
    BY <1>4, <1>5, <1>6
  <2>2. \A i \in 1..(b - a) : p[i] = s[a + i]
    BY <1>4
  <2>3. \A i \in 1..(n - b) : q[i] = s[b + i]
    BY <1>5
  <2>4. \A i \in 1..(n + 1 - a) : r[i] = t[a + i]
    BY <1>6
  <2> HIDE DEF p, q, r
  <2>5. /\ p \o q \in Seq(S) /\ Len(p \o q) = n - a
        /\ \A i \in 1..(n - a) : (p \o q)[i] = IF i <= b - a THEN p[i] ELSE q[i - (b - a)]
    <3>1. /\ p \o q \in Seq(S) /\ Len(p \o q) = (b - a) + (n - b)
          /\ \A i \in 1..((b - a) + (n - b)) : (p \o q)[i] = IF i <= b - a THEN p[i] ELSE q[i - (b - a)]
      <4>1. /\ p \o q \in Seq(S) /\ Len(p \o q) = Len(p) + Len(q)
            /\ \A i \in 1..(Len(p) + Len(q)) : (p \o q)[i] = IF i <= Len(p) THEN p[i] ELSE q[i - Len(p)]
        BY <2>1, ConcatProperties
      <4> QED
        BY <2>1, <4>1
    <3>2. (b - a) + (n - b) = n - a
      BY <1>1, <1>2
    <3> QED
      BY <3>1, <3>2
  <2>6. \A i \in 1..(n - a) : (p \o q)[i] = s[a + i]
    <3>1. ASSUME NEW i \in 1..(n - a), i <= b - a PROVE (p \o q)[i] = s[a + i]
      <4>1. i \in 1..(b - a)
        BY <1>1, <1>2, <3>1
      <4> QED
        BY <2>2, <2>5, <3>1, <4>1
    <3>2. ASSUME NEW i \in 1..(n - a), ~(i <= b - a) PROVE (p \o q)[i] = s[a + i]
      <4>1. i - (b - a) \in 1..(n - b) /\ b + (i - (b - a)) = a + i
        BY <1>1, <1>2, <3>2
      <4> QED
        BY <2>3, <2>5, <3>2, <4>1
    <3> QED
      BY <3>1, <3>2
  <2>7. /\ (p \o q) \o <<x>> \in Seq(S) /\ Len((p \o q) \o <<x>>) = n + 1 - a
        /\ ((p \o q) \o <<x>>)[n + 1 - a] = x
        /\ \A i \in 1..(n - a) : ((p \o q) \o <<x>>)[i] = (p \o q)[i]
    <3>1. (p \o q) \o <<x>> = Append(p \o q, x)
      BY <2>5, AppendIsConcat
    <3>2. n - a \in Nat /\ (n - a) + 1 = n + 1 - a
      BY <1>1, <1>2
    <3> QED
      <4>1. /\ Append(p \o q, x) \in Seq(S) /\ Len(Append(p \o q, x)) = Len(p \o q) + 1
            /\ \A i \in 1..Len(p \o q) : Append(p \o q, x)[i] = (p \o q)[i]
            /\ Append(p \o q, x)[Len(p \o q) + 1] = x
        BY <2>5, AppendProperties
      <4>2. Len(p \o q) = n - a /\ Len(p \o q) + 1 = n + 1 - a
        BY <2>5, <3>2
      <4> QED
        BY <3>1, <4>1, <4>2
  <2>8. \A i \in 1..(n + 1 - a) : ((p \o q) \o <<x>>)[i] = r[i]
    <3>1. ASSUME NEW i \in 1..(n + 1 - a), i = n + 1 - a PROVE ((p \o q) \o <<x>>)[i] = r[i]
      <4>1. a + i = n + 1
        BY <1>1, <1>2, <3>1
      <4> QED
        BY <1>3, <2>4, <2>7, <3>1, <4>1
    <3>2. ASSUME NEW i \in 1..(n + 1 - a), i # n + 1 - a PROVE ((p \o q) \o <<x>>)[i] = r[i]
      <4>1. i \in 1..(n - a) /\ a + i \in 1..n
        BY <1>1, <1>2, <3>2
      <4> QED
        BY <1>3, <2>4, <2>6, <2>7, <4>1
    <3> QED
      BY <3>1, <3>2
  <2> QED
    BY <2>1, <2>7, <2>8, SeqEqual, ZenonT(60) DEF p, q, r
<1> QED
  BY <1>8, <1>9 DEF n, t

\* The caller of the innermost call, when that returns: it has its run blocks, and the
\* module that it was for behind them.
CallerOf(m) == [calls[2] EXCEPT !.blocks = @ \o calls[1].blocks \o <<m>>]
Folded(m) == <<CallerOf(m)>> \o Tail(Tail(calls))

LEMMA FoldedCalls ==
  ASSUME LoaderInv, Tail(calls) # << >>, NEW m \in Modules
  PROVE  /\ Len(calls) \in Nat /\ Len(calls) > 1
         /\ Folded(m) \in Seq(LoadCalls) /\ Len(Folded(m)) = Len(calls) - 1
         /\ Folded(m)[1].blocks = (calls[2].blocks \o calls[1].blocks) \o <<m>>
         /\ \A i \in 1..(Len(calls) - 1) :
              /\ Folded(m)[i].for = calls[i + 1].for /\ Folded(m)[i].left = calls[i + 1].left
              /\ i # 1 => Folded(m)[i].blocks = calls[i + 1].blocks
<1>1. /\ calls \in Seq(LoadCalls) /\ calls # << >> /\ Len(calls) \in Nat
      /\ \A i \in 1..Len(calls) : calls[i] \in LoadCalls
  BY LoaderTyped
<1>2. /\ Tail(calls) \in Seq(LoadCalls) /\ Len(Tail(calls)) = Len(calls) - 1
      /\ \A i \in 1..(Len(calls) - 1) : Tail(calls)[i] = calls[i + 1]
  BY <1>1, Behind
<1>3. /\ Len(Tail(calls)) \in Nat /\ Len(Tail(calls)) > 0
      /\ Tail(Tail(calls)) \in Seq(LoadCalls) /\ Len(Tail(Tail(calls))) = Len(Tail(calls)) - 1
      /\ \A i \in 1..(Len(Tail(calls)) - 1) : Tail(Tail(calls))[i] = Tail(calls)[i + 1]
  BY <1>2, Behind
<1>4. Len(calls) > 1 /\ 1 \in 1..Len(calls) /\ 2 \in 1..Len(calls)
  BY <1>1, <1>2, <1>3
<1>5. /\ calls[1] \in LoadCalls /\ calls[2] \in LoadCalls
      /\ calls[1].blocks \in Seq(Modules) /\ calls[2].blocks \in Seq(Modules)
  BY <1>1, <1>4 DEF LoadCalls
<1>6. (calls[2].blocks \o calls[1].blocks) \o <<m>> \in Seq(Modules)
  BY <1>5
<1>7. /\ CallerOf(m) \in LoadCalls /\ CallerOf(m).for = calls[2].for /\ CallerOf(m).left = calls[2].left
      /\ CallerOf(m).blocks = (calls[2].blocks \o calls[1].blocks) \o <<m>>
  BY <1>5, <1>6 DEF CallerOf, LoadCalls
<1>8. /\ Folded(m) \in Seq(LoadCalls) /\ Len(Folded(m)) = Len(Tail(Tail(calls))) + 1
      /\ Folded(m)[1] = CallerOf(m)
      /\ \A i \in 1..Len(Tail(Tail(calls))) : Folded(m)[i + 1] = Tail(Tail(calls))[i]
  BY <1>3, <1>7, InFront, SMTT(60) DEF Folded
<1>9. Len(Tail(Tail(calls))) = Len(calls) - 2 /\ Len(Folded(m)) = Len(calls) - 1
  <2>1. Len(Tail(calls)) = Len(calls) - 1
    BY <1>2
  <2>2. Len(Tail(Tail(calls))) = Len(Tail(calls)) - 1
    BY <1>3
  <2>3. Len(Tail(Tail(calls))) = Len(calls) - 2
    BY <1>1, <2>1, <2>2
  <2>4. Len(Folded(m)) = Len(Tail(Tail(calls))) + 1
    BY <1>8
  <2> QED
    BY <1>1, <2>3, <2>4
<1>10. ASSUME NEW i \in 1..(Len(calls) - 1), i # 1 PROVE Folded(m)[i] = calls[i + 1]
  <2>1. /\ i - 1 \in 1..(Len(calls) - 2) /\ (i - 1) + 1 = i /\ i \in 1..(Len(calls) - 1)
        /\ i - 1 \in 1..(Len(Tail(calls)) - 1) /\ i - 1 \in 1..Len(Tail(Tail(calls)))
    BY <1>1, <1>2, <1>9, <1>10
  <2>2. Folded(m)[i] = Tail(Tail(calls))[i - 1]
    BY <1>8, <2>1
  <2>3. Tail(Tail(calls))[i - 1] = Tail(calls)[i]
    BY <1>3, <2>1
  <2> QED
    BY <1>2, <2>1, <2>2, <2>3
<1>11. 1 + 1 = 2
  OBVIOUS
<1>12. \A i \in 1..(Len(calls) - 1) :
         /\ Folded(m)[i].for = calls[i + 1].for /\ Folded(m)[i].left = calls[i + 1].left
         /\ i # 1 => Folded(m)[i].blocks = calls[i + 1].blocks
  <2>1. ASSUME NEW i \in 1..(Len(calls) - 1), i = 1
        PROVE  Folded(m)[i].for = calls[i + 1].for /\ Folded(m)[i].left = calls[i + 1].left
    BY <1>7, <1>8, <1>11, <2>1
  <2> QED
    BY <1>10, <2>1
<1> QED
  BY <1>1, <1>4, <1>7, <1>8, <1>9, <1>12

\* The innermost call returns.
LEMMA Returns ==
  ASSUME LoaderInv, loading = "loading", calls[1].left = << >>, Tail(calls) # << >>,
         NEW m \in Modules, calls[1].for = {m},
         calls' = Folded(m), configured' = Append(configured, m),
         UNCHANGED <<requires, declared, loadedModules, run, loading>>
  PROVE  LoaderInv'
<1> DEFINE n == Len(calls) - 1
           L == Len(configured)
<1>1. /\ Pieces /\ CallsNest /\ LoadedOnce /\ NothingLeftOut /\ LoaderTypeOK /\ ConfiguredInOrder
      /\ run = << >> /\ requires \in [Modules -> SUBSET Modules]
      /\ configured \in Seq(Modules) /\ L \in Nat /\ DOMAIN configured = 1..L
      /\ ToSet(configured) \subseteq Modules /\ loadedModules \subseteq Modules
      /\ \A i \in 1..Len(calls) : calls[i].for \subseteq Modules
  BY LoaderTyped DEF LoaderInv, RunsThen
<1>2. /\ Len(calls) \in Nat /\ Len(calls) > 1
      /\ calls' \in Seq(LoadCalls) /\ Len(calls') = n
      /\ calls'[1].blocks = (calls[2].blocks \o calls[1].blocks) \o <<m>>
      /\ \A i \in 1..n :
           /\ calls'[i].for = calls[i + 1].for /\ calls'[i].left = calls[i + 1].left
           /\ i # 1 => calls'[i].blocks = calls[i + 1].blocks
  BY FoldedCalls
<1>3. /\ n \in Nat /\ n > 0 /\ Len(calls) = n + 1 /\ 1 \in 1..(n + 1) /\ 2 \in 1..(n + 1)
      /\ \A i \in 1..n : i + 1 \in 1..(n + 1) /\ 1 < i + 1
  BY <1>2
<1>4. /\ configured' \in Seq(Modules) /\ Len(configured') = L + 1 /\ configured'[L + 1] = m
      /\ \A i \in 1..L : configured'[i] = configured[i]
      /\ DOMAIN configured' = 1..(L + 1)
  BY <1>1
<1>5. ToSet(configured') = ToSet(configured) \cup {m}
  <2>1. ToSet(configured') = {configured'[i] : i \in 1..(L + 1)} /\ ToSet(configured) = {configured[i] : i \in 1..L}
    BY <1>1, <1>4 DEF ToSet
  <2>2. 1..(L + 1) = 1..L \cup {L + 1}
    BY <1>1
  <2> QED
    BY <1>4, <2>1, <2>2
<1>6. m \notin ToSet(configured)
  BY <1>1, <1>2, <1>3 DEF CallsNest
<1>7. /\ \A k : Needs(k)' = Needs(k)
      /\ Wanted' = Wanted
  BY DEF Needs, Wanted
<1>8. \A i \in 1..n : \A k \in calls'[i].for : m \in Needs(k) /\ m # k /\ k \in Modules
  <2>1. SUFFICES ASSUME NEW i \in 1..n, NEW k \in calls'[i].for PROVE m \in Needs(k) /\ m # k /\ k \in Modules
    OBVIOUS
  <2>2. i + 1 \in 1..Len(calls) /\ 1 \in 1..Len(calls) /\ 1 < i + 1 /\ k \in calls[i + 1].for
    BY <1>2, <1>3
  <2>3. \A a, b \in 1..Len(calls) : \A x \in calls[a].for, y \in calls[b].for : a < b => x \in Needs(y) /\ x # y
    BY <1>1 DEF CallsNest
  <2> QED
    BY <1>1, <2>2, <2>3
<1> HIDE DEF n, L
<1>9. LoaderTypeOK'
  BY <1>1, <1>2, <1>4 DEF LoaderTypeOK, LoadCalls
<1>10. ConfiguredInOrder'
  <2>1. ASSUME NEW i \in 1..(L + 1), NEW j \in 1..(L + 1), configured'[i] = configured'[j] PROVE i = j
    <3>1. \A k \in 1..L : configured[k] # m
      BY <1>1, <1>6 DEF ToSet
    <3>2. (i \in 1..L \/ i = L + 1) /\ (j \in 1..L \/ j = L + 1)
      BY <1>1
    <3>3. CASE i \in 1..L /\ j \in 1..L
      BY <1>1, <1>4, <2>1, <3>3 DEF ConfiguredInOrder, IsInjective
    <3> QED
      BY <1>4, <2>1, <3>1, <3>2, <3>3
  <2>2. ASSUME NEW i \in 1..(L + 1), NEW r \in requires[configured'[i]], configured'[i] \notin Needs(r)
        PROVE  \E j \in 1..(i - 1) : configured'[j] = r
    <3>1. CASE i \in 1..L
      <4>1. configured'[i] = configured[i]
        BY <1>4, <3>1
      <4>2. r \in requires[configured[i]] /\ configured[i] \notin Needs(r)
        BY <2>2, <4>1
      <4>3. \A a \in 1..L : \A x \in requires[configured[a]] :
              configured[a] \notin Needs(x) => \E j \in 1..(a - 1) : configured[j] = x
        BY <1>1 DEF ConfiguredInOrder
      <4>4. PICK j \in 1..(i - 1) : configured[j] = r
        BY <3>1, <4>2, <4>3
      <4>5. j \in 1..L
        BY <1>1, <3>1
      <4> QED
        BY <1>4, <4>4, <4>5
    <3>2. CASE i = L + 1
      <4>1. r \in requires[m] /\ m \notin Needs(r) /\ requires[m] \subseteq Needs(m) /\ r \in Modules
        BY <1>1, <1>4, <2>2, <3>2, NeedsFacts
      <4>2. r \in loadedModules
        <5>1. requires[m] \subseteq ToSet(calls[1].left) \cup loadedModules
          BY <1>1, <1>2, <1>3 DEF NothingLeftOut
        <5>2. ToSet(calls[1].left) = {}
          BY DEF ToSet
        <5> QED
          BY <4>1, <5>1, <5>2
      <4>3. ASSUME NEW k \in 1..Len(calls), r \in calls[k].for PROVE FALSE
        <5>1. CASE k = 1
          BY <4>1, <4>3, <5>1
        <5>2. CASE k # 1
          <6>1. k - 1 \in 1..n /\ (k - 1) + 1 = k
            BY <1>3, <5>2
          <6>2. m \in Needs(r)
            BY <1>2, <1>8, <4>3, <6>1
          <6> QED
            BY <4>1, <6>2
        <5> QED
          BY <5>1, <5>2
      <4>4. r \in ToSet(configured)
        BY <1>1, <4>1, <4>2, <4>3 DEF LoadedOnce
      <4>5. PICK j \in 1..L : configured[j] = r
        BY <1>1, <4>4 DEF ToSet
      <4>6. j \in 1..(i - 1)
        BY <1>1, <3>2
      <4> QED
        BY <1>4, <4>5, <4>6
    <3> QED
      BY <1>1, <3>1, <3>2
  <2>3. requires' = requires
    OBVIOUS
  <2> QED
    <3>1. IsInjective(configured')
      BY <1>4, <2>1 DEF IsInjective
    <3>2. ASSUME NEW i \in DOMAIN configured', NEW r \in requires[configured'[i]],
                 configured'[i] \notin Needs(r)'
          PROVE  \E j \in 1..(i - 1) : configured'[j] = r
      <4>1. Needs(r)' = Needs(r)
        BY <1>7
      <4>2. i \in 1..(L + 1) /\ configured'[i] \notin Needs(r)
        BY <1>4, <3>2, <4>1
      <4> QED
        BY <2>2, <4>2
    <3> QED
      BY <2>3, <3>1, <3>2 DEF ConfiguredInOrder
<1>11. Pieces'
  <2>1. PICK b : CutAt(b)
    BY <1>1 DEF Pieces
  <2>c. PICK c : c = [i \in 0..n |-> IF i = 0 THEN L + 1 ELSE b[i + 1]]
    OBVIOUS
  <2>2. /\ b \in [0..(n + 1) -> 0..L] /\ b[0] = L /\ b[n + 1] = 0
        /\ \A i \in 1..(n + 1) : b[i] <= b[i - 1] /\ calls[i].blocks = SubSeq(configured, b[i] + 1, b[i - 1])
    BY <1>3, <2>1 DEF CutAt, L
  <2>3. /\ c \in [0..n -> 0..(L + 1)] /\ c[0] = L + 1 /\ c[n] = 0
        /\ \A i \in 1..n : c[i] = b[i + 1] /\ c[i] \in 0..L
    <3>1. \A i \in 0..n : c[i] = IF i = 0 THEN L + 1 ELSE b[i + 1]
      BY <2>c
    <3>2. 0 \in 0..n /\ n \in 1..n /\ \A i \in 1..n : i \in 0..n /\ i # 0 /\ i + 1 \in 0..(n + 1)
      BY <1>3
    <3>3. c[0] = L + 1
      BY <3>1, <3>2
    <3>4. \A i \in 1..n : c[i] = b[i + 1] /\ c[i] \in 0..L
      BY <2>2, <3>1, <3>2, ZenonT(60)
    <3>5. \A i \in 0..n : c[i] \in 0..(L + 1)
      <4>1. SUFFICES ASSUME NEW i \in 0..n PROVE c[i] \in 0..(L + 1)
        OBVIOUS
      <4>2. i = 0 \/ i \in 1..n
        BY <1>3
      <4> QED
        BY <1>1, <3>3, <3>4, <4>2
    <3> QED
      BY <2>2, <2>c, <3>2, <3>3, <3>4, <3>5
  <2>4. c[1] <= c[1 - 1] /\ calls'[1].blocks = SubSeq(configured', c[1] + 1, c[1 - 1])
    <3>1. 1 - 1 = 0 /\ 1 + 1 = 2 /\ 2 - 1 = 1 /\ 1 \in 1..n
      BY <1>3
    <3>2. b[1] \in 0..L /\ b[2] \in 0..L /\ c[1] = b[2] /\ c[0] = L + 1
      BY <1>3, <2>2, <2>3, <3>1
    <3>3. b[2] <= b[1] /\ calls[2].blocks = SubSeq(configured, b[2] + 1, b[1])
      BY <1>3, <2>2, <3>1
    <3>4. calls[1].blocks = SubSeq(configured, b[1] + 1, L)
      BY <1>3, <2>2, <3>1
    <3>5. (SubSeq(configured, b[2] + 1, b[1]) \o SubSeq(configured, b[1] + 1, L)) \o <<m>>
            = SubSeq(configured', b[2] + 1, L + 1)
      BY <1>1, <3>2, <3>3, TwoPieces DEF L
    <3>6. calls'[1].blocks = SubSeq(configured', c[1] + 1, c[0])
      BY <1>2, <3>2, <3>3, <3>4, <3>5
    <3>7. b[2] <= L + 1
      BY <1>1, <3>2
    <3> QED
      BY <3>1, <3>2, <3>6, <3>7
  <2>5. ASSUME NEW i \in 1..n, i # 1
        PROVE  c[i] <= c[i - 1] /\ calls'[i].blocks = SubSeq(configured', c[i] + 1, c[i - 1])
    <3>1. i - 1 \in 1..n /\ (i - 1) + 1 = i /\ (i + 1) - 1 = i /\ i + 1 \in 1..(n + 1)
      BY <1>3, <2>5
    <3>2. c[i] = b[i + 1] /\ c[i - 1] = b[i] /\ b[i + 1] \in 0..L /\ b[i] \in 0..L
      BY <2>3, <3>1
    <3>3. b[i + 1] <= b[i] /\ calls[i + 1].blocks = SubSeq(configured, b[i + 1] + 1, b[i])
      BY <2>2, <3>1
    <3>4. SubSeq(configured', b[i + 1] + 1, b[i]) = SubSeq(configured, b[i + 1] + 1, b[i])
      <4>1. b[i + 1] \in 0..Len(configured) /\ b[i] \in 0..Len(configured) /\ b[i + 1] <= b[i]
        BY <3>2, <3>3 DEF L
      <4>2. SubSeq(Append(configured, m), b[i + 1] + 1, b[i]) = SubSeq(configured, b[i + 1] + 1, b[i])
        <5> HIDE DEF L
        <5>1. configured \in Seq(Modules)
          BY <1>1
        <5>2. \A x, y \in 0..Len(configured) : x <= y =>
                SubSeq(Append(configured, m), x + 1, y) = SubSeq(configured, x + 1, y)
          BY <5>1, TwoPieces
        <5> QED
          BY <4>1, <5>2
      <4> QED
        BY <4>2
    <3> QED
      BY <1>2, <2>5, <3>2, <3>3, <3>4
  <2>6. \A i \in 1..n : c[i] <= c[i - 1] /\ calls'[i].blocks = SubSeq(configured', c[i] + 1, c[i - 1])
    BY <2>4, <2>5
  <2>7. CutAt(c)'
    BY <1>2, <1>4, <2>3, <2>6 DEF CutAt
  <2> QED
    BY <2>7 DEF Pieces
<1>12. CallsNest'
  <2>1. calls'[n].for = {}
    <3>1. n \in 1..n
      BY <1>3
    <3>2. calls[n + 1].for = {}
      BY <1>1, <1>3 DEF CallsNest
    <3> QED
      BY <1>2, <3>1, <3>2
  <2>2. ASSUME NEW i \in 1..(n - 1) PROVE \E k \in Modules : calls'[i].for = {k}
    <3>1. i \in 1..n /\ i + 1 \in 1..((n + 1) - 1)
      BY <1>3, <2>2
    <3>2. \A a \in 1..((n + 1) - 1) : \E k \in Modules : calls[a].for = {k}
      BY <1>1, <1>3 DEF CallsNest
    <3>3. calls'[i].for = calls[i + 1].for
      BY <1>2, <3>1
    <3> QED
      BY <3>1, <3>2, <3>3
  <2>3. ASSUME NEW i \in 1..n, NEW j \in 1..n, NEW k \in calls'[i].for, NEW l \in calls'[j].for, i < j
        PROVE  k \in Needs(l)' /\ k # l
    <3>1. i + 1 \in 1..(n + 1) /\ j + 1 \in 1..(n + 1) /\ i + 1 < j + 1
      BY <1>3, <2>3
    <3>2. k \in calls[i + 1].for /\ l \in calls[j + 1].for
      BY <1>2, <2>3
    <3>3. k \in Needs(l) /\ k # l
      BY <1>1, <1>3, <3>1, <3>2 DEF CallsNest
    <3>4. Needs(l)' = Needs(l)
      BY <1>7
    <3> QED
      BY <3>3, <3>4
  <2>4. ASSUME NEW i \in 1..n, NEW k \in calls'[i].for PROVE k \notin ToSet(configured')
    <3>1. k \notin ToSet(configured)
      BY <1>1, <1>2, <1>3 DEF CallsNest
    <3> QED
      BY <1>5, <1>8, <3>1
  <2>5. Len(calls') = n
    BY <1>2
  <2>6. (\A i, j \in 1..Len(calls) : \A k \in calls[i].for, l \in calls[j].for :
           i < j => k \in Needs(l) /\ k # l)'
    BY <2>3, <2>5
  <2>7. (\A i \in 1..Len(calls) : \A k \in calls[i].for : k \notin ToSet(configured))'
    BY <2>4, <2>5
  <2> QED
    BY <2>1, <2>2, <2>5, <2>6, <2>7 DEF CallsNest
<1>13. LoadedOnce'
  <2>1. ASSUME NEW k \in Modules
        PROVE  (\E i \in 1..(n + 1) : k \in calls[i].for) <=> k = m \/ \E i \in 1..n : k \in calls'[i].for
    <3>1. ASSUME NEW i \in 1..(n + 1), k \in calls[i].for PROVE k = m \/ \E j \in 1..n : k \in calls'[j].for
      <4>1. CASE i = 1
        BY <3>1, <4>1
      <4>2. CASE i # 1
        <5>1. i - 1 \in 1..n /\ (i - 1) + 1 = i
          BY <1>3, <4>2
        <5>2. calls'[i - 1].for = calls[i].for
          BY <1>2, <5>1
        <5> QED
          BY <3>1, <5>1, <5>2
      <4> QED
        BY <4>1, <4>2
    <3>2. m \in calls[1].for
      OBVIOUS
    <3> QED
      BY <1>2, <1>3, <3>1, <3>2
  <2> QED
    BY <1>1, <1>2, <1>3, <1>5, <2>1 DEF LoadedOnce
<1>14. NothingLeftOut'
  <2>1. ASSUME NEW i \in 1..n, NEW k \in calls'[i].for
        PROVE  /\ requires[k] \subseteq ToSet(calls'[i].left) \cup loadedModules
               /\ ToSet(calls'[i].left) \subseteq requires[k]
    BY <1>1, <1>2, <1>3, ZenonT(60) DEF NothingLeftOut
  <2>2. requires[m] \subseteq loadedModules
    <3>1. requires[m] \subseteq ToSet(calls[1].left) \cup loadedModules
      BY <1>1, <1>3 DEF NothingLeftOut
    <3>2. ToSet(calls[1].left) = {}
      BY DEF ToSet
    <3> QED
      BY <3>1, <3>2
  <2>3. \A k \in ToSet(configured') : requires[k] \subseteq loadedModules
    BY <1>1, <1>5, <2>2 DEF NothingLeftOut
  <2>4. App \in ToSet(calls'[n].left) \cup loadedModules
    <3>1. n \in 1..n
      BY <1>3
    <3> QED
      BY <1>1, <1>2, <1>3, <3>1 DEF NothingLeftOut
  <2>5. \A i \in 1..n : ToSet(calls'[i].left) \subseteq Wanted
    BY <1>1, <1>2, <1>3 DEF NothingLeftOut
  <2>6. loadedModules \subseteq Wanted
    BY <1>1 DEF NothingLeftOut
  <2>7. Len(calls') = n /\ requires' = requires /\ loadedModules' = loadedModules
    BY <1>2
  <2> QED
    BY <1>7, <2>1, <2>3, <2>4, <2>5, <2>6, <2>7 DEF NothingLeftOut
<1>15. RunsThen'
  BY <1>1 DEF RunsThen
<1> QED
  BY <1>2, <1>3, <1>9, <1>10, <1>11, <1>12, <1>13, <1>14, <1>15 DEF LoaderInv

\* The page's call returns: what it needs is configured.
LEMMA AllIsConfigured ==
  ASSUME App \in Modules, LoaderInv, loading = "loading", calls[1].left = << >>, Tail(calls) = << >>
  PROVE  ToSet(configured) = Wanted /\ calls[1].blocks = configured
<1>1. /\ Pieces /\ CallsNest /\ LoadedOnce /\ NothingLeftOut
      /\ requires \in [Modules -> SUBSET Modules] /\ loadedModules \subseteq Modules
      /\ calls \in Seq(LoadCalls) /\ calls # << >> /\ Len(calls) \in Nat /\ Len(calls) > 0
      /\ configured \in Seq(Modules) /\ Len(configured) \in Nat /\ ToSet(configured) \subseteq Modules
  BY LoaderTyped DEF LoaderInv
<1>2. Len(calls) = 1
  <2>1. Len(Tail(calls)) = Len(calls) - 1
    BY <1>1, Behind
  <2>2. \A t : t = << >> => Len(t) = 0
    OBVIOUS
  <2>3. Len(calls) - 1 = 0
    BY <2>1, <2>2, Zenon
  <2> QED
    BY <1>1, <2>3
<1>3. ToSet(calls[1].left) = {} /\ calls[1].for = {} /\ 1..1 = {1}
  <2>1. ToSet(calls[1].left) = {}
    BY DEF ToSet
  <2>2. calls[1].for = {}
    BY <1>1, <1>2 DEF CallsNest
  <2> QED
    BY <2>1, <2>2
<1>4. \A k \in Modules : k \in loadedModules <=> k \in ToSet(configured)
  BY <1>1, <1>2, <1>3 DEF LoadedOnce
<1>5. loadedModules = ToSet(configured)
  BY <1>1, <1>4
<1>6. /\ App \in ToSet(configured) /\ ToSet(configured) \subseteq Wanted
      /\ \A k \in ToSet(configured) : requires[k] \subseteq ToSet(configured)
  BY <1>1, <1>2, <1>3, <1>5 DEF NothingLeftOut
<1>7. Needs(App) \subseteq ToSet(configured)
  BY <1>1, <1>6, NeedsFacts
<1>8. calls[1].blocks = configured
  <2>1. PICK b : CutAt(b)
    BY <1>1 DEF Pieces
  <2>2. b[0] = Len(configured) /\ b[1] = 0 /\ 1 - 1 = 0 /\ 0 + 1 = 1 /\ 1 \in 1..Len(calls)
    BY <1>1, <1>2, <2>1 DEF CutAt
  <2>3. calls[1].blocks = SubSeq(configured, b[1] + 1, b[1 - 1])
    BY <2>1, <2>2 DEF CutAt
  <2>4. calls[1].blocks = SubSeq(configured, 1, Len(configured))
    BY <2>2, <2>3
  <2> QED
    BY <1>1, <2>4, SubSeqFull
<1> QED
  BY <1>6, <1>7, <1>8 DEF Wanted

\* One more run block is invoked.
LEMMA RunsOneMore ==
  ASSUME LoaderInv, loading = "running", calls[1].blocks # << >>,
         run' = Append(run, Head(calls[1].blocks)), calls' = [calls EXCEPT ![1].blocks = Tail(@)],
         UNCHANGED <<requires, declared, loadedModules, configured, loading>>
  PROVE  LoaderInv'
<1>1. /\ LoaderTypeOK /\ ConfiguredInOrder
      /\ calls \in Seq(LoadCalls) /\ Len(calls) \in Nat /\ 1 \in 1..Len(calls) /\ DOMAIN calls = 1..Len(calls)
      /\ calls[1] \in LoadCalls /\ calls[1].blocks \in Seq(Modules) /\ run \in Seq(Modules)
      /\ ToSet(configured) = Wanted /\ run \o calls[1].blocks = configured
  <2>1. /\ calls \in Seq(LoadCalls) /\ Len(calls) \in Nat /\ Len(calls) > 0 /\ run \in Seq(Modules)
        /\ \A i \in 1..Len(calls) : calls[i] \in LoadCalls /\ calls[i].blocks \in Seq(Modules)
    BY LoaderTyped
  <2>2. 1 \in 1..Len(calls) /\ DOMAIN calls = 1..Len(calls)
    BY <2>1
  <2>3. /\ LoaderTypeOK /\ ConfiguredInOrder
        /\ ToSet(configured) = Wanted /\ run \o calls[1].blocks = configured
    BY DEF LoaderInv, RunsThen
  <2>4. calls[1] \in LoadCalls /\ calls[1].blocks \in Seq(Modules)
    BY <2>1, <2>2
  <2> QED
    BY <2>1, <2>2, <2>3, <2>4
<1>2. /\ Append(run, Head(calls[1].blocks)) \in Seq(Modules) /\ Tail(calls[1].blocks) \in Seq(Modules)
      /\ Append(run, Head(calls[1].blocks)) \o Tail(calls[1].blocks) = run \o calls[1].blocks
  BY <1>1, OneMore
<1>3. [calls[1] EXCEPT !.blocks = Tail(@)] \in LoadCalls
  BY <1>1, <1>2 DEF LoadCalls
<1>4. calls' = [calls EXCEPT ![1] = [calls[1] EXCEPT !.blocks = Tail(@)]]
  BY <1>1
<1>5. calls' \in Seq(LoadCalls) /\ Len(calls') = Len(calls) /\ calls'[1] = [calls[1] EXCEPT !.blocks = Tail(@)]
  BY <1>1, <1>3, <1>4, ExceptSeq
<1>6. calls'[1].blocks = Tail(calls[1].blocks)
  BY <1>1, <1>5 DEF LoadCalls
<1>7. LoaderTypeOK'
  BY <1>1, <1>2, <1>5 DEF LoaderTypeOK, LoadCalls
<1>8. ConfiguredInOrder'
  <2>1. /\ IsInjective(configured)
        /\ \A i \in DOMAIN configured : \A k \in requires[configured[i]] :
             configured[i] \notin Needs(k) => \E j \in 1..(i - 1) : configured[j] = k
    BY <1>1 DEF ConfiguredInOrder
  <2>2. \A k : Needs(k)' = Needs(k)
    BY DEF Needs
  <2>3. configured' = configured /\ requires' = requires
    OBVIOUS
  <2> QED
    BY <2>1, <2>2, <2>3 DEF ConfiguredInOrder
<1>9. RunsThen'
  <2>1. Wanted' = Wanted
    BY DEF Wanted, Needs
  <2>2. run' \o calls'[1].blocks = configured'
    BY <1>1, <1>2, <1>6
  <2>3. ToSet(configured') = Wanted'
    BY <1>1, <2>1
  <2> QED
    BY <2>2, <2>3 DEF RunsThen
<1> QED
  BY <1>1, <1>5, <1>7, <1>8, <1>9 DEF LoaderInv

\* What stays when only the outcome changes.
LEMMA SameCalls ==
  ASSUME LoaderInv, UNCHANGED <<requires, calls, configured>>
  PROVE  ConfiguredInOrder' /\ Wanted' = Wanted /\ ToSet(configured)' = ToSet(configured)
<1>1. ConfiguredInOrder'
  BY DEF LoaderInv, ConfiguredInOrder, Needs
<1>2. Wanted' = Wanted /\ ToSet(configured)' = ToSet(configured)
  BY DEF Wanted, Needs
<1> QED
  BY <1>1, <1>2

\* A step of the loader keeps the invariant.
LEMMA LoaderKeeps ==
  ASSUME IsFiniteSet(Modules), App \in Modules, LoaderInv, LoaderNext PROVE LoaderInv'
<1>1. /\ LoaderTypeOK /\ ConfiguredInOrder /\ RunsThen /\ Len(calls) > 0
      /\ loading = "loading" => CallsNest /\ run = << >>
  BY DEF LoaderInv, RunsThen
<1>2. CASE LoadNext
  <2> DEFINE m == Head(calls[1].left)
  <2>1. loading = "loading" /\ calls[1].left # << >> /\ UNCHANGED <<requires, declared, configured, run>>
    BY <1>2 DEF LoadNext, Load
  <2>2. m \in Modules
    BY <2>1, RelievedCalls
  <2>3. CASE m \in loadedModules
    <3>1. calls' = Relieved /\ UNCHANGED <<loadedModules, loading>>
      BY <1>2, <2>3 DEF LoadNext, Load, Deeper, Relieved, Rest
    <3> QED
      BY <2>1, <2>3, <3>1, PassesOver
  <2>4. CASE m \notin loadedModules /\ m \notin declared
    <3>1. loading' = "failed" /\ calls' = calls /\ loadedModules' = loadedModules \cup {m}
      BY <1>2, <2>4 DEF LoadNext, Load, Mark
    <3>2. ConfiguredInOrder' /\ run' = << >>
      BY <1>1, <2>1, <3>1, SameCalls
    <3>3. LoaderTypeOK'
      BY <1>1, <2>1, <2>2, <3>1 DEF LoaderTypeOK
    <3> QED
      BY <1>1, <3>1, <3>2, <3>3 DEF LoaderInv, RunsThen
  <2>5. CASE m \notin loadedModules /\ m \in declared
    <3>1. /\ calls' = <<LoadCall(SetToSeq(requires[m]), {m}), Rest>> \o Tail(calls)
          /\ loadedModules' = loadedModules \cup {m} /\ loading' = loading
      BY <1>2, <2>5 DEF LoadNext, Load, Deeper, Rest, Mark
    <3>2. calls' = <<LoadCall(SetToSeq(requires[m]), {m})>> \o Relieved
      <4>1. Rest \in LoadCalls /\ calls \in Seq(LoadCalls) /\ calls # << >>
        BY <2>1, RelievedCalls, LoaderTyped
      <4>2. Tail(calls) \in Seq(LoadCalls)
        BY <4>1
      <4>3. ASSUME NEW S, NEW x \in S, NEW y \in S, NEW s \in Seq(S)
            PROVE  <<x, y>> \o s = <<x>> \o (<<y>> \o s)
        <5>1. /\ <<x>> \in Seq(S) /\ <<y>> \in Seq(S) /\ <<x, y>> \in Seq(S)
              /\ Len(<<x, y>>) = 2 /\ <<x, y>>[1] = x /\ <<x, y>>[2] = y
          OBVIOUS
        <5>2. /\ <<x>> \o <<y>> \in Seq(S) /\ Len(<<x>> \o <<y>>) = 2
              /\ (<<x>> \o <<y>>)[1] = x /\ (<<x>> \o <<y>>)[2] = y
          BY <5>1, InFront
        <5>3. <<x>> \o <<y>> = <<x, y>>
          <6>1. \A i \in 1..2 : i = 1 \/ i = 2
            OBVIOUS
          <6>2. \A i \in 1..2 : (<<x>> \o <<y>>)[i] = <<x, y>>[i]
            BY <5>1, <5>2, <6>1
          <6> QED
            BY <5>1, <5>2, <6>2, SeqEqual
        <5>4. (<<x>> \o <<y>>) \o s = <<x>> \o (<<y>> \o s)
          BY <5>1, ConcatAssociative
        <5> QED
          BY <5>3, <5>4, Zenon
      <4>4. LoadCall(SetToSeq(requires[m]), {m}) \in LoadCalls
        <5>1. requires[m] \in SUBSET Modules
          BY <2>2, LoaderTyped
        <5>2. IsFiniteSet(requires[m])
          BY <5>1, FS_Subset
        <5>3. SetToSeq(requires[m]) \in Seq(Modules)
          <6>1. SetToSeq(requires[m]) \in Seq(requires[m])
            BY <5>2, AsSequence
          <6> QED
            BY <5>1, <6>1, SeqMonotonic
        <5> QED
          BY <2>2, <5>3 DEF LoadCall, LoadCalls
      <4>5. <<LoadCall(SetToSeq(requires[m]), {m}), Rest>> \o Tail(calls)
              = <<LoadCall(SetToSeq(requires[m]), {m})>> \o (<<Rest>> \o Tail(calls))
        <5> DEFINE q == LoadCall(SetToSeq(requires[m]), {m})
                   t == Tail(calls)
        <5>1. q \in LoadCalls /\ Rest \in LoadCalls /\ t \in Seq(LoadCalls)
          BY <4>1, <4>2, <4>4
        <5> HIDE DEF q, t
        <5>2. \A x, y \in LoadCalls : \A s \in Seq(LoadCalls) : <<x, y>> \o s = <<x>> \o (<<y>> \o s)
          BY <4>3
        <5>3. <<q, Rest>> \o t = <<q>> \o (<<Rest>> \o t)
          BY <5>1, <5>2, Zenon
        <5> QED
          BY <5>3 DEF q, t
      <4> QED
        BY <3>1, <4>5, Zenon DEF Relieved
    <3> QED
      BY <2>1, <2>2, <2>5, <3>1, <3>2, Enters
  <2> QED
    BY <2>3, <2>4, <2>5
<1>3. CASE LoadReturns
  <2>1. /\ loading = "loading" /\ calls[1].left = << >> /\ Tail(calls) # << >>
        /\ UNCHANGED <<requires, declared, loadedModules, run>>
    BY <1>3 DEF LoadReturns, Load, Deeper
  <2>2. PICK m \in Modules : calls[1].for = {m}
    <3>1. /\ \A i \in 1..(Len(calls) - 1) : \E k \in Modules : calls[i].for = {k}
          /\ 1 \in 1..(Len(calls) - 1)
      <4>1. calls \in Seq(LoadCalls) /\ calls # << >>
        BY LoaderTyped
      <4>2. Len(calls) \in Nat /\ Len(calls) > 1
        BY <2>1, FoldedCalls, LoaderTyped
      <4> QED
        BY <1>1, <2>1, <4>2 DEF CallsNest
    <3> QED
      BY <3>1
  <2>3. (CHOOSE x \in calls[1].for : TRUE) = m
    BY <2>2
  <2>4. CASE calls' = Folded(m) /\ configured' = Append(configured, m) /\ loading' = loading
    BY <2>1, <2>2, <2>4, Returns
  <2>5. CASE loading' = "failed" /\ UNCHANGED <<calls, configured>>
    <3>1. ConfiguredInOrder' /\ run' = << >>
      BY <1>1, <2>1, <2>5, SameCalls
    <3>2. LoaderTypeOK'
      BY <1>1, <2>1, <2>5 DEF LoaderTypeOK
    <3> QED
      BY <1>1, <2>5, <3>1, <3>2 DEF LoaderInv, RunsThen
  <2>6. Deeper[1] = calls[2]
    <3>1. calls \in Seq(LoadCalls) /\ calls # << >> /\ Len(calls) \in Nat /\ Len(calls) > 1
      BY <2>1, <2>2, FoldedCalls, LoaderTyped
    <3>2. \A i \in 1..(Len(calls) - 1) : Tail(calls)[i] = calls[i + 1]
      BY <3>1, Behind
    <3>3. 1 \in 1..(Len(calls) - 1) /\ 1 + 1 = 2
      BY <3>1
    <3> QED
      BY <3>2, <3>3 DEF Deeper
  <2> QED
    BY <1>3, <2>3, <2>4, <2>5, <2>6 DEF LoadReturns, Load, Deeper, Folded, CallerOf
<1>4. CASE LoadEnds
  <2>1. /\ loading = "loading" /\ calls[1].left = << >> /\ Tail(calls) = << >> /\ loading' = "running"
        /\ UNCHANGED <<requires, declared, calls, loadedModules, configured, run>>
    BY <1>4 DEF LoadEnds, Load, Deeper
  <2>2. ToSet(configured) = Wanted /\ calls[1].blocks = configured
    BY <2>1, AllIsConfigured
  <2>3. ConfiguredInOrder' /\ Wanted' = Wanted /\ ToSet(configured)' = ToSet(configured)
    BY <2>1, SameCalls
  <2>4. run \o calls[1].blocks = configured
    BY <1>1, <2>1, <2>2, LoaderTyped
  <2>5. RunsThen'
    BY <2>1, <2>2, <2>3, <2>4 DEF RunsThen
  <2>6. LoaderTypeOK'
    BY <1>1, <2>1 DEF LoaderTypeOK
  <2> QED
    BY <1>1, <2>1, <2>3, <2>5, <2>6 DEF LoaderInv
<1>5. CASE RunBlock
  <2>1. loading = "running" /\ UNCHANGED <<requires, declared, loadedModules, configured>>
    BY <1>5 DEF RunBlock
  <2>2. CASE calls[1].blocks = << >> /\ loading' = "done" /\ UNCHANGED <<calls, run>>
    <3>1. ConfiguredInOrder' /\ Wanted' = Wanted /\ ToSet(configured)' = ToSet(configured)
      BY <2>1, <2>2, SameCalls
    <3>2. RunsThen'
      BY <1>1, <2>1, <2>2, <3>1 DEF RunsThen
    <3>3. LoaderTypeOK'
      BY <1>1, <2>1, <2>2 DEF LoaderTypeOK
    <3> QED
      BY <1>1, <2>2, <3>1, <3>2, <3>3 DEF LoaderInv
  <2>3. CASE /\ calls[1].blocks # << >> /\ run' = Append(run, Head(calls[1].blocks))
             /\ calls' = [calls EXCEPT ![1].blocks = Tail(@)] /\ loading' = loading
    BY <2>1, <2>3, RunsOneMore
  <2>4. CASE loading' = "failed" /\ UNCHANGED <<calls, run>>
    <3>1. ConfiguredInOrder' /\ Wanted' = Wanted /\ ToSet(configured)' = ToSet(configured)
      BY <2>1, <2>4, SameCalls
    <3>2. RunsThen'
      BY <1>1, <2>1, <2>4, <3>1 DEF RunsThen
    <3>3. LoaderTypeOK'
      BY <1>1, <2>1, <2>4 DEF LoaderTypeOK
    <3> QED
      BY <1>1, <2>4, <3>1, <3>2, <3>3 DEF LoaderInv
  <2> QED
    BY <1>5, <2>2, <2>3, <2>4 DEF RunBlock, Load
<1> QED
  BY <1>2, <1>3, <1>4, <1>5 DEF LoaderNext

\* The loader begins in the invariant.
LEMMA LoaderStarts ==
  ASSUME App \in Modules, requires \in [Modules -> SUBSET Modules], declared \subseteq Modules, LoaderInit
  PROVE  LoaderInv
<1> DEFINE first == LoadCall(<<App>>, {})
<1>1. calls = <<first>> /\ loadedModules = {} /\ configured = << >> /\ run = << >> /\ loading = "loading"
  BY DEF LoaderInit
<1>2. /\ first \in LoadCalls /\ first.for = {} /\ first.blocks = << >>
      /\ ToSet(first.left) = {App}
  <2>1. <<App>> \in Seq(Modules) /\ ToSet(<<App>>) = {App} /\ << >> \in Seq(Modules)
    BY DEF ToSet
  <2> QED
    BY <2>1 DEF LoadCall, LoadCalls
<1> HIDE DEF first
<1>3. calls \in Seq(LoadCalls) /\ Len(calls) = 1 /\ calls[1] = first /\ Len(calls) - 1 = 0
  BY <1>1, <1>2
<1>4. ToSet(configured) = {} /\ 1..1 = {1} /\ 1..0 = {} /\ Len(configured) = 0
  BY <1>1 DEF ToSet
<1>5. LoaderTypeOK
  BY <1>1, <1>3 DEF LoaderTypeOK, LoadCalls
<1>6. ConfiguredInOrder
  BY <1>1 DEF ConfiguredInOrder, IsInjective
<1>7. Pieces
  <2>1. PICK c : c = [i \in 0..1 |-> 0]
    OBVIOUS
  <2>2. c \in [0..1 -> 0..0] /\ c[0] = 0 /\ c[1] = 0 /\ 1 - 1 = 0
    BY <2>1
  <2>3. SubSeq(configured, 0 + 1, 0) = << >>
    BY <1>1
  <2>4. c[1] <= c[1 - 1] /\ calls[1].blocks = SubSeq(configured, c[1] + 1, c[1 - 1])
    BY <1>2, <1>3, <2>2, <2>3
  <2>5. CutAt(c)
    BY <1>3, <1>4, <2>2, <2>4 DEF CutAt
  <2> QED
    BY <2>5 DEF Pieces
<1>8. CallsNest
  BY <1>2, <1>3, <1>4 DEF CallsNest
<1>9. LoadedOnce
  BY <1>1, <1>2, <1>3, <1>4 DEF LoadedOnce
<1>10. NothingLeftOut
  BY <1>1, <1>2, <1>3, <1>4 DEF NothingLeftOut, Wanted
<1> QED
  BY <1>1, <1>3, <1>5, <1>6, <1>7, <1>8, <1>9, <1>10 DEF LoaderInv, RunsThen

\* Whatever the modules of a page require of each other, in circles or not, and whatever
\* throws: the queue of each runs once, after those of the modules that it requires (but
\* for a circle), and no run block before every module that the page needs is configured.
THEOREM LoaderKeepsOrder ==
  ASSUME IsFiniteSet(Modules), App \in Modules
  PROVE  /\ requires \in [Modules -> SUBSET Modules] /\ declared \subseteq Modules
         /\ LoaderInit /\ [][LoaderNext]_loaderVars
         => []ModulesLoad
<1>1. requires \in [Modules -> SUBSET Modules] /\ declared \subseteq Modules /\ LoaderInit => LoaderInv
  BY LoaderStarts
<1>2. LoaderInv /\ [LoaderNext]_loaderVars => LoaderInv'
  <2>1. CASE LoaderInv /\ LoaderNext
    BY <2>1, LoaderKeeps
  <2>2. CASE LoaderInv /\ UNCHANGED loaderVars
    <3>1. /\ LoaderTypeOK' /\ Pieces' = Pieces /\ LoadedOnce' = LoadedOnce
      BY <2>2 DEF LoaderInv, LoaderTypeOK, Pieces, CutAt, LoadedOnce, loaderVars
    <3>2. CallsNest' = CallsNest /\ NothingLeftOut' = NothingLeftOut
      <4>1. \A k : Needs(k)' = Needs(k)
        BY <2>2 DEF Needs, loaderVars
      <4>2. Wanted' = Wanted
        BY <4>1 DEF Wanted
      <4>3. CallsNest' = CallsNest
        BY <2>2, <4>1 DEF CallsNest, loaderVars
      <4>4. NothingLeftOut' = NothingLeftOut
        BY <2>2, <4>2 DEF NothingLeftOut, loaderVars
      <4> QED
        BY <4>3, <4>4
    <3>3. ConfiguredInOrder' /\ RunsThen'
      <4>1. UNCHANGED <<requires, calls, configured, run, loading>>
        BY <2>2 DEF loaderVars
      <4>2. ConfiguredInOrder' /\ Wanted' = Wanted
        BY <2>2, <4>1, SameCalls
      <4> QED
        BY <2>2, <4>1, <4>2 DEF LoaderInv, RunsThen
    <3> QED
      BY <2>2, <3>1, <3>2, <3>3 DEF LoaderInv, loaderVars
  <2> QED
    BY <2>1, <2>2
<1>3. LoaderInv => ModulesLoad
  BY LoaderInvIsEnough
<1> QED
  BY <1>1, <1>2, <1>3, PTL

\* The whole start of the page (createInjector): the modules are loaded in order, and
\* whoever asks the injector gets the one instance of a service.
THEOREM PageStartsInOrder ==
  ASSUME IsFiniteSet(Modules), App \in Modules, IsFiniteSet(Services)
  PROVE  /\ requires \in [Modules -> SUBSET Modules] /\ declared \subseteq Modules
         /\ LoaderInit /\ [][LoaderNext]_loaderVars
         /\ asks \in [Services -> SUBSET Services] /\ provided \subseteq Services
         /\ InjectorInit /\ [][InjectorNext]_injectorVars
         => []PageStarts
<1>1. ModulesLoad /\ ServicesAreCreatedOnce => PageStarts
  BY DEF PageStarts
<1> QED
  BY LoaderKeepsOrder, InjectorCreatesOnce, <1>1, PTL

-----------------------------------------------------------------------------
(* The elements *)

\* What the constants are: NoValue stands for no value that a watch has seen.
ElementConstants == NoValue \notin ClassValues /\ NoValue \notin Conditions

\* What the watch of ng-class saw last is on the element, with the classes of its own
\* that no value ever named; and the two elements under the condition differ.
DressInvariant ==
  /\ digested \in BOOLEAN
  /\ lastClass = NoValue => classes = OwnClasses /\ named = {} /\ ~digested
  /\ lastClass # NoValue => /\ lastClass.on \subseteq classes \cap named
                         /\ classes \subseteq lastClass.on \cup OwnClasses
                         /\ OwnClasses \ named \subseteq classes
  /\ (lastClass = NoValue) = (lastCondition = NoValue)
  /\ lastCondition # NoValue => {shownDisplay, hiddenDisplay} = {"", "none"}
  /\ digested => lastClass = classValue /\ lastCondition = condition

\* The digest keeps it, from whatever the models were when it ran last.
LEMMA DigestDresses ==
  ASSUME ElementConstants, DressInvariant, NEW c \in ClassValues, NEW v \in Conditions,
         DigestElements(c, v)
  PROVE  DressInvariant'
<1>1. c # NoValue /\ v # NoValue
  BY DEF ElementConstants
<1>2. /\ classValue' = c /\ condition' = v /\ lastClass' = c /\ lastCondition' = v
      /\ digested' = TRUE /\ named' = named \cup c.on
  BY DEF DigestElements
<1>3. /\ c.on \subseteq classes' \cap named'
      /\ classes' \subseteq c.on \cup OwnClasses
      /\ OwnClasses \ named' \subseteq classes'
  <2>1. CASE lastClass = c
    <3>1. classes' = classes
      BY <2>1 DEF DigestElements
    <3>2. QED
      BY <1>1, <1>2, <2>1, <3>1 DEF DressInvariant
  <2>2. CASE lastClass # c /\ lastClass = NoValue
    <3>1. classes' = classes \cup c.on
      BY <2>2 DEF DigestElements, ClassListener
    <3>2. classes = OwnClasses
      BY <2>2 DEF DressInvariant
    <3>3. QED
      BY <1>2, <3>1, <3>2
  <2>3. CASE lastClass # c /\ lastClass # NoValue
    <3>1. classes' = (classes \ lastClass.on) \cup c.on
      BY <2>3 DEF DigestElements, ClassListener
    <3>2. /\ lastClass.on \subseteq classes \cap named
          /\ classes \subseteq lastClass.on \cup OwnClasses
          /\ OwnClasses \ named \subseteq classes
      BY <2>3 DEF DressInvariant
    <3>3. QED
      BY <1>2, <3>1, <3>2
  <2>4. QED
    BY <2>1, <2>2, <2>3
<1>4. {shownDisplay', hiddenDisplay'} = {"", "none"}
  <2>1. CASE v = lastCondition
    BY <1>1, <2>1 DEF DigestElements, DressInvariant
  <2>2. CASE v # lastCondition
    BY <2>2 DEF DigestElements, Show, Hide
  <2>3. QED
    BY <2>1, <2>2
<1>5. QED
  BY <1>1, <1>2, <1>3, <1>4 DEF DressInvariant

\* Whatever values the expressions take, in a digest or outside of one: after a digest
\* an element with ng-class has the classes that its expression names and no other that
\* it named before, and of ng-show and ng-hide exactly one shows its element.
THEOREM ElementsAreDressed ==
  ASSUME ElementConstants
  PROVE  ElementInit /\ [][ElementNext]_elementVars => []DressIsTheModel
<1>1. ElementInit => DressInvariant
  BY DEF ElementInit, DressInvariant
<1>2. DressInvariant /\ [ElementNext]_elementVars => DressInvariant'
  <2> SUFFICES ASSUME DressInvariant, [ElementNext]_elementVars
               PROVE  DressInvariant'
    OBVIOUS
  <2>1. ASSUME NEW c \in ClassValues, NEW v \in Conditions, AssignOutside(c, v)
        PROVE  DressInvariant'
    BY <2>1 DEF AssignOutside, DressInvariant
  <2>2. ASSUME NEW c \in ClassValues, NEW v \in Conditions, Click(c, v)
        PROVE  DressInvariant'
    BY <2>2, DigestDresses DEF Click
  <2>3. CASE UNCHANGED elementVars
    BY <2>3 DEF elementVars, DressInvariant
  <2>4. QED
    BY <2>1, <2>2, <2>3 DEF ElementNext
<1>3. DressInvariant => DressIsTheModel
  <2> SUFFICES ASSUME DressInvariant, digested
               PROVE  /\ classValue.on \cup (OwnClasses \ named) \subseteq classes
                      /\ classes \subseteq classValue.on \cup OwnClasses
                      /\ {shownDisplay, hiddenDisplay} = {"", "none"}
    BY DEF DressIsTheModel
  <2>1. lastClass # NoValue /\ lastCondition # NoValue
    BY DEF DressInvariant
  <2>2. lastClass = classValue
    BY DEF DressInvariant
  <2>3. QED
    BY <2>1, <2>2 DEF DressInvariant
<1>4. QED
  BY <1>1, <1>2, <1>3, PTL

-----------------------------------------------------------------------------
(* The address *)

\* A window with its $location, $browser and route.
Win(e, a, l, u, replace, r) ==
  [entries |-> e, at |-> a, last |-> l, loc |-> [url |-> u, replace |-> replace], route |-> r]

\* One where $location asks for nothing more, and one where it asks to replace.
Still(e, a, l, u, r)     == Win(e, a, l, u, FALSE, r)
Replacing(e, a, l, u, r) == Win(e, a, l, u, TRUE, r)

\* One call of $locationWatch.
Watch(w) == IF Settled(w) THEN w ELSE Publish(w)

\* A digest that the third call would not continue ends after the second.
LEMMA DigestEnds ==
  ASSUME NEW w, Watch(Watch(Watch(w))) = Watch(Watch(w))
  PROVE  DigestFrom(w) = Watch(Watch(w))
<1> DEFINE F(f) == [n \in 0..TTL |-> IF n = 0 THEN w
                      ELSE LET v == f[n - 1] IN IF Settled(v) THEN v ELSE Publish(v)]
           d == CHOOSE f : f = F(f)
           g == [n \in 0..TTL |-> IF n = 0 THEN w ELSE IF n = 1 THEN Watch(w) ELSE Watch(Watch(w))]
<1>1. \A f : F(f) = [n \in 0..TTL |-> IF n = 0 THEN w ELSE Watch(f[n - 1])]
  BY DEF Watch
<1>2. g = F(g)
  <2>1. ASSUME NEW n \in 0..TTL
        PROVE  g[n] = IF n = 0 THEN w ELSE Watch(g[n - 1])
    <3>1. CASE n = 0
      BY <3>1
    <3>2. CASE n = 1
      <4>1. n - 1 = 0 /\ n - 1 \in 0..TTL
        BY <3>2 DEF TTL
      <4>2. QED
        BY <3>2, <4>1
    <3>3. CASE n = 2
      <4>1. n - 1 = 1 /\ n - 1 \in 0..TTL
        BY <3>3 DEF TTL
      <4>2. QED
        BY <3>3, <4>1
    <3>4. CASE n \notin {0, 1, 2}
      <4>1. n - 1 \in 0..TTL /\ n - 1 \notin {0, 1}
        BY <3>4 DEF TTL
      <4>2. g[n] = Watch(Watch(w)) /\ g[n - 1] = Watch(Watch(w))
        BY <3>4, <4>1
      <4>3. QED
        BY <3>4, <4>2
    <3>5. QED
      BY <3>1, <3>2, <3>3, <3>4
  <2> HIDE DEF F
  <2>2. F(g) = [n \in 0..TTL |-> IF n = 0 THEN w ELSE Watch(g[n - 1])]
    BY <1>1
  <2>3. g = [n \in 0..TTL |-> g[n]]
    OBVIOUS
  <2> HIDE DEF g
  <2>4. [n \in 0..TTL |-> g[n]] = [n \in 0..TTL |-> IF n = 0 THEN w ELSE Watch(g[n - 1])]
    BY <2>1
  <2>5. QED
    BY <2>2, <2>3, <2>4
<1>3. d = F(d)
  <2> HIDE DEF F, g
  <2>1. QED
    BY <1>2
<1>4. DigestFrom(w) = d[TTL]
  BY DEF DigestFrom
<1> HIDE DEF d
<1>5. d = [n \in 0..TTL |-> IF n = 0 THEN w ELSE Watch(d[n - 1])]
  <2> HIDE DEF F
  <2>1. QED
    BY <1>1, <1>3
<1>6. d[0] = w /\ \A n \in 1..TTL : d[n] = Watch(d[n - 1])
  <2>1. TTL = 10
    BY DEF TTL
  <2>2. 0 \in 0..TTL /\ \A n \in 1..TTL : n \in 0..TTL /\ n # 0
    BY <2>1
  <2>3. \A n \in 0..TTL : d[n] = IF n = 0 THEN w ELSE Watch(d[n - 1])
    BY <1>5
  <2>4. QED
    BY <2>2, <2>3
<1>7. d[10] = Watch(Watch(w))
  <2> DEFINE x == Watch(Watch(w))
  <2>1. \A n \in 1..10 : d[n] = Watch(d[n - 1])
    BY <1>6 DEF TTL
  <2>2. Watch(x) = x
    OBVIOUS
  <2>3. d[1] = Watch(d[0]) /\ d[2] = Watch(d[1])
    BY <2>1
  <2>4. d[2] = x
    BY <1>6, <2>3
  <2> HIDE DEF x
  <2>5. ASSUME NEW n \in 3..10, d[n - 1] = x
        PROVE  d[n] = x
    BY <2>1, <2>2, <2>5
  <2>6. d[3] = x
    BY <2>4, <2>5
  <2>7. d[4] = x
    BY <2>6, <2>5
  <2>8. d[5] = x
    BY <2>7, <2>5
  <2>9. d[6] = x
    BY <2>8, <2>5
  <2>10. d[7] = x
    BY <2>9, <2>5
  <2>11. d[8] = x
    BY <2>10, <2>5
  <2>12. d[9] = x
    BY <2>11, <2>5
  <2>13. d[10] = x
    BY <2>12, <2>5
  <2>14. QED
    BY <2>13 DEF x
<1>8. QED
  BY <1>4, <1>7 DEF TTL

\* What $browser.url makes of the history: it pushes, or replaces an entry.
LEMMA Pushed ==
  ASSUME NEW e \in Seq(Urls), NEW a \in 1..Len(e), NEW u \in Urls
  PROVE  LET f == Append(SubSeq(e, 1, a), u) IN
         /\ f \in Seq(Urls) /\ Len(f) = a + 1 /\ f[a + 1] = u
         /\ SubSeq(f, 1, a) = SubSeq(e, 1, a)
         /\ \A i \in 1..a : f[i] = e[i]
         /\ Len(SubSeq(e, 1, a)) = a /\ f \o << >> = f
<1> DEFINE k == SubSeq(e, 1, a)
           f == Append(k, u)
<1>1. Len(e) \in Nat
  OBVIOUS
<1>2. k \in Seq(Urls) /\ Len(k) = a /\ \A i \in 1..a : k[i] = e[i]
  BY <1>1, SubSeqProperties
<1>3. k \in Seq(Urls) /\ Len(k) = a /\ \A i \in 1..a : k[i] = e[i]
  BY <1>2
<1> HIDE DEF k
<1>4. f \in Seq(Urls) /\ Len(f) = a + 1 /\ f[a + 1] = u /\ \A i \in 1..a : f[i] = k[i]
  BY <1>1, <1>3, AppendProperties
<1> HIDE DEF f
<1>5. \A i \in 1..a : f[i] = e[i]
  BY <1>3, <1>4
<1>6. SubSeq(f, 1, a) = k
  <2>1. /\ SubSeq(f, 1, a) \in Seq(Urls) /\ Len(SubSeq(f, 1, a)) = a
        /\ \A i \in 1..a : SubSeq(f, 1, a)[i] = f[i]
    BY <1>1, <1>4, SubSeqProperties
  <2>2. QED
    BY <2>1, <1>3, <1>4, SeqEqual
<1>7. f \o << >> = f
  BY <1>4, ConcatEmptySeq
<1>8. QED
  BY <1>3, <1>4, <1>5, <1>6, <1>7 DEF k, f

LEMMA Replaced ==
  ASSUME NEW e \in Seq(Urls), NEW a \in 1..Len(e), NEW u \in Urls
  PROVE  LET f == Append(SubSeq(e, 1, a - 1), u) \o SubSeq(e, a + 1, Len(e)) IN
         /\ Len(SubSeq(e, 1, a - 1)) = a - 1
         /\ f = [e EXCEPT ![a] = u]
<1> DEFINE k == SubSeq(e, 1, a - 1)
           p == Append(k, u)
           q == SubSeq(e, a + 1, Len(e))
           f == p \o q
           g == [e EXCEPT ![a] = u]
<1>1. Len(e) \in Nat
  OBVIOUS
<1>2. k \in Seq(Urls) /\ Len(k) = a - 1 /\ \A i \in 1..(a - 1) : k[i] = e[i]
  BY <1>1, SubSeqProperties
<1>3. q \in Seq(Urls) /\ Len(q) = Len(e) - a /\ \A i \in 1..(Len(e) - a) : q[i] = e[a + i]
  <2>1. q \in Seq(Urls)
    BY <1>1, SubSeqProperties
  <2>2. Len(q) = Len(e) - a
    BY <1>1, SubSeqProperties
  <2>3. \A i \in 1..(Len(e) - a) : q[i] = e[a + i]
    BY <1>1, SubSeqProperties
  <2>4. QED
    BY <2>1, <2>2, <2>3
<1> HIDE DEF k, q
<1>4. p \in Seq(Urls) /\ Len(p) = a /\ p[a] = u /\ \A i \in 1..(a - 1) : p[i] = e[i]
  BY <1>1, <1>2, AppendProperties
<1> HIDE DEF p
<1>5. f \in Seq(Urls) /\ Len(f) = Len(e)
  <2>1. p \o q \in Seq(Urls) /\ Len(p \o q) = Len(p) + Len(q)
    BY <1>3, <1>4, ConcatProperties
  <2>2. Len(p) + Len(q) = Len(e)
    BY <1>1, <1>3, <1>4
  <2>3. QED
    BY <2>1, <2>2
<1>6. \A i \in 1..Len(e) : f[i] = IF i <= a THEN p[i] ELSE q[i - a]
  <2>1. \A i \in 1..(Len(p) + Len(q)) : (p \o q)[i] = IF i <= Len(p) THEN p[i] ELSE q[i - Len(p)]
    BY <1>3, <1>4, ConcatProperties
  <2>2. Len(p) + Len(q) = Len(e) /\ Len(p) = a
    BY <1>1, <1>3, <1>4
  <2>3. QED
    BY <2>1, <2>2
<1>7. g \in Seq(Urls) /\ Len(g) = Len(e) /\ \A i \in 1..Len(e) : g[i] = IF i = a THEN u ELSE e[i]
  BY <1>1
<1> HIDE DEF f, g
<1>8. ASSUME NEW i \in 1..Len(e) PROVE f[i] = g[i]
  <2>1. CASE i < a
    BY <2>1, <1>1, <1>4, <1>6, <1>7
  <2>2. CASE i = a
    BY <2>2, <1>1, <1>4, <1>6, <1>7
  <2>3. CASE i > a
    <3>1. i - a \in 1..(Len(e) - a) /\ a + (i - a) = i
      BY <2>3, <1>1
    <3>2. q[i - a] = e[a + (i - a)]
      BY <3>1, <1>3
    <3>3. QED
      BY <2>3, <3>1, <3>2, <1>1, <1>6, <1>7
  <2>4. QED
    BY <1>1, <2>1, <2>2, <2>3
<1>9. f = g
  BY <1>5, <1>7, <1>8, SeqEqual
<1>10. QED
  BY <1>2, <1>9 DEF k, p, q, f, g

\* A redirection leads to a view, which does not redirect.
LEMMA RedirectEnds ==
  ASSUME NEW u \in Urls
  PROVE  /\ RedirectTo(u) \in Views /\ RedirectTo(u) \in Urls
         /\ RedirectTo(RedirectTo(u)) = RedirectTo(u)
         /\ u \in Views <=> RedirectTo(u) = u
BY DEF RedirectTo, Urls, Views

\* The request to replace is taken back, and the route is updated.
TakeBack(w) == [w EXCEPT !.loc.replace = FALSE]

LEMMA ChangedWin ==
  ASSUME NEW e, NEW a, NEW l, NEW u, NEW b, NEW r
  PROVE  /\ RedirectTo(u) = u => Changed(TakeBack(Win(e, a, l, u, b, r))) = Still(e, a, l, u, u)
         /\ RedirectTo(u) # u =>
              Changed(TakeBack(Win(e, a, l, u, b, r))) = Replacing(e, a, l, RedirectTo(u), r)
<1>1. \A v : [Win(e, a, l, u, b, r) EXCEPT !.loc.replace = v] = Win(e, a, l, u, v, r)
  BY DEF Win
<1>2. [Win(e, a, l, u, b, r) EXCEPT !.loc.replace = FALSE] = Win(e, a, l, u, FALSE, r)
  BY <1>1, Zenon
<1>3. ASSUME NEW v, RedirectTo(u) = u
      PROVE  Changed(Win(e, a, l, u, v, r)) = Win(e, a, l, u, v, u)
  BY <1>3 DEF Changed, Win
<1>4. ASSUME NEW v, RedirectTo(u) # u
      PROVE  Changed(Win(e, a, l, u, v, r)) = Replacing(e, a, l, RedirectTo(u), r)
  <2>1. Changed(Win(e, a, l, u, v, r))
          = [Win(e, a, l, u, v, r) EXCEPT !.loc = [url |-> RedirectTo(u), replace |-> TRUE]]
    BY <1>4 DEF Changed, Win
  <2>2. QED
    BY <2>1 DEF Win, Replacing
<1>5. QED
  BY <1>2, <1>3, <1>4, Zenon DEF TakeBack, Still

LEMMA PublishWin ==
  ASSUME NEW e, NEW a, NEW l, NEW u, NEW b, NEW r
  PROVE  Publish(Win(e, a, l, u, b, r)) = Changed(TakeBack(SetUrl(Win(e, a, l, u, b, r), u, b)))
<1>1. \A w : Publish(w) = Changed(TakeBack(SetUrl(w, w.loc.url, w.loc.replace)))
  BY Zenon DEF Publish, TakeBack
<1>2. Win(e, a, l, u, b, r).loc.url = u /\ Win(e, a, l, u, b, r).loc.replace = b
  BY DEF Win
<1>3. QED
  BY <1>1, <1>2, Zenon

\* What one publication makes of a window: when $browser knows the address, when it
\* is pushed, and when it replaces the entry.
LEMMA PublishKnown ==
  ASSUME NEW e, NEW a, NEW u, NEW r
  PROVE  /\ RedirectTo(u) = u => Publish(Still(e, a, u, u, r)) = Still(e, a, u, u, u)
         /\ RedirectTo(u) # u =>
              Publish(Still(e, a, u, u, r)) = Replacing(e, a, u, RedirectTo(u), r)
<1>1. \A v : SetUrl(Win(e, a, u, u, v, r), u, v) = Win(e, a, u, u, v, r)
  BY DEF SetUrl, Win
<1>2. \A v : Publish(Win(e, a, u, u, v, r)) = Changed(TakeBack(Win(e, a, u, u, v, r)))
  BY <1>1, PublishWin, ZenonT(60)
<1>3. \A v : /\ RedirectTo(u) = u =>
                  Changed(TakeBack(Win(e, a, u, u, v, r))) = Still(e, a, u, u, u)
             /\ RedirectTo(u) # u =>
                  Changed(TakeBack(Win(e, a, u, u, v, r))) = Replacing(e, a, u, RedirectTo(u), r)
  BY ChangedWin, Zenon
<1>4. Publish(Still(e, a, u, u, r)) = Changed(TakeBack(Win(e, a, u, u, FALSE, r)))
  BY <1>2, Zenon DEF Still
<1>5. QED
  BY <1>3, <1>4, Zenon

\* The history after a push and after a replacement.
Push(e, a, u) == Append(SubSeq(e, 1, a), u)
Put(e, a, u)  == [e EXCEPT ![a] = u]

LEMMA PublishPushes ==
  ASSUME NEW e \in Seq(Urls), NEW a \in 1..Len(e), NEW l, NEW u \in Urls, NEW r, l # u
  PROVE  /\ RedirectTo(u) = u =>
              Publish(Still(e, a, l, u, r)) = Still(Push(e, a, u), a + 1, u, u, u)
         /\ RedirectTo(u) # u =>
              Publish(Still(e, a, l, u, r)) = Replacing(Push(e, a, u), a + 1, u, RedirectTo(u), r)
<1> DEFINE f == Push(e, a, u)
<1>1. Len(SubSeq(e, 1, a)) + 1 = a + 1 /\ f \o << >> = f
  BY Pushed DEF Push
<1>2. SetUrl(Win(e, a, l, u, FALSE, r), u, FALSE) = Win(f, a + 1, u, u, FALSE, r)
  BY <1>1 DEF SetUrl, Win, Push
<1> HIDE DEF f
<1>3. \A v : Publish(Win(e, a, l, u, v, r)) = Changed(TakeBack(SetUrl(Win(e, a, l, u, v, r), u, v)))
  BY PublishWin, Zenon
<1>4. Publish(Win(e, a, l, u, FALSE, r)) = Changed(TakeBack(Win(f, a + 1, u, u, FALSE, r)))
  BY <1>2, <1>3, Zenon
<1>5. \A v : /\ RedirectTo(u) = u =>
                  Changed(TakeBack(Win(f, a + 1, u, u, v, r))) = Still(f, a + 1, u, u, u)
             /\ RedirectTo(u) # u =>
                  Changed(TakeBack(Win(f, a + 1, u, u, v, r))) = Replacing(f, a + 1, u, RedirectTo(u), r)
  BY ChangedWin, Zenon
<1>6. Publish(Still(e, a, l, u, r)) = Changed(TakeBack(Win(f, a + 1, u, u, FALSE, r)))
  BY <1>4, Zenon DEF Still
<1>7. QED
  BY <1>5, <1>6, Zenon DEF f

LEMMA PublishReplaces ==
  ASSUME NEW e \in Seq(Urls), NEW a \in 1..Len(e), NEW l, NEW u \in Urls, NEW r, l # u
  PROVE  RedirectTo(u) = u =>
           Publish(Replacing(e, a, l, u, r)) = Still(Put(e, a, u), a, u, u, u)
<1> DEFINE f == Put(e, a, u)
<1>1. /\ Len(SubSeq(e, 1, a - 1)) = a - 1
      /\ Append(SubSeq(e, 1, a - 1), u) \o SubSeq(e, a + 1, Len(e)) = f
  BY Replaced DEF Put
<1>2. Len(SubSeq(e, 1, a - 1)) + 1 = a
  BY <1>1
<1> HIDE DEF f
<1>3. SetUrl(Win(e, a, l, u, TRUE, r), u, TRUE) = Win(f, a, u, u, TRUE, r)
  BY <1>1, <1>2 DEF SetUrl, Win
<1>4. \A v : Publish(Win(e, a, l, u, v, r)) = Changed(TakeBack(SetUrl(Win(e, a, l, u, v, r), u, v)))
  BY PublishWin, Zenon
<1>5. Publish(Win(e, a, l, u, TRUE, r)) = Changed(TakeBack(Win(f, a, u, u, TRUE, r)))
  BY <1>3, <1>4, Zenon
<1>6. \A v : /\ RedirectTo(u) = u =>
                  Changed(TakeBack(Win(f, a, u, u, v, r))) = Still(f, a, u, u, u)
             /\ RedirectTo(u) # u =>
                  Changed(TakeBack(Win(f, a, u, u, v, r))) = Replacing(f, a, u, RedirectTo(u), r)
  BY ChangedWin, Zenon
<1>7. RedirectTo(u) = u => Publish(Replacing(e, a, l, u, r)) = Still(f, a, u, u, u)
  BY <1>5, <1>6, Zenon DEF Replacing
<1>8. QED
  BY <1>7, Zenon DEF f

LEMMA PushGives ==
  ASSUME NEW e \in Seq(Urls), NEW a \in 1..Len(e), NEW u \in Urls
  PROVE  /\ Push(e, a, u) \in Seq(Urls) /\ Len(Push(e, a, u)) = a + 1 /\ Push(e, a, u)[a + 1] = u
         /\ SubSeq(Push(e, a, u), 1, a) = SubSeq(e, 1, a)
         /\ \A i \in 1..a : Push(e, a, u)[i] = e[i]
         /\ a \in Nat /\ a + 1 \in 1..Len(Push(e, a, u))
<1>1. Len(e) \in Nat
  OBVIOUS
<1>2. a \in Nat /\ a + 1 \in 1..(a + 1)
  BY <1>1
<1>3. QED
  BY <1>2, Pushed DEF Push

LEMMA PutGives ==
  ASSUME NEW e \in Seq(Urls), NEW n \in Nat, Len(e) = n + 1, NEW u \in Urls
  PROVE  /\ Put(e, n + 1, u) \in Seq(Urls) /\ Len(Put(e, n + 1, u)) = n + 1
         /\ Put(e, n + 1, u)[n + 1] = u
         /\ SubSeq(Put(e, n + 1, u), 1, n) = SubSeq(e, 1, n)
         /\ \A i \in 1..n : Put(e, n + 1, u)[i] = e[i]
<1> DEFINE g == Put(e, n + 1, u)
<1>1. n + 1 \in 1..Len(e) /\ n \in Int
  OBVIOUS
<1>2. g \in Seq(Urls) /\ Len(g) = n + 1 /\ g[n + 1] = u /\ \A i \in 1..n : g[i] = e[i]
  BY <1>1 DEF Put
<1> HIDE DEF g
<1>3. /\ SubSeq(g, 1, n) \in Seq(Urls) /\ Len(SubSeq(g, 1, n)) = n
      /\ \A i \in 1..n : SubSeq(g, 1, n)[i] = g[i]
  BY <1>1, <1>2, SubSeqProperties
<1>4. /\ SubSeq(e, 1, n) \in Seq(Urls) /\ Len(SubSeq(e, 1, n)) = n
      /\ \A i \in 1..n : SubSeq(e, 1, n)[i] = e[i]
  BY <1>1, SubSeqProperties
<1>5. SubSeq(g, 1, n) = SubSeq(e, 1, n)
  BY <1>2, <1>3, <1>4, SeqEqual
<1>6. QED
  BY <1>2, <1>5 DEF g

LEMMA WatchStill ==
  ASSUME NEW e, NEW a, NEW l, NEW u, NEW r
  PROVE  /\ r # "" /\ e[a] = u => /\ Watch(Still(e, a, l, u, r)) = Still(e, a, l, u, r)
                                  /\ Watch(Replacing(e, a, l, u, r)) = Replacing(e, a, l, u, r)
         /\ ~(r # "" /\ e[a] = u) =>
              /\ Watch(Still(e, a, l, u, r)) = Publish(Still(e, a, l, u, r))
              /\ Watch(Replacing(e, a, l, u, r)) = Publish(Replacing(e, a, l, u, r))
<1>1. \A v : Settled(Win(e, a, l, u, v, r)) <=> r # "" /\ e[a] = u
  BY DEF Settled, Win
<1>2. /\ Settled(Still(e, a, l, u, r)) <=> r # "" /\ e[a] = u
      /\ Settled(Replacing(e, a, l, u, r)) <=> r # "" /\ e[a] = u
  BY <1>1, Zenon DEF Still, Replacing
<1>3. QED
  BY <1>2, Zenon DEF Watch

\* A digest changes nothing of a page whose address stands in its history.
LEMMA DigestIdle ==
  ASSUME NEW e, NEW a, NEW l, NEW r, r # ""
  PROVE  DigestFrom(Still(e, a, l, e[a], r)) = Still(e, a, l, e[a], r)
<1> DEFINE w == Still(e, a, l, e[a], r)
<1>1. Watch(w) = w
  BY WatchStill
<1> HIDE DEF w
<1>2. Watch(Watch(w)) = w /\ Watch(Watch(Watch(w))) = Watch(Watch(w))
  BY <1>1
<1>3. DigestFrom(w) = w
  BY <1>2, DigestEnds
<1>4. QED
  BY <1>3 DEF w

LEMMA OneEntry ==
  ASSUME NEW u \in Urls, NEW R \in Urls
  PROVE  /\ <<u>> \in Seq(Urls) /\ 1 \in 1..Len(<<u>>) /\ <<u>>[1] = u
         /\ Put(<<u>>, 1, R) = <<R>> /\ <<R>>[1] = R
<1>1. <<u>> \in Seq(Urls) /\ Len(<<u>>) = 1 /\ <<u>>[1] = u
  OBVIOUS
<1>2. <<R>> \in Seq(Urls) /\ Len(<<R>>) = 1 /\ <<R>>[1] = R
  OBVIOUS
<1> DEFINE e == <<u>>
           g == Put(e, 0 + 1, R)
<1>3. e \in Seq(Urls) /\ Len(e) = 0 + 1 /\ 0 \in Nat
  BY <1>1
<1> HIDE DEF e
<1>4. g \in Seq(Urls) /\ Len(g) = 0 + 1 /\ g[0 + 1] = R
  BY <1>3, PutGives
<1>5. 0 + 1 = 1
  OBVIOUS
<1>6. Put(e, 1, R) \in Seq(Urls) /\ Len(Put(e, 1, R)) = 1 /\ Put(e, 1, R)[1] = R
  BY <1>4, <1>5
<1>7. Put(e, 1, R) = <<R>>
  BY <1>2, <1>6, SeqEqual
<1>8. 1 \in 1..Len(<<u>>)
  BY <1>1
<1>9. QED
  BY <1>1, <1>2, <1>7, <1>8 DEF e

\* The first digest replaces the address that redirects.
LEMMA DigestStarts ==
  ASSUME NEW u \in Urls
  PROVE  DigestFrom(Still(<<u>>, 1, u, u, ""))
           = Still(<<RedirectTo(u)>>, 1, RedirectTo(u), RedirectTo(u), RedirectTo(u))
<1> DEFINE R == RedirectTo(u)
           w == Still(<<u>>, 1, u, u, "")
           end == Still(<<R>>, 1, R, R, R)
<1>1. R \in Urls /\ RedirectTo(R) = R /\ R # ""
  BY RedirectEnds DEF Urls
<1> HIDE DEF R, w, end
<1>2. /\ <<u>> \in Seq(Urls) /\ 1 \in 1..Len(<<u>>) /\ <<u>>[1] = u
      /\ Put(<<u>>, 1, R) = <<R>> /\ <<R>>[1] = R
  <2>1. R \in Urls
    BY <1>1
  <2>2. QED
    BY <2>1, OneEntry
<1>3. Watch(end) = end
  <2>1. R # "" /\ <<R>>[1] = R
    BY <1>1, <1>2
  <2>2. ASSUME NEW e, e[1] = R
        PROVE  Watch(Still(e, 1, R, R, R)) = Still(e, 1, R, R, R)
    <3>1. R # "" /\ e[1] = R
      BY <2>1, <2>2
    <3>2. QED
      BY <3>1, WatchStill, Zenon
  <2>3. PICK e : e = <<R>>
    OBVIOUS
  <2>4. Watch(Still(e, 1, R, R, R)) = Still(e, 1, R, R, R)
    BY <2>1, <2>2, <2>3
  <2>5. QED
    BY <2>3, <2>4 DEF end
<1>4. Watch(w) = Publish(w)
  BY WatchStill DEF w
<1>5. CASE R = u
  <2>1. Publish(w) = end
    BY <1>5, PublishKnown, ZenonT(60) DEF w, end, R
  <2>2. Watch(Watch(w)) = end /\ Watch(Watch(Watch(w))) = Watch(Watch(w))
    BY <2>1, <1>3, <1>4
  <2>3. DigestFrom(w) = end
    BY <2>2, DigestEnds
  <2>4. QED
    BY <2>3 DEF w, end, R
<1>6. CASE R # u
  <2> DEFINE mid == Replacing(<<u>>, 1, u, R, "")
  <2>1. Publish(w) = mid
    <3>1. ASSUME NEW e, R # u
          PROVE  Publish(Still(e, 1, u, u, "")) = Replacing(e, 1, u, R, "")
      <4>1. RedirectTo(u) # u
        BY <3>1 DEF R
      <4>2. Publish(Still(e, 1, u, u, "")) = Replacing(e, 1, u, RedirectTo(u), "")
        BY <4>1, PublishKnown, ZenonT(60)
      <4>3. QED
        BY <4>2 DEF R
    <3>2. QED
      BY <1>6, <3>1, Zenon DEF w
  <2>2. Watch(mid) = Publish(mid)
    BY WatchStill
  <2>3. RedirectTo(R) = R => Publish(mid) = Still(Put(<<u>>, 1, R), 1, R, R, R)
    <3>1. <<u>> \in Seq(Urls) /\ 1 \in 1..Len(<<u>>) /\ R \in Urls /\ u # R
      BY <1>1, <1>2, <1>6
    <3>2. QED
      BY <3>1, PublishReplaces
  <2>4. Publish(mid) = end
    BY <2>3, <1>1, <1>2, Zenon DEF end
  <2> HIDE DEF mid
  <2>5. Watch(Watch(w)) = end /\ Watch(Watch(Watch(w))) = Watch(Watch(w))
    BY <2>1, <2>2, <2>4, <1>3, <1>4
  <2>6. DigestFrom(w) = end
    BY <2>5, DigestEnds
  <2>7. QED
    BY <2>6 DEF w, end, R
<1>7. QED
  BY <1>5, <1>6

\* What stands in the history after a link was followed from e[a].
Followed(g, e, a, R) ==
  /\ g \in Seq(Urls) /\ Len(g) = a + 1 /\ g[a + 1] = R
  /\ SubSeq(g, 1, a) = SubSeq(e, 1, a) /\ \A i \in 1..a : g[i] = e[i]

\* Where the page is elsewhere than at u.
Elsewhere(e, a, u, r) == r # "" /\ e[a] # u

LEMMA DigestFollows ==
  ASSUME NEW e \in Seq(Urls), NEW a \in 1..Len(e), NEW u \in Urls, NEW r, Elsewhere(e, a, u, r)
  PROVE  \E g : /\ Followed(g, e, a, RedirectTo(u))
                /\ DigestFrom(Still(e, a, e[a], u, r))
                     = Still(g, a + 1, RedirectTo(u), RedirectTo(u), RedirectTo(u))
<1> DEFINE R == RedirectTo(u)
           w == Still(e, a, e[a], u, r)
           f == Push(e, a, u)
           g == Put(f, a + 1, R)
           end == Still(g, a + 1, R, R, R)
<1> HIDE DEF R, w, f, g, end
<1>1. R \in Urls /\ RedirectTo(R) = R /\ R # ""
  BY RedirectEnds DEF Urls, R
<1>2. /\ f \in Seq(Urls) /\ Len(f) = a + 1 /\ f[a + 1] = u
      /\ SubSeq(f, 1, a) = SubSeq(e, 1, a) /\ \A i \in 1..a : f[i] = e[i]
      /\ a \in Nat /\ a + 1 \in 1..Len(f)
  <2>1. /\ Push(e, a, u) \in Seq(Urls) /\ Len(Push(e, a, u)) = a + 1 /\ Push(e, a, u)[a + 1] = u
        /\ SubSeq(Push(e, a, u), 1, a) = SubSeq(e, 1, a)
        /\ \A i \in 1..a : Push(e, a, u)[i] = e[i]
        /\ a \in Nat /\ a + 1 \in 1..Len(Push(e, a, u))
    BY PushGives
  <2>2. QED
    BY <2>1, Zenon DEF f
<1>3. Watch(w) = Publish(w)
  BY WatchStill DEF w, Elsewhere
<1>4. \A l : l # u =>
        /\ R = u => Publish(Still(e, a, l, u, r)) = Still(f, a + 1, u, u, u)
        /\ R # u => Publish(Still(e, a, l, u, r)) = Replacing(f, a + 1, u, R, r)
  <2> SUFFICES ASSUME NEW l, l # u
               PROVE  /\ R = u => Publish(Still(e, a, l, u, r)) = Still(f, a + 1, u, u, u)
                      /\ R # u => Publish(Still(e, a, l, u, r)) = Replacing(f, a + 1, u, R, r)
    OBVIOUS
  <2>1. QED
    BY PublishPushes DEF f, R
<1>5. CASE R = u
  <2>1. Publish(w) = Still(f, a + 1, u, u, u)
    BY <1>4, <1>5, Zenon DEF w, Elsewhere
  <2>2. Watch(Still(f, a + 1, u, u, u)) = Still(f, a + 1, u, u, u)
    <3>1. u # "" /\ f[a + 1] = u
      BY <1>1, <1>2, <1>5
    <3>2. QED
      BY <3>1, WatchStill, Zenon
  <2>3. Watch(Watch(w)) = Publish(w) /\ Watch(Watch(Watch(w))) = Watch(Watch(w))
    BY <1>3, <2>1, <2>2
  <2>4. DigestFrom(w) = Publish(w)
    BY <2>3, DigestEnds
  <2>5. Followed(f, e, a, R)
    BY <1>2, <1>5 DEF Followed
  <2>6. DigestFrom(w) = Still(f, a + 1, R, R, R)
    BY <2>1, <2>4, <1>5
  <2>7. QED
    BY <2>5, <2>6 DEF w, R
<1>6. CASE R # u
  <2> DEFINE mid == Replacing(f, a + 1, u, R, r)
  <2> HIDE DEF mid
  <2>1. Publish(w) = mid
    BY <1>4, <1>6, Zenon DEF w, Elsewhere, mid
  <2>2. f[a + 1] # R
    BY <1>2, <1>6
  <2>3. Watch(mid) = Publish(mid)
    BY <2>2, WatchStill, Zenon DEF mid
  <2>4. RedirectTo(R) = R => Publish(mid) = Still(g, a + 1, R, R, R)
    <3>1. f \in Seq(Urls) /\ a + 1 \in 1..Len(f) /\ R \in Urls /\ u # R
      BY <1>1, <1>2, <1>6
    <3>2. QED
      BY <3>1, PublishReplaces, Zenon DEF g, mid
  <2>5. Publish(mid) = end
    BY <2>4, <1>1, Zenon DEF end
  <2>6. /\ g \in Seq(Urls) /\ Len(g) = a + 1 /\ g[a + 1] = R
        /\ SubSeq(g, 1, a) = SubSeq(f, 1, a) /\ \A i \in 1..a : g[i] = f[i]
    <3>1. f \in Seq(Urls) /\ a \in Nat /\ Len(f) = a + 1 /\ R \in Urls
      BY <1>1, <1>2
    <3>2. QED
      BY <3>1, PutGives, ZenonT(60) DEF g
  <2>7. Followed(g, e, a, R)
    BY <1>2, <2>6 DEF Followed
  <2>8. Watch(end) = end
    <3>1. R # "" /\ g[a + 1] = R
      BY <1>1, <2>6
    <3>2. QED
      BY <3>1, WatchStill, Zenon DEF end
  <2>9. Watch(Watch(w)) = end /\ Watch(Watch(Watch(w))) = Watch(Watch(w))
    BY <2>1, <2>3, <2>5, <2>8, <1>3
  <2>10. DigestFrom(w) = end
    BY <2>9, DigestEnds
  <2>11. QED
    BY <2>7, <2>10 DEF w, end, R
<1>7. QED
  BY <1>5, <1>6

-----------------------------------------------------------------------------
(* The history *)

\* Between the events the history, $browser and $location have one address, which is
\* that of the view; and none in the history redirects, once the page has started.
AddressInvariant ==
  /\ entries \in Seq(Urls) /\ at \in 1..Len(entries)
  /\ lastBrowserUrl = entries[at] /\ location = [url |-> entries[at], replace |-> FALSE]
  /\ route = "" => Len(entries) = 1
  /\ route # "" => route = entries[at] /\ \A i \in 1..Len(entries) : entries[i] \in Views

LEMMA WindowIsStill ==
  ASSUME AddressInvariant
  PROVE  Window = Still(entries, at, entries[at], entries[at], route)
<1>1. lastBrowserUrl = entries[at] /\ location = [url |-> entries[at], replace |-> FALSE]
  BY DEF AddressInvariant
<1>2. QED
  BY <1>1, Zenon DEF Window, Still, Win

LEMMA StillBecomes ==
  ASSUME NEW e, NEW a, NEW l, NEW u, NEW r, LocationBecomes(Still(e, a, l, u, r))
  PROVE  /\ entries' = e /\ at' = a /\ lastBrowserUrl' = l
         /\ location' = [url |-> u, replace |-> FALSE] /\ route' = r
<1>1. \A v : /\ Win(e, a, l, u, v, r).entries = e /\ Win(e, a, l, u, v, r).at = a
             /\ Win(e, a, l, u, v, r).last = l /\ Win(e, a, l, u, v, r).route = r
             /\ Win(e, a, l, u, v, r).loc = [url |-> u, replace |-> v]
  BY DEF Win
<1>2. QED
  BY <1>1, Zenon DEF LocationBecomes, Still

LEMMA ViewsAreUrls == Views \subseteq Urls /\ "" \notin Urls
BY DEF Views, Urls

LEMMA LocationInitHolds == LocationInit => AddressInvariant
<1> SUFFICES ASSUME NEW u \in Urls, entries = <<u>>, at = 1, lastBrowserUrl = u,
                    location = [url |-> u, replace |-> FALSE], route = ""
             PROVE  AddressInvariant
  BY DEF LocationInit
<1>1. <<u>> \in Seq(Urls) /\ 1 \in 1..Len(<<u>>) /\ <<u>>[1] = u
  BY OneEntry
<1>2. Len(<<u>>) = 1
  OBVIOUS
<1>3. QED
  BY <1>1, <1>2, Zenon DEF AddressInvariant

\* Where a digest leaves the page: at an address of the history that does not redirect.
Arrived(g, n) == /\ g \in Seq(Urls) /\ n \in 1..Len(g)
                 /\ \A i \in 1..Len(g) : g[i] \in Views

LEMMA ArrivedKeeps ==
  ASSUME NEW g, NEW n, Arrived(g, n), LocationBecomes(Still(g, n, g[n], g[n], g[n]))
  PROVE  AddressInvariant' /\ entries' = g /\ at' = n /\ route' = g[n]
<1>1. /\ entries' = g /\ at' = n /\ lastBrowserUrl' = g[n]
      /\ location' = [url |-> g[n], replace |-> FALSE] /\ route' = g[n]
  BY StillBecomes, Zenon
<1>2. g \in Seq(Urls) /\ n \in 1..Len(g) /\ \A i \in 1..Len(g) : g[i] \in Views
  BY DEF Arrived
<1>3. g[n] # ""
  BY <1>2, ViewsAreUrls, Zenon
<1>4. QED
  BY <1>1, <1>2, <1>3, Zenon DEF AddressInvariant

LEMMA OneArrived ==
  ASSUME NEW R \in Views
  PROVE  Arrived(<<R>>, 1) /\ <<R>>[1] = R
<1>1. R \in Urls
  BY ViewsAreUrls, Zenon
<1>2. <<R>> \in Seq(Urls) /\ 1 \in 1..Len(<<R>>) /\ <<R>>[1] = R
  BY <1>1, OneEntry, Zenon
<1>3. \A i \in 1..Len(<<R>>) : <<R>>[i] \in Views
  OBVIOUS
<1>4. QED
  BY <1>2, <1>3, Zenon DEF Arrived

LEMMA OnlyOne ==
  ASSUME NEW e \in Seq(Urls), NEW a \in 1..Len(e), Len(e) = 1
  PROVE  a = 1 /\ e[a] \in Urls /\ e = <<e[a]>>
<1>1. a = 1 /\ e[a] \in Urls
  OBVIOUS
<1> DEFINE u == e[a]
<1>2. u \in Urls /\ \A i \in 1..1 : e[i] = u
  BY <1>1
<1> HIDE DEF u
<1>3. <<u>> \in Seq(Urls) /\ Len(<<u>>) = 1 /\ \A i \in 1..1 : <<u>>[i] = u
  BY <1>2
<1>4. e = <<u>>
  BY <1>2, <1>3, SeqEqual
<1>5. QED
  BY <1>1, <1>4 DEF u

\* The first digest.
LEMMA StartKeeps ==
  ASSUME AddressInvariant, Start
  PROVE  AddressInvariant'
<1>1. entries \in Seq(Urls) /\ at \in 1..Len(entries) /\ Len(entries) = 1
  BY Zenon DEF AddressInvariant, Start
<1> DEFINE u == entries[at]
           R == RedirectTo(u)
<1>2. at = 1 /\ u \in Urls /\ entries = <<u>>
  BY <1>1, OnlyOne
<1>3. Window = Still(entries, at, u, u, route)
  BY WindowIsStill, Zenon
<1>4. route = "" /\ LocationBecomes(DigestFrom(Window))
  BY Zenon DEF Start
<1> HIDE DEF u
<1>5. Window = Still(<<u>>, 1, u, u, "")
  BY <1>2, <1>3, <1>4, Zenon
<1>6. DigestFrom(Still(<<u>>, 1, u, u, "")) = Still(<<R>>, 1, R, R, R)
  BY <1>2, DigestStarts, Zenon
<1>7. R \in Views
  BY <1>2, RedirectEnds, Zenon
<1> HIDE DEF R
<1>8. Arrived(<<R>>, 1) /\ <<R>>[1] = R
  BY <1>7, OneArrived, Zenon
<1>9. LocationBecomes(Still(<<R>>, 1, <<R>>[1], <<R>>[1], <<R>>[1]))
  BY <1>4, <1>5, <1>6, <1>8, Zenon
<1>10. QED
  BY <1>8, <1>9, ArrivedKeeps, Zenon

\* $location is given another address.
LEMMA GivesUrl ==
  ASSUME NEW e, NEW a, NEW l, NEW v, NEW u, NEW r
  PROVE  [Still(e, a, l, v, r) EXCEPT !.loc.url = u] = Still(e, a, l, u, r)
<1>1. \A b : [Win(e, a, l, v, b, r) EXCEPT !.loc.url = u] = Win(e, a, l, u, b, r)
  BY DEF Win
<1>2. QED
  BY <1>1, Zenon DEF Still

\* What a followed link makes of a started page.
LinkAdded(u) ==
  /\ at' = at + 1 /\ Len(entries') = at'
  /\ SubSeq(entries', 1, at) = SubSeq(entries, 1, at)
  /\ entries'[at'] = RedirectTo(u) /\ route' = RedirectTo(u)

LEMMA FollowedArrives ==
  ASSUME NEW e \in Seq(Urls), NEW a \in 1..Len(e), NEW R \in Views, NEW g,
         \A i \in 1..Len(e) : e[i] \in Views, Followed(g, e, a, R)
  PROVE  Arrived(g, a + 1)
<1>1. g \in Seq(Urls) /\ Len(g) = a + 1 /\ g[a + 1] = R /\ \A i \in 1..a : g[i] = e[i]
  BY Zenon DEF Followed
<1>2. Len(e) \in Nat
  OBVIOUS
<1>3. a + 1 \in 1..Len(g)
  BY <1>1, <1>2
<1>4. ASSUME NEW i \in 1..Len(g)
      PROVE  g[i] \in Views
  <2>1. CASE i = a + 1
    BY <2>1, <1>1
  <2>2. CASE i # a + 1
    <3>1. i \in 1..a /\ i \in 1..Len(e)
      BY <2>2, <1>1, <1>2
    <3>2. g[i] = e[i]
      BY <3>1, <1>1, Zenon
    <3>3. QED
      BY <3>1, <3>2, Zenon
  <2>3. QED
    BY <2>1, <2>2
<1>5. QED
  BY <1>1, <1>3, <1>4, Zenon DEF Arrived

LEMMA FollowKeeps ==
  ASSUME AddressInvariant, NEW u \in Urls, Follow(u)
  PROVE  AddressInvariant' /\ (location.url # u => LinkAdded(u))
<1>1. /\ entries \in Seq(Urls) /\ at \in 1..Len(entries) /\ route # ""
      /\ \A i \in 1..Len(entries) : entries[i] \in Views
      /\ route = entries[at] /\ location = [url |-> entries[at], replace |-> FALSE]
  BY Zenon DEF AddressInvariant, Follow
<1> DEFINE v == entries[at]
           R == RedirectTo(u)
<1>2. Window = Still(entries, at, v, v, route)
  BY WindowIsStill, Zenon
<1>3. LocationBecomes(DigestFrom([Window EXCEPT !.loc.url = u]))
  BY Zenon DEF Follow
<1>4. LocationBecomes(DigestFrom(Still(entries, at, v, u, route)))
  <2> HIDE DEF v
  <2>1. [Still(entries, at, v, v, route) EXCEPT !.loc.url = u] = Still(entries, at, v, u, route)
    BY GivesUrl
  <2>2. QED
    BY <1>2, <1>3, <2>1, Zenon
<1>5. location.url = v
  BY <1>1
<1>6. CASE u = v
  <2>1. DigestFrom(Still(entries, at, v, v, route)) = Still(entries, at, v, v, route)
    BY <1>1, DigestIdle, Zenon
  <2>2. LocationBecomes(Still(entries, at, v, v, v))
    BY <1>1, <1>4, <1>6, <2>1, Zenon
  <2>3. Arrived(entries, at)
    BY <1>1, Zenon DEF Arrived
  <2>4. AddressInvariant'
    BY <2>2, <2>3, ArrivedKeeps, Zenon
  <2>5. QED
    BY <2>4, <1>5, <1>6, Zenon
<1>7. CASE u # v
  <2>1. Elsewhere(entries, at, u, route)
    BY <1>1, <1>7, Zenon DEF Elsewhere
  <2>2. PICK g : /\ Followed(g, entries, at, R)
                 /\ DigestFrom(Still(entries, at, v, u, route)) = Still(g, at + 1, R, R, R)
    <3>1. entries \in Seq(Urls) /\ at \in 1..Len(entries)
      BY <1>1, Zenon
    <3>2. QED
      BY <3>1, <2>1, DigestFollows
  <2>3. R \in Views
    BY RedirectEnds, Zenon
  <2> HIDE DEF R
  <2>4. Arrived(g, at + 1)
    BY <1>1, <2>2, <2>3, FollowedArrives, Zenon
  <2>5. /\ Len(g) = at + 1 /\ g[at + 1] = R /\ SubSeq(g, 1, at) = SubSeq(entries, 1, at)
    BY <2>2, Zenon DEF Followed
  <2>6. LocationBecomes(Still(g, at + 1, g[at + 1], g[at + 1], g[at + 1]))
    BY <1>4, <2>2, <2>5, Zenon
  <2>7. AddressInvariant' /\ entries' = g /\ at' = at + 1 /\ route' = g[at + 1]
    BY <2>4, <2>6, ArrivedKeeps, Zenon
  <2>8. LinkAdded(u)
    BY <2>5, <2>7, Zenon DEF LinkAdded, R
  <2>9. QED
    BY <2>7, <2>8, Zenon
<1>8. QED
  BY <1>6, <1>7, Zenon

\* The user goes back or forward, and the page follows.
LEMMA Travels ==
  ASSUME NEW e, NEW a, NEW l, NEW u, NEW r, NEW i
  PROVE  [Still(e, a, l, u, r) EXCEPT !.at = i] = Still(e, i, l, u, r)
<1>1. \A b : [Win(e, a, l, u, b, r) EXCEPT !.at = i] = Win(e, i, l, u, b, r)
  BY DEF Win
<1>2. QED
  BY <1>1, Zenon DEF Still

LEMMA IsTold ==
  ASSUME NEW e, NEW a, NEW l, NEW u, NEW r, NEW k
  PROVE  [Still(e, a, l, u, r) EXCEPT !.last = k] = Still(e, a, k, u, r)
<1>1. \A b : [Win(e, a, l, u, b, r) EXCEPT !.last = k] = Win(e, a, k, u, b, r)
  BY DEF Win
<1>2. QED
  BY <1>1, Zenon DEF Still

LEMMA ChangesRoute ==
  ASSUME NEW e, NEW a, NEW l, NEW u, NEW r, RedirectTo(u) = u
  PROVE  Changed(Still(e, a, l, u, r)) = Still(e, a, l, u, u)
<1>1. \A b : Changed(Win(e, a, l, u, b, r)) = Win(e, a, l, u, b, u)
  BY DEF Win, Changed
<1>2. QED
  BY <1>1, Zenon DEF Still

LEMMA TravelKeeps ==
  ASSUME AddressInvariant, NEW i, Travel(i)
  PROVE  AddressInvariant'
<1>1. /\ entries \in Seq(Urls) /\ at \in 1..Len(entries) /\ route # ""
      /\ \A j \in 1..Len(entries) : entries[j] \in Views
      /\ route = entries[at] /\ location = [url |-> entries[at], replace |-> FALSE]
      /\ lastBrowserUrl = entries[at] /\ i \in DOMAIN entries
  BY Zenon DEF AddressInvariant, Travel
<1> DEFINE v == entries[at]
           n == entries[i]
           there == [Window EXCEPT !.at = i]
           told == [there EXCEPT !.last = n]
<1>2. DOMAIN entries = 1..Len(entries)
  <2>1. entries \in Seq(Urls)
    BY <1>1, Zenon
  <2>2. QED
    BY <2>1, LenProperties
<1>3. Arrived(entries, i)
  BY <1>1, <1>2, Zenon DEF Arrived
<1>4. RedirectTo(n) = n /\ n # ""
  <2>1. n \in Views
    BY <1>1, <1>2, Zenon
  <2>2. QED
    BY <2>1, ViewsAreUrls DEF Views
<1>5. there = Still(entries, i, v, v, route)
  <2>1. Window = Still(entries, at, v, v, route)
    BY WindowIsStill, Zenon
  <2> HIDE DEF v
  <2>2. [Still(entries, at, v, v, route) EXCEPT !.at = i] = Still(entries, i, v, v, route)
    BY Travels
  <2>3. QED
    BY <2>1, <2>2, Zenon
<1>6. told = Still(entries, i, n, v, route)
  <2> HIDE DEF v, n, there
  <2>1. [Still(entries, i, v, v, route) EXCEPT !.last = n] = Still(entries, i, n, v, route)
    BY IsTold
  <2>2. QED
    BY <1>5, <2>1, Zenon
<1>7. location.url = v
  BY <1>1
<1>8. IF lastBrowserUrl = n THEN LocationBecomes(there)
      ELSE LocationBecomes(IF location.url = n THEN told
                           ELSE DigestFrom(Changed([told EXCEPT !.loc.url = n])))
  BY Zenon DEF Travel
<1> HIDE DEF v, n, there, told
<1>9. CASE v = n
  <2>1. LocationBecomes(there)
    BY <1>1, <1>8, <1>9, Zenon DEF v
  <2>2. LocationBecomes(Still(entries, i, n, n, n))
    BY <1>1, <1>5, <1>9, <2>1, Zenon DEF v
  <2>3. QED
    BY <1>3, <2>2, ArrivedKeeps, Zenon DEF n
<1>10. CASE v # n
  <2>1. LocationBecomes(DigestFrom(Changed([told EXCEPT !.loc.url = n])))
    BY <1>1, <1>7, <1>8, <1>10, Zenon DEF v
  <2>2. [told EXCEPT !.loc.url = n] = Still(entries, i, n, n, route)
    <3>1. [Still(entries, i, n, v, route) EXCEPT !.loc.url = n] = Still(entries, i, n, n, route)
      BY GivesUrl
    <3>2. QED
      BY <1>6, <3>1, Zenon
  <2>3. Changed(Still(entries, i, n, n, route)) = Still(entries, i, n, n, n)
    <3>1. RedirectTo(n) = n
      BY <1>4, Zenon
    <3>2. QED
      BY <3>1, ChangesRoute
  <2>4. DigestFrom(Still(entries, i, n, n, n)) = Still(entries, i, n, n, n)
    BY <1>4, DigestIdle, Zenon DEF n
  <2>5. LocationBecomes(Still(entries, i, n, n, n))
    BY <2>1, <2>2, <2>3, <2>4, Zenon
  <2>6. QED
    BY <1>3, <2>5, ArrivedKeeps, Zenon DEF n
<1>11. QED
  BY <1>9, <1>10, Zenon

LEMMA LocationStays ==
  ASSUME AddressInvariant, UNCHANGED locationVars
  PROVE  AddressInvariant'
BY Zenon DEF AddressInvariant, locationVars

LEMMA LocationNextKeeps ==
  AddressInvariant /\ [LocationNext]_locationVars => AddressInvariant'
<1> SUFFICES ASSUME AddressInvariant, [LocationNext]_locationVars
             PROVE  AddressInvariant'
  OBVIOUS
<1>1. CASE Start
  BY <1>1, StartKeeps, Zenon
<1>2. ASSUME NEW u \in Urls, Follow(u)
      PROVE  AddressInvariant'
  BY <1>2, FollowKeeps, Zenon
<1>3. ASSUME NEW i \in 1..MaxEntries, Travel(i)
      PROVE  AddressInvariant'
  BY <1>3, TravelKeeps, Zenon
<1>4. CASE UNCHANGED locationVars
  BY <1>4, LocationStays, Zenon
<1>5. QED
  BY <1>1, <1>2, <1>3, <1>4, Zenon DEF LocationNext

\* Whatever is followed, redirected and travelled, the window, $browser, $location
\* and the view agree on the address between two events, and nothing in the history
\* redirects ($locationWatch, fireUrlChange, navigation.js's otherwise and redirectTo).
THEOREM AddressStaysTrue ==
  LocationInit /\ [][LocationNext]_locationVars => []AddressInvariant
<1>1. QED
  BY LocationInitHolds, LocationNextKeeps, PTL

\* A followed link adds one entry and loses none behind it, for a history of any length.
THEOREM LocationAddsLinks ==
  LocationInit /\ [][LocationNext]_locationVars => LinksAreAdded
<1> DEFINE Added == \A u \in Urls : Follow(u) /\ location.url # u /\ route # "" =>
                      /\ at' = at + 1 /\ Len(entries') = at'
                      /\ SubSeq(entries', 1, at) = SubSeq(entries, 1, at)
                      /\ entries'[at'] = RedirectTo(u) /\ route' = RedirectTo(u)
<1>1. AddressInvariant => Added
  BY FollowKeeps, Zenon DEF LinkAdded
<1>2. AddressInvariant /\ [LocationNext]_locationVars => [Added]_locationVars
  BY <1>1
<1>3. LinksAreAdded <=> [][Added]_locationVars
  BY DEF LinksAreAdded
<1> HIDE DEF Added
<1>4. QED
  BY <1>2, <1>3, AddressStaysTrue, PTL
=============================================================================
