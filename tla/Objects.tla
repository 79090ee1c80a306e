------------------------------- MODULE Objects -------------------------------
(***************************************************************************)
(* What angular does to the objects of the page: it copies and compares    *)
(* them, and gives them hash keys.                                         *)
(***************************************************************************)
EXTENDS Naturals, Sequences, FiniteSets, SequencesExt

CONSTANTS
  Heaps,     \* the objects 1, 2, ... before, each with its fields; 1 is the source
  MaxObject, \* bounds the objects there may come to be
  Digits,    \* the digits of hash keys in their order, the first one is "0"
  Items, Primitives,  \* what is used as key: [type, text]; the text names an object
  Contents,  \* what is stored
  MaxUids, MaxQueue,  \* bound the numbers given and what a key holds
  Nil

-----------------------------------------------------------------------------
(* angular.copy and angular.equals, over objects with identity: what the   *)
(* server sent is copied into the value that the page shows, and a deep    *)
(* watch compares what it watches with a copy.  Dates and arrays, which    *)
(* are copied alike, are left out.                                         *)

KeyOrder   == <<"a", "b", "$$hashKey">>
KeySet == ToSet(KeyOrder)

\* A field holds an object or not.
Object(o) == [object |-> TRUE, is |-> o]
Plain(v)  == [object |-> FALSE, is |-> v]
NoPrimitive == Plain(0)
NoKey       == Plain(1)  \* there is no such key

VARIABLES
  heap,    \* the objects
  before,  \* the objects as they were
  result   \* what copy returned, or 0

copyVars == <<heap, before, result>>

CopyTypeOK ==
  /\ Len(heap) <= MaxObject
  /\ heap \in Seq([KeySet -> {Object(o) : o \in 1..MaxObject} \cup {Plain(v) : v \in 0..3}])
  /\ result \in 0..Len(heap)

NewObject == [k \in KeySet |-> NoKey]

-----------------------------------------------------------------------------
\* copy(v) in heap h: the heap after, and the copy.
RECURSIVE CopyValue(_, _), CopyInto(_, _, _)
CopyValue(h, v) ==
  IF ~v.object THEN [heap |-> h, value |-> v]
  ELSE LET fresh == Len(h) + 1 IN
       [heap |-> CopyInto(Append(h, NewObject), v.is, fresh), value |-> Object(fresh)]

\* copy(source, destination): the keys of the destination go, then each key of
\* the source is copied.
CopyInto(h, source, destination) ==
  LET field[i \in 0..Len(KeyOrder)] ==
        IF i = 0 THEN [h EXCEPT ![destination] = NewObject]
        ELSE LET g == field[i - 1]
                 c == CopyValue(g, g[source][KeyOrder[i]])
             IN IF g[source][KeyOrder[i]] = NoKey THEN g ELSE [c.heap EXCEPT ![destination][KeyOrder[i]] = c.value]
  IN field[Len(KeyOrder)]

\* equals, for the fields that do not begin with a dollar.
RECURSIVE EqualValues(_, _, _)
EqualValues(h, v, w) ==
  \/ v = w /\ v # NoKey
  \/ {v, w} \subseteq {NoPrimitive, NoKey}
  \/ /\ v.object /\ w.object
     /\ \A k \in {"a", "b"} : /\ h[v.is][k] # NoKey => EqualValues(h, h[v.is][k], h[w.is][k])
                              /\ h[w.is][k] # NoKey => h[v.is][k] # NoKey

CopyNew ==
  /\ result = 0
  /\ LET c == CopyValue(heap, Object(1)) IN heap' = c.heap /\ result' = c.value.is
  /\ UNCHANGED before

\* Into an object that is not part of the source, whatever it held.
CopyTo(destination) ==
  /\ result = 0
  /\ heap' = CopyInto(heap, 1, destination) /\ result' = destination
  /\ UNCHANGED before

CopyInit == heap \in Heaps /\ before = heap /\ result = 0

CopyNext == CopyNew \/ CopyTo(Len(before))

-----------------------------------------------------------------------------
(* Properties *)

RECURSIVE Reached(_)
Reached(o) == {o} \cup UNION {Reached(heap[o][k].is) : k \in {j \in KeySet : heap[o][j].object}}

\* A copy equals its source, in both directions, has exactly its keys at the top,
\* and shares no object with it: the source is as it was, and no change of the
\* one will show in the other.
CopiesAreApart ==
  result # 0 =>
    /\ EqualValues(heap, Object(1), Object(result)) /\ EqualValues(heap, Object(result), Object(1))
    /\ \A k \in KeySet : (heap[1][k] = NoKey) = (heap[result][k] = NoKey)
    /\ Reached(1) \cap Reached(result) = {}
    /\ \A o \in Reached(1) : heap[o] = before[o]

-----------------------------------------------------------------------------
(* hashKey, HashQueueMap and nextUid: how ng-repeat finds the row of an    *)
(* object.  An object is given a number when it is asked for its key, in a *)
(* property that angular.copy copies; scopes are numbered from the same    *)
(* counter.                                                                *)

VARIABLES
  uid,       \* the counter: a sequence of digits, three in the beginning, here one
  uids,      \* history: the numbers given
  made,      \* the objects that exist
  hashOf,    \* $$hashKey of each object, or Nil
  queues,    \* the HashQueueMap: key -> what it holds
  original,  \* history: of a copy made with its key, the object it is a copy of
  waiting,   \* history: what was pushed for each original or primitive and not shifted
  returned, due  \* history: what shift returned, and what it had to

hashVars == <<uid, uids, made, hashOf, queues, original, waiting, returned, due>>

HashTypeOK ==
  /\ uid \in Seq(Range(Digits)) /\ uids \in Seq(Seq(Range(Digits)))
  /\ made \subseteq Items
  /\ DOMAIN hashOf = Items /\ original \in [Items -> Items]
  /\ waiting \in [Items \cup Primitives -> Seq(Contents)]

HashInit ==
  /\ uid = <<Digits[1]>> /\ uids = << >>
  /\ made = {} /\ hashOf = [o \in Items |-> Nil]
  /\ queues = << >>
  /\ original = [o \in Items |-> o]
  /\ waiting = [i \in Items \cup Primitives |-> << >>]
  /\ returned = Nil /\ due = Nil

-----------------------------------------------------------------------------
\* The last digit that is not "Z" is counted up, and those behind it start again;
\* when there is none the number grows by a digit.
NextUid(u) ==
  LET last == Digits[Len(Digits)]
      up == {i \in DOMAIN u : u[i] # last}
      at == CHOOSE i \in up : \A j \in up : j <= i
  IN IF up = {} THEN <<Digits[1]>> \o [i \in DOMAIN u |-> Digits[1]]
     ELSE [i \in DOMAIN u |->
             CASE i < at -> u[i]
               [] i = at -> Digits[(CHOOSE d \in DOMAIN Digits : Digits[d] = u[i]) + 1]
               [] OTHER  -> Digits[1]]

TakeUid == Len(uids) < MaxUids /\ uid' = NextUid(uid) /\ uids' = Append(uids, uid')

\* A scope takes a number.
NewScope == TakeUid /\ UNCHANGED <<made, hashOf, queues, original, waiting, returned, due>>

IsObject(i) == i \in Items

\* The key of an item, once it has one: the type stands before it.
HashKey(i) ==
  IF IsObject(i) THEN [type |-> "object", text |-> hashOf'[i]]
  ELSE [type |-> i.type, text |-> i.text]

Asked(i) ==
  IF IsObject(i) /\ hashOf[i] = Nil
    THEN TakeUid /\ hashOf' = [hashOf EXCEPT ![i] = uid']
    ELSE UNCHANGED <<uid, uids, hashOf>>

Known(i) == IF IsObject(i) THEN original[i] ELSE i

Push(i, v) ==
  /\ IsObject(i) => i \in made
  /\ Len(waiting[Known(i)]) < MaxQueue
  /\ Asked(i)
  /\ LET k == HashKey(i) IN
       queues' = IF k \in DOMAIN queues THEN [queues EXCEPT ![k] = Append(@, v)]
                 ELSE [x \in DOMAIN queues \cup {k} |-> IF x = k THEN <<v>> ELSE queues[x]]
  /\ waiting' = [waiting EXCEPT ![Known(i)] = Append(@, v)]
  /\ UNCHANGED <<made, original, returned, due>>

\* What is taken last takes the queue with it.
Shift(i) ==
  /\ IsObject(i) => i \in made
  /\ Asked(i)
  /\ LET k == HashKey(i) IN
       IF k \notin DOMAIN queues THEN returned' = Nil /\ UNCHANGED queues
       ELSE /\ returned' = Head(queues[k])
            /\ queues' = IF Len(queues[k]) = 1
                           THEN [x \in DOMAIN queues \ {k} |-> queues[x]]
                           ELSE [queues EXCEPT ![k] = Tail(@)]
  /\ LET w == waiting[Known(i)] IN
       IF w = << >> THEN due' = Nil /\ UNCHANGED waiting
       ELSE due' = Head(w) /\ waiting' = [waiting EXCEPT ![Known(i)] = Tail(@)]
  /\ UNCHANGED <<made, original>>

\* An object is made, on its own or as a copy of another.
Make(o) ==
  /\ o \notin made /\ made' = made \cup {o}
  /\ \/ UNCHANGED <<hashOf, original>>
     \/ \E p \in made :
          /\ hashOf' = [hashOf EXCEPT ![o] = hashOf[p]]
          /\ original' = [original EXCEPT ![o] = IF hashOf[p] = Nil THEN o ELSE original[p]]
  /\ UNCHANGED <<uid, uids, queues, waiting, returned, due>>

HashNext ==
  \/ NewScope
  \/ \E i \in Items \cup Primitives : Shift(i) \/ \E v \in Contents : Push(i, v)
  \/ \E o \in Items : Make(o)

-----------------------------------------------------------------------------
(* Properties *)

\* No number is given twice, also when the counter gets longer.  So an item finds
\* what was stored for it or for the object whose key it was copied with, the oldest
\* first, and nothing of any other: not of a text that reads like its number.
HashKeysKept ==
  /\ \A i, j \in DOMAIN uids : uids[i] = uids[j] => i = j
  /\ returned = due
  /\ \A o, p \in made : hashOf[o] # Nil /\ hashOf[o] = hashOf[p] => original[o] = original[p]
===============================================================================
