-------------------------------- MODULE Repeat --------------------------------
(***************************************************************************)
(* ngRepeat (angular): the rows of a list of sessions or forwards.  Every  *)
(* digest walks the collection and reuses the rows it knows: an item finds *)
(* its row by hash key, in a HashQueueMap, since equal items may be there  *)
(* twice.  A copy of an object (angular.copy) carries the hash key with it.*)
(***************************************************************************)
EXTENDS Naturals, Sequences, FiniteSets

CONSTANTS
  Items,      \* an object and which copy of it
  MaxLength,  \* bounds the length of the collection
  Comment     \* the comment node that marks the place of the list

Rows  == 1..(2 * MaxLength)  \* elements, each with its scope
Lists == UNION {[1..n -> Items] : n \in 0..MaxLength}

\* hashKey.
Hash(item) == item[1]
Objects == {Hash(item) : item \in Items}

VARIABLES
  collection,
  dom,        \* the comment and the elements after it
  row,        \* per row: the item of its scope, $index, $first, $last; last.index
  lastOrder   \* per hash key the queue of its rows

repeatVars == <<collection, dom, row, lastOrder>>

Unused == [item |-> << >>]

RepeatTypeOK ==
  /\ collection \in Lists
  /\ dom \in Seq(Rows \cup {Comment})
  /\ row \in [Rows -> [item : Items, index : Nat, first : BOOLEAN, last : BOOLEAN,
                       place : Nat] \cup {Unused}]
  /\ lastOrder \in [Objects -> Seq(Rows)]

RepeatInit ==
  /\ collection = << >> /\ dom = <<Comment>>
  /\ row = [r \in Rows |-> Unused]
  /\ lastOrder = [o \in Objects |-> << >>]

-----------------------------------------------------------------------------
Without(s, e) == SelectSeq(s, LAMBDA x : x # e)

\* cursor.after(e), which moves e when it is in the document.
After(s, cursor, e) ==
  LET rest == Without(s, e)
      at == CHOOSE i \in DOMAIN rest : rest[i] = cursor
  IN SubSeq(rest, 1, at) \o <<e>> \o SubSeq(rest, at + 1, Len(rest))

\* What the scope of a row is given.
Scope(list, i) == [item |-> list[i], index |-> i, first |-> i = 1,
                   last |-> i = Len(list), place |-> i]

\* A variant that forgets to note where a row was moved to.
VisitForgetsPlace(w, list, i) ==
  LET h == Hash(list[i])
      known == w.old[h] # << >>
      r == IF known THEN Head(w.old[h])
           ELSE CHOOSE x \in Rows : w.row[x] = Unused /\ \A y \in 1..(x - 1) : w.row[y] # Unused
      scope == [Scope(list, i) EXCEPT !.place = IF known THEN w.row[r].place ELSE @]
  IN [old |-> IF known THEN [w.old EXCEPT ![h] = Tail(@)] ELSE w.old,
      new |-> [w.new EXCEPT ![h] = Append(@, r)],
      row |-> [w.row EXCEPT ![r] = scope],
      dom |-> IF known /\ w.row[r].place = i THEN w.dom ELSE After(w.dom, w.cursor, r),
      cursor |-> r]

\* One item of the walk w: a row that it knows stays, or is moved when its place
\* is not i; for an item that it does not know a row is made.
Visit(w, list, i) ==
  LET h == Hash(list[i])
      known == w.old[h] # << >>
      r == IF known THEN Head(w.old[h])
           ELSE CHOOSE x \in Rows : w.row[x] = Unused /\ \A y \in 1..(x - 1) : w.row[y] # Unused
  IN [old |-> IF known THEN [w.old EXCEPT ![h] = Tail(@)] ELSE w.old,
      new |-> [w.new EXCEPT ![h] = Append(@, r)],
      row |-> [w.row EXCEPT ![r] = Scope(list, i)],
      dom |-> IF known /\ w.row[r].place = i THEN w.dom ELSE After(w.dom, w.cursor, r),
      cursor |-> r]

Walk(list) ==
  LET w[i \in 0..Len(list)] ==
        IF i = 0 THEN [old |-> lastOrder, new |-> [o \in Objects |-> << >>],
                       row |-> row, dom |-> dom, cursor |-> Comment]
                 ELSE Visit(w[i - 1], list, i)
  IN w[Len(list)]

\* The page changes the collection in any way; then the watch of ngRepeat walks
\* it, and removes the rows that nobody asked for.
RepeatDigest(list) ==
  \E w \in {Walk(list)} :
  \E gone \in {UNION {{w.old[o][i] : i \in DOMAIN w.old[o]} : o \in Objects}} :
    /\ collection' = list
    /\ lastOrder' = w.new
    /\ row' = [r \in Rows |-> IF r \in gone THEN Unused ELSE w.row[r]]
    /\ dom' = SelectSeq(w.dom, LAMBDA e : e \notin gone)

RepeatNext == \E list \in Lists : RepeatDigest(list)

-----------------------------------------------------------------------------
(* Properties *)

\* However the collection changed, what the user sees is the collection: one
\* row per item in the same order, and each scope has its item and its place.
RowsFollow ==
  /\ Len(dom) = Len(collection) + 1 /\ dom[1] = Comment
  /\ \A i \in DOMAIN collection : row[dom[i + 1]] = Scope(collection, i)
  /\ Cardinality({r \in Rows : row[r] # Unused}) = Len(collection)
=============================================================================
