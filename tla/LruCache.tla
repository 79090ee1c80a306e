------------------------------- MODULE LruCache -------------------------------
(***************************************************************************)
(* The caches of angular ($cacheFactory), which keep their entries in a    *)
(* doubly linked list: `p' leads from the fresh end to the stale one and   *)
(* `n' back.  An entry is named by its key; a step writes several of the   *)
(* pointers one after the other, as the operators on `l' do.               *)
(***************************************************************************)
EXTENDS Integers, Sequences, FiniteSets

CONSTANTS
  CacheKeys, CacheContents,
  Capacity,      \* options.capacity; without it, or with 0, there is no bound
  MaxEmpty,      \* bounds the entries that are listed without data
  None           \* undefined, and a pointer that is null

VARIABLES
  data, size,
  lru            \* lruHash with the pointers of its entries, and both ends

lruVars == <<data, size, lru>>

LruTypeOK ==
  /\ data \in [CacheKeys -> CacheContents \cup {None}]
  /\ size \in Int
  /\ lru \in [entries : SUBSET CacheKeys, p : [CacheKeys -> CacheKeys \cup {None}],
              n : [CacheKeys -> CacheKeys \cup {None}],
              fresh : CacheKeys \cup {None}, stale : CacheKeys \cup {None}]

NoLinks == [k \in CacheKeys |-> None]

LruInit ==
  /\ data = NoLinks /\ size = 0
  /\ lru = [entries |-> {}, p |-> NoLinks, n |-> NoLinks, fresh |-> None, stale |-> None]

-----------------------------------------------------------------------------
\* `link', of two entries or of one and none.
Link(l, next, prev) ==
  IF next = prev THEN l
  ELSE [l EXCEPT !.p = IF next = None THEN @ ELSE [@ EXCEPT ![next] = prev],
                 !.n = IF prev = None THEN @ ELSE [@ EXCEPT ![prev] = next]]

\* A variant that leaves the stale end where it is.
RefreshKeepsStale(l, k) ==
  IF k = l.fresh THEN l
  ELSE LET ends   == [l EXCEPT !.stale = IF @ = None THEN k ELSE @]
           closed == Link(ends, ends.n[k], ends.p[k])
           front  == Link(closed, k, closed.fresh)
       IN [front EXCEPT !.fresh = k, !.n[k] = None]

\* `refresh': the entry is taken out of the list and put before the fresh end.
Refresh(l, k) ==
  IF k = l.fresh THEN l
  ELSE LET ends   == [l EXCEPT !.stale = IF @ = None THEN k
                                         ELSE IF @ = k THEN l.n[k] ELSE @]
           closed == Link(ends, ends.n[k], ends.p[k])
           front  == Link(closed, k, closed.fresh)
       IN [front EXCEPT !.fresh = k, !.n[k] = None]

\* lruHash[key], made with no links when there is none.
Entry(l, k) ==
  IF k \in l.entries THEN l
  ELSE [l EXCEPT !.entries = @ \cup {k}, !.p[k] = None, !.n[k] = None]

\* `remove' of an entry, from the list.  Of what is no entry no pointer is kept.
Unlink(l, k) ==
  LET ends == [l EXCEPT !.fresh = IF @ = k THEN l.p[k] ELSE @,
                        !.stale = IF @ = k THEN l.n[k] ELSE @]
      cut  == Link(ends, l.n[k], l.p[k])
  IN [cut EXCEPT !.entries = @ \ {k}, !.p[k] = None, !.n[k] = None]

-----------------------------------------------------------------------------
\* `put' goes over the capacity first, and then removes the stale end.  Of undefined
\* it lists an entry and no more.
Put(k, c) ==
  LET l       == Refresh(Entry(lru, k), k)
      counted == IF data[k] = None THEN size + 1 ELSE size
      full    == Capacity # 0 /\ counted > Capacity
  IN IF c = None
       THEN /\ k \notin lru.entries => Cardinality(lru.entries) - size < MaxEmpty
            /\ lru' = l
            /\ UNCHANGED <<data, size>>
       ELSE /\ lru' = IF full THEN Unlink(l, l.stale) ELSE l
            /\ data' = [e \in CacheKeys |->
                          IF full /\ e = l.stale THEN None ELSE IF e = k THEN c ELSE data[e]]
            /\ size' = IF full THEN counted - 1 ELSE counted

\* `get' of a key that has an entry; of another it changes nothing.
Get(k) ==
  /\ k \in lru.entries
  /\ lru' = Refresh(lru, k)
  /\ UNCHANGED <<data, size>>

\* `remove' of a key that has an entry, which it counts whether it has data or not;
\* of another it throws before it writes.
RemoveKey(k) ==
  /\ k \in lru.entries
  /\ lru' = Unlink(lru, k)
  /\ data' = [data EXCEPT ![k] = None]
  /\ size' = size - 1

RemoveAll ==
  /\ data' = NoLinks /\ size' = 0
  /\ lru' = [entries |-> {}, p |-> NoLinks, n |-> NoLinks, fresh |-> None, stale |-> None]

LruNext ==
  \/ \E k \in CacheKeys : (\E c \in CacheContents \cup {None} : Put(k, c)) \/ Get(k) \/ RemoveKey(k)
  \/ RemoveAll

LruSpec == LruInit /\ [][LruNext]_lruVars

-----------------------------------------------------------------------------
(* Properties *)

\* The entries stand in the order s, the stale one first, along both pointers.
Linked(l, s) ==
  /\ \A i, j \in DOMAIN s : s[i] = s[j] => i = j
  /\ l.entries = {s[i] : i \in DOMAIN s}
  /\ l.stale = IF s = << >> THEN None ELSE s[1]
  /\ l.fresh = IF s = << >> THEN None ELSE s[Len(s)]
  /\ \A i \in DOMAIN s : /\ l.p[s[i]] = IF i = 1 THEN None ELSE s[i - 1]
                         /\ l.n[s[i]] = IF i = Len(s) THEN None ELSE s[i + 1]

\* The orders in which the entries stand: there is one.
Orders(l) == {s \in [1..Cardinality(l.entries) -> l.entries] : Linked(l, s)}
ByAge     == IF Orders(lru) = {} THEN << >> ELSE CHOOSE s \in Orders(lru) : TRUE

\* The capacity, and one for each entry that was given up without data: `size' no
\* longer counts one that is held.
Held == {k \in CacheKeys : data[k] # None}
CacheRoom == Capacity + Cardinality(Held) - size

Promised == INSTANCE Recency WITH
  Keys <- CacheKeys, Contents <- CacheContents, holds <- data, order <- ByAge, room <- CacheRoom

\* The linked list is the order of use: whatever is put, read and removed, the
\* cache gives up the entry that was used longest ago, and no other; and it holds
\* more than its capacity only by as many as were given up without data.
ImplementsRecency == [][Promised!RecencyNext]_(Promised!recencyVars)
=============================================================================
