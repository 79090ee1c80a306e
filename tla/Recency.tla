-------------------------------- MODULE Recency --------------------------------
(***************************************************************************)
(* What a cache of bounded size promises: it holds the entries that were   *)
(* put or read last, and gives up the stalest one when there are too many. *)
(* An entry for which nothing was put is listed without a content; when it *)
(* goes, the cache has room for one content more until all are removed.    *)
(***************************************************************************)
EXTENDS Integers, Sequences, FiniteSets

CONSTANTS Keys, Contents, None,
  Capacity  \* how many contents are held; 0 for any number

VARIABLES
  holds,  \* the content of each key, or None
  order,  \* the keys that are listed, the stalest first
  room    \* how many contents there is room for

recencyVars == <<holds, order, room>>

RecencyInit == holds = [k \in Keys |-> None] /\ order = << >> /\ room = Capacity

With(h) == {k \in Keys : h[k] # None}

Listed(k)   == \E i \in DOMAIN order : order[i] = k
Position(k) == CHOOSE i \in DOMAIN order : order[i] = k

\* The keys without k.
Without(k) ==
  IF Listed(k)
    THEN SubSeq(order, 1, Position(k) - 1) \o SubSeq(order, Position(k) + 1, Len(order))
    ELSE order

Freshened(k) == Append(Without(k), k)

\* Key k goes, with its content in h if it has one.
Goes(k, h) ==
  /\ holds' = [h EXCEPT ![k] = None]
  /\ room' = IF h[k] = None THEN room + 1 ELSE room

Put(k, c) ==
  LET o == Freshened(k)
      h == [holds EXCEPT ![k] = c] IN
  IF Capacity # 0 /\ Cardinality(With(h)) > room
    THEN order' = Tail(o) /\ Goes(o[1], h)
    ELSE order' = o /\ holds' = h /\ UNCHANGED room

PutNothing(k) == order' = Freshened(k) /\ UNCHANGED <<holds, room>>

Get(k) == Listed(k) /\ order' = Freshened(k) /\ UNCHANGED <<holds, room>>

Remove(k) == Listed(k) /\ order' = Without(k) /\ Goes(k, holds)

RemoveAll ==
  /\ holds' = [k \in Keys |-> None]
  /\ order' = << >>
  /\ room' = Capacity

RecencyNext ==
  \/ RemoveAll
  \/ \E k \in Keys : PutNothing(k) \/ Get(k) \/ Remove(k) \/ \E c \in Contents : Put(k, c)

RecencySpec == RecencyInit /\ [][RecencyNext]_recencyVars
=============================================================================
