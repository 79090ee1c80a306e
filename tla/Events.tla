-------------------------------- MODULE Events --------------------------------
(***************************************************************************)
(* Events on the tree of scopes (angular: $on, $emit, $broadcast), as the  *)
(* routes and the views of the page use them.  A listener may do what the  *)
(* view does when the route changes: destroy scopes, make new ones, and    *)
(* add or remove listeners while the event is on its way.                  *)
(***************************************************************************)
EXTENDS Scopes, FiniteSets, SequencesExt

CONSTANTS MaxListeners

VARIABLES
  listeners,  \* $$listeners of each scope, for one name
  event,      \* the event that is on its way
  heard,      \* history: the listeners that heard it, in order
  expected    \* history: those that have to hear it

eventVars == <<listeners, event, heard, expected>>

Listeners == [of : ScopeIds, n : 1..MaxListeners]
NoEvent   == [kind |-> "none", target |-> Root, current |-> Root, next |-> 1, length |-> 0]

EventTypeOK ==
  /\ listeners \in [ScopeIds -> Seq(Listeners)]
  /\ event \in [kind : {"none", "emit", "broadcast"}, target : ScopeIds, current : ScopeIds,
                next : 1..(MaxListeners + 1), length : 0..MaxListeners]
  /\ heard \in Seq(Listeners) /\ expected \subseteq Listeners

-----------------------------------------------------------------------------
(* The page: the root with the scopes x and y, and z below x; two listeners each. *)
EventInit ==
  /\ link = [s \in ScopeIds |->
       CASE s = Root -> [Unlinked EXCEPT !.head = "x", !.tail = "y"]
         [] s = "x"  -> [Unlinked EXCEPT !.parent = Root, !.head = "z", !.tail = "z", !.next = "y"]
         [] s = "y"  -> [Unlinked EXCEPT !.parent = Root, !.prev = "x"]
         [] s = "z"  -> [Unlinked EXCEPT !.parent = "x"]
         [] OTHER    -> Unlinked]
  /\ kids = [s \in ScopeIds |->
       CASE s = Root -> <<"x", "y">> [] s = "x" -> <<"z">> [] OTHER -> << >>]
  /\ listeners = [s \in ScopeIds |->
       IF s \in Live THEN <<[of |-> s, n |-> 1], [of |-> s, n |-> 2]>> ELSE << >>]
  /\ event = NoEvent /\ heard = << >> /\ expected = {}
  /\ cell = [c \in Cells |-> 0] /\ watchers = [s \in ScopeIds |-> << >>]
  /\ queue = [s \in ScopeIds |-> 0] /\ digest = AtRest /\ left = Effects

\* $on; a listener that was removed does not come back.
On(s) ==
  /\ Len(listeners[s]) < MaxListeners
  /\ \E l \in [of : {s}, n : {MaxListeners}] :
       /\ ~Contains(listeners[s], l)
       /\ listeners' = [listeners EXCEPT ![s] = Append(@, l)]
  /\ UNCHANGED <<link, kids, expected>>

\* What $on returned; the next one of its scope may miss the event.
Off(s, l) ==
  /\ Contains(listeners[s], l)
  /\ listeners' = [listeners EXCEPT ![s] = Remove(@, l)]
  /\ expected' = {m \in expected : m.of # s}
  /\ UNCHANGED <<link, kids>>

ListenerEffect ==
  /\ left > 0 /\ left' = left - 1
  /\ \/ \E p \in Live, s \in ScopeIds : NewChild(p, s) /\ UNCHANGED <<listeners, expected>>
     \/ \E s \in Live : /\ Destroy(s) /\ UNCHANGED listeners
                        /\ expected' = {m \in expected : m.of \notin Below(s)}
     \/ \E s \in Live : On(s) \/ \E l \in ToSet(listeners[s]) : Off(s, l)

NoEffect == UNCHANGED <<link, kids, listeners, expected, left>>

-----------------------------------------------------------------------------
RECURSIVE Above(_)
Above(s) == {s} \cup IF s = Root THEN {} ELSE Above(link[s].parent)

\* $emit and $broadcast: the number of listeners is read when a scope is reached.
Visit(s) == [event EXCEPT !.current = s, !.next = 1, !.length = Len(listeners[s])]

Start(kind, s) ==
  /\ event.kind = "none" /\ s \in Live
  /\ event' = [kind |-> kind, target |-> s, current |-> s, next |-> 1,
               length |-> Len(listeners[s])]
  /\ expected' = UNION {ToSet(listeners[t]) : t \in IF kind = "emit" THEN Above(s) ELSE Below(s)}
  /\ heard' = << >>
  /\ UNCHANGED <<link, kids, listeners, left>>

\* A listener is called, and may throw; one that was there and is gone is none.
Hear ==
  /\ event.kind # "none" /\ event.next <= event.length
  /\ event' = [event EXCEPT !.next = @ + 1]
  /\ IF event.next > Len(listeners[event.current]) THEN NoEffect /\ UNCHANGED heard
     ELSE /\ heard' = Append(heard, listeners[event.current][event.next])
          /\ ListenerEffect \/ NoEffect

\* stopPropagation, which an event that was broadcast does not have.
Stop ==
  /\ event.kind = "emit" /\ event.next <= event.length
  /\ event.next <= Len(listeners[event.current])
  /\ heard' = Append(heard, listeners[event.current][event.next])
  /\ event' = NoEvent
  /\ expected' = {m \in expected : m \in ToSet(heard')}
  /\ UNCHANGED <<link, kids, listeners, left>>

\* A variant that does not go up again.
BeyondSiblings(s) == IF s = event.target THEN NoScope ELSE link[s].next

\* Down while you can, then to the next sibling, or up until there is one.
RECURSIVE Beyond(_)
Beyond(s) == IF s = event.target THEN NoScope
             ELSE IF link[s].next # NoScope THEN link[s].next ELSE Beyond(link[s].parent)

NextOf(s) ==
  IF event.kind = "emit" THEN link[s].parent
  ELSE IF link[s].head # NoScope THEN link[s].head ELSE Beyond(s)

Pass ==
  /\ event.kind # "none" /\ event.next > event.length
  /\ event' = IF NextOf(event.current) = NoScope THEN NoEvent ELSE Visit(NextOf(event.current))
  /\ UNCHANGED <<link, kids, listeners, heard, expected, left>>

EventNext ==
  /\ \/ \E kind \in {"emit", "broadcast"}, s \in Live : Start(kind, s)
     \/ Hear \/ Stop \/ Pass
  /\ UNCHANGED <<cell, watchers, queue, digest>>

-----------------------------------------------------------------------------
(* Properties *)

\* Whatever the listeners do to the tree, nobody hears an event twice, and when it
\* has passed, everybody heard it whose scope was below the target (above, for
\* $emit) and still lives, unless it was stopped, or a listener of his own scope
\* was removed meanwhile: then the one behind it may miss it.
HeardOnce ==
  /\ \A i, j \in DOMAIN heard : heard[i] = heard[j] => i = j
  /\ event.kind = "none" => expected \subseteq ToSet(heard)
=============================================================================
