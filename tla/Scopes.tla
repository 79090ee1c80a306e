-------------------------------- MODULE Scopes --------------------------------
(***************************************************************************)
(* The tree of scopes and the digest that runs over it (angular,           *)
(* $RootScopeProvider).  Watch listeners and queued tasks are the page's   *)
(* own functions: while the digest walks, they write the model, add and    *)
(* remove watches, make and destroy scopes and queue more tasks.           *)
(***************************************************************************)
EXTENDS Naturals, Sequences

CONSTANTS
  ScopeIds, Root,  \* a scope that was destroyed does not come back
  Cells,           \* what is watched: a place in the model, 0 or 1
  Iterations,      \* TTL of $digest
  Effects,         \* bounds what the page's functions do in one behaviour
  MaxWatchers, NoScope

ASSUME ScopeAssumption ==
  /\ Root \in ScopeIds /\ NoScope \notin ScopeIds
  /\ Iterations \in Nat /\ Effects \in Nat /\ MaxWatchers \in Nat

Lists == INSTANCE SequencesExt

VARIABLES
  link,      \* the fields $parent, $$childHead ... of each scope
  kids,      \* history: the children of each scope in the order of their birth
  cell,      \* the model
  watchers,  \* $$watchers, visited from the last to the first
  queue,     \* $$asyncQueue of each scope: how many tasks
  digest,    \* the digest's own variables
  left       \* the effects that are left

scopeVars == <<link, kids, cell, watchers, queue, digest, left>>

Places     == ScopeIds \cup {NoScope}
LinkFields == [parent : Places, head : Places, tail : Places, next : Places, prev : Places]
Unlinked   == [parent |-> NoScope, head |-> NoScope, tail |-> NoScope, next |-> NoScope,
               prev |-> NoScope]
AtRest     == [at |-> "idle", current |-> Root, length |-> 0, dirty |-> FALSE,
               ttl |-> Iterations, thrown |-> FALSE]

ScopeTypeOK ==
  /\ link \in [ScopeIds -> LinkFields]
  /\ kids \in [ScopeIds -> Seq(ScopeIds)]
  /\ cell \in [Cells -> 0..1]
  /\ watchers \in [ScopeIds -> Seq([of : Cells, last : {0, 1, NoScope}])]
  /\ queue \in [ScopeIds -> 0..Effects]
  /\ digest \in [at : {"idle", "scope", "task", "watch", "listener", "apply"}, current : ScopeIds,
                 length : 0..MaxWatchers, dirty : BOOLEAN, ttl : 0..Iterations,
                 thrown : BOOLEAN]
  /\ left \in 0..Effects

ScopeInit ==
  /\ link = [s \in ScopeIds |-> Unlinked]
  /\ kids = [s \in ScopeIds |-> << >>]
  /\ cell = [c \in Cells |-> 0]
  /\ watchers = [s \in ScopeIds |-> << >>]
  /\ queue = [s \in ScopeIds |-> 0]
  /\ digest = AtRest
  /\ left = Effects

\* The scopes that hang together with the root.
WithKids(S) == \A x \in S : \A i \in DOMAIN kids[x] : kids[x][i] \in S
Below(s) == {x \in ScopeIds : \A S \in SUBSET ScopeIds : s \in S /\ WithKids(S) => x \in S}
Live == Below(Root)

-----------------------------------------------------------------------------
(* What a function of the page may do *)

\* $new appends to the list of children.
NewChild(p, s) ==
  /\ s # Root /\ link[s].parent = NoScope
  /\ LET t == link[p].tail IN
     link' = [x \in ScopeIds |->
       CASE x = s -> [Unlinked EXCEPT !.parent = p, !.prev = t]
         [] x = p -> [link[p] EXCEPT !.head = IF @ = NoScope THEN s ELSE @, !.tail = s]
         [] x = t /\ link[p].head # NoScope -> [link[t] EXCEPT !.next = s]
         [] OTHER -> link[x]]
  /\ kids' = [kids EXCEPT ![p] = Append(@, s)]
  /\ UNCHANGED <<cell, watchers, queue>>

\* A list without s, which is in it once.
Without(q, s) == Lists!RemoveAt(q, CHOOSE i \in DOMAIN q : q[i] = s)

\* A variant that forgets the end of the list.
DestroyKeepsTail(s) ==
  LET l == link[s] IN
  /\ s # Root
  /\ link' = [x \in ScopeIds |->
       CASE x = l.parent -> [link[x] EXCEPT !.head = IF @ = s THEN l.next ELSE @]
         [] x = l.prev -> [link[x] EXCEPT !.next = l.next]
         [] x = l.next -> [link[x] EXCEPT !.prev = l.prev]
         [] OTHER -> link[x]]
  /\ kids' = [kids EXCEPT ![l.parent] = Without(@, s)]
  /\ UNCHANGED <<cell, watchers, queue>>

\* $destroy takes the scope out of the list; its own fields keep their values.
Destroy(s) ==
  LET l == link[s] IN
  /\ s # Root
  /\ link' = [x \in ScopeIds |->
       CASE x = l.parent -> [link[x] EXCEPT !.head = IF @ = s THEN l.next ELSE @,
                                            !.tail = IF @ = s THEN l.prev ELSE @]
         [] x = l.prev -> [link[x] EXCEPT !.next = l.next]
         [] x = l.next -> [link[x] EXCEPT !.prev = l.prev]
         [] OTHER -> link[x]]
  /\ kids' = [kids EXCEPT ![l.parent] = Without(@, s)]
  /\ UNCHANGED <<cell, watchers, queue>>

\* $watch puts the watcher in front; the value that it saw last is none.
Watch(s, c) ==
  /\ Len(watchers[s]) < MaxWatchers
  /\ watchers' = [watchers EXCEPT ![s] = <<[of |-> c, last |-> NoScope]>> \o @]
  /\ UNCHANGED <<link, kids, cell, queue>>

Unwatch(s, i) ==
  /\ watchers' = [watchers EXCEPT ![s] = Lists!RemoveAt(@, i)]
  /\ UNCHANGED <<link, kids, cell, queue>>

Write(c) ==
  /\ cell' = [cell EXCEPT ![c] = 1 - @]
  /\ UNCHANGED <<link, kids, watchers, queue>>

\* Tasks are queued on the root, as $q, $location and $route do.
EvalAsync ==
  /\ queue' = [queue EXCEPT ![Root] = @ + 1]
  /\ UNCHANGED <<link, kids, cell, watchers>>

Effect ==
  /\ left > 0 /\ left' = left - 1
  /\ \/ \E p \in Live, s \in ScopeIds : NewChild(p, s)
     \/ \E s \in Live : Destroy(s)
     \/ \E s \in Live, c \in Cells : Watch(s, c)
     \/ \E s \in Live : \E i \in 1..Len(watchers[s]) : Unwatch(s, i)
     \/ \E c \in Cells : Write(c)
     \/ EvalAsync

Inert == UNCHANGED <<link, kids, cell, watchers, queue, left>>

-----------------------------------------------------------------------------
(* $apply and $digest *)

\* Where the digest goes on after a function of the page has returned or thrown.
Return == [task |-> "scope", listener |-> "watch", apply |-> "scope"]

Apply ==
  /\ digest.at = "idle"
  /\ digest' = [AtRest EXCEPT !.at = "apply"]
  /\ Inert

RunFunction ==
  /\ digest.at \in DOMAIN Return
  /\ digest' = [digest EXCEPT !.at = Return[@]]
  /\ Effect \/ Inert

TakeTask ==
  /\ digest.at = "scope" /\ queue[digest.current] > 0
  /\ queue' = [queue EXCEPT ![digest.current] = @ - 1]
  /\ digest' = [digest EXCEPT !.at = "task"]
  /\ UNCHANGED <<link, kids, cell, watchers, left>>

EnterScope ==
  /\ digest.at = "scope" /\ queue[digest.current] = 0
  /\ digest' = [digest EXCEPT !.at = "watch", !.length = Len(watchers[digest.current])]
  /\ Inert

At(i) == watchers[digest.current][i]
Gone(i) == i > Len(watchers[digest.current])
HasChanged(i) == At(i).last # cell[At(i).of]

\* The watcher's value is what it was, or the watcher is gone (a TypeError that
\* the digest catches).
WatcherClean ==
  /\ digest.at = "watch" /\ digest.length > 0
  /\ Gone(digest.length) \/ ~HasChanged(digest.length)
  /\ digest' = [digest EXCEPT !.length = @ - 1]
  /\ Inert

WatcherFires ==
  LET i == digest.length IN
  /\ digest.at = "watch" /\ i > 0 /\ ~Gone(i) /\ HasChanged(i)
  /\ digest' = [digest EXCEPT !.at = "listener", !.length = @ - 1, !.dirty = TRUE]
  /\ watchers' = [watchers EXCEPT ![digest.current][i].last = cell[At(i).of]]
  /\ UNCHANGED <<link, kids, cell, queue, left>>

\* Depth first: down, else to the next sibling, else up until there is one.
UpEnds(s) == s = Root \/ link[s].next # NoScope
UpFrom(S) == \A x \in S : ~UpEnds(x) => link[x].parent \in S
Climb(s) ==
  LET top == CHOOSE t \in ScopeIds :
               UpEnds(t) /\ \A S \in SUBSET ScopeIds : s \in S /\ UpFrom(S) => t \in S
  IN IF top = Root THEN NoScope ELSE link[top].next

After(s) == IF link[s].head # NoScope THEN link[s].head ELSE Climb(s)

NextScope ==
  /\ digest.at = "watch" /\ digest.length = 0
  /\ After(digest.current) # NoScope
  /\ digest' = [digest EXCEPT !.at = "scope", !.current = After(@)]
  /\ Inert

PassOver ==
  /\ digest.at = "watch" /\ digest.length = 0
  /\ After(digest.current) = NoScope
  /\ Inert

\* Only the queue of the scope that was visited last is looked at.
NextPass ==
  /\ PassOver
  /\ IF digest.dirty THEN digest.ttl > 0 ELSE queue[digest.current] > 0
  /\ digest' = [AtRest EXCEPT !.at = "scope",
                  !.ttl = IF digest.dirty THEN digest.ttl - 1 ELSE digest.ttl]

EndDigest ==
  /\ PassOver /\ ~digest.dirty /\ queue[digest.current] = 0
  /\ digest' = AtRest

\* "10 $digest() iterations reached": the phase is cleared and $apply rethrows.
GiveUp ==
  /\ PassOver /\ digest.dirty /\ digest.ttl = 0
  /\ digest' = [AtRest EXCEPT !.thrown = TRUE]

ScopeNext ==
  \/ Apply \/ RunFunction \/ TakeTask \/ EnterScope \/ WatcherClean
  \/ WatcherFires \/ NextScope \/ NextPass \/ EndDigest \/ GiveUp

ScopeSpec == ScopeInit /\ [][ScopeNext]_scopeVars

-----------------------------------------------------------------------------
(* Properties *)

\* The links of s and of its children are those of a list, forwards and back.
Listed(s) ==
  LET k == kids[s] IN
  /\ link[s].head = IF k = << >> THEN NoScope ELSE k[1]
  /\ link[s].tail = IF k = << >> THEN NoScope ELSE k[Len(k)]
  /\ \A i \in DOMAIN k :
       /\ link[k[i]].parent = s
       /\ link[k[i]].next = IF i = Len(k) THEN NoScope ELSE k[i + 1]
       /\ link[k[i]].prev = IF i = 1 THEN NoScope ELSE k[i - 1]

\* Whatever the page's functions did to the tree while the digest walked over
\* it, following the links gives the children in the order of their birth
\* ($new, $destroy).
LinksAreTree == \A s \in Live : Listed(s)

\* When a digest ends without giving up, no watch of a live scope has missed a
\* change and no task of the root is left ($digest).
SeesAllChanges ==
  digest.at = "idle" /\ ~digest.thrown =>
    /\ queue[Root] = 0
    /\ \A s \in Live : \A i \in 1..Len(watchers[s]) :
         watchers[s][i].last = cell[watchers[s][i].of]

\* The scopes are one tree, and a digest leaves no change unseen.
ScopesKept == LinksAreTree /\ SeesAllChanges
=============================================================================
