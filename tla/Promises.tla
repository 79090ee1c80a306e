------------------------------- MODULE Promises -------------------------------
(***************************************************************************)
(* Promises (angular, $q).  A deferred keeps callbacks until it is         *)
(* resolved; everything after that goes through the queue of ticks, which  *)
(* is the root scope's $$asyncQueue.  A callback is named after the        *)
(* deferred that `then' makes for its result.                              *)
(***************************************************************************)
EXTENDS Naturals, Sequences

CONSTANTS
  MaxDeferreds,  \* bounds the deferreds that are ever made
  Results, Nothing

Deferreds == 1..MaxDeferreds

VARIABLES
  deferred,  \* each deferred: made by whom, and resolved with what
  pending,   \* the callbacks that it keeps
  ticks,     \* what nextTick was given
  on,        \* the promises to which the callbacks of a result were given
  told       \* history: what each callback was told, in the order of the calls

promiseVars == <<deferred, pending, ticks, on, told>>

\* What `ref' makes of a value, what `reject' makes, and a promise.
Ref(v)    == [kind |-> "plain", of |-> v]
Rejected(v) == [kind |-> "rejected", of |-> v]
Promise(d)  == [kind |-> "promise", of |-> d]
Final       == {Ref(v) : v \in Results} \cup {Rejected(v) : v \in Results}
Refs        == Final \cup {Promise(d) : d \in Deferreds}

Unresolved(by) == [made |-> by, value |-> Nothing]
Exists(d) == deferred[d].made # "no"

\* The deferred that is made next.
New(d) == d \in Deferreds /\ ~Exists(d) /\ \A e \in 1..(d - 1) : Exists(e)

\* A callback is named by its result, and for `all' by its index.
Callbacks == Deferreds \X {1, 2}

Drain(cs, r) == [what |-> "drain", cs |-> cs, value |-> r]
CallTick(c, r)   == [what |-> "call", cs |-> <<c>>, value |-> r]

PromiseTypeOK ==
  /\ deferred \in [Deferreds -> [made : {"no", "page", "then", "all"},
                              value : Refs \cup {Nothing}]]
  /\ pending \in [Deferreds -> Seq(Callbacks)]
  /\ ticks \in Seq([what : {"drain", "call"}, cs : Seq(Callbacks), value : Refs])
  /\ on \in [Deferreds -> Seq(Deferreds)]
  /\ told \in [Callbacks -> Seq(Final)]

PromiseInit ==
  /\ deferred = [d \in Deferreds |-> Unresolved("no")]
  /\ pending = [d \in Deferreds |-> << >>]
  /\ ticks = << >>
  /\ on = [d \in Deferreds |-> << >>]
  /\ told = [c \in Callbacks |-> << >>]

-----------------------------------------------------------------------------
\* A promise that was resolved leads on, to what it was resolved with.
LeadsOn(r) == r.kind = "promise" /\ deferred[r.of].value # Nothing
Followed(S) == \A r \in S : LeadsOn(r) => deferred[r.of].value \in S

\* Where `then' on a value ends up, which asks one value after the other: at a
\* deferred that keeps callbacks, or at a value that calls them at the next tick.
Target(r) ==
  CHOOSE t \in Refs :
    ~LeadsOn(t) /\ \A S \in SUBSET Refs : r \in S /\ Followed(S) => t \in S

\* `then', for one callback after another.
Attach(q, r, cs) ==
  LET t == Target(r) IN
  IF t.kind = "promise"
    THEN /\ pending' = [pending EXCEPT ![t.of] = @ \o cs]
         /\ ticks' = q
    ELSE /\ ticks' = q \o [i \in DOMAIN cs |-> CallTick(cs[i], t)]
         /\ UNCHANGED pending

\* `resolve': the first one counts.  The callbacks are called at a later tick.
Settle(q, d, r) ==
  IF deferred[d].value # Nothing THEN ticks' = q /\ UNCHANGED <<deferred, pending>>
  ELSE /\ deferred' = [deferred EXCEPT ![d].value = r]
       /\ pending' = [pending EXCEPT ![d] = << >>]
       /\ ticks' = IF pending[d] = << >> THEN q ELSE Append(q, Drain(pending[d], r))

\* What resolves d: anything but a promise that waits for d itself.
Resolvents(d) ==
  {r \in Refs : r.kind = "promise" =>
                  /\ Exists(r.of)
                  /\ Target(r) # Promise(d)}

-----------------------------------------------------------------------------
(* What the page does *)

Defer(d) ==
  /\ New(d)
  /\ deferred' = [deferred EXCEPT ![d] = Unresolved("page")]
  /\ UNCHANGED <<pending, ticks, on, told>>

\* The page can resolve what it deferred, and no result of `then' or `all'.
Resolve(d, r) ==
  /\ deferred[d].made = "page" /\ r \in Resolvents(d)
  /\ Settle(ticks, d, r)
  /\ UNCHANGED <<on, told>>

Then(d, c) ==
  /\ Exists(d) /\ New(c)
  /\ deferred' = [deferred EXCEPT ![c] = Unresolved("then")]
  /\ on' = [on EXCEPT ![c] = <<d>>]
  /\ Attach(ticks, Promise(d), <<<<c, 1>>>>)
  /\ UNCHANGED told

\* `all' of two promises: one callback on each.
All(c, d, e) ==
  /\ Exists(d) /\ Exists(e) /\ New(c)
  /\ deferred' = [deferred EXCEPT ![c] = Unresolved("all")]
  /\ on' = [on EXCEPT ![c] = <<d, e>>]
  /\ LET s == Target(Promise(d))  t == Target(Promise(e))
         put == [x \in Deferreds |->
                   (IF s = Promise(x) THEN <<<<c, 1>>>> ELSE << >>)
                     \o (IF t = Promise(x) THEN <<<<c, 2>>>> ELSE << >>)]
     IN /\ pending' = [x \in Deferreds |-> pending[x] \o put[x]]
        /\ ticks' = ticks \o (IF s.kind = "promise" THEN << >> ELSE <<CallTick(<<c, 1>>, s)>>)
                          \o (IF t.kind = "promise" THEN << >> ELSE <<CallTick(<<c, 2>>, t)>>)
  /\ UNCHANGED told

-----------------------------------------------------------------------------
(* Ticks *)

DrainTick ==
  /\ ticks # << >> /\ Head(ticks).what = "drain"
  /\ Attach(Tail(ticks), Head(ticks).value, Head(ticks).cs)
  /\ UNCHANGED <<deferred, on, told>>

Tell(c, r) == told' = [told EXCEPT ![c] = Append(@, r)]

\* The page's callback returns something or throws; `then' without the callback
\* passes the value on, and without the errback the rejection.
CallThen ==
  /\ ticks # << >> /\ Head(ticks).what = "call"
  /\ LET c == Head(ticks).cs[1][1] IN
     /\ deferred[c].made = "then"
     /\ Tell(<<c, 1>>, Head(ticks).value)
     /\ \E r \in Resolvents(c) : Settle(Tail(ticks), c, r)
  /\ UNCHANGED on

\* A variant of `all' that answers with the first.
AnsweredByOne(c, i) == i \in {1, 2}

\* `counter' has reached zero.
AllAnswered(c, i) ==
  \A j \in {1, 2} \ {i} : told[<<c, j>>] # << >> /\ told[<<c, j>>][1].kind = "plain"

CallAll ==
  /\ ticks # << >> /\ Head(ticks).what = "call"
  /\ LET m == Head(ticks).cs[1]  c == m[1]  r == Head(ticks).value IN
     /\ deferred[c].made = "all"
     /\ Tell(m, r)
     /\ IF r.kind = "rejected" \/ AllAnswered(c, m[2])
          THEN Settle(Tail(ticks), c, r)
          ELSE ticks' = Tail(ticks) /\ UNCHANGED <<deferred, pending>>
  /\ UNCHANGED on

PromiseNext ==
  \/ \E d \in Deferreds : Defer(d) \/ \E r \in Refs : Resolve(d, r)
  \/ \E d, c \in Deferreds : Then(d, c) \/ \E e \in Deferreds : All(c, d, e)
  \/ DrainTick \/ CallThen \/ CallAll

PromiseSpec == PromiseInit /\ [][PromiseNext]_promiseVars

-----------------------------------------------------------------------------
(* Properties *)

\* Whatever resolves what, in whatever order and from within which callback, a
\* callback is told once, and what its promise came to.
ToldTruth ==
  \A c \in Deferreds : deferred[c].made = "then" /\ told[<<c, 1>>] # << >> =>
    told[<<c, 1>>] = <<Target(Promise(on[c][1]))>>

\* When no tick is left nobody waits for a promise that has come to something.
NobodyForgotten ==
  ticks = << >> =>
    \A c \in Deferreds : \A i \in DOMAIN on[c] :
      Target(Promise(on[c][i])).kind # "promise" =>
        told[<<c, i>>] # << >>

\* `all' comes to a value only after each of its promises did.
AllWaits ==
  \A c \in Deferreds :
    deferred[c].made = "all" /\ deferred[c].value # Nothing =>
      IF deferred[c].value.kind = "plain"
        THEN \A i \in {1, 2} : Target(Promise(on[c][i])).kind = "plain"
        ELSE \E i \in {1, 2} : Target(Promise(on[c][i])).kind = "rejected"

\* Every callback is told the truth, once, and none is forgotten ($q).
PromisesKept == ToldTruth /\ NobodyForgotten /\ AllWaits
=============================================================================
