----------------------------- MODULE ServicesProofs -----------------------------
(***************************************************************************)
(* Proofs about services of angular that share no state: $http with its    *)
(* timers, $q, and $cacheFactory.                                          *)
(***************************************************************************)
EXTENDS Http, Promises, LruCache, SequenceTheorems, FiniteSetTheorems, WellFoundedInduction, TLAPS

-----------------------------------------------------------------------------
(* Requests and timers, for any number of requests, addresses, timeouts and waiters *)

\* What the constants are: Absent is nothing that is kept in its place.
HttpConstants ==
  /\ MaxRequests \in Nat
  /\ Absent \notin [url : Addresses, cached : BOOLEAN, of : Requests]
  /\ Absent \notin Answers /\ Absent \notin {PromiseOf(r) : r \in Requests}

\* A request was made with a promise of its own address, whose request has it itself.
Known ==
  \A r \in Requests : request[r] # Absent =>
    LET o == request[r].of IN
    /\ request[o] # Absent /\ request[o].of = o /\ request[o].url = request[r].url

\* What is at the server, or was never sent, has not come to anything.
AtServer == \A r \in Unanswered : request[r] # Absent /\ request[r].of = r /\ settled[r] = Absent

\* What was lost was made, and is not at the server.
LostApart == IsFiniteSet(lost) /\ \A r \in lost : request[r] # Absent /\ r \notin xhr

\* Nothing is known of a request that was not made.
NotMade ==
  \A r \in Requests : request[r] = Absent =>
    settled[r] = Absent /\ heard[r] = << >> /\ r \notin pendingRequests /\ [aborts |-> r] \notin timers

\* Who was told was told what the promise came to, and is not pending.
Telling ==
  \A r \in Requests : request[r] # Absent =>
    \/ heard[r] = << >> /\ r \in pendingRequests
    \/ /\ settled[request[r].of] # Absent /\ heard[r] = <<settled[request[r].of]>>
       /\ r \notin pendingRequests

\* A timer that runs a function is the only one of its timeout, which is still set.
OneTimer ==
  \A t \in Timeouts, a \in BOOLEAN : [runs |-> t, apply |-> a] \in timers =>
    timeout[t] = "set" /\ [runs |-> t, apply |-> ~a] \notin timers

\* The promises in the cache are those of requests that cache.
OfCached == \A u \in Addresses, r \in xhr : cache[u] = PromiseOf(r) => request[r].cached

\* The inductive invariant.
HttpInv ==
  /\ HttpTypeOK /\ IsFiniteSet(timers) /\ IsFiniteSet(xhr)
  /\ Known /\ AtServer /\ LostApart /\ NotMade /\ Telling /\ OneTimer
  /\ CountTells /\ CacheTells /\ OfCached /\ CancelHolds

\* The invariant has the properties: the others are its conjuncts.
LEMMA HttpInvIsEnough == HttpInv => RequestsKept
<1> SUFFICES ASSUME HttpInv PROVE ToldOnce
  BY DEF HttpInv, RequestsKept
<1> SUFFICES ASSUME NEW r \in Requests, request[r] # Absent
             PROVE  /\ heard[r] \in {<< >>, <<settled[request[r].of]>>}
                    /\ (r \in pendingRequests) = (heard[r] = << >>)
                    /\ request[request[r].of].url = request[r].url
  BY DEF ToldOnce
<1>1. request[request[r].of].url = request[r].url
  BY DEF HttpInv, Known
<1>2. <<settled[request[r].of]>> # << >>
  OBVIOUS
<1>3. \/ heard[r] = << >> /\ r \in pendingRequests
      \/ heard[r] = <<settled[request[r].of]>> /\ r \notin pendingRequests
  BY DEF HttpInv, Telling
<1>4. (r \in pendingRequests) = (heard[r] = << >>)
  BY <1>2, <1>3
<1> QED
  BY <1>1, <1>3, <1>4

\* A page that starts has asked for nothing.
LEMMA HttpStarts ==
  ASSUME HttpConstants PROVE HttpInit => HttpInv
<1> SUFFICES ASSUME HttpInit PROVE HttpInv
  OBVIOUS
<1>1. IsFiniteSet({}) /\ Cardinality({}) = 0
  BY FS_EmptySet
<1>2. HttpTypeOK
  BY DEF HttpInit, HttpTypeOK
<1> QED
  BY <1>1, <1>2 DEF HttpInit, HttpInv, Known, AtServer, Unanswered, LostApart, NotMade, Telling,
     OneTimer, CountTells, CacheTells, OfCached, CancelHolds

\* A digest with outcomes that keep what was settled: it tells each only once.
LEMMA DigestTells ==
  ASSUME HttpConstants, HttpInv, NEW outcome \in [Requests -> Answers \cup {Absent}], NEW byTimeout,
         \A r \in Requests : settled[r] # Absent => outcome[r] = settled[r],
         Digest(outcome, byTimeout), request' = request, settled' = outcome
  PROVE  /\ heard' \in [Requests -> Seq(Answers)]
         /\ pendingRequests' \subseteq Requests /\ deferreds' \subseteq Timeouts
         /\ Telling'
         /\ \A r \in Requests : request[r] = Absent => heard'[r] = << >> /\ r \notin pendingRequests'
<1> DEFINE tell == {r \in Requests : /\ request[r] # Absent /\ heard[r] = << >>
                                    /\ outcome[request[r].of] # Absent}
<1>1. /\ heard' = [r \in Requests |->
                    IF r \in tell THEN Append(heard[r], outcome[request[r].of]) ELSE heard[r]]
      /\ pendingRequests' = pendingRequests \ tell
      /\ deferreds' = {t \in deferreds : byTimeout[t] = "set"}
  BY DEF Digest
<1>2. /\ request \in [Requests -> [url : Addresses, cached : BOOLEAN, of : Requests] \cup {Absent}]
      /\ heard \in [Requests -> Seq(Answers)]
      /\ pendingRequests \subseteq Requests /\ deferreds \subseteq Timeouts
  BY DEF HttpInv, HttpTypeOK
<1>3. ASSUME NEW r \in Requests, r \in tell
      PROVE  /\ request[r].of \in Requests /\ outcome[request[r].of] \in Answers
             /\ heard'[r] = <<outcome[request[r].of]>>
  <2>1. request[r].of \in Requests /\ outcome[request[r].of] \in Answers /\ heard[r] = << >>
    BY <1>2, <1>3
  <2>2. heard'[r] = Append(<< >>, outcome[request[r].of])
    BY <1>1, <1>3, <2>1
  <2> QED
    BY <2>1, <2>2
<1> HIDE DEF tell
<1>4. heard' \in [Requests -> Seq(Answers)]
  <2> SUFFICES ASSUME NEW r \in Requests PROVE heard'[r] \in Seq(Answers)
    BY <1>1
  <2> QED
    BY <1>1, <1>2, <1>3
<1>5. ASSUME NEW r \in Requests, request[r] # Absent
      PROVE  \/ heard'[r] = << >> /\ r \in pendingRequests'
             \/ /\ outcome[request[r].of] # Absent /\ heard'[r] = <<outcome[request[r].of]>>
                /\ r \notin pendingRequests'
  <2>1. CASE r \in tell
    <3>1. outcome[request[r].of] # Absent
      BY <2>1 DEF tell
    <3> QED
      BY <1>1, <1>3, <2>1, <3>1
  <2>2. CASE r \notin tell
    <3>1. heard'[r] = heard[r] /\ (r \in pendingRequests' <=> r \in pendingRequests)
      BY <1>1, <2>2
    <3>2. request[r].of \in Requests
      BY <1>2, <1>5
    <3> QED
      BY <3>1, <3>2, <1>5 DEF HttpInv, Telling
  <2> QED
    BY <2>1, <2>2
<1>6. Telling'
  BY <1>5 DEF Telling
<1>7. ASSUME NEW r \in Requests, request[r] = Absent
      PROVE  heard'[r] = << >> /\ r \notin pendingRequests'
  <2>1. r \notin tell
    BY <1>7 DEF tell
  <2> QED
    BY <1>1, <1>7, <2>1 DEF HttpInv, NotMade
<1> QED
  BY <1>1, <1>2, <1>4, <1>6, <1>7

\* Sets that are counted: one more, and one less.
LEMMA Counted ==
  ASSUME NEW S, IsFiniteSet(S), NEW x
  PROVE  /\ Cardinality(S) \in Nat /\ (Cardinality(S) = 0 <=> S = {})
         /\ IsFiniteSet(S \cup {x}) /\ IsFiniteSet(S \ {x})
         /\ x \notin S => Cardinality(S \cup {x}) = Cardinality(S) + 1
         /\ x \in S => Cardinality(S \ {x}) = Cardinality(S) - 1 /\ Cardinality(S) > 0
<1>1. Cardinality(S) \in Nat /\ (Cardinality(S) = 0 <=> S = {})
  BY FS_CardinalityType, FS_EmptySet
<1>2. IsFiniteSet(S \cup {x}) /\ (x \notin S => Cardinality(S \cup {x}) = Cardinality(S) + 1)
  BY FS_AddElement
<1>3. IsFiniteSet(S \ {x}) /\ (x \in S => Cardinality(S \ {x}) = Cardinality(S) - 1)
  BY FS_RemoveElement
<1>4. x \in S => Cardinality(S) > 0
  BY <1>1
<1> QED
  BY <1>1, <1>2, <1>3, <1>4

\* A call of $http: it joins the request whose promise it finds, is served, or asks.
LEMMA CallKeeps ==
  ASSUME HttpConstants, HttpInv, NEW r \in Requests, NEW u \in Addresses, NEW cached \in BOOLEAN,
         NEW timed \in BOOLEAN, NEW throws \in BOOLEAN, Call(r, u, cached, timed, throws)
  PROVE  HttpInv'
<1> DEFINE hit == IF cached THEN cache[u] ELSE Absent
           of  == IF hit \in {PromiseOf(q) : q \in Requests} THEN hit.promise ELSE r
<1>0. HttpTypeOK /\ IsFiniteSet(timers) /\ IsFiniteSet(xhr) /\ CountTells
  BY DEF HttpInv
<1>1. /\ request[r] = Absent /\ pendingRequests' = pendingRequests \cup {r}
      /\ request' = [request EXCEPT ![r] = [url |-> u, cached |-> cached, of |-> of]]
      /\ settled' = IF hit \in Answers THEN [settled EXCEPT ![r] = hit] ELSE settled
      /\ UNCHANGED <<heard, waiting, timeout, deferreds, ran>>
      /\ IF hit = Absent
           THEN /\ SendRequest(r, timed, throws)
                /\ cache' = IF cached THEN [cache EXCEPT ![u] = PromiseOf(r)] ELSE cache
           ELSE UNCHANGED <<xhr, timers, outstanding, lost, cache>>
  BY DEF Call, NextCall
<1>2. settled[r] = Absent /\ heard[r] = << >> /\ r \notin xhr /\ r \notin lost
      /\ r \notin Unanswered /\ [aborts |-> r] \notin timers
  BY <1>1 DEF HttpInv, NotMade, AtServer, LostApart, Unanswered
\* The promise is that of a request that is unanswered, if it is not its own.
<1>3. \/ hit = Absent /\ of = r
      \/ hit \in {Ok(b) : b \in Bodies} /\ hit \in Answers /\ hit # Absent /\ of = r
      \/ \E q \in Unanswered :
           /\ hit = PromiseOf(q) /\ of = q /\ q \in Requests /\ q # r
           /\ request[q] # Absent /\ request[q].url = u /\ request[q].of = q
           /\ hit # Absent /\ hit \notin Answers
  <2>1. CASE hit = Absent
    <3>1. hit \notin {PromiseOf(q) : q \in Requests}
      BY <2>1 DEF HttpConstants
    <3> QED
      BY <2>1, <3>1
  <2>2. CASE hit # Absent
    <3>1. hit = cache[u] /\ cache[u] # Absent
      BY <2>2
    <3>2. CASE cache[u] \in {Ok(b) : b \in Bodies}
      <4>1. PICK b \in Bodies : hit = [status |-> 200, body |-> b]
        BY <3>1, <3>2 DEF Ok
      <4>2. hit \notin {PromiseOf(q) : q \in Requests}
        BY <4>1 DEF PromiseOf
      <4> QED
        BY <2>2, <3>1, <3>2, <4>2 DEF Answers
    <3>3. CASE \E q \in Unanswered : cache[u] = PromiseOf(q) /\ request[q].url = u
      <4>1. PICK q \in Unanswered : cache[u] = PromiseOf(q) /\ request[q].url = u
        BY <3>3
      <4>2. q \in Requests /\ request[q] # Absent /\ request[q].of = q
        BY <1>0 DEF HttpInv, AtServer, Unanswered, HttpTypeOK
      <4>3. hit = [promise |-> q]
        BY <3>1, <4>1 DEF PromiseOf
      <4>4. hit \notin Answers
        BY <4>3 DEF Answers, Ok, Failed, Aborted
      <4>5. hit \in {PromiseOf(p) : p \in Requests} /\ hit.promise = q
        BY <4>2, <4>3 DEF PromiseOf
      <4>6. hit = PromiseOf(q) /\ of = q /\ q # r
        BY <1>2, <3>1, <4>1, <4>5
      <4> QED
        BY <2>2, <4>1, <4>2, <4>4, <4>6
    <3> QED
      BY <3>1, <3>2, <3>3 DEF HttpInv, CacheTells
  <2> QED
    BY <2>1, <2>2
<1> HIDE DEF hit, of
<1>4. of \in Requests
  BY <1>3
<1>5. [url |-> u, cached |-> cached, of |-> of] # Absent
  BY <1>4 DEF HttpConstants
<1>6. /\ request'[r] = [url |-> u, cached |-> cached, of |-> of]
      /\ \A q \in Requests : q # r => request'[q] = request[q] /\ settled'[q] = settled[q]
      /\ \A q \in Requests : settled[q] # Absent => settled'[q] = settled[q]
  BY <1>0, <1>1, <1>2 DEF HttpTypeOK
\* What is sent is counted.
<1>7. /\ xhr' = IF hit = Absent /\ ~throws THEN xhr \cup {r} ELSE xhr
      /\ lost' = IF hit = Absent /\ throws THEN lost \cup {r} ELSE lost
      /\ timers' = IF hit = Absent /\ ~throws /\ timed THEN timers \cup {[aborts |-> r]} ELSE timers
      /\ cache' = IF hit = Absent /\ cached THEN [cache EXCEPT ![u] = PromiseOf(r)] ELSE cache
      /\ outstanding' = IF hit # Absent THEN outstanding
                        ELSE IF ~throws /\ timed THEN outstanding + 2 ELSE outstanding + 1
  BY <1>1 DEF SendRequest
<1>8. CountTells' /\ IsFiniteSet(timers') /\ IsFiniteSet(xhr') /\ outstanding' \in Nat
  <2>1. /\ outstanding \in Nat
        /\ outstanding = Cardinality(xhr) + Cardinality(timers) + Cardinality(lost)
        /\ (outstanding = 0 => waiting = {}) /\ waiting' = waiting
    BY <1>0, <1>1 DEF HttpTypeOK, CountTells
  <2>2. /\ Cardinality(xhr) \in Nat /\ IsFiniteSet(xhr \cup {r})
        /\ Cardinality(xhr \cup {r}) = Cardinality(xhr) + 1
    BY <1>0, <1>2, Counted
  <2>3. /\ Cardinality(timers) \in Nat /\ IsFiniteSet(timers \cup {[aborts |-> r]})
        /\ Cardinality(timers \cup {[aborts |-> r]}) = Cardinality(timers) + 1
    BY <1>0, <1>2, Counted
  <2>4. /\ Cardinality(lost) \in Nat /\ Cardinality(lost \cup {r}) = Cardinality(lost) + 1
    BY <1>2, Counted DEF HttpInv, LostApart
  <2> QED
    BY <1>0, <1>7, <2>1, <2>2, <2>3, <2>4 DEF CountTells
<1>9. HttpTypeOK'
  <2>1. request' \in [Requests -> [url : Addresses, cached : BOOLEAN, of : Requests] \cup {Absent}]
    BY <1>0, <1>1, <1>4 DEF HttpTypeOK
  <2>2. settled' \in [Requests -> Answers \cup {Absent}]
    BY <1>0, <1>1 DEF HttpTypeOK
  <2>3. cache' \in [Addresses -> {PromiseOf(q) : q \in Requests} \cup Answers \cup {Absent}]
    BY <1>0, <1>7 DEF HttpTypeOK
  <2>4. xhr' \subseteq Requests /\ pendingRequests' \subseteq Requests /\ lost' \subseteq Requests
    BY <1>0, <1>1, <1>7 DEF HttpTypeOK
  <2>5. timers' \subseteq Timers
    BY <1>0, <1>7 DEF HttpTypeOK, Timers
  <2> QED
    BY <1>0, <1>1, <1>8, <2>1, <2>2, <2>3, <2>4, <2>5 DEF HttpTypeOK
<1>10. Known'
  <2> SUFFICES ASSUME NEW q \in Requests, request'[q] # Absent
               PROVE  /\ request'[request'[q].of] # Absent
                      /\ request'[request'[q].of].of = request'[q].of
                      /\ request'[request'[q].of].url = request'[q].url
    BY DEF Known
  <2>1. CASE q = r
    BY <1>3, <1>5, <1>6, <2>1
  <2>2. CASE q # r
    <3>1. request'[q] = request[q] /\ request[q] # Absent /\ request[q].of \in Requests
      BY <1>0, <1>6, <2>2 DEF HttpTypeOK
    <3>2. /\ request[request[q].of] # Absent /\ request[request[q].of].of = request[q].of
          /\ request[request[q].of].url = request[q].url
      BY <3>1 DEF HttpInv, Known
    <3> QED
      BY <1>1, <1>6, <3>1, <3>2
  <2> QED
    BY <2>1, <2>2
\* Of the unanswered there is one more, if it does not find anything.
<1>18. Unanswered' = IF hit = Absent THEN Unanswered \cup {r} ELSE Unanswered
  <2>1. lost \subseteq Requests /\ (hit = Absent => settled' = settled)
    BY <1>0, <1>1, <1>3 DEF HttpTypeOK, HttpConstants
  <2>2. ASSUME NEW q \in lost PROVE settled'[q] = settled[q]
    BY <1>2, <1>6, <2>1
  <2> QED
    BY <1>2, <1>7, <2>1, <2>2 DEF Unanswered
<1>11. AtServer'
  <2> SUFFICES ASSUME NEW q \in Unanswered'
               PROVE  request'[q] # Absent /\ request'[q].of = q /\ settled'[q] = Absent
    BY DEF AtServer
  <2>1. CASE q = r
    <3>1. hit = Absent /\ of = r
      BY <1>2, <1>3, <1>18, <2>1
    <3> QED
      BY <1>1, <1>2, <1>5, <1>6, <2>1, <3>1 DEF HttpConstants
  <2>2. CASE q # r
    <3>1. q \in Unanswered /\ q \in Requests
      BY <1>0, <1>18, <2>2 DEF HttpTypeOK, Unanswered
    <3> QED
      BY <1>6, <2>2, <3>1 DEF HttpInv, AtServer
  <2> QED
    BY <2>1, <2>2
<1>19. LostApart'
  <2>1. IsFiniteSet(lost')
    BY <1>2, <1>7, Counted DEF HttpInv, LostApart
  <2>2. ASSUME NEW q \in lost' PROVE request'[q] # Absent /\ q \notin xhr'
    <3>1. CASE q = r
      BY <1>2, <1>5, <1>6, <1>7, <3>1
    <3>2. CASE q # r
      BY <1>0, <1>6, <1>7, <3>2, <2>2 DEF HttpInv, LostApart, HttpTypeOK
    <3> QED
      BY <3>1, <3>2
  <2> QED
    BY <2>1, <2>2 DEF LostApart
<1>12. NotMade'
  <2> SUFFICES ASSUME NEW q \in Requests, request'[q] = Absent
               PROVE  /\ settled'[q] = Absent /\ heard'[q] = << >> /\ q \notin pendingRequests'
                      /\ [aborts |-> q] \notin timers'
    BY DEF NotMade
  <2>1. q # r
    BY <1>5, <1>6
  <2>2. [aborts |-> q] # [aborts |-> r]
    BY <2>1
  <2> QED
    BY <1>1, <1>6, <1>7, <2>1, <2>2 DEF HttpInv, NotMade
<1>13. Telling'
  <2> SUFFICES ASSUME NEW q \in Requests, request'[q] # Absent
               PROVE  \/ heard'[q] = << >> /\ q \in pendingRequests'
                      \/ /\ settled'[request'[q].of] # Absent
                         /\ heard'[q] = <<settled'[request'[q].of]>> /\ q \notin pendingRequests'
    BY DEF Telling
  <2>1. CASE q = r
    BY <1>1, <1>2, <2>1
  <2>2. CASE q # r
    <3>1. request'[q] = request[q] /\ request[q] # Absent /\ request[q].of \in Requests
      BY <1>0, <1>6, <2>2 DEF HttpTypeOK
    <3> QED
      BY <1>1, <1>6, <2>2, <3>1 DEF HttpInv, Telling
  <2> QED
    BY <2>1, <2>2
<1>14. OneTimer'
  <2>1. \A t \in Timeouts, a \in BOOLEAN :
          [runs |-> t, apply |-> a] \in timers' <=> [runs |-> t, apply |-> a] \in timers
    BY <1>7
  <2> QED
    BY <1>1, <2>1 DEF HttpInv, OneTimer
<1>15. CacheTells'
  <2> SUFFICES ASSUME NEW v \in Addresses
               PROVE  \/ cache'[v] = Absent
                      \/ cache'[v] \in {Ok(b) : b \in Bodies}
                      \/ \E q \in Unanswered' : cache'[v] = PromiseOf(q) /\ request'[q].url = v
    BY DEF CacheTells
  <2>1. CASE hit = Absent /\ cached /\ v = u
    <3>1. cache'[v] = PromiseOf(r) /\ r \in Unanswered' /\ request'[r].url = v
      BY <1>0, <1>6, <1>7, <1>18, <2>1 DEF HttpTypeOK
    <3> QED
      BY <3>1
  <2>2. CASE ~(hit = Absent /\ cached /\ v = u)
    <3>1. cache'[v] = cache[v]
      BY <1>0, <1>7, <2>2 DEF HttpTypeOK
    <3>2. ASSUME NEW q \in Unanswered, cache[v] = PromiseOf(q), request[q].url = v
          PROVE  q \in Unanswered' /\ request'[q].url = v
      BY <1>0, <1>2, <1>6, <1>18, <3>2 DEF HttpTypeOK, Unanswered
    <3> QED
      BY <3>1, <3>2 DEF HttpInv, CacheTells
  <2> QED
    BY <2>1, <2>2
<1>16. CancelHolds'
  BY <1>1 DEF HttpInv, CancelHolds
<1>17. OfCached'
  <2> SUFFICES ASSUME NEW v \in Addresses, NEW q \in xhr', cache'[v] = PromiseOf(q)
               PROVE  request'[q].cached
    BY DEF OfCached
  <2>1. CASE q = r
    <3>1. hit = Absent
      BY <1>2, <1>7, <2>1
    <3>2. CASE cached
      BY <1>6, <2>1, <3>2
    <3>3. CASE ~cached
      <4>1. cache[v] = PromiseOf(r)
        BY <1>7, <2>1, <3>3
      <4>2. PICK p \in Unanswered : PromiseOf(r) = PromiseOf(p)
        <5>1. PromiseOf(r) # Absent
          BY DEF HttpConstants
        <5>2. PromiseOf(r) \notin {Ok(b) : b \in Bodies}
          BY DEF PromiseOf, Ok
        <5> QED
          BY <4>1, <5>1, <5>2 DEF HttpInv, CacheTells
      <4> QED
        BY <1>2, <4>2 DEF PromiseOf
    <3> QED
      BY <3>2, <3>3
  <2>2. CASE q # r
    <3>1. q \in xhr /\ request'[q] = request[q] /\ PromiseOf(q) # PromiseOf(r)
      BY <1>0, <1>6, <1>7, <2>2 DEF HttpTypeOK, PromiseOf
    <3>2. cache[v] = PromiseOf(q)
      BY <1>0, <1>7, <3>1 DEF HttpTypeOK
    <3> QED
      BY <3>1, <3>2 DEF HttpInv, OfCached
  <2> QED
    BY <2>1, <2>2
<1> QED
  BY <1>8, <1>9, <1>10, <1>11, <1>12, <1>13, <1>14, <1>15, <1>16, <1>17, <1>19 DEF HttpInv

\* What an answer or an abort does, whatever becomes of the count and the timers.
LEMMA DoneKeeps ==
  ASSUME HttpConstants, HttpInv, NEW r \in xhr, NEW a \in Answers, Done(r, a),
         UNCHANGED <<request, timeout, ran>>, timers' \subseteq timers, lost' \in {lost, lost \cup {r}}
  PROVE  /\ xhr' = xhr \ {r} /\ settled' \in [Requests -> Answers \cup {Absent}]
         /\ heard' \in [Requests -> Seq(Answers)]
         /\ cache' \in [Addresses -> {PromiseOf(q) : q \in Requests} \cup Answers \cup {Absent}]
         /\ pendingRequests' \subseteq Requests /\ deferreds' \subseteq Timeouts
         /\ Known' /\ AtServer' /\ LostApart' /\ NotMade' /\ Telling'
         /\ CacheTells' /\ OfCached' /\ CancelHolds'
<1> DEFINE outcome == [settled EXCEPT ![r] = a]
<1>0. HttpTypeOK /\ r \in Requests /\ request[r] # Absent /\ settled[r] = Absent /\ request[r].url \in Addresses
  BY DEF HttpInv, HttpTypeOK, AtServer, Unanswered
<1>1. /\ xhr' = xhr \ {r} /\ settled' = outcome /\ cache' = Cached(r, a)
      /\ Digest(outcome, timeout) /\ request' = request
  BY DEF Done
<1>2. /\ outcome \in [Requests -> Answers \cup {Absent}] /\ outcome[r] = a
      /\ \A q \in Requests : q # r => outcome[q] = settled[q]
      /\ \A q \in Requests : settled[q] # Absent => outcome[q] = settled[q]
  BY <1>0 DEF HttpTypeOK
<1> HIDE DEF outcome
<1>3. /\ heard' \in [Requests -> Seq(Answers)]
      /\ pendingRequests' \subseteq Requests /\ deferreds' \subseteq Timeouts
      /\ Telling'
      /\ \A q \in Requests : request[q] = Absent => heard'[q] = << >> /\ q \notin pendingRequests'
  BY <1>1, <1>2, DigestTells
<1>4. Known' /\ CancelHolds'
  BY <1>1 DEF HttpInv, Known, CancelHolds
<1>13. Unanswered' = Unanswered \ {r} /\ LostApart'
  <2>1. a # Absent /\ r \notin lost /\ IsFiniteSet(lost) /\ lost \subseteq Requests
    BY <1>0 DEF HttpConstants, HttpInv, HttpTypeOK, LostApart
  <2>2. settled'[r] # Absent /\ \A q \in lost : settled'[q] = settled[q]
    BY <1>1, <1>2, <2>1
  <2>3. IsFiniteSet(lost')
    BY <2>1, Counted
  <2> QED
    BY <1>0, <1>1, <2>1, <2>2, <2>3 DEF Unanswered, HttpInv, LostApart
<1>5. AtServer'
  <2>1. Unanswered \subseteq Requests
    BY DEF HttpInv, HttpTypeOK, Unanswered
  <2> QED
    BY <1>1, <1>2, <1>13, <2>1 DEF HttpInv, AtServer
<1>6. NotMade'
  <2> SUFFICES ASSUME NEW q \in Requests, request[q] = Absent
               PROVE  /\ settled'[q] = Absent /\ heard'[q] = << >> /\ q \notin pendingRequests'
                      /\ [aborts |-> q] \notin timers'
    BY <1>1 DEF NotMade
  <2>1. q # r
    BY <1>0
  <2> QED
    BY <1>1, <1>2, <1>3, <2>1 DEF HttpInv, NotMade
<1>7. cache' = IF request[r].cached
                 THEN [cache EXCEPT ![request[r].url] = IF a.status = 200 THEN a ELSE Absent] ELSE cache
  BY <1>1 DEF Cached
<1>8. a.status = 200 => a \in {Ok(b) : b \in Bodies}
  BY DEF Answers, Failed, Aborted
<1>9. ASSUME NEW v \in Addresses, NEW q \in xhr, cache'[v] = PromiseOf(q)
      PROVE  cache[v] = PromiseOf(q)
  <2>1. PromiseOf(q) # Absent /\ PromiseOf(q) \notin {Ok(b) : b \in Bodies}
    <3>1. q \in Requests
      BY <1>0 DEF HttpTypeOK
    <3> QED
      BY <3>1 DEF HttpConstants, PromiseOf, Ok
  <2> QED
    BY <1>0, <1>7, <1>8, <1>9, <2>1 DEF HttpTypeOK
<1>10. CacheTells'
  <2> SUFFICES ASSUME NEW v \in Addresses
               PROVE  \/ cache'[v] = Absent
                      \/ cache'[v] \in {Ok(b) : b \in Bodies}
                      \/ \E q \in Unanswered' : cache'[v] = PromiseOf(q) /\ request'[q].url = v
    BY DEF CacheTells
  <2>1. CASE request[r].cached /\ v = request[r].url
    BY <1>0, <1>7, <1>8, <2>1 DEF HttpTypeOK
  <2>2. CASE ~(request[r].cached /\ v = request[r].url)
    <3>1. cache'[v] = cache[v]
      BY <1>0, <1>7, <2>2 DEF HttpTypeOK
    <3>2. ASSUME NEW q \in Unanswered, cache[v] = PromiseOf(q), request[q].url = v
          PROVE  q \in Unanswered' /\ request'[q].url = v
      <4>1. cache[v] = PromiseOf(r) => request[r].cached
        BY DEF HttpInv, OfCached
      <4>2. q # r
        BY <2>2, <3>2, <4>1
      <4> QED
        BY <1>1, <1>13, <3>2, <4>2
    <3> QED
      BY <3>1, <3>2 DEF HttpInv, CacheTells
  <2> QED
    BY <2>1, <2>2
<1>11. OfCached'
  BY <1>1, <1>9 DEF HttpInv, OfCached
<1>12. cache' \in [Addresses -> {PromiseOf(q) : q \in Requests} \cup Answers \cup {Absent}]
  BY <1>0, <1>7 DEF HttpTypeOK
<1> QED
  BY <1>1, <1>2, <1>3, <1>4, <1>5, <1>6, <1>10, <1>11, <1>12, <1>13

\* A step that leaves the requests, the cache and what was settled as they are.
LEMMA RestKeeps ==
  ASSUME HttpInv, UNCHANGED <<request, xhr, settled, cache, lost>>
  PROVE  Known' /\ AtServer' /\ LostApart' /\ CacheTells' /\ OfCached'
BY DEF HttpInv, Known, AtServer, LostApart, Unanswered, CacheTells, OfCached

\* An answer ends its request and nothing else.
LEMMA AnsweredKeeps ==
  ASSUME HttpConstants, HttpInv, NEW r \in Requests, NEW a \in Answers, NEW givesUp \in BOOLEAN,
         Answered(r, a, givesUp)
  PROVE  HttpInv'
<1>1. /\ r \in xhr /\ Done(r, a) /\ Complete(IF givesUp THEN 0 ELSE 1)
      /\ lost' = (IF givesUp THEN lost \cup {r} ELSE lost) /\ lost' \in {lost, lost \cup {r}}
      /\ UNCHANGED <<request, timers, timeout, ran>>
  BY DEF Answered, CompleteRequest
<1>2. /\ xhr' = xhr \ {r} /\ settled' \in [Requests -> Answers \cup {Absent}]
      /\ heard' \in [Requests -> Seq(Answers)]
      /\ cache' \in [Addresses -> {PromiseOf(q) : q \in Requests} \cup Answers \cup {Absent}]
      /\ pendingRequests' \subseteq Requests /\ deferreds' \subseteq Timeouts
      /\ Known' /\ AtServer' /\ LostApart' /\ NotMade' /\ Telling'
      /\ CacheTells' /\ OfCached' /\ CancelHolds'
  BY <1>1, DoneKeeps
<1>3. /\ IsFiniteSet(xhr') /\ Cardinality(xhr') = Cardinality(xhr) - 1
      /\ Cardinality(xhr) \in Nat /\ Cardinality(timers) \in Nat /\ Cardinality(xhr) > 0
  BY <1>1, <1>2, Counted DEF HttpInv
<1>4. CountTells' /\ outstanding' \in Nat /\ waiting' \subseteq Waiters
  <2>1. /\ Cardinality(lost) \in Nat
        /\ Cardinality(lost') = IF givesUp THEN Cardinality(lost) + 1 ELSE Cardinality(lost)
    BY <1>1, Counted DEF HttpInv, LostApart
  <2> QED
    BY <1>1, <1>3, <2>1 DEF Complete, HttpInv, CountTells, HttpTypeOK
<1>5. HttpTypeOK'
  BY <1>1, <1>2, <1>4 DEF HttpInv, HttpTypeOK
<1>6. OneTimer'
  BY <1>1 DEF HttpInv, OneTimer
<1> QED
  BY <1>1, <1>2, <1>3, <1>4, <1>5, <1>6 DEF HttpInv

\* A timer aborts its request, or finds that there is nothing to abort.
LEMMA TimesOutKeeps ==
  ASSUME HttpConstants, HttpInv, NEW r \in Requests, NEW givesUp \in BOOLEAN, TimesOut(r, givesUp)
  PROVE  HttpInv'
<1>1. /\ [aborts |-> r] \in timers /\ timers' = timers \ {[aborts |-> r]}
      /\ UNCHANGED <<request, timeout, ran>>
      /\ IF r \in xhr
           THEN /\ Done(r, Aborted) /\ Complete(IF givesUp THEN 1 ELSE 1 + 1)
                /\ lost' = IF givesUp THEN lost \cup {r} ELSE lost
           ELSE /\ Complete(1)
                /\ UNCHANGED <<xhr, cache, settled, heard, pendingRequests, deferreds, lost>>
  BY DEF TimesOut, CompleteRequest
<1>2. /\ IsFiniteSet(timers') /\ Cardinality(timers') = Cardinality(timers) - 1
      /\ Cardinality(timers) \in Nat /\ Cardinality(timers) > 0 /\ Cardinality(xhr) \in Nat
      /\ Cardinality(lost) \in Nat
  BY <1>1, Counted DEF HttpInv, LostApart
<1>3. OneTimer' /\ timers' \subseteq Timers
  BY <1>1 DEF HttpInv, OneTimer, HttpTypeOK
<1>4. CASE r \in xhr
  <2>1. Aborted \in Answers
    BY DEF Answers
  <2>2. /\ Done(r, Aborted) /\ Complete(IF givesUp THEN 1 ELSE 1 + 1) /\ timers' \subseteq timers
        /\ lost' = (IF givesUp THEN lost \cup {r} ELSE lost) /\ lost' \in {lost, lost \cup {r}}
    BY <1>1, <1>4
  <2>3. /\ xhr' = xhr \ {r} /\ settled' \in [Requests -> Answers \cup {Absent}]
        /\ heard' \in [Requests -> Seq(Answers)]
        /\ cache' \in [Addresses -> {PromiseOf(q) : q \in Requests} \cup Answers \cup {Absent}]
        /\ pendingRequests' \subseteq Requests /\ deferreds' \subseteq Timeouts
        /\ Known' /\ AtServer' /\ LostApart' /\ NotMade' /\ Telling'
        /\ CacheTells' /\ OfCached' /\ CancelHolds'
    BY <1>1, <1>4, <2>1, <2>2, DoneKeeps
  <2>4. IsFiniteSet(xhr') /\ Cardinality(xhr') = Cardinality(xhr) - 1 /\ Cardinality(xhr) > 0
    BY <1>4, <2>3, Counted DEF HttpInv
  <2>5. CountTells' /\ outstanding' \in Nat /\ waiting' \subseteq Waiters
    <3>1. Cardinality(lost') = IF givesUp THEN Cardinality(lost) + 1 ELSE Cardinality(lost)
      BY <1>4, <2>2, Counted DEF HttpInv, LostApart
    <3> QED
      BY <1>2, <2>2, <2>4, <3>1 DEF Complete, HttpInv, CountTells, HttpTypeOK
  <2>6. HttpTypeOK'
    BY <1>1, <1>3, <2>2, <2>3, <2>5 DEF HttpInv, HttpTypeOK
  <2> QED
    BY <1>2, <1>3, <2>3, <2>4, <2>5, <2>6 DEF HttpInv
<1>5. CASE r \notin xhr
  <2>1. Complete(1) /\ UNCHANGED <<xhr, cache, settled, heard, pendingRequests, deferreds, lost>>
    BY <1>1, <1>5
  <2>2. CountTells' /\ outstanding' \in Nat /\ waiting' \subseteq Waiters
    BY <1>2, <2>1 DEF Complete, HttpInv, CountTells, HttpTypeOK
  <2>3. HttpTypeOK'
    BY <1>1, <1>3, <2>1, <2>2 DEF HttpInv, HttpTypeOK
  <2>4. NotMade' /\ Telling' /\ CancelHolds'
    BY <1>1, <2>1 DEF HttpInv, NotMade, Telling, CancelHolds
  <2>5. Known' /\ AtServer' /\ LostApart' /\ CacheTells' /\ OfCached'
    BY <1>1, <2>1, RestKeeps
  <2>6. IsFiniteSet(xhr')
    BY <2>1 DEF HttpInv
  <2> QED
    BY <1>2, <1>3, <2>2, <2>3, <2>4, <2>5, <2>6 DEF HttpInv
<1> QED
  BY <1>4, <1>5

\* A call of $timeout starts a timer of its own.
LEMMA SetTimeoutKeeps ==
  ASSUME HttpConstants, HttpInv, NEW t \in Timeouts, NEW apply \in BOOLEAN, SetTimeout(t, apply)
  PROVE  HttpInv'
<1> DEFINE m == [runs |-> t, apply |-> apply]
<1>1. /\ timeout[t] = "unset" /\ timeout' = [timeout EXCEPT ![t] = "set"]
      /\ timers' = timers \cup {m} /\ deferreds' = deferreds \cup {t}
      /\ outstanding' = outstanding + 1
      /\ UNCHANGED <<request, xhr, settled, heard, pendingRequests, cache, waiting, lost, ran>>
  BY DEF SetTimeout
<1>2. \A a \in BOOLEAN : [runs |-> t, apply |-> a] \notin timers
  BY <1>1 DEF HttpInv, OneTimer
<1>3. /\ IsFiniteSet(timers') /\ Cardinality(timers') = Cardinality(timers) + 1
      /\ Cardinality(timers) \in Nat /\ Cardinality(xhr) \in Nat
      /\ Cardinality(lost) \in Nat
  BY <1>1, <1>2, Counted DEF HttpInv, LostApart
<1>4. CountTells' /\ outstanding' \in Nat
  BY <1>1, <1>3 DEF HttpInv, CountTells, HttpTypeOK
<1>5. HttpTypeOK'
  <2>1. timeout' \in [Timeouts -> {"unset", "set", "ran", "threw", "canceled"}]
    BY <1>1 DEF HttpInv, HttpTypeOK
  <2>2. timers' \subseteq Timers
    BY <1>1 DEF HttpInv, HttpTypeOK, Timers
  <2> QED
    BY <1>1, <1>4, <2>1, <2>2 DEF HttpInv, HttpTypeOK
<1>6. OneTimer'
  <2> SUFFICES ASSUME NEW s \in Timeouts, NEW a \in BOOLEAN, [runs |-> s, apply |-> a] \in timers'
               PROVE  timeout'[s] = "set" /\ [runs |-> s, apply |-> ~a] \notin timers'
    BY DEF OneTimer
  <2>1. CASE s = t
    <3>1. [runs |-> s, apply |-> a] = m
      BY <1>1, <1>2, <2>1
    <3>2. a = apply /\ ~a # apply
      BY <3>1
    <3>3. [runs |-> s, apply |-> ~a] # m
      BY <3>2
    <3> QED
      BY <1>1, <1>2, <2>1, <3>3 DEF HttpInv, HttpTypeOK
  <2>2. CASE s # t
    <3>1. [runs |-> s, apply |-> a] # m /\ [runs |-> s, apply |-> ~a] # m
      BY <2>2
    <3> QED
      BY <1>1, <2>2, <3>1 DEF HttpInv, HttpTypeOK, OneTimer
  <2> QED
    BY <2>1, <2>2
<1>7. NotMade' /\ Telling'
  BY <1>1 DEF HttpInv, NotMade, Telling
<1>8. Known' /\ AtServer' /\ LostApart' /\ CacheTells' /\ OfCached'
  BY <1>1, RestKeeps
<1>9. CancelHolds'
  BY <1>1 DEF HttpInv, CancelHolds, HttpTypeOK
<1> QED
  BY <1>1, <1>3, <1>4, <1>5, <1>6, <1>7, <1>8, <1>9 DEF HttpInv

\* The function of $timeout runs: its timer is gone, and was the only one.
LEMMA RunsKeeps ==
  ASSUME HttpConstants, HttpInv, NEW t \in Timeouts, NEW apply \in BOOLEAN,
         NEW how \in {"ran", "threw"}, Runs(t, apply, how)
  PROVE  HttpInv'
<1> DEFINE m == [runs |-> t, apply |-> apply]
<1>1. /\ m \in timers /\ timers' = timers \ {m} /\ ran' = ran \cup {t}
      /\ timeout' = [timeout EXCEPT ![t] = how]
      /\ IF apply THEN Digest(settled, timeout') ELSE UNCHANGED <<heard, pendingRequests, deferreds>>
      /\ Complete(1)
      /\ UNCHANGED <<request, xhr, settled, cache, lost>>
  BY DEF Runs
<1>2. timeout[t] = "set" /\ [runs |-> t, apply |-> ~apply] \notin timers
  BY <1>1 DEF HttpInv, OneTimer
<1>3. /\ IsFiniteSet(timers') /\ Cardinality(timers') = Cardinality(timers) - 1
      /\ Cardinality(timers) \in Nat /\ Cardinality(timers) > 0 /\ Cardinality(xhr) \in Nat
      /\ Cardinality(lost) \in Nat
  BY <1>1, Counted DEF HttpInv, LostApart
<1>4. CountTells' /\ outstanding' \in Nat /\ waiting' \subseteq Waiters
  BY <1>1, <1>3 DEF Complete, HttpInv, CountTells, HttpTypeOK
<1>5. /\ heard' \in [Requests -> Seq(Answers)]
      /\ pendingRequests' \subseteq Requests /\ deferreds' \subseteq Timeouts
      /\ Telling'
      /\ \A q \in Requests : request[q] = Absent => heard'[q] = << >> /\ q \notin pendingRequests'
  <2>1. CASE apply
    <3>1. settled \in [Requests -> Answers \cup {Absent}] /\ settled' = settled /\ request' = request
      BY <1>1 DEF HttpInv, HttpTypeOK
    <3> QED
      BY <1>1, <2>1, <3>1, DigestTells
  <2>2. CASE ~apply
    BY <1>1, <2>2 DEF HttpInv, HttpTypeOK, Telling, NotMade
  <2> QED
    BY <2>1, <2>2
<1>6. NotMade'
  BY <1>1, <1>5 DEF HttpInv, NotMade
<1>7. HttpTypeOK'
  <2>1. timeout' \in [Timeouts -> {"unset", "set", "ran", "threw", "canceled"}]
    BY <1>1 DEF HttpInv, HttpTypeOK
  <2> QED
    BY <1>1, <1>4, <1>5, <2>1 DEF HttpInv, HttpTypeOK
<1>8. OneTimer'
  <2> SUFFICES ASSUME NEW s \in Timeouts, NEW a \in BOOLEAN, [runs |-> s, apply |-> a] \in timers'
               PROVE  timeout'[s] = "set" /\ [runs |-> s, apply |-> ~a] \notin timers'
    BY DEF OneTimer
  <2>1. s # t
    <3>1. CASE s = t /\ a = apply
      BY <1>1, <3>1
    <3>2. CASE s = t /\ a # apply
      <4>1. a = ~apply
        BY <3>2
      <4> QED
        BY <1>1, <1>2, <3>2, <4>1
    <3> QED
      BY <3>1, <3>2
  <2> QED
    BY <1>1, <2>1 DEF HttpInv, HttpTypeOK, OneTimer
<1>9. Known' /\ AtServer' /\ LostApart' /\ CacheTells' /\ OfCached'
  BY <1>1, RestKeeps
<1>10. CancelHolds'
  BY <1>1 DEF HttpInv, CancelHolds, HttpTypeOK
<1> QED
  BY <1>1, <1>3, <1>4, <1>5, <1>6, <1>7, <1>8, <1>9, <1>10 DEF HttpInv

\* A timeout that is cancelled takes its timer with it, if that is still pending.
LEMMA CancelKeeps ==
  ASSUME HttpConstants, HttpInv, NEW t \in Timeouts, CancelTimeout(t)
  PROVE  HttpInv'
<1>1. /\ timeout' = [timeout EXCEPT ![t] = IF @ = "set" THEN "canceled" ELSE @]
      /\ timers' = {m \in timers : m \notin [runs : {t}, apply : BOOLEAN]}
      /\ IF timers' = timers THEN UNCHANGED <<outstanding, waiting>> ELSE Complete(1)
      /\ UNCHANGED <<request, xhr, settled, heard, pendingRequests, cache, lost, deferreds, ran>>
  BY DEF CancelTimeout
<1>2. CountTells' /\ outstanding' \in Nat /\ waiting' \subseteq Waiters /\ IsFiniteSet(timers')
  <2>1. CASE timers' = timers
    BY <1>1, <2>1 DEF HttpInv, CountTells, HttpTypeOK
  <2>2. CASE timers' # timers
    <3>1. PICK m \in timers : m \in [runs : {t}, apply : BOOLEAN]
      BY <1>1, <2>2
    <3>2. PICK a \in BOOLEAN : m = [runs |-> t, apply |-> a]
      BY <3>1
    <3>3. ASSUME NEW n \in timers, n \in [runs : {t}, apply : BOOLEAN]
          PROVE  n = m
      <4>1. PICK b \in BOOLEAN : n = [runs |-> t, apply |-> b]
        BY <3>3
      <4>2. [runs |-> t, apply |-> ~a] \notin timers
        BY <3>2 DEF HttpInv, OneTimer
      <4>3. b = a
        BY <3>3, <4>1, <4>2
      <4> QED
        BY <3>2, <4>1, <4>3
    <3>4. timers' = timers \ {m}
      BY <1>1, <3>1, <3>3
    <3>5. /\ IsFiniteSet(timers') /\ Cardinality(timers') = Cardinality(timers) - 1
          /\ Cardinality(timers) \in Nat /\ Cardinality(timers) > 0 /\ Cardinality(xhr) \in Nat
          /\ Cardinality(lost) \in Nat
      BY <3>4, Counted DEF HttpInv, LostApart
    <3> QED
      BY <1>1, <2>2, <3>5 DEF Complete, HttpInv, CountTells, HttpTypeOK
  <2> QED
    BY <2>1, <2>2
<1>3. HttpTypeOK'
  <2>1. timeout' \in [Timeouts -> {"unset", "set", "ran", "threw", "canceled"}]
    BY <1>1 DEF HttpInv, HttpTypeOK
  <2> QED
    BY <1>1, <1>2, <2>1 DEF HttpInv, HttpTypeOK
<1>4. OneTimer'
  <2> SUFFICES ASSUME NEW s \in Timeouts, NEW a \in BOOLEAN, [runs |-> s, apply |-> a] \in timers'
               PROVE  timeout'[s] = "set" /\ [runs |-> s, apply |-> ~a] \notin timers'
    BY DEF OneTimer
  <2>1. [runs |-> s, apply |-> a] \notin [runs : {t}, apply : BOOLEAN]
    BY <1>1
  <2>2. s # t
    BY <2>1
  <2> QED
    BY <1>1, <2>2 DEF HttpInv, HttpTypeOK, OneTimer
<1>5. NotMade' /\ Telling'
  BY <1>1 DEF HttpInv, NotMade, Telling
<1>6. Known' /\ AtServer' /\ LostApart' /\ CacheTells' /\ OfCached'
  BY <1>1, RestKeeps
<1>7. CancelHolds'
  BY <1>1 DEF HttpInv, CancelHolds, HttpTypeOK
<1> QED
  BY <1>1, <1>2, <1>3, <1>4, <1>5, <1>6, <1>7 DEF HttpInv

\* Any other digest, and somebody who waits until nothing is outstanding.
LEMMA OthersKeep ==
  ASSUME HttpConstants, HttpInv, PageDigest \/ (\E w \in Waiters : NotifyWhenDone(w)) \/ UNCHANGED httpVars
  PROVE  HttpInv'
<1>1. CASE PageDigest
  <2>1. /\ Digest(settled, timeout)
        /\ UNCHANGED <<request, xhr, settled, cache, timers, outstanding, waiting, lost, timeout, ran>>
        /\ settled \in [Requests -> Answers \cup {Absent}]
    BY <1>1 DEF PageDigest, HttpInv, HttpTypeOK
  <2>2. /\ heard' \in [Requests -> Seq(Answers)]
        /\ pendingRequests' \subseteq Requests /\ deferreds' \subseteq Timeouts
        /\ Telling'
        /\ \A q \in Requests : request[q] = Absent => heard'[q] = << >> /\ q \notin pendingRequests'
    BY <2>1, DigestTells
  <2>3. HttpTypeOK'
    BY <2>1, <2>2 DEF HttpInv, HttpTypeOK
  <2>4. NotMade' /\ OneTimer' /\ CountTells' /\ CancelHolds'
    BY <2>1, <2>2 DEF HttpInv, NotMade, OneTimer, CountTells, CancelHolds
  <2>5. Known' /\ AtServer' /\ LostApart' /\ CacheTells' /\ OfCached'
    BY <2>1, RestKeeps
  <2> QED
    BY <2>1, <2>2, <2>3, <2>4, <2>5 DEF HttpInv
<1>2. ASSUME NEW w \in Waiters, NotifyWhenDone(w)
      PROVE  HttpInv'
  <2>1. /\ outstanding > 0 /\ waiting' = waiting \cup {w}
        /\ UNCHANGED <<request, xhr, settled, heard, pendingRequests, cache, timers,
                       outstanding, lost, timeout, deferreds, ran>>
    BY <1>2 DEF NotifyWhenDone
  <2>2. HttpTypeOK' /\ CountTells'
    BY <2>1 DEF HttpInv, HttpTypeOK, CountTells
  <2>3. NotMade' /\ Telling' /\ OneTimer' /\ CancelHolds'
    BY <2>1 DEF HttpInv, NotMade, Telling, OneTimer, CancelHolds
  <2>4. Known' /\ AtServer' /\ LostApart' /\ CacheTells' /\ OfCached'
    BY <2>1, RestKeeps
  <2> QED
    BY <2>1, <2>2, <2>3, <2>4 DEF HttpInv
<1>3. CASE UNCHANGED httpVars
  <2>1. HttpTypeOK' /\ CountTells'
    BY <1>3 DEF httpVars, HttpInv, HttpTypeOK, CountTells
  <2>2. NotMade' /\ Telling' /\ OneTimer' /\ CancelHolds'
    BY <1>3 DEF httpVars, HttpInv, NotMade, Telling, OneTimer, CancelHolds
  <2>3. Known' /\ AtServer' /\ LostApart' /\ CacheTells' /\ OfCached'
    BY <1>3, RestKeeps DEF httpVars
  <2> QED
    BY <1>3, <2>1, <2>2, <2>3 DEF httpVars, HttpInv
<1> QED
  BY <1>1, <1>2, <1>3

\* Every call of $http is told at most once, and only what its request came to; the
\* count of $browser is the requests at the server, the timers and the requests that
\* threw or whose digest gave up; the cache has no failure, and no promise but those of
\* requests at the server and of requests whose sending threw; and a timeout cancelled
\* in time does not run.
THEOREM HttpRequestsKept ==
  ASSUME HttpConstants
  PROVE  HttpInit /\ [][HttpNext]_httpVars => []RequestsKept
<1>1. HttpInit => HttpInv
  BY HttpStarts
<1>2. HttpInv /\ [HttpNext]_httpVars => HttpInv'
  <2> SUFFICES ASSUME HttpInv, [HttpNext]_httpVars PROVE HttpInv'
    OBVIOUS
  <2>1. ASSUME NEW r \in Requests, NEW u \in Addresses, NEW cached \in BOOLEAN, NEW timed \in BOOLEAN,
               NEW throws \in BOOLEAN, Call(r, u, cached, timed, throws)
        PROVE  HttpInv'
    BY <2>1, CallKeeps
  <2>2. ASSUME NEW r \in Requests, NEW givesUp \in BOOLEAN, TimesOut(r, givesUp) PROVE HttpInv'
    BY <2>2, TimesOutKeeps
  <2>3. ASSUME NEW r \in Requests, NEW a \in Answers, NEW givesUp \in BOOLEAN, Answered(r, a, givesUp)
        PROVE  HttpInv'
    BY <2>3, AnsweredKeeps
  <2>4. ASSUME NEW t \in Timeouts, NEW apply \in BOOLEAN, SetTimeout(t, apply) PROVE HttpInv'
    BY <2>4, SetTimeoutKeeps
  <2>5. ASSUME NEW t \in Timeouts, NEW apply \in BOOLEAN, NEW how \in {"ran", "threw"},
               Runs(t, apply, how)
        PROVE  HttpInv'
    BY <2>5, RunsKeeps
  <2>6. ASSUME NEW t \in Timeouts, CancelTimeout(t) PROVE HttpInv'
    BY <2>6, CancelKeeps
  <2>7. ASSUME PageDigest \/ (\E w \in Waiters : NotifyWhenDone(w)) \/ UNCHANGED httpVars PROVE HttpInv'
    BY <2>7, OthersKeep
  <2> QED
    BY <2>1, <2>2, <2>3, <2>4, <2>5, <2>6, <2>7 DEF HttpNext
<1>3. HttpInv => RequestsKept
  BY HttpInvIsEnough
<1> QED
  BY <1>1, <1>2, <1>3, PTL

-----------------------------------------------------------------------------
(* Promises: however many are made, resolved with one another and waited for, a   *)
(* callback is in one place (kept by a deferred, in a tick, or told) and told once *)

PromiseConstants == MaxDeferreds \in Nat /\ Nothing \notin Refs

(***************************************************************************)
(* Where promises lead to, for any deferreds f                             *)
(***************************************************************************)
Deferred == [made : {"no", "page", "then", "all"}, value : Refs \cup {Nothing}]

OnIn(f, r)       == r.kind = "promise" /\ f[r.of].value # Nothing
ClosedIn(f, S)   == \A r \in S : OnIn(f, r) => f[r.of].value \in S
EndIn(f, r, t)   == ~OnIn(f, t) /\ \A S \in SUBSET Refs : r \in S /\ ClosedIn(f, S) => t \in S
TargetIn(f, r)   == CHOOSE t \in Refs : EndIn(f, r, t)
EndsIn(f)        == \A r \in Refs : \E t \in Refs : EndIn(f, r, t)
ValuesIn(f)      == \A d \in Deferreds : f[d].value \in Refs \cup {Nothing}

LEMMA RefFacts ==
  /\ \A d \in Deferreds : Promise(d) \in Refs /\ Promise(d).kind = "promise" /\ Promise(d).of = d
  /\ \A r \in Refs : r.kind = "promise" => r.of \in Deferreds /\ r = Promise(r.of)
  /\ \A r \in Refs : r.kind # "promise" => r \in Final
  /\ \A r \in Final : r \in Refs /\ r.kind \in {"plain", "rejected"}
<1>1. \A d \in Deferreds : Promise(d) \in Refs /\ Promise(d).kind = "promise" /\ Promise(d).of = d
  BY DEF Refs, Promise
<1>2. \A r \in Final : r \in Refs /\ r.kind \in {"plain", "rejected"}
  BY DEF Refs, Final, Ref, Rejected
<1>3. ASSUME NEW r \in Refs
      PROVE  r \in Final \/ \E d \in Deferreds : r = Promise(d)
  BY DEF Refs
<1> QED
  BY <1>1, <1>2, <1>3

LEMMA TargetIs ==
  ASSUME NEW f, EndsIn(f), NEW r \in Refs
  PROVE  TargetIn(f, r) \in Refs /\ EndIn(f, r, TargetIn(f, r))
BY DEF EndsIn, TargetIn

\* What leads on has one end: the set of all that lead to an end t is closed.
LEMMA OneEnd ==
  ASSUME NEW f, ValuesIn(f), NEW r \in Refs, NEW t \in Refs, NEW u \in Refs,
         EndIn(f, r, t), EndIn(f, r, u)
  PROVE  t = u
<1> DEFINE S == {x \in Refs : \A T \in SUBSET Refs : x \in T /\ ClosedIn(f, T) => t \in T}
<1>1. r \in S /\ S \in SUBSET Refs
  BY DEF EndIn
<1>2. ASSUME NEW x \in S, OnIn(f, x)
      PROVE  f[x.of].value \in S
  <2> DEFINE y == f[x.of].value
  <2>1. y \in Refs
    BY <1>2, RefFacts DEF OnIn, ValuesIn
  <2>2. ASSUME NEW T \in SUBSET Refs, y \in T, ClosedIn(f, T)
        PROVE  t \in T
    <3>1. T \cup {x} \in SUBSET Refs /\ ClosedIn(f, T \cup {x})
      BY <2>2 DEF ClosedIn
    <3>2. t \in T \cup {x}
      BY <3>1
    <3> QED
      BY <3>2, <1>2 DEF EndIn
  <2> QED
    BY <2>1, <2>2
<1>3. ClosedIn(f, S)
  BY <1>2 DEF ClosedIn
<1>4. u \in S
  BY <1>1, <1>3 DEF EndIn
<1>5. {u} \in SUBSET Refs /\ ClosedIn(f, {u})
  BY DEF EndIn, ClosedIn
<1> QED
  BY <1>4, <1>5

\* An end is the target.
LEMMA EndIsTarget ==
  ASSUME NEW f, ValuesIn(f), EndsIn(f), NEW r \in Refs, NEW t \in Refs, EndIn(f, r, t)
  PROVE  TargetIn(f, r) = t
BY TargetIs, OneEnd

\* What does not lead on is its own end.
LEMMA OwnEnd ==
  ASSUME NEW f, NEW r \in Refs, ~OnIn(f, r)
  PROVE  EndIn(f, r, r)
BY DEF EndIn

\* A target is a promise that waits, or final.
LEMMA TargetKind ==
  ASSUME NEW f, EndsIn(f), NEW r \in Refs
  PROVE  \/ TargetIn(f, r) \in Final
         \/ \E d \in Deferreds : TargetIn(f, r) = Promise(d) /\ f[d].value = Nothing
<1>1. TargetIn(f, r) \in Refs /\ ~OnIn(f, TargetIn(f, r))
  BY TargetIs DEF EndIn
<1> QED
  BY <1>1, RefFacts DEF OnIn

\* Only the values matter.
LEMMA SameValues ==
  ASSUME NEW f, NEW g, \A d \in Deferreds : g[d].value = f[d].value
  PROVE  /\ ValuesIn(f) => ValuesIn(g)
         /\ EndsIn(f) => EndsIn(g)
         /\ \A r \in Refs : TargetIn(g, r) = TargetIn(f, r)
<1>1. \A r \in Refs : OnIn(g, r) <=> OnIn(f, r)
  BY RefFacts DEF OnIn
<1>2. ASSUME NEW S \in SUBSET Refs
      PROVE  ClosedIn(g, S) <=> ClosedIn(f, S)
  BY <1>1, RefFacts DEF ClosedIn, OnIn
<1>3. ASSUME NEW r \in Refs, NEW t \in Refs
      PROVE  EndIn(g, r, t) <=> EndIn(f, r, t)
  BY <1>1, <1>2 DEF EndIn
<1> QED
  BY <1>3 DEF ValuesIn, EndsIn, TargetIn

\* When d, which waits, comes to r, then what waited for d has the end of r, and
\* nothing else changes.
Resolved(f, d, r) == [f EXCEPT ![d].value = r]
Redirected(f, d, r, x) == IF TargetIn(f, x) = Promise(d) THEN TargetIn(f, r) ELSE TargetIn(f, x)

LEMMA ResolvedEnds ==
  ASSUME NEW f, f \in [Deferreds -> Deferred],
         Nothing \notin Refs, EndsIn(f),
         NEW d \in Deferreds, f[d].value = Nothing, NEW r \in Refs, TargetIn(f, r) # Promise(d)
  PROVE  /\ ValuesIn(Resolved(f, d, r)) /\ EndsIn(Resolved(f, d, r))
         /\ \A x \in Refs : TargetIn(Resolved(f, d, r), x) = Redirected(f, d, r, x)
<1> DEFINE g == Resolved(f, d, r)
<1>1. /\ g[d].value = r
      /\ \A e \in Deferreds : e # d => g[e].value = f[e].value
  BY DEF Resolved, Deferred
<1>0. ValuesIn(f) /\ ValuesIn(g)
  BY <1>1 DEF ValuesIn, Deferred
<1> HIDE DEF g
<1>2. OnIn(g, Promise(d))
  BY <1>1, RefFacts DEF OnIn
<1>3. \A x \in Refs : x # Promise(d) => (OnIn(g, x) <=> OnIn(f, x))
  BY <1>1, RefFacts DEF OnIn
<1>4. ASSUME NEW x \in Refs
      PROVE  Redirected(f, d, r, x) \in Refs /\ EndIn(g, x, Redirected(f, d, r, x))
  <2> DEFINE t == TargetIn(f, x)  u == TargetIn(f, r)
  <2>1. t \in Refs /\ EndIn(f, x, t) /\ u \in Refs /\ EndIn(f, r, u)
    BY TargetIs
  <2> HIDE DEF t, u
  <2>2. ASSUME NEW S \in SUBSET Refs, x \in S, ClosedIn(g, S)
        PROVE  t \in S
    <3>1. ClosedIn(f, S)
      <4>1. ASSUME NEW y \in S, OnIn(f, y) PROVE f[y.of].value \in S
        <5>1. y # Promise(d)
          BY <4>1, RefFacts DEF OnIn
        <5>2. y \in Refs /\ OnIn(g, y) /\ y.of \in Deferreds /\ y.of # d
          BY <4>1, <5>1, <1>3, RefFacts DEF OnIn
        <5> QED
          BY <5>2, <1>1, <2>2 DEF ClosedIn
      <4> QED BY <4>1 DEF ClosedIn
    <3> QED
      BY <3>1, <2>1, <2>2 DEF EndIn
  <2>3. ASSUME NEW S \in SUBSET Refs, r \in S, ClosedIn(g, S)
        PROVE  u \in S
    <3>1. ClosedIn(f, S)
      <4>1. ASSUME NEW y \in S, OnIn(f, y) PROVE f[y.of].value \in S
        <5>1. y # Promise(d)
          BY <4>1, RefFacts DEF OnIn
        <5>2. y \in Refs /\ OnIn(g, y) /\ y.of \in Deferreds /\ y.of # d
          BY <4>1, <5>1, <1>3, RefFacts DEF OnIn
        <5> QED
          BY <5>2, <1>1, <2>3 DEF ClosedIn
      <4> QED BY <4>1 DEF ClosedIn
    <3> QED
      BY <3>1, <2>1, <2>3 DEF EndIn
  <2>4. CASE t = Promise(d)
    <3>1. u # Promise(d)
      BY DEF u
    <3>2. ~OnIn(g, u)
      BY <3>1, <2>1, <1>3 DEF EndIn
    <3>3. ASSUME NEW S \in SUBSET Refs, x \in S, ClosedIn(g, S)
          PROVE  u \in S
      <4>1. Promise(d) \in S
        BY <2>2, <2>4, <3>3
      <4>2. r \in S
        BY <4>1, <1>1, <1>2, <3>3, RefFacts DEF ClosedIn
      <4> QED BY <4>2, <2>3, <3>3
    <3>4. Redirected(f, d, r, x) = u
      BY <2>4 DEF Redirected, t, u
    <3> QED
      BY <3>2, <3>3, <3>4, <2>1 DEF EndIn
  <2>5. CASE t # Promise(d)
    <3>1. Redirected(f, d, r, x) = t
      BY <2>5 DEF Redirected, t
    <3>2. ~OnIn(g, t)
      BY <2>5, <2>1, <1>3 DEF EndIn
    <3> QED
      BY <3>1, <3>2, <2>1, <2>2 DEF EndIn
  <2> QED
    BY <2>4, <2>5
<1>5. EndsIn(g)
  BY <1>4 DEF EndsIn
<1>6. \A x \in Refs : TargetIn(g, x) = Redirected(f, d, r, x)
  BY <1>0, <1>4, <1>5, EndIsTarget
<1> QED
  BY <1>0, <1>5, <1>6 DEF g
(***************************************************************************)
(* Where callbacks are                                                     *)
(***************************************************************************)
Tick           == [what : {"drain", "call"}, cs : Seq(Callbacks), value : Refs]
Holds(s, m)    == \E k \in DOMAIN s : s[k] = m
Distinct(s)    == \A i, j \in DOMAIN s : s[i] = s[j] => i = j
InTicks(q, m)  == \E j \in DOMAIN q : Holds(q[j].cs, m)
OnceInTicks(q) ==
  /\ \A j \in DOMAIN q : Distinct(q[j].cs)
  /\ \A i, j \in DOMAIN q : \A m \in Callbacks : Holds(q[i].cs, m) /\ Holds(q[j].cs, m) => i = j

LEMMA AppendTick ==
  ASSUME NEW q \in Seq(Tick), NEW t \in Tick, OnceInTicks(q), Distinct(t.cs),
         \A m \in Callbacks : Holds(t.cs, m) => ~InTicks(q, m)
  PROVE  /\ Append(q, t) \in Seq(Tick) /\ OnceInTicks(Append(q, t))
         /\ \A m \in Callbacks : InTicks(Append(q, t), m) <=> InTicks(q, m) \/ Holds(t.cs, m)
         /\ \A j \in DOMAIN Append(q, t) :
              Append(q, t)[j] = t \/ \E i \in DOMAIN q : Append(q, t)[j] = q[i]
<1> DEFINE z == Append(q, t)  n == Len(q)
<1>1. n \in Nat
  OBVIOUS
<1>2. /\ z \in Seq(Tick) /\ DOMAIN q = 1..n /\ DOMAIN z = 1..(n + 1)
      /\ z[n + 1] = t /\ \A i \in 1..n : z[i] = q[i]
  OBVIOUS
<1> HIDE DEF z, n
<1>3. \A j \in 1..(n + 1) : j \in 1..n \/ j = n + 1
  BY <1>1
<1>4. 1..n \subseteq 1..(n + 1) /\ n + 1 \in 1..(n + 1) /\ n + 1 \notin 1..n
  BY <1>1
<1>5. \A m \in Callbacks : InTicks(z, m) <=> InTicks(q, m) \/ Holds(t.cs, m)
  BY <1>2, <1>3, <1>4 DEF InTicks
<1>6. OnceInTicks(z)
  <2>1. \A j \in DOMAIN z : Distinct(z[j].cs)
    BY <1>2, <1>3 DEF OnceInTicks
  <2>2. ASSUME NEW i \in DOMAIN z, NEW j \in DOMAIN z, NEW m \in Callbacks,
               Holds(z[i].cs, m), Holds(z[j].cs, m)
        PROVE  i = j
    <3>1. CASE i \in 1..n /\ j \in 1..n
      BY <3>1, <2>2, <1>2 DEF OnceInTicks
    <3>2. CASE i = n + 1 /\ j \in 1..n
      BY <3>2, <2>2, <1>2 DEF InTicks
    <3>3. CASE j = n + 1 /\ i \in 1..n
      BY <3>3, <2>2, <1>2 DEF InTicks
    <3> QED
      BY <3>1, <3>2, <3>3, <1>2, <1>3
  <2> QED
    BY <2>1, <2>2 DEF OnceInTicks
<1>7. \A j \in DOMAIN z : z[j] = t \/ \E i \in DOMAIN q : z[j] = q[i]
  BY <1>2, <1>3
<1> QED
  BY <1>2, <1>5, <1>6, <1>7 DEF z

LEMMA TailTick ==
  ASSUME NEW q \in Seq(Tick), q # << >>, OnceInTicks(q)
  PROVE  /\ Head(q) \in Tick /\ Head(q) = q[1] /\ 1 \in DOMAIN q /\ Distinct(Head(q).cs)
         /\ Tail(q) \in Seq(Tick) /\ OnceInTicks(Tail(q))
         /\ \A m \in Callbacks : InTicks(Tail(q), m) => InTicks(q, m) /\ ~Holds(Head(q).cs, m)
         /\ \A m \in Callbacks : InTicks(q, m) => InTicks(Tail(q), m) \/ Holds(Head(q).cs, m)
         /\ \A j \in DOMAIN Tail(q) : \E i \in DOMAIN q : Tail(q)[j] = q[i]
<1> DEFINE z == Tail(q)  n == Len(q)
<1>1. n \in Nat /\ n > 0
  OBVIOUS
<1>2. /\ z \in Seq(Tick) /\ DOMAIN q = 1..n /\ DOMAIN z = 1..(n - 1)
      /\ \A i \in 1..(n - 1) : z[i] = q[i + 1]
      /\ Head(q) = q[1] /\ Head(q) \in Tick
  OBVIOUS
<1> HIDE DEF z, n
<1>3. \A j \in 1..(n - 1) : j + 1 \in 1..n /\ j + 1 # 1
  BY <1>1
<1>4. ASSUME NEW j \in 1..n, j # 1
      PROVE  \E i \in 1..(n - 1) : z[i] = q[j]
  <2>1. j - 1 \in 1..(n - 1) /\ (j - 1) + 1 = j
    BY <1>1, <1>4
  <2> QED
    BY <2>1, <1>2
<1>5. 1 \in 1..n
  BY <1>1
<1>6. ASSUME NEW m \in Callbacks, InTicks(z, m)
      PROVE  InTicks(q, m) /\ ~Holds(q[1].cs, m)
  <2>1. PICK j \in 1..(n - 1) : Holds(q[j + 1].cs, m)
    BY <1>6, <1>2 DEF InTicks
  <2>2. j + 1 \in 1..n /\ j + 1 # 1
    BY <1>3
  <2> QED
    BY <2>1, <2>2, <1>2, <1>5 DEF InTicks, OnceInTicks
<1>7. \A m \in Callbacks : InTicks(q, m) => InTicks(z, m) \/ Holds(q[1].cs, m)
  BY <1>2, <1>4 DEF InTicks
<1>8. OnceInTicks(z)
  <2>1. \A j \in DOMAIN z : Distinct(z[j].cs)
    BY <1>2, <1>3 DEF OnceInTicks
  <2>2. ASSUME NEW i \in 1..(n - 1), NEW j \in 1..(n - 1), NEW m \in Callbacks,
               Holds(z[i].cs, m), Holds(z[j].cs, m)
        PROVE  i = j
    <3>1. i + 1 = j + 1
      BY <2>2, <1>2, <1>3 DEF OnceInTicks
    <3> QED
      BY <3>1
  <2> QED
    BY <2>1, <2>2, <1>2 DEF OnceInTicks
<1>9. \A j \in DOMAIN z : \E i \in DOMAIN q : z[j] = q[i]
  BY <1>2, <1>3
<1>10. Distinct(q[1].cs)
  BY <1>2, <1>5 DEF OnceInTicks
<1> QED
  BY <1>2, <1>5, <1>6, <1>7, <1>8, <1>9, <1>10 DEF z

Calls(cs, t) == [i \in DOMAIN cs |-> CallTick(cs[i], t)]

LEMMA CallFacts ==
  ASSUME NEW m \in Callbacks, NEW t \in Refs
  PROVE  /\ CallTick(m, t) \in Tick /\ Holds(CallTick(m, t).cs, m) /\ Distinct(CallTick(m, t).cs)
         /\ \A x \in Callbacks : Holds(CallTick(m, t).cs, x) => x = m
BY DEF CallTick, Tick, Holds, Distinct

LEMMA CallTicks ==
  ASSUME NEW q \in Seq(Tick), NEW cs \in Seq(Callbacks), NEW t \in Refs, OnceInTicks(q), Distinct(cs),
         \A m \in Callbacks : Holds(cs, m) => ~InTicks(q, m)
  PROVE  /\ (q \o Calls(cs, t)) \in Seq(Tick) /\ OnceInTicks(q \o Calls(cs, t))
         /\ \A m \in Callbacks : InTicks(q \o Calls(cs, t), m) <=> InTicks(q, m) \/ Holds(cs, m)
         /\ \A j \in DOMAIN (q \o Calls(cs, t)) :
              \/ \E k \in DOMAIN cs : (q \o Calls(cs, t))[j] = CallTick(cs[k], t)
              \/ \E i \in DOMAIN q : (q \o Calls(cs, t))[j] = q[i]
<1> DEFINE u == Calls(cs, t)  z == q \o u  n == Len(q)  l == Len(cs)
<1>1. n \in Nat /\ l \in Nat /\ DOMAIN q = 1..n /\ DOMAIN cs = 1..l /\ \A k \in 1..l : cs[k] \in Callbacks
  OBVIOUS
<1>2. \A m \in Callbacks : /\ CallTick(m, t) \in Tick
                          /\ \A x \in Callbacks : Holds(CallTick(m, t).cs, x) => x = m
  BY CallFacts
<1>3. u \in Seq(Tick) /\ Len(u) = l /\ \A k \in 1..l : u[k] = CallTick(cs[k], t)
  BY <1>1, <1>2 DEF Calls
<1> HIDE DEF u
<1>4. /\ z \in Seq(Tick) /\ DOMAIN z = 1..(n + l)
      /\ \A i \in 1..n : z[i] = q[i]
      /\ \A i \in (n + 1)..(n + l) : z[i] = u[i - n]
  BY <1>1, <1>3
<1> HIDE DEF z, n, l
<1>5. ASSUME NEW j \in 1..(n + l)
      PROVE  j \in 1..n \/ (j \in (n + 1)..(n + l) /\ j - n \in 1..l)
  BY <1>1
<1>6. \A j \in (n + 1)..(n + l) : j - n \in 1..l /\ z[j] = CallTick(cs[j - n], t)
  BY <1>1, <1>3, <1>4
<1>7. ASSUME NEW k \in 1..l
      PROVE  k + n \in 1..(n + l) /\ z[k + n] = CallTick(cs[k], t)
  <2>1. k + n \in (n + 1)..(n + l) /\ (k + n) - n = k /\ k + n \in 1..(n + l)
    BY <1>1
  <2> QED
    BY <2>1, <1>6
<1>8. ASSUME NEW j \in DOMAIN z
      PROVE  (\E k \in DOMAIN cs : z[j] = CallTick(cs[k], t)) \/ \E i \in DOMAIN q : z[j] = q[i]
  BY <1>1, <1>4, <1>5, <1>6
<1>9. ASSUME NEW m \in Callbacks
      PROVE  InTicks(z, m) <=> InTicks(q, m) \/ Holds(cs, m)
  <2>1. ASSUME InTicks(z, m) PROVE InTicks(q, m) \/ Holds(cs, m)
    <3>1. PICK j \in DOMAIN z : Holds(z[j].cs, m)
      BY <2>1 DEF InTicks
    <3>2. CASE \E i \in DOMAIN q : z[j] = q[i]
      BY <3>1, <3>2 DEF InTicks
    <3>3. CASE \E k \in DOMAIN cs : z[j] = CallTick(cs[k], t)
      BY <3>1, <3>3, <1>1, <1>2 DEF Holds
    <3> QED
      BY <3>2, <3>3, <1>8
  <2>2. ASSUME InTicks(q, m) PROVE InTicks(z, m)
    <3>1. 1..n \subseteq 1..(n + l)
      BY <1>1
    <3> QED
      BY <2>2, <3>1, <1>1, <1>4 DEF InTicks
  <2>3. ASSUME Holds(cs, m) PROVE InTicks(z, m)
    <3>1. PICK k \in 1..l : cs[k] = m
      BY <2>3, <1>1 DEF Holds
    <3>2. Holds(CallTick(m, t).cs, m)
      BY CallFacts
    <3> QED
      BY <3>1, <3>2, <1>4, <1>7 DEF InTicks
  <2> QED
    BY <2>1, <2>2, <2>3
<1>10. OnceInTicks(z)
  <2>1. ASSUME NEW j \in DOMAIN z
        PROVE  Distinct(z[j].cs)
    <3>1. CASE \E i \in DOMAIN q : z[j] = q[i]
      BY <3>1 DEF OnceInTicks
    <3>2. CASE \E k \in DOMAIN cs : z[j] = CallTick(cs[k], t)
      <4>1. PICK k \in 1..l : z[j] = CallTick(cs[k], t)
        BY <3>2, <1>1
      <4>2. cs[k] \in Callbacks
        BY <1>1
      <4> QED
        BY <4>1, <4>2, CallFacts
    <3> QED
      BY <3>1, <3>2, <1>8
  <2>2. ASSUME NEW i \in 1..(n + l), NEW j \in 1..(n + l), NEW m \in Callbacks,
               Holds(z[i].cs, m), Holds(z[j].cs, m)
        PROVE  i = j
    <3>1. CASE i \in 1..n /\ j \in 1..n
      BY <3>1, <2>2, <1>1, <1>4 DEF OnceInTicks
    <3>2. ASSUME NEW x \in (n + 1)..(n + l), Holds(z[x].cs, m)
          PROVE  x - n \in 1..l /\ cs[x - n] = m /\ Holds(cs, m)
      BY <3>2, <1>6, <1>2, <1>1 DEF Holds
    <3>3. CASE i \in (n + 1)..(n + l) /\ j \in (n + 1)..(n + l)
      <4>1. i - n = j - n
        BY <3>3, <2>2, <3>2, <1>1 DEF Distinct
      <4> QED
        BY <4>1, <1>1
    <3>4. CASE i \in (n + 1)..(n + l) /\ j \in 1..n
      BY <3>4, <2>2, <3>2, <1>1, <1>4 DEF InTicks
    <3>5. CASE j \in (n + 1)..(n + l) /\ i \in 1..n
      BY <3>5, <2>2, <3>2, <1>1, <1>4 DEF InTicks
    <3> QED
      BY <3>1, <3>3, <3>4, <3>5, <1>5
  <2> QED
    BY <2>1, <2>2, <1>4 DEF OnceInTicks
<1> QED
  BY <1>4, <1>8, <1>9, <1>10 DEF z, u
(***************************************************************************)
(* Each callback is in one place, for any deferreds f, callbacks kept p,   *)
(* ticks q, promises o on which callbacks wait and calls w.  Those in H    *)
(* are in hand.                                                            *)
(***************************************************************************)
WaitsIn(o, m)  == m[2] \in DOMAIN o[m[1]]
EndOf(f, o, m) == TargetIn(f, Promise(o[m[1]][m[2]]))
Kept(p, m)     == \E d \in Deferreds : Holds(p[d], m)

Typed(f, p, q, o, w) ==
  /\ f \in [Deferreds -> Deferred] /\ EndsIn(f)
  /\ p \in [Deferreds -> Seq(Callbacks)]
  /\ q \in Seq(Tick)
  /\ o \in [Deferreds -> Seq(Deferreds)]
  /\ w \in [Callbacks -> Seq(Final)]

\* A deferred keeps the callbacks that lead to it, while it waits.
KeptTrue(f, p, o) ==
  \A d \in Deferreds :
    /\ Distinct(p[d])
    /\ \A m \in Callbacks : Holds(p[d], m) =>
         WaitsIn(o, m) /\ f[d].value = Nothing /\ EndOf(f, o, m) = Promise(d)

\* A tick has the callbacks that its value leads to.
TickTrue(f, o, t) ==
  /\ t.what = "call" => Len(t.cs) = 1 /\ t.value \in Final
  /\ \A m \in Callbacks : Holds(t.cs, m) => WaitsIn(o, m) /\ EndOf(f, o, m) = TargetIn(f, t.value)

TicksTrue(f, q, o) == OnceInTicks(q) /\ \A j \in DOMAIN q : TickTrue(f, o, q[j])

ToldTrue(f, o, w) ==
  \A m \in Callbacks : w[m] # << >> =>
    WaitsIn(o, m) /\ EndOf(f, o, m) \in Final /\ w[m] = <<EndOf(f, o, m)>>

Apart(p, q, w) == \A m \in Callbacks : InTicks(q, m) => ~Kept(p, m) /\ w[m] = << >>

Somewhere(p, q, o, w, H) ==
  \A m \in Callbacks : WaitsIn(o, m) => m \in H \/ InTicks(q, m) \/ Kept(p, m) \/ w[m] # << >>

Placed(f, p, q, o, w, H) ==
  /\ KeptTrue(f, p, o) /\ TicksTrue(f, q, o) /\ ToldTrue(f, o, w)
  /\ Apart(p, q, w) /\ Somewhere(p, q, o, w, H)

InHand(f, p, q, o, w, m, r) ==
  /\ WaitsIn(o, m) /\ EndOf(f, o, m) = TargetIn(f, r)
  /\ ~InTicks(q, m) /\ ~Kept(p, m) /\ w[m] = << >>

-----------------------------------------------------------------------------
LEMMA ValuesTyped ==
  ASSUME NEW f \in [Deferreds -> Deferred]
  PROVE  ValuesIn(f)
BY DEF ValuesIn, Deferred

LEMMA WaitTyped ==
  ASSUME NEW o \in [Deferreds -> Seq(Deferreds)], NEW m \in Callbacks, WaitsIn(o, m)
  PROVE  /\ m[1] \in Deferreds /\ m[2] \in {1, 2} /\ o[m[1]][m[2]] \in Deferreds
         /\ Promise(o[m[1]][m[2]]) \in Refs
<1>1. m[1] \in Deferreds /\ m[2] \in {1, 2} /\ o[m[1]] \in Seq(Deferreds)
  BY DEF Callbacks
<1>2. o[m[1]][m[2]] \in Deferreds
  BY <1>1 DEF WaitsIn
<1> QED
  BY <1>1, <1>2, RefFacts

\* What is final is its own target.
LEMMA FinalTarget ==
  ASSUME NEW f \in [Deferreds -> Deferred], EndsIn(f), NEW r \in Final
  PROVE  TargetIn(f, r) = r
<1>1. r \in Refs /\ ~OnIn(f, r)
  BY RefFacts DEF OnIn
<1> QED
  BY <1>1, OwnEnd, EndIsTarget, ValuesTyped

\* A promise that waits is its own target.
LEMMA WaitingTarget ==
  ASSUME NEW f \in [Deferreds -> Deferred], EndsIn(f), NEW d \in Deferreds, f[d].value = Nothing
  PROVE  TargetIn(f, Promise(d)) = Promise(d)
<1>1. Promise(d) \in Refs /\ ~OnIn(f, Promise(d))
  BY RefFacts DEF OnIn
<1> QED
  BY <1>1, OwnEnd, EndIsTarget, ValuesTyped

AttachedKept(p, t, cs)  == IF t.kind = "promise" THEN [p EXCEPT ![t.of] = @ \o cs] ELSE p
AttachedTicks(q, t, cs) == IF t.kind = "promise" THEN q ELSE q \o Calls(cs, t)

LEMMA SequencesJoined ==
  ASSUME NEW s \in Seq(Callbacks), NEW cs \in Seq(Callbacks), Distinct(s), Distinct(cs),
         \A m \in Callbacks : Holds(s, m) => ~Holds(cs, m)
  PROVE  /\ (s \o cs) \in Seq(Callbacks) /\ Distinct(s \o cs)
         /\ \A m \in Callbacks : Holds(s \o cs, m) <=> Holds(s, m) \/ Holds(cs, m)
<1> DEFINE z == s \o cs  n == Len(s)  l == Len(cs)
<1>1. n \in Nat /\ l \in Nat /\ DOMAIN s = 1..n /\ DOMAIN cs = 1..l
  OBVIOUS
<1>2. /\ z \in Seq(Callbacks) /\ DOMAIN z = 1..(n + l)
      /\ \A i \in 1..n : z[i] = s[i] /\ s[i] \in Callbacks
      /\ \A i \in (n + 1)..(n + l) : z[i] = cs[i - n]
      /\ \A i \in 1..l : cs[i] \in Callbacks
  OBVIOUS
<1> HIDE DEF z, n, l
<1>3. \A j \in 1..(n + l) : j \in 1..n \/ (j \in (n + 1)..(n + l) /\ j - n \in 1..l)
  BY <1>1
<1>4. ASSUME NEW k \in 1..l
      PROVE  k + n \in 1..(n + l) /\ z[k + n] = cs[k]
  <2>1. k + n \in (n + 1)..(n + l) /\ (k + n) - n = k /\ k + n \in 1..(n + l)
    BY <1>1
  <2> QED
    BY <2>1, <1>2
<1>5. 1..n \subseteq 1..(n + l)
  BY <1>1
<1>6. \A m \in Callbacks : Holds(z, m) => Holds(s, m) \/ Holds(cs, m)
  BY <1>1, <1>2, <1>3 DEF Holds
<1>7. \A m \in Callbacks : Holds(s, m) \/ Holds(cs, m) => Holds(z, m)
  BY <1>1, <1>2, <1>4, <1>5 DEF Holds
<1>8. ASSUME NEW i \in 1..(n + l), NEW j \in 1..(n + l), z[i] = z[j]
      PROVE  i = j
  <2>1. CASE i \in 1..n /\ j \in 1..n
    BY <2>1, <1>8, <1>1, <1>2 DEF Distinct
  <2>2. CASE i \in (n + 1)..(n + l) /\ j \in (n + 1)..(n + l)
    <3>1. i - n \in DOMAIN cs /\ j - n \in DOMAIN cs
      BY <2>2, <1>1
    <3>2. cs[i - n] = cs[j - n]
      BY <2>2, <1>8, <1>2
    <3>3. i - n = j - n
      BY <3>1, <3>2 DEF Distinct
    <3> QED
      BY <3>3, <1>1
  <2>3. ASSUME NEW x \in 1..n, NEW y \in (n + 1)..(n + l), z[x] = z[y], y - n \in 1..l
        PROVE  FALSE
    <3>1. s[x] \in Callbacks /\ s[x] = cs[y - n]
      BY <2>3, <1>2
    <3>2. Holds(s, s[x]) /\ Holds(cs, s[x])
      BY <3>1, <2>3, <1>1 DEF Holds
    <3> QED
      BY <3>1, <3>2
  <2> QED
    BY <2>1, <2>2, <2>3, <1>3, <1>8
<1> QED
  BY <1>2, <1>6, <1>7, <1>8 DEF z, Distinct

\* `then' for callbacks in hand, which end up where their promise does.
LEMMA AttachKeeps ==
  ASSUME NEW f, NEW p, NEW q, NEW o, NEW w, NEW G, NEW H, Typed(f, p, q, o, w),
         Placed(f, p, q, o, w, G), NEW r \in Refs, NEW cs \in Seq(Callbacks), Distinct(cs),
         \A m \in Callbacks : Holds(cs, m) => InHand(f, p, q, o, w, m, r),
         \A m \in Callbacks : m \in G => m \in H \/ Holds(cs, m)
  PROVE  LET t == TargetIn(f, r)  p2 == AttachedKept(p, t, cs)  q2 == AttachedTicks(q, t, cs) IN
         /\ Typed(f, p2, q2, o, w) /\ Placed(f, p2, q2, o, w, H)
         /\ \A m \in Callbacks : Kept(p2, m) => Kept(p, m) \/ Holds(cs, m)
         /\ \A m \in Callbacks : InTicks(q2, m) => InTicks(q, m) \/ Holds(cs, m)
<1> DEFINE t == TargetIn(f, r)  p2 == AttachedKept(p, t, cs)  q2 == AttachedTicks(q, t, cs)
<1>1. t \in Refs /\ (t \in Final \/ \E d \in Deferreds : t = Promise(d) /\ f[d].value = Nothing)
  BY TargetIs, TargetKind DEF Typed
<1> HIDE DEF t
<1>2. CASE t \in Final
  <2>1. p2 = p /\ q2 = q \o Calls(cs, t)
    BY <1>2, RefFacts DEF AttachedKept, AttachedTicks
  <2> HIDE DEF q2, p2
  <2>2. /\ q2 \in Seq(Tick) /\ OnceInTicks(q2)
        /\ \A m \in Callbacks : InTicks(q2, m) <=> InTicks(q, m) \/ Holds(cs, m)
        /\ \A j \in DOMAIN q2 :
             (\E k \in DOMAIN cs : q2[j] = CallTick(cs[k], t)) \/ \E i \in DOMAIN q : q2[j] = q[i]
    BY <1>1, <2>1, CallTicks DEF Typed, Placed, TicksTrue, InHand
  <2>3. ASSUME NEW j \in DOMAIN q2
        PROVE  TickTrue(f, o, q2[j])
    <3>1. CASE \E i \in DOMAIN q : q2[j] = q[i]
      BY <3>1 DEF Placed, TicksTrue
    <3>2. CASE \E k \in DOMAIN cs : q2[j] = CallTick(cs[k], t)
      <4>1. PICK k \in DOMAIN cs : q2[j] = CallTick(cs[k], t)
        BY <3>2
      <4>2. cs[k] \in Callbacks /\ Holds(cs, cs[k])
        BY DEF Holds
      <4>3. \A x \in Callbacks : Holds(CallTick(cs[k], t).cs, x) => x = cs[k]
        BY <4>2, <1>1, CallFacts
      <4>4. /\ CallTick(cs[k], t).what = "call" /\ CallTick(cs[k], t).value = t
            /\ Len(CallTick(cs[k], t).cs) = 1
        BY DEF CallTick
      <4>5. WaitsIn(o, cs[k]) /\ EndOf(f, o, cs[k]) = t
        BY <4>2 DEF InHand, t
      <4>6. TargetIn(f, t) = t
        BY <1>2, FinalTarget DEF Typed
      <4> QED
        BY <4>1, <4>3, <4>4, <4>5, <4>6, <1>2 DEF TickTrue
    <3> QED
      BY <3>1, <3>2, <2>2
  <2>4. Typed(f, p2, q2, o, w)
    BY <2>1, <2>2 DEF Typed
  <2>5. KeptTrue(f, p2, o) /\ TicksTrue(f, q2, o) /\ ToldTrue(f, o, w)
    BY <2>1, <2>2, <2>3 DEF Placed, TicksTrue
  <2>6. Apart(p2, q2, w)
    BY <2>1, <2>2 DEF Placed, Apart, InHand
  <2>7. Somewhere(p2, q2, o, w, H)
    BY <2>1, <2>2 DEF Placed, Somewhere
  <2> QED
    BY <2>1, <2>2, <2>4, <2>5, <2>6, <2>7 DEF Placed, p2, q2, t
<1>3. ASSUME NEW d \in Deferreds, t = Promise(d), f[d].value = Nothing
      PROVE  /\ Typed(f, p2, q2, o, w) /\ Placed(f, p2, q2, o, w, H)
             /\ \A m \in Callbacks : Kept(p2, m) => Kept(p, m) \/ Holds(cs, m)
             /\ \A m \in Callbacks : InTicks(q2, m) => InTicks(q, m) \/ Holds(cs, m)
  <2>1. p2 = [p EXCEPT ![d] = @ \o cs] /\ q2 = q
    BY <1>3, RefFacts DEF AttachedKept, AttachedTicks
  <2> HIDE DEF q2, p2
  <2>2. p \in [Deferreds -> Seq(Callbacks)] /\ p[d] \in Seq(Callbacks)
    BY DEF Typed
  <2>3. /\ (p[d] \o cs) \in Seq(Callbacks) /\ Distinct(p[d] \o cs)
        /\ \A m \in Callbacks : Holds(p[d] \o cs, m) <=> Holds(p[d], m) \/ Holds(cs, m)
    <3>1. \A m \in Callbacks : Holds(p[d], m) => ~Holds(cs, m)
      BY DEF InHand, Kept
    <3>2. Distinct(p[d])
      BY DEF Placed, KeptTrue
    <3> QED
      BY <3>1, <3>2, <2>2, SequencesJoined
  <2>4. /\ p2 \in [Deferreds -> Seq(Callbacks)] /\ p2[d] = p[d] \o cs
        /\ \A e \in Deferreds : e # d => p2[e] = p[e]
    BY <2>1, <2>2, <2>3
  <2>5. \A m \in Callbacks : Kept(p2, m) <=> Kept(p, m) \/ Holds(cs, m)
    BY <2>3, <2>4 DEF Kept
  <2>6. Typed(f, p2, q2, o, w)
    BY <2>1, <2>4 DEF Typed
  <2>7. \A m \in Callbacks : Holds(cs, m) => WaitsIn(o, m) /\ EndOf(f, o, m) = Promise(d)
    BY <1>3 DEF InHand, t
  <2>8. KeptTrue(f, p2, o)
    BY <2>3, <2>4, <2>7, <1>3 DEF Placed, KeptTrue
  <2>9. TicksTrue(f, q2, o) /\ ToldTrue(f, o, w)
    BY <2>1 DEF Placed
  <2>10. Apart(p2, q2, w)
    BY <2>1, <2>5 DEF Placed, Apart, InHand
  <2>11. Somewhere(p2, q2, o, w, H)
    BY <2>1, <2>5 DEF Placed, Somewhere
  <2> QED
    BY <2>1, <2>5, <2>6, <2>8, <2>9, <2>10, <2>11 DEF Placed
<1> QED
  BY <1>1, <1>2, <1>3 DEF t

\* `resolve': what was kept for d is called with what d comes to.
SettledTicks(p, q, d, r) == IF p[d] = << >> THEN q ELSE Append(q, Drain(p[d], r))

LEMMA SettleKeeps ==
  ASSUME NEW f, NEW p, NEW q, NEW o, NEW w, Typed(f, p, q, o, w), Nothing \notin Refs,
         Placed(f, p, q, o, w, {}), NEW d \in Deferreds, f[d].value = Nothing,
         NEW r \in Refs, TargetIn(f, r) # Promise(d)
  PROVE  LET g == Resolved(f, d, r)  p2 == [p EXCEPT ![d] = << >>]  q2 == SettledTicks(p, q, d, r) IN
         Typed(g, p2, q2, o, w) /\ Placed(g, p2, q2, o, w, {})
<1> DEFINE g == Resolved(f, d, r)  p2 == [p EXCEPT ![d] = << >>]  q2 == SettledTicks(p, q, d, r)
<1>1. /\ f \in [Deferreds -> Deferred] /\ EndsIn(f) /\ p \in [Deferreds -> Seq(Callbacks)]
      /\ q \in Seq(Tick) /\ p[d] \in Seq(Callbacks)
  BY DEF Typed
<1>2. /\ EndsIn(g) /\ \A x \in Refs : TargetIn(g, x) = Redirected(f, d, r, x)
  BY <1>1, ResolvedEnds
<1>3. g \in [Deferreds -> Deferred] /\ g[d].value = r
      /\ \A e \in Deferreds : e # d => g[e].value = f[e].value
  BY <1>1 DEF Resolved, Deferred
<1>4. /\ p2 \in [Deferreds -> Seq(Callbacks)] /\ p2[d] = << >>
      /\ \A e \in Deferreds : e # d => p2[e] = p[e]
  BY <1>1
<1> HIDE DEF g, p2, q2
<1>5. \A m \in Callbacks : Holds(p[d], m) => WaitsIn(o, m) /\ EndOf(f, o, m) = Promise(d)
  BY DEF Placed, KeptTrue
<1>6. \A m \in Callbacks : Holds(p[d], m) => ~InTicks(q, m) /\ w[m] = << >>
  <2>1. Promise(d) \notin Final
    BY RefFacts
  <2> QED
    BY <2>1, <1>5 DEF Placed, Apart, ToldTrue, Kept
<1>7. ASSUME NEW m \in Callbacks, WaitsIn(o, m)
      PROVE  EndOf(g, o, m) = IF EndOf(f, o, m) = Promise(d) THEN TargetIn(f, r) ELSE EndOf(f, o, m)
  <2>1. Promise(o[m[1]][m[2]]) \in Refs
    BY <1>7, WaitTyped DEF Typed
  <2> QED
    BY <2>1, <1>2 DEF EndOf, Redirected
<1>8. TargetIn(g, r) = TargetIn(f, r)
  BY <1>2 DEF Redirected
<1>9. ASSUME NEW e \in Deferreds, e # d
      PROVE  Promise(e) # Promise(d)
  BY <1>9, RefFacts
<1>10. KeptTrue(g, p2, o)
  <2>1. Distinct(p2[d]) /\ \A m \in Callbacks : ~Holds(p2[d], m)
    BY <1>4 DEF Distinct, Holds
  <2>2. ASSUME NEW e \in Deferreds, e # d
        PROVE  /\ Distinct(p2[e])
               /\ \A m \in Callbacks : Holds(p2[e], m) =>
                    WaitsIn(o, m) /\ g[e].value = Nothing /\ EndOf(g, o, m) = Promise(e)
    <3>1. p2[e] = p[e] /\ g[e].value = f[e].value
      BY <2>2, <1>3, <1>4
    <3>2. /\ Distinct(p[e])
          /\ \A m \in Callbacks : Holds(p[e], m) =>
               WaitsIn(o, m) /\ f[e].value = Nothing /\ EndOf(f, o, m) = Promise(e)
      BY DEF Placed, KeptTrue
    <3> QED
      BY <3>1, <3>2, <1>7, <1>9, <2>2
  <2> QED
    BY <2>1, <2>2 DEF KeptTrue
<1>11. ASSUME NEW t \in Tick, TickTrue(f, o, t)
       PROVE  TickTrue(g, o, t)
  <2>1. t.value \in Refs
    BY DEF Tick
  <2>2. TargetIn(g, t.value) = IF TargetIn(f, t.value) = Promise(d) THEN TargetIn(f, r) ELSE TargetIn(f, t.value)
    BY <2>1, <1>2 DEF Redirected
  <2> QED
    BY <2>2, <1>7, <1>11 DEF TickTrue
<1>12. \A j \in DOMAIN q : TickTrue(g, o, q[j])
  <2>1. \A j \in DOMAIN q : q[j] \in Tick
    BY <1>1
  <2> QED
    BY <2>1, <1>11 DEF Placed, TicksTrue
<1>13. /\ q2 \in Seq(Tick) /\ TicksTrue(g, q2, o)
       /\ \A m \in Callbacks : InTicks(q2, m) <=> InTicks(q, m) \/ Holds(p[d], m)
  <2>1. CASE p[d] = << >>
    <3>1. q2 = q /\ \A m \in Callbacks : ~Holds(p[d], m)
      BY <2>1 DEF q2, SettledTicks, Holds
    <3> QED
      BY <3>1, <1>1, <1>12 DEF TicksTrue, Placed
  <2>2. CASE p[d] # << >>
    <3> DEFINE t == Drain(p[d], r)
    <3>1. q2 = Append(q, t) /\ t \in Tick /\ t.cs = p[d] /\ t.value = r /\ t.what = "drain"
      BY <2>2, <1>1 DEF q2, SettledTicks, Drain, Tick
    <3> HIDE DEF t
    <3>2. Distinct(t.cs) /\ OnceInTicks(q)
      BY <3>1 DEF Placed, KeptTrue, TicksTrue
    <3>3. /\ q2 \in Seq(Tick) /\ OnceInTicks(q2)
          /\ \A m \in Callbacks : InTicks(q2, m) <=> InTicks(q, m) \/ Holds(t.cs, m)
          /\ \A j \in DOMAIN q2 : q2[j] = t \/ \E i \in DOMAIN q : q2[j] = q[i]
      BY <3>1, <3>2, <1>1, <1>6, AppendTick
    <3>4. TickTrue(g, o, t)
      BY <3>1, <1>5, <1>7, <1>8 DEF TickTrue
    <3> QED
      BY <3>1, <3>3, <3>4, <1>12 DEF TicksTrue
  <2> QED
    BY <2>1, <2>2
<1>14. ToldTrue(g, o, w)
  <2>1. Promise(d) \notin Final
    BY RefFacts
  <2> QED
    BY <2>1, <1>7 DEF ToldTrue, Placed
<1>15. \A m \in Callbacks : Kept(p2, m) => Kept(p, m) /\ ~Holds(p[d], m)
  <2>1. ASSUME NEW m \in Callbacks, NEW e \in Deferreds, Holds(p2[e], m)
        PROVE  Holds(p[e], m) /\ ~Holds(p[d], m)
    <3>1. e # d /\ p2[e] = p[e]
      BY <2>1, <1>4 DEF Holds
    <3>2. EndOf(f, o, m) = Promise(e)
      BY <3>1, <2>1 DEF Placed, KeptTrue
    <3> QED
      BY <3>1, <3>2, <2>1, <1>5, <1>9
  <2> QED
    BY <2>1 DEF Kept
<1>16. Apart(p2, q2, w)
  BY <1>6, <1>13, <1>15 DEF Placed, Apart
<1>17. \A m \in Callbacks : Kept(p, m) => Kept(p2, m) \/ Holds(p[d], m)
  BY <1>4 DEF Kept
<1>18. Somewhere(p2, q2, o, w, {})
  BY <1>13, <1>17 DEF Placed, Somewhere
<1>19. Typed(g, p2, q2, o, w)
  BY <1>2, <1>3, <1>4, <1>13 DEF Typed
<1> QED
  BY <1>10, <1>13, <1>14, <1>16, <1>18, <1>19 DEF Placed, g, p2, q2

\* The first tick is taken: its callbacks are in hand.
LEMMA TailKeeps ==
  ASSUME NEW f, NEW p, NEW q, NEW o, NEW w, Typed(f, p, q, o, w), Placed(f, p, q, o, w, {}), q # << >>
  PROVE  /\ Head(q) \in Tick /\ Distinct(Head(q).cs)
         /\ Head(q).what = "call" => Len(Head(q).cs) = 1 /\ Head(q).value \in Final
         /\ Typed(f, p, Tail(q), o, w)
         /\ Placed(f, p, Tail(q), o, w, {m \in Callbacks : Holds(Head(q).cs, m)})
         /\ \A m \in Callbacks : Holds(Head(q).cs, m) => InHand(f, p, Tail(q), o, w, m, Head(q).value)
<1> DEFINE h == Head(q)  z == Tail(q)
<1>1. /\ h \in Tick /\ h = q[1] /\ 1 \in DOMAIN q /\ Distinct(h.cs)
      /\ z \in Seq(Tick) /\ OnceInTicks(z)
      /\ \A m \in Callbacks : InTicks(z, m) => InTicks(q, m) /\ ~Holds(h.cs, m)
      /\ \A m \in Callbacks : InTicks(q, m) => InTicks(z, m) \/ Holds(h.cs, m)
      /\ \A j \in DOMAIN z : \E i \in DOMAIN q : z[j] = q[i]
  BY TailTick DEF Typed, Placed, TicksTrue
<1> HIDE DEF h, z
<1>2. TickTrue(f, o, h)
  BY <1>1 DEF Placed, TicksTrue
<1>3. TicksTrue(f, z, o)
  BY <1>1 DEF Placed, TicksTrue
<1>4. \A m \in Callbacks : Holds(h.cs, m) => InTicks(q, m)
  BY <1>1 DEF InTicks
<1>5. Typed(f, p, z, o, w)
  BY <1>1 DEF Typed
<1>6. Apart(p, z, w)
  BY <1>1 DEF Placed, Apart
<1>7. Somewhere(p, z, o, w, {m \in Callbacks : Holds(h.cs, m)})
  BY <1>1 DEF Placed, Somewhere
<1>8. \A m \in Callbacks : Holds(h.cs, m) => InHand(f, p, z, o, w, m, h.value)
  BY <1>1, <1>2, <1>4 DEF InHand, TickTrue, Placed, Apart
<1>9. Placed(f, p, z, o, w, {m \in Callbacks : Holds(h.cs, m)})
  BY <1>3, <1>6, <1>7 DEF Placed
<1>10. h.what = "call" => Len(h.cs) = 1 /\ h.value \in Final
  BY <1>2 DEF TickTrue
<1> QED
  BY <1>1, <1>5, <1>8, <1>9, <1>10 DEF h, z

\* The callback in hand is called.
Tells(w, w2, m, r)  == w2 = [w EXCEPT ![m] = Append(@, r)]
Called(w, w2, m, r) == w[m] = << >> /\ w2[m] = <<r>> /\ \A x \in Callbacks : x # m => w2[x] = w[x]
Only(H, m)          == \A x \in Callbacks : x \in H <=> x = m

LEMMA TellKeeps ==
  ASSUME NEW f, NEW p, NEW q, NEW o, NEW w, NEW w2, NEW m \in Callbacks, NEW r \in Final,
         NEW H, Typed(f, p, q, o, w), Placed(f, p, q, o, w, H), InHand(f, p, q, o, w, m, r),
         Only(H, m), Tells(w, w2, m, r)
  PROVE  /\ Typed(f, p, q, o, w2) /\ Placed(f, p, q, o, w2, {})
         /\ Called(w, w2, m, r)
<1>1. w \in [Callbacks -> Seq(Final)] /\ w[m] = << >>
  BY DEF Typed, InHand
<1>2. /\ w2 \in [Callbacks -> Seq(Final)] /\ w2[m] = <<r>>
      /\ \A x \in Callbacks : x # m => w2[x] = w[x]
  BY <1>1 DEF Tells
<1>3. WaitsIn(o, m) /\ EndOf(f, o, m) = r /\ ~InTicks(q, m)
  <2>1. TargetIn(f, r) = r
    BY FinalTarget DEF Typed
  <2> QED
    BY <2>1 DEF InHand
<1>4. ToldTrue(f, o, w2)
  BY <1>2, <1>3 DEF Placed, ToldTrue
<1>5. Apart(p, q, w2)
  BY <1>2, <1>3 DEF Placed, Apart
<1>6. Somewhere(p, q, o, w2, {})
  <2>1. w2[m] # << >>
    BY <1>2
  <2>2. \A x \in Callbacks : x # m => w2[x] = w[x]
    BY <1>2
  <2> QED
    BY <2>1, <2>2 DEF Placed, Somewhere, Only
<1>7. Typed(f, p, q, o, w2)
  BY <1>2 DEF Typed
<1> QED
  BY <1>1, <1>2, <1>4, <1>5, <1>6, <1>7 DEF Placed, Called

\* A deferred is made, and its callbacks are in hand.
SameTargets(f, g)            == \A x \in Refs : TargetIn(g, x) = TargetIn(f, x)
Makes(f, g, o, o2, c, by, s) == g = [f EXCEPT ![c] = Unresolved(by)] /\ o2 = [o EXCEPT ![c] = s]
Hands(H, c, s)               == \A m \in Callbacks : m \in H <=> m[1] = c /\ m[2] \in DOMAIN s

LEMMA MakeKeeps ==
  ASSUME NEW f, NEW p, NEW q, NEW o, NEW w, NEW g, NEW o2, NEW H, NEW c \in Deferreds,
         NEW by \in {"page", "then", "all"}, NEW s \in Seq(Deferreds),
         Typed(f, p, q, o, w), Placed(f, p, q, o, w, {}), f[c].value = Nothing, o[c] = << >>,
         Makes(f, g, o, o2, c, by, s), Hands(H, c, s)
  PROVE  /\ Typed(g, p, q, o2, w) /\ Placed(g, p, q, o2, w, H)
         /\ \A m \in H : m \in Callbacks => InHand(g, p, q, o2, w, m, Promise(s[m[2]]))
         /\ SameTargets(f, g)
<1>1. f \in [Deferreds -> Deferred] /\ EndsIn(f) /\ o \in [Deferreds -> Seq(Deferreds)]
  BY DEF Typed
<1>2. /\ g \in [Deferreds -> Deferred] /\ \A d \in Deferreds : g[d].value = f[d].value
  BY <1>1 DEF Deferred, Unresolved, Makes
<1>3. o2 \in [Deferreds -> Seq(Deferreds)] /\ o2[c] = s /\ \A d \in Deferreds : d # c => o2[d] = o[d]
  BY <1>1 DEF Makes
<1>4. EndsIn(g) /\ \A x \in Refs : TargetIn(g, x) = TargetIn(f, x)
  BY <1>1, <1>2, SameValues
<1>5. \A m \in Callbacks : m[1] \in Deferreds
  BY DEF Callbacks
<1>6. ASSUME NEW m \in Callbacks, WaitsIn(o, m)
      PROVE  WaitsIn(o2, m) /\ EndOf(g, o2, m) = EndOf(f, o, m) /\ m[1] # c
  <2>1. m[1] # c
    BY <1>6 DEF WaitsIn
  <2>2. o2[m[1]] = o[m[1]]
    BY <2>1, <1>3, <1>5
  <2>3. Promise(o[m[1]][m[2]]) \in Refs
    BY <1>1, <1>6, WaitTyped
  <2> QED
    BY <2>1, <2>2, <2>3, <1>4, <1>6 DEF WaitsIn, EndOf
<1>7. ASSUME NEW m \in Callbacks, WaitsIn(o2, m)
      PROVE  WaitsIn(o, m) \/ m \in H
  BY <1>3, <1>5, <1>7 DEF WaitsIn, Hands
<1>8. KeptTrue(g, p, o2)
  BY <1>2, <1>6 DEF Placed, KeptTrue
<1>9. ASSUME NEW t \in Tick, TickTrue(f, o, t)
      PROVE  TickTrue(g, o2, t)
  <2>1. t.value \in Refs
    BY DEF Tick
  <2> QED
    BY <2>1, <1>4, <1>6, <1>9 DEF TickTrue
<1>10. TicksTrue(g, q, o2)
  <2>1. \A j \in DOMAIN q : q[j] \in Tick
    BY DEF Typed
  <2> QED
    BY <2>1, <1>9 DEF Placed, TicksTrue
<1>11. ToldTrue(g, o2, w)
  BY <1>6 DEF Placed, ToldTrue
<1>12. Somewhere(p, q, o2, w, H)
  BY <1>7 DEF Placed, Somewhere
<1>13. Typed(g, p, q, o2, w)
  BY <1>2, <1>3, <1>4 DEF Typed
<1>14. ASSUME NEW m \in H, m \in Callbacks
       PROVE  InHand(g, p, q, o2, w, m, Promise(s[m[2]]))
  <2>0. m[1] = c /\ m[2] \in DOMAIN s
    BY <1>14 DEF Hands
  <2>1. ~WaitsIn(o, m)
    BY <2>0 DEF WaitsIn
  <2>2. ~InTicks(q, m)
    BY <1>14, <2>1 DEF InTicks, Placed, TicksTrue, TickTrue
  <2>3. ~Kept(p, m)
    BY <1>14, <2>1 DEF Kept, Placed, KeptTrue
  <2>4. w[m] = << >>
    BY <1>14, <2>1 DEF Placed, ToldTrue
  <2>5. WaitsIn(o2, m) /\ EndOf(g, o2, m) = TargetIn(g, Promise(s[m[2]]))
    BY <1>3, <2>0 DEF WaitsIn, EndOf
  <2> QED
    BY <2>2, <2>3, <2>4, <2>5 DEF InHand
<1> QED
  BY <1>4, <1>8, <1>10, <1>11, <1>12, <1>13, <1>14 DEF Placed, SameTargets

(***************************************************************************)
(* The invariant                                                           *)
(***************************************************************************)
\* What is made by whom waits for how much; what was not made has come to nothing.
ShapeIn(f, o) ==
  \A c \in Deferreds :
    /\ f[c].made = "no" => f[c].value = Nothing
    /\ f[c].made \in {"no", "page"} => o[c] = << >>
    /\ f[c].made = "then" => Len(o[c]) = 1
    /\ f[c].made = "all" => Len(o[c]) = 2

\* `all' comes to what its callbacks were told.
AllTrue(f, w) ==
  \A c \in Deferreds : f[c].made = "all" /\ f[c].value # Nothing =>
    /\ f[c].value \in Final
    /\ IF f[c].value.kind = "plain"
         THEN \A i \in {1, 2} : w[<<c, i>>] # << >> /\ w[<<c, i>>][1].kind = "plain"
         ELSE \E i \in {1, 2} : w[<<c, i>>] # << >> /\ w[<<c, i>>][1].kind = "rejected"

PromiseInv ==
  /\ Typed(deferred, pending, ticks, on, told)
  /\ Placed(deferred, pending, ticks, on, told, {})
  /\ ShapeIn(deferred, on) /\ AllTrue(deferred, told)

LEMMA TargetNow ==
  /\ \A r \in Refs : Target(r) = TargetIn(deferred, r)
  /\ Target(Head(ticks).value) = TargetIn(deferred, Head(ticks).value)
BY DEF Target, TargetIn, EndIn, OnIn, ClosedIn, LeadsOn, Followed

LEMMA PromiseStart ==
  ASSUME PromiseConstants, PromiseInit
  PROVE  PromiseInv
<1>1. deferred \in [Deferreds -> Deferred] /\ \A d \in Deferreds : deferred[d].value = Nothing /\ deferred[d].made = "no"
  BY DEF PromiseInit, Deferred, Unresolved
<1>2. EndsIn(deferred)
  <2>1. \A r \in Refs : ~OnIn(deferred, r)
    BY <1>1, RefFacts DEF OnIn
  <2> QED
    BY <2>1, OwnEnd DEF EndsIn
<1>3. Typed(deferred, pending, ticks, on, told)
  BY <1>1, <1>2 DEF Typed, PromiseInit
<1>4. \A m \in Callbacks : m[1] \in Deferreds /\ ~WaitsIn(on, m)
  BY DEF Callbacks, WaitsIn, PromiseInit
<1>5. Placed(deferred, pending, ticks, on, told, {})
  BY <1>4 DEF Placed, KeptTrue, TicksTrue, OnceInTicks, ToldTrue, Apart, InTicks, Kept, Somewhere,
              Holds, Distinct, PromiseInit
<1>6. ShapeIn(deferred, on) /\ AllTrue(deferred, told)
  BY <1>1 DEF ShapeIn, AllTrue, PromiseInit
<1> QED
  BY <1>3, <1>5, <1>6 DEF PromiseInv

-----------------------------------------------------------------------------
\* The operations of the model are those of the lemmas.
LEMMA AttachIs ==
  ASSUME NEW q, NEW r, NEW cs, Attach(q, r, cs), Target(r) = TargetIn(deferred, r)
  PROVE  /\ pending' = AttachedKept(pending, TargetIn(deferred, r), cs)
         /\ ticks' = AttachedTicks(q, TargetIn(deferred, r), cs)
BY DEF Attach, AttachedKept, AttachedTicks, Calls

\* Settling keeps the invariant; only what d comes to is said to whom it was told.
Comes(f, g, d, r) ==
  \A c \in Deferreds : /\ g[c].made = f[c].made
                       /\ c # d \/ f[d].value # Nothing => g[c] = f[c]
                       /\ c = d /\ f[d].value = Nothing => g[c].value = r

LEMMA SettleStep ==
  ASSUME PromiseConstants, NEW q, NEW w, NEW d \in Deferreds, NEW r \in Resolvents(d), Settle(q, d, r),
         Typed(deferred, pending, q, on, w), Placed(deferred, pending, q, on, w, {}),
         on' = on, told' = w
  PROVE  /\ Typed(deferred, pending, ticks, on, told)'
         /\ Placed(deferred, pending, ticks, on, told, {})'
         /\ Comes(deferred, deferred', d, r)
<1>1. r \in Refs /\ Nothing \notin Refs
  BY DEF Resolvents, PromiseConstants
<1>2. CASE deferred[d].value # Nothing
  BY <1>2 DEF Settle, Comes
<1>3. CASE deferred[d].value = Nothing
  <2>1. TargetIn(deferred, r) # Promise(d)
    <3>1. Target(r) # Promise(d)
      <4>1. CASE r.kind = "promise"
        BY <4>1 DEF Resolvents
      <4>2. CASE r.kind # "promise"
        <5>1. r \in Final
          BY <4>2, <1>1, RefFacts
        <5>2. TargetIn(deferred, r) = r
          BY <5>1, FinalTarget DEF Typed
        <5> QED
          BY <5>1, <5>2, <1>1, TargetNow, RefFacts
      <4> QED
        BY <4>1, <4>2
    <3> QED
      BY <3>1, <1>1, TargetNow
  <2>2. /\ deferred' = Resolved(deferred, d, r)
        /\ pending' = [pending EXCEPT ![d] = << >>]
        /\ ticks' = SettledTicks(pending, q, d, r)
    BY <1>3 DEF Settle, Resolved, SettledTicks
  <2>3. /\ Typed(deferred, pending, ticks, on, told)'
        /\ Placed(deferred, pending, ticks, on, told, {})'
    BY <2>1, <2>2, <1>1, <1>3, SettleKeeps
  <2>4. deferred \in [Deferreds -> Deferred]
    BY DEF Typed
  <2> QED
    BY <2>2, <2>3, <2>4, <1>3 DEF Resolved, Deferred, Comes
<1> QED
  BY <1>2, <1>3

LEMMA ShapeMade ==
  ASSUME NEW c \in Deferreds, NEW by \in {"page", "then", "all"}, NEW s \in Seq(Deferreds),
         Len(s) = (CASE by = "page" -> 0 [] by = "then" -> 1 [] by = "all" -> 2),
         deferred \in [Deferreds -> Deferred], on \in [Deferreds -> Seq(Deferreds)],
         deferred' = [deferred EXCEPT ![c] = Unresolved(by)], on' = [on EXCEPT ![c] = s], told' = told,
         ShapeIn(deferred, on), AllTrue(deferred, told)
  PROVE  ShapeIn(deferred, on)' /\ AllTrue(deferred, told)'
<1>1. /\ deferred'[c] = Unresolved(by) /\ on'[c] = s
      /\ \A d \in Deferreds : d # c => deferred'[d] = deferred[d] /\ on'[d] = on[d]
  OBVIOUS
<1>2. Unresolved(by).made = by /\ Unresolved(by).value = Nothing
  BY DEF Unresolved
<1>3. s = << >> \/ by # "page"
  BY DEF Unresolved
<1>4. ShapeIn(deferred, on)'
  BY <1>1, <1>2, <1>3 DEF ShapeIn
<1>5. AllTrue(deferred, told)'
  BY <1>1, <1>2 DEF AllTrue
<1> QED
  BY <1>4, <1>5

LEMMA DeferStep ==
  ASSUME PromiseConstants, PromiseInv, NEW d \in Deferreds, Defer(d)
  PROVE  PromiseInv'
<1>1. /\ Typed(deferred, pending, ticks, on, told) /\ Placed(deferred, pending, ticks, on, told, {})
      /\ deferred[d].value = Nothing /\ on[d] = << >> /\ on \in [Deferreds -> Seq(Deferreds)]
      /\ deferred \in [Deferreds -> Deferred]
  BY DEF PromiseInv, ShapeIn, Typed, Defer, New, Exists
<1>2. << >> \in Seq(Deferreds) /\ Len(<< >>) = 0
  OBVIOUS
<1>3. on' = [on EXCEPT ![d] = << >>]
  BY <1>1 DEF Defer
<1>4. Hands({}, d, << >>)
  BY DEF Hands
<1>0. deferred' = [deferred EXCEPT ![d] = Unresolved("page")] /\ UNCHANGED <<pending, ticks, told>>
  BY DEF Defer
<1>7. Makes(deferred, deferred', on, on', d, "page", << >>)
  BY <1>0, <1>3 DEF Makes
<1>5. /\ Typed(deferred', pending, ticks, on', told)
      /\ Placed(deferred', pending, ticks, on', told, {})
  BY <1>1, <1>2, <1>4, <1>7, MakeKeeps
<1>6. ShapeIn(deferred, on)' /\ AllTrue(deferred, told)'
  BY <1>1, <1>2, <1>3, ShapeMade DEF Defer, PromiseInv
<1> QED
  BY <1>0, <1>5, <1>6 DEF PromiseInv

LEMMA ResolveStep ==
  ASSUME PromiseConstants, PromiseInv, NEW d \in Deferreds, NEW r \in Refs, Resolve(d, r)
  PROVE  PromiseInv'
<1>1. /\ Typed(deferred, pending, ticks, on, told) /\ Placed(deferred, pending, ticks, on, told, {})
      /\ r \in Resolvents(d) /\ Settle(ticks, d, r) /\ on' = on /\ told' = told
      /\ deferred[d].made = "page"
  BY DEF PromiseInv, Resolve
<1>2. /\ Typed(deferred, pending, ticks, on, told)'
      /\ Placed(deferred, pending, ticks, on, told, {})'
      /\ \A c \in Deferreds : /\ deferred'[c].made = deferred[c].made
                              /\ c # d \/ deferred[d].value # Nothing => deferred'[c] = deferred[c]
  BY <1>1, SettleStep DEF Comes
<1>3. ShapeIn(deferred, on)' /\ AllTrue(deferred, told)'
  BY <1>1, <1>2 DEF ShapeIn, AllTrue, PromiseInv
<1> QED
  BY <1>2, <1>3 DEF PromiseInv

LEMMA ThenStep ==
  ASSUME PromiseConstants, PromiseInv, NEW d \in Deferreds, NEW c \in Deferreds, Then(d, c)
  PROVE  PromiseInv'
<1>1. /\ Typed(deferred, pending, ticks, on, told) /\ Placed(deferred, pending, ticks, on, told, {})
      /\ deferred[c].value = Nothing /\ on[c] = << >> /\ on \in [Deferreds -> Seq(Deferreds)]
      /\ deferred \in [Deferreds -> Deferred]
  BY DEF PromiseInv, ShapeIn, Typed, Then, New, Exists
<1> DEFINE s == <<d>>  m == <<c, 1>>  H == {x \in Callbacks : x[1] = c /\ x[2] \in DOMAIN s}
<1>2. s \in Seq(Deferreds) /\ Len(s) = 1 /\ DOMAIN s = {1} /\ s[1] = d
  OBVIOUS
<1>3. m \in Callbacks /\ m[1] = c /\ m[2] = 1
      /\ \A x \in Callbacks : x[1] = c /\ x[2] = 1 => x = m
  BY DEF Callbacks
<1>4. deferred' = [deferred EXCEPT ![c] = Unresolved("then")] /\ on' = [on EXCEPT ![c] = s] /\ told' = told
  BY DEF Then
<1> HIDE DEF s, m
<1>5. /\ Typed(deferred', pending, ticks, on', told) /\ Placed(deferred', pending, ticks, on', told, H)
      /\ \A x \in H : x \in Callbacks => InHand(deferred', pending, ticks, on', told, x, Promise(s[x[2]]))
      /\ SameTargets(deferred, deferred')
  <2>1. Hands(H, c, s)
    BY DEF Hands
  <2>2. Makes(deferred, deferred', on, on', c, "then", s)
    BY <1>4 DEF Makes
  <2>3. /\ Typed(deferred, pending, ticks, on, told) /\ Placed(deferred, pending, ticks, on, told, {})
        /\ deferred[c].value = Nothing /\ on[c] = << >>
    BY <1>1
  <2>4. s \in Seq(Deferreds) /\ "then" \in {"page", "then", "all"}
    BY <1>2
  <2> HIDE DEF H
  <2> QED
    <3>1. Typed(deferred', pending, ticks, on', told) /\ Placed(deferred', pending, ticks, on', told, H)
      BY <2>1, <2>2, <2>3, <2>4, MakeKeeps
    <3>2. \A x \in H : x \in Callbacks => InHand(deferred', pending, ticks, on', told, x, Promise(s[x[2]]))
      BY <2>1, <2>2, <2>3, <2>4, MakeKeeps
    <3>3. SameTargets(deferred, deferred')
      BY <2>1, <2>2, <2>3, <2>4, MakeKeeps
    <3> QED BY <3>1, <3>2, <3>3
<1>6. <<m>> \in Seq(Callbacks) /\ Distinct(<<m>>) /\ \A x \in Callbacks : Holds(<<m>>, x) <=> x = m
  BY <1>3 DEF Distinct, Holds
<1>7. \A x \in Callbacks : Holds(<<m>>, x) => InHand(deferred', pending, ticks, on', told, x, Promise(d))
  BY <1>2, <1>3, <1>5, <1>6
<1>8. \A x \in Callbacks : x \in H => x \in {} \/ Holds(<<m>>, x)
  BY <1>2, <1>3, <1>6
<1>9. Promise(d) \in Refs
  BY RefFacts
<1>10. LET t == TargetIn(deferred', Promise(d)) IN
       /\ Typed(deferred', AttachedKept(pending, t, <<m>>), AttachedTicks(ticks, t, <<m>>), on', told)
       /\ Placed(deferred', AttachedKept(pending, t, <<m>>), AttachedTicks(ticks, t, <<m>>), on', told, {})
  BY <1>5, <1>6, <1>7, <1>8, <1>9, AttachKeeps
<1>11. /\ pending' = AttachedKept(pending, TargetIn(deferred, Promise(d)), <<m>>)
       /\ ticks' = AttachedTicks(ticks, TargetIn(deferred, Promise(d)), <<m>>)
  <2>1. Attach(ticks, Promise(d), <<m>>)
    BY DEF Then, m
  <2> QED
    BY <2>1, <1>9, AttachIs, TargetNow
<1>12. TargetIn(deferred', Promise(d)) = TargetIn(deferred, Promise(d))
  BY <1>5, <1>9 DEF SameTargets
<1>13. Typed(deferred, pending, ticks, on, told)' /\ Placed(deferred, pending, ticks, on, told, {})'
  BY <1>10, <1>11, <1>12, <1>4
<1>14. ShapeIn(deferred, on)' /\ AllTrue(deferred, told)'
  BY <1>1, <1>2, <1>4, ShapeMade DEF PromiseInv
<1> QED
  BY <1>13, <1>14 DEF PromiseInv

LEMMA DrainStep ==
  ASSUME PromiseConstants, PromiseInv, DrainTick
  PROVE  PromiseInv'
<1>1. /\ Typed(deferred, pending, ticks, on, told) /\ Placed(deferred, pending, ticks, on, told, {})
      /\ ticks # << >> /\ Attach(Tail(ticks), Head(ticks).value, Head(ticks).cs)
      /\ UNCHANGED <<deferred, on, told>>
  BY DEF PromiseInv, DrainTick
<1> DEFINE h == Head(ticks)  z == Tail(ticks)  t == TargetIn(deferred, h.value)
           H == {m \in Callbacks : Holds(h.cs, m)}
<1>2. /\ h \in Tick /\ Distinct(h.cs)
      /\ Typed(deferred, pending, z, on, told) /\ Placed(deferred, pending, z, on, told, H)
      /\ \A m \in Callbacks : Holds(h.cs, m) => InHand(deferred, pending, z, on, told, m, h.value)
  BY <1>1, TailKeeps
<1>3. pending' = AttachedKept(pending, t, h.cs) /\ ticks' = AttachedTicks(z, t, h.cs)
  BY <1>1, AttachIs, TargetNow
<1>4. h.cs \in Seq(Callbacks) /\ h.value \in Refs
  BY <1>2 DEF Tick
<1>5. \A m \in Callbacks : m \in H => m \in {} \/ Holds(h.cs, m)
  OBVIOUS
<1> HIDE DEF h, z, H
<1>6. /\ Typed(deferred, AttachedKept(pending, t, h.cs), AttachedTicks(z, t, h.cs), on, told)
      /\ Placed(deferred, AttachedKept(pending, t, h.cs), AttachedTicks(z, t, h.cs), on, told, {})
  BY <1>2, <1>4, <1>5, AttachKeeps
<1>7. Typed(deferred, pending, ticks, on, told)' /\ Placed(deferred, pending, ticks, on, told, {})'
  BY <1>1, <1>3, <1>6
<1>8. ShapeIn(deferred, on)' /\ AllTrue(deferred, told)'
  BY <1>1 DEF PromiseInv, ShapeIn, AllTrue
<1> QED
  BY <1>7, <1>8 DEF PromiseInv

\* A tick that calls, taken and told.
LEMMA CallIsTold ==
  ASSUME PromiseConstants, PromiseInv, ticks # << >>, Head(ticks).what = "call",
         NEW w, Tells(told, w, Head(ticks).cs[1], Head(ticks).value)
  PROVE  LET h == Head(ticks)  m == h.cs[1] IN
         /\ m \in Callbacks /\ m[1] \in Deferreds /\ m[2] \in {1, 2} /\ m = <<m[1], m[2]>>
         /\ m[2] \in DOMAIN on[m[1]]
         /\ h.value \in Final
         /\ Typed(deferred, pending, Tail(ticks), on, w)
         /\ Placed(deferred, pending, Tail(ticks), on, w, {})
         /\ Called(told, w, m, h.value)
<1> DEFINE h == Head(ticks)  m == h.cs[1]  z == Tail(ticks)  H == {x \in Callbacks : Holds(h.cs, x)}
<1>1. /\ h \in Tick /\ Distinct(h.cs) /\ Len(h.cs) = 1 /\ h.value \in Final
      /\ Typed(deferred, pending, z, on, told) /\ Placed(deferred, pending, z, on, told, H)
      /\ \A x \in Callbacks : Holds(h.cs, x) => InHand(deferred, pending, z, on, told, x, h.value)
  BY TailKeeps DEF PromiseInv
<1> HIDE DEF h, z
<1>2. m \in Callbacks /\ \A x \in Callbacks : Holds(h.cs, x) <=> x = m
  BY <1>1 DEF Tick, Holds
<1>3. Only(H, m)
  BY <1>2 DEF Only
<1>4. InHand(deferred, pending, z, on, told, m, h.value)
  BY <1>1, <1>2
<1>5. m[1] \in Deferreds /\ m[2] \in {1, 2} /\ m = <<m[1], m[2]>>
  BY <1>2 DEF Callbacks
<1>0. Tells(told, w, m, h.value)
  BY DEF m, h
<1>6. m[2] \in DOMAIN on[m[1]]
  BY <1>4 DEF InHand, WaitsIn
<1> HIDE DEF m, H
<1>7. /\ Typed(deferred, pending, z, on, w) /\ Placed(deferred, pending, z, on, w, {})
      /\ Called(told, w, m, h.value)
  <2>1. Placed(deferred, pending, z, on, told, H)
    BY <1>1
  <2>2. Typed(deferred, pending, z, on, told) /\ h.value \in Final /\ m \in Callbacks
    BY <1>1, <1>2
  <2> QED
    BY <1>0, <1>3, <1>4, <2>1, <2>2, TellKeeps
<1> QED
  BY <1>1, <1>2, <1>5, <1>6, <1>7 DEF m, h, z

\* What was told stays told.
LEMMA AllStays ==
  ASSUME NEW m \in Callbacks, NEW r, NEW w, Called(told, w, m, r), NEW c \in Deferreds,
         deferred[c].made = "all", deferred[c].value # Nothing, AllTrue(deferred, told)
  PROVE  /\ deferred[c].value \in Final
         /\ IF deferred[c].value.kind = "plain"
              THEN \A i \in {1, 2} : w[<<c, i>>] # << >> /\ w[<<c, i>>][1].kind = "plain"
              ELSE \E i \in {1, 2} : w[<<c, i>>] # << >> /\ w[<<c, i>>][1].kind = "rejected"
<1>1. \A i \in {1, 2} : <<c, i>> \in Callbacks
  BY DEF Callbacks
<1>2. \A i \in {1, 2} : told[<<c, i>>] # << >> => w[<<c, i>>] = told[<<c, i>>]
  BY <1>1 DEF Called
<1> QED
  BY <1>2 DEF AllTrue

LEMMA CallThenStep ==
  ASSUME PromiseConstants, PromiseInv, CallThen
  PROVE  PromiseInv'
<1> DEFINE h == Head(ticks)  m == h.cs[1]  c == m[1]
<1>1. /\ ticks # << >> /\ h.what = "call" /\ deferred[c].made = "then" /\ on' = on
      /\ told' = [told EXCEPT ![<<c, 1>>] = Append(@, h.value)]
      /\ \E r \in Resolvents(c) : Settle(Tail(ticks), c, r)
  BY DEF CallThen, Tell
<1>2. \A w : Tells(told, w, m, h.value) =>
        /\ m \in Callbacks /\ c \in Deferreds /\ m[2] \in {1, 2} /\ m = <<c, m[2]>>
        /\ m[2] \in DOMAIN on[c]
  BY <1>1, CallIsTold
<1>3. Tells(told, [told EXCEPT ![m] = Append(@, h.value)], m, h.value)
  BY DEF Tells
<1>4. m \in Callbacks /\ c \in Deferreds /\ m[2] \in {1, 2} /\ m = <<c, m[2]>> /\ m[2] \in DOMAIN on[c]
  BY <1>2, <1>3
<1>5. m = <<c, 1>>
  <2>1. Len(on[c]) = 1 /\ on[c] \in Seq(Deferreds)
    BY <1>1, <1>4 DEF PromiseInv, ShapeIn, Typed
  <2>2. DOMAIN on[c] = {1}
    BY <2>1
  <2> QED
    BY <2>2, <1>4
<1> HIDE DEF m, c
<1>6. Tells(told, told', m, h.value)
  BY <1>1, <1>5 DEF Tells
<1>7. /\ Typed(deferred, pending, Tail(ticks), on, told')
      /\ Placed(deferred, pending, Tail(ticks), on, told', {})
      /\ Called(told, told', m, h.value)
  BY <1>1, <1>6, CallIsTold DEF m
<1> HIDE DEF h
<1>8. PICK r \in Resolvents(c) : Settle(Tail(ticks), c, r)
  BY <1>1
<1>9. /\ Typed(deferred, pending, ticks, on, told)'
      /\ Placed(deferred, pending, ticks, on, told, {})'
      /\ \A d \in Deferreds : /\ deferred'[d].made = deferred[d].made
                              /\ d # c \/ deferred[c].value # Nothing => deferred'[d] = deferred[d]
  BY <1>1, <1>4, <1>7, <1>8, SettleStep, ZenonT(60) DEF Comes
<1>10. ShapeIn(deferred, on)'
  BY <1>1, <1>9 DEF PromiseInv, ShapeIn
<1>11. AllTrue(deferred, told)'
  <2>1. \A d \in Deferreds : deferred'[d].made = "all" => deferred[d].made = "all" /\ deferred'[d] = deferred[d]
    BY <1>1, <1>9
  <2> QED
    BY <2>1, <1>4, <1>7, AllStays DEF PromiseInv, AllTrue
<1> QED
  BY <1>9, <1>10, <1>11 DEF PromiseInv

LEMMA CallAllStep ==
  ASSUME PromiseConstants, PromiseInv, CallAll
  PROVE  PromiseInv'
<1> DEFINE h == Head(ticks)  m == h.cs[1]  c == m[1]  r == h.value
<1>1. /\ ticks # << >> /\ h.what = "call" /\ deferred[c].made = "all" /\ on' = on
      /\ told' = [told EXCEPT ![m] = Append(@, r)]
      /\ IF r.kind = "rejected" \/ AllAnswered(c, m[2])
           THEN Settle(Tail(ticks), c, r)
           ELSE ticks' = Tail(ticks) /\ UNCHANGED <<deferred, pending>>
  BY DEF CallAll, Tell
<1>2. Tells(told, told', m, r)
  BY <1>1 DEF Tells
<1>3. /\ m \in Callbacks /\ c \in Deferreds /\ m[2] \in {1, 2} /\ m = <<c, m[2]>> /\ r \in Final
      /\ Typed(deferred, pending, Tail(ticks), on, told')
      /\ Placed(deferred, pending, Tail(ticks), on, told', {})
      /\ Called(told, told', m, r)
  BY <1>1, <1>2, CallIsTold
<1> HIDE DEF h, m, c, r
<1>4. ASSUME NEW d \in Deferreds, deferred[d].made = "all", deferred[d].value # Nothing
      PROVE  /\ deferred[d].value \in Final
             /\ IF deferred[d].value.kind = "plain"
                  THEN \A i \in {1, 2} : told'[<<d, i>>] # << >> /\ told'[<<d, i>>][1].kind = "plain"
                  ELSE \E i \in {1, 2} : told'[<<d, i>>] # << >> /\ told'[<<d, i>>][1].kind = "rejected"
  BY <1>3, <1>4, AllStays DEF PromiseInv
<1>5. CASE ~(r.kind = "rejected" \/ AllAnswered(c, m[2]))
  <2>1. ticks' = Tail(ticks) /\ deferred' = deferred /\ pending' = pending
    BY <1>1, <1>5
  <2>2. ShapeIn(deferred, on)'
    BY <1>1, <2>1 DEF PromiseInv, ShapeIn
  <2>3. AllTrue(deferred, told)'
    BY <2>1, <1>4 DEF AllTrue
  <2> QED
    BY <1>1, <1>3, <2>1, <2>2, <2>3 DEF PromiseInv
<1>6. CASE r.kind = "rejected" \/ AllAnswered(c, m[2])
  <2>1. r \in Refs /\ r.kind \in {"plain", "rejected"}
    BY <1>3, RefFacts
  <2>2. r \in Resolvents(c) /\ Settle(Tail(ticks), c, r)
    BY <1>1, <1>6, <2>1 DEF Resolvents
  <2>0. Placed(deferred, pending, ticks, on, told, {})' /\ Comes(deferred, deferred', c, r)
        /\ Typed(deferred, pending, ticks, on, told)'
    BY <1>1, <1>3, <2>2, SettleStep
  <2>3. /\ Typed(deferred, pending, ticks, on, told)'
        /\ Placed(deferred, pending, ticks, on, told, {})'
        /\ \A d \in Deferreds : /\ deferred'[d].made = deferred[d].made
                                /\ d # c \/ deferred[c].value # Nothing => deferred'[d] = deferred[d]
                                /\ d = c /\ deferred[c].value = Nothing => deferred'[d].value = r
    BY <2>0 DEF Comes
  <2>4. ShapeIn(deferred, on)'
    <3>1. \A d \in Deferreds : deferred'[d].made = "no" => deferred'[d] = deferred[d]
      BY <1>1, <2>3
    <3> QED
      BY <1>1, <2>3, <3>1 DEF PromiseInv, ShapeIn
  <2>5. told'[m] = <<r>> /\ \A x \in Callbacks : x # m => told'[x] = told[x]
    BY <1>3 DEF Called
  <2>6. told'[m] # << >> /\ told'[m][1] = r
    BY <2>5
  <2>7. IF r.kind = "plain"
          THEN \A i \in {1, 2} : told'[<<c, i>>] # << >> /\ told'[<<c, i>>][1].kind = "plain"
          ELSE \E i \in {1, 2} : told'[<<c, i>>] # << >> /\ told'[<<c, i>>][1].kind = "rejected"
    <3>1. CASE r.kind = "plain"
      <4>1. \A j \in {1, 2} \ {m[2]} : told[<<c, j>>] # << >> /\ told[<<c, j>>][1].kind = "plain"
        BY <1>6, <3>1 DEF AllAnswered
      <4>2. ASSUME NEW i \in {1, 2}
            PROVE  told'[<<c, i>>] # << >> /\ told'[<<c, i>>][1].kind = "plain"
        <5>1. CASE i = m[2]
          BY <5>1, <1>3, <2>6, <3>1
        <5>2. CASE i # m[2]
          <6>1. <<c, i>> \in Callbacks /\ <<c, i>> # m
            BY <5>2, <1>3 DEF Callbacks
          <6> QED
            BY <6>1, <4>1, <5>2, <2>5
        <5> QED
          BY <5>1, <5>2
      <4> QED
        BY <3>1, <4>2
    <3>2. CASE r.kind # "plain"
      BY <3>2, <2>1, <2>6, <1>3
    <3> QED
      BY <3>1, <3>2
  <2>8. AllTrue(deferred, told)'
    <3> SUFFICES ASSUME NEW d \in Deferreds, deferred'[d].made = "all", deferred'[d].value # Nothing
                 PROVE  /\ deferred'[d].value \in Final
                        /\ IF deferred'[d].value.kind = "plain"
                             THEN \A i \in {1, 2} : told'[<<d, i>>] # << >> /\ told'[<<d, i>>][1].kind = "plain"
                             ELSE \E i \in {1, 2} : told'[<<d, i>>] # << >> /\ told'[<<d, i>>][1].kind = "rejected"
      BY DEF AllTrue
    <3>1. CASE d = c /\ deferred[c].value = Nothing
      BY <3>1, <2>3, <2>7, <1>3
    <3>2. CASE d # c \/ deferred[c].value # Nothing
      <4>1. deferred'[d] = deferred[d]
        BY <3>2, <2>3
      <4> QED
        BY <4>1, <1>4
    <3> QED
      BY <3>1, <3>2
  <2> QED
    BY <2>3, <2>4, <2>8 DEF PromiseInv
<1> QED
  BY <1>5, <1>6

\* The two callbacks of `all' are put where the model puts both at once.
BothKept(p, s, t, c) ==
  [x \in Deferreds |-> p[x] \o ((IF s = Promise(x) THEN <<<<c, 1>>>> ELSE << >>)
                                  \o (IF t = Promise(x) THEN <<<<c, 2>>>> ELSE << >>))]
BothTicks(q, s, t, c) ==
  q \o (IF s.kind = "promise" THEN << >> ELSE <<CallTick(<<c, 1>>, s)>>)
    \o (IF t.kind = "promise" THEN << >> ELSE <<CallTick(<<c, 2>>, t)>>)

LEMMA AllIs ==
  ASSUME NEW c \in Deferreds, NEW s \in Refs, NEW t \in Refs, NEW p \in [Deferreds -> Seq(Callbacks)],
         NEW q \in Seq(Tick)
  PROVE  /\ BothKept(p, s, t, c) = AttachedKept(AttachedKept(p, s, <<<<c, 1>>>>), t, <<<<c, 2>>>>)
         /\ BothTicks(q, s, t, c) = AttachedTicks(AttachedTicks(q, s, <<<<c, 1>>>>), t, <<<<c, 2>>>>)
<1> DEFINE a == <<c, 1>>  b == <<c, 2>>
<1>1. a \in Callbacks /\ b \in Callbacks
  BY DEF Callbacks
<1> HIDE DEF a, b
<1>2. /\ <<a>> \in Seq(Callbacks) /\ <<b>> \in Seq(Callbacks)
      /\ \A x \in Deferreds : p[x] \in Seq(Callbacks)
  BY <1>1
<1>3. \A x \in Deferreds : /\ s = Promise(x) <=> s.kind = "promise" /\ s.of = x
                           /\ t = Promise(x) <=> t.kind = "promise" /\ t.of = x
  BY RefFacts
<1>4. AttachedKept(AttachedKept(p, s, <<a>>), t, <<b>>)
        = [x \in Deferreds |->
             p[x] \o ((IF s = Promise(x) THEN <<a>> ELSE << >>)
                        \o (IF t = Promise(x) THEN <<b>> ELSE << >>))]
  <2> DEFINE p1 == AttachedKept(p, s, <<a>>)  p2 == AttachedKept(p1, t, <<b>>)
  <2>1. /\ p1 \in [Deferreds -> Seq(Callbacks)]
        /\ \A x \in Deferreds : p1[x] = IF s = Promise(x) THEN p[x] \o <<a>> ELSE p[x]
    <3>1. CASE s.kind = "promise"
      <4>1. p1 = [p EXCEPT ![s.of] = @ \o <<a>>] /\ s.of \in Deferreds
        BY <3>1, RefFacts DEF AttachedKept
      <4>2. p[s.of] \o <<a>> \in Seq(Callbacks)
        BY <4>1, <1>2
      <4> QED
        BY <4>1, <4>2, <3>1, <1>3
    <3>2. CASE s.kind # "promise"
      BY <3>2, <1>3 DEF AttachedKept
    <3> QED
      BY <3>1, <3>2
  <2> HIDE DEF p1
  <2>2. /\ p2 \in [Deferreds -> Seq(Callbacks)]
        /\ \A x \in Deferreds : p2[x] = IF t = Promise(x) THEN p1[x] \o <<b>> ELSE p1[x]
    <3>1. CASE t.kind = "promise"
      <4>1. p2 = [p1 EXCEPT ![t.of] = @ \o <<b>>] /\ t.of \in Deferreds
        BY <3>1, RefFacts DEF AttachedKept
      <4>2. p1[t.of] \o <<b>> \in Seq(Callbacks)
        BY <4>1, <1>2, <2>1
      <4> QED
        BY <4>1, <4>2, <3>1, <1>3, <2>1
    <3>2. CASE t.kind # "promise"
      BY <3>2, <1>3, <2>1 DEF AttachedKept
    <3> QED
      BY <3>1, <3>2
  <2> HIDE DEF p2
  <2>3. ASSUME NEW x \in Deferreds
        PROVE  p2[x] = p[x] \o ((IF s = Promise(x) THEN <<a>> ELSE << >>)
                                  \o (IF t = Promise(x) THEN <<b>> ELSE << >>))
    <3>1. /\ p[x] \o (<<a>> \o <<b>>) = (p[x] \o <<a>>) \o <<b>>
          /\ p[x] \o (<<a>> \o << >>) = p[x] \o <<a>>
          /\ p[x] \o (<< >> \o <<b>>) = p[x] \o <<b>>
          /\ p[x] \o (<< >> \o << >>) = p[x]
      BY <1>2
    <3> QED
      BY <3>1, <2>1, <2>2
  <2> QED
    BY <2>2, <2>3 DEF p1, p2
<1>5. AttachedTicks(AttachedTicks(q, s, <<a>>), t, <<b>>)
        = q \o (IF s.kind = "promise" THEN << >> ELSE <<CallTick(a, s)>>)
            \o (IF t.kind = "promise" THEN << >> ELSE <<CallTick(b, t)>>)
  <2>1. CallTick(a, s) \in Tick /\ CallTick(b, t) \in Tick
    BY <1>1, CallFacts
  <2>2. Calls(<<a>>, s) = <<CallTick(a, s)>> /\ Calls(<<b>>, t) = <<CallTick(b, t)>>
    BY DEF Calls
  <2>3. q \o << >> = q /\ (q \o <<CallTick(a, s)>>) \o << >> = q \o <<CallTick(a, s)>>
    BY <2>1
  <2> QED
    BY <2>2, <2>3 DEF AttachedTicks
<1> QED
  BY <1>4, <1>5 DEF a, b, BothKept, BothTicks

LEMMA AllStep ==
  ASSUME PromiseConstants, PromiseInv, NEW c \in Deferreds, NEW d \in Deferreds, NEW e \in Deferreds,
         All(c, d, e)
  PROVE  PromiseInv'
<1>1. /\ Typed(deferred, pending, ticks, on, told) /\ Placed(deferred, pending, ticks, on, told, {})
      /\ deferred[c].value = Nothing /\ on[c] = << >> /\ on \in [Deferreds -> Seq(Deferreds)]
      /\ deferred \in [Deferreds -> Deferred] /\ pending \in [Deferreds -> Seq(Callbacks)]
      /\ ticks \in Seq(Tick)
  BY DEF PromiseInv, ShapeIn, Typed, All, New, Exists
<1> DEFINE s == <<d, e>>  a == <<c, 1>>  b == <<c, 2>>  H == {a, b}
           S == TargetIn(deferred, Promise(d))  T == TargetIn(deferred, Promise(e))
           p1 == AttachedKept(pending, S, <<a>>)  q1 == AttachedTicks(ticks, S, <<a>>)
           p2 == AttachedKept(p1, T, <<b>>)       q2 == AttachedTicks(q1, T, <<b>>)
<1>2. s \in Seq(Deferreds) /\ Len(s) = 2 /\ DOMAIN s = {1, 2} /\ s[1] = d /\ s[2] = e
  OBVIOUS
<1>3. /\ a \in Callbacks /\ a[1] = c /\ a[2] = 1 /\ b \in Callbacks /\ b[1] = c /\ b[2] = 2 /\ a # b
      /\ \A x \in Callbacks : x[1] = c /\ x[2] \in {1, 2} => x = a \/ x = b
  BY DEF Callbacks
<1>4. deferred' = [deferred EXCEPT ![c] = Unresolved("all")] /\ on' = [on EXCEPT ![c] = s] /\ told' = told
  BY DEF All
<1>5. Promise(d) \in Refs /\ Promise(e) \in Refs
  BY RefFacts
<1>6. S \in Refs /\ T \in Refs
  BY <1>1, <1>5, TargetIs DEF Typed
<1>7. pending' = p2 /\ ticks' = q2
  <2>1. Target(Promise(d)) = S /\ Target(Promise(e)) = T
    BY <1>5, TargetNow
  <2>2. pending' = [x \in Deferreds |->
                      pending[x] \o ((IF S = Promise(x) THEN <<a>> ELSE << >>)
                                       \o (IF T = Promise(x) THEN <<b>> ELSE << >>))]
    <3> DEFINE put == [x \in Deferreds |-> (IF S = Promise(x) THEN <<a>> ELSE << >>)
                                             \o (IF T = Promise(x) THEN <<b>> ELSE << >>)]
    <3>1. pending' = [x \in Deferreds |-> pending[x] \o put[x]]
      BY <2>1 DEF All
    <3> QED
      BY <3>1
  <2>3. ticks' = ticks \o (IF S.kind = "promise" THEN << >> ELSE <<CallTick(a, S)>>)
                       \o (IF T.kind = "promise" THEN << >> ELSE <<CallTick(b, T)>>)
    BY <2>1 DEF All
  <2>4. pending' = BothKept(pending, S, T, c) /\ ticks' = BothTicks(ticks, S, T, c)
    BY <2>2, <2>3 DEF BothKept, BothTicks
  <2> HIDE DEF S, T
  <2>5. /\ BothKept(pending, S, T, c) = p2
        /\ BothTicks(ticks, S, T, c) = q2
    BY <1>1, <1>6, AllIs
  <2> QED
    BY <2>4, <2>5
<1> HIDE DEF s, a, b
<1>8. Makes(deferred, deferred', on, on', c, "all", s) /\ Hands(H, c, s)
  BY <1>2, <1>3, <1>4 DEF Makes, Hands
<1>9. /\ Typed(deferred', pending, ticks, on', told) /\ Placed(deferred', pending, ticks, on', told, H)
      /\ SameTargets(deferred, deferred')
      /\ \A x \in H : x \in Callbacks => InHand(deferred', pending, ticks, on', told, x, Promise(s[x[2]]))
  <2>1. "all" \in {"page", "then", "all"}
    OBVIOUS
  <2> HIDE DEF H
  <2> QED
    BY <2>1, <1>1, <1>2, <1>8, MakeKeeps
<1>10. /\ InHand(deferred', pending, ticks, on', told, a, Promise(d))
       /\ InHand(deferred', pending, ticks, on', told, b, Promise(e))
  <2>1. Promise(s[a[2]]) = Promise(d) /\ Promise(s[b[2]]) = Promise(e)
    BY <1>2, <1>3
  <2> QED
    BY <2>1, <1>3, <1>9
<1>11. S = TargetIn(deferred', Promise(d)) /\ T = TargetIn(deferred', Promise(e))
  BY <1>5, <1>9 DEF SameTargets
<1>12. /\ <<a>> \in Seq(Callbacks) /\ Distinct(<<a>>) /\ \A x \in Callbacks : Holds(<<a>>, x) <=> x = a
       /\ <<b>> \in Seq(Callbacks) /\ Distinct(<<b>>) /\ \A x \in Callbacks : Holds(<<b>>, x) <=> x = b
  BY <1>3 DEF Distinct, Holds
<1> HIDE DEF S, T
<1>13. /\ Typed(deferred', p1, q1, on', told) /\ Placed(deferred', p1, q1, on', told, {b})
       /\ \A x \in Callbacks : Kept(p1, x) => Kept(pending, x) \/ x = a
       /\ \A x \in Callbacks : InTicks(q1, x) => InTicks(ticks, x) \/ x = a
  <2>1. \A x \in Callbacks : x \in H => x \in {b} \/ Holds(<<a>>, x)
    BY <1>3, <1>12
  <2>2. \A x \in Callbacks : Holds(<<a>>, x) => InHand(deferred', pending, ticks, on', told, x, Promise(d))
    BY <1>10, <1>12
  <2> HIDE DEF H
  <2> DEFINE B == {b}
  <2>3. \A x \in Callbacks : x \in H => x \in B \/ Holds(<<a>>, x)
    BY <2>1
  <2> HIDE DEF B
  <2>4. /\ Typed(deferred', p1, q1, on', told) /\ Placed(deferred', p1, q1, on', told, B)
        /\ \A x \in Callbacks : Kept(p1, x) => Kept(pending, x) \/ Holds(<<a>>, x)
        /\ \A x \in Callbacks : InTicks(q1, x) => InTicks(ticks, x) \/ Holds(<<a>>, x)
    BY <2>2, <2>3, <1>5, <1>9, <1>11, <1>12, AttachKeeps
  <2> QED
    BY <2>4, <1>12 DEF B
<1>14. InHand(deferred', p1, q1, on', told, b, Promise(e))
  BY <1>3, <1>10, <1>13 DEF InHand
<1> HIDE DEF p1, q1
<1>15. Typed(deferred', p2, q2, on', told) /\ Placed(deferred', p2, q2, on', told, {})
  <2>1. \A x \in Callbacks : Holds(<<b>>, x) => InHand(deferred', p1, q1, on', told, x, Promise(e))
    BY <1>12, <1>14
  <2> DEFINE B == {b}
  <2>2. \A x \in Callbacks : x \in B => x \in {} \/ Holds(<<b>>, x)
    BY <1>12
  <2>3. Placed(deferred', p1, q1, on', told, B)
    BY <1>13
  <2> HIDE DEF B
  <2> QED
    BY <2>1, <2>2, <2>3, <1>5, <1>11, <1>12, <1>13, AttachKeeps
<1>16. ShapeIn(deferred, on)' /\ AllTrue(deferred, told)'
  BY <1>1, <1>2, <1>4, ShapeMade DEF PromiseInv
<1> QED
  BY <1>4, <1>7, <1>15, <1>16 DEF PromiseInv

-----------------------------------------------------------------------------
LEMMA PromiseStep ==
  ASSUME PromiseConstants, PromiseInv, [PromiseNext]_promiseVars
  PROVE  PromiseInv'
<1>1. ASSUME NEW d \in Deferreds, Defer(d) PROVE PromiseInv'
  BY <1>1, DeferStep
<1>2. ASSUME NEW d \in Deferreds, NEW r \in Refs, Resolve(d, r) PROVE PromiseInv'
  BY <1>2, ResolveStep
<1>3. ASSUME NEW d \in Deferreds, NEW c \in Deferreds, Then(d, c) PROVE PromiseInv'
  BY <1>3, ThenStep
<1>4. ASSUME NEW d \in Deferreds, NEW c \in Deferreds, NEW e \in Deferreds, All(d, c, e) PROVE PromiseInv'
  BY <1>4, AllStep
<1>5. CASE DrainTick
  BY <1>5, DrainStep
<1>6. CASE CallThen
  BY <1>6, CallThenStep
<1>7. CASE CallAll
  BY <1>7, CallAllStep
<1>8. CASE UNCHANGED promiseVars
  BY <1>8 DEF promiseVars, PromiseInv, Typed, Placed, KeptTrue, TicksTrue, ToldTrue, Apart, Somewhere,
              ShapeIn, AllTrue
<1> QED
  BY <1>1, <1>2, <1>3, <1>4, <1>5, <1>6, <1>7, <1>8 DEF PromiseNext

LEMMA InvKeepsPromises ==
  ASSUME PromiseConstants, PromiseInv
  PROVE  PromisesKept
<1>1. /\ on \in [Deferreds -> Seq(Deferreds)] /\ EndsIn(deferred) /\ ShapeIn(deferred, on)
      /\ ToldTrue(deferred, on, told) /\ KeptTrue(deferred, pending, on)
      /\ Somewhere(pending, ticks, on, told, {}) /\ deferred \in [Deferreds -> Deferred]
  BY DEF PromiseInv, Typed, Placed
<1>2. ASSUME NEW c \in Deferreds, NEW i \in {1, 2}
      PROVE  <<c, i>> \in Callbacks /\ <<c, i>>[1] = c /\ <<c, i>>[2] = i
  BY DEF Callbacks
<1>3. ASSUME NEW c \in Deferreds, NEW i \in {1, 2}, i \in DOMAIN on[c]
      PROVE  WaitsIn(on, <<c, i>>) /\ EndOf(deferred, on, <<c, i>>) = Target(Promise(on[c][i]))
  <2>1. WaitsIn(on, <<c, i>>)
    BY <1>3 DEF WaitsIn
  <2>2. Promise(on[c][i]) \in Refs
    BY <2>1, <1>1, <1>2, WaitTyped
  <2> QED
    BY <2>1, <2>2, TargetNow DEF EndOf
<1>4. ASSUME NEW c \in Deferreds, NEW i \in {1, 2}, told[<<c, i>>] # << >>
      PROVE  told[<<c, i>>] = <<Target(Promise(on[c][i]))>>
  <2>1. WaitsIn(on, <<c, i>>) /\ told[<<c, i>>] = <<EndOf(deferred, on, <<c, i>>)>>
    BY <1>1, <1>2, <1>4 DEF ToldTrue
  <2>2. i \in DOMAIN on[c]
    BY <2>1 DEF WaitsIn
  <2> QED
    BY <2>1, <2>2, <1>3
<1>5. ToldTruth
  BY <1>4 DEF ToldTruth
<1>6. ASSUME ticks = << >>, NEW c \in Deferreds, NEW i \in DOMAIN on[c],
             Target(Promise(on[c][i])).kind # "promise"
      PROVE  told[<<c, i>>] # << >>
  <2>1. i \in {1, 2}
    <3>1. /\ deferred[c].made \in {"no", "page", "then", "all"} /\ on[c] \in Seq(Deferreds)
          /\ deferred[c].made \in {"no", "page"} => on[c] = << >>
          /\ deferred[c].made = "then" => Len(on[c]) = 1
          /\ deferred[c].made = "all" => Len(on[c]) = 2
      BY <1>1 DEF ShapeIn, Deferred
    <3>2. on[c] = << >> \/ Len(on[c]) = 1 \/ Len(on[c]) = 2
      BY <3>1
    <3> QED
      BY <3>1, <3>2
  <2>2. WaitsIn(on, <<c, i>>) /\ EndOf(deferred, on, <<c, i>>) = Target(Promise(on[c][i]))
    BY <2>1, <1>3
  <2>3. ~InTicks(ticks, <<c, i>>)
    BY <1>6 DEF InTicks
  <2>4. ASSUME NEW d \in Deferreds, Holds(pending[d], <<c, i>>)
        PROVE  FALSE
    <3>1. EndOf(deferred, on, <<c, i>>) = Promise(d)
      BY <1>1, <1>2, <2>1, <2>4 DEF KeptTrue
    <3>2. Promise(d).kind = "promise"
      BY RefFacts
    <3> QED
      BY <3>1, <3>2, <2>2, <1>6
  <2> QED
    BY <2>1, <2>2, <2>3, <2>4, <1>1, <1>2 DEF Somewhere, Kept
<1>7. NobodyForgotten
  BY <1>6 DEF NobodyForgotten
<1>8. AllWaits
  <2>1. ASSUME NEW c \in Deferreds, NEW i \in {1, 2}, told[<<c, i>>] # << >>
        PROVE  told[<<c, i>>][1].kind = Target(Promise(on[c][i])).kind
    <3> DEFINE t == Target(Promise(on[c][i]))
    <3>1. told[<<c, i>>] = <<t>>
      BY <1>4, <2>1
    <3> HIDE DEF t
    <3>2. told[<<c, i>>][1].kind = t.kind
      BY <3>1
    <3> QED
      BY <3>2 DEF t
  <2> QED
    BY <2>1 DEF AllWaits, AllTrue, PromiseInv
<1> QED
  BY <1>5, <1>7, <1>8 DEF PromisesKept

\* Whatever number of promises are made, resolved with one another and waited for, by
\* `then' and by `all', a callback is told once what its promise came to, nobody is
\* forgotten, and `all' waits for each of its promises.
THEOREM CallbacksAreKept ==
  ASSUME PromiseConstants
  PROVE  PromiseSpec => []PromisesKept
<1>1. PromiseInit => PromiseInv
  BY PromiseStart
<1>2. PromiseInv /\ [PromiseNext]_promiseVars => PromiseInv'
  BY PromiseStep
<1>3. PromiseInv => PromisesKept
  BY InvKeepsPromises
<1> QED
  BY <1>1, <1>2, <1>3, PTL DEF PromiseSpec

-----------------------------------------------------------------------------
(* The caches implement Recency.  An order s of the keys is the witness for the    *)
(* pointers: the lemmas say what each operation on the pointers makes of it        *)
(* (`Linked'), and that a list has only one.                                       *)

\* A set of numbers that is not empty has a least one.
LEMMA LeastElement ==
  ASSUME NEW T, T \subseteq Nat, T # {}
  PROVE  \E m \in T : \A n \in T : m <= n
<1> DEFINE R == OpToRel(<, Nat)
<1>1. IsWellFoundedOn(R, Nat)
  BY NatLessThanWellFounded
<1>2. \E x \in T : \A y \in T : ~(<<y, x>> \in R)
  <2> HIDE DEF R
  <2> QED BY <1>1, WFMin
<1>3. ASSUME NEW x \in T, NEW y \in T, ~(<<y, x>> \in R)
      PROVE  x <= y
  BY <1>3 DEF OpToRel
<1> QED
  BY <1>2, <1>3, Zenon

\* What an order of the entries says, place by place.
LEMMA LinkedFacts ==
  ASSUME NEW S, NEW l, NEW s \in Seq(S), Linked(l, s)
  PROVE  /\ Len(s) \in Nat /\ DOMAIN s = 1..Len(s)
         /\ \A i \in 1..Len(s) : s[i] \in S
         /\ \A i, j \in 1..Len(s) : s[i] = s[j] => i = j
         /\ l.entries = {s[i] : i \in 1..Len(s)}
         /\ Len(s) = 0 => s = << >> /\ l.stale = None /\ l.fresh = None
         /\ Len(s) # 0 => s # << >> /\ l.stale = s[1] /\ l.fresh = s[Len(s)]
                         /\ l.p[s[1]] = None /\ l.n[s[Len(s)]] = None
         /\ \A i \in 1..(Len(s) - 1) : l.p[s[i + 1]] = s[i] /\ l.n[s[i]] = s[i + 1]
<1>1. Len(s) \in Nat /\ DOMAIN s = 1..Len(s) /\ \A i \in 1..Len(s) : s[i] \in S
  OBVIOUS
<1>2. Len(s) = 0 <=> s = << >>
  OBVIOUS
<1>3. ASSUME NEW i \in 1..(Len(s) - 1)
      PROVE  l.p[s[i + 1]] = s[i] /\ l.n[s[i]] = s[i + 1]
  <2>0. Len(s) \in Nat
    OBVIOUS
  <2>1. i \in 1..Len(s) /\ i + 1 \in 1..Len(s) /\ i # Len(s) /\ i + 1 # 1 /\ (i + 1) - 1 = i
    BY <2>0
  <2> QED
    BY <2>1, <1>1 DEF Linked
<1>4. Len(s) # 0 => 1 \in DOMAIN s /\ Len(s) \in DOMAIN s
  BY <1>1
<1> QED
  BY <1>1, <1>2, <1>3, <1>4 DEF Linked

\* The pointers allow one order: at the least place where two differ they would
\* agree.
LEMMA Unique ==
  ASSUME NEW S, NEW l, NEW s \in Seq(S), NEW t \in Seq(S), Linked(l, s), Linked(l, t), None \notin S
  PROVE  s = t
<1> DEFINE Facts(u) ==
         /\ Len(u) \in Nat /\ DOMAIN u = 1..Len(u)
         /\ \A i \in 1..Len(u) : u[i] \in S
         /\ Len(u) = 0 => l.stale = None
         /\ Len(u) # 0 => l.stale = u[1] /\ l.n[u[Len(u)]] = None
         /\ \A i \in 1..(Len(u) - 1) : l.n[u[i]] = u[i + 1]
<1>s. Facts(s) BY LinkedFacts
<1>t. Facts(t) BY LinkedFacts
<1> DEFINE Differ == {i \in Nat : i \in 1..Len(s) /\ i \in 1..Len(t) /\ s[i] # t[i]}
<1>1. Differ = {}
  <2> SUFFICES ASSUME Differ # {} PROVE FALSE
    OBVIOUS
  <2>1. PICK m \in Differ : \A n \in Differ : m <= n
    BY LeastElement
  <2>2. m # 1
    BY <2>1, <1>s, <1>t
  <2>3. s[m - 1] = t[m - 1] /\ m - 1 \in 1..(Len(s) - 1) /\ m - 1 \in 1..(Len(t) - 1) /\ (m - 1) + 1 = m
    BY <2>1, <2>2, <1>s, <1>t
  <2> QED
    BY <2>1, <2>3, <1>s, <1>t
<1>2. \A i \in 1..Len(s) : i \in 1..Len(t) => s[i] = t[i]
  BY <1>1, <1>s
<1>3. ASSUME NEW u \in Seq(S), NEW v \in Seq(S), Facts(u), Facts(v), Len(u) < Len(v),
             \A i \in 1..Len(u) : u[i] = v[i]
      PROVE  FALSE
  <2>1. CASE Len(u) = 0
    <3>1. 1 \in 1..Len(v) /\ Len(v) # 0 BY <1>3, <2>1
    <3> QED BY <1>3, <2>1, <3>1
  <2>2. CASE Len(u) # 0
    <3>1. Len(u) \in 1..Len(u) /\ Len(u) \in 1..(Len(v) - 1) /\ Len(u) + 1 \in 1..Len(v)
      BY <1>3, <2>2
    <3> QED
      BY <1>3, <3>1, <2>2
  <2> QED BY <2>1, <2>2
<1>4. Len(s) = Len(t)
  <2> HIDE DEF Facts, Differ
  <2>1. ~(Len(s) < Len(t))
    BY <1>2, <1>3, <1>s, <1>t DEF Facts
  <2>2. ~(Len(t) < Len(s))
    <3> SUFFICES ASSUME Len(t) < Len(s) PROVE FALSE
      OBVIOUS
    <3>1. \A i \in 1..Len(t) : t[i] = s[i]
      BY <1>2, <1>s, <1>t DEF Facts
    <3> QED
      BY <3>1, <1>3, <1>s, <1>t
  <2>3. Len(s) \in Nat /\ Len(t) \in Nat
    OBVIOUS
  <2> QED
    BY <2>1, <2>2, <2>3
<1> QED
  BY <1>2, <1>4, <1>s, <1>t, SeqEqual

Lists == [entries : SUBSET CacheKeys, p : [CacheKeys -> CacheKeys \cup {None}],
          n : [CacheKeys -> CacheKeys \cup {None}],
          fresh : CacheKeys \cup {None}, stale : CacheKeys \cup {None}]

Cut(s, i) == SubSeq(s, 1, i - 1) \o SubSeq(s, i + 1, Len(s))

\* An order without the one at place i.
LEMMA CutFacts ==
  ASSUME NEW S, NEW s \in Seq(S), NEW i \in 1..Len(s)
  PROVE  /\ Cut(s, i) \in Seq(S) /\ Len(Cut(s, i)) = Len(s) - 1
         /\ \A j \in 1..(Len(s) - 1) : Cut(s, i)[j] = IF j < i THEN s[j] ELSE s[j + 1]
<1> DEFINE a == SubSeq(s, 1, i - 1)
           b == SubSeq(s, i + 1, Len(s))
<1>0. Len(s) \in Nat /\ i \in Nat /\ 1 <= i /\ i <= Len(s)
  OBVIOUS
<1>1. a \in Seq(S) /\ Len(a) = i - 1 /\ \A j \in 1..(i - 1) : a[j] = s[j]
  BY <1>0, SubSeqProperties
<1>2. b \in Seq(S) /\ Len(b) = Len(s) - i /\ \A j \in 1..(Len(s) - i) : b[j] = s[i + j]
  BY <1>0, SubSeqProperties
<1> HIDE DEF a, b
<1>3. /\ a \o b \in Seq(S) /\ Len(a \o b) = Len(a) + Len(b)
      /\ \A j \in 1..(Len(a) + Len(b)) : (a \o b)[j] = IF j <= Len(a) THEN a[j] ELSE b[j - Len(a)]
  BY <1>1, <1>2, ConcatProperties
<1>4. ASSUME NEW j \in 1..(Len(s) - 1)
      PROVE  (a \o b)[j] = IF j < i THEN s[j] ELSE s[j + 1]
  <2>1. CASE j < i
    BY <2>1, <1>0, <1>1, <1>2, <1>3
  <2>2. CASE ~(j < i)
    <3>1. j - Len(a) \in 1..(Len(s) - i) /\ i + (j - Len(a)) = j + 1 /\ ~(j <= Len(a))
      BY <2>2, <1>0, <1>1
    <3>2. j \in 1..(Len(a) + Len(b))
      BY <1>0, <1>1, <1>2
    <3> QED
      BY <3>1, <3>2, <2>2, <1>2, <1>3
  <2> QED
    BY <2>1, <2>2
<1>5. Cut(s, i) = a \o b
  BY DEF Cut, a, b
<1>6. Len(a) + Len(b) = Len(s) - 1
  BY <1>0, <1>1, <1>2
<1>7. a \o b \in Seq(S) /\ Len(a \o b) = Len(s) - 1
  BY <1>3, <1>6
<1> QED
  BY <1>4, <1>5, <1>7, Zenon

\* The list m is l with `next' and `prev' made neighbours.
Joined(l, m, next, prev) ==
  /\ m \in Lists /\ m.entries = l.entries /\ m.fresh = l.fresh /\ m.stale = l.stale
  /\ \A k \in CacheKeys : /\ m.p[k] = IF k = next THEN prev ELSE l.p[k]
                    /\ m.n[k] = IF k = prev THEN next ELSE l.n[k]

\* What `link' writes: a pointer of either neighbour, if there is one.
LEMMA LinkFields ==
  ASSUME NEW l \in Lists, NEW next \in CacheKeys \cup {None}, NEW prev \in CacheKeys \cup {None},
         None \notin CacheKeys, next = prev => next = None
  PROVE  Joined(l, Link(l, next, prev), next, prev)
<1>1. CASE next = prev
  BY <1>1 DEF Lists, Link, Joined
<1>2. CASE next # prev
  <2> DEFINE pp == IF next = None THEN l.p ELSE [l.p EXCEPT ![next] = prev]
             nn == IF prev = None THEN l.n ELSE [l.n EXCEPT ![prev] = next]
  <2>1. Link(l, next, prev) = [l EXCEPT !.p = pp, !.n = nn]
    BY <1>2 DEF Link
  <2>2. pp \in [CacheKeys -> CacheKeys \cup {None}] /\ \A k \in CacheKeys : pp[k] = IF k = next THEN prev ELSE l.p[k]
    BY DEF Lists
  <2>3. nn \in [CacheKeys -> CacheKeys \cup {None}] /\ \A k \in CacheKeys : nn[k] = IF k = prev THEN next ELSE l.n[k]
    BY DEF Lists
  <2> HIDE DEF pp, nn
  <2> QED
    BY <2>1, <2>2, <2>3 DEF Lists, Joined
<1> QED
  BY <1>1, <1>2

\* The pointers of a list give it an order.
LEMMA LinkedBy ==
  ASSUME NEW S, NEW l, NEW s \in Seq(S),
         \A i, j \in 1..Len(s) : s[i] = s[j] => i = j,
         l.entries = {s[i] : i \in 1..Len(s)},
         Len(s) = 0 => l.stale = None /\ l.fresh = None,
         Len(s) # 0 => l.stale = s[1] /\ l.fresh = s[Len(s)] /\ l.p[s[1]] = None /\ l.n[s[Len(s)]] = None,
         \A i \in 1..(Len(s) - 1) : l.p[s[i + 1]] = s[i] /\ l.n[s[i]] = s[i + 1]
  PROVE  Linked(l, s)
<1>1. Len(s) \in Nat
  OBVIOUS
<1>2. DOMAIN s = 1..Len(s) /\ (Len(s) = 0 <=> s = << >>)
  OBVIOUS
<1>3. ASSUME NEW i \in 1..Len(s)
      PROVE  l.p[s[i]] = IF i = 1 THEN None ELSE s[i - 1]
  <2>1. CASE i = 1
    <3>1. Len(s) # 0 BY <1>1, <1>3
    <3> QED BY <3>1, <2>1
  <2>2. CASE i # 1
    <3>1. i - 1 \in 1..(Len(s) - 1) /\ (i - 1) + 1 = i BY <1>1, <1>3, <2>2
    <3> QED BY <3>1, <2>2
  <2> QED BY <2>1, <2>2
<1>4. ASSUME NEW i \in 1..Len(s)
      PROVE  l.n[s[i]] = IF i = Len(s) THEN None ELSE s[i + 1]
  <2>1. CASE i = Len(s)
    <3>1. Len(s) # 0 BY <1>1, <1>4
    <3> QED BY <3>1, <2>1
  <2>2. CASE i # Len(s)
    <3>1. i \in 1..(Len(s) - 1) BY <1>1, <1>4, <2>2
    <3> QED BY <3>1, <2>2
  <2> QED BY <2>1, <2>2
<1> QED
  BY <1>2, <1>3, <1>4 DEF Linked

\* What a list keeps of k when it is linked past it.
Bypassed(l, m, k) ==
  /\ m.fresh = IF l.fresh = k THEN l.p[k] ELSE l.fresh
  /\ m.stale = IF l.stale = k THEN l.n[k] ELSE l.stale
  /\ \A e \in CacheKeys \ {k} : /\ m.p[e] = IF e = l.n[k] THEN l.p[k] ELSE l.p[e]
                             /\ m.n[e] = IF e = l.p[k] THEN l.n[k] ELSE l.n[e]

\* A list that goes past an entry has the order without it.
LEMMA BypassCuts ==
  ASSUME None \notin CacheKeys, NEW l, NEW s \in Seq(CacheKeys), Linked(l, s), NEW i \in 1..Len(s),
         NEW m, Bypassed(l, m, s[i]), m.entries = l.entries \ {s[i]}
  PROVE  Linked(m, Cut(s, i))
<1> DEFINE c == Cut(s, i)
           N == Len(s)
<1>c. c \in Seq(CacheKeys) /\ Len(c) = N - 1 /\ \A j \in 1..(N - 1) : c[j] = IF j < i THEN s[j] ELSE s[j + 1]
  BY CutFacts
<1>s. /\ N \in Nat
      /\ \A j \in 1..N : s[j] \in CacheKeys
      /\ \A g, h \in 1..N : s[g] = s[h] => g = h
      /\ l.entries = {s[j] : j \in 1..N}
      /\ N # 0 => /\ l.stale = s[1] /\ l.fresh = s[N]
                  /\ l.p[s[1]] = None /\ l.n[s[N]] = None
      /\ \A j \in 1..(N - 1) : l.p[s[j + 1]] = s[j] /\ l.n[s[j]] = s[j + 1]
  BY LinkedFacts
<1>i. i \in Nat /\ 1 <= i /\ i <= N
  BY <1>s
<1> HIDE DEF c, N
<1>p. l.p[s[i]] = IF i = 1 THEN None ELSE s[i - 1]
  <2>1. CASE i = 1 BY <2>1, <1>i, <1>s
  <2>2. CASE i # 1
    <3>1. i - 1 \in 1..(N - 1) /\ (i - 1) + 1 = i BY <1>i, <1>s, <2>2
    <3> QED BY <3>1, <2>2, <1>s
  <2> QED BY <2>1, <2>2
<1>n. l.n[s[i]] = IF i = N THEN None ELSE s[i + 1]
  <2>1. CASE i = N BY <2>1, <1>i, <1>s
  <2>2. CASE i # N
    <3>1. i \in 1..(N - 1) BY <1>i, <1>s, <2>2
    <3> QED BY <3>1, <2>2, <1>s
  <2> QED BY <2>1, <2>2
<1>u. ASSUME NEW g \in 1..N, g # i PROVE s[g] # s[i]
  <2>1. i \in 1..N
    BY <1>i, <1>s
  <2>2. \A a, b \in 1..N : s[a] = s[b] => a = b
    BY <1>s
  <2> QED
    BY <2>1, <2>2, <1>u
<1>d. ASSUME NEW g \in 1..N, g # i + 1 PROVE s[g] \in CacheKeys /\ s[g] # l.n[s[i]]
  <2>1. CASE i = N BY <2>1, <1>n, <1>s
  <2>2. CASE i # N
    <3>1. i + 1 \in 1..N BY <2>2, <1>i, <1>s
    <3> QED BY <3>1, <2>2, <1>n, <1>s, <1>d
  <2> QED BY <2>1, <2>2
<1>e. ASSUME NEW g \in 1..N, g # i - 1 PROVE s[g] \in CacheKeys /\ s[g] # l.p[s[i]]
  <2>1. CASE i = 1 BY <2>1, <1>p, <1>s
  <2>2. CASE i # 1
    <3>1. i - 1 \in 1..N BY <2>2, <1>i, <1>s
    <3> QED BY <3>1, <2>2, <1>p, <1>s, <1>e
  <2> QED BY <2>1, <2>2
<1>1. \A g, h \in 1..(N - 1) : c[g] = c[h] => g = h
  BY <1>c, <1>s, <1>i
<1>2. m.entries = {c[j] : j \in 1..(N - 1)}
  <2>1. ASSUME NEW j \in 1..N, j # i PROVE \E g \in 1..(N - 1) : c[g] = s[j]
    <3>1. CASE j < i
      <4>1. j \in 1..(N - 1) BY <3>1, <1>i, <1>s
      <4> QED BY <4>1, <3>1, <1>c
    <3>2. CASE i < j
      <4>1. j - 1 \in 1..(N - 1) /\ ~(j - 1 < i) /\ (j - 1) + 1 = j BY <3>2, <1>i, <1>s
      <4> QED BY <4>1, <1>c
    <3> QED BY <3>1, <3>2, <2>1, <1>i, <1>s
  <2>2. ASSUME NEW g \in 1..(N - 1) PROVE \E j \in 1..N : j # i /\ s[j] = c[g]
    <3>1. CASE g < i
      <4>1. g \in 1..N /\ g # i BY <3>1, <1>i, <1>s
      <4> QED BY <4>1, <3>1, <1>c
    <3>2. CASE ~(g < i)
      <4>1. g + 1 \in 1..N /\ g + 1 # i BY <3>2, <1>i, <1>s
      <4> QED BY <4>1, <3>2, <1>c
    <3> QED BY <3>1, <3>2
  <2>3. ASSUME NEW k PROVE k \in m.entries <=> k \in {c[j] : j \in 1..(N - 1)}
    <3>1. k \in m.entries <=> \E j \in 1..N : k = s[j] /\ j # i
      BY <1>s, <1>i
    <3>2. ASSUME NEW j \in 1..N, k = s[j], j # i PROVE \E g \in 1..(N - 1) : k = c[g]
      BY <3>2, <2>1
    <3>3. ASSUME NEW g \in 1..(N - 1), k = c[g] PROVE \E j \in 1..N : k = s[j] /\ j # i
      BY <3>3, <2>2
    <3> QED
      BY <3>1, <3>2, <3>3
  <2> QED BY <2>3
<1>3. N - 1 = 0 => m.stale = None /\ m.fresh = None
  <2>1. N = 1 => i = 1 BY <1>i, <1>s
  <2> QED BY <2>1, <1>s, <1>p, <1>n, <1>i DEF Bypassed
<1>4. ASSUME N - 1 # 0
      PROVE  m.stale = c[1] /\ m.fresh = c[N - 1] /\ m.p[c[1]] = None /\ m.n[c[N - 1]] = None
  <2>1. CASE i = 1
    <3>1. c[1] = s[2] /\ c[N - 1] = s[N] /\ s[2] \in CacheKeys /\ s[N] \in CacheKeys /\ s[N] # s[1]
      <4>1. 1 \in 1..(N - 1) /\ N - 1 \in 1..(N - 1) /\ ~(1 < 1) /\ ~(N - 1 < 1) /\ (N - 1) + 1 = N
            /\ 2 \in 1..N /\ N \in 1..N /\ N # 1
        BY <1>4, <1>i, <1>s
      <4> QED BY <4>1, <2>1, <1>c, <1>s, <1>i
    <3>2. l.p[s[1]] = None /\ l.n[s[1]] = s[2]
      BY <2>1, <1>p, <1>n, <1>4
    <3>3. N # 0
      BY <1>i, <1>s
    <3> QED BY <3>1, <3>2, <3>3, <2>1, <1>s DEF Bypassed
  <2>2. CASE i # 1 /\ i = N
    <3>1. c[1] = s[1] /\ c[N - 1] = s[N - 1] /\ s[1] \in CacheKeys /\ s[N - 1] \in CacheKeys /\ s[N] # s[1]
      <4>1. 1 \in 1..(N - 1) /\ N - 1 \in 1..(N - 1) /\ 1 < N /\ N - 1 < N
            /\ N - 1 \in 1..N /\ N \in 1..N /\ 1 \in 1..N /\ N # 1
        BY <1>4, <1>i, <1>s
      <4> QED BY <4>1, <2>2, <1>c, <1>s, <1>i
    <3>2. l.n[s[N]] = None /\ l.p[s[N]] = s[N - 1]
      BY <2>2, <1>p, <1>n
    <3>3. N # 0
      BY <1>i, <1>s
    <3> QED BY <3>1, <3>2, <3>3, <2>2, <1>s DEF Bypassed
  <2>3. CASE i # 1 /\ i # N
    <3>1. c[1] = s[1] /\ c[N - 1] = s[N] /\ s[1] \in CacheKeys /\ s[N] \in CacheKeys /\ s[i] # s[1] /\ s[i] # s[N]
      <4>1. 1 \in 1..(N - 1) /\ N - 1 \in 1..(N - 1) /\ 1 < i /\ ~(N - 1 < i) /\ (N - 1) + 1 = N
            /\ N \in 1..N /\ 1 \in 1..N
        BY <1>4, <1>i, <1>s, <2>3
      <4> QED BY <4>1, <2>3, <1>c, <1>s, <1>i, SMTT(60)
    <3>2. l.n[s[i]] = s[i + 1] /\ l.p[s[i]] = s[i - 1] /\ s[i + 1] # s[1] /\ s[i - 1] # s[N]
      <4>1. i + 1 \in 1..N /\ i - 1 \in 1..N /\ i + 1 # 1 /\ i - 1 # N /\ 1 \in 1..N /\ N \in 1..N
        BY <1>i, <1>s, <2>3, SMTT(60)
      <4> QED BY <4>1, <2>3, <1>p, <1>n, <1>s
    <3>3. N # 0
      BY <1>i, <1>s
    <3> QED BY <3>1, <3>2, <3>3, <2>3, <1>s, SMTT(60) DEF Bypassed
  <2> QED BY <2>1, <2>2, <2>3
<1>5. ASSUME NEW j \in 1..((N - 1) - 1)
      PROVE  m.p[c[j + 1]] = c[j] /\ m.n[c[j]] = c[j + 1]
  <2>0. j \in 1..(N - 1) /\ j + 1 \in 1..(N - 1) /\ j \in Nat
    BY <1>s
  <2>1. CASE j + 1 < i
    <3>1. c[j] = s[j] /\ c[j + 1] = s[j + 1]
      <4>1. j < i BY <2>1, <2>0, <1>i
      <4> QED BY <2>0, <2>1, <4>1, <1>c
    <3>2. /\ s[j] \in CacheKeys \ {s[i]} /\ s[j + 1] \in CacheKeys \ {s[i]}
          /\ s[j + 1] # l.n[s[i]] /\ s[j] # l.p[s[i]]
      <4>1. j \in 1..N /\ j + 1 \in 1..N /\ j + 1 # i + 1 /\ j # i - 1 /\ j # i /\ j + 1 # i
        BY <2>0, <2>1, <1>i, <1>s
      <4>2. s[j] # s[i] /\ s[j + 1] # s[i]
        BY <4>1, <1>u
      <4> QED BY <4>1, <4>2, <1>d, <1>e
    <3>3. l.p[s[j + 1]] = s[j] /\ l.n[s[j]] = s[j + 1]
      BY <2>0, <1>s
    <3> QED BY <3>1, <3>2, <3>3 DEF Bypassed
  <2>2. CASE j + 1 = i
    <3>1. c[j] = s[i - 1] /\ c[j + 1] = s[i + 1]
      <4>1. j < i /\ ~(j + 1 < i) /\ j = i - 1 /\ (j + 1) + 1 = i + 1 BY <2>2, <2>0, <1>i
      <4> QED BY <2>0, <2>2, <4>1, <1>c
    <3>2. /\ l.p[s[i]] = s[i - 1] /\ l.n[s[i]] = s[i + 1]
          /\ s[i - 1] \in CacheKeys \ {s[i]} /\ s[i + 1] \in CacheKeys \ {s[i]}
      <4>1. i # 1 /\ i # N /\ i - 1 \in 1..N /\ i + 1 \in 1..N /\ i - 1 # i /\ i + 1 # i
        BY <2>0, <2>2, <1>i, <1>s, SMTT(60)
      <4> QED BY <4>1, <1>p, <1>n, <1>s
    <3> QED BY <3>1, <3>2 DEF Bypassed
  <2>3. CASE i < j + 1
    <3>1. c[j] = s[j + 1] /\ c[j + 1] = s[(j + 1) + 1]
      <4>1. ~(j < i) /\ ~(j + 1 < i) BY <2>3, <2>0, <1>i
      <4> QED BY <2>0, <4>1, <1>c
    <3>2. /\ s[(j + 1) + 1] # l.n[s[i]] /\ s[j + 1] # l.p[s[i]]
          /\ s[j + 1] \in CacheKeys \ {s[i]} /\ s[(j + 1) + 1] \in CacheKeys \ {s[i]}
      <4>1. /\ j + 1 \in 1..N /\ (j + 1) + 1 \in 1..N /\ (j + 1) + 1 # i + 1 /\ j + 1 # i - 1
            /\ j + 1 # i /\ (j + 1) + 1 # i
        BY <2>0, <2>3, <1>i, <1>s
      <4>2. s[j + 1] # s[i] /\ s[(j + 1) + 1] # s[i]
        BY <4>1, <1>u
      <4> QED BY <4>1, <4>2, <1>d, <1>e
    <3>3. l.p[s[(j + 1) + 1]] = s[j + 1] /\ l.n[s[j + 1]] = s[(j + 1) + 1]
      <4>1. j + 1 \in 1..(N - 1) BY <2>0
      <4> QED BY <4>1, <1>s
    <3> QED BY <3>1, <3>2, <3>3 DEF Bypassed
  <2> QED BY <2>1, <2>2, <2>3, <2>0, <1>i
<1>6. c \in Seq(CacheKeys) /\ Len(c) = N - 1
  BY <1>c
<1>7. Linked(m, c)
  <2>1. \A g, h \in 1..Len(c) : c[g] = c[h] => g = h
    BY <1>1, <1>6
  <2>2. m.entries = {c[j] : j \in 1..Len(c)}
    BY <1>2, <1>6
  <2>3. Len(c) = 0 => m.stale = None /\ m.fresh = None
    BY <1>3, <1>6
  <2>4. Len(c) # 0 => m.stale = c[1] /\ m.fresh = c[Len(c)] /\ m.p[c[1]] = None /\ m.n[c[Len(c)]] = None
    BY <1>4, <1>6
  <2>5. \A j \in 1..(Len(c) - 1) : m.p[c[j + 1]] = c[j] /\ m.n[c[j]] = c[j + 1]
    BY <1>5, <1>6
  <2> QED
    BY <2>1, <2>2, <2>3, <2>4, <2>5, <1>6, LinkedBy, Zenon
<1> QED
  BY <1>7 DEF c

\* An entry that is put before the fresh end is the last of the order.
LEMMA FreshEnd ==
  ASSUME None \notin CacheKeys, NEW l, NEW c \in Seq(CacheKeys), Linked(l, c), NEW k \in CacheKeys \ l.entries,
         NEW r, r.entries = l.entries \cup {k}, r.fresh = k,
         r.stale = IF l.stale = None THEN k ELSE l.stale,
         \A e \in CacheKeys : /\ r.p[e] = IF e = k THEN l.fresh ELSE l.p[e]
                         /\ r.n[e] = IF e = k THEN None ELSE IF e = l.fresh THEN k ELSE l.n[e]
  PROVE  Linked(r, Append(c, k))
<1> DEFINE N == Len(c)
           d == Append(c, k)
<1>s. /\ N \in Nat
      /\ \A j \in 1..N : c[j] \in CacheKeys
      /\ \A g, h \in 1..N : c[g] = c[h] => g = h
      /\ l.entries = {c[j] : j \in 1..N}
      /\ N = 0 => l.stale = None /\ l.fresh = None
      /\ N # 0 => /\ l.stale = c[1] /\ l.fresh = c[N]
                  /\ l.p[c[1]] = None /\ l.n[c[N]] = None
      /\ \A j \in 1..(N - 1) : l.p[c[j + 1]] = c[j] /\ l.n[c[j]] = c[j + 1]
  BY LinkedFacts
<1>d. d \in Seq(CacheKeys) /\ Len(d) = N + 1 /\ d[N + 1] = k /\ \A j \in 1..N : d[j] = c[j]
  BY AppendProperties
<1> HIDE DEF N, d
<1>k. \A j \in 1..N : c[j] # k
  BY <1>s
<1>j. \A j \in 1..(N + 1) : j \in 1..N \/ j = N + 1
  BY <1>s
<1>1. \A g, h \in 1..Len(d) : d[g] = d[h] => g = h
  BY <1>s, <1>d, <1>k, <1>j
<1>2. r.entries = {d[j] : j \in 1..Len(d)}
  <2>1. N + 1 \in 1..Len(d) /\ \A j \in 1..N : j \in 1..Len(d)
    BY <1>s, <1>d
  <2>2. ASSUME NEW e PROVE e \in r.entries <=> e \in {d[j] : j \in 1..Len(d)}
    <3>1. e \in r.entries <=> e = k \/ \E j \in 1..N : e = c[j]
      BY <1>s
    <3>2. (\E j \in 1..N : e = c[j]) => \E j \in 1..Len(d) : e = d[j]
      BY <2>1, <1>d
    <3>3. ASSUME NEW j \in 1..Len(d), e = d[j] PROVE e = k \/ \E i \in 1..N : e = c[i]
      BY <3>3, <1>j, <1>d
    <3> QED BY <3>1, <3>2, <3>3, <2>1, <1>d
  <2> QED BY <2>2
<1>3. Len(d) # 0
  BY <1>s, <1>d
<1>4. r.stale = d[1] /\ r.fresh = d[Len(d)] /\ r.p[d[1]] = None /\ r.n[d[Len(d)]] = None
  <2>1. CASE N = 0
    <3>1. d[1] = k BY <2>1, <1>d
    <3> QED BY <2>1, <3>1, <1>s, <1>d
  <2>2. CASE N # 0
    <3>1. 1 \in 1..N BY <2>2, <1>s
    <3>2. d[1] = c[1] /\ c[1] \in CacheKeys /\ c[1] # k /\ c[1] # None BY <3>1, <1>d, <1>s, <1>k
    <3> QED BY <2>2, <3>2, <1>s, <1>d
  <2> QED BY <2>1, <2>2
<1>5. ASSUME NEW j \in 1..(Len(d) - 1)
      PROVE  r.p[d[j + 1]] = d[j] /\ r.n[d[j]] = d[j + 1]
  <2>0. j \in 1..N
    BY <1>s, <1>d
  <2>1. CASE j = N
    <3>1. d[j] = c[N] /\ d[j + 1] = k /\ c[N] # k /\ c[N] \in CacheKeys /\ N # 0
      BY <2>0, <2>1, <1>d, <1>k, <1>s
    <3> QED BY <3>1, <1>s
  <2>2. CASE j # N
    <3>1. j \in 1..(N - 1) /\ j + 1 \in 1..N /\ N \in 1..N
      BY <2>0, <2>2, <1>s
    <3>2. /\ d[j] = c[j] /\ d[j + 1] = c[j + 1] /\ c[j] # k /\ c[j + 1] # k
          /\ c[j] \in CacheKeys /\ c[j + 1] \in CacheKeys /\ c[j] # c[N]
      BY <2>0, <2>2, <3>1, <1>d, <1>k, <1>s
    <3>3. l.fresh = c[N]
      BY <3>1, <1>s
    <3>4. l.p[c[j + 1]] = c[j] /\ l.n[c[j]] = c[j + 1]
      BY <3>1, <1>s
    <3> QED BY <3>2, <3>3, <3>4
  <2> QED BY <2>1, <2>2
<1>6. Linked(r, d)
  BY <1>1, <1>2, <1>3, <1>4, <1>5, <1>d, LinkedBy, Zenon
<1> QED
  BY <1>6 DEF d

\* The neighbours of an entry: others than itself, and none at the ends.
LEMMA Neighbours ==
  ASSUME None \notin CacheKeys, NEW l \in Lists, NEW s \in Seq(CacheKeys), Linked(l, s), NEW i \in 1..Len(s)
  PROVE  /\ s[i] \in CacheKeys
         /\ l.n[s[i]] \in CacheKeys \cup {None} /\ l.p[s[i]] \in CacheKeys \cup {None}
         /\ l.n[s[i]] # s[i] /\ l.p[s[i]] # s[i]
         /\ l.n[s[i]] = l.p[s[i]] => l.n[s[i]] = None
         /\ i # Len(s) => l.fresh # s[i] /\ l.n[s[i]] # None
         /\ i = Len(s) => l.fresh = s[i]
<1>s. /\ Len(s) \in Nat
      /\ \A j \in 1..Len(s) : s[j] \in CacheKeys
      /\ \A g, h \in 1..Len(s) : s[g] = s[h] => g = h
      /\ Len(s) # 0 => /\ l.stale = s[1] /\ l.fresh = s[Len(s)]
                  /\ l.p[s[1]] = None /\ l.n[s[Len(s)]] = None
      /\ \A j \in 1..(Len(s) - 1) : l.p[s[j + 1]] = s[j] /\ l.n[s[j]] = s[j + 1]
  BY LinkedFacts, SMTT(60)
<1>1. s[i] \in CacheKeys /\ l.n[s[i]] \in CacheKeys \cup {None} /\ l.p[s[i]] \in CacheKeys \cup {None}
  BY <1>s DEF Lists
<1>2. Len(s) # 0
  BY <1>s
<1>3. CASE i = Len(s)
  <2>1. l.n[s[i]] = None /\ l.fresh = s[i]
    BY <1>s, <1>2, <1>3
  <2>2. l.p[s[i]] # s[i]
    <3>1. CASE i = 1 BY <3>1, <1>s, <1>2, <1>1
    <3>2. CASE i # 1
      <4>1. i - 1 \in 1..(Len(s) - 1) /\ (i - 1) + 1 = i /\ i - 1 \in 1..Len(s) /\ i - 1 # i
        BY <3>2, <1>s
      <4>2. l.p[s[i]] = s[i - 1] BY <4>1, <1>s
      <4> QED BY <4>1, <4>2, <1>s
    <3> QED BY <3>1, <3>2
  <2> QED BY <2>1, <2>2, <1>1, <1>3
<1>4. CASE i # Len(s)
  <2>1. i \in 1..(Len(s) - 1) /\ i + 1 \in 1..Len(s) /\ i + 1 # i /\ Len(s) \in 1..Len(s)
    BY <1>s, <1>4
  <2>2. l.n[s[i]] = s[i + 1] /\ s[i + 1] # s[i] /\ s[i + 1] \in CacheKeys /\ l.fresh # s[i]
    BY <2>1, <1>s, <1>2, <1>4
  <2>3. l.p[s[i]] # s[i] /\ l.p[s[i]] # s[i + 1]
    <3>1. CASE i = 1 BY <3>1, <1>s, <1>2, <1>1, <2>2
    <3>2. CASE i # 1
      <4>1. i - 1 \in 1..(Len(s) - 1) /\ (i - 1) + 1 = i /\ i - 1 \in 1..Len(s) /\ i - 1 # i /\ i - 1 # i + 1
        BY <3>2, <1>s
      <4>2. l.p[s[i]] = s[i - 1] BY <4>1, <1>s
      <4> QED BY <4>1, <4>2, <2>1, <1>s
    <3> QED BY <3>1, <3>2
  <2> QED BY <2>2, <2>3, <1>1, <1>4
<1> QED
  BY <1>3, <1>4

\* `remove' takes one entry out of the order.
LEMMA Unlinking ==
  ASSUME None \notin CacheKeys, NEW l \in Lists, NEW s \in Seq(CacheKeys), Linked(l, s), NEW i \in 1..Len(s)
  PROVE  /\ Unlink(l, s[i]) \in Lists
         /\ Unlink(l, s[i]).entries = l.entries \ {s[i]}
         /\ Linked(Unlink(l, s[i]), Cut(s, i))
<1> DEFINE k == s[i]
           ends == [l EXCEPT !.fresh = IF @ = k THEN l.p[k] ELSE @,
                             !.stale = IF @ = k THEN l.n[k] ELSE @]
           cut  == Link(ends, l.n[k], l.p[k])
           u    == [cut EXCEPT !.entries = @ \ {k}, !.p[k] = None, !.n[k] = None]
<1>0. k \in CacheKeys /\ l.n[k] \in CacheKeys \cup {None} /\ l.p[k] \in CacheKeys \cup {None}
      /\ (l.n[k] = l.p[k] => l.n[k] = None)
  BY Neighbours
<1> HIDE DEF k, ends, cut, u
<1>1. /\ ends \in Lists /\ ends.entries = l.entries /\ ends.p = l.p /\ ends.n = l.n
      /\ ends.fresh = IF l.fresh = k THEN l.p[k] ELSE l.fresh
      /\ ends.stale = IF l.stale = k THEN l.n[k] ELSE l.stale
  BY <1>0 DEF Lists, ends
<1>2. /\ cut \in Lists /\ cut.entries = ends.entries /\ cut.fresh = ends.fresh /\ cut.stale = ends.stale
      /\ \A e \in CacheKeys : /\ cut.p[e] = IF e = l.n[k] THEN l.p[k] ELSE ends.p[e]
                         /\ cut.n[e] = IF e = l.p[k] THEN l.n[k] ELSE ends.n[e]
  <2> DEFINE x == l.n[k]
             y == l.p[k]
  <2>1. ends \in Lists /\ x \in CacheKeys \cup {None} /\ y \in CacheKeys \cup {None} /\ (x = y => x = None)
    BY <1>0, <1>1
  <2>2. cut = Link(ends, x, y)
    BY DEF cut
  <2> HIDE DEF x, y
  <2>3. /\ cut \in Lists /\ cut.entries = ends.entries /\ cut.fresh = ends.fresh /\ cut.stale = ends.stale
        /\ \A e \in CacheKeys : /\ cut.p[e] = IF e = x THEN y ELSE ends.p[e]
                           /\ cut.n[e] = IF e = y THEN x ELSE ends.n[e]
    <3>1. None \notin CacheKeys
      OBVIOUS
    <3>2. Joined(ends, Link(ends, x, y), x, y)
      BY <2>1, <3>1, LinkFields
    <3> QED BY <2>2, <3>2 DEF Joined
  <2> QED
    BY <2>3 DEF x, y
<1>3. /\ u \in Lists /\ u.entries = cut.entries \ {k} /\ u.fresh = cut.fresh /\ u.stale = cut.stale
      /\ \A e \in CacheKeys \ {k} : u.p[e] = cut.p[e] /\ u.n[e] = cut.n[e]
  BY <1>2 DEF Lists, u
<1>4. u = Unlink(l, k)
  BY DEF u, cut, ends, Unlink
<1>5. Bypassed(l, u, k) /\ u.entries = l.entries \ {k}
  BY <1>1, <1>2, <1>3 DEF Bypassed
<1>6. Linked(u, Cut(s, i))
  BY <1>5, BypassCuts DEF k
<1> QED
  BY <1>3, <1>4, <1>5, <1>6 DEF k

\* An order without its last one, and that one again.
LEMMA LastCut ==
  ASSUME NEW S, NEW s \in Seq(S), Len(s) # 0
  PROVE  Append(Cut(s, Len(s)), s[Len(s)]) = s
<1> DEFINE N == Len(s)
           c == Cut(s, N)
           d == Append(c, s[N])
<1>0. N \in Nat /\ N \in 1..N
  OBVIOUS
<1>1. c \in Seq(S) /\ Len(c) = N - 1 /\ \A j \in 1..(N - 1) : c[j] = IF j < N THEN s[j] ELSE s[j + 1]
  BY <1>0, CutFacts
<1>2. s[N] \in S
  BY <1>0
<1> HIDE DEF c
<1>3. d \in Seq(S) /\ Len(d) = Len(c) + 1 /\ d[Len(c) + 1] = s[N] /\ \A j \in 1..Len(c) : d[j] = c[j]
  BY <1>1, <1>2, AppendProperties
<1> HIDE DEF d, N
<1>4. Len(d) = N
  BY <1>0, <1>1, <1>3
<1>5. ASSUME NEW j \in 1..N PROVE d[j] = s[j]
  <2>1. CASE j = N BY <2>1, <1>0, <1>1, <1>3
  <2>2. CASE j # N
    <3>1. j \in 1..(N - 1) /\ j < N /\ j \in 1..Len(c) BY <2>2, <1>0, <1>1
    <3> QED BY <3>1, <1>1, <1>3
  <2> QED BY <2>1, <2>2
<1>6. d = s
  <2>1. Len(d) = Len(s) BY <1>4 DEF N
  <2>2. \A j \in 1..Len(d) : d[j] = s[j] BY <1>4, <1>5
  <2> QED BY <2>1, <2>2, <1>3, SeqEqual
<1> QED BY <1>6 DEF d, c, N

\* `refresh' moves an entry to the fresh end of the order.
LEMMA Refreshing ==
  ASSUME None \notin CacheKeys, NEW l \in Lists, NEW s \in Seq(CacheKeys), Linked(l, s), NEW i \in 1..Len(s)
  PROVE  /\ Refresh(l, s[i]) \in Lists
         /\ Refresh(l, s[i]).entries = l.entries
         /\ Linked(Refresh(l, s[i]), Append(Cut(s, i), s[i]))
<1> DEFINE k == s[i]
           x == l.n[k]
           y == l.p[k]
           ends   == [l EXCEPT !.stale = IF @ = None THEN k ELSE IF @ = k THEN x ELSE @]
           closed == Link(ends, x, y)
           front  == Link(closed, k, closed.fresh)
           r      == [front EXCEPT !.fresh = k, !.n[k] = None]
           rest   == [closed EXCEPT !.entries = @ \ {k}]
<1>0. Len(s) \in Nat /\ None \notin CacheKeys
  OBVIOUS
<1>1. /\ k \in CacheKeys /\ x \in CacheKeys \cup {None} /\ y \in CacheKeys \cup {None}
      /\ x # k /\ (x = y => x = None)
      /\ i # Len(s) => l.fresh # k /\ x # None
      /\ i = Len(s) => l.fresh = k
  BY Neighbours
<1>2. CASE i = Len(s)
  <2>1. Refresh(l, s[i]) = l
    BY <1>1, <1>2 DEF Refresh, k
  <2>2. Append(Cut(s, i), s[i]) = s
    BY <1>0, <1>2, LastCut
  <2> QED BY <2>1, <2>2
<1>3. CASE i # Len(s)
  <2>0. /\ l.stale # None /\ k \in l.entries
        /\ l.fresh \in CacheKeys
    <3>1. /\ \A j \in 1..Len(s) : s[j] \in CacheKeys
          /\ l.entries = {s[j] : j \in 1..Len(s)}
          /\ Len(s) # 0 => l.stale = s[1] /\ l.fresh = s[Len(s)]
      BY LinkedFacts
    <3>2. Len(s) # 0 /\ 1 \in 1..Len(s) /\ Len(s) \in 1..Len(s)
      BY <1>0
    <3> QED BY <3>1, <3>2, <1>0
  <2> HIDE DEF k, x, y, ends, closed, front, r, rest
  <2>1. /\ ends \in Lists /\ ends.entries = l.entries /\ ends.p = l.p /\ ends.n = l.n
        /\ ends.fresh = l.fresh /\ ends.stale = IF l.stale = k THEN x ELSE l.stale
    BY <1>1, <2>0 DEF Lists, ends
  <2>2. Joined(ends, closed, x, y)
    BY <1>0, <1>1, <2>1, LinkFields DEF closed
  <2>3. closed \in Lists /\ closed.entries = l.entries /\ closed.fresh = l.fresh
        /\ closed.stale = (IF l.stale = k THEN x ELSE l.stale)
    BY <2>1, <2>2 DEF Joined
  <2>4. Joined(closed, front, k, l.fresh)
    <3>1. k # l.fresh /\ l.fresh \in CacheKeys \cup {None} /\ k \in CacheKeys \cup {None} BY <1>1, <1>3, <2>0
    <3> QED BY <3>1, <1>0, <2>3, LinkFields DEF front
  <2>5. /\ r \in Lists /\ r.entries = front.entries /\ r.fresh = k /\ r.stale = front.stale
        /\ \A e \in CacheKeys : /\ r.p[e] = front.p[e]
                          /\ r.n[e] = IF e = k THEN None ELSE front.n[e]
    BY <1>1, <2>4 DEF Joined, Lists, r
  <2>6. /\ rest.entries = l.entries \ {k} /\ rest.p = closed.p /\ rest.n = closed.n
        /\ rest.fresh = closed.fresh /\ rest.stale = closed.stale
    BY <2>3 DEF Lists, rest
  <2>7. Bypassed(l, rest, k)
    BY <1>1, <1>3, <2>1, <2>2, <2>3, <2>6 DEF Bypassed, Joined, x, y
  <2>8. Linked(rest, Cut(s, i))
    <3>1. Bypassed(l, rest, s[i]) /\ rest.entries = l.entries \ {s[i]}
      BY <2>6, <2>7 DEF k
    <3> QED BY <3>1, <1>0, BypassCuts
  <2>9. Linked(r, Append(Cut(s, i), k))
    <3>1. Cut(s, i) \in Seq(CacheKeys)
      BY CutFacts
    <3>2. k \in CacheKeys \ rest.entries
      BY <1>1, <2>6
    <3>3. r.entries = rest.entries \cup {k} /\ r.fresh = k
      BY <2>0, <2>3, <2>4, <2>5, <2>6 DEF Joined
    <3>4. r.stale = IF rest.stale = None THEN k ELSE rest.stale
      BY <1>1, <1>3, <2>0, <2>3, <2>4, <2>5, <2>6 DEF Joined
    <3>5. \A e \in CacheKeys : /\ r.p[e] = IF e = k THEN rest.fresh ELSE rest.p[e]
                          /\ r.n[e] = IF e = k THEN None ELSE IF e = rest.fresh THEN k ELSE rest.n[e]
      BY <2>3, <2>4, <2>5, <2>6 DEF Joined
    <3> QED BY <3>1, <3>2, <3>3, <3>4, <3>5, <1>0, <2>8, FreshEnd
  <2>10. Refresh(l, k) = r
    BY <1>1, <1>3 DEF Refresh, r, front, closed, ends, x, y
  <2> QED BY <2>3, <2>4, <2>5, <2>9, <2>10 DEF k, Joined
<1> QED BY <1>2, <1>3

\* `put' of a new key adds it at the fresh end of the order.
LEMMA Entering ==
  ASSUME None \notin CacheKeys, NEW l \in Lists, NEW s \in Seq(CacheKeys), Linked(l, s), NEW k \in CacheKeys \ l.entries
  PROVE  /\ Refresh(Entry(l, k), k) \in Lists
         /\ Refresh(Entry(l, k), k).entries = l.entries \cup {k}
         /\ Linked(Refresh(Entry(l, k), k), Append(s, k))
<1> DEFINE e0     == Entry(l, k)
           ends   == [e0 EXCEPT !.stale = IF @ = None THEN k ELSE IF @ = k THEN e0.n[k] ELSE @]
           closed == Link(ends, ends.n[k], ends.p[k])
           front  == Link(closed, k, closed.fresh)
           r      == [front EXCEPT !.fresh = k, !.n[k] = None]
<1>0. None \notin CacheKeys
  OBVIOUS
<1>1. l.stale # k /\ l.fresh # k
  <2>1. Len(s) \in Nat
    OBVIOUS
  <2>2. /\ l.entries = {s[j] : j \in 1..Len(s)}
        /\ Len(s) = 0 => l.stale = None /\ l.fresh = None
        /\ Len(s) # 0 => l.stale = s[1] /\ l.fresh = s[Len(s)]
    BY LinkedFacts
  <2>3. Len(s) # 0 => 1 \in 1..Len(s) /\ Len(s) \in 1..Len(s)
    BY <2>1
  <2> QED BY <2>2, <2>3
<1> HIDE DEF e0, ends, closed, front, r
<1>2. /\ e0 \in Lists /\ e0.entries = l.entries \cup {k} /\ e0.fresh = l.fresh /\ e0.stale = l.stale
      /\ \A e \in CacheKeys : /\ e0.p[e] = IF e = k THEN None ELSE l.p[e]
                        /\ e0.n[e] = IF e = k THEN None ELSE l.n[e]
  BY DEF Entry, Lists, e0
<1>3. /\ ends \in Lists /\ ends.entries = e0.entries /\ ends.p = e0.p /\ ends.n = e0.n
      /\ ends.fresh = l.fresh /\ ends.stale = IF l.stale = None THEN k ELSE l.stale
  BY <1>1, <1>2 DEF Lists, ends
<1>4. closed = ends
  BY <1>2, <1>3 DEF closed, Link
<1>5. Joined(ends, front, k, l.fresh)
  <2>1. k # l.fresh /\ l.fresh \in CacheKeys \cup {None} /\ k \in CacheKeys \cup {None}
    BY <1>1 DEF Lists
  <2> QED BY <2>1, <1>0, <1>3, <1>4, LinkFields DEF front
<1>6. /\ r \in Lists /\ r.entries = front.entries /\ r.fresh = k /\ r.stale = front.stale
      /\ \A e \in CacheKeys : /\ r.p[e] = front.p[e]
                        /\ r.n[e] = IF e = k THEN None ELSE front.n[e]
  BY <1>5 DEF Joined, Lists, r
<1>7. Linked(r, Append(s, k))
  <2>1. r.entries = l.entries \cup {k} /\ r.fresh = k /\ r.stale = (IF l.stale = None THEN k ELSE l.stale)
    BY <1>2, <1>3, <1>5, <1>6 DEF Joined
  <2>2. \A e \in CacheKeys : /\ r.p[e] = IF e = k THEN l.fresh ELSE l.p[e]
                        /\ r.n[e] = IF e = k THEN None ELSE IF e = l.fresh THEN k ELSE l.n[e]
    BY <1>2, <1>3, <1>5, <1>6 DEF Joined
  <2> QED BY <1>0, <2>1, <2>2, FreshEnd
<1>8. Refresh(e0, k) = r
  BY <1>1, <1>2 DEF Refresh, r, front, closed, ends
<1> QED BY <1>2, <1>3, <1>5, <1>6, <1>7, <1>8 DEF e0, Joined

\* An order without its first one, as Recency gives it up.
LEMMA FirstCut ==
  ASSUME NEW S, NEW s \in Seq(S), Len(s) # 0
  PROVE  Cut(s, 1) = Tail(s)
<1>0. Len(s) \in Nat /\ 1 \in 1..Len(s) /\ s # << >>
  OBVIOUS
<1>1. /\ Cut(s, 1) \in Seq(S) /\ Len(Cut(s, 1)) = Len(s) - 1
      /\ \A j \in 1..(Len(s) - 1) : Cut(s, 1)[j] = IF j < 1 THEN s[j] ELSE s[j + 1]
  BY <1>0, CutFacts
<1>2. Tail(s) \in Seq(S) /\ Len(Tail(s)) = Len(s) - 1 /\ \A j \in 1..(Len(s) - 1) : Tail(s)[j] = s[j + 1]
  BY <1>0, HeadTailProperties
<1>3. \A j \in 1..Len(Tail(s)) : Cut(s, 1)[j] = Tail(s)[j]
  BY <1>0, <1>1, <1>2
<1> QED
  BY <1>1, <1>2, <1>3, SeqEqual

\* An order has every entry once.
LEMMA EntriesOf ==
  ASSUME NEW S, NEW l, NEW s \in Seq(S), Linked(l, s)
  PROVE  /\ IsFiniteSet(l.entries) /\ Cardinality(l.entries) = Len(s)
         /\ s \in [1..Len(s) -> l.entries]
         /\ s \in Seq(l.entries)
<1>1. /\ Len(s) \in Nat
      /\ \A i, j \in 1..Len(s) : s[i] = s[j] => i = j
      /\ l.entries = {s[i] : i \in 1..Len(s)}
  BY LinkedFacts
<1>2. s \in [1..Len(s) -> l.entries]
  <2>1. s = [i \in 1..Len(s) |-> s[i]] /\ DOMAIN s = 1..Len(s)
    OBVIOUS
  <2> QED BY <1>1, <2>1
<1>3. ExistsBijection(1..Len(s), l.entries)
  <2>1. s \in Injection(1..Len(s), l.entries)
    BY <1>1, <1>2 DEF Injection, IsInjective
  <2>2. s \in Surjection(1..Len(s), l.entries)
    BY <1>1, <1>2 DEF Surjection
  <2> QED BY <2>1, <2>2 DEF ExistsBijection, Bijection
<1>4. IsFiniteSet(1..Len(s)) /\ Cardinality(1..Len(s)) = Len(s)
  <2>1. 1 \in Int /\ Len(s) \in Int /\ (IF 1 > Len(s) THEN 0 ELSE Len(s) - 1 + 1) = Len(s)
    BY <1>1
  <2> QED BY <2>1, FS_Interval
<1>5. IsFiniteSet(l.entries) /\ Cardinality(l.entries) = Len(s)
  BY <1>3, <1>4, FS_Bijection
<1> QED
  BY <1>2, <1>5

\* The order of a list is the one that ByAge chooses.
LEMMA TheOrder ==
  ASSUME None \notin CacheKeys, NEW l, NEW s \in Seq(CacheKeys), Linked(l, s)
  PROVE  Orders(l) = {s}
<1>1. Cardinality(l.entries) = Len(s) /\ s \in [1..Len(s) -> l.entries]
  BY EntriesOf
<1>2. s \in Orders(l)
  BY <1>1 DEF Orders
<1>3. ASSUME NEW t \in Orders(l) PROVE t = s
  <2>1. t \in [1..Len(s) -> l.entries] /\ Linked(l, t)
    BY <1>1 DEF Orders
  <2>2. l.entries \subseteq CacheKeys
    BY LinkedFacts
  <2>3. t \in Seq(CacheKeys)
    <3>1. Len(s) \in Nat OBVIOUS
    <3> QED BY <3>1, <2>1, <2>2
  <2>4. None \notin CacheKeys
    OBVIOUS
  <2> QED BY <2>1, <2>3, <2>4, Unique
<1> QED
  BY <1>2, <1>3

\* The keys that have a value in h, which Recency counts and the cache keeps in `size'.
Filled(h) == {e \in CacheKeys : h[e] # None}

LEMMA OneMore ==
  ASSUME NEW h \in [CacheKeys -> CacheContents \cup {None}], IsFiniteSet(Filled(h)),
         NEW k \in CacheKeys, NEW c \in CacheContents, None \notin CacheContents
  PROVE  /\ IsFiniteSet(Filled([h EXCEPT ![k] = c]))
         /\ Cardinality(Filled([h EXCEPT ![k] = c]))
              = IF h[k] = None THEN Cardinality(Filled(h)) + 1 ELSE Cardinality(Filled(h))
<1>1. Filled([h EXCEPT ![k] = c]) = Filled(h) \cup {k}
  BY DEF Filled
<1>2. k \in Filled(h) <=> h[k] # None
  BY DEF Filled
<1> QED
  BY <1>1, <1>2, FS_AddElement

LEMMA OneLess ==
  ASSUME NEW h \in [CacheKeys -> CacheContents \cup {None}], IsFiniteSet(Filled(h)), NEW k \in CacheKeys
  PROVE  /\ IsFiniteSet(Filled([h EXCEPT ![k] = None]))
         /\ Cardinality(Filled([h EXCEPT ![k] = None]))
              = IF h[k] = None THEN Cardinality(Filled(h)) ELSE Cardinality(Filled(h)) - 1
<1>1. Filled([h EXCEPT ![k] = None]) = Filled(h) \ {k}
  BY DEF Filled
<1>2. k \in Filled(h) <=> h[k] # None
  BY DEF Filled
<1> QED
  BY <1>1, <1>2, FS_RemoveElement

\* The inductive invariant: the pointers have an order, and what has data is listed.
\* The size is any number: a removal counts what had no data, too.
LruInv ==
  /\ data \in [CacheKeys -> CacheContents \cup {None}]
  /\ lru \in Lists
  /\ size \in Int
  /\ \E s \in Seq(CacheKeys) : Linked(lru, s)
  /\ Held \subseteq lru.entries

\* An empty cache is linked, and holds nothing in no order.
LEMMA LruStarts == LruInit => LruInv
<1> SUFFICES ASSUME LruInit PROVE LruInv
  OBVIOUS
<1>1. Linked(lru, << >>) /\ << >> \in Seq(CacheKeys)
  BY DEF LruInit, Linked
<1> QED
  <2>1. Held = {}
    BY DEF LruInit, NoLinks, Held
  <2>2. lru \in Lists /\ data \in [CacheKeys -> CacheContents \cup {None}] /\ size \in Int
    BY DEF LruInit, NoLinks, Lists
  <2> QED
    BY <1>1, <2>1, <2>2 DEF LruInv

\* Every operation keeps the list linked, and does what Recency does to its order.
LEMMA LruStep ==
  ASSUME Capacity \in Nat, None \notin CacheKeys, None \notin CacheContents, LruInv, [LruNext]_lruVars
  PROVE  LruInv' /\ [Promised!RecencyNext]_(Promised!recencyVars)
<1>0. None \notin CacheKeys /\ None \notin CacheContents /\ Capacity \in Nat
  OBVIOUS
<1>s. PICK s \in Seq(CacheKeys) : Linked(lru, s)
  BY DEF LruInv
<1>t. data \in [CacheKeys -> CacheContents \cup {None}] /\ lru \in Lists /\ size \in Int
  BY DEF LruInv
<1>h. Filled(data) \subseteq lru.entries /\ IsFiniteSet(Filled(data)) /\ Cardinality(Filled(data)) \in Nat
  <2>1. IsFiniteSet(lru.entries) /\ Filled(data) \subseteq lru.entries
    BY <1>s, EntriesOf DEF LruInv, Held, Filled
  <2> QED
    BY <2>1, FS_Subset, FS_CardinalityType
<1>r. /\ CacheRoom = Capacity + Cardinality(Filled(data)) - size
      /\ CacheRoom' = Capacity + Cardinality(Filled(data')) - size'
  BY DEF CacheRoom, Held, Filled
<1>o. ByAge = s
  BY <1>0, <1>s, TheOrder DEF ByAge
<1>p. ASSUME NEW t \in Seq(CacheKeys), Linked(lru', t) PROVE ByAge' = t
  <2>1. Orders(lru') = {t} BY <1>0, <1>p, TheOrder
  <2> QED BY <2>1 DEF ByAge
<1>i. ASSUME NEW k \in lru.entries
      PROVE  \E i \in 1..Len(s) : s[i] = k
  BY <1>s, LinkedFacts
<1>d. DOMAIN s = 1..Len(s) /\ \A i, j \in 1..Len(s) : s[i] = s[j] => i = j
  BY <1>s, LinkedFacts
<1>w. ASSUME NEW i \in 1..Len(s)
      PROVE  /\ Promised!Listed(s[i]) /\ Promised!Without(s[i]) = Cut(s, i)
             /\ Promised!Freshened(s[i]) = Append(Cut(s, i), s[i])
  <2>1. Promised!Listed(s[i]) /\ Promised!Position(s[i]) = i
    BY <1>o, <1>d DEF Promised!Listed, Promised!Position
  <2> QED
    BY <2>1, <1>o DEF Promised!Without, Promised!Freshened, Cut
<1>f. ASSUME NEW k \in CacheKeys, k \notin lru.entries
      PROVE  Promised!Freshened(k) = Append(s, k)
  <2>1. \A i \in DOMAIN s : s[i] # k
    BY <1>f, <1>s DEF Linked
  <2> QED
    BY <2>1, <1>o DEF Promised!Listed, Promised!Without, Promised!Freshened
<1>e. ASSUME NEW k \in CacheKeys
      PROVE  \E t \in Seq(CacheKeys) :
               /\ Refresh(Entry(lru, k), k) \in Lists
               /\ Refresh(Entry(lru, k), k).entries = lru.entries \cup {k}
               /\ Linked(Refresh(Entry(lru, k), k), t)
               /\ Promised!Freshened(k) = t /\ Len(t) # 0
  <2>1. CASE k \in lru.entries
    <3>1. PICK i \in 1..Len(s) : s[i] = k
      BY <1>i, <2>1
    <3> DEFINE t == Append(Cut(s, i), k)
    <3>2. /\ Refresh(lru, k) \in Lists /\ Refresh(lru, k).entries = lru.entries
          /\ Linked(Refresh(lru, k), t)
      BY <1>0, <1>s, <1>t, <3>1, Refreshing
    <3>3. t \in Seq(CacheKeys) /\ Len(t) # 0
      <4>1. Cut(s, i) \in Seq(CacheKeys)
        BY CutFacts
      <4> QED BY <4>1, AppendProperties
    <3>4. Promised!Freshened(k) = t
      BY <1>w, <3>1
    <3>5. Entry(lru, k) = lru /\ lru.entries = lru.entries \cup {k}
      BY <2>1 DEF Entry
    <3> HIDE DEF t
    <3> QED BY <3>2, <3>3, <3>4, <3>5
  <2>2. CASE k \notin lru.entries
    <3> DEFINE t == Append(s, k)
    <3>1. /\ Refresh(Entry(lru, k), k) \in Lists
          /\ Refresh(Entry(lru, k), k).entries = lru.entries \cup {k}
          /\ Linked(Refresh(Entry(lru, k), k), t)
      BY <1>0, <1>s, <1>t, <2>2, Entering
    <3>2. t \in Seq(CacheKeys) /\ Len(t) # 0
      BY AppendProperties
    <3>3. Promised!Freshened(k) = t
      BY <1>f, <2>2
    <3> HIDE DEF t
    <3> QED BY <3>1, <3>2, <3>3
  <2> QED BY <2>1, <2>2
<1>1. ASSUME NEW k \in CacheKeys, NEW c \in CacheContents, Put(k, c)
      PROVE  LruInv' /\ Promised!Put(k, c)
  <2> DEFINE l == Refresh(Entry(lru, k), k)
             h == [data EXCEPT ![k] = c]
             full == Capacity # 0 /\ (IF data[k] = None THEN size + 1 ELSE size) > Capacity
  <2>1. PICK t \in Seq(CacheKeys) : /\ l \in Lists /\ l.entries = lru.entries \cup {k} /\ Linked(l, t)
                                    /\ Promised!Freshened(k) = t /\ Len(t) # 0
    BY <1>e
  <2>2. h \in [CacheKeys -> CacheContents \cup {None}] /\ c # None
    BY <1>t, <1>0
  <2>3. /\ IsFiniteSet(Filled(h)) /\ Cardinality(Filled(h)) \in Nat
        /\ Cardinality(Filled(h))
             = IF data[k] = None THEN Cardinality(Filled(data)) + 1 ELSE Cardinality(Filled(data))
    BY <1>t, <1>h, <1>0, OneMore, FS_CardinalityType
  <2>4. Filled(h) \subseteq l.entries
    BY <2>1, <1>h, <1>t DEF Filled
  <2>5. full <=> Capacity # 0 /\ Cardinality(Filled(h)) > CacheRoom
    BY <2>3, <1>r, <1>t, <1>h, <1>0
  <2>6. /\ lru' = IF full THEN Unlink(l, l.stale) ELSE l
        /\ data' = [e \in CacheKeys |->
                      IF full /\ e = l.stale THEN None ELSE IF e = k THEN c ELSE data[e]]
        /\ size' = IF full THEN (IF data[k] = None THEN size + 1 ELSE size) - 1
                           ELSE IF data[k] = None THEN size + 1 ELSE size
    BY <1>1, <2>2 DEF Put
  <2>7. Promised!Cardinality(Promised!With(h)) = Cardinality(Filled(h))
    <3>1. Promised!With(h) = Filled(h)
      BY DEF Promised!With, Filled
    <3>2. Promised!Cardinality(Filled(h)) = Cardinality(Filled(h))
      BY DEF Promised!Cardinality, Cardinality
    <3> QED BY <3>1, <3>2
  <2>8. h = [e \in CacheKeys |-> IF e = k THEN c ELSE data[e]]
    BY <1>t
  <2> HIDE DEF l, h, full
  <2>9. CASE full
    <3>1. l.stale = t[1] /\ t[1] \in CacheKeys /\ 1 \in 1..Len(t)
      <4>1. Len(t) \in Nat /\ 1 \in 1..Len(t)
        BY <2>1
      <4> QED BY <2>1, <4>1, LinkedFacts
    <3>2. lru' = Unlink(l, t[1])
      BY <2>6, <2>9, <3>1
    <3>3. lru' \in Lists /\ lru'.entries = l.entries \ {t[1]} /\ Linked(lru', Cut(t, 1))
      <4>1. Unlink(l, t[1]) \in Lists /\ Unlink(l, t[1]).entries = l.entries \ {t[1]}
            /\ Linked(Unlink(l, t[1]), Cut(t, 1))
        BY <1>0, <2>1, <3>1, Unlinking
      <4> QED BY <3>2, <4>1
    <3>4. Cut(t, 1) = Tail(t) /\ Cut(t, 1) \in Seq(CacheKeys)
      BY <2>1, <3>1, FirstCut, CutFacts
    <3>5. ByAge' = Tail(t)
      BY <1>p, <3>3, <3>4
    <3>6. data' = [h EXCEPT ![t[1]] = None]
      BY <2>6, <2>8, <2>9, <3>1
    <3>7. Cardinality(Filled(data'))
            = IF h[t[1]] = None THEN Cardinality(Filled(h)) ELSE Cardinality(Filled(h)) - 1
      BY <2>2, <2>3, <3>1, <3>6, OneLess
    <3>8. CacheRoom' = IF h[t[1]] = None THEN CacheRoom + 1 ELSE CacheRoom
      <4>1. Cardinality(Filled(h)) - size' = Cardinality(Filled(data)) - size + 1
        BY <2>3, <2>6, <2>9, <1>h, <1>t
      <4>2. size' \in Int
        BY <2>6, <1>t
      <4>3. Cardinality(Filled(h)) \in Int /\ Cardinality(Filled(data)) \in Int /\ size \in Int /\ Capacity \in Int
        BY <2>3, <1>h, <1>t, <1>0
      <4>4. CASE h[t[1]] = None
        <5>1. Cardinality(Filled(data')) = Cardinality(Filled(h)) BY <4>4, <3>7
        <5>2. CacheRoom' = CacheRoom + 1 BY <5>1, <4>1, <4>2, <4>3, <1>r
        <5> QED BY <5>2, <4>4
      <4>5. CASE h[t[1]] # None
        <5>1. Cardinality(Filled(data')) = Cardinality(Filled(h)) - 1 BY <4>5, <3>7
        <5>2. CacheRoom' = CacheRoom BY <5>1, <4>1, <4>2, <4>3, <1>r
        <5> QED BY <5>2, <4>5
      <4> QED BY <4>4, <4>5
    <3>9. Promised!Put(k, c)
      BY <2>1, <2>5, <2>7, <2>9, <3>5, <3>6, <3>8 DEF Promised!Put, Promised!Goes, h
    <3>10. data' \in [CacheKeys -> CacheContents \cup {None}] /\ size' \in Int
      BY <2>2, <2>6, <3>6, <1>t
    <3>11. Filled(data') \subseteq lru'.entries
      BY <2>2, <2>4, <3>1, <3>3, <3>6 DEF Filled
    <3>12. LruInv'
      BY <3>3, <3>4, <3>10, <3>11 DEF LruInv, Held, Filled
    <3> QED BY <3>9, <3>12
  <2>10. CASE ~full
    <3>1. lru' = l /\ data' = h
      BY <2>6, <2>8, <2>10
    <3>2. ByAge' = t
      BY <1>p, <2>1, <3>1
    <3>3. CacheRoom' = CacheRoom
      BY <2>3, <2>6, <2>10, <3>1, <1>r, <1>h, <1>t, <1>0
    <3>4. Promised!Put(k, c)
      BY <2>1, <2>5, <2>7, <2>10, <3>1, <3>2, <3>3 DEF Promised!Put, h
    <3>5. size' \in Int
      BY <2>6, <2>10, <1>t
    <3>6. LruInv'
      BY <2>1, <2>2, <2>4, <3>1, <3>5 DEF LruInv, Held, Filled
    <3> QED BY <3>4, <3>6
  <2> QED BY <2>9, <2>10
<1>2. ASSUME NEW k \in CacheKeys, \/ Put(k, None)
                                  \/ Get(k)
      PROVE  LruInv' /\ (Promised!PutNothing(k) \/ Promised!Get(k))
  <2> DEFINE l == Refresh(Entry(lru, k), k)
  <2>1. PICK t \in Seq(CacheKeys) : /\ l \in Lists /\ l.entries = lru.entries \cup {k} /\ Linked(l, t)
                                    /\ Promised!Freshened(k) = t /\ Len(t) # 0
    BY <1>e
  <2>2. lru' = l /\ data' = data /\ size' = size
    BY <1>2 DEF Put, Get, Entry
  <2> HIDE DEF l
  <2>3. ByAge' = t
    BY <1>p, <2>1, <2>2
  <2>4. CacheRoom' = CacheRoom
    BY <2>2, <1>r
  <2>5. Promised!PutNothing(k)
    BY <2>1, <2>2, <2>3, <2>4 DEF Promised!PutNothing
  <2>6. LruInv'
    BY <2>1, <2>2, <1>t, <1>h DEF LruInv, Held, Filled
  <2> QED
    BY <2>5, <2>6
<1>3. ASSUME NEW k \in CacheKeys, RemoveKey(k)
      PROVE  LruInv' /\ Promised!Remove(k)
  <2>1. PICK i \in 1..Len(s) : s[i] = k
    BY <1>i, <1>3 DEF RemoveKey
  <2> DEFINE t == Cut(s, i)
  <2>2. lru' \in Lists /\ lru'.entries = lru.entries \ {k} /\ Linked(lru', t)
    BY <1>0, <1>s, <1>t, <1>3, <2>1, Unlinking DEF RemoveKey
  <2>3. t \in Seq(CacheKeys)
    BY CutFacts
  <2>4. Promised!Listed(k) /\ Promised!Without(k) = t
    BY <1>w, <2>1
  <2> HIDE DEF t
  <2>5. ByAge' = t
    BY <1>p, <2>2, <2>3
  <2>6. data' = [data EXCEPT ![k] = None] /\ size' = size - 1
    BY <1>3 DEF RemoveKey
  <2>7. Cardinality(Filled(data'))
          = IF data[k] = None THEN Cardinality(Filled(data)) ELSE Cardinality(Filled(data)) - 1
    BY <2>6, <1>t, <1>h, OneLess
  <2>8. CacheRoom' = IF data[k] = None THEN CacheRoom + 1 ELSE CacheRoom
    BY <2>6, <2>7, <1>r, <1>h, <1>t, <1>0
  <2>9. Promised!Remove(k)
    BY <2>4, <2>5, <2>6, <2>8 DEF Promised!Remove, Promised!Goes
  <2>10. Filled(data') \subseteq lru'.entries /\ size' \in Int
         /\ data' \in [CacheKeys -> CacheContents \cup {None}]
    BY <2>2, <2>6, <1>h, <1>t DEF Filled
  <2>11. LruInv'
    BY <2>2, <2>3, <2>10 DEF LruInv, Held, Filled
  <2> QED
    BY <2>9, <2>11
<1>4. ASSUME RemoveAll
      PROVE  LruInv' /\ Promised!RemoveAll
  <2>1. lru' \in Lists /\ lru'.entries = {} /\ lru'.fresh = None /\ lru'.stale = None
    BY <1>4 DEF RemoveAll, Lists, NoLinks
  <2>2. Linked(lru', << >>) /\ << >> \in Seq(CacheKeys)
    BY <2>1 DEF Linked
  <2>3. ByAge' = << >>
    BY <1>p, <2>2
  <2>4. size' = 0 /\ data' = [k \in CacheKeys |-> None]
    BY <1>4 DEF RemoveAll, NoLinks
  <2>5. Filled(data') = {}
    BY <2>4 DEF Filled
  <2>6. CacheRoom' = Capacity
    BY <2>4, <2>5, <1>r, <1>0, FS_EmptySet
  <2>7. Promised!RemoveAll
    BY <2>3, <2>4, <2>6 DEF Promised!RemoveAll
  <2>8. data' \in [CacheKeys -> CacheContents \cup {None}] /\ size' \in Int
    BY <2>4
  <2> QED
    BY <2>1, <2>2, <2>5, <2>7, <2>8 DEF LruInv, Held, Filled
<1>5. CASE UNCHANGED lruVars
  <2>1. lru' = lru /\ data' = data /\ size' = size
    BY <1>5 DEF lruVars
  <2>2. ByAge' = ByAge /\ CacheRoom' = CacheRoom
    BY <2>1, <1>o, <1>p, <1>s, <1>r
  <2> QED
    BY <2>1, <2>2, <1>s, <1>t, <1>h DEF LruInv, Held, Filled, Promised!recencyVars
<1>6. ASSUME NEW k \in CacheKeys, NEW c \in CacheContents \cup {None}, Put(k, c)
      PROVE  LruInv' /\ Promised!RecencyNext
  <2>1. CASE c \in CacheContents
    BY <1>1, <1>6, <2>1 DEF Promised!RecencyNext
  <2>2. CASE c = None
    BY <1>2, <1>6, <2>2 DEF Promised!RecencyNext
  <2> QED BY <1>6, <2>1, <2>2
<1> QED
  BY <1>2, <1>3, <1>4, <1>5, <1>6 DEF LruNext, Promised!RecencyNext

\* Whatever is put - undefined values too -, read and removed, and however many keys
\* there are, the linked list of $cacheFactory does to the order of use what Recency
\* does: the cache gives up the entry that was used longest ago, and no other, when it
\* has no room; it has more room than its capacity only by what it gave up or removed
\* without data; and with a capacity of 0 it gives up nothing.
THEOREM CacheImplementsRecency ==
  ASSUME Capacity \in Nat, None \notin CacheKeys, None \notin CacheContents
  PROVE  LruSpec => ImplementsRecency
<1>1. LruInit => LruInv
  BY LruStarts
<1>2. LruInv /\ [LruNext]_lruVars => LruInv' /\ [Promised!RecencyNext]_(Promised!recencyVars)
  BY LruStep
<1> QED
  BY <1>1, <1>2, PTL DEF LruSpec, ImplementsRecency

\* The cache refines the whole of Recency: it also starts as that does, with room for
\* its capacity.
THEOREM CacheRefinesRecency ==
  ASSUME Capacity \in Nat, None \notin CacheKeys, None \notin CacheContents
  PROVE  LruSpec => Promised!RecencySpec
<1>1. LruInit => LruInv
  BY LruStarts
<1>2. LruInv /\ [LruNext]_lruVars => LruInv' /\ [Promised!RecencyNext]_(Promised!recencyVars)
  BY LruStep
<1>3. LruInit => Promised!RecencyInit
  <2> SUFFICES ASSUME LruInit PROVE data = NoLinks /\ ByAge = << >> /\ CacheRoom = Capacity
    BY DEF Promised!RecencyInit, NoLinks
  <2>1. None \notin CacheKeys
    OBVIOUS
  <2>2. << >> \in Seq(CacheKeys) /\ Linked(lru, << >>)
    BY DEF LruInit, Linked
  <2>3. Orders(lru) = {<< >>}
    BY <2>1, <2>2, TheOrder
  <2>4. ByAge = << >>
    BY <2>3 DEF ByAge
  <2>5. Held = {}
    BY DEF LruInit, NoLinks, Held
  <2>6. CacheRoom = Capacity
    BY <2>5, FS_EmptySet DEF CacheRoom, LruInit
  <2> QED
    BY <2>4, <2>6 DEF LruInit
<1> QED
  BY <1>1, <1>2, <1>3, PTL DEF LruSpec, Promised!RecencySpec
=============================================================================
