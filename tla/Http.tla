--------------------------------- MODULE Http ---------------------------------
(***************************************************************************)
(* Requests and timers of the page (angular): $http with its cache, the    *)
(* back end with its timeouts, $browser's count of what is outstanding,    *)
(* and $timeout.  A digest calls the callbacks of every settled promise.   *)
(***************************************************************************)
EXTENDS Naturals, Sequences, FiniteSets

CONSTANTS
  MaxRequests,  \* bounds the calls of $http
  Addresses, Bodies, \* what is asked for, and what the server answers
  Timeouts,     \* the calls of $timeout
  Waiters,      \* callbacks of notifyWhenNoOutstandingRequests
  Absent

Requests == 1..MaxRequests

\* What a promise comes to: status 200 with a body, 500, or an abort (status 0).
Ok(b)   == [status |-> 200, body |-> b]
Failed  == [status |-> 500, body |-> Absent]
Aborted == [status |-> 0, body |-> Absent]
Answers == {Ok(b) : b \in Bodies} \cup {Failed, Aborted}

VARIABLES
  request,      \* each call of $http: its URL, whether it caches, whose promise it got
  xhr,          \* the requests that are at the server
  settled,      \* what the deferred of each request came to
  heard,         \* history: what the caller of $http was told, each time
  pendingRequests,
  cache,        \* per URL: nothing, the promise of a request, or an answer
  timers,       \* what $browser.defer has pending
  outstanding, waiting,
  lost,         \* history: the requests whose count $browser never gets back
  timeout,      \* what the promise of each $timeout came to
  deferreds,    \* the timeouts that can be cancelled
  ran           \* history: the timeouts whose function ran

httpVars == <<request, xhr, settled, heard, pendingRequests, cache, timers,
              outstanding, waiting, lost, timeout, deferreds, ran>>

PromiseOf(r) == [promise |-> r]
Timers == [aborts : Requests] \cup [runs : Timeouts, apply : BOOLEAN]

HttpTypeOK ==
  /\ request \in [Requests -> [url : Addresses, cached : BOOLEAN, of : Requests] \cup {Absent}]
  /\ xhr \subseteq Requests /\ pendingRequests \subseteq Requests /\ lost \subseteq Requests
  /\ settled \in [Requests -> Answers \cup {Absent}]
  /\ heard \in [Requests -> Seq(Answers)]
  /\ cache \in [Addresses -> {PromiseOf(r) : r \in Requests} \cup Answers \cup {Absent}]
  /\ timers \subseteq Timers
  /\ outstanding \in Nat /\ waiting \subseteq Waiters
  /\ timeout \in [Timeouts -> {"unset", "set", "ran", "threw", "canceled"}]
  /\ deferreds \subseteq Timeouts /\ ran \subseteq Timeouts

HttpInit ==
  /\ request = [r \in Requests |-> Absent]
  /\ xhr = {} /\ pendingRequests = {} /\ timers = {}
  /\ settled = [r \in Requests |-> Absent]
  /\ heard = [r \in Requests |-> << >>]
  /\ cache = [u \in Addresses |-> Absent]
  /\ outstanding = 0 /\ waiting = {} /\ lost = {}
  /\ timeout = [t \in Timeouts |-> "unset"]
  /\ deferreds = {} /\ ran = {}

-----------------------------------------------------------------------------
\* The call of $http that is made next.
NextCall(r) == request[r] = Absent /\ \A q \in 1..(r - 1) : request[q] # Absent

\* n of what is outstanding are complete; with the last one, the waiting are called.
Complete(n) ==
  /\ outstanding' = outstanding - n
  /\ waiting' = IF outstanding = n THEN {} ELSE waiting

\* A digest tells everyone whose promise has come to something; the timeouts
\* that came to something cannot be cancelled any more.
Digest(outcome, byTimeout) ==
  LET tell == {r \in Requests : /\ request[r] # Absent /\ heard[r] = << >>
                                /\ outcome[request[r].of] # Absent} IN
  /\ heard' = [r \in Requests |->
                IF r \in tell THEN Append(heard[r], outcome[request[r].of]) ELSE heard[r]]
  /\ pendingRequests' = pendingRequests \ tell
  /\ deferreds' = {t \in deferreds : byTimeout[t] = "set"}

\* A variant in which a failed answer leaves the promise in the cache.
CachesFailure(r, a) ==
  IF request[r].cached /\ a.status = 200
    THEN [cache EXCEPT ![request[r].url] = a] ELSE cache

\* `done' keeps an answer of status 200 and forgets the promise of any other.
Cached(r, a) ==
  IF request[r].cached
    THEN [cache EXCEPT ![request[r].url] = IF a.status = 200 THEN a ELSE Absent]
    ELSE cache

\* `done', with the digest that it starts.
Done(r, a) ==
  LET outcome == [settled EXCEPT ![r] = a] IN
  /\ xhr' = xhr \ {r}
  /\ cache' = Cached(r, a)
  /\ settled' = outcome
  /\ Digest(outcome, timeout)

-----------------------------------------------------------------------------
(* Steps *)

\* The back end counts the request, opens and sends it, and starts the timer of
\* config.timeout.  open or send may throw, after the promise went into the cache.
SendRequest(r, timed, throws) ==
  IF throws
    THEN /\ outstanding' = outstanding + 1
         /\ lost' = lost \cup {r}
         /\ UNCHANGED <<xhr, timers>>
    ELSE /\ xhr' = xhr \cup {r}
         /\ timers' = timers \cup (IF timed THEN {[aborts |-> r]} ELSE {})
         /\ outstanding' = outstanding + (IF timed THEN 2 ELSE 1)
         /\ UNCHANGED lost

\* $http: a cached GET joins a request that is under way, or is served.
Call(r, u, cached, timed, throws) ==
  LET hit == IF cached THEN cache[u] ELSE Absent IN
  /\ NextCall(r)
  /\ pendingRequests' = pendingRequests \cup {r}
  /\ request' = [request EXCEPT ![r] =
       [url |-> u, cached |-> cached,
        of |-> IF hit \in {PromiseOf(q) : q \in Requests} THEN hit.promise ELSE r]]
  /\ settled' = IF hit \in Answers THEN [settled EXCEPT ![r] = hit] ELSE settled
  /\ IF hit = Absent
       THEN /\ SendRequest(r, timed, throws)
            /\ cache' = IF cached THEN [cache EXCEPT ![u] = PromiseOf(r)] ELSE cache
       ELSE UNCHANGED <<xhr, timers, outstanding, lost, cache>>
  /\ UNCHANGED <<heard, waiting, timeout, deferreds, ran>>

\* completeRequest: a digest that gives up throws through `done', when it has told
\* everyone, and the request is not given back.  The timer n is in any case.
CompleteRequest(r, n, givesUp) ==
  /\ Complete(IF givesUp THEN n ELSE n + 1)
  /\ lost' = IF givesUp THEN lost \cup {r} ELSE lost

Answered(r, a, givesUp) ==
  /\ r \in xhr /\ a # Aborted
  /\ Done(r, a)
  /\ CompleteRequest(r, 0, givesUp)
  /\ UNCHANGED <<request, timers, timeout, ran>>

\* The timer is not cancelled by the answer: it may find nothing to abort.
TimesOut(r, givesUp) ==
  /\ [aborts |-> r] \in timers
  /\ timers' = timers \ {[aborts |-> r]}
  /\ IF r \in xhr
       THEN Done(r, Aborted) /\ CompleteRequest(r, 1, givesUp)
       ELSE /\ Complete(1)
            /\ UNCHANGED <<xhr, cache, settled, heard, pendingRequests, deferreds, lost>>
  /\ UNCHANGED <<request, timeout, ran>>

SetTimeout(t, apply) ==
  /\ timeout[t] = "unset"
  /\ timeout' = [timeout EXCEPT ![t] = "set"]
  /\ timers' = timers \cup {[runs |-> t, apply |-> apply]}
  /\ deferreds' = deferreds \cup {t}
  /\ outstanding' = outstanding + 1
  /\ UNCHANGED <<request, xhr, settled, heard, pendingRequests, cache, waiting, lost, ran>>

\* The function of $timeout runs, and may throw; without invokeApply no digest.
\* $browser.defer completes it in a finally, whatever its digest throws.
Runs(t, apply, how) ==
  /\ [runs |-> t, apply |-> apply] \in timers
  /\ timers' = timers \ {[runs |-> t, apply |-> apply]}
  /\ ran' = ran \cup {t}
  /\ how \in {"ran", "threw"}
  /\ timeout' = [timeout EXCEPT ![t] = how]
  /\ IF apply THEN Digest(settled, timeout')
              ELSE UNCHANGED <<heard, pendingRequests, deferreds>>
  /\ Complete(1)
  /\ UNCHANGED <<request, xhr, settled, cache, lost>>

\* cancel, which may come after the function ran and before a digest.
CancelTimeout(t) ==
  /\ t \in deferreds
  /\ timeout' = [timeout EXCEPT ![t] = IF @ = "set" THEN "canceled" ELSE @]
  /\ timers' = {m \in timers : m \notin [runs : {t}, apply : BOOLEAN]}
  /\ IF timers' = timers THEN UNCHANGED <<outstanding, waiting>> ELSE Complete(1)
  /\ UNCHANGED <<request, xhr, settled, heard, pendingRequests, cache, lost, deferreds, ran>>

\* Any other event of the page ends with a digest.
PageDigest ==
  /\ Digest(settled, timeout)
  /\ UNCHANGED <<request, xhr, settled, cache, timers, outstanding, waiting, lost,
                 timeout, ran>>

\* notifyWhenNoOutstandingRequests; with nothing outstanding, it calls at once.
NotifyWhenDone(w) ==
  /\ outstanding > 0
  /\ waiting' = waiting \cup {w}
  /\ UNCHANGED <<request, xhr, settled, heard, pendingRequests, cache, timers,
                 outstanding, lost, timeout, deferreds, ran>>

HttpNext ==
  \/ \E r \in Requests, u \in Addresses, cached, timed, throws \in BOOLEAN :
       Call(r, u, cached, timed, throws)
  \/ \E r \in Requests, givesUp \in BOOLEAN :
       TimesOut(r, givesUp) \/ \E a \in Answers : Answered(r, a, givesUp)
  \/ \E t \in Timeouts, apply \in BOOLEAN :
       SetTimeout(t, apply) \/ \E how \in {"ran", "threw"} : Runs(t, apply, how)
  \/ \E t \in Timeouts : CancelTimeout(t)
  \/ PageDigest
  \/ \E w \in Waiters : NotifyWhenDone(w)

-----------------------------------------------------------------------------
(* Properties *)

\* The count is the requests at the server, the timers, and the requests that were
\* lost: through aborts, cancels and answers that come before their timer, it never
\* falls short, and who waits for zero is called unless a request was lost.
CountTells ==
  /\ outstanding = Cardinality(xhr) + Cardinality(timers) + Cardinality(lost)
  /\ outstanding = 0 => waiting = {}

\* The requests that have come to nothing: at the server, or never sent.
Unanswered == xhr \cup {r \in lost : settled[r] = Absent}

\* A promise in the cache belongs to a request that is at the server: who finds
\* it there will be told; or to one whose open or send threw, and nobody will be.
\* An answer in the cache came with status 200.
CacheTells ==
  \A u \in Addresses :
    \/ cache[u] = Absent
    \/ cache[u] \in {Ok(b) : b \in Bodies}
    \/ \E r \in Unanswered : cache[u] = PromiseOf(r) /\ request[r].url = u

\* Everybody is told once, what the request came to whose promise he got, and
\* pendingRequests are those who were not.
ToldOnce ==
  \A r \in Requests : request[r] # Absent =>
    /\ heard[r] \in {<< >>, <<settled[request[r].of]>>}
    /\ (r \in pendingRequests) = (heard[r] = << >>)
    /\ request[request[r].of].url = request[r].url

\* A timeout that was cancelled in time does not run; one that ran stays so.
CancelHolds ==
  \A t \in Timeouts :
    /\ timeout[t] = "canceled" => t \notin ran
    /\ t \in ran <=> timeout[t] \in {"ran", "threw"}

\* Calls are counted, told once and truly, and no failure is kept for the next one.
RequestsKept == CountTells /\ CacheTells /\ ToldOnce /\ CancelHolds
=============================================================================
