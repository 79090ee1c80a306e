-------------------------------- MODULE Routes --------------------------------
(***************************************************************************)
(* The table of routes (angular: $routeProvider.when, otherwise) and what  *)
(* $route makes of the path: which route it is, with which parameters, and *)
(* where it redirects to.  Templates and views are the subject of WebPage. *)
(***************************************************************************)
EXTENDS Naturals, Sequences, FiniteSets, SequencesExt, TLC

CONSTANTS
  Tables,   \* sequences of calls of when and otherwise
  Paths,    \* where the user goes: a path is the sequence of its segments, "/a/" <<"a", "">>
  Searches, \* the parameters behind the ?, as functions
  Params,   \* the segments of patterns that are parameters
  Nil

NoPath == <<"null">>  \* the key of otherwise; no path is that

VARIABLES
  table,     \* the calls that were made
  location,  \* path and search of $location
  changed,   \* whether $route has still to hear of it
  current,   \* $route.current
  routeParams,
  asked,     \* history: where the user went
  redirects  \* history: how often he was sent on since

routeVars == <<table, location, changed, current, routeParams, asked, redirects>>

Merged(f, g) == f @@ g  \* where both have a value, that of f

-----------------------------------------------------------------------------
\* when: a later call replaces the route of the same path, at its old place.
Put(routes, path, route) ==
  IF \E i \in DOMAIN routes : routes[i].path = path
    THEN [i \in DOMAIN routes |-> IF routes[i].path = path THEN [path |-> path, route |-> route]
                                                           ELSE routes[i]]
    ELSE Append(routes, [path |-> path, route |-> route])

\* The path with a slash at the end if it has none, and without if it has one.
Slashed(path) == IF Last(path) = "" THEN Front(path) ELSE Append(path, "")

When(routes, call) ==
  LET with == Put(routes, call.path, [to |-> call.to, reload |-> call.reload]) IN
  IF call.path \in {NoPath, << >>} THEN with
  ELSE Put(with, Slashed(call.path), [to |-> call.path, reload |-> FALSE])

RoutesOf(calls) == FoldLeft(LAMBDA acc, call : When(acc, call), << >>, calls)

\* switchRouteMatcher: a parameter is any segment, the empty one as well.
Matches(path, pattern) ==
  /\ Len(path) = Len(pattern)
  /\ \A i \in DOMAIN path : pattern[i] \in Params \/ path[i] = pattern[i]
PathParams(path, pattern) ==
  [p \in Params \cap ToSet(pattern) |-> path[CHOOSE i \in DOMAIN pattern : pattern[i] = p]]

\* parseRoute: the first route that matches, else that of otherwise.
ParseRoute(calls, l) ==
  LET routes == RoutesOf(calls)
      hits   == {i \in DOMAIN routes : routes[i].path # NoPath /\ Matches(l.path, routes[i].path)}
      other  == {i \in DOMAIN routes : routes[i].path = NoPath}
      i      == CHOOSE j \in hits : \A k \in hits : j <= k
      own    == PathParams(l.path, routes[i].path)
  IN IF hits # {}
       THEN [route |-> routes[i].route, pattern |-> routes[i].path, own |-> own,
             params |-> Merged(own, l.search)]
     ELSE IF other # {}
       THEN [route |-> routes[CHOOSE j \in other : TRUE].route, pattern |-> NoPath,
             own |-> << >>, params |-> << >>]
     ELSE Nil

\* interpolate takes the parameters that it uses out of the search that is left.
Interpolate(path, params) == [i \in DOMAIN path |-> IF path[i] \in Params THEN params[path[i]] ELSE path[i]]
\* A variant that drops what the path does not use.
LeftOverLost(path, params) == << >>

LeftOver(path, params) == [p \in DOMAIN params \ ToSet(path) |-> params[p]]
Rooted(path) == IF path = << >> THEN <<"">> ELSE path

-----------------------------------------------------------------------------
RouteInit ==
  /\ table \in Tables
  /\ location = [path |-> << >>, search |-> << >>] /\ changed = TRUE
  /\ current = Nil /\ routeParams = << >>
  /\ asked = location /\ redirects = 0

GoTo(p, s) ==
  /\ ~changed
  /\ location' = [path |-> p, search |-> s] /\ asked' = location'
  /\ changed' = (location' # location)
  /\ redirects' = 0
  /\ UNCHANGED <<table, current, routeParams>>

\* Only the search has changed, and the route does not care.
SameRoute(next) ==
  /\ next # Nil /\ current # Nil
  /\ next.pattern = current.pattern /\ next.own = current.own /\ ~next.route.reload

\* updateRoute; what it redirects to is the next location.
UpdateRoute ==
  LET next == ParseRoute(table, location)
      sent == [path |-> Rooted(Interpolate(next.route.to, next.params)),
               search |-> LeftOver(next.route.to, next.params)]
  IN /\ changed
     /\ IF SameRoute(next)
          THEN /\ current' = [current EXCEPT !.params = next.params]
               /\ routeParams' = next.params /\ changed' = FALSE
               /\ UNCHANGED <<location, redirects>>
        ELSE IF next = Nil \/ next.route.to = << >>
          THEN current' = next /\ changed' = FALSE /\ UNCHANGED <<location, redirects, routeParams>>
          ELSE /\ current' = next /\ location' = sent /\ changed' = (sent # location)
               /\ redirects' = redirects + 1 /\ UNCHANGED routeParams
     /\ UNCHANGED <<table, asked>>

\* What the route needs has come ($routeChangeSuccess).
Enter ==
  /\ ~changed /\ current # Nil
  /\ routeParams' = current.params
  /\ UNCHANGED <<table, location, changed, current, asked, redirects>>

RouteNext ==
  \/ \E p \in Paths, s \in Searches : GoTo(p, s)
  \/ UpdateRoute \/ Enter

-----------------------------------------------------------------------------
(* Properties *)

RouteTypeOK ==
  /\ table \in Tables /\ changed \in BOOLEAN /\ redirects \in 0..2
  /\ current = Nil \/ DOMAIN current = {"route", "pattern", "own", "params"}

\* However the user writes a path, with or without the slash at its end, and
\* whatever is behind the ?, he is sent on at most twice, and comes to a route
\* that shows something, for a path that it was registered for.
RedirectsEnd ==
  ~changed /\ current # Nil =>
    /\ current.route.to = << >> /\ redirects <= 2
    /\ \E i \in DOMAIN table : table[i].path = current.pattern /\ Matches(location.path, table[i].path)

\* Being sent on because of the slash loses no parameter: the route has those of
\* the path that the user gave and those behind the ?.
ParamsArrive ==
  ~changed /\ current # Nil /\ redirects <= 1 =>
    LET first == ParseRoute(table, asked) IN
    first.pattern # NoPath => current.params = first.params

RoutesKept == RedirectsEnd /\ ParamsArrive
=============================================================================
