------------------------------- MODULE Location -------------------------------
(***************************************************************************)
(* The address of the page (angular's $location and $browser, with the     *)
(* routes of navigation.js): links, redirections and the browser's history *)
(* change it, and a digest brings the others in step.  The browser has the *)
(* history API.  Nobody on this page prevents a change of the location.    *)
(***************************************************************************)
EXTENDS Naturals, Sequences

CONSTANT MaxEntries  \* bounds the length of the history

\* Redirections lead away from "/configuration" and from any unknown path.
Urls == {"/", "/configuration", "/configuration_forward", "/configuration_connection",
         "/monitor"}
RedirectTo(u) == CASE u = "/configuration" -> "/configuration_forward"
                   [] u = "/"              -> "/monitor"
                   [] OTHER                -> u
Views == {u \in Urls : RedirectTo(u) = u}

VARIABLES
  entries, at,     \* the history of the window, and where it stands
  lastBrowserUrl,  \* the last address that $browser set or was told of
  location,        \* [url, replace] of $location
  route            \* the address whose view is shown; "" before the first

locationVars == <<entries, at, lastBrowserUrl, location, route>>

LocationTypeOK ==
  /\ entries \in Seq(Urls) /\ at \in 1..Len(entries)
  /\ lastBrowserUrl \in Urls
  /\ location \in [url : Urls, replace : BOOLEAN]
  /\ route \in Urls \cup {""}

\* The page is opened at u.
LocationInit ==
  \E u \in Urls :
    /\ entries = <<u>> /\ at = 1
    /\ lastBrowserUrl = u
    /\ location = [url |-> u, replace |-> FALSE]
    /\ route = ""

-----------------------------------------------------------------------------
\* $browser.url(u, replace): pushing drops what was ahead.
SetUrl(w, u, replace) ==
  IF w.last = u THEN w
  ELSE LET kept == SubSeq(w.entries, 1, IF replace THEN w.at - 1 ELSE w.at) IN
       [w EXCEPT !.entries = Append(kept, u)
                               \o (IF replace THEN SubSeq(w.entries, w.at + 1, Len(w.entries))
                                              ELSE << >>),
                 !.at = Len(kept) + 1, !.last = u]

\* $locationChangeSuccess: the route is updated, and may redirect ($location.path,
\* then replace).
Changed(w) ==
  IF RedirectTo(w.loc.url) = w.loc.url
    THEN [w EXCEPT !.route = w.loc.url]
    ELSE [w EXCEPT !.loc = [url |-> RedirectTo(w.loc.url), replace |-> TRUE]]

\* A variant that does not take the request to replace back.
PublishKeepsReplace(w) == Changed(SetUrl(w, w.loc.url, w.loc.replace))

\* What $locationWatch does later, when it saw the address and $location differ.
Publish(w) ==
  Changed([SetUrl(w, w.loc.url, w.loc.replace) EXCEPT !.loc.replace = FALSE])

\* The digest: $locationWatch is called until it sees no difference.
TTL == 10
Settled(w) == w.route # "" /\ w.entries[w.at] = w.loc.url
DigestFrom(w) ==
  LET d[n \in 0..TTL] == IF n = 0 THEN w
                         ELSE LET v == d[n - 1] IN IF Settled(v) THEN v ELSE Publish(v)
  IN d[TTL]

Window == [entries |-> entries, at |-> at, last |-> lastBrowserUrl,
           loc |-> location, route |-> route]

LocationBecomes(w) ==
  /\ entries' = w.entries /\ at' = w.at
  /\ lastBrowserUrl' = w.last
  /\ location' = w.loc /\ route' = w.route

-----------------------------------------------------------------------------
\* The first digest publishes the address that the page was opened at.
Start ==
  /\ route = ""
  /\ LocationBecomes(DigestFrom(Window))

\* A click on a link: $$parse and $apply.
Follow(u) ==
  /\ route # "" /\ at < MaxEntries
  /\ LocationBecomes(DigestFrom([Window EXCEPT !.loc.url = u]))

\* The user goes back or forward: the window is there before popstate is told.
\* fireUrlChange notes the address; what the listener does later parses it.
Travel(i) ==
  /\ route # "" /\ i \in DOMAIN entries /\ i # at
  /\ LET there == [Window EXCEPT !.at = i] IN
     IF lastBrowserUrl = entries[i] THEN LocationBecomes(there)
     ELSE LET told == [there EXCEPT !.last = entries[i]] IN
          LocationBecomes(IF location.url = entries[i] THEN told
                          ELSE DigestFrom(Changed([told EXCEPT !.loc.url = entries[i]])))

LocationNext == Start \/ (\E u \in Urls : Follow(u)) \/ (\E i \in 1..MaxEntries : Travel(i))

-----------------------------------------------------------------------------
(* Properties *)

\* A link that leads elsewhere adds one entry, keeps all that was behind and
\* shows its view: whatever was redirected before, going back returns to where
\* the user was, and no address that redirects stays in the way.
LinksAreAdded ==
  [][\A u \in Urls :
       Follow(u) /\ location.url # u /\ route # "" =>
         /\ at' = at + 1 /\ Len(entries') = at'
         /\ SubSeq(entries', 1, at) = SubSeq(entries, 1, at)
         /\ entries'[at'] = RedirectTo(u) /\ route' = RedirectTo(u)
    ]_locationVars
=============================================================================
