-------------------------------- MODULE Urls --------------------------------
(***************************************************************************)
(* What $location (angular) makes of an address, and an address of what    *)
(* the page sets: the path, the search and the hash, each encoded in its   *)
(* own way.  The page uses the hash of its address for them ("hashbang",   *)
(* without a prefix); links may be given in the other form ("html5").      *)
(***************************************************************************)
EXTENDS Naturals, Sequences, FiniteSets, SequencesExt

CONSTANTS
  BasePath,  \* the path of the page
  Paths, Hashes, Names, Values,  \* the texts that the page sets
  Given      \* the texts that the page passes to url()

\* A text is a sequence of characters; an escape counts as a character, and may be
\* escaped once more.
EscapeOf == [c \in {"/", "?", "#", "&", "=", "%3F"} |->
               CASE c = "/" -> "%2F" [] c = "?" -> "%3F" [] c = "#" -> "%23"
                 [] c = "&" -> "%26" [] c = "=" -> "%3D" [] c = "%3F" -> "%253F"]
Escaped == {EscapeOf[c] : c \in DOMAIN EscapeOf}
True == <<"true">>  \* the value of a parameter that has none

\* encodeUriSegment leaves & and = as they are.
EncodeUriSegment(s) ==
  [i \in DOMAIN s |-> IF s[i] \in {"/", "?", "#", "%3F"} THEN EscapeOf[s[i]] ELSE s[i]]
EncodePath(s) ==
  [i \in DOMAIN s |-> IF s[i] \in {"?", "#", "%3F"} THEN EscapeOf[s[i]] ELSE s[i]]
EncodeUriQuery(s) ==
  [i \in DOMAIN s |-> IF s[i] \in DOMAIN EscapeOf THEN EscapeOf[s[i]] ELSE s[i]]
Decode(s) ==
  [i \in DOMAIN s |-> IF s[i] \in Escaped THEN CHOOSE c \in DOMAIN EscapeOf : EscapeOf[c] = s[i]
                                          ELSE s[i]]

VARIABLES
  mode,                \* "hashbang" or "html5"
  port,                \* $$port
  path, search, hash,  \* $$path, $$search as a sequence of names and values, $$hash
  url, absUrl          \* $$url and $$absUrl as they were composed

urlVars == <<mode, port, path, search, hash, url, absUrl>>

UrlTypeOK ==
  /\ mode \in {"hashbang", "html5"} /\ port \in {80, 8080}
  /\ \A i, j \in DOMAIN search : search[i][1] = search[j][1] => i = j
  /\ absUrl.port \in {0, 8080}

-----------------------------------------------------------------------------
\* s up to the first of the characters `stops'.
Cut(s, stops) ==
  SubSeq(s, 1, CHOOSE n \in 0..Len(s) : /\ n = Len(s) \/ s[n + 1] \in stops
                                        /\ \A i \in 1..n : s[i] \notin stops)

Split(s, c) ==
  FoldLeft(LAMBDA acc, x : IF x = c THEN Append(acc, << >>)
                           ELSE [acc EXCEPT ![Len(acc)] = Append(@, x)], << << >> >>, s)

\* PATH_MATCH, and the end of URL_MATCH: what is before, between and behind ? and #.
Match(s) ==
  LET before == Cut(s, {"?", "#"})
      rest   == SubSeq(s, Len(before) + 1, Len(s))
      query  == IF rest # << >> /\ rest[1] = "?" THEN Cut(rest, {"#"}) ELSE << >>
      end    == SubSeq(rest, Len(query) + 1, Len(rest))
  IN [path |-> before, query |-> query, search |-> IF query = << >> THEN << >> ELSE Tail(query),
      hashed |-> end # << >>, hash |-> IF end = << >> THEN << >> ELSE Tail(end)]

\* matchUrl: the port is that of the protocol unless it is given.
MatchUrl(u) ==
  LET m == Match(u.text) IN
  [port |-> IF u.port = 0 THEN 80 ELSE u.port,
   path |-> IF m.path = << >> THEN <<"/">> ELSE m.path,
   query |-> m.query, search |-> m.search, hashed |-> m.hashed, hash |-> m.hash]

ComposeProtocolHostPort(p, text) == [port |-> IF p = 80 THEN 0 ELSE p, text |-> text]

Put(pairs, name, v) ==
  IF \E i \in DOMAIN pairs : pairs[i][1] = name
    THEN [i \in DOMAIN pairs |-> IF pairs[i][1] = name THEN <<name, v>> ELSE pairs[i]]
    ELSE Append(pairs, <<name, v>>)

ParseKeyValue(s) ==
  FoldLeft(LAMBDA acc, part :
             LET sides == Split(part, "=") IN
             IF part = << >> THEN acc
             ELSE Put(acc, Decode(sides[1]), IF Len(sides) = 1 THEN True ELSE Decode(sides[2])),
           << >>, Split(s, "&"))

ToKeyValue(pairs) ==
  LET part(p) == EncodeUriQuery(p[1]) \o
                 (IF p[2] = True THEN << >> ELSE <<"=">> \o EncodeUriQuery(p[2]))
  IN FoldLeft(LAMBDA acc, p : IF acc = << >> THEN part(p) ELSE acc \o <<"&">> \o part(p),
              << >>, pairs)

PathPrefix == SubSeq(BasePath, 1, CHOOSE n \in 0..Len(BasePath) :
                       /\ BasePath[n + 1] = "/" /\ \A i \in (n + 2)..Len(BasePath) : BasePath[i] # "/")
Without(prefix, s) == SubSeq(s, Len(prefix) + 1, Len(s))

\* The $$parse of either class: what an address stands for.
Parse(m, u) ==
  LET all == MatchUrl(u)
      part == IF m = "html5" THEN [all EXCEPT !.path = Without(PathPrefix, @)] ELSE Match(all.hash)
  IN [path |-> IF m = "hashbang" /\ part.path # << >> /\ part.path[1] # "/"
                 THEN <<"/">> \o Decode(part.path) ELSE Decode(part.path),
      search |-> ParseKeyValue(part.search), hash |-> Decode(part.hash)]

\* The $$compose of either class, with what the page is loaded from.
Url(p, s, h) ==
  EncodePath(p) \o (IF ToKeyValue(s) = << >> THEN << >> ELSE <<"?">> \o ToKeyValue(s))
                \o (IF h = << >> THEN << >> ELSE <<"#">> \o EncodeUriSegment(h))
AbsUrl(m, p, text) ==
  ComposeProtocolHostPort(p, IF m = "html5" THEN PathPrefix \o text
                             ELSE IF text = << >> THEN BasePath ELSE BasePath \o <<"#">> \o text)

Becomes(l) ==
  /\ path' = l.path /\ search' = l.search /\ hash' = l.hash
  /\ url' = Url(l.path, l.search, l.hash)
  /\ absUrl' = AbsUrl(mode, port, Url(l.path, l.search, l.hash))
  /\ UNCHANGED <<mode, port>>

Here == [path |-> path, search |-> search, hash |-> hash]
Slashed(p) == IF p # << >> /\ p[1] = "/" THEN p ELSE <<"/">> \o p

-----------------------------------------------------------------------------
\* $location.url(u): the hash is taken as it is, escapes and all.
After(l, u) ==
  LET m == Match(u)
      step == IF m.path = << >> THEN l ELSE [l EXCEPT !.path = Slashed(Decode(m.path))]
      next == IF m.path = << >> /\ m.query = << >> THEN step
              ELSE [step EXCEPT !.search = ParseKeyValue(m.search)]
  IN [next EXCEPT !.hash = m.hash]

SetPath(p)      == Becomes([Here EXCEPT !.path = Slashed(p)])
SetHash(h)      == Becomes([Here EXCEPT !.hash = h])
SetParam(n, v)  == Becomes([Here EXCEPT !.search = Put(@, n, v)])
DropParam(n)    == Becomes([Here EXCEPT !.search = SelectSeq(@, LAMBDA p : p[1] # n)])
SetUrl(u)       == Becomes(After(Here, u))

\* convertToHtml5Url and convertToHashbangUrl
ToHtml5(u) ==
  LET m == MatchUrl(u) IN
  IF Decode(m.path) # BasePath \/ ~m.hashed THEN u
  ELSE ComposeProtocolHostPort(m.port, PathPrefix \o m.hash)
ToHashbang(u) ==
  LET m == MatchUrl(u) IN
  IF Decode(m.path) = BasePath THEN u
  ELSE ComposeProtocolHostPort(m.port, BasePath \o <<"#">> \o Without(PathPrefix, m.path)
         \o (IF m.search = << >> THEN << >> ELSE m.query)
         \o (IF m.hash = << >> THEN << >> ELSE <<"#">> \o m.hash))

\* The page is opened at the address that the server gives it.
UrlInit ==
  /\ mode \in {"hashbang", "html5"} /\ port \in {80, 8080}
  /\ path = (IF mode = "html5" THEN <<"/">> ELSE << >>) /\ search = << >> /\ hash = << >>
  /\ url = path /\ absUrl = AbsUrl(mode, port, url)

UrlNext ==
  \/ \E p \in Paths : SetPath(p)
  \/ \E h \in Hashes : SetHash(h)
  \/ \E n \in Names : DropParam(n) \/ \E v \in Values : SetParam(n, v)
  \/ \E u \in Given : SetUrl(u)

-----------------------------------------------------------------------------
(* Properties *)

\* Whatever was set, in whatever order, the address of the window stands for it:
\* read again, after a reload or when the user comes back, it gives the same path,
\* search, hash and port; and its two forms lead to one another, but for the path
\* of the page itself.
AddressIsLocation ==
  /\ Parse(mode, absUrl) = Here /\ MatchUrl(absUrl).port = port
  /\ hash = EncodeUriSegment(hash) => After(Here, url) = Here
  /\ mode = "hashbang" /\ path # << >> =>
       /\ Parse("html5", ToHtml5(absUrl)) = Here
       /\ path # BasePath => ToHashbang(ToHtml5(absUrl)) = absUrl
=============================================================================
