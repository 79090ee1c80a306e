------------------------------- MODULE HttpData -------------------------------
(***************************************************************************)
(* What $http (angular) sends and what its callers get: the URL with its   *)
(* parameters, the headers, the data in both directions, and which callers *)
(* share an answer.  When the callers are told is the subject of Http.     *)
(***************************************************************************)
EXTENDS Naturals, Sequences, FiniteSets, SequencesExt, TLC

CONSTANTS
  MaxCalls,  \* bounds the calls of $http
  Configs,   \* what they are called with: method, params, data, headers, cache
  Answers,   \* the server's answers: status, text, headers
  Texts, HeaderTexts,  \* further texts and headers, for the functions on them
  None

Names == <<"a", "b">>  \* of the parameters, sorted

VARIABLES
  calls,     \* each call: its configuration, its URL and the call whose answer it gets
  requests,  \* the request of each call that made one
  cache,     \* the cached calls: URL -> call, or its answer
  got        \* what each call was told: by which callback, with which data

dataVars == <<calls, requests, cache, got>>

DataTypeOK ==
  /\ Len(requests) = Len(calls) /\ Len(got) = Len(calls)
  /\ \A i \in DOMAIN calls : calls[i].config \in Configs /\ calls[i].of \in 1..i
  /\ \A i \in DOMAIN got : got[i] = None \/ got[i].by \in {"success", "error"}

-----------------------------------------------------------------------------
(* The request *)

EncodeURIComponent(s) ==
  [i \in DOMAIN s |-> CASE s[i] = "&" -> "%26" [] s[i] = "=" -> "%3D" [] OTHER -> s[i]]

\* The parameters that are not null, sorted by name.
BuildUrl(url, params) ==
  LET given == SelectSeq(Names, LAMBDA n : n \in DOMAIN params /\ params[n] # None)
      part(n) == <<n, "=">> \o EncodeURIComponent(params[n])
  IN IF params = None THEN url
     ELSE url \o FoldLeft(LAMBDA acc, n : IF acc = <<"?">> THEN acc \o part(n)
                                          ELSE acc \o <<"&">> \o part(n), <<"?">>, given)

Lower(n) == IF n = "Date" THEN "date" ELSE n

Defaults(method) ==
  ("Accept" :> "json") @@ IF method \in {"POST", "PUT"} THEN "Content-Type" :> "json" ELSE << >>

\* The headers of the caller come before the defaults.
RequestHeaders(c) ==
  LET all == c.headers @@ Defaults(c.method) IN
  IF c.data.kind = "undefined" THEN [n \in DOMAIN all \ {"Content-Type"} |-> all[n]] ELSE all

\* toJson leaves out what angular keeps in an object ($$hashKey of ng-repeat).
TransformRequest(data) ==
  IF data.kind = "object" THEN [kind |-> "json", fields |-> data.fields \ {"$$hashKey"}]
                          ELSE data

Request(c, url) ==
  [method |-> c.method, url |-> url, headers |-> RequestHeaders(c),
   body |-> TransformRequest(c.data)]

-----------------------------------------------------------------------------
(* The answer *)

IsSuccess(status) == 200 <= status /\ status < 300

\* An aborted request has status 0; Internet Explorer says 1223 for 204.
Status(s) == IF s = 1223 THEN 204 ELSE IF s < 0 THEN 0 ELSE s

\* parseHeaders: the values of a name are joined, in the order of the lines.
ParseHeaders(lines) ==
  FoldLeft(LAMBDA parsed, l :
             IF l[1] = "" THEN parsed
             ELSE IF Lower(l[1]) \in DOMAIN parsed
               THEN [parsed EXCEPT ![Lower(l[1])] = Append(@, l[2])]
               ELSE (Lower(l[1]) :> <<l[2]>>) @@ parsed,
           << >>, lines)
HeadersGetter(parsed, name) ==
  IF Lower(name) \in DOMAIN parsed THEN parsed[Lower(name)] ELSE None

StripPrefix(s) == IF s # << >> /\ s[1] = ")]}'," THEN Tail(s) ELSE s
JsonStart(s) ==
  \E i \in DOMAIN s : /\ \A j \in 1..(i - 1) : s[j] = " "
                      /\ s[i] = "[" \/ (s[i] = "{" /\ i < Len(s) /\ s[i + 1] # "{")
JsonEnd(s) ==
  \E i \in DOMAIN s : s[i] \in {"}", "]"} /\ \A j \in (i + 1)..Len(s) : s[j] = " "

\* JSON.parse: an object without fields, or arrays of one element around one.
Json(s) ==
  LET word == SelectSeq(s, LAMBDA c : c # " ")
      n == Len(word)
  IN /\ n >= 2 /\ n % 2 = 0
     /\ SubSeq(word, n \div 2, n \div 2 + 1) \in {<<"{", "}">>, <<"[", "]">>}
     /\ \A i \in 1..(n \div 2 - 1) : word[i] = "[" /\ word[n + 1 - i] = "]"

\* A text that looks like JSON is parsed, and the parser may throw.
TransformResponse(text) ==
  LET s == StripPrefix(text) IN
  IF ~(JsonStart(s) /\ JsonEnd(s)) THEN [kind |-> "text", text |-> s]
  ELSE [kind |-> IF Json(s) THEN "json" ELSE "thrown",
        text |-> SelectSeq(s, LAMBDA c : c # " ")]

\* transformResponse of $http: a callback that throws rejects its promise.
Told(a) ==
  LET data == TransformResponse(a.text) IN
  IF data.kind = "thrown" THEN [by |-> "error", status |-> None, data |-> None, headers |-> << >>]
  ELSE [by |-> IF IsSuccess(a.status) THEN "success" ELSE "error", status |-> a.status,
        data |-> data, headers |-> ParseHeaders(a.headers)]

-----------------------------------------------------------------------------
(* Steps *)

\* $http(config), get, post...
Call(c) ==
  LET url == BuildUrl(<<"u">>, c.params)
      i   == Len(calls) + 1
      key == c.cache /\ c.method = "GET"
      hit == IF key /\ url \in DOMAIN cache THEN cache[url] ELSE None
      joins == hit # None /\ "of" \in DOMAIN hit
  IN /\ i <= MaxCalls
     /\ calls' = Append(calls, [config |-> c, url |-> url, of |-> IF joins THEN hit.of ELSE i])
     /\ requests' = Append(requests, IF hit = None THEN Request(c, url) ELSE None)
     /\ got' = Append(got, IF hit = None \/ joins THEN None ELSE Told(hit))
     /\ cache' = IF key /\ hit = None THEN (url :> [of |-> i]) @@ cache ELSE cache

\* `done': an answer that is not a success is not kept.
Answered(i, a) ==
  LET answer == [a EXCEPT !.status = Status(@)]
      url    == calls[i].url
  IN /\ requests[i] # None /\ got[i] = None
     /\ got' = [j \in DOMAIN got |-> IF calls[j].of = i THEN Told(answer) ELSE got[j]]
     /\ cache' = IF ~(url \in DOMAIN cache /\ cache[url] = [of |-> i]) THEN cache
                 ELSE IF IsSuccess(answer.status) THEN [cache EXCEPT ![url] = answer]
                 ELSE [u \in DOMAIN cache \ {url} |-> cache[u]]
     /\ UNCHANGED <<calls, requests>>

DataInit == calls = << >> /\ requests = << >> /\ cache = << >> /\ got = << >>
DataNext ==
  \/ \E c \in Configs : Call(c)
  \/ \E i \in DOMAIN calls, a \in Answers : Answered(i, a)

-----------------------------------------------------------------------------
(* Properties *)

\* The parameters that reach the server, as a function of their names.
Given(params) ==
  IF params = None THEN None
  ELSE [n \in {m \in DOMAIN params : params[m] # None} |-> params[n]]

\* A call whose answer is that of another asked, like that one, with GET and from
\* the cache, for the same parameters: no two sets of parameters make one URL.
OnlyEqualsShare ==
  \A i, j \in DOMAIN calls :
    LET a == calls[i].config  b == calls[j].config IN
    /\ calls[i].url = calls[j].url <=> Given(a.params) = Given(b.params)
    /\ requests[j] = None =>
         /\ b.cache /\ b.method = "GET"
         /\ \E k \in 1..(j - 1) : /\ requests[k] # None /\ calls[k].url = calls[j].url
                                  /\ calls[k].config.cache /\ calls[k].config.method = "GET"

\* A request says what its body is exactly if it has one that was given a type,
\* and none carries what angular wrote into the caller's object.
BodyIsTold ==
  \A i \in DOMAIN calls : requests[i] # None =>
    LET c == calls[i].config IN
    /\ ("Content-Type" \in DOMAIN requests[i].headers) <=>
         /\ c.data.kind # "undefined"
         /\ c.method \in {"POST", "PUT"} \/ "Content-Type" \in DOMAIN c.headers
    /\ "$$hashKey" \notin requests[i].body.fields

\* `success' is called with an answer of status 2xx, and never with a text that
\* looks like JSON and is not; who is served from the cache is called with
\* what the one was told whose answer it is.
SuccessIsReadable ==
  \A i \in DOMAIN got : got[i] # None =>
    /\ got[i].by = "success" => IsSuccess(got[i].status)
    /\ got[i].by = "error" => got[i].status = None \/ ~IsSuccess(got[i].status)
    /\ requests[i] = None => \E k \in 1..(i - 1) : requests[k] # None /\ got[k] = got[i]

\* Whatever JSON the server sends, with blanks or the prefix, is parsed; a text
\* that is none is handed on as it came, and so is a template that starts with {{.
JsonIsParsed ==
  calls = << >> => \A s \in Texts :
    LET data == TransformResponse(s) IN
    /\ Json(s) \/ (s # << >> /\ s[1] = ")]}'," /\ Json(Tail(s))) => data.kind = "json"
    /\ data.kind = "text" => data.text \in {s, StripPrefix(s)}
    /\ Len(s) > 1 /\ s[1] = "{" /\ s[2] = "{" => data.kind = "text"

\* A header is found by its name in any case, with all its values in their order.
HeadersAreFound ==
  calls = << >> => \A lines \in HeaderTexts, name \in {"Date", "date", "Accept"} :
    LET of == SelectSeq(lines, LAMBDA l : l[1] # "" /\ Lower(l[1]) = Lower(name)) IN
    HeadersGetter(ParseHeaders(lines), name) =
      IF of = << >> THEN None ELSE [i \in DOMAIN of |-> of[i][2]]

DataKept ==
  OnlyEqualsShare /\ BodyIsTold /\ SuccessIsReadable /\ JsonIsParsed /\ HeadersAreFound
=============================================================================
