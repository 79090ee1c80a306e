------------------------------- MODULE MCParts -------------------------------
(***************************************************************************)
(* The parts of the server and of the page that share no state with one    *)
(* another, each on an instance of its own.  The initial state chooses the *)
(* one part that runs: the states are the sum of theirs, not the product.  *)
(* Of the page's parts only the one that runs has variables: they stand in *)
(* the slots v1, v2, ... in the order in which its instance names them.    *)
(***************************************************************************)
EXTENDS SocksSession, ConfigStore, KnownHosts, ProxyTunnel, LruCache, Location,
        Promises, Http, ConnectionDialog, Scopes, Injector, Elements

CONSTANTS Null, w1, i1, i2, i3

VARIABLES
  part,  \* the part that runs
  v1, v2, v3, v4, v5, v6, v7, v8, v9, v10, v11

slots == <<v1, v2, v3, v4, v5, v6, v7, v8, v9, v10, v11>>

allVars == <<part, vars, storeVars, knownVars, tunnelVars, lruVars, locationVars, promiseVars,
             httpVars, connectionVars, scopeVars, loaderVars, registryVars, injectorVars,
             elementVars, interpolateVars, slots>>

\* The parts with variables of their own, and how many slots the others take.
Named == {"socks", "store", "hosts", "tunnel", "lru", "location", "promises", "http", "dialog",
          "scopes", "loader", "registry", "injector", "elements", "interpolate"}
Slots == [events |-> 11, data |-> 4, resource |-> 3, repeat |-> 4, select |-> 5, compile |-> 5,
          copies |-> 3, hashes |-> 9, lexer |-> 2, parser |-> 2, paths |-> 5, filters |-> 2]
AllParts == Named \cup DOMAIN Slots
Taken == IF part \in Named THEN 0 ELSE Slots[part]

-----------------------------------------------------------------------------
(* The instances and what they are given *)

Upto(n, S) == UNION {[1..k -> S] : k \in 0..n}

Event == INSTANCE Events WITH
  ScopeIds <- {"r", "x", "y", "z", "n"}, Root <- "r", Cells <- {"m"}, Iterations <- 1,
  Effects <- 2, MaxWatchers <- 1, MaxListeners <- 3,
  link <- v1, kids <- v2, cell <- v3, watchers <- v4, queue <- v5, digest <- v6, left <- v7,
  listeners <- v8, event <- v9, heard <- v10, expected <- v11

\* Parameters that need encoding, and the marks by which an answer is known for JSON.
Sent(kind, fields) == [kind |-> kind, fields |-> fields]
MCConfigs ==
  {[method |-> "GET", params |-> p, data |-> Sent("undefined", {}), headers |-> << >>, cache |-> TRUE]
     : p \in {None, << >>, [a |-> <<"1">>], [a |-> <<"1">>, b |-> None],
              [a |-> <<"1", "&", "b", "=", "1">>], [a |-> <<"1">>, b |-> <<"1">>]}}
  \cup {[method |-> "GET", params |-> None, data |-> Sent("undefined", {}),
         headers |-> ("Content-Type" :> "own"), cache |-> FALSE],
        [method |-> "POST", params |-> None, data |-> Sent("object", {"x", "$$hashKey"}),
         headers |-> << >>, cache |-> TRUE],
        [method |-> "POST", params |-> None, data |-> Sent("undefined", {}),
         headers |-> << >>, cache |-> FALSE]}
MCAnswers ==
  {[status |-> 200, text |-> t, headers |-> << >>] : t \in {<<"[", "]">>, <<"{", " ">>}}
  \cup {[status |-> s, text |-> << >>, headers |-> << >>] : s \in {1223, 500}}
  \cup {[status |-> 0 - 1, text |-> <<"{", " ", "]">>, headers |-> << >>]}

Data == INSTANCE HttpData WITH
  MaxCalls <- 2, Configs <- MCConfigs, Answers <- MCAnswers,
  Texts <- Upto(4, {"{", "}", "[", "]", " ", ")]}',"}),
  HeaderTexts <- Upto(3, {"Date", "date", "", "Accept"} \X {"1", "2"}),
  calls <- v1, requests <- v2, cache <- v3, got <- v4

Config == INSTANCE Resource WITH
  MaxCalls <- 2, Templates <- {<<"config", "id">>}, Params <- {"id", "edit"},
  template <- v1, calls <- v2, content <- v3

\* Two copies of one object, and another object.
MCItems == {<<"a", 1>>, <<"a", 2>>, <<"b", 1>>}

Rows == INSTANCE Repeat WITH
  Items <- MCItems, MaxLength <- 3, Comment <- 0,
  collection <- v1, dom <- v2, row <- v3, lastOrder <- v4

Select == INSTANCE SelectOptions WITH
  Items <- MCItems, MaxLength <- 2,
  kind <- v1, collection <- v2, modelValue <- v3, options <- v4, selected <- v5

Template == INSTANCE Compile WITH
  Nodes <- {1, 2, 3}, MaxDirectives <- 4, MaxRows <- 2,
  parent <- v1, ds <- v2, trace <- v3, pending <- v4, rows <- v5

\* Texts with every arrangement of {{, }}, and x or nothing between them.
MCTemplates ==
  {s \in Upto(4, {"{{", "}}", "x", "-"}) :
     \A i, j \in DOMAIN s :
       /\ i < j /\ s[i] = "{{" /\ s[j] = "}}"
       /\ \A k \in (i + 1)..(j - 1) : s[k] # "}}"
       => SubSeq(s, i + 1, j - 1) \in {<< >>, <<"x">>}}

MCClasses ==
  {[kind |-> "text", on |-> s, off |-> {}] : s \in {{}, {"a"}}}
  \cup {[kind |-> "array", on |-> {"b"}, off |-> {}], [kind |-> "object", on |-> {"b"}, off |-> {"a"}]}
MCConditions ==
  {[kind |-> "nothing", items |-> << >>], [kind |-> "text", items |-> <<"no">>],
   [kind |-> "text", items |-> <<"x">>]}
  \cup {[kind |-> "array", items |-> s] : s \in {<<"f">>, <<"f", "f">>}}

MCShownValues == {NoValue, "v", "json"}

\* A source that may lead to two further objects, an object apart, and a destination.
Field(o) == [object |-> TRUE, is |-> o]
NoField  == [object |-> FALSE, is |-> 1]
Fill(objects, hashes) ==
  {f \in [{"a", "b", "$$hashKey"} -> {Field(o) : o \in objects}
                                       \cup {[object |-> FALSE, is |-> v] : v \in 0..2}] :
     f["$$hashKey"] \in hashes}
MCHeaps ==
  LET new == [k \in {"a", "b", "$$hashKey"} |-> NoField] IN
  {<<f, g, new, [new EXCEPT !["a"] = Field(3), !["b"] = [object |-> FALSE, is |-> 3]]>>
     : f \in Fill({2, 3}, {NoField, [object |-> FALSE, is |-> 2]}),
       g \in Fill({3}, {[object |-> FALSE, is |-> 2]})}

Copy == INSTANCE Objects WITH
  Heaps <- MCHeaps, MaxObject <- 14, Digits <- <<"0", "Z">>,
  Items <- {[type |-> "object", text |-> <<o>>] : o \in {"p", "q"}},
  Primitives <- {[type |-> "string", text |-> <<"Z">>]},
  Contents <- {"v", "w"}, MaxUids <- 4, MaxQueue <- 2,
  heap <- v1, before <- v2, result <- v3,
  uid <- v1, uids <- v2, made <- v3, hashOf <- v4, queues <- v5, original <- v6,
  waiting <- v7, returned <- v8, due <- v9

\* Of each level an operator with those of others, with brackets and without.
MCTokenSets ==
  {{"x", "-", "==", "=", "|"}, {"x", "+", "-", "(", ")"}, {"x", "+", "=", "(", ")"},
   {"x", "=", "|", "(", ")"}, {"x", "1", "=", "!", ";"}, {"x", "==", "(", ")", ";"},
   {"x", "*", "<", "&&", "||"}}

Parse == INSTANCE Expressions WITH
  Alphabets <- {{"a", ".", " ", "(", "="}, {"1", "e", ".", "-"}, {"a", "\\", "'"}}, MaxText <- 5,
  TokenSets <- MCTokenSets, MaxTokens <- 5, MaxKeys <- 6,
  text <- v1, lexed <- v2, tokens <- v1, value <- v2,
  keys <- v1, property <- v2, owned <- v3, told <- v4, asked <- v5

\* The ways to write an argument.
Dressed(n) ==
  {<<n>>, <<" ", n, " ">>, <<"_", n, "_">>, <<"/*", ",", "*/", n>>, <<n, "/*", "a", "_", "*/", " ">>}
MCArgumentLists ==
  {[text |-> << >>, names |-> << >>]}
  \cup {[text |-> a, names |-> << <<"a">> >>] : a \in Dressed("a")}
  \cup {[text |-> a \o <<",">> \o b, names |-> << <<"a">>, <<"b">> >>]
          : a \in Dressed("a"), b \in Dressed("b")}

MCOrder == <<"m", "app">>

Scalar(s)   == [kind |-> "plain", text |-> s, fields |-> << >>]
Holding(f) == [kind |-> "object", text |-> << >>, fields |-> f]
MCTexts  == {<< >>, <<"b">>, <<"!", "b">>, <<"!", "!", "A">>, <<"!">>, <<"a", "b">>}
MCValues == {Scalar(<<"a", "B">>), Scalar(<<"b">>), Holding([x |-> Scalar(<<"b", "a">>)]),
             Holding([x |-> Holding("y" :> Scalar(<<"a">>) @@ "$$hashKey" :> Scalar(<<"b">>))])}
\* Texts that differ in their letters or only in a capital, numbers, and nothing.
MCKeyed  == {[k |-> v, l |-> w] :
               v \in {[type |-> "string", of |-> <<1, "a">>], [type |-> "string", of |-> <<1, "A">>]},
               w \in {[type |-> "number", of |-> 1], [type |-> "undefined", of |-> 0]}}
            \cup {[k |-> [type |-> "string", of |-> <<2, "A">>], l |-> [type |-> "number", of |-> 2]]}
MCPredicates == [key : {"k", "l"}, descending : BOOLEAN]
Groups(least, most, end, other) ==
  [minFrac |-> least, maxFrac |-> most, lgSize |-> end, gSize |-> other]
MCJobs ==
  {[of |-> "filter", array |-> a, expression |-> e] :
     a \in Upto(2, MCValues),
     e \in [{"$"} -> MCTexts] \cup [{"x"} -> MCTexts] \cup [{"$", "x"} -> MCTexts]}
  \cup {[of |-> "orderBy", array |-> a, predicates |-> p, reverse |-> r] :
          a \in [1..3 -> MCKeyed], r \in BOOLEAN,
          p \in {q \in Upto(2, MCPredicates) : q # << >> /\ (Len(q) = 2 => q[1].key # q[2].key)}}
  \cup {[of |-> "limitTo", array |-> a, limit |-> n] :
          a \in {<< >>, <<1>>, <<1, 2, 3>>}, n \in (0 - 4)..4 \cup {Undefined}}
  \cup {j \in {[of |-> "number", number |-> n, negative |-> neg, size |-> z, pattern |-> p] :
          n \in {0, 4, 5, 60, 499, 500, 999, 1000, 9994, 9995, 99999, 999500, 1000000, 9999999,
                 12345678, 99999500, 123456789},
          neg \in BOOLEAN, z \in {Undefined} \cup 0..4,
          p \in {Groups(0, 3, 3, 3), Groups(2, 2, 3, 3), Groups(0, 3, 3, 2)}} :
            j.negative => j.number # 0}
  \cup {[of |-> "date", year |-> y, month |-> m, hour |-> h] :
          y \in {5, 1999, 2000}, m \in {0, 8, 9, 11}, h \in 0..23}

Filter == INSTANCE Filters WITH Jobs <- MCJobs, job <- v1, result <- v2

-----------------------------------------------------------------------------
Unused(n, v) == IF n <= Taken THEN TRUE ELSE v = << >>

SlotsInit ==
  /\ CASE part \in Named -> TRUE
       [] part = "events" -> Event!EventInit
       [] part = "data" -> Data!DataInit           [] part = "resource" -> Config!ResourceInit
       [] part = "repeat" -> Rows!RepeatInit       [] part = "select" -> Select!SelectInit
       [] part = "compile" -> Template!CompileInit [] part = "copies" -> Copy!CopyInit
       [] part = "hashes" -> Copy!HashInit         [] part = "lexer" -> Parse!LexerInit
       [] part = "parser" -> Parse!ExpressionInit  [] part = "paths" -> Parse!PathInit
       [] part = "filters" -> Filter!FilterInit
  /\ Unused(1, v1) /\ Unused(2, v2) /\ Unused(3, v3) /\ Unused(4, v4) /\ Unused(5, v5)
  /\ Unused(6, v6) /\ Unused(7, v7) /\ Unused(8, v8) /\ Unused(9, v9) /\ Unused(10, v10)
  /\ Unused(11, v11)

OneOf(S) == CHOOSE e \in S : TRUE

\* What the parts that do not run may start with is chosen once and for all.
PartsInit ==
  /\ part \in AllParts
  /\ Init /\ (part = "socks" \/ req = [cmd |-> "bind", ip |-> TRUE])
  /\ SaveInit /\ configXml = i1
  /\ KnownInit /\ (part = "hosts" \/ hostKey = [h \in Hosts |-> "k1"])
  /\ IF part = "tunnel" THEN answer \in [1..5 -> Bytes] ELSE answer = << >>
  /\ TunnelInit
  /\ LruInit
  /\ LocationInit /\ (part = "location" \/ lastBrowserUrl = "/monitor")
  /\ PromiseInit
  /\ HttpInit
  /\ ConnectionInit
  /\ part = "dialog" \/ (patient /\ server = [c \in Connections |-> Nil] /\ edit.of = "c")
  /\ ScopeInit
  /\ IF part = "loader" THEN requires \in [Modules -> SUBSET Modules] /\ declared \in SUBSET Modules
                        ELSE requires = [m \in Modules |-> {}] /\ declared = {}
  /\ LoaderInit /\ RegistryInit
  /\ IF part = "injector" THEN asks \in [Services -> SUBSET Services] /\ provided \in SUBSET Services
                          ELSE asks = [s \in Services |-> {}] /\ provided = {}
  /\ InjectorInit
  /\ IF part = "elements" THEN TRUE
     ELSE classValue = OneOf(ClassValues) /\ condition = OneOf(Conditions) /\ href = ""
  /\ ElementInit
  /\ IF part = "interpolate" THEN TRUE ELSE place = "text" /\ template = << >> /\ xValue = NoValue
  /\ InterpolateInit
  /\ SlotsInit

\* Every part but p stays as it is.
Kept(n, v) == IF n <= Taken THEN TRUE ELSE UNCHANGED v

Alone(p) ==
  /\ part = p /\ UNCHANGED part
  /\ IF p = "socks" THEN TRUE ELSE UNCHANGED vars
  /\ IF p = "store" THEN TRUE ELSE UNCHANGED storeVars
  /\ IF p = "hosts" THEN TRUE ELSE UNCHANGED knownVars
  /\ IF p = "tunnel" THEN TRUE ELSE UNCHANGED tunnelVars
  /\ IF p = "lru" THEN TRUE ELSE UNCHANGED lruVars
  /\ IF p = "location" THEN TRUE ELSE UNCHANGED locationVars
  /\ IF p = "promises" THEN TRUE ELSE UNCHANGED promiseVars
  /\ IF p = "http" THEN TRUE ELSE UNCHANGED httpVars
  /\ IF p = "dialog" THEN TRUE ELSE UNCHANGED connectionVars
  /\ IF p = "scopes" THEN TRUE ELSE UNCHANGED scopeVars
  /\ IF p = "loader" THEN TRUE ELSE UNCHANGED loaderVars
  /\ IF p = "registry" THEN TRUE ELSE UNCHANGED registryVars
  /\ IF p = "injector" THEN TRUE ELSE UNCHANGED injectorVars
  /\ IF p = "elements" THEN TRUE ELSE UNCHANGED elementVars
  /\ IF p = "interpolate" THEN TRUE ELSE UNCHANGED interpolateVars
  /\ Kept(1, v1) /\ Kept(2, v2) /\ Kept(3, v3) /\ Kept(4, v4) /\ Kept(5, v5) /\ Kept(6, v6)
  /\ Kept(7, v7) /\ Kept(8, v8) /\ Kept(9, v9) /\ Kept(10, v10) /\ Kept(11, v11)

PartsNext ==
  \/ part = "socks"       /\ Next                      /\ Alone("socks")
  \/ part = "store"       /\ SaveNext                  /\ Alone("store")
  \/ part = "hosts"       /\ KnownNext                 /\ Alone("hosts")
  \/ part = "tunnel"      /\ TunnelNext                /\ Alone("tunnel")
  \/ part = "lru"         /\ LruNext                   /\ Alone("lru")
  \/ part = "location"    /\ LocationNext              /\ Alone("location")
  \/ part = "scopes"      /\ ScopeNext                 /\ Alone("scopes")
  \/ part = "events"      /\ Event!EventNext           /\ Alone("events")
  \/ part = "promises"    /\ PromiseNext               /\ Alone("promises")
  \/ part = "http"        /\ HttpNext                  /\ Alone("http")
  \/ part = "data"        /\ Data!DataNext             /\ Alone("data")
  \/ part = "resource"    /\ Config!ResourceNext       /\ Alone("resource")
  \/ part = "repeat"      /\ Rows!RepeatNext           /\ Alone("repeat")
  \/ part = "select"      /\ Select!SelectNext         /\ Alone("select")
  \/ part = "compile"     /\ Template!CompileNext      /\ Alone("compile")
  \/ part = "interpolate" /\ InterpolateNext           /\ Alone("interpolate")
  \/ part = "elements"    /\ ElementNext               /\ Alone("elements")
  \/ part = "dialog"      /\ ConnectionNext            /\ Alone("dialog")
  \/ part = "copies"      /\ Copy!CopyNext             /\ Alone("copies")
  \/ part = "hashes"      /\ Copy!HashNext             /\ Alone("hashes")
  \/ part = "lexer"       /\ Parse!LexAll              /\ Alone("lexer")
  \/ part = "parser"      /\ Parse!ParseAll            /\ Alone("parser")
  \/ part = "paths"       /\ Parse!PathNext            /\ Alone("paths")
  \/ part = "loader"      /\ LoaderNext                /\ Alone("loader")
  \/ part = "registry"    /\ RegistryNext              /\ Alone("registry")
  \/ part = "injector"    /\ InjectorNext              /\ Alone("injector")
  \/ part = "filters"     /\ Filter!ApplyFilter        /\ Alone("filters")

\* The fairness is that of SocksSession.
InSocks(A) == part = "socks" /\ A /\ Alone("socks")

PartsSpec ==
  /\ PartsInit /\ [][PartsNext]_allVars
  /\ WF_allVars(InSocks(Main)) /\ WF_allVars(InSocks(Second))
  /\ WF_allVars(InSocks(ChannelCloses))

-----------------------------------------------------------------------------
(* The properties of the parts that are extended stand in their modules; these *)
(* are those of the others, each explained in the module of its part.          *)

\* An event is heard once by everybody whom it concerns and who still lives,
\* whatever the listeners do to the tree of scopes meanwhile.
HeardOnce == part = "events" => Event!HeardOnce /\ Event!LinksAreTree

\* From the server to the rows of the page: a call of $http asks for what its
\* configuration says and is told what the server answered, a call of a resource
\* fills its own value, and a copy of that shares nothing with it; every row of
\* ng-repeat shows its own item at its place, found by a hash key that no other item
\* has; and a select shows the model among its options.
RowsFollow ==
  /\ part = "data" => Data!DataKept
  /\ part = "resource" => Config!ResourceKept
  /\ part = "copies" => Copy!CopiesAreApart
  /\ part = "repeat" => Rows!RowsFollow
  /\ part = "hashes" => Copy!HashKeysKept
  /\ part = "select" => Select!SelectShowsModel

\* Each directive of a template is linked once; after a digest a text or an
\* attribute is its template filled in; and a filter keeps, orders and writes what
\* it was given.
TemplatesAreShown ==
  /\ part = "compile" => Template!LinkedOnce
  /\ part = "interpolate" => ShowsTheModel
  /\ part = "filters" => Filter!FiltersKept

\* What the lexer makes of a text is that text, what the parser accepts is the
\* grammar, its tree is the only one, a path is read as what it stands for; and what
\* the scripts register is found by the names in a function's text.
ParsesTheGrammar ==
  /\ part = "lexer" => Parse!TokensAreTheText
  /\ part = "parser" => Parse!ParsesTheGrammar
  /\ part = "paths" => Parse!PathsAreRead
  /\ part = "registry" => RegistryKept
==============================================================================
