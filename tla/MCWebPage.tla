------------------------------ MODULE MCWebPage ------------------------------
(***************************************************************************)
(* An instance of WebPage for TLC, and beside it the parts of the page     *)
(* that share no state with it or with one another: its forms, dates and   *)
(* date pickers, its addresses and its routes.  The initial state chooses  *)
(* the one part that runs; the variables of those that are not `page'      *)
(* stand in the slots v1, v2, ... in the order in which its instance names *)
(* them.                                                                   *)
(***************************************************************************)
EXTENDS WebPage, Integers, Sequences, TLC

CONSTANTS s1, c1, Nil

VARIABLES
  part,  \* the part that runs
  v1, v2, v3, v4, v5, v6, v7, v8, v9

slots == <<v1, v2, v3, v4, v5, v6, v7, v8, v9>>

allVars == <<part, vars, slots>>

\* How many slots each part takes.
Taken == [page |-> 0, form |-> 5, tree |-> 8, input |-> 9, urls |-> 7, routes |-> 7,
          dates |-> 2, pickers |-> 3]

-----------------------------------------------------------------------------
(* The instances and what they are given *)

MCKindOf == s1 :> "session" @@ c1 :> "connection"

MCUsers ==
  {[paths |-> {"/monitor", "/configuration_connection"}, adds |-> {}],
   [paths |-> {"/configuration"}, adds |-> {s1}],
   [paths |-> {"/configuration_connection"}, adds |-> {c1}],
   [paths |-> {"/", "/monitor/", "/configuration_forward"}, adds |-> {}]}

Upto(n, S) == UNION {[1..k -> S] : k \in 0..n}

Dialog == INSTANCE DialogForm WITH
  view <- v1, model <- v2, modelValue <- v3, control <- v4, form <- v5

\* One control in a form, and two of the same name in a form within it.
Tree == INSTANCE FormTree WITH
  Forms <- {"f", "g"}, Controls <- {"p", "q", "r"}, Tokens <- {"required", "number"},
  Above  <- [e \in {"f", "g", "p", "q", "r"} |->
               CASE e = "f" -> Nil [] e \in {"g", "p"} -> "f" [] OTHER -> "g"],
  NameOf <- [e \in {"f", "g", "p", "q", "r"} |-> IF e \in {"f", "g"} THEN e ELSE "n"],
  live <- v1, removed <- v2, fields <- v3, errors <- v4, counts <- v5, valids <- v6,
  dead <- v7, failing <- v8,
  type <- v1, inputEvent <- v2, shown <- v3, viewValue <- v4, modelValue <- v5, model <- v6,
  invalid <- v7, timeout <- v8, changed <- v9

Address == INSTANCE Urls WITH
  BasePath <- <<"/", "i">>,
  Paths  <- {<<"/", "a">>, <<"/", "?">>, <<"a", "/">>, <<"?", "a">>, << >>, <<"/", "i">>},
  Hashes <- {<< >>, <<"a">>, <<"#">>, <<"?", "/">>}, Names <- {<<"a">>, <<"&">>},
  Values <- {<< >>, <<"=">>, <<"true">>},
  Given  <- {<<"/", "a", "#", "%3F">>, <<"?", "a", "=", "%26">>, <<"%2F", "a">>, << >>, <<"?">>,
             <<"#", "a">>},
  mode <- v1, port <- v2, path <- v3, search <- v4, hash <- v5, url <- v6, absUrl <- v7

\* Routes as the page has them, and with parameters.
View(p)     == [path |-> p, to |-> << >>, reload |-> TRUE]
Calm(p)     == [path |-> p, to |-> << >>, reload |-> FALSE]
Otherwise(p) == [path |-> <<"null">>, to |-> p, reload |-> TRUE]
MCTables ==
  {<<View(<<"a">>), View(<<"b">>), Otherwise(<<"a">>)>>,
   <<View(<<"a">>), Calm(<<"a", ":i">>), Otherwise(<<"a">>)>>,
   <<View(<<"a", ":i">>), View(<<"a">>)>>,
   <<View(<<"a", ":i", "">>), View(<<"">>), Otherwise(<<"">>)>>}

Visit == INSTANCE Routes WITH
  Tables <- MCTables, Params <- {":i"},
  Paths <- (Upto(2, {"a", "1", ""}) \ {<< >>}) \cup {<<"a", "1", "">>},
  Searches <- {<< >>, ":i" :> "7", "q" :> "7"},
  table <- v1, location <- v2, changed <- v3, current <- v4, routeParams <- v5, asked <- v6,
  redirects <- v7

\* Days as date.js numbers them, of a zone whose clocks are changed on 30 March and on
\* 26 October 2008.
MCDay(y, m, d) == 365 * (y - 1970) + (y - 1) \div 4 - (y - 1) \div 100 + (y - 1) \div 400 - 477
                  + <<0, 31, 59, 90, 120, 151, 181, 212, 243, 273, 304, 334>>[m]
                  + (IF m > 2 /\ y % 4 = 0 /\ (y % 100 # 0 \/ y % 400 = 0) THEN 1 ELSE 0) + d - 1
MCDates == {24 * MCDay(y, m, d) + h : y \in {1999, 2000, 2007, 2008}, m \in {1, 2, 3, 4, 10, 12},
                                      d \in {1, 2, 28, 29, 30, 31}, h \in {0, 12}}
MCDateJobs ==
  [of : {"addMonths", "addYears", "addDays", "addHours"}, date : MCDates, num : {0 - 13, 0 - 1, 1, 2, 11}]
  \cup [of : {"zeroTime", "dayOfYear", "setDayOfYear", "weekOfYear", "weekend", "string"}, date : MCDates]
  \cup [of : {"calendar"}, year : {1900, 2000, 2007, 2008, 2009, 2010}, month : 0..11]

Clock == INSTANCE Dates WITH
  Spring <- 24 * MCDay(2008, 3, 30) + 2, Autumn <- 24 * MCDay(2008, 10, 26) + 2,
  FirstDayOfWeek <- 1, Format <- <<"d", "m", "yyyy">>, Jobs <- MCDateJobs,
  job <- v1, result <- v2

\* Two pickers that share the popup, one of them of a text, and one with its own place;
\* the days around the end of a February of 29 days.
MCDays     == MCDay(2007, 11, 1)..MCDay(2008, 7, 1)
MCSettings ==
  LET s == [start |-> MCDay(2008, 1, 25), end |-> MCDay(2008, 4, 5), month |-> None, year |-> None,
            multiple |-> FALSE, numSelectable |-> 2, closeOnSelect |-> TRUE, remember |-> FALSE,
            week |-> FALSE]
  IN {s, [s EXCEPT !.multiple = TRUE, !.closeOnSelect = FALSE, !.month = 0],
      [s EXCEPT !.week = TRUE, !.start = None]}

MCMonth == [d \in MCDays |-> Clock!MonthIndex(d)]
MCDate  == [d \in MCDays |-> Clock!DateOf(d)]
MCWeek  == [d \in MCDays |-> d - ((Clock!WeekDay(d) - 1) % 7)]
MCRead  == [d \in MCDays |-> Clock!DayOf(Clock!FromString(Clock!AsString(d)))]
MCCells == [m \in (12 * 2008 - 1)..(12 * 2008 + 4) |->
              LET c == Clock!Calendar(m \div 12, m % 12) IN {Clock!DayOf(c[i]) : i \in DOMAIN c}]
MCNamed == {MCDay(2008, 2, 29), MCDay(2008, 3, 1)}

Pick == INSTANCE DatePicker WITH
  Pickers <- {"p", "q", "r"}, Inline <- {"q"}, TextInputs <- {"p"}, Days <- MCDays,
  Month <- MCMonth, DateIn <- MCDate, WeekStart <- MCWeek, ReadDay <- MCRead, Cells <- MCCells,
  Today <- MCDay(2008, 1, 31), DefaultEnd <- MCDay(2008, 4, 30), Settings <- MCSettings,
  Named <- MCNamed,
  AskedMonths <- {<<0, None>>, <<1, 2008>>, <<None, 2008>>}, MaxCalls <- 4,
  picker <- v1, calendar <- v2, calls <- v3

-----------------------------------------------------------------------------
Unused(n, v) == IF n <= Taken[part] THEN TRUE ELSE v = << >>

PartsInit ==
  /\ part \in DOMAIN Taken
  /\ Init /\ (part = "page" \/ user.paths = {"/configuration"})
  /\ CASE part = "page" -> TRUE
       [] part = "form" -> Dialog!FormInit     [] part = "tree" -> Tree!TreeInit
       [] part = "input" -> Tree!InputInit     [] part = "urls" -> Address!UrlInit
       [] part = "routes" -> Visit!RouteInit   [] part = "dates" -> Clock!DateInit
       [] part = "pickers" -> Pick!PickerInit
  /\ Unused(1, v1) /\ Unused(2, v2) /\ Unused(3, v3) /\ Unused(4, v4) /\ Unused(5, v5)
  /\ Unused(6, v6) /\ Unused(7, v7) /\ Unused(8, v8) /\ Unused(9, v9)

\* Every part but p stays as it is.
Kept(n, v) == IF n <= Taken[part] THEN TRUE ELSE UNCHANGED v

Alone(p) ==
  /\ part = p /\ UNCHANGED part
  /\ IF p = "page" THEN TRUE ELSE UNCHANGED vars
  /\ Kept(1, v1) /\ Kept(2, v2) /\ Kept(3, v3) /\ Kept(4, v4) /\ Kept(5, v5) /\ Kept(6, v6)
  /\ Kept(7, v7) /\ Kept(8, v8) /\ Kept(9, v9)

PartsNext ==
  \/ part = "page"    /\ Next               /\ Alone("page")
  \/ part = "form"    /\ Dialog!FormNext    /\ Alone("form")
  \/ part = "tree"    /\ Tree!TreeNext      /\ Alone("tree")
  \/ part = "input"   /\ Tree!InputNext     /\ Alone("input")
  \/ part = "urls"    /\ Address!UrlNext    /\ Alone("urls")
  \/ part = "routes"  /\ Visit!RouteNext    /\ Alone("routes")
  \/ part = "dates"   /\ Clock!ComputeDate  /\ Alone("dates")
  \/ part = "pickers" /\ Pick!PickerNext    /\ Alone("pickers")

\* The fairness is that of WebPage.
InPage(A) == part = "page" /\ A /\ Alone("page")

PartsSpec ==
  /\ PartsInit /\ [][PartsNext]_allVars
  /\ \A i \in Instances : WF_allVars(InPage(PollServed(i) \/ PollAnswered(i) \/ TimerFires(i)))

-----------------------------------------------------------------------------
(* The properties of the page stand in its module; these are those of the others, *)
(* each explained in the module of its part.                                      *)

\* The counts of a form are those of its controls, also of forms within forms; what
\* is hidden is valid; what was typed is in the model; and what a date picker shows
\* and counts is what was selected, from dates that are computed right.
FormsKept ==
  /\ part = "form" => Dialog!FormsKept
  /\ part = "tree" => Tree!FormsTellTheirControls
  /\ part = "input" => Tree!ModelIsShown
  /\ part = "dates" => Clock!DatesKept
  /\ part = "pickers" => Pick!PickersKept

\* The address of the window stands for path, search and hash; redirections end, and
\* lose no parameter.
RoutesKept ==
  /\ part = "urls" => Address!AddressIsLocation
  /\ part = "routes" => Visit!RoutesKept
==============================================================================
