------------------------------- MODULE WebPage -------------------------------
(***************************************************************************)
(* The page in the browser: its routes, the view that polls the states of  *)
(* the forwards, and the views that edit the configuration in dialogs.     *)
(*                                                                         *)
(* JavaScript runs one event at a time: a click, an answer or a timer with *)
(* everything that follows from it until the queues are empty is one step. *)
(* An `instance' is one visit of a route, with the scope and controller    *)
(* that the visit gets; its requests and timers may outlive it.            *)
(***************************************************************************)
EXTENDS Naturals

CONSTANTS
  Instances,     \* bounds the visits that something still refers to
  Slots,         \* bounds the requests under way
  Ids, KindOf,   \* forwards, sessions and connections
  Vals, Absent,  \* what is kept under an id
  States,        \* what the server says of the forwards
  Users,         \* the paths that a user clicks on, the things that he adds
  None

Views == {"monitor", "forward", "connection"}
Kinds == {"forward", "session", "connection"}

ASSUME PageAssumption ==
  /\ None \notin Instances \cup Slots \cup Ids \cup Vals \cup States
  /\ Absent \notin Vals
  /\ KindOf \in [Ids -> Kinds]

VARIABLES
  user,     \* the user of this behaviour
  url,      \* the path in the address bar
  current,  \* $route.current
  view,     \* the instance that ngView shows
  template, \* what the template cache holds
  loads,    \* the instances that wait for a template, and for which
  poll,     \* the polling loop of each instance
  actual, status,  \* the states on the server, and on the page
  clone,    \* the configuration that the server edits for this user
  shown, latest,   \* $scope.config of the view, and the request that fills it
  form,     \* the open dialog
  request,  \* the requests under way
  untold    \* history: the clone changed after the view's last read, and the
            \* view was not the one that asked for the change

routing == <<user, url, current, view, template, loads>>
polling == <<poll, actual, status>>
editing == <<clone, shown, latest, form, request, untold>>
vars == <<routing, polling, editing>>

-----------------------------------------------------------------------------
\* The route table.  `when' adds a redirection for the trailing slash.
Paths == {"/", "/monitor", "/monitor/", "/configuration",
          "/configuration_forward", "/configuration_connection"}

Redirect(p) ==
  CASE p = "/configuration" -> "/configuration_forward"
    [] p = "/monitor/"      -> "/monitor"
    [] p = "/"              -> "/monitor"   \* otherwise
    [] OTHER                -> p

ViewOf(p) ==
  CASE Redirect(p) = "/configuration_forward"    -> "forward"
    [] Redirect(p) = "/configuration_connection" -> "connection"
    [] Redirect(p) = "/monitor"                  -> "monitor"

KindsOn(v) == CASE v = "forward"    -> {"forward", "session"}
                [] v = "connection" -> {"connection"}
                [] OTHER            -> {}

NoRoute == [of |-> None, view |-> "monitor", state |-> "loading"]

\* Requests about the configuration.
Ask(o, i, k, id, v) ==
  [op |-> o, by |-> i, kind |-> k, id |-> id, val |-> v, stage |-> "sent",
   made |-> FALSE, answer |-> None]

Idle    == [Ask("none", None, "forward", None, Absent) EXCEPT !.stage = "none"]
Read(i) == Ask("read", i, "forward", None, Absent)

Closed == [op |-> "none", kind |-> "forward", id |-> None]

Configs == [Ids -> Vals \cup {Absent}]

Quiet == [at |-> "none", saw |-> CHOOSE s \in States : TRUE]

TypeOK ==
  /\ user \in Users
  /\ url \in Paths \cup {None}
  /\ current \in [of : Instances \cup {None}, view : Views,
                  state : {"loading", "shown", "failed"}]
  /\ view \in Instances \cup {None}
  /\ template \in [Views -> {"none", "asked", "there"}]
  /\ loads \in SUBSET (Instances \X Views)
  /\ poll \in [Instances -> [at : {"none", "asked", "served", "timer"}, saw : States]]
  /\ actual \in States
  /\ status \in States \cup {None}
  /\ clone \in Configs
  /\ shown \in Configs \cup {None}
  /\ latest \in Slots \cup {None}
  /\ form \in [op : {"none", "add", "update"}, kind : Kinds, id : Ids \cup {None}]
  /\ request \in [Slots ->
       [op : {"none", "read", "add", "update", "delete", "save"},
        by : Instances \cup {None}, kind : Kinds, id : Ids \cup {None},
        val : Vals \cup {Absent}, stage : {"none", "sent", "ok", "nok"},
        made : BOOLEAN, answer : Configs \cup {None}]]
  /\ untold \in BOOLEAN

\* An instance that nothing refers to may be taken for the next visit.
Free(i) ==
  /\ i \notin {view, current.of}
  /\ i \notin {l[1] : l \in loads}
  /\ poll[i].at = "none"
  /\ \A s \in Slots : request[s].by # i

Init ==
  /\ user \in Users
  /\ url = None
  /\ current = NoRoute
  /\ view = None
  /\ template = [v \in Views |-> "none"]
  /\ loads = {}
  /\ poll = [i \in Instances |-> Quiet]
  /\ actual \in States
  /\ status = None
  /\ clone = [id \in Ids |-> Absent]
  /\ shown = None
  /\ latest = None
  /\ form = Closed
  /\ request = [s \in Slots |-> Idle]
  /\ untold = FALSE

-----------------------------------------------------------------------------
(* Routes and ngView *)

\* ngView drops the scope that it shows: the view's dialogs are removed, and
\* what the scope still waits for finds `forwardMonitorActive' false.
Clear ==
  /\ view' = None
  /\ status' = None
  /\ shown' = None
  /\ latest' = None
  /\ form' = Closed
  /\ UNCHANGED <<poll, actual, clone, request, untold>>

\* A variant that waits for the read that is under way.
RefreshJoins(i, s) ==
  /\ request' = [request EXCEPT ![s] = Read(i)]
  /\ shown' = IF latest = None THEN None ELSE shown
  /\ latest' = IF latest = None THEN s ELSE latest
  /\ untold' = FALSE

\* `$scope.config = Config.edit()', on the view that is shown: an empty object
\* at once, filled when this very request is answered.
Refresh(i, s) ==
  /\ request' = [request EXCEPT ![s] = Read(i)]
  /\ shown' = None
  /\ latest' = s
  /\ untold' = FALSE

\* ngView makes the scope and the controller of the new route, after it has
\* dropped the old ones.
Show(i, v) ==
  /\ view' = i
  /\ form' = Closed
  /\ status' = None
  /\ UNCHANGED <<actual, clone>>
  /\ \/ /\ v = "monitor"
        /\ poll' = [poll EXCEPT ![i].at = "asked"]
        /\ shown' = None /\ latest' = None
        /\ UNCHANGED <<request, untold>>
     \/ /\ v # "monitor"
        /\ \E s \in Slots : request[s] = Idle /\ Refresh(i, s)
        /\ UNCHANGED poll

\* A redirection is a route of its own, without a template: ngView clears.
Navigate(p) ==
  LET v == ViewOf(p) IN
  /\ p \in user.paths /\ p # url
  /\ url' = Redirect(p)
  /\ \E i \in Instances :
       /\ Free(i)
       /\ \/ /\ template[v] = "there"
             /\ current' = [of |-> i, view |-> v, state |-> "shown"]
             /\ Show(i, v)
             /\ UNCHANGED <<template, loads>>
          \/ /\ template[v] # "there"
             /\ current' = [of |-> i, view |-> v, state |-> "loading"]
             /\ template' = [template EXCEPT ![v] = "asked"]
             /\ loads' = loads \cup {<<i, v>>}
             /\ IF Redirect(p) # p THEN Clear ELSE UNCHANGED <<view, polling, editing>>
  /\ UNCHANGED user

Waiting(v) == {l \in loads : l[2] = v}

\* A variant that does not look.
WantedAlways(i) == i \in Instances

\* Whoever waits for the template looks whether its route is still current.
Wanted(i) == i = current.of

Entered(i) == IF i = current.of THEN [current EXCEPT !.state = "shown"] ELSE current

TemplateArrives(v) ==
  /\ template[v] = "asked"
  /\ template' = [template EXCEPT ![v] = "there"]
  /\ loads' = loads \ Waiting(v)
  /\ \/ \E i \in Instances :
          /\ <<i, v>> \in loads /\ Wanted(i)
          /\ current' = Entered(i)
          /\ Show(i, v)
     \/ /\ \A i \in Instances : <<i, v>> \in loads => ~Wanted(i)
        /\ UNCHANGED <<current, view, polling, editing>>
  /\ UNCHANGED <<user, url>>

\* ngView hears nothing of $routeChangeError: the old view stays.
TemplateFails(v) ==
  /\ template[v] = "asked"
  /\ template' = [template EXCEPT ![v] = "none"]
  /\ loads' = loads \ Waiting(v)
  /\ current' = IF <<current.of, v>> \in loads
                 THEN [current EXCEPT !.state = "failed"] ELSE current
  /\ UNCHANGED <<user, url, view, polling, editing>>

-----------------------------------------------------------------------------
(* The loop that polls the states *)

StateChanges(s) ==
  /\ s # actual
  /\ \E i \in Instances : poll[i].at # "none"  \* a change that a poll may see
  /\ actual' = s
  /\ UNCHANGED <<routing, editing, poll, status>>

PollServed(i) ==
  /\ poll[i].at = "asked"
  /\ poll' = [poll EXCEPT ![i] = [at |-> "served",
                                   saw |-> IF view = i THEN actual ELSE Quiet.saw]]
  /\ UNCHANGED <<routing, editing, actual, status>>

\* A variant that does not ask whether the scope lives.
PollAnsweredAlways(i) ==
  /\ poll[i].at = "served"
  /\ poll' = [poll EXCEPT ![i] = [Quiet EXCEPT !.at = "timer"]]
  /\ status' = IF view = i THEN poll[i].saw ELSE status
  /\ UNCHANGED <<routing, editing, actual>>

\* A variant that shows what the first poll saw.
PollAnsweredFirst(i) ==
  /\ poll[i].at = "served"
  /\ IF view = i
       THEN /\ poll' = [poll EXCEPT ![i] = [Quiet EXCEPT !.at = "timer"]]
            /\ status' = IF status = None THEN poll[i].saw ELSE status
       ELSE /\ poll' = [poll EXCEPT ![i] = Quiet]
            /\ UNCHANGED status
  /\ UNCHANGED <<routing, editing, actual>>

\* A scope that was destroyed while its poll was under way asks no more.
PollAnswered(i) ==
  /\ poll[i].at = "served"
  /\ IF view = i
       THEN /\ poll' = [poll EXCEPT ![i] = [Quiet EXCEPT !.at = "timer"]]
            /\ status' = poll[i].saw
       ELSE /\ poll' = [poll EXCEPT ![i] = Quiet]
            /\ UNCHANGED status
  /\ UNCHANGED <<routing, editing, actual>>

\* `then' has no second argument: a poll that fails is the last one.
PollFails(i) ==
  /\ poll[i].at \in {"asked", "served"}
  /\ poll' = [poll EXCEPT ![i] = Quiet]
  /\ UNCHANGED <<routing, editing, actual, status>>

\* The timer does not ask whether the view is still shown.
TimerFires(i) ==
  /\ poll[i].at = "timer"
  /\ poll' = [poll EXCEPT ![i].at = "asked"]
  /\ UNCHANGED <<routing, editing, actual, status>>

-----------------------------------------------------------------------------
(* The dialogs.  They are modal: behind an open one nothing can be clicked, *)
(* but the browser's own buttons still lead to another route.               *)

OnView(k) == /\ view # None /\ view = current.of
             /\ k \in KindsOn(current.view)

Unchanged == UNCHANGED <<routing, polling, clone>>

OpenAdd(k) ==
  /\ OnView(k) /\ form = Closed
  /\ form' = [op |-> "add", kind |-> k, id |-> None]
  /\ Unchanged /\ UNCHANGED <<shown, latest, request, untold>>

OpenEdit(id) ==
  /\ OnView(KindOf[id]) /\ form = Closed
  /\ shown # None /\ shown[id] # Absent
  /\ form' = [op |-> "update", kind |-> KindOf[id], id |-> id]
  /\ Unchanged /\ UNCHANGED <<shown, latest, request, untold>>

CloseForm ==
  /\ form # Closed
  /\ form' = Closed
  /\ Unchanged /\ UNCHANGED <<shown, latest, request, untold>>

\* The button of the dialog.  updateForward and updateConnection take the id
\* out of the data that the dialog keeps; updateSession leaves it there.
IdKept(f) == IF f.kind = "session" THEN f.id ELSE None

Submit(s, v) ==
  /\ form # Closed /\ request[s] = Idle
  /\ request' = [request EXCEPT ![s] = Ask(form.op, view, form.kind, form.id, v)]
  /\ form' = [form EXCEPT !.id = IdKept(form)]
  /\ Unchanged /\ UNCHANGED <<shown, latest, untold>>

ClickDelete(s, id) ==
  /\ OnView(KindOf[id]) /\ form = Closed
  /\ shown # None /\ shown[id] # Absent
  /\ request[s] = Idle
  /\ request' = [request EXCEPT ![s] = Ask("delete", view, KindOf[id], id, Absent)]
  /\ Unchanged /\ UNCHANGED <<shown, latest, form, untold>>

ClickSave(s) ==
  /\ view # None /\ view = current.of /\ current.view # "monitor"
  /\ form = Closed /\ request[s] = Idle
  /\ request' = [request EXCEPT ![s] = Ask("save", view, "forward", None, Absent)]
  /\ Unchanged /\ UNCHANGED <<shown, latest, form, untold>>

-----------------------------------------------------------------------------
(* Requests about the configuration, answered in any order *)

ReadServed(s) ==
  /\ request[s].op = "read" /\ request[s].stage = "sent"
  /\ request' = [request EXCEPT ![s].stage = "ok",
                                ![s].answer = IF latest = s THEN clone ELSE None]
  /\ UNCHANGED <<routing, polling, clone, shown, latest, form, untold>>

Served(s, result, changed) ==
  [request EXCEPT ![s].stage = result, ![s].made = changed,
                  ![s].id = None, ![s].val = Absent]

\* What the request makes of the clone.  An id that is not in the clone
\* changes nothing and is answered as a success all the same.
Result(r, new) ==
  CASE r.op = "add" -> [clone EXCEPT ![new] = r.val]
    [] r.op \in {"update", "delete"} /\ r.id # None /\ clone[r.id] # Absent ->
         [clone EXCEPT ![r.id] = r.val]
    [] OTHER -> clone

\* The view has read the clone before this change, and will not be told of it.
Unseen(r) ==
  /\ view # None /\ r.by # view
  /\ latest # None => request[latest].stage # "sent"

ChangeServed(s) ==
  LET r == request[s] IN
  /\ r.op \notin {"none", "read"} /\ r.stage = "sent"
  /\ \E new \in Ids :
       /\ r.op = "add" => KindOf[new] = r.kind /\ clone[new] = Absent
       /\ clone' = Result(r, new)
  /\ request' = Served(s, "ok", clone' # clone)
  /\ untold' = (untold \/ (clone' # clone /\ Unseen(r)))
  /\ UNCHANGED <<routing, polling, shown, latest, form>>

\* The server refuses: a connection that is not known, or in use.
ChangeRefused(s) ==
  /\ request[s].op \notin {"none", "read", "save"} /\ request[s].stage = "sent"
  /\ request' = Served(s, "nok", FALSE)
  /\ UNCHANGED <<routing, polling, clone, shown, latest, form, untold>>

Done(s) == request' = [request EXCEPT ![s] = Idle]

ReadAnswered(s) ==
  /\ request[s].op = "read" /\ request[s].stage = "ok"
  /\ shown' = IF latest = s THEN request[s].answer ELSE shown
  /\ latest' = IF latest = s THEN None ELSE latest
  /\ Done(s)
  /\ UNCHANGED <<routing, polling, clone, form, untold>>

\* A success closes the dialog that has the name of the request, whoever opened
\* it, and the scope that asked reads the configuration again.  (What a scope
\* reads that is not shown any more is left out: nobody sees it.)
ChangeAnswered(s) ==
  LET r == request[s] IN
  /\ r.op \in {"add", "update", "delete"} /\ r.stage = "ok"
  /\ form' = IF form.op = r.op /\ form.kind = r.kind THEN Closed ELSE form
  /\ IF r.by = view
       THEN Refresh(r.by, s)
       ELSE Done(s) /\ UNCHANGED <<shown, latest, untold>>
  /\ Unchanged

SaveAnswered(s) ==
  /\ request[s].op = "save" /\ request[s].stage = "ok"
  /\ Done(s)
  /\ UNCHANGED <<routing, polling, clone, shown, latest, form, untold>>

\* Refused, or no answer at all: the dialog stays open, nothing is read again.
Failed(s) ==
  /\ request[s] # Idle
  /\ latest' = IF latest = s THEN None ELSE latest
  /\ untold' = (untold \/ (request[s].made /\ request[s].by = view))
  /\ Done(s)
  /\ UNCHANGED <<routing, polling, clone, shown, form>>

-----------------------------------------------------------------------------
Next ==
  \/ \E p \in Paths : Navigate(p)
  \/ \E v \in Views : TemplateArrives(v) \/ TemplateFails(v)
  \/ \E s \in States : StateChanges(s)
  \/ \E i \in Instances : \/ PollServed(i) \/ PollAnswered(i) \/ PollFails(i)
                          \/ TimerFires(i)
  \/ \E k \in {KindOf[id] : id \in user.adds} : OpenAdd(k)
  \/ \E id \in Ids : OpenEdit(id)
  \/ CloseForm
  \/ \E s \in Slots : \/ \E v \in Vals : Submit(s, v)
                      \/ \E id \in Ids : ClickDelete(s, id)
                      \/ ClickSave(s)
                      \/ ReadServed(s) \/ ChangeServed(s) \/ ChangeRefused(s)
                      \/ ReadAnswered(s) \/ ChangeAnswered(s) \/ SaveAnswered(s)
                      \/ Failed(s)

\* The server answers a poll and the browser runs its timers.
PollFairness ==
  \A i \in Instances : WF_vars(PollServed(i) \/ PollAnswered(i) \/ TimerFires(i))

Spec == Init /\ [][Next]_vars /\ PollFairness

-----------------------------------------------------------------------------
(* Properties *)

\* Whatever templates arrive in whatever order: when the route of the URL has
\* been entered, ngView shows that very visit and no older one
\* (`next == $route.current' in angular's updateRoute).
ViewIsRoute == current.state = "shown" => view = current.of

\* When nothing that the view asked for is under way, it shows the server's
\* clone: refreshConfig follows every change and only the last read counts
\* (config.js, refreshConfig).
Asking == \E s \in Slots : request[s].by = view /\ request[s] # Idle

ShownIsClone ==
  view # None /\ shown # None /\ ~Asking /\ ~untold => shown = clone

\* States that stay what they are get shown, as long as the view stays and no
\* failed poll has ended its loop (monitor.js, monitoringTimer).
StatesShown ==
  \A s \in States, i \in Instances :
    <>[](actual = s /\ view = i /\ poll[i].at # "none") => <>[](status = s)

\* A view that was left stops to poll, even if it was left while its poll was
\* under way or its timer was running (monitor.js, forwardMonitorActive).
LeftViewsStopPolling ==
  \A i \in Instances : (poll[i].at # "none" /\ view # i) ~> (poll[i].at = "none")
=============================================================================
