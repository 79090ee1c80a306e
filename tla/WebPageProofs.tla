---------------------------- MODULE WebPageProofs ----------------------------
(***************************************************************************)
(* Proofs about WebPage: which visit ngView shows, and what the view shows *)
(* of the configuration.  Both hold for any number of visits and requests, *)
(* in whatever order templates and answers arrive, and whatever fails.     *)
(***************************************************************************)
EXTENDS WebPage, TLAPS

Changes == {"add", "update", "delete"}

Requested == [op : {"none", "read", "save"} \cup Changes,
              by : Instances \cup {None}, kind : Kinds, id : Ids \cup {None},
              val : Vals \cup {Absent}, stage : {"none", "sent", "ok", "nok"},
              made : BOOLEAN, answer : Configs \cup {None}]

Route == [of : Instances \cup {None}, view : Views,
          state : {"loading", "shown", "failed"}]

\* A request of the view that has changed the clone, and that the view was not
\* told of yet: its answer makes the view read again, its loss is `untold'.
ToldLater == \E s \in Slots : request[s].by = view /\ request[s].made

PageTypes ==
  /\ user \in Users
  /\ current \in Route
  /\ view \in Instances \cup {None}
  /\ clone \in Configs
  /\ latest \in Slots \cup {None}
  /\ form \in [op : {"none", "add", "update"}, kind : Kinds, id : Ids \cup {None}]
  /\ request \in [Slots -> Requested]

\* Only a change that succeeded has changed something.
MadeInv ==
  \A s \in Slots : request[s].made => request[s].op \in Changes /\ request[s].stage = "ok"

\* `$scope.config' is empty as long as the read that fills it is under way.
LatestInv == latest # None => shown = None /\ request[latest].op = "read"

\* What is shown, or is about to be, is the clone, or a read will follow.
FreshInv ==
  view # None /\ ~untold /\ ~ToldLater =>
    /\ latest = None /\ shown # None => shown = clone
    /\ latest # None /\ request[latest].stage = "ok" => request[latest].answer = clone

PageInv == PageTypes /\ ViewIsRoute /\ MadeInv /\ LatestInv /\ FreshInv

-----------------------------------------------------------------------------
(* Requests *)

LEMMA IdleRequest ==
  /\ Idle \in Requested
  /\ Idle.op = "none" /\ Idle.by = None /\ Idle.stage = "none" /\ Idle.made = FALSE
  BY DEF Idle, Ask, Requested, Kinds

LEMMA ReadRequest ==
  ASSUME NEW i \in Instances \cup {None}
  PROVE  /\ Read(i) \in Requested
         /\ Read(i).op = "read" /\ Read(i).by = i /\ Read(i).stage = "sent"
         /\ Read(i).made = FALSE
  BY DEF Read, Ask, Requested, Kinds

LEMMA InitInv == ASSUME Init PROVE PageInv
<1>1. PageTypes
  BY IdleRequest DEF Init, PageTypes, NoRoute, Route, Views, Configs, Closed, Kinds
<1>2. MadeInv
  BY IdleRequest DEF Init, MadeInv
<1> QED
  BY <1>1, <1>2 DEF PageInv, Init, ViewIsRoute, NoRoute, LatestInv, FreshInv

-----------------------------------------------------------------------------
(* Routes *)

\* A view that was just made, or dropped, shows nothing yet.
LEMMA ShowInv ==
  ASSUME PageInv, NEW i \in Instances, NEW v, Show(i, v),
         user' = user, current' \in Route, current'.of = i
  PROVE  PageInv'
<1> USE DEF PageInv
<1>1. view' = i /\ shown' = None /\ clone' = clone /\ form' = Closed /\ ViewIsRoute'
  BY DEF Show, Refresh, ViewIsRoute
<1>2. CASE UNCHANGED request /\ latest' = None
  BY <1>1, <1>2, PageAssumption
  DEF PageTypes, MadeInv, LatestInv, FreshInv, Closed, Kinds
<1>3. CASE \E s \in Slots : Refresh(i, s)
  <2>1. PICK s \in Slots : request' = [request EXCEPT ![s] = Read(i)] /\ latest' = s
    BY <1>3 DEF Refresh
  <2>2. /\ request'[s] = Read(i)
        /\ \A t \in Slots : t # s => request'[t] = request[t]
        /\ request' \in [Slots -> Requested]
    BY <2>1, ReadRequest DEF PageTypes
  <2>3. PageTypes'
    BY <1>1, <2>1, <2>2 DEF PageTypes, Closed, Kinds
  <2>4. MadeInv' /\ LatestInv' /\ FreshInv'
    BY <1>1, <2>1, <2>2, ReadRequest, PageAssumption DEF MadeInv, LatestInv, FreshInv
  <2> QED
    BY <1>1, <2>3, <2>4
<1> QED
  BY <1>2, <1>3 DEF Show

LEMMA StaysInv ==
  ASSUME PageInv, UNCHANGED <<user, editing, view>>, current' \in Route, ViewIsRoute'
  PROVE  PageInv'
  BY DEF PageInv, PageTypes, MadeInv, LatestInv, FreshInv, ToldLater, editing

LEMMA NavigateInv == ASSUME PageInv, NEW p \in Paths, Navigate(p) PROVE PageInv'
<1> DEFINE v == ViewOf(p)
<1>1. PICK i \in Instances :
        \/ /\ current' = [of |-> i, view |-> v, state |-> "shown"]
           /\ Show(i, v)
        \/ /\ current' = [of |-> i, view |-> v, state |-> "loading"]
           /\ Clear \/ UNCHANGED <<view, polling, editing>>
  BY DEF Navigate
<1>2. v \in Views
  BY DEF ViewOf, Redirect, Paths, Views
<1>3. current' \in Route /\ current'.of = i /\ user' = user
  BY <1>1, <1>2 DEF Route, Navigate
<1>4. CASE Show(i, v)
  BY <1>3, <1>4, ShowInv
<1>5. CASE current'.state = "loading" /\ Clear
  BY <1>3, <1>5 DEF Clear, PageInv, PageTypes, ViewIsRoute, MadeInv, LatestInv, FreshInv,
                    Closed, Kinds
<1>6. CASE current'.state = "loading" /\ UNCHANGED <<view, polling, editing>>
  BY <1>3, <1>6, StaysInv DEF ViewIsRoute
<1> QED
  BY <1>1, <1>4, <1>5, <1>6

LEMMA TemplateArrivesInv ==
  ASSUME PageInv, NEW v \in Views, TemplateArrives(v) PROVE PageInv'
<1>1. user' = user /\ current \in Route
  BY DEF TemplateArrives, PageInv, PageTypes
<1>2. CASE \E i \in Instances : Wanted(i) /\ current' = Entered(i) /\ Show(i, v)
  <2>1. PICK i \in Instances : Wanted(i) /\ current' = Entered(i) /\ Show(i, v)
    BY <1>2
  <2>2. current' \in Route /\ current'.of = i
    BY <1>1, <2>1 DEF Entered, Wanted, Route
  <2> QED
    BY <1>1, <2>1, <2>2, ShowInv
<1>3. CASE UNCHANGED <<current, view, polling, editing>>
  BY <1>1, <1>3, StaysInv DEF PageInv, ViewIsRoute
<1> QED
  BY <1>2, <1>3 DEF TemplateArrives

LEMMA TemplateFailsInv ==
  ASSUME PageInv, NEW v \in Views, TemplateFails(v) PROVE PageInv'
<1>1. current \in Route /\ UNCHANGED <<user, view, polling, editing>>
  BY DEF TemplateFails, PageInv, PageTypes
<1>2. current' = current \/ current' = [current EXCEPT !.state = "failed"]
  BY DEF TemplateFails
<1>3. current' \in Route /\ ViewIsRoute'
  BY <1>1, <1>2 DEF Route, PageInv, ViewIsRoute
<1> QED
  BY <1>1, <1>3, StaysInv

\* The polling loop leaves the configuration alone.
LEMMA PollInv ==
  ASSUME PageInv, UNCHANGED <<routing, editing>>
  PROVE  PageInv'
  BY StaysInv DEF PageInv, PageTypes, ViewIsRoute, routing

-----------------------------------------------------------------------------
(* Dialogs and requests *)

LEMMA DialogInv ==
  ASSUME PageInv,
         \/ \E k \in {KindOf[id] : id \in user.adds} : OpenAdd(k)
         \/ \E id \in Ids : OpenEdit(id)
         \/ CloseForm
  PROVE  PageInv'
<1>1. UNCHANGED <<routing, polling, clone, shown, latest, request, untold>>
  BY DEF OpenAdd, OpenEdit, CloseForm, Unchanged
<1>2. form' \in [op : {"none", "add", "update"}, kind : Kinds, id : Ids \cup {None}]
  <2>1. \A k \in KindsOn(current.view) : k \in Kinds
    BY DEF KindsOn, Kinds
  <2> QED
    BY <2>1, PageAssumption DEF OpenAdd, OnView, OpenEdit, CloseForm, Closed, Kinds
<1> QED
  BY <1>1, <1>2 DEF PageInv, PageTypes, ViewIsRoute, MadeInv, LatestInv, FreshInv,
                    ToldLater, routing

\* A slot that was idle takes a request that has changed nothing so far.
LEMMA AskInv ==
  ASSUME PageInv, NEW s \in Slots, NEW r \in Requested, request[s] = Idle,
         r.made = FALSE, request' = [request EXCEPT ![s] = r],
         UNCHANGED <<routing, polling, clone, shown, latest, untold>>,
         form' \in [op : {"none", "add", "update"}, kind : Kinds, id : Ids \cup {None}]
  PROVE  PageInv'
<1> USE DEF PageInv, PageTypes
<1>1. latest # s /\ request[s].made = FALSE
  BY IdleRequest, PageAssumption DEF LatestInv
<1>2. PageTypes' /\ ViewIsRoute' /\ MadeInv' /\ LatestInv'
  BY <1>1 DEF routing, ViewIsRoute, MadeInv, LatestInv
<1>3. ToldLater' <=> ToldLater
  BY <1>1 DEF ToldLater, routing
<1> QED
  BY <1>1, <1>2, <1>3 DEF FreshInv, routing

LEMMA SubmitInv ==
  ASSUME PageInv, NEW s \in Slots, NEW v \in Vals, Submit(s, v) PROVE PageInv'
<1>1. form.op \in {"add", "update"} \/ form.op = "none"
  BY DEF PageInv, PageTypes
<1>2. Ask(form.op, view, form.kind, form.id, v) \in Requested
  BY DEF PageInv, PageTypes, Ask, Requested, Changes
<1>3. Ask(form.op, view, form.kind, form.id, v).made = FALSE
  BY DEF Ask
<1>4. form' \in [op : {"none", "add", "update"}, kind : Kinds, id : Ids \cup {None}]
  BY DEF Submit, IdKept, PageInv, PageTypes
<1> QED
  BY <1>2, <1>3, <1>4, AskInv DEF Submit, Unchanged

LEMMA ClickInv ==
  ASSUME PageInv, NEW s \in Slots, (\E id \in Ids : ClickDelete(s, id)) \/ ClickSave(s)
  PROVE  PageInv'
<1>1. form \in [op : {"none", "add", "update"}, kind : Kinds, id : Ids \cup {None}]
  BY DEF PageInv, PageTypes
<1>2. ASSUME NEW id \in Ids, ClickDelete(s, id) PROVE PageInv'
  <2>1. Ask("delete", view, KindOf[id], id, Absent) \in Requested
    BY PageAssumption DEF PageInv, PageTypes, Ask, Requested, Changes
  <2>2. Ask("delete", view, KindOf[id], id, Absent).made = FALSE
    BY DEF Ask
  <2> QED
    BY <1>1, <1>2, <2>1, <2>2, AskInv DEF ClickDelete, Unchanged
<1>3. CASE ClickSave(s)
  <2>1. Ask("save", view, "forward", None, Absent) \in Requested
    BY DEF PageInv, PageTypes, Ask, Requested, Kinds
  <2>2. Ask("save", view, "forward", None, Absent).made = FALSE
    BY DEF Ask
  <2> QED
    BY <1>1, <1>3, <2>1, <2>2, AskInv DEF ClickSave, Unchanged
<1> QED
  BY <1>2, <1>3

LEMMA ReadServedInv ==
  ASSUME PageInv, NEW s \in Slots, ReadServed(s) PROVE PageInv'
<1> USE DEF PageInv, PageTypes
<1>1. /\ request[s] \in Requested
      /\ request' = [request EXCEPT ![s] = [request[s] EXCEPT !.stage = "ok",
                       !.answer = IF latest = s THEN clone ELSE None]]
  BY DEF ReadServed
<1>2. /\ request'[s] \in Requested /\ request'[s].op = "read"
      /\ request'[s].made = FALSE /\ request[s].made = FALSE
      /\ request'[s].by = request[s].by
      /\ latest = s => request'[s].answer = clone
  BY <1>1 DEF ReadServed, Requested, MadeInv, Changes
<1>3. PageTypes' /\ ViewIsRoute' /\ MadeInv' /\ LatestInv'
  BY <1>1, <1>2 DEF ReadServed, routing, ViewIsRoute, MadeInv, LatestInv
<1>4. ToldLater' <=> ToldLater
  BY <1>1, <1>2 DEF ReadServed, ToldLater, routing
<1> QED
  BY <1>1, <1>2, <1>3, <1>4 DEF FreshInv, routing, ReadServed

LEMMA ServedSlot ==
  ASSUME PageInv, NEW s \in Slots, NEW result \in {"ok", "nok"}, NEW changed \in BOOLEAN,
         request' = Served(s, result, changed)
  PROVE  /\ request' = [request EXCEPT ![s] = request'[s]]
         /\ request'[s] \in Requested
         /\ request'[s].op = request[s].op /\ request'[s].by = request[s].by
         /\ request'[s].stage = result /\ (request'[s].made <=> changed)
<1>1. request[s] \in Requested /\ request \in [Slots -> Requested]
  BY DEF PageInv, PageTypes
<1>2. request' = [request EXCEPT ![s] =
         [request[s] EXCEPT !.stage = result, !.made = changed, !.id = None, !.val = Absent]]
  BY <1>1 DEF Served, Requested
<1>3. request'[s] =
         [request[s] EXCEPT !.stage = result, !.made = changed, !.id = None, !.val = Absent]
  BY <1>1, <1>2
<1> QED
  BY <1>1, <1>2, <1>3 DEF Requested

\* A change is made: the view that asked for it will be told, any other one
\* has its read still before it, or is `untold'.
LEMMA ChangeServedInv ==
  ASSUME PageInv, NEW s \in Slots, ChangeServed(s) PROVE PageInv'
<1> DEFINE r == request[s]
<1> USE DEF PageInv, PageTypes
<1>1. /\ r \in Requested /\ r.op \notin {"none", "read"} /\ r.stage = "sent"
      /\ r.made = FALSE /\ latest # s
  BY PageAssumption DEF ChangeServed, MadeInv, LatestInv, Requested
<1>2. PICK new \in Ids : clone' = Result(r, new)
  BY DEF ChangeServed
<1>3. clone' = clone \/ (r.op \in Changes /\ clone' \in Configs)
  <2>1. CASE r.op = "add"
    BY <1>1, <1>2, <2>1 DEF Result, Configs, Requested, Changes
  <2>2. CASE r.op \in {"update", "delete"} /\ r.id # None /\ clone[r.id] # Absent
    BY <1>1, <1>2, <2>2 DEF Result, Configs, Requested, Changes
  <2>3. CASE r.op # "add" /\ ~(r.op \in {"update", "delete"} /\ r.id # None /\ clone[r.id] # Absent)
    BY <1>2, <2>3 DEF Result
  <2> QED
    BY <2>1, <2>2, <2>3
<1>4. /\ request' = [request EXCEPT ![s] = request'[s]]
      /\ request'[s] \in Requested
      /\ request'[s].op = r.op /\ request'[s].by = r.by
      /\ request'[s].stage = "ok" /\ (request'[s].made <=> clone' # clone)
  <2>1. request' = Served(s, "ok", clone' # clone) /\ (clone' # clone) \in BOOLEAN
    BY DEF ChangeServed
  <2> QED
    BY <2>1, ServedSlot
<1>5. PageTypes' /\ ViewIsRoute' /\ MadeInv' /\ LatestInv'
  <2>1. UNCHANGED <<user, current, view, latest, shown, form>>
    BY DEF ChangeServed, routing
  <2>2. PageTypes' /\ ViewIsRoute'
    BY <1>3, <1>4, <2>1 DEF ViewIsRoute
  <2>3. MadeInv'
    BY <1>3, <1>4 DEF MadeInv
  <2>4. LatestInv'
    BY <1>1, <1>4, <2>1 DEF LatestInv
  <2> QED
    BY <2>2, <2>3, <2>4
<1>6. CASE clone' = clone
  <2>1. ToldLater' <=> ToldLater
    BY <1>1, <1>4, <1>6 DEF ChangeServed, ToldLater, routing
  <2>2. (untold' <=> untold) /\ view' = view /\ latest' = latest /\ shown' = shown
    BY <1>6 DEF ChangeServed, routing
  <2>3. FreshInv'
    BY <1>1, <1>4, <1>6, <2>1, <2>2 DEF FreshInv
  <2> QED
    BY <1>5, <2>3
<1>7. CASE clone' # clone /\ r.by = view
  BY <1>4, <1>5, <1>7 DEF ToldLater, FreshInv, ChangeServed, routing
<1>8. CASE clone' # clone /\ r.by # view
  <2>1. view # None => untold' \/ (latest # None /\ request[latest].stage = "sent")
    BY <1>8 DEF ChangeServed, Unseen
  <2>2. latest' = latest /\ shown' = shown /\ view' = view
    BY DEF ChangeServed, routing
  <2>3. FreshInv'
    BY <1>1, <1>4, <2>1, <2>2 DEF FreshInv, LatestInv
  <2> QED
    BY <1>5, <2>3
<1> QED
  BY <1>6, <1>7, <1>8

LEMMA ChangeRefusedInv ==
  ASSUME PageInv, NEW s \in Slots, ChangeRefused(s) PROVE PageInv'
<1> USE DEF PageInv, PageTypes
<1>1. request[s].op # "read" /\ request[s].made = FALSE /\ latest # s
  BY PageAssumption DEF ChangeRefused, MadeInv, LatestInv, Requested
<1>2. /\ request' = [request EXCEPT ![s] = request'[s]]
      /\ request'[s] \in Requested
      /\ ~request'[s].made
  <2>1. request' = Served(s, "nok", FALSE)
    BY DEF ChangeRefused
  <2> QED
    BY <2>1, ServedSlot
<1>3. PageTypes' /\ ViewIsRoute' /\ MadeInv' /\ LatestInv'
  BY <1>1, <1>2 DEF ChangeRefused, routing, ViewIsRoute, MadeInv, LatestInv
<1>4. ToldLater' <=> ToldLater
  BY <1>1, <1>2 DEF ChangeRefused, ToldLater, routing
<1> QED
  BY <1>1, <1>2, <1>3, <1>4 DEF FreshInv, ChangeRefused, routing

\* A request is over that the view need not be told of.
LEMMA DoneInv ==
  ASSUME PageInv, NEW s \in Slots, Done(s), UNCHANGED <<user, current, view, clone>>,
         form' \in [op : {"none", "add", "update"}, kind : Kinds, id : Ids \cup {None}],
         \/ latest # s /\ UNCHANGED <<latest, shown>>
         \/ /\ latest = s /\ latest' = None
            /\ shown' = shown \/ (request[s].stage = "ok" /\ shown' = request[s].answer),
         untold \/ (request[s].made /\ request[s].by = view) => untold'
  PROVE  PageInv'
<1> USE DEF PageInv, PageTypes
<1>1. /\ request' = [request EXCEPT ![s] = Idle]
      /\ request'[s] = Idle
  BY DEF Done
<1>2. PageTypes' /\ ViewIsRoute'
  BY <1>1, IdleRequest DEF ViewIsRoute
<1>3. MadeInv' /\ LatestInv'
  <2>1. MadeInv'
    BY <1>1, IdleRequest DEF MadeInv
  <2>2. CASE latest = s
    BY <2>1, <2>2, PageAssumption DEF LatestInv
  <2>3. CASE latest # s /\ UNCHANGED <<latest, shown>>
    BY <1>1, <2>1, <2>3 DEF LatestInv
  <2> QED
    BY <2>1, <2>2, <2>3
<1>4. ASSUME ~ToldLater', ~untold' PROVE ~ToldLater
  BY <1>1, <1>4 DEF ToldLater
<1>5. CASE latest = s
  BY <1>1, <1>2, <1>3, <1>4, <1>5, PageAssumption DEF FreshInv, LatestInv
<1>6. CASE latest # s /\ UNCHANGED <<latest, shown>>
  <2>1. latest' # None => request'[latest'] = request[latest]
    BY <1>1, <1>6
  <2> QED
    BY <1>2, <1>3, <1>4, <1>6, <2>1 DEF FreshInv
<1> QED
  BY <1>5, <1>6

LEMMA ReadAnsweredInv ==
  ASSUME PageInv, NEW s \in Slots, ReadAnswered(s) PROVE PageInv'
<1>1. ~request[s].made
  BY DEF PageInv, PageTypes, Requested, MadeInv, Changes, ReadAnswered
<1>2. \/ latest # s /\ UNCHANGED <<latest, shown>>
      \/ /\ latest = s /\ latest' = None
         /\ request[s].stage = "ok" /\ shown' = request[s].answer
  BY DEF ReadAnswered
<1>3. form' \in [op : {"none", "add", "update"}, kind : Kinds, id : Ids \cup {None}]
  BY DEF PageInv, PageTypes, ReadAnswered
<1>4. Done(s) /\ UNCHANGED <<user, current, view, clone, untold>>
  BY DEF ReadAnswered, routing
<1> QED
  BY <1>1, <1>2, <1>3, <1>4, DoneInv

\* The view that asked reads again.
LEMMA ChangeAnsweredInv ==
  ASSUME PageInv, NEW s \in Slots, ChangeAnswered(s) PROVE PageInv'
<1> DEFINE r == request[s]
<1>1. /\ UNCHANGED <<user, current, view, clone>>
      /\ form' \in [op : {"none", "add", "update"}, kind : Kinds, id : Ids \cup {None}]
  BY DEF ChangeAnswered, Unchanged, routing, PageInv, PageTypes, Closed, Kinds
<1>2. latest # s /\ r.by \in Instances \cup {None}
  BY PageAssumption
  DEF PageInv, PageTypes, LatestInv, ChangeAnswered, Requested
<1>3. CASE r.by = view
  <2>1. view \in Instances \cup {None} /\ Refresh(view, s)
    BY <1>3 DEF ChangeAnswered, PageInv, PageTypes
  <2>2. request' = [request EXCEPT ![s] = Read(view)] /\ latest' = s /\ shown' = None
    BY <2>1 DEF Refresh
  <2>3. /\ request'[s] = Read(view)
        /\ \A t \in Slots : t # s => request'[t] = request[t]
        /\ request' \in [Slots -> Requested]
    BY <2>1, <2>2, ReadRequest DEF PageInv, PageTypes
  <2>4. PageTypes' /\ ViewIsRoute'
    BY <1>1, <2>2, <2>3 DEF PageInv, PageTypes, ViewIsRoute
  <2>5. MadeInv' /\ LatestInv' /\ FreshInv'
    BY <2>1, <2>2, <2>3, ReadRequest, PageAssumption
    DEF PageInv, MadeInv, LatestInv, FreshInv
  <2> QED
    BY <2>4, <2>5 DEF PageInv
<1>4. CASE r.by # view
  <2>1. Done(s) /\ UNCHANGED <<shown, latest, untold>>
    BY <1>4 DEF ChangeAnswered
  <2> QED
    BY <1>1, <1>2, <1>4, <2>1, DoneInv
<1> QED
  BY <1>3, <1>4

LEMMA SaveAnsweredInv ==
  ASSUME PageInv, NEW s \in Slots, SaveAnswered(s) PROVE PageInv'
<1>1. ~request[s].made
  BY DEF PageInv, PageTypes, Requested, MadeInv, Changes, SaveAnswered
<1>2. latest # s
  BY PageAssumption DEF PageInv, PageTypes, LatestInv, SaveAnswered
<1>3. form' \in [op : {"none", "add", "update"}, kind : Kinds, id : Ids \cup {None}]
  BY DEF PageInv, PageTypes, SaveAnswered
<1>4. Done(s) /\ UNCHANGED <<user, current, view, clone, shown, latest, untold>>
  BY DEF SaveAnswered, routing
<1> QED
  BY <1>1, <1>2, <1>3, <1>4, DoneInv

LEMMA FailedInv ==
  ASSUME PageInv, NEW s \in Slots, Failed(s) PROVE PageInv'
<1>1. \/ latest # s /\ UNCHANGED <<latest, shown>>
      \/ latest = s /\ latest' = None /\ shown' = shown
  BY DEF Failed
<1>2. form' \in [op : {"none", "add", "update"}, kind : Kinds, id : Ids \cup {None}]
  BY DEF PageInv, PageTypes, Failed
<1>3. Done(s) /\ UNCHANGED <<user, current, view, clone>>
  BY DEF Failed, routing
<1>4. untold \/ (request[s].made /\ request[s].by = view) => untold'
  BY DEF Failed
<1> QED
  BY <1>1, <1>2, <1>3, <1>4, DoneInv

-----------------------------------------------------------------------------
LEMMA NextInv == PageInv /\ [Next]_vars => PageInv'
<1> SUFFICES ASSUME PageInv, [Next]_vars PROVE PageInv'
  OBVIOUS
<1>1. ASSUME NEW p \in Paths, Navigate(p) PROVE PageInv'
  BY <1>1, NavigateInv
<1>2. ASSUME NEW v \in Views, TemplateArrives(v) \/ TemplateFails(v) PROVE PageInv'
  BY <1>2, TemplateArrivesInv, TemplateFailsInv
<1>3. ASSUME NEW s \in States, StateChanges(s) PROVE PageInv'
  BY <1>3, PollInv DEF StateChanges
<1>4. ASSUME NEW i \in Instances,
             PollServed(i) \/ PollAnswered(i) \/ PollFails(i) \/ TimerFires(i)
      PROVE  PageInv'
  BY <1>4, PollInv DEF PollServed, PollAnswered, PollFails, TimerFires
<1>5. ASSUME \/ \E k \in {KindOf[id] : id \in user.adds} : OpenAdd(k)
             \/ \E id \in Ids : OpenEdit(id)
             \/ CloseForm
      PROVE  PageInv'
  BY <1>5, DialogInv
<1>6. ASSUME NEW s \in Slots,
             \/ \E v \in Vals : Submit(s, v)
             \/ \E id \in Ids : ClickDelete(s, id)
             \/ ClickSave(s)
      PROVE  PageInv'
  BY <1>6, SubmitInv, ClickInv
<1>7. ASSUME NEW s \in Slots, ReadServed(s) \/ ChangeServed(s) \/ ChangeRefused(s)
      PROVE  PageInv'
  BY <1>7, ReadServedInv, ChangeServedInv, ChangeRefusedInv
<1>8. ASSUME NEW s \in Slots,
             ReadAnswered(s) \/ ChangeAnswered(s) \/ SaveAnswered(s) \/ Failed(s)
      PROVE  PageInv'
  BY <1>8, ReadAnsweredInv, ChangeAnsweredInv, SaveAnsweredInv, FailedInv
<1>9. CASE UNCHANGED vars
  BY <1>9, PollInv DEF vars
<1> QED
  BY <1>1, <1>2, <1>3, <1>4, <1>5, <1>6, <1>7, <1>8, <1>9 DEF Next

LEMMA SpecInv == Spec => []PageInv
  BY InitInv, NextInv, PTL DEF Spec

\* When the route of the URL has been entered ngView shows that very visit, in
\* whatever order the templates arrive (angular's updateRoute).
THEOREM SpecViewIsRoute == Spec => []ViewIsRoute
<1>1. PageInv => ViewIsRoute
  BY DEF PageInv
<1> QED
  BY <1>1, SpecInv, PTL

\* A view that waits for nothing shows the server's clone, unless another view
\* changed it, or an answer was lost (config.js, refreshConfig).
THEOREM SpecShownIsClone == Spec => []ShownIsClone
<1>1. PageInv => ShownIsClone
  <2> SUFFICES ASSUME PageInv, view # None, shown # None, ~Asking, ~untold
               PROVE  shown = clone
    BY DEF ShownIsClone
  <2>1. ~ToldLater
    BY IdleRequest DEF ToldLater, Asking
  <2> QED
    BY <2>1 DEF PageInv, FreshInv, LatestInv
<1> QED
  BY <1>1, SpecInv, PTL
=============================================================================
