------------------------------ MODULE DatePicker ------------------------------
(***************************************************************************)
(* The date pickers of jquery.datePicker.js.  A picker shows its month in  *)
(* the one popup of the page, or in its own element when it is inline.     *)
(* All that are not inline look for their cells in whatever popup there    *)
(* is.  A string stands for the day it was written from; what is read      *)
(* from it is the subject of Dates.  The page calls a picker at any time,  *)
(* but not from within the events that the picker triggers.                *)
(***************************************************************************)
EXTENDS Integers, Sequences, FiniteSets

CONSTANTS
  Pickers, Inline, TextInputs,
  Days,         \* all that strings and tables name
  Month,        \* of each day, counted from the year 0
  DateIn,       \* the number of each day in its month
  WeekStart,    \* the first day of its week
  ReadDay,      \* what Date.fromString makes of its string
  Cells,        \* of each month: the days of its table
  Today, DefaultEnd,
  Settings,     \* what datePicker() is called with
  Named,        \* the days whose strings are used, and whose cells are clicked
  AskedMonths,        \* what dpSetDisplayedMonth is called with
  MaxCalls, None

VARIABLES
  picker,    \* the controllers, or None
  calendar,  \* what is drawn in the popup and in each inline element
  calls      \* how often the page or the user did something

pickerVars == <<picker, calendar, calls>>

Contexts   == Inline \cup {"popup"}
Context(p) == IF p \in Inline THEN p ELSE "popup"

\* No popup; one without cells has a frame.
Gone == [frame |-> None, by |-> None, month |-> None, off |-> {}, marked |-> {},
         prevOff |-> FALSE, nextOff |-> FALSE,
         from |-> None, upto |-> None, intact |-> TRUE]  \* history
Blank(frame) == [Gone EXCEPT !.frame = frame]
Emptied(k)   == [k EXCEPT !.by = None, !.month = None, !.off = {}, !.marked = {}]

PickerInit ==
  /\ picker = [p \in Pickers |-> None]
  /\ calendar = [x \in Contexts |-> Gone]
  /\ calls = 0

-----------------------------------------------------------------------------
(* The functions of a picker, on w = [picker, calendar] *)

InRange(d, c) == c.start <= d /\ d <= c.end

\* The days of the table that are made unselectable, by the number in their cell.
BeforeStart(c, m) ==
  LET other == {d \in Cells[m] : Month[d] # m} IN
  IF m = Month[c.start]
    THEN {d \in other : DateIn[d] > 20} \cup {d \in Cells[m] \ other : DateIn[d] < DateIn[c.start]}
  ELSE IF DateIn[c.start] > 20 /\ m = Month[c.start] + 1 THEN {d \in other : ReadDay[d] < c.start}
  ELSE {}
AfterEnd(c, m) ==
  LET other == {d \in Cells[m] : Month[d] # m} IN
  IF m = Month[c.end]
    THEN {d \in other : DateIn[d] < 14} \cup {d \in Cells[m] \ other : DateIn[d] > DateIn[c.end]}
  ELSE IF DateIn[c.end] < 13 /\ m = Month[c.end] - 1
    THEN {d \in other : DateIn[d] < 13 /\ DateIn[d] > DateIn[c.end]}
  ELSE {}

\* `_renderCalendar', into whatever the context holds.
Rendered(w, p) ==
  LET c == w.picker[p]  x == Context(p) IN
  IF w.calendar[x].frame = None THEN w
  ELSE [w EXCEPT !.calendar[x] =
         [frame |-> @.frame, by |-> p, month |-> c.month,
          off |-> BeforeStart(c, c.month) \cup AfterEnd(c, c.month),
          marked |-> c.on \cap Cells[c.month],
          prevOff |-> c.month = Month[c.start], nextOff |-> c.month = Month[c.end],
          from |-> c.start, upto |-> c.end, intact |-> TRUE]]

\* `setDisplayedMonth' of a controller: the month t, or the nearest one.
Clamped(c, t) ==
  IF t < Month[c.start] THEN Month[c.start] ELSE IF t > Month[c.end] THEN Month[c.end] ELSE t

\* January without a year is no month.
Target(c, m, y) ==
  IF y = None /\ m \in {None, 0} THEN Month[Today]
  ELSE (IF m = None THEN c.month % 12 ELSE m) + 12 * (IF y = None THEN c.month \div 12 ELSE y)

SetMonth(w, p, t, rerender) ==
  LET c == w.picker[p]
      moved == [w EXCEPT !.picker[p].month = Clamped(c, t)]
  IN IF rerender /\ Clamped(c, t) # c.month THEN Rendered(moved, p) ELSE moved

\* `setStartDate' and `setEndDate'; the month is that of today before there is one.
WithStart(c, d) ==
  LET s == [c EXCEPT !.start = IF d # None THEN ReadDay[d] ELSE IF @ = None THEN Today ELSE @] IN
  IF s.end = None THEN s ELSE [s EXCEPT !.month = Clamped(s, @)]
WithEnd(c, d) ==
  LET e == IF d # None THEN ReadDay[d] ELSE IF c.end = None THEN DefaultEnd ELSE c.end
      s == [c EXCEPT !.end = IF e < c.start THEN c.start ELSE e]
  IN [s EXCEPT !.month = Clamped(s, IF @ = None THEN Month[Today] ELSE @)]

\* `_closeCalendar' removes the popup, whoever opened it.
Closed(w, p) ==
  [w EXCEPT !.calendar = [x \in Contexts |->
     IF x = "popup" THEN Gone ELSE IF x = p THEN Emptied(@[x]) ELSE @[x]]]

\* `getSelected'.
GetSelected(c) ==
  LET on == SelectSeq(c.keys, LAMBDA d : d \in c.on) IN [i \in DOMAIN on |-> ReadDay[on[i]]]

\* `display'.
Displayed(w, p) ==
  LET c     == w.picker[p]
      moved == IF ~c.remember /\ c.on # {} THEN SetMonth(w, p, Month[GetSelected(c)[1]], FALSE)
               ELSE w
  IN IF c.disabled THEN w
     ELSE Rendered([moved EXCEPT !.calendar[Context(p)] = Blank(p)], p)

\* `clearSelected'.
Cleared(w, p) ==
  [w EXCEPT !.picker[p].keys = << >>, !.picker[p].on = {}, !.picker[p].count = 0,
            !.picker[p].miscounted = FALSE,
            !.calendar[Context(p)].marked = {},
            !.calendar[Context(p)].intact = @ /\ w.calendar[Context(p)].by \in {p, None}]

\* The cell of the day d is looked for among those of the displayed month or among
\* the others, even if the cells are of another month.
Marked(w, p, d, v) ==
  LET x == Context(p)  k == w.calendar[x]  m == w.picker[p].month
      found == /\ k.by # None /\ d \in Cells[k.month]
               /\ (Month[d] - m) % 12 = 0 <=> Month[d] = k.month
  IN [w EXCEPT !.calendar[x].marked = IF ~found THEN @ ELSE IF v THEN @ \cup {d} ELSE @ \ {d},
               !.calendar[x].intact = @ /\ (k.by = None \/ (k.by = p /\ k.month = m))]

\* A cell stands for the midday of its day, which on the last day is too late.
Selectable(c, d, midday) == InRange(d, c) /\ ~(midday /\ d = c.end)

Chosen(c, d) == IF c.week THEN WeekStart[d] ELSE d

\* The early returns of `setSelected'.  What was never selected is not deselected.
Refused(c, d, midday, v) ==
  LET e == Chosen(c, d) IN
  \/ ~Selectable(c, d, midday) \/ e < c.start
  \/ IF v THEN e \in c.on ELSE e \notin c.on /\ \E i \in DOMAIN c.keys : c.keys[i] = e
  \/ c.multiple /\ v /\ c.count = c.numSelectable

SetSelected(w, p, d, midday, v, move) ==
  LET c == w.picker[p]
      e == Chosen(c, d)
      a == IF c.multiple THEN w ELSE Cleared(w, p)
      b == IF move /\ c.month # Month[e] THEN SetMonth(a, p, Month[e], TRUE) ELSE a
      s == [b EXCEPT !.picker[p].keys = IF \E i \in DOMAIN @ : @[i] = e THEN @ ELSE Append(@, e),
                     !.picker[p].on = IF v THEN @ \cup {e} ELSE @ \ {e},
                     !.picker[p].count = IF v THEN @ + 1 ELSE @ - 1,
                     !.picker[p].miscounted = @ \/ (~v /\ e \notin b.picker[p].on)]
  IN IF Refused(c, d, midday, v) THEN w ELSE Marked(s, p, e, v)

\* The events: a text input is given the string of the day, read and written again,
\* and its change selects what is read from that.
Selected(w, p, d, midday, v, move, dispatch) ==
  LET c == w.picker[p]
      s == SetSelected(w, p, d, midday, v, move)
  IN IF Refused(c, d, midday, v) \/ ~dispatch \/ p \notin TextInputs THEN s
     ELSE SetSelected(s, p, ReadDay[ReadDay[Chosen(c, d)]], FALSE, TRUE, TRUE)

\* A new controller, and `init'.
Fresh == [start |-> None, end |-> None, month |-> None, keys |-> << >>, on |-> {}, count |-> 0,
          multiple |-> FALSE, numSelectable |-> 1, closeOnSelect |-> FALSE, remember |-> FALSE,
          week |-> FALSE, disabled |-> FALSE, miscounted |-> FALSE]

Initialised(c, s, inline) ==
  LET d == WithEnd(WithStart(c, s.start), s.end) IN
  [d EXCEPT !.month = Clamped(d, Target(d, s.month, s.year)),
            !.multiple = s.multiple, !.numSelectable = IF s.multiple THEN s.numSelectable ELSE 1,
            !.closeOnSelect = s.closeOnSelect /\ ~inline, !.remember = s.remember,
            !.week = s.week, !.count = 0, !.miscounted = (c.on # {})]

-----------------------------------------------------------------------------
(* What the page and the user do *)

World == [picker |-> picker, calendar |-> calendar]

Become(w) ==
  /\ calls < MaxCalls /\ calls' = calls + 1
  /\ picker' = w.picker /\ calendar' = w.calendar

\* `datePicker()', of an element that may have a picker, and a text.
Make(p, s, text) ==
  LET c == IF picker[p] = None THEN Fresh ELSE picker[p]
      w == [World EXCEPT !.picker[p] = Initialised(c, s, p \in Inline)]
      shown == IF p \in Inline THEN Displayed([w EXCEPT !.calendar[p] = Gone], p) ELSE w
  IN Become(IF picker[p] = None /\ p \in TextInputs /\ text # None
              THEN SetSelected(shown, p, ReadDay[text], FALSE, TRUE, TRUE) ELSE shown)

SetStartDate(p, d) ==
  picker[p] # None /\ Become([World EXCEPT !.picker[p] = WithStart(@, d)])
SetEndDate(p, d) ==
  picker[p] # None /\ Become([World EXCEPT !.picker[p] = WithEnd(@, d)])
SetDisplayedMonth(p, m, y) ==
  picker[p] # None /\ Become(SetMonth(World, p, Target(picker[p], m, y), TRUE))
DpSetSelected(p, d, v, move, dispatch) ==
  picker[p] # None /\ Become(Selected(World, p, ReadDay[d], FALSE, v, move, dispatch))
SetDisabled(p, b) ==
  picker[p] # None /\ Become([World EXCEPT !.picker[p].disabled = b])
Display(p)  == picker[p] # None /\ Become(Displayed(World, p))
Close(p)    == picker[p] # None /\ Become(Closed(World, p))
Rerender(p) == picker[p] # None /\ Become(Rendered(World, p))

\* The user leaves a text input with another text.
Change(p, text) ==
  /\ p \in TextInputs /\ picker[p] # None
  /\ Become(IF text = None THEN Cleared(World, p)
            ELSE SetSelected(World, p, ReadDay[text], FALSE, TRUE, TRUE))

\* A click on a cell, on a button beside the month, and anywhere else (or Escape).
ClickDay(x, d) ==
  LET k == calendar[x]
      p == k.by
      s == Selected(World, p, d, TRUE, d \notin k.marked \/ ~picker[p].multiple, FALSE, TRUE)
  IN /\ p # None /\ d \in Cells[k.month] \ k.off
     /\ Become(IF picker[p].closeOnSelect THEN Closed(s, p) ELSE s)

ClickMonth(x, months) ==
  LET p == calendar[x].frame IN
  /\ p # None /\ ~(IF months < 0 THEN calendar[x].prevOff ELSE calendar[x].nextOff)
  /\ Become(SetMonth(World, p, picker[p].month + months, TRUE))

Leave ==
  /\ calendar["popup"].frame # None
  /\ Become(Closed(World, calendar["popup"].frame))

PickerNext ==
  \/ \E p \in Pickers :
       \/ \E s \in Settings, t \in Named \cup {None} : Make(p, s, t)
       \/ \E d \in Named : SetStartDate(p, d) \/ SetEndDate(p, d)
       \/ \E m \in AskedMonths : SetDisplayedMonth(p, m[1], m[2])
       \/ \E d \in Named, v, move, dispatch \in BOOLEAN : DpSetSelected(p, d, v, move, dispatch)
       \/ \E b \in BOOLEAN : SetDisabled(p, b)
       \/ Display(p) \/ Close(p) \/ Rerender(p)
       \/ \E t \in Named \cup {None} : Change(p, t)
  \/ \E x \in Contexts :
       (\E d \in Named : ClickDay(x, d)) \/ (\E n \in {-12, -1, 1, 12} : ClickMonth(x, n))
  \/ Leave

PickerSpec == PickerInit /\ [][PickerNext]_pickerVars

-----------------------------------------------------------------------------
(* Properties *)

\* The month that a picker would show has a day that can be selected, unless the
\* start was set past the end (setDisplayedMonth; setStartDate does not look).
MonthIsInRange ==
  \A p \in Pickers : picker[p] # None /\ picker[p].start <= picker[p].end =>
    Month[picker[p].start] <= picker[p].month /\ picker[p].month <= Month[picker[p].end]

\* A picker never counts more days than are selected; it counts them all, and selects
\* no more than it may, unless it was made again with some selected, or a day was
\* deselected that was not selected (numSelected).
DaysAreCounted ==
  \A p \in Pickers : picker[p] # None =>
    LET c == picker[p] IN
    /\ c.count <= Cardinality(c.on)
    /\ ~c.miscounted => c.count = Cardinality(c.on) /\ Cardinality(c.on) <= c.numSelectable

\* The cells that look selected are those of the days that are, as long as no other
\* picker used the same popup and the month was not changed behind it.
CellsAreTheSelection ==
  \A x \in Contexts : calendar[x].by # None /\ calendar[x].intact =>
    calendar[x].marked = picker[calendar[x].by].on \cap Cells[calendar[x].month]

\* The cells that cannot be clicked are those of the days before the start and after
\* the end, as these were when the cells were drawn: the numbers in the cells suffice.
CellsAreInRange ==
  \A x \in Contexts : calendar[x].by # None /\ calendar[x].from <= calendar[x].upto =>
    calendar[x].off =
      {d \in Cells[calendar[x].month] : d < calendar[x].from \/ d > calendar[x].upto}

PickersKept == MonthIsInRange /\ DaysAreCounted /\ CellsAreTheSelection /\ CellsAreInRange
=============================================================================
