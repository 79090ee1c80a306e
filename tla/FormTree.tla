------------------------------- MODULE FormTree -------------------------------
(***************************************************************************)
(* Forms within forms, and what the removal of elements does to them       *)
(* (angular: FormController, the directives form and ngModel, and the      *)
(* patch of jQuery that tells the removed elements).  What makes one       *)
(* control valid is the subject of DialogForm.  Then one input, and how    *)
(* what is typed in it reaches its controller.                             *)
(***************************************************************************)
EXTENDS Naturals, Sequences, FiniteSets, SequencesExt

CONSTANTS
  Forms, Controls,
  Above,    \* the form around each of them, or Nil
  NameOf,   \* of the attribute name
  Tokens, Nil

Elements == Forms \cup Controls

VARIABLES
  live,      \* the elements that are in the document
  removed,   \* those that were
  fields,    \* of each form: name -> what $addControl was called with
  errors,    \* $error of each form: per token the queue of the invalid, << >> for false
  counts,    \* invalidCount of each form
  valids,    \* $valid of each form
  dead,      \* the forms that were given the functions of nullFormCtrl
  failing    \* per control: the tokens that it fails

treeVars == <<live, removed, fields, errors, counts, valids, dead, failing>>

TreeTypeOK ==
  /\ live \cap removed = {} /\ live \cup removed \subseteq Elements
  /\ \A f \in Forms, t \in Tokens : ToSet(errors[f][t]) \subseteq Elements
  /\ counts \in [Forms -> 0..Cardinality(Tokens)] /\ valids \in [Forms -> BOOLEAN]
  /\ dead \subseteq Forms /\ failing \in [Controls -> SUBSET Tokens]

\* What is below e, level by level, as the patch of jQuery walks over it.
Below(e) == {x \in Elements \ {e} : \E n \in 1..Cardinality(Elements) :
               LET up[i \in 0..n] == IF i = 0 THEN x
                                     ELSE IF up[i - 1] = Nil THEN Nil ELSE Above[up[i - 1]]
               IN up[n] = e}
Depth(x) == Cardinality({f \in Forms : x \in Below(f)})
Levels(S) == SetToSortSeq(S, LAMBDA x, y : Depth(x) < Depth(y))

-----------------------------------------------------------------------------
(* The functions of a form, on s = [fields, errors, counts, valids, dead] *)

\* $setValidity, which tells the form above when a token begins or ceases to fail.
RECURSIVE SetValidity(_, _, _, _, _)
SetValidity(s, f, t, ok, who) ==
  IF f = Nil \/ f \in s.dead THEN s
  ELSE LET queue == s.errors[f][t]
           rest  == SelectSeq(queue, LAMBDA x : x # who)
       IN IF ok
            THEN IF queue = << >> THEN s
                 ELSE LET next == [s EXCEPT !.errors[f][t] = rest] IN
                      IF rest # << >> THEN next
                      ELSE SetValidity([next EXCEPT !.counts[f] = @ - 1,
                                          !.valids[f] = IF s.counts[f] = 1 THEN TRUE ELSE @],
                                       Above[f], t, TRUE, f)
          ELSE IF Contains(queue, who) THEN s
          ELSE LET told == IF queue # << >> THEN s
                           ELSE SetValidity([s EXCEPT !.counts[f] = @ + 1], Above[f], t, FALSE, f)
               IN [told EXCEPT !.errors[f][t] = Append(queue, who), !.valids[f] = FALSE]

AddControl(s, f, who) ==
  IF f = Nil \/ f \in s.dead \/ NameOf[who] \in DOMAIN s.fields[f] THEN s
  ELSE [s EXCEPT !.fields[f] = [n \in DOMAIN @ \cup {NameOf[who]} |->
                                  IF n = NameOf[who] THEN who ELSE @[n]]]

RemoveControl(s, f, who) ==
  IF f = Nil \/ f \in s.dead THEN s
  ELSE LET own == {n \in DOMAIN s.fields[f] : s.fields[f][n] = who} IN
       FoldLeft(LAMBDA acc, t : SetValidity(acc, f, t, TRUE, who),
                [s EXCEPT !.fields[f] = [n \in DOMAIN @ \ own |-> @[n]]],
                SetToSeq(Tokens))

\* What is bound to $destroy: a form with one above it, and a control.
Destroyed(s, x) ==
  LET without == RemoveControl(s, Above[x], x) IN
  IF x \in Forms /\ Above[x] # Nil THEN [without EXCEPT !.dead = @ \cup {x}] ELSE without

State == [fields |-> fields, errors |-> errors, counts |-> counts, valids |-> valids, dead |-> dead]
Becomes(s) ==
  /\ fields' = s.fields /\ errors' = s.errors /\ counts' = s.counts
  /\ valids' = s.valids /\ dead' = s.dead

-----------------------------------------------------------------------------
TreeInit ==
  /\ live = {} /\ removed = {}
  /\ fields = [f \in Forms |-> << >>]
  /\ errors = [f \in Forms |-> [t \in Tokens |-> << >>]]
  /\ counts = [f \in Forms |-> 0] /\ valids = [f \in Forms |-> TRUE] /\ dead = {}
  /\ failing = [c \in Controls |-> {}]

\* An element is linked, after the one around it.
LinkElement(x) ==
  /\ x \notin live \cup removed /\ (Above[x] = Nil \/ Above[x] \in live)
  /\ live' = live \cup {x}
  /\ Becomes(AddControl(State, Above[x], x))
  /\ UNCHANGED <<removed, failing>>

\* A control of the document passes or fails a validator.
Validate(c, t, ok) ==
  /\ c \in live /\ ok = (t \in failing[c])
  /\ failing' = [failing EXCEPT ![c] = IF ok THEN @ \ {t} ELSE @ \cup {t}]
  /\ Becomes(SetValidity(State, Above[c], t, ok, c))
  /\ UNCHANGED <<live, removed>>

\* remove() tells the element and all below it, html() and empty() those below it.
RemoveElements(x, itself) ==
  LET gone == (Below(x) \cup IF itself THEN {x} ELSE {}) \cap live IN
  /\ x \in live
  /\ live' = live \ gone /\ removed' = removed \cup gone
  /\ Becomes(FoldLeft(LAMBDA acc, y : Destroyed(acc, y), State, Levels(gone)))
  /\ UNCHANGED failing

TreeNext ==
  \/ \E x \in Elements : LinkElement(x) \/ \E itself \in BOOLEAN : RemoveElements(x, itself)
  \/ \E c \in Controls, t \in Tokens, ok \in BOOLEAN : Validate(c, t, ok)

-----------------------------------------------------------------------------
(* Properties *)

\* Who fails a token in a form that is in the document.
Fails(x, t) == IF x \in Controls THEN t \in failing[x] ELSE errors[x][t] # << >>

\* Whatever was removed, in whatever state it was: the form says of each token who
\* of its own controls and forms fails it, counts the tokens, and is valid if
\* there are none; a name stands for an element that is in the document.
FormsTellTheirControls ==
  \A f \in live \cap Forms :
    /\ \A t \in Tokens :
         /\ ToSet(errors[f][t]) = {x \in live : Above[x] = f /\ Fails(x, t)}
         /\ IsInjective(errors[f][t])
    /\ counts[f] = Cardinality({t \in Tokens : errors[f][t] # << >>})
    /\ valids[f] = (counts[f] = 0)
    /\ \A n \in DOMAIN fields[f] : fields[f][n] \in live

-----------------------------------------------------------------------------
(* One input of a dialog: a required text, a required port, or a checkbox.  What  *)
(* the user types reaches the controller at once where the browser fires `input'  *)
(* events, and otherwise by a timer after the key or by the `change' event.  The  *)
(* page may set the model at any time.                                            *)

VARIABLES
  type,        \* "text", "number" or "checkbox"
  inputEvent,  \* whether the browser fires `input' events
  shown,       \* element.val(), or whether the box is checked
  viewValue, modelValue,
  model,       \* what the model's expression reads
  invalid,     \* the validators that failed
  timeout,     \* a timer is running since a key went down
  changed      \* the user has pasted something, and not left the input yet

inputVars == <<type, inputEvent, shown, viewValue, modelValue, model, invalid, timeout, changed>>

\* What an element can show, and what the page sets.
Contents(t) == CASE t = "text" -> {"", " ", "7", " 7"} [] t = "number" -> {"", "7", " 7", "0", "x"}
                 [] t = "checkbox" -> {"on", "off"}
Numbers == {"number 7", "number 0"}
Settable(t) == CASE t = "text" -> {"undefined", "7"}
                 [] t = "number" -> {"undefined", "7"} \cup Numbers
                 [] t = "checkbox" -> {"undefined", "true", "false"}

IsEmpty(v) == v \in {"", "undefined", "null"}
Trim(s)    == CASE s = " " -> "" [] s = " 7" -> "7" [] OTHER -> s
ToText(v)  == CASE v = "number 7" -> "7" [] v = "number 0" -> "0" [] OTHER -> v
ToNumber(s) == CASE s = "7" -> "number 7" [] s = "0" -> "number 0" [] OTHER -> s

InputTypeOK ==
  /\ type \in {"text", "number", "checkbox"} /\ shown \in Contents(type)
  /\ invalid \subseteq {"required", "number", "min"}
  /\ timeout \in BOOLEAN /\ changed \in BOOLEAN

-----------------------------------------------------------------------------
(* A pipe of validators: p = [value, invalid] *)

\* A validator gives its key for valid or not, and undefined for what is not.
Check(p, key, ok) ==
  [value |-> IF ok THEN p.value ELSE "undefined",
   invalid |-> IF ok THEN p.invalid \ {key} ELSE p.invalid \cup {key}]

Required(p) == Check(p, "required", ~IsEmpty(p.value))

MinValidator(p) == Check(p, "min", IsEmpty(p.value) \/ p.value # "number 0")

\* The parser and the formatters of a number.  What is read from the input may be
\* no number; what the page sets may be a string.
ParseNumber(p) ==
  LET q == Check(p, "number", IsEmpty(p.value) \/ p.value \in {"7", "0"}) IN
  [q EXCEPT !.value = IF @ = "" THEN "null" ELSE ToNumber(@)]
FormatNumber(p) == Check(p, "number", IsEmpty(p.value) \/ p.value \in Numbers)
NumberText(p) == [p EXCEPT !.value = IF IsEmpty(@) THEN "" ELSE ToText(@)]

\* $parsers in their order, and $formatters from the last to the first.
Parsed(v) ==
  LET p == [value |-> v, invalid |-> invalid] IN
  CASE type = "text"   -> Required(p)
    [] type = "number" -> MinValidator(ParseNumber(Required(p)))
    [] OTHER -> [p EXCEPT !.value = IF v = "on" THEN "true" ELSE "false"]

Formatted(v, failed) ==
  LET p == [value |-> v, invalid |-> failed] IN
  CASE type = "text"   -> Required(p)
    [] type = "number" -> NumberText(MinValidator(FormatNumber(Required(p))))
    [] OTHER -> [p EXCEPT !.value = IF v = "true" THEN "on" ELSE "off"]

Rendered(v) == IF IsEmpty(v) THEN "" ELSE v

-----------------------------------------------------------------------------
\* The listener: $setViewValue in an $apply, when the value is news.
Listen(value) ==
  LET p == Parsed(value)
      news == type = "checkbox" \/ viewValue # value
  IN /\ viewValue'  = value
     /\ modelValue' = IF news THEN p.value ELSE modelValue
     /\ model'      = IF news /\ modelValue # p.value THEN p.value ELSE model
     /\ invalid'    = IF news THEN p.invalid ELSE invalid

Unheard == UNCHANGED <<viewValue, modelValue, model, invalid>>

\* The user types, by keys.
Types(v) ==
  /\ type # "checkbox" /\ v # shown /\ shown' = v
  /\ IF inputEvent THEN Listen(Trim(v)) /\ UNCHANGED timeout
                   ELSE Unheard /\ timeout' = TRUE
  /\ UNCHANGED <<type, inputEvent, changed>>

\* The timer of the key.
Timer ==
  /\ timeout /\ timeout' = FALSE /\ Listen(Trim(shown))
  /\ UNCHANGED <<type, inputEvent, shown, changed>>

\* The user pastes with the mouse.
Pastes(v) ==
  /\ type # "checkbox" /\ v # shown /\ shown' = v
  /\ IF inputEvent THEN Listen(Trim(v)) /\ UNCHANGED changed
                   ELSE Unheard /\ changed' = TRUE
  /\ UNCHANGED <<type, inputEvent, timeout>>

\* The `change' event.
Leaves ==
  /\ changed /\ changed' = FALSE /\ Listen(Trim(shown))
  /\ UNCHANGED <<type, inputEvent, shown, timeout>>

Clicks ==
  /\ type = "checkbox"
  /\ \E v \in Contents(type) \ {shown} : shown' = v /\ Listen(v)
  /\ UNCHANGED <<type, inputEvent, timeout, changed>>

\* The page sets the model, and the watch of ng-model sees it.
SetModel(v) ==
  LET p == Formatted(v, invalid)
      news == modelValue # v
  IN /\ model' = v
     /\ modelValue' = v
     /\ invalid'   = IF news THEN p.invalid ELSE invalid
     /\ viewValue' = IF news THEN p.value ELSE viewValue
     /\ shown'     = IF news /\ viewValue # p.value THEN Rendered(p.value) ELSE shown
     /\ UNCHANGED <<type, inputEvent, timeout, changed>>

\* After the first digest.
InputInit ==
  /\ type \in {"text", "number", "checkbox"} /\ inputEvent \in BOOLEAN
  /\ invalid = IF type = "checkbox" THEN {} ELSE {"required"}
  /\ viewValue = CASE type = "text" -> "undefined" [] type = "number" -> "" [] OTHER -> "off"
  /\ shown = Rendered(viewValue)
  /\ modelValue = "undefined" /\ model = "undefined"
  /\ timeout = FALSE /\ changed = FALSE

InputNext ==
  \/ \E v \in Contents(type) : Types(v) \/ Pastes(v)
  \/ Timer \/ Leaves \/ Clicks
  \/ \E v \in Settable(type) : SetModel(v)

-----------------------------------------------------------------------------
(* Properties *)

\* Once the events of the user have been heard, the model is what the input shows:
\* the text without the space around it, the number, or whether the box is
\* checked; and where the input is not valid the model is undefined, or is the
\* value that the page has set.
ModelIsShown ==
  ~timeout /\ ~changed =>
    /\ model = modelValue
    /\ Trim(shown) = Rendered(viewValue)
    /\ invalid = {} => model = CASE type = "text"     -> Trim(shown)
                                 [] type = "number"   -> ToNumber(Trim(shown))
                                 [] type = "checkbox" -> IF shown = "on" THEN "true"
                                                         ELSE IF model = "undefined" THEN "undefined" ELSE "false"
    /\ invalid # {} => model = "undefined" \/ (model \in Settable(type) /\ shown = "")
    /\ "number" \in invalid => type = "number" /\ (Trim(shown) = "x" \/ model = "7")
==============================================================================
