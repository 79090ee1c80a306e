------------------------------ MODULE DialogForm ------------------------------
(***************************************************************************)
(* The form of a forward (forward.html) and the controllers behind it      *)
(* (angular's form and ngModel).  A text or a choice is required; a number *)
(* is required, a number, and in range.  The remote host and port are      *)
(* hidden for a dynamic forward, and must be valid all the same.           *)
(***************************************************************************)
EXTENDS Naturals, Sequences, FiniteSets

CONSTANT None  \* undefined

Fields  == {"type", "description", "rHost", "rPort"}
Hidden  == {"rHost", "rPort"}
Tokens  == <<"required", "number", "range">>

\* What stands in an input, and what stands for it in the forward.
Shown(f) == CASE f = "type"  -> {"", "D", "L"}
              [] f = "rPort" -> {"", "good", "low", "junk"}
              [] OTHER       -> {"", "good"}
Model(f) == (Shown(f) \ {"junk"}) \cup {None}
Models   == {m \in [Fields -> UNION {Model(f) : f \in Fields}] :
               \A f \in Fields : m[f] \in Model(f)}

VARIABLES
  view,         \* $viewValue, as the input shows it
  model,        \* the fields of the forward
  modelValue,   \* what each control knows of them
  control,      \* per field: $error, invalidCount, $valid
  form          \* $error, invalidCount, $valid

formVars == <<view, model, modelValue, control, form>>

Queued == UNION {[1..n -> Fields] : n \in 0..Cardinality(Fields)}
Token  == {Tokens[i] : i \in DOMAIN Tokens}

FormTypeOK ==
  /\ \A f \in Fields : view[f] \in Shown(f)
  /\ model \in Models
  /\ modelValue \in Models
  /\ control \in [Fields -> [error : [Token -> BOOLEAN \cup {None}],
                             count : 0..Len(Tokens), valid : BOOLEAN]]
  /\ form \in [error : [Token -> Queued], count : 0..Len(Tokens), valid : BOOLEAN]

-----------------------------------------------------------------------------
(* Validity.  A step of the page calls $setValidity many times: the operators *)
(* work on c = [control, form].                                               *)

\* FormController.$setValidity.
TellForm(fm, f, t, ok) ==
  LET queue == fm.error[t]
      rest  == SelectSeq(queue, LAMBDA g : g # f)
      count == IF ok THEN (IF queue # << >> /\ rest = << >> THEN fm.count - 1 ELSE fm.count)
                     ELSE (IF queue = << >> THEN fm.count + 1 ELSE fm.count)
      known == \E i \in DOMAIN queue : queue[i] = f
  IN [error |-> [fm.error EXCEPT ![t] = IF ok THEN rest ELSE IF known THEN @ ELSE Append(@, f)],
      count |-> count,
      valid |-> IF ok THEN (IF queue # << >> /\ rest = << >> /\ count = 0 THEN TRUE ELSE fm.valid)
                      ELSE IF known THEN fm.valid ELSE FALSE]

\* NgModelController.$setValidity: nothing when it is known.
SetValidity(c, f, t, ok) ==
  LET k == c.control[f]
      count == IF ok THEN (IF k.error[t] = TRUE THEN k.count - 1 ELSE k.count)
                     ELSE k.count + 1
  IN IF k.error[t] = ~ok THEN c
     ELSE [control |-> [c.control EXCEPT ![f] =
             [error |-> [k.error EXCEPT ![t] = ~ok], count |-> count,
              valid |-> IF ok THEN count = 0 \/ k.valid ELSE FALSE]],
           form |-> TellForm(c.form, f, t, ok)]

\* The validators of a field, in their order, which is the same for parsers and
\* formatters; after one that fails, the others see undefined.
Fails(v, t) == CASE t = "required" -> v \in {"", None}
                 [] t = "number"   -> v = "junk"
                 [] t = "range"    -> v = "low"
Validators(f) == IF f = "rPort" THEN 3 ELSE 1

Validate(c, f, v) ==
  LET at[i \in 0..Validators(f)] ==
        IF i = 0 THEN [c |-> c, v |-> v]
        ELSE LET bad == Fails(at[i - 1].v, Tokens[i]) IN
             [c |-> SetValidity(at[i - 1].c, f, Tokens[i], ~bad),
              v |-> IF bad THEN None ELSE at[i - 1].v]
  IN at[Validators(f)]

-----------------------------------------------------------------------------
\* The watch of ngModel on each field, from the state that an event left.  A
\* field whose value the control knows is ignored, whatever its input shows.
DigestForm(c, shown, known, m) ==
  LET changed == {f \in Fields : known[f] # m[f]}
      at[F \in SUBSET changed] ==
        IF F = {} THEN c
        ELSE LET f == CHOOSE g \in F : TRUE IN Validate(at[F \ {f}], f, m[f]).c
      valid(f) == Validate(c, f, m[f]).v
  IN /\ control' = at[changed].control
     /\ form' = at[changed].form
     /\ view' = [f \in Fields |-> IF f \notin changed THEN shown[f]
                                  ELSE IF valid(f) = None THEN "" ELSE valid(f)]
     /\ modelValue' = m
     /\ model' = m

\* What linking the form and the first digest make of an empty forward.
Empty(f) == [error |-> [t \in Token |-> IF f # "rPort" /\ t # "required" THEN None
                                       ELSE t = "required"],
             count |-> 1, valid |-> FALSE]

FormInit ==
  /\ view = [f \in Fields |-> ""]
  /\ model = [f \in Fields |-> None] /\ modelValue = model
  /\ control = [f \in Fields |-> Empty(f)]
  /\ form = [error |-> [t \in Token |-> IF t = "required"
                                         THEN <<"type", "description", "rHost", "rPort">>
                                         ELSE << >>],
             count |-> 1, valid |-> FALSE]

\* A dialog is shown with an empty forward or with one of the configuration.
Configured == {m \in Models : \A f \in Fields : m[f] \notin {None, "", "low"}}
Open(m) == DigestForm([control |-> control, form |-> form], view, modelValue, m)

\* A variant of onChangeForwardType that leaves what a dynamic forward lacks.
OnChangeTypeKeeps(m, v) ==
  IF v = "D" THEN m ELSE [m EXCEPT !.rHost = "", !.rPort = "low"]

\* onChangeForwardType, the listener of the choice.
OnChangeType(m, v) ==
  IF v = "D" THEN [m EXCEPT !.rHost = "good", !.rPort = "good"]
             ELSE [m EXCEPT !.rHost = "", !.rPort = "low"]

\* The user types or chooses, in what is not hidden: $setViewValue in an $apply.
Enter(f, v) ==
  LET read == Validate([control |-> control, form |-> form], f, v)
      set  == [model EXCEPT ![f] = read.v]
  IN /\ v \in Shown(f) /\ v # view[f]
     /\ f = "type" => v # ""
     /\ ~(model.type = "D" /\ f \in Hidden)
     /\ DigestForm(read.c, [view EXCEPT ![f] = v], [modelValue EXCEPT ![f] = read.v],
                   IF f = "type" /\ modelValue.type # read.v
                     THEN OnChangeType(set, v) ELSE set)

FormNext ==
  \/ Open([f \in Fields |-> None]) \/ \E m \in Configured : Open(m)
  \/ \E f \in Fields : \E v \in Shown(f) : Enter(f, v)

-----------------------------------------------------------------------------
(* Properties *)

\* The counts and the queues agree with the errors, after any sequence of what
\* is typed and what is set from outside.
CountsTell ==
  /\ \A f \in Fields :
       LET errors == {t \in Token : control[f].error[t] = TRUE} IN
       /\ control[f].count = Cardinality(errors)
       /\ control[f].valid = (errors = {})
       /\ \A t \in Token :
            Cardinality({i \in DOMAIN form.error[t] : form.error[t][i] = f})
              = IF t \in errors THEN 1 ELSE 0
  /\ form.count = Cardinality({t \in Token : form.error[t] # << >>})
  /\ form.valid = (form.count = 0)

\* The dialog sends a forward exactly when every field of it is what it must be.
ValidIsComplete == form.valid = \A f \in Fields : model[f] \notin {None, "", "low"}

\* Nobody is kept from sending a dynamic forward by an input that he cannot see.
HiddenIsValid == model.type = "D" => \A f \in Hidden : control[f].valid

FormsKept == CountsTell /\ ValidIsComplete /\ HiddenIsValid
=============================================================================
