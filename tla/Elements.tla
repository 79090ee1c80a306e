------------------------------- MODULE Elements -------------------------------
(***************************************************************************)
(* What a digest makes of elements and texts.  First the directives of the *)
(* page's menu and dialogs that only dress an element: ng-class, ng-show,  *)
(* ng-hide, and a link with ng-click.  Each one that dresses listens to a  *)
(* watch, which tells it the new value and the one before.  Then texts and *)
(* attributes with {{ }} ($interpolate, the directives that watch them,    *)
(* $set and $observe of the attributes).                                   *)
(***************************************************************************)
EXTENDS Naturals, Sequences, FiniteSets, SequencesExt

CONSTANTS
  ClassValues,  \* of the expression of ng-class: [kind, on, off], names that are
                \* on and, in an object, off
  Conditions,   \* of ng-show and ng-hide: [kind, items], see ToBoolean
  OwnClasses,   \* of the element, in the template
  NoValue

VARIABLES
  classValue, condition,  \* the models
  lastClass, lastCondition, \* what the watches saw last, or NoValue before they ran
  classes,      \* of the element with ng-class
  shownDisplay, hiddenDisplay, \* style.display of the elements with ng-show and ng-hide
  href,         \* of the link
  followed,     \* whether the last click on it led elsewhere
  digested,     \* history: nothing was assigned since the last digest
  named         \* history: the classes the expression has ever named

elementVars == <<classValue, condition, lastClass, lastCondition, classes, shownDisplay,
                 hiddenDisplay, href, followed, digested, named>>

ElementTypeOK ==
  /\ classValue \in ClassValues /\ condition \in Conditions
  /\ lastClass \in ClassValues \cup {NoValue} /\ lastCondition \in Conditions \cup {NoValue}
  /\ {shownDisplay, hiddenDisplay} \subseteq {"", "none"}
  /\ OwnClasses \subseteq classes \cup named
  /\ followed \in BOOLEAN /\ digested \in BOOLEAN

\* A link that has no href is given an empty one.
HtmlAnchor(h) == IF h = NoValue THEN "" ELSE h

ElementInit ==
  /\ classValue \in ClassValues /\ condition \in Conditions
  /\ lastClass = NoValue /\ lastCondition = NoValue
  /\ classes = OwnClasses /\ named = {}
  /\ shownDisplay = "" /\ hiddenDisplay = ""
  /\ \E h \in {NoValue, "", "/monitor"} : href = HtmlAnchor(h)
  /\ followed = FALSE /\ digested = FALSE

-----------------------------------------------------------------------------
\* A variant that takes nothing away.
ClassListenerKeeps(value, old) == classes \cup value.on

\* The listener of ng-class.  The first time both values are the same one.
ClassListener(value, old) ==
  (IF old # value THEN classes \ old.on ELSE classes) \cup value.on

\* What reads like "no" is no: texts, and what an array of one text is as a text.
ToBoolean(value) ==
  CASE value.kind = "nothing" -> FALSE
    [] value.kind = "text" \/ Len(value.items) = 1 ->
         value.items[1] \notin {"f", "0", "false", "no", "n", "[]"}
    [] OTHER -> value.items # << >>

Show(value) == IF ToBoolean(value) THEN "" ELSE "none"
Hide(value) == IF ToBoolean(value) THEN "none" ELSE ""

\* The digest after the models became c and v.
DigestElements(c, v) ==
  /\ classValue' = c /\ condition' = v
  /\ classes' = IF c = lastClass THEN classes
                ELSE ClassListener(c, IF lastClass = NoValue THEN c ELSE lastClass)
  /\ shownDisplay'  = IF v = lastCondition THEN shownDisplay ELSE Show(v)
  /\ hiddenDisplay' = IF v = lastCondition THEN hiddenDisplay ELSE Hide(v)
  /\ lastClass' = c /\ lastCondition' = v
  /\ digested' = TRUE /\ named' = named \cup c.on

\* A handler of jQuery assigns to the models, and no digest follows.
AssignOutside(c, v) ==
  /\ classValue' = c /\ condition' = v
  /\ digested' = FALSE
  /\ UNCHANGED <<lastClass, lastCondition, classes, shownDisplay, hiddenDisplay, href,
                 followed, named>>

\* A click on the link: the link decides whether it leads anywhere, and ng-click
\* applies its function, which may throw after any of its assignments.
Click(c, v) == followed' = (href # "") /\ DigestElements(c, v) /\ UNCHANGED href

ElementNext ==
  \E c \in ClassValues, v \in Conditions : AssignOutside(c, v) \/ Click(c, v)

-----------------------------------------------------------------------------
(* Properties *)

\* After a digest the element has the classes that the expression names, and none
\* of those it named only before, however the value changed its kind or was
\* assigned to without a digest in between; and of the two elements under the
\* same condition exactly one is to be seen.
DressIsTheModel == digested =>
  /\ classValue.on \cup (OwnClasses \ named) \subseteq classes
  /\ classes \subseteq classValue.on \cup OwnClasses
  /\ {shownDisplay, hiddenDisplay} = {"", "none"}

-----------------------------------------------------------------------------
(* Texts and attributes with {{ }} *)

CONSTANTS
  Texts,      \* of templates: sequences of "{{", "}}", "x" and other characters
  Values,     \* of x: NoValue for null and undefined, texts, and objects as what toJson makes
  Observers   \* directives on the element that observe the attribute

VARIABLES
  place,     \* "text" or "attr"
  template,  \* the text of the node, or of the attribute
  xValue,    \* the model, x
  shown,     \* what the node or the attribute shows
  last,      \* what the watch saw last; NoValue before it ran
  asked,     \* the observers that wait for the next digest
  observers, \* those that are registered
  toldObs,   \* history: the last two things that each was told
  filledIn   \* history: nothing was assigned since the last digest

interpolateVars == <<place, template, xValue, shown, last, asked, observers, toldObs,
                     filledIn>>

InterpolateTypeOK ==
  /\ place \in {"text", "attr"} /\ template \in Texts /\ xValue \in Values
  /\ asked \subseteq observers /\ observers \subseteq Observers
  /\ \A o \in Observers \ observers : toldObs[o] = << >>

-----------------------------------------------------------------------------
First(s, c, from) == CHOOSE i \in from..Len(s) : s[i] = c /\ \A j \in from..(i - 1) : s[j] # c
Has(s, c, from)   == \E i \in from..Len(s) : s[i] = c
Plain(s)          == [text |-> s]
LastTwo(s)        == IF Len(s) > 2 THEN Tail(s) ELSE s

\* The loop of $interpolate: texts and expressions in turn.
Parts(s) ==
  LET from[index \in 1..(Len(s) + 1)] ==
        IF index > Len(s) THEN << >>
        ELSE IF ~(Has(s, "{{", index) /\ Has(s, "}}", First(s, "{{", index) + 1))
          THEN <<Plain(SubSeq(s, index, Len(s)))>>
        ELSE LET start == First(s, "{{", index)
                 end   == First(s, "}}", start + 1)
             IN (IF index = start THEN << >> ELSE <<Plain(SubSeq(s, index, start - 1))>>)
                \o <<[exp |-> SubSeq(s, start + 1, end - 1)]>> \o from[end + 1]
  IN from[1]

HasInterpolation(s) == \E i \in DOMAIN Parts(s) : "exp" \in DOMAIN Parts(s)[i]

\* An expression here is x, or empty, which is undefined.
Evaluate(exp) == IF exp = <<"x">> THEN xValue ELSE NoValue

\* A variant that shows what is not there.
InterpolatedUndefined(s) ==
  LET shownPart(p) == IF "text" \in DOMAIN p THEN p.text
                      ELSE IF Evaluate(p.exp) = NoValue THEN <<"undefined">> ELSE <<Evaluate(p.exp)>>
  IN FoldLeft(LAMBDA acc, p : acc \o shownPart(p), << >>, Parts(s))

\* The function that $interpolate returns.
Interpolated(s) ==
  LET shownPart(p) == IF "text" \in DOMAIN p THEN p.text
                      ELSE IF Evaluate(p.exp) = NoValue THEN << >> ELSE <<Evaluate(p.exp)>>
  IN FoldLeft(LAMBDA acc, p : acc \o shownPart(p), << >>, Parts(s))

InterpolateInit ==
  /\ place \in {"text", "attr"} /\ template \in Texts /\ xValue \in Values
  /\ shown = template /\ last = NoValue
  /\ asked = {} /\ observers = {} /\ toldObs = [o \in Observers |-> << >>]
  /\ filledIn = FALSE

\* $observe, while the element is linked, before its first digest.
Observe(o) ==
  /\ place = "attr" /\ last = NoValue /\ o \notin observers
  /\ observers' = observers \cup {o} /\ asked' = asked \cup {o}
  /\ UNCHANGED <<place, template, xValue, shown, last, toldObs, filledIn>>

AssignValue(v) ==
  /\ v # xValue /\ xValue' = v /\ filledIn' = FALSE
  /\ UNCHANGED <<place, template, shown, last, asked, observers, toldObs>>

\* First what waits, which is for attributes without {{ }}; then the watch, whose
\* listener sets the attribute and tells the observers.
DigestAll ==
  LET value   == IF HasInterpolation(template) THEN Interpolated(template) ELSE template
      changed == HasInterpolation(template) /\ (last = NoValue \/ last # value)
  IN /\ last' = value /\ asked' = {} /\ filledIn' = TRUE
     /\ shown' = IF changed THEN value ELSE shown
     /\ toldObs' = [o \in Observers |->
          IF o \in observers /\ changed THEN LastTwo(Append(toldObs[o], value))
          ELSE IF o \in asked /\ ~HasInterpolation(template) THEN LastTwo(Append(toldObs[o], template))
          ELSE toldObs[o]]
     /\ UNCHANGED <<place, template, xValue, observers>>

InterpolateNext ==
  \/ \E o \in Observers : Observe(o)
  \/ \E v \in Values : AssignValue(v)
  \/ DigestAll

-----------------------------------------------------------------------------
(* What holds of a text *)

\* The places of a text that stand for values: from a {{ to the next }}, none in
\* another, and none left out.
Holes(s) ==
  CHOOSE H \in SUBSET {h \in (1..Len(s)) \X (1..Len(s)) : h[1] < h[2]} :
    /\ \A h \in H : s[h[1]] = "{{" /\ s[h[2]] = "}}" /\ \A i \in (h[1] + 1)..(h[2] - 1) : s[i] # "}}"
    /\ \A g, h \in H : g # h => g[2] < h[1] \/ h[2] < g[1]
    /\ \A i \in DOMAIN s : s[i] = "{{" /\ Has(s, "}}", i + 1) =>
         \E h \in H : h[1] <= i /\ i <= h[2]

Filled(s) ==
  LET at(i) == IF \E h \in Holes(s) : h[2] = i
                 THEN LET h == CHOOSE g \in Holes(s) : g[2] = i
                          v == Evaluate(SubSeq(s, h[1] + 1, h[2] - 1))
                      IN IF v = NoValue THEN << >> ELSE <<v>>
               ELSE IF \E h \in Holes(s) : h[1] <= i /\ i < h[2] THEN << >> ELSE <<s[i]>>
  IN FlattenSeq([i \in DOMAIN s |-> at(i)])

\* After a digest the page shows the template with its values filled in, a
\* template without a {{ }} unchanged, and every observer of the attribute was
\* told what it shows last, and nothing twice in a row.
ShowsTheModel ==
  filledIn =>
    /\ shown = Filled(template)
    /\ \A o \in observers : /\ toldObs[o] # << >> /\ Last(toldObs[o]) = shown
                            /\ Len(toldObs[o]) = 2 => toldObs[o][1] # toldObs[o][2]
===============================================================================
