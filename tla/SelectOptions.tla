----------------------------- MODULE SelectOptions -----------------------------
(***************************************************************************)
(* The select elements of the dialogs (angular): the session and the       *)
(* connection of a forward (`c for c in ...', the model is the very object *)
(* of the collection), the address filter (the same, multiple), and the    *)
(* types, whose options are in the page.  The browser has a say: a select  *)
(* that is not multiple always shows one of its options.  Groups, the      *)
(* empty option and keys of objects, which the page does not use, are left *)
(* out.                                                                    *)
(***************************************************************************)
EXTENDS Naturals, Sequences, FiniteSets, SequencesExt

CONSTANTS
  Items,      \* an object and which copy of it
  MaxLength,  \* bounds the length of the collection
  Undefined, Null

Lists == UNION {[1..n -> Items] : n \in 0..MaxLength}
Kinds == {"options", "multiple", "single"}

VARIABLES
  kind,        \* which function the directive linked
  collection,  \* what the options are made of
  modelValue,  \* $modelValue: an item, or for "multiple" a sequence
  options,     \* the option elements: [id, label]
  selected     \* the positions of those that the browser shows as selected

selectVars == <<kind, collection, modelValue, options, selected>>

\* The values of options: a place in the collection (in the page, an item), null,
\* and no option at all.
At(i)   == <<"at", i>>
Empty   == <<"", 0>>
Unknown == <<"?", 0>>

Label(item) == item[1]

\* hashKey: a copy carries the key of its original.
Hash(item) == item[1]

SelectTypeOK ==
  /\ kind \in Kinds /\ collection \in Lists
  /\ modelValue \in IF kind = "multiple" THEN Lists \cup {Undefined}
                                          ELSE Items \cup {Undefined, Null}
  /\ options \in Seq([id : {At(i) : i \in 1..MaxLength} \cup Items \cup {Unknown, Empty},
                      label : {Label(x) : x \in Items} \cup {""}])
  /\ selected \subseteq DOMAIN options

-----------------------------------------------------------------------------
(* The browser: s is a select, [options, selected]. *)

\* A select that is not multiple selects its first option when none is.
Reset(s) ==
  IF kind # "multiple" /\ s.selected = {} /\ s.options # << >>
    THEN [s EXCEPT !.selected = {1}] ELSE s

SetSelected(s, i, on) ==
  Reset([s EXCEPT !.selected = IF ~on THEN @ \ {i} ELSE IF kind = "multiple" THEN @ \cup {i} ELSE {i}])

\* Removes what is behind the first n options.
Shorten(s, n) ==
  IF n >= Len(s.options) THEN s
  ELSE Reset([options |-> SubSeq(s.options, 1, n), selected |-> s.selected \cap (1..n)])

Prepend(s, o) ==
  Reset([options |-> <<o>> \o s.options, selected |-> {i + 1 : i \in s.selected}])

Detach(s, id) ==
  IF \A i \in DOMAIN s.options : s.options[i].id # id THEN s
  ELSE LET at == CHOOSE i \in DOMAIN s.options : s.options[i].id = id IN
       Reset([options |-> RemoveAt(s.options, at),
              selected |-> {IF i > at THEN i - 1 ELSE i : i \in s.selected \ {at}}])

\* $element.val(id)
Val(s, id) ==
  LET at == {i \in DOMAIN s.options : s.options[i].id = id} IN
  IF at = {} THEN s ELSE [s EXCEPT !.selected = at]

Select == [options |-> options, selected |-> selected]

-----------------------------------------------------------------------------
(* Options and Multiple with ng-options *)

\* A multiple select marks the first of equal items: it removes what it finds.
InModel(list, model, i) ==
  IF kind = "multiple"
    THEN /\ model \notin {Undefined, Null}
         /\ \E m \in ToSet(model) : Hash(m) = Hash(list[i])
         /\ \A j \in 1..(i - 1) : Hash(list[j]) # Hash(list[i])
    ELSE model = list[i]

\* The options that render asks for.
Wanted(list, model) ==
  LET own == [i \in DOMAIN list |-> [id |-> At(i), label |-> Label(list[i]),
                                     selected |-> InModel(list, model, i)]]
      none == \A i \in DOMAIN own : ~own[i].selected
  IN IF kind = "multiple" THEN own
     ELSE IF model = Null THEN <<[id |-> Empty, label |-> "", selected |-> TRUE]>> \o own
     ELSE IF none THEN <<[id |-> Unknown, label |-> "", selected |-> TRUE]>> \o own
     ELSE own

\* Reuses the option at place i, or adds one, and sets its `selected' each time.
Place(s, i, o) ==
  LET entry == [id |-> o.id, label |-> o.label] IN
  IF i <= Len(s.options)
    THEN SetSelected([s EXCEPT !.options[i] = entry], i, o.selected)
    ELSE SetSelected([s EXCEPT !.options = Append(@, entry)], i, o.selected)

Render(s, list, model) ==
  LET wanted == Wanted(list, model)
      walk[i \in 0..Len(wanted)] == IF i = 0 THEN s ELSE Place(walk[i - 1], i, wanted[i])
  IN Shorten(walk[Len(wanted)], Len(wanted))

\* A digest: the watches of ng-model and of the select see what the page made of
\* the model and of the collection.
Shows(s, list, model) ==
  LET end == Render(s, list, model) IN
  /\ collection' = list /\ modelValue' = model
  /\ options' = end.options /\ selected' = end.selected /\ UNCHANGED kind

OptionsDigest ==
  /\ kind \in {"options", "multiple"}
  /\ \E list \in Lists :
       \E m \in IF kind = "multiple" THEN Lists \cup {Undefined}
                                     ELSE Items \cup {Undefined, Null} : Shows(Select, list, m)

\* The user picks the options at the places of picked: the change handler looks
\* the ids up in the collection, and $apply ends in a digest.
OptionsChange(picked) ==
  /\ kind = "options" => Cardinality(picked) = 1
  /\ picked # selected
  /\ LET places == SetToSortSeq(picked, <)
         ids == [n \in DOMAIN places |-> options[places[n]].id]
     IN Shows([options |-> options, selected |-> picked], collection,
              CASE kind = "multiple" -> [n \in DOMAIN ids |-> collection[ids[n][2]]]
                [] kind = "options" /\ ids[1] = Unknown -> Undefined
                [] kind = "options" /\ ids[1] = Empty -> Null
                [] OTHER -> collection[ids[1][2]])

-----------------------------------------------------------------------------
(* Single, and the directive of its options *)

HasOption(v) == \E i \in DOMAIN options : options[i].id = v

RenderUnknownOption(s) ==
  Val(Prepend(Detach(s, Unknown), [id |-> Unknown, label |-> ""]), Unknown)

Becomes(s) == options' = s.options /\ selected' = s.selected /\ UNCHANGED <<kind, collection>>

\* $render
SingleRender ==
  \E v \in Items \cup {Undefined, Null} :
    /\ modelValue' = v
    /\ Becomes(IF v \in Items /\ HasOption(v) THEN Val(Detach(Select, Unknown), v)
               ELSE RenderUnknownOption(Select))

SingleChange(i) ==
  /\ selected # {i} /\ options[i].id # Unknown
  /\ modelValue' = options[i].id
  /\ Becomes(Detach([options |-> options, selected |-> {i}], Unknown))

\* An option is linked, or its element is destroyed.
AddOption(v) ==
  /\ ~HasOption(v) /\ Len(options) < MaxLength
  /\ LET s == Reset([Select EXCEPT !.options = Append(@, [id |-> v, label |-> Label(v)])]) IN
     Becomes(IF modelValue = v THEN Detach(Val(s, v), Unknown) ELSE s)
  /\ UNCHANGED modelValue

RemoveOption(v) ==
  /\ HasOption(v)
  /\ Becomes(Detach(IF modelValue = v THEN RenderUnknownOption(Select) ELSE Select, v))
  /\ UNCHANGED modelValue

SelectInit ==
  /\ kind \in Kinds
  /\ collection = << >> /\ modelValue = Undefined
  /\ options = IF kind = "multiple" THEN << >> ELSE <<[id |-> Unknown, label |-> ""]>>
  /\ selected = IF kind = "multiple" THEN {} ELSE {1}

SelectNext ==
  \/ OptionsDigest
  \/ kind \in {"options", "multiple"} /\ \E picked \in SUBSET DOMAIN options : OptionsChange(picked)
  \/ kind = "single" /\ SingleRender
  \/ kind = "single" /\ \E i \in DOMAIN options : SingleChange(i)
  \/ kind = "single" /\ \E v \in Items : AddOption(v) \/ RemoveOption(v)

-----------------------------------------------------------------------------
(* Properties *)

Shown == {options[i].id : i \in selected}

\* What a select shows as selected is its model: that very object, or an option
\* that stands for none of them when the object is not (or no more) in the
\* collection; and every option carries its own item's label.
SelectShowsModel ==
  CASE kind = "options" ->
         /\ Cardinality(selected) = 1
         /\ IF modelValue \in ToSet(collection) THEN \E id \in Shown \ {Unknown, Empty} : collection[id[2]] = modelValue
            ELSE Shown = {IF modelValue = Null THEN Empty ELSE Unknown}
         /\ \A i \in DOMAIN collection : \E j \in DOMAIN options :
              options[j] = [id |-> At(i), label |-> Label(collection[i])]
         /\ Len(options) = Len(collection) + (IF modelValue \in ToSet(collection) THEN 0 ELSE 1)
    [] kind = "multiple" ->
         /\ Len(options) = Len(collection)
         /\ {Hash(collection[id[2]]) : id \in Shown}
              = {Hash(x) : x \in ToSet(collection)}
                  \cap (IF modelValue = Undefined THEN {} ELSE {Hash(x) : x \in ToSet(modelValue)})
    [] kind = "single" ->
         Shown = {IF modelValue \in Items /\ HasOption(modelValue) THEN modelValue ELSE Unknown}
=============================================================================
