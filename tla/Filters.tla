-------------------------------- MODULE Filters --------------------------------
(***************************************************************************)
(* The filters of angular: what an expression such as `x in list | f'      *)
(* makes of a list, and how numbers and the parts of a date are written.   *)
(* A filter has no state; a behaviour applies one of them once.            *)
(* Numbers are decimals, kept as a count of thousandths.                   *)
(***************************************************************************)
EXTENDS Integers, Sequences, FiniteSets, SequencesExt, Functions

CONSTANTS
  Jobs,       \* the filters that are applied, and their arguments
  Undefined

VARIABLES job, result

filterVars == <<job, result>>

FilterInit == job \in Jobs /\ result = Undefined

-----------------------------------------------------------------------------
(* filter: a value is [kind, text, fields], plain or an object. *)

Lower(c) == CASE c = "A" -> "a" [] c = "B" -> "b" [] OTHER -> c

\* indexOf(text) > -1
Holds(s, text) ==
  \E i \in 0..(Len(s) - Len(text)) : SubSeq(s, i + 1, i + Len(text)) = text

\* A key that begins with $ is angular's own.
Own(key) == key \in {"$$hashKey", "$"}

RECURSIVE Search(_, _)
Search(value, text) ==
  IF text # << >> /\ Head(text) = "!" THEN ~Search(value, Tail(text))
  ELSE CASE value.kind = "plain"  -> Holds([i \in DOMAIN value.text |-> Lower(value.text[i])], text)
         [] value.kind = "object" ->
              \E k \in DOMAIN value.fields : ~Own(k) /\ Search(value.fields[k], text)
         [] OTHER -> FALSE

\* getter(value, path), for a path of one name.
FieldOf(value, key) ==
  IF value.kind = "object" /\ key \in DOMAIN value.fields THEN value.fields[key]
  ELSE [kind |-> "undefined", text |-> << >>, fields |-> << >>]

\* An expression gives a text for each key; "$" stands for the whole value.
Check(value, expression) ==
  \A k \in DOMAIN expression :
    LET text == [i \in DOMAIN expression[k] |-> Lower(expression[k][i])] IN
    text # << >> => Search(IF k = "$" THEN value ELSE FieldOf(value, k), text)

Filtered(j) == SelectSeq(j.array, LAMBDA v : Check(v, j.expression))

-----------------------------------------------------------------------------
(* orderBy: an object gives a value [type, of] for each key; a text is a letter *)
(* and whether it is a capital.                                                *)

TypeOrder == <<"boolean", "number", "object", "string", "undefined">>
TypeRank(v) == CHOOSE i \in DOMAIN TypeOrder : TypeOrder[i] = v.type
Caseless(v) == IF v.type = "string" THEN v.of[1] ELSE v.of

Compare(v, w) ==
  IF v.type = w.type
    THEN IF Caseless(v) = Caseless(w) THEN 0 ELSE IF Caseless(v) < Caseless(w) THEN -1 ELSE 1
    ELSE IF TypeRank(v) < TypeRank(w) THEN -1 ELSE 1

\* A predicate is a key and whether "-" stands before it.
Predicate(p, a, b) ==
  IF p.descending THEN Compare(b[p.key], a[p.key]) ELSE Compare(a[p.key], b[p.key])

Comparator(predicates, a, b) ==
  LET at == SelectInSeq(predicates, LAMBDA p : Predicate(p, a, b) # 0) IN
  IF at = 0 THEN 0 ELSE Predicate(predicates[at], a, b)

InOrder(j, a, b) ==
  IF j.reverse THEN Comparator(j.predicates, b, a) <= 0 ELSE Comparator(j.predicates, a, b) <= 0

\* The browser's sort, which may exchange what the comparator does not tell apart.
Sorts(j) ==
  {s \in {[i \in DOMAIN p |-> j.array[p[i]]] : p \in Bijection(DOMAIN j.array, DOMAIN j.array)} :
     \A i \in 1..(Len(s) - 1) : InOrder(j, s[i], s[i + 1])}

-----------------------------------------------------------------------------
\* limitTo: a limit that is no number leaves nothing.
Limited(j) ==
  LET n == Len(j.array)
      limit == IF j.limit > n THEN n ELSE IF j.limit < -n THEN -n ELSE j.limit
  IN IF j.limit = Undefined THEN << >>
     ELSE IF limit > 0 THEN SubSeq(j.array, 1, limit) ELSE SubSeq(j.array, n + limit + 1, n)

-----------------------------------------------------------------------------
(* Numbers and dates as text, character by character *)

Digit == <<"0", "1", "2", "3", "4", "5", "6", "7", "8", "9">>

\* '' + n
NumberText(n) ==
  LET of[m \in Nat] == IF m < 10 THEN <<Digit[m + 1]>> ELSE Append(of[m \div 10], Digit[(m % 10) + 1])
  IN of[n]

Zeros(n) == [i \in 1..n |-> "0"]

\* The fraction as JavaScript writes it has no zeros at its end.
FractionLen(n) == CASE n % 1000 = 0 -> 0 [] n % 100 = 0 -> 1 [] n % 10 = 0 -> 2 [] OTHER -> 3

FractionSize(j) ==
  LET p == j.pattern
      most == IF p.minFrac > FractionLen(j.number) THEN p.minFrac ELSE FractionLen(j.number)
  IN IF j.size # Undefined THEN j.size ELSE IF most < p.maxFrac THEN most ELSE p.maxFrac

\* Math.round(number * pow) / pow, in units of the last place.  The product is
\* binary: one that should end with a half may be a little less, 9.995 * 100.
Rounded(n, size) ==
  IF size >= 3 THEN {n * 10^(size - 3)}
  ELSE LET unit == 10^(3 - size) IN
       {m \in {n \div unit, (n \div unit) + 1} : 2 * (m * unit - n) \in (-unit)..unit}

\* A separator stands before the place i of the digits: the last group has lgSize
\* of them, those before it gSize.
Separated(p, len, i) ==
  LET pos == IF len >= p.lgSize + p.gSize THEN len - p.lgSize ELSE 0 IN
  /\ i # 0
  /\ IF i < pos THEN (pos - i) % p.gSize = 0 ELSE (len - i) % p.lgSize = 0

\* The number as it is written when it was rounded to n units of its last place.
Written(j, size, n) ==
  LET unit  == 10^size
      whole == NumberText(n \div unit)
      part  == NumberText(n % unit)
      grouped == FlattenSeq([i \in DOMAIN whole |->
                   (IF Separated(j.pattern, Len(whole), i - 1) THEN <<",">> ELSE << >>)
                     \o <<whole[i]>>])
  IN (IF j.negative THEN <<"-">> ELSE << >>) \o grouped
       \o IF size = 0 THEN << >> ELSE <<".">> \o Zeros(size - Len(part)) \o part

FormatNumber(j) ==
  LET size == FractionSize(j) IN {Written(j, size, n) : n \in Rounded(j.number, size)}

PadNumber(num, digits, trim) ==
  LET text == NumberText(num)
      long == Zeros(digits - Len(text)) \o text
  IN IF trim THEN SubSeq(long, Len(long) - digits + 1, Len(long)) ELSE long

\* A getter of the date, an offset that makes months begin with 1 and hours end
\* with 12, and the digits.
DateGetter(value, size, offset, trim) ==
  LET moved == IF offset > 0 \/ value > -offset THEN value + offset ELSE value IN
  PadNumber(IF moved = 0 /\ offset = -12 THEN 12 ELSE moved, size, trim)

DateFormats(d) ==
  [yyyy |-> DateGetter(d.year, 4, 0, FALSE),  yy |-> DateGetter(d.year, 2, 0, TRUE),
   MM   |-> DateGetter(d.month, 2, 1, FALSE), M  |-> DateGetter(d.month, 1, 1, FALSE),
   HH   |-> DateGetter(d.hour, 2, 0, FALSE),  H  |-> DateGetter(d.hour, 1, 0, FALSE),
   hh   |-> DateGetter(d.hour, 2, -12, FALSE), h |-> DateGetter(d.hour, 1, -12, FALSE),
   a    |-> IF d.hour < 12 THEN <<"AM">> ELSE <<"PM">>]

-----------------------------------------------------------------------------
ApplyFilter ==
  /\ result = Undefined
  /\ CASE job.of = "filter"  -> result' = Filtered(job)
       [] job.of = "orderBy" -> result' \in Sorts(job)
       [] job.of = "limitTo" -> result' = Limited(job)
       [] job.of = "number"  -> result' \in FormatNumber(job)
       [] job.of = "date"    -> result' = DateFormats(job)
  /\ UNCHANGED job

-----------------------------------------------------------------------------
(* Properties *)

\* The texts that a value has, at any depth.
RECURSIVE Leaves(_)
Leaves(value) ==
  IF value.kind = "object" THEN UNION {Leaves(value.fields[k]) : k \in DOMAIN value.fields \ {"$$hashKey", "$"}}
  ELSE IF value.kind = "plain" THEN {[i \in DOMAIN value.text |-> Lower(value.text[i])]} ELSE {}

\* What is searched for behind an even number of "!" is in one of the value's
\* texts, and behind an odd number in none of them.
Matches(value, text) ==
  LET marks == CHOOSE n \in 0..Len(text) : /\ \A i \in 1..n : text[i] = "!"
                                           /\ n = Len(text) \/ text[n + 1] # "!"
      rest  == [i \in 1..(Len(text) - marks) |-> Lower(text[marks + i])]
  IN text = << >> \/ (\E leaf \in Leaves(value) : Holds(leaf, rest)) = (marks % 2 = 0)

\* filter keeps, in their order, the items that match every part of the expression.
FilterKeepsMatches ==
  LET kept == {i \in DOMAIN job.array : \A k \in DOMAIN job.expression :
                 Matches(IF k = "$" THEN job.array[i] ELSE FieldOf(job.array[i], k), job.expression[k])}
      places == SetToSortSeq(kept, <)
  IN result = [n \in DOMAIN places |-> job.array[places[n]]]

\* orderBy loses and doubles nothing; a later item is never before an earlier one
\* in the first key that tells them apart, "-" and reverse taken together; and
\* texts of the same letters are equal.
OrderIsByKeys ==
  LET Before(v, w) == TypeRank(v) < TypeRank(w) \/ (v.type = w.type /\ Caseless(v) < Caseless(w)) IN
  /\ \A x \in ToSet(job.array) \cup ToSet(result) :
       Cardinality({i \in DOMAIN job.array : job.array[i] = x})
         = Cardinality({i \in DOMAIN result : result[i] = x})
  /\ \A i, j \in DOMAIN result : i < j =>
       \A n \in DOMAIN job.predicates :
         LET p == job.predicates[n]
             Differs(m) == Before(result[i][job.predicates[m].key], result[j][job.predicates[m].key])
                           \/ Before(result[j][job.predicates[m].key], result[i][job.predicates[m].key])
         IN Differs(n) /\ (\A m \in 1..(n - 1) : ~Differs(m)) =>
              (Before(result[i][p.key], result[j][p.key]) = (p.descending = job.reverse))

\* limitTo gives as much as it can of what is asked for, from the right end.
LimitIsAnEnd ==
  IF job.limit = Undefined THEN result = << >>
  ELSE LET asked == IF job.limit < 0 THEN -job.limit ELSE job.limit IN
    /\ Len(result) = IF asked < Len(job.array) THEN asked ELSE Len(job.array)
    /\ IF job.limit < 0 THEN IsSuffix(result, job.array) ELSE IsPrefix(result, job.array)

\* What a text of digits stands for.
ReadDigits(s) ==
  LET value[n \in 0..Len(s)] ==
        IF n = 0 THEN 0 ELSE 10 * value[n - 1] + (CHOOSE i \in 1..10 : Digit[i] = s[n]) - 1
  IN value[Len(s)]

\* A number as text, read back, is the number rounded to as many places as it
\* shows, a half to either side; and its digits stand in groups.
NumberIsRead ==
  LET text  == IF job.negative THEN Tail(result) ELSE result
      point == SelectInSeq(text, LAMBDA c : c = ".")
      whole == IF point = 0 THEN text ELSE SubSeq(text, 1, point - 1)
      places == IF point = 0 THEN 0 ELSE Len(text) - point
      read  == ReadDigits(SelectSeq(text, LAMBDA c : c \notin {",", "."}))
      commas == {i \in DOMAIN whole : whole[i] = ","}
      behind(i) == Cardinality({k \in (i + 1)..Len(whole) : whole[k] # ","})
      digits == Len(whole) - Cardinality(commas)
      ends == {job.pattern.lgSize + n * job.pattern.gSize : n \in 0..Len(whole)}
  IN /\ job.negative => Head(result) = "-"
     /\ IF places > 3 THEN read = job.number * 10^(places - 3)
        ELSE LET unit == 10^(3 - places) IN 2 * (read * unit - job.number) \in (-unit)..unit
     /\ {behind(i) : i \in commas} = {n \in ends : n < digits}
     /\ job.size # Undefined => places = job.size
     /\ places \in job.pattern.minFrac..job.pattern.maxFrac \/ job.size # Undefined

\* From what is shown of a date, in twelve hours or in twenty-four, long or short,
\* it can be read back.
DateIsRead ==
  /\ ReadDigits(result.yyyy) = job.year
  /\ Len(result.yy) = 2 /\ ReadDigits(result.yy) = job.year % 100
  /\ {ReadDigits(result.MM), ReadDigits(result.M)} = {job.month + 1}
  /\ {ReadDigits(result.HH), ReadDigits(result.H)} = {job.hour}
  /\ \A h \in {ReadDigits(result.hh), ReadDigits(result.h)} :
       /\ h \in 1..12
       /\ (h % 12) + (IF result.a = <<"PM">> THEN 12 ELSE 0) = job.hour
  /\ Len(result.MM) = 2 /\ Len(result.HH) = 2 /\ Len(result.hh) = 2

FiltersKept == result # Undefined =>
  CASE job.of = "filter"  -> FilterKeepsMatches
    [] job.of = "orderBy" -> OrderIsByKeys
    [] job.of = "limitTo" -> LimitIsAnEnd
    [] job.of = "number"  -> NumberIsRead
    [] job.of = "date"    -> DateIsRead
================================================================================
