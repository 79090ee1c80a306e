------------------------------ MODULE Expressions ------------------------------
(***************************************************************************)
(* $parse (angular), which the page's templates rest on, stage by stage:   *)
(* the lexer, the parser, and the functions that read and write a path.    *)
(* The stages share no state here; each has inputs of its own.             *)
(***************************************************************************)
EXTENDS Naturals, Sequences, FiniteSets, SequencesExt

CONSTANTS
  Alphabets,  \* a text is over one of these sets of characters
  MaxText,    \* bounds the length of a text
  TokenSets,  \* the tokens of an expression are of one of these sets
  MaxTokens,  \* bounds how many they are
  MaxKeys     \* bounds the keys of a path

-----------------------------------------------------------------------------
(* The lexer.  A character that it treats like others stands for them: a for  *)
(* the letters but e, 1 for the digits, "(" for the brackets and separators   *)
(* but the dot.  The escape of a code point and the marks that only JSON      *)
(* needs are left out.                                                        *)

VARIABLES
  text,
  lexed  \* what lex returned: [ok, tokens], or nothing yet

lexerVars == <<text, lexed>>

IsIdent(c)  == c \in {"a", "e"}
IsNumber(c) == c = "1"
IsSign(c)   == c \in {"-", "1"}  \* isExpOperator
OperatorTexts   == {<<"=">>, <<"-">>, <<"=", "=">>}

LexError == [ok |-> FALSE, tokens |-> << >>]

AtEnd(i) == i = Len(text)  \* the last character: `peek' is false, and isNumber(false) is true

\* text.charAt(i), or nothing.
At(i) == IF i \in DOMAIN text THEN text[i] ELSE ""

Token(first, end, kind) == [at |-> first, text |-> SubSeq(text, first, end - 1), kind |-> kind]

-----------------------------------------------------------------------------
\* readNumber: the place after the number, or 0 when its exponent is invalid.
NumberEnd(start) ==
  LET end[i \in Nat] ==
        LET c == At(i)
            e == i > start /\ At(i - 1) = "e" IN
        CASE c \in {".", "1"} -> end[i + 1]
          [] c = "e" /\ (IsSign(At(i + 1)) \/ AtEnd(i)) -> end[i + 1]
          [] c = "-" /\ e /\ IsNumber(At(i + 1)) -> end[i + 1]
          [] c = "-" /\ e /\ ~IsNumber(At(i + 1)) -> 0
          [] OTHER -> i
  IN end[start]

\* readIdent: letters, digits and dots; the place after them.
IdentEnd(start) ==
  LET end[i \in Nat] == IF At(i) = "." \/ IsIdent(At(i)) \/ IsNumber(At(i)) THEN end[i + 1] ELSE i
  IN end[start]

SkipSpace(start) ==
  LET end[i \in Nat] == IF At(i) = " " THEN end[i + 1] ELSE i IN end[start]

\* Whether what was read is called.
IsCalled(end) == At(SkipSpace(end)) = "("

\* The tokens of a path, and where the lexer goes on.  The last name of a path
\* that is called is a token of its own, behind a dot; a dot with no name behind it
\* is dropped there.
Ident(start) ==
  LET end  == IdentEnd(start)
      dots == {i \in start..(end - 1) : At(i) = "."}
      dot  == CHOOSE i \in dots : \A j \in dots : j <= i
  IN IF dots # {} /\ IsCalled(end)
       THEN [next |-> SkipSpace(end),
             tokens |-> <<Token(start, dot, "path")>> \o
               (IF dot + 1 = end THEN << >>
                ELSE <<Token(dot, dot + 1, "."), Token(dot + 1, end, "method")>>)]
       ELSE [tokens |-> <<Token(start, end, "path")>>, next |-> end]

\* readString: the place after the closing quote, or 0.
StringEnd(start) ==
  LET end[i \in Nat, escape \in BOOLEAN] ==
        IF i > Len(text) THEN 0
        ELSE IF escape THEN end[i + 1, FALSE]
        ELSE IF At(i) = "\\" THEN end[i + 1, TRUE]
        ELSE IF At(i) = At(start) THEN i + 1
        ELSE end[i + 1, FALSE]
  IN end[start + 1, FALSE]

RECURSIVE Lex(_, _)
Lex(i, ts) ==
  LET go(end, kind) == IF end = 0 THEN LexError ELSE Lex(end, Append(ts, Token(i, end, kind))) IN
  CASE i > Len(text) -> [ok |-> TRUE, tokens |-> ts]
    [] At(i) = "'" -> go(StringEnd(i), "string")
    [] IsNumber(At(i)) \/ (At(i) = "." /\ (IsNumber(At(i + 1)) \/ AtEnd(i))) -> go(NumberEnd(i), "number")
    [] IsIdent(At(i)) -> Lex(Ident(i).next, ts \o Ident(i).tokens)
    [] At(i) \in {"(", "."} -> go(i + 1, At(i))
    [] At(i) = " " -> Lex(i + 1, ts)
    [] OTHER -> IF <<At(i), At(i + 1)>> \in OperatorTexts THEN go(i + 2, "operator")
                ELSE IF <<At(i)>> \in OperatorTexts THEN go(i + 1, "operator") ELSE LexError

LexerInit ==
  /\ \E a \in Alphabets : text \in UNION {[1..n -> a] : n \in 0..MaxText}
  /\ lexed = << >>

LexAll == lexed = << >> /\ lexed' = Lex(1, << >>) /\ UNCHANGED text

-----------------------------------------------------------------------------
(* Properties *)

End(t) == t.at + Len(t.text)

\* A quote behind an even number of backslashes.
Closes(s, i) ==
  s[i] = "'" /\ \E k \in 1..(i - 1) : /\ s[k] # "\\" /\ (i - 1 - k) % 2 = 0
                                      /\ \A j \in (k + 1)..(i - 1) : s[j] = "\\"

\* A dot that belongs to no token: the last of a name that is called.
Dropped(i) ==
  /\ text[i] = "." /\ At(SkipSpace(i + 1)) = "("
  /\ \E t \in ToSet(lexed.tokens) : t.kind = "path" /\ End(t) = i

\* Every character of the text is in one token, or is a space between two, or the
\* dot of a.(c) that is dropped; a token is as long as it can be; a number has a
\* digit, or is the dot that ends the text; and a dot is split off from a name only
\* before what is called: a.b(c) calls the method b of a, not the function a.b of
\* nobody.
TokensAreTheText ==
  lexed # << >> /\ lexed.ok =>
    LET ts == lexed.tokens
        gaps == {i \in DOMAIN text : \A t \in ToSet(ts) : ~(t.at <= i /\ i < End(t))}
    IN /\ \A i \in DOMAIN ts :
            /\ ts[i].text = SubSeq(text, ts[i].at, End(ts[i]) - 1) /\ ts[i].text # << >>
            /\ i > 1 => ts[i].at >= End(ts[i - 1])
            /\ ts[i].kind = "string" =>
                 {j \in DOMAIN ts[i].text : Closes(ts[i].text, j)} = {Len(ts[i].text)}
            /\ ts[i].kind = "path" /\ (i = Len(ts) \/ ts[i + 1].kind # ".") =>
                 /\ ~(IsIdent(At(End(ts[i]))) \/ IsNumber(At(End(ts[i]))))
                 /\ i < Len(ts) /\ ts[i + 1].kind = "(" /\ ~Dropped(End(ts[i])) =>
                      "." \notin ToSet(ts[i].text)
            /\ ts[i].kind = "number" =>
                 /\ ~IsNumber(At(End(ts[i])))
                 /\ "1" \in ToSet(ts[i].text) \/ (ts[i].text = <<".">> /\ AtEnd(ts[i].at))
       /\ \A i \in gaps : text[i] = " " \/ Dropped(i)

-----------------------------------------------------------------------------
(* The parser, as an operator, against the grammar that it stands for.  Tokens *)
(* that it treats alike are one token here: x is any name, 1 a constant or an  *)
(* operator of no level, and of each level of operators there is one, but plus *)
(* and minus.  Arguments of filters, indices, fields and the literals of       *)
(* arrays and objects are left out; x is the name of a filter.                 *)

VARIABLES
  tokens,  \* what the lexer made of an expression
  value    \* what the parser made of the tokens

expressionVars == <<tokens, value>>

\* The levels, the loosest first.
Filter     == 1
Assignment == 2
Or         == 3
Sum        == 7
Product    == 8
Unary      == 9
Primary    == 10

Operators(l) == <<{"|"}, {"="}, {"||"}, {"&&"}, {"=="}, {"<"}, {"+", "-"}, {"*"}, {"!", "-", "+"}>>[l]

\* The tokens that have a function: names, constants, and operators too.
HaveFn == {"x", "1"} \cup UNION {Operators(l) : l \in Filter..Unary}

\* A variant that recurs where the parser loops.
LoopsNever(l) == l = Filter

\* The levels whose operator is expected in a loop; the others recur.
Loops(l) == l \in {Filter, Or, Sum, Product}

Parsed(t, r) == [ok |-> TRUE, tree |-> t, rest |-> r]
Error == [ok |-> FALSE, tree |-> << >>, rest |-> << >>]

\* `peek'.
Peek(ts, texts) == ts # << >> /\ ts[1] \in texts

\* What `left.assign' is there for: a name, in parentheses or not, with a plus or not.
RECURSIVE Assignable(_)
Assignable(t) == t = <<"x">> \/ (t[1] \in {"()", "+"} /\ Len(t) = 2 /\ Assignable(t[2]))

RECURSIVE Parse(_, _), More(_, _, _), Calls(_, _)

\* What a level makes of its first operand t and the tokens behind it.
More(l, t, ts) ==
  LET right == IF l = Filter THEN (IF Peek(Tail(ts), {"x"}) THEN Parsed(<<"x">>, Tail(Tail(ts))) ELSE Error)
               ELSE Parse(IF Loops(l) THEN l + 1 ELSE l, Tail(ts))
      both  == <<ts[1], t, right.tree>>
  IN IF ~Peek(ts, Operators(l)) THEN Parsed(t, ts)
     ELSE IF ~right.ok THEN Error
     ELSE IF Loops(l) THEN More(l, both, right.rest) ELSE Parsed(both, right.rest)

\* The calls that follow a primary expression, each with one argument or none.
Calls(t, ts) ==
  LET arg == Parse(Assignment, Tail(ts)) IN
  IF ~Peek(ts, {"("}) THEN Parsed(t, ts)
  ELSE IF Peek(Tail(ts), {")"}) THEN Calls(<<"call", t>>, Tail(Tail(ts)))
  ELSE IF arg.ok /\ Peek(arg.rest, {")"}) THEN Calls(<<"call", t, arg.tree>>, Tail(arg.rest))
  ELSE Error

\* Behind a plus comes a primary expression, which may be an operator by itself.
Parse(l, ts) ==
  CASE l = Assignment ->
         LET left  == Parse(Or, ts)
             right == Parse(Or, Tail(left.rest)) IN
         IF ~left.ok \/ ~Peek(left.rest, {"="}) THEN left
         ELSE IF Assignable(left.tree) /\ right.ok
           THEN Parsed(<<"=", left.tree, right.tree>>, right.rest) ELSE Error
    [] l = Filter \/ l \in Or..Product ->
         LET first == Parse(l + 1, ts) IN
         IF first.ok THEN More(l, first.tree, first.rest) ELSE Error
    [] l = Unary ->
         IF Peek(ts, Operators(Unary))
           THEN LET e == Parse(IF ts[1] = "+" THEN Primary ELSE Unary, Tail(ts)) IN
                IF e.ok THEN Parsed(<<ts[1], e.tree>>, e.rest) ELSE Error
           ELSE Parse(Primary, ts)
    [] l = Primary ->
         IF Peek(ts, HaveFn) THEN Calls(<<ts[1]>>, Tail(ts))
         ELSE IF Peek(ts, {"("})
           THEN LET e == Parse(Filter, Tail(ts)) IN
                IF e.ok /\ Peek(e.rest, {")"}) THEN Calls(<<"()", e.tree>>, Tail(e.rest)) ELSE Error
           ELSE Error

\* `statements', with the check that no token is left.
RECURSIVE Statements(_)
Statements(ts) ==
  LET none == ts = << >> \/ ts[1] \in {")", ";"}
      one  == IF none THEN Parsed(<< >>, ts) ELSE Parse(Filter, ts)
      more == Statements(Tail(one.rest))
      here == IF none THEN << >> ELSE <<one.tree>>
  IN IF ~one.ok THEN Error
     ELSE IF Peek(one.rest, {";"})
       THEN (IF more.ok THEN Parsed(here \o more.tree, more.rest) ELSE Error)
       ELSE IF one.rest = << >> THEN Parsed(here, << >>) ELSE Error

ExpressionInit ==
  /\ \E S \in TokenSets : tokens \in UNION {[1..n -> S] : n \in 0..MaxTokens}
  /\ value = << >>

ParseAll == value = << >> /\ value' = Statements(tokens) /\ UNCHANGED tokens

-----------------------------------------------------------------------------
(* The grammar *)

\* What can be assigned to.
RECURSIVE IsTarget(_)
IsTarget(s) ==
  \/ s = <<"x">>
  \/ Len(s) > 2 /\ s[1] = "(" /\ Last(s) = ")" /\ IsTarget(Tail(Front(s)))
  \/ Len(s) > 1 /\ s[1] = "+" /\ s[2] # "+" /\ IsTarget(Tail(s))

RECURSIVE IsPhrase(_, _)
IsPhrase(l, s) ==
  LET before(i) == SubSeq(s, 1, i - 1)
      after(i)  == SubSeq(s, i + 1, Len(s)) IN
  /\ s # << >>
  /\ CASE l = Filter -> \/ IsPhrase(Assignment, s)
                        \/ /\ Len(s) > 2 /\ after(Len(s) - 2) = <<"|", "x">>
                           /\ IsPhrase(Filter, before(Len(s) - 1))
       [] l = Assignment -> \/ IsPhrase(Or, s)
                            \/ \E i \in DOMAIN s :
                                 s[i] = "=" /\ IsTarget(before(i)) /\ IsPhrase(Or, after(i))
       [] l \in Or..Product ->
            IsPhrase(l + 1, s) \/ \E i \in DOMAIN s : /\ s[i] \in Operators(l)
                                                      /\ IsPhrase(l, before(i))
                                                      /\ IsPhrase(l + 1, after(i))
       [] l = Unary -> IF s[1] \notin {"!", "-", "+"} THEN IsPhrase(Primary, s)
                       ELSE IsPhrase(IF s[1] = "+" THEN Primary ELSE Unary, Tail(s))
       [] l = Primary ->
            \/ Len(s) = 1 /\ s[1] \notin {"(", ")", ";"}
            \/ Last(s) = ")" /\ s[1] = "(" /\ IsPhrase(Filter, Tail(Front(s)))
            \/ /\ Last(s) = ")"
               /\ \E i \in 2..(Len(s) - 1) :
                    /\ s[i] = "(" /\ IsPhrase(Primary, before(i))
                    /\ i = Len(s) - 1 \/ IsPhrase(Assignment, Front(after(i)))

IsProgram(s) ==
  LET ends == {0, Len(s) + 1} \cup {i \in DOMAIN s : s[i] = ";"} IN
  \A i, j \in ends :
    i + 1 < j /\ (\A k \in ends : ~(i < k /\ k < j)) => IsPhrase(Filter, SubSeq(s, i + 1, j - 1))

\* The tokens of a tree, in their order.
RECURSIVE Yield(_)
Yield(t) ==
  CASE Len(t) = 1     -> t
    [] t[1] = "()"   -> <<"(">> \o Yield(t[2]) \o <<")">>
    [] t[1] = "call" -> Yield(t[2]) \o <<"(">> \o (IF Len(t) = 3 THEN Yield(t[3]) ELSE << >>) \o <<")">>
    [] Len(t) = 2    -> <<t[1]>> \o Yield(t[2])
    [] OTHER         -> Yield(t[2]) \o <<t[1]>> \o Yield(t[3])

LevelOf(t) ==
  IF Len(t) = 1 \/ t[1] \in {"()", "call"} THEN Primary
  ELSE IF Len(t) = 2 THEN Unary
  ELSE CHOOSE l \in Filter..Product : t[1] \in Operators(l)

\* Each operator has tighter ones below it; a row of equals groups to one side:
\* differences and alternatives to the left, as in JavaScript, and the others, unlike
\* there, to the right.
RECURSIVE Binds(_)
Binds(t) ==
  /\ \A i \in 2..Len(t) : Binds(t[i])
  /\ LevelOf(t) < Unary =>
       LET left == t[1] \in {"+", "-", "*", "||", "|"} IN
       /\ LevelOf(t[2]) + (IF left THEN 0 ELSE -1) >= LevelOf(t) \/ t[1] = "="
       /\ LevelOf(t[3]) + (IF left THEN -1 ELSE 0) >= LevelOf(t)

-----------------------------------------------------------------------------
(* Properties *)

\* The parser accepts exactly the programs of the grammar, in which an operator where
\* an operand is due is one, with no level of its own: it is a token with a function
\* like any other.  Of what it accepts no token is lost or moved, and precedence is kept.
ParsesTheGrammar ==
  value # << >> =>
    /\ value.ok = IsProgram(tokens)
    /\ value.ok =>
         /\ FlattenSeq([i \in DOMAIN value.tree |-> Yield(value.tree[i])])
              = SelectSeq(tokens, LAMBDA t : t # ";")
         /\ \A i \in DOMAIN value.tree : Binds(value.tree[i])

-----------------------------------------------------------------------------
(* A path a.b.c, read by the function that getterFn makes for it, in the     *)
(* generated form and in the form without code generation (five keys at a    *)
(* time), and written by setter.  A promise on the way is read as what it    *)
(* was resolved to.                                                          *)

Kinds == {"object", "value", "null", "undefined", "zero"}

VARIABLES
  keys,      \* the number of keys of the path
  property,  \* what key k finds in the object before: its kind, and whether in a promise
  owned,     \* the keys whose names the locals have
  told,      \* the promises that are resolved and have told the getter: $$v is set
  asked      \* how often the getter has called `then' of each promise

pathVars == <<keys, property, owned, told, asked>>

\* A value: where the walk began, the keys that lead to it, its kind.
Value(from, k, kind) == [from |-> from, at |-> k, kind |-> kind]
Start(from) == Value(from, 0, "object")

PathTypeOK ==
  /\ keys \in 1..MaxKeys /\ owned \subseteq 1..keys
  /\ property \in [1..keys -> [kind : Kinds, promise : BOOLEAN]]
  /\ told \subseteq 1..keys /\ asked \in [1..keys -> Nat]

IsNothing(v) == v.kind \in {"null", "undefined"}

\* Key k of v, with a promise unwrapped: without $$v it reads as undefined.
Read(v, k) ==
  Value(v.from, k, IF v.kind # "object" THEN "undefined"
                   ELSE IF property[k].promise /\ k \notin told THEN "undefined"
                   ELSE property[k].kind)

\* The promise that reading key k of v meets for the first time.
Meets(v, k) == v.kind = "object" /\ property[k].promise /\ asked[k] = 0

-----------------------------------------------------------------------------
\* A walk is a value and the promises it has met.
Step(w, from, k) ==
  IF IsNothing(w.value) THEN w
  ELSE [value |-> Read(from, k), met |-> w.met \cup {j \in {k} : Meets(from, k)}]

\* The generated code: the first key is looked for in the locals first.
Generated ==
  LET walk[k \in 0..keys] ==
        IF k = 0 THEN [value |-> Start("scope"), met |-> {}]
        ELSE Step(walk[k - 1], IF k = 1 /\ 1 \in owned THEN Start("locals") ELSE walk[k - 1].value, k)
  IN walk[keys]

\* The locals are cleared after the first five keys.
HasLocals(k) == k = 1 /\ k \in owned

\* cspSafeGetterFn: each group begins as an expression does.
CspSafe ==
  LET walk[k \in 0..keys] ==
        IF k = 0 THEN [value |-> Start("scope"), met |-> {}]
        ELSE LET w == IF HasLocals(k) THEN [walk[k - 1] EXCEPT !.value = Start("locals")] ELSE walk[k - 1]
             IN Step(w, w.value, k)
  IN walk[keys]

Get(w) ==
  /\ asked' = [k \in 1..keys |-> IF k \in w.met THEN asked[k] + 1 ELSE asked[k]]
  /\ UNCHANGED <<keys, property, owned, told>>

\* A promise calls back.
Tell(k) ==
  /\ asked[k] > 0 /\ k \notin told
  /\ told' = told \cup {k}
  /\ UNCHANGED <<keys, property, owned, asked>>

Promises == {k \in 1..keys : property[k].promise}

\* `setter' begins at the scope, makes the objects that are not there, and knows
\* nothing of promises: it writes into the promise itself.
Set ==
  /\ property' = IF \E k \in Promises : k < keys THEN property
                 ELSE [k \in 1..keys |-> [promise |-> FALSE, kind |-> IF k < keys THEN "object" ELSE "value"]]
  /\ told' = told \cap {k \in 1..keys : property'[k].promise}
  /\ UNCHANGED <<keys, owned, asked>>

\* The walk ends at the first value that is no object; what lies behind is undefined.
PathInit ==
  /\ keys \in 1..MaxKeys
  /\ \E last \in 1..keys, kind \in Kinds \ {"value"}, ps \in SUBSET (1..keys) :
       /\ last < keys => kind # "object"
       /\ ps \subseteq 1..last
       /\ property = [k \in 1..keys |->
            [promise |-> k \in ps,
             kind |-> IF k < last THEN "object" ELSE IF k = last THEN kind ELSE "undefined"]]
  /\ owned \in SUBSET ({1, 6} \cap 1..keys)
  /\ told = {} /\ asked = [k \in 1..keys |-> 0]

PathNext ==
  \/ Get(Generated)
  \/ Get(CspSafe)
  \/ \E k \in 1..keys : Tell(k)
  \/ Set

-----------------------------------------------------------------------------
(* Properties *)

\* Key k leads on from an object that is known.
Known(k) == property[k].promise => k \in told
Open(k)  == Known(k) /\ property[k].kind = "object"

Ended == CHOOSE k \in 1..keys : (k = keys \/ ~Open(k)) /\ \A j \in 1..(k - 1) : Open(j)

\* What a path stands for: the value at its end, or what ended it earlier.
AtPath ==
  LET from == IF 1 \in owned THEN "locals" ELSE "scope" IN
  CASE ~Known(Ended) -> Value(from, Ended, "undefined")
    [] Ended < keys /\ Known(Ended) /\ property[Ended].kind = "zero" -> Value(from, Ended + 1, "undefined")
    [] OTHER -> Value(from, Ended, property[Ended].kind)

\* Both forms read what the path stands for, for any number of keys, from the
\* locals exactly when they have the first one; they call `then' of a promise
\* once, however often they read; and what was set is what is read.
PathsAreRead ==
  /\ Generated.value = AtPath /\ CspSafe.value = AtPath
  /\ \A k \in 1..keys : asked[k] <= 1
  /\ property[keys].kind = "value" /\ 1 \notin owned => Generated.value = Value("scope", keys, "value")
===============================================================================
