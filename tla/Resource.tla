------------------------------- MODULE Resource -------------------------------
(***************************************************************************)
(* $resource (angular), from which the page's Config is made: the calls of *)
(* a class and of its instances, what their arguments are taken for, the   *)
(* address, and the answers, which arrive in any order.  Encoding and the  *)
(* binding of further defaults are left out.                               *)
(***************************************************************************)
EXTENDS Naturals, Sequences, FiniteSets, SequencesExt

CONSTANTS
  MaxCalls,
  Templates,  \* addresses: sequences of segments, a literal or a parameter
  Params      \* parameters

Roles == {"params", "data", "success", "error"}

\* What the documentation allows to pass, by the role that each argument has.
Documented(hasBody) ==
  {s \in {<< >>, <<"data">>, <<"params">>, <<"params", "data">>}
         : hasBody = ("data" \in ToSet(s))}
InstanceArgs == {<< >>, <<"params">>}
Callbacks == {<< >>, <<"success">>, <<"success", "error">>}

VARIABLES
  template,  \* the address of this resource
  calls,     \* what was called, in this order
  content    \* what each value holds: the number of the call whose answer filled it, or 0

resourceVars == <<template, calls, content>>

IsFunction(role) == role \in {"success", "error"}

ResourceTypeOK ==
  /\ template \in Templates
  /\ \A i \in DOMAIN calls :
       /\ calls[i].value \in DOMAIN content
       /\ calls[i].taken \in [Roles -> Roles \cup {"none", "self"}]
       /\ calls[i].state \in {"sent", "answered", "failed"}
  /\ content \in Seq(0..MaxCalls)

-----------------------------------------------------------------------------
\* Nothing was passed.
NoArguments == [r \in Roles |-> "none"]
Arg(args, i) == IF i \in DOMAIN args THEN args[i] ELSE "none"

\* case 1: the only argument, or what the cases before fall through to.
TakeFirst(taken, args, hasBody) ==
  IF IsFunction(args[1]) THEN [taken EXCEPT !["success"] = args[1]]
  ELSE IF hasBody THEN [taken EXCEPT !["data"] = args[1]]
  ELSE [taken EXCEPT !["params"] = args[1]]

\* Resource[name]: each argument by its number and whether it is a function.
Take(args, hasBody) ==
  CASE Len(args) = 0 -> NoArguments
    [] Len(args) = 1 -> TakeFirst(NoArguments, args, hasBody)
    [] Len(args) \in 2..4 /\ ~IsFunction(args[2]) ->
         [params |-> args[1], data |-> args[2], success |-> Arg(args, 3), error |-> Arg(args, 4)]
    [] Len(args) \in 2..4 /\ IsFunction(args[2]) /\ IsFunction(args[1]) ->
         [NoArguments EXCEPT !["success"] = args[1], !["error"] = args[2]]
    [] OTHER -> TakeFirst([NoArguments EXCEPT !["success"] = args[2], !["error"] = Arg(args, 3)],
                          args, hasBody)

\* Resource.prototype['$' + name]: hands on all four.
TakeOfInstance(args, hasBody) ==
  LET first == Arg(args, 1)
      own == CASE Len(args) = 3 -> [params |-> args[1], success |-> args[2], error |-> args[3]]
               [] Len(args) \in 1..2 /\ IsFunction(first) ->
                    [params |-> "none", success |-> first, error |-> Arg(args, 2)]
               [] OTHER -> [params |-> first, success |-> Arg(args, 2), error |-> "none"]
  IN Take(<<own.params, IF hasBody THEN "self" ELSE "none", own.success, own.error>>, hasBody)

\* Route.url: a parameter without a value leaves an empty segment, and empty
\* segments at the end are dropped; a value for no segment goes to the query.
Url(given) ==
  LET filled == [i \in DOMAIN template |->
                  IF template[i] \in Params /\ template[i] \notin given THEN "" ELSE template[i]]
      ends == {i \in DOMAIN filled : filled[i] # ""}
      last == IF ends = {} THEN 0 ELSE CHOOSE i \in ends : \A j \in ends : j <= i
  IN [path |-> SubSeq(filled, 1, last), query |-> given \ ToSet(template)]

\* The parameters that get a value.
Given(args) == IF "params" \in ToSet(args) THEN SUBSET Params ELSE {{}}

Sent(value, taken, args, given) ==
  [value |-> value, taken |-> taken, args |-> args, given |-> given, url |-> Url(given),
   state |-> "sent", told |-> << >>]

\* A call of the class, which returns a value that its answer will fill.
Call(hasBody, args, given) ==
  /\ calls' = Append(calls, Sent(Len(content) + 1, Take(args, hasBody), args, given))
  /\ content' = Append(content, 0)
  /\ UNCHANGED template

\* A call of an instance, which its answer will fill again.
CallOfInstance(v, hasBody, args, given) ==
  /\ calls' = Append(calls, Sent(v, TakeOfInstance(args, hasBody), args, given))
  /\ UNCHANGED <<template, content>>

\* The answer to call i: it has a body, or none.
Answered(i, body) ==
  /\ calls[i].state = "sent"
  /\ content' = IF body THEN [content EXCEPT ![calls[i].value] = i] ELSE content
  /\ calls' = [calls EXCEPT ![i].state = "answered", ![i].told = Append(@, calls[i].taken["success"])]
  /\ UNCHANGED template

Failed(i) ==
  /\ calls[i].state = "sent"
  /\ calls' = [calls EXCEPT ![i].state = "failed", ![i].told = Append(@, calls[i].taken["error"])]
  /\ UNCHANGED <<template, content>>

ResourceInit == template \in Templates /\ calls = << >> /\ content = << >>

ResourceNext ==
  \/ /\ Len(calls) < MaxCalls
     /\ \E hasBody \in BOOLEAN, callbacks \in Callbacks :
          \/ \E args \in Documented(hasBody) : \E given \in Given(args) :
               Call(hasBody, args \o callbacks, given)
          \/ \E args \in InstanceArgs, v \in DOMAIN content : \E given \in Given(args) :
               CallOfInstance(v, hasBody, args \o callbacks, given)
  \/ \E i \in DOMAIN calls, body \in BOOLEAN : Answered(i, body)
  \/ \E i \in DOMAIN calls : Failed(i)

-----------------------------------------------------------------------------
(* Properties *)

\* Every argument is taken for what it is documented to be; the right callback is
\* told once; a value is filled by an answer to a call of its own; and no
\* parameter is lost on the way to the address, or sent twice.
ResourceKept ==
  \A i \in DOMAIN calls :
    /\ \A r \in Roles : calls[i].taken[r] \in (IF r \in ToSet(calls[i].args) THEN {r} ELSE {"none", "self"})
    /\ calls[i].told = CASE calls[i].state = "sent" -> << >>
                         [] calls[i].state = "answered" -> <<IF "success" \in ToSet(calls[i].args) THEN "success" ELSE "none">>
                         [] calls[i].state = "failed" -> <<IF "error" \in ToSet(calls[i].args) THEN "error" ELSE "none">>
    /\ \A v \in DOMAIN content : content[v] # 0 => calls[content[v]].value = v
    /\ calls[i].given = (ToSet(calls[i].url.path) \cap Params) \cup calls[i].url.query
    /\ ToSet(calls[i].url.path) \cap calls[i].url.query = {}
=============================================================================
