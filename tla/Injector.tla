------------------------------- MODULE Injector -------------------------------
(***************************************************************************)
(* Angular's injector.  It loads the modules of the page: loadModules      *)
(* recurs over `requires', runs the queue of a module after those that it  *)
(* requires, and collects the run blocks, which are invoked at the end.    *)
(* Then it creates services: getService recurs over what a factory asks    *)
(* for.  A service that is being created is marked, so that a circle is    *)
(* found; the mark of one whose factory threw stays.  Between the two,     *)
(* what the queue of a module registers, of what the scripts declared, and *)
(* how the names of what a factory asks for are read from its text.        *)
(***************************************************************************)
EXTENDS Naturals, Sequences, FiniteSets, SequencesExt, TLC

CONSTANTS
  Modules, App,  \* App is the module that the page names
  Services

-----------------------------------------------------------------------------
(* Loading *)

VARIABLES
  requires,       \* what each module requires
  declared,       \* the modules that angular.module was called for
  calls,          \* the calls of loadModules that are under way, the last first
  loadedModules,
  configured,     \* the modules whose queue ran, in this order
  run,            \* the modules whose run blocks were invoked, in this order
  loading         \* "loading", "running", "done" or "failed"

loaderVars == <<requires, declared, calls, loadedModules, configured, run, loading>>

\* A call: the modules that are left, the run blocks so far, and the module for
\* which the caller asked.
LoadCall(ms, for) == [left |-> ms, blocks |-> << >>, for |-> for]

LoaderTypeOK ==
  /\ requires \in [Modules -> SUBSET Modules] /\ declared \subseteq Modules
  /\ calls \in Seq([left : Seq(Modules), blocks : Seq(Modules), for : SUBSET Modules])
  /\ loadedModules \subseteq Modules
  /\ configured \in Seq(Modules) /\ run \in Seq(Modules)
  /\ loading \in {"loading", "running", "done", "failed"}

LoaderInit ==
  /\ calls = <<LoadCall(<<App>>, {})>>
  /\ loadedModules = {} /\ configured = << >> /\ run = << >>
  /\ loading = "loading"

-----------------------------------------------------------------------------
Load == calls[1]
Deeper == Tail(calls)

\* Marked before its requirements are loaded, which ends a cycle.
Mark(m) == loadedModules \cup {m}

\* The next module of the innermost call: known already, missing, or entered.
LoadNext ==
  /\ loading = "loading" /\ Load.left # << >>
  /\ LET m == Head(Load.left)
         rest == [Load EXCEPT !.left = Tail(@)] IN
     IF m \in loadedModules
       THEN /\ calls' = <<rest>> \o Deeper
            /\ UNCHANGED <<loadedModules, loading>>
     ELSE IF m \notin declared
       THEN /\ loading' = "failed"
            /\ loadedModules' = Mark(m)
            /\ UNCHANGED calls
       ELSE /\ loadedModules' = Mark(m)
            /\ calls' = <<LoadCall(SetToSeq(requires[m]), {m}), rest>> \o Deeper
            /\ UNCHANGED loading
  /\ UNCHANGED <<requires, declared, configured, run>>

\* The call for the requirements of a module returns: its run blocks are noted,
\* then its queue runs, which may throw.
LoadReturns ==
  /\ loading = "loading" /\ Load.left = << >> /\ Deeper # << >>
  /\ LET m == CHOOSE x \in Load.for : TRUE IN
     \/ /\ calls' = <<[Deeper[1] EXCEPT !.blocks = @ \o Load.blocks \o <<m>>]>> \o Tail(Deeper)
        /\ configured' = Append(configured, m)
        /\ UNCHANGED loading
     \/ /\ loading' = "failed"
        /\ UNCHANGED <<calls, configured>>
  /\ UNCHANGED <<requires, declared, loadedModules, run>>

LoadEnds ==
  /\ loading = "loading" /\ Load.left = << >> /\ Deeper = << >>
  /\ loading' = "running"
  /\ UNCHANGED <<requires, declared, calls, loadedModules, configured, run>>

\* The run blocks, one after the other; one that throws is the last.
RunBlock ==
  /\ loading = "running"
  /\ IF Load.blocks = << >>
       THEN loading' = "done" /\ UNCHANGED <<calls, run>>
       ELSE \/ /\ run' = Append(run, Head(Load.blocks))
               /\ calls' = [calls EXCEPT ![1].blocks = Tail(@)]
               /\ UNCHANGED loading
            \/ loading' = "failed" /\ UNCHANGED <<calls, run>>
  /\ UNCHANGED <<requires, declared, loadedModules, configured>>

LoaderNext == LoadNext \/ LoadReturns \/ LoadEnds \/ RunBlock

-----------------------------------------------------------------------------

\* The modules that m needs, over any number of steps: those in every set that has
\* what m requires, and what anyone in it requires.
Needs(m) ==
  {x \in Modules : \A C \in SUBSET Modules :
     requires[m] \subseteq C /\ (\A y \in C : requires[y] \subseteq C) => x \in C}

\* Whatever the modules require of each other, in circles or not, the queue of a
\* module runs once and after what it requires, unless that requires the module.
ConfiguredInOrder ==
  /\ IsInjective(configured)
  /\ \A i \in DOMAIN configured : \A m \in requires[configured[i]] :
       configured[i] \notin Needs(m) => \E j \in 1..(i - 1) : configured[j] = m

\* No run block is invoked before every module is configured, and each is once.
RunAfterConfiguration ==
  /\ run # << >> => ToSet(configured) = {App} \cup Needs(App)
  /\ IsPrefix(run, configured)
  /\ loading = "done" => run = configured

\* What is required is loaded: no cycle keeps the page from starting.
ModulesLoad == ConfiguredInOrder /\ RunAfterConfiguration

-----------------------------------------------------------------------------
(* The scripts of the page declare modules and register services (angular.module), *)
(* and the injector runs the queues of the modules that it loads ($provide).       *)

CONSTANTS
  ModuleNames,       \* of modules; they are loaded in the order of Order
  Order,
  ServiceNames,
  Payloads,    \* what is registered
  MaxCalls,    \* bounds the calls of the scripts
  ArgumentLists, \* of functions, for annotate
  Unregistered

VARIABLES
  modules,    \* the queue of each module, or Unregistered
  scriptCalls,\* history: the registrations, with the module's declaration they belong to
  providers, instances,  \* providerCache and instanceCache
  invoked,    \* history: the entries of the queues, in the order in which they ran
  stage       \* "scripts", "loading", "loaded" or "failed"

registryVars == <<modules, scriptCalls, providers, instances, invoked, stage>>

\* The API of a module has no call for a decorator in this version: such an entry is
\* a config block that calls $provide.decorator.
EntryKinds == {"constant", "factory", "decorator", "config"}
QueueEntries == [kind : EntryKinds, name : ServiceNames, content : Payloads]

RegistryTypeOK ==
  /\ \A m \in ModuleNames : modules[m] = Unregistered \/ \A i \in DOMAIN modules[m] : modules[m][i] \in QueueEntries
  /\ DOMAIN providers \subseteq ServiceNames /\ DOMAIN instances \subseteq ServiceNames
  /\ stage \in {"scripts", "loading", "loaded", "failed"}

RegistryInit ==
  /\ modules = [m \in ModuleNames |-> Unregistered] /\ scriptCalls = << >>
  /\ providers = << >> /\ instances = << >> /\ invoked = << >> /\ stage = "scripts"

-----------------------------------------------------------------------------
(* Scripts *)

\* angular.module(m, [...]): a second declaration forgets the first.
Declare(m) ==
  /\ stage = "scripts" /\ Len(scriptCalls) < MaxCalls
  /\ modules' = [modules EXCEPT ![m] = << >>]
  /\ scriptCalls' = Append(SelectSeq(scriptCalls, LAMBDA c : c.module # m), [module |-> m])
  /\ UNCHANGED <<providers, instances, invoked, stage>>

\* angular.module(m).constant and its like; a module that was not declared throws.
Register(m, e) ==
  /\ stage = "scripts" /\ Len(scriptCalls) < MaxCalls /\ modules[m] # Unregistered
  /\ modules' = [modules EXCEPT ![m] = IF e.kind = "constant" THEN <<e>> \o @ ELSE Append(@, e)]
  /\ scriptCalls' = Append(scriptCalls, [module |-> m, entry |-> e])
  /\ UNCHANGED <<providers, instances, invoked, stage>>

\* The document is ready.
ScriptsEnd ==
  /\ stage = "scripts" /\ stage' = "loading"
  /\ UNCHANGED <<modules, scriptCalls, providers, instances, invoked>>

-----------------------------------------------------------------------------
(* The queues *)

Queue == FlattenSeq([i \in DOMAIN Order |-> IF modules[Order[i]] = Unregistered THEN << >> ELSE modules[Order[i]]])

\* A provider is what it makes and the decorators that change that.
Provided(e) == [content |-> e.content, decorators |-> << >>]

\* The next entry: a decorator wants a provider, a config block a constant.
InvokeNext ==
  /\ stage = "loading" /\ Len(invoked) < Len(Queue)
  /\ LET e == Queue[Len(invoked) + 1] IN
     /\ invoked' = Append(invoked, e)
     /\ CASE e.kind = "constant" ->
               /\ instances' = (e.name :> e.content) @@ instances
               /\ UNCHANGED <<providers, stage>>
          [] e.kind = "factory" ->
               /\ providers' = (e.name :> Provided(e)) @@ providers
               /\ UNCHANGED <<instances, stage>>
          [] e.kind = "decorator" /\ e.name \in DOMAIN providers ->
               /\ providers' = [providers EXCEPT ![e.name].decorators = Append(@, e.content)]
               /\ UNCHANGED <<instances, stage>>
          [] e.kind = "config" /\ e.name \in DOMAIN instances ->
               UNCHANGED <<providers, instances, stage>>
          [] OTHER -> stage' = "failed" /\ UNCHANGED <<providers, instances>>
  /\ UNCHANGED <<modules, scriptCalls>>

QueueEnds ==
  /\ stage = "loading" /\ Len(invoked) = Len(Queue)
  /\ stage' = "loaded"
  /\ UNCHANGED <<modules, scriptCalls, providers, instances, invoked>>

\* What the page is given for a name: a constant, or what the provider makes of it.
Made(s) ==
  IF s \in DOMAIN instances THEN [content |-> instances[s], decorators |-> << >>]
  ELSE IF s \in DOMAIN providers THEN providers[s] ELSE Unregistered

RegistryNext ==
  \/ \E m \in ModuleNames : Declare(m) \/ \E e \in QueueEntries : Register(m, e)
  \/ ScriptsEnd \/ InvokeNext \/ QueueEnds

-----------------------------------------------------------------------------
(* annotate: the names of the arguments in the text of a function *)

\* Without what stands between /* and */.
StripComments(s) ==
  FoldLeft(LAMBDA acc, c : IF acc.inside THEN [acc EXCEPT !.inside = (c # "*/")]
                           ELSE IF c = "/*" THEN [acc EXCEPT !.inside = TRUE]
                           ELSE [acc EXCEPT !.text = Append(@, c)],
           [inside |-> FALSE, text |-> << >>], s).text

\* FN_ARG: blanks around a name, and an underscore at both of its ends, are left out.
Argument(s) ==
  LET word == SelectSeq(s, LAMBDA c : c # " ") IN
  IF Len(word) >= 3 /\ word[1] = "_" /\ Last(word) = "_" THEN SubSeq(word, 2, Len(word) - 1) ELSE word

Annotate(s) ==
  LET arguments == FoldLeft(LAMBDA acc, c : IF c = "," THEN Append(acc, << >>)
                                            ELSE [acc EXCEPT ![Len(acc)] = Append(@, c)],
                            << << >> >>, StripComments(s))
  IN SelectSeq([i \in DOMAIN arguments |-> Argument(arguments[i])], LAMBDA a : a # << >>)

-----------------------------------------------------------------------------
(* What holds of them *)

\* The registrations that count, in the order of the scripts: those of the last
\* declaration of each module.
Counting(m, kinds) ==
  SelectSeq(scriptCalls, LAMBDA c : c.module = m /\ "entry" \in DOMAIN c
                                    /\ c.entry.kind \in kinds)
Registered(s, kinds) ==
  SelectSeq(FlattenSeq([i \in DOMAIN Order |-> Counting(Order[i], kinds)]), LAMBDA c : c.entry.name = s)

\* Whatever the order of the scripts: a constant stands before all else, and is the
\* first one of the module that is loaded last; a service is what was
\* registered last, with the decorators that came after it; a config block finds
\* each constant of its own module, and of those before.
ServicesAreTheLast ==
  stage = "loaded" => \A s \in ServiceNames :
    LET constants == {i \in DOMAIN Order : \E c \in ToSet(Counting(Order[i], {"constant"})) : c.entry.name = s}
        last      == CHOOSE i \in constants : \A j \in constants : j <= i
        own(i)    == SelectSeq(Counting(Order[i], {"constant"}), LAMBDA c : c.entry.name = s)
        rest      == Registered(s, {"factory", "decorator"})
        factories == {i \in DOMAIN rest : rest[i].entry.kind = "factory"}
        at        == CHOOSE i \in factories : \A j \in factories : j <= i
    IN Made(s) = IF constants # {} THEN [content |-> own(last)[1].entry.content, decorators |-> << >>]
                 ELSE IF factories = {} THEN Unregistered
                 ELSE [content |-> rest[at].entry.content,
                       decorators |-> [i \in 1..(Len(rest) - at) |-> rest[at + i].entry.content]]

ConstantsComeFirst ==
  stage = "failed" =>
    LET e == Last(invoked) IN
    e.kind = "config" =>
      ~\E i, j \in DOMAIN Order : /\ i <= j
         /\ \E c \in ToSet(Counting(Order[i], {"constant"})) : c.entry.name = e.name
         /\ Counting(Order[j], {"config"}) # << >>
         /\ \A k \in DOMAIN Order : Counting(Order[k], {"config"}) # << >> => k = j

\* The names are found whatever blanks, comments and underscores stand about them.
NamesAreFound ==
  stage = "scripts" /\ scriptCalls = << >> =>
    \A s \in ArgumentLists : Annotate(s.text) = s.names

RegistryKept == ServicesAreTheLast /\ ConstantsComeFirst /\ NamesAreFound

-----------------------------------------------------------------------------
(* Creation of services *)

VARIABLES
  asks,       \* what the factory of each service asks for; none has no factory
  provided,   \* the services that have a provider
  instanceCache, \* "none", "instantiating" or "instance"
  path,       \* the services that are being created, and what each still waits for
  created     \* history: the services whose factories returned, in this order

injectorVars == <<asks, provided, instanceCache, path, created>>

InjectorTypeOK ==
  /\ asks \in [Services -> SUBSET Services] /\ provided \subseteq Services
  /\ instanceCache \in [Services -> {"none", "instantiating", "instance"}]
  /\ path \in Seq([service : Services, left : Seq(Services)])
  /\ created \in Seq(Services)

InjectorInit ==
  /\ instanceCache = [s \in Services |-> "none"]
  /\ path = << >> /\ created = << >>

-----------------------------------------------------------------------------
\* A variant that does not mark what it starts to create.
MarkNothing(s) == instanceCache

\* Marked before the factory is looked for.
MarkService(s) == [instanceCache EXCEPT ![s] = "instantiating"]

\* An exception passes through every factory that waits, to the page; `finally'
\* empties the path, and nothing takes the marks away.
Throw == path' = << >>

\* getService(s), for the page or for a factory that goes on with `waiting'.
GetService(s, waiting) ==
  CASE instanceCache[s] = "instance"      -> path' = waiting /\ UNCHANGED instanceCache
    [] instanceCache[s] = "instantiating" -> Throw /\ UNCHANGED instanceCache  \* "Circular dependency"
    [] OTHER ->
         /\ instanceCache' = MarkService(s)
         /\ IF s \in provided
              THEN path' = <<[service |-> s, left |-> SetToSeq(asks[s])]>> \o waiting
              ELSE Throw                                       \* "Unknown provider"

\* The page asks: in a run block, for a controller, or by name.
PageGets(s) ==
  /\ path = << >>
  /\ GetService(s, << >>)
  /\ UNCHANGED <<asks, provided, created>>

\* The innermost factory needs the next of its arguments.
FactoryAsks ==
  /\ path # << >> /\ path[1].left # << >>
  /\ GetService(Head(path[1].left), <<[path[1] EXCEPT !.left = Tail(@)]>> \o Tail(path))
  /\ UNCHANGED <<asks, provided, created>>

\* The innermost factory has its arguments and is called.
FactoryReturns ==
  /\ path # << >> /\ path[1].left = << >>
  /\ LET s == path[1].service IN
     /\ instanceCache' = [instanceCache EXCEPT ![s] = "instance"]
     /\ created' = Append(created, s)
  /\ path' = Tail(path)
  /\ UNCHANGED <<asks, provided>>

FactoryThrows ==
  /\ path # << >> /\ path[1].left = << >>
  /\ Throw
  /\ UNCHANGED <<asks, provided, instanceCache, created>>

InjectorNext ==
  \/ \E s \in Services : PageGets(s)
  \/ FactoryAsks \/ FactoryReturns \/ FactoryThrows

-----------------------------------------------------------------------------

\* A service is created once, after all that it asks for: two that share a third
\* share one instance of it, whoever is asked for first and whatever failed.
OneInstance ==
  /\ IsInjective(created)
  /\ ToSet(created) = {s \in Services : instanceCache[s] = "instance"}
  /\ \A i \in DOMAIN created : \A s \in asks[created[i]] :
       \E j \in 1..(i - 1) : created[j] = s

\* Each service on the path waits for the next one: the path ends.
PathIsDistinct ==
  /\ \A i, j \in DOMAIN path : path[i].service = path[j].service => i = j
  /\ \A i \in DOMAIN path : instanceCache[path[i].service] = "instantiating"

\* What s needs, over any number of steps.
Requirements(s) ==
  {x \in Services : \A C \in SUBSET Services :
     asks[s] \subseteq C /\ (\A y \in C : asks[y] \subseteq C) => x \in C}

\* What was created needs no circle: a service in a circle never comes to be.
NoCircleIsCreated == \A s \in Services : instanceCache[s] = "instance" => s \notin Requirements(s)

ServicesAreCreatedOnce == OneInstance /\ PathIsDistinct /\ NoCircleIsCreated

\* Modules are configured once, after what they require, and then run; and a service
\* is created once, after what it asks for (createInjector).
PageStarts == ModulesLoad /\ ServicesAreCreatedOnce
=============================================================================
