# A verification of DrillRig

DrillRig is a server that keeps SSH tunnels open.  Users describe connections
(SSH accounts), sessions (groups of forwards) and forwards (local, remote and
dynamic port forwardings) in a web page; the server keeps the description in
`config.xml` and runs one monitor thread for each enabled session.  This
directory holds TLA+ modules for the parts of it whose order of events matters,
configurations for TLC, and proofs for TLAPS.

Paths below are relative to the repository; Java files are below
`src/main/java/de/flohrit/drillrig`, called `D` here.

## 1. The system

| part | code | state | operations |
|---|---|---|---|
| port forwarders | `D/runtime/My{Local,Dynamic,Remote}PortForwarder.java` | SSH client, server socket, thread, disconnect listener, result of the remote bind | accept and forward, bind, `isActive`, `close`, `notifyDisconnect` |
| session monitor | `D/runtime/SshSessionMonitor.java` | map forward -> forwarder, interrupt flag | constructor, `start`, retry pass every 10 s, shutdown, state report |
| session manager | `D/runtime/SshSessionManager.java` | ACTIVE or INACTIVE, list of monitors | `start`, `stop` (both synchronized) |
| service | `D/runtime/DrillServer.java`, `D/services/RuntimeHandler.java`, `D/web/DrillServerStartupServlet.java` | static fields `sshClientManager`, `configuration`, `encDecoder`, without a lock | `startService`, `restartService`, `stopService` |
| configuration file | `D/runtime/DrillServer.java` | `config.xml`, `config.xml.tmp` | `readConfiguration`, `writeConfiguration` |
| editing | `D/services/ConfigHandler.java` | one clone of the configuration per HTTP session | add, update, delete of connections, sessions, forwards; `save` |
| SOCKS session | `src/main/java/socks/SocksProxyServer.java` | mode, sockets, two threads | CONNECT, BIND, UDP, pipe, abort |
| proxy handshake | `D/protocol/ProxyTunnelSocketFactory.java` | the answer read so far | connect, handshake |
| known hosts | `D/runtime/AutoKnownHostsVerifier.java` | the file `known_hosts` | verify, add |
| passwords | `D/util/StringEncDecoder.java` | key from the configuration's id | encrypt, decrypt |
| remote connections | `D/runtime/MySocketConnectListener.java` | none | `gotConnect` |
| web page | `webapp/js/{navigation,monitor,runtime,config,resources}.js` | route and view, polling loop, the configuration that is shown, dialogs, requests under way | navigate, poll, add, change, delete, save |
| jQuery plug-ins | `webapp/js/jquery/date.js`, `jquery.datePicker.js` | a picker's range, month, selected dates and how many; the popup | arithmetic and strings of dates; `datePicker`, `dpSet...`, `dpDisplay`, clicks |
| runtime of the page | `webapp/js/libs/angular-1.0.1.js`, `angular-resource-1.0.1.js` | tree of scopes and its watches, promises, requests and timers, forms, modules and services, address | digest, events, `$q`, `$http`, `$resource`, `$cacheFactory`, `ngRepeat`, `select`, `$compile`, `$interpolate`, forms, injector, `$location`, `$route`, `$parse` |

How they interact.  HTTP threads call `ConfigHandler` and `RuntimeHandler`.
`save` writes the file and calls `restartService`: the manager is stopped, the
file is read back, a new manager is made and started.  `start` of a manager
constructs a monitor for every session *on the HTTP thread*; the constructor
connects to the SSH servers and makes the forwarders.  The monitor's own thread
then wakes every ten seconds and calls `createPortForwarding` where the map has
no forwarder or `isActive()` is false.  `stop` interrupts every monitor and
polls, holding the manager's lock, until all their threads have ended.  The SSH
library calls `notifyDisconnect` on its reader thread, or on the thread that
calls `SSHClient.close()`.  Forwarder fields are shared by all of these without
a lock.

The page runs in the browser, one event at a time.  `$route` loads the template
of a path and tells `ngView`, which makes a scope and a controller.  The
monitoring view polls `/services/runtime/monitor`; the configuration views read
the user's clone with `Config.edit()`, show it with `ng-repeat`, and send every
change of a dialog as a request of its own, after which they read the clone
again.  All of this goes through the digest: an answer resolves a promise, the
promise's callbacks write the scope, and the watches of the templates copy the
scope to the elements.  Requests and timers outlive the view that started them.

What is hard.  Fields that become null between a test and a use; `isActive()`
as a basis of decisions that the monitor takes later; resources (SSH client,
port, thread) that are made one after another, with a failure between any two;
interrupts that the SSH library swallows; `restartService` entered by several
requests; a file that is replaced in three steps, and one (`known_hosts`) that
is rewritten by several connections.  On the page: answers and templates that
arrive in any order or fail, for a view that may be gone; a digest whose
listeners change the tree that it walks; counts and caches that are kept by
increments.  The list with lines is in
`PROJECT.json` under `hazards`.

What makes each part correct:

* forwarders and monitor: an active forwarder listens; a retry replaces only
  what is dead; nothing holds a port or a connection that no map knows; a stop
  frees the ports and ends; a port that a disconnect closed is opened again;
* manager and service: no live monitor is ever out of reach; INACTIVE means
  that nothing runs; after a restart only the new configuration runs; every
  request is answered;
* configuration file: what is under its name is always complete; a
  configuration a user saved is not lost; what a save leaves on disk is what runs;
* editing: a forward's connection is in the configuration; a refused request
  changes nothing;
* SOCKS session: when it is over its sockets and ports are closed, it ends once
  its client has gone, and an error message only answers its request;
* proxy handshake: the answer is read to its end and no further;
* known hosts: one key per host, which the host presented, unless two streams mix;
  the file does not become empty, and who writes alone loses nobody's entry;
* passwords: what is stored decrypts to what was typed;
* page: the view is that of the route, what it shows is the server's clone, the
  states it polls get shown, and a view that was left stops polling;
* runtime of the page: after a digest nothing on the page is older than the
  model; everybody who waits is answered once, with what came; a form knows the
  state of its controls; each module, service and directive is started once,
  after what it needs; address, path, search and hash stand for each other;
* plug-ins: a date is computed right at the ends of months and years and when the
  clocks change; a picker shows as selected what is, and offers what is in range.

## 2. The modules

The server:

| module | extends | contents |
|---|---|---|
| `PortForwarder` | | one tunnel: SSH client, forwarder, its threads, the disconnect callback |
| `SessionMonitor` | `PortForwarder` | the monitor thread over all its tunnels; `Spec`, properties, inductive invariant |
| `ConfigStore` | | the two files, the threads that read and write them, crash and start |
| `DrillServer` | `ConfigStore` | requests, manager, monitors as seen from outside |
| `EditConfig` | | the editing requests on the clones of HTTP sessions |
| `SocksSession` | | the two threads of a SOCKS session, the channel and the client |
| `KnownHosts` | | the verifiers of several connections on one file |
| `ProxyTunnel` | | the reader of the proxy's answer |

The page and what runs it:

| module | code | contents |
|---|---|---|
| `WebPage` | `navigation.js`, `monitor.js`, `runtime.js`, `config.js`, `ngView` | visits of routes, templates, the polling loop, dialogs, requests and their answers in any order |
| `ConnectionDialog` | `config.js` | the dialog of a connection and the proxy object it shares with its row |
| `DialogForm`, `FormTree` | `form`, `ngModel`, `input` | the form of a forward; forms in forms, and the removal of elements, and one input with the events of the browser |
| `Scopes`, `Events` | `$RootScopeProvider` | the tree of scopes with watches, tasks and the digest; `$on`, `$emit`, `$broadcast` |
| `Promises`, `Http`, `HttpData`, `Resource` | `$q`, `$http`, `$httpBackend`, `$timeout`, `$resource` | when callbacks are told; requests with cache, time-outs and timers; what is sent and what callers get; the calls of `Config` |
| `LruCache`, `Recency` | `$cacheFactory` | the linked list, and the abstract cache that it implements |
| `Repeat`, `SelectOptions`, `Objects` | `ngRepeat`, `select`, `copy`, `equals`, `hashKey`, `HashQueueMap` | rows that follow their items; options that show the model; copies and hash keys |
| `Compile`, `Elements` | `$compile`, `$interpolate`, `ngClass`, `ngShow`, `ngClick` | linking of directives; classes and display of an element, and templates filled in |
| `Filters` | `filter`, `orderBy`, `limitTo`, `number`, `date` | what a filter keeps of a list, its order, and numbers and dates as text |
| `Injector` | `angular.module`, `$provide`, `loadModules`, `createInjector` | which registration counts; modules after what they require; services after what they ask for |
| `Location`, `Urls`, `Routes` | `$browser`, `$location`, `$route` | the history of the window; addresses as path, search and hash; the route of a path |
| `Expressions` | `lex`, `parser`, `getterFn`, `setter` | the stages of `$parse` |
| `Dates`, `DatePicker` | `date.js`, `jquery.datePicker.js` | the methods that are added to dates, and the table of a month; the pickers, their popup, and what they count and show |

Proofs are in `SessionMonitorProofs`, `DrillServerProofs`, `EditConfigProofs`,
`ServerPartsProofs` (`ConfigStore`, `SocksSession`, `KnownHosts`, `ProxyTunnel`),
`WebPageProofs`, `ScopesProofs`, `ServicesProofs` (`Promises`, `Http`, `LruCache`)
and `PagePartsProofs` (`ConnectionDialog`, `Injector`, `Elements`, `Location`).
Instances for TLC are in the
`MC...` modules: functions for constants, and symmetry; `ConfigStore` needs none.

`MCParts` holds the parts that share no state with one another.  Its initial
state chooses the one part that runs, and every other part stays as it began,
so that the states are the sum of the parts' states and not their product.
The parts of the server and those of the page about which there are proofs
(`LruCache`, `Location`, `Promises`, `Http`, `ConnectionDialog`, `Scopes`,
`Injector`, `Elements`) are extended and keep the names of their variables, so that
a run checks the very definitions that the theorems are about; the other parts of
the page are instantiated, and use the variables `v1` to `v11` in the order in
which the instance names them.  `MCWebPage` does the same for the page's forms,
dates, date pickers, addresses and routes, beside `WebPage`.  A property of a part
that does not run holds of its initial state.

Operators named as "a variant that ..." in the comments are deliberate
misreadings of the definition that follows or precedes them.  No specification
uses one; putting it in the place of the true definition must make TLC report
the property it is paired with in `PROJECT.json` (`mutants`).

### PortForwarder and SessionMonitor

A *tunnel* is an `SSHClient` and the forwarder built on it.  Its variables:

| variable | in the code |
|---|---|
| `ssh` | whether the client's transport is connected and authenticated |
| `fwdOf` | the `Forward` passed to the forwarder's constructor |
| `thread` | the forwarder's thread: before `accept` (`loop`), in it, binding, waiting, dead |
| `chan` | `startForwarding` in progress: the request to open a channel, then the registration of the listener |
| `socket`, `client`, `remoteFwd` | the fields `serverSocket`, `client`, `remoteFwd` |
| `listener` | `setDisconnectListener`, and how far the call of `notifyDisconnect` is |
| `activeForwards` | what the library's `RemotePortForwarder` lists |
| `portForwarders` | the monitor's map |
| `phase`, `step`, `todo`, `cur`, `fresh` | the monitor's program counter, the forwards left in its loop, the one it is at, the client just connected |
| `intr`, `stopCalled` | the thread's interrupt flag; whether a stop has begun |

Atomicity.  One step is one read or write of a shared field or one call that
leaves the process.  `isActive()` is two steps, because `notifyDisconnect` may
set the field to null between the null test and the use; the exception that
follows ends the monitor (`crashed`).  `close()` is one step for each resource.
`notifyDisconnect` is two steps for a listening forwarder.  The constructor of
a forwarder, `put` and `start` are one step (`Build`): nobody else can see the
forwarder before `start`, except the library, whose listener a listening
forwarder registers later.

Deliberate abstractions.  Forwards are visited in any order (the code's order
is the order of the configuration).  A client that holds nothing and is in no
map may be reused for a new connection, so that the retries are unbounded with
a bounded set of clients; when no such client is left, connecting fails
(`ConnectFails`).  Remote ports are compared by number only.  `Free` and
`Inert` are part of this bound and not of the code.

### ConfigStore and DrillServer

A file name leads to an inode and a stream keeps the inode it opened, so that
two writers of `config.xml.tmp` do what they do on disk.  A document is written
in two halves.  Every call can fail (`DiskFaults`), and the process can die
between any two steps.  `DrillServer` adds the unlocked field, the managers
with their lock, and the requests.  A manager is used once, so `Managers`
bounds the restarts; a session's monitor is here only a thread that lives until
it is interrupted, which is what `SessionMonitor` shows in detail
(`StopTerminates`).

### SocksSession

`main` and `second` are the program counters of the session's thread and of the
one that `startPipe` or a BIND starts; `mode` is the field that both read and
`abort` writes.  `sock`, `remote` and `ss` are the sockets (`remote` is
`accepted` between the accept and the assignment of the field), `intr` the
interrupt of the main thread, `chan` the channel of a CONNECT with its copying
threads.  `sent` is what the client was sent (answers, an error message, the
peer's data), `inbox` the bytes it has sent; `late` and `missed` are histories,
of a socket assigned after the abort and of a notification that nobody waited
for.  A step is one access to a shared field or one call that may block or
throw.  UDP dies of a null address in the code (the library gives none for
SOCKS5), and that early end is modelled.

### KnownHosts and ProxyTunnel

A verifier's steps are: read the file, look up the host, open the file for
writing (which truncates it), write and close.  Several connections are at
different steps, and a host may get a new key.  A reader sees any part of what a
writer has written so far.  Two streams that are open at the same time both begin
at the first byte: unless they write the same single line, the file is a mixture
of both (`mixed`), and what a verifier makes of it is left open.  An entry is
looked up by the name of its host and the type of its key, which together are one
value of `Hosts`.  `added` (what verifiers have added) and `harm` (whether one has
written what it read before another wrote, or a write has failed) are histories.

`ProxyTunnel` reads one byte per step with the counters of the code.  Its
reference definition of the end of the answer (`EndsAt`) speaks of the bytes
only, and not of the counters.

### EditConfig

The clone that an HTTP session edits is one object shared by every request of
that session.  A request is modelled as the steps between which another request
can be seen: read the attribute, make the clone, look up or check, change.  `save`
takes no lock either, and all saves use the same two file names.  Its steps are
those of `writeConfiguration` (`Open`, `Marshal`, `TestExists`, `DeleteOld`,
`Rename`) and of `readConfiguration` (`TestIsFile`, `WriteDefault`, `Unmarshal`,
`Assign`), and other saves come between any two of them.

| variable | in the code |
|---|---|
| `running` | `DrillServer.configuration` |
| `file`, `tmp` | what `config.xml` and `config.xml.tmp` hold: a document, bytes that do not parse (`Broken`), or no file (`Absent`) |
| `out`, `shared` | the file that a thread's stream is on, which a rename or a deletion does not change; the threads on whose file another stream was open too |
| `local` | what a thread has unmarshalled and not yet assigned, or the default that it writes |
| `alone` | history: the threads during whose save there was no other one |
| `edit`, `clone` | the session attribute `editConfiguration`, and the clones made for it; a clone is named after the thread that made it, because after that the attribute is never missing again |
| `pc`, `req`, `at` | a thread's place in its handler, the request, the clone it works on |

A configuration keeps what ids lead to: which connections, sessions and
forwards there are, and each connection's password.  A password is a string
that remembers what was typed, how often it was encrypted, its length and
whether it ends with `==`, because `updateConnection` takes that ending for the
sign of an encrypted password.  The length of a cipher text follows from the
padding and base 64.  Two streams on one file leave either document, bytes that do
not parse, or a document of the bytes of both; what that last one holds is not
followed further (`mixed`).  The disk does here what it is asked; its faults and
crashes are in `ConfigStore`.  A null password and a null list, which the page does not
send, are left out.

`Serial` says that a user waits for each answer, as the modal dialogs of one
page make him do.  Without it two tabs of one HTTP session interleave; then
a check and the change that relies on it are no longer on the same clone, and
`NoDanglingForward` does not hold.

### WebPage

| variable | in the code |
|---|---|
| `url`, `current`, `view` | address, `$route.current`, the visit whose scope `ngView` shows |
| `template`, `loads` | `$templateCache`; who waits for which template |
| `poll`, `actual`, `status` | where each visit's loop is; the states on the server and on the page |
| `clone`, `shown`, `latest` | the server's clone; `$scope.config`, and the request that fills it |
| `form`, `request` | the open dialog; the requests under way |
| `untold` | history: the clone has changed since the view read it, and the view was not the one that asked |

One step is one event of the browser with everything that follows from it
before the next: a click, an answer, a timer.  A visit is an *instance*; it may
be taken again once nothing refers to it.  `PollFails` ends a loop, because
`then` has no handler for a failure; a view that is left is asked only when its
poll is answered.  Names, ports and the other fields of a configuration are one
value per id.

### The runtime of the page

Each module takes one mechanism of `angular-1.0.1.js` with the whole of its
control, and gives the page's own functions (listeners, callbacks, controllers)
everything they could do:

* `Scopes` keeps the pointers `$$nextSibling`, `$$prevSibling`, `$$childHead`,
  `$$childTail` and `$parent`, and walks them as `$digest` does, one scope or
  watch per step; between two steps a listener may write a cell, add or remove
  watches, make or destroy scopes and queue tasks.  `Events` adds listeners that
  do the same while an event is on its way.
* `Promises` keeps the callbacks of every deferred and the queue of ticks.
  `Http` has requests, their place in the cache, `$browser`'s count, `timeout`s
  and cancelled timers; a request may throw where it is opened or sent, and the
  digest after an answer may give up, which skips the end of the count (`lost`); `HttpData` the header and data transformations of both
  directions; `Resource` which arguments of a call are parameters, data or
  callbacks, and whose value an answer fills.
* `LruCache` writes the pointers of its doubly linked list one after another, and
  lists what undefined is put for without counting it; `Recency` is a sequence of
  entries in order of use, with the room that there is for contents.
* `Repeat` walks a collection with the queue of rows for each hash key;
  `SelectOptions` renders a model that is an object of the collection, one of
  several, or a text; `Objects` copies, compares and hashes on a heap of objects
  that refer to each other.
* `Compile` collects directives by priority, with `terminal` and `transclude`,
  and links a clone for each row; `Elements` has classes and display, and the
  marks of a text with what it shows after each digest; `Filters` applies one
  filter to one argument.
* `DialogForm` has the form of a forward with all its validators, `FormTree` the
  counts of nested forms by increments, and the events of a browser that fires
  `input`, and of one that does not.
* `Injector` loads modules and creates services; both recur as the code does, with
  a circle or a failure anywhere; it has the queue of a module and what is overwritten.
* `Location` has the history, links, redirections and the digest that brings
  address and `$location` in step; `Urls` parses and composes addresses in both
  forms; `Routes` matches a path and follows redirections.
* `Expressions` has the lexer against the text, the parser, for which an operator
  is an operand too, against the grammar as a recursive definition, and the
  functions that read and write a path against what the path stands for.

### Dates and pickers

`Dates` counts hours since 1970, in a zone whose clocks are an hour ahead from
`Spring` to `Autumn`; a `Date` of the browser is external, with the setters that
the plug-ins use.  A job is one call.  `DatePicker` takes a day as the number of
its date and a string as the day that it was written from: what `fromString`
makes of it is the constant `Read`, which the instance computes with `Dates`, as
it does the months and their tables.  `picker` has the fields of each controller
(`keys` and `on` are `selectedDates`, whose keys stay in their order), and
`calendar` what is drawn in the popup, which all pickers share that are not
inline, and in each inline element.  No page of the application loads these
plug-ins: the models say what a page could rely on.

The properties are explained in the modules, at their definitions.

## 3. The runs

| run | instance | shows |
|---|---|---|
| `forwards` | 2 local (one with a broken mask), 1 dynamic, 2 remote (one without account), one port number, 2 clients, all faults | `ActiveMeansListening`, `StopFreesPorts`, `NoOrphanListener`, `ReplacesOnlyDeadProp`, `InactiveIsPermanentProp` |
| `monitor_lives` | 1 local forward, 3 clients | `StopTerminates`, `ListenerReopens` |
| `one_client` | 1 HTTP thread, 2 saves, 3 managers | `OnlyCurrentRuns`, `DiskHoldsConfig`, `NeverBackToDefaultProp` |
| `two_clients` | 2 HTTP threads, every request, 1 save, 2 managers | `NothingStranded`, `InactiveMeansEnded`, `RequestsAnswered` |
| `edit` | 2 HTTP sessions that wait for answers, 2 threads, 1 connection, 1 session, 1 forward, a password of 8 bytes | `NoDanglingForward`, `PasswordKept`, `RunsWhatIsOnDiskProp` |
| `page` | 2 visits, 2 requests under way, 1 session or connection to add, 2 states, 4 kinds of users; and 7 parts, see below | `ViewIsRoute`, `ShownIsClone`, `FormsKept`, `RoutesKept`, `StatesShown`, `LeftViewsStopPolling` |
| `parts` | 27 parts, see below | 15 invariants, 3 temporal properties, see below |
| `refusal`, `stale_running`, `save_is_loaded`, `restart_replaces`, `password_kept` | smallest instance that shows it | a statement of a comment, a message or the README that the code does not keep (`findings`) |

The properties of `parts`, and the two of `page` that are about such parts:

| property | says |
|---|---|
| `ClosedWhenOver`, `ErrorAnswersRequest`, `SessionEnds` | when both threads of a SOCKS session have ended its sockets and the port of a BIND are closed; before an error message there is only the first answer of a BIND, or what the channel of a CONNECT copies; a session whose client has gone ends, unless the channel told nobody |
| `ConfigFileComplete` | with one writer, every disk fault and crashes, `config.xml` is complete or absent |
| `KnownHostsKept` | a file that no two streams have mixed has one key per host, presented by it (`OneKeyPerHost`); unless a write has failed, it is not empty once a host was added (`SomethingIsKnown`); as long as nobody writes what he read before another wrote, who was added stays (`PermanentlyAdded`) |
| `AnswerIsRead` | the answer is read to its end, and the tunnel is open exactly if its first line says so |
| `ScopesKept`, `HeardOnce` | the scopes are one tree and a digest that ends has left no change unseen; an event reaches everybody whom it concerns once, except a listener whose neighbour was removed meanwhile |
| `PromisesKept` | callbacks are told once, what their promise came to (`ToldTruth`), nobody is forgotten, and `all` waits for each of its promises |
| `RequestsKept` | a call is told once, and what its request came to; the count of `$browser` is the requests and timers that are under way and the requests that are lost to a throw; no failure stays in the cache, and a promise only that somebody will keep, unless sending threw; a timer that was cancelled does not run |
| `ImplementsRecency` | the linked list implements `Recency`, by refinement, also with entries without data |
| `RowsFollow` | a call sends what its configuration says and is told what was answered (`DataKept`); a call of a resource fills its own value (`ResourceKept`), and a copy shares nothing with it (`CopiesAreApart`); each row shows its own item at its place; hash keys tell objects apart (`HashKeysKept`); a select shows the model (`SelectShowsModel`) |
| `TemplatesAreShown` | a directive is linked once (`LinkedOnce`); after a digest a text is its template filled in (`ShowsTheModel`); a filter keeps what matches, in order or sorted, and what it writes of a number or a date can be read back (`FiltersKept`) |
| `DressIsTheModel` | after a digest an element has the classes that its model names and no others, and exactly one of `ng-show` and `ng-hide` is seen |
| `FormsKept` (`page`) | the counts of a form are those of its controls, also of nested forms (`FormsTellTheirControls`); what was typed is in the model (`ModelIsShown`); what date.js computes is right (`DatesKept`); a picker's month is in its range, it counts what is selected, and its cells show what is selected and what can be (`PickersKept`) |
| `DialogIsOwn` | a patient user's dialog has the proxy of its own connection |
| `PageStarts` | modules are configured once, after what they require, and run after all are (`ModulesLoad`); a service is created once, after what it asks for (`ServicesAreCreatedOnce`) |
| `LinksAreAdded`, `RoutesKept` (`page`) | a link adds one entry to the history; an address stands for its parts (`AddressIsLocation`); redirections end and lose no parameter |
| `ParsesTheGrammar` | what the parser accepts is the grammar, operators as operands included; tokens are the text, but for its blanks and the dot before a call of no method (`TokensAreTheText`); a path reads what it stands for (`PathsAreRead`); the registration that counts (`RegistryKept`) |

Bounds, and why they are enough.  Two clients are what a replacement needs (the
old one and the new one), and three, in `monitor_lives`, let one leak besides;
two forwards on one port are what a conflict needs, and a forward without a
usable account is what ends the constructor halfway.  Two HTTP threads are what a race on
`sshClientManager` needs; the safety properties that hold for two of them are
also proved for any number.  Three inodes are `config.xml`, `config.xml.tmp`
and one that is open but has no name.  All runs set `CHECK_DEADLOCK FALSE`:
a session whose monitor has stopped, and a server whose bounded configurations
and managers are used up, do nothing more.

In `edit` two users with a thread each are what saves that overlap need, in every
order of their nine steps, and one connection with one forward what a check and a
removal need; the theorems hold for any number.  `MaxLayers` bounds how
often a page sends a password back that the code does not recognize.
`PasswordKept` speaks of the passwords that the code recognizes once they are
encrypted: fewer than 16 bytes, or 48 to 63 and so on.  A password of 16 to 31
bytes encrypts to a string with another ending, and every later change of its
connection encrypts it once more, so that the login fails: the code is wrong
there, the property leaves it out on purpose, and `password_kept` shows it
with a password of 20 bytes (`LoginPossible`).

In `page` two visits are what a late template, a late answer or a poll of a view
that was left need, and two requests what an answer out of order needs.  The
users differ in the links that they follow and the things that they add, so
that the instance stays small while every route and dialog is used.

In `parts`, and in `page` beside the page, every part is as large as its hazard needs: four scopes and four
effects of listeners (a scope destroyed while the walk is below it, and its
neighbour); three deferreds (a chain, and a promise resolved with a promise);
two requests for one address (one that fills the cache, and one that waits for it
or comes after it failed); two calls of a resource answered in either order; four
keys on a cache of two, with one entry without data; lists of three items of which two are copies; three
nodes with four directives; texts of four pieces around `{{` and `}}`; a form
in a form with two controls of one name; a second press of the dialog's button
and a second connection; heaps of three objects with circles; three modules and
three services in every arrangement of what they require; two connections to two hosts, one of which changes its key; texts of five
characters from three alphabets, and of five tokens from seven sets; addresses with every character
that is a separator, plain and encoded; four tables of routes; dates around the
ends of months in leap years and others, at midday and at midnight, and every
table of six years; two pickers on one popup and an inline one, with four calls
around a 29 February.

Symmetry is used in safety runs only, over clients, inodes, versions, managers,
HTTP sessions, threads and connections.

Fairness.  The threads of the JVM run (weak fairness of the monitor, of every
forwarder thread and of every HTTP thread that is serving a request).  Clients,
the network and faults have none.  A stop repeats its interrupt every five
seconds and the monitor sleeps for ten, so the sleeping monitor is interrupted
if it sleeps again and again: strong fairness of `Interrupt` in that state.  A
`synchronized` method whose lock is free again and again is entered (strong
fairness of `StopEnter` and `StartEnter`); the code polls every five seconds
with the lock held and no thread takes it in a cycle.  `ListenerReopens` has a
premise of its own, `ServerReachable`: reconnecting and binding succeed when
tried for ever.
For `SessionEnds` the two threads of a SOCKS session run, and a channel whose
end has come is closed by the library's reader thread.  For `StatesShown` and
`LeftViewsStopPolling` the server answers a poll, or the poll fails, and the
browser runs its timers; users, templates and requests have no fairness.

## 4. The proofs

`SessionMonitorProofs` proves `Spec => []IndInv`.  None of the properties is
inductive by itself: that an orphan has no port needs to know that a forwarder
whose connection is up has its port and its `client` field (`TransportInv`),
that the map leads to the forwarder built for the forward (`MapInv`), which
step the monitor is at and what `cur` and `fresh` are there (`ControlInv`), and
what the shutdown has left behind (`ShutdownInv`).  `ActiveMeansListening`,
`StopFreesPorts` and `NoOrphanListener` follow from `IndInv`; the two action
properties follow from `IndInv` before the step, one lemma for what changes the
map and one for each class of steps for what makes `isActive()` true.  They
hold for any sets of forwards and clients, any ports and any faults.

`ServerPartsProofs` has the parts of the server that share no state.

*The configuration file*: type correctness for any number of writers and, from
the assumption of one writer (`OneWriter`), that `config.xml` is never half a
file; the invariant is that the writer's stream is on `config.xml.tmp`, which
is another inode, and holds exactly what its program counter says.

*The SOCKS session*: the mode is `abort` once a thread has ended (`ModeInv`),
what is not closed then is still in the hands of a thread (`ClosedInv`), and where
a thread can still answer with an error, the client was sent nothing but what
the channel copied, or the first answer of a BIND (`AnswerInv`).

*Known hosts*: what a verifier has in memory was presented by a host and is
one key per host, whatever it read while another one wrote, unless it is mixed
(`VerifierInv`, `FileInv`); and as long as nobody has written what he read before
another wrote, one thread writes at a time, and what it read is what the file had
(`ApartInv`).  Any number of connections, hosts and keys.

*The proxy's answer*: `ReaderInv` says of the counters what they mean for the bytes
read so far; `AnswerIsRead` follows for an answer of any length.

`DrillServerProofs` proves, for any number of threads and managers, who holds a
manager's lock (`LockInv`), that an unlocked manager that is not ACTIVE has no
live monitor (`IdleManagerInv`), and from these that `start` never forgets one.
With one request at a time it proves further `OnlyCurrentRuns`, from
`RestartInv` (at which step of a restart which manager may still have monitors),
`DiskHoldsConfig`, from `FileInv` (which of the two files is complete at which
step of a save) and the assumption that a rename does not fail, and
`NeverBackToDefaultProp`, which follows from both.  The premise `Broken = {}` of
`OnlyCurrentRuns` is needed: a monitor's constructor that throws leaves live
monitors in a manager that says INACTIVE.

`EditConfigProofs` first shows that every step of a handler is an edit, a look,
a clone or a step of a save (`HandleIs`), and that a save moves only its own thread
and puts nothing anywhere that was not in memory or in a file before, read back, or
the default, or mixed (`SavesMove`); each invariant is then a statement
about what an edit does to one configuration (`NewCloneWhole`, `NewCloneKeeps`)
and a frame argument for the others.  `SpecNoDanglingForward` assumes `Serial`:
what a check has found (`Checked`) stays true until the change, because no
other request has the same clone (`OneRequest`).  `SpecPasswordKept` and
`SpecRunsWhatIsOnDisk` hold for any interleaving of requests.  The second says of a
save that meets no other one that what runs at its end is what is on disk;
`AloneInv` has what the two files and the stream are at each of its steps, whatever
the saves before it have left.

`WebPageProofs`: `ViewIsRoute` from what a load that is still wanted means
(`MadeInv`); `ShownIsClone` from `LatestInv` (the view waits for at most one
read) and `FreshInv` (if that read was served, its answer is the clone unless a
change came after it that will be told later, `ToldLater`); any number of
visits and requests.

`ServicesProofs` has what the page asks of angular's services.

*The promises* (`CallbacksAreKept`): `PromisesKept` for any number of promises that
are resolved with values, rejected, or resolved with one another.  Where a promise
leads to is the end of the least closed set, not a recursion; that there is an end
(`EndsIn`) is kept because nothing is resolved with a promise that leads back to it.
The invariant says where a callback is: waiting on the promise that it was handed to,
in a tick that is still to come, or told, and in precisely one of the three
(`Placed`); what was told is what its promise leads to (`AllTrue`).

*The requests* (`HttpRequestsKept`): `RequestsKept` for any number of calls, addresses
and timers.  What a call is told hangs on the promise in the cache, which is that
of another call: one that was made leads to a request of the same address that
leads to itself (`Known`); what is at the server has come to nothing yet
(`AtServer`), and is not among the requests that are lost (`LostApart`); who was told was told once, what that request came to, and is not
pending (`Telling`); nothing is known of a call that was not made (`NotMade`).
The count of `$browser` is a cardinality, so that a timer must not be there twice
(`OneTimer`), and a failure leaves the cache only if it is there for a request
that caches (`OfCached`).

*The cache*: `LruCache` refines `Recency`
(`CacheRefinesRecency`), and with it the run's `ImplementsRecency`.  The mapping
gives each linked list the sequence of the entries in order of use; the
invariant (`LruInv`) is that there is such a sequence, and that every entry with
data is on it; it is the only one (`Unique`).  `size` may be any integer: an entry
without data is not counted when it is listed, and is when it is removed.  The room
for contents, which is the capacity and one for each such removal, is found by
counting (`OneMore`, `OneLess`).  Capacity 0, which the code takes for no bound, is
one of the cases.  The
work is in the lemmas about lists: what is left of one when an entry is linked
out at its end, at its head or between two others, and that the sequence that
`Recency` computes is the one that the pointers then make.

`ScopesProofs` proves `ScopesKept` (`ScopesStayKept`) for any number of scopes,
watchers and cells, whatever tree the functions of the page make of the scopes
while a digest walks over it.  `ScopesKept` is not inductive: a scope that was
destroyed keeps its pointers, and the walk may stand on one.  `ScopeInv` says:

* the pointers of every scope that was ever born, live or not, are the list of its
  children, each child has one parent, and parents have ranks, so that the way up
  ends (`Tree`); `NewKeepsTree` and `DestroyKeepsTree` are the two surgeries;
* a pass that has found nothing yet has run no function of the page since its first
  watcher, so that every live scope is still ahead of the walk, or is where it
  stands, or is clean (`Pass`).

What is ahead (`Ahead`) is again a least closed set.  That the walk, down, to the
next sibling, or up, meets every live scope is `WalkMeetsAll`: the set of what it
meets from the root contains with a scope all of its children.

`PagePartsProofs` has four parts of the page.  Its theorem `PageStartsInOrder` joins
those about the loader and the injector to `PageStarts`, which the run checks.

*The dialog of a connection* (`ConnectionDialogIsOwn`): whatever row, dialog or
request has is an object of the heap, and that of a row is its connection's
(`Held`); no more requests are under way than were sent (`Sent`); and while a
patient user waits there is one, the dialog is open, and what it will put back is
its own (`Awaits`).  That the page always finds an object it can make is shown by
counting (`Room`).  Any number of connections.

*The injector* (`InjectorCreatesOnce`): the services on the path are marked and
differ, and what one of them asks for is left to ask for, is there, or is being
created for it (`Waits`); what has an instance was created once, after all that
it asks for (`OneInstance`).  Hence no service that was created needs itself: the
transitive requirements are the least closed set, not a recursion.  For every
finite set of services and every relation between them.

*The loader* (`LoaderKeepsOrder`): each call that is under way is for one module,
which those of the earlier calls need (`CallsNest`); its blocks are a piece of
what was configured (`Pieces`), in an order that follows the requirements
(`ConfiguredInOrder`); what a module requires is loaded or still left to a call
(`NothingLeftOut`), and a module is loaded once (`LoadedOnce`); and what runs is
what was configured, when all was (`RunsThen`).

*The elements* (`ElementsAreDressed`): what the watch of `ng-class` saw last is on
the element together with its own classes; at a digest it is taken off first.
The assumption says that no value is the mark for "not seen yet".

*The address* (`AddressStaysTrue`, `LocationAddsLinks`).  `AddressInvariant` says
that between two events the history, `$browser`, `$location` and the view have
the same address, and that no entry of the history redirects.  The digest is a
recursive function that may run ten times; `DigestEnds` shows that one which the
third call would not continue has ended after the second, and `DigestStarts`,
`DigestFollows` and `DigestIdle` what those calls do to the window: publish the
address, and replace it if it redirects.  The history may have any length:
nothing is assumed of `MaxEntries`.

The assumptions about constants are those of the modules (`ForwarderAssumption`,
`MonitorAssumption`, `StoreAssumption`, `ServerAssumption`, `EditAssumption`,
`KeysAssumption`, `PageAssumption`, `ScopeAssumption`), which TLC evaluates in the runs, and the
premises named above.  The other modules of the page state none; there a theorem names what it assumes (`HttpConstants`, `PromiseConstants`,
`DialogConstants`, `ElementConstants`, finite sets, a capacity that is a number, and that the marks
for "no value" are no values).  What `MCParts` and `MCWebPage` give them satisfies all of these.

Only model-checked:

* liveness, which is beyond the prover: `StopTerminates`, `ListenerReopens`,
  `RequestsAnswered`, `SessionEnds`, `StatesShown`, `LeftViewsStopPolling`;
* what recurs over texts, lists and heaps, where a proof is an induction over
  data: `RowsFollow` (copies of heaps, the walk over a list of items), of
  `TemplatesAreShown` the texts and the sorting of filters, `RoutesKept` (what
  decoding gives back, and how many redirections there are), `ParsesTheGrammar`;
* `HeardOnce`, which compares a walk with a set that is computed by recursion,
  and which extends the scopes with listeners; the tree under it is that of
  `ScopesStayKept`;
* `FormsKept`: the counts of forms within forms are sums over a tree, and the
  dates are arithmetic that TLC covers day by day.  `DialogForm` has no
  parameter, so that TLC covers it completely.

## 5. What else the models show

Some statements do not hold, are weaker than one might expect, or come with an
observation about the code.  Unless a run is named, they are not checked.

* `StopDisconnects` (in `SessionMonitor`): a stop may leave an SSH connection
  open that holds no port, when authentication or binding failed after the
  connection was made.
* Saves that overlap (`EditConfig`): two streams on `config.xml.tmp` mix their
  bytes, and the rename publishes them; one save may delete the file that the other
  has just put in place and then find nothing to rename, so that `config.xml` is
  gone and the default configuration is loaded and written; and what one thread has
  read it may assign to `configuration` after another has read and assigned a newer
  file.  Nothing is promised then; the next save that meets no other one ends with
  the server running what is on disk (`RunsWhatIsOnDiskProp`).
* With one writer, a crash between the deletion and the rename, or a rename that
  fails unnoticed, leaves no `config.xml`; the next start writes the default.
* Two hosts that are new to two connections at the same time (`KnownHosts`): the
  entry of one is lost again, although the log said that it was added permanently,
  or both streams mix in the file.
* A monitor's thread, or its constructor, that dies of an unchecked exception (a
  field that became null, a forward without an account) leaves its forwarders open:
  the map still knows them, and nobody closes them.  The properties of `forwards`
  and `monitor_lives` are about monitors that live.
* A disconnect listener of a listening forwarder is registered with the first
  channel that goes through.  A connection that is lost before closes no port, and
  the retries fail to bind; `ListenerReopens` is about disconnects that are handled.
* What the channel of a CONNECT copies to the client does not wait for the SOCKS
  answer: it may stand before the "ok", and before an error message.
* A SOCKS thread that begins to wait after its channel has notified for the last
  time waits for ever (`missed`, which `SessionEnds` leaves out).
* A digest that gives up throws through `done` of `$http` into `completeRequest`,
  which has no `finally`: the request is counted for ever, and nobody who waits for
  quiet is called.  A throw from `open` or `send` has the same effect, and leaves in
  the cache, and in `pendingRequests`, a promise that nobody keeps: later calls of
  that address join it.
* An operator is an expression by itself for the parser, as `==` and `x = =` are;
  behind a unary plus it wants a primary expression, takes the `-` of `+-x` for it,
  and rejects the rest.  In `e.(` the dot is dropped.  A dot at the end of the text
  is a number, and so is `1e`, both of them NaN.
* `put(key, undefined)` of a cache lists the key without counting it.  Once such an
  entry has been removed or given up, the cache holds one entry more than its
  capacity.  A capacity of 0 is no bound.
* The second press of a connection's or forward's button after a refusal goes to
  `update/undefined`, because the first one deleted the id; the server answers
  that as a success.
* The dialog of a connection edits the proxy object of the row, so that a change
  that was cancelled stays visible.  A refusal that arrives after the user has
  cancelled and opened another connection puts the first one's proxy into the
  second one's dialog; `DialogIsOwn` speaks of a user who waits.
* The failure handler of `updateSession` in `config.js` refers to a variable
  `connection` that does not exist there; the message it would show is lost.
* A listener that is removed while an event is on its way makes the next
  listener of its scope miss the event.
* `$location.url(u)` takes the hash as it stands, while `path` and `search` are
  decoded.
* In `date.js`, `fromString` sets day, month and year one after another in a date
  of 1970: with the year last, 29 February is read as 1 March.  `getDayOfYear` is
  a day short at midnight while the clocks are ahead.
* A date picker's documentation calls `endDate` "the last date that can be
  selected".  A click cannot select it: a cell stands for midday, `endDate` for
  midnight, and `setSelected` compares the two.
* January without a year is taken for no month (`!m && !y`), and shows today's.
* Closing any picker removes the popup, whoever opened it.
* A picker miscounts (`numSelected`) once a date that was never selected has been
  deselected, or `datePicker()` has been called again with dates selected.

## 6. What is not modelled

* bytes through channels and pipes, the relay of UDP, and what `IpFilter` decides;
* `MySocketConnectListener`: it connects, confirms and copies, without state;
* the monitor's own `notifyDisconnect`, which is registered nowhere;
* `fsync` and power failure: a crash is the death of the process;
* the poll of the forward states on the server: it only reads.  While it runs
  over the list of monitors, `start` may change that list (a hazard without a
  property);
* the cipher, and decryption under another configuration's id;
* names, hosts, ports and filters of a configuration, and what is enabled in it;
* the embedded sshd (its start is commented out), Jetty, the login, the schema;
* on the page: the login, the bar of log messages, the buttons that start and
  stop the service;
* in angular: directives with a `templateUrl` or an isolate scope (the page has
  none of its own), jqLite (the page loads jQuery first), cookies, jsonp,
  the filter for JSON, the splitting of a date's format, names of months and days;
* of the date pickers: render callbacks, hovering, placing, names of days and
  months, minutes and seconds; a page that calls a picker from within one of its
  events;
* the other jQuery plug-ins (tooltips, dimensions, menus, select boxes), which no
  view loads either.

What would come next: an abstract session ("each enabled forward is up, down or
being retried") that `SessionMonitor` implements, and an abstract service that
`DrillServer` with one client implements; liveness of a digest; the filter of
addresses as an operator against a reference.
