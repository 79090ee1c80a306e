----------------------------- MODULE DrillServer -----------------------------
(***************************************************************************)
(* The restart of the SSH service: DrillServer's static fields, the        *)
(* SshSessionManagers, and the HTTP threads that call them for the         *)
(* requests save (ConfigHandler), start and stop (RuntimeHandler), next to *)
(* the start and the end of the web application.                           *)
(*                                                                         *)
(* The fields of DrillServer are read and written without a lock;          *)
(* SshSessionManager.start() and stop() are synchronized on the manager.   *)
(* A session monitor is seen here as the thread that SessionMonitor models *)
(* in full: it is alive until it has been interrupted and ends, or until   *)
(* an exception ends it.                                                   *)
(***************************************************************************)
EXTENDS ConfigStore

CONSTANTS
  Managers,   \* the SshSessionManagers made, bounds the number of restarts
  NoManager,
  NoWorker,
  Sessions,   \* the sessions of every configuration
  Disabled,   \* those that are disabled: their monitor is never started
  Broken,     \* those whose monitor's constructor throws unchecked
  Requests    \* the requests that clients make, see RequestKinds

RequestKinds == {"save", "start", "stop", "destroy"}

ASSUME ServerAssumption ==
  /\ NoManager \notin Managers
  /\ NoWorker \notin Workers
  /\ Disabled \cup Broken \subseteq Sessions
  /\ Disabled \cap Broken = {}
  /\ Requests \subseteq RequestKinds

VARIABLES
  sshClientManager, \* DrillServer.sshClientManager
  state,            \* the manager's state; unused: not made yet
  lock,             \* the thread that holds the manager's monitor lock
  mons,             \* the list sshClientMonitor, as the sessions in it
  live,             \* the sessions in it whose monitor thread is alive
  stranded,         \* sessions with a live monitor thread in no list
  interrupted,      \* the managers whose monitors have been interrupted
  toStart,          \* the sessions start() has still to visit
  req,              \* what a thread is serving
  ref               \* the manager it called start() or stop() on

manVars == <<sshClientManager, state, lock, mons, live, stranded, interrupted,
             toStart>>
vars == <<storeVars, manVars, req, ref>>

ManagerStates == {"unused", "INACTIVE", "ACTIVE"}
ServerPcs == {"down", "idle", "written", "loaded", "restart", "stopRef",
              "stopEnter", "stopPoll", "stopReturn", "startRef", "startEnter",
              "startLoop"} \cup WritePcs \cup ReadPcs

TypeOK ==
  /\ StoreTypeOK
  /\ pc \in [Workers -> ServerPcs]
  /\ sshClientManager \in Managers \cup {NoManager}
  /\ state \in [Managers -> ManagerStates]
  /\ lock \in [Managers -> Workers \cup {NoWorker}]
  /\ mons \in [Managers -> SUBSET Sessions]
  /\ live \in [Managers -> SUBSET Sessions]
  /\ stranded \in [Managers -> SUBSET Sessions]
  /\ interrupted \subseteq Managers
  /\ toStart \in [Managers -> SUBSET Sessions]
  /\ req \in [Workers -> RequestKinds \cup {"none", "boot"}]
  /\ ref \in [Workers -> Managers \cup {NoManager}]

Init ==
  /\ StoreInit
  /\ pc = [w \in Workers |-> "down"]
  /\ sshClientManager = NoManager
  /\ state = [m \in Managers |-> "unused"]
  /\ lock = [m \in Managers |-> NoWorker]
  /\ mons = [m \in Managers |-> {}]
  /\ live = [m \in Managers |-> {}]
  /\ stranded = [m \in Managers |-> {}]
  /\ interrupted = {}
  /\ toStart = [m \in Managers |-> {}]
  /\ req = [w \in Workers |-> "none"]
  /\ ref = [w \in Workers |-> NoManager]

\* A request is answered, or fails with an exception: nothing is undone.
Finish(w) ==
  /\ Idle(w)
  /\ req' = [req EXCEPT ![w] = "none"]
  /\ ref' = [ref EXCEPT ![w] = NoManager]

StoreRest == <<fileVars, configuration, ver, out, saved>>

-----------------------------------------------------------------------------
\* startService, from the servlet's init().
Start(w) ==
  /\ Down
  /\ Goto(w, "restart")
  /\ req' = [req EXCEPT ![w] = "boot"]
  /\ UNCHANGED <<StoreRest, manVars, ref>>

\* ConfigHandler.save.
Save(w) ==
  /\ "save" \in Requests
  /\ \E v \in Versions : BeginSave(w, v)
  /\ req' = [req EXCEPT ![w] = "save"]
  /\ UNCHANGED <<manVars, ref>>

\* RuntimeHandler.start, RuntimeHandler.stop and stopService: the field is
\* read next; stopService tests it first and ends when it is null.
Call(w, r) ==
  /\ pc[w] = "idle"
  /\ r \in Requests \ {"save"}
  /\ Goto(w, CASE r = "start"   -> "startRef"
               [] r = "stop"    -> "stopRef"
               [] r = "destroy" -> IF sshClientManager = NoManager
                                     THEN "idle" ELSE "stopRef")
  /\ req' = [req EXCEPT ![w] = IF pc'[w] = "idle" THEN "none" ELSE r]
  /\ UNCHANGED <<StoreRest, manVars, ref>>

-----------------------------------------------------------------------------
\* A variant that restarts without stopping.
TestManagerNoStop(w) ==
  /\ pc[w] = "restart"
  /\ Goto(w, "isFile")
  /\ UNCHANGED <<StoreRest, manVars, req, ref>>

\* restartService: if (sshClientManager != null) ...
TestManager(w) ==
  /\ pc[w] = "restart"
  /\ Goto(w, IF sshClientManager = NoManager THEN "isFile" ELSE "stopRef")
  /\ UNCHANGED <<StoreRest, manVars, req, ref>>

\* ... the field is read again for the call, and may be null by then.
ReadManager(w, from, next) ==
  /\ pc[w] = from
  /\ IF sshClientManager = NoManager
       THEN Finish(w)
       ELSE /\ ref' = [ref EXCEPT ![w] = sshClientManager]
            /\ Goto(w, next)
            /\ UNCHANGED req
  /\ UNCHANGED <<StoreRest, manVars>>

(***************************************************************************)
(* new SshSessionManager(configuration.getSshSession()), assigned to the   *)
(* field; a null configuration ends the request.  A manager is used once,  *)
(* so Managers bounds the restarts.                                        *)
(***************************************************************************)
MakeManager(w) ==
  /\ pc[w] = "loaded"
  /\ IF configuration = NoConfig
       THEN Finish(w) /\ UNCHANGED <<sshClientManager, state>>
       ELSE \E m \in Managers :
              /\ state[m] = "unused"
              /\ state' = [state EXCEPT ![m] = "INACTIVE"]
              /\ sshClientManager' = m
              /\ Goto(w, "startRef")
              /\ UNCHANGED <<req, ref>>
  /\ UNCHANGED <<StoreRest, lock, mons, live, stranded, interrupted, toStart>>

-----------------------------------------------------------------------------
\* A variant that waits for the monitors without interrupting them.
StopEnterNoInterrupt(w) ==
  /\ pc[w] = "stopEnter"
  /\ lock[ref[w]] = NoWorker
  /\ IF state[ref[w]] = "ACTIVE"
       THEN /\ lock' = [lock EXCEPT ![ref[w]] = w]
            /\ Goto(w, "stopPoll")
       ELSE Goto(w, "stopReturn") /\ UNCHANGED lock
  /\ UNCHANGED <<StoreRest, sshClientManager, state, mons, live, stranded,
                 interrupted, toStart, req, ref>>

\* SshSessionManager.stop(), entered when the lock is free: it returns at
\* once unless the manager is ACTIVE, else it interrupts every monitor.
StopEnter(w) ==
  /\ pc[w] = "stopEnter"
  /\ lock[ref[w]] = NoWorker
  /\ IF state[ref[w]] = "ACTIVE"
       THEN /\ lock' = [lock EXCEPT ![ref[w]] = w]
            /\ interrupted' = interrupted \cup {ref[w]}
            /\ Goto(w, "stopPoll")
       ELSE Goto(w, "stopReturn") /\ UNCHANGED <<lock, interrupted>>
  /\ UNCHANGED <<StoreRest, sshClientManager, state, mons, live, stranded,
                 toStart, req, ref>>

\* A variant that does not wait for the monitors ...
StopDoneNoWait(w) ==
  /\ pc[w] = "stopPoll"
  /\ state' = [state EXCEPT ![ref[w]] = "INACTIVE"]
  /\ lock' = [lock EXCEPT ![ref[w]] = NoWorker]
  /\ Goto(w, "stopReturn")
  /\ UNCHANGED <<StoreRest, sshClientManager, mons, live, stranded,
                 interrupted, toStart, req, ref>>

\* ... and one that leaves the manager in a state it does not have.
StopDoneStopped(w) ==
  /\ pc[w] = "stopPoll"
  /\ live[ref[w]] = {}
  /\ state' = [state EXCEPT ![ref[w]] = "STOPPED"]
  /\ lock' = [lock EXCEPT ![ref[w]] = NoWorker]
  /\ Goto(w, "stopReturn")
  /\ UNCHANGED <<StoreRest, sshClientManager, mons, live, stranded,
                 interrupted, toStart, req, ref>>

\* It polls, with the lock, until no monitor in its list is alive.
StopDone(w) ==
  /\ pc[w] = "stopPoll"
  /\ live[ref[w]] = {}
  /\ state' = [state EXCEPT ![ref[w]] = "INACTIVE"]
  /\ lock' = [lock EXCEPT ![ref[w]] = NoWorker]
  /\ Goto(w, "stopReturn")
  /\ UNCHANGED <<StoreRest, sshClientManager, mons, live, stranded,
                 interrupted, toStart, req, ref>>

\* What follows in restartService, stopService and RuntimeHandler.stop.
StopReturn(w) ==
  /\ pc[w] = "stopReturn"
  /\ IF req[w] \in {"save", "boot"}
       THEN Goto(w, "isFile") /\ UNCHANGED <<req, ref, sshClientManager>>
       ELSE /\ Finish(w)
            /\ sshClientManager' =
                 IF req[w] = "destroy" THEN NoManager ELSE sshClientManager
  /\ UNCHANGED <<StoreRest, state, lock, mons, live, stranded, interrupted,
                 toStart>>

-----------------------------------------------------------------------------
\* A variant of start() that is not synchronized.
StartEnterUnlocked(w) ==
  /\ pc[w] = "startEnter"
  /\ LET m == ref[w] IN
       IF state[m] = "ACTIVE"
         THEN Finish(w) /\ UNCHANGED manVars
         ELSE /\ mons' = [mons EXCEPT ![m] = {}]
              /\ live' = [live EXCEPT ![m] = {}]
              /\ stranded' = [stranded EXCEPT ![m] = @ \cup live[m]]
              /\ interrupted' = interrupted \ {m}
              /\ toStart' = [toStart EXCEPT ![m] = Sessions]
              /\ Goto(w, "startLoop")
              /\ UNCHANGED <<sshClientManager, state, lock, req, ref>>
  /\ UNCHANGED StoreRest

(***************************************************************************)
(* SshSessionManager.start(): nothing when ACTIVE, else the list is        *)
(* cleared.  The threads of monitors that were still in it live on.        *)
(***************************************************************************)
StartEnter(w) ==
  /\ pc[w] = "startEnter"
  /\ lock[ref[w]] = NoWorker
  /\ LET m == ref[w] IN
       IF state[m] = "ACTIVE"
         THEN Finish(w) /\ UNCHANGED manVars
         ELSE /\ lock' = [lock EXCEPT ![m] = w]
              /\ mons' = [mons EXCEPT ![m] = {}]
              /\ live' = [live EXCEPT ![m] = {}]
              /\ stranded' = [stranded EXCEPT ![m] = @ \cup live[m]]
              /\ interrupted' = interrupted \ {m}
              /\ toStart' = [toStart EXCEPT ![m] = Sessions]
              /\ Goto(w, "startLoop")
              /\ UNCHANGED <<sshClientManager, state, req, ref>>
  /\ UNCHANGED StoreRest

\* One session: a new monitor, started and added to the list.  What its
\* constructor throws ends start(), and the manager stays INACTIVE.
StartSession(w) ==
  /\ pc[w] = "startLoop"
  /\ LET m == ref[w] IN
       \E s \in toStart[m] :
         /\ toStart' = [toStart EXCEPT ![m] = @ \ {s}]
         /\ IF s \in Broken
              THEN /\ lock' = [lock EXCEPT ![m] = NoWorker]
                   /\ Finish(w)
                   /\ UNCHANGED <<mons, live>>
              ELSE /\ mons' = [mons EXCEPT ![m] = @ \cup {s}]
                   /\ live' = [live EXCEPT ![m] =
                                 IF s \in Disabled THEN @ ELSE @ \cup {s}]
                   /\ UNCHANGED <<lock, pc, req, ref>>
  /\ UNCHANGED <<StoreRest, sshClientManager, state, stranded, interrupted>>

StartDone(w) ==
  /\ pc[w] = "startLoop"
  /\ toStart[ref[w]] = {}
  /\ state' = [state EXCEPT ![ref[w]] = "ACTIVE"]
  /\ lock' = [lock EXCEPT ![ref[w]] = NoWorker]
  /\ Finish(w)
  /\ UNCHANGED <<StoreRest, sshClientManager, mons, live, stranded,
                 interrupted, toStart>>

-----------------------------------------------------------------------------
\* A monitor thread ends: the shutdown after an interrupt, or an exception.
MonitorEnds(m, s) ==
  /\ s \in live[m]
  /\ live' = [live EXCEPT ![m] = @ \ {s}]
  /\ UNCHANGED <<storeVars, sshClientManager, state, lock, mons, stranded,
                 interrupted, toStart, req, ref>>

ReadOrWrite(w) ==
  /\ StoreStep(w) \/ Written(w, "restart")
  /\ UNCHANGED <<manVars, req, ref>>

WorkerStep(w) ==
  \/ ReadOrWrite(w)
  \/ TestManager(w)
  \/ ReadManager(w, "stopRef", "stopEnter")
  \/ ReadManager(w, "startRef", "startEnter")
  \/ MakeManager(w)
  \/ StopEnter(w)
  \/ StopDone(w)
  \/ StopReturn(w)
  \/ StartEnter(w)
  \/ StartSession(w)
  \/ StartDone(w)

NewRequest(w) == Start(w) \/ Save(w) \/ \E r \in RequestKinds : Call(w, r)

Next ==
  \/ \E w \in Workers : WorkerStep(w) \/ NewRequest(w)
  \/ \E m \in Managers, s \in Sessions : MonitorEnds(m, s)

Spec == Init /\ [][Next]_vars

(***************************************************************************)
(* Fairness.  Threads run, and a lock that is free again and again is      *)
(* obtained; a monitor that has been interrupted ends (StopTerminates of   *)
(* SessionMonitor).                                                        *)
(***************************************************************************)
FairSpec ==
  /\ Spec
  /\ \A w \in Workers : WF_vars(WorkerStep(w))
  /\ \A w \in Workers : SF_vars(StopEnter(w)) /\ SF_vars(StartEnter(w))
  /\ \A m \in Managers, s \in Sessions :
       WF_vars(m \in interrupted /\ MonitorEnds(m, s))

-----------------------------------------------------------------------------
\* start() never forgets a monitor whose thread is alive, as long as no
\* monitor's constructor throws: it clears its list only after a stop() that
\* saw every thread end, whatever requests run at the same time.
NothingStranded == Broken = {} => \A m \in Managers : stranded[m] = {}

\* ... and a manager that says INACTIVE, and is neither starting nor
\* stopping, runs nothing.
InactiveMeansEnded ==
  Broken = {} =>
    \A m \in Managers :
      (state[m] = "INACTIVE" /\ lock[m] = NoWorker) => live[m] = {}

\* Who holds a manager's lock: a thread inside its start() or stop(), which
\* found the manager in the state that lets it go on.
InStart(w, m) == pc[w] = "startLoop" /\ ref[w] = m
InStop(w, m)  == pc[w] = "stopPoll" /\ ref[w] = m

LockInv ==
  /\ \A w \in Workers :
       pc[w] \in {"stopEnter", "stopPoll", "startEnter", "startLoop"}
         => ref[w] \in Managers /\ state[ref[w]] # "unused"
  /\ sshClientManager # NoManager => state[sshClientManager] # "unused"
  /\ \A w \in Workers, m \in Managers :
       /\ InStart(w, m) => lock[m] = w /\ state[m] = "INACTIVE"
       /\ InStop(w, m) => lock[m] = w /\ state[m] = "ACTIVE"
       /\ lock[m] = w => InStart(w, m) \/ InStop(w, m)

\* The inductive invariant of NothingStranded and InactiveMeansEnded.
IdleManagerInv ==
  \A m \in Managers :
    (state[m] # "ACTIVE" /\ lock[m] = NoWorker) => live[m] = {}

IndInv ==
  /\ TypeOK
  /\ LockInv
  /\ Broken = {} => IdleManagerInv
  /\ NothingStranded

\* After a restart the sessions of the old configuration are gone: only the
\* manager that requests can reach has live monitors.  This needs requests
\* that come one at a time.
OnlyCurrentRuns ==
  \A m \in Managers \ {sshClientManager} : live[m] = {}

\* ConfigHandler.save answers "... server restarted": when no request is being
\* served, no monitor of an earlier configuration runs.
RestartReplaces ==
  (\A w \in Workers : pc[w] = "idle") => OnlyCurrentRuns

\* Every request is answered: stop() polls with the manager's lock while the
\* other requests wait for it, and yet none of them waits for ever.
RequestsAnswered ==
  \A w \in Workers : pc[w] \notin {"down", "idle"} ~> pc[w] = "idle"
==============================================================================
