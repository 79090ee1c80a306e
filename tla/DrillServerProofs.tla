-------------------------- MODULE DrillServerProofs --------------------------
(***************************************************************************)
(* Proofs about DrillServer, for every number of HTTP threads, managers,   *)
(* sessions and configurations: the manager's lock is what keeps a live    *)
(* monitor from being forgotten.                                           *)
(***************************************************************************)
EXTENDS DrillServer, TLAPS

\* The pc values of a thread that is inside, or about to enter, a manager.
ManagerPcs == {"stopEnter", "stopPoll", "startEnter", "startLoop"}

THEOREM InitIndInv == Init => IndInv
<1> SUFFICES ASSUME Init PROVE IndInv
  OBVIOUS
<1> USE StoreAssumption, ServerAssumption DEF Init, StoreInit
<1>1. TypeOK
  BY DEF TypeOK, StoreTypeOK, Configs, Contents, Kinds, Empty, Full, ServerPcs,
         ManagerStates
<1>2. LockInv
  BY DEF LockInv, InStart, InStop
<1>3. IdleManagerInv /\ NothingStranded
  BY DEF IdleManagerInv, NothingStranded
<1> QED
  BY <1>1, <1>2, <1>3 DEF IndInv

\* A thread outside the managers moves to a place outside them: nothing of
\* the managers changes.
LEMMA OutsideStep ==
  ASSUME IndInv, NEW w \in Workers, pc[w] \notin ManagerPcs,
         pc' = [pc EXCEPT ![w] = pc'[w]], pc'[w] \notin ManagerPcs,
         UNCHANGED <<manVars, ref>>
  PROVE  LockInv' /\ (Broken = {} => IdleManagerInv)' /\ NothingStranded'
<1>1. LockInv'
  BY DEF IndInv, TypeOK, LockInv, InStart, InStop, manVars, ManagerPcs
<1> QED
  BY <1>1 DEF IndInv, IdleManagerInv, NothingStranded, manVars

LEMMA ContentTypes ==
  /\ Empty \in Contents
  /\ Torn \in Contents
  /\ \A c \in Configs \cup {NoConfig} : Half(c) \in Contents /\ Full(c) \in Contents
  BY DEF Empty, Torn, Half, Full, Contents, Kinds

\* The steps of writeConfiguration and readConfiguration.
LEMMA StoreTypes ==
  ASSUME TypeOK, NEW w \in Workers, StoreStep(w) \/ Written(w, "restart")
  PROVE  /\ StoreTypeOK'
         /\ pc' = [pc EXCEPT ![w] = pc'[w]]
         /\ pc[w] \notin ManagerPcs
         /\ pc'[w] \in ServerPcs \ ManagerPcs
<1> USE StoreAssumption
    DEF TypeOK, StoreTypeOK, Goto, fileVars, ServerPcs, ManagerPcs, WritePcs,
        ReadPcs
<1>1. CASE OpenTmp(w)
  BY <1>1, ContentTypes DEF OpenTmp
<1>2. CASE MarshalHead(w)
  <2>1. PICK c \in Contents : content' = [content EXCEPT ![out[w]] = c]
                              \/ UNCHANGED content
    BY <1>2, ContentTypes DEF MarshalHead
  <2>2. content' \in [Inodes -> Contents]
    BY <2>1
  <2> QED
    BY <1>2, <2>2 DEF MarshalHead
<1>3. CASE MarshalTail(w)
  <2>1. content' \in [Inodes -> Contents]
    BY <1>3, ContentTypes DEF MarshalTail
  <2> QED
    BY <1>3, <2>1 DEF MarshalTail
<1>4. CASE TestExists(w)
  BY <1>4 DEF TestExists
<1>5. CASE DeleteOld(w)
  BY <1>5 DEF DeleteOld
<1>6. CASE Rename(w)
  BY <1>6 DEF Rename
<1>7. CASE TestIsFile(w)
  BY <1>7 DEF TestIsFile, Configs
<1>8. CASE Unmarshal(w)
  BY <1>8 DEF Unmarshal, Contents
<1>9. CASE Written(w, "restart")
  BY <1>9 DEF Written
<1> QED
  BY <1>1, <1>2, <1>3, <1>4, <1>5, <1>6, <1>7, <1>8, <1>9 DEF StoreStep

-----------------------------------------------------------------------------
LEMMA ReadOrWriteStep ==
  ASSUME IndInv, NEW w \in Workers, ReadOrWrite(w)
  PROVE  IndInv'
<1>1. /\ StoreTypeOK'
      /\ pc' = [pc EXCEPT ![w] = pc'[w]]
      /\ pc[w] \notin ManagerPcs
      /\ pc'[w] \in ServerPcs \ ManagerPcs
  BY StoreTypes DEF ReadOrWrite, IndInv
<1>2. UNCHANGED <<manVars, req, ref>>
  BY DEF ReadOrWrite
<1>3. LockInv' /\ (Broken = {} => IdleManagerInv)' /\ NothingStranded'
  BY <1>1, <1>2, OutsideStep
<1>4. TypeOK'
  BY <1>1, <1>2 DEF IndInv, TypeOK, manVars
<1> QED
  BY <1>3, <1>4 DEF IndInv

\* New requests, and the tests of the static field that lead to no manager.
LEMMA RequestStep ==
  ASSUME IndInv, NEW w \in Workers,
         Save(w) \/ (\E r \in RequestKinds : Call(w, r)) \/ TestManager(w)
  PROVE  IndInv'
<1> USE DEF IndInv, TypeOK, Goto, StoreRest, fileVars, ServerPcs, ManagerPcs,
            RequestKinds
<1>1. UNCHANGED <<manVars, ref>>
  BY DEF Save, Call, TestManager
<1>2. pc' = [pc EXCEPT ![w] = pc'[w]] /\ pc'[w] \in ServerPcs \ ManagerPcs
  BY DEF Save, BeginSave, Call, TestManager, WritePcs, ReadPcs
<1>3. pc[w] \notin ManagerPcs
  BY DEF Save, BeginSave, Call, TestManager
<1>4. StoreTypeOK' /\ req' \in [Workers -> RequestKinds \cup {"none", "boot"}]
  BY DEF Save, BeginSave, Call, TestManager, StoreTypeOK, Configs
<1>5. LockInv' /\ (Broken = {} => IdleManagerInv)' /\ NothingStranded'
  BY <1>1, <1>2, <1>3, OutsideStep
<1> QED
  BY <1>1, <1>2, <1>4, <1>5 DEF manVars

\* The end of a request: the other threads stay where they are, except that
\* the end of the start lets them begin to serve requests.
LEMMA FinishStep ==
  ASSUME TypeOK, NEW w \in Workers, Finish(w)
  PROVE  /\ pc' \in [Workers -> ServerPcs]
         /\ req' \in [Workers -> RequestKinds \cup {"none", "boot"}]
         /\ ref' \in [Workers -> Managers \cup {NoManager}]
         /\ pc'[w] = "idle"
         /\ \A u \in Workers \ {w} : /\ ref'[u] = ref[u]
                                     /\ \/ pc'[u] = pc[u]
                                        \/ pc[u] = "down" /\ pc'[u] = "idle"
  BY DEF TypeOK, Finish, Idle, ServerPcs

LEMMA StartServiceStep ==
  ASSUME IndInv, NEW w \in Workers, Start(w)
  PROVE  IndInv'
<1> USE DEF IndInv, TypeOK, Start, Goto, StoreRest, fileVars, manVars, ManagerPcs
<1>1. LockInv' /\ (Broken = {} => IdleManagerInv)' /\ NothingStranded'
  <2>1. pc[w] \notin ManagerPcs
    BY DEF Down
  <2>2. pc' = [pc EXCEPT ![w] = pc'[w]] /\ pc'[w] \notin ManagerPcs
    BY DEF ManagerPcs
  <2> QED
    BY <2>1, <2>2, OutsideStep
<1>2. TypeOK'
  BY DEF StoreTypeOK, ServerPcs
<1> QED
  BY <1>1, <1>2

LEMMA ReadManagerStep ==
  ASSUME IndInv, NEW w \in Workers,
         \/ ReadManager(w, "stopRef", "stopEnter")
         \/ ReadManager(w, "startRef", "startEnter")
  PROVE  IndInv'
<1> USE ServerAssumption
    DEF IndInv, TypeOK, ReadManager, Goto, StoreRest, fileVars, manVars
<1>1. CASE sshClientManager = NoManager
  <2>1. Finish(w)
    BY <1>1
  <2>2. LockInv'
    BY <2>1, FinishStep DEF LockInv, InStart, InStop
  <2> QED
    BY <2>1, <2>2, FinishStep DEF StoreTypeOK, IdleManagerInv, NothingStranded
<1>2. CASE sshClientManager # NoManager
  <2>1. TypeOK'
    BY <1>2 DEF StoreTypeOK, ServerPcs
  <2>2. LockInv'
    BY <1>2 DEF LockInv, InStart, InStop
  <2> QED
    BY <2>1, <2>2 DEF IdleManagerInv, NothingStranded
<1> QED
  BY <1>1, <1>2

LEMMA MakeManagerStep ==
  ASSUME IndInv, NEW w \in Workers, MakeManager(w)
  PROVE  IndInv'
<1> USE ServerAssumption
    DEF IndInv, TypeOK, MakeManager, Goto, StoreRest, fileVars
<1>1. CASE configuration = NoConfig
  <2>1. Finish(w)
    BY <1>1
  <2>2. LockInv'
    BY <1>1, <2>1, FinishStep DEF LockInv, InStart, InStop
  <2> QED
    BY <1>1, <2>1, <2>2, FinishStep
    DEF StoreTypeOK, IdleManagerInv, NothingStranded
<1>2. CASE configuration # NoConfig
  <2>1. PICK m \in Managers : /\ state[m] = "unused"
                              /\ state' = [state EXCEPT ![m] = "INACTIVE"]
                              /\ sshClientManager' = m
                              /\ Goto(w, "startRef")
                              /\ UNCHANGED <<req, ref>>
    BY <1>2
  <2>2. TypeOK'
    BY <2>1 DEF StoreTypeOK, ServerPcs, ManagerStates
  <2>3. LockInv'
    BY <2>1 DEF LockInv, InStart, InStop
  <2>4. (Broken = {} => IdleManagerInv)'
    BY <2>1 DEF IdleManagerInv
  <2> QED
    BY <2>2, <2>3, <2>4 DEF NothingStranded
<1> QED
  BY <1>1, <1>2

-----------------------------------------------------------------------------
LEMMA StopEnterStep ==
  ASSUME IndInv, NEW w \in Workers, StopEnter(w)
  PROVE  IndInv'
<1> USE ServerAssumption
    DEF IndInv, TypeOK, StopEnter, Goto, StoreRest, fileVars
<1>1. ref[w] \in Managers
  BY DEF LockInv
<1>2. TypeOK'
  BY <1>1 DEF StoreTypeOK, ServerPcs
<1>3. LockInv'
  BY <1>1 DEF LockInv, InStart, InStop
<1>4. (Broken = {} => IdleManagerInv)'
  BY <1>1 DEF IdleManagerInv
<1> QED
  BY <1>2, <1>3, <1>4 DEF NothingStranded

LEMMA StopDoneStep ==
  ASSUME IndInv, NEW w \in Workers, StopDone(w)
  PROVE  IndInv'
<1> USE ServerAssumption
    DEF IndInv, TypeOK, StopDone, Goto, StoreRest, fileVars
<1>1. ref[w] \in Managers
  BY DEF LockInv
<1>2. TypeOK'
  BY <1>1 DEF StoreTypeOK, ServerPcs, ManagerStates
<1>3. LockInv'
  BY <1>1 DEF LockInv, InStart, InStop
<1>4. (Broken = {} => IdleManagerInv)'
  BY <1>1 DEF IdleManagerInv
<1> QED
  BY <1>2, <1>3, <1>4 DEF NothingStranded

LEMMA StopReturnStep ==
  ASSUME IndInv, NEW w \in Workers, StopReturn(w)
  PROVE  IndInv'
<1> USE ServerAssumption
    DEF IndInv, TypeOK, StopReturn, Goto, StoreRest, fileVars
<1>1. TypeOK'
  BY FinishStep DEF StoreTypeOK, ServerPcs, ReadPcs
<1>2. LockInv'
  BY FinishStep DEF LockInv, InStart, InStop
<1> QED
  BY <1>1, <1>2 DEF IdleManagerInv, NothingStranded

-----------------------------------------------------------------------------
\* Where a live monitor could be forgotten: the manager is not ACTIVE and its
\* lock is free, so none of its monitors is alive.
LEMMA StartEnterStep ==
  ASSUME IndInv, NEW w \in Workers, StartEnter(w)
  PROVE  IndInv'
<1> USE ServerAssumption
    DEF IndInv, TypeOK, StartEnter, Goto, StoreRest, fileVars
<1>1. ref[w] \in Managers
  BY DEF LockInv
<1>2. CASE state[ref[w]] = "ACTIVE"
  <2>1. Finish(w) /\ UNCHANGED manVars
    BY <1>2
  <2>2. LockInv'
    BY <2>1, FinishStep DEF LockInv, InStart, InStop, manVars
  <2> QED
    BY <2>1, <2>2, FinishStep
    DEF StoreTypeOK, IdleManagerInv, NothingStranded, manVars
<1>3. CASE state[ref[w]] # "ACTIVE"
  <2>0. state[ref[w]] = "INACTIVE"
    BY <1>1, <1>3 DEF LockInv, ManagerStates
  <2>1. TypeOK'
    BY <1>1, <1>3 DEF StoreTypeOK, ServerPcs
  <2>2. LockInv'
    BY <1>1, <1>3, <2>0 DEF LockInv, InStart, InStop
  <2>3. (Broken = {} => IdleManagerInv)'
    BY <1>1, <1>3 DEF IdleManagerInv
  <2>4. NothingStranded'
    BY <1>1, <1>3 DEF NothingStranded, IdleManagerInv
  <2> QED
    BY <2>1, <2>2, <2>3, <2>4
<1> QED
  BY <1>2, <1>3

LEMMA StartSessionStep ==
  ASSUME IndInv, NEW w \in Workers, StartSession(w)
  PROVE  IndInv'
<1> USE ServerAssumption
    DEF IndInv, TypeOK, StartSession, StoreRest, fileVars
<1>1. ref[w] \in Managers /\ lock[ref[w]] = w
  BY DEF LockInv, InStart
<1>2. PICK s \in toStart[ref[w]] :
        IF s \in Broken
          THEN /\ lock' = [lock EXCEPT ![ref[w]] = NoWorker]
               /\ Finish(w)
               /\ UNCHANGED <<mons, live>>
          ELSE /\ mons' = [mons EXCEPT ![ref[w]] = @ \cup {s}]
               /\ live' = [live EXCEPT ![ref[w]] =
                             IF s \in Disabled THEN @ ELSE @ \cup {s}]
               /\ UNCHANGED <<lock, pc, req, ref>>
  OBVIOUS
<1>3. s \in Sessions /\ toStart' \in [Managers -> SUBSET Sessions]
  BY <1>1
<1>4. CASE s \in Broken
  <2>1. TypeOK'
    BY <1>1, <1>2, <1>3, <1>4, FinishStep DEF StoreTypeOK
  <2>2. LockInv'
    BY <1>1, <1>2, <1>4, FinishStep DEF LockInv, InStart, InStop
  <2> QED
    BY <1>4, <2>1, <2>2 DEF NothingStranded
<1>5. CASE s \notin Broken
  <2>1. TypeOK'
    BY <1>1, <1>2, <1>3, <1>5 DEF StoreTypeOK
  <2>2. LockInv'
    BY <1>1, <1>2, <1>5 DEF LockInv, InStart, InStop
  <2>3. (Broken = {} => IdleManagerInv)'
    BY <1>1, <1>2, <1>5 DEF IdleManagerInv
  <2> QED
    BY <2>1, <2>2, <2>3 DEF NothingStranded
<1> QED
  BY <1>4, <1>5

LEMMA StartDoneStep ==
  ASSUME IndInv, NEW w \in Workers, StartDone(w)
  PROVE  IndInv'
<1> USE ServerAssumption
    DEF IndInv, TypeOK, StartDone, StoreRest, fileVars
<1>1. ref[w] \in Managers /\ lock[ref[w]] = w
  BY DEF LockInv, InStart
<1>2. TypeOK'
  BY <1>1, FinishStep DEF StoreTypeOK, ManagerStates
<1>3. LockInv'
  BY <1>1, FinishStep DEF LockInv, InStart, InStop
<1>4. (Broken = {} => IdleManagerInv)'
  BY <1>1 DEF IdleManagerInv
<1> QED
  BY <1>2, <1>3, <1>4 DEF NothingStranded

LEMMA MonitorEndsStep ==
  ASSUME IndInv, NEW m \in Managers, NEW s \in Sessions, MonitorEnds(m, s)
  PROVE  IndInv'
<1> USE DEF IndInv, TypeOK, MonitorEnds, storeVars, fileVars
<1>1. TypeOK'
  BY DEF StoreTypeOK
<1>2. LockInv'
  BY DEF LockInv, InStart, InStop
<1> QED
  BY <1>1, <1>2 DEF IdleManagerInv, NothingStranded

LEMMA StutterStep ==
  ASSUME IndInv, UNCHANGED vars
  PROVE  IndInv'
  BY DEF vars, storeVars, fileVars, manVars, IndInv, TypeOK, StoreTypeOK,
         LockInv, InStart, InStop, IdleManagerInv, NothingStranded

-----------------------------------------------------------------------------
\* Every step of the specification preserves IndInv.
THEOREM NextIndInv == IndInv /\ [Next]_vars => IndInv'
<1> SUFFICES ASSUME IndInv, [Next]_vars PROVE IndInv'
  OBVIOUS
<1>1. ASSUME NEW w \in Workers, WorkerStep(w) PROVE IndInv'
  BY <1>1, ReadOrWriteStep, RequestStep, ReadManagerStep, MakeManagerStep,
     StopEnterStep, StopDoneStep, StopReturnStep, StartEnterStep,
     StartSessionStep, StartDoneStep
  DEF WorkerStep
<1>2. ASSUME NEW w \in Workers, NewRequest(w) PROVE IndInv'
  BY <1>2, StartServiceStep, RequestStep DEF NewRequest
<1> QED
  BY <1>1, <1>2, MonitorEndsStep, StutterStep DEF Next

THEOREM SpecIndInv == Spec => []IndInv
  BY InitIndInv, NextIndInv, PTL DEF Spec

\* The types of the variables, in every reachable state.
THEOREM SpecTypeOK == Spec => []TypeOK
<1>1. IndInv => TypeOK
  BY DEF IndInv
<1> QED
  BY <1>1, SpecIndInv, PTL

\* SshSessionManager.start() never forgets a live monitor, however many
\* requests call start(), stop() and restartService at the same time.
THEOREM SpecNothingStranded == Spec => []NothingStranded
<1>1. IndInv => NothingStranded
  BY DEF IndInv
<1> QED
  BY <1>1, SpecIndInv, PTL

\* A manager that is INACTIVE, and not locked, has no live monitor.
THEOREM SpecInactiveMeansEnded == Spec => []InactiveMeansEnded
<1>1. IndInv => InactiveMeansEnded
  BY DEF IndInv, IdleManagerInv, InactiveMeansEnded
<1> QED
  BY <1>1, SpecIndInv, PTL
-----------------------------------------------------------------------------
(* Requests that come one at a time: OneWriter, the assumption of all that    *)
(* follows.                                                                   *)

\* A thread that has stopped the old manager, and reads the configuration for a
\* new one; reading may write the default configuration.
Stopped(w) ==
  \/ pc[w] \in {"stopReturn", "isFile", "unmarshal", "loaded"}
  \/ pc[w] \in WritePcs \cup {"written"} /\ ver[w] = Default

\* Where `ref' is the manager of the static field.
CalledPcs == ManagerPcs \cup {"stopReturn"}

\* The old manager has ended when the field is given another one.
RestartInv ==
  /\ OnlyCurrentRuns
  /\ \A w \in Workers :
       /\ pc[w] \in CalledPcs => ref[w] = sshClientManager
       /\ Stopped(w) /\ sshClientManager # NoManager => live[sshClientManager] = {}

LEMMA InitRestart == Init => RestartInv
  BY DEF Init, StoreInit, RestartInv, OnlyCurrentRuns, CalledPcs, ManagerPcs, Stopped,
         WritePcs

\* Nothing of the managers changes, and the thread has stopped if it now counts
\* as stopped.
LEMMA RestartOutside ==
  ASSUME OneWriter, RestartInv, NEW w \in Workers, UNCHANGED manVars,
         pc'[w] \notin CalledPcs,
         Stopped(w)' => Stopped(w) \/ sshClientManager = NoManager
  PROVE  RestartInv'
  BY DEF OneWriter, RestartInv, OnlyCurrentRuns, manVars, CalledPcs

LEMMA RestartReadOrWrite ==
  ASSUME OneWriter, IndInv, RestartInv, NEW w \in Workers, ReadOrWrite(w)
  PROVE  RestartInv'
<1> USE DEF Goto, Stopped, WritePcs, CalledPcs, ManagerPcs
<1>1. pc \in [Workers -> ServerPcs] /\ ver \in [Workers -> Configs \cup {NoConfig}]
  BY DEF IndInv, TypeOK, StoreTypeOK
<1>2. (Stopped(w)' => Stopped(w)) /\ pc'[w] \notin CalledPcs
  <2>1. CASE OpenTmp(w)
    BY <1>1, <2>1 DEF OpenTmp
  <2>2. CASE MarshalHead(w)
    BY <1>1, <2>2 DEF MarshalHead
  <2>3. CASE MarshalTail(w)
    BY <1>1, <2>3 DEF MarshalTail
  <2>4. CASE TestExists(w) \/ DeleteOld(w) \/ Rename(w)
    BY <1>1, <2>4 DEF TestExists, DeleteOld, Rename
  <2>5. CASE TestIsFile(w) \/ Unmarshal(w)
    BY <1>1, <2>5 DEF TestIsFile, Unmarshal
  <2>6. CASE Written(w, "restart")
    BY <1>1, <2>6 DEF Written
  <2> QED
    BY <2>1, <2>2, <2>3, <2>4, <2>5, <2>6 DEF ReadOrWrite, StoreStep
<1> HIDE DEF Stopped, CalledPcs
<1> QED
  BY <1>2, RestartOutside DEF ReadOrWrite

LEMMA RestartRequest ==
  ASSUME OneWriter, IndInv, RestartInv, NEW w \in Workers,
         NewRequest(w) \/ TestManager(w)
  PROVE  RestartInv'
<1> USE StoreAssumption DEF Goto, Stopped, WritePcs, CalledPcs, ManagerPcs
<1>1. pc \in [Workers -> ServerPcs] /\ ver \in [Workers -> Configs \cup {NoConfig}]
  BY DEF IndInv, TypeOK, StoreTypeOK
<1>2. UNCHANGED manVars /\ pc'[w] \notin CalledPcs
      /\ (Stopped(w)' => sshClientManager = NoManager)
  <2>1. CASE Start(w)
    BY <1>1, <2>1 DEF Start
  <2>2. CASE Save(w)
    BY <1>1, <2>2 DEF Save, BeginSave
  <2>3. ASSUME NEW r \in RequestKinds, Call(w, r)
        PROVE  UNCHANGED manVars /\ pc'[w] \in {"startRef", "stopRef", "idle"}
    BY <1>1, <2>3 DEF Call, RequestKinds
  <2>4. CASE TestManager(w)
    BY <1>1, <2>4 DEF TestManager
  <2> QED
    BY <2>1, <2>2, <2>3, <2>4 DEF NewRequest
<1> HIDE DEF Stopped, CalledPcs
<1> QED
  BY <1>2, RestartOutside

LEMMA RestartReadManager ==
  ASSUME OneWriter, IndInv, RestartInv, NEW w \in Workers,
         ReadManager(w, "stopRef", "stopEnter") \/ ReadManager(w, "startRef", "startEnter")
  PROVE  RestartInv'
<1>1. UNCHANGED manVars /\ (ref'[w] = sshClientManager \/ pc'[w] = "idle")
  BY FinishStep DEF ReadManager, IndInv, TypeOK
<1> QED
  BY FinishStep
  DEF ReadManager, Goto, IndInv, TypeOK, OneWriter, RestartInv, OnlyCurrentRuns, manVars,
      Stopped, WritePcs, CalledPcs, ManagerPcs

\* A manager that has not been made yet has no live monitor, and the old one
\* has none any more.
LEMMA RestartMakeManager ==
  ASSUME OneWriter, IndInv, RestartInv, NEW w \in Workers, MakeManager(w)
  PROVE  RestartInv'
<1>1. /\ \A m \in Managers : live[m] = {}
      /\ pc'[w] \in {"idle", "startRef"}
      /\ live' = live
  <2>1. pc[w] = "loaded"
    BY DEF MakeManager
  <2>2. \A m \in Managers : live[m] = {}
    BY <2>1, ServerAssumption DEF RestartInv, OnlyCurrentRuns, Stopped
  <2>3. pc'[w] \in {"idle", "startRef"}
    BY FinishStep DEF MakeManager, Goto, IndInv, TypeOK
  <2> QED
    BY <2>2, <2>3 DEF MakeManager
<1>2. ~Stopped(w)' /\ pc'[w] \notin CalledPcs
  BY <1>1 DEF Stopped, WritePcs, CalledPcs, ManagerPcs
<1> QED
  BY <1>1, <1>2 DEF OneWriter, RestartInv, OnlyCurrentRuns

LEMMA RestartStop ==
  ASSUME OneWriter, Broken = {}, IndInv, RestartInv, NEW w \in Workers,
         StopEnter(w) \/ StopDone(w)
  PROVE  RestartInv'
<1> USE ServerAssumption DEF IndInv, TypeOK, OneWriter
<1>1. pc[w] \in CalledPcs /\ ref[w] = sshClientManager /\ ref[w] \in Managers
  BY DEF StopEnter, StopDone, CalledPcs, ManagerPcs, RestartInv, LockInv
<1>2. ref' = ref /\ live' = live /\ sshClientManager' = sshClientManager
  BY DEF StopEnter, StopDone
<1>3. pc'[w] = "stopPoll" \/ (pc'[w] = "stopReturn" /\ live[ref[w]] = {})
  BY <1>1 DEF StopEnter, StopDone, Goto, IdleManagerInv
<1>4. Stopped(w)' => live[sshClientManager] = {}
  BY <1>1, <1>3 DEF Stopped, WritePcs
<1> QED
  BY <1>1, <1>2, <1>4 DEF RestartInv, OnlyCurrentRuns

LEMMA RestartStopReturn ==
  ASSUME OneWriter, IndInv, RestartInv, NEW w \in Workers, StopReturn(w)
  PROVE  RestartInv'
<1> USE DEF OneWriter
<1>1. \A m \in Managers : live[m] = {}
  <2>1. pc[w] = "stopReturn"
    BY DEF StopReturn
  <2> QED
    BY <2>1, ServerAssumption DEF RestartInv, OnlyCurrentRuns, Stopped
<1>2. live' = live /\ pc'[w] \in {"isFile", "idle"}
  BY FinishStep DEF StopReturn, Goto, IndInv, TypeOK
<1>3. sshClientManager' = NoManager \/ sshClientManager' \in Managers
  BY DEF StopReturn, IndInv, TypeOK
<1> QED
  BY <1>1, <1>2, <1>3
  DEF RestartInv, OnlyCurrentRuns, CalledPcs, ManagerPcs

LEMMA RestartStart ==
  ASSUME OneWriter, IndInv, RestartInv, NEW w \in Workers,
         StartEnter(w) \/ StartSession(w) \/ StartDone(w)
  PROVE  RestartInv'
<1> USE DEF IndInv, TypeOK, OneWriter
<1>1. ref[w] = sshClientManager /\ ref[w] \in Managers
  BY DEF StartEnter, StartSession, StartDone, CalledPcs, ManagerPcs, RestartInv, LockInv
<1>2. /\ \A m \in Managers \ {ref[w]} : live'[m] = live[m]
      /\ sshClientManager' = sshClientManager
  <2>1. CASE StartEnter(w)
    BY <1>1, <2>1 DEF StartEnter, manVars
  <2>2. CASE StartSession(w)
    BY <1>1, <2>2 DEF StartSession
  <2>3. CASE StartDone(w)
    BY <2>3 DEF StartDone
  <2> QED
    BY <2>1, <2>2, <2>3
<1>3. pc'[w] = "idle" \/ (pc'[w] = "startLoop" /\ ref' = ref)
  BY FinishStep DEF StartEnter, StartSession, StartDone, Goto
<1>4. ~Stopped(w)'
  BY <1>3 DEF Stopped, WritePcs
<1> QED
  BY <1>1, <1>2, <1>3, <1>4 DEF RestartInv, OnlyCurrentRuns, CalledPcs, ManagerPcs

LEMMA RestartMonitorEnds ==
  ASSUME IndInv, RestartInv, NEW m \in Managers, NEW s \in Sessions, MonitorEnds(m, s)
  PROVE  RestartInv'
<1>1. \A n \in Managers : live'[n] \subseteq live[n]
  BY DEF MonitorEnds, IndInv, TypeOK
<1>2. UNCHANGED <<pc, ver, sshClientManager, ref>>
  BY DEF MonitorEnds, storeVars
<1>3. sshClientManager \in Managers \cup {NoManager}
  BY DEF IndInv, TypeOK
<1> QED
  BY <1>1, <1>2, <1>3 DEF RestartInv, OnlyCurrentRuns, Stopped

LEMMA NextRestart ==
  ASSUME OneWriter, Broken = {}
  PROVE  IndInv /\ RestartInv /\ [Next]_vars => RestartInv'
<1> SUFFICES ASSUME IndInv, RestartInv, [Next]_vars PROVE RestartInv'
  OBVIOUS
<1>1. ASSUME NEW w \in Workers, WorkerStep(w) PROVE RestartInv'
  BY <1>1, RestartReadOrWrite, RestartRequest, RestartReadManager, RestartMakeManager,
     RestartStop, RestartStopReturn, RestartStart
  DEF WorkerStep
<1>2. ASSUME NEW w \in Workers, NewRequest(w) PROVE RestartInv'
  BY <1>2, RestartRequest
<1>3. CASE UNCHANGED vars
  BY <1>3 DEF vars, storeVars, manVars, RestartInv, OnlyCurrentRuns, Stopped
<1> QED
  BY <1>1, <1>2, <1>3, RestartMonitorEnds DEF Next

\* With one request at a time no monitor of an earlier configuration runs, in
\* any state (DrillServer.restartService, "stop the service").
THEOREM SpecOnlyCurrentRuns ==
  ASSUME OneWriter, Broken = {}
  PROVE  Spec => []OnlyCurrentRuns
<1>1. Init => IndInv /\ RestartInv
  BY InitIndInv, InitRestart
<1>2. (IndInv /\ RestartInv) /\ [Next]_vars => (IndInv /\ RestartInv)'
  BY NextIndInv, NextRestart
<1>3. RestartInv => OnlyCurrentRuns
  BY DEF RestartInv
<1> QED
  BY <1>1, <1>2, <1>3, PTL DEF Spec
-----------------------------------------------------------------------------
(* The files, when neither the rename fails nor the process dies.             *)

SavePcs == WritePcs \cup {"written"}

\* config.xml is missing between the delete and the rename only, so that nobody
\* writes the default configuration, and what is written was saved by a user.
FileInv ==
  /\ WriterInv
  /\ ConfigFileComplete
  /\ configXml = NoInode => \E w \in Workers : pc[w] = "rename"
  /\ \A w \in Workers : pc[w] \in SavePcs => ver[w] \in Versions
  /\ configuration \in Versions /\ configXml # NoInode =>
       content[configXml].of \in Versions

LEMMA KindsDiffer ==
  /\ Empty.kind = "empty" /\ Torn.kind = "torn"
  /\ \A c : /\ Half(c).kind = "half"
            /\ Full(c).kind = "full" /\ Full(c).of = c
  BY DEF Empty, Torn, Half, Full

LEMMA InitFile == Init => FileInv
<1> SUFFICES ASSUME Init PROVE FileInv
  OBVIOUS
<1>1. configuration \notin Versions /\ configXml # NoInode /\ tmpXml = NoInode
      /\ content[configXml].kind = "full"
  BY StoreAssumption, KindsDiffer DEF Init, StoreInit, Configs
<1>2. \A w \in Workers : pc[w] = "down"
  BY DEF Init
<1> QED
  BY <1>1, <1>2 DEF FileInv, WriterInv, ConfigFileComplete, SavePcs, WritePcs

LEMMA FileReadOrWrite ==
  ASSUME OneWriter, "rename" \notin DiskFaults, IndInv, FileInv, NEW w \in Workers,
         ReadOrWrite(w)
  PROVE  FileInv' /\ NeverBackToDefault
<1> USE StoreAssumption, KindsDiffer
    DEF OneWriter, IndInv, TypeOK, StoreTypeOK, FileInv, WriterInv, ConfigFileComplete,
        NeverBackToDefault, Goto, fileVars, SavePcs, WritePcs
<1>1. CASE OpenTmp(w)
  BY <1>1 DEF OpenTmp, InUse
<1>2. CASE MarshalHead(w)
  BY <1>2 DEF MarshalHead
<1>3. CASE MarshalTail(w)
  BY <1>3 DEF MarshalTail
<1>4. CASE TestExists(w)
  BY <1>4 DEF TestExists
<1>5. CASE DeleteOld(w)
  BY <1>5 DEF DeleteOld
<1>6. CASE Rename(w)
  BY <1>6 DEF Rename
<1>7. CASE TestIsFile(w)
  BY <1>7 DEF TestIsFile
<1>8. CASE Unmarshal(w)
  BY <1>8 DEF Unmarshal
<1>9. CASE Written(w, "restart")
  BY <1>9 DEF Written
<1> QED
  BY <1>1, <1>2, <1>3, <1>4, <1>5, <1>6, <1>7, <1>8, <1>9 DEF ReadOrWrite, StoreStep

\* A thread that neither was writing nor begins to.
LEMMA FileRest ==
  ASSUME OneWriter, FileInv, NEW w \in Workers, UNCHANGED StoreRest,
         pc[w] \notin WritePcs, pc'[w] \notin SavePcs
  PROVE  FileInv' /\ NeverBackToDefault
  BY StoreAssumption
  DEF OneWriter, FileInv, WriterInv, ConfigFileComplete, NeverBackToDefault, StoreRest,
      fileVars, SavePcs, WritePcs, Configs

LEMMA FileWorkerStep ==
  ASSUME OneWriter, IndInv, FileInv, NEW w \in Workers,
         WorkerStep(w) \/ NewRequest(w), ~ReadOrWrite(w), ~Save(w)
  PROVE  FileInv' /\ NeverBackToDefault
<1> USE DEF Goto, SavePcs, WritePcs
<1>1. UNCHANGED StoreRest
  BY DEF WorkerStep, NewRequest, Start, Call, TestManager, ReadManager, MakeManager,
         StopEnter, StopDone, StopReturn, StartEnter, StartSession, StartDone
<1>2. pc \in [Workers -> ServerPcs] /\ TypeOK
  BY DEF IndInv, TypeOK
<1>3. pc[w] \notin WritePcs /\ pc'[w] \notin SavePcs
  <2>1. CASE Start(w)
    BY <1>2, <2>1 DEF Start, Down
  <2>2. ASSUME NEW r \in RequestKinds, Call(w, r) PROVE pc[w] \notin WritePcs /\ pc'[w] \notin SavePcs
    BY <1>2, <2>2 DEF Call, RequestKinds
  <2>3. CASE TestManager(w)
    BY <1>2, <2>3 DEF TestManager
  <2>4. CASE \/ ReadManager(w, "stopRef", "stopEnter")
             \/ ReadManager(w, "startRef", "startEnter")
    BY <1>2, <2>4, FinishStep DEF ReadManager
  <2>5. CASE MakeManager(w)
    BY <1>2, <2>5, FinishStep DEF MakeManager
  <2>6. CASE StopEnter(w) \/ StopDone(w) \/ StopReturn(w)
    BY <1>2, <2>6, FinishStep DEF StopEnter, StopDone, StopReturn
  <2>7. CASE StartEnter(w) \/ StartSession(w) \/ StartDone(w)
    BY <1>2, <2>7, FinishStep DEF StartEnter, StartSession, StartDone
  <2> QED
    BY <2>1, <2>2, <2>3, <2>4, <2>5, <2>6, <2>7 DEF WorkerStep, NewRequest
<1> QED
  BY <1>1, <1>3, FileRest

LEMMA FileSave ==
  ASSUME OneWriter, IndInv, FileInv, NEW w \in Workers, Save(w)
  PROVE  FileInv' /\ NeverBackToDefault
  BY StoreAssumption
  DEF Save, BeginSave, Goto, OneWriter, IndInv, TypeOK, StoreTypeOK, FileInv, WriterInv,
      ConfigFileComplete, NeverBackToDefault, fileVars, SavePcs, WritePcs, Configs

LEMMA NextFile ==
  ASSUME OneWriter, "rename" \notin DiskFaults, IndInv, FileInv, [Next]_vars
  PROVE  FileInv' /\ [NeverBackToDefault]_storeVars
<1>1. ASSUME NEW w \in Workers, WorkerStep(w) \/ NewRequest(w)
      PROVE  FileInv' /\ NeverBackToDefault
  BY <1>1, FileReadOrWrite, FileWorkerStep, FileSave
<1>2. ASSUME UNCHANGED storeVars PROVE FileInv'
  BY <1>2 DEF storeVars, fileVars, FileInv, WriterInv, ConfigFileComplete, Empty, Half, Full
<1>3. ASSUME NEW m \in Managers, NEW s \in Sessions, MonitorEnds(m, s)
      PROVE  UNCHANGED storeVars
  BY <1>3 DEF MonitorEnds
<1>4. CASE UNCHANGED vars
  BY <1>2, <1>4 DEF vars
<1> QED
  BY <1>1, <1>2, <1>3, <1>4 DEF Next

LEMMA SpecFileInv ==
  ASSUME OneWriter, "rename" \notin DiskFaults
  PROVE  Spec => [](IndInv /\ FileInv)
<1>1. Init => IndInv /\ FileInv
  BY InitIndInv, InitFile
<1>2. (IndInv /\ FileInv) /\ [Next]_vars => (IndInv /\ FileInv)'
  BY NextIndInv, NextFile
<1> QED
  BY <1>1, <1>2, PTL DEF Spec

\* A complete configuration is on disk in every state, as long as requests come
\* one at a time and the rename does not fail (DrillServer.writeConfiguration).
THEOREM SpecDiskHoldsConfig ==
  ASSUME OneWriter, "rename" \notin DiskFaults
  PROVE  Spec => []DiskHoldsConfig
<1>1. FileInv => DiskHoldsConfig
  BY KindsDiffer DEF FileInv, WriterInv, ConfigFileComplete, DiskHoldsConfig
<1> QED
  BY <1>1, SpecFileInv, PTL

\* ... and the server does not go back from what a user saved to the default
\* configuration (DrillServer.readConfiguration).
THEOREM SpecNeverBackToDefault ==
  ASSUME OneWriter, "rename" \notin DiskFaults
  PROVE  Spec => NeverBackToDefaultProp
<1>1. IndInv /\ FileInv /\ [Next]_vars => [NeverBackToDefault]_storeVars
  BY NextFile
<1> QED
  BY <1>1, SpecFileInv, PTL DEF Spec, NeverBackToDefaultProp
==============================================================================
