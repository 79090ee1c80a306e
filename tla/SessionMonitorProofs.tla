------------------------- MODULE SessionMonitorProofs -------------------------
(***************************************************************************)
(* Proofs about SessionMonitor, for every set of forwards and of clients,  *)
(* every assignment of ports and every set of faults.                      *)
(*                                                                         *)
(* IndInv is shown to hold initially (InitIndInv) and to be preserved by   *)
(* every step, one lemma per action: first the actions that move only the  *)
(* monitor's program counter, then those that make or close a client, then *)
(* those of the forwarders' own threads.  The safety properties follow.    *)
(***************************************************************************)
EXTENDS SessionMonitor, TLAPS

\* The constructor of the monitor starts in a state that satisfies IndInv.
THEOREM InitIndInv == Init => IndInv
<1> SUFFICES ASSUME Init PROVE IndInv
  OBVIOUS
<1> USE ForwarderAssumption, MonitorAssumption DEF Init, ForwarderInit
<1>1. TypeOK
  BY DEF TypeOK, ForwarderTypeOK, SshStates, ThreadStates, ChanStates,
         SocketStates, ListenerStates, Phases, Steps
<1>2. ControlInv
  BY DEF ControlInv
<1>3. MapInv
  BY DEF MapInv
<1>4. TransportInv
  BY DEF TransportInv, ForwarderAssumption, Forwards, Listening
<1>5. NoOrphanListener
  BY DEF NoOrphanListener
<1>6. ShutdownInv
  BY DEF ShutdownInv
<1> QED
  BY <1>1, <1>2, <1>3, <1>4, <1>5, <1>6 DEF IndInv

-----------------------------------------------------------------------------
\* Steps that leave the forwarders and the map alone.
LEMMA Frame ==
  ASSUME IndInv, UNCHANGED <<fwdVars, portForwarders>>
  PROVE  MapInv' /\ TransportInv' /\ NoOrphanListener' /\ ForwarderTypeOK'
  BY DEF IndInv, fwdVars, TypeOK, MapInv, TransportInv, NoOrphanListener,
         ForwarderTypeOK

\* The constructor takes the next forward.
LEMMA ConstructVisitStep ==
  ASSUME IndInv, NEW f \in Forwards, ConstructVisit(f)
  PROVE  IndInv'
<1> USE ForwarderAssumption, MonitorAssumption DEF ConstructVisit, Visit, Skip
<1>1. MapInv' /\ TransportInv' /\ NoOrphanListener' /\ ForwarderTypeOK'
  BY Frame
<1>2. TypeOK'
  BY <1>1 DEF IndInv, TypeOK, Steps, Phases
<1>3. ControlInv' /\ ShutdownInv'
  BY <1>1 DEF IndInv, TypeOK, ControlInv, ShutdownInv, TransportInv, MapInv,
              Mapped, fwdVars, Forwards, Listening
<1> QED
  BY <1>1, <1>2, <1>3 DEF IndInv

\* A retry pass takes the next forward.
LEMMA RetryVisitStep ==
  ASSUME IndInv, NEW f \in Forwards, RetryVisit(f)
  PROVE  IndInv'
<1> USE ForwarderAssumption, MonitorAssumption DEF RetryVisit, Visit, Skip
<1>1. MapInv' /\ TransportInv' /\ NoOrphanListener' /\ ForwarderTypeOK'
  BY Frame
<1>2. TypeOK'
  BY <1>1 DEF IndInv, TypeOK, Steps, Phases
<1>3. ControlInv' /\ ShutdownInv'
  BY <1>1 DEF IndInv, TypeOK, ControlInv, ShutdownInv, TransportInv, MapInv,
              Mapped, fwdVars, Forwards, Listening
<1> QED
  BY <1>1, <1>2, <1>3 DEF IndInv

\* The second half of isActive() in a retry pass.
LEMMA RetryDerefStep ==
  ASSUME IndInv, RetryDeref
  PROVE  IndInv'
<1> USE ForwarderAssumption, MonitorAssumption DEF RetryDeref, Crash, NextForward, GoTo
<1>1. MapInv' /\ TransportInv' /\ NoOrphanListener' /\ ForwarderTypeOK'
  BY Frame
<1>2. TypeOK'
  BY <1>1 DEF IndInv, TypeOK, Steps, Phases
<1>3. ControlInv' /\ ShutdownInv'
  BY <1>1 DEF IndInv, TypeOK, ControlInv, ShutdownInv, TransportInv, MapInv,
              Mapped, fwdVars, Forwards, Listening
<1> QED
  BY <1>1, <1>2, <1>3 DEF IndInv

\* A connection attempt fails.
LEMMA ConnectFailsStep ==
  ASSUME IndInv, ConnectFails
  PROVE  IndInv'
<1> USE ForwarderAssumption, MonitorAssumption DEF ConnectFails, NextForward
<1>1. MapInv' /\ TransportInv' /\ NoOrphanListener' /\ ForwarderTypeOK'
  BY Frame
<1>2. TypeOK'
  BY <1>1 DEF IndInv, TypeOK, Steps, Phases
<1>3. ControlInv' /\ ShutdownInv'
  BY <1>1 DEF IndInv, TypeOK, ControlInv, ShutdownInv, TransportInv, MapInv,
              Mapped, fwdVars, Forwards, Listening
<1> QED
  BY <1>1, <1>2, <1>3 DEF IndInv

\* A connection attempt swallows an interrupt.
LEMMA ConnectInterruptedStep ==
  ASSUME IndInv, ConnectInterrupted
  PROVE  IndInv'
<1> USE ForwarderAssumption, MonitorAssumption DEF ConnectInterrupted, NextForward
<1>1. MapInv' /\ TransportInv' /\ NoOrphanListener' /\ ForwarderTypeOK'
  BY Frame
<1>2. TypeOK'
  BY <1>1 DEF IndInv, TypeOK, Steps, Phases
<1>3. ControlInv' /\ ShutdownInv'
  BY <1>1 DEF IndInv, TypeOK, ControlInv, ShutdownInv, TransportInv, MapInv,
              Mapped, fwdVars, Forwards, Listening
<1> QED
  BY <1>1, <1>2, <1>3 DEF IndInv

\* The port of a new forwarder is taken.
LEMMA BuildFailsStep ==
  ASSUME IndInv, BuildFails
  PROVE  IndInv'
<1> USE ForwarderAssumption, MonitorAssumption DEF BuildFails, NextForward
<1>1. MapInv' /\ TransportInv' /\ NoOrphanListener' /\ ForwarderTypeOK'
  BY Frame
<1>2. TypeOK'
  BY <1>1 DEF IndInv, TypeOK, Steps, Phases
<1>3. ControlInv' /\ ShutdownInv'
  BY <1>1 DEF IndInv, TypeOK, ControlInv, ShutdownInv, TransportInv, MapInv,
              Mapped, fwdVars, Forwards, Listening
<1> QED
  BY <1>1, <1>2, <1>3 DEF IndInv

\* The constructor returns.
LEMMA ConstructDoneStep ==
  ASSUME IndInv, ConstructDone
  PROVE  IndInv'
<1> USE ForwarderAssumption, MonitorAssumption DEF ConstructDone
<1>1. MapInv' /\ TransportInv' /\ NoOrphanListener' /\ ForwarderTypeOK'
  BY Frame
<1>2. TypeOK'
  BY <1>1 DEF IndInv, TypeOK, Steps, Phases
<1>3. ControlInv' /\ ShutdownInv'
  BY <1>1 DEF IndInv, TypeOK, ControlInv, ShutdownInv, TransportInv, MapInv,
              Mapped, fwdVars, Forwards, Listening
<1> QED
  BY <1>1, <1>2, <1>3 DEF IndInv

\* The monitor thread starts.
LEMMA StartThreadStep ==
  ASSUME IndInv, StartThread
  PROVE  IndInv'
<1> USE ForwarderAssumption, MonitorAssumption DEF StartThread
<1>1. MapInv' /\ TransportInv' /\ NoOrphanListener' /\ ForwarderTypeOK'
  BY Frame
<1>2. TypeOK'
  BY <1>1 DEF IndInv, TypeOK, Steps, Phases
<1>3. ControlInv' /\ ShutdownInv'
  BY <1>1 DEF IndInv, TypeOK, ControlInv, ShutdownInv, TransportInv, MapInv,
              Mapped, fwdVars, Forwards, Listening
<1> QED
  BY <1>1, <1>2, <1>3 DEF IndInv

\* The monitor thread wakes up.
LEMMA WakeStep ==
  ASSUME IndInv, Wake
  PROVE  IndInv'
<1> USE ForwarderAssumption, MonitorAssumption DEF Wake
<1>1. MapInv' /\ TransportInv' /\ NoOrphanListener' /\ ForwarderTypeOK'
  BY Frame
<1>2. TypeOK'
  BY <1>1 DEF IndInv, TypeOK, Steps, Phases
<1>3. ControlInv' /\ ShutdownInv'
  BY <1>1 DEF IndInv, TypeOK, ControlInv, ShutdownInv, TransportInv, MapInv,
              Mapped, fwdVars, Forwards, Listening
<1> QED
  BY <1>1, <1>2, <1>3 DEF IndInv

\* The sleep is interrupted.
LEMMA SleepInterruptedStep ==
  ASSUME IndInv, SleepInterrupted
  PROVE  IndInv'
<1> USE ForwarderAssumption, MonitorAssumption DEF SleepInterrupted, BeginShutdown
<1>1. MapInv' /\ TransportInv' /\ NoOrphanListener' /\ ForwarderTypeOK'
  BY Frame
<1>2. TypeOK'
  BY <1>1 DEF IndInv, TypeOK, Steps, Phases
<1>3. ControlInv' /\ ShutdownInv'
  BY <1>1 DEF IndInv, TypeOK, ControlInv, ShutdownInv, TransportInv, MapInv,
              Mapped, fwdVars, Forwards, Listening
<1> QED
  BY <1>1, <1>2, <1>3 DEF IndInv

\* A retry pass ends.
LEMMA RetryDoneStep ==
  ASSUME IndInv, RetryDone
  PROVE  IndInv'
<1> USE ForwarderAssumption, MonitorAssumption DEF RetryDone, BeginShutdown
<1>1. MapInv' /\ TransportInv' /\ NoOrphanListener' /\ ForwarderTypeOK'
  BY Frame
<1>2. TypeOK'
  BY <1>1 DEF IndInv, TypeOK, Steps, Phases
<1>3. ControlInv' /\ ShutdownInv'
  BY <1>1 DEF IndInv, TypeOK, ControlInv, ShutdownInv, TransportInv, MapInv,
              Mapped, fwdVars, Forwards, Listening
<1> QED
  BY <1>1, <1>2, <1>3 DEF IndInv

\* stop() interrupts the thread.
LEMMA InterruptStep ==
  ASSUME IndInv, Interrupt
  PROVE  IndInv'
<1> USE ForwarderAssumption, MonitorAssumption DEF Interrupt
<1>1. MapInv' /\ TransportInv' /\ NoOrphanListener' /\ ForwarderTypeOK'
  BY Frame
<1>2. TypeOK'
  BY <1>1 DEF IndInv, TypeOK, Steps, Phases
<1>3. ControlInv' /\ ShutdownInv'
  BY <1>1 DEF IndInv, TypeOK, ControlInv, ShutdownInv, TransportInv, MapInv,
              Mapped, fwdVars, Forwards, Listening
<1> QED
  BY <1>1, <1>2, <1>3 DEF IndInv

\* The second half of isActive() in close().
LEMMA CloseDerefStep ==
  ASSUME IndInv, CloseDeref
  PROVE  IndInv'
<1> USE ForwarderAssumption, MonitorAssumption DEF CloseDeref, Crash, NextForward, GoTo
<1>1. MapInv' /\ TransportInv' /\ NoOrphanListener' /\ ForwarderTypeOK'
  BY Frame
<1>2. TypeOK'
  BY <1>1 DEF IndInv, TypeOK, Steps, Phases
<1>3. ControlInv' /\ ShutdownInv'
  BY <1>1 DEF IndInv, TypeOK, ControlInv, ShutdownInv, TransportInv, MapInv,
              Mapped, fwdVars, Forwards, Listening
<1> QED
  BY <1>1, <1>2, <1>3 DEF IndInv

\* A client connects.
LEMMA ConnectOkStep ==
  ASSUME IndInv, NEW t \in Tunnels, ConnectOk(t)
  PROVE  IndInv'
<1> USE ForwarderAssumption, MonitorAssumption
    DEF ConnectOk, Free, Inert, NewClient
<1>1. TypeOK'
  BY DEF IndInv, TypeOK, ForwarderTypeOK, ControlInv, Steps, Phases, SshStates,
         ThreadStates, ChanStates, SocketStates, ListenerStates, Forwards,
         Listening
<1>2. ControlInv'
  BY DEF IndInv, TypeOK, ForwarderTypeOK, ControlInv, Mapped
<1>3. MapInv'
  BY DEF IndInv, TypeOK, ForwarderTypeOK, ControlInv, MapInv, Mapped
<1>4. TransportInv'
  BY DEF IndInv, TypeOK, ForwarderTypeOK, ControlInv, TransportInv, Forwards,
         Listening
<1>5. NoOrphanListener'
  BY <1>4 DEF IndInv, TypeOK, ForwarderTypeOK, ControlInv, TransportInv, MapInv,
              NoOrphanListener, Mapped, Forwards, Listening
<1>6. ShutdownInv'
  BY DEF IndInv, TypeOK, ForwarderTypeOK, ControlInv, ShutdownInv, MapInv,
         Mapped, Forwards, Listening
<1> QED
  BY <1>1, <1>2, <1>3, <1>4, <1>5, <1>6 DEF IndInv

\* A client connects, and the server refuses the password.
LEMMA AuthFailsStep ==
  ASSUME IndInv, NEW t \in Tunnels, AuthFails(t)
  PROVE  IndInv'
<1> USE ForwarderAssumption, MonitorAssumption
    DEF AuthFails, Free, Inert, NewClient, NextForward
<1>1. TypeOK'
  BY DEF IndInv, TypeOK, ForwarderTypeOK, ControlInv, Steps, Phases, SshStates,
         ThreadStates, ChanStates, SocketStates, ListenerStates, Forwards,
         Listening
<1>2. ControlInv'
  BY DEF IndInv, TypeOK, ForwarderTypeOK, ControlInv, Mapped
<1>3. MapInv'
  BY DEF IndInv, TypeOK, ForwarderTypeOK, ControlInv, MapInv, Mapped
<1>4. TransportInv'
  BY DEF IndInv, TypeOK, ForwarderTypeOK, ControlInv, TransportInv, Forwards,
         Listening
<1>5. NoOrphanListener'
  BY <1>4 DEF IndInv, TypeOK, ForwarderTypeOK, ControlInv, TransportInv, MapInv,
              NoOrphanListener, Mapped, Forwards, Listening
<1>6. ShutdownInv'
  BY DEF IndInv, TypeOK, ForwarderTypeOK, ControlInv, ShutdownInv, MapInv,
         Mapped, Forwards, Listening
<1> QED
  BY <1>1, <1>2, <1>3, <1>4, <1>5, <1>6 DEF IndInv

\* The account of a forward is unusable.
LEMMA AccountThrowsStep ==
  ASSUME IndInv, AccountThrows
  PROVE  IndInv'
<1> USE ForwarderAssumption, MonitorAssumption
    DEF AccountThrows, Free, Inert, NewClient, Crash, fwdVars
<1>1. TypeOK'
  BY DEF IndInv, TypeOK, ForwarderTypeOK, ControlInv, Steps, Phases, SshStates,
         ThreadStates, ChanStates, SocketStates, ListenerStates, Forwards,
         Listening
<1>2. ControlInv'
  BY DEF IndInv, TypeOK, ForwarderTypeOK, ControlInv, Mapped
<1>3. MapInv'
  BY DEF IndInv, TypeOK, ForwarderTypeOK, ControlInv, MapInv, Mapped
<1>4. TransportInv'
  BY DEF IndInv, TypeOK, ForwarderTypeOK, ControlInv, TransportInv, Forwards,
         Listening
<1>5. NoOrphanListener'
  BY <1>4 DEF IndInv, TypeOK, ForwarderTypeOK, ControlInv, TransportInv, MapInv,
              NoOrphanListener, Mapped, Forwards, Listening
<1>6. ShutdownInv'
  BY DEF IndInv, TypeOK, ForwarderTypeOK, ControlInv, ShutdownInv, MapInv,
         Mapped, Forwards, Listening
<1> QED
  BY <1>1, <1>2, <1>3, <1>4, <1>5, <1>6 DEF IndInv

\* A forwarder is made, put into the map and started.
LEMMA BuildStep ==
  ASSUME IndInv, Build
  PROVE  IndInv'
<1> USE ForwarderAssumption, MonitorAssumption
    DEF Build, NextForward, NewListeningForwarder, NewRemoteForwarder, PortTaken
<1>1. TypeOK'
  BY DEF IndInv, TypeOK, ForwarderTypeOK, ControlInv, Steps, Phases, SshStates,
         ThreadStates, ChanStates, SocketStates, ListenerStates, Forwards,
         Listening
<1>2. ControlInv'
  BY DEF IndInv, TypeOK, ForwarderTypeOK, ControlInv, Mapped
<1>3. MapInv'
  BY DEF IndInv, TypeOK, ForwarderTypeOK, ControlInv, MapInv, Mapped
<1>4. TransportInv'
  BY DEF IndInv, TypeOK, ForwarderTypeOK, ControlInv, TransportInv, Forwards,
         Listening
<1>5. NoOrphanListener'
  BY <1>4 DEF IndInv, TypeOK, ForwarderTypeOK, ControlInv, TransportInv, MapInv,
              NoOrphanListener, Mapped, Forwards, Listening
<1>6. ShutdownInv'
  BY DEF IndInv, TypeOK, ForwarderTypeOK, ControlInv, ShutdownInv, MapInv,
         Mapped, Forwards, Listening
<1> QED
  BY <1>1, <1>2, <1>3, <1>4, <1>5, <1>6 DEF IndInv

\* The shutdown takes the next forwarder.
LEMMA CloseVisitStep ==
  ASSUME IndInv, NEW f \in Forwards, CloseVisit(f)
  PROVE  IndInv'
<1> USE ForwarderAssumption, MonitorAssumption
    DEF CloseVisit, Visit, Skip, IsRemote, fwdVars
<1>1. TypeOK'
  BY DEF IndInv, TypeOK, ForwarderTypeOK, ControlInv, Steps, Phases, SshStates,
         ThreadStates, ChanStates, SocketStates, ListenerStates, Forwards,
         Listening
<1>2. ControlInv'
  BY DEF IndInv, TypeOK, ForwarderTypeOK, ControlInv, Mapped, MapInv
<1>3. MapInv'
  BY DEF IndInv, TypeOK, ForwarderTypeOK, ControlInv, MapInv, Mapped
<1>4. TransportInv'
  BY DEF IndInv, TypeOK, ForwarderTypeOK, ControlInv, TransportInv, Forwards,
         Listening
<1>5. NoOrphanListener'
  BY <1>4 DEF IndInv, TypeOK, ForwarderTypeOK, ControlInv, TransportInv, MapInv,
              NoOrphanListener, Mapped, Forwards, Listening
<1>6. ShutdownInv'
  BY DEF IndInv, TypeOK, ForwarderTypeOK, ControlInv, ShutdownInv, MapInv,
         Mapped, Forwards, Listening, TransportInv
<1> QED
  BY <1>1, <1>2, <1>3, <1>4, <1>5, <1>6 DEF IndInv

\* A remote forward is cancelled.
LEMMA CancelStep ==
  ASSUME IndInv, Cancel
  PROVE  IndInv'
<1> USE ForwarderAssumption, MonitorAssumption
    DEF Cancel, CurTunnel, Crash, GoTo, NextForward
<1>1. TypeOK'
  BY ZenonT(60) DEF IndInv, TypeOK, ForwarderTypeOK, ControlInv, Steps, Phases, SshStates,
         ThreadStates, ChanStates, SocketStates, ListenerStates, Forwards,
         Listening
<1>2. ControlInv'
  BY DEF IndInv, TypeOK, ForwarderTypeOK, ControlInv, Mapped
<1>3. MapInv'
  BY DEF IndInv, TypeOK, ForwarderTypeOK, ControlInv, MapInv, Mapped
<1>4. TransportInv'
  BY DEF IndInv, TypeOK, ForwarderTypeOK, ControlInv, TransportInv, Forwards,
         Listening
<1>5. NoOrphanListener'
  BY <1>4 DEF IndInv, TypeOK, ForwarderTypeOK, ControlInv, TransportInv, MapInv,
              NoOrphanListener, Mapped, Forwards, Listening
<1>6. ShutdownInv'
  BY DEF IndInv, TypeOK, ForwarderTypeOK, ControlInv, ShutdownInv, MapInv,
         Mapped, Forwards, Listening
<1> QED
  BY <1>1, <1>2, <1>3, <1>4, <1>5, <1>6 DEF IndInv

\* The SSH client of a forwarder is closed.
LEMMA CloseSshStep ==
  ASSUME IndInv, CloseSsh
  PROVE  IndInv'
<1> USE ForwarderAssumption, MonitorAssumption
    DEF CloseSsh, CurTunnel, Crash, GoTo, NextForward, CloseClient, IsRemote, fwdVars
<1>1. TypeOK'
  BY DEF IndInv, TypeOK, ForwarderTypeOK, ControlInv, Steps, Phases, SshStates,
         ThreadStates, ChanStates, SocketStates, ListenerStates, Forwards,
         Listening
<1>2. ControlInv'
  BY DEF IndInv, TypeOK, ForwarderTypeOK, ControlInv, Mapped
<1>3. MapInv'
  BY DEF IndInv, TypeOK, ForwarderTypeOK, ControlInv, MapInv, Mapped
<1>4. TransportInv'
  BY DEF IndInv, TypeOK, ForwarderTypeOK, ControlInv, TransportInv, Forwards,
         Listening
<1>5. NoOrphanListener'
  BY <1>4 DEF IndInv, TypeOK, ForwarderTypeOK, ControlInv, TransportInv, MapInv,
              NoOrphanListener, Mapped, Forwards, Listening
<1>6. ShutdownInv'
  BY DEF IndInv, TypeOK, ForwarderTypeOK, ControlInv, ShutdownInv, MapInv,
         Mapped, Forwards, Listening
<1> QED
  BY <1>1, <1>2, <1>3, <1>4, <1>5, <1>6 DEF IndInv

\* The server socket of a forwarder is closed.
LEMMA CloseServerSocketStep ==
  ASSUME IndInv, CloseServerSocket
  PROVE  IndInv'
<1> USE ForwarderAssumption, MonitorAssumption
    DEF CloseServerSocket, CurTunnel, CloseSocket, NextForward
<1>1. TypeOK'
  BY DEF IndInv, TypeOK, ForwarderTypeOK, ControlInv, Steps, Phases, SshStates,
         ThreadStates, ChanStates, SocketStates, ListenerStates, Forwards,
         Listening
<1>2. ControlInv'
  BY DEF IndInv, TypeOK, ForwarderTypeOK, ControlInv, Mapped
<1>3. MapInv'
  BY DEF IndInv, TypeOK, ForwarderTypeOK, ControlInv, MapInv, Mapped
<1>4. TransportInv'
  BY DEF IndInv, TypeOK, ForwarderTypeOK, ControlInv, TransportInv, Forwards,
         Listening, ShutdownInv, MapInv
<1>5. NoOrphanListener'
  BY <1>4 DEF IndInv, TypeOK, ForwarderTypeOK, ControlInv, TransportInv, MapInv,
              NoOrphanListener, Mapped, Forwards, Listening
<1>6. ShutdownInv'
  BY DEF IndInv, TypeOK, ForwarderTypeOK, ControlInv, ShutdownInv, MapInv,
         Mapped, Forwards, Listening, TransportInv
<1> QED
  BY <1>1, <1>2, <1>3, <1>4, <1>5, <1>6 DEF IndInv

\* The map is cleared and the thread ends.
LEMMA ShutdownDoneStep ==
  ASSUME IndInv, ShutdownDone
  PROVE  IndInv'
<1> USE ForwarderAssumption, MonitorAssumption
    DEF ShutdownDone, fwdVars
<1>1. TypeOK'
  BY DEF IndInv, TypeOK, ForwarderTypeOK, ControlInv, Steps, Phases, SshStates,
         ThreadStates, ChanStates, SocketStates, ListenerStates, Forwards,
         Listening
<1>2. ControlInv'
  BY DEF IndInv, TypeOK, ForwarderTypeOK, ControlInv, Mapped
<1>3. MapInv'
  BY DEF IndInv, TypeOK, ForwarderTypeOK, ControlInv, MapInv, Mapped
<1>4. TransportInv'
  BY DEF IndInv, TypeOK, ForwarderTypeOK, ControlInv, TransportInv, Forwards,
         Listening
<1>5. NoOrphanListener'
  BY <1>4 DEF IndInv, TypeOK, ForwarderTypeOK, ControlInv, TransportInv, MapInv,
              NoOrphanListener, Mapped, Forwards, Listening, ShutdownInv
<1>6. ShutdownInv'
  BY DEF IndInv, TypeOK, ForwarderTypeOK, ControlInv, ShutdownInv, MapInv,
         Mapped, Forwards, Listening
<1> QED
  BY <1>1, <1>2, <1>3, <1>4, <1>5, <1>6 DEF IndInv

-----------------------------------------------------------------------------
\* The threads of a forwarder, the network, and the disconnect callback: the
\* monitor's own state does not change, nor what a client was built for.
LEMMA TunnelFrame ==
  ASSUME IndInv, UNCHANGED <<fwdOf, monVars>>
  PROVE  ControlInv' /\ MapInv'
  BY DEF IndInv, monVars, ControlInv, MapInv, Mapped

\* Steps of the accept loops, of startForwarding and of a remote forwarder's
\* thread: they touch neither transport nor port.
LEMMA QuietTunnelStep ==
  ASSUME IndInv, NEW t \in Tunnels, UNCHANGED monVars,
         \/ LocalAccept(t) \/ DynamicLoop(t) \/ DynamicAccept(t)
         \/ AcceptFails(t) \/ OpenChannel(t) \/ BindAnswered(t)
         \/ AssignRemoteFwd(t) \/ WaitInterrupted(t)
  PROVE  IndInv'
<1>1. UNCHANGED <<ssh, fwdOf, socket, client, listener>>
  BY DEF LocalAccept, DynamicLoop, DynamicAccept, AcceptFails, OpenChannel,
         ForwardingFails, BindAnswered, AssignRemoteFwd, WaitInterrupted
<1>2. /\ thread' \in [Tunnels -> ThreadStates]
      /\ chan' \in [Tunnels -> ChanStates]
      /\ activeForwards' \subseteq Tunnels
      /\ remoteFwd' \subseteq Tunnels
  <2> USE DEF IndInv, TypeOK, ForwarderTypeOK, ThreadStates, ChanStates
  <2>1. CASE LocalAccept(t) \/ DynamicLoop(t) \/ DynamicAccept(t)
    BY <2>1 DEF LocalAccept, DynamicLoop, DynamicAccept
  <2>2. CASE AcceptFails(t) \/ OpenChannel(t)
    BY <2>2 DEF AcceptFails, OpenChannel, ForwardingFails
  <2>3. CASE BindAnswered(t) \/ AssignRemoteFwd(t) \/ WaitInterrupted(t)
    BY <2>3 DEF BindAnswered, AssignRemoteFwd, WaitInterrupted
  <2> QED
    BY <2>1, <2>2, <2>3
<1>3. TypeOK'
  BY <1>1, <1>2 DEF IndInv, TypeOK, ForwarderTypeOK, monVars
<1>4. ControlInv' /\ MapInv'
  BY <1>1, TunnelFrame
<1>5. TransportInv' /\ NoOrphanListener' /\ ShutdownInv'
  BY <1>1 DEF IndInv, TransportInv, NoOrphanListener, ShutdownInv, monVars
<1> QED
  BY <1>3, <1>4, <1>5 DEF IndInv

\* startForwarding registers the disconnect listener.
LEMMA RegisterListenerStep ==
  ASSUME IndInv, NEW t \in Tunnels, UNCHANGED monVars, RegisterListener(t)
  PROVE  IndInv'
<1> USE DEF RegisterListener, monVars, ForwardingFails
<1>1. TypeOK'
  BY DEF IndInv, TypeOK, ForwarderTypeOK, SshStates, ThreadStates, ChanStates,
         SocketStates, ListenerStates
<1>2. ControlInv' /\ MapInv'
  BY TunnelFrame
<1>3. TransportInv'
  BY DEF IndInv, TypeOK, ForwarderTypeOK, TransportInv
<1>4. NoOrphanListener'
  BY <1>3 DEF IndInv, TypeOK, ForwarderTypeOK, NoOrphanListener
<1>5. ShutdownInv'
  BY ForwarderAssumption, MonitorAssumption
  DEF IndInv, TypeOK, ForwarderTypeOK, ControlInv, ShutdownInv, Forwards, Listening
<1> QED
  BY <1>1, <1>2, <1>3, <1>4, <1>5 DEF IndInv

\* An SSH connection dies.
LEMMA ConnectionLostStep ==
  ASSUME IndInv, NEW t \in Tunnels, UNCHANGED monVars, ConnectionLost(t)
  PROVE  IndInv'
<1> USE DEF ConnectionLost, monVars
<1>1. TypeOK'
  BY DEF IndInv, TypeOK, ForwarderTypeOK, SshStates, ThreadStates, ChanStates,
         SocketStates, ListenerStates
<1>2. ControlInv' /\ MapInv'
  BY TunnelFrame
<1>3. TransportInv'
  BY DEF IndInv, TypeOK, ForwarderTypeOK, TransportInv
<1>4. NoOrphanListener'
  BY <1>3 DEF IndInv, TypeOK, ForwarderTypeOK, NoOrphanListener
<1>5. ShutdownInv'
  BY ForwarderAssumption, MonitorAssumption
  DEF IndInv, TypeOK, ForwarderTypeOK, ControlInv, ShutdownInv, Forwards, Listening
<1> QED
  BY <1>1, <1>2, <1>3, <1>4, <1>5 DEF IndInv

\* notifyDisconnect clears the field client.
LEMMA NotifyClearsClientStep ==
  ASSUME IndInv, NEW t \in Tunnels, UNCHANGED monVars, NotifyClearsClient(t)
  PROVE  IndInv'
<1> USE DEF NotifyClearsClient, monVars
<1>1. TypeOK'
  BY DEF IndInv, TypeOK, ForwarderTypeOK, SshStates, ThreadStates, ChanStates,
         SocketStates, ListenerStates
<1>2. ControlInv' /\ MapInv'
  BY TunnelFrame
<1>3. TransportInv'
  BY DEF IndInv, TypeOK, ForwarderTypeOK, TransportInv
<1>4. NoOrphanListener'
  BY <1>3 DEF IndInv, TypeOK, ForwarderTypeOK, NoOrphanListener
<1>5. ShutdownInv'
  BY ForwarderAssumption, MonitorAssumption
  DEF IndInv, TypeOK, ForwarderTypeOK, ControlInv, ShutdownInv, Forwards, Listening
<1> QED
  BY <1>1, <1>2, <1>3, <1>4, <1>5 DEF IndInv

\* notifyDisconnect closes the server socket.
LEMMA NotifyClosesSocketStep ==
  ASSUME IndInv, NEW t \in Tunnels, UNCHANGED monVars, NotifyClosesSocket(t)
  PROVE  IndInv'
<1> USE DEF NotifyClosesSocket, monVars
<1>1. TypeOK'
  BY DEF IndInv, TypeOK, ForwarderTypeOK, SshStates, ThreadStates, ChanStates,
         SocketStates, ListenerStates
<1>2. ControlInv' /\ MapInv'
  BY TunnelFrame
<1>3. TransportInv'
  BY DEF IndInv, TypeOK, ForwarderTypeOK, TransportInv
<1>4. NoOrphanListener'
  BY <1>3 DEF IndInv, TypeOK, ForwarderTypeOK, NoOrphanListener
<1>5. ShutdownInv'
  BY ForwarderAssumption, MonitorAssumption
  DEF IndInv, TypeOK, ForwarderTypeOK, ControlInv, ShutdownInv, Forwards, Listening
<1> QED
  BY <1>1, <1>2, <1>3, <1>4, <1>5 DEF IndInv

\* notifyDisconnect of a remote forwarder.
LEMMA NotifyRemoteStep ==
  ASSUME IndInv, NEW t \in Tunnels, UNCHANGED monVars, NotifyRemote(t)
  PROVE  IndInv'
<1> USE DEF NotifyRemote, monVars, IsRemote
<1>1. TypeOK'
  BY DEF IndInv, TypeOK, ForwarderTypeOK, SshStates, ThreadStates, ChanStates,
         SocketStates, ListenerStates
<1>2. ControlInv' /\ MapInv'
  BY TunnelFrame
<1>3. TransportInv'
  BY DEF IndInv, TypeOK, ForwarderTypeOK, TransportInv
<1>4. NoOrphanListener'
  BY <1>3 DEF IndInv, TypeOK, ForwarderTypeOK, NoOrphanListener
<1>5. ShutdownInv'
  BY ForwarderAssumption, MonitorAssumption
  DEF IndInv, TypeOK, ForwarderTypeOK, ControlInv, ShutdownInv, Forwards, Listening
<1> QED
  BY <1>1, <1>2, <1>3, <1>4, <1>5 DEF IndInv

-----------------------------------------------------------------------------
LEMMA MonitorStepInv ==
  ASSUME IndInv, MonitorStep
  PROVE  IndInv'
  BY ConstructVisitStep, RetryVisitStep, CloseVisitStep, RetryDerefStep,
     ConnectOkStep, AuthFailsStep, ConnectFailsStep, ConnectInterruptedStep,
     AccountThrowsStep, BuildStep, BuildFailsStep, ConstructDoneStep,
     StartThreadStep, WakeStep, SleepInterruptedStep, RetryDoneStep,
     CloseDerefStep, CancelStep, CloseSshStep, CloseServerSocketStep,
     ShutdownDoneStep
  DEF MonitorStep

LEMMA TunnelStepInv ==
  ASSUME IndInv, TunnelStep
  PROVE  IndInv'
  BY QuietTunnelStep, RegisterListenerStep, ConnectionLostStep,
     NotifyClearsClientStep, NotifyClosesSocketStep, NotifyRemoteStep
  DEF TunnelStep, ForwarderThread, ForwarderEnv

LEMMA StutterInv ==
  ASSUME IndInv, UNCHANGED vars
  PROVE  IndInv'
  BY DEF vars, fwdVars, monVars, IndInv, TypeOK, ForwarderTypeOK, ControlInv,
         MapInv, TransportInv, NoOrphanListener, ShutdownInv, Mapped

\* Every step of the specification preserves IndInv.
THEOREM NextIndInv == IndInv /\ [Next]_vars => IndInv'
  BY MonitorStepInv, InterruptStep, TunnelStepInv, StutterInv DEF Next

\* IndInv holds in every reachable state, whatever the constants are.
THEOREM SpecIndInv == Spec => []IndInv
  BY InitIndInv, NextIndInv, PTL DEF Spec

\* The types of the variables, in every reachable state.
THEOREM SpecTypeOK == Spec => []TypeOK
<1>1. IndInv => TypeOK
  BY DEF IndInv
<1> QED
  BY <1>1, SpecIndInv, PTL

\* A retry never strands a local or dynamic forwarder that still has its port
\* or its SSH connection.
THEOREM SpecNoOrphanListener == Spec => []NoOrphanListener
<1>1. IndInv => NoOrphanListener
  BY DEF IndInv
<1> QED
  BY <1>1, SpecIndInv, PTL

\* isActive() of a local or dynamic forwarder implies an open port.
THEOREM SpecActiveMeansListening == Spec => []ActiveMeansListening
<1>1. IndInv => ActiveMeansListening
  BY ForwarderAssumption
  DEF IndInv, TransportInv, ActiveMeansListening, IsActive, Connected, IsRemote
<1> QED
  BY <1>1, SpecIndInv, PTL

\* A stopped monitor leaves no port bound except behind a close() that threw.
THEOREM SpecStopFreesPorts == Spec => []StopFreesPorts
<1>1. IndInv => StopFreesPorts
  BY MonitorAssumption
  DEF IndInv, TypeOK, ForwarderTypeOK, ControlInv, TransportInv,
      NoOrphanListener, StopFreesPorts, Forwards, Listening
<1> QED
  BY <1>1, SpecIndInv, PTL

-----------------------------------------------------------------------------
\* Only a new forwarder and the end of the shutdown change the map.
LEMMA MapChanges ==
  ASSUME [Next]_vars
  PROVE  Build \/ ShutdownDone \/ UNCHANGED portForwarders
  BY DEF Next, MonitorStep, TunnelStep, Interrupt, vars, monVars,
         ConstructVisit, RetryVisit, CloseVisit, RetryDeref, ConnectOk,
         AuthFails, ConnectFails, ConnectInterrupted, AccountThrows,
         BuildFails, ConstructDone, StartThread, Wake, SleepInterrupted,
         RetryDone, CloseDeref, Cancel, CloseSsh, CloseServerSocket

\* A new listening forwarder replaces only one of which nothing is left: the
\* new ServerSocket could not have been bound otherwise, and a forwarder whose
\* port is closed has no SSH connection.
THEOREM SpecReplacesOnlyDead == Spec => ReplacesOnlyDeadProp
<1>1. IndInv /\ [Next]_vars => ReplacesOnlyDead
  <2> SUFFICES ASSUME IndInv, [Next]_vars, NEW f \in Listening,
                      portForwarders[f] # NoTunnel,
                      portForwarders'[f] \notin {portForwarders[f], NoTunnel}
               PROVE  /\ socket[portForwarders[f]] = "closed"
                      /\ ssh[portForwarders[f]] # "up"
                      /\ ~IsActive(portForwarders[f])
    BY DEF ReplacesOnlyDead
  <2> DEFINE old == portForwarders[f]
  <2>1. old \in Tunnels /\ fwdOf[old] = f
    BY DEF IndInv, TypeOK, MapInv, Forwards, Listening
  <2>2. Build
    BY MapChanges DEF ShutdownDone, Forwards, Listening
  <2>3. cur = f /\ ~PortTaken(f)
    BY <2>2, ForwarderAssumption
    DEF Build, IndInv, TypeOK, NewListeningForwarder, NewRemoteForwarder,
        Forwards
  <2>4. socket[old] = "closed"
    BY <2>1, <2>3 DEF PortTaken, IndInv, TransportInv
  <2>5. ssh[old] # "up"
    BY <2>1, <2>4 DEF IndInv, TransportInv
  <2>6. ~IsActive(old)
    BY <2>1, <2>5, ForwarderAssumption DEF IsActive, Connected, IsRemote
  <2> QED
    BY <2>4, <2>5, <2>6
<1> QED
  BY <1>1, SpecIndInv, PTL DEF Spec, ReplacesOnlyDeadProp

-----------------------------------------------------------------------------
\* Nothing that isActive() reads of forwarder t comes back.
Fades(t) ==
  /\ fwdOf'[t] = fwdOf[t]
  /\ thread[t] \in {"none", "dead"} => thread'[t] \in {"none", "dead"}
  /\ t \notin client => t \notin client'
  /\ socket[t] # "open" => socket'[t] # "open"
  /\ ssh[t] # "up" => ssh'[t] # "up"

\* The steps of the monitor leave a mapped listening forwarder fading ...
LEMMA MonitorFades ==
  ASSUME IndInv, MonitorStep, NEW t \in Tunnels, Mapped(t),
         fwdOf[t] \in Listening
  PROVE  Fades(t)
<1> USE DEF Fades, IndInv, TypeOK, ForwarderTypeOK
<1>1. CASE \E f \in Forwards : ConstructVisit(f) \/ RetryVisit(f) \/ CloseVisit(f)
  BY <1>1 DEF ConstructVisit, RetryVisit, CloseVisit, fwdVars
<1>2. CASE \/ RetryDeref \/ ConnectFails \/ ConnectInterrupted \/ BuildFails
           \/ ConstructDone \/ StartThread \/ Wake \/ SleepInterrupted
           \/ RetryDone \/ CloseDeref \/ ShutdownDone
  BY <1>2 DEF RetryDeref, ConnectFails, ConnectInterrupted, BuildFails,
              ConstructDone, StartThread, Wake, SleepInterrupted, RetryDone,
              CloseDeref, ShutdownDone, fwdVars
<1>3. CASE \E u \in Tunnels : ConnectOk(u) \/ AuthFails(u)
  BY <1>3 DEF ConnectOk, AuthFails, Free, NewClient
<1>4. CASE AccountThrows
  BY <1>4 DEF AccountThrows, Free, NewClient, fwdVars
<1>5. CASE Build
  BY <1>5 DEF Build, ControlInv, NewListeningForwarder, NewRemoteForwarder
<1>6. CASE Cancel
  BY <1>6 DEF Cancel
<1>7. CASE CloseSsh
  BY <1>7 DEF CloseSsh, CloseClient, fwdVars
<1>8. CASE CloseServerSocket
  BY <1>8 DEF CloseServerSocket, CloseSocket
<1> QED
  BY <1>1, <1>2, <1>3, <1>4, <1>5, <1>6, <1>7, <1>8 DEF MonitorStep

\* ... and so do those of the forwarders' threads.
LEMMA TunnelFades ==
  ASSUME IndInv, TunnelStep, NEW t \in Tunnels, fwdOf[t] \in Listening
  PROVE  Fades(t)
<1> USE DEF Fades, IndInv, TypeOK, ForwarderTypeOK
<1>1. PICK u \in Tunnels : ForwarderThread(u) \/ ForwarderEnv(u)
  BY DEF TunnelStep
<1>2. CASE LocalAccept(u) \/ DynamicLoop(u) \/ DynamicAccept(u)
           \/ AcceptFails(u) \/ WaitInterrupted(u)
  BY <1>2 DEF LocalAccept, DynamicLoop, DynamicAccept, AcceptFails,
              WaitInterrupted
<1>3. CASE OpenChannel(u) \/ RegisterListener(u)
  BY <1>3 DEF OpenChannel, RegisterListener, ForwardingFails
<1>4. CASE BindAnswered(u) \/ AssignRemoteFwd(u)
  BY <1>4, ForwarderAssumption
  DEF BindAnswered, AssignRemoteFwd, IsRemote
<1>5. CASE ConnectionLost(u) \/ NotifyClearsClient(u) \/ NotifyClosesSocket(u)
           \/ NotifyRemote(u)
  BY <1>5 DEF ConnectionLost, NotifyClearsClient, NotifyClosesSocket,
              NotifyRemote
<1> QED
  BY <1>1, <1>2, <1>3, <1>4, <1>5 DEF ForwarderThread, ForwarderEnv

\* What the monitor saw inactive is inactive for good.
THEOREM SpecInactiveIsPermanent == Spec => InactiveIsPermanentProp
<1>1. IndInv /\ [Next]_vars => InactiveIsPermanent
  <2> SUFFICES ASSUME IndInv, [Next]_vars, NEW t \in Tunnels, Mapped(t),
                      fwdOf[t] \in Listening, ~IsActive(t)
               PROVE  ~IsActive(t)'
    BY DEF InactiveIsPermanent
  <2>1. CASE MonitorStep \/ TunnelStep
    <3>1. Fades(t)
      BY <2>1, MonitorFades, TunnelFades
    <3> QED
      BY <3>1, ForwarderAssumption
      DEF Fades, IsActive, LooksActive, Connected, IsRemote, Alive
  <2>2. CASE Interrupt \/ UNCHANGED vars
    BY <2>2 DEF Interrupt, vars, fwdVars, IsActive, LooksActive, Connected,
                IsRemote, Alive
  <2> QED
    BY <2>1, <2>2 DEF Next
<1> QED
  BY <1>1, SpecIndInv, PTL DEF Spec, InactiveIsPermanentProp
==============================================================================
