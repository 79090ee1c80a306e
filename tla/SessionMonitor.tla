---------------------------- MODULE SessionMonitor ----------------------------
(***************************************************************************)
(* SshSessionMonitor: the thread that keeps the forwards of one enabled    *)
(* SshSession alive.                                                       *)
(*                                                                         *)
(* The constructor makes a forwarder for every enabled forward; the thread *)
(* then looks at every forward every ten seconds, makes a new forwarder    *)
(* where there is none or the old one is inactive, and closes all of them  *)
(* once it is interrupted.  The monitor never closes a forwarder that it   *)
(* replaces.                                                               *)
(*                                                                         *)
(* The list of forwards is visited in the order of the configuration; the  *)
(* model visits it in every order.                                         *)
(***************************************************************************)
EXTENDS PortForwarder

CONSTANTS
  NoTunnel,
  Enabled,     \* forwards that are enabled in the configuration
  BadAccount   \* forwards whose connection is missing or has no password

ASSUME MonitorAssumption ==
  /\ NoTunnel \notin Tunnels
  /\ Enabled \subseteq Forwards
  /\ BadAccount \subseteq Forwards

VARIABLES
  portForwarders, \* the map Forward -> PortForwarder
  phase,          \* what the monitor is doing
  step,           \* where it is within one forward
  todo,           \* forwards its loop has still to visit
  cur,            \* the forward it is at
  fresh,          \* the SSHClient createSshTransportSession just returned
  intr,           \* the interrupt flag of the monitor's thread
  stopCalled      \* SshSessionManager.stop() has begun

monVars == <<portForwarders, phase, step, todo, cur, fresh, intr, stopCalled>>
vars == <<fwdVars, monVars>>

(***************************************************************************)
(* construct the constructor creates the forwarders                        *)
(* created   it has returned, the thread is not started yet                *)
(* sleep     Thread.sleep(10000)                                           *)
(* retry     one pass over the forwards                                    *)
(* shutdown  the pass that closes every forwarder                          *)
(* stopped   the thread has ended                                          *)
(* crashed   an unchecked exception ended the constructor or the thread    *)
(***************************************************************************)
Phases == {"construct", "created", "sleep", "retry", "shutdown", "stopped",
           "crashed"}
Steps  == {"visit", "deref", "connect", "build", "closeDeref", "cancel",
           "closeClient", "closeSocket"}

TypeOK ==
  /\ ForwarderTypeOK
  /\ portForwarders \in [Forwards -> Tunnels \cup {NoTunnel}]
  /\ phase \in Phases
  /\ step \in Steps
  /\ todo \subseteq Forwards
  /\ cur \in Forwards \cup {NoForward}
  /\ fresh \in Tunnels \cup {NoTunnel}
  /\ intr \in BOOLEAN
  /\ stopCalled \in BOOLEAN

Init ==
  /\ ForwarderInit
  /\ portForwarders = [f \in Forwards |-> NoTunnel]
  /\ phase = "construct"
  /\ step = "visit"
  /\ todo = Forwards
  /\ cur = NoForward
  /\ fresh = NoTunnel
  /\ intr = FALSE
  /\ stopCalled = FALSE

Mapped(t) == \E f \in Forwards : portForwarders[f] = t

\* The forwarder the monitor is looking at.
CurTunnel == portForwarders[cur]

\* The monitor goes on to s with the forward it is at ...
GoTo(s) ==
  /\ step' = s
  /\ UNCHANGED <<phase, todo, cur, fresh>>

\* ... or leaves it and takes the next one of its loop.
NextForward ==
  /\ step' = "visit"
  /\ cur' = NoForward
  /\ fresh' = NoTunnel
  /\ UNCHANGED <<phase, todo>>

\* An unchecked exception: nothing catches it, and nothing is closed.
Crash ==
  /\ phase' = "crashed"
  /\ step' = "visit"
  /\ cur' = NoForward
  /\ fresh' = NoTunnel
  /\ UNCHANGED todo

Visit(f, s) ==
  /\ todo' = todo \ {f}
  /\ step' = s
  /\ cur' = f
  /\ UNCHANGED <<phase, fresh>>

Skip(f) ==
  /\ todo' = todo \ {f}
  /\ UNCHANGED <<phase, step, cur, fresh>>

-----------------------------------------------------------------------------
\* createPortForwardings in the constructor.
ConstructVisit(f) ==
  /\ phase = "construct"
  /\ step = "visit"
  /\ f \in todo
  /\ IF f \in Enabled THEN Visit(f, "connect") ELSE Skip(f)
  /\ UNCHANGED <<fwdVars, portForwarders, intr, stopCalled>>

\* A variant that looks only at forwards without a forwarder.
RetryVisitIgnoresInactive(f) ==
  /\ phase = "retry"
  /\ step = "visit"
  /\ f \in todo
  /\ IF portForwarders[f] = NoTunnel /\ f \in Enabled
       THEN Visit(f, "connect") ELSE Skip(f)
  /\ UNCHANGED <<fwdVars, portForwarders, intr, stopCalled>>

\* One forward of the pass: no forwarder, or isActive() false at its null
\* test, leads to createPortForwarding, which returns when f is disabled.
RetryVisit(f) ==
  /\ phase = "retry"
  /\ step = "visit"
  /\ f \in todo
  /\ IF portForwarders[f] # NoTunnel /\ LooksActive(portForwarders[f])
       THEN Visit(f, "deref")
       ELSE IF f \in Enabled THEN Visit(f, "connect") ELSE Skip(f)
  /\ UNCHANGED <<fwdVars, portForwarders, intr, stopCalled>>

(***************************************************************************)
(* The second half of isActive() reads the field again.  A notifyDisconnect *)
(* in between has set it to null: client.isAuthenticated() and              *)
(* getActiveForwards().contains(null) raise a NullPointerException.         *)
(***************************************************************************)
RetryDeref ==
  /\ step = "deref"
  /\ IF ~FieldStillSet(CurTunnel) THEN Crash
     ELSE IF Connected(CurTunnel) THEN NextForward
     ELSE GoTo("connect")
  /\ UNCHANGED <<fwdVars, portForwarders, intr, stopCalled>>

-----------------------------------------------------------------------------
(***************************************************************************)
(* createSshTransportSession.  Tunnels bounds the clients alive at the     *)
(* same time: when every one is in use, connecting fails.                  *)
(***************************************************************************)
Free(t) == Inert(t) /\ ~Mapped(t)

ConnectOk(t) ==
  /\ step = "connect"
  /\ cur \notin BadAccount
  /\ Free(t)
  /\ NewClient(t)
  /\ fresh' = t
  /\ step' = "build"
  /\ UNCHANGED <<portForwarders, phase, todo, cur, intr, stopCalled>>

\* The IOException is logged; the next pass tries again.
ConnectFails ==
  /\ step = "connect"
  /\ "connect" \in Faults \/ ~\E t \in Tunnels : Free(t)
  /\ NextForward
  /\ UNCHANGED <<fwdVars, portForwarders, intr, stopCalled>>

\* The SSH library turns an interrupt into one of its IOExceptions and
\* clears the flag: the monitor does not see that it was interrupted.
ConnectInterrupted ==
  /\ step = "connect"
  /\ intr
  /\ intr' = FALSE
  /\ NextForward
  /\ UNCHANGED <<fwdVars, portForwarders, stopCalled>>

\* authPassword throws on a client that is connected: nobody closes it.
AuthFails(t) ==
  /\ step = "connect"
  /\ "auth" \in Faults
  /\ cur \notin BadAccount
  /\ Free(t)
  /\ NewClient(t)
  /\ NextForward
  /\ UNCHANGED <<portForwarders, intr, stopCalled>>

\* A forward without connection raises before, one without password after
\* the client connects; createPortForwarding catches IOException only.
AccountThrows ==
  /\ step = "connect"
  /\ cur \in BadAccount
  /\ Crash
  /\ \/ UNCHANGED fwdVars
     \/ \E t \in Tunnels : Free(t) /\ NewClient(t)
  /\ UNCHANGED <<portForwarders, intr, stopCalled>>

-----------------------------------------------------------------------------
\* A variant that forgets to put the new forwarder into the map.
BuildForgetsPut ==
  /\ step = "build"
  /\ \/ NewListeningForwarder(fresh, cur)
     \/ NewRemoteForwarder(fresh, cur)
  /\ NextForward
  /\ UNCHANGED <<portForwarders, intr, stopCalled>>

\* createPortForwarding: the forwarder's constructor, put() and start().
Build ==
  /\ step = "build"
  /\ \/ NewListeningForwarder(fresh, cur)
     \/ NewRemoteForwarder(fresh, cur)
  /\ portForwarders' = [portForwarders EXCEPT ![cur] = fresh]
  /\ NextForward
  /\ UNCHANGED <<intr, stopCalled>>

\* new ServerSocket throws: the client that was connected for it is dropped.
BuildFails ==
  /\ step = "build"
  /\ cur \in Listening
  /\ PortTaken(cur) \/ "port" \in Faults
  /\ NextForward
  /\ UNCHANGED <<fwdVars, portForwarders, intr, stopCalled>>

-----------------------------------------------------------------------------
ConstructDone ==
  /\ phase = "construct"
  /\ step = "visit"
  /\ todo = {}
  /\ phase' = "created"
  /\ UNCHANGED <<fwdVars, portForwarders, step, todo, cur, fresh, intr,
                 stopCalled>>

\* start(); SshSessionManager calls it on the monitor it just made.
StartThread ==
  /\ phase = "created"
  /\ phase' = "sleep"
  /\ UNCHANGED <<fwdVars, portForwarders, step, todo, cur, fresh, intr,
                 stopCalled>>

Wake ==
  /\ phase = "sleep"
  /\ ~intr
  /\ phase' = "retry"
  /\ todo' = Forwards
  /\ UNCHANGED <<fwdVars, portForwarders, step, cur, fresh, intr, stopCalled>>

\* The loop is left, and the shutdown visits portForwarders.values().
BeginShutdown ==
  /\ phase' = "shutdown"
  /\ todo' = {f \in Forwards : portForwarders[f] # NoTunnel}
  /\ intr' = FALSE

SleepInterrupted ==
  /\ phase = "sleep"
  /\ intr
  /\ BeginShutdown
  /\ UNCHANGED <<fwdVars, portForwarders, step, cur, fresh, stopCalled>>

\* while (!interrupted()): the test also clears the flag.
RetryDone ==
  /\ phase = "retry"
  /\ step = "visit"
  /\ todo = {}
  /\ IF intr
       THEN BeginShutdown
       ELSE phase' = "sleep" /\ UNCHANGED <<todo, intr>>
  /\ UNCHANGED <<fwdVars, portForwarders, step, cur, fresh, stopCalled>>

\* A variant that interrupts once and then only waits.
InterruptOnce ==
  /\ ~stopCalled
  /\ phase \in {"sleep", "retry", "shutdown"}
  /\ stopCalled' = TRUE
  /\ intr' = TRUE
  /\ UNCHANGED <<fwdVars, portForwarders, phase, step, todo, cur, fresh>>

\* SshSessionManager.stop() interrupts the thread, and does so again every
\* five seconds while the thread is alive.
Interrupt ==
  /\ phase \in {"sleep", "retry", "shutdown"}
  /\ stopCalled' = TRUE
  /\ intr' = TRUE
  /\ UNCHANGED <<fwdVars, portForwarders, phase, step, todo, cur, fresh>>

-----------------------------------------------------------------------------
\* A variant that closes the port before, and instead of, the SSH client.
CloseVisitPortFirst(f) ==
  /\ phase = "shutdown"
  /\ step = "visit"
  /\ f \in todo
  /\ Visit(f, "closeSocket")
  /\ UNCHANGED <<fwdVars, portForwarders, intr, stopCalled>>

(***************************************************************************)
(* close() of the forwarder of f: a listening one tests client, a remote   *)
(* one is closed only when isActive(), else close() does nothing at all.   *)
(***************************************************************************)
CloseVisit(f) ==
  /\ phase = "shutdown"
  /\ step = "visit"
  /\ f \in todo
  /\ LET t == portForwarders[f] IN
       IF IsRemote(t)
         THEN IF t \in remoteFwd THEN Visit(f, "closeDeref") ELSE Skip(f)
         ELSE Visit(f, IF t \in client THEN "closeClient" ELSE "closeSocket")
  /\ UNCHANGED <<fwdVars, portForwarders, intr, stopCalled>>

CloseDeref ==
  /\ step = "closeDeref"
  /\ IF ~FieldStillSet(CurTunnel) THEN Crash
     ELSE IF Connected(CurTunnel) THEN GoTo("cancel")
     ELSE NextForward
  /\ UNCHANGED <<fwdVars, portForwarders, intr, stopCalled>>

\* The SSH library forgets the forward whatever the server answers; when
\* the request throws, client.close() is skipped.
Cancel ==
  /\ step = "cancel"
  /\ IF CurTunnel \notin remoteFwd
       THEN Crash /\ UNCHANGED <<activeForwards, intr>>
       ELSE /\ activeForwards' = activeForwards \ {CurTunnel}
            /\ \/ ssh[CurTunnel] = "up" /\ GoTo("closeClient") /\ UNCHANGED intr
               \/ /\ ssh[CurTunnel] # "up" \/ "close" \in Faults \/ intr
                  /\ intr' = FALSE
                  /\ NextForward
  /\ UNCHANGED <<ssh, fwdOf, thread, chan, socket, client, listener, remoteFwd,
                 portForwarders, stopCalled>>

\* A variant that leaves the port to the disconnect callback.
CloseSshOnly ==
  /\ step = "closeClient"
  /\ IF CurTunnel \notin client
       THEN Crash /\ UNCHANGED fwdVars
       ELSE /\ CloseClient(CurTunnel, "closed")
            /\ NextForward
            /\ UNCHANGED activeForwards
  /\ UNCHANGED <<portForwarders, intr, stopCalled>>

\* client.close(), on the field that notifyDisconnect may have cleared.
\* When it throws, serverSocket.close() is skipped.
CloseSsh ==
  /\ step = "closeClient"
  /\ IF CurTunnel \notin client
       THEN Crash /\ UNCHANGED fwdVars
       ELSE /\ \/ /\ CloseClient(CurTunnel, "closed")
                  /\ IF IsRemote(CurTunnel) THEN NextForward
                                            ELSE GoTo("closeSocket")
               \/ /\ "close" \in Faults
                  /\ CloseClient(CurTunnel, "closeFailed")
                  /\ NextForward
            /\ UNCHANGED activeForwards
  /\ UNCHANGED <<portForwarders, intr, stopCalled>>

CloseServerSocket ==
  /\ step = "closeSocket"
  /\ CloseSocket(CurTunnel)
  /\ NextForward
  /\ UNCHANGED <<portForwarders, intr, stopCalled>>

ShutdownDone ==
  /\ phase = "shutdown"
  /\ step = "visit"
  /\ todo = {}
  /\ phase' = "stopped"
  /\ portForwarders' = [f \in Forwards |-> NoTunnel]
  /\ UNCHANGED <<fwdVars, step, todo, cur, fresh, intr, stopCalled>>

-----------------------------------------------------------------------------
MonitorStep ==
  \/ \E f \in Forwards : ConstructVisit(f) \/ RetryVisit(f) \/ CloseVisit(f)
  \/ RetryDeref
  \/ \E t \in Tunnels : ConnectOk(t) \/ AuthFails(t)
  \/ ConnectFails
  \/ ConnectInterrupted
  \/ AccountThrows
  \/ Build
  \/ BuildFails
  \/ ConstructDone
  \/ StartThread
  \/ Wake
  \/ SleepInterrupted
  \/ RetryDone
  \/ CloseDeref
  \/ Cancel
  \/ CloseSsh
  \/ CloseServerSocket
  \/ ShutdownDone

TunnelStep ==
  \E t \in Tunnels : (ForwarderThread(t) \/ ForwarderEnv(t)) /\ UNCHANGED monVars

Next == MonitorStep \/ Interrupt \/ TunnelStep

Spec == Init /\ [][Next]_vars

(***************************************************************************)
(* Fairness.  The threads run.  A stop that has begun interrupts again     *)
(* every five seconds and the monitor sleeps for ten, so a stop does not   *)
(* miss the sleeping monitor for ever.                                     *)
(***************************************************************************)
FairSpec ==
  /\ Spec
  /\ WF_vars(MonitorStep)
  /\ \A t \in Tunnels : WF_vars(ForwarderThread(t) /\ UNCHANGED monVars)
  /\ SF_vars(stopCalled /\ phase = "sleep" /\ Interrupt)

-----------------------------------------------------------------------------
\* getForwardStateInfos for one forward of an enabled session.
ForwardState(f) ==
  IF f \notin Enabled THEN "deactivated"
  ELSE IF portForwarders[f] = NoTunnel THEN "stopped"
  ELSE IF IsActive(portForwarders[f]) THEN "running"
  ELSE "retry"

-----------------------------------------------------------------------------
(* Safety *)

\* A local or dynamic forwarder that still holds its port, or a live SSH
\* connection, is the one the monitor has for its forward: a retry never
\* strands one.  Only a close() that threw leaves one behind.
NoOrphanListener ==
  \A t \in Tunnels :
    (fwdOf[t] \in Listening /\ (socket[t] = "open" \/ ssh[t] = "up"))
      => \/ portForwarders[fwdOf[t]] = t
         \/ ssh[t] = "closeFailed"

\* isActive() is true of a local or dynamic forwarder only while its port is
\* open, whichever of disconnect, close and accept loop runs when.
ActiveMeansListening ==
  \A t \in Tunnels : (fwdOf[t] \in Listening /\ IsActive(t)) => socket[t] = "open"

\* When the monitor's thread has ended, a local port is still bound only
\* where SSHClient.close() threw and the ServerSocket was skipped.
StopFreesPorts ==
  phase = "stopped" =>
    \A t \in Tunnels : socket[t] = "open" => ssh[t] = "closeFailed"

\* The monitor puts a new listening forwarder in the place of an old one only
\* when nothing is left of the old one: port closed, SSH connection gone, and
\* it can never be active again.
ReplacesOnlyDead ==
  \A f \in Listening :
    LET old == portForwarders[f] IN
      (old # NoTunnel /\ portForwarders'[f] \notin {old, NoTunnel})
        => socket[old] = "closed" /\ ssh[old] # "up" /\ ~IsActive(old)

ReplacesOnlyDeadProp == [][ReplacesOnlyDead]_vars

\* A local or dynamic forwarder that isActive() has reported inactive stays
\* inactive: what the monitor decides on is never stale in that direction.
InactiveIsPermanent ==
  \A t \in Tunnels :
    (Mapped(t) /\ fwdOf[t] \in Listening /\ ~IsActive(t) /\ Mapped(t)')
      => ~IsActive(t)'

InactiveIsPermanentProp == [][InactiveIsPermanent]_vars

-----------------------------------------------------------------------------
(* Liveness *)

\* stop() waits until the thread is no longer alive: it gets there although
\* connecting swallows interrupts.
StopTerminates == stopCalled ~> phase \in {"stopped", "crashed"}

\* If a connection that is tried again and again succeeds, then after a
\* disconnect has closed the port of a listening forwarder the monitor opens
\* the port again, unless it is told to stop or has died.  A retry that runs
\* while the disconnect is still being handled strands an SSH client;
\* ClientsExhausted is where the bound on the clients ends the model.
ServerReachable == SF_vars(\E t \in Tunnels : ConnectOk(t)) /\ SF_vars(Build)

PortClosed(f) ==
  /\ phase \in {"sleep", "retry"}
  /\ portForwarders[f] # NoTunnel
  /\ socket[portForwarders[f]] = "closed"

ClientsExhausted == ~\E t \in Tunnels : Free(t)

ListenerReopens ==
  ServerReachable =>
    \A f \in Listening :
      PortClosed(f) ~> \/ \E t \in Tunnels : fwdOf[t] = f /\ socket[t] = "open"
                       \/ phase \in {"shutdown", "stopped", "crashed"}
                       \/ ClientsExhausted

-----------------------------------------------------------------------------
(***************************************************************************)
(* The inductive invariant of the safety properties above, in parts.       *)
(***************************************************************************)

\* The monitor's program counter: which step belongs to which phase, and
\* what cur and fresh stand for at each of them.
ControlInv ==
  /\ step \in {"connect", "build"} => phase \in {"construct", "retry"}
  /\ step = "deref" => phase = "retry"
  /\ step \in {"closeDeref", "cancel", "closeClient", "closeSocket"}
       => phase = "shutdown"
  /\ step \in {"closeDeref", "cancel"} => cur \in RemoteForwards
  /\ step # "visit" => cur \in Forwards
  /\ step = "visit" => cur = NoForward
  /\ step \notin {"visit", "connect", "build"} => portForwarders[cur] # NoTunnel
  /\ phase = "shutdown" => \A f \in todo : portForwarders[f] # NoTunnel
  /\ phase = "stopped" => \A f \in Forwards : portForwarders[f] = NoTunnel
  /\ step = "build" => /\ fresh \in Tunnels
                       /\ fwdOf[fresh] = NoForward
                       /\ ~Mapped(fresh)

\* The map leads from a forward to the forwarder that was built for it.
MapInv ==
  \A f \in Forwards :
    portForwarders[f] # NoTunnel => fwdOf[portForwarders[f]] = f

\* A forwarder whose SSH connection is up has its port and its client field;
\* the disconnect callback runs only when the connection is gone.
TransportInv ==
  \A t \in Tunnels :
    /\ fwdOf[t] \in Listening => socket[t] \in {"open", "closed"}
    /\ fwdOf[t] \notin Listening => socket[t] = "none"
    /\ (fwdOf[t] \in Listening /\ ssh[t] = "up")
         => socket[t] = "open" /\ t \in client
    /\ listener[t] \in {"called", "cleared", "done"} => ssh[t] # "up"

\* The shutdown pass leaves no open port behind it.
ShutdownInv ==
  phase = "shutdown" =>
    /\ \A f \in Listening \ (todo \cup {cur}) :
         portForwarders[f] # NoTunnel =>
           \/ socket[portForwarders[f]] = "closed"
           \/ ssh[portForwarders[f]] = "closeFailed"
    /\ step = "closeSocket" => ssh[portForwarders[cur]] # "up"

\* What every reachable state satisfies, and every step preserves.
IndInv ==
  /\ TypeOK
  /\ ControlInv
  /\ MapInv
  /\ TransportInv
  /\ NoOrphanListener
  /\ ShutdownInv

-----------------------------------------------------------------------------
(* What comments and the user interface say, and the code does not do. *)

\* MyLocalPortForwarder.run() catches "connection refused on remote end" and
\* goes on accepting: a refused channel does not end the accept loop while
\* the SSH connection is up.
RefusalIsSurvived ==
  \A t \in Tunnels :
    (/\ fwdOf[t] \in LocalForwards \ BadMask
     /\ ssh[t] = "up"
     /\ socket[t] = "open") => thread[t] # "dead"

\* The user interface says "SSH sessions stopped" once stop() has returned:
\* no SSH connection of the session is up any more.
StopDisconnects == phase = "stopped" => \A t \in Tunnels : ssh[t] # "up"

\* The monitoring page shows the actual state: once a disconnect has been
\* handled, and a pass of the monitor has begun, a remote forward that is
\* shown as running has an SSH connection.
RunningIsConnected ==
  \A f \in RemoteForwards :
    (/\ ForwardState(f) = "running"
     /\ phase = "retry"
     /\ listener[portForwarders[f]] = "done")
      => ssh[portForwarders[f]] = "up"

==============================================================================
