---------------------------- MODULE PortForwarder ----------------------------
(***************************************************************************)
(* The port forwarders of one DrillRig session and the SSH transports      *)
(* below them.                                                             *)
(*                                                                         *)
(* A TUNNEL is one SSHClient together with the PortForwarder that was      *)
(* built on it, if one was: createPortForwarding makes a new SSHClient at  *)
(* every attempt, so the two always have the same identity.  A forward is  *)
(* a Forward element of the configuration; it is served by at most one     *)
(* tunnel at a time, the one the session monitor keeps in its map.         *)
(*                                                                         *)
(* The module holds what runs on the threads of the forwarders and of the  *)
(* SSH library: the accept loops, the SOCKS threads that open channels,    *)
(* the bind of a remote forward, and the disconnect callback.  What the    *)
(* session monitor does to a tunnel is in SessionMonitor.                  *)
(***************************************************************************)

CONSTANTS
  Tunnels,          \* the SSH clients that may be alive at the same time
  LocalForwards,    \* forwards of type "L"
  DynamicForwards,  \* forwards of type "D"
  RemoteForwards,   \* forwards of any other type
  SPort,            \* SPort[f] is the port forward f listens on
  BadMask,          \* forwards with a filter mask that is no regular expression
  Faults,           \* what the outside world may do wrong, see FaultKinds
  NoForward

Forwards == LocalForwards \cup DynamicForwards \cup RemoteForwards

\* The forwards that listen on a ServerSocket of this machine.
Listening == LocalForwards \cup DynamicForwards

(***************************************************************************)
(* lost    an SSH connection that was up dies                              *)
(* connect connecting to the SSH server or the proxy fails                 *)
(* auth    the server refuses the password                                 *)
(* port    a foreign process holds the local port                          *)
(* refuse  the server refuses to open a channel or to bind a remote port   *)
(* close   SSHClient.close() or the cancel request throws IOException      *)
(***************************************************************************)
FaultKinds == {"lost", "connect", "auth", "port", "refuse", "close"}

ASSUME ForwarderAssumption ==
  /\ LocalForwards \cap DynamicForwards = {}
  /\ Listening \cap RemoteForwards = {}
  /\ NoForward \notin Forwards
  /\ BadMask \subseteq Listening
  /\ Faults \subseteq FaultKinds
  /\ DOMAIN SPort = Forwards

VARIABLES
  ssh,       \* the transport: none, up, lost, closed, closeFailed
  fwdOf,     \* the forward whose PortForwarder was built on the client
  thread,    \* where the forwarder's thread is
  chan,      \* the channel being set up by startForwarding
  socket,    \* the ServerSocket: none, open, closed
  client,    \* the forwarders whose field client is not null
  listener,  \* the transport's DisconnectListener and how far its call is
  activeForwards, \* tunnels whose forward the SSH library lists as active
  remoteFwd  \* the forwarders whose field remoteFwd is not null

fwdVars == <<ssh, fwdOf, thread, chan, socket, client, listener,
             activeForwards, remoteFwd>>

SshStates      == {"none", "up", "lost", "closed", "closeFailed"}
ThreadStates   == {"none", "loop", "accept", "binding", "bound", "waiting",
                   "dead"}
ChanStates     == {"idle", "opening", "opened"}
SocketStates   == {"none", "open", "closed"}
ListenerStates == {"none", "set", "called", "cleared", "done"}

ForwarderTypeOK ==
  /\ ssh \in [Tunnels -> SshStates]
  /\ fwdOf \in [Tunnels -> Forwards \cup {NoForward}]
  /\ thread \in [Tunnels -> ThreadStates]
  /\ chan \in [Tunnels -> ChanStates]
  /\ socket \in [Tunnels -> SocketStates]
  /\ client \subseteq Tunnels
  /\ listener \in [Tunnels -> ListenerStates]
  /\ activeForwards \subseteq Tunnels
  /\ remoteFwd \subseteq Tunnels

ForwarderInit ==
  /\ ssh = [t \in Tunnels |-> "none"]
  /\ fwdOf = [t \in Tunnels |-> NoForward]
  /\ thread = [t \in Tunnels |-> "none"]
  /\ chan = [t \in Tunnels |-> "idle"]
  /\ socket = [t \in Tunnels |-> "none"]
  /\ client = {}
  /\ listener = [t \in Tunnels |-> "none"]
  /\ activeForwards = {}
  /\ remoteFwd = {}

-----------------------------------------------------------------------------
(***************************************************************************)
(* PortForwarder.isActive(), in the two reads it makes of a field that     *)
(* another thread may set to null in between: the null test and the use.   *)
(***************************************************************************)
Alive(t) == thread[t] \notin {"none", "dead"}

IsRemote(t) == fwdOf[t] \in RemoteForwards

LooksActive(t) ==
  IF IsRemote(t) THEN t \in remoteFwd
  ELSE /\ Alive(t)
       /\ t \in client
       /\ fwdOf[t] \in DynamicForwards => socket[t] = "open"

FieldStillSet(t) == IF IsRemote(t) THEN t \in remoteFwd ELSE t \in client

Connected(t) == IF IsRemote(t) THEN t \in activeForwards ELSE ssh[t] = "up"

IsActive(t) == LooksActive(t) /\ Connected(t)

-----------------------------------------------------------------------------
(***************************************************************************)
(* The accept loop of a local forwarder: a connection comes in and is not  *)
(* blocked (a blocked one is closed and changes nothing here).  A mask     *)
(* that does not compile raises an unchecked exception and ends the        *)
(* thread; nothing closes the ServerSocket.                                *)
(***************************************************************************)
LocalAccept(t) ==
  /\ fwdOf[t] \in LocalForwards
  /\ thread[t] = "accept"
  /\ chan[t] = "idle"
  /\ socket[t] = "open"
  /\ IF fwdOf[t] \in BadMask
       THEN /\ thread' = [thread EXCEPT ![t] = "dead"]
            /\ UNCHANGED chan
       ELSE /\ chan' = [chan EXCEPT ![t] = "opening"]
            /\ UNCHANGED thread
  /\ UNCHANGED <<ssh, fwdOf, socket, client, listener, activeForwards,
                 remoteFwd>>

(***************************************************************************)
(* The loop of a dynamic forwarder tests isActive() before every accept    *)
(* and ends, with its ServerSocket open, when it finds itself inactive.    *)
(***************************************************************************)
DynamicLoop(t) ==
  /\ fwdOf[t] \in DynamicForwards
  /\ thread[t] = "loop"
  /\ thread' = [thread EXCEPT ![t] = IF IsActive(t) THEN "accept" ELSE "dead"]
  /\ UNCHANGED <<ssh, fwdOf, chan, socket, client, listener, activeForwards,
                 remoteFwd>>

(***************************************************************************)
(* Every connection gets a SOCKS thread of its own; startForwarding is     *)
(* synchronized on the forwarder, so chan is the one that holds the lock.  *)
(* A connection that is blocked, or never asks for a CONNECT, opens none.  *)
(***************************************************************************)
DynamicAccept(t) ==
  /\ fwdOf[t] \in DynamicForwards
  /\ thread[t] = "accept"
  /\ socket[t] = "open"
  /\ IF fwdOf[t] \in BadMask
       THEN /\ thread' = [thread EXCEPT ![t] = "dead"]
            /\ UNCHANGED chan
       ELSE /\ thread' = [thread EXCEPT ![t] = "loop"]
            /\ \/ chan[t] = "idle" /\ chan' = [chan EXCEPT ![t] = "opening"]
               \/ UNCHANGED chan
  /\ UNCHANGED <<ssh, fwdOf, socket, client, listener, activeForwards,
                 remoteFwd>>

\* accept() on a ServerSocket that was closed throws, and the loop is left.
AcceptFails(t) ==
  /\ thread[t] = "accept"
  /\ socket[t] = "closed"
  /\ fwdOf[t] \in LocalForwards => chan[t] = "idle"
  /\ thread' = [thread EXCEPT ![t] = "dead"]
  /\ UNCHANGED <<ssh, fwdOf, chan, socket, client, listener, activeForwards,
                 remoteFwd>>

(***************************************************************************)
(* startForwarding throws.  In a local forwarder it runs in the accept     *)
(* loop and every exception it can raise (the library's ConnectionException *)
(* and TransportException, or a null client) leaves that loop; in a        *)
(* dynamic one only the SOCKS thread ends.                                 *)
(***************************************************************************)
ForwardingFails(t) ==
  /\ chan' = [chan EXCEPT ![t] = "idle"]
  /\ thread' = [thread EXCEPT ![t] =
                  IF fwdOf[t] \in LocalForwards THEN "dead" ELSE @]
  /\ UNCHANGED listener

\* A variant that reconnects a client whose connection is gone.
OpenChannelReconnects(t) ==
  /\ chan[t] = "opening"
  /\ t \in client
  /\ ssh' = [ssh EXCEPT ![t] = "up"]
  /\ chan' = [chan EXCEPT ![t] = "opened"]
  /\ UNCHANGED <<fwdOf, thread, socket, client, listener, activeForwards,
                 remoteFwd>>

\* startForwarding up to chan.open().
OpenChannel(t) ==
  /\ chan[t] = "opening"
  /\ \/ /\ t \in client
        /\ ssh[t] = "up"
        /\ chan' = [chan EXCEPT ![t] = "opened"]
        /\ UNCHANGED <<thread, listener>>
     \/ /\ t \notin client \/ ssh[t] # "up" \/ "refuse" \in Faults
        /\ ForwardingFails(t)
  /\ UNCHANGED <<ssh, fwdOf, socket, client, activeForwards, remoteFwd>>

\* The last statement of startForwarding: only from now on is the forwarder
\* told when its connection is lost.
RegisterListener(t) ==
  /\ chan[t] = "opened"
  /\ IF t \in client
       THEN /\ chan' = [chan EXCEPT ![t] = "idle"]
            /\ listener' = [listener EXCEPT ![t] =
                              IF @ = "none" THEN "set" ELSE @]
            /\ UNCHANGED thread
       ELSE ForwardingFails(t)
  /\ UNCHANGED <<ssh, fwdOf, socket, client, activeForwards, remoteFwd>>

-----------------------------------------------------------------------------
(***************************************************************************)
(* The thread of a remote forwarder: the bind request is answered, the     *)
(* field is assigned, and the thread waits until it is interrupted.        *)
(***************************************************************************)
RemotePortTaken(t) ==
  \E u \in activeForwards \ {t} : /\ ssh[u] = "up"
                                  /\ IsRemote(u)
                                  /\ SPort[fwdOf[u]] = SPort[fwdOf[t]]

BindAnswered(t) ==
  /\ IsRemote(t)
  /\ thread[t] = "binding"
  /\ \/ /\ ssh[t] = "up"
        /\ ~RemotePortTaken(t)
        /\ thread' = [thread EXCEPT ![t] = "bound"]
        /\ activeForwards' = activeForwards \cup {t}
     \/ /\ ssh[t] # "up" \/ RemotePortTaken(t) \/ "refuse" \in Faults
        /\ thread' = [thread EXCEPT ![t] = "dead"]
        /\ UNCHANGED activeForwards
  /\ UNCHANGED <<ssh, fwdOf, chan, socket, client, listener, remoteFwd>>

AssignRemoteFwd(t) ==
  /\ thread[t] = "bound"
  /\ thread' = [thread EXCEPT ![t] = "waiting"]
  /\ remoteFwd' = remoteFwd \cup {t}
  /\ UNCHANGED <<ssh, fwdOf, chan, socket, client, listener, activeForwards>>

WaitInterrupted(t) ==
  /\ thread[t] = "waiting"
  /\ listener[t] = "done"
  /\ thread' = [thread EXCEPT ![t] = "dead"]
  /\ UNCHANGED <<ssh, fwdOf, chan, socket, client, listener, activeForwards,
                 remoteFwd>>

-----------------------------------------------------------------------------
\* The SSH library: a connection dies, and a registered listener is called
\* on the library's reader thread.
ConnectionLost(t) ==
  /\ "lost" \in Faults
  /\ ssh[t] = "up"
  /\ ssh' = [ssh EXCEPT ![t] = "lost"]
  /\ listener' = [listener EXCEPT ![t] = IF @ = "set" THEN "called" ELSE @]
  /\ UNCHANGED <<fwdOf, thread, chan, socket, client, activeForwards,
                 remoteFwd>>

\* notifyDisconnect of a local or dynamic forwarder: first client = null ...
NotifyClearsClient(t) ==
  /\ fwdOf[t] \in Listening
  /\ listener[t] = "called"
  /\ client' = client \ {t}
  /\ listener' = [listener EXCEPT ![t] = "cleared"]
  /\ UNCHANGED <<ssh, fwdOf, thread, chan, socket, activeForwards, remoteFwd>>

\* ... then serverSocket.close().
NotifyClosesSocket(t) ==
  /\ listener[t] = "cleared"
  /\ socket' = [socket EXCEPT ![t] = IF @ = "open" THEN "closed" ELSE @]
  /\ listener' = [listener EXCEPT ![t] = "done"]
  /\ UNCHANGED <<ssh, fwdOf, thread, chan, client, activeForwards, remoteFwd>>

\* notifyDisconnect of a remote forwarder: remoteFwd = null; interrupt().
NotifyRemote(t) ==
  /\ IsRemote(t)
  /\ listener[t] = "called"
  /\ remoteFwd' = remoteFwd \ {t}
  /\ listener' = [listener EXCEPT ![t] = "done"]
  /\ UNCHANGED <<ssh, fwdOf, thread, chan, socket, client, activeForwards>>

-----------------------------------------------------------------------------
(***************************************************************************)
(* What the session monitor calls.  SSHClient.close() ends a transport     *)
(* that is still up through the disconnect listener, on the caller's       *)
(* thread; result is "closed", or "closeFailed" when it throws.            *)
(***************************************************************************)
CloseClient(t, result) ==
  /\ ssh' = [ssh EXCEPT ![t] = result]
  /\ IF ssh[t] = "up" /\ listener[t] = "set"
       THEN /\ listener' = [listener EXCEPT ![t] = "done"]
            /\ IF IsRemote(t)
                 THEN /\ remoteFwd' = remoteFwd \ {t}
                      /\ UNCHANGED <<client, socket>>
                 ELSE /\ client' = client \ {t}
                      /\ socket' = [socket EXCEPT ![t] =
                                      IF @ = "open" THEN "closed" ELSE @]
                      /\ UNCHANGED remoteFwd
       ELSE UNCHANGED <<listener, client, socket, remoteFwd>>
  /\ UNCHANGED <<fwdOf, thread, chan>>

CloseSocket(t) ==
  /\ socket' = [socket EXCEPT ![t] = IF @ = "open" THEN "closed" ELSE @]
  /\ UNCHANGED <<ssh, fwdOf, thread, chan, client, listener, activeForwards,
                 remoteFwd>>

\* A client that nobody can reach any more and that holds nothing.
Inert(t) ==
  /\ ssh[t] # "up"
  /\ ~Alive(t)
  /\ chan[t] = "idle"
  /\ socket[t] # "open"
  /\ listener[t] \notin {"called", "cleared"}

\* A new SSHClient that connected: t forgets what it was before.
NewClient(t) ==
  /\ Inert(t)
  /\ ssh' = [ssh EXCEPT ![t] = "up"]
  /\ fwdOf' = [fwdOf EXCEPT ![t] = NoForward]
  /\ thread' = [thread EXCEPT ![t] = "none"]
  /\ socket' = [socket EXCEPT ![t] = "none"]
  /\ client' = client \ {t}
  /\ listener' = [listener EXCEPT ![t] = "none"]
  /\ activeForwards' = activeForwards \ {t}
  /\ remoteFwd' = remoteFwd \ {t}
  /\ UNCHANGED chan

PortTaken(f) ==
  \E u \in Tunnels : /\ socket[u] = "open"
                     /\ SPort[fwdOf[u]] = SPort[f]

\* A variant whose ServerSocket shares the port with the one of another.
NewForwarderSharesPort(t, f) ==
  /\ f \in Listening
  /\ fwdOf' = [fwdOf EXCEPT ![t] = f]
  /\ socket' = [socket EXCEPT ![t] = "open"]
  /\ client' = client \cup {t}
  /\ thread' = [thread EXCEPT ![t] =
                  IF f \in DynamicForwards THEN "loop" ELSE "accept"]
  /\ UNCHANGED <<ssh, chan, listener, activeForwards, remoteFwd>>

\* The constructor of a forwarder for f on client t, and its start().
NewListeningForwarder(t, f) ==
  /\ f \in Listening
  /\ ~PortTaken(f)
  /\ fwdOf' = [fwdOf EXCEPT ![t] = f]
  /\ socket' = [socket EXCEPT ![t] = "open"]
  /\ client' = client \cup {t}
  /\ thread' = [thread EXCEPT ![t] =
                  IF f \in DynamicForwards THEN "loop" ELSE "accept"]
  /\ UNCHANGED <<ssh, chan, listener, activeForwards, remoteFwd>>

NewRemoteForwarder(t, f) ==
  /\ f \in RemoteForwards
  /\ fwdOf' = [fwdOf EXCEPT ![t] = f]
  /\ client' = client \cup {t}
  /\ listener' = [listener EXCEPT ![t] = "set"]
  /\ thread' = [thread EXCEPT ![t] = "binding"]
  /\ UNCHANGED <<ssh, chan, socket, activeForwards, remoteFwd>>

\* One step of the threads of tunnel t and of its SSH transport.
ForwarderThread(t) ==
  \/ DynamicLoop(t)
  \/ AcceptFails(t)
  \/ OpenChannel(t)
  \/ RegisterListener(t)
  \/ BindAnswered(t)
  \/ AssignRemoteFwd(t)
  \/ WaitInterrupted(t)
  \/ NotifyClearsClient(t)
  \/ NotifyClosesSocket(t)
  \/ NotifyRemote(t)

\* What clients and the network do to tunnel t.
ForwarderEnv(t) == LocalAccept(t) \/ DynamicAccept(t) \/ ConnectionLost(t)
==============================================================================
