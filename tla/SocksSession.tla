----------------------------- MODULE SocksSession -----------------------------
(***************************************************************************)
(* One SOCKS session of a dynamic forward: the main thread, the second     *)
(* thread that a BIND or a direct connection starts, the SSH channel that  *)
(* a CONNECT opens, and the client and the peers at the ends.              *)
(***************************************************************************)
EXTENDS Naturals, Sequences

CONSTANTS
  MaxBytes,   \* bounds the bytes of the client that wait to be read
  MaxSent     \* bounds what the client is sent

VARIABLES
  req,        \* what the client asks for: the command, and whether the library
              \* gives the address of the host (SOCKS4 only)
  main, second,  \* the two threads
  mode,       \* the field `mode'
  intr,       \* the interrupt flag of the main thread
  sock,       \* the client's socket, on this side
  client,     \* the client's end of it
  inbox,      \* its bytes that nobody has read
  sent,       \* what it was sent
  remote,     \* the other socket: accepted, and assigned to remote_sock
  ss,         \* the socket on which a BIND listens
  chan,       \* the SSH channel of a CONNECT
  missed,     \* history: the last time the channel notified, nobody waited
  late        \* history: remote_sock was assigned after an abort

threads == <<main, second, mode, intr>>
ends    == <<sock, client, inbox, sent>>
others  == <<remote, ss, chan>>
history == <<missed, late>>
vars    == <<req, threads, ends, others, history>>

MainPC == {"session", "read", "open", "copy", "listen", "direct", "reply",
           "refuse", "startPipe", "wait", "bind", "bindReply", "bindRead", "pipe",
           "throw", "abort", "ended"}
SecondPC == {"none", "run", "accept", "assign", "reply", "piping", "pipe",
             "throw", "abort", "ended"}

TypeOK ==
  /\ req \in [cmd : {"connect", "bind", "udp"}, ip : BOOLEAN]
  /\ main \in MainPC /\ second \in SecondPC
  /\ mode \in {"start", "accept", "pipe", "abort"}
  /\ intr \in BOOLEAN
  /\ sock \in {"open", "closed"} /\ client \in {"open", "eof", "reset"}
  /\ inbox \in 0..MaxBytes
  /\ sent \in Seq({"ok", "error", "data", "copied"}) /\ Len(sent) <= MaxSent
  /\ remote \in {"none", "accepted", "open", "closed"}
  /\ ss \in {"none", "open", "closed"}
  /\ chan \in {"none", "open", "copying", "closing", "closed"}
  /\ missed \in BOOLEAN /\ late \in BOOLEAN

Init ==
  /\ req \in [cmd : {"connect", "bind", "udp"}, ip : BOOLEAN]
  /\ main = "session" /\ second = "none" /\ mode = "start" /\ intr = FALSE
  /\ sock = "open" /\ client = "open" /\ inbox = 0 /\ sent = << >>
  /\ remote = "none" /\ ss = "none" /\ chan = "none"
  /\ missed = FALSE /\ late = FALSE

Writable == sock = "open" /\ client # "reset"
Room == Len(sent) + 3 < MaxSent   \* there is always room for the answers

MainAt(from, to) == main = from /\ main' = to /\ UNCHANGED <<second, intr>>
SecondAt(from, to) == second = from /\ second' = to /\ UNCHANGED <<main, intr>>

\* A message for the client; the write throws if its end is gone.
Send(m) == sent' = Append(sent, m) /\ UNCHANGED <<sock, client, inbox>>

-----------------------------------------------------------------------------
(* The end of a thread *)

\* A variant that looks only for an abort.
AnswersErrorInPipe == mode # "abort"

\* An exception is answered only before the request was granted, and not if
\* the other thread has aborted.
AnswersError == mode \notin {"abort", "pipe"}

Handle ==
  /\ IF AnswersError /\ Writable THEN Send("error") ELSE UNCHANGED ends
  /\ UNCHANGED <<req, mode, others, history>>

\* A variant that leaves the port of a BIND open.
AbortKeepsPort ==
  IF mode = "abort" THEN UNCHANGED <<mode, intr, ends, others>>
  ELSE /\ mode' = "abort"
       /\ remote' = IF remote = "open" THEN "closed" ELSE remote
       /\ sock' = "closed"
       /\ intr' = (intr \/ second # "none")
       /\ UNCHANGED <<client, inbox, sent, chan, ss>>

\* `abort', synchronized: it closes what is assigned, once.
Abort ==
  IF mode = "abort" THEN UNCHANGED <<mode, intr, ends, others>>
  ELSE /\ mode' = "abort"
       /\ remote' = IF remote = "open" THEN "closed" ELSE remote
       /\ sock' = "closed"
       /\ ss' = IF ss = "open" THEN "closed" ELSE ss
       /\ intr' = (intr \/ second # "none")
       /\ UNCHANGED <<client, inbox, sent, chan>>

MainHandles == MainAt("throw", "abort") /\ Handle

MainAborts ==
  /\ main = "abort" /\ main' = "ended"
  /\ Abort
  /\ UNCHANGED <<req, second, history>>

SecondHandles == SecondAt("throw", "abort") /\ Handle

SecondAborts ==
  /\ second = "abort" /\ second' = "ended"
  /\ Abort
  /\ UNCHANGED <<req, main, history>>

-----------------------------------------------------------------------------
(* The main thread *)

Quiet == UNCHANGED <<req, mode, ends, others, history>>

\* startSession: no authentication is asked for, but the handshake may fail.
Authenticate == MainAt("session", "read") /\ Quiet
AuthFails    == MainAt("session", "abort") /\ Quiet

\* handleRequest.  onUDP uses the address, which the library does not give for
\* SOCKS5: a NullPointerException, which nobody answers.
ReadRequest ==
  /\ CASE req.cmd = "connect" -> MainAt("read", "open")
       [] req.cmd = "bind"    -> MainAt("read", "bind")
       [] req.cmd = "udp"     -> MainAt("read", "abort")
  /\ Quiet

\* A variant that waits for a channel although no request came.
ReadFailsWaits == MainAt("read", "wait") /\ Quiet

ReadFails   == MainAt("read", "abort") /\ Quiet   \* `msg' is still null
AsksNothing == MainAt("read", "throw") /\ Quiet   \* no such command

\* onConnect of the dynamic forward: the channel copies before the answer.
OpenChannel ==
  /\ MainAt("open", "copy")
  /\ chan' = "open"
  /\ UNCHANGED <<req, mode, ends, remote, ss, history>>

OpenFails == MainAt("open", "throw") /\ Quiet
NoClient  == (MainAt("open", "abort") \/ MainAt("listen", "abort")) /\ Quiet

StartCopiers ==
  /\ MainAt("copy", "listen")
  /\ sock = "open"
  /\ chan' = "copying"
  /\ UNCHANGED <<req, mode, ends, remote, ss, history>>

CopiersFail == MainAt("copy", "throw") /\ (sock = "closed" \/ client = "reset") /\ Quiet

RegisterListener ==
  /\ MainAt("listen", IF req.ip THEN "direct" ELSE "reply")
  /\ Quiet

\* super.onConnect: with an address it connects to the host once more.
ConnectDirect ==
  /\ MainAt("direct", "reply")
  /\ remote' = "accepted"
  /\ UNCHANGED <<req, mode, ends, ss, chan, history>>

ConnectRefused == MainAt("direct", "refuse") /\ Quiet

Reply ==
  /\ main \in {"reply", "refuse"} /\ Writable
  /\ MainAt(main, IF remote = "accepted" THEN "startPipe" ELSE "wait")
  /\ Send(IF main = "reply" THEN "ok" ELSE "error")
  /\ UNCHANGED <<req, mode, others, history>>

\* The SocketException is caught, and what was connected is forgotten.
ReplyFails ==
  /\ main \in {"reply", "refuse"} /\ ~Writable
  /\ MainAt(main, "abort") /\ Quiet

StartPipe ==
  /\ main = "startPipe" /\ main' = "pipe"
  /\ mode' = "pipe"
  /\ remote' = "open"
  /\ second' = "run"
  /\ UNCHANGED <<req, intr, ends, ss, chan, history>>

\* onBind
Bind ==
  /\ MainAt("bind", "bindReply")
  /\ ss' = "open"
  /\ UNCHANGED <<req, mode, ends, remote, chan, history>>

BindFails == MainAt("bind", "throw") /\ Quiet

BindReply ==
  /\ main = "bindReply" /\ main' = "bindRead"
  /\ Writable /\ Send("ok")
  /\ mode' = "accept"
  /\ second' = "run"
  /\ UNCHANGED <<req, intr, others, history>>

BindReplyFails == MainAt("bindReply", "throw") /\ ~Writable /\ Quiet

TakeByte ==
  /\ sock = "open" /\ client # "reset" /\ inbox > 0
  /\ inbox' = inbox - 1
  /\ UNCHANGED <<req, mode, sock, client, sent, others, history>>

AtEnd   == sock = "open" /\ client = "eof" /\ inbox = 0
Broken  == sock = "closed" \/ client = "reset"

\* While the other thread accepts, what the client sends is thrown away.
BindRead ==
  \/ MainAt("bindRead", "bindRead") /\ mode = "accept" /\ TakeByte
  \/ MainAt("bindRead", "pipe") /\ mode = "pipe" /\ remote = "open" /\ TakeByte
  \/ MainAt("bindRead", "throw") /\ mode = "pipe" /\ TakeByte   \* the write fails
  \/ MainAt("bindRead", "abort") /\ mode = "abort" /\ TakeByte
  \/ MainAt("bindRead", "abort") /\ AtEnd /\ Quiet
  \/ MainAt("bindRead", "throw") /\ Broken /\ Quiet

\* After the pipe a CONNECT waits for its channel; a BIND is over.
AfterPipe  == IF req.cmd = "connect" THEN "wait" ELSE "abort"
PipeThrows == IF req.cmd = "connect" THEN "wait" ELSE "throw"

MainPipes ==
  \/ MainAt("pipe", "pipe") /\ remote = "open" /\ TakeByte
  \/ MainAt("pipe", PipeThrows) /\ TakeByte   \* the write fails
  \/ MainAt("pipe", AfterPipe) /\ AtEnd /\ Quiet
  \/ MainAt("pipe", PipeThrows) /\ Broken /\ Quiet

\* The idle time-out of the client's socket, which a BIND switches off.
MainIdles == MainAt("pipe", "wait") /\ req.cmd = "connect" /\ Quiet

Interrupted == MainAt("wait", "abort") /\ intr /\ Quiet

-----------------------------------------------------------------------------
(* The second thread *)

SecondRuns ==
  /\ SecondAt("run", CASE mode = "accept" -> "accept"
                      [] mode = "pipe"   -> "pipe"
                      [] mode = "abort"  -> "ended")
  /\ Quiet

\* doAccept takes a connection from the host that was named by its address;
\* without an address it drops every connection.
Accept ==
  /\ SecondAt("accept", "assign")
  /\ ss = "open" /\ req.ip
  /\ ss' = "closed"
  /\ remote' = "accepted"
  /\ UNCHANGED <<req, mode, ends, chan, history>>

\* The time-out, or a listening socket that was closed.
AcceptFails == SecondAt("accept", "throw") /\ Quiet

Assign ==
  /\ SecondAt("assign", "reply")
  /\ remote' = "open"
  /\ late' = (mode = "abort")
  /\ UNCHANGED <<req, mode, ends, ss, chan, missed>>

AcceptReply ==
  /\ SecondAt("reply", "piping") /\ Writable /\ Send("ok")
  /\ UNCHANGED <<req, mode, others, history>>

AcceptReplyFails == SecondAt("reply", "throw") /\ ~Writable /\ Quiet

\* The mode is set whatever it was before.
StartPiping ==
  /\ second = "piping" /\ second' = "pipe"
  /\ mode' = "pipe"
  /\ intr' = TRUE
  /\ UNCHANGED <<req, main, ends, others, history>>

SecondThrows == IF req.cmd = "connect" THEN "abort" ELSE "throw"

SecondPipes ==
  \/ /\ SecondAt("pipe", "pipe") /\ remote = "open" /\ Writable /\ Room
     /\ Send("data")
     /\ UNCHANGED <<req, mode, others, history>>
  \/ SecondAt("pipe", SecondThrows) /\ Quiet   \* a read or write fails
  \/ SecondAt("pipe", "abort") /\ remote = "open" /\ Quiet   \* the end, or idle

-----------------------------------------------------------------------------
(* The client and the channel *)

ClientSends ==
  /\ client = "open" /\ inbox < MaxBytes
  /\ inbox' = inbox + 1
  /\ UNCHANGED <<req, threads, sock, client, sent, others, history>>

ClientLeaves ==
  /\ client = "open"
  /\ \/ client' = "eof" /\ UNCHANGED inbox
     \/ client' = "reset" /\ inbox' = 0
  /\ UNCHANGED <<req, threads, sock, sent, others, history>>

ChannelReads == chan = "copying" /\ TakeByte /\ UNCHANGED <<main, second, intr>>

ChannelWrites ==
  /\ chan = "copying" /\ Writable /\ Room
  /\ Send("copied")
  /\ UNCHANGED <<req, threads, others, history>>

\* `notify' wakes the main thread if it waits, and is forgotten if it does not.
Notify ==
  /\ missed' = (main # "wait")
  /\ IF main = "wait" THEN MainAt("wait", "abort")
                      ELSE UNCHANGED <<main, second, intr>>

\* The channel is closed from its other end, or once its ends have ended; its
\* copier then closes the socket, and sendClose may be called once more.
ChannelCloses ==
  /\ \/ chan = "copying" /\ chan' = "closing" /\ UNCHANGED sock /\ Notify
     \/ /\ chan = "closing" /\ chan' = "closed" /\ sock' = "closed"
        /\ Notify \/ UNCHANGED <<main, second, intr, missed>>
  /\ UNCHANGED <<req, mode, client, inbox, sent, remote, ss, late>>

-----------------------------------------------------------------------------
Main ==
  \/ Authenticate \/ AuthFails \/ ReadRequest \/ ReadFails \/ AsksNothing
  \/ OpenChannel \/ OpenFails \/ NoClient \/ StartCopiers \/ CopiersFail
  \/ RegisterListener \/ ConnectDirect \/ ConnectRefused \/ Reply \/ ReplyFails
  \/ StartPipe \/ Bind \/ BindFails \/ BindReply \/ BindReplyFails \/ BindRead
  \/ MainPipes \/ MainIdles \/ Interrupted \/ MainHandles \/ MainAborts

Second ==
  \/ SecondRuns \/ Accept \/ AcceptFails \/ Assign \/ AcceptReply
  \/ AcceptReplyFails \/ StartPiping \/ SecondPipes \/ SecondHandles \/ SecondAborts

Next == Main \/ Second \/ ClientSends \/ ClientLeaves \/ ChannelReads
             \/ ChannelWrites \/ ChannelCloses

\* The threads run, accept and read time out, and a channel gets closed.
Spec == Init /\ [][Next]_vars /\ WF_vars(Main) /\ WF_vars(Second)
             /\ WF_vars(ChannelCloses)

-----------------------------------------------------------------------------
(* Properties *)

Over == main = "ended" /\ second \in {"none", "ended"}

\* When both threads have ended, whoever aborted first and wherever the other
\* one was, the client's socket and the port of a BIND are closed, and so is the
\* other socket unless it was accepted after the abort (abort, doAccept).
ClosedWhenOver ==
  Over => sock = "closed" /\ ss # "open" /\ (remote = "open" => late)

\* An error message is an answer to the request and never comes after it: what
\* was sent before it is the first answer of a BIND, of which it is the second,
\* or bytes that the channel of a CONNECT copies, which do not wait for the
\* answer.  So no error follows the bytes that the second thread pipes, whatever
\* either thread meets later (handleException, onConnect, doAccept).
ErrorAnswersRequest ==
  \A i, j \in 1..Len(sent) : i < j /\ sent[j] = "error" =>
     \/ req.cmd = "connect" /\ sent[i] = "copied"
     \/ req.cmd = "bind" /\ i = 1 /\ sent[i] = "ok"

\* When the client is gone both threads end, except that a main thread that
\* begins to wait after its channel has notified for the last time waits on
\* (MyDynamicPortForwarder.onConnect, abort).
SessionEnds ==
  (client # "open") ~>
     (Over \/ (main = "wait" /\ missed /\ second \in {"none", "ended"}))
=============================================================================
