------------------------------ MODULE ProxyTunnel ------------------------------
(***************************************************************************)
(* The socket of an SSH connection through an HTTP proxy                   *)
(* (ProxyTunnelSocketFactory): connect asks for the tunnel and reads the   *)
(* answer byte by byte up to the empty line that ends it.  What follows is *)
(* the SSH server's, and must be left to the SSH client.                   *)
(***************************************************************************)
EXTENDS Naturals, Sequences

\* A byte is the end of a line, a carriage return or some text; the words "200
\* connection established" are one.
Bytes == {"lf", "cr", "text", "established"}

VARIABLES
  answer,       \* what the proxy sends, before the bytes of the SSH server
  position,     \* how much of it was read
  newlinesSeen, headerDone,
  replyStr,     \* whether the first line has the words
  tunnel        \* "new", "reading", "open", or where connect swallowed an exception

tunnelVars == <<answer, position, newlinesSeen, headerDone, replyStr, tunnel>>

TunnelTypeOK ==
  /\ answer \in Seq(Bytes) /\ position \in 0..Len(answer)
  /\ newlinesSeen \in 0..2 /\ headerDone \in BOOLEAN /\ replyStr \in BOOLEAN
  /\ tunnel \in {"new", "reading", "open", "unconnected", "closed", "refused"}

TunnelInit ==
  /\ answer \in Seq(Bytes)
  /\ position = 0 /\ newlinesSeen = 0
  /\ headerDone = FALSE /\ replyStr = FALSE
  /\ tunnel = "new"

-----------------------------------------------------------------------------
\* connect to the proxy and write the request.
ConnectProxy ==
  /\ tunnel = "new"
  /\ tunnel' \in {"reading", "unconnected"}
  /\ UNCHANGED <<answer, position, newlinesSeen, headerDone, replyStr>>

\* A variant that takes a carriage return for text.
CountedStrictly(b) == IF b = "lf" THEN newlinesSeen + 1 ELSE 0

\* A carriage return neither counts nor starts a line.
Counted(b) == CASE b = "lf" -> newlinesSeen + 1
                [] b = "cr" -> newlinesSeen
                [] OTHER    -> 0

\* in.read() in the loop of doTunnelHandshake.
ReadByte ==
  /\ tunnel = "reading" /\ newlinesSeen < 2 /\ position < Len(answer)
  /\ LET b == answer[position + 1] IN
     /\ newlinesSeen' = Counted(b)
     /\ headerDone' = (headerDone \/ b = "lf")
     /\ replyStr' = (replyStr \/ (~headerDone /\ b = "established"))
  /\ position' = position + 1
  /\ UNCHANGED <<answer, tunnel>>

\* The proxy closes, or is silent for longer than the timeout of the socket.
ProxyFails ==
  /\ tunnel = "reading" /\ newlinesSeen < 2
  /\ tunnel' = "closed"
  /\ UNCHANGED <<answer, position, newlinesSeen, headerDone, replyStr>>

\* The answer is complete.  In every case but the first, connect logs the
\* exception and returns as if the socket were connected.
Judge ==
  /\ tunnel = "reading" /\ newlinesSeen = 2
  /\ tunnel' = IF replyStr THEN "open" ELSE "refused"
  /\ UNCHANGED <<answer, position, newlinesSeen, headerDone, replyStr>>

TunnelNext == ConnectProxy \/ ReadByte \/ ProxyFails \/ Judge

TunnelSpec == TunnelInit /\ [][TunnelNext]_tunnelVars

-----------------------------------------------------------------------------
(* Properties *)

\* An answer ends with an empty line: the end of a line that only carriage
\* returns, or nothing, separate from the end of the line before.
EndsAt(i) ==
  /\ answer[i] = "lf"
  /\ \E j \in 1..(i - 1) : /\ answer[j] = "lf"
                           /\ \A k \in (j + 1)..(i - 1) : answer[k] = "cr"

\* The client is left the first byte after the answer, neither earlier nor
\* later, however lines end; and the tunnel is open exactly when the first line
\* says so, and not another.
AnswerIsRead ==
  tunnel \in {"open", "refused"} =>
    /\ EndsAt(position) /\ \A i \in 1..(position - 1) : ~EndsAt(i)
    /\ tunnel = "open" <=>
         \E i \in 1..position : /\ answer[i] = "established"
                                /\ \A j \in 1..i : answer[j] # "lf"
===============================================================================
