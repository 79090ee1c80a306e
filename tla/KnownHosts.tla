------------------------------ MODULE KnownHosts ------------------------------
(***************************************************************************)
(* The file of known hosts (AutoKnownHostsVerifier over sshj): every       *)
(* connection makes a verifier of its own, which reads the file, and adds  *)
(* a host that it does not find by writing the whole file again, without   *)
(* a lock.  Two streams that are open at the same time both begin at the   *)
(* first byte: unless they write the same line, the file is then `mixed',  *)
(* and what it says is not followed further.                               *)
(***************************************************************************)
EXTENDS Naturals, FiniteSets

CONSTANTS
  SshConnections,   \* those that are made or wait to be made at the same time
  Hosts, NoHost,    \* a name and a type of key, by which an entry is looked up
  Keys,
  MaxRekeys         \* bounds the times that some host changes its key

ASSUME KeysAssumption == Keys # {} /\ NoHost \notin Hosts

Entries == [host : Hosts, key : Keys]

VARIABLES
  hostKey,      \* the key of each host
  file,         \* the file: its entries, and whether it is mixed
  verifier,     \* per connection: its state, the host that it leads to, the entries that
                \* it read or added, whether these or its bytes are mixed with others,
                \* and (history) whether another one has written since it read
  added,        \* history: what some verifier has added
  harm,         \* history: somebody "raced", who wrote what he had read before another
                \* wrote, or a write has "failed"
  rekeys

knownVars == <<hostKey, file, verifier, added, harm, rekeys>>

KnownTypeOK ==
  /\ hostKey \in [Hosts -> Keys]
  /\ file \in [entries : SUBSET Entries, mixed : BOOLEAN]
  /\ verifier \in [SshConnections ->
       [state : {"none", "made", "adding", "writing"}, host : Hosts \cup {NoHost},
        entries : SUBSET Entries, mixed : BOOLEAN, stale : BOOLEAN]]
  /\ added \subseteq Entries /\ harm \in {"none", "raced", "failed"}
  /\ rekeys \in 0..MaxRekeys

NoVerifier == [state |-> "none", host |-> NoHost, entries |-> {}, mixed |-> FALSE, stale |-> FALSE]

\* Whose bytes mix with another's.
Mixes(v) == [v EXCEPT !.state = "writing", !.entries = {}, !.mixed = TRUE, !.stale = TRUE]

KnownInit ==
  /\ hostKey = [h \in Hosts |-> CHOOSE k \in Keys : TRUE]
  /\ file = [entries |-> {}, mixed |-> FALSE] /\ added = {}
  /\ verifier = [c \in SshConnections |-> NoVerifier]
  /\ harm = "none" /\ rekeys = 0

-----------------------------------------------------------------------------
Writing(c)    == verifier[c].state = "writing"
NobodyWrites  == \A c \in SshConnections : ~Writing(c)
Becomes(c, v) == verifier' = [verifier EXCEPT ![c] = v]
Quietly       == UNCHANGED <<hostKey, harm, rekeys>>

\* The verifier has accepted the host or refused it, and is not asked again: the
\* next connection makes another.
Ends(c) == Becomes(c, NoVerifier)

\* What of its lines a stream has written: none, some, or all of them.
Flushed(c) == {[entries |-> es, mixed |-> verifier[c].mixed] : es \in SUBSET verifier[c].entries}

\* createSshTransportSession: a verifier that has read the file, in whatever state it is; a
\* line that is cut is skipped.
MakeVerifier(c, h) ==
  /\ verifier[c].state = "none"
  /\ \E f \in {file} \cup UNION {Flushed(d) : d \in {d \in SshConnections : Writing(d)}} :
       Becomes(c, [state |-> "made", host |-> h, entries |-> f.entries, mixed |-> f.mixed,
                   stale |-> ~NobodyWrites])
  /\ UNCHANGED <<file, added>> /\ Quietly

Presented(c) == [host |-> verifier[c].host, key |-> hostKey[verifier[c].host]]
KnownOf(c)   == {e \in verifier[c].entries : e.host = verifier[c].host}

\* The host presents its key, and it is the known one.
Verified(c) ==
  /\ verifier[c].state = "made"
  /\ verifier[c].mixed \/ Presented(c) \in KnownOf(c)
  /\ Ends(c)
  /\ UNCHANGED <<file, added>> /\ Quietly

\* The entry is added to what the verifier has read: entries().add.
Adds(c) ==
  /\ Becomes(c, [verifier[c] EXCEPT !.state = "adding",
                    !.entries = IF verifier[c].mixed THEN {} ELSE @ \cup {Presented(c)}])
  /\ added' = added \cup {Presented(c)}
  /\ UNCHANGED file /\ Quietly

\* A variant that adds the key also when the host is known by another.
HostKeyChangedIsAdded(c) ==
  /\ verifier[c].state = "made"
  /\ verifier[c].mixed \/ (KnownOf(c) # {} /\ Presented(c) \notin KnownOf(c))
  /\ Adds(c)

\* The host is known by another key.
HostKeyChanged(c) ==
  /\ verifier[c].state = "made"
  /\ verifier[c].mixed \/ (KnownOf(c) # {} /\ Presented(c) \notin KnownOf(c))
  /\ Ends(c)
  /\ UNCHANGED <<file, added>> /\ Quietly

\* The host is not known to this verifier.
HostKeyUnverifiable(c) ==
  /\ verifier[c].state = "made"
  /\ verifier[c].mixed \/ KnownOf(c) = {}
  /\ Adds(c)

\* Two streams that write the same, single line: two connections to a new host.
SameBytes(c, d) ==
  /\ ~verifier[c].mixed /\ ~verifier[d].mixed
  /\ verifier[c].entries = verifier[d].entries
  /\ \A e, f \in verifier[c].entries : e = f

\* write(): the file is opened for writing, and is empty.  Who has read it before
\* has read what is no longer there.
OpenFile(c) ==
  /\ verifier[c].state = "adding"
  /\ file' = [entries |-> {}, mixed |-> FALSE]
  /\ LET clash == {d \in SshConnections : Writing(d) /\ ~SameBytes(c, d)} IN
     verifier' = [d \in SshConnections |->
       IF d \in clash \/ (d = c /\ clash # {}) THEN Mixes(verifier[d])
       ELSE IF d = c THEN [verifier[d] EXCEPT !.state = "writing"]
       ELSE IF verifier[d].state = "none" THEN NoVerifier
       ELSE [verifier[d] EXCEPT !.stale = TRUE]]
  /\ harm' = IF harm = "none" /\ verifier[c].stale THEN "raced" ELSE harm
  /\ UNCHANGED <<hostKey, added, rekeys>>

\* write() ends, and the host has been "permanently added".
CloseFile(c) ==
  /\ Writing(c)
  /\ file' = [entries |-> verifier[c].entries, mixed |-> verifier[c].mixed]
  /\ Ends(c)
  /\ UNCHANGED added /\ Quietly

\* Opening or writing throws; the RuntimeException ends the connection.
WriteFails(c) ==
  /\ \/ verifier[c].state = "adding" /\ UNCHANGED file
     \/ Writing(c) /\ file' \in Flushed(c)
  /\ Ends(c)
  /\ harm' = "failed"
  /\ UNCHANGED <<hostKey, added, rekeys>>

\* The connection is not made.
Disconnect(c) ==
  /\ verifier[c].state = "made"
  /\ Ends(c)
  /\ UNCHANGED <<file, added>> /\ Quietly

\* A host is set up again, with another key.
Rekey(h) ==
  /\ rekeys < MaxRekeys /\ rekeys' = rekeys + 1
  /\ \E k \in Keys \ {hostKey[h]} : hostKey' = [hostKey EXCEPT ![h] = k]
  /\ UNCHANGED <<file, verifier, added, harm>>

KnownNext ==
  \/ \E c \in SshConnections :
       \/ \E h \in Hosts : MakeVerifier(c, h)
       \/ Verified(c) \/ HostKeyChanged(c) \/ HostKeyUnverifiable(c)
       \/ OpenFile(c) \/ CloseFile(c) \/ WriteFails(c) \/ Disconnect(c)
  \/ \E h \in Hosts : Rekey(h)

KnownSpec == KnownInit /\ [][KnownNext]_knownVars

-----------------------------------------------------------------------------
(* Properties *)

\* A file that no two streams have mixed has one key per host, and each was
\* presented by the host: also in the middle of a write, after one that failed,
\* and when its writer had read what another has overwritten since.
OneKeyPerHost ==
  file.mixed \/ /\ \A d, e \in file.entries : d.host = e.host => d = e
                /\ file.entries \subseteq added

NobodyAdds == \A c \in SshConnections : verifier[c].state \notin {"adding", "writing"}

\* Unless a write has failed, the file is not empty once a host was added: whoever
\* truncates it last also writes it.
SomethingIsKnown == NobodyAdds /\ harm # "failed" /\ added # {} => file.mixed \/ file.entries # {}

\* What the log calls "permanently added" stays in the file as long as nobody writes
\* what he read before another wrote, and no write fails; then every host that
\* presents another key later is refused.
PermanentlyAdded == NobodyAdds /\ harm = "none" => ~file.mixed /\ added \subseteq file.entries

KnownHostsKept == OneKeyPerHost /\ SomethingIsKnown /\ PermanentlyAdded
=============================================================================
