-------------------------- MODULE ServerPartsProofs --------------------------
(***************************************************************************)
(* Proofs about the parts of the server that share no state with others.   *)
(* Each holds for every value of the constants of its module.              *)
(***************************************************************************)
EXTENDS SocksSession, ConfigStore, KnownHosts, ProxyTunnel, TLAPS

-----------------------------------------------------------------------------
(* ConfigStore: with one writer, config.xml is never half a file, for every  *)
(* number of saves, every file system fault and a crash at every step.       *)

LEMMA ContentTypes ==
  /\ Empty \in Contents
  /\ Torn \in Contents
  /\ \A c \in Configs \cup {NoConfig} : Half(c) \in Contents /\ Full(c) \in Contents
  BY DEF Empty, Torn, Half, Full, Contents, Kinds

LEMMA InitTypes == SaveInit => SaveTypeOK
  BY StoreAssumption, ContentTypes
  DEF SaveInit, StoreInit, SaveTypeOK, StoreTypeOK, Configs

\* What a single step of writing or reading does to the types.
LEMMA StoreStepTypes ==
  ASSUME SaveTypeOK, NEW w \in Workers, StoreStep(w) \/ Written(w, "isFile")
  PROVE  SaveTypeOK'
<1> USE StoreAssumption
    DEF SaveTypeOK, StoreTypeOK, Goto, fileVars, WritePcs, ReadPcs
<1>1. CASE OpenTmp(w)
  BY <1>1, ContentTypes DEF OpenTmp
<1>2. CASE MarshalHead(w)
  <2>1. PICK c \in Contents : content' = [content EXCEPT ![out[w]] = c]
                              \/ UNCHANGED content
    BY <1>2, ContentTypes DEF MarshalHead
  <2>2. content' \in [Inodes -> Contents]
    BY <2>1
  <2> QED
    BY <1>2, <2>2 DEF MarshalHead
<1>3. CASE MarshalTail(w)
  <2>1. content' \in [Inodes -> Contents]
    BY <1>3, ContentTypes DEF MarshalTail
  <2> QED
    BY <1>3, <2>1 DEF MarshalTail
<1>4. CASE TestExists(w) \/ DeleteOld(w) \/ Rename(w)
  BY <1>4 DEF TestExists, DeleteOld, Rename
<1>5. CASE TestIsFile(w)
  BY <1>5 DEF TestIsFile, Configs
<1>6. CASE Unmarshal(w)
  BY <1>6 DEF Unmarshal, Contents
<1>7. CASE Written(w, "isFile")
  BY <1>7 DEF Written
<1> QED
  BY <1>1, <1>2, <1>3, <1>4, <1>5, <1>6, <1>7 DEF StoreStep

LEMMA NextTypes == SaveTypeOK /\ [SaveNext]_storeVars => SaveTypeOK'
<1> SUFFICES ASSUME SaveTypeOK, [SaveNext]_storeVars PROVE SaveTypeOK'
  OBVIOUS
<1> USE StoreAssumption
    DEF SaveTypeOK, StoreTypeOK, Goto, fileVars, WritePcs, ReadPcs
<1>1. ASSUME NEW w \in Workers, StoreStep(w) \/ Written(w, "isFile")
      PROVE  SaveTypeOK'
  BY <1>1, StoreStepTypes
<1>2. ASSUME NEW w \in Workers, Boot(w) \/ Loaded(w) PROVE SaveTypeOK'
  BY <1>2 DEF Boot, Loaded, Idle
<1>3. ASSUME NEW w \in Workers, NEW v \in Versions, BeginSave(w, v)
      PROVE  SaveTypeOK'
  BY <1>3 DEF BeginSave, Configs
<1>4. CASE CrashProcess
  BY <1>4 DEF CrashProcess
<1>5. CASE UNCHANGED storeVars
  BY <1>5 DEF storeVars
<1> QED
  BY <1>1, <1>2, <1>3, <1>4, <1>5 DEF SaveNext

\* The types of the variables, in every reachable state.
THEOREM SpecSaveTypeOK == SaveSpec => []SaveTypeOK
  BY InitTypes, NextTypes, PTL DEF SaveSpec

-----------------------------------------------------------------------------
WriterIndInv == SaveTypeOK /\ WriterInv /\ ConfigFileComplete

LEMMA KindsDiffer ==
  /\ Empty.kind = "empty"
  /\ Torn.kind = "torn"
  /\ \A c : Half(c).kind = "half" /\ Full(c).kind = "full"
  BY DEF Empty, Torn, Half, Full

LEMMA InitWriter == SaveInit => WriterInv /\ ConfigFileComplete
  BY StoreAssumption, KindsDiffer
  DEF SaveInit, StoreInit, WriterInv, ConfigFileComplete

LEMMA StoreStepWriter ==
  ASSUME OneWriter, WriterIndInv, NEW w \in Workers,
         StoreStep(w) \/ Written(w, "isFile")
  PROVE  WriterInv' /\ ConfigFileComplete'
<1> USE StoreAssumption
    DEF WriterIndInv, SaveTypeOK, StoreTypeOK, WriterInv, ConfigFileComplete,
        Goto, fileVars, OneWriter
<1>1. CASE OpenTmp(w)
  BY <1>1 DEF OpenTmp, InUse
<1>2. CASE MarshalHead(w)
  BY <1>2 DEF MarshalHead
<1>3. CASE MarshalTail(w)
  BY <1>3 DEF MarshalTail
<1>4. CASE TestExists(w) \/ DeleteOld(w)
  BY <1>4 DEF TestExists, DeleteOld
<1>5. CASE Rename(w)
  BY <1>5, KindsDiffer DEF Rename
<1>6. CASE TestIsFile(w) \/ Unmarshal(w) \/ Written(w, "isFile")
  BY <1>6 DEF TestIsFile, Unmarshal, Written
<1> QED
  BY <1>1, <1>2, <1>3, <1>4, <1>5, <1>6 DEF StoreStep

LEMMA NextWriter ==
  ASSUME OneWriter
  PROVE  WriterIndInv /\ [SaveNext]_storeVars => WriterIndInv'
<1> SUFFICES ASSUME WriterIndInv, [SaveNext]_storeVars PROVE WriterIndInv'
  OBVIOUS
<1> USE DEF WriterInv, ConfigFileComplete, Goto, fileVars
<1>1. SaveTypeOK'
  BY NextTypes DEF WriterIndInv
<1>2. ASSUME NEW w \in Workers, StoreStep(w) \/ Written(w, "isFile")
      PROVE  WriterInv' /\ ConfigFileComplete'
  BY <1>2, StoreStepWriter
<1>3. ASSUME NEW w \in Workers, Boot(w) \/ Loaded(w)
      PROVE  WriterInv' /\ ConfigFileComplete'
  BY <1>3 DEF Boot, Loaded, Idle, WriterIndInv, SaveTypeOK
<1>4. ASSUME NEW w \in Workers, NEW v \in Versions, BeginSave(w, v)
      PROVE  WriterInv' /\ ConfigFileComplete'
  BY <1>4 DEF BeginSave, WriterIndInv, SaveTypeOK, OneWriter
<1>5. CASE CrashProcess
  BY <1>1, <1>5 DEF CrashProcess, WriterIndInv
<1>6. CASE UNCHANGED storeVars
  BY <1>1, <1>6 DEF storeVars, WriterIndInv, Empty, Half, Full
<1>7. CASE SaveNext
  <2> HIDE DEF WriterInv, ConfigFileComplete
  <2>1. CASE \E w \in Workers : \/ StoreStep(w) \/ Written(w, "isFile")
                                \/ Loaded(w) \/ Boot(w)
                                \/ \E v \in Versions : BeginSave(w, v)
    BY <2>1, <1>1, <1>2, <1>3, <1>4 DEF WriterIndInv
  <2> QED
    BY <1>7, <2>1, <1>5 DEF SaveNext
<1> QED
  BY <1>6, <1>7

\* With one save at a time config.xml is complete whenever it exists, in spite
\* of failed writes, deletes and renames, and of crashes at every step.
THEOREM SpecConfigFileComplete ==
  ASSUME OneWriter
  PROVE  SaveSpec => []ConfigFileComplete
<1>1. SaveInit => WriterIndInv
  BY InitTypes, InitWriter DEF WriterIndInv
<1>2. WriterIndInv /\ [SaveNext]_storeVars => WriterIndInv'
  BY NextWriter
<1>3. WriterIndInv => ConfigFileComplete
  BY DEF WriterIndInv
<1> QED
  BY <1>1, <1>2, <1>3, PTL DEF SaveSpec

-----------------------------------------------------------------------------
(* KnownHosts, for any number of connections and hosts, any keys, and hosts  *)
(* that change their keys as often as they like.                             *)

OneKey(es) == \A d, e \in es : d.host = e.host => d = e

Verifiers == [state : {"none", "made", "adding", "writing"}, host : Hosts \cup {NoHost},
              entries : SUBSET Entries, mixed : BOOLEAN, stale : BOOLEAN]

KnownTypes ==
  /\ hostKey \in [Hosts -> Keys]
  /\ file \in [entries : SUBSET Entries, mixed : BOOLEAN]
  /\ verifier \in [SshConnections -> Verifiers]
  /\ added \subseteq Entries

\* A verifier has one key per host, each of which was added before, and who adds
\* has something to write.
VerifierInv ==
  \A c \in SshConnections :
    /\ verifier[c].state # "none" => verifier[c].host \in Hosts
    /\ OneKey(verifier[c].entries) /\ verifier[c].entries \subseteq added
    /\ verifier[c].state \in {"adding", "writing"} => verifier[c].mixed \/ verifier[c].entries # {}

FileInv ==
  /\ OneKey(file.entries) /\ file.entries \subseteq added
  /\ SomethingIsKnown

\* As long as nobody has written what he read before another wrote: one writer at
\* a time, whom everybody else knows to be ahead; who is not behind has read what is
\* in the file; and what was added is there, or with somebody who will write it.
ApartInv ==
  harm = "none" =>
    /\ ~file.mixed /\ \A c \in SshConnections : ~verifier[c].mixed
    /\ \A c \in SshConnections : Writing(c) => ~verifier[c].stale
    /\ \A c, d \in SshConnections :
         Writing(c) /\ c # d /\ verifier[d].state # "none" => verifier[d].stale
    /\ \A c \in SshConnections :
         NobodyWrites /\ verifier[c].state # "none" /\ ~verifier[c].stale
           => file.entries \subseteq verifier[c].entries
    /\ \A e \in added :
         \/ NobodyWrites /\ e \in file.entries
         \/ \E d \in SshConnections : /\ verifier[d].state \in {"adding", "writing"}
                                      /\ e \in verifier[d].entries

KnownInv == KnownTypes /\ VerifierInv /\ FileInv /\ ApartInv

LEMMA Became ==
  ASSUME KnownTypes, NEW c \in SshConnections, NEW v, Becomes(c, v)
  PROVE  \A d \in SshConnections : verifier'[d] = IF d = c THEN v ELSE verifier[d]
  BY DEF KnownTypes, Becomes

LEMMA NoVerifierIs ==
  /\ NoVerifier \in Verifiers /\ NoVerifier.state = "none" /\ NoVerifier.entries = {}
  /\ ~NoVerifier.mixed /\ ~NoVerifier.stale /\ OneKey(NoVerifier.entries)
  BY DEF NoVerifier, Verifiers, OneKey

\* What follows about a step that leaves both the file and the writers alone.
LEMMA Reads ==
  ASSUME KnownInv, NEW c \in SshConnections, NEW v \in Verifiers, Becomes(c, v),
         verifier[c].state \in {"none", "made"}, v.state # "writing",
         v.state # "none" => v.host \in Hosts,
         v.state = "adding" => v.mixed \/ v.entries # {},
         OneKey(v.entries), v.entries \subseteq added', added \subseteq added',
         added' \subseteq Entries, v.state # "adding" => added' = added,
         harm = "none" => /\ ~v.mixed /\ added' \subseteq added \cup v.entries
                          /\ ~NobodyWrites /\ v.state # "none" => v.stale
                          /\ NobodyWrites /\ v.state # "none" /\ ~v.stale
                               => file.entries \subseteq v.entries,
         UNCHANGED <<hostKey, file, harm>>
  PROVE  KnownInv'
<1>1. \A d \in SshConnections : verifier'[d] = IF d = c THEN v ELSE verifier[d]
  BY Became DEF KnownInv
<1>2. KnownTypes'
  BY DEF KnownInv, KnownTypes, Becomes
<1>3. VerifierInv'
  BY <1>1 DEF KnownInv, VerifierInv, OneKey
<1>4. (NobodyWrites' <=> NobodyWrites) /\ \A d \in SshConnections : Writing(d)' <=> Writing(d)
  BY <1>1 DEF NobodyWrites, Writing
<1>5. NobodyAdds' => NobodyAdds /\ added' = added
  BY <1>1 DEF NobodyAdds
<1>6. FileInv'
  BY <1>5 DEF KnownInv, FileInv, OneKey, SomethingIsKnown
<1>7. ASSUME harm' = "none" PROVE ApartInv'
  <2>1. harm = "none" /\ file' = file
    BY <1>7
  <2>2. ~file'.mixed /\ \A d \in SshConnections : ~verifier'[d].mixed
    BY <1>1, <2>1 DEF KnownInv, ApartInv
  <2>3. ASSUME NEW d \in SshConnections, Writing(d)' PROVE ~verifier'[d].stale
    <3>1. Writing(d) /\ d # c
      BY <1>4, <2>3 DEF Writing
    <3> QED
      BY <1>1, <2>1, <3>1 DEF KnownInv, ApartInv
  <2>4. ASSUME NEW a \in SshConnections, NEW d \in SshConnections, Writing(a)', a # d,
               verifier'[d].state # "none"
        PROVE  verifier'[d].stale
    BY <1>1, <1>4, <2>1, <2>4 DEF KnownInv, ApartInv, NobodyWrites
  <2>5. ASSUME NEW d \in SshConnections, NobodyWrites', verifier'[d].state # "none",
               ~verifier'[d].stale
        PROVE  file'.entries \subseteq verifier'[d].entries
    BY <1>1, <1>4, <2>1, <2>5 DEF KnownInv, ApartInv
  <2>6. ASSUME NEW e \in added'
        PROVE  \/ NobodyWrites' /\ e \in file'.entries
               \/ \E d \in SshConnections : /\ verifier'[d].state \in {"adding", "writing"}
                                            /\ e \in verifier'[d].entries
    <3>1. CASE e \in added /\ NobodyWrites /\ e \in file.entries
      BY <1>4, <2>1, <3>1
    <3>2. CASE e \in added /\ ~(NobodyWrites /\ e \in file.entries)
      <4>1. PICK d \in SshConnections : /\ verifier[d].state \in {"adding", "writing"}
                                        /\ e \in verifier[d].entries
        BY <2>1, <3>2 DEF KnownInv, ApartInv
      <4> QED
        BY <1>1, <4>1
    <3>3. CASE e \notin added
      BY <1>1, <2>1, <2>6, <3>3
    <3> QED
      BY <3>1, <3>2, <3>3
  <2> QED
    BY <2>2, <2>3, <2>4, <2>5, <2>6 DEF ApartInv
<1> QED
  BY <1>2, <1>3, <1>6, <1>7 DEF KnownInv, ApartInv

LEMMA MakeVerifierInv ==
  ASSUME KnownInv, NEW c \in SshConnections, NEW h \in Hosts, MakeVerifier(c, h)
  PROVE  KnownInv'
<1>1. PICK f \in {file} \cup UNION {Flushed(d) : d \in {d \in SshConnections : Writing(d)}} :
        Becomes(c, [state |-> "made", host |-> h, entries |-> f.entries, mixed |-> f.mixed,
                    stale |-> ~NobodyWrites])
  BY DEF MakeVerifier
<1>2. /\ f \in [entries : SUBSET Entries, mixed : BOOLEAN]
      /\ OneKey(f.entries) /\ f.entries \subseteq added
      /\ harm = "none" => ~f.mixed
      /\ NobodyWrites => f = file
  <2>1. CASE f = file
    BY <2>1 DEF KnownInv, KnownTypes, FileInv, ApartInv
  <2>2. CASE f # file
    <3>1. PICK d \in SshConnections : Writing(d) /\ f \in Flushed(d)
      BY <2>2
    <3>2. PICK es \in SUBSET verifier[d].entries :
            f = [entries |-> es, mixed |-> verifier[d].mixed]
      BY <3>1 DEF Flushed
    <3>3. verifier[d].entries \subseteq Entries /\ verifier[d].mixed \in BOOLEAN
      BY DEF KnownInv, KnownTypes, Verifiers
    <3> QED
      BY <3>1, <3>2, <3>3 DEF KnownInv, VerifierInv, OneKey, ApartInv, NobodyWrites
  <2> QED
    BY <2>1, <2>2
<1> DEFINE v == [state |-> "made", host |-> h, entries |-> f.entries, mixed |-> f.mixed,
                 stale |-> ~NobodyWrites]
<1>3. /\ v \in Verifiers /\ v.state = "made" /\ v.host = h /\ v.entries = f.entries
      /\ v.mixed = f.mixed /\ v.stale = ~NobodyWrites
  BY <1>2 DEF Verifiers
<1>4. /\ Becomes(c, v) /\ verifier[c].state = "none"
      /\ UNCHANGED <<hostKey, file, harm, added>>
  BY <1>1 DEF MakeVerifier, Quietly
<1>5. added \subseteq Entries
  BY DEF KnownInv, KnownTypes
<1> HIDE DEF v
<1> QED
  BY <1>2, <1>3, <1>4, <1>5, Reads

LEMMA EndsInv ==
  ASSUME KnownInv, NEW c \in SshConnections, Verified(c) \/ HostKeyChanged(c) \/ Disconnect(c)
  PROVE  KnownInv'
<1>1. /\ Becomes(c, NoVerifier) /\ verifier[c].state = "made"
      /\ UNCHANGED <<hostKey, file, harm, added>>
  BY DEF Verified, HostKeyChanged, Disconnect, Ends, Quietly
<1>2. added \subseteq Entries
  BY DEF KnownInv, KnownTypes
<1> QED
  BY <1>1, <1>2, NoVerifierIs, Reads

LEMMA HostKeyUnverifiableInv ==
  ASSUME KnownInv, NEW c \in SshConnections, HostKeyUnverifiable(c) PROVE KnownInv'
<1> DEFINE es == IF verifier[c].mixed THEN {} ELSE verifier[c].entries \cup {Presented(c)}
           v  == [verifier[c] EXCEPT !.state = "adding", !.entries = es]
<1>1. verifier[c] \in Verifiers /\ verifier[c].state = "made" /\ verifier[c].host \in Hosts
  BY DEF KnownInv, KnownTypes, VerifierInv, HostKeyUnverifiable
<1>2. Presented(c) \in Entries /\ Presented(c).host = verifier[c].host
  BY <1>1 DEF KnownInv, KnownTypes, Presented, Entries
<1>3. es \in SUBSET Entries /\ (verifier[c].mixed \/ es # {}) /\ es \subseteq added \cup {Presented(c)}
  BY <1>1, <1>2 DEF KnownInv, VerifierInv, Verifiers
<1>4. OneKey(es)
  <2>1. ~verifier[c].mixed => \A e \in verifier[c].entries : e.host # verifier[c].host
    BY DEF HostKeyUnverifiable, KnownOf
  <2> QED
    BY <1>2, <2>1 DEF KnownInv, VerifierInv, OneKey
<1>5. /\ v \in Verifiers /\ v.state = "adding" /\ v.host = verifier[c].host /\ v.entries = es
      /\ v.mixed = verifier[c].mixed /\ v.stale = verifier[c].stale
  BY <1>1, <1>3 DEF Verifiers
<1>6. /\ Becomes(c, v) /\ added' = added \cup {Presented(c)}
      /\ UNCHANGED <<hostKey, file, harm>>
  BY DEF HostKeyUnverifiable, Adds, Quietly
<1>7. added' \subseteq Entries
  BY <1>2, <1>6 DEF KnownInv, KnownTypes
<1>8. ASSUME harm = "none"
      PROVE  /\ ~v.mixed /\ added' \subseteq added \cup v.entries
             /\ ~NobodyWrites => v.stale
             /\ NobodyWrites /\ ~v.stale => file.entries \subseteq v.entries
  <2>1. ~verifier[c].mixed
    BY <1>8 DEF KnownInv, ApartInv
  <2>2. ~NobodyWrites => verifier[c].stale
    BY <1>1, <1>8 DEF KnownInv, ApartInv, NobodyWrites, Writing
  <2>3. NobodyWrites /\ ~verifier[c].stale => file.entries \subseteq verifier[c].entries
    BY <1>1, <1>8 DEF KnownInv, ApartInv
  <2> QED
    BY <1>5, <1>6, <2>1, <2>2, <2>3
<1> HIDE DEF v, es
<1> QED
  BY <1>1, <1>3, <1>4, <1>5, <1>6, <1>7, <1>8, Reads

LEMMA OpenFileInv ==
  ASSUME KnownInv, NEW c \in SshConnections, OpenFile(c) PROVE KnownInv'
<1> DEFINE clash == {d \in SshConnections : Writing(d) /\ ~SameBytes(c, d)}
<1>1. \A d \in SshConnections :
        verifier'[d] = IF d \in clash \/ (d = c /\ clash # {}) THEN Mixes(verifier[d])
                       ELSE IF d = c THEN [verifier[d] EXCEPT !.state = "writing"]
                       ELSE IF verifier[d].state = "none" THEN NoVerifier
                       ELSE [verifier[d] EXCEPT !.stale = TRUE]
  BY Zenon DEF OpenFile
<1>0. /\ verifier' = [d \in SshConnections |-> verifier'[d]]
      /\ \A d \in clash : d \in SshConnections /\ d # c /\ verifier[d].state # "none"
  BY DEF OpenFile, Writing
<1>2. \A d \in SshConnections : verifier[d] \in Verifiers
  BY DEF KnownInv, KnownTypes
<1>3. /\ verifier[c].state = "adding"
      /\ file' = [entries |-> {}, mixed |-> FALSE]
      /\ UNCHANGED <<hostKey, added>>
      /\ harm' = IF harm = "none" /\ verifier[c].stale THEN "raced" ELSE harm
  BY DEF OpenFile
<1> HIDE DEF clash
\* What becomes of a verifier: who writes, and who has been overtaken.
<1>4. ASSUME NEW d \in SshConnections
      PROVE  /\ verifier'[d] \in Verifiers
             /\ verifier'[d].state = IF d = c THEN "writing" ELSE IF d \in clash THEN "writing"
                                     ELSE verifier[d].state
             /\ verifier[d].state # "none" => verifier'[d].host = verifier[d].host
             /\ d # c /\ verifier[d].state # "none" => verifier'[d].stale
             /\ d = c /\ clash = {} => verifier'[d].stale = verifier[d].stale
             /\ clash = {} => verifier'[d].mixed = verifier[d].mixed \/ verifier[d].state = "none"
             /\ verifier[d].state = "none" => ~verifier'[d].mixed
             /\ verifier[d].mixed => verifier'[d].mixed \/ verifier[d].state = "none"
             /\ verifier'[d].entries = verifier[d].entries
                  \/ (verifier'[d].entries = {} /\ (verifier'[d].mixed \/ verifier[d].state = "none"))
  <2>1. CASE d = c /\ clash = {}
    <3>1. verifier'[d] = [verifier[d] EXCEPT !.state = "writing"]
      BY <1>1, <2>1
    <3> QED
      BY <1>2, <1>3, <2>1, <3>1 DEF Verifiers
  <2>2. CASE (d = c /\ clash # {}) \/ (d # c /\ d \in clash)
    <3>1. verifier'[d] = Mixes(verifier[d])
      BY <1>1, <2>2
    <3>2. verifier[d].state # "none" /\ verifier[d] \in Verifiers
      BY <1>0, <1>2, <1>3, <2>2
    <3> QED
      BY <2>2, <3>1, <3>2 DEF Mixes, Verifiers
  <2>3. CASE d # c /\ d \notin clash /\ verifier[d].state = "none"
    <3>1. verifier'[d] = NoVerifier
      BY <1>1, <2>3
    <3> QED
      BY <2>3, <3>1, NoVerifierIs
  <2>4. CASE d # c /\ d \notin clash /\ verifier[d].state # "none"
    <3>1. verifier'[d] = [verifier[d] EXCEPT !.stale = TRUE]
      BY <1>1, <2>4
    <3> QED
      BY <1>2, <2>4, <3>1 DEF Verifiers
  <2> QED
    BY <2>1, <2>2, <2>3, <2>4
<1>5. KnownTypes'
  BY <1>0, <1>3, <1>4 DEF KnownInv, KnownTypes
<1>6. VerifierInv'
  <2> SUFFICES ASSUME NEW d \in SshConnections
               PROVE  /\ verifier'[d].state # "none" => verifier'[d].host \in Hosts
                      /\ OneKey(verifier'[d].entries) /\ verifier'[d].entries \subseteq added'
                      /\ verifier'[d].state \in {"adding", "writing"}
                           => verifier'[d].mixed \/ verifier'[d].entries # {}
    BY DEF VerifierInv, OneKey
  <2>1. verifier'[d].state # "none" => verifier[d].state # "none"
    BY <1>0, <1>3, <1>4
  <2>2. verifier'[d].entries = verifier[d].entries \/ verifier'[d].entries = {}
    BY <1>4
  <2>3. verifier'[d].state \in {"adding", "writing"} => verifier[d].state \in {"adding", "writing"}
    BY <1>3, <1>4 DEF clash, Writing
  <2> QED
    BY <1>3, <1>4, <2>1, <2>2, <2>3 DEF KnownInv, VerifierInv, OneKey
<1>7. FileInv'
  <2>1. ~NobodyAdds'
    BY <1>4 DEF NobodyAdds
  <2> QED
    BY <1>3, <2>1 DEF FileInv, OneKey, SomethingIsKnown
<1>8. ASSUME harm' = "none" PROVE ApartInv'
  <2>1. harm = "none" /\ ~verifier[c].stale
    BY <1>3, <1>8
  <2>2. NobodyWrites
    BY <1>3, <2>1 DEF KnownInv, ApartInv, NobodyWrites, Writing
  <2>3. clash = {}
    BY <2>2 DEF NobodyWrites, clash
  <2>4. \A d \in SshConnections : ~verifier'[d].mixed
    BY <1>4, <2>1, <2>3 DEF KnownInv, ApartInv
  <2>5. \A d \in SshConnections : Writing(d)' <=> d = c
    BY <1>4, <2>2, <2>3 DEF NobodyWrites, Writing
  <2>6. ~NobodyWrites' /\ ~verifier'[c].stale
    BY <1>4, <2>1, <2>3, <2>5 DEF NobodyWrites
  <2>7. \A d \in SshConnections : d # c /\ verifier'[d].state # "none" => verifier'[d].stale
    BY <1>4, <2>3
  <2>8. ASSUME NEW e \in added'
        PROVE  \E d \in SshConnections : /\ verifier'[d].state \in {"adding", "writing"}
                                          /\ e \in verifier'[d].entries
    <3>1. PICK d \in SshConnections : /\ verifier[d].state \in {"adding", "writing"}
                                      /\ e \in verifier[d].entries
      BY <1>3, <2>1, <2>2, <2>8 DEF KnownInv, ApartInv
    <3> QED
      BY <1>4, <2>3, <2>4, <3>1
  <2> QED
    BY <1>3, <2>4, <2>5, <2>6, <2>7, <2>8 DEF ApartInv
<1> QED
  BY <1>5, <1>6, <1>7, <1>8 DEF KnownInv, ApartInv

\* The end of a write, or of an attempt: the verifier is forgotten.
LEMMA Forgotten ==
  ASSUME KnownInv, NEW c \in SshConnections, Ends(c),
         file' \in [entries : SUBSET Entries, mixed : BOOLEAN], UNCHANGED <<hostKey, added>>,
         OneKey(file'.entries), file'.entries \subseteq added
  PROVE  /\ \A d \in SshConnections : verifier'[d] = IF d = c THEN NoVerifier ELSE verifier[d]
         /\ KnownTypes' /\ VerifierInv' /\ OneKey(file'.entries)
<1>1. \A d \in SshConnections : verifier'[d] = IF d = c THEN NoVerifier ELSE verifier[d]
  BY Became DEF KnownInv, Ends
<1>2. KnownTypes'
  BY NoVerifierIs DEF KnownInv, KnownTypes, Ends, Becomes
<1>3. VerifierInv'
  BY <1>1, NoVerifierIs DEF KnownInv, VerifierInv, OneKey
<1> QED
  BY <1>1, <1>2, <1>3

LEMMA CloseFileInv ==
  ASSUME KnownInv, NEW c \in SshConnections, CloseFile(c) PROVE KnownInv'
<1>1. /\ file' = [entries |-> verifier[c].entries, mixed |-> verifier[c].mixed]
      /\ Ends(c) /\ UNCHANGED <<hostKey, added, harm>> /\ verifier[c].state = "writing"
  BY DEF CloseFile, Quietly, Writing
<1>2. /\ file' \in [entries : SUBSET Entries, mixed : BOOLEAN]
      /\ file'.entries = verifier[c].entries /\ file'.mixed = verifier[c].mixed
      /\ OneKey(file'.entries) /\ file'.entries \subseteq added
      /\ file'.mixed \/ file'.entries # {}
  BY <1>1 DEF KnownInv, KnownTypes, VerifierInv, Verifiers
<1>3. /\ \A d \in SshConnections : verifier'[d] = IF d = c THEN NoVerifier ELSE verifier[d]
      /\ KnownTypes' /\ VerifierInv'
  BY <1>1, <1>2, Forgotten
<1>4. FileInv'
  BY <1>1, <1>2 DEF FileInv, OneKey, SomethingIsKnown
<1>5. ASSUME harm' = "none" PROVE ApartInv'
  <2>1. harm = "none" /\ ~verifier[c].mixed
    BY <1>1, <1>5 DEF KnownInv, ApartInv
  <2>2. \A d \in SshConnections :
          /\ ~verifier'[d].mixed
          /\ verifier'[d].state # "none" => verifier'[d].stale /\ verifier'[d].state # "writing"
    BY <1>1, <1>3, <2>1, NoVerifierIs DEF KnownInv, ApartInv, Writing
  <2>3. NobodyWrites'
    BY <2>2 DEF NobodyWrites, Writing
  <2>4. ASSUME NEW e \in added'
        PROVE  \/ e \in file'.entries
               \/ \E d \in SshConnections : /\ verifier'[d].state \in {"adding", "writing"}
                                            /\ e \in verifier'[d].entries
    <3>1. PICK d \in SshConnections : /\ verifier[d].state \in {"adding", "writing"}
                                      /\ e \in verifier[d].entries
      BY <1>1, <2>1, <2>4 DEF KnownInv, ApartInv, NobodyWrites, Writing
    <3>2. CASE d = c
      BY <1>2, <3>1, <3>2
    <3>3. CASE d # c
      BY <1>3, <3>1, <3>3
    <3> QED
      BY <3>2, <3>3
  <2> QED
    BY <1>2, <2>1, <2>2, <2>3, <2>4 DEF ApartInv, Writing
<1> QED
  BY <1>3, <1>4, <1>5 DEF KnownInv, ApartInv

LEMMA WriteFailsInv ==
  ASSUME KnownInv, NEW c \in SshConnections, WriteFails(c) PROVE KnownInv'
<1>1. Ends(c) /\ harm' = "failed" /\ UNCHANGED <<hostKey, added>>
  BY DEF WriteFails
<1>2. /\ file' \in [entries : SUBSET Entries, mixed : BOOLEAN]
      /\ OneKey(file'.entries) /\ file'.entries \subseteq added
  <2>1. CASE file' = file
    BY <2>1 DEF KnownInv, KnownTypes, FileInv
  <2>2. CASE file' \in Flushed(c)
    <3>1. PICK es \in SUBSET verifier[c].entries :
            file' = [entries |-> es, mixed |-> verifier[c].mixed]
      BY <2>2 DEF Flushed
    <3>2. verifier[c].entries \subseteq Entries /\ verifier[c].mixed \in BOOLEAN
      BY DEF KnownInv, KnownTypes, Verifiers
    <3> QED
      BY <3>1, <3>2 DEF KnownInv, VerifierInv, OneKey
  <2> QED
    BY <2>1, <2>2 DEF WriteFails
<1>3. KnownTypes' /\ VerifierInv'
  BY <1>1, <1>2, Forgotten
<1>4. FileInv' /\ ApartInv'
  BY <1>1, <1>2 DEF FileInv, ApartInv, OneKey, SomethingIsKnown
<1> QED
  BY <1>3, <1>4 DEF KnownInv

LEMMA StaysInv ==
  ASSUME KnownInv, UNCHANGED <<file, verifier, added, harm>>, hostKey' \in [Hosts -> Keys]
  PROVE  KnownInv'
<1>1. KnownTypes' /\ VerifierInv'
  BY DEF KnownInv, KnownTypes, VerifierInv, OneKey
<1>2. FileInv'
  BY DEF KnownInv, FileInv, OneKey, SomethingIsKnown, NobodyAdds
<1>3. ApartInv'
  BY DEF KnownInv, ApartInv, NobodyWrites, Writing
<1> QED
  BY <1>1, <1>2, <1>3 DEF KnownInv

LEMMA KnownInitInv == KnownInit => KnownInv
<1> SUFFICES ASSUME KnownInit PROVE KnownInv
  OBVIOUS
<1>1. KnownTypes
  BY KeysAssumption, NoVerifierIs DEF KnownInit, KnownTypes
<1>2. VerifierInv
  BY NoVerifierIs DEF KnownInit, VerifierInv
<1>3. FileInv
  BY DEF KnownInit, FileInv, OneKey, SomethingIsKnown
<1>4. ApartInv
  BY NoVerifierIs DEF KnownInit, ApartInv, Writing
<1> QED
  BY <1>1, <1>2, <1>3, <1>4 DEF KnownInv

LEMMA KnownNextInv == KnownInv /\ [KnownNext]_knownVars => KnownInv'
<1> SUFFICES ASSUME KnownInv, [KnownNext]_knownVars PROVE KnownInv'
  OBVIOUS
<1>1. ASSUME NEW c \in SshConnections, NEW h \in Hosts, MakeVerifier(c, h) PROVE KnownInv'
  BY <1>1, MakeVerifierInv
<1>2. ASSUME NEW c \in SshConnections, Verified(c) \/ HostKeyChanged(c) \/ Disconnect(c)
      PROVE  KnownInv'
  BY <1>2, EndsInv
<1>3. ASSUME NEW c \in SshConnections, HostKeyUnverifiable(c) PROVE KnownInv'
  BY <1>3, HostKeyUnverifiableInv
<1>4. ASSUME NEW c \in SshConnections, OpenFile(c) \/ CloseFile(c) \/ WriteFails(c)
      PROVE  KnownInv'
  BY <1>4, OpenFileInv, CloseFileInv, WriteFailsInv
<1>5. ASSUME NEW h \in Hosts, Rekey(h) PROVE KnownInv'
  BY <1>5, StaysInv DEF Rekey, KnownInv, KnownTypes
<1>6. CASE UNCHANGED knownVars
  BY <1>6, StaysInv DEF knownVars, KnownInv, KnownTypes
<1> QED
  BY <1>1, <1>2, <1>3, <1>4, <1>5, <1>6 DEF KnownNext

\* One key per host in every file that no two streams have mixed, whoever writes
\* last, whatever he read while another wrote, and whatever fails; not an empty file
\* after the first host; and every host that was added, as long as nobody writes
\* what another has overtaken (AutoKnownHostsVerifier.hostKeyUnverifiableAction).
THEOREM SpecKnownHostsKept == KnownSpec => []KnownHostsKept
<1>1. KnownInv => KnownHostsKept
  <2>1. ASSUME KnownInv PROVE OneKeyPerHost
    BY <2>1 DEF KnownInv, FileInv, OneKey, OneKeyPerHost
  <2>2. ASSUME KnownInv PROVE PermanentlyAdded
    BY <2>2 DEF KnownInv, ApartInv, PermanentlyAdded, NobodyAdds
  <2> QED
    BY <2>1, <2>2 DEF KnownInv, FileInv, KnownHostsKept
<1> QED
  BY <1>1, KnownInitInv, KnownNextInv, PTL DEF KnownSpec

-----------------------------------------------------------------------------
(* SocksSession: what is closed when a session is over, and what a client may *)
(* be sent after the bytes of a peer.  Both hold for every request, every    *)
(* interleaving of the two threads, the client and the channel, and whatever *)
(* fails.                                                                    *)

Messages == {"ok", "error", "data", "copied"}
OnlyCopied == \A i \in 1..Len(sent) : req.cmd = "connect" /\ sent[i] = "copied"

\* Where the main thread is before there is a second one and anything is piped.
Early == {"session", "read", "open", "copy", "listen", "direct", "reply", "refuse",
          "startPipe", "bind", "bindReply"}

SocksTypes ==
  /\ req.cmd \in {"connect", "bind", "udp"}
  /\ main \in MainPC /\ second \in SecondPC
  /\ mode \in {"start", "accept", "pipe", "abort"}
  /\ sent \in Seq(Messages)

\* The field `mode', and where the threads are: the second thread starts with a
\* mode, and what it pipes it pipes in no other.
ModeInv ==
  /\ main \in Early => second = "none" /\ mode = "start"
  /\ second = "none" => mode = "start" \/ (mode = "abort" /\ main = "ended")
  /\ second # "none" => mode # "start"
  /\ second = "pipe" => mode \in {"pipe", "abort"}
  /\ second = "ended" => mode = "abort"
  /\ main = "ended" => mode = "abort" \/ second \in {"pipe", "throw", "abort"}

\* What an abort closes stays closed, except that the accept thread may still
\* assign the socket that it has accepted.
ClosedInv ==
  /\ mode = "abort" => sock = "closed" /\ ss # "open" /\ (remote = "open" => late)
  /\ main = "ended" => sock = "closed" /\ ss # "open"

\* Where the main thread has not answered, and where the second one has not.
Unanswered == {"session", "read", "open", "copy", "listen", "direct", "reply", "refuse",
               "bind", "bindReply", "throw"}
Accepting  == {"run", "accept", "assign", "reply", "throw"}

\* What the client was sent before each place at which an error may be answered;
\* a BIND has no channel, and its main thread throws while the other one accepts
\* only when it cannot write.
AnswerInv ==
  /\ main \in {"open", "copy", "listen", "direct", "reply", "refuse"} => req.cmd = "connect"
  /\ main \in {"bind", "bindReply", "bindRead"} => req.cmd = "bind"
  /\ chan # "none" => req.cmd = "connect"
  /\ main \in Unanswered /\ second = "none" => OnlyCopied
  /\ second \in Accepting /\ mode = "accept" => req.cmd = "bind" /\ sent = <<"ok">>
  /\ second = "none" => main \notin {"bindRead", "pipe"}
  /\ main = "pipe" => mode # "accept"
  /\ main = "throw" /\ mode = "accept" => ~Writable
  /\ ErrorAnswersRequest

SocksInv == SocksTypes /\ ModeInv /\ ClosedInv /\ AnswerInv

-----------------------------------------------------------------------------
LEMMA NothingSent ==
  ASSUME sent' = sent, req' = req
  PROVE  (OnlyCopied' <=> OnlyCopied) /\ (ErrorAnswersRequest' <=> ErrorAnswersRequest)
  BY DEF OnlyCopied, ErrorAnswersRequest

\* One more message for the client.
LEMMA Sent ==
  ASSUME SocksInv, NEW m \in Messages, Send(m), req' = req,
         m = "error" => OnlyCopied \/ (req.cmd = "bind" /\ sent = <<"ok">>)
  PROVE  /\ sent' \in Seq(Messages)
         /\ m = "copied" /\ req.cmd = "connect" => (OnlyCopied' <=> OnlyCopied)
         /\ m = "ok" /\ req.cmd = "bind" /\ OnlyCopied => sent' = <<"ok">>
         /\ ErrorAnswersRequest'
<1>1. /\ sent' = Append(sent, m) /\ sent \in Seq(Messages) /\ Len(sent) \in Nat
      /\ sent' \in Seq(Messages) /\ Len(sent') = Len(sent) + 1
      /\ \A i \in 1..Len(sent) : sent'[i] = sent[i]
      /\ sent'[Len(sent) + 1] = m
  BY DEF SocksInv, SocksTypes, Send
<1>2. ASSUME m = "copied", req.cmd = "connect" PROVE OnlyCopied' <=> OnlyCopied
  BY <1>1, <1>2 DEF OnlyCopied
<1>3. ASSUME m = "ok", req.cmd = "bind", OnlyCopied PROVE sent' = <<"ok">>
  <2>1. Len(sent) = 0
    BY <1>1, <1>3 DEF OnlyCopied
  <2>2. sent = << >>
    BY <1>1, <2>1
  <2> QED
    BY <1>1, <1>3, <2>2
<1>4. ASSUME NEW i \in 1..Len(sent'), NEW j \in 1..Len(sent'), i < j, sent'[j] = "error"
      PROVE  \/ req.cmd = "connect" /\ sent'[i] = "copied"
             \/ req.cmd = "bind" /\ i = 1 /\ sent'[i] = "ok"
  <2>1. i \in 1..Len(sent) /\ sent'[i] = sent[i]
    BY <1>1, <1>4
  <2>2. CASE j \in 1..Len(sent)
    BY <1>1, <1>4, <2>1, <2>2 DEF SocksInv, AnswerInv, ErrorAnswersRequest
  <2>3. CASE j = Len(sent) + 1
    <3>1. CASE OnlyCopied
      BY <2>1, <3>1 DEF OnlyCopied
    <3>2. CASE req.cmd = "bind" /\ sent = <<"ok">>
      BY <2>1, <3>2
    <3> QED
      BY <1>1, <1>4, <2>3, <3>1, <3>2
  <2> QED
    BY <1>1, <2>2, <2>3
<1> QED
  BY <1>1, <1>2, <1>3, <1>4 DEF ErrorAnswersRequest

LEMMA InitInv == Init => SocksInv
<1> SUFFICES ASSUME Init PROVE SocksInv
  OBVIOUS
<1>1. sent = << >> /\ Len(sent) = 0 /\ sent \in Seq(Messages)
  BY DEF Init
<1>2. OnlyCopied /\ ErrorAnswersRequest
  BY <1>1 DEF OnlyCopied, ErrorAnswersRequest
<1>3. req.cmd \in {"connect", "bind", "udp"}
  BY DEF Init
<1> QED
  BY <1>1, <1>2, <1>3
  DEF Init, SocksInv, SocksTypes, ModeInv, ClosedInv, AnswerInv, Early, Accepting, Writable,
      MainPC, SecondPC

-----------------------------------------------------------------------------
(* The steps of the main thread *)

\* From where the main thread only moves on.
LEMMA MainMoves ==
  ASSUME SocksInv, NEW from \in MainPC \ {"ended"}, NEW to \in MainPC \ {"ended"}, MainAt(from, to),
         to \in Early => from \in Early,
         to \in Unanswered => from \in Unanswered \/ second # "none",
         to \in {"open", "copy", "listen", "direct", "reply", "refuse"} => req.cmd = "connect",
         to \in {"bind", "bindReply", "bindRead"} => req.cmd = "bind",
         to \in {"bindRead", "pipe"} => second # "none",
         to = "pipe" => mode # "accept",
         to = "throw" /\ mode = "accept" => ~Writable',
         chan' # "none" => req.cmd = "connect",
         UNCHANGED <<req, mode, sock, ss, sent, late>>,
         remote' # "open" \/ remote' = remote
  PROVE  SocksInv'
<1>1. SocksTypes'
  BY DEF SocksInv, SocksTypes, MainAt
<1>2. ModeInv'
  BY DEF SocksInv, SocksTypes, ModeInv, MainAt, Early
<1>3. ClosedInv'
  BY DEF SocksInv, SocksTypes, ClosedInv, MainAt
<1>4. AnswerInv'
  BY NothingSent DEF SocksInv, AnswerInv, MainAt
<1> QED
  BY <1>1, <1>2, <1>3, <1>4 DEF SocksInv

LEMMA MainGoesOn ==
  ASSUME SocksInv,
         \/ Authenticate \/ AuthFails \/ ReadRequest \/ ReadFails \/ AsksNothing
         \/ OpenChannel \/ OpenFails \/ NoClient \/ StartCopiers \/ CopiersFail
         \/ RegisterListener \/ ConnectDirect \/ ConnectRefused \/ ReplyFails
         \/ BindFails \/ BindReplyFails \/ BindRead \/ MainPipes \/ MainIdles
         \/ Interrupted
  PROVE  SocksInv'
<1> USE DEF Quiet, ends, others, history, MainPC, Early, Unanswered
<1>0. /\ chan # "none" => req.cmd = "connect"
      /\ main \in Early => mode = "start"
      /\ main \in {"open", "copy", "listen", "direct", "reply", "refuse"} => req.cmd = "connect"
      /\ main \in {"bind", "bindReply", "bindRead"} => req.cmd = "bind"
      /\ main \in {"bindRead", "pipe"} => second # "none"
      /\ main = "pipe" => mode # "accept"
  BY DEF SocksInv, ModeInv, AnswerInv
<1>1. CASE Authenticate \/ AuthFails \/ ReadFails \/ AsksNothing
  BY <1>0, <1>1, MainMoves DEF Authenticate, AuthFails, ReadFails, AsksNothing, MainAt
<1>2. CASE ReadRequest
  <2>1. req.cmd \in {"connect", "bind", "udp"}
    BY DEF SocksInv, SocksTypes
  <2>2. \/ req.cmd = "connect" /\ MainAt("read", "open")
        \/ req.cmd = "bind" /\ MainAt("read", "bind")
        \/ MainAt("read", "abort")
    BY <1>2, <2>1 DEF ReadRequest
  <2>3. Quiet
    BY <1>2 DEF ReadRequest
  <2> QED
    BY <1>0, <2>2, <2>3, MainMoves DEF MainAt
<1>3. CASE OpenChannel \/ OpenFails \/ NoClient
  BY <1>0, <1>3, MainMoves DEF OpenChannel, OpenFails, NoClient, MainAt
<1>4. CASE StartCopiers \/ CopiersFail
  BY <1>0, <1>4, MainMoves DEF StartCopiers, CopiersFail, MainAt
<1>5. CASE RegisterListener
  BY <1>0, <1>5, MainMoves DEF RegisterListener, MainAt
<1>6. CASE ConnectDirect \/ ConnectRefused
  BY <1>0, <1>6, MainMoves DEF ConnectDirect, ConnectRefused, MainAt
<1>7. CASE ReplyFails
  BY <1>0, <1>7, MainMoves DEF ReplyFails, MainAt
<1>8. CASE BindFails \/ BindReplyFails
  BY <1>0, <1>8, MainMoves DEF BindFails, BindReplyFails, MainAt
<1>9. CASE BindRead
  <2>1. CASE \E to \in {"bindRead", "pipe", "throw", "abort"} :
               MainAt("bindRead", to) /\ TakeByte /\ (to \in {"pipe", "throw"} => mode = "pipe")
    BY <1>0, <2>1, MainMoves DEF TakeByte, MainAt
  <2>2. CASE MainAt("bindRead", "abort") /\ Quiet
    BY <1>0, <2>2, MainMoves DEF MainAt
  <2>3. CASE MainAt("bindRead", "throw") /\ Broken /\ Quiet
    BY <1>0, <2>3, MainMoves DEF MainAt, Broken, Writable
  <2> QED
    BY <1>9, <2>1, <2>2, <2>3 DEF BindRead
<1>10. CASE MainPipes
  <2>1. \E to \in {"pipe", "wait", "abort", "throw"} : MainAt("pipe", to) /\ (TakeByte \/ Quiet)
    BY <1>10 DEF MainPipes, AfterPipe, PipeThrows
  <2> QED
    BY <1>0, <2>1, MainMoves DEF TakeByte, MainAt
<1>11. CASE MainIdles \/ Interrupted
  BY <1>0, <1>11, MainMoves DEF MainIdles, Interrupted, MainAt
<1> QED
  BY <1>1, <1>2, <1>3, <1>4, <1>5, <1>6, <1>7, <1>8, <1>9, <1>10, <1>11

LEMMA ReplyInv == ASSUME SocksInv, Reply PROVE SocksInv'
<1>1. PICK m \in {"ok", "error"} : Send(m)
  BY DEF Reply
<1>2. OnlyCopied /\ second = "none" /\ req' = req /\ req.cmd = "connect"
  BY DEF SocksInv, ModeInv, AnswerInv, Reply, Early, Unanswered
<1>3. sent' \in Seq(Messages) /\ ErrorAnswersRequest'
  BY <1>1, <1>2, Sent DEF Messages
<1>4. SocksTypes' /\ ModeInv' /\ ClosedInv'
  BY <1>1, <1>3 DEF SocksInv, SocksTypes, ModeInv, ClosedInv, Reply, Send, MainAt,
                    others, history, Early, MainPC
<1>5. AnswerInv'
  BY <1>1, <1>2, <1>3 DEF SocksInv, AnswerInv, Reply, Send, MainAt, others, history,
                          Unanswered, Accepting
<1> QED
  BY <1>4, <1>5 DEF SocksInv

LEMMA StartPipeInv == ASSUME SocksInv, StartPipe PROVE SocksInv'
<1>1. SocksTypes' /\ ModeInv' /\ ClosedInv'
  BY DEF SocksInv, SocksTypes, ModeInv, ClosedInv, StartPipe, ends, history, Early, MainPC,
         SecondPC
<1>2. AnswerInv'
  BY NothingSent DEF SocksInv, AnswerInv, StartPipe, ends, history, Unanswered
<1> QED
  BY <1>1, <1>2 DEF SocksInv

LEMMA BindInv == ASSUME SocksInv, Bind PROVE SocksInv'
<1>1. SocksTypes' /\ ModeInv' /\ ClosedInv'
  BY DEF SocksInv, SocksTypes, ModeInv, ClosedInv, Bind, MainAt, ends, history, Early, MainPC
<1>2. AnswerInv'
  BY NothingSent DEF SocksInv, ModeInv, AnswerInv, Bind, MainAt, ends, history, Unanswered,
                     Early, Accepting
<1> QED
  BY <1>1, <1>2 DEF SocksInv

LEMMA BindReplyInv == ASSUME SocksInv, BindReply PROVE SocksInv'
<1>1. OnlyCopied /\ req' = req /\ req.cmd = "bind" /\ Send("ok")
  BY DEF SocksInv, ModeInv, AnswerInv, BindReply, Early, Unanswered
<1>2. sent' \in Seq(Messages) /\ sent' = <<"ok">> /\ ErrorAnswersRequest'
  BY <1>1, Sent DEF Messages
<1>3. SocksTypes' /\ ModeInv' /\ ClosedInv'
  BY <1>2 DEF SocksInv, SocksTypes, ModeInv, ClosedInv, BindReply, Send, others, history,
              Early, MainPC, SecondPC
<1>4. AnswerInv'
  BY <1>1, <1>2 DEF SocksInv, AnswerInv, BindReply, Send, others, history, Unanswered
<1> QED
  BY <1>3, <1>4 DEF SocksInv

-----------------------------------------------------------------------------
(* The end of either thread *)

\* An error is answered only where nothing but the first answer of a BIND was.
LEMMA HandleInv ==
  ASSUME SocksInv, Handle,
         AnswersError /\ Writable => OnlyCopied \/ (req.cmd = "bind" /\ sent = <<"ok">>)
  PROVE  /\ sent' \in Seq(Messages) /\ ErrorAnswersRequest'
         /\ UNCHANGED <<req, mode, sock, client, ss, remote, chan, late>>
         /\ sent' = sent \/ (AnswersError /\ Writable)
<1>1. UNCHANGED <<req, mode, sock, client, ss, remote, chan, late>>
  BY DEF Handle, Send, ends, others, history
<1>2. CASE AnswersError /\ Writable
  BY <1>1, <1>2, Sent DEF Handle, Messages
<1>3. CASE ~(AnswersError /\ Writable)
  <2>1. sent' = sent
    BY <1>3 DEF Handle, ends
  <2> QED
    BY <1>1, <2>1, NothingSent DEF SocksInv, SocksTypes, AnswerInv
<1> QED
  BY <1>2, <1>3

LEMMA HandlesInv == ASSUME SocksInv, MainHandles \/ SecondHandles PROVE SocksInv'
<1>1. CASE MainHandles
  <2>1. AnswersError /\ Writable => OnlyCopied /\ second = "none"
    BY <1>1 DEF SocksInv, SocksTypes, ModeInv, AnswerInv, AnswersError, MainHandles, MainAt,
                Unanswered
  <2>2. /\ sent' \in Seq(Messages) /\ ErrorAnswersRequest'
        /\ UNCHANGED <<req, mode, sock, client, ss, remote, chan, late, second>>
        /\ sent' = sent \/ (AnswersError /\ Writable)
    BY <1>1, <2>1, HandleInv DEF MainHandles, MainAt
  <2>3. SocksTypes' /\ ModeInv' /\ ClosedInv'
    BY <1>1, <2>2 DEF SocksInv, SocksTypes, ModeInv, ClosedInv, MainHandles, MainAt, Early,
                      MainPC
  <2>4. AnswerInv'
    BY <1>1, <2>1, <2>2 DEF SocksInv, AnswerInv, MainHandles, MainAt, Unanswered, Accepting
  <2> QED
    BY <2>3, <2>4 DEF SocksInv
<1>2. CASE SecondHandles
  <2>1. AnswersError /\ Writable => req.cmd = "bind" /\ sent = <<"ok">>
    BY <1>2 DEF SocksInv, SocksTypes, ModeInv, AnswerInv, AnswersError, SecondHandles, SecondAt,
                Accepting
  <2>2. /\ sent' \in Seq(Messages) /\ ErrorAnswersRequest'
        /\ UNCHANGED <<req, mode, sock, client, ss, remote, chan, late, main>>
    BY <1>2, <2>1, HandleInv DEF SecondHandles, SecondAt
  <2>3. SocksTypes' /\ ModeInv' /\ ClosedInv'
    BY <1>2, <2>2 DEF SocksInv, SocksTypes, ModeInv, ClosedInv, SecondHandles, SecondAt, Early,
                      SecondPC
  <2>4. AnswerInv'
    BY <1>2, <2>2 DEF SocksInv, AnswerInv, SecondHandles, SecondAt, Unanswered, Accepting,
                      Writable
  <2> QED
    BY <2>3, <2>4 DEF SocksInv
<1> QED
  BY <1>1, <1>2

LEMMA AbortInv ==
  ASSUME SocksInv, Abort, UNCHANGED late
  PROVE  /\ mode' = "abort" /\ sock' = "closed" /\ ss' # "open"
         /\ (remote' = "open" => late')
         /\ sent' = sent /\ chan' = chan
  BY DEF SocksInv, SocksTypes, ClosedInv, Abort, ends, others

LEMMA AbortsInv == ASSUME SocksInv, MainAborts \/ SecondAborts PROVE SocksInv'
<1>1. CASE MainAborts
  <2>1. SocksTypes' /\ ModeInv' /\ ClosedInv'
    BY <1>1, AbortInv
    DEF SocksInv, SocksTypes, ModeInv, ClosedInv, MainAborts, history, Early, MainPC
  <2>2. AnswerInv'
    BY <1>1, AbortInv, NothingSent
    DEF SocksInv, AnswerInv, MainAborts, history, Unanswered, Accepting
  <2> QED
    BY <2>1, <2>2 DEF SocksInv
<1>2. CASE SecondAborts
  <2>1. SocksTypes' /\ ModeInv' /\ ClosedInv'
    BY <1>2, AbortInv
    DEF SocksInv, SocksTypes, ModeInv, ClosedInv, SecondAborts, history, Early, SecondPC
  <2>2. AnswerInv'
    BY <1>2, AbortInv, NothingSent
    DEF SocksInv, AnswerInv, SecondAborts, history, Unanswered, Accepting
  <2> QED
    BY <2>1, <2>2 DEF SocksInv
<1> QED
  BY <1>1, <1>2

-----------------------------------------------------------------------------
(* The steps of the second thread *)

LEMMA SecondMoves ==
  ASSUME SocksInv,
         SecondRuns \/ Accept \/ AcceptFails \/ Assign \/ AcceptReplyFails \/ StartPiping
  PROVE  SocksInv'
<1>1. SocksTypes' /\ ModeInv' /\ ClosedInv'
  <2> USE DEF SocksInv, SocksTypes, ModeInv, ClosedInv, SecondAt, Quiet, ends, others, history,
              Early, SecondPC
  <2>1. CASE SecondRuns
    BY <2>1 DEF SecondRuns
  <2>2. CASE Accept \/ AcceptFails
    BY <2>2 DEF Accept, AcceptFails
  <2>3. CASE Assign
    BY <2>3 DEF Assign
  <2>4. CASE AcceptReplyFails
    BY <2>4 DEF AcceptReplyFails
  <2>5. CASE StartPiping
    BY <2>5 DEF StartPiping
  <2> QED
    BY <2>1, <2>2, <2>3, <2>4, <2>5
<1>2. AnswerInv'
  <2> USE NothingSent
      DEF SocksInv, AnswerInv, SecondAt, Quiet, ends, others, history, Unanswered, Accepting,
          Writable
  <2>1. CASE SecondRuns
    BY <2>1 DEF SecondRuns, SocksTypes, ModeInv
  <2>2. CASE Accept \/ AcceptFails
    BY <2>2 DEF Accept, AcceptFails
  <2>3. CASE Assign
    BY <2>3 DEF Assign
  <2>4. CASE AcceptReplyFails
    BY <2>4 DEF AcceptReplyFails
  <2>5. CASE StartPiping
    BY <2>5 DEF StartPiping
  <2> QED
    BY <2>1, <2>2, <2>3, <2>4, <2>5
<1> QED
  BY <1>1, <1>2 DEF SocksInv

LEMMA AcceptReplyInv == ASSUME SocksInv, AcceptReply PROVE SocksInv'
<1>1. sent' \in Seq(Messages) /\ ErrorAnswersRequest'
  <2>1. Send("ok") /\ req' = req
    BY DEF AcceptReply
  <2> QED
    BY <2>1, Sent DEF Messages
<1>2. SocksTypes' /\ ModeInv' /\ ClosedInv'
  BY <1>1 DEF SocksInv, SocksTypes, ModeInv, ClosedInv, AcceptReply, Send, SecondAt,
              others, history, Early, SecondPC
<1>3. AnswerInv'
  BY <1>1 DEF SocksInv, AnswerInv, AcceptReply, Send, SecondAt, others, history, Accepting,
              Writable
<1> QED
  BY <1>2, <1>3 DEF SocksInv

LEMMA SecondPipesInv == ASSUME SocksInv, SecondPipes PROVE SocksInv'
<1>1. CASE SecondAt("pipe", "pipe") /\ Send("data") /\ UNCHANGED <<req, mode, others, history>>
  <2>1. sent' \in Seq(Messages) /\ ErrorAnswersRequest'
    BY <1>1, Sent DEF Messages
  <2>2. SocksTypes' /\ ModeInv' /\ ClosedInv'
    BY <1>1, <2>1 DEF SocksInv, SocksTypes, ModeInv, ClosedInv, Send, SecondAt, others,
                      history, Early, SecondPC
  <2>3. AnswerInv'
    BY <1>1, <2>1 DEF SocksInv, AnswerInv, Send, SecondAt, others, history, Accepting, Writable
  <2> QED
    BY <2>2, <2>3 DEF SocksInv
<1>2. CASE \E to \in {"throw", "abort"} : SecondAt("pipe", to) /\ Quiet
  <2>1. SocksTypes' /\ ModeInv' /\ ClosedInv'
    BY <1>2 DEF SocksInv, SocksTypes, ModeInv, ClosedInv, SecondAt, Quiet, ends, others,
                history, Early, SecondPC
  <2>2. AnswerInv'
    BY <1>2, NothingSent
    DEF SocksInv, ModeInv, AnswerInv, SecondAt, Quiet, ends, others, history, Accepting, Writable
  <2> QED
    BY <2>1, <2>2 DEF SocksInv
<1> QED
  BY <1>1, <1>2 DEF SecondPipes, SecondThrows

-----------------------------------------------------------------------------
(* The client and the channel *)

LEMMA OthersInv ==
  ASSUME SocksInv, ClientSends \/ ClientLeaves \/ ChannelReads \/ ChannelCloses
  PROVE  SocksInv'
<1> USE NothingSent
    DEF SocksInv, SocksTypes, ModeInv, ClosedInv, AnswerInv, threads, ends, others, history,
        Early, MainPC, Unanswered, Accepting, Writable
<1>1. CASE ClientSends \/ ClientLeaves
  BY <1>1 DEF ClientSends, ClientLeaves
<1>2. CASE ChannelReads
  BY <1>2 DEF ChannelReads, TakeByte
<1>3. CASE ChannelCloses
  <2>1. main' = main \/ main' = "abort"
    BY <1>3 DEF ChannelCloses, Notify, MainAt
  <2> QED
    BY <1>3, <2>1 DEF ChannelCloses, Notify, MainAt
<1> QED
  BY <1>1, <1>2, <1>3

LEMMA ChannelWritesInv == ASSUME SocksInv, ChannelWrites PROVE SocksInv'
<1>1. Send("copied") /\ req' = req /\ req.cmd = "connect"
  BY DEF ChannelWrites, SocksInv, AnswerInv
<1>2. sent' \in Seq(Messages) /\ ErrorAnswersRequest' /\ (OnlyCopied' <=> OnlyCopied)
  BY <1>1, Sent DEF Messages
<1>3. SocksTypes' /\ ModeInv' /\ ClosedInv'
  BY <1>2 DEF SocksInv, SocksTypes, ModeInv, ClosedInv, ChannelWrites, Send, threads, others,
              history
<1>4. AnswerInv'
  BY <1>1, <1>2 DEF SocksInv, AnswerInv, ChannelWrites, Send, threads, others, history, Writable
<1> QED
  BY <1>3, <1>4 DEF SocksInv

-----------------------------------------------------------------------------
LEMMA NextInv == SocksInv /\ [Next]_vars => SocksInv'
<1> SUFFICES ASSUME SocksInv, [Next]_vars PROVE SocksInv'
  OBVIOUS
<1>1. CASE Main
  BY <1>1, MainGoesOn, ReplyInv, StartPipeInv, BindInv, BindReplyInv, HandlesInv,
     AbortsInv DEF Main
<1>2. CASE Second
  BY <1>2, SecondMoves, AcceptReplyInv, SecondPipesInv, HandlesInv, AbortsInv DEF Second
<1>3. CASE ClientSends \/ ClientLeaves \/ ChannelReads \/ ChannelWrites \/ ChannelCloses
  BY <1>3, OthersInv, ChannelWritesInv
<1>4. CASE UNCHANGED vars
  BY <1>4, NothingSent
  DEF vars, threads, ends, others, history, SocksInv, SocksTypes, ModeInv, ClosedInv, AnswerInv,
      Writable
<1> QED
  BY <1>1, <1>2, <1>3, <1>4 DEF Next

LEMMA SpecInv == Spec => []SocksInv
  BY InitInv, NextInv, PTL DEF Spec

\* When both threads have ended the client's socket and the port of a BIND are
\* closed, whoever aborted first (abort, run).
THEOREM SpecClosedWhenOver == Spec => []ClosedWhenOver
<1>1. SocksInv => ClosedWhenOver
  BY DEF SocksInv, ModeInv, ClosedInv, ClosedWhenOver, Over
<1> QED
  BY <1>1, SpecInv, PTL

\* An error message is the answer to the request or the second one to a BIND: no
\* answer and no byte that a thread has piped comes before it, only bytes that the
\* channel of a CONNECT has copied (handleException, onConnect, doAccept).
THEOREM SpecErrorAnswersRequest == Spec => []ErrorAnswersRequest
<1>1. SocksInv => ErrorAnswersRequest
  BY DEF SocksInv, AnswerInv
<1> QED
  BY <1>1, SpecInv, PTL

-----------------------------------------------------------------------------
(* ProxyTunnel: the answer is read to its empty line and judged by its first *)
(* line, for answers of any length.                                          *)

\* The last thing that was read, carriage returns aside, is the end of a line.
AfterLine ==
  \E j \in 1..position : /\ answer[j] = "lf"
                         /\ \A k \in (j + 1)..position : answer[k] = "cr"

\* What the three variables of the reader say of the bytes that it has read.
ReaderInv ==
  /\ \A i \in 1..position : EndsAt(i) => i = position
  /\ newlinesSeen = 2 => position > 0 /\ EndsAt(position)
  /\ newlinesSeen < 2 => \A i \in 1..position : ~EndsAt(i)
  /\ newlinesSeen > 0 <=> AfterLine
  /\ headerDone <=> \E i \in 1..position : answer[i] = "lf"
  /\ replyStr <=> \E i \in 1..position : /\ answer[i] = "established"
                                         /\ \A j \in 1..i : answer[j] # "lf"

TunnelInv ==
  /\ TunnelTypeOK
  /\ ReaderInv
  /\ tunnel \in {"open", "refused"} => newlinesSeen = 2
  /\ tunnel = "open" => replyStr
  /\ tunnel = "refused" => ~replyStr

LEMMA TunnelInitInv == TunnelInit => TunnelInv
<1> SUFFICES ASSUME TunnelInit PROVE TunnelInv
  OBVIOUS
<1>1. position = 0 /\ 1..position = {}
  BY DEF TunnelInit
<1>2. TunnelTypeOK /\ newlinesSeen = 0 /\ ~headerDone /\ ~replyStr
  <2>1. answer \in Seq(Bytes) /\ Len(answer) \in Nat
    BY DEF TunnelInit
  <2>2. position \in 0..Len(answer) /\ newlinesSeen = 0 /\ newlinesSeen \in 0..2
    BY <2>1 DEF TunnelInit
  <2>3. headerDone \in BOOLEAN /\ replyStr \in BOOLEAN /\ ~headerDone /\ ~replyStr
    BY Zenon DEF TunnelInit
  <2> QED
    BY <2>1, <2>2, <2>3 DEF TunnelInit, TunnelTypeOK
<1>3. ReaderInv
  BY <1>1, <1>2 DEF ReaderInv, AfterLine
<1> QED
  BY <1>2, <1>3 DEF TunnelInit, TunnelInv

\* One more byte: whether an answer ends before it depends on what was read.
LEMMA ReadByteInv == TunnelInv /\ ReadByte => TunnelInv'
<1> SUFFICES ASSUME TunnelInv, ReadByte PROVE TunnelInv'
  OBVIOUS
<1> DEFINE p == position + 1
           b == answer[p]
<1>1. /\ position \in Nat /\ p \in 1..Len(answer) /\ b \in Bytes
      /\ position' = p /\ answer' = answer /\ newlinesSeen \in {0, 1}
      /\ 1..p = (1..position) \cup {p}
  BY DEF TunnelInv, TunnelTypeOK, ReadByte
<1>2. newlinesSeen' = Counted(b) /\ newlinesSeen' \in 0..2
  BY <1>1 DEF ReadByte, Counted
<1>3. \A i \in 1..p : EndsAt(i)' = EndsAt(i)
  BY <1>1 DEF EndsAt
<1>4. AfterLine' <=> (b = "lf" \/ (b = "cr" /\ AfterLine))
  <2>1. AfterLine' <=> \E j \in 1..p : /\ answer[j] = "lf"
                                      /\ \A k \in (j + 1)..p : answer[k] = "cr"
    BY <1>1 DEF AfterLine
  <2>2. CASE b = "lf"
    BY <1>1, <2>1, <2>2
  <2>3. CASE b = "cr"
    <3>1. \A j \in 1..position : (j + 1)..p = ((j + 1)..position) \cup {p}
      BY <1>1
    <3> QED
      BY <1>1, <2>1, <2>3, <3>1 DEF AfterLine
  <2>4. CASE b \notin {"lf", "cr"}
    <3>1. \A j \in 1..p : j = p \/ p \in (j + 1)..p
      BY <1>1
    <3> QED
      BY <1>1, <2>1, <2>4, <3>1
  <2> QED
    BY <2>2, <2>3, <2>4
<1>5. EndsAt(p) <=> (b = "lf" /\ AfterLine)
  BY <1>1 DEF EndsAt, AfterLine
<1>6. \A i \in 1..position : ~EndsAt(i)
  BY <1>1 DEF TunnelInv, ReaderInv
<1>7. newlinesSeen > 0 <=> AfterLine
  BY DEF TunnelInv, ReaderInv
<1>8. newlinesSeen' > 0 <=> AfterLine'
  BY <1>1, <1>2, <1>4, <1>7 DEF Counted, Bytes
<1>9. newlinesSeen' = 2 <=> EndsAt(p)
  BY <1>1, <1>2, <1>5, <1>7 DEF Counted, Bytes
<1>10. headerDone' <=> \E i \in 1..p : answer[i] = "lf"
  BY <1>1 DEF TunnelInv, ReaderInv, ReadByte
<1>11. replyStr' <=> \E i \in 1..p : /\ answer[i] = "established"
                                     /\ \A j \in 1..i : answer[j] # "lf"
  <2>1. (\A j \in 1..p : answer[j] # "lf") <=> (~headerDone /\ b # "lf")
    BY <1>1 DEF TunnelInv, ReaderInv
  <2> QED
    BY <1>1, <2>1 DEF TunnelInv, ReaderInv, ReadByte
<1>12. ReaderInv'
  BY <1>1, <1>2, <1>3, <1>6, <1>8, <1>9, <1>10, <1>11 DEF ReaderInv
<1>13. TunnelTypeOK'
  BY <1>1, <1>2, <1>10 DEF TunnelInv, TunnelTypeOK, ReadByte
<1> QED
  BY <1>1, <1>12, <1>13 DEF TunnelInv, ReadByte

LEMMA TunnelNextInv == TunnelInv /\ [TunnelNext]_tunnelVars => TunnelInv'
<1> SUFFICES ASSUME TunnelInv, [TunnelNext]_tunnelVars PROVE TunnelInv'
  OBVIOUS
<1>1. CASE ReadByte
  BY <1>1, ReadByteInv
<1>2. ASSUME UNCHANGED <<answer, position, newlinesSeen, headerDone, replyStr>>
      PROVE  ReaderInv' = ReaderInv
  BY <1>2 DEF ReaderInv, AfterLine, EndsAt
<1>3. CASE ConnectProxy
  BY <1>2, <1>3 DEF ConnectProxy, TunnelInv, TunnelTypeOK
<1>4. CASE ProxyFails
  BY <1>2, <1>4 DEF ProxyFails, TunnelInv, TunnelTypeOK
<1>5. CASE Judge
  BY <1>2, <1>5 DEF Judge, TunnelInv, TunnelTypeOK
<1>6. CASE UNCHANGED tunnelVars
  BY <1>2, <1>6 DEF tunnelVars, TunnelInv, TunnelTypeOK
<1> QED
  BY <1>1, <1>3, <1>4, <1>5, <1>6 DEF TunnelNext

\* For an answer of any length and any bytes, the reader stops right behind the
\* first empty line, and the tunnel is open exactly when the first line has the
\* words (doTunnelHandshake).
THEOREM SpecAnswerIsRead == TunnelSpec => []AnswerIsRead
<1>1. TunnelInv => AnswerIsRead
  BY DEF TunnelInv, TunnelTypeOK, ReaderInv, AnswerIsRead
<1> QED
  BY <1>1, TunnelInitInv, TunnelNextInv, PTL DEF TunnelSpec
=============================================================================
