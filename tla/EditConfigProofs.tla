--------------------------- MODULE EditConfigProofs ---------------------------
(***************************************************************************)
(* Proofs about EditConfig, for any number of HTTP sessions, threads, ids  *)
(* and passwords.                                                          *)
(***************************************************************************)
EXTENDS EditConfig, TLAPS

\* What every request is, whoever sends it.
LEMMA RequestsAreTyped ==
  ASSUME TypeOK, NEW h \in HttpSessions, NEW r \in Requests(h)
  PROVE  r \in RequestType /\ r.http = h
<1> USE EditAssumption
<1>1. ASSUME NEW p \in Passwords PROVE Clear(p) \in Strings
  BY DEF Clear, Strings
<1>2. ASSUME NEW c \in Connections, NEW s \in Shown(h, c) PROVE s \in Strings
  <2>1. PICK w \in Workers : s = clone[h][w].password[c] /\ s # Absent
    BY <1>2 DEF Shown
  <2> QED
    BY <2>1 DEF TypeOK, Configs
<1> QED
  BY <1>1, <1>2 DEF Requests, RequestType, Ask, Typed, Ids

LEMMA RequestArguments ==
  ASSUME TypeOK, NEW h \in HttpSessions, NEW r \in Requests(h)
  PROVE  /\ r.op \in {"addConnection", "updateConnection"} => r.password \in Strings
         /\ r.op \in {"addForward", "updateForward"} => r.connection \in Connections
<1>1. ASSUME NEW p \in Passwords PROVE Clear(p) \in Strings
  BY EditAssumption DEF Clear, Strings
<1>2. ASSUME NEW c \in Connections, NEW s \in Shown(h, c) PROVE s \in Strings
  BY <1>2 DEF Shown, TypeOK, Configs
<1> QED
  BY <1>1, <1>2 DEF Requests, Ask, Typed

LEMMA EncryptType == \A s \in Strings : encrypt(s) \in Strings
  BY DEF encrypt, Strings

LEMMA EmptyType == EmptyConfig \in Configs /\ MixedConfig \in Configs
  BY DEF EmptyConfig, MixedConfig, Configs, NoForward

\* The operations on one configuration.
LEMMA ConfigTypes ==
  ASSUME NEW cfg \in Configs
  PROVE  /\ Unmarshalled(cfg) \in Configs
         /\ \A s : WithoutSession(cfg, s) \in Configs
         /\ \A c, p : p \in Strings \cup {Absent} =>
              [cfg EXCEPT !.password[c] = p] \in Configs
         /\ \A s \in SshSessions : [cfg EXCEPT !.session = @ \cup {s}] \in Configs
         /\ cfg.session \subseteq SshSessions
         /\ \A f \in Forwards, s \in SshSessions, c \in Connections :
              /\ [cfg EXCEPT !.forward[f] = [of |-> s, connection |-> c]] \in Configs
              /\ [cfg EXCEPT !.forward[f].connection = c] \in Configs
         /\ \A f : [cfg EXCEPT !.forward[f] = NoForward] \in Configs
  BY ZenonT(60) DEF Configs, Unmarshalled, WithoutSession, NoForward

-----------------------------------------------------------------------------
\* A thread at work has a clone, and its request the arguments it needs.
Control ==
  \A w \in Workers :
    /\ pc[w] # "idle" => req[w].http \in HttpSessions
    /\ pc[w] \in {"work", "change"} \cup SavePcs => at[w] \in Workers
    /\ pc[w] = "assign" => local[w] \in Configs
    /\ req[w].op \in {"addConnection", "updateConnection"} => req[w].password \in Strings
    /\ req[w].op \in {"addForward", "updateForward"} => req[w].connection \in Connections

TypeInv == TypeOK /\ Control

LEMMA CfgType ==
  ASSUME TypeInv, NEW w \in Workers, pc[w] \in {"work", "change"} \cup SavePcs
  PROVE  Cfg(w) \in Configs /\ Doc(w) \in Configs
  BY DEF TypeInv, TypeOK, Control, Cfg, Doc, SavePcs

LEMMA CfgKnown ==
  ASSUME TypeInv, NEW w \in Workers, pc[w] \in {"work", "change"} \cup SavePcs
  PROVE  Cfg(w) \in AllConfigs
<1>1. req[w].http \in HttpSessions /\ at[w] \in Workers
  BY DEF TypeInv, Control, SavePcs
<1>2. Cfg(w) \notin {Absent, Broken}
  BY CfgType, FileAssumption
<1> QED
  BY <1>1, <1>2 DEF AllConfigs, Cfg

\* What a request does to its clone, in one place: the clone after it.
NewClone(w, cfg) ==
  LET r == req[w]  old == Cfg(w) IN
  \/ \E c \in Connections : /\ At(w, "work", "addConnection")
                            /\ NewId(c)
                            /\ cfg = [old EXCEPT !.password[c] = encrypt(r.password)]
  \/ /\ At(w, "work", "updateConnection")
     /\ HasConnection(old, r.id)
     /\ cfg = [old EXCEPT !.password[r.id] =
                 IF r.password.eqeq THEN r.password ELSE encrypt(r.password)]
  \/ /\ At(w, "change", "deleteConnection")
     /\ cfg = [old EXCEPT !.password[r.id] = Absent]
  \/ \E s \in SshSessions : /\ At(w, "work", "addSession")
                            /\ cfg = [old EXCEPT !.session = @ \cup {s}]
  \/ At(w, "work", "deleteSession") /\ cfg = WithoutSession(old, r.id)
  \/ \E f \in Forwards : /\ At(w, "change", "addForward")
                         /\ r.id \in old.session
                         /\ cfg = [old EXCEPT !.forward[f] =
                                     [of |-> r.id, connection |-> r.connection]]
  \/ /\ At(w, "change", "updateForward")
     /\ HasForward(old, r.id)
     /\ cfg = [old EXCEPT !.forward[r.id].connection = r.connection]
  \/ At(w, "work", "deleteForward") /\ cfg = [old EXCEPT !.forward[r.id] = NoForward]
  \/ At(w, "change", "addForward") /\ cfg = old
  \/ At(w, "change", "updateForward") /\ cfg = old

\* The requests that change their clone.
Edits(w) == \E cfg : NewClone(w, cfg) /\ Change(w, cfg)

\* Steps of a request that change no configuration.
Looks(w) == /\ UNCHANGED <<edits, disk, loading>>
            /\ \/ pc[w] = "work" /\ Answer(w)
               \/ CheckUse(w) /\ Pass(w)
               \/ CheckForward(w)

\* Steps of a save, the first at a request's work.
Saves(w) ==
  /\ At(w, "work", "save") \/ pc[w] \in SavePcs
  /\ \/ Open(w) \/ Marshal(w) \/ TestExists(w) \/ DeleteOld(w) \/ Rename(w)
     \/ TestIsFile(w) \/ WriteDefault(w) \/ Unmarshal(w) \/ Assign(w)

LEMMA HandleIs ==
  ASSUME NEW w \in Workers, Handle(w)
  PROVE  Edits(w) \/ Looks(w) \/ SetAttribute(w) \/ Saves(w)
<1>1. CASE Read(w) \/ UpdateSession(w) \/ CheckForward(w) \/ RefuseForward(w)
  BY <1>1 DEF Read, UpdateSession, CheckForward, RefuseForward, Looks, Leave, Pass, At
<1>2. CASE CheckUse(w)
  BY <1>2 DEF CheckUse, Looks, Leave, Pass, At
<1>3. CASE AddConnection(w) \/ DeleteConnection(w)
  BY <1>3 DEF AddConnection, DeleteConnection, Edits, NewClone
<1>4. CASE UpdateConnection(w)
  BY <1>4 DEF UpdateConnection, Edits, NewClone, Looks, Leave, At
<1>5. CASE AddSession(w) \/ DeleteSession(w) \/ DeleteForward(w)
  BY <1>5 DEF AddSession, DeleteSession, DeleteForward, Edits, NewClone
<1>6. CASE AddForward(w)
  BY <1>6 DEF AddForward, Edits, NewClone
<1>7. CASE UpdateForward(w)
  BY <1>7 DEF UpdateForward, Edits, NewClone
<1>8. CASE \/ Open(w) \/ Marshal(w) \/ TestExists(w) \/ DeleteOld(w) \/ Rename(w)
           \/ TestIsFile(w) \/ WriteDefault(w) \/ Unmarshal(w) \/ Assign(w)
  BY <1>8 DEF Saves, SavePcs, Open, Marshal, TestExists, DeleteOld, Rename,
              TestIsFile, WriteDefault, Unmarshal, Assign
<1> QED
  BY <1>1, <1>2, <1>3, <1>4, <1>5, <1>6, <1>7, <1>8 DEF Handle

(***************************************************************************)
(* What a step of a save may do, in one place: only its own thread moves,  *)
(* and a configuration that turns up somewhere was there before, is read   *)
(* from one that was, is the default, or is mixed.                         *)
(***************************************************************************)
Moves(w) ==
  /\ \A u \in Workers : u # w => pc'[u] = pc[u]
  /\ \/ UNCHANGED <<req, at>> /\ pc'[w] \in SavePcs
     \/ Answer(w)

Carries(x) == \/ x \in AllConfigs \cup {EmptyConfig, MixedConfig}
              \/ \E cfg \in AllConfigs : x = Unmarshalled(cfg)

CarriesOver ==
  /\ UNCHANGED <<edit, clone>>
  /\ Carries(running')
  /\ Carries(file') \/ file' \in {Absent, Broken}
  /\ Carries(tmp') \/ tmp' \in {Absent, Broken}
  /\ \A w \in Workers : Carries(local'[w]) \/ local'[w] = Absent

LEMMA SavesMove ==
  ASSUME TypeInv, NEW w \in Workers, Saves(w)
  PROVE  Moves(w) /\ CarriesOver
<1> USE DEF TypeInv, TypeOK
<1>1. /\ running \in AllConfigs
      /\ file \in AllConfigs \cup {Absent, Broken}
      /\ tmp \in AllConfigs \cup {Absent, Broken}
      /\ \A u \in Workers : local[u] \in AllConfigs \cup {Absent}
      /\ \A u \in Workers : pc[u] \in {"work"} \cup SavePcs => Doc(u) \in AllConfigs
  <2>1. \A u \in Workers : local[u] \in AllConfigs \cup {Absent}
    BY FileAssumption DEF AllConfigs
  <2>2. \A u \in Workers : pc[u] \in {"work"} \cup SavePcs => Cfg(u) \in AllConfigs
    BY CfgKnown
  <2> QED
    BY <2>1, <2>2, FileAssumption DEF AllConfigs, Doc
<1>2. ASSUME Over(w) PROVE Moves(w) /\ \A u \in Workers : local'[u] \in {local[u], Absent}
  BY <1>2 DEF Over, Answer, Moves
<1>3. ASSUME WriteReturns(w) PROVE Moves(w) /\ \A u \in Workers : local'[u] \in {local[u], Absent}
  BY <1>2, <1>3 DEF WriteReturns, Goto, Moves, SavePcs
<1>4. ASSUME NEW l \in SavePcs, Goto(w, l) PROVE Moves(w)
  BY <1>4 DEF Goto, Moves
<1> USE DEF edits, disk, loading
<1>5. CASE Open(w)
  <2>1. Moves(w)
    BY <1>4, <1>5 DEF Open, SavePcs
  <2> QED
    BY <1>1, <1>5, <2>1 DEF Open, CarriesOver, Carries
<1>6. CASE Marshal(w)
  <2>1. Moves(w)
    BY <1>4, <1>6 DEF Marshal, SavePcs
  <2>2. Documents(w) \subseteq AllConfigs
    BY <1>1 DEF Documents, SavePcs
  <2>3. \A x \in Written(w) : x = Broken \/ Carries(x)
    BY <1>1, <1>6, <2>2 DEF Written, Carries, Marshal, SavePcs
  <2>4. PICK x \in Written(w) : /\ tmp' = IF out[w] = "tmp" THEN x ELSE tmp
                               /\ file' = IF out[w] = "file" THEN x ELSE file
    BY <1>6 DEF Marshal
  <2>5. /\ Carries(file') \/ file' \in {Absent, Broken}
        /\ Carries(tmp') \/ tmp' \in {Absent, Broken}
    BY <1>1, <2>3, <2>4 DEF Carries
  <2> QED
    BY <1>1, <1>6, <2>1, <2>5 DEF Marshal, CarriesOver, Carries
<1>7. CASE TestExists(w)
  <2>1. Moves(w)
    BY <1>4, <1>7 DEF TestExists, SavePcs
  <2> QED
    BY <1>1, <1>7, <2>1 DEF TestExists, CarriesOver, Carries
<1>8. CASE DeleteOld(w)
  <2>1. Moves(w) /\ \A u \in Workers : local'[u] \in {local[u], Absent}
    BY <1>3, <1>4, <1>8 DEF DeleteOld, SavePcs
  <2> QED
    BY <1>1, <1>8, <2>1 DEF DeleteOld, CarriesOver, Carries
<1>9. CASE Rename(w)
  <2>1. Moves(w) /\ \A u \in Workers : local'[u] \in {local[u], Absent}
    BY <1>3, <1>9 DEF Rename
  <2>2. file' \in {file, tmp} /\ tmp' \in {tmp, Absent}
    BY <1>9 DEF Rename
  <2> QED
    BY <1>1, <1>9, <2>1, <2>2 DEF Rename, CarriesOver, Carries
<1>10. CASE TestIsFile(w)
  <2>1. Moves(w)
    BY <1>4, <1>10 DEF TestIsFile, SavePcs
  <2> QED
    BY <1>1, <1>10, <2>1 DEF TestIsFile, CarriesOver, Carries
<1>11. CASE WriteDefault(w)
  <2>1. Moves(w)
    BY <1>4, <1>11 DEF WriteDefault, SavePcs
  <2> QED
    BY <1>1, <1>11, <2>1 DEF WriteDefault, CarriesOver, Carries
<1>12. CASE Unmarshal(w)
  <2>1. CASE Over(w)
    BY <1>1, <1>2, <1>12, <2>1 DEF Unmarshal, CarriesOver, Carries
  <2>2. CASE ~Over(w)
    <3>1. Moves(w)
      BY <1>4, <1>12, <2>2 DEF Unmarshal, SavePcs
    <3>2. file \in AllConfigs /\ local' = [local EXCEPT ![w] = Unmarshalled(file)]
      BY <1>1, <1>12, <2>2 DEF Unmarshal
    <3> QED
      BY <1>1, <1>12, <3>1, <3>2 DEF Unmarshal, CarriesOver, Carries
  <2> QED
    BY <2>1, <2>2
<1>13. CASE Assign(w)
  <2>1. Carries(running')
    BY <1>1, <1>13, FileAssumption DEF Assign, Carries, Control
  <2> QED
    BY <1>1, <1>2, <1>13, <2>1 DEF Assign, CarriesOver, Carries
<1> QED
  BY <1>5, <1>6, <1>7, <1>8, <1>9, <1>10, <1>11, <1>12, <1>13 DEF Saves

\* The variables that only a save changes.
LEMMA SavesType ==
  ASSUME TypeInv, NEW w \in Workers, Saves(w)
  PROVE  /\ out' \in [Workers -> Streams] /\ shared' \subseteq Workers
         /\ local' \in [Workers -> Configs \cup {Absent}] /\ alone' \subseteq Workers
         /\ running' \in Configs
         /\ pc'[w] = "assign" => local'[w] \in Configs
<1> USE DEF TypeInv, TypeOK, edits, disk, loading, Streams
<1>1. Over(w) => local' \in [Workers -> Configs \cup {Absent}] /\ alone' \subseteq Workers /\ pc'[w] = "idle"
  BY DEF Over, Answer
<1>2. WriteReturns(w) => local' \in [Workers -> Configs \cup {Absent}] /\ alone' \subseteq Workers
                         /\ pc'[w] \in {"idle", "isFile"}
  BY <1>1 DEF WriteReturns, Goto
<1>3. CASE Open(w) \/ Marshal(w) \/ TestExists(w)
  BY <1>3 DEF Open, Marshal, TestExists, Goto
<1>4. CASE DeleteOld(w) \/ Rename(w)
  BY <1>2, <1>4 DEF DeleteOld, Rename, Goto
<1>5. CASE TestIsFile(w) \/ WriteDefault(w)
  BY <1>5, EmptyType DEF TestIsFile, WriteDefault, Goto
<1>6. CASE Unmarshal(w)
  BY <1>1, <1>6, ConfigTypes DEF Unmarshal, Goto, Files
<1>7. CASE Assign(w)
  BY <1>1, <1>7 DEF Assign, Control
<1> QED
  BY <1>3, <1>4, <1>5, <1>6, <1>7 DEF Saves

LEMMA NewCloneType ==
  ASSUME TypeInv, NEW w \in Workers, NEW cfg, NewClone(w, cfg)
  PROVE  cfg \in Configs
<1>1. /\ Cfg(w) \in Configs
      /\ req[w].op \in {"addConnection", "updateConnection"}
           => req[w].password \in Strings /\ encrypt(req[w].password) \in Strings
      /\ req[w].op \in {"addForward", "updateForward"}
           => req[w].connection \in Connections
  BY CfgType, EncryptType DEF NewClone, At, TypeInv, Control
<1> DEFINE old == Cfg(w)
           r   == req[w]
<1>7. /\ \A c, p : p \in Strings \cup {Absent} => [old EXCEPT !.password[c] = p] \in Configs
      /\ \A s : WithoutSession(old, s) \in Configs
      /\ \A f : [old EXCEPT !.forward[f] = NoForward] \in Configs
  <2> HIDE DEF old
  <2> QED
    BY <1>1, ConfigTypes DEF old
<1>2. CASE At(w, "work", "addConnection") \/ At(w, "work", "updateConnection")
  <2>1. CASE At(w, "work", "addConnection")
    <3>1. PICK c \in Connections : cfg = [old EXCEPT !.password[c] = encrypt(r.password)]
      BY <2>1 DEF NewClone, At
    <3> QED
      BY <1>1, <1>7, <2>1, <3>1 DEF At
  <2>2. CASE At(w, "work", "updateConnection")
    <3> DEFINE p == IF r.password.eqeq THEN r.password ELSE encrypt(r.password)
    <3>1. cfg = [old EXCEPT !.password[r.id] = p]
      BY <2>2 DEF NewClone, At
    <3>2. p \in Strings
      BY <1>1, <2>2 DEF At
    <3> HIDE DEF p
    <3> QED
      BY <1>7, <3>1, <3>2
  <2> QED
    BY <1>2, <2>1, <2>2
<1>3. CASE At(w, "change", "deleteConnection") \/ At(w, "work", "deleteSession")
           \/ At(w, "work", "deleteForward")
  <2>1. \/ cfg = [old EXCEPT !.password[r.id] = Absent]
        \/ cfg = WithoutSession(old, r.id)
        \/ cfg = [old EXCEPT !.forward[r.id] = NoForward]
    BY <1>3 DEF NewClone, At
  <2> HIDE DEF old
  <2> QED
    BY <1>7, <2>1
<1>4. CASE At(w, "work", "addSession")
  <2>1. PICK s \in SshSessions : cfg = [old EXCEPT !.session = @ \cup {s}]
    BY <1>4 DEF NewClone, At
  <2> QED
    BY <1>1, <2>1, ConfigTypes
<1>5. CASE At(w, "change", "addForward")
  <2>1. CASE cfg = old
    BY <1>1, <2>1
  <2>2. CASE cfg # old
    <3>1. PICK f \in Forwards :
            /\ r.id \in old.session
            /\ cfg = [old EXCEPT !.forward[f] = [of |-> r.id, connection |-> r.connection]]
      BY <1>5, <2>2 DEF NewClone, At
    <3> QED
      BY <1>1, <1>5, <3>1, ConfigTypes DEF At
  <2> QED
    BY <2>1, <2>2
<1>6. CASE At(w, "change", "updateForward")
  <2>1. cfg = old \/ (r.id \in Forwards /\ cfg = [old EXCEPT !.forward[r.id].connection = r.connection])
    BY <1>6 DEF NewClone, At, HasForward
  <2> QED
    BY <1>1, <1>6, <2>1 DEF At, Configs
<1> QED
  BY <1>2, <1>3, <1>4, <1>5, <1>6 DEF NewClone

LEMMA InitTypeInv == Init => TypeInv
  BY EmptyType, EditAssumption
  DEF Init, TypeInv, TypeOK, Control, RequestType, Blank, Ask, Ids, Files, Streams, SavePcs

LEMMA AnswerType ==
  ASSUME TypeInv, NEW w \in Workers, Answer(w)
  PROVE  /\ pc' \in [Workers -> {"idle", "clone", "work", "change"} \cup SavePcs]
         /\ req' \in [Workers -> RequestType]
         /\ at' \in [Workers -> Workers \cup {NoId}]
         /\ \A u \in Workers : u # w => pc'[u] = pc[u] /\ req'[u] = req[u] /\ at'[u] = at[u]
         /\ pc'[w] = "idle" /\ req'[w] = Blank
<1>1. Blank \in RequestType
  BY DEF RequestType, Blank, Ask, Ids
<1> QED
  BY <1>1 DEF Answer, TypeInv, TypeOK

LEMMA AnswerControl ==
  ASSUME TypeInv, NEW w \in Workers, Answer(w),
         \A u \in Workers : local'[u] \in {local[u], Absent} /\ (u # w => local'[u] = local[u])
  PROVE  Control'
  BY AnswerType DEF TypeInv, Control, Blank, Ask, SavePcs

LEMMA SavesTypeInv ==
  ASSUME TypeInv, NEW w \in Workers, Saves(w)
  PROVE  TypeInv'
<1> USE DEF TypeInv
<1>1. /\ Moves(w) /\ CarriesOver
      /\ out' \in [Workers -> Streams] /\ shared' \subseteq Workers
      /\ local' \in [Workers -> Configs \cup {Absent}] /\ alone' \subseteq Workers
      /\ running' \in Configs
      /\ pc'[w] = "assign" => local'[w] \in Configs
  BY SavesMove, SavesType
<1>2. \A cfg \in AllConfigs : cfg \in Configs
  BY DEF AllConfigs, TypeOK, Files
<1>3. \A x : Carries(x) => x \in Configs
  BY <1>2, ConfigTypes, EmptyType DEF Carries
<1>4. file' \in Files /\ tmp' \in Files
  BY <1>1, <1>3 DEF CarriesOver, Files
<1>5. /\ pc' \in [Workers -> {"idle", "clone", "work", "change"} \cup SavePcs]
      /\ req' \in [Workers -> RequestType]
      /\ at' \in [Workers -> Workers \cup {NoId}]
  <2>1. /\ pc' = [pc EXCEPT ![w] = pc'[w]]
        /\ (UNCHANGED <<req, at>> /\ pc'[w] \in SavePcs) \/ Answer(w)
    <3>1. \E l : pc' = [pc EXCEPT ![w] = l]
      BY DEF Saves, Open, Marshal, TestExists, DeleteOld, Rename, TestIsFile, WriteDefault,
             Unmarshal, Assign, Goto, WriteReturns, Over, Answer
    <3> QED
      BY <1>1, <3>1 DEF Moves, TypeOK
  <2> QED
    BY <2>1, AnswerType DEF TypeOK
<1>6. \A u \in Workers : u # w => local'[u] = local[u]
  BY DEF Saves, Open, Marshal, TestExists, DeleteOld, Rename, TestIsFile, WriteDefault,
         Unmarshal, Assign, WriteReturns, Over, loading, TypeOK
<1>7. Control'
  <2>1. CASE UNCHANGED <<req, at>> /\ pc'[w] \in SavePcs
    <3>1. req[w].http \in HttpSessions /\ at[w] \in Workers
      BY DEF Saves, At, Control, SavePcs
    <3> QED
      BY <1>1, <1>6, <2>1, <3>1 DEF Moves, Control, SavePcs
  <2>2. CASE Answer(w)
    BY <1>6, <2>2, AnswerType DEF Control, Blank, Ask, SavePcs
  <2> QED
    BY <1>1, <2>1, <2>2 DEF Moves
<1> QED
  BY <1>1, <1>4, <1>5, <1>7 DEF TypeOK, CarriesOver

LEMMA NextTypeInv == TypeInv /\ [Next]_vars => TypeInv'
<1> SUFFICES ASSUME TypeInv, [Next]_vars PROVE TypeInv'
  OBVIOUS
<1> USE EditAssumption
<1> USE DEF edits, disk, loading
<1>1. ASSUME NEW w \in Workers, NEW h \in HttpSessions, Begin(w, h) PROVE TypeInv'
  <2>1. PICK r \in Requests(h) : req' = [req EXCEPT ![w] = r]
    BY <1>1 DEF Begin
  <2>2. /\ r \in RequestType /\ r.http = h
        /\ r.op \in {"addConnection", "updateConnection"} => r.password \in Strings
        /\ r.op \in {"addForward", "updateForward"} => r.connection \in Connections
    BY RequestsAreTyped, RequestArguments DEF TypeInv
  <2> QED
    BY <1>1, <2>1, <2>2 DEF Begin, GetAttribute, TypeInv, TypeOK, Control, SavePcs
<1>2. ASSUME NEW w \in Workers, Edits(w) PROVE TypeInv'
  <2>1. PICK cfg : NewClone(w, cfg) /\ Change(w, cfg)
    BY <1>2 DEF Edits
  <2>2. cfg \in Configs /\ Cfg(w) \in Configs
    BY <2>1, NewCloneType, CfgType DEF NewClone, At
  <2>3. clone' \in [HttpSessions -> [Workers -> Configs]]
    BY <2>1, <2>2 DEF Change, Edited, TypeInv, TypeOK
  <2>4. UNCHANGED <<edit, disk, loading>> /\ Answer(w)
    BY <2>1 DEF Change
  <2> QED
    BY <2>3, <2>4, AnswerType, AnswerControl DEF TypeInv, TypeOK
<1>3. ASSUME NEW w \in Workers, Looks(w) PROVE TypeInv'
  <2>2. CASE Answer(w)
    BY <1>3, <2>2, AnswerType, AnswerControl DEF Looks, TypeInv, TypeOK
  <2>3. CASE Pass(w) /\ pc[w] = "work"
    BY <1>3, <2>3 DEF Pass, Goto, TypeInv, TypeOK, Control, SavePcs
  <2> QED
    BY <1>3, <2>2, <2>3 DEF Looks, CheckUse, CheckForward, At
<1>4. ASSUME NEW w \in Workers, SetAttribute(w) PROVE TypeInv'
  BY <1>4 DEF SetAttribute, TypeInv, TypeOK, Control, SavePcs
<1>5. ASSUME NEW w \in Workers, Saves(w) PROVE TypeInv'
  BY <1>5, SavesTypeInv
<1>7. CASE UNCHANGED vars
  BY <1>7 DEF vars, TypeInv, TypeOK, Control
<1> QED
  BY <1>1, <1>2, <1>3, <1>4, <1>5, <1>7, HandleIs DEF Next

\* The types of the variables, in every reachable state.
THEOREM SpecTypeOK == Spec => []TypeOK
<1>1. TypeInv => TypeOK
  BY DEF TypeInv
<1> QED
  BY <1>1, InitTypeInv, NextTypeInv, PTL DEF Spec

-----------------------------------------------------------------------------
(***************************************************************************)
(* A save that meets no other one.  Its thread alone is at a save, its     *)
(* stream is on config.xml.tmp, which no other stream shares, and the      *)
(* default configuration is neither made nor written; what earlier saves   *)
(* left in the two files is overwritten, deleted or replaced by the        *)
(* rename.                                                                 *)
(***************************************************************************)
StreamInv ==
  \A u \in Workers :
    /\ out[u] # "none" \/ u \in shared => pc[u] = "marshal"
    /\ local[u] # Absent => pc[u] \in SavePcs

AloneAt(w) ==
  /\ pc[w] \in SavePcs \ {"open", "default"}
  /\ \A u \in Workers : pc[u] \in SavePcs => u = w
  /\ pc[w] = "marshal" => out[w] = "tmp" /\ w \notin shared
  /\ pc[w] \in {"exists", "delete", "rename"} => tmp \in Configs
  /\ pc[w] = "delete" => file # Absent
  /\ pc[w] \in {"isFile", "unmarshal", "assign"} => file \in Configs
  /\ local[w] = IF pc[w] = "assign" THEN Unmarshalled(file) ELSE Absent

AloneInv == StreamInv /\ \A w \in alone : AloneAt(w)

\* Steps that no save makes leave all of this alone.
LEMMA OthersKeepAlone ==
  ASSUME TypeInv, AloneInv, UNCHANGED <<file, tmp, out, shared, local, alone>>,
         \A u \in Workers : pc'[u] # pc[u] => pc[u] \notin SavePcs /\ pc'[u] \notin SavePcs
  PROVE  AloneInv'
  BY DEF AloneInv, StreamInv, AloneAt, TypeInv, TypeOK, SavePcs

LEMMA SavesKeepStreams ==
  ASSUME TypeInv, StreamInv, NEW w \in Workers, Saves(w)
  PROVE  StreamInv'
<1> USE DEF TypeInv, TypeOK, disk, loading
<1>1. /\ \A u \in Workers : u # w => pc'[u] = pc[u]
      /\ pc'[w] \in SavePcs \/ Answer(w)
  BY SavesMove DEF Moves
<1>2. ASSUME NEW u \in Workers, local'[u] # Absent PROVE pc'[u] \in SavePcs
  <2>1. CASE u # w
    <3>1. local'[u] = local[u]
      BY <2>1 DEF Saves, Open, Marshal, TestExists, DeleteOld, Rename, TestIsFile, WriteDefault,
                  Unmarshal, Assign, WriteReturns, Over
    <3> QED
      BY <1>1, <1>2, <2>1, <3>1 DEF StreamInv
  <2>2. CASE u = w /\ pc'[w] \notin SavePcs
    <3>1. Over(w)
      BY <2>2 DEF Saves, Open, Marshal, TestExists, DeleteOld, Rename, TestIsFile, WriteDefault,
                  Unmarshal, Assign, WriteReturns, Goto, SavePcs
    <3> QED
      BY <1>2, <2>2, <3>1 DEF Over
  <2> QED
    BY <2>1, <2>2
<1>3. ASSUME NEW u \in Workers, out'[u] # "none" \/ u \in shared' PROVE pc'[u] = "marshal"
  <2>1. CASE Open(w)
    BY <1>1, <1>3, <2>1 DEF Open, Goto, StreamInv
  <2>2. CASE Marshal(w)
    BY <1>1, <1>3, <2>2 DEF Marshal, Goto, StreamInv
  <2>3. CASE ~Open(w) /\ ~Marshal(w)
    <3>1. pc[w] # "marshal" /\ shared' = shared /\ (out'[u] # "none" => out[u] # "none")
      BY <2>3 DEF Saves, TestExists, DeleteOld, Rename, TestIsFile, WriteDefault, Unmarshal, Assign
    <3> QED
      BY <1>1, <1>3, <3>1 DEF StreamInv
  <2> QED
    BY <2>1, <2>2, <2>3
<1> QED
  BY <1>2, <1>3 DEF StreamInv

LEMMA SavesKeepAlone ==
  ASSUME TypeInv, AloneInv, NEW w \in Workers, Saves(w)
  PROVE  AloneInv'
<1> USE DEF TypeInv, TypeOK, edits, disk, loading
<1>1. StreamInv'
  BY SavesKeepStreams DEF AloneInv
<1>2. /\ \A u \in Workers : u # w => pc'[u] = pc[u]
      /\ pc'[w] \in SavePcs \/ Answer(w)
  BY SavesMove DEF Moves
<1>3. CASE pc[w] \in SavePcs
  <2>1. alone' \subseteq alone
    BY <1>3 DEF Saves, Open, Marshal, TestExists, DeleteOld, Rename, TestIsFile, WriteDefault,
                Unmarshal, Assign, WriteReturns, Over, At, SavePcs
  <2>2. SUFFICES ASSUME w \in alone, w \in alone' PROVE AloneAt(w)'
    BY <1>1, <1>3, <2>1 DEF AloneInv, AloneAt
  <2>3. AloneAt(w)
    BY <2>2 DEF AloneInv
  <2>4. ~Over(w)
    BY <2>2 DEF Over
  <2>5. \A u \in Workers : pc'[u] \in SavePcs => u = w
    BY <1>2, <2>3 DEF AloneAt
  <2> USE FileAssumption DEF AloneAt, SavePcs, Goto
  <2>6. CASE Marshal(w)
    <3>1. w \notin shared /\ out[w] = "tmp" /\ Doc(w) \in Configs /\ local[w] = Absent
      BY <2>3, <2>6, CfgType DEF Marshal
    <3>2. tmp' = Doc(w)
      BY <2>6, <3>1 DEF Marshal, Written
    <3> QED
      BY <2>5, <2>6, <3>1, <3>2 DEF Marshal
  <2>7. CASE TestExists(w)
    BY <2>3, <2>5, <2>7 DEF TestExists
  <2>8. CASE DeleteOld(w)
    BY <2>3, <2>5, <2>8 DEF DeleteOld
  <2>9. CASE Rename(w)
    BY <2>3, <2>4, <2>5, <2>9 DEF Rename, WriteReturns
  <2>10. CASE TestIsFile(w)
    BY <2>3, <2>5, <2>10 DEF TestIsFile
  <2>11. CASE Unmarshal(w)
    BY <2>3, <2>4, <2>5, <2>11 DEF Unmarshal
  <2>12. CASE Open(w) \/ WriteDefault(w) \/ Assign(w)
    BY <1>3, <2>3, <2>4, <2>12 DEF Open, WriteDefault, Assign, At
  <2> QED
    BY <2>6, <2>7, <2>8, <2>9, <2>10, <2>11, <2>12 DEF Saves
<1>4. CASE pc[w] \notin SavePcs
  <2>1. Open(w) /\ pc[w] = "work"
    BY <1>4 DEF Saves, At, Marshal, TestExists, DeleteOld, Rename, TestIsFile, WriteDefault,
                Unmarshal, Assign, Open, SavePcs
  <2>2. SUFFICES ASSUME w \in alone', \A u \in Workers : pc[u] \notin SavePcs
                 PROVE  AloneAt(w)'
    BY <1>1, <2>1 DEF Open, AloneInv
  <2>3. (\A u \in Workers : out[u] = "none" /\ u \notin shared) /\ local[w] = Absent
    BY <1>4, <2>2 DEF AloneInv, StreamInv, SavePcs
  <2> QED
    BY <1>2, <2>1, <2>2, <2>3 DEF Open, Goto, AloneAt, SavePcs
<1> QED
  BY <1>3, <1>4

LEMMA NextAloneInv == TypeInv /\ AloneInv /\ [Next]_vars => AloneInv'
<1> SUFFICES ASSUME TypeInv, AloneInv, [Next]_vars PROVE AloneInv'
  OBVIOUS
<1> USE DEF disk, loading
<1>1. ASSUME NEW w \in Workers, NEW h \in HttpSessions, Begin(w, h) PROVE AloneInv'
  BY <1>1, OthersKeepAlone DEF Begin, GetAttribute, TypeInv, TypeOK, SavePcs
<1>2. ASSUME NEW w \in Workers, Edits(w) PROVE AloneInv'
  <2>1. PICK cfg : NewClone(w, cfg) /\ Change(w, cfg)
    BY <1>2 DEF Edits
  <2>2. pc[w] \in {"work", "change"}
    BY <2>1 DEF NewClone, At
  <2> QED
    BY <2>1, <2>2, OthersKeepAlone DEF Change, Answer, TypeInv, TypeOK, SavePcs
<1>3. ASSUME NEW w \in Workers, Looks(w) PROVE AloneInv'
  BY <1>3, OthersKeepAlone
  DEF Looks, CheckUse, CheckForward, Pass, Goto, Answer, At, TypeInv, TypeOK, SavePcs
<1>4. ASSUME NEW w \in Workers, SetAttribute(w) PROVE AloneInv'
  BY <1>4, OthersKeepAlone DEF SetAttribute, TypeInv, TypeOK, SavePcs
<1>5. ASSUME NEW w \in Workers, Saves(w) PROVE AloneInv'
  BY <1>5, SavesKeepAlone
<1>6. CASE UNCHANGED vars
  BY <1>6, OthersKeepAlone DEF vars
<1> QED
  BY <1>1, <1>2, <1>3, <1>4, <1>5, <1>6, HandleIs DEF Next

LEMMA AloneEndsOnDisk == TypeInv /\ AloneInv /\ [Next]_vars => RunsWhatIsOnDisk
<1> SUFFICES ASSUME TypeInv, AloneInv, [Next]_vars, NEW w \in alone, pc'[w] = "idle"
             PROVE  file' \in Configs /\ running' = Unmarshalled(file')
  BY DEF RunsWhatIsOnDisk
<1> USE DEF disk, loading, edits
<1>1. w \in Workers /\ AloneAt(w) /\ pc[w] \in SavePcs
  BY DEF AloneInv, AloneAt, TypeInv, TypeOK
<1>2. ASSUME NEW u \in Workers, u # w, Handle(u) \/ \E h \in HttpSessions : Begin(u, h)
      PROVE  FALSE
  <2>1. pc'[w] = pc[w]
    <3>1. CASE Saves(u)
      BY <1>2, <3>1, <1>1, SavesMove DEF Moves
    <3>2. CASE ~Saves(u)
      <4>1. \E l : pc' = [pc EXCEPT ![u] = l]
        BY <1>2, <3>2, HandleIs
        DEF Edits, Looks, Change, Answer, Pass, Goto, CheckForward, SetAttribute,
            Begin, GetAttribute
      <4> QED
        BY <1>1, <1>2, <4>1 DEF TypeInv, TypeOK
    <3> QED
      BY <3>1, <3>2
  <2> QED
    BY <1>1, <2>1 DEF SavePcs
<1>3. CASE Saves(w)
  <2>1. CASE Assign(w)
    BY <1>1, <2>1 DEF Assign, AloneAt
  <2>2. CASE ~Assign(w)
    <3>1. pc[w] # "assign" => ~WriteReturns(w)
      BY <1>1 DEF WriteReturns, Goto, AloneAt, SavePcs, TypeInv, TypeOK
    <3> QED
      BY <1>1, <1>3, <2>2, <3>1, FileAssumption
      DEF Saves, Open, Marshal, TestExists, DeleteOld, Rename, TestIsFile, WriteDefault,
          Unmarshal, Goto, AloneAt, TypeInv, TypeOK
  <2> QED
    BY <2>1, <2>2
<1>4. CASE (Handle(w) /\ ~Saves(w)) \/ \E h \in HttpSessions : Begin(w, h)
  BY <1>1, <1>4, HandleIs
  DEF Edits, NewClone, Looks, CheckUse, CheckForward, SetAttribute, Begin, At, SavePcs
<1>5. CASE UNCHANGED vars
  BY <1>1, <1>5 DEF vars, SavePcs
<1> QED
  BY <1>1, <1>2, <1>3, <1>4, <1>5 DEF Next

\* A save that met no other one ends with the server running what is in the
\* file, whatever earlier saves that overlapped have left.
THEOREM SpecRunsWhatIsOnDisk == Spec => RunsWhatIsOnDiskProp
<1>1. Init => AloneInv
  BY DEF Init, AloneInv, StreamInv
<1> QED
  BY <1>1, InitTypeInv, NextTypeInv, NextAloneInv, AloneEndsOnDisk, PTL
  DEF Spec, RunsWhatIsOnDiskProp

-----------------------------------------------------------------------------
\* A stored password that the code recognizes was encrypted once, and shows it.
KeptString(s) == Recognized(s.typed) => s.layers = 1 /\ s.eqeq

KeptIn(cfg) == \A c \in Connections : cfg.password[c] # Absent => KeptString(cfg.password[c])

PasswordInv ==
  /\ \A cfg \in AllConfigs : KeptIn(cfg)
  /\ \A w \in Workers :
       LET r == req[w] IN
       /\ r.op = "addConnection" => r.password \in Typed
       /\ r.op = "updateConnection" => r.password \in Typed \/ KeptString(r.password)

LEMMA EncryptKeeps ==
  /\ \A s \in Typed : KeptString(encrypt(s)) /\ (s.eqeq => KeptString(s))
  /\ \A s \in Strings : KeptString(s) /\ ~s.eqeq => KeptString(encrypt(s))
<1>1. \A s : encrypt(s).typed = s.typed /\ encrypt(s).layers = s.layers + 1
  BY DEF encrypt
<1>2. ASSUME NEW p \in Passwords
      PROVE  /\ Clear(p).typed = p /\ Clear(p).layers = 0
             /\ Clear(p).eqeq = EndsEqEq[p]
  BY DEF Clear
<1> QED
  BY <1>1, <1>2 DEF Typed, KeptString, Recognized

LEMMA NewCloneKeeps ==
  ASSUME TypeInv, PasswordInv, NEW w \in Workers, NEW cfg, NewClone(w, cfg)
  PROVE  KeptIn(cfg)
<1> DEFINE old == Cfg(w)
           r   == req[w]
<1>1. /\ old \in Configs
      /\ KeptIn(old)
  <2>1. pc[w] \in {"work", "change"}
    BY DEF NewClone, At
  <2>2. Cfg(w) \in AllConfigs
    BY <2>1, CfgKnown
  <2> QED
    BY <2>1, <2>2, CfgType DEF PasswordInv
<1>2. /\ r.op = "addConnection" => KeptString(encrypt(r.password))
      /\ r.op = "updateConnection"
           => KeptString(IF r.password.eqeq THEN r.password ELSE encrypt(r.password))
  <2>1. r.op = "updateConnection" => r.password \in Strings
    BY DEF TypeInv, Control
  <2> QED
    BY <2>1, EncryptKeeps DEF PasswordInv
<1>3. CASE At(w, "work", "addConnection")
  <2>1. PICK c \in Connections : cfg = [old EXCEPT !.password[c] = encrypt(r.password)]
    BY <1>3 DEF NewClone, At
  <2> HIDE DEF old
  <2> QED
    BY <1>1, <1>2, <1>3, <2>1 DEF At, KeptIn, Configs
<1>4. CASE At(w, "work", "updateConnection")
  <2> DEFINE p == IF r.password.eqeq THEN r.password ELSE encrypt(r.password)
  <2>1. cfg = [old EXCEPT !.password[r.id] = p]
    BY <1>4 DEF NewClone, At
  <2>2. KeptString(p)
    BY <1>2, <1>4 DEF At
  <2> HIDE DEF old, p
  <2> QED
    BY <1>1, <2>1, <2>2 DEF KeptIn, Configs
<1>5. CASE At(w, "change", "deleteConnection")
  <2>1. cfg = [old EXCEPT !.password[r.id] = Absent]
    BY <1>5 DEF NewClone, At
  <2> HIDE DEF old
  <2> QED
    BY <1>1, <2>1 DEF KeptIn, Configs
<1>6. CASE ~(At(w, "work", "addConnection") \/ At(w, "work", "updateConnection")
             \/ At(w, "change", "deleteConnection"))
  <2>1. cfg.password = old.password
    BY <1>1, <1>6 DEF NewClone, WithoutSession, Configs
  <2> QED
    BY <1>1, <2>1 DEF KeptIn
<1> QED
  BY <1>3, <1>4, <1>5, <1>6

LEMMA NextPasswordInv == TypeInv /\ PasswordInv /\ [Next]_vars => PasswordInv'
<1> SUFFICES ASSUME TypeInv, PasswordInv, [Next]_vars PROVE PasswordInv'
  OBVIOUS
<1> USE DEF edits, disk, loading
<1>1. ASSUME NEW w \in Workers, NEW h \in HttpSessions, Begin(w, h) PROVE PasswordInv'
  <2>1. PICK r \in Requests(h) : req' = [req EXCEPT ![w] = r]
    BY <1>1 DEF Begin
  <2>2. ASSUME NEW c \in Connections, NEW s \in Shown(h, c) PROVE KeptString(s)
    <3>1. PICK u \in Workers : s = clone[h][u].password[c] /\ s # Absent
      BY <2>2 DEF Shown
    <3>2. clone[h][u] \in AllConfigs
      BY FileAssumption DEF AllConfigs, TypeInv, TypeOK
    <3> QED
      BY <3>1, <3>2 DEF PasswordInv, KeptIn
  <2>3. /\ r.op = "addConnection" => r.password \in Typed
        /\ r.op = "updateConnection" => r.password \in Typed \/ KeptString(r.password)
    BY <2>2 DEF Requests, Ask
  <2>4. UNCHANGED AllConfigs
    BY <1>1 DEF Begin, AllConfigs
  <2> QED
    BY <2>1, <2>3, <2>4 DEF PasswordInv, TypeInv, TypeOK
<1>2. ASSUME NEW w \in Workers, Edits(w) PROVE PasswordInv'
  <2>1. PICK cfg : NewClone(w, cfg) /\ Change(w, cfg)
    BY <1>2 DEF Edits
  <2>2. Cfg(w) \in AllConfigs
    BY <2>1, CfgKnown DEF NewClone, At
  <2>3. KeptIn(Edited(w, cfg))
    BY <2>1, <2>2, NewCloneKeeps DEF Edited, PasswordInv
  <2>4. \A d \in AllConfigs' : d \in AllConfigs \/ d = Edited(w, cfg)
    BY <2>1 DEF Change, AllConfigs, TypeInv, TypeOK
  <2>5. \A u \in Workers : req'[u] = req[u] \/ req'[u] = Blank
    BY <2>1 DEF Change, Answer, TypeInv, TypeOK
  <2> QED
    BY <2>3, <2>4, <2>5 DEF Blank, Ask, PasswordInv
<1>3. ASSUME NEW w \in Workers, Looks(w) PROVE PasswordInv'
  <2>1. UNCHANGED AllConfigs
    BY <1>3 DEF Looks, AllConfigs
  <2>2. req' = req \/ req' = [req EXCEPT ![w] = Blank]
    BY <1>3 DEF Looks, CheckForward, Pass, Goto, Answer
  <2> QED
    BY <2>1, <2>2 DEF Blank, Ask, PasswordInv, TypeInv, TypeOK
<1>4. ASSUME NEW w \in Workers, SetAttribute(w) PROVE PasswordInv'
  <2>1. \A d \in AllConfigs' : d \in AllConfigs
    BY <1>4, FileAssumption DEF SetAttribute, AllConfigs, TypeInv, TypeOK
  <2> QED
    BY <1>4, <2>1 DEF SetAttribute, PasswordInv
<1>5. ASSUME NEW w \in Workers, Saves(w) PROVE PasswordInv'
  <2>1. Moves(w) /\ CarriesOver
    BY <1>5, SavesMove
  <2>2. \A d \in AllConfigs' : Carries(d)
    BY <2>1 DEF CarriesOver, AllConfigs, Carries, TypeInv, TypeOK
  <2>3. KeptIn(EmptyConfig) /\ KeptIn(MixedConfig)
    BY DEF KeptIn, EmptyConfig, MixedConfig
  <2>4. \A cfg \in AllConfigs : Unmarshalled(cfg).password = cfg.password
    BY DEF Unmarshalled, AllConfigs, TypeInv, TypeOK, Configs, Files
  <2>5. \A d \in AllConfigs' : KeptIn(d)
    BY <2>2, <2>3, <2>4 DEF Carries, KeptIn, PasswordInv
  <2>6. \A u \in Workers : req'[u] = req[u] \/ req'[u] = Blank
    BY <2>1 DEF Moves, Answer, TypeInv, TypeOK
  <2> QED
    BY <2>5, <2>6 DEF Blank, Ask, PasswordInv
<1>7. CASE UNCHANGED vars
  BY <1>7 DEF vars, PasswordInv, AllConfigs
<1> QED
  BY <1>1, <1>2, <1>3, <1>4, <1>5, <1>7, HandleIs DEF Next

\* A password that the code recognizes stays encrypted once, and so decrypts
\* to what was typed, through any updates, clones, saves and loads.
THEOREM SpecPasswordKept == Spec => []PasswordKept
<1>1. Init => PasswordInv
  BY EmptyType, FileAssumption DEF Init, PasswordInv, AllConfigs, EmptyConfig, KeptIn, Blank, Ask
<1>2. TypeInv /\ PasswordInv => PasswordKept
  BY DEF PasswordInv, PasswordKept, KeptIn, KeptString, Decrypts
<1> QED
  BY <1>1, <1>2, InitTypeInv, NextTypeInv, NextPasswordInv, PTL DEF Spec

-----------------------------------------------------------------------------
(***************************************************************************)
(* Forwards lead to connections, if users wait for answers: then the clone *)
(* that a request has checked is the clone that it changes.                *)
(***************************************************************************)
OneRequest ==
  \A u, w \in Workers :
    req[u].http = req[w].http /\ req[u].http \in HttpSessions => u = w

Checked(w) ==
  LET r == req[w]  cfg == Cfg(w) IN
  pc[w] = "change" /\ ~cfg.mixed =>
    /\ r.op \in {"addForward", "updateForward"} => HasConnection(cfg, r.connection)
    /\ r.op = "deleteConnection" =>
         \A f \in Forwards : HasForward(cfg, f) => cfg.forward[f].connection # r.id

WholeInv ==
  /\ NoDanglingForward
  /\ OneRequest
  /\ \A w \in Workers : Checked(w)

\* What the operations on a configuration keep.
OperationsKeepWhole(cfg) ==
  /\ Whole(Unmarshalled(cfg))
  /\ \A s : Whole(WithoutSession(cfg, s))
  /\ \A c, p : p # Absent => Whole([cfg EXCEPT !.password[c] = p])
  /\ \A c : (\A f \in Forwards : HasForward(cfg, f) => cfg.forward[f].connection # c)
              => Whole([cfg EXCEPT !.password[c] = Absent])
  /\ \A s : Whole([cfg EXCEPT !.session = @ \cup {s}])
  /\ \A f, c : \A s \in cfg.session : HasConnection(cfg, c)
       => Whole([cfg EXCEPT !.forward[f] = [of |-> s, connection |-> c]])
  /\ \A f, c : HasForward(cfg, f) /\ HasConnection(cfg, c)
       => Whole([cfg EXCEPT !.forward[f].connection = c])
  /\ \A f : Whole([cfg EXCEPT !.forward[f] = NoForward])

LEMMA WholeOperations ==
  ASSUME NEW cfg \in Configs, Whole(cfg)
  PROVE  OperationsKeepWhole(cfg)
<1> USE DEF Whole, HasForward, HasConnection, Configs
<1>1. Whole(Unmarshalled(cfg))
  BY EditAssumption DEF Unmarshalled, NoForward
<1>2. \A s : Whole(WithoutSession(cfg, s))
  BY DEF WithoutSession
<1>3. \A c, p : p # Absent => Whole([cfg EXCEPT !.password[c] = p])
  OBVIOUS
<1>4. \A c : (\A f \in Forwards : HasForward(cfg, f) => cfg.forward[f].connection # c)
               => Whole([cfg EXCEPT !.password[c] = Absent])
  OBVIOUS
<1>5. \A s : Whole([cfg EXCEPT !.session = @ \cup {s}])
  OBVIOUS
<1>6. \A f, c : \A s \in cfg.session : HasConnection(cfg, c)
        => Whole([cfg EXCEPT !.forward[f] = [of |-> s, connection |-> c]])
  OBVIOUS
<1>7. \A f, c : HasForward(cfg, f) /\ HasConnection(cfg, c)
        => Whole([cfg EXCEPT !.forward[f].connection = c])
  OBVIOUS
<1>8. \A f : Whole([cfg EXCEPT !.forward[f] = NoForward])
  OBVIOUS
<1> QED
  BY <1>1, <1>2, <1>3, <1>4, <1>5, <1>6, <1>7, <1>8 DEF OperationsKeepWhole

LEMMA NewCloneWhole ==
  ASSUME TypeInv, WholeInv, NEW w \in Workers, ~Cfg(w).mixed, NEW cfg, NewClone(w, cfg)
  PROVE  Whole(cfg)
<1> DEFINE old == Cfg(w)
           r   == req[w]
<1>1. old \in Configs /\ Whole(old)
  <2>1. pc[w] \in {"work", "change"}
    BY DEF NewClone, At
  <2>2. Cfg(w) \in AllConfigs
    BY <2>1, CfgKnown
  <2> QED
    BY <2>1, <2>2, CfgType DEF WholeInv, NoDanglingForward
<1>2. /\ r.op \in {"addConnection", "updateConnection"}
           => r.password # Absent /\ encrypt(r.password) # Absent
      /\ pc[w] = "change" /\ r.op \in {"addForward", "updateForward"}
           => HasConnection(old, r.connection)
      /\ At(w, "change", "deleteConnection") =>
           \A f \in Forwards : HasForward(old, f) => old.forward[f].connection # r.id
  BY EncryptType, EditAssumption DEF TypeInv, Control, WholeInv, Checked, At
<1>7. OperationsKeepWhole(old)
  BY <1>1, WholeOperations
<1>3. CASE At(w, "work", "addConnection") \/ At(w, "work", "updateConnection")
  <2>1. PICK c : \E p : p # Absent /\ cfg = [old EXCEPT !.password[c] = p]
    <3>1. CASE At(w, "work", "addConnection")
      BY <1>2, <3>1 DEF NewClone, At
    <3>2. CASE At(w, "work", "updateConnection")
      <4> DEFINE p == IF r.password.eqeq THEN r.password ELSE encrypt(r.password)
      <4>1. cfg = [old EXCEPT !.password[r.id] = p] /\ p # Absent
        BY <1>2, <3>2 DEF NewClone, At
      <4> HIDE DEF p
      <4> QED
        BY <4>1
    <3> QED
      BY <1>3, <3>1, <3>2
  <2> HIDE DEF old
  <2>2. \A p : p # Absent => Whole([old EXCEPT !.password[c] = p])
    BY <1>7 DEF OperationsKeepWhole
  <2> QED
    BY <2>1, <2>2
<1>4. CASE At(w, "change", "deleteConnection")
  <2>1. cfg = [old EXCEPT !.password[r.id] = Absent]
    BY <1>4 DEF NewClone, At
  <2>2. \A f \in Forwards : HasForward(old, f) => old.forward[f].connection # r.id
    BY <1>2, <1>4
  <2> HIDE DEF old, r
  <2>3. Whole([old EXCEPT !.password[r.id] = Absent])
    BY <1>7, <2>2 DEF OperationsKeepWhole
  <2> QED
    BY <2>1, <2>3
<1>5. CASE \/ At(w, "work", "addSession") \/ At(w, "work", "deleteSession")
           \/ At(w, "work", "deleteForward")
  <2>1. \/ \E s : cfg = [old EXCEPT !.session = @ \cup {s}]
        \/ cfg = WithoutSession(old, r.id)
        \/ cfg = [old EXCEPT !.forward[r.id] = NoForward]
    BY <1>5 DEF NewClone, At
  <2> HIDE DEF old
  <2> QED
    BY <1>7, <2>1 DEF OperationsKeepWhole
<1>6. CASE At(w, "change", "addForward") \/ At(w, "change", "updateForward")
  <2>1. \/ cfg = old
        \/ \E f : /\ r.id \in old.session
                  /\ cfg = [old EXCEPT !.forward[f] =
                              [of |-> r.id, connection |-> r.connection]]
        \/ /\ HasForward(old, r.id)
           /\ cfg = [old EXCEPT !.forward[r.id].connection = r.connection]
    BY <1>6 DEF NewClone, At
  <2>2. HasConnection(old, r.connection)
    BY <1>2, <1>6 DEF At
  <2> HIDE DEF old, r
  <2>3. \A f : \A s \in old.session :
          Whole([old EXCEPT !.forward[f] = [of |-> s, connection |-> r.connection]])
    BY <1>7, <2>2 DEF OperationsKeepWhole
  <2>4. HasForward(old, r.id) => Whole([old EXCEPT !.forward[r.id].connection = r.connection])
    BY <1>7, <2>2 DEF OperationsKeepWhole
  <2> QED
    BY <1>1, <2>1, <2>3, <2>4
<1> QED
  BY <1>3, <1>4, <1>5, <1>6 DEF NewClone

LEMMA NextWholeInv ==
  ASSUME Serial = TRUE
  PROVE  TypeInv /\ WholeInv /\ [Next]_vars => WholeInv'
<1> SUFFICES ASSUME TypeInv, WholeInv, [Next]_vars PROVE WholeInv'
  OBVIOUS
<1> USE DEF edits, disk, loading
<1>1. ASSUME NEW w \in Workers, NEW h \in HttpSessions, Begin(w, h) PROVE WholeInv'
  <2>1. PICK r \in Requests(h) : req' = [req EXCEPT ![w] = r]
    BY <1>1 DEF Begin
  <2>2. r.http = h
    BY RequestsAreTyped DEF TypeInv
  <2>3. OneRequest'
    BY <1>1, <2>1, <2>2 DEF Begin, OneRequest, WholeInv, TypeInv, TypeOK
  <2>4. ASSUME NEW u \in Workers PROVE Checked(u)'
    BY <1>1, <2>1 DEF Begin, GetAttribute, Checked, Cfg, WholeInv, TypeInv, TypeOK
  <2>5. NoDanglingForward'
    BY <1>1 DEF Begin, WholeInv, NoDanglingForward, AllConfigs
  <2> QED
    BY <2>3, <2>4, <2>5 DEF WholeInv
<1>2. ASSUME NEW w \in Workers, Edits(w) PROVE WholeInv'
  <2>1. PICK cfg : NewClone(w, cfg) /\ Change(w, cfg)
    BY <1>2 DEF Edits
  <2>2. pc[w] \in {"work", "change"}
    BY <2>1 DEF NewClone, At
  <2>3. OneRequest'
    BY <2>1, EditAssumption
    DEF Change, Answer, Blank, Ask, OneRequest, WholeInv, TypeInv, TypeOK
  <2>4. ASSUME NEW u \in Workers PROVE Checked(u)'
    <3>1. CASE u = w
      BY <2>1, <3>1 DEF Change, Answer, Checked, TypeInv, TypeOK
    <3>2. CASE u # w /\ pc[u] = "change"
      <4>1. req[u].http # req[w].http
        BY <2>2, <3>2 DEF WholeInv, OneRequest, TypeInv, Control
      <4>2. Cfg(u)' = Cfg(u) /\ req'[u] = req[u]
        BY <2>1, <3>2, <4>1 DEF Change, Answer, Cfg, TypeInv, TypeOK, Control
      <4> QED
        BY <3>2, <4>2 DEF Checked, WholeInv
    <3> QED
      BY <2>1, <3>1, <3>2 DEF Change, Answer, Checked, TypeInv, TypeOK
  <2>5. NoDanglingForward'
    <3>1. Edited(w, cfg).mixed \/ Whole(Edited(w, cfg))
      BY <2>1, NewCloneWhole DEF Edited
    <3>2. \A d \in AllConfigs' : d \in AllConfigs \/ d = Edited(w, cfg)
      BY <2>1 DEF Change, AllConfigs, TypeInv, TypeOK
    <3> QED
      BY <3>1, <3>2 DEF WholeInv, NoDanglingForward
  <2> QED
    BY <2>3, <2>4, <2>5 DEF WholeInv
<1>3. ASSUME NEW w \in Workers, Looks(w) PROVE WholeInv'
  <2>1. UNCHANGED AllConfigs /\ UNCHANGED clone
    BY <1>3 DEF Looks, AllConfigs
  <2>2. \/ req' = req
        \/ req' = [req EXCEPT ![w] = Blank]
    BY <1>3 DEF Looks, CheckForward, Pass, Goto, Answer
  <2>3. OneRequest'
    BY <2>2, EditAssumption DEF Blank, Ask, OneRequest, WholeInv, TypeInv, TypeOK
  <2>4. ASSUME NEW u \in Workers PROVE Checked(u)'
    <3>2. CASE Answer(w)
      BY <2>1, <3>2 DEF Answer, Checked, Cfg, WholeInv, TypeInv, TypeOK
    <3>3. CASE CheckUse(w) /\ Pass(w)
      BY <2>1, <3>3 DEF CheckUse, Pass, Goto, Leave, Answer, At, Checked, Cfg,
                        WholeInv, TypeInv, TypeOK
    <3>4. CASE CheckForward(w)
      BY <2>1, <3>4 DEF CheckForward, Pass, Goto, At, Checked, Cfg,
                        WholeInv, TypeInv, TypeOK
    <3> QED
      BY <1>3, <3>2, <3>3, <3>4 DEF Looks
  <2>5. NoDanglingForward'
    BY <2>1 DEF WholeInv, NoDanglingForward
  <2> QED
    BY <2>3, <2>4, <2>5 DEF WholeInv
<1>4. ASSUME NEW w \in Workers, SetAttribute(w) PROVE WholeInv'
  <2>1. OneRequest'
    BY <1>4 DEF SetAttribute, OneRequest, WholeInv
  <2>2. ASSUME NEW u \in Workers PROVE Checked(u)'
    <3>1. CASE u = w
      BY <1>4, <3>1 DEF SetAttribute, Checked, TypeInv, TypeOK
    <3>2. CASE u # w /\ pc[u] = "change"
      <4>1. req[u].http # req[w].http
        BY <1>4, <3>2 DEF SetAttribute, WholeInv, OneRequest, TypeInv, Control
      <4>2. Cfg(u)' = Cfg(u)
        BY <1>4, <3>2, <4>1 DEF SetAttribute, Cfg, TypeInv, TypeOK, Control
      <4> QED
        BY <1>4, <3>2, <4>2 DEF SetAttribute, Checked, WholeInv
    <3> QED
      BY <1>4, <3>1, <3>2 DEF SetAttribute, Checked, TypeInv, TypeOK
  <2>3. NoDanglingForward'
    <3>1. \A d \in AllConfigs' : d \in AllConfigs
      BY <1>4, FileAssumption DEF SetAttribute, AllConfigs, TypeInv, TypeOK
    <3> QED
      BY <3>1 DEF WholeInv, NoDanglingForward
  <2> QED
    BY <2>1, <2>2, <2>3 DEF WholeInv
<1>5. ASSUME NEW w \in Workers, Saves(w) PROVE WholeInv'
  <2>1. Moves(w) /\ CarriesOver /\ UNCHANGED clone
    BY <1>5, SavesMove DEF CarriesOver
  <2>2. \A d \in AllConfigs' : Carries(d)
    BY <2>1 DEF CarriesOver, AllConfigs, Carries, TypeInv, TypeOK
  <2>3. /\ Whole(EmptyConfig)
        /\ MixedConfig.mixed
        /\ \A cfg \in AllConfigs : /\ Unmarshalled(cfg).mixed = cfg.mixed
                                   /\ Whole(cfg) => Whole(Unmarshalled(cfg))
    <3>1. Whole(EmptyConfig) /\ MixedConfig.mixed
      BY DEF Whole, EmptyConfig, MixedConfig, HasForward
    <3>2. \A cfg \in AllConfigs : cfg \in Configs
      BY DEF AllConfigs, TypeInv, TypeOK, Files
    <3>3. \A cfg \in AllConfigs : Unmarshalled(cfg).mixed = cfg.mixed
      BY <3>2 DEF Unmarshalled, Configs
    <3> QED
      BY <3>1, <3>2, <3>3, WholeOperations DEF OperationsKeepWhole
  <2>4. NoDanglingForward'
    BY <2>2, <2>3 DEF Carries, WholeInv, NoDanglingForward
  <2>5. req' = req \/ req' = [req EXCEPT ![w] = Blank]
    BY <2>1 DEF Moves, Answer
  <2>6. OneRequest'
    BY <2>5, EditAssumption DEF Blank, Ask, OneRequest, WholeInv, TypeInv, TypeOK
  <2>7. ASSUME NEW u \in Workers, pc'[u] = "change" PROVE Checked(u)'
    <3>1. u # w /\ pc[u] = "change"
      BY <2>1, <2>7 DEF Moves, Answer, SavePcs, TypeInv, TypeOK
    <3>2. req'[u] = req[u] /\ at'[u] = at[u]
      BY <2>1, <3>1 DEF Moves, Answer, TypeInv, TypeOK
    <3> QED
      BY <2>1, <3>1, <3>2 DEF Checked, Cfg, WholeInv
  <2> QED
    BY <2>4, <2>6, <2>7 DEF WholeInv, Checked
<1>6. CASE UNCHANGED vars
  BY <1>6, SMTT(60) DEF vars, WholeInv, NoDanglingForward, AllConfigs, OneRequest, Checked, Cfg
<1> QED
  BY <1>1, <1>2, <1>3, <1>4, <1>5, <1>6, HandleIs DEF Next

\* If users wait for answers, every forward's connection and session are in
\* the same configuration: edited, on disk and running, unless it was read from
\* the mixed bytes of two saves.
THEOREM SpecNoDanglingForward ==
  ASSUME Serial = TRUE
  PROVE  Spec => []NoDanglingForward
<1>1. Init => WholeInv
  BY EditAssumption, FileAssumption
  DEF Init, WholeInv, NoDanglingForward, AllConfigs, Whole, HasForward, EmptyConfig,
      OneRequest, Checked, Blank, Ask
<1>2. WholeInv => NoDanglingForward
  BY DEF WholeInv
<1>3. TypeInv /\ WholeInv /\ [Next]_vars => WholeInv'
  BY NextWholeInv
<1> QED
  BY <1>1, <1>2, <1>3, InitTypeInv, NextTypeInv, PTL DEF Spec
==============================================================================
