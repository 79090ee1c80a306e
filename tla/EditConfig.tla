------------------------------ MODULE EditConfig ------------------------------
(***************************************************************************)
(* ConfigHandler: the requests that edit a configuration.  Each HTTP       *)
(* session works on a clone of the running configuration, which it makes   *)
(* on first use and keeps as an attribute; save writes the clone to the    *)
(* file and has the file loaded.  No request takes a lock, and saves go    *)
(* through the same two files in steps.  The disk does what it is asked;   *)
(* ConfigStore has its faults, and the crash.                              *)
(*                                                                         *)
(* A configuration is what its ids lead to: connections with their         *)
(* passwords, sessions, forwards.  Names, hosts, ports, filters and what   *)
(* is enabled are left out.                                                *)
(***************************************************************************)
EXTENDS Naturals

CONSTANTS
  HttpSessions,
  Workers,     \* the threads that serve HTTP requests
  Connections, \* the ids that createUUID hands out, by kind
  SshSessions,
  Forwards,
  NoId,
  Absent, Broken, \* no file or string; bytes that do not parse
  Passwords,   \* what users type
  Length,      \* ... its number of bytes
  EndsEqEq,    \* ... whether it ends with "=="
  MaxLayers,   \* bounds how often a password is encrypted over and over
  Serial       \* a user waits for an answer before the next request

\* A string is a password that was encrypted `layers' times.
Strings == [typed : Passwords, layers : Nat, len : Nat, eqeq : BOOLEAN]

ASSUME EditAssumption ==
  /\ NoId \notin Workers \cup Connections \cup SshSessions \cup Forwards
                         \cup HttpSessions
  /\ Absent \notin Strings
  /\ Length \in [Passwords -> Nat]
  /\ EndsEqEq \in [Passwords -> BOOLEAN]
  /\ MaxLayers \in Nat
  /\ Serial \in BOOLEAN

VARIABLES
  running, \* DrillServer.configuration
  file,    \* what config.xml holds
  tmp,     \* what config.xml.tmp holds
  edit,    \* the attribute "editConfiguration": the thread that made the clone
  clone,   \* the clones that a thread made for an HTTP session
  pc, req, \* what a thread is doing, for which request
  at,      \* the clone that getEditConfiguration returned to it
  out,     \* which file a thread's FileOutputStream is on
  shared,  \* the threads whose file another stream was open on meanwhile
  local,   \* what a thread has read, or the default that it writes
  alone    \* history: the threads whose save has met no other one

edits   == <<edit, clone>>
disk    == <<file, tmp, out, shared>>
loading == <<running, local, alone>>

vars == <<edits, disk, loading, pc, req, at>>

-----------------------------------------------------------------------------
(***************************************************************************)
(* Passwords.  StringEncDecoder pads to full blocks of 16 bytes, one block *)
(* at least, and encodes the cipher text in base 64.                       *)
(***************************************************************************)
Clear(p) ==
  [typed |-> p, layers |-> 0, len |-> Length[p], eqeq |-> EndsEqEq[p]]

encrypt(s) ==
  LET blocks == s.len \div 16 + 1 IN
  [typed  |-> s.typed,
   layers |-> s.layers + 1,
   len    |-> 4 * ((16 * blocks + 2) \div 3),
   eqeq   |-> blocks % 3 = 1]

\* What decrypt makes of a string is the password only if it was encrypted once.
Decrypts(s) == s.layers = 1

-----------------------------------------------------------------------------
\* Configurations.  `mixed' marks what was read from the bytes of two saves,
\* and what was made of it.
NoForward == [of |-> NoId, connection |-> NoId]

Configs ==
  [password : [Connections -> Strings \cup {Absent}],
   session  : SUBSET SshSessions,
   forward  : [Forwards -> [of : SshSessions \cup {NoId},
                            connection : Connections \cup {NoId}]],
   mixed    : BOOLEAN]

EmptyConfig ==
  [password |-> [c \in Connections |-> Absent],
   session  |-> {},
   forward  |-> [f \in Forwards |-> NoForward],
   mixed    |-> FALSE]

MixedConfig == [EmptyConfig EXCEPT !.mixed = TRUE]

ASSUME FileAssumption == Broken # Absent /\ {Absent, Broken} \cap Configs = {}

HasConnection(cfg, c) == c \in Connections /\ cfg.password[c] # Absent
HasForward(cfg, f)    == f \in Forwards /\ cfg.forward[f] # NoForward

\* A forward refers to its connection by id in the file: an id that leads
\* nowhere is read back as no connection.
Unmarshalled(cfg) ==
  [cfg EXCEPT !.forward = [f \in Forwards |->
     IF HasConnection(cfg, cfg.forward[f].connection) THEN cfg.forward[f]
     ELSE [cfg.forward[f] EXCEPT !.connection = NoId]]]

WithoutSession(cfg, s) ==
  [cfg EXCEPT !.session = @ \ {s},
              !.forward = [f \in Forwards |->
                 IF cfg.forward[f].of = s THEN NoForward ELSE cfg.forward[f]]]

\* The configurations that are in memory or in a file.
AllConfigs ==
  ({running, file, tmp}
     \cup {clone[h][w] : h \in HttpSessions, w \in Workers}
     \cup {local[w] : w \in Workers}) \ {Absent, Broken}

Known(cfg, id) == HasConnection(cfg, id) \/ id \in cfg.session \/ HasForward(cfg, id)

\* createUUID never hands out an id that anything still knows.
NewId(id) ==
  /\ \A cfg \in AllConfigs : ~Known(cfg, id)
  /\ \A w \in Workers : id \notin {req[w].id, req[w].connection}

-----------------------------------------------------------------------------
(***************************************************************************)
(* Requests.  The page sends back the stored password of a connection      *)
(* unless the user types another one; ids may come from an old page.       *)
(***************************************************************************)
Ask(o, h, id, c, s) ==
  [op |-> o, http |-> h, id |-> id, connection |-> c, password |-> s]

Blank == Ask("none", NoId, NoId, NoId, Absent)

Ids == Connections \cup SshSessions \cup Forwards \cup {NoId}

RequestType ==
  [op : {"none", "read", "save", "addConnection", "updateConnection",
         "deleteConnection", "addSession", "updateSession", "deleteSession",
         "addForward", "updateForward", "deleteForward"},
   http : HttpSessions \cup {NoId}, id : Ids, connection : Ids,
   password : Strings \cup {Absent}]

Typed == {Clear(p) : p \in Passwords}

Shown(h, c) ==
  {s \in {clone[h][w].password[c] : w \in {edit[h]} \cap Workers} :
     s # Absent /\ s.layers < MaxLayers}

Requests(h) ==
  (UNION {{Ask("updateConnection", h, c, NoId, s) : s \in Typed \cup Shown(h, c)} :
            c \in Connections})
  \cup {Ask(o, h, NoId, NoId, Absent) : o \in {"read", "save", "addSession"}}
  \cup {Ask("addConnection", h, NoId, NoId, s) : s \in Typed}
  \cup {Ask("deleteConnection", h, c, NoId, Absent) : c \in Connections}
  \cup {Ask(o, h, s, NoId, Absent) :
          o \in {"updateSession", "deleteSession"}, s \in SshSessions}
  \cup {Ask("addForward", h, s, c, Absent) : s \in SshSessions, c \in Connections}
  \cup {Ask("updateForward", h, f, c, Absent) : f \in Forwards, c \in Connections}
  \cup {Ask("deleteForward", h, f, NoId, Absent) : f \in Forwards}

Files   == Configs \cup {Absent, Broken}
Streams == {"none", "tmp", "file", "unlinked"}
SavePcs == {"open", "marshal", "exists", "delete", "rename",
            "isFile", "default", "unmarshal", "assign"}

TypeOK ==
  /\ running \in Configs
  /\ file \in Files
  /\ tmp \in Files
  /\ edit \in [HttpSessions -> Workers \cup {NoId}]
  /\ clone \in [HttpSessions -> [Workers -> Configs]]
  /\ pc \in [Workers -> {"idle", "clone", "work", "change"} \cup SavePcs]
  /\ req \in [Workers -> RequestType]
  /\ at \in [Workers -> Workers \cup {NoId}]
  /\ out \in [Workers -> Streams]
  /\ shared \subseteq Workers
  /\ local \in [Workers -> Configs \cup {Absent}]
  /\ alone \subseteq Workers

\* The first start has written and loaded the default configuration.
Init ==
  /\ running = EmptyConfig
  /\ file = EmptyConfig
  /\ tmp = Absent
  /\ edit = [h \in HttpSessions |-> NoId]
  /\ clone = [h \in HttpSessions |-> [w \in Workers |-> EmptyConfig]]
  /\ pc = [w \in Workers |-> "idle"]
  /\ req = [w \in Workers |-> Blank]
  /\ at = [w \in Workers |-> NoId]
  /\ out = [w \in Workers |-> "none"]
  /\ shared = {}
  /\ local = [w \in Workers |-> Absent]
  /\ alone = {}

Goto(w, l) == pc' = [pc EXCEPT ![w] = l] /\ UNCHANGED <<req, at>>

\* The request is answered, with OK or with NOK.
Answer(w) ==
  /\ pc' = [pc EXCEPT ![w] = "idle"]
  /\ req' = [req EXCEPT ![w] = Blank]
  /\ at' = [at EXCEPT ![w] = NoId]

\* getEditConfiguration: the attribute is read, and if it is missing the
\* running configuration is cloned and the clone made the attribute.
GetAttribute(w, h) ==
  /\ pc' = [pc EXCEPT ![w] = IF edit[h] = NoId THEN "clone" ELSE "work"]
  /\ at' = [at EXCEPT ![w] = edit[h]]

\* A request comes in; its first step is to read the attribute.
Begin(w, h) ==
  /\ pc[w] = "idle"
  /\ Serial => \A u \in Workers : req[u].http # h
  /\ \E r \in Requests(h) : req' = [req EXCEPT ![w] = r]
  /\ GetAttribute(w, h)
  /\ UNCHANGED <<edits, disk, loading>>

SetAttribute(w) ==
  /\ pc[w] = "clone"
  /\ clone' = [clone EXCEPT ![req[w].http][w] = running]
  /\ edit' = [edit EXCEPT ![req[w].http] = w]
  /\ at' = [at EXCEPT ![w] = w]
  /\ pc' = [pc EXCEPT ![w] = "work"]
  /\ UNCHANGED <<disk, loading, req>>

Cfg(w) == clone[req[w].http][at[w]]

At(w, l, op) == pc[w] = l /\ req[w].op = op

\* What a mixed document holds, and is made of it, is not followed.
Edited(w, cfg) == IF Cfg(w).mixed THEN Cfg(w) ELSE cfg

\* The request leaves its clone as it is, or changes it, and is answered.
Leave(w) == Answer(w) /\ UNCHANGED <<edits, disk, loading>>

Change(w, cfg) ==
  /\ clone' = [clone EXCEPT ![req[w].http][at[w]] = Edited(w, cfg)]
  /\ Answer(w)
  /\ UNCHANGED <<edit, disk, loading>>

\* A check has passed; the change is another step.
Pass(w) == Goto(w, "change") /\ UNCHANGED <<edits, disk, loading>>

-----------------------------------------------------------------------------
Read(w) == At(w, "work", "read") /\ Leave(w)

AddConnection(w) ==
  /\ At(w, "work", "addConnection")
  /\ \E c \in Connections :
       /\ NewId(c)
       /\ Change(w, [Cfg(w) EXCEPT !.password[c] = encrypt(req[w].password)])

\* A variant that encrypts whatever it is sent.
UpdateConnectionEncrypts(w) ==
  /\ At(w, "work", "updateConnection")
  /\ IF HasConnection(Cfg(w), req[w].id)
       THEN Change(w, [Cfg(w) EXCEPT !.password[req[w].id] = encrypt(req[w].password)])
       ELSE Leave(w)

\* A password that ends with "==" is taken for one that is encrypted.
UpdateConnection(w) ==
  LET s == req[w].password IN
  /\ At(w, "work", "updateConnection")
  /\ IF HasConnection(Cfg(w), req[w].id)
       THEN Change(w, [Cfg(w) EXCEPT !.password[req[w].id] =
                         IF s.eqeq THEN s ELSE encrypt(s)])
       ELSE Leave(w)

\* A variant that does not look for forwards.
CheckUseForgotten(w) == At(w, "work", "deleteConnection") /\ Pass(w)

\* A forward without a connection makes the loop throw.
CheckUse(w) ==
  /\ At(w, "work", "deleteConnection")
  /\ IF \E f \in Forwards : /\ HasForward(Cfg(w), f)
                            /\ Cfg(w).forward[f].connection \in {req[w].id, NoId}
       THEN Leave(w)
       ELSE Pass(w)

DeleteConnection(w) ==
  /\ At(w, "change", "deleteConnection")
  /\ Change(w, [Cfg(w) EXCEPT !.password[req[w].id] = Absent])

AddSession(w) ==
  /\ At(w, "work", "addSession")
  /\ \E s \in SshSessions :
       /\ NewId(s)
       /\ Change(w, [Cfg(w) EXCEPT !.session = @ \cup {s}])

\* Changes nothing but the fields left out.
UpdateSession(w) == At(w, "work", "updateSession") /\ Leave(w)

\* A session holds its forwards: they go with it.
DeleteSession(w) ==
  /\ At(w, "work", "deleteSession")
  /\ Change(w, WithoutSession(Cfg(w), req[w].id))

\* addForward and updateForward look for the session or the forward, and for
\* the connection.
CheckForward(w) ==
  LET cfg == Cfg(w)  r == req[w] IN
  /\ \/ At(w, "work", "addForward") /\ r.id \in cfg.session /\ HasConnection(cfg, r.connection)
     \/ At(w, "work", "updateForward") /\ HasForward(cfg, r.id) /\ HasConnection(cfg, r.connection)
  /\ Pass(w)

RefuseForward(w) ==
  LET cfg == Cfg(w)  r == req[w] IN
  /\ \/ At(w, "work", "addForward")
        /\ ~(r.id \in cfg.session /\ HasConnection(cfg, r.connection))
     \/ At(w, "work", "updateForward")
        /\ ~(HasForward(cfg, r.id) /\ HasConnection(cfg, r.connection))
  /\ Leave(w)

\* What is added to a session, or changed, after it was removed is lost.
AddForward(w) ==
  /\ At(w, "change", "addForward")
  /\ \E f \in Forwards :
       /\ NewId(f)
       /\ Change(w, IF req[w].id \in Cfg(w).session
                      THEN [Cfg(w) EXCEPT !.forward[f] =
                              [of |-> req[w].id, connection |-> req[w].connection]]
                      ELSE Cfg(w))

UpdateForward(w) ==
  /\ At(w, "change", "updateForward")
  /\ Change(w, IF HasForward(Cfg(w), req[w].id)
                 THEN [Cfg(w) EXCEPT !.forward[req[w].id].connection = req[w].connection]
                 ELSE Cfg(w))

DeleteForward(w) ==
  /\ At(w, "work", "deleteForward")
  /\ Change(w, [Cfg(w) EXCEPT !.forward[req[w].id] = NoForward])

(***************************************************************************)
(* save: writeConfiguration, then readConfiguration in restartService.     *)
(* Every save writes the same config.xml.tmp.  A stream stays on the file  *)
(* that it opened when the file is renamed or unlinked.                    *)
(***************************************************************************)
\* What a thread marshals: its clone, or the default configuration.
Doc(w) == IF local[w] = Absent THEN Cfg(w) ELSE local[w]

\* The end of a save, of the restart's reading included.
Over(w) ==
  /\ Answer(w)
  /\ local' = [local EXCEPT ![w] = Absent]
  /\ alone' = alone \ {w}

\* new FileOutputStream(config.xml.tmp) empties the file if it is there.
Open(w) ==
  /\ At(w, "work", "save") \/ pc[w] = "open"
  /\ tmp' = Broken
  /\ out' = [out EXCEPT ![w] = "tmp"]
  /\ LET others == {u \in Workers : out[u] = "tmp"} IN
     shared' = shared \cup IF others = {} THEN {} ELSE others \cup {w}
  /\ alone' = IF pc[w] = "open" THEN alone
              ELSE IF \E u \in Workers : pc[u] \in SavePcs THEN {} ELSE {w}
  /\ Goto(w, "marshal")
  /\ UNCHANGED <<edits, file, running, local>>

(***************************************************************************)
(* The document is written and the stream closed.  The file is broken      *)
(* until then, unless two streams are on it: then it may also hold either  *)
(* document, or, where they have the same length, the first part of one,   *)
(* with the connections, and the rest of the other.                        *)
(***************************************************************************)
Documents(w) ==
  ({Doc(u) : u \in {v \in Workers : pc[v] = "marshal" /\ out[v] = out[w]}}
     \cup {IF out[w] = "tmp" THEN tmp ELSE file}) \ {Absent, Broken}

Written(w) ==
  IF w \notin shared THEN {Doc(w)}
  ELSE {Broken, MixedConfig} \cup Documents(w)

Marshal(w) ==
  /\ pc[w] = "marshal"
  /\ \E x \in Written(w) :
       /\ tmp' = IF out[w] = "tmp" THEN x ELSE tmp
       /\ file' = IF out[w] = "file" THEN x ELSE file
  /\ out' = [out EXCEPT ![w] = "none"]
  /\ shared' = shared \ {w}
  /\ Goto(w, "exists")
  /\ UNCHANGED <<edits, loading>>

\* The default configuration is written at the end of reading.
WriteReturns(w) ==
  IF local[w] = Absent
    THEN Goto(w, "isFile") /\ UNCHANGED <<local, alone>>
    ELSE Over(w)

\* A variant that renames only where there was a file to delete.
TestExistsFirst(w) ==
  /\ pc[w] = "exists"
  /\ IF file = Absent THEN WriteReturns(w)
     ELSE Goto(w, "delete") /\ UNCHANGED <<local, alone>>
  /\ UNCHANGED <<edits, disk, running>>

\* if (!configFile.exists() || configFile.delete()) ...
TestExists(w) ==
  /\ pc[w] = "exists"
  /\ Goto(w, IF file = Absent THEN "rename" ELSE "delete")
  /\ UNCHANGED <<edits, disk, loading>>

DeleteOld(w) ==
  /\ pc[w] = "delete"
  /\ file' = Absent
  /\ out' = [u \in Workers |-> IF out[u] = "file" THEN "unlinked" ELSE out[u]]
  /\ IF file = Absent THEN WriteReturns(w) ELSE Goto(w, "rename") /\ UNCHANGED <<local, alone>>
  /\ UNCHANGED <<edits, tmp, shared, running>>

\* ... renameTo replaces a file that is there, and nobody looks at its result.
Rename(w) ==
  /\ pc[w] = "rename"
  /\ IF tmp = Absent
       THEN UNCHANGED <<file, tmp, out>>
       ELSE /\ file' = tmp
            /\ tmp' = Absent
            /\ out' = [u \in Workers |-> CASE out[u] = "tmp"  -> "file"
                                           [] out[u] = "file" -> "unlinked"
                                           [] OTHER           -> out[u]]
  /\ WriteReturns(w)
  /\ UNCHANGED <<edits, shared, running>>

\* readConfiguration.  Without a file the default becomes the configuration,
\* and then whatever is the configuration is written.
TestIsFile(w) ==
  /\ pc[w] = "isFile"
  /\ Goto(w, IF file = Absent THEN "default" ELSE "unmarshal")
  /\ running' = IF file = Absent THEN EmptyConfig ELSE running
  /\ UNCHANGED <<edits, disk, local, alone>>

WriteDefault(w) ==
  /\ pc[w] = "default"
  /\ local' = [local EXCEPT ![w] = running]
  /\ Goto(w, "open")
  /\ UNCHANGED <<edits, disk, running, alone>>

\* What does not parse, or is gone, leaves the configuration as it is.
Unmarshal(w) ==
  /\ pc[w] = "unmarshal"
  /\ IF file \in {Absent, Broken}
       THEN Over(w)
       ELSE /\ local' = [local EXCEPT ![w] = Unmarshalled(file)]
            /\ Goto(w, "assign")
            /\ UNCHANGED alone
  /\ UNCHANGED <<edits, disk, running>>

Assign(w) ==
  /\ pc[w] = "assign"
  /\ running' = local[w]
  /\ Over(w)
  /\ UNCHANGED <<edits, disk>>

Handle(w) ==
  \/ SetAttribute(w) \/ Read(w)
  \/ AddConnection(w) \/ UpdateConnection(w) \/ CheckUse(w) \/ DeleteConnection(w)
  \/ AddSession(w) \/ UpdateSession(w) \/ DeleteSession(w)
  \/ CheckForward(w) \/ RefuseForward(w) \/ AddForward(w) \/ UpdateForward(w)
  \/ DeleteForward(w)
  \/ Open(w) \/ Marshal(w) \/ TestExists(w) \/ DeleteOld(w) \/ Rename(w)
  \/ TestIsFile(w) \/ WriteDefault(w) \/ Unmarshal(w) \/ Assign(w)

Next == \E w \in Workers : Handle(w) \/ \E h \in HttpSessions : Begin(w, h)

Spec == Init /\ [][Next]_vars

-----------------------------------------------------------------------------
\* A user who waits for answers never gets a configuration, edited, on disk or
\* running, with a forward whose connection or session is not in it: monitors
\* and deleteConnection dereference both without a test.  A document of the
\* bytes of two saves may hold such a forward.
Whole(cfg) ==
  \A f \in Forwards : HasForward(cfg, f) =>
    /\ HasConnection(cfg, cfg.forward[f].connection)
    /\ cfg.forward[f].of \in cfg.session

NoDanglingForward == \A cfg \in AllConfigs : cfg.mixed \/ Whole(cfg)

\* A password whose first encryption ends with "==", and that does not itself
\* end so, decrypts to what was typed through any sequence of updates, saves and
\* clones, unless the bytes of two saves mix.  For other passwords the code
\* does not keep this.
Recognized(p) == encrypt(Clear(p)).eqeq /\ ~EndsEqEq[p]

PasswordKept ==
  \A cfg \in AllConfigs, c \in Connections :
    /\ ~cfg.mixed /\ cfg.password[c] # Absent
    /\ Recognized(cfg.password[c].typed)
    => Decrypts(cfg.password[c])

\* Every connection the server runs with has the password for its login.  The
\* README says that a connection object holds it; the code does not keep this.
LoginPossible ==
  \A c \in Connections :
    HasConnection(running, c) => Decrypts(running.password[c])

\* A save during which there is no other one ends with the server running what
\* is in the file, whatever earlier saves, that overlapped, have made of the two
\* files and of the running configuration.  Saves that overlap may leave them
\* different, and may leave no file at all.
RunsWhatIsOnDisk ==
  \A w \in alone :
    pc'[w] = "idle" => file' \in Configs /\ running' = Unmarshalled(file')

RunsWhatIsOnDiskProp == [][RunsWhatIsOnDisk]_vars
==============================================================================
