----------------------------- MODULE ConfigStore -----------------------------
(***************************************************************************)
(* DrillServer.writeConfiguration and readConfiguration: the configuration *)
(* in memory, the files config.xml and config.xml.tmp, and the threads     *)
(* that write and read them without a lock.                                *)
(*                                                                         *)
(* A file name leads to an inode; a FileOutputStream keeps the inode it    *)
(* opened, whatever the name leads to later.  A configuration is written   *)
(* in two halves, the least that shows a torn file.                        *)
(***************************************************************************)
EXTENDS Naturals, FiniteSets

CONSTANTS
  Workers,   \* the threads that serve HTTP requests
  Versions,  \* the configurations users save, each of them once
  Default,   \* what readConfiguration makes up when config.xml is missing
  NoConfig,
  Inodes,    \* bounds the files that are linked or open at the same time
  NoInode,
  DiskFaults \* what the file system may do wrong, see DiskFaultKinds

Configs == Versions \cup {Default}

(***************************************************************************)
(* write   opening or writing config.xml.tmp throws                        *)
(* delete  File.delete() returns false                                     *)
(* rename  File.renameTo() returns false                                   *)
(* crash   the process dies                                                *)
(***************************************************************************)
DiskFaultKinds == {"write", "delete", "rename", "crash"}

ASSUME StoreAssumption ==
  /\ Default \notin Versions
  /\ NoConfig \notin Configs
  /\ NoInode \notin Inodes
  /\ DiskFaults \subseteq DiskFaultKinds

VARIABLES
  configXml,     \* the inode of config.xml, or NoInode
  tmpXml,        \* the inode of config.xml.tmp, or NoInode
  content,       \* what an inode holds
  configuration, \* DrillServer.configuration
  pc,            \* where a thread is
  ver,           \* the configuration it is writing
  out,           \* the inode its FileOutputStream writes to
  saved          \* the configurations that users have begun to save

fileVars  == <<configXml, tmpXml, content>>
storeVars == <<fileVars, configuration, pc, ver, out, saved>>

\* What is in a file: all of a configuration, its first half, or something
\* that does not parse.
Kinds    == {"empty", "half", "full", "torn"}
Contents == [kind : Kinds, of : Configs \cup {NoConfig}]
Empty    == [kind |-> "empty", of |-> NoConfig]
Torn     == [kind |-> "torn", of |-> NoConfig]
Full(c)  == [kind |-> "full", of |-> c]
Half(c)  == [kind |-> "half", of |-> c]

WritePcs == {"open", "head", "tail", "exists", "delete", "rename"}
ReadPcs  == {"isFile", "unmarshal"}

StoreTypeOK ==
  /\ configXml \in Inodes \cup {NoInode}
  /\ tmpXml \in Inodes \cup {NoInode}
  /\ content \in [Inodes -> Contents]
  /\ configuration \in Configs \cup {NoConfig}
  /\ ver \in [Workers -> Configs \cup {NoConfig}]
  /\ out \in [Workers -> Inodes \cup {NoInode}]
  /\ saved \subseteq Versions

\* A machine on which config.xml already holds the default configuration,
\* as it does after the first start.
StoreInit ==
  /\ \E i \in Inodes : /\ configXml = i
                       /\ content = [j \in Inodes |->
                                       IF j = i THEN Full(Default) ELSE Empty]
  /\ tmpXml = NoInode
  /\ configuration = NoConfig
  /\ ver = [w \in Workers |-> NoConfig]
  /\ out = [w \in Workers |-> NoInode]
  /\ saved = {}

Goto(w, l) == pc' = [pc EXCEPT ![w] = l]

-----------------------------------------------------------------------------
(***************************************************************************)
(* writeConfiguration(ver[w]).  It ends at "written", and so it does when  *)
(* anything in it throws: the exception is logged, never reported.         *)
(***************************************************************************)
InUse(i) == i \in {configXml, tmpXml} \/ \E w \in Workers : out[w] = i

\* new FileOutputStream(config.xml.tmp) truncates the file that is there.
OpenTmp(w) ==
  /\ pc[w] = "open"
  /\ \/ \E i \in Inodes :
          /\ IF tmpXml = NoInode THEN ~InUse(i) ELSE i = tmpXml
          /\ tmpXml' = i
          /\ content' = [content EXCEPT ![i] = Empty]
          /\ out' = [out EXCEPT ![w] = i]
          /\ Goto(w, "head")
     \/ /\ "write" \in DiskFaults
        /\ Goto(w, "written")
        /\ UNCHANGED <<tmpXml, content, out>>
  /\ UNCHANGED <<configXml, configuration, ver, saved>>

(***************************************************************************)
(* Two streams on one inode write over each other.  The first half of one  *)
(* configuration over what another stream wrote hides it or mixes with it. *)
(***************************************************************************)
MarshalHead(w) ==
  /\ pc[w] = "head"
  /\ \/ /\ \E c \in {Half(ver[w])}
                      \cup (IF content[out[w]] = Empty THEN {} ELSE {Torn}) :
             content' = [content EXCEPT ![out[w]] = c]
        /\ Goto(w, "tail")
        /\ UNCHANGED out
     \/ /\ "write" \in DiskFaults
        /\ Goto(w, "written")
        /\ out' = [out EXCEPT ![w] = NoInode]
        /\ UNCHANGED content
  /\ UNCHANGED <<configXml, tmpXml, configuration, ver, saved>>

\* A variant that goes on with the rename after a failed write.
MarshalTailIgnoresError(w) ==
  /\ pc[w] = "tail"
  /\ out' = [out EXCEPT ![w] = NoInode]
  /\ \/ content' = [content EXCEPT ![out[w]] =
                      IF @ = Half(ver[w]) THEN Full(ver[w]) ELSE Torn]
     \/ "write" \in DiskFaults /\ UNCHANGED content
  /\ Goto(w, "exists")
  /\ UNCHANGED <<configXml, tmpXml, configuration, ver, saved>>

MarshalTail(w) ==
  /\ pc[w] = "tail"
  /\ out' = [out EXCEPT ![w] = NoInode]
  /\ \/ /\ content' = [content EXCEPT ![out[w]] =
                         IF @ = Half(ver[w]) THEN Full(ver[w]) ELSE Torn]
        /\ Goto(w, "exists")
     \/ /\ "write" \in DiskFaults
        /\ Goto(w, "written")
        /\ UNCHANGED content
  /\ UNCHANGED <<configXml, tmpXml, configuration, ver, saved>>

\* if (!configFile.exists() || configFile.delete()) ...
TestExists(w) ==
  /\ pc[w] = "exists"
  /\ Goto(w, IF configXml = NoInode THEN "rename" ELSE "delete")
  /\ UNCHANGED <<fileVars, configuration, ver, out, saved>>

\* A variant that tests the result of delete() the wrong way round.
DeleteOldThenStops(w) ==
  /\ pc[w] = "delete"
  /\ \/ /\ configXml # NoInode
        /\ configXml' = NoInode
        /\ Goto(w, "written")
     \/ /\ configXml = NoInode \/ "delete" \in DiskFaults
        /\ Goto(w, "rename")
        /\ UNCHANGED configXml
  /\ UNCHANGED <<tmpXml, content, configuration, ver, out, saved>>

DeleteOld(w) ==
  /\ pc[w] = "delete"
  /\ \/ /\ configXml # NoInode
        /\ configXml' = NoInode
        /\ Goto(w, "rename")
     \/ /\ configXml = NoInode \/ "delete" \in DiskFaults
        /\ Goto(w, "written")
        /\ UNCHANGED configXml
  /\ UNCHANGED <<tmpXml, content, configuration, ver, out, saved>>

\* A variant that does not rename.
RenameForgotten(w) ==
  /\ pc[w] = "rename"
  /\ Goto(w, "written")
  /\ UNCHANGED <<fileVars, configuration, ver, out, saved>>

\* ... backFile.renameTo(configFile), whose result nobody looks at.
Rename(w) ==
  /\ pc[w] = "rename"
  /\ Goto(w, "written")
  /\ \/ /\ tmpXml # NoInode
        /\ configXml' = tmpXml
        /\ tmpXml' = NoInode
     \/ /\ tmpXml = NoInode \/ "rename" \in DiskFaults
        /\ UNCHANGED <<configXml, tmpXml>>
  /\ UNCHANGED <<content, configuration, ver, out, saved>>

-----------------------------------------------------------------------------
(***************************************************************************)
(* readConfiguration, which ends at "loaded".  A file that does not parse  *)
(* is logged, and the configuration in memory stays what it was.           *)
(***************************************************************************)
TestIsFile(w) ==
  /\ pc[w] = "isFile"
  /\ IF configXml # NoInode
       THEN Goto(w, "unmarshal") /\ UNCHANGED <<configuration, ver>>
       ELSE /\ configuration' = Default
            /\ ver' = [ver EXCEPT ![w] = Default]
            /\ Goto(w, "open")
  /\ UNCHANGED <<fileVars, out, saved>>

Unmarshal(w) ==
  /\ pc[w] = "unmarshal"
  /\ configuration' =
       IF configXml # NoInode /\ content[configXml].kind = "full"
         THEN content[configXml].of ELSE configuration
  /\ Goto(w, "loaded")
  /\ UNCHANGED <<fileVars, ver, out, saved>>

\* A write for a user is followed by a restart, which reads; the write of the
\* default configuration is the end of reading.
Written(w, next) ==
  /\ pc[w] = "written"
  /\ Goto(w, IF ver[w] = Default THEN "loaded" ELSE next)
  /\ UNCHANGED <<fileVars, configuration, ver, out, saved>>

StoreStep(w) ==
  \/ OpenTmp(w) \/ MarshalHead(w) \/ MarshalTail(w)
  \/ TestExists(w) \/ DeleteOld(w) \/ Rename(w)
  \/ TestIsFile(w) \/ Unmarshal(w)

\* ConfigHandler.save takes a configuration that its user has edited.
BeginSave(w, v) ==
  /\ pc[w] = "idle"
  /\ v \in Versions \ saved
  /\ saved' = saved \cup {v}
  /\ ver' = [ver EXCEPT ![w] = v]
  /\ Goto(w, "open")
  /\ UNCHANGED <<fileVars, configuration, out>>

-----------------------------------------------------------------------------
(***************************************************************************)
(* On its own the module is a server without SSH sessions: saves, the      *)
(* crash of the process, and the start that follows.                       *)
(***************************************************************************)
SaveTypeOK ==
  /\ StoreTypeOK
  /\ pc \in [Workers -> {"down", "idle", "written", "loaded"}
                          \cup WritePcs \cup ReadPcs]

SaveInit ==
  /\ StoreInit
  /\ pc = [w \in Workers |-> "down"]

Down == \A w \in Workers : pc[w] = "down"

\* A request ends; the start ends before the first request is served.
Idle(w) ==
  pc' = [u \in Workers |-> IF u = w \/ pc[u] = "down" THEN "idle" ELSE pc[u]]

Boot(w) ==
  /\ Down
  /\ Goto(w, "isFile")
  /\ UNCHANGED <<fileVars, configuration, ver, out, saved>>

Loaded(w) ==
  /\ pc[w] = "loaded"
  /\ Idle(w)
  /\ UNCHANGED <<fileVars, configuration, ver, out, saved>>

CrashProcess ==
  /\ "crash" \in DiskFaults
  /\ ~Down
  /\ pc' = [w \in Workers |-> "down"]
  /\ ver' = [w \in Workers |-> NoConfig]
  /\ out' = [w \in Workers |-> NoInode]
  /\ configuration' = NoConfig
  /\ UNCHANGED <<fileVars, saved>>

SaveNext ==
  \/ \E w \in Workers :
       \/ StoreStep(w)
       \/ Written(w, "isFile")
       \/ Loaded(w)
       \/ Boot(w)
       \/ \E v \in Versions : BeginSave(w, v)
  \/ CrashProcess

SaveSpec == SaveInit /\ [][SaveNext]_storeVars

-----------------------------------------------------------------------------
\* With one save at a time, config.xml is a complete configuration whenever
\* it exists: no failure and no crash, at whatever step, leaves half a file
\* under that name.
ConfigFileComplete ==
  configXml # NoInode => content[configXml].kind = "full"

\* Why: a single writer's stream is on config.xml.tmp, which is another file,
\* and reaches the rename only when all of the configuration is in it.
OneWriter == \A u, w \in Workers : u = w

WriterInv ==
  /\ configXml # NoInode => configXml # tmpXml
  /\ \A w \in Workers :
       /\ pc[w] \in {"head", "tail"} => out[w] = tmpXml /\ tmpXml # NoInode
       /\ pc[w] = "head" => content[tmpXml] = Empty
       /\ pc[w] = "tail" => content[tmpXml] = Half(ver[w])
       /\ pc[w] \in {"exists", "delete", "rename"}
            => tmpXml # NoInode /\ content[tmpXml] = Full(ver[w])

\* With one save at a time, and as long as neither the process dies nor the
\* rename fails, a complete configuration is on disk at every moment: while
\* config.xml is missing, config.xml.tmp is the new one.
DiskHoldsConfig ==
  \/ configXml # NoInode /\ content[configXml].kind = "full"
  \/ tmpXml # NoInode /\ content[tmpXml].kind = "full"

\* ... and the server never goes back from a configuration that a user saved
\* to the default one.
NeverBackToDefault == configuration \in Versions => configuration' # Default

NeverBackToDefaultProp == [][NeverBackToDefault]_storeVars

\* ConfigHandler.save answers "New configuration loaded and server restarted":
\* what has been loaded when it answers is what it saved.
SaveIsLoaded ==
  \A w \in Workers :
    (pc[w] = "loaded" /\ ver[w] \in Versions) => configuration = ver[w]
==============================================================================
