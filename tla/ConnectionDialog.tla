--------------------------- MODULE ConnectionDialog ---------------------------
(***************************************************************************)
(* The dialog that edits a connection (config.js, ConfigConnectionCtrl).   *)
(* What it edits has the proxy object of the row itself, which is taken    *)
(* out for the request when the connection is direct, and put back into    *)
(* whatever is edited when a refusal arrives.  The user may press the      *)
(* button again, or cancel and open another connection, while he waits.    *)
(***************************************************************************)
EXTENDS Naturals, FiniteSets

CONSTANTS
  Connections, Proxies,  \* the types but "DIRECT", which stands for no proxy
  MaxPresses,  \* bounds how often the button is pressed
  Nil,         \* null, and no proxy at the server
  Undefined    \* the id that updateConnection of configServices deletes

Objects == 1..(2 * Cardinality(Connections) + MaxPresses + 1)

VARIABLES
  patient,  \* whether the user waits for an answer before he goes on
  server,   \* the type of the proxy of each connection
  rows,     \* the proxy object of each row, Nil, or Undefined while the list is read
  heap,     \* the proxy objects: their type, and whose they are
  edit,     \* $scope.editConnection
  open,     \* whether the dialog is
  requests, \* the updates that are not answered
  presses   \* the updates that were sent

connectionVars == <<patient, server, rows, heap, edit, open, requests, presses>>

ConnectionTypeOK ==
  /\ server \in [Connections -> Proxies \cup {Nil}]
  /\ rows \in [Connections -> Objects \cup {Nil, Undefined}]
  /\ heap \in [Objects -> [type : Proxies \cup {"DIRECT"}, of : Connections] \cup {Nil}]
  /\ edit \in [of : Connections, id : Connections \cup {Undefined}, proxy : Objects \cup {Nil}]
  /\ requests \subseteq [n : 0..(MaxPresses - 1), id : Connections \cup {Undefined},
                         of : Connections, saved : Objects, sent : Proxies \cup {Nil}]
  /\ presses \in 0..MaxPresses /\ patient \in BOOLEAN /\ open \in BOOLEAN

\* An object that nobody has any more counts as none.
Used == ({rows[c] : c \in Connections} \cup {edit.proxy} \cup {r.saved : r \in requests})
          \ {Nil, Undefined}
Fresh == CHOOSE o \in Objects : o \notin Used
Collected(h) == [o \in Objects |-> IF o \in Used' THEN h[o] ELSE Nil]

ConnectionInit ==
  /\ patient \in BOOLEAN
  /\ server \in [Connections -> Proxies \cup {Nil}]
  /\ rows = [c \in Connections |-> Undefined]
  /\ heap = [o \in Objects |-> Nil]
  /\ edit \in [of : Connections, id : {Undefined}, proxy : {Nil}]
  /\ open = FALSE /\ requests = {} /\ presses = 0

-----------------------------------------------------------------------------
\* The answer to refreshConfig: objects of its own for the rows.
Read ==
  /\ \A c \in Connections : rows[c] = Undefined
  /\ LET f == CHOOSE f \in [Connections -> Objects \ Used] :
                 \A c, d \in Connections : f[c] = f[d] => c = d IN
       /\ rows' = [c \in Connections |-> IF server[c] = Nil THEN Nil ELSE f[c]]
       /\ UNCHANGED <<patient, server, edit, open, requests, presses>>
       /\ heap' = Collected([o \in Objects |->
            IF \E c \in Connections : f[c] = o
              THEN LET c == CHOOSE c \in Connections : f[c] = o IN [type |-> server[c], of |-> c]
              ELSE heap[o]])

\* showEditConnection; the list cannot be clicked while the dialog is open.
ShowEdit(c) ==
  /\ ~open /\ rows[c] # Undefined
  /\ edit' = [of |-> c, id |-> c, proxy |-> IF rows[c] = Nil THEN Fresh ELSE rows[c]]
  /\ open' = TRUE
  /\ UNCHANGED <<patient, server, rows, requests, presses>>
  /\ heap' = Collected(IF rows[c] = Nil
                         THEN [heap EXCEPT ![Fresh] = [type |-> "DIRECT", of |-> c]] ELSE heap)

\* The choice of the proxy, which is that of the row as well.
Choose(t) ==
  LET o == IF edit.proxy = Nil THEN Fresh ELSE edit.proxy IN
  /\ open
  /\ edit' = [edit EXCEPT !.proxy = o]
  /\ UNCHANGED <<patient, server, rows, open, requests, presses>>
  /\ heap' = Collected([heap EXCEPT ![o] =
       [type |-> t, of |-> IF edit.proxy = Nil THEN edit.of ELSE heap[o].of]])

\* updateConnection, here and in configServices; without a proxy the form is invalid.
Update ==
  LET direct == heap[edit.proxy].type = "DIRECT" IN
  /\ open /\ edit.proxy # Nil /\ presses < MaxPresses
  /\ patient => requests = {}
  /\ presses' = presses + 1
  /\ requests' = requests \cup
       {[n |-> presses, id |-> edit.id, of |-> heap[edit.proxy].of, saved |-> edit.proxy,
         sent |-> IF direct THEN Nil ELSE heap[edit.proxy].type]}
  /\ edit' = [edit EXCEPT !.id = Undefined, !.proxy = IF direct THEN Nil ELSE @]
  /\ UNCHANGED <<patient, server, rows, open>>
  /\ heap' = Collected(heap)

Cancel ==
  /\ open /\ (patient => requests = {})
  /\ open' = FALSE
  /\ UNCHANGED <<patient, server, rows, heap, edit, requests, presses>>

\* The server answers OK even when it does not know the id.
Served(r) ==
  IF r.id = Undefined THEN server ELSE [server EXCEPT ![r.id] = r.sent]

\* An OK closes the dialog that is open then, and reads the list again.
Accepted(r) ==
  /\ requests' = requests \ {r}
  /\ server' = Served(r)
  /\ rows' = [c \in Connections |-> Undefined]
  /\ open' = FALSE
  /\ UNCHANGED <<patient, edit, presses>>
  /\ heap' = Collected(heap)

\* A variant that does not put the proxy back.
RefusedKeepsNil(r) ==
  /\ requests' = requests \ {r}
  /\ server' \in {server, Served(r)}
  /\ UNCHANGED <<patient, rows, edit, open, presses>>
  /\ heap' = Collected(heap)

\* A refusal, or an answer that was lost: the server may have done it.
Refused(r) ==
  /\ requests' = requests \ {r}
  /\ server' \in {server, Served(r)}
  /\ edit' = [edit EXCEPT !.proxy = r.saved]
  /\ UNCHANGED <<patient, rows, open, presses>>
  /\ heap' = Collected(heap)

ConnectionNext ==
  \/ Read \/ Update \/ Cancel
  \/ \E c \in Connections : ShowEdit(c)
  \/ \E t \in Proxies \cup {"DIRECT"} : Choose(t)
  \/ \E r \in requests : Accepted(r) \/ Refused(r)

-----------------------------------------------------------------------------
(* Properties *)

\* An open dialog without a proxy, whose button does nothing, waits for an answer
\* that puts the proxy back or closes it.  As long as the user waits for each
\* answer, the dialog has the proxy of its own connection, and what is sent is the
\* proxy of the connection that it is sent for, or goes to no connection at all
\* (the second attempt after a refusal, whose id is gone).
DialogIsOwn ==
  /\ open /\ edit.proxy = Nil => \E r \in requests : r.sent = Nil
  /\ patient =>
       /\ edit.proxy # Nil => heap[edit.proxy].of = edit.of
       /\ \A r \in requests : r.id \in {r.of, Undefined}
=============================================================================
