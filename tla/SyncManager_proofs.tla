------------------------- MODULE SyncManager_proofs -------------------------
(***************************************************************************)
(* Theorems about SyncManager, for any clients, tasks, entries, intervals, *)
(* bounds and scenarios: with crashes, failing requests and changes made   *)
(* while an answer is under way.                                           *)
(***************************************************************************)
EXTENDS SyncManager, TLAPS

-----------------------------------------------------------------------------
(* The inductive invariant *)

\* What a table holds under an id has this id.
Table(Id, Rows) ==
  {table \in [Id -> Rows \cup {NoRow}] :
     \A i \in Id : table[i] # NoRow => table[i].id = i}
TaskTable == Table(TaskId, TaskRow)
EntryTable == Table(EntryId, EntryRow)

Request ==
  [status : {"sent", "answered", "failed"}, since : Nat, rows : SUBSET Row]

Shape ==
  /\ now \in Nat \ {0}
  /\ state \in [Client -> SyncState]
  /\ nextSync \in [Client -> Nat] /\ nextFullSync \in [Client -> Nat]
  /\ lastSync \in [Client -> Nat] /\ currentSync \in [Client -> Nat]
  /\ request \in [Client -> Request \cup {NoRequest}]
  /\ inbox \in [Client -> SUBSET Row] /\ deferred \in [Client -> SUBSET TaskRow]
  /\ tasks \in [Client -> TaskTable] /\ times \in [Client -> EntryTable]
  /\ serverTasks \in TaskTable /\ serverTimes \in EntryTable

\* No id occurs twice: what lets the server choose the version of an id.
OneVersion(rows) == \A r, s \in rows : r.id = s.id => r = s

\* The table has this version of the row or a newer one.
Covers(table, row) ==
  table[row.id] # NoRow /\ table[row.id].changed >= row.changed

\* What a client holds between its steps.
Phase(c) ==
  /\ state[c] \in {"task_wait", "time_wait"} <=> request[c] # NoRequest
  /\ state[c] \notin {"task_store", "time_store"} => inbox[c] = {}
  /\ state[c] # "task_store" => deferred[c] = {}
  /\ state[c] = "task_wait" => request[c].rows \subseteq TaskRow
  /\ state[c] = "time_wait" => request[c].rows \subseteq EntryRow
  /\ request[c] # NoRequest => OneVersion(request[c].rows)
  /\ state[c] = "task_store" => inbox[c] \subseteq TaskRow
  /\ state[c] = "time_store" => inbox[c] \subseteq EntryRow

\* From the first request on, the stamp of the run is in the past.
Running ==
  {"task_wait", "task_store", "time_request", "time_wait", "time_store"}
Stamps(c) ==
  /\ lastSync[c] < now /\ currentSync[c] <= now
  /\ state[c] \in Running => currentSync[c] < now

\* What is in an answer, or still to store, came from the server.
FromServer(c) ==
  /\ request[c].status = "answered" =>
       \A row \in request[c].rows :
         Covers(IF state[c] = "task_wait" THEN serverTasks ELSE serverTimes, row)
  /\ \A row \in inbox[c] :
       Covers(IF state[c] = "task_store" THEN serverTasks ELSE serverTimes, row)
  /\ \A row \in deferred[c] : Covers(serverTasks, row)

\* NothingForgotten, also of a program that is down, whose stamp is 0.
KeptSince(c) ==
  /\ \A t \in TaskId : tasks[c][t] # NoRow =>
       tasks[c][t].changed > lastSync[c] \/ Covers(serverTasks, tasks[c][t])
  /\ \A e \in EntryId : times[c][e] # NoRow =>
       times[c][e].changed >= lastSync[c] \/ Covers(serverTimes, times[c][e])

\* The same of the stamp that takes over when the run is complete: what was
\* changed before the run is on its way or has arrived.
Sent(c, row) == request[c].status = "sent" /\ row \in request[c].rows
KeptByRun(c) ==
  request[c].status # "failed" =>
    /\ state[c] \in Running =>
         \A t \in TaskId : tasks[c][t] # NoRow =>
           \/ tasks[c][t].changed > currentSync[c]
           \/ Covers(serverTasks, tasks[c][t])
           \/ state[c] = "task_wait" /\ Sent(c, tasks[c][t])
    /\ state[c] \in {"time_wait", "time_store"} =>
         \A e \in EntryId : times[c][e] # NoRow =>
           \/ times[c][e].changed >= currentSync[c]
           \/ Covers(serverTimes, times[c][e])
           \/ state[c] = "time_wait" /\ Sent(c, times[c][e])

ClientInv(c) ==
  Phase(c) /\ Stamps(c) /\ FromServer(c) /\ KeptSince(c) /\ KeptByRun(c)

SyncInv == Shape /\ \A c \in Client : ClientInv(c)

-----------------------------------------------------------------------------
(* Rows and tables *)

\* What the operators of the tables rely on, of tasks and entries alike.
RowsFor(Id, Rows) ==
  NoRow \notin Rows /\ \A row \in Rows : row.id \in Id /\ row.changed \in Nat

LEMMA RowKinds == RowsFor(TaskId, TaskRow) /\ RowsFor(EntryId, EntryRow)
  BY DEF RowsFor, NoRow, TaskRow, EntryRow

LEMMA TableRows ==
  ASSUME NEW Id, NEW Rows, NEW table \in Table(Id, Rows), NEW i \in Id
  PROVE  table[i] = NoRow \/ (table[i] \in Rows /\ table[i].id = i)
  BY DEF Table

\* The rows of a table are rows, one for an id.
LEMMA RowsOfTable ==
  ASSUME NEW Id, NEW Rows, RowsFor(Id, Rows), NEW table \in Table(Id, Rows)
  PROVE  /\ RowsOf(table) \subseteq Rows
         /\ OneVersion(RowsOf(table))
         /\ \A row \in RowsOf(table) : table[row.id] = row
         /\ \A i \in Id : table[i] # NoRow => table[i] \in RowsOf(table)
<1>1. DOMAIN table = Id
  BY DEF Table
<1>2. \A row \in RowsOf(table) : row \in Rows /\ row.id \in Id /\ table[row.id] = row
  BY <1>1, TableRows DEF RowsOf
<1>3. QED
  BY <1>1, <1>2 DEF RowsOf, OneVersion

\* A row under its own id keeps a table a table.
LEMMA PutRow ==
  ASSUME NEW Id, NEW Rows, RowsFor(Id, Rows), NEW table \in Table(Id, Rows),
         NEW row \in Rows
  PROVE  /\ [table EXCEPT ![row.id] = row] \in Table(Id, Rows)
         /\ [table EXCEPT ![row.id] = row][row.id] = row
         /\ \A i \in Id : i # row.id => [table EXCEPT ![row.id] = row][i] = table[i]
  BY DEF Table, RowsFor

\* update() puts the row in its place or leaves the table as it is.
LEMMA UpdatedTable ==
  ASSUME NEW Id, NEW Rows, RowsFor(Id, Rows), NEW table \in Table(Id, Rows),
         NEW row \in Rows
  PROVE  /\ Updated(table, row) \in Table(Id, Rows)
         /\ \A i \in Id :
              Updated(table, row)[i] = table[i]
              \/ (i = row.id /\ Updated(table, row)[i] = row)
         /\ Accepts(table, row) => Updated(table, row)[row.id] = row
  BY PutRow DEF Updated

(***************************************************************************)
(* Merging at the server.  With one version of each id in the request, the *)
(* row chosen is the newer one that was found.                             *)
(***************************************************************************)
LEMMA MergedRow ==
  ASSUME NEW table, NEW rows, OneVersion(rows), NEW i \in DOMAIN table
  PROVE  \/ /\ Merged(table, rows)[i] = table[i]
            /\ \A r \in rows : r.id = i =>
                 table[i] # NoRow /\ ~ (r.changed > table[i].changed)
         \/ /\ Merged(table, rows)[i] \in rows
            /\ Merged(table, rows)[i].id = i
            /\ \A r \in rows : r.id = i => r = Merged(table, rows)[i]
            /\ table[i] = NoRow \/ Merged(table, rows)[i].changed > table[i].changed
<1> DEFINE Newer(r) == r.id = i /\ (table[i] = NoRow \/ r.changed > table[i].changed)
<1>1. CASE \E r \in rows : Newer(r)
  <2>1. PICK r \in rows : Newer(r)
    BY <1>1
  <2>2. \A s \in rows : s.id = i => s = r
    BY <2>1 DEF OneVersion
  <2>3. (CHOOSE s \in rows : s.id = i) = r
    BY <2>1, <2>2
  <2>4. Merged(table, rows)[i] = r
    BY <1>1, <2>3 DEF Merged
  <2>5. QED
    BY <2>1, <2>2, <2>4
<1>2. CASE ~ \E r \in rows : Newer(r)
  BY <1>2 DEF Merged
<1>3. QED
  BY <1>1, <1>2

\* The server covers what it has received, and all it covered before.
LEMMA MergedTable ==
  ASSUME NEW Id, NEW Rows, RowsFor(Id, Rows), NEW table \in Table(Id, Rows),
         NEW rows \in SUBSET Rows, OneVersion(rows)
  PROVE  /\ Merged(table, rows) \in Table(Id, Rows)
         /\ \A row \in rows : Covers(Merged(table, rows), row)
         /\ \A row \in Rows : Covers(table, row) => Covers(Merged(table, rows), row)
<1> DEFINE new == Merged(table, rows)
<1>1. DOMAIN table = Id /\ DOMAIN new = Id /\ new = [i \in Id |-> new[i]]
  BY DEF Table, Merged
<1>2. \A i \in Id : table[i] = NoRow \/ (table[i] \in Rows /\ table[i].id = i)
  BY TableRows
<1>3. \A row \in Rows : row.id \in Id /\ row.changed \in Nat /\ row # NoRow
  BY DEF RowsFor
<1>4. \A i \in Id :
        \/ /\ new[i] = table[i]
           /\ \A r \in rows : r.id = i =>
                table[i] # NoRow /\ ~ (r.changed > table[i].changed)
        \/ /\ new[i] \in rows /\ new[i].id = i
           /\ \A r \in rows : r.id = i => r = new[i]
           /\ table[i] = NoRow \/ new[i].changed > table[i].changed
  BY <1>1, MergedRow
<1> HIDE DEF new
<1>5. \A i \in Id : new[i] = NoRow \/ (new[i] \in Rows /\ new[i].id = i)
  BY <1>2, <1>4
<1>6. new \in Table(Id, Rows)
  BY <1>1, <1>5 DEF Table
<1>7. \A row \in rows : Covers(new, row)
  BY <1>2, <1>3, <1>4 DEF Covers
<1>8. \A row \in Rows : Covers(table, row) => Covers(new, row)
  BY <1>2, <1>3, <1>4 DEF Covers
<1>9. QED
  BY <1>6, <1>7, <1>8 DEF new

-----------------------------------------------------------------------------
(* Steps *)

\* What the invariant says of a client, and what the server never loses.
Mine(c) ==
  <<state[c], lastSync[c], currentSync[c], request[c], inbox[c], deferred[c],
    tasks[c], times[c]>>
ServerKeeps ==
  /\ \A row \in TaskRow : Covers(serverTasks, row) => Covers(serverTasks', row)
  /\ \A row \in EntryRow : Covers(serverTimes, row) => Covers(serverTimes', row)

\* The kinds of rows in the places of a client.
LEMMA RowsInPlace ==
  ASSUME Shape, NEW c \in Client
  PROVE  /\ tasks[c] \in TaskTable /\ times[c] \in EntryTable
         /\ \A t \in TaskId : tasks[c][t] # NoRow =>
              tasks[c][t] \in TaskRow /\ tasks[c][t].id = t /\ tasks[c][t].changed \in Nat
         /\ \A e \in EntryId : times[c][e] # NoRow =>
              times[c][e] \in EntryRow /\ times[c][e].id = e /\ times[c][e].changed \in Nat
<1>1. tasks[c] \in TaskTable /\ times[c] \in EntryTable
  BY DEF Shape
<1>2. QED
  BY <1>1, TableRows, RowKinds DEF TaskTable, EntryTable, RowsFor

\* The invariant of a client survives the steps of everybody else.
LEMMA OthersKeep ==
  ASSUME Shape, NEW c \in Client, ClientInv(c),
         UNCHANGED Mine(c), now' \in Nat, now' >= now, ServerKeeps
  PROVE  ClientInv(c)'
<1>1. /\ state'[c] = state[c] /\ lastSync'[c] = lastSync[c]
      /\ currentSync'[c] = currentSync[c] /\ request'[c] = request[c]
      /\ inbox'[c] = inbox[c] /\ deferred'[c] = deferred[c]
      /\ tasks'[c] = tasks[c] /\ times'[c] = times[c]
  BY DEF Mine
<1>2. Phase(c)'
  BY <1>1 DEF ClientInv, Phase
<1>3. Stamps(c)'
  <2>1. lastSync[c] \in Nat /\ currentSync[c] \in Nat /\ now \in Nat
    BY DEF Shape
  <2>2. QED
    BY <1>1, <2>1 DEF ClientInv, Stamps
<1>4. FromServer(c)'
  <2>1. request[c].status = "answered" =>
          \A row \in request'[c].rows :
            Covers(IF state'[c] = "task_wait" THEN serverTasks' ELSE serverTimes', row)
    <3>1. request[c].status = "answered" => request[c] # NoRequest
      BY DEF NoRequest
    <3>2. QED
      BY <1>1, <3>1 DEF ClientInv, FromServer, Phase, ServerKeeps
  <2>2. \A row \in inbox'[c] :
          Covers(IF state'[c] = "task_store" THEN serverTasks' ELSE serverTimes', row)
    BY <1>1 DEF ClientInv, FromServer, Phase, ServerKeeps
  <2>3. \A row \in deferred'[c] : Covers(serverTasks', row)
    BY <1>1 DEF ClientInv, FromServer, Shape, ServerKeeps
  <2>4. QED
    BY <1>1, <2>1, <2>2, <2>3 DEF FromServer
<1>5. KeptSince(c)'
  BY <1>1, RowsInPlace DEF ClientInv, KeptSince, ServerKeeps
<1>6. KeptByRun(c)'
  BY <1>1, RowsInPlace DEF ClientInv, KeptByRun, Sent, ServerKeeps
<1>7. QED
  BY <1>2, <1>3, <1>4, <1>5, <1>6 DEF ClientInv

\* So a step of one client has only this client to answer for.
LEMMA StepOfOne ==
  ASSUME SyncInv, NEW c \in Client, Shape', ClientInv(c)', ServerKeeps, now' = now,
         \A d \in Client : d # c => UNCHANGED Mine(d)
  PROVE  SyncInv'
<1>1. \A d \in Client : d # c => ClientInv(d)'
  <2>1. now' \in Nat /\ now' >= now
    BY DEF SyncInv, Shape
  <2>2. QED
    BY <2>1, OthersKeep DEF SyncInv
<1>2. QED
  BY <1>1 DEF SyncInv

LEMMA ServerUntouched == ASSUME UNCHANGED serverVars PROVE ServerKeeps
  BY DEF serverVars, ServerKeeps

-----------------------------------------------------------------------------
(* The machine of a run *)

LEMMA BeginRunKeeps ==
  ASSUME SyncInv, NEW c \in Client, BeginRun(c) PROVE SyncInv'
<1> USE DEF BeginRun, Goto, tableVars, serverVars
<1>1. Shape'
  BY SyncAssumption DEF SyncInv, Shape, SyncState
<1>2. \A d \in Client : d # c => UNCHANGED Mine(d)
  BY DEF Mine, SyncInv, Shape
<1>3. ClientInv(c)'
  <2>1. Shape /\ ClientInv(c)
    BY DEF SyncInv
  <2>2. /\ state[c] = "idle" /\ state'[c] \in {"idle", "task_request"}
        /\ lastSync'[c] \in {0, lastSync[c]}
        /\ currentSync'[c] \in {now, currentSync[c]}
        /\ request'[c] = request[c] /\ inbox'[c] = inbox[c] /\ deferred'[c] = deferred[c]
        /\ tasks'[c] = tasks[c] /\ times'[c] = times[c] /\ now' = now
        /\ serverTasks' = serverTasks /\ serverTimes' = serverTimes
    BY DEF SyncInv, Shape
  <2>3. Phase(c)'
    BY <2>1, <2>2 DEF ClientInv, Phase
  <2>4. Stamps(c)'
    BY <2>1, <2>2 DEF ClientInv, Stamps, Shape, Running
  <2>5. FromServer(c)'
    BY <2>1, <2>2 DEF ClientInv, FromServer, Phase, NoRequest
  <2>6. KeptSince(c)'
    <3>1. lastSync[c] \in Nat
      BY <2>1 DEF Shape
    <3>2. QED
      BY <2>1, <2>2, <3>1, RowsInPlace DEF ClientInv, KeptSince
  <2>7. KeptByRun(c)'
    BY <2>2 DEF KeptByRun, Running
  <2>8. QED
    BY <2>3, <2>4, <2>5, <2>6, <2>7 DEF ClientInv
<1>4. QED
  BY <1>1, <1>2, <1>3, StepOfOne, ServerUntouched

\* A request that is complete up to the last run leaves nothing out.
LEMMA RequestTasksKeeps ==
  ASSUME SyncInv, NEW c \in Client, RequestTasks(c) PROVE SyncInv'
<1> USE DEF RequestTasks, Send, Goto, stampVars, tableVars, serverVars
<1> DEFINE rows == {row \in RowsOf(tasks[c]) : row.changed > lastSync[c]}
<1>1. Shape /\ ClientInv(c) /\ lastSync[c] \in Nat /\ currentSync[c] \in Nat
  BY DEF SyncInv, Shape
<1>2. /\ rows \subseteq TaskRow /\ OneVersion(rows)
      /\ \A t \in TaskId : tasks[c][t] # NoRow =>
           tasks[c][t] \in rows \/ ~ (tasks[c][t].changed > lastSync[c])
  BY <1>1, RowsInPlace, RowsOfTable, RowKinds DEF TaskTable, OneVersion
<1>3. /\ request' = [request EXCEPT ![c] =
                       [status |-> "sent", since |-> lastSync[c], rows |-> rows]]
      /\ state' = [state EXCEPT ![c] = "task_wait"]
  OBVIOUS
<1> HIDE DEF rows
<1>4. Shape'
  <2>1. [status |-> "sent", since |-> lastSync[c], rows |-> rows] \in Request
    BY <1>1, <1>2 DEF Request, Row
  <2>2. request' \in [Client -> Request \cup {NoRequest}]
    BY <1>1, <1>3, <2>1 DEF Shape
  <2>3. state' \in [Client -> SyncState]
    BY <1>1, <1>3 DEF Shape, SyncState
  <2>4. QED
    BY <1>1, <2>2, <2>3 DEF Shape
<1>5. \A d \in Client : d # c => UNCHANGED Mine(d)
  BY <1>1, <1>3 DEF Mine, Shape
<1>6. ClientInv(c)'
  <2>1. /\ state[c] = "task_request" /\ state'[c] = "task_wait"
        /\ request'[c].status = "sent" /\ request'[c].rows = rows
        /\ request'[c] # NoRequest /\ now > currentSync[c]
    BY <1>1, <1>3 DEF Shape, NoRequest
  <2>2. Phase(c)'
    BY <1>1, <1>2, <2>1 DEF ClientInv, Phase
  <2>3. Stamps(c)'
    BY <1>1, <2>1 DEF ClientInv, Stamps
  <2>4. FromServer(c)'
    BY <1>1, <2>1 DEF ClientInv, FromServer, Phase
  <2>5. KeptSince(c)'
    BY <1>1 DEF ClientInv, KeptSince
  <2>6. KeptByRun(c)'
    BY <1>1, <1>2, <2>1, RowsInPlace DEF ClientInv, KeptByRun, KeptSince, Sent
  <2>7. QED
    BY <2>2, <2>3, <2>4, <2>5, <2>6 DEF ClientInv
<1>7. QED
  BY <1>4, <1>5, <1>6, StepOfOne, ServerUntouched

LEMMA RequestTimesKeeps ==
  ASSUME SyncInv, NEW c \in Client, RequestTimes(c) PROVE SyncInv'
<1> USE DEF RequestTimes, Send, Goto, stampVars, tableVars, serverVars
<1> DEFINE rows == {row \in RowsOf(times[c]) : row.changed >= lastSync[c]}
<1>1. Shape /\ ClientInv(c) /\ lastSync[c] \in Nat /\ currentSync[c] \in Nat
  BY DEF SyncInv, Shape
<1>2. /\ rows \subseteq EntryRow /\ OneVersion(rows)
      /\ \A e \in EntryId : times[c][e] # NoRow =>
           times[c][e] \in rows \/ ~ (times[c][e].changed >= lastSync[c])
  BY <1>1, RowsInPlace, RowsOfTable, RowKinds DEF EntryTable, OneVersion
<1>3. /\ request' = [request EXCEPT ![c] =
                       [status |-> "sent", since |-> lastSync[c], rows |-> rows]]
      /\ state' = [state EXCEPT ![c] = "time_wait"]
  OBVIOUS
<1> HIDE DEF rows
<1>4. Shape'
  <2>1. [status |-> "sent", since |-> lastSync[c], rows |-> rows] \in Request
    BY <1>1, <1>2 DEF Request, Row
  <2>2. request' \in [Client -> Request \cup {NoRequest}]
    BY <1>1, <1>3, <2>1 DEF Shape
  <2>3. state' \in [Client -> SyncState]
    BY <1>1, <1>3 DEF Shape, SyncState
  <2>4. QED
    BY <1>1, <2>2, <2>3 DEF Shape
<1>5. \A d \in Client : d # c => UNCHANGED Mine(d)
  BY <1>1, <1>3 DEF Mine, Shape
<1>6. ClientInv(c)'
  <2>1. /\ state[c] = "time_request" /\ state'[c] = "time_wait"
        /\ request[c] = NoRequest
        /\ request'[c].status = "sent" /\ request'[c].rows = rows
        /\ request'[c] # NoRequest
    BY <1>1, <1>3 DEF Shape, NoRequest, ClientInv, Phase
  <2>2. Phase(c)'
    BY <1>1, <1>2, <2>1 DEF ClientInv, Phase
  <2>3. Stamps(c)'
    BY <1>1, <2>1 DEF ClientInv, Stamps, Running
  <2>4. FromServer(c)'
    BY <1>1, <2>1 DEF ClientInv, FromServer, Phase
  <2>5. KeptSince(c)'
    BY <1>1 DEF ClientInv, KeptSince
  <2>6. KeptByRun(c)'
    BY <1>1, <1>2, <2>1, RowsInPlace
    DEF ClientInv, KeptByRun, KeptSince, Sent, Running, NoRequest
  <2>7. QED
    BY <2>2, <2>3, <2>4, <2>5, <2>6 DEF ClientInv
<1>7. QED
  BY <1>4, <1>5, <1>6, StepOfOne, ServerUntouched

LEMMA ReceiveKeeps ==
  ASSUME SyncInv, NEW c \in Client, Receive(c) PROVE SyncInv'
<1> USE DEF Receive, Goto, stampVars, tableVars, serverVars
<1>1. Shape /\ ClientInv(c)
  BY DEF SyncInv
<1>2. request[c] # NoRequest /\ request[c] \in Request
  BY <1>1 DEF Shape, ClientInv, Phase
<1>3. Shape'
  BY <1>1, <1>2 DEF Shape, SyncState, Request
<1>4. \A d \in Client : d # c => UNCHANGED Mine(d)
  BY <1>1 DEF Mine, Shape
<1>5. ClientInv(c)'
  <2>1. /\ request'[c] = NoRequest /\ request'[c].status = "none"
        /\ \/ /\ request[c].status = "answered" /\ inbox'[c] = request[c].rows
              /\ \/ state[c] = "task_wait" /\ state'[c] = "task_store"
                 \/ state[c] = "time_wait" /\ state'[c] = "time_store"
           \/ /\ request[c].status = "failed" /\ inbox'[c] = inbox[c]
              /\ state'[c] = "fail" /\ state[c] \in {"task_wait", "time_wait"}
    BY <1>1 DEF Shape, NoRequest
  <2>2. Phase(c)'
    BY <1>1, <2>1 DEF ClientInv, Phase
  <2>3. Stamps(c)'
    BY <1>1, <2>1 DEF ClientInv, Stamps, Running
  <2>4. FromServer(c)'
    BY <1>1, <2>1 DEF ClientInv, FromServer, Phase
  <2>5. KeptSince(c)'
    BY <1>1 DEF ClientInv, KeptSince
  <2>6. KeptByRun(c)'
    BY <1>1, <2>1 DEF ClientInv, KeptByRun, Sent, Running
  <2>7. QED
    BY <2>2, <2>3, <2>4, <2>5, <2>6 DEF ClientInv
<1>6. QED
  BY <1>3, <1>4, <1>5, StepOfOne, ServerUntouched

LEMMA TasksStoredKeeps ==
  ASSUME SyncInv, NEW c \in Client, TasksStored(c) PROVE SyncInv'
<1> USE DEF TasksStored, Goto, stampVars, tableVars, serverVars
<1>1. Shape /\ ClientInv(c)
  BY DEF SyncInv
<1>2. Shape'
  BY <1>1 DEF Shape, SyncState
<1>3. \A d \in Client : d # c => UNCHANGED Mine(d)
  BY <1>1 DEF Mine, Shape
<1>4. ClientInv(c)'
  <2>1. /\ state[c] = "task_store" /\ state'[c] = "time_request"
        /\ request[c].status = "none"
    BY <1>1 DEF Shape, ClientInv, Phase, NoRequest
  <2>2. Phase(c)'
    BY <1>1, <2>1 DEF ClientInv, Phase
  <2>3. Stamps(c)'
    BY <1>1, <2>1 DEF ClientInv, Stamps, Running
  <2>4. FromServer(c)'
    BY <1>1, <2>1 DEF ClientInv, FromServer
  <2>5. KeptSince(c)'
    BY <1>1 DEF ClientInv, KeptSince
  <2>6. KeptByRun(c)'
    BY <1>1, <2>1 DEF ClientInv, KeptByRun, Running
  <2>7. QED
    BY <2>2, <2>3, <2>4, <2>5, <2>6 DEF ClientInv
<1>5. QED
  BY <1>2, <1>3, <1>4, StepOfOne, ServerUntouched

\* The stamp of the run takes over: what KeptByRun is for.
LEMMA RunDoneKeeps ==
  ASSUME SyncInv, NEW c \in Client, RunDone(c) PROVE SyncInv'
<1> USE DEF RunDone, Goto, tableVars, serverVars
<1>1. Shape /\ ClientInv(c)
  BY DEF SyncInv
<1>2. Shape'
  BY <1>1, SyncAssumption DEF Shape, SyncState
<1>3. \A d \in Client : d # c => UNCHANGED Mine(d)
  BY <1>1 DEF Mine, Shape
<1>4. ClientInv(c)'
  <2>1. /\ state[c] = "time_store" /\ state'[c] = "idle" /\ inbox[c] = {}
        /\ lastSync'[c] = currentSync[c] /\ request[c].status = "none"
    BY <1>1 DEF Shape, ClientInv, Phase, NoRequest
  <2>2. Phase(c)'
    BY <1>1, <2>1 DEF ClientInv, Phase
  <2>3. Stamps(c)'
    BY <1>1, <2>1 DEF ClientInv, Stamps, Running
  <2>4. FromServer(c)'
    BY <1>1, <2>1 DEF ClientInv, FromServer
  <2>5. KeptSince(c)'
    BY <1>1, <2>1 DEF ClientInv, KeptSince, KeptByRun, Running
  <2>6. KeptByRun(c)'
    BY <2>1 DEF KeptByRun, Running
  <2>7. QED
    BY <2>2, <2>3, <2>4, <2>5, <2>6 DEF ClientInv
<1>5. QED
  BY <1>2, <1>3, <1>4, StepOfOne, ServerUntouched

LEMMA FailedKeeps ==
  ASSUME SyncInv, NEW c \in Client, Failed(c) PROVE SyncInv'
<1> USE DEF Failed, Goto, tableVars, serverVars
<1>1. Shape /\ ClientInv(c)
  BY DEF SyncInv
<1>2. Shape'
  BY <1>1, SyncAssumption DEF Shape, SyncState
<1>3. \A d \in Client : d # c => UNCHANGED Mine(d)
  BY <1>1 DEF Mine, Shape
<1>4. ClientInv(c)'
  <2>1. state[c] = "fail" /\ state'[c] = "idle" /\ inbox[c] = {} /\ deferred[c] = {}
    BY <1>1 DEF Shape, ClientInv, Phase
  <2>2. Phase(c)'
    BY <1>1, <2>1 DEF ClientInv, Phase
  <2>3. Stamps(c)'
    BY <1>1, <2>1 DEF ClientInv, Stamps, Running
  <2>4. FromServer(c)'
    BY <1>1, <2>1 DEF ClientInv, FromServer, Phase, NoRequest
  <2>5. KeptSince(c)'
    BY <1>1 DEF ClientInv, KeptSince
  <2>6. KeptByRun(c)'
    BY <2>1 DEF KeptByRun, Running
  <2>7. QED
    BY <2>2, <2>3, <2>4, <2>5, <2>6 DEF ClientInv
<1>5. QED
  BY <1>2, <1>3, <1>4, StepOfOne, ServerUntouched

\* With the stamps everything is due again.
LEMMA DiesKeeps ==
  ASSUME SyncInv, NEW c \in Client, Dies(c) PROVE SyncInv'
<1> USE DEF Dies, StampsGone, Goto, tableVars, serverVars
<1>1. Shape /\ ClientInv(c)
  BY DEF SyncInv
<1>2. Shape'
  BY <1>1 DEF Shape, SyncState
<1>3. \A d \in Client : d # c => UNCHANGED Mine(d)
  BY <1>1 DEF Mine, Shape
<1>4. ClientInv(c)'
  <2>1. /\ state'[c] = "down" /\ request'[c] = NoRequest
        /\ request'[c].status = "none"
        /\ inbox'[c] = {} /\ deferred'[c] = {} /\ lastSync'[c] = 0 /\ currentSync'[c] = 0
        /\ lastSync[c] \in Nat
    BY <1>1 DEF Shape, NoRequest
  <2>2. Phase(c)'
    BY <2>1 DEF Phase
  <2>3. Stamps(c)'
    BY <1>1, <2>1 DEF Shape, Stamps, Running
  <2>4. FromServer(c)'
    BY <2>1 DEF FromServer
  <2>5. KeptSince(c)'
    BY <1>1, <2>1, RowsInPlace DEF ClientInv, KeptSince
  <2>6. KeptByRun(c)'
    BY <2>1 DEF KeptByRun, Running
  <2>7. QED
    BY <2>2, <2>3, <2>4, <2>5, <2>6 DEF ClientInv
<1>5. QED
  BY <1>2, <1>3, <1>4, StepOfOne, ServerUntouched

LEMMA LaunchKeeps ==
  ASSUME SyncInv, NEW c \in Client, Launch(c) PROVE SyncInv'
<1> USE DEF Launch, Goto, stampVars, serverVars
<1> DEFINE left == [e \in EntryId |->
              IF times[c][e] # NoRow /\ ~ times[c][e].long THEN NoRow ELSE times[c][e]]
<1>1. Shape /\ ClientInv(c)
  BY DEF SyncInv
<1>2. left \in EntryTable /\ \A e \in EntryId : left[e] \in {NoRow, times[c][e]}
  BY <1>1 DEF Shape, EntryTable, Table
<1>3. times' = [times EXCEPT ![c] = left]
  OBVIOUS
<1> HIDE DEF left
<1>4. Shape'
  BY <1>1, <1>2, <1>3 DEF Shape, SyncState
<1>5. \A d \in Client : d # c => UNCHANGED Mine(d)
  BY <1>1, <1>3 DEF Mine, Shape
<1>6. ClientInv(c)'
  <2>1. state[c] = "down" /\ state'[c] = "idle" /\ times'[c] = left
    BY <1>1, <1>3 DEF Shape
  <2>2. Phase(c)'
    BY <1>1, <2>1 DEF ClientInv, Phase
  <2>3. Stamps(c)'
    BY <1>1, <2>1 DEF ClientInv, Stamps, Running
  <2>4. FromServer(c)'
    BY <1>1, <2>1 DEF ClientInv, FromServer, Phase, NoRequest
  <2>5. KeptSince(c)'
    BY <1>1, <1>2, <2>1 DEF ClientInv, KeptSince
  <2>6. KeptByRun(c)'
    BY <2>1 DEF KeptByRun, Running
  <2>7. QED
    BY <2>2, <2>3, <2>4, <2>5, <2>6 DEF ClientInv
<1>7. QED
  BY <1>4, <1>5, <1>6, StepOfOne, ServerUntouched

-----------------------------------------------------------------------------
(* Writing the tables *)

\* At most one task of one client is written, and timers are stopped.
TaskWritten(c, row) ==
  /\ tasks' \in [Client -> TaskTable] /\ times' \in [Client -> EntryTable]
  /\ \A d \in Client : d # c => tasks'[d] = tasks[d] /\ times'[d] = times[d]
  /\ \A t \in TaskId :
       tasks'[c][t] = tasks[c][t] \/ (t = row.id /\ tasks'[c][t] = row)
  /\ \A e \in EntryId :
       times'[c][e] = times[c][e]
       \/ (times[c][e] # NoRow /\ times'[c][e].changed = now)

LEMMA TimersStoppedEffect ==
  ASSUME Shape, NEW c \in Client, NEW t, NEW outcome \in {"stopped", "deleted"}
  PROVE  /\ TimersStopped(c, t, outcome) \in EntryTable
         /\ \A e \in EntryId :
              TimersStopped(c, t, outcome)[e] = times[c][e]
              \/ /\ Owner[e] = t /\ times[c][e].state = "running"
                 /\ times[c][e] # NoRow /\ TimersStopped(c, t, outcome)[e].changed = now
<1> DEFINE new == TimersStopped(c, t, outcome)
           Stop(e) == [times[c][e] EXCEPT !.state = outcome, !.changed = now]
<1>1. \A e \in EntryId :
        \/ new[e] = times[c][e]
        \/ Owner[e] = t /\ times[c][e].state = "running" /\ new[e] = Stop(e)
  BY DEF TimersStopped
<1>2. \A e \in EntryId : times[c][e].state = "running" => times[c][e] # NoRow
  BY DEF NoRow
<1>3. \A e \in EntryId : times[c][e] # NoRow =>
        Stop(e) \in EntryRow /\ Stop(e).id = e /\ Stop(e).changed = now
  <2> SUFFICES ASSUME NEW e \in EntryId, times[c][e] # NoRow
               PROVE  Stop(e) \in EntryRow /\ Stop(e).id = e /\ Stop(e).changed = now
    OBVIOUS
  <2>1. now \in Nat
    BY DEF Shape
  <2>2. times[c][e] \in EntryRow /\ times[c][e].id = e
    BY RowsInPlace
  <2>3. QED
    BY <2>1, <2>2 DEF EntryRow, EntryState
<1>4. new = [e \in EntryId |-> new[e]]
  BY DEF TimersStopped
<1> HIDE DEF new, Stop
<1>5. \A e \in EntryId : times[c][e] = NoRow \/ (times[c][e] \in EntryRow /\ times[c][e].id = e)
  BY RowsInPlace
<1>6. \A e \in EntryId : new[e] = NoRow \/ (new[e] \in EntryRow /\ new[e].id = e)
  BY <1>1, <1>2, <1>3, <1>5
<1>7. new \in EntryTable
  BY <1>4, <1>6 DEF EntryTable, Table
<1>8. \A e \in EntryId :
        \/ new[e] = times[c][e]
        \/ /\ Owner[e] = t /\ times[c][e].state = "running"
           /\ times[c][e] # NoRow /\ new[e].changed = now
  BY <1>1, <1>2, <1>3
<1>9. QED
  BY <1>7, <1>8 DEF new

LEMMA WriteTaskEffect ==
  ASSUME Shape, NEW c \in Client, NEW row \in TaskRow, WriteTask(c, row)
  PROVE  TaskWritten(c, row)
<1>1. tasks[c] \in TaskTable
  BY RowsInPlace
<1>2. Updated(tasks[c], row) \in TaskTable
      /\ \A t \in TaskId :
           Updated(tasks[c], row)[t] = tasks[c][t]
           \/ (t = row.id /\ Updated(tasks[c], row)[t] = row)
  BY <1>1, UpdatedTable, RowKinds DEF TaskTable
<1>3. PICK outcome \in {"stopped", "deleted"} :
        times' = [times EXCEPT ![c] =
                    IF Accepts(tasks[c], row) /\ row.deleted /\ ~ tasks[c][row.id].deleted
                    THEN TimersStopped(c, row.id, outcome) ELSE @]
  BY DEF WriteTask
<1>4. /\ TimersStopped(c, row.id, outcome) \in EntryTable
      /\ \A e \in EntryId :
           TimersStopped(c, row.id, outcome)[e] = times[c][e]
           \/ /\ times[c][e] # NoRow
              /\ TimersStopped(c, row.id, outcome)[e].changed = now
  BY TimersStoppedEffect
<1>5. tasks' = [tasks EXCEPT ![c] = Updated(tasks[c], row)]
  BY DEF WriteTask
<1>6. /\ tasks' \in [Client -> TaskTable]
      /\ \A d \in Client : d # c => tasks'[d] = tasks[d]
      /\ tasks'[c] = Updated(tasks[c], row)
  BY <1>2, <1>5 DEF Shape
<1>7. /\ times' \in [Client -> EntryTable]
      /\ \A d \in Client : d # c => times'[d] = times[d]
      /\ times'[c] \in {times[c], TimersStopped(c, row.id, outcome)}
  BY <1>3, <1>4 DEF Shape
<1>8. QED
  BY <1>2, <1>4, <1>6, <1>7 DEF TaskWritten

LEMMA CreateTaskEffect ==
  ASSUME Shape, NEW c \in Client, NEW row \in TaskRow, CreateTask(c, row)
  PROVE  TaskWritten(c, row)
<1>1. tasks[c] \in TaskTable
  BY RowsInPlace
<1>2. [tasks[c] EXCEPT ![row.id] = row] \in TaskTable
      /\ \A t \in TaskId :
           [tasks[c] EXCEPT ![row.id] = row][t] = tasks[c][t]
           \/ (t = row.id /\ [tasks[c] EXCEPT ![row.id] = row][t] = row)
  BY <1>1, PutRow, RowKinds DEF TaskTable
<1>3. tasks' = [tasks EXCEPT ![c] = [tasks[c] EXCEPT ![row.id] = row]] /\ times' = times
  BY DEF CreateTask
<1>4. QED
  BY <1>2, <1>3 DEF TaskWritten, Shape

\* The user writes with the stamp of this moment, which the run will send.
LEMMA UserWriteKeeps ==
  ASSUME SyncInv, NEW c \in Client, Free(c), Unsynced,
         tasks' \in [Client -> TaskTable], times' \in [Client -> EntryTable],
         \A d \in Client : d # c => tasks'[d] = tasks[d] /\ times'[d] = times[d],
         \A t \in TaskId : tasks'[c][t] = tasks[c][t] \/ tasks'[c][t].changed = now,
         \A e \in EntryId : times'[c][e] = times[c][e] \/ times'[c][e].changed = now
  PROVE  SyncInv'
<1> USE DEF Unsynced, stampVars, serverVars
<1>1. Shape /\ ClientInv(c)
  BY DEF SyncInv
<1>2. Shape'
  BY <1>1 DEF Shape
<1>3. \A d \in Client : d # c => UNCHANGED Mine(d)
  BY DEF Mine
<1>4. ClientInv(c)'
  <2>1. lastSync[c] < now /\ lastSync[c] \in Nat /\ now \in Nat /\ currentSync[c] \in Nat
    BY <1>1 DEF Shape, ClientInv, Stamps
  <2>2. Phase(c)'
    BY <1>1 DEF ClientInv, Phase
  <2>3. Stamps(c)'
    BY <1>1 DEF ClientInv, Stamps
  <2>4. FromServer(c)'
    BY <1>1 DEF ClientInv, FromServer
  <2>5. KeptSince(c)'
    BY <1>1, <2>1 DEF ClientInv, KeptSince
  <2>6. KeptByRun(c)'
    <3>1. state[c] \in Running => now > currentSync[c]
      BY <1>1, <2>1 DEF ClientInv, Stamps
    <3>2. {"time_wait", "time_store"} \subseteq Running
      BY DEF Running
    <3>3. QED
      BY <1>1, <2>1, <3>1, <3>2 DEF ClientInv, KeptByRun, Sent
  <2>7. QED
    BY <2>2, <2>3, <2>4, <2>5, <2>6 DEF ClientInv
<1>5. QED
  BY <1>2, <1>3, <1>4, StepOfOne, ServerUntouched

LEMMA UserTaskKeeps ==
  ASSUME SyncInv, NEW c \in Client, NEW t \in TaskId, UserTask(c, t) PROVE SyncInv'
<1>1. Shape /\ now \in Nat /\ Free(c) /\ Unsynced
  BY DEF SyncInv, Shape, UserTask, UserActs
<1>2. PICK row \in TaskRow : row.changed = now /\ TaskWritten(c, row)
  <2> DEFINE mine == tasks[c][t]
             Chosen == {p \in TaskId \ {t} : tasks[c][p] # NoRow /\ ~ tasks[c][p].deleted}
  <2>1. CASE \E parent \in Chosen \cup {NoTask} :
               CreateTask(c, [id |-> t, parent |-> parent, deleted |-> FALSE,
                              quiet |-> FALSE, changed |-> now])
    <3>1. PICK parent \in Chosen \cup {NoTask} :
            CreateTask(c, [id |-> t, parent |-> parent, deleted |-> FALSE,
                           quiet |-> FALSE, changed |-> now])
      BY <2>1
    <3> DEFINE row == [id |-> t, parent |-> parent, deleted |-> FALSE,
                       quiet |-> FALSE, changed |-> now]
    <3>2. row \in TaskRow /\ row.changed = now
      BY <1>1 DEF TaskRow
    <3>3. TaskWritten(c, row)
      BY <1>1, <3>1, <3>2, CreateTaskEffect
    <3>4. QED
      BY <3>2, <3>3
  <2>2. CASE mine # NoRow /\ ~ mine.deleted
             /\ \/ WriteTask(c, [mine EXCEPT !.deleted = TRUE, !.changed = now])
                \/ WriteTask(c, [mine EXCEPT !.quiet = ~ @, !.changed = now])
                \/ \E parent \in (Chosen \cup {NoTask}) \ {mine.parent} :
                     WriteTask(c, [mine EXCEPT !.parent = parent, !.changed = now])
    <3>1. mine \in TaskRow
      BY <1>1, <2>2, RowsInPlace
    <3>2. PICK row \in TaskRow : row.changed = now /\ WriteTask(c, row)
      <4>1. CASE WriteTask(c, [mine EXCEPT !.deleted = TRUE, !.changed = now])
        <5>1. [mine EXCEPT !.deleted = TRUE, !.changed = now] \in TaskRow
              /\ [mine EXCEPT !.deleted = TRUE, !.changed = now].changed = now
          BY <1>1, <3>1 DEF TaskRow
        <5>2. QED
          BY <4>1, <5>1
      <4>2. CASE WriteTask(c, [mine EXCEPT !.quiet = ~ @, !.changed = now])
        <5>1. [mine EXCEPT !.quiet = ~ @, !.changed = now] \in TaskRow
              /\ [mine EXCEPT !.quiet = ~ @, !.changed = now].changed = now
          BY <1>1, <3>1 DEF TaskRow
        <5>2. QED
          BY <4>2, <5>1
      <4>3. CASE \E parent \in (Chosen \cup {NoTask}) \ {mine.parent} :
                   WriteTask(c, [mine EXCEPT !.parent = parent, !.changed = now])
        <5>1. PICK parent \in TaskId \cup {NoTask} :
                WriteTask(c, [mine EXCEPT !.parent = parent, !.changed = now])
          BY <4>3
        <5>2. [mine EXCEPT !.parent = parent, !.changed = now] \in TaskRow
              /\ [mine EXCEPT !.parent = parent, !.changed = now].changed = now
          BY <1>1, <3>1 DEF TaskRow
        <5>3. QED
          BY <5>1, <5>2
      <4>4. QED
        BY <2>2, <4>1, <4>2, <4>3
    <3>3. QED
      BY <1>1, <3>2, WriteTaskEffect
  <2>3. QED
    BY <2>1, <2>2 DEF UserTask
<1>3. QED
  BY <1>1, <1>2, UserWriteKeeps DEF TaskWritten

LEMMA UserEntryKeeps ==
  ASSUME SyncInv, NEW c \in Client, NEW e \in EntryId, UserEntry(c, e) PROVE SyncInv'
<1>1. Shape /\ now \in Nat /\ Free(c) /\ Unsynced /\ tasks' = tasks
  BY DEF SyncInv, Shape, UserEntry, UserActs
<1>2. PICK s \in EntryState, long \in BOOLEAN :
        LET row == [id |-> e, state |-> s, long |-> long, changed |-> now] IN
        times' = [times EXCEPT ![c] =
                    IF @[e] = NoRow THEN [@ EXCEPT ![e] = row] ELSE Updated(@, row)]
  BY DEF UserEntry
<1> DEFINE row == [id |-> e, state |-> s, long |-> long, changed |-> now]
           new == IF times[c][e] = NoRow THEN [times[c] EXCEPT ![e] = row]
                  ELSE Updated(times[c], row)
<1>3. row \in EntryRow /\ row.id = e /\ row.changed = now
  BY <1>1 DEF EntryRow
<1>4. times' = [times EXCEPT ![c] = new]
  BY <1>2
<1> HIDE DEF row
<1>5. times[c] \in EntryTable
  BY <1>1, RowsInPlace
<1>6. new \in EntryTable /\ \A i \in EntryId : new[i] \in {times[c][i], row}
  <2>1. CASE times[c][e] = NoRow
    BY <1>3, <1>5, <2>1, PutRow, RowKinds DEF EntryTable
  <2>2. CASE times[c][e] # NoRow
    BY <1>3, <1>5, <2>2, UpdatedTable, RowKinds DEF EntryTable
  <2>3. QED
    BY <2>1, <2>2
<1> HIDE DEF new
<1>7. /\ times' \in [Client -> EntryTable] /\ times'[c] = new
      /\ \A d \in Client : d # c => times'[d] = times[d]
  BY <1>1, <1>4, <1>6 DEF Shape
<1>8. tasks' \in [Client -> TaskTable]
  BY <1>1 DEF Shape
<1>9. QED
  BY <1>1, <1>3, <1>6, <1>7, <1>8, UserWriteKeeps

\* A stored version came from the server; a stopped timer has a new stamp.
LEMMA StoredTaskKeeps ==
  ASSUME SyncInv, NEW c \in Client, NEW row \in TaskRow,
         state[c] = "task_store", Covers(serverTasks, row), TaskWritten(c, row),
         inbox' \in [Client -> SUBSET Row], deferred' \in [Client -> SUBSET TaskRow],
         \A d \in Client : d # c => inbox'[d] = inbox[d] /\ deferred'[d] = deferred[d],
         inbox'[c] \subseteq inbox[c], deferred'[c] \subseteq deferred[c] \cup inbox[c],
         UNCHANGED <<now, state, stampVars, request, serverVars>>
  PROVE  SyncInv'
<1> USE DEF stampVars, serverVars
<1>1. Shape /\ ClientInv(c)
  BY DEF SyncInv
<1>2. Shape'
  BY <1>1 DEF Shape, TaskWritten
<1>3. \A d \in Client : d # c => UNCHANGED Mine(d)
  BY DEF Mine, TaskWritten
<1>4. ClientInv(c)'
  <2>1. lastSync[c] < now /\ lastSync[c] \in Nat /\ now \in Nat /\ request[c].status = "none"
    BY <1>1 DEF Shape, ClientInv, Stamps, Phase, NoRequest
  <2>2. Phase(c)'
    BY <1>1 DEF ClientInv, Phase
  <2>3. Stamps(c)'
    BY <1>1 DEF ClientInv, Stamps
  <2>4. FromServer(c)'
    BY <1>1 DEF ClientInv, FromServer
  <2>5. KeptSince(c)'
    BY <1>1, <2>1 DEF ClientInv, KeptSince, TaskWritten
  <2>6. KeptByRun(c)'
    BY <1>1, <2>1 DEF ClientInv, KeptByRun, TaskWritten, Running
  <2>7. QED
    BY <2>2, <2>3, <2>4, <2>5, <2>6 DEF ClientInv
<1>5. QED
  BY <1>2, <1>3, <1>4, StepOfOne, ServerUntouched

LEMMA StoreTaskKeeps ==
  ASSUME SyncInv, NEW c \in Client, NEW row, StoreTask(c, row) PROVE SyncInv'
<1>1. Shape /\ ClientInv(c)
  BY DEF SyncInv
<1>2. /\ state[c] = "task_store" /\ row \in inbox[c] /\ row \in TaskRow
      /\ Covers(serverTasks, row) /\ UNCHANGED <<now, state, stampVars, request, serverVars>>
  BY <1>1 DEF StoreTask, ClientInv, Phase, FromServer
<1>3. /\ inbox' \in [Client -> SUBSET Row] /\ deferred' \in [Client -> SUBSET TaskRow]
      /\ \A d \in Client : d # c => inbox'[d] = inbox[d] /\ deferred'[d] = deferred[d]
      /\ inbox'[c] \subseteq inbox[c] /\ deferred'[c] \subseteq deferred[c] \cup inbox[c]
  BY <1>1, <1>2 DEF StoreTask, Shape
<1>4. CASE UNCHANGED tableVars
  <2>1. TaskWritten(c, row)
    BY <1>1, <1>4 DEF TaskWritten, tableVars, Shape
  <2>2. QED
    BY <1>2, <1>3, <2>1, StoredTaskKeeps
<1>5. CASE CreateTask(c, row)
  BY <1>1, <1>2, <1>3, <1>5, CreateTaskEffect, StoredTaskKeeps
<1>6. CASE /\ tasks[c][row.id] # NoRow
           /\ WriteTask(c, [row EXCEPT !.quiet = tasks[c][row.id].quiet])
  <2> DEFINE item == [row EXCEPT !.quiet = tasks[c][row.id].quiet]
  <2>1. row.id \in TaskId
    BY <1>2 DEF TaskRow
  <2>2. tasks[c][row.id] \in TaskRow
    BY <1>1, <1>6, <2>1, RowsInPlace
  <2>3. item \in TaskRow /\ item.id = row.id /\ item.changed = row.changed
    BY <1>2, <2>2 DEF TaskRow
  <2>4. Covers(serverTasks, item)
    BY <1>2, <2>3 DEF Covers
  <2> HIDE DEF item
  <2>5. WriteTask(c, item)
    BY <1>6 DEF item
  <2>6. QED
    BY <1>1, <1>2, <1>3, <2>3, <2>4, <2>5, WriteTaskEffect, StoredTaskKeeps
<1>7. QED
  BY <1>4, <1>5, <1>6 DEF StoreTask

LEMMA StoreDeferredKeeps ==
  ASSUME SyncInv, NEW c \in Client, NEW row, StoreDeferred(c, row) PROVE SyncInv'
<1>1. Shape /\ ClientInv(c)
  BY DEF SyncInv
<1>2. /\ state[c] = "task_store" /\ row \in deferred[c] /\ row \in TaskRow
      /\ Covers(serverTasks, row) /\ UNCHANGED <<now, state, stampVars, request, serverVars>>
  BY <1>1 DEF StoreDeferred, ClientInv, Shape, FromServer, stampVars, serverVars
<1>3. /\ inbox' \in [Client -> SUBSET Row] /\ deferred' \in [Client -> SUBSET TaskRow]
      /\ \A d \in Client : d # c => inbox'[d] = inbox[d] /\ deferred'[d] = deferred[d]
      /\ inbox'[c] \subseteq inbox[c] /\ deferred'[c] \subseteq deferred[c] \cup inbox[c]
  BY <1>1, <1>2 DEF StoreDeferred, Shape
<1>4. TaskWritten(c, row)
  BY <1>1, <1>2, WriteTaskEffect, CreateTaskEffect DEF StoreDeferred
<1>5. QED
  BY <1>2, <1>3, <1>4, StoredTaskKeeps

\* The entry that is stored is the version of the server but for its state,
\* and it runs only where it did.
LEMMA StoreEntryEffect ==
  ASSUME Shape, NEW c \in Client, NEW row \in EntryRow, StoreEntry(c, row)
  PROVE  \E item \in EntryRow :
           /\ item.id = row.id /\ item.changed = row.changed
           /\ item.state = "running" => times[c][row.id].state = "running"
           /\ times[c][row.id].state = "running" => item.state \in {"running", "deleted"}
           /\ times' \in [Client -> EntryTable]
           /\ \A d \in Client : d # c => times'[d] = times[d]
           /\ \A e \in EntryId : times'[c][e] = times[c][e]
                                 \/ (e = row.id /\ times'[c][e] = item)
<1> DEFINE mine == times[c][row.id]
           item == [row EXCEPT !.state =
                      IF row.state = "deleted" THEN "deleted"
                      ELSE IF mine.state = "running" THEN "running" ELSE "stopped"]
           new == IF tasks[c][Owner[row.id]] = NoRow THEN times[c]
                  ELSE IF mine # NoRow THEN Updated(times[c], item)
                  ELSE IF item.state # "deleted" /\ item.long
                  THEN [times[c] EXCEPT ![row.id] = item]
                  ELSE times[c]
<1>1. /\ item \in EntryRow /\ item.id = row.id /\ item.changed = row.changed
      /\ item.state = "running" => mine.state = "running"
      /\ mine.state = "running" => item.state \in {"running", "deleted"}
  BY DEF EntryRow, EntryState
<1>2. times' = [times EXCEPT ![c] = new]
  BY DEF StoreEntry
<1> HIDE DEF item
<1>3. times[c] \in EntryTable
  BY RowsInPlace
<1>4. /\ Updated(times[c], item) \in EntryTable
      /\ \A e \in EntryId : Updated(times[c], item)[e] = times[c][e]
                            \/ (e = row.id /\ Updated(times[c], item)[e] = item)
  BY <1>1, <1>3, UpdatedTable, RowKinds DEF EntryTable
<1>5. /\ [times[c] EXCEPT ![row.id] = item] \in EntryTable
      /\ \A e \in EntryId :
           [times[c] EXCEPT ![row.id] = item][e] = times[c][e]
           \/ (e = row.id /\ [times[c] EXCEPT ![row.id] = item][e] = item)
  BY <1>1, <1>3, PutRow, RowKinds DEF EntryTable
<1>6. /\ new \in EntryTable
      /\ \A e \in EntryId : new[e] = times[c][e] \/ (e = row.id /\ new[e] = item)
  BY <1>3, <1>4, <1>5
<1> HIDE DEF new
<1>7. /\ times' \in [Client -> EntryTable] /\ times'[c] = new
      /\ \A d \in Client : d # c => times'[d] = times[d]
  BY <1>2, <1>6 DEF Shape
<1>8. QED
  BY <1>1, <1>6, <1>7

LEMMA StoreEntryKeeps ==
  ASSUME SyncInv, NEW c \in Client, NEW row, StoreEntry(c, row) PROVE SyncInv'
<1> USE DEF stampVars, serverVars
<1>1. Shape /\ ClientInv(c)
  BY DEF SyncInv
<1>2. /\ state[c] = "time_store" /\ row \in inbox[c] /\ row \in EntryRow
      /\ Covers(serverTimes, row)
      /\ UNCHANGED <<now, state, stampVars, request, deferred, tasks, serverVars>>
      /\ inbox' = [inbox EXCEPT ![c] = @ \ {row}]
  BY <1>1 DEF StoreEntry, ClientInv, Phase, FromServer
<1>3. PICK item \in EntryRow :
        /\ item.id = row.id /\ item.changed = row.changed
        /\ times' \in [Client -> EntryTable]
        /\ \A d \in Client : d # c => times'[d] = times[d]
        /\ \A e \in EntryId : times'[c][e] = times[c][e]
                              \/ (e = row.id /\ times'[c][e] = item)
  BY <1>1, <1>2, StoreEntryEffect
<1>4. Covers(serverTimes, item)
  BY <1>2, <1>3 DEF Covers
<1>5. /\ inbox' \in [Client -> SUBSET Row] /\ inbox'[c] = inbox[c] \ {row}
      /\ \A d \in Client : d # c => inbox'[d] = inbox[d]
  BY <1>1, <1>2 DEF Shape
<1>6. Shape'
  BY <1>1, <1>2, <1>3, <1>5 DEF Shape
<1>7. \A d \in Client : d # c => UNCHANGED Mine(d)
  BY <1>2, <1>3, <1>5 DEF Mine
<1>8. ClientInv(c)'
  <2>1. request[c].status = "none"
    BY <1>1, <1>2 DEF ClientInv, Phase, NoRequest
  <2>2. Phase(c)'
    BY <1>1, <1>2, <1>5 DEF ClientInv, Phase
  <2>3. Stamps(c)'
    BY <1>1, <1>2 DEF ClientInv, Stamps
  <2>4. FromServer(c)'
    BY <1>1, <1>2, <1>5, <2>1 DEF ClientInv, FromServer
  <2>5. KeptSince(c)'
    BY <1>1, <1>2, <1>3, <1>4 DEF ClientInv, KeptSince
  <2>6. KeptByRun(c)'
    BY <1>1, <1>2, <1>3, <1>4, <2>1 DEF ClientInv, KeptByRun, Running
  <2>7. QED
    BY <2>2, <2>3, <2>4, <2>5, <2>6 DEF ClientInv
<1>9. QED
  BY <1>2, <1>6, <1>7, <1>8, StepOfOne, ServerUntouched

-----------------------------------------------------------------------------
(* The network *)

\* Whether the answer arrives or not, the server only gains.
LEMMA ServerStores ==
  ASSUME Shape, NEW c \in Client, ClientInv(c), request[c] # NoRequest,
         serverTasks' = Merged(serverTasks, request[c].rows \cap TaskRow),
         serverTimes' = Merged(serverTimes, request[c].rows \cap EntryRow)
  PROVE  /\ ServerKeeps /\ serverTasks' \in TaskTable /\ serverTimes' \in EntryTable
         /\ \A row \in request[c].rows \cap TaskRow : Covers(serverTasks', row)
         /\ \A row \in request[c].rows \cap EntryRow : Covers(serverTimes', row)
<1>1. OneVersion(request[c].rows \cap TaskRow) /\ OneVersion(request[c].rows \cap EntryRow)
  BY DEF ClientInv, Phase, OneVersion
<1>2. serverTasks \in Table(TaskId, TaskRow) /\ serverTimes \in Table(EntryId, EntryRow)
  BY DEF Shape, TaskTable, EntryTable
<1> DEFINE taskRows == request[c].rows \cap TaskRow
           timeRows == request[c].rows \cap EntryRow
<1>3. /\ taskRows \in SUBSET TaskRow /\ OneVersion(taskRows)
      /\ timeRows \in SUBSET EntryRow /\ OneVersion(timeRows)
      /\ serverTasks' = Merged(serverTasks, taskRows)
      /\ serverTimes' = Merged(serverTimes, timeRows)
  BY <1>1
<1> HIDE DEF taskRows, timeRows
<1>4. /\ Merged(serverTasks, taskRows) \in Table(TaskId, TaskRow)
      /\ \A row \in taskRows : Covers(Merged(serverTasks, taskRows), row)
      /\ \A row \in TaskRow :
           Covers(serverTasks, row) => Covers(Merged(serverTasks, taskRows), row)
  <2>1. RowsFor(TaskId, TaskRow)
    BY RowKinds
  <2>2. QED
    BY <1>2, <1>3, <2>1, MergedTable, Zenon
<1>5. /\ Merged(serverTimes, timeRows) \in Table(EntryId, EntryRow)
      /\ \A row \in timeRows : Covers(Merged(serverTimes, timeRows), row)
      /\ \A row \in EntryRow :
           Covers(serverTimes, row) => Covers(Merged(serverTimes, timeRows), row)
  <2>1. RowsFor(EntryId, EntryRow)
    BY RowKinds
  <2>2. QED
    BY <1>2, <1>3, <2>1, MergedTable, Zenon
<1>6. QED
  BY <1>3, <1>4, <1>5 DEF ServerKeeps, TaskTable, EntryTable, taskRows, timeRows

LEMMA ServerAnswersKeeps ==
  ASSUME SyncInv, NEW c \in Client, ServerAnswers(c) PROVE SyncInv'
<1> USE DEF stampVars, tableVars
<1>1. Shape /\ ClientInv(c) /\ request[c] \in Request \cup {NoRequest}
  BY DEF SyncInv, Shape
<1>2. /\ request[c].status = "sent" /\ request[c] # NoRequest
      /\ state[c] \in {"task_wait", "time_wait"}
  BY <1>1 DEF ServerAnswers, NoRequest, ClientInv, Phase
<1>3. request[c] \in Request
  BY <1>1, <1>2
<1>4. /\ ServerKeeps /\ serverTasks' \in TaskTable /\ serverTimes' \in EntryTable
      /\ \A row \in request[c].rows \cap TaskRow : Covers(serverTasks', row)
      /\ \A row \in request[c].rows \cap EntryRow : Covers(serverTimes', row)
  BY <1>1, <1>2, ServerStores DEF ServerAnswers
<1> DEFINE table == IF state[c] = "task_wait" THEN serverTasks' ELSE serverTimes'
           newer == {row \in RowsOf(table) : row.changed >= request[c].since}
           answer == [request[c] EXCEPT !.status = "answered", !.rows = newer]
<1>5. request' = [request EXCEPT ![c] = answer]
  BY DEF ServerAnswers
<1>6. /\ state[c] = "task_wait" => newer \subseteq TaskRow
      /\ state[c] = "time_wait" => newer \subseteq EntryRow
      /\ OneVersion(newer) /\ \A row \in newer : table[row.id] = row
  <2>1. /\ state[c] = "task_wait" => RowsOf(table) \subseteq TaskRow
        /\ state[c] = "time_wait" => RowsOf(table) \subseteq EntryRow
        /\ OneVersion(RowsOf(table)) /\ \A row \in RowsOf(table) : table[row.id] = row
    <3>1. CASE state[c] = "task_wait"
      BY <1>4, <3>1, RowsOfTable, RowKinds DEF TaskTable
    <3>2. CASE state[c] = "time_wait"
      BY <1>4, <3>2, RowsOfTable, RowKinds DEF EntryTable
    <3>3. QED
      BY <1>2, <3>1, <3>2
  <2>2. QED
    BY <2>1 DEF OneVersion
<1> HIDE DEF newer
<1>7. answer \in Request /\ answer.status = "answered" /\ answer.rows = newer
  BY <1>2, <1>3, <1>6 DEF Request, Row
<1> HIDE DEF answer
<1>8. /\ request' \in [Client -> Request \cup {NoRequest}] /\ request'[c] = answer
      /\ \A d \in Client : d # c => request'[d] = request[d]
  BY <1>1, <1>5, <1>7 DEF Shape
<1>9. UNCHANGED <<now, state, stampVars, inbox, deferred, tableVars>>
  BY DEF ServerAnswers
<1>10. Shape'
  BY <1>1, <1>4, <1>8, <1>9 DEF Shape
<1>11. \A d \in Client : d # c => UNCHANGED Mine(d)
  BY <1>8, <1>9 DEF Mine
<1>12. ClientInv(c)'
  <2>1. Phase(c)'
    BY <1>1, <1>2, <1>6, <1>7, <1>8, <1>9 DEF ClientInv, Phase, NoRequest
  <2>2. Stamps(c)'
    BY <1>1, <1>9 DEF ClientInv, Stamps
  <2>3. FromServer(c)'
    <3>1. inbox'[c] = {} /\ deferred'[c] = {}
      BY <1>1, <1>2, <1>9 DEF ClientInv, Phase
    <3>2. \A row \in newer : Covers(table, row)
      <4>1. \A row \in newer : row # NoRow /\ row.changed \in Nat
        BY <1>2, <1>6, RowKinds DEF RowsFor
      <4>2. QED
        BY <1>6, <4>1 DEF Covers
    <3>3. QED
      BY <1>2, <1>7, <1>8, <1>9, <3>1, <3>2 DEF FromServer
  <2>4. KeptSince(c)'
    BY <1>1, <1>4, <1>9, RowsInPlace DEF ClientInv, KeptSince, ServerKeeps
  <2>5. KeptByRun(c)'
    <3>1. request[c].status # "failed" /\ request'[c].status = "answered"
      BY <1>2, <1>7, <1>8
    <3>2. \A t \in TaskId : tasks[c][t] # NoRow /\ state[c] \in Running =>
            tasks[c][t].changed > currentSync[c] \/ Covers(serverTasks', tasks[c][t])
      BY <1>1, <1>4, <3>1, RowsInPlace DEF ClientInv, KeptByRun, ServerKeeps, Sent
    <3>3. \A e \in EntryId :
            times[c][e] # NoRow /\ state[c] \in {"time_wait", "time_store"} =>
              times[c][e].changed >= currentSync[c] \/ Covers(serverTimes', times[c][e])
      BY <1>1, <1>4, <3>1, RowsInPlace DEF ClientInv, KeptByRun, ServerKeeps, Sent
    <3>4. QED
      BY <1>9, <3>2, <3>3 DEF KeptByRun
  <2>6. QED
    BY <2>1, <2>2, <2>3, <2>4, <2>5 DEF ClientInv
<1>13. QED
  BY <1>4, <1>9, <1>10, <1>11, <1>12, StepOfOne

LEMMA RequestFailsKeeps ==
  ASSUME SyncInv, NEW c \in Client, RequestFails(c) PROVE SyncInv'
<1> USE DEF stampVars, tableVars
<1>1. Shape /\ ClientInv(c) /\ request[c] \in Request \cup {NoRequest}
  BY DEF SyncInv, Shape
<1>2. /\ request[c].status = "sent" /\ request[c] # NoRequest
      /\ state[c] \in {"task_wait", "time_wait"}
  BY <1>1 DEF RequestFails, NoRequest, ClientInv, Phase
<1>3. request[c] \in Request
  BY <1>1, <1>2
<1>4. ServerKeeps /\ serverTasks' \in TaskTable /\ serverTimes' \in EntryTable
  <2>1. CASE UNCHANGED serverVars
    BY <1>1, <2>1, ServerUntouched DEF serverVars, Shape
  <2>2. CASE /\ serverTasks' = Merged(serverTasks, request[c].rows \cap TaskRow)
             /\ serverTimes' = Merged(serverTimes, request[c].rows \cap EntryRow)
    BY <1>1, <1>2, <2>2, ServerStores
  <2>3. QED
    BY <2>1, <2>2 DEF RequestFails
<1> DEFINE answer == [request[c] EXCEPT !.status = "failed", !.rows = {}]
<1>5. request' = [request EXCEPT ![c] = answer]
  BY DEF RequestFails
<1>6. answer \in Request /\ answer.status = "failed" /\ answer.rows = {}
  BY <1>3 DEF Request
<1> HIDE DEF answer
<1>7. /\ request' \in [Client -> Request \cup {NoRequest}] /\ request'[c] = answer
      /\ \A d \in Client : d # c => request'[d] = request[d]
  BY <1>1, <1>5, <1>6 DEF Shape
<1>8. UNCHANGED <<now, state, stampVars, inbox, deferred, tableVars>>
  BY DEF RequestFails
<1>9. Shape'
  BY <1>1, <1>4, <1>7, <1>8 DEF Shape
<1>10. \A d \in Client : d # c => UNCHANGED Mine(d)
  BY <1>7, <1>8 DEF Mine
<1>11. ClientInv(c)'
  <2>1. Phase(c)'
    BY <1>1, <1>2, <1>6, <1>7, <1>8 DEF ClientInv, Phase, NoRequest, OneVersion
  <2>2. Stamps(c)'
    BY <1>1, <1>8 DEF ClientInv, Stamps
  <2>3. FromServer(c)'
    BY <1>1, <1>2, <1>6, <1>7, <1>8 DEF ClientInv, Phase, FromServer
  <2>4. KeptSince(c)'
    BY <1>1, <1>4, <1>8, RowsInPlace DEF ClientInv, KeptSince, ServerKeeps
  <2>5. KeptByRun(c)'
    BY <1>6, <1>7 DEF KeptByRun
  <2>6. QED
    BY <2>1, <2>2, <2>3, <2>4, <2>5 DEF ClientInv
<1>12. QED
  BY <1>4, <1>8, <1>9, <1>10, <1>11, StepOfOne

-----------------------------------------------------------------------------
(* The theorems *)

LEMMA InitSyncInv == ASSUME Init PROVE SyncInv
<1>1. KnownTasks \in TaskTable /\ serverTasks = KnownTasks
      /\ \A c \in Client : tasks[c] = KnownTasks
  BY DEF Init, KnownTasks, TaskTable, Table, TaskRow
<1>2. [e \in EntryId |-> NoRow] \in EntryTable
  BY DEF EntryTable, Table
<1>3. Shape
  BY <1>1, <1>2 DEF Init, Shape, SyncState
<1>4. ASSUME NEW c \in Client PROVE ClientInv(c)
  <2>1. /\ state[c] = "idle" /\ request[c] = NoRequest /\ request[c].status = "none"
        /\ inbox[c] = {} /\ deferred[c] = {} /\ lastSync[c] = 0 /\ currentSync[c] = 0
        /\ now = 1 /\ times[c] = [e \in EntryId |-> NoRow]
    BY DEF Init, NoRequest
  <2>2. Phase(c) /\ Stamps(c) /\ FromServer(c) /\ KeptByRun(c)
    BY <2>1 DEF Phase, Stamps, FromServer, KeptByRun, Running
  <2>3. KeptSince(c)
    <3>1. \A t \in TaskId : tasks[c][t] # NoRow => Covers(serverTasks, tasks[c][t])
      <4>1. \A t \in TaskId : tasks[c][t] # NoRow =>
              tasks[c][t].id = t /\ tasks[c][t].changed \in Nat
        BY <1>3, RowsInPlace
      <4>2. QED
        BY <1>1, <4>1 DEF Covers
    <3>2. QED
      BY <2>1, <3>1 DEF KeptSince
  <2>4. QED
    BY <2>2, <2>3 DEF ClientInv
<1>5. QED
  BY <1>3, <1>4 DEF SyncInv

LEMMA StepSyncInv == ASSUME SyncInv, [Next]_vars PROVE SyncInv'
<1>1. CASE UNCHANGED vars
  BY <1>1 DEF vars, stampVars, tableVars, serverVars, SyncInv, Shape, ClientInv,
     Phase, Stamps, FromServer, KeptSince, KeptByRun, Covers, Sent
<1>2. CASE Advance
  <2> USE DEF Advance, stampVars, tableVars, serverVars
  <2>1. Shape /\ Shape' /\ now' \in Nat /\ now' >= now
    BY <1>2 DEF SyncInv, Shape
  <2>2. ServerKeeps /\ \A c \in Client : UNCHANGED Mine(c)
    BY <1>2, ServerUntouched DEF Mine
  <2>3. \A c \in Client : ClientInv(c)'
    BY <2>1, <2>2, OthersKeep DEF SyncInv
  <2>4. QED
    BY <2>1, <2>3 DEF SyncInv
<1>3. ASSUME NEW c \in Client,
             ServerAnswers(c) \/ RequestFails(c) \/ User(c) \/ Tick(c) \/ Process(c)
      PROVE  SyncInv'
  <2>1. CASE ServerAnswers(c) \/ RequestFails(c)
    BY <2>1, ServerAnswersKeeps, RequestFailsKeeps
  <2>2. CASE User(c)
    BY <2>2, UserTaskKeeps, UserEntryKeeps DEF User
  <2>3. CASE Tick(c)
    <3>1. CASE \E row \in inbox[c] : StoreTask(c, row) \/ StoreEntry(c, row)
      BY <3>1, StoreTaskKeeps, StoreEntryKeeps
    <3>2. CASE \E row \in deferred[c] : StoreDeferred(c, row) \/ StoreAborts(c, row)
      BY <3>2, StoreDeferredKeeps, DiesKeeps DEF StoreAborts
    <3>3. QED
      BY <2>3, <3>1, <3>2, BeginRunKeeps, RequestTasksKeeps, RequestTimesKeeps,
         ReceiveKeeps, TasksStoredKeeps, RunDoneKeeps, FailedKeeps DEF Tick
  <2>4. CASE Process(c)
    BY <2>4, DiesKeeps, LaunchKeeps DEF Process, Crash
  <2>5. QED
    BY <1>3, <2>1, <2>2, <2>3, <2>4
<1>4. QED
  BY <1>1, <1>2, <1>3 DEF Next, Ended

LEMMA SyncInvariant == Spec => []SyncInv
<1>1. Init => SyncInv
  BY InitSyncInv
<1>2. SyncInv /\ [Next]_vars => SyncInv'
  BY StepSyncInv
<1>3. QED
  BY <1>1, <1>2, PTL DEF Spec

(***************************************************************************)
(* The tables, the stamps and what a client is about to store are well     *)
(* formed in every state, and an answer is only ever held by the handler   *)
(* that stores it: sync_manager.cpp, on_signal_1_second.                   *)
(***************************************************************************)
THEOREM SyncTypeCorrect == Spec => []SyncTypeOK
<1>1. SyncInv => SyncTypeOK
  <2> SUFFICES ASSUME SyncInv PROVE SyncTypeOK
    OBVIOUS
  <2>1. Shape
    BY DEF SyncInv
  <2>2. ASSUME NEW c \in Client
        PROVE  /\ inbox[c] \subseteq Row /\ deferred[c] \subseteq TaskRow
               /\ state[c] \notin {"task_store", "time_store"} => inbox[c] = {}
               /\ state[c] # "task_store" => deferred[c] = {}
               /\ request[c] = NoRequest \/ request[c].rows \subseteq Row
    <3>1. Phase(c)
      BY DEF SyncInv, ClientInv
    <3>2. request[c] = NoRequest \/ request[c] \in Request
      BY <2>1 DEF Shape
    <3>3. request[c] = NoRequest \/ request[c].rows \subseteq Row
      BY <3>2 DEF Request
    <3>4. QED
      BY <2>1, <3>1, <3>3 DEF Shape, Phase
  <2>3. QED
    BY <2>1, <2>2, RowsInPlace DEF Shape, SyncTypeOK
<1>2. QED
  BY <1>1, SyncInvariant, PTL

(***************************************************************************)
(* No change is forgotten: whatever a client holds, the server has it or   *)
(* something newer, or it is new enough for the next run to send it - with *)
(* failing requests, restarts, and changes made while a run is under way.  *)
(* It holds because the stamp that takes over at the end of time_store is  *)
(* the moment the run began, not the one at which it ended.                *)
(***************************************************************************)
THEOREM NoChangeForgotten == Spec => []NothingForgotten
<1>1. SyncInv => NothingForgotten
  <2> SUFFICES ASSUME SyncInv, NEW c \in Client
               PROVE  KeptSince(c) /\
                 (/\ \A t \in TaskId : tasks[c][t] # NoRow => tasks[c][t].id = t
                  /\ \A e \in EntryId : times[c][e] # NoRow => times[c][e].id = e)
    BY DEF NothingForgotten, KeptSince, Covers
  <2>1. QED
    BY RowsInPlace DEF SyncInv, ClientInv
<1>2. QED
  BY <1>1, SyncInvariant, PTL

-----------------------------------------------------------------------------
(* Timers *)

\* A version of a task stops timers of the task only, and only by removing it.
LEMMA TaskStoreTimers ==
  ASSUME Shape, NEW c \in Client, NEW row \in TaskRow, WriteTask(c, row),
         NEW e \in EntryId
  PROVE  \/ times'[c][e] = times[c][e]
         \/ /\ times[c][e].state = "running"
            /\ times'[c][e].state \in {"stopped", "deleted"}
            /\ tasks'[c][Owner[e]].deleted
<1>1. PICK outcome \in {"stopped", "deleted"} :
        times' = [times EXCEPT ![c] =
                    IF Accepts(tasks[c], row) /\ row.deleted /\ ~ tasks[c][row.id].deleted
                    THEN TimersStopped(c, row.id, outcome) ELSE @]
  BY DEF WriteTask
<1>2. times'[c] = IF Accepts(tasks[c], row) /\ row.deleted /\ ~ tasks[c][row.id].deleted
                  THEN TimersStopped(c, row.id, outcome) ELSE times[c]
  BY <1>1 DEF Shape
<1>3. CASE ~ (Accepts(tasks[c], row) /\ row.deleted /\ ~ tasks[c][row.id].deleted)
  BY <1>2, <1>3
<1>4. CASE Accepts(tasks[c], row) /\ row.deleted
  <2>1. tasks'[c][row.id] = row
    <3>1. tasks[c] \in Table(TaskId, TaskRow)
      BY RowsInPlace DEF TaskTable
    <3>2. Updated(tasks[c], row)[row.id] = row
      BY <1>4, <3>1, UpdatedTable, RowKinds
    <3>3. tasks'[c] = Updated(tasks[c], row)
      BY DEF WriteTask, Shape
    <3>4. QED
      BY <3>2, <3>3
  <2>2. CASE Owner[e] = row.id /\ times[c][e].state = "running" /\ times'[c][e] # times[c][e]
    <3>1. times'[c][e] = [times[c][e] EXCEPT !.state = outcome, !.changed = now]
      BY <1>2, <2>2 DEF TimersStopped
    <3>2. times[c][e] \in EntryRow
      BY <2>2, RowsInPlace DEF NoRow
    <3>3. times'[c][e].state = outcome
      BY <3>1, <3>2 DEF EntryRow
    <3>4. QED
      BY <1>4, <2>1, <2>2, <3>3
  <2>3. CASE ~ (Owner[e] = row.id /\ times[c][e].state = "running")
    BY <1>2, <2>3 DEF TimersStopped
  <2>4. QED
    BY <2>2, <2>3
<1>5. QED
  BY <1>3, <1>4

LEMMA EntryStoreTimers ==
  ASSUME Shape, NEW c \in Client, NEW row \in EntryRow, StoreEntry(c, row),
         NEW e \in EntryId
  PROVE  /\ times'[c][e].state = "running" => times[c][e].state = "running"
         /\ times[c][e].state = "running" =>
              times'[c][e].state \in {"running", "deleted"}
<1>1. PICK item \in EntryRow :
        /\ item.id = row.id
        /\ item.state = "running" => times[c][row.id].state = "running"
        /\ times[c][row.id].state = "running" => item.state \in {"running", "deleted"}
        /\ \A i \in EntryId : times'[c][i] = times[c][i]
                              \/ (i = row.id /\ times'[c][i] = item)
  BY StoreEntryEffect
<1>2. CASE times'[c][e] = times[c][e]
  BY <1>2
<1>3. CASE e = row.id /\ times'[c][e] = item
  BY <1>1, <1>3
<1>4. QED
  BY <1>1, <1>2, <1>3

\* While a client stores an answer, nobody else writes its tables.
LEMMA OnlyStoringWrites ==
  ASSUME SyncInv, Next, NEW c \in Client, state[c] \in {"task_store", "time_store"}
  PROVE  \/ times'[c] = times[c]
         \/ \E row \in TaskRow : WriteTask(c, row)
         \/ \E row \in EntryRow : StoreEntry(c, row)
<1> USE DEF tableVars, stampVars
<1>1. Shape /\ ClientInv(c)
  BY DEF SyncInv
<1>2. CASE Advance \/ Ended
  BY <1>2 DEF Advance, Ended, vars
<1>3. ASSUME NEW d \in Client, \A other \in Client \ {d} : ~ Storing(other),
             ServerAnswers(d) \/ RequestFails(d) \/ User(d) \/ Tick(d) \/ Process(d),
             times'[c] # times[c]
      PROVE  \/ \E row \in TaskRow : WriteTask(c, row)
             \/ \E row \in EntryRow : StoreEntry(c, row)
  <2>1. d = c
    BY <1>3 DEF Storing
  <2>2. ~ User(c)
    BY DEF User, UserTask, UserEntry, UserActs, Free
  <2>3. ~ (ServerAnswers(c) \/ RequestFails(c) \/ Process(c))
    BY <1>3 DEF ServerAnswers, RequestFails, Process, Crash, Dies, Launch
  <2>4. Tick(c)
    BY <1>3, <2>1, <2>2, <2>3
  <2>5. ~ (BeginRun(c) \/ RequestTasks(c) \/ RequestTimes(c) \/ Receive(c)
           \/ TasksStored(c) \/ RunDone(c) \/ Failed(c))
    BY <1>3 DEF BeginRun, RequestTasks, RequestTimes, Receive, TasksStored, RunDone, Failed
  <2>6. CASE \E row \in inbox[c] : StoreTask(c, row)
    <3>1. PICK row \in inbox[c] : StoreTask(c, row)
      BY <2>6
    <3>2. row \in TaskRow
      BY <1>1, <3>1 DEF StoreTask, ClientInv, Phase
    <3>3. /\ tasks[c][row.id] # NoRow
          /\ WriteTask(c, [row EXCEPT !.quiet = tasks[c][row.id].quiet])
      BY <1>3, <3>1 DEF StoreTask, CreateTask
    <3>4. tasks[c][row.id] \in TaskRow
      BY <1>1, <3>2, <3>3, RowsInPlace DEF TaskRow
    <3>5. [row EXCEPT !.quiet = tasks[c][row.id].quiet] \in TaskRow
      BY <3>2, <3>4 DEF TaskRow
    <3>6. QED
      BY <3>3, <3>5
  <2>7. CASE \E row \in inbox[c] : StoreEntry(c, row)
    BY <1>1, <2>7 DEF StoreEntry, ClientInv, Phase
  <2>8. CASE \E row \in deferred[c] : StoreDeferred(c, row)
    BY <1>1, <1>3, <2>8 DEF StoreDeferred, CreateTask, Shape
  <2>9. ~ \E row \in deferred[c] : StoreAborts(c, row)
    BY <1>3 DEF StoreAborts, Dies
  <2>10. QED
    BY <2>4, <2>5, <2>6, <2>7, <2>8, <2>9 DEF Tick
<1>4. QED
  BY <1>2, <1>3 DEF Next

(***************************************************************************)
(* Timers are a local matter: storing an answer (sync_tasks_to_database,   *)
(* sync_times_to_database) starts none, and stops one only where the entry *)
(* or its task was removed elsewhere, whatever is in the answer.           *)
(***************************************************************************)
THEOREM TimersStayLocal == Spec => TimersAreLocal
<1> DEFINE Local(c, e) ==
      state[c] \in {"task_store", "time_store"} =>
        /\ times'[c][e].state = "running" => times[c][e].state = "running"
        /\ times[c][e].state = "running" /\ times'[c][e].state # "running" =>
             times'[c][e].state = "deleted" \/ tasks'[c][Owner[e]].deleted
<1>1. ASSUME SyncInv, Next, NEW c \in Client, NEW e \in EntryId PROVE Local(c, e)
  <2>1. Shape
    BY <1>1 DEF SyncInv
  <2>2. ASSUME state[c] \in {"task_store", "time_store"} PROVE Local(c, e)
    <3>1. CASE times'[c] = times[c]
      BY <3>1
    <3>2. CASE \E row \in TaskRow : WriteTask(c, row)
      BY <2>1, <3>2, TaskStoreTimers
    <3>3. CASE \E row \in EntryRow : StoreEntry(c, row)
      BY <2>1, <3>3, EntryStoreTimers
    <3>4. QED
      BY <1>1, <2>2, <3>1, <3>2, <3>3, OnlyStoringWrites
  <2>3. QED
    BY <2>2
<1>2. SyncInv /\ [Next]_vars => [\A c \in Client, e \in EntryId : Local(c, e)]_vars
  BY <1>1
<1>3. QED
  BY <1>2, SyncInvariant, PTL DEF Spec, TimersAreLocal
=============================================================================
