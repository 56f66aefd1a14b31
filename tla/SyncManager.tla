---------------------------- MODULE SyncManager ----------------------------
(***************************************************************************)
(* sync_manager (lib/src/Sync/sync_manager.cpp): every client keeps its    *)
(* own tables of tasks and times and exchanges what was changed with a     *)
(* server, in runs of two requests: the tasks first, then the times.  A    *)
(* request carries the rows changed since the last complete run, and the   *)
(* answer the rows of the server changed since then.                       *)
(*                                                                         *)
(* The machine takes a step each second in the main loop; the user works   *)
(* between the steps, and while the answer is under way.  An answer is     *)
(* stored row by row, each row in a statement that commits by itself, so a *)
(* crash leaves any part of it behind.  The stamps of the runs live only   *)
(* in memory: a new process begins with a full run.                        *)
(*                                                                         *)
(* The server is not in this repository.  It is modelled as the code uses  *)
(* it: it keeps the newest version of a row and answers with the versions  *)
(* stamped at or after the moment in the URL.                              *)
(***************************************************************************)
EXTENDS Integers, FiniteSets

CONSTANTS
  Client,        \* programs that use one account of the server
  TaskId, EntryId,
  NoTask,        \* the parent of a task at the top
  Owner,         \* Owner[e]: the task of entry e, which no update rewrites
  Known,         \* tasks everybody has when a behaviour begins
  SyncInterval,  \* the setting SyncInterval
  FullInterval,  \* 24 hours
  MaxTime,       \* bound: the last moment of a behaviour
  Horizon,       \* bound: the last moment something is changed or fails
  Scenarios      \* bound: sets of kinds of changes that happen together

ASSUME SyncAssumption ==
  /\ NoTask \notin TaskId
  /\ Owner \in [EntryId -> TaskId]
  /\ Known \subseteq TaskId
  /\ SyncInterval \in Nat /\ FullInterval \in Nat
  /\ MaxTime \in Nat /\ Horizon \in Nat
  /\ Scenarios \subseteq SUBSET {"create", "remove", "quiet", "move", "times",
                                "crash", "fail"}

VARIABLES
  now,                              \* the wall clock, the same everywhere
  state,                            \* state[c]: the machine of a client
  nextSync, nextFullSync,           \* when a run is due
  lastSync, currentSync,            \* the stamps of the runs
  request,                          \* outstanding_request and its answer
  inbox, deferred,                  \* rows still to store
  tasks, times,                     \* the tables of the clients
  serverTasks, serverTimes,         \* the tables of the server
  edits                             \* what may happen: one of Scenarios

stampVars == <<nextSync, nextFullSync, lastSync, currentSync>>
tableVars == <<tasks, times>>
serverVars == <<serverTasks, serverTimes>>
vars == <<now, state, stampVars, request, inbox, deferred, tableVars, serverVars, edits>>

EntryState == {"stopped", "running", "deleted"}

\* Name and idle time of a task behave as its parent and its quiet mode do.
\* Of the time of an entry only matters whether it is more than a minute; a
\* paused entry is as good as a stopped one.
TaskRow ==
  [id : TaskId, parent : TaskId \cup {NoTask}, deleted : BOOLEAN,
   quiet : BOOLEAN, changed : Nat]
EntryRow ==
  [id : EntryId, state : EntryState, long : BOOLEAN, changed : Nat]
Row == TaskRow \cup EntryRow
NoRow == [state |-> "none"]

SyncState ==
  {"down", "idle", "task_request", "task_wait", "task_store",
   "time_request", "time_wait", "time_store", "fail"}

NoRequest == [status |-> "none"]
SyncTypeOK ==
  /\ now \in Nat
  /\ state \in [Client -> SyncState]
  /\ nextSync \in [Client -> Nat] /\ nextFullSync \in [Client -> Nat]
  /\ lastSync \in [Client -> Nat] /\ currentSync \in [Client -> Nat]
  /\ \A c \in Client :
       /\ inbox[c] \subseteq Row /\ deferred[c] \subseteq TaskRow
       /\ state[c] \notin {"task_store", "time_store"} => inbox[c] = {}
       /\ state[c] # "task_store" => deferred[c] = {}
       /\ request[c] = NoRequest \/ request[c].rows \subseteq Row
       /\ \A t \in TaskId : tasks[c][t] # NoRow => tasks[c][t] \in TaskRow /\ tasks[c][t].id = t
       /\ \A e \in EntryId : times[c][e] # NoRow => times[c][e] \in EntryRow /\ times[c][e].id = e

-----------------------------------------------------------------------------
(* Tables *)

\* Mutant of Accepts: of two versions of one second the first stays.
AcceptsNewer(table, row) ==
  /\ table[row.id] # NoRow
  /\ row # table[row.id]
  /\ row.changed > table[row.id].changed

\* task_accessor::update and time_accessor::update: a version is written
\* over one that is not newer.
Accepts(table, row) ==
  /\ table[row.id] # NoRow
  /\ row # table[row.id]
  /\ row.changed >= table[row.id].changed

Updated(table, row) ==
  IF Accepts(table, row) THEN [table EXCEPT ![row.id] = row] ELSE table

RowsOf(table) == {table[i] : i \in {j \in DOMAIN table : table[j] # NoRow}}

\* The server keeps the newest version of a row.
Merged(table, rows) ==
  [i \in DOMAIN table |->
     IF \E r \in rows : r.id = i /\ (table[i] = NoRow \/ r.changed > table[i].changed)
     THEN CHOOSE r \in rows : r.id = i
     ELSE table[i]]

-----------------------------------------------------------------------------
(* Helpers *)

\* A client is not in the middle of a handler.
Free(c) == state[c] \notin {"down", "task_store", "time_store"}

\* Bound: the user changes nothing after Horizon.
UserActs(c) == Free(c) /\ now <= Horizon

Goto(c, s) == state' = [state EXCEPT ![c] = s]

(***************************************************************************)
(* on_task_removed: the keeper stops the timers of a task that is marked   *)
(* deleted, with the versions of this moment; an entry too short for the   *)
(* zero time is deleted.                                                   *)
(***************************************************************************)
TimersStopped(c, t, outcome) ==
  [e \in EntryId |->
     IF Owner[e] = t /\ times[c][e].state = "running"
     THEN [times[c][e] EXCEPT !.state = outcome, !.changed = now]
     ELSE times[c][e]]

\* A version of a task is written, and its removal noticed.
WriteTask(c, row) ==
  /\ tasks' = [tasks EXCEPT ![c] = Updated(@, row)]
  /\ \E outcome \in {"stopped", "deleted"} :
       times' = [times EXCEPT ![c] =
                   IF Accepts(tasks[c], row) /\ row.deleted /\ ~ tasks[c][row.id].deleted
                   THEN TimersStopped(c, row.id, outcome) ELSE @]

CreateTask(c, row) ==
  /\ tasks' = [tasks EXCEPT ![c][row.id] = row]
  /\ UNCHANGED times

\* The parent of a row is in the table; if it is not, its old id is 0 and
\* the foreign key refuses the statement.
ParentKnown(c, row) == row.parent # NoTask => tasks[c][row.parent] # NoRow

-----------------------------------------------------------------------------
(* The environment *)

\* Something is due at a client before the clock moves on.
Busy(c) ==
  \/ state[c] = "down"
  \/ state[c] = "idle" /\ (now > nextSync[c] \/ now > nextFullSync[c])
  \/ state[c] = "task_request" /\ now > currentSync[c]
  \/ state[c] \notin {"down", "idle", "task_request"}

\* After Horizon the programs run and the network is quick: a run takes less
\* time than the clock's step.  Before, a request may take any time.
Advance ==
  /\ now < MaxTime
  /\ now > Horizon => \A c \in Client : ~ Busy(c)
  /\ now' = now + 1
  /\ UNCHANGED <<state, stampVars, request, inbox, deferred, tableVars, serverVars>>

\* Bound: a behaviour ends at MaxTime.
Ended == now = MaxTime /\ UNCHANGED vars

\* The request reaches the server, and the answer the client.
ServerAnswers(c) ==
  /\ request[c].status = "sent"
  /\ serverTasks' = Merged(serverTasks, request[c].rows \cap TaskRow)
  /\ serverTimes' = Merged(serverTimes, request[c].rows \cap EntryRow)
  /\ LET table == IF state[c] = "task_wait" THEN serverTasks' ELSE serverTimes'
         newer == {row \in RowsOf(table) : row.changed >= request[c].since} IN
     request' = [request EXCEPT ![c].status = "answered", ![c].rows = newer]
  /\ UNCHANGED <<now, state, stampVars, inbox, deferred, tableVars>>

\* The request fails, before or after the server has stored the rows.
RequestFails(c) ==
  /\ "fail" \in edits /\ now <= Horizon
  /\ request[c].status = "sent"
  /\ request' = [request EXCEPT ![c].status = "failed", ![c].rows = {}]
  /\ \/ /\ serverTasks' = Merged(serverTasks, request[c].rows \cap TaskRow)
        /\ serverTimes' = Merged(serverTimes, request[c].rows \cap EntryRow)
     \/ UNCHANGED serverVars
  /\ UNCHANGED <<now, state, stampVars, inbox, deferred, tableVars>>

-----------------------------------------------------------------------------
(* The users *)

Unsynced == UNCHANGED <<now, state, stampVars, request, inbox, deferred, serverVars>>

\* A task or an entry with a new id that nobody else knows.
New(i) ==
  /\ \A d \in Client : IF i \in TaskId THEN tasks[d][i] = NoRow ELSE times[d][i] = NoRow
  /\ IF i \in TaskId THEN serverTasks[i] = NoRow ELSE serverTimes[i] = NoRow
  /\ \A d \in Client : request[d] # NoRequest => \A row \in request[d].rows : row.id # i

\* The task dialogs and the task list: only tasks that are not removed can
\* be edited, removed or chosen as a parent.
UserTask(c, t) ==
  /\ UserActs(c)
  /\ LET mine == tasks[c][t]
         Chosen == {p \in TaskId \ {t} : tasks[c][p] # NoRow /\ ~ tasks[c][p].deleted} IN
     \/ /\ "create" \in edits /\ New(t)
        /\ \E parent \in Chosen \cup {NoTask} :
             CreateTask(c, [id |-> t, parent |-> parent, deleted |-> FALSE,
                            quiet |-> FALSE, changed |-> now])
     \/ /\ mine # NoRow /\ ~ mine.deleted
        /\ \/ /\ "remove" \in edits
              /\ WriteTask(c, [mine EXCEPT !.deleted = TRUE, !.changed = now])
           \/ /\ "quiet" \in edits
              /\ WriteTask(c, [mine EXCEPT !.quiet = ~ @, !.changed = now])
           \/ /\ "move" \in edits
              /\ \E parent \in (Chosen \cup {NoTask}) \ {mine.parent} :
                   WriteTask(c, [mine EXCEPT !.parent = parent, !.changed = now])
  /\ Unsynced

\* The keeper and the dialogs of the client write an entry.
UserEntry(c, e) ==
  /\ UserActs(c) /\ "times" \in edits
  /\ tasks[c][Owner[e]] # NoRow
  /\ \E s \in EntryState, long \in BOOLEAN :
       LET row == [id |-> e, state |-> s, long |-> long, changed |-> now] IN
       /\ times[c][e] = NoRow => New(e) /\ s \in {"running", "stopped"}
       /\ times' = [times EXCEPT ![c] =
                      IF @[e] = NoRow THEN [@ EXCEPT ![e] = row] ELSE Updated(@, row)]
  /\ UNCHANGED tasks
  /\ Unsynced

-----------------------------------------------------------------------------
(* on_signal_1_second *)

\* Mutant of BeginRun: the daily run asks for what is new only.
BeginRunAlways(c) ==
  /\ state[c] = "idle"
  /\ nextFullSync' = [nextFullSync EXCEPT ![c] =
                        IF now > @ THEN now + FullInterval ELSE @]
  /\ Goto(c, IF now > nextSync[c] THEN "task_request" ELSE "idle")
  /\ currentSync' = [currentSync EXCEPT ![c] = IF now > nextSync[c] THEN now ELSE @]
  /\ nextSync' = [nextSync EXCEPT ![c] = IF now > @ THEN now + SyncInterval ELSE @]
  /\ UNCHANGED <<now, lastSync, request, inbox, deferred, tableVars, serverVars>>

\* idle: once a day everything is asked for again.  Nothing changes when
\* nothing is due.
BeginRun(c) ==
  /\ state[c] = "idle"
  /\ nextFullSync' = [nextFullSync EXCEPT ![c] =
                        IF now > @ THEN now + FullInterval ELSE @]
  /\ lastSync' = [lastSync EXCEPT ![c] = IF now > nextFullSync[c] THEN 0 ELSE @]
  /\ Goto(c, IF now > nextSync[c] THEN "task_request" ELSE "idle")
  /\ currentSync' = [currentSync EXCEPT ![c] = IF now > nextSync[c] THEN now ELSE @]
  /\ nextSync' = [nextSync EXCEPT ![c] = IF now > @ THEN now + SyncInterval ELSE @]
  /\ UNCHANGED <<now, request, inbox, deferred, tableVars, serverVars>>

Send(c, rows) ==
  request' = [request EXCEPT ![c] =
    [status |-> "sent", since |-> lastSync[c], rows |-> rows]]

\* task_request.  Two steps of the machine are a second apart, so the stamp
\* of the run is in the past.
RequestTasks(c) ==
  /\ state[c] = "task_request" /\ now > currentSync[c]
  /\ Send(c, {row \in RowsOf(tasks[c]) : row.changed > lastSync[c]})
  /\ Goto(c, "task_wait")
  /\ UNCHANGED <<now, stampVars, inbox, deferred, tableVars, serverVars>>

RequestTimes(c) ==
  /\ state[c] = "time_request"
  /\ Send(c, {row \in RowsOf(times[c]) : row.changed >= lastSync[c]})
  /\ Goto(c, "time_wait")
  /\ UNCHANGED <<now, stampVars, inbox, deferred, tableVars, serverVars>>

\* wait, and the beginning of the handler that stores the answer.
Receive(c) ==
  /\ state[c] \in {"task_wait", "time_wait"}
  /\ \/ /\ request[c].status = "answered"
        /\ Goto(c, IF state[c] = "task_wait" THEN "task_store" ELSE "time_store")
        /\ inbox' = [inbox EXCEPT ![c] = request[c].rows]
     \/ /\ request[c].status = "failed"
        /\ Goto(c, "fail")
        /\ UNCHANGED inbox
  /\ request' = [request EXCEPT ![c] = NoRequest]
  /\ UNCHANGED <<now, stampVars, deferred, tableVars, serverVars>>

\* sync_tasks_to_database: the quiet mode of a task is kept locally; a task
\* whose parent has not arrived yet is deferred.
StoreTask(c, row) ==
  /\ state[c] = "task_store" /\ row \in inbox[c]
  /\ inbox' = [inbox EXCEPT ![c] = @ \ {row}]
  /\ IF ParentKnown(c, row)
     THEN /\ \/ /\ tasks[c][row.id] # NoRow
                /\ WriteTask(c, [row EXCEPT !.quiet = tasks[c][row.id].quiet])
             \/ /\ tasks[c][row.id] = NoRow /\ ~ row.deleted
                /\ CreateTask(c, row)
             \/ /\ tasks[c][row.id] = NoRow /\ row.deleted
                /\ UNCHANGED tableVars
          /\ UNCHANGED deferred
     ELSE /\ deferred' = [deferred EXCEPT ![c] = @ \cup {row}]
          /\ UNCHANGED tableVars
  /\ UNCHANGED <<now, state, stampVars, request, serverVars>>

\* The second loop, which trusts that the parents have arrived.
StoreDeferred(c, row) ==
  /\ state[c] = "task_store" /\ inbox[c] = {} /\ row \in deferred[c]
  /\ ParentKnown(c, row)
  /\ deferred' = [deferred EXCEPT ![c] = @ \ {row}]
  /\ IF tasks[c][row.id] # NoRow THEN WriteTask(c, row) ELSE CreateTask(c, row)
  /\ UNCHANGED <<now, state, stampVars, request, inbox, serverVars>>

TasksStored(c) ==
  /\ state[c] = "task_store" /\ inbox[c] = {} /\ deferred[c] = {}
  /\ Goto(c, "time_request")
  /\ UNCHANGED <<now, stampVars, request, inbox, deferred, tableVars, serverVars>>

\* Mutant of StoreEntry: the state comes from the server, too.
StoreEntryAsSent(c, row) ==
  /\ state[c] = "time_store" /\ row \in inbox[c]
  /\ inbox' = [inbox EXCEPT ![c] = @ \ {row}]
  /\ times' = [times EXCEPT ![c] =
       IF @[row.id] # NoRow THEN Updated(@, row)
       ELSE IF tasks[c][Owner[row.id]] # NoRow /\ row.state # "deleted" /\ row.long
       THEN [@ EXCEPT ![row.id] = row] ELSE @]
  /\ UNCHANGED <<now, state, stampVars, request, deferred, tasks, serverVars>>

\* sync_times_to_database: a timer runs where it was started, and only a
\* removal ends it; rows of unknown tasks and short new ones are left out.
StoreEntry(c, row) ==
  /\ state[c] = "time_store" /\ row \in inbox[c]
  /\ inbox' = [inbox EXCEPT ![c] = @ \ {row}]
  /\ LET mine == times[c][row.id]
         item == [row EXCEPT !.state =
                    IF row.state = "deleted" THEN "deleted"
                    ELSE IF mine.state = "running" THEN "running" ELSE "stopped"] IN
     times' = [times EXCEPT ![c] =
       IF tasks[c][Owner[row.id]] = NoRow THEN @
       ELSE IF mine # NoRow THEN Updated(@, item)
       ELSE IF item.state # "deleted" /\ item.long THEN [@ EXCEPT ![row.id] = item]
       ELSE @]
  /\ UNCHANGED <<now, state, stampVars, request, deferred, tasks, serverVars>>

\* Mutant of RunDone: the next run begins where this one ended.
RunDoneNow(c) ==
  /\ state[c] = "time_store" /\ inbox[c] = {}
  /\ Goto(c, "idle")
  /\ nextSync' = [nextSync EXCEPT ![c] = currentSync[c] + SyncInterval]
  /\ lastSync' = [lastSync EXCEPT ![c] = now]
  /\ UNCHANGED <<now, nextFullSync, currentSync, request, inbox, deferred,
                 tableVars, serverVars>>

\* The end of time_store
RunDone(c) ==
  /\ state[c] = "time_store" /\ inbox[c] = {}
  /\ Goto(c, "idle")
  /\ nextSync' = [nextSync EXCEPT ![c] = currentSync[c] + SyncInterval]
  /\ lastSync' = [lastSync EXCEPT ![c] = currentSync[c]]
  /\ UNCHANGED <<now, nextFullSync, currentSync, request, inbox, deferred,
                 tableVars, serverVars>>

\* fail
Failed(c) ==
  /\ state[c] = "fail"
  /\ Goto(c, "idle")
  /\ nextSync' = [nextSync EXCEPT ![c] = currentSync[c] + SyncInterval]
  /\ UNCHANGED <<now, nextFullSync, lastSync, currentSync, request, inbox,
                 deferred, tableVars, serverVars>>

-----------------------------------------------------------------------------
(* Process life *)

\* The stamps live in memory only.
StampsGone(c) ==
  /\ nextSync' = [nextSync EXCEPT ![c] = 0]
  /\ nextFullSync' = [nextFullSync EXCEPT ![c] = 0]
  /\ lastSync' = [lastSync EXCEPT ![c] = 0]
  /\ currentSync' = [currentSync EXCEPT ![c] = 0]

\* Mutant of Dies: the rows still to store stay.
DiesUntidy(c) ==
  /\ Goto(c, "down")
  /\ request' = [request EXCEPT ![c] = NoRequest]
  /\ StampsGone(c)
  /\ UNCHANGED <<now, inbox, deferred, tableVars, serverVars>>

Dies(c) ==
  /\ Goto(c, "down")
  /\ request' = [request EXCEPT ![c] = NoRequest]
  /\ inbox' = [inbox EXCEPT ![c] = {}]
  /\ deferred' = [deferred EXCEPT ![c] = {}]
  /\ StampsGone(c)
  /\ UNCHANGED <<now, tableVars, serverVars>>

Crash(c) == "crash" \in edits /\ now <= Horizon /\ state[c] # "down" /\ Dies(c)

\* The foreign key refuses a deferred task: nobody catches the exception.
StoreAborts(c, row) ==
  /\ state[c] = "task_store" /\ inbox[c] = {} /\ row \in deferred[c]
  /\ ~ ParentKnown(c, row)
  /\ Dies(c)

\* remove_short_time_spans, and a sync_manager whose stamps are still 0.
Launch(c) ==
  /\ state[c] = "down"
  /\ Goto(c, "idle")
  /\ times' = [times EXCEPT ![c] =
       [e \in EntryId |-> IF @[e] # NoRow /\ ~ @[e].long THEN NoRow ELSE @[e]]]
  /\ UNCHANGED <<now, stampVars, request, inbox, deferred, tasks, serverVars>>

-----------------------------------------------------------------------------
KnownTasks ==
  [t \in TaskId |->
     IF t \in Known
     THEN [id |-> t, parent |-> NoTask, deleted |-> FALSE, quiet |-> FALSE, changed |-> 0]
     ELSE NoRow]

Init ==
  /\ now = 1 /\ edits \in Scenarios
  /\ state = [c \in Client |-> "idle"]
  /\ nextSync = [c \in Client |-> 0] /\ nextFullSync = [c \in Client |-> 0]
  /\ lastSync = [c \in Client |-> 0] /\ currentSync = [c \in Client |-> 0]
  /\ request = [c \in Client |-> NoRequest]
  /\ inbox = [c \in Client |-> {}] /\ deferred = [c \in Client |-> {}]
  /\ tasks = [c \in Client |-> KnownTasks]
  /\ times = [c \in Client |-> [e \in EntryId |-> NoRow]]
  /\ serverTasks = KnownTasks
  /\ serverTimes = [e \in EntryId |-> NoRow]

\* Bound: while one client stores an answer, the others wait.  Their tables
\* have nothing in common, so the order of their statements is all the same.
Storing(c) == state[c] \in {"task_store", "time_store"}

User(c) == (\E t \in TaskId : UserTask(c, t)) \/ (\E e \in EntryId : UserEntry(c, e))

Tick(c) ==
  \/ BeginRun(c) \/ RequestTasks(c) \/ RequestTimes(c) \/ Receive(c)
  \/ \E row \in inbox[c] : StoreTask(c, row) \/ StoreEntry(c, row)
  \/ \E row \in deferred[c] : StoreDeferred(c, row) \/ StoreAborts(c, row)
  \/ TasksStored(c) \/ RunDone(c) \/ Failed(c)

Process(c) == Crash(c) \/ Launch(c)

Next ==
  /\ \/ Advance \/ Ended
     \/ \E c \in Client :
          /\ \A d \in Client \ {c} : ~ Storing(d)
          /\ ServerAnswers(c) \/ RequestFails(c) \/ User(c) \/ Tick(c) \/ Process(c)
  /\ UNCHANGED edits

Spec == Init /\ [][Next]_vars

-----------------------------------------------------------------------------
(* Safety *)

(***************************************************************************)
(* No change is forgotten: whatever version a client holds, the server has *)
(* it or a newer one, or the next run will send it.  Runs that fail after  *)
(* the server stored the rows, changes made while an answer is under way   *)
(* and restarts do not break it.                                           *)
(***************************************************************************)
NothingForgotten ==
  \A c \in Client : state[c] # "down" =>
    /\ \A t \in TaskId : tasks[c][t] # NoRow =>
         \/ tasks[c][t].changed > lastSync[c]
         \/ serverTasks[t] # NoRow /\ serverTasks[t].changed >= tasks[c][t].changed
    /\ \A e \in EntryId : times[c][e] # NoRow =>
         \/ times[c][e].changed >= lastSync[c]
         \/ serverTimes[e] # NoRow /\ serverTimes[e].changed >= times[c][e].changed

(***************************************************************************)
(* Timers are a local matter: storing an answer starts no timer, and stops *)
(* one only where the entry or its task was removed elsewhere.             *)
(***************************************************************************)
TimersAreLocal ==
  [][\A c \in Client, e \in EntryId :
       LET was == times[c][e].state
           is == times'[c][e].state IN
       state[c] \in {"task_store", "time_store"} =>
         /\ is = "running" => was = "running"
         /\ was = "running" /\ is # "running" =>
              is = "deleted" \/ tasks'[c][Owner[e]].deleted]_vars

(***************************************************************************)
(* Convergence: when nothing was changed and nothing failed for a day and  *)
(* two intervals, every client has what the server has, apart from what    *)
(* storing leaves out (short and deleted entries, entries of tasks that    *)
(* were removed before the client saw them) and the state of local timers. *)
(***************************************************************************)
SameTask(mine, theirs) ==
  IF mine = NoRow THEN theirs = NoRow \/ theirs.deleted
  ELSE theirs # NoRow /\ [mine EXCEPT !.quiet = theirs.quiet] = theirs

SameEntry(mine, theirs, owner) ==
  IF mine = NoRow
  THEN theirs = NoRow \/ theirs.state = "deleted" \/ ~ theirs.long \/ owner = NoRow
  ELSE /\ theirs # NoRow
       /\ mine.changed = theirs.changed /\ mine.long = theirs.long
       /\ (mine.state = "deleted") = (theirs.state = "deleted")

Settled ==
  /\ now > Horizon + FullInterval + 2 * SyncInterval + 2
  /\ \A c \in Client : ~ Busy(c) /\ state[c] = "idle"

ConvergedAfterADay ==
  Settled =>
    \A c \in Client :
      /\ \A t \in TaskId : SameTask(tasks[c][t], serverTasks[t])
      /\ \A e \in EntryId : SameEntry(times[c][e], serverTimes[e], tasks[c][Owner[e]])

(***************************************************************************)
(* "Update tasks that had missing parent earlier" (sync_manager.cpp:193):  *)
(* when the tasks that came in good order are stored, the parents of the   *)
(* deferred ones are there.                                                *)
(***************************************************************************)
DeferredFindParents ==
  \A c \in Client : \A row \in deferred[c] : inbox[c] = {} => ParentKnown(c, row)
=============================================================================
