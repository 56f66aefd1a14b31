----------------------------- MODULE DbUpdater -----------------------------
(***************************************************************************)
(* Opening the database (lib/src/DB/database.cpp) and bringing an old one  *)
(* to the tables of today (lib/src/DB/db_updater.cpp).  Every statement    *)
(* commits by itself, so a process that dies leaves a prefix of them       *)
(* behind, and the next one begins again at the first.                     *)
(*                                                                         *)
(* A step is the next statement; statements that may be repeated without   *)
(* an effect share a step.                                                 *)
(***************************************************************************)
EXTENDS Integers, FiniteSets

CONSTANTS
  TaskId, EntryId,
  Null, Zero,    \* two ways to say that there is no task
  Short,         \* entries shorter than a minute
  OldDatabases   \* what a behaviour may begin with: a version and two tables

VARIABLES
  version,                    \* dbversion or db_version in the file
  tasks, tasksBackup,         \* tables
  times, timesBackup,
  views,                      \* the table the views read the tasks from
  step,                       \* the next statement of the open database
  todo,                       \* rows of the backup still to copy
  old,                        \* history: what the old database held
  cut                         \* history: windows in which a process died

tableVars == <<version, tasks, tasksBackup, times, timesBackup, views>>
dbVars == <<tableVars, step, todo, old, cut>>

\* A table is its columns, as far as they tell the versions apart, and rows.
NoTable == [columns |-> {}, rows |-> {}]

TaskRow == [id : TaskId, parent : TaskId \cup {Null, Zero}, deleted : BOOLEAN]

\* entry names the recorded time, which keeps its owner, start and stop.
TimeRow ==
  [id : Nat, entry : EntryId, owner : TaskId \cup {Zero}, running : BOOLEAN,
   deleted : BOOLEAN, state : {"stopped", "running", "deleted"}]

\* Ids and names of entries are unique in an old database, and it has no state.
ASSUME DbAssumption ==
  /\ Null \notin TaskId /\ Zero \notin TaskId /\ Null # Zero
  /\ Short \subseteq EntryId
  /\ \A db \in OldDatabases :
       /\ db.version \in {4, 5}
       /\ db.tasks \subseteq TaskRow
       /\ db.times \subseteq TimeRow /\ IsFiniteSet(db.times)
       /\ \A row \in db.times : row.state = "stopped"
       /\ \A r, s \in db.times : r.entry = s.entry => r = s

TaskColumn == {"id", "uuid", "idle", "quiet"}
TimeColumn == {"id", "uuid", "state", "comment"}

Step ==
  {"closed", "open", "rename_tasks", "create_tasks", "copy_tasks",
   "clean_times", "rename_times", "create_times", "copy_times", "add_idle",
   "add_quiet", "add_state", "mark_running", "mark_deleted", "add_comment",
   "create_views", "finish", "prepare", "done", "failed"}

\* SQLite lets the views follow a table that is renamed; they are "lost" when
\* it is dropped, and then no table they read can be renamed any more.
ViewState == {"none", "tasks", "tasks_backup", "lost"}

DbTypeOK ==
  /\ version \in {4, 5} /\ step \in Step /\ views \in ViewState
  /\ \A table \in {tasks, tasksBackup} :
       table.columns \subseteq TaskColumn /\ table.rows \subseteq TaskRow
  /\ \A table \in {times, timesBackup} :
       table.columns \subseteq TimeColumn /\ table.rows \subseteq TimeRow
  /\ \A table \in {tasks, tasksBackup, times, timesBackup} :
       table.rows # {} => "id" \in table.columns
  /\ step \notin {"copy_tasks", "copy_times"} => todo = {}

At(s) == step = s
Then(s) == step' = s

-----------------------------------------------------------------------------
(* The constructor of database up to the upgrade *)

\* find_db_version; create_table of what is missing.
Open ==
  /\ At("open")
  /\ tasks' = IF tasks = NoTable THEN [columns |-> TaskColumn, rows |-> {}] ELSE tasks
  /\ times' = IF times = NoTable THEN [columns |-> TimeColumn, rows |-> {}] ELSE times
  /\ Then(IF version < 5 THEN "rename_tasks" ELSE "add_idle")
  /\ UNCHANGED <<version, tasksBackup, timesBackup, views, todo, old, cut>>

-----------------------------------------------------------------------------
(* update_tasks_to_db_5 *)

RenameTasks ==
  /\ At("rename_tasks")
  /\ IF tasksBackup = NoTable /\ views # "lost"
     THEN /\ tasksBackup' = tasks /\ tasks' = NoTable
          /\ views' = IF views = "tasks" THEN "tasks_backup" ELSE views
          /\ Then("create_tasks")
     ELSE /\ Then("failed")
          /\ UNCHANGED <<tasks, tasksBackup, views>>
  /\ UNCHANGED <<version, times, timesBackup, todo, old, cut>>

\* The new table; UPDATE tasks_backup SET parent = NULL WHERE parent = 0.
CreateTasks ==
  /\ At("create_tasks")
  /\ tasks' = [columns |-> {"id", "uuid"}, rows |-> {}]
  /\ tasksBackup' = [tasksBackup EXCEPT !.rows =
       {IF row.parent = Zero THEN [row EXCEPT !.parent = Null] ELSE row : row \in @}]
  /\ todo' = tasksBackup'.rows
  /\ Then("copy_tasks")
  /\ UNCHANGED <<version, times, timesBackup, views, old, cut>>

\* Mutant of CopyTask: the copy has no parent.
CopyTaskAlone(row) ==
  /\ At("copy_tasks") /\ row \in todo
  /\ tasks' = [tasks EXCEPT !.rows = @ \cup
       {[row EXCEPT !.parent = Zero, !.deleted = FALSE]}]
  /\ todo' = todo \ {row}
  /\ UNCHANGED <<version, tasksBackup, times, timesBackup, views, step, old, cut>>

\* create_task_v_5 has five parameters and writes 0 into deleted, so the
\* seventh value that is bound has no effect.
CopyTask(row) ==
  /\ At("copy_tasks") /\ row \in todo
  /\ tasks' = [tasks EXCEPT !.rows = @ \cup
       {[row EXCEPT !.parent = IF @ = Null THEN Zero ELSE @, !.deleted = FALSE]}]
  /\ todo' = todo \ {row}
  /\ UNCHANGED <<version, tasksBackup, times, timesBackup, views, step, old, cut>>

\* Mutant of DropTasks: the backup stays.
DropTasksNot ==
  /\ At("copy_tasks") /\ todo = {}
  /\ Then("clean_times")
  /\ UNCHANGED <<tableVars, todo, old, cut>>

DropTasks ==
  /\ At("copy_tasks") /\ todo = {}
  /\ tasksBackup' = NoTable
  /\ views' = IF views = "tasks_backup" THEN "lost" ELSE views
  /\ Then("clean_times")
  /\ UNCHANGED <<version, tasks, times, timesBackup, todo, old, cut>>

-----------------------------------------------------------------------------
(* update_times_to_db_5 *)

\* Times of no task are deleted, and a backup that was left is dropped.
CleanTimes ==
  /\ At("clean_times")
  /\ times' = [times EXCEPT !.rows = {row \in @ : row.owner # Zero}]
  /\ timesBackup' = NoTable
  /\ Then("rename_times")
  /\ UNCHANGED <<version, tasks, tasksBackup, views, todo, old, cut>>

RenameTimes ==
  /\ At("rename_times")
  /\ IF views # "lost"
     THEN /\ timesBackup' = times /\ times' = NoTable
          /\ Then("create_times")
     ELSE /\ Then("failed")
          /\ UNCHANGED <<times, timesBackup>>
  /\ UNCHANGED <<version, tasks, tasksBackup, views, todo, old, cut>>

CreateTimes ==
  /\ At("create_times")
  /\ times' = [columns |-> {"id", "uuid"}, rows |-> {}]
  /\ todo' = timesBackup.rows
  /\ Then("copy_times")
  /\ UNCHANGED <<version, tasks, tasksBackup, timesBackup, views, old, cut>>

CopyTime(row) ==
  /\ At("copy_times") /\ row \in todo
  /\ times' = [times EXCEPT !.rows = @ \cup
       {[row EXCEPT !.id = Cardinality(times.rows) + 1,
                    !.running = FALSE, !.deleted = FALSE]}]
  /\ todo' = todo \ {row}
  /\ UNCHANGED <<version, tasks, tasksBackup, timesBackup, views, step, old, cut>>

\* Mutant of DropTimes: the copy ends at the first row.
DropTimesEarly ==
  /\ At("copy_times")
  /\ timesBackup' = NoTable /\ todo' = {}
  /\ Then("add_idle")
  /\ UNCHANGED <<version, tasks, tasksBackup, times, views, old, cut>>

DropTimes ==
  /\ At("copy_times") /\ todo = {}
  /\ timesBackup' = NoTable
  /\ Then("add_idle")
  /\ UNCHANGED <<version, tasks, tasksBackup, times, views, todo, old, cut>>

-----------------------------------------------------------------------------
(* upgrade_to_db_6 *)

Kept == UNCHANGED <<version, tasksBackup, timesBackup, views, todo, old, cut>>

With(table, column) == [table EXCEPT !.columns = @ \cup {column}]

\* One test stands before both columns.
AddIdle ==
  /\ At("add_idle")
  /\ tasks' = With(tasks, "idle")
  /\ Then(IF "idle" \in tasks.columns THEN "add_state" ELSE "add_quiet")
  /\ UNCHANGED times /\ Kept

AddQuiet ==
  /\ At("add_quiet")
  /\ tasks' = With(tasks, "quiet")
  /\ Then("add_state")
  /\ UNCHANGED times /\ Kept

\* The new column is 0, stopped, and two updates follow.
AddState ==
  /\ At("add_state")
  /\ times' = With(times, "state")
  /\ Then(IF "state" \in times.columns THEN "add_comment" ELSE "mark_running")
  /\ UNCHANGED tasks /\ Kept

Marked(field, s) ==
  [times EXCEPT !.rows = {IF row[field] THEN [row EXCEPT !.state = s] ELSE row : row \in @}]

MarkRunning ==
  /\ At("mark_running")
  /\ times' = Marked("running", "running")
  /\ Then("mark_deleted")
  /\ UNCHANGED tasks /\ Kept

\* Mutant of MarkDeleted: the second update is missing.
MarkDeletedNot ==
  /\ At("mark_deleted")
  /\ Then("add_comment")
  /\ UNCHANGED <<tasks, times>> /\ Kept

MarkDeleted ==
  /\ At("mark_deleted")
  /\ times' = Marked("deleted", "deleted")
  /\ Then("add_comment")
  /\ UNCHANGED tasks /\ Kept

AddComment ==
  /\ At("add_comment")
  /\ times' = With(times, "comment")
  /\ Then("create_views")
  /\ UNCHANGED tasks /\ Kept

-----------------------------------------------------------------------------
(* The rest of the constructor *)

\* The setup of the accessors drops the views and creates them anew.
CreateViews ==
  /\ At("create_views")
  /\ views' = "tasks"
  /\ Then("finish")
  /\ UNCHANGED <<version, tasks, tasksBackup, times, timesBackup, todo, old, cut>>

\* A transaction writes the version and drops parameters; afterwards
\* remove_short_time_spans, which every launch repeats.
Finish ==
  /\ At("finish")
  /\ version' = 5
  /\ times' = [times EXCEPT !.rows = {row \in @ : row.entry \notin Short}]
  /\ Then("prepare")
  /\ UNCHANGED <<tasks, tasksBackup, timesBackup, views, todo, old, cut>>

\* The accessors of the program prepare statements with all columns.
Prepare ==
  /\ At("prepare")
  /\ Then(IF tasks.columns = TaskColumn /\ times.columns = TimeColumn
          THEN "done" ELSE "failed")
  /\ UNCHANGED <<tasks, times>> /\ Kept

\* The windows in which a crash does harm
Window ==
  CASE step = "create_tasks" \/ step = "copy_tasks" -> {"tasks"}
    [] step = "create_times" \/ (step = "copy_times" /\ todo # {}) -> {"times"}
    [] step = "add_quiet" -> {"columns"}
    [] step \in {"mark_running", "mark_deleted"} -> {"states"}
    [] step = "finish" /\ version = 4 -> {"views"}
    [] OTHER -> {}

\* The process ends.
Close ==
  /\ Then("closed") /\ todo' = {}
  /\ cut' = cut \cup Window
  /\ UNCHANGED <<tableVars, old>>

Statement ==
  \/ Open \/ RenameTasks \/ CreateTasks \/ DropTasks
  \/ CleanTimes \/ RenameTimes \/ CreateTimes \/ DropTimes
  \/ \E row \in todo : CopyTask(row) \/ CopyTime(row)
  \/ AddIdle \/ AddQuiet \/ AddState \/ MarkRunning \/ MarkDeleted \/ AddComment
  \/ CreateViews \/ Finish \/ Prepare

-----------------------------------------------------------------------------
DbInit ==
  /\ old \in OldDatabases
  /\ version = old.version
  /\ LET columns == IF version = 4 THEN {"id"} ELSE {"id", "uuid"} IN
     /\ tasks = [columns |-> columns, rows |-> old.tasks]
     /\ times = [columns |-> columns, rows |-> old.times]
  /\ tasksBackup = NoTable /\ timesBackup = NoTable
  /\ views = IF version = 4 THEN "none" ELSE "tasks"
  /\ step = "closed" /\ todo = {} /\ cut = {}

-----------------------------------------------------------------------------
(***************************************************************************)
(* Recorded time survives the upgrade, once: unless a process died while   *)
(* the times were copied, each entry of a task is in the table with the    *)
(* same task, however often the upgrade was interrupted elsewhere and      *)
(* begun again.  Short entries, and those of no task, are left out.        *)
(***************************************************************************)
TimeKept ==
  At("done") /\ "times" \notin cut =>
    \A was \in old.times :
      was.entry \notin Short /\ was.owner # Zero =>
        \E row \in times.rows :
          /\ row.owner = was.owner
          /\ {r \in times.rows : r.entry = was.entry} = {row}

(***************************************************************************)
(* The tree of tasks survives the upgrade: where the program starts at     *)
(* all, every task is there with its parent, and one that had none, which  *)
(* is 0 in version 4, has none: NULL, as task_accessor.cpp:100 lists them. *)
(***************************************************************************)
TreeKept ==
  At("done") =>
    \A was \in old.tasks :
      \E row \in tasks.rows :
        /\ row.id = was.id
        /\ row.parent = IF was.parent = Zero THEN Null ELSE was.parent

(***************************************************************************)
(* What holds of it: no task is lost, and one that is below another stays  *)
(* there, wherever and however often the upgrade was cut.                  *)
(***************************************************************************)
BranchesKept ==
  At("done") =>
    \A was \in old.tasks :
      \E row \in tasks.rows :
        /\ row.id = was.id
        /\ was.parent \in TaskId => row.parent = was.parent

(***************************************************************************)
(* Removed entries of version 5 stay removed and running ones run, unless  *)
(* a process died between the new column and its two updates.              *)
(***************************************************************************)
StatesKept ==
  At("done") /\ old.version = 5 /\ "states" \notin cut =>
    \A row \in times.rows, was \in old.times :
      row.entry = was.entry =>
        /\ (row.state = "deleted") = was.deleted
        /\ (row.state = "running") = (was.running /\ ~ was.deleted)

(***************************************************************************)
(* The program starts again: only a crash in the copy of the tasks,        *)
(* between the two columns of the tasks, or between the views and the new  *)
(* version leaves a database that cannot be opened any more.  After the    *)
(* last one the next start copies the tasks once more, and then it cannot  *)
(* rename the times.                                                       *)
(***************************************************************************)
StartsAgain == At("failed") => cut \cap {"tasks", "columns", "views"} # {}
=============================================================================
