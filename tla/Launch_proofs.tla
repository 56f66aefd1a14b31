---------------------------- MODULE Launch_proofs ----------------------------
(***************************************************************************)
(* What a database keeps through an upgrade that may be cut anywhere and   *)
(* begun again, and that the name of the socket leads to the process that  *)
(* serves, for any old databases and any number of processes.              *)
(***************************************************************************)
EXTENDS Launch, FiniteSetTheorems, TLAPS

-----------------------------------------------------------------------------
(* What is true of the file and of the statement that is next *)

TaskTable == [columns : SUBSET TaskColumn, rows : SUBSET TaskRow]
TimeTable == [columns : SUBSET TimeColumn, rows : SUBSET TimeRow]

\* The steps of update_to_db_5, and those after them.
TaskSteps == {"create_tasks", "copy_tasks"}
TimeSteps == {"create_times", "copy_times"}
MarkSteps == {"mark_running", "mark_deleted"}
UpdateSteps == {"rename_tasks", "clean_times", "rename_times"} \cup TaskSteps \cup TimeSteps
LastSteps == {"add_comment", "create_views", "finish", "prepare", "done"}
UpgradeSteps == {"add_idle", "add_quiet", "add_state"} \cup MarkSteps \cup LastSteps

Stored ==
  /\ DbTypeOK
  /\ old \in OldDatabases
  /\ tasks \in TaskTable /\ tasksBackup \in TaskTable
  /\ times \in TimeTable /\ timesBackup \in TimeTable
  /\ IsFiniteSet(times.rows) /\ IsFiniteSet(timesBackup.rows)
  /\ At("copy_tasks") => todo \subseteq tasksBackup.rows
  /\ At("copy_times") => todo \subseteq timesBackup.rows

\* The columns a table has by the time a statement needs them; a backup of
\* the tasks is left only where the copy was cut, and then for ever.
Columns ==
  /\ step \in UpdateSteps => version = 4
  /\ step \in {"prepare", "done"} => version = 5
  /\ tasksBackup = NoTable => "id" \in tasks.columns /\ step \notin TaskSteps
  /\ tasksBackup # NoTable =>
       /\ version = 4
       /\ step \in {"closed", "open", "rename_tasks", "failed"} \cup TaskSteps
       /\ step \in TaskSteps \/ "tasks" \in cut
  /\ version = 5
       \/ step \in UpgradeSteps \cup TimeSteps \cup {"copy_tasks", "clean_times", "rename_times"} =>
       {"id", "uuid"} \subseteq tasks.columns
  /\ version = 5 \/ step \in UpgradeSteps \cup {"copy_times"} =>
       {"id", "uuid"} \subseteq times.columns
  /\ step \in UpgradeSteps \ {"add_idle"} => "idle" \in tasks.columns
  /\ "idle" \in tasks.columns =>
       "quiet" \in tasks.columns \/ At("add_quiet") \/ "columns" \in cut
  /\ step \in MarkSteps \cup LastSteps => "state" \in times.columns
  /\ step \in LastSteps \ {"add_comment"} => "comment" \in times.columns
  /\ version = 4 /\ views # "none" => At("finish") \/ "views" \in cut
  /\ StartsAgain

\* Every task is in the rows, below the one it was below.
TreeIn(rows) ==
  \A was \in old.tasks :
    \E row \in rows :
      /\ row.id = was.id
      /\ was.parent \in TaskId => row.parent = was.parent

Tree ==
  /\ tasksBackup = NoTable => TreeIn(tasks.rows)
  /\ At("create_tasks") => TreeIn(tasksBackup.rows)
  /\ At("copy_tasks") => TreeIn(tasks.rows \cup todo)

\* Every time that is to be kept is in the rows, and none is there twice.
TimesIn(rows) ==
  \A was \in old.times :
    was.entry \notin Short /\ was.owner # Zero =>
      \E row \in rows : row.entry = was.entry /\ row.owner = was.owner

Once(rows) == \A r, s \in rows : r.entry = s.entry => r = s

Recorded ==
  "times" \notin cut =>
    /\ step \notin TimeSteps => TimesIn(times.rows) /\ Once(times.rows)
    /\ At("create_times") => TimesIn(timesBackup.rows) /\ Once(timesBackup.rows)
    /\ At("copy_times") =>
         /\ TimesIn(times.rows \cup todo)
         /\ Once(times.rows) /\ Once(todo)
         /\ \A r \in times.rows, s \in todo : r.entry # s.entry

\* What the two updates of the new column make of a row.
Unmarked(row) == row.state = "stopped"
HalfMarked(row) == row.state = IF row.running THEN "running" ELSE "stopped"
FullyMarked(row) ==
  row.state = IF row.deleted THEN "deleted" ELSE IF row.running THEN "running" ELSE "stopped"

States ==
  old.version = 5 =>
    /\ version = 5 /\ step \notin UpdateSteps
    /\ \A row \in times.rows, was \in old.times :
         row.entry = was.entry => row.running = was.running /\ row.deleted = was.deleted
    /\ \A row \in times.rows :
         /\ "state" \notin times.columns \/ At("mark_running") => Unmarked(row)
         /\ At("mark_deleted") => HalfMarked(row)
         /\ \/ "state" \notin times.columns
            \/ step \in MarkSteps
            \/ "states" \in cut
            \/ FullyMarked(row)

DbInv == Stored /\ Columns /\ Tree /\ Recorded /\ States

LockInv ==
  /\ LaunchTypeOK
  /\ pending \in [Process -> Seq(Process)]
  /\ \A p \in Process : proc[p] \in {"opening", "serving", "closing"} <=> holder = p
  /\ holder = NoProcess => At("closed")
  /\ SocketLeadsHere

LaunchInv == DbInv /\ LockInv

\* A process takes the lock and opens the file.
Begin ==
  /\ At("closed") /\ Then("open")
  /\ UNCHANGED <<tableVars, todo, old, cut>>

DbNext == Statement \/ Begin \/ Close \/ UNCHANGED dbVars

-----------------------------------------------------------------------------
(* What the statements do to rows and columns *)

\* EXCEPT on a table, and on a row.
LEMMA TableExcept ==
  ASSUME NEW C, NEW R, NEW table \in [columns : C, rows : R], NEW new
  PROVE  [table EXCEPT !.rows = new] = [columns |-> table.columns, rows |-> new]
OBVIOUS

\* The copy of a task is the same task.
Orphan(row) == IF row.parent = Zero THEN [row EXCEPT !.parent = Null] ELSE row
TaskCopy(row) ==
  [row EXCEPT !.parent = IF @ = Null THEN Zero ELSE @, !.deleted = FALSE]

LEMMA TaskRows ==
  ASSUME NEW row \in TaskRow
  PROVE  /\ Orphan(row) \in TaskRow /\ TaskCopy(row) \in TaskRow
         /\ Orphan(row).id = row.id /\ TaskCopy(row).id = row.id
         /\ row.parent \in TaskId => Orphan(row).parent = row.parent
         /\ row.parent \in TaskId => TaskCopy(row).parent = row.parent
BY DbAssumption DEF TaskRow, Orphan, TaskCopy

\* The copy of a time is the same time, and no longer running or deleted.
TimeCopy(row, n) == [row EXCEPT !.id = n, !.running = FALSE, !.deleted = FALSE]
MarkedRow(row, field, s) == IF row[field] THEN [row EXCEPT !.state = s] ELSE row
MarkedRows(field, s) == {MarkedRow(row, field, s) : row \in times.rows}

LEMMA TimeRows ==
  ASSUME NEW row \in TimeRow, NEW n \in Nat
  PROVE  /\ TimeCopy(row, n) \in TimeRow
         /\ TimeCopy(row, n).entry = row.entry /\ TimeCopy(row, n).owner = row.owner
BY DEF TimeRow, TimeCopy

LEMMA RowMarked ==
  ASSUME NEW row \in TimeRow, NEW field \in {"running", "deleted"}
  PROVE  LET new == MarkedRow(row, field, field) IN
         /\ new \in TimeRow
         /\ new.entry = row.entry /\ new.owner = row.owner
         /\ new.running = row.running /\ new.deleted = row.deleted
         /\ new.state = IF row[field] THEN field ELSE row.state
BY DEF TimeRow, MarkedRow

LEMMA MarkedTable ==
  ASSUME times \in TimeTable, IsFiniteSet(times.rows), NEW field, NEW s
  PROVE  /\ Marked(field, s) = [columns |-> times.columns, rows |-> MarkedRows(field, s)]
         /\ IsFiniteSet(MarkedRows(field, s))
<1> DEFINE f == [row \in times.rows |-> MarkedRow(row, field, s)]
<1>1. Marked(field, s) = [times EXCEPT !.rows = MarkedRows(field, s)]
  BY DEF Marked, MarkedRows, MarkedRow
<1>2. f \in Surjection(times.rows, MarkedRows(field, s))
  BY DEF Surjection, MarkedRows
<1> HIDE DEF f
<1>3. IsFiniteSet(MarkedRows(field, s))
  BY <1>2, FS_Surjection
<1>4. Marked(field, s) = [columns |-> times.columns, rows |-> MarkedRows(field, s)]
  BY <1>1 DEF TimeTable
<1>5. QED
  BY <1>3, <1>4

\* The tables a statement writes, field by field.
LEMMA TasksWritten ==
  ASSUME Stored
  PROVE  /\ CreateTasks => tasksBackup' = [columns |-> tasksBackup.columns,
                                          rows |-> {Orphan(row) : row \in tasksBackup.rows}]
         /\ \A row : CopyTask(row) =>
              tasks' = [columns |-> tasks.columns, rows |-> tasks.rows \cup {TaskCopy(row)}]
         /\ AddIdle => tasks' = [columns |-> tasks.columns \cup {"idle"}, rows |-> tasks.rows]
         /\ AddQuiet => tasks' = [columns |-> tasks.columns \cup {"quiet"}, rows |-> tasks.rows]
<1>1. tasks \in TaskTable /\ tasksBackup \in TaskTable
  BY DEF Stored
<1>2. CreateTasks => tasksBackup' = [columns |-> tasksBackup.columns,
                                     rows |-> {Orphan(row) : row \in tasksBackup.rows}]
  BY <1>1, TableExcept DEF CreateTasks, TaskTable, Orphan
<1>3. ASSUME NEW row, CopyTask(row)
      PROVE  tasks' = [columns |-> tasks.columns, rows |-> tasks.rows \cup {TaskCopy(row)}]
  BY <1>1, <1>3, TableExcept DEF CopyTask, TaskTable, TaskCopy
<1>4. AddIdle => tasks' = [columns |-> tasks.columns \cup {"idle"}, rows |-> tasks.rows]
  BY <1>1 DEF AddIdle, With, TaskTable
<1>5. AddQuiet => tasks' = [columns |-> tasks.columns \cup {"quiet"}, rows |-> tasks.rows]
  BY <1>1 DEF AddQuiet, With, TaskTable
<1>6. QED
  BY <1>2, <1>3, <1>4, <1>5

LEMMA TimesWritten ==
  ASSUME Stored
  PROVE  /\ CleanTimes => times' = [columns |-> times.columns,
                                   rows |-> {row \in times.rows : row.owner # Zero}]
         /\ \A row : CopyTime(row) =>
              times' = [columns |-> times.columns,
                        rows |-> times.rows \cup {TimeCopy(row, Cardinality(times.rows) + 1)}]
         /\ AddState => times' = [columns |-> times.columns \cup {"state"}, rows |-> times.rows]
         /\ AddComment => times' = [columns |-> times.columns \cup {"comment"}, rows |-> times.rows]
         /\ MarkRunning =>
              times' = [columns |-> times.columns, rows |-> MarkedRows("running", "running")]
         /\ MarkDeleted =>
              times' = [columns |-> times.columns, rows |-> MarkedRows("deleted", "deleted")]
         /\ Finish => times' = [columns |-> times.columns,
                               rows |-> {row \in times.rows : row.entry \notin Short}]
<1>1. times \in TimeTable /\ IsFiniteSet(times.rows)
  BY DEF Stored
<1>2. CleanTimes => times' = [columns |-> times.columns,
                              rows |-> {row \in times.rows : row.owner # Zero}]
  BY <1>1, TableExcept DEF CleanTimes, TimeTable
<1>3. ASSUME NEW row, CopyTime(row)
      PROVE  times' = [columns |-> times.columns,
                       rows |-> times.rows \cup {TimeCopy(row, Cardinality(times.rows) + 1)}]
  BY <1>1, <1>3, TableExcept DEF CopyTime, TimeTable, TimeCopy
<1>4. AddState => times' = [columns |-> times.columns \cup {"state"}, rows |-> times.rows]
  BY <1>1 DEF AddState, With, TimeTable
<1>5. AddComment => times' = [columns |-> times.columns \cup {"comment"}, rows |-> times.rows]
  BY <1>1 DEF AddComment, With, TimeTable
<1>6. MarkRunning => times' = [columns |-> times.columns, rows |-> MarkedRows("running", "running")]
  BY <1>1, MarkedTable DEF MarkRunning
<1>7. MarkDeleted => times' = [columns |-> times.columns, rows |-> MarkedRows("deleted", "deleted")]
  BY <1>1, MarkedTable DEF MarkDeleted
<1>8. Finish => times' = [columns |-> times.columns,
                          rows |-> {row \in times.rows : row.entry \notin Short}]
  BY <1>1, TableExcept DEF Finish, TimeTable
<1>9. QED
  BY <1>2, <1>3, <1>4, <1>5, <1>6, <1>7, <1>8

-----------------------------------------------------------------------------
(* Types *)

\* The type invariant of the database, one table at a time.
TypedTable(table, columns, rows) ==
  /\ table \in [columns : SUBSET columns, rows : SUBSET rows]
  /\ table.rows # {} => "id" \in table.columns

LEMMA StoredParts ==
  Stored <=>
    /\ version \in {4, 5} /\ step \in Step /\ views \in ViewState /\ old \in OldDatabases
    /\ TypedTable(tasks, TaskColumn, TaskRow) /\ TypedTable(tasksBackup, TaskColumn, TaskRow)
    /\ TypedTable(times, TimeColumn, TimeRow) /\ TypedTable(timesBackup, TimeColumn, TimeRow)
    /\ IsFiniteSet(times.rows) /\ IsFiniteSet(timesBackup.rows)
    /\ step \notin {"copy_tasks", "copy_times"} => todo = {}
    /\ At("copy_tasks") => todo \subseteq tasksBackup.rows
    /\ At("copy_times") => todo \subseteq timesBackup.rows
BY DEF Stored, DbTypeOK, TypedTable, TaskTable, TimeTable

LEMMA EmptyTable ==
  /\ TypedTable(NoTable, TaskColumn, TaskRow) /\ TypedTable(NoTable, TimeColumn, TimeRow)
  /\ NoTable.rows = {} /\ NoTable.columns = {} /\ IsFiniteSet(NoTable.rows)
<1>1. NoTable.rows = {} /\ NoTable.columns = {}
  BY DEF NoTable
<1>2. QED
  BY <1>1, FS_EmptySet DEF NoTable, TypedTable

LEMMA StepStored == Stored /\ Columns /\ DbNext => Stored'
<1> SUFFICES ASSUME Stored, Columns, DbNext PROVE Stored'
  OBVIOUS
<1> DEFINE Typed ==
      /\ version \in {4, 5} /\ step \in Step /\ views \in ViewState /\ old \in OldDatabases
      /\ TypedTable(tasks, TaskColumn, TaskRow) /\ TypedTable(tasksBackup, TaskColumn, TaskRow)
      /\ TypedTable(times, TimeColumn, TimeRow) /\ TypedTable(timesBackup, TimeColumn, TimeRow)
      /\ IsFiniteSet(times.rows) /\ IsFiniteSet(timesBackup.rows)
      /\ step \notin {"copy_tasks", "copy_times"} => todo = {}
      /\ At("copy_tasks") => todo \subseteq tasksBackup.rows
      /\ At("copy_times") => todo \subseteq timesBackup.rows
<1>typed. Typed
  BY StoredParts
<1>todo. \A row \in todo :
           \/ At("copy_tasks") /\ row \in TaskRow
           \/ At("copy_times") /\ row \in TimeRow
  <2>1. tasksBackup.rows \subseteq TaskRow /\ timesBackup.rows \subseteq TimeRow
    BY <1>typed DEF TypedTable
  <2>2. \/ todo = {}
        \/ At("copy_tasks") /\ todo \subseteq tasksBackup.rows
        \/ At("copy_times") /\ todo \subseteq timesBackup.rows
    BY <1>typed DEF At
  <2>3. QED
    BY <2>1, <2>2 DEF At
<1>suffices. SUFFICES Typed'
  BY StoredParts, PTL
<1> HIDE DEF Typed
<1>1. CASE Open
  <2> DEFINE newTasks == [columns |-> TaskColumn, rows |-> {}]
             newTimes == [columns |-> TimeColumn, rows |-> {}]
  <2>1. /\ TypedTable(newTasks, TaskColumn, TaskRow) /\ TypedTable(newTimes, TimeColumn, TimeRow)
        /\ IsFiniteSet(newTimes.rows)
    BY FS_EmptySet DEF TypedTable
  <2>2. /\ tasks' \in {tasks, newTasks} /\ times' \in {times, newTimes}
        /\ UNCHANGED <<version, tasksBackup, timesBackup, views, todo, old>>
        /\ step = "open" /\ step' \in {"rename_tasks", "add_idle"}
    BY <1>1 DEF Open, At, Then
  <2> HIDE DEF newTasks, newTimes
  <2>3. QED
    BY <1>typed, <2>1, <2>2 DEF Typed, At, Step
<1>2. CASE RenameTasks
  BY <1>typed, <1>2, EmptyTable DEF RenameTasks, Typed, At, Then, Step, ViewState
<1>3. CASE CreateTasks
  <2> DEFINE new == [columns |-> {"id", "uuid"}, rows |-> {}]
             backup == [columns |-> tasksBackup.columns,
                        rows |-> {Orphan(row) : row \in tasksBackup.rows}]
  <2>1. TypedTable(new, TaskColumn, TaskRow)
    BY DEF TypedTable, TaskColumn
  <2>2. \A row \in tasksBackup.rows : Orphan(row) \in TaskRow
    BY <1>typed, TaskRows DEF Typed, TypedTable
  <2>3. TypedTable(backup, TaskColumn, TaskRow)
    BY <1>typed, <2>2 DEF Typed, TypedTable
  <2>4. /\ tasks' = new /\ tasksBackup' = backup /\ todo' = tasksBackup'.rows
        /\ step' = "copy_tasks" /\ UNCHANGED <<version, times, timesBackup, views, old>>
    BY <1>3, TasksWritten DEF CreateTasks, Then
  <2> HIDE DEF new, backup
  <2>5. QED
    BY <1>typed, <2>1, <2>3, <2>4 DEF Typed, At, Step
<1>4. ASSUME NEW row \in todo, CopyTask(row) PROVE Typed'
  <2> DEFINE new == [columns |-> tasks.columns, rows |-> tasks.rows \cup {TaskCopy(row)}]
  <2>1. row \in TaskRow /\ TaskCopy(row) \in TaskRow
    BY <1>4, <1>todo, TaskRows DEF CopyTask, At
  <2>2. tasks' = new /\ todo' = todo \ {row} /\ step = "copy_tasks"
        /\ UNCHANGED <<version, tasksBackup, times, timesBackup, views, step, old>>
    BY <1>4, TasksWritten DEF CopyTask, At
  <2>3. TypedTable(new, TaskColumn, TaskRow)
    BY <1>typed, <2>1, <2>2 DEF Typed, TypedTable, Columns
  <2> HIDE DEF new
  <2>4. QED
    BY <1>typed, <2>2, <2>3 DEF Typed, At
<1>5. CASE DropTasks
  BY <1>typed, <1>5, EmptyTable DEF DropTasks, Typed, At, Then, Step, ViewState
<1>6. CASE CleanTimes
  <2> DEFINE rows == {row \in times.rows : row.owner # Zero}
             new == [columns |-> times.columns, rows |-> rows]
  <2>1. IsFiniteSet(rows)
    BY <1>typed, FS_Subset DEF Typed
  <2>2. TypedTable(new, TimeColumn, TimeRow) /\ new.rows = rows
    BY <1>typed DEF Typed, TypedTable
  <2>3. /\ times' = new /\ timesBackup' = NoTable /\ step = "clean_times"
        /\ step' = "rename_times" /\ UNCHANGED <<version, tasks, tasksBackup, views, todo, old>>
    BY <1>6, TimesWritten DEF CleanTimes, At, Then
  <2> HIDE DEF new, rows
  <2>4. QED
    BY <1>typed, <2>1, <2>2, <2>3, EmptyTable DEF Typed, At, Step
<1>7. CASE RenameTimes
  BY <1>typed, <1>7, EmptyTable DEF RenameTimes, Typed, At, Then, Step
<1>8. CASE CreateTimes
  <2> DEFINE new == [columns |-> {"id", "uuid"}, rows |-> {}]
  <2>1. TypedTable(new, TimeColumn, TimeRow) /\ IsFiniteSet(new.rows)
    BY FS_EmptySet DEF TypedTable, TimeColumn
  <2>2. /\ times' = new /\ todo' = timesBackup.rows /\ step' = "copy_times"
        /\ UNCHANGED <<version, tasks, tasksBackup, timesBackup, views, old>>
    BY <1>8 DEF CreateTimes, Then
  <2> HIDE DEF new
  <2>3. QED
    BY <1>typed, <2>1, <2>2 DEF Typed, At, Step
<1>9. ASSUME NEW row \in todo, CopyTime(row) PROVE Typed'
  <2> DEFINE copy == TimeCopy(row, Cardinality(times.rows) + 1)
             rows == times.rows \cup {copy}
             new == [columns |-> times.columns, rows |-> rows]
  <2>0. IsFiniteSet(times.rows)
    BY <1>typed DEF Typed
  <2>1. Cardinality(times.rows) \in Nat /\ IsFiniteSet(rows)
    BY <2>0, FS_CardinalityType, FS_AddElement, Zenon
  <2>2. copy \in TimeRow
    BY <1>9, <1>todo, <2>1, TimeRows DEF CopyTime, At
  <2>3. /\ times' = new /\ todo' = todo \ {row} /\ step = "copy_times"
        /\ UNCHANGED <<version, tasks, tasksBackup, timesBackup, views, step, old>>
    BY <1>9, TimesWritten DEF CopyTime, At
  <2> HIDE DEF copy
  <2>4. new.rows = rows /\ TypedTable(new, TimeColumn, TimeRow)
    BY <1>typed, <2>2, <2>3 DEF Typed, TypedTable, Columns
  <2> HIDE DEF new, rows
  <2>5. QED
    BY <1>typed, <2>1, <2>3, <2>4 DEF Typed, At
<1>10. CASE DropTimes
  BY <1>typed, <1>10, EmptyTable DEF DropTimes, Typed, At, Then, Step
<1>11. ASSUME NEW column \in {"idle", "quiet"},
              tasks' = [columns |-> tasks.columns \cup {column}, rows |-> tasks.rows],
              step \notin {"copy_tasks", "copy_times"},
              step' \in {"add_state", "add_quiet"}, UNCHANGED times, Kept
       PROVE  Typed'
  <2>1. TypedTable(tasks', TaskColumn, TaskRow)
    BY <1>typed, <1>11 DEF Typed, TypedTable, TaskColumn
  <2>2. QED
    BY <1>typed, <1>11, <2>1 DEF Typed, Kept, At, Step
<1>12. CASE AddIdle \/ AddQuiet
  <2>1. CASE AddIdle
    BY <1>11, <2>1, TasksWritten DEF AddIdle, At, Then
  <2>2. CASE AddQuiet
    BY <1>11, <2>2, TasksWritten DEF AddQuiet, At, Then
  <2>3. QED
    BY <1>12, <2>1, <2>2
\* The statements of the upgrade that write times.
<1>13. ASSUME NEW columns \in SUBSET TimeColumn, NEW rows \in SUBSET TimeRow,
              times' = [columns |-> columns, rows |-> rows], times.columns \subseteq columns,
              IsFiniteSet(rows), rows # {} => times.rows # {},
              step \notin {"copy_tasks", "copy_times"},
              step' \in {"add_comment", "mark_running", "mark_deleted", "create_views", "prepare"},
              version' \in {4, 5}, UNCHANGED <<tasks, tasksBackup, timesBackup, views, todo, old>>
       PROVE  Typed'
  <2>1. TypedTable(times', TimeColumn, TimeRow) /\ times'.rows = rows
    BY <1>typed, <1>13 DEF Typed, TypedTable
  <2>2. QED
    BY <1>typed, <1>13, <2>1 DEF Typed, At, Step
<1>14. CASE AddState \/ AddComment
  <2>1. /\ times.columns \in SUBSET TimeColumn /\ times.rows \in SUBSET TimeRow
        /\ IsFiniteSet(times.rows) /\ version \in {4, 5}
    BY <1>typed DEF Typed, TypedTable
  <2>2. CASE AddState
    BY <1>13, <2>1, <2>2, TimesWritten DEF AddState, At, Then, Kept, TimeColumn
  <2>3. CASE AddComment
    BY <1>13, <2>1, <2>3, TimesWritten DEF AddComment, At, Then, Kept, TimeColumn
  <2>4. QED
    BY <1>14, <2>2, <2>3
<1>15. CASE MarkRunning \/ MarkDeleted
  <2>1. PICK f \in {"running", "deleted"} :
          /\ times' = [columns |-> times.columns, rows |-> MarkedRows(f, f)]
          /\ step \notin {"copy_tasks", "copy_times"} /\ step' \in {"add_comment", "mark_deleted"}
          /\ UNCHANGED tasks /\ Kept
    BY <1>15, TimesWritten DEF MarkRunning, MarkDeleted, At, Then
  <2>2. IsFiniteSet(MarkedRows(f, f)) /\ (MarkedRows(f, f) # {} => times.rows # {})
    BY MarkedTable DEF Stored, MarkedRows
  <2>3. /\ MarkedRows(f, f) \in SUBSET TimeRow
        /\ times.columns \in SUBSET TimeColumn /\ version \in {4, 5}
    BY <1>typed, RowMarked DEF Typed, TypedTable, MarkedRows
  <2>4. QED
    BY <1>13, <2>1, <2>2, <2>3 DEF Kept
<1>16. CASE Finish
  <2> DEFINE rows == {row \in times.rows : row.entry \notin Short}
  <2>1. IsFiniteSet(rows) /\ (rows # {} => times.rows # {})
    BY <1>typed, FS_Subset DEF Typed
  <2>2. rows \in SUBSET TimeRow /\ times.columns \in SUBSET TimeColumn
    BY <1>typed DEF Typed, TypedTable
  <2>3. times' = [columns |-> times.columns, rows |-> rows]
    BY <1>16, TimesWritten
  <2> HIDE DEF rows
  <2>4. QED
    BY <1>13, <1>16, <2>1, <2>2, <2>3 DEF Finish, At, Then
<1>17. CASE CreateViews \/ Prepare \/ Begin
  BY <1>typed, <1>17
     DEF CreateViews, Prepare, Begin, tableVars, Kept, Typed, At, Then, Step, ViewState
<1>18. CASE Close
  BY <1>typed, <1>18 DEF Close, tableVars, Typed, At, Then, Step
<1>19. CASE UNCHANGED dbVars
  BY <1>typed, <1>19 DEF dbVars, tableVars, Typed, At
<1>20. QED
  BY <1>1, <1>2, <1>3, <1>4, <1>5, <1>6, <1>7, <1>8, <1>9, <1>10, <1>12, <1>14, <1>15,
     <1>16, <1>17, <1>18, <1>19 DEF DbNext, Statement

-----------------------------------------------------------------------------
(* Columns *)

\* A backup has columns, so it is a table.
LEMMA BackupHasColumns ==
  ASSUME Stored, tasksBackup # NoTable
  PROVE  tasksBackup.columns # {}
BY DEF Stored, DbTypeOK, TaskTable, NoTable

LEMMA StepColumns == Stored /\ Columns /\ DbNext => Columns'
<1> SUFFICES ASSUME Stored, Columns, DbNext PROVE Columns'
  OBVIOUS
<1> USE DEF Columns, StartsAgain, At, Then, UpdateSteps, TaskSteps, TimeSteps, MarkSteps,
            LastSteps, UpgradeSteps
<1>empty. NoTable.columns = {}
  BY DEF NoTable
<1>types. /\ version \in {4, 5} /\ tasks.columns \subseteq TaskColumn
          /\ times.columns \subseteq TimeColumn
  BY DEF Stored, DbTypeOK
<1>1. CASE Open
  <2>1. [columns |-> TaskColumn, rows |-> {}].columns = TaskColumn
        /\ [columns |-> TimeColumn, rows |-> {}].columns = TimeColumn
    OBVIOUS
  <2>2. /\ tasks' = tasks \/ tasks'.columns = TaskColumn
        /\ times' = times \/ times'.columns = TimeColumn
        /\ step = "open" /\ step' = IF version < 5 THEN "rename_tasks" ELSE "add_idle"
        /\ UNCHANGED <<version, tasksBackup, views, cut>>
    BY <1>1, <2>1 DEF Open
  <2>3. CASE version = 4
    BY <1>empty, <2>2, <2>3 DEF TaskColumn, TimeColumn
  <2>4. CASE version = 5
    BY <1>empty, <2>2, <2>4 DEF TaskColumn, TimeColumn
  <2>5. QED
    BY <1>types, <2>3, <2>4
<1>2. CASE RenameTasks
  BY <1>2, <1>empty DEF RenameTasks
<1>3. CASE CreateTasks
  <2>1. /\ tasks'.columns = {"id", "uuid"} /\ tasksBackup'.columns = tasksBackup.columns
        /\ step = "create_tasks" /\ step' = "copy_tasks"
        /\ UNCHANGED <<version, times, views, cut>>
    BY <1>3, TasksWritten DEF CreateTasks
  <2>2. tasksBackup' # NoTable
    BY <1>empty, <2>1, BackupHasColumns
  <2>3. QED
    BY <2>1, <2>2
<1>4. ASSUME NEW row \in todo, CopyTask(row) PROVE Columns'
  <2>1. /\ tasks'.columns = tasks.columns /\ step = "copy_tasks"
        /\ UNCHANGED <<version, tasksBackup, times, views, step, cut>>
    BY <1>4, TasksWritten DEF CopyTask
  <2>2. QED
    BY <2>1
<1>5. CASE DropTasks
  BY <1>5 DEF DropTasks
<1>6. CASE CleanTimes
  BY <1>6 DEF CleanTimes
<1>7. CASE RenameTimes \/ CreateTimes
  BY <1>7 DEF RenameTimes, CreateTimes
<1>8. ASSUME NEW row \in todo, CopyTime(row) PROVE Columns'
  <2>1. /\ times'.columns = times.columns /\ step = "copy_times"
        /\ UNCHANGED <<version, tasks, tasksBackup, views, step, cut>>
    BY <1>8, TimesWritten DEF CopyTime
  <2>2. QED
    BY <2>1
<1>9. CASE DropTimes
  BY <1>9 DEF DropTimes
<1>10. CASE AddIdle
  <2>1. /\ tasks'.columns = tasks.columns \cup {"idle"} /\ times' = times
        /\ step = "add_idle"
        /\ step' = IF "idle" \in tasks.columns THEN "add_state" ELSE "add_quiet"
        /\ UNCHANGED <<version, tasksBackup, views, cut>>
    BY <1>10, TasksWritten DEF AddIdle, Kept
  <2>2. QED
    BY <2>1
<1>11. CASE AddQuiet
  <2>1. /\ tasks'.columns = tasks.columns \cup {"quiet"} /\ times' = times
        /\ step = "add_quiet" /\ step' = "add_state"
        /\ UNCHANGED <<version, tasksBackup, views, cut>>
    BY <1>11, TasksWritten DEF AddQuiet, Kept
  <2>2. QED
    BY <2>1
<1>12. ASSUME NEW more, times'.columns = times.columns \cup more,
              UNCHANGED <<tasks, tasksBackup, views, cut>>,
              \/ AddState /\ more = {"state"}
              \/ AddComment /\ more = {"comment"}
              \/ (MarkRunning \/ MarkDeleted \/ Finish) /\ more = {}
       PROVE  Columns'
  <2>1. CASE AddState /\ more = {"state"}
    BY <1>12, <2>1 DEF AddState, Kept
  <2>2. CASE AddComment /\ more = {"comment"}
    BY <1>12, <2>2 DEF AddComment, Kept
  <2>3. CASE (MarkRunning \/ MarkDeleted \/ Finish) /\ more = {}
    BY <1>12, <2>3 DEF MarkRunning, MarkDeleted, Finish, Kept
  <2>4. QED
    BY <1>12, <2>1, <2>2, <2>3
<1>13. CASE AddState \/ AddComment \/ MarkRunning \/ MarkDeleted \/ Finish
  <2>1. UNCHANGED <<tasks, tasksBackup, views, cut>>
    BY <1>13 DEF AddState, AddComment, MarkRunning, MarkDeleted, Finish, Kept
  <2>2. CASE AddState
    <3>1. times'.columns = times.columns \cup {"state"}
      BY <2>2, TimesWritten
    <3>2. QED
      BY <1>12, <2>1, <2>2, <3>1
  <2>3. CASE AddComment
    <3>1. times'.columns = times.columns \cup {"comment"}
      BY <2>3, TimesWritten
    <3>2. QED
      BY <1>12, <2>1, <2>3, <3>1
  <2>4. CASE MarkRunning \/ MarkDeleted \/ Finish
    <3>1. times'.columns = times.columns \cup {}
      BY <2>4, TimesWritten
    <3>2. QED
      BY <1>12, <2>1, <2>4, <3>1
  <2>5. QED
    BY <1>13, <2>2, <2>3, <2>4
<1>14. CASE Prepare
  <2>1. /\ tasks' = tasks /\ times' = times /\ UNCHANGED <<version, tasksBackup, views, cut>>
        /\ step = "prepare"
        /\ step' = IF tasks.columns = TaskColumn /\ times.columns = TimeColumn
                   THEN "done" ELSE "failed"
    BY <1>14 DEF Prepare, Kept
  <2>2. times.columns = TimeColumn
    BY <1>types, <2>1 DEF TimeColumn
  <2>3. tasks.columns = TaskColumn \/ "columns" \in cut
    BY <1>types, <2>1 DEF TaskColumn
  <2>4. QED
    BY <2>1, <2>2, <2>3
<1>15. CASE CreateViews \/ Begin
  BY <1>15 DEF CreateViews, Begin, tableVars
<1>16. CASE Close
  <2>1. /\ step' = "closed" /\ cut \subseteq cut' /\ UNCHANGED tableVars
        /\ step \in TaskSteps => "tasks" \in cut'
        /\ step = "add_quiet" => "columns" \in cut'
        /\ step = "finish" /\ version = 4 => "views" \in cut'
    BY <1>16 DEF Close, Window
  <2>2. QED
    BY <2>1 DEF tableVars
<1>17. CASE UNCHANGED dbVars
  BY <1>17 DEF dbVars, tableVars
<1>18. QED
  BY <1>1, <1>2, <1>3, <1>4, <1>5, <1>6, <1>7, <1>8, <1>9, <1>10, <1>11, <1>13, <1>14,
     <1>15, <1>16, <1>17 DEF DbNext, Statement

-----------------------------------------------------------------------------
(* Tasks *)

LEMMA StepTree == Stored /\ Columns /\ Tree /\ DbNext => Tree'
<1> SUFFICES ASSUME Stored, Columns, Tree, DbNext PROVE Tree'
  OBVIOUS
<1> USE DEF At, Then
<1>types. /\ tasks.rows \subseteq TaskRow /\ tasksBackup.rows \subseteq TaskRow
          /\ NoTable.columns = {} /\ NoTable.rows = {}
  BY DEF Stored, DbTypeOK, NoTable
<1>same. ASSUME tasks' = tasks \/ (tasksBackup # NoTable /\ tasksBackup' # NoTable),
                tasksBackup' = tasksBackup,
                old' = old, step' \notin TaskSteps
         PROVE  Tree'
  BY <1>same DEF Tree, TreeIn, TaskSteps
<1>1. CASE Open
  <2>1. tasks = NoTable => tasksBackup # NoTable
    BY <1>types DEF Columns
  <2>2. QED
    BY <1>1, <1>same, <2>1 DEF Open, TaskSteps
<1>2. CASE RenameTasks
  <2>1. CASE tasksBackup = NoTable
    <3>1. TreeIn(tasks.rows) /\ tasks # NoTable
      BY <1>types, <2>1 DEF Tree, Columns
    <3>2. QED
      BY <1>2, <2>1, <3>1 DEF RenameTasks, Tree, TreeIn
  <2>2. CASE tasksBackup # NoTable
    BY <1>2, <1>same, <2>2 DEF RenameTasks, TaskSteps
  <2>3. QED
    BY <2>1, <2>2
<1>3. CASE CreateTasks
  <2> DEFINE rows == tasksBackup'.rows
  <2>1. /\ rows = {Orphan(row) : row \in tasksBackup.rows}
        /\ tasksBackup'.columns = tasksBackup.columns
        /\ todo' = rows /\ step = "create_tasks" /\ step' = "copy_tasks" /\ old' = old
    BY <1>3, TasksWritten DEF CreateTasks
  <2>2. TreeIn(tasksBackup.rows) /\ tasksBackup # NoTable
    BY <2>1 DEF Tree, Columns, TaskSteps
  <2>3. \A row \in tasksBackup.rows : \E copy \in tasks'.rows \cup rows :
          /\ copy.id = row.id
          /\ row.parent \in TaskId => copy.parent = row.parent
    BY <1>types, <2>1, TaskRows
  <2> HIDE DEF rows
  <2>4. TreeIn(tasks.rows \cup todo)'
    BY <2>1, <2>2, <2>3 DEF TreeIn
  <2>5. tasksBackup' # NoTable
    BY <1>types, <2>1, <2>2, BackupHasColumns
  <2>6. QED
    BY <2>1, <2>4, <2>5 DEF Tree
<1>4. ASSUME NEW row \in todo, CopyTask(row) PROVE Tree'
  <2>1. /\ tasks'.rows = tasks.rows \cup {TaskCopy(row)} /\ todo' = todo \ {row}
        /\ tasksBackup' = tasksBackup /\ step = "copy_tasks" /\ UNCHANGED <<step, old>>
    <3> DEFINE copy == TaskCopy(row)
    <3>1. tasks' = [columns |-> tasks.columns, rows |-> tasks.rows \cup {copy}]
      BY <1>4, TasksWritten
    <3> HIDE DEF copy
    <3>2. tasks'.rows = tasks.rows \cup {copy}
      BY <3>1
    <3>3. QED
      BY <1>4, <3>2 DEF CopyTask, copy
  <2>2. TreeIn(tasks.rows \cup todo) /\ tasksBackup # NoTable /\ row \in TaskRow
    BY <1>types, <2>1 DEF Tree, Columns, Stored, TaskSteps
  <2>3. /\ TaskCopy(row).id = row.id
        /\ row.parent \in TaskId => TaskCopy(row).parent = row.parent
    BY <2>2, TaskRows
  <2>4. \A r \in tasks.rows \cup todo : \E copy \in tasks'.rows \cup todo' :
          /\ copy.id = r.id
          /\ r.parent \in TaskId => copy.parent = r.parent
    BY <2>1, <2>3
  <2>5. TreeIn(tasks.rows \cup todo)'
    BY <2>1, <2>2, <2>4 DEF TreeIn
  <2>6. QED
    BY <2>1, <2>2, <2>5 DEF Tree
<1>5. CASE DropTasks
  <2>1. TreeIn(tasks.rows)
    BY <1>5 DEF DropTasks, Tree
  <2>2. QED
    BY <1>5, <2>1 DEF DropTasks, Tree, TreeIn
<1>6. CASE \/ CleanTimes \/ RenameTimes \/ CreateTimes \/ DropTimes
          \/ (\E row \in todo : CopyTime(row))
  BY <1>6, <1>same DEF CleanTimes, RenameTimes, CreateTimes, DropTimes, CopyTime, TaskSteps
<1>7. CASE AddIdle \/ AddQuiet
  <2>1. tasks'.rows = tasks.rows /\ tasksBackup' = tasksBackup /\ old' = old
        /\ step' \notin TaskSteps
    BY <1>7, TasksWritten DEF AddIdle, AddQuiet, Kept, TaskSteps
  <2>2. QED
    BY <2>1 DEF Tree, TreeIn, TaskSteps
<1>8. CASE \/ AddState \/ AddComment \/ MarkRunning \/ MarkDeleted
          \/ CreateViews \/ Finish \/ Prepare
  BY <1>8, <1>same DEF AddState, AddComment, MarkRunning, MarkDeleted, CreateViews, Finish,
                        Prepare, Kept, TaskSteps
<1>9. CASE Begin \/ Close
  BY <1>9, <1>same DEF Begin, Close, tableVars, TaskSteps
<1>10. CASE UNCHANGED dbVars
  BY <1>10 DEF dbVars, tableVars, Tree, TreeIn
<1>11. QED
  BY <1>1, <1>2, <1>3, <1>4, <1>5, <1>6, <1>7, <1>8, <1>9, <1>10 DEF DbNext, Statement

-----------------------------------------------------------------------------
(* Times *)

\* Rows stay as they are, or take their state from a mark.
LEMMA TimesStay ==
  ASSUME Stored, Recorded, cut \subseteq cut', old' = old,
         step \notin TimeSteps, step' \notin TimeSteps,
         \/ times'.rows = times.rows
         \/ \E f \in {"running", "deleted"} : times'.rows = MarkedRows(f, f)
         \/ times'.rows = {row \in times.rows : row.owner # Zero}
         \/ times'.rows = {row \in times.rows : row.entry \notin Short}
  PROVE  Recorded'
<1> SUFFICES ASSUME "times" \notin cut PROVE TimesIn(times.rows)' /\ Once(times.rows)'
  BY DEF Recorded, At, TimeSteps
<1>1. TimesIn(times.rows) /\ Once(times.rows)
  BY DEF Recorded
<1>2. times.rows \subseteq TimeRow
  BY DEF Stored, DbTypeOK
<1>3. CASE times'.rows = times.rows
  BY <1>1, <1>3 DEF TimesIn, Once
<1>4. ASSUME NEW f \in {"running", "deleted"}, times'.rows = MarkedRows(f, f)
      PROVE  TimesIn(times.rows)' /\ Once(times.rows)'
  <2>1. \A row \in times.rows : /\ MarkedRow(row, f, f) \in times'.rows
                                /\ MarkedRow(row, f, f).entry = row.entry
                                /\ MarkedRow(row, f, f).owner = row.owner
    BY <1>2, <1>4, RowMarked DEF MarkedRows
  <2>2. \A r \in times'.rows : \E row \in times.rows :
          r = MarkedRow(row, f, f) /\ r.entry = row.entry
    BY <1>4, <2>1 DEF MarkedRows
  <2>3. TimesIn(times.rows)'
    BY <1>1, <2>1 DEF TimesIn
  <2>4. Once(times.rows)'
    BY <1>1, <2>2 DEF Once
  <2>5. QED
    BY <2>3, <2>4
<1>5. CASE times'.rows = {row \in times.rows : row.owner # Zero}
  BY <1>1, <1>5 DEF TimesIn, Once
<1>6. CASE times'.rows = {row \in times.rows : row.entry \notin Short}
  BY <1>1, <1>6 DEF TimesIn, Once
<1>7. QED
  BY <1>3, <1>4, <1>5, <1>6

LEMMA StepRecorded == Stored /\ Columns /\ Recorded /\ DbNext => Recorded'
<1> SUFFICES ASSUME Stored, Columns, Recorded, DbNext PROVE Recorded'
  OBVIOUS
<1> USE DEF At, Then, TimeSteps
<1>empty. NoTable.rows = {} /\ [columns |-> TimeColumn, rows |-> {}].rows = {}
  BY DEF NoTable
<1>1. CASE Open
  <2>1. times'.rows = times.rows
    BY <1>1, <1>empty DEF Open
  <2>2. QED
    BY <1>1, <2>1, TimesStay DEF Open
<1>2. CASE \/ RenameTasks \/ CreateTasks \/ DropTasks \/ AddIdle \/ AddQuiet
          \/ CreateViews \/ Prepare \/ Begin
  <2>1. /\ times' = times /\ old' = old /\ cut' = cut
        /\ step \notin TimeSteps /\ step' \notin TimeSteps
    BY <1>2 DEF RenameTasks, CreateTasks, DropTasks, AddIdle, AddQuiet, CreateViews, Prepare,
                Begin, Kept, tableVars
  <2>2. QED
    BY <2>1, TimesStay
<1>3. CASE \E row \in todo : CopyTask(row)
  <2>1. /\ times' = times /\ old' = old /\ cut' = cut
        /\ step \notin TimeSteps /\ step' \notin TimeSteps
    BY <1>3 DEF CopyTask
  <2>2. QED
    BY <2>1, TimesStay
<1>4. CASE CleanTimes \/ AddState \/ AddComment \/ MarkRunning \/ MarkDeleted \/ Finish
  <2>1. /\ old' = old /\ cut' = cut
        /\ step \notin TimeSteps /\ step' \notin TimeSteps
    BY <1>4 DEF CleanTimes, AddState, AddComment, MarkRunning, MarkDeleted, Finish, Kept
  <2>2. \/ times'.rows = times.rows
        \/ \E f \in {"running", "deleted"} : times'.rows = MarkedRows(f, f)
        \/ times'.rows = {row \in times.rows : row.owner # Zero}
        \/ times'.rows = {row \in times.rows : row.entry \notin Short}
    BY <1>4, TimesWritten
  <2>3. QED
    BY <2>1, <2>2, TimesStay
<1>5. CASE RenameTimes
  <2>1. "times" \notin cut => TimesIn(times.rows) /\ Once(times.rows)
    BY <1>5 DEF RenameTimes, Recorded
  <2>2. QED
    BY <1>5, <2>1 DEF RenameTimes, Recorded, TimesIn, Once
<1>6. CASE CreateTimes
  <2>1. "times" \notin cut => TimesIn(timesBackup.rows) /\ Once(timesBackup.rows)
    BY <1>6 DEF CreateTimes, Recorded
  <2>2. /\ times'.rows = {} /\ todo' = timesBackup.rows /\ step' = "copy_times"
        /\ UNCHANGED <<old, cut>>
    BY <1>6 DEF CreateTimes
  <2>3. QED
    BY <2>1, <2>2 DEF Recorded, TimesIn, Once
<1>7. ASSUME NEW row \in todo, CopyTime(row) PROVE Recorded'
  <2> DEFINE copy == TimeCopy(row, Cardinality(times.rows) + 1)
  <2>1. /\ times'.rows = times.rows \cup {copy} /\ todo' = todo \ {row}
        /\ step = "copy_times" /\ step' = step /\ UNCHANGED <<old, cut>>
    <3>1. times' = [columns |-> times.columns, rows |-> times.rows \cup {copy}]
      BY <1>7, TimesWritten
    <3> HIDE DEF copy
    <3>2. times'.rows = times.rows \cup {copy}
      BY <3>1
    <3>3. QED
      BY <1>7, <3>2 DEF CopyTime
  <2>2. row \in TimeRow /\ Cardinality(times.rows) + 1 \in Nat
    <3>1. IsFiniteSet(times.rows) /\ row \in TimeRow
      BY <2>1 DEF Stored, TimeTable
    <3>2. Cardinality(times.rows) \in Nat
      BY <3>1, FS_CardinalityType, Zenon
    <3>3. QED
      BY <3>1, <3>2
  <2>3. copy.entry = row.entry /\ copy.owner = row.owner
    BY <2>2, TimeRows
  <2> HIDE DEF copy
  <2> SUFFICES ASSUME "times" \notin cut
               PROVE  /\ TimesIn(times.rows \cup todo)' /\ Once(times.rows)' /\ Once(todo)'
                      /\ \A r \in times'.rows, s \in todo' : r.entry # s.entry
    BY <2>1 DEF Recorded
  <2>4. /\ TimesIn(times.rows \cup todo) /\ Once(times.rows) /\ Once(todo)
        /\ \A r \in times.rows, s \in todo : r.entry # s.entry
    BY <2>1 DEF Recorded
  <2>5. TimesIn(times.rows \cup todo)'
    BY <2>1, <2>3, <2>4 DEF TimesIn
  <2>6. Once(times.rows)' /\ Once(todo)'
    BY <2>1, <2>3, <2>4 DEF Once
  <2>7. \A r \in times'.rows, s \in todo' : r.entry # s.entry
    BY <2>1, <2>3, <2>4 DEF Once
  <2>8. QED
    BY <2>5, <2>6, <2>7
<1>8. CASE DropTimes
  <2>1. "times" \notin cut => TimesIn(times.rows) /\ Once(times.rows)
    <3>1. todo = {} => times.rows \cup todo = times.rows
      OBVIOUS
    <3>2. QED
      BY <1>8, <3>1 DEF DropTimes, Recorded
  <2>2. times' = times /\ step' = "add_idle" /\ UNCHANGED <<old, cut>>
    BY <1>8 DEF DropTimes
  <2>3. QED
    BY <2>1, <2>2 DEF Recorded, TimesIn, Once
<1>9. CASE Close
  <2>1. /\ step' = "closed" /\ cut \subseteq cut' /\ times' = times /\ old' = old
        /\ step \in TimeSteps /\ "times" \notin cut' => step = "copy_times" /\ todo = {}
    BY <1>9 DEF Close, Window, tableVars
  <2>2. "times" \notin cut' => TimesIn(times.rows) /\ Once(times.rows)
    <3>1. todo = {} => times.rows \cup todo = times.rows
      OBVIOUS
    <3>2. QED
      BY <2>1, <3>1 DEF Recorded
  <2>3. QED
    BY <2>1, <2>2 DEF Recorded, TimesIn, Once
<1>10. CASE UNCHANGED dbVars
  BY <1>10 DEF dbVars, tableVars, Recorded, TimesIn, Once
<1>11. QED
  BY <1>1, <1>2, <1>3, <1>4, <1>5, <1>6, <1>7, <1>8, <1>9, <1>10 DEF DbNext, Statement

-----------------------------------------------------------------------------
(* States *)

LEMMA StepStates == Stored /\ Columns /\ States /\ DbNext => States'
<1> SUFFICES ASSUME Stored, Columns, States, DbNext, old.version = 5 PROVE States'
  BY DEF DbNext, Statement, Open, RenameTasks, CreateTasks, DropTasks, CleanTimes, RenameTimes,
     CreateTimes, DropTimes, CopyTask, CopyTime, AddIdle, AddQuiet, AddState, AddComment,
     MarkRunning, MarkDeleted, CreateViews, Finish, Prepare, Begin, Close, dbVars, Kept, States
<1> USE DEF At, Then, UpdateSteps, TaskSteps, TimeSteps, MarkSteps,
            Unmarked, HalfMarked, FullyMarked
<1>five. version = 5 /\ step \notin UpdateSteps /\ times # NoTable /\ times.rows \subseteq TimeRow
  BY DEF States, Columns, NoTable, Stored, DbTypeOK
\* Nothing is marked, and no row is new.
<1>same. ASSUME version' = 5, old' = old, cut \subseteq cut', step' \notin UpdateSteps,
                times'.columns = times.columns, times'.rows \subseteq times.rows,
                step \notin MarkSteps, step' \notin MarkSteps
         PROVE  States'
  BY <1>same DEF States
<1>1. CASE Open
  BY <1>1, <1>five, <1>same DEF Open
<1>2. CASE AddIdle \/ AddQuiet \/ CreateViews \/ Prepare \/ Begin
  BY <1>2, <1>five, <1>same DEF AddIdle, AddQuiet, CreateViews, Prepare, Begin, tableVars, Kept
<1>3. CASE AddState
  <2>1. /\ times'.columns = times.columns \cup {"state"} /\ times'.rows = times.rows
        /\ step = "add_state"
        /\ step' = IF "state" \in times.columns THEN "add_comment" ELSE "mark_running"
        /\ UNCHANGED <<version, old, cut>>
    BY <1>3, TimesWritten DEF AddState, Kept
  <2>2. QED
    BY <1>five, <2>1 DEF States
<1>4. CASE MarkRunning \/ MarkDeleted
  <2>1. PICK f \in {"running", "deleted"} :
          /\ times'.columns = times.columns /\ times'.rows = MarkedRows(f, f)
          /\ step = IF f = "running" THEN "mark_running" ELSE "mark_deleted"
          /\ step' = IF f = "running" THEN "mark_deleted" ELSE "add_comment"
          /\ UNCHANGED <<version, old, cut>>
    BY <1>4, TimesWritten DEF MarkRunning, MarkDeleted, Kept
  <2>2. ASSUME NEW new \in times'.rows
        PROVE  \E row \in times.rows :
                 /\ new.entry = row.entry /\ new.running = row.running /\ new.deleted = row.deleted
                 /\ new.state = IF row[f] THEN f ELSE row.state
    <3>1. PICK row \in times.rows : new = MarkedRow(row, f, f)
      BY <2>1, <2>2 DEF MarkedRows
    <3>2. QED
      BY <1>five, <3>1, RowMarked
  <2>3. \A row \in times'.rows, was \in old.times :
          row.entry = was.entry => row.running = was.running /\ row.deleted = was.deleted
    BY <2>2 DEF States
  <2>4. "state" \in times.columns
    BY <2>1 DEF Columns
  <2>5. CASE f = "running"
    <3>1. \A row \in times.rows : row.state = "stopped"
      BY <2>1, <2>5 DEF States
    <3>2. \A row \in times'.rows : HalfMarked(row)
      BY <2>2, <2>5, <3>1
    <3>3. QED
      BY <1>five, <2>1, <2>3, <2>4, <2>5, <3>2 DEF States
  <2>6. CASE f = "deleted"
    <3>1. \A row \in times.rows : HalfMarked(row)
      BY <2>1, <2>6 DEF States
    <3>2. \A row \in times'.rows : FullyMarked(row)
      BY <2>2, <2>6, <3>1
    <3>3. QED
      BY <1>five, <2>1, <2>3, <2>4, <2>6, <3>2 DEF States
  <2>7. QED
    BY <2>5, <2>6
<1>5. CASE AddComment
  <2>1. /\ times'.columns = times.columns \cup {"comment"} /\ times'.rows = times.rows
        /\ step = "add_comment" /\ step' = "create_views" /\ UNCHANGED <<version, old, cut>>
    BY <1>5, TimesWritten DEF AddComment, Kept
  <2>2. QED
    BY <1>five, <2>1 DEF States
<1>6. CASE Finish
  <2>1. /\ times'.columns = times.columns /\ times'.rows \subseteq times.rows
        /\ step = "finish" /\ step' = "prepare" /\ version' = 5 /\ UNCHANGED <<old, cut>>
    BY <1>6, TimesWritten DEF Finish
  <2>2. QED
    BY <1>same, <2>1
<1>7. CASE Close
  <2>1. /\ step' = "closed" /\ cut \subseteq cut' /\ UNCHANGED <<version, times, old>>
        /\ step \in MarkSteps => "states" \in cut'
    BY <1>7 DEF Close, Window, tableVars
  <2>2. QED
    BY <1>five, <2>1 DEF States
<1>8. CASE UNCHANGED dbVars
  BY <1>8 DEF dbVars, tableVars, States
<1>9. ~ (RenameTasks \/ CreateTasks \/ DropTasks \/ CleanTimes \/ RenameTimes \/ CreateTimes
         \/ DropTimes \/ (\E row \in todo : CopyTask(row) \/ CopyTime(row)))
  BY <1>five DEF RenameTasks, CreateTasks, DropTasks, CleanTimes, RenameTimes, CreateTimes,
     DropTimes, CopyTask, CopyTime
<1>10. QED
  BY <1>1, <1>2, <1>3, <1>4, <1>5, <1>6, <1>7, <1>8, <1>9 DEF DbNext, Statement

-----------------------------------------------------------------------------
(* The database *)

LEMMA InitDbInv == DbInit => DbInv
<1> SUFFICES ASSUME DbInit PROVE DbInv
  OBVIOUS
<1> DEFINE columns == IF version = 4 THEN {"id"} ELSE {"id", "uuid"}
<1>1. /\ old \in OldDatabases /\ version = old.version /\ version \in {4, 5}
      /\ old.tasks \subseteq TaskRow /\ old.times \subseteq TimeRow /\ IsFiniteSet(old.times)
      /\ \A row \in old.times : row.state = "stopped"
      /\ \A r, s \in old.times : r.entry = s.entry => r = s
  BY DbAssumption DEF DbInit
<1>2. /\ tasks = [columns |-> columns, rows |-> old.tasks]
      /\ times = [columns |-> columns, rows |-> old.times]
      /\ tasksBackup = NoTable /\ timesBackup = NoTable
      /\ step = "closed" /\ todo = {} /\ cut = {}
      /\ views = IF version = 4 THEN "none" ELSE "tasks"
  BY DEF DbInit
<1>3. columns \subseteq {"id", "uuid"} /\ "id" \in columns /\ (version = 5 => "uuid" \in columns)
  BY <1>1
<1> HIDE DEF columns
<1>4. Stored
  <2>1. TypedTable(tasks, TaskColumn, TaskRow) /\ TypedTable(times, TimeColumn, TimeRow)
        /\ times.rows = old.times
    BY <1>1, <1>2, <1>3 DEF TypedTable, TaskColumn, TimeColumn
  <2>2. QED
    BY <1>1, <1>2, <2>1, EmptyTable, StoredParts DEF Step, ViewState, At
<1>5. Columns
  BY <1>1, <1>2, <1>3 DEF Columns, At, StartsAgain, UpdateSteps, TaskSteps, TimeSteps,
     UpgradeSteps, MarkSteps, LastSteps
<1>6. Tree
  BY <1>2 DEF Tree, TreeIn, At
<1>7. Recorded
  BY <1>1, <1>2 DEF Recorded, TimesIn, Once, At, TimeSteps
<1>8. States
  BY <1>1, <1>2, <1>3 DEF States, At, Unmarked, UpdateSteps, TaskSteps, TimeSteps, MarkSteps
<1>9. QED
  BY <1>4, <1>5, <1>6, <1>7, <1>8 DEF DbInv

LEMMA StepDbInv == DbInv /\ DbNext => DbInv'
BY StepStored, StepColumns, StepTree, StepRecorded, StepStates DEF DbInv

\* What a database that was opened has kept.
LEMMA OpenedKeeps == DbInv => TimeKept /\ BranchesKept /\ StatesKept /\ StartsAgain
<1> SUFFICES ASSUME DbInv PROVE TimeKept /\ BranchesKept /\ StatesKept /\ StartsAgain
  OBVIOUS
<1> USE DEF DbInv, At
<1>1. TimeKept
  <2> SUFFICES ASSUME step = "done", "times" \notin cut, NEW was \in old.times,
                      was.entry \notin Short, was.owner # Zero
               PROVE  \E row \in times.rows :
                        /\ row.owner = was.owner
                        /\ {r \in times.rows : r.entry = was.entry} = {row}
    BY DEF TimeKept
  <2>1. TimesIn(times.rows) /\ Once(times.rows)
    BY DEF Recorded, TimeSteps
  <2>2. PICK row \in times.rows : row.entry = was.entry /\ row.owner = was.owner
    BY <2>1 DEF TimesIn
  <2>3. {r \in times.rows : r.entry = was.entry} = {row}
    BY <2>1, <2>2 DEF Once
  <2>4. QED
    BY <2>2, <2>3
<1>2. BranchesKept
  BY DEF BranchesKept, Tree, TreeIn, Columns, TaskSteps
<1>3. StatesKept
  <2> SUFFICES ASSUME step = "done", old.version = 5, "states" \notin cut,
                      NEW row \in times.rows, NEW was \in old.times, row.entry = was.entry
               PROVE  /\ (row.state = "deleted") = was.deleted
                      /\ (row.state = "running") = (was.running /\ ~ was.deleted)
    BY DEF StatesKept
  <2>1. FullyMarked(row)
    BY DEF States, Columns, MarkSteps, LastSteps
  <2>2. row.running = was.running /\ row.deleted = was.deleted
    BY DEF States
  <2>3. row.running \in BOOLEAN /\ row.deleted \in BOOLEAN
    BY DEF Stored, TimeTable, TimeRow
  <2>4. QED
    BY <2>1, <2>2, <2>3 DEF FullyMarked
<1>4. StartsAgain
  BY DEF Columns
<1>5. QED
  BY <1>1, <1>2, <1>3, <1>4

-----------------------------------------------------------------------------
(* The processes *)

\* Only the process that has the lock touches the database.
LEMMA DbSteps == LockInv /\ [Next]_allVars => DbNext
<1> SUFFICES ASSUME LockInv, [Next]_allVars PROVE DbNext
  OBVIOUS
<1>1. CASE Opening
  BY <1>1 DEF Opening, DbNext
<1>2. ASSUME NEW p \in Process, Start(p) PROVE DbNext
  BY <1>2 DEF Start, DbNext, Begin, LockInv, dbVars, tableVars
<1>3. ASSUME NEW p \in Process,
             Listen(p) \/ Knock(p) \/ Poll(p) \/ ToggleWindow(p) \/ Quit(p)
      PROVE  DbNext
  BY <1>3 DEF Listen, Knock, Poll, ToggleWindow, Quit, DbNext
<1>4. ASSUME NEW p \in Process, Abort(p) \/ Unlock(p) \/ Crash(p) PROVE DbNext
  BY <1>4 DEF Abort, Unlock, Crash, DbNext
<1>5. CASE UNCHANGED allVars
  BY <1>5 DEF allVars, DbNext
<1>6. QED
  BY <1>1, <1>2, <1>3, <1>4, <1>5 DEF Next

LockParts ==
  /\ proc \in [Process -> {"off", "opening", "serving", "closing", "client"}]
  /\ holder \in Process \cup {NoProcess}
  /\ socket \in Process \cup {NoProcess}
  /\ pending \in [Process -> Seq(Process)]
  /\ \A p \in Process : Len(pending[p]) <= Backlog
  /\ \A p \in Process : proc[p] # "serving" => pending[p] = <<>>
  /\ shown \in BOOLEAN
  /\ \A p \in Process : proc[p] \in {"opening", "serving", "closing"} <=> holder = p
  /\ holder = NoProcess => step = "closed"
  /\ \A p \in Process : proc[p] = "serving" => socket = p

LEMMA LockInvParts == LockInv <=> DbTypeOK /\ LockParts
BY DEF LockInv, LaunchTypeOK, LockParts, SocketLeadsHere, At

LEMMA StepLockParts == LockParts /\ [Next]_allVars => LockParts'
<1> SUFFICES ASSUME LockParts, [Next]_allVars PROVE LockParts'
  OBVIOUS
<1> USE LaunchAssumption DEF LockParts, Goto, Then, At
<1>1. CASE Opening
  BY <1>1 DEF Opening, launchVars
<1>2. ASSUME NEW p \in Process, Start(p) PROVE LockParts'
  BY <1>2 DEF Start
<1>3. ASSUME NEW p \in Process, Abort(p) PROVE LockParts'
  BY <1>3 DEF Abort, Close
<1>4. ASSUME NEW p \in Process, Listen(p) PROVE LockParts'
  BY <1>4 DEF Listen, dbVars
<1>5. ASSUME NEW p \in Process, Knock(p) PROVE LockParts'
  BY <1>5 DEF Knock, dbVars
<1>6. ASSUME NEW p \in Process, Poll(p) PROVE LockParts'
  BY <1>6 DEF Poll, dbVars
<1>7. ASSUME NEW p \in Process, ToggleWindow(p) PROVE LockParts'
  BY <1>7 DEF ToggleWindow, dbVars
<1>8. ASSUME NEW p \in Process, Quit(p) PROVE LockParts'
  <2>1. /\ proc[p] = "serving" /\ proc' = [proc EXCEPT ![p] = "closing"]
        /\ pending' = [pending EXCEPT ![p] = <<>>] /\ shown' = FALSE
        /\ socket' = NoProcess /\ step' = step /\ holder' = holder
    BY <1>8 DEF Quit, dbVars
  <2>2. holder = p /\ \A q \in Process : q # p => proc[q] # "serving"
    BY <2>1
  <2>3. \A q \in Process : proc'[q] # "serving"
    BY <2>1, <2>2
  <2>4. pending' \in [Process -> Seq(Process)] /\ \A q \in Process : pending'[q] = <<>>
    BY <2>1, <2>2
  <2>5. \A q \in Process : Len(pending'[q]) <= Backlog
    BY <2>4
  <2>6. \A q \in Process : proc'[q] \in {"opening", "serving", "closing"} <=> holder' = q
    BY <2>1
  <2>7. QED
    BY <2>1, <2>3, <2>4, <2>5, <2>6
<1>9. ASSUME NEW p \in Process, Unlock(p) PROVE LockParts'
  BY <1>9 DEF Unlock, Close
<1>10. ASSUME NEW p \in Process, Crash(p) PROVE LockParts'
  <2>1. /\ holder = p /\ proc' = [proc EXCEPT ![p] = "off"]
        /\ pending' = [pending EXCEPT ![p] = <<>>] /\ shown' = FALSE
        /\ socket' = socket /\ step' = "closed" /\ holder' = NoProcess
    BY <1>10 DEF Crash, Close
  <2>2. \A q \in Process : proc'[q] \notin {"opening", "serving", "closing"}
    BY <2>1
  <2>3. pending' \in [Process -> Seq(Process)] /\ \A q \in Process : pending'[q] = <<>>
    BY <2>1
  <2>4. \A q \in Process : Len(pending'[q]) <= Backlog
    BY <2>3
  <2>5. QED
    BY <2>1, <2>2, <2>3, <2>4
<1>11. CASE UNCHANGED allVars
  BY <1>11 DEF allVars, launchVars, dbVars
<1>12. QED
  BY <1>1, <1>2, <1>3, <1>4, <1>5, <1>6, <1>7, <1>8, <1>9, <1>10, <1>11 DEF Next

LEMMA LaunchInvariant == Spec => []LaunchInv
<1>1. Init => LaunchInv
  <2> SUFFICES ASSUME Init PROVE LaunchInv
    OBVIOUS
  <2>1. DbInv
    BY InitDbInv DEF Init
  <2>2. LockParts
    <3>1. /\ proc = [p \in Process |-> "off"] /\ pending = [p \in Process |-> <<>>]
          /\ holder = NoProcess /\ socket = NoProcess /\ shown = FALSE /\ step = "closed"
      BY DEF Init, DbInit
    <3>2. pending \in [Process -> Seq(Process)] /\ \A p \in Process : Len(pending[p]) <= Backlog
      BY <3>1, LaunchAssumption
    <3>3. QED
      BY <3>1, <3>2, LaunchAssumption DEF LockParts
  <2>3. QED
    BY <2>1, <2>2, LockInvParts DEF LaunchInv, DbInv, Stored
<1>2. LaunchInv /\ [Next]_allVars => LaunchInv'
  <2> SUFFICES ASSUME LaunchInv, [Next]_allVars PROVE LaunchInv'
    OBVIOUS
  <2>1. DbInv'
    BY DbSteps, StepDbInv DEF LaunchInv
  <2>2. LockParts'
    BY LockInvParts, StepLockParts DEF LaunchInv
  <2>3. LockInv'
    BY <2>1, <2>2 DEF DbInv, Stored, LockInv, LaunchTypeOK, LockParts, SocketLeadsHere, At
  <2>4. QED
    BY <2>1, <2>3 DEF LaunchInv
<1>3. QED
  BY <1>1, <1>2, PTL DEF Spec

(***************************************************************************)
(* Type correctness of the database, the lock and the socket; the backlog  *)
(* of a socket never holds more than the system allows.                    *)
(***************************************************************************)
THEOREM LaunchTypeCorrect == Spec => []LaunchTypeOK
<1>1. LaunchInv => LaunchTypeOK
  BY DEF LaunchInv, LockInv
<1>2. QED
  BY <1>1, LaunchInvariant, PTL

(***************************************************************************)
(* Recorded time survives the upgrade of any old database, once, unless a  *)
(* process died while the times were copied (update_times_to_db_5).        *)
(***************************************************************************)
THEOREM UpgradeKeepsTime == Spec => []TimeKept
<1>1. LaunchInv => TimeKept
  BY OpenedKeeps DEF LaunchInv
<1>2. QED
  BY <1>1, LaunchInvariant, PTL

(***************************************************************************)
(* Where the program starts at all, no task is lost and none has left its  *)
(* parent, wherever and however often the upgrade was cut                  *)
(* (update_tasks_to_db_5).  Of a task without a parent it says only that   *)
(* it is in the table; TreeKept, which says more, does not hold.           *)
(***************************************************************************)
THEOREM UpgradeKeepsBranches == Spec => []BranchesKept
<1>1. LaunchInv => BranchesKept
  BY OpenedKeeps DEF LaunchInv
<1>2. QED
  BY <1>1, LaunchInvariant, PTL

(***************************************************************************)
(* Removed entries of version 5 stay removed and running ones run, unless  *)
(* a process died between the new column and its two updates               *)
(* (upgrade_times_to_db_6).                                                *)
(***************************************************************************)
THEOREM UpgradeKeepsStates == Spec => []StatesKept
<1>1. LaunchInv => StatesKept
  BY OpenedKeeps DEF LaunchInv
<1>2. QED
  BY <1>1, LaunchInvariant, PTL

(***************************************************************************)
(* Only a crash in the copy of the tasks, between their two new columns,   *)
(* or after the views were created and before the version was written      *)
(* (database.cpp:44-66) leaves a database the program cannot open any more.*)
(***************************************************************************)
THEOREM ProgramStartsAgain == Spec => []StartsAgain
<1>1. LaunchInv => StartsAgain
  BY OpenedKeeps DEF LaunchInv
<1>2. QED
  BY <1>1, LaunchInvariant, PTL

(***************************************************************************)
(* While a process serves, the name of the socket leads to it, whatever    *)
(* other processes start, knock, end or die (main.cpp, ipc_server).        *)
(***************************************************************************)
THEOREM NameLeadsToServer == Spec => []SocketLeadsHere
<1>1. LaunchInv => SocketLeadsHere
  BY DEF LaunchInv, LockInv
<1>2. QED
  BY <1>1, LaunchInvariant, PTL
=============================================================================
