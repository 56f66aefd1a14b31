------------------------------- MODULE Views -------------------------------
(***************************************************************************)
(* The main window: the list of tasks (gui/main_window/task_list.cpp) and  *)
(* a summary of a day (summary.cpp) keep rows of their own, which the      *)
(* notifications of the tables bring up to date -- row by row where they   *)
(* can, anew where they cannot, and later when the summary is behind       *)
(* another tab.  The writers are the keeper, the dialogs, of which the one *)
(* for tasks is modelled with what it holds, and the synchronisation.      *)
(*                                                                         *)
(* A handler is one step: nothing comes between a statement and the        *)
(* notifications it sends.                                                 *)
(***************************************************************************)
EXTENDS TaskTree, Sequences

CONSTANTS
  Days,       \* the ranges the calendar can select
  ZeroTime,   \* Gz: a timer that is stopped earlier is dropped
  Spans,      \* bound: the starts and stops that are written
  Remote,     \* bound: the synchronisation writes too
  MaxWrites   \* bound: the number of rows written

ASSUME ViewsAssumption ==
  /\ IsFiniteSet(TaskId) /\ IsFiniteSet(EntryId) /\ Top \notin TaskId
  /\ Days \subseteq [from : Nat, to : Nat] /\ Days # {} /\ IsFiniteSet(Days)
  /\ Spans \subseteq [start : Nat, stop : Nat]
  /\ \A s \in Spans : s.start <= s.stop
  /\ ZeroTime \in Nat /\ MaxWrites \in Nat /\ Remote \in BOOLEAN

VARIABLES
  alive,      \* the program runs
  list,       \* the rows of the task list
  unlisted,   \* history: tasks a newer version has brought back
  summary,    \* the rows of the summary and what they were made for
  dialog,     \* the task dialog, or NoRow
  writes      \* the number of writes so far

vars == <<tables, alive, list, unlisted, summary, dialog, writes>>

ListRow == [up : TaskId \cup {Top}, time : Nat, running : BOOLEAN]

(***************************************************************************)
(* rows[t]: the times of the rows that show t -- there can be two of them, *)
(* and only the first one has rows below it.  tree: the parents when it    *)
(* was populated.  needs: needs_re_population.  stirred is history: the    *)
(* tree has changed since.                                                 *)
(***************************************************************************)
Summary == [rows : [TaskId -> Seq(Nat)], tree : [TaskId -> TaskId \cup {Top}],
            range : Days, visible : BOOLEAN, needs : BOOLEAN, stirred : BOOLEAN]

Dialog == [task : TaskId \cup {Top},   \* Top: a new one
           parent : TaskId \cup {Top}, choices : SUBSET TaskId]

ViewsTypeOK ==
  /\ TablesType
  /\ list \in [TaskId -> ListRow \cup {NoRow}]
  /\ summary \in Summary /\ dialog \in Dialog \cup {NoRow}
  /\ alive \in BOOLEAN /\ unlisted \subseteq TaskId /\ writes \in 0 .. MaxWrites
  /\ \A t \in Rows(list) : list[t].up # Top => list[t].up \in Rows(list)
  /\ \A t \in TaskId :
       summary.rows[t] # <<>> /\ summary.tree[t] # Top
       => summary.rows[summary.tree[t]] # <<>>

-----------------------------------------------------------------------------
(* task_list_widget *)

ShownInList(tk, tm, t) ==
  [up |-> tk[t].parent, time |-> Total(tk, tm, t, Always), running |-> t \in Running(tm)]

\* populate
ListOf(tk, tm) ==
  [t \in TaskId |-> IF t \in Reachable(tk) THEN ShownInList(tk, tm, t) ELSE NoRow]

\* Mutant of ListUpdated: the parents are not updated.
ListUpdatedAlone(l, tk, tm, t) ==
  IF l[t] = NoRow THEN l
  ELSE [l EXCEPT ![t] = [ShownInList(tk, tm, t) EXCEPT !.up = l[t].up]]

\* on_task_updated: the row of t and those of its parents, if they are there
ListUpdated(l, tk, tm, t) ==
  [u \in TaskId |-> IF u \in Above(tk, t) /\ l[u] # NoRow
                    THEN [ShownInList(tk, tm, u) EXCEPT !.up = l[u].up] ELSE l[u]]

\* The rows that go with the row of t
Hanging(up, t) == {u \in DOMAIN up : t \in Chain(up, u)}

\* on_task_removed
ListErased(l, t) ==
  IF l[t] = NoRow THEN l
  ELSE LET gone == Hanging([u \in Rows(l) |-> l[u].up], t)
       IN  [u \in TaskId |-> IF u \in gone THEN NoRow ELSE l[u]]

-----------------------------------------------------------------------------
(* summary *)

Blank == [t \in TaskId |-> <<>>]

PopulateEnds(s, tk, tm) ==
  s.visible => \A t \in ActiveTasks(tk, tm, s.range) : ~ EndlessAbove(tk, t)

(***************************************************************************)
(* populate: create_row for every active task, in the order the database   *)
(* returns them.  It makes the rows of the parents that are missing, and   *)
(* one for the task itself, also when it was made as a parent before.      *)
(***************************************************************************)
Populated(s, tk, tm) ==
  LET active == ActiveTasks(tk, tm, s.range)
      shown == UNION {Above(tk, t) : t \in active}
      parents == {t \in active : \E u \in active \ {t} : t \in Above(tk, u)}
      TotalOf(t) == Total(tk, tm, t, s.range)
      RowsOf(twice) == [t \in TaskId |-> IF t \in twice THEN <<TotalOf(t), TotalOf(t)>>
                                         ELSE IF t \in shown THEN <<TotalOf(t)>> ELSE <<>>]
  IN  IF s.visible
      THEN {[s EXCEPT !.rows = RowsOf(twice), !.needs = FALSE, !.stirred = FALSE,
                      !.tree = [t \in TaskId |-> IF t \in Rows(tk) THEN tk[t].parent ELSE Top]] :
              twice \in SUBSET parents}
      ELSE {[s EXCEPT !.rows = Blank, !.needs = TRUE]}

\* find_row fails for t or for one of its parents
Lacks(s, tk, t) == s.visible /\ \E u \in Above(tk, t) : s.rows[u] = <<>>

\* Mutant of SummaryUpdated: a summary that is hidden is not marked.
SummaryUpdatedUnmarked(s, tk, tm, t) ==
  IF ~ s.visible THEN {s}
  ELSE IF Lacks(s, tk, t) THEN Populated(s, tk, tm)
  ELSE {[s EXCEPT !.rows = [u \in TaskId |->
            IF u \in Above(tk, t) THEN <<Total(tk, tm, u, s.range)>> \o Tail(s.rows[u])
            ELSE s.rows[u]]]}

\* on_task_updated; of two rows of a task the first one is found.
SummaryUpdated(s, tk, tm, t) ==
  IF ~ s.visible THEN {[s EXCEPT !.needs = TRUE]}
  ELSE IF Lacks(s, tk, t) THEN Populated(s, tk, tm)
  ELSE {[s EXCEPT !.rows = [u \in TaskId |->
            IF u \in Above(tk, t) THEN <<Total(tk, tm, u, s.range)>> \o Tail(s.rows[u])
            ELSE s.rows[u]]]}

\* Mutant of SummaryErased: the rows below stay.
SummaryErasedAlone(s, t) ==
  IF s.rows[t] = <<>> THEN s ELSE [s EXCEPT !.rows[t] = Tail(@)]

\* on_task_removed
SummaryErased(s, t) ==
  IF s.rows[t] = <<>> THEN s
  ELSE LET gone == Hanging(s.tree, t)
       IN  [s EXCEPT !.rows = [u \in TaskId |-> IF u = t THEN Tail(s.rows[t])
                                                ELSE IF u \in gone THEN <<>>
                                                ELSE s.rows[u]]]

-----------------------------------------------------------------------------
(* The handlers of a write.  A walk that does not end overflows the stack. *)

Nothing ==
  /\ alive' = FALSE
  /\ list' = [t \in TaskId |-> NoRow] /\ unlisted' = {}
  /\ summary' = [summary EXCEPT !.rows = Blank, !.needs = FALSE, !.stirred = FALSE,
                                !.tree = [t \in TaskId |-> Top]]

Survives(tk, tm, t) ==
  /\ ~ EndlessAbove(tk, t)
  /\ Lacks(summary, tk, t) => PopulateEnds(summary, tk, tm)

Write == alive /\ writes < MaxWrites /\ writes' = writes + 1

\* The dialog keeps what it holds, unless the program is gone.
DialogStays == dialog' = IF alive' THEN dialog ELSE NoRow

(***************************************************************************)
(* time_accessor::create and update: the time of the task has changed, and *)
(* when the running tasks have changed the list is populated anew.         *)
(***************************************************************************)
TimeWritten(tm, t) ==
  /\ times' = tm /\ UNCHANGED tasks
  /\ IF Survives(tasks, tm, t)
     THEN /\ IF Running(tm) = Running(times)
             THEN list' = ListUpdated(list, tasks, tm, t) /\ UNCHANGED unlisted
             ELSE list' = ListOf(tasks, tm) /\ unlisted' = {}
          /\ summary' \in SummaryUpdated(summary, tasks, tm, t)
          /\ UNCHANGED alive
     ELSE Nothing

CreateTime(e, row) ==
  /\ Write /\ e \notin Rows(times) /\ row.owner \in Rows(tasks) /\ row.state # "deleted"
  /\ LET tm == [times EXCEPT ![e] = row]
     IN  IF row.start # row.stop THEN TimeWritten(tm, row.owner)
         ELSE /\ times' = tm
              /\ IF Running(tm) = Running(times) THEN UNCHANGED <<list, unlisted>>
                 ELSE list' = ListOf(tasks, tm) /\ unlisted' = {}
              /\ UNCHANGED <<tasks, alive, summary>>
  /\ DialogStays

\* The owner of a row never changes.
UpdateTime(e, row) ==
  /\ Write /\ e \in Rows(times) /\ row # times[e] /\ row.owner = times[e].owner
  /\ TimeWritten([times EXCEPT ![e] = row], row.owner)
  /\ DialogStays

\* time_manager::on_task_removed
TimersStopped(t) ==
  [e \in EntryId |->
     IF times[e] # NoRow /\ times[e].owner = t /\ times[e].state = "running"
     THEN [times[e] EXCEPT !.state =
             IF times[e].stop - times[e].start < ZeroTime THEN "deleted" ELSE "stopped"]
     ELSE times[e]]

\* Mutant of WriteTask: the list does not hear of a new parent.
WriteTaskQuietly(t, row) ==
  LET tk == [tasks EXCEPT ![t] = row]
      gone == row.deleted /\ ~ tasks[t].deleted
      tm == IF gone THEN TimersStopped(t) ELSE times
  IN  /\ tasks' = tk /\ times' = tm
      /\ list' = IF gone THEN ListErased(list, t) ELSE list
      /\ unlisted' = IF tasks[t].deleted /\ ~ row.deleted THEN unlisted \cup {t} ELSE unlisted
      /\ summary' = [IF gone THEN SummaryErased(summary, t) ELSE summary EXCEPT !.stirred = TRUE]
      /\ UNCHANGED alive

(***************************************************************************)
(* task_accessor::update with its notifications: on_parent_changed, for    *)
(* which only the list listens, then on_task_removed, for which the keeper *)
(* listens first.  Of a task that comes back nobody is told.               *)
(***************************************************************************)
WriteTask(t, row) ==
  LET tk == [tasks EXCEPT ![t] = row]
      moved == row.parent # tasks[t].parent
      gone == row.deleted /\ ~ tasks[t].deleted
      back == tasks[t].deleted /\ ~ row.deleted
      tm == IF gone THEN TimersStopped(t) ELSE times
      anew == moved \/ tm # times
      updated == IF tm = times THEN {summary} ELSE SummaryUpdated(summary, tk, tm, t)
  IN  /\ tasks' = tk /\ times' = tm
      /\ IF tm # times /\ ~ Survives(tk, tm, t) THEN Nothing
         ELSE /\ list' = IF anew THEN ListOf(tk, tm)
                         ELSE IF gone THEN ListErased(list, t) ELSE list
              /\ unlisted' = IF anew THEN {} ELSE IF back THEN unlisted \cup {t} ELSE unlisted
              /\ summary' \in {[IF gone THEN SummaryErased(s, t) ELSE s
                                EXCEPT !.stirred = TRUE] : s \in updated}
              /\ UNCHANGED alive

\* task_accessor::create
NewTask(t, parent) ==
  /\ tasks' = [tasks EXCEPT ![t] = [parent |-> parent, deleted |-> FALSE]]
  /\ list' = ListOf(tasks', times) /\ unlisted' = {}
  /\ UNCHANGED <<times, alive, summary>>

-----------------------------------------------------------------------------
(* The user *)

\* on_edit_task; the chooser offers every task but the edited one.
\* Bound: the user does not turn an open dialog to another task, and opens
\* one as long as something can be written.
EditTask(t) ==
  /\ alive /\ writes < MaxWrites /\ dialog = NoRow /\ t \in Rows(list)
  /\ dialog' = [task |-> t, parent |-> tasks[t].parent, choices |-> Reachable(tasks) \ {t}]
  /\ UNCHANGED <<tables, alive, list, unlisted, summary, writes>>

\* on_add_task, below the row that is selected
AddTask(p) ==
  /\ alive /\ writes < MaxWrites /\ dialog = NoRow /\ Rows(tasks) # TaskId
  /\ p \in Rows(list) \cup {Top}
  /\ dialog' = [task |-> Top, parent |-> p, choices |-> Reachable(tasks)]
  /\ UNCHANGED <<tables, alive, list, unlisted, summary, writes>>

\* on_ok_button_clicked: the row is read anew and takes the parent chosen.
Accept(p) ==
  /\ dialog # NoRow /\ p \in dialog.choices \cup {dialog.parent, Top}
  /\ dialog' = NoRow
  /\ IF dialog.task = Top
     THEN Write /\ \E t \in TaskId \ Rows(tasks) : NewTask(t, p)
     ELSE IF tasks[dialog.task].parent = p
     THEN UNCHANGED <<tables, alive, list, unlisted, summary, writes>>
     ELSE Write /\ WriteTask(dialog.task, [tasks[dialog.task] EXCEPT !.parent = p])

Cancel ==
  /\ dialog # NoRow /\ dialog' = NoRow
  /\ UNCHANGED <<tables, alive, list, unlisted, summary, writes>>

\* main_window::on_action_remove_task, for the row that is selected
\* Bound: the tables do not change while the question before it is open.
RemoveTask(t) ==
  /\ Write /\ t \in Rows(list)
  /\ ~ tasks[t].deleted
  /\ WriteTask(t, [tasks[t] EXCEPT !.deleted = TRUE])
  /\ DialogStays

\* A write to the summary alone
Look(s) ==
  /\ alive
  /\ summary' \in s
  /\ UNCHANGED <<tables, list, unlisted, dialog, writes>>

\* Another tab of the notebook is chosen.
ChangeTab == Look({[summary EXCEPT !.visible = ~ @]}) /\ UNCHANGED alive

\* Populating the summary, which may not end
Populate(s) ==
  IF PopulateEnds(s, tasks, times)
  THEN Look(Populated(s, tasks, times)) /\ UNCHANGED alive
  ELSE alive /\ Nothing /\ UNCHANGED <<tables, writes>> /\ DialogStays

\* on_focus
Focus == summary.visible /\ summary.needs /\ Populate(summary)

\* on_date_changed
PickDay(r) ==
  LET s == [summary EXCEPT !.range = r]
  IN  /\ summary.needs \/ r # summary.range
      /\ IF s.visible THEN Populate(s)
         ELSE Look({[s EXCEPT !.needs = TRUE]}) /\ UNCHANGED alive

-----------------------------------------------------------------------------
(* The other writers, and the life of the process *)

\* The keeper and the dialogs for times
WriteTime(e, t, span, st) ==
  /\ alive
  /\ LET row == [owner |-> t, start |-> span.start, stop |-> span.stop, state |-> st]
     IN  CreateTime(e, row) \/ UpdateTime(e, row)

\* sync_tasks_to_database: a task that is not known and deleted is skipped.
SyncTask(t, row) ==
  /\ Remote /\ Write
  /\ row.parent \in (Rows(tasks) \cup {Top}) \ {t}
  /\ IF t \in Rows(tasks) THEN row # tasks[t] /\ WriteTask(t, row)
     ELSE ~ row.deleted /\ NewTask(t, row.parent)
  /\ DialogStays

Quit == alive /\ Nothing /\ DialogStays /\ UNCHANGED <<tables, writes>>

\* The main window is made with its first tab: the list is populated, and
\* set_references takes the day from the calendar.
Launch ==
  /\ ~ alive
  /\ LET s == [summary EXCEPT !.visible = TRUE]
     IN  IF PopulateEnds(s, tasks, times)
         THEN /\ summary' \in Populated(s, tasks, times)
              /\ alive' = TRUE /\ list' = ListOf(tasks, times) /\ unlisted' = {}
         ELSE UNCHANGED <<alive, list, unlisted, summary>>
  /\ UNCHANGED <<tables, dialog, writes>>

-----------------------------------------------------------------------------
\* Any tree, and no times yet
Init ==
  /\ tasks \in [TaskId -> TaskRow \cup {NoRow}]
  /\ \A t \in Rows(tasks) : tasks[t].parent \in Rows(tasks) \cup {Top}
  /\ \A t \in Rows(tasks) : ~ tasks[t].deleted /\ ~ OnCycle(tasks, t)
  /\ times = [e \in EntryId |-> NoRow]
  /\ alive = FALSE /\ list = [t \in TaskId |-> NoRow] /\ unlisted = {}
  /\ summary \in {[rows |-> Blank, tree |-> [t \in TaskId |-> Top], range |-> r,
                   visible |-> TRUE, needs |-> FALSE, stirred |-> FALSE] : r \in Days}
  /\ dialog = NoRow /\ writes = 0

Next ==
  \/ \E t \in TaskId : EditTask(t) \/ RemoveTask(t)
  \/ \E p \in TaskId \cup {Top} : AddTask(p) \/ Accept(p)
  \/ Cancel \/ ChangeTab \/ Focus
  \/ \E r \in Days : PickDay(r)
  \/ \E e \in EntryId, t \in TaskId, span \in Spans, st \in {"running", "stopped", "deleted"} :
       WriteTime(e, t, span, st)
  \/ \E t \in TaskId, row \in TaskRow : SyncTask(t, row)
  \/ Quit \/ Launch

Spec == Init /\ [][Next]_vars

-----------------------------------------------------------------------------
(***************************************************************************)
(* The list shows every task that can be reached from the top level, where *)
(* it is in the tree, with the aggregated time and the mark of a timer --  *)
(* whatever was written, by whom, and in which order.  Only a task that a  *)
(* newer version has brought back is missing with what is below it until   *)
(* the list is populated again (task_accessor.cpp:302).                    *)
(***************************************************************************)
ListFollowsTables ==
  alive =>
    LET missing == UNION {Below(tasks, t) : t \in unlisted}
        now == ListOf(tasks, times)
    IN  \A t \in TaskId \ missing : list[t] = now[t]

(***************************************************************************)
(* As long as only times are written, a summary that is not marked as      *)
(* outdated has a row for every task with time in its day and for the      *)
(* parents, and the row that is found shows the accumulated time -- also   *)
(* when the summary was hidden meanwhile, or was shown for another day.    *)
(***************************************************************************)
SummaryFollowsTimes ==
  alive /\ ~ summary.needs /\ ~ summary.stirred =>
    /\ \A t \in ActiveTasks(tasks, times, summary.range), u \in TaskId :
         DurationTime(times, t, summary.range) > 0 /\ u \in Above(tasks, t)
         => summary.rows[u] # <<>>
    /\ \A t \in TaskId :
         summary.rows[t] # <<>> =>
           Head(summary.rows[t]) = Total(tasks, times, t, summary.range)

(***************************************************************************)
(* A second of a task is in the total of one day at most: the three sums   *)
(* of duration_time count no part of an entry twice.                       *)
(***************************************************************************)
NoSecondInTwoDays ==
  \A t \in TaskId :
    MapThenSumSet(LAMBDA r : DurationTime(times, t, r), Days)
      <= DurationTime(times, t, Always)

(***************************************************************************)
(* "Tasks can be organized in a tree" (doc/html/C/index.html:54): no task  *)
(* is below itself.                                                        *)
(***************************************************************************)
TreeStaysATree == \A t \in TaskId : ~ OnCycle(tasks, t)
=============================================================================
