------------------------------ MODULE TaskTree ------------------------------
(***************************************************************************)
(* The tables of tasks and times as the windows read them: the tree the    *)
(* parents of the tasks form, and the reports of time_accessor             *)
(* (lib/src/DB/time_accessor.cpp, task_accessor.cpp), which sum up the     *)
(* time of a task within a range and of all tasks below it.                *)
(*                                                                         *)
(* Versions are left out: what a writer is refused is not written.  Names, *)
(* idle times and comments are left out too.                               *)
(***************************************************************************)
EXTENDS Integers, FiniteSets, FiniteSetsExt

CONSTANTS
  TaskId, EntryId,
  Top           \* the parent of a top level task: NULL in the table

VARIABLES
  tasks,        \* tasks[t]: the row of t, or NoRow
  times         \* times[e]: the row of e, or NoRow

tables == <<tasks, times>>

NoRow == [none |-> TRUE]
TaskRow == [parent : TaskId \cup {Top}, deleted : BOOLEAN]
TimeRow == [owner : TaskId, start : Nat, stop : Nat,
            state : {"running", "stopped", "deleted"}]

Rows(table) == {id \in DOMAIN table : table[id] # NoRow}

TablesType ==
  /\ tasks \in [TaskId -> TaskRow \cup {NoRow}]
  /\ times \in [EntryId -> TimeRow \cup {NoRow}]
  /\ \A t \in Rows(tasks) : tasks[t].parent \in Rows(tasks) \cup {Top}
  /\ \A e \in Rows(times) : times[e].owner \in Rows(tasks)

-----------------------------------------------------------------------------
(* The tree.  Nothing in the table keeps it from having a cycle. *)

Parents(tk) == [t \in Rows(tk) |-> tk[t].parent]

\* t and everything a walk up meets
Chain(up, t) ==
  LET met[n \in 0 .. Cardinality(TaskId)] ==
        IF n = 0 THEN {t} ELSE met[n - 1] \cup ({up[u] : u \in met[n - 1]} \ {Top})
  IN  met[Cardinality(TaskId)]

Above(tk, t) == Chain(Parents(tk), t)
Below(tk, t) == {u \in Rows(tk) : t \in Above(tk, u)}
OnCycle(tk, t) == t \in Rows(tk) /\ tk[t].parent # Top /\ t \in Above(tk, tk[t].parent)

\* A walk up from t never ends.
EndlessAbove(tk, t) == \E u \in Above(tk, t) : OnCycle(tk, u)

\* task_accessor::by_parent_id, again and again from the top level
Reachable(tk) ==
  {t \in Rows(tk) : ~ EndlessAbove(tk, t) /\ \A u \in Above(tk, t) : ~ tk[u].deleted}

-----------------------------------------------------------------------------
(* The reports of time_accessor.  A range is [from, to]. *)

Always == [from |-> 0, to |-> -1]   \* no limits

Running(tm) == {tm[e].owner : e \in {f \in Rows(tm) : tm[f].state = "running"}}

Lengths(tm, t, Start(_), Stop(_), In(_)) ==
  MapThenSumSet(LAMBDA e : Stop(tm[e]) - Start(tm[e]),
                {e \in Rows(tm) : tm[e].owner = t /\ tm[e].state # "deleted" /\ In(tm[e])})

\* Mutant of DurationTime: what begins in the range is taken to end in it.
DurationTimeTwice(tm, t, r) ==
  LET Start(row) == row.start
      Stop(row) == row.stop
      From(row) == r.from
      To(row) == r.to
  IN  IF r = Always THEN Lengths(tm, t, Start, Stop, LAMBDA row : TRUE)
      ELSE Lengths(tm, t, Start, Stop, LAMBDA row : r.from <= row.start /\ row.start <= r.to)
         + Lengths(tm, t, Start, To, LAMBDA row : r.from < row.start /\ row.start < r.to /\ r.to < row.stop)
         + Lengths(tm, t, From, Stop, LAMBDA row : row.start < r.from /\ r.from < row.stop /\ row.stop < r.to)

\* time_accessor::duration_time: completely within the limits, passing the
\* end limit, passing the start limit
DurationTime(tm, t, r) ==
  LET Start(row) == row.start
      Stop(row) == row.stop
      From(row) == r.from
      To(row) == r.to
  IN  IF r = Always THEN Lengths(tm, t, Start, Stop, LAMBDA row : TRUE)
      ELSE Lengths(tm, t, Start, Stop, LAMBDA row : r.from <= row.start /\ row.stop <= r.to)
         + Lengths(tm, t, Start, To, LAMBDA row : r.from < row.start /\ row.start < r.to /\ r.to < row.stop)
         + Lengths(tm, t, From, Stop, LAMBDA row : row.start < r.from /\ r.from < row.stop /\ row.stop < r.to)

\* time_accessor::total_cumulative_time, removed tasks below t included
Total(tk, tm, t, r) == MapThenSumSet(LAMBDA u : DurationTime(tm, u, r), Below(tk, t))

\* time_accessor::active_tasks.  AND binds closer than OR: only a row that
\* covers the whole range has to be one that is not deleted.
ActiveTasks(tk, tm, r) ==
  LET Hit(row) == \/ r.from <= row.start /\ row.start <= r.to
                  \/ r.from <= row.stop /\ row.stop <= r.to
                  \/ row.start < r.from /\ r.to < row.stop /\ row.state # "deleted"
  IN  {t \in Rows(tk) : ~ tk[t].deleted /\ \E e \in Rows(tm) : tm[e].owner = t /\ Hit(tm[e])}
=============================================================================
