----------------------------- MODULE TimeKeeper -----------------------------
(***************************************************************************)
(* time_manager (lib/src/Logic/time_keeper.cpp): starting and stopping the *)
(* timers of tasks, and the handler that every ten seconds stops the       *)
(* timers of an absent user and extends those of a present one.            *)
(*                                                                         *)
(* The program is one thread, so a handler is never interleaved with       *)
(* another one, but each SQL statement commits by itself: the process can  *)
(* die between any two of them.  A handler that runs several statements is *)
(* therefore a sequence of actions, one per statement, during which `pc'   *)
(* is not "ready" and only the handler itself or a crash can take a step.  *)
(* The copies of the rows the handler read at its beginning are in `todo'. *)
(*                                                                         *)
(* What the observers of the keeper do in the handler is part of it: the   *)
(* controller writes "paused" into an entry that was idle too long, and    *)
(* the status icon asks the keeper whether anything runs.                  *)
(***************************************************************************)
EXTENDS TimeStore

CONSTANTS
  Quiet,             \* the tasks whose owner wants no idle dialog
  TaskIdle,          \* TaskIdle[t]: the task's own idle time, 0 for none
  IdleTimes,         \* values the setting Gt (default idle time) may have
  ZeroTimes,         \* values the setting Gz (zero time) may have
  ShortSpan,         \* 60 seconds
  ActiveLimit,       \* 10 seconds without input: the user is not active
  ClockSteps,        \* bound: how far the clock moves in one step
  MaxSetBacks,       \* bound: how often the wall clock is set back
  MayCrash,          \* the process may die inside a handler
  MaxTime,           \* bound: the last moment of a behaviour
  Horizon            \* bound: the last moment the user does something

ASSUME KeeperAssumption ==
  /\ Quiet \subseteq TaskId
  /\ TaskIdle \in [TaskId -> Nat]
  /\ IdleTimes \subseteq Nat /\ ZeroTimes \subseteq Nat
  /\ \E g \in IdleTimes, z \in ZeroTimes : z < g
  /\ ShortSpan \in Nat /\ ActiveLimit \in Nat
  /\ ClockSteps \subseteq Nat \ {0}
  /\ MaxSetBacks \in Nat /\ MayCrash \in BOOLEAN
  /\ MaxTime \in Nat /\ Horizon \in Nat

VARIABLES
  now,         \* the wall clock
  sinceInput,  \* time since the last input of the user
  setBacks,    \* history: how often the wall clock was set back
  gt, gz,      \* default_idle_time and idle_gz
  removed,     \* the tasks that are marked deleted
  pc,          \* what the main loop is doing
  todo,        \* the rows the running handler still has to write
  toNotify,    \* the rows it still has to announce as idle
  oldRunning,  \* old_running: the running tasks when an entry last changed
  icon         \* the status icon shows that a timer is running

envVars == <<now, sinceInput, setBacks>>
settingVars == <<gt, gz>>
viewVars == <<oldRunning, icon>>
vars == <<times, envVars, settingVars, removed, pc, todo, toNotify, viewVars>>

PC == {"off", "ready", "check", "extend", "drain"}

TypeOK ==
  /\ TimesType
  /\ now \in Nat /\ sinceInput \in Nat /\ setBacks \in 0 .. MaxSetBacks
  /\ gt \in IdleTimes /\ gz \in ZeroTimes
  /\ removed \subseteq TaskId
  /\ pc \in PC
  /\ todo \subseteq TimeEntry /\ toNotify \subseteq TimeEntry
  /\ oldRunning \subseteq TaskId /\ icon \in BOOLEAN

-----------------------------------------------------------------------------
(* Helpers *)

IsRunning(t) == t \in RunningTasks

IdleLimit(t) == IF TaskIdle[t] = 0 THEN gt ELSE TaskIdle[t]

\* Mutant of UserIsActive: the idle time of the display is never asked for.
UserAlwaysActive == TRUE

\* time_manager::user_is_active
UserIsActive == sinceInput < ActiveLimit

\* Mutant of Observe: the keeper itself never calls notify_running_changed.
ObserveOnlyBroadcasts(explicit) ==
  LET broadcast == times' # times IN
  /\ oldRunning' = IF broadcast THEN RunningTasks' ELSE oldRunning
  /\ icon' = IF broadcast /\ RunningTasks' # oldRunning
             THEN RunningTasks' # {} ELSE icon

(***************************************************************************)
(* What the observers do after a write.  on_time_entry_changed is          *)
(* broadcast only when the row was really written; it calls                *)
(* on_running_changed when the set of running tasks differs from the last  *)
(* one seen.  `explicit' says that the keeper calls notify_running_changed *)
(* itself.  The icon then asks has_running_tasks().                        *)
(***************************************************************************)
Observe(explicit) ==
  LET broadcast == times' # times IN
  /\ oldRunning' = IF broadcast THEN RunningTasks' ELSE oldRunning
  /\ icon' = IF explicit \/ (broadcast /\ RunningTasks' # oldRunning)
             THEN RunningTasks' # {} ELSE icon

\* Mutant of StopTime: a timer that is stopped is extended to this moment.
StopTimeLate(item) ==
  /\ Update(With(WithStop(item, now, now),
                 IF item.stop - item.start < gz THEN "deleted" ELSE "stopped",
                 now))
  /\ Observe(TRUE)

\* Mutant of StopTime: an entry as long as the zero time is dropped too.
StopTimeTooEager(item) ==
  /\ Update(With(item,
                 IF item.stop - item.start <= gz THEN "deleted" ELSE "stopped",
                 now))
  /\ Observe(TRUE)

\* time_manager::stop_time, from the copy `item' of the row.
StopTime(item) ==
  /\ Update(With(item,
                 IF item.stop - item.start < gz THEN "deleted" ELSE "stopped",
                 now))
  /\ Observe(TRUE)

\* Mutant of StartTime: the running entries are not looked at.
StartUnchecked(t) ==
  /\ \E e \in EntryId :
       Create([id |-> e, owner |-> t, start |-> now, stop |-> now,
               changed |-> now, state |-> "running"])
  /\ Observe(TRUE)

\* time_manager::start
StartTime(t) ==
  /\ ~ IsRunning(t)
  /\ \E e \in EntryId :
       Create([id |-> e, owner |-> t, start |-> now, stop |-> now,
               changed |-> now, state |-> "running"])
  /\ Observe(TRUE)

-----------------------------------------------------------------------------
(* The environment *)

\* Bounds: the clock stops at MaxTime, and so does the count of the time
\* without input; the user does nothing after Horizon.
UserActs ==
  /\ pc = "ready" /\ now <= Horizon
  /\ sinceInput' = 0 /\ UNCHANGED setBacks

Advance(d) ==
  /\ pc \in {"ready", "off"}
  /\ now + d <= MaxTime
  /\ now' = now + d
  /\ sinceInput' = IF sinceInput + d <= MaxTime THEN sinceInput + d ELSE MaxTime
  /\ UNCHANGED <<times, setBacks, settingVars, removed, pc, todo, toNotify, viewVars>>

\* The wall clock is set back; the input idle time of the display is not.
StepBack ==
  /\ pc = "ready"
  /\ setBacks < MaxSetBacks /\ setBacks' = setBacks + 1
  /\ \E d \in ClockSteps : d <= now /\ now' = now - d
  /\ UNCHANGED <<times, sinceInput, settingVars, removed, pc, todo, toNotify, viewVars>>

UserInput ==
  /\ UserActs
  /\ UNCHANGED <<times, now, settingVars, removed, pc, todo, toNotify, viewVars>>

\* Mutant of SaveSettings: the two fields are mixed up.
SaveSettingsSwapped(g, z) ==
  /\ UserActs
  /\ z < g
  /\ gt' = z /\ gz' = g
  /\ UNCHANGED <<times, now, removed, pc, todo, toNotify, viewVars>>

\* preference_dialog::save, allowed by the dialog only when Gz < Gt.
SaveSettings(g, z) ==
  /\ UserActs
  /\ z < g
  /\ gt' = g /\ gz' = z
  /\ UNCHANGED <<times, now, removed, pc, todo, toNotify, viewVars>>

-----------------------------------------------------------------------------
(* The user starts and stops timers *)

Start(t) ==
  /\ UserActs
  /\ StartTime(t)
  /\ UNCHANGED <<now, settingVars, removed, pc, todo, toNotify>>

\* time_manager::stop: the first running entry of the task.
Stop(t) ==
  /\ UserActs
  /\ \E item \in ByState("running") : item.owner = t /\ StopTime(item)
  /\ UNCHANGED <<now, settingVars, removed, pc, todo, toNotify>>

\* time_manager::toggle
Toggle(t) ==
  /\ UserActs
  /\ IF IsRunning(t)
     THEN \E item \in ByState("running") : item.owner = t /\ StopTime(item)
     ELSE StartTime(t)
  /\ UNCHANGED <<now, settingVars, removed, pc, todo, toNotify>>

\* Stopping a whole list of entries: the copies are read here, and each of
\* them is written by a Drain of its own.
BeginDrain(items) ==
  /\ todo' = items
  /\ pc' = IF items = {} THEN "ready" ELSE "drain"

\* time_manager::stop_all
StopAll ==
  /\ UserActs
  /\ BeginDrain(ByState("running"))
  /\ UNCHANGED <<times, now, settingVars, removed, toNotify, viewVars>>

\* Mutant of RemoveTask: on_task_removed does nothing.
RemoveAndForget(t) ==
  /\ UserActs
  /\ removed' = removed \cup {t}
  /\ UNCHANGED <<times, now, settingVars, pc, todo, toNotify, viewVars>>

\* task_accessor::remove, which marks the task, and then on_task_removed.  A
\* removal the version test refuses, after the clock was set back, changes
\* nothing, as UserInput.
RemoveTask(t) ==
  /\ UserActs
  /\ removed' = removed \cup {t}
  /\ BeginDrain({item \in ByState("running") : item.owner = t})
  /\ UNCHANGED <<times, now, settingVars, toNotify, viewVars>>

Drain(item) ==
  /\ pc = "drain" /\ item \in todo
  /\ StopTime(item)
  /\ todo' = todo \ {item}
  /\ pc' = IF todo' = {} THEN "ready" ELSE "drain"
  /\ UNCHANGED <<envVars, settingVars, removed, toNotify>>

-----------------------------------------------------------------------------
(* time_manager::on_signal_10_seconds *)

\* The running rows that have not been extended for longer than they may.
Expired == {item \in ByState("running") : now - item.stop > IdleLimit(item.owner)}

\* Mutant of TickBegin: an active user's timers are not checked.
TickBeginIfAbsent ==
  /\ pc = "ready"
  /\ pc' = "check"
  /\ todo' = IF UserIsActive THEN {} ELSE Expired
  /\ toNotify' = {item \in todo' : item.owner \notin Quiet}
  /\ UNCHANGED <<times, envVars, settingVars, removed, viewVars>>

\* check_if_tasks_should_be_stopped: read the running rows ...
TickBegin ==
  /\ pc = "ready"
  /\ pc' = "check"
  /\ todo' = Expired
  /\ toNotify' = {item \in Expired : item.owner \notin Quiet}
  /\ UNCHANGED <<times, envVars, settingVars, removed, viewVars>>

\* ... announce the idle ones, whereupon gui_controller::on_idle_detected
\* marks them as paused ...
NotifyIdle(item) ==
  /\ pc = "check" /\ item \in toNotify
  /\ Update(With(item, "paused", now))
  /\ Observe(FALSE)
  /\ toNotify' = toNotify \ {item}
  /\ UNCHANGED <<envVars, settingVars, removed, pc, todo>>

\* ... and stop them, from the copies that were read before they were paused.
StopExpired(item) ==
  /\ pc = "check" /\ toNotify = {} /\ item \in todo
  /\ StopTime(item)
  /\ todo' = todo \ {item}
  /\ UNCHANGED <<envVars, settingVars, removed, pc, toNotify>>

\* if( user_is_active()) update_running_entries()
PollActivity ==
  /\ pc = "check" /\ toNotify = {} /\ todo = {}
  /\ \E active \in {UserIsActive, FALSE} :
       /\ todo' = IF active THEN ByState("running") ELSE {}
       /\ pc' = IF todo' = {} THEN "ready" ELSE "extend"
  /\ UNCHANGED <<times, envVars, settingVars, removed, toNotify, viewVars>>

Extend(item) ==
  /\ pc = "extend" /\ item \in todo
  /\ Update(WithStop(item, now, now))
  /\ Observe(FALSE)
  /\ todo' = todo \ {item}
  /\ pc' = IF todo' = {} THEN "ready" ELSE "extend"
  /\ UNCHANGED <<envVars, settingVars, removed, toNotify>>

-----------------------------------------------------------------------------
(* Process life *)

\* The program is left, which stops no timer, or dies.
Down ==
  /\ pc # "off"
  /\ (pc = "ready" /\ now <= Horizon) \/ MayCrash
  /\ pc' = "off"
  /\ todo' = {} /\ toNotify' = {}
  /\ oldRunning' = {} /\ icon' = FALSE
  /\ UNCHANGED <<times, envVars, settingVars, removed>>

\* The database is opened, the time manager starts with an empty
\* old_running and the status icon asks once.
Launch ==
  /\ pc = "off"
  /\ RemoveShortTimeSpans(ShortSpan)
  /\ pc' = "ready"
  /\ oldRunning' = {}
  /\ icon' = (RunningTasks' # {})
  /\ UNCHANGED <<envVars, settingVars, removed, todo, toNotify>>

-----------------------------------------------------------------------------
Init ==
  /\ times = [e \in EntryId |-> NoRow]
  /\ now = 0 /\ sinceInput = 0 /\ setBacks = 0
  /\ gt \in IdleTimes /\ gz \in ZeroTimes /\ gz < gt
  /\ removed = {}
  /\ pc = "off" /\ todo = {} /\ toNotify = {}
  /\ oldRunning = {} /\ icon = FALSE

TimePasses == \E d \in ClockSteps : Advance(d)

\* A removed task is in no list the user could start it from.
UserStep ==
  \/ UserInput
  \/ \E g \in IdleTimes, z \in ZeroTimes : SaveSettings(g, z)
  \/ \E t \in TaskId \ removed : Start(t) \/ Toggle(t) \/ RemoveTask(t)
  \/ \E t \in TaskId : Stop(t)
  \/ StopAll

HandlerStep ==
  \E item \in todo \cup toNotify :
     Drain(item) \/ NotifyIdle(item) \/ StopExpired(item) \/ Extend(item)

Tick == TickBegin \/ PollActivity \/ HandlerStep

Next == TimePasses \/ StepBack \/ UserStep \/ Tick \/ Down \/ Launch

Spec == Init /\ [][Next]_vars

-----------------------------------------------------------------------------
(* Safety *)

\* The hypothesis of some properties: so far the clock was not set back.
NeverSetBack == setBacks = 0

(***************************************************************************)
(* A task has at most one running entry, whatever is started, toggled,     *)
(* stopped, paused by the tick or left behind by a crash: start() looks at *)
(* the running rows first, and no other call of the keeper makes a row     *)
(* running ("Already running", time_keeper.cpp:64).                        *)
(***************************************************************************)
OneRunningPerTask ==
  \A e, f \in EntryId :
    /\ times[e].state = "running" /\ times[f].state = "running"
    /\ times[e].owner = times[f].owner
    => e = f

\* The entry is recorded time: a deleted one is only kept for other clients.
Counts(e) == times[e].state \in {"running", "paused", "stopped"}

(***************************************************************************)
(* No moment is recorded twice for one task, as long as the clock has not  *)
(* been set back: an entry that counts ends before another one of its task *)
(* is started, and only the running one is ever extended.                  *)
(***************************************************************************)
NoDoubleCounting ==
  NeverSetBack => \A e, f \in EntryId :
    /\ e # f /\ Counts(e) /\ Counts(f)
    /\ times[e].owner = times[f].owner
    => times[e].stop <= times[f].start \/ times[f].stop <= times[e].start

(***************************************************************************)
(* No entry ends before it starts, even when the wall clock is set back    *)
(* while its timer runs: the extension to the earlier time is refused by   *)
(* the version test of time_accessor::update.                              *)
(***************************************************************************)
NoNegativeTime ==
  \A e \in EntryId : times[e] # NoRow => times[e].start <= times[e].stop

(***************************************************************************)
(* Recorded time is backed by input of the user, as long as the clock has  *)
(* not been set back: no entry reaches further than ActiveLimit after the  *)
(* last input, because an absent user's timers are not extended and        *)
(* stopping one does not extend it either.                                 *)
(***************************************************************************)
TimeBackedByInput ==
  NeverSetBack => \A e \in EntryId :
    times[e] # NoRow => times[e].stop + sinceInput <= now + ActiveLimit

(***************************************************************************)
(* The ten second handler leaves no entry in the state paused that its     *)
(* observer gave it: stop_time writes the older copy over it.              *)
(***************************************************************************)
NoPausedAtRest == pc = "ready" => ByState("paused") = {}

(***************************************************************************)
(* Between two handlers no timer of a removed task runs (on_task_removed), *)
(* as long as the clock has not been set back: the stop of a row that was  *)
(* written at a later time is refused by the version test.                 *)
(***************************************************************************)
RemovedTaskStops ==
  NeverSetBack /\ pc = "ready" => RunningTasks \cap removed = {}

(***************************************************************************)
(* Between two handlers the status icon is green exactly when a timer runs *)
(* although the keeper compares with an old_running that is empty after a  *)
(* launch: every stop of the keeper notifies by itself.                    *)
(***************************************************************************)
IconTellsTruth == pc = "ready" => icon = (RunningTasks # {})

-----------------------------------------------------------------------------
(* Action properties *)

(***************************************************************************)
(* No step makes a running entry jump over a pause of its user longer than *)
(* the idle time of its task: on_signal_10_seconds stops what is too old   *)
(* before it extends the rest, after a suspend and after a restart too.    *)
(***************************************************************************)
NoIdleGapCounted ==
  [][\A e \in EntryId :
       times[e].state = "running" /\ times'[e].state = "running"
       => times'[e].stop - times[e].stop <= IdleLimit(times[e].owner)]_vars

(***************************************************************************)
(* The keeper implements the timesheet: an entry that is paused or stopped *)
(* is an ended line, a deleted one is void.                                *)
(***************************************************************************)
Line(row) ==
  [owner |-> row.owner, start |-> row.start, stop |-> row.stop,
   phase |-> CASE row.state = "running" -> "open"
               [] row.state \in {"paused", "stopped"} -> "ended"
               [] row.state = "deleted" -> "void"]

Sheet == INSTANCE Timesheet WITH
  sheet <- [e \in EntryId |->
              IF times[e] = NoRow THEN [phase |-> "blank"] ELSE Line(times[e])]

ImplementsTimesheet == Sheet!Spec

-----------------------------------------------------------------------------
(* Liveness *)

(***************************************************************************)
(* Once the user does nothing any more, either the program is not running  *)
(* or all timers are stopped, and stay so.  MaxTime is further from        *)
(* Horizon than any idle time.                                             *)
(***************************************************************************)
AbandonedTimersStop == <>[](pc = "off" \/ RunningTasks = {})
=============================================================================
