# TLA+ verification of TimeIT

TimeIT is a GTK desktop program that records how long its user works on which
task. This directory holds its formal model: TLA+ modules translated from the
C++ sources, TLC configurations that check them on small instances, and proofs
checked by TLAPS for every value of the constants. Paths in this file are
relative to `src/` of the repository.

## 1. Inventory

### How the program runs

Everything runs in the GTK main loop of one thread; only a HTTP request of the
synchronisation runs in a thread of its own (`std::async` in
`lib/src/Sync/network.cpp`), and its future is polled. Once a second the
timer (`lib/src/timer.cpp`) calls `on_signal_1_second` of its observers, every
tenth time also `on_signal_10_seconds`. A handler is therefore never
interleaved with another one -- except that `Gtk::MessageDialog::run()` nests a
main loop, in which ticks, synchronisation and auto tracking go on while the
caller holds copies of rows. Every SQL statement commits by itself; no
transaction spans two statements, so a process that dies leaves the prefix of a
handler behind. Changes are announced synchronously to observers
(`event_observer`, `time_manager_observer`).

### Components

| component | state | operations | interacts with |
|---|---|---|---|
| time table (`DB/time_accessor.cpp`, `datatypes/time_entry.cpp`) | table `times` | `create`, `update` (refuses an older version), `by_state`, `remove_short_time_spans`, reports | every writer of time; announces `on_time_entry_changed` |
| task table (`DB/task_accessor.cpp`, `DB/extended_task_accessor.cpp`) | table `tasks` with parents | `create`, `update` (version test), `remove` (marks), tree queries | announces `on_task_removed`, `on_parent_changed` |
| time keeper (`Logic/time_keeper.cpp`) | `default_idle_time`, `idle_gz`, `old_running` | `start`, `stop`, `toggle`, `stop_all`, ten second handler, `on_task_removed` | time table, idle detector; announces `on_running_changed`, `on_idle_detected` |
| idle detector (`Logic/x11`) | time of the last poll | `time_idle` | X11 screen saver extension (external) |
| auto tracker (`Logic/auto_tracker.cpp`) | last workspace, tasks it started | check each second | keeper, workspaces of X11 |
| synchronisation (`Sync/sync_manager.cpp`) | `state`, `last_sync`, `current_sync`, `next_sync`, `next_full_sync`, the outstanding request | one step of a state machine each second | both tables, notifier, server (external) |
| notifier (`DB/notifier.cpp`) | `enabled`, `missed_notification` | broadcast, switch off and on | all observers |
| database upgrade (`DB/db_updater.cpp`, `DB/database.cpp`) | schema version | rename, copy, drop | the tables, at launch |
| dialogs (`gui/idle_dialog.cpp`, `gui/details.cpp`, `gui/edit_time.cpp`) | the id or the copy of the row they were opened with | continue, revert, remove, merge, split, edit | time table, keeper |
| GUI controller (`logic/gui_controller.cpp`) | open idle dialogs, the selected task, the running tasks seen last | pause an idle entry, run the commands, tell the window | keeper, windows |
| status icon (`gui/status_icon.cpp`) | icon, the tasks of its menu | show the state, toggle a task | keeper, controller |
| main window, window manager (`gui/main_window/main_window.cpp`, `gui/window_manager.cpp`) | the widget, its selection, title and layout | show, hide, remove a task | controller, settings |
| settings (`DB/settings_accessor.cpp`, `gui/preference_dialog.cpp`) | settings rows | get (writes the default), save | keeper, synchronisation, window |
| calendar (`Misc/utils.cpp`) | -- | day, week, month and year of a time | summaries, details |
| task dialogs (`gui/edit_task_dialog.cpp`, `gui/parent_chooser.cpp`) | the copy of a task | choose parent, save | task table |
| summaries, task list (`gui/main_window`) | cached rows, `needs_re_population` | refill | both tables |
| single instance (`Misc/application_lock.cpp`, `Misc/ipc_*.cpp`) | lock file, socket | lock, listen, ask the other to show its window | another process |
| exporters, JSON, logging, pictures | none of interest | formatting, I/O | -- |

### What is hard, and what makes a component correct

- **Time keeper.** Three writers of one row in one handler (the pause of the
  observer, the stop, the extension), all from copies; crashes in between; a
  clock that jumps; an idle detector that answers once. Correct when a task has
  one running entry at most, recorded time is backed by a present user, a pause
  longer than the idle time is never counted, abandoned timers stop.
- **Dialogs.** Copies that age during a nested main loop, two statements with a
  crash in between. Correct when removed time stays removed, no time is lost or
  counted twice, and one timer per task remains.
- **Synchronisation.** Requests that fail after they took effect, changes made
  between the stamp and the read, deferred rows, retries, a second client.
  Correct when clients converge and no local change is lost.
- **Upgrade.** A crash at any statement, then a retry. Correct when every entry
  of the old database is in the new one.
- **Views and task tree.** Rows kept beside the tables, brought up to date in three
  ways, while tasks are moved and removed. Correct when they show what the tables
  hold and the tree stays one.
- **Details.** A change brings the rows of its day up to date, or makes all rows
  anew, depending on whether its entry has a row; ranges are counted in steps of 24
  hours. Correct when every recorded time of the range is shown as it is, and the
  range is the group of the day picked.
- **Main window and controller.** The controller knows the selection from hearsay,
  the window the running tasks, and each learns of a removed task on its own.
  Correct when commands act on what is highlighted and the title is true.
- **Auto tracker, single instance**: see the hazards in
  `PROJECT.json`, which lists each with its line.

## 2. Plan

In this order; the most important behaviour comes first.

1. `TimeStore`, `TimeKeeper`, abstract `Timesheet`; `TimeKeeper_proofs` -- **done**,
   all of their safety properties and the refinement proved.
2. `Dialogs`: extends `TimeKeeper` with the idle, details and edit dialogs, each
   with the copy it holds; `Dialogs_proofs` -- **done**.
3. `SyncManager`: the machine of each client with its own tables, an external
   server, failures, crashes between the rows of an answer; `SyncManager_proofs` --
   **done**, but for `ConvergedAfterADay`, which is only model-checked.
4. `DbUpdater`, `Launch`: the statements of the upgrade with crash and retry, and
   the processes that run them, the lock and the socket; `Launch_proofs` -- **done**.
5. `AutoTracker`: composed with the keeper; workspaces, the tasks it started, the
   boxes of the task dialog; `AutoTracker_proofs` -- **done**.
6. `TaskTree`, `Views`: the tree of tasks, the reports, the task list and a summary,
   and the dialog that moves tasks -- **done**; `Views_proofs` -- **done**,
   all of its invariants proved.
7. `Calendar`, `Details`: days, weeks, months and years over a change of the clocks
   (`Misc/utils.cpp`), and the list of details that is kept up to date beside the
   times; `Details_proofs` -- **done**, all of their invariants proved.
8. `Desktop`, `Desktop_proofs`: the main window, the menu of the icon, the
   preferences and the controller -- **done**, with proofs of its invariants.

No module declares a `RECURSIVE` operator, so any of them can be proved about.

## 3. What is modelled

### `TimeStore` -- the table of times

`times` maps an id to a row or to `NoRow`. `Update`, `Create`, `ByState` and
`RemoveShortTimeSpans` are `time_accessor`'s; `With`, `WithStart`, `WithStop` are
`time_entry`'s copies, which carry a new version stamp when something changes.
`Accepts` is the version test of `update`. The comment of an entry is left out.
The columns `running` and `deleted` follow from `state` and are not modelled.

### `TimeKeeper` -- the keeper, its observers and the life of the process

| code | action |
|---|---|
| `start`, `stop`, `toggle`, `stop_all` | `Start`, `Stop`, `Toggle`, `StopAll` + `Drain` |
| `task_accessor::remove` + `on_task_removed` | `RemoveTask` + `Drain` |
| `on_signal_10_seconds` | `TickBegin`, `NotifyIdle`, `StopExpired`, `PollActivity`, `Extend` |
| `gui_controller::on_idle_detected` | inside `NotifyIdle` |
| `check_for_status_change`, `notify_running_changed`, `status_icon::set_icon` | `Observe`, part of each write |
| `preference_dialog::save` | `SaveSettings` |
| quit or crash; launch | `Down`; `Launch` |
| wall clock, input | `Advance`, `StepBack`, `UserInput` |

A handler that runs several statements is one action per statement; while it
runs, `pc` is not `"ready"` and only the handler or a crash can step. `todo` and
`toNotify` hold the copies it read. Rows are written in any order: the code
promises none (`by_state` has no `ORDER BY`). `PollActivity` may always answer
"idle", because the answer after a suspend, and a display without the screen
saver extension, do so. The auto tracker's calls are `Start` and `Stop` here, and
handlers of their own in `AutoTracker`. The wall clock may be set back to any earlier
time, at most `MaxSetBacks` times (a bound); a row that was written later than now
then refuses every write. `setBacks` is history: `NeverSetBack`, that it has not
happened yet, is the hypothesis of three invariants and says so in each. A removal
of a task that the version test refuses (after the clock was set back) has the
effect of `UserInput`.

### `Dialogs` -- the windows that write time beside the keeper

Extends `TimeKeeper`. `asking` is the set of entries an idle dialog is open for,
`question` the modal question of the details with the copies of the rows it was
opened with, `editing` the edit dialog with its copy, `second` the statement a
handler still has to run after its first one.

| code | action |
|---|---|
| `idle_dialog::action_continue`, `revert_and_stop`, `revert_and_continue`, closed with Escape | `Continue`, `RevertAndStop` + `SecondStop`, `RevertAndContinue` + `SecondStart`, `Dismiss` |
| `details::on_menu_file_popup_remove`, `..._merge`, `..._split` | `AskRemove`, `ConfirmRemove`; `AskMerge`, `ConfirmMerge` + `SecondWrite`; `AnswerCancel`; `Split` + `SecondCreate` |
| `details::edit_time_entry`, `gui_controller::on_add_time`, `edit_time_dialog::on_response` | `OpenEdit`, `OpenAdd`, `ApplyEdit`, `CancelEdit` |
| `gui_controller::on_idle_detected`, `gui_controller::start`, quit | `IdleDetected`, `Restart`, `Quit` |
| everything else that goes on below a dialog: clock (set back, too), input, keeper, tracker | `KeeperAlone` |

A question nests a main loop: ticks, and starts and stops of the auto tracker, go
on, all other windows wait (`UserReaches`). `Uses` names the dialogs the user
makes use of in a run, a bound like the others. Further abstractions: one edit
dialog and one idle dialog per entry are open at a time; the list may still show
a row that was deleted under it; the two halves of a split meet in the middle
instead of two seconds apart; an edit may write any start and end. What the list
shows, and the exact points of a split, are in `Details`.

The model contains two things the code does and its messages do not lead one to
expect. *Continue* makes the entry run again also when the task was started
meanwhile (`idle_dialog.cpp:128`), so that two timers of one task run, which `start`
refuses with "Already running" (`time_keeper.cpp:64`); `OneRunningPerTask` is
therefore no property of `Dialogs`. And any answer writes the entry although it was
removed while the dialog was open (`idle_dialog.cpp:137`): removed time returns, in
spite of "Removing will be permanent." (`details.cpp:131`). `TimeLostOnlyOnRequest`
and `IdleCountedOnRequest` hold through both. A third thing happens when the clock is
set back: the version test refuses what *Continue* or a *Revert* writes, the
dialog closes all the same, and a paused entry stays paused with nobody asked about it until
the next launch (`AnswerRefused`, the exception `PausedIsAsked` names).

### `SyncManager` -- clients that share an account

Every variable is a function of the client, apart from the clock and the tables
of the server. `state` is `sync_state`; `wait` is split by `following_state` into
`task_wait` and `time_wait`, and `down` is a process that does not run. `edits` is
the kinds of changes and faults of a behaviour, a member of the constant `Scenarios`
that stays what it is.

| code | action |
|---|---|
| `on_signal_1_second`, state idle | `BeginRun` |
| task_request, time_request | `RequestTasks`, `RequestTimes` |
| wait | `Receive` |
| task_store: first loop, second loop, end | `StoreTask`, `StoreDeferred`, `TasksStored` |
| time_store: loop, end | `StoreEntry`, `RunDone` |
| fail | `Failed` |
| the foreign key refuses a parent, and nobody catches | `StoreAborts` |
| launch with `remove_short_time_spans`, a new `sync_manager` | `Launch` |
| task dialog, task list, keeper, time dialogs | `UserTask`, `UserEntry` |
| server and network (external) | `ServerAnswers`, `RequestFails` |

An answer is stored row by row, in any order, since a crash may come in between;
the user acts between the steps of the machine, never within a handler. The
server is not part of the repository: it keeps the newer version of a row and
answers with those stamped at or after the moment in the URL. Abstractions: the
clocks of the clients agree; while one client stores an answer the others wait,
which is safe because they meet only in the tables of the server, which no storing
client touches; steps of the machine that change nothing but its
state may fall into the same second, except the one from the stamp of a run to
its first request, which `RequestTasks` keeps apart; name and idle time of a task
behave as its parent and quiet mode do; of the length of an entry only counts
whether it exceeds a minute; the settings are filled in (`is_active`) and do not
change; a failed request leads to a message, which is left out. A known task that
takes part in the deferred loop gets the quiet mode of the server
(`sync_manager.cpp:205`), where the first loop keeps the local one; the model
contains this.

### `DbUpdater` -- opening and upgrading the database

A table is its columns, as far as they tell the versions apart, and its rows.
`step` is the next statement and `todo` the rows of a backup that are still to be
copied. What an old database holds is a constant (`OldDatabases`), which
`MCLaunch` gives as the tests write it.

| code | action |
|---|---|
| `database::database`, `find_db_version` | `Open`, `Finish` |
| `update_tasks_to_db_5` | `RenameTasks`, `CreateTasks`, `CopyTask`, `DropTasks` |
| `update_times_to_db_5` | `CleanTimes`, `RenameTimes`, `CreateTimes`, `CopyTime`, `DropTimes` |
| `upgrade_tasks_to_db_6`, `upgrade_times_to_db_6` | `AddIdle`, `AddQuiet`; `AddState`, `MarkRunning`, `MarkDeleted`, `AddComment` |
| `setup` of the accessors: the views are dropped and created | `CreateViews` |
| the accessors prepare their statements | `Prepare` |
| the process ends | `Close` |

Statements that may be repeated without an effect share a step. Of the views
`v_times`, `v_tasks` and `v_running` the model keeps which table they read the tasks
from (`views`). `ALTER TABLE ... RENAME` rewrites them to follow the table;
when that table is dropped they hang in the air (`"lost"`), and from then on SQLite refuses
every rename, because it cannot parse them. This is SQLite from 3.25 on (tried
with 3.40: such a file fails at `times` and then, at each launch, already at `tasks`); an older one
leaves the views alone. What the program writes once it
runs belongs to the other modules, so the tables rest between `done` and the next
launch. Two variables are history: `old`, and `cut`, the windows in which a process
died. The properties name these windows, because there a crash does do harm:

- while the tasks are copied (`db_updater.cpp:96`): the table `tasks_backup` is
  left, the next start cannot rename, and the database is never opened again;
- while the times are copied (`db_updater.cpp:72`): the next start drops the backup
  that holds the only copy;
- between the two columns of the tasks (`db_updater.cpp:133`): the second one is
  never added, and the statements of the program do not compile;
- between the column `state` and its two updates (`db_updater.cpp:157`): running and
  deleted entries are stopped ones from then on;
- between the views and the new version of a file of version 4 (`database.cpp:45-66`): the
  next start finds version 4 and copies the tasks once more, the views follow the renamed table and
  lose it, and the file is never opened again.

A task of version 4 without a parent is written with the parent 0 instead of NULL
(`db_updater.cpp:110`) and is in no list of top level tasks any more: `TreeKept`, which
tells 0 and NULL apart, is violated (run `UpgradeTree`). `BranchesKept` is what does hold: no
task is lost, and one below another stays there. The mark of a deleted task of version 4 is lost: the
statement has five parameters, and the value bound as the seventh
(`db_updater.cpp:119`) goes nowhere.

### `Launch` -- the processes

Extends `DbUpdater`. `holder` has the lock of `application_lock`, `socket` is the
process that bound the socket's name, `pending` its backlog, `shown` the window.

| code | action |
|---|---|
| `application_lock`, beginning of `run` | `Start` |
| `ipc_server` constructor, `poll`, destructor | `Listen`, `Poll`, `Quit` |
| `ipc_client::window_2_front` | `Knock` |
| `gui_controller::on_action_toggle_main_window` | `ToggleWindow` |
| the catch of `run`; the end of `main`; the process is killed | `Abort`; `Unlock`; `Crash` |

The lock is the operating system's and goes with the process; the name of the
socket stays when a process dies. Closing and unlinking the socket is one step. A client
that dies before or after it knocks changes nothing, so its end is always `Knock`.

The model contains that a knock may be lost: a second process that starts after the first
has the lock and before it listens finds nobody (`application_lock.cpp:18`), and ends
without a word. `KnockShowsWindow` is therefore about a first process that serves. There it holds
with a full backlog, too: the connection is refused, but those before it bring the window up.

### `AutoTracker` -- the tasks that follow the user

Extends `TimeKeeper`. `ticked` is the table of boxes, `place` the workspace the
user is on, `oldWorkspace` and `oldActive` what the tracker remembers, `lastPoll`
the moment the idle detector was last asked, `toStop` and `toStart` the lists a
switch has read. `wanted` is history: the tasks the tracker started and nobody
else has stopped.

| code | action |
|---|---|
| `auto_tracker::check_for_changes` | `Look`, `LookForUser`, `Switched` |
| `do_task_switching`: first and second loop | `SwitchStop`, `SwitchStart` |
| quiet tasks when the user is back | `QuietStart` |
| `auto_track_accessor::set_workspaces`: the `DELETE`, each `INSERT` | `SetWorkspaces`, `InsertBox` |
| `x11_workspace::active`, the boxes of `edit_task_dialog::create_layout` | `Active`, `Box` |
| `x11_idle_detector::poll_status` | `SeenActive`, shared with `KeeperPolls` |
| the keeper's handlers; the timer | `KeeperUserStep`, `KeeperDrain`, `KeeperTick`; `TrackerTimePasses` |
| quit and launch; the window manager (external) | `TrackerDown`, `TrackerLaunch`; `EnterWorkspace` |

Abstractions: a unit of the clock is ten seconds or more, so keeper and tracker
both have their turn, in any order, before it moves; the detector answers "idle"
once when it was not asked for longer than `PollGap`, and whoever asks takes the
answer; the pixels of a large desktop are rows and columns. On a large desktop
(`Viewports`) the tracker numbers a viewport by the product of its column and its
row (`x11_workspace.cpp:127`), which is not the number of its check button, and
which several viewports share; the run that checks the promise of the dialog has
several desktops, where the numbers agree. The clock may be set back (`TrackerStepBack`), until
`Horizon`, a bound. `wanted` is emptied when the process ends: of a task that a quit or a
crash left running `StopsWhenExiting` says nothing.

After a suspend a quiet task of a present user can stay off: the tracker starts it
again only in the second in which it sees the user come back (`auto_tracker.cpp:40`),
which comes before the keeper stops it, or not at all when the keeper took the
detector's one answer. The model contains this; nothing in the repository promises
otherwise.

### `TaskTree` -- tasks, times and their reports

`tasks` and `times` as the windows read them: `Above` and `Below` are the tree of
`parent`, `DurationTime`, `Total` and `ActiveTasks` the reports of
`time_accessor`, `Reachable` what `task_accessor::by_parent_id` finds from the top.
`EndlessAbove` says where a walk up the tree does not end. Versions, names and idle
times are left out. An entry that covers a whole range, or begins with it and ends
after it, is in none of the three sums (`time_accessor.cpp:122`, `:149`), although
the details list it.

### `Views` -- the task list and a summary

Extends `TaskTree`. `list` holds the rows of the task list; `summary` the rows of
one summary, the range it shows, whether its tab is chosen (`visible`) and
`needs_re_population` (`needs`); `dialog` the task dialog with what its chooser
offers; `alive` whether the process runs. `unlisted` and `summary.stirred` are
history.

| code | action |
|---|---|
| `time_accessor::create`, `update` by the keeper, a dialog, the synchronisation | `WriteTime` (`CreateTime`, `UpdateTime`) |
| `task_accessor::update` and `notify`, `create` | `WriteTask`, `NewTask`, inside the actions below |
| `task_list_widget`: `on_task_updated`, `on_task_removed`, `do_update` | `ListUpdated`, `ListErased`, `ListOf` |
| `summary`: `on_task_updated`, `on_task_removed`, `populate` | `SummaryUpdated`, `SummaryErased`, `Populated` |
| `summary::on_focus`, `on_date_changed`; another tab | `Focus`, `PickDay`; `ChangeTab` |
| task dialog with `parent_chooser`; removal | `EditTask`, `AddTask`, `Accept`, `Cancel`; `RemoveTask` |
| `sync_tasks_to_database` | `SyncTask` |
| quit, crash, or a stack that overflows; launch | `Quit`, `Nothing`; `Launch` |

A write and its notifications are one step. `populate` makes a second row of a task
that was already made as somebody's parent (`summary.cpp:282`), depending on the
order of the rows the database returns; `rows[t]` holds the times of both, and only
the first one is updated afterwards. A summary does not listen to
`on_parent_changed`: what it shows is held against the tables
only as long as the tree has not changed since it was populated
(`SummaryFollowsTimes`). A task that a newer version brings back is announced to
nobody (`task_accessor.cpp:302`) and is missing in the list, with all tasks below
it, until the next write that populates the list (`ListFollowsTables`). Abstractions:
one summary stands for the four; the table does not change while the question
before a removal is open; an open dialog is not turned to another task.

### `Calendar` -- days, weeks, months and years

Operators only. `Midnight` and `Civil` are constants: when each day of the years
modelled begins, and its `struct tm`. `DayRange`, `WeekRange`, `MonthRange`,
`YearRange` and `TimeSpan` are the functions of `Misc/utils.cpp` with the C library
(`DayOf`, `Begin`, `End`) written as what it does, including days of 23 and 25
hours; `NearMidnight` is `mktime` with the `tm_isdst` of another time of the day, as
the split of an entry uses it. `DaysInMonth` keeps the code's test for a leap year,
which sees `tm_year` and not the year: in the years the date can be set to it is
wrong in 2000 only (`MonthsAreWhole`).

Weeks are found in steps of 24 hours (`utils.cpp:83, 96`), which are not days when the clocks
are changed. With weeks that begin on Sunday (`FirstWeekday = 0`, the default of
`utils.cpp:61`, and what `test_utils.cpp:91-134` of the tests expects) the change falls on the first
day: the week of the change to summer time is shown from Saturday to Friday, unless its
Sunday is picked, so that a Saturday that is picked is not in its own week; the week
of the change to winter time lacks its Saturday. `SundayWeeks` in `MCDetails` says exactly this
for every day of two weeks, and `MondayWeeks` that weeks which begin on Monday are
right wherever the clocks are changed on a Sunday. It disagrees with "grouping per day, week,
month or year" (`doc/html/C/index.html:156`) and is the exception `RangeIsTheGroup` names
(`UnevenWeek`); `Details` is run with weeks that begin on Sunday and
picks the week of a change as well as one before it.

### `Details` -- the list of details

Extends `Calendar`. `times` is the table, `presented`, `pick` and `range` what the
list shows, `list` its rows with the date and total cells, `question` the open
question with the copies read before it. `narrowed` and `stirred` in `list` are
history: the list was narrowed to the halves of a split; an entry was moved, removed,
brought back, or changed while it reached over midnight, since the rows were made.

The last one is a limit of the code, which the proof brought up: an entry that is cut
back from over midnight belonged to two days, and only the day in which it starts is
brought up to date, so the total of the other one keeps its time until the rows are made
anew. `DetailsFollowTimes` leaves these lists out; the times that are shown
(`EveryRecordingShown`) are right for them, too. The order of the rows (`InOrder`) is
written as what sorting gives, not as how.

| code | action |
|---|---|
| `details::set`, from a summary | `Present` |
| `on_task_updated`, `on_task_name_changed`, `on_task_removed`, `on_complete_update` | `TaskChanged` |
| `time_accessor::create`, `update` by anybody, with `on_time_entry_changed` | `CreateTime`, `UpdateTime` in `WriteTime` |
| `on_menu_file_popup_remove`, its answer | `AskRemove`, `ConfirmRemove`, `Cancel` |
| `..._merge`, its answer | `AskMerge`, `ConfirmMerge`, `Cancel` |
| `..._split` | `Split` |
| `create_row_data`, `populate`, `update_row`, `update`, `offer_to_split` | `CreateRowData`, `Populated`, `UpdateRow`, `Updated`, `OfferToSplit` |

A change that crashes between its two statements is in `Dialogs`; here a handler
is one step. The model contains that a row may stay whose time was removed, that
merging with such a row loses the time (`DetailsMerge`), that an entry which crosses
midnight by less than six seconds is split at points outside of it
(`details.cpp:281`), that splitting a removed entry whose row is still shown makes
half of it live again, and that an entry which starts in the last second of a day is
in the list of no day. Comments and the idle column are left out.

### `Desktop` -- windows, menu, preferences, controller

`tasks`, `running` and `worked` are the tables as far as they matter here; `settings` the
rows of two settings; `window` the main window with its rows, selection, title and
layout, and whether the controller listens to it; `selectedTaskId` and `oldRunning`
belong to the controller; `menu`, `question` and `preferences` are what is open.

| code | action |
|---|---|
| `gui_controller::on_action_toggle_main_window`, `on_show_main_window`; the close button | `ToggleMainWindow`, `ShowMainWindow`; `CloseMainWindow` |
| a click in the list, `on_selection_changed` | `Select`, `Chosen` |
| `on_action_start`, `on_action_stop`, stop all | `StartSelected`, `StopSelected`, `StopAll` |
| `main_window::on_action_remove_task` | `AskRemove`, `ConfirmRemove`, `CancelRemove` |
| `status_icon::on_popup_menu`, `toggle_task` | `PopUpMenu`, `DismissMenu`, `ToggleTask` |
| `preference_dialog` | `OpenPreferences`, `SavePreferences`, `CancelPreferences`, `SaveCutShort` (a crash in between) |
| `gui_controller::on_running_tasks_changed`, `on_time_entry_changed` | `RunningShown` in `KeeperWrites`, `OthersWrite` |
| `task_accessor::create`, `update` and their observers | `TaskWritten` in `TaskChanged` and `ConfirmRemove` |
| keeper and tracker; dialogs, synchronisation | `KeeperActs`; `TimeWritten`, `TaskChanged` |
| `gui_controller::start`; quit and crash | `Launch`; `Quit` |

When the selected row goes, GTK may select any other row, or none. Tasks keep their
place in the tree (`Above` is a constant); a moved one makes all rows anew, which
leaves nothing selected. Which commands are greyed, sizes and positions are left out.
`get_bool` writes the default when there is no row, so reading is a write here, too.

The model contains what a user may notice: the commands do nothing when the window
was shown by another launch (`gui_controller.cpp:96`), since the controller then
has not attached; the title may go on to say that a timer runs when the
first write after a launch ends the last timer (`gui_controller.cpp:309`: the
set was empty and is empty), which is why `WindowTellsTruth` speaks of the
other direction; the menu of the icon can start a task that was removed while it was
open.

### `Timesheet` -- what the keeper promises

Lines that are opened, grow, end and are voided, and are struck out only when they are
shorter than `ShortSpan` (`Erase`); `ImplementsTimesheet` maps the rows to lines
(`paused` and `stopped` are both ended) and is checked as a property of `TimeKeeper`.

## 4. What is checked

| run | properties | bounds |
|---|---|---|
| `TimeKeeper` | `TypeOK`, `OneRunningPerTask`, `NoDoubleCounting`, `TimeBackedByInput`, `IconTellsTruth`, `NoNegativeTime`, `NoIdleGapCounted`, `ImplementsTimesheet` | 2 tasks, 3 entries, clock 0..4 in steps of 1 and 3, set back once to any earlier time, the user acts until 2, crash anywhere |
| `AutoTracker` | `TrackerTypeOK`, `NoPausedAtRest`, `RemovedTaskStops`, `OneRunningPerTask`, `StopsWhenExiting`, `AbandonedTimersStop` | a quiet and an asking task, 2 entries, 2 workspaces, every task ticked for the first; clock 0..3 in steps of 1 and 2 (a suspend), set back once, the user acts until 1, no crash |
| `Dialogs` | `DialogsTypeOK`, `PausedIsAsked`, `IdleCountedOnRequest`, `TimeLostOnlyOnRequest` | 1 task, 2 entries, clock 0..3, set back once to any earlier time, the user acts until 2, crash anywhere; all dialogs |
| `Sync` | `SyncTypeOK`, `NothingForgotten`, `ConvergedAfterADay`, `TimersAreLocal` | 2 clients, 2 tasks, 1 entry, seconds 1..9, the interval 1, the "day" 2, anything of one scenario until 2: an entry is changed while its task is removed; tasks are created, moved and removed; an entry is changed, or a task created, or removed, with crashes and failing requests |
| `SyncDeferred` | `DeferredFindParents` is **violated** | 2 clients, 2 tasks, seconds 1..2 |
| `Launch` | `LaunchTypeOK`, `TimeKept`, `BranchesKept`, `StatesKept`, `StartsAgain`, `SocketLeadsHere`, `KnockShowsWindow` | 2 processes, a backlog of 2; 2 tasks and 3 entries of version 4 or 5; crash after any statement, any number of starts |
| `UpgradeTree` | `TreeKept` is **violated** | the same |
| `Views` | `ViewsTypeOK`, `ListFollowsTables`, `SummaryFollowsTimes`, `NoSecondInTwoDays` | any tree of 3 tasks, 2 entries, 2 days of 3 seconds, 2 writes by anybody, any number of looks and launches |
| `TreeCycle` | `TreeStaysATree` is **violated** | the same, without the synchronisation |
| `Details` | `DetailsTypeOK`, `EveryRecordingShown`, `DetailsFollowTimes`, `RangeIsTheGroup` | 1 task, 3 entries, 4 spans before, around and after midnight, 2 writes; weeks that begin on Sunday; days on both sides of the change to summer time, its week, the week before and its month |
| `DetailsMerge` | `MergingAddsTime` is **violated** | the same, 1 day, 3 writes |
| `Desktop` | `DesktopTypeOK`, `CommandsHitTheSelection`, `WindowTellsTruth` | 3 tasks, one below another, a menu of 2, 3 writes by anybody, any number of looks, settings and launches |

The unit of time is arbitrary; with the idle limits 1 and 2, the zero time 0
and 1 and clock steps up to 3, an entry can be shorter than the zero time, older
than one limit and not the other, and skipped over by a suspend. Two tasks are
needed because one asks and the other is quiet; three entries because two can
run while one is over. The entries are interchangeable, so safety runs use
symmetry; the liveness run does not.

One task is enough for the dialogs because a dialog touches the timers of one
task only; two entries are the one that is asked about and the one that was
started meanwhile. The task has an idle time of its own, shorter than the
default one.

A clock that is set back once is enough to leave a row, and the copies of it, ahead of the
clock while a handler or a dialog holds them; a second time leaves them ahead by more. The boxes of
`AutoTracker` are `{0}` for both tasks, so that a move to the second workspace stops both and a move
back starts both: that tasks differ in their boxes adds only moves that leave one
alone.

Two clients are enough for the synchronisation because a client meets the others
only in the tables of the server; two tasks because a task depends on one parent.
The clock runs until the daily run that follows the last change is over.
`ConvergedAfterADay` says convergence without fairness: after `Horizon` the model
lets the clock go on only when no program and no request is behind.

The four violations are disagreements between the code and what it says:

- `SyncDeferred`: a parent is removed before a client first sees it. The client
  skips the parent, defers the child and writes it with the parent 0
  (`sync_manager.cpp:214`); the foreign key refuses the row and the exception ends
  the program. A new start begins with a full run and meets the same rows, so this
  client never settles: `ConvergedAfterADay` speaks of the behaviours in which
  every client does.
- `TreeCycle`: the chooser of parents leaves out the edited task only
  (`parent_chooser.cpp:47`), so a task can be put below its own child, where
  `doc/html/C/index.html:54` says "Tasks can be organized in a tree". Both vanish
  from the list, and `total_cumulative_time` (`time_accessor.cpp:387`) never returns
  when a window asks for one of them, in this process and in the next.
- `UpgradeTree`: the upgrade of a file of version 4 turns a parent 0 into NULL
  (`db_updater.cpp:101`) and back into 0 (`db_updater.cpp:110-115`), while the list of
  tasks asks for `parent IS NULL` (`task_accessor.cpp:100`). Every task without a parent
  vanishes from the list with all tasks below it, where `doc/html/C/index.html:54` promises a
  tree; `testUpgrade` counts the rows, and its lines about the parents are
  commented out (`test_db.cpp:90-98`).
- `DetailsMerge`: the list may show a row whose time was removed elsewhere. Merging
  with it removes the selected entry and lengthens the removed one
  (`details.cpp:230`), so the time is lost where the question said "Merging will add
  {} minutes." (`details.cpp:209`).

`NoPausedAtRest` and `RemovedTaskStops` are checked without crashes because a
crash does break them: a process that dies after `gui_controller.cpp:242` leaves
a paused row, one that dies after `task_accessor.cpp:345` a removed task with a
running timer. The other invariants hold through crashes. `NoDoubleCounting`,
`TimeBackedByInput`, `RemovedTaskStops` and `StopsWhenExiting` are about what happens before the
clock is set back: afterwards a second of the clock is lived twice, and a row ahead
of the clock refuses the version that stops it.

Two processes are enough for `Launch` because a third meets the lock as the second
does; the second entry is the running or removed one, the third is short or
belongs to no task, so that each rule of the copy has a row.

Three tasks are needed for `Views` so that a task can be between two others, two
entries so that a parent and its child both have time; one entry may cross midnight
and one has no length yet. Two writes are enough to write below a row that was
moved, removed or made twice; every look may come between.

Three entries are needed for `Details` so that a day has a first, a middle and a last
row, the last of which holds the total; two writes so that a row is out of date, moved
or gone when the next one is written. `MergingAddsTime` needs a third. The entry around
midnight belongs to two days. Three tasks are needed for `Desktop` so that a row goes with the row
above it while another stays to be selected instead; with a menu of two, one task with
time is not in it. Three writes are enough to start a timer, to change it or its
task behind the window, and to write once more from what was seen then.

`PausedIsAsked` is an action property: in a living program a paused entry is left without
anybody asking about it only when the user closes the idle dialog without an answer or saves an
old copy in the edit dialog, or when the version test refuses the answer because the clock was set
back to before the entry was written.

**Fairness.** `AbandonedTimersStop` (in `AutoTracker`, where the tracker starts
tasks by itself): strong fairness of `TrackerTimePasses`, `KeeperTick` and
`TrackerStep`: real time passes and the timer serves both observers as long as the
process lives, but a handler is not interrupted, so each is seen to wait for the
handlers of the others; a switch of workspaces would starve them under weak
fairness only. Weak fairness of `KeeperDrain` and `InsertBox`: a loop of a handler
ends. Nothing is assumed of the user or of a launch.
`KnockShowsWindow`: weak fairness of `Poll`, which the same timer calls each second, and
of `Knock`: a client connects and ends without waiting for anybody.

Bounds: `MaxTime` caps the clock and the idle time, `Horizon` the time at which
the user still acts, `ClockSteps` the size of a step, `MaxSetBacks` how often the clock is set
back.

## 5. What is proved

Every theorem holds for any values of the constants that satisfy the assumption of
the module -- any sets of tasks, entries, clients, processes, any settings, any
bounds -- and for behaviours of any length. A hypothesis beyond the assumption is
part of the theorem and explained here. Hardly any of the invariants is inductive
alone; each module of proofs begins with the inductive invariant, whose parts were
run through TLC on the instance of the model before they were proved.

| module | theorem | states | hypothesis |
|---|---|---|---|
| `TimeKeeper_proofs` | `TypeCorrect` | `[]TypeOK` | |
| | `OneTimerPerTask` | `[]OneRunningPerTask` | |
| | `TimeIsNeverNegative` | `[]NoNegativeTime` | |
| | `NoIdleGapIsCounted` | `NoIdleGapCounted` | |
| | `TimeIsCountedOnce` | `[]NoDoubleCounting` | (in the property: not set back) |
| | `KeeperImplementsTimesheet` | `ImplementsTimesheet` | |
| | `IconIsRight` | `[]IconTellsTruth` | |
| | `TimeIsBackedByInput` | `[]TimeBackedByInput` | (in the property: not set back) |
| | `NothingStaysPaused` | `[]NoPausedAtRest` | no crash |
| | `RemovedTasksStop` | `[]RemovedTaskStops` | no crash (in the property: not set back) |
| `Dialogs_proofs` | `DialogsInvariant`, `DialogsTypeCorrect` | `[]DialogsTypeOK` | |
| | `PausedAreAskedAbout` | `PausedIsAsked` | |
| | `IdleIsCountedOnRequest` | `IdleCountedOnRequest` | `EditAhead = 0`, `MaxSetBacks = 0` |
| | `TimeIsLostOnlyOnRequest` | `TimeLostOnlyOnRequest` | `EditAhead = 0`, `MaxSetBacks = 0` |
| `AutoTracker_proofs` | `TrackerInvariant`, `TrackerTypeCorrect` | `[]TrackerTypeOK` | |
| | `OneTimerPerTrackedTask` | `[]OneRunningPerTask` | |
| | `TasksStopWhenExiting` | `[]StopsWhenExiting` | no viewports (in the property: not set back) |
| | `TrackedTasksStop` | `[]RemovedTaskStops` | no crash (in the property: not set back) |
| | `NothingTrackedStaysPaused` | `[]NoPausedAtRest` | no crash |
| `SyncManager_proofs` | `SyncTypeCorrect` | `[]SyncTypeOK` | |
| | `NoChangeForgotten` | `[]NothingForgotten` | |
| | `TimersStayLocal` | `TimersAreLocal` | |
| `Launch_proofs` | `LaunchTypeCorrect` | `[]LaunchTypeOK` | |
| | `UpgradeKeepsTime`, `UpgradeKeepsBranches`, `UpgradeKeepsStates` | `[]TimeKept`, `[]BranchesKept`, `[]StatesKept` | |
| | `ProgramStartsAgain` | `[]StartsAgain` | |
| | `NameLeadsToServer` | `[]SocketLeadsHere` | |
| `Views_proofs` | `Types` | `[]ViewsTypeOK` | |
| | `ListShowsTables` | `[]ListFollowsTables` | |
| | `SummaryShowsTimes` | `[]SummaryFollowsTimes` | |
| | `NoSecondIsCountedTwice` | `[]NoSecondInTwoDays` | the days are disjoint |
| `Details_proofs` | `Types` | `[]DetailsTypeOK` | the calendar |
| | `EveryRecordingIsShown` | `[]EveryRecordingShown` | the calendar |
| | `DetailsFollow` | `[]DetailsFollowTimes` | the calendar |
| | `TheRangeIsTheGroup` | `[]RangeIsTheGroup` | the calendar, the changes of the clocks are small, no odd February |
| `Desktop_proofs` | `DesktopTypeCorrect`, `CommandsHit`, `WindowIsTruthful` | `[]DesktopTypeOK`, `[]CommandsHitTheSelection`, `[]WindowTellsTruth` | |

The hypotheses are facts about the environment, not about the code. Without *no crash*, *not
set back*, *no viewports* and `EditAhead = 0` the properties fail or are not known to hold;
the last one is where the code is limited (section 3):

- *no crash* (`~ MayCrash`): a process that dies between two statements of a handler
  leaves a paused row or a removed task with a running timer (section 4);
- *not set back* (`NeverSetBack`, a condition in the property, which speaks of the time until
  the clock is set back for the first time): a row that was written later than now refuses
  the version that stops it, and time counted before the clock was set back is counted once
  more. `MaxSetBacks = 0`, in the two theorems about dialogs, says that it is never set
  back; the run `Dialogs` checks both properties with a clock that is set back once;
- *no viewports* (`~ Viewports`): where a desktop has viewports the number of the
  workspace is a product that depends on the layout (`x11_workspace.cpp:127`), so that
  two places may have one number;
- `EditAhead = 0`: the user edits no time into the future. `edit_time.cpp` does not refuse
  one; the next tick pulls the end of such an entry back to now, which counts as
  lost without a request, and an older copy of the row can then put the end ahead of
  the clock again. `PausedAreAskedAbout` holds for any `EditAhead`, and through a clock that is set back;
- *the days are disjoint*: no two of the ranges in `Days` have a second in common. The days of
  the calendar are like this: one ends a second before the next begins (`Misc/utils.cpp`).
  With a day and the week around it the second of an entry is rightly counted in both;
- *the calendar* (`Endless`, `Gregorian`): the C library knows when every day begins, not only
  those of some years, and what it says of a day is what the Gregorian calendar says,
  month by month and weekday by weekday. Both hold of Greenwich without summer time,
  where `Midnight[d] = 24 * 3600 * d`, and of any zone that never skipped a date; that the
  library knows all days is an idealisation, where TLC checks the same properties with
  six weeks. `CalendarAssumption` asks of the midnights only that they increase and stay
  within a day of those of Greenwich;
- *the changes of the clocks are small* (`ChangesAreSmall`): within seven days they add up to less than
  half a day. It bounds how far the steps of 24 hours can lead astray in a week
  that has a change before its last day; every other week is exact without it. The first
  weekday is any;
- *no odd February* (`NoOddFebruary`): nobody looks at the month of February 1900, 2000 or
  any 400th year after these, the only ones in which `days_in_month` errs
  (`utils.cpp:162`, which tests `tm_year` for a leap year). That it errs in no other month
  of all times is part of the proof.

### `TimeKeeper_proofs`

The only assumption is `KeeperAssumption` on the constants. `KeeperInv` adds to the
properties

- `VersionsCoverTime`: `start <= stop <= changed` in every row and copy, so that
  an accepted extension cannot go below `start` when the clock was set back;
- `CopiesMatch`: a copy in `todo` or `toNotify` is of a running version of a row
  that still exists and has the same start and stop, and in the extension the copy
  is the row -- without it a stale copy could start a timer a second time.

`StepKeeperInv` goes through the actions one by one, using the lemmas on the
table (`UpdateFields`, `StopKeepsTable`, `NonRunningWrite`, ...).
`NoIdleGapIsCounted` needs `TickCutsIdleTime` in addition: a running row was
changed when it was last extended, one whose idle time is over is still on the
list of the check, and none is left when the extension begins. `TimeIsCountedOnce` rests on
`CountedOnce`: no entry that counts reaches past now, two entries of a task do not
overlap, and of two of them the running one comes last, so that extending it meets
nothing.

That the keeper implements `Timesheet` is proved step by step: `TableStep` lists what a
handler can do to the table -- nothing, open a row, end one that runs or is paused, extend
a running one, erase short ones -- and each of these is an action of `Timesheet` or a
stutter. That an end meets only a row that is still open needs `CopiesOpen`: a copy a
handler still has to write is the only one of its row, and the row was not stopped
since it was read; the versions alone do not give this, for two handlers of the same
second write with the same stamp.

- `Backed`: when the extension begins, the user was active within the limit.
- `IconInv`: between its notifications the icon may be wrong, but only while the check
  has copies left, each of which tells it again.
- `PausedInv`: a paused row was paused by the check that is still running, has its stamp and is
  on its list, so that the second write of the pair is accepted.
- `Stopping(tasks)`: a running row of one of the tasks is on the list of the handler that
  stops it, as the version the row still is. It is stated for a set of tasks because the
  auto tracker needs it for those it started.

### `Dialogs_proofs`

`DialogsInv` adds what holds between a dialog and the thread it shares with the keeper:
a handler of a dialog never finds the keeper in the middle of one (`Handlers`), and a copy
that a question or a second statement holds is of a row that exists, is no newer than
the clock, and while it is of a paused row, the row stays paused and the keeper leaves
it alone (`Kept`). `Outcome(e)` classifies what a step may make of a row -- opened,
ended by the keeper, extended, answered in the idle dialog, rewritten from a copy, ... --
and `Outcomes` proves that every step is one of these for every row; the three
action properties are read off it. The two about time need `TickCuts`, that the tick stops
whatever was idle too long before it extends the rest, and `NothingAhead`, that no row
ends in the future and no held copy ends after its row: an old copy may be
written back, but never gives a row time that it did not have.

### `AutoTracker_proofs`

`Shared` are the invariants of the keeper as they hold whoever's handler runs: the
keeper has nothing to do while a handler of the tracker is in the middle of its work.
Its steps are shown to be steps of the keeper (`KeeperStep`), so that the lemmas of the two
modules above carry over. `Followed` is the heart of `TasksStopWhenExiting`: a task the
tracker started is ticked for the workspace it saw last or is still on the list
of those to stop, as long as the clock has not been set back -- also when the user stopped its timer meanwhile, and may start it again.

### `SyncManager_proofs`

`NothingForgotten` speaks of `last_sync`, the stamp from which the next run
sends. That it may take the value of `current_sync` when a run is complete needs the same
fact about that stamp while the run is under way (`KeptByRun`): what was changed before
the run began is on its way to the server or has arrived, and a failed request
keeps the old stamp. This in turn needs that the stamp of a run is in the past from
the first request on (`Stamps`), that an id occurs once in a request (`OneVersion`, or the server
could take the older of two rows), and that everything stored from an answer is covered
by the server (`FromServer`). The server is seen as a table that only ever becomes newer
(`ServerKeeps`), so a step of one client cannot disturb the invariant of another.

### `Launch_proofs`

`DbInv` follows the file through the statements of the upgrade, with a crash and a new
start after any of them: which columns the tables have by then (`Columns`), that every
task and every time that is to be kept is in the table, in the backup or in the rows
that are still to be copied, and no time twice (`Tree`, `Recorded`), and what the two
updates of the new column have made of a row (`States`). The variable `cut` names the parts
of an upgrade that were once interrupted, for which the properties promise less.
`LockInv` says that a process that has the file has the lock, and that the socket bears the
name of the one that serves. `DbAssumption` gives the old rows what the schema gives them:
typed columns and unique ids (`PRIMARY KEY`, `UNIQUE` in `db_updater.cpp:8, 24`,
`task_accessor.cpp:62`, `time_accessor.cpp:458`).

### `Desktop_proofs`

The only assumption is `DesktopAssumption`. The inductive invariant `DesktopInv` adds
three facts to the properties:

- `OffIsOff`: a program that does not run has no window, no selection and nothing
  open, so that a launch begins from nothing;
- `RowsAreThere`: a row never outlives its task. Without it a row could be
  selected whose task is gone;
- `SeenOrNothing`: what the controller has seen is what runs, or nothing. Without it a
  write that it takes for no change could have changed what runs.

The proof reduces a step to what it makes of the window: `Fit` says that a window
may stand for given tables, one lemma for each operator on windows
(`MadeFits`, `PopulatedFits`, `RunningShownFits`, `ErasedFits`, ...) that it keeps
this, and `LivingStep`, `QuietStep`, `GoneStep` and `LaunchStep` that the invariant
follows; the actions are then sorted under these four.

### `Views_proofs`

The assumption is `ViewsAssumption`: ids and days are finite sets, so that a report is a
sum, and no span ends before it starts. `ViewsInv` holds for the tables, the list, the
summary and the open dialog together:

- the tables are well-formed (`TasksOK`, `TimesOK`), and no time ends before it starts
  (`Forward`), so that an entry gives a day no more than its whole length;
- `ListOK`: a row of the list hangs below a row of the list and is of a task in the table.
  Without it the removal of a row could leave rows below it;
- `SummaryOK`: going up from a row of the summary meets only rows and never comes back
  to the task it started from, although the tree of the summary may be older than the table;
- `ListRight` and `SummaryRight` while the program runs: what the two views show is what the
  tables say, but for the tasks that were never announced and, in a summary, until it is
  populated again;
- `DialogOK`: an open dialog and its choices are of tasks in the table.

The views are computed from the tables by two recursive means: the walk from a task up
to the top (`Chain`) and sums over finite sets (`DurationTime`, `Total`). Neither needs an
induction scheme with an operator parameter: every non-empty set of finite sets has a smallest
member (`SmallestSet`, from the library's theorem on well-founded relations), and
`SetInduction` and `NumberInduction` follow for a property that is given as a set. From these
come `SumsExist` and `SumsUnique`, that the sum of the community modules obeys its equations,
and `ChainOf` and `ChainStep` on the walk. The arguments are then these: a write to the
times of a task changes only the totals of tasks above it (`OtherTotals`); those are the rows
the notifications walk through (`UpdatedRight`); a removal hides exactly the rows
below the task (`ListErasedRight`); a task that has time in a day is active in it, so that
populating the summary makes its row (`TimeIsActive`). A write is proved to keep the invariant once for each of the two tables
(`TimeWrittenKeeps`, `WriteTaskKeeps`), and the actions are composed of such writes.

`NoSecondIsCountedTwice` needs of the invariant only that no time ends before it starts: what a report counts of an entry are
the seconds of the entry in the range (`ShareIsCount`), ranges without a common
second cover different ones (`CoveredStep`), and so the days together count no more
than there are (`DaysAreParts`).

### `Details_proofs`

The assumptions are `CalendarAssumption` and `DetailsAssumption`. The inductive invariant
`DetailsInv` is that the types are right (`TypesInv`), that the range is the span of what was
picked (`RangeIsPicked`), and `ListFine`, which relates the list to a given table: one row for
an entry, each of a row of the table (`Known`), what is due is shown right (`ShownIn`), and
the list is what it would be if made anew, unless it was stirred or narrowed
(`FollowsIn`). `Known` is what the properties lack: without it a new entry could have a row
before it exists, and be brought up to date instead of being inserted.

`ListFine` is stated for any table and list because a write is two steps of the
argument, the new table and what the notification makes of the list:

- A list made anew (`Made`) is fine (`MadeIsFine`). Its rows are those of `Listed`, sorted: that a
  finite set can be put in an order, with nothing left out and nothing twice, is
  `OrderExists` and `InOrderIs`, and `RowIn` says what the row of an entry is from the set alone -- it has a date when
  no entry of its day is before it, and a total when none is behind it.
- `on_time_entry_changed` brings the rows of one day up to date, or makes all anew
  (`ChangedIsFine`). `UpdatedSteps` takes the fold apart into single rows, each of which
  becomes right and leaves the others so (`BroughtIsRight`); an entry that is due is in
  the data of the day in which it starts, so all of them are right in the end
  (`ChangedIsRight`), whatever was written before and in which order.
- That the totals and dates follow, too, needs that the entries of a day are the same
  in the list of the day and in that of the whole range (`RowsOfOneDay`: the range
  is made of whole days, `TimeSpanIsWhole`), so that what is brought up to date is what
  the row would be (`UpdatedFollows`), and that the rows of the other days are as before
  (`RowsStay`). A total that was shown stays when the data has none (`UpdateRow`), which is
  right only because the last entry of a day remains the last while entries only stop later.

The sums of the community modules are folds defined by `CHOOSE`; that they are
what their equations say is proved from the existence of the fold on finite sets
(`FoldExists`, `FoldUnique`). Induction has the form of a least number of a set
(`NumberInduction`).

For the range, `Gregorian` gives the first days of all months as a function on the
integers. `MonthOfDay` finds the month of a day, `MonthIs` that the code's first and last of
the month are those, `YearIs` the same for the year. `WeekOfDay` gives the week
of a day by the calendar. In a week whose days but the last are of 24 hours the midnights
are 24 hours apart (`EvenDays`), and the code's steps find its first and its last day
(`WeekIs`); in any other they end within half a day of the midnights meant
(`NearlyMidnight`), which is that day or the one before (`WeekIsNearly`). `GroupStarts` then
says of the days in between that none of them begins a group.

### Only model-checked

- `ConvergedAfterADay` is about an instance, not about all: how long a day of undisturbed
  runs must be depends on the tree. A client that meets tasks it does not know, each below
  the next, ends once for a level when they come in an unlucky order
  (`SyncDeferred`), and the timers it stops when it gets through are news for the others. From
  a chain of four new tasks on the bound of `Settled` can be too short, and so it can
  when a day is shorter than an interval. With the two tasks of the run it is enough.
- `AbandonedTimersStop` and `KnockShowsWindow`: liveness under fairness is out of the
  prover's reach.
- The four properties that are violated.

## 6. What is not modelled

- Formatting, translation, exporting, JSON text, logging, pictures and the about
  dialog, the SQLite wrapper and X11 calls: no control flow of interest.
- Sub-second parts of times: rows keep whole seconds. The 32 bit overflow of bound
  integers in `sqlite3.cpp` in 2038.
- Sizes and positions of windows, greyed menus, which rows of a list are expanded,
  which row of a summary is selected again after it was populated.
- The task dialogs that are turned to another task while they are open: adding and
  editing share one window.
- `missed_notification` of the notifier: notifications are switched off only while an
  answer of the server is stored, and the only event that heeds the switch is
  the change of a setting, which is not written then.
- The tooltip of the status icon, which the code puts together and does not set.
