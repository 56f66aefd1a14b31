------------------------------ MODULE Desktop ------------------------------
(***************************************************************************)
(* What the user has on the screen besides the dialogs for times: the main *)
(* window with its selected task, made when it is first needed and hidden  *)
(* rather than closed (gui/window_manager.cpp, gui/main_window), the menu  *)
(* of the status icon (gui/status_icon.cpp), the preferences               *)
(* (gui/preference_dialog.cpp), and the controller they send commands to   *)
(* (logic/gui_controller.cpp), which knows the selection from hearsay.     *)
(*                                                                         *)
(* The rows of the list come and go with what everybody else writes, and   *)
(* each of them may take the selection along.  A handler is one step, but  *)
(* for saving the preferences, which a crash may cut short.  Times are     *)
(* reduced to which tasks run; sizes and positions are left out.           *)
(***************************************************************************)
EXTENDS Integers, FiniteSets

CONSTANTS
  TaskId,
  Above,     \* Above[t]: t and the tasks above it in the tree
  MenuSize,  \* the number of tasks in the menu of the icon
  MaxWrites  \* bound: the number of writes

None == "none"

ASSUME DesktopAssumption ==
  /\ None \notin TaskId
  /\ Above \in [TaskId -> SUBSET TaskId]
  /\ \A t \in TaskId : t \in Above[t]
  /\ MenuSize \in Nat /\ MaxWrites \in Nat

VARIABLES
  alive,           \* the program runs
  tasks,           \* tasks[t]: whether the table has it
  running,         \* the tasks with a running entry
  worked,          \* the tasks with an entry
  settings,        \* the table of the settings
  window,          \* the main window
  selectedTaskId,  \* of the controller: the task its commands act on
  oldRunning,      \* of the controller: the running tasks seen last
  menu,            \* latest_tasks, while the menu of the icon is open
  question,        \* the task that is to be removed, while the user is asked
  preferences,     \* the dialog is open
  writes           \* the number of writes so far

tables == <<tasks, running, worked>>
screen == <<window, selectedTaskId, oldRunning>>
popups == <<menu, question, preferences>>
vars == <<alive, tables, settings, screen, popups, writes>>

Name == {"CompactLayout", "StartMinimized"}
Setting == {"missing", "yes", "no"}
Defaults == [CompactLayout |-> "yes", StartMinimized |-> "no"]

NoMenu == {None}
NoWindow == [status |-> "none", attached |-> FALSE, rows |-> {}, selection |-> None,
             title |-> "idle", layout |-> "missing"]

Window == [status : {"none", "hidden", "shown"},
           attached : BOOLEAN,   \* the controller hears what is selected
           rows : SUBSET TaskId, selection : TaskId \cup {None},
           title : {"idle", "running"}, layout : Setting]

DesktopTypeOK ==
  /\ alive \in BOOLEAN
  /\ tasks \in [TaskId -> {"none", "there", "removed"}]
  /\ running \subseteq worked /\ worked \subseteq {t \in TaskId : tasks[t] # "none"}
  /\ settings \in [Name -> Setting]
  /\ window \in Window /\ window.selection \in window.rows \cup {None}
  /\ window.status = "none" => window = NoWindow
  /\ window.status # "none" => settings["CompactLayout"] # "missing"
  /\ selectedTaskId \in TaskId \cup {None} /\ oldRunning \subseteq TaskId
  /\ menu = NoMenu \/ menu \subseteq worked
  /\ question \in TaskId \cup {None}
  /\ preferences \in BOOLEAN /\ writes \in 0 .. MaxWrites

-----------------------------------------------------------------------------
(* settings_accessor *)

\* get_bool, which writes the default when there is no row
Value(s, name) == IF s[name] = "missing" THEN Defaults[name] ELSE s[name]
Asked(s, name) == [s EXCEPT ![name] = Value(s, name)]

\* set_bool
SetBool(s, name, value) == [s EXCEPT ![name] = value]

-----------------------------------------------------------------------------
(* The main window *)

There(tk) == {t \in TaskId : tk[t] = "there"}
Listed(tk) == {t \in TaskId : Above[t] \subseteq There(tk)}

\* on_running_tasks_changed
Title(run) == IF run = {} THEN "idle" ELSE "running"

\* do_layout
LaidOut(w, compact) == [w EXCEPT !.layout = compact]

\* window_manager::get_widget: the window is made without being shown.
Made(w, tk, run) ==
  IF w.status # "none" THEN w
  ELSE LaidOut([status |-> "hidden", attached |-> FALSE, rows |-> Listed(tk),
                selection |-> None, title |-> Title(run), layout |-> "missing"],
               Value(settings, "CompactLayout"))

Shown(w) == [w EXCEPT !.status = "shown"]

\* attach: first detached, to avoid duplicates
Attached(w) == [w EXCEPT !.attached = TRUE]

\* Mutant of Populated: the selection is kept.
PopulatedSelected(w, tk) ==
  IF w.status = "none" THEN w ELSE [w EXCEPT !.rows = Listed(tk)]

\* do_update: emptying the list leaves nothing selected.
Populated(w, tk) ==
  IF w.status = "none" THEN w ELSE [w EXCEPT !.rows = Listed(tk), !.selection = None]

\* on_running_tasks_changed, called for whatever window get_widget gives
RunningShown(w, tk, run) ==
  [Populated(Made(w, tk, run), tk) EXCEPT !.title = Title(run)]

(***************************************************************************)
(* on_task_removed: the row goes with the rows below it.  When it was      *)
(* selected, Gtk selects a row nearby, or none.                            *)
(***************************************************************************)
Erased(w, t) ==
  LET gone == IF t \in w.rows THEN {u \in w.rows : t \in Above[u]} ELSE {}
      left == w.rows \ gone
      near == IF w.selection \in gone THEN left \cup {None} ELSE {w.selection}
  IN  {[w EXCEPT !.rows = left, !.selection = s] : s \in near}

\* Mutant of Chosen: the controller does not hear of rows that go.
ChosenByClick ==
  selectedTaskId' =
    IF window'.attached /\ window'.selection # window.selection /\ window'.rows = window.rows
    THEN window'.selection ELSE selectedTaskId

\* on_selection_changed: the controller listens since it was attached.
Chosen ==
  selectedTaskId' =
    IF window'.attached /\ window'.selection # window.selection
    THEN window'.selection ELSE selectedTaskId

-----------------------------------------------------------------------------
(* What a write of a time leads to *)

\* The window, once made, has asked for the layout.
SettingsRead ==
  settings' = IF window'.status # "none" THEN Asked(settings, "CompactLayout") ELSE settings

\* The keeper tells that the running tasks have changed.
KeeperWrites(run) ==
  /\ running' = run /\ worked' = worked \cup run
  /\ window' = RunningShown(window, tasks, run)
  /\ oldRunning' = run
  /\ Chosen /\ SettingsRead

\* Mutant of OthersWrite: the controller looks for timers that have ended.
OthersWriteEnds(run) ==
  /\ running' = run /\ worked' = worked \cup run
  /\ window' = IF oldRunning \subseteq run THEN window ELSE RunningShown(window, tasks, run)
  /\ oldRunning' = run
  /\ Chosen /\ SettingsRead

\* on_time_entry_changed, for a write of anybody else
OthersWrite(run) ==
  /\ running' = run /\ worked' = worked \cup run
  /\ window' = IF run = oldRunning THEN window ELSE RunningShown(window, tasks, run)
  /\ oldRunning' = run
  /\ Chosen /\ SettingsRead

Write == alive /\ writes < MaxWrites /\ writes' = writes + 1

-----------------------------------------------------------------------------
(* The user and the main window *)

\* While a question is open the rest of the program takes no input, and
\* while the menu of the icon is open its windows do not.
UserActs == alive /\ question = None
InWindow == UserActs /\ menu = NoMenu /\ window.status = "shown"

\* The icon is activated, or its menu says so: on_action_toggle_main_window.
ToggleMainWindow ==
  /\ UserActs
  /\ window' = IF window.status = "shown" THEN [window EXCEPT !.status = "hidden"]
               ELSE Shown(Attached(Made(window, tasks, running)))
  /\ menu' = NoMenu
  /\ SettingsRead /\ Chosen
  /\ UNCHANGED <<alive, tables, oldRunning, question, preferences, writes>>

\* on_show_main_window: another launch of the program asks for the window,
\* and the controller does not attach.
ShowMainWindow ==
  /\ alive
  /\ window' = Shown(Made(window, tasks, running))
  /\ SettingsRead /\ Chosen
  /\ UNCHANGED <<alive, tables, oldRunning, popups, writes>>

\* The user closes the window, which hides it.
CloseMainWindow ==
  /\ InWindow
  /\ window' = [window EXCEPT !.status = "hidden"]
  /\ UNCHANGED <<alive, tables, settings, selectedTaskId, oldRunning, popups, writes>>

\* A row is clicked, or the selected one with the control key.
Select(t) ==
  /\ InWindow /\ t \in (window.rows \cup {None}) \ {window.selection}
  /\ window' = [window EXCEPT !.selection = t]
  /\ Chosen
  /\ UNCHANGED <<alive, tables, settings, oldRunning, popups, writes>>

\* on_start and on_stop, from the menu, the tool bar and the context menu
StartSelected ==
  /\ InWindow /\ Write
  /\ selectedTaskId \in TaskId \ running
  /\ KeeperWrites(running \cup {selectedTaskId})
  /\ UNCHANGED <<alive, tasks, popups>>

StopSelected ==
  /\ InWindow /\ Write
  /\ selectedTaskId \in running
  /\ KeeperWrites(running \ {selectedTaskId})
  /\ UNCHANGED <<alive, tasks, popups>>

\* on_stop_all, from the menu of the window or the one of the icon
StopAll ==
  /\ UserActs /\ Write
  /\ running # {}
  /\ KeeperWrites({}) /\ menu' = NoMenu
  /\ UNCHANGED <<alive, tasks, question, preferences>>

(***************************************************************************)
(* task_accessor::create and update with their notifications.  A task that *)
(* is added or moved makes all rows anew.  A removed one is stopped by the *)
(* keeper, which is told first; then its row goes, if it is still there.   *)
(* That a task comes back is not announced.                                *)
(***************************************************************************)
TaskWritten(tk, t, moved) ==
  LET gone == tasks[t] = "there" /\ tk[t] = "removed" IN
  /\ tasks' = tk
  /\ IF gone /\ t \in running
     THEN /\ running' = running \ {t} /\ oldRunning' = running'
          /\ window' = RunningShown(window, tk, running')
     ELSE /\ window' \in IF moved THEN {Populated(window, tk)}
                        ELSE IF gone THEN Erased(window, t) ELSE {window}
          /\ UNCHANGED <<running, oldRunning>>
  /\ Chosen /\ SettingsRead
  /\ UNCHANGED worked

\* on_action_remove_task: the id is taken before the user is asked ...
AskRemove ==
  /\ InWindow /\ window.selection # None
  /\ question' = window.selection
  /\ UNCHANGED <<alive, tables, settings, screen, menu, preferences, writes>>

\* ... and the task removed, unless that has happened meanwhile.
ConfirmRemove ==
  /\ question # None /\ question' = None
  /\ IF tasks[question] = "there"
     THEN Write /\ TaskWritten([tasks EXCEPT ![question] = "removed"], question, FALSE)
     ELSE UNCHANGED <<tables, settings, screen, writes>>
  /\ UNCHANGED <<alive, menu, preferences>>

CancelRemove ==
  /\ question # None /\ question' = None
  /\ UNCHANGED <<alive, tables, settings, screen, menu, preferences, writes>>

-----------------------------------------------------------------------------
(* The icon and the preferences *)

\* latest_active_tasks: of the tasks with entries, whichever are the latest
LatestActiveTasks ==
  LET active == worked \cap There(tasks)
  IN  IF Cardinality(active) <= MenuSize THEN {active}
      ELSE {m \in SUBSET active : Cardinality(m) = MenuSize}

\* on_popup_menu: populate_context_menu keeps the tasks it lists.
PopUpMenu ==
  /\ UserActs /\ menu = NoMenu
  /\ menu' \in LatestActiveTasks
  /\ UNCHANGED <<alive, tables, settings, screen, question, preferences, writes>>

DismissMenu ==
  /\ UserActs /\ menu # NoMenu /\ menu' = NoMenu
  /\ UNCHANGED <<alive, tables, settings, screen, question, preferences, writes>>

\* toggle_task: the task may have been removed while the menu was open.
ToggleTask(t) ==
  /\ UserActs /\ t \in menu /\ Write
  /\ KeeperWrites(IF t \in running THEN running \ {t} ELSE running \cup {t})
  /\ menu' = NoMenu
  /\ UNCHANGED <<alive, tasks, question, preferences>>

\* on_settings: a new dialog asks for its values.
OpenPreferences ==
  /\ UserActs /\ ~ preferences
  /\ preferences' = TRUE /\ menu' = NoMenu
  /\ settings' = Asked(Asked(settings, "CompactLayout"), "StartMinimized")
  /\ UNCHANGED <<alive, tables, screen, question, writes>>

\* on_ok_button_clicked: save writes one setting after the other, and the
\* window is laid out when it is told of the first.
SavePreferences(compact, minimized) ==
  /\ UserActs /\ menu = NoMenu /\ preferences /\ preferences' = FALSE
  /\ settings' = SetBool(SetBool(settings, "CompactLayout", compact), "StartMinimized", minimized)
  /\ window' = IF window.status = "none" THEN window ELSE LaidOut(window, compact)
  /\ UNCHANGED <<alive, tables, selectedTaskId, oldRunning, menu, question, writes>>

CancelPreferences ==
  /\ UserActs /\ menu = NoMenu /\ preferences /\ preferences' = FALSE
  /\ UNCHANGED <<alive, tables, settings, screen, menu, question, writes>>

-----------------------------------------------------------------------------
(* The other writers, and the life of the process *)

\* The tracker and the idle handler of the keeper
KeeperActs(t) ==
  /\ Write
  /\ \/ t \in running /\ KeeperWrites(running \ {t})
     \/ t \in There(tasks) \ running /\ KeeperWrites(running \cup {t})
  /\ UNCHANGED <<alive, tasks, popups>>

\* The dialogs for times, the synchronisation, and a running entry that is
\* extended: with no running entry but one of t, or none of t
TimeWritten(t) ==
  /\ Write /\ t \in worked
  /\ \E run \in {running, running \cup {t}, running \ {t}} : OthersWrite(run)
  /\ UNCHANGED <<alive, tasks, popups>>

\* The task dialog adds and moves tasks, the synchronisation removes them
\* and brings them back, too.  Tasks keep their names, and their places in
\* the tree as far as they matter here.
TaskChanged(t) ==
  /\ Write
  /\ \A u \in Above[t] \ {t} : tasks[u] # "none"
  /\ \E s \in {"there", "removed"}, moved \in BOOLEAN :
       /\ tasks[t] = "none" => s = "there" /\ moved
       /\ moved \/ s # tasks[t]
       /\ TaskWritten([tasks EXCEPT ![t] = s], t, moved)
  /\ UNCHANGED <<alive, popups>>

Gone ==
  /\ alive' = FALSE /\ window' = NoWindow /\ selectedTaskId' = None /\ oldRunning' = {}
  /\ menu' = NoMenu /\ question' = None /\ preferences' = FALSE

\* on_quit, and a crash between the settings that are saved
Quit == alive /\ Gone /\ UNCHANGED <<tables, settings, writes>>

SaveCutShort(compact) ==
  /\ UserActs /\ menu = NoMenu /\ preferences /\ Gone
  /\ settings' = SetBool(settings, "CompactLayout", compact)
  /\ UNCHANGED <<tables, writes>>

\* run, which opens the database and loses the short entries, and
\* gui_controller::start
Launch ==
  /\ ~ alive /\ alive' = TRUE
  /\ running' \in SUBSET running
  /\ worked' \in {w \in SUBSET worked : running' \subseteq w}
  /\ LET asked == Asked(settings, "StartMinimized") IN
     IF asked["StartMinimized"] = "yes"
     THEN settings' = asked /\ UNCHANGED window
     ELSE /\ settings' = Asked(asked, "CompactLayout")
          /\ window' = Shown(Attached(Made(window, tasks, running')))
  /\ UNCHANGED <<tasks, selectedTaskId, oldRunning, popups, writes>>

-----------------------------------------------------------------------------
Init ==
  /\ tasks \in [TaskId -> {"none", "there"}]
  /\ \A t \in There(tasks) : Above[t] \subseteq There(tasks)
  /\ running \in SUBSET There(tasks) /\ worked = running
  /\ settings = [n \in Name |-> "missing"]
  /\ alive = FALSE /\ window = NoWindow /\ selectedTaskId = None /\ oldRunning = {}
  /\ menu = NoMenu /\ question = None /\ preferences = FALSE /\ writes = 0

Next ==
  \/ ToggleMainWindow \/ ShowMainWindow \/ CloseMainWindow
  \/ \E t \in TaskId \cup {None} : Select(t)
  \/ StartSelected \/ StopSelected \/ StopAll
  \/ AskRemove \/ ConfirmRemove \/ CancelRemove
  \/ PopUpMenu \/ DismissMenu \/ OpenPreferences \/ CancelPreferences
  \/ \E t \in TaskId : ToggleTask(t) \/ KeeperActs(t) \/ TimeWritten(t) \/ TaskChanged(t)
  \/ \E compact \in {"yes", "no"} :
       \/ SaveCutShort(compact)
       \/ \E minimized \in {"yes", "no"} : SavePreferences(compact, minimized)
  \/ Quit \/ Launch

Spec == Init /\ [][Next]_vars

-----------------------------------------------------------------------------
(***************************************************************************)
(* Start, Stop, Edit and Add time act on the task that is highlighted,     *)
(* which is still there, although the rows under the selection go and come *)
(* with what the keeper and the synchronisation write.  They act on no     *)
(* task at all when the controller has come later than the selection       *)
(* (gui_controller.cpp:96).                                                *)
(***************************************************************************)
CommandsHitTheSelection ==
  selectedTaskId # None =>
    /\ selectedTaskId = window.selection /\ window.attached
    /\ tasks[selectedTaskId] = "there"

(***************************************************************************)
(* While a timer runs the title of the main window says so, whoever has    *)
(* started it and whenever the window was made, and the window is laid out *)
(* as the settings say.                                                    *)
(***************************************************************************)
WindowTellsTruth ==
  window.status # "none" =>
    /\ running # {} => window.title = "running"
    /\ window.layout = settings["CompactLayout"]
=============================================================================
