---------------------------- MODULE AutoTracker ----------------------------
(***************************************************************************)
(* auto_tracker (lib/src/Logic/auto_tracker.cpp), composed with the time   *)
(* keeper: a task that is ticked for a workspace is started when the user  *)
(* enters it and stopped when the user leaves it, and a quiet task is      *)
(* started again when the user is back.                                    *)
(*                                                                         *)
(* The tracker looks once a second, the keeper every ten seconds, and both *)
(* ask the same idle detector (x11/x11_idle_detector.cpp), which answers   *)
(* "idle" once after the computer was suspended.  A unit of the clock is   *)
(* not shorter than ten seconds, so both have their turn, in any order and *)
(* with the user in between, before the clock moves on.                    *)
(***************************************************************************)
EXTENDS TimeKeeper

CONSTANTS
  Columns, Rows,  \* the layout of the workspaces
  Viewports,      \* they are parts of one large desktop
  PollGap,        \* one minute: a longer silence was a suspend
  Ticks           \* bound: the sets of boxes the user ticks for a task

ASSUME TrackerAssumption ==
  /\ Columns \in Nat \ {0} /\ Rows \in Nat \ {0}
  /\ Viewports \in BOOLEAN
  /\ PollGap \in Nat /\ PollGap >= ActiveLimit
  /\ Ticks \subseteq SUBSET (0 .. Columns * Rows - 1)

VARIABLES
  place,                \* the workspace the user is on
  ticked,               \* table autotrack: pairs of a task and a box
  oldWorkspace,         \* old_workspace
  oldActive,            \* old_user_is_active
  lastPoll,             \* last_poll of the idle detector
  toStop, toStart,      \* the tasks the handler still has to stop and start
  toTick,               \* the boxes a dialog still has to insert
  polled, checked,      \* tracker and keeper had their turn in this unit
  wanted                \* history: the tasks the tracker has started

trackerVars == <<oldWorkspace, oldActive, lastPoll, toStop, toStart>>
turnVars == <<polled, checked>>
allVars == <<vars, place, ticked, trackerVars, toTick, turnVars, wanted>>

Place == (0 .. Columns - 1) \X (0 .. Rows - 1)
Boxes == 0 .. Columns * Rows - 1
Unknown == -1   \* UINT_MAX

\* edit_task_dialog::create_layout: the number of a check button
Box(p) == p[2] * Columns + p[1]

\* x11_workspace::active: a desktop has the number of its box, a viewport
\* the product of its column and its row.
Active(p) == IF Viewports THEN (p[1] + 1) * (p[2] + 1) - 1 ELSE Box(p)

\* Mutant of TaskIds: a task that is marked deleted is returned too.
TaskIdsDeleted(w) == {t \in TaskId : <<t, w>> \in ticked}

\* auto_track_accessor::task_ids
TaskIds(w) == {t \in TaskId \ removed : <<t, w>> \in ticked}

TrackerTypeOK ==
  /\ TimesType
  /\ pc \in PC \cup {"switch", "quiet", "tick"}
  /\ place \in Place /\ ticked \subseteq TaskId \X Boxes
  /\ oldWorkspace \in Nat \cup {Unknown} /\ lastPoll \in Nat
  /\ toStop \cup toStart \subseteq TaskId /\ toTick \subseteq TaskId \X Boxes
  /\ toStop # {} => pc = "switch"
  /\ toStart # {} => pc \in {"switch", "quiet"}
  /\ (toTick # {}) = (pc = "tick")
  /\ {oldActive, polled, checked} \subseteq BOOLEAN
  /\ wanted \subseteq TaskId

\* Bound: without an id for its row a start is left out.
IdLeft == \E e \in EntryId : times[e] = NoRow

\* What the handler of the tracker leaves alone.
Kept == UNCHANGED <<envVars, settingVars, removed, todo, toNotify,
                    place, ticked, toTick, checked>>
NoWrite == UNCHANGED <<times, viewVars>>

-----------------------------------------------------------------------------
(* auto_tracker::check_for_changes *)

\* The time between two polls makes the detector answer "idle" once.
SeenActive == now - lastPoll <= PollGap /\ UserIsActive

\* The user is back: the quiet tasks of the workspace are read.
LookForUser ==
  LET found == IF SeenActive /\ ~ oldActive
               THEN TaskIds(Active(place)) \cap Quiet ELSE {}
  IN  /\ toStart' = found
      /\ pc' = IF found = {} THEN "ready" ELSE "quiet"
      /\ oldActive' = SeenActive /\ lastPoll' = now
      /\ polled' = (now - lastPoll <= PollGap)

\* on_signal_1_second; the two lists are read before the first task is stopped.
Look ==
  /\ pc = "ready" /\ ~ polled
  /\ IF oldWorkspace # Active(place)
     THEN /\ toStop' = TaskIds(oldWorkspace) \ TaskIds(Active(place))
          /\ toStart' = TaskIds(Active(place))
          /\ pc' = "switch"
          /\ UNCHANGED <<oldActive, lastPoll, polled>>
     ELSE LookForUser /\ UNCHANGED toStop
  /\ Kept /\ NoWrite /\ UNCHANGED <<oldWorkspace, wanted>>

\* Mutant of SwitchStop: what was left goes on.
SwitchStopNot(t) ==
  /\ pc = "switch" /\ t \in toStop
  /\ toStop' = toStop \ {t}
  /\ Kept /\ NoWrite
  /\ UNCHANGED <<pc, oldWorkspace, oldActive, lastPoll, toStart, polled, wanted>>

\* do_task_switching: first loop
SwitchStop(t) ==
  /\ pc = "switch" /\ t \in toStop
  /\ IF IsRunning(t)
     THEN \E item \in ByState("running") : item.owner = t /\ StopTime(item)
     ELSE NoWrite
  /\ toStop' = toStop \ {t}
  /\ wanted' = IF t \in RunningTasks' THEN wanted ELSE wanted \ {t}
  /\ Kept /\ UNCHANGED <<pc, oldWorkspace, oldActive, lastPoll, toStart, polled>>

\* Mutant of Started: the running entries are not looked at.
StartedUnchecked(t) ==
  /\ IF IdLeft THEN StartUnchecked(t) ELSE NoWrite
  /\ toStart' = toStart \ {t}
  /\ wanted' = wanted \cup ({t} \cap RunningTasks')
  /\ Kept /\ UNCHANGED <<oldWorkspace, oldActive, lastPoll, toStop, polled>>

\* time_manager::start, from the tracker
Started(t) ==
  /\ IF IsRunning(t) \/ ~ IdLeft THEN NoWrite ELSE StartTime(t)
  /\ toStart' = toStart \ {t}
  /\ wanted' = wanted \cup ({t} \cap RunningTasks')
  /\ Kept /\ UNCHANGED <<oldWorkspace, oldActive, lastPoll, toStop, polled>>

\* Second loop
SwitchStart(t) ==
  /\ pc = "switch" /\ toStop = {} /\ t \in toStart
  /\ Started(t)
  /\ UNCHANGED pc

Switched ==
  /\ pc = "switch" /\ toStop = {} /\ toStart = {}
  /\ oldWorkspace' = Active(place)
  /\ LookForUser
  /\ Kept /\ NoWrite /\ UNCHANGED <<toStop, wanted>>

QuietStart(t) ==
  /\ pc = "quiet" /\ t \in toStart
  /\ Started(t)
  /\ pc' = IF toStart' = {} THEN "ready" ELSE "quiet"

TrackerStep ==
  \/ Look \/ Switched
  \/ \E t \in toStop : SwitchStop(t)
  \/ \E t \in toStart : SwitchStart(t) \/ QuietStart(t)

-----------------------------------------------------------------------------
(* The user and the dialog of a task *)

EnterWorkspace(p) ==
  /\ UserActs /\ p # place
  /\ place' = p /\ polled' = FALSE
  /\ NoWrite
  /\ UNCHANGED <<now, settingVars, removed, pc, todo, toNotify, ticked,
                 trackerVars, toTick, checked, wanted>>

\* auto_track_accessor::set_workspaces: a DELETE ...
SetWorkspaces(t, boxes) ==
  /\ UserActs /\ t \notin removed
  /\ ticked' = {pair \in ticked : pair[1] # t}
  /\ toTick' = {t} \X boxes
  /\ pc' = IF boxes = {} THEN "ready" ELSE "tick"
  /\ polled' = FALSE
  /\ wanted' = wanted \ {t}
  /\ NoWrite
  /\ UNCHANGED <<now, settingVars, removed, todo, toNotify, place, trackerVars, checked>>

\* Mutant of InsertBox: the transaction is never closed.
InsertBoxOpen(pair) ==
  /\ pc = "tick" /\ pair \in toTick
  /\ ticked' = ticked \cup {pair} /\ toTick' = toTick \ {pair}
  /\ NoWrite
  /\ UNCHANGED <<envVars, settingVars, removed, pc, todo, toNotify, place,
                 trackerVars, turnVars, wanted>>

\* ... and an INSERT for each box.
InsertBox(pair) ==
  /\ pc = "tick" /\ pair \in toTick
  /\ ticked' = ticked \cup {pair} /\ toTick' = toTick \ {pair}
  /\ pc' = IF toTick' = {} THEN "ready" ELSE "tick"
  /\ NoWrite
  /\ UNCHANGED <<envVars, settingVars, removed, todo, toNotify, place,
                 trackerVars, turnVars, wanted>>

-----------------------------------------------------------------------------
(* The keeper.  A task its user stops is not wanted any more. *)

Alone == UNCHANGED <<place, ticked, toTick, trackerVars>>

KeeperUserStep ==
  /\ UserStep
  /\ wanted' = wanted \ (RunningTasks \ RunningTasks')
  /\ polled' = FALSE
  /\ Alone /\ UNCHANGED checked

KeeperDrain ==
  /\ \E item \in todo : Drain(item)
  /\ wanted' = wanted \ (RunningTasks \ RunningTasks')
  /\ polled' = FALSE
  /\ Alone /\ UNCHANGED checked

\* The poll of the keeper takes its answer from the same detector.
KeeperPolls ==
  /\ PollActivity
  /\ (todo' # {}) = (SeenActive /\ RunningTasks # {})
  /\ lastPoll' = now /\ checked' = TRUE
  /\ UNCHANGED <<place, ticked, toTick, oldWorkspace, oldActive, toStop, toStart,
                 polled, wanted>>

KeeperTick ==
  \/ KeeperPolls
  \/ /\ TickBegin \/ \E item \in todo \cup toNotify :
                       NotifyIdle(item) \/ StopExpired(item) \/ Extend(item)
     /\ polled' = FALSE
     /\ Alone /\ UNCHANGED <<checked, wanted>>

TrackerTimePasses ==
  /\ pc = "ready" => polled /\ checked
  /\ TimePasses
  /\ polled' = FALSE /\ checked' = FALSE
  /\ Alone /\ UNCHANGED wanted

\* The detector compares with the same wall clock (x11_idle_detector.cpp).
\* Bound: nobody sets the clock after Horizon.
TrackerStepBack ==
  /\ StepBack /\ now <= Horizon
  /\ polled' = FALSE
  /\ Alone /\ UNCHANGED <<checked, wanted>>

TrackerDown ==
  /\ Down
  /\ oldWorkspace' = Unknown /\ oldActive' = FALSE
  /\ toStop' = {} /\ toStart' = {} /\ toTick' = {} /\ wanted' = {}
  /\ UNCHANGED <<place, ticked, lastPoll, turnVars>>

\* The detector starts anew, and the constructor of the tracker looks.
\* Bound: the user launches nothing after Horizon.
TrackerLaunch ==
  /\ Launch /\ now <= Horizon
  /\ lastPoll' = now /\ polled' = FALSE
  /\ UNCHANGED <<place, ticked, oldWorkspace, oldActive, toStop, toStart,
                 toTick, checked, wanted>>

\* Bound: the end of a behaviour whose program is not running
Ended == pc = "off" /\ now = MaxTime /\ UNCHANGED allVars

-----------------------------------------------------------------------------
TrackerInit ==
  /\ Init
  /\ place \in Place
  /\ \E boxes \in [TaskId -> Ticks] : ticked = UNION {{t} \X boxes[t] : t \in TaskId}
  /\ oldWorkspace = Unknown /\ oldActive = FALSE /\ lastPoll = 0
  /\ toStop = {} /\ toStart = {} /\ toTick = {}
  /\ polled = FALSE /\ checked = FALSE /\ wanted = {}

TrackerNext ==
  \/ TrackerStep \/ KeeperUserStep \/ KeeperDrain \/ KeeperTick
  \/ \E p \in Place : EnterWorkspace(p)
  \/ \E t \in TaskId, boxes \in Ticks : SetWorkspaces(t, boxes)
  \/ \E pair \in toTick : InsertBox(pair)
  \/ TrackerTimePasses \/ TrackerStepBack \/ TrackerDown \/ TrackerLaunch \/ Ended

(***************************************************************************)
(* The clock does not stop, the handlers end, and the timer serves the     *)
(* keeper and the tracker again and again as long as the process lives --  *)
(* strong fairness, because each has to wait for the handlers of others.   *)
(***************************************************************************)
TrackerSpec ==
  /\ TrackerInit /\ [][TrackerNext]_allVars
  /\ SF_allVars(TrackerTimePasses)
  /\ SF_allVars(KeeperTick) /\ SF_allVars(TrackerStep)
  /\ WF_allVars(KeeperDrain)
  /\ WF_allVars(\E pair \in toTick : InsertBox(pair))

-----------------------------------------------------------------------------
(***************************************************************************)
(* "When enabled your task will start when entering this workspace and     *)
(* stop when exiting" (edit_task_dialog.cpp:111): once the tracker has     *)
(* seen where the user is, none of the tasks it started runs on a          *)
(* workspace it is not ticked for -- as long as the clock has not been set *)
(* back, when the stop of a row written at a later time is refused.  It is *)
(* about the tasks started since the launch: one that was left running by  *)
(* a quit or a crash is not looked for.                                    *)
(***************************************************************************)
StopsWhenExiting ==
  NeverSetBack /\ pc = "ready" /\ oldWorkspace = Active(place) =>
    \A t \in wanted \cap RunningTasks : <<t, Box(place)>> \in ticked
=============================================================================
