------------------------- MODULE AutoTracker_proofs -------------------------
(***************************************************************************)
(* The auto tracker and the time keeper together, for any layout of the    *)
(* workspaces, any tasks and any boxes that are ticked for them.           *)
(***************************************************************************)
EXTENDS AutoTracker, TimeKeeper_proofs

-----------------------------------------------------------------------------
(* The inductive invariant *)

TrackerPC == {"switch", "quiet", "tick"}

\* The types of the keeper, whoever's handler runs.
KeeperTypes ==
  /\ TimesType
  /\ now \in Nat /\ sinceInput \in Nat /\ setBacks \in 0 .. MaxSetBacks
  /\ gt \in IdleTimes /\ gz \in ZeroTimes
  /\ removed \subseteq TaskId
  /\ todo \subseteq TimeEntry /\ toNotify \subseteq TimeEntry
  /\ oldRunning \subseteq TaskId /\ icon \in BOOLEAN

\* No row is from the future, as long as the clock was not set back.
NoneLater == NeverSetBack => NoneFromFuture

\* The keeper has nothing to do while a handler of the tracker runs, so its
\* own invariants hold as between two of its handlers.
Shared ==
  /\ KeeperTypes /\ pc \in PC \cup TrackerPC
  /\ VersionsCoverTime /\ OneRunningPerTask /\ NoneLater
  /\ pc \in PC => CopiesMatch /\ CopiesOpen
  /\ pc \in TrackerPC => todo = {} /\ toNotify = {}

\* What the handlers of the tracker have read stays true while they run.
Lists ==
  /\ TrackerTypeOK
  /\ toStart \subseteq TaskIds(Active(place))
  /\ pc = "quiet" => oldWorkspace = Active(place)

(***************************************************************************)
(* A task the tracker started is ticked for the workspace the tracker saw  *)
(* last, or still to be stopped, also when its timer was stopped meanwhile *)
(* and the user may start it again.  A removed one does not run.           *)
(***************************************************************************)
Followed ==
  /\ \A t \in wanted \ removed :
       IF pc = "switch" THEN t \in toStop \/ <<t, Active(place)>> \in ticked
                        ELSE <<t, oldWorkspace>> \in ticked
  /\ Stopping(removed \cap wanted)

TrackerInv == Shared /\ Lists /\ (NeverSetBack => Followed)

LEMMA InitTracker == TrackerInit => TrackerInv
<1> SUFFICES ASSUME TrackerInit PROVE TrackerInv
  OBVIOUS
<1>1. KeeperInv /\ CopiesOpen /\ NoneFromFuture /\ pc = "off"
  BY InitKeeperInv DEF TrackerInit, Init, CopiesOpen, NoneFromFuture, NoRow
<1>2. Shared
  BY <1>1 DEF Shared, KeeperTypes, KeeperInv, TypeOK, TrackerPC, NoneLater
<1>3. ticked \subseteq TaskId \X Boxes
  <2>1. PICK boxes \in [TaskId -> Ticks] : ticked = UNION {{t} \X boxes[t] : t \in TaskId}
    BY DEF TrackerInit
  <2>2. \A t \in TaskId : boxes[t] \subseteq Boxes
    BY TrackerAssumption DEF Boxes
  <2>3. QED
    BY <2>1, <2>2
<1>4. Lists
  BY <1>1, <1>2, <1>3
     DEF Lists, Shared, KeeperTypes, TrackerInit, TrackerTypeOK, Unknown, KeeperInv, TypeOK
<1>5. Followed
  BY DEF Followed, Stopping, TrackerInit
<1>6. QED
  BY <1>2, <1>4, <1>5 DEF TrackerInv

-----------------------------------------------------------------------------
(* Steps *)

\* The number of a workspace is a number, also when it is a product.
LEMMA ActiveIsNumber == ASSUME place \in Place PROVE Active(place) \in Nat
<1>1. /\ place[1] \in Nat /\ place[2] \in Nat /\ Columns \in Nat
  BY TrackerAssumption DEF Place
<1>2. place[2] * Columns \in Nat
  BY <1>1
<1>3. Box(place) \in Nat
  BY <1>1, <1>2 DEF Box
<1>4. \A a, b \in Nat : (a + 1) * (b + 1) - 1 \in Nat
  <2>1. ASSUME NEW a \in Nat, NEW b \in Nat PROVE (a + 1) * (b + 1) - 1 \in Nat
    <3>1. (a + 1) * (b + 1) = a * b + a + b + 1
      BY Z3
    <3>2. a * b \in Nat
      OBVIOUS
    <3>3. QED
      BY <3>1, <3>2
  <2>2. QED
    BY <2>1
<1>5. QED
  BY <1>1, <1>3, <1>4 DEF Active

\* While the keeper has the thread, its invariants are those of TimeKeeper.
LEMMA SharedIsOpen == Shared /\ pc \in PC => OpenInv
  BY DEF Shared, KeeperTypes, OpenInv, KeeperInv, TypeOK

\* What a step of the keeper writes carries the stamp of this moment.
LEMMA StampsKeepUp ==
  ASSUME TimesType, NoneFromFuture, TableStep, now \in Nat, now' \in Nat, now' >= now
  PROVE  NoneFromFuture'
<1>1. \A e \in EntryId : times[e] # NoRow => times[e].changed \in Nat
  BY DEF TimesType, TimeEntry
<1>2. ASSUME \A e \in EntryId : times'[e] # NoRow =>
               (times[e] # NoRow /\ times'[e] = times[e]) \/ times'[e].changed = now
      PROVE  NoneFromFuture'
  <2>1. ASSUME NEW e \in EntryId, times'[e] # NoRow PROVE times'[e].changed <= now'
    <3>1. CASE times[e] # NoRow /\ times'[e] = times[e]
      BY <1>1, <3>1 DEF NoneFromFuture
    <3>2. CASE times'[e].changed = now
      BY <3>2
    <3>3. QED
      BY <1>2, <2>1, <3>1, <3>2
  <2>2. QED
    BY <2>1 DEF NoneFromFuture
<1>3. CASE times' = times
  BY <1>2, <1>3
<1>4. ASSUME NEW e \in EntryId, NEW t \in TaskId, Opened(e, t) PROVE NoneFromFuture'
  <2>1. \A f \in EntryId : times'[f] = times[f] \/ times'[f].changed = now
    BY <1>4 DEF Opened, TimesType
  <2>2. QED
    BY <1>2, <2>1
<1>5. ASSUME NEW e \in EntryId, Closed(e, {"stopped", "paused", "deleted"})
      PROVE  NoneFromFuture'
  <2>1. /\ times'[e].changed = now
        /\ \A f \in EntryId : f # e => times'[f] = times[f]
    BY <1>5, ClosedRow
  <2>2. QED
    BY <1>2, <2>1
<1>6. ASSUME NEW e \in EntryId, Extended(e) PROVE NoneFromFuture'
  <2>1. /\ times'[e].changed = now
        /\ \A f \in EntryId : f # e => times'[f] = times[f]
    BY <1>6, ExtendedRow
  <2>2. QED
    BY <1>2, <2>1
<1>7. ASSUME NEW lines, Erased(lines) PROVE NoneFromFuture'
  <2>1. \A f \in EntryId : times'[f] = NoRow \/ times'[f] = times[f]
    BY <1>7 DEF Erased
  <2>2. QED
    BY <1>2, <2>1
<1>8. QED
  BY <1>3, <1>4, <1>5, <1>6, <1>7 DEF TableStep

\* The steps of TrackerNext the keeper takes, or that leave it alone.
KeeperStep == pc \in PC /\ [Next]_vars

LEMMA KeeperStepShared == Shared /\ KeeperStep => Shared'
<1> SUFFICES ASSUME Shared, KeeperStep PROVE Shared'
  OBVIOUS
<1>1. OpenInv
  BY SharedIsOpen DEF KeeperStep
<1>2. KeeperInv' /\ CopiesOpen'
  BY <1>1, StepKeeperInv, StepOpen DEF KeeperStep, OpenInv
<1>3. NoneLater'
  <2> SUFFICES ASSUME NeverSetBack' PROVE NoneFromFuture'
    BY DEF NoneLater
  <2>1. NeverSetBack /\ ~ StepBack
    BY <1>1, NeverBefore DEF KeeperStep, OpenInv
  <2>2. TableStep /\ now' \in Nat /\ now' >= now
    BY <1>1, <2>1, StepOpen, InputKeepsUp DEF KeeperStep, OpenInv
  <2>3. NoneFromFuture
    BY <2>1 DEF Shared, NoneLater
  <2>4. QED
    BY <2>2, <2>3, StampsKeepUp DEF Shared, KeeperTypes
<1>4. QED
  BY <1>2, <1>3 DEF Shared, KeeperTypes, KeeperInv, TypeOK, PC, TrackerPC

\* Nobody but the keeper and the main loop writes to its lists.
AtRest == pc = "ready" \/ pc \in TrackerPC

LEMMA RestShared ==
  ASSUME Shared, AtRest, AtRest', sinceInput' \in Nat,
         UNCHANGED <<now, setBacks, settingVars, removed, todo, toNotify>>,
         TimesType', VersionsCoverTime', OneRunningPerTask', NoneLater',
         oldRunning' \subseteq TaskId, icon' \in BOOLEAN
  PROVE  Shared'
<1>1. todo = {} /\ toNotify = {}
  BY DEF Shared, AtRest, CopiesMatch, PC
<1>2. CopiesMatch' /\ CopiesOpen'
  BY <1>1 DEF CopiesMatch, CopiesOpen
<1>3. pc' \in PC \cup TrackerPC
  BY DEF AtRest, PC
<1>4. QED
  BY <1>1, <1>2, <1>3 DEF Shared, KeeperTypes, settingVars

\* A row that is written while the clock stands still carries its moment.
LEMMA WriteKeepsUp ==
  ASSUME Shared, TableStep, UNCHANGED <<now, setBacks>>
  PROVE  NoneLater'
<1> SUFFICES ASSUME NeverSetBack' PROVE NoneFromFuture'
  BY DEF NoneLater
<1>1. TimesType /\ NoneFromFuture /\ now \in Nat /\ now' = now
  BY DEF Shared, KeeperTypes, NoneLater, NeverSetBack
<1>2. QED
  BY <1>1, StampsKeepUp

LEMMA ReadShared ==
  ASSUME Shared, AtRest, AtRest', sinceInput' \in Nat, NoWrite,
         UNCHANGED <<now, setBacks, settingVars, removed, todo, toNotify>>
  PROVE  Shared'
<1>1. TimesType' /\ VersionsCoverTime' /\ OneRunningPerTask' /\ NoneLater'
  BY DEF NoWrite, Shared, KeeperTypes, TimesType, VersionsCoverTime, OneRunningPerTask,
     NoneFromFuture, NoneLater, NeverSetBack
<1>2. oldRunning' \subseteq TaskId /\ icon' \in BOOLEAN
  BY DEF NoWrite, viewVars, Shared, KeeperTypes
<1>3. QED
  BY <1>1, <1>2, RestShared

\* The tracker starts a task.
LEMMA StartShared ==
  ASSUME Shared, NEW t \in TaskId, Started(t), pc \in TrackerPC, AtRest'
  PROVE  /\ Shared'
         /\ \A e \in EntryId :
              \/ times'[e] = times[e]
              \/ times'[e].owner = t /\ times'[e].state = "running"
<1>1. /\ AtRest /\ sinceInput' \in Nat
      /\ UNCHANGED <<now, setBacks, settingVars, removed, todo, toNotify>>
      /\ TimesType /\ now \in Nat
  BY DEF Started, Kept, envVars, Shared, KeeperTypes, AtRest
<1>2. CASE NoWrite
  BY <1>1, <1>2, ReadShared DEF NoWrite
<1>3. CASE StartTime(t)
  <2>1. TimesType' /\ VersionsCoverTime' /\ OneRunningPerTask'
    BY <1>1, <1>3, StartKeepsTable DEF Shared
  <2>2. PICK e \in EntryId : Opened(e, t)
    BY <1>3 DEF StartTime, Create, Opened
  <2>3. TableStep
    BY <2>2 DEF TableStep
  <2>4. NoneLater'
    BY <1>1, <2>3, WriteKeepsUp
  <2>5. oldRunning' \subseteq TaskId /\ icon' \in BOOLEAN
    BY <1>3, <2>1, ViewType DEF StartTime, Shared, KeeperTypes
  <2>6. \A f \in EntryId :
          \/ times'[f] = times[f]
          \/ times'[f].owner = t /\ times'[f].state = "running"
    BY <1>1, <2>2 DEF Opened, TimesType
  <2>7. QED
    BY <1>1, <2>1, <2>4, <2>5, <2>6, RestShared
<1>4. QED
  BY <1>2, <1>3 DEF Started

\* The tracker stops a task, and it is stopped if no row is from the future.
LEMMA StopShared ==
  ASSUME Shared, NEW t \in TaskId, SwitchStop(t)
  PROVE  /\ Shared'
         /\ \A e \in EntryId :
              times'[e] = times[e] \/ times'[e].state \in {"stopped", "deleted"}
         /\ NeverSetBack => t \notin RunningTasks'
<1>1. /\ AtRest /\ AtRest' /\ sinceInput' \in Nat
      /\ UNCHANGED <<now, setBacks, settingVars, removed, todo, toNotify>>
      /\ TimesType /\ now \in Nat
  BY DEF SwitchStop, Kept, envVars, Shared, KeeperTypes, AtRest, TrackerPC
<1>2. CASE ~ IsRunning(t)
  <2>1. NoWrite
    BY <1>2 DEF SwitchStop
  <2>2. RunningTasks' = RunningTasks
    BY <2>1 DEF NoWrite, RunningTasks, ByState
  <2>3. QED
    BY <1>1, <1>2, <2>1, <2>2, ReadShared DEF NoWrite, IsRunning
<1>3. CASE IsRunning(t)
  <2>1. PICK item \in ByState("running") : item.owner = t /\ StopTime(item)
    BY <1>3 DEF SwitchStop
  <2>2. /\ item.id \in EntryId /\ times[item.id] = item /\ item.state = "running"
        /\ times' = times \/ Closed(item.id, {"stopped", "deleted"})
        /\ times[item.id].changed <= now =>
             times'[item.id].state \in {"stopped", "deleted"}
        /\ \A e \in EntryId : e # item.id => times'[e] = times[e]
    BY <1>1, <2>1, StopRunning
  <2>3. item \in TimeEntry /\ times[item.id] # NoRow
    BY <1>1, RunningCopies
  <2>4. item.start <= item.stop
    BY <2>2, <2>3 DEF Shared, VersionsCoverTime
  <2>5. TimesType' /\ VersionsCoverTime' /\ OneRunningPerTask'
    BY <1>1, <2>1, <2>2, <2>3, <2>4, StopKeepsTable DEF Shared
  <2>6. TableStep
    BY <2>2, ClosedIsTableStep DEF TableStep
  <2>7. NoneLater'
    BY <1>1, <2>6, WriteKeepsUp
  <2>8. oldRunning' \subseteq TaskId /\ icon' \in BOOLEAN
    BY <2>1, <2>5, ViewType DEF StopTime, Shared, KeeperTypes
  <2>9. \A e \in EntryId :
          times'[e] = times[e] \/ times'[e].state \in {"stopped", "deleted"}
    <3>1. CASE times' = times
      BY <3>1
    <3>2. CASE Closed(item.id, {"stopped", "deleted"})
      <4>1. times'[item.id].state \in {"stopped", "deleted"}
        BY <1>1, <2>2, <3>2, ClosedRow
      <4>2. QED
        BY <2>2, <4>1
    <3>3. QED
      BY <2>2, <3>1, <3>2
  <2>10. ASSUME NeverSetBack PROVE t \notin RunningTasks'
    <3>stops. times'[item.id].state \in {"stopped", "deleted"}
      BY <2>2, <2>3, <2>10 DEF Shared, NoneLater, NoneFromFuture
    <3>1. ASSUME NEW e \in EntryId, times'[e].state = "running", times'[e].owner = t
          PROVE  FALSE
      <4>1. e # item.id /\ times'[e] = times[e]
        BY <2>2, <3>stops, <3>1
      <4>2. QED
        BY <2>1, <2>2, <3>1, <4>1 DEF Shared, OneRunningPerTask
    <3>2. QED
      BY <3>1 DEF RunningTasks, ByState
  <2>11. QED
    BY <1>1, <2>5, <2>7, <2>8, <2>9, <2>10, RestShared
<1>4. QED
  BY <1>2, <1>3

\* The handlers of the keeper are steps of TimeKeeper.
KeeperActs ==
  \/ KeeperUserStep \/ KeeperDrain \/ KeeperTick \/ TrackerTimePasses
  \/ TrackerStepBack \/ TrackerLaunch \/ Ended

LEMMA KeeperActsStep == Shared /\ KeeperActs => KeeperStep
<1> SUFFICES ASSUME Shared, KeeperActs PROVE KeeperStep
  OBVIOUS
<1>1. CASE KeeperUserStep
  <2>1. UserStep /\ pc = "ready"
    BY <1>1 DEF KeeperUserStep, UserStep, UserInput, SaveSettings, Start, Stop, Toggle,
       RemoveTask, StopAll, UserActs
  <2>2. QED
    BY <2>1 DEF KeeperStep, PC, Next
<1>2. CASE KeeperDrain \/ KeeperTick
  <2>1. Tick /\ pc \in PC
    BY <1>2 DEF KeeperDrain, KeeperTick, KeeperPolls, Tick, HandlerStep, TickBegin,
       PollActivity, Drain, NotifyIdle, StopExpired, Extend, PC
  <2>2. QED
    BY <2>1 DEF KeeperStep, Next
<1>3. CASE TrackerTimePasses
  BY <1>3 DEF TrackerTimePasses, TimePasses, Advance, PC, KeeperStep, Next
<1>4. CASE TrackerStepBack
  BY <1>4 DEF TrackerStepBack, StepBack, PC, KeeperStep, Next
<1>5. CASE TrackerLaunch
  BY <1>5 DEF TrackerLaunch, Launch, KeeperStep, PC, Next
<1>6. CASE Ended
  BY <1>6 DEF Ended, allVars, vars, KeeperStep, PC
<1>7. QED
  BY <1>1, <1>2, <1>3, <1>4, <1>5, <1>6 DEF KeeperActs

\* The handlers of the tracker and of the dialog that only read the times.
ReadActs ==
  \/ Look \/ Switched
  \/ \E p \in Place : EnterWorkspace(p)
  \/ \E t \in TaskId, boxes \in Ticks : SetWorkspaces(t, boxes)
  \/ \E pair \in toTick : InsertBox(pair)

LEMMA ReadActsShared == Shared /\ ReadActs => Shared'
<1> SUFFICES ASSUME Shared, ReadActs PROVE Shared'
  OBVIOUS
<1>1. NoWrite /\ UNCHANGED <<now, setBacks, settingVars, removed, todo, toNotify>>
  BY DEF ReadActs, Look, Switched, EnterWorkspace, SetWorkspaces, InsertBox, UserActs, Kept,
     envVars
<1>2. AtRest /\ AtRest'
  BY DEF ReadActs, Look, LookForUser, Switched, EnterWorkspace, SetWorkspaces, InsertBox,
     UserActs, AtRest, TrackerPC
<1>3. sinceInput' \in Nat
  BY DEF ReadActs, Look, Switched, EnterWorkspace, SetWorkspaces, InsertBox, Kept, envVars,
     UserActs, Shared, KeeperTypes
<1>4. QED
  BY <1>1, <1>2, <1>3, ReadShared

LEMMA DownShared == Shared /\ TrackerDown => Shared'
<1> SUFFICES ASSUME Shared, TrackerDown PROVE Shared'
  OBVIOUS
<1>1. /\ UNCHANGED <<times, envVars, settingVars, removed>>
      /\ pc' = "off" /\ todo' = {} /\ toNotify' = {} /\ oldRunning' = {} /\ icon' = FALSE
  BY DEF TrackerDown, Down
<1>2. /\ TimesType' /\ VersionsCoverTime' /\ OneRunningPerTask' /\ NoneLater'
  BY <1>1 DEF envVars, Shared, KeeperTypes, TimesType, VersionsCoverTime,
     OneRunningPerTask, NoneFromFuture, NoneLater, NeverSetBack
<1>3. CopiesMatch' /\ CopiesOpen'
  BY <1>1 DEF CopiesMatch, CopiesOpen
<1>4. QED
  BY <1>1, <1>2, <1>3 DEF Shared, KeeperTypes, PC, TrackerPC, envVars, settingVars

\* What a step of TrackerNext is.
LEMMA Steps ==
  ASSUME Shared, [TrackerNext]_allVars
  PROVE  \/ KeeperActs \/ ReadActs \/ TrackerDown \/ UNCHANGED allVars
         \/ \E t \in toStop : SwitchStop(t)
         \/ \E t \in toStart : SwitchStart(t) \/ QuietStart(t)
  BY DEF TrackerNext, TrackerStep, KeeperActs, ReadActs

\* A start leaves the handler it belongs to.
LEMMA StartInHandler ==
  ASSUME NEW t, SwitchStart(t) \/ QuietStart(t)
  PROVE  /\ Started(t) /\ pc \in {"switch", "quiet"} /\ AtRest'
         /\ toStart' = toStart \ {t}
         /\ pc' = pc \/ (pc = "quiet" /\ pc' = "ready" /\ toStart' = {})
         /\ pc = "switch" => pc' = "switch"
  BY DEF SwitchStart, QuietStart, Started, AtRest, TrackerPC

LEMMA StepShared == TrackerInv /\ [TrackerNext]_allVars => Shared'
<1> SUFFICES ASSUME TrackerInv, [TrackerNext]_allVars PROVE Shared'
  OBVIOUS
<1> USE DEF TrackerInv
<1>1. CASE KeeperActs
  BY <1>1, KeeperActsStep, KeeperStepShared
<1>2. CASE ReadActs
  BY <1>2, ReadActsShared
<1>3. CASE TrackerDown
  BY <1>3, DownShared
<1>4. CASE UNCHANGED allVars
  BY <1>4 DEF allVars, vars, envVars, settingVars, viewVars, Shared, KeeperTypes,
     TimesType, VersionsCoverTime, OneRunningPerTask, NoneFromFuture, NoneLater,
     NeverSetBack, CopiesMatch, CopiesOpen
<1>5. ASSUME NEW t \in toStop, SwitchStop(t) PROVE Shared'
  BY <1>5, StopShared DEF Lists, TrackerTypeOK
<1>6. ASSUME NEW t \in toStart, SwitchStart(t) \/ QuietStart(t) PROVE Shared'
  <2>1. Started(t) /\ pc \in TrackerPC /\ AtRest' /\ t \in TaskId
    BY <1>6, StartInHandler DEF TrackerPC, Lists, TrackerTypeOK
  <2>2. QED
    BY <2>1, StartShared
<1>7. QED
  BY <1>1, <1>2, <1>3, <1>4, <1>5, <1>6, Steps

\* What the keeper leaves alone.
LEMMA KeeperActsLists ==
  ASSUME TrackerInv, KeeperActs, Shared'
  PROVE  /\ UNCHANGED <<place, ticked, toTick, oldWorkspace, oldActive, toStop, toStart>>
         /\ toStop = {} /\ toStart = {} /\ toTick = {}
         /\ pc \in PC /\ pc' \in PC /\ removed \subseteq removed'
         /\ wanted' \subseteq wanted
         /\ lastPoll' \in Nat /\ {polled', checked'} \subseteq BOOLEAN
<1>1. KeeperStep
  BY KeeperActsStep DEF TrackerInv
<1>2. pc' \in PC
  <2>1. OpenInv
    BY <1>1, SharedIsOpen DEF TrackerInv, KeeperStep
  <2>2. QED
    BY <1>1, <2>1, StepKeeperInv DEF KeeperStep, OpenInv, KeeperInv, TypeOK
<1>3. removed \subseteq removed'
  BY <1>1 DEF KeeperStep, Next, TimePasses, Advance, UserStep, UserInput, SaveSettings,
     Start, Stop, Toggle, StopAll, RemoveTask, Tick, TickBegin, PollActivity, HandlerStep,
     Drain, NotifyIdle, StopExpired, Extend, StepBack, Down, Launch, vars
<1>4. toStop = {} /\ toStart = {} /\ toTick = {}
  BY <1>1 DEF TrackerInv, Lists, TrackerTypeOK, KeeperStep, PC
<1>5. /\ UNCHANGED <<place, ticked, toTick, oldWorkspace, oldActive, toStop, toStart>>
      /\ wanted' \subseteq wanted
      /\ lastPoll' \in {lastPoll, now}
      /\ {polled', checked'} \subseteq {TRUE, FALSE, polled, checked}
  BY DEF KeeperActs, KeeperUserStep, KeeperDrain, KeeperTick, KeeperPolls,
     TrackerTimePasses, TrackerStepBack, TrackerLaunch, Ended, Alone, allVars, trackerVars,
     turnVars
<1>6. QED
  BY <1>1, <1>2, <1>3, <1>4, <1>5
     DEF KeeperStep, TrackerInv, Lists, TrackerTypeOK, Shared, KeeperTypes

LEMMA StepLists == TrackerInv /\ [TrackerNext]_allVars => Lists'
<1> SUFFICES ASSUME TrackerInv, [TrackerNext]_allVars PROVE Lists'
  OBVIOUS
<1>0. Shared' /\ TimesType'
  BY StepShared DEF Shared, KeeperTypes
<1>types. /\ TrackerTypeOK /\ now \in Nat /\ Active(place) \in Nat
          /\ toStart \subseteq TaskIds(Active(place))
          /\ pc = "quiet" => oldWorkspace = Active(place)
  BY ActiveIsNumber DEF TrackerInv, Lists, Shared, KeeperTypes, TrackerTypeOK
<1>seen. SeenActive \in BOOLEAN /\ \A w : TaskIds(w) \subseteq TaskId
  BY DEF SeenActive, TaskIds
<1>same. ASSUME UNCHANGED <<place, ticked, removed>>
         PROVE  Active(place)' = Active(place) /\ \A w : TaskIds(w)' = TaskIds(w)
  BY <1>same DEF Active, Box, TaskIds
<1>1. CASE KeeperActs
  <2>1. /\ UNCHANGED <<place, ticked, toTick, oldWorkspace, oldActive, toStop, toStart>>
        /\ toStop = {} /\ toStart = {} /\ toTick = {} /\ pc \in PC /\ pc' \in PC
        /\ wanted' \subseteq wanted
        /\ lastPoll' \in Nat /\ {polled', checked'} \subseteq BOOLEAN
    BY <1>0, <1>1, KeeperActsLists
  <2>2. QED
    BY <1>0, <1>types, <2>1 DEF Lists, TrackerTypeOK, PC
<1>2. CASE Look
  <2>1. CASE oldWorkspace # Active(place)
    <3>1. /\ toStop' = TaskIds(oldWorkspace) \ TaskIds(Active(place))
          /\ toStart' = TaskIds(Active(place)) /\ pc' = "switch" /\ pc = "ready"
          /\ UNCHANGED <<oldActive, lastPoll, polled, oldWorkspace, wanted, removed,
                         place, ticked, toTick, checked>>
      BY <1>2, <2>1 DEF Look, Kept
    <3>2. QED
      BY <1>0, <1>types, <1>seen, <1>same, <3>1 DEF Lists, TrackerTypeOK
  <2>2. CASE oldWorkspace = Active(place)
    <3>1. /\ LookForUser /\ pc = "ready"
          /\ UNCHANGED <<toStop, oldWorkspace, wanted, removed, place, ticked, toTick, checked>>
      BY <1>2, <2>2 DEF Look, Kept
    <3>2. QED
      BY <1>0, <1>types, <1>seen, <1>same, <2>2, <3>1 DEF Lists, TrackerTypeOK, LookForUser
  <2>3. QED
    BY <2>1, <2>2
<1>3. CASE Switched
  <2>1. /\ LookForUser /\ pc = "switch" /\ toStop = {} /\ oldWorkspace' = Active(place)
        /\ UNCHANGED <<toStop, wanted, removed, place, ticked, toTick, checked>>
    BY <1>3 DEF Switched, Kept
  <2>2. /\ toStart' \subseteq TaskIds(Active(place))' /\ toStart' \subseteq TaskId
        /\ oldActive' \in BOOLEAN /\ lastPoll' \in Nat /\ polled' \in BOOLEAN
        /\ (pc' = "ready" /\ toStart' = {}) \/ pc' = "quiet"
    BY <1>types, <1>seen, <1>same, <2>1 DEF LookForUser
  <2>3. toTick' = {} /\ toStop' = {} /\ oldWorkspace' = Active(place)'
    BY <1>types, <1>same, <2>1 DEF TrackerTypeOK
  <2>4. TrackerTypeOK'
    <3>1. (toTick' # {}) = (pc' = "tick")
      BY <2>2, <2>3
    <3>2. oldWorkspace' \in Nat \cup {Unknown} /\ pc' \in PC \cup {"switch", "quiet", "tick"}
      BY <1>types, <2>1, <2>2 DEF PC
    <3>3. {oldActive', polled', checked'} \subseteq BOOLEAN
      BY <1>types, <2>1, <2>2 DEF TrackerTypeOK
    <3>4. QED
      BY <1>0, <1>types, <2>1, <2>2, <2>3, <3>1, <3>2, <3>3 DEF TrackerTypeOK
  <2>5. QED
    BY <2>2, <2>3, <2>4 DEF Lists
<1>4. ASSUME NEW p \in Place, EnterWorkspace(p) PROVE Lists'
  <2>1. /\ pc = "ready" /\ pc' = "ready" /\ place' = p /\ polled' = FALSE
        /\ toStart = {} /\ toStop = {}
        /\ UNCHANGED <<ticked, trackerVars, toTick, checked, wanted>>
    BY <1>4, <1>types DEF EnterWorkspace, UserActs, TrackerTypeOK
  <2>2. QED
    BY <1>0, <1>types, <2>1 DEF Lists, TrackerTypeOK, trackerVars
<1>5. ASSUME NEW t \in TaskId, NEW boxes \in Ticks, SetWorkspaces(t, boxes) PROVE Lists'
  <2>1. /\ pc = "ready" /\ ticked' \subseteq ticked /\ toTick' = {t} \X boxes
        /\ pc' = (IF boxes = {} THEN "ready" ELSE "tick") /\ polled' = FALSE
        /\ toStart = {} /\ toStop = {} /\ wanted' \subseteq wanted
        /\ UNCHANGED <<place, trackerVars, checked>>
    BY <1>5, <1>types DEF SetWorkspaces, UserActs, TrackerTypeOK
  <2>2. boxes \subseteq Boxes
    BY TrackerAssumption DEF Boxes
  <2>3. toTick' \subseteq TaskId \X Boxes /\ (toTick' # {}) = (pc' = "tick")
    <3>1. CASE boxes = {}
      BY <2>1, <3>1
    <3>2. CASE boxes # {}
      <4>1. PICK b \in boxes : TRUE
        BY <3>2
      <4>2. <<t, b>> \in toTick'
        BY <2>1
      <4>3. QED
        BY <2>1, <2>2, <3>2, <4>2
    <3>3. QED
      BY <3>1, <3>2
  <2>4. QED
    BY <1>0, <1>types, <2>1, <2>3 DEF Lists, TrackerTypeOK, trackerVars
<1>6. ASSUME NEW pair \in toTick, InsertBox(pair) PROVE Lists'
  <2>1. /\ pc = "tick" /\ ticked' = ticked \cup {pair} /\ toTick' = toTick \ {pair}
        /\ pc' = (IF toTick' = {} THEN "ready" ELSE "tick")
        /\ toStart = {} /\ toStop = {}
        /\ UNCHANGED <<place, trackerVars, turnVars, wanted>>
    BY <1>6, <1>types DEF InsertBox, TrackerTypeOK
  <2>2. /\ toTick' \subseteq TaskId \X Boxes /\ ticked' \subseteq TaskId \X Boxes
        /\ (toTick' # {}) = (pc' = "tick")
    BY <1>types, <2>1 DEF TrackerTypeOK
  <2>3. pc' \in PC \cup {"switch", "quiet", "tick"} /\ pc' # "quiet"
    BY <2>1 DEF PC
  <2>4. TrackerTypeOK'
    BY <1>0, <1>types, <2>1, <2>2, <2>3 DEF TrackerTypeOK, trackerVars, turnVars
  <2>5. QED
    BY <2>1, <2>3, <2>4 DEF Lists, trackerVars
<1>7. CASE TrackerDown
  BY <1>0, <1>7, <1>types
     DEF TrackerDown, Down, Lists, TrackerTypeOK, PC, turnVars
<1>8. CASE UNCHANGED allVars
  BY <1>0, <1>8, <1>types, <1>same
     DEF allVars, vars, trackerVars, turnVars, Lists, TrackerTypeOK
<1>9. ASSUME NEW t \in toStop, SwitchStop(t) PROVE Lists'
  <2>1. /\ pc = "switch" /\ toStop' = toStop \ {t} /\ wanted' \subseteq wanted
        /\ UNCHANGED <<pc, oldWorkspace, oldActive, lastPoll, toStart, polled, removed,
                       place, ticked, toTick, checked>>
    BY <1>9 DEF SwitchStop, Kept
  <2>2. QED
    BY <1>0, <1>types, <1>same, <2>1 DEF Lists, TrackerTypeOK
<1>10. ASSUME NEW t \in toStart, SwitchStart(t) \/ QuietStart(t) PROVE Lists'
  <2>1. /\ toStart' = toStart \ {t} /\ wanted' \subseteq wanted \cup {t} /\ t \in TaskId
        /\ UNCHANGED <<oldWorkspace, oldActive, lastPoll, toStop, polled, removed,
                       place, ticked, toTick, checked>>
        /\ pc \in {"switch", "quiet"}
        /\ pc' = pc \/ (pc = "quiet" /\ pc' = "ready" /\ toStart' = {})
    BY <1>10, <1>types, StartInHandler DEF Started, Kept, TrackerTypeOK
  <2>2. toTick' = {} /\ toStart' \subseteq toStart /\ pc' # "tick"
    BY <1>types, <2>1 DEF TrackerTypeOK
  <2>3. TrackerTypeOK'
    <3>1. CASE pc' = pc
      BY <1>0, <1>types, <2>1, <2>2, <3>1 DEF TrackerTypeOK
    <3>2. CASE pc = "quiet" /\ pc' = "ready" /\ toStart' = {}
      BY <1>0, <1>types, <2>1, <2>2, <3>2 DEF TrackerTypeOK, PC
    <3>3. QED
      BY <2>1, <3>1, <3>2
  <2>4. Active(place)' = Active(place) /\ TaskIds(Active(place))' = TaskIds(Active(place))
    BY <2>1 DEF Active, Box, TaskIds
  <2>5. QED
    BY <1>types, <2>1, <2>2, <2>3, <2>4 DEF Lists
<1>11. QED
  BY <1>1, <1>2, <1>3, <1>4, <1>5, <1>6, <1>7, <1>8, <1>9, <1>10, Steps
     DEF ReadActs, TrackerInv

\* The first half of Followed.
LooksAfter ==
  \A t \in wanted \ removed :
    IF pc = "switch" THEN t \in toStop \/ <<t, Active(place)>> \in ticked
                     ELSE <<t, oldWorkspace>> \in ticked

LEMMA StepLooksAfter ==
  ASSUME TrackerInv, LooksAfter, NeverSetBack, [TrackerNext]_allVars PROVE LooksAfter'
<1>0. Shared /\ Shared'
  BY StepShared DEF TrackerInv
<1>types. /\ ticked \subseteq TaskId \X Boxes /\ wanted \subseteq TaskId
          /\ toStop \subseteq TaskId
          /\ toStart \subseteq TaskIds(Active(place))
          /\ pc = "quiet" => oldWorkspace = Active(place)
  BY DEF TrackerInv, Lists, TrackerTypeOK
<1>same. ASSUME UNCHANGED place PROVE Active(place)' = Active(place)
  BY <1>same DEF Active, Box
<1>1. CASE KeeperActs
  <2>1. /\ UNCHANGED <<place, ticked, oldWorkspace>>
        /\ pc \in PC /\ pc' \in PC /\ removed \subseteq removed' /\ wanted' \subseteq wanted
    BY <1>0, <1>1, KeeperActsLists
  <2>2. QED
    BY <2>1 DEF LooksAfter, PC
<1>2. CASE Look
  <2>1. /\ pc = "ready"
        /\ UNCHANGED <<oldWorkspace, wanted, removed, place, ticked>>
    BY <1>2 DEF Look, Kept
  <2>2. CASE pc' = "switch"
    <3>1. toStop' = TaskIds(oldWorkspace) \ TaskIds(Active(place))
      BY <1>2, <2>2 DEF Look, LookForUser
    <3>2. ASSUME NEW t \in wanted' \ removed'
          PROVE  t \in toStop' \/ <<t, Active(place)'>> \in ticked'
      <4>1. t \in TaskIds(oldWorkspace)
        BY <1>types, <2>1, <3>2 DEF LooksAfter, TaskIds
      <4>2. QED
        BY <1>same, <2>1, <3>1, <4>1 DEF TaskIds
    <3>3. QED
      BY <2>2, <3>2 DEF LooksAfter
  <2>3. CASE pc' # "switch"
    BY <2>1, <2>3 DEF LooksAfter
  <2>4. QED
    BY <2>2, <2>3
<1>3. CASE Switched
  <2>1. /\ pc = "switch" /\ pc' # "switch" /\ toStop = {} /\ oldWorkspace' = Active(place)
        /\ UNCHANGED <<wanted, removed, ticked>>
    BY <1>3 DEF Switched, Kept, LookForUser
  <2>2. QED
    BY <2>1 DEF LooksAfter
<1>4. ASSUME NEW p \in Place, EnterWorkspace(p) PROVE LooksAfter'
  BY <1>4 DEF EnterWorkspace, UserActs, trackerVars, LooksAfter
<1>5. ASSUME NEW t \in TaskId, NEW boxes \in Ticks, SetWorkspaces(t, boxes) PROVE LooksAfter'
  <2>1. /\ pc = "ready" /\ pc' # "switch" /\ wanted' = wanted \ {t}
        /\ ticked' = {pair \in ticked : pair[1] # t}
        /\ UNCHANGED <<oldWorkspace, removed>>
    BY <1>5 DEF SetWorkspaces, UserActs, trackerVars
  <2>2. \A u \in wanted' \ removed' : <<u, oldWorkspace>> \in ticked'
    BY <2>1 DEF LooksAfter
  <2>3. QED
    BY <2>1, <2>2 DEF LooksAfter
<1>6. ASSUME NEW pair \in toTick, InsertBox(pair) PROVE LooksAfter'
  <2>1. /\ pc = "tick" /\ pc' # "switch" /\ ticked \subseteq ticked'
        /\ UNCHANGED <<oldWorkspace, removed, wanted>>
    BY <1>6 DEF InsertBox, trackerVars
  <2>2. QED
    BY <2>1 DEF LooksAfter
<1>7. CASE TrackerDown
  BY <1>7 DEF TrackerDown, LooksAfter
<1>8. CASE UNCHANGED allVars
  BY <1>8, <1>same DEF allVars, vars, trackerVars, LooksAfter
<1>9. ASSUME NEW t \in toStop, SwitchStop(t) PROVE LooksAfter'
  <2>1. /\ pc = "switch" /\ pc' = "switch" /\ toStop' = toStop \ {t}
        /\ UNCHANGED <<removed, place, ticked>>
        /\ wanted' = (IF t \in RunningTasks' THEN wanted ELSE wanted \ {t})
    BY <1>9 DEF SwitchStop, Kept
  <2>2. t \notin RunningTasks'
    BY <1>0, <1>9, <1>types, StopShared
  <2>3. QED
    BY <1>same, <2>1, <2>2 DEF LooksAfter
<1>10. ASSUME NEW t \in toStart, SwitchStart(t) \/ QuietStart(t) PROVE LooksAfter'
  <2>1. /\ wanted' \subseteq wanted \cup {t}
        /\ UNCHANGED <<oldWorkspace, toStop, removed, place, ticked>>
        /\ pc \in {"switch", "quiet"} /\ (pc = "switch") = (pc' = "switch")
    BY <1>10, StartInHandler DEF Started, Kept
  <2>2. <<t, Active(place)>> \in ticked
    BY <1>types DEF TaskIds
  <2>3. QED
    BY <1>same, <1>types, <2>1, <2>2 DEF LooksAfter
<1>11. QED
  BY <1>1, <1>2, <1>3, <1>4, <1>5, <1>6, <1>7, <1>8, <1>9, <1>10, <1>0, Steps DEF ReadActs

(***************************************************************************)
(* For any part of the tasks whose running rows are to be stopped when     *)
(* they are removed: a step that does not end the process inside the       *)
(* handler keeps this, because the tracker starts no removed task.         *)
(***************************************************************************)
LEMMA StepStoppingHere ==
  ASSUME NEW tasks, TrackerInv, Stopping(removed \cap tasks), [TrackerNext]_allVars,
         NeverSetBack, NeverSetBack', TrackerDown => pc # "drain"
  PROVE  \A e \in EntryId :
           times'[e].state = "running" /\ times'[e].owner \in removed' \cap tasks =>
             pc' = "drain" /\ times'[e] \in todo'
<1> DEFINE Rest == \A e \in EntryId :
              times'[e].state = "running" /\ times'[e].owner \in removed' \cap tasks =>
                pc' = "drain" /\ times'[e] \in todo'
<1> SUFFICES Rest
  OBVIOUS
<1>1. Shared
  BY DEF TrackerInv
<1>2. CASE KeeperActs
  <2>1. KeeperStep /\ OpenInv
    BY <1>1, <1>2, KeeperActsStep, SharedIsOpen DEF KeeperStep
  <2>2. ~ Down
    BY <1>2
       DEF KeeperActs, KeeperUserStep, UserStep, UserInput, SaveSettings, Start, Stop,
       Toggle, RemoveTask, StopAll, BeginDrain, UserActs, KeeperDrain, Drain, KeeperTick,
       KeeperPolls, PollActivity, TickBegin, NotifyIdle, StopExpired, Extend,
       TrackerTimePasses, TimePasses, Advance, TrackerStepBack, StepBack, TrackerLaunch,
       Launch, Ended, allVars, vars, Down
  <2>3. ~ StepBack /\ NoneFromFuture
    BY <1>1, <2>1, NeverBefore DEF KeeperStep, OpenInv, Shared, NoneLater
  <2>4. QED
    BY <2>1, <2>2, <2>3, StepStopping DEF KeeperStep
\* The other steps start no removed task, and none of them stops a list.
<1>quiet. ASSUME pc # "drain", removed' = removed,
                 \A e \in EntryId : times'[e].state = "running" =>
                   times'[e] = times[e] \/ times'[e].owner \notin removed
          PROVE  Rest
  BY <1>quiet DEF Stopping
<1>3. CASE ReadActs \/ TrackerDown
  <2>1. pc # "drain" /\ removed' = removed /\ times' = times
    BY <1>3 DEF ReadActs, Look, Switched, EnterWorkspace, SetWorkspaces, InsertBox, Kept,
       NoWrite, UserActs, TrackerDown, Down
  <2>2. QED
    BY <1>quiet, <2>1
<1>4. CASE UNCHANGED allVars
  BY <1>4 DEF allVars, vars, Stopping
<1>5. ASSUME NEW t \in toStop, SwitchStop(t) PROVE Rest
  <2>1. /\ pc # "drain" /\ removed' = removed /\ t \in TaskId
    BY <1>5 DEF SwitchStop, Kept, TrackerInv, Lists, TrackerTypeOK
  <2>2. QED
    BY <1>1, <1>5, <1>quiet, <2>1, StopShared
<1>6. ASSUME NEW t \in toStart, SwitchStart(t) \/ QuietStart(t) PROVE Rest
  <2>1. /\ Started(t) /\ pc \in TrackerPC /\ AtRest' /\ removed' = removed
        /\ t \in TaskId \ removed /\ pc # "drain"
    BY <1>6, StartInHandler DEF Started, Kept, TrackerPC, TrackerInv, Lists, TaskIds
  <2>2. QED
    BY <1>1, <1>quiet, <2>1, StartShared
<1>7. QED
  BY <1>1, <1>2, <1>3, <1>4, <1>5, <1>6, Steps

\* The clock of the tracker is the one of the keeper.
LEMMA TrackerNeverBefore ==
  ASSUME TrackerInv, [TrackerNext]_allVars, NeverSetBack' PROVE NeverSetBack
<1>1. CASE KeeperActs
  BY <1>1, KeeperActsStep, SharedIsOpen, NeverBefore DEF TrackerInv, KeeperStep, OpenInv
<1>2. CASE ~ KeeperActs
  <2>1. UNCHANGED setBacks
    BY <1>2, Steps
       DEF TrackerInv, ReadActs, Look, Switched, EnterWorkspace, SetWorkspaces, InsertBox,
       UserActs, TrackerDown, Down, SwitchStop, SwitchStart, QuietStart, Started, Kept,
       envVars, allVars, vars
  <2>2. QED
    BY <2>1 DEF NeverSetBack
<1>3. QED
  BY <1>1, <1>2

LEMMA StepFollowed ==
  ASSUME TrackerInv, [TrackerNext]_allVars, NeverSetBack' PROVE Followed'
<1>0. NeverSetBack /\ Followed
  BY TrackerNeverBefore DEF TrackerInv
<1>1. LooksAfter'
  BY <1>0, StepLooksAfter DEF Followed, LooksAfter
<1>2. Stopping(removed \cap wanted)'
  <2>1. CASE TrackerDown
    BY <2>1 DEF TrackerDown, Stopping
  <2>2. CASE ~ TrackerDown
    <3>1. \A e \in EntryId :
            times'[e].state = "running" /\ times'[e].owner \in removed' \cap wanted =>
              pc' = "drain" /\ times'[e] \in todo'
      BY <1>0, <2>2, StepStoppingHere DEF Followed
    <3>2. removed' \cap wanted' \subseteq removed' \cap wanted
      <4>1. CASE KeeperActs
        BY <4>1, StepShared, KeeperActsLists
      <4>2. CASE ~ KeeperActs
        <5>1. ASSUME NEW t \in toStart, SwitchStart(t) \/ QuietStart(t)
              PROVE  wanted' \subseteq wanted \cup {t} /\ removed' = removed /\ t \notin removed
          <6>1. Started(t) /\ t \in TaskIds(Active(place))
            BY <5>1, StartInHandler DEF TrackerInv, Lists
          <6>2. QED
            BY <6>1 DEF Started, Kept, TaskIds
        <5>2. ASSUME ReadActs \/ UNCHANGED allVars \/ \E t \in toStop : SwitchStop(t)
              PROVE  wanted' \subseteq wanted
          BY <5>2 DEF ReadActs, Look, Switched, EnterWorkspace, SetWorkspaces, InsertBox,
             SwitchStop, allVars
        <5>3. QED
          BY <2>2, <4>2, <5>1, <5>2, Steps DEF TrackerInv
      <4>3. QED
        BY <4>1, <4>2
    <3>3. QED
      BY <3>1, <3>2 DEF Stopping
  <2>3. QED
    BY <2>1, <2>2
<1>3. QED
  BY <1>1, <1>2 DEF Followed, LooksAfter

THEOREM TrackerInvariant == TrackerSpec => []TrackerInv
<1>1. TrackerInv /\ [TrackerNext]_allVars => TrackerInv'
  BY StepShared, StepLists, StepFollowed DEF TrackerInv
<1>2. QED
  BY <1>1, InitTracker, PTL DEF TrackerSpec

-----------------------------------------------------------------------------
(* Theorems *)

(***************************************************************************)
(* The handlers of the tracker, of the dialog and of the keeper never run  *)
(* into each other, and their lists hold tasks and boxes that exist.       *)
(***************************************************************************)
THEOREM TrackerTypeCorrect == TrackerSpec => []TrackerTypeOK
<1>1. TrackerInv => TrackerTypeOK
  BY DEF TrackerInv, Lists
<1>2. QED
  BY <1>1, TrackerInvariant, PTL

(***************************************************************************)
(* A task has at most one running entry also when the tracker starts and   *)
(* stops it between the handlers of the user and of the keeper.            *)
(***************************************************************************)
THEOREM OneTimerPerTrackedTask == TrackerSpec => []OneRunningPerTask
<1>1. TrackerInv => OneRunningPerTask
  BY DEF TrackerInv, Shared
<1>2. QED
  BY <1>1, TrackerInvariant, PTL

(***************************************************************************)
(* "When enabled your task will ... stop when exiting"                     *)
(* (edit_task_dialog.cpp:111): without viewports, whose number is the one  *)
(* of another box, and unless the clock was set back, no task the tracker  *)
(* started since the launch runs where it is not ticked.  Of a task that   *)
(* was left running by a quit or a crash nothing is said.                  *)
(***************************************************************************)
THEOREM TasksStopWhenExiting == ~ Viewports /\ TrackerSpec => []StopsWhenExiting
<1> SUFFICES ASSUME ~ Viewports PROVE TrackerSpec => []StopsWhenExiting
  OBVIOUS
<1>1. ASSUME TrackerInv PROVE StopsWhenExiting
  <2>1. SUFFICES ASSUME pc = "ready", oldWorkspace = Active(place),
                        NeverSetBack, NEW t \in wanted \cap RunningTasks
                 PROVE  <<t, Box(place)>> \in ticked
    BY DEF StopsWhenExiting
  <2>2. t \notin removed
    BY <1>1, <2>1 DEF TrackerInv, Followed, Stopping, RunningTasks, ByState
  <2>3. <<t, oldWorkspace>> \in ticked
    BY <1>1, <2>1, <2>2 DEF TrackerInv, Followed
  <2>4. QED
    BY <2>1, <2>3 DEF Active
<1>2. QED
  BY <1>1, TrackerInvariant, PTL

(***************************************************************************)
(* Between two handlers no timer of a removed task runs, with the tracker  *)
(* on the same table: auto_track_accessor::task_ids leaves out what is     *)
(* removed.  As RemovedTaskStops says, unless the clock was set back.      *)
(***************************************************************************)
THEOREM TrackedTasksStop == ~ MayCrash /\ TrackerSpec => []RemovedTaskStops
<1> SUFFICES ASSUME ~ MayCrash PROVE TrackerSpec => []RemovedTaskStops
  OBVIOUS
<1> DEFINE Inv == NeverSetBack => Stopping(removed)
<1>1. TrackerInit => Inv
  BY DEF TrackerInit, Init, Stopping
<1>2. TrackerInv /\ Inv /\ [TrackerNext]_allVars => Inv'
  <2>1. ASSUME TrackerInv, Stopping(removed), [TrackerNext]_allVars, NeverSetBack, NeverSetBack'
        PROVE  Stopping(removed)'
    <3>1. /\ removed = removed \cap TaskId /\ removed' = removed' \cap TaskId
          /\ TrackerDown => pc # "drain"
      BY <2>1, StepShared DEF TrackerInv, Shared, KeeperTypes, TrackerDown, Down
    <3>2. \A e \in EntryId :
            times'[e].state = "running" /\ times'[e].owner \in removed' \cap TaskId =>
              pc' = "drain" /\ times'[e] \in todo'
      BY <2>1, <3>1, StepStoppingHere
    <3>3. QED
      BY <3>1, <3>2 DEF Stopping
  <2>2. QED
    BY <2>1, TrackerNeverBefore
<1>3. Inv => RemovedTaskStops
  BY DEF Stopping, RemovedTaskStops, RunningTasks, ByState
<1>4. QED
  BY <1>1, <1>2, <1>3, TrackerInvariant, PTL DEF TrackerSpec

(***************************************************************************)
(* The ten second handler leaves no entry paused, with the tracker         *)
(* stopping and starting tasks before and after it.                        *)
(***************************************************************************)
THEOREM NothingTrackedStaysPaused == ~ MayCrash /\ TrackerSpec => []NoPausedAtRest
<1> SUFFICES ASSUME ~ MayCrash PROVE TrackerSpec => []NoPausedAtRest
  OBVIOUS
<1>1. TrackerInit => PausedInv
  BY DEF TrackerInit, Init, PausedInv, NoRow
<1>2. TrackerInv /\ PausedInv /\ [TrackerNext]_allVars => PausedInv'
  <2> SUFFICES ASSUME TrackerInv, PausedInv, [TrackerNext]_allVars PROVE PausedInv'
    OBVIOUS
  <2>1. Shared
    BY DEF TrackerInv
  <2>2. CASE KeeperActs
    <3>1. KeeperStep /\ OpenInv
      BY <2>1, <2>2, KeeperActsStep, SharedIsOpen DEF KeeperStep
    <3>2. QED
      BY <3>1, StepPausedInv DEF KeeperStep
\* No other step pauses an entry, or is taken while one is paused.
  <2>rest. ASSUME pc # "check",
                  \A e \in EntryId : times'[e].state = "paused" => times[e].state = "paused"
           PROVE  PausedInv'
    BY <2>rest DEF PausedInv
  <2>3. CASE ReadActs \/ TrackerDown
    <3>1. pc # "check" /\ times' = times
      BY <2>3 DEF ReadActs, Look, Switched, EnterWorkspace, SetWorkspaces, InsertBox,
         NoWrite, UserActs, TrackerDown, Down
    <3>2. QED
      BY <2>rest, <3>1
  <2>4. CASE UNCHANGED allVars
    BY <2>4 DEF allVars, vars, envVars, PausedInv
  <2>5. ASSUME NEW t \in toStop, SwitchStop(t) PROVE PausedInv'
    <3>1. pc # "check" /\ t \in TaskId
      BY <2>5 DEF SwitchStop, TrackerInv, Lists, TrackerTypeOK
    <3>2. QED
      BY <2>1, <2>5, <2>rest, <3>1, StopShared
  <2>6. ASSUME NEW t \in toStart, SwitchStart(t) \/ QuietStart(t) PROVE PausedInv'
    <3>1. /\ Started(t) /\ pc \in TrackerPC /\ AtRest' /\ t \in TaskId /\ pc # "check"
      BY <2>6, StartInHandler DEF TrackerPC, TrackerInv, Lists, TrackerTypeOK
    <3>2. QED
      BY <2>1, <2>rest, <3>1, StartShared
  <2>7. QED
    BY <2>1, <2>2, <2>3, <2>4, <2>5, <2>6, Steps
<1>3. PausedInv => NoPausedAtRest
  BY DEF PausedInv, NoPausedAtRest, ByState
<1>4. QED
  BY <1>1, <1>2, <1>3, TrackerInvariant, PTL DEF TrackerSpec
=============================================================================
