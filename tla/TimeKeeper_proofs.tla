------------------------- MODULE TimeKeeper_proofs -------------------------
(***************************************************************************)
(* Theorems about TimeKeeper, for any tasks, entries, settings, bounds and *)
(* steps of the clock, with crashes and a clock that is set back: first    *)
(* what holds in every state, then that it implements Timesheet, and what  *)
(* holds between two of its handlers.                                      *)
(***************************************************************************)
EXTENDS TimeKeeper, TLAPS

-----------------------------------------------------------------------------
(* The inductive invariant *)

\* A row starts before it stops, and was last changed no earlier than it
\* stops: what makes the version test refuse a stop before the start.
VersionsCoverTime ==
  \A e \in EntryId :
    times[e] # NoRow =>
      times[e].start <= times[e].stop /\ times[e].stop <= times[e].changed

\* What a handler may still rely on about the copies it has read.
CopiesMatch ==
  /\ pc \in {"off", "ready"} => todo = {}
  /\ pc # "check" => toNotify = {}
  /\ \A c \in todo \cup toNotify :
       /\ c.state = "running"
       /\ times[c.id] # NoRow
       /\ c.start = times[c.id].start /\ c.stop = times[c.id].stop
  /\ pc = "extend" => \A c \in todo : times[c.id] = c

KeeperInv == TypeOK /\ VersionsCoverTime /\ CopiesMatch /\ OneRunningPerTask

-----------------------------------------------------------------------------
(* The operators of the store *)

LEMMA NoRowIsNoEntry == NoRow \notin TimeEntry
  BY DEF NoRow, TimeEntry, EntryState

\* The rows a query returns are the rows of the table.
LEMMA ByStateRows ==
  ASSUME TimesType, NEW s \in EntryState
  PROVE  \A c \in ByState(s) :
           c \in TimeEntry /\ c = times[c.id] /\ times[c.id] # NoRow /\ c.state = s
<1> SUFFICES ASSUME NEW c \in ByState(s)
             PROVE  c \in TimeEntry /\ c = times[c.id] /\ times[c.id] # NoRow /\ c.state = s
  OBVIOUS
<1>1. PICK e \in EntryId : times[e].state = s /\ c = times[e]
  BY DEF ByState
<1>2. times[e] # NoRow
  BY <1>1 DEF NoRow, EntryState
<1>3. QED
  BY <1>1, <1>2 DEF TimesType

\* update() leaves every other row alone, and its own row too or replaces
\* it by the item, which is then no older and keeps the owner of the row.
LEMMA UpdateEffect ==
  ASSUME TimesType, NEW item \in TimeEntry, Update(item)
  PROVE  /\ TimesType'
         /\ \A e \in EntryId : e # item.id => times'[e] = times[e]
         /\ \/ times' = times
            \/ /\ times[item.id] # NoRow
               /\ item.changed >= times[item.id].changed
               /\ times'[item.id] = [item EXCEPT !.owner = times[item.id].owner]
<1>1. CASE Accepts(item)
  <2>1. item.id \in EntryId
    BY DEF TimeEntry
  <2>2. times[item.id] \in TimeEntry
    BY <1>1, <2>1 DEF TimesType, Accepts
  <2> DEFINE new == [item EXCEPT !.owner = times[item.id].owner]
  <2>3. new \in TimeEntry /\ new.id = item.id
    BY <2>2 DEF TimeEntry
  <2>4. times' = [times EXCEPT ![item.id] = new]
    BY <1>1 DEF Update
  <2>5. QED
    BY <1>1, <2>1, <2>3, <2>4 DEF TimesType, Accepts
<1>2. CASE ~ Accepts(item)
  BY <1>2 DEF Update, TimesType
<1>3. QED
  BY <1>1, <1>2

\* The same, field by field.
LEMMA UpdateFields ==
  ASSUME TimesType, NEW item \in TimeEntry, Update(item), NEW e \in EntryId
  PROVE  \/ times'[e] = times[e]
         \/ /\ e = item.id
            /\ times'[e].start = item.start /\ times'[e].stop = item.stop
            /\ times'[e].changed = item.changed /\ times'[e].state = item.state
<1>1. CASE e # item.id \/ times' = times
  BY <1>1, UpdateEffect
<1>2. CASE e = item.id /\ times'[e] = [item EXCEPT !.owner = times[e].owner]
  BY <1>2 DEF TimeEntry
<1>3. QED
  BY <1>1, <1>2, UpdateEffect

\* A changed copy of a row is still a row, with the same id and owner.
LEMMA WithType ==
  ASSUME NEW item \in TimeEntry, NEW s \in EntryState, NEW at \in Nat
  PROVE  /\ With(item, s, at) \in TimeEntry
         /\ With(item, s, at).id = item.id
         /\ With(item, s, at).owner = item.owner
         /\ With(item, s, at).start = item.start
         /\ With(item, s, at).stop = item.stop
         /\ With(item, s, at).state = s
         /\ With(item, s, at).changed \in {item.changed, at}
  BY DEF With, TimeEntry

LEMMA WithStopType ==
  ASSUME NEW item \in TimeEntry, NEW t \in Nat, NEW at \in Nat
  PROVE  /\ WithStop(item, t, at) \in TimeEntry
         /\ WithStop(item, t, at).id = item.id
         /\ WithStop(item, t, at).owner = item.owner
         /\ WithStop(item, t, at).start = item.start
         /\ WithStop(item, t, at).state = item.state
         /\ WithStop(item, t, at).stop = t
         /\ WithStop(item, t, at) = item \/ WithStop(item, t, at).changed = at
  BY DEF WithStop, TimeEntry

-----------------------------------------------------------------------------
(* Steps *)

(***************************************************************************)
(* Writing a well-formed copy keeps the invariants of the table, unless it *)
(* makes an entry running that was not.                                    *)
(***************************************************************************)
LEMMA WriteKeepsTable ==
  ASSUME TimesType, VersionsCoverTime, OneRunningPerTask,
         NEW item \in TimeEntry, Update(item),
         item.start <= item.stop, item.stop <= item.changed,
         item.state = "running" => times[item.id].state = "running"
  PROVE  TimesType' /\ VersionsCoverTime' /\ OneRunningPerTask'
<1>1. TimesType'
  BY UpdateEffect
<1>2. CASE times' = times
  BY <1>1, <1>2 DEF VersionsCoverTime, OneRunningPerTask
<1>3. CASE /\ times[item.id] # NoRow
           /\ times'[item.id] = [item EXCEPT !.owner = times[item.id].owner]
           /\ \A e \in EntryId : e # item.id => times'[e] = times[e]
  <2>1. item.id \in EntryId /\ times[item.id] \in TimeEntry
    BY <1>3 DEF TimesType, TimeEntry
  <2>2. /\ times'[item.id].start = item.start
        /\ times'[item.id].stop = item.stop
        /\ times'[item.id].changed = item.changed
        /\ times'[item.id].state = item.state
        /\ times'[item.id].owner = times[item.id].owner
    BY <1>3, <2>1 DEF TimeEntry
  <2>3. VersionsCoverTime'
    BY <1>3, <2>2 DEF VersionsCoverTime
  <2>4. OneRunningPerTask'
    <3>1. ASSUME NEW e \in EntryId, times'[e].state = "running"
          PROVE  times[e].state = "running" /\ times'[e].owner = times[e].owner
      <4>1. CASE e = item.id
        BY <2>2, <3>1, <4>1
      <4>2. CASE e # item.id
        BY <1>3, <3>1, <4>2
      <4>3. QED
        BY <4>1, <4>2
    <3>2. QED
      BY <3>1 DEF OneRunningPerTask
  <2>5. QED
    BY <1>1, <2>3, <2>4
<1>4. QED
  BY <1>2, <1>3, UpdateEffect

LEMMA StopKeepsTable ==
  ASSUME TimesType, now \in Nat, VersionsCoverTime, OneRunningPerTask,
         NEW item \in TimeEntry, StopTime(item), item.state = "running",
         item.start <= item.stop, times[item.id] # NoRow,
         item.stop = times[item.id].stop
  PROVE  TimesType' /\ VersionsCoverTime' /\ OneRunningPerTask'
<1> DEFINE s == IF item.stop - item.start < gz THEN "deleted" ELSE "stopped"
           new == With(item, s, now)
<1>1. s \in EntryState /\ s # "running" /\ now \in Nat /\ TimesType
  BY DEF EntryState
<1>2. Update(new)
  BY DEF StopTime
<1> HIDE DEF s
<1>3. /\ new \in TimeEntry /\ new.id = item.id /\ new.start = item.start
      /\ new.stop = item.stop /\ new.state = s
  BY <1>1, WithType
<1>4. new.changed = now
  BY <1>1 DEF With, TimeEntry
<1> HIDE DEF new
<1>5. CASE times' = times
  BY <1>1, <1>5 DEF VersionsCoverTime, OneRunningPerTask, TimesType
<1>6. CASE new.changed >= times[new.id].changed
  <2>1. item.id \in EntryId /\ times[item.id] \in TimeEntry
    BY <1>1 DEF TimesType, TimeEntry
  <2>2. times[item.id].stop <= times[item.id].changed
    BY <2>1 DEF VersionsCoverTime
  <2>3. new.stop <= new.changed
    BY <1>3, <1>4, <1>1, <1>6, <2>1, <2>2 DEF TimeEntry
  <2>4. new.start <= new.stop /\ new.state # "running"
    BY <1>1, <1>3
  <2>5. QED
    BY <1>1, <1>2, <1>3, <2>3, <2>4, WriteKeepsTable
<1>7. QED
  BY <1>1, <1>2, <1>3, <1>5, <1>6, UpdateEffect

\* A new row starts and stops now, and its task had none that runs.
LEMMA StartKeepsTable ==
  ASSUME TimesType, now \in Nat, VersionsCoverTime, OneRunningPerTask,
         NEW t \in TaskId, StartTime(t)
  PROVE  TimesType' /\ VersionsCoverTime' /\ OneRunningPerTask'
<1>1. PICK e \in EntryId :
        Create([id |-> e, owner |-> t, start |-> now, stop |-> now,
                changed |-> now, state |-> "running"])
  BY DEF StartTime
<1> DEFINE new == [id |-> e, owner |-> t, start |-> now, stop |-> now,
                   changed |-> now, state |-> "running"]
<1>2. new \in TimeEntry
  BY DEF TimeEntry, EntryState
<1>3. times' = [times EXCEPT ![e] = new]
  BY <1>1 DEF Create
<1>4. TimesType'
  BY <1>2, <1>3 DEF TimesType
<1>5. VersionsCoverTime'
  BY <1>3 DEF VersionsCoverTime, TimesType
<1>6. \A f \in EntryId : times[f].state = "running" => times[f].owner # t
  BY DEF StartTime, IsRunning, RunningTasks, ByState
<1>7. OneRunningPerTask'
  BY <1>3, <1>6 DEF OneRunningPerTask, TimesType
<1>8. QED
  BY <1>4, <1>5, <1>7

\* A copy that names another row does not feel the write.
LEMMA OtherCopiesMatch ==
  ASSUME TimesType, CopiesMatch,
         NEW item \in TimeEntry, Update(item),
         NEW c \in todo \cup toNotify, c \in TimeEntry,
         c.id # item.id \/ (item.start = c.start /\ item.stop = c.stop)
  PROVE  /\ c.state = "running"
         /\ times'[c.id] # NoRow
         /\ c.start = times'[c.id].start /\ c.stop = times'[c.id].stop
<1>1. c.id \in EntryId /\ item.id \in EntryId
  BY DEF TimeEntry
<1>2. /\ c.state = "running" /\ times[c.id] # NoRow
      /\ c.start = times[c.id].start /\ c.stop = times[c.id].stop
  BY DEF CopiesMatch
<1>3. CASE times'[c.id] = times[c.id]
  BY <1>2, <1>3
<1>4. CASE c.id = item.id /\ times'[item.id] = [item EXCEPT !.owner = times[item.id].owner]
  <2>1. times'[c.id] # NoRow
    BY <1>1, <1>4, NoRowIsNoEntry DEF TimeEntry, NoRow
  <2>2. times'[c.id].start = item.start /\ times'[c.id].stop = item.stop
    BY <1>4 DEF TimeEntry
  <2>3. QED
    BY <1>2, <1>4, <2>1, <2>2
<1>5. QED
  BY <1>1, <1>3, <1>4, UpdateEffect

\* A copy that is written with another state than running.
LEMMA NonRunningWrite ==
  ASSUME TimesType, VersionsCoverTime, OneRunningPerTask,
         NEW new \in TimeEntry, Update(new), new.state # "running",
         times[new.id] # NoRow,
         new.start = times[new.id].start, new.stop = times[new.id].stop
  PROVE  TimesType' /\ VersionsCoverTime' /\ OneRunningPerTask'
<1>1. new.id \in EntryId /\ times[new.id] \in TimeEntry
  BY DEF TimesType, TimeEntry
<1>2. new.start <= new.stop /\ times[new.id].stop <= times[new.id].changed
  BY <1>1 DEF VersionsCoverTime
<1>3. CASE times' = times
  BY <1>3 DEF TimesType, VersionsCoverTime, OneRunningPerTask
<1>4. CASE new.changed >= times[new.id].changed
  <2>1. new.stop <= new.changed
    BY <1>1, <1>2, <1>4 DEF TimeEntry
  <2>2. QED
    BY <1>2, <2>1, WriteKeepsTable
<1>5. QED
  BY <1>3, <1>4, UpdateEffect

\* A handler stops one of the rows on its list.
LEMMA StopTodo ==
  ASSUME TypeOK, VersionsCoverTime, OneRunningPerTask, CopiesMatch,
         NEW item \in todo, StopTime(item),
         pc \in {"check", "drain"}, todo' = todo \ {item},
         toNotify' = toNotify, pc' = pc \/ (pc' = "ready" /\ todo' = {} /\ toNotify = {})
  PROVE  TimesType' /\ VersionsCoverTime' /\ OneRunningPerTask' /\ CopiesMatch'
<1> DEFINE s == IF item.stop - item.start < gz THEN "deleted" ELSE "stopped"
           new == With(item, s, now)
<1>1. /\ item \in TimeEntry /\ item.state = "running" /\ times[item.id] # NoRow
      /\ item.start = times[item.id].start /\ item.stop = times[item.id].stop
      /\ now \in Nat /\ TimesType
  BY DEF TypeOK, CopiesMatch
<1>2. s \in EntryState /\ s # "running" /\ Update(new)
  BY DEF EntryState, StopTime
<1> HIDE DEF s
<1>3. /\ new \in TimeEntry /\ new.id = item.id /\ new.start = item.start
      /\ new.stop = item.stop /\ new.state = s
  BY <1>1, <1>2, WithType
<1> HIDE DEF new
<1>4. TimesType' /\ VersionsCoverTime' /\ OneRunningPerTask'
  BY <1>1, <1>2, <1>3, NonRunningWrite
<1>5. ASSUME NEW c \in todo \cup toNotify
      PROVE  /\ c.state = "running" /\ times'[c.id] # NoRow
             /\ c.start = times'[c.id].start /\ c.stop = times'[c.id].stop
  BY <1>1, <1>2, <1>3, OtherCopiesMatch DEF TypeOK, CopiesMatch
<1>6. CopiesMatch'
  BY <1>5 DEF CopiesMatch
<1>7. QED
  BY <1>4, <1>6

\* What the observers see is a set of tasks and a truth value.
LEMMA ViewType ==
  ASSUME TimesType', oldRunning \subseteq TaskId, icon \in BOOLEAN,
         NEW explicit \in BOOLEAN, Observe(explicit)
  PROVE  oldRunning' \subseteq TaskId /\ icon' \in BOOLEAN
<1>1. RunningTasks' \subseteq TaskId
  BY DEF RunningTasks, ByState, TimesType, TimeEntry, NoRow
<1>2. QED
  BY <1>1 DEF Observe

LEMMA InitKeeperInv == Init => KeeperInv
<1> SUFFICES ASSUME Init PROVE KeeperInv
  OBVIOUS
<1> USE DEF Init
<1>0. setBacks \in 0 .. MaxSetBacks
  BY KeeperAssumption
<1>1. TypeOK
  BY <1>0, KeeperAssumption DEF TypeOK, TimesType, PC
<1>2. VersionsCoverTime
  BY DEF VersionsCoverTime
<1>3. CopiesMatch
  BY DEF CopiesMatch
<1>4. OneRunningPerTask
  BY DEF OneRunningPerTask, NoRow
<1>5. QED
  BY <1>1, <1>2, <1>3, <1>4 DEF KeeperInv

\* A clock that was not set back up to the next state is not set back now.
LEMMA NeverBefore ==
  ASSUME KeeperInv, [Next]_vars, NeverSetBack'
  PROVE  NeverSetBack /\ ~ StepBack
<1>1. setBacks \in Nat /\ setBacks' = 0
  BY KeeperAssumption DEF KeeperInv, TypeOK, NeverSetBack
<1>2. ~ StepBack
  BY <1>1 DEF StepBack
<1>3. ASSUME TimePasses PROVE setBacks' = setBacks
  BY <1>3 DEF TimePasses, Advance
<1>4. ASSUME UserStep PROVE setBacks' = setBacks
  BY <1>4 DEF UserStep, UserInput, SaveSettings, Start, Stop, Toggle, RemoveTask,
     StopAll, UserActs
<1>5. ASSUME Tick \/ Down \/ Launch \/ UNCHANGED vars PROVE setBacks' = setBacks
  BY <1>5 DEF Tick, TickBegin, PollActivity, HandlerStep, Drain, NotifyIdle,
     StopExpired, Extend, Down, Launch, vars, envVars
<1>6. setBacks' = setBacks
  BY <1>2, <1>3, <1>4, <1>5 DEF Next
<1>7. QED
  BY <1>1, <1>2, <1>6 DEF NeverSetBack

LEMMA StepKeeperInv == KeeperInv /\ [Next]_vars => KeeperInv'
<1> SUFFICES ASSUME KeeperInv, [Next]_vars PROVE KeeperInv'
  OBVIOUS
<1> USE DEF KeeperInv
<1>types. /\ TimesType /\ now \in Nat /\ sinceInput \in Nat /\ pc \in PC
          /\ todo \subseteq TimeEntry /\ toNotify \subseteq TimeEntry
  BY DEF TypeOK
<1>running. \A c \in ByState("running") :
              /\ c \in TimeEntry /\ c = times[c.id] /\ times[c.id] # NoRow
              /\ c.state = "running"
  BY <1>types, ByStateRows DEF EntryState
<1>same. ASSUME UNCHANGED times
         PROVE  TimesType' /\ VersionsCoverTime' /\ OneRunningPerTask'
  BY <1>types, <1>same DEF TimesType, VersionsCoverTime, OneRunningPerTask
<1>idle. ASSUME todo' = {}, toNotify' = {} PROVE CopiesMatch'
  BY <1>idle DEF CopiesMatch
<1>1. ASSUME NEW d \in ClockSteps, Advance(d) PROVE KeeperInv'
  <2>1. now' \in Nat /\ sinceInput' \in Nat
    BY <1>1, <1>types, KeeperAssumption DEF Advance
  <2>2. QED
    BY <1>1, <2>1, <1>same DEF Advance, settingVars, viewVars, TypeOK, CopiesMatch
<1>2. CASE StepBack
  <2>1. now' \in Nat /\ setBacks' \in 0 .. MaxSetBacks
    BY <1>2, <1>types, KeeperAssumption DEF StepBack, TypeOK
  <2>2. QED
    BY <1>2, <2>1, <1>same DEF StepBack, settingVars, viewVars, TypeOK, CopiesMatch
<1>3. CASE UserInput
  BY <1>3, <1>same
     DEF UserInput, UserActs, settingVars, viewVars, TypeOK, CopiesMatch
<1>4. ASSUME NEW g \in IdleTimes, NEW z \in ZeroTimes, SaveSettings(g, z)
      PROVE  KeeperInv'
  BY <1>4, <1>same
     DEF SaveSettings, UserActs, viewVars, TypeOK, CopiesMatch
<1>start. ASSUME NEW t \in TaskId, UserActs, StartTime(t),
                 UNCHANGED <<now, settingVars, removed, pc, todo, toNotify>>
          PROVE  KeeperInv'
  <2>1. TimesType' /\ VersionsCoverTime' /\ OneRunningPerTask'
    BY <1>start, <1>types, StartKeepsTable
  <2>2. CopiesMatch'
    BY <1>start DEF CopiesMatch, UserActs
  <2>3. oldRunning' \subseteq TaskId /\ icon' \in BOOLEAN
    BY <1>start, <2>1, ViewType DEF StartTime, TypeOK
  <2>4. QED
    BY <1>start, <2>1, <2>2, <2>3 DEF TypeOK, UserActs, settingVars
<1>stop. ASSUME UserActs, NEW item \in ByState("running"), StopTime(item),
                UNCHANGED <<now, settingVars, removed, pc, todo, toNotify>>
         PROVE  KeeperInv'
  <2>1. TimesType' /\ VersionsCoverTime' /\ OneRunningPerTask'
    BY <1>stop, <1>types, <1>running, StopKeepsTable DEF VersionsCoverTime, TimeEntry
  <2>2. CopiesMatch'
    BY <1>stop DEF CopiesMatch, UserActs
  <2>3. oldRunning' \subseteq TaskId /\ icon' \in BOOLEAN
    BY <1>stop, <2>1, ViewType DEF StopTime, TypeOK
  <2>4. QED
    BY <1>stop, <2>1, <2>2, <2>3 DEF TypeOK, UserActs, settingVars
<1>5. ASSUME NEW t \in TaskId, Start(t) PROVE KeeperInv'
  BY <1>5, <1>start DEF Start
<1>6. ASSUME NEW t \in TaskId, Stop(t) PROVE KeeperInv'
  BY <1>6, <1>stop DEF Stop
<1>7. ASSUME NEW t \in TaskId, Toggle(t) PROVE KeeperInv'
  BY <1>7, <1>start, <1>stop DEF Toggle
<1>drain. ASSUME NEW items \in SUBSET ByState("running"), pc = "ready",
                 BeginDrain(items), UNCHANGED <<times, toNotify>>
          PROVE  todo' \subseteq TimeEntry /\ pc' \in PC /\ CopiesMatch'
  <2>1. toNotify' = {} /\ todo' = items
    BY <1>drain DEF CopiesMatch, BeginDrain
  <2>2. QED
    BY <1>drain, <1>running, <2>1 DEF BeginDrain, CopiesMatch, PC
<1>8. CASE StopAll
  <2>1. todo' \subseteq TimeEntry /\ pc' \in PC /\ CopiesMatch'
    BY <1>8, <1>drain DEF StopAll, UserActs
  <2>2. QED
    BY <1>8, <1>same, <2>1 DEF StopAll, UserActs, settingVars, viewVars, TypeOK
<1>9. ASSUME NEW t \in TaskId, RemoveTask(t) PROVE KeeperInv'
  <2>1. todo' \subseteq TimeEntry /\ pc' \in PC /\ CopiesMatch'
    BY <1>9, <1>drain DEF RemoveTask, UserActs
  <2>2. QED
    BY <1>9, <1>same, <2>1 DEF RemoveTask, UserActs, settingVars, viewVars, TypeOK
<1>10. ASSUME NEW item \in todo \cup toNotify, Drain(item) PROVE KeeperInv'
  <2>1. TimesType' /\ VersionsCoverTime' /\ OneRunningPerTask' /\ CopiesMatch'
    <3>1. pc = "drain" /\ item \in todo /\ toNotify = {}
      BY <1>10 DEF Drain, CopiesMatch
    <3>2. StopTime(item) /\ todo' = todo \ {item} /\ toNotify' = toNotify
      BY <1>10 DEF Drain
    <3>3. pc' = pc \/ (pc' = "ready" /\ todo' = {})
      BY <1>10, <3>1 DEF Drain
    <3>4. QED
      BY <3>1, <3>2, <3>3, StopTodo
  <2>2. oldRunning' \subseteq TaskId /\ icon' \in BOOLEAN
    BY <1>10, <2>1, ViewType DEF Drain, StopTime, TypeOK
  <2>3. QED
    BY <1>10, <2>1, <2>2 DEF Drain, envVars, settingVars, TypeOK, PC
<1>11. CASE TickBegin
  <2>1. todo' \subseteq ByState("running") /\ toNotify' \subseteq ByState("running")
    BY <1>11 DEF TickBegin, Expired
  <2>2. CopiesMatch'
    BY <1>11, <1>running, <2>1 DEF TickBegin, CopiesMatch
  <2>3. todo' \subseteq TimeEntry /\ toNotify' \subseteq TimeEntry
    BY <1>running, <2>1
  <2>4. QED
    BY <1>11, <1>same, <2>2, <2>3
       DEF TickBegin, envVars, settingVars, viewVars, TypeOK, PC
<1>12. ASSUME NEW item \in todo \cup toNotify, NotifyIdle(item) PROVE KeeperInv'
  <2> DEFINE new == With(item, "paused", now)
  <2>1. /\ item \in TimeEntry /\ item.state = "running" /\ times[item.id] # NoRow
        /\ item.start = times[item.id].start /\ item.stop = times[item.id].stop
    BY <1>types DEF CopiesMatch
  <2>2. /\ new \in TimeEntry /\ new.id = item.id /\ new.start = item.start
        /\ new.stop = item.stop /\ new.state = "paused" /\ new.changed = now
    BY <1>types, <2>1, WithType DEF EntryState, With, TimeEntry
  <2>3. Update(new)
    BY <1>12 DEF NotifyIdle
  <2> HIDE DEF new
  <2>4. TimesType' /\ VersionsCoverTime' /\ OneRunningPerTask'
    BY <1>types, <2>1, <2>2, <2>3, NonRunningWrite
  <2>5. CopiesMatch'
    <3>1. ASSUME NEW c \in todo \cup toNotify
          PROVE  /\ c.state = "running" /\ times'[c.id] # NoRow
                 /\ c.start = times'[c.id].start /\ c.stop = times'[c.id].stop
      BY <1>types, <2>1, <2>2, <2>3, OtherCopiesMatch DEF CopiesMatch
    <3>2. QED
      BY <1>12, <3>1 DEF NotifyIdle, CopiesMatch
  <2>6. oldRunning' \subseteq TaskId /\ icon' \in BOOLEAN
    BY <1>12, <2>4, ViewType DEF NotifyIdle, TypeOK
  <2>7. QED
    BY <1>12, <2>4, <2>5, <2>6 DEF NotifyIdle, envVars, settingVars, TypeOK
<1>13. ASSUME NEW item \in todo \cup toNotify, StopExpired(item) PROVE KeeperInv'
  <2>1. TimesType' /\ VersionsCoverTime' /\ OneRunningPerTask' /\ CopiesMatch'
    BY <1>13, <1>types, StopTodo DEF StopExpired
  <2>2. oldRunning' \subseteq TaskId /\ icon' \in BOOLEAN
    BY <1>13, <2>1, ViewType DEF StopExpired, StopTime, TypeOK
  <2>3. QED
    BY <1>13, <2>1, <2>2 DEF StopExpired, envVars, settingVars, TypeOK
<1>14. CASE PollActivity
  <2>1. todo' \subseteq ByState("running") /\ toNotify' = {}
    BY <1>14 DEF PollActivity
  <2>2. CopiesMatch'
    BY <1>14, <1>running, <2>1 DEF PollActivity, CopiesMatch
  <2>3. todo' \subseteq TimeEntry /\ pc' \in PC
    BY <1>14, <1>running, <2>1 DEF PollActivity, PC
  <2>4. QED
    BY <1>14, <1>same, <2>1, <2>2, <2>3
       DEF PollActivity, envVars, settingVars, viewVars, TypeOK
<1>15. ASSUME NEW item \in todo \cup toNotify, Extend(item) PROVE KeeperInv'
  <2> DEFINE new == WithStop(item, now, now)
  <2>1. /\ item \in TimeEntry /\ item.state = "running" /\ times[item.id] = item
        /\ item \in todo /\ toNotify = {} /\ times[item.id] # NoRow
    BY <1>15, <1>types DEF Extend, CopiesMatch
  <2>2. /\ new \in TimeEntry /\ new.id = item.id /\ new.state = "running"
        /\ new.start = item.start /\ new.stop = now
        /\ new = item \/ new.changed = now
    BY <1>types, <2>1, WithStopType
  <2>3. Update(new)
    BY <1>15 DEF Extend
  <2> HIDE DEF new
  <2>4. item.start <= item.stop /\ item.stop <= item.changed
    BY <2>1 DEF VersionsCoverTime, TimeEntry
  <2>5. TimesType' /\ VersionsCoverTime' /\ OneRunningPerTask'
    <3>1. CASE times' = times
      BY <1>same, <3>1
    <3>2. CASE new.changed >= item.changed /\ new # item
      <4>1. new.start <= new.stop /\ new.stop <= new.changed
        BY <1>types, <2>1, <2>2, <2>4, <3>2 DEF TimeEntry
      <4>2. QED
        BY <1>types, <2>1, <2>2, <2>3, <4>1, WriteKeepsTable
    <3>3. QED
      BY <1>types, <2>1, <2>2, <2>3, <3>1, <3>2 DEF Update, Accepts
  <2>6. \A c \in todo \ {item} : times'[c.id] = c
    <3>1. ASSUME NEW c \in todo \ {item} PROVE times'[c.id] = c
      <4>1. c \in TimeEntry /\ times[c.id] = c /\ c.id # item.id
        BY <1>15, <1>types, <2>1 DEF Extend, CopiesMatch
      <4>2. QED
        BY <1>types, <2>2, <2>3, <4>1, UpdateEffect DEF TimeEntry
    <3>2. QED
      BY <3>1
  <2>7. CopiesMatch'
    BY <1>15, <1>types, <2>1, <2>6, NoRowIsNoEntry DEF Extend, CopiesMatch
  <2>8. oldRunning' \subseteq TaskId /\ icon' \in BOOLEAN
    BY <1>15, <2>5, ViewType DEF Extend, TypeOK
  <2>9. QED
    BY <1>15, <2>5, <2>7, <2>8 DEF Extend, envVars, settingVars, TypeOK, PC
<1>16. CASE Down
  BY <1>16, <1>same, <1>idle DEF Down, envVars, settingVars, TypeOK, PC
<1>17. CASE Launch
  <2>1. times' = [e \in EntryId |->
                    IF times[e] # NoRow /\ times[e].stop - times[e].start < ShortSpan
                    THEN NoRow ELSE times[e]]
    BY <1>17 DEF Launch, RemoveShortTimeSpans
  <2>2. TimesType'
    BY <1>types, <2>1 DEF TimesType
  <2>3. \A e \in EntryId : times'[e] = NoRow \/ times'[e] = times[e]
    BY <2>1
  <2>4. VersionsCoverTime'
    BY <2>3 DEF VersionsCoverTime
  <2>5. OneRunningPerTask'
    BY <2>3 DEF OneRunningPerTask, NoRow
  <2>6. todo' = {} /\ toNotify' = {}
    BY <1>17 DEF Launch, CopiesMatch
  <2>7. QED
    BY <1>17, <1>idle, <2>2, <2>4, <2>5, <2>6
       DEF Launch, envVars, settingVars, TypeOK, PC
<1>18. CASE UNCHANGED vars
  BY <1>18, <1>same DEF vars, envVars, settingVars, viewVars, TypeOK, CopiesMatch
<1>19. QED
  BY <1>1, <1>2, <1>3, <1>4, <1>5, <1>6, <1>7, <1>8, <1>9, <1>10, <1>11, <1>12,
     <1>13, <1>14, <1>15, <1>16, <1>17, <1>18
     DEF Next, TimePasses, UserStep, Tick, HandlerStep

THEOREM KeeperInvariant == Spec => []KeeperInv
  BY InitKeeperInv, StepKeeperInv, PTL DEF Spec

-----------------------------------------------------------------------------
(* The theorems about states *)

(***************************************************************************)
(* Every state of the keeper is well typed, whatever is stopped, crashes   *)
(* or is set back.                                                         *)
(***************************************************************************)
THEOREM TypeCorrect == Spec => []TypeOK
<1>1. KeeperInv => TypeOK
  BY DEF KeeperInv
<1>2. QED
  BY <1>1, KeeperInvariant, PTL

(***************************************************************************)
(* A task never has two running entries: time_manager::start and toggle    *)
(* are the only steps that make an entry running, and they look first.     *)
(***************************************************************************)
THEOREM OneTimerPerTask == Spec => []OneRunningPerTask
<1>1. KeeperInv => OneRunningPerTask
  BY DEF KeeperInv
<1>2. QED
  BY <1>1, KeeperInvariant, PTL

(***************************************************************************)
(* The version test of time_accessor::update keeps every entry from ending *)
(* before it starts, also while the clock is set back.                     *)
(***************************************************************************)
THEOREM TimeIsNeverNegative == Spec => []NoNegativeTime
<1>1. KeeperInv => NoNegativeTime
  BY DEF KeeperInv, VersionsCoverTime, NoNegativeTime
<1>2. QED
  BY <1>1, KeeperInvariant, PTL

-----------------------------------------------------------------------------
(* No idle gap is counted *)

(***************************************************************************)
(* Why the handler may extend what it extends.  A running row was last     *)
(* changed when it was last extended, so the stop of an expired row is     *)
(* never refused; when all copies on the list have been stopped, no        *)
(* expired row is running; and none is among the rows to extend.           *)
(***************************************************************************)
TickCutsIdleTime ==
  /\ \A e \in EntryId :
       times[e].state = "running" => times[e].changed = times[e].stop
  /\ pc = "check" =>
       /\ \A c \in todo : now >= c.stop
       /\ \A c \in todo : times[c.id].state = "running" => times[c.id] = c
       /\ \A e \in EntryId :
            times[e].state = "running" =>
              times[e] \in todo \/ now - times[e].stop <= IdleLimit(times[e].owner)
  /\ pc = "extend" => \A c \in todo : now - c.stop <= IdleLimit(c.owner)

LEMMA StepTickCutsIdleTime ==
  KeeperInv /\ TickCutsIdleTime /\ [Next]_vars => TickCutsIdleTime'
<1> SUFFICES ASSUME KeeperInv, TickCutsIdleTime, [Next]_vars
             PROVE  TickCutsIdleTime'
  OBVIOUS
<1>types. /\ TimesType /\ now \in Nat /\ sinceInput \in Nat /\ pc \in PC
          /\ todo \subseteq TimeEntry /\ toNotify \subseteq TimeEntry
  BY DEF KeeperInv, TypeOK
<1>limit. \A t \in TaskId : IdleLimit(t) \in Nat
  BY KeeperAssumption DEF KeeperInv, TypeOK, IdleLimit
<1>running. \A c \in ByState("running") :
              /\ c \in TimeEntry /\ c = times[c.id] /\ times[c.id] # NoRow
              /\ c.state = "running"
  BY <1>types, ByStateRows DEF EntryState
<1>1. ASSUME pc' \notin {"check", "extend"}, UNCHANGED times
      PROVE  TickCutsIdleTime'
  BY <1>1 DEF TickCutsIdleTime
\* A row that is written with another state than running.
<1>2. ASSUME NEW new \in TimeEntry, Update(new), new.state # "running"
      PROVE  \A e \in EntryId :
               times'[e].state = "running" => times'[e] = times[e]
  <2>1. new.id \in EntryId
    BY DEF TimeEntry
  <2>2. times' = times \/ times'[new.id].state # "running"
    BY <1>2, <1>types, UpdateEffect DEF TimeEntry
  <2>3. QED
    BY <1>2, <1>types, <2>1, <2>2, UpdateEffect
<1>3. ASSUME NEW item \in TimeEntry, StopTime(item), item.state = "running"
      PROVE  \A e \in EntryId :
               times'[e].state = "running" => times'[e] = times[e]
  <2> DEFINE s == IF item.stop - item.start < gz THEN "deleted" ELSE "stopped"
  <2>1. s \in EntryState /\ s # "running" /\ Update(With(item, s, now))
    BY <1>3 DEF EntryState, StopTime
  <2> HIDE DEF s
  <2>2. With(item, s, now) \in TimeEntry /\ With(item, s, now).state = s
    BY <1>types, <2>1, WithType
  <2>3. QED
    BY <1>2, <2>1, <2>2
<1>4. ASSUME NEW t \in TaskId, UserActs, StartTime(t), pc' = pc
      PROVE  TickCutsIdleTime'
  <2>1. PICK e \in EntryId :
          times' = [times EXCEPT ![e] =
                      [id |-> e, owner |-> t, start |-> now, stop |-> now,
                       changed |-> now, state |-> "running"]]
    BY <1>4 DEF StartTime, Create
  <2>2. QED
    BY <1>4, <1>types, <2>1 DEF TickCutsIdleTime, UserActs, TimesType
<1>5. ASSUME UserActs, NEW item \in ByState("running"), StopTime(item), pc' = pc
      PROVE  TickCutsIdleTime'
  BY <1>5, <1>running, <1>3 DEF TickCutsIdleTime, UserActs
<1>6. ASSUME NEW item \in todo \cup toNotify, NotifyIdle(item)
      PROVE  TickCutsIdleTime'
  <2>1. /\ With(item, "paused", now) \in TimeEntry
        /\ With(item, "paused", now).state = "paused"
    BY <1>types, WithType DEF EntryState
  <2>2. \A e \in EntryId : times'[e].state = "running" => times'[e] = times[e]
    BY <1>6, <1>2, <2>1 DEF NotifyIdle
  <2>3. \A c \in todo : c.id \in EntryId
    BY <1>types DEF TimeEntry
  <2>4. UNCHANGED <<now, todo, pc, gt>> /\ pc = "check"
    BY <1>6 DEF NotifyIdle, envVars, settingVars
  <2>5. QED
    BY <2>2, <2>3, <2>4 DEF TickCutsIdleTime, IdleLimit
<1>7. ASSUME NEW item \in todo \cup toNotify, StopExpired(item)
      PROVE  TickCutsIdleTime'
  <2>1. /\ item \in todo /\ item \in TimeEntry /\ item.state = "running"
        /\ StopTime(item) /\ todo' = todo \ {item} /\ pc = "check"
        /\ UNCHANGED <<now, pc, gt>>
    BY <1>7, <1>types DEF StopExpired, KeeperInv, CopiesMatch, envVars, settingVars
  <2>2. \A e \in EntryId : times'[e].state = "running" => times'[e] = times[e]
    BY <1>3, <2>1
  <2>3. times'[item.id].state # "running"
    <3>1. CASE times[item.id].state # "running"
      BY <2>1, <2>2, <3>1 DEF TimeEntry
    <3>2. CASE times[item.id] = item
      <4> DEFINE s == IF item.stop - item.start < gz THEN "deleted" ELSE "stopped"
                 new == With(item, s, now)
      <4>1. s \in EntryState /\ s # "running" /\ Update(new)
        BY <2>1 DEF EntryState, StopTime
      <4> HIDE DEF s
      <4>2. /\ new \in TimeEntry /\ new.state = s /\ new.id = item.id
            /\ new.changed = now
        BY <1>types, <2>1, <4>1, WithType DEF With, TimeEntry
      <4> HIDE DEF new
      <4>3. item.id \in EntryId /\ item.changed = item.stop /\ now >= item.stop
        BY <2>1, <3>2 DEF TimeEntry, TickCutsIdleTime
      <4>4. Accepts(new)
        BY <2>1, <3>2, <4>1, <4>2, <4>3, NoRowIsNoEntry DEF Accepts
      <4>5. QED
        BY <4>1, <4>2, <4>3, <4>4, <1>types DEF Update, TimesType, TimeEntry
    <3>3. QED
      BY <2>1, <3>1, <3>2 DEF TickCutsIdleTime
  <2>4. \A c \in todo : c.id \in EntryId
    BY <1>types DEF TimeEntry
  <2>5. \A e \in EntryId : times'[e].state = "running" => times'[e] # item
    BY <2>2, <2>3, <1>types DEF TimesType, NoRow
  <2>6. \A t : IdleLimit(t)' = IdleLimit(t)
    BY <2>1 DEF IdleLimit
  <2>7. ASSUME NEW c \in todo', times'[c.id].state = "running"
        PROVE  times'[c.id] = c
    BY <2>1, <2>2, <2>4, <2>7 DEF TickCutsIdleTime
  <2>8. ASSUME NEW e \in EntryId, times'[e].state = "running"
        PROVE  times'[e] \in todo' \/ now - times'[e].stop <= IdleLimit(times'[e].owner)
    <3>1. times'[e] = times[e] /\ times'[e] # item
      BY <2>2, <2>5, <2>8
    <3>2. times[e] \in todo \/ now - times[e].stop <= IdleLimit(times[e].owner)
      BY <2>1, <2>8, <3>1 DEF TickCutsIdleTime
    <3>3. QED
      BY <2>1, <3>1, <3>2
  <2>9. \A e \in EntryId :
          times'[e].state = "running" => times'[e].changed = times'[e].stop
    BY <2>2 DEF TickCutsIdleTime
  <2>10. \A c \in todo' : now' >= c.stop
    BY <2>1 DEF TickCutsIdleTime
  <2>11. QED
    BY <2>1, <2>6, <2>7, <2>8, <2>9, <2>10 DEF TickCutsIdleTime
<1>8. CASE TickBegin
  <2>1. UNCHANGED <<times, now, gt>> /\ pc' = "check" /\ todo' = Expired
    BY <1>8 DEF TickBegin, envVars, settingVars
  <2>2. \A c \in Expired : c \in ByState("running") /\ now - c.stop > IdleLimit(c.owner)
    BY DEF Expired
  <2>3. \A c \in Expired : now >= c.stop
    BY <1>types, <1>limit, <1>running, <2>2 DEF TimeEntry
  <2>4. ASSUME NEW e \in EntryId, times[e].state = "running"
        PROVE  times[e] \in Expired \/ now - times[e].stop <= IdleLimit(times[e].owner)
    <3>1. times[e] \in ByState("running")
      BY <2>4 DEF ByState
    <3>2. now \in Nat /\ times[e].stop \in Nat /\ IdleLimit(times[e].owner) \in Nat
      BY <1>types, <1>limit, <1>running, <3>1 DEF TimeEntry
    <3>3. QED
      BY <3>1, <3>2 DEF Expired
  <2>5. QED
    BY <1>running, <2>1, <2>2, <2>3, <2>4 DEF TickCutsIdleTime, IdleLimit
<1>9. CASE PollActivity
  <2>1. UNCHANGED <<times, now, gt>> /\ pc = "check" /\ todo = {}
    BY <1>9 DEF PollActivity, envVars, settingVars
  <2>2. todo' \subseteq ByState("running") /\ pc' \in {"ready", "extend"}
    BY <1>9 DEF PollActivity
  <2>3. \A c \in ByState("running") : c.id \in EntryId /\ c = times[c.id]
    BY <1>running DEF TimeEntry
  <2>4. QED
    BY <1>running, <2>1, <2>2, <2>3 DEF TickCutsIdleTime, IdleLimit
<1>10. ASSUME NEW item \in todo \cup toNotify, Extend(item)
       PROVE  TickCutsIdleTime'
  <2> DEFINE new == WithStop(item, now, now)
  <2>1. /\ item \in todo /\ item \in TimeEntry /\ item.state = "running"
        /\ times[item.id] = item /\ pc = "extend" /\ Update(new)
        /\ todo' = todo \ {item} /\ pc' \in {"ready", "extend"}
        /\ UNCHANGED <<now, gt>>
    BY <1>10, <1>types DEF Extend, KeeperInv, CopiesMatch, envVars, settingVars
  <2>2. /\ new \in TimeEntry /\ new.id = item.id /\ new.stop = now
        /\ new = item \/ new.changed = now
    BY <1>types, <2>1, WithStopType
  <2> HIDE DEF new
  <2>3. item.id \in EntryId /\ item.changed = item.stop
    BY <2>1 DEF TickCutsIdleTime, TimeEntry
  <2>4. \A e \in EntryId :
          times'[e].state = "running" => times'[e].changed = times'[e].stop
    <3>1. times' = times \/ (/\ times'[item.id].changed = now
                            /\ times'[item.id].stop = now)
      <4>1. CASE Accepts(new)
        <5>1. new.changed = now
          BY <2>1, <2>2, <4>1 DEF Accepts
        <5>2. times' = [times EXCEPT ![item.id] = [new EXCEPT !.owner = item.owner]]
          BY <2>1, <2>2, <4>1 DEF Update
        <5>3. times'[item.id] = [new EXCEPT !.owner = item.owner]
          BY <1>types, <2>3, <5>2 DEF TimesType
        <5>4. QED
          BY <2>2, <5>1, <5>3 DEF TimeEntry
      <4>2. CASE ~ Accepts(new)
        BY <2>1, <4>2 DEF Update
      <4>3. QED
        BY <4>1, <4>2
    <3>2. \A e \in EntryId : e # item.id => times'[e] = times[e]
      BY <1>types, <2>1, <2>2, UpdateEffect
    <3>3. \A e \in EntryId : times[e].state = "running" => times[e].changed = times[e].stop
      BY DEF TickCutsIdleTime
    <3>4. QED
      BY <2>3, <3>1, <3>2, <3>3
  <2>5. QED
    BY <2>1, <2>4 DEF TickCutsIdleTime, IdleLimit
<1>11. ASSUME NEW item \in todo \cup toNotify, Drain(item)
       PROVE  TickCutsIdleTime'
  <2>1. /\ item \in TimeEntry /\ item.state = "running" /\ StopTime(item)
        /\ pc' \in {"ready", "drain"}
    BY <1>11, <1>types DEF Drain, KeeperInv, CopiesMatch
  <2>2. QED
    BY <2>1, <1>3 DEF TickCutsIdleTime
<1>12. CASE Launch
  <2>1. \A e \in EntryId : times'[e] = NoRow \/ times'[e] = times[e]
    BY <1>12 DEF Launch, RemoveShortTimeSpans
  <2>2. QED
    BY <1>12, <2>1 DEF Launch, TickCutsIdleTime, NoRow
<1>13. CASE UNCHANGED vars
  BY <1>13 DEF vars, envVars, settingVars, TickCutsIdleTime, IdleLimit
<1>14. CASE TimePasses \/ StepBack \/ UserInput \/ StopAll \/ Down
  BY <1>14, <1>1 DEF TimePasses, Advance, StepBack, UserInput, UserActs, StopAll,
                     BeginDrain, Down
<1>15. ASSUME NEW t \in TaskId, Start(t) \/ Toggle(t) \/ Stop(t)
       PROVE  TickCutsIdleTime'
  BY <1>15, <1>4, <1>5 DEF Start, Toggle, Stop
<1>16. ASSUME NEW t \in TaskId, RemoveTask(t) PROVE TickCutsIdleTime'
  BY <1>16, <1>1 DEF RemoveTask, UserActs, BeginDrain
<1>17. ASSUME NEW g \in IdleTimes, NEW z \in ZeroTimes, SaveSettings(g, z)
       PROVE  TickCutsIdleTime'
  BY <1>17, <1>1 DEF SaveSettings, UserActs
<1>18. QED
  BY <1>6, <1>7, <1>8, <1>9, <1>10, <1>11, <1>12, <1>13, <1>14, <1>15, <1>16, <1>17
     DEF Next, UserStep, Tick, HandlerStep

\* The only step that moves the stop of an entry that keeps running.
LEMMA OnlyExtendMovesStop ==
  ASSUME KeeperInv, Next, NEW e \in EntryId,
         times[e].state = "running", times'[e].state = "running"
  PROVE  \/ times'[e].stop = times[e].stop
         \/ \E item \in todo \cup toNotify : Extend(item)
<1>types. /\ TimesType /\ now \in Nat /\ todo \subseteq TimeEntry
          /\ toNotify \subseteq TimeEntry
  BY DEF KeeperInv, TypeOK
<1>1. ASSUME NEW item \in TimeEntry, StopTime(item), item.state = "running"
      PROVE  times'[e].stop = times[e].stop
  <2> DEFINE s == IF item.stop - item.start < gz THEN "deleted" ELSE "stopped"
  <2>1. s \in EntryState /\ s # "running" /\ Update(With(item, s, now))
    BY <1>1 DEF EntryState, StopTime
  <2> HIDE DEF s
  <2>2. /\ With(item, s, now) \in TimeEntry /\ With(item, s, now).state = s
        /\ With(item, s, now).id = item.id
    BY <1>types, <2>1, WithType
  <2>3. QED
    BY <1>types, <2>1, <2>2, UpdateFields
<1>2. ASSUME NEW t \in TaskId, StartTime(t) PROVE times'[e].stop = times[e].stop
  BY <1>2 DEF StartTime, Create, NoRow
<1>3. ASSUME NEW item \in ByState("running"), StopTime(item)
      PROVE  times'[e].stop = times[e].stop
  BY <1>1, <1>3, <1>types, ByStateRows DEF EntryState
<1>4. ASSUME NEW item \in todo \cup toNotify, Drain(item) \/ StopExpired(item)
      PROVE  times'[e].stop = times[e].stop
  BY <1>1, <1>4, <1>types DEF Drain, StopExpired, KeeperInv, CopiesMatch
<1>5. ASSUME NEW item \in todo \cup toNotify, NotifyIdle(item)
      PROVE  times'[e].stop = times[e].stop
  <2>1. /\ With(item, "paused", now) \in TimeEntry
        /\ With(item, "paused", now).state = "paused"
        /\ Update(With(item, "paused", now))
    BY <1>5, <1>types, WithType DEF NotifyIdle, EntryState
  <2>2. QED
    BY <1>types, <2>1, UpdateFields
<1>6. CASE Launch
  BY <1>6 DEF Launch, RemoveShortTimeSpans, NoRow
<1>7. CASE UNCHANGED times
  BY <1>7
<1>8. QED
  BY <1>2, <1>3, <1>4, <1>5, <1>6, <1>7
     DEF Next, TimePasses, Advance, StepBack, UserStep, UserInput, SaveSettings,
         Start, Toggle, RemoveTask, Stop, StopAll, Tick, TickBegin, PollActivity,
         HandlerStep, Down

(***************************************************************************)
(* Whatever the clock does, however long the machine slept or the program  *)
(* was down: no step extends a running entry over more than the idle time  *)
(* of its task.                                                            *)
(***************************************************************************)
THEOREM NoIdleGapIsCounted == Spec => NoIdleGapCounted
<1> DEFINE Cut == \A e \in EntryId :
                    times[e].state = "running" /\ times'[e].state = "running"
                    => times'[e].stop - times[e].stop <= IdleLimit(times[e].owner)
<1>1. Init => TickCutsIdleTime
  BY DEF Init, TickCutsIdleTime, NoRow
<1>2. KeeperInv /\ TickCutsIdleTime /\ [Next]_vars => [Cut]_vars
  <2> SUFFICES ASSUME KeeperInv, TickCutsIdleTime, Next,
                      NEW e \in EntryId,
                      times[e].state = "running", times'[e].state = "running"
               PROVE  times'[e].stop - times[e].stop <= IdleLimit(times[e].owner)
    OBVIOUS
  <2>types. /\ TimesType /\ now \in Nat /\ todo \subseteq TimeEntry
            /\ toNotify \subseteq TimeEntry
    BY DEF KeeperInv, TypeOK
  <2>row. times[e] \in TimeEntry
    BY <2>types DEF TimesType, NoRow
  <2>limit. IdleLimit(times[e].owner) \in Nat
    BY <2>row, KeeperAssumption DEF KeeperInv, TypeOK, IdleLimit, TimeEntry
  <2>1. CASE times'[e].stop = times[e].stop
    BY <2>1, <2>row, <2>limit DEF TimeEntry
  <2>2. ASSUME NEW item \in todo \cup toNotify, Extend(item)
        PROVE  times'[e].stop - times[e].stop <= IdleLimit(times[e].owner)
    <3>1. /\ item \in todo /\ item \in TimeEntry /\ times[item.id] = item
          /\ Update(WithStop(item, now, now))
          /\ now - item.stop <= IdleLimit(item.owner)
      BY <2>2, <2>types DEF Extend, KeeperInv, CopiesMatch, TickCutsIdleTime
    <3>2. /\ WithStop(item, now, now) \in TimeEntry
          /\ WithStop(item, now, now).id = item.id
          /\ WithStop(item, now, now).stop = now
      BY <2>types, <3>1, WithStopType
    <3>3. times'[e].stop = times[e].stop \/ (e = item.id /\ times'[e].stop = now)
      BY <2>types, <3>1, <3>2, UpdateFields
    <3>4. QED
      BY <2>1, <3>1, <3>3
  <2>3. QED
    BY <2>1, <2>2, <2>types, OnlyExtendMovesStop
<1>3. QED
  BY <1>1, <1>2, StepTickCutsIdleTime, KeeperInvariant, PTL
     DEF Spec, NoIdleGapCounted

-----------------------------------------------------------------------------
(* No moment is counted twice *)

(***************************************************************************)
(* Why a new entry does not overlap an old one: nothing ends in the        *)
(* future, everything else of the task of a running entry ended before it  *)
(* was started, and a row on the list of a handler is still running or was *)
(* paused by that handler, so that stopping it brings back no row that     *)
(* counts no more.                                                         *)
(***************************************************************************)
Separate ==
  \A e, f \in EntryId :
    /\ e # f /\ Counts(e) /\ Counts(f) /\ times[e].owner = times[f].owner
    => /\ times[e].stop <= times[f].start \/ times[f].stop <= times[e].start
       /\ times[e].state = "running" => times[f].stop <= times[e].start

CountedOnce ==
  /\ \A e \in EntryId : times[e] # NoRow => times[e].stop <= now
  /\ toNotify \subseteq todo
  /\ \A c \in todo : times[c.id].state \in {"running", "paused"}
  /\ \A c, d \in todo : c.id = d.id => c = d
  /\ Separate

\* Rows that only cease to run or to count stay separate.
LEMMA FewerStaySeparate ==
  ASSUME Separate,
         \A e \in EntryId : Counts(e)' =>
           /\ Counts(e)
           /\ times'[e].start = times[e].start /\ times'[e].stop = times[e].stop
           /\ times'[e].owner = times[e].owner
           /\ times'[e].state = "running" => times[e].state = "running"
  PROVE  Separate'
  BY DEF Separate

\* Stopping or pausing a row that runs or is paused.
LEMMA StoppedStaySeparate ==
  ASSUME TimesType, CountedOnce, NEW new \in TimeEntry, Update(new),
         new.state # "running", times[new.id].state \in {"running", "paused"},
         new.start = times[new.id].start, new.stop = times[new.id].stop
  PROVE  /\ Separate'
         /\ \A e \in EntryId : times'[e] # NoRow =>
              times[e] # NoRow /\ times'[e].stop = times[e].stop
         /\ \A e \in EntryId : e # new.id => times'[e] = times[e]
         /\ times' = times \/ times'[new.id].state = new.state
<1>1. new.id \in EntryId /\ times[new.id] # NoRow /\ times[new.id] \in TimeEntry
  BY DEF TimesType, TimeEntry, NoRow
<1>2. \/ times' = times
      \/ /\ times'[new.id].start = times[new.id].start
         /\ times'[new.id].stop = times[new.id].stop
         /\ times'[new.id].owner = times[new.id].owner
         /\ times'[new.id].state = new.state
  BY <1>1, UpdateEffect DEF TimeEntry
<1>3. \A e \in EntryId : e # new.id => times'[e] = times[e]
  BY UpdateEffect
<1>4. Counts(new.id)
  BY DEF Counts
<1>5. Separate'
  BY <1>2, <1>3, <1>4, FewerStaySeparate DEF CountedOnce, Counts
<1>6. QED
  BY <1>1, <1>2, <1>3, <1>5

\* One of the rows that run or are paused is stopped.
LEMMA StopKeepsCountedOnce ==
  ASSUME KeeperInv, CountedOnce, NEW item \in TimeEntry, StopTime(item),
         item.state = "running", times[item.id].state \in {"running", "paused"},
         item.start = times[item.id].start, item.stop = times[item.id].stop,
         todo' \subseteq todo, \A c \in todo' : c.id # item.id,
         toNotify' \subseteq todo', now' = now
  PROVE  CountedOnce'
<1> DEFINE s == IF item.stop - item.start < gz THEN "deleted" ELSE "stopped"
           new == With(item, s, now)
<1>1. s \in EntryState /\ s # "running" /\ Update(new) /\ now \in Nat /\ TimesType
  BY DEF EntryState, StopTime, KeeperInv, TypeOK
<1> HIDE DEF s
<1>2. /\ new \in TimeEntry /\ new.id = item.id /\ new.state = s
      /\ new.start = item.start /\ new.stop = item.stop
  BY <1>1, WithType
<1> HIDE DEF new
<1>3. /\ Separate'
      /\ \A e \in EntryId : times'[e] # NoRow =>
           times[e] # NoRow /\ times'[e].stop = times[e].stop
      /\ \A e \in EntryId : e # new.id => times'[e] = times[e]
  BY <1>1, <1>2, StoppedStaySeparate
<1>4. \A c \in todo : c.id \in EntryId
  BY DEF KeeperInv, TypeOK, TimeEntry
<1>5. QED
  BY <1>2, <1>3, <1>4 DEF CountedOnce

LEMMA StepCountedOnce ==
  ASSUME KeeperInv, CountedOnce, [Next]_vars, ~ StepBack
  PROVE  CountedOnce'
<1>types. /\ TimesType /\ now \in Nat /\ pc \in PC
          /\ todo \subseteq TimeEntry /\ toNotify \subseteq TimeEntry
  BY DEF KeeperInv, TypeOK
<1>running. \A c \in ByState("running") :
              /\ c \in TimeEntry /\ c = times[c.id] /\ times[c.id] # NoRow
              /\ c.state = "running"
  BY <1>types, ByStateRows DEF EntryState
<1>row. \A e \in EntryId : times[e] # NoRow => times[e] \in TimeEntry
  BY <1>types DEF TimesType
<1>ready. pc = "ready" => todo = {} /\ toNotify = {}
  BY DEF KeeperInv, CopiesMatch
\* Nothing is written, and a list that is read holds running rows.
<1>1. ASSUME UNCHANGED times, now' \in Nat, now' >= now, toNotify' \subseteq todo',
             todo' \subseteq todo \/ todo' \subseteq ByState("running")
      PROVE  CountedOnce'
  <2>1. \A e \in EntryId : times'[e] # NoRow => times'[e].stop <= now'
    <3>1. ASSUME NEW e \in EntryId, times[e] # NoRow PROVE times[e].stop <= now'
      <4>1. times[e].stop \in Nat /\ times[e].stop <= now
        BY <1>row, <3>1 DEF CountedOnce, TimeEntry
      <4>2. QED
        BY <1>1, <1>types, <4>1
    <3>2. QED
      BY <1>1, <3>1
  <2>2. \A c \in todo' : times'[c.id].state \in {"running", "paused"}
    BY <1>1, <1>running DEF CountedOnce
  <2>3. \A c, d \in todo' : c.id = d.id => c = d
    BY <1>1, <1>running DEF CountedOnce
  <2>4. Separate'
    BY <1>1 DEF CountedOnce, Separate, Counts
  <2>5. QED
    BY <1>1, <2>1, <2>2, <2>3, <2>4 DEF CountedOnce
<1>2. ASSUME NEW t \in TaskId, StartTime(t), pc = "ready",
             UNCHANGED <<now, todo, toNotify>>
      PROVE  CountedOnce'
  <2>1. PICK e \in EntryId :
          /\ times[e] = NoRow
          /\ times' = [times EXCEPT ![e] =
                         [id |-> e, owner |-> t, start |-> now, stop |-> now,
                          changed |-> now, state |-> "running"]]
    BY <1>2 DEF StartTime, Create
  <2>2. \A f \in EntryId : times[f].state = "running" => times[f].owner # t
    BY <1>2, <1>types DEF StartTime, IsRunning, RunningTasks, ByState
  <2>3. /\ times'[e].owner = t /\ times'[e].start = now /\ times'[e].stop = now
        /\ times'[e].state = "running"
        /\ \A f \in EntryId : f # e => times'[f] = times[f]
    BY <2>1, <1>types DEF TimesType
  <2>4. \A f \in EntryId : Counts(f) => times[f] # NoRow
    BY DEF Counts, NoRow
  <2>5. \A f \in EntryId : times'[f] # NoRow => times'[f].stop <= now'
    BY <1>2, <1>types, <2>3 DEF CountedOnce
  <2>6. ASSUME NEW f \in EntryId, NEW g \in EntryId, f # g, Counts(f)', Counts(g)',
               times'[f].owner = times'[g].owner
        PROVE  /\ times'[f].stop <= times'[g].start \/ times'[g].stop <= times'[f].start
               /\ times'[f].state = "running" => times'[g].stop <= times'[f].start
    <3>1. CASE f = e
      BY <2>3, <2>4, <2>6, <3>1 DEF Counts, CountedOnce
    <3>2. CASE g = e
      <4>1. times'[f] = times[f] /\ times[f].owner = t /\ Counts(f)
        BY <2>3, <2>6, <3>2 DEF Counts
      <4>2. times[f].stop <= now /\ times[f].state # "running"
        BY <2>2, <2>4, <4>1 DEF CountedOnce
      <4>3. QED
        BY <2>3, <3>2, <4>1, <4>2
    <3>3. CASE f # e /\ g # e
      BY <2>3, <2>6, <3>3 DEF Counts, CountedOnce, Separate
    <3>4. QED
      BY <3>1, <3>2, <3>3
  <2>7. QED
    BY <1>2, <1>ready, <2>5, <2>6 DEF CountedOnce, Separate
<1>3. ASSUME NEW item \in ByState("running"), StopTime(item), pc = "ready",
             UNCHANGED <<now, todo, toNotify>>
      PROVE  CountedOnce'
  BY <1>3, <1>ready, <1>running, StopKeepsCountedOnce
<1>4. ASSUME NEW item \in todo, StopTime(item), todo' = todo \ {item},
             toNotify = {}, UNCHANGED <<now, toNotify>>
      PROVE  CountedOnce'
  <2>1. /\ item \in TimeEntry /\ item.state = "running"
        /\ item.start = times[item.id].start /\ item.stop = times[item.id].stop
        /\ times[item.id].state \in {"running", "paused"}
    BY <1>types DEF KeeperInv, CopiesMatch, CountedOnce
  <2>2. \A c \in todo' : c.id # item.id
    BY <1>4 DEF CountedOnce
  <2>3. QED
    BY <1>4, <2>1, <2>2, StopKeepsCountedOnce
<1>5. ASSUME NEW item \in todo \cup toNotify, NotifyIdle(item) PROVE CountedOnce'
  <2> DEFINE new == With(item, "paused", now)
  <2>1. /\ item \in todo /\ item \in TimeEntry
        /\ item.start = times[item.id].start /\ item.stop = times[item.id].stop
        /\ times[item.id].state \in {"running", "paused"}
        /\ Update(new) /\ UNCHANGED <<now, todo>>
        /\ toNotify' = toNotify \ {item}
    BY <1>5, <1>types
       DEF NotifyIdle, KeeperInv, CopiesMatch, CountedOnce, envVars
  <2>2. /\ new \in TimeEntry /\ new.id = item.id /\ new.state = "paused"
        /\ new.start = item.start /\ new.stop = item.stop
    BY <1>types, <2>1, WithType DEF EntryState
  <2> HIDE DEF new
  <2>3. /\ Separate'
        /\ \A e \in EntryId : times'[e] # NoRow =>
             times[e] # NoRow /\ times'[e].stop = times[e].stop
        /\ \A e \in EntryId : e # new.id => times'[e] = times[e]
        /\ times' = times \/ times'[new.id].state = new.state
    BY <1>types, <2>1, <2>2, StoppedStaySeparate
  <2>4. \A c \in todo : c.id \in EntryId
    BY <1>types DEF TimeEntry
  <2>5. \A c \in todo' : times'[c.id].state \in {"running", "paused"}
    BY <2>1, <2>2, <2>3, <2>4 DEF CountedOnce
  <2>6. QED
    BY <2>1, <2>3, <2>5 DEF CountedOnce
<1>6. ASSUME NEW item \in todo \cup toNotify, Extend(item) PROVE CountedOnce'
  <2> DEFINE new == WithStop(item, now, now)
  <2>1. /\ item \in todo /\ item \in TimeEntry /\ item.state = "running"
        /\ times[item.id] = item /\ pc = "extend" /\ Update(new)
        /\ todo' = todo \ {item} /\ toNotify' = toNotify /\ toNotify = {}
        /\ now' = now
    BY <1>6, <1>types DEF Extend, KeeperInv, CopiesMatch, envVars
  <2>2. /\ new \in TimeEntry /\ new.id = item.id /\ new.stop = now
        /\ new.start = item.start /\ new.state = "running"
        /\ new.owner = item.owner
    BY <1>types, <2>1, WithStopType
  <2> HIDE DEF new
  <2>3. item.id \in EntryId /\ \A c \in todo : c.id \in EntryId
    BY <1>types, <2>1 DEF TimeEntry
  <2>4. /\ \A e \in EntryId : e # item.id => times'[e] = times[e]
        /\ \/ times'[item.id] = times[item.id]
           \/ /\ times'[item.id].stop = now
              /\ times'[item.id].start = item.start
              /\ times'[item.id].state = "running"
              /\ times'[item.id].owner = item.owner
    BY <1>types, <2>1, <2>2, UpdateEffect DEF TimeEntry
  <2>5. \A e \in EntryId : times'[e] # NoRow => times'[e].stop <= now'
    BY <1>types, <2>1, <2>4 DEF CountedOnce
  <2>6. \A f \in EntryId : Counts(f)' => Counts(f) /\ times'[f].owner = times[f].owner
                                         /\ times'[f].start = times[f].start
                                         /\ times'[f].state = times[f].state
    BY <2>1, <2>3, <2>4 DEF Counts
  <2>7. ASSUME NEW f \in EntryId, NEW g \in EntryId, f # g, Counts(f)', Counts(g)',
               times'[f].owner = times'[g].owner
        PROVE  /\ times'[f].stop <= times'[g].start \/ times'[g].stop <= times'[f].start
               /\ times'[f].state = "running" => times'[g].stop <= times'[f].start
    <3>1. CASE f = item.id
      BY <2>1, <2>4, <2>6, <2>7, <3>1 DEF CountedOnce, Separate
    <3>2. CASE g = item.id
      <4>1. times[f].stop <= times[g].start /\ times[f].state # "running"
        BY <2>1, <2>6, <2>7, <3>2 DEF CountedOnce, Separate, KeeperInv, OneRunningPerTask
      <4>2. QED
        BY <2>4, <2>6, <2>7, <3>2, <4>1
    <3>3. CASE f # item.id /\ g # item.id
      BY <2>4, <2>6, <2>7, <3>3 DEF CountedOnce, Separate
    <3>4. QED
      BY <3>1, <3>2, <3>3
  <2>8. \A c \in todo' : times'[c.id].state \in {"running", "paused"}
    BY <2>1, <2>3, <2>4 DEF CountedOnce
  <2>9. QED
    BY <2>1, <2>5, <2>7, <2>8 DEF CountedOnce, Separate
<1>7. CASE Launch
  <2>1. \A e \in EntryId : times'[e] = NoRow \/ times'[e] = times[e]
    BY <1>7 DEF Launch, RemoveShortTimeSpans
  <2>2. Separate'
    <3>1. \A e \in EntryId : Counts(e)' => times'[e] = times[e]
      BY <2>1 DEF Counts, NoRow
    <3>2. QED
      BY <3>1, FewerStaySeparate DEF CountedOnce, Counts
  <2>3. todo = {} /\ todo' = {} /\ toNotify' = {}
    BY <1>7 DEF Launch, KeeperInv, CopiesMatch
  <2>4. QED
    BY <1>7, <2>1, <2>2, <2>3 DEF Launch, CountedOnce, envVars
<1>8. ASSUME NEW d \in ClockSteps, Advance(d) PROVE CountedOnce'
  <2>1. now' \in Nat /\ now' >= now /\ UNCHANGED <<times, todo, toNotify>>
    BY <1>8, <1>types, KeeperAssumption DEF Advance
  <2>2. QED
    BY <1>1, <2>1 DEF CountedOnce
<1>9. CASE TickBegin
  BY <1>9, <1>1, <1>types DEF TickBegin, Expired, envVars
<1>10. CASE PollActivity
  BY <1>10, <1>1, <1>types DEF PollActivity, envVars
<1>11. CASE StopAll \/ \E t \in TaskId : RemoveTask(t)
  BY <1>11, <1>1, <1>types, <1>ready DEF StopAll, RemoveTask, BeginDrain, UserActs
<1>12. CASE Down \/ UserInput \/ \E g \in IdleTimes, z \in ZeroTimes : SaveSettings(g, z)
  BY <1>12, <1>1, <1>types DEF Down, UserInput, SaveSettings, envVars, CountedOnce
<1>13. ASSUME NEW t \in TaskId, Start(t) \/ Toggle(t) \/ Stop(t) PROVE CountedOnce'
  BY <1>13, <1>2, <1>3 DEF Start, Toggle, Stop, UserActs
<1>14. ASSUME NEW item \in todo \cup toNotify, Drain(item) \/ StopExpired(item)
       PROVE  CountedOnce'
  <2>1. toNotify = {}
    BY <1>14 DEF Drain, StopExpired, KeeperInv, CopiesMatch
  <2>2. QED
    BY <1>14, <1>4, <2>1 DEF Drain, StopExpired, envVars
<1>15. CASE UNCHANGED vars
  BY <1>15, <1>1, <1>types DEF vars, envVars, CountedOnce
<1>16. QED
  BY <1>5, <1>6, <1>7, <1>8, <1>9, <1>10, <1>11, <1>12, <1>13, <1>14, <1>15
     DEF Next, TimePasses, UserStep, Tick, HandlerStep

(***************************************************************************)
(* As long as the clock has not been set back, no moment is recorded twice *)
(* for one task, whatever crashes, suspends and restarts happen.           *)
(***************************************************************************)
THEOREM TimeIsCountedOnce == Spec => []NoDoubleCounting
<1> DEFINE Inv == NeverSetBack => CountedOnce
<1>1. Init => Inv
  BY DEF Init, CountedOnce, Separate, Counts, NoRow
<1>2. KeeperInv /\ Inv /\ [Next]_vars => Inv'
  BY StepCountedOnce, NeverBefore
<1>3. Inv => NoDoubleCounting
  BY DEF CountedOnce, Separate, NoDoubleCounting
<1> HIDE DEF Inv
<1>4. QED
  BY <1>1, <1>2, <1>3, KeeperInvariant, PTL DEF Spec

-----------------------------------------------------------------------------
(* TimeKeeper implements Timesheet: what a handler does to the table       *)

\* A copy a handler still has to write is the only one of its row, and the
\* row has not been stopped since it was read.
CopiesOpen ==
  /\ toNotify \subseteq todo
  /\ \A c \in todo : times[c.id].state \in {"running", "paused"}
  /\ \A c, d \in todo : c.id = d.id => c = d

Opened(e, t) ==
  /\ times[e] = NoRow /\ ~ IsRunning(t)
  /\ times' = [times EXCEPT ![e] =
                 [id |-> e, owner |-> t, start |-> now, stop |-> now,
                  changed |-> now, state |-> "running"]]

Closed(e, states) ==
  /\ times[e] # NoRow
  /\ \E s \in states :
       times' = [times EXCEPT ![e] = [times[e] EXCEPT !.state = s, !.changed = now]]

Extended(e) ==
  /\ times[e].state = "running" /\ times[e].stop < now
  /\ times' = [times EXCEPT ![e] = [times[e] EXCEPT !.stop = now, !.changed = now]]

Erased(lines) ==
  times' = [e \in EntryId |-> IF e \in lines THEN NoRow ELSE times[e]]

\* The rows of a query are copies of the table, one of each.
LEMMA RunningCopies ==
  ASSUME TimesType
  PROVE  /\ \A c \in ByState("running") :
              /\ c \in TimeEntry /\ c.id \in EntryId /\ c = times[c.id]
              /\ times[c.id] # NoRow /\ c.state = "running"
         /\ \A c, d \in ByState("running") : c.id = d.id => c = d
         /\ \A e \in EntryId : times[e].state = "running" => times[e] \in ByState("running")
<1>1. \A c \in ByState("running") :
        /\ c \in TimeEntry /\ c = times[c.id] /\ times[c.id] # NoRow
        /\ c.state = "running"
  BY ByStateRows DEF EntryState
<1>2. \A c \in TimeEntry : c.id \in EntryId
  BY DEF TimeEntry
<1>3. QED
  BY <1>1, <1>2 DEF ByState

\* What closing and extending a row do to it.
LEMMA ClosedRow ==
  ASSUME TimesType, now \in Nat, NEW e \in EntryId, NEW states, Closed(e, states)
  PROVE  /\ times'[e].changed = now /\ times'[e].state \in states
         /\ \A f \in EntryId : f # e => times'[f] = times[f]
<1>1. PICK s \in states :
        times' = [times EXCEPT ![e] = [times[e] EXCEPT !.state = s, !.changed = now]]
  BY DEF Closed
<1> DEFINE new == [times[e] EXCEPT !.state = s, !.changed = now]
<1>2. times[e] \in TimeEntry
  BY DEF Closed, TimesType
<1>3. new.changed = now /\ new.state = s
  BY <1>2 DEF TimeEntry
<1> HIDE DEF new
<1>4. times'[e] = new /\ \A f \in EntryId : f # e => times'[f] = times[f]
  BY <1>1 DEF TimesType, new
<1>5. QED
  BY <1>3, <1>4

LEMMA ExtendedRow ==
  ASSUME TimesType, now \in Nat, NEW e \in EntryId, Extended(e)
  PROVE  /\ times'[e].changed = now /\ times'[e].stop = now
         /\ \A f \in EntryId : f # e => times'[f] = times[f]
<1> DEFINE new == [times[e] EXCEPT !.stop = now, !.changed = now]
<1>1. times[e] \in TimeEntry
  BY DEF Extended, TimesType, NoRow
<1>2. new.changed = now /\ new.stop = now
  BY <1>1 DEF TimeEntry
<1>3. times' = [times EXCEPT ![e] = new]
  BY DEF Extended
<1> HIDE DEF new
<1>4. QED
  BY <1>2, <1>3 DEF TimesType

(***************************************************************************)
(* A copy with another state than running is written over its row or       *)
(* refused; it is refused only by a row that is newer than this moment, or *)
(* that has this state already.                                            *)
(***************************************************************************)
LEMMA WithEffect ==
  ASSUME TimesType, now \in Nat, NEW item \in TimeEntry, NEW s \in EntryState,
         item.state = "running", s # "running", times[item.id] # NoRow,
         item.start = times[item.id].start, item.stop = times[item.id].stop,
         Update(With(item, s, now))
  PROVE  /\ item.id \in EntryId
         /\ times' = times \/ Closed(item.id, {s})
         /\ times[item.id].changed <= now => times'[item.id].state = s
         /\ times'[item.id].state \in {times[item.id].state, s}
         /\ \A e \in EntryId : e # item.id => times'[e] = times[e]
<1> DEFINE new == With(item, s, now)
           row == times[item.id]
<1>1. item.id \in EntryId /\ row \in TimeEntry /\ row.id = item.id
  BY DEF TimesType, TimeEntry
<1>2. /\ new \in TimeEntry /\ new.id = item.id /\ new.state = s /\ new.changed = now
      /\ new.start = row.start /\ new.stop = row.stop
  BY WithType DEF With, TimeEntry
<1>3. [new EXCEPT !.owner = row.owner] = [row EXCEPT !.state = s, !.changed = now]
  BY <1>1, <1>2 DEF TimeEntry
<1>4. times' = IF Accepts(new)
               THEN [times EXCEPT ![item.id] = [row EXCEPT !.state = s, !.changed = now]]
               ELSE times
  BY <1>2, <1>3 DEF Update
<1> HIDE DEF new
<1>5. times' = times \/ Closed(item.id, {s})
  BY <1>4 DEF Closed
<1>6. row.changed <= now => times'[item.id].state = s
  BY <1>1, <1>2, <1>4 DEF Accepts, TimesType, TimeEntry
<1>7. times'[item.id].state \in {row.state, s}
  BY <1>1, <1>4 DEF TimesType, TimeEntry
<1>8. \A e \in EntryId : e # item.id => times'[e] = times[e]
  BY <1>4 DEF TimesType
<1>9. QED
  BY <1>1, <1>5, <1>6, <1>7, <1>8

\* stop_time ends the row, or finds a newer one.
LEMMA StopEffect ==
  ASSUME TimesType, now \in Nat, NEW item \in TimeEntry, StopTime(item),
         item.state = "running", times[item.id] # NoRow,
         item.start = times[item.id].start, item.stop = times[item.id].stop
  PROVE  /\ item.id \in EntryId
         /\ times' = times \/ Closed(item.id, {"stopped", "deleted"})
         /\ times[item.id].changed <= now =>
              times'[item.id].state \in {"stopped", "deleted"}
         /\ times'[item.id].state \in {times[item.id].state, "stopped", "deleted"}
         /\ \A e \in EntryId : e # item.id => times'[e] = times[e]
         /\ icon' = (RunningTasks' # {})
<1> DEFINE s == IF item.stop - item.start < gz THEN "deleted" ELSE "stopped"
<1>1. s \in {"stopped", "deleted"} /\ Update(With(item, s, now)) /\ Observe(TRUE)
  BY DEF StopTime
<1> HIDE DEF s
<1>2. s \in EntryState /\ s # "running" /\ TimesType /\ now \in Nat
  BY <1>1 DEF EntryState
<1>3. /\ item.id \in EntryId
      /\ times' = times \/ Closed(item.id, {s})
      /\ times[item.id].changed <= now => times'[item.id].state = s
      /\ times'[item.id].state \in {times[item.id].state, s}
      /\ \A e \in EntryId : e # item.id => times'[e] = times[e]
  BY <1>1, <1>2, WithEffect
<1>4. QED
  BY <1>1, <1>3 DEF Closed, Observe

\* update_running_entries moves the stop of the row forward, never back.
LEMMA ExtendEffect ==
  ASSUME KeeperInv, NEW item \in todo, Extend(item)
  PROVE  /\ item.id \in EntryId /\ times[item.id] = item /\ item.state = "running"
         /\ times' = times \/ Extended(item.id)
         /\ \A e \in EntryId : /\ times'[e].state = times[e].state
                               /\ times'[e].owner = times[e].owner
                               /\ times'[e] = NoRow <=> times[e] = NoRow
<1> DEFINE new == WithStop(item, now, now)
<1>1. /\ item \in TimeEntry /\ item.state = "running" /\ times[item.id] = item
      /\ item.id \in EntryId /\ times[item.id] # NoRow /\ now \in Nat /\ TimesType
  BY DEF Extend, KeeperInv, TypeOK, CopiesMatch, TimeEntry
<1>2. new.id = item.id /\ new.owner = item.owner
      /\ \/ new = item
         \/ item.stop # now /\ new = [item EXCEPT !.stop = now, !.changed = now]
  BY <1>1 DEF WithStop, TimeEntry
<1> HIDE DEF new
<1>3. CASE times' = times
  BY <1>1, <1>3
<1>4. CASE times' # times
  <2>1. /\ Accepts(new)
        /\ times' = [times EXCEPT ![new.id] = [new EXCEPT !.owner = times[new.id].owner]]
    BY <1>4 DEF Extend, Update, new
  <2>2. new = [item EXCEPT !.stop = now, !.changed = now] /\ item.stop # now
    BY <1>1, <1>2, <2>1 DEF Accepts
  <2>3. [new EXCEPT !.owner = times[new.id].owner] = [item EXCEPT !.stop = now, !.changed = now]
    BY <1>1, <1>2, <2>2 DEF TimeEntry
  <2>4. item.changed <= now /\ item.stop <= item.changed
    BY <1>1, <1>2, <2>1, <2>2 DEF Accepts, TimeEntry, KeeperInv, VersionsCoverTime
  <2>5. item.stop < now
    BY <1>1, <2>2, <2>4 DEF TimeEntry
  <2>6. times' = [times EXCEPT ![item.id] = [item EXCEPT !.stop = now, !.changed = now]]
    BY <1>2, <2>1, <2>3
  <2>7. Extended(item.id)
    BY <1>1, <2>5, <2>6 DEF Extended
  <2>8. \A e \in EntryId : /\ times'[e].state = times[e].state
                           /\ times'[e].owner = times[e].owner
                           /\ times'[e] = NoRow <=> times[e] = NoRow
    BY <1>1, <2>6, NoRowIsNoEntry DEF TimesType, TimeEntry, NoRow
  <2>9. QED
    BY <1>1, <2>7, <2>8
<1>5. QED
  BY <1>3, <1>4

\* A stopped row is off the list of its handler.
LEMMA StopKeepsOpen ==
  ASSUME KeeperInv, CopiesOpen, NEW item \in todo, StopTime(item),
         todo' = todo \ {item}, toNotify = {}, toNotify' = {}
  PROVE  /\ CopiesOpen'
         /\ times' = times \/ (times[item.id].state \in {"running", "paused"}
                               /\ Closed(item.id, {"stopped", "deleted"}))
         /\ item.id \in EntryId
<1>1. /\ item \in TimeEntry /\ item.state = "running" /\ times[item.id] # NoRow
      /\ item.start = times[item.id].start /\ item.stop = times[item.id].stop
      /\ \A c \in todo : c.id \in EntryId
  BY DEF KeeperInv, TypeOK, CopiesMatch, TimeEntry
<1>2. /\ times' = times \/ Closed(item.id, {"stopped", "deleted"})
      /\ \A e \in EntryId : e # item.id => times'[e] = times[e]
      /\ item.id \in EntryId
  BY <1>1, StopEffect DEF KeeperInv, TypeOK
<1>3. \A c \in todo' : times'[c.id] = times[c.id]
  BY <1>1, <1>2 DEF CopiesOpen
<1>4. QED
  BY <1>2, <1>3 DEF CopiesOpen

\* What StopTime does to a row that was read in the same statement.
LEMMA StopRunning ==
  ASSUME TimesType, now \in Nat, NEW item \in ByState("running"), StopTime(item)
  PROVE  /\ item.id \in EntryId /\ times[item.id] = item /\ item.state = "running"
         /\ times' = times \/ Closed(item.id, {"stopped", "deleted"})
         /\ times[item.id].changed <= now =>
              times'[item.id].state \in {"stopped", "deleted"}
         /\ \A e \in EntryId : e # item.id => times'[e] = times[e]
         /\ icon' = (RunningTasks' # {})
<1>1. /\ item \in TimeEntry /\ item.state = "running" /\ times[item.id] = item
      /\ times[item.id] # NoRow
  BY RunningCopies
<1>2. QED
  BY <1>1, StopEffect

(***************************************************************************)
(* Every step of the keeper opens an entry, closes one, extends one or     *)
(* erases short ones, or leaves the table alone.                           *)
(***************************************************************************)
ShortRows ==
  {e \in EntryId : times[e] # NoRow /\ times[e].stop - times[e].start < ShortSpan}

TableStep ==
  \/ times' = times
  \/ \E e \in EntryId, t \in TaskId : Opened(e, t)
  \/ \E e \in EntryId :
       /\ times[e].state \in {"running", "paused"}
       /\ Closed(e, {"stopped", "paused", "deleted"})
  \/ \E e \in EntryId : Extended(e)
  \/ Erased(ShortRows)

LEMMA ClosedIsTableStep ==
  ASSUME NEW e \in EntryId, times[e].state \in {"running", "paused"},
         NEW states \in SUBSET {"stopped", "paused", "deleted"}, Closed(e, states)
  PROVE  TableStep
  BY DEF Closed, TableStep

LEMMA StepOpen ==
  ASSUME KeeperInv, CopiesOpen, [Next]_vars PROVE CopiesOpen' /\ TableStep
<1>types. /\ TypeOK /\ TimesType /\ now \in Nat
          /\ todo \subseteq TimeEntry /\ toNotify \subseteq TimeEntry
  BY DEF KeeperInv, TypeOK
<1>ready. pc \in {"off", "ready"} => todo = {} /\ toNotify = {}
  BY DEF KeeperInv, CopiesMatch, CopiesOpen
<1>running. \A c \in ByState("running") :
              c.id \in EntryId /\ c = times[c.id] /\ c.state = "running"
  BY <1>types, RunningCopies
\* Nothing is written, and what is read is running.
<1>same. ASSUME times' = times, toNotify' \subseteq todo',
                todo' \subseteq todo \/ todo' \subseteq ByState("running")
         PROVE  CopiesOpen' /\ TableStep
  BY <1>same, <1>running DEF CopiesOpen, TableStep
<1>1. CASE TimePasses \/ StepBack \/ UserInput
  BY <1>1, <1>same DEF TimePasses, Advance, StepBack, UserInput, CopiesOpen
<1>2. ASSUME NEW g \in IdleTimes, NEW z \in ZeroTimes, SaveSettings(g, z)
      PROVE  CopiesOpen' /\ TableStep
  BY <1>2, <1>same DEF SaveSettings, CopiesOpen
<1>start. ASSUME NEW t \in TaskId, StartTime(t), UserActs, UNCHANGED <<todo, toNotify>>
          PROVE  CopiesOpen' /\ TableStep
  <2>1. \E e \in EntryId : Opened(e, t)
    BY <1>start DEF StartTime, Create, Opened
  <2>2. QED
    BY <1>start, <1>ready, <2>1 DEF CopiesOpen, TableStep, UserActs
<1>stop. ASSUME NEW item \in ByState("running"), StopTime(item), UserActs,
                UNCHANGED <<todo, toNotify>>
         PROVE  CopiesOpen' /\ TableStep
  <2>1. TableStep
    BY <1>stop, <1>types, StopRunning, ClosedIsTableStep DEF TableStep
  <2>2. QED
    BY <1>stop, <1>ready, <2>1 DEF CopiesOpen, UserActs
<1>3. ASSUME NEW t \in TaskId, Start(t) \/ Toggle(t) \/ Stop(t)
      PROVE  CopiesOpen' /\ TableStep
  BY <1>3, <1>start, <1>stop DEF Start, Toggle, Stop
<1>4. CASE StopAll \/ (\E t \in TaskId : RemoveTask(t))
  BY <1>4, <1>same, <1>ready DEF StopAll, RemoveTask, BeginDrain, UserActs
<1>5. CASE TickBegin
  BY <1>5, <1>same DEF TickBegin, Expired
<1>6. CASE PollActivity
  BY <1>6, <1>same DEF PollActivity, CopiesOpen
<1>7. ASSUME NEW item \in todo \cup toNotify, Drain(item) \/ StopExpired(item)
      PROVE  CopiesOpen' /\ TableStep
  <2>1. /\ item \in todo /\ StopTime(item) /\ todo' = todo \ {item}
        /\ toNotify = {} /\ toNotify' = {}
    BY <1>7 DEF Drain, StopExpired, KeeperInv, CopiesMatch
  <2>2. /\ CopiesOpen' /\ item.id \in EntryId
        /\ times' = times \/ (times[item.id].state \in {"running", "paused"}
                              /\ Closed(item.id, {"stopped", "deleted"}))
    BY <2>1, StopKeepsOpen
  <2>3. QED
    BY <2>2, ClosedIsTableStep DEF TableStep
<1>8. ASSUME NEW item \in todo \cup toNotify, NotifyIdle(item)
      PROVE  CopiesOpen' /\ TableStep
  <2>1. /\ item \in todo /\ todo' = todo /\ toNotify' \subseteq todo
        /\ Update(With(item, "paused", now))
    BY <1>8 DEF NotifyIdle, CopiesOpen
  <2>2. /\ item \in TimeEntry /\ item.state = "running" /\ times[item.id] # NoRow
        /\ item.start = times[item.id].start /\ item.stop = times[item.id].stop
    BY <1>types, <2>1 DEF KeeperInv, CopiesMatch
  <2>3. /\ item.id \in EntryId
        /\ times' = times \/ Closed(item.id, {"paused"})
        /\ times'[item.id].state \in {times[item.id].state, "paused"}
        /\ \A e \in EntryId : e # item.id => times'[e] = times[e]
    BY <1>types, <2>1, <2>2, WithEffect DEF EntryState
  <2>4. \A c \in todo : times'[c.id].state \in {"running", "paused"}
    BY <1>types, <2>1, <2>3 DEF CopiesOpen, TimeEntry
  <2>5. TableStep
    <3>1. times[item.id].state \in {"running", "paused"}
      BY <2>1 DEF CopiesOpen
    <3>2. Closed(item.id, {"paused"}) =>
            Closed(item.id, {"stopped", "paused", "deleted"})
      BY DEF Closed
    <3>3. QED
      BY <2>3, <3>1, <3>2 DEF TableStep
  <2>6. QED
    BY <2>1, <2>4, <2>5 DEF CopiesOpen
<1>9. ASSUME NEW item \in todo \cup toNotify, Extend(item)
      PROVE  CopiesOpen' /\ TableStep
  <2>1. /\ item \in todo /\ todo' \subseteq todo /\ toNotify = {} /\ toNotify' = {}
        /\ \A c \in todo : c.id \in EntryId
    BY <1>9, <1>types DEF Extend, KeeperInv, CopiesMatch, TimeEntry
  <2>2. /\ item.id \in EntryId
        /\ times' = times \/ Extended(item.id)
        /\ \A e \in EntryId : times'[e].state = times[e].state
    BY <1>9, <2>1, ExtendEffect
  <2>3. QED
    BY <2>1, <2>2 DEF CopiesOpen, TableStep
<1>10. CASE Down
  BY <1>10, <1>same DEF Down
<1>11. CASE Launch
  <2>1. Erased(ShortRows)
    BY <1>11 DEF Launch, RemoveShortTimeSpans, Erased, ShortRows
  <2>2. QED
    BY <1>11, <1>ready, <2>1 DEF Launch, CopiesOpen, TableStep
<1>12. CASE UNCHANGED vars
  BY <1>12, <1>same DEF vars, CopiesOpen
<1>13. QED
  BY <1>1, <1>2, <1>3, <1>4, <1>5, <1>6, <1>7, <1>8, <1>9, <1>10, <1>11, <1>12
     DEF Next, UserStep, Tick, HandlerStep

OpenInv == KeeperInv /\ CopiesOpen

LEMMA OpenInvariant == Spec => []OpenInv
<1>1. Init => CopiesOpen
  BY DEF Init, CopiesOpen
<1>2. KeeperInv /\ CopiesOpen /\ [Next]_vars => CopiesOpen'
  BY StepOpen
<1>3. QED
  BY <1>1, <1>2, KeeperInvariant, PTL DEF Spec, OpenInv

-----------------------------------------------------------------------------
(* The refinement *)

\* The sheet of Timesheet, as INSTANCE maps it.
SheetOf ==
  [e \in EntryId |->
     IF times[e] = NoRow THEN [phase |-> "blank"] ELSE Line(times[e])]

LEMMA SheetLine ==
  ASSUME TimesType, NEW e \in EntryId
  PROVE  /\ times[e] = NoRow => SheetOf[e] = [phase |-> "blank"]
         /\ times[e] # NoRow => /\ times[e] \in TimeEntry
                                /\ SheetOf[e] = Line(times[e])
  BY DEF SheetOf, TimesType

\* What a line says of a row.
LEMMA LineOf ==
  ASSUME NEW row \in TimeEntry
  PROVE  /\ Line(row) = [owner |-> row.owner, start |-> row.start, stop |-> row.stop,
                         phase |-> Line(row).phase]
         /\ Line(row).phase = "open" <=> row.state = "running"
         /\ Line(row).phase = "ended" <=> row.state \in {"paused", "stopped"}
         /\ Line(row).phase = "void" <=> row.state = "deleted"
  BY DEF Line, TimeEntry, EntryState

\* A line whose row has another state has another phase, and nothing else.
LEMMA CloseMoves ==
  ASSUME TimesType, now \in Nat, NEW e \in EntryId,
         times[e].state \in {"running", "paused"},
         Closed(e, {"stopped", "paused", "deleted"})
  PROVE  Sheet!Next \/ SheetOf' = SheetOf
<1>1. times[e] # NoRow
  BY DEF NoRow
<1>2. PICK s \in {"stopped", "paused", "deleted"} :
        times' = [times EXCEPT ![e] = [times[e] EXCEPT !.state = s, !.changed = now]]
  BY DEF Closed
<1> DEFINE new == [times[e] EXCEPT !.state = s, !.changed = now]
<1>3. /\ times[e] \in TimeEntry /\ SheetOf[e] = Line(times[e])
      /\ new \in TimeEntry /\ new # NoRow /\ new.state = s
      /\ new.owner = times[e].owner /\ new.start = times[e].start
      /\ new.stop = times[e].stop
  BY <1>1, SheetLine, NoRowIsNoEntry DEF TimeEntry, EntryState
<1>4. times' = [times EXCEPT ![e] = new]
  BY <1>2
<1> HIDE DEF new
<1>5. SheetOf' = [SheetOf EXCEPT ![e] = Line(new)]
  BY <1>3, <1>4 DEF SheetOf, TimesType
<1> DEFINE was == Line(times[e])
<1>6. /\ was = [owner |-> times[e].owner, start |-> times[e].start,
                stop |-> times[e].stop, phase |-> was.phase]
      /\ Line(new) = [owner |-> times[e].owner, start |-> times[e].start,
                      stop |-> times[e].stop, phase |-> Line(new).phase]
      /\ was.phase \in {"open", "ended"} /\ Line(new).phase \in {"ended", "void"}
  BY <1>3, LineOf
<1> DEFINE phase == Line(new).phase
<1>7. phase \in {"ended", "void"} /\ Line(new) = [was EXCEPT !.phase = phase]
  BY <1>6
<1> HIDE DEF was, phase
<1>8. SheetOf' = [SheetOf EXCEPT ![e].phase = phase] /\ SheetOf[e] = was
  BY <1>3, <1>5, <1>7 DEF was
<1>9. CASE phase = "void"
  <2>1. Sheet!Void(e)
    BY <1>6, <1>8, <1>9 DEF Sheet!Void, SheetOf, was
  <2>2. QED
    BY <2>1 DEF Sheet!Next
<1>10. CASE phase = "ended" /\ was.phase = "open"
  <2>1. Sheet!End(e)
    BY <1>8, <1>10 DEF Sheet!End, SheetOf
  <2>2. QED
    BY <2>1 DEF Sheet!Next
<1>11. CASE phase = "ended" /\ was.phase = "ended"
  <2>1. Line(new) = was
    BY <1>6, <1>11 DEF was, phase
  <2>2. SheetOf' = [SheetOf EXCEPT ![e] = SheetOf[e]]
    BY <1>3, <1>5, <2>1 DEF was
  <2>3. QED
    BY <2>2 DEF SheetOf
<1>12. QED
  BY <1>6, <1>7, <1>9, <1>10, <1>11 DEF was

LEMMA OpenMoves ==
  ASSUME TimesType, now \in Nat, NEW e \in EntryId, NEW t \in TaskId, Opened(e, t)
  PROVE  Sheet!Next
<1> DEFINE new == [id |-> e, owner |-> t, start |-> now, stop |-> now,
                   changed |-> now, state |-> "running"]
           line == [owner |-> t, start |-> now, stop |-> now, phase |-> "open"]
<1>1. new # NoRow /\ Line(new) = line
  BY DEF NoRow, Line
<1>2. times' = [times EXCEPT ![e] = new] /\ times[e] = NoRow
  BY DEF Opened
<1>3. SheetOf' = [SheetOf EXCEPT ![e] = Line(new)]
  BY <1>1, <1>2 DEF SheetOf, TimesType
<1>4. SheetOf[e] = [phase |-> "blank"]
  BY <1>2, SheetLine
<1>5. {f \in EntryId : SheetOf[f].phase = "open" /\ SheetOf[f].owner = t} = {}
  <2>1. ASSUME NEW f \in EntryId, SheetOf[f].phase = "open", SheetOf[f].owner = t
        PROVE  FALSE
    <3>1. times[f] # NoRow
      BY <2>1, SheetLine
    <3>2. times[f].state = "running" /\ times[f].owner = t
      BY <2>1, <3>1, SheetLine, LineOf
    <3>3. QED
      BY <3>2 DEF Opened, IsRunning, RunningTasks, ByState
  <2>2. QED
    BY <2>1
<1>6. /\ SheetOf'[e] = line
      /\ SheetOf' = [SheetOf EXCEPT ![e] = line]
  BY <1>1, <1>3 DEF SheetOf
<1>7. /\ SheetOf'[e].phase = "open" /\ SheetOf'[e].start = now
      /\ SheetOf' = [SheetOf EXCEPT ![e] =
                       [owner |-> t, start |-> SheetOf'[e].start,
                        stop |-> SheetOf'[e].start, phase |-> "open"]]
  BY <1>6
<1>8. Sheet!Open(e, t)
  BY <1>4, <1>5, <1>7 DEF Sheet!Open, Sheet!OpenLines, Sheet!Blank, SheetOf
<1>9. QED
  BY <1>8 DEF Sheet!Next

LEMMA ExtendMoves ==
  ASSUME TimesType, now \in Nat, NEW e \in EntryId, Extended(e)
  PROVE  Sheet!Next
<1> DEFINE new == [times[e] EXCEPT !.stop = now, !.changed = now]
<1>1. times[e] # NoRow
  BY DEF Extended, NoRow
<1>2. /\ times[e] \in TimeEntry /\ SheetOf[e] = Line(times[e])
      /\ new \in TimeEntry /\ new # NoRow /\ new.state = "running" /\ new.stop = now
      /\ new.owner = times[e].owner /\ new.start = times[e].start
  BY <1>1, SheetLine, NoRowIsNoEntry DEF Extended, TimeEntry
<1>3. times' = [times EXCEPT ![e] = new] /\ times[e].stop < now
  BY DEF Extended
<1> HIDE DEF new
<1>4. SheetOf' = [SheetOf EXCEPT ![e] = Line(new)]
  BY <1>2, <1>3 DEF SheetOf, TimesType
<1>5. /\ SheetOf[e] = [owner |-> times[e].owner, start |-> times[e].start,
                       stop |-> times[e].stop, phase |-> "open"]
      /\ Line(new) = [owner |-> times[e].owner, start |-> times[e].start,
                      stop |-> now, phase |-> "open"]
  BY <1>2, LineOf DEF Extended
<1>6. /\ SheetOf'[e] = Line(new)
      /\ SheetOf' = [SheetOf EXCEPT ![e].stop = now]
  <2>1. Line(new) = [SheetOf[e] EXCEPT !.stop = now]
    BY <1>5
  <2>2. QED
    BY <1>4, <2>1 DEF SheetOf
<1>7. /\ SheetOf[e].phase = "open" /\ SheetOf'[e].phase = "open"
      /\ SheetOf'[e].stop = now /\ now > SheetOf[e].stop
  BY <1>2, <1>3, <1>5, <1>6 DEF TimeEntry
<1>8. Sheet!Grow(e)
  BY <1>6, <1>7 DEF Sheet!Grow, SheetOf
<1>9. QED
  BY <1>8 DEF Sheet!Next

LEMMA EraseMoves ==
  ASSUME TimesType, Erased(ShortRows)
  PROVE  Sheet!Next
<1> DEFINE lines == ShortRows
<1>1. SheetOf' = [e \in EntryId |-> IF e \in lines THEN [phase |-> "blank"] ELSE SheetOf[e]]
  BY DEF Erased, SheetOf, ShortRows
<1>2. Sheet!Erase(lines)
  BY <1>1 DEF Sheet!Erase, Sheet!Blank, SheetOf
<1>3. ASSUME NEW e \in lines PROVE e \in Sheet!Short
  <2>1. /\ e \in EntryId /\ times[e] # NoRow
        /\ times[e].stop - times[e].start < ShortSpan
    BY <1>3 DEF ShortRows
  <2>2. times[e] \in TimeEntry /\ SheetOf[e] = Line(times[e])
    BY <2>1, SheetLine
  <2>3. SheetOf[e] = [owner |-> times[e].owner, start |-> times[e].start,
                      stop |-> times[e].stop, phase |-> Line(times[e]).phase]
    BY <2>2, LineOf
  <2>4. SheetOf[e].start = times[e].start /\ SheetOf[e].stop = times[e].stop
    BY <2>3
  <2>5. SheetOf[e].phase \in {"open", "ended", "void"}
    BY <2>2, LineOf DEF TimeEntry, EntryState
  <2>6. QED
    BY <2>1, <2>4, <2>5 DEF Sheet!Short, Sheet!Blank, SheetOf
<1>4. lines \in SUBSET Sheet!Short
  BY <1>3
<1>5. QED
  BY <1>2, <1>4 DEF Sheet!Next, Sheet!Erase

(***************************************************************************)
(* The keeper implements the timesheet: whatever its handlers, crashes and *)
(* a clock that is set back do to the rows of time_accessor, a task has    *)
(* one open line at most, an open line only grows, an ended one keeps its  *)
(* time, no line is opened twice, and only short ones vanish.              *)
(***************************************************************************)
THEOREM KeeperImplementsTimesheet == Spec => ImplementsTimesheet
<1>1. Init => Sheet!Init
  BY DEF Init, Sheet!Init, Sheet!Blank
<1>2. OpenInv /\ [Next]_vars => Sheet!Next \/ SheetOf' = SheetOf
  <2> SUFFICES ASSUME OpenInv, [Next]_vars PROVE Sheet!Next \/ SheetOf' = SheetOf
    OBVIOUS
  <2>1. TimesType /\ now \in Nat /\ TableStep
    BY StepOpen DEF OpenInv, KeeperInv, TypeOK
  <2>2. CASE times' = times
    BY <2>2 DEF SheetOf
  <2>3. QED
    BY <2>1, <2>2, OpenMoves, CloseMoves, ExtendMoves, EraseMoves DEF TableStep
<1>3. OpenInv /\ [Next]_vars => [Sheet!Next]_SheetOf
  BY <1>2
<1>4. Spec => Sheet!Spec
  BY <1>1, <1>3, OpenInvariant, PTL DEF Spec, Sheet!Spec, SheetOf
<1>5. QED
  BY <1>4 DEF ImplementsTimesheet

-----------------------------------------------------------------------------
(* Recorded time is backed by input *)

\* The time without input does not grow faster than the clock.
LEMMA InputKeepsUp ==
  ASSUME KeeperInv, ~ StepBack, [Next]_vars
  PROVE  /\ now' \in Nat /\ sinceInput' \in Nat /\ now' >= now
         /\ sinceInput' + now <= now' + sinceInput
<1>1. now \in Nat /\ sinceInput \in Nat
  BY DEF KeeperInv, TypeOK
<1>2. CASE TimePasses
  <2>1. PICK d \in ClockSteps : Advance(d)
    BY <1>2 DEF TimePasses
  <2>2. d \in Nat /\ MaxTime \in Nat
    BY KeeperAssumption
  <2>3. QED
    BY <1>1, <2>1, <2>2 DEF Advance
<1>3. CASE UserStep
  <2>1. now' = now /\ sinceInput' = 0
    BY <1>3 DEF UserStep, UserInput, SaveSettings, Start, Stop, Toggle, RemoveTask,
       StopAll, UserActs
  <2>2. QED
    BY <1>1, <2>1
<1>4. CASE Tick \/ Down \/ Launch \/ UNCHANGED vars
  <2>1. UNCHANGED envVars
    BY <1>4 DEF Tick, TickBegin, PollActivity, HandlerStep, Drain, NotifyIdle,
       StopExpired, Extend, Down, Launch, vars
  <2>2. QED
    BY <1>1, <2>1 DEF envVars
<1>5. QED
  BY <1>2, <1>3, <1>4 DEF Next

\* The handler extends only while the user is active.
InputBacks ==
  \A e \in EntryId :
    times[e] # NoRow => times[e].stop + sinceInput <= now + ActiveLimit

Backed ==
  /\ InputBacks
  /\ pc = "extend" => sinceInput < ActiveLimit

\* The bound moves with the clock at least as fast as the time without input.
LEMMA LimitMoves ==
  ASSUME NEW reached \in Nat, NEW quiet \in Nat, NEW quiet2 \in Nat,
         NEW at \in Nat, NEW at2 \in Nat, NEW limit \in Nat,
         reached + quiet <= at + limit, quiet2 + at <= at2 + quiet
  PROVE  reached + quiet2 <= at2 + limit
OBVIOUS

LEMMA StepBacked ==
  ASSUME OpenInv, Backed, [Next]_vars, ~ StepBack
  PROVE  Backed'
<1> USE DEF OpenInv
<1>types. /\ TypeOK /\ TimesType /\ now \in Nat /\ sinceInput \in Nat
          /\ todo \subseteq TimeEntry /\ toNotify \subseteq TimeEntry
          /\ ActiveLimit \in Nat
          /\ \A e \in EntryId : times[e] # NoRow => times[e].stop \in Nat
  BY KeeperAssumption DEF KeeperInv, TypeOK, TimesType, TimeEntry
<1>clock. /\ now' \in Nat /\ sinceInput' \in Nat /\ now' >= now
          /\ sinceInput' + now <= now' + sinceInput
  BY InputKeepsUp
\* No entry is longer than it was.
<1>same. ASSUME pc' # "extend",
                \A e \in EntryId : times'[e] # NoRow =>
                  times[e] # NoRow /\ times'[e].stop = times[e].stop
         PROVE  Backed'
  <2>1. ASSUME NEW e \in EntryId, times'[e] # NoRow
        PROVE  times'[e].stop + sinceInput' <= now' + ActiveLimit
    <3>1. times'[e].stop = times[e].stop /\ times[e].stop \in Nat
      BY <1>same, <1>types, <2>1
    <3>2. times[e].stop + sinceInput <= now + ActiveLimit
      BY <1>same, <2>1 DEF Backed, InputBacks
    <3>3. QED
      BY <1>types, <1>clock, <3>1, <3>2, LimitMoves
  <2>2. QED
    BY <1>same, <2>1 DEF Backed, InputBacks
<1>closed. ASSUME NEW e \in EntryId, NEW states, Closed(e, states), pc' # "extend"
           PROVE  Backed'
  <2>1. times[e] # NoRow /\ times[e] \in TimeEntry
    BY <1>closed, <1>types DEF Closed, TimesType
  <2>2. \A f \in EntryId : times'[f] # NoRow =>
          times[f] # NoRow /\ times'[f].stop = times[f].stop
    BY <1>closed, <1>types, <2>1 DEF Closed, TimesType, TimeEntry
  <2>3. QED
    BY <1>closed, <1>same, <2>2
<1>1. CASE TimePasses \/ StepBack \/ UserInput \/ TickBegin \/ Down
  BY <1>1, <1>same DEF TimePasses, Advance, StepBack, UserInput, UserActs, TickBegin, Down
<1>2. ASSUME NEW g \in IdleTimes, NEW z \in ZeroTimes, SaveSettings(g, z)
      PROVE  Backed'
  BY <1>2, <1>same DEF SaveSettings, UserActs
<1>start. ASSUME NEW t \in TaskId, StartTime(t), UserActs, now' = now, pc' = pc
          PROVE  Backed'
  <2>1. PICK e \in EntryId :
          times' = [times EXCEPT ![e] =
                      [id |-> e, owner |-> t, start |-> now, stop |-> now,
                       changed |-> now, state |-> "running"]]
    BY <1>start DEF StartTime, Create
  <2>2. \A f \in EntryId : times'[f] = times[f] \/ times'[f].stop = now
    BY <1>types, <2>1 DEF TimesType
  <2>3. QED
    BY <1>start, <1>types, <1>clock, <2>2 DEF Backed, InputBacks, UserActs
<1>stop. ASSUME NEW item \in ByState("running"), StopTime(item), pc' # "extend"
         PROVE  Backed'
  <2>1. /\ item.id \in EntryId
        /\ times' = times \/ Closed(item.id, {"stopped", "deleted"})
    BY <1>stop, <1>types, StopRunning
  <2>2. QED
    BY <1>stop, <1>same, <1>closed, <2>1
<1>3. ASSUME NEW t \in TaskId, Start(t) \/ Toggle(t) \/ Stop(t)
      PROVE  Backed'
  BY <1>3, <1>start, <1>stop DEF Start, Toggle, Stop, UserActs
<1>4. CASE StopAll \/ (\E t \in TaskId : RemoveTask(t))
  BY <1>4, <1>same DEF StopAll, RemoveTask, BeginDrain
<1>5. CASE PollActivity
  BY <1>5, <1>types, <1>clock DEF PollActivity, UserIsActive, Backed, InputBacks, envVars
<1>6. ASSUME NEW item \in todo \cup toNotify, Drain(item) \/ StopExpired(item)
      PROVE  Backed'
  <2>1. /\ item \in todo /\ StopTime(item) /\ todo' = todo \ {item}
        /\ toNotify = {} /\ toNotify' = {} /\ pc' # "extend"
    BY <1>6 DEF Drain, StopExpired, KeeperInv, CopiesMatch
  <2>2. /\ item.id \in EntryId
        /\ times' = times \/ Closed(item.id, {"stopped", "deleted"})
    BY <2>1, StopKeepsOpen
  <2>3. QED
    BY <1>same, <1>closed, <2>1, <2>2
<1>7. ASSUME NEW item \in todo \cup toNotify, NotifyIdle(item)
      PROVE  Backed'
  <2>1. /\ item \in TimeEntry /\ item.state = "running" /\ times[item.id] # NoRow
        /\ item.start = times[item.id].start /\ item.stop = times[item.id].stop
    BY <1>types DEF KeeperInv, CopiesMatch
  <2>2. pc' # "extend" /\ Update(With(item, "paused", now))
    BY <1>7 DEF NotifyIdle
  <2>3. /\ item.id \in EntryId
        /\ times' = times \/ Closed(item.id, {"paused"})
    BY <1>types, <2>1, <2>2, WithEffect DEF EntryState
  <2>4. QED
    BY <1>same, <1>closed, <2>2, <2>3
<1>8. ASSUME NEW item \in todo \cup toNotify, Extend(item)
      PROVE  Backed'
  <2>1. /\ item \in todo /\ pc = "extend" /\ now' = now /\ sinceInput' = sinceInput
    BY <1>8 DEF Extend, envVars
  <2>2. item.id \in EntryId /\ (times' = times \/ Extended(item.id))
    BY <1>8, <2>1, ExtendEffect
  <2>3. \A e \in EntryId : times'[e] # NoRow =>
          (times[e] # NoRow /\ times'[e] = times[e]) \/ times'[e].stop = now
    BY <1>types, <2>2, ExtendedRow
  <2>4. QED
    BY <1>types, <2>1, <2>3 DEF Backed, InputBacks
<1>9. CASE Launch
  <2>1. \A e \in EntryId : times'[e] # NoRow => times'[e] = times[e]
    BY <1>9 DEF Launch, RemoveShortTimeSpans
  <2>2. QED
    BY <1>9, <1>same, <2>1 DEF Launch
<1>10. CASE UNCHANGED vars
  BY <1>10 DEF vars, envVars, Backed, InputBacks
<1>11. QED
  BY <1>1, <1>2, <1>3, <1>4, <1>5, <1>6, <1>7, <1>8, <1>9, <1>10
     DEF Next, UserStep, Tick, HandlerStep

(***************************************************************************)
(* As long as the clock has not been set back, no entry reaches further    *)
(* than ActiveLimit after the last input of the user: user_is_active       *)
(* guards update_running_entries, and nothing else moves a stop.           *)
(***************************************************************************)
THEOREM TimeIsBackedByInput == Spec => []TimeBackedByInput
<1> DEFINE Inv == NeverSetBack => Backed
<1>1. Init => Inv
  BY DEF Init, Backed, InputBacks
<1>2. OpenInv /\ Inv /\ [Next]_vars => Inv'
  BY StepBacked, NeverBefore DEF OpenInv
<1>3. Inv => TimeBackedByInput
  BY DEF Backed, InputBacks, TimeBackedByInput
<1> HIDE DEF Inv
<1>4. QED
  BY <1>1, <1>2, <1>3, OpenInvariant, PTL DEF Spec

-----------------------------------------------------------------------------
(* Between two handlers *)

(***************************************************************************)
(* The icon may be wrong only while rows are still to be stopped: pausing  *)
(* the last running entry is not announced when old_running is empty since *)
(* the launch, but the stop that follows announces itself.                 *)
(***************************************************************************)
IconInv ==
  pc = "off" \/ icon = (RunningTasks # {}) \/ (pc = "check" /\ todo # {})

LEMMA SameRunning ==
  ASSUME \A e \in EntryId : times'[e].state = times[e].state /\ times'[e].owner = times[e].owner
  PROVE  RunningTasks' = RunningTasks
<1>1. RunningTasks = {times[e].owner : e \in {f \in EntryId : times[f].state = "running"}}
  BY DEF RunningTasks, ByState
<1>2. RunningTasks' = {times'[e].owner : e \in {f \in EntryId : times'[f].state = "running"}}
  BY DEF RunningTasks, ByState
<1>3. QED
  BY <1>1, <1>2

LEMMA StepIconInv == OpenInv /\ IconInv /\ [Next]_vars => IconInv'
<1> SUFFICES ASSUME OpenInv, IconInv, [Next]_vars PROVE IconInv'
  OBVIOUS
<1> USE DEF OpenInv
<1>same. ASSUME times' = times, icon' = icon, pc # "off", pc = "check" => todo = {}
         PROVE  IconInv'
  <2>1. RunningTasks' = RunningTasks
    BY <1>same, SameRunning
  <2>2. QED
    BY <1>same, <2>1 DEF IconInv
<1>told. ASSUME icon' = (RunningTasks' # {}) PROVE IconInv'
  BY <1>told DEF IconInv
<1>1. CASE TimePasses
  <2>1. pc' = pc /\ pc # "check" /\ times' = times /\ icon' = icon
    BY <1>1 DEF TimePasses, Advance, viewVars
  <2>2. QED
    BY <1>same, <2>1 DEF IconInv
<1>2. CASE StepBack \/ UserInput \/ (\E g \in IdleTimes, z \in ZeroTimes : SaveSettings(g, z))
  BY <1>2, <1>same DEF StepBack, UserInput, SaveSettings, UserActs, viewVars
<1>3. CASE StopAll \/ (\E t \in TaskId : RemoveTask(t))
  BY <1>3, <1>same DEF StopAll, RemoveTask, UserActs, viewVars
<1>4. CASE TickBegin
  BY <1>4, <1>same DEF TickBegin, viewVars
<1>5. CASE PollActivity
  BY <1>5, <1>same DEF PollActivity, viewVars
<1>6. ASSUME NEW t \in TaskId, Start(t) \/ Toggle(t) \/ Stop(t)
      PROVE  IconInv'
  BY <1>6, <1>told DEF Start, Toggle, Stop, StartTime, StopTime, Observe
<1>7. ASSUME NEW item \in todo \cup toNotify, Drain(item) \/ StopExpired(item)
      PROVE  IconInv'
  BY <1>7, <1>told DEF Drain, StopExpired, StopTime, Observe
<1>8. ASSUME NEW item \in todo \cup toNotify, NotifyIdle(item)
      PROVE  IconInv'
  BY <1>8 DEF NotifyIdle, CopiesOpen, IconInv
<1>9. ASSUME NEW item \in todo \cup toNotify, Extend(item)
      PROVE  IconInv'
  <2>1. item \in todo /\ pc = "extend" /\ icon' \in {icon, RunningTasks' # {}}
    BY <1>9 DEF Extend, Observe
  <2>2. RunningTasks' = RunningTasks
    BY <1>9, <2>1, ExtendEffect, SameRunning
  <2>3. QED
    BY <2>1, <2>2 DEF IconInv
<1>10. CASE Down \/ Launch
  BY <1>10 DEF Down, Launch, IconInv
<1>11. CASE UNCHANGED vars
  <2>1. times' = times /\ icon' = icon /\ pc' = pc /\ todo' = todo
    BY <1>11 DEF vars, viewVars
  <2>2. RunningTasks' = RunningTasks
    BY <2>1, SameRunning
  <2>3. QED
    BY <2>1, <2>2 DEF IconInv
<1>12. QED
  BY <1>1, <1>2, <1>3, <1>4, <1>5, <1>6, <1>7, <1>8, <1>9, <1>10, <1>11
     DEF Next, UserStep, Tick, HandlerStep

(***************************************************************************)
(* Between two handlers the status icon is green exactly when a timer      *)
(* runs, although old_running is empty after a launch (time_keeper.cpp).   *)
(***************************************************************************)
THEOREM IconIsRight == Spec => []IconTellsTruth
<1>1. Init => IconInv
  BY DEF Init, IconInv
<1>2. OpenInv /\ IconInv /\ [Next]_vars => IconInv'
  BY StepIconInv
<1>3. IconInv => IconTellsTruth
  BY DEF IconInv, IconTellsTruth
<1>4. QED
  BY <1>1, <1>2, <1>3, OpenInvariant, PTL DEF Spec

\* While nobody dies, a paused row is about to be stopped, and nothing about
\* its version prevents it.
PausedInv ==
  \A e \in EntryId : times[e].state = "paused" =>
    pc = "check" /\ times[e].changed = now /\ \E c \in todo : c.id = e

LEMMA StepPausedInv ==
  ASSUME ~ MayCrash
  PROVE  OpenInv /\ PausedInv /\ [Next]_vars => PausedInv'
<1> SUFFICES ASSUME OpenInv, PausedInv, [Next]_vars PROVE PausedInv'
  OBVIOUS
<1> USE DEF OpenInv
<1>types. /\ TypeOK /\ TimesType /\ now \in Nat
          /\ todo \subseteq TimeEntry /\ toNotify \subseteq TimeEntry
  BY DEF KeeperInv, TypeOK
\* No row is paused before the step, and the step pauses none.
<1>same. ASSUME pc # "check", \A e \in EntryId :
                  times'[e].state = "paused" => times[e].state = "paused"
         PROVE  PausedInv'
  BY <1>same DEF PausedInv
<1>1. CASE TimePasses \/ StepBack \/ UserInput \/ TickBegin \/ StopAll
           \/ (\E g \in IdleTimes, z \in ZeroTimes : SaveSettings(g, z))
           \/ (\E t \in TaskId : RemoveTask(t))
  BY <1>1, <1>same DEF TimePasses, Advance, StepBack, UserInput, TickBegin, SaveSettings,
     StopAll, RemoveTask, UserActs
<1>start. ASSUME NEW t \in TaskId, StartTime(t), pc = "ready" PROVE PausedInv'
  <2>1. PICK e \in EntryId :
          times' = [times EXCEPT ![e] =
                      [id |-> e, owner |-> t, start |-> now, stop |-> now,
                       changed |-> now, state |-> "running"]]
    BY <1>start DEF StartTime, Create
  <2>2. \A f \in EntryId : times'[f] = times[f] \/ times'[f].state = "running"
    BY <1>types, <2>1 DEF TimesType
  <2>3. QED
    BY <1>start, <1>same, <2>2
<1>stop. ASSUME NEW item \in ByState("running"), StopTime(item), pc = "ready"
         PROVE  PausedInv'
  <2>1. /\ item.id \in EntryId /\ times[item.id] = item /\ item \in TimeEntry
        /\ item.state = "running" /\ times[item.id] # NoRow
    BY <1>types, RunningCopies
  <2>2. /\ times'[item.id].state \in {times[item.id].state, "stopped", "deleted"}
        /\ \A e \in EntryId : e # item.id => times'[e] = times[e]
    BY <1>stop, <1>types, <2>1, StopEffect
  <2>3. QED
    BY <1>stop, <1>same, <2>1, <2>2
<1>2. ASSUME NEW t \in TaskId, Start(t) \/ Toggle(t) \/ Stop(t)
      PROVE  PausedInv'
  BY <1>2, <1>start, <1>stop DEF Start, Toggle, Stop, UserActs
<1>3. CASE PollActivity
  BY <1>3 DEF PollActivity, PausedInv
<1>4. ASSUME NEW item \in todo \cup toNotify, Drain(item) \/ StopExpired(item)
      PROVE  PausedInv'
  <2>1. /\ item \in todo /\ StopTime(item) /\ todo' = todo \ {item} /\ now' = now
    BY <1>4 DEF Drain, StopExpired, KeeperInv, CopiesMatch, envVars
  <2>2. /\ item \in TimeEntry /\ item.state = "running" /\ times[item.id] # NoRow
        /\ item.start = times[item.id].start /\ item.stop = times[item.id].stop
    BY <1>types, <2>1 DEF KeeperInv, CopiesMatch
  <2>3. /\ item.id \in EntryId
        /\ times[item.id].changed <= now =>
             times'[item.id].state \in {"stopped", "deleted"}
        /\ times'[item.id].state \in {times[item.id].state, "stopped", "deleted"}
        /\ \A e \in EntryId : e # item.id => times'[e] = times[e]
    BY <1>types, <2>1, <2>2, StopEffect
  <2>4. times'[item.id].state # "paused"
    BY <1>types, <2>3 DEF PausedInv
  <2>5. ASSUME NEW e \in EntryId, times'[e].state = "paused"
        PROVE  pc' = "check" /\ times'[e].changed = now' /\ \E c \in todo' : c.id = e
    <3>1. e # item.id /\ times'[e] = times[e]
      BY <2>3, <2>4, <2>5
    <3>2. pc = "check" /\ times[e].changed = now /\ \E c \in todo : c.id = e
      BY <2>5, <3>1 DEF PausedInv
    <3>3. pc' = "check"
      BY <1>4, <3>2 DEF Drain, StopExpired
    <3>4. QED
      BY <2>1, <3>1, <3>2, <3>3
  <2>6. QED
    BY <2>5 DEF PausedInv
<1>5. ASSUME NEW item \in todo \cup toNotify, NotifyIdle(item)
      PROVE  PausedInv'
  <2>1. /\ item \in todo /\ Update(With(item, "paused", now)) /\ pc = "check"
        /\ UNCHANGED <<pc, todo, now>>
    BY <1>5 DEF NotifyIdle, CopiesOpen, envVars
  <2>2. /\ item \in TimeEntry /\ item.state = "running" /\ times[item.id] # NoRow
        /\ item.start = times[item.id].start /\ item.stop = times[item.id].stop
        /\ item.id \in EntryId
    BY <1>types, <2>1 DEF KeeperInv, CopiesMatch, TimeEntry
  <2>3. /\ times' = times \/ Closed(item.id, {"paused"})
        /\ \A e \in EntryId : e # item.id => times'[e] = times[e]
    BY <1>types, <2>1, <2>2, WithEffect DEF EntryState
  <2>4. times' = times \/ times'[item.id].changed = now
    BY <1>types, <2>2, <2>3, ClosedRow
  <2>5. QED
    BY <2>1, <2>2, <2>3, <2>4 DEF PausedInv
<1>6. ASSUME NEW item \in todo \cup toNotify, Extend(item)
      PROVE  PausedInv'
  <2>1. item \in todo /\ pc = "extend"
    BY <1>6 DEF Extend
  <2>2. QED
    BY <1>6, <1>same, <2>1, ExtendEffect
<1>7. CASE Down
  BY <1>7, <1>same DEF Down
<1>8. CASE Launch
  <2>1. \A e \in EntryId : times'[e] \in {NoRow, times[e]}
    BY <1>8 DEF Launch, RemoveShortTimeSpans
  <2>2. QED
    BY <1>8, <1>same, <2>1 DEF Launch, NoRow
<1>9. CASE UNCHANGED vars
  BY <1>9 DEF vars, envVars, PausedInv
<1>10. QED
  BY <1>1, <1>2, <1>3, <1>4, <1>5, <1>6, <1>7, <1>8, <1>9
     DEF Next, UserStep, Tick, HandlerStep

(***************************************************************************)
(* The ten second handler leaves no entry in the state paused that         *)
(* gui_controller::on_idle_detected gave it, unless the process dies in    *)
(* between; a clock that is set back does no harm.                         *)
(***************************************************************************)
THEOREM NothingStaysPaused == ~ MayCrash /\ Spec => []NoPausedAtRest
<1> SUFFICES ASSUME ~ MayCrash PROVE Spec => []NoPausedAtRest
  OBVIOUS
<1>1. Init => PausedInv
  BY DEF Init, PausedInv, NoRow
<1>2. OpenInv /\ PausedInv /\ [Next]_vars => PausedInv'
  BY StepPausedInv
<1>3. PausedInv => NoPausedAtRest
  BY DEF PausedInv, NoPausedAtRest, ByState
<1>4. QED
  BY <1>1, <1>2, <1>3, OpenInvariant, PTL DEF Spec

\* A running row of a removed task is on the list of the handler that stops
\* it, and no row is newer than the clock, so the stop is not refused.
NoneFromFuture == \A e \in EntryId : times[e] # NoRow => times[e].changed <= now

Stopping(tasks) ==
  \A e \in EntryId : times[e].state = "running" /\ times[e].owner \in tasks =>
    pc = "drain" /\ times[e] \in todo

RemovedInv == NoneFromFuture /\ Stopping(removed)

\* The same for any part of the tasks, as long as the process is not left
\* while the handler runs.
LEMMA StepStopping ==
  ASSUME NEW tasks, OpenInv, NoneFromFuture, Stopping(removed \cap tasks),
         [Next]_vars, ~ StepBack, Down => pc # "drain"
  PROVE  /\ NoneFromFuture'
         /\ \A e \in EntryId :
              times'[e].state = "running" /\ times'[e].owner \in removed' \cap tasks =>
                pc' = "drain" /\ times'[e] \in todo'
<1> DEFINE Rest == \A e \in EntryId :
              times'[e].state = "running" /\ times'[e].owner \in removed' \cap tasks =>
                pc' = "drain" /\ times'[e] \in todo'
           Goal == NoneFromFuture' /\ Rest
<1> SUFFICES Goal
  OBVIOUS
<1> USE DEF OpenInv
<1>types. /\ TypeOK /\ TimesType /\ now \in Nat
          /\ todo \subseteq TimeEntry /\ toNotify \subseteq TimeEntry
          /\ \A e \in EntryId : times[e] # NoRow =>
               times[e] \in TimeEntry /\ times[e].changed \in Nat
  BY DEF KeeperInv, TypeOK, TimesType, TimeEntry
<1>clock. now' \in Nat /\ now' >= now
  BY InputKeepsUp
\* Rows stay as they are, get the stamp of this moment, or go.
<1>stamps. ASSUME \A e \in EntryId : times'[e] # NoRow =>
                    (times[e] # NoRow /\ times'[e] = times[e]) \/ times'[e].changed = now
           PROVE  NoneFromFuture'
  <2>1. ASSUME NEW e \in EntryId, times'[e] # NoRow PROVE times'[e].changed <= now'
    <3>1. CASE times[e] # NoRow /\ times'[e] = times[e]
      BY <1>types, <1>clock, <3>1 DEF NoneFromFuture
    <3>2. CASE times'[e].changed = now
      BY <1>types, <1>clock, <3>2
    <3>3. QED
      BY <1>stamps, <2>1, <3>1, <3>2
  <2>2. QED
    BY <2>1 DEF NoneFromFuture
<1>same. ASSUME pc # "drain", removed' = removed,
                \A e \in EntryId : times'[e] # NoRow =>
                  (times[e] # NoRow /\ times'[e] = times[e]) \/ times'[e].changed = now,
                \A e \in EntryId : times'[e].state = "running" =>
                  \/ times[e].state = "running" /\ times'[e].owner = times[e].owner
                  \/ times'[e].owner \notin removed \cap tasks
         PROVE  Goal
  BY <1>same, <1>stamps DEF Stopping
<1>1. CASE TimePasses \/ UserInput \/ TickBegin \/ PollActivity \/ Down
           \/ (\E g \in IdleTimes, z \in ZeroTimes : SaveSettings(g, z))
  BY <1>1, <1>same DEF TimePasses, Advance, UserInput, TickBegin, PollActivity, Down,
     SaveSettings, UserActs
<1>2. CASE StopAll
  BY <1>2, <1>same DEF StopAll, UserActs
<1>3. ASSUME NEW t \in TaskId, RemoveTask(t) PROVE Goal
  <2> DEFINE items == {item \in ByState("running") : item.owner = t}
  <2>1. /\ pc = "ready" /\ times' = times /\ todo' = items /\ removed' = removed \cup {t}
        /\ pc' = IF items = {} THEN "ready" ELSE "drain"
    BY <1>3 DEF RemoveTask, UserActs, BeginDrain
  <2>2. ASSUME NEW e \in EntryId, times[e].state = "running", times[e].owner \in removed' \cap tasks
        PROVE  pc' = "drain" /\ times[e] \in todo'
    <3>1. times[e].owner = t
      BY <2>1, <2>2 DEF Stopping
    <3>2. times[e] \in items
      BY <1>types, <2>2, <3>1, RunningCopies
    <3>3. QED
      BY <2>1, <3>2
  <2>3. QED
    BY <1>stamps, <2>1, <2>2 DEF Stopping
<1>start. ASSUME NEW t \in TaskId \ removed, StartTime(t), pc = "ready",
                 removed' = removed
          PROVE  Goal
  <2>1. PICK e \in EntryId :
          times' = [times EXCEPT ![e] =
                      [id |-> e, owner |-> t, start |-> now, stop |-> now,
                       changed |-> now, state |-> "running"]]
    BY <1>start DEF StartTime, Create
  <2>2. \A f \in EntryId : times'[f] = times[f]
                           \/ (times'[f].owner = t /\ times'[f].changed = now)
    BY <1>types, <2>1 DEF TimesType
  <2>3. QED
    BY <1>start, <1>same, <2>2
\* A row the handler closes is written, for it is not from the future.
<1>closes. ASSUME NEW item \in TimeEntry, StopTime(item), item.state = "running",
                  times[item.id] # NoRow,
                  item.start = times[item.id].start, item.stop = times[item.id].stop
           PROVE  /\ item.id \in EntryId
                  /\ times'[item.id].state \in {"stopped", "deleted"}
                  /\ \A e \in EntryId : e # item.id => times'[e] = times[e]
                  /\ \A e \in EntryId : times'[e] # NoRow =>
                       (times[e] # NoRow /\ times'[e] = times[e]) \/ times'[e].changed = now
  <2>1. /\ item.id \in EntryId
        /\ times' = times \/ Closed(item.id, {"stopped", "deleted"})
        /\ times[item.id].changed <= now =>
             times'[item.id].state \in {"stopped", "deleted"}
        /\ \A e \in EntryId : e # item.id => times'[e] = times[e]
    BY <1>closes, <1>types, StopEffect
  <2>2. times[item.id].changed <= now
    BY <1>closes, <2>1 DEF NoneFromFuture
  <2>3. times' = times \/ times'[item.id].changed = now
    BY <1>types, <2>1, ClosedRow
  <2>4. QED
    BY <1>closes, <2>1, <2>2, <2>3
<1>stop. ASSUME NEW item \in ByState("running"), StopTime(item), pc = "ready",
                removed' = removed
         PROVE  Goal
  <2>1. /\ item.id \in EntryId /\ times[item.id] = item /\ item \in TimeEntry
        /\ item.state = "running" /\ times[item.id] # NoRow
    BY <1>types, RunningCopies
  <2>2. /\ times'[item.id].state \in {"stopped", "deleted"}
        /\ \A e \in EntryId : e # item.id => times'[e] = times[e]
        /\ \A e \in EntryId : times'[e] # NoRow =>
             (times[e] # NoRow /\ times'[e] = times[e]) \/ times'[e].changed = now
    BY <1>stop, <1>closes, <2>1
  <2>3. QED
    BY <1>stop, <1>same, <2>2
<1>4. ASSUME NEW t \in TaskId, Stop(t) \/ (t \notin removed /\ (Start(t) \/ Toggle(t)))
      PROVE  Goal
  BY <1>4, <1>start, <1>stop DEF Start, Toggle, Stop, UserActs
<1>5. ASSUME NEW item \in todo \cup toNotify, Drain(item) \/ StopExpired(item)
      PROVE  Goal
  <2>1. /\ item \in todo /\ StopTime(item) /\ todo' = todo \ {item} /\ removed' = removed
    BY <1>5 DEF Drain, StopExpired, KeeperInv, CopiesMatch
  <2>2. /\ item \in TimeEntry /\ item.state = "running" /\ times[item.id] # NoRow
        /\ item.start = times[item.id].start /\ item.stop = times[item.id].stop
    BY <1>types, <2>1 DEF KeeperInv, CopiesMatch
  <2>3. /\ item.id \in EntryId
        /\ times'[item.id].state \in {"stopped", "deleted"}
        /\ \A e \in EntryId : e # item.id => times'[e] = times[e]
        /\ \A e \in EntryId : times'[e] # NoRow =>
             (times[e] # NoRow /\ times'[e] = times[e]) \/ times'[e].changed = now
    BY <1>closes, <2>1, <2>2
  <2>4. CASE StopExpired(item)
    <3>1. pc # "drain"
      BY <2>4 DEF StopExpired
    <3>2. QED
      BY <1>same, <2>1, <2>3, <3>1
  <2>5. CASE Drain(item)
    <3>1. ASSUME NEW e \in EntryId, times'[e].state = "running",
                 times'[e].owner \in removed' \cap tasks
          PROVE  pc' = "drain" /\ times'[e] \in todo'
      <4>1. e # item.id /\ times'[e] = times[e]
        BY <2>3, <3>1
      <4>2. times[e] \in todo /\ times[e].id = e
        BY <1>types, <2>1, <3>1, <4>1 DEF Stopping, TimesType, NoRow
      <4>3. times[e] \in todo'
        BY <2>1, <4>1, <4>2
      <4>4. QED
        BY <2>5, <4>1, <4>3 DEF Drain
    <3>2. QED
      BY <1>stamps, <2>3, <3>1 DEF Stopping
  <2>6. QED
    BY <1>5, <2>4, <2>5
<1>6. ASSUME NEW item \in todo \cup toNotify, NotifyIdle(item)
      PROVE  Goal
  <2>1. /\ Update(With(item, "paused", now)) /\ pc = "check" /\ removed' = removed
    BY <1>6 DEF NotifyIdle
  <2>2. /\ item \in TimeEntry /\ item.state = "running" /\ times[item.id] # NoRow
        /\ item.start = times[item.id].start /\ item.stop = times[item.id].stop
        /\ item.id \in EntryId
    BY <1>types, <2>1 DEF KeeperInv, CopiesMatch, TimeEntry
  <2>3. /\ times' = times \/ Closed(item.id, {"paused"})
        /\ \A e \in EntryId : e # item.id => times'[e] = times[e]
    BY <1>types, <2>1, <2>2, WithEffect DEF EntryState
  <2>4. \/ times' = times
        \/ /\ times'[item.id].changed = now /\ times'[item.id].state = "paused"
    BY <1>types, <2>2, <2>3, ClosedRow
  <2>5. QED
    BY <1>same, <2>1, <2>2, <2>3, <2>4
<1>7. ASSUME NEW item \in todo \cup toNotify, Extend(item)
      PROVE  Goal
  <2>1. item \in todo /\ pc = "extend" /\ removed' = removed
    BY <1>7 DEF Extend
  <2>2. /\ item.id \in EntryId
        /\ times' = times \/ Extended(item.id)
        /\ \A e \in EntryId : /\ times'[e].state = times[e].state
                              /\ times'[e].owner = times[e].owner
                              /\ times'[e] = NoRow <=> times[e] = NoRow
    BY <1>7, <2>1, ExtendEffect
  <2>3. \A e \in EntryId : times'[e] # NoRow =>
          (times[e] # NoRow /\ times'[e] = times[e]) \/ times'[e].changed = now
    BY <1>types, <2>2, ExtendedRow
  <2>4. QED
    BY <1>same, <2>1, <2>2, <2>3
<1>8. CASE Launch
  <2>1. \A e \in EntryId : times'[e] \in {NoRow, times[e]}
    BY <1>8 DEF Launch, RemoveShortTimeSpans
  <2>2. QED
    BY <1>8, <1>same, <2>1 DEF Launch, NoRow
<1>9. CASE UNCHANGED vars
  BY <1>9 DEF vars, envVars, Stopping, NoneFromFuture
<1>10. QED
  BY <1>1, <1>2, <1>3, <1>4, <1>5, <1>6, <1>7, <1>8, <1>9
     DEF Next, UserStep, Tick, HandlerStep

(***************************************************************************)
(* Between two handlers no timer of a removed task runs (on_task_removed), *)
(* as long as the clock has not been set back, in a program that does not  *)
(* die inside one: a row from the future would refuse its stop.            *)
(***************************************************************************)
THEOREM RemovedTasksStop == ~ MayCrash /\ Spec => []RemovedTaskStops
<1> SUFFICES ASSUME ~ MayCrash PROVE Spec => []RemovedTaskStops
  OBVIOUS
<1> DEFINE Inv == NeverSetBack => RemovedInv
<1>1. Init => Inv
  BY DEF Init, RemovedInv, NoneFromFuture, Stopping, NoRow
<1>2. OpenInv /\ Inv /\ [Next]_vars => Inv'
  <2>1. ASSUME OpenInv, RemovedInv, [Next]_vars, ~ StepBack PROVE RemovedInv'
    <3>1. (Down => pc # "drain") /\ removed = removed \cap TaskId
      BY <2>1 DEF Down, OpenInv, KeeperInv, TypeOK
    <3>2. removed' \subseteq TaskId
      BY <2>1, StepKeeperInv DEF OpenInv, KeeperInv, TypeOK
    <3>3. /\ NoneFromFuture'
          /\ \A e \in EntryId :
               times'[e].state = "running" /\ times'[e].owner \in removed' \cap TaskId =>
                 pc' = "drain" /\ times'[e] \in todo'
      BY <2>1, <3>1, StepStopping DEF RemovedInv
    <3>4. QED
      BY <3>2, <3>3 DEF RemovedInv, Stopping
  <2>2. QED
    BY <2>1, NeverBefore DEF OpenInv
<1>3. Inv => RemovedTaskStops
  BY DEF RemovedInv, Stopping, RemovedTaskStops, RunningTasks, ByState
<1> HIDE DEF Inv
<1>4. QED
  BY <1>1, <1>2, <1>3, OpenInvariant, PTL DEF Spec
=============================================================================
