--------------------------- MODULE Dialogs_proofs ---------------------------
(***************************************************************************)
(* The dialogs and the time keeper together, for any tasks, entries,       *)
(* settings and uses of the dialogs, with crashes and a clock that may be  *)
(* set back; two theorems are about a clock that is not (MaxSetBacks = 0). *)
(***************************************************************************)
EXTENDS Dialogs, TimeKeeper_proofs

-----------------------------------------------------------------------------
(* The inductive invariant *)

\* The types, and an idle dialog is about a row that exists.
DialogTypes ==
  /\ TimesType
  /\ now \in Nat /\ sinceInput \in Nat /\ setBacks \in Nat
  /\ gt \in IdleTimes /\ gz \in ZeroTimes
  /\ removed \subseteq TaskId
  /\ pc \in PC \cup {"dialog"}
  /\ todo \subseteq TimeEntry /\ toNotify \subseteq TimeEntry
  /\ oldRunning \subseteq TaskId /\ icon \in BOOLEAN
  /\ asking \subseteq EntryId /\ \A e \in asking : times[e] # NoRow
  /\ question \in Question /\ editing \in Edit /\ second \in Second

\* A handler of a dialog has the thread to itself, as one of the keeper, and
\* no question is open meanwhile.
Handlers ==
  /\ CopiesMatch /\ CopiesOpen
  /\ pc = "dialog" => todo = {}
  /\ second # Nothing => pc = "dialog" /\ question = NoQuestion
  /\ pc = "off" => question = NoQuestion

\* The copies a dialog is going to write: those of the open question, as
\* they were when it was asked, and the one of the second statement.
Held ==
  IF question.kind = "remove" THEN {question.item}
  ELSE IF question.kind = "merge" THEN {question.item, question.next}
  ELSE IF second.op = "write" THEN {second.item}
  ELSE {}

\* Unless the clock is set back, no version is later than the clock.
Past(moment) == MaxSetBacks = 0 => moment <= now

NoneLater == \A e \in EntryId : times[e] # NoRow => Past(times[e].changed)

\* A copy is no newer than the clock, and while it is held nobody leaves
\* the row of a paused one.
Kept(c) ==
  /\ times[c.id] # NoRow
  /\ Past(c.changed)
  /\ c.state = "paused" =>
       times[c.id].state = "paused" /\ \A d \in todo : d.id # c.id

CopiesKept ==
  /\ \A c \in Held : Kept(c)
  /\ question.kind = "merge" => question.item.id # question.next.id
  /\ second.op = "create" => Past(second.item.changed) /\ second.item.state = "stopped"

DialogsInv == DialogTypes /\ Handlers /\ NoneLater /\ CopiesKept

USE DEF Past

\* The tick stops what has been idle for too long before it extends the rest.
TickCuts ==
  /\ pc = "check" => \A e \in EntryId :
       /\ times[e].state = "running"
       /\ now - times[e].stop > IdleLimit(times[e].owner)
       => \E c \in todo : c.id = e
  /\ pc = "extend" => \A c \in todo : now - c.stop <= IdleLimit(c.owner)

\* Nothing ends in the future, and a copy does not end after its row.
EndsBehind(c) == c.stop <= times[c.id].stop

NothingAhead ==
  /\ \A e \in EntryId : times[e] # NoRow => times[e].stop <= now
  /\ \A c \in Held : EndsBehind(c)
  /\ second.op = "create" => second.item.stop <= now

-----------------------------------------------------------------------------
(* What a statement does to a row *)

Same(e) == times'[e] = times[e]

\* The row says what the item says, but keeps its owner.
AsIn(item) ==
  /\ times'[item.id] \in TimeEntry
  /\ times'[item.id].owner = times[item.id].owner
  /\ times'[item.id].start = item.start /\ times'[item.id].stop = item.stop
  /\ times'[item.id].changed = item.changed /\ times'[item.id].state = item.state

Opens(e) ==
  /\ times[e] = NoRow /\ times'[e] \in TimeEntry
  /\ Past(times'[e].changed)
  /\ times'[e].state \in {"running", "stopped"}

\* The row ends in one of these states, with the time it had; it is
\* discarded only when it is shorter than the zero time.
Ends(e, states) ==
  /\ times[e] # NoRow /\ times'[e] \in TimeEntry
  /\ times'[e].owner = times[e].owner
  /\ times'[e].start = times[e].start /\ times'[e].stop = times[e].stop
  /\ Past(times'[e].changed) /\ times'[e].state \in states
  /\ times'[e].state = "deleted" => times[e].stop - times[e].start < gz

\* The version test refuses a row that was written at a later time.
Refused(e) == Same(e) /\ times[e].changed > now

Moves(e) ==
  /\ times[e].state = "running" /\ times'[e].state = "running"
  /\ times'[e] \in TimeEntry /\ times'[e].owner = times[e].owner
  /\ times'[e].start = times[e].start
  /\ times'[e].stop = now /\ times'[e].changed = now

\* An item that is not older than its row is written, or is the row.
LEMMA Written ==
  ASSUME TimesType, NEW item \in TimeEntry, Update(item)
  PROVE  /\ item.id \in EntryId /\ TimesType'
         /\ \A e \in EntryId : e # item.id => Same(e)
         /\ Same(item.id) \/ (times[item.id] # NoRow /\ AsIn(item))
         /\ times[item.id] # NoRow /\ item.changed >= times[item.id].changed => AsIn(item)
<1>1. item.id \in EntryId
  BY DEF TimeEntry
<1>2. CASE Accepts(item)
  <2> DEFINE new == [item EXCEPT !.owner = times[item.id].owner]
  <2>1. times[item.id] \in TimeEntry
    BY <1>1, <1>2 DEF TimesType, Accepts
  <2>2. /\ new \in TimeEntry /\ new.owner = times[item.id].owner
        /\ new.start = item.start /\ new.stop = item.stop
        /\ new.changed = item.changed /\ new.state = item.state
    BY <2>1 DEF TimeEntry
  <2>3. times' = [times EXCEPT ![item.id] = new]
    BY <1>2 DEF Update
  <2> HIDE DEF new
  <2>4. times'[item.id] = new /\ \A e \in EntryId : e # item.id => Same(e)
    BY <1>1, <2>3 DEF TimesType, Same
  <2>5. AsIn(item)
    BY <2>2, <2>4 DEF AsIn
  <2>6. QED
    BY <1>1, <1>2, <2>4, <2>5, UpdateEffect DEF Accepts
<1>3. CASE ~ Accepts(item)
  <2>1. times' = times
    BY <1>3 DEF Update
  <2>2. times[item.id] # NoRow /\ item.changed >= times[item.id].changed => AsIn(item)
    BY <1>1, <1>3, <2>1 DEF Accepts, AsIn, TimesType
  <2>3. QED
    BY <1>1, <2>1, <2>2 DEF Same, TimesType
<1>4. QED
  BY <1>2, <1>3

\* A version that was kept, or stamped just now.
LEMMA Stamped ==
  ASSUME now \in Nat, NEW was, NEW is \in {was, now}, Past(was)
  PROVE  Past(is)
OBVIOUS

\* stop_time, from the row itself or from a copy taken while it ran.
LEMMA Stops ==
  ASSUME TimesType, NoneLater, now \in Nat, NEW item \in TimeEntry, StopTime(item),
         times[item.id] # NoRow,
         item.start = times[item.id].start, item.stop = times[item.id].stop,
         item.state = "running" \/ item = times[item.id]
  PROVE  /\ item.id \in EntryId /\ TimesType'
         /\ \A e \in EntryId : e # item.id => Same(e)
         /\ Ends(item.id, {"stopped", "deleted"}) \/ Refused(item.id)
<1> DEFINE s == IF item.stop - item.start < gz THEN "deleted" ELSE "stopped"
           new == With(item, s, now)
<1>1. s \in {"stopped", "deleted"} /\ s \in EntryState /\ Update(new)
      /\ (s = "deleted" => item.stop - item.start < gz)
  BY DEF StopTime, EntryState
<1> HIDE DEF s
<1>2. /\ new \in TimeEntry /\ new.id = item.id /\ new.start = item.start
      /\ new.stop = item.stop /\ new.state = s
  BY <1>1, WithType
<1>3. item.id \in EntryId /\ times[item.id] \in TimeEntry
      /\ Past(times[item.id].changed) /\ times[item.id].changed \in Nat
  BY DEF TimesType, TimeEntry, NoneLater
<1>4. /\ Past(new.changed)
      /\ new.changed >= times[item.id].changed \/ times[item.id].changed > now
  BY <1>1, <1>3 DEF With, TimeEntry
<1>ran. times[item.id].changed > now =>
          new.changed < times[item.id].changed \/ new = times[item.id]
  BY <1>1, <1>3 DEF With, TimeEntry
<1> HIDE DEF new
<1>5. CASE new.changed >= times[item.id].changed
  <2>1. AsIn(new)
    BY <1>1, <1>2, <1>5, Written
  <2>2. Ends(item.id, {"stopped", "deleted"})
    BY <1>1, <1>2, <1>4, <2>1 DEF AsIn, Ends
  <2>3. QED
    BY <1>1, <1>2, <2>2, Written
<1>6. CASE times[item.id].changed > now
  <2>1. ~ Accepts(new)
    BY <1>2, <1>3, <1>6, <1>ran DEF Accepts, TimeEntry
  <2>2. times' = times
    BY <1>1, <2>1 DEF Update
  <2>3. QED
    BY <1>3, <1>6, <2>2 DEF Refused, Same, TimesType
<1>7. QED
  BY <1>4, <1>5, <1>6

LEMMA StopsRunning ==
  ASSUME TimesType, NoneLater, now \in Nat, NEW item \in ByState("running"),
         StopTime(item)
  PROVE  /\ TimesType'
         /\ \A e \in EntryId :
              Same(e) \/ (times[e].state = "running" /\ Ends(e, {"stopped", "deleted"}))
<1>1. /\ item \in TimeEntry /\ item = times[item.id] /\ times[item.id] # NoRow
      /\ item.state = "running"
  BY RunningCopies
<1>2. QED
  BY <1>1, Stops DEF Refused

LEMMA Starts ==
  ASSUME TimesType, now \in Nat, NEW t \in TaskId, StartTime(t)
  PROVE  TimesType' /\ \A e \in EntryId :
           Same(e) \/ (Opens(e) /\ times'[e].state = "running" /\ times'[e].stop = now)
<1>1. PICK f \in EntryId :
        Create([id |-> f, owner |-> t, start |-> now, stop |-> now,
                changed |-> now, state |-> "running"])
  BY DEF StartTime
<1> DEFINE new == [id |-> f, owner |-> t, start |-> now, stop |-> now,
                   changed |-> now, state |-> "running"]
<1>2. new \in TimeEntry /\ times[f] = NoRow /\ times' = [times EXCEPT ![f] = new]
  BY <1>1 DEF TimeEntry, EntryState, Create
<1>3. TimesType'
  BY <1>2 DEF TimesType
<1>4. \A e \in EntryId :
        Same(e) \/ (Opens(e) /\ times'[e].state = "running" /\ times'[e].stop = now)
  BY <1>2 DEF TimesType, Same, Opens
<1>5. QED
  BY <1>3, <1>4

-----------------------------------------------------------------------------
(* The lists of the keeper *)

\* The rows of the copies that are left are as they were.
LEMMA CopiesSame ==
  ASSUME CopiesMatch, CopiesOpen, todo' \subseteq todo, toNotify' \subseteq toNotify,
         toNotify' \subseteq todo', \A c \in todo' : times'[c.id] = times[c.id],
         pc' = pc \/ todo' = {}
  PROVE  CopiesMatch' /\ CopiesOpen'
<1>1. CopiesOpen'
  BY DEF CopiesOpen
<1>2. CASE todo' = {}
  BY <1>1, <1>2 DEF CopiesMatch
<1>3. CASE pc' = pc
  BY <1>1, <1>3 DEF CopiesMatch
<1>4. QED
  BY <1>1, <1>2, <1>3

\* A list that was just read.
LEMMA CopiesRead ==
  ASSUME TimesType, times' = times, todo' \subseteq ByState("running"),
         toNotify' \subseteq todo', toNotify' # {} => pc' = "check",
         pc' \in {"off", "ready"} => todo' = {}
  PROVE  CopiesMatch' /\ CopiesOpen'
<1>1. \A c \in ByState("running") :
        c.id \in EntryId /\ c = times[c.id] /\ times[c.id] # NoRow /\ c.state = "running"
  BY RunningCopies
<1>2. \A c, d \in ByState("running") : c.id = d.id => c = d
  BY RunningCopies
<1>3. CopiesOpen'
  BY <1>1, <1>2 DEF CopiesOpen
<1>4. QED
  BY <1>1, <1>3 DEF CopiesMatch

\* What the keeper does to the rows while the dialogs wait.
KeeperRow(e) ==
  \/ Same(e)
  \/ Opens(e) /\ times'[e].state = "running" /\ times'[e].stop = now
  \/ /\ times[e].state = "running" \/ \E c \in todo : c.id = e
     /\ Ends(e, {"stopped", "deleted"})
  \/ pc = "extend" /\ times[e] \in todo /\ Moves(e)

LEMMA KeeperRows ==
  ASSUME DialogsInv, KeeperAlone
  PROVE  /\ TimesType' /\ CopiesMatch' /\ CopiesOpen'
         /\ \A e \in EntryId : KeeperRow(e)
         /\ todo' \subseteq todo \/ todo' \subseteq ByState("running")
         /\ now' \in Nat /\ (MaxSetBacks = 0 => now' >= now)
         /\ sinceInput' \in Nat /\ setBacks' \in Nat
         /\ gt' \in IdleTimes /\ gz' \in ZeroTimes
         /\ removed' \subseteq TaskId /\ oldRunning' \subseteq TaskId /\ icon' \in BOOLEAN
         /\ pc \in PC /\ pc' \in PC /\ (pc = "off") = (pc' = "off")
<1>types. /\ TimesType /\ now \in Nat /\ sinceInput \in Nat /\ setBacks \in Nat /\ NoneLater
          /\ gt \in IdleTimes /\ gz \in ZeroTimes /\ removed \subseteq TaskId
          /\ oldRunning \subseteq TaskId /\ icon \in BOOLEAN
          /\ todo \subseteq TimeEntry /\ CopiesMatch /\ CopiesOpen
          /\ \A c \in todo : c.id \in EntryId
  BY DEF DialogsInv, DialogTypes, Handlers, TimeEntry
<1>ready. pc \in {"off", "ready"} => todo = {} /\ toNotify = {}
  BY <1>types DEF CopiesMatch, CopiesOpen
<1> DEFINE Lists == /\ CopiesMatch' /\ CopiesOpen'
                    /\ todo' \subseteq todo \/ todo' \subseteq ByState("running")
           Rows == TimesType' /\ (\A e \in EntryId : KeeperRow(e))
                   /\ oldRunning' \subseteq TaskId /\ icon' \in BOOLEAN
           Rest == /\ now' \in Nat /\ (MaxSetBacks = 0 => now' >= now)
                   /\ sinceInput' \in Nat /\ setBacks' \in Nat
                   /\ gt' \in IdleTimes /\ gz' \in ZeroTimes /\ removed' \subseteq TaskId
                   /\ pc \in PC /\ pc' \in PC /\ (pc = "off") = (pc' = "off")
<1>same. ASSUME UNCHANGED <<times, viewVars>> PROVE Rows
  BY <1>same, <1>types DEF TimesType, KeeperRow, Same, viewVars
<1>waits. ASSUME pc \in {"off", "ready"}, pc' = pc, UNCHANGED <<todo, toNotify>> PROVE Lists
  BY <1>waits, <1>ready DEF CopiesMatch, CopiesOpen
<1>1. CASE TimePasses
  <2>1. PICK d \in ClockSteps : Advance(d)
    BY <1>1 DEF TimePasses
  <2>2. d \in Nat /\ MaxTime \in Nat
    BY KeeperAssumption
  <2>3. Rest
    BY <1>types, <2>1, <2>2 DEF Advance, settingVars, PC
  <2>4. Lists /\ Rows
    BY <1>same, <1>waits, <2>1 DEF Advance
  <2>5. QED
    BY <2>3, <2>4
<1>back. CASE StepBack
  <2>1. PICK d \in ClockSteps : d <= now /\ now' = now - d
    BY <1>back DEF StepBack
  <2>2. d \in Nat /\ MaxSetBacks # 0 /\ setBacks' \in Nat
    BY <1>back, <1>types, KeeperAssumption DEF StepBack
  <2>3. Rest
    BY <1>back, <1>types, <2>1, <2>2 DEF StepBack, settingVars, PC
  <2>4. Lists /\ Rows
    BY <1>back, <1>same, <1>waits DEF StepBack
  <2>5. QED
    BY <2>3, <2>4
<1>2. CASE UserInput \/ \E g \in IdleTimes, z \in ZeroTimes : SaveSettings(g, z)
  <2>1. Rest
    BY <1>2, <1>types DEF UserInput, SaveSettings, UserActs, settingVars, PC
  <2>2. Lists /\ Rows
    BY <1>2, <1>same, <1>waits DEF UserInput, SaveSettings, UserActs
  <2>3. QED
    BY <2>1, <2>2
<1>start. ASSUME NEW t \in TaskId, UserActs, StartTime(t),
                 UNCHANGED <<now, settingVars, removed, pc, todo, toNotify>>
          PROVE  Lists /\ Rows /\ Rest
  <2>1. /\ TimesType'
        /\ \A e \in EntryId :
             Same(e) \/ (Opens(e) /\ times'[e].state = "running" /\ times'[e].stop = now)
    BY <1>start, <1>types, Starts
  <2>2. oldRunning' \subseteq TaskId /\ icon' \in BOOLEAN
    BY <1>start, <1>types, <2>1, ViewType DEF StartTime
  <2>3. Rows
    BY <2>1, <2>2 DEF KeeperRow
  <2>4. Lists /\ Rest
    BY <1>start, <1>types, <1>waits DEF UserActs, settingVars, PC
  <2>5. QED
    BY <2>3, <2>4
<1>stop. ASSUME UserActs, NEW item \in ByState("running"), StopTime(item),
                UNCHANGED <<now, settingVars, removed, pc, todo, toNotify>>
         PROVE  Lists /\ Rows /\ Rest
  <2>1. /\ TimesType'
        /\ \A e \in EntryId :
             Same(e) \/ (times[e].state = "running" /\ Ends(e, {"stopped", "deleted"}))
    BY <1>stop, <1>types, StopsRunning
  <2>2. oldRunning' \subseteq TaskId /\ icon' \in BOOLEAN
    BY <1>stop, <1>types, <2>1, ViewType DEF StopTime
  <2>3. Rows
    BY <2>1, <2>2 DEF KeeperRow
  <2>4. Lists /\ Rest
    BY <1>stop, <1>types, <1>waits DEF UserActs, settingVars, PC
  <2>5. QED
    BY <2>3, <2>4
<1>3. ASSUME NEW t \in TaskId, Start(t) \/ Toggle(t) \/ Stop(t) PROVE Lists /\ Rows /\ Rest
  BY <1>3, <1>start, <1>stop DEF Start, Toggle, Stop
<1>drain. ASSUME NEW items \in SUBSET ByState("running"), UserActs,
                 BeginDrain(items), UNCHANGED <<times, now, settingVars, toNotify, viewVars>>,
                 removed' \subseteq TaskId
          PROVE  Lists /\ Rows /\ Rest
  <2>1. /\ todo' = items /\ pc' \in {"ready", "drain"} /\ pc = "ready"
        /\ pc' = "ready" => todo' = {}
        /\ toNotify' = {}
    BY <1>drain, <1>ready DEF BeginDrain, UserActs
  <2>2. CopiesMatch' /\ CopiesOpen'
    BY <1>drain, <1>types, <2>1, CopiesRead
  <2>3. Rest
    BY <1>drain, <1>types, <2>1 DEF UserActs, settingVars, PC
  <2>4. Rows
    BY <1>drain, <1>same
  <2>5. QED
    BY <2>1, <2>2, <2>3, <2>4
<1>4. CASE StopAll
  BY <1>4, <1>types, <1>drain DEF StopAll
<1>5. ASSUME NEW t \in TaskId, RemoveTask(t) PROVE Lists /\ Rows /\ Rest
  BY <1>5, <1>types, <1>drain DEF RemoveTask
<1>6. CASE TickBegin \/ PollActivity
  <2>1. /\ UNCHANGED <<times, envVars, settingVars, removed, viewVars>>
        /\ todo' \subseteq ByState("running") /\ toNotify' \subseteq todo'
        /\ toNotify' # {} => pc' = "check"
        /\ pc' = "ready" => todo' = {}
        /\ pc \in {"ready", "check"} /\ pc' \in {"ready", "check", "extend"}
    BY <1>6 DEF TickBegin, PollActivity, Expired
  <2>2. CopiesMatch' /\ CopiesOpen'
    BY <1>types, <2>1, CopiesRead
  <2>3. Rest
    BY <1>types, <2>1 DEF envVars, settingVars, PC
  <2>4. Rows
    BY <1>same, <2>1
  <2>5. QED
    BY <2>1, <2>2, <2>3, <2>4
<1>7. ASSUME NEW item \in todo, Drain(item) \/ StopExpired(item) PROVE Lists /\ Rows /\ Rest
  <2>1. /\ StopTime(item) /\ todo' = todo \ {item} /\ toNotify = {} /\ toNotify' = {}
        /\ UNCHANGED <<envVars, settingVars, removed>>
        /\ pc \in {"check", "drain"} /\ pc' \in {"check", "drain", "ready"}
        /\ pc' = pc \/ todo' = {}
    BY <1>7, <1>types DEF Drain, StopExpired, CopiesMatch
  <2>2. /\ item \in TimeEntry /\ item.state = "running" /\ times[item.id] # NoRow
        /\ item.start = times[item.id].start /\ item.stop = times[item.id].stop
    BY <1>types DEF CopiesMatch
  <2>3. /\ item.id \in EntryId /\ TimesType'
        /\ \A e \in EntryId : e # item.id => Same(e)
        /\ Ends(item.id, {"stopped", "deleted"}) \/ Refused(item.id)
    BY <1>types, <2>1, <2>2, Stops
  <2>4. oldRunning' \subseteq TaskId /\ icon' \in BOOLEAN
    BY <1>types, <2>1, <2>3, ViewType DEF StopTime
  <2>5. Rows
    BY <2>3, <2>4 DEF KeeperRow, Refused
  <2>6. \A c \in todo' : times'[c.id] = times[c.id]
    BY <1>types, <2>1, <2>3 DEF CopiesOpen, Same
  <2>7. CopiesMatch' /\ CopiesOpen'
    BY <1>types, <2>1, <2>6, CopiesSame
  <2>8. Rest
    BY <1>types, <2>1 DEF envVars, settingVars, PC
  <2>9. QED
    BY <2>1, <2>5, <2>7, <2>8
<1>8. ASSUME NEW item \in todo, Extend(item) PROVE Lists /\ Rows /\ Rest
  <2> DEFINE new == WithStop(item, now, now)
  <2>1. /\ Update(new) /\ todo' = todo \ {item} /\ toNotify = {} /\ toNotify' = {}
        /\ UNCHANGED <<envVars, settingVars, removed>> /\ Observe(FALSE)
        /\ pc = "extend" /\ pc' \in {"extend", "ready"}
        /\ pc' = pc \/ todo' = {}
    BY <1>8, <1>types DEF Extend, CopiesMatch
  <2>2. /\ item \in TimeEntry /\ item.state = "running" /\ times[item.id] = item
        /\ item.id \in EntryId
    BY <1>types, <2>1 DEF CopiesMatch
  <2>3. /\ new \in TimeEntry /\ new.id = item.id /\ new.start = item.start
        /\ new.stop = now /\ new.state = "running"
        /\ new = item \/ new.changed = now
    BY <1>types, <2>2, WithStopType
  <2> HIDE DEF new
  <2>4. /\ TimesType'
        /\ \A e \in EntryId : e # item.id => Same(e)
        /\ Same(item.id) \/ AsIn(new)
        /\ (new = item => Same(item.id))
    BY <1>types, <2>1, <2>2, <2>3, Written DEF Update, Accepts, Same
  <2>5. Same(item.id) \/ Moves(item.id)
    BY <2>2, <2>3, <2>4 DEF AsIn, Moves
  <2>6. oldRunning' \subseteq TaskId /\ icon' \in BOOLEAN
    BY <1>types, <2>1, <2>4, ViewType
  <2>7. Rows
    BY <2>1, <2>2, <2>4, <2>5, <2>6 DEF KeeperRow
  <2>8. \A c \in todo' : times'[c.id] = times[c.id]
    BY <1>types, <2>1, <2>4 DEF CopiesOpen, Same
  <2>9. CopiesMatch' /\ CopiesOpen'
    BY <1>types, <2>1, <2>8, CopiesSame
  <2>10. Rest
    BY <1>types, <2>1 DEF envVars, settingVars, PC
  <2>11. QED
    BY <2>1, <2>7, <2>9, <2>10
<1>9. QED
  BY <1>1, <1>back, <1>2, <1>3, <1>4, <1>5, <1>6, <1>7, <1>8 DEF KeeperAlone, UserStep

-----------------------------------------------------------------------------
(* What the dialogs do to the rows *)

\* What is on the screen has the types it should.
LEMMA Windows ==
  ASSUME DialogsInv
  PROVE  /\ question.kind = "remove" => question.item \in TimeEntry
         /\ question.kind = "merge" => question.item \in TimeEntry /\ question.next \in TimeEntry
         /\ editing.kind = "edit" => editing.item \in TimeEntry
         /\ editing.kind = "add" => editing.owner \in TaskId
         /\ second.op \in {"stop", "start"} => second.owner \in TaskId
         /\ second.op \in {"write", "create"} => second.item \in TimeEntry
         /\ editing # NoEdit => editing.kind \in {"edit", "add"}
         /\ Held \subseteq TimeEntry
<1>1. question \in Question /\ editing \in Edit /\ second \in Second
  BY DEF DialogsInv, DialogTypes
<1>2. /\ question.kind = "remove" => question.item \in TimeEntry
      /\ question.kind = "merge" => question.item \in TimeEntry /\ question.next \in TimeEntry
  BY <1>1 DEF Question, NoQuestion
<1>3. /\ editing.kind = "edit" => editing.item \in TimeEntry
      /\ editing.kind = "add" => editing.owner \in TaskId
      /\ editing # NoEdit => editing.kind \in {"edit", "add"}
  BY <1>1 DEF Edit, NoEdit
<1>4. /\ second.op \in {"stop", "start"} => second.owner \in TaskId
      /\ second.op \in {"write", "create"} => second.item \in TimeEntry
  BY <1>1 DEF Second, Nothing
<1>5. QED
  BY <1>2, <1>3, <1>4 DEF Held

LEMMA IdleRows ==
  ASSUME DialogsInv, NEW item \in toNotify, NotifyIdle(item)
  PROVE  /\ TimesType' /\ CopiesMatch' /\ CopiesOpen'
         /\ item.id \in EntryId /\ \E c \in todo : c.id = item.id
         /\ \A e \in EntryId : e # item.id => Same(e)
         /\ Ends(item.id, {"paused"}) \/ Refused(item.id)
<1> DEFINE new == With(item, "paused", now)
<1>1. /\ TimesType /\ now \in Nat /\ NoneLater /\ CopiesMatch /\ CopiesOpen
      /\ item \in TimeEntry /\ item.state = "running" /\ times[item.id] # NoRow
      /\ item.start = times[item.id].start /\ item.stop = times[item.id].stop
      /\ item \in todo /\ Update(new)
      /\ \A c \in todo : c.id \in EntryId
  BY DEF DialogsInv, DialogTypes, Handlers, CopiesMatch, CopiesOpen, NotifyIdle, TimeEntry
<1>2. /\ new \in TimeEntry /\ new.id = item.id /\ new.start = item.start
      /\ new.stop = item.stop /\ new.state = "paused" /\ new.changed = now
  BY <1>1, WithType DEF EntryState, With, TimeEntry
<1> HIDE DEF new
<1>3. /\ item.id \in EntryId /\ TimesType' /\ \A e \in EntryId : e # item.id => Same(e)
      /\ times[item.id].changed \in Nat
  BY <1>1, <1>2, Written DEF TimesType, TimeEntry
<1>4. ASSUME now >= times[item.id].changed PROVE Ends(item.id, {"paused"})
  <2>1. AsIn(new)
    BY <1>1, <1>2, <1>3, <1>4, Written
  <2>2. QED
    BY <1>1, <1>2, <2>1 DEF AsIn, Ends, TimeEntry
<1>later. ASSUME times[item.id].changed > now PROVE Refused(item.id)
  <2>1. times' = times
    BY <1>1, <1>2, <1>3, <1>later DEF Update, Accepts
  <2>2. QED
    BY <1>later, <2>1 DEF Refused, Same
<1>5. Ends(item.id, {"paused"}) \/ Refused(item.id)
  BY <1>1, <1>3, <1>4, <1>later
<1>6. \A c \in todo : /\ times'[c.id] # NoRow
                      /\ c.start = times'[c.id].start /\ c.stop = times'[c.id].stop
                      /\ times'[c.id].state \in {"running", "paused"}
  BY <1>1, <1>3, <1>5, NoRowIsNoEntry DEF Same, Refused, Ends, CopiesMatch, CopiesOpen
<1>7. pc = "check" /\ pc' = pc /\ todo' = todo /\ toNotify' = toNotify \ {item}
  BY DEF NotifyIdle
<1>8. CopiesMatch' /\ CopiesOpen'
  BY <1>1, <1>6, <1>7 DEF CopiesMatch, CopiesOpen
<1>9. QED
  BY <1>1, <1>3, <1>5, <1>8

\* Continue: the entry runs, and reaches to this moment.
Goes(e) ==
  /\ times'[e] \in TimeEntry /\ Past(times'[e].changed)
  /\ times'[e].owner = times[e].owner /\ times'[e].start = times[e].start
  /\ times'[e].stop = now /\ times'[e].state = "running"

LEMMA ContinueRows ==
  ASSUME DialogsInv, NEW e \in asking, Continue(e)
  PROVE  /\ TimesType' /\ e \in EntryId /\ times[e] # NoRow
         /\ \A f \in EntryId : f # e => Same(f)
         /\ Goes(e) \/ Refused(e)
<1> DEFINE row == times[e]
           going == With(row, "running", now)
           new == WithStop(going, now, now)
<1>1. /\ TimesType /\ now \in Nat /\ e \in EntryId /\ row \in TimeEntry /\ row.id = e
      /\ row # NoRow /\ Past(row.changed) /\ row.changed \in Nat /\ Update(new)
  BY DEF DialogsInv, DialogTypes, TimesType, NoneLater, Continue, TimeEntry
<1> HIDE DEF row
<1>0. "running" \in EntryState
  BY DEF EntryState
<1>2. /\ going \in TimeEntry /\ going.id = e /\ going.start = row.start
      /\ going.state = "running" /\ going.changed \in {row.changed, now}
  BY <1>0, <1>1, WithType
<1> HIDE DEF going
<1>3. /\ new \in TimeEntry /\ new.id = e /\ new.start = row.start
      /\ new.state = "running" /\ new.stop = now
      /\ new = going \/ new.changed = now
  <2>1. going \in TimeEntry /\ now \in Nat
    BY <1>1, <1>2
  <2>2. /\ new \in TimeEntry /\ new.id = going.id /\ new.start = going.start
        /\ new.state = going.state /\ new.stop = now
        /\ new = going \/ new.changed = now
    BY <2>1, WithStopType
  <2>3. QED
    BY <1>2, <2>2
<1> HIDE DEF new
<1>4. /\ Past(new.changed) /\ new.changed \in {row.changed, now}
      /\ new.changed >= row.changed \/ row.changed > now
  <2>1. new.changed \in {row.changed, now}
    BY <1>2, <1>3
  <2>2. Past(new.changed)
    BY <1>1, <2>1, Stamped
  <2>3. QED
    BY <1>1, <2>1, <2>2
<1>5. TimesType' /\ \A f \in EntryId : f # e => Same(f)
  BY <1>1, <1>3, Written
<1>6. CASE new.changed >= row.changed
  <2>1. AsIn(new)
    BY <1>1, <1>3, <1>6, Written DEF row
  <2>2. QED
    BY <1>1, <1>3, <1>4, <1>5, <2>1 DEF AsIn, Goes, row
<1>7. CASE row.changed > now /\ ~ (new.changed >= row.changed)
  <2>1. times' = times
    BY <1>1, <1>3, <1>7 DEF Update, Accepts, row
  <2>2. QED
    BY <1>1, <1>5, <1>7, <2>1 DEF Refused, Same, row
<1>8. QED
  BY <1>4, <1>6, <1>7

\* Revert, with one or the other second statement.
LEMMA RevertRows ==
  ASSUME DialogsInv, NEW e \in asking, StopTime(times[e])
  PROVE  /\ TimesType' /\ e \in EntryId
         /\ \A f \in EntryId : f # e => Same(f)
         /\ Ends(e, {"stopped", "deleted"}) \/ Refused(e)
<1>1. /\ TimesType /\ now \in Nat /\ NoneLater /\ e \in EntryId
      /\ times[e] \in TimeEntry /\ times[e].id = e /\ times[e] # NoRow
  BY DEF DialogsInv, DialogTypes, TimesType
<1>2. QED
  BY <1>1, Stops

\* A copy that is written with values of its own.
Rewrites(e, item) ==
  /\ e = item.id
  /\ times[e] # NoRow /\ times'[e] \in TimeEntry /\ Past(times'[e].changed)
  /\ times'[e].stop = item.stop /\ times'[e].start = item.start
  /\ times'[e].state = item.state

LEMMA WriteRows ==
  ASSUME DialogsInv, NEW item \in TimeEntry, Past(item.changed), Update(item)
  PROVE  /\ TimesType' /\ \A e \in EntryId : Same(e) \/ Rewrites(e, item)
<1>1. TimesType
  BY DEF DialogsInv, DialogTypes
<1>2. /\ TimesType' /\ item.id \in EntryId
      /\ \A e \in EntryId : e # item.id => Same(e)
      /\ Same(item.id) \/ (times[item.id] # NoRow /\ AsIn(item))
  BY <1>1, Written
<1>3. QED
  BY <1>2 DEF Rewrites, AsIn

LEMMA CreateRows ==
  ASSUME DialogsInv, NEW item \in TimeEntry, Past(item.changed), item.state = "stopped",
         Create(item)
  PROVE  /\ TimesType'
         /\ \A e \in EntryId : Same(e) \/ (e = item.id /\ Opens(e) /\ times'[e] = item)
<1>1. TimesType /\ item.id \in EntryId
  BY DEF DialogsInv, DialogTypes, TimeEntry
<1>2. times[item.id] = NoRow /\ times' = [times EXCEPT ![item.id] = item]
  BY DEF Create
<1>3. QED
  BY <1>1, <1>2 DEF TimesType, Same, Opens

LEMMA WithStartType ==
  ASSUME NEW item \in TimeEntry, NEW t \in Nat, NEW at \in Nat
  PROVE  /\ WithStart(item, t, at) \in TimeEntry
         /\ WithStart(item, t, at).id = item.id
         /\ WithStart(item, t, at).stop = item.stop
         /\ WithStart(item, t, at).start = t
         /\ WithStart(item, t, at).state = item.state
         /\ WithStart(item, t, at).changed \in {item.changed, at}
  BY DEF WithStart, TimeEntry

LEMMA RemoveRows ==
  ASSUME DialogsInv, ConfirmRemove
  PROVE  /\ TimesType' /\ question.item \in Held
         /\ \A e \in EntryId : Same(e) \/
              /\ e = question.item.id
              /\ times[e] # NoRow /\ times'[e] \in TimeEntry /\ Past(times'[e].changed)
              /\ times'[e].stop = question.item.stop
              /\ times'[e].state \in {"running", "deleted"}
<1> DEFINE item == question.item
           begun == WithStart(item, item.stop, now)
           gone == With(item, "deleted", now)
<1>1. /\ now \in Nat /\ item \in TimeEntry /\ item \in Held /\ Past(item.changed)
      /\ item.stop \in Nat /\ item.changed \in Nat
  BY Windows DEF ConfirmRemove, DialogsInv, DialogTypes, CopiesKept, Kept, Held, TimeEntry
<1>2. CASE item.state = "running"
  <2>1. Update(begun)
    BY <1>2 DEF ConfirmRemove
  <2>2. /\ begun \in TimeEntry /\ begun.id = item.id /\ begun.stop = item.stop
        /\ begun.state = "running" /\ begun.changed \in {item.changed, now}
    <3>1. item \in TimeEntry /\ item.stop \in Nat /\ now \in Nat
      BY <1>1
    <3> HIDE DEF item
    <3>2. /\ begun \in TimeEntry /\ begun.id = item.id /\ begun.stop = item.stop
          /\ begun.state = item.state /\ begun.changed \in {item.changed, now}
      BY <3>1, WithStartType
    <3>3. QED
      BY <1>2, <3>2
  <2> HIDE DEF begun
  <2>3. Past(begun.changed)
    BY <1>1, <2>2, Stamped
  <2>4. TimesType' /\ \A e \in EntryId : Same(e) \/ Rewrites(e, begun)
    BY <2>1, <2>2, <2>3, WriteRows
  <2>5. QED
    BY <1>1, <2>2, <2>4 DEF Rewrites
<1>3. CASE item.state # "running"
  <2>1. Update(gone) /\ "deleted" \in EntryState
    BY <1>3 DEF ConfirmRemove, EntryState
  <2>2. /\ gone \in TimeEntry /\ gone.id = item.id /\ gone.stop = item.stop
        /\ gone.state = "deleted" /\ gone.changed \in {item.changed, now}
    BY <1>1, <2>1, WithType
  <2> HIDE DEF gone
  <2>3. Past(gone.changed)
    BY <1>1, <2>2, Stamped
  <2>4. TimesType' /\ \A e \in EntryId : Same(e) \/ Rewrites(e, gone)
    BY <2>1, <2>2, <2>3, WriteRows
  <2>5. QED
    BY <1>1, <2>2, <2>4 DEF Rewrites
<1>4. QED
  BY <1>2, <1>3

\* The first entry of the pair goes, and the second one waits to be written.
LEMMA MergeRows ==
  ASSUME DialogsInv, ConfirmMerge
  PROVE  /\ TimesType' /\ question.item \in Held /\ question.next \in Held
         /\ \A e \in EntryId : Same(e) \/
              /\ e = question.item.id
              /\ times[e] # NoRow /\ times'[e] \in TimeEntry /\ Past(times'[e].changed)
              /\ times'[e].stop = question.item.stop
              /\ times'[e].state = "deleted"
         /\ second' \in Second /\ second'.op = "write"
         /\ second'.item.id = question.next.id
         /\ second'.item.stop = question.next.stop
         /\ second'.item.state = question.next.state
         /\ Past(second'.item.changed)
<1> DEFINE item == question.item
           next == question.next
           gone == With(item, "deleted", now)
           longer == WithStart(next, item.start, now)
<1>1. /\ now \in Nat /\ item \in TimeEntry /\ item \in Held /\ Past(item.changed)
      /\ next \in TimeEntry /\ next \in Held /\ Past(next.changed)
      /\ item.start \in Nat /\ item.changed \in Nat /\ next.changed \in Nat
  BY Windows DEF ConfirmMerge, DialogsInv, DialogTypes, CopiesKept, Kept, Held, TimeEntry
<1>2. /\ Update(gone) /\ "deleted" \in EntryState
      /\ second' = [op |-> "write", item |-> longer]
  BY DEF ConfirmMerge, Then, EntryState
<1> HIDE DEF item, next
<1>3. /\ gone \in TimeEntry /\ gone.id = item.id /\ gone.stop = item.stop
      /\ gone.state = "deleted" /\ gone.changed \in {item.changed, now}
  BY <1>1, <1>2, WithType
<1> HIDE DEF gone
<1>4. Past(gone.changed)
  BY <1>1, <1>3, Stamped
<1>5. TimesType' /\ \A e \in EntryId : Same(e) \/ Rewrites(e, gone)
  BY <1>2, <1>3, <1>4, WriteRows
<1>6. /\ longer \in TimeEntry /\ longer.id = next.id
      /\ longer.stop = next.stop /\ longer.state = next.state
      /\ longer.changed \in {next.changed, now}
  <2>1. next \in TimeEntry /\ item.start \in Nat /\ now \in Nat
    BY <1>1
  <2>2. QED
    BY <2>1, WithStartType
<1> HIDE DEF longer
<1>7. Past(longer.changed)
  BY <1>1, <1>6, Stamped
<1>8. second' \in Second
  BY <1>2, <1>6 DEF Second
<1>9. QED
  BY <1>1, <1>2, <1>3, <1>5, <1>6, <1>7, <1>8 DEF Rewrites, item, next

\* The row becomes the second half, and the first half waits to be created.
LEMMA SplitRows ==
  ASSUME DialogsInv, NEW e \in EntryId, Split(e)
  PROVE  /\ TimesType'
         /\ \A f \in EntryId : Same(f) \/
              /\ f = e /\ times[f] # NoRow
              /\ times'[f] \in TimeEntry /\ Past(times'[f].changed)
              /\ times'[f].stop = times[f].stop /\ times'[f].state = times[f].state
         /\ second' \in Second /\ second'.op = "create"
         /\ second'.item.stop <= times[e].stop
         /\ Past(second'.item.changed) /\ second'.item.state = "stopped"
<1> DEFINE item == times[e]
           half == item.start + (item.stop - item.start) \div 2
           later == WithStart(item, half, now)
<1>1. /\ now \in Nat /\ item \in TimeEntry /\ item.id = e /\ item # NoRow
      /\ item.start \in Nat /\ item.stop \in Nat /\ item.changed \in Nat
      /\ Past(item.changed) /\ SplitSpan \in Nat /\ item.stop - item.start > SplitSpan
      /\ item.owner \in TaskId
  BY DialogsAssumption DEF DialogsInv, DialogTypes, TimesType, TimeEntry, NoneLater, Split
<1>2. half \in Nat /\ half <= item.stop
  BY <1>1
<1>3. PICK g \in EntryId :
        second' = [op |-> "create",
                   item |-> [item EXCEPT !.id = g, !.stop = half,
                                         !.changed = now, !.state = "stopped"]]
  BY DEF Split, Then
<1>4. Update(later)
  BY DEF Split
<1> HIDE DEF half, item
<1>5. /\ later \in TimeEntry /\ later.id = e /\ later.stop = item.stop
      /\ later.state = item.state /\ later.changed \in {item.changed, now}
  <2>1. item \in TimeEntry /\ half \in Nat /\ now \in Nat
    BY <1>1, <1>2
  <2>2. /\ later \in TimeEntry /\ later.id = item.id /\ later.stop = item.stop
        /\ later.state = item.state /\ later.changed \in {item.changed, now}
    BY <2>1, WithStartType
  <2>3. QED
    BY <1>1, <2>2
<1> HIDE DEF later
<1>6. Past(later.changed)
  BY <1>1, <1>5, Stamped
<1>7. TimesType' /\ \A f \in EntryId : Same(f) \/ Rewrites(f, later)
  BY <1>4, <1>5, <1>6, WriteRows
<1>8. \A f \in EntryId : Same(f) \/
        /\ f = e /\ times[f] # NoRow
        /\ times'[f] \in TimeEntry /\ Past(times'[f].changed)
        /\ times'[f].stop = times[f].stop /\ times'[f].state = times[f].state
  BY <1>1, <1>5, <1>7 DEF Rewrites, item
<1>9. /\ second' \in Second /\ second'.op = "create"
      /\ second'.item.stop = half
      /\ second'.item.changed = now /\ second'.item.state = "stopped"
  <2>1. "stopped" \in EntryState
    BY DEF EntryState
  <2>2. [item EXCEPT !.id = g, !.stop = half, !.changed = now, !.state = "stopped"] \in TimeEntry
    BY <1>1, <1>2, <2>1 DEF TimeEntry
  <2>3. second' \in Second
    BY <1>3, <2>2 DEF Second
  <2>4. QED
    BY <1>1, <1>3, <2>3 DEF TimeEntry
<1>10. QED
  BY <1>1, <1>2, <1>7, <1>8, <1>9 DEF item

LEMMA EditRows ==
  ASSUME DialogsInv, NEW start \in Nat, NEW stop \in Nat, ApplyEdit(start, stop)
  PROVE  /\ TimesType'
         /\ \A e \in EntryId :
              \/ Same(e)
              \/ /\ editing.kind = "edit" /\ e = editing.item.id /\ times[e] # NoRow
                 /\ times'[e] \in TimeEntry /\ Past(times'[e].changed)
                 /\ times'[e].stop = stop
              \/ Opens(e) /\ times'[e].stop = stop /\ times'[e].state = "stopped"
<1>1. now \in Nat /\ "stopped" \in EntryState
  BY DEF DialogsInv, DialogTypes, EntryState
<1>2. CASE editing.kind = "edit"
  <2> DEFINE new == [editing.item EXCEPT !.start = start, !.stop = stop, !.changed = now]
  <2>1. editing.item \in TimeEntry
    BY <1>2, Windows
  <2>2. /\ new \in TimeEntry /\ new.id = editing.item.id /\ new.stop = stop
        /\ new.changed = now
    BY <1>1, <2>1 DEF TimeEntry
  <2>3. Update(new)
    BY <1>2 DEF ApplyEdit
  <2> HIDE DEF new
  <2>4. TimesType' /\ \A e \in EntryId : Same(e) \/ Rewrites(e, new)
    BY <1>1, <2>2, <2>3, WriteRows
  <2>5. QED
    BY <1>2, <2>2, <2>4 DEF Rewrites
<1>3. CASE editing.kind = "add"
  <2>1. PICK f \in EntryId :
          Create([id |-> f, owner |-> editing.owner, start |-> start, stop |-> stop,
                  changed |-> now, state |-> "stopped"])
    BY <1>3 DEF ApplyEdit
  <2> DEFINE new == [id |-> f, owner |-> editing.owner, start |-> start, stop |-> stop,
                     changed |-> now, state |-> "stopped"]
  <2>2. editing.owner \in TaskId
    BY <1>3, Windows
  <2>3. /\ new \in TimeEntry /\ new.stop = stop /\ new.state = "stopped"
        /\ Past(new.changed) /\ Create(new)
    BY <1>1, <2>1, <2>2 DEF TimeEntry
  <2> HIDE DEF new
  <2>4. /\ TimesType'
        /\ \A e \in EntryId : Same(e) \/ (e = new.id /\ Opens(e) /\ times'[e] = new)
    BY <2>3, CreateRows
  <2>5. QED
    BY <2>3, <2>4
<1>4. QED
  BY <1>2, <1>3 DEF ApplyEdit

\* The second statement of a handler.
LEMMA SecondRows ==
  ASSUME DialogsInv, SecondStep
  PROVE  /\ TimesType' /\ oldRunning' \subseteq TaskId /\ icon' \in BOOLEAN
         /\ pc = "dialog" /\ question = NoQuestion
         /\ \A e \in EntryId :
              \/ Same(e)
              \/ times[e].state = "running" /\ Ends(e, {"stopped", "deleted"})
              \/ Opens(e) /\ times'[e].state = "running" /\ times'[e].stop = now
              \/ /\ second.op = "create"
                 /\ Opens(e) /\ times'[e].state = "stopped"
                 /\ times'[e].stop = second.item.stop
              \/ /\ second.op = "write" /\ second.item \in Held
                 /\ Rewrites(e, second.item)
<1>1. /\ TimesType /\ now \in Nat /\ NoneLater
      /\ oldRunning \subseteq TaskId /\ icon \in BOOLEAN
  BY DEF DialogsInv, DialogTypes
<1>2. second # Nothing
  <2>1. second.op \in {"stop", "start", "write", "create"}
    BY DEF SecondStep, SecondStop, SecondStart, SecondWrite, SecondCreate
  <2>2. QED
    BY <2>1 DEF Nothing
<1>3. pc = "dialog" /\ question = NoQuestion
  BY <1>2 DEF DialogsInv, Handlers
<1>4. CASE SecondStop
  <2>1. CASE UNCHANGED <<times, viewVars>>
    BY <1>1, <1>3, <2>1 DEF Same, viewVars, TimesType
  <2>2. CASE \E item \in ByState("running") : item.owner = second.owner /\ StopTime(item)
    <3>1. PICK item \in ByState("running") : StopTime(item)
      BY <2>2
    <3>2. /\ TimesType'
          /\ \A e \in EntryId :
               Same(e) \/ (times[e].state = "running" /\ Ends(e, {"stopped", "deleted"}))
      BY <1>1, <3>1, StopsRunning
    <3>3. QED
      BY <1>1, <1>3, <3>1, <3>2, ViewType DEF StopTime
  <2>3. QED
    BY <1>4, <2>1, <2>2 DEF SecondStop
<1>5. CASE SecondStart
  <2>1. CASE UNCHANGED <<times, viewVars>>
    BY <1>1, <1>3, <2>1 DEF Same, viewVars, TimesType
  <2>2. CASE StartTime(second.owner)
    <3>1. second.owner \in TaskId
      BY <1>5, Windows DEF SecondStart
    <3>2. TimesType' /\ \A e \in EntryId :
            Same(e) \/ (Opens(e) /\ times'[e].state = "running" /\ times'[e].stop = now)
      BY <1>1, <2>2, <3>1, Starts
    <3>3. QED
      BY <1>1, <1>3, <2>2, <3>2, ViewType DEF StartTime
  <2>3. QED
    BY <1>5, <2>1, <2>2 DEF SecondStart
<1>6. CASE SecondWrite
  <2>1. /\ second.op = "write" /\ second.item \in TimeEntry /\ second.item \in Held
        /\ Update(second.item) /\ Observe(FALSE)
    BY <1>3, <1>6, Windows DEF SecondWrite, Held, NoQuestion
  <2>2. Past(second.item.changed)
    BY <2>1 DEF DialogsInv, CopiesKept, Kept
  <2>3. TimesType' /\ \A e \in EntryId : Same(e) \/ Rewrites(e, second.item)
    BY <2>1, <2>2, WriteRows
  <2>4. QED
    BY <1>1, <1>3, <2>1, <2>3, ViewType
<1>7. CASE SecondCreate
  <2>1. /\ second.op = "create" /\ second.item \in TimeEntry
        /\ Create(second.item) /\ Observe(FALSE)
    BY <1>7, Windows DEF SecondCreate
  <2>2. Past(second.item.changed) /\ second.item.state = "stopped"
    BY <2>1 DEF DialogsInv, CopiesKept
  <2>3. /\ TimesType'
        /\ \A e \in EntryId :
             Same(e) \/ (e = second.item.id /\ Opens(e) /\ times'[e] = second.item)
    BY <2>1, <2>2, CreateRows
  <2>4. QED
    BY <1>1, <1>3, <2>1, <2>2, <2>3, ViewType
<1>8. QED
  BY <1>4, <1>5, <1>6, <1>7 DEF SecondStep

\* A launch drops the short rows, and leaves the others.
LEMMA LaunchRows ==
  ASSUME DialogsInv, Launch
  PROVE  /\ TimesType'
         /\ \A e \in EntryId : Same(e) \/
              /\ times[e] # NoRow /\ times'[e] = NoRow
              /\ times[e].stop - times[e].start < ShortSpan
<1>1. TimesType
  BY DEF DialogsInv, DialogTypes
<1>2. \A e \in EntryId :
        times'[e] = IF times[e] # NoRow /\ times[e].stop - times[e].start < ShortSpan
                    THEN NoRow ELSE times[e]
  BY DEF Launch, RemoveShortTimeSpans
<1>3. times' \in [EntryId -> TimeEntry \cup {NoRow}]
  BY <1>1 DEF Launch, RemoveShortTimeSpans, TimesType
<1>4. QED
  BY <1>1, <1>2, <1>3 DEF TimesType, Same

-----------------------------------------------------------------------------
(* The invariant is inductive *)

LEMMA InitDialogs == DialogsInit => DialogsInv
<1> SUFFICES ASSUME DialogsInit PROVE DialogsInv
  OBVIOUS
<1>1. KeeperInv /\ pc = "off" /\ question = NoQuestion /\ second = Nothing /\ asking = {}
      /\ editing = NoEdit /\ CopiesOpen /\ NoneLater
  BY InitKeeperInv DEF DialogsInit, Init, CopiesOpen, NoneLater, NoRow
<1>2. DialogTypes
  BY <1>1 DEF DialogTypes, KeeperInv, TypeOK, Question, Edit, Second
<1>3. Handlers
  BY <1>1 DEF Handlers, KeeperInv
<1>4. CopiesKept
  BY <1>1 DEF CopiesKept, Held, NoQuestion, Nothing
<1>5. QED
  BY <1>1, <1>2, <1>3, <1>4 DEF DialogsInv

\* Under an unchanged screen, a keeper's or a tracker's step.
LEMMA KeeperDialogs == DialogsInv /\ KeeperAlone => DialogsInv'
<1> SUFFICES ASSUME DialogsInv, KeeperAlone PROVE DialogsInv'
  OBVIOUS
<1>1. /\ TimesType' /\ CopiesMatch' /\ CopiesOpen'
      /\ \A e \in EntryId : KeeperRow(e)
      /\ todo' \subseteq todo \/ todo' \subseteq ByState("running")
      /\ now' \in Nat /\ (MaxSetBacks = 0 => now' >= now)
      /\ sinceInput' \in Nat /\ setBacks' \in Nat
      /\ gt' \in IdleTimes /\ gz' \in ZeroTimes
      /\ removed' \subseteq TaskId /\ oldRunning' \subseteq TaskId /\ icon' \in BOOLEAN
      /\ pc \in PC /\ pc' \in PC /\ (pc = "off") = (pc' = "off")
  BY KeeperRows
<1>2. /\ UNCHANGED <<asking, question, editing, second>>
      /\ TimesType /\ now \in Nat /\ DialogTypes /\ Handlers /\ NoneLater
      /\ \A e \in EntryId : times[e] # NoRow => times[e].changed \in Nat
      /\ \A c \in Held : c \in TimeEntry /\ c.id \in EntryId /\ c.changed \in Nat
  BY Windows DEF DialogsInv, DialogTypes, KeeperAlone, dialogVars, windowVars, TimesType,
     TimeEntry
<1>3. todo' \subseteq TimeEntry /\ toNotify' \subseteq TimeEntry
  <2>1. todo' \subseteq TimeEntry
    BY <1>1, <1>2, RunningCopies DEF DialogTypes
  <2>2. QED
    BY <1>1, <2>1 DEF CopiesOpen
<1>4. \A e \in EntryId : times[e] # NoRow => times'[e] # NoRow
  BY <1>1, NoRowIsNoEntry DEF KeeperRow, Same, Opens, Ends, Moves
<1>5. DialogTypes'
  BY <1>1, <1>2, <1>3, <1>4 DEF DialogTypes
<1>6. Handlers'
  BY <1>1, <1>2 DEF Handlers, PC
<1>7. NoneLater'
  <2>1. ASSUME NEW e \in EntryId, times'[e] # NoRow PROVE MaxSetBacks = 0 => times'[e].changed <= now'
    <3>1. CASE Same(e)
      BY <1>1, <1>2, <2>1, <3>1 DEF Same, NoneLater
    <3>2. CASE times'[e] \in TimeEntry /\ Past(times'[e].changed)
      BY <1>1, <1>2, <3>2 DEF TimeEntry
    <3>3. QED
      BY <1>1, <1>2, <3>1, <3>2 DEF KeeperRow, Opens, Ends, Moves
  <2>2. QED
    BY <2>1 DEF NoneLater
<1>8. CopiesKept'
  <2>1. Held' = Held
    BY <1>2 DEF Held
  <2>2. ASSUME NEW c \in Held PROVE Kept(c)'
    <3>1. /\ times[c.id] # NoRow /\ Past(c.changed)
          /\ c.state = "paused" =>
               times[c.id].state = "paused" /\ \A d \in todo : d.id # c.id
      BY DEF DialogsInv, CopiesKept, Kept
    <3>2. times'[c.id] # NoRow /\ (MaxSetBacks = 0 => c.changed <= now')
      BY <1>1, <1>2, <1>4, <3>1
    <3>3. ASSUME c.state = "paused"
          PROVE  times'[c.id].state = "paused" /\ \A d \in todo' : d.id # c.id
      <4>1. times[c.id].state = "paused" /\ \A d \in todo : d.id # c.id
        BY <3>1, <3>3
      <4>2. Same(c.id)
        BY <1>1, <1>2, <3>1, <4>1 DEF KeeperRow, Opens, Moves
      <4>3. \A d \in ByState("running") : d.id # c.id
        BY <1>2, <4>1, RunningCopies
      <4>4. QED
        BY <1>1, <4>1, <4>2, <4>3 DEF Same
    <3>4. QED
      BY <3>2, <3>3 DEF Kept
  <2>3. second.op = "create" => second.item \in TimeEntry
    BY Windows
  <2>4. second.op = "create" /\ MaxSetBacks = 0 => second.item.changed <= now'
    BY <1>1, <1>2, <2>3 DEF DialogsInv, CopiesKept, TimeEntry
  <2>5. QED
    BY <1>2, <2>1, <2>2, <2>4 DEF DialogsInv, CopiesKept
<1>9. QED
  BY <1>5, <1>6, <1>7, <1>8 DEF DialogsInv

LEMMA IdleDialogs == DialogsInv /\ IdleDetected => DialogsInv'
<1> SUFFICES ASSUME DialogsInv, IdleDetected PROVE DialogsInv'
  OBVIOUS
<1>0. PICK item \in toNotify : NotifyIdle(item) /\ asking' = asking \cup {item.id}
  BY DEF IdleDetected
<1>1. /\ TimesType' /\ CopiesMatch' /\ CopiesOpen'
      /\ item.id \in EntryId /\ \E c \in todo : c.id = item.id
      /\ \A e \in EntryId : e # item.id => Same(e)
      /\ Ends(item.id, {"paused"}) \/ Refused(item.id)
  BY <1>0, IdleRows
<1>2. /\ UNCHANGED <<question, editing, second, envVars, settingVars, removed, pc, todo>>
      /\ toNotify' \subseteq toNotify /\ Observe(FALSE) /\ pc = "check"
      /\ DialogTypes /\ Handlers /\ NoneLater
      /\ \A c \in Held : c.id \in EntryId
  BY <1>0, Windows DEF IdleDetected, NotifyIdle, DialogsInv, TimeEntry
<1>3. oldRunning' \subseteq TaskId /\ icon' \in BOOLEAN
  BY <1>1, <1>2, ViewType DEF DialogTypes
<1>4. \A e \in EntryId : times[e] # NoRow => times'[e] # NoRow
  BY <1>1, NoRowIsNoEntry DEF Same, Refused, Ends
<1>5. times'[item.id] # NoRow
  <2>1. PICK c \in todo : c.id = item.id
    BY <1>1
  <2>2. times[item.id] # NoRow
    BY <1>2, <2>1, NoRowIsNoEntry DEF Handlers, CopiesOpen, NoRow
  <2>3. QED
    BY <1>1, <1>4, <2>2
<1>6. DialogTypes'
  BY <1>0, <1>1, <1>2, <1>3, <1>4, <1>5 DEF DialogTypes, envVars, settingVars
<1>7. Handlers'
  BY <1>1, <1>2 DEF Handlers
<1>8. NoneLater'
  BY <1>1, <1>2 DEF NoneLater, Same, Refused, Ends, envVars
<1>9. CopiesKept'
  <2>1. Held' = Held
    BY <1>2 DEF Held
  <2>2. ASSUME NEW c \in Held PROVE Kept(c)'
    <3>1. /\ times[c.id] # NoRow /\ Past(c.changed)
          /\ c.state = "paused" =>
               times[c.id].state = "paused" /\ \A d \in todo : d.id # c.id
      BY DEF DialogsInv, CopiesKept, Kept
    <3>2. times'[c.id] # NoRow
      BY <1>2, <1>4, <3>1
    <3>3. c.state = "paused" => times'[c.id].state = "paused"
      BY <1>1, <1>2, <3>1 DEF Same, Refused
    <3>4. QED
      BY <1>2, <3>1, <3>2, <3>3 DEF Kept, envVars
  <2>3. QED
    BY <1>2, <2>1, <2>2 DEF DialogsInv, CopiesKept, envVars
<1>10. QED
  BY <1>6, <1>7, <1>8, <1>9 DEF DialogsInv

\* A handler of a dialog has the thread, or just got or left it.
LEMMA RestDialogs ==
  ASSUME DialogsInv, pc \in {"ready", "dialog"}, pc' \in {"ready", "dialog"},
         UNCHANGED <<now, setBacks, settingVars, removed, todo, toNotify>>, sinceInput' \in Nat,
         oldRunning' \subseteq TaskId, icon' \in BOOLEAN, TimesType',
         \A e \in EntryId : Same(e) \/ (times'[e] \in TimeEntry /\ Past(times'[e].changed)),
         asking' \subseteq asking,
         question' \in Question, editing' \in Edit, second' \in Second,
         second' # Nothing => pc' = "dialog" /\ question' = NoQuestion,
         \A c \in Held' : /\ times'[c.id] # NoRow /\ Past(c.changed)
                          /\ c.state = "paused" => times'[c.id].state = "paused",
         question'.kind = "merge" => question'.item.id # question'.next.id,
         second'.op = "create" => Past(second'.item.changed) /\ second'.item.state = "stopped"
  PROVE  DialogsInv'
<1>1. DialogTypes /\ Handlers /\ NoneLater /\ todo = {} /\ toNotify = {}
  BY DEF DialogsInv, Handlers, CopiesMatch
<1>2. \A e \in EntryId : times[e] # NoRow => times'[e] # NoRow
  BY NoRowIsNoEntry DEF Same
<1>3. DialogTypes'
  BY <1>1, <1>2 DEF DialogTypes, settingVars, PC
<1>4. Handlers'
  BY <1>1 DEF Handlers, CopiesMatch, CopiesOpen
<1>5. NoneLater'
  BY <1>1 DEF NoneLater, Same
<1>6. CopiesKept'
  BY <1>1 DEF CopiesKept, Kept
<1>7. QED
  BY <1>3, <1>4, <1>5, <1>6 DEF DialogsInv

\* The user answers nothing while a handler runs.
LEMMA AtReady ==
  ASSUME DialogsInv, pc = "ready"
  PROVE  /\ second = Nothing /\ second \in Second /\ editing \in Edit /\ question \in Question
         /\ now \in Nat /\ TimesType /\ NoneLater
         /\ oldRunning \subseteq TaskId /\ icon \in BOOLEAN
         /\ \A e \in EntryId : times[e] # NoRow =>
              /\ times[e] \in TimeEntry /\ times[e].id = e /\ Past(times[e].changed)
              /\ times[e].owner \in TaskId
  BY DEF DialogsInv, DialogTypes, Handlers, NoneLater, TimesType, TimeEntry

LEMMA NothingHeld ==
  ASSUME DialogsInv, question = NoQuestion, second.op # "write" PROVE Held = {}
  BY DEF Held, NoQuestion

\* A write by an answer leaves nothing to be kept.
LEMMA AnswerDialogs == DialogsInv /\ Answer => DialogsInv'
<1> SUFFICES ASSUME DialogsInv, Answer PROVE DialogsInv'
  OBVIOUS
<1>0. PICK e \in asking :
        Continue(e) \/ RevertAndStop(e) \/ RevertAndContinue(e) \/ Dismiss(e)
  BY DEF Answer
<1>1. /\ pc = "ready" /\ question = NoQuestion /\ question' = question
      /\ UNCHANGED <<now, setBacks, settingVars, removed, todo, toNotify, editing>>
      /\ sinceInput' = 0 /\ asking' \subseteq asking
  BY <1>0 DEF Continue, RevertAndStop, RevertAndContinue, Dismiss, UserReaches, UserActs,
     Unmoved
<1>2. /\ second = Nothing /\ second \in Second /\ editing \in Edit /\ question \in Question
      /\ TimesType /\ oldRunning \subseteq TaskId /\ icon \in BOOLEAN
      /\ e \in EntryId /\ times[e].owner \in TaskId
  BY <1>1, AtReady DEF DialogsInv, DialogTypes
<1>3. /\ TimesType'
      /\ \A f \in EntryId : Same(f) \/ (times'[f] \in TimeEntry /\ Past(times'[f].changed))
      /\ oldRunning' \subseteq TaskId /\ icon' \in BOOLEAN
  <2>1. CASE Continue(e)
    <3>1. /\ TimesType' /\ \A f \in EntryId : f # e => Same(f)
          /\ Same(e) \/ (times'[e] \in TimeEntry /\ Past(times'[e].changed))
      BY <2>1, ContinueRows DEF Goes, Refused
    <3>2. Observe(FALSE)
      BY <2>1 DEF Continue
    <3>3. QED
      BY <1>2, <3>1, <3>2, ViewType
  <2>2. CASE RevertAndStop(e) \/ RevertAndContinue(e)
    <3>1. StopTime(times[e])
      BY <2>2 DEF RevertAndStop, RevertAndContinue
    <3>2. /\ TimesType' /\ \A f \in EntryId : f # e => Same(f)
          /\ Ends(e, {"stopped", "deleted"}) \/ Refused(e)
      BY <3>1, RevertRows
    <3>3. QED
      BY <1>2, <3>1, <3>2, ViewType DEF StopTime, Ends, Refused
  <2>3. CASE Dismiss(e)
    BY <1>2, <2>3 DEF Dismiss, Same, viewVars, TimesType
  <2>4. QED
    BY <1>0, <2>1, <2>2, <2>3
<1>4. /\ pc' \in {"ready", "dialog"}
      /\ second' # Nothing => pc' = "dialog"
      /\ second' \in Second /\ second'.op \in {"none", "stop", "start"}
  <2>1. CASE Continue(e) \/ Dismiss(e)
    <3>1. pc' = pc /\ second' = second
      BY <2>1 DEF Continue, Dismiss
    <3>2. QED
      BY <1>1, <1>2, <3>1 DEF Nothing
  <2>2. CASE RevertAndStop(e) \/ RevertAndContinue(e)
    <3>1. /\ pc' = "dialog"
          /\ \/ second' = [op |-> "stop", owner |-> times[e].owner]
             \/ second' = [op |-> "start", owner |-> times[e].owner]
      BY <2>2 DEF RevertAndStop, RevertAndContinue, Then
    <3>2. QED
      BY <1>2, <3>1 DEF Second
  <2>3. QED
    BY <1>0, <2>1, <2>2
<1>5. Held' = {}
  BY <1>1, <1>4 DEF Held, NoQuestion
<1>6. question'.kind # "merge"
  BY <1>1 DEF NoQuestion
<1>7. QED
  BY <1>1, <1>2, <1>3, <1>4, <1>5, <1>6, RestDialogs

LEMMA AskDialogs ==
  ASSUME DialogsInv,
         \/ \E e \in EntryId : AskRemove(e) \/ OpenEdit(e)
         \/ \E e, f \in EntryId : AskMerge(e, f)
         \/ \E t \in TaskId : OpenAdd(t)
         \/ AnswerCancel \/ CancelEdit
  PROVE  DialogsInv'
<1>1. /\ pc = "ready" /\ pc' = pc /\ asking' = asking /\ second' = second
      /\ UNCHANGED <<now, setBacks, settingVars, removed, todo, toNotify, times, viewVars>>
      /\ sinceInput' = 0
  BY DEF AskRemove, OpenEdit, AskMerge, OpenAdd, AnswerCancel, CancelEdit, UserReaches,
     UserActs, Unmoved
<1>2. /\ second = Nothing /\ second \in Second /\ editing \in Edit /\ question \in Question
      /\ TimesType /\ oldRunning \subseteq TaskId /\ icon \in BOOLEAN
      /\ \A e \in EntryId : times[e] # NoRow =>
           times[e] \in TimeEntry /\ times[e].id = e /\ Past(times[e].changed)
  BY <1>1, AtReady
<1> DEFINE Asked == /\ question' \in Question /\ editing' \in Edit
                    /\ \A c \in Held' : /\ times'[c.id] # NoRow /\ Past(c.changed)
                                        /\ c.state = "paused" => times'[c.id].state = "paused"
                    /\ question'.kind = "merge" => question'.item.id # question'.next.id
<1>3. Asked
  <2>1. ASSUME NEW e \in EntryId, AskRemove(e) PROVE Asked
    <3>1. /\ times[e] # NoRow /\ question' = [kind |-> "remove", item |-> times[e]]
          /\ editing' = editing
      BY <2>1 DEF AskRemove
    <3>2. Held' = {times[e]}
      <4>1. question'.kind = "remove" /\ question'.item = times[e]
        BY <3>1
      <4>2. QED
        BY <4>1 DEF Held
    <3>3. question' \in Question
      BY <1>2, <3>1 DEF Question
    <3>4. QED
      BY <1>1, <1>2, <3>1, <3>2, <3>3
  <2>2. ASSUME NEW e \in EntryId, NEW f \in EntryId, AskMerge(e, f) PROVE Asked
    <3>1. /\ times[e] # NoRow /\ times[f] # NoRow /\ e # f /\ editing' = editing
          /\ question' = [kind |-> "merge", item |-> times[e], next |-> times[f]]
      BY <2>2 DEF AskMerge
    <3>2. Held' = {times[e], times[f]}
      <4>1. /\ question'.kind = "merge"
            /\ question'.item = times[e] /\ question'.next = times[f]
        BY <3>1
      <4>2. QED
        BY <4>1 DEF Held
    <3>3. question' \in Question
      BY <1>2, <3>1 DEF Question
    <3>4. QED
      BY <1>1, <1>2, <3>1, <3>2, <3>3
  <2>3. ASSUME NEW e \in EntryId, OpenEdit(e) PROVE Asked
    <3>1. /\ times[e] # NoRow /\ editing' = [kind |-> "edit", item |-> times[e]]
          /\ question = NoQuestion /\ question' = question
      BY <2>3 DEF OpenEdit, UserReaches
    <3>2. Held' = {} /\ question'.kind # "merge"
      BY <1>1, <1>2, <3>1 DEF Held, NoQuestion, Nothing
    <3>3. editing' \in Edit
      BY <1>2, <3>1 DEF Edit
    <3>4. QED
      BY <1>2, <3>1, <3>2, <3>3
  <2>4. ASSUME NEW t \in TaskId, OpenAdd(t) PROVE Asked
    <3>1. /\ editing' = [kind |-> "add", owner |-> t]
          /\ question = NoQuestion /\ question' = question
      BY <2>4 DEF OpenAdd, UserReaches
    <3>2. Held' = {} /\ question'.kind # "merge"
      BY <1>1, <1>2, <3>1 DEF Held, NoQuestion, Nothing
    <3>3. QED
      BY <1>2, <3>1, <3>2 DEF Edit
  <2>5. CASE AnswerCancel \/ CancelEdit
    <3>1. /\ question' = NoQuestion /\ editing' \in {NoEdit, editing}
      BY <2>5 DEF AnswerCancel, CancelEdit, UserReaches
    <3>2. Held' = {} /\ question'.kind # "merge"
      BY <1>1, <1>2, <3>1 DEF Held, NoQuestion, Nothing
    <3>3. QED
      BY <1>2, <3>1, <3>2 DEF Edit, Question
  <2>6. QED
    BY <2>1, <2>2, <2>3, <2>4, <2>5
<1>4. QED
  BY <1>1, <1>2, <1>3, RestDialogs DEF Same, viewVars, TimesType, Nothing

\* The answers to the questions, and what the list does without a question.
LEMMA DetailsDialogs ==
  ASSUME DialogsInv, ConfirmRemove \/ ConfirmMerge \/ (\E e \in EntryId : Split(e))
  PROVE  DialogsInv'
<1>1. /\ pc = "ready" /\ asking' = asking /\ editing' = editing
      /\ UNCHANGED <<now, setBacks, settingVars, removed, todo, toNotify>>
      /\ sinceInput' = 0 /\ question' = NoQuestion /\ Observe(FALSE)
  BY DEF ConfirmRemove, ConfirmMerge, Split, UserReaches, UserActs, Unmoved, windowVars
<1>2. /\ second = Nothing /\ second \in Second /\ editing \in Edit
      /\ oldRunning \subseteq TaskId /\ icon \in BOOLEAN /\ TimesType
  BY <1>1, AtReady
<1>3. question' \in Question /\ question'.kind = "none"
  BY <1>1 DEF Question, NoQuestion
<1>views. ASSUME TimesType' PROVE oldRunning' \subseteq TaskId /\ icon' \in BOOLEAN
  BY <1>1, <1>2, <1>views, ViewType
<1>4. CASE ConfirmRemove
  <2>1. /\ TimesType'
        /\ \A e \in EntryId : Same(e) \/ (times'[e] \in TimeEntry /\ Past(times'[e].changed))
    BY <1>4, RemoveRows
  <2>2. pc' = pc /\ second' = second
    BY <1>4 DEF ConfirmRemove
  <2>3. Held' = {}
    BY <1>2, <1>3, <2>2 DEF Held, Nothing
  <2>4. second'.op = "none"
    BY <1>2, <2>2 DEF Nothing
  <2>5. QED
    BY <1>1, <1>2, <1>3, <1>views, <2>1, <2>2, <2>3, <2>4, RestDialogs
<1>5. CASE ConfirmMerge
  <2>1. /\ TimesType' /\ question.item \in Held /\ question.next \in Held
        /\ \A e \in EntryId :
             \/ Same(e)
             \/ e = question.item.id /\ times'[e] \in TimeEntry /\ Past(times'[e].changed)
        /\ second' \in Second /\ second'.op = "write"
        /\ second'.item.id = question.next.id
        /\ second'.item.state = question.next.state
        /\ Past(second'.item.changed)
    BY <1>5, MergeRows
  <2>2. /\ pc' = "dialog" /\ Kept(question.next) /\ question.item.id # question.next.id
        /\ question.next.id \in EntryId
    BY <1>5, <2>1, Windows DEF ConfirmMerge, Then, DialogsInv, CopiesKept, TimeEntry
  <2>3. Same(question.next.id)
    BY <2>1, <2>2
  <2>4. Held' = {second'.item}
    BY <1>3, <2>1 DEF Held
  <2>5. /\ times'[second'.item.id] # NoRow
        /\ second'.item.state = "paused" => times'[second'.item.id].state = "paused"
    BY <2>1, <2>2, <2>3 DEF Kept, Same
  <2>6. QED
    BY <1>1, <1>2, <1>3, <1>views, <2>1, <2>2, <2>4, <2>5, RestDialogs
<1>6. CASE \E e \in EntryId : Split(e)
  <2>1. PICK e \in EntryId : Split(e)
    BY <1>6
  <2>2. /\ TimesType'
        /\ \A f \in EntryId : Same(f) \/ (times'[f] \in TimeEntry /\ Past(times'[f].changed))
        /\ second' \in Second /\ second'.op = "create"
        /\ Past(second'.item.changed) /\ second'.item.state = "stopped"
    BY <2>1, SplitRows
  <2>3. pc' = "dialog"
    BY <2>1 DEF Split, Then
  <2>4. Held' = {}
    BY <1>3, <2>2 DEF Held
  <2>5. QED
    BY <1>1, <1>2, <1>3, <1>views, <2>2, <2>3, <2>4, RestDialogs
<1>7. QED
  BY <1>4, <1>5, <1>6

LEMMA EditDialogs ==
  ASSUME DialogsInv, NEW start \in Nat, NEW stop \in Nat, ApplyEdit(start, stop)
  PROVE  DialogsInv'
<1>1. /\ pc = "ready" /\ pc' = pc /\ asking' = asking /\ editing' = NoEdit
      /\ second' = second /\ question = NoQuestion /\ question' = question
      /\ UNCHANGED <<now, setBacks, settingVars, removed, todo, toNotify>>
      /\ sinceInput' = 0 /\ Observe(FALSE)
  BY DEF ApplyEdit, UserReaches, UserActs, Unmoved
<1>2. /\ second = Nothing /\ second \in Second /\ question \in Question
      /\ oldRunning \subseteq TaskId /\ icon \in BOOLEAN
  BY <1>1, AtReady
<1>3. /\ TimesType'
      /\ \A e \in EntryId : Same(e) \/ (times'[e] \in TimeEntry /\ Past(times'[e].changed))
  BY EditRows DEF Opens
<1>4. oldRunning' \subseteq TaskId /\ icon' \in BOOLEAN
  BY <1>1, <1>2, <1>3, ViewType
<1>5. question'.kind = "none" /\ second'.op = "none"
  BY <1>1, <1>2 DEF NoQuestion, Nothing
<1>6. Held' = {} /\ editing' \in Edit
  BY <1>1, <1>5 DEF Held, Edit
<1>7. QED
  BY <1>1, <1>2, <1>3, <1>4, <1>5, <1>6, RestDialogs

LEMMA SecondDialogs == DialogsInv /\ SecondStep => DialogsInv'
<1> SUFFICES ASSUME DialogsInv, SecondStep PROVE DialogsInv'
  OBVIOUS
<1>1. /\ TimesType' /\ oldRunning' \subseteq TaskId /\ icon' \in BOOLEAN
      /\ pc = "dialog" /\ question = NoQuestion
      /\ \A e \in EntryId : Same(e) \/ (times'[e] \in TimeEntry /\ Past(times'[e].changed))
  BY SecondRows DEF Ends, Opens, Rewrites
<1>2. /\ pc' = "ready" /\ second' = Nothing
      /\ UNCHANGED <<envVars, settingVars, removed, todo, toNotify, windowVars>>
  BY DEF SecondStep, SecondStop, SecondStart, SecondWrite, SecondCreate, EndHandler
<1>3. question \in Question /\ editing \in Edit /\ sinceInput \in Nat
  BY DEF DialogsInv, DialogTypes
<1>4. question'.kind = "none" /\ second'.op = "none"
  BY <1>1, <1>2 DEF NoQuestion, Nothing, windowVars
<1>5. Held' = {} /\ second' \in Second
  BY <1>2, <1>4 DEF Held, Second
<1>6. QED
  BY <1>1, <1>2, <1>3, <1>4, <1>5, RestDialogs DEF envVars, windowVars

\* The process ends, and what was on the screen with it.
LEMMA QuitDialogs == DialogsInv /\ Quit => DialogsInv'
<1> SUFFICES ASSUME DialogsInv, Quit PROVE DialogsInv'
  OBVIOUS
<1>1. /\ pc' = "off" /\ todo' = {} /\ toNotify' = {} /\ oldRunning' = {} /\ icon' = FALSE
      /\ UNCHANGED <<times, now, sinceInput, setBacks, gt, gz, removed>>
      /\ asking' = {} /\ question' = NoQuestion /\ editing' = NoEdit /\ second' = Nothing
  BY DEF Quit, Down, envVars, settingVars
<1>2. question'.kind = "none" /\ second'.op = "none"
  BY <1>1 DEF NoQuestion, Nothing
<1>3. DialogTypes'
  BY <1>1 DEF DialogsInv, DialogTypes, TimesType, PC, Question, Edit, Second
<1>4. Handlers'
  BY <1>1 DEF Handlers, CopiesMatch, CopiesOpen
<1>5. NoneLater'
  BY <1>1 DEF DialogsInv, NoneLater
<1>6. CopiesKept'
  BY <1>2 DEF CopiesKept, Held
<1>7. QED
  BY <1>3, <1>4, <1>5, <1>6 DEF DialogsInv

\* After a launch a dialog is open for each entry that was left paused.
LEMMA RestartDialogs == DialogsInv /\ Restart => DialogsInv'
<1> SUFFICES ASSUME DialogsInv, Restart PROVE DialogsInv'
  OBVIOUS
<1>1. /\ pc = "off" /\ pc' = "ready" /\ oldRunning' = {} /\ icon' = (RunningTasks' # {})
      /\ UNCHANGED <<now, sinceInput, setBacks, gt, gz, removed, todo, toNotify>>
      /\ asking' = {e \in EntryId : times'[e].state = "paused"}
      /\ UNCHANGED <<question, editing, second>>
  BY DEF Restart, Launch, envVars, settingVars
<1>2. /\ DialogTypes /\ Handlers /\ NoneLater /\ todo = {} /\ toNotify = {}
      /\ question = NoQuestion /\ second = Nothing
  BY <1>1 DEF DialogsInv, Handlers, CopiesMatch
<1>3. /\ TimesType'
      /\ \A e \in EntryId : Same(e) \/ times'[e] = NoRow
  BY LaunchRows DEF Restart
<1>4. icon' \in BOOLEAN
  BY <1>1
<1>5. asking' \subseteq EntryId /\ \A e \in asking' : times'[e] # NoRow
  BY <1>1 DEF NoRow
<1>6. DialogTypes'
  BY <1>1, <1>2, <1>3, <1>4, <1>5 DEF DialogTypes, PC
<1>7. Handlers'
  BY <1>1, <1>2 DEF Handlers, CopiesMatch, CopiesOpen
<1>8. NoneLater'
  BY <1>1, <1>2, <1>3 DEF NoneLater, Same
<1>9. question'.kind = "none" /\ second'.op = "none"
  BY <1>1, <1>2 DEF NoQuestion, Nothing
<1>10. CopiesKept'
  BY <1>9 DEF CopiesKept, Held
<1>11. QED
  BY <1>6, <1>7, <1>8, <1>10 DEF DialogsInv

LEMMA StepDialogs == DialogsInv /\ [DialogsNext]_allVars => DialogsInv'
<1> SUFFICES ASSUME DialogsInv, [DialogsNext]_allVars PROVE DialogsInv'
  OBVIOUS
<1>1. CASE KeeperAlone \/ IdleDetected \/ Quit \/ Restart \/ Answer \/ SecondStep
  BY <1>1, KeeperDialogs, IdleDialogs, QuitDialogs, RestartDialogs, AnswerDialogs,
     SecondDialogs
<1>2. CASE Details
  BY <1>2, AskDialogs, DetailsDialogs DEF Details
<1>3. CASE Editing
  <2>1. ASSUME NEW start \in 0 .. now + EditAhead, NEW stop \in 0 .. now + EditAhead,
               ApplyEdit(start, stop)
        PROVE  DialogsInv'
    <3>1. start \in Nat /\ stop \in Nat
      BY DialogsAssumption DEF DialogsInv, DialogTypes
    <3>2. QED
      BY <2>1, <3>1, EditDialogs
  <2>2. QED
    BY <1>3, <2>1, AskDialogs DEF Editing
<1>4. CASE UNCHANGED allVars
  <2>1. UNCHANGED <<times, now, sinceInput, setBacks, gt, gz, removed, pc, todo, toNotify, oldRunning,
                    icon, asking, question, editing, second>>
    BY <1>4 DEF allVars, vars, dialogVars, windowVars, envVars, settingVars, viewVars
  <2>2. DialogTypes' = DialogTypes /\ Handlers' = Handlers /\ NoneLater' = NoneLater
    BY <2>1 DEF DialogTypes, TimesType, Handlers, CopiesMatch, CopiesOpen, NoneLater
  <2>3. Held' = Held
    BY <2>1 DEF Held
  <2>4. CopiesKept'
    BY <2>1, <2>3 DEF DialogsInv, CopiesKept, Kept
  <2>5. QED
    BY <2>2, <2>4 DEF DialogsInv
<1>5. QED
  BY <1>1, <1>2, <1>3, <1>4 DEF DialogsNext

THEOREM DialogsInvariant == DialogsSpec => []DialogsInv
  BY InitDialogs, StepDialogs, PTL DEF DialogsSpec

(***************************************************************************)
(* Whatever is answered, edited, stopped or killed under the dialogs, the  *)
(* rows, the copies the dialogs hold and what waits to be written keep     *)
(* their types.                                                            *)
(***************************************************************************)
THEOREM DialogsTypeCorrect == DialogsSpec => []DialogsTypeOK
<1>1. DialogsInv => DialogsTypeOK
  BY DEF DialogsInv, DialogTypes, DialogsTypeOK
<1>2. QED
  BY <1>1, DialogsInvariant, PTL

-----------------------------------------------------------------------------
(* What a step did to a row, and who did it *)

WasTimed(e) == times[e].state \in {"running", "paused"}

OnTime(e) ==
  \/ times'[e].stop <= now + EditAhead
  \/ second.op = "create" /\ times'[e].stop = second.item.stop

Outcome(e) ==
  \/ Same(e)
  \/ Opens(e) /\ OnTime(e)
  \* the keeper
  \/ WasTimed(e) /\ Ends(e, {"stopped", "deleted"})
  \/ WasTimed(e) /\ Ends(e, {"paused"}) /\ e \in asking'
  \/ pc = "extend" /\ times[e] \in todo /\ Moves(e)
  \* a launch
  \/ /\ times[e] # NoRow /\ times'[e] = NoRow
     /\ times[e].stop - times[e].start < ShortSpan
  \* the idle dialog
  \/ /\ Continue(e) /\ e \in asking \ asking'
     /\ times'[e] \in TimeEntry /\ times'[e].start = times[e].start
     /\ times'[e].stop = now /\ times'[e].state = "running"
  \/ e \in asking \ asking' /\ Ends(e, {"stopped", "deleted"})
  \* the details
  \/ /\ question' # question /\ times[e] # NoRow /\ times'[e] \in TimeEntry
     /\ \E c \in Held : e = c.id /\ times'[e].stop = c.stop
     /\ times'[e].state \in {"running", "deleted"}
  \/ second.op = "write" /\ second.item \in Held /\ Rewrites(e, second.item)
  \/ /\ Split(e) /\ times[e] # NoRow /\ times'[e] \in TimeEntry
     /\ times'[e].stop = times[e].stop /\ times'[e].state = times[e].state
  \* the edit dialog
  \/ /\ editing.kind = "edit" /\ editing.item.id = e
     /\ times[e] # NoRow /\ times'[e] \in TimeEntry /\ OnTime(e)

LEMMA Outcomes ==
  ASSUME DialogsInv, DialogsNext
  PROVE  \A e \in EntryId : Outcome(e)
<1> SUFFICES ASSUME NEW e \in EntryId PROVE Outcome(e)
  OBVIOUS
<1>1. /\ now \in Nat /\ EditAhead \in Nat
      /\ \A c \in todo : c.id = e => WasTimed(e)
      /\ times[e] \in todo => times[e].id = e
  BY DialogsAssumption
     DEF DialogsInv, DialogTypes, Handlers, CopiesOpen, WasTimed, TimesType, NoRow, TimeEntry
<1>2. CASE KeeperAlone
  <2>1. KeeperRow(e)
    BY <1>2, KeeperRows
  <2>2. times'[e].stop = now => OnTime(e)
    BY <1>1 DEF OnTime
  <2>3. times[e].state = "running" => WasTimed(e)
    BY DEF WasTimed
  <2>4. QED
    BY <1>1, <2>1, <2>2, <2>3 DEF KeeperRow, Outcome
<1>3. CASE IdleDetected
  <2>1. PICK item \in toNotify : NotifyIdle(item) /\ asking' = asking \cup {item.id}
    BY <1>3 DEF IdleDetected
  <2>2. /\ \E c \in todo : c.id = item.id
        /\ \A f \in EntryId : f # item.id => Same(f)
        /\ Ends(item.id, {"paused"}) \/ Refused(item.id)
    BY <2>1, IdleRows
  <2>3. QED
    BY <1>1, <2>1, <2>2 DEF Outcome, Refused
<1>4. ASSUME times' = times PROVE Outcome(e)
  BY <1>4 DEF Outcome, Same
<1>5. CASE Quit
  BY <1>4, <1>5 DEF Quit, Down
<1>6. CASE Restart
  BY <1>6, LaunchRows DEF Restart, Outcome
<1>7. CASE Answer
  <2>1. PICK f \in asking :
          Continue(f) \/ RevertAndStop(f) \/ RevertAndContinue(f) \/ Dismiss(f)
    BY <1>7 DEF Answer
  <2>2. CASE Continue(f)
    <3>1. f \in asking \ asking'
      BY <2>2 DEF Continue
    <3>2. QED
      BY <2>2, <3>1, ContinueRows DEF Outcome, Goes, Refused
  <2>3. CASE RevertAndStop(f) \/ RevertAndContinue(f)
    <3>1. f \in asking \ asking' /\ StopTime(times[f])
      BY <2>3 DEF RevertAndStop, RevertAndContinue
    <3>2. QED
      BY <3>1, RevertRows DEF Outcome, Refused
  <2>4. CASE Dismiss(f)
    BY <1>4, <2>4 DEF Dismiss
  <2>5. QED
    BY <2>1, <2>2, <2>3, <2>4
<1>8. CASE Details
  <2>1. CASE ConfirmRemove
    <3>1. question' # question
      BY <2>1 DEF ConfirmRemove, NoQuestion
    <3>2. QED
      BY <2>1, <3>1, RemoveRows DEF Outcome
  <2>2. CASE ConfirmMerge
    <3>1. question' # question
      BY <2>2 DEF ConfirmMerge, NoQuestion
    <3>2. QED
      BY <2>2, <3>1, MergeRows DEF Outcome
  <2>3. ASSUME NEW f \in EntryId, Split(f) PROVE Outcome(e)
    BY <2>3, SplitRows DEF Outcome
  <2>4. ASSUME NEW f \in EntryId, AskRemove(f) \/ OpenEdit(f) PROVE Outcome(e)
    BY <1>4, <2>4 DEF AskRemove, OpenEdit
  <2>5. ASSUME NEW f \in EntryId, NEW g \in EntryId, AskMerge(f, g) PROVE Outcome(e)
    BY <1>4, <2>5 DEF AskMerge
  <2>6. CASE AnswerCancel
    BY <1>4, <2>6 DEF AnswerCancel
  <2>7. QED
    BY <1>8, <2>1, <2>2, <2>3, <2>4, <2>5, <2>6 DEF Details
<1>9. CASE Editing
  <2>1. ASSUME NEW start \in 0 .. now + EditAhead, NEW stop \in 0 .. now + EditAhead,
               ApplyEdit(start, stop)
        PROVE  Outcome(e)
    <3>1. start \in Nat /\ stop \in Nat /\ stop <= now + EditAhead
      BY <1>1
    <3>2. times'[e].stop = stop => OnTime(e)
      BY <3>1 DEF OnTime
    <3>3. QED
      BY <2>1, <3>1, <3>2, EditRows DEF Outcome
  <2>2. CASE CancelEdit \/ \E t \in TaskId : OpenAdd(t)
    BY <1>4, <2>2 DEF CancelEdit, OpenAdd
  <2>3. QED
    BY <1>9, <2>1, <2>2 DEF Editing
<1>10. CASE SecondStep
  <2>1. \/ Same(e)
        \/ times[e].state = "running" /\ Ends(e, {"stopped", "deleted"})
        \/ Opens(e) /\ times'[e].state = "running" /\ times'[e].stop = now
        \/ second.op = "create" /\ Opens(e) /\ times'[e].stop = second.item.stop
        \/ second.op = "write" /\ second.item \in Held /\ Rewrites(e, second.item)
    BY <1>10, SecondRows
  <2>2. /\ times'[e].stop = now => OnTime(e)
        /\ second.op = "create" /\ times'[e].stop = second.item.stop => OnTime(e)
    BY <1>1 DEF OnTime
  <2>3. times[e].state = "running" => WasTimed(e)
    BY DEF WasTimed
  <2>4. QED
    BY <2>1, <2>2, <2>3 DEF Outcome
<1>11. QED
  BY <1>2, <1>3, <1>5, <1>6, <1>7, <1>8, <1>9, <1>10 DEF DialogsNext, Editing

\* A dialog about a paused entry goes only by being dismissed, or by an
\* answer that is refused.
LEMMA AskingKept ==
  ASSUME DialogsInv, DialogsNext, NEW e \in EntryId,
         pc' # "off", times'[e].state = "paused", e \notin asking'
  PROVE  Dismiss(e) \/ AnswerRefused(e) \/ (pc # "off" /\ e \notin asking)
<1>1. CASE Restart
  BY <1>1 DEF Restart
<1>2. CASE Quit
  BY <1>2 DEF Quit, Down
<1>3. CASE KeeperAlone
  BY <1>3, KeeperRows DEF KeeperAlone, dialogVars, windowVars
<1>4. CASE IdleDetected
  BY <1>4 DEF IdleDetected, NotifyIdle
<1>5. CASE SecondStep
  <2>1. asking' = asking
    BY <1>5 DEF SecondStep, SecondStop, SecondStart, SecondWrite, SecondCreate, EndHandler,
       windowVars
  <2>2. pc # "off"
    BY <1>5, SecondRows
  <2>3. QED
    BY <2>1, <2>2
<1>6. CASE Details \/ Editing
  <2>1. asking' = asking /\ pc = "ready"
    BY <1>6 DEF Details, Editing, AskRemove, OpenEdit, AskMerge, OpenAdd, AnswerCancel,
       CancelEdit, ConfirmRemove, ConfirmMerge, Split, ApplyEdit, UserReaches, UserActs,
       windowVars
  <2>2. QED
    BY <2>1
<1>7. CASE Answer
  <2>1. PICK f \in asking :
          Continue(f) \/ RevertAndStop(f) \/ RevertAndContinue(f) \/ Dismiss(f)
    BY <1>7 DEF Answer
  <2>2. asking' = asking \ {f} /\ pc = "ready"
    BY <2>1 DEF Continue, RevertAndStop, RevertAndContinue, Dismiss, UserReaches, UserActs
  <2>3. CASE f # e
    BY <2>2, <2>3
  <2>4. CASE f = e
    <3>1. Continue(e) => Goes(e) \/ Refused(e)
      BY <2>4, ContinueRows
    <3>2. RevertAndStop(e) \/ RevertAndContinue(e) =>
            Ends(e, {"stopped", "deleted"}) \/ Refused(e)
      BY <2>4, RevertRows DEF RevertAndStop, RevertAndContinue
    <3>3. Dismiss(e) \/ Refused(e)
      BY <2>1, <2>4, <3>1, <3>2 DEF Ends, Goes
    <3>4. QED
      BY <2>2, <2>4, <3>3 DEF Refused, AnswerRefused
  <2>5. QED
    BY <2>3, <2>4
<1>8. QED
  BY <1>1, <1>2, <1>3, <1>4, <1>5, <1>6, <1>7 DEF DialogsNext

(***************************************************************************)
(* An entry that a crash left paused is asked about after every launch     *)
(* until the user answers, whatever is edited, merged, split or removed    *)
(* under the open dialog, however often the process dies again, and also   *)
(* when the clock is set back: then an answer may be refused, which is     *)
(* named, and nothing else takes the dialog away.                          *)
(***************************************************************************)
THEOREM PausedAreAskedAbout == DialogsSpec => PausedIsAsked
<1>1. ASSUME DialogsInv, DialogsNext, NEW e \in EntryId, Unasked(e)'
      PROVE  \/ Unasked(e) \/ Dismiss(e) \/ AnswerRefused(e)
             \/ editing.kind = "edit" /\ editing.item.id = e
  <2>1. pc' # "off" /\ times'[e].state = "paused" /\ e \notin asking'
    BY <1>1 DEF Unasked
  <2>2. Dismiss(e) \/ AnswerRefused(e) \/ (pc # "off" /\ e \notin asking)
    BY <1>1, <2>1, AskingKept
  <2>3. Outcome(e)
    BY <1>1, Outcomes
  <2>4. second.op = "write" /\ second.item \in Held /\ Rewrites(e, second.item)
          => times[e].state = "paused"
    BY <1>1, <2>1 DEF Rewrites, DialogsInv, CopiesKept, Kept
  <2>5. times[e].state = "paused" \/ (editing.kind = "edit" /\ editing.item.id = e)
    BY <2>1, <2>3, <2>4 DEF Outcome, Same, Opens, Ends, Moves, NoRow
  <2>6. QED
    BY <2>2, <2>5 DEF Unasked
<1>2. DialogsInv /\ [DialogsNext]_allVars =>
        [\A e \in EntryId :
           Unasked(e)' => \/ Unasked(e) \/ Dismiss(e) \/ AnswerRefused(e)
                          \/ editing.kind = "edit" /\ editing.item.id = e]_allVars
  BY <1>1
<1>3. QED
  BY <1>2, DialogsInvariant, PTL DEF DialogsSpec, PausedIsAsked

-----------------------------------------------------------------------------
(* Nothing ends ahead of the clock, as long as nobody edits it to *)

LEMMA RowStops ==
  ASSUME DialogsInv, NothingAhead, EditAhead = 0, DialogsNext, NEW e \in EntryId
  PROVE  /\ times'[e] # NoRow => times'[e].stop <= now
         /\ \/ times[e] = NoRow \/ times'[e] = NoRow \/ times[e].stop <= times'[e].stop
            \/ question' # question \/ second.op = "write" \/ editing.kind = "edit"
<1>1. /\ now \in Nat
      /\ times[e] # NoRow => times[e].stop \in Nat /\ times[e].stop <= now
      /\ \A c \in Held : times[c.id] # NoRow /\ c.stop <= times[c.id].stop
      /\ \A c \in Held : c.stop \in Nat /\ c.id \in EntryId
      /\ times'[e] \in TimeEntry => times'[e].stop \in Nat
  BY Windows DEF DialogsInv, DialogTypes, TimesType, TimeEntry, NothingAhead, EndsBehind,
     CopiesKept, Kept
<1>2. OnTime(e) => times'[e].stop <= now
  BY <1>1 DEF OnTime, NothingAhead
<1>3. \A c \in Held : e = c.id => c.stop <= now
  BY <1>1
<1>4. Outcome(e)
  BY Outcomes
<1>5. times'[e] # NoRow => times'[e].stop <= now
  BY <1>1, <1>2, <1>3, <1>4 DEF Outcome, Same, Ends, Moves, Opens, Rewrites
<1>6. \/ times[e] = NoRow \/ times'[e] = NoRow \/ times[e].stop <= times'[e].stop
      \/ question' # question \/ second.op = "write" \/ editing.kind = "edit"
  BY <1>1, <1>4 DEF Outcome, Same, Ends, Moves, Opens
<1>7. QED
  BY <1>5, <1>6

\* What the dialogs hold after a step, they held before or read just now.
LEMMA HeldRows ==
  ASSUME DialogsInv, NothingAhead, EditAhead = 0, DialogsNext
  PROVE  \A c \in Held' : EndsBehind(c)'
<1> USE DEF EndsBehind
<1>1. /\ TimesType /\ question \in Question
      /\ \A c \in Held : /\ c.stop \in Nat /\ c.id \in EntryId
                         /\ times[c.id] # NoRow /\ c.stop <= times[c.id].stop
      /\ \A e \in EntryId : times[e] # NoRow => times[e].id = e /\ times[e].stop \in Nat
      /\ \A e \in EntryId : times'[e] \in TimeEntry => times'[e].stop \in Nat
  BY Windows DEF DialogsInv, DialogTypes, TimesType, TimeEntry, NothingAhead, EndsBehind,
     CopiesKept, Kept
<1>2. CASE KeeperAlone \/ IdleDetected
  <2>1. Held' = Held
    BY <1>2 DEF KeeperAlone, IdleDetected, dialogVars, windowVars, Held
  <2>2. CASE KeeperAlone
    <3>1. \A e \in EntryId : KeeperRow(e)
      BY <2>2, KeeperRows
    <3>2. ASSUME NEW e \in EntryId, times[e] # NoRow
          PROVE  times'[e].stop \in Nat /\ times[e].stop <= times'[e].stop
      BY <1>1, <3>1, <3>2 DEF KeeperRow, Same, Opens, Ends, Moves, NothingAhead
    <3>3. ASSUME NEW c \in Held PROVE c.stop <= times'[c.id].stop
      <4>1. /\ c.stop \in Nat /\ c.id \in EntryId /\ times[c.id].stop \in Nat
            /\ times[c.id] # NoRow /\ c.stop <= times[c.id].stop
        BY <1>1
      <4>2. times'[c.id].stop \in Nat /\ times[c.id].stop <= times'[c.id].stop
        BY <3>2, <4>1
      <4>3. QED
        BY <4>1, <4>2
    <3>4. QED
      BY <2>1, <3>3
  <2>3. CASE IdleDetected
    <3>1. PICK item \in toNotify : NotifyIdle(item)
      BY <2>3 DEF IdleDetected
    <3>2. /\ \A e \in EntryId : e # item.id => Same(e)
          /\ Ends(item.id, {"paused"}) \/ Same(item.id)
      BY <3>1, IdleRows DEF Refused
    <3>3. QED
      BY <1>1, <2>1, <3>2 DEF Same, Ends
  <2>4. QED
    BY <1>2, <2>2, <2>3
<1>none. ASSUME question' = NoQuestion, second'.op # "write" PROVE Held' = {}
  BY <1>none DEF Held, NoQuestion
<1>3. CASE Quit
  <2>1. question' = NoQuestion /\ second' = Nothing
    BY <1>3 DEF Quit
  <2>2. QED
    BY <1>none, <2>1 DEF Nothing
<1>4. CASE Restart
  <2>1. pc = "off" /\ question' = question /\ second' = second
    BY <1>4 DEF Restart, Launch
  <2>2. question = NoQuestion /\ second = Nothing
    BY <2>1 DEF DialogsInv, Handlers
  <2>3. QED
    BY <1>none, <2>1, <2>2 DEF Nothing
<1>5. CASE SecondStep
  <2>1. question' = question /\ second' = Nothing
    BY <1>5 DEF SecondStep, SecondStop, SecondStart, SecondWrite, SecondCreate, EndHandler,
       windowVars
  <2>2. question = NoQuestion
    BY <1>5, SecondRows
  <2>3. QED
    BY <1>none, <2>1, <2>2 DEF Nothing
<1>6. CASE Answer
  <2>1. PICK e \in asking :
          Continue(e) \/ RevertAndStop(e) \/ RevertAndContinue(e) \/ Dismiss(e)
    BY <1>6 DEF Answer
  <2>2. question' = NoQuestion /\ pc = "ready"
    BY <2>1 DEF Continue, RevertAndStop, RevertAndContinue, Dismiss, UserReaches, UserActs
  <2>3. second = Nothing
    BY <2>2, AtReady
  <2>4. second'.op # "write"
    <3>1. Continue(e) \/ Dismiss(e) => second' = second
      BY DEF Continue, Dismiss
    <3>2. RevertAndStop(e) => second' = [op |-> "stop", owner |-> times[e].owner]
      BY DEF RevertAndStop, Then
    <3>3. RevertAndContinue(e) => second' = [op |-> "start", owner |-> times[e].owner]
      BY DEF RevertAndContinue, Then
    <3>4. QED
      BY <2>1, <2>3, <3>1, <3>2, <3>3 DEF Nothing
  <2>5. QED
    BY <1>none, <2>2, <2>4
<1>7. CASE Details
  <2>1. ASSUME NEW e \in EntryId, AskRemove(e) PROVE \A c \in Held' : EndsBehind(c)'
    <3>1. /\ times' = times /\ times[e] # NoRow
          /\ question'.kind = "remove" /\ question'.item = times[e]
      BY <2>1 DEF AskRemove
    <3>2. Held' = {times[e]}
      BY <3>1 DEF Held
    <3>3. QED
      BY <1>1, <3>1, <3>2
  <2>2. ASSUME NEW e \in EntryId, NEW f \in EntryId, AskMerge(e, f)
        PROVE  \A c \in Held' : EndsBehind(c)'
    <3>1. /\ times' = times /\ times[e] # NoRow /\ times[f] # NoRow
          /\ question'.kind = "merge"
          /\ question'.item = times[e] /\ question'.next = times[f]
      BY <2>2 DEF AskMerge
    <3>2. Held' = {times[e], times[f]}
      BY <3>1 DEF Held
    <3>3. QED
      BY <1>1, <3>1, <3>2
  <2>3. ASSUME NEW e \in EntryId, Split(e) PROVE \A c \in Held' : EndsBehind(c)'
    <3>1. question' = NoQuestion
      BY <2>3 DEF Split, UserReaches, windowVars
    <3>2. second'.op = "create"
      BY <2>3, SplitRows
    <3>3. QED
      BY <1>none, <3>1, <3>2
  <2>4. CASE AnswerCancel \/ ConfirmRemove \/ \E e \in EntryId : OpenEdit(e)
    <3>1. question' = NoQuestion /\ second' = second /\ pc = "ready"
      BY <2>4 DEF AnswerCancel, ConfirmRemove, OpenEdit, UserReaches, UserActs
    <3>2. second = Nothing
      BY <3>1, AtReady
    <3>3. QED
      BY <1>none, <3>1, <3>2 DEF Nothing
  <2>5. CASE ConfirmMerge
    <3>1. /\ question.kind = "merge" /\ question'.kind = "none"
      BY <2>5 DEF ConfirmMerge, NoQuestion
    <3>2. /\ question.next \in Held
          /\ \A e \in EntryId : Same(e) \/ e = question.item.id
          /\ second'.op = "write" /\ second'.item.id = question.next.id
          /\ second'.item.stop = question.next.stop
      BY <2>5, MergeRows
    <3>3. question.item.id # question.next.id
      BY <3>1 DEF DialogsInv, CopiesKept
    <3>4. Held' = {second'.item}
      BY <3>1, <3>2 DEF Held
    <3>5. Same(question.next.id) /\ question.next.stop <= times[question.next.id].stop
      BY <1>1, <3>2, <3>3
    <3>6. QED
      BY <3>2, <3>4, <3>5 DEF Same
  <2>6. QED
    BY <1>7, <2>1, <2>2, <2>3, <2>4, <2>5 DEF Details
<1>8. CASE Editing
  <2>1. question' = NoQuestion /\ second' = second /\ pc = "ready"
    BY <1>8 DEF Editing, OpenAdd, ApplyEdit, CancelEdit, UserReaches, UserActs
  <2>2. second = Nothing
    BY <2>1, AtReady
  <2>3. QED
    BY <1>none, <2>1, <2>2 DEF Nothing
<1>9. QED
  BY <1>2, <1>3, <1>4, <1>5, <1>6, <1>7, <1>8 DEF DialogsNext

\* The half a split leaves to be created is all of the past.
LEMMA CreatedBehind ==
  ASSUME DialogsInv, NothingAhead, DialogsNext
  PROVE  second'.op = "create" => second'.item.stop <= now
<1>1. CASE \E e \in EntryId : Split(e)
  <2>1. PICK e \in EntryId : Split(e)
    BY <1>1
  <2>2. second'.item.stop <= times[e].stop /\ second' \in Second /\ second'.op = "create"
    BY <2>1, SplitRows
  <2>3. second'.item.stop \in Nat
    BY <2>2 DEF Second, Nothing, TimeEntry
  <2>4. times[e] # NoRow /\ times[e].stop \in Nat /\ now \in Nat
    BY <2>1 DEF Split, DialogsInv, DialogTypes, TimesType, TimeEntry
  <2>5. times[e].stop <= now
    BY <2>4 DEF NothingAhead
  <2>6. QED
    BY <2>2, <2>3, <2>4, <2>5
<1>2. CASE second' = second
  BY <1>2 DEF NothingAhead
<1>3. CASE second' = Nothing
  BY <1>3 DEF Nothing
<1>5. CASE Answer
  <2>1. PICK e \in asking :
          Continue(e) \/ RevertAndStop(e) \/ RevertAndContinue(e) \/ Dismiss(e)
    BY <1>5 DEF Answer
  <2>2. Continue(e) \/ Dismiss(e) => second' = second
    BY DEF Continue, Dismiss
  <2>3. RevertAndStop(e) => second' = [op |-> "stop", owner |-> times[e].owner]
    BY DEF RevertAndStop, Then
  <2>4. RevertAndContinue(e) => second' = [op |-> "start", owner |-> times[e].owner]
    BY DEF RevertAndContinue, Then
  <2>5. QED
    BY <1>2, <2>1, <2>2, <2>3, <2>4
<1>6. CASE ConfirmMerge
  <2>1. second'.op = "write"
    BY <1>6, MergeRows
  <2>2. QED
    BY <2>1
<1>7. CASE KeeperAlone \/ IdleDetected \/ Restart
  BY <1>2, <1>7 DEF KeeperAlone, IdleDetected, Restart, dialogVars
<1>8. CASE Quit \/ SecondStep
  BY <1>3, <1>8 DEF Quit, SecondStep, SecondStop, SecondStart, SecondWrite, SecondCreate,
     EndHandler
<1>9. CASE Editing
  BY <1>2, <1>9 DEF Editing, OpenAdd, ApplyEdit, CancelEdit
<1>10. CASE Details
  <2>1. CASE AnswerCancel \/ ConfirmRemove \/ \E e \in EntryId : AskRemove(e) \/ OpenEdit(e)
    BY <1>2, <2>1 DEF AnswerCancel, ConfirmRemove, AskRemove, OpenEdit
  <2>2. CASE \E e, f \in EntryId : AskMerge(e, f)
    BY <1>2, <2>2 DEF AskMerge
  <2>3. QED
    BY <1>1, <1>6, <1>10, <2>1, <2>2 DEF Details
<1>11. QED
  BY <1>5, <1>7, <1>8, <1>9, <1>10 DEF DialogsNext

\* The clock is not set back under the dialogs.
LEMMA ClockGoesOn ==
  ASSUME MaxSetBacks = 0, DialogsInv, DialogsNext
  PROVE  now \in Nat /\ now' \in Nat /\ now <= now'
<1>1. now \in Nat
  BY DEF DialogsInv, DialogTypes
<1>same. ASSUME now' = now PROVE now' \in Nat /\ now <= now'
  BY <1>1, <1>same
<1>2. CASE KeeperAlone
  BY <1>1, <1>2, KeeperRows
<1>3. CASE IdleDetected \/ Quit \/ Restart \/ SecondStep
  BY <1>same, <1>3 DEF IdleDetected, NotifyIdle, Quit, Down, Restart, Launch, SecondStep,
     SecondStop, SecondStart, SecondWrite, SecondCreate, EndHandler, envVars
<1>4. CASE Answer \/ Editing
  BY <1>same, <1>4 DEF Answer, Editing, Continue, RevertAndStop, RevertAndContinue, Dismiss,
     OpenAdd, ApplyEdit, CancelEdit, Unmoved
<1>5. CASE Details
  BY <1>same, <1>5 DEF Details, AskRemove, Split, OpenEdit, AskMerge, AnswerCancel, ConfirmRemove,
     ConfirmMerge, Unmoved
<1>6. QED
  BY <1>1, <1>2, <1>3, <1>4, <1>5 DEF DialogsNext

LEMMA StepAhead ==
  ASSUME DialogsInv, NothingAhead, EditAhead = 0, MaxSetBacks = 0, DialogsNext
  PROVE  NothingAhead'
<1>1. now \in Nat /\ now' \in Nat /\ now <= now'
  BY ClockGoesOn
<1>2. DialogsInv'
  BY StepDialogs
<1>3. ASSUME NEW e \in EntryId, times'[e] # NoRow PROVE times'[e].stop <= now'
  <2>1. times'[e].stop \in Nat
    BY <1>2, <1>3 DEF DialogsInv, DialogTypes, TimesType, TimeEntry
  <2>2. times'[e].stop <= now
    BY <1>3, RowStops
  <2>3. QED
    BY <1>1, <2>1, <2>2
<1>4. ASSUME second'.op = "create" PROVE second'.item.stop <= now'
  <2>1. second'.item.stop \in Nat
    BY <1>2, <1>4 DEF DialogsInv, DialogTypes, Second, Nothing, TimeEntry
  <2>2. second'.item.stop <= now
    BY <1>4, CreatedBehind
  <2>3. QED
    BY <1>1, <2>1, <2>2
<1>5. \A c \in Held' : EndsBehind(c)'
  BY HeldRows
<1>6. QED
  BY <1>3, <1>4, <1>5 DEF NothingAhead

-----------------------------------------------------------------------------
(* The tick stops what is too old before it extends the rest *)

LEMMA LimitType ==
  ASSUME gt \in IdleTimes, NEW t \in TaskId
  PROVE  IdleLimit(t) \in Nat
  BY KeeperAssumption DEF IdleLimit

LEMMA TickUnderDialogs ==
  ASSUME DialogsInv, DialogsNext, pc' \in {"check", "extend"}
  PROVE  \/ TickBegin \/ PollActivity
         \/ \E item \in todo : StopExpired(item) \/ Extend(item)
         \/ \E item \in toNotify : NotifyIdle(item)
<1>1. pc # "dialog" => pc \in PC
  BY DEF DialogsInv, DialogTypes
<1>2. CASE KeeperAlone
  <2>1. CASE TimePasses \/ StepBack \/ UserInput
    BY <2>1 DEF TimePasses, Advance, StepBack, UserInput, UserActs
  <2>2. CASE (\E t \in TaskId \ removed : Start(t)) \/ (\E t \in TaskId : Stop(t))
    BY <2>2 DEF Start, Stop, UserActs
  <2>3. CASE UserStep
    BY <2>3 DEF UserStep, UserInput, SaveSettings, Start, Toggle, RemoveTask, Stop, StopAll,
       BeginDrain, UserActs
  <2>4. CASE \E item \in todo : Drain(item)
    BY <2>4 DEF Drain
  <2>5. QED
    BY <1>2, <2>1, <2>2, <2>3, <2>4 DEF KeeperAlone
<1>3. CASE IdleDetected
  BY <1>3 DEF IdleDetected
<1>4. CASE Quit \/ Restart
  BY <1>4 DEF Quit, Down, Restart, Launch
<1>5. CASE SecondStep
  BY <1>5 DEF SecondStep, SecondStop, SecondStart, SecondWrite, SecondCreate, EndHandler
<1>6. CASE Answer
  BY <1>6 DEF Answer, Continue, RevertAndStop, RevertAndContinue, Dismiss, UserReaches,
     UserActs, Then
<1>7. CASE Details
  BY <1>7 DEF Details, AskRemove, Split, OpenEdit, AskMerge, AnswerCancel, ConfirmRemove,
     ConfirmMerge, UserReaches, UserActs, Then
<1>8. CASE Editing
  BY <1>8 DEF Editing, OpenAdd, ApplyEdit, CancelEdit, UserReaches, UserActs
<1>9. QED
  BY <1>2, <1>3, <1>4, <1>5, <1>6, <1>7, <1>8 DEF DialogsNext

LEMMA StepTick ==
  ASSUME MaxSetBacks = 0, DialogsInv, TickCuts, DialogsNext
  PROVE  TickCuts'
<1>1. /\ TimesType /\ now \in Nat /\ gt \in IdleTimes
      /\ CopiesMatch /\ CopiesOpen /\ todo \subseteq TimeEntry
      /\ \A e \in EntryId : times[e] # NoRow =>
           /\ times[e].id = e /\ times[e].owner \in TaskId /\ times[e].stop \in Nat
  BY DEF DialogsInv, DialogTypes, Handlers, TimesType, TimeEntry
<1>2. CASE pc' \notin {"check", "extend"}
  BY <1>2 DEF TickCuts
<1>3. CASE TickBegin
  <2>1. /\ times' = times /\ now' = now /\ gt' = gt /\ pc' = "check" /\ todo' = Expired
    BY <1>3 DEF TickBegin, envVars, settingVars
  <2>2. ASSUME NEW e \in EntryId, times[e].state = "running",
               now - times[e].stop > IdleLimit(times[e].owner)
        PROVE  \E c \in Expired : c.id = e
    <3>1. times[e] \in ByState("running") /\ times[e].id = e
      BY <1>1, <2>2, RunningCopies DEF NoRow
    <3>2. QED
      BY <2>2, <3>1 DEF Expired
  <2>3. QED
    BY <2>1, <2>2 DEF TickCuts, IdleLimit
<1>4. CASE PollActivity
  <2>1. /\ times' = times /\ now' = now /\ gt' = gt /\ pc = "check" /\ todo = {}
        /\ todo' \subseteq ByState("running") /\ pc' \in {"ready", "extend"}
    BY <1>4 DEF PollActivity, envVars, settingVars
  <2>2. ASSUME NEW c \in ByState("running") PROVE now - c.stop <= IdleLimit(c.owner)
    <3>1. /\ c.id \in EntryId /\ c = times[c.id] /\ c.state = "running"
          /\ times[c.id] # NoRow
      BY <1>1, RunningCopies
    <3>2. ~ (now - c.stop > IdleLimit(c.owner))
      BY <2>1, <3>1 DEF TickCuts
    <3>3. c.stop \in Nat /\ IdleLimit(c.owner) \in Nat
      BY <1>1, <3>1, LimitType
    <3>4. QED
      BY <1>1, <3>2, <3>3
  <2>3. QED
    BY <2>1, <2>2 DEF TickCuts, IdleLimit
<1>5. ASSUME NEW item \in todo, StopExpired(item) PROVE TickCuts'
  <2>1. /\ now' = now /\ gt' = gt /\ pc = "check" /\ pc' = "check"
        /\ todo' = todo \ {item} /\ StopTime(item)
    BY <1>5 DEF StopExpired, envVars, settingVars
  <2>2. /\ item.id \in EntryId
        /\ \A e \in EntryId : e # item.id => Same(e)
        /\ Ends(item.id, {"stopped", "deleted"})
    <3>1. /\ item \in TimeEntry /\ item.state = "running" /\ times[item.id] # NoRow
          /\ item.start = times[item.id].start /\ item.stop = times[item.id].stop
      BY <1>1 DEF CopiesMatch
    <3>2. NoneLater
      BY DEF DialogsInv
    <3>3. ~ (times[item.id].changed > now)
      BY <1>1, <3>1, <3>2 DEF NoneLater, TimesType, TimeEntry
    <3>4. QED
      BY <1>1, <2>1, <3>1, <3>2, <3>3, Stops DEF Refused
  <2>3. ASSUME NEW e \in EntryId, times'[e].state = "running",
               now - times'[e].stop > IdleLimit(times'[e].owner)
        PROVE  \E c \in todo' : c.id = e
    <3>1. e # item.id /\ times'[e] = times[e]
      BY <2>2, <2>3 DEF Ends, Same
    <3>2. PICK c \in todo : c.id = e
      BY <2>1, <2>3, <3>1 DEF TickCuts
    <3>3. QED
      BY <2>1, <3>1, <3>2
  <2>4. QED
    BY <2>1, <2>3 DEF TickCuts, IdleLimit
<1>6. ASSUME NEW item \in todo, Extend(item) PROVE TickCuts'
  <2>1. /\ now' = now /\ gt' = gt /\ pc = "extend" /\ pc' \in {"ready", "extend"}
        /\ todo' = todo \ {item}
    BY <1>6 DEF Extend, envVars, settingVars
  <2>2. QED
    BY <2>1 DEF TickCuts, IdleLimit
<1>7. ASSUME NEW item \in toNotify, NotifyIdle(item) PROVE TickCuts'
  <2>1. /\ now' = now /\ gt' = gt /\ pc = "check" /\ pc' = "check" /\ todo' = todo
    BY <1>7 DEF NotifyIdle, envVars, settingVars
  <2>2. /\ item.id \in EntryId
        /\ \A e \in EntryId : e # item.id => Same(e)
        /\ Ends(item.id, {"paused"})
    <3>1. item.id \in EntryId /\ (\E c \in todo : c.id = item.id)
      BY <1>7, IdleRows
    <3>2. times[item.id] # NoRow
      BY <1>1, <3>1, NoRowIsNoEntry DEF CopiesOpen, NoRow
    <3>3. ~ (times[item.id].changed > now)
      BY <1>1, <3>1, <3>2 DEF DialogsInv, NoneLater, TimesType, TimeEntry
    <3>4. QED
      BY <1>7, <3>3, IdleRows DEF Refused
  <2>3. ASSUME NEW e \in EntryId, times'[e].state = "running",
               now - times'[e].stop > IdleLimit(times'[e].owner)
        PROVE  \E c \in todo' : c.id = e
    <3>1. times'[e] = times[e]
      BY <2>2, <2>3 DEF Ends, Same
    <3>2. QED
      BY <2>1, <2>3, <3>1 DEF TickCuts
  <2>4. QED
    BY <2>1, <2>3 DEF TickCuts, IdleLimit
<1>8. QED
  BY <1>2, <1>3, <1>4, <1>5, <1>6, <1>7, TickUnderDialogs

\* The invariant of a user who enters no time of the future.
PastOnly == DialogsInv /\ TickCuts /\ NothingAhead

LEMMA PastOnlyInvariant ==
  ASSUME EditAhead = 0, MaxSetBacks = 0 PROVE DialogsSpec => []PastOnly
<1>1. DialogsInit => PastOnly
  <2> SUFFICES ASSUME DialogsInit PROVE PastOnly
    OBVIOUS
  <2>1. DialogsInv
    BY InitDialogs
  <2>2. pc = "off" /\ times = [e \in EntryId |-> NoRow]
        /\ question = NoQuestion /\ second = Nothing
    BY DEF DialogsInit, Init
  <2>3. question.kind = "none" /\ second.op = "none"
    BY <2>2 DEF NoQuestion, Nothing
  <2>4. NothingAhead
    BY <2>2, <2>3 DEF NothingAhead, Held
  <2>5. QED
    BY <2>1, <2>2, <2>4 DEF PastOnly, TickCuts
<1>2. PastOnly /\ [DialogsNext]_allVars => PastOnly'
  <2> SUFFICES ASSUME PastOnly, [DialogsNext]_allVars PROVE PastOnly'
    OBVIOUS
  <2>1. DialogsInv'
    BY StepDialogs DEF PastOnly
  <2>2. CASE DialogsNext
    BY <2>1, <2>2, StepTick, StepAhead DEF PastOnly
  <2>3. CASE UNCHANGED allVars
    <3>1. UNCHANGED <<times, now, gt, pc, todo, question, second>>
      BY <2>3 DEF allVars, vars, dialogVars, windowVars, envVars, settingVars
    <3>2. Held' = Held
      BY <3>1 DEF Held
    <3>3. NothingAhead'
      BY <3>1, <3>2 DEF PastOnly, NothingAhead, EndsBehind
    <3>4. TickCuts'
      BY <3>1 DEF PastOnly, TickCuts, IdleLimit
    <3>5. QED
      BY <2>1, <3>3, <3>4 DEF PastOnly
  <2>4. QED
    BY <2>2, <2>3
<1>3. QED
  BY <1>1, <1>2, PTL DEF DialogsSpec

LEMMA PastTypes ==
  ASSUME PastOnly, NEW e \in EntryId
  PROVE  /\ now \in Nat /\ gz \in Nat /\ ShortSpan \in Nat
         /\ times[e] # NoRow => /\ times[e] \in TimeEntry /\ times[e].stop <= now
                                /\ times[e].start \in Nat /\ times[e].stop \in Nat
                                /\ IdleLimit(times[e].owner) \in Nat
         /\ \A c \in Held : c.stop \in Nat /\ c.stop <= times[c.id].stop
         /\ times'[e] \in TimeEntry => times'[e].stop \in Nat /\ times'[e].start \in Nat
<1>1. /\ now \in Nat /\ gz \in Nat /\ ShortSpan \in Nat /\ gt \in IdleTimes
      /\ \A c \in Held : c.stop \in Nat
      /\ times[e] # NoRow => /\ times[e] \in TimeEntry /\ times[e].owner \in TaskId
                             /\ times[e].start \in Nat /\ times[e].stop \in Nat
      /\ times'[e] \in TimeEntry => times'[e].stop \in Nat /\ times'[e].start \in Nat
  BY Windows, KeeperAssumption DEF PastOnly, DialogsInv, DialogTypes, TimesType, TimeEntry
<1>2. times[e] # NoRow => IdleLimit(times[e].owner) \in Nat
  BY <1>1, LimitType
<1>3. QED
  BY <1>1, <1>2 DEF PastOnly, NothingAhead, EndsBehind

(***************************************************************************)
(* Whatever happens under an open dialog, an entry reaches over a pause    *)
(* longer than the idle time of its task only by Continue, or by the edit  *)
(* dialog: a copy that is written late does not reach further than its     *)
(* row, and the tick extends only what it has not just stopped.  It is     *)
(* about a user who enters no time of the future, which edit_time.cpp does *)
(* not refuse: the rows may then be ahead of the clock that the keeper     *)
(* compares them with.  For the same reason it is about a clock that is    *)
(* not set back.                                                           *)
(***************************************************************************)
THEOREM IdleIsCountedOnRequest ==
  ASSUME EditAhead = 0, MaxSetBacks = 0
  PROVE  DialogsSpec => IdleCountedOnRequest
<1>1. ASSUME PastOnly, DialogsNext, NEW e \in EntryId,
             times[e] # NoRow, times'[e] # NoRow,
             times'[e].stop - times[e].stop > IdleLimit(times[e].owner)
      PROVE  Continue(e) \/ (editing.kind = "edit" /\ editing.item.id = e)
  <2>1. /\ now \in Nat /\ times[e] \in TimeEntry /\ times[e].stop \in Nat
        /\ IdleLimit(times[e].owner) \in Nat
        /\ \A c \in Held : c.stop \in Nat /\ c.stop <= times[c.id].stop
    BY <1>1, PastTypes
  <2>2. Outcome(e)
    BY <1>1, Outcomes DEF PastOnly
  <2>3. times'[e].stop # times[e].stop
    BY <1>1, <2>1
  <2>4. \A c \in Held : e = c.id => times'[e].stop # c.stop
    BY <1>1, <2>1
  <2>5. ~ (pc = "extend" /\ times[e] \in todo /\ Moves(e))
    BY <1>1, <2>1 DEF PastOnly, TickCuts, Moves
  <2>6. QED
    BY <1>1, <2>2, <2>3, <2>4, <2>5 DEF Outcome, Same, Opens, Ends, Rewrites
<1>2. PastOnly /\ [DialogsNext]_allVars =>
        [\A e \in EntryId :
           /\ times[e] # NoRow /\ times'[e] # NoRow
           /\ times'[e].stop - times[e].stop > IdleLimit(times[e].owner)
           => Continue(e) \/ (editing.kind = "edit" /\ editing.item.id = e)]_allVars
  BY <1>1
<1>3. QED
  BY <1>2, PastOnlyInvariant, PTL DEF DialogsSpec, IdleCountedOnRequest

(***************************************************************************)
(* No tick, stop, start, crash, launch or answer to the idle dialog takes  *)
(* an entry that is long enough to count, or cuts it; and no stale copy    *)
(* the program holds by itself brings a removed entry back.  As above, for *)
(* a user who enters no time of the future: a running entry that was       *)
(* edited to end ahead of the clock is pulled back by the next tick; and   *)
(* for a clock that is not set back.                                       *)
(***************************************************************************)
THEOREM TimeIsLostOnlyOnRequest ==
  ASSUME EditAhead = 0, MaxSetBacks = 0
  PROVE  DialogsSpec => TimeLostOnlyOnRequest
<1>1. ASSUME PastOnly, DialogsNext, NEW e \in EntryId
      PROVE  /\ RemovedReturns(e) => e \in asking \ asking' \/ WrittenByUser(e)
             /\ Recorded(e) /\ (~ Counts(e)' \/ Shortened(e)) => WrittenByUser(e) \/ Split(e)
  <2>1. /\ now \in Nat /\ gz \in Nat /\ ShortSpan \in Nat
        /\ times[e] # NoRow => /\ times[e].stop \in Nat /\ times[e].stop <= now
                               /\ times[e].start \in Nat
    BY <1>1, PastTypes
  <2>2. Outcome(e)
    BY <1>1, Outcomes DEF PastOnly
  <2>3. CASE Same(e)
    BY <2>1, <2>3 DEF Same, RemovedReturns, Recorded, Counts, Shortened, NoRow
  <2>4. CASE Opens(e)
    BY <2>4 DEF Opens, RemovedReturns, Recorded, Counts, NoRow
  <2>ends. ASSUME Ends(e, {"stopped", "deleted"}) \/ Ends(e, {"paused"})
           PROVE  ~ (Recorded(e) /\ (~ Counts(e)' \/ Shortened(e)))
    BY <2>1, <2>ends DEF Ends, Recorded, Counts, Shortened
  <2>5. CASE /\ WasTimed(e)
             /\ Ends(e, {"stopped", "deleted"}) \/ Ends(e, {"paused"})
    BY <2>5, <2>ends DEF WasTimed, RemovedReturns
  <2>6. CASE Moves(e)
    BY <2>1, <2>6 DEF Moves, RemovedReturns, Recorded, Counts, Shortened, NoRow
  <2>7. CASE /\ times[e] # NoRow /\ times'[e] = NoRow
             /\ times[e].stop - times[e].start < ShortSpan
    BY <2>1, <2>7 DEF RemovedReturns, Recorded
  <2>8. CASE /\ Continue(e) /\ e \in asking \ asking' /\ times'[e].start = times[e].start
             /\ times'[e].stop = now /\ times'[e].state = "running"
    BY <2>1, <2>8 DEF Recorded, Counts, Shortened, NoRow
  <2>9. CASE e \in asking \ asking' /\ Ends(e, {"stopped", "deleted"})
    BY <2>9, <2>ends
  <2>10. CASE question' # question \/ second.op = "write"
              \/ (editing.kind = "edit" /\ editing.item.id = e)
    BY <2>10 DEF WrittenByUser
  <2>11. CASE Split(e) /\ times'[e].state = times[e].state
    BY <2>11 DEF RemovedReturns
  <2>12. QED
    BY <2>2, <2>3, <2>4, <2>5, <2>6, <2>7, <2>8, <2>9, <2>10, <2>11 DEF Outcome
<1>2. PastOnly /\ [DialogsNext]_allVars =>
        [\A e \in EntryId :
           /\ RemovedReturns(e) => e \in asking \ asking' \/ WrittenByUser(e)
           /\ Recorded(e) /\ (~ Counts(e)' \/ Shortened(e))
                => WrittenByUser(e) \/ Split(e)]_allVars
  BY <1>1
<1>3. QED
  BY <1>2, PastOnlyInvariant, PTL DEF DialogsSpec, TimeLostOnlyOnRequest
=============================================================================
