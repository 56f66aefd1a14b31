--------------------------- MODULE Desktop_proofs ---------------------------
(***************************************************************************)
(* Theorems about Desktop, for any tree of tasks, any size of the menu and *)
(* any number of writes.                                                   *)
(***************************************************************************)
EXTENDS Desktop, TLAPS

-----------------------------------------------------------------------------
(* The inductive invariant *)

\* A program that does not run has nothing on the screen.
OffIsOff ==
  ~ alive => /\ window = NoWindow /\ selectedTaskId = None /\ oldRunning = {}
             /\ menu = NoMenu /\ question = None

\* No row outlives its task, so a selected one is there.
RowsAreThere == window.rows \subseteq There(tasks)

\* What the controller has seen is what runs, unless it has seen nothing
\* since the launch: a write it takes for no change has changed nothing.
SeenOrNothing == oldRunning \in {{}, running}

DesktopInv ==
  /\ DesktopTypeOK /\ CommandsHitTheSelection /\ WindowTellsTruth
  /\ OffIsOff /\ RowsAreThere /\ SeenOrNothing

\* A window that may stand for tables tk and running tasks run, with the
\* settings read before it was made.
Fit(w, tk, run) ==
  /\ w \in Window /\ w.selection \in w.rows \cup {None}
  /\ w.rows \subseteq There(tk)
  /\ w.status = "none" => w = NoWindow
  /\ w.status # "none" => /\ run # {} => w.title = "running"
                          /\ w.layout = Value(settings, "CompactLayout")

-----------------------------------------------------------------------------
(* The operators on windows *)

LEMMA ValueIsSet ==
  ASSUME settings \in [Name -> Setting], NEW n \in Name
  PROVE  /\ Value(settings, n) \in {"yes", "no"}
         /\ Asked(settings, n) \in [Name -> Setting]
         /\ Asked(settings, n)[n] = Value(settings, n)
         /\ \A m \in Name : settings[m] # "missing" => Asked(settings, n)[m] = settings[m]
  BY DEF Name, Setting, Value, Asked, Defaults

LEMMA WindowFits ==
  ASSUME DesktopInv
  PROVE  Fit(window, tasks, running)
<1>1. /\ window \in Window /\ window.selection \in window.rows \cup {None}
      /\ window.status = "none" => window = NoWindow
      /\ window.rows \subseteq There(tasks)
  BY DEF DesktopInv, DesktopTypeOK, RowsAreThere
<1>2. ASSUME window.status # "none"
      PROVE  /\ running # {} => window.title = "running"
             /\ window.layout = Value(settings, "CompactLayout")
  BY <1>2 DEF DesktopInv, DesktopTypeOK, WindowTellsTruth, Value
<1>3. QED
  BY <1>1, <1>2 DEF Fit

\* Rows are listed for tasks that are there.
LEMMA ListedAreThere ==
  ASSUME NEW tk
  PROVE  Listed(tk) \subseteq There(tk) /\ Listed(tk) \subseteq TaskId
  BY DesktopAssumption DEF Listed, There

\* get_widget makes a window that fits, or leaves one that does.
LEMMA MadeFits ==
  ASSUME settings \in [Name -> Setting], NEW w, NEW tk, NEW run, Fit(w, tk, run)
  PROVE  /\ Fit(Made(w, tk, run), tk, run)
         /\ Made(w, tk, run).status # "none"
         /\ w.attached => Made(w, tk, run).attached
<1>1. CASE w.status # "none"
  BY <1>1 DEF Made
<1>2. CASE w.status = "none"
  <2> DEFINE v == [status |-> "hidden", attached |-> FALSE, rows |-> Listed(tk),
                   selection |-> None, title |-> Title(run),
                   layout |-> Value(settings, "CompactLayout")]
  <2>1. Made(w, tk, run) = v
    BY <1>2 DEF Made, LaidOut
  <2>2. v \in Window
    BY ValueIsSet, ListedAreThere DEF Window, Title, Setting, Name
  <2>3. Fit(v, tk, run)
    BY <2>2, ListedAreThere DEF Fit, Title
  <2>4. ~ w.attached
    BY <1>2 DEF Fit, NoWindow
  <2>5. QED
    BY <2>1, <2>3, <2>4
<1>3. QED
  BY <1>1, <1>2

LEMMA ShownFits ==
  ASSUME NEW w, NEW tk, NEW run, Fit(w, tk, run), w.status # "none"
  PROVE  /\ Fit(Shown(w), tk, run) /\ Fit(Attached(w), tk, run)
         /\ Shown(w).attached = w.attached /\ Attached(w).attached
         /\ Shown(w).status # "none" /\ Attached(w).status # "none"
  BY DEF Fit, Shown, Attached, Window

\* An emptied and populated list fits whatever the tables hold.
LEMMA PopulatedFits ==
  ASSUME NEW w, NEW tk, NEW run, NEW tk2, Fit(w, tk, run)
  PROVE  /\ Fit(Populated(w, tk2), tk2, run)
         /\ Populated(w, tk2).attached = w.attached
<1>1. CASE w.status = "none"
  BY <1>1 DEF Fit, Populated, NoWindow
<1>2. CASE w.status # "none"
  BY <1>2, ListedAreThere DEF Fit, Populated, Window
<1>3. QED
  BY <1>1, <1>2

\* The running tasks are shown in a window that fits from then on.
LEMMA RunningShownFits ==
  ASSUME settings \in [Name -> Setting],
         NEW w, NEW tk, NEW run, NEW tk2, NEW run2, Fit(w, tk, run)
  PROVE  /\ Fit(RunningShown(w, tk2, run2), tk2, run2)
         /\ RunningShown(w, tk2, run2).status # "none"
         /\ w.attached => RunningShown(w, tk2, run2).attached
<1> DEFINE m == Made(w, tk2, run2)
           p == Populated(m, tk2)
<1>1. \E tk3, run3 : Fit(m, tk3, run3) /\ m.status # "none" /\ (w.attached => m.attached)
  <2>1. CASE w.status # "none"
    BY <2>1 DEF Made
  <2>2. CASE w.status = "none"
    <3>1. Fit(w, tk2, run2)
      BY <2>2 DEF Fit, NoWindow
    <3>2. QED
      BY <3>1, MadeFits
  <2>3. QED
    BY <2>1, <2>2
<1>2. PICK tk3, run3 : Fit(m, tk3, run3) /\ m.status # "none" /\ (w.attached => m.attached)
  BY <1>1
<1>3. Fit(p, tk2, run3) /\ p.attached = m.attached
  BY <1>2, PopulatedFits
<1>4. p.status # "none"
  BY <1>2 DEF Populated, Fit, Window
<1> HIDE DEF p
<1>5. /\ Fit([p EXCEPT !.title = Title(run2)], tk2, run2)
      /\ [p EXCEPT !.title = Title(run2)].status # "none"
      /\ [p EXCEPT !.title = Title(run2)].attached = p.attached
  BY <1>3, <1>4 DEF Fit, Window, Title
<1>6. QED
  BY <1>2, <1>3, <1>5 DEF RunningShown, p

\* Whatever row Gtk selects instead, the rows of a removed task are gone.
LEMMA ErasedFits ==
  ASSUME NEW t \in TaskId, NEW w, NEW tk, NEW run, Fit(w, tk, run),
         tk \in [TaskId -> {"none", "there", "removed"}],
         NEW v \in Erased(w, t)
  PROVE  Fit(v, [tk EXCEPT ![t] = "removed"], run) /\ v.attached = w.attached
<1> DEFINE gone == IF t \in w.rows THEN {u \in w.rows : t \in Above[u]} ELSE {}
           left == w.rows \ gone
           near == IF w.selection \in gone THEN left \cup {None} ELSE {w.selection}
<1>1. PICK s \in near : v = [w EXCEPT !.rows = left, !.selection = s]
  BY DEF Erased
<1>2. s \in left \cup {None}
  BY DEF Fit
<1>3. t \notin left /\ left \subseteq w.rows
  BY DesktopAssumption
<1> HIDE DEF left, near
<1>4. v \in Window /\ v.rows = left /\ v.selection = s /\ v.status = w.status
      /\ v.title = w.title /\ v.layout = w.layout /\ v.attached = w.attached
  BY <1>1, <1>2, <1>3 DEF Fit, Window
<1>5. left \subseteq There([tk EXCEPT ![t] = "removed"])
  BY <1>3 DEF Fit, There
<1>6. ASSUME w.status = "none"
      PROVE  v = NoWindow
  <2>1. w = NoWindow
    BY <1>6 DEF Fit
  <2>2. left = {} /\ s = None
    BY <2>1, <1>2, <1>3 DEF NoWindow
  <2>3. QED
    BY <2>1, <2>2, <1>1 DEF NoWindow
<1>7. QED
  BY <1>2, <1>4, <1>5, <1>6 DEF Fit

-----------------------------------------------------------------------------
(* What the writes leave on the screen *)

\* The writes of the keeper: the window is made, and told.
LEMMA KeeperWritesFit ==
  ASSUME DesktopInv, NEW run, KeeperWrites(run)
  PROVE  /\ Fit(window', tasks, running') /\ (window.attached => window'.attached)
         /\ running' = run /\ worked' = worked \cup run /\ oldRunning' = run
         /\ Chosen /\ SettingsRead
  BY WindowFits, RunningShownFits DEF KeeperWrites, DesktopInv, DesktopTypeOK

\* The writes of others: a change that is not noticed is none.
LEMMA OthersWriteFit ==
  ASSUME DesktopInv, NEW run, OthersWrite(run)
  PROVE  /\ Fit(window', tasks, running') /\ (window.attached => window'.attached)
         /\ running' = run /\ worked' = worked \cup run /\ oldRunning' = run
         /\ Chosen /\ SettingsRead
<1>1. CASE run = oldRunning
  <2>1. run = {} \/ run = running
    BY <1>1 DEF DesktopInv, SeenOrNothing
  <2>2. Fit(window, tasks, run)
    BY <2>1, WindowFits DEF Fit
  <2>3. QED
    BY <1>1, <2>2 DEF OthersWrite
<1>2. CASE run # oldRunning
  BY <1>2, WindowFits, RunningShownFits DEF OthersWrite, DesktopInv, DesktopTypeOK
<1>3. QED
  BY <1>1, <1>2

\* The writes of tasks: a removed one takes its timer and its row along.
LEMMA TaskWrittenFit ==
  ASSUME DesktopInv, NEW t \in TaskId, NEW s \in {"there", "removed"}, NEW moved \in BOOLEAN,
         TaskWritten([tasks EXCEPT ![t] = s], t, moved)
  PROVE  /\ Fit(window', tasks', running') /\ (window.attached => window'.attached)
         /\ tasks' = [tasks EXCEPT ![t] = s] /\ worked' = worked
         /\ running' \subseteq running
         /\ oldRunning' = running' \/ (oldRunning' = oldRunning /\ running' = running)
         /\ Chosen /\ SettingsRead
<1> DEFINE tk == [tasks EXCEPT ![t] = s]
           gone == tasks[t] = "there" /\ tk[t] = "removed"
<1>1. tasks \in [TaskId -> {"none", "there", "removed"}] /\ tk[t] = s
  BY DEF DesktopInv, DesktopTypeOK
<1>2. /\ tasks' = tk /\ worked' = worked /\ Chosen /\ SettingsRead
      /\ running' \subseteq running
      /\ oldRunning' = running' \/ (oldRunning' = oldRunning /\ running' = running)
  BY DEF TaskWritten
<1>3. CASE gone /\ t \in running
  <2>1. window' = RunningShown(window, tk, running')
    BY <1>3 DEF TaskWritten
  <2>2. QED
    BY <1>2, <2>1, WindowFits, RunningShownFits DEF DesktopInv, DesktopTypeOK
<1>4. CASE ~ (gone /\ t \in running)
  <2>1. /\ window' \in IF moved THEN {Populated(window, tk)}
                       ELSE IF gone THEN Erased(window, t) ELSE {window}
        /\ running' = running
    BY <1>4 DEF TaskWritten
  <2>2. CASE moved
    BY <1>2, <2>1, <2>2, WindowFits, PopulatedFits
  <2>3. CASE ~ moved /\ gone
    <3>1. tk = [tasks EXCEPT ![t] = "removed"]
      BY <1>1, <2>3
    <3>2. window' \in Erased(window, t)
      BY <2>1, <2>3
    <3>3. QED
      BY <1>1, <1>2, <2>1, <3>1, <3>2, WindowFits, ErasedFits
  <2>4. CASE ~ moved /\ ~ gone
    <3>1. There(tasks) \subseteq There(tk)
      BY <1>1, <2>4 DEF There
    <3>2. QED
      BY <1>2, <2>1, <2>4, <3>1, WindowFits DEF Fit
  <2>5. QED
    BY <2>2, <2>3, <2>4
<1>5. QED
  BY <1>2, <1>3, <1>4

\* A window that fits, of which the controller has heard
LEMMA ScreenStep ==
  ASSUME DesktopInv, Fit(window', tasks', running'),
         window.attached => window'.attached, Chosen, SettingsRead
  PROVE  /\ window' \in Window /\ window'.selection \in window'.rows \cup {None}
         /\ window'.status = "none" => window' = NoWindow
         /\ window'.status # "none" => settings'["CompactLayout"] # "missing"
         /\ settings' \in [Name -> Setting]
         /\ selectedTaskId' \in TaskId \cup {None}
         /\ CommandsHitTheSelection' /\ WindowTellsTruth' /\ RowsAreThere'
<1>1. settings \in [Name -> Setting] /\ "CompactLayout" \in Name
  BY DEF DesktopInv, DesktopTypeOK, Name
<1>2. settings' \in [Name -> Setting]
  BY <1>1, ValueIsSet DEF SettingsRead
<1>3. window'.status # "none" =>
        /\ settings'["CompactLayout"] = Value(settings, "CompactLayout")
        /\ settings'["CompactLayout"] # "missing"
  BY <1>1, ValueIsSet DEF SettingsRead
<1>4. WindowTellsTruth'
  BY <1>3 DEF Fit, WindowTellsTruth
<1>5. RowsAreThere'
  BY DEF Fit, RowsAreThere
<1>6. CommandsHitTheSelection' /\ selectedTaskId' \in TaskId \cup {None}
  <2>1. /\ window'.selection \in window'.rows \cup {None}
        /\ \A u \in window'.rows : u \in TaskId /\ tasks'[u] = "there"
    BY DEF Fit, There
  <2>2. CASE window'.attached /\ window'.selection # window.selection
    BY <2>1, <2>2 DEF Chosen, CommandsHitTheSelection
  <2>3. CASE ~ (window'.attached /\ window'.selection # window.selection)
    <3>1. selectedTaskId' = selectedTaskId
      BY <2>3 DEF Chosen
    <3>2. selectedTaskId # None => selectedTaskId = window'.selection /\ window'.attached
      BY <2>3 DEF DesktopInv, CommandsHitTheSelection
    <3>3. QED
      BY <2>1, <3>1, <3>2 DEF CommandsHitTheSelection, DesktopInv, DesktopTypeOK
  <2>4. QED
    BY <2>2, <2>3
<1>7. QED
  BY <1>2, <1>3, <1>4, <1>5, <1>6 DEF Fit

-----------------------------------------------------------------------------
(* The steps *)

TablesType ==
  /\ tasks \in [TaskId -> {"none", "there", "removed"}]
  /\ running \subseteq worked /\ worked \subseteq {t \in TaskId : tasks[t] # "none"}

PopupsType ==
  /\ menu = NoMenu \/ menu \subseteq worked
  /\ question \in TaskId \cup {None}
  /\ preferences \in BOOLEAN /\ writes \in 0 .. MaxWrites

\* A step of a living program that has to do with the window
LEMMA LivingStep ==
  ASSUME DesktopInv, alive, alive' = alive, TablesType', PopupsType', SeenOrNothing',
         Fit(window', tasks', running'), window.attached => window'.attached,
         Chosen, SettingsRead
  PROVE  DesktopInv'
<1>1. DesktopTypeOK'
  <2>1. oldRunning' \subseteq TaskId
    BY DEF SeenOrNothing, TablesType
  <2>2. alive' \in BOOLEAN
    BY DEF DesktopInv, DesktopTypeOK
  <2>3. QED
    BY <2>1, <2>2, ScreenStep DEF DesktopTypeOK, TablesType, PopupsType
<1>2. OffIsOff'
  BY DEF OffIsOff
<1>3. QED
  BY <1>1, <1>2, ScreenStep DEF DesktopInv

\* A step of a living program that leaves the tables and the screen alone;
\* a setting that was never asked for may get its default.
LEMMA QuietStep ==
  ASSUME DesktopInv, alive, alive' = alive, PopupsType', UNCHANGED <<tables, screen>>,
         settings' \in [Name -> Setting],
         \A n \in Name : settings[n] # "missing" => settings'[n] = settings[n]
  PROVE  DesktopInv'
<1>1. "CompactLayout" \in Name
  BY DEF Name
<1>2. window.status # "none" => settings'["CompactLayout"] = settings["CompactLayout"]
  BY <1>1 DEF DesktopInv, DesktopTypeOK
<1>3. DesktopTypeOK'
  BY <1>2 DEF DesktopInv, DesktopTypeOK, PopupsType, tables, screen
<1>4. WindowTellsTruth' /\ CommandsHitTheSelection'
  BY <1>2 DEF DesktopInv, WindowTellsTruth, CommandsHitTheSelection, tables, screen
<1>5. OffIsOff' /\ RowsAreThere' /\ SeenOrNothing'
  BY DEF DesktopInv, OffIsOff, RowsAreThere, There, SeenOrNothing, tables, screen
<1>6. QED
  BY <1>3, <1>4, <1>5 DEF DesktopInv

LEMMA InvParts ==
  ASSUME DesktopInv
  PROVE  /\ TablesType /\ PopupsType /\ SeenOrNothing
         /\ settings \in [Name -> Setting] /\ window \in Window
         /\ selectedTaskId \in TaskId \cup {None}
         /\ selectedTaskId # None => tasks[selectedTaskId] = "there"
         /\ question # None => alive
  BY DEF DesktopInv, DesktopTypeOK, CommandsHitTheSelection, OffIsOff, TablesType, PopupsType

\* A write of the keeper to tasks that the table has
LEMMA KeeperStep ==
  ASSUME DesktopInv, alive, alive' = alive, NEW run,
         run \subseteq {t \in TaskId : tasks[t] # "none"},
         KeeperWrites(run), Write, tasks' = tasks, preferences' = preferences,
         menu' \in {menu, NoMenu}, question' = question
  PROVE  DesktopInv'
<1>1. /\ Fit(window', tasks', running') /\ (window.attached => window'.attached)
      /\ running' = run /\ worked' = worked \cup run /\ oldRunning' = run
      /\ Chosen /\ SettingsRead
  BY KeeperWritesFit
<1>2. TablesType' /\ SeenOrNothing'
  BY <1>1, InvParts DEF TablesType, SeenOrNothing
<1>3. PopupsType'
  BY <1>1, InvParts, DesktopAssumption DEF PopupsType, Write
<1>4. QED
  BY <1>1, <1>2, <1>3, LivingStep

\* A write of a task
LEMMA TaskStep ==
  ASSUME DesktopInv, alive, alive' = alive,
         NEW t \in TaskId, NEW s \in {"there", "removed"}, NEW moved \in BOOLEAN,
         TaskWritten([tasks EXCEPT ![t] = s], t, moved), Write,
         UNCHANGED <<menu, preferences>>, question' \in {question, None}
  PROVE  DesktopInv'
<1>1. /\ Fit(window', tasks', running') /\ (window.attached => window'.attached)
      /\ tasks' = [tasks EXCEPT ![t] = s] /\ worked' = worked
      /\ running' \subseteq running
      /\ oldRunning' = running' \/ (oldRunning' = oldRunning /\ running' = running)
      /\ Chosen /\ SettingsRead
  BY TaskWrittenFit
<1>2. TablesType' /\ SeenOrNothing'
  BY <1>1, InvParts DEF TablesType, SeenOrNothing
<1>3. PopupsType'
  BY <1>1, InvParts, DesktopAssumption DEF PopupsType, Write
<1>4. QED
  BY <1>1, <1>2, <1>3, LivingStep

LEMMA InitDesktopInv ==
  Init => DesktopInv
<1> SUFFICES ASSUME Init PROVE DesktopInv
  OBVIOUS
<1>1. window \in Window /\ settings \in [Name -> Setting]
  BY DEF Init, NoWindow, Window, Setting
<1>2. TablesType /\ PopupsType
  <2>1. tasks \in [TaskId -> {"none", "there", "removed"}]
    BY DEF Init
  <2>2. running = worked /\ worked \subseteq {t \in TaskId : tasks[t] # "none"}
    BY DEF Init, There
  <2>3. 0 \in 0 .. MaxWrites
    BY DesktopAssumption
  <2>4. QED
    BY <2>1, <2>2, <2>3 DEF Init, TablesType, PopupsType
<1>3. DesktopTypeOK
  <2>1. /\ window = NoWindow /\ NoWindow.selection = None /\ NoWindow.status = "none"
        /\ alive = FALSE /\ selectedTaskId = None /\ oldRunning = {}
    BY DEF Init, NoWindow
  <2>2. QED
    BY <1>1, <1>2, <2>1 DEF DesktopTypeOK, TablesType, PopupsType
<1>4. QED
  BY <1>3 DEF Init, NoWindow, DesktopInv, CommandsHitTheSelection, WindowTellsTruth,
              OffIsOff, RowsAreThere, SeenOrNothing

\* The end of the process, with or without a setting written before it
LEMMA GoneStep ==
  ASSUME DesktopInv, Gone, tables' = tables, writes' = writes,
         settings' \in [Name -> Setting]
  PROVE  DesktopInv'
<1>1. NoWindow \in Window
  BY DEF NoWindow, Window, Setting
<1>2. DesktopTypeOK'
  <2>1. TablesType' /\ writes' \in 0 .. MaxWrites /\ alive' \in BOOLEAN
    BY InvParts DEF Gone, TablesType, PopupsType, tables
  <2>2. window' \in Window /\ window'.selection = None /\ window'.status = "none"
    BY <1>1 DEF Gone, NoWindow
  <2>3. QED
    BY <2>1, <2>2 DEF Gone, DesktopTypeOK, TablesType
<1>3. CommandsHitTheSelection' /\ WindowTellsTruth' /\ OffIsOff'
  BY DEF Gone, NoWindow, CommandsHitTheSelection, WindowTellsTruth, OffIsOff
<1>4. RowsAreThere' /\ SeenOrNothing'
  BY DEF Gone, NoWindow, RowsAreThere, SeenOrNothing
<1>5. QED
  BY <1>2, <1>3, <1>4 DEF DesktopInv

\* A launch shows a new window, or none.
LEMMA LaunchStep ==
  ASSUME DesktopInv, Launch
  PROVE  DesktopInv'
<1> DEFINE asked == Asked(settings, "StartMinimized")
<1>1. /\ ~ alive /\ alive' /\ window = NoWindow /\ selectedTaskId = None /\ oldRunning = {}
      /\ menu = NoMenu /\ question = None
      /\ settings \in [Name -> Setting]
      /\ "CompactLayout" \in Name /\ "StartMinimized" \in Name
  BY DEF Launch, DesktopInv, DesktopTypeOK, OffIsOff, Name
<1>2. /\ tasks' = tasks /\ selectedTaskId' = None /\ oldRunning' = {}
      /\ menu' = NoMenu /\ question' = None /\ preferences' = preferences /\ writes' = writes
  BY <1>1 DEF Launch, popups
<1>3. TablesType' /\ PopupsType' /\ SeenOrNothing'
  BY <1>1, <1>2, InvParts DEF Launch, TablesType, PopupsType, SeenOrNothing
<1>4. /\ asked \in [Name -> Setting]
      /\ Value(asked, "CompactLayout") = Value(settings, "CompactLayout")
      /\ Asked(asked, "CompactLayout") \in [Name -> Setting]
      /\ Asked(asked, "CompactLayout")["CompactLayout"] = Value(asked, "CompactLayout")
      /\ Value(asked, "CompactLayout") # "missing"
  <2>1. asked \in [Name -> Setting]
    BY <1>1, ValueIsSet
  <2>2. asked["CompactLayout"] = settings["CompactLayout"]
    BY <1>1 DEF Asked
  <2>3. QED
    BY <1>1, <2>1, <2>2, ValueIsSet DEF Value, Asked
<1>5. CASE asked["StartMinimized"] = "yes"
  <2>1. settings' = asked /\ window' = NoWindow
    BY <1>1, <1>5 DEF Launch
  <2>2. NoWindow \in Window
    BY DEF NoWindow, Window, Setting
  <2>3. DesktopTypeOK'
    BY <1>1, <1>2, <1>3, <1>4, <2>1, <2>2 DEF DesktopTypeOK, TablesType, PopupsType, NoWindow
  <2>4. /\ CommandsHitTheSelection' /\ WindowTellsTruth' /\ OffIsOff' /\ RowsAreThere'
    BY <1>1, <1>2, <2>1
    DEF CommandsHitTheSelection, WindowTellsTruth, OffIsOff, RowsAreThere, NoWindow
  <2>5. QED
    BY <1>3, <2>3, <2>4 DEF DesktopInv
<1>6. CASE asked["StartMinimized"] # "yes"
  <2> DEFINE w == Made(window, tasks, running')
  <2>1. settings' = Asked(asked, "CompactLayout") /\ window' = Shown(Attached(w))
    BY <1>6 DEF Launch
  <2>2. Fit(window, tasks, running')
    BY <1>1, WindowFits DEF Fit, NoWindow
  <2>3. Fit(w, tasks, running') /\ w.status # "none"
    BY <1>1, <2>2, MadeFits
  <2>4. Fit(Attached(w), tasks, running') /\ Attached(w).status # "none"
    BY <2>3, ShownFits
  <2>5. Fit(window', tasks, running') /\ window'.status # "none"
    BY <2>1, <2>4, ShownFits
  <2>6. settings' \in [Name -> Setting] /\ settings'["CompactLayout"] # "missing"
        /\ window'.layout = settings'["CompactLayout"]
    BY <1>4, <2>1, <2>5 DEF Fit
  <2>7. DesktopTypeOK'
    BY <1>1, <1>2, <1>3, <2>5, <2>6 DEF DesktopTypeOK, TablesType, PopupsType, Fit
  <2>8. /\ CommandsHitTheSelection' /\ WindowTellsTruth' /\ OffIsOff' /\ RowsAreThere'
    BY <1>1, <1>2, <2>5, <2>6
    DEF CommandsHitTheSelection, WindowTellsTruth, OffIsOff, RowsAreThere, Fit
  <2>9. QED
    BY <1>3, <2>7, <2>8 DEF DesktopInv
<1>7. QED
  BY <1>5, <1>6

\* Once the window has been made, asking for the layout writes nothing.
LEMMA LayoutIsSet ==
  ASSUME DesktopInv, window.status # "none"
  PROVE  settings = Asked(settings, "CompactLayout")
  BY DEF DesktopInv, DesktopTypeOK, Asked, Value, Name

\* A step that concerns only the window: the popups stay, or close.
LEMMA WindowStep ==
  ASSUME DesktopInv, alive, alive' = alive, tables' = tables, oldRunning' = oldRunning,
         menu' \in {menu, NoMenu}, question' = question, preferences' = preferences,
         writes' = writes, Fit(window', tasks, running),
         window.attached => window'.attached, Chosen, SettingsRead
  PROVE  DesktopInv'
<1>1. TablesType' /\ PopupsType' /\ SeenOrNothing' /\ Fit(window', tasks', running')
  BY InvParts DEF TablesType, PopupsType, SeenOrNothing, tables
<1>2. QED
  BY <1>1, LivingStep

LEMMA UserWindowSteps ==
  ASSUME DesktopInv,
         \/ ToggleMainWindow \/ ShowMainWindow \/ CloseMainWindow
         \/ \E t \in TaskId \cup {None} : Select(t)
  PROVE  DesktopInv'
<1> DEFINE made == Made(window, tasks, running)
<1>1. /\ Fit(window, tasks, running) /\ Fit(made, tasks, running) /\ made.status # "none"
      /\ window.attached => made.attached
  BY WindowFits, InvParts, MadeFits
<1>2. CASE ToggleMainWindow
  <2>1. CASE window.status = "shown"
    <3>1. window' = [window EXCEPT !.status = "hidden"]
      BY <1>2, <2>1 DEF ToggleMainWindow
    <3>2. Fit(window', tasks, running) /\ window'.attached = window.attached
      BY <1>1, <2>1, <3>1 DEF Fit, Window
    <3>3. QED
      BY <1>2, <3>2, WindowStep DEF ToggleMainWindow, UserActs
  <2>2. CASE window.status # "shown"
    <3>1. window' = Shown(Attached(made))
      BY <1>2, <2>2 DEF ToggleMainWindow
    <3>2. Fit(Attached(made), tasks, running) /\ Attached(made).attached
          /\ Attached(made).status # "none"
      BY <1>1, ShownFits
    <3>3. Fit(window', tasks, running) /\ window'.attached
      BY <3>1, <3>2, ShownFits
    <3>4. QED
      BY <1>2, <3>3, WindowStep DEF ToggleMainWindow, UserActs
  <2>3. QED
    BY <2>1, <2>2
<1>3. CASE ShowMainWindow
  <2>1. Fit(window', tasks, running) /\ window'.attached = made.attached
    BY <1>1, <1>3, ShownFits DEF ShowMainWindow
  <2>2. QED
    BY <1>1, <1>3, <2>1, WindowStep DEF ShowMainWindow, popups
<1>4. CASE CloseMainWindow
  <2>1. window.status = "shown" /\ window' = [window EXCEPT !.status = "hidden"]
    BY <1>4 DEF CloseMainWindow, InWindow
  <2>2. Fit(window', tasks, running) /\ window'.attached = window.attached
        /\ window'.selection = window.selection
    BY <1>1, <2>1 DEF Fit, Window
  <2>3. Chosen /\ SettingsRead
    BY <1>4, <2>1, <2>2, LayoutIsSet DEF CloseMainWindow, Chosen, SettingsRead
  <2>4. QED
    BY <1>4, <2>2, <2>3, WindowStep DEF CloseMainWindow, InWindow, UserActs, popups
<1>5. CASE \E t \in TaskId \cup {None} : Select(t)
  <2>1. PICK t \in TaskId \cup {None} : Select(t)
    BY <1>5
  <2>2. window.status = "shown" /\ window' = [window EXCEPT !.selection = t]
        /\ t \in window.rows \cup {None}
    BY <2>1 DEF Select, InWindow
  <2>3. Fit(window', tasks, running) /\ window'.attached = window.attached
    BY <1>1, <2>2 DEF Fit, Window
  <2>4. SettingsRead
    BY <2>1, <2>2, LayoutIsSet DEF Select, SettingsRead
  <2>5. QED
    BY <2>1, <2>3, <2>4, WindowStep DEF Select, InWindow, UserActs, popups
<1>6. QED
  BY <1>2, <1>3, <1>4, <1>5

\* The commands and the keeper
LEMMA TimerSteps ==
  ASSUME DesktopInv,
         \/ StartSelected \/ StopSelected \/ StopAll
         \/ \E t \in TaskId : ToggleTask(t) \/ KeeperActs(t)
  PROVE  DesktopInv'
<1> DEFINE Had == {t \in TaskId : tasks[t] # "none"}
<1>1. /\ running \subseteq Had /\ worked \subseteq Had /\ There(tasks) \subseteq Had
      /\ selectedTaskId # None => selectedTaskId \in Had
  BY InvParts DEF TablesType, There
<1>2. CASE StartSelected
  <2>1. selectedTaskId # None
    BY <1>2, DesktopAssumption DEF StartSelected
  <2>2. QED
    BY <1>1, <1>2, <2>1, KeeperStep DEF StartSelected, Write, popups
<1>3. CASE StopSelected
  BY <1>1, <1>3, KeeperStep DEF StopSelected, Write, popups
<1>4. CASE StopAll
  BY <1>4, KeeperStep DEF StopAll, Write
<1>5. CASE \E t \in TaskId : ToggleTask(t)
  <2>1. PICK t \in TaskId : ToggleTask(t)
    BY <1>5
  <2>2. t \in Had
    BY <1>1, <2>1, InvParts, DesktopAssumption DEF ToggleTask, PopupsType, NoMenu
  <2>3. QED
    BY <1>1, <2>1, <2>2, KeeperStep DEF ToggleTask, Write
<1>6. CASE \E t \in TaskId : KeeperActs(t)
  <2>1. PICK t \in TaskId : KeeperActs(t)
    BY <1>6
  <2>2. PICK run \in SUBSET Had : KeeperWrites(run)
    BY <1>1, <2>1 DEF KeeperActs
  <2>3. QED
    BY <2>1, <2>2, KeeperStep DEF KeeperActs, Write, popups
<1>7. QED
  BY <1>2, <1>3, <1>4, <1>5, <1>6

\* The question, the menu and the preferences
LEMMA PopupSteps ==
  ASSUME DesktopInv,
         \/ AskRemove \/ ConfirmRemove \/ CancelRemove
         \/ PopUpMenu \/ DismissMenu \/ OpenPreferences \/ CancelPreferences
  PROVE  DesktopInv'
<1>1. /\ PopupsType /\ settings \in [Name -> Setting]
      /\ window.selection \in TaskId \cup {None}
      /\ question # None => alive
  BY InvParts DEF DesktopInv, DesktopTypeOK, Window
<1>2. CASE AskRemove
  BY <1>1, <1>2, QuietStep DEF AskRemove, InWindow, UserActs, PopupsType, screen
<1>3. CASE ConfirmRemove
  <2>1. question \in TaskId /\ alive /\ question' = None
        /\ UNCHANGED <<alive, menu, preferences>>
    BY <1>1, <1>3 DEF ConfirmRemove, PopupsType
  <2>2. CASE tasks[question] = "there"
    <3>1. Write /\ TaskWritten([tasks EXCEPT ![question] = "removed"], question, FALSE)
      BY <1>3, <2>2 DEF ConfirmRemove
    <3>2. QED
      BY <2>1, <3>1, TaskStep
  <2>3. CASE tasks[question] # "there"
    <3>1. UNCHANGED <<tables, settings, screen, writes>>
      BY <1>3, <2>3 DEF ConfirmRemove
    <3>2. PopupsType'
      BY <1>1, <2>1, <3>1 DEF PopupsType, tables
    <3>3. QED
      BY <1>1, <2>1, <3>1, <3>2, QuietStep
  <2>4. QED
    BY <2>2, <2>3
<1>4. CASE CancelRemove
  BY <1>1, <1>4, QuietStep DEF CancelRemove, PopupsType, tables
<1>5. CASE PopUpMenu
  <2>1. menu' \subseteq worked
    BY <1>5 DEF PopUpMenu, LatestActiveTasks
  <2>2. PopupsType'
    BY <1>1, <1>5, <2>1 DEF PopUpMenu, PopupsType, tables
  <2>3. QED
    BY <1>1, <1>5, <2>2, QuietStep DEF PopUpMenu, UserActs
<1>6. CASE DismissMenu
  BY <1>1, <1>6, QuietStep DEF DismissMenu, UserActs, PopupsType, tables
<1>7. CASE OpenPreferences
  <2>1. PopupsType'
    BY <1>1, <1>7 DEF OpenPreferences, PopupsType, tables
  <2> DEFINE once == Asked(settings, "CompactLayout")
  <2>2. "CompactLayout" \in Name /\ "StartMinimized" \in Name
    BY DEF Name
  <2>3. once \in [Name -> Setting]
        /\ \A n \in Name : settings[n] # "missing" => once[n] = settings[n]
    BY <1>1, <2>2, ValueIsSet
  <2>4. /\ settings' = Asked(once, "StartMinimized") /\ settings' \in [Name -> Setting]
        /\ \A n \in Name : once[n] # "missing" => settings'[n] = once[n]
    <3>1. settings' = Asked(once, "StartMinimized")
      BY <1>7 DEF OpenPreferences
    <3>2. ASSUME NEW s \in [Name -> Setting]
          PROVE  /\ Asked(s, "StartMinimized") \in [Name -> Setting]
                 /\ \A n \in Name : s[n] # "missing" => Asked(s, "StartMinimized")[n] = s[n]
      BY <3>2 DEF Name, Setting, Value, Asked, Defaults
    <3>3. QED
      BY <2>3, <3>1, <3>2
  <2>5. \A n \in Name : settings[n] # "missing" => settings'[n] = settings[n]
    BY <2>3, <2>4
  <2>6. QED
    BY <1>7, <2>1, <2>4, <2>5, QuietStep DEF OpenPreferences, UserActs
<1>8. CASE CancelPreferences
  BY <1>1, <1>8, QuietStep DEF CancelPreferences, UserActs, PopupsType, tables
<1>9. QED
  BY <1>2, <1>3, <1>4, <1>5, <1>6, <1>7, <1>8

\* The dialogs for times, the task dialog and the synchronisation
LEMMA OtherWriterSteps ==
  ASSUME DesktopInv, NEW t \in TaskId, TimeWritten(t) \/ TaskChanged(t)
  PROVE  DesktopInv'
<1>1. CASE TimeWritten(t)
  <2>1. PICK run \in {running, running \cup {t}, running \ {t}} : OthersWrite(run)
    BY <1>1 DEF TimeWritten
  <2>2. /\ t \in worked /\ run \subseteq worked /\ alive /\ Write
        /\ UNCHANGED <<alive, tasks, popups>>
    BY <1>1, <2>1, InvParts DEF TimeWritten, TablesType, Write
  <2>3. /\ Fit(window', tasks, running') /\ (window.attached => window'.attached)
        /\ running' = run /\ worked' = worked \cup run /\ oldRunning' = run
        /\ Chosen /\ SettingsRead
    BY <2>1, OthersWriteFit
  <2>4. TablesType' /\ SeenOrNothing'
    BY <2>2, <2>3, InvParts DEF TablesType, SeenOrNothing
  <2>5. PopupsType'
    BY <2>2, <2>3, InvParts, DesktopAssumption DEF PopupsType, Write, popups
  <2>6. QED
    BY <2>2, <2>3, <2>4, <2>5, LivingStep
<1>2. CASE TaskChanged(t)
  <2>1. PICK s \in {"there", "removed"}, moved \in BOOLEAN :
          TaskWritten([tasks EXCEPT ![t] = s], t, moved)
    BY <1>2 DEF TaskChanged
  <2>2. QED
    BY <1>2, <2>1, TaskStep DEF TaskChanged, Write, popups
<1>3. QED
  BY <1>1, <1>2

\* The settings that are saved reach the window they lay out.
LEMMA SaveSteps ==
  ASSUME DesktopInv, NEW compact \in {"yes", "no"},
         \/ SaveCutShort(compact)
         \/ \E minimized \in {"yes", "no"} : SavePreferences(compact, minimized)
  PROVE  DesktopInv'
<1>1. settings \in [Name -> Setting] /\ window \in Window
  BY InvParts
<1>2. CASE SaveCutShort(compact)
  <2>1. settings' \in [Name -> Setting]
    BY <1>1, <1>2 DEF SaveCutShort, SetBool, Setting
  <2>2. QED
    BY <1>2, <2>1, GoneStep DEF SaveCutShort
<1>3. CASE \E minimized \in {"yes", "no"} : SavePreferences(compact, minimized)
  <2>1. PICK minimized \in {"yes", "no"} : SavePreferences(compact, minimized)
    BY <1>3
  <2>2. settings' \in [Name -> Setting] /\ settings'["CompactLayout"] = compact
    BY <1>1, <2>1 DEF SavePreferences, SetBool, Setting, Name
  <2>3. window' = IF window.status = "none" THEN window ELSE LaidOut(window, compact)
    BY <2>1 DEF SavePreferences
  <2>4. /\ window' \in Window /\ window'.rows = window.rows
        /\ window'.selection = window.selection /\ window'.status = window.status
        /\ window'.attached = window.attached /\ window'.title = window.title
        /\ window.status = "none" => window' = window
        /\ window.status # "none" => window'.layout = compact
    BY <1>1, <2>3 DEF LaidOut, Window, Setting
  <2>5. /\ alive /\ alive' = alive /\ tables' = tables /\ preferences' = FALSE
        /\ UNCHANGED <<selectedTaskId, oldRunning, menu, question, writes>>
    BY <2>1 DEF SavePreferences, UserActs
  <2>6. DesktopTypeOK'
    BY <2>2, <2>4, <2>5 DEF DesktopInv, DesktopTypeOK, tables
  <2>7. CommandsHitTheSelection' /\ WindowTellsTruth'
    BY <2>2, <2>4, <2>5
    DEF DesktopInv, CommandsHitTheSelection, WindowTellsTruth, DesktopTypeOK, NoWindow, tables
  <2>8. OffIsOff' /\ RowsAreThere' /\ SeenOrNothing'
    BY <2>4, <2>5 DEF DesktopInv, OffIsOff, RowsAreThere, There, SeenOrNothing, tables
  <2>9. QED
    BY <2>6, <2>7, <2>8 DEF DesktopInv
<1>4. QED
  BY <1>2, <1>3

LEMMA StepDesktopInv ==
  DesktopInv /\ [Next]_vars => DesktopInv'
<1> SUFFICES ASSUME DesktopInv, [Next]_vars PROVE DesktopInv'
  OBVIOUS
<1>1. CASE \/ ToggleMainWindow \/ ShowMainWindow \/ CloseMainWindow
           \/ \E t \in TaskId \cup {None} : Select(t)
  BY <1>1, UserWindowSteps
<1>2. CASE \/ StartSelected \/ StopSelected \/ StopAll
           \/ \E t \in TaskId : ToggleTask(t) \/ KeeperActs(t)
  BY <1>2, TimerSteps
<1>3. CASE \/ AskRemove \/ ConfirmRemove \/ CancelRemove
           \/ PopUpMenu \/ DismissMenu \/ OpenPreferences \/ CancelPreferences
  BY <1>3, PopupSteps
<1>4. CASE \E t \in TaskId : TimeWritten(t) \/ TaskChanged(t)
  BY <1>4, OtherWriterSteps
<1>5. CASE \E compact \in {"yes", "no"} :
             \/ SaveCutShort(compact)
             \/ \E minimized \in {"yes", "no"} : SavePreferences(compact, minimized)
  BY <1>5, SaveSteps
<1>6. CASE Quit
  BY <1>6, GoneStep, InvParts DEF Quit
<1>7. CASE Launch
  BY <1>7, LaunchStep
<1>8. CASE UNCHANGED vars
  BY <1>8 DEF vars, tables, screen, popups, DesktopInv, DesktopTypeOK, CommandsHitTheSelection,
              WindowTellsTruth, OffIsOff, RowsAreThere, There, SeenOrNothing
<1>9. QED
  BY <1>1, <1>2, <1>3, <1>4, <1>5, <1>6, <1>7, <1>8 DEF Next

LEMMA DesktopInvAlways ==
  Spec => []DesktopInv
BY InitDesktopInv, StepDesktopInv, PTL DEF Spec

-----------------------------------------------------------------------------
(* The theorems *)

(***************************************************************************)
(* The rows, the selection, the menu and the tables stay within the tasks  *)
(* there are, for any tree of tasks: no window is there without the        *)
(* settings it is laid out by, no timer runs without an entry.             *)
(***************************************************************************)
THEOREM DesktopTypeCorrect ==
  Spec => []DesktopTypeOK
<1>1. DesktopInv => DesktopTypeOK
  BY DEF DesktopInv
<1>2. QED
  BY <1>1, DesktopInvAlways, PTL

(***************************************************************************)
(* Start, Stop, Edit and Add time act on the task that is highlighted and  *)
(* still there, although main_window, task_list and gui_controller each    *)
(* learn of a removed, moved or stopped task on their own.                 *)
(***************************************************************************)
THEOREM CommandsHit ==
  Spec => []CommandsHitTheSelection
<1>1. DesktopInv => CommandsHitTheSelection
  BY DEF DesktopInv
<1>2. QED
  BY <1>1, DesktopInvAlways, PTL

(***************************************************************************)
(* The main window that window_manager keeps says that a timer runs when   *)
(* one does and is laid out as the settings say, whoever wrote the times   *)
(* or the settings and whether it was shown or hidden then.                *)
(***************************************************************************)
THEOREM WindowIsTruthful ==
  Spec => []WindowTellsTruth
<1>1. DesktopInv => WindowTellsTruth
  BY DEF DesktopInv
<1>2. QED
  BY <1>1, DesktopInvAlways, PTL
=============================================================================
