------------------------------ MODULE Dialogs ------------------------------
(***************************************************************************)
(* The dialogs that write working time beside the time keeper, composed    *)
(* with it: the idle dialog (timeit_gtkmm/gui/idle_dialog.cpp), the list   *)
(* of details with its questions (details.cpp) and the dialog that edits   *)
(* or adds an entry (edit_time.cpp).                                       *)
(*                                                                         *)
(* All run in the main loop, between two handlers of the keeper.  What     *)
(* makes them hard is that they stay open meanwhile: an idle dialog knows  *)
(* the id of its entry and reads the row when it is answered, a question   *)
(* of the details and an edit dialog hold a copy of the row as it was when *)
(* they were opened.  A question is modal: until it is answered the user   *)
(* reaches no other window, but timers run, and the auto tracker starts    *)
(* and stops tasks.                                                        *)
(***************************************************************************)
EXTENDS TimeKeeper

CONSTANTS
  Uses,       \* bound: the dialogs the user makes use of
  EditAhead,  \* bound: how far into the future an edited time may be
  SplitSpan   \* 120 seconds: shorter entries are not split

ASSUME DialogsAssumption ==
  /\ Uses \subseteq {"idle", "dismiss", "remove", "merge", "split", "edit", "add"}
  /\ EditAhead \in Nat /\ SplitSpan \in Nat

VARIABLES
  asking,     \* the entries an idle dialog is open for
  question,   \* the question of the details that is open, with its copies
  editing,    \* the edit dialog that is open, with its copy
  second      \* the second statement of the handler of a dialog

windowVars == <<asking, question, editing>>
dialogVars == <<windowVars, second>>
allVars == <<vars, dialogVars>>

NoQuestion == [kind |-> "none"]
NoEdit == [kind |-> "none"]
Nothing == [op |-> "none"]

Question ==
  {NoQuestion} \cup [kind : {"remove"}, item : TimeEntry]
  \cup [kind : {"merge"}, item : TimeEntry, next : TimeEntry]
Edit ==
  {NoEdit} \cup [kind : {"edit"}, item : TimeEntry]
  \cup [kind : {"add"}, owner : TaskId]
Second ==
  {Nothing} \cup [op : {"stop", "start"}, owner : TaskId]
  \cup [op : {"write", "create"}, item : TimeEntry]

DialogsTypeOK ==
  /\ TimesType
  /\ pc \in PC \cup {"dialog"}
  /\ todo \subseteq TimeEntry /\ toNotify \subseteq TimeEntry
  /\ asking \subseteq EntryId
  /\ question \in Question /\ editing \in Edit /\ second \in Second

\* The user reaches the windows that are not behind a question.
UserReaches == UserActs /\ question = NoQuestion

\* The first statement of a handler of a dialog leaves a second one to do.
Then(step) == pc' = "dialog" /\ second' = step

Unmoved == UNCHANGED <<now, settingVars, removed, todo, toNotify>>

\* Bound: there is an id left for a row the handler has to create.
IdLeft == \E e \in EntryId : times[e] = NoRow

-----------------------------------------------------------------------------
(* The idle dialog.  The row is read when the user answers. *)

\* action_continue: the entry runs, and the whole gap is counted.
Continue(e) ==
  /\ UserReaches /\ e \in asking
  /\ Update(WithStop(With(times[e], "running", now), now, now))
  /\ Observe(FALSE)
  /\ asking' = asking \ {e}
  /\ Unmoved /\ UNCHANGED <<pc, question, editing, second>>

\* revert_and_stop: stop_time( item) ... and stop( item->owner_id)
RevertAndStop(e) ==
  /\ UserReaches /\ e \in asking
  /\ StopTime(times[e])
  /\ Then([op |-> "stop", owner |-> times[e].owner])
  /\ asking' = asking \ {e}
  /\ Unmoved /\ UNCHANGED <<question, editing>>

\* Mutant of RevertAndContinue: the entry goes on, with the gap.
RevertAndContinueSame(e) ==
  /\ UserReaches /\ e \in asking /\ IdLeft
  /\ Update(WithStop(With(times[e], "running", now), now, now))
  /\ Observe(FALSE)
  /\ Then([op |-> "start", owner |-> times[e].owner])
  /\ asking' = asking \ {e}
  /\ Unmoved /\ UNCHANGED <<question, editing>>

\* revert_and_continue: stop_time( item) ... and start( item->owner_id)
RevertAndContinue(e) ==
  /\ UserReaches /\ e \in asking /\ IdLeft
  /\ StopTime(times[e])
  /\ Then([op |-> "start", owner |-> times[e].owner])
  /\ asking' = asking \ {e}
  /\ Unmoved /\ UNCHANGED <<question, editing>>

\* response_handler without an answer: the dialog is closed with Escape.
Dismiss(e) ==
  /\ UserReaches /\ "dismiss" \in Uses /\ e \in asking
  /\ asking' = asking \ {e}
  /\ Unmoved
  /\ UNCHANGED <<times, viewVars, pc, question, editing, second>>

-----------------------------------------------------------------------------
(* The list of details.  It may still show a row that was deleted under it. *)

AskRemove(e) ==
  /\ UserReaches /\ "remove" \in Uses /\ times[e] # NoRow
  /\ question' = [kind |-> "remove", item |-> times[e]]
  /\ Unmoved /\ UNCHANGED <<times, viewVars, pc, asking, editing, second>>

\* on_menu_file_popup_merge: a row and the next one, ordered by start.
AskMerge(e, f) ==
  /\ UserReaches /\ "merge" \in Uses
  /\ e # f /\ times[e] # NoRow /\ times[f] # NoRow
  /\ times[e].owner = times[f].owner /\ times[e].start <= times[f].start
  /\ question' = [kind |-> "merge", item |-> times[e], next |-> times[f]]
  /\ Unmoved /\ UNCHANGED <<times, viewVars, pc, asking, editing, second>>

AnswerCancel ==
  /\ UserActs /\ question # NoQuestion
  /\ question' = NoQuestion
  /\ Unmoved /\ UNCHANGED <<times, viewVars, pc, asking, editing, second>>

\* A running entry keeps running and starts over with zero length.
ConfirmRemove ==
  /\ UserActs /\ question.kind = "remove"
  /\ LET item == question.item IN
       Update(IF item.state = "running" THEN WithStart(item, item.stop, now)
                                        ELSE With(item, "deleted", now))
  /\ Observe(FALSE)
  /\ question' = NoQuestion
  /\ Unmoved /\ UNCHANGED <<pc, asking, editing, second>>

\* times.remove( time_entry_0) ... and the longer time_entry_1
ConfirmMerge ==
  /\ UserActs /\ question.kind = "merge"
  /\ Update(With(question.item, "deleted", now))
  /\ Observe(FALSE)
  /\ Then([op |-> "write",
           item |-> WithStart(question.next, question.item.start, now)])
  /\ question' = NoQuestion
  /\ Unmoved /\ UNCHANGED <<asking, editing>>

\* Mutant of Split: the two ends are swapped.
SplitBackwards(e) ==
  /\ UserReaches /\ "split" \in Uses /\ times[e] # NoRow /\ IdLeft
  /\ times[e].stop - times[e].start > SplitSpan
  /\ LET item == times[e]
         half == item.start + (item.start - item.stop) \div 2 IN
     /\ Update(WithStart(item, half, now))
     /\ \E f \in EntryId :
          /\ times[f] = NoRow
          /\ Then([op |-> "create",
                   item |-> [item EXCEPT !.id = f, !.stop = half,
                                         !.changed = now, !.state = "stopped"]])
  /\ Observe(FALSE)
  /\ Unmoved /\ UNCHANGED <<windowVars>>

\* on_menu_file_popup_split, which asks nothing: the row becomes the second
\* half, and the first half is created.
Split(e) ==
  /\ UserReaches /\ "split" \in Uses /\ times[e] # NoRow /\ IdLeft
  /\ times[e].stop - times[e].start > SplitSpan
  /\ LET item == times[e]
         half == item.start + (item.stop - item.start) \div 2 IN
     /\ Update(WithStart(item, half, now))
     /\ \E f \in EntryId :
          /\ times[f] = NoRow
          /\ Then([op |-> "create",
                   item |-> [item EXCEPT !.id = f, !.stop = half,
                                         !.changed = now, !.state = "stopped"]])
  /\ Observe(FALSE)
  /\ Unmoved /\ UNCHANGED <<windowVars>>

-----------------------------------------------------------------------------
(* The edit dialog, which is not modal.  Bound: one is open at a time. *)

OpenEdit(e) ==
  /\ UserReaches /\ "edit" \in Uses /\ times[e] # NoRow /\ editing = NoEdit
  /\ editing' = [kind |-> "edit", item |-> times[e]]
  /\ Unmoved /\ UNCHANGED <<times, viewVars, pc, asking, question, second>>

\* gui_controller::on_add_time
OpenAdd(t) ==
  /\ UserReaches /\ "add" \in Uses /\ editing = NoEdit
  /\ editing' = [kind |-> "add", owner |-> t]
  /\ Unmoved /\ UNCHANGED <<times, viewVars, pc, asking, question, second>>

CancelEdit ==
  /\ UserReaches /\ editing # NoEdit
  /\ editing' = NoEdit
  /\ Unmoved /\ UNCHANGED <<times, viewVars, pc, asking, question, second>>

\* on_response: the copy with the values of the dialog.  The button is
\* sensitive only when something was changed, if only the comment.
ApplyEdit(start, stop) ==
  /\ UserReaches /\ editing # NoEdit
  /\ start < stop
  /\ \/ /\ editing.kind = "edit"
        /\ Update([editing.item EXCEPT !.start = start, !.stop = stop,
                                       !.changed = now])
     \/ /\ editing.kind = "add"
        /\ \E e \in EntryId :
             Create([id |-> e, owner |-> editing.owner, start |-> start,
                     stop |-> stop, changed |-> now, state |-> "stopped"])
  /\ Observe(FALSE)
  /\ editing' = NoEdit
  /\ Unmoved /\ UNCHANGED <<pc, asking, question, second>>

-----------------------------------------------------------------------------
(* The second statement of a handler *)

EndHandler ==
  /\ pc' = "ready" /\ second' = Nothing
  /\ UNCHANGED <<envVars, settingVars, removed, todo, toNotify, windowVars>>

\* time_manager::stop( owner_id)
SecondStop ==
  /\ second.op = "stop"
  /\ \/ \E item \in ByState("running") : item.owner = second.owner /\ StopTime(item)
     \/ ~ IsRunning(second.owner) /\ UNCHANGED <<times, viewVars>>
  /\ EndHandler

\* time_manager::start( owner_id)
SecondStart ==
  /\ second.op = "start"
  /\ \/ StartTime(second.owner)
     \/ IsRunning(second.owner) /\ UNCHANGED <<times, viewVars>>
  /\ EndHandler

SecondWrite ==
  /\ second.op = "write"
  /\ Update(second.item)
  /\ Observe(FALSE)
  /\ EndHandler

SecondCreate ==
  /\ second.op = "create"
  /\ Create(second.item)
  /\ Observe(FALSE)
  /\ EndHandler

-----------------------------------------------------------------------------
(* The keeper under the dialogs *)

\* While a question is open only the auto tracker starts and stops tasks.
KeeperAlone ==
  /\ \/ TimePasses \/ StepBack \/ UserInput
     \/ \E t \in TaskId \ removed : Start(t)
     \/ \E t \in TaskId : Stop(t)
     \/ question = NoQuestion /\ UserStep
     \/ TickBegin \/ PollActivity
     \/ \E item \in todo : Drain(item) \/ StopExpired(item) \/ Extend(item)
  /\ UNCHANGED dialogVars

\* gui_controller::on_idle_detected also opens the idle dialog.
IdleDetected ==
  /\ \E item \in toNotify :
       NotifyIdle(item) /\ asking' = asking \cup {item.id}
  /\ UNCHANGED <<question, editing, second>>

Quit ==
  /\ Down
  /\ asking' = {} /\ question' = NoQuestion /\ editing' = NoEdit
  /\ second' = Nothing

\* Mutant of Restart: the entries that were left paused are forgotten.
RestartSilently ==
  /\ Launch
  /\ UNCHANGED <<windowVars, second>>

\* gui_controller::start asks about the entries that were left paused.
Restart ==
  /\ Launch
  /\ asking' = {e \in EntryId : times'[e].state = "paused"}
  /\ UNCHANGED <<question, editing, second>>

-----------------------------------------------------------------------------
DialogsInit ==
  /\ Init
  /\ asking = {} /\ question = NoQuestion /\ editing = NoEdit
  /\ second = Nothing

Answer ==
  /\ "idle" \in Uses
  /\ \E e \in asking :
       Continue(e) \/ RevertAndStop(e) \/ RevertAndContinue(e) \/ Dismiss(e)

Details ==
  \/ \E e \in EntryId : AskRemove(e) \/ Split(e) \/ OpenEdit(e)
  \/ \E e, f \in EntryId : AskMerge(e, f)
  \/ AnswerCancel \/ ConfirmRemove \/ ConfirmMerge

Editing ==
  \/ \E t \in TaskId \ removed : OpenAdd(t)
  \/ \E start, stop \in 0 .. now + EditAhead : ApplyEdit(start, stop)
  \/ CancelEdit

SecondStep == SecondStop \/ SecondStart \/ SecondWrite \/ SecondCreate

DialogsNext ==
  KeeperAlone \/ IdleDetected \/ Quit \/ Restart
  \/ Answer \/ Details \/ Editing \/ SecondStep

DialogsSpec == DialogsInit /\ [][DialogsNext]_allVars

-----------------------------------------------------------------------------
(***************************************************************************)
(* Time of absence is counted only when the user says so: when an entry    *)
(* jumps by more than the idle time of its task, the user just answered    *)
(* Continue or edited it.  Neither of the Reverts, nor a question answered *)
(* over a tick, nor a restart does it (doc/html/C/index.html:87-94).       *)
(***************************************************************************)
IdleCountedOnRequest ==
  [][\A e \in EntryId :
       /\ times[e] # NoRow /\ times'[e] # NoRow
       /\ times'[e].stop - times[e].stop > IdleLimit(times[e].owner)
       => Continue(e) \/ (editing.kind = "edit" /\ editing.item.id = e)]_allVars

RemovedReturns(e) ==
  times[e].state = "deleted" /\ times'[e] # NoRow /\ times'[e].state # "deleted"

Recorded(e) ==
  Counts(e) /\ times[e].stop - times[e].start >= IF gz > ShortSpan THEN gz ELSE ShortSpan

Shortened(e) ==
  times'[e].stop - times'[e].start < times[e].stop - times[e].start

WrittenByUser(e) ==
  \/ question' # question \/ second.op = "write"
  \/ editing.kind = "edit" /\ editing.item.id = e

(***************************************************************************)
(* Recorded time is lost only when the user says so: an entry that is long *)
(* enough to count ("Shorter than this time will not be counted",          *)
(* doc/html/C/index.html:117) is never cut or dropped by a tick, a stop, a *)
(* crash, a launch or an answer to the idle dialog, only by what the user  *)
(* does to it in the details or the edit dialog.  And an entry that was    *)
(* removed or discarded comes back only by an answer to the idle dialog    *)
(* about it (idle_dialog.cpp:128, 137), or by a copy read before that the  *)
(* user confirms or has edited: no tick, stop, start, crash or launch      *)
(* revives it.                                                             *)
(***************************************************************************)
TimeLostOnlyOnRequest ==
  [][\A e \in EntryId :
       /\ RemovedReturns(e) => e \in asking \ asking' \/ WrittenByUser(e)
       /\ Recorded(e) /\ (~ Counts(e)' \/ Shortened(e))
            => WrittenByUser(e) \/ Split(e)]_allVars

(***************************************************************************)
(* An entry that is paused, because the process died between the pause and *)
(* the stop, has an idle dialog that asks about it, after every launch     *)
(* until it is answered (gui_controller::start).  Only the user leaves an  *)
(* entry paused: closing the dialog, saving a copy read before, or giving  *)
(* an answer that comes to nothing.  The last happens when the clock was   *)
(* set back to before the entry was written: the version test refuses the  *)
(* answer, and the dialog is closed all the same (idle_dialog.cpp:114-166) *)
(***************************************************************************)
Unasked(e) == pc # "off" /\ times[e].state = "paused" /\ e \notin asking

AnswerRefused(e) == e \in asking \ asking' /\ times[e].changed > now

PausedIsAsked ==
  [][\A e \in EntryId :
       Unasked(e)' => \/ Unasked(e) \/ Dismiss(e) \/ AnswerRefused(e)
                      \/ editing.kind = "edit" /\ editing.item.id = e]_allVars

=============================================================================
