----------------------------- MODULE Timesheet -----------------------------
(***************************************************************************)
(* What the time keeper promises about recorded time, without rows that    *)
(* are copied, versions, ticks or crashes: a sheet of lines.  A line is    *)
(* opened for a task that has no open line, an open line only grows, a     *)
(* line that was ended keeps the time it had, neither an ended nor a       *)
(* voided line is ever opened again, and only short lines vanish.          *)
(***************************************************************************)
EXTENDS Integers

CONSTANTS
  TaskId,     \* the tasks a line may belong to
  EntryId,    \* the places of the sheet
  ShortSpan   \* a line shorter than this is of no account

VARIABLE sheet

Blank == [phase |-> "blank"]

OpenLines(t) ==
  {e \in EntryId : sheet[e].phase = "open" /\ sheet[e].owner = t}

Init == sheet = [e \in EntryId |-> Blank]

Open(e, t) ==
  /\ sheet[e] = Blank /\ OpenLines(t) = {}
  /\ sheet'[e].phase = "open"
  /\ LET at == sheet'[e].start IN
       sheet' = [sheet EXCEPT ![e] =
                   [owner |-> t, start |-> at, stop |-> at, phase |-> "open"]]

\* An open line grows; its start stays.
Grow(e) ==
  /\ sheet[e].phase = "open" /\ sheet'[e].phase = "open"
  /\ sheet'[e].stop > sheet[e].stop
  /\ sheet' = [sheet EXCEPT ![e].stop = sheet'[e].stop]

End(e) ==
  /\ sheet[e].phase = "open"
  /\ sheet' = [sheet EXCEPT ![e].phase = "ended"]

Void(e) ==
  /\ sheet[e].phase \in {"open", "ended"}
  /\ sheet' = [sheet EXCEPT ![e].phase = "void"]

\* Lines of no account are struck out together.
Short == {e \in EntryId : sheet[e] # Blank /\ sheet[e].stop - sheet[e].start < ShortSpan}

Erase(lines) ==
  sheet' = [e \in EntryId |-> IF e \in lines THEN Blank ELSE sheet[e]]

Next ==
  \/ \E e \in EntryId, t \in TaskId : Open(e, t)
  \/ \E e \in EntryId : Grow(e) \/ End(e) \/ Void(e)
  \/ \E lines \in SUBSET Short : Erase(lines)

Spec == Init /\ [][Next]_sheet
=============================================================================
