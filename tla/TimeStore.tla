----------------------------- MODULE TimeStore -----------------------------
(***************************************************************************)
(* The "times" table of the database and the operations of time_accessor   *)
(* and time_entry on it (lib/src/DB/time_accessor.cpp,                     *)
(* lib/src/datatypes/time_entry.cpp).  Every component that writes working *)
(* time -- the time keeper, the dialogs, the synchronisation -- goes       *)
(* through these operators, and every one of them writes the copy of a row *)
(* it read earlier: `changed' decides whether the copy still may be        *)
(* written.                                                                *)
(*                                                                         *)
(* A row is [id, owner, start, stop, changed, state].  The comment of a    *)
(* row is left out: no property tells two comments apart.  Times are       *)
(* whole numbers of an arbitrary unit.                                     *)
(***************************************************************************)
EXTENDS Integers, FiniteSets

CONSTANTS
  TaskId,    \* the tasks an entry may belong to
  EntryId    \* the ids (UUIDs) a row of the table may have

VARIABLE
  times      \* times[e]: the row with id e, or NoRow when there is none

EntryState == {"stopped", "running", "paused", "deleted"}

TimeEntry ==
  [id : EntryId, owner : TaskId, start : Nat, stop : Nat, changed : Nat,
   state : EntryState]

NoRow == [state |-> "none"]

TimesType ==
  /\ times \in [EntryId -> TimeEntry \cup {NoRow}]
  /\ \A e \in EntryId : times[e] # NoRow => times[e].id = e

(***************************************************************************)
(* time_entry: a copy with one value replaced is a new version, stamped    *)
(* with the current time; replacing a value by itself is the same version. *)
(***************************************************************************)
With(item, new_state, at) ==
  IF item.state = new_state THEN item
  ELSE [item EXCEPT !.state = new_state, !.changed = at]

WithStart(item, t, at) ==
  IF item.start = t THEN item ELSE [item EXCEPT !.start = t, !.changed = at]

WithStop(item, t, at) ==
  IF item.stop = t THEN item ELSE [item EXCEPT !.stop = t, !.changed = at]

(***************************************************************************)
(* time_accessor: the queries.                                             *)
(***************************************************************************)
ByState(s) == {times[e] : e \in {f \in EntryId : times[f].state = s}}

RunningTasks == {item.owner : item \in ByState("running")}

\* Mutant of Accepts: the version test is missing.
AcceptsAny(item) == times[item.id] # NoRow /\ item # times[item.id]

\* Mutant of Accepts: a version of the same second is refused.
AcceptsOnlyNewer(item) ==
  /\ times[item.id] # NoRow
  /\ item.changed > times[item.id].changed

(***************************************************************************)
(* time_accessor::update, the only statement that changes a row.  It       *)
(* refuses a copy that is older than the row, and never rewrites the       *)
(* owner.                                                                  *)
(***************************************************************************)
Accepts(item) ==
  /\ times[item.id] # NoRow
  /\ item # times[item.id]
  /\ item.changed >= times[item.id].changed

Update(item) ==
  times' = IF Accepts(item)
           THEN [times EXCEPT ![item.id] =
                   [item EXCEPT !.owner = times[item.id].owner]]
           ELSE times

\* time_accessor::create: a row with an id never seen before.
Create(item) ==
  /\ times[item.id] = NoRow
  /\ times' = [times EXCEPT ![item.id] = item]

(***************************************************************************)
(* time_accessor::remove_short_time_spans, run when the database is        *)
(* opened: a DELETE of every row shorter than `span', whatever its state.  *)
(***************************************************************************)
RemoveShortTimeSpans(span) ==
  times' = [e \in EntryId |->
              IF times[e] # NoRow /\ times[e].stop - times[e].start < span
              THEN NoRow ELSE times[e]]
=============================================================================
