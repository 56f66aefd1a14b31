------------------------------ MODULE Details ------------------------------
(***************************************************************************)
(* The list of details (timeit_gtkmm/gui/details.cpp), in the main window  *)
(* below the summaries and in a dialog of its own: the recorded times of a *)
(* task within the range of a summary, with the total of every day.        *)
(*                                                                         *)
(* A change of a time that has a row brings the rows of its day up to      *)
(* date, any other one makes all rows anew, so what is shown depends on    *)
(* the order in which things happened.  The user acts on the rows, which   *)
(* hold ids; the times behind them are read when a menu is chosen, and     *)
(* written after a question.                                               *)
(*                                                                         *)
(* A handler is one step, but for the question in the middle of it.  All   *)
(* other writers -- the keeper, the dialogs, the synchronisation, another  *)
(* list of details -- are one action, WriteTime.  Comments and the column  *)
(* of the idle time are left out.                                          *)
(***************************************************************************)
EXTENDS Calendar, FiniteSets, FiniteSetsExt, SequencesExt

CONSTANTS
  TaskId,
  LastId,     \* bound: the number of entries
  Spans,      \* bound: the starts and stops that are written
  Picks,      \* bound: the views and days that are looked at
  MaxWrites   \* bound: the number of writes

EntryId == 1 .. LastId   \* in the order of the table

ASSUME DetailsAssumption ==
  /\ LastId \in Nat /\ MaxWrites \in Nat
  /\ Spans \subseteq [start : Int, stop : Int]
  /\ \A s \in Spans : s.start <= s.stop
  /\ Picks \subseteq [view : {"day", "week", "month", "year"}, day : Day]

VARIABLES
  times,      \* times[e]: the row of e in the table, or NoRow
  presented,  \* the task of the list, or NoTask
  pick,       \* what is looked at ...
  range,      \* ... and its start_time and stop_time
  list,       \* the rows of the list
  question,   \* the question that is open, with the copies read before
  writes      \* the number of writes so far

vars == <<times, presented, pick, range, list, question, writes>>

NoRow == [none |-> TRUE]
NoTask == "no task"
NoQuestion == [kind |-> "none"]
NoTotal == <<>>   \* an empty cell in the column of the day totals

TimeRow == [owner : TaskId, start : Int, stop : Int,
            state : {"running", "stopped", "deleted"}]

(***************************************************************************)
(* first: the row shows its date.  List adds history: after a split the    *)
(* list is narrowed to what was split; it is stirred when an entry was     *)
(* moved, removed or brought back since the rows were made, or one that    *)
(* reached over midnight was cut.                                          *)
(***************************************************************************)
ListRow == [id : EntryId, start : Int, stop : Int, first : BOOLEAN,
            total : Seq(Int)]
List == [rows : Seq(ListRow), narrowed : BOOLEAN, stirred : BOOLEAN]

Copy == [id : EntryId, row : TimeRow]
Question == {NoQuestion} \cup [kind : {"remove"}, item : Copy]
            \cup [kind : {"merge"}, item : Copy, next : Copy]

DetailsTypeOK ==
  /\ times \in [EntryId -> TimeRow \cup {NoRow}]
  /\ presented \in TaskId \cup {NoTask}
  /\ pick \in Picks /\ range \in [from : Int, to : Int]
  /\ list \in List /\ writes \in 0 .. MaxWrites
  /\ question \in Question
  /\ \A i, j \in DOMAIN list.rows : list.rows[i].id = list.rows[j].id => i = j

Rows(tm) == {e \in EntryId : tm[e] # NoRow}
Live(tm) == {e \in Rows(tm) : tm[e].state # "deleted"}
Length(row) == row.stop - row.start

Overlaps(row, r) == row.stop > r.from /\ row.start < r.to

\* It does not reach over midnight.
InOneDay(row) ==
  LET day == DayRange(row.start) IN Overlaps(row, day) /\ row.stop <= day.to + 1

-----------------------------------------------------------------------------
(* What the list is made of *)

\* ORDER BY start; of two that start together the database returns the older.
Earlier(tm, e, f) == \/ tm[e].start < tm[f].start
                     \/ tm[e].start = tm[f].start /\ e < f

\* The sequence of the members of S in an order, which is given as a relation
InOrder(S, order) ==
  CHOOSE s \in [1 .. Cardinality(S) -> S] :
    \A i, j \in DOMAIN s : i < j => <<s[i], s[j]>> \in order

\* time_accessor::by_activity
ByActivity(tm, t, r) ==
  LET S == {e \in Live(tm) : tm[e].owner = t /\ Overlaps(tm[e], r)}
  IN  InOrder(S, {p \in S \X S : Earlier(tm, p[1], p[2])})

\* create_row_data.  The total of a day is in the last row of the day.
CreateRowData(tm, t, r) ==
  LET items == IF t = NoTask THEN <<>> ELSE ByActivity(tm, t, r)
      day == [i \in DOMAIN items |-> DayOf(tm[items[i]].start)]
      FirstInDay(i) == i = 1 \/ day[i - 1] # day[i]
      LastInDay(i) == i = Len(items) \/ day[i] # day[i + 1]
      Total(i) == MapThenSumSet(LAMBDA e : Length(tm[e]),
                                {items[j] : j \in {k \in 1 .. i : day[k] = day[i]}})
  IN  [i \in DOMAIN items |->
         [id |-> items[i], start |-> tm[items[i]].start, stop |-> tm[items[i]].stop,
          first |-> FirstInDay(i), total |-> IF LastInDay(i) THEN <<Total(i)>> ELSE NoTotal]]

\* Mutant of Populated: the old rows are not cleared.
PopulatedUncleared(tm) ==
  [rows |-> list.rows \o CreateRowData(tm, presented, range),
   narrowed |-> FALSE, stirred |-> FALSE]

\* populate()
Populated(tm) ==
  [rows |-> CreateRowData(tm, presented, range), narrowed |-> FALSE, stirred |-> FALSE]

\* update_row: a total that was shown stays when the row is not the last.
UpdateRow(row, data) ==
  [data EXCEPT !.total = IF data.total = NoTotal THEN row.total ELSE data.total]

Shows(l, e) == \E i \in DOMAIN l.rows : l.rows[i].id = e

\* update( data_rows): when a row is missing all rows are made anew.
Updated(l, tm, data_rows) ==
  FoldLeft(LAMBDA ll, data :
             IF Shows(ll, data.id)
             THEN [ll EXCEPT !.rows = [i \in DOMAIN ll.rows |->
                     IF ll.rows[i].id = data.id THEN UpdateRow(ll.rows[i], data)
                                                ELSE ll.rows[i]]]
             ELSE Populated(tm),
           l, data_rows)

\* Mutant of OnTimeEntryChanged: only the row itself is brought up to date.
OnTimeEntryChangedAlone(l, tm, e) ==
  IF Shows(l, e)
  THEN Updated(l, tm, SelectSeq(CreateRowData(tm, presented, DayRange(tm[e].start)),
                                LAMBDA data : data.id = e))
  ELSE Populated(tm)

\* Mutant of OnTimeEntryChanged: the day is that of the list.
OnTimeEntryChangedToday(l, tm, e) ==
  IF Shows(l, e) THEN Updated(l, tm, CreateRowData(tm, presented, DayRange(range.from)))
                 ELSE Populated(tm)

\* on_time_entry_changed
OnTimeEntryChanged(l, tm, e) ==
  IF Shows(l, e) THEN Updated(l, tm, CreateRowData(tm, presented, DayRange(tm[e].start)))
                 ELSE Populated(tm)

-----------------------------------------------------------------------------
(* What the list presents *)

\* set( id, start, stop), from the selection of a summary
Present(t, p) ==
  /\ question = NoQuestion
  /\ presented' = t /\ pick' = p
  /\ IF t = NoTask
     THEN /\ range' = [from |-> 0, to |-> 0]
          /\ list' = [rows |-> <<>>, narrowed |-> FALSE, stirred |-> FALSE]
     ELSE /\ range' = TimeSpan(p.view, p.day)
          /\ list' = [rows |-> CreateRowData(times, t, range'), narrowed |-> FALSE,
                      stirred |-> FALSE]
  /\ UNCHANGED <<times, question, writes>>

\* on_task_updated, on_task_name_changed, on_task_removed, on_complete_update
TaskChanged ==
  /\ list' = Populated(times)
  /\ UNCHANGED <<times, presented, pick, range, question, writes>>

-----------------------------------------------------------------------------
(* The other writers *)

Write(n) == writes + n <= MaxWrites /\ writes' = writes + n

\* time_accessor::create also sends on_task_updated when there is a length.
CreateTime(e, row) ==
  /\ Write(1) /\ e \notin Rows(times) /\ 1 .. e - 1 \subseteq Rows(times)
  /\ row.state # "deleted"
  /\ times' = [times EXCEPT ![e] = row]
  /\ list' = OnTimeEntryChanged(IF Length(row) # 0 THEN Populated(times') ELSE list,
                                times', e)
  /\ UNCHANGED <<presented, pick, range, question>>

\* time_accessor::update.  An entry that was removed may come back.
UpdateTime(e, row) ==
  /\ Write(1) /\ e \in Rows(times) /\ row # times[e] /\ row.owner = times[e].owner
  /\ times' = [times EXCEPT ![e] = row]
  /\ LET moved == \/ row.start # times[e].start
                  \/ (row.state = "deleted") # (times[e].state = "deleted")
                  \/ ~ InOneDay(times[e])
     IN  list' = OnTimeEntryChanged([list EXCEPT !.stirred = @ \/ moved], times', e)
  /\ UNCHANGED <<presented, pick, range, question>>

WriteTime(e, t, span, st) ==
  LET row == [owner |-> t, start |-> span.start, stop |-> span.stop, state |-> st]
  IN  CreateTime(e, row) \/ UpdateTime(e, row)

-----------------------------------------------------------------------------
(* The menu of the list, for a row that is selected.  Nothing is selected  *)
(* behind a question.                                                      *)

Selected(i) == question = NoQuestion /\ i \in DOMAIN list.rows

\* times.by_id of the entry of row i
Read(i) == [id |-> list.rows[i].id, row |-> times[list.rows[i].id]]

AskRemove(i) ==
  /\ Selected(i)
  /\ question' = [kind |-> "remove", item |-> Read(i)]
  /\ UNCHANGED <<times, presented, pick, range, list, writes>>

\* The next row, whatever its day
AskMerge(i) ==
  /\ Selected(i) /\ Selected(i + 1)
  /\ question' = [kind |-> "merge", item |-> Read(i), next |-> Read(i + 1)]
  /\ UNCHANGED <<times, presented, pick, range, list, writes>>

Cancel ==
  /\ question # NoQuestion /\ question' = NoQuestion
  /\ UNCHANGED <<times, presented, pick, range, list, writes>>

(***************************************************************************)
(* The copies are written over what the rows are by then.  A copy in which *)
(* nothing was replaced is refused, as its version is an old one.          *)
(* Bound: a row is not written twice within a second.                      *)
(***************************************************************************)
Removed(tm, copy) ==
  IF copy.row.state = "deleted" THEN tm
  ELSE [tm EXCEPT ![copy.id] = [copy.row EXCEPT !.state = "deleted"]]

WithStart(tm, copy, start) ==
  IF copy.row.start = start THEN tm
  ELSE [tm EXCEPT ![copy.id] = [copy.row EXCEPT !.start = start]]

ConfirmRemove ==
  /\ question.kind = "remove" /\ Write(1)
  /\ LET item == question.item IN
     times' = IF item.row.state = "running" THEN WithStart(times, item, item.row.stop)
                                            ELSE Removed(times, item)
  /\ list' = Populated(times')
  /\ question' = NoQuestion
  /\ UNCHANGED <<presented, pick, range>>

ConfirmMerge ==
  /\ question.kind = "merge" /\ Write(2)
  /\ times' = WithStart(Removed(times, question.item),
                        question.next, question.item.row.start)
  /\ list' = Populated(times')
  /\ question' = NoQuestion
  /\ UNCHANGED <<presented, pick, range>>

\* offer_to_split
OfferToSplit(row) == IsOnDifferentDays(row.start, row.stop) \/ Length(row) > 120

\* The end of the first half and the start of the second one
SplitPoints(row) ==
  IF IsOnDifferentDays(row.start, row.stop)
  THEN [stop |-> NearMidnight(row.start), start |-> NearMidnight(row.start) + 6]
  ELSE LET half == row.start + Length(row) \div 2 - 1
       IN  [stop |-> half, start |-> half + 2]

\* on_menu_file_popup_split: only the halves are listed afterwards.
Split(i) ==
  /\ Selected(i) /\ Write(2)
  /\ LET e == list.rows[i].id
         row == times[e]
         points == SplitPoints(row)
     IN  /\ OfferToSplit(row)
         /\ \E f \in EntryId \ Rows(times) :
              /\ 1 .. f - 1 \subseteq Rows(times)
              /\ times' = [times EXCEPT
                   ![e] = [row EXCEPT !.start = points.start],
                   ![f] = [owner |-> row.owner, start |-> row.start,
                           stop |-> points.stop, state |-> "stopped"]]
         /\ LET halves == [from |-> row.start, to |-> row.stop]
            IN  list' = [rows |-> CreateRowData(times', presented, halves),
                         narrowed |-> TRUE, stirred |-> FALSE]
  /\ UNCHANGED <<presented, pick, range, question>>

-----------------------------------------------------------------------------
\* Some recorded times, and an empty list
\* Bound: no entry but the last ones is new.
Init ==
  /\ times \in [EntryId -> {NoRow} \cup
                  [owner : TaskId, start : {s.start : s \in Spans},
                   stop : {s.stop : s \in Spans}, state : {"stopped"}]]
  /\ \A e \in Rows(times) :
       /\ [start |-> times[e].start, stop |-> times[e].stop] \in Spans
       /\ 1 .. e - 1 \subseteq Rows(times)
       /\ e < LastId
  /\ presented = NoTask /\ pick \in Picks /\ range = [from |-> 0, to |-> 0]
  /\ list = [rows |-> <<>>, narrowed |-> FALSE, stirred |-> FALSE]
  /\ question = NoQuestion /\ writes = 0

Menu == \E i \in 1 .. LastId : AskRemove(i) \/ AskMerge(i) \/ Split(i)

Next ==
  \/ \E t \in TaskId \cup {NoTask}, p \in Picks : Present(t, p)
  \/ TaskChanged
  \/ \E e \in EntryId, t \in TaskId, span \in Spans, st \in {"running", "stopped", "deleted"} :
       WriteTime(e, t, span, st)
  \/ Menu \/ Cancel \/ ConfirmRemove \/ ConfirmMerge

Spec == Init /\ [][Next]_vars

-----------------------------------------------------------------------------
(***************************************************************************)
(* Whatever was written, and from where, a recorded time of the task       *)
(* within the range has a row that shows when it started and stopped, also *)
(* after times were moved into the range, removed and brought back.  Only  *)
(* a split leaves the others out until the list is made anew, and an entry *)
(* that starts in the last second of a day is in the list of no day.       *)
(***************************************************************************)
EveryRecordingShown ==
  presented # NoTask /\ ~ list.narrowed =>
    \A e \in Live(times) :
      LET row == times[e] IN
      /\ row.owner = presented /\ Overlaps(row, range) /\ Length(row) > 0
      /\ Overlaps(row, DayRange(row.start))
      => \E i \in DOMAIN list.rows :
           list.rows[i].id = e /\ list.rows[i].start = row.start /\ list.rows[i].stop = row.stop

(***************************************************************************)
(* As long as entries are only added and lengthened, what is brought up to *)
(* date day by day is what the list would be if it were made anew: the     *)
(* dates, the order and the total of every day.  Excepted are entries that *)
(* reach over midnight, or did so since the rows were made: they belong to *)
(* two days, and the total they leave behind in one is not taken away.     *)
(***************************************************************************)
DetailsFollowTimes ==
  /\ ~ list.stirred /\ ~ list.narrowed
  /\ \A e \in Live(times) : times[e].owner = presented => InOneDay(times[e])
  => list = Populated(times)

\* The first day of the week of a day, and whether the clocks are changed on
\* one of the days of that week but its last
FirstOfWeek(d) == d - ((Civil[d].wday - FirstWeekday) % 7)

UnevenWeek(d) ==
  \E e \in FirstOfWeek(d) .. FirstOfWeek(d) + 5 : Midnight[e + 1] - Midnight[e] # Hours24

(***************************************************************************)
(* "grouping per day, week, month or year" (doc/html/C/index.html:156):    *)
(* what is presented are whole days, and exactly those of the group of the *)
(* day picked -- seven from the first weekday on, or from a first of the   *)
(* month or year to the day before the next one.  A week in which the      *)
(* clocks are changed before its last day is the exception: in steps of 24 *)
(* hours (utils.cpp:83, 96) the code may arrive on the day before, so that *)
(* the range begins a day early or has six days.  So it is where weeks     *)
(* begin on Sunday, which is the default of utils.cpp:61, in the week of   *)
(* either change; where they begin on Monday they are all whole.           *)
(***************************************************************************)
RangeIsTheGroup ==
  presented # NoTask =>
    LET a == DayOf(range.from)
        b == DayOf(range.to)
        Starts(d) ==
          CASE pick.view = "week"  -> Civil[d].wday = FirstWeekday
            [] pick.view = "month" -> Civil[d].mday = 1
            [] OTHER -> Civil[d].mday = 1 /\ Civil[d].mon = 0
    IN  /\ range = [from |-> Begin(a), to |-> End(b)]
        /\ \/ pick.view = "day" /\ a = pick.day /\ b = pick.day
           \/ pick.day \in a .. b /\ {d \in a .. b + 1 : Starts(d)} = {a, b + 1}
           \/ /\ pick.view = "week" /\ UnevenWeek(pick.day)
              /\ FirstOfWeek(pick.day) \in {a, a + 1} /\ b \in {a + 5, a + 6}

(***************************************************************************)
(* "Merging will add {} minutes." (details.cpp:209): merging an entry with *)
(* a later one takes no recorded time away from the task, as long as       *)
(* neither was written while the question was open.                        *)
(***************************************************************************)
Recorded(t) ==
  MapThenSumSet(LAMBDA e : Length(times[e]), {e \in Live(times) : times[e].owner = t})

MergingAddsTime ==
  [][/\ ConfirmMerge
     /\ \A copy \in {question.item, question.next} : copy.row = times[copy.id]
     /\ question.item.row.stop <= question.next.row.start
     => Recorded(presented)' >= Recorded(presented)]_vars
=============================================================================
