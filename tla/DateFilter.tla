----------------------------- MODULE DateFilter -----------------------------
(***************************************************************************)
(* The date filter of the Keys screen (DateRangeDropdown and               *)
(* DateRangeCalendar in deploykeys-ui/src/screens/keys.rs).  The picker    *)
(* edits a draft; what is applied is text, "2024-02-29", compared as text  *)
(* with the first ten characters of a key's created_at.                    *)
(***************************************************************************)
EXTENDS Integers, Sequences, FiniteSets

CONSTANTS
  Months,  \* bound: the months the calendar is turned to
  Today,   \* what the clock may say when the picker opens
  Picked,  \* bound: the dates that are clicked
  None

DateFilterAssumption ==
  /\ Months \subseteq [year : 1..9999, month : 1..12] /\ Today \subseteq Months
  /\ Picked \subseteq [year : 1..9999, month : 1..12, day : 1..31]

VARIABLES
  open,   \* the picker is open
  draft,  \* draft_from and draft_to: dates or None
  range,  \* what is applied, from and to: text, <<>> for none
  month   \* the month the calendar shows

vars == <<open, draft, range, month>>
-----------------------------------------------------------------------------
LeapYear(y) == (y % 4 = 0 /\ y % 100 # 0) \/ y % 400 = 0

DaysInMonth(y, m) ==
  IF m = 2 THEN IF LeapYear(y) THEN 29 ELSE 28
  ELSE IF m \in {4, 6, 9, 11} THEN 30 ELSE 31

\* Monday = 0, Sunday = 6, by Zeller's congruence.
WeekdayMonday(year, month0, day) ==
  LET y == IF month0 < 3 THEN year - 1 ELSE year
      m == IF month0 < 3 THEN month0 + 12 ELSE month0
      k == y % 100
      j == y \div 100
      h == (day + (13 * (m + 1)) \div 5 + k + k \div 4 + j \div 4 + 5 * j) % 7
  IN (h + 5) % 7

PreviousMonth(m) ==
  IF m.month = 1 THEN [year |-> m.year - 1, month |-> 12] ELSE [m EXCEPT !.month = @ - 1]

NextMonth(m) ==
  IF m.month = 12 THEN [year |-> m.year + 1, month |-> 1] ELSE [m EXCEPT !.month = @ + 1]

Date(m, d) == [year |-> m.year, month |-> m.month, day |-> d]

\* The end of the month before, the month, and what of the next fills six weeks.
CalendarCells(m) ==
  LET lead == WeekdayMonday(m.year, m.month, 1)
      days == DaysInMonth(m.year, m.month)
      before == PreviousMonth(m)
      last == DaysInMonth(before.year, before.month)
  IN [i \in 1..42 |->
        IF i <= lead THEN Date(before, last - lead + i)
        ELSE IF i <= lead + days THEN Date(m, i - lead)
        ELSE Date(NextMonth(m), i - lead - days)]

\* Dates in order, as the derived Ord of SimpleDate has them.
Before(a, b) ==
  \/ a.year < b.year
  \/ a.year = b.year /\ a.month < b.month
  \/ a.year = b.year /\ a.month = b.month /\ a.day < b.day

\* Text: a hyphen sorts before the digits; 0 stands for it, and n + 1 for the
\* digit n.
Digit(n, place) == ((n \div place) % 10) + 1
Hyphen == <<0>>
TwoDigits(n) == <<Digit(n, 10), Digit(n, 1)>>
FourDigits(n) == <<Digit(n, 1000), Digit(n, 100)>> \o TwoDigits(n)

\* {:04}-{:02}-{:02}
FormatDate(d) == FourDigits(d.year) \o Hyphen \o TwoDigits(d.month) \o Hyphen \o TwoDigits(d.day)

Number(digits) ==
  LET n[i \in 0..Len(digits)] == IF i = 0 THEN 0 ELSE 10 * n[i - 1] + digits[i] - 1
  IN n[Len(digits)]

\* Split at the hyphens; a date that does not exist is none.
ParseDate(text) ==
  LET at == {i \in 1..Len(text) : text[i] = 0}
      first == CHOOSE i \in at : \A j \in at : i <= j
      second == CHOOSE i \in at : \A j \in at : i >= j
      y == Number(SubSeq(text, 1, first - 1))
      m == Number(SubSeq(text, first + 1, second - 1))
      d == Number(SubSeq(text, second + 1, Len(text)))
  IN IF Cardinality(at) # 2 THEN None
     ELSE IF m \notin 1..12 \/ d = 0 \/ d > DaysInMonth(y, m) THEN None
     ELSE [year |-> y, month |-> m, day |-> d]

\* str's order: the first difference decides, then the length.
TextBefore(a, b) ==
  \/ \E i \in 1..Len(a) : /\ i <= Len(b) /\ a[i] < b[i]
                          /\ \A j \in 1..(i - 1) : a[j] = b[j]
  \/ Len(a) < Len(b) /\ SubSeq(b, 1, Len(a)) = a

\* filtered: key_date >= from, key_date <= to, where they are set.
Matches(text, r) ==
  /\ r.from = <<>> \/ ~TextBefore(text, r.from)
  /\ r.to = <<>> \/ ~TextBefore(r.to, text)
-----------------------------------------------------------------------------
NoRange == [from |-> <<>>, to |-> <<>>]
NoDraft == [from |-> None, to |-> None]

Applied == [from |-> ParseDate(range.from), to |-> ParseDate(range.to)]

MonthOf(d) == [year |-> d.year, month |-> d.month]

\* initial_calendar_month
Opening ==
  IF Applied.from # None THEN {MonthOf(Applied.from)}
  ELSE IF Applied.to # None THEN {MonthOf(Applied.to)}
  ELSE Today

Init ==
  /\ open = FALSE /\ draft = NoDraft /\ range = NoRange
  /\ month \in Today

\* The button also closes the picker; the calendar is turned either way.
OpenPicker ==
  /\ open' = ~open
  /\ draft' = Applied /\ month' \in Opening
  /\ UNCHANGED range

\* A click beside the picker leaves the draft as it is.
ClickBeside ==
  /\ open /\ open' = FALSE
  /\ UNCHANGED <<draft, range, month>>

Turn(m) ==
  /\ open /\ m \in Months
  /\ month' = m
  /\ UNCHANGED <<open, draft, range>>

\* Mutant of SelectDate: the second click is always the end.
SelectDateAsEnd(d) ==
  /\ open
  /\ draft' = IF draft.from = None \/ draft.to # None THEN [from |-> d, to |-> None]
              ELSE [draft EXCEPT !.to = d]
  /\ UNCHANGED <<open, range, month>>

\* The first click starts a range, the second ends it, before or after.
SelectDate(d) ==
  /\ open
  /\ draft' = IF draft.from = None \/ draft.to # None \/ d = draft.from
                THEN [from |-> d, to |-> None]
              ELSE IF Before(d, draft.from) THEN [from |-> d, to |-> draft.from]
              ELSE [draft EXCEPT !.to = d]
  /\ UNCHANGED <<open, range, month>>

\* Cleared, and still open.
Clear ==
  /\ open
  /\ draft' = NoDraft /\ range' = NoRange
  /\ UNCHANGED <<open, month>>

Text(d) == IF d = None THEN <<>> ELSE FormatDate(d)

Apply ==
  /\ open /\ open' = FALSE
  /\ range' = [from |-> Text(draft.from), to |-> Text(draft.to)]
  /\ UNCHANGED <<draft, month>>

Cancel ==
  /\ open /\ open' = FALSE
  /\ draft' = Applied
  /\ UNCHANGED <<range, month>>

DateNext ==
  \/ OpenPicker \/ ClickBeside \/ Clear \/ Apply \/ Cancel
  \/ Turn(PreviousMonth(month)) \/ Turn(NextMonth(month))
  \/ \E d \in Picked : (\E i \in 1..42 : CalendarCells(month)[i] = d) /\ SelectDate(d)

DateSpec == Init /\ [][DateNext]_vars
-----------------------------------------------------------------------------
\* The reference: days since the first of January of the year 1, a Monday.
DaysOfYears(y) == 365 * y + y \div 4 - y \div 100 + y \div 400
DaysBefore ==
  [m \in 1..12 |-> CASE m = 1 -> 0 [] m = 2 -> 31 [] m = 3 -> 59 [] m = 4 -> 90 [] m = 5 -> 120
    [] m = 6 -> 151 [] m = 7 -> 181 [] m = 8 -> 212 [] m = 9 -> 243 [] m = 10 -> 273
    [] m = 11 -> 304 [] m = 12 -> 334]
LeapDay(y, m) ==
  IF m > 2 /\ DaysOfYears(y) - DaysOfYears(y - 1) = 366 THEN 1 ELSE 0
DayNumber(d) == DaysOfYears(d.year - 1) + DaysBefore[d.month] + LeapDay(d.year, d.month) + d.day - 1

(* The calendar shows six weeks from a Monday, each day once and in order, *)
(* with the whole month in them (weekday_index_monday, calendar_cells).    *)
CalendarShowsTheMonth ==
  LET cells == CalendarCells(month) IN
    /\ DayNumber(cells[1]) % 7 = 0
    /\ \A i \in 1..41 : DayNumber(cells[i + 1]) = DayNumber(cells[i]) + 1
    /\ DayNumber(cells[1]) <= DayNumber(Date(month, 1))
    /\ DayNumber(Date(NextMonth(month), 1)) <= DayNumber(cells[42]) + 1

(* Whatever is clicked in whatever order, the range that is applied is not *)
(* reversed, and the text comparison finds the keys of exactly its days.   *)
RangeFindsItsDays ==
  LET from == IF range.from = <<>> THEN 0 ELSE DayNumber(Applied.from)
      to == IF range.to = <<>> THEN 9999999 ELSE DayNumber(Applied.to)
  IN /\ from <= to
     /\ \A d \in Picked :
          Matches(FormatDate(d), range) <=> from <= DayNumber(d) /\ DayNumber(d) <= to
=============================================================================
