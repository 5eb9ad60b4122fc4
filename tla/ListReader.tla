----------------------------- MODULE ListReader -----------------------------
(***************************************************************************)
(* How a printed Opera list becomes rows (parsers.ts, parseCommon.ts,      *)
(* dates.ts, parseList of readFile.ts).  A list is read line by line; the  *)
(* format of its dates is settled at the end, from all of them together.   *)
(*                                                                         *)
(* A date is <<month, day>> of one year.  The list is made up while it is  *)
(* read: each step prints the next line and reads it.  A line carries what *)
(* is printed and, as harm, which of its cells did not come through.       *)
(***************************************************************************)
EXTENDS Integers, Sequences, FiniteSets, Functions

CONSTANTS
  Months, Days, Week,  \* the calendar: months, days of a month, days of a week
  PrintDates, Stays,   \* the days lists name, and the arrival and departure of guests
  Papers,              \* the frames of lists: type, kind, fmt, header, foot, userDay
  MaxLines, MaxHarms   \* bounds: lines of a list, lines of it with a cell that did not come through

NoDate == <<>>
Formats == {"MDY", "DMY"}

ASSUME ReaderAssumption ==
  /\ {Months, Days, Week, MaxLines} \subseteq Nat \ {0} /\ MaxHarms \in Nat
  /\ PrintDates \subseteq (1..Months) \X (1..Days) /\ Stays \subseteq PrintDates \X PrintDates
  /\ \A p \in Papers : /\ p.type \in {"DEPARTURES", "INHOUSE", "ARRIVALS", "FORECAST", "TRACES"}
                       /\ p.kind \in {"pdf", "sheet"} /\ p.fmt \in Formats \cup {"ISO"}
                       /\ {p.header, p.foot, p.userDay} \subseteq PrintDates \cup {NoDate}

VARIABLES
  paper,     \* the list's frame
  printed,   \* its lines so far, each with the page it stands on
  pages,     \* for each page, whether the file has it
  raws,      \* the rows as read, dates not yet understood
  cur,       \* arrivals: the row the next detail belongs to, 0 for none
  sums,      \* departures: what the rows of the group add up to
  group,     \* departures: the date of the group, or NoCell
  issues,    \* the findings so far
  confirmed, \* the reading the supervisor has confirmed, or "none"
  result     \* what parseList returned, or Unfinished

readerVars == <<paper, printed, pages, raws, cur, sums, group, issues, confirmed, result>>

Unfinished == [format |-> "unfinished", rows |-> {}, issues |-> {}]

\* No cell at all.
NoCell == [iso |-> TRUE, a |-> 0, b |-> 0]

\* A printed date.  Cells of spreadsheets come in ISO form.
Cell(date, f) ==
  IF date = NoDate THEN NoCell
  ELSE IF f = "DMY" THEN [iso |-> FALSE, a |-> date[2], b |-> date[1]]
       ELSE [iso |-> f = "ISO", a |-> date[1], b |-> date[2]]

\* toIso, with validYmd
ToIso(raw, f) ==
  LET date == IF raw.iso \/ f = "MDY" THEN <<raw.a, raw.b>> ELSE <<raw.b, raw.a>>
  IN IF date \in (1..Months) \X (1..Days) THEN date ELSE NoDate

Before(x, y) == x[1] < y[1] \/ (x[1] = y[1] /\ x[2] < y[2])

\* isoWeekday
Weekday(date) == ((date[1] - 1) * Days + date[2]) % Week

-----------------------------------------------------------------------------
(***************************************************************************)
(* Reading the lines.                                                      *)
(***************************************************************************)

ReaderInit ==
  /\ paper \in Papers
  /\ printed = <<>> /\ pages = <<TRUE>> /\ raws = <<>> /\ cur = 0 /\ sums = 0 /\ group = NoCell
  /\ issues = {} /\ confirmed = "none" /\ result = Unfinished

Reading == result = Unfinished
Here == pages[Len(pages)]
Unreadable == issues' = issues \cup {<<"CRITICAL", "ROW_UNREADABLE">>}

LineOf(kind, arr, dep, harm, resolved) ==
  [kind |-> kind, arr |-> arr, dep |-> dep, harm |-> harm, resolved |-> resolved,
   page |-> Len(pages)]

RoomLine(arr, dep, harm) == LineOf("room", arr, dep, harm, FALSE)
OtherLine(kind) == LineOf(kind, NoDate, NoDate, "none", FALSE)

\* The line is printed; on a page the file does not have it is not read.
Line(types, line) ==
  /\ Reading /\ paper.type \in types /\ Len(printed) < MaxLines
  /\ printed' = Append(printed, line)
  /\ Cardinality({i \in DOMAIN printed' : printed'[i].harm # "none"}) <= MaxHarms
  /\ UNCHANGED <<paper, pages, confirmed, result>>

Missed == ~Here /\ UNCHANGED <<raws, cur, sums, group, issues>>

\* A cell with a date that does not exist, and an empty one.
OddDate == [iso |-> paper.fmt = "ISO", a |-> Months + Days, b |-> Months + Days]
EmptyCell == [iso |-> FALSE, a |-> 0, b |-> 0]

\* A row as read; weekdays are those the line names.
Raw(arr, dep, weekdays) ==
  [line |-> Len(printed) + 1, arr |-> arr, dep |-> dep, grp |-> group, wd |-> weekdays,
   traces |-> <<>>]

RawOf(l) ==
  Raw(Cell(l.arr, paper.fmt), IF l.harm = "odd" THEN OddDate ELSE Cell(l.dep, paper.fmt), {})

\* A departures or in-house line: without its room number it is not taken for one, with
\* fewer than two dates or without its counts it is a critical finding.
ReadRoomLine(l) ==
  /\ Line({"DEPARTURES", "INHOUSE"}, l)
  /\ \/ Missed
     \/ Here /\ l.harm = "room" /\ UNCHANGED <<raws, cur, sums, group, issues>>
     \/ Here /\ l.harm \in {"dates", "counts"} /\ Unreadable /\ UNCHANGED <<raws, cur, sums, group>>
     \/ /\ Here /\ l.harm \in {"none", "odd"}
        /\ raws' = Append(raws, RawOf(l)) /\ sums' = sums + 1
        /\ UNCHANGED <<cur, group, issues>>

ReadGroup(date) ==
  /\ Line({"DEPARTURES"}, OtherLine("group"))
  /\ \/ Missed
     \/ Here /\ group' = Cell(date, paper.fmt) /\ sums' = 0 /\ UNCHANGED <<raws, cur, issues>>

\* What a group is printed to hold.
InGroup(i) == printed[i].kind = "room" /\ \A j \in i..Len(printed) : printed[j].kind # "group"
GroupSize == Cardinality({i \in DOMAIN printed : InGroup(i)})

ReadTotal ==
  /\ Line({"DEPARTURES"}, OtherLine("total"))
  /\ \/ Missed
     \/ /\ Here
        /\ issues' = IF sums # GroupSize THEN issues \cup {<<"WARNING", "TOTAL_MISMATCH">>} ELSE issues
        /\ UNCHANGED <<raws, cur, sums, group>>

\* An arrivals line without its room number or with fewer than two dates passes for a
\* detail of the row above.
ReadArrival(l) ==
  /\ Line({"ARRIVALS"}, l)
  /\ \/ Missed
     \/ Here /\ l.harm \in {"room", "dates"} /\ UNCHANGED <<raws, cur, sums, group, issues>>
     \/ Here /\ l.harm = "counts" /\ Unreadable /\ cur' = 0 /\ UNCHANGED <<raws, sums, group>>
     \/ /\ Here /\ l.harm \in {"none", "odd"}
        /\ raws' = Append(raws, RawOf(l)) /\ cur' = Len(raws) + 1
        /\ UNCHANGED <<sums, group, issues>>

\* The line "Traces:" of the guest printed above it.
ReadGuestTrace(date) ==
  /\ \E i \in DOMAIN printed : printed[i].kind = "room"
  /\ Line({"ARRIVALS"}, OtherLine("trace"))
  /\ \/ Missed
     \/ Here /\ cur = 0 /\ UNCHANGED <<raws, cur, sums, group, issues>>
     \/ /\ Here /\ cur # 0
        /\ raws' = [raws EXCEPT ![cur].traces =
                      Append(@, [line |-> Len(printed) + 1, date |-> Cell(date, paper.fmt)])]
        /\ UNCHANGED <<cur, sums, group, issues>>

\* A day of the forecast; wrong counts only warn.
ReadForecastDay(date, harm) ==
  /\ Line({"FORECAST"}, LineOf("day", date, NoDate, harm, FALSE))
  /\ \/ Missed
     \/ Here /\ harm = "room" /\ UNCHANGED <<raws, cur, sums, group, issues>>
     \/ /\ Here /\ harm = "counts" /\ issues' = issues \cup {<<"WARNING", "ROW_UNREADABLE">>}
        /\ UNCHANGED <<raws, cur, sums, group>>
     \/ /\ Here /\ harm \in {"none", "dates"}   \* dates: its weekday is not legible
        /\ raws' = Append(raws, Raw(Cell(date, paper.fmt), NoCell,
                                    IF harm = "none" THEN {Weekday(date)} ELSE {}))
        /\ UNCHANGED <<cur, sums, group, issues>>

\* A line of the traces list: of a PDF it takes three dates, of a sheet the cell of the
\* trace's own date as it is; a resolved one is left out.
LeftOut(harm, resolved) == resolved \/ harm = "room" \/ (harm = "dates" /\ paper.kind = "pdf")

ReadTraceLine(date, harm, resolved) ==
  /\ Line({"TRACES"}, LineOf("trace", date, NoDate, harm, resolved))
  /\ \/ Missed
     \/ Here /\ LeftOut(harm, resolved) /\ UNCHANGED <<raws, cur, sums, group, issues>>
     \/ /\ Here /\ ~LeftOut(harm, resolved)
        /\ raws' = Append(raws, Raw(CASE harm = "odd" -> OddDate
                                       [] harm = "dates" -> EmptyCell
                                       [] OTHER -> Cell(date, paper.fmt), NoCell, {}))
        /\ UNCHANGED <<cur, sums, group, issues>>

\* bodyLines puts the pages of the file together, so only where one is missing does it
\* matter that a page ends: the first is there, the second is not, the third is again.
TurnPage ==
  /\ Reading /\ Len(pages) < 3 /\ paper.kind = "pdf"
  /\ pages' = Append(pages, ~Here)
  /\ UNCHANGED <<paper, printed, raws, cur, sums, group, issues, confirmed, result>>

-----------------------------------------------------------------------------
(***************************************************************************)
(* The end of the list: which format its dates have, and what its rows are.*)
(***************************************************************************)

HeadDate == Cell(paper.header, paper.fmt)
FootDate == Cell(paper.foot, paper.fmt)
TwoDates == paper.type \in {"DEPARTURES", "INHOUSE", "ARRIVALS"}

RowDates(raw) ==
  {raw.arr} \cup
  IF TwoDates THEN {raw.dep} \cup ({raw.grp} \ {NoCell}) \cup {raw.traces[i].date : i \in DOMAIN raw.traces}
  ELSE {}

AllDates ==
  (UNION {RowDates(raws[i]) : i \in DOMAIN raws}) \cup ({HeadDate, FootDate} \ {NoCell})

\* The formats in which every date is one.
Valid == {f \in Formats : \A x \in AllDates : ToIso(x, f) # NoDate}

Fitting(formats) ==
  {f \in formats : \A i \in DOMAIN raws : \A wd \in raws[i].wd :
     ToIso(raws[i].arr, f) = NoDate \/ Weekday(ToIso(raws[i].arr, f)) = wd}

\* Variant with a bug: of two readings that are left, the first is taken.
LeftGuessed == IF Valid = Formats THEN {"MDY"} ELSE Valid

\* What validity and the forecast's weekdays leave.
Left ==
  IF paper.type = "FORECAST" /\ Cardinality(Valid) > 1 /\ Fitting(Valid) # {} THEN Fitting(Valid) ELSE Valid

\* The readings in which the print date is the day the supervisor has chosen.
Hit == {f \in Left : HeadDate # NoCell /\ paper.userDay # NoDate /\ ToIso(HeadDate, f) = paper.userDay}

\* resolveDateFormat: "none" while two readings are left, or no one.
ResolveDateFormat(conf) ==
  IF \A x \in AllDates : x.iso THEN IF conf = "none" THEN "MDY" ELSE conf
  ELSE IF Cardinality(Left) > 1 /\ Cardinality(Hit) = 1 THEN CHOOSE f \in Hit : TRUE
  ELSE IF Cardinality(Left) = 1 THEN CHOOSE f \in Left : TRUE
  ELSE IF conf \in Left THEN conf ELSE "none"

IsoOf(raw, f) == IF raw = NoCell \/ f = "none" THEN NoDate ELSE ToIso(raw, f)

\* Today is the print date; a sheet mostly has none, and the day chosen stands in.
Today(f) == IF paper.kind = "sheet" /\ paper.userDay # NoDate THEN paper.userDay ELSE IsoOf(HeadDate, f)

Legible(raw, f) == IsoOf(raw.arr, f) # NoDate /\ (TwoDates => IsoOf(raw.dep, f) # NoDate)

\* A forecast starts today; the days before are history.
Wanted(raw, f) ==
  Legible(raw, f) /\ (paper.type = "FORECAST" => Today(f) # NoDate /\ ~Before(IsoOf(raw.arr, f), Today(f)))

RowOf(raw, f) ==
  [line |-> raw.line, arr |-> IsoOf(raw.arr, f), dep |-> IF TwoDates THEN IsoOf(raw.dep, f) ELSE NoDate,
   traces |-> IF TwoDates THEN Range(raw.traces) ELSE {}]

Rows(f) == IF f = "none" THEN {} ELSE {RowOf(raws[i], f) : i \in {i \in DOMAIN raws : Wanted(raws[i], f)}}

ReportDate(f) == IF HeadDate = NoCell /\ paper.kind = "sheet" THEN paper.userDay ELSE IsoOf(HeadDate, f)

Findings(f) ==
  LET found(severity, code, if) == IF if THEN {<<severity, code>>} ELSE {}
      some == {i \in DOMAIN raws : f # "none" /\ ~Legible(raws[i], f)} # {}
      until == IsoOf(FootDate, f)
  IN issues
     \cup found("CRITICAL", "DATE_AMBIGUOUS", f = "none")
     \cup found("WARNING", "PAGE_MISSING", paper.kind = "pdf" /\ \E p \in DOMAIN pages : ~pages[p])
     \cup found(IF paper.type = "TRACES" THEN "WARNING" ELSE "CRITICAL", "ROW_UNREADABLE",
                some /\ paper.type # "FORECAST")
     \cup found("WARNING", "PERIOD_UNKNOWN", paper.type = "DEPARTURES" /\ until = NoDate)
     \cup found("CRITICAL", "TODAY_UNKNOWN", paper.type = "FORECAST" /\ f # "none" /\ Today(f) = NoDate)
     \cup found("CRITICAL", "NO_FUTURE_DAYS",
                paper.type = "FORECAST" /\ f # "none" /\ Today(f) # NoDate /\ Rows(f) = {})
     \cup found("CRITICAL", "NO_ROWS", /\ paper.type = "INHOUSE" /\ f # "none" /\ Rows(f) = {}
                                      /\ ~some /\ \A x \in issues : x[1] # "CRITICAL")
     \cup found("WARNING", "LIST_NOT_TODAY",
                {paper.userDay, ReportDate(f)} \cap {NoDate} = {} /\ ReportDate(f) # paper.userDay)

Outcome(conf) ==
  LET f == ResolveDateFormat(conf) IN [format |-> f, rows |-> Rows(f), issues |-> Findings(f)]

EndOfList ==
  /\ Reading /\ result' = Outcome("none")
  /\ UNCHANGED <<paper, printed, pages, raws, cur, sums, group, issues, confirmed>>

\* A scan has no text at all.
EndOfScan ==
  /\ Reading /\ printed = <<>> /\ Len(pages) = 1 /\ paper.header = NoDate /\ paper.foot = NoDate
  /\ result' = [format |-> "none", rows |-> {}, issues |-> {<<"CRITICAL", "NO_TEXT">>}]
  /\ confirmed' \in Formats   \* nothing is offered; counts as answered
  /\ UNCHANGED <<paper, printed, pages, raws, cur, sums, group, issues>>

\* The page offers the readings of a list it calls ambiguous and reads it once more.
Confirm(f) ==
  /\ confirmed = "none" /\ <<"CRITICAL", "DATE_AMBIGUOUS">> \in result.issues
  /\ confirmed' = f /\ result' = Outcome(f)
  /\ UNCHANGED <<paper, printed, pages, raws, cur, sums, group, issues>>

Harms == {"none", "odd", "room", "dates", "counts"}

ReaderNext ==
  \/ ReadTotal \/ TurnPage \/ EndOfList \/ EndOfScan
  \/ \E f \in Formats : Confirm(f)
  \/ \E date \in PrintDates : ReadGroup(date) \/ ReadGuestTrace(date)
  \/ \E date \in PrintDates, harm \in Harms \ {"odd"} : ReadForecastDay(date, harm)
  \/ \E harm \in Harms, stay \in Stays :
       \/ ReadRoomLine(RoomLine(stay[1], stay[2], harm))
       \/ ReadArrival(RoomLine(stay[1], stay[2], harm))
  \/ \E date \in PrintDates, harm \in Harms \ {"counts"}, resolved \in BOOLEAN :
       ReadTraceLine(date, harm, resolved)

-----------------------------------------------------------------------------
(***************************************************************************)
(* Properties.                                                             *)
(***************************************************************************)

Critical == \E x \in result.issues : x[1] = "CRITICAL"
Done == result # Unfinished

\* The dates of the list are read as they were printed.
RightlyRead == paper.fmt \in {"ISO", result.format}

There(i) == pages[printed[i].page]

\* A line that is to become a row, and what it is to say.
Due(i) ==
  /\ There(i) /\ printed[i].kind = IF TwoDates THEN "room" ELSE IF paper.type = "FORECAST" THEN "day" ELSE "trace"
  /\ paper.type = "TRACES" => ~printed[i].resolved
  /\ paper.type = "FORECAST" => ~Before(printed[i].arr, Today(result.format))

\* Lines without a finding of their own: those whose room number did not come through,
\* arrivals and traces of a PDF without their dates, and days whose counts are wrong,
\* which warn.
Slips(i) ==
  \/ printed[i].harm = "room"
  \/ printed[i].harm = "dates" /\ (paper.type = "ARRIVALS" \/ (paper.type = "TRACES" /\ paper.kind = "pdf"))
  \/ printed[i].harm = "counts" /\ paper.type = "FORECAST" /\ <<"WARNING", "ROW_UNREADABLE">> \in result.issues
  \/ printed[i].harm = "odd" /\ paper.type = "TRACES" /\ <<"WARNING", "ROW_UNREADABLE">> \in result.issues
  \/ printed[i].harm = "dates" /\ paper.type = "TRACES" /\ <<"WARNING", "ROW_UNREADABLE">> \in result.issues

\* resolveDateFormat, "es wird NICHT geraten": rows are read in the format the list was
\* printed in, unless the supervisor confirmed the other, or the list names a print date
\* and the day he chose is another.
FormatIsPrinted ==
  result.rows # {} =>
    \/ RightlyRead
    \/ result.format = confirmed
    \/ paper.header # NoDate /\ paper.userDay # paper.header

\* A list read in its own format and without a critical finding has a row, with its dates,
\* for every line due on the pages the file has, but for those that slip, and for no
\* other line.
RowsArePrinted ==
  RightlyRead /\ ~Critical =>
    /\ \A i \in DOMAIN printed : Due(i) =>
         \/ Slips(i)
         \/ \E r \in result.rows : r.line = i /\ r.arr = printed[i].arr /\ (TwoDates => r.dep = printed[i].dep)
    /\ \A r \in result.rows : Due(r.line)

\* In a departures group that is closed by a total, no line is missing unnoticed, unless
\* a whole page is.
TotalsTell ==
  ~Critical => \A t \in DOMAIN printed : \A i \in 1..t :
    /\ printed[t].kind = "total" /\ There(t) /\ printed[i].kind = "room" /\ printed[i].harm = "room"
    /\ There(i) /\ \A j \in i..t : printed[j].kind # "group"
    => {<<"WARNING", "TOTAL_MISMATCH">>, <<"WARNING", "PAGE_MISSING">>} \cap result.issues # {}

\* A trace stands in the row of the guest it is printed under, unless the line of that
\* guest slipped.
TracesKeepGuest ==
  \A r \in result.rows : \A tr \in r.traces : \A i \in r.line + 1..tr.line :
    printed[i].kind = "room" /\ There(i) => Slips(i)

\* Once the supervisor has confirmed a reading the list has a format, unless one of its
\* dates does not exist.
ConfirmSettles ==
  confirmed # "none" /\ <<"CRITICAL", "DATE_AMBIGUOUS">> \in result.issues =>
    \E i \in DOMAIN printed : printed[i].harm \in {"odd", "dates"}

\* What becomes of a printed list.
ReadAsPrinted ==
  Done => FormatIsPrinted /\ RowsArePrinted /\ TotalsTell /\ TracesKeepGuest /\ ConfirmSettles
=============================================================================
