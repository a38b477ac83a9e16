----------------------------- MODULE StudyYears -----------------------------
(***************************************************************************)
(* The reader's days (progress/heat.ts) and the page that shows them one   *)
(* year at a time (pages/Progress.tsx). The calendars are functions of the *)
(* days that the server answered; the page keeps one answer for each year  *)
(* (api/stats.ts) and offers the years that the answer for the year on     *)
(* show names.                                                             *)
(*                                                                         *)
(* A day is a record of a year, a month and a day of the month, as its ISO *)
(* text has them; the days of the calendar count from 1970-01-01. Minutes  *)
(* are whole.                                                              *)
(***************************************************************************)
EXTENDS Integers, Sequences, FiniteSets

CONSTANTS
    Years,          \* the years of the model
    ThisYear,       \* the year of today
    NoStats,        \* no answer
    MaxRequests         \* bound on the requests

ASSUME YearsAssumption == ThisYear \in Years

-----------------------------------------------------------------------------
(* The civil calendar of JavaScript's Date, for the years 1970 and later.  *)
Leap(y) == y % 4 = 0 /\ (y % 100 # 0 \/ y % 400 = 0)
MonthLengths(y) ==
    <<31, IF Leap(y) THEN 29 ELSE 28, 31, 30, 31, 30, 31, 31, 30, 31, 30, 31>>
YearStart(y) == (y - 1970) * 365 + ((y - 1969) \div 4) - ((y - 1901) \div 100)
                    + ((y - 1601) \div 400)
MonthStarts(y) ==
    LET L == MonthLengths(y)
    IN  <<0, L[1], L[1] + L[2], L[1] + L[2] + L[3]>>
        \o [m \in 1 .. 8 |-> L[1] + L[2] + L[3] + L[4]
                + (<<0, 31, 61, 92, 123, 153, 184, 214>>)[m]]

DateUTC(date) ==
    LET y == date.y + ((date.m - 1) \div 12)
    IN  YearStart(y) + MonthStarts(y)[((date.m - 1) % 12) + 1] + date.d - 1

YearOfDayIndex(index) ==
    CHOOSE y \in 1970 + (index \div 366) .. 1972 + (index \div 366) :
        YearStart(y) <= index /\ index < YearStart(y + 1)
IsoInYear(y, dayOfYear) ==
    LET m == CHOOSE n \in 1 .. 12 :
                /\ MonthStarts(y)[n] <= dayOfYear
                /\ dayOfYear < MonthStarts(y)[n] + MonthLengths(y)[n]
    IN  [y |-> y, m |-> m, d |-> dayOfYear - MonthStarts(y)[m] + 1]
IsoOfDayIndex(index) ==
    IsoInYear(YearOfDayIndex(index), index - YearStart(YearOfDayIndex(index)))

(* The day a text names, unless it names none: Date rolls 2026-02-31 over. *)
NotADay == -1
DayIndexOf(date) ==
    IF IsoOfDayIndex(DateUTC(date)) = date THEN DateUTC(date) ELSE NotADay

WeekdayMondayFirst(index) == (index + 3) % 7

(* What the server's days say of each day: of two entries for a day the    *)
(* later one; entries that name no day are left out.                       *)
ByDate(days) ==
    LET named == {i \in 1 .. Len(days) : DayIndexOf(days[i].date) # NotADay}
        last(d) == CHOOSE i \in named :
                      /\ days[i].date = d
                      /\ \A j \in named : days[j].date = d => j <= i
    IN  [d \in {days[i].date : i \in named} |-> days[last(d)].minutes]

LargestOf(S) == IF S = {} THEN 0 ELSE CHOOSE n \in S : \A o \in S : o <= n

CellOf(known, date) ==
    [date |-> date, known |-> date \in DOMAIN known,
     minutes |-> IF date \in DOMAIN known THEN known[date] ELSE 0]

(* The last weeks of the data, or of today where there is none.            *)
HeatCalendar(days, weeks, today) ==
    LET known == ByDate(days)
        anchor == IF DOMAIN known = {} THEN DayIndexOf(today)
                  ELSE LargestOf({DayIndexOf(d) : d \in DOMAIN known})
        lastCell == anchor + (6 - WeekdayMondayFirst(anchor))
        firstCell == lastCell - (weeks * 7 - 1)
        grid == [w \in 1 .. weeks |-> [i \in 1 .. 7 |->
                    CellOf(known, IsoOfDayIndex(firstCell + (w - 1) * 7 + i - 1))]]
    IN  [weeks |-> grid,
         maxMinutes |-> LargestOf({grid[w][i].minutes : w \in 1 .. weeks, i \in 1 .. 7})]

HeatLevel(minutes, maxMinutes) ==
    CASE ~(minutes > 0) \/ ~(maxMinutes > 0) -> 0
      [] OTHER -> CHOOSE n \in 1 .. 4 :
            /\ n = 4 \/ 4 * minutes <= n * maxMinutes
            /\ n = 1 \/ 4 * minutes > (n - 1) * maxMinutes

(* The sum of a sequence of minutes. *)
SumOf(minutes) ==
    LET sum[n \in 0 .. Len(minutes)] ==
            IF n = 0 THEN 0 ELSE sum[n - 1] + minutes[n]
    IN  sum[Len(minutes)]

(* A whole year by weeks, filled up to today, and its months' labels: a    *)
(* label stands over the first column whose Monday lies in the month.      *)
YearCalendar(days, year, today) ==
    LET known == ByDate(days)
        first == DayIndexOf([y |-> year, m |-> 1, d |-> 1])
        last == DayIndexOf([y |-> year, m |-> 12, d |-> 31])
        now == DayIndexOf(today)
        rangeEnd == IF now # NotADay /\ now < last THEN now ELSE last
        start == first - WeekdayMondayFirst(first)
        end == last + (6 - WeekdayMondayFirst(last))
        columns == (end - start + 1) \div 7
        inRange(i) == first <= i /\ i <= last
        cell(i) == CellOf(IF inRange(i) /\ i <= rangeEnd THEN known ELSE <<>>,
                          IsoOfDayIndex(i))
        weeks == [w \in 1 .. columns |-> [i \in 1 .. 7 |-> cell(start + (w - 1) * 7 + i - 1)]]
        monday(w) == weeks[w][1].date
        labelled == {w \in 1 .. columns :
                        /\ monday(w).y = year
                        /\ w = 1 \/ monday(w - 1).y # year \/ monday(w - 1).m # monday(w).m}
        minutes == [w \in 1 .. columns |-> [i \in 1 .. 7 |-> weeks[w][i].minutes]]
        places == (1 .. columns) \X (1 .. 7)
    IN  [weeks |-> weeks,
         months |-> [w \in labelled |-> monday(w).m],
         maxMinutes |-> LargestOf({minutes[p[1]][p[2]] : p \in places}),
         totalMinutes |-> SumOf([w \in 1 .. columns |-> SumOf(minutes[w])]),
         activeDays |-> Cardinality({p \in places : minutes[p[1]][p[2]] > 0})]

(* A year's calendar has each of its days once, under its weekday, says    *)
(* nothing of a day after today, counts what the data say of the days it   *)
(* shows, each once, and has a label for each month (heat.ts 140-206).     *)
ShowsYear(c, known, year, today) ==
    LET cells == {c.weeks[w][i].date : w \in DOMAIN c.weeks, i \in 1 .. 7}
        past(d) == d.y = year /\ DateUTC(d) <= DateUTC(today)
        counted == {d \in DOMAIN known : past(d)}
    IN  /\ \A m \in 1 .. 12, d \in 1 .. 31 :
              LET date == [y |-> year, m |-> m, d |-> d]
              IN  (date \in cells) <=> d <= MonthLengths(year)[m]
        /\ Cardinality(cells) = 7 * Len(c.weeks)
        /\ \A w \in DOMAIN c.weeks, i \in 1 .. 7 :
              LET d == c.weeks[w][i].date
              IN  /\ (DateUTC(d) - DateUTC([y |-> 2024, m |-> 1, d |-> 1])) % 7 = i - 1
                  /\ c.weeks[w][i].known => past(d)
                  /\ past(d) /\ d \in DOMAIN known =>
                        c.weeks[w][i].known /\ c.weeks[w][i].minutes = known[d]
        /\ c.activeDays = Cardinality({d \in counted : known[d] > 0})
        /\ c.totalMinutes >= c.maxMinutes
        /\ counted # {} => \E d \in counted : known[d] = c.maxMinutes
        /\ {c.months[w] : w \in DOMAIN c.months} = 1 .. 12
        /\ \A v, w \in DOMAIN c.months : v < w => c.months[v] < c.months[w]
YearHolds(days, year, today) ==
    ShowsYear(YearCalendar(days, year, today), ByDate(days), year, today)

(* The heat of a day: none exactly for a day without minutes, the full     *)
(* heat for the fullest day, more minutes never less heat, and the         *)
(* calendar of the last weeks ends with the week of the last day it knows. *)
ShowsHeat(c, known, weeks) ==
    LET cells == {c.weeks[w][i] : w \in DOMAIN c.weeks, i \in 1 .. 7}
        level(cell) == HeatLevel(cell.minutes, c.maxMinutes)
        final == DOMAIN known
    IN  /\ \A a, b \in cells : a.minutes <= b.minutes => level(a) <= level(b)
        /\ \A a \in cells : (level(a) = 0) <=> (a.minutes = 0)
        /\ \A a \in cells : a.minutes = c.maxMinutes /\ a.minutes > 0 => level(a) = 4
        /\ final # {} =>
              LET d == CHOOSE d \in final : \A o \in final : DateUTC(o) <= DateUTC(d)
              IN  \E i \in 1 .. 7 : c.weeks[weeks][i] = CellOf(known, d)
HeatHolds(days, weeks, today) ==
    ShowsHeat(HeatCalendar(days, weeks, today), ByDate(days), weeks)

-----------------------------------------------------------------------------
(* The page: for each year the answer that is kept, whether the last       *)
(* request failed, and the request under way.                              *)

VARIABLES
    year,           \* the year chosen
    keptYears,      \* for each year the answer kept
    failed,         \* the years whose last request failed
    requested,      \* the years whose request is on its way to the server
    said,           \* for each year the answer on its way to the page
    studied,        \* the years with activity, at the server
    asks            \* requests so far

yearVars == <<year, keptYears, failed, requested, said, studied, asks>>

(* What the server says when it is asked for a year: that year's days, and *)
(* every year with activity, today's always among them (stats/handler.go). *)
StatsOf(y) == [days |-> y, years |-> studied \cup {ThisYear}]

InitYears ==
    /\ year = ThisYear
    /\ keptYears = [y \in Years |-> NoStats] /\ failed = {}
    /\ studied \in {A \in SUBSET Years : Cardinality(A) <= 1}
    /\ requested = {ThisYear} /\ said = [y \in Years |-> NoStats]
    /\ asks = 0

(* Mutant: one key for the answers of all years.                           *)
StatsQueryKeyOfAll(y) == ThisYear

(* The key under which the answer for a year is kept. *)
StatsQueryKey(y) == y

YearQuery(y) == keptYears[StatsQueryKey(y)]

(* Mutant: without an answer today's year is offered.                      *)
OfferedYearsOfToday ==
    IF YearQuery(year) # NoStats /\ YearQuery(year).years # {}
    THEN YearQuery(year).years ELSE {ThisYear}

(* The years to choose from: those of the answer for the year on show, or  *)
(* that year alone.                                                        *)
OfferedYears ==
    IF YearQuery(year) # NoStats /\ YearQuery(year).years # {}
    THEN YearQuery(year).years ELSE {year}

(* A mount of the query, and a focus of the window, ask again unless a     *)
(* request is under way; it is not repeated when it fails.                 *)
AskForYear(y) ==
    LET key == StatsQueryKey(y)
    IN  /\ requested' = IF said[key] = NoStats THEN requested \cup {key} ELSE requested
        /\ failed' = IF keptYears[key] = NoStats THEN failed \ {key} ELSE failed
        /\ UNCHANGED said

ChooseYear(y) ==
    /\ asks < MaxRequests /\ y \in OfferedYears \ {year}
    /\ year' = y /\ AskForYear(y) /\ asks' = asks + 1
    /\ UNCHANGED <<keptYears, studied>>

FocusYear ==
    /\ asks < MaxRequests /\ asks' = asks + 1
    /\ AskForYear(year)
    /\ UNCHANGED <<year, keptYears, studied>>

ServeYear(y) ==
    /\ y \in requested
    /\ requested' = requested \ {y}
    /\ said' = [said EXCEPT ![y] = StatsOf(y)]
    /\ UNCHANGED <<year, keptYears, failed, studied, asks>>

(* An answer of the present server, or of one that knows no years yet. *)
AnswerYear(y) ==
    /\ said[y] # NoStats
    /\ \E years \in {said[y].years, {}} :
          keptYears' = [keptYears EXCEPT ![y] = [said[y] EXCEPT !.years = years]]
    /\ failed' = failed \ {y}
    /\ said' = [said EXCEPT ![y] = NoStats]
    /\ UNCHANGED <<year, requested, studied, asks>>

FailYear(y) ==
    /\ y \in requested \/ said[y] # NoStats
    /\ requested' = requested \ {y} /\ said' = [said EXCEPT ![y] = NoStats]
    /\ failed' = failed \cup {y}
    /\ UNCHANGED <<year, keptYears, studied, asks>>

(* Another device studies a year, and the server knows. *)
StudyElsewhere ==
    /\ asks < MaxRequests /\ asks' = asks + 1
    /\ \E y \in Years \ studied : studied' = studied \cup {y}
    /\ UNCHANGED <<year, keptYears, failed, requested, said>>

YearNext ==
    \/ \E y \in Years : ChooseYear(y) \/ ServeYear(y) \/ AnswerYear(y) \/ FailYear(y)
    \/ FocusYear
    \/ StudyElsewhere

YearSpec == InitYears /\ [][YearNext]_yearVars

(* The figures on show are those of the year chosen, whatever was answered *)
(* in between, and that year is among the years to choose from, so that it *)
(* can be marked (Progress.tsx 144-160).                                   *)
YearsHold ==
    /\ YearQuery(year) # NoStats => YearQuery(year).days = year
    /\ year \in OfferedYears

=============================================================================
