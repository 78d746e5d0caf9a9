------------------------------ MODULE Calendar ------------------------------
(***************************************************************************)
(* Timestamps: days_from_civil and parse_rfc3339_ns, of which coinbase.hpp *)
(* and gridradar.hpp (include/feed) each hold a copy of their own, on      *)
(* texts "YYYY-MM-DDT00:00:00[.digits]Z".                                  *)
(* The text walks through the calendar day by day from 1970-01-01, and on  *)
(* that first day its fraction grows digit by digit; the hour, minute and  *)
(* second only add their multiple of a second, and are left at 0.          *)
(* An instant is <<days, nanoseconds>>.                                    *)
(***************************************************************************)
EXTENDS Integers, Sequences, Sums

CONSTANTS LastYear,     \* bound: the walk ends with this year
          Digits,       \* the digits that occur in a fraction
          MaxDigits     \* bound: the length of a fraction

ASSUME CalendarAssumption ==
    LastYear \in Nat /\ LastYear >= 1970 /\ Digits \subseteq 0..9 /\ MaxDigits \in Nat

VARIABLES year, mon, day,   \* the date of the text
          fraction,         \* the digits after the point
          elapsed           \* the days walked since 1970-01-01

calendarVars == <<year, mon, day, fraction, elapsed>>

-----------------------------------------------------------------------------
Unsigned == 16777216   \* 2^24 in place of 2^32: the wrapped sum is below 12 either way

DayOfYearUnrounded(m, d) ==
    (153 * ((m + (IF m > 2 THEN Unsigned - 3 ELSE 9)) % Unsigned)) \div 5 + d - 1

\* The day of a year that starts in March; m - 3 is an unsigned sum that wraps.
DayOfYear(m, d) ==
    (153 * ((m + (IF m > 2 THEN Unsigned - 3 ELSE 9)) % Unsigned) + 2) \div 5 + d - 1

\* days_from_civil
DaysFromCivil(y0, m, d) ==
    LET y == IF m <= 2 THEN y0 - 1 ELSE y0
        era == (IF y >= 0 THEN y ELSE y - 399) \div 400
        yoe == y - era * 400
    IN  era * 146097 + yoe * 365 + yoe \div 4 - yoe \div 100 + DayOfYear(m, d) - 719468

\* The copy in gridradar.hpp.
GridDaysFromCivil(y0, m, d) ==
    LET y == IF m <= 2 THEN y0 - 1 ELSE y0
        era == (IF y >= 0 THEN y ELSE y - 399) \div 400
        yoe == y - era * 400
    IN  era * 146097 + yoe * 365 + yoe \div 4 - yoe \div 100 + DayOfYear(m, d) - 719468

\* The fraction in nanoseconds: nine digits are read, the rest are skipped, and
\* fewer are scaled up.
FracNs(s) ==
    LET read[i \in 0..9] ==
            IF i = 0 THEN 0 ELSE read[i - 1] * 10 + (IF i <= Len(s) THEN s[i] ELSE 0)
    IN  read[9]

\* parse_rfc3339_ns accepts a day up to 31 in every month.
AcceptsDate(m, d) == m \in 1..12 /\ d \in 1..31

ParseInstant(y, m, d, s) == <<DaysFromCivil(y, m, d), FracNs(s)>>
GridParseInstant(y, m, d, s) == <<GridDaysFromCivil(y, m, d), FracNs(s)>>

CalendarInit ==
    /\ year = 1970 /\ mon = 1 /\ day = 1 /\ elapsed = 0
    /\ fraction = << >>

Leap(y) == y % 4 = 0 /\ (y % 100 # 0 \/ y % 400 = 0)
MonthLength(y, m) ==
    IF m = 2 THEN IF Leap(y) THEN 29 ELSE 28
    ELSE IF m \in {4, 6, 9, 11} THEN 30 ELSE 31

\* The next day of the Gregorian calendar.
NextDay ==
    /\ fraction = << >>
    /\ \/ day < MonthLength(year, mon) /\ day' = day + 1 /\ UNCHANGED <<mon, year>>
       \/ /\ day = MonthLength(year, mon) /\ mon < 12
          /\ day' = 1 /\ mon' = mon + 1 /\ UNCHANGED year
       \/ /\ day = 31 /\ mon = 12 /\ year < LastYear
          /\ day' = 1 /\ mon' = 1 /\ year' = year + 1
    /\ elapsed' = elapsed + 1
    /\ UNCHANGED fraction

AnotherDigit(digit) ==
    /\ elapsed = 0 /\ Len(fraction) < MaxDigits
    /\ fraction' = Append(fraction, digit)
    /\ UNCHANGED <<year, mon, day, elapsed>>

CalendarNext == NextDay \/ \E digit \in Digits : AnotherDigit(digit)

CalendarSpec == CalendarInit /\ [][CalendarNext]_calendarVars

-----------------------------------------------------------------------------
(* Properties.                                                             *)

\* Every variable keeps its type.
CalendarTypeOK ==
    /\ year \in 1970..LastYear /\ mon \in 1..12 /\ day \in 1..MonthLength(year, mon)
    /\ fraction \in Seq(Digits) /\ Len(fraction) <= MaxDigits /\ elapsed \in Nat

\* The text's fraction, as a sum of its digits' weights in nanoseconds.
Nanoseconds ==
    LET n == IF Len(fraction) < 9 THEN Len(fraction) ELSE 9
    IN  SumTo([i \in 1..n |-> fraction[i] * Power(10, 9 - i)], n)

\* To both adapters, every date of the calendar is acceptable and as many days
\* after 1970-01-01 as the walk has taken, over every month's end, leap years
\* and the centuries that are none; a day past the month's end, which the
\* parser also takes, counts on into the next month; and a fraction is cut,
\* never rounded, to the nanosecond.
InstantIsExact ==
    /\ CalendarTypeOK
    /\ AcceptsDate(mon, day)
    /\ ParseInstant(year, mon, day, fraction) = <<elapsed, Nanoseconds>>
    /\ GridParseInstant(year, mon, day, fraction) = <<elapsed, Nanoseconds>>
    /\ AcceptsDate(mon, 31) /\ DaysFromCivil(year, mon, 31) = elapsed + 31 - day
=============================================================================
