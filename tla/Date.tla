--------------------------------- MODULE Date ---------------------------------
(***************************************************************************)
(* trantor::Date (utils/Date.h, utils/Date.cc): a count of microseconds,   *)
(* its rounding and comparison, and its conversion to and from the strings *)
(* of a database, in local time and in UTC.                                *)
(*                                                                         *)
(* A calendar day is its number, a time of day the seconds since midnight; *)
(* both, and the digits of a fraction, are scaled.  A string is what       *)
(* splitString() makes of it: a day and, if it has two parts, a time and   *)
(* the digits behind the dot.  localtime_r() and mktime() are those of a   *)
(* zone with an offset and, perhaps, a daylight saving time.               *)
(***************************************************************************)
EXTENDS Integers, Sequences, SequencesExt, FiniteSets

CONSTANTS DaySeconds,  \* 86400
          Radix,       \* 10: the values of a digit
          FracDigits,  \* 6: digits of a fraction of a second
          MaxDays,     \* bound: days after the epoch
          Zones        \* [std, dst, from, to]: offsets and the saving time

\* Zones without a saving time, for TLC
FixedZones == {[std |-> o, dst |-> 0, from |-> 0, to |-> 0] : o \in {0, -1}}

MicrosPerSec == Radix^FracDigits  \* MICRO_SECONDS_PRE_SEC
UIntMax == MicrosPerSec * 4       \* stands for UINT_MAX
NullDay == -1000                  \* the day of Date(0, 0, 0)

VARIABLES
  zone,   \* the time zone of the process
  date,   \* microSecondsSinceEpoch_ of a Date
  str,    \* the string made last
  origin  \* the date that str was made from, how, and whether it was read back

vars == <<zone, date, str, origin>>

-----------------------------------------------------------------------------
\* Division of C++ rounds to zero, and its remainder has the dividend's sign.
Quot(a, b) == IF a >= 0 THEN a \div b ELSE -((-a) \div b)
Rem(a, b) == a - b * Quot(a, b)

Saving(s) == s >= zone.from /\ s < zone.to
Offset(s) == zone.std + (IF Saving(s) THEN zone.dst ELSE 0)

\* localtime_r()
Localtime(s) ==
  [day |-> (s + Offset(s)) \div DaySeconds, time |-> (s + Offset(s)) % DaySeconds,
   isdst |-> Saving(s)]

\* mktime() with tm_isdst -1: any instant that has this local time; with none,
\* one of the offsets is applied.
Mktime(day, time) ==
  LET t == day * DaySeconds + time
      candidates == {t - zone.std, t - zone.std - zone.dst}
      exact == {s \in candidates : s + Offset(s) = t}
  IN IF exact = {} THEN candidates ELSE exact

\* mktime() with tm_isdst 0 or 1
MktimeAs(day, time, isdst) ==
  day * DaySeconds + time - zone.std - (IF isdst THEN zone.dst ELSE 0)

-----------------------------------------------------------------------------
Seconds(d) == Quot(d, MicrosPerSec)
\* after() multiplies in double, which is exact below 2^53 microseconds.
After(d, seconds) == d + seconds * MicrosPerSec
RoundSecond(d) == d - Rem(d, MicrosPerSec)
RoundDay(d) ==
  LET t == Localtime(Seconds(d))
  IN MktimeAs(t.day, 0, t.isdst) * MicrosPerSec

Minus == -1
\* %06d: the sign takes the place of a zero.
Decimals(m) ==
  LET n == IF m < 0 THEN -m ELSE m
      digits == [i \in 1 .. FracDigits |-> (n \div Radix^(FracDigits - i)) % Radix]
  IN IF m >= 0 THEN digits
     ELSE IF digits[1] = 0 THEN [digits EXCEPT ![1] = Minus] ELSE <<Minus>> \o digits

DateOnly(day) == [day |-> day, time |-> DaySeconds, frac |-> <<>>]
HasTime(s) == s.time < DaySeconds

ToDbStringLocal(d) ==
  LET t == Localtime(Seconds(d))
      micros == Rem(d, MicrosPerSec)
  IN IF micros # 0 THEN [day |-> t.day, time |-> t.time, frac |-> Decimals(micros)]
     ELSE IF d = RoundDay(d) THEN DateOnly(t.day)
     ELSE [day |-> t.day, time |-> t.time, frac |-> <<>>]

MutFraction(frac) == FoldLeft(LAMBDA n, digit : n * Radix + digit, 0, frac)
\* The fraction is cut or filled to six digits; stol() of one with a sign is
\* negative, and the unsigned int that it is stored in wraps.
Fraction(frac) ==
  LET six == [i \in 1 .. FracDigits |-> IF i <= Len(frac) THEN frac[i] ELSE 0]
      Value(digits) == FoldLeft(LAMBDA n, digit : n * Radix + digit, 0, digits)
  IN IF six[1] = Minus THEN UIntMax + 1 - Value(Tail(six)) ELSE Value(six)

\* fromDbStringLocal(): a string of one part is read as Date(0, 0, 0).
FromDbStringLocal(s) ==
  IF HasTime(s)
    THEN {t * MicrosPerSec + (IF s.frac = <<>> THEN 0 ELSE Fraction(s.frac)) :
            t \in Mktime(s.day, s.time)}
    ELSE {t * MicrosPerSec : t \in Mktime(NullDay, 0)}

\* timezoneOffset(): of the third of January 1970, whatever the date.
TimezoneOffset ==
  LET midnight == CHOOSE t \in Mktime(2, 0) : TRUE
  IN -(midnight - 2 * DaySeconds)

ToDbString(d) == ToDbStringLocal(After(d, -TimezoneOffset))
FromDbString(s) == {After(d, TimezoneOffset) : d \in FromDbStringLocal(s)}

-----------------------------------------------------------------------------
NoString == DateOnly(NullDay)
Dates == 0 .. MaxDays * DaySeconds * MicrosPerSec

DInit ==
  /\ zone \in Zones /\ date \in Dates
  /\ str = NoString /\ origin = [how |-> "none", date |-> 0, read |-> FALSE]

Format(how, s) ==
  /\ str = NoString
  /\ str' = s /\ origin' = [how |-> how, date |-> date, read |-> FALSE]
  /\ UNCHANGED <<zone, date>>

Parse(how, dates) ==
  /\ str # NoString /\ origin.how = how /\ ~origin.read
  /\ date' \in dates
  /\ origin' = [origin EXCEPT !.read = TRUE]
  /\ UNCHANGED <<zone, str>>

\* A string that a database made, with a fraction of any length
Given(frac) ==
  /\ str = NoString
  /\ str' = [day |-> Localtime(Seconds(date)).day, time |-> 1, frac |-> frac]
  /\ origin' = [how |-> "given", date |-> date, read |-> FALSE]
  /\ UNCHANGED <<zone, date>>

DNext ==
  \/ Format("local", ToDbStringLocal(date))
  \/ Format("utc", ToDbString(date))
  \/ \E n \in 1 .. FracDigits + 1 : \E frac \in [1 .. n -> 0 .. Radix - 1] : Given(frac)
  \/ Parse("local", FromDbStringLocal(str))
  \/ Parse("given", FromDbStringLocal(str))
  \/ Parse("utc", FromDbString(str))

DSpec == DInit /\ [][DNext]_vars

-----------------------------------------------------------------------------
\* The local time of s is that of no other instant.
Clear(s) == LET t == Localtime(s) IN Mktime(t.day, t.time) = {s}

\* What toDbStringLocal() and toDbString() print is read back as the same date,
\* unless it is a day without a time or its local time is that of two instants;
\* without a saving time toDbString() prints UTC.
Inverted ==
  LET shifted == After(origin.date, -TimezoneOffset)
  IN /\ origin.how = "local" /\ HasTime(str) /\ Clear(Seconds(origin.date))
         => date = origin.date
     /\ origin.how = "utc" /\ HasTime(str) /\ shifted >= 0 /\ Clear(Seconds(shifted))
         => /\ date = origin.date
            /\ zone.dst = 0 => str.day * DaySeconds + str.time = Seconds(origin.date)

\* A fraction of any length is read from its first digit on.
FractionRead ==
  origin.how = "given" =>
    \A i \in 1 .. FracDigits :
      (date \div Radix^(FracDigits - i)) % Radix = IF i <= Len(str.frac) THEN str.frac[i] ELSE 0

\* roundDay() is midnight of the same day and roundSecond() the start of the
\* second, unless the saving time begins or ends on that day.
Rounded ==
  LET r == RoundDay(date)
      t == Localtime(Seconds(r))
  IN date >= 0 =>
       /\ RoundSecond(date) = Seconds(date) * MicrosPerSec
       /\ Offset(Seconds(r)) = Offset(Seconds(date)) =>
            r <= date /\ t.time = 0 /\ t.day = Localtime(Seconds(date)).day

\* The conversions of Date keep the date: see the three above.
DateConversions == (origin.read => Inverted /\ FractionRead) /\ Rounded

\* What Date.h says of fromDbStringLocal(): it is the inverse of
\* toDbStringLocal().  It does not hold: at midnight the string has no time, and
\* a string without a time is read as Date(0, 0, 0).
InverseOfToDbStringLocal ==
  origin.read /\ origin.how = "local" => date = origin.date
=============================================================================
