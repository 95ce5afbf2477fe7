------------------------------- MODULE Temporal -------------------------------
(***************************************************************************)
(* datatypes/dateutil.ts, datatypes/datetime.ts, codecs/datetime.ts: dates,*)
(* times and durations, the numbers they are sent as and their texts.  A   *)
(* time is counted as in the code, except that a thousand is a constant    *)
(* (TLC's integers have 32 bits) and a JavaScript Date is the pair of its  *)
(* day since 1970 and its millisecond of that day.                         *)
(***************************************************************************)
EXTENDS Integers, Sequences, SequencesExt, FiniteSetsExt

CONSTANTS
  Thousand,   \* nanoseconds of a microsecond, and so on
  Kibi,       \* 1024, of datatypes/memory.ts
  Thrown     \* what a call gives that throws

TemporalAssumption == Thousand \in Nat /\ Thousand > 1 /\ Thousand % 2 = 0 /\ Kibi \in Nat /\ Kibi > 1

(* Math.trunc of a quotient, and %, which has the sign of the dividend.    *)
TruncDiv(a, b) == IF a >= 0 THEN a \div b ELSE -((-a) \div b)
TruncRem(a, b) == a - b * TruncDiv(a, b)
Magnitude(n) == IF n < 0 THEN -n ELSE n
Signum(n) == IF n = 0 THEN 0 ELSE IF n < 0 THEN -1 ELSE 1

----------------------------------------------------------------------------
(* The calendar.                                                           *)

isLeapYear(year) == year % 4 = 0 /\ (year % 100 # 0 \/ year % 400 = 0)
DaysInMonth == <<31, 28, 31, 30, 31, 30, 31, 31, 30, 31, 30, 31>>
daysInMonth(year, month) == IF month = 2 /\ isLeapYear(year) THEN 29 ELSE DaysInMonth[month]
DaysBeforeMonth == [m \in 1 .. 13 |-> FoldSeq(+, 0, SubSeq(DaysInMonth, 1, m - 1))]
LeapDay(leap, month) == IF leap /\ month > 2 THEN 1 ELSE 0

daysBeforeYear(year) ==
  LET y == year - 1 IN y * 365 + TruncDiv(y, 4) - TruncDiv(y, 100) + TruncDiv(y, 400)
daysBeforeMonth(year, month) == DaysBeforeMonth[month] + LeapDay(isLeapYear(year), month)

ymd2ord(year, month, day) == daysBeforeYear(year) + daysBeforeMonth(year, month) + day

(* The month is estimated from the day of the year, one too large at most. *)
MonthOf(n, leap) ==
  LET estimate == (n + 50) \div 32
  IN IF DaysBeforeMonth[estimate] + LeapDay(leap, estimate) > n THEN estimate - 1 ELSE estimate

ord2ymd(ord) ==
  LET DI400Y == daysBeforeYear(401)
      DI100Y == daysBeforeYear(101)
      DI4Y == daysBeforeYear(5)
      in400 == (ord - 1) % DI400Y
      n100 == in400 \div DI100Y
      in100 == in400 % DI100Y
      n4 == in100 \div DI4Y
      in4 == in100 % DI4Y
      n1 == in4 \div 365
      n == in4 % 365
      year == ((ord - 1) \div DI400Y) * 400 + 1 + n100 * 100 + n4 * 4 + n1
      leap == n1 = 3 /\ (n4 # 24 \/ n100 = 3)
      month == MonthOf(n, leap)
  IN IF n1 = 4 \/ n100 = 4
     THEN <<year - 1, 12, 31>>
     ELSE <<year, month, n - DaysBeforeMonth[month] - LeapDay(leap, month) + 1>>

(* JavaScript's Date counts days from 1970 in the same calendar, every     *)
(* year by the same formula; Date.UTC takes a year below 100 for 19xx.     *)
DayFromYear(y) ==
  365 * (y - 1970) + (y - 1969) \div 4 - (y - 1901) \div 100 + (y - 1601) \div 400
DayOfDate(year, month, day) == DayFromYear(year) + daysBeforeMonth(year, month) + day - 1
YearFromDay(day) ==
  LET near == 1970 + day \div 365
  IN CHOOSE y \in (near - 1 - Magnitude(near - 1970) \div 1460) .. (near + 1 + Magnitude(near - 1970) \div 1460) :
       DayFromYear(y) <= day /\ day < DayFromYear(y + 1)
DateOfDay(day) ==
  LET year == YearFromDay(day)
      n == day - DayFromYear(year)
      month == CHOOSE m \in 1 .. 12 : daysBeforeMonth(year, m) <= n /\ n < daysBeforeMonth(year, m) + daysInMonth(year, m)
  IN <<year, month, n - daysBeforeMonth(year, month) + 1>>
DateUTC(year, month, day) ==
  IF year \in 0 .. 99 THEN DayOfDate(1900 + year, month, day) ELSE DayOfDate(year, month, day)
setUTCFullYear(day, year) == LET d == DateOfDay(day) IN DayOfDate(year, d[2], d[3])

(* A LocalDate holds the Date of its midnight.                             *)
NewLocalDate(year, month, day) ==
  IF \/ year \notin -271820 .. 275759
     \/ month \notin 1 .. 12
     \/ day \notin 1 .. daysInMonth(year, month)
  THEN Thrown
  ELSE LET date == DateUTC(year, month, day)
       IN IF year \in 0 .. 99 THEN setUTCFullYear(date, year) ELSE date

dayOfWeek(date) == ((((date + 4) % 7) + 6) % 7) + 1
dayOfYear(date) == LET d == DateOfDay(date) IN daysBeforeMonth(d[1], d[2]) + d[3]

DATESHIFT_ORD == ymd2ord(2000, 1, 1)
LocalDateToOrdinal(date) == LET d == DateOfDay(date) IN ymd2ord(d[1], d[2], d[3])
LocalDateFromOrdinal(ord) == LET d == ord2ymd(ord) IN NewLocalDate(d[1], d[2], d[3])
EncodeLocalDate(date) == LocalDateToOrdinal(date) - DATESHIFT_ORD
DecodeLocalDate(n) == LocalDateFromOrdinal(n + DATESHIFT_ORD)

(* The server counts days from 2000, in the same calendar.  Its dates are  *)
(* of the years 1 .. 9999.                                                 *)
Epoch == DayOfDate(2000, 1, 1)

(* A date of the server's range is the day the server means, in both       *)
(* directions, and its fields are those it was made of.                    *)
DateSurvives(year, month, day) ==
  LET date == NewLocalDate(year, month, day)
  IN IF day > daysInMonth(year, month)
     THEN date = Thrown
     ELSE /\ DateOfDay(date) = <<year, month, day>>
          /\ EncodeLocalDate(date) = date - Epoch
          /\ DecodeLocalDate(date - Epoch) = date
          /\ dayOfYear(date) = date - DayFromYear(year) + 1
          /\ dayOfWeek(date + 1) = (dayOfWeek(date) % 7) + 1
          /\ dayOfWeek(Epoch) = 6

----------------------------------------------------------------------------
(* Times of day and the moments of a day.  A time is a record, its unit on *)
(* the wire the microsecond.                                               *)
Milli == Thousand
Second == Thousand * Thousand
MsOfDay == 86400 * Thousand

NewLocalTime(hour, minute, second, milli, micro, nano) ==
  IF /\ hour \in 0 .. 23 /\ minute \in 0 .. 59 /\ second \in 0 .. 59
     /\ {milli, micro, nano} \subseteq 0 .. Thousand - 1
  THEN [hour |-> hour, minute |-> minute, second |-> second,
        milli |-> milli, micro |-> micro, nano |-> nano]
  ELSE Thrown

TimeMicros(t) == ((t.hour * 60 + t.minute) * 60 + t.second) * Second + t.milli * Milli + t.micro

(* Half a microsecond is rounded to the even one.                          *)
RoundsUp(nano, micros) == (2 * nano = Thousand /\ micros % 2 = 1) \/ 2 * nano > Thousand
HalfEven(micros, nano) == micros + IF RoundsUp(nano, micros) THEN 1 ELSE 0

EncodeLocalTime(t) == HalfEven(TimeMicros(t), t.nano)
DecodeLocalTime(us) ==
  LET seconds == us \div Second
      rest == us % Second
      minutes == seconds \div 60
  IN NewLocalTime(minutes \div 60, minutes % 60, seconds % 60, rest \div Milli, rest % Milli, 0)

(* A JavaScript Date: milliseconds from 2000 of a day and a millisecond.   *)
MsFrom2000(d) == (d.day - Epoch) * MsOfDay + d.ms
DateAt(ms) == [day |-> Epoch + ms \div MsOfDay, ms |-> ms % MsOfDay]

(* A LocalDateTime is a LocalDate and a LocalTime.                         *)
EncodeLocalDateTime(dt) ==
  LET us == MsFrom2000([day |-> dt.date, ms |-> 0]) * Thousand + TimeMicros(dt.time)
  IN us + IF RoundsUp(dt.time.nano, dt.time.micro) THEN 1 ELSE 0
LocalTimeAt(ms, micro) ==
  NewLocalTime(ms \div (3600 * Thousand), (ms \div (60 * Thousand)) % 60, (ms \div Thousand) % 60, ms % Thousand, micro, 0)
LocalDateOf(ymd) == NewLocalDate(ymd[1], ymd[2], ymd[3])
LocalDateTimeAt(d, micro) == [date |-> LocalDateOf(DateOfDay(d.day)), time |-> LocalTimeAt(d.ms, micro)]
DecodeLocalDateTime(us) ==
  LET whole == TruncDiv(us, Thousand)
      rest == us - whole * Thousand
  IN IF rest < 0 THEN LocalDateTimeAt(DateAt(whole - 1), rest + Thousand) ELSE LocalDateTimeAt(DateAt(whole), rest)

(* A datetime is a Date, of whole milliseconds: Math.round goes up at a    *)
(* half, and an odd result of a half is taken back.                        *)
EncodeDateTime(d) == MsFrom2000(d) * Thousand
DecodeDateTime(us) ==
  LET round == (2 * us + Thousand) \div (2 * Thousand)
      half == 2 * Magnitude(TruncRem(us, Thousand)) = Thousand
  IN DateAt(IF half /\ Magnitude(round) % 2 = 1 THEN round - 1 ELSE round)

(* The nearest multiple, the even one of two; n and its divisor may be     *)
(* anything, so this is what the three rounding codes above should do.     *)
Nearest(n, divisor) ==
  CHOOSE m \in {n \div divisor, n \div divisor + 1} :
    LET off == Magnitude(n - m * divisor)
    IN 2 * off < divisor \/ (2 * off = divisor /\ m % 2 = 0)

NearestMicro(us, nano) == us + Nearest(nano + (us % 2) * Thousand, Thousand) - (us % 2)

(* A time is sent as its nearest microsecond and comes back as that one.   *)
(* (The last half microsecond of a day is sent as 24:00, which is refused  *)
(* when it comes back.)                                                    *)
TimeSurvives(t) ==
  LET sent == EncodeLocalTime(t)
  IN /\ sent = NearestMicro(TimeMicros(t), t.nano)
     /\ sent < 86400 * Second => EncodeLocalTime(DecodeLocalTime(sent)) = sent /\ DecodeLocalTime(sent).nano = 0
     /\ t.nano = 0 => DecodeLocalTime(sent) = t

(* Each microsecond near the epoch, before or after it, is the moment it   *)
(* says: a local datetime dt reads back exactly, and is sent as its        *)
(* nearest microsecond; a datetime d is the nearest millisecond.           *)
SaysMoment(us, dt, d) ==
  /\ dt.date - Epoch = us \div (86400 * Second)
  /\ TimeMicros(dt.time) = us % (86400 * Second)
  /\ \A nano \in 0 .. Thousand - 1 :
       EncodeLocalDateTime([dt EXCEPT !.time.nano = nano]) = NearestMicro(us, nano)
  /\ MsFrom2000(d) = Nearest(us, Thousand)
  /\ us % Thousand = 0 => EncodeDateTime(d) = us
MomentSurvives(us) == SaysMoment(us, DecodeLocalDateTime(us), DecodeDateTime(us))

----------------------------------------------------------------------------
(* Durations: the date fields are years, months, weeks and days, the time  *)
(* fields hours, minutes, seconds and the three below a second.            *)
Hour == 3600 * Second
Minute == 60 * Second

NewDuration(date, time) ==
  LET signs == {Signum(x) : x \in Range(date) \cup Range(time)} \ {0}
  IN IF Cardinality(signs) > 1
     THEN Thrown
     ELSE [date |-> date, time |-> time, sign |-> IF signs = {} THEN 0 ELSE CHOOSE x \in signs : TRUE]

TimeFieldsMicros(t) == t[1] * Hour + t[2] * Minute + t[3] * Second + t[4] * Milli + t[5]
Magnitudes(t) == [n \in DOMAIN t |-> Magnitude(t[n])]
Blank(date) == Range(date) = {0}

EncodeDuration(d) ==
  LET t == Magnitudes(d.time)
      us == TimeFieldsMicros(t) + IF RoundsUp(t[6], t[5]) THEN 1 ELSE 0
  IN IF ~Blank(d.date) THEN Thrown ELSE IF d.sign < 0 THEN -us ELSE us

(* Microseconds as hours, minutes, seconds and the two below, each of them *)
(* with the sign of the whole.                                             *)
TimeFields(us) ==
  LET m == Magnitude(us)
      fields == <<m \div Hour, (m \div Minute) % 60, (m \div Second) % 60, (m \div Milli) % Thousand, m % Thousand>>
  IN [n \in 1 .. 5 |-> IF us < 0 THEN -fields[n] ELSE fields[n]]
DecodeDuration(us) == NewDuration(<<0, 0, 0, 0>>, Append(TimeFields(us), 0))

(* The text of a duration: a unit may be unwritten; a fraction is its      *)
(* digits, one to base Thousand being three of the decimal ones.           *)
Unwritten == -1
Written(n) == IF n = 0 THEN Unwritten ELSE n
Given(n) == IF n = Unwritten THEN 0 ELSE n
WithoutZeros(digits) == SubSeq(digits, 1, Max({0} \cup {n \in DOMAIN digits : digits[n] # 0}))

DurationText(d) ==
  LET t == Magnitudes(d.time)
      nanos == ((t[3] * Thousand + t[4]) * Thousand + t[5]) * Thousand + t[6]
      digits == <<(nanos \div (Thousand * Thousand)) % Thousand, (nanos \div Thousand) % Thousand, nanos % Thousand>>
      seconds == nanos # 0 \/ (Blank(d.date) /\ t[1] = 0 /\ t[2] = 0)
  IN [sign |-> IF d.sign = -1 THEN -1 ELSE 1,
      date |-> [n \in 1 .. 4 |-> Written(Magnitude(d.date[n]))],
      t |-> seconds \/ t[1] # 0 \/ t[2] # 0,
      whole |-> <<Written(t[1]), Written(t[2]), IF seconds THEN nanos \div (Second * Thousand) ELSE Unwritten>>,
      frac |-> <<<<>>, <<>>, IF seconds THEN WithoutZeros(digits) ELSE <<>>>>]

(* Duration.from: only the smallest unit may have a fraction.  A fraction  *)
(* of an hour or a minute is spread over the units below, down to a whole  *)
(* nanosecond (the code does so in floating point).  A text without "T" is *)
(* refused by accident: its absent group is dereferenced.                  *)
PadEnd(digits) == [n \in 1 .. 3 |-> IF n <= Len(digits) THEN digits[n] ELSE 0]
Part(digits, nanos) ==
  LET value == FoldLeft(LAMBDA x, digit : x * Thousand + digit, 0, digits)
  IN (value * nanos) \div (Thousand ^ Len(digits))

DurationFrom(text) ==
  LET unit == CHOOSE n \in 0 .. 3 : (n = 0 \/ text.frac[n] # <<>>) /\ \A m \in n + 1 .. 3 : text.frac[m] = <<>>
      fraction == IF unit = 0 THEN 0
                  ELSE Part(text.frac[unit], Thousand * <<Hour, Minute, Second>>[unit])
      below == TimeFields(fraction \div Thousand)
      given == [n \in 1 .. 3 |-> Given(text.whole[n])]
      fields == IF unit \in {0, 3}
                THEN given \o IF unit = 0 THEN <<0, 0, 0>> ELSE PadEnd(text.frac[3])
                ELSE [n \in 1 .. 6 |-> IF n <= unit THEN given[n]
                                       ELSE IF n = 6 THEN fraction % Thousand ELSE below[n]]
  IN IF \/ ~text.t
        \/ Range(text.whole) = {Unwritten}
        \/ \E n \in 1 .. 2, m \in 2 .. 3 :
             n < m /\ text.frac[n] # <<>> /\ (text.whole[m] # Unwritten \/ text.frac[m] # <<>>)
     THEN Thrown
     ELSE NewDuration([n \in 1 .. 4 |-> text.sign * Given(text.date[n])],
                      [n \in 1 .. 6 |-> text.sign * fields[n]])

TimeFieldsNanos(t) == TimeFieldsMicros(t) * Thousand + t[6]

(* A duration is refused exactly when its fields disagree in sign; it is   *)
(* sent as its nearest microsecond and what comes back is sent the same;   *)
(* and its text, when it has a time part, reads back as the same duration. *)
DurationSurvives(date, time) ==
  LET d == NewDuration(date, time)
      sent == EncodeDuration(d)
      read == DurationFrom(DurationText(d))
  IN IF d = Thrown
     THEN \E x, y \in Range(date) \cup Range(time) : x < 0 /\ 0 < y
     ELSE /\ sent # Thrown =>
                /\ Magnitude(time[6]) < Thousand => sent = Nearest(TimeFieldsNanos(time), Thousand)
                /\ EncodeDuration(DecodeDuration(sent)) = sent
          /\ sent = Thrown <=> ~Blank(date)
          /\ DurationText(d).t =>
                /\ read # Thrown /\ read.date = date /\ read.sign = d.sign
                /\ TimeFieldsNanos(read.time) = TimeFieldsNanos(time)

(* Whatever text Duration.from accepts is the duration it denotes, to the  *)
(* nanosecond below it.                                                    *)
TextMeans(text) ==
  LET d == DurationFrom(text)
  IN d # Thrown =>
       TimeFieldsNanos(Magnitudes(d.time)) =
         FoldSeq(+, 0, [n \in 1 .. 3 |-> Given(text.whole[n]) * Thousand * <<Hour, Minute, Second>>[n]
                                         + Part(text.frac[n], Thousand * <<Hour, Minute, Second>>[n])])
----------------------------------------------------------------------------
(* Relative durations are sent as microseconds, days and months, of any    *)
(* signs; a date duration is one without microseconds.                     *)
EncodeRelative(d) ==
  [us |-> TimeFieldsMicros(d.time), days |-> d.date[4] + 7 * d.date[3], months |-> d.date[2] + 12 * d.date[1]]
DecodeRelative(sent) ==
  [date |-> <<TruncDiv(sent.months, 12), TruncRem(sent.months, 12), TruncDiv(sent.days, 7), TruncRem(sent.days, 7)>>,
   time |-> TimeFields(sent.us)]

(* The text has a letter after each number that is not zero; its seconds   *)
(* are a decimal fraction, here in microseconds.                           *)
RelativeText(d) ==
  LET parts == <<<<"Y", d.date[1]>>, <<"M", d.date[2]>>, <<"D", d.date[4] + 7 * d.date[3]>>, <<"TH", d.time[1]>>,
                 <<"TM", d.time[2]>>, <<"TS", d.time[3] * Second + d.time[4] * Milli + d.time[5]>>>>
      written == SelectSeq(parts, LAMBDA part : part[2] # 0)
  IN IF written = <<>> THEN <<<<"TS", 0>>>> ELSE written
TextValue(text) ==
  LET Sum(letter) == FoldSeq(LAMBDA part, n : n + IF part[1] = letter THEN part[2] ELSE 0, 0, text)
  IN [us |-> Sum("TH") * Hour + Sum("TM") * Minute + Sum("TS"), days |-> Sum("D"), months |-> 12 * Sum("Y") + Sum("M")]

(* What a relative duration is sent as, what comes back and its text are   *)
(* the same months, days and microseconds, whatever their signs.           *)
RelativeSurvives(d) ==
  LET sent == EncodeRelative(d)
      back == DecodeRelative(sent)
  IN /\ EncodeRelative(back) = sent
     /\ TextValue(RelativeText(d)) = sent /\ TextValue(RelativeText(back)) = sent
     /\ back.date[2] \in -11 .. 11 /\ back.date[4] \in -6 .. 6

----------------------------------------------------------------------------
(* ConfigMemory.toString: the largest unit that divides the amount.        *)
MemoryText(bytes) ==
  LET fits == {p \in 0 .. 5 : p = 0 \/ (bytes >= Kibi ^ p /\ bytes % (Kibi ^ p) = 0)}
  IN <<bytes \div (Kibi ^ Max(fits)), Max(fits)>>
MemorySurvives(bytes) ==
  LET text == MemoryText(bytes)
  IN text[1] * Kibi ^ text[2] = bytes /\ (text[2] < 5 /\ bytes > 0 => text[1] % Kibi # 0)
=============================================================================
