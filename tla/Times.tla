-------------------------------- MODULE Times --------------------------------
(***************************************************************************)
(* MySQLdb/times.py: dates, times and durations, and the texts that MySQL  *)
(* sends and takes for them.  Values carry their type: <<"date", y, m, d>>, *)
(* <<"datetime", y, m, d, hour, minute, second, us>>,                      *)
(* <<"time", hour, minute, second, us>>, <<"timedelta", seconds, us>> with *)
(* us in 0..999999, <<"None">> and <<"raises">>.                           *)
(***************************************************************************)
EXTENDS Texts

Nothing == <<"None">>

-----------------------------------------------------------------------------
(* Python's datetime                                                       *)

Leap(y) == (y % 4 = 0 /\ y % 100 # 0) \/ y % 400 = 0
DaysIn(y, m) == IF m = 2 THEN (IF Leap(y) THEN 29 ELSE 28) ELSE IF m \in {4, 6, 9, 11} THEN 30 ELSE 31
IsDate(y, m, d) == y \in 1..9999 /\ m \in 1..12 /\ d \in 1..DaysIn(y, m)
Million == 1000000
IsTime(h, m, s, us) == h \in 0..23 /\ m \in 0..59 /\ s \in 0..59 /\ us \in 0..(Million - 1)

\* datetime(*args), with what is left out 0; Nothing where it raises.
datetime(args) ==
  LET a == args \o [i \in 1..(7 - Len(args)) |-> 0] IN
  IF Len(args) \in 3..7 /\ IsDate(a[1], a[2], a[3]) /\ IsTime(a[4], a[5], a[6], a[7])
  THEN <<"datetime">> \o a ELSE Nothing

timedelta(seconds, us)  == <<"timedelta", seconds + us \div Million, us % Million>>
Negated(td) == <<"timedelta", -td[2] - (IF td[3] > 0 THEN 1 ELSE 0), (Million - td[3]) % Million>>

-----------------------------------------------------------------------------
(* From MySQL's texts                                                      *)

Ints(parts) == [i \in DOMAIN parts |-> int(parts[i])]
AllInts(parts) == \A i \in DOMAIN parts : IsInt(parts[i])

\* 98-104: split at two dashes; date() takes three numbers.
Date_or_None(s) ==
  LET parts == Split(s, "-", 2) IN
  IF ~AllInts(parts) \/ Len(parts) # 3 THEN Nothing
  ELSE LET a == Ints(parts) IN
       IF IsDate(a[1], a[2], a[3]) THEN <<"date">> \o a ELSE Nothing

\* `10.5': a fraction has six digits.
\* Mutant: they are not filled up.
Fraction_Short(t) ==
  IF Occurs(".", t) THEN LET p == Split(t, ".", 1) IN <<p[1], p[2]>> ELSE <<t, <<"0">>>>

Fraction(t) ==
  IF Occurs(".", t) THEN LET p == Split(t, ".", 1) IN <<p[1], ljust(p[2], 6)>> ELSE <<t, <<"0">>>>

\* 44-63
DateTime_or_None(s) ==
  IF ~Occurs(" ", s) /\ ~Occurs("T", s) THEN Date_or_None(s)
  ELSE LET dt    == Split(s, IF Occurs(" ", s) THEN " " ELSE "T", 1)
           t     == Fraction(dt[2])
           parts == SplitAll(dt[1], "-") \o SplitAll(t[1], ":") \o <<t[2]>>
           v     == IF AllInts(parts) THEN datetime(Ints(parts)) ELSE Nothing IN
       IF v = Nothing THEN Date_or_None(s) ELSE v

\* h:m:s of 67-73 and 86-92, or <<>> where unpacking or int raises ValueError.
Clock(s) ==
  LET hms == SplitAll(s, ":") IN
  IF Len(hms) # 3 \/ Len(SplitAll(hms[Len(hms)], ".")) > 2 THEN <<>>
  ELSE LET parts == <<hms[1], hms[2]>> \o Fraction(hms[3]) IN
       IF AllInts(parts) THEN Ints(parts) ELSE <<>>

Abs(n) == IF n < 0 THEN -n ELSE n

\* Mutant: only the hours carry the sign.
TimeDelta_or_None_Hours(s) ==
  LET c == Clock(s) IN
  IF c = <<>> THEN Nothing ELSE timedelta(c[1] * 3600 + c[2] * 60 + c[3], c[4])

\* 65-82
TimeDelta_or_None(s) ==
  LET c == Clock(s) IN
  IF c = <<>> THEN Nothing
  ELSE LET td == timedelta(Abs(c[1]) * 3600 + c[2] * 60 + c[3], c[4]) IN
       IF c[1] < 0 THEN Negated(td) ELSE td

\* 84-96
Time_or_None(s) ==
  LET c == Clock(s) IN
  IF c # <<>> /\ IsTime(c[1], c[2], c[3], c[4]) THEN <<"time">> \o c ELSE Nothing

\* 114-126: ISO, or fourteen digits.  s[4] and map(int, ...) are outside of
\* the try.
mysql_timestamp_converter(s) ==
  IF Len(s) < 5 THEN <<"raises">>
  ELSE IF s[5] = "-" THEN DateTime_or_None(s)
  ELSE LET t     == ljust(s, 14)
           parts == <<SubSeq(t, 1, 4)>> \o [i \in 1..5 |-> SubSeq(t, 2 * i + 3, 2 * i + 4)] IN
       IF AllInts(parts) THEN datetime(Ints(parts)) ELSE <<"raises">>

-----------------------------------------------------------------------------
(* To MySQL's texts                                                        *)

\* 34-38.  Division rounds down: a negative duration has negative days.
format_TIMEDELTA(td) ==
  LET seconds == td[2] % 86400 IN
  Signed(td[2] \div 86400) \o <<" ">> \o Decimal((seconds \div 3600) % 24) \o <<":">> \o
  Decimal((seconds \div 60) % 60) \o <<":">> \o Decimal(seconds % 60)

Iso(sep, d) ==
  Padded(d[2], 4) \o <<"-">> \o Padded(d[3], 2) \o <<"-">> \o Padded(d[4], 2) \o
  (IF d[1] = "date" THEN <<>>
   ELSE <<sep>> \o Padded(d[5], 2) \o <<":">> \o Padded(d[6], 2) \o <<":">> \o Padded(d[7], 2) \o
        (IF d[8] = 0 THEN <<>> ELSE <<".">> \o Padded(d[8], 6)))

\* 40-41: d.isoformat(" ")
format_TIMESTAMP(d) == Iso(" ", d)

-----------------------------------------------------------------------------
(* The server: what it prints in a column, and how it reads 'D h:m:s'.     *)

\* A fraction of n digits, as of a column TIME(n).
Digit6(us, n) == SubSeq(Padded(us, 6), 1, n)
ShowTime(td, n) ==
  LET neg == td[2] < 0
      abs == IF neg THEN Negated(td) ELSE td IN
  (IF neg THEN <<"-">> ELSE <<>>) \o
  Padded(abs[2] \div 3600, IF abs[2] < 360000 THEN 2 ELSE 3) \o <<":">> \o
  Padded((abs[2] \div 60) % 60, 2) \o <<":">> \o Padded(abs[2] % 60, 2) \o
  (IF n = 0 THEN <<>> ELSE <<".">> \o Digit6(abs[3], n))

\* The sign of the days is that of the whole.
ReadTime(t) ==
  LET parts == Split(t, " ", 1)
      c     == Clock(parts[2])
      td    == timedelta(Abs(int(parts[1])) * 86400 + c[1] * 3600 + c[2] * 60 + c[3], 0) IN
  IF parts[1][1] = "-" THEN Negated(td) ELSE td

ShowTimestamp14(d) ==
  Padded(d[2], 4) \o Padded(d[3], 2) \o Padded(d[4], 2) \o
  Padded(d[5], 2) \o Padded(d[6], 2) \o Padded(d[7], 2)

-----------------------------------------------------------------------------
(* Properties of one value                                                 *)

\* A value is as exact as its column: nothing is left below its n digits.
FitsColumn(us, n) == us = int(ljust(Digit6(us, n), 6))

(* A duration is read as MySQL prints it, whatever the digits of its       *)
(* fraction, and in whole seconds it comes back as it was written; with    *)
(* two exceptions: a duration between minus one hour and zero is read      *)
(* without its sign (`-00' is no negative number), and a negative one that *)
(* is no number of days is written as another one (days count downwards,   *)
(* the rest upwards).                                                      *)
DurationSurvives(td) ==
  LET unsigned == td[2] \in -3600..-1 /\ td # <<"timedelta", -3600, 0>> IN
  /\ \A n \in 0..6 :
       FitsColumn(td[3], n) =>
         TimeDelta_or_None(ShowTime(td, n)) = (IF unsigned THEN Negated(td) ELSE td)
  /\ td[3] = 0 /\ (td[2] >= 0 \/ td[2] % 86400 = 0) => ReadTime(format_TIMEDELTA(td)) = td

(* A date and a time of day are read as they are written, in either form   *)
(* of ISO, with the digits that the column has or as fourteen digits, and  *)
(* as midnight from eight; a day that no calendar has (MySQL's 0000-00-00  *)
(* or February 30th) is read as nothing, and no text that MySQL prints     *)
(* makes the conversion raise.                                             *)
DateSurvives(d) ==
  LET us    == d[8]
      known == IsDate(d[2], d[3], d[4])
      read  == IF known THEN d ELSE Nothing
      day   == SubSeq(Iso(" ", d), 1, 10) IN
  /\ DateTime_or_None(format_TIMESTAMP(d)) = read
  /\ mysql_timestamp_converter(format_TIMESTAMP(d)) = read
  /\ \A n \in 1..6 :
       FitsColumn(us, n) =>
         \A sep \in {" ", "T"} :
           DateTime_or_None(SubSeq(Iso(sep, [d EXCEPT ![8] = 0]), 1, 19) \o <<".">> \o Digit6(us, n)) = read
  /\ us = 0 => mysql_timestamp_converter(ShowTimestamp14(d)) = read
  /\ known => mysql_timestamp_converter(SubSeq(ShowTimestamp14(d), 1, 8)) = datetime(<<d[2], d[3], d[4]>>)
  /\ Date_or_None(day) = (IF known THEN <<"date", d[2], d[3], d[4]>> ELSE Nothing)

=============================================================================
