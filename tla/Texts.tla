-------------------------------- MODULE Texts --------------------------------
(***************************************************************************)
(* Texts as sequences of characters, a character being a string of length  *)
(* one, and what Python's and C++'s libraries do with them.                *)
(***************************************************************************)
EXTENDS Integers, Sequences, FiniteSets, SequencesExt, FiniteSetsExt

Digits   == <<"0", "1", "2", "3", "4", "5", "6", "7", "8", "9">>
IsDigit(ch) == \E d \in 1..10 : Digits[d] = ch
Value(ch)   == (CHOOSE d \in 1..10 : Digits[d] = ch) - 1

Occurs(ch, t) == \E i \in DOMAIN t : t[i] = ch
\* The first position of ch in t at or after i, Len(t) + 1 if there is none.
Find(ch, t, i) == Min({Len(t) + 1} \cup {j \in i..Len(t) : t[j] = ch})

\* str.split(sep, max); from[n][i]: the fields from i on, with n cuts left.
Split(t, sep, max) ==
  LET from[n \in 0..max] ==
        [i \in 1..(Len(t) + 1) |->
           LET j == Find(sep, t, i) IN
           IF n = 0 \/ j > Len(t) THEN <<SubSeq(t, i, Len(t))>>
           ELSE <<SubSeq(t, i, j - 1)>> \o from[n - 1][j + 1]]
  IN  from[max][1]
SplitAll(t, sep) == Split(t, sep, Len(t))

Join(fields, sep) ==
  FoldLeft(LAMBDA t, k : IF k = 1 THEN fields[1] ELSE t \o <<sep>> \o fields[k],
           <<>>, [k \in 1..Len(fields) |-> k])

\* The number that digits say, and the digits of a number.
Number(t) == FoldLeft(LAMBDA n, ch : 10 * n + Value(ch), 0, t)
Decimal(n) ==
  LET dec[k \in Nat] == IF k < 10 THEN <<Digits[k + 1]>> ELSE Append(dec[k \div 10], Digits[(k % 10) + 1])
  IN  dec[n]
Signed(n) == IF n < 0 THEN <<"-">> \o Decimal(-n) ELSE Decimal(n)
Padded(n, width) ==
  LET t == Decimal(n) IN [i \in 1..(width - Len(t)) |-> "0"] \o t

\* str.ljust(width, '0')
ljust(t, width) == t \o [i \in 1..(width - Len(t)) |-> "0"]

\* str.strip()
Strip(t) ==
  LET ink == {i \in DOMAIN t : t[i] # " "} IN
  IF ink = {} THEN <<>> ELSE SubSeq(t, Min(ink), Max(ink))

\* int(t): blanks around it and a sign are allowed; otherwise it raises ValueError.
IsSigned(s) == s # <<>> /\ s[1] \in {"+", "-"}
IsInt(t) ==
  LET s    == Strip(t)
      body == IF IsSigned(s) THEN Tail(s) ELSE s IN
  body # <<>> /\ \A i \in DOMAIN body : IsDigit(body[i])
int(t) ==
  LET s == Strip(t) IN
  IF ~IsSigned(s) THEN Number(s) ELSE IF s[1] = "-" THEN -Number(Tail(s)) ELSE Number(Tail(s))

=============================================================================
