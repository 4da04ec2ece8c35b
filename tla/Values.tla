-------------------------------- MODULE Values --------------------------------
(***************************************************************************)
(* What comes to the functions of UrlText and Times: texts that clients    *)
(* and the list of plugins hold, and the durations and dates of a          *)
(* database.  An input is put together piece by piece; a text may end      *)
(* after any of its characters, a value has all of its parts.              *)
(***************************************************************************)
EXTENDS UrlText, Times

CONSTANTS Letters,    \* Letters[k]: the characters that a text of the kind k may have
          MaxLen,     \* bound: MaxLen[k] is the length of the texts of the kind k
          Durations,  \* what sign, hours, minutes, seconds and microseconds may be
          Dates       \* what year, month, day, hour, minute, second and microsecond may be

\* A body's list of addresses, a line of the list of plugins, the ext parameter.
Kinds == {"urls", "line", "ext"}

\* The server and Python know no other values: of a day they have four digits
\* for the year and two for month and day, of which no calendar need know.
ASSUME DurationsAssumption ==
  /\ DOMAIN Durations = 1..5
  /\ \A i \in 1..4 : \A x \in Durations[i] : x \in Int
  /\ \A x \in Durations[5] : x \in 0..(Million - 1)
ASSUME DatesAssumption ==
  /\ DOMAIN Dates = 1..7
  /\ \A x \in Dates[1] : x \in 0..9999
  /\ \A i \in 2..3 : \A x \in Dates[i] : x \in 0..99
  /\ \A x \in Dates[4] : x \in 0..23
  /\ \A i \in 5..6 : \A x \in Dates[i] : x \in 0..59
  /\ \A x \in Dates[7] : x \in 0..(Million - 1)

VARIABLES
  subject,  \* "duration", "date", or the kind of text
  input     \* its pieces

-----------------------------------------------------------------------------

\* What may come as the i-th piece.
NextPiece(s, i) ==
  CASE s \in Kinds /\ i <= MaxLen[s] -> Letters[s]
    [] s = "duration" /\ i <= 5 -> Durations[i]
    [] s = "date" /\ i <= 7 -> Dates[i]
    [] OTHER -> {}

Begin  == input = <<>> /\ subject \in Kinds \cup {"duration", "date"}
Extend == \E x \in NextPiece(subject, Len(input) + 1) : input' = Append(input, x) /\ UNCHANGED subject

ValuesSpec == Begin /\ [][Extend]_<<subject, input>>

\* Python's timedelta for a whole input.
Duration ==
  LET td == timedelta(input[2] * 3600 + input[3] * 60 + input[4], input[5]) IN
  IF input[1] < 0 THEN Negated(td) ELSE td

-----------------------------------------------------------------------------
(* The properties of UrlText and Times, of every input                     *)

\* Of a list of addresses the first are fetched, in order, none twice and none
\* left out (ngx_http_graph_module.cpp 505-542).
UrlsInOrder == subject = "urls" => ListTaken(input)
\* A line of the list of plugins is split at its bars, and taken only if it has
\* a name, a library and two functions (PluginSlot.cpp 26-42, 87-100).
FieldsOfLine == subject = "line" => LineSplit(input)
\* The ext parameter is decoded byte by byte (PluginSlot.cpp 44-63).
ExtDecoded == subject = "ext" => ExtRead(input)
\* A duration is read as MySQL prints it and read back as it is written (times.py
\* 34-38, 65-82).
DurationsSurvive == subject = "duration" /\ Len(input) = 5 => DurationSurvives(Duration)
\* A date and a time of day are read from all texts that are written for them
\* (times.py 40-63, 98-126).
DatesSurvive == subject = "date" /\ Len(input) = 7 => DateSurvives(<<"datetime">> \o input)
=============================================================================
