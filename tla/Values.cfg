\* Values (UrlText, Times) and Converters.  A text may end anywhere and the connections
\* and conversions are bounded: the run stops by itself.
CONSTANTS
  Classes <- MCClasses
  Ancestors <- MCAncestors
  Convs <- MCConvs
  MaxConns = 2
  MaxUses = 4
  Letters <- MCLetters
  MaxLen <- MCMaxLen
  Durations <- MCDurations
  Dates <- MCDates

INIT MCInit
NEXT MCNext
CHECK_DEADLOCK FALSE

INVARIANTS
  UrlsInOrder
  FieldsOfLine
  ExtDecoded
  DurationsSurvive
  DatesSurvive
  OwnDecoders
  SameConversion
