------------------------------ MODULE MCCursors ------------------------------
(* Instances of Cursors for TLC.                                           *)
EXTENDS Cursors, TLC

CONSTANTS c1, c2

Answer(kind, rows, warn, write) == [kind |-> kind, rows |-> rows, warn |-> warn, write |-> write]
Select(n)   == Answer("rows", n, FALSE, FALSE)
Truncated   == Answer("rows", 1, TRUE, FALSE)
Insert      == Answer("ok", 0, FALSE, TRUE)
Cut         == Answer("ok", 0, TRUE, TRUE)
Fails       == Answer("error", 0, FALSE, FALSE)

\* One that uses cursors in every way, one that uses transactions.
MCClients ==
  { [scripts |-> { <<Select(3)>>, <<Truncated>>, <<Cut>>, <<Fails>>,
                   <<Select(1), Truncated>>, <<Truncated, Select(1), Ok>>, <<Select(1), Fails>> },
     batches |-> { <<<<Truncated>>, <<Fails>>>>, <<<<Select(1), Truncated>>, <<Cut>>>> },
     session |-> FALSE, cursors |-> 2, queries |-> 2],
    [scripts |-> { <<Select(1)>>, <<Insert>>, <<Insert, Fails>> },
     batches |-> { <<<<Insert>>, <<Insert, Fails>>>> },
     session |-> TRUE, cursors |-> 1, queries |-> 3] }

MCSymmetry == Permutations(Cursors)
=============================================================================
