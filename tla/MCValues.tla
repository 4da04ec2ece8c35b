------------------------------- MODULE MCValues -------------------------------
(***************************************************************************)
(* Bounded inputs for Values, and an instance of Converters beside them.   *)
(***************************************************************************)
EXTENDS Converters, Values

-----------------------------------------------------------------------------
(* Converters: C inherits from A and B, A and M are registered in places.  *)

MCClasses   == {"A", "B", "M", "C", "D"}
MCAncestors == [A |-> {"A"}, B |-> {"B", "A"}, M |-> {"M"}, C |-> {"C", "B", "A", "M"}, D |-> {"D"}]
MCConvs     == {[none \in {} |-> <<"">>], [A |-> <<"a">>, M |-> <<"m">>],
                [M |-> <<"m">>, ObjectType |-> <<"Thing2Str">>]}

-----------------------------------------------------------------------------
(* Values: each letter stands for a class of characters that the code      *)
(* tells apart.                                                            *)

MCLetters == [urls |-> {"a", "|", "NUL"}, line |-> {"a", "|"}, ext |-> {"%", "4", "f", "+", "-", "g"}]
MCMaxLen  == [urls |-> 7, line |-> 9, ext |-> 6]

Micros      == {0, 1, 10, 500000, 123456, 120000, 999999}
MCDurations == <<{-1, 1}, {0, 1, 23, 24, 25, 838}, {0, 1, 59}, {0, 1, 59}, Micros>>
MCDates     == <<{0, 1, 1900, 2000, 2023, 2024, 9999}, {0, 1, 2, 9, 10, 12}, {0, 1, 10, 28, 29, 30, 31},
                 {0, 9, 23}, {0, 59}, {0, 30}, Micros>>

MCInit == Init /\ (Begin \/ (input = <<>> /\ subject = "converters"))
MCNext == IF subject = "converters" THEN Next /\ UNCHANGED <<input, subject>> ELSE Extend /\ UNCHANGED vars
=============================================================================
