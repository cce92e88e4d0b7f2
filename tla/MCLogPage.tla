------------------------------ MODULE MCLogPage -----------------------------
(* Instances of LogPage for TLC.                                           *)
EXTENDS LogPage

Whole == [letter |-> "E", text |-> TRUE, newline |-> "last"]
Bare == [letter |-> "none", text |-> TRUE, newline |-> "last"]
Opening == [letter |-> "D", text |-> TRUE, newline |-> "no"]
Body == [letter |-> "none", text |-> TRUE, newline |-> "no"]
TwoLines == [letter |-> "none", text |-> TRUE, newline |-> "inside"]
End == [letter |-> "none", text |-> FALSE, newline |-> "last"]

\* Whole lines and single ones without a prefix (printf), a driver's three
\* pieces, and both mixed.
Pieces == [app |-> {Whole, Bare}, wifi |-> {Opening, Body, End}, lwip |-> {Opening, TwoLines, Whole}]
=============================================================================
