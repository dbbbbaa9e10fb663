---------------------------- MODULE MCArguments ----------------------------
(* Instances of Arguments for TLC: words of 8 bits, ports of 4 bits and 20 *)
(* microseconds to the second.  Like 1000000, 20 has a factor in common    *)
(* with the width.                                                         *)
EXTENDS Arguments

\* The ends of a port and the numbers beyond them.
SomePorts == {NotANumber, 0 - 1, 0, 9, 15, 16}

\* About the minimum, about the last interval that fits, one that wraps to
\* nothing, the last word, and a negative number.
SomeTimeouts == {NotANumber, 0 - 5, 0, 2, 3, 12, 13, 64, 255}
=============================================================================
