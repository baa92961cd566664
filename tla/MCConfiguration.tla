-------------------------- MODULE MCConfiguration --------------------------
(***************************************************************************)
(* Configuration for TLC: every string of at most three characters over a  *)
(* digit, a second digit, zero, the comma, the sign and a letter, the      *)
(* lists of section 8, and the numerals around the largest port.           *)
(***************************************************************************)
EXTENDS Configuration

PortChars == {"4", "3", "0", ",", "+", "x"}

Edges == {<<"4", "4", "3", ",", "8", "4", "4", "3">>,
          <<"4", "4", "3", ",">>,
          <<"6", "5", "5", "3", "5">>,
          <<"6", "5", "5", "3", "6">>,
          <<"0", "6", "5", "5", "3", "5">>,
          <<"+", "6", "5", "5", "3", "5">>,
          <<"9", "9", "9", "9", "9">>,
          <<"6", "5", "5", "3", "5", ",", "0">>,
          <<"6", "5", "5", "3", "6", ",", "0">>,
          <<"-", "1">>, <<" ", "4", "4", "3">>}

MCPortValues == BoundedSeq(PortChars, 3) \cup Edges
MCNameValues == BoundedSeq({"a", ",", " "}, 3)
BothBuilds == BOOLEAN

=============================================================================
