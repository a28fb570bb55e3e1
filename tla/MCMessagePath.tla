--------------------------- MODULE MCMessagePath ---------------------------
(***************************************************************************)
(* An instance of MessagePath for TLC.  Lengths are scaled down: the code  *)
(* has limits of 32 (3 to 100) and 100 (10 to 500) characters.             *)
(***************************************************************************)
EXTENDS MessagePath

MCDefinitions ==
  [MAX_USERNAME_LENGTH |-> [type |-> "INT", default |-> <<"2">>, min |-> 1, max |-> 3],
   MAX_SUBJECT_LENGTH |-> [type |-> "INT", default |-> <<"2">>, min |-> 1, max |-> 3],
   AUTO_STOP_WHEN_NO_CLIENTS |->
     [type |-> "BOOL", default |-> <<"false">>, min |-> 0, max |-> 0]]

MCSymbols ==
  {Delimiter, Newline, Control, Space, "CONNECT", "SEND", "MESSAGE", "Private", "0", "1",
   "all", "SERVER", RePrefix, "ann", "bob", "by", "a"}
MCNames == {<<"ann">>, <<"bob", "by">>}
MCTexts == BoundedSeq({"a", Delimiter, Control}, 2)
MCValues == {<<>>, <<"1">>, <<"3">>, <<"3", "x">>, <<"-", "1">>, <<"9">>, <<"9", "9">>}

\* The loop of Utils::split: find the next delimiter, push what is before it.
SplitLoop(s) ==
  LET Ends(start) == {i \in start..Len(s) : s[i] = Delimiter}
      Tokens[start \in 1..(Len(s) + 1)] ==
        IF Ends(start) = {} THEN <<SubSeq(s, start, Len(s))>>
        ELSE <<SubSeq(s, start, Min(Ends(start)) - 1)>> \o Tokens[Min(Ends(start)) + 1]
  IN IF s = <<>> THEN <<>> ELSE Tokens[1]

\* split gives the tokens of the loop, for every text of up to six symbols.
ASSUME SplitAssumption ==
  \A s \in BoundedSeq({"a", "b", Delimiter}, 6) : split(s) = SplitLoop(s)

=============================================================================
