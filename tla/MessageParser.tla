--------------------------- MODULE MessageParser ---------------------------
(***************************************************************************)
(* Utils::MessageParser and the string functions of Utils.  A string is a  *)
(* sequence of symbols: the characters the functions tell apart, and whole *)
(* words (a command, a name, a digit) where they do not.                   *)
(***************************************************************************)
EXTENDS Naturals, Sequences, FiniteSets, SequencesExt

Delimiter == ";"     \* Constants::MESSAGE_DELIMITER
Newline == "nl"
Control == "ctl"     \* a control character that is neither \n nor \t
Space == " "

CONSTANT Symbols   \* the characters and words that texts consist of
ASSUME SymbolsAssumption == {Delimiter, Newline, Control, Space} \subseteq Symbols

Text == Seq(Symbols)   \* std::string

\* Symbols that stand for letters, digits and '_'.
IsWord(ch) == ch \notin {Delimiter, Newline, Control, Space, "-", "+"}

HasDelimiter(s) == Contains(s, Delimiter)

\* The number of delimiters among the first i symbols.
Upto(s, i) == Cardinality({j \in 1..i : s[j] = Delimiter})
\* The k-th position that Utils::split's find returns, and the end of the string
\* when there is none.
Bound(s, k) ==
  IF k = 0 THEN 0 ELSE 1 + Cardinality({i \in 1..Len(s) : Upto(s, i) < k})

\* Utils::split by a one-character delimiter: the texts between the positions;
\* no tokens of the empty string.
split(s) ==
  IF s = <<>> THEN <<>>
  ELSE [k \in 1..(Upto(s, Len(s)) + 1) |->
          SubSeq(s, Bound(s, k - 1) + 1, Bound(s, k) - 1)]

\* Utils::sanitize
sanitize(s) == [i \in DOMAIN s |-> IF s[i] = Control THEN Space ELSE s[i]]

\* MessageParser::build
build(command, args) ==
  <<command>> \o FlattenSeq([i \in DOMAIN args |-> <<Delimiter>> \o args[i]])
    \o <<Newline>>

\* MessageParser::parse: one trailing newline is dropped; isValid is FALSE for
\* the empty message and for a newline alone.
parse(raw) ==
  LET cleaned == IF raw # <<>> /\ Last(raw) = Newline THEN Front(raw) ELSE raw
      parts == split(cleaned)
  IN IF parts = <<>> THEN [isValid |-> FALSE, command |-> <<>>, arguments |-> <<>>]
     ELSE [isValid |-> TRUE, command |-> Head(parts), arguments |-> Tail(parts)]

=============================================================================
