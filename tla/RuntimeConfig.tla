--------------------------- MODULE RuntimeConfig ---------------------------
(***************************************************************************)
(* RuntimeConfig: the settings /set and /reset change, kept as the strings *)
(* that were typed and converted each time they are read.                  *)
(***************************************************************************)
EXTENDS Integers, MessageParser

CONSTANTS
  Definitions,  \* key -> [type, default, min, max]
  IntMax        \* largest value of an int

ASSUME RuntimeConfigAssumption ==
  \A key \in DOMAIN Definitions : Definitions[key].type \in {"INT", "BOOL"}

VARIABLE config  \* key -> string

Keys == DOMAIN Definitions
Defaults == [key \in Keys |-> Definitions[key].default]

Digits == [d \in {"0", "1", "2", "3", "4", "5", "6", "7", "8", "9"} |->
             CHOOSE n \in 0 .. 9 : ToString(n) = d]

\* std::stoi: an optional sign and the digits before the first other character,
\* as a set of one number; no number when it throws (no digits, out of range).
stoi(s) ==
  LET sign == s # <<>> /\ Head(s) \in {"-", "+"}
      t == IF sign THEN Tail(s) ELSE s
      stops == {i \in DOMAIN t : t[i] \notin DOMAIN Digits}
      digits == IF stops = {} THEN t ELSE SubSeq(t, 1, Min(stops) - 1)
      n == FoldLeft(LAMBDA m, d : 10 * m + Digits[d], 0, digits)
  IN IF digits = <<>> \/ n > IntMax THEN {} ELSE {IF sign /\ Head(s) = "-" THEN -n ELSE n}

\* Mutated form of validateValue: there is no upper bound.
validateValueNoMax(key, value) ==
  LET def == Definitions[key] IN
  IF def.type = "BOOL" THEN value \in {<<"true">>, <<"false">>, <<"1">>, <<"0">>}
  ELSE \E n \in stoi(value) : n >= def.min
validateValue(key, value) ==
  LET def == Definitions[key] IN
  IF def.type = "BOOL" THEN value \in {<<"true">>, <<"false">>, <<"1">>, <<"0">>}
  ELSE \E n \in stoi(value) : n \in def.min .. def.max

\* The table of initializeDefinitions: a default passes the test of set.
ASSUME DefaultsAssumption ==
  \A key \in Keys : validateValue(key, Defaults[key])

\* Mutated form of set: a key without a definition is stored as it is.
setUndefined(key, value) ==
  /\ key \in Keys => validateValue(key, value)
  /\ config' = (key :> value) @@ config
\* RuntimeConfig::set (an unknown key or a value that is refused changes nothing)
set(key, value) ==
  /\ key \in Keys /\ validateValue(key, value)
  /\ config' = [config EXCEPT ![key] = value]

reset == config' = Defaults

\* getInt as a set of at most one number.
getInt(cfg, key) == stoi(cfg[key])

\* The limit isValidUsername and isValidSubject read, with the constant as the
\* value to fall back on.
Limit(cfg, key) ==
  IF getInt(cfg, key) = {} THEN CHOOSE n \in stoi(Defaults[key]) : TRUE
  ELSE CHOOSE n \in getInt(cfg, key) : TRUE

=============================================================================
