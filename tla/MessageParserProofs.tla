------------------------ MODULE MessageParserProofs ------------------------
(***************************************************************************)
(* What split, build and parse do to a text, for texts of every length:    *)
(* parse takes build's fields apart again as long as none of them holds a  *)
(* delimiter, and gives back fields without one whatever arrives.          *)
(***************************************************************************)
EXTENDS MessageParser, FiniteSetTheorems, SequenceTheorems, TLAPS

\* Texts without a delimiter.
PlainText == {t \in Text : \A i \in 1..Len(t) : t[i] # Delimiter}

\* A symbol by itself is a text.
LEMMA OneSymbol ==
  ASSUME NEW d \in Symbols
  PROVE  <<d>> \in Text /\ Len(<<d>>) = 1 /\ <<d>>[1] = d
<1>1. Len(<<d>>) = 1 /\ <<d>>[1] = d
  OBVIOUS
<1>2. <<d>> \in Seq(Symbols)
  OBVIOUS
<1> QED
  BY <1>1, <1>2 DEF Text

-----------------------------------------------------------------------------
(***************************************************************************)
(* Counting delimiters                                                     *)
(***************************************************************************)
\* The first i symbols hold a natural number of delimiters, no more than any
\* longer prefix, and symbol i adds one when it is a delimiter.
LEMMA UptoFacts ==
  ASSUME NEW s
  PROVE  /\ \A i \in Nat : Upto(s, i) \in Nat
         /\ Upto(s, 0) = 0
         /\ \A i, j \in Nat : i <= j => Upto(s, i) <= Upto(s, j)
         /\ \A i \in Nat \ {0} :
              Upto(s, i) = Upto(s, i - 1) + (IF s[i] = Delimiter THEN 1 ELSE 0)
<1> DEFINE D(i) == {j \in 1..i : s[j] = Delimiter}
<1>1. ASSUME NEW i \in Nat PROVE IsFiniteSet(D(i)) /\ Cardinality(D(i)) \in Nat
  <2>1. IsFiniteSet(1..i)
    BY FS_Interval
  <2>2. IsFiniteSet(D(i))
    BY <2>1, FS_Subset
  <2> QED
    BY <2>2, FS_CardinalityType
<1>2. Upto(s, 0) = 0
  <2>1. D(0) = {}
    OBVIOUS
  <2> QED
    BY <2>1, FS_EmptySet DEF Upto
<1>3. ASSUME NEW i \in Nat, NEW j \in Nat, i <= j PROVE Upto(s, i) <= Upto(s, j)
  <2>1. D(i) \subseteq D(j)
    BY <1>3
  <2> QED
    BY <2>1, <1>1, FS_Subset DEF Upto
<1>4. ASSUME NEW i \in Nat \ {0}
      PROVE  Upto(s, i) = Upto(s, i - 1) + (IF s[i] = Delimiter THEN 1 ELSE 0)
  <2>0. i - 1 \in Nat /\ i \notin D(i - 1)
    OBVIOUS
  <2>1. CASE s[i] = Delimiter
    <3>1. D(i) = D(i - 1) \cup {i}
      BY <2>1
    <3>2. Cardinality(D(i - 1) \cup {i}) = Cardinality(D(i - 1)) + 1
      BY <1>1, <2>0, FS_AddElement
    <3> QED
      BY <3>1, <3>2, <2>1 DEF Upto
  <2>2. CASE s[i] # Delimiter
    <3>1. D(i) = D(i - 1)
      BY <2>2
    <3>2. Cardinality(D(i - 1)) \in Nat
      BY <2>0, <1>1
    <3>3. Upto(s, i) = Cardinality(D(i)) /\ Upto(s, i - 1) = Cardinality(D(i - 1))
      BY DEF Upto
    <3> HIDE DEF D
    <3> QED
      BY <3>1, <3>2, <3>3, <2>2
  <2> QED
    BY <2>1, <2>2
<1> QED
  BY <1>1, <1>2, <1>3, <1>4 DEF Upto

\* A longer prefix holds as many delimiters or more.
LEMMA UptoGrows ==
  ASSUME NEW s, NEW i \in Nat, NEW j \in Nat, i <= j
  PROVE  Upto(s, i) \in Nat /\ Upto(s, j) \in Nat /\ Upto(s, i) <= Upto(s, j)
BY UptoFacts

\* A set of positions that holds with a position all smaller ones is an initial
\* segment, and its cardinality is the last of them.
LEMMA InitialSegment ==
  ASSUME NEW n \in Nat, NEW T \in SUBSET (1..n),
         \A i \in T : \A j \in 1..i : j \in T
  PROVE  /\ Cardinality(T) \in 0..n
         /\ \A i \in 1..n : i \in T <=> i <= Cardinality(T)
<1>1. IsFiniteSet(1..n) /\ Cardinality(1..n) = n
  BY FS_Interval
<1>2. IsFiniteSet(T) /\ Cardinality(T) \in Nat /\ Cardinality(T) <= n
  BY <1>1, FS_Subset, FS_CardinalityType
<1>3. ASSUME NEW i \in T PROVE i <= Cardinality(T)
  <2>1. 1..i \subseteq T
    OBVIOUS
  <2>2. Cardinality(1..i) = i
    BY FS_Interval
  <2> QED
    BY <2>1, <2>2, <1>2, FS_Subset
<1>4. ASSUME NEW i \in 1..n, i \notin T PROVE Cardinality(T) < i
  <2>1. T \subseteq 1..(i - 1)
    <3> SUFFICES ASSUME NEW t \in T, t \notin 1..(i - 1) PROVE FALSE
      OBVIOUS
    <3>1. t \in 1..n /\ i \in 1..t
      OBVIOUS
    <3> QED
      BY <3>1, <1>4
  <2>2. IsFiniteSet(1..(i - 1)) /\ Cardinality(1..(i - 1)) = i - 1
    BY FS_Interval
  <2>3. Cardinality(T) <= i - 1
    BY <2>1, <2>2, FS_Subset
  <2> QED
    BY <2>3, <1>2
<1> QED
  BY <1>2, <1>3, <1>4

\* Bound(s, k) is where the find of split stops for the k-th time: exactly the
\* positions before it have fewer than k delimiters up to them.
LEMMA BoundFacts ==
  ASSUME NEW s \in Text, NEW k \in Nat
  PROVE  /\ Bound(s, k) \in 0..(Len(s) + 1)
         /\ k # 0 => Bound(s, k) # 0
         /\ \A i \in 1..Len(s) : i < Bound(s, k) <=> Upto(s, i) < k
<1> DEFINE T == {i \in 1..Len(s) : Upto(s, i) < k}
<1>0. Len(s) \in Nat
  BY DEF Text
<1>1. \A i \in T : \A j \in 1..i : j \in T
  <2> SUFFICES ASSUME NEW i \in T, NEW j \in 1..i PROVE Upto(s, j) < k /\ j \in 1..Len(s)
    OBVIOUS
  <2>0. i \in Nat /\ j \in Nat /\ j <= i
    BY <1>0
  <2>1. Upto(s, j) <= Upto(s, i) /\ Upto(s, j) \in Nat /\ Upto(s, i) \in Nat
    <3> HIDE DEF T
    <3> QED
      BY <2>0, UptoGrows
  <2> QED
    BY <2>1, <1>0
<1>2. /\ Cardinality(T) \in 0..Len(s)
      /\ \A i \in 1..Len(s) : i \in T <=> i <= Cardinality(T)
  <2> HIDE DEF T
  <2>1. T \in SUBSET (1..Len(s))
    BY DEF T
  <2> QED
    BY <1>0, <1>1, <2>1, InitialSegment
<1>3. CASE k = 0
  <2>1. Bound(s, k) = 0
    BY <1>3 DEF Bound
  <2>2. \A i \in 1..Len(s) : ~(Upto(s, i) < k)
    BY <1>0, <1>3, UptoFacts
  <2> QED
    BY <2>1, <2>2, <1>0, <1>3
<1>4. CASE k # 0
  <2>1. Bound(s, k) = 1 + Cardinality(T)
    BY <1>4 DEF Bound
  <2>2. \A i \in 1..Len(s) : i \in T <=> Upto(s, i) < k
    OBVIOUS
  <2> HIDE DEF T
  <2> QED
    BY <2>1, <2>2, <1>2, <1>0, <1>4
<1> QED
  BY <1>3, <1>4

\* When the whole text has fewer than k delimiters, the k-th find returns its end.
LEMMA BoundAtEnd ==
  ASSUME NEW s \in Text, NEW k \in Nat \ {0}, \A i \in 1..Len(s) : Upto(s, i) < k
  PROVE  Bound(s, k) = Len(s) + 1
<1>1. Len(s) \in Nat
  BY DEF Text
<1>2. {i \in 1..Len(s) : Upto(s, i) < k} = 1..Len(s)
  OBVIOUS
<1>3. Cardinality(1..Len(s)) = Len(s)
  <2>1. \A n \in Nat : Cardinality(1..n) = n
    BY FS_Interval
  <2> QED
    BY <2>1, <1>1
<1>4. Bound(s, k) = 1 + Cardinality({i \in 1..Len(s) : Upto(s, i) < k})
  BY DEF Bound
<1>5. Bound(s, k) = 1 + Len(s)
  BY <1>2, <1>3, <1>4, Zenon
<1> QED
  BY <1>1, <1>5

-----------------------------------------------------------------------------
(***************************************************************************)
(* split                                                                   *)
(***************************************************************************)
\* The tokens of a text are texts, one more than the text has delimiters.
LEMMA SplitShape ==
  ASSUME NEW s \in Text, s # <<>>
  PROVE  /\ split(s) \in Seq(Text)
         /\ Len(split(s)) = Upto(s, Len(s)) + 1
         /\ \A k \in 1..(Upto(s, Len(s)) + 1) :
              split(s)[k] = SubSeq(s, Bound(s, k - 1) + 1, Bound(s, k) - 1)
<1> DEFINE n == Upto(s, Len(s)) + 1
           Token(k) == SubSeq(s, Bound(s, k - 1) + 1, Bound(s, k) - 1)
<1>0. Len(s) \in Nat
  BY DEF Text
<1>1. Len(s) \in Nat /\ n \in Nat
  <2>1. Upto(s, Len(s)) \in Nat
    BY <1>0, UptoFacts
  <2> QED
    BY <2>1, <1>0
<1>2. ASSUME NEW k \in 1..n PROVE Token(k) \in Text
  <2>1. k \in Nat /\ k - 1 \in Nat
    BY <1>1
  <2>2. Bound(s, k) \in 0..(Len(s) + 1) /\ Bound(s, k - 1) \in 0..(Len(s) + 1)
    BY <2>1, BoundFacts
  <2>3. PICK a, b : a = Bound(s, k - 1) + 1 /\ b = Bound(s, k) - 1
    OBVIOUS
  <2>4. a \in Int /\ b \in Int /\ a >= 1 /\ b <= Len(s)
    BY <2>2, <2>3, <1>1
  <2>5. \A i \in a..b : s[i] \in Symbols
    BY <2>4, <1>1, ElementOfSeq DEF Text
  <2>6. SubSeq(s, a, b) \in Seq(Symbols)
    BY <2>4, <2>5, SubSeqProperties
  <2> QED
    BY <2>6, <2>3 DEF Text
<1>3. split(s) = [k \in 1..n |-> Token(k)]
  BY DEF split
<1> HIDE DEF n, Token
<1>4. split(s) \in Seq(Text) /\ Len(split(s)) = n /\ \A k \in 1..n : split(s)[k] = Token(k)
  BY <1>1, <1>2, <1>3
<1> QED
  BY <1>4 DEF n, Token

\* No token holds a delimiter.
LEMMA TokensPlain ==
  ASSUME NEW s \in Text, s # <<>>, NEW k \in 1..Len(split(s))
  PROVE  split(s)[k] \in PlainText
<1>0. Len(s) \in Nat
  BY DEF Text
<1>1. Len(s) \in Nat /\ Upto(s, Len(s)) \in Nat
  BY <1>0, UptoFacts
<1>2. k \in 1..(Upto(s, Len(s)) + 1) /\ k \in Nat /\ k - 1 \in Nat
  BY <1>1, SplitShape
<1>3. PICK a, b : a = Bound(s, k - 1) /\ b = Bound(s, k)
  OBVIOUS
<1>4. /\ a \in 0..(Len(s) + 1) /\ b \in 0..(Len(s) + 1)
      /\ \A i \in 1..Len(s) : i < b <=> Upto(s, i) < k
      /\ \A i \in 1..Len(s) : i < a <=> Upto(s, i) < k - 1
  BY <1>2, <1>3, BoundFacts
<1>5. split(s)[k] \in Text /\ split(s)[k] = SubSeq(s, a + 1, b - 1)
  <2>1. split(s) \in Seq(Text)
    BY SplitShape
  <2>2. split(s)[k] \in Text
    BY <2>1, ElementOfSeq
  <2> QED
    BY <2>2, <1>2, <1>3, SplitShape
<1>6. ASSUME NEW i \in Nat, a < i, i < b PROVE s[i] # Delimiter
  <2>1. i \in 1..Len(s) /\ i - 1 \in Nat
    BY <1>4, <1>6, <1>1
  <2>2. Upto(s, i) < k /\ Upto(s, i) >= k - 1 /\ Upto(s, i) \in Nat
    <3>1. Upto(s, i) < k /\ ~(Upto(s, i) < k - 1)
      BY <2>1, <1>4, <1>6, <1>1
    <3>2. Upto(s, i) \in Nat
      BY UptoFacts
    <3> QED
      BY <3>1, <3>2, <1>2
  <2>3. Upto(s, i - 1) \in Nat /\ Upto(s, i - 1) >= k - 1
    <3>1. Upto(s, i - 1) \in Nat
      BY <2>1, UptoFacts
    <3>2. CASE i - 1 = 0
      <4>1. a = 0
        BY <3>2, <1>6, <1>4, <1>1
      <4>2. k - 1 = 0
        BY <4>1, <1>2, <1>3, BoundFacts
      <4> QED
        BY <4>2, <3>1
    <3>3. CASE i - 1 # 0
      <4>1. i - 1 \in 1..Len(s) /\ ~(i - 1 < a)
        BY <3>3, <2>1, <1>6, <1>4, <1>1
      <4>2. ~(Upto(s, i - 1) < k - 1)
        BY <4>1, <1>4
      <4> QED
        BY <4>2, <3>1, <1>2
    <3> QED
      BY <3>2, <3>3
  <2>4. Upto(s, i) = Upto(s, i - 1) + (IF s[i] = Delimiter THEN 1 ELSE 0)
    BY <2>1, UptoFacts
  <2> QED
    BY <2>2, <2>3, <2>4, <1>2
<1>7. ASSUME NEW j \in 1..Len(split(s)[k]) PROVE split(s)[k][j] # Delimiter
  <2>1. \A i \in (a + 1)..(b - 1) : s[i] \in Symbols
    <3>1. \A i \in (a + 1)..(b - 1) : i \in 1..Len(s)
      BY <1>4, <1>1
    <3> QED
      BY <3>1, ElementOfSeq DEF Text
  <2>2. a + 1 \in Int /\ b - 1 \in Int
    BY <1>4, <1>1
  <2>3. PICK m, n : m = a + 1 /\ n = b - 1
    OBVIOUS
  <2>4. /\ Len(SubSeq(s, m, n)) = IF m <= n THEN n - m + 1 ELSE 0
        /\ \A i \in 1..(n - m + 1) : SubSeq(s, m, n)[i] = s[m + i - 1]
    BY <2>1, <2>2, <2>3, SubSeqProperties
  <2>5. j \in 1..(n - m + 1) /\ split(s)[k][j] = s[m + j - 1]
    BY <2>4, <2>3, <1>5, <2>2
  <2>6. m + j - 1 \in Nat /\ a < m + j - 1 /\ m + j - 1 < b
    BY <2>5, <2>3, <1>4, <1>1
  <2> QED
    BY <2>5, <2>6, <1>6
<1> QED
  BY <1>5, <1>7 DEF PlainText

\* A text that is not empty and holds no delimiter is its only token.
LEMMA SplitPlain ==
  ASSUME NEW t \in PlainText, t # <<>>
  PROVE  split(t) = <<t>>
<1>0. t \in Text /\ Len(t) \in Nat /\ Len(t) # 0
  BY DEF PlainText, Text
<1>1. ASSUME NEW i \in 0..Len(t) PROVE Upto(t, i) = 0
  <2>1. {j \in 1..i : t[j] = Delimiter} = {}
    BY <1>0 DEF PlainText
  <2> QED
    BY <2>1, FS_EmptySet DEF Upto
<1>2. Upto(t, Len(t)) = 0
  BY <1>0, <1>1
<1>3. Bound(t, 0) = 0
  BY DEF Bound
<1>4. Bound(t, 1) = Len(t) + 1
  <2>1. \A i \in 1..Len(t) : Upto(t, i) < 1
    BY <1>0, <1>1
  <2> QED
    BY <2>1, <1>0, BoundAtEnd
<1>5. Len(split(t)) = 1 /\ split(t) \in Seq(Text)
  <2>1. Len(split(t)) = Upto(t, Len(t)) + 1 /\ split(t) \in Seq(Text)
    BY <1>0, SplitShape
  <2> QED
    BY <2>1, <1>2
<1>6. split(t)[1] = t
  <2>1. split(t)[1] = SubSeq(t, Bound(t, 1 - 1) + 1, Bound(t, 1) - 1)
    BY <1>0, <1>2, SplitShape
  <2>2. split(t)[1] = SubSeq(t, 1, Len(t))
    BY <2>1, <1>3, <1>4, <1>0
  <2> QED
    BY <2>2, <1>0, SubSeqFull DEF Text
<1> QED
  BY <1>5, <1>6

\* Texts that agree up to position n have the same subsequences up to there.
LEMMA SubSeqSame ==
  ASSUME NEW t \in Text, NEW u \in Text, Len(t) <= Len(u),
         \A i \in 1..Len(t) : u[i] = t[i],
         NEW m \in 1..(Len(t) + 2), NEW n \in -1..Len(t)
  PROVE  SubSeq(u, m, n) = SubSeq(t, m, n)
<1>1. Len(t) \in Nat /\ Len(u) \in Nat /\ m \in Int /\ n \in Int
  BY DEF Text
<1>2. \A i \in m..n : i \in 1..Len(t)
  BY <1>1
<1>3. \A i \in m..n : t[i] \in Symbols /\ u[i] = t[i]
  BY <1>2, ElementOfSeq DEF Text
<1>4. /\ SubSeq(t, m, n) \in Seq(Symbols)
      /\ Len(SubSeq(t, m, n)) = IF m <= n THEN n - m + 1 ELSE 0
      /\ \A i \in 1..(n - m + 1) : SubSeq(t, m, n)[i] = t[m + i - 1]
  BY <1>1, <1>3, SubSeqProperties
<1>5. /\ SubSeq(u, m, n) \in Seq(Symbols)
      /\ Len(SubSeq(u, m, n)) = IF m <= n THEN n - m + 1 ELSE 0
      /\ \A i \in 1..(n - m + 1) : SubSeq(u, m, n)[i] = u[m + i - 1]
  BY <1>1, <1>3, SubSeqProperties
<1>6. ASSUME NEW i \in 1..Len(SubSeq(u, m, n)) PROVE SubSeq(u, m, n)[i] = SubSeq(t, m, n)[i]
  <2>1. i \in 1..(n - m + 1) /\ m + i - 1 \in m..n
    BY <1>5, <1>1
  <2> QED
    BY <2>1, <1>3, <1>4, <1>5
<1> QED
  BY <1>4, <1>5, <1>6, SeqEqual

\* A delimiter and a text without one, after any text, are one token more.
LEMMA SplitAppend ==
  ASSUME NEW t \in Text, t # <<>>, NEW a \in PlainText
  PROVE  LET u == t \o (<<Delimiter>> \o a) IN
         /\ u \in Text /\ u # <<>>
         /\ split(u) \in Seq(Text) /\ Len(split(u)) = Len(split(t)) + 1
         /\ \A k \in 1..Len(split(t)) : split(u)[k] = split(t)[k]
         /\ split(u)[Len(split(t)) + 1] = a
<1> DEFINE d == <<Delimiter>> \o a
           u == t \o d
           c == Upto(t, Len(t))
<1>1. a \in Text /\ Len(a) \in Nat /\ Len(t) \in Nat /\ Len(t) # 0 /\ c \in Nat
  <2>1. a \in Text /\ Len(a) \in Nat /\ Len(t) \in Nat /\ Len(t) # 0
    BY DEF PlainText, Text
  <2> QED
    BY <2>1, UptoFacts
<1>2. /\ d \in Text /\ Len(d) = Len(a) + 1 /\ d[1] = Delimiter
      /\ \A i \in 2..(Len(a) + 1) : d[i] = a[i - 1]
  <2>1. <<Delimiter>> \in Text /\ Len(<<Delimiter>>) = 1 /\ <<Delimiter>>[1] = Delimiter
    BY SymbolsAssumption, OneSymbol
  <2> QED
    BY <2>1, <1>1, ConcatProperties DEF Text
<1>3. /\ u \in Text /\ Len(u) = Len(t) + 1 + Len(a) /\ u # <<>>
      /\ \A i \in 1..Len(t) : u[i] = t[i]
      /\ u[Len(t) + 1] = Delimiter
      /\ \A i \in (Len(t) + 2)..Len(u) : u[i] = a[i - Len(t) - 1]
  <2> HIDE DEF d
  <2>1. /\ u \in Text /\ Len(u) = Len(t) + Len(d)
        /\ \A i \in 1..(Len(t) + Len(d)) : u[i] = IF i <= Len(t) THEN t[i] ELSE d[i - Len(t)]
    BY <1>1, <1>2, ConcatProperties DEF Text
  <2> HIDE DEF u
  <2>2. Len(u) = Len(t) + 1 + Len(a)
    BY <2>1, <1>2, <1>1
  <2>3. \A i \in 1..Len(t) : u[i] = t[i]
    BY <2>1, <1>2, <1>1
  <2>4. u[Len(t) + 1] = Delimiter
    <3>1. u[Len(t) + 1] = d[Len(t) + 1 - Len(t)]
      BY <2>1, <1>2, <1>1
    <3> QED
      BY <3>1, <1>1, <1>2
  <2>5. ASSUME NEW i \in (Len(t) + 2)..Len(u) PROVE u[i] = a[i - Len(t) - 1]
    <3>1. u[i] = d[i - Len(t)]
      BY <2>1, <2>2, <1>2, <1>1
    <3>2. i - Len(t) \in 2..(Len(a) + 1)
      BY <2>2, <1>1
    <3> QED
      BY <3>1, <3>2, <1>2
  <2>6. u # <<>>
    BY <2>2, <1>1, <2>1 DEF Text
  <2> QED
    BY <2>1, <2>2, <2>3, <2>4, <2>5, <2>6
<1> HIDE DEF u, d
<1>4. ASSUME NEW i \in 1..Len(t) PROVE Upto(u, i) = Upto(t, i)
  <2>1. {j \in 1..i : u[j] = Delimiter} = {j \in 1..i : t[j] = Delimiter}
    BY <1>1, <1>3
  <2> QED
    BY <2>1 DEF Upto
<1>5. Upto(u, Len(t) + 1) = c + 1
  <2>1. PICK i \in Nat \ {0} : i = Len(t) + 1
    BY <1>1
  <2>2. Upto(u, i) = Upto(u, i - 1) + (IF u[i] = Delimiter THEN 1 ELSE 0)
    BY UptoFacts
  <2>3. i - 1 = Len(t) /\ i - 1 \in 1..Len(t) /\ u[i] = Delimiter
    BY <2>1, <1>1, <1>3
  <2>4. Upto(u, i - 1) = c
    BY <2>3, <1>4
  <2> QED
    BY <2>1, <2>2, <2>3, <2>4
<1>6. ASSUME NEW i \in (Len(t) + 1)..Len(u) PROVE Upto(u, i) = c + 1
  <2>1. {j \in 1..i : u[j] = Delimiter} = {j \in 1..(Len(t) + 1) : u[j] = Delimiter}
    <3> SUFFICES ASSUME NEW j \in 1..i, u[j] = Delimiter PROVE j \in 1..(Len(t) + 1)
      BY <1>1, <1>3
    <3>1. CASE j \in (Len(t) + 2)..Len(u)
      <4>1. j - Len(t) - 1 \in 1..Len(a) /\ u[j] = a[j - Len(t) - 1]
        BY <3>1, <1>1, <1>3
      <4>2. a[j - Len(t) - 1] # Delimiter
        BY <4>1 DEF PlainText
      <4> QED
        BY <4>1, <4>2
    <3>2. CASE j \notin (Len(t) + 2)..Len(u)
      BY <3>2, <1>1, <1>3
    <3> QED
      BY <3>1, <3>2
  <2> QED
    BY <2>1, <1>5 DEF Upto
<1>7. ASSUME NEW k \in 0..(c + 1) PROVE Bound(u, k) = Bound(t, k)
  <2>1. ASSUME NEW i \in 1..Len(u)
        PROVE  Upto(u, i) < k <=> i \in 1..Len(t) /\ Upto(t, i) < k
    <3>1. CASE i \in 1..Len(t)
      BY <3>1, <1>4
    <3>2. CASE i \notin 1..Len(t)
      <4>1. Upto(u, i) = c + 1
        BY <3>2, <1>1, <1>3, <1>6
      <4> QED
        BY <4>1, <3>2, <1>1
    <3> QED
      BY <3>1, <3>2
  <2>2. 1..Len(t) \subseteq 1..Len(u)
    BY <1>1, <1>3
  <2>3. {i \in 1..Len(u) : Upto(u, i) < k} = {i \in 1..Len(t) : Upto(t, i) < k}
    BY <2>1, <2>2
  <2> QED
    BY <2>3 DEF Bound
<1>8. Bound(t, c + 1) = Len(t) + 1
  <2>1. ASSUME NEW i \in 1..Len(t) PROVE Upto(t, i) < c + 1
    <3>1. i \in Nat /\ Len(t) \in Nat /\ i <= Len(t)
      BY <1>1
    <3>2. Upto(t, i) <= Upto(t, Len(t)) /\ Upto(t, i) \in Nat
      BY <3>1, UptoGrows
    <3> QED
      BY <3>2, <1>1
  <2> HIDE DEF c
  <2> QED
    BY <2>1, <1>1, BoundAtEnd
<1>9. Bound(u, c + 2) = Len(u) + 1
  <2>1. ASSUME NEW i \in 1..Len(u) PROVE Upto(u, i) < c + 2
    <3>1. CASE i \in 1..Len(t)
      <4>1. i \in Nat /\ Len(t) \in Nat /\ i <= Len(t)
        BY <3>1, <1>1
      <4>2. Upto(t, i) <= Upto(t, Len(t)) /\ Upto(t, i) \in Nat
        BY <4>1, UptoGrows
      <4> QED
        BY <3>1, <4>2, <1>1, <1>4
    <3>2. CASE i \notin 1..Len(t)
      <4>1. Upto(u, i) = c + 1
        BY <3>2, <1>1, <1>3, <1>6
      <4> QED
        BY <4>1, <1>1
    <3> QED
      BY <3>1, <3>2
  <2> HIDE DEF c
  <2>2. PICK k \in Nat \ {0} : k = c + 2
    BY <1>1
  <2> QED
    BY <2>1, <2>2, <1>3, BoundAtEnd
<1>10. Upto(u, Len(u)) = c + 1
  BY <1>6, <1>1, <1>3
<1>11. /\ split(t) \in Seq(Text) /\ Len(split(t)) = c + 1
       /\ \A k \in 1..(c + 1) : split(t)[k] = SubSeq(t, Bound(t, k - 1) + 1, Bound(t, k) - 1)
  BY SplitShape
<1>12. /\ split(u) \in Seq(Text) /\ Len(split(u)) = c + 2
       /\ \A k \in 1..(c + 2) : split(u)[k] = SubSeq(u, Bound(u, k - 1) + 1, Bound(u, k) - 1)
  <2>1. c + 1 + 1 = c + 2
    BY <1>1
  <2> QED
    BY <2>1, <1>3, <1>10, SplitShape
<1> HIDE DEF c
<1>13. ASSUME NEW k \in 1..(c + 1) PROVE split(u)[k] = split(t)[k]
  <2>1. PICK m, n : m = Bound(t, k - 1) + 1 /\ n = Bound(t, k) - 1
    OBVIOUS
  <2>2. split(t)[k] = SubSeq(t, m, n)
    BY <1>11, <2>1
  <2>3. split(u)[k] = SubSeq(u, m, n)
    <3>1. k - 1 \in 0..(c + 1) /\ k \in 0..(c + 1) /\ k \in 1..(c + 2)
      BY <1>1
    <3>2. Bound(u, k - 1) = Bound(t, k - 1) /\ Bound(u, k) = Bound(t, k)
      BY <3>1, <1>7
    <3> QED
      BY <3>1, <3>2, <1>12, <2>1
  <2>4. m \in 1..(Len(t) + 2) /\ n \in -1..Len(t)
    <3>1. k \in Nat /\ k - 1 \in Nat
      BY <1>1
    <3>2. Bound(t, k - 1) \in 0..(Len(t) + 1) /\ Bound(t, k) \in 0..(Len(t) + 1)
      BY <3>1, BoundFacts
    <3> QED
      BY <3>2, <2>1, <1>1
  <2>5. SubSeq(u, m, n) = SubSeq(t, m, n)
    <3>1. Len(t) <= Len(u)
      BY <1>1, <1>3
    <3> QED
      BY <3>1, <2>4, <1>3, SubSeqSame
  <2> QED
    BY <2>2, <2>3, <2>5
<1>14. split(u)[c + 2] = a
  <2>1. split(u)[c + 2] = SubSeq(u, Len(t) + 2, Len(u))
    <3>1. PICK k \in 1..(c + 2) : k = c + 2
      BY <1>1
    <3>2. k - 1 = c + 1 /\ c + 1 \in 0..(c + 1)
      BY <3>1, <1>1
    <3>3. Bound(u, k - 1) = Len(t) + 1
      BY <3>2, <1>7, <1>8
    <3>4. split(u)[k] = SubSeq(u, Bound(u, k - 1) + 1, Bound(u, k) - 1)
      BY <1>12
    <3>5. Bound(u, k - 1) + 1 = Len(t) + 2 /\ Bound(u, k) - 1 = Len(u)
      BY <3>1, <3>3, <1>9, <1>1, <1>3
    <3> QED
      BY <3>1, <3>4, <3>5
  <2>2. PICK m, n : m = Len(t) + 2 /\ n = Len(u)
    OBVIOUS
  <2>3. m \in Int /\ n \in Int /\ m >= 1 /\ n - m + 1 = Len(a)
    BY <2>2, <1>1, <1>3
  <2>4. \A i \in m..n : u[i] \in Symbols
    BY <2>2, <2>3, <1>3, <1>1, ElementOfSeq DEF Text
  <2>5. /\ SubSeq(u, m, n) \in Seq(Symbols)
        /\ Len(SubSeq(u, m, n)) = IF m <= n THEN n - m + 1 ELSE 0
        /\ \A i \in 1..(n - m + 1) : SubSeq(u, m, n)[i] = u[m + i - 1]
    BY <2>3, <2>4, SubSeqProperties
  <2>6. Len(SubSeq(u, m, n)) = Len(a)
    BY <2>3, <2>5, <1>1
  <2>7. ASSUME NEW i \in 1..Len(a) PROVE SubSeq(u, m, n)[i] = a[i]
    <3>1. PICK j : j = m + i - 1
      OBVIOUS
    <3>2. j \in (Len(t) + 2)..Len(u) /\ j - Len(t) - 1 = i
      BY <3>1, <2>2, <1>1, <1>3
    <3>3. SubSeq(u, m, n)[i] = u[j]
      BY <3>1, <2>3, <2>5
    <3>4. u[j] = a[j - Len(t) - 1]
      BY <3>2, <1>3
    <3> QED
      BY <3>2, <3>3, <3>4
  <2>8. SubSeq(u, m, n) = a
    BY <2>5, <2>6, <2>7, <1>1, SeqEqual DEF Text
  <2> QED
    BY <2>1, <2>2, <2>8
<1> QED
  BY <1>1, <1>3, <1>11, <1>12, <1>13, <1>14 DEF u, d

\* split is the loop of Utils::split, for a text of any length: the k-th position
\* is where find(delimiter, start) stops, the first delimiter behind the previous
\* one; when there is none it is the end of the text, and the tokens end with it.
THEOREM SplitIsTheLoop ==
  ASSUME NEW s \in Text, s # <<>>, NEW k \in 1..Len(split(s))
  PROVE  /\ Bound(s, k - 1) < Bound(s, k)
         /\ split(s)[k] = SubSeq(s, Bound(s, k - 1) + 1, Bound(s, k) - 1)
         /\ \A i \in (Bound(s, k - 1) + 1)..(Bound(s, k) - 1) : s[i] # Delimiter
         /\ IF k = Len(split(s)) THEN Bound(s, k) = Len(s) + 1
            ELSE Bound(s, k) <= Len(s) /\ s[Bound(s, k)] = Delimiter
<1> DEFINE c == Upto(s, Len(s))
<1>0. Len(s) \in Nat
  BY DEF Text
<1>1. c \in Nat
  BY <1>0, UptoFacts
<1>2. Len(split(s)) = c + 1
  BY SplitShape
<1> HIDE DEF c
<1>3. k \in Nat \ {0} /\ k - 1 \in Nat /\ k <= c + 1
  BY <1>1, <1>2
<1>4. PICK a, b : a = Bound(s, k - 1) /\ b = Bound(s, k)
  OBVIOUS
<1>5. /\ a \in 0..(Len(s) + 1) /\ b \in 1..(Len(s) + 1)
      /\ \A i \in 1..Len(s) : i < a <=> Upto(s, i) < k - 1
      /\ \A i \in 1..Len(s) : i < b <=> Upto(s, i) < k
  <2>1. /\ a \in 0..(Len(s) + 1)
        /\ \A i \in 1..Len(s) : i < a <=> Upto(s, i) < k - 1
    BY <1>3, <1>4, BoundFacts
  <2>2. /\ b \in 0..(Len(s) + 1) /\ b # 0
        /\ \A i \in 1..Len(s) : i < b <=> Upto(s, i) < k
    BY <1>3, <1>4, BoundFacts
  <2> QED
    BY <2>1, <2>2, <1>0
<1>6. split(s)[k] = SubSeq(s, a + 1, b - 1)
  BY <1>1, <1>2, <1>4, SplitShape DEF c
<1>7. \A i \in (a + 1)..(b - 1) : s[i] # Delimiter
  <2> SUFFICES ASSUME NEW i \in (a + 1)..(b - 1) PROVE s[i] # Delimiter
    OBVIOUS
  <2>1. i \in 1..Len(s) /\ i - a \in 1..(b - 1 - a)
    BY <1>0, <1>5
  <2>2. /\ split(s)[k] \in PlainText
        /\ Len(split(s)[k]) = b - 1 - a /\ split(s)[k][i - a] = s[i]
    <3>1. split(s)[k] \in PlainText
      BY TokensPlain
    <3>2. PICK m, n : m = a + 1 /\ n = b - 1
      OBVIOUS
    <3>3. m \in Int /\ n \in Int /\ m <= n /\ m \in Nat \ {0} /\ n <= Len(s)
      BY <3>2, <1>0, <1>5, <2>1
    <3>4. \A j \in m..n : s[j] \in Symbols
      BY <3>3, <1>0, ElementOfSeq DEF Text
    <3>5. /\ Len(SubSeq(s, m, n)) = IF m <= n THEN n - m + 1 ELSE 0
          /\ \A j \in 1..(n - m + 1) : SubSeq(s, m, n)[j] = s[m + j - 1]
      BY <3>3, <3>4, SubSeqProperties
    <3>6. PICK j : j = i - a
      OBVIOUS
    <3>7. j \in 1..(n - m + 1) /\ m + j - 1 = i /\ n - m + 1 = b - 1 - a
      BY <3>2, <3>6, <2>1, <1>5
    <3> QED
      BY <3>1, <3>2, <3>3, <3>5, <3>6, <3>7, <1>6
  <2> QED
    BY <2>1, <2>2 DEF PlainText
<1>8. ASSUME NEW i \in 1..Len(s), Upto(s, i) >= k
      PROVE  \E j \in 1..i : /\ b = j /\ s[j] = Delimiter /\ a < j
  <2>1. b \in 1..Len(s) /\ b <= i
    <3>1. ~(Upto(s, i) < k)
      <4>1. i \in Nat
        BY <1>0
      <4>2. Upto(s, i) \in Nat
        BY <4>1, UptoFacts
      <4> QED
        BY <4>2, <1>8, <1>3
    <3>2. ~(i < b)
      BY <3>1, <1>5
    <3> QED
      BY <3>2, <1>0, <1>5
  <2>2. Upto(s, b) >= k /\ Upto(s, b) \in Nat /\ b - 1 \in Nat
    <3>1. ~(Upto(s, b) < k)
      BY <2>1, <1>5
    <3>2. Upto(s, b) \in Nat
      BY <2>1, UptoFacts
    <3> QED
      BY <3>1, <3>2, <1>3, <2>1
  <2>3. Upto(s, b - 1) < k /\ Upto(s, b - 1) \in Nat
    <3>1. Upto(s, b - 1) \in Nat
      BY <2>2, UptoFacts
    <3>2. CASE b - 1 = 0
      BY <3>1, <3>2, <1>3, UptoFacts
    <3>3. CASE b - 1 # 0
      <4>1. b - 1 \in 1..Len(s) /\ b - 1 < b
        BY <3>3, <2>1, <1>0
      <4> QED
        BY <3>1, <4>1, <1>5
    <3> QED
      BY <3>2, <3>3
  <2>4. Upto(s, b) = Upto(s, b - 1) + (IF s[b] = Delimiter THEN 1 ELSE 0)
    BY <2>1, UptoFacts
  <2>5. s[b] = Delimiter /\ Upto(s, b - 1) >= k - 1
    BY <2>2, <2>3, <2>4, <1>3
  <2>6. a < b
    <3>1. CASE b - 1 = 0
      <4>1. k - 1 = 0
        BY <3>1, <2>5, <2>3, <1>3, UptoFacts
      <4>2. a = 0
        BY <4>1, <1>4 DEF Bound
      <4> QED
        BY <4>2, <2>1
    <3>2. CASE b - 1 # 0
      <4>1. b - 1 \in 1..Len(s)
        BY <3>2, <2>1, <1>0
      <4>2. ~(Upto(s, b - 1) < k - 1)
        BY <2>5, <2>3, <1>3
      <4>3. ~(b - 1 < a)
        BY <4>1, <4>2, <1>5
      <4> QED
        BY <4>3, <2>1, <1>5
    <3> QED
      BY <3>1, <3>2
  <2> QED
    BY <2>1, <2>5, <2>6
<1>9. CASE k = c + 1
  <2>1. \A i \in 1..Len(s) : Upto(s, i) < k
    <3> SUFFICES ASSUME NEW i \in 1..Len(s) PROVE Upto(s, i) < k
      OBVIOUS
    <3>1. i \in Nat /\ i <= Len(s)
      BY <1>0
    <3>2. Upto(s, i) <= c /\ Upto(s, i) \in Nat
      BY <3>1, <1>0, UptoGrows DEF c
    <3> QED
      BY <3>2, <1>1, <1>9
  <2>2. b = Len(s) + 1
    BY <2>1, <1>3, <1>4, BoundAtEnd
  <2>3. a < b
    <3>1. CASE k - 1 = 0
      <4>1. a = 0
        BY <3>1, <1>4 DEF Bound
      <4> QED
        BY <4>1, <2>2, <1>0
    <3>2. CASE k - 1 # 0
      <4>1. Len(s) \in 1..Len(s) /\ Upto(s, Len(s)) = c
        <5>1. Len(s) # 0
          BY DEF Text
        <5> QED
          BY <5>1, <1>0 DEF c
      <4>2. ~(Len(s) < a)
        BY <4>1, <1>5, <1>9, <1>1
      <4> QED
        BY <4>2, <2>2, <1>0, <1>5
    <3> QED
      BY <3>1, <3>2
  <2> QED
    BY <1>2, <1>4, <1>6, <1>7, <1>9, <2>2, <2>3
<1>10. CASE k # c + 1
  <2>1. Len(s) \in 1..Len(s) /\ Upto(s, Len(s)) >= k
    <3>1. Len(s) # 0
      BY DEF Text
    <3> QED
      BY <3>1, <1>0, <1>1, <1>3, <1>10 DEF c
  <2>2. b <= Len(s) /\ s[b] = Delimiter /\ a < b
    BY <2>1, <1>8, <1>0
  <2> QED
    BY <1>2, <1>4, <1>6, <1>7, <1>10, <2>2
<1> QED
  BY <1>9, <1>10

-----------------------------------------------------------------------------
(***************************************************************************)
(* build and parse                                                         *)
(***************************************************************************)
\* Flattening up to four sequences appends them one after the other.
LEMMA FlattenUnroll ==
  ASSUME NEW seqs, Len(seqs) \in 1..4
  PROVE  \E g : /\ FlattenSeq(seqs) = g[Len(seqs)]
                /\ g[1] = seqs[1]
                /\ \A i \in 2..Len(seqs) : g[i] = g[i - 1] \o seqs[i]
<1>0. PICK s1, s2, s3, s4 : /\ s1 = seqs[1]
                            /\ s2 = s1 \o seqs[2]
                            /\ s3 = s2 \o seqs[3]
                            /\ s4 = s3 \o seqs[4]
  OBVIOUS
<1> DEFINE n == Len(seqs)
           f == [i \in 1..n |-> IF i = 1 THEN s1 ELSE IF i = 2 THEN s2
                                ELSE IF i = 3 THEN s3 ELSE s4]
           R(g) == g = [i \in 1..Len(seqs) |-> IF i = 1 THEN seqs[i] ELSE g[i - 1] \o seqs[i]]
<1>1. R(f)
  <2> HIDE DEF n
  <2>0. n \in 1..4
    BY DEF n
  <2>1. ASSUME NEW i \in 1..n PROVE f[i] = IF i = 1 THEN seqs[i] ELSE f[i - 1] \o seqs[i]
    <3>1. /\ f[i] = IF i = 1 THEN s1 ELSE IF i = 2 THEN s2 ELSE IF i = 3 THEN s3 ELSE s4
          /\ i # 1 => f[i - 1] = IF i = 2 THEN s1 ELSE IF i = 3 THEN s2 ELSE s3
      BY <2>0
    <3> HIDE DEF f
    <3>2. CASE i = 1
      BY <3>1, <3>2, <1>0
    <3>3. CASE i = 2
      BY <3>1, <3>3, <1>0
    <3>4. CASE i = 3
      BY <3>1, <3>4, <1>0
    <3>5. CASE i = 4
      BY <3>1, <3>5, <1>0
    <3> QED
      BY <3>2, <3>3, <3>4, <3>5, <2>0
  <2> QED
    BY <2>1 DEF n
<1>2. PICK h : h = CHOOSE g : R(g)
  OBVIOUS
<1>3. R(h)
  <2> HIDE DEF R, f
  <2> QED
    BY <1>1, <1>2, Zenon
<1>4. FlattenSeq(seqs) = h[n]
  <2>1. Len(seqs) # 0
    OBVIOUS
  <2> QED
    BY <2>1, <1>2, Zenon DEF FlattenSeq
<1>5. h[1] = seqs[1]
  BY <1>3
<1>6. ASSUME NEW i \in 2..n PROVE h[i] = h[i - 1] \o seqs[i]
  <2>1. i \in 1..Len(seqs) /\ i # 1
    OBVIOUS
  <2> QED
    BY <2>1, <1>3, Zenon
<1> QED
  BY <1>4, <1>5, <1>6

\* The newline that build puts at the end of a text is what parse takes away.
LEMMA FrontOfAppend ==
  ASSUME NEW t \in Text, NEW ch \in Symbols
  PROVE  LET raw == t \o <<ch>> IN
         /\ raw \in Text /\ raw # <<>>
         /\ Last(raw) = ch /\ Front(raw) = t
<1>1. PICK raw : raw = t \o <<ch>>
  OBVIOUS
<1>2. <<ch>> \in Text /\ Len(<<ch>>) = 1 /\ <<ch>>[1] = ch /\ Len(t) \in Nat
  BY OneSymbol DEF Text
<1>3. /\ raw \in Text /\ Len(raw) = Len(t) + 1 /\ raw[Len(t) + 1] = ch
      /\ \A i \in 1..Len(t) : raw[i] = t[i]
  <2>1. /\ raw \in Text /\ Len(raw) = Len(t) + Len(<<ch>>)
        /\ \A i \in 1..(Len(t) + Len(<<ch>>)) :
             raw[i] = IF i <= Len(t) THEN t[i] ELSE <<ch>>[i - Len(t)]
    BY <1>1, <1>2, ConcatProperties DEF Text
  <2>2. raw[Len(t) + 1] = <<ch>>[Len(t) + 1 - Len(t)]
    BY <2>1, <1>2
  <2>3. Len(t) + 1 - Len(t) = 1
    BY <1>2
  <2> QED
    BY <2>1, <2>2, <2>3, <1>2
<1>4. raw # <<>> /\ Last(raw) = ch
  BY <1>2, <1>3 DEF Last, Text
<1>5. Front(raw) = t
  <2>1. Front(raw) = SubSeq(raw, 1, Len(t))
    BY <1>2, <1>3 DEF Front
  <2>2. Len(t) <= Len(raw) /\ 1 \in 1..(Len(t) + 2) /\ Len(t) \in -1..Len(t)
    BY <1>2, <1>3
  <2>3. SubSeq(raw, 1, Len(t)) = SubSeq(t, 1, Len(t))
    BY <2>2, <1>3, SubSeqSame
  <2> QED
    BY <2>1, <2>3, SubSeqFull DEF Text
<1> QED
  BY <1>1, <1>3, <1>4, <1>5

\* t holds the command and the first k of the fields.
Holds(t, args, k) ==
  /\ t \in Text /\ t # <<>>
  /\ split(t) \in Seq(Text) /\ Len(split(t)) = k + 1
  /\ \A j \in 1..k : split(t)[j + 1] = args[j]

\* A field more.
LEMMA HoldsMore ==
  ASSUME NEW args \in Seq(PlainText), NEW k \in Nat, k < Len(args), NEW t, Holds(t, args, k)
  PROVE  Holds(t \o (<<Delimiter>> \o args[k + 1]), args, k + 1)
<1>1. Len(args) \in Nat /\ k + 1 \in 1..Len(args)
  OBVIOUS
<1>2. PICK a \in PlainText : a = args[k + 1]
  BY <1>1, ElementOfSeq
<1>3. PICK u : u = t \o (<<Delimiter>> \o a)
  OBVIOUS
<1>4. /\ u \in Text /\ u # <<>>
      /\ split(u) \in Seq(Text) /\ Len(split(u)) = Len(split(t)) + 1
      /\ \A j \in 1..Len(split(t)) : split(u)[j] = split(t)[j]
      /\ split(u)[Len(split(t)) + 1] = a
  BY <1>3, SplitAppend DEF Holds
<1>5. Len(split(t)) = k + 1 /\ \A j \in 1..k : split(t)[j + 1] = args[j]
  BY DEF Holds
<1>6. ASSUME NEW j \in 1..(k + 1) PROVE split(u)[j + 1] = args[j]
  <2>1. CASE j = k + 1
    BY <2>1, <1>2, <1>4, <1>5
  <2>2. CASE j # k + 1
    <3>1. j \in 1..k /\ j + 1 \in 1..(k + 1)
      BY <2>2
    <3> QED
      BY <3>1, <1>4, <1>5
  <2> QED
    BY <2>1, <2>2
<1> QED
  BY <1>2, <1>3, <1>4, <1>5, <1>6 DEF Holds

\* A frame is a text, whatever its fields hold.
LEMMA BuildText ==
  ASSUME NEW command \in Symbols, NEW args \in Seq(Text), Len(args) \in 1..4
  PROVE  build(command, args) \in Text
<1> DEFINE seqs == [i \in DOMAIN args |-> <<Delimiter>> \o args[i]]
<1>1. DOMAIN args = 1..Len(args) /\ Len(args) \in Nat
  OBVIOUS
<1>2. ASSUME NEW i \in 1..Len(args) PROVE seqs[i] \in Text
  <2>1. <<Delimiter>> \in Text /\ args[i] \in Text
    BY SymbolsAssumption, OneSymbol, ElementOfSeq
  <2>2. <<Delimiter>> \o args[i] \in Text
    BY <2>1, ConcatProperties DEF Text
  <2> QED
    BY <2>2, <1>1
<1>3. Len(seqs) = Len(args)
  BY <1>1
<1> HIDE DEF seqs
<1>4. PICK g : /\ FlattenSeq(seqs) = g[Len(seqs)]
               /\ g[1] = seqs[1]
               /\ \A i \in 2..Len(seqs) : g[i] = g[i - 1] \o seqs[i]
  BY <1>3, FlattenUnroll
<1>5. g[1] \in Text
  BY <1>1, <1>2, <1>4
<1>6. ASSUME NEW k \in 1..3, k < Len(args), g[k] \in Text PROVE g[k + 1] \in Text
  <2>1. PICK i \in 2..Len(seqs) : i = k + 1
    BY <1>1, <1>3, <1>6
  <2>2. g[i] = g[i - 1] \o seqs[i] /\ i - 1 = k /\ i \in 1..Len(args)
    <3>1. g[i] = g[i - 1] \o seqs[i]
      BY <1>4
    <3>2. i - 1 = k /\ i \in 1..Len(args)
      BY <2>1, <1>1, <1>3
    <3> QED
      BY <3>1, <3>2
  <2>3. g[k] \o seqs[i] \in Text
    BY <2>2, <1>2, <1>6, ConcatProperties DEF Text
  <2> QED
    BY <2>1, <2>2, <2>3
<1>7. g[Len(args)] \in Text
  <2>1. CASE Len(args) = 1
    BY <2>1, <1>5
  <2>2. CASE Len(args) = 2
    BY <2>2, <1>5, <1>6
  <2>3. CASE Len(args) = 3
    BY <2>3, <1>5, <1>6
  <2>4. CASE Len(args) = 4
    BY <2>4, <1>5, <1>6
  <2> QED
    BY <2>1, <2>2, <2>3, <2>4
<1>8. <<command>> \in Text /\ <<Newline>> \in Text
  BY SymbolsAssumption, OneSymbol
<1>9. PICK x : x = g[Len(args)]
  OBVIOUS
<1>10. (<<command>> \o x) \o <<Newline>> \in Text
  BY <1>7, <1>8, <1>9, ConcatProperties DEF Text
<1> QED
  BY <1>3, <1>4, <1>9, <1>10 DEF build, seqs

\* parse(build(command, args)) gives the fields back as they were, as long as
\* none of them holds a delimiter.  The frames have one, three or four fields.
THEOREM ParseUndoesBuild ==
  ASSUME NEW command \in Symbols, command # Delimiter,
         NEW args \in Seq(PlainText), Len(args) \in 1..4
  PROVE  /\ build(command, args) \in Text
         /\ parse(build(command, args)).arguments = args
<1> DEFINE seqs == [i \in DOMAIN args |-> <<Delimiter>> \o args[i]]
<1>0. /\ args \in [1..Len(args) -> PlainText] /\ Len(args) \in Nat
      /\ \A i \in 1..Len(args) : args[i] \in PlainText /\ args[i] \in Text
  <2>1. args \in [1..Len(args) -> PlainText]
    OBVIOUS
  <2> QED
    BY <2>1 DEF PlainText
<1>1. /\ Len(seqs) = Len(args)
      /\ \A i \in 1..Len(args) : seqs[i] = <<Delimiter>> \o args[i] /\ seqs[i] \in Text
  <2>1. DOMAIN args = 1..Len(args)
    OBVIOUS
  <2>2. ASSUME NEW i \in 1..Len(args) PROVE seqs[i] = <<Delimiter>> \o args[i] /\ seqs[i] \in Text
    <3>1. seqs[i] = <<Delimiter>> \o args[i]
      BY <2>1
    <3>2. <<Delimiter>> \in Text /\ args[i] \in Text
      BY <1>0, SymbolsAssumption, OneSymbol
    <3>3. <<Delimiter>> \o args[i] \in Text
      BY <3>2, ConcatProperties DEF Text
    <3> QED
      BY <3>1, <3>3
  <2>3. Len(seqs) = Len(args)
    BY <2>1, <1>0
  <2> QED
    BY <2>2, <2>3
<1>2. PICK g : /\ FlattenSeq(seqs) = g[Len(args)]
               /\ g[1] = seqs[1]
               /\ \A i \in 2..Len(args) : g[i] = g[i - 1] \o seqs[i]
  <2>1. PICK m : m = Len(args) /\ m = Len(seqs)
    BY <1>1
  <2> HIDE DEF seqs
  <2>2. Len(seqs) \in 1..4
    BY <2>1
  <2>3. PICK g : /\ FlattenSeq(seqs) = g[Len(seqs)]
                 /\ g[1] = seqs[1]
                 /\ \A i \in 2..Len(seqs) : g[i] = g[i - 1] \o seqs[i]
    BY <2>2, FlattenUnroll
  <2> QED
    BY <2>1, <2>3
<1> DEFINE C == <<command>>
           Good(k) == g[k] \in Text /\ Holds(C \o g[k], args, k)
<1>3. C \in Text /\ C # <<>> /\ C \in PlainText
  <2>1. C \in Text /\ Len(C) = 1 /\ C[1] = command
    BY OneSymbol
  <2>2. \A i \in 1..Len(C) : C[i] # Delimiter
    BY <2>1
  <2> QED
    BY <2>1, <2>2 DEF PlainText
<1>4. Holds(C, args, 0)
  <2>1. split(C) = <<C>>
    BY <1>3, SplitPlain
  <2> HIDE DEF C
  <2>2. <<C>> \in Seq(Text) /\ Len(<<C>>) = 1
    BY <1>3
  <2> QED
    BY <1>3, <2>1, <2>2 DEF Holds
<1> HIDE DEF C, seqs
<1>5. Good(1)
  <2>1. g[1] = <<Delimiter>> \o args[1] /\ g[1] \in Text
    BY <1>0, <1>1, <1>2
  <2>2. Holds(C \o (<<Delimiter>> \o args[0 + 1]), args, 0 + 1)
    BY <1>0, <1>4, HoldsMore
  <2> QED
    BY <2>1, <2>2
<1>6. ASSUME NEW k \in 1..3, k < Len(args), Good(k) PROVE Good(k + 1)
  <2>1. /\ k + 1 \in 2..Len(args) /\ k + 1 \in 1..Len(args) /\ (k + 1) - 1 = k
        /\ k \in Nat
    BY <1>0, <1>6
  <2>2. PICK i : i = k + 1
    OBVIOUS
  <2>3. g[i] = g[k] \o (<<Delimiter>> \o args[i]) /\ <<Delimiter>> \o args[i] \in Text
    <3>1. g[i] = g[i - 1] \o seqs[i] /\ i - 1 = k
      BY <2>1, <2>2, <1>2
    <3> QED
      BY <3>1, <2>1, <2>2, <1>1
  <2>4. PICK d \in Text : d = <<Delimiter>> \o args[i]
    BY <2>3
  <2>5. g[k] \in Text /\ Holds(C \o g[k], args, k)
    BY <1>6
  <2>6. g[i] \in Text /\ C \o g[i] = (C \o g[k]) \o d
    <3>1. g[i] = g[k] \o d
      BY <2>3, <2>4
    <3>2. g[k] \o d \in Text
      BY <2>4, <2>5, ConcatProperties DEF Text
    <3>3. C \o (g[k] \o d) = (C \o g[k]) \o d
      <4>1. PICK x : x = g[k]
        OBVIOUS
      <4>2. C \in Seq(Symbols) /\ x \in Seq(Symbols) /\ d \in Seq(Symbols)
        BY <4>1, <2>4, <2>5, <1>3 DEF Text
      <4>3. (C \o x) \o d = C \o (x \o d)
        BY <4>2, ConcatAssociative
      <4> QED
        BY <4>1, <4>3
    <3> QED
      BY <3>1, <3>2, <3>3
  <2>7. Holds((C \o g[k]) \o (<<Delimiter>> \o args[k + 1]), args, k + 1)
    BY <2>1, <2>5, <1>6, HoldsMore
  <2> QED
    BY <2>2, <2>4, <2>6, <2>7
<1>7. Good(Len(args))
  <2> HIDE DEF Good
  <2>1. CASE Len(args) = 1
    BY <2>1, <1>5
  <2>2. CASE Len(args) = 2
    BY <2>2, <1>5, <1>6
  <2>3. CASE Len(args) = 3
    BY <2>3, <1>5, <1>6
  <2>4. CASE Len(args) = 4
    BY <2>4, <1>5, <1>6
  <2> QED
    BY <2>1, <2>2, <2>3, <2>4
<1>8. PICK t : t = C \o g[Len(args)] /\ Holds(t, args, Len(args))
  BY <1>7
<1>9. build(command, args) = t \o <<Newline>>
  BY <1>2, <1>8 DEF build, C, seqs
<1>10. t \in Text /\ t # <<>> /\ <<Newline>> \in Text
  BY <1>8, SymbolsAssumption, OneSymbol DEF Holds
<1>11. PICK raw : raw = t \o <<Newline>>
  OBVIOUS
<1>12. raw \in Text /\ raw # <<>> /\ Last(raw) = Newline /\ Front(raw) = t
  BY <1>10, <1>11, SymbolsAssumption, FrontOfAppend
<1>13. split(t) # <<>> /\ parse(raw).arguments = Tail(split(t))
  <2>1. split(t) # <<>>
    BY <1>8, <1>0 DEF Holds
  <2> QED
    BY <2>1, <1>12 DEF parse
<1>14. Tail(split(t)) = args
  <2>1. PICK p \in Seq(Text) : p = split(t)
    BY <1>8 DEF Holds
  <2>2. Len(p) = Len(args) + 1 /\ \A j \in 1..Len(args) : p[j + 1] = args[j]
    BY <2>1, <1>8 DEF Holds
  <2>3. /\ Tail(p) \in Seq(Text) /\ Len(Tail(p)) = Len(args)
        /\ \A i \in 1..Len(args) : Tail(p)[i] = args[i]
    <3>1. p # <<>>
      BY <2>2, <1>0
    <3> QED
      BY <3>1, <2>2, <1>0, HeadTailProperties
  <2>4. args \in Seq(Text)
    BY <1>0
  <2> QED
    BY <2>1, <2>3, <2>4, SeqEqual
<1> QED
  BY <1>9, <1>11, <1>12, <1>13, <1>14

\* Whatever arrives, none of the fields parse finds holds a delimiter.
THEOREM FieldsArePlain ==
  ASSUME NEW raw \in Text
  PROVE  parse(raw).arguments \in Seq(PlainText)
<1>1. PICK s : s = IF raw # <<>> /\ Last(raw) = Newline THEN Front(raw) ELSE raw
  OBVIOUS
<1>2. s \in Text
  <2>1. ASSUME raw # <<>> PROVE Front(raw) \in Text
    <3>1. Len(raw) \in Nat /\ Len(raw) # 0
      BY <2>1 DEF Text
    <3>2. PICK n \in Int : n = Len(raw) - 1
      BY <3>1
    <3>3. \A i \in 1..n : raw[i] \in Symbols
      BY <3>1, <3>2, ElementOfSeq DEF Text
    <3>4. SubSeq(raw, 1, n) \in Seq(Symbols)
      BY <3>3, SubSeqProperties
    <3> QED
      BY <3>2, <3>4 DEF Front, Text
  <2> QED
    BY <1>1, <2>1
<1>3. CASE split(s) = <<>>
  <2>1. parse(raw).arguments = <<>>
    BY <1>1, <1>3 DEF parse
  <2> QED
    BY <2>1
<1>4. CASE split(s) # <<>>
  <2>1. parse(raw).arguments = Tail(split(s))
    BY <1>1, <1>4 DEF parse
  <2>2. s # <<>>
    BY <1>4 DEF split
  <2>3. PICK p : p = split(s)
    OBVIOUS
  <2>4. p \in Seq(Text) /\ p # <<>>
    BY <1>2, <1>4, <2>2, <2>3, SplitShape
  <2>5. \A k \in 1..Len(p) : p[k] \in PlainText
    BY <1>2, <2>2, <2>3, TokensPlain
  <2>6. p \in Seq(PlainText)
    BY <2>4, <2>5
  <2> QED
    BY <2>1, <2>3, <2>4, <2>6, HeadTailProperties
<1> QED
  BY <1>3, <1>4

\* sanitize keeps the length of a text and adds no delimiter.
LEMMA SanitizeFacts ==
  ASSUME NEW s \in Text
  PROVE  /\ sanitize(s) \in Text
         /\ Len(sanitize(s)) = Len(s)
         /\ s \in PlainText => sanitize(s) \in PlainText
<1>1. Len(s) \in Nat /\ DOMAIN s = 1..Len(s) /\ \A i \in 1..Len(s) : s[i] \in Symbols
  BY ElementOfSeq DEF Text
<1>2. PICK t : t = sanitize(s)
  OBVIOUS
<1>3. t = [i \in 1..Len(s) |-> IF s[i] = Control THEN Space ELSE s[i]]
  BY <1>1, <1>2 DEF sanitize
<1>4. Space \in Symbols
  BY SymbolsAssumption
<1>5. t \in Seq(Symbols) /\ Len(t) = Len(s)
  BY <1>1, <1>3, <1>4
<1>6. ASSUME s \in PlainText, NEW i \in 1..Len(t) PROVE t[i] # Delimiter
  <2>1. i \in 1..Len(s)
    BY <1>5
  <2>2. s[i] # Delimiter /\ t[i] = IF s[i] = Control THEN Space ELSE s[i]
    BY <1>3, <1>6, <2>1 DEF PlainText
  <2>3. Space # Delimiter
    BY DEF Space, Delimiter
  <2> QED
    BY <2>2, <2>3
<1> QED
  BY <1>2, <1>5, <1>6 DEF PlainText, Text

\* A text without control characters is left as it is.
LEMMA SanitizeWords ==
  ASSUME NEW s \in Text, \A i \in DOMAIN s : s[i] # Control
  PROVE  sanitize(s) = s
<1>1. s = [i \in DOMAIN s |-> s[i]]
  BY DEF Text
<1> QED
  BY <1>1 DEF sanitize

=============================================================================
