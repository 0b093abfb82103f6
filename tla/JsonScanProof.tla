--------------------------- MODULE JsonScanProof ---------------------------
(***************************************************************************)
(* What JsonScan reads and what it returns, for any text, key and index.   *)
(*                                                                         *)
(* FindsItem says of the text as a whole what the scanner finds out with a *)
(* state, two counters and two positions.  The proof goes from counting    *)
(* (UpTo) to what one character changes (Lexed), from there to what the    *)
(* scanner knows of keys and values when it has read a part of the text    *)
(* (Looked), and turn by turn to the answer (FindInv).                     *)
(***************************************************************************)
EXTENDS JsonText, FiniteSetTheorems, SequenceTheorems, TLAPS

\* While the scanner runs nothing has a size; json_unescape's pointer and count
\* move together, so that they stay within the value.
ScanInv ==
  /\ input \in Inputs
  /\ pos \in Int /\ k \in Int /\ value \in Int /\ valuesz \in Int /\ n \in Int
  /\ InBounds
  /\ pc = "scan" => valuesz = 0
  /\ pc = "unescape" => n >= 0 /\ pos + n <= value + valuesz + 1

\* The text of a call has a length.
LEMMA TextLength == ASSUME input \in Inputs PROVE Len(text) \in Nat
  BY InputsAssumption DEF text

\* What is below a position is below every later one.
LEMMA Below == ASSUME NEW a \in Int, NEW b \in Int, 1 <= a, a <= b, NEW x \in 0..a - 1
               PROVE  x \in 0..b - 1 /\ 0 \in 0..b - 1
  OBVIOUS

\* A turn of the scanner keeps the invariant.
LEMMA ScanStep == ASSUME ScanInv, Scan PROVE ScanInv'
<1> USE DEF ScanInv, InBounds
<1>0. Len(text) \in Nat /\ text' = text /\ input' \in Inputs /\ n' = n
  BY TextLength DEF Scan, text
<1>1. /\ pos \in 1..Len(text) /\ k \in 0..pos - 1 /\ value \in 0..pos - 1 /\ valuesz = 0
      /\ pc = "scan"
  BY <1>0 DEF Scan
<1> DEFINE t == Lex(text[pos])
           s == IF t.action = "end_before" THEN pos - 1 ELSE pos
           d == IF t.action = "end_struct" THEN depth - 1 ELSE depth
<1>2. CASE t = Malformed
  <2>1. pc' = "parsed" /\ UNCHANGED <<pos, k, value, valuesz>>
    BY <1>2 DEF Scan
  <2> QED BY <1>0, <1>1, <2>1
<1>3. CASE t # Malformed
  <2>1. /\ pos' = s + 1
        /\ CASE d = 1 /\ t.action \in {"start", "start_struct"} -> StartsAt(s)
             [] d = 1 /\ t.action \in {"end", "end_before", "end_struct"} -> EndsAt(s)
             [] OTHER -> UNCHANGED <<pc, index, k, value, valuesz>>
    BY <1>3 DEF Scan
  <2>2. s = pos \/ s = pos - 1
    OBVIOUS
  <2> HIDE DEF t, s, d
  <2>7. pos' \in 1..Len(text) + 1 /\ pos' \in Int /\ pos' >= pos
    BY <1>0, <1>1, <2>1, <2>2
  <2>8. ASSUME pc' = pc, valuesz' = valuesz, value' = value, k' \in {0, k} PROVE ScanInv'
    <3>1. k' \in 0..pos' - 1 /\ value' \in 0..pos' - 1 /\ k' \in Int /\ value' \in Int
      <4>1. k \in 0..pos' - 1 /\ value \in 0..pos' - 1 /\ 0 \in 0..pos' - 1
        <5>1. pos \in Int /\ pos' \in Int /\ pos' >= pos /\ pos >= 1
          BY <1>1, <2>7
        <5> QED BY <1>1, <5>1, Below
      <4> QED BY <2>8, <4>1
    <3>2. value' \in 0..Len(text) /\ valuesz' = 0 /\ value' + valuesz' <= Len(text) + 1
      BY <1>0, <1>1, <2>8
    <3> QED BY <1>0, <1>1, <2>7, <2>8, <3>1, <3>2
  <2>3. CASE t.action \in {"start", "start_struct"} /\ StartsAt(s)
    <3>1. s = pos
      BY <2>3 DEF s
    <3>2. pc' = pc /\ valuesz' = valuesz /\ value' \in {value, s} /\ k' \in {k, s}
      BY <2>3 DEF StartsAt
    <3> QED BY <1>0, <1>1, <2>1, <3>1, <3>2
  <2>4. CASE EndsAt(s)
    <3>1. CASE value # 0 /\ index = 0
      <4>1. pc' = "parsed" /\ valuesz' = s + 1 - value /\ value' = value /\ k' = k
        BY <2>4, <3>1 DEF EndsAt
      <4>2. valuesz' >= 0 /\ valuesz' \in Int /\ value' + valuesz' <= Len(text) + 1
        BY <1>0, <1>1, <2>2, <4>1
      <4> QED BY <1>0, <1>1, <2>7, <4>1, <4>2
    <3>2. CASE ~(value # 0 /\ index = 0)
      <4>1. pc' = pc /\ valuesz' = valuesz /\ value' = value /\ k' \in {0, k}
        BY <2>4, <3>2 DEF EndsAt
      <4> QED BY <2>8, <4>1
    <3> QED BY <3>1, <3>2
  <2>5. CASE UNCHANGED <<pc, index, k, value, valuesz>>
    BY <2>5, <2>8
  <2>6. \/ t.action \in {"start", "start_struct"} /\ StartsAt(s)
        \/ EndsAt(s)
        \/ UNCHANGED <<pc, index, k, value, valuesz>>
    BY <2>1
  <2> QED BY <2>3, <2>4, <2>5, <2>6
<1> QED BY <1>2, <1>3

\* The invariant holds at first and along every step.
LEMMA ScanInvariant == Spec => []ScanInv
<1>1. Init => ScanInv
  <2> SUFFICES ASSUME Init PROVE ScanInv
    OBVIOUS
  <2>1. Len(text) \in Nat
    BY TextLength DEF Init
  <2> QED BY <2>1 DEF Init, ScanInv, InBounds
<1>2. ASSUME ScanInv, [Next]_vars PROVE ScanInv'
  <2>0. Len(text) \in Nat
    BY <1>2, TextLength DEF ScanInv
  <2>1. CASE Scan
    BY <1>2, <2>1, ScanStep
  <2>2. CASE ScanEnds
    BY <1>2, <2>0, <2>2 DEF ScanEnds, ScanInv, InBounds, text
  <2>3. CASE Parse
    <3>1. /\ UNCHANGED <<input, k, value, valuesz>> /\ text' = text
          /\ \/ value # 0 /\ pc' = "unescape" /\ pos' = value + 1 /\ n' = valuesz
             \/ pc' = "done" /\ UNCHANGED <<pos, n>>
      BY <2>3 DEF Parse, text
    <3> QED BY <1>2, <2>0, <3>1 DEF ScanInv, InBounds
  <2>4. CASE Unescape
    <3>1. /\ UNCHANGED <<input, k, value, valuesz>> /\ text' = text /\ pc = "unescape"
          /\ \/ n > 2 /\ pos' = pos + 2 /\ n' = n - 2 /\ pc' = pc
             \/ n > 2 /\ pos' = pos + 1 /\ n' = n - 1 /\ pc' = pc
             \/ pc' = "done" /\ UNCHANGED <<pos, n>>
      BY <2>4 DEF Unescape, text
    <3> QED BY <1>2, <2>0, <3>1 DEF ScanInv, InBounds
  <2>5. CASE UNCHANGED vars
    BY <1>2, <2>5 DEF vars, ScanInv, InBounds, text
  <2> QED BY <1>2, <2>1, <2>2, <2>3, <2>4, <2>5 DEF Next
<1> QED BY <1>1, <1>2, PTL DEF Spec

\* json_parse reads neither before nor behind its text and the zero that ends it,
\* whatever the text, the key and the index.
THEOREM ReadsInBounds == Spec => []InBounds
<1>1. ScanInv => InBounds
  BY DEF ScanInv
<1> QED BY <1>1, ScanInvariant, PTL
-----------------------------------------------------------------------------
\* The end of a literal, which is read again, is met in a literal and leaves it.
LEMMA EndBeforeLeaves ==
  ASSUME NEW c, Lex(c).action = "end_before"
  PROVE  state = "literal" /\ Lex(c).next = "value"
BY DEF Lex, LexLiteral, LexText, Token, Malformed

\* A turn of the scanner goes on to the next character or leaves a literal.
LEMMA ScanAdvances ==
  ASSUME ScanInv, Scan
  PROVE  TurnsLeft' \in 0..TurnsLeft - 1
<1>1. /\ Len(text) \in Nat /\ text' = text /\ pc = "scan"
      /\ pos \in 1..Len(text)
  BY TextLength DEF Scan, ScanInv, InBounds, text
<1> DEFINE t == Lex(text[pos])
<1>2. CASE pc' = "parsed"
  <2>1. TurnsLeft' = Len(text) + 3
    BY <1>1, <1>2 DEF TurnsLeft
  <2>2. TurnsLeft \in Nat /\ TurnsLeft >= Len(text) + 4
    BY <1>1 DEF TurnsLeft
  <2> QED BY <1>1, <2>1, <2>2
<1>3. CASE pc' = "scan"
  <2>1. /\ state' = t.next
        /\ pos' = (IF t.action = "end_before" THEN pos - 1 ELSE pos) + 1
    BY <1>3 DEF Scan
  <2>2. CASE t.action = "end_before"
    <3>1. state = "literal" /\ state' = "value" /\ pos' = pos
      BY <1>1, <2>1, <2>2, EndBeforeLeaves
    <3>2. /\ TurnsLeft = Len(text) + 4 + 2 * (Len(text) + 1 - pos) + 1
          /\ TurnsLeft' = Len(text) + 4 + 2 * (Len(text) + 1 - pos)
      BY <1>1, <1>3, <3>1 DEF TurnsLeft
    <3> QED BY <1>1, <3>2
  <2>3. CASE t.action # "end_before"
    <3>1. pos' = pos + 1
      BY <1>1, <2>1, <2>3
    <3>2. PICK a \in {0, 1} : TurnsLeft = Len(text) + 4 + 2 * (Len(text) + 1 - pos) + a
      BY <1>1 DEF TurnsLeft
    <3>3. PICK b \in {0, 1} : TurnsLeft' = Len(text) + 4 + 2 * (Len(text) - pos) + b
      BY <1>1, <1>3, <3>1 DEF TurnsLeft
    <3> QED BY <1>1, <3>2, <3>3
  <2> QED BY <2>2, <2>3
<1>4. pc' \in {"scan", "parsed"}
  BY <1>1 DEF Scan, StartsAt, EndsAt
<1> QED BY <1>2, <1>3, <1>4

\* Advances: json_parse comes closer to its end with every turn, on any text.
THEOREM AlwaysAdvances == Spec => Advances
<1>1. ASSUME ScanInv, Next PROVE TurnsLeft' \in 0..TurnsLeft - 1
  <2>0. Len(text) \in Nat /\ text' = text
    BY <1>1, TextLength DEF ScanInv, Next, Scan, ScanEnds, Parse, Unescape, text
  <2>1. CASE Scan
    BY <1>1, <2>1, ScanAdvances
  <2>2. CASE ScanEnds
    <3>1. pc = "scan" /\ pc' = "parsed" /\ pos = Len(text) + 1
      BY <1>1, <2>0, <2>2 DEF ScanEnds, ScanInv, InBounds
    <3> QED BY <2>0, <3>1 DEF TurnsLeft
  <2>3. CASE Parse
    <3>1. /\ pc = "parsed" /\ valuesz \in 0..Len(text) + 1
          /\ (pc' = "unescape" /\ n' = valuesz) \/ pc' = "done"
      BY <1>1, <2>0, <2>3 DEF Parse, ScanInv, InBounds
    <3> QED BY <2>0, <3>1 DEF TurnsLeft
  <2>4. CASE Unescape
    <3>1. /\ pc = "unescape" /\ n \in Nat
          /\ (pc' = pc /\ n > 2 /\ n' \in {n - 1, n - 2}) \/ pc' = "done"
      BY <1>1, <2>4 DEF Unescape, ScanInv
    <3> QED BY <2>0, <3>1 DEF TurnsLeft
  <2> QED BY <1>1, <2>1, <2>2, <2>3, <2>4 DEF Next
<1>2. ScanInv /\ [Next]_vars => [TurnsLeft' \in 0..TurnsLeft - 1]_vars
  BY <1>1
<1> QED BY <1>2, ScanInvariant, PTL DEF Spec, Advances
-----------------------------------------------------------------------------
\* Positions in a text
Pos == Nat \ {0}

\* Counting up to a position ends.
LEMMA CountType ==
  ASSUME NEW S \in SUBSET Pos, NEW j \in Nat
  PROVE  IsFiniteSet({i \in S : i <= j}) /\ UpTo(S, j) \in Nat
<1>1. \A i \in S : i \in Nat /\ i # 0
  BY DEF Pos
<1>2. \A i \in S : i <= j => i \in 1..j
  BY <1>1
<1>3. {i \in S : i <= j} \subseteq 1..j
  BY <1>2, Zenon
<1>4. IsFiniteSet(1..j)
  BY FS_Interval
<1>5. IsFiniteSet({i \in S : i <= j})
  BY <1>3, <1>4, FS_Subset
<1> QED BY <1>5, FS_CardinalityType DEF UpTo

\* No position is below the first one.
LEMMA CountZero == ASSUME NEW S \in SUBSET Pos PROVE UpTo(S, 0) = 0
<1>1. \A i \in S : ~(i <= 0)
  BY DEF Pos
<1>2. {i \in S : i <= 0} = {}
  BY <1>1, Zenon
<1> QED BY <1>2, FS_EmptySet DEF UpTo

\* Each position of the set adds one.
LEMMA CountStep ==
  ASSUME NEW S \in SUBSET Pos, NEW j \in Pos
  PROVE  UpTo(S, j) = UpTo(S, j - 1) + (IF j \in S THEN 1 ELSE 0)
<1> DEFINE A == {i \in S : i <= j - 1}
<1>0. j \in Nat /\ j - 1 \in Nat
  BY DEF Pos
<1>1. IsFiniteSet(A) /\ UpTo(S, j - 1) \in Nat
  BY <1>0, CountType
<1>2. \A i \in S : i <= j <=> i <= j - 1 \/ i = j
  BY <1>0 DEF Pos
<1>3. ~(j <= j - 1)
  BY <1>0
<1>4. CASE j \in S
  <2>1. {i \in S : i <= j} = A \cup {j}
    BY <1>2, <1>4, Zenon
  <2>2. j \notin A
    BY <1>3, Zenon
  <2> QED BY <1>1, <1>4, <2>1, <2>2, FS_AddElement DEF UpTo
<1>5. CASE j \notin S
  <2>1. {i \in S : i <= j} = A
    BY <1>2, <1>5, Zenon
  <2> QED BY <1>1, <1>5, <2>1 DEF UpTo
<1> QED BY <1>4, <1>5

\* What lies below a position of the set is less than what lies up to a later one.
LEMMA CountBelow ==
  ASSUME NEW S \in SUBSET Pos, NEW i \in S, NEW j \in Nat, i <= j
  PROVE  UpTo(S, i - 1) < UpTo(S, j)
<1> DEFINE A == {x \in S : x <= i - 1}
           B == {x \in S : x <= j}
<1>0. i - 1 \in Nat /\ i \in Nat
  BY DEF Pos
<1>1. IsFiniteSet(A) /\ IsFiniteSet(B) /\ Cardinality(A) \in Nat /\ Cardinality(B) \in Nat
  BY <1>0, CountType DEF UpTo
<1>2. ~(i <= i - 1) /\ \A x \in S : x <= i - 1 => x <= j
  BY <1>0 DEF Pos
<1>3. i \notin A /\ A \cup {i} \subseteq B
  BY <1>2, Zenon
<1>4. Cardinality(A \cup {i}) = Cardinality(A) + 1
  BY <1>1, <1>3, FS_AddElement
<1>5. Cardinality(A \cup {i}) <= Cardinality(B)
  BY <1>1, <1>3, FS_Subset
<1>6. Cardinality(A) < Cardinality(B)
  BY <1>1, <1>4, <1>5
<1> QED BY <1>6 DEF UpTo

\* Two positions of a set below which equally many lie are the same.
LEMMA CountSame ==
  ASSUME NEW S \in SUBSET Pos, NEW i \in S, NEW j \in S, UpTo(S, i - 1) = UpTo(S, j - 1)
  PROVE  i = j
<1>1. i - 1 \in Nat /\ j - 1 \in Nat /\ i \in Nat /\ j \in Nat
  BY DEF Pos
<1>2. UpTo(S, i - 1) \in Nat /\ UpTo(S, j - 1) \in Nat
  BY <1>1, CountType
<1>3. ~(i <= j - 1)
  BY <1>1, <1>2, CountBelow
<1>4. ~(j <= i - 1)
  BY <1>1, <1>2, CountBelow
<1> QED BY <1>1, <1>3, <1>4
-----------------------------------------------------------------------------
\* What follows a backslash is escaped, unless the backslash is.
LEMMA EscapedNext ==
  ASSUME NEW t, NEW p \in Pos
  PROVE  Escaped(t, p + 1) <=> t[p] = "backslash" /\ ~Escaped(t, p)
<1> DEFINE A == Slashes(t, p - 1)
           B == Slashes(t, p)
<1>1. \A b : b \in A <=> b \in 1..p - 1 /\ \A m \in b..p - 1 : t[m] = "backslash"
  BY DEF Slashes
<1>2. \A b : b \in B <=> b \in 1..p /\ \A m \in b..p : t[m] = "backslash"
  BY DEF Slashes
<1>3. IsFiniteSet(A) /\ Cardinality(A) \in Nat
  <2>1. A \subseteq 1..p - 1
    BY <1>1
  <2>2. IsFiniteSet(1..p - 1)
    BY FS_Interval DEF Pos
  <2> QED BY <2>1, <2>2, FS_Subset, FS_CardinalityType
<1>4. (Escaped(t, p) <=> Cardinality(A) % 2 = 1) /\ (Escaped(t, p + 1) <=> Cardinality(B) % 2 = 1)
  <2>1. (p + 1) - 1 = p
    BY DEF Pos
  <2> QED BY <2>1 DEF Escaped
<1> HIDE DEF A, B
<1>5. CASE t[p] = "backslash"
  <2>1. \A b : b \in B <=> b \in A \/ b = p
    <3>1. ASSUME NEW b \in B, b # p PROVE b \in A
      BY <1>1, <1>2, <3>1 DEF Pos
    <3>2. ASSUME NEW b \in A PROVE b \in B
      <4>1. \A m \in b..p : m = p \/ m \in b..p - 1
        BY <1>1 DEF Pos
      <4>2. b \in 1..p
        BY <1>1 DEF Pos
      <4> QED BY <1>1, <1>2, <1>5, <4>1, <4>2
    <3>3. p \in B
      BY <1>2, <1>5 DEF Pos
    <3> QED BY <3>1, <3>2, <3>3
  <2>2. p \notin A
    BY <1>1 DEF Pos
  <2>3. B = A \cup {p}
    BY <2>1
  <2>4. Cardinality(B) = Cardinality(A) + 1
    BY <1>3, <2>2, <2>3, FS_AddElement
  <2>5. \A x \in Nat : ((x + 1) % 2 = 1) <=> ~(x % 2 = 1)
    OBVIOUS
  <2> QED BY <1>3, <1>4, <1>5, <2>4, <2>5
<1>6. CASE t[p] # "backslash"
  <2>1. \A b : b \notin B
    BY <1>2, <1>6 DEF Pos
  <2>2. Cardinality(B) = 0
    BY <2>1, FS_EmptySet
  <2>3. ~(0 % 2 = 1)
    OBVIOUS
  <2> QED BY <1>4, <1>6, <2>2, <2>3
<1> QED BY <1>5, <1>6

\* The first character of a text is not escaped.
LEMMA NotEscapedAtStart == ASSUME NEW t PROVE ~Escaped(t, 1)
<1>1. \A b : b \notin Slashes(t, 1 - 1)
  BY DEF Slashes
<1>2. Cardinality(Slashes(t, 1 - 1)) = 0
  BY <1>1, FS_EmptySet
<1>3. ~(0 % 2 = 1)
  OBVIOUS
<1> QED BY <1>2, <1>3 DEF Escaped

\* Quotes, brackets, items' starts and stops are positions of the text.
LEMMA Positions ==
  ASSUME NEW t \in Seq(Chars)
  PROVE  /\ Len(t) \in Nat /\ DOMAIN t = 1..Len(t) /\ DOMAIN t \subseteq Pos
         /\ Quotes(t) \in SUBSET Pos /\ Legal(t) \in SUBSET DOMAIN t
         /\ \A class : Brackets(t, class) \in SUBSET Pos
         /\ Starts(t) \in SUBSET Pos /\ Stops(t) \in SUBSET Pos
         /\ Starts(t) \subseteq Legal(t) /\ Stops(t) \subseteq Legal(t)
<1>1. Len(t) \in Nat /\ DOMAIN t = 1..Len(t) /\ DOMAIN t \subseteq Pos
  BY DEF Pos
<1>2. Legal(t) \subseteq DOMAIN t
  BY DEF Legal
<1>3. Starts(t) \subseteq Legal(t)
  BY DEF Starts
<1>4. Stops(t) \subseteq Legal(t)
  BY DEF Stops
<1>5. Quotes(t) \subseteq DOMAIN t
  BY DEF Quotes
<1>6. \A class : Brackets(t, class) \subseteq DOMAIN t
  BY DEF Brackets
<1> HIDE DEF Pos
<1> QED BY <1>1, <1>2, <1>3, <1>4, <1>5, <1>6

\* What the character at p changes.
LEMMA PositionFacts ==
  ASSUME NEW t \in Seq(Chars), NEW p \in 1..Len(t)
  PROVE  LET q == Quotes(t)
             o == Brackets(t, Opening)
             c == Brackets(t, Closing)
         IN  /\ Inside(q, p) <=> IF t[p] = "quote" /\ ~Escaped(t, p) THEN ~Inside(q, p - 1)
                                                                     ELSE Inside(q, p - 1)
             /\ Level(o, c, p) \in Int /\ Level(o, c, p - 1) \in Int
             /\ Level(o, c, p) = Level(o, c, p - 1)
                  + (IF t[p] = "open" /\ ~Inside(q, p) THEN 1 ELSE 0)
                  - (IF t[p] = "close" /\ ~Inside(q, p) THEN 1 ELSE 0)
<1> DEFINE q == Quotes(t)
           o == Brackets(t, Opening)
           c == Brackets(t, Closing)
<1>1. p \in Pos /\ p - 1 \in Nat /\ p \in Nat
  BY Positions DEF Pos
<1>2. q \in SUBSET Pos /\ o \in SUBSET Pos /\ c \in SUBSET Pos
  BY Positions
<1>3. p \in q <=> t[p] = "quote" /\ ~Escaped(t, p)
  BY DEF Quotes
<1>4. p \in o <=> t[p] = "open" /\ ~Inside(q, p)
  BY DEF Brackets, Opening
<1>5. p \in c <=> t[p] = "close" /\ ~Inside(q, p)
  BY DEF Brackets, Closing
<1> HIDE DEF q, o, c
<1>6. UpTo(q, p) = UpTo(q, p - 1) + (IF p \in q THEN 1 ELSE 0) /\ UpTo(q, p - 1) \in Nat
  BY <1>1, <1>2, CountStep, CountType
<1>7. UpTo(o, p) = UpTo(o, p - 1) + (IF p \in o THEN 1 ELSE 0) /\ UpTo(o, p - 1) \in Nat
  BY <1>1, <1>2, CountStep, CountType
<1>8. UpTo(c, p) = UpTo(c, p - 1) + (IF p \in c THEN 1 ELSE 0) /\ UpTo(c, p - 1) \in Nat
  BY <1>1, <1>2, CountStep, CountType
<1>9. \A x \in Nat : ((x + 1) % 2 = 1) <=> ~(x % 2 = 1)
  OBVIOUS
<1>10. Inside(q, p) <=> IF p \in q THEN ~Inside(q, p - 1) ELSE Inside(q, p - 1)
  BY <1>6, <1>9 DEF Inside
<1>11. /\ Level(o, c, p) \in Int /\ Level(o, c, p - 1) \in Int
       /\ Level(o, c, p) = Level(o, c, p - 1) + (IF p \in o THEN 1 ELSE 0) - (IF p \in c THEN 1 ELSE 0)
  BY <1>7, <1>8 DEF Level
<1>12. /\ Inside(q, p) <=> IF t[p] = "quote" /\ ~Escaped(t, p) THEN ~Inside(q, p - 1)
                                                                ELSE Inside(q, p - 1)
       /\ Level(o, c, p) \in Int /\ Level(o, c, p - 1) \in Int
       /\ Level(o, c, p) = Level(o, c, p - 1)
            + (IF t[p] = "open" /\ ~Inside(q, p) THEN 1 ELSE 0)
            - (IF t[p] = "close" /\ ~Inside(q, p) THEN 1 ELSE 0)
  BY <1>3, <1>4, <1>5, <1>10, <1>11
<1> QED BY <1>12 DEF q, o, c
-----------------------------------------------------------------------------
\* Where the scanner is, when it is about to read the character at p
Lexed(t, p, st, u, d) ==
  /\ st \in {"value", "literal", "string", "escape", "utf8"}
  /\ \A i \in 1..p - 1 : i \in Legal(t)
  /\ d = Level(Brackets(t, Opening), Brackets(t, Closing), p - 1)
  /\ Inside(Quotes(t), p - 1) <=> st \in {"string", "escape", "utf8"}
  /\ Escaped(t, p) <=> st = "escape"
  /\ IF st = "utf8" THEN u \in 1..3 /\ Continues(t, p - 1, u)
                    ELSE \A m \in 1..3 : ~Continues(t, p - 1, m)
  /\ st = "literal" => p > 1 /\ t[p - 1] \in Literal
  /\ st = "value" /\ p > 1 /\ t[p - 1] \in Literal =>
       p \in Legal(t) /\ t[p] \in Blank \cup Closing

\* A character starts a UTF-8 sequence, takes one byte of it, or ends it.
LEMMA ContinuesNext ==
  ASSUME NEW t \in Seq(Chars), NEW p \in 1..Len(t), NEW due \in Int
  PROVE  Continues(t, p, due) <=>
           \/ t[p] \in Leads /\ due = Follow(t[p])
           \/ t[p] = "next" /\ Continues(t, p - 1, due + 1)
<1>0. p \in 1..Len(t) /\ Len(t) \in Nat /\ p \in Nat
  OBVIOUS
<1>1. ASSUME NEW l \in 1..p, t[l] \in Leads, \A m \in l + 1..p : t[m] = "next", due = Follow(t[l]) - (p - l)
      PROVE  \/ t[p] \in Leads /\ due = Follow(t[p])
             \/ t[p] = "next" /\ Continues(t, p - 1, due + 1)
  <2>1. Follow(t[l]) \in Int
    BY <1>1 DEF Follow, Leads
  <2>2. CASE l = p
    BY <1>0, <1>1, <2>1, <2>2
  <2>3. CASE l # p
    <3>1. p \in l + 1..p /\ l \in 1..p - 1
      BY <1>0, <2>3
    <3>2. \A m \in l + 1..p - 1 : m \in l + 1..p
      BY <1>0
    <3>3. due + 1 = Follow(t[l]) - (p - 1 - l)
      BY <1>0, <1>1, <2>1
    <3> QED BY <1>1, <3>1, <3>2, <3>3 DEF Continues
  <2> QED BY <2>2, <2>3
<1>2. ASSUME t[p] \in Leads, due = Follow(t[p]) PROVE Continues(t, p, due)
  <2>1. Follow(t[p]) \in Int
    BY <1>2 DEF Follow, Leads
  <2>2. p \in 1..p /\ (\A m \in p + 1..p : t[m] = "next") /\ due = Follow(t[p]) - (p - p)
    BY <1>0, <1>2, <2>1
  <2> QED BY <1>2, <2>2 DEF Continues
<1>3. ASSUME t[p] = "next", NEW l \in 1..p - 1, t[l] \in Leads, \A m \in l + 1..p - 1 : t[m] = "next",
             due + 1 = Follow(t[l]) - (p - 1 - l)
      PROVE  Continues(t, p, due)
  <2>1. Follow(t[l]) \in Int
    BY <1>3 DEF Follow, Leads
  <2>2. l \in 1..p /\ due = Follow(t[l]) - (p - l)
    <3>1. l \in Nat /\ l >= 1 /\ l <= p - 1
      BY <1>0
    <3>2. PICK f \in Int : f = Follow(t[l])
      BY <2>1
    <3>3. due = f - (p - l)
      <4>1. due + 1 = f - (p - 1 - l)
        BY <1>3, <3>2
      <4> QED BY <1>0, <3>1, <4>1
    <3> QED BY <1>0, <3>1, <3>2, <3>3
  <2>3. \A m \in l + 1..p : m \in l + 1..p - 1 \/ m = p
    BY <1>0
  <2>4. \A m \in l + 1..p : t[m] = "next"
    BY <1>3, <2>3
  <2> QED BY <1>3, <2>2, <2>4, Zenon DEF Continues
<1> QED BY <1>1, <1>2, <1>3 DEF Continues

\* How many bytes of a UTF-8 sequence are due is determined.
LEMMA ContinuesOnce ==
  ASSUME NEW t \in Seq(Chars), NEW i \in 0..Len(t), NEW a \in Int, NEW b \in Int,
         Continues(t, i, a), Continues(t, i, b)
  PROVE  a = b
<1>1. PICK l \in 1..i : t[l] \in Leads /\ (\A m \in l + 1..i : t[m] = "next") /\ a = Follow(t[l]) - (i - l)
  BY DEF Continues
<1>2. PICK j \in 1..i : t[j] \in Leads /\ (\A m \in j + 1..i : t[m] = "next") /\ b = Follow(t[j]) - (i - j)
  BY DEF Continues
<1>3. ~(l < j) /\ ~(j < l)
  BY <1>1, <1>2 DEF Leads
<1>4. l = j
  BY <1>3
<1> QED BY <1>1, <1>2, <1>4

\* What a character may be in each state
Admits(st, c) ==
  \/ st = "value" /\ c \in Blank \cup {"newline", "quote"} \cup Opening \cup Closing \cup LiteralStart
  \/ st = "literal" /\ c \in Blank \cup Closing \cup Literal
  \/ st = "string" /\ c \notin {"newline", "control", "delete", "next"}
  \/ st = "escape" /\ c \in Escapes
  \/ st = "utf8" /\ c = "next"

\* The state says which characters the text allows.
LEMMA AllowedByState ==
  ASSUME NEW t \in Seq(Chars), NEW p \in 1..Len(t), NEW st, NEW u, NEW d,
         Lexed(t, p, st, u, d)
  PROVE  Allowed(t, Quotes(t), p) <=> Admits(st, t[p])
<1>0. p \in 1..Len(t) /\ Len(t) \in Nat /\ p \in Nat
  OBVIOUS
<1>1. CASE st = "value"
  <2>1. ~Inside(Quotes(t), p - 1)
    BY <1>1 DEF Lexed
  <2>2. p > 1 /\ t[p - 1] \in Literal => t[p] \in Blank \cup Closing
    BY <1>1 DEF Lexed
  <2> QED BY <1>1, <2>1, <2>2 DEF Allowed, Admits
<1>2. CASE st = "literal"
  <2>1. ~Inside(Quotes(t), p - 1) /\ p > 1 /\ t[p - 1] \in Literal
    BY <1>2 DEF Lexed
  <2> QED BY <1>2, <2>1 DEF Allowed, Admits
<1>3. CASE st = "string"
  BY <1>3 DEF Allowed, Admits, Lexed
<1>4. CASE st = "escape"
  BY <1>4 DEF Allowed, Admits, Lexed
<1>5. CASE st = "utf8"
  <2>1. Inside(Quotes(t), p - 1) /\ ~Escaped(t, p) /\ \E m \in 1..3 : Continues(t, p - 1, m)
    BY <1>5 DEF Lexed
  <2> QED BY <1>5, <2>1 DEF Allowed, Admits
<1> QED BY <1>1, <1>2, <1>3, <1>4, <1>5 DEF Lexed

\* If all before p is legal, p is when it is allowed, and ends the legal part when not.
LEMMA LegalNext ==
  ASSUME NEW t \in Seq(Chars), NEW p \in 1..Len(t), \A i \in 1..p - 1 : i \in Legal(t)
  PROVE  /\ p \in Legal(t) <=> Allowed(t, Quotes(t), p)
         /\ ~Allowed(t, Quotes(t), p) => \A i \in Legal(t) : i < p
<1> DEFINE bad == {i \in DOMAIN t : ~Allowed(t, Quotes(t), i)}
<1>0. p \in Nat /\ p >= 1 /\ \A b \in DOMAIN t : b \in Nat /\ b >= 1
  OBVIOUS
<1>1. \A i : i \in Legal(t) <=> i \in DOMAIN t /\ \A b \in bad : i < b
  BY Zenon DEF Legal
<1>2. \A b : b \in bad <=> b \in DOMAIN t /\ ~Allowed(t, Quotes(t), b)
  OBVIOUS
<1> HIDE DEF bad
<1>3. \A b \in bad : b \in DOMAIN t /\ ~(b \in 1..p - 1)
  <2>1. ASSUME NEW b \in bad, b \in 1..p - 1 PROVE FALSE
    <3>1. b < b
      BY <1>1, <2>1
    <3> QED BY <1>0, <1>2, <3>1
  <2> QED BY <1>2, <2>1
<1>4. \A b \in bad : b >= p
  BY <1>0, <1>3
<1>5. CASE p \in bad
  <2>1. \A i \in Legal(t) : i < p
    BY <1>1, <1>5
  <2>2. ~(p < p)
    BY <1>0
  <2> QED BY <1>2, <1>5, <2>1, <2>2
<1>6. CASE p \notin bad
  <2>1. \A b \in bad : p < b
    BY <1>0, <1>3, <1>4, <1>6
  <2> QED BY <1>1, <1>2, <1>6, <2>1
<1> QED BY <1>5, <1>6
-----------------------------------------------------------------------------
\* The scanner in state st reads c, and is in state st2 then
Goes(st, u, c, st2, u2) ==
  \/ st = "value" /\ c \in Blank \cup {"newline"} \cup Opening \cup Closing /\ st2 = "value"
  \/ st = "value" /\ c = "quote" /\ st2 = "string"
  \/ st = "value" /\ c \in LiteralStart /\ st2 = "literal"
  \/ st = "literal" /\ c \in Literal /\ st2 = "literal"
  \/ st = "string" /\ c = "quote" /\ st2 = "value"
  \/ st = "string" /\ c = "backslash" /\ st2 = "escape"
  \/ st = "string" /\ c \in Leads /\ st2 = "utf8" /\ u2 = Follow(c)
  \/ st = "string" /\ c \notin Leads \cup {"quote", "backslash", "next"} /\ st2 = "string"
  \/ st = "escape" /\ c \in Escapes /\ st2 = "string"
  \/ st = "utf8" /\ c = "next" /\ u = 1 /\ st2 = "string"
  \/ st = "utf8" /\ c = "next" /\ u # 1 /\ st2 = "utf8" /\ u2 = u - 1

\* A character that is allowed takes the scanner from one state to the next.
LEMMA LexedNext ==
  ASSUME NEW t \in Seq(Chars), NEW p \in 1..Len(t),
         NEW st, NEW u, NEW d, NEW st2, NEW u2, NEW d2,
         Lexed(t, p, st, u, d), Allowed(t, Quotes(t), p), Goes(st, u, t[p], st2, u2),
         d2 = d + (IF st = "value" /\ t[p] = "open" THEN 1 ELSE 0)
                - (IF st = "value" /\ t[p] = "close" THEN 1 ELSE 0)
  PROVE  Lexed(t, p + 1, st2, u2, d2)
<1>0. p \in Nat /\ p >= 1 /\ (p + 1) - 1 = p
  OBVIOUS
<1>1. st2 \in {"value", "literal", "string", "escape", "utf8"}
  BY DEF Goes
<1>2. \A i \in 1..p : i \in Legal(t)
  <2>1. \A i \in 1..p - 1 : i \in Legal(t)
    BY DEF Lexed
  <2>2. p \in Legal(t)
    BY <2>1, LegalNext
  <2>3. \A i \in 1..p : i = p \/ i \in 1..p - 1
    OBVIOUS
  <2> QED BY <2>1, <2>2, <2>3
<1>3. Inside(Quotes(t), p) <=> st2 \in {"string", "escape", "utf8"}
  <2>1. Inside(Quotes(t), p) <=> IF t[p] = "quote" /\ ~Escaped(t, p) THEN ~Inside(Quotes(t), p - 1)
                                                                     ELSE Inside(Quotes(t), p - 1)
    BY PositionFacts
  <2>2. (Inside(Quotes(t), p - 1) <=> st \in {"string", "escape", "utf8"}) /\ (Escaped(t, p) <=> st = "escape")
    BY DEF Lexed
  <2>3. t[p] = "quote" => t[p] \notin Leads \cup Blank \cup {"newline"} \cup Opening \cup Closing \cup LiteralStart \cup Literal
    BY DEF Leads, Blank, Opening, Closing, LiteralStart, Literal
  <2> QED BY <2>1, <2>2, <2>3 DEF Goes
<1>4. Escaped(t, p + 1) <=> st2 = "escape"
  <2>1. Escaped(t, p + 1) <=> t[p] = "backslash" /\ ~Escaped(t, p)
    <3>1. p \in Pos
      BY DEF Pos
    <3> QED BY <3>1, EscapedNext
  <2>2. Escaped(t, p) <=> st = "escape"
    BY DEF Lexed
  <2>3. t[p] = "backslash" => t[p] \notin Leads \cup Blank \cup {"newline"} \cup Opening \cup Closing \cup LiteralStart \cup Literal
    BY DEF Leads, Blank, Opening, Closing, LiteralStart, Literal
  <2> QED BY <2>1, <2>2, <2>3 DEF Goes
<1>5. IF st2 = "utf8" THEN u2 \in 1..3 /\ Continues(t, p, u2) ELSE \A m \in 1..3 : ~Continues(t, p, m)
  <2>1. \A m \in Int : Continues(t, p, m) <=> \/ t[p] \in Leads /\ m = Follow(t[p])
                                              \/ t[p] = "next" /\ Continues(t, p - 1, m + 1)
    BY ContinuesNext
  <2>2. CASE st = "string" /\ t[p] \in Leads /\ st2 = "utf8" /\ u2 = Follow(t[p])
    <3>1. u2 \in 1..3
      BY <2>2 DEF Follow, Leads
    <3> QED BY <2>1, <2>2, <3>1
  <2>3. CASE st = "utf8" /\ t[p] = "next"
    <3>1. u \in 1..3 /\ Continues(t, p - 1, u)
      BY <2>3 DEF Lexed
    <3>2. p - 1 \in 0..Len(t)
      OBVIOUS
    <3>3. \A m \in 1..3 : Continues(t, p, m) => m + 1 = u
      <4>1. ASSUME NEW m \in 1..3, Continues(t, p, m) PROVE m + 1 = u
        <5>1. Continues(t, p - 1, m + 1)
          BY <2>1, <2>3, <4>1 DEF Leads
        <5> QED BY <3>1, <3>2, <5>1, ContinuesOnce
      <4> QED BY <4>1
    <3>4. CASE u = 1
      <4>1. st2 = "string"
        BY <2>3, <3>4 DEF Goes
      <4>2. \A m \in 1..3 : m + 1 # u
        BY <3>4
      <4> QED BY <3>3, <4>1, <4>2
    <3>5. CASE u # 1
      <4>1. st2 = "utf8" /\ u2 = u - 1
        BY <2>3, <3>5 DEF Goes
      <4>2. u2 \in 1..3 /\ u2 + 1 = u
        BY <3>1, <3>5, <4>1
      <4>3. Continues(t, p, u2)
        BY <2>1, <2>3, <3>1, <4>2
      <4> QED BY <4>1, <4>2, <4>3
    <3> QED BY <3>4, <3>5
  <2>4. CASE st2 # "utf8" /\ t[p] \notin Leads \cup {"next"}
    BY <2>1, <2>4
  <2>5. \/ st = "string" /\ t[p] \in Leads /\ st2 = "utf8" /\ u2 = Follow(t[p])
        \/ st = "utf8" /\ t[p] = "next"
        \/ st2 # "utf8" /\ t[p] \notin Leads \cup {"next"}
    BY DEF Goes, Leads, Blank, Opening, Closing, LiteralStart, Literal, Escapes
  <2> QED BY <2>2, <2>3, <2>4, <2>5
<1>6. (st2 = "literal" => t[p] \in Literal) /\ (st2 = "value" => t[p] \notin Literal)
  BY DEF Goes, Literal, LiteralStart, Blank, Opening, Closing
<1>7. d2 = Level(Brackets(t, Opening), Brackets(t, Closing), p)
  <2>1. d = Level(Brackets(t, Opening), Brackets(t, Closing), p - 1)
    BY DEF Lexed
  <2>2. t[p] \in {"open", "close"} => (~Inside(Quotes(t), p) <=> st = "value")
    <3>1. t[p] \in {"open", "close"} => t[p] \notin Leads \cup Escapes \cup LiteralStart \cup Literal \cup {"quote", "backslash", "next"}
      BY DEF Leads, Escapes, LiteralStart, Literal
    <3> QED BY <1>3, <3>1 DEF Goes
  <2>3. Level(Brackets(t, Opening), Brackets(t, Closing), p) = Level(Brackets(t, Opening), Brackets(t, Closing), p - 1)
                  + (IF t[p] = "open" /\ ~Inside(Quotes(t), p) THEN 1 ELSE 0)
                  - (IF t[p] = "close" /\ ~Inside(Quotes(t), p) THEN 1 ELSE 0)
    BY PositionFacts
  <2> QED BY <2>1, <2>2, <2>3
<1> QED BY <1>0, <1>1, <1>2, <1>3, <1>4, <1>5, <1>6, <1>7 DEF Lexed

\* A literal that ends
LEMMA LexedLeaves ==
  ASSUME NEW t \in Seq(Chars), NEW p \in 1..Len(t), NEW u, NEW d, NEW u2,
         Lexed(t, p, "literal", u, d), t[p] \in Blank \cup Closing
  PROVE  Lexed(t, p, "value", u2, d)
<1>1. Allowed(t, Quotes(t), p)
  BY AllowedByState DEF Admits
<1>2. p \in Legal(t)
  BY <1>1, LegalNext DEF Lexed
<1> QED BY <1>2 DEF Lexed
-----------------------------------------------------------------------------
\* The scanner's depth is a number, and 0 at first.
LEMMA DepthType ==
  ASSUME NEW t \in Seq(Chars), NEW p \in Nat, p >= 1, p <= Len(t) + 1,
         NEW st, NEW u, NEW d, Lexed(t, p, st, u, d)
  PROVE  d \in Int /\ (p = 1 => d = 0)
<1> DEFINE o == Brackets(t, Opening)
           c == Brackets(t, Closing)
<1>1. o \in SUBSET Pos /\ c \in SUBSET Pos
  BY Positions
<1>2. d = UpTo(o, p - 1) - UpTo(c, p - 1)
  BY DEF Lexed, Level
<1>3. p - 1 \in Nat
  OBVIOUS
<1> HIDE DEF o, c
<1>4. UpTo(o, p - 1) \in Nat /\ UpTo(c, p - 1) \in Nat
  BY <1>1, <1>3, CountType
<1>5. ASSUME p = 1 PROVE d = 0
  <2>1. UpTo(o, 0) = 0 /\ UpTo(c, 0) = 0 /\ p - 1 = 0
    BY <1>1, <1>5, CountZero
  <2> QED BY <1>2, <2>1
<1> QED BY <1>2, <1>4, <1>5

\* An item starts at p when the scanner sees its first character one level deep.
LEMMA StartsHere ==
  ASSUME NEW t \in Seq(Chars), NEW p \in 1..Len(t), NEW st, NEW u, NEW d,
         Lexed(t, p, st, u, d), Separated(t), Allowed(t, Quotes(t), p)
  PROVE  p \in Starts(t) <=> st = "value" /\ d = 1 /\ t[p] \in {"quote"} \cup Opening \cup LiteralStart
<1>0. p \in Nat /\ p >= 1 /\ p <= Len(t) + 1 /\ p \in DOMAIN t
  OBVIOUS
<1>1. p \in Legal(t)
  BY LegalNext DEF Lexed
<1>2. p \in Starts(t) <=>
         /\ d = 1 /\ ~Inside(Quotes(t), p - 1)
         /\ t[p] \in {"quote"} \cup Opening \/ (t[p] \in LiteralStart /\ t[p - 1] \notin Literal)
  BY <1>1 DEF Starts, Lexed
<1>3. d = 1 => p > 1
  BY <1>0, DepthType
<1>4. ~Inside(Quotes(t), p - 1) <=> st \in {"value", "literal"}
  BY DEF Lexed
<1>5. CASE st = "value"
  <2>1. p > 1 /\ t[p - 1] \in Literal => t[p] \in Blank \cup Closing
    BY <1>5 DEF Lexed
  <2>2. t[p] \in Blank \cup Closing => t[p] \notin {"quote"} \cup Opening \cup LiteralStart
    BY DEF Blank, Closing, Opening, LiteralStart
  <2> QED BY <1>2, <1>3, <1>4, <1>5, <2>1, <2>2
<1>6. CASE st = "literal"
  <2>1. p > 1 /\ t[p - 1] \in Literal
    BY <1>6 DEF Lexed
  <2>2. p \in DOMAIN t \ {1}
    BY <1>0, <2>1
  <2>3. t[p] \notin {"quote", "backslash", "open"}
    BY <1>4, <1>6, <2>1, <2>2 DEF Separated
  <2> QED BY <1>2, <1>6, <2>1, <2>3 DEF Opening
<1>7. CASE st \notin {"value", "literal"}
  BY <1>2, <1>4, <1>7
<1> QED BY <1>5, <1>6, <1>7

\* An item other than a literal stops at p when the scanner sees its last character.
LEMMA StopsHere ==
  ASSUME NEW t \in Seq(Chars), NEW p \in 1..Len(t), NEW st, NEW u, NEW d, NEW st2, NEW u2,
         Lexed(t, p, st, u, d), Allowed(t, Quotes(t), p), Goes(st, u, t[p], st2, u2),
         st2 # "literal"
  PROVE  p \in Stops(t) <=> \/ st = "string" /\ t[p] = "quote" /\ d = 1
                            \/ st = "value" /\ t[p] = "close" /\ d = 2
<1>0. p \in Nat /\ p >= 1 /\ p <= Len(t) + 1 /\ p \in DOMAIN t /\ (p + 1) - 1 = p
  OBVIOUS
<1>1. p \in Legal(t)
  BY LegalNext DEF Lexed
<1> DEFINE d2 == d + (IF st = "value" /\ t[p] = "open" THEN 1 ELSE 0)
                   - (IF st = "value" /\ t[p] = "close" THEN 1 ELSE 0)
<1>2. Lexed(t, p + 1, st2, u2, d2)
  BY LexedNext
<1>3. (Inside(Quotes(t), p) <=> st2 \in {"string", "escape", "utf8"})
      /\ d2 = Level(Brackets(t, Opening), Brackets(t, Closing), p)
  BY <1>0, <1>2 DEF Lexed
<1>4. p \in Stops(t) <=>
         /\ d2 = 1 /\ ~Inside(Quotes(t), p)
         /\ \/ t[p] \in {"quote"} \cup Closing
            \/ t[p] \in Literal /\ p + 1 \in Legal(t) /\ t[p + 1] \notin Literal
  BY <1>1, <1>3 DEF Stops
<1>5. d \in Int
  BY <1>0, DepthType
<1>6. ~Inside(Quotes(t), p) <=> st2 = "value"
  BY <1>3 DEF Goes
<1>7. st2 = "value" => t[p] \notin Literal
  BY DEF Goes, Literal, LiteralStart, Blank, Opening, Closing
<1>8. CASE t[p] = "quote"
  <2>1. st2 = "value" <=> st = "string"
    BY <1>8 DEF Goes, Literal, LiteralStart, Blank, Opening, Closing, Leads
  <2> QED BY <1>4, <1>5, <1>6, <1>7, <1>8, <2>1 DEF Closing
<1>9. CASE t[p] = "close"
  <2>1. st2 = "value" <=> st = "value"
    BY <1>9 DEF Goes, Literal, LiteralStart, Blank, Opening, Closing, Leads
  <2>2. st = "value" => d2 = d - 1
    BY <1>5, <1>9
  <2> QED BY <1>4, <1>5, <1>6, <1>7, <1>9, <2>1, <2>2 DEF Closing
<1>10. CASE t[p] \notin {"quote", "close"}
  BY <1>4, <1>6, <1>7, <1>10 DEF Closing
<1> QED BY <1>8, <1>9, <1>10

\* A literal stops before the first character that does not belong to it.
LEMMA StopsBefore ==
  ASSUME NEW t \in Seq(Chars), NEW p \in 1..Len(t), NEW u, NEW d,
         Lexed(t, p, "literal", u, d), Allowed(t, Quotes(t), p)
  PROVE  p - 1 \in Stops(t) <=> d = 1 /\ t[p] \notin Literal
<1>0. p \in Nat /\ p >= 1 /\ (p - 1) + 1 = p
  OBVIOUS
<1>1. p \in Legal(t)
  BY LegalNext DEF Lexed
<1>2. p > 1 /\ t[p - 1] \in Literal /\ ~Inside(Quotes(t), p - 1)
      /\ d = Level(Brackets(t, Opening), Brackets(t, Closing), p - 1)
  BY DEF Lexed
<1>3. p - 1 \in Legal(t)
  <2>1. p - 1 \in 1..p - 1
    BY <1>0, <1>2
  <2> QED BY <2>1 DEF Lexed
<1>4. t[p - 1] \notin {"quote"} \cup Closing
  BY <1>2 DEF Literal, LiteralStart, Closing
<1> QED BY <1>0, <1>1, <1>2, <1>3, <1>4 DEF Stops

\* Nor is the last character a stop, if a literal goes on there.
LEMMA NoStopAtEnd ==
  ASSUME NEW t \in Seq(Chars), NEW p \in Nat, p >= 1, NEW u, NEW d,
         Lexed(t, p, "literal", u, d), p \notin Legal(t)
  PROVE  p - 1 \notin Stops(t)
<1>1. t[p - 1] \in Literal /\ (p - 1) + 1 = p
  BY DEF Lexed
<1>2. t[p - 1] \notin {"quote"} \cup Closing
  BY <1>1 DEF Literal, LiteralStart, Closing
<1> QED BY <1>1, <1>2 DEF Stops
-----------------------------------------------------------------------------
\* The items of call c that are its key, and its value
KeyAt(c, i) == IsKey(c.text, Starts(c.text), Stops(c.text), c.key, i)
ValueAt(c, i) == IsValue(c.text, Starts(c.text), Stops(c.text), c.key, c.index, i)
FirstKey(c, i) == KeyAt(c, i) /\ \A x \in Starts(c.text) : KeyAt(c, x) => i <= x
NoKey(c, r) == \A i \in Starts(c.text) : i <= r => ~KeyAt(c, i)

\* An item of the outermost structure has started and not stopped
Opened(d, st) == d > 1 \/ (d = 1 /\ st # "value")

\* What the key is that the scanner has read, and what it looks for then
Keys(c, r, z, d, st, ind, kk) ==
  LET S == Starts(c.text) IN
  \/ ind = 1 /\ kk = 0 /\ UpTo(S, r) % 2 = 0 /\ NoKey(c, r)
  \/ /\ ind = 1 /\ kk \in S /\ kk <= r /\ Opened(d, st)
     /\ Rank(S, kk) % 2 = 0 /\ UpTo(S, r) = Rank(S, kk) + 1
     /\ (\A i \in S : i <= r => i <= kk) /\ \A i \in S : i < kk => ~KeyAt(c, i)
     /\ \A x \in Stops(c.text) : x <= z => x < kk
  \/ ind = 2 /\ kk = 0 /\ UpTo(S, r) % 2 = 1 /\ NoKey(c, r)
  \/ ind = 0 /\ kk = 0 /\ \E j \in S : FirstKey(c, j) /\ UpTo(S, r) = Rank(S, j) + 1

\* How far the look-up is when the characters up to r have been read and the
\* stops up to z been noticed
Looked(c, r, z, d, st, ind, kk, v) ==
  /\ v # 0 => /\ v <= r /\ Opened(d, st) /\ ind = 0 /\ kk = 0 /\ ValueAt(c, v)
              /\ \A x \in Stops(c.text) : x <= z => x < v
  /\ v = 0 /\ c.key = << >> => kk = 0 /\ ind \in Nat /\ ind = c.index - UpTo(Starts(c.text), r)
  /\ v = 0 /\ c.key # << >> => Keys(c, r, z, d, st, ind, kk)

\* The texts of calls are sequences, and their items start and stop at positions.
LEMMA CallTypes ==
  ASSUME NEW c \in Inputs
  PROVE  /\ c.text \in Seq(Chars) /\ c.index \in Int
         /\ Starts(c.text) \in SUBSET Pos /\ Stops(c.text) \in SUBSET Pos
         /\ \A i \in Starts(c.text) : i \in Nat /\ i >= 1
         /\ \A e \in Stops(c.text) : e \in Nat /\ e >= 1
<1>1. c.text \in Seq(Chars) /\ c.index \in Int
  BY InputsAssumption
<1>2. Starts(c.text) \in SUBSET Pos /\ Stops(c.text) \in SUBSET Pos
  BY <1>1, Positions
<1> QED BY <1>1, <1>2 DEF Pos

\* The count of starts stays where none is.
LEMMA CountOn ==
  ASSUME NEW c \in Inputs, NEW r \in Nat, NEW s \in Nat,
         s = r \/ (s = r + 1 /\ s \notin Starts(c.text))
  PROVE  /\ UpTo(Starts(c.text), s) = UpTo(Starts(c.text), r)
         /\ UpTo(Starts(c.text), r) \in Nat
         /\ \A i \in Starts(c.text) : i <= s <=> i <= r
<1>1. Starts(c.text) \in SUBSET Pos /\ \A i \in Starts(c.text) : i \in Nat /\ i >= 1
  BY CallTypes
<1>2. UpTo(Starts(c.text), r) \in Nat
  BY <1>1, CountType
<1>3. CASE s = r
  BY <1>2, <1>3
<1>4. CASE s = r + 1 /\ s \notin Starts(c.text)
  <2>1. s \in Pos /\ s - 1 = r
    BY <1>4 DEF Pos
  <2>2. UpTo(Starts(c.text), s) = UpTo(Starts(c.text), s - 1) + 0
    BY <1>1, <1>4, <2>1, CountStep
  <2>3. \A i \in Starts(c.text) : i <= s <=> i <= r
    BY <1>1, <1>4
  <2> QED BY <1>2, <2>1, <2>2, <2>3
<1> QED BY <1>3, <1>4

\* A character that neither starts nor stops an item changes nothing.
LEMMA LookedOn ==
  ASSUME NEW c \in Inputs, NEW r \in Nat, NEW s \in Nat, NEW z \in Int, NEW z2 \in Int,
         NEW d, NEW st, NEW d2, NEW st2, NEW ind, NEW kk \in Int, NEW v \in Int,
         Looked(c, r, z, d, st, ind, kk, v),
         s = r \/ (s = r + 1 /\ s \notin Starts(c.text)),
         \A x \in Stops(c.text) : x <= z2 => x <= z,
         Opened(d, st) => Opened(d2, st2)
  PROVE  Looked(c, s, z2, d2, st2, ind, kk, v)
<1>1. /\ UpTo(Starts(c.text), s) = UpTo(Starts(c.text), r)
      /\ \A i \in Starts(c.text) : i <= s <=> i <= r
  BY CountOn
<1>2. v <= r => v <= s
  OBVIOUS
<1>3. kk <= r => kk <= s
  OBVIOUS
<1>4. NoKey(c, r) <=> NoKey(c, s)
  BY <1>1 DEF NoKey
<1>5. Keys(c, r, z, d, st, ind, kk) => Keys(c, s, z2, d2, st2, ind, kk)
  BY <1>1, <1>3, <1>4 DEF Keys
<1> QED BY <1>1, <1>2, <1>5 DEF Looked

\* An item starts.
LEMMA LookedStart ==
  ASSUME NEW c \in Inputs, NEW r \in Nat, NEW z \in Int, NEW z2 \in Int,
         NEW d, NEW st, NEW d2, NEW st2,
         NEW ind, NEW kk \in Int, NEW v \in Int, NEW ind2, NEW kk2, NEW v2,
         Looked(c, r, z, d, st, ind, kk, v), ~Opened(d, st), Opened(d2, st2),
         r + 1 \in Starts(c.text),
         \A x \in Stops(c.text) : x <= z2 => x <= r,
         v2 = IF ind = 0 THEN r + 1 ELSE v,
         kk2 = IF ind = 1 /\ c.key # << >> THEN r + 1 ELSE kk,
         ind2 = IF ind = 0 \/ (ind = 1 /\ c.key # << >>) THEN ind ELSE ind - 1
  PROVE  Looked(c, r + 1, z2, d2, st2, ind2, kk2, v2)
<1> DEFINE S == Starts(c.text)
<1>0. /\ S \in SUBSET Pos /\ c.index \in Int /\ (\A i \in S : i \in Nat /\ i >= 1)
      /\ (\A e \in Stops(c.text) : e \in Nat /\ e >= 1) /\ r + 1 \in Pos /\ (r + 1) - 1 = r
  BY CallTypes DEF Pos
<1>1. UpTo(S, r) \in Nat
  BY <1>0, CountType
<1>2. UpTo(S, r + 1) = UpTo(S, r) + 1
  BY <1>0, CountStep
<1>3. Rank(S, r + 1) = UpTo(S, r)
  BY <1>0 DEF Rank
<1>4. v = 0
  BY DEF Looked
<1>5. \A x \in Stops(c.text) : x <= z2 => x < r + 1
  BY <1>0
<1>6. \A i \in S : i <= r + 1 <=> i <= r \/ i = r + 1
  BY <1>0
<1>7. r + 1 <= r + 1 /\ r + 1 # 0 /\ (\A i \in S : i < r + 1 <=> i <= r)
  BY <1>0
<1>8. CASE c.key = << >>
  <2>1. kk = 0 /\ ind \in Nat /\ ind = c.index - UpTo(S, r)
    BY <1>4, <1>8 DEF Looked
  <2>2. CASE ind = 0
    <3>1. UpTo(S, r) = c.index
      BY <1>0, <1>1, <2>1, <2>2
    <3>2. ValueAt(c, r + 1)
      BY <1>3, <1>8, <3>1 DEF ValueAt, IsValue
    <3> QED BY <1>5, <1>7, <1>8, <2>1, <2>2, <3>2 DEF Looked
  <2>3. CASE ind # 0
    <3>1. v2 = 0 /\ kk2 = 0 /\ ind2 = ind - 1
      BY <1>4, <1>8, <2>1, <2>3
    <3>2. ind2 \in Nat /\ ind2 = c.index - UpTo(S, r + 1)
      BY <1>0, <1>1, <1>2, <2>1, <2>3, <3>1
    <3> QED BY <1>8, <3>1, <3>2 DEF Looked
  <2> QED BY <2>2, <2>3
<1>9. CASE c.key # << >>
  <2>0. Keys(c, r, z, d, st, ind, kk)
    BY <1>4, <1>9 DEF Looked
  <2>1. CASE ind = 1 /\ kk = 0 /\ UpTo(S, r) % 2 = 0 /\ NoKey(c, r)
    <3>1. v2 = 0 /\ kk2 = r + 1 /\ ind2 = 1
      BY <1>4, <1>9, <2>1
    <3>2. (\A i \in S : i <= r + 1 => i <= r + 1) /\ \A i \in S : i < r + 1 => ~KeyAt(c, i)
      BY <1>7, <2>1 DEF NoKey
    <3>3. Keys(c, r + 1, z2, d2, st2, ind2, kk2)
      BY <1>2, <1>3, <1>5, <1>7, <2>1, <3>1, <3>2 DEF Keys
    <3> QED BY <1>9, <3>1, <3>3 DEF Looked
  <2>2. CASE ind = 2 /\ kk = 0 /\ UpTo(S, r) % 2 = 1 /\ NoKey(c, r)
    <3>1. v2 = 0 /\ kk2 = 0 /\ ind2 = 1
      BY <1>4, <2>2
    <3>2. ~KeyAt(c, r + 1)
      BY <1>1, <1>3, <2>2 DEF KeyAt, IsKey
    <3>3. NoKey(c, r + 1)
      BY <1>6, <2>2, <3>2 DEF NoKey
    <3>4. UpTo(S, r + 1) % 2 = 0
      <4>1. \A x \in Nat : x % 2 = 1 => (x + 1) % 2 = 0
        OBVIOUS
      <4> QED BY <1>1, <1>2, <2>2, <4>1
    <3> QED BY <1>9, <3>1, <3>3, <3>4 DEF Looked, Keys
  <2>3. CASE ind = 0 /\ kk = 0 /\ \E j \in S : FirstKey(c, j) /\ UpTo(S, r) = Rank(S, j) + 1
    <3>1. v2 = r + 1 /\ kk2 = 0 /\ ind2 = 0
      BY <2>3
    <3>2. ValueAt(c, r + 1)
      BY <1>3, <1>9, <2>3 DEF ValueAt, IsValue, FirstKey, KeyAt
    <3> QED BY <1>5, <1>7, <3>1, <3>2 DEF Looked
  <2> QED BY <2>0, <2>1, <2>2, <2>3 DEF Keys
<1> QED BY <1>8, <1>9

\* An item has one end.
LEMMA SpansOnce ==
  ASSUME NEW c \in Inputs, NEW i, NEW a, NEW b, Spans(Stops(c.text), i, a), Spans(Stops(c.text), i, b)
  PROVE  a = b
<1>1. a \in Stops(c.text) /\ b \in Stops(c.text) /\ a <= b /\ b <= a
  BY DEF Spans
<1>2. a \in Nat /\ b \in Nat
  BY <1>1, CallTypes
<1> QED BY <1>1, <1>2

\* An item that stops behind z goes to s, if that is the first stop there.
LEMMA SpansFirst ==
  ASSUME NEW c \in Inputs, NEW z \in Int, NEW s \in Stops(c.text), NEW i \in Int, i <= s,
         \A x \in Stops(c.text) : x < s => x <= z, \A x \in Stops(c.text) : x <= z => x < i
  PROVE  Spans(Stops(c.text), i, s)
<1>1. \A e \in Stops(c.text) : e \in Nat /\ e >= 1
  BY CallTypes
<1>2. ASSUME NEW x \in Stops(c.text), i <= x PROVE s <= x
  BY <1>1, <1>2
<1> QED BY <1>2 DEF Spans

\* The value stops at s, the first stop after z.
LEMMA LookedFound ==
  ASSUME NEW c \in Inputs, NEW r \in Nat, NEW z \in Int, NEW s \in Stops(c.text),
         NEW d, NEW st, NEW ind, NEW kk, NEW v \in Int, v # 0,
         Looked(c, r, z, d, st, ind, kk, v), r <= s, \A x \in Stops(c.text) : x < s => x <= z
  PROVE  ind = 0 /\ ValueAt(c, v) /\ Spans(Stops(c.text), v, s)
<1>1. v <= r /\ ind = 0 /\ ValueAt(c, v) /\ \A x \in Stops(c.text) : x <= z => x < v
  BY DEF Looked
<1>2. v <= s
  BY <1>1, CallTypes
<1> QED BY <1>1, <1>2, SpansFirst

\* What EndsAt makes of index and k
Compared(c, s, ind, kk, ind2, kk2) ==
  /\ ind2 = IF c.key # << >> /\ kk # 0
            THEN IF SubSeq(c.text, kk + 1, s - 1) = c.key THEN 0 ELSE 2 ELSE ind
  /\ kk2 = IF c.key # << >> THEN 0 ELSE kk

\* Another item stops at s, the first stop after z.
LEMMA LookedStop ==
  ASSUME NEW c \in Inputs, NEW r \in Nat, NEW r2 \in Nat, NEW z \in Int, NEW z2 \in Int, NEW s \in Stops(c.text),
         NEW d, NEW st, NEW d2, NEW st2, NEW ind, NEW kk \in Int, NEW ind2, NEW kk2,
         Looked(c, r, z, d, st, ind, kk, 0),
         r2 = r \/ (r2 = r + 1 /\ r2 \notin Starts(c.text)),
         r <= s, \A x \in Stops(c.text) : x < s => x <= z,
         Compared(c, s, ind, kk, ind2, kk2)
  PROVE  Looked(c, r2, z2, d2, st2, ind2, kk2, 0)
<1> DEFINE S == Starts(c.text)
<1>0. /\ S \in SUBSET Pos /\ (\A i \in S : i \in Nat /\ i >= 1)
      /\ (\A e \in Stops(c.text) : e \in Nat /\ e >= 1)
  BY CallTypes
<1>3. CASE c.key = << >>
  <2>1. kk = 0 /\ ind2 = ind /\ kk2 = kk /\ ind \in Nat /\ ind = c.index - UpTo(S, r)
    BY <1>3 DEF Looked, Compared
  <2>2. UpTo(S, r2) = UpTo(S, r)
    BY CountOn
  <2> QED BY <1>3, <2>1, <2>2 DEF Looked
<1>4. CASE c.key # << >>
  <2>0. Keys(c, r, z, d, st, ind, kk)
    BY <1>4 DEF Looked
  <2>1. /\ UpTo(S, r2) = UpTo(S, r) /\ UpTo(S, r) \in Nat
        /\ \A i \in S : i <= r2 <=> i <= r
    BY CountOn
  <2>2. NoKey(c, r) <=> NoKey(c, r2)
    BY <2>1 DEF NoKey
  <2>3. kk2 = 0
    BY <1>4 DEF Compared
  <2>4. CASE kk = 0
    <3>1. ind2 = ind
      BY <1>4, <2>4 DEF Compared
    <3>2. Keys(c, r2, z2, d2, st2, ind2, kk2)
      BY <1>0, <2>0, <2>1, <2>2, <2>3, <2>4, <3>1 DEF Keys
    <3> QED BY <1>4, <2>3, <3>2 DEF Looked
  <2>5. CASE kk # 0
    <3>1. /\ kk \in S /\ kk <= r
          /\ Rank(S, kk) % 2 = 0 /\ UpTo(S, r) = Rank(S, kk) + 1
          /\ (\A i \in S : i <= r => i <= kk) /\ (\A i \in S : i < kk => ~KeyAt(c, i))
          /\ \A x \in Stops(c.text) : x <= z => x < kk
      BY <2>0, <2>5 DEF Keys
    <3>2. Spans(Stops(c.text), kk, s)
      <4>1. kk <= s
        BY <1>0, <3>1
      <4> QED BY <3>1, <4>1, SpansFirst
    <3>3. CASE SubSeq(c.text, kk + 1, s - 1) = c.key
      <4>1. ind2 = 0
        BY <1>4, <2>5, <3>3 DEF Compared
      <4>2. KeyAt(c, kk)
        BY <3>1, <3>2, <3>3 DEF KeyAt, IsKey
      <4>3. FirstKey(c, kk)
        <5>1. ASSUME NEW x \in S, KeyAt(c, x) PROVE kk <= x
          BY <1>0, <3>1, <5>1
        <5> QED BY <4>2, <5>1 DEF FirstKey
      <4>4. Keys(c, r2, z2, d2, st2, ind2, kk2)
        BY <2>1, <2>3, <3>1, <4>1, <4>3 DEF Keys
      <4> QED BY <1>4, <2>3, <4>4 DEF Looked
    <3>4. CASE SubSeq(c.text, kk + 1, s - 1) # c.key
      <4>1. ind2 = 2
        BY <1>4, <2>5, <3>4 DEF Compared
      <4>2. ~KeyAt(c, kk)
        BY <3>2, <3>4, SpansOnce DEF KeyAt, IsKey
      <4>3. NoKey(c, r)
        <5>1. ASSUME NEW i \in S, i <= r PROVE ~KeyAt(c, i)
          <6>1. i <= kk
            BY <3>1, <5>1
          <6>2. i = kk \/ i < kk
            BY <1>0, <6>1
          <6> QED BY <3>1, <4>2, <6>2
        <5> QED BY <5>1 DEF NoKey
      <4>4. UpTo(S, r2) % 2 = 1
        <5>1. Rank(S, kk) \in Nat
          <6>1. kk - 1 \in Nat
            BY <1>0, <3>1
          <6> QED BY <1>0, <6>1, CountType DEF Rank
        <5>2. \A x \in Nat : x % 2 = 0 => (x + 1) % 2 = 1
          OBVIOUS
        <5> QED BY <2>1, <3>1, <5>1, <5>2
      <4>5. Keys(c, r2, z2, d2, st2, ind2, kk2)
        BY <2>2, <2>3, <4>1, <4>3, <4>4 DEF Keys
      <4> QED BY <1>4, <2>3, <4>5 DEF Looked
    <3> QED BY <3>3, <3>4
  <2> QED BY <2>4, <2>5
<1> QED BY <1>3, <1>4

\* There is one value.
LEMMA ValueOnce ==
  ASSUME NEW c \in Inputs, NEW i, NEW j, ValueAt(c, i), ValueAt(c, j)
  PROVE  i = j
<1> DEFINE S == Starts(c.text)
<1>0. S \in SUBSET Pos /\ \A x \in S : x \in Nat
  BY CallTypes
<1>1. i \in S /\ j \in S
  BY DEF ValueAt, IsValue
<1>2. Rank(S, i) = Rank(S, j)
  <2>1. CASE c.key = << >>
    BY <2>1 DEF ValueAt, IsValue
  <2>2. CASE c.key # << >>
    <3>1. PICK a \in S : FirstKey(c, a) /\ Rank(S, i) = Rank(S, a) + 1
      BY <2>2 DEF ValueAt, IsValue, FirstKey, KeyAt
    <3>2. PICK b \in S : FirstKey(c, b) /\ Rank(S, j) = Rank(S, b) + 1
      BY <2>2 DEF ValueAt, IsValue, FirstKey, KeyAt
    <3>3. a <= b /\ b <= a
      BY <3>1, <3>2 DEF FirstKey
    <3>4. a = b
      BY <1>0, <3>3
    <3> QED BY <3>1, <3>2, <3>4
  <2> QED BY <2>1, <2>2
<1> QED BY <1>0, <1>1, <1>2, CountSame DEF Rank

\* When the scanner has read all that is legal and the value has not stopped,
\* there is none.
LEMMA LookedNone ==
  ASSUME NEW c \in Inputs, NEW r \in Nat, NEW z \in Int, NEW d, NEW st, NEW ind, NEW kk \in Int, NEW v \in Int,
         Looked(c, r, z, d, st, ind, kk, v),
         \A i \in Starts(c.text) : i <= r, \A x \in Stops(c.text) : x <= z,
         NEW i \in Starts(c.text), NEW e \in Stops(c.text)
  PROVE  ~(ValueAt(c, i) /\ Spans(Stops(c.text), i, e))
<1> SUFFICES ASSUME ValueAt(c, i), Spans(Stops(c.text), i, e) PROVE FALSE
  OBVIOUS
<1> DEFINE S == Starts(c.text)
<1>0. /\ S \in SUBSET Pos /\ (\A x \in S : x \in Nat /\ x >= 1) /\ c.index \in Int
      /\ (\A x \in Stops(c.text) : x \in Nat /\ x >= 1) /\ UpTo(S, r) \in Nat
  BY CallTypes, CountType
<1>1. \A x \in S : Rank(S, x) < UpTo(S, r) /\ Rank(S, x) \in Nat
  <2>1. ASSUME NEW x \in S PROVE Rank(S, x) < UpTo(S, r) /\ Rank(S, x) \in Nat
    <3>1. x <= r /\ x - 1 \in Nat
      BY <1>0
    <3> QED BY <1>0, <3>1, CountBelow, CountType DEF Rank
  <2> QED BY <2>1
<1>2. i <= e /\ e <= z
  BY DEF Spans
<1>3. CASE v # 0
  <2>1. ValueAt(c, v) /\ e < v
    BY <1>2, <1>3 DEF Looked
  <2>2. i = v
    BY <2>1, ValueOnce
  <2> QED BY <1>0, <1>2, <2>1, <2>2
<1>4. CASE v = 0 /\ c.key = << >>
  <2>1. ind \in Nat /\ ind = c.index - UpTo(S, r) /\ Rank(S, i) = c.index
    BY <1>4 DEF Looked, ValueAt, IsValue
  <2> QED BY <1>0, <1>1, <2>1
<1>5. CASE v = 0 /\ c.key # << >>
  <2>1. PICK a \in S : FirstKey(c, a) /\ Rank(S, i) = Rank(S, a) + 1
    BY <1>5 DEF ValueAt, IsValue, FirstKey, KeyAt
  <2>2. ~NoKey(c, r)
    BY <2>1 DEF NoKey, FirstKey
  <2>3. CASE ind = 0 /\ kk = 0 /\ \E j \in S : FirstKey(c, j) /\ UpTo(S, r) = Rank(S, j) + 1
    <3>1. PICK j \in S : FirstKey(c, j) /\ UpTo(S, r) = Rank(S, j) + 1
      BY <2>3
    <3>2. a <= j /\ j <= a
      BY <2>1, <3>1 DEF FirstKey
    <3>3. a = j
      BY <1>0, <3>2
    <3> QED BY <1>0, <1>1, <2>1, <3>1, <3>3
  <2>4. CASE /\ kk \in S /\ \A x \in S : x <= r => x <= kk
             /\ \A x \in S : x < kk => ~KeyAt(c, x)
             /\ \A x \in Stops(c.text) : x <= z => x < kk
    <3>1. a = kk
      <4>1. a <= kk /\ ~(a < kk)
        BY <2>1, <2>4 DEF FirstKey
      <4> QED BY <1>0, <2>4, <4>1
    <3>2. PICK x \in Stops(c.text) : Spans(Stops(c.text), kk, x)
      BY <2>1, <3>1 DEF FirstKey, KeyAt, IsKey
    <3>3. kk <= x /\ x < kk
      BY <2>4, <3>2 DEF Spans
    <3> QED BY <1>0, <2>4, <3>3
  <2> QED BY <1>5, <2>2, <2>3, <2>4 DEF Looked, Keys
<1> QED BY <1>3, <1>4, <1>5
-----------------------------------------------------------------------------
\* What the scanner does with c, when it reads it
LEMMA LexTable ==
  ASSUME NEW c \in Chars, state \in {"value", "literal", "string", "escape", "utf8"},
         state = "literal" => c \notin {"quote", "backslash", "open"}
  PROVE  /\ Lex(c) = Malformed <=> ~Admits(state, c)
         /\ Admits(state, c) =>
              IF state = "literal" /\ c \in Blank \cup Closing
              THEN Lex(c) = Token("value", "end_before")
              ELSE /\ Goes(state, utf8, c, Lex(c).next, Utf8Bytes(c))
                   /\ Lex(c).action =
                        CASE state = "value" /\ c \in {"quote"} \cup LiteralStart -> "start"
                          [] state = "value" /\ c = "open" -> "start_struct"
                          [] state = "value" /\ c = "close" -> "end_struct"
                          [] state = "string" /\ c = "quote" -> "end"
                          [] OTHER -> "none"
<1> USE DEF Admits, Token, Malformed, Lex, Goes
<1>1. CASE state = "value"
  BY <1>1 DEF Blank, Opening, Closing, LiteralStart
<1>2. CASE state = "literal"
  <2>1. Lex(c) = LexLiteral(c)
    BY <1>2
  <2>2. CASE c \in Blank \cup Closing
    BY <1>2, <2>2 DEF LexLiteral
  <2>3. CASE c \in Literal
    <3>1. c \in Printable /\ c \notin Blank \cup Closing
      BY <2>3 DEF Literal, LiteralStart, Printable, Escapes, Blank, Closing
    <3>2. c \notin Leads /\ c \notin {"quote", "backslash", "newline", "control", "delete", "next"}
      BY <2>3 DEF Literal, LiteralStart, Leads
    <3>3. Lex(c) = Token("literal", "none")
      BY <2>1, <3>1, <3>2 DEF LexLiteral, LexText
    <3> QED BY <1>2, <2>3, <3>1, <3>3
  <2>4. CASE c \notin Blank \cup Closing \cup Literal
    <3>1. c \notin Printable
      BY <1>2, <2>4 DEF Literal, LiteralStart, Printable, Escapes, Opening
    <3>2. Lex(c) = Malformed
      BY <2>1, <2>4, <3>1 DEF LexLiteral
    <3> QED BY <1>2, <2>4, <3>2
  <2> QED BY <2>2, <2>3, <2>4
<1>3. CASE state = "string"
  <2>1. Lex(c) = LexText("string", c)
    BY <1>3
  <2> QED BY <1>3, <2>1 DEF LexText, Leads, Utf8Bytes, Follow
<1>4. CASE state = "escape"
  BY <1>4
<1>5. CASE state = "utf8"
  BY <1>5 DEF Utf8Bytes
<1> QED BY <1>1, <1>2, <1>3, <1>4, <1>5
-----------------------------------------------------------------------------
\* The stops up to there have been noticed: that of a literal is when it is left
Noticed == IF state = "literal" THEN pos - 2 ELSE pos - 1

\* The value is a string and has not stopped
Quoted(c, v, d, p) ==
  v # 0 /\ c.text[v] = "quote" => d = 1 /\ \A i \in v..p - 1 : Inside(Quotes(c.text), i)

\* What is known while the scanner runs
Scanning ==
  /\ Lexed(input.text, pos, state, utf8, depth)
  /\ Looked(input, pos - 1, Noticed, depth, state, index, k, value)
  /\ Quoted(input, value, depth, pos)

\* Nothing is where c looks
NoItem(c) == \A i \in Starts(c.text), e \in Stops(c.text) : ~(ValueAt(c, i) /\ Spans(Stops(c.text), i, e))

\* The item from v to e has been found
Item(c, v, e) ==
  /\ e \in Stops(c.text) /\ ValueAt(c, v) /\ Spans(Stops(c.text), v, e)
  /\ c.text[v] = "quote" =>
       /\ v < e /\ c.text[e] = "quote" /\ ~Escaped(c.text, e)
       /\ \A p \in v + 1..e - 1 : Escaped(c.text, p) => c.text[p] \in Escapes

\* What the scanner returns: the item and its size, or no size if there is none
Fetched(c, v, sz) ==
  \/ \E e \in Stops(c.text) : Item(c, v, e) /\ sz = e + 1 - v
  \/ sz = 0 /\ NoItem(c)

\* What is legal is allowed.
LEMMA LegalAllowed ==
  ASSUME NEW t \in Seq(Chars), NEW i \in Legal(t)
  PROVE  Allowed(t, Quotes(t), i)
<1>1. i \in DOMAIN t /\ \A b \in {x \in DOMAIN t : ~Allowed(t, Quotes(t), x)} : i < b
  BY Zenon DEF Legal
<1>2. ~(i < i)
  BY <1>1
<1> QED BY <1>1, <1>2

\* A string that stops at p has only known escapes in it.
LEMMA StringStops ==
  ASSUME NEW c \in Inputs, NEW p \in 1..Len(c.text), NEW st, NEW u, NEW d, NEW v \in 1..p - 1,
         Lexed(c.text, p, st, u, d), Quoted(c, v, d, p), st = "string", c.text[p] = "quote",
         p \in Stops(c.text), ValueAt(c, v), Spans(Stops(c.text), v, p)
  PROVE  Item(c, v, p)
<1>1. ~Escaped(c.text, p)
  BY DEF Lexed
<1>2. ASSUME c.text[v] = "quote", NEW i \in v + 1..p - 1, Escaped(c.text, i)
      PROVE  c.text[i] \in Escapes
  <2>1. Inside(Quotes(c.text), i - 1)
    <3>1. i - 1 \in v..p - 1 /\ v # 0
      OBVIOUS
    <3> QED BY <1>2, <3>1 DEF Quoted
  <2>2. i \in Legal(c.text)
    <3>1. i \in 1..p - 1
      OBVIOUS
    <3> QED BY <3>1 DEF Lexed
  <2>3. Allowed(c.text, Quotes(c.text), i)
    BY <2>2, CallTypes, LegalAllowed
  <2> QED BY <1>2, <2>1, <2>3 DEF Allowed
<1>3. v < p
  OBVIOUS
<1> QED BY <1>1, <1>2, <1>3 DEF Item
-----------------------------------------------------------------------------
\* The scanner is about to read a character
Reading ==
  /\ pc = "scan" /\ input \in Inputs /\ pos \in 1..Len(input.text) /\ k \in Int /\ value \in Int
  /\ Separated(input.text) /\ Scanning

\* The character that is read may follow a literal.
LEMMA AfterLiteral ==
  ASSUME Reading, state = "literal"
  PROVE  input.text[pos] \notin {"quote", "backslash", "open"}
<1>1. /\ pos > 1 /\ input.text[pos - 1] \in Literal /\ ~Inside(Quotes(input.text), pos - 1)
  BY DEF Reading, Scanning, Lexed
<1>2. pos \in DOMAIN input.text \ {1}
  BY <1>1, CallTypes DEF Reading
<1> QED BY <1>1, <1>2 DEF Reading, Separated

\* A character that is refused ends the text that is legal.
LEMMA TurnRefused ==
  ASSUME Reading, ~Allowed(input.text, Quotes(input.text), pos)
  PROVE  NoItem(input)
<1> DEFINE t == input.text
<1>0. t \in Seq(Chars) /\ pos \in Nat /\ pos >= 1 /\ pos - 1 \in Nat
  BY CallTypes DEF Reading
<1>1. \A i \in Legal(t) : i < pos
  BY <1>0, LegalNext DEF Reading, Scanning, Lexed
<1>2. \A i \in Starts(t) : i <= pos - 1
  BY <1>0, <1>1, CallTypes, Positions DEF Reading
<1>3. \A x \in Stops(t) : x <= Noticed
  <2>1. \A x \in Stops(t) : x \in Nat /\ x <= pos - 1
    BY <1>0, <1>1, CallTypes, Positions DEF Reading
  <2>2. state = "literal" => pos - 1 \notin Stops(t)
    <3>1. pos \notin Legal(t)
      BY <1>0, <1>1
    <3> QED BY <1>0, <3>1, NoStopAtEnd DEF Reading, Scanning
  <2> QED BY <1>0, <2>1, <2>2 DEF Noticed
<1>4. Noticed \in Int
  BY <1>0 DEF Noticed
<1>5. Looked(input, pos - 1, Noticed, depth, state, index, k, value)
  BY DEF Reading, Scanning
<1> HIDE DEF t
<1>6. \A i \in Starts(input.text), e \in Stops(input.text) : ~(ValueAt(input, i) /\ Spans(Stops(input.text), i, e))
  BY <1>0, <1>2, <1>3, <1>4, <1>5, LookedNone DEF Reading, t
<1> QED BY <1>6 DEF NoItem

\* A literal is left at the character that is read again.
LEMMA TurnLeaves ==
  ASSUME Reading, state = "literal", input.text[pos] \in Blank \cup Closing,
         input' = input, pos' = pos, state' = "value", depth' = depth,
         IF depth = 1 THEN EndsAt(pos - 1) ELSE UNCHANGED <<pc, index, k, value, valuesz>>
  PROVE  IF pc' = pc THEN Scanning' ELSE Fetched(input, value', valuesz')
<1>0. /\ input.text \in Seq(Chars) /\ Len(input.text) \in Nat /\ pos \in Nat /\ pos >= 1 /\ pos - 1 \in Nat
      /\ k \in Int /\ value \in Int
  BY CallTypes DEF Reading
<1>1. /\ Lexed(input.text, pos, "literal", utf8, depth)
      /\ Looked(input, pos - 1, pos - 2, depth, "literal", index, k, value)
      /\ Quoted(input, value, depth, pos)
  BY DEF Reading, Scanning, Noticed
<1>2. Lexed(input.text, pos, "value", utf8', depth)
  BY <1>0, <1>1, LexedLeaves DEF Reading
<1>3. Allowed(input.text, Quotes(input.text), pos)
  <2>1. Admits("literal", input.text[pos])
    BY DEF Admits
  <2> QED BY <1>0, <1>1, <2>1, AllowedByState DEF Reading
<1>4. input.text[pos] \notin Literal
  BY DEF Literal, LiteralStart, Blank, Closing
<1>5. pos - 1 \in Stops(input.text) <=> depth = 1
  BY <1>0, <1>1, <1>3, <1>4, StopsBefore DEF Reading
<1>6. \A x \in Stops(input.text) : x < pos - 1 => x <= pos - 2
  <2>1. \A x \in Stops(input.text) : x \in Nat
    BY CallTypes DEF Reading
  <2> QED BY <1>0, <2>1
<1>7. Noticed' = pos - 1
  BY DEF Noticed
<1>8. value # 0 => value \in 1..pos - 1 /\ index = 0
  <2>1. value # 0 => value <= pos - 1 /\ ValueAt(input, value) /\ index = 0
    BY <1>1 DEF Looked
  <2>2. \A i : ValueAt(input, i) => i \in Nat /\ i >= 1
    BY CallTypes DEF Reading, ValueAt, IsValue
  <2> QED BY <1>0, <2>1, <2>2
<1>9. value # 0 => input.text[value] # "quote"
  <2>1. ~Inside(Quotes(input.text), pos - 1)
    BY <1>1 DEF Lexed
  <2>2. value # 0 => pos - 1 \in value..pos - 1
    BY <1>0, <1>8
  <2> QED BY <1>1, <2>1, <2>2 DEF Quoted
<1>10. input \in Inputs
  BY DEF Reading
<1>14. pc = "scan" /\ input' = input
  BY DEF Reading
<1>11. CASE depth = 1
  <2>1. EndsAt(pos - 1)
    BY <1>11
  <2>2. pos - 1 \in Stops(input.text) /\ pos - 1 <= pos - 1 /\ pos - 2 \in Int /\ pos - 1 \in Int
    BY <1>0, <1>5, <1>11
  <2>3. CASE value # 0
    <3>1. pc' = "parsed" /\ value' = value /\ valuesz' = (pos - 1) + 1 - value
      BY <1>8, <2>1, <2>3 DEF EndsAt
    <3>2. ValueAt(input, value) /\ Spans(Stops(input.text), value, pos - 1)
      BY <1>0, <1>1, <1>6, <1>10, <2>2, <2>3, LookedFound
    <3>3. Item(input, value, pos - 1)
      BY <1>9, <2>2, <2>3, <3>2 DEF Item
    <3>4. Fetched(input, value', valuesz')
      BY <2>2, <3>1, <3>3 DEF Fetched
    <3> QED BY <1>14, <3>1, <3>4
  <2>4. CASE value = 0
    <3>1. pc' = pc /\ value' = 0
      BY <2>1, <2>4 DEF EndsAt
    <3>2. /\ index' = IF input.key # << >> /\ k # 0
                      THEN IF SubSeq(input.text, k + 1, (pos - 1) - 1) = input.key THEN 0 ELSE 2 ELSE index
          /\ k' = IF input.key # << >> THEN 0 ELSE k
      BY <2>1, <2>4 DEF EndsAt, keyed, text
    <3>3. Looked(input, pos - 1, pos - 2, depth, "literal", index, k, 0)
      BY <1>1, <2>4
    <3>4. Looked(input, pos - 1, pos - 1, depth, "value", index', k', 0)
      <4>1. PICK a \in Nat : a = pos - 1
        BY <1>0
      <4>2. PICK z \in Int : z = pos - 2
        BY <1>0
      <4>3. a \in Stops(input.text) /\ a <= a /\ \A x \in Stops(input.text) : x < a => x <= z
        BY <1>6, <2>2, <4>1, <4>2
      <4>4. Looked(input, a, z, depth, "literal", index, k, 0)
        BY <3>3, <4>1, <4>2
      <4>5. Compared(input, a, index, k, index', k')
        BY <3>2, <4>1 DEF Compared
      <4>6. Looked(input, a, a, depth, "value", index', k', 0)
        BY <1>0, <1>10, <4>3, <4>4, <4>5, LookedStop
      <4> QED BY <4>1, <4>6
    <3>5. Quoted(input, 0, depth, pos)
      BY DEF Quoted
    <3>6. Scanning'
      BY <1>2, <1>7, <1>14, <3>1, <3>4, <3>5 DEF Scanning
    <3> QED BY <3>1, <3>6
  <2> QED BY <2>3, <2>4
<1>12. CASE depth # 1
  <2>1. UNCHANGED <<pc, index, k, value, valuesz>>
    BY <1>12
  <2>2. \A x \in Stops(input.text) : x <= pos - 1 => x <= pos - 2
    <3>1. \A x \in Stops(input.text) : x \in Nat
      BY CallTypes DEF Reading
    <3>2. \A x \in Stops(input.text) : x # pos - 1
      BY <1>5, <1>12
    <3> QED BY <1>0, <3>1, <3>2
  <2>3. Opened(depth, "literal") => Opened(depth, "value")
    BY <1>12 DEF Opened
  <2>4. Looked(input, pos - 1, pos - 1, depth, "value", index, k, value)
    BY <1>0, <1>1, <1>10, <2>2, <2>3, LookedOn
  <2>5. Quoted(input, value, depth, pos)
    BY <1>1
  <2>6. Scanning'
    BY <1>2, <1>7, <2>1, <2>4, <2>5 DEF Scanning
  <2> QED BY <2>1, <2>6
<1> QED BY <1>11, <1>12
-----------------------------------------------------------------------------
\* A character is read and taken
Reads ==
  /\ Reading /\ input' = input /\ pos' = pos + 1
  /\ Allowed(input.text, Quotes(input.text), pos)
  /\ Goes(state, utf8, input.text[pos], state', utf8')
  /\ depth' = depth + (IF state = "value" /\ input.text[pos] = "open" THEN 1 ELSE 0)
                    - (IF state = "value" /\ input.text[pos] = "close" THEN 1 ELSE 0)

\* What is known when one is.
LEMMA ReadsFacts ==
  ASSUME Reads
  PROVE  /\ input \in Inputs /\ input.text \in Seq(Chars) /\ Len(input.text) \in Nat
         /\ pos \in 1..Len(input.text) /\ pos \in Nat /\ pos >= 1
         /\ k \in Int /\ value \in Int /\ depth \in Int /\ pc = "scan" /\ Separated(input.text)
         /\ Lexed(input.text, pos, state, utf8, depth)
         /\ Lexed(input.text, pos + 1, state', utf8', depth')
         /\ Looked(input, pos - 1, Noticed, depth, state, index, k, value)
         /\ Quoted(input, value, depth, pos)
         /\ value # 0 => value \in 1..pos - 1 /\ index = 0 /\ Opened(depth, state)
<1>1. /\ input \in Inputs /\ input.text \in Seq(Chars) /\ Len(input.text) \in Nat
      /\ pos \in 1..Len(input.text) /\ pos \in Nat /\ pos >= 1
      /\ k \in Int /\ value \in Int /\ pc = "scan" /\ Separated(input.text)
  BY CallTypes DEF Reads, Reading
<1>2. /\ Lexed(input.text, pos, state, utf8, depth)
      /\ Looked(input, pos - 1, Noticed, depth, state, index, k, value)
      /\ Quoted(input, value, depth, pos)
  BY DEF Reads, Reading, Scanning
<1>3. depth \in Int
  <2>1. pos <= Len(input.text) + 1
    BY <1>1
  <2> QED BY <1>1, <1>2, <2>1, DepthType
<1>4. Lexed(input.text, pos + 1, state', utf8', depth')
  BY <1>1, <1>2, LexedNext DEF Reads
<1>5. value # 0 => value \in 1..pos - 1 /\ index = 0 /\ Opened(depth, state)
  <2>1. value # 0 => value <= pos - 1 /\ ValueAt(input, value) /\ index = 0 /\ Opened(depth, state)
    BY <1>2 DEF Looked
  <2>2. \A i : ValueAt(input, i) => i \in Nat /\ i >= 1
    BY <1>1, CallTypes DEF ValueAt, IsValue
  <2> QED BY <1>1, <2>1, <2>2
<1> QED BY <1>1, <1>2, <1>3, <1>4, <1>5

\* Which characters stop an item, and when that is noticed.
LEMMA ReadsStops ==
  ASSUME Reads
  PROVE  /\ Noticed \in Int /\ Noticed' \in Int
         /\ state' = "literal" => Noticed' = pos - 1
         /\ state' # "literal" =>
              /\ Noticed' = pos /\ Noticed = pos - 1
              /\ pos \in Stops(input.text) <=> \/ state = "string" /\ input.text[pos] = "quote" /\ depth = 1
                                               \/ state = "value" /\ input.text[pos] = "close" /\ depth = 2
         /\ state = "literal" => Noticed = pos - 2 /\ pos - 1 \notin Stops(input.text)
         /\ state # "literal" => Noticed = pos - 1
<1>1. /\ input \in Inputs /\ input.text \in Seq(Chars) /\ pos \in 1..Len(input.text) /\ pos \in Nat
      /\ Lexed(input.text, pos, state, utf8, depth)
  BY ReadsFacts
<1>2. pos' = pos + 1 /\ Allowed(input.text, Quotes(input.text), pos)
  BY DEF Reads
<1>3. /\ Noticed = IF state = "literal" THEN pos - 2 ELSE pos - 1
      /\ Noticed' = IF state' = "literal" THEN pos - 1 ELSE pos
  BY <1>1, <1>2 DEF Noticed
<1>4. state = "literal" => state' = "literal" /\ input.text[pos] \in Literal
  BY DEF Reads, Goes
<1>5. state' # "literal" =>
        (pos \in Stops(input.text) <=> \/ state = "string" /\ input.text[pos] = "quote" /\ depth = 1
                                       \/ state = "value" /\ input.text[pos] = "close" /\ depth = 2)
  BY <1>1, <1>2, StopsHere DEF Reads
<1>6. state = "literal" => pos - 1 \notin Stops(input.text)
  BY <1>1, <1>2, <1>4, StopsBefore
<1> QED BY <1>1, <1>3, <1>4, <1>5, <1>6

\* An item starts.
LEMMA TurnStarts ==
  ASSUME Reads, state = "value", depth = 1, input.text[pos] \in {"quote"} \cup Opening \cup LiteralStart,
         StartsAt(pos)
  PROVE  Scanning' /\ pc' = pc
<1>1. pos \in Starts(input.text)
  BY ReadsFacts, StartsHere DEF Reads
<1>2. ~Opened(depth, state) /\ value = 0
  <2>1. ~Opened(depth, state)
    BY DEF Opened
  <2> QED BY <2>1, ReadsFacts
<1>3. Opened(depth', state')
  BY DEF Reads, Goes, Opened, Opening, LiteralStart, Blank, Closing
<1>4. PICK r \in Nat : r = pos - 1
  BY ReadsFacts
<1>5. r + 1 = pos /\ r + 1 \in Starts(input.text)
  BY <1>1, <1>4, ReadsFacts
<1>6. \A x \in Stops(input.text) : x <= Noticed' => x <= r
  <2>1. \A x \in Stops(input.text) : x \in Nat
    BY ReadsFacts, CallTypes
  <2>2. Noticed' = r \/ (Noticed' = pos /\ pos \notin Stops(input.text))
    <3>1. input.text[pos] # "close"
      BY DEF Opening, LiteralStart
    <3> QED BY <1>4, <3>1, ReadsStops
  <2> QED BY <1>4, <2>1, <2>2, ReadsFacts
<1>7. /\ value' = IF index = 0 THEN r + 1 ELSE value
      /\ k' = IF index = 1 /\ input.key # << >> THEN r + 1 ELSE k
      /\ index' = IF index = 0 \/ (index = 1 /\ input.key # << >>) THEN index ELSE index - 1
      /\ pc' = pc
  BY <1>5 DEF StartsAt, keyed
<1>8. Looked(input, r, Noticed, depth, state, index, k, value)
  BY <1>4, ReadsFacts
<1>9. Looked(input, r + 1, Noticed', depth', state', index', k', value')
  BY <1>2, <1>3, <1>5, <1>6, <1>7, <1>8, ReadsFacts, ReadsStops, LookedStart
<1>10. Quoted(input, value', depth', pos + 1)
  <2>1. SUFFICES ASSUME value' # 0, input.text[value'] = "quote"
                 PROVE  depth' = 1 /\ \A i \in value'..(pos + 1) - 1 : Inside(Quotes(input.text), i)
    BY DEF Quoted
  <2>2. value' = pos /\ input.text[pos] = "quote"
    BY <1>2, <1>5, <1>7, <2>1
  <2>3. depth' = 1 /\ state' = "string"
    BY <2>2 DEF Reads, Goes, Blank, Opening, Closing, LiteralStart
  <2>4. Inside(Quotes(input.text), (pos + 1) - 1)
    BY <2>3, ReadsFacts DEF Lexed
  <2>5. \A i \in pos..(pos + 1) - 1 : i = (pos + 1) - 1
    BY ReadsFacts
  <2> QED BY <2>2, <2>3, <2>4, <2>5
<1>11. input' = input /\ pos' = pos + 1 /\ pos' - 1 = r + 1
  BY <1>5, ReadsFacts DEF Reads
<1>12. Scanning'
  <2>1. Lexed(input.text, pos', state', utf8', depth')
    BY <1>11, ReadsFacts
  <2> QED BY <1>9, <1>10, <1>11, <2>1 DEF Scanning
<1> QED BY <1>7, <1>12
-----------------------------------------------------------------------------
\* An item stops: it is the value, or the scanner looks for another one.
LEMMA TurnStops ==
  ASSUME Reads,
         \/ state = "string" /\ input.text[pos] = "quote" /\ depth = 1
         \/ state = "value" /\ input.text[pos] = "close" /\ depth = 2,
         EndsAt(pos)
  PROVE  IF pc' = pc THEN Scanning' ELSE Fetched(input, value', valuesz')
<1>1. state' = "value"
  BY DEF Reads, Goes, Blank, Opening, LiteralStart, Leads
<1>2. pos \in Stops(input.text) /\ Noticed = pos - 1
  BY <1>1, ReadsStops
<1>3. pos \notin Starts(input.text)
  BY ReadsFacts, StartsHere DEF Reads, Opening, LiteralStart
<1>4. PICK r \in Nat : r = pos - 1
  BY ReadsFacts
<1>5. r + 1 = pos /\ r <= pos /\ pos \in Nat
  BY <1>4, ReadsFacts
<1>6. \A x \in Stops(input.text) : x < pos => x <= Noticed
  <2>1. \A x \in Stops(input.text) : x \in Nat
    BY ReadsFacts, CallTypes
  <2> QED BY <1>2, <2>1, ReadsFacts
<1>7. Looked(input, r, Noticed, depth, state, index, k, value)
  BY <1>4, ReadsFacts
<1>8. CASE value # 0
  <2>1. pc' = "parsed" /\ value' = value /\ valuesz' = pos + 1 - value
    BY <1>8, ReadsFacts DEF EndsAt
  <2>2. ValueAt(input, value) /\ Spans(Stops(input.text), value, pos)
    BY <1>2, <1>5, <1>6, <1>7, <1>8, ReadsFacts, ReadsStops, LookedFound
  <2>3. Item(input, value, pos)
    <3>1. CASE state = "string"
      <4>1. input.text[pos] = "quote"
        BY <3>1
      <4> QED BY <1>2, <1>8, <2>2, <3>1, <4>1, ReadsFacts, StringStops
    <3>2. CASE state # "string"
      <4>1. input.text[value] # "quote"
        <5>1. depth = 2
          BY <3>2
        <5> QED BY <1>8, <5>1, ReadsFacts DEF Quoted
      <4> QED BY <1>2, <2>2, <4>1 DEF Item
    <3> QED BY <3>1, <3>2
  <2>4. Fetched(input, value', valuesz')
    BY <1>2, <2>1, <2>3 DEF Fetched
  <2> QED BY <2>1, <2>4, ReadsFacts
<1>9. CASE value = 0
  <2>1. pc' = pc /\ value' = 0
    BY <1>9 DEF EndsAt
  <2>2. Compared(input, pos, index, k, index', k')
    BY <1>9 DEF EndsAt, keyed, text, Compared
  <2>3. Looked(input, r, Noticed, depth, state, index, k, 0)
    BY <1>7, <1>9
  <2>4. Looked(input, pos, Noticed', depth', state', index', k', 0)
    BY <1>2, <1>3, <1>5, <1>6, <2>2, <2>3, ReadsFacts, ReadsStops, LookedStop
  <2>5. input' = input /\ pos' = pos + 1 /\ pos' - 1 = pos
    BY ReadsFacts DEF Reads
  <2>6. Lexed(input.text, pos', state', utf8', depth')
    BY <2>5, ReadsFacts
  <2>7. Quoted(input, 0, depth', pos')
    BY DEF Quoted
  <2>8. Scanning'
    BY <2>1, <2>4, <2>5, <2>6, <2>7 DEF Scanning
  <2> QED BY <2>1, <2>8
<1> QED BY <1>8, <1>9

\* Neither.
LEMMA TurnPasses ==
  ASSUME Reads,
         ~(state = "value" /\ depth = 1 /\ input.text[pos] \in {"quote"} \cup Opening \cup LiteralStart),
         ~(state = "string" /\ input.text[pos] = "quote" /\ depth = 1),
         ~(state = "value" /\ input.text[pos] = "close" /\ depth = 2),
         UNCHANGED <<pc, index, k, value, valuesz>>
  PROVE  Scanning' /\ pc' = pc
<1>1. pos \notin Starts(input.text)
  BY ReadsFacts, StartsHere DEF Reads
<1>2. PICK r \in Nat : r = pos - 1
  BY ReadsFacts
<1>3. r + 1 = pos /\ pos \in Nat
  BY <1>2, ReadsFacts
<1>4. \A x \in Stops(input.text) : x <= Noticed' => x <= Noticed
  <2>1. \A x \in Stops(input.text) : x \in Nat
    BY ReadsFacts, CallTypes
  <2>2. CASE state' = "literal"
    BY <2>1, <2>2, ReadsFacts, ReadsStops
  <2>3. CASE state' # "literal"
    <3>1. pos \notin Stops(input.text) /\ Noticed' = pos /\ Noticed = pos - 1
      BY <2>3, ReadsStops
    <3> QED BY <2>1, <3>1, ReadsFacts
  <2> QED BY <2>2, <2>3
<1>5. Opened(depth, state) => Opened(depth', state')
  <2>1. CASE depth > 1
    <3>1. depth' > 1 \/ (depth = 2 /\ state = "value" /\ input.text[pos] = "close")
      BY <2>1, ReadsFacts DEF Reads
    <3> QED BY <3>1 DEF Opened
  <2>2. CASE depth = 1 /\ state # "value"
    <3>1. depth' = 1
      BY <2>2 DEF Reads
    <3>2. state' # "value"
      BY <2>2 DEF Reads, Goes
    <3> QED BY <3>1, <3>2 DEF Opened
  <2> QED BY <2>1, <2>2 DEF Opened
<1>6. Looked(input, r, Noticed, depth, state, index, k, value)
  BY <1>2, ReadsFacts
<1>7. Looked(input, pos, Noticed', depth', state', index, k, value)
  BY <1>1, <1>3, <1>4, <1>5, <1>6, ReadsFacts, ReadsStops, LookedOn
<1>8. Quoted(input, value, depth', pos + 1)
  <2>1. SUFFICES ASSUME value # 0, input.text[value] = "quote"
                 PROVE  depth' = 1 /\ \A i \in value..(pos + 1) - 1 : Inside(Quotes(input.text), i)
    BY DEF Quoted
  <2>2. value \in 1..pos - 1 /\ depth = 1 /\ \A i \in value..pos - 1 : Inside(Quotes(input.text), i)
    BY <2>1, ReadsFacts DEF Quoted
  <2>3. state \in {"string", "escape", "utf8"}
    <3>1. pos - 1 \in value..pos - 1
      BY <2>2, ReadsFacts
    <3> QED BY <2>2, <3>1, ReadsFacts DEF Lexed
  <2>4. state' \in {"string", "escape", "utf8"} /\ depth' = 1
    BY <2>2, <2>3 DEF Reads, Goes
  <2>5. Inside(Quotes(input.text), (pos + 1) - 1)
    BY <2>4, ReadsFacts DEF Lexed
  <2>6. \A i \in value..(pos + 1) - 1 : i \in value..pos - 1 \/ i = (pos + 1) - 1
    BY <2>2, ReadsFacts
  <2> QED BY <2>2, <2>4, <2>5, <2>6
<1>9. input' = input /\ pos' = pos + 1 /\ pos' - 1 = pos
  BY ReadsFacts DEF Reads
<1>10. Lexed(input.text, pos', state', utf8', depth')
  BY <1>9, ReadsFacts
<1>11. Scanning'
  BY <1>7, <1>8, <1>9, <1>10 DEF Scanning
<1> QED BY <1>11

\* A turn of the scanner keeps what is known, and fetches the value or none.
LEMMA FindScan ==
  ASSUME Reading, Scan, valuesz = 0
  PROVE  \/ pc' = "scan" /\ Scanning'
         \/ pc' = "parsed" /\ Fetched(input, value', valuesz')
<1>1. /\ pc = "scan" /\ input' = input /\ input \in Inputs /\ input.text \in Seq(Chars)
      /\ pos \in 1..Len(input.text) /\ Lexed(input.text, pos, state, utf8, depth)
      /\ text = input.text
  BY CallTypes DEF Reading, Scanning, Scan, text
<1>2. PICK c \in Chars : c = input.text[pos]
  BY <1>1
<1>3. Allowed(input.text, Quotes(input.text), pos) <=> Admits(state, c)
  BY <1>1, <1>2, AllowedByState
<1>4. /\ state \in {"value", "literal", "string", "escape", "utf8"}
      /\ state = "literal" => c \notin {"quote", "backslash", "open"}
  BY <1>1, <1>2, AfterLiteral DEF Lexed
<1>5. /\ Lex(c) = Malformed <=> ~Admits(state, c)
      /\ Admits(state, c) =>
           IF state = "literal" /\ c \in Blank \cup Closing
           THEN Lex(c) = Token("value", "end_before")
           ELSE /\ Goes(state, utf8, c, Lex(c).next, Utf8Bytes(c))
                /\ Lex(c).action =
                     CASE state = "value" /\ c \in {"quote"} \cup LiteralStart -> "start"
                       [] state = "value" /\ c = "open" -> "start_struct"
                       [] state = "value" /\ c = "close" -> "end_struct"
                       [] state = "string" /\ c = "quote" -> "end"
                       [] OTHER -> "none"
  BY <1>4, LexTable
<1>6. depth \in Int
  <2>1. pos \in Nat /\ pos >= 1 /\ pos <= Len(input.text) + 1
    BY <1>1
  <2> QED BY <1>1, <2>1, DepthType
<1>7. PICK m, a, g : m = Lex(c) /\ a = m.action /\ g = m.next
  OBVIOUS
<1>8. IF m = Malformed
      THEN pc' = "parsed" /\ UNCHANGED <<pos, state, utf8, depth, index, k, value, valuesz>>
      ELSE LET s == IF a = "end_before" THEN pos - 1 ELSE pos
               d == IF a = "end_struct" THEN depth - 1 ELSE depth
           IN  /\ state' = g /\ pos' = s + 1
               /\ utf8' = Utf8Bytes(c)
               /\ depth' = IF a = "start_struct" THEN d + 1 ELSE d
               /\ CASE d = 1 /\ a \in {"start", "start_struct"} -> StartsAt(s)
                    [] d = 1 /\ a \in {"end", "end_before", "end_struct"} -> EndsAt(s)
                    [] OTHER -> UNCHANGED <<pc, index, k, value, valuesz>>
  BY <1>1, <1>2, <1>7 DEF Scan
<1>9. CASE ~Admits(state, c)
  <2>1. pc' = "parsed" /\ valuesz' = 0
    BY <1>5, <1>7, <1>8, <1>9
  <2>2. NoItem(input)
    BY <1>3, <1>9, TurnRefused
  <2> QED BY <2>1, <2>2 DEF Fetched
<1>10. CASE Admits(state, c) /\ state = "literal" /\ c \in Blank \cup Closing
  <2>1. m # Malformed /\ a = "end_before" /\ g = "value"
    BY <1>5, <1>7, <1>10 DEF Token, Malformed
  <2>2. /\ state' = "value" /\ pos' = (pos - 1) + 1 /\ depth' = depth
        /\ IF depth = 1 THEN EndsAt(pos - 1) ELSE UNCHANGED <<pc, index, k, value, valuesz>>
    BY <1>8, <2>1
  <2>3. pos' = pos
    BY <1>1, <2>2
  <2>4. IF pc' = pc THEN Scanning' ELSE Fetched(input, value', valuesz')
    BY <1>1, <1>2, <1>10, <2>2, <2>3, TurnLeaves
  <2>5. pc' \in {"scan", "parsed"}
    BY <1>1, <2>2 DEF EndsAt
  <2> QED BY <1>1, <2>4, <2>5
<1>11. CASE Admits(state, c) /\ ~(state = "literal" /\ c \in Blank \cup Closing)
  <2>1. /\ m # Malformed
        /\ Goes(state, utf8, c, g, Utf8Bytes(c))
        /\ a = CASE state = "value" /\ c \in {"quote"} \cup LiteralStart -> "start"
                 [] state = "value" /\ c = "open" -> "start_struct"
                 [] state = "value" /\ c = "close" -> "end_struct"
                 [] state = "string" /\ c = "quote" -> "end"
                 [] OTHER -> "none"
    BY <1>5, <1>7, <1>11
  <2>2. /\ state = "value" /\ c \in {"quote"} \cup LiteralStart => a = "start"
        /\ state = "value" /\ c = "open" => a = "start_struct"
        /\ state = "value" /\ c = "close" => a = "end_struct"
        /\ state = "string" /\ c = "quote" => a = "end"
        /\ \/ a = "start" /\ state = "value" /\ c \in {"quote"} \cup LiteralStart
           \/ a = "start_struct" /\ state = "value" /\ c = "open"
           \/ a = "end_struct" /\ state = "value" /\ c = "close"
           \/ a = "end" /\ state = "string" /\ c = "quote"
           \/ a = "none"
    BY <2>1 DEF LiteralStart
  <2>3. /\ state' = g /\ pos' = pos + 1 /\ utf8' = Utf8Bytes(c)
        /\ depth' = depth + (IF state = "value" /\ c = "open" THEN 1 ELSE 0)
                          - (IF state = "value" /\ c = "close" THEN 1 ELSE 0)
    BY <1>6, <1>8, <2>1, <2>2
  <2>4. Reads
    BY <1>1, <1>2, <1>3, <1>11, <2>1, <2>3 DEF Reads
  <2>5. pc' \in {"scan", "parsed"}
    BY <1>1, <1>8, <2>1 DEF StartsAt, EndsAt
  <2>6. CASE state = "value" /\ depth = 1 /\ c \in {"quote"} \cup Opening \cup LiteralStart
    <3>1. StartsAt(pos)
      BY <1>8, <2>1, <2>2, <2>6 DEF Opening
    <3> QED BY <1>1, <1>2, <2>4, <2>6, <3>1, TurnStarts
  <2>7. CASE \/ state = "string" /\ c = "quote" /\ depth = 1
             \/ state = "value" /\ c = "close" /\ depth = 2
    <3>1. EndsAt(pos)
      BY <1>6, <1>8, <2>1, <2>2, <2>7
    <3> QED BY <1>1, <1>2, <2>4, <2>5, <2>7, <3>1, TurnStops
  <2>8. CASE /\ ~(state = "value" /\ depth = 1 /\ c \in {"quote"} \cup Opening \cup LiteralStart)
             /\ ~(state = "string" /\ c = "quote" /\ depth = 1)
             /\ ~(state = "value" /\ c = "close" /\ depth = 2)
    <3>1. UNCHANGED <<pc, index, k, value, valuesz>>
      BY <1>6, <1>8, <2>1, <2>2, <2>8 DEF Opening
    <3> QED BY <1>1, <1>2, <2>4, <2>8, <3>1, TurnPasses
  <2> QED BY <2>6, <2>7, <2>8
<1> QED BY <1>9, <1>10, <1>11
-----------------------------------------------------------------------------
\* json_unescape has decoded the item up to pos, which e ends
Decoding(e) ==
  /\ pos \in value + 1..e /\ n = e - pos + 2
  /\ ~Escaped(input.text, pos)
  /\ \A p \in value + 1..pos - 1 : ~(input.text[p] = "u" /\ Escaped(input.text, p))
  /\ Decodes(input.text, value, pos, out)

\* What is known while json_unescape runs
Unescaping ==
  /\ value # 0 /\ input.text[value] = "quote"
  /\ \/ \E e \in Stops(input.text) : Item(input, value, e) /\ Decoding(e)
     \/ n = 0 /\ out = << >> /\ NoItem(input)

\* The right answer
Answer(c, s) ==
  \/ \E i \in Starts(c.text), e \in Stops(c.text) :
       ValueAt(c, i) /\ Spans(Stops(c.text), i, e) /\ Means(c.text, i, e, s)
  \/ s = << >> /\ NoItem(c)

\* What is known of the answer at any time
FindInv ==
  Separated(input.text) =>
    /\ pc = "scan" => Scanning
    /\ pc \in {"scan", "parsed"} => out = << >>
    /\ pc = "parsed" => Fetched(input, value, valuesz)
    /\ pc = "unescape" => Unescaping
    /\ pc = "done" => Answer(input, out)

\* An item lies in the text.
LEMMA ItemIn ==
  ASSUME NEW c \in Inputs, NEW v, NEW e \in Stops(c.text), Item(c, v, e)
  PROVE  /\ c.text \in Seq(Chars) /\ v \in 1..Len(c.text) /\ e \in 1..Len(c.text) /\ v <= e
         /\ v \in Starts(c.text) /\ Len(c.text) \in Nat
<1>1. c.text \in Seq(Chars)
  BY CallTypes
<1>2. v \in Starts(c.text) /\ v <= e
  BY DEF Item, ValueAt, IsValue, Spans
<1> QED BY <1>1, <1>2, Positions

\* One more character is shown.
LEMMA DecodesNext ==
  ASSUME NEW t \in Seq(Chars), NEW v \in Nat, NEW i \in Nat, NEW j \in Nat, NEW x \in 1..Len(t), NEW s,
         Decodes(t, v, i, s), i <= x, v < i,
         Shown(t, v, j) = Shown(t, v, i) \cup {x}
  PROVE  Decodes(t, v, j, Append(s, IF Escaped(t, x) THEN Unescaped(t[x]) ELSE t[x]))
<1> DEFINE A == Shown(t, v, i)
           B == Shown(t, v, j)
           ch(p) == IF Escaped(t, p) THEN Unescaped(t[p]) ELSE t[p]
<1>1. A \in SUBSET Pos /\ \A p \in A : p \in Nat /\ p < x
  BY DEF Shown, Pos
<1>2. x \in Pos /\ x \in Nat /\ x - 1 \in Nat /\ x \notin A
  BY <1>1 DEF Pos
<1>3. B \in SUBSET Pos /\ B = A \cup {x}
  <2>1. B = A \cup {x}
    OBVIOUS
  <2> HIDE DEF A, B
  <2> QED BY <1>1, <1>2, <2>1
<1>4. s \in Seq(Chars) /\ Len(s) = Cardinality(A) /\ \A p \in A : s[UpTo(A, p)] = ch(p)
  BY DEF Decodes
<1> HIDE DEF A, B
<1>5. {p \in A : p <= x} = A
  <2>1. \A p \in A : p <= x
    BY <1>1, <1>2
  <2> QED BY <2>1, Zenon
<1>6. IsFiniteSet(A) /\ UpTo(A, x) = Cardinality(A) /\ Cardinality(A) \in Nat
  BY <1>1, <1>2, <1>5, CountType DEF UpTo
<1>7. Cardinality(B) = Cardinality(A) + 1
  BY <1>2, <1>3, <1>6, FS_AddElement
<1>8. {p \in B : p <= x} = B
  <2>1. \A p \in B : p <= x
    BY <1>1, <1>2, <1>3
  <2> QED BY <2>1, Zenon
<1>9. UpTo(B, x) = Len(s) + 1
  BY <1>4, <1>7, <1>8 DEF UpTo
<1>10. \A p \in A : UpTo(B, p) = UpTo(A, p) /\ UpTo(A, p) \in 1..Len(s)
  <2>1. SUFFICES ASSUME NEW p \in A PROVE UpTo(B, p) = UpTo(A, p) /\ UpTo(A, p) \in 1..Len(s)
    OBVIOUS
  <2>2. p \in Nat /\ p < x /\ p \in Pos /\ p - 1 \in Nat /\ p <= x /\ p <= p
    BY <1>1 DEF Pos
  <2>3. {b \in B : b <= p} = {b \in A : b <= p}
    <3>1. ~(x <= p)
      BY <1>2, <2>2
    <3> QED BY <1>3, <3>1, Zenon
  <2>4. UpTo(A, p - 1) < UpTo(A, p) /\ UpTo(A, p - 1) \in Nat /\ UpTo(A, p) \in Nat
    BY <1>1, <2>2, CountBelow, CountType
  <2>5. UpTo(A, p) <= Cardinality(A)
    <3>1. {b \in A : b <= p} \subseteq A
      BY Zenon
    <3> QED BY <1>6, <3>1, FS_Subset DEF UpTo
  <2>6. UpTo(B, p) = UpTo(A, p)
    BY <2>3 DEF UpTo
  <2> QED BY <1>4, <1>6, <2>4, <2>5, <2>6
<1>11. ch(x) \in Chars
  <2>1. t[x] \in Chars
    OBVIOUS
  <2> QED BY <2>1 DEF Unescaped, Chars
<1> HIDE DEF ch
<1>12. PICK s2 : s2 = Append(s, ch(x))
  OBVIOUS
<1>13. s2 \in Seq(Chars) /\ Len(s2) = Len(s) + 1 /\ s2[Len(s) + 1] = ch(x)
       /\ \A q \in 1..Len(s) : s2[q] = s[q]
  BY <1>4, <1>11, <1>12
<1>14. \A p \in B : s2[UpTo(B, p)] = ch(p)
  <2>1. ASSUME NEW p \in A PROVE s2[UpTo(B, p)] = ch(p)
    BY <1>4, <1>10, <1>13
  <2> QED BY <1>3, <1>9, <1>13, <2>1
<1>15. Len(s2) = Cardinality(B)
  BY <1>4, <1>7, <1>13
<1>16. Decodes(t, v, j, s2)
  BY <1>13, <1>14, <1>15 DEF Decodes, B, ch
<1> QED BY <1>12, <1>16 DEF ch
-----------------------------------------------------------------------------
\* json_parse goes on with what has been fetched.
LEMMA FindParse ==
  ASSUME input \in Inputs, Parse, Fetched(input, value, valuesz), out = << >>, value \in Nat
  PROVE  \/ pc' = "unescape" /\ Unescaping'
         \/ pc' = "done" /\ Answer(input, out')
<1>0. input' = input /\ value' = value /\ input.text \in Seq(Chars) /\ Len(input.text) \in Nat
  BY CallTypes DEF Parse
<1>1. CASE value # 0 /\ input.text[value] = "quote"
  <2>1. pc' = "unescape" /\ pos' = value + 1 /\ n' = valuesz /\ out' = << >>
    BY <1>1 DEF Parse, text
  <2>2. ASSUME NEW e \in Stops(input.text), Item(input, value, e), valuesz = e + 1 - value
        PROVE  Decoding(e)'
    <3>1. value \in 1..Len(input.text) /\ e \in 1..Len(input.text) /\ value < e
      BY <1>1, <2>2, <1>0, ItemIn DEF Item
    <3>2. pos' \in value + 1..e /\ n' = e - pos' + 2
      BY <2>1, <2>2, <3>1
    <3>3. ~Escaped(input.text, pos')
      <4>1. value \in Pos
        BY <3>1 DEF Pos
      <4> QED BY <1>1, <2>1, <4>1, EscapedNext
    <3>4. \A p : p \notin value + 1..pos' - 1
      BY <1>0, <2>1
    <3>5. Decodes(input.text, value, pos', out')
      <4>1. \A p : p \notin Shown(input.text, value, pos')
        BY <3>4 DEF Shown
      <4>2. Shown(input.text, value, pos') = {}
        BY <4>1
      <4>3. Cardinality(Shown(input.text, value, pos')) = 0
        BY <4>2, FS_EmptySet
      <4>4. << >> \in Seq(Chars) /\ Len(<< >>) = 0
        OBVIOUS
      <4> QED BY <2>1, <4>1, <4>3, <4>4 DEF Decodes
    <3> QED BY <1>0, <3>2, <3>3, <3>4, <3>5 DEF Decoding
  <2>3. CASE \E e \in Stops(input.text) : Item(input, value, e) /\ valuesz = e + 1 - value
    BY <1>0, <1>1, <2>1, <2>2, <2>3 DEF Unescaping
  <2>4. CASE valuesz = 0 /\ NoItem(input)
    BY <1>0, <1>1, <2>1, <2>4 DEF Unescaping
  <2> QED BY <2>3, <2>4 DEF Fetched
<1>2. CASE ~(value # 0 /\ input.text[value] = "quote")
  <2>1. pc' = "done" /\ out' = IF value = 0 THEN << >> ELSE SubSeq(input.text, value, value + valuesz - 1)
    BY <1>2 DEF Parse, text
  <2>2. CASE \E e \in Stops(input.text) : Item(input, value, e) /\ valuesz = e + 1 - value
    <3>1. PICK e \in Stops(input.text) : Item(input, value, e) /\ valuesz = e + 1 - value
      BY <2>2
    <3>2. /\ value \in 1..Len(input.text) /\ e \in 1..Len(input.text)
          /\ value \in Starts(input.text)
      BY <1>0, <3>1, ItemIn
    <3>3. value # 0 /\ value + valuesz - 1 = e
      BY <3>1, <3>2
    <3>4. Means(input.text, value, e, out')
      BY <1>2, <2>1, <3>3 DEF Means
    <3> QED BY <2>1, <3>1, <3>2, <3>4 DEF Answer, Item
  <2>3. CASE valuesz = 0 /\ NoItem(input)
    <3>1. CASE value = 0
      BY <2>1, <2>3, <3>1 DEF Answer
    <3>2. CASE value # 0
      <4>1. SubSeq(input.text, value, value + valuesz - 1) = << >>
        <5>1. value + valuesz - 1 < value
          BY <2>3
        <5>2. value \in Int /\ value + valuesz - 1 \in Int
          BY <2>3
        <5> QED BY <5>1, <5>2, SubSeqEmpty
      <4> QED BY <2>1, <2>3, <3>2, <4>1 DEF Answer
    <3> QED BY <3>1, <3>2
  <2> QED BY <2>2, <2>3 DEF Fetched
<1> QED BY <1>1, <1>2

\* json_unescape takes one more character, or has the string.
LEMMA DecodingStep ==
  ASSUME input \in Inputs, Unescape, value # 0, input.text[value] = "quote",
         NEW e \in Stops(input.text), Item(input, value, e), Decoding(e)
  PROVE  \/ pc' = "unescape" /\ Decoding(e)'
         \/ pc' = "done" /\ Answer(input, out')
<1> DEFINE t == input.text
<1>0. /\ t \in Seq(Chars) /\ Len(t) \in Nat /\ value \in 1..Len(t) /\ e \in 1..Len(t) /\ value < e
      /\ value \in Starts(t) /\ t[e] = "quote" /\ ~Escaped(t, e)
      /\ \A p \in value + 1..e - 1 : Escaped(t, p) => t[p] \in Escapes
  BY ItemIn DEF Item
<1>1. /\ pos \in value + 1..e /\ n = e - pos + 2 /\ ~Escaped(t, pos)
      /\ \A p \in value + 1..pos - 1 : ~(t[p] = "u" /\ Escaped(t, p))
      /\ Decodes(t, value, pos, out)
  BY DEF Decoding
<1>2. /\ input' = input /\ value' = value /\ text = t /\ pc = "unescape"
  BY DEF Unescape, text
<1>3. /\ pos \in 1..Len(t) /\ pos \in Nat /\ pos \in Pos /\ pos + 1 \in Pos /\ value \in Nat
      /\ n > 2 <=> pos < e
  BY <1>0, <1>1 DEF Pos
<1>4. At(pos) = t[pos] /\ (pos < e => At(pos + 1) = t[pos + 1] /\ pos + 1 \in 1..Len(t))
  BY <1>0, <1>2, <1>3 DEF At
<1>5. Escaped(t, pos + 1) <=> t[pos] = "backslash"
  BY <1>1, <1>3, EscapedNext
<1> HIDE DEF t
<1>6. CASE n > 2 /\ At(pos) = "backslash" /\ At(pos + 1) \in Known
  <2>1. /\ out' = Append(out, Unescaped(t[pos + 1])) /\ pos' = pos + 2 /\ n' = n - 2 /\ pc' = pc
    BY <1>3, <1>4, <1>6 DEF Unescape
  <2>2. Escaped(t, pos + 1) /\ pos < e /\ pos + 1 < e
    <3>1. Escaped(t, pos + 1) /\ pos < e
      BY <1>3, <1>4, <1>5, <1>6
    <3>2. pos + 1 # e
      BY <1>0, <3>1
    <3> QED BY <1>0, <1>3, <3>1, <3>2
  <2>3. ~Escaped(t, pos + 2)
    <3>1. Escaped(t, (pos + 1) + 1) <=> t[pos + 1] = "backslash" /\ ~Escaped(t, pos + 1)
      BY <1>3, EscapedNext
    <3>2. (pos + 1) + 1 = pos + 2
      BY <1>3
    <3> QED BY <2>2, <3>1, <3>2
  <2>9. \A p : p \in value + 1..(pos + 2) - 1 <=> p \in value + 1..pos - 1 \/ p = pos \/ p = pos + 1
    BY <1>0, <1>1, <1>3
  <2>4. Shown(t, value, pos + 2) = Shown(t, value, pos) \cup {pos + 1}
    <3>1. \A p : p \in value + 1..(pos + 2) - 1 <=> p \in value + 1..pos - 1 \/ p = pos \/ p = pos + 1
      BY <2>9
    <3>2. \A p : p \in Shown(t, value, pos + 2) <=> p \in value + 1..(pos + 2) - 1 /\ ~Escaped(t, p + 1)
      BY DEF Shown
    <3>3. \A p : p \in Shown(t, value, pos) <=> p \in value + 1..pos - 1 /\ ~Escaped(t, p + 1)
      BY DEF Shown
    <3>4. (pos + 1) + 1 = pos + 2
      BY <1>3
    <3> QED BY <2>2, <2>3, <3>1, <3>2, <3>3, <3>4
  <2>5. Decodes(t, value, pos + 2, out')
    <3>1. /\ pos + 1 \in 1..Len(t) /\ pos <= pos + 1 /\ value < pos /\ pos + 2 \in Nat
      BY <1>0, <1>1, <1>3, <1>4, <2>2
    <3>2. Decodes(t, value, pos + 2,
                  Append(out, IF Escaped(t, pos + 1) THEN Unescaped(t[pos + 1]) ELSE t[pos + 1]))
      BY <1>0, <1>1, <1>3, <2>4, <3>1, DecodesNext
    <3> QED BY <2>1, <2>2, <3>2
  <2>6. \A p \in value + 1..(pos + 2) - 1 : ~(t[p] = "u" /\ Escaped(t, p))
    <3>1. t[pos + 1] # "u"
      BY <1>4, <1>6, <2>2 DEF Known
    <3> QED BY <1>1, <2>9, <3>1
  <2>7. pos' \in value + 1..e /\ n' = e - pos' + 2
    <3>1. pos \in Nat /\ e \in Nat /\ value \in Nat /\ value + 1 <= pos /\ n = e - pos + 2
      BY <1>0, <1>1, <1>3
    <3>2. pos' = pos + 2 /\ n' = n - 2 /\ pos + 1 < e
      BY <2>1, <2>2
    <3> QED BY <3>1, <3>2
  <2>8. Decoding(e)'
    BY <1>2, <2>1, <2>3, <2>5, <2>6, <2>7 DEF Decoding, t
  <2> QED BY <1>2, <2>1, <2>8
<1>7. CASE n > 2 /\ At(pos) # "backslash"
  <2>1. /\ out' = Append(out, t[pos]) /\ pos' = pos + 1 /\ n' = n - 1 /\ pc' = pc
    BY <1>4, <1>7 DEF Unescape
  <2>2. ~Escaped(t, pos + 1) /\ pos < e
    BY <1>3, <1>4, <1>5, <1>7
  <2>3. Shown(t, value, pos + 1) = Shown(t, value, pos) \cup {pos}
    <3>1. \A p : p \in value + 1..(pos + 1) - 1 <=> p \in value + 1..pos - 1 \/ p = pos
      BY <1>0, <1>1, <1>3
    <3>2. \A p : p \in Shown(t, value, pos + 1) <=> p \in value + 1..(pos + 1) - 1 /\ ~Escaped(t, p + 1)
      BY DEF Shown
    <3>3. \A p : p \in Shown(t, value, pos) <=> p \in value + 1..pos - 1 /\ ~Escaped(t, p + 1)
      BY DEF Shown
    <3> QED BY <2>2, <3>1, <3>2, <3>3
  <2>4. Decodes(t, value, pos + 1, out')
    <3>1. pos <= pos /\ value < pos /\ pos + 1 \in Nat
      BY <1>0, <1>1, <1>3
    <3>2. Decodes(t, value, pos + 1, Append(out, IF Escaped(t, pos) THEN Unescaped(t[pos]) ELSE t[pos]))
      BY <1>0, <1>1, <1>3, <2>3, <3>1, DecodesNext
    <3> QED BY <1>1, <2>1, <3>2
  <2>5. \A p \in value + 1..(pos + 1) - 1 : ~(t[p] = "u" /\ Escaped(t, p))
    <3>1. \A p \in value + 1..(pos + 1) - 1 : p \in value + 1..pos - 1 \/ p = pos
      BY <1>0, <1>1, <1>3
    <3> QED BY <1>1, <3>1
  <2>6. pos' \in value + 1..e /\ n' = e - pos' + 2
    BY <1>0, <1>1, <1>3, <2>1, <2>2
  <2>7. Decoding(e)'
    BY <1>2, <2>1, <2>2, <2>4, <2>5, <2>6 DEF Decoding, t
  <2> QED BY <1>2, <2>1, <2>7
<1>8. CASE ~(n > 2 /\ At(pos) = "backslash" /\ At(pos + 1) \in Known) /\ ~(n > 2 /\ At(pos) # "backslash")
  <2>1. pc' = "done" /\ out' = IF n <= 2 /\ At(pos) = "quote" THEN out ELSE << >>
    BY <1>8 DEF Unescape
  <2>2. ValueAt(input, value) /\ Spans(Stops(input.text), value, e)
    BY DEF Item
  <2>3. CASE pos = e
    <3>1. out' = out
      BY <1>0, <1>1, <1>4, <2>1, <2>3
    <3>2. Means(input.text, value, e, out')
      <4>1. ~\E p \in value + 1..e - 1 : t[p] = "u" /\ Escaped(t, p)
        BY <1>1, <2>3
      <4> QED BY <1>1, <2>3, <3>1, <4>1 DEF Means, t
    <3> QED BY <1>0, <2>1, <2>2, <3>2 DEF Answer, t
  <2>4. CASE pos # e
    <3>1. pos < e /\ n > 2
      BY <1>0, <1>1, <1>3, <2>4
    <3>2. t[pos] = "backslash" /\ t[pos + 1] \notin Known /\ Escaped(t, pos + 1)
      BY <1>4, <1>5, <1>8, <3>1
    <3>3. pos + 1 # e
      BY <1>0, <3>2
    <3>4. pos + 1 \in value + 1..e - 1
      BY <1>0, <1>1, <1>3, <3>1, <3>3
    <3>5. t[pos + 1] = "u"
      BY <1>0, <3>2, <3>4 DEF Known
    <3>6. out' = << >>
      BY <1>1, <1>0, <2>1, <3>1
    <3>7. Means(input.text, value, e, out')
      BY <3>2, <3>4, <3>5, <3>6 DEF Means, t
    <3> QED BY <1>0, <2>1, <2>2, <3>7 DEF Answer, t
  <2> QED BY <2>3, <2>4
<1> QED BY <1>6, <1>7, <1>8

\* So it does, whether there is a value or none.
LEMMA FindUnescape ==
  ASSUME input \in Inputs, Unescape, Unescaping
  PROVE  \/ pc' = "unescape" /\ Unescaping'
         \/ pc' = "done" /\ Answer(input, out')
<1>0. value # 0 /\ input.text[value] = "quote" /\ input' = input /\ value' = value
  BY DEF Unescaping, Unescape
<1>1. CASE \E e \in Stops(input.text) : Item(input, value, e) /\ Decoding(e)
  <2>1. PICK e \in Stops(input.text) : Item(input, value, e) /\ Decoding(e)
    BY <1>1
  <2>2. CASE pc' = "unescape" /\ Decoding(e)'
    BY <1>0, <2>1, <2>2 DEF Unescaping
  <2>3. CASE pc' = "done" /\ Answer(input, out')
    BY <2>3
  <2> QED BY <1>0, <2>1, <2>2, <2>3, DecodingStep
<1>2. CASE n = 0 /\ out = << >> /\ NoItem(input)
  <2>1. pc' = "done" /\ out' = << >>
    BY <1>2 DEF Unescape
  <2> QED BY <1>2, <2>1 DEF Answer
<1> QED BY <1>1, <1>2 DEF Unescaping

\* At first nothing is known but what is looked for.
LEMMA FindInit == ASSUME Init PROVE FindInv
<1> DEFINE t == input.text
           S == Starts(t)
<1>0. /\ input \in Inputs /\ t \in Seq(Chars) /\ input.index \in Int /\ S \in SUBSET Pos
      /\ \A i \in S : i \in Nat /\ i >= 1
  BY CallTypes DEF Init
<1>1. UpTo(S, 0) = 0 /\ UpTo(Quotes(t), 0) = 0 /\ Level(Brackets(t, Opening), Brackets(t, Closing), 0) = 0
  BY <1>0, CountZero, Positions DEF Level
<1>2. 0 % 2 = 0 /\ ~(0 % 2 = 1)
  OBVIOUS
<1>3. CASE pc = "parsed"
  <2>1. input.key = << >> /\ input.index < 0 /\ valuesz = 0 /\ out = << >>
    BY <1>3 DEF Init, keyed
  <2>2. \A i \in S : Rank(S, i) # input.index
    <3>1. SUFFICES ASSUME NEW i \in S PROVE Rank(S, i) # input.index
      OBVIOUS
    <3>2. i - 1 \in Nat
      BY <1>0
    <3>3. Rank(S, i) \in Nat
      BY <1>0, <3>2, CountType DEF Rank
    <3> QED BY <1>0, <2>1, <3>3
  <2>3. NoItem(input)
    BY <2>1, <2>2 DEF NoItem, ValueAt, IsValue
  <2> QED BY <1>3, <2>1, <2>3 DEF FindInv, Fetched
<1>4. CASE pc = "scan"
  <2>1. pos = 1 /\ state = "value" /\ utf8 = 0 /\ depth = 0 /\ k = 0 /\ value = 0 /\ out = << >>
    BY DEF Init
  <2>2. Lexed(t, 1, "value", 0, 0)
    <3>1. ~Escaped(t, 1)
      BY NotEscapedAtStart
    <3>2. ~Inside(Quotes(t), 1 - 1) /\ 0 = Level(Brackets(t, Opening), Brackets(t, Closing), 1 - 1)
      BY <1>1, <1>2 DEF Inside
    <3>3. \A m \in 1..3 : ~Continues(t, 1 - 1, m)
      BY DEF Continues
    <3>4. \A i \in 1..1 - 1 : i \in Legal(t)
      OBVIOUS
    <3> QED BY <3>1, <3>2, <3>3, <3>4 DEF Lexed
  <2>3. Looked(input, 0, 0, 0, "value", index, 0, 0)
    <3>1. CASE input.key = << >>
      <4>1. index = input.index /\ ~(input.index < 0)
        BY <1>4, <3>1 DEF Init, keyed
      <4> QED BY <1>0, <1>1, <3>1, <4>1 DEF Looked
    <3>2. CASE input.key # << >>
      <4>1. index = 1
        BY <3>2 DEF Init, keyed
      <4>2. NoKey(input, 0)
        BY <1>0 DEF NoKey
      <4> QED BY <1>1, <1>2, <3>2, <4>1, <4>2 DEF Looked, Keys
    <3> QED BY <3>1, <3>2
  <2>4. Noticed = 0 /\ pos - 1 = 0
    BY <2>1 DEF Noticed
  <2>5. Quoted(input, 0, 0, 1)
    BY DEF Quoted
  <2>6. Scanning
    BY <2>1, <2>2, <2>3, <2>4, <2>5 DEF Scanning
  <2> QED BY <1>4, <2>1, <2>6 DEF FindInv
<1>5. pc \in {"scan", "parsed"}
  BY DEF Init
<1> QED BY <1>3, <1>4, <1>5

\* A step keeps what is known.
LEMMA FindStep ==
  ASSUME ScanInv, FindInv, [Next]_vars
  PROVE  FindInv'
<1>0. input' = input /\ input \in Inputs
  BY DEF ScanInv, Next, Scan, ScanEnds, Parse, Unescape, vars
<1> SUFFICES ASSUME Separated(input.text)
             PROVE  /\ pc' = "scan" => Scanning'
                    /\ pc' \in {"scan", "parsed"} => out' = << >>
                    /\ pc' = "parsed" => Fetched(input, value', valuesz')
                    /\ pc' = "unescape" => Unescaping'
                    /\ pc' = "done" => Answer(input, out')
  BY <1>0 DEF FindInv
<1>1. CASE Scan
  <2>1. pc = "scan" /\ valuesz = 0 /\ out' = out /\ Reading
    BY <1>0, <1>1 DEF Scan, ScanInv, InBounds, FindInv, Reading, text
  <2>2. \/ pc' = "scan" /\ Scanning'
        \/ pc' = "parsed" /\ Fetched(input, value', valuesz')
    BY <1>1, <2>1, FindScan
  <2> QED BY <2>1, <2>2 DEF FindInv
<1>2. CASE ScanEnds
  <2>1. /\ pc = "scan" /\ pc' = "parsed" /\ valuesz = 0 /\ out' = out /\ value' = value /\ valuesz' = valuesz
        /\ pos = Len(input.text) + 1 /\ Scanning /\ out = << >> /\ k \in Int /\ value \in Int
    BY <1>0, <1>2, TextLength DEF ScanEnds, ScanInv, InBounds, FindInv, text
  <2>2. input.text \in Seq(Chars) /\ Len(input.text) \in Nat /\ pos \in Nat /\ pos >= 1 /\ pos - 1 \in Nat
    BY <1>0, <2>1, CallTypes
  <2>3. \A i \in Legal(input.text) : i \in Nat /\ i <= pos - 1
    BY <2>1, <2>2, Positions
  <2>4. \A i \in Starts(input.text) : i <= pos - 1
    BY <2>2, <2>3, Positions
  <2>5. \A x \in Stops(input.text) : x <= Noticed
    <3>1. \A x \in Stops(input.text) : x \in Nat /\ x <= pos - 1
      BY <2>2, <2>3, Positions
    <3>2. state = "literal" => pos - 1 \notin Stops(input.text)
      <4>1. pos \notin Legal(input.text)
        BY <2>2, <2>3
      <4> QED BY <2>1, <2>2, <4>1, NoStopAtEnd DEF Scanning
    <3> QED BY <2>2, <3>1, <3>2 DEF Noticed
  <2>6. Noticed \in Int
    BY <2>2 DEF Noticed
  <2>7. Looked(input, pos - 1, Noticed, depth, state, index, k, value)
    BY <2>1 DEF Scanning
  <2>8. \A i \in Starts(input.text), e \in Stops(input.text) : ~(ValueAt(input, i) /\ Spans(Stops(input.text), i, e))
    BY <1>0, <2>1, <2>2, <2>4, <2>5, <2>6, <2>7, LookedNone
  <2> QED BY <2>1, <2>8 DEF Fetched, NoItem
<1>3. CASE Parse
  <2>1. pc = "parsed" /\ Fetched(input, value, valuesz) /\ out = << >> /\ value \in Nat
    BY <1>3 DEF Parse, FindInv, ScanInv, InBounds
  <2>2. \/ pc' = "unescape" /\ Unescaping'
        \/ pc' = "done" /\ Answer(input, out')
    BY <1>0, <1>3, <2>1, FindParse
  <2> QED BY <2>2
<1>4. CASE Unescape
  <2>1. Unescaping
    BY <1>4 DEF Unescape, FindInv
  <2>2. \/ pc' = "unescape" /\ Unescaping'
        \/ pc' = "done" /\ Answer(input, out')
    BY <1>0, <1>4, <2>1, FindUnescape
  <2> QED BY <2>2
<1>5. CASE UNCHANGED vars
  <2>1. UNCHANGED <<input, pc, pos, state, utf8, depth, index, k, value, valuesz, n, out>>
    BY <1>5 DEF vars
  <2>2. (Scanning' <=> Scanning) /\ (Unescaping' <=> Unescaping)
    <3>1. Noticed' = Noticed
      BY <2>1 DEF Noticed
    <3>2. \A e : Decoding(e)' <=> Decoding(e)
      BY <2>1 DEF Decoding
    <3> QED BY <2>1, <3>1, <3>2 DEF Scanning, Unescaping
  <2> QED BY <2>1, <2>2 DEF FindInv
<1> QED BY <1>1, <1>2, <1>3, <1>4, <1>5 DEF Next

\* FindsItem: json_parse returns the item that is looked for.
THEOREM FindsTheItem == Spec => []FindsItem
<1>1. Init => FindInv
  BY FindInit
<1>2. ScanInv /\ FindInv /\ [Next]_vars => FindInv'
  BY FindStep
<1>3. ScanInv /\ FindInv => FindsItem
  <2> SUFFICES ASSUME pc = "done", Separated(text), FindInv
               PROVE  \/ \E i \in Starts(text), e \in Stops(text) :
                           /\ IsValue(text, Starts(text), Stops(text), input.key, input.index, i)
                           /\ Spans(Stops(text), i, e) /\ Means(text, i, e, out)
                      \/ /\ out = << >>
                         /\ ~\E i \in Starts(text), e \in Stops(text) :
                               /\ IsValue(text, Starts(text), Stops(text), input.key, input.index, i)
                               /\ Spans(Stops(text), i, e)
    BY Zenon DEF FindsItem
  <2>1. Answer(input, out)
    BY DEF FindInv, text
  <2> QED BY <2>1 DEF Answer, NoItem, ValueAt, text
<1> QED BY <1>1, <1>2, <1>3, ScanInvariant, PTL DEF Spec
=============================================================================
