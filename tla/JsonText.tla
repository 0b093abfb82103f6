------------------------------ MODULE JsonText ------------------------------
(***************************************************************************)
(* What json_parse shall return, told from the text as a whole: where its  *)
(* strings and structures lie is a matter of counting, and so is which of  *)
(* the outermost structure's items is which.                               *)
(***************************************************************************)
EXTENDS JsonScan, FiniteSets

\* How many positions of S are at j or before
UpTo(S, j) == Cardinality({i \in S : i <= j})

\* The backslashes that go up to i without a gap
Slashes(t, i) == {b \in 1..i : \A m \in b..i : t[m] = "backslash"}

\* The character at i is escaped: it follows an odd number of backslashes
Escaped(t, i) == Cardinality(Slashes(t, i - 1)) % 2 = 1

\* The quotes that begin and end strings
Quotes(t) == {i \in DOMAIN t : t[i] = "quote" /\ ~Escaped(t, i)}

\* Behind i a string goes on, if q are the quotes
Inside(q, i) == UpTo(q, i) % 2 = 1

\* How many bytes follow the first one of a UTF-8 sequence
Follow(c) == CASE c = "lead2" -> 1 [] c = "lead3" -> 2 [] c = "lead4" -> 3

\* A UTF-8 sequence goes on behind i, with m more bytes
Continues(t, i, m) ==
  \E l \in 1..i :
    /\ t[l] \in Leads /\ \A x \in l + 1..i : t[x] = "next"
    /\ m = Follow(t[l]) - (i - l)

\* What numbers, true, false and null consist of
Literal == LiteralStart \cup {"b", "u", "letter"}

\* What precedes it, with the quotes q, allows the character at i
Allowed(t, q, i) ==
  IF Inside(q, i - 1)
  THEN IF Escaped(t, i) THEN t[i] \in Escapes
       ELSE IF \E m \in 1..3 : Continues(t, i - 1, m) THEN t[i] = "next"
       ELSE t[i] \notin {"newline", "control", "delete", "next"}
  ELSE IF i > 1 /\ t[i - 1] \in Literal THEN t[i] \in Blank \cup Closing \cup Literal
       ELSE t[i] \in Blank \cup {"newline", "quote"} \cup Opening \cup Closing \cup LiteralStart

\* The part of the text before the first character that is not allowed
Legal(t) ==
  LET q   == Quotes(t)
      bad == {i \in DOMAIN t : ~Allowed(t, q, i)}
  IN  {i \in DOMAIN t : \A b \in bad : i < b}

\* The brackets outside of strings
Brackets(t, class) ==
  LET q == Quotes(t) IN {i \in DOMAIN t : t[i] \in class /\ ~Inside(q, i)}

\* How many structures are open behind i
Level(opens, closes, i) == UpTo(opens, i) - UpTo(closes, i)

\* Where the items of the outermost structure start
Starts(t) ==
  LET q == Quotes(t)
      o == Brackets(t, Opening)
      c == Brackets(t, Closing)
  IN  {i \in Legal(t) :
         /\ Level(o, c, i - 1) = 1 /\ ~Inside(q, i - 1)
         /\ \/ t[i] \in {"quote"} \cup Opening
            \/ t[i] \in LiteralStart /\ t[i - 1] \notin Literal}

\* Where they end; a literal does where something else follows
Stops(t) ==
  LET q == Quotes(t)
      o == Brackets(t, Opening)
      c == Brackets(t, Closing)
      l == Legal(t)
  IN  {i \in l :
         /\ Level(o, c, i) = 1 /\ ~Inside(q, i)
         /\ \/ t[i] \in {"quote"} \cup Closing
            \/ t[i] \in Literal /\ i + 1 \in l /\ t[i + 1] \notin Literal}

\* An item goes from i to e
Spans(stops, i, e) == e \in stops /\ i <= e /\ \A x \in stops : i <= x => e <= x

\* How many items start before the one at i
Rank(starts, i) == UpTo(starts, i - 1)

\* The item at i is a key, the one that is looked for
IsKey(t, starts, stops, key, i) ==
  /\ i \in starts /\ Rank(starts, i) % 2 = 0
  /\ \E e \in stops : Spans(stops, i, e) /\ SubSeq(t, i + 1, e - 1) = key

\* The item at i is the value: the one behind the first such key, or the one
\* with the index
IsValue(t, starts, stops, key, ind, i) ==
  /\ i \in starts
  /\ IF key = << >> THEN Rank(starts, i) = ind
     ELSE \E j \in starts :
            /\ IsKey(t, starts, stops, key, j) /\ Rank(starts, i) = Rank(starts, j) + 1
            /\ \A x \in starts : IsKey(t, starts, stops, key, x) => j <= x

\* What json_unescape copies of the string from i to e: not the backslash of an
\* escape
Shown(t, i, e) == {p \in i + 1..e - 1 : ~Escaped(t, p + 1)}

\* s is the string from i to e, decoded
Decodes(t, i, e, s) ==
  LET shown == Shown(t, i, e) IN
    /\ s \in Seq(Chars) /\ Len(s) = Cardinality(shown)
    /\ \A p \in shown : s[UpTo(shown, p)] = IF Escaped(t, p) THEN Unescaped(t[p]) ELSE t[p]

\* s is what json_parse returns for the item from i to e: json_unescape does not
\* know \u
Means(t, i, e, s) ==
  IF t[i] # "quote" THEN s = SubSeq(t, i, e)
  ELSE IF \E p \in i + 1..e - 1 : t[p] = "u" /\ Escaped(t, p) THEN s = << >>
  ELSE Decodes(t, i, e, s)

\* A number or word is followed by something that may follow it, or that the
\* scanner refuses.  It takes a quote or an opening bracket that follows directly
\* for a part of it, and a backslash for the beginning of an escape.
Separated(t) ==
  LET q == Quotes(t) IN
    \A i \in DOMAIN t \ {1} :
      t[i] \in {"quote", "backslash", "open"} /\ t[i - 1] \in Literal => Inside(q, i - 1)

FindsItem ==
  pc = "done" /\ Separated(text) =>
    LET starts == Starts(text)
        stops   == Stops(text)
        Found(i, e) == IsValue(text, starts, stops, input.key, input.index, i) /\ Spans(stops, i, e)
    IN  \/ \E i \in starts, e \in stops : Found(i, e) /\ Means(text, i, e, out)
        \/ out = << >> /\ ~\E i \in starts, e \in stops : Found(i, e)
=============================================================================
