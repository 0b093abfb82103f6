------------------------------ MODULE JsonScan ------------------------------
(***************************************************************************)
(* json_utils.hpp: json_parse looks up a value in a JSON text.  The        *)
(* scanner json_parse_c reads the text once, character by character,       *)
(* remembers where the key and the value start, and stops at the end of    *)
(* the value; json_unescape then decodes a string.  Positions count from   *)
(* 1, and 0 is the null pointer.  Characters are classes: what is in one   *)
(* class is treated alike.                                                 *)
(***************************************************************************)
EXTENDS Integers, Sequences

CONSTANT Inputs  \* calls of json_parse: the text, the key or << >>, the index

Opening == {"open"}                    \* { [
Closing == {"close"}                   \* } ]
Blank == {"blank"}                     \* space , :
LiteralStart == {"digit", "n"}         \* 0-9 -, t f n; the latter two escape, too
Escapes == {"quote", "backslash", "b", "n", "u"}  \* " \, b r /, n f t, u
Leads == {"lead2", "lead3", "lead4"}   \* of UTF-8 sequences of that length
Printable == Opening \cup Closing \cup Blank \cup LiteralStart \cup Escapes \cup {"letter"}
\* "newline" is \n, \r or a tab, "control" what else is below 32, "delete" is
\* 127, "next" continues a UTF-8 sequence, "high" is 247 or more
Chars == Printable \cup Leads \cup {"newline", "control", "delete", "next", "high"}

ASSUME InputsAssumption ==
  \A i \in Inputs : i.text \in Seq(Chars) /\ i.key \in Seq(Chars) /\ i.index \in Int

VARIABLES
  input,    \* the call
  pc,       \* "scan", "parsed" when the scanner returned, "unescape", "done"
  pos,      \* s: the next character to read
  state,    \* the state of the scanner
  utf8,     \* utf8_bytes
  depth,    \* structures that are open
  index,    \* starts of keys and values to skip before the wanted one
  k,        \* where the key being read starts
  value,    \* *value
  valuesz,  \* *valuesz
  n,        \* json_unescape's n: what is left of the value
  out       \* the result, once pc = "done"

vars == <<input, pc, pos, state, utf8, depth, index, k, value, valuesz, n, out>>

text == input.text
keyed == input.key # << >>

Init ==
  /\ input \in Inputs
  /\ pc = IF ~keyed /\ input.index < 0 THEN "parsed" ELSE "scan"
  /\ pos = 1 /\ state = "value" /\ utf8 = 0 /\ depth = 0
  /\ index = IF keyed THEN 1 ELSE input.index
  /\ k = 0 /\ value = 0 /\ valuesz = 0
  /\ n = 0 /\ out = << >>
-----------------------------------------------------------------------------
Token(next, action) == [next |-> next, action |-> action]
Malformed == Token("malformed", "none")

\* What character c is in a string, or in a literal that it does not end
LexText(st, c) ==
  CASE c \in {"newline", "control", "delete", "next"} -> Malformed
    [] c = "quote" -> Token("value", "end")
    [] c = "backslash" -> Token("escape", "none")
    [] c \in Leads -> Token("utf8", "none")
    [] OTHER -> Token(st, "none")

\* Mutant: the bracket that ends a literal is taken with it
LiteralSwallows(c) ==
  CASE c \in Blank \cup Closing -> Token("value", "end")
    [] c \in Printable \ (Blank \cup Closing) -> LexText("literal", c)
    [] OTHER -> Malformed

\* Mutant: a literal that has ended is still a literal
LiteralStays(c) ==
  CASE c \in Blank \cup Closing -> Token("literal", "end_before")
    [] c \in Printable \ (Blank \cup Closing) -> LexText("literal", c)
    [] OTHER -> Malformed

\* What it is in a literal.  The character that ends one is read again.  A
\* newline would end it too, but falls through to the strings, which refuse it.
LexLiteral(c) ==
  CASE c \in Blank \cup Closing -> Token("value", "end_before")
    [] c \in Printable \ (Blank \cup Closing) -> LexText("literal", c)
    [] OTHER -> Malformed

\* The switch over the state: the next state and the action
Lex(c) ==
  CASE state = "value" /\ c \in Blank \cup {"newline"} -> Token("value", "none")
    [] state = "value" /\ c = "quote" -> Token("string", "start")
    [] state = "value" /\ c \in Opening -> Token("value", "start_struct")
    [] state = "value" /\ c \in Closing -> Token("value", "end_struct")
    [] state = "value" /\ c \in LiteralStart -> Token("literal", "start")
    [] state = "literal" -> LexLiteral(c)
    [] state = "string" -> LexText("string", c)
    [] state = "escape" /\ c \in Escapes -> Token("string", "none")
    [] state = "utf8" /\ c = "next" -> Token(IF utf8 = 1 THEN "string" ELSE "utf8", "none")
    [] OTHER -> Malformed

Utf8Bytes(c) ==
  CASE c = "lead2" -> 1 [] c = "lead3" -> 2 [] c = "lead4" -> 3
    [] state = "utf8" -> utf8 - 1 [] OTHER -> utf8

\* A key or a value of the outermost structure starts at s
StartsAt(s) ==
  /\ value' = IF index = 0 THEN s ELSE value
  /\ k' = IF index = 1 /\ keyed THEN s ELSE k
  /\ index' = IF index = 0 \/ (index = 1 /\ keyed) THEN index ELSE index - 1
  /\ UNCHANGED <<pc, valuesz>>

\* Mutant: the size counts one character too many
EndsBeyond(s) ==
  IF value # 0 /\ index = 0
  THEN /\ pc' = "parsed" /\ valuesz' = s + 2 - value
       /\ UNCHANGED <<value, index, k>>
  ELSE /\ index' = IF keyed /\ k # 0
                   THEN IF SubSeq(text, k + 1, s - 1) = input.key THEN 0 ELSE 2
                   ELSE index
       /\ k' = IF keyed THEN 0 ELSE k
       /\ UNCHANGED <<pc, value, valuesz>>

\* It ends at s: the value that is wanted, or a key, which may be the wanted one
EndsAt(s) ==
  IF value # 0 /\ index = 0
  THEN /\ pc' = "parsed" /\ valuesz' = s + 1 - value
       /\ UNCHANGED <<value, index, k>>
  ELSE /\ index' = IF keyed /\ k # 0
                   THEN IF SubSeq(text, k + 1, s - 1) = input.key THEN 0 ELSE 2
                   ELSE index
       /\ k' = IF keyed THEN 0 ELSE k
       /\ UNCHANGED <<pc, value, valuesz>>

\* One turn of the scanner's loop
Scan ==
  /\ pc = "scan" /\ pos <= Len(text)
  /\ LET t == Lex(text[pos])
         s == IF t.action = "end_before" THEN pos - 1 ELSE pos
         d == IF t.action = "end_struct" THEN depth - 1 ELSE depth IN
       IF t = Malformed
       THEN pc' = "parsed" /\ UNCHANGED <<pos, state, utf8, depth, index, k, value, valuesz>>
       ELSE /\ state' = t.next /\ pos' = s + 1
            /\ utf8' = Utf8Bytes(text[pos])
            /\ depth' = IF t.action = "start_struct" THEN d + 1 ELSE d
            /\ CASE d = 1 /\ t.action \in {"start", "start_struct"} -> StartsAt(s)
                 [] d = 1 /\ t.action \in {"end", "end_before", "end_struct"} -> EndsAt(s)
                 [] OTHER -> UNCHANGED <<pc, index, k, value, valuesz>>
  /\ UNCHANGED <<input, n, out>>

\* The text ends before the value does
ScanEnds ==
  /\ pc = "scan" /\ pos > Len(text)
  /\ pc' = "parsed"
  /\ UNCHANGED <<input, pos, state, utf8, depth, index, k, value, valuesz, n, out>>

\* json_parse goes on with the value, whatever the scanner has returned
Parse ==
  /\ pc = "parsed"
  /\ IF value # 0 /\ text[value] = "quote"
     THEN pc' = "unescape" /\ pos' = value + 1 /\ n' = valuesz /\ UNCHANGED out
     ELSE /\ pc' = "done"
          /\ out' = IF value = 0 THEN << >> ELSE SubSeq(text, value, value + valuesz - 1)
          /\ UNCHANGED <<pos, n>>
  /\ UNCHANGED <<input, state, utf8, depth, index, k, value, valuesz>>

\* The character at p; the text ends with a zero
At(p) == IF p <= Len(text) THEN text[p] ELSE "zero"

\* What the escape \c stands for, and those that json_unescape knows
Unescaped(c) == CASE c = "n" -> "newline" [] c = "b" -> "control" [] OTHER -> c
Known == Escapes \ {"u"}

\* One turn of json_unescape's loop, or its end
Unescape ==
  /\ pc = "unescape"
  /\ CASE n > 2 /\ At(pos) = "backslash" /\ At(pos + 1) \in Known ->
            /\ out' = Append(out, Unescaped(At(pos + 1)))
            /\ pos' = pos + 2 /\ n' = n - 2 /\ UNCHANGED pc
       [] n > 2 /\ At(pos) # "backslash" ->
            /\ out' = Append(out, At(pos))
            /\ pos' = pos + 1 /\ n' = n - 1 /\ UNCHANGED pc
       [] OTHER ->
            /\ out' = IF n <= 2 /\ At(pos) = "quote" THEN out ELSE << >>
            /\ pc' = "done" /\ UNCHANGED <<pos, n>>
  /\ UNCHANGED <<input, state, utf8, depth, index, k, value, valuesz>>

Next == Scan \/ ScanEnds \/ Parse \/ Unescape

Spec == Init /\ [][Next]_vars

\* The function is run to its end
FairSpec == Spec /\ WF_vars(Next)
-----------------------------------------------------------------------------
\* Whatever the text, nothing outside of it and its terminating zero is read:
\* not by the scanner, by the comparison of the key behind k, by the copy of the
\* value or by json_unescape, although a literal's end moves s back and a
\* refused text leaves a value without a size (json_utils.hpp:37-150, 159-236).
InBounds ==
  /\ pc = "scan" => pos \in 1..Len(text) + 1 /\ k \in 0..pos - 1 /\ value \in 0..pos - 1
  /\ value \in 0..Len(text) /\ valuesz >= 0 /\ value + valuesz <= Len(text) + 1
  /\ pc = "unescape" =>
       /\ value > 0 /\ pos \in value + 1..Len(text) + 1
       /\ n > 2 => pos + 1 <= Len(text)

\* A bound on the turns that are left: a turn of the scanner that does not
\* advance leaves a literal, and json_unescape goes through at most the value
TurnsLeft ==
  CASE pc = "scan" -> Len(text) + 4 + 2 * (Len(text) + 1 - pos)
                        + (IF state = "literal" THEN 1 ELSE 0)
    [] pc = "parsed" -> Len(text) + 3
    [] pc = "unescape" -> n + 1
    [] pc = "done" -> 0

\* Every turn brings the end closer, whatever the text: no escape, UTF-8 sequence
\* or end of a literal lets the scanner or json_unescape turn on the spot, and
\* together they take at most 3 Len(text) + 4 turns (json_utils.hpp:37-151,
\* 164-211).
Advances == [][TurnsLeft' \in 0..TurnsLeft - 1]_vars

\* It ends: a literal's end, which does not advance, cannot be met twice in a
\* row (json_utils.hpp:67-72).
Ends == <>(pc = "done")
=============================================================================
