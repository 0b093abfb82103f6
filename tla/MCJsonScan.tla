----------------------------- MODULE MCJsonScan -----------------------------
(***************************************************************************)
(* An instance of JsonScan for TLC: texts written from lists of items whose *)
(* values are known, whole and cut off, and short arbitrary texts.          *)
(***************************************************************************)
EXTENDS JsonText, SequencesExt

\* A piece of a text: how it is written, what json_parse shall return for it,
\* and whether the scanner refuses it: 127 in a string, a newline after a literal
Item(raw, means, refused) == [raw |-> raw, means |-> means, refused |-> refused]

Literals == {Item(l, l, FALSE) : l \in {<<"digit">>, <<"n", "letter">>}}
                 \cup {Item(<<"digit", "newline">>, <<"digit">>, TRUE)}

\* What strings are made of; json_unescape does not know \u
Units == {Item(<<c>>, <<c>>, c = "delete") : c \in {"letter", "close", "delete"}}
           \cup {Item(<<"backslash", c>>, <<Unescaped(c)>>, FALSE) : c \in {"quote", "backslash", "n"}}
           \cup {Item(u, u, FALSE) : u \in {<<"lead2", "next">>, <<"lead3", "next", "next">>}}
UnicodeEscape == Item(<<"backslash", "u">>, << >>, FALSE)

Written(items) == FlattenSeq([i \in DOMAIN items |-> items[i].raw])
Refused(items) == \E i \in DOMAIN items : items[i].refused

StringOf(us) ==
  Item(<<"quote">> \o Written(us) \o <<"quote">>,
       IF UnicodeEscape \in ToSet(us) THEN << >> ELSE FlattenSeq([i \in DOMAIN us |-> us[i].means]),
       Refused(us))

\* A list or an object: its items with a separator after each
StructOf(items) ==
  LET raw == <<"open">> \o FlattenSeq([i \in DOMAIN items |-> items[i].raw \o <<"blank">>]) \o <<"close">>
  IN  Item(raw, raw, Refused(items))

Strings == {StringOf(us) : us \in BoundedSeq(Units \cup {UnicodeEscape}, 2)}
Name == StringOf(<<Item(<<"letter">>, <<"letter">>, FALSE)>>)
OtherName == StringOf(<<Item(<<"backslash", "quote">>, <<"quote">>, FALSE)>>)
Flat == Literals \cup Strings
Nested == {StructOf(items) : items \in
             {<< >>} \cup {<<v>> : v \in Flat} \cup {<<Name, v>> : v \in Literals} \cup {<<StructOf(<<Name>>)>>}}
Values == Flat \cup Nested
Simple == Literals \cup {Name, StructOf(<<Name, OtherName>>)}

\* The value of the item at i, if the scanner gets there
Meaning(items, i) == IF Refused(SubSeq(items, 1, i)) THEN << >> ELSE items[i].means

Call(raw, key, i, results) == [text |-> raw, key |-> key, index |-> i, results |-> results]

\* Objects, with the value of a name; lists, with the value of an index
Objects == {<<Name, v, OtherName, x>> : v \in Values, x \in Simple}
             \cup {<<OtherName, x, Name, v>> : v \in Values, x \in Simple}
Place(items) == IF items[1] = Name THEN 2 ELSE 4
Lists == {<<v, x>> : v \in Values, x \in Simple} \cup {<<x, v>> : v \in Values, x \in Simple}
KeyOf == <<"letter">>

Keyed == {Call(StructOf(o).raw, KeyOf, -1, {Meaning(o, Place(o))}) : o \in Objects}

\* The text of list l with the last cut characters missing gives the value of the
\* item at i or, when it was cut off, nothing
ListCall(l, i, cut) ==
  LET raw     == StructOf(l).raw
      meaning == IF i < 2 THEN Meaning(l, i + 1) ELSE << >>
  IN  Call(SubSeq(raw, 1, Len(raw) - cut), << >>, i,
           IF cut = 0 THEN {meaning} ELSE {meaning, << >>})

\* A list is cut off anywhere if what follows its first item is closed
Closed == {Name, StructOf(<<Name, OtherName>>)}
Cuts(l, i) == IF l[2] \in Closed /\ i < 2 THEN 0..Len(StructOf(l).raw) ELSE {0}
LongestList == 26
Indexed ==
  {ListCall(c[1], c[2], c[3]) :
     c \in {d \in Lists \X (0..2) \X (0..LongestList) : d[3] \in Cuts(d[1], d[2])}}

\* Any text: nothing is expected but an end
Wild ==
  [text : {<<"open">> \o s : s \in
             BoundedSeq({"open", "close", "quote", "backslash", "digit", "letter", "lead2", "next"}, 4)},
   key : {<< >>, KeyOf}, index : {0}, results : {{}}]

MCInputs ==
  Wild \cup {Call(<<"open", "digit", "close">>, << >>, -1, {<< >>})} \cup Keyed \cup Indexed

\* The result is the value of the key, or of the index: strings decoded,
\* everything else as it is written.  It is "" when there is none, when the
\* string has a \u escape (json_utils.hpp:194), and when the scanner has met a
\* character 127 or a newline right after a literal by the end of the value
\* (json_utils.hpp:77-78).
FindsValue == pc = "done" /\ input.results # {} => out \in input.results
=============================================================================
