------------------------------ MODULE JsonText ------------------------------
(***************************************************************************)
(* JSON as text: write_string_value of JsonObject and JsonValue, and       *)
(* JsonParseNew.  A text is a sequence of characters, of which the words   *)
(* true, false and null are one each (the parser compares them letter by   *)
(* letter and needs one more character after them, as here).  Strings are  *)
(* copied as they are in both directions: nothing is escaped when they are *)
(* written, and an escape is kept when they are read.                      *)
(*                                                                         *)
(* A number is an integer or a double, each given by the text that         *)
(* std::to_chars writes for it: of a double the shortest, which is 1 for   *)
(* 1.0, 1e-04, 1.5e-07 or 1.5e+20.  The parser takes a text without a "."  *)
(* for an int64, and knows no exponent but a negative one.                 *)
(***************************************************************************)
EXTENDS Integers, SequencesExt

CONSTANT Int64Digits    \* the digits an int64 has room for

ASSUME Int64DigitsAssumption == Int64Digits \in Nat \ {0}

Null        == [t |-> "null"]
Bool(b)     == [t |-> "bool", b |-> b]
Int64(s)    == [t |-> "int", s |-> s]
Double(s)   == [t |-> "double", s |-> s]
Str(s)      == [t |-> "str", s |-> s]
Arr(items)  == [t |-> "arr", items |-> items]
Obj(fields) == [t |-> "obj", fields |-> fields]

DecimalDigits == {"0", "1", "2", "5"}
NumberChars   == DecimalDigits \cup {"-"}
Quote         == "\""
Escape        == "\\"

-----------------------------------------------------------------------------
(* Writer.                                                                 *)

Joined(texts) ==
    IF texts = << >> THEN << >>
    ELSE FoldLeft(LAMBDA s, t : s \o <<",">> \o t, Head(texts), Tail(texts))

RECURSIVE write_string_value(_)
write_string_value(v) ==
    CASE v.t = "null" -> <<"null">>
      [] v.t = "bool" -> << IF v.b THEN "true" ELSE "false" >>
      [] v.t \in {"int", "double"} -> v.s
      [] v.t = "str"  -> <<Quote>> \o v.s \o <<Quote>>
      [] v.t = "arr"  ->
             <<"[">> \o Joined([i \in DOMAIN v.items |-> write_string_value(v.items[i])])
                     \o <<"]">>
      [] v.t = "obj"  ->
             LET keys == SetToSeq(DOMAIN v.fields)
             IN  <<"{">>
                 \o Joined([i \in DOMAIN keys |->
                        <<Quote, keys[i], Quote, ":">> \o write_string_value(v.fields[keys[i]])])
                 \o <<"}">>

-----------------------------------------------------------------------------
(* Parser.  Every function returns the value, the position after it and    *)
(* m_is_valid; a Json that was never given a value is Null.                *)

Parsed(v, pos)  == [v |-> v, pos |-> pos, ok |-> TRUE]
Invalid         == [v |-> Null, pos |-> 0, ok |-> FALSE]

(* The first position from start on whose character is in stops, else one  *)
(* past the end.                                                           *)
SkipTo(s, start, stops) ==
    LET hits == {i \in start .. Len(s) : s[i] \in stops}
    IN  IF hits = {} THEN Len(s) + 1 ELSE Min(hits)

IsWord(s, i) == s[i] \in {"true", "false", "null"} /\ i < Len(s)

ValueStarts == {Quote, "{", "["} \cup NumberChars

parse_key(s, pos) ==
    LET start == SkipTo(s, pos, {Quote, "}"})
        end == SkipTo(s, start + 1, {Quote})
    IN  IF start > Len(s) THEN Invalid
        ELSE IF s[start] = "}" THEN Parsed("}", start + 1)
        ELSE IF end > Len(s) THEN Invalid
        ELSE Parsed(s[start + 1], end + 1)

\* Mutant: an escaped quote ends the string.
StringEnd_Escaped(s, start) == SkipTo(s, start, {Quote})

(* The closing quote: the first that no odd run of escapes precedes.       *)
StringEnd(s, start) ==
    LET scan[i \in start .. Len(s) + 2] ==
            IF i > Len(s) THEN Len(s) + 1
            ELSE IF s[i] = Escape THEN scan[i + 2]
            ELSE IF s[i] = Quote THEN i
            ELSE scan[i + 1]
    IN  scan[start]

parse_value_string(s, pos) ==
    LET end == StringEnd(s, pos)
    IN  IF end > Len(s) THEN Invalid
        ELSE Parsed(Str(SubSeq(s, pos, end - 1)), end + 1)

(* std::from_chars of an int64: a sign and digits, the rest left unread;   *)
(* no digits, or too many, are an error.                                   *)
IntPrefix(text) ==
    LET others == {i \in DOMAIN text : text[i] \notin DecimalDigits /\ ~(i = 1 /\ text[i] = "-")}
    IN  SubSeq(text, 1, IF others = {} THEN Len(text) ELSE Min(others) - 1)

DigitsOf(text) == SelectSeq(text, LAMBDA c : c \in DecimalDigits)

parse_value_number(s, pos) ==
    LET inside(i) == \/ s[i] \in NumberChars \cup {"."}
                     \/ s[i] = "e" /\ i < Len(s) /\ s[i + 1] = "-"
        outs == {i \in pos .. Len(s) : ~inside(i)}
        end == IF outs = {} THEN Len(s) + 1 ELSE Min(outs)
        text == SubSeq(s, pos, end - 1)
    IN  IF "." \in Range(text) THEN Parsed(Double(text), end)
        ELSE IF Len(DigitsOf(IntPrefix(text))) \in 1 .. Int64Digits
        THEN Parsed(Int64(IntPrefix(text)), end)
        ELSE Invalid

(* After a value the parser goes on to the next separator, which has to be *)
(* there.                                                                  *)
AfterValue(s, r) ==
    LET next == SkipTo(s, r.pos, {",", "}", "]"})
    IN  IF ~r.ok \/ next > Len(s) THEN Invalid ELSE [r EXCEPT !.pos = next]

Comma(s, pos) == IF pos <= Len(s) /\ s[pos] = "," THEN pos + 1 ELSE pos

RECURSIVE parse_value(_, _), parse_object(_, _, _), parse_array(_, _, _)

parse_value(s, pos) ==
    LET starts == {i \in pos .. Len(s) :
                      s[i] \in ValueStarts \cup {"}", "]"} \/ IsWord(s, i)}
        start == IF starts = {} THEN Len(s) + 1 ELSE Min(starts)
        c == s[start]
    IN  IF start > Len(s) THEN Invalid
        ELSE IF c \in {"}", "]"} THEN Parsed(Null, start)
        ELSE AfterValue(s,
                 CASE c = Quote -> parse_value_string(s, start + 1)
                   [] c \in NumberChars -> parse_value_number(s, start)
                   [] c = "true" -> Parsed(Bool(TRUE), start + 1)
                   [] c = "false" -> Parsed(Bool(FALSE), start + 1)
                   [] c = "null" -> Parsed(Null, start + 1)
                   [] c = "{" -> parse_object(s, start + 1, Null)
                   [] c = "[" -> parse_array(s, start + 1, Null))

(* res[key] = value: a Json without a value becomes an object.             *)
SetField(res, key, v) ==
    Obj([k \in {key} \cup (IF res = Null THEN {} ELSE DOMAIN res.fields) |->
            IF k = key THEN v ELSE res.fields[k]])

parse_object(s, pos, res) ==
    IF pos > Len(s) THEN Invalid
    ELSE IF s[pos] = "}" THEN Parsed(res, pos + 1)
    ELSE LET key == parse_key(s, pos)
             value == parse_value(s, key.pos)
         IN  IF ~key.ok THEN Invalid
             ELSE IF key.v = "}" THEN Parsed(res, key.pos)
             ELSE IF ~value.ok THEN Invalid
             ELSE parse_object(s, Comma(s, value.pos), SetField(res, key.v, value.v))

(* An array in which a "}" stands where an element or the "]" has to be    *)
(* makes the code add null elements for ever; no such text is given to it. *)
parse_array(s, pos, res) ==
    LET value == parse_value(s, pos)
    IN  IF pos > Len(s) THEN Invalid
        ELSE IF s[pos] = "]" THEN Parsed(res, pos + 1)
        ELSE IF ~value.ok THEN Invalid
        ELSE parse_array(s, Comma(s, value.pos),
                         Arr(Append(IF res = Null THEN << >> ELSE res.items, value.v)))

parse(s) ==
    LET start == SkipTo(s, 1, {"{", "["})
        r == IF s[start] = "{" THEN parse_object(s, start + 1, Null)
             ELSE parse_array(s, start + 1, Null)
    IN  IF start > Len(s) \/ ~r.ok THEN Null ELSE r.v

=============================================================================
