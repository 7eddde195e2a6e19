------------------------------- MODULE Parser -------------------------------
(***************************************************************************)
(* The text form of keys and values in libpigeon (replay/parser.c).  A     *)
(* text is a sequence of the characters that have a meaning in the grammar *)
(* of parser.h and of words, which stand for runs of other characters.     *)
(* Position Len(s) + 1 holds the terminating zero.  A float is a number of *)
(* tenths of the last digit that "%f" prints.                              *)
(***************************************************************************)
EXTENDS Integers, SequencesExt, TLC

CONSTANTS
  NULL,
  MaxNumber     \* bound: numbers of digits strings, from -MaxNumber to MaxNumber

BRACKETS == {" ", "[", "]", "{", "}", ","}

\* strchr and strpbrk, from a position on.
IndexOf(s, from, chars) ==
  LET at == {i \in from..Len(s) : s[i] \in chars} IN IF at = {} THEN Len(s) + 1 ELSE Min(at)

Count(s, from, to, c) == Cardinality({i \in from..to : s[i] = c})

\* Faulty form: a nested value ends at the first closing bracket.
parser_nextkeyvaluepair_FirstBracket(q) ==
  LET eq     == IndexOf(q, 1, {"="})
      nested == eq < Len(q) /\ q[eq + 1] = "{"
      begin  == IF nested THEN eq + 2 ELSE eq + 1
      end    == IF nested THEN IndexOf(q, begin, {"}", "\n"}) ELSE IndexOf(q, begin, {";", "}", "\n"})
      sep    == IF nested THEN end + 1 ELSE end
  IN  IF eq > Len(q) THEN [key |-> <<>>, value |-> <<>>, issingleton |-> FALSE, next |-> NULL]
      ELSE [key |-> SubSeq(q, Min({i \in 1..eq : q[i] # " "}), eq - 1), value |-> SubSeq(q, begin, end - 1),
            issingleton |-> ~nested,
            next |-> IF sep <= Len(q) /\ q[sep] # "\n" THEN SubSeq(q, sep + 1, Len(q)) ELSE NULL]

\* The first pair of q, and the text after its separator: after the last pair of
\* an encoded text, which ends in a separator, that is the empty text.
parser_nextkeyvaluepair(q) ==
  LET eq      == IndexOf(q, 1, {"="})
      nested  == eq < Len(q) /\ q[eq + 1] = "{"
      begin   == IF nested THEN eq + 2 ELSE eq + 1
      closing == {i \in begin..(IndexOf(q, begin, {"\n"}) - 1) :
                    q[i] = "}" /\ Count(q, begin, i, "}") = Count(q, begin, i, "{") + 1}
      closed  == nested => closing # {}
      end     == IF ~closed THEN begin ELSE IF nested THEN Min(closing) ELSE IndexOf(q, begin, {";", "}", "\n"})
      sep     == IF nested THEN end + 1 ELSE end
  IN  IF eq > Len(q) THEN [key |-> <<>>, value |-> <<>>, issingleton |-> FALSE, next |-> NULL]
      ELSE [key |-> SubSeq(q, Min({i \in 1..eq : q[i] # " "}), eq - 1), value |-> SubSeq(q, begin, end - 1),
            issingleton |-> ~nested,
            next |-> IF closed /\ sep <= Len(q) /\ q[sep] # "\n" THEN SubSeq(q, sep + 1, Len(q)) ELSE NULL]

-----------------------------------------------------------------------------
(***************************************************************************)
(* Decoding.  A word that is not a number leaves the zero of the           *)
(* allocation.                                                             *)
(***************************************************************************)
Number(w) ==
  LET ns == {n \in (-MaxNumber)..MaxNumber : ToString(n) = w} IN IF ns = {} THEN 0 ELSE Max(ns)

\* sscanf skips blanks and reads the first word.
FirstWord(s) == LET i == IndexOf(s, 1, ToSet(s) \ {" "}) IN IF i > Len(s) THEN NULL ELSE s[i]

parser_decode_int(s) == IF s = NULL THEN 0 ELSE Number(FirstWord(s))
parser_decode_float(s) == IF s = NULL THEN 0 ELSE 10 * Number(FirstWord(s))
parser_decode_bool(s) == s \in {<<"true">>, <<"TRUE">>, <<"1">>}
parser_decode_string(s) == s

\* The words of s by rows of the lengths ncols, from the first row again when
\* there are more; a cell without a word is NULL.
Cells(s, ncols) ==
  LET words == SelectSeq(s, LAMBDA c : c \notin BRACKETS)
      first(i) == FoldLeft(LAMBDA a, b : a + b, 0, SubSeq(ncols, 1, i - 1))
      at(i, j) == {t \in DOMAIN words : (t - 1) % first(Len(ncols) + 1) = first(i) + j - 1}
  IN  [i \in DOMAIN ncols |->
         [j \in 1..ncols[i] |-> IF at(i, j) = {} THEN NULL ELSE <<words[Max(at(i, j))]>>]]

Rows(nrows, ncols) == [i \in 1..nrows |-> ncols]

parser_decode_intarray(s, nrows, ncols) ==
  LET c == Cells(s, Rows(nrows, ncols)) IN [i \in DOMAIN c |-> [j \in DOMAIN c[i] |-> parser_decode_int(c[i][j])]]
parser_decode_floatarrayvariable(s, ncols) ==
  LET c == Cells(s, ncols) IN [i \in DOMAIN c |-> [j \in DOMAIN c[i] |-> parser_decode_float(c[i][j])]]
parser_decode_floatarray(s, nrows, ncols) == parser_decode_floatarrayvariable(s, Rows(nrows, ncols))
parser_decode_stringarrayvariable(s, ncols) == Cells(s, ncols)
parser_decode_stringarray(s, nrows, ncols) == Cells(s, Rows(nrows, ncols))
parser_decode_boolarray(s, nrows, ncols) ==
  LET c == Cells(s, Rows(nrows, ncols)) IN [i \in DOMAIN c |-> [j \in DOMAIN c[i] |-> parser_decode_bool(c[i][j])]]

-----------------------------------------------------------------------------
(***************************************************************************)
(* Encoding: the strings that are appended to the buffer, in their order.  *)
(***************************************************************************)
print_int(n) == <<ToString(n)>>
print_float(x) == <<ToString((x + 5) \div 10)>>
print_bool(b) == <<IF b THEN "1" ELSE "0">>

Each(print(_), vals) == [i \in DOMAIN vals |-> print(vals[i])]

\* The strings with a comma between each two.
Listed(strs) ==
  FlattenSeq([i \in DOMAIN strs |-> IF i < Len(strs) THEN <<strs[i], <<",">>>> ELSE <<strs[i]>>])

Scalar(key, str) == <<key, <<"=">>, str, <<";">>>>
List(key, strs) == <<key, <<"=", "[">>>> \o Listed(strs) \o <<<<"]", ";">>>>
Table(key, rows) ==
  <<key, <<"=", "[">>>>
    \o FlattenSeq([i \in DOMAIN rows |-> <<<<"[">>>> \o Listed(rows[i]) \o <<<<"]">>>>])
    \o <<<<"]", ";">>>>

parser_encode_int(key, val) == Scalar(key, print_int(val))
parser_encode_intarray(key, val) == List(key, Each(print_int, val))
parser_encode_intmatrix(key, val) == Table(key, [i \in DOMAIN val |-> Each(print_int, val[i])])
parser_encode_float(key, val) == Scalar(key, print_float(val))
parser_encode_floatarray(key, val) == List(key, Each(print_float, val))
parser_encode_floatmatrix(key, val) == Table(key, [i \in DOMAIN val |-> Each(print_float, val[i])])
parser_encode_bool(key, val) == Scalar(key, print_bool(val))
parser_encode_boolarray(key, val) == List(key, Each(print_bool, val))
parser_encode_string(key, val) == Scalar(key, val)
parser_encode_stringarray(key, val) == List(key, val)
parser_encode_stringmatrix(key, val) == Table(key, val)
=============================================================================
