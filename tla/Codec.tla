------------------------------- MODULE Codec --------------------------------
(***************************************************************************)
(* A list of keyed values is written with the encoders of replay/parser.c, *)
(* each into a string buffer of its own (utils/stringbuffer.c), and the    *)
(* text is read back pair by pair.                                         *)
(***************************************************************************)
EXTENDS Parser

CONSTANTS
  INITIAL_SIZE,   \* of a string buffer
  Item            \* what may be written: records kind, key, val

VARIABLES
  items,          \* the values to write
  pieces,         \* what is still to be appended for the current one
  sb,             \* its string buffer: s, bufsize
  written,        \* how many are complete
  text,           \* their texts; then what is left to read, or NULL
  read            \* the pairs read

vars == <<items, pieces, sb, written, text, read>>

\* The bytes of a string: a word or character of the model counts as one.
strlen(s) == Len(s)

stringbuffer_create == [s |-> <<>>, bufsize |-> INITIAL_SIZE]

stringbuffer_extend_if_short(b, str) ==
  LET desiredlength == strlen(b.s) + strlen(str)
      enough == {k \in 0..desiredlength : desiredlength < b.bufsize * 2^k}
  IN  [b EXCEPT !.bufsize = @ * 2^Min(enough)]

stringbuffer_append(b, str) == [stringbuffer_extend_if_short(b, str) EXCEPT !.s = @ \o str]

\* stringbuffer_getstring hands the string over; stringbuffer_reset allocates anew.
stringbuffer_reset == stringbuffer_create

\* A pair whose value is a text of pairs, and rows of different lengths, have a
\* decoder or a place in the grammar of parser.h, and are written by hand.
Encode(it) ==
  CASE it.kind = "int"            -> parser_encode_int(it.key, it.val)
    [] it.kind = "intarray"       -> parser_encode_intarray(it.key, it.val)
    [] it.kind = "intmatrix"      -> parser_encode_intmatrix(it.key, it.val)
    [] it.kind = "float"          -> parser_encode_float(it.key, it.val)
    [] it.kind = "floatarray"     -> parser_encode_floatarray(it.key, it.val)
    [] it.kind = "floatmatrix"    -> parser_encode_floatmatrix(it.key, it.val)
    [] it.kind = "floatrows"      -> Table(it.key, [i \in DOMAIN it.val |-> Each(print_float, it.val[i])])
    [] it.kind = "bool"           -> parser_encode_bool(it.key, it.val)
    [] it.kind = "boolarray"      -> parser_encode_boolarray(it.key, it.val)
    [] it.kind = "string"         -> parser_encode_string(it.key, it.val)
    [] it.kind = "stringarray"    -> parser_encode_stringarray(it.key, it.val)
    [] it.kind = "stringmatrix"   -> parser_encode_stringmatrix(it.key, it.val)
    [] it.kind = "stringrows"     -> Table(it.key, it.val)
    [] it.kind = "pairs"          -> <<it.key, <<"=", "{">>, it.val, <<"}", ";">>>>

\* What the decoder for the kind of it makes of a value, given its dimensions.
Decode(it, s) ==
  CASE it.kind = "int"            -> parser_decode_int(s)
    [] it.kind = "intarray"       -> parser_decode_intarray(s, 1, Len(it.val))[1]
    [] it.kind = "intmatrix"      -> parser_decode_intarray(s, Len(it.val), Len(it.val[1]))
    [] it.kind = "float"          -> parser_decode_float(s)
    [] it.kind = "floatarray"     -> parser_decode_floatarray(s, 1, Len(it.val))[1]
    [] it.kind = "floatmatrix"    -> parser_decode_floatarray(s, Len(it.val), Len(it.val[1]))
    [] it.kind = "floatrows"      -> parser_decode_floatarrayvariable(s, [i \in DOMAIN it.val |-> Len(it.val[i])])
    [] it.kind = "bool"           -> parser_decode_bool(s)
    [] it.kind = "boolarray"      -> parser_decode_boolarray(s, 1, Len(it.val))[1]
    [] it.kind = "stringarray"    -> parser_decode_stringarray(s, 1, Len(it.val))[1]
    [] it.kind = "stringmatrix"   -> parser_decode_stringarray(s, Len(it.val), Len(it.val[1]))
    [] it.kind = "stringrows"     -> parser_decode_stringarrayvariable(s, [i \in DOMAIN it.val |-> Len(it.val[i])])
    [] it.kind \in {"string", "pairs"} -> parser_decode_string(s)

-----------------------------------------------------------------------------
Init ==
  /\ items \in [1..2 -> Item]
  /\ pieces = Encode(items[1])
  /\ sb = stringbuffer_create
  /\ written = 0 /\ text = <<>> /\ read = <<>>

AppendPiece ==
  /\ pieces # <<>>
  /\ sb' = stringbuffer_append(sb, Head(pieces))
  /\ pieces' = Tail(pieces)
  /\ UNCHANGED <<items, written, text, read>>

Finish ==
  /\ pieces = <<>> /\ written < Len(items)
  /\ text' = text \o sb.s
  /\ sb' = stringbuffer_reset
  /\ written' = written + 1
  /\ pieces' = IF written' < Len(items) THEN Encode(items[written' + 1]) ELSE <<>>
  /\ UNCHANGED <<items, read>>

\* The reader goes on until it is given no text or finds no key.
ReadPair ==
  /\ written = Len(items) /\ text # NULL
  /\ LET p == parser_nextkeyvaluepair(text)
     IN  /\ text' = p.next
         /\ read' = IF p.key = <<>> THEN read ELSE Append(read, p)
  /\ UNCHANGED <<items, pieces, sb, written>>

Next == AppendPiece \/ Finish \/ ReadPair

-----------------------------------------------------------------------------
Near(x, y) == x - y \in (-5)..5

\* Floats come back to the last digit printed, everything else as it was.
Same(it, val) ==
  CASE it.kind = "float"      -> Near(it.val, val)
    [] it.kind = "floatarray" -> DOMAIN val = DOMAIN it.val /\ \A i \in DOMAIN val : Near(it.val[i], val[i])
    [] it.kind \in {"floatmatrix", "floatrows"} ->
         /\ DOMAIN val = DOMAIN it.val
         /\ \A i \in DOMAIN val : DOMAIN val[i] = DOMAIN it.val[i] /\ \A j \in DOMAIN val[i] : Near(it.val[i][j], val[i][j])
    [] OTHER -> val = it.val

\* What the encoders write, parser_nextkeyvaluepair and the decoders read back:
\* every pair once and in order, with its key and its value, nested pairs and
\* blanks in strings included.  On the way no buffer is too short for its string
\* and the terminating zero.
EncodingReadsBack ==
  /\ strlen(sb.s) < sb.bufsize
  /\ \A i \in DOMAIN read :
       /\ i \in DOMAIN items /\ read[i].key = items[i].key
       /\ read[i].issingleton = (items[i].kind # "pairs")
       /\ Same(items[i], Decode(items[i], read[i].value))
  /\ text = NULL => Len(read) = Len(items)
=============================================================================
