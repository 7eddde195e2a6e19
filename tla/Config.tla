------------------------------- MODULE Config -------------------------------
(***************************************************************************)
(* The configuration file of the pigeon agent: properties_readfromfile     *)
(* (replay/properties.c) puts its lines into a hash map, and reader_create *)
(* (replay/reader.c) takes the policy from the map.                        *)
(***************************************************************************)
EXTENDS Parser

CONSTANTS
  FileLine,     \* lines of files: records kind, key, before, after, value, trailing
  MaxLines      \* bound: lines of a file

VARIABLES
  file,         \* the lines, or NULL for a file that cannot be read
  at,           \* the next line, past the end by two once reader_create has returned
  map,          \* properties->map, by the map that HashMap implements
  reader        \* struct reader, or NULL

vars == <<file, at, map, reader>>

PROP_COMMENT_LINE == "#"

\* The text of a line: before and after are the numbers of blanks around the
\* sign, trailing that of blanks at the end.
Line(l) ==
  LET blanks(n) == [i \in 1..n |-> " "]
      pair == <<l.key>> \o blanks(l.before) \o <<"=">> \o blanks(l.after) \o <<l.value>> \o blanks(l.trailing)
  IN  CASE l.kind = "pair"    -> pair \o <<"\n">>
        [] l.kind = "comment" -> <<PROP_COMMENT_LINE>> \o pair \o <<"\n">>
        [] l.kind = "word"    -> <<l.key, "\n">>
        [] l.kind = "empty"   -> <<"\n">>

\* Faulty form: a key that is in the map keeps its value.
properties_readline_KeepsFirst(mp, s) ==
  LET eq    == IndexOf(s, 1, {"="})
      key   == SubSeq(s, 1, IndexOf(SubSeq(s, 1, eq - 1), 1, {" "}) - 1)
      first == IndexOf(s, eq + 1, ToSet(s) \ {" "})
      value == SubSeq(s, first, IndexOf(s, first, {"\n"}) - 1)
  IN  IF s[1] \in {PROP_COMMENT_LINE, "\n"} \/ eq > Len(s) THEN mp ELSE mp @@ (key :> value)

\* The body of the loop of properties_readfromfile: the key ends at its first
\* blank, the value starts after the blanks and keeps those at its end.
properties_readline(mp, s) ==
  LET eq    == IndexOf(s, 1, {"="})
      key   == SubSeq(s, 1, IndexOf(SubSeq(s, 1, eq - 1), 1, {" "}) - 1)
      first == IndexOf(s, eq + 1, ToSet(s) \ {" "})
      value == SubSeq(s, first, IndexOf(s, first, {"\n"}) - 1)
  IN  IF s[1] \in {PROP_COMMENT_LINE, "\n"} \/ eq > Len(s) THEN mp ELSE (key :> value) @@ mp

properties_get(mp, key) == IF <<key>> \in DOMAIN mp THEN mp[<<key>>] ELSE NULL

Objectives == {"LOAD_BALANCE", "CONSOLIDATE", "A_BINPACK"}

defs_objtypeFromstring(s) ==
  IF \E o \in Objectives : s = <<o>> THEN s[1] ELSE "A_BINPACK"

\* The policy, with its defaults for what the file does not say; without a file
\* there is no reader.
reader_create(f, mp) ==
  IF f = NULL THEN NULL ELSE
  LET index == properties_get(mp, "policyResourceIndex")
      objective == properties_get(mp, "policyObjective")
  IN  [policyresourceindex |-> IF index = NULL THEN 0 ELSE parser_decode_int(index),
       policyobjective |-> IF objective = NULL THEN "A_BINPACK" ELSE defs_objtypeFromstring(objective)]

-----------------------------------------------------------------------------
Init ==
  /\ file \in BoundedSeq(FileLine, MaxLines) \cup {NULL}
  /\ at = 1 /\ map = [k \in {} |-> NULL] /\ reader = NULL

Lines == IF file = NULL THEN 0 ELSE Len(file)

ReadLine ==
  /\ at <= Lines
  /\ map' = properties_readline(map, Line(file[at]))
  /\ at' = at + 1
  /\ UNCHANGED <<file, reader>>

CreateReader ==
  /\ at = Lines + 1
  /\ reader' = reader_create(file, map)
  /\ at' = at + 1
  /\ UNCHANGED <<file, map>>

Next == ReadLine \/ CreateReader

-----------------------------------------------------------------------------
\* The last line that sets the key, or 0.
Setting(key) ==
  LET ls == {i \in DOMAIN file : file[i].kind = "pair" /\ file[i].key = key} IN IF ls = {} THEN 0 ELSE Max(ls)

\* The policy is the one the last line of the file for each of the two keys
\* gives, however it is spaced, whatever is commented out or is no assignment;
\* an objective that is unknown, or followed by a blank, is the default.  Of a file
\* that cannot be read no policy is made up: there is no reader.
PolicyFromFile ==
  at = Lines + 2 =>
    /\ reader = NULL <=> file = NULL
    /\ file # NULL =>
        LET i == Setting("policyResourceIndex")
            o == Setting("policyObjective")
        IN  /\ ToString(reader.policyresourceindex) = IF i = 0 THEN "0" ELSE file[i].value
            /\ reader.policyobjective =
                 IF o # 0 /\ file[o].value \in Objectives /\ file[o].trailing = 0 THEN file[o].value ELSE "A_BINPACK"
=============================================================================
