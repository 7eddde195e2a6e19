---------------------------- MODULE MCUtilities -----------------------------
(***************************************************************************)
(* Small instances, for TLC, of the parts of libpigeon that the model of   *)
(* the cluster rests on.  They share no state, so a behaviour is one of    *)
(* the part chosen in its initial state and leaves the others as they are. *)
(***************************************************************************)
EXTENDS HashMap

CONSTANTS k1, k2, k3, k4, d1, d2, Garbage    \* model values

VARIABLES
  part,
  v, seq,                                     \* VectorStore
  q, heap, out, fifo, taken,                  \* LinkedQueue
  items, pieces, sb, written, text, read,     \* Codec
  file, at, map, reader,                      \* Config
  x, inverse, variation, done,                \* Variation
  util, orderedutil, orderedcount, history    \* UtilizationStats

vector == <<v, seq>>
queue == <<q, heap, out, fifo, taken>>
codec == <<items, pieces, sb, written, text, read>>
config == <<file, at, map, reader>>
matrix == <<x, inverse, variation, done>>
statistics == <<util, orderedutil, orderedcount, history>>

Symmetry == Permutations({k1, k2, k3, k4})

\* Values of each kind: numbers of both signs, floats that are rounded up and
\* down, strings with blanks, rows of different lengths, and pairs in pairs.
Sample(kind, vals) == {[kind |-> kind, key |-> <<"k">>, val |-> val] : val \in vals}
Items ==
  UNION {Sample("int", {-3, 0, 12}), Sample("intarray", {<<>>, <<7>>, <<-1, 0, 12>>}),
         Sample("intmatrix", {<<<<1, 2>>, <<3, -4>>>>}),
         Sample("float", {-13, 0, 57}), Sample("floatarray", {<<>>, <<-57, 4>>}),
         Sample("floatmatrix", {<<<<13, -2>>>>}), Sample("floatrows", {<<<<11>>, <<-28, 40>>>>}),
         Sample("bool", {TRUE, FALSE}), Sample("boolarray", {<<TRUE, FALSE>>}),
         Sample("string", {<<>>, <<"a">>, <<"a", " ", "b">>}),
         Sample("stringarray", {<<<<"a">>, <<"true">>>>}),
         Sample("stringmatrix", {<<<<<<"a">>, <<"b">>>>, <<<<"c">>, <<"1">>>>>>}),
         Sample("stringrows", {<<<<<<"a">>, <<"b">>>>, <<<<"c">>>>>>}),
         Sample("pairs", {<<"i", "=", "1", ";">>,
                          <<"i", "=", "{", "j", "=", "[", "2", "]", ";", "}", ";", "l", "=", "a", ";">>})}

Assignment(kind, key, value, spaces) ==
  [kind |-> kind, key |-> key, value |-> value, before |-> spaces[1], after |-> spaces[2], trailing |-> spaces[3]]
FileLines ==
  {Assignment("pair", "policyObjective", value, spaces) :
     value \in {"LOAD_BALANCE", "CONSOLIDATE", "OTHER"}, spaces \in {<<1, 1, 0>>, <<0, 2, 0>>, <<0, 0, 1>>}}
  \cup {Assignment("pair", "policyResourceIndex", value, <<1, 1, 1>>) : value \in {"0", "2"}}
  \cup {Assignment("comment", "policyObjective", "CONSOLIDATE", <<0, 0, 0>>),
        Assignment("word", "policyObjective", "CONSOLIDATE", <<0, 0, 0>>),
        Assignment("empty", "policyObjective", "CONSOLIDATE", <<0, 0, 0>>)}

Squares == [1..1 -> [1..1 -> -2..2]] \cup [1..2 -> [1..2 -> -2..2]] \cup [1..3 -> [1..3 -> {-1, 0, 2}]]
SampleMatrices == [1..1 -> [1..3 -> 0..3]] \cup [1..2 -> [1..3 -> 0..3]]

Vec == INSTANCE VectorStore WITH Element <- {"a", "b"}, InitialCapacity <- 2, MaxSize <- 5
Que == INSTANCE LinkedQueue WITH Address <- 1..4, Element <- {"a", "b"}
Cod == INSTANCE Codec WITH INITIAL_SIZE <- 4, MaxNumber <- 20, Item <- Items
Con == INSTANCE Config WITH MaxNumber <- 20, FileLine <- FileLines, MaxLines <- 3
Var == INSTANCE Variation WITH Square <- Squares, Samples <- SampleMatrices
Sta == INSTANCE UtilizationStats WITH Utilization <- {0, 1}, NumRes <- 2, MaxPEs <- 2, MaxPrints <- 2

MCInit ==
  /\ part \in {"map", "vector", "queue", "codec", "config", "matrix", "statistics"}
  /\ IF part = "map" THEN Init
     ELSE hash = [k \in Key |-> 0] /\ m = NewTable(3) /\ pairs = <<>> /\ removed = FALSE /\ saved = NULL
  /\ Vec!Init
  /\ Que!Init
  /\ IF part = "codec" THEN Cod!Init
     ELSE /\ items = <<>> /\ pieces = <<>> /\ sb = Cod!stringbuffer_create
          /\ written = 0 /\ text = <<>> /\ read = <<>>
  /\ IF part = "config" THEN Con!Init
     ELSE file = <<>> /\ at = 1 /\ map = <<>> /\ reader = NULL
  /\ IF part = "matrix" THEN Var!Init
     ELSE x = NULL /\ inverse = NULL /\ variation = NULL /\ done = FALSE
  /\ Sta!Init

MCNext ==
  \/ part = "map" /\ Next /\ UNCHANGED <<part, vector, queue, codec, config, matrix, statistics>>
  \/ part = "vector" /\ Vec!Next /\ UNCHANGED <<part, vars, queue, codec, config, matrix, statistics>>
  \/ part = "queue" /\ Que!Next /\ UNCHANGED <<part, vars, vector, codec, config, matrix, statistics>>
  \/ part = "codec" /\ Cod!Next /\ UNCHANGED <<part, vars, vector, queue, config, matrix, statistics>>
  \/ part = "config" /\ Con!Next /\ UNCHANGED <<part, vars, vector, queue, codec, matrix, statistics>>
  \/ part = "matrix" /\ Var!Next /\ UNCHANGED <<part, vars, vector, queue, codec, config, statistics>>
  \/ part = "statistics" /\ Sta!Next /\ UNCHANGED <<part, vars, vector, queue, codec, config, matrix>>

MCSpec == MCInit /\ [][MCNext]_<<part, vars, vector, queue, codec, config, matrix, statistics>>

-----------------------------------------------------------------------------
\* vector.c: the operations on the growing array are those on sequences.
VectorIsSequence == Vec!VectorIsSequence

\* queue.c: first in, first out, and no node outside the queue.
QueueIsFIFO == Que!QueueIsFIFO

\* parser.c and stringbuffer.c: what is encoded is read back, and fits.
EncodingReadsBack == Cod!EncodingReadsBack

\* properties.c and reader.c: the policy is that of the last lines of the file.
PolicyFromFile == Con!PolicyFromFile

\* matrix.c: the inverse is one, and exists when the determinant is not zero.
InverseExact == Var!InverseExact

\* matrix.c: covariances and the two coefficients of variation agree.
VariationsAgree == Var!VariationsAgree

\* cloudsystem.c: averages of sorted utilizations while no PE joins or leaves.
OrderedAveragesExact == Sta!OrderedAveragesExact
=============================================================================
