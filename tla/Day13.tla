-------------------------------- MODULE Day13 --------------------------------
(***************************************************************************)
(* src/src/2021/day13.c on the hash table of hashtable.c: dots are keys of *)
(* the table, and a fold is a traversal whose callback takes the dots      *)
(* beyond the line out of the table, then insertions of what they became.  *)
(* The functions of the table are the actions of HashTable.                *)
(***************************************************************************)
EXTENDS Integers, FiniteSets, SequencesExt

CONSTANTS
    instrs,             \* the instructions, at index 1 and up
    Sheet,              \* Sheet[n]: where dots can lie when fold n begins
    MaxDots,            \* dots of an input: 840
    new_coords_len,     \* room for the dots beyond a line: 1000
    NumBuckets, BucketSize, Hash,
    Absent, NoValue

ASSUME InputAssumption ==
    /\ instrs \in Seq([dir : {"x", "y"}, pos : Nat]) /\ instrs # <<>>
    /\ MaxDots \in Nat /\ new_coords_len \in Nat

-----------------------------------------------------------------------------
(* Places and folds.                                                         *)

\* The places that fit an int: 15 bits for x, 16 for y.
Columns  == 0 .. 32767
Rows     == 0 .. 65535
Packable == Columns \X Rows

PACK(d)   == d[1] * 65536 + d[2]
UNPACK(n) == <<n \div 65536, n % 65536>>

Beyond(f, d) == IF f.dir = "x" THEN d[1] > f.pos ELSE d[2] > f.pos

\* Mutant: a fold along y leaves the dots where they are.
MirrorOnlyX(f, d) == IF f.dir = "x" THEN <<2 * f.pos - d[1], d[2]>> ELSE d

\* Mutant: the line is taken to be as wide as a dot.
MirrorByOneLess(f, d) ==
    IF f.dir = "x" THEN <<2 * f.pos - d[1] + 1, d[2]>> ELSE <<d[1], 2 * f.pos - d[2] + 1>>

Mirror(f, d) ==
    IF f.dir = "x" THEN <<2 * f.pos - d[1], d[2]>> ELSE <<d[1], 2 * f.pos - d[2]>>

Dot == UNION {Sheet[n] : n \in 1 .. Len(instrs) + 1}

-----------------------------------------------------------------------------
VARIABLES
    status, buckets, total_entries, cursor, ret, todo,  \* the table
    phase,          \* "parse", "fold", "insert", "done", "misdrawn", "aborted"
    instr_idx,
    new_coords,
    i,              \* the next of new_coords to insert
    p1,
    before          \* ghost: the dots when the running fold began

table == <<status, buckets, total_entries, cursor, ret, todo>>
vars  == <<table, phase, instr_idx, new_coords, i, p1, before>>

\* The table itself would let day13 put a key twice.
H == INSTANCE HashTable WITH
        Key <- {PACK(d) : d \in Dot}, Value <- {TRUE},
        Client <- {"overwrite"}, MaxTotal <- MaxDots

ASSUME TableAssumption ==
    /\ NumBuckets \in Nat \ {0} /\ BucketSize \in Nat
    /\ Hash \in [{PACK(d) : d \in Dot} -> Nat]
    /\ Absent \notin H!Entry /\ NoValue # TRUE

Dots == {UNPACK(k) : k \in H!KeysIn(buckets)}

Instr == instrs[instr_idx]

Init ==
    /\ H!Init
    /\ phase = "parse"
    /\ instr_idx = 1
    /\ new_coords = <<>> /\ i = 1
    /\ p1 = 0
    /\ before = {}

ht_init ==
    /\ phase = "parse" /\ H!ht_init
    /\ UNCHANGED <<phase, instr_idx, new_coords, i, p1, before>>

\* Mutant: the insertions do not look whether the dot is there.
InTableUnseen(k) == FALSE

InTable(k) == H!Lookup(buckets, k) # {}

\* A line of the input; no line occurs twice.
parse_dot(d) ==
    /\ phase = "parse" /\ d \in Sheet[1] \ Dots /\ Cardinality(Dots) < MaxDots
    /\ H!ht_put(PACK(d), TRUE)
    /\ UNCHANGED <<phase, instr_idx, new_coords, i, p1, before>>

\* assert("bucket full" && false), while parsing or while inserting
bucket_full(d) ==
    /\ \/ phase = "parse" /\ d \in Sheet[1] \ Dots /\ Cardinality(Dots) < MaxDots
       \/ phase = "insert" /\ i <= Len(new_coords) /\ d = new_coords[i] /\ ~InTable(PACK(d))
    /\ H!ht_put_full(PACK(d))
    /\ phase' = "aborted"
    /\ UNCHANGED <<instr_idx, new_coords, i, p1, before>>

\* The first lines of fold, and ht_traverse up to the first callback.
BeginFold(n) ==
    /\ H!ht_traverse
    /\ phase' = "fold"
    /\ instr_idx' = n
    /\ new_coords' = <<>> /\ i' = 1
    /\ before' = Dots

parse_ends ==
    /\ phase = "parse" /\ Dots # {}
    /\ BeginFold(1)
    /\ UNCHANGED p1

Visited == UNPACK(H!AtCursor.key)

\* Mutant: the array is taken to be one longer.
HasRoomForOneMore == Len(new_coords) <= new_coords_len

HasRoom == Len(new_coords) < new_coords_len

\* fold_traverse with a dot beyond the line ...
fold_drops ==
    /\ phase = "fold" /\ H!callback_drops
    /\ Beyond(Instr, Visited)
    /\ HasRoom
    /\ new_coords' = Append(new_coords, Mirror(Instr, Visited))
    /\ UNCHANGED <<phase, instr_idx, i, p1, before>>

\* ... assert("overflow" && ...)
fold_overflows ==
    /\ phase = "fold" /\ H!callback_drops
    /\ Beyond(Instr, Visited)
    /\ ~HasRoom
    /\ phase' = "aborted"
    /\ UNCHANGED <<instr_idx, new_coords, i, p1, before>>

\* It leaves the other dots alone, and always returns true.
fold_traverse_returns ==
    /\ phase = "fold" /\ H!callback_returns(TRUE)
    /\ IF H!Dropped THEN TRUE ELSE ~Beyond(Instr, Visited)
    /\ UNCHANGED <<phase, instr_idx, new_coords, i, p1, before>>

traverse_ends ==
    /\ phase = "fold" /\ ~H!Traversing
    /\ phase' = "insert"
    /\ UNCHANGED <<table, instr_idx, new_coords, i, p1, before>>

insert_has_key ==
    /\ phase = "insert" /\ i <= Len(new_coords)
    /\ InTable(PACK(new_coords[i]))
    /\ H!ht_has_key(PACK(new_coords[i]))
    /\ i' = i + 1
    /\ UNCHANGED <<phase, instr_idx, new_coords, p1, before>>

insert_puts ==
    /\ phase = "insert" /\ i <= Len(new_coords)
    /\ ~InTable(PACK(new_coords[i]))
    /\ H!ht_put(PACK(new_coords[i]), TRUE)
    /\ i' = i + 1
    /\ UNCHANGED <<phase, instr_idx, new_coords, p1, before>>

FoldDone == phase = "insert" /\ i > Len(new_coords)

P1After == IF instr_idx = 1 THEN H!ht_get_num_entries ELSE p1

next_fold ==
    /\ FoldDone /\ instr_idx < Len(instrs)
    /\ BeginFold(instr_idx + 1)
    /\ p1' = P1After

last_fold ==
    /\ FoldDone /\ instr_idx = Len(instrs)
    /\ phase' = "done"
    /\ p1' = P1After
    /\ UNCHANGED <<table, instr_idx, new_coords, i, before>>

\* The drawing of coords_to_str changes nothing; if it is not the one day13 knows,
\* the assertion about it ends the program.
drawing_differs ==
    /\ phase = "done" /\ status = "ready"
    /\ phase' = "misdrawn"
    /\ UNCHANGED <<table, instr_idx, new_coords, i, p1, before>>

day13_returns ==
    /\ phase = "done" /\ H!ht_deinit
    /\ UNCHANGED <<phase, instr_idx, new_coords, i, p1, before>>

Next ==
    \/ ht_init
    \/ \E d \in Dot : parse_dot(d) \/ bucket_full(d)
    \/ parse_ends
    \/ fold_drops \/ fold_overflows \/ fold_traverse_returns \/ traverse_ends
    \/ insert_has_key \/ insert_puts
    \/ next_fold \/ last_fold \/ drawing_differs \/ day13_returns

Spec == Init /\ [][Next]_vars

-----------------------------------------------------------------------------
\* Type invariant; the table keeps its own.
TypeOK ==
    /\ H!TypeOK
    /\ phase \in {"parse", "fold", "insert", "done", "misdrawn", "aborted"}
    /\ instr_idx \in DOMAIN instrs
    /\ new_coords \in Seq(Dot) /\ Len(new_coords) <= new_coords_len
    /\ i \in 1 .. Len(new_coords) + 1
    /\ p1 \in 0 .. MaxDots
    /\ before \subseteq Dot

\* Between traversals the count of the table, which becomes p1 and the length of
\* the array coords_to_str measures the drawing from, is the number of dots: the
\* table would count a dot again that is put twice, and when dots fold onto each
\* other only the look before ht_put keeps fold from that.
CountIsDots == ~H!Traversing => total_entries = Cardinality(Dots)

\* The traversal and the insertions after it amount to one fold of the set of
\* dots, and p1 to the number of dots after the first.
Reading == before = {}
NotYet  == ~Reading /\ phase \notin {"done", "misdrawn"}

O == INSTANCE Origami WITH
        Dot <- Sheet[1],
        Folds <- instrs,
        dots <- IF NotYet THEN before ELSE Dots,
        folded <- IF Reading THEN 0 ELSE IF NotYet THEN instr_idx - 1 ELSE instr_idx

FoldsPaper == O!Spec

\* Each place fits an int, and a fold takes the places of its sheet to
\* places of the next: the paper is never folded beyond its edge.
ASSUME SheetAssumption ==
    /\ Sheet \in [1 .. Len(instrs) + 1 -> SUBSET Packable]
    /\ \A n \in 1 .. Len(instrs) : \A d \in Sheet[n] :
          O!Mirrored(d, instrs[n]) \in Sheet[n + 1]

\* At every moment of a fold, each dot that was there when it began can still be
\* told: from the table, or from the array of those taken out, and nothing else
\* is in either.
NoDotLost ==
    phase \in {"fold", "insert"} =>
        {O!Mirrored(d, Instr) : d \in before} =
            {O!Mirrored(d, Instr) : d \in Dots \cup ToSet(new_coords)}

===============================================================================
