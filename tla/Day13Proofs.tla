----------------------------- MODULE Day13Proofs -----------------------------
(***************************************************************************)
(* Theorems about Day13, for any input, any instructions and any table:    *)
(* the fold over the hash table loses no dot, counts them right, and is    *)
(* the folding of Origami.  HT is the table again, with the theorems about *)
(* it, used by a client that puts no key twice; H is the same table as     *)
(* Day13 knows it, which would let day13 do so.  That day13 never does is  *)
(* shown here, from its looks before each ht_put of fold.                  *)
(***************************************************************************)
EXTENDS Day13, FiniteSetTheorems, FunctionTheorems, SequenceTheorems, TLAPS

Keys == {PACK(d) : d \in Dot}

HT == INSTANCE HashTableProofs WITH
        Key <- Keys, Value <- {TRUE},
        Client <- {}, MaxTotal <- MaxDots

-----------------------------------------------------------------------------
(* The two instances of the table are one.                                   *)

(* The instance HT of the proofs reads the table as the instance H of Day13 does. *)
LEMMA SameReads ==
    /\ \A t : H!PresentSlots(t) = HT!PresentSlots(t)
    /\ \A t : H!KeysIn(t) = HT!KeysIn(t)
    /\ \A t, k : H!Lookup(t, k) = HT!Lookup(t, k)
    /\ H!Traversing <=> HT!Traversing
    /\ H!Dropped <=> HT!Dropped
    /\ H!AtCursor = HT!AtCursor
BY DEF H!PresentSlots, HT!PresentSlots, H!KeysIn, HT!KeysIn, H!Lookup, HT!Lookup,
       H!Traversing, HT!Traversing, H!Dropped, HT!Dropped, H!AtCursor, HT!AtCursor,
       H!Holding, HT!Holding, H!PresentIn, HT!PresentIn, H!bucket_idx, HT!bucket_idx,
       H!Bucket, HT!Bucket, H!Slot, HT!Slot, H!Idle, HT!Idle

(* So it does after a step. *)
LEMMA SameReadsAfter ==
    /\ H!Traversing' <=> HT!Traversing'
    /\ H!Dropped' <=> HT!Dropped'
    /\ H!AtCursor' = HT!AtCursor'
BY DEF H!Traversing, HT!Traversing, H!Idle, HT!Idle, H!Dropped, HT!Dropped,
       H!AtCursor, HT!AtCursor

(* The two have the same types ... *)
LEMMA SameTypeOK == H!TypeOK <=> HT!TypeOK
BY SameReads
   DEF H!TypeOK, HT!TypeOK, H!Idle, HT!Idle, H!Bucket, HT!Bucket, H!Slot, HT!Slot,
       H!Entries, HT!Entries, H!NullEntries, HT!NullEntries, H!Entry, HT!Entry, Keys

(* ... and the same actions, if only new keys are put ... *)
LEMMA SameActions ==
    /\ H!Init <=> HT!Init
    /\ H!ht_init <=> HT!ht_init
    /\ H!ht_deinit <=> HT!ht_deinit
    /\ H!ht_traverse <=> HT!ht_traverse
    /\ H!callback_drops <=> HT!callback_drops
    /\ H!callback_returns(TRUE) <=> HT!callback_returns(TRUE)
    /\ \A k : ~InTable(k) /\ H!ht_put(k, TRUE) => HT!ht_put(k, TRUE)
    /\ \A k : ~InTable(k) /\ H!ht_put_full(k) => HT!ht_put_full(k)
    /\ \A k : H!ht_has_key(k) <=> HT!ht_has_key(k)
<1>1. /\ H!Init <=> HT!Init
      /\ H!ht_init <=> HT!ht_init
  BY DEF H!Init, HT!Init, H!ht_init, HT!ht_init, H!NullEntries, HT!NullEntries,
         H!Bucket, HT!Bucket, H!Idle, HT!Idle, H!Missing, HT!Missing
<1>2. H!ht_deinit <=> HT!ht_deinit
  BY SameReads DEF H!ht_deinit, HT!ht_deinit
<1>3. \A s, left : H!Advance(s, left) <=> HT!Advance(s, left)
  BY SameReads
     DEF H!Advance, HT!Advance, H!NextPresent, HT!NextPresent, H!After, HT!After,
         H!Bucket, HT!Bucket, H!Slot, HT!Slot, H!Idle, HT!Idle
<1>4. H!ht_traverse <=> HT!ht_traverse
  BY SameReads, <1>3 DEF H!ht_traverse, HT!ht_traverse, H!Idle, HT!Idle
<1>5. H!callback_drops <=> HT!callback_drops
  BY SameReads DEF H!callback_drops, HT!callback_drops, H!Cleared, HT!Cleared
<1>6. H!callback_returns(TRUE) <=> HT!callback_returns(TRUE)
  BY SameReads, <1>3
     DEF H!callback_returns, HT!callback_returns, H!CountAfterVisit, HT!CountAfterVisit
<1>7. \A k : ~InTable(k) /\ H!MayPut(k) => HT!MayPut(k)
  BY SameReads DEF InTable, H!MayPut, HT!MayPut
<1>8. /\ \A b : H!Allocated(buckets, b) = HT!Allocated(buckets, b)
      /\ \A slots, k : H!Usable(slots, k) = HT!Usable(slots, k)
      /\ \A k : H!bucket_idx(k) = HT!bucket_idx(k)
      /\ \A S : H!First(S) = HT!First(S)
  BY DEF H!Allocated, HT!Allocated, H!NullEntries, HT!NullEntries,
         H!FreshEntries, HT!FreshEntries, H!Slot, HT!Slot,
         H!Usable, HT!Usable, H!bucket_idx, HT!bucket_idx, H!First, HT!First
<1>9. \A k : ~InTable(k) /\ H!ht_put_full(k) => HT!ht_put_full(k)
  BY <1>7, <1>8 DEF H!ht_put_full, HT!ht_put_full
<1>10. \A k : H!ht_has_key(k) <=> HT!ht_has_key(k)
  BY SameReads DEF H!ht_has_key, HT!ht_has_key, H!Present, HT!Present, H!Missing, HT!Missing
<1>11. \A k : ~InTable(k) /\ H!ht_put(k, TRUE) => HT!ht_put(k, TRUE)
  BY <1>7, <1>8 DEF H!ht_put, HT!ht_put, H!Written, HT!Written, H!Missing, HT!Missing
<1> QED
  BY <1>1, <1>2, <1>4, <1>5, <1>6, <1>9, <1>10, <1>11

(* ... and count alike. *)
LEMMA SameCardinality ==
    /\ \A S : HT!IsFiniteSet(S) <=> IsFiniteSet(S)
    /\ \A S : HT!Cardinality(S) = Cardinality(S)
    /\ \A S : O!Cardinality(S) = Cardinality(S)
<1>1. \A S : HT!IsFiniteSet(S) <=> IsFiniteSet(S)
  BY DEF HT!IsFiniteSet, IsFiniteSet
<1>2. \A S : HT!Cardinality(S) = Cardinality(S)
  BY DEF HT!Cardinality, Cardinality
<1>3. \A S : O!Cardinality(S) = Cardinality(S)
  BY DEF O!Cardinality, Cardinality
<1> QED
  BY <1>1, <1>2, <1>3

(* What the theorems about the table assume of its parameters holds here. *)
LEMMA TableParameters ==
    /\ HT!SizeAssumption
    /\ HT!HashAssumption
    /\ HT!AbsentAssumption
    /\ HT!ClientAssumption
<1>1. HT!SizeAssumption
  <2>1. NumBuckets \in Nat \ {0} /\ BucketSize \in Nat
    BY TableAssumption
  <2>2. MaxDots \in Nat
    BY InputAssumption
  <2> QED
    BY <2>1, <2>2 DEF HT!SizeAssumption
<1>2. HT!HashAssumption
  <2>1. Hash \in [Keys -> Nat]
    BY TableAssumption DEF Keys
  <2> QED
    BY <2>1 DEF HT!HashAssumption
<1>3. HT!AbsentAssumption
  <2>1. H!Entry = HT!Entry
    BY DEF H!Entry, HT!Entry, Keys
  <2>2. Absent \notin HT!Entry /\ NoValue \notin {TRUE}
    BY <2>1, TableAssumption
  <2> QED
    BY <2>2 DEF HT!AbsentAssumption
<1>4. HT!ClientAssumption
  BY DEF HT!ClientAssumption
<1> QED
  BY <1>1, <1>2, <1>3, <1>4

(* The invariant of the table, and what it says to its client. *)
TableInv == HT!TypeOK /\ HT!CountCovers /\ HT!KeysPlaced /\ HT!TodoAhead

(* What is known of the table holds at first ... *)
LEMMA InitTableInv == H!Init => TableInv
BY TableParameters, SameActions, HT!InitTypeOK, HT!InitCountCovers, HT!InitKeysPlaced,
   HT!InitTodoAhead DEF TableInv

(* ... and after every step of it. *)
LEMMA NextTableInv == TableInv /\ [HT!Next]_HT!vars => TableInv'
BY TableParameters, HT!NextTypeOK, HT!NextCountCovers, HT!NextKeysPlaced,
   HT!NextTodoAhead DEF TableInv

(* What day13 needs to know of the table. *)
LEMMA CountsAndTodo ==
    ASSUME TableInv
    PROVE  /\ ~H!Traversing => total_entries = Cardinality(H!KeysIn(buckets)) /\ todo = {}
           /\ H!KeysIn(buckets) \subseteq Keys
           /\ total_entries \in Int
<1>1. HT!CountExact
  BY TableParameters, HT!CountsKeys DEF TableInv
<1>2. HT!KeysIn(buckets) \subseteq Keys
  <2>1. buckets \in HT!Table
    BY DEF TableInv, HT!TypeOK, HT!Table
  <2> QED
    BY <2>1, TableParameters, HT!KeysTyped
<1> QED
  BY <1>1, <1>2, SameReads, SameCardinality
  DEF HT!CountExact, HT!ht_get_num_entries, TableInv, HT!TodoAhead, HT!TypeOK

-----------------------------------------------------------------------------
(* Dots and their keys.                                                      *)

(* Places that fit are pairs of coordinates. *)
LEMMA PackableIsPair ==
    ASSUME NEW d \in Packable
    PROVE  /\ d = <<d[1], d[2]>>
           /\ d[1] \in Int /\ 0 <= d[1] /\ d[1] <= 32767
           /\ d[2] \in Int /\ 0 <= d[2] /\ d[2] < 65536
<1>1. d = <<d[1], d[2]>> /\ d[1] \in Columns /\ d[2] \in Rows
  BY DEF Packable
<1>2. ASSUME NEW x \in Columns
      PROVE  x \in Int /\ 0 <= x /\ x <= 32767
  BY DEF Columns
<1>3. ASSUME NEW y \in Rows
      PROVE  y \in Int /\ 0 <= y /\ y < 65536
  BY DEF Rows
<1> QED
  BY <1>1, <1>2, <1>3

(* UNPACK undoes PACK. *)
LEMMA PackUnpack ==
    ASSUME NEW d \in Packable
    PROVE  UNPACK(PACK(d)) = d
<1>1. ASSUME NEW x \in Int, NEW y \in Int, 0 <= y, y < 65536
      PROVE  (x * 65536 + y) \div 65536 = x /\ (x * 65536 + y) % 65536 = y
  BY <1>1
<1>2. PACK(d) \div 65536 = d[1] /\ PACK(d) % 65536 = d[2]
  BY <1>1, PackableIsPair DEF PACK
<1> QED
  BY <1>2, PackableIsPair DEF UNPACK

(* The places of the sheets fit, and have the keys of the table. *)
LEMMA DotTyped ==
    /\ Dot \subseteq Packable
    /\ \A n \in 1 .. Len(instrs) + 1 : Sheet[n] \subseteq Dot
    /\ \A d \in Dot : UNPACK(PACK(d)) = d /\ PACK(d) \in Keys
    /\ \A k \in Keys : UNPACK(k) \in Dot /\ PACK(UNPACK(k)) = k
<1>1. Dot \subseteq Packable
  <2>1. \A n \in 1 .. Len(instrs) + 1 : Sheet[n] \subseteq Packable
    BY SheetAssumption
  <2> QED
    BY <2>1 DEF Dot
<1>2. \A n \in 1 .. Len(instrs) + 1 : Sheet[n] \subseteq Dot
  BY DEF Dot
<1>3. \A d \in Dot : UNPACK(PACK(d)) = d /\ PACK(d) \in Keys
  BY <1>1, PackUnpack DEF Keys
<1>4. \A k \in Keys : UNPACK(k) \in Dot /\ PACK(UNPACK(k)) = k
  BY <1>3 DEF Keys
<1> QED
  BY <1>1, <1>2, <1>3, <1>4

(* The dots are the table's keys, unpacked. *)
LEMMA DotsAreKeys ==
    ASSUME TableInv
    PROVE  /\ Dots \subseteq Dot
           /\ \A d \in Dot : d \in Dots <=> PACK(d) \in H!KeysIn(buckets)
           /\ Cardinality(Dots) = Cardinality(H!KeysIn(buckets))
           /\ IsFiniteSet(Dots) /\ Cardinality(Dots) \in Nat
<1> DEFINE K == H!KeysIn(buckets)
<1>1. K \subseteq Keys
  BY CountsAndTodo
<1>2. IsFiniteSet(K)
  <2>1. IsFiniteSet(HT!PresentSlots(buckets))
    BY TableParameters, HT!PresentFinite, SameCardinality
  <2>2. K = {buckets[s[1]][s[2]].key : s \in HT!PresentSlots(buckets)}
    BY SameReads DEF HT!KeysIn
  <2> DEFINE f == [s \in HT!PresentSlots(buckets) |-> buckets[s[1]][s[2]].key]
  <2>3. f \in Surjection(HT!PresentSlots(buckets), K)
    BY <2>2 DEF Surjection
  <2> QED
    BY <2>1, <2>3, FS_Surjection
<1> HIDE DEF K
<1>3. Dots = {UNPACK(k) : k \in K}
  BY DEF Dots, K
<1> DEFINE g == [k \in K |-> UNPACK(k)]
<1>4. g \in Bijection(K, Dots)
  <2>1. g \in [K -> Dots] /\ \A d \in Dots : \E k \in K : g[k] = d
    BY <1>3
  <2>2. \A k, j \in K : g[k] = g[j] => k = j
    <3>1. \A k \in K : PACK(g[k]) = k
      BY <1>1, DotTyped
    <3> QED
      BY <3>1
  <2> QED
    BY <2>1, <2>2, Fun_IsBij
<1>5. Cardinality(Dots) = Cardinality(K) /\ IsFiniteSet(Dots)
  <2>1. ExistsBijection(K, Dots)
    BY <1>4 DEF ExistsBijection
  <2> QED
    BY <1>2, <2>1, FS_Bijection
<1>6. Dots \subseteq Dot
  BY <1>1, <1>3, DotTyped
<1>7. \A d \in Dot : d \in Dots <=> PACK(d) \in K
  <2>1. \A d \in Dot : PACK(d) \in K => d \in Dots
    BY <1>3, DotTyped
  <2>2. \A k \in K : PACK(UNPACK(k)) \in K
    BY <1>1, DotTyped
  <2>3. \A d \in Dots : PACK(d) \in K
    BY <1>3, <2>2
  <2> QED
    BY <2>1, <2>3
<1> QED
  BY <1>2, <1>5, <1>6, <1>7, FS_CardinalityType DEF K

(* The look before ht_put tells the dots that are there. *)
LEMMA LookTellsDots ==
    ASSUME TableInv, NEW d \in Dot
    PROVE  InTable(PACK(d)) <=> d \in Dots
<1>1. HT!MapLike(buckets)
  BY DEF TableInv, HT!TypeOK, HT!KeysPlaced, HT!MapLike, HT!Table
<1>2. PACK(d) \in Keys
  BY DotTyped
<1>3. HT!Lookup(buckets, PACK(d)) # {} <=> PACK(d) \in HT!KeysIn(buckets)
  BY <1>1, <1>2, TableParameters, HT!LookupIsMembership
<1> QED
  BY <1>3, DotsAreKeys, SameReads DEF InTable

-----------------------------------------------------------------------------
(* The functions of the table, told in dots.                                 *)

(* The keys a running traversal has still to show to fold_traverse, or is    *)
(* just showing it.                                                          *)
Unseen == todo \cup (IF H!Traversing /\ ~H!Dropped THEN {H!AtCursor.key} ELSE {})

(* ht_put adds one dot, if that is not there. *)
LEMMA PutDot ==
    ASSUME TableInv, TableInv', NEW d \in Dot, ~InTable(PACK(d)), H!ht_put(PACK(d), TRUE)
    PROVE  /\ Dots' = Dots \cup {d} /\ d \notin Dots
           /\ ~H!Traversing /\ ~H!Traversing'
           /\ total_entries' = total_entries + 1 /\ total_entries < MaxDots
<1>1. PACK(d) \in Keys /\ HT!ht_put(PACK(d), TRUE) /\ TRUE \in {TRUE}
  BY DotTyped, SameActions
<1>2. /\ HT!KeysIn(buckets') = HT!KeysIn(buckets) \cup {PACK(d)}
      /\ PACK(d) \notin HT!KeysIn(buckets)
  BY <1>1, TableParameters, HT!PutAddsKey DEF TableInv
<1>3. /\ ~HT!Traversing
      /\ total_entries < MaxDots
      /\ total_entries' = total_entries + 1
      /\ UNCHANGED cursor
  BY <1>1 DEF HT!ht_put, HT!MayPut
<1>4. ~HT!Traversing /\ ~HT!Traversing'
  BY <1>3 DEF HT!Traversing, HT!Idle
<1>5. ~H!Traversing /\ ~H!Traversing'
  BY <1>4, SameReads, SameReadsAfter
<1>6. Dots' = {UNPACK(k) : k \in HT!KeysIn(buckets')} /\ Dots = {UNPACK(k) : k \in HT!KeysIn(buckets)}
  BY SameReads DEF Dots
<1>7. Dots' = Dots \cup {d}
  BY <1>2, <1>6, DotTyped
<1>8. d \notin Dots
  BY <1>2, DotsAreKeys, SameReads
<1> QED
  BY <1>3, <1>5, <1>7, <1>8

(* The callback sees a dot. *)
LEMMA VisitedDot ==
    ASSUME TableInv, H!Traversing, ~H!Dropped
    PROVE  Visited \in Dots /\ Visited \in Dot /\ PACK(Visited) = H!AtCursor.key
<1>1. HT!AtCursor.key \in HT!KeysIn(buckets) /\ HT!AtCursor.key \in Keys
  BY TableParameters, SameReads, HT!VisitedIsKey DEF TableInv
<1>2. H!AtCursor.key \in H!KeysIn(buckets) /\ H!AtCursor.key \in Keys
  BY <1>1, SameReads
<1> QED
  BY <1>2, DotTyped DEF Visited, Dots

(* Dropping an entry takes one dot out. *)
LEMMA DropDot ==
    ASSUME TableInv, TableInv', H!callback_drops
    PROVE  /\ Visited \in Dots /\ Visited \in Dot
           /\ Dots' = Dots \ {Visited}
           /\ Unseen' = todo /\ Unseen = todo \cup {PACK(Visited)}
           /\ UNCHANGED <<total_entries, todo>>
           /\ H!Traversing /\ ~H!Dropped
<1>1. HT!callback_drops /\ H!Traversing /\ ~H!Dropped
  BY SameActions, SameReads DEF HT!callback_drops
<1>2. /\ HT!KeysIn(buckets') = HT!KeysIn(buckets) \ {HT!AtCursor.key}
      /\ HT!Dropped'
  BY <1>1, TableParameters, HT!DropRemovesKey DEF TableInv
<1>3. Visited \in Dots /\ Visited \in Dot /\ PACK(Visited) = HT!AtCursor.key
  BY <1>1, VisitedDot, SameReads
<1>4. UNCHANGED <<total_entries, todo>>
  BY <1>1 DEF HT!callback_drops
<1>5. H!Dropped'
  BY <1>2, SameReadsAfter
<1>6. Unseen' = todo /\ Unseen = todo \cup {PACK(Visited)}
  BY <1>1, <1>3, <1>4, <1>5, SameReads DEF Unseen
<1>7. Dots' = Dots \ {Visited}
  <2>1. Dots \subseteq Dot /\ \A d \in Dot : d \in Dots <=> PACK(d) \in HT!KeysIn(buckets)
    BY DotsAreKeys, SameReads
  <2>2. Dots' \subseteq Dot /\ \A d \in Dot : d \in Dots' <=> PACK(d) \in HT!KeysIn(buckets')
    <3>1. Dots' = {UNPACK(k) : k \in HT!KeysIn(buckets')}
      BY SameReads DEF Dots
    <3>2. HT!KeysIn(buckets') \subseteq Keys
      BY <1>2, CountsAndTodo, SameReads
    <3> QED
      BY <3>1, <3>2, DotTyped
  <2>3. \A d \in Dot : PACK(d) = PACK(Visited) => d = Visited
    BY <1>3, DotTyped
  <2> QED
    BY <1>2, <1>3, <2>1, <2>2, <2>3
<1> QED
  BY <1>1, <1>3, <1>4, <1>6, <1>7

(* Going on, the traversal leaves none of the keys it had left behind. *)
LEMMA AdvanceLeavesUnseen ==
    ASSUME NEW s, NEW left, HT!Advance(s, left), UNCHANGED buckets
    PROVE  left \subseteq Unseen'
<1>1. /\ ~HT!Dropped'
      /\ HT!Traversing' => todo' = left \ {HT!AtCursor.key}'
      /\ ~HT!Traversing' => todo' = left
  BY TableParameters, HT!AdvanceShowsKey
<1> QED
  BY <1>1, SameReadsAfter DEF Unseen

-----------------------------------------------------------------------------
(* Folding.                                                                  *)

Instructions == [dir : {"x", "y"}, pos : Nat]

(* Origami's fold moves the dots that day13 takes out, to where it puts them, *)
(* which is not beyond the line; the other dots it leaves alone.             *)
LEMMA MirroredIsMirror ==
    ASSUME NEW f \in Instructions, NEW d \in Packable
    PROVE  /\ O!Mirrored(d, f) = IF Beyond(f, d) THEN Mirror(f, d) ELSE d
           /\ Beyond(f, d) => ~Beyond(f, Mirror(f, d))
           /\ ~Beyond(f, O!Mirrored(d, f))
<1>1. f.dir \in {"x", "y"} /\ f.pos \in Nat
  BY DEF Instructions
<1>2. O!Mirrored(d, f) = IF Beyond(f, d) THEN Mirror(f, d) ELSE d
  BY <1>1 DEF O!Mirrored, Beyond, Mirror
<1>3. Beyond(f, d) => ~Beyond(f, Mirror(f, d))
  BY <1>1, PackableIsPair DEF Beyond, Mirror
<1> QED
  BY <1>2, <1>3

(* A fold takes its sheet to the next. *)
LEMMA FoldsOntoNextSheet ==
    ASSUME NEW n \in 1 .. Len(instrs)
    PROVE  /\ instrs[n] \in Instructions
           /\ Sheet[n] \subseteq Packable /\ Sheet[n] \subseteq Dot
           /\ Sheet[n + 1] \subseteq Dot
           /\ \A d \in Sheet[n] : O!Mirrored(d, instrs[n]) \in Sheet[n + 1]
<1>1. n \in 1 .. Len(instrs) + 1 /\ n + 1 \in 1 .. Len(instrs) + 1
      /\ instrs[n] \in Instructions
  <2>1. instrs \in Seq(Instructions)
    BY InputAssumption DEF Instructions
  <2>2. Len(instrs) \in Nat /\ instrs[n] \in Instructions
    BY <2>1
  <2> QED
    BY <2>2
<1>2. Sheet[n] \subseteq Packable /\ Sheet[n] \subseteq Dot /\ Sheet[n + 1] \subseteq Dot
  BY <1>1, DotTyped
<1>3. ASSUME NEW d \in Sheet[n]
      PROVE  O!Mirrored(d, instrs[n]) \in Sheet[n + 1]
  BY SheetAssumption
<1> QED
  BY <1>1, <1>2, <1>3

-----------------------------------------------------------------------------
(* The invariant.                                                            *)

NewDots == ToSet(new_coords)
Running == phase \in {"fold", "insert"}

(* The dots are on the sheet of the running fold, so that all they become    *)
(* still fits an int.                                                        *)
OnSheets ==
    /\ before \subseteq Sheet[instr_idx]
    /\ phase = "parse" => Dots \subseteq Sheet[1]
    /\ phase = "fold" => Dots \subseteq Sheet[instr_idx]

Phases ==
    /\ phase = "parse" => before = {} /\ ~H!Traversing /\ instr_idx = 1
    /\ phase = "parse" /\ status = "none" => Dots = {}
    /\ phase \in {"parse", "fold"} => i = 1
    /\ phase \in {"fold", "insert", "done", "misdrawn"} => before # {}
    /\ phase \in {"insert", "done", "misdrawn"} => ~H!Traversing

(* A dot beyond the line is still to be visited; once the traversal is over  *)
(* there is none.                                                            *)
Swept ==
    /\ Running => \A d \in NewDots : ~Beyond(Instr, d)
    /\ phase = "fold" => \A d \in Dots : Beyond(Instr, d) => PACK(d) \in Unseen
    /\ phase = "insert" => \A d \in Dots : ~Beyond(Instr, d)

Inserted == phase = "insert" => \A n \in 1 .. i - 1 : new_coords[n] \in Dots

Counts == total_entries <= MaxDots

FoldInv == TypeOK /\ OnSheets /\ Phases /\ Swept /\ Inserted /\ NoDotLost /\ Counts

(* The running instruction is one of the list. *)
LEMMA IndexTyped ==
    ASSUME TypeOK
    PROVE  /\ instr_idx \in 1 .. Len(instrs)
           /\ Instr \in Instructions
           /\ Len(new_coords) \in Nat /\ i \in Nat
           /\ \A n \in 1 .. Len(new_coords) : new_coords[n] \in Dot /\ new_coords[n] \in NewDots
           /\ NewDots \subseteq Dot
           /\ \A d \in NewDots : \E n \in 1 .. Len(new_coords) : d = new_coords[n]
<1>1. instr_idx \in 1 .. Len(instrs)
  BY InputAssumption DEF TypeOK
<1>2. Instr \in Instructions
  BY <1>1, FoldsOntoNextSheet DEF Instr
<1>3. new_coords \in Seq(Dot)
  BY DEF TypeOK
<1>4. Len(new_coords) \in Nat /\ DOMAIN new_coords = 1 .. Len(new_coords)
      /\ \A n \in 1 .. Len(new_coords) : new_coords[n] \in Dot
  BY <1>3
<1>5. i \in Nat
  BY <1>4 DEF TypeOK
<1> QED
  BY <1>1, <1>2, <1>4, <1>5 DEF NewDots, ToSet

(* day13 uses the table only through its functions, with keys of its own. *)
LEMMA StepOfTable ==
    ASSUME TableInv, TypeOK, [Next]_vars
    PROVE  [HT!Next]_HT!vars
<1> SUFFICES HT!Next \/ UNCHANGED HT!vars
  OBVIOUS
<1>1. CASE UNCHANGED table
  BY <1>1 DEF table, HT!vars
<1>2. ASSUME NEW d \in Dot,
             \/ ~InTable(PACK(d)) /\ (H!ht_put(PACK(d), TRUE) \/ H!ht_put_full(PACK(d)))
             \/ H!ht_has_key(PACK(d))
      PROVE  HT!Next
  <2>1. PACK(d) \in Keys /\ TRUE \in {TRUE}
    BY DEF Keys
  <2> QED
    BY <1>2, <2>1, SameActions DEF HT!Next
<1>3. CASE H!ht_init \/ H!ht_deinit \/ H!ht_traverse \/ H!callback_drops
           \/ H!callback_returns(TRUE)
  BY <1>3, SameActions DEF HT!Next
<1>4. ASSUME i <= Len(new_coords)
      PROVE  new_coords[i] \in Dot
  <2>1. i \in 1 .. Len(new_coords)
    BY <1>4, IndexTyped DEF TypeOK
  <2> QED
    BY <2>1, IndexTyped
<1>5. ASSUME NEW d \in Dot, parse_dot(d) \/ bucket_full(d)
      PROVE  ~InTable(PACK(d)) /\ (H!ht_put(PACK(d), TRUE) \/ H!ht_put_full(PACK(d)))
  <2>1. /\ d \notin Dots \/ ~InTable(PACK(d))
        /\ H!ht_put(PACK(d), TRUE) \/ H!ht_put_full(PACK(d))
    BY <1>5 DEF parse_dot, bucket_full
  <2> QED
    BY <2>1, LookTellsDots
<1>6. \/ UNCHANGED table
      \/ H!ht_init \/ H!ht_deinit \/ H!ht_traverse \/ H!callback_drops
      \/ H!callback_returns(TRUE)
      \/ \E d \in Dot :
            \/ ~InTable(PACK(d)) /\ (H!ht_put(PACK(d), TRUE) \/ H!ht_put_full(PACK(d)))
            \/ H!ht_has_key(PACK(d))
  BY <1>4, <1>5 DEF Next, vars, ht_init, parse_ends, BeginFold, fold_drops, fold_overflows,
         fold_traverse_returns, traverse_ends, insert_has_key, insert_puts, next_fold,
         last_fold, drawing_differs, day13_returns
<1> QED
  BY <1>1, <1>2, <1>3, <1>6

(* After the traversal and the insertions the dots are the folded ones. *)
LEMMA FoldIsDone ==
    ASSUME TableInv, FoldInv, FoldDone
    PROVE  /\ Dots = {O!Mirrored(d, Instr) : d \in before}
           /\ Dots \subseteq Sheet[instr_idx + 1]
           /\ Dots # {}
           /\ total_entries = Cardinality(Dots)
           /\ Cardinality(Dots) \in 0 .. MaxDots
<1> USE DEF FoldInv
<1>1. phase = "insert" /\ ~H!Traversing
  BY DEF FoldDone, Phases
<1>2. \A d \in Dots \cup NewDots : O!Mirrored(d, Instr) = d
  <2>1. \A d \in Dots \cup NewDots : ~Beyond(Instr, d)
    BY <1>1 DEF Swept, Running
  <2>2. Dots \cup NewDots \subseteq Packable
    BY DotTyped, DotsAreKeys, IndexTyped
  <2> QED
    BY <2>1, <2>2, IndexTyped, MirroredIsMirror
<1>3. NewDots \subseteq Dots
  <2>1. \A n \in 1 .. Len(new_coords) : n \in 1 .. i - 1
    BY IndexTyped DEF FoldDone
  <2> QED
    BY <1>1, <2>1, IndexTyped DEF Inserted
<1>4. Dots = {O!Mirrored(d, Instr) : d \in before}
  BY <1>1, <1>2, <1>3 DEF NoDotLost, NewDots
<1>5. Dots \subseteq Sheet[instr_idx + 1]
  BY <1>4, IndexTyped, FoldsOntoNextSheet DEF OnSheets, Instr
<1>6. before # {}
  BY <1>1 DEF Phases
<1>7. total_entries = Cardinality(Dots)
  BY <1>1, CountsAndTodo, DotsAreKeys
<1>8. Cardinality(Dots) \in Nat /\ MaxDots \in Nat
  BY DotsAreKeys, InputAssumption
<1> QED
  BY <1>4, <1>5, <1>6, <1>7, <1>8 DEF Counts

(* The first lines of fold: every dot is still to be visited, and none has   *)
(* been taken out.                                                           *)
LEMMA BeginFoldInv ==
    ASSUME TableInv, TableInv', H!TypeOK', TypeOK, NEW n \in 1 .. Len(instrs),
           BeginFold(n), Dots # {}, Dots \subseteq Sheet[n],
           p1' \in 0 .. MaxDots, total_entries <= MaxDots
    PROVE  FoldInv'
<1>1. /\ phase' = "fold" /\ instr_idx' = n
      /\ new_coords' = <<>> /\ i' = 1 /\ before' = Dots
      /\ HT!ht_traverse
  BY SameActions DEF BeginFold
<1>2. /\ UNCHANGED <<buckets, total_entries>>
      /\ HT!Advance(HT!Idle, HT!KeysIn(buckets))
  BY <1>1 DEF HT!ht_traverse
<1>3. Dots' = Dots
  BY <1>2, SameReads DEF Dots
<1>4. HT!KeysIn(buckets) \subseteq Unseen'
  BY <1>2, AdvanceLeavesUnseen
<1>5. \A d \in Dots' : PACK(d) \in Unseen'
  BY <1>3, <1>4, DotsAreKeys, SameReads
<1>6. TypeOK'
  <2>1. new_coords' \in Seq(Dot) /\ Len(new_coords') = 0
    BY <1>1
  <2>2. instr_idx' \in DOMAIN instrs
    BY <1>1, InputAssumption
  <2>3. before' \subseteq Dot
    BY <1>1, FoldsOntoNextSheet
  <2>4. new_coords_len \in Nat
    BY InputAssumption
  <2> QED
    BY <1>1, <2>1, <2>2, <2>3, <2>4 DEF TypeOK
<1>7. OnSheets' /\ Phases' /\ Inserted' /\ Counts'
  BY <1>1, <1>2, <1>3 DEF OnSheets, Phases, Inserted, Counts
<1>8. Swept'
  BY <1>1, <1>5 DEF Swept, NewDots, ToSet
<1>9. NoDotLost'
  <2>1. Dots' \cup ToSet(new_coords') = before'
    BY <1>1, <1>3 DEF ToSet
  <2> QED
    BY <2>1 DEF NoDotLost
<1> QED
  BY <1>6, <1>7, <1>8, <1>9 DEF FoldInv

(* A dot taken out of the table is the same dot, folded, in the array. *)
LEMMA DropInv ==
    ASSUME TableInv, TableInv', H!TypeOK', FoldInv, fold_drops
    PROVE  FoldInv'
<1> USE DEF FoldInv
<1> DEFINE m == Mirror(Instr, Visited)
<1>1. /\ phase = "fold" /\ phase' = "fold"
      /\ Beyond(Instr, Visited) /\ HasRoom
      /\ new_coords' = Append(new_coords, m)
      /\ UNCHANGED <<instr_idx, i, p1, before>>
      /\ H!callback_drops
  BY DEF fold_drops
<1>2. /\ Visited \in Dots /\ Visited \in Dot
      /\ Dots' = Dots \ {Visited}
      /\ Unseen' = todo /\ Unseen = todo \cup {PACK(Visited)}
      /\ UNCHANGED <<total_entries, todo>>
  BY <1>1, DropDot
<1>3. Instr \in Instructions /\ Visited \in Packable /\ Dots \subseteq Dot /\ Instr' = Instr
  BY <1>1, <1>2, IndexTyped, DotTyped, DotsAreKeys DEF Instr
<1>4. m \in Dot /\ m \in Packable /\ ~Beyond(Instr, m) /\ O!Mirrored(Visited, Instr) = m
      /\ O!Mirrored(m, Instr) = m
  <2>1. O!Mirrored(Visited, Instr) = m /\ ~Beyond(Instr, m)
    BY <1>1, <1>3, MirroredIsMirror
  <2>2. Visited \in Sheet[instr_idx]
    BY <1>1, <1>2 DEF OnSheets
  <2>3. m \in Dot
    BY <2>1, <2>2, IndexTyped, FoldsOntoNextSheet DEF Instr
  <2> QED
    BY <1>3, <2>1, <2>3, DotTyped, MirroredIsMirror
<1> HIDE DEF m
<1>5. /\ new_coords' \in Seq(Dot)
      /\ Len(new_coords') = Len(new_coords) + 1
      /\ ToSet(new_coords') = NewDots \cup {m}
  <2>1. new_coords \in Seq(Dot)
    BY DEF TypeOK
  <2>2. /\ new_coords' \in Seq(Dot) /\ Len(new_coords') = Len(new_coords) + 1
        /\ \A n \in 1 .. Len(new_coords) : new_coords'[n] = new_coords[n]
        /\ new_coords'[Len(new_coords) + 1] = m
    BY <1>1, <1>4, <2>1
  <2>3. DOMAIN new_coords' = 1 .. Len(new_coords) + 1 /\ DOMAIN new_coords = 1 .. Len(new_coords)
        /\ Len(new_coords) \in Nat
    BY <2>1, <2>2
  <2>4. ToSet(new_coords') = ToSet(new_coords) \cup {m}
    BY <2>2, <2>3 DEF ToSet
  <2> QED
    BY <2>2, <2>4 DEF NewDots
<1>6. TypeOK'
  <2>1. Len(new_coords) + 1 <= new_coords_len /\ i \in 1 .. Len(new_coords) + 2
    BY <1>1, IndexTyped, InputAssumption DEF HasRoom, TypeOK
  <2> QED
    BY <1>1, <1>5, <2>1, IndexTyped DEF TypeOK
<1>7. OnSheets' /\ Phases' /\ Inserted' /\ Counts'
  BY <1>1, <1>2 DEF OnSheets, Phases, Inserted, Counts
<1>8. Swept'
  <2>1. \A d \in NewDots' : ~Beyond(Instr', d)
    BY <1>1, <1>3, <1>4, <1>5 DEF Swept, Running, NewDots
  <2>2. \A d \in Dots' : PACK(d) # PACK(Visited)
    BY <1>2, <1>3, DotTyped
  <2>3. \A d \in Dots' : Beyond(Instr', d) => PACK(d) \in Unseen'
    BY <1>1, <1>2, <1>3, <2>2 DEF Swept
  <2> QED
    BY <1>1, <2>1, <2>3 DEF Swept
<1>9. NoDotLost'
  <2>1. {O!Mirrored(d, Instr) : d \in before}
           = {O!Mirrored(d, Instr) : d \in Dots \cup ToSet(new_coords)}
    BY <1>1 DEF NoDotLost
  <2>2. {O!Mirrored(d, Instr) : d \in Dots' \cup ToSet(new_coords')}
           = {O!Mirrored(d, Instr) : d \in Dots \cup ToSet(new_coords)}
    BY <1>2, <1>4, <1>5 DEF NewDots
  <2> QED
    BY <1>1, <1>3, <2>1, <2>2 DEF NoDotLost
<1> QED
  BY <1>6, <1>7, <1>8, <1>9

(* Inserting the next of the dots taken out. *)
LEMMA InsertInv ==
    ASSUME TableInv, H!TypeOK', FoldInv,
           phase = "insert", i <= Len(new_coords), i' = i + 1,
           UNCHANGED <<phase, instr_idx, new_coords, p1, before, cursor>>,
           Dots' = Dots \cup {new_coords[i]},
           total_entries' <= MaxDots
    PROVE  FoldInv'
<1> USE DEF FoldInv
<1>1. /\ i \in 1 .. Len(new_coords) /\ Len(new_coords) \in Nat
      /\ new_coords[i] \in NewDots /\ Instr' = Instr
  BY IndexTyped DEF TypeOK, Instr
<1>2. TypeOK'
  BY <1>1 DEF TypeOK
<1>3. ~H!Traversing'
  BY DEF Phases, H!Traversing, H!Idle
<1>4. OnSheets' /\ Phases' /\ Counts'
  BY <1>3 DEF OnSheets, Phases, Counts
<1>5. Swept'
  BY <1>1 DEF Swept, NewDots, Running
<1>6. Inserted'
  <2>1. \A n \in 1 .. i' - 1 : n \in 1 .. i - 1 \/ n = i
    BY <1>1
  <2> QED
    BY <2>1 DEF Inserted
<1>7. NoDotLost'
  <2>1. Dots' \cup ToSet(new_coords') = Dots \cup ToSet(new_coords)
    BY <1>1 DEF NewDots
  <2> QED
    BY <1>1, <2>1 DEF NoDotLost
<1> QED
  BY <1>2, <1>4, <1>5, <1>6, <1>7

(* The first callback of the next fold. *)
LEMMA NextFoldInv ==
    ASSUME TableInv, TableInv', H!TypeOK', FoldInv, [Next]_vars
    PROVE  FoldInv'
<1> USE DEF FoldInv
<1>1. CASE UNCHANGED vars
  <2>1. UNCHANGED <<Dots, Unseen, Instr, NewDots, H!Traversing>>
    BY <1>1 DEF vars, table, Dots, Unseen, Instr, NewDots, H!Traversing, H!Dropped, H!AtCursor
  <2> QED
    BY <1>1, <2>1 DEF vars, table, TypeOK, OnSheets, Phases, Swept, Running, Inserted,
                      NoDotLost, NewDots, Counts
<1>2. CASE ht_init
  <2>1. Dots' = {}
    BY <1>2 DEF ht_init, H!ht_init, Dots, H!KeysIn, H!PresentSlots, H!PresentIn, H!NullEntries
  <2>2. phase = "parse" /\ UNCHANGED <<cursor, phase, instr_idx, new_coords, i, p1, before>>
        /\ total_entries' = 0 /\ status' = "ready"
    BY <1>2 DEF ht_init, H!ht_init
  <2>3. ~H!Traversing'
    BY <2>2 DEF Phases, H!Traversing, H!Idle
  <2> QED
    BY <2>1, <2>2, <2>3, InputAssumption
    DEF TypeOK, OnSheets, Phases, Swept, Running, Inserted, NoDotLost, Counts
<1>3. ASSUME NEW d \in Dot, parse_dot(d)
      PROVE  FoldInv'
  <2>1. /\ phase = "parse" /\ d \in Sheet[1] /\ d \notin Dots /\ H!ht_put(PACK(d), TRUE)
        /\ UNCHANGED <<phase, instr_idx, new_coords, i, p1, before>>
        /\ status' = "ready"
    BY <1>3 DEF parse_dot, H!ht_put, H!MayPut
  <2>2. /\ Dots' = Dots \cup {d} /\ ~H!Traversing'
        /\ total_entries' = total_entries + 1 /\ total_entries < MaxDots
    BY <2>1, PutDot, LookTellsDots
  <2>3. total_entries' <= MaxDots
    BY <2>2, InputAssumption, CountsAndTodo
  <2> QED
    BY <2>1, <2>2, <2>3
    DEF TypeOK, OnSheets, Phases, Swept, Running, Inserted, NoDotLost, Counts
<1>4. ASSUME NEW d \in Dot, bucket_full(d)
      PROVE  FoldInv'
  <2>1. /\ phase' = "aborted"
        /\ UNCHANGED <<buckets, total_entries, instr_idx, new_coords, i, p1, before>>
    BY <1>4 DEF bucket_full, H!ht_put_full
  <2> QED
    BY <2>1 DEF TypeOK, OnSheets, Phases, Swept, Running, Inserted, NoDotLost, Counts
<1>5. CASE parse_ends
  <2>1. /\ BeginFold(1) /\ Dots # {} /\ Dots \subseteq Sheet[1] /\ UNCHANGED p1
    BY <1>5 DEF parse_ends, OnSheets
  <2>2. 1 \in 1 .. Len(instrs)
    BY IndexTyped, InputAssumption
  <2> QED
    BY <2>1, <2>2, BeginFoldInv DEF TypeOK, Counts
<1>6. CASE fold_drops
  BY <1>6, DropInv
<1>7. CASE fold_overflows
  <2>1. /\ phase' = "aborted" /\ H!callback_drops
        /\ UNCHANGED <<instr_idx, new_coords, i, p1, before>>
    BY <1>7 DEF fold_overflows
  <2>2. UNCHANGED total_entries
    BY <2>1, DropDot
  <2> QED
    BY <2>1, <2>2 DEF TypeOK, OnSheets, Phases, Swept, Running, Inserted, NoDotLost, Counts
<1>8. CASE fold_traverse_returns
  <2>1. /\ phase = "fold" /\ H!callback_returns(TRUE)
        /\ H!Dropped \/ ~Beyond(Instr, Visited)
        /\ UNCHANGED <<phase, instr_idx, new_coords, i, p1, before>>
    BY <1>8 DEF fold_traverse_returns
  <2>2. HT!callback_returns(TRUE)
    BY <2>1, SameActions
  <2>3. /\ UNCHANGED buckets
        /\ total_entries' = HT!CountAfterVisit
        /\ HT!Advance(cursor, todo)
        /\ HT!Traversing
    BY <2>2 DEF HT!callback_returns
  <2>4. todo \subseteq Unseen' /\ Dots' = Dots /\ Instr' = Instr
    BY <2>1, <2>3, AdvanceLeavesUnseen DEF Dots, Instr
  <2>5. total_entries' <= MaxDots
    BY <2>3, CountsAndTodo, InputAssumption DEF HT!CountAfterVisit, Counts
  <2>6. \A d \in Dots : Beyond(Instr, d) => PACK(d) \in todo
    <3>1. SUFFICES ASSUME NEW d \in Dots, Beyond(Instr, d), H!Traversing, ~H!Dropped,
                          PACK(d) = H!AtCursor.key
                   PROVE  FALSE
      BY <2>1 DEF Swept, Unseen
    <3>2. PACK(Visited) = PACK(d) /\ Visited \in Dot /\ d \in Dot
      BY <3>1, VisitedDot, DotsAreKeys
    <3>3. Visited = d
      BY <3>2, DotTyped
    <3> QED
      BY <2>1, <3>1, <3>3
  <2>7. Swept'
    BY <2>1, <2>4, <2>6 DEF Swept, Running, NewDots
  <2> QED
    BY <2>1, <2>4, <2>5, <2>7
    DEF TypeOK, OnSheets, Phases, Inserted, NoDotLost, Counts
<1>9. CASE traverse_ends
  <2>1. /\ phase = "fold" /\ phase' = "insert" /\ ~H!Traversing
        /\ UNCHANGED <<table, instr_idx, new_coords, i, p1, before>>
    BY <1>9 DEF traverse_ends
  <2>2. UNCHANGED <<Dots, Instr, NewDots, H!Traversing>>
    BY <2>1 DEF table, Dots, Instr, NewDots, H!Traversing
  <2>3. Unseen = {}
    BY <2>1, CountsAndTodo DEF Unseen
  <2>4. Swept'
    BY <2>1, <2>2, <2>3 DEF Swept, Running
  <2>5. i = 1
    BY <2>1 DEF Phases
  <2>6. Inserted'
    BY <2>1, <2>5 DEF Inserted
  <2>7. NoDotLost'
    BY <2>1, <2>2 DEF NoDotLost
  <2>8. TypeOK' /\ OnSheets' /\ Phases' /\ Counts'
    BY <2>1, <2>2 DEF table, TypeOK, OnSheets, Phases, Counts
  <2> QED
    BY <2>4, <2>6, <2>7, <2>8
<1>10. CASE insert_has_key
  <2>1. /\ phase = "insert" /\ i <= Len(new_coords) /\ i' = i + 1
        /\ InTable(PACK(new_coords[i]))
        /\ UNCHANGED <<phase, instr_idx, new_coords, p1, before, buckets, total_entries, cursor>>
    BY <1>10 DEF insert_has_key, H!ht_has_key
  <2>2. new_coords[i] \in Dot
    <3>1. i \in 1 .. Len(new_coords)
      BY <2>1, IndexTyped DEF TypeOK
    <3> QED
      BY <3>1, IndexTyped
  <2>3. new_coords[i] \in Dots
    BY <2>1, <2>2, LookTellsDots
  <2>4. Dots' = Dots \cup {new_coords[i]}
    BY <2>1, <2>3 DEF Dots
  <2> QED
    BY <2>1, <2>4, InsertInv DEF Counts
<1>11. CASE insert_puts
  <2>1. /\ phase = "insert" /\ i <= Len(new_coords) /\ i' = i + 1
        /\ ~InTable(PACK(new_coords[i])) /\ H!ht_put(PACK(new_coords[i]), TRUE)
        /\ UNCHANGED <<phase, instr_idx, new_coords, p1, before, cursor>>
    BY <1>11 DEF insert_puts, H!ht_put
  <2>2. new_coords[i] \in Dot
    <3>1. i \in 1 .. Len(new_coords)
      BY <2>1, IndexTyped DEF TypeOK
    <3> QED
      BY <3>1, IndexTyped
  <2>3. /\ Dots' = Dots \cup {new_coords[i]}
        /\ total_entries' = total_entries + 1 /\ total_entries < MaxDots
    BY <2>1, <2>2, PutDot
  <2>4. total_entries' <= MaxDots
    BY <2>3, InputAssumption, CountsAndTodo
  <2> QED
    BY <2>1, <2>3, <2>4, InsertInv
<1>12. CASE next_fold
  <2>1. FoldDone /\ instr_idx < Len(instrs) /\ BeginFold(instr_idx + 1) /\ p1' = P1After
    BY <1>12 DEF next_fold
  <2>2. /\ Dots \subseteq Sheet[instr_idx + 1] /\ Dots # {}
        /\ total_entries \in 0 .. MaxDots
    BY <2>1, FoldIsDone
  <2>3. instr_idx + 1 \in 1 .. Len(instrs)
    BY <2>1, IndexTyped, InputAssumption
  <2>4. p1' \in 0 .. MaxDots
    BY <2>1, <2>2 DEF P1After, H!ht_get_num_entries, TypeOK
  <2> QED
    BY <2>1, <2>2, <2>3, <2>4, BeginFoldInv DEF Counts
<1>13. CASE last_fold
  <2>1. /\ FoldDone /\ phase' = "done" /\ p1' = P1After
        /\ UNCHANGED <<table, instr_idx, new_coords, i, before>>
    BY <1>13 DEF last_fold
  <2>2. p1' \in 0 .. MaxDots
    BY <2>1, FoldIsDone DEF P1After, H!ht_get_num_entries, TypeOK
  <2>3. phase = "insert" /\ UNCHANGED H!Traversing
    BY <2>1 DEF FoldDone, table, H!Traversing
  <2> QED
    BY <2>1, <2>2, <2>3
    DEF table, TypeOK, OnSheets, Phases, Swept, Running, Inserted, NoDotLost, Counts
<1>14. CASE drawing_differs
  <2>1. /\ phase = "done" /\ phase' = "misdrawn"
        /\ UNCHANGED <<table, instr_idx, new_coords, i, p1, before>>
    BY <1>14 DEF drawing_differs
  <2>2. UNCHANGED H!Traversing
    BY <2>1 DEF table, H!Traversing
  <2> QED
    BY <2>1, <2>2
    DEF table, TypeOK, OnSheets, Phases, Swept, Running, Inserted, NoDotLost, Counts
<1>15. CASE day13_returns
  <2>1. /\ phase = "done" /\ UNCHANGED <<phase, instr_idx, new_coords, i, p1, before>>
        /\ UNCHANGED <<total_entries, cursor>>
    BY <1>15 DEF day13_returns, H!ht_deinit
  <2>2. UNCHANGED H!Traversing
    BY <2>1 DEF H!Traversing
  <2> QED
    BY <2>1, <2>2
    DEF TypeOK, OnSheets, Phases, Swept, Running, Inserted, NoDotLost, Counts
<1> QED
  BY <1>1, <1>2, <1>3, <1>4, <1>5, <1>6, <1>7, <1>8, <1>9, <1>10, <1>11, <1>12, <1>13, <1>14, <1>15
  DEF Next

(* The invariant holds at first ... *)
LEMMA InitFoldInv == H!Init /\ H!TypeOK /\ Init => FoldInv
<1> SUFFICES ASSUME Init, H!TypeOK PROVE FoldInv
  OBVIOUS
<1>1. /\ phase = "parse" /\ instr_idx = 1 /\ new_coords = <<>> /\ i = 1 /\ p1 = 0
      /\ before = {} /\ total_entries = 0 /\ H!Init
  BY DEF Init, H!Init
<1>2. Dots = {} /\ ~H!Traversing
  BY <1>1 DEF H!Init, Dots, H!KeysIn, H!PresentSlots, H!PresentIn, H!NullEntries, H!Traversing
<1>3. TypeOK
  <2>1. 1 \in DOMAIN instrs /\ MaxDots \in Nat /\ new_coords_len \in Nat
    BY InputAssumption
  <2> QED
    BY <1>1, <2>1 DEF TypeOK
<1> QED
  BY <1>1, <1>2, <1>3, InputAssumption
  DEF FoldInv, OnSheets, Phases, Swept, Running, Inserted, NoDotLost, Counts

(* ... and always. *)
LEMMA FoldInvariant == Spec => [](TableInv /\ FoldInv)
<1>1. TableInv => H!TypeOK
  BY SameTypeOK DEF TableInv
<1>2. Init => TableInv /\ FoldInv
  <2>1. Init => H!Init
    BY DEF Init
  <2> QED
    BY <1>1, <2>1, InitTableInv, InitFoldInv
<1>3. TableInv /\ FoldInv /\ [Next]_vars => TableInv'
  BY StepOfTable, NextTableInv DEF FoldInv
<1>4. TableInv /\ TableInv' /\ H!TypeOK' /\ FoldInv /\ [Next]_vars => FoldInv'
  BY NextFoldInv
<1> QED
  BY <1>1, <1>2, <1>3, <1>4, PTL DEF Spec

-----------------------------------------------------------------------------
(* The program's variables have their types in every reachable state: the    *)
(* array of dots taken out is never overrun, no coordinate of a folded dot   *)
(* leaves the int it is packed into, and p1 is a number of dots.             *)
THEOREM TypeCorrect == Spec => []TypeOK
BY FoldInvariant, PTL DEF FoldInv

(* The traversal that drops dots and the insertions after it lose no dot and *)
(* invent none, in whatever order the table shows and stores them.           *)
THEOREM EveryDotIsKept == Spec => []NoDotLost
BY FoldInvariant, PTL DEF FoldInv

(* Between traversals ht_get_num_entries, which becomes p1 and the size of   *)
(* the drawing, is the number of dots, since no dot is put twice.            *)
THEOREM CountIsOfDots == Spec => []CountIsDots
<1>1. TableInv => CountIsDots
  BY CountsAndTodo, DotsAreKeys DEF CountIsDots
<1> QED
  BY <1>1, FoldInvariant, PTL

-----------------------------------------------------------------------------
(* The refinement: to read a line and to end the last insertion of a fold    *)
(* are Origami's steps, everything else a stutter.                           *)

Sheets   == IF NotYet THEN before ELSE Dots
Finished == IF Reading THEN 0 ELSE IF NotYet THEN instr_idx - 1 ELSE instr_idx

(* Every step is one of Origami, or none. *)
LEMMA StepIsFolding ==
    ASSUME TableInv, TableInv', FoldInv, [Next]_vars
    PROVE  [O!Next]_<<Sheets, Finished, p1>>
<1> USE DEF FoldInv
<1>1. ASSUME UNCHANGED <<phase, instr_idx, p1, before>>, UNCHANGED Dots \/ NotYet
      PROVE  UNCHANGED <<Sheets, Finished, p1>>
  BY <1>1 DEF Sheets, Finished, Reading, NotYet
<1>2. CASE UNCHANGED vars
  BY <1>1, <1>2 DEF vars, table, Dots
<1>3. CASE ht_init
  <2>1. phase = "parse" /\ status = "none" /\ UNCHANGED <<phase, instr_idx, p1, before>>
    BY <1>3 DEF ht_init, H!ht_init
  <2>2. Dots = {} /\ Dots' = {}
    BY <1>3, <2>1 DEF Phases, ht_init, H!ht_init, Dots, H!KeysIn, H!PresentSlots,
                      H!PresentIn, H!NullEntries
  <2> QED
    BY <1>1, <2>1, <2>2
<1>4. ASSUME NEW d \in Dot, parse_dot(d)
      PROVE  O!Next
  <2>1. /\ phase = "parse" /\ d \in Sheet[1] \ Dots /\ Cardinality(Dots) < MaxDots
        /\ H!ht_put(PACK(d), TRUE)
        /\ UNCHANGED <<phase, instr_idx, p1, before>>
    BY <1>4 DEF parse_dot
  <2>2. Dots' = Dots \cup {d} /\ d \notin Dots
    BY <2>1, PutDot, LookTellsDots
  <2>3. Reading /\ Reading' /\ ~NotYet /\ ~NotYet'
    BY <2>1 DEF Phases, Reading, NotYet
  <2>4. Sheets = Dots /\ Sheets' = Dots' /\ Finished = 0 /\ Finished' = 0
    BY <2>3 DEF Sheets, Finished
  <2>5. O!Read(d)
    BY <2>1, <2>2, <2>4, SameCardinality DEF O!Read, Sheets, Finished
  <2> QED
    BY <2>1, <2>5 DEF O!Next
<1>5. ASSUME NEW d \in Dot, bucket_full(d)
      PROVE  UNCHANGED <<Sheets, Finished, p1>>
  <2>1. /\ phase \in {"parse", "insert"} /\ phase' = "aborted"
        /\ UNCHANGED <<buckets, instr_idx, p1, before>>
    BY <1>5 DEF bucket_full, H!ht_put_full
  <2> QED
    BY <2>1 DEF Sheets, Finished, Reading, NotYet, Dots
<1>6. CASE parse_ends
  <2>1. /\ phase = "parse" /\ phase' = "fold" /\ Dots # {} /\ UNCHANGED p1
        /\ before = {} /\ before' = Dots /\ instr_idx' = 1
    BY <1>6 DEF parse_ends, BeginFold, Phases
  <2> QED
    BY <2>1 DEF Sheets, Finished, Reading, NotYet
<1>7. CASE fold_drops \/ fold_traverse_returns \/ insert_has_key \/ insert_puts
  <2>1. phase \in {"fold", "insert"} /\ UNCHANGED <<phase, instr_idx, p1, before>>
    BY <1>7 DEF fold_drops, fold_traverse_returns, insert_has_key, insert_puts
  <2>2. NotYet
    BY <2>1 DEF NotYet, Reading, Phases
  <2> QED
    BY <1>1, <2>1, <2>2
<1>8. CASE fold_overflows \/ traverse_ends
  <2>1. /\ phase = "fold" /\ phase' \notin {"done", "misdrawn"}
        /\ UNCHANGED <<instr_idx, p1, before>>
    BY <1>8 DEF fold_overflows, traverse_ends
  <2>2. NotYet /\ NotYet' /\ ~Reading
    BY <2>1 DEF NotYet, Reading, Phases
  <2> QED
    BY <2>1, <2>2 DEF Sheets, Finished, Reading, NotYet
<1>9. ASSUME FoldDone, p1' = P1After, ~Reading', Finished' = instr_idx, Sheets' = Dots
      PROVE  O!Next
  <2>1. NotYet /\ ~Reading
    BY <1>9 DEF FoldDone, NotYet, Reading, Phases
  <2>2. Sheets = before /\ Finished = instr_idx - 1 /\ before # {}
    BY <2>1 DEF Sheets, Finished, Reading
  <2>3. instr_idx \in 1 .. Len(instrs)
    BY IndexTyped
  <2>4. /\ Dots = {O!Mirrored(d, Instr) : d \in before}
        /\ total_entries = Cardinality(Dots)
    BY <1>9, FoldIsDone
  <2>5. Finished + 1 = instr_idx /\ Finished < Len(instrs) /\ (Finished = 0 <=> instr_idx = 1)
    <3>1. Len(instrs) \in Nat
      BY InputAssumption
    <3> QED
      BY <2>2, <2>3, <3>1
  <2>6. p1' = IF Finished = 0 THEN Cardinality(Sheets') ELSE p1
    BY <1>9, <2>4, <2>5 DEF P1After, H!ht_get_num_entries
  <2>7. Sheets' = {O!Mirrored(d, instrs[Finished + 1]) : d \in Sheets}
    BY <1>9, <2>2, <2>4, <2>5 DEF Instr
  <2>8. O!Fold
    BY <1>9, <2>2, <2>5, <2>6, <2>7, SameCardinality DEF O!Fold, Sheets, Finished
  <2> QED
    BY <2>8 DEF O!Next
<1>10. CASE next_fold
  <2>1. /\ FoldDone /\ p1' = P1After
        /\ phase' = "fold" /\ instr_idx' = instr_idx + 1 /\ before' = Dots
    BY <1>10 DEF next_fold, BeginFold
  <2>2. Dots # {}
    BY <2>1, FoldIsDone
  <2>3. ~Reading' /\ NotYet'
    BY <2>1, <2>2 DEF Reading, NotYet
  <2>4. Sheets' = Dots /\ Finished' = instr_idx
    BY <2>1, <2>3, IndexTyped DEF Sheets, Finished
  <2> QED
    BY <1>9, <2>1, <2>3, <2>4
<1>11. CASE last_fold
  <2>1. /\ FoldDone /\ p1' = P1After /\ phase = "insert"
        /\ phase' = "done" /\ UNCHANGED <<buckets, instr_idx, before>>
    BY <1>11 DEF last_fold, FoldDone, table
  <2>2. ~Reading' /\ ~NotYet'
    BY <2>1 DEF Reading, NotYet, Phases
  <2>3. Sheets' = Dots /\ Finished' = instr_idx
    BY <2>1, <2>2 DEF Sheets, Finished, Dots
  <2> QED
    BY <1>9, <2>1, <2>2, <2>3
<1>12. CASE drawing_differs
  <2>1. /\ phase = "done" /\ phase' = "misdrawn"
        /\ UNCHANGED <<buckets, instr_idx, p1, before>>
    BY <1>12 DEF drawing_differs, table
  <2> QED
    BY <2>1 DEF Sheets, Finished, Reading, NotYet, Dots
<1>13. CASE day13_returns
  <2>1. UNCHANGED <<buckets, phase, instr_idx, p1, before>>
    BY <1>13 DEF day13_returns, H!ht_deinit
  <2> QED
    BY <1>1, <2>1 DEF Dots
<1> QED
  BY <1>2, <1>3, <1>4, <1>5, <1>6, <1>7, <1>8, <1>10, <1>11, <1>12, <1>13 DEF Next

(* day13 folds the paper: the dots and p1 change as Origami says, whichever  *)
(* order the table shows the dots in, whatever the hash function, and also   *)
(* when a full bucket or a full array aborts it halfway.                     *)
THEOREM FoldingIsOrigami == Spec => FoldsPaper
<1>1. Init => O!Init
  <2> SUFFICES ASSUME Init PROVE O!Init
    OBVIOUS
  <2>1. before = {} /\ p1 = 0
    BY DEF Init
  <2>2. Dots = {}
    BY DEF Init, H!Init, Dots, H!KeysIn, H!PresentSlots, H!PresentIn, H!NullEntries
  <2> QED
    BY <2>1, <2>2 DEF O!Init, NotYet, Reading
<1>2. TableInv /\ TableInv' /\ FoldInv /\ [Next]_vars
        => [O!Next]_<<Sheets, Finished, p1>>
  BY StepIsFolding
<1> QED
  BY <1>1, <1>2, FoldInvariant, PTL DEF Spec, FoldsPaper, O!Spec, Sheets, Finished

===============================================================================
