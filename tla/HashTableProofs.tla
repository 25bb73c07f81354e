--------------------------- MODULE HashTableProofs ---------------------------
(***************************************************************************)
(* Theorems about HashTable, for any number of buckets and slots, any hash *)
(* function and any keys and values.  The second half is about ht_traverse *)
(* alone: what its callback does to the table under its two loops makes it *)
(* miss no entry.  The last part states what the client of a table sees of *)
(* a traversal, for the proofs of day13.                                   *)
(***************************************************************************)
EXTENDS HashTable, FiniteSetTheorems, FunctionTheorems, WellFoundedInduction, TLAPS

(* A key's bucket exists. *)
LEMMA BucketExists ==
    ASSUME NEW key \in Key
    PROVE  bucket_idx(key) \in Bucket
BY SizeAssumption, HashAssumption DEF bucket_idx, Bucket

(* Tables are well formed, and Idle is no slot. *)
Table == [Bucket -> Entries]

LEMMA IdleIsNoSlot == Idle \notin Bucket \X Slot
BY SizeAssumption DEF Idle, Bucket, Slot

(* A slot is a bucket and a position in it. *)
LEMMA SlotIsPair ==
    /\ \A s \in Bucket \X Slot : s[1] \in Bucket /\ s[2] \in Slot /\ s = <<s[1], s[2]>>
    /\ \A s \in Bucket \X Slot : \A b, e : s = <<b, e>> <=> s[1] = b /\ s[2] = e
    /\ \A b \in Bucket, e \in Slot : <<b, e>> \in Bucket \X Slot
OBVIOUS

(* There are finitely many slots. *)
LEMMA SlotsFinite == IsFiniteSet(Bucket \X Slot)
<1>1. IsFiniteSet(Bucket) /\ IsFiniteSet(Slot)
  BY FS_Interval, SizeAssumption DEF Bucket, Slot
<1> QED
  BY <1>1, FS_Product

LEMMA PresentFinite ==
    ASSUME NEW t
    PROVE  IsFiniteSet(PresentSlots(t)) /\ Cardinality(PresentSlots(t)) \in Nat
<1>1. PresentSlots(t) \subseteq Bucket \X Slot
  BY DEF PresentSlots
<1> QED
  BY <1>1, SlotsFinite, FS_Subset, FS_CardinalityType

(* Writing an entry into a slot of a bucket (allocated if it was not) makes *)
(* that slot present and changes no other.                                  *)
LEMMA WriteSlot ==
    ASSUME NEW t \in Table, NEW b \in Bucket,
           NEW e \in DOMAIN Allocated(t, b), NEW ent \in Entry
    PROVE  LET u == Written(t, b, e, ent) IN
           /\ u \in Table
           /\ e \in Slot
           /\ PresentSlots(u) = PresentSlots(t) \cup {<<b, e>>}
           /\ \A s \in PresentSlots(t) : s # <<b, e>> => u[s[1]][s[2]] = t[s[1]][s[2]]
           /\ \A c \in Bucket : DOMAIN t[c] \subseteq DOMAIN u[c]
           /\ u[b][e] = ent
<1> DEFINE slots == Allocated(t, b)
           u == Written(t, b, e, ent)
<1>1. slots \in [Slot -> Entry \cup {Absent}]
  BY DEF Table, Entries, Allocated, FreshEntries
<1>2. [slots EXCEPT ![e] = ent] \in Entries /\ e \in Slot
  BY <1>1 DEF Entries
<1>3. u \in Table
  BY <1>2 DEF Table, Written
<1>4. u[b] = [slots EXCEPT ![e] = ent] /\ \A c \in Bucket : c # b => u[c] = t[c]
  BY DEF Table, Written
<1>5. t[b] = slots \/ (t[b] = NullEntries /\ slots = FreshEntries)
  BY DEF Allocated
<1> HIDE DEF slots, u
<1>6. PresentIn(u, b) = PresentIn(t, b) \cup {e}
  <2>1. PresentIn(t, b) = {f \in Slot : slots[f] # Absent}
    <3>1. CASE t[b] = slots
      BY <1>1, <3>1 DEF PresentIn
    <3>2. CASE t[b] = NullEntries /\ slots = FreshEntries
      BY <3>2 DEF PresentIn, NullEntries, FreshEntries
    <3> QED
      BY <1>5, <3>1, <3>2
  <2>2. PresentIn(u, b) = {f \in Slot : f = e \/ slots[f] # Absent}
    BY <1>1, <1>2, <1>4, AbsentAssumption DEF PresentIn
  <2> QED
    BY <1>2, <2>1, <2>2
<1>7. \A c \in Bucket : c # b => PresentIn(u, c) = PresentIn(t, c)
  BY <1>4 DEF PresentIn
<1>8. PresentSlots(u) = PresentSlots(t) \cup {<<b, e>>}
  <2>1. ASSUME NEW s \in Bucket \X Slot
        PROVE  s[2] \in PresentIn(u, s[1])
                  <=> s[2] \in PresentIn(t, s[1]) \/ s = <<b, e>>
    <3>1. CASE s[1] = b
      <4>1. s = <<b, e>> <=> s[2] = e
        BY <3>1, SlotIsPair
      <4>2. PresentIn(u, s[1]) = PresentIn(u, b) /\ PresentIn(t, s[1]) = PresentIn(t, b)
        BY <3>1
      <4> QED
        BY <1>6, <4>1, <4>2
    <3>2. CASE s[1] # b
      BY <1>7, <3>2, SlotIsPair
    <3> QED
      BY <3>1, <3>2
  <2>2. <<b, e>> \in Bucket \X Slot
    BY <1>2
  <2> QED
    BY <2>1, <2>2 DEF PresentSlots
<1>9. ASSUME NEW s \in PresentSlots(t), s # <<b, e>>
      PROVE  u[s[1]][s[2]] = t[s[1]][s[2]]
  <2>1. s \in Bucket \X Slot /\ s[2] \in DOMAIN t[s[1]]
    BY DEF PresentSlots, PresentIn
  <2>2. CASE s[1] = b
    <3>1. s[2] # e /\ s[2] \in Slot
      BY <1>9, <2>1, <2>2, SlotIsPair
    <3>2. t[b] = slots
      BY <1>5, <2>1, <2>2 DEF NullEntries
    <3> QED
      BY <1>1, <1>4, <2>2, <3>1, <3>2
  <2>3. CASE s[1] # b
    BY <1>4, <2>1, <2>3
  <2> QED
    BY <2>2, <2>3
<1>10. \A c \in Bucket : DOMAIN t[c] \subseteq DOMAIN u[c]
  BY <1>1, <1>4, <1>5 DEF NullEntries
<1>11. u[b][e] = ent
  BY <1>1, <1>2, <1>4
<1> QED
  BY <1>2, <1>3, <1>8, <1>9, <1>10, <1>11 DEF u

(* Clearing a present slot removes just that slot: u is t without it. *)
WithoutSlot(t, b, e, u) ==
    /\ u \in Table
    /\ <<b, e>> \in PresentSlots(t)
    /\ PresentSlots(u) = PresentSlots(t) \ {<<b, e>>}
    /\ \A s \in PresentSlots(u) : u[s[1]][s[2]] = t[s[1]][s[2]]
    /\ \A c \in Bucket : DOMAIN t[c] \subseteq DOMAIN u[c]
    /\ u[b][e] = Absent

LEMMA ClearSlot ==
    ASSUME NEW t \in Table, NEW b \in Bucket, NEW e \in PresentIn(t, b)
    PROVE  WithoutSlot(t, b, e, Cleared(t, b, e))
<1> DEFINE u == Cleared(t, b, e)
<1>1. t[b] \in [Slot -> Entry \cup {Absent}] /\ e \in Slot
  BY DEF Table, Entries, PresentIn, NullEntries
<1>2. u[b] = [t[b] EXCEPT ![e] = Absent] /\ \A c \in Bucket : c # b => u[c] = t[c]
  BY DEF Table, Cleared
<1>3. u[b] \in Entries
  BY <1>1, <1>2 DEF Entries
<1>4. u \in Table
  BY <1>1 DEF Table, Cleared, Entries
<1> HIDE DEF u
<1>5. PresentIn(u, b) = PresentIn(t, b) \ {e}
  BY <1>1, <1>2 DEF PresentIn
<1>6. \A c \in Bucket : c # b => PresentIn(u, c) = PresentIn(t, c)
  BY <1>2 DEF PresentIn
<1>7. PresentSlots(u) = PresentSlots(t) \ {<<b, e>>} /\ <<b, e>> \in PresentSlots(t)
  <2>1. ASSUME NEW s \in Bucket \X Slot
        PROVE  s[2] \in PresentIn(u, s[1])
                  <=> s[2] \in PresentIn(t, s[1]) /\ s # <<b, e>>
    <3>1. CASE s[1] = b
      <4>1. s = <<b, e>> <=> s[2] = e
        BY <3>1, SlotIsPair
      <4>2. PresentIn(u, s[1]) = PresentIn(u, b) /\ PresentIn(t, s[1]) = PresentIn(t, b)
        BY <3>1
      <4> QED
        BY <1>5, <4>1, <4>2
    <3>2. CASE s[1] # b
      BY <1>6, <3>2, SlotIsPair
    <3> QED
      BY <3>1, <3>2
  <2>2. <<b, e>> \in PresentSlots(t)
    BY <1>1 DEF PresentSlots
  <2> QED
    BY <2>1, <2>2 DEF PresentSlots
<1>8. \A c \in Bucket : DOMAIN t[c] \subseteq DOMAIN u[c]
  BY <1>1, <1>2
<1>9. ASSUME NEW s \in PresentSlots(u)
      PROVE  u[s[1]][s[2]] = t[s[1]][s[2]]
  <2>1. s \in Bucket \X Slot /\ s # <<b, e>> /\ s[2] \in DOMAIN t[s[1]]
    BY <1>7, <1>9 DEF PresentSlots, PresentIn
  <2>2. CASE s[1] = b
    <3>1. s[2] # e /\ s[2] \in Slot
      BY <2>1, <2>2, SlotIsPair
    <3> QED
      BY <1>1, <1>2, <2>2, <3>1
  <2>3. CASE s[1] # b
    BY <1>2, <2>1, <2>3
  <2> QED
    BY <2>2, <2>3
<1>10. u[b][e] = Absent
  BY <1>1, <1>2
<1> QED
  BY <1>4, <1>7, <1>8, <1>9, <1>10 DEF u, WithoutSlot

-----------------------------------------------------------------------------
(* Type correctness.                                                         *)

(* First and NextPresent pick among what they are given. *)
LEMMA PickedSlots ==
    /\ \A t, s : NextPresent(t, s) \subseteq PresentSlots(t)
    /\ \A S : First(S) \subseteq S
BY DEF NextPresent, First

LEMMA InitTypeOK == Init => TypeOK
<1> SUFFICES ASSUME Init PROVE TypeOK
  OBVIOUS
<1>1. NullEntries \in Entries
  BY DEF Entries
<1> QED
  BY <1>1 DEF Init, TypeOK, Traversing, Missing

(* The slot of a running callback is allocated: in a dropped one nothing but *)
(* the present flag has changed.                                             *)
LEMMA CursorAllocated ==
    ASSUME TypeOK, Traversing
    PROVE  /\ cursor \in Bucket \X Slot
           /\ cursor[1] \in Bucket /\ cursor[2] \in Slot
           /\ cursor = <<cursor[1], cursor[2]>>
           /\ buckets \in Table
           /\ buckets[cursor[1]] \in [Slot -> Entry \cup {Absent}]
           /\ ~Dropped => cursor[2] \in PresentIn(buckets, cursor[1])
           /\ ~Dropped => cursor \in PresentSlots(buckets)
           /\ Dropped => cursor \notin PresentSlots(buckets)
<1>1. cursor \in Bucket \X Slot /\ buckets \in Table
  BY DEF TypeOK, Traversing, Table
<1>2. cursor[2] \in DOMAIN buckets[cursor[1]]
  BY DEF TypeOK
<1>3. cursor[1] \in Bucket /\ cursor[2] \in Slot /\ cursor = <<cursor[1], cursor[2]>>
  BY <1>1
<1>4. buckets[cursor[1]] \in [Slot -> Entry \cup {Absent}]
  BY <1>1, <1>2, <1>3 DEF Table, Entries, NullEntries
<1> QED
  BY <1>1, <1>2, <1>3, <1>4 DEF Dropped, AtCursor, PresentIn, PresentSlots

(* ht_put writes one usable slot of the key's bucket. *)
LEMMA PutWrites ==
    ASSUME TypeOK, NEW k \in Key, NEW v \in Value, ht_put(k, v)
    PROVE  \E e \in Slot :
              /\ e \in Usable(Allocated(buckets, bucket_idx(k)), k)
              /\ buckets' = Written(buckets, bucket_idx(k), e, [key |-> k, value |-> v])
              /\ e \in DOMAIN Allocated(buckets, bucket_idx(k))
<1>1. bucket_idx(k) \in Bucket /\ buckets \in Table
  BY BucketExists DEF TypeOK, Table
<1>2. PICK e \in First(Usable(Allocated(buckets, bucket_idx(k)), k)) :
         buckets' = Written(buckets, bucket_idx(k), e, [key |-> k, value |-> v])
  BY DEF ht_put
<1>3. /\ e \in Usable(Allocated(buckets, bucket_idx(k)), k)
      /\ e \in DOMAIN Allocated(buckets, bucket_idx(k))
  BY PickedSlots DEF Usable
<1>4. Allocated(buckets, bucket_idx(k)) \in [Slot -> Entry \cup {Absent}]
  BY <1>1 DEF Table, Entries, Allocated, FreshEntries
<1> QED
  BY <1>2, <1>3, <1>4

(* Where ht_traverse goes next there is an entry. *)
LEMMA AdvanceTo ==
    ASSUME NEW s, NEW left, Advance(s, left)
    PROVE  /\ cursor' = Idle \/ cursor' \in PresentSlots(buckets)
           /\ todo' \subseteq left
BY PickedSlots DEF Advance

LEMMA KeysTyped ==
    ASSUME NEW t \in Table
    PROVE  /\ \A s \in PresentSlots(t) : t[s[1]][s[2]] \in Entry
           /\ KeysIn(t) \subseteq Key
<1>1. ASSUME NEW s \in PresentSlots(t)
      PROVE  t[s[1]][s[2]] \in Entry
  <2>1. s[1] \in Bucket /\ s[2] \in DOMAIN t[s[1]] /\ t[s[1]][s[2]] # Absent
    BY SlotIsPair DEF PresentSlots, PresentIn
  <2>2. t[s[1]] \in [Slot -> Entry \cup {Absent}]
    BY <2>1 DEF Table, Entries, NullEntries
  <2> QED
    BY <2>1, <2>2
<1> QED
  BY <1>1 DEF KeysIn, Entry

(* A cursor on a present slot, or on one whose bucket only gained slots, is *)
(* as TypeOK wants it.                                                       *)
LEMMA CursorKept ==
    ASSUME TypeOK, NEW u \in Table,
           \A c \in Bucket : DOMAIN buckets[c] \subseteq DOMAIN u[c]
    PROVE  Traversing => cursor[2] \in DOMAIN u[cursor[1]]
BY CursorAllocated DEF TypeOK

LEMMA NextTypeOK ==
    ASSUME TypeOK, [Next]_vars
    PROVE  TypeOK'
<1> USE DEF Table
<1>1. CASE UNCHANGED vars
  BY <1>1 DEF vars, TypeOK, Traversing
<1>2. CASE ht_init
  <2>1. NullEntries \in Entries /\ ~Traversing
    BY <1>2 DEF Entries, ht_init, TypeOK
  <2> QED
    BY <1>2, <2>1 DEF ht_init, TypeOK, Traversing, Missing
<1>3. CASE ht_deinit
  BY <1>3 DEF ht_deinit, TypeOK, Traversing
<1>4. ASSUME NEW k \in Key, NEW v \in Value, ht_put(k, v)
      PROVE  TypeOK'
  <2>1. PICK e \in Slot :
           /\ buckets' = Written(buckets, bucket_idx(k), e, [key |-> k, value |-> v])
           /\ e \in DOMAIN Allocated(buckets, bucket_idx(k))
    BY <1>4, PutWrites
  <2>2. [key |-> k, value |-> v] \in Entry /\ bucket_idx(k) \in Bucket
    BY BucketExists DEF Entry
  <2>3. /\ buckets' \in Table
        /\ \A c \in Bucket : DOMAIN buckets[c] \subseteq DOMAIN buckets'[c]
    BY <2>1, <2>2, WriteSlot DEF TypeOK
  <2>4. Traversing => cursor[2] \in DOMAIN buckets'[cursor[1]]
    BY <2>3, CursorKept
  <2> QED
    BY <1>4, <2>3, <2>4 DEF ht_put, MayPut, TypeOK, Traversing, Missing
<1>5. ASSUME NEW k \in Key, ht_put_full(k)
      PROVE  TypeOK'
  BY <1>5 DEF ht_put_full, TypeOK, Traversing
<1>6. ASSUME NEW k \in Key, ht_get(k)
      PROVE  TypeOK'
  <2>1. ASSUME NEW e \in First(Lookup(buckets, k))
        PROVE  buckets[bucket_idx(k)][e].value \in Value
    <3>1. e \in DOMAIN buckets[bucket_idx(k)] /\ buckets[bucket_idx(k)][e] # Absent
      BY PickedSlots DEF Lookup, Holding, PresentIn
    <3>2. buckets[bucket_idx(k)] \in Entries
      BY BucketExists DEF TypeOK
    <3> QED
      BY <3>1, <3>2 DEF Entries, NullEntries, Entry
  <2>2. ret' \in [found : BOOLEAN, value : Value \cup {NoValue}]
    <3>1. CASE \E e \in First(Lookup(buckets, k)) :
                  ret' = Found(buckets[bucket_idx(k)][e].value)
      BY <2>1, <3>1 DEF Found
    <3>2. CASE ret' = Missing
      BY <3>2 DEF Missing
    <3> QED
      BY <1>6, <3>1, <3>2 DEF ht_get
  <2> QED
    BY <1>6, <2>2 DEF ht_get, TypeOK, Traversing
<1>7. ASSUME NEW k \in Key, ht_has_key(k)
      PROVE  TypeOK'
  BY <1>7 DEF ht_has_key, TypeOK, Traversing, Present, Missing
<1>8. ASSUME NEW k \in Key, ht_delete(k)
      PROVE  TypeOK'
  <2>1. CASE Lookup(buckets, k) = {} /\ UNCHANGED <<buckets, total_entries, todo>>
             /\ ret' = Missing
    BY <1>8, <2>1 DEF ht_delete, TypeOK, Traversing, Missing
  <2>2. ASSUME NEW e \in First(Lookup(buckets, k)),
               buckets' = Cleared(buckets, bucket_idx(k), e),
               total_entries' = total_entries - 1,
               ret' = Present,
               todo' = todo \ {k}
        PROVE  TypeOK'
    <3>1. e \in PresentIn(buckets, bucket_idx(k)) /\ bucket_idx(k) \in Bucket
      BY PickedSlots, BucketExists DEF Lookup, Holding
    <3>2. /\ buckets' \in Table
          /\ \A c \in Bucket : DOMAIN buckets[c] \subseteq DOMAIN buckets'[c]
      BY <2>2, <3>1, ClearSlot DEF TypeOK, WithoutSlot
    <3>3. Traversing => cursor[2] \in DOMAIN buckets'[cursor[1]]
      BY <3>2, CursorKept
    <3> QED
      BY <1>8, <2>2, <3>2, <3>3 DEF ht_delete, TypeOK, Traversing, Present
  <2> QED
    BY <1>8, <2>1, <2>2 DEF ht_delete
<1>9. ASSUME NEW k \in Key, callback_sets_key(k)
      PROVE  TypeOK'
  <2>1. Traversing /\ ~Dropped
    BY <1>9 DEF callback_sets_key
  <2>2. AtCursor \in Entry /\ [AtCursor EXCEPT !.key = k] \in Entry
    BY <2>1, CursorAllocated, KeysTyped DEF AtCursor, Entry
  <2>3. cursor[2] \in DOMAIN Allocated(buckets, cursor[1]) /\ cursor[1] \in Bucket
    BY <2>1, CursorAllocated DEF Allocated, FreshEntries
  <2>4. /\ buckets' \in Table
        /\ \A c \in Bucket : DOMAIN buckets[c] \subseteq DOMAIN buckets'[c]
    BY <1>9, <2>2, <2>3, WriteSlot DEF TypeOK, callback_sets_key
  <2>5. Traversing => cursor[2] \in DOMAIN buckets'[cursor[1]]
    BY <2>4, CursorKept
  <2> QED
    BY <1>9, <2>4, <2>5 DEF callback_sets_key, TypeOK, Traversing
<1>10. CASE ht_traverse
  <2>1. /\ cursor' = Idle \/ cursor' \in PresentSlots(buckets)
        /\ todo' \subseteq KeysIn(buckets)
    BY <1>10, AdvanceTo DEF ht_traverse
  <2> QED
    BY <1>10, <2>1, KeysTyped DEF ht_traverse, TypeOK, Traversing, PresentSlots, PresentIn
<1>11. ASSUME NEW v \in Value, callback_sets_value(v)
       PROVE  TypeOK'
  <2>1. Traversing /\ ~Dropped
    BY <1>11 DEF callback_sets_value
  <2>2. AtCursor \in Entry /\ [AtCursor EXCEPT !.value = v] \in Entry
    BY <2>1, CursorAllocated, KeysTyped DEF AtCursor, Entry
  <2>3. cursor[2] \in DOMAIN Allocated(buckets, cursor[1]) /\ cursor[1] \in Bucket
    BY <2>1, CursorAllocated DEF Allocated, FreshEntries
  <2>4. /\ buckets' \in Table
        /\ \A c \in Bucket : DOMAIN buckets[c] \subseteq DOMAIN buckets'[c]
    BY <1>11, <2>2, <2>3, WriteSlot DEF TypeOK, callback_sets_value
  <2>5. Traversing => cursor[2] \in DOMAIN buckets'[cursor[1]]
    BY <2>4, CursorKept
  <2> QED
    BY <1>11, <2>4, <2>5 DEF callback_sets_value, TypeOK, Traversing
<1>12. CASE callback_drops
  <2>1. Traversing /\ ~Dropped
    BY <1>12 DEF callback_drops
  <2>2. cursor[2] \in PresentIn(buckets, cursor[1]) /\ cursor[1] \in Bucket
    BY <2>1, CursorAllocated
  <2>3. /\ buckets' \in Table
        /\ \A c \in Bucket : DOMAIN buckets[c] \subseteq DOMAIN buckets'[c]
    BY <1>12, <2>2, ClearSlot DEF TypeOK, callback_drops, WithoutSlot
  <2>4. Traversing => cursor[2] \in DOMAIN buckets'[cursor[1]]
    BY <2>3, CursorKept
  <2> QED
    BY <1>12, <2>3, <2>4 DEF callback_drops, TypeOK, Traversing
<1>13. ASSUME NEW c \in BOOLEAN, callback_returns(c)
       PROVE  TypeOK'
  <2>1. /\ cursor' = Idle \/ cursor' \in PresentSlots(buckets)
        /\ todo' \subseteq todo
    BY <1>13, AdvanceTo DEF callback_returns
  <2>2. total_entries' \in Int
    BY <1>13 DEF callback_returns, CountAfterVisit, TypeOK
  <2> QED
    BY <1>13, <2>1, <2>2 DEF callback_returns, TypeOK, Traversing, PresentSlots, PresentIn
<1> QED
  BY <1>1, <1>2, <1>3, <1>4, <1>5, <1>6, <1>7, <1>8, <1>9, <1>10, <1>11, <1>12, <1>13
  DEF Next

(* Every reachable state is well typed, and a callback only ever runs on a   *)
(* slot of an allocated bucket, whatever the client does to the table.       *)
THEOREM TypeCorrect == Spec => []TypeOK
BY InitTypeOK, NextTypeOK, PTL DEF Spec

-----------------------------------------------------------------------------
(* The entry count.  What total_entries exceeds is the number of present     *)
(* slots, counting the slot of a dropped entry until its callback returns;   *)
(* for a client that neither overwrites, inserts nor rekeys it is that.      *)

SlotCount  == Cardinality(PresentSlots(buckets))
StillOwed  == IF Dropped THEN 1 ELSE 0

CountCovers ==
    /\ SlotCount + StillOwed <= total_entries
    /\ Client = {} => SlotCount + StillOwed = total_entries

LEMMA CountTyped ==
    SlotCount \in Nat /\ StillOwed \in {0, 1} /\ (~Dropped => StillOwed = 0)
BY PresentFinite DEF SlotCount, StillOwed

(* One present slot more, or one less. *)
LEMMA CountMore ==
    ASSUME NEW t, NEW u, NEW s, PresentSlots(u) = PresentSlots(t) \cup {s}
    PROVE  /\ Cardinality(PresentSlots(u)) <= Cardinality(PresentSlots(t)) + 1
           /\ Cardinality(PresentSlots(u)) >= Cardinality(PresentSlots(t))
           /\ s \notin PresentSlots(t) =>
                Cardinality(PresentSlots(u)) = Cardinality(PresentSlots(t)) + 1
           /\ s \in PresentSlots(t) =>
                Cardinality(PresentSlots(u)) = Cardinality(PresentSlots(t))
<1>1. Cardinality(PresentSlots(t)) \in Nat /\ IsFiniteSet(PresentSlots(t))
  BY PresentFinite
<1>2. CASE s \in PresentSlots(t)
  <2>1. PresentSlots(u) = PresentSlots(t)
    BY <1>2
  <2>2. Cardinality(PresentSlots(u)) = Cardinality(PresentSlots(t))
    BY <2>1
  <2> QED
    BY <1>1, <1>2, <2>2
<1>3. CASE s \notin PresentSlots(t)
  <2>1. Cardinality(PresentSlots(u)) = Cardinality(PresentSlots(t)) + 1
    BY <1>1, <1>3, FS_AddElement
  <2> QED
    BY <1>1, <1>3, <2>1
<1> QED
  BY <1>2, <1>3

LEMMA CountLess ==
    ASSUME NEW t, NEW u, NEW s \in PresentSlots(t),
           PresentSlots(u) = PresentSlots(t) \ {s}
    PROVE  Cardinality(PresentSlots(u)) = Cardinality(PresentSlots(t)) - 1
BY PresentFinite, FS_RemoveElement

(* A fresh key is put into a slot that was absent. *)
LEMMA FreshPutSlot ==
    ASSUME TypeOK, NEW k \in Key, Lookup(buckets, k) = {},
           NEW e \in Usable(Allocated(buckets, bucket_idx(k)), k)
    PROVE  <<bucket_idx(k), e>> \notin PresentSlots(buckets)
<1> DEFINE b == bucket_idx(k)
<1>1. SUFFICES ASSUME <<b, e>> \in PresentSlots(buckets) PROVE FALSE
  OBVIOUS
<1>2. e \in PresentIn(buckets, b)
  BY <1>1 DEF PresentSlots
<1>3. buckets[b] # NullEntries /\ buckets[b][e] # Absent
  BY <1>2 DEF PresentIn, NullEntries
<1>4. buckets[b][e].key = k
  BY <1>3 DEF Usable, Allocated
<1> QED
  BY <1>2, <1>4 DEF Lookup, Holding

(* Deleting spares the slot of the running callback. *)
LEMMA DeleteSpares ==
    ASSUME TypeOK, NEW k \in Key, MayDelete(k),
           NEW e \in First(Lookup(buckets, k)),
           buckets' = Cleared(buckets, bucket_idx(k), e), cursor' = cursor
    PROVE  /\ e \in PresentIn(buckets, bucket_idx(k))
           /\ buckets[bucket_idx(k)][e].key = k
           /\ bucket_idx(k) \in Bucket
           /\ Traversing => cursor # <<bucket_idx(k), e>>
           /\ Dropped' = Dropped
<1> DEFINE b == bucket_idx(k)
<1>1. e \in PresentIn(buckets, b) /\ b \in Bucket /\ buckets[b][e].key = k
  BY PickedSlots, BucketExists DEF Lookup, Holding
<1>2. buckets \in Table
  BY DEF TypeOK, Table
<1>3. ASSUME Traversing
      PROVE  cursor # <<b, e>> /\ (AtCursor = Absent <=> AtCursor' = Absent)
  <2>1. cursor # <<b, e>>
    <3>1. SUFFICES ASSUME cursor = <<b, e>> PROVE FALSE
      OBVIOUS
    <3>2. AtCursor = buckets[b][e]
      BY <3>1 DEF AtCursor
    <3>3. ~Dropped
      BY <1>1, <3>2 DEF Dropped, PresentIn
    <3> QED
      BY <1>1, <1>3, <3>2, <3>3 DEF MayDelete
  <2> HIDE DEF b
  <2>2. /\ PresentSlots(buckets') = PresentSlots(buckets) \ {<<b, e>>}
        /\ \A s \in PresentSlots(buckets') : buckets'[s[1]][s[2]] = buckets[s[1]][s[2]]
        /\ buckets' \in Table
        /\ \A c \in Bucket : DOMAIN buckets[c] \subseteq DOMAIN buckets'[c]
    <3>1. buckets' = Cleared(buckets, b, e)
      BY DEF b
    <3>2. WithoutSlot(buckets, b, e, buckets')
      BY <1>1, <1>2, <3>1, ClearSlot
    <3> QED
      BY <3>2 DEF WithoutSlot
  <2>3. AtCursor = Absent <=> cursor \notin PresentSlots(buckets)
    BY <1>3, CursorAllocated DEF Dropped
  <2>4. cursor[2] \in DOMAIN buckets'[cursor[1]]
    BY <1>3, <2>2, CursorKept
  <2>5. AtCursor' = Absent <=> cursor \notin PresentSlots(buckets')
    BY <1>3, <2>4, CursorAllocated DEF AtCursor, PresentSlots, PresentIn
  <2> QED
    BY <2>1, <2>2, <2>3, <2>5
<1>4. Dropped' = Dropped
  BY <1>3 DEF Dropped, Traversing
<1> QED
  BY <1>1, <1>3, <1>4

LEMMA NextCountCovers ==
    ASSUME TypeOK, TypeOK', CountCovers, [Next]_vars
    PROVE  CountCovers'
<1>1. ASSUME UNCHANGED <<buckets, cursor, total_entries>>
      PROVE  CountCovers'
  BY <1>1 DEF CountCovers, SlotCount, StillOwed, Dropped, Traversing, AtCursor
<1>2. CASE UNCHANGED vars
  BY <1>1, <1>2 DEF vars
<1>3. CASE ht_init
  <2>1. ~Traversing'
    BY <1>3 DEF ht_init, TypeOK, Traversing
  <2>2. PresentSlots(buckets') = {}
    BY <1>3 DEF ht_init, PresentSlots, PresentIn, NullEntries
  <2>3. SlotCount' = 0 /\ StillOwed' = 0
    BY <2>1, <2>2, FS_EmptySet DEF SlotCount, StillOwed, Dropped
  <2> QED
    BY <1>3, <2>3 DEF ht_init, CountCovers
<1>4. CASE ht_deinit
  BY <1>1, <1>4 DEF ht_deinit
<1>5. ASSUME NEW k \in Key, NEW v \in Value, ht_put(k, v)
      PROVE  CountCovers'
  <2> DEFINE b == bucket_idx(k)
  <2>1. PICK e \in Slot :
           /\ e \in Usable(Allocated(buckets, b), k)
           /\ buckets' = Written(buckets, b, e, [key |-> k, value |-> v])
           /\ e \in DOMAIN Allocated(buckets, b)
    BY <1>5, PutWrites
  <2>2. [key |-> k, value |-> v] \in Entry /\ b \in Bucket /\ buckets \in Table
    BY BucketExists DEF Entry, TypeOK, Table
  <2>3. /\ PresentSlots(buckets') = PresentSlots(buckets) \cup {<<b, e>>}
        /\ buckets'[b][e] = [key |-> k, value |-> v]
    BY <2>1, <2>2, WriteSlot
  <2>4. StillOwed' <= StillOwed
    <3>1. SUFFICES ASSUME ~Dropped PROVE ~Dropped'
      BY CountTyped DEF StillOwed
    <3>2. SUFFICES ASSUME Traversing PROVE AtCursor' # Absent
      BY <1>5 DEF ht_put, Dropped, Traversing
    <3>3. cursor \in PresentSlots(buckets')
      BY <2>3, <3>1, <3>2, CursorAllocated
    <3> QED
      BY <1>5, <3>3 DEF ht_put, AtCursor, PresentSlots, PresentIn
  <2>5. SlotCount' <= SlotCount + 1 /\ total_entries' = total_entries + 1
    BY <1>5, <2>3, CountMore DEF ht_put, SlotCount
  <2>6. ASSUME Client = {}
        PROVE  SlotCount' = SlotCount + 1 /\ StillOwed' = 0 /\ StillOwed = 0
    <3>1. ~Traversing /\ ~Traversing' /\ Lookup(buckets, k) = {}
      BY <1>5, <2>6 DEF ht_put, MayPut, Traversing
    <3>2. <<b, e>> \notin PresentSlots(buckets)
      BY <2>1, <3>1, FreshPutSlot
    <3> QED
      BY <2>3, <3>1, <3>2, CountMore DEF SlotCount, StillOwed, Dropped
  <2>7. /\ SlotCount \in Nat /\ SlotCount' \in Nat /\ total_entries \in Int
        /\ StillOwed \in Nat /\ StillOwed' \in Nat /\ total_entries' \in Int
    BY PresentFinite DEF SlotCount, StillOwed, TypeOK
  <2>8. SlotCount' + StillOwed' <= total_entries'
    <3>1. SlotCount + StillOwed <= total_entries
      BY DEF CountCovers
    <3>2. \A m, n, o, p \in Nat, i, j \in Int :
             m + o <= i /\ n <= m + 1 /\ p <= o /\ j = i + 1 => n + p <= j
      OBVIOUS
    <3> QED
      BY <2>4, <2>5, <2>7, <3>1, <3>2
  <2>9. Client = {} => SlotCount' + StillOwed' = total_entries'
    BY <2>5, <2>6, <2>7 DEF CountCovers
  <2> QED
    BY <2>8, <2>9 DEF CountCovers
<1>6. ASSUME NEW k \in Key, ht_put_full(k) \/ ht_get(k) \/ ht_has_key(k)
      PROVE  CountCovers'
  BY <1>1, <1>6 DEF ht_put_full, ht_get, ht_has_key
<1>7. ASSUME NEW k \in Key, ht_delete(k)
      PROVE  CountCovers'
  <2>1. CASE UNCHANGED <<buckets, total_entries, todo>>
    BY <1>1, <1>7, <2>1 DEF ht_delete
  <2>2. ASSUME NEW e \in First(Lookup(buckets, k)),
               buckets' = Cleared(buckets, bucket_idx(k), e),
               total_entries' = total_entries - 1
        PROVE  CountCovers'
    <3> DEFINE b == bucket_idx(k)
    <3>1. /\ e \in PresentIn(buckets, b) /\ b \in Bucket
          /\ Dropped' = Dropped
      BY <1>7, <2>2, DeleteSpares DEF ht_delete
    <3>2. buckets \in Table
      BY DEF TypeOK, Table
    <3>3. /\ PresentSlots(buckets') = PresentSlots(buckets) \ {<<b, e>>}
          /\ <<b, e>> \in PresentSlots(buckets)
      BY <2>2, <3>1, <3>2, ClearSlot DEF WithoutSlot
    <3>4. SlotCount' = SlotCount - 1
      BY <3>3, CountLess DEF SlotCount
    <3>5. StillOwed' = StillOwed
      BY <3>1 DEF StillOwed
    <3>6. SlotCount \in Nat /\ StillOwed \in {0, 1} /\ total_entries \in Int
      BY CountTyped DEF TypeOK
    <3> QED
      BY <2>2, <3>4, <3>5, <3>6 DEF CountCovers
  <2> QED
    BY <1>7, <2>1, <2>2 DEF ht_delete
<1>8. ASSUME NEW ent \in Entry, Traversing, ~Dropped,
             buckets' = Written(buckets, cursor[1], cursor[2], ent),
             UNCHANGED <<cursor, total_entries>>
      PROVE  CountCovers'
  <2>1. /\ cursor[1] \in Bucket /\ cursor[2] \in DOMAIN Allocated(buckets, cursor[1])
        /\ buckets \in Table
        /\ cursor \in PresentSlots(buckets) /\ cursor = <<cursor[1], cursor[2]>>
    BY <1>8, CursorAllocated DEF Allocated, FreshEntries
  <2>2. /\ PresentSlots(buckets') = PresentSlots(buckets) \cup {<<cursor[1], cursor[2]>>}
        /\ buckets'[cursor[1]][cursor[2]] = ent
    BY <1>8, <2>1, WriteSlot
  <2>3. SlotCount' = SlotCount
    BY <2>1, <2>2, CountMore DEF SlotCount
  <2>4. ~Dropped'
    BY <1>8, <2>2, AbsentAssumption DEF Dropped, AtCursor
  <2> QED
    BY <1>8, <2>3, <2>4 DEF CountCovers, StillOwed
<1>9. ASSUME NEW k \in Key, callback_sets_key(k)
      PROVE  CountCovers'
  <2>1. AtCursor \in Entry
    BY <1>9, CursorAllocated, KeysTyped DEF callback_sets_key, AtCursor
  <2>2. [AtCursor EXCEPT !.key = k] \in Entry
    BY <2>1 DEF Entry
  <2> QED
    BY <1>8, <1>9, <2>2 DEF callback_sets_key
<1>10. ASSUME NEW v \in Value, callback_sets_value(v)
       PROVE  CountCovers'
  <2>1. AtCursor \in Entry
    BY <1>10, CursorAllocated, KeysTyped DEF callback_sets_value, AtCursor
  <2>2. [AtCursor EXCEPT !.value = v] \in Entry
    BY <2>1 DEF Entry
  <2> QED
    BY <1>8, <1>10, <2>2 DEF callback_sets_value
<1>11. CASE callback_drops
  <2>1. /\ cursor[1] \in Bucket /\ cursor[2] \in PresentIn(buckets, cursor[1])
        /\ buckets \in Table
        /\ Traversing /\ ~Dropped
    BY <1>11, CursorAllocated DEF callback_drops
  <2> DEFINE b == cursor[1]
             e == cursor[2]
  <2>2. /\ PresentSlots(buckets') = PresentSlots(buckets) \ {<<b, e>>}
        /\ <<b, e>> \in PresentSlots(buckets)
        /\ buckets'[b][e] = Absent
    BY <1>11, <2>1, ClearSlot DEF callback_drops, WithoutSlot
  <2>3. SlotCount' = SlotCount - 1
    BY <2>2, CountLess DEF SlotCount
  <2>4. StillOwed = 0 /\ StillOwed' = 1
    BY <1>11, <2>1, <2>2 DEF callback_drops, StillOwed, Dropped, Traversing, AtCursor
  <2>5. SlotCount \in Nat /\ total_entries \in Int /\ total_entries' = total_entries
    BY <1>11, CountTyped DEF TypeOK, callback_drops
  <2> QED
    BY <2>3, <2>4, <2>5 DEF CountCovers
<1>12. ASSUME UNCHANGED buckets,
              cursor' = Idle \/ cursor' \in PresentSlots(buckets),
              total_entries' = total_entries - StillOwed
       PROVE  CountCovers'
  <2>1. ~Dropped'
    <3>1. CASE cursor' = Idle
      BY <3>1 DEF Dropped, Traversing
    <3>2. CASE cursor' \in PresentSlots(buckets)
      BY <1>12, <3>2 DEF Dropped, AtCursor, PresentSlots, PresentIn
    <3> QED
      BY <1>12, <3>1, <3>2
  <2>2. StillOwed' = 0 /\ SlotCount' = SlotCount
    BY <1>12, <2>1 DEF StillOwed, SlotCount
  <2>3. SlotCount \in Nat /\ StillOwed \in {0, 1} /\ total_entries \in Int
    BY CountTyped DEF TypeOK
  <2> QED
    BY <1>12, <2>2, <2>3 DEF CountCovers
<1>13. CASE ht_traverse
  <2>1. StillOwed = 0
    BY <1>13 DEF ht_traverse, StillOwed, Dropped
  <2>2. cursor' = Idle \/ cursor' \in PresentSlots(buckets)
    BY <1>13, AdvanceTo DEF ht_traverse
  <2> QED
    BY <1>12, <1>13, <2>1, <2>2 DEF ht_traverse, TypeOK
<1>14. ASSUME NEW c \in BOOLEAN, callback_returns(c)
       PROVE  CountCovers'
  <2>1. total_entries' = total_entries - StillOwed
    BY <1>14 DEF callback_returns, CountAfterVisit, StillOwed, TypeOK
  <2>2. cursor' = Idle \/ cursor' \in PresentSlots(buckets)
    BY <1>14, AdvanceTo DEF callback_returns
  <2> QED
    BY <1>12, <1>14, <2>1, <2>2 DEF callback_returns
<1> QED
  BY <1>2, <1>3, <1>4, <1>5, <1>6, <1>7, <1>9, <1>10, <1>11, <1>13, <1>14 DEF Next

LEMMA InitCountCovers == Init => CountCovers
<1> SUFFICES ASSUME Init PROVE CountCovers
  OBVIOUS
<1>1. PresentSlots(buckets) = {} /\ ~Dropped
  BY DEF Init, PresentSlots, PresentIn, NullEntries, Dropped, Traversing
<1> QED
  BY <1>1, FS_EmptySet DEF Init, CountCovers, SlotCount, StillOwed

(* However a client overwrites, inserts, rekeys and drops, during traversals *)
(* or between them, the buffer that ht_get_entries allocates is never        *)
(* overrun by the entries it copies.                                         *)
THEOREM EntriesFitBuffer == Spec => []BufferFits
<1>1. TypeOK /\ CountCovers => BufferFits
  BY CountTyped DEF CountCovers, BufferFits, SlotCount, TypeOK
<1> QED
  BY <1>1, InitTypeOK, NextTypeOK, InitCountCovers, NextCountCovers, PTL DEF Spec

-----------------------------------------------------------------------------
(* Keys.  Without rekeying an entry stays in the bucket of its key; without  *)
(* overwriting too, a put finds no slot with its key anywhere.               *)

KeyAt(t, s) == t[s[1]][s[2]].key

InOwnBucket(t)  == \A s \in PresentSlots(t) : bucket_idx(KeyAt(t, s)) = s[1]
OneSlotEach(t)  == \A s, r \in PresentSlots(t) : KeyAt(t, s) = KeyAt(t, r) => s = r

KeysPlaced ==
    /\ "rekey" \notin Client => InOwnBucket(buckets)
    /\ Client \subseteq {"insert"} => OneSlotEach(buckets)

LEMMA WriteKeepsPlaces ==
    ASSUME NEW t \in Table, NEW b \in Bucket,
           NEW e \in DOMAIN Allocated(t, b), NEW ent \in Entry
    PROVE  /\ InOwnBucket(t) /\ bucket_idx(ent.key) = b
                => InOwnBucket(Written(t, b, e, ent))
           /\ OneSlotEach(t)
              /\ (\A s \in PresentSlots(t) : s # <<b, e>> => KeyAt(t, s) # ent.key)
                => OneSlotEach(Written(t, b, e, ent))
<1> DEFINE u == Written(t, b, e, ent)
<1>1. /\ PresentSlots(u) = PresentSlots(t) \cup {<<b, e>>}
      /\ \A s \in PresentSlots(t) : s # <<b, e>> => u[s[1]][s[2]] = t[s[1]][s[2]]
      /\ u[b][e] = ent
  BY WriteSlot
<1> HIDE DEF u
<1>2. /\ KeyAt(u, <<b, e>>) = ent.key
      /\ \A s \in PresentSlots(t) : s # <<b, e>> => KeyAt(u, s) = KeyAt(t, s)
  BY <1>1 DEF KeyAt
<1>3. InOwnBucket(t) /\ bucket_idx(ent.key) = b => InOwnBucket(u)
  BY <1>1, <1>2 DEF InOwnBucket
<1>4. OneSlotEach(t) /\ (\A s \in PresentSlots(t) : s # <<b, e>> => KeyAt(t, s) # ent.key)
        => OneSlotEach(u)
  BY <1>1, <1>2 DEF OneSlotEach
<1> QED
  BY <1>3, <1>4 DEF u

LEMMA ClearKeepsPlaces ==
    ASSUME NEW t \in Table, NEW b \in Bucket, NEW e \in PresentIn(t, b)
    PROVE  /\ InOwnBucket(t) => InOwnBucket(Cleared(t, b, e))
           /\ OneSlotEach(t) => OneSlotEach(Cleared(t, b, e))
<1> DEFINE u == Cleared(t, b, e)
<1>1. WithoutSlot(t, b, e, u)
  BY ClearSlot
<1> HIDE DEF u
<1>2. \A s \in PresentSlots(u) : KeyAt(u, s) = KeyAt(t, s)
  BY <1>1 DEF KeyAt, WithoutSlot
<1>3. PresentSlots(u) \subseteq PresentSlots(t)
  BY <1>1 DEF WithoutSlot
<1>4. InOwnBucket(t) => InOwnBucket(u)
  BY <1>2, <1>3 DEF InOwnBucket
<1>5. OneSlotEach(t) => OneSlotEach(u)
  BY <1>2, <1>3 DEF OneSlotEach
<1> QED
  BY <1>4, <1>5 DEF u

(* A key no lookup finds has no slot, when every entry is in its own bucket. *)
LEMMA LookupFindsAll ==
    ASSUME NEW t \in Table, InOwnBucket(t), NEW s \in PresentSlots(t)
    PROVE  s[2] \in Lookup(t, KeyAt(t, s))
<1>1. s[2] \in PresentIn(t, s[1]) /\ t[s[1]][s[2]].key = KeyAt(t, s)
  BY DEF PresentSlots, KeyAt
<1>2. bucket_idx(KeyAt(t, s)) = s[1]
  BY DEF InOwnBucket
<1> QED
  BY <1>1, <1>2 DEF Lookup, Holding

(* Giving the entry of the running callback another value moves no key. *)
LEMMA NewValueEntry ==
    ASSUME TypeOK, NEW v \in Value, callback_sets_value(v)
    PROVE  \E ent \in Entry :
              /\ buckets' = Written(buckets, cursor[1], cursor[2], ent)
              /\ ent.key = AtCursor.key
              /\ ent.value = v
              /\ Traversing /\ ~Dropped
              /\ cursor[2] \in DOMAIN Allocated(buckets, cursor[1])
<1>1. Traversing /\ ~Dropped
  BY DEF callback_sets_value
<1>2. AtCursor \in Entry
  BY <1>1, CursorAllocated, KeysTyped DEF AtCursor
<1> DEFINE ent == [AtCursor EXCEPT !.value = v]
<1>3. ent \in Entry /\ ent.key = AtCursor.key /\ ent.value = v
  BY <1>2 DEF Entry
<1>4. buckets' = Written(buckets, cursor[1], cursor[2], ent)
  BY DEF callback_sets_value
<1>5. cursor[2] \in DOMAIN Allocated(buckets, cursor[1])
  BY <1>1, CursorAllocated DEF Allocated, FreshEntries
<1> QED
  BY <1>1, <1>3, <1>4, <1>5

LEMMA NextKeysPlaced ==
    ASSUME TypeOK, KeysPlaced, [Next]_vars
    PROVE  KeysPlaced'
<1> USE BucketExists
<1>0. buckets \in Table
  BY DEF TypeOK, Table
<1>1. ASSUME UNCHANGED buckets
      PROVE  KeysPlaced'
  BY <1>1 DEF KeysPlaced
<1>2. CASE ht_init
  <2>1. PresentSlots(buckets') = {}
    BY <1>2 DEF ht_init, PresentSlots, PresentIn, NullEntries
  <2> QED
    BY <2>1 DEF KeysPlaced, InOwnBucket, OneSlotEach
<1>3. ASSUME NEW k \in Key, NEW v \in Value, ht_put(k, v)
      PROVE  KeysPlaced'
  <2> DEFINE b == bucket_idx(k)
             ent == [key |-> k, value |-> v]
  <2>1. PICK e \in Slot :
           /\ e \in Usable(Allocated(buckets, b), k)
           /\ buckets' = Written(buckets, b, e, ent)
           /\ e \in DOMAIN Allocated(buckets, b)
    BY <1>3, PutWrites
  <2>2. ent \in Entry /\ ent.key = k /\ b \in Bucket
    BY DEF Entry
  <2>3. ASSUME "rekey" \notin Client
        PROVE  InOwnBucket(buckets')
    <3> HIDE DEF b, ent
    <3> QED
      BY <1>0, <2>1, <2>2, <2>3, WriteKeepsPlaces DEF KeysPlaced, b
  <2>4. ASSUME Client \subseteq {"insert"}
        PROVE  OneSlotEach(buckets')
    <3>1. "rekey" \notin Client /\ "overwrite" \notin Client
      BY <2>4
    <3>2. Lookup(buckets, k) = {} /\ InOwnBucket(buckets) /\ OneSlotEach(buckets)
      BY <1>3, <2>4, <3>1 DEF ht_put, MayPut, KeysPlaced
    <3>3. \A s \in PresentSlots(buckets) : KeyAt(buckets, s) # ent.key
      BY <1>0, <2>2, <3>2, LookupFindsAll
    <3> HIDE DEF b, ent
    <3> QED
      BY <1>0, <2>1, <2>2, <3>2, <3>3, WriteKeepsPlaces
  <2> QED
    BY <2>3, <2>4 DEF KeysPlaced
<1>4. ASSUME NEW k \in Key, ht_put_full(k) \/ ht_get(k) \/ ht_has_key(k)
      PROVE  KeysPlaced'
  BY <1>1, <1>4 DEF ht_put_full, ht_get, ht_has_key
<1>5. ASSUME NEW b \in Bucket, NEW e \in PresentIn(buckets, b),
             buckets' = Cleared(buckets, b, e)
      PROVE  KeysPlaced'
  BY <1>0, <1>5, ClearKeepsPlaces DEF KeysPlaced
<1>6. ASSUME NEW k \in Key, ht_delete(k)
      PROVE  KeysPlaced'
  <2>1. CASE UNCHANGED buckets
    BY <1>1, <2>1
  <2>2. ASSUME NEW e \in First(Lookup(buckets, k)),
               buckets' = Cleared(buckets, bucket_idx(k), e)
        PROVE  KeysPlaced'
    BY <1>5, <2>2, PickedSlots DEF Lookup, Holding
  <2> QED
    BY <1>6, <2>1, <2>2 DEF ht_delete
<1>7. ASSUME NEW k \in Key, callback_sets_key(k)
      PROVE  KeysPlaced'
  BY <1>7 DEF callback_sets_key, KeysPlaced
<1>8. ASSUME NEW v \in Value, callback_sets_value(v)
      PROVE  KeysPlaced'
  <2>1. PICK ent \in Entry :
           /\ buckets' = Written(buckets, cursor[1], cursor[2], ent)
           /\ ent.key = AtCursor.key
           /\ Traversing /\ ~Dropped
           /\ cursor[2] \in DOMAIN Allocated(buckets, cursor[1])
    BY <1>8, NewValueEntry
  <2>2. /\ cursor \in PresentSlots(buckets) /\ cursor = <<cursor[1], cursor[2]>>
        /\ cursor[1] \in Bucket
        /\ KeyAt(buckets, cursor) = ent.key
    BY <2>1, CursorAllocated DEF KeyAt, AtCursor
  <2>3. InOwnBucket(buckets) => bucket_idx(ent.key) = cursor[1]
    BY <2>2 DEF InOwnBucket
  <2>4. OneSlotEach(buckets) =>
           \A s \in PresentSlots(buckets) :
              s # <<cursor[1], cursor[2]>> => KeyAt(buckets, s) # ent.key
    BY <2>2 DEF OneSlotEach
  <2> QED
    BY <1>0, <2>1, <2>2, <2>3, <2>4, WriteKeepsPlaces DEF KeysPlaced
<1>9. CASE callback_drops
  BY <1>5, <1>9, CursorAllocated DEF callback_drops
<1> QED
  BY <1>1, <1>2, <1>3, <1>4, <1>6, <1>7, <1>8, <1>9
  DEF Next, vars, ht_deinit, ht_traverse, callback_returns

LEMMA InitKeysPlaced == Init => KeysPlaced
<1> SUFFICES ASSUME Init PROVE KeysPlaced
  OBVIOUS
<1>1. PresentSlots(buckets) = {}
  BY DEF Init, PresentSlots, PresentIn, NullEntries
<1> QED
  BY <1>1 DEF KeysPlaced, InOwnBucket, OneSlotEach

LEMMA Invariants == Spec => [](TypeOK /\ CountCovers /\ KeysPlaced)
BY InitTypeOK, NextTypeOK, InitCountCovers, NextCountCovers, InitKeysPlaced,
   NextKeysPlaced, PTL DEF Spec

(* A client that never changes the key of the entry it is shown finds every  *)
(* entry of the table by its key.                                            *)
THEOREM FindableWithoutRekeying ==
    ASSUME "rekey" \notin Client
    PROVE  Spec => []EveryEntryFindable
<1>1. ASSUME TypeOK, KeysPlaced
      PROVE  EveryEntryFindable
  <2>1. buckets \in Table /\ InOwnBucket(buckets)
    BY <1>1 DEF TypeOK, Table, KeysPlaced
  <2>2. \A s \in PresentSlots(buckets) :
           KeyAt(buckets, s) \in Key /\ Lookup(buckets, KeyAt(buckets, s)) # {}
    BY <2>1, LookupFindsAll, KeysTyped DEF KeyAt, Entry
  <2> QED
    BY <2>2 DEF EveryEntryFindable, Findable, KeysIn, KeyAt
<1> QED
  BY <1>1, Invariants, PTL

(* A client that only puts keys the table does not have never finds a key in *)
(* two slots, callbacks that insert included.                                *)
THEOREM UniqueWithFreshPuts ==
    ASSUME Client \subseteq {"insert"}
    PROVE  Spec => []UniqueKeys
<1>1. KeysPlaced => UniqueKeys
  BY DEF KeysPlaced, OneSlotEach, UniqueKeys, KeyAt
<1> QED
  BY <1>1, Invariants, PTL

(* Without overwriting, inserting and rekeying, every present slot but a     *)
(* dropped one is counted once and has a key of its own.                     *)
LEMMA CountsKeys ==
    ASSUME Client = {}, TypeOK, CountCovers, KeysPlaced
    PROVE  CountExact
<1>1. SUFFICES ASSUME ~Traversing
               PROVE  total_entries = Cardinality(KeysIn(buckets))
  BY DEF CountExact, ht_get_num_entries
<1>2. total_entries = Cardinality(PresentSlots(buckets))
  BY <1>1, CountTyped DEF CountCovers, SlotCount, StillOwed, Dropped, TypeOK
<1> DEFINE f == [s \in PresentSlots(buckets) |-> KeyAt(buckets, s)]
<1>3. OneSlotEach(buckets)
  BY DEF KeysPlaced
<1>4. f \in [PresentSlots(buckets) -> KeysIn(buckets)]
  BY DEF KeysIn, KeyAt
<1>5. \A s, r \in PresentSlots(buckets) : f[s] = f[r] => s = r
  BY <1>3 DEF OneSlotEach
<1>6. \A k \in KeysIn(buckets) : \E s \in PresentSlots(buckets) : f[s] = k
  BY DEF KeysIn, KeyAt
<1>7. f \in Bijection(PresentSlots(buckets), KeysIn(buckets))
  BY <1>4, <1>5, <1>6, Fun_IsBij
<1>8. ExistsBijection(PresentSlots(buckets), KeysIn(buckets))
  BY <1>7 DEF ExistsBijection
<1> QED
  BY <1>2, <1>8, FS_Bijection, PresentFinite

(* For a client like day13, which does none of the three, total_entries is   *)
(* the number of keys whenever no traversal is under way.                    *)
THEOREM CountIsExact ==
    ASSUME Client = {}
    PROVE  Spec => []CountExact
<1>1. TypeOK /\ CountCovers /\ KeysPlaced => CountExact
  BY CountsKeys
<1> QED
  BY <1>1, Invariants, PTL

-----------------------------------------------------------------------------
(* The table as a map.                                                       *)

MapLike(t) == t \in Table /\ InOwnBucket(t) /\ OneSlotEach(t)

LEMMA ContentsOf ==
    ASSUME NEW t, MapLike(t)
    PROVE  /\ DOMAIN Contents(t) = Findable(t)
           /\ \A k \in Key : k \in Findable(t) <=> Lookup(t, k) # {}
           /\ \A k \in Key : k \in Findable(t) <=>
                 \E s \in PresentSlots(t) : KeyAt(t, s) = k
           /\ \A s \in PresentSlots(t) :
                 /\ KeyAt(t, s) \in Findable(t)
                 /\ Contents(t)[KeyAt(t, s)] = t[s[1]][s[2]].value
<1> USE DEF MapLike
<1>1. DOMAIN Contents(t) = Findable(t)
  BY DEF Contents
<1>2. ASSUME NEW s \in PresentSlots(t)
      PROVE  /\ KeyAt(t, s) \in Findable(t)
             /\ Contents(t)[KeyAt(t, s)] = t[s[1]][s[2]].value
  <2> DEFINE k == KeyAt(t, s)
  <2>1. k \in Key /\ s[2] \in Lookup(t, k) /\ bucket_idx(k) = s[1]
    BY LookupFindsAll, KeysTyped DEF KeyAt, Entry, InOwnBucket
  <2>2. ASSUME NEW e \in Lookup(t, k)
        PROVE  e = s[2]
    <3>1. e \in PresentIn(t, s[1]) /\ t[s[1]][e].key = k
      BY <2>1 DEF Lookup, Holding
    <3>2. e \in Slot /\ s[1] \in Bucket
      <4>1. s[1] \in Bucket
        BY SlotIsPair DEF PresentSlots
      <4> QED
        BY <3>1, <4>1 DEF PresentIn, Table, Entries, NullEntries
    <3>3. <<s[1], e>> \in PresentSlots(t)
      BY <3>1, <3>2 DEF PresentSlots
    <3>4. KeyAt(t, <<s[1], e>>) = k
      BY <3>1 DEF KeyAt
    <3>5. <<s[1], e>> = s
      BY <3>3, <3>4 DEF OneSlotEach
    <3> QED
      BY <3>5
  <2>3. Lookup(t, k) = {s[2]}
    BY <2>1, <2>2
  <2>4. s[2] \in Int
    BY SlotIsPair DEF PresentSlots, Slot
  <2>5. First(Lookup(t, k)) = {s[2]}
    BY <2>3, <2>4 DEF First
  <2>6. (CHOOSE e \in First(Lookup(t, k)) : TRUE) = s[2]
    BY <2>5
  <2>7. k \in Findable(t) /\ ValueOf(t, k) = t[s[1]][s[2]].value
    BY <2>1, <2>6 DEF Findable, ValueOf
  <2> QED
    BY <2>7 DEF Contents
<1>3. ASSUME NEW k \in Key, Lookup(t, k) # {}
      PROVE  \E s \in PresentSlots(t) : KeyAt(t, s) = k
  <2>1. PICK e : e \in PresentIn(t, bucket_idx(k)) /\ t[bucket_idx(k)][e].key = k
    BY <1>3 DEF Lookup, Holding
  <2>2. bucket_idx(k) \in Bucket /\ e \in Slot
    BY <2>1, BucketExists DEF PresentIn, Table, Entries, NullEntries
  <2>3. <<bucket_idx(k), e>> \in PresentSlots(t)
    BY <2>1, <2>2 DEF PresentSlots
  <2> QED
    BY <2>1, <2>3 DEF KeyAt
<1>4. \A k \in Key : k \in Findable(t) <=> Lookup(t, k) # {}
  BY DEF Findable
<1> QED
  BY <1>1, <1>2, <1>3, <1>4

(* Writing an entry gives its key that value and no other key another; the   *)
(* slot it overwrites, if any, held the same key.                            *)
LEMMA WriteIsMapUpdate ==
    ASSUME NEW t, MapLike(t), NEW b \in Bucket,
           NEW e \in DOMAIN Allocated(t, b), NEW ent \in Entry,
           <<b, e>> \in PresentSlots(t) => KeyAt(t, <<b, e>>) = ent.key,
           MapLike(Written(t, b, e, ent))
    PROVE  Contents(Written(t, b, e, ent)) =
              [j \in DOMAIN Contents(t) \cup {ent.key} |->
                  IF j = ent.key THEN ent.value ELSE Contents(t)[j]]
<1> DEFINE u == Written(t, b, e, ent)
<1>1. /\ PresentSlots(u) = PresentSlots(t) \cup {<<b, e>>}
      /\ \A s \in PresentSlots(t) : s # <<b, e>> => u[s[1]][s[2]] = t[s[1]][s[2]]
      /\ u[b][e] = ent
  BY WriteSlot DEF MapLike
<1> HIDE DEF u
<1>2. /\ KeyAt(u, <<b, e>>) = ent.key
      /\ \A s \in PresentSlots(t) : s # <<b, e>> => KeyAt(u, s) = KeyAt(t, s)
  BY <1>1 DEF KeyAt
<1>3. ent.key \in Key
  BY DEF Entry
<1>4. MapLike(u)
  BY DEF u
<1>5. Findable(u) = Findable(t) \cup {ent.key}
  <2>1. \A k \in Key : (\E s \in PresentSlots(u) : KeyAt(u, s) = k)
           <=> k = ent.key \/ \E s \in PresentSlots(t) : KeyAt(t, s) = k
    BY <1>1, <1>2
  <2>2. Findable(u) \subseteq Key /\ Findable(t) \subseteq Key
    BY DEF Findable
  <2> QED
    BY <1>3, <1>4, <2>1, <2>2, ContentsOf
<1>6. ASSUME NEW k \in Findable(u)
      PROVE  Contents(u)[k] = IF k = ent.key THEN ent.value ELSE Contents(t)[k]
  <2>1. CASE k = ent.key
    <3>1. Contents(u)[KeyAt(u, <<b, e>>)] = u[<<b, e>>[1]][<<b, e>>[2]].value
      BY <1>1, <1>4, ContentsOf
    <3> QED
      BY <1>1, <1>2, <2>1, <3>1
  <2>2. CASE k # ent.key
    <3>1. k \in Findable(t) /\ k \in Key
      BY <1>5, <2>2 DEF Findable
    <3>2. PICK s \in PresentSlots(t) : KeyAt(t, s) = k
      BY <3>1, ContentsOf
    <3>3. s # <<b, e>> /\ s \in PresentSlots(u)
      BY <1>1, <2>2, <3>2
    <3>4. KeyAt(u, s) = k /\ u[s[1]][s[2]] = t[s[1]][s[2]]
      BY <1>1, <1>2, <3>2, <3>3
    <3>5. Contents(u)[k] = u[s[1]][s[2]].value
      BY <1>4, <3>3, <3>4, ContentsOf
    <3>6. Contents(t)[k] = t[s[1]][s[2]].value
      BY <3>2, ContentsOf
    <3> QED
      BY <2>2, <3>4, <3>5, <3>6
  <2> QED
    BY <2>1, <2>2
<1>7. Contents(u) = [j \in Findable(t) \cup {ent.key} |->
                        IF j = ent.key THEN ent.value ELSE Contents(t)[j]]
  <2>1. Contents(u) = [j \in Findable(u) |-> Contents(u)[j]]
    BY DEF Contents
  <2> QED
    BY <1>5, <1>6, <2>1
<1>8. DOMAIN Contents(t) = Findable(t)
  BY ContentsOf
<1> QED
  BY <1>7, <1>8 DEF u

(* Clearing a slot takes its key out of the map. *)
LEMMA ClearIsMapRemoval ==
    ASSUME NEW t, MapLike(t), NEW b \in Bucket, NEW e \in PresentIn(t, b),
           MapLike(Cleared(t, b, e))
    PROVE  Contents(Cleared(t, b, e)) =
              [j \in DOMAIN Contents(t) \ {KeyAt(t, <<b, e>>)} |-> Contents(t)[j]]
<1> DEFINE u == Cleared(t, b, e)
           k0 == KeyAt(t, <<b, e>>)
<1>1. /\ PresentSlots(u) = PresentSlots(t) \ {<<b, e>>}
      /\ \A s \in PresentSlots(u) : u[s[1]][s[2]] = t[s[1]][s[2]]
      /\ <<b, e>> \in PresentSlots(t)
  BY ClearSlot DEF MapLike, WithoutSlot
<1>2. MapLike(u)
  OBVIOUS
<1> HIDE DEF u, k0
<1>3. \A s \in PresentSlots(u) : KeyAt(u, s) = KeyAt(t, s)
  BY <1>1 DEF KeyAt
<1>4. \A s \in PresentSlots(t) : KeyAt(t, s) = k0 <=> s = <<b, e>>
  BY <1>1 DEF MapLike, OneSlotEach, k0
<1>5. Findable(u) = Findable(t) \ {k0}
  <2>1. \A k \in Key : (\E s \in PresentSlots(u) : KeyAt(u, s) = k)
           <=> k # k0 /\ \E s \in PresentSlots(t) : KeyAt(t, s) = k
    BY <1>1, <1>3, <1>4
  <2>2. Findable(u) \subseteq Key /\ Findable(t) \subseteq Key
    BY DEF Findable
  <2> QED
    BY <1>2, <2>1, <2>2, ContentsOf
<1>6. ASSUME NEW k \in Findable(u)
      PROVE  Contents(u)[k] = Contents(t)[k]
  <2>1. k \in Key
    BY DEF Findable
  <2>2. PICK s \in PresentSlots(u) : KeyAt(u, s) = k
    BY <1>2, <2>1, ContentsOf
  <2>3. s \in PresentSlots(t) /\ KeyAt(t, s) = k /\ u[s[1]][s[2]] = t[s[1]][s[2]]
    BY <1>1, <1>3, <2>2
  <2>4. Contents(u)[k] = u[s[1]][s[2]].value
    BY <1>2, <2>2, ContentsOf
  <2>5. Contents(t)[k] = t[s[1]][s[2]].value
    BY <2>3, ContentsOf
  <2> QED
    BY <2>3, <2>4, <2>5
<1>7. Contents(u) = [j \in Findable(t) \ {k0} |-> Contents(t)[j]]
  <2>1. Contents(u) = [j \in Findable(u) |-> Contents(u)[j]]
    BY DEF Contents
  <2> QED
    BY <1>5, <1>6, <2>1
<1>8. DOMAIN Contents(t) = Findable(t)
  BY ContentsOf
<1> QED
  BY <1>7, <1>8 DEF u, k0

(* Each operation is the map's, or changes nothing the map shows. *)
LEMMA StepIsMapStep ==
    ASSUME Client \subseteq {"insert"},
           TypeOK, KeysPlaced, KeysPlaced', TypeOK', [Next]_vars
    PROVE  [M!Next]_<<Contents(buckets), ret>>
<1>0. MapLike(buckets) /\ MapLike(buckets')
  BY DEF TypeOK, KeysPlaced, MapLike, Table
<1>1. ASSUME UNCHANGED <<buckets, ret>>
      PROVE  UNCHANGED <<Contents(buckets), ret>>
  BY <1>1
<1>2. CASE ht_init
  <2>1. PresentSlots(buckets') = {}
    BY <1>2 DEF ht_init, PresentSlots, PresentIn, NullEntries
  <2>2. Findable(buckets') = {}
    BY <1>0, <2>1, ContentsOf DEF Findable
  <2>3. Contents(buckets') = [k \in {} |-> NoValue]
    BY <2>2 DEF Contents
  <2>4. M!Reset
    BY <1>2, <2>3 DEF ht_init, M!Reset, Missing, M!Missing
  <2> QED
    BY <2>4 DEF M!Next
<1>3. ASSUME NEW k \in Key, NEW v \in Value, ht_put(k, v)
      PROVE  M!Next
  <2> DEFINE b == bucket_idx(k)
             ent == [key |-> k, value |-> v]
  <2>1. PICK e \in Slot :
           /\ e \in Usable(Allocated(buckets, b), k)
           /\ buckets' = Written(buckets, b, e, ent)
           /\ e \in DOMAIN Allocated(buckets, b)
    BY <1>3, PutWrites
  <2>2. ent \in Entry /\ ent.key = k /\ ent.value = v /\ b \in Bucket
    BY BucketExists DEF Entry
  <2>3. Lookup(buckets, k) = {}
    BY <1>3 DEF ht_put, MayPut
  <2>4. <<b, e>> \notin PresentSlots(buckets)
    BY <2>1, <2>3, FreshPutSlot
  <2> HIDE DEF b, ent
  <2>5. Contents(buckets') = [j \in DOMAIN Contents(buckets) \cup {k} |->
                                 IF j = k THEN v ELSE Contents(buckets)[j]]
    <3>1. MapLike(Written(buckets, b, e, ent))
      BY <1>0, <2>1
    <3>2. Contents(Written(buckets, b, e, ent)) =
             [j \in DOMAIN Contents(buckets) \cup {ent.key} |->
                 IF j = ent.key THEN ent.value ELSE Contents(buckets)[j]]
      <4>1. /\ MapLike(buckets) /\ b \in Bucket /\ ent \in Entry
            /\ e \in DOMAIN Allocated(buckets, b)
            /\ <<b, e>> \in PresentSlots(buckets)
                   => KeyAt(buckets, <<b, e>>) = ent.key
        BY <1>0, <2>1, <2>2, <2>4
      <4> QED
        BY <4>1, <3>1, WriteIsMapUpdate, SMTT(30)
    <3> QED
      BY <2>1, <2>2, <3>2
  <2>6. M!Put(k, v)
    BY <1>3, <2>5 DEF ht_put, M!Put, M!With, Missing, M!Missing
  <2> QED
    BY <2>6 DEF M!Next
<1>4. ASSUME NEW k \in Key, ht_get(k)
      PROVE  M!Next
  <2>1. k \in DOMAIN Contents(buckets) <=> Lookup(buckets, k) # {}
    BY <1>0, ContentsOf
  <2>2. ASSUME NEW e \in First(Lookup(buckets, k))
        PROVE  /\ k \in DOMAIN Contents(buckets)
               /\ buckets[bucket_idx(k)][e].value = Contents(buckets)[k]
    <3>1. e \in PresentIn(buckets, bucket_idx(k)) /\ buckets[bucket_idx(k)][e].key = k
      BY PickedSlots DEF Lookup, Holding
    <3>2. bucket_idx(k) \in Bucket /\ e \in Slot
      BY <1>0, <3>1, BucketExists DEF MapLike, PresentIn, Table, Entries, NullEntries
    <3>3. <<bucket_idx(k), e>> \in PresentSlots(buckets)
      BY <3>1, <3>2 DEF PresentSlots
    <3>4. KeyAt(buckets, <<bucket_idx(k), e>>) = k
      BY <3>1 DEF KeyAt
    <3> QED
      BY <1>0, <3>3, <3>4, ContentsOf
  <2>3. ret' = IF k \in DOMAIN Contents(buckets) THEN Found(Contents(buckets)[k])
               ELSE Missing
    BY <1>4, <2>1, <2>2 DEF ht_get
  <2>4. M!Get(k)
    BY <1>4, <2>3 DEF ht_get, M!Get, Found, M!Found, Missing, M!Missing
  <2> QED
    BY <2>4 DEF M!Next
<1>5. ASSUME NEW k \in Key, ht_has_key(k)
      PROVE  M!Next
  <2>1. k \in DOMAIN Contents(buckets) <=> Lookup(buckets, k) # {}
    BY <1>0, ContentsOf
  <2>2. M!HasKey(k)
    BY <1>5, <2>1 DEF ht_has_key, M!HasKey, Present, M!Present, Missing, M!Missing
  <2> QED
    BY <2>2 DEF M!Next
<1>6. ASSUME NEW k \in Key, ht_delete(k)
      PROVE  M!Next
  <2>1. k \in DOMAIN Contents(buckets) <=> Lookup(buckets, k) # {}
    BY <1>0, ContentsOf
  <2>2. CASE Lookup(buckets, k) = {} /\ ret' = Missing /\ UNCHANGED buckets
    <3>1. M!Without(k) = Contents(buckets)
      BY <2>1, <2>2 DEF M!Without, Contents
    <3>2. M!Delete(k)
      BY <2>1, <2>2, <3>1 DEF M!Delete, Missing, M!Missing
    <3> QED
      BY <3>2 DEF M!Next
  <2>3. ASSUME NEW e \in First(Lookup(buckets, k)),
               buckets' = Cleared(buckets, bucket_idx(k), e),
               ret' = Present
        PROVE  M!Next
    <3>1. /\ e \in PresentIn(buckets, bucket_idx(k))
          /\ KeyAt(buckets, <<bucket_idx(k), e>>) = k
          /\ e \in Lookup(buckets, k)
      BY PickedSlots DEF Lookup, Holding, KeyAt
    <3>2. Contents(buckets') = [j \in DOMAIN Contents(buckets) \ {k} |-> Contents(buckets)[j]]
      BY <1>0, <2>3, <3>1, BucketExists, ClearIsMapRemoval
    <3>3. M!Delete(k)
      BY <2>1, <2>3, <3>1, <3>2 DEF M!Delete, M!Without, Present, M!Present
    <3> QED
      BY <3>3 DEF M!Next
  <2> QED
    BY <1>6, <2>2, <2>3 DEF ht_delete
<1>7. ASSUME NEW v \in Value, callback_sets_value(v)
      PROVE  M!Next
  <2>1. PICK ent \in Entry :
           /\ buckets' = Written(buckets, cursor[1], cursor[2], ent)
           /\ ent.key = AtCursor.key
           /\ ent.value = v
           /\ Traversing /\ ~Dropped
           /\ cursor[2] \in DOMAIN Allocated(buckets, cursor[1])
    BY <1>7, NewValueEntry
  <2>2. /\ cursor \in PresentSlots(buckets) /\ cursor = <<cursor[1], cursor[2]>>
        /\ cursor[1] \in Bucket
        /\ KeyAt(buckets, cursor) = ent.key
    BY <2>1, CursorAllocated DEF KeyAt, AtCursor
  <2>3. ent.key \in DOMAIN Contents(buckets) /\ ent.key \in Key
    BY <1>0, <2>2, ContentsOf DEF Entry
  <2>4. Contents(buckets') = [j \in DOMAIN Contents(buckets) \cup {ent.key} |->
                                 IF j = ent.key THEN v ELSE Contents(buckets)[j]]
    BY <1>0, <2>1, <2>2, WriteIsMapUpdate
  <2>5. M!SetVisited(ent.key, v)
    BY <1>7, <2>3, <2>4 DEF callback_sets_value, M!SetVisited, M!With
  <2> QED
    BY <2>3, <2>5 DEF M!Next
<1>8. CASE callback_drops
  <2>1. /\ Traversing /\ ~Dropped
        /\ buckets' = Cleared(buckets, cursor[1], cursor[2])
        /\ UNCHANGED ret
    BY <1>8 DEF callback_drops
  <2>2. /\ cursor[2] \in PresentIn(buckets, cursor[1])
        /\ cursor[1] \in Bucket
        /\ cursor \in PresentSlots(buckets)
    BY <2>1, CursorAllocated
  <2> DEFINE k == KeyAt(buckets, <<cursor[1], cursor[2]>>)
  <2>3. k \in Key
    BY <1>0, <2>2, KeysTyped DEF KeyAt, Entry, MapLike
  <2>4. Contents(buckets') = [j \in DOMAIN Contents(buckets) \ {k} |-> Contents(buckets)[j]]
    <3>1. MapLike(Cleared(buckets, cursor[1], cursor[2]))
      BY <1>0, <2>1
    <3>2. Contents(Cleared(buckets, cursor[1], cursor[2]))
             = [j \in DOMAIN Contents(buckets) \ {KeyAt(buckets, <<cursor[1], cursor[2]>>)}
                   |-> Contents(buckets)[j]]
      BY <1>0, <2>2, <3>1, ClearIsMapRemoval
    <3> QED
      BY <2>1, <3>2
  <2> HIDE DEF k
  <2>5. M!DropVisited(k)
    BY <2>1, <2>4 DEF M!DropVisited, M!Without
  <2> QED
    BY <2>3, <2>5 DEF M!Next
<1>9. ASSUME NEW k \in Key, callback_sets_key(k)
      PROVE  FALSE
  BY <1>9 DEF callback_sets_key
<1>10. CASE UNCHANGED <<buckets, ret>>
  BY <1>1, <1>10
<1>11. \/ UNCHANGED <<buckets, ret>>
       \/ ht_init
       \/ \E k \in Key :
             \/ \E v \in Value : ht_put(k, v)
             \/ ht_get(k)
             \/ ht_has_key(k)
             \/ ht_delete(k)
             \/ callback_sets_key(k)
       \/ \E v \in Value : callback_sets_value(v)
       \/ callback_drops
  BY DEF Next, vars, ht_deinit, ht_traverse, callback_returns, ht_put_full
<1> QED
  BY <1>2, <1>3, <1>4, <1>5, <1>6, <1>7, <1>8, <1>9, <1>10, <1>11

(* For a client that neither rekeys nor overwrites, the table is the map     *)
(* that hashtable.h promises: every lookup, deletion and traversal answers   *)
(* as IntMap does, whatever the hash function and the order of the slots.    *)
THEOREM TableIsAMap ==
    ASSUME Client \subseteq {"insert"}
    PROVE  Spec => IsAMap
<1>1. Init => M!Init
  <2> SUFFICES ASSUME Init PROVE M!Init
    OBVIOUS
  <2>1. \A b \in Bucket : PresentIn(buckets, b) = {}
    BY DEF Init, PresentIn, NullEntries
  <2>2. Findable(buckets) = {}
    BY <2>1, BucketExists DEF Findable, Lookup, Holding
  <2>3. Contents(buckets) = [k \in {} |-> NoValue]
    BY <2>2 DEF Contents
  <2> QED
    BY <2>3 DEF Init, M!Init, Missing, M!Missing
<1>2. TypeOK /\ KeysPlaced /\ TypeOK' /\ KeysPlaced' /\ [Next]_vars
        => [M!Next]_<<Contents(buckets), ret>>
  BY StepIsMapStep
<1> QED
  BY <1>1, <1>2, Invariants, PTL DEF Spec, IsAMap, M!Spec

-----------------------------------------------------------------------------
(* The traversal.                                                            *)

(* The invariant: every key the callback has still to be shown is ahead of   *)
(* the cursor in some slot, and a traversal that is over owes nothing.       *)
StillAhead(t, s, key) == \E r \in PresentSlots(t) \cap After(s) : KeyAt(t, r) = key

TodoAhead ==
    /\ ~Traversing => todo = {}
    /\ Traversing => \A key \in todo : StillAhead(buckets, cursor, key)

-----------------------------------------------------------------------------
(* The order of the two loops.                                               *)

(* A set of numbers that is not empty has a least one. *)
LEMMA LeastNumber ==
    ASSUME NEW S \in SUBSET Nat, S # {}
    PROVE  \E n \in S : \A m \in S : n <= m
<1>1. PICK n \in S : \A m \in S : <<m, n>> \notin OpToRel(<, Nat)
  BY NatLessThanWellFounded, WFMin
<1>2. \A m \in S : ~ (m < n)
  BY <1>1 DEF OpToRel
<1> QED
  BY <1>2

(* After is the strict lexicographic order on slots; Idle is before them all. *)
LEMMA AfterOrder ==
    /\ \A s : After(s) \subseteq Bucket \X Slot
    /\ Bucket \X Slot \subseteq After(Idle)
    /\ \A s \in Bucket \X Slot : s \notin After(s)
    /\ \A s, r \in Bucket \X Slot : r \in After(s) => After(r) \subseteq After(s)
    /\ \A s, r \in Bucket \X Slot : r = s \/ r \in After(s) \/ s \in After(r)
<1> USE DEF After
<1>1. \A s \in Bucket \X Slot : s[1] \in Nat /\ s[2] \in Nat
  BY SlotIsPair, SizeAssumption DEF Bucket, Slot
<1>2. Bucket \X Slot \subseteq After(Idle)
  BY <1>1 DEF Idle
<1>3. \A s \in Bucket \X Slot : s \notin After(s)
  BY <1>1
<1>4. ASSUME NEW s \in Bucket \X Slot, NEW r \in Bucket \X Slot, r \in After(s)
      PROVE  After(r) \subseteq After(s)
  BY <1>1, <1>4
<1>5. ASSUME NEW s \in Bucket \X Slot, NEW r \in Bucket \X Slot
      PROVE  r = s \/ r \in After(s) \/ s \in After(r)
  <2>1. r[1] = s[1] /\ r[2] = s[2] => r = s
    BY SlotIsPair
  <2> QED
    BY <1>1, <2>1
<1> QED
  BY <1>2, <1>3, <1>4, <1>5

(* The loops stop at the next present slot whenever one is ahead. *)
LEMMA NextIsLeast ==
    ASSUME NEW t, NEW s, PresentSlots(t) \cap After(s) # {}
    PROVE  NextPresent(t, s) # {}
<1> DEFINE P  == PresentSlots(t) \cap After(s)
           Bs == {q[1] : q \in P}
<1>1. P \subseteq Bucket \X Slot
  BY DEF PresentSlots
<1>2. \A q \in P : q[1] \in Nat /\ q[2] \in Nat
  BY <1>1, SlotIsPair, SizeAssumption DEF Bucket, Slot
<1>3. P # {}
  OBVIOUS
<1> HIDE DEF P
<1>4. PICK b \in Bs : \A c \in Bs : b <= c
  <2>1. Bs \in SUBSET Nat /\ Bs # {}
    BY <1>2, <1>3
  <2> QED
    BY <2>1, LeastNumber
<1> DEFINE Es == {q[2] : q \in {r \in P : r[1] = b}}
<1>5. PICK e \in Es : \A f \in Es : e <= f
  <2>1. Es \in SUBSET Nat /\ Es # {}
    BY <1>2, <1>4
  <2> QED
    BY <2>1, LeastNumber
<1>6. PICK r \in P : r[1] = b /\ r[2] = e
  BY <1>5
<1>7. ASSUME NEW q \in P
      PROVE  q = r \/ q \in After(r)
  <2>1. b <= q[1] /\ (q[1] = b => e <= q[2])
    BY <1>4, <1>5
  <2>2. q[1] = r[1] /\ q[2] = r[2] => q = r
    BY <1>1, <1>6, SlotIsPair
  <2>3. q \in Bucket \X Slot
    BY <1>1
  <2> QED
    BY <1>2, <1>6, <2>1, <2>2, <2>3 DEF After
<1> QED
  BY <1>6, <1>7 DEF NextPresent, P

-----------------------------------------------------------------------------
(* What the steps of a traversal, and the client's in between, do to todo.   *)

(* Going on from slot s: the key that is shown is struck off, and the others *)
(* are ahead of the slot it was found in.                                    *)
LEMMA AdvanceKeepsAhead ==
    ASSUME TypeOK, NEW s, NEW left, Advance(s, left), UNCHANGED buckets,
           \A key \in left : StillAhead(buckets, s, key)
    PROVE  TodoAhead'
<1>1. ASSUME NEW r \in NextPresent(buckets, s), cursor' = r,
             todo' = left \ {buckets[r[1]][r[2]].key}
      PROVE  TodoAhead'
  <2>1. r # Idle
    BY IdleIsNoSlot DEF NextPresent, PresentSlots
  <2>2. ASSUME NEW key \in left, key # KeyAt(buckets, r)
        PROVE  StillAhead(buckets, r, key)
    <3>1. PICK q \in PresentSlots(buckets) \cap After(s) : KeyAt(buckets, q) = key
      BY DEF StillAhead
    <3>2. q \in After(r)
      BY <2>2, <3>1 DEF NextPresent
    <3> QED
      BY <3>1, <3>2 DEF StillAhead
  <2> QED
    BY <1>1, <2>1, <2>2 DEF TodoAhead, Traversing, KeyAt
<1>2. CASE NextPresent(buckets, s) = {} /\ cursor' = Idle /\ todo' = left
  <2>1. left = {}
    BY <1>2, NextIsLeast DEF StillAhead
  <2> QED
    BY <1>2, <2>1 DEF TodoAhead, Traversing
<1> QED
  BY <1>1, <1>2 DEF Advance

(* A table in which the slots ahead of the cursor keep their keys. *)
KeysKeptAhead(t, u, s) ==
    \A r \in PresentSlots(t) \cap After(s) :
        r \in PresentSlots(u) /\ KeyAt(u, r) = KeyAt(t, r)

LEMMA KeptAhead ==
    ASSUME TodoAhead, KeysKeptAhead(buckets, buckets', cursor), UNCHANGED <<cursor, todo>>
    PROVE  TodoAhead'
BY DEF TodoAhead, KeysKeptAhead, StillAhead, Traversing

(* What a callback writes is not ahead of it: it is the slot it was given. *)
LEMMA CallbackWritesBehind ==
    ASSUME TypeOK, Traversing, ~Dropped, NEW ent \in Entry
    PROVE  KeysKeptAhead(buckets, Written(buckets, cursor[1], cursor[2], ent), cursor)
<1>1. /\ cursor[1] \in Bucket /\ cursor[2] \in DOMAIN Allocated(buckets, cursor[1])
      /\ buckets \in Table
      /\ cursor \in Bucket \X Slot /\ cursor = <<cursor[1], cursor[2]>>
  BY CursorAllocated DEF Allocated, FreshEntries
<1> DEFINE u == Written(buckets, cursor[1], cursor[2], ent)
<1>2. /\ PresentSlots(buckets) \subseteq PresentSlots(u)
      /\ \A s \in PresentSlots(buckets) :
            s # cursor => u[s[1]][s[2]] = buckets[s[1]][s[2]]
  BY <1>1, WriteSlot
<1> HIDE DEF u
<1>3. \A s \in PresentSlots(buckets) \cap After(cursor) : s # cursor
  BY <1>1, AfterOrder
<1>4. KeysKeptAhead(buckets, u, cursor)
  BY <1>2, <1>3 DEF KeysKeptAhead, KeyAt
<1> QED
  BY <1>4 DEF u

LEMMA InitTodoAhead == Init => TodoAhead
BY DEF Init, TodoAhead, Traversing

LEMMA NextTodoAhead ==
    ASSUME TypeOK, TodoAhead, [Next]_vars
    PROVE  TodoAhead'
<1>0. buckets \in Table
  BY DEF TypeOK, Table
<1>1. ASSUME UNCHANGED <<buckets, cursor, todo>>
      PROVE  TodoAhead'
  BY <1>1 DEF TodoAhead, StillAhead, Traversing
<1>2. CASE UNCHANGED vars
  BY <1>1, <1>2 DEF vars
<1>3. CASE ht_init
  BY <1>3 DEF ht_init, TypeOK, TodoAhead, Traversing
<1>4. CASE ht_deinit
  BY <1>1, <1>4 DEF ht_deinit
<1>5. ASSUME NEW k \in Key, NEW v \in Value, ht_put(k, v)
      PROVE  TodoAhead'
  <2> DEFINE b   == bucket_idx(k)
             ent == [key |-> k, value |-> v]
  <2>1. PICK e \in Slot :
           /\ e \in Usable(Allocated(buckets, b), k)
           /\ buckets' = Written(buckets, b, e, ent)
           /\ e \in DOMAIN Allocated(buckets, b)
    BY <1>5, PutWrites
  <2>2. ent \in Entry /\ ent.key = k /\ b \in Bucket
    BY BucketExists DEF Entry
  <2>3. <<b, e>> \in PresentSlots(buckets) => KeyAt(buckets, <<b, e>>) = k
    <3>1. SUFFICES ASSUME <<b, e>> \in PresentSlots(buckets)
                   PROVE  buckets[b][e].key = k
      BY DEF KeyAt
    <3>2. e \in PresentIn(buckets, b)
      BY <3>1 DEF PresentSlots
    <3>3. buckets[b] # NullEntries /\ buckets[b][e] # Absent
      BY <3>2 DEF PresentIn, NullEntries
    <3> QED
      BY <2>1, <3>3 DEF Usable, Allocated
  <2> HIDE DEF b, ent
  <2>4. /\ PresentSlots(buckets) \subseteq PresentSlots(buckets')
        /\ \A s \in PresentSlots(buckets) :
              s # <<b, e>> => buckets'[s[1]][s[2]] = buckets[s[1]][s[2]]
        /\ buckets'[b][e] = ent
    BY <1>0, <2>1, <2>2, WriteSlot
  <2>5. \A s \in PresentSlots(buckets) : KeyAt(buckets', s) = KeyAt(buckets, s)
    BY <2>2, <2>3, <2>4 DEF KeyAt
  <2>6. KeysKeptAhead(buckets, buckets', cursor)
    BY <2>4, <2>5 DEF KeysKeptAhead
  <2> QED
    BY <1>5, <2>6, KeptAhead DEF ht_put
<1>6. ASSUME NEW k \in Key, ht_put_full(k) \/ ht_get(k) \/ ht_has_key(k)
      PROVE  TodoAhead'
  BY <1>1, <1>6 DEF ht_put_full, ht_get, ht_has_key
<1>7. ASSUME NEW k \in Key, ht_delete(k)
      PROVE  TodoAhead'
  <2>1. CASE UNCHANGED <<buckets, total_entries, todo>>
    BY <1>1, <1>7, <2>1 DEF ht_delete
  <2>2. ASSUME NEW e \in First(Lookup(buckets, k)),
               buckets' = Cleared(buckets, bucket_idx(k), e),
               todo' = todo \ {k}
        PROVE  TodoAhead'
    <3> DEFINE b == bucket_idx(k)
    <3>1. /\ e \in PresentIn(buckets, b) /\ b \in Bucket
          /\ KeyAt(buckets, <<b, e>>) = k
      BY PickedSlots, BucketExists DEF Lookup, Holding, KeyAt
    <3>2. WithoutSlot(buckets, b, e, buckets')
      BY <1>0, <2>2, <3>1, ClearSlot
    <3> HIDE DEF b
    <3>3. \A r \in PresentSlots(buckets) :
             KeyAt(buckets, r) # k =>
                r \in PresentSlots(buckets') /\ KeyAt(buckets', r) = KeyAt(buckets, r)
      BY <3>1, <3>2 DEF WithoutSlot, KeyAt
    <3>4. \A key : key # k /\ StillAhead(buckets, cursor, key)
                     => StillAhead(buckets', cursor, key)
      BY <3>3 DEF StillAhead
    <3>5. cursor' = cursor
      BY <1>7 DEF ht_delete
    <3> QED
      BY <2>2, <3>4, <3>5 DEF TodoAhead, Traversing
  <2> QED
    BY <1>7, <2>1, <2>2 DEF ht_delete
<1>8. ASSUME NEW k \in Key, callback_sets_key(k)
      PROVE  TodoAhead'
  <2>1. AtCursor \in Entry
    BY <1>8, CursorAllocated, KeysTyped DEF callback_sets_key, AtCursor
  <2>2. [AtCursor EXCEPT !.key = k] \in Entry
    BY <2>1 DEF Entry
  <2>3. KeysKeptAhead(buckets, buckets', cursor)
    BY <1>8, <2>2, CallbackWritesBehind DEF callback_sets_key
  <2> QED
    BY <1>8, <2>3, KeptAhead DEF callback_sets_key
<1>9. ASSUME NEW v \in Value, callback_sets_value(v)
      PROVE  TodoAhead'
  <2>1. AtCursor \in Entry
    BY <1>9, CursorAllocated, KeysTyped DEF callback_sets_value, AtCursor
  <2>2. [AtCursor EXCEPT !.value = v] \in Entry
    BY <2>1 DEF Entry
  <2>3. KeysKeptAhead(buckets, buckets', cursor)
    BY <1>9, <2>2, CallbackWritesBehind DEF callback_sets_value
  <2> QED
    BY <1>9, <2>3, KeptAhead DEF callback_sets_value
<1>10. CASE callback_drops
  <2>1. /\ cursor[1] \in Bucket /\ cursor[2] \in PresentIn(buckets, cursor[1])
        /\ cursor \in Bucket \X Slot /\ cursor = <<cursor[1], cursor[2]>>
    BY <1>10, CursorAllocated DEF callback_drops
  <2>2. WithoutSlot(buckets, cursor[1], cursor[2], buckets')
    BY <1>0, <1>10, <2>1, ClearSlot DEF callback_drops
  <2>3. \A r \in PresentSlots(buckets) \cap After(cursor) : r # cursor
    BY <2>1, AfterOrder
  <2>4. KeysKeptAhead(buckets, buckets', cursor)
    BY <2>1, <2>2, <2>3 DEF WithoutSlot, KeysKeptAhead, KeyAt
  <2> QED
    BY <1>10, <2>4, KeptAhead DEF callback_drops
<1>11. CASE ht_traverse
  <2>1. \A key \in KeysIn(buckets) : StillAhead(buckets, Idle, key)
    BY AfterOrder DEF KeysIn, StillAhead, KeyAt, PresentSlots
  <2> QED
    BY <1>11, <2>1, AdvanceKeepsAhead DEF ht_traverse
<1>12. ASSUME NEW c \in BOOLEAN, callback_returns(c)
       PROVE  TodoAhead'
  <2>1. CASE cursor' = Idle /\ todo' = {}
    BY <2>1 DEF TodoAhead, Traversing
  <2>2. CASE Advance(cursor, todo)
    BY <1>12, <2>2, AdvanceKeepsAhead DEF callback_returns, TodoAhead
  <2> QED
    BY <1>12, <2>1, <2>2 DEF callback_returns
<1> QED
  BY <1>2, <1>3, <1>4, <1>5, <1>6, <1>7, <1>8, <1>9, <1>10, <1>11, <1>12 DEF Next

-----------------------------------------------------------------------------
(* A traversal that its callback does not stop has shown it every entry that *)
(* was in the table at its start and was not deleted on the way, whatever    *)
(* the callback inserted, overwrote, rekeyed or dropped meanwhile.           *)
THEOREM TraversalIsComplete == Spec => []TraverseComplete
<1>1. TodoAhead => TraverseComplete
  BY DEF TodoAhead, TraverseComplete
<1> QED
  BY <1>1, InitTypeOK, NextTypeOK, InitTodoAhead, NextTodoAhead, PTL DEF Spec

-----------------------------------------------------------------------------
(* The table as its client sees it: a set of keys, and a traversal that      *)
(* shows them one after the other.                                           *)

(* A lookup finds the keys that are in the table, and no others. *)
LEMMA LookupIsMembership ==
    ASSUME NEW t, MapLike(t), NEW k \in Key
    PROVE  Lookup(t, k) # {} <=> k \in KeysIn(t)
BY ContentsOf DEF KeysIn, KeyAt

(* ht_put adds its key. *)
LEMMA PutAddsKey ==
    ASSUME TypeOK, KeysPlaced, Client \subseteq {"insert"},
           NEW k \in Key, NEW v \in Value, ht_put(k, v)
    PROVE  /\ KeysIn(buckets') = KeysIn(buckets) \cup {k}
           /\ k \notin KeysIn(buckets)
<1> DEFINE b   == bucket_idx(k)
           ent == [key |-> k, value |-> v]
<1>1. PICK e \in Slot :
         /\ e \in Usable(Allocated(buckets, b), k)
         /\ buckets' = Written(buckets, b, e, ent)
         /\ e \in DOMAIN Allocated(buckets, b)
  BY PutWrites
<1>2. ent \in Entry /\ ent.key = k /\ b \in Bucket
  BY BucketExists DEF Entry
<1>3. Lookup(buckets, k) = {} /\ MapLike(buckets)
  BY DEF ht_put, MayPut, TypeOK, KeysPlaced, MapLike, Table
<1>4. <<b, e>> \notin PresentSlots(buckets)
  BY <1>1, <1>3, FreshPutSlot
<1>5. k \notin KeysIn(buckets)
  BY <1>3, LookupIsMembership
<1> HIDE DEF b, ent
<1>6. /\ PresentSlots(buckets') = PresentSlots(buckets) \cup {<<b, e>>}
      /\ \A s \in PresentSlots(buckets) :
            s # <<b, e>> => buckets'[s[1]][s[2]] = buckets[s[1]][s[2]]
      /\ buckets'[b][e] = ent
  BY <1>1, <1>2, <1>3, WriteSlot DEF MapLike
<1>7. /\ \A s \in PresentSlots(buckets) : KeyAt(buckets', s) = KeyAt(buckets, s)
      /\ KeyAt(buckets', <<b, e>>) = k
  BY <1>2, <1>4, <1>6 DEF KeyAt
<1>8. \A t : KeysIn(t) = {KeyAt(t, s) : s \in PresentSlots(t)}
  BY DEF KeysIn, KeyAt
<1>9. KeysIn(buckets') = KeysIn(buckets) \cup {k}
  BY <1>6, <1>7, <1>8
<1> QED
  BY <1>5, <1>9

(* The callback is shown a key of the table, unless it has dropped it. *)
LEMMA VisitedIsKey ==
    ASSUME TypeOK, Traversing, ~Dropped
    PROVE  AtCursor.key \in KeysIn(buckets) /\ AtCursor.key \in Key
<1>1. cursor \in PresentSlots(buckets) /\ buckets \in Table
  BY CursorAllocated
<1>2. AtCursor.key \in KeysIn(buckets)
  BY <1>1 DEF KeysIn, AtCursor
<1> QED
  BY <1>1, <1>2, KeysTyped

(* Dropping takes that key out of the table. *)
LEMMA DropRemovesKey ==
    ASSUME TypeOK, KeysPlaced, Client \subseteq {"insert"}, callback_drops
    PROVE  /\ KeysIn(buckets') = KeysIn(buckets) \ {AtCursor.key}
           /\ AtCursor.key \in KeysIn(buckets)
           /\ Dropped'
<1>1. /\ Traversing /\ ~Dropped
      /\ cursor[1] \in Bucket /\ cursor[2] \in PresentIn(buckets, cursor[1])
      /\ cursor \in PresentSlots(buckets) /\ cursor = <<cursor[1], cursor[2]>>
      /\ buckets \in Table
  BY CursorAllocated DEF callback_drops
<1>2. WithoutSlot(buckets, cursor[1], cursor[2], buckets')
  BY <1>1, ClearSlot DEF callback_drops
<1>3. OneSlotEach(buckets)
  BY DEF KeysPlaced
<1>4. AtCursor.key = KeyAt(buckets, cursor)
  BY DEF AtCursor, KeyAt
<1>5. /\ PresentSlots(buckets') = PresentSlots(buckets) \ {cursor}
      /\ \A s \in PresentSlots(buckets') : KeyAt(buckets', s) = KeyAt(buckets, s)
  BY <1>1, <1>2 DEF WithoutSlot, KeyAt
<1>6. \A s \in PresentSlots(buckets) : s # cursor => KeyAt(buckets, s) # KeyAt(buckets, cursor)
  BY <1>1, <1>3 DEF OneSlotEach
<1>7. \A t : KeysIn(t) = {KeyAt(t, s) : s \in PresentSlots(t)}
  BY DEF KeysIn, KeyAt
<1>8. KeysIn(buckets') = KeysIn(buckets) \ {KeyAt(buckets, cursor)}
  BY <1>1, <1>5, <1>6, <1>7
<1>9. Dropped'
  BY <1>1, <1>2 DEF callback_drops, WithoutSlot, Dropped, Traversing, AtCursor
<1> QED
  BY <1>1, <1>4, <1>7, <1>8, <1>9

(* Going on, the traversal shows the next key and strikes it off. *)
LEMMA AdvanceShowsKey ==
    ASSUME NEW s, NEW left, Advance(s, left), UNCHANGED buckets
    PROVE  /\ ~Dropped'
           /\ Traversing' => todo' = left \ {AtCursor.key}'
           /\ ~Traversing' => todo' = left
<1>1. cursor' = Idle \/ cursor' \in PresentSlots(buckets)
  BY AdvanceTo
<1>2. ~Dropped'
  <2>1. CASE cursor' = Idle
    BY <2>1 DEF Dropped, Traversing
  <2>2. CASE cursor' \in PresentSlots(buckets)
    BY <2>2 DEF Dropped, AtCursor, PresentSlots, PresentIn
  <2> QED
    BY <1>1, <2>1, <2>2
<1>3. \A r \in NextPresent(buckets, s) : r # Idle
  BY IdleIsNoSlot DEF NextPresent, PresentSlots
<1> QED
  BY <1>2, <1>3 DEF Advance, Traversing, AtCursor

===============================================================================
