------------------------------ MODULE HashTable ------------------------------
(***************************************************************************)
(* src/src/utils/hashtable.c: a table of NumBuckets buckets, each a lazily *)
(* allocated array of BucketSize slots probed linearly.  One action per    *)
(* function of hashtable.h.  ht_traverse runs client code between two of   *)
(* its own steps, so it is a start, any number of things its callback may  *)
(* do to the table, and the return of the callback.                        *)
(*                                                                         *)
(* Client lists what the code that uses the table allows itself:           *)
(*   "overwrite"  ht_put of a key that is already in the table             *)
(*   "rekey"      the callback changes the key of the entry it is shown    *)
(*   "insert"     the callback calls ht_put                                *)
(* hashtable.h allows all three; day13.c, the only user, does none.        *)
(***************************************************************************)
EXTENDS Integers, FiniteSets

CONSTANTS
    Key, Value,
    NumBuckets, BucketSize,     \* the arguments of ht_init
    Hash,                       \* __ht_hash, any function on the keys
    Client,
    MaxTotal,                   \* bounds total_entries, which nothing else does
    Absent, NoValue             \* a slot that is not present; no result value

ASSUME SizeAssumption ==
    /\ NumBuckets \in Nat \ {0}
    /\ BucketSize \in Nat
    /\ MaxTotal \in Nat

ASSUME HashAssumption == Hash \in [Key -> Nat]

Entry == [key : Key, value : Value]

ASSUME AbsentAssumption == Absent \notin Entry /\ NoValue \notin Value

ASSUME ClientAssumption == Client \subseteq {"overwrite", "rekey", "insert"}

VARIABLES
    status,         \* "none" (not initialised), "ready", "aborted" (assertion)
    buckets,        \* the slots of each bucket
    total_entries,
    cursor,         \* the slot whose entry the running callback was given
    ret,            \* what the last ht_get, ht_has_key or ht_delete returned
    todo            \* ghost: keys the running traversal found at its start,
                    \* still in the table and not yet shown to the callback

vars == <<status, buckets, total_entries, cursor, ret, todo>>

Bucket == 0 .. NumBuckets - 1
Slot   == 1 .. BucketSize
Idle   == <<-1, 0>>

bucket_idx(key) == Hash[key] % NumBuckets

\* The entries pointer of a bucket: NULL, or an array of BucketSize slots.
NullEntries  == [e \in {} |-> Absent]
FreshEntries == [e \in Slot |-> Absent]
Entries      == {NullEntries} \cup [Slot -> Entry \cup {Absent}]

-----------------------------------------------------------------------------
(* Reading the table.                                                        *)

\* The slots of bucket b whose entry is present, and those that hold key.
PresentIn(t, b)      == {e \in DOMAIN t[b] : t[b][e] # Absent}
Holding(t, b, key)   == {e \in PresentIn(t, b) : t[b][e].key = key}
PresentSlots(t)      == {s \in Bucket \X Slot : s[2] \in PresentIn(t, s[1])}

\* Mutant: a lookup that gives up at the first slot that is not present.
LookupToFirstGap(t, key) ==
    LET b == bucket_idx(key)
    IN  {e \in Holding(t, b, key) : \A f \in 1 .. e : t[b][f] # Absent}

Lookup(t, key)   == Holding(t, bucket_idx(key), key)
First(S)         == {e \in S : \A f \in S : e <= f}

\* The keys a lookup finds, and the keys some present entry has.
Findable(t) == {k \in Key : Lookup(t, k) # {}}
KeysIn(t)   == {t[s[1]][s[2]].key : s \in PresentSlots(t)}

\* Mutants: the inner loop steps by two, or not at all.
AfterByTwo(s)  == {r \in Bucket \X Slot : r[1] > s[1] \/ (r[1] = s[1] /\ r[2] > s[2] + 1)}
AfterNoStep(s) == {r \in Bucket \X Slot : r[1] > s[1] \/ (r[1] = s[1] /\ r[2] >= s[2])}

\* Slots ht_traverse reaches after slot s, in the order of its two loops.
After(s)        == {r \in Bucket \X Slot : r[1] > s[1] \/ (r[1] = s[1] /\ r[2] > s[2])}
NextPresent(t, s) ==
    {r \in PresentSlots(t) \cap After(s) :
        \A q \in PresentSlots(t) \cap After(s) : q = r \/ q \in After(r)}

Traversing   == cursor # Idle
AtCursor     == buckets[cursor[1]][cursor[2]]
\* The callback has cleared the present flag of the entry it was given.
Dropped      == Traversing /\ AtCursor = Absent

\* ht_get_entries: callocs total_entries slots and copies every present entry.
ht_get_num_entries == total_entries
ht_get_entries     == {buckets[s[1]][s[2]] : s \in PresentSlots(buckets)}

-----------------------------------------------------------------------------
(* Changing it.                                                              *)

\* The slots ht_put works on: allocated if there were none.
Allocated(t, b) == IF t[b] = NullEntries THEN FreshEntries ELSE t[b]

Written(t, b, e, entry) == [t EXCEPT ![b] = [Allocated(t, b) EXCEPT ![e] = entry]]

\* Mutant: a bucket that has become empty gives its slots back.
ClearedAndFreed(t, b, e) ==
    IF PresentIn(t, b) = {e} THEN [t EXCEPT ![b] = NullEntries]
    ELSE [t EXCEPT ![b] = [t[b] EXCEPT ![e] = Absent]]

\* entry->present = false; the slots of the bucket stay allocated.
Cleared(t, b, e) == [t EXCEPT ![b] = [t[b] EXCEPT ![e] = Absent]]

-----------------------------------------------------------------------------
Found(v) == [found |-> TRUE, value |-> v]
Present  == [found |-> TRUE, value |-> NoValue]
Missing  == [found |-> FALSE, value |-> NoValue]

Init ==
    /\ status = "none"
    /\ buckets = [b \in Bucket |-> NullEntries]
    /\ total_entries = 0
    /\ cursor = Idle
    /\ ret = Missing
    /\ todo = {}

ht_init ==
    /\ status = "none"
    /\ status' = "ready"
    /\ buckets' = [b \in Bucket |-> NullEntries]
    /\ total_entries' = 0
    /\ ret' = Missing
    /\ UNCHANGED <<cursor, todo>>

\* Frees every bucket; the table may be initialised again.
ht_deinit ==
    /\ status = "ready"
    /\ ~Traversing
    /\ status' = "none"
    /\ UNCHANGED <<buckets, total_entries, cursor, ret, todo>>

\* Mutant: ht_put writes the first slot whatever it holds.
UsableAlways(slots, key) == DOMAIN slots

\* ht_put writes the first slot that is free or has the key already.
Usable(slots, key) ==
    {e \in DOMAIN slots : slots[e] = Absent \/ slots[e].key = key}

MayPut(key) ==
    /\ status = "ready"
    /\ total_entries < MaxTotal
    /\ "overwrite" \in Client \/ Lookup(buckets, key) = {}
    /\ "insert" \in Client \/ ~Traversing

ht_put(key, value) ==
    /\ MayPut(key)
    /\ \E e \in First(Usable(Allocated(buckets, bucket_idx(key)), key)) :
          buckets' = Written(buckets, bucket_idx(key), e, [key |-> key, value |-> value])
    /\ total_entries' = total_entries + 1
    /\ ret' = Missing
    /\ UNCHANGED <<status, cursor, todo>>

\* assert("bucket full" && false)
ht_put_full(key) ==
    /\ MayPut(key)
    /\ Usable(Allocated(buckets, bucket_idx(key)), key) = {}
    /\ status' = "aborted"
    /\ UNCHANGED <<buckets, total_entries, cursor, ret, todo>>

ht_get(key) ==
    /\ status = "ready"
    /\ \/ \E e \in First(Lookup(buckets, key)) :
             ret' = Found(buckets[bucket_idx(key)][e].value)
       \/ Lookup(buckets, key) = {} /\ ret' = Missing
    /\ UNCHANGED <<status, buckets, total_entries, cursor, todo>>

ht_has_key(key) ==
    /\ status = "ready"
    /\ ret' = IF Lookup(buckets, key) # {} THEN Present ELSE Missing
    /\ UNCHANGED <<status, buckets, total_entries, cursor, todo>>

\* A callback removes the entry it was given by clearing its present flag, as
\* hashtable.h says; ht_delete it may only call for other entries.
MayDelete(key) ==
    /\ status = "ready"
    /\ ~(Traversing /\ ~Dropped /\ AtCursor.key = key)

ht_delete(key) ==
    /\ MayDelete(key)
    /\ \/ \E e \in First(Lookup(buckets, key)) :
             /\ buckets' = Cleared(buckets, bucket_idx(key), e)
             /\ total_entries' = total_entries - 1
             /\ ret' = Present
             /\ todo' = todo \ {key}
       \/ /\ Lookup(buckets, key) = {}
          /\ ret' = Missing
          /\ UNCHANGED <<buckets, total_entries, todo>>
    /\ UNCHANGED <<status, cursor>>

-----------------------------------------------------------------------------
(* ht_traverse.                                                              *)

\* From slot s the loops go on to the next present entry and call the callback
\* with it, or run out of slots.
Advance(s, left) ==
    \/ \E r \in NextPresent(buckets, s) :
          /\ cursor' = r
          /\ todo' = left \ {buckets[r[1]][r[2]].key}
    \/ /\ NextPresent(buckets, s) = {}
       /\ cursor' = Idle
       /\ todo' = left

ht_traverse ==
    /\ status = "ready"
    /\ ~Traversing
    /\ Advance(Idle, KeysIn(buckets))
    /\ UNCHANGED <<status, buckets, total_entries, ret>>

callback_sets_value(v) ==
    /\ status = "ready"
    /\ Traversing /\ ~Dropped
    /\ buckets' = Written(buckets, cursor[1], cursor[2], [AtCursor EXCEPT !.value = v])
    /\ UNCHANGED <<status, total_entries, cursor, ret, todo>>

callback_sets_key(k) ==
    /\ status = "ready"
    /\ "rekey" \in Client
    /\ Traversing /\ ~Dropped
    /\ buckets' = Written(buckets, cursor[1], cursor[2], [AtCursor EXCEPT !.key = k])
    /\ UNCHANGED <<status, total_entries, cursor, ret, todo>>

callback_drops ==
    /\ status = "ready"
    /\ Traversing /\ ~Dropped
    /\ buckets' = Cleared(buckets, cursor[1], cursor[2])
    /\ UNCHANGED <<status, total_entries, cursor, ret, todo>>

\* Mutant: every visit counts as a removal.
CountAfterAnyVisit == total_entries - 1

\* The count after the callback, by what is in the slot now.
CountAfterVisit == IF Dropped THEN total_entries - 1 ELSE total_entries

callback_returns(should_continue) ==
    /\ status = "ready"
    /\ Traversing
    /\ total_entries' = CountAfterVisit
    /\ IF should_continue THEN Advance(cursor, todo)
       ELSE cursor' = Idle /\ todo' = {}
    /\ UNCHANGED <<status, buckets, ret>>

-----------------------------------------------------------------------------
Next ==
    \/ ht_init
    \/ ht_deinit
    \/ \E k \in Key :
          \/ \E v \in Value : ht_put(k, v)
          \/ ht_put_full(k)
          \/ ht_get(k)
          \/ ht_has_key(k)
          \/ ht_delete(k)
          \/ callback_sets_key(k)
    \/ ht_traverse
    \/ \E v \in Value : callback_sets_value(v)
    \/ callback_drops
    \/ \E c \in BOOLEAN : callback_returns(c)

Spec == Init /\ [][Next]_vars

\* A callback that does not stop the traversal returns in the end; nothing else
\* is assumed of the client.
FairSpec == Spec /\ WF_vars(callback_returns(TRUE))

-----------------------------------------------------------------------------
(* What holds for every client.                                              *)

\* Type invariant; also, a callback only ever runs on a slot that exists, in a
\* bucket that is allocated.
TypeOK ==
    /\ status \in {"none", "ready", "aborted"}
    /\ buckets \in [Bucket -> Entries]
    /\ total_entries \in Int
    /\ cursor \in {Idle} \cup (Bucket \X Slot)
    /\ Traversing => status # "none" /\ cursor[2] \in DOMAIN buckets[cursor[1]]
    /\ ret \in [found : BOOLEAN, value : Value \cup {NoValue}]
    /\ todo \subseteq Key

\* The buffer ht_get_entries allocates from total_entries has room for every
\* present entry it copies (hashtable.c:112-127), whatever mix of overwriting,
\* rekeying, inserting and dropping led here.
BufferFits == Cardinality(PresentSlots(buckets)) <= total_entries

\* A traversal that was not stopped has shown its callback every entry the table
\* held when it began and that was not deleted on the way, although the
\* callback changes the table under the loops.
TraverseComplete == ~Traversing => todo = {}

\* A traversal comes to an end even when its callback keeps inserting.
TraverseEnds == Traversing ~> (~Traversing \/ status = "aborted")

-----------------------------------------------------------------------------
(* What holds for clients that restrain themselves.                          *)

\* Without rekeying: no entry sits in a bucket where a lookup of its key does
\* not search.
EveryEntryFindable == KeysIn(buckets) \subseteq Findable(buckets)

\* Without overwriting and rekeying: no key occupies two slots, so that a
\* deleted key cannot come back.
UniqueKeys ==
    \A s, r \in PresentSlots(buckets) :
        buckets[s[1]][s[2]].key = buckets[r[1]][r[2]].key => s = r

\* For a client that does none of the three (day13): ht_get_num_entries is the
\* number of keys in the table.
CountExact == ~Traversing => ht_get_num_entries = Cardinality(KeysIn(buckets))

\* Without overwriting and rekeying the table is a map, and ht_get, ht_has_key,
\* ht_delete and the callback's changes do to it what IntMap says.
ValueOf(t, key) ==
    LET e == CHOOSE e \in First(Lookup(t, key)) : TRUE
    IN  t[bucket_idx(key)][e].value

Contents(t) == [k \in Findable(t) |-> ValueOf(t, k)]

M == INSTANCE IntMap WITH map <- Contents(buckets)

IsAMap == M!Spec

===============================================================================
