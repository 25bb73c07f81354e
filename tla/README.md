# Verification of aoc_c

The repository solves Advent of Code puzzles in C. Most of a day's program is a
short loop, but some of its parts are systems in small: a hash table whose
traversal runs client code, a B-tree with a pool of spare nodes that must
survive a failed allocation, an A* search on that tree, and solvers that change a
structure while they go through it. This directory holds TLA+ models of those
parts and of the program around them, the TLC runs that check them, and proofs
that TLAPS checks.

All code is single-threaded and nothing is persisted, so there are no threads,
messages or crashes to recover from. What is hard here is *re-entrancy* (a callback
that changes what is being traversed), *two-phase updates* (decide in one loop,
carry out in another), *allocations that fail half way*, *remembered positions*
(hints, the last loaded item, stale queue entries), *limits* (fixed buckets,
node sizes, buffers sized by a counter, counters in narrow types), and *state that
outlives a call* (a global that a benchmark's next repetition finds).

## Inventory

| component | source | state | operations | interacts with |
|---|---|---|---|---|
| hash table | `src/src/utils/hashtable.c`, `.h` | buckets of slots, `total_entries` | `ht_init/deinit/put/get/has_key/delete/get_entries/traverse` | calls its client back from `ht_traverse`; used by day 13 |
| B-tree | `src/src/utils/btree.c`, `.h` | nodes, `count`, `height`, pool of spare leaves and branches, `oom`, last loaded item | set, load, get, delete, pop, min, max, ascend, descend, action iterators, free | the client's comparator and iterators; used by day 15 |
| node search | `node_find` in `btree.c` | a byte of the caller's hint per depth | binary search | every B-tree operation |
| queue | `src/src/utils/queue.c` | array, head, tail | push, pop, sort | nothing any more |
| arrays and lines | `src/src/utils/array.h`, `utils.c` | buffer, length, capacity | add, get, delete, shrink; split input | days 1, 2, 18, 19 |
| runner | `src/src/2021/main.c`, `aoc2021.c` | table of days, mode, arguments | run one day or all, once or as a benchmark; compare results | calls every day |
| day 13 | `src/src/2021/day13.c` | table of dots, array of dots taken out | parse, fold, count, draw | hash table |
| day 15 | `src/src/2021/day15.c` | scores, queue | A* search | B-tree |
| day 25 | `src/src/2021/day25.c` | map, two arrays of positions | move a herd, until none moves | - |
| day 18 | `src/src/2021/day18.c` | two buffers of digits | add, reduce in one pass, magnitude | lines |
| day 3 | `day3.c` | array of the remaining rows, filtered in place | count bits, filter | - |
| day 4 | `day4.c` | numbers, boards, winners, first and last score | play until the numbers end | - |
| day 5 | `day5.c` | two diagrams of `char` counters | lay lines | - |
| day 6 | `day6.c` | nine counters | shift | - |
| day 8 | `day8.c` | one mask of segments per wire | narrow, prune, read | - |
| day 9 | `day9.c` | a global copy of the map | lowest places, fill | its own next call |
| day 10 | `day10.c` | a stack, an array of scores | match, score | - |
| day 11 | `day11.c` | a grid | flash, recursively; until all do | - |
| day 12 | `day12.c` | a path of visits, copied per call | count paths | - |
| day 14 | `day14.c` | counts of pairs and letters, and a copy | insert | - |
| day 16 | `day16.c` | a bit reader, a record per packet | recursive descent | - |
| days 1, 2, 7, 17 | `day*.c` | a few integers | one or two loops | - |
| day 19 | `day19.c` | - | parse, return zeroes | lines |
| comparators | `compare.c` | none | compare integers | B-tree, sorting |
| 2015 day 6 | `src/src/2015/day6.c` | a grid | a program of its own | - |

What makes each right:

* **Hash table**: an entry is found where a lookup of its key searches; no key is
  there twice; the count is the number of entries and never too small for
  `ht_get_entries`; a traversal shows what was there when it began, whatever its
  callback does, and ends.
* **B-tree**: `btree_sane`, and more exactly the ordered set of the comments; no
  split ever finds the pool empty; no node is leaked or overfilled; failure leaves
  the set as it was.
* **Node search**: the right place for any hint, no access outside the node.
* **Day 13**: traversal and insertions together are one fold; no dot is lost.
* **Day 15**: a shortest path, found before the queue runs empty.
* **Day 25**: the two loops are one simultaneous move; map and arrays agree; the
  result is a map at rest.
* **Day 18**: one pass between two buffers does what the rules of the puzzle do one at
  a time; it ends; no digit is read or written outside the buffers.
* **Day 8**: in whatever order the patterns of a display come, each wire ends with one
  segment, and every digit shown can be read.
* **Day 16**: the count of bits that the recursion adds up ends each operator where its
  sender ended it.
* **Days 6, 11, 14**: updates made one after another are one simultaneous step.
* **Days 5, 9, 12, 17**: each place, basin, path or velocity is counted once.
* **Days 1, 2, 3, 4, 7, 10**: one pass finds what the puzzle defines over the whole
  input.
* **Lines**: the array has room before it is written, for any number of lines and a last
  one without a newline.
* **Runner**: `main` returns after every day and repetition, each with the result it had
  before.

## Modules

| module | models | extends or instantiates |
|---|---|---|
| `IntMap` | specification: the map of `hashtable.h` with a traversing client | |
| `HashTable` | `hashtable.c` | implements `IntMap` |
| `HashTableProofs` | proofs about `HashTable` and its traversal | |
| `OrderedSet` | specification: the ordered set of the comments in `btree.c` | |
| `BTree` | `btree.c` without the action iterators | implements `OrderedSet` |
| `BTreeProofs` | proofs about `BTree`: nodes, pool, sizes, what a walk meets | |
| `BTreeOrderProofs` | proofs about `BTree`: order, count, refinement, queries; and about `NodeFind` | extends `BTreeProofs` and `NodeFind` |
| `Recursion` | functions of a height that call themselves with the height below | used by `BTreeProofs` |
| `BTreeAction` | the action iterators of `btree.c` | extends `BTree` |
| `NodeFind` | `node_find`, turn by turn, with the hint | justifies `BTree!node_find` |
| `Origami` | specification: folding a set of dots | |
| `Day13` | `day13.c` on the actions of `HashTable` | composes `HashTable`, implements `Origami` |
| `Day13Proofs` | proofs about `Day13` | uses the theorems of `HashTableProofs` |
| `Day15` | `day15.c` on the actions of `OrderedSet` | composes `OrderedSet` |
| `Day15Proofs` | proofs about `Day15` | |
| `Snailfish` | specification: the rules of adding snailfish numbers, and magnitudes | |
| `Day18` | `day18.c` | implements `Snailfish` |
| `Day18Proofs` | proofs about `Day18` | |
| `Lines` | `array.h`, `utils.c` | |
| `Day3` ... `Day16` | `day3.c`, `4`, `5`, `6`, `8`, `9`, `10`, `11`, `12`, `14`, `16`: one module each | |
| `ShortDays` | `day1.c`, `day2.c`, `day7.c`, `day17.c` | |
| `Puzzles` | specification: the answers to the puzzles of those days | |
| `Runner` | `main.c`, `aoc2021.c` | |
| `Aoc2021` | the program: the runner, its table, each day on its input | extends `Runner` and `Day18`, composes the days and `Lines` |
| `SeaCucumbers` | specification: a herd moves at once | |
| `Day25` | `day25.c` | implements `SeaCucumbers` |
| `Day25Proofs` | proofs about `Day25` | |
| `MC...` | instances for TLC: hash functions, instructions, inputs of the days | |

### HashTable

`buckets` maps a bucket to its array of slots, whose domain is empty while the
`entries` pointer is NULL and never empty again afterwards (hashtable.c:52-56). A
slot holds an entry or `Absent`. One action per function of `hashtable.h`;
`ht_put_full` is the assertion at line 70. `ht_traverse` is the one function that
runs foreign code, so it is split where it does: `ht_traverse` goes up to the first
callback, `cursor` names the slot whose entry the callback was given, the
`callback_...` actions and the table's other functions are what a callback may do,
and `callback_returns` is the rest of the loop body and the way to the next
callback. `Client` says what the user allows himself of what `hashtable.h` allows:
overwriting a key, changing a key in a callback, inserting in a callback. A
callback removes its own entry by clearing `present`, as the comment says; calling
`ht_delete` for it as well is left out (`MayDelete`). `todo` is a ghost: keys the
traversal still owes its callback.

### BTree

A node is the sequence of its items and of its children. Every call is one action
that recurses as the code does (`node_set`, `node_split`, `node_delete`,
rebalancing, `takeaway`); nothing interrupts a call, so nothing is lost by that.
What recurses over the tree is a function that takes a height and a tree of that height
(`Tree[h]`, which is also what `node_saneheight` asks for) and calls itself with the
height below, so that it can be reasoned about.
Each call takes `mallocs`, the number of its allocations that succeed: `fill_pool` stops
where they run out and keeps what it got, and a deletion frees a node that no group
can hold. `gimme_node` on an empty group shows as a negative length, which the call
turns into the status `panic`. `litem` is the remembered item of `btree_load`, a
position in the last leaf; `live` counts nodes allocated and not freed. `Client`
says whether items are loaded out of order and whether an empty tree is loaded
when memory is short. The iterators are sequences of the items they show. Node
sizes are those after the normalisation of `btree_new`.

### BTreeAction

`btree_action_ascend` and `btree_action_descend` call back in the middle of a
recursion that the answer may change, so they are split there, like `ht_traverse`.
`path` is the stack: the child taken in each branch, then the position of the item
shown; as every rebalancing starts the walk over from `pivot`, nothing else of the
stack matters. `Enter...`, `Resume` and `Return...` are the parts of the two loops
between one callback and the next. One action per answer: `BTREE_NONE`,
`BTREE_STOP`, `BTREE_DELETE` by its quick and its slow way (`btree_delete` and a
restart), and `BTREE_UPDATE` with the key as it was or changed. `owed` and `rekeyed`
are ghosts.

### NodeFind

The loop of `node_find` with `low`, `high` and the hint, from any node, any key and
any byte of hint, which may stem from another node or a search before the node
changed. A hint of 0 is not used, a hit on the hint does not write it, and what is
written loses its upper bits: `HintValues` is 256 in the code and small in the run,
so that nodes larger than a hint can say occur.

### Day13, Day15, Day18, Day25

`Day13` conjoins each of its steps with the action of `HashTable` it calls:
`ht_put` for a line of input, a traversal whose callback drops the dots beyond the
line, `ht_has_key` and `ht_put` for what was collected, and `ht_get_num_entries`. The table lets
day 13 put a key twice, which the code would count twice (hashtable.c:60-64): only the look
before `ht_put` (day13.c:87) keeps the count right. That no line of input occurs twice is an
assumption about the input. The drawing changes nothing; the assertion that it is the one
the program knows (day13.c:150) may end the program (`drawing_differs`).
The code does not look whether a folded dot lies on the paper: `PACK` of a negative
number would be another dot. `Sheet[n]` is where dots can lie when fold `n` begins, and
`SheetAssumption` says of the input that each of these places fits an int and is folded
onto the next sheet; every puzzle's paper is like that.
`Day15` does the same with `OrderedSet`, which `BTree` implements; a failed
`btree_set` loses an entry, because nobody asks `btree_oom()`. Scores are 16-bit
and 0 is "none yet", as in the code. `WrapAssumption` says how large a map may be for
16 bits. The search keeps to short paths, so that the code's 500 by 500 fits with room to
spare. When entries can be lost it may be sent along a path through every place, and what
is shown of lost entries is therefore shown of maps of up to some 3000 places only. `Shortest` is defined without any search, by a wave that
starts at the upper left and takes the risk of a place to enter it. `Day18` has the two buffers of a number as the
sequences up to `number.len` and up to `j`, because nothing behind them is read before
it is written, and an action for each branch of the loop of `fast_reduce` and each turn
of `magnitude`; `row` 0 stands for the first of the two loops of `day18`. The depth of an
exploding pair and the least digit to split are constants, 5 and 10 in the code. Read across
both buffers (`sum`), the digits are the `number` of `Snailfish`. `InputAssumption` says
that every line is a reduced number of the puzzle, and that a buffer has room for as many
digits as a number of depth `Nested` has places: 32, where the code has 100. `Day25` has a step for each turn of the two
loops of `move_herd`. C does not say which of the two calls of `move_herd` in line
95 comes first; `first` is chosen at the start and stays, as in a compiled program.

### Lines, Day3 ... Day16, ShortDays, Puzzles

Each of these days is a function of its input: nothing interrupts it, it calls nobody
back, and of its state only day 9's global survives the call. Its module therefore
has operators instead of actions, one per function of the source, with a loop as a
fold over what it runs through and the variables it changes as the record it folds.
What makes them more than their answers is kept: the in-place filter of day 3 with
what it leaves behind the remaining rows, the 0 that stands for "no winner yet" in
day 4, the `char` of day 5, the order in which day 8 narrows and prunes, the
recursion of days 9 and 11 in the middle of a loop, the copy of day 14, and in day
16 the two accounts of the bits read, the reader's offset (`at`) and `bit_length`.
Parsing of numbers and words is left out: an input is the record or sequence the parser
fills. Where an assertion of the code can fail on an input (days 8 and 16), the result
is `Assertion`; `Makefile` optimises but does not define `NDEBUG`, so assertions are
active.

`Puzzles` defines the answers in another way than the code finds them: the fish and the
polymer themselves instead of counts, walks as sequences instead of a recursion with
visit counts, digits by how often their wires occur instead of by elimination,
brackets that cancel out instead of a stack, and a transmission by encoding a tree of
packets instead of decoding one. `Puzzles` takes over a choice of the code only where the
puzzle leaves one (a tie of day 3's first part, boards that win at once, a missing third
basin, an even number of scores), and says so in a comment. Where the code answers
something else than the puzzle, or something although the puzzle has no answer, the
properties of `MCAoc2021` have a hypothesis that excludes such inputs:

| day | supposed of an input | without it the code |
|---|---|---|
| 3 | neither filter drops all rows at once (`HasRatings`) | takes the row that was first before (day3.c:97) |
| 4 | two boards win, the first with a score other than 0 (`FirstIsSeen`) | takes the next winner for the first (day4.c:109-110), and 0 for the last score if there is no other winner |
| 11 | the first common flash is not before the last counted step (`CountedOut`) | has no more than the flashes up to there (day11.c:87) |
| 16 | no minimum is above `INT_MAX` (`MinimaFit`) | returns `INT_MAX` (day16.c:143) |

The families of inputs go beyond the hypotheses on purpose: `main` runs these days too, with
the code's own answer in its table.

### Runner and Aoc2021

`Runner` has the loop over the arguments, the choice of days and a step each for
calling a day, its return, a repetition and the two ways to abort. `Aoc2021` supplies
what a day returns: days that are functions in one step (`day_returns`), day 9 with the
global map it leaves (`ptr`), and day 18 by the steps of `Day18`, on the lines that
`Lines` splits from its text. Days 13, 15 and 25 have runs of their own and return what
is expected. One day, `under`, is under test and gets any of its examples; the table
`days` holds for each the function and the expected result, and may be wrong about
day 2 (`misprinted`), so that `assert_int64` fails in some behaviours. What a day of one
step returns is computed when the table is set up, because its input never changes.

## Runs

Every property of a passing run has a mutant of the code that breaks it.

| run | question | bounds |
|---|---|---|
| `HashTable_any` | a client that does everything: types, buffer, completeness of traversal | 4 keys, 2 buckets of 2 slots, `MaxTotal` 5 |
| `HashTable_insert` | callbacks that insert and delete: lookups, unique keys, the map `IntMap`, traversals end | the same, 2 values |
| `HashTable_count` | *violated*: the count after a callback that drops and inserts | the same |
| `BTree_sane` | `btree_sane`, pool, leaks, queries, each with failing allocations | 7 keys, `max_items` 4, groups of 1, 2 allocations per call |
| `BTree_set` | the ordered set, also where the minimum of a node is two | 5 keys of 2 values, `max_items` 6, groups of 2, 1 allocation |
| `BTree_actions` | walks that delete and update: order, completeness, node sizes, effect of each answer | 7 keys, `max_items` 4, 1 walk of each filled tree from 4 pivots |
| `BTree_unsorted` | *violated*: loading out of order | 3 keys |
| `NodeFind` | place, bounds, termination of the search | up to 5 items of 7 keys, hints below 4 |
| `Day13` | one fold, no dot lost, exact count, limits | 4 dots on 5 x 3, 3 folds, array of 3, buckets of 3 |
| `Day15` | shortest path, no empty queue, termination, lost entries | all 3 x 2 maps of risks 1 and 9, tiled 2 x 2; 1 failing allocation |
| `Aoc2021` | each day against its puzzle, the rules of day 18, `main` returns | see below |
| `Day25` | simultaneous moves, agreement, rest | all maps of 4 x 2, 4 steps |

The inputs of `Aoc2021`, one family for each day under test: all depths of 3 and some of
6 numbers; 3 commands; up to 3 rows of 3 bits; 3 boards of 2 x 2, with some that never
win and some that win with a score of 0, of which 309 of 500 inputs keep to the hypothesis of
`Selects` (`Side` 2); 3 vent lines on 4 x 4 (`Width` 4); up to 3
fish for 8 and 20 days; 4 crabs; displays with the six patterns that `deduce` looks at in all
720 orders under two wirings; 3 x 3 floors and grids, most of which flash all at once in the
last counted step (`Steps` 9) or later; all graphs of four caves and an
end; programs of up to 5 brackets of two kinds; all rule tables over two letters for 2 and
4 generations; packets of up to three levels, of every operator, by bits and by count,
with literals beyond `INT_MAX` (20) and transmissions cut short; target areas of up to
5 x 3; and for day 18 the 290 inputs of one to three lines, with and without a newline
at the end. `ARRAY_MIN_CAPACITY` is 2, so that arrays grow from nothing and again.
A benchmark repeats `maxreps` 2 times, which is where state that survives a call
shows. Days 2, 9 and 20 run with several argument lists: one day, a benchmark, every day,
the last of two numbers, an argument that is none.

Why these are enough. Two buckets of two slots with four keys give collisions, holes
before a key, full buckets, buckets allocated behind the cursor and slots freed and
reused under it; the count may exceed the number of slots by one, which is where
double counting shows. With `max_items` 4 seven keys build three levels, so that
splits reach the root, every deletion rebalances, and merging in branches moves
children; groups of one node overflow; two allocations are fewer than a tall tree
may need, so that `fill_pool` fails at every point and is resumed; a leaf left empty
borrows from a sibling of two items and merges with one of one. With `max_items`
6 the minimum of a node is two, and its five keys build two leaves, which merge: no run
checks the ordered set with borrowing, it is proved (`TreeIsOrderedSet`). The walks of
`BTree_actions` begin on every tree that loading upwards or setting downwards gives,
with leaves that can spare an item and leaves that cannot, and their deletions make
the other shapes, from three levels down to none; nodes given away are freed there
(groups of 0), because the pool is the subject of `BTree_sane`. A hint below 4 in nodes of
5 items can be past the end, in the middle, cut off or exact. The bucket of 3 and
the array of 3 in `Day13` are overrun by some papers. Numbers of nines make every
branch of `fast_reduce` happen, split digits whose halves are split again, and carry
far to both sides; 16 digits are as many as four levels can hold, so that one digit too
many would show. Risks of 9 turn into 1, and of
1 into 2 and 3, in the tiles. `MaxSteps` cuts off maps of day 25 that never rest.

Deadlock is not checked: a solver ends, an aborted or freed structure takes no more
calls, and the bounds stop the rest.

**Fairness.** `HashTable` assumes that a callback which does not stop the traversal
returns in the end, and nothing about what else it does. `NodeFind`, `Day15` and
`Aoc2021` assume `WF` of their next steps: a single thread goes on while it can, and no
step of theirs waits for another. `BTree`, `BTreeAction` and
`Day25` have no liveness properties: calls of a tree end in their one step, and day
25 does not end on every map, nor a walk whose callback changes keys for ever.

### Findings

* `HashTable_count` (hashtable.c:142): a callback drops its entry, inserts a key into
  the slot it freed, and the removal is not counted. Day 13 avoids it by the comment
  at day13.c:32-34.
* `BTree_unsorted` (btree.c:521): `btree_load` of 1, 3, 2 puts 2 behind 3.

Four more things are worth knowing. `btree_load` into an empty tree without memory
follows a NULL root (btree.c:535, the action `load_crashes`), where btree.c:512-514
promises NULL and `btree_oom()`. `day18` starts its sum with the first number and then
adds all numbers to it, the first included (day18.c:288-291): the answer it returns is
that of the input with its first line twice. On the author's input both sums come to
3486, so that the runner's expectation (main.c:156) does not tell; `Answer1` of `MCDay18` says
what the code does, and the disabled `sum_numbers` above it starts with the second line. `ht_put` of a key that is in the table counts it
again and, behind a hole, puts it twice (hashtable.c:60-64), so that it comes back
after a deletion: the properties of a map need a client that puts only new keys, as
day 13 does, and have that as their hypothesis. And when the callback of an action
iterator changes a key, btree.c:1085-1087 says that the item is tried again; for an
item of a branch the walk first goes through the subtree beside it once more
(btree.c:973, 1042), so that the callback sees those items a second time.
`ShowsEveryItem` says exactly that much.

Of the smaller days:

* day 4 takes a score of 0 for "no winner yet" (day4.c:109): a first winner that leaves no
  unmarked number, or wins on the number 0, is overwritten by the next one, although the
  comment there says "P1 solution: first winner" (day4.c:110). `Puzzles` has it as the
  comment says, and `Selects` supposes that the first score is another.
* day 3's filter may drop every row; what is then read from `remaining[0]` (day3.c:97)
  is the row that was first before.
* day 16 starts the minimum at `INT_MAX` although values have 64 bits (day16.c:143), so
  that a minimum is never greater.
* day 5 counts in a `char`: the 258th line over a place would count it again.
* day 11 stops at the first common flash (day11.c:87), and if that comes before turn
  100, its first answer has no more than the flashes up to there; some grids never
  come to one, and the loop does not end.
* day 10 pops a byte from before its stack if more is closed than was opened
  (day10.c:54); day 8 writes one place outside `present` for the NUL behind a pattern of six
  (day8.c:184).
* day 17 tries a range of velocities that its comment calls found by trial and error; the
  run has the range that the target implies, and compares it with all velocities that
  could hit.
* day 19's rotation (-z, y, -z) is none; nothing uses it.

`hashtable.h:38` also allows a callback to change keys. Such an entry stays in the
bucket of its old key and no lookup of the new one finds it; the theorem
`FindableWithoutRekeying` has that as its hypothesis.

## Proofs

Nothing is assumed but the named `ASSUME`s about constants: positive sizes, a hash that
is a function into the naturals, values distinct from the markers, and of the inputs of
days 13, 15 and 18 what is said above. TLC evaluates each of them in a run.

* **HashTableProofs.** `TypeCorrect` holds for every client. `EntriesFitBuffer` needs
  that `total_entries` is at least the number of present entries, plus one while the
  callback's entry is dropped and not yet uncounted; that strengthening is inductive
  for every client, and finiteness of the slots lets each write change the
  cardinality by at most one. `FindableWithoutRekeying` needs that each entry sits in
  the bucket of its key. `UniqueWithFreshPuts` adds that keys are unique, which
  `ht_put` keeps because a client that does not overwrite puts only keys a lookup
  does not find, and a lookup is complete by the invariant before. `CountIsExact`
  makes the inequality an equality for clients that do none of the three.
  `TableIsAMap` is the refinement of `IntMap` under the same invariants, one lemma per
  action.
  The second half is about the traversal. `TraversalIsComplete` holds for every client. The invariant
  `TodoAhead` says that each key owed to the callback sits in a slot behind the cursor
  (later in its bucket, or in a later bucket), and that a traversal that is over owes
  nothing. What a callback puts goes into a slot that was free, what it drops or rekeys
  is the entry it was shown, and what it deletes is owed no longer; so nothing owed is
  ever moved or overwritten. The end of the module says the same in the words of a
  client: the traversal shows the keys one after the other.
* **BTreeProofs.** `TreeInv` is inductive: the tree is one of the height recorded, all leaves
  equally deep, its root with 1 to `MaxItems - 2` items and every other node with
  `MinItems` to `MaxItems - 2` (`Good`); the pool has given away no more than it had; the
  nodes alive are those of the tree and of the pool; and the remembered item of
  `btree_load` is one of the last leaf. `PoolNeverRunsOut`, `NodesAreKept` and `TreeIsSane`
  follow. On the way down a call leaves a tree in between: after an insertion a node may have
  `MaxItems - 1` items, and then one spare node less is left per level that splits; after a
  deletion a child may have `MinItems - 1`. `SizedSet` and `NodeDeletion` say so, for a tree
  of any height, by induction on the height, and the rebalancing of `RebalancedTo` and the
  split of `NodeSplit` make up for it; that two halves of a full node are large enough, that
  merged nodes are not too large, and that a sibling can spare an item is where the 40 % of
  `MinItems` and the evenness of `MaxItems` are needed. Each recursive function of `BTree` is shown to
  solve its equation by `Recursion`, which is instantiated with the body of the function,
  since a lemma cannot take an operator as parameter here.
* **BTreeOrderProofs.** `TreeIsOrdered` is `btree_sane` as a whole. `OrderInv`, next to
  `TreeInv`, is inductive: the walk of the tree (`ItemWalk`, what `node_scan` shows) is
  sorted and `count` is its length, the latter for every client. Around a child, the walk of
  a branch is `Framed`: what lies left of the child, the child's own walk, what lies right
  of it. Hence an operation deep in the tree changes the whole walk as it changes the walk
  of the subtree it reaches: an insertion `Puts` an item at a place or over the item there,
  a deletion `Takes` one out, and splitting, merging and borrowing leave the walk as it is.
  That `node_find` leads to the right child is where the order is needed: the child's walk
  lies between the two items beside it, so a key that belongs there is greater than all that
  lies left and smaller than all that lies right, and a key not met on the way down is
  nowhere. A deletion in a branch takes the greatest item of the child to the left and puts
  it in the place of the one deleted. All this goes by induction on the height.
  `TreeIsOrderedSet` shows that each action is a step of `OrderedSet`, or a stutter, and the
  action property of `IsOrderedSet` (`TakesRight`), one lemma per kind of call: the items are
  those the walk shows, and a sorted walk shows each key once.
  `QueriesAreRight` is about the calls that change nothing. What an iterator shows is
  compared with the walk: upwards from a pivot it is the end of the walk that begins with the
  pivot (`WalksUp`), downwards it is the reverse of what lies left of that (`WalksDown`,
  `ReversedWoven`), and `btree_get` meets the item of the walk with that key (`Meets`); each
  holds for a branch because its walk is `Framed` by the child the search leads to.
  `btree_min` and `btree_max` are the ends of the walk (`TreeEnds`).
  The hypothesis of all three is that `btree_load` is given items greater than those in
  the tree; the run `BTree_unsorted` shows what happens without it (see Findings).
  The last part is about `NodeFind`, for any node, key and hint. Everything left of `low` is
  smaller than the key and everything right of `high` greater, and `low <= high + 1`.
  `SearchIsCorrect`, `SearchStaysInNode` and `SearchTypeCorrect` follow, and
  `SearchIsNodeFind`: on a sorted node the search ends with the place that `BTree` computes
  in one go. `InNode` needs that a node holds an item, which is `BTree!SaneProps`.
* **Day13Proofs.** The theorems about the table are used as they are: `HT` is an instance
  of `HashTableProofs` with day 13's keys and a client that puts only new keys, and
  each action of day 13 is shown to be a step of it (`StepOfTable`), although its own table
  would let it put a key twice: that a key it puts is new follows from the look before
  `ht_put` (`LookTellsDots`). `FoldInv` says where the dots are
  meanwhile: those already visited and beyond the line are in the array and not in the
  table, those not yet visited are in `todo`, all others are on their side of the line, and
  what was inserted lies on the next sheet. From it follow `EveryDotIsKept`, `CountIsOfDots`
  and the array's limit (`TypeCorrect`); `FoldingIsOrigami` is the refinement, where only
  reading a line and ending the insertions of a fold are steps of `Origami`.
* **Day15Proofs.** The wave gives each place a distance (`Distance`), and the usual argument
  about A* becomes `SearchInv`: every score is the length of some path, every place that
  was popped at its distance has passed it on, and unless an entry was lost, some place on
  a shortest path to the goal waits in the queue with its true distance. That last
  place is the first of a set of overdue ones, found as the least counterexample. The
  start has clauses of its own, because its score 0 is "none yet" and it gets one on the
  way back. That no score wraps (`NoScoreWraps`) is part of the same induction: a score is
  bounded by what the goal can cost, or, with losses, by what all scored places together can
  cost. `NullIsNotFollowed` is the safety half of `Terminates`.
* **Day18Proofs.** A number is a tree, but the code keeps only digits and depths. The
  invariant is that they fill the places of a tree (`Tree`): what the digits before a
  digit fill is a multiple of the room the digit itself takes. Hence the first of the
  deepest digits is followed by its partner, so that `digits[i + 1]` is read inside the
  buffer, and two digits of equal depth on top of the stack of `magnitude`, which
  is the same invariant for the stack followed by the rest, are a pair. `Scanned` is the
  tree read across both buffers, with what has been achieved to the left of `i`: nothing
  too deep in the first pass, nothing too deep or too large in the second, where right of
  `i` only the pair at `i`, which a split has just made, may be too deep. There is one lemma
  per action, for the invariant and the refinement together. `TypeCorrect`,
  `ReducesByTheRules` and `MagnitudeOfOne` follow from `SumInv`. The recursive functions
  of `Snailfish` (`Size`, `Filled`) are reasoned about by least counterexamples, as the
  library's induction needs an operator as parameter.
* **Day25Proofs.** `MapAndArraysAgree` is inductive together with `DecisionsHold`:
  decided targets are free and distinct, because two cucumbers of one herd have
  different targets, and carrying one out fills only its own target.
  `HerdsMoveAtOnce` needs in addition what the arrays were when the loop began (`was`)
  and that a move is collected exactly for the elements already looked at whose
  target was free then; the last step of a call is then the abstract step.
  `ReturnsAtRest` carries "the herd that moved first cannot move" over the second call.

Only model-checked: the action iterators of the B-tree (`BTreeAction`, whose helpers are
recursive operators); the days that are folds or recursive operators, against `Puzzles`, for
what a fold computes is an induction over data; the runner (`MainReturns` is liveness); and
all liveness: that searches, traversals and day 15 end.

## Not modelled

* **The queue**: nothing calls it since day 15 uses the B-tree, so nothing says in which
  orders its functions may be called.
* **Comparators**: no state; the B-tree takes their result as the order of its keys.
* **Day 19**: unfinished; it returns zeroes, and that is what `Aoc2021` has it return.
* **2015 day 6**: a program of its own that no target builds.
* **Parsing of numbers and words, printing, drawing, measuring time**: no property is
  about them. The time limit of a benchmark may be met after any repetition.
* **Inputs that make the code leave its arrays**: unbalanced lines of day 10, a text whose
  last line has no NUL behind it (utils.c:11 looks for one past `len`), and day numbers
  outside of 1 .. 25, with which `main` would read beside its table.
* **A failing `calloc` or `malloc` outside of the B-tree**: not looked at by the code.
* `BTREE_TEST`, custom allocators, and calls on the tree by an action iterator's callback.

## Plan

What is left is proofs. The traversal of the hash table, day 13, the invariants of day 15
and the rules of day 18, once on this list, are proved, and of the B-tree the pool, the
sizes of nodes, the order of its items, that it is an ordered set, and its queries. Next
come the action iterators of the B-tree, whose steps are those of `BTree` on a path of
nodes, and the runner: type correctness, and that it calls each day of its arguments.
