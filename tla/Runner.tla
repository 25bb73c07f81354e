-------------------------------- MODULE Runner ---------------------------------
(***************************************************************************)
(* src/src/2021/main.c: the arguments, and the days it runs, once or for a *)
(* benchmark many times, each result compared with the expected one.  What *)
(* a day returns is left to the module that composes this one with the     *)
(* days.  The time limit of a benchmark may be met after any repetition.   *)
(***************************************************************************)
EXTENDS Integers, Sequences

CONSTANTS
    BenchmarkFlag,  \* "-b"
    NoNumber,       \* an argument of which strtol reads nothing
    maxreps         \* 100

VARIABLES
    pc,         \* "arguments", "run", "called", "returned", "ended", "aborted"
    argv, arg,  \* the arguments; the next one
    mode,       \* "Normal", "Benchmark"
    day,        \* the day to run, -1 for all
    current,    \* the number of the day in run
    reps,
    result

args  == <<argv, arg, mode, day>>
mvars == <<pc, args, current, reps, result>>

Days == 1 .. 25

Implemented == (1 .. 19) \cup {25}

ASSUME RunnerAssumption == maxreps \in Nat \ {0}

NoResult == [p1 |-> 0, p2 |-> 0]

main ==
    /\ pc = "arguments" /\ arg = 1
    /\ mode = "Normal" /\ day = -1
    /\ current = 1 /\ reps = 0
    /\ result = NoResult

AtArgument == pc = "arguments" /\ arg <= Len(argv)

argument_benchmark ==
    /\ AtArgument /\ argv[arg] = BenchmarkFlag
    /\ mode' = "Benchmark"
    /\ arg' = arg + 1
    /\ UNCHANGED <<pc, argv, day, current, reps, result>>

argument_day ==
    /\ AtArgument /\ argv[arg] \notin {BenchmarkFlag, NoNumber}
    /\ day' = argv[arg]
    /\ arg' = arg + 1
    /\ UNCHANGED <<pc, argv, mode, current, reps, result>>

argument_invalid ==
    /\ AtArgument /\ argv[arg] = NoNumber
    /\ pc' = "aborted"
    /\ UNCHANGED <<args, current, reps, result>>

arguments_end ==
    /\ pc = "arguments" /\ ~AtArgument
    /\ current' = IF day = -1 THEN 1 ELSE day
    /\ pc' = "run"
    /\ UNCHANGED <<args, reps, result>>

\* run returns to main.
RunEnds ==
    /\ reps' = 0
    /\ IF day = -1 /\ current < 25
       THEN pc' = "run" /\ current' = current + 1
       ELSE pc' = "ended" /\ UNCHANGED current

not_implemented ==
    /\ pc = "run" /\ current \notin Implemented
    /\ RunEnds
    /\ UNCHANGED <<args, result>>

call ==
    /\ pc = "run" /\ current \in Implemented
    /\ pc' = "called"
    /\ reps' = reps + 1
    /\ UNCHANGED <<args, current, result>>

returns(r) ==
    /\ pc = "called"
    /\ result' = r
    /\ pc' = "returned"
    /\ UNCHANGED <<args, current, reps>>

day_aborts ==
    /\ pc = "called"
    /\ pc' = "aborted"
    /\ UNCHANGED <<args, current, reps, result>>

\* assert_int64.
assert_fails(expected) ==
    /\ pc = "returned" /\ result # expected
    /\ pc' = "aborted"
    /\ UNCHANGED <<args, current, reps, result>>

repeats(expected) ==
    /\ pc = "returned" /\ result = expected
    /\ mode = "Benchmark" /\ reps < maxreps
    /\ pc' = "run"
    /\ UNCHANGED <<args, current, reps, result>>

run_ends(expected) ==
    /\ pc = "returned" /\ result = expected
    /\ RunEnds
    /\ UNCHANGED <<args, result>>

===============================================================================
