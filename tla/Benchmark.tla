------------------------------ MODULE Benchmark ------------------------------
(***************************************************************************)
(* runPerformanceBenchmark(), calculateStatistics() and                     *)
(* writeBenchmarkJson() (core/benchmark).  Another thread may ask for       *)
(* cancellation at any time.  A latency stands for the four timings of a    *)
(* call, which are collected and summarised alike.  Statistics are in       *)
(* hundredths of the unit of the latencies.                                 *)
(***************************************************************************)
EXTENDS Integers, Sequences, FiniteSets, SequencesExt, Functions, Subsequences

CONSTANTS Configurations,   \* [warmup, measured, loaded, artifact]
          Latencies,        \* the timings a call may report; Invalid is not finite
          Invalid

\* The counts are unsigned.
ASSUME ConfigurationsAssumption == \A c \in Configurations : c.warmup \in Nat /\ c.measured \in Nat

ASSUME LatenciesAssumption == Latencies \ {Invalid} \subseteq Nat

VARIABLES
    config,     \* the arguments
    phase,      \* where the run, and then the writing of its result, has got to
    iteration,  \* of the loop of the phase
    cancelled,  \* the flag another thread sets
    calls,      \* the calls of detect(): [time, late], late if cancelled before
    samples,    \* the timings collected
    result,     \* BenchmarkResult
    file        \* what the destination holds on the disk

benchmarkVars == <<config, phase, iteration, cancelled, calls, samples, result, file>>

Unavailable == -1
Zero == [mean |-> 0, minimum |-> 0, maximum |-> 0, p50 |-> 0, p95 |-> 0, p99 |-> 0]
EmptyResult == [measured |-> 0, loadMs |-> 0, total |-> Zero, fps |-> 0, ram |-> Unavailable, artifact |-> Unavailable]
OldFile == [EmptyResult EXCEPT !.measured = Unavailable]
EmptyFile == [OldFile EXCEPT !.ram = 0]

BenchmarkInit ==
    /\ config \in Configurations
    /\ phase = "start" /\ iteration = 0 /\ cancelled = FALSE
    /\ calls = <<>> /\ samples = <<>> /\ result = EmptyResult /\ file = OldFile

Cancel ==
    /\ ~cancelled /\ phase \in {"warmup", "warmupCall", "measure", "measureCall"}
    /\ cancelled' = TRUE
    /\ UNCHANGED <<config, phase, iteration, calls, samples, result, file>>

MostIterations == 1000000
CountsValid == config.measured \in 1..MostIterations /\ config.warmup <= MostIterations

Start ==
    /\ phase = "start"
    /\ phase' = IF config.loaded /\ CountsValid THEN "warmup" ELSE "failed"
    /\ UNCHANGED <<config, iteration, cancelled, calls, samples, result, file>>

\* The loop condition and the cancellation check of an iteration.
Iterate(loop, count, call, next) ==
    /\ phase = loop
    /\ IF iteration < count
         THEN phase' = (IF cancelled THEN "cancelled" ELSE call) /\ UNCHANGED iteration
         ELSE phase' = next /\ iteration' = 0
    /\ UNCHANGED <<config, cancelled, calls, samples, result, file>>
IterateWarmup == Iterate("warmup", config.warmup, "warmupCall", "measure")

IterateMeasure == Iterate("measure", config.measured, "measureCall", "statistics")

Call(time) == calls' = Append(calls, [time |-> time, late |-> cancelled])

\* A faulty variant: the timings of the warmup are collected.
WarmupCallCollected ==
    /\ phase = "warmupCall"
    /\ \E time \in Latencies : Call(time) /\ samples' = Append(samples, time)
    /\ phase' = "warmup" /\ iteration' = iteration + 1
    /\ UNCHANGED <<config, cancelled, result, file>>

WarmupCall ==
    /\ phase = "warmupCall"
    /\ \E time \in Latencies : Call(time)
    /\ phase' = "warmup" /\ iteration' = iteration + 1
    /\ UNCHANGED <<config, cancelled, samples, result, file>>

MeasureCall ==
    /\ phase = "measureCall"
    /\ \E time \in Latencies : Call(time) /\ samples' = Append(samples, time)
    /\ phase' = "measure" /\ iteration' = iteration + 1
    /\ UNCHANGED <<config, cancelled, result, file>>

CallFails ==
    /\ phase \in {"warmupCall", "measureCall"}
    /\ phase' = "failed"
    /\ UNCHANGED <<config, iteration, cancelled, calls, samples, result, file>>

\* Linear interpolation between the two samples around the position of the percentile.
Percentile(sorted, percent) ==
    LET index == percent * (Len(sorted) - 1)
        lower == index \div 100
        fraction == index % 100
        upper == IF fraction = 0 THEN lower ELSE lower + 1
    IN sorted[lower + 1] * (100 - fraction) + sorted[upper + 1] * fraction

Sorted(values) == [k \in DOMAIN values |-> values[SortedPlaces(values)[k]]]

Statistics(values) ==
    LET sorted == Sorted(values) IN
    [mean |-> (100 * SumOf(sorted)) \div Len(sorted), minimum |-> 100 * Head(sorted), maximum |-> 100 * Last(sorted),
     p50 |-> Percentile(sorted, 50), p95 |-> Percentile(sorted, 95), p99 |-> Percentile(sorted, 99)]

\* Hundredths of a millisecond.
Second == 100000

\* model_load_ms and the memory telemetry keep their initial values.
Summarise ==
    /\ phase = "statistics"
    /\ IF Invalid \in Range(samples) THEN phase' = "failed" /\ UNCHANGED result
       ELSE LET total == Statistics(samples) IN
            /\ phase' = "finished"
            /\ result' = [EmptyResult EXCEPT !.measured = config.measured, !.total = total, !.artifact = config.artifact,
                                             !.fps = IF total.mean > 0 THEN Second \div total.mean ELSE 0]
    /\ UNCHANGED <<config, iteration, cancelled, calls, samples, file>>

\* The destination is truncated; what is written waits in the buffer of the stream.
OpenFails ==
    /\ phase = "finished" /\ phase' = "writeFailed"
    /\ UNCHANGED <<config, iteration, cancelled, calls, samples, result, file>>
Open ==
    /\ phase = "finished" /\ phase' = "buffered"
    /\ file' = EmptyFile
    /\ UNCHANGED <<config, iteration, cancelled, calls, samples, result>>

\* The state of the stream is tested before the destructor flushes it, so that only a text larger than
\* the buffer shows a full disk.
WriteFails ==
    /\ phase = "buffered" /\ phase' = "writeFailed"
    /\ UNCHANGED <<config, iteration, cancelled, calls, samples, result, file>>
Written ==
    /\ phase = "buffered" /\ phase' = "written"
    /\ file' \in {EmptyFile, result}
    /\ UNCHANGED <<config, iteration, cancelled, calls, samples, result>>

BenchmarkNext ==
    \/ Cancel \/ Start \/ IterateWarmup \/ IterateMeasure \/ WarmupCall \/ MeasureCall \/ CallFails \/ Summarise
    \/ OpenFails \/ Open \/ WriteFails \/ Written
BenchmarkSpec == BenchmarkInit /\ [][BenchmarkNext]_benchmarkVars

-----------------------------------------------------------------------------
\* A result is of the measured calls alone, all of them, in their order: warmup is never counted.
MeasuredOnly ==
    /\ result.measured = config.measured
    /\ samples = [i \in 1..config.measured |-> calls[config.warmup + i].time]
    /\ Len(calls) = config.warmup + config.measured

\* The statistics of the samples are in order, and none lies outside them.
InOrder(s, values) ==
    /\ s.minimum <= s.p50 /\ s.p50 <= s.p95 /\ s.p95 <= s.p99 /\ s.p99 <= s.maximum
    /\ s.minimum <= s.mean /\ s.mean <= s.maximum
    /\ \A i \in DOMAIN values : 100 * values[i] \in s.minimum..s.maximum
StatisticsOrdered == InOrder(result.total, samples)

\* A benchmark that finishes has measured what it says: MeasuredOnly and StatisticsOrdered.  After it was
\* cancelled at most the call that was about to begin is made, and one with work left yields no result and
\* leaves an older file alone.
FinishedIsMeasured ==
    /\ phase = "finished" \/ file # OldFile => MeasuredOnly /\ StatisticsOrdered
    /\ Cardinality({i \in DOMAIN calls : calls[i].late}) <= 1
    /\ phase = "finished" /\ cancelled => \A i \in 1..(Len(calls) - 1) : ~calls[i].late
=============================================================================
