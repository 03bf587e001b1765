----------------------------- MODULE MCBenchmark -----------------------------
(***************************************************************************)
(* Up to two warmup and four measured calls of three different latencies.   *)
(***************************************************************************)
EXTENDS Benchmark

Configuration(warmup, measured, loaded) == [warmup |-> warmup, measured |-> measured, loaded |-> loaded, artifact |-> 7]
MCConfigurations ==
    {Configuration(warmup, measured, TRUE) : warmup \in 0..2, measured \in 1..4}
      \cup {Configuration(1, 1, FALSE), Configuration(1, 0, TRUE), Configuration(1000001, 1, TRUE)}
=============================================================================
