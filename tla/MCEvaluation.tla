---------------------------- MODULE MCEvaluation ----------------------------
(* Suites of a few iterations for TLC, every kind of outcome at each of them. *)
EXTENDS Evaluation

Workloads == {"redis", "pytorch"}

Times(wl, mode, n) == [i \in 1 .. n |-> <<wl, mode>>]
Plans ==
  { Times("pytorch", "full", 2) \o Times("pytorch", "lazy", 2) \o Times("pytorch", "lazy-prefetch", 1),
    Times("pytorch", "lazy-prefetch", 2) \o Times("pytorch", "lazy-adaptive", 2)
      \o Times("pytorch", "lazy-hot", 1),
    Times("redis", "full", 1) \o Times("redis", "lazy", 1) \o Times("pytorch", "lazy", 1)
      \o Times("pytorch", "lazy-hot", 2) }

Values(ttfr, ops, faults, prefetched, checkpoint) ==
  [ttfr_ms |-> ttfr, throughput_ops_sec |-> ops, page_faults |-> faults,
   pages_prefetched |-> prefetched, prefetch_hits |-> prefetched, hit_rate_pct |-> 50,
   total_pages_served |-> faults + prefetched, eager_pages |-> 0,
   checkpoint_time_ms |-> checkpoint]

Quick == Values(400, 80, 6, 4, 300)
Slow == Values(1700, 50, 10, 9, 310)
NoStatistics == Values(400, Bad, 0, 0, 300)
NoAnswer == Values(-1, 80, 0, 0, 300)
Error == Values(-1, 0, 0, 0, 0)
Outcomes == {Quick, Slow, NoStatistics, NoAnswer, Error}

Line(policy, whole, rate, on) == [policy |-> policy, whole |-> whole, rate |-> rate, on |-> on]
HandlerLogs ==
  { <<>>, <<Line(FALSE, TRUE, 0, FALSE), Line(TRUE, TRUE, 90, FALSE), Line(TRUE, FALSE, 0, TRUE)>> }

SweepRows == [rtt : {0, 100}, mode : {"lazy", "lazy-prefetch"}, ttfr : {-1, 300, 900}]
               \cup {[rtt |-> 100, mode |-> "lazy-adaptive", ttfr |-> Bad]}

=============================================================================
