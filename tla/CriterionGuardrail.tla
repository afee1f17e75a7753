------------------------- MODULE CriterionGuardrail --------------------------
(***************************************************************************)
(* criterion-guardrail: find the raw.csv of every required benchmark under *)
(* a baseline and a candidate name, compare the medians with a threshold   *)
(* per kind of benchmark, write a report and exit with a code.             *)
(*                                                                         *)
(* A file is its place in the tree and its samples.  Criterion writes      *)
(* <id>/<name>/raw.csv, called direct, and may leave an older layout       *)
(* <id>/<name>/new/raw.csv beside it; the walk meets files in any order.   *)
(*                                                                         *)
(* An f64 is a number: where it stands in the order of total_cmp.  A       *)
(* finite one is its value, counted in the smallest unit; the infinities   *)
(* are beyond the finite ones and the NaNs beyond the infinities.  The two *)
(* zeros are one: no divisor is a negative zero, and only there would they *)
(* differ.                                                                 *)
(***************************************************************************)
EXTENDS Integers, Sequences, FiniteSets, Functions

CONSTANTS
  Trees,            \* what may be found under the criterion root: sets of files
  Thresholds,       \* ThresholdConfig, in percents
  Malformed,        \* samples of a file that cannot be opened or parsed
  Finite,           \* the finite f64 values, in units of the smallest positive one
  Inf,              \* the place of infinity after them
  One,              \* 1.0, in units
  NanosPerSecond,   \* 1_000_000_000.0, in units
  Round(_, _)       \* the f64 nearest to a fraction of a unit

\* The precision and the range are left open; no time is so long that its
\* throughput is zero.
ASSUME FloatAssumption ==
  /\ Finite \subseteq Int /\ Inf \in Int
  /\ \A x \in Finite : -x \in Finite /\ x < Inf
  /\ One > 0 /\ One % 2 = 0
  /\ {0, 1, One \div 2, One, 50 * One, 100 * One, NanosPerSecond} \subseteq Finite
  /\ \A x \in Finite : x <= NanosPerSecond * One

\* What IEEE 754 says of Round on fractions of these numbers: it is monotone, it
\* keeps what is an f64, and halving a throughput is exact (it is never
\* subnormal).
RoundsLikeF64(Numbers) ==
  /\ \A n \in Numbers : \A d \in Numbers : d > 0 => Round(n, d) \in Finite \cup {Inf, -Inf}
  /\ \A n1, n2 \in Numbers : \A d1, d2 \in Numbers :
       d1 > 0 /\ d2 > 0 /\ n1 * d2 <= n2 * d1 => Round(n1, d1) <= Round(n2, d2)
  /\ \A x \in Finite : Round(x, 1) = x
  /\ \A time \in Finite : time > 0 =>
       LET ops == Round(NanosPerSecond * One, time)
       IN  ops # Inf => ops = 2 * Round(NanosPerSecond * One, 2 * time)

NaN == Inf + 1

Float == Finite \cup {Inf, -Inf, NaN, -NaN}

IsNaN(x) == x \in {NaN, -NaN}
IsInfinite(x) == x \in {Inf, -Inf}

\* A row of raw.csv, and a file of the tree.  Rust does not say which NaN an
\* operation returns: nan is the one that dividing this row would.
Sample == [measured_value : Float, iteration_count : Float, nan : {NaN, -NaN}]

IsFile(f) ==
  /\ f.direct \in BOOLEAN
  /\ f.samples = Malformed \/ f.samples \in Seq(Sample)

\* A path names one file.
ASSUME TreesAssumption ==
  \A t \in Trees : \A f, g \in t :
    /\ IsFile(f)
    /\ f.id = g.id /\ f.name = g.name /\ f.direct = g.direct => f = g

ASSUME ThresholdsAssumption ==
  Thresholds \in [{"throughput", "latency", "alloc_proxy"} -> Float]

Names == {"baseline", "candidate"}

\* REQUIRED_BENCHMARK_IDS, in the order they are evaluated.
RequiredBenchmarkIds ==
  << <<"routing_lookup", "exact_authority">>,
     <<"routing_lookup", "wildcard_authority">>,
     <<"publish_resolution", "source_filter_derivation">>,
     <<"ingress_registry", "register_route">>,
     <<"ingress_registry", "unregister_route">>,
     <<"egress_forwarding", "single_route_dispatch">> >>

AllocProxyBenchmarkIds ==
  {<<"routing_lookup", "wildcard_authority">>,
   <<"publish_resolution", "source_filter_derivation">>}

Required == {RequiredBenchmarkIds[i] : i \in DOMAIN RequiredBenchmarkIds}

MetricKind(id) ==
  IF id \in AllocProxyBenchmarkIds THEN "alloc_proxy"
  ELSE IF id[1] \in {"egress_forwarding", "ingress_registry"} THEN "throughput" ELSE "latency"

-----------------------------------------------------------------------------
\* The operations of f64.  A divisor here is never negative.
x \preceq y == ~IsNaN(x) /\ ~IsNaN(y) /\ x <= y

x (-) y ==
  IF IsNaN(x) \/ IsNaN(y) \/ (IsInfinite(x) /\ x = y) THEN NaN
  ELSE IF IsInfinite(x) THEN x
  ELSE IF IsInfinite(y) THEN -y
  ELSE Round(x - y, 1)

x (+) y == x (-) (-y)

x (/) y ==
  IF IsNaN(x) \/ IsNaN(y) \/ (IsInfinite(x) /\ y = Inf) \/ (x = 0 /\ y = 0) THEN NaN
  ELSE IF IsInfinite(x) \/ y = 0 THEN (IF x > 0 THEN Inf ELSE -Inf)
  ELSE IF y = Inf THEN 0
  ELSE Round(x * One, y)

\* Multiplied by 100.0.
Percent(x) == IF IsNaN(x) \/ IsInfinite(x) THEN x ELSE Round(100 * x, 1)

\* Variant: of two samples in the middle, the greater one.
UpperMedian(sorted) == sorted[(Len(sorted) \div 2) + 1]

Median(sorted) ==
  LET half == Len(sorted) \div 2
  IN  IF Len(sorted) % 2 = 1
        THEN sorted[half + 1]
        ELSE (sorted[half] (+) sorted[half + 1]) (/) (2 * One)

\* parse_median_ns_per_iter, for a file that gives a median.  A NaN is no count
\* that is refused.
Parses(samples) ==
  /\ samples \notin {Malformed, << >>}
  /\ \A i \in DOMAIN samples : ~(samples[i].iteration_count \preceq 0)

\* sort_by(total_cmp).
Sorted(values) ==
  LET order == CHOOSE p \in Bijection(DOMAIN values, DOMAIN values) :
                 \A i, j \in DOMAIN values : i < j => values[p[i]] <= values[p[j]]
  IN  [i \in DOMAIN values |-> values[order[i]]]

Ratios(samples) ==
  [i \in DOMAIN samples |->
     LET ratio == samples[i].measured_value (/) samples[i].iteration_count
     IN  IF IsNaN(ratio) THEN samples[i].nan ELSE ratio]

MedianNsPerIter(samples) == Median(Sorted(Ratios(samples)))

\* latency_delta_pct and throughput_delta_pct are Err on times that are known not
\* to be positive, though latency lets the candidate's be anything.
HasDelta(kind, b, c) == ~(b \preceq 0) /\ (kind = "throughput" => ~(c \preceq 0))

DeltaPct(kind, b, c) ==
  LET b_ops == NanosPerSecond (/) b
      c_ops == NanosPerSecond (/) c
  IN  Percent(IF kind = "throughput" THEN (b_ops (-) c_ops) (/) b_ops
                                     ELSE (c (-) b) (/) b)

-----------------------------------------------------------------------------
VARIABLES
  tree,        \* the files under the criterion root
  walking,     \* the name being discovered, or "done"
  visited,     \* the files this walk has met
  discovered,  \* per name: benchmark id to file
  evaluated,   \* how many required benchmarks have been compared
  failures,    \* ids beyond their threshold, as GuardrailReport has them
  io_failed,   \* history: a directory or the report could not be accessed
  exit_code    \* of the program, -1 while it runs

guardrailVars ==
  <<tree, walking, visited, discovered, evaluated, failures, io_failed, exit_code>>

GuardrailInit ==
  /\ tree \in Trees
  /\ walking = "baseline"
  /\ visited = {}
  /\ discovered = [n \in Names |-> << >>]
  /\ evaluated = 0 /\ failures = {}
  /\ io_failed = FALSE
  /\ exit_code = -1

Exit(code) == exit_code' = code

Running == exit_code = -1

\* Variant: the last file met is kept.
KeepLast(file, found) ==
  [id \in DOMAIN found \cup {file.id} |-> IF id = file.id THEN file ELSE found[id]]

\* discover_named_raw_csvs on one file: a direct file takes the place of one in
\* the older layout, and otherwise the first one met is kept.
Keep(file, found) ==
  IF file.id \notin DOMAIN found \/ (file.direct /\ ~found[file.id].direct)
    THEN [id \in DOMAIN found \cup {file.id} |-> IF id = file.id THEN file ELSE found[id]]
    ELSE found

\* classify_named_raw_csv_path passes over files of other names, so only the
\* files of this one are steps of the walk.
Named == {f \in tree : f.name = walking}

Visit(file) ==
  /\ Running /\ walking \in Names
  /\ file \in Named \ visited
  /\ visited' = visited \cup {file}
  /\ discovered' = [discovered EXCEPT ![walking] = Keep(file, @)]
  /\ UNCHANGED <<tree, walking, evaluated, failures, io_failed, exit_code>>

WalkEnds ==
  /\ Running /\ walking \in Names
  /\ visited = Named
  /\ walking' = IF walking = "baseline" THEN "candidate" ELSE "done"
  /\ visited' = {}
  /\ UNCHANGED <<tree, discovered, evaluated, failures, io_failed, exit_code>>

\* The root is no directory, a part of it cannot be read, or the report cannot
\* be written.
InputOutputFails ==
  /\ Running
  /\ walking \in Names \/ evaluated = Len(RequiredBenchmarkIds)
  /\ io_failed' = TRUE
  /\ Exit(1)
  /\ UNCHANGED <<tree, walking, visited, discovered, evaluated, failures>>

IdsMissing == \E id \in Required : \E n \in Names : id \notin DOMAIN discovered[n]

MissingIds ==
  /\ Running /\ walking = "done" /\ evaluated = 0
  /\ IdsMissing
  /\ Exit(1)
  /\ UNCHANGED <<tree, walking, visited, discovered, evaluated, failures, io_failed>>

WithinThreshold(id, b, c) ==
  LET kind == MetricKind(id) IN DeltaPct(kind, b, c) \preceq Thresholds[kind]

\* One turn of evaluate_guardrail's second loop: the next benchmark has both
\* medians and a delta, or the evaluation ends without a report.
Evaluate ==
  LET id == RequiredBenchmarkIds[evaluated + 1]
      samples == [n \in Names |-> discovered[n][id].samples]
      median == [n \in Names |-> MedianNsPerIter(samples[n])]
  IN  /\ Running /\ walking = "done" /\ ~IdsMissing
      /\ evaluated < Len(RequiredBenchmarkIds)
      /\ IF /\ \A n \in Names : Parses(samples[n])
            /\ HasDelta(MetricKind(id), median["baseline"], median["candidate"])
           THEN /\ evaluated' = evaluated + 1
                /\ failures' = IF WithinThreshold(id, median["baseline"], median["candidate"])
                                 THEN failures ELSE failures \cup {id}
                /\ UNCHANGED exit_code
           ELSE Exit(1) /\ UNCHANGED <<evaluated, failures>>
      /\ UNCHANGED <<tree, walking, visited, discovered, io_failed>>

\* main, with the report written.
Verdict ==
  /\ Running /\ evaluated = Len(RequiredBenchmarkIds)
  /\ Exit(IF failures = {} THEN 0 ELSE 2)
  /\ UNCHANGED <<tree, walking, visited, discovered, evaluated, failures, io_failed>>

GuardrailNext ==
  \/ \E file \in tree : Visit(file)
  \/ WalkEnds \/ MissingIds \/ Evaluate \/ Verdict
  \/ InputOutputFails

GuardrailSpec == GuardrailInit /\ [][GuardrailNext]_guardrailVars

-----------------------------------------------------------------------------
Files(name, id) == {f \in tree : f.name = name /\ f.id = id}

\* The file that stands for a benchmark: the direct one if there is one.
Chosen(name, id) ==
  CHOOSE f \in Files(name, id) : f.direct \/ \A g \in Files(name, id) : ~g.direct

\* The k-th smallest sample, by counting.
Smallest(samples, k) ==
  LET value == Ratios(samples)
      below(i) == {j \in DOMAIN samples : value[j] < value[i]}
      upTo(i) == {j \in DOMAIN samples : value[j] <= value[i]}
  IN  value[CHOOSE i \in DOMAIN samples :
              Cardinality(below(i)) < k /\ k <= Cardinality(upTo(i))]

MedianByCounting(samples) ==
  LET n == Len(samples)
  IN  IF n % 2 = 1
        THEN Smallest(samples, (n + 1) \div 2)
        ELSE (Smallest(samples, n \div 2) (+) Smallest(samples, (n \div 2) + 1)) (/) (2 * One)

Time(name, id) == MedianByCounting(Chosen(name, id).samples)

Threshold(id) == Thresholds[MetricKind(id)]

\* The computed delta is not known to be within the threshold.
Exceeds(id) ==
  ~(DeltaPct(MetricKind(id), Time("baseline", id), Time("candidate", id)) \preceq Threshold(id))

Measured(name, id) == Files(name, id) # {} /\ Parses(Chosen(name, id).samples)

Complete == \A id \in Required : \A n \in Names : Measured(n, id)

\* Whatever the order of the walk, a benchmark is measured by its direct file
\* wherever there is one, and no benchmark on disk is passed over.
DirectLayoutWins ==
  walking = "done" =>
    \A n \in Names : \A id \in Required :
      /\ id \in DOMAIN discovered[n] <=> Files(n, id) # {}
      /\ id \in DOMAIN discovered[n] => discovered[n][id] = Chosen(n, id)

\* A pass is a candidate measured on every required benchmark and within every
\* threshold.
PassIsWithinThresholds == exit_code = 0 => Complete /\ \A id \in Required : ~Exceeds(id)

\* A breach is found in files that all parse, and the report lists exactly the
\* benchmarks that are not within their thresholds.
BreachIsReported ==
  exit_code = 2 => /\ Complete
                   /\ failures = {id \in Required : Exceeds(id)}
                   /\ failures # {}

\* Anything else is left to data that cannot be judged and to input and output.
\* A breach found before the data turned out broken is not told.
ErrorIsNoVerdict ==
  exit_code = 1 =>
    \/ io_failed \/ ~Complete
    \/ \E id \in Required :
         \/ Time("baseline", id) \preceq 0
         \/ MetricKind(id) = "throughput" /\ Time("candidate", id) \preceq 0

\* Under a threshold that is not negative, a benchmark is reported because its
\* candidate is slower, or its times are no numbers that give a delta: rounding
\* makes no breach of a candidate that is not slower.
NoFalseAlarm ==
  exit_code = 2 =>
    \A id \in failures :
      LET b == Time("baseline", id)
          c == Time("candidate", id)
      IN  0 \preceq Threshold(id) =>
            \/ b < c \/ IsNaN(b) \/ IsNaN(c) \/ b = Inf
            \/ MetricKind(id) = "throughput" /\ NanosPerSecond (/) b = Inf

\* A time that is no number does not pass, and no candidate passes that takes
\* twice the baseline's time, under a threshold below the delta this makes:
\* 100 percent of the time, 50 of the throughput.
NoDoublingPasses ==
  exit_code = 0 =>
    \A id \in Required :
      LET b == Time("baseline", id)
          c == Time("candidate", id)
          doubled == IF MetricKind(id) = "throughput" THEN 50 * One ELSE 100 * One
      IN  /\ ~IsNaN(b) /\ ~IsNaN(c)
          /\ Threshold(id) < doubled => c < 2 * b

\* The exit code means what main.rs makes of it: 0 a pass, 2 a report of
\* benchmarks not within their thresholds, 1 neither.  Whatever rounding does to
\* the deltas, a candidate that is no slower is not reported and one twice as
\* slow does not pass.  Times that are no numbers end in a report, like a
\* breach, and never in a pass.
VerdictIsRight ==
  /\ PassIsWithinThresholds /\ BreachIsReported /\ ErrorIsNoVerdict
  /\ NoFalseAlarm /\ NoDoublingPasses

=============================================================================
