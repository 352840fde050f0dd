---------------------------- MODULE Distribution ----------------------------
(***************************************************************************)
(* buildMetricSummary: quantiles, outliers and clipped histogram of one    *)
(* metric of one scenario.                                                 *)
(*                                                                         *)
(* A sample is a function from values to the number of their occurrences;  *)
(* it grows while runs are uploaded.  Quantiles and bounds are in          *)
(* hundredths of a value, percentiles in percent, so that all arithmetic   *)
(* is exact; the rounding of floats is left out.                           *)
(***************************************************************************)
EXTENDS Integers, FiniteSets, FiniteSetsExt, Functions

CONSTANTS Values,              \* the values that occur
          Batches,             \* bound: how many equal values come at a time
          MaxBatches,          \* bound: how often values come
          HistogramBinCount    \* histogramBinCount

ASSUME DistributionAssumption ==
  /\ Values \subseteq Int /\ IsFiniteSet(Values)
  /\ Batches \subseteq Nat
  /\ HistogramBinCount \in Nat \ {0}

VARIABLES sample,    \* the values so far
          batches    \* how often values have come

distributionVars == <<sample, batches>>

Percents == {1, 5, 10, 25, 50, 75, 90, 95, 99}

\* How many of the sample are among these values.
Count(these) == SumFunctionOnSet(sample, these)

\* The values below a bound, and up to it.
Below(bound) == {v \in DOMAIN sample : 100 * v < bound}

UpTo(bound) == {v \in DOMAIN sample : 100 * v <= bound}

Size == SumFunction(sample)

Occurring == {v \in DOMAIN sample : sample[v] > 0}

\* sortedValues[i], counted from 0.
Sorted(i) ==
  CHOOSE v \in Occurring : LET below == Count(Below(100 * v))
                           IN below <= i /\ i < below + sample[v]

\* Variant: the position is a share of the number of values.
PercentileOfSize(percent) ==
  LET position == Min({percent * Size, 100 * (Size - 1)})
      lower == Sorted(position \div 100)
      upper == Sorted((position + 99) \div 100)
  IN 100 * lower + (upper - lower) * (position % 100)

\* percentileCont: linear interpolation between neighbours.
Percentile(percent) ==
  LET position == percent * (Size - 1)
      lower == Sorted(position \div 100)
      upper == Sorted((position + 99) \div 100)
  IN 100 * lower + (upper - lower) * (position % 100)

LowerBound == Percentile(1)

UpperBound == Percentile(99)

\* Variant: the upper bound has no bin.
BinOpen(v) == ((v - LowerBound) * HistogramBinCount) \div (UpperBound - LowerBound)

\* The bin of a value within the bounds; the last bin includes its upper end.
Bin(v) ==
  IF v < UpperBound
  THEN ((v - LowerBound) * HistogramBinCount) \div (UpperBound - LowerBound)
  ELSE HistogramBinCount - 1

\* Equal bounds make a single bin of everything.
Bins ==
  IF LowerBound = UpperBound
  THEN [i \in {0} |-> Size]
  ELSE [i \in 0..HistogramBinCount - 1 |->
          Count({v \in UpTo(UpperBound) \ Below(LowerBound) : Bin(100 * v) = i})]

LowerCount ==
  IF LowerBound = UpperBound THEN 0 ELSE Count(Below(LowerBound))

UpperCount ==
  IF LowerBound = UpperBound THEN 0 ELSE Count(DOMAIN sample \ UpTo(UpperBound))

-----------------------------------------------------------------------------
DistributionInit ==
  /\ sample = [v \in Values |-> 0]
  /\ batches = 0

\* Runs with a value are uploaded.
UploadRuns ==
  /\ batches < MaxBatches
  /\ \E v \in Values, n \in Batches : sample' = [sample EXCEPT ![v] = @ + n]
  /\ batches' = batches + 1

DistributionSpec == DistributionInit /\ [][UploadRuns]_distributionVars

-----------------------------------------------------------------------------
(* Properties *)

\* No value is lost or counted twice: the bins and the two outlier counts add
\* up to the sample, also when values lie on the bounds.
EveryValueCounted ==
  Size > 0 => SumFunction(Bins) + LowerCount + UpperCount = Size

\* A quantile splits the sample where it should: no more values lie below it
\* than its position, rounded up, and at least its position, rounded down,
\* plus one lie at or below it.
QuantilesSplit ==
  Size > 0 =>
    \A p \in Percents :
      LET position == p * (Size - 1) IN
      /\ Count(Below(Percentile(p))) <= (position + 99) \div 100
      /\ Count(UpTo(Percentile(p))) >= (position \div 100) + 1
=============================================================================
