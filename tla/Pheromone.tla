----------------------------- MODULE Pheromone -----------------------------
(***************************************************************************)
(* The pure arithmetic of src/domain/pheromone.rs, on integers.            *)
(*                                                                         *)
(* The code computes on f64 and stores f32.  Here                          *)
(*   - a novelty 1/(1+n) is kept as its neighbour count n (the map between *)
(*     the two is a bijection, and the worker itself inverts it);          *)
(*   - repulsion is in hundredths;                                         *)
(*   - a disagreement ratio is a percentage rounded up, so that comparing it *)
(*     with a whole percentage gives what the exact ratio gives;            *)
(*   - a metric is a natural number, a threshold a percentage.             *)
(***************************************************************************)
EXTENDS Integers, FiniteSets

Hundred == 100

Least(a, b) == IF a <= b THEN a ELSE b
AbsDiff(a, b) == IF a <= b THEN b - a ELSE a - b

\* novelty(round(1 / v - 1) + 1), on the count that v stands for.
NoveltyAfterOneMore(n) == n + 1

\* repulsion_increment() and the ceiling of the accumulated column.
RepulsionIncrement == Hundred
RepulsionCeiling   == 10 * Hundred

\* disagreement(): contradicts / total, clamped to one.
Disagreement(contradicts, total) ==
    IF total = 0 THEN 0
    ELSE Least(Hundred, (Hundred * contradicts + total - 1) \div total)

\* metrics_contradict(): is b worse than a by more than threshold percent?
MetricsContradict(a, b, higherBetter, threshold) ==
    /\ a # 0
    /\ Hundred * AbsDiff(a, b) >= threshold * a
    /\ IF higherBetter THEN Hundred * b < a * (Hundred - threshold)
                       ELSE Hundred * b > a * (Hundred + threshold)

(* Attraction, in any unit: one unit is what the code sets the floor to.    *)

\* attraction_boost() of a metric over the neighbourhood's best, when there is
\* one; unit stands for 1.0.  Below zero, less is taken to be better; above,
\* more is, whatever the metric's direction.
AttractionBoost(new, bests, best, cap, unit) ==
    IF bests = {} \/ best = 0 THEN unit
    ELSE LET gain == IF best < 0 THEN best - new ELSE new - best
         IN  IF gain <= 0 THEN 0 ELSE Least((unit * gain) \div AbsDiff(best, 0), cap)

\* decay_attraction(), for whole half-lives; below the floor it is zero.
DecayAttraction(current, elapsed, halfLife) ==
    IF current <= 1 THEN 0 ELSE current \div (2 ^ (elapsed \div halfLife))
=============================================================================
