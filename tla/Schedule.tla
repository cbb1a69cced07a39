------------------------------ MODULE Schedule ------------------------------
(***************************************************************************)
(* When each request of a load is due: rampSchedule of internal/loadgen,   *)
(* on the stages that config.Validate accepts.  Each stage moves linearly  *)
(* from the rate before it to its own target, and arrival n is due when    *)
(* the integral of the rate reaches n.                                     *)
(*                                                                         *)
(* The code works in floating point with a tolerance of 1e-9, of an        *)
(* arrival and of a second.  Here arithmetic is exact and the tolerance is *)
(* kept: it is one tick (the code's is a nanosecond), and what a rate of   *)
(* one request a second offers in a tick.  So is the least slope, 1e-12,   *)
(* below which arrivalTime takes the rate for constant.  Volumes are in    *)
(* half-arrivals, scaled by RateUnit and Second.                           *)
(***************************************************************************)
EXTENDS Integers, Sequences, Functions, FiniteSetsExt

CONSTANTS
  Stages,    \* the stages a load may have: duration in ticks, target rate
  MaxStages, \* bound: stages of a load
  RateUnit,  \* the rate of one request a second
  Second,    \* ticks in a second
  Slopes,    \* slopes below 1 / Slopes, in requests a second each second, are
             \* none: 1e12 in the code
  LeastDuration \* the least time.Duration

ASSUME ScheduleAssumption ==
  /\ Stages \subseteq [duration : Nat \ {0}, target : Nat \ {0}]
  /\ LeastDuration \in Int
  /\ MaxStages \in Nat \ {0} /\ RateUnit \in Nat \ {0} /\ Second \in Nat \ {0}
  /\ Slopes \in Nat \ {0}

Arrival == 2 * RateUnit * Second
Tolerance == Arrival \div Second

VARIABLES
  stages,        \* the load's stages
  maxDuration,   \* safety.max_duration
  stage,         \* index of the current stage
  stageStart,    \* its offset
  previousRate,  \* the target of the stage before
  cumulative,    \* volume of the stages before
  nextArrival,
  offsets,       \* the offsets returned so far
  erred          \* whether next returned an error

position == <<stage, stageStart, previousRate, cumulative>>
scheduleVars == <<stages, maxDuration, position, nextArrival, offsets, erred>>

Durations == [i \in DOMAIN stages |-> stages[i].duration]
TotalDuration == SumFunction(Durations)

\* The part of config.Validate that is about the stages.
Validate == maxDuration >= TotalDuration

ScheduleInit ==
  /\ stages \in UNION {[1..n -> Stages] : n \in 1..MaxStages}
  /\ maxDuration \in {TotalDuration - 1, TotalDuration}
  /\ Validate
  /\ stage = 1 /\ stageStart = 0 /\ previousRate = 0 /\ cumulative = 0
  /\ nextArrival = 1 /\ offsets = <<>> /\ erred = FALSE

-----------------------------------------------------------------------------
Current == stages[stage]
Remaining == stage <= Len(stages) /\ ~erred
stageEndVolume == cumulative + (previousRate + Current.target) * Current.duration

\* From this rate to the target the slope is too small to count.
Flat(rate, s) ==
  /\ (s.target - rate) * Second * Slopes < RateUnit * s.duration
  /\ (rate - s.target) * Second * Slopes < RateUnit * s.duration

slope == IF Flat(previousRate, Current) THEN 0 ELSE Current.target - previousRate

\* What arrivalTime takes for the stage's volume after x ticks, and the volume of
\* the next arrival, times the duration: it solves for equality.
Volume(x) == 2 * previousRate * Current.duration * x + slope * x * x
WithinStage == (nextArrival * Arrival - cumulative) * Current.duration

\* Mutant: the slope is left out of the inverse.
arrivalTimeFlat == CHOOSE x \in 0..Current.duration :
  /\ x * (previousRate + Current.target) * Current.duration <= WithinStage
  /\ (x + 1) * (previousRate + Current.target) * Current.duration > WithinStage
       \/ x = Current.duration

\* The whole ticks before the arrival is due, at most the stage's duration.
arrivalTime == Max({x \in 0..Current.duration : Volume(x) <= WithinStage})

\* Mutant: the time is compared without a tolerance.
OutsideStrict == Volume(Current.duration) < WithinStage

\* secondsFromStart > seconds + 1e-9: where the equation has no solution, and
\* the discriminant is taken for zero, the time is 2 * volume / initialRate.
\* Without a rate and a slope it is +Inf.
Outside ==
  /\ Volume(Current.duration + 1) < WithinStage
  /\ previousRate * Current.duration * (Current.duration + 1) < WithinStage

\* The discriminant, times duration squared, is negative by 1e-9 or more, of the
\* square of a rate: the code takes its root, NaN, which passes both comparisons.
discriminant == (previousRate * Current.duration) * (previousRate * Current.duration)
                + slope * WithinStage
Unsolvable == discriminant * Second <= -(RateUnit * Current.duration) * (RateUnit * Current.duration)

\* What converting NaN to a time.Duration gives on arm64 and on amd64.
FromNaN == {0, LeastDuration}

AppendOffset(time) ==
  /\ offsets' = Append(offsets, stageStart + time)
  /\ nextArrival' = nextArrival + 1
  /\ UNCHANGED erred

\* next, when the arrival is due in this stage.
Emit ==
  /\ Remaining /\ nextArrival * Arrival <= stageEndVolume + Tolerance
  /\ \/ Unsolvable /\ \E time \in FromNaN : AppendOffset(time)
     \/ ~Unsolvable /\ ~Outside /\ AppendOffset(arrivalTime)
     \/ ~Unsolvable /\ Outside /\ erred' = TRUE /\ UNCHANGED <<nextArrival, offsets>>
  /\ UNCHANGED <<stages, maxDuration, position>>

\* The loop of next goes on to the next stage.
Advance ==
  /\ Remaining /\ nextArrival * Arrival > stageEndVolume + Tolerance
  /\ cumulative' = stageEndVolume
  /\ stageStart' = stageStart + Current.duration
  /\ previousRate' = Current.target
  /\ stage' = stage + 1
  /\ UNCHANGED <<stages, maxDuration, nextArrival, offsets, erred>>

Done == ~Remaining /\ UNCHANGED scheduleVars

ScheduleNext == Emit \/ Advance \/ Done

ScheduleSpec == ScheduleInit /\ [][ScheduleNext]_scheduleVars

-----------------------------------------------------------------------------
(***************************************************************************)
(* The reference: the rate in the middle of every tick, summed up.         *)
(***************************************************************************)
RateBefore(i) == IF i = 1 THEN 0 ELSE stages[i - 1].target
StartOf(i) == SumFunctionOnSet(Durations, 1..i - 1)
InTick(i, k) == 2 * RateBefore(i) * stages[i].duration
                + (stages[i].target - RateBefore(i)) * (2 * k + 1)
InStage(i, d) == SumFunction([k \in 0..d - 1 |-> InTick(i, k)])
StageVolumes == [j \in DOMAIN stages |-> InStage(j, stages[j].duration) \div stages[j].duration]
BeforeStage(i) == SumFunctionOnSet(StageVolumes, 1..i - 1)

\* Arrivals offered until d ticks into stage i, times Arrival and duration.
Offered(i, d) == BeforeStage(i) * stages[i].duration + InStage(i, d)

\* Arrival n falls on the tick at which the ramped rate has offered n requests;
\* rounding may only make it early by a tolerance, at the end of a stage.
DueAt(n, offset) ==
  \E i \in 1..Len(stages), d \in 0..maxDuration :
    /\ d <= stages[i].duration /\ offset = StartOf(i) + d
    /\ Offered(i, d) <= n * Arrival * stages[i].duration
    /\ IF d < stages[i].duration
         THEN Offered(i, d + 1) > n * Arrival * stages[i].duration
         ELSE Offered(i, d) >= (n * Arrival - Tolerance) * stages[i].duration

\* A ramp down, went it on past the stage's end, would offer a tolerance more
\* before its rate is zero.
Gentle(i) == 2 * RateUnit * (RateBefore(i) - stages[i].target)
             <= stages[i].target * stages[i].target * stages[i].duration
GentleLoad == \A i \in 1..Len(stages) : Gentle(i)

\* Where the rate changes, it changes by a slope that counts.
Sloping(i) == stages[i].target # RateBefore(i) => ~Flat(RateBefore(i), stages[i])
SlopingLoad == \A i \in 1..Len(stages) : Sloping(i)

\* Open-loop load offers what the stages say (Schedule's comment), none left out
\* at the end.  Unless a stage falls so far so fast that arrivalTime's equation
\* may have no solution, arrivals are in order, and none is after max_duration,
\* so that only a late run meets that limit; unless moreover a stage changes its
\* rate so slowly that it is taken for constant, every arrival is on its tick.
OffsetsFollowRate ==
  /\ GentleLoad =>
       /\ \A n \in 1..Len(offsets) : offsets[n] <= maxDuration
       /\ \A n \in 2..Len(offsets) : offsets[n - 1] <= offsets[n]
  /\ GentleLoad /\ SlopingLoad => \A n \in 1..Len(offsets) : DueAt(n, offsets[n])
  /\ stage > Len(stages) =>
       BeforeStage(stage) + Tolerance < (Len(offsets) + 1) * Arrival

\* The arrival after n comes too short a volume past the end of stage i, where
\* the ramp would go on at less than one request a second, and offer less than
\* that in a nanosecond.
MissesTheEnd(n, i) ==
  LET short == (n + 1) * Arrival - BeforeStage(i + 1)
  IN /\ 0 < short /\ short <= Tolerance
     /\ InTick(i, stages[i].duration) < Tolerance * stages[i].duration

\* The slope by which stage i rises counts as none, and at the rate before it the
\* arrival after n is due past the stage's end.
RisesUnseen(n, i) ==
  /\ RateBefore(i) < stages[i].target /\ Flat(RateBefore(i), stages[i])
  /\ BeforeStage(i) + 2 * RateBefore(i) * (stages[i].duration + 1) < (n + 1) * Arrival

\* A load that Validate accepts fails its schedule only where the tolerances
\* meet, of an arrival and of a second at a stage's end, or where a slope is
\* within the tolerance of none.
FailsOnlyAtTolerance ==
  erred => MissesTheEnd(Len(offsets), stage) \/ RisesUnseen(Len(offsets), stage)

=============================================================================
