# llm-slo-bench in TLA+

A verification development of llm-slo-bench, the open-loop load generator and
SLO gate for streaming LLM endpoints. It models the parts of the program where
order, concurrency and failure decide whether the numbers it reports can be
trusted: the ramp schedule, the scheduler and its workers, a streaming request
and its timers, the server that the project tests itself with, the metrics
aggregator, the classification of outcomes, the SSE decoder, the verdict and its
exit code, the HTML report's snapshot, and the files of the `ramp` and `report`
commands.

Run things in this directory:

    tlasany LoadGen.tla
    tlc -workers 2 -config MCLoadGen_safety.cfg MCLoadGen
    tlapm LoadGenProofs.tla

## 1. The system

| Component | Source | State it keeps | Operations | Talks to |
| --- | --- | --- | --- | --- |
| Load generator | `internal/loadgen/loadgen.go` | semaphore, completions channel, in-flight count, held and known cost, counts, stop reason, outcomes; per arrival a goroutine with its dispatch stamp | `Run`: next arrival, wait, limits, admission, handshake, collect, drain, return; worker: offer, probe, classify, report; `RoundTrip` of the dispatch-deadline transport | probe (call), workers (channels), the signal context |
| Ramp schedule | same file, 124-207, with the checks of stages in `config.go` | stage, cumulative volume, next arrival | `next` | load generator (call) |
| Probe | `internal/probe/probe.go` | request context, idle timer and its callbacks, first-byte and idle channels, the result being filled | `Run`: send, answer, read, process a chunk, fail, finish | HTTP transport, server, timer goroutines, parent context |
| SSE decoder | `internal/probe/probe.go` 238-303 | pending line, data lines, `skipNextLF` | `Next`, `readLine` | probe (call) |
| Outcome classification | `loadgen.go` 392-490, `main.go` 472-489, `aggregate.go` 321-397, `jsonl.go` 97-133, `html.go` 486-556 | none: one request's result in three vocabularies | `classifyError`, `requestError`, `ClassifyOutcome`, `valuesFor`, `RequestRecordFromResult`, `validateRequestRecord` | the components around it |
| Metrics aggregator | `internal/metrics/aggregate.go` | counters, histograms and sums of the owner goroutine; `closed`, `final`, the lifecycle lock | `Record`, `RecordDropped`, `Summary`, `Close`, the owner's loop | callers (unbuffered channel of commands) |
| Request JSONL | `internal/metrics/jsonl.go` | the append-only file, the encoder and its sticky error | `OpenJSONL`, `WriteResult`, `Close` | ramp, report |
| Ramp and report commands | `cmd/llm-slo-bench/main.go` | files at `--out`, `--html`, `--raw-jsonl`, temporary files, the signal context | `runRamp`, `runReport`, `writeFileAtomically`, `exitCode` | everything above |
| SLO evaluation | `internal/slo/evaluator.go`, `main.go` 491-590 | none | `Evaluate`, `ComparePercentile`, `makeSLOOutcomes` | ramp (call) |
| Configuration | `internal/config/config.go` | none | strict YAML, `Validate` | ramp (call) |
| HTML report | `internal/report/*.go` | snapshot of the JSONL, sampled TTFT points | `WriteHTML`, `snapshotRequestJSONL`, `ttftSamples.add` | ramp, report |
| Mock server | `internal/mockserver/server.go` | request counter | handler with faults, `Serve` and its shutdown | probe, over HTTP |
| Probe and mock commands | `main.go` 83-184 | none | flags, printing | probe, mock server |

What makes each part correct, and what is hard about it:

- **Load generator.** `max_in_flight`, `max_requests` and the reserved budget
  are hard limits; arrivals are never queued; a dropped arrival never reached
  the network; counts, outcomes and slots agree; `Run` returns with nothing in
  flight. Hard: the slot of a refused start is freed by the worker and not by
  the scheduler, late drops are discovered after admission and take its effects
  back, cancellation and a cost breach may arrive between any two steps, and the
  scheduler may be asleep when workers report.
- **Probe.** A stall is reported as a stall and never as a cancellation; success
  means `[DONE]` after content; the measurements fit together; a request ends
  within its total timeout. Hard: four things may end a request at the same
  moment, from three goroutines, and the idle timer is reset while its callback
  may already run.
- **Aggregator.** Linearizable, closed once, and no call hangs on an owner that
  has exited.
- **Classification.** Three derivations of the same fact agree.
- **Schedule.** Every arrival falls on the instant at which the ramped rate has
  offered it; none is lost between two stages. Hard: the inverse of a quadratic
  in floating point, with a tolerance for volumes, one for times and one for
  slopes that do not mean the same.
- **Verdict.** Exit 0 and 1 are earned by the requests that were made: failures
  and drops over scheduled arrivals, samples of successes only, costs only with
  complete usage, thresholds that are numbers. Hard: the checks of a threshold
  or a price are spread over four packages, and NaN passes the first.
- **Report.** What is shown is a complete prefix of a file that may still grow;
  whatever fails, no copy of the request data stays behind; the strip of TTFT
  samples is even for any number of them. Hard: deferred calls whose errors
  count, and a compaction that happens once in hundreds of records.
- **Mock server.** Its faults reach the client as what they are, and a signal
  stops it although a handler sleeps. Hard: sleeps, the client's timers and the
  shutdown race.
- **Commands.** Whole documents at any moment, records of one run in a report,
  a verdict only on a complete run.

## 2. Modules

| Module | What it is | Rests on |
| --- | --- | --- |
| `Admission` | abstract specification: what the load generator promises | |
| `LoadGen` | the scheduler, the workers, the channels between them | implements `Admission` |
| `MCLoadGen` | small instances | `LoadGen` |
| `LoadGenProofs` | inductive invariant, its theorems, and that `LoadGen` implements `Admission`'s safety part; theorems of `Schedule` | `LoadGen`, `Schedule`, `SumTheorems` |
| `Probe` | one streaming request | |
| `MCProbe` | instance | `Probe` |
| `ProbeProofs` | theorems of the probe and of the decoder it reads from | `Probe`, `SSEDecoder`, `SumTheorems` |
| `Outcomes` | composition of `Probe` with every classifier of its result | extends `Probe` |
| `MCOutcomes` | instance | `Outcomes` |
| `SSEDecoder`, `MCSSEDecoder` | the decoder against a reference | |
| `Ledger` | abstract specification: a linearizable, closable log of counts | |
| `Aggregator`, `MCAggregator` | owner goroutine, command channel, read-write mutex | implements `Ledger` |
| `AggregatorProofs` | theorems, and that `Aggregator` implements `Ledger` | `Aggregator`, `SumTheorems` |
| `Ramp`, `MCRamp` | the commands and their files | |
| `RampProofs` | theorems | `Ramp` |
| `SumTheorems` | lemmas about sums over finite sets, and about their least and greatest elements | TLAPS |
| `Schedule`, `MCSchedule` | the ramp schedule against the sum of the rate over all ticks; its offsets are `LoadGen`'s constant `Offset`, its failure `ScheduleFails` | |
| `Verdict`, `MCVerdict` | from the outcomes of a run to the exit code; what `Ramp` takes as the choice `verdict` | |
| `VerdictProofs` | theorems | `Verdict`, `SumTheorems` |
| `Report`, `MCReport` | `WriteHTML` and its snapshot beside a process that appends; what `Ramp` takes as `Readable` and `Recorded` | |
| `ReportProofs` | theorems | `Report` |
| `MockServer`, `MCMockServer` | composition of `Probe` with the mock server | extends `Probe` |
| `CompositionProofs` | theorems of the two compositions of `Probe` | `Outcomes`, `MockServer`, `ProbeProofs` |

### LoadGen

A step is the code between two accesses to state that another goroutine can
change. The scheduler's `pc` names where it is in the loop of `Run`:

| Actions | Code (loadgen.go) |
| --- | --- |
| `TakeArrival`, `ScheduleEnds`, `ScheduleError` | `schedule.next`, request and duration limits, 293-309 |
| `WaitUntil` | 310 and `realClock.WaitUntil` |
| `Drain`, `FinalCollect`, `Collect` | the closures `drain` and `collect`, 254-290, 438-440 |
| `Gate` | breach, cancellation, duration and cost admission, 314-329 |
| `CheckLag`, `Acquire`, `Saturated`, `Retry` | lateness and the two attempts at the semaphore, 330-357 |
| `Spawn`, `Refuse`, `Start`, `Rejected` | reservation, `go`, and the handshake, 358-435 |
| `Return` | 441-449 |
| `Offer`, `Withdraw`, `CheckContext`, `Report` | the worker, 372-419 |
| `BeginProbe`, `RoundTrip`, `Exchange` | `probe.Run` up to the dispatch stamp, the first call of `dispatchDeadlineTransport`, and everything after it |

Choices made in the abstraction:

- The arrivals' offsets are a constant: any integers. `Schedule` says which
  offsets the code computes (they may be negative, see section 4).
- Time is in ticks since the start of the run. Money is a natural number; the
  rounding of `float64` sums is not modelled.
- The completions channel is the set of arrivals whose item is in it. Its order
  does not matter to `collect`, and its capacity is kept (`Report` blocks when
  `MaxInFlight` items are in it).
- `Run` sorts its outcomes by sequence number, so they are a function of it.
- The end of a drain, the breach check and the read of `ctx.Err()` after it are
  one step: a cancellation between them is a cancellation before or after it.
- `sent` is a history variable: the arrivals whose request was passed on to the
  base transport. Redirects, which `net/http` follows through the same transport,
  are not modelled.
- `RoundTrip` may end with a deadline error at any time: how the request's own
  timeout relates to the run's clock is `Probe`'s matter.
- Two things the code does that look odd and are kept: the stop reason
  `request_limit` may stand although later late drops gave places back, and the
  final collection may replace a stop reason by `cost_reservation_breach`.

### Probe and Outcomes

`Probe` has `Run` as one process, timer callbacks as counters of goroutines that
have fired (`fired`) and have signalled but not cancelled (`expiring`), and the
server as an environment that sends events of a few kinds, ends the stream,
breaks it, or does nothing. `ctxErr` is the request context with Go's rule that
the first cancellation is the one reported. An event that is buffered may be
read although the context is done, and a read may fail as soon as it is. Times
are in ticks, so two events of the same tick are less than a tick apart; only
two choices of the same chunk (kind `pair`) are no time apart.

`Outcomes` goes on after `Run` has returned: the worker looks at the parent
context (which may have been cancelled meanwhile), derives an error class, the
command turns the class back into an error, and the aggregator and the JSONL
writer classify that error and the status again. Durations beyond the
histogram's maximum are refused; whether a throughput is in range depends on
fractions of a tick and on token counts, and is a choice.

### SSEDecoder

Symbols instead of bytes: the word `data`, a colon, a space, other text, CR and
LF. `ReadByte` is one byte of `readLine` with what `Next` does when it completes
a line. The reference `Events` finds the events of a whole text without reading
it from left to right: a line ends at a CR, and at an LF that does not follow one
(`LineEnds`); it is what lies between its end and the CR or LF before
(`LineBefore`); the data lines of an event are those with no blank line between
them and the blank line that ends it (`DataBefore`); `InOrder` lists the ends of
events, and of the lines of one, by position.

### Aggregator

The mutex is Go's `sync.RWMutex`: `Lock` announces a writer and waits for the
readers to leave, new readers park, and `Unlock` lets the parked readers in. The
channel is unbuffered: `Send` is the rendezvous with the owner. The checks of
`valuesFor` come before the lock and touch no shared state; a refused value is a
call that is not made. Histograms are outside the model.

### Ramp

One process at a time works on the files. Every step that does I/O may fail.
`Kill` may come between any two steps; in the middle of appending a record it
may leave part of one. A document is whole or not, names the run it is of, and
an HTML document the runs whose records it shows. The order of a directory's
operations on disk (no `fsync` of the directory) and loss of power are not
modelled: a kill is the end of the process. A document is `whole` once the
temporary file was written, synced and closed without an error. The deferred
`os.Remove` drops its own error: where it fails, the temporary file stays, which
`lostTemps` counts (`RemoveTemp`). After a rename that succeeded there is nothing
left to remove. A command that is asked for its help (`Help`, `flag.ErrHelp`) ends
with 0 before the signal context is looked at. The snapshot of
the JSONL that `WriteHTML` keeps in the system's temporary directory is not
counted in `temps`: it is `Report`'s `spooled`.

### Schedule

`next` is two actions, `Emit` and `Advance`, one per turn of its loop. Time is in
ticks and volumes are integers in half-arrivals scaled by rate and second, so
that the integral of a linear rate is an integer; `arrivalTime` is the last tick
at which the integral has not passed the arrival, which is what the code's
closed formula and its truncation to nanoseconds give. The code's tolerances
are kept (`Tolerance` of an arrival, one tick of time, the same part of a squared
rate for the discriminant, and `Slopes` for the least slope). The first is what
lets a stage take an arrival that is due just after its end. There three things
may happen. The time found is within a
tick of the end, and the arrival gets the end. Or it is later (`Outside`), and
the schedule fails: less than 1e-9 of an arrival takes more than 1e-9 seconds
when the ramp would go on at less than one request a second, as on a stage of 10
seconds to 0.1999999999 requests a second. Or the ramp falls so steeply that it
would never offer the rest (`Unsolvable`), and the code takes the root of a
negative number; what becomes of NaN then differs between processors (`FromNaN`).
A slope below 1e-12 requests a second each second counts as none (`Flat`): the
code divides the volume by the rate before the stage, and so does the model,
where `slope` is then 0. On a first stage that rate is zero and the time +Inf,
which is `Outside` for every arrival. The instance's constant is far from the
code's, so that short stages come to it too.
The variable `erred` and the guard `Remaining` are the error and the loop
condition of `next`. What rounding of `float64` adds to sums over many stages is
not modelled.

The reference is the rate in the middle of each tick (`InTick`), summed up over
ticks and stages; `DueAt` is the tick on which that sum reaches the arrival.

### Verdict

The state follows `runRamp`: the checks before the run (`Configure`, which is
`config.Validate` and loadgen's `validate`), `NewAggregator`, one step per
outcome (`Process`, with `record` and the two increments of a drop), `Evaluate`,
and the end. Thresholds and prices are integers, `NaN` or `Inf`; `Less` is the
comparison that NaN fails. Latencies go to bins of width `Bin`, and a percentile
is the upper end of its bin, as hdrhistogram reports it; hdrhistogram's bins grow
with the value, which changes `Bin` and not the argument. What may become of a
request is a finite set of observations (finite in value too: evaluator.go:79-81
also refuses an observed value that is not finite, which only a cost could be, at
prices near the largest `float64`, and is left out of `Compare`), and percentiles run from 50 to 99, of
which the code uses 99: a percentile of 100 would have no sample above it.
`happened` counts how often each observation was made; totals seen from outside
are sums over it. `Evaluate` returns a set of results, one per gate, since
nothing depends on their order. Rates are fractions
compared without division. A failed, canceled or dropped outcome carries samples
in this model, so that counting them would show. One price stands for both.

### Report

One step per line copied or written, and two for an append by the other
process, so that the end of the file may be reached inside a line. Any step may
fail; `Fail` is an error with the deferred close and removal, whose own failure
is `lostSpool`. Lines are a TTFT, none, or invalid. The re-check after the stride
has doubled (html.go:434) can only skip a sample when the cap is odd: with the
code's cap of 120 it never does, and the model keeps it.

### MockServer

`Probe`'s server actions are replaced by the handler's: `Accept`, `Wake`,
`Content_i` and `Usage` write whole events and end the response when the handler
returns, and `Probe`'s other actions run beside them, restricted to the answers
this server gives. `Serve` is `SignalServer`, `ListenFails`, `Shutdown` and
`ShutdownReturns`; `Exit` is the end of the process under a handler that
`Shutdown` gave up on. A sleep ends when the request's context is done, which is
when the client has gone or the server's own context is done (`BaseContext`).

## 3. Runs

| Run | Bounds | What it shows |
| --- | --- | --- |
| `loadgen_safety` | 4 arrivals at 0, 1, 1, 2; 2 slots; 3 requests; duration 2; lag 1; reservation 2, costs 1 and 4, budget 5; clock to 3; the schedule may fail after the last arrival | slots, counts, drops, reservations, budget and limits, and the state `Run` returns in, for every interleaving |
| `loadgen_refine` | the same arrivals, the last one beyond the duration limit; every reported cost a breach; clock to 2 | `Admission` is implemented, with its fairness; no worker blocks when it reports; `Run` returns |
| `loadgen_lost` | 3 arrivals, 1 slot, the schedule may fail | violated: see finding 1 |
| `probe_pair` | 2 events | violated: see finding 2 |
| `outcomes_classes` | 3 events of 7 kinds, total timeout 2, idle timeout 1, histogram maximum 1 | idle expiry is never a cancellation, success is complete, measurements add up, a request ends whatever the server does; the vocabularies agree on it, faults are attributed, records can be read back |
| `aggregator_clients` | 3 clients, 2 entries, 1 outcome | summaries add up, nobody sends to an owner that has exited, `Ledger` is implemented (so the summary of a closed aggregator is final), calls return |
| `ramp_files` | 2 commands, 2 outcomes each | documents whole and no temporary file left but by a kill or where its removal fails, JSONL never merges records, reports show their own run, exit codes mean what the README says |
| `sse_framing` | streams of up to 6 symbols | decoding any prefix gives the events of that prefix |
| `schedule_offsets` | 1 to 3 stages of 3 or 12 ticks to rates of 0.5, 1 or 3 requests a second, a second of 5 ticks; slopes below 1/4 are none | unless a stage falls too steeply, arrivals are in order and in time, and unless a rate changes too slowly to count, every offset is the tick at which the summed rate offers the arrival; none is missing; the schedule fails only where the tolerances meet |
| `verdict_exit` | 3 outcomes of 13 kinds, 216 SLO sections, price a number, NaN or infinite, percentile 60 | exit 0, 1 and 3 against the requests themselves |
| `report_snapshot` | 6 lines, cap 2 | complete prefixes only, the spool is removed, the strip is even after two compactions |
| `mock_faults` | 2 contents, every fault after either, every second request; total timeout 2, idle timeout 1, stall 1, a shutdown timeout of 1 | the probe reports the configured fault; a signal stops the server without any sleep having to end |

Why the bounds are enough to be interesting: two slots and four arrivals give a
saturated semaphore, a completion between the two attempts, a late arrival, a
late drop after admission and a request limit that a drop gives back; costs on
both sides of the reservation give a breach with other requests in flight; one
tick of idle timeout in two or three ticks of total timeout lets the idle timer fire,
be reset after firing, and race with the total timeout; three clients are two
writers and a reader at the mutex; two commands are enough for one to find what
another, killed or interrupted, has left; six symbols hold two events, a data
line between comments, and every mixture of CR and LF; three stages hold a
ramp up, a level and a ramp down with rates on both sides of one request a
second, a short stage falls too steeply while a long one does not, and a change
by one has a slope on a short stage that counts and on a long one that does not,
both up, where arrivals may fail, and down, and from no rate at all; with
three samples a percentile of 60 differs from the maximum, as 99 does from some
hundred samples on; five samples compact a strip with a cap of two twice; two
contents put a fault after the first and after the last.
`MaxTime`, `MaxEvents`, `MaxCalls`, `MaxRuns`, `MaxOutcomes`, `MaxLength`,
`MaxStages` and `MaxRecords` are the only bounds that the code does not have. The clock's bound
reaches every arrival of `LoadGen` and the total timeout of `Probe`, which the
modules' assumptions require because progress depends on it.

Fairness:

- `LoadGen`: the clock, the scheduler and each worker. The Go runtime schedules
  every runnable goroutine; `Exchange` ends because `probe.Run` bounds it with
  `request.timeout` (that is `Termination` of `Probe`). Nothing obliges anybody
  to cancel.
- `Probe`: the clock, the runtime timer behind the total timeout, and `Run`
  where it is not blocked on the network. The server, the network and the
  parent are free. The idle timer gets no fairness: termination must not depend
  on it.
- `Aggregator`: the owner and each client's next step; strong fairness for
  `Send` and `Lock`, because Go queues blocked senders and writers in order.
  Nobody has to call.
- `Admission`: an admitted request is settled.
- `Outcomes` has `Probe`'s fairness, so that termination is checked with the
  classification running on.
- `MockServer`: a handler that may go on does, `Shutdown` is called after the
  signal, and it returns when the handler has. The clock has no fairness: the
  server must stop without waiting for any sleep, its own timeout included.
- `Ramp`, `SSEDecoder`, `Schedule`, `Verdict` and `Report` are checked for safety
  only: each is one goroutine that runs to its end.

## 4. Findings

1. `loadgen_lost`. If `schedule.next` fails during a run, `Run` returns while
   requests are in flight (loadgen.go:294-297) and their outcomes are lost,
   while `--raw-jsonl` promises one record per started request (main.go:196).
   The failure is reachable with a configuration that `Validate` accepts: the
   rounding of the last arrival of a short, nearly flat stage puts it past the
   stage's end by more than the tolerance, and a stage that rises by a slope which
   counts as none does not reach its last arrivals at the rate before it;
   `FailsOnlyAtTolerance` of `Schedule` says which loads those are.
2. `probe_pair`. Chunk intervals are taken per choice and not per event
   (probe.go:186-199); MEASUREMENT.md:22 and README.md:113 define them per
   event. With two choices in an event the interval is zero, and the histogram
   and the JSONL record refuse the request.

Observed while modelling, without a run of their own: a run that a safety limit
stopped exits with 0 if its SLOs pass (the stop reason is not looked at);
negative usage of a failed request makes the HTML report of its own run fail;
records are written after the load run, so a kill (not a signal) during it
leaves none; a parent's cancellation that races with an expired idle timer is
reported as an idle timeout; a rate gate of NaN passes `config.Validate` and is
found only after the load run, by `Evaluate`, so the run ends with 3; a latency
gate may fail on samples within a histogram bin below its threshold.

An arrival due within the tolerance after the end of a stage that falls steeply
to a low rate has no time, also without a run of its own (it is what
`OffsetsFollowRate` excludes): `arrivalTime` takes the root of a negative
discriminant (loadgen.go:203-206), NaN passes both comparisons of loadgen.go:179,
and its conversion to a `time.Duration` gives the least `int64` on amd64 and 0 on
arm64. `next` returns a negative offset, or the start of the stage, where
`Schedule` promises "absolute offsets from a run's start" (loadgen.go:125).
Stages of 1s to 9.9999994999 and of 1s to 0.000001 requests a second are such a
load, with the 10th arrival. `Run` takes it for late and drops it, or offers it
too early. `GentleLoad` says which loads are safe: ramps down from r to t over s
seconds with 2e-9 * (r - t) <= t * t * s.

A rate that changes by less than 1e-12 requests a second each second is taken for
constant, without a run of its own too (it is `SlopingLoad`'s exception in
`OffsetsFollowRate` and `RisesUnseen` in `FailsOnlyAtTolerance`). One stage of
2,000,000 seconds to 0.000001 requests a second is accepted by `Validate`, and its
only arrival, due exactly at its end, fails with a time of 1/0 (loadgen.go:200). A
later stage of 1e7 seconds from 0.00001 to 0.000019 requests a second gets its
arrivals where the constant rate 0.00001 would have them, the last ones past the
stage's end: there `next` fails.

## 5. Proofs

TLAPS proves these for every value of the constants that satisfies the modules'
assumptions. No theorem assumes more than its module's `ASSUME`: positive limits,
rates and durations (`config.Validate`), offsets within the clock's bound, finitely many arrivals,
outcomes or observations. The shape is the same everywhere: an invariant that is
inductive, `Init` establishes it, each action of `Next` keeps it, and what the
runs check follows from it.

**Load generator** (`LoadGenProofs`). The invariant that is inductive is

    IInv == Structure /\ Counting /\ Limits /\ OvershootInv /\ Balance

- `Structure` says who may be where: the shape of the state, that arrivals after
  the current one are untouched, that scheduler and worker agree on the
  handshake, that an arrival's item, channel membership and outcome exclude one
  another, and that what was sent was sent in time (`SentInTime`, which is what
  makes `DroppedNeverSent` hold).
- `Counting` is the runs' own accounting: slots, in-flight, counts and the held
  budget as cardinalities of sets of arrivals. None of the three is inductive
  without `Structure`: the steps move arrivals from one set to another, and the
  proof needs that the sets are disjoint and finite.
- `Limits` and `OvershootInv` bound the counts and the held cost. The budget
  bound after a breach needs the number of requests that may still be
  reconciled, which the slots bound.
- `Balance` follows the arrival that is neither started nor dropped. There is at
  most one, it is the scheduler's own, and it is left open only when the run was
  cancelled or breached: that is what `ReturnReconciled` says of the state in
  which `Run` returns.

From `Invariance` (`Spec => []IInv`) follow `TypeCorrectness`, `Accounting`,
`CountsBalance`, `ReservationsBalance`, `NothingLeft`, `Ceiling`, `Budget`, `Cap`
and `DropsNeverSent` as implications, and `BreachIsFinal` as an action property.

`Simulation`: the initial states map to `Admission`'s, and under `IInv` every
step of `LoadGen` is a step of `Admission` or a stutter. The two places that need
thought are `Start`, where the tentative reservation becomes the abstract one,
and `CollectDropped`, which is `GiveBack` only because a dropped arrival was
never sent.

**Schedule** (`LoadGenProofs`, last part). `ScheduleInv` is inductive: the load is
an accepted one; stage, start, rate and volume are the reference's (`Located`);
the next arrival is beyond what the earlier stages offer, by more than the
tolerance (`NextDue`); the last one came before the stage or early enough in it
(`LastBefore`, without which the order of two arrivals could not be shown); and
the two properties. The argument that a returned offset is on its tick has two
halves. `InStageIs`: the sum over the ticks of a stage is the polynomial
`Volume` that `next` inverts, for any rates whose slope counts, by `SumOdd` (odd
numbers sum to a square). `EmittedDue`: the greatest tick whose `Volume` is within the arrival's
is the one on which the sum passes it, or the last of the stage, and then the
tolerance bounds what is missing. Order and `max_duration` need only the place in
the stage (`PlaceInStage`, `EmittedInTime`), and hold for slopes that do not count
as well. `Solvable` shows that a gentle load never comes to
the negative root, and `OutsideAtTolerance` what an arrival needs to fail. Every
theorem is for any number of stages, of any rates and durations: steep and nearly
flat loads are excluded by the conditions within `OffsetsFollowRate`, not by an
assumption.

**Probe** (`ProbeProofs`). `IInv` adds to `TypeOK` that a timer exists only while
the stream is read, that a callback signals before it cancels (`TimerInv`), that
until `Run` returns a cancelled request context means a cancelled parent or a
waiting idle signal (`CancelInv`), and what has been established at each program
counter (`ProgressInv`). `IdleReported` and `SuccessEarned` follow.
`MeasureInv` relates the running values to the result: the intervals recorded so
far sum to the distance between the first and the last content, for a stream of
any length. The sum folds over a sequence that grows at its end; `SumAppended` of
`SumTheorems` is the one fact about it that is needed.

**SSE decoder** (`ProbeProofs`, second part). `DecodesPrefix` speaks of what has been
returned, which says nothing of the next step; `DecoderInv` adds that the pending
line is the text since the last line break, that `skipNextLF` is whether the last
symbol was a CR, and that the pending values are those of the data lines since
the last blank line. One more symbol leaves the lines, data lines and events of
the text before it as they were and may add one at its end (`LinesGrow`,
`EndsGrow`, `DataGrows`, `EventsGrow`): this takes the place of an induction over
the text. Behind it is `InOrderGrows`: a set with a new greatest element is listed
as before, and then that element.

**Outcomes** (`CompositionProofs`). `ClassifiedIsARequest`: the composition is a
behaviour of `Probe`, fairness included, so `Probe`'s invariant holds in it.
`FinishInv` says for each way in which a request ends which of status, `[DONE]`
and content it left, and `Classified` what each classifier has made of that.
`OneClass`, `FaultsCharged` and `RecordsAccepted` follow.

**Mock server** (`CompositionProofs`). `Probe`'s invariant carries over, since the
handler changes nothing of the request but what is on the wire and whether the
stream has ended. `ScriptInv` says that a fault which cuts the script short lies
ahead of the handler, and `FlowInv` that what `Run` has counted and what lies
ahead of it (a comment, some contents and one of four tails) make up what the
handler has written; `Reached` names the ways in which the handler may have
returned. So an end of the stream that `Run` meets is a disconnection or a
shutdown, and `[DONE]` comes after all contents: `FaultsAsConfigured`.

**Aggregator** (`AggregatorProofs`). `Protocol` is about the mutex and the
channel: which call may be at which point, that readers and the writer exclude
one another from `locked` to `unlock`, that a command in service belongs to a
client that waits for it, and that once the owner has exited the flag is set or
the one that closes still has the lock (`ClosedInTime`). With that, a client past
the check finds the owner alive: `OwnerIsThere`. `SummariesBalance` needs that
adding an entry adds one to the sum over the outcomes, and `AggregatorIsALedger`
that a call takes effect once between its start and its return: when the owner
serves it, or when it sees the flag of a closed aggregator, whose `final` is the
last `counts`.

**Commands** (`RampProofs`). `Inductive` describes each stage of a command by
what has been written, synced and renamed before it; what files held before the
command began is of earlier runs (`PastOnly`, `NotBegun`), a cut record is the
last of its file (`JsonlWhole`), and the records of this run are counted as they
are appended (`Counting`); each temporary file is the one being written, or one
that a kill or a failed removal has left (`TempsCounted`). `FilesIntact`, `PartialOnlyLast`,
`OwnRecordsOnly` and `ExitCodeMeans` follow; the last two need the whole of it,
because the report and the exit code of a command depend on every earlier
stage.

**Report** (`ReportProofs`). `Shown`: the spool is a prefix of the file and the
rows a prefix of the spool, which appends keep. `StripEven` is a separate
argument: the points kept are those whose rank among the samples is a multiple
of the stride, counted from the front (`Strip`). Dropping every second point when the strip
is full doubles the stride, whether the cap is odd or even, and the selection
after the end is the set that the ranks determine.

**Verdict** (`VerdictProofs`). `TotalsInv`: every counter, every bin of the
histograms, the samples of usage and the sum of costs are sums of `happened` over
the observations that should count, and of no other. `StageInv`: what is known of
configuration and totals at each stage, in particular that thresholds and prices
are proper where the code has checked them. `LatencyGate` is the argument about
percentiles: the rounded rank, the cumulated bins, and the width of one bin
between the value reported and the samples it stands for. `VerdictIsEarned` and
`BrokenOnlyIfSo` follow.

**Sums** (`SumTheorems`). `SumFunctionOnSet` of the community modules is a fold
that removes one chosen element after another. The induction theorems of the
library cannot be used here, since they take an operator as a parameter; the
lemmas are proved by a smallest counterexample instead, which exists because
strict inclusion of finite sets is well-founded (`Smallest`). They say that the
recursive sum exists and is unique, unfold it at any element and not only the
chosen one (`SumTake`), and give the rules for changing, splitting and comparing
sums. `Least` and `Greatest` say that a set of numbers has such elements and that
`Max` is the latter.

Only model-checked, and why:

- Liveness: `Termination`, `CallsReturn`, `ServeReturns`, and the fairness of
  `Admission`. TLAPS 1.4.5 does not reason about `ENABLED`, and so not about fairness.

Every invariant and every action property of the passing runs is proved.

## 6. Not modelled, and why

- YAML decoding, URL parsing, JSON encoding and HTML rendering: library code,
  formatting and layout; the assets of the report.
- `config.Validate`'s checks that a number is positive or a string is there: they
  are the assumptions on the constants of `LoadGen`, `Probe` and `Schedule`. The
  sum of the stages' durations, an `int64` that wraps after 292 years, is exact.
- The points of a distribution (`distributionFor`), means and maxima of
  histograms, and the cloning of summaries: no gate reads them.
- Flags and printing of the `probe` and `mock` commands, which keep no state.
- Redirects, which go out after the dispatch deadline was checked.
- Another process that appends to the JSONL of a ramp between its check for
  emptiness and its report: `Report` has the appender, `Ramp` runs one process
  at a time.
- Several connections to one mock server: its requests share only a counter.

## 7. Plan

Every component is modelled, in whole or in part, and every safety property of the runs that pass is
proved. Liveness is what remains model-checked only. What would come next:

1. A composition of `Schedule` with `LoadGen` in place of the constant `Offset`.
   `LoadGenProofs` holds for any offsets, so it would add nothing to the theorems
   but the order of arrivals, which `LoadGen` does not rely on.
2. Rounding in `Schedule`: volumes as dyadic numbers, to bound what many stages
   add to the tolerance.
