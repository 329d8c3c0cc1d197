--------------------------- MODULE ProviderMeter ---------------------------
(***************************************************************************)
(* What a run may spend at a provider: the cost cap its actor configured,  *)
(* frozen in the run's row when the run begins; the provider requests of   *)
(* its samplings, each through the retry wrapper; and the usage the runtime *)
(* records in that row, in one transaction per sampling, before it goes on. *)
(*                                                                         *)
(* Million and IntMax stand for 1_000_000 and i64::MAX.  A rate card is    *)
(* [cur, inRate, outRate], a cap [cur, max], a usage [in, out, total].      *)
(***************************************************************************)
EXTENDS Naturals, Sequences

CONSTANTS
    Rates,        \* the rate cards the operator configured, one per route
    Caps,         \* the caps a user may configure
    Usages,       \* what one response may report
    MaxOutput,    \* max_output_tokens of a request
    StepCap,      \* TOOL_STEP_CAP: continuations of a run
    MaxRetries,   \* max_retries of the retry wrapper
    Million,      \* micro units are counted in Million parts
    IntMax,       \* the largest value a bigint column holds
    MaxEdits,     \* bound: changes of the settings in a behaviour
    Blank         \* no cap, no rate card, no usage, no cost

MeterAssumption ==
    /\ StepCap \in Nat /\ MaxRetries \in Nat /\ MaxEdits \in Nat
    /\ Million \in Nat \ {0} /\ MaxOutput \in Nat \ {0} /\ IntMax \in Nat
    /\ \A r \in Rates : {r.inRate, r.outRate} \subseteq Nat
    /\ \A c \in Caps : c.max \in Nat \ {0}
    /\ \A u \in Usages : {u.in, u.out, u.total} \subseteq Nat
    /\ Blank \notin Rates \cup Caps \cup Usages \cup [micro : Nat, rem : Nat]

VARIABLES
    setting,    \* user_run_cost_budgets: the actor's cap
    route,      \* the rate card of the agent's configured route, if it has one
    bill,       \* the metering columns of the run's row
    sampler,    \* the executor of the run
    requests,   \* provider requests sent, per sampling
    heard,      \* sessions whose events reached the executor, per sampling
    billed,     \* the usages recorded, in order (history)
    spent,      \* what they cost in Million parts of a micro unit (history)
    edits

meterVars == <<setting, route, bill, sampler, requests, heard, billed, spent, edits>>

Ceiling == MaxOutput * (StepCap + 1)

NoCost == [micro |-> 0, rem |-> 0]
Unmetered ==
    [status |-> "none", cap |-> Blank, ceiling |-> Blank, in |-> 0, out |-> 0,
     total |-> 0, next |-> 0, last |-> Blank, rate |-> Blank, cost |-> Blank]
NewSampler ==
    [pc |-> "begin", sampling |-> 0, retries |-> 0, seen |-> FALSE, bound |-> FALSE,
     rate |-> Blank, cap |-> Blank, usage |-> Blank, end |-> Blank]

MeterInit ==
    /\ setting \in Caps \cup {Blank}
    /\ route \in Rates \cup {Blank}
    /\ bill = Unmetered
    /\ sampler = NewSampler
    /\ requests = [s \in 0..StepCap |-> 0]
    /\ heard = [s \in 0..StepCap |-> 0]
    /\ billed = <<>> /\ spent = 0
    /\ edits = 0

-----------------------------------------------------------------------------
(* Settings.  They may change at any time, also between two samplings. *)

replace(cap) ==
    /\ edits < MaxEdits
    /\ setting' = cap
    /\ edits' = edits + 1
    /\ UNCHANGED <<route, bill, sampler, requests, heard, billed, spent>>

reroute(rate) ==
    /\ edits < MaxEdits
    /\ route' = rate
    /\ edits' = edits + 1
    /\ UNCHANGED <<setting, bill, sampler, requests, heard, billed, spent>>

-----------------------------------------------------------------------------
(* The executor. *)

\* The run begins: the actor's cap of this moment is copied into its row.
begin_run ==
    /\ sampler.pc = "begin"
    /\ bill' = [bill EXCEPT !.status = "running", !.cap = setting]
    /\ sampler' = [sampler EXCEPT !.pc = "load"]
    /\ UNCHANGED <<setting, route, requests, heard, billed, spent, edits>>

Halts(why) == sampler' = [sampler EXCEPT !.pc = "over", !.end = why]

\* Another executor or a cancellation ended the run, and this one cannot tell yet.
lose_run ==
    /\ bill.status = "running"
    /\ bill' = [bill EXCEPT !.status = "ended"]
    /\ UNCHANGED <<setting, route, sampler, requests, heard, billed, spent, edits>>

\* A terminal is committed by the executor itself.
settle ==
    /\ sampler.pc = "over"
    /\ bill.status = "running"
    /\ bill' = [bill EXCEPT !.status = "ended"]
    /\ UNCHANGED <<setting, route, sampler, requests, heard, billed, spent, edits>>

\* A cancellation, the deadline or a failed renewal while the executor waits.
abandon_run ==
    /\ sampler.pc \notin {"begin", "over"}
    /\ Halts("abandoned")
    /\ UNCHANGED <<setting, route, bill, requests, heard, billed, spent, edits>>

Priced(cap, rate) == cap # Blank => (rate # Blank /\ rate.cur = cap.cur)

\* One trip round the loop: the context is read and compared with what the
\* first sampling was bound to.
load ==
    /\ sampler.pc = "load"
    /\ IF sampler.sampling > StepCap THEN Halts("step_cap")
       ELSE IF ~Priced(bill.cap, route) THEN Halts("cost_refused")
       ELSE IF sampler.bound /\ (sampler.rate # route \/ sampler.cap # bill.cap)
       THEN Halts("rebound")
       ELSE sampler' = [sampler EXCEPT !.pc = "start", !.bound = TRUE, !.retries = 0,
                                 !.rate = route, !.cap = bill.cap]
    /\ UNCHANGED <<setting, route, bill, requests, heard, billed, spent, edits>>

CanRetry == sampler.retries < MaxRetries

\* The wrapper asks for a session and waits for its first event.
start_session ==
    /\ sampler.pc = "start"
    /\ requests' = [requests EXCEPT ![sampler.sampling] = @ + 1]
    /\ sampler' = [sampler EXCEPT !.pc = "first"]
    /\ UNCHANGED <<setting, route, bill, heard, billed, spent, edits>>

\* No connection, or an immediate 429 or 5xx: the only answers that are retried.
first_unavailable ==
    /\ sampler.pc = "first"
    /\ IF CanRetry
       THEN sampler' = [sampler EXCEPT !.pc = "start", !.retries = @ + 1]
       ELSE Halts("provider_failed")
    /\ UNCHANGED <<setting, route, bill, requests, heard, billed, spent, edits>>

\* A port error that may have reached the vendor.
first_unknown ==
    /\ sampler.pc = "first"
    /\ Halts("provider_failed")
    /\ UNCHANGED <<setting, route, bill, requests, heard, billed, spent, edits>>

\* Any other first event opens the session (PrefetchedSession hands it on).
first_event ==
    /\ sampler.pc = "first"
    /\ heard' = [heard EXCEPT ![sampler.sampling] = @ + 1]
    /\ sampler' = [sampler EXCEPT !.pc = "stream", !.seen = FALSE]
    /\ UNCHANGED <<setting, route, bill, requests, billed, spent, edits>>

\* A second or a contradictory usage is refused before it is recorded.
stream_usage(u) ==
    /\ sampler.pc = "stream"
    /\ IF sampler.seen \/ u.total < u.in + u.out
       THEN Halts("invalid_response")
       ELSE sampler' = [sampler EXCEPT !.pc = "record", !.usage = u]
    /\ UNCHANGED <<setting, route, bill, requests, heard, billed, spent, edits>>

Metered == sampler.seen

\* Completed with tool calls: the tools run and the loop starts again.
sampled_tools ==
    /\ sampler.pc = "stream"
    /\ IF Metered
       THEN sampler' = [sampler EXCEPT !.pc = "load", !.sampling = @ + 1]
       ELSE Halts("invalid_response")
    /\ UNCHANGED <<setting, route, bill, requests, heard, billed, spent, edits>>

sampled_answer ==
    /\ sampler.pc = "stream"
    /\ Halts(IF Metered THEN "answered" ELSE "invalid_response")
    /\ UNCHANGED <<setting, route, bill, requests, heard, billed, spent, edits>>

stream_fails ==
    /\ sampler.pc = "stream"
    /\ Halts("provider_failed")
    /\ UNCHANGED <<setting, route, bill, requests, heard, billed, spent, edits>>

-----------------------------------------------------------------------------
(* record_provider_usage: one transaction under the run's row lock. *)

\* Mutant: every sampling is rounded to whole micro units on its own.
RoundedEach(cost, u, rate) ==
    [micro |-> cost.micro + (u.in * rate.inRate + u.out * rate.outRate) \div Million,
     rem |-> 0]

\* What a usage costs at a tariff, in Million parts of a micro unit.
Price(u, rate) ==
    IF rate = Blank THEN 0 ELSE u.in * rate.inRate + u.out * rate.outRate

\* Exact: whole micro units, and what is left over in Million parts.
accrue(cost, u, rate) ==
    LET numerator == u.in * rate.inRate + u.out * rate.outRate + cost.rem
    IN  [micro |-> cost.micro + numerator \div Million, rem |-> numerator % Million]

BilledUpperBound(cost) == cost.micro + (IF cost.rem # 0 THEN 1 ELSE 0)

\* The cap, the ceiling and the rate card a record names are those of the row.
SameTerms ==
    /\ bill.cap = sampler.cap
    /\ \/ bill.next = 0 /\ bill.ceiling \in {Blank, Ceiling}
       \/ bill.next > 0 /\ bill.ceiling = Ceiling /\ bill.rate = sampler.rate

Admitted == bill.status = "running" /\ Priced(sampler.cap, sampler.rate) /\ SameTerms

\* The answer for the totals a row holds.
Receipt(r) ==
    IF r.out > Ceiling THEN "run_tokens_exceeded"
    ELSE IF r.cap # Blank /\ r.cost # Blank /\ BilledUpperBound(r.cost) > r.cap.max
         THEN "run_cost_exceeded"
         ELSE "recorded"

\* The row with this sampling added to it.
WithUsage(u) ==
    [bill EXCEPT !.ceiling = Ceiling, !.in = @ + u.in, !.out = @ + u.out,
                !.total = @ + u.total, !.next = @ + 1, !.last = u,
                !.rate = sampler.rate,
                !.cost = IF sampler.rate = Blank THEN Blank
                         ELSE accrue(IF @ = Blank THEN NoCost ELSE @, u, sampler.rate)]

Fits(r) == /\ r.total <= IntMax /\ r.in + r.out <= IntMax
           /\ r.cost # Blank => r.cost.micro <= IntMax

\* The record is written; its answer arrives or is lost with the connection.
record_commits(arrives) ==
    LET u == sampler.usage
        r == WithUsage(u)
        receipt == Receipt(r)
    IN  /\ sampler.pc = "record"
        /\ Admitted
        /\ sampler.sampling = bill.next
        /\ Fits(r)
        /\ bill' = r
        /\ billed' = Append(billed, [u |-> u, rate |-> sampler.rate])
        /\ spent' = spent + Price(u, sampler.rate)
        /\ IF ~arrives THEN Halts("commit_unknown")
           ELSE IF receipt # "recorded" THEN Halts(receipt)
           ELSE IF u.out > MaxOutput THEN Halts("sampling_tokens_exceeded")
           ELSE sampler' = [sampler EXCEPT !.pc = "stream", !.seen = TRUE, !.usage = Blank]
        /\ UNCHANGED <<setting, route, requests, heard, edits>>

\* (An exact repetition of the last record would be answered from the row; the
\* executor records a sampling once, so nothing reaches that branch.)

\* A record that names another index, other terms, a run that is over, or
\* totals a column cannot hold; or the database did not answer at all.
record_refused ==
    /\ sampler.pc = "record"
    /\ Halts(IF bill.status # "running" THEN "lease_lost" ELSE "commit_unknown")
    /\ UNCHANGED <<setting, route, bill, requests, heard, billed, spent, edits>>

-----------------------------------------------------------------------------
Settings ==
    \/ \E cap \in Caps \cup {Blank} : replace(cap)
    \/ \E rate \in Rates \cup {Blank} : reroute(rate)

Sampling ==
    \/ load \/ start_session \/ first_unavailable \/ first_unknown \/ first_event
    \/ \E u \in Usages : stream_usage(u)
    \/ sampled_tools \/ sampled_answer \/ stream_fails
    \/ \E arrives \in BOOLEAN : record_commits(arrives)
    \/ record_refused

MeterNext == Settings \/ begin_run \/ lose_run \/ settle \/ abandon_run \/ Sampling

MeterSpec == MeterInit /\ [][MeterNext]_meterVars

-----------------------------------------------------------------------------
(* Properties. *)

\* Every variable keeps its shape.
MeterTypeOK ==
    /\ setting \in Caps \cup {Blank}
    /\ route \in Rates \cup {Blank}
    /\ bill.status \in {"none", "running", "ended"}
    /\ bill.cap \in Caps \cup {Blank}
    /\ bill.ceiling \in {Blank, Ceiling}
    /\ {bill.in, bill.out, bill.total} \subseteq 0..IntMax
    /\ bill.next \in 0..StepCap + 1
    /\ bill.last \in Usages \cup {Blank}
    /\ bill.rate \in Rates \cup {Blank}
    /\ bill.cost # Blank => bill.cost.micro \in 0..IntMax /\ bill.cost.rem \in 0..Million - 1
    /\ sampler.pc \in {"begin", "load", "start", "first", "stream", "record", "over"}
    /\ sampler.sampling \in 0..StepCap + 1

\* The bound in the row is the exact cost of every usage recorded: nothing is
\* rounded away between samplings and nothing is counted twice
\* (ProviderCostUpperBound::accrue, record_provider_usage).
CostIsExact ==
    bill.cost # Blank => bill.cost.micro * Million + bill.cost.rem = spent

\* No provider request is sent for a run whose recorded usage has passed its
\* cap or its output ceiling, whatever became of the answer to that record.
SpendStops ==
    [][requests' # requests =>
          /\ bill.out <= Ceiling
          /\ bill.cap # Blank /\ bill.cost # Blank =>
                bill.cost.micro * Million + bill.cost.rem <= bill.cap.max * Million]_meterVars

\* A continuation is requested only when every earlier sampling of the run is
\* in its row (the usage gate before tools, handle_provider_event).
EverySamplingIsRecorded ==
    \A s \in DOMAIN requests : requests[s] > 0 => Len(billed) >= s

\* A request under a cap is priced in the cap's currency, and at the rate the
\* earlier samplings of the run were priced at, although the agent's route may
\* change between two samplings.
OneTariff ==
    [][requests' # requests =>
          /\ bill.cap # Blank => sampler.rate # Blank /\ sampler.rate.cur = bill.cap.cur
          /\ \A i \in DOMAIN billed : billed[i].rate = sampler.rate]_meterVars

\* A sampling reaches the vendor at most once per retry the wrapper allows, and
\* only one of its sessions is ever read: what the model said is never replayed.
RetriesAreBounded ==
    \A s \in DOMAIN requests : requests[s] <= MaxRetries + 1 /\ heard[s] <= 1

\* What a run may spend: its cost is exact, a continuation has every earlier
\* sampling in the row, and retries are bounded (record_provider_usage, execute,
\* RetryingProvider::start).
MeterSafety ==
    MeterTypeOK /\ CostIsExact /\ EverySamplingIsRecorded /\ RetriesAreBounded
=============================================================================
