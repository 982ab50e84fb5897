# Verification of setup-order

setup-order runs trading setups against Interactive Brokers TWS: a FastAPI
application around one asyncio event loop, an SQLite repository and a broker
connector, with a research side that scans, forecasts, learns and turns text
into setups. This directory holds TLA+ models of the parts that move orders and
of the ledgers of the research side, the TLC configurations that check them,
and TLAPS proofs about them. Paths are relative to `src/`; `PROJECT.json` maps
every definition to its lines.

## How the program executes

Everything that touches an order runs on one event loop. A coroutine keeps the
loop until it reaches an `await` that really suspends; awaiting a coroutine that
never suspends lets nobody in. With TWS (`app/broker/tws_connector.py`)

- `submit_order` suspends twice: contract qualification and a sleep of 0.2 s
  after `placeOrder`; `modify_stop_order` sleeps 0.2 s;
- `open_orders` and `positions` wait at most 2 s for a refresh and swallow its
  failure; `account_summary` waits without a limit when it has no cached values;
- `connect` waits up to five seconds for each of fifteen client ids;
- `cancel_order`, `order_statuses`, `recent_executions` and `status` never
  suspend. The repository is synchronous.

So on the event loop the unit of atomicity is the code between two suspending
awaits, and one action stands for all of it. The tasks that interleave are the
monitor loop (health check, reconciliation, stock poll under `wait_for`,
revalidation), API requests, TWS itself and the connection.

The research jobs run in worker threads (`asyncio.to_thread`) while routes run
the same code on the event loop; the database lock covers one statement. There
an action is one statement, or statements no other actor can tell from one.

## Inventory

| component | state it keeps | operations | module |
|---|---|---|---|
| order manager | order rows, setup status | place entry and stop, cancel, manual order | BracketEntry, OrderReconciliation, StopProtection |
| entry order executor | none | the gates, then the entry, then the record | BracketEntry, EntryDecision, SetupLifecycle, EntryGate |
| stock market monitor, signal engine | poll health | polls, batches of evaluations | BracketEntry, MarketFeed, SetupLifecycle |
| setup strategies | none | snapshot to signal | SetupMachine, EntryPricing |
| trade guards | `circuit_breakers` row | verdicts, records of entries and closes | CircuitBreaker |
| risk engine, costs, session policy | none | sizes, budgets, windows | EntryPricing, EntryDecision |
| reconciliation | last report | read TWS, rewrite rows and statuses, adopt positions | OrderReconciliation, StopProtection, EntryGate |
| broker reality | saved report | judge, gate | EntryGate |
| TWS connector | session, caches, registry of quotes | connect, orders, market data | TwsConnection, MarketFeed |
| trading engine | runtime row, current broker | monitor loop, emergency stop, resume, pause, switch, arming | RuntimeControl, TwsConnection, SetupLifecycle |
| setup engine, state machine, lifecycle | setup rows | save, arm, transition, revalidate | SetupMachine, SetupLifecycle |
| stop modification, position manager | stop price, three copies of it | raise | StopProtection |
| manual orders | none | preview, submit | StopProtection (sells), EntryDecision (buys) |
| opportunity scanner | opportunities, outcomes, techniques | scan, sweep, judge, learn | ScannerRules, OpportunityRadar, TechniqueLearning |
| forecasting | forecast rows, outcomes, scorecards | run models, judge, consensus | ForecastRuns, ForecastAccuracy |
| conversion, intelligence | analyses | analyse, resolve, select, roll back | SetupConfigs, SemanticAnalyses |
| API, GUI, reports, storage plumbing | | I/O, presentation | not modelled |

What is hard: a duplicate check two waits away from the row it will later read;
a parent that must not outlive a failed stop; a poll timeout that cancels a
bracket at any wait; a connector that turns a lost connection into empty
answers; a status computed before a wait and stored after it; signals handled
after the waits of earlier ones; a stop price kept three times; reconnects that
overlap; threads that ask and write in two statements. `PROJECT.json` lists the
hazards at their lines, each with the properties that watch it or a note that
says why none does.

What makes the parts correct: an entry goes live only with its stop and has an
active row; a failed protection cancels the entry or flags the setup; rows and
TWS converge after any failure; a row never shows less protection than it
claims; a tripped breaker stays tripped for its day; an entry stays within its
budget and leaves only on facts that allow it; one session is up at a time; an
opportunity, an outcome, a promotion, a forecast and a rollback each rest on
the record they name.

## Modules

**BracketEntry** is the pipeline from an ENTRY_READY signal to a bracket at TWS.
Bracket *i* is the *i*-th parent submitted, `phase[i]` the wait its coroutine is
in:

| phase | code |
|---|---|
| `qualifyParent` | `submit_order(parent)` waits for `_qualify_contract` |
| `sentParent` | `placeOrder(transmit=False)` done, the 0.2 s sleep |
| `qualifyStop` | parent row saved, `submit_order(stop)` qualifies |
| `sentStop` | `placeOrder(transmit=True)` done, the 0.2 s sleep |
| `placed`, `failed`, `raised`, `aborted` | returned, returned after a failure, left by an exception, cancelled by the poll timeout |

`row`, `stopRow`, `status` are SQLite columns, `parent` and `child` the legs at
TWS, `queue[t]` the signals of a batch still to handle, `session` the orders the
connector's session knows. `Refuse` is any gate that refuses. The `Tws...`
actions are TWS and its user (external). The model has one symbol: a poll of
several gathers its coroutines without `return_exceptions`, so
`PollBracketEnds` speaks of a poll of one.

**ProtectedEntry** (abstract) is what the pipeline promises of a bracket: an
entry is requested, booked, goes live in one step with its protection, and
stays on the books while it is live, until it is revoked. BracketEntry
implements it through `Promise == INSTANCE ProtectedEntry WITH ...`
(`KeepsItsPromise`). An entry whose cancel is under way is revoked and still
live: `cancel_order` has only sent the request, the row is closed, and TWS may
fill it yet. That exception is in the promise; no other lets a live entry leave
the books.

**OrderReconciliation** extends BracketEntry by reconciliation runs with three
waits (positions, open orders, account values) and API cancels; a run applies
what it was answered, however old. **RuntimeControl** extends BracketEntry by
the monitor loop, resume, pause, force_sync, snapshots, a switch of the
connector, the emergency stop and restarts. A switch is taken for a lost
connection and a new one that writes the runtime row; what it does to a bracket
on its way is a finding. What `stop()` writes is overwritten by the next
`start()`, so a restart stands for both. The poll evaluates one batch per symbol
on the status its heartbeat read; none of them looks at it again.

**CircuitBreaker** (instance MCCircuitBreaker) is `CircuitBreakerTracker`: `st`
is the stored row, `entering` the coroutines between the gate and the record;
`page`, `opened`, `hit` are what really happened, kept to compare.

**StopProtection** keeps the level of one stop three times, at TWS, in its row
and in the position's row, and interleaves API and strategy raises, adoption,
manual sells, fills and drops. Coroutines asleep at TWS wake in the order they
went to sleep.

**SetupMachine** holds the transition table, the revalidation ladder and the
strategies as operators; **SetupLifecycle** (MCSetupLifecycle) runs them against
the row, the market, batches read earlier, operators and reconciliation.

**EntryGate** (MCEntryGate) is the saved broker-reality report and the entries
it lets through until it is replaced or stale.

**TwsConnection** is the connector's sessions: connect and its search for a
client id, the health check that reconnects, the switch of connectors.
**MarketFeed** (MCMarketFeed) is the market data of a symbol: registry, bar
cache, readiness, the coroutines of the poll.

**EntryPricing** is the arithmetic of an automatic entry in half-cent integers,
for STP_LMT entries, the default: MKT, LMT and STP, which the setup schema also
allows, are sized at the trigger (`risk_engine.py:60-61`) and not modelled;
**EntryDecision** (MCEntryDecision) runs it through windows, guards, cost gate
and risk engine over one trading day, beside the operator's tickets. The poll
timeout or an exception may cut an entry off at its wait: if its stop was sent
it is live and never counted (`lost`). One batch at a time is at its wait per
symbol: a coroutine left behind by a poll that raised is MarketFeed's matter.

The research side: **ScannerRules** (the quality gate, rules, scores and
statuses of one quote), **OpportunityRadar** (scan, sweep, marks),
**TechniqueLearning** (outcomes and the learning loop), **ForecastRuns** (gates,
cache, waits, rows of model runs), **ForecastAccuracy** (judging, scorecards,
the score impact; the code keeps a card per model, symbol, timeframe and horizon,
here one per model), **SetupConfigs** (text or payload to configuration, and what
three validators say of it), **SemanticAnalyses** (analyses, answers, selection,
rollback). They share no row, so **MCResearch** checks them side by side in one
run, `part` naming the one that moves.

The theorems and proofs are in modules of their own: **BracketEntry_proofs**
(with the refinement and the reconciliation), **RuntimeControl_proofs**,
**Gates_proofs** (CircuitBreaker and EntryGate), **StopProtection_proofs**,
**Engine_proofs** (SetupLifecycle and TwsConnection), **Decision_proofs**
(EntryDecision and MarketFeed) and **Research_proofs**. **Sums** holds the
lemmas on finite sums and greatest elements that several of them cite.

## Runs

| run | question | bounds |
|---|---|---|
| `bracket_entry` | what does an entry leave behind at every wait, failure, timeout and lost connection; does a poll's bracket end; is the promise kept? | two setups, the poll and one API task, two brackets, one drop |
| `bracket_entry_cancelled_stop` | does every failed stop cancel the entry or flag the setup? Violated: a stop answered CANCELLED | one task, one bracket |
| `reconciliation` | do the books hold while connected; do rows and TWS converge? | one bracket, one run, one drop |
| `runtime_control` | who ends a pause or a stop; what does a stop not cancel; does it reach the loop? | one bracket, one operator, one drop, one restart |
| `circuit_breaker` | does a day that crossed a limit stay closed; is the PDT count whole? | two callers, two trades, two losses or three units, six days |
| `stop_protection` | does a row ever claim more than TWS holds; what lowers a stop? | three levels, two sells, two asleep, one drop, one run |
| `setup_lifecycle` | who enters, what ends, is a demotion undone? | every kind of setup, three changes of the facts |
| `entry_gate` | does an entry begin beside a position the report does not know; does a run that finds every setup waiting or over replace a blocking report? | two symbols, two entries, one drop, one request |
| `tws_connection` | is a session left behind; is the engine connected in the end? | the monitor and one operator, one switch, five client ids |
| `market_feed` | does a coroutine outlive its poll; do the bars become ready again? | one coroutine, two data types, both modes; hour bars served past the age at which they count as stale |
| `entry_decision` | what can an entry, and the day, lose; on which judgement does an entry leave? | two setups, a ticket, three snapshots, one trade a day, one entry cut off live |
| `research` | the eight properties of the ledgers | below |

All hold except the second, a finding. Why the bounds are enough: the duplicate
hazards are about two brackets, and a third adds no new pair; each wait can be
hit by the one drop; two tasks make every overlap of two; OrderReconciliation's
second run would add no new reader, since each applies its own answer in one
step; five client ids are more than the sessions TWS can hold in the model, so
a search passes occupied ids and ends; two losses and six days let a limit be
crossed either way and a day leave the PDT window; three prices make two raises
and their swap. The snapshots of EntryDecision are a plain breakout, one that
was missed and its retest with a wide stop. In `market_feed` the cache keeps
hour bars longer than `StaleAfter`, as the connector forces. In `research`: one
learner, one symbol, three universes of two candidates, two forecast models with
one symbol, two outcomes with a page of one and two samples, three semantic
requests, two actors, three analyses, one answer. In `entry_gate` a third entry, two of them on one symbol, is beyond the
run. The theorems below cover any bounds.

Deadlock is not checked where a bound or the end of a day lets the model stop
and the system may too when no signal comes (bracket_entry, reconciliation,
runtime_control, circuit_breaker, stop_protection, entry_decision). The others
never stop and are checked for it.

The definitions of SetupConfigs and EntryPricing were compared with the Python
functions on random configurations, texts and snapshots while they were
written; prices there are cents and half cents, floats that are exact.

## Fairness

- BracketEntry: the 0.2 s sleeps end and `wait_for` expires; nothing is assumed
  of a qualification, which has no timeout of its own.
- OrderReconciliation: a due run starts, positions and open_orders wait 2 s at
  most. Of TWS it is assumed that it can be reached again, answers the account
  request, and answers `reqAllOpenOrders` infinitely often if asked infinitely
  often (strong fairness).
- RuntimeControl: the loop sleeps a set time, health check and poll have
  timeouts, the signals of a batch follow each other. That a reconciliation
  ends is assumed of TWS: the account request has no timeout.
- SetupLifecycle: the loop revalidates. EntryGate: runs go on.
- TwsConnection: the loop checks every interval, time passes, both waits have
  timeouts. Conditions on TWS are in the property.
- MarketFeed: polls recur, their waits end. ForecastAccuracy: the job recurs.

## Proofs

The assumptions are the named ASSUMEs of the modules: sets that are disjoint,
finite or given a type, bounds and limits that are natural numbers. TLC
evaluates them in every run. Each component has an inductive invariant, proved
by one lemma per action, from which its properties follow; few of the
properties are inductive alone.

- **BracketEntry**: `IInv` is what each phase knows: brackets begin in order;
  before the parent's reply there is no row, no stop, no transmission; a row
  that is not active belongs to a parent that no longer works; a second bracket
  of one task and setup exists only if the earlier entry is off the books or
  was cut off before transmission. From it: types, `ParentTransmittedOnlyWithStop`,
  `WorkingEntryIsOnTheBooks`, `OneTaskNeverDuplicates`, `UnsavedEntryWasCutOff`,
  and the action property `OnlyACancelledStopSlipsThrough` (`EndOfBracket` lists
  the ways a bracket ends). `ImplementsPromise`: every kind of step is a step of
  ProtectedEntry or a stutter; which one follows from `IInv`; a cancel revokes,
  and what leaves the books live was revoked.
- **OrderReconciliation** (same module): `ReconciliationKeepsTheBooks`. As long
  as no connection was lost, the one session lists every order it sent, a stored
  reading CANCELLED stays true, and so a run that applies old answers closes no
  row of a working entry (`FirstSession`). `ReconciliationTransmitsNothing`: no
  run and no cancel makes an entry work (`Quiet`), so no parent is transmitted
  before its stop there either, connected or not; and with the books kept, one
  task has no two working entries (`NoDuplicateBesideRuns`).
- **RuntimeControl**: `OperatorsLiftAlone`, `StopCancelsWhatItSees` (in the
  first session every cancel an emergency stop asks for is answered at once, so
  only rows opened later are left), and the seam with the pipeline:
  `ControlTransmitsNothing`, whatever is stopped and started; and
  `ControlKeepsTheBooks` before a connection is lost or the program restarted.
  After a restart it fails: an order of the earlier session whose look-up times
  out is marked CANCELLED and goes on working.
- **CircuitBreaker**: `BookMatchesPage` ties the stored row to the day's page,
  `TradesLeaveRoom` bounds trades plus entries under way. `PdtCountIsWhole`
  needs the archive: its last five records are all the days with trades, in
  order, hence the four before today are there.
- **StopProtection**: `Queue`: a working stop's row shows at least the level of
  TWS, or the newest modification asleep carries exactly that level and wakes
  after all the older ones. From it `RowCoversTws` and `LoweredOnlyByOverlap`.
- **SetupLifecycle**: no batch of a management-only setup has a target in the
  entry flow (`StaysOut`); the ladder's verdict on the facts of the moment gives
  `EntryOnSoundFacts`; `OverUnlessAsked` by cases over the writers.
- **EntryDecision**: prices are whole from the snapshot on, the size is an
  integer quotient by the price the order is bound to, rounding comes last
  (`FilledWithinBudget`); a signal carries the hour and the volume of its
  judgement to the order (`LunchOnVolume`). For the day, a batch has one entry
  at the wait and a ticket one of its own (a lane each), and the last of them
  passed the guard while a trade was left; so the day places at most `MaxTrades`
  plus the lanes less one, plus those cut off live, and each loses at most the
  greatest budget (`DayRiskBounded`). A limit of 0 trades is read as 5 (`trade_guards.py:216`),
  so `MaxTrades` is positive.
- **EntryGate**: `GateIInv` follows what a run has read until its report is
  saved: a report that blocks nobody has a row for every position it accounts
  for (`NoEntryBesideAnUnknownPosition`). An order that fills between the reads
  is not accounted for, and of two setups on one symbol the other's order hides
  it: the property names that exception.
- **MarketFeed**: without a poll no coroutine is the poll's, so one that outlives
  its poll was left by an exception (`AloneUnlessRaised`).
- **TwsConnection**: while no two connects overlap, one task at most connects,
  on the engine's connector, which has no session up until it is done
  (`NoSessionLeftBehind`); and a connector that a switch has replaced, on which
  requests may still wait, holds no session that is up and no quotes from one
  (`SwitchedOffHoldNothing`).
- **Research**: a stored forecast row tells of its model or is the default's
  failure (`RowsTellTheirModel`); a run between its question and its insert
  counts as an outcome (`DuplicatesOnlyByOverlap`); what a sweep has listed is
  stale or written by another (`FreshExpireOnlyByOverlap`); the learning run's
  count bounds the active techniques and its statistics are in the ledger
  (`PromotedOnEvidenceWithinCap`); every
  stored scenario and every saved setup is a configuration, and one without a
  validation error is sound (`ArmableEntriesAreSound`); a rollback in its wait
  holds what its record will prepare again (`RollbackTellsWhatItSaved`); a judged
  outcome stays judged, so what a card counted is still there when a score is
  lifted by it (`BoostRestsOnRecord`).
- **Sums**: the models add up with the fold of the community modules, defined by
  a choice of the next element. `SumBound` takes the least number of terms for
  which its claim would fail, and so needs no induction theorem.

Only model-checked: liveness (`PollBracketEnds`, `EntryBackOnTheBooks`,
`DeadEntryLeavesTheBooks`, `StopReachesTheMonitor`, `DemotionEnds`,
`GateOpensWhenClean`, `ConnectedInTheEnd`, `WarmInTheEnd`,
`DueForecastsAreJudged`), out of the prover's reach. Every safety property of
the passing runs is proved.

## Findings

`PROJECT.json`, "findings", quotes each. On the order side: a stop answered
CANCELLED leaves an unprotected entry (a run shows it), also in the repair of a
lost stop; two tasks duplicate an entry; realized losses never reach the
breaker; an entry cut off after its stop was sent is not counted as a trade; a
connection lost during a reconciliation closes rows of working
orders; an entry in its first waits goes live under an emergency stop;
overlapping raises lower a stop; a stop row may claim what TWS refused; two
reduce-only sells exceed the position; a disarmed setup with its flag on
enters; a closed position's row stays for ever; a finished order blocks every
entry as a mismatch; the report takes another order of the symbol for one that
filled between its reads; overlapping connects leave a session; a switch splits a
bracket over two connectors; a missed breakout is entered without its retest.
On the research side: the accuracy routes raise on every call; an opportunity
found again keeps its first detection time and is expired by every sweep; a
text where a number belongs makes the analysis route fail; a model without
history overwrites the default's row; the cap on techniques binds only the
learning loop, which never runs when the program was started outside the
session; detections may be counted twice; a stop may lie above the trigger.

## Not modelled

Presentation (GUI, payloads, reports, templates), plain I/O, the numbers of
forecasts, features and indicators, the model lab, the simulated broker's
fills, `attach_missing_stop` and broker-only cancels, the calendar of holidays.

## Plan

1. Proofs: the refinement of ProtectedEntry beside OrderReconciliation and
   RuntimeControl, under the condition a lost connection puts on it.
2. Models: `attach_missing_stop` and the cancel of a stop row beside a
   reconciliation; the seam between EntryGate and EntryDecision.
