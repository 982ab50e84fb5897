----------------------------- MODULE MarketFeed -----------------------------
(***************************************************************************)
(* The market data of one symbol: the live quote registry of the TWS       *)
(* connector, its cache of historical bars, the hybrid snapshot that joins *)
(* them with its readiness, and the coroutines of the stock poll that ask  *)
(* for it and hand it to the momentum strategy.                            *)
(*                                                                         *)
(* Timestamps are ages, counted until they are past every limit.  An       *)
(* action is the code between two waits: the contract qualification, the   *)
(* 15-minute bars, the ticker, the 1-hour bars, the handling of signals.   *)
(***************************************************************************)
EXTENDS Integers, Sequences

CONSTANTS Tasks,       \* coroutines of this symbol that may exist at once
          Modes,       \* "paper", "live"
          Types,       \* market data types a quote is asked for, in order
          LiveTtl,     \* market_data_ttl.live_quote_seconds
          SignalTtl,   \* hybrid_signal_seconds: cache of the 15-minute bars
          Ttl15,       \* atr_15m_seconds: readiness of the 15-minute bars
          Ttl1h,       \* atr_1h_seconds, cache and readiness of the 1-hour bars:
                       \* the connector raises it to stale_after_minutes at least
          StaleAfter   \* indicators.atr_1h.stale_after_minutes

ASSUME FeedAssumption ==
    /\ Modes \subseteq {"paper", "live"}
    /\ LiveTtl \in Nat /\ SignalTtl \in Nat /\ Ttl15 \in Nat /\ Ttl1h \in Nat
    /\ SignalTtl <= Ttl15 /\ StaleAfter <= Ttl1h /\ StaleAfter \in Nat

VARIABLES
    mode,      \* the connector's readiness mode
    tws,       \* TWS answers requests
    ticker,    \* the ticker of the contract, as TWS fills it
    registry,  \* LiveQuoteRegistry: one entry per data type
    cache,     \* _historical_cache of both bar sizes
    task,      \* the coroutines poll_stock_symbol
    poll,      \* the running poll and its coroutine of this symbol
    raised,    \* a coroutine has raised out of a poll
    warm       \* warmup_ready of the last snapshot

fvars == <<mode, tws, ticker, registry, cache, task, poll, raised, warm>>

Live == 1

\* price, bid, ask and spread: all of them, some, or none.
NoTicker == [state |-> "none", type |-> Live]

\* seen: last_signature is what the ticker shows; stamp: since last_quote_at.
Subscribed == [on |-> TRUE, seen |-> FALSE, stamp |-> 0]
Unsubscribed == [Subscribed EXCEPT !.on = FALSE]

\* A payload of bars: are there any, do they give an ATR, how old do they say
\* they are, is it the cache's answer after a failed request?  sent remembers
\* how long ago TWS sent them.
NoBars == [any |-> FALSE, atr |-> FALSE, age |-> 0, sent |-> 0, stale |-> FALSE]
NoQuote == [state |-> "none", type |-> 0, stamp |-> 0]

Idle == [at |-> "idle", try |-> 1, m15 |-> NoBars, quote |-> NoQuote, h1 |-> NoBars,
         waited |-> FALSE]
NoPoll == [on |-> FALSE, mine |-> {}]

FInit ==
    /\ mode \in Modes /\ tws \in BOOLEAN
    /\ ticker = NoTicker
    /\ registry = [i \in DOMAIN Types |-> Unsubscribed]
    /\ cache = [m15 |-> NoBars, h1 |-> NoBars]
    /\ task = [t \in Tasks |-> Idle]
    /\ poll = NoPoll /\ raised = FALSE /\ warm = FALSE

-----------------------------------------------------------------------------
(* Live quotes.                                                            *)

\* _snapshot: a quote is as old as the look that first saw its values.
Looked(e) ==
    IF e.on /\ ticker.state # "none" /\ ~ e.seen THEN [e EXCEPT !.seen = TRUE, !.stamp = 0]
    ELSE e

QuoteOf(e) == IF ~ e.on THEN NoQuote
              ELSE [state |-> ticker.state, type |-> ticker.type, stamp |-> e.stamp]

\* subscribe: an entry that is there and whose quote is incomplete is dropped
\* and asked for again, whoever waits for it.
Asked(i) ==
    registry' = [registry EXCEPT ![i] = IF @.on /\ ticker.state = "ready" THEN Looked(@)
                                        ELSE Subscribed]

-----------------------------------------------------------------------------
(* Historical bars.                                                        *)

CacheTtl(bars) == IF bars = "m15" THEN SignalTtl ELSE Ttl1h

\* For comparison: cached bars are good at any age.
HitAtAnyAge(bars) == cache[bars].any

Hit(bars) == cache[bars].any /\ cache[bars].age <= CacheTtl(bars)

\* _cached_historical_payload keeps the timestamp of the bars.
Cached(bars, status) == [cache[bars] EXCEPT !.stale = status # "HIT"]

\* What a request returns: its own bars, or the cached ones when it failed or
\* when its 1-hour bars are too few for the ATR the cache still has.
Answered(bars, result) ==
    CASE result = "full" -> [NoBars EXCEPT !.any = TRUE, !.atr = TRUE]
      [] result = "short" /\ ~ (bars = "h1" /\ cache[bars].atr) -> [NoBars EXCEPT !.any = TRUE]
      [] cache[bars].any /\ (result = "bad" \/ cache[bars].atr) -> Cached(bars, "STALE_FALLBACK")
      [] OTHER -> NoBars

\* Only bars of this request are stored.
Stored(bars, payload) ==
    IF payload.any /\ ~ payload.stale THEN [cache EXCEPT ![bars] = payload] ELSE cache

-----------------------------------------------------------------------------
(* The hybrid snapshot and its readiness.                                  *)

QuoteComplete(q) == q.state = "ready" /\ q.stamp <= LiveTtl

\* _live_market_data_policy_decision: delayed quotes are for paper.
QuoteTypeAllowed(q, m15) ==
    q.type = Live \/ (mode = "paper" /\ QuoteComplete(q) /\ m15.any)

BarsReady(bars, ttl) == bars.atr /\ bars.age <= ttl

\* In paper an ATR 1h that is known to be stale is only a warning.
StaleAllowed(h1) == mode = "paper" /\ h1.atr /\ (h1.stale \/ h1.age > StaleAfter)
HourReady(h1) == StaleAllowed(h1) \/ (BarsReady(h1, Ttl1h) /\ ~ h1.stale)

WarmupReady(m15, q, h1) ==
    (m15.any \/ q.state # "none" \/ h1.any) /\ BarsReady(m15, Ttl15) /\ HourReady(h1)

\* Nothing the momentum strategy looks for is missing.
Complete(m15, q, h1) ==
    WarmupReady(m15, q, h1) /\ QuoteComplete(q) /\ QuoteTypeAllowed(q, m15)

-----------------------------------------------------------------------------
(* One coroutine.                                                          *)

Goto(t, step) == task' = [task EXCEPT ![t] = step]
At(t, step) == task[t].at = step

\* The bars are there: the first data type is asked for.
LiveBegins(t, m15) ==
    /\ Asked(1)
    /\ Goto(t, [task[t] EXCEPT !.at = "live", !.m15 = [m15 EXCEPT !.stale = FALSE]])

\* market_snapshot: the contract is qualified, the bars come from the cache or
\* are asked for.
Qualified(t) ==
    /\ At(t, "qualify") /\ tws
    /\ IF Hit("m15") THEN LiveBegins(t, Cached("m15", "HIT"))
       ELSE Goto(t, [Idle EXCEPT !.at = "m15"]) /\ UNCHANGED registry
    /\ UNCHANGED <<mode, tws, ticker, cache, poll, raised, warm>>

\* No quote: the coroutine ends with its warning.
QualifyFails(t) ==
    /\ At(t, "qualify") /\ ~ tws
    /\ Goto(t, Idle)
    /\ UNCHANGED <<mode, tws, ticker, registry, cache, poll, raised, warm>>

\* A request for bars is answered, with too few of them or not in time.
Results == IF tws THEN {"full"} ELSE {"short", "bad"}

SignalBars(t) ==
    /\ At(t, "m15")
    /\ \E result \in Results :
          LET m15 == Answered("m15", result)
          IN cache' = Stored("m15", m15) /\ LiveBegins(t, m15)
    /\ UNCHANGED <<mode, tws, ticker, poll, raised, warm>>

\* The merged snapshot, recorded and evaluated.
Merged(t, q, h1) ==
    LET m15 == task[t].m15
    IN /\ warm' = WarmupReady(m15, q, h1)
       /\ Goto(t, IF Complete(m15, q, h1)
                     THEN [Idle EXCEPT !.at = "handling", !.m15 = m15, !.h1 = [h1 EXCEPT !.stale = FALSE],
                                  !.quote = [q EXCEPT !.stamp = 0]]
                     ELSE Idle)

\* The quote is settled: the 1-hour bars come from the cache or are asked for.
QuoteSettled(t, q) ==
    IF Hit("h1") THEN Merged(t, q, Cached("h1", "HIT"))
    ELSE Goto(t, [task[t] EXCEPT !.at = "h1", !.try = 1, !.quote = q]) /\ UNCHANGED warm

\* _wait_for_live_ticker sees price, bid and ask.  The entry may be gone.
QuoteReady(t) ==
    /\ At(t, "live") /\ ticker.state = "ready"
    /\ LET i == task[t].try
       IN /\ registry' = [registry EXCEPT ![i] = Looked(@)]
          /\ QuoteSettled(t, QuoteOf(registry'[i]))
    /\ UNCHANGED <<mode, tws, ticker, cache, poll, raised>>

\* The wait is over without them: the next type, or what the first one had.
QuoteTimesOut(t) ==
    /\ At(t, "live") /\ ticker.state # "ready"
    /\ LET i == task[t].try
           looked == [registry EXCEPT ![i] = Looked(@)]
           best == IF i = 1 THEN QuoteOf(looked[1]) ELSE task[t].quote
       IN IF i < Len(Types)
            THEN /\ registry' = [looked EXCEPT ![i + 1] = Subscribed]
                 /\ Goto(t, [task[t] EXCEPT !.try = i + 1, !.quote = best])
                 /\ UNCHANGED warm
            ELSE registry' = looked /\ QuoteSettled(t, best)
    /\ UNCHANGED <<mode, tws, ticker, cache, poll, raised>>

HourBars(t) ==
    /\ At(t, "h1")
    /\ \E result \in Results :
          LET h1 == Answered("h1", result)
          IN cache' = Stored("h1", h1) /\ Merged(t, task[t].quote, h1)
    /\ UNCHANGED <<mode, tws, ticker, registry, poll, raised>>

\* The signals are handled (BracketEntry) and the coroutine returns.
Handled(t) ==
    /\ At(t, "handling")
    /\ Goto(t, Idle)
    /\ UNCHANGED <<mode, tws, ticker, registry, cache, poll, raised, warm>>

-----------------------------------------------------------------------------
(* The poll: gather over the symbols, under the engine's timeout.          *)

PollBegins ==
    /\ ~ poll.on
    /\ \E t \in Tasks :
          /\ At(t, "idle")
          /\ poll' = [on |-> TRUE, mine |-> {t}]
          /\ Goto(t, [Idle EXCEPT !.at = "qualify"])
    /\ UNCHANGED <<mode, tws, ticker, registry, cache, raised, warm>>

\* gather passes the first exception on, of this symbol or of another, and
\* leaves the other coroutines running, outside of the poll and of its timeout.
Raises(t) ==
    /\ \/ poll.on /\ UNCHANGED task
       \/ At(t, "handling") /\ t \in poll.mine /\ Goto(t, Idle)
    /\ poll' = NoPoll /\ raised' = TRUE
    /\ UNCHANGED <<mode, tws, ticker, registry, cache, warm>>

PollEnds ==
    /\ poll.on /\ \A t \in poll.mine : At(t, "idle")
    /\ poll' = NoPoll
    /\ UNCHANGED <<mode, tws, ticker, registry, cache, task, raised, warm>>

\* For comparison: the poll is given up and its coroutines are not.
CancelledWithout == task

\* wait_for cancels the gather and every coroutine in it.
Cancelled == [t \in Tasks |-> IF t \in poll.mine THEN Idle ELSE task[t]]

\* It takes a TWS that leaves a qualification or an order without an answer.
PollTimeout ==
    /\ poll.on /\ (~ tws \/ \E t \in poll.mine : At(t, "handling"))
    /\ poll' = NoPoll /\ task' = Cancelled
    /\ UNCHANGED <<mode, tws, ticker, registry, cache, raised, warm>>

-----------------------------------------------------------------------------
(* TWS and the clock.                                                      *)

\* A tick with new values, for a symbol that is subscribed.
Ticks ==
    /\ tws /\ \E i \in DOMAIN Types : registry[i].on
    /\ \E type \in {Types[i] : i \in DOMAIN Types}, state \in {"partial", "ready"} :
          ticker' = [state |-> state, type |-> type]
    /\ registry' = [i \in DOMAIN Types |-> [registry[i] EXCEPT !.seen = FALSE, !.stamp = 0]]
    /\ UNCHANGED <<mode, tws, cache, task, poll, raised, warm>>

\* A new session: new registry, new tickers.
NewSession ==
    /\ ticker' = NoTicker
    /\ registry' = [i \in DOMAIN Types |-> Unsubscribed]
    /\ UNCHANGED <<mode, tws, cache, task, poll, raised, warm>>

TwsChanges ==
    /\ tws' = ~ tws
    /\ UNCHANGED <<mode, ticker, registry, cache, task, poll, raised, warm>>

Aged(bars, limit) ==
    LET older(age) == IF bars.any /\ age <= limit THEN age + 1 ELSE age
    IN [bars EXCEPT !.age = older(@), !.sent = older(@)]
AgedQuote(q) == IF q.stamp > LiveTtl THEN q ELSE [q EXCEPT !.stamp = @ + 1]
AgedTask(w) ==
    IF w.at \in {"idle", "qualify", "handling"} THEN w
    ELSE [w EXCEPT !.waited = TRUE, !.m15 = Aged(@, Ttl15),
                   !.quote = IF @.state = "ready" THEN AgedQuote(@) ELSE @]

\* The waits of a snapshot have timeouts that sum up to less than a unit.
Elapse ==
    /\ \A t \in Tasks : ~ task[t].waited
    /\ registry' = [i \in DOMAIN Types |->
                      IF registry[i].seen THEN AgedQuote(registry[i]) ELSE registry[i]]
    /\ cache' = [m15 |-> Aged(cache.m15, Ttl15), h1 |-> Aged(cache.h1, Ttl1h)]
    /\ task' = [t \in Tasks |-> AgedTask(task[t])]
    /\ UNCHANGED <<mode, tws, ticker, poll, raised, warm>>

Goes(t) == Qualified(t) \/ QualifyFails(t) \/ SignalBars(t) \/ QuoteReady(t) \/ QuoteTimesOut(t)
              \/ HourBars(t) \/ Handled(t)

FNext ==
    \/ \E t \in Tasks : Goes(t) \/ Raises(t)
    \/ PollBegins \/ PollEnds \/ PollTimeout
    \/ Ticks \/ NewSession \/ TwsChanges \/ Elapse

\* A coroutine goes on when its wait is over; polls begin and end.
FFairness ==
    /\ \A t \in Tasks : WF_fvars(Goes(t))
    /\ WF_fvars(PollBegins) /\ WF_fvars(PollEnds) /\ WF_fvars(Elapse)

FSpec == FInit /\ [][FNext]_fvars /\ FFairness

-----------------------------------------------------------------------------
(* Properties.                                                             *)

\* A coroutine runs outside of the poll that waits for it, beside those of later
\* polls, only after one has raised: neither the timeout nor a lost connection
\* leaves one behind.
AloneUnlessRaised == ~ raised => \A t \in Tasks : At(t, "idle") \/ t \in poll.mine

\* When TWS answers from some time on, the bars become ready again and again:
\* no answer that came too short, and no cached one, blocks a symbol for good.
WarmInTheEnd == <>[]tws => []<>warm

=============================================================================
