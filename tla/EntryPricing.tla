---------------------------- MODULE EntryPricing ----------------------------
(***************************************************************************)
(* The arithmetic of an automatic entry: what momentum_breakout makes of a *)
(* snapshot, what the risk engine makes of the signal and what the order   *)
(* costs.  Pure operators; EntryDecision runs them against the clock, the  *)
(* other entries and the operator.                                         *)
(*                                                                         *)
(* Money and prices are integers: a unit is half a cent, a tick is two, so *)
(* that a price can lie between two ticks.  An ATR of 15 minutes is a      *)
(* multiple of 20 units and one of an hour a multiple of 5, which makes    *)
(* every fraction of them whole.  Volume ratios are in percent.            *)
(***************************************************************************)
EXTENDS Integers

Larger(a, b)  == IF a >= b THEN a ELSE b
Smaller(a, b) == IF a <= b THEN a ELSE b
Largest(a, b, c) == Larger(a, Larger(b, c))

RoundUp(price, tick)   == ((price + tick - 1) \div tick) * tick
RoundDown(price, tick) == (price \div tick) * tick

Tick == 2       \* one cent, the smallest price variation of a US stock
None == 0       \* no such price

-----------------------------------------------------------------------------
(* A snapshot and a configuration, as far as momentum_breakout reads them. *)
(*   m: bid, ask, atr15, atr1h, low, close, wick (the upper wick is more   *)
(*      than half of the candle), ratio (of the bar's volume; None: no     *)
(*      data), ratio2 (of the last two bars), bars (closed above the       *)
(*      resistance), higherLow, broken (a breakout was seen before),       *)
(*      supports (the prices that may carry a stop)                        *)
(*   c: resistance, limit (maximum_limit_price or None), maxRisk,          *)
(*      maxPosition                                                        *)

Spread(m) == m.ask - m.bid

\* _market_context: without both sides, the ATRs and an uncrossed book the
\* setup pauses.
DataReady(m) == m.bid > 0 /\ m.ask >= m.bid /\ m.atr15 > 0 /\ m.atr1h > 0

\* _spread_check: 30 basis points of the mid price (a mid cap), a fifth of the
\* ATR.
SpreadOk(m) ==
    /\ Spread(m) * 20000 <= 30 * (m.bid + m.ask)
    /\ 5 * Spread(m) <= m.atr15

\* _dynamic_offsets.
RawTrigger(m) == Largest(2 * Tick, Spread(m), m.atr15 \div 20)
RawLimit(m)   == Largest(3 * Tick, 2 * Spread(m), m.atr15 \div 10)
OffsetsOk(m) ==
    /\ RawTrigger(m) <= Larger(2 * Tick, m.atr15 \div 5)
    /\ RawLimit(m) <= Larger(3 * Tick, 7 * (m.atr15 \div 20))

Trigger(c, m) == RoundUp(c.resistance + RoundUp(RawTrigger(m), Tick), Tick)

\* The configured maximum can only lower it.
Limit(c, m) ==
    LET computed == RoundUp(Trigger(c, m) + RoundUp(RawLimit(m), Tick), Tick)
    IN  IF c.limit # None THEN Smaller(computed, c.limit) ELSE computed

\* _stale_state: beyond the limit by the buffer the breakout is missed.
StaleBuffer(c, m) ==
    Smaller(Largest(m.atr15 \div 2, 3 * Spread(m), 5 * Tick), (15 * Limit(c, m)) \div 1000)
Missed(c, m) == m.ask > Limit(c, m) + StaleBuffer(c, m)

\* _breakout_retest, with the default zone.
TouchesZone(c, m) == m.low <= c.resistance + m.atr15 \div 10

\* _volume_confirmation.
VolumeStatus(c, m) ==
    IF m.ratio = None THEN "VOLUME_DATA_MISSING"
    ELSE IF m.ratio >= 150 /\ m.close < c.resistance /\ m.wick THEN "VOLUME_REJECTED"
    ELSE IF m.close <= c.resistance THEN "WEAK_VOLUME"
    ELSE IF m.ratio >= 150 THEN "FAST_VOLUME_CONFIRMED"
    ELSE IF m.ratio >= 100 THEN "VOLUME_CONFIRMED"
    ELSE IF m.ratio >= 80 THEN "VOLUME_PENDING_CONFIRMATION"
    ELSE "WEAK_VOLUME"

\* _entry_validation, first path that is valid.
Path(c, m) ==
    LET volume == VolumeStatus(c, m)
        progressive == IF m.ratio2 # None THEN m.ratio2 ELSE m.ratio
    IN  IF volume = "FAST_VOLUME_CONFIRMED" THEN "FAST_BREAKOUT"
        ELSE IF /\ m.bars >= 2 /\ m.close > c.resistance /\ progressive >= 80
                /\ volume \notin {"VOLUME_REJECTED", "VOLUME_DATA_MISSING"}
             THEN "CONFIRMED_BREAKOUT"
        ELSE IF /\ m.broken /\ m.higherLow /\ TouchesZone(c, m)
                /\ m.close >= c.resistance /\ m.ratio >= 100
             THEN "BREAKOUT_RETEST"
        ELSE "none"

\* _initial_stop: below the highest support under the trigger.
Eligible(c, m) == {p \in m.supports : p < Trigger(c, m)}
Support(c, m) == CHOOSE p \in Eligible(c, m) : \A q \in Eligible(c, m) : q <= p
StopBuffer(m) == Largest(2 * Tick, 2 * Spread(m), m.atr1h \div 5)
InitialStop(c, m) == RoundDown(Support(c, m) - StopBuffer(m), Tick)

-----------------------------------------------------------------------------
(* risk_engine.py, transaction_costs.py                                    *)

\* calculate_position_size for a long: 0 is refused.
Quantity(entry, stop, maxRisk, maxPosition) ==
    IF entry <= stop THEN 0
    ELSE Smaller(maxRisk \div (entry - stop), maxPosition \div entry)

\* estimate_round_trip_cost_usd: a dollar and half a cent a share for each
\* order, five cents of fees, a cent of slippage a share and half the spread,
\* twice.
Cost(quantity, spread) == 2 * (200 + quantity) + 20 + (4 + spread) * quantity

\* evaluate_cost_gate: at most 30 percent of the risk.
CostAllowed(quantity, spread, risk) ==
    risk <= 0 \/ 10 * Cost(quantity, spread) <= 3 * risk

-----------------------------------------------------------------------------
(* The signal of momentum_breakout.                                        *)

Hold == [action |-> "HOLD", target |-> "none", path |-> "none", trigger |-> None,
         limit |-> None, stop |-> None]
ChangeTo(status) == [Hold EXCEPT !.action = "STATUS_CHANGE", !.target = status]

ReadySignal(c, m) ==
    [action |-> "ENTRY_READY", target |-> "ENTRY_READY", path |-> Path(c, m),
     trigger |-> Trigger(c, m), limit |-> Limit(c, m), stop |-> InitialStop(c, m)]

\* What the last steps ask of an entry: a stop and at least one share.
Sized(c, m) ==
    /\ Eligible(c, m) # {}
    /\ Quantity(Limit(c, m), InitialStop(c, m), c.maxRisk, c.maxPosition) >= 1

\* _analyze_long, in its order.
SignalOf(c, m, status) ==
    IF ~ (DataReady(m) /\ SpreadOk(m) /\ OffsetsOk(m)) THEN Hold
    ELSE IF Limit(c, m) < Trigger(c, m) THEN Hold
    ELSE IF Missed(c, m) THEN ChangeTo("MISSED_BREAKOUT")
    ELSE IF status = "MISSED_BREAKOUT" /\ TouchesZone(c, m) THEN ChangeTo("WAITING_RETEST")
    ELSE IF Path(c, m) = "none" \/ m.ask > Limit(c, m) \/ ~ Sized(c, m) THEN Hold
    ELSE ReadySignal(c, m)
=============================================================================
