--------------------------- MODULE EntryDecision ----------------------------
(***************************************************************************)
(* From a snapshot to an order, through the clock and the money: the       *)
(* momentum strategy, the session windows, the trade guards, the cost gate *)
(* and the risk engine for automatic entries, and the manual ticket of the *)
(* operator beside them.  A batch evaluates all setups of its symbol on    *)
(* one snapshot and then handles their signals one after the other; an     *)
(* entry waits for TWS, and meanwhile time passes, the other symbol's      *)
(* batch runs, positions are adopted and tickets are sent.                 *)
(*                                                                         *)
(* One trading day.  Rows, brackets and the broker-reality gate are in     *)
(* BracketEntry, OrderReconciliation and EntryGate: here an order is what  *)
(* was priced, and a refusal for any reason they model is a choice.        *)
(***************************************************************************)
EXTENDS EntryPricing, Sequences, FiniteSetsExt

CONSTANTS
    Listed,       \* the setups in the order of list_setups
    Tickets,      \* the operator's manual BUY orders
    SymbolOf,     \* the symbol of a setup or ticket
    ConfigOf,     \* what EntryPricing reads of a setup
    TicketOf,     \* what the operator types: limit, stop, quantity
    Markets,      \* the snapshots that can come
    Spreads,      \* the spreads a ticket can meet
    MaxTrades,    \* trade_guards: trades of a day, 0 is read as 5
    MaxOpen,      \* trade_guards: open positions
    MaxExposure,  \* risk: total exposure
    MaxAmount,    \* risk: amount of one position
    MaxRisk,      \* risk: risk of one trade
    MaxLost       \* bound: entries that go live and are not recorded

ASSUME DecisionAssumption ==
    /\ \A m \in Markets :
          /\ {m.bid, m.ask, m.atr15, m.atr1h, m.ratio} \subseteq Int
          /\ m.supports \subseteq Nat
    /\ \A i \in DOMAIN Listed :
          LET c == ConfigOf[Listed[i]]
          IN {c.resistance, c.limit, c.maxRisk, c.maxPosition} \subseteq Int
    /\ \A k \in Tickets :
          LET t == TicketOf[k]
          IN {t.limit, t.stop, t.quantity} \subseteq Nat /\ t.quantity > 0
    /\ Tickets \cap {Listed[i] : i \in DOMAIN Listed} = {}
    /\ IsFiniteSet(DOMAIN Listed) /\ IsFiniteSet(Tickets)
    /\ {MaxExposure, MaxAmount, MaxRisk} \subseteq Int
    /\ MaxTrades \in Nat \ {0} /\ MaxLost \in Nat

Setups  == {Listed[i] : i \in DOMAIN Listed}
Actors  == Setups \union Tickets
Symbols == {SymbolOf[a] : a \in Actors}

\* The day in New York: until 9:30, 10:00, 11:30, 14:00, 15:30 and 16:00.
Hours == <<"pre", "opening", "morning", "lunch", "afternoon", "late", "after">>

VARIABLES
    hour,      \* the clock, an index into Hours
    status,    \* of each setup
    signal,    \* the signal of a setup that its batch has not handled yet
    order,     \* the entry order of a setup or ticket
    asked,     \* a ticket's state and the clock reading it is judged by
    trades,    \* entries recorded today
    lost,      \* whose order went live and was not recorded
    exposure   \* what the position rows come to

dvars == <<hour, status, signal, order, asked, trades, lost, exposure>>

NoSignal == [hour |-> 0, strong |-> FALSE, spread |-> 0, is |-> Hold]
NoOrder  == [at |-> "none", quantity |-> 0, limit |-> 0, stop |-> 0,
             judged |-> 0, strong |-> FALSE, sent |-> 0]

DInit ==
    /\ hour = 1
    /\ status = [s \in Setups |-> "WAITING_ACTIVATION"]
    /\ signal = [s \in Setups |-> NoSignal]
    /\ order = [a \in Actors |-> NoOrder]
    /\ asked = [k \in Tickets |-> [at |-> "new", hour |-> 0]]
    /\ trades = 0 /\ lost = {}
    /\ exposure = 0

-----------------------------------------------------------------------------
(* The gates.                                                              *)

InWindow(h) == Hours[h] \in {"morning", "lunch", "afternoon"}

\* For comparison: the signal-level policy without its lunch rule.
PolicyOfTheClock(h, m) == InWindow(h)

\* apply_entry_session_policy: at lunch an entry needs one and a half times
\* the usual volume.
PolicyAllows(h, m) == InWindow(h) /\ (Hours[h] = "lunch" => m.ratio >= 150)

\* A position row appears when a reconciliation adopts what TWS holds.
Held == {a \in Actors : order[a].at = "held"}
HeldSymbols == {SymbolOf[a] : a \in Held}

\* For comparison: the day's trades are not looked at.
GuardsAllowAnyNumber(symbol) ==
    symbol \notin HeldSymbols /\ Cardinality(HeldSymbols) < MaxOpen

\* evaluate_entry: the day's trades, a position in the symbol, their number.
GuardsAllow(symbol) ==
    /\ trades < MaxTrades
    /\ symbol \notin HeldSymbols
    /\ Cardinality(HeldSymbols) < MaxOpen

\* round(price, 2): a price between two ticks goes to one of them.
Cents(price) == IF price % Tick = 0 THEN {price} ELSE {price - 1, price + 1}

-----------------------------------------------------------------------------
(* A batch.                                                                *)

BatchOf(symbol) == {s \in Setups : SymbolOf[s] = symbol}
Pending(symbol) == {s \in BatchOf(symbol) : signal[s] # NoSignal}
AtTheWait(symbol) == \E s \in BatchOf(symbol) : order[s].at = "sending"

\* evaluate_snapshot: strategy, session policy, guards and cost gate.
Evaluated(s, m) ==
    LET is == SignalOf(ConfigOf[s], m, status[s])
        risk == ConfigOf[s].maxRisk
        quantity == risk \div (is.trigger - is.stop)
    IN IF is.action # "ENTRY_READY" THEN is
       ELSE IF /\ PolicyAllows(hour, m)
               /\ GuardsAllow(SymbolOf[s])
               /\ quantity > 0 => CostAllowed(quantity, Spread(m), risk)
            THEN is ELSE Hold

Terminal == {"ERROR_REQUIRES_MANUAL_REVIEW"}

\* A HOLD is handled by doing nothing.
Judged(s, m) ==
    LET is == Evaluated(s, m)
    IN IF status[s] \in Terminal \/ is = Hold THEN NoSignal
       ELSE [hour |-> hour, strong |-> m.ratio >= 150, spread |-> Spread(m), is |-> is]

Evaluate(symbol) ==
    /\ Pending(symbol) = {} /\ ~ AtTheWait(symbol)
    /\ \E m \in Markets :
          signal' = [s \in Setups |-> IF s \in BatchOf(symbol) THEN Judged(s, m) ELSE signal[s]]
    /\ UNCHANGED <<hour, status, order, asked, trades, lost, exposure>>

\* The signal of a batch that is next: the first one that is left.
IsNext(s) ==
    /\ signal[s] # NoSignal /\ ~ AtTheWait(SymbolOf[s])
    /\ \A i, j \in DOMAIN Listed :
          Listed[i] \in Pending(SymbolOf[s]) /\ Listed[j] = s => j <= i
Taken(s) == signal' = [signal EXCEPT ![s] = NoSignal]

\* The batch of s ends without its other signals.
Dropped(s) ==
    signal' = [x \in Setups |-> IF SymbolOf[x] = SymbolOf[s] THEN NoSignal ELSE signal[x]]

\* transition_setup: the table decides by the status the batch read; these are
\* the transitions momentum_breakout asks for.
Allowed == {<<"WAITING_ACTIVATION", "MISSED_BREAKOUT">>, <<"MISSED_BREAKOUT", "WAITING_RETEST">>}

StatusSignal(s) ==
    /\ IsNext(s) /\ signal[s].is.action # "ENTRY_READY" /\ Taken(s)
    /\ LET target == signal[s].is.target
       IN status' = IF <<status[s], target>> \in Allowed
                      THEN [status EXCEPT ![s] = target] ELSE status
    /\ UNCHANGED <<hour, order, asked, trades, lost, exposure>>

\* The bug: the position is sized for the price of the trigger.
SizedAtTheTrigger(s, is) ==
    Quantity(is.trigger, is.stop, ConfigOf[s].maxRisk,
             Smaller(ConfigOf[s].maxPosition, MaxExposure - exposure))

\* risk_engine.evaluate of an STP_LMT entry: 0 is refused.
RiskQuantity(s, is) ==
    LET amount == Smaller(ConfigOf[s].maxPosition, MaxExposure - exposure)
    IN  IF is.stop <= 0 \/ amount <= 0 THEN 0
        ELSE Quantity(is.limit, is.stop, ConfigOf[s].maxRisk, amount)

\* execute_entry_ready: the gates are asked again, on the rows and the clock of
\* now, all but the lunch rule.  A duplicate is refused by place_entry_order.
EntrySent(s) ==
    /\ IsNext(s) /\ signal[s].is.action = "ENTRY_READY"
    /\ InWindow(hour) /\ GuardsAllow(SymbolOf[s])
    /\ order[s].at = "none"
    /\ LET is == signal[s].is
           quantity == RiskQuantity(s, is)
       IN /\ quantity > 0
          /\ CostAllowed(quantity, signal[s].spread, quantity * (is.limit - is.stop))
          /\ \E limit \in Cents(is.limit) :
                order' = [order EXCEPT ![s] =
                    [at |-> "sending", quantity |-> quantity, limit |-> limit,
                     stop |-> is.stop,
                     judged |-> signal[s].hour, strong |-> signal[s].strong, sent |-> hour]]
    /\ Taken(s)
    /\ UNCHANGED <<hour, status, asked, trades, lost, exposure>>

\* One of these gates, or one of those that other modules have, refuses.
EntryRefused(s) ==
    /\ IsNext(s) /\ signal[s].is.action = "ENTRY_READY" /\ Taken(s)
    /\ UNCHANGED <<hour, status, order, asked, trades, lost, exposure>>

\* place_entry_order returns; the entry is recorded whatever TWS said.  A setup
\* is flagged when TWS refused its entry, or when the protection failed: then
\* the cancel of the entry may come too late.
EntryAnswered(s) ==
    /\ order[s].at = "sending"
    /\ \/ /\ order' = [order EXCEPT ![s].at = "sent"]
          /\ \E new \in {"ENTRY_ORDER_PLACED", "ERROR_REQUIRES_MANUAL_REVIEW"} :
                status' = [status EXCEPT ![s] = new]
       \/ /\ order' = [order EXCEPT ![s] = NoOrder]
          /\ status' = [status EXCEPT ![s] = "ERROR_REQUIRES_MANUAL_REVIEW"]
    /\ trades' = trades + 1
    /\ UNCHANGED <<hour, signal, asked, lost, exposure>>

\* Nothing of the order is left at TWS, or its stop was sent and it is live.
CutOff(a) ==
    /\ order[a].at = "sending"
    /\ \/ order' = [order EXCEPT ![a] = NoOrder] /\ UNCHANGED lost
       \/ /\ Cardinality(lost) < MaxLost
          /\ order' = [order EXCEPT ![a].at = "sent"] /\ lost' = lost \union {a}

\* The poll timeout or an exception ends the batch at the wait, before the
\* entry is recorded.
EntryCutOff(s) ==
    /\ CutOff(s)
    /\ \E new \in {status[s], "ERROR_REQUIRES_MANUAL_REVIEW"} :
          status' = [status EXCEPT ![s] = new]
    /\ Dropped(s)
    /\ UNCHANGED <<hour, asked, trades, exposure>>

-----------------------------------------------------------------------------
(* A manual ticket with a limit and a protective stop.                     *)

\* submit: the clock is read, then the account summary is waited for.
TicketAsked(k) ==
    /\ asked[k].at = "new"
    /\ asked' = [asked EXCEPT ![k] = [at |-> "asked", hour |-> hour]]
    /\ UNCHANGED <<hour, status, signal, order, trades, lost, exposure>>

\* The clock is only remembered of an automatic entry.
Decided(k) == asked' = [asked EXCEPT ![k] = [at |-> "done", hour |-> 0]]

\* _risk_limits_block.
WithinLimits(t) ==
    /\ t.quantity * (t.limit - t.stop) <= MaxRisk
    /\ t.quantity * t.limit <= MaxAmount
    /\ exposure + t.quantity * t.limit <= MaxExposure

\* _assess_buy after the wait, and _submit_buy up to the wait for TWS.
TicketSent(k) ==
    LET t == TicketOf[k]
    IN /\ asked[k].at = "asked"
       /\ InWindow(asked[k].hour) /\ GuardsAllow(SymbolOf[k]) /\ WithinLimits(t)
       /\ \E spread \in Spreads, limit \in Cents(t.limit) :
             /\ CostAllowed(t.quantity, spread, t.quantity * (t.limit - t.stop))
             /\ order' = [order EXCEPT ![k] =
                   [at |-> "sending", quantity |-> t.quantity, limit |-> limit,
                    stop |-> t.stop, judged |-> 0, strong |-> FALSE, sent |-> 0]]
       /\ Decided(k)
       /\ UNCHANGED <<hour, status, signal, trades, lost, exposure>>

TicketRefused(k) ==
    /\ asked[k].at = "asked"
    /\ Decided(k)
    /\ UNCHANGED <<hour, status, signal, order, trades, lost, exposure>>

\* A ticket that TWS rejects is not recorded; one that it cancels is.
TicketAnswered(k) ==
    /\ order[k].at = "sending"
    /\ \/ order' = [order EXCEPT ![k].at = "sent"] /\ trades' = trades + 1
       \/ order' = [order EXCEPT ![k] = NoOrder] /\ trades' \in {trades, trades + 1}
    /\ UNCHANGED <<hour, status, signal, asked, lost, exposure>>

\* A lost connection: the cancel of its unprotected entry raises.
TicketCutOff(k) == CutOff(k) /\ UNCHANGED <<hour, status, signal, asked, trades, exposure>>

-----------------------------------------------------------------------------
\* An order is filled and a reconciliation adopts the position into the row of
\* a management setup of the symbol.
Adopted(a) ==
    /\ order[a].at = "sent"
    /\ order' = [order EXCEPT ![a].at = "held"]
    /\ exposure' = exposure + order[a].quantity * order[a].limit
    /\ UNCHANGED <<hour, status, signal, asked, trades, lost>>

TimePasses ==
    /\ hour < Len(Hours) /\ hour' = hour + 1
    /\ UNCHANGED <<status, signal, order, asked, trades, lost, exposure>>

DNext ==
    \/ \E symbol \in Symbols : Evaluate(symbol)
    \/ \E s \in Setups : StatusSignal(s) \/ EntrySent(s) \/ EntryRefused(s) \/ EntryAnswered(s)
                           \/ EntryCutOff(s)
    \/ \E k \in Tickets : TicketAsked(k) \/ TicketSent(k) \/ TicketRefused(k)
                           \/ TicketAnswered(k) \/ TicketCutOff(k)
    \/ \E a \in Actors : Adopted(a)
    \/ TimePasses

DSpec == DInit /\ [][DNext]_dvars

-----------------------------------------------------------------------------
(* Properties.                                                             *)

Placed == {a \in Actors : order[a].at # "none"}
RiskOf(a) == order[a].quantity * (order[a].limit - order[a].stop)
RiskBudget(a) == IF a \in Setups THEN ConfigOf[a].maxRisk ELSE MaxRisk
AmountBudget(a) == IF a \in Setups THEN ConfigOf[a].maxPosition ELSE MaxAmount

\* An entry that fills at the worst price its order allows and is stopped out
\* loses no more than the setup's budget, and binds no more: the prices are
\* computed from one snapshot, replaced by the configured limit, sized against
\* the exposure of a later moment and rounded last.  That rounding costs at
\* most half a cent a share.
FilledWithinBudget ==
    \A a \in Placed :
        /\ RiskOf(a) <= RiskBudget(a) + order[a].quantity
        /\ order[a].quantity * order[a].limit <= AmountBudget(a) + order[a].quantity

\* What a day can lose through entries is bounded by the trades it allows, as
\* the entry is counted after its wait: every batch and ticket that has passed
\* the gates by then may add one, and so does each entry that was cut off with
\* its stop already sent, which is live and never counted.  Shares round up by
\* half a cent each.
Lanes == Cardinality({SymbolOf[s] : s \in Setups}) + Cardinality(Tickets)
Greatest == Max({0} \union {RiskBudget(a) : a \in Actors})
DayRisk == MapThenSumSet(LAMBDA a : RiskOf(a) - order[a].quantity, Placed)
DayRiskBounded == DayRisk <= (MaxTrades + Lanes - 1 + Cardinality(lost)) * Greatest

\* An automatic entry goes out at lunch on the volume lunch asks for, unless it
\* was judged in the morning and waited for the entries before it: the
\* execution looks at the clock and not at the volume.
LunchOnVolume ==
    \A s \in Setups : order[s].at # "none" /\ Hours[order[s].sent] = "lunch" =>
        order[s].strong \/ Hours[order[s].judged] = "morning"

=============================================================================
