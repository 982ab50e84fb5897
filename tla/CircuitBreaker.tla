--------------------------- MODULE CircuitBreaker ---------------------------
(***************************************************************************)
(* CircuitBreakerTracker: the daily kill switch.  Its state is one row of  *)
(* bot_state, read, rolled to the current New York trading day and saved   *)
(* by each hook, so it outlives a restart.                                 *)
(*                                                                         *)
(* An entry asks the gate before place_entry_order and is recorded after   *)
(* it: in between it waits for TWS, and other entries (the symbols of one  *)
(* poll, API requests) ask the same gate.                                  *)
(***************************************************************************)
EXTENDS Integers, Sequences, FiniteSets

CONSTANTS
    Callers,         \* coroutines that can have an entry under way
    MaxTrades,       \* max_trades_per_day
    MaxConsecutive,  \* max_consecutive_losses
    MaxLoss,         \* max_daily_loss_usd, in units of the smallest result
    PdtEnabled,      \* trade_guards.pdt.enabled
    PdtLimit,        \* max_day_trades_per_5_days
    Results,         \* realized results of a closed position
    LastDay,         \* bound: trading days are 1..LastDay
    MaxClosed        \* bound: positions closed on one day

ASSUME CallersAssumption == IsFiniteSet(Callers)
ASSUME LimitsAssumption ==
    /\ MaxTrades \in Nat \ {0}
    /\ MaxConsecutive \in Nat \ {0}
    /\ MaxLoss \in Nat \ {0}
    /\ PdtLimit \in Nat
    /\ PdtEnabled \in BOOLEAN
ASSUME BoundsAssumption ==
    Results \subseteq Int /\ LastDay \in Nat \ {0} /\ MaxClosed \in Nat

Days == 1..LastDay
Trips == {"none", "DAILY_LOSS_LIMIT", "MAX_TRADES_REACHED"}

VARIABLES
    today,     \* the New York trading day
    st,        \* the stored state
    entering,  \* callers between the gate and record_entry_submitted
    page,      \* what really happened today: recorded entries, realized
               \* result, running losses and positions closed
    opened,    \* entries recorded on each earlier day
    hit        \* today's page has crossed a limit

vars == <<today, st, entering, page, opened, hit>>

EmptyPage == [entries |-> 0, pnl |-> 0, streak |-> 0, closed |-> 0]

Init ==
    /\ today = 1
    /\ st = [day |-> 0, trades |-> 0, losing |-> 0, pnl |-> 0,
             tripped |-> "none", recent |-> <<>>]
    /\ entering = {}
    /\ page = EmptyPage
    /\ opened = [d \in Days |-> 0]
    /\ hit = FALSE

-----------------------------------------------------------------------------
Last(seq, n) == SubSeq(seq, IF Len(seq) > n THEN Len(seq) - n + 1 ELSE 1, Len(seq))

\* The bug: the day that ends is dropped from the rolling trade count.
RolledForgetful(s) ==
    IF s.day = today THEN s
    ELSE [day |-> today, trades |-> 0, losing |-> 0, pnl |-> 0,
          tripped |-> "none", recent |-> Last(s.recent, 5)]

\* _rolled: a state of another day starts afresh and archives its trades.
Rolled(s) ==
    IF s.day = today THEN s
    ELSE [day |-> today, trades |-> 0, losing |-> 0, pnl |-> 0,
          tripped |-> "none",
          recent |-> Last(IF s.day # 0 /\ s.trades > 0
                             THEN Append(s.recent, [day |-> s.day, count |-> s.trades])
                             ELSE s.recent, 5)]

\* The bug: the trade limit trips one trade late.
TripsOneTradeLate(s) ==
    IF s.tripped # "none" THEN s
    ELSE [s EXCEPT !.tripped =
            IF s.pnl <= -MaxLoss \/ s.losing >= MaxConsecutive
               THEN "DAILY_LOSS_LIMIT"
            ELSE IF s.trades > MaxTrades THEN "MAX_TRADES_REACHED"
            ELSE "none"]

\* _maybe_trip: the first limit crossed, once.
MaybeTrip(s) ==
    IF s.tripped # "none" THEN s
    ELSE [s EXCEPT !.tripped =
            IF s.pnl <= -MaxLoss \/ s.losing >= MaxConsecutive
               THEN "DAILY_LOSS_LIMIT"
            ELSE IF s.trades >= MaxTrades THEN "MAX_TRADES_REACHED"
            ELSE "none"]

\* record_entry_submitted's new state.
EntryRecorded(s) == MaybeTrip([Rolled(s) EXCEPT !.trades = @ + 1])

\* The bug: a closed position only updates the counters.
CloseRecordedUntripped(s, result) ==
    [Rolled(s) EXCEPT !.pnl = @ + result,
                      !.losing = IF result < 0 THEN @ + 1 ELSE 0]

\* record_position_closed's new state.
CloseRecorded(s, result) ==
    MaybeTrip([Rolled(s) EXCEPT !.pnl = @ + result,
                                !.losing = IF result < 0 THEN @ + 1 ELSE 0])

\* The count of the archived day that k others follow.
CountBack(seq, k) == IF k < Len(seq) THEN seq[Len(seq) - k].count ELSE 0

\* The day trades pdt_verdict counts: today and the last four archived days.
PdtUsed(s) ==
    s.trades + CountBack(s.recent, 0) + CountBack(s.recent, 1)
             + CountBack(s.recent, 2) + CountBack(s.recent, 3)

\* breaker_verdict and pdt_verdict block nothing; both work on a rolled copy
\* they do not save.
BreakerAllows(s) ==
    /\ MaybeTrip(Rolled(s)).tripped = "none"
    /\ PdtEnabled => PdtUsed(Rolled(s)) < PdtLimit

\* A day's page is over a limit.
Crossed(p) ==
    \/ p.entries >= MaxTrades
    \/ p.streak >= MaxConsecutive
    \/ p.pnl <= -MaxLoss

Note(p) ==
    /\ page' = p
    /\ hit' = (hit \/ Crossed(p))
    /\ UNCHANGED opened

-----------------------------------------------------------------------------
\* An entry passes the gate and goes to the broker.
PassGate(c) ==
    /\ c \notin entering
    /\ BreakerAllows(st)
    /\ entering' = entering \cup {c}
    /\ UNCHANGED <<today, st, page, opened, hit>>

\* place_entry_order returns and the entry is recorded on the current day.
EntryDone(c) ==
    /\ c \in entering
    /\ entering' = entering \ {c}
    /\ st' = EntryRecorded(st)
    /\ Note([page EXCEPT !.entries = @ + 1])
    /\ UNCHANGED today

\* place_entry_order raises, or the poll timeout cancels it: no record.
EntryLost(c) ==
    /\ c \in entering
    /\ entering' = entering \ {c}
    /\ UNCHANGED <<today, st, page, opened, hit>>

Restart ==
    /\ entering # {}
    /\ entering' = {}
    /\ UNCHANGED <<today, st, page, opened, hit>>

ClosedPage(result) ==
    [page EXCEPT !.pnl = @ + result,
                 !.streak = IF result < 0 THEN @ + 1 ELSE 0,
                 !.closed = @ + 1]

\* A position is closed and reported: PositionManager._notify_if_closed.
PositionClosed(result) ==
    /\ page.closed < MaxClosed
    /\ st' = CloseRecorded(st, result)
    /\ Note(ClosedPage(result))
    /\ UNCHANGED <<today, entering>>

NextDay ==
    /\ today < LastDay
    /\ today' = today + 1
    /\ opened' = [opened EXCEPT ![today] = page.entries]
    /\ page' = EmptyPage
    /\ hit' = FALSE
    /\ UNCHANGED <<st, entering>>

EntrySteps == \E c \in Callers : PassGate(c) \/ EntryDone(c) \/ EntryLost(c)

\* The tracker with a caller that reports closed positions.  The application
\* has none: fills and adopted positions do not go through
\* open_or_update_position.
Next ==
    \/ EntrySteps
    \/ Restart
    \/ \E result \in Results : PositionClosed(result)
    \/ NextDay

Spec == Init /\ [][Next]_vars

-----------------------------------------------------------------------------
StateType == [day : Nat, trades : Nat, losing : Nat, pnl : Int, tripped : Trips,
              recent : Seq([day : Nat, count : Nat])]

\* Stored counters are numbers, the trip one of the codes a verdict carries.
TypeOK ==
    /\ today \in Days
    /\ st \in StateType
    /\ entering \in SUBSET Callers
    /\ page \in [entries : Nat, pnl : Int, streak : Nat, closed : Nat]
    /\ opened \in [Days -> Nat]
    /\ hit \in BOOLEAN

\* The stored state, rolled to today, is tripped once the day has crossed a
\* limit: no later win, restart or race of two entries hides it.
HitDayIsTripped ==
    hit => Rolled(st).tripped # "none"

\* A tripped breaker keeps its reason until the trading day changes.
TripIsSticky ==
    [][st.tripped # "none" /\ st'.day = st.day => st'.tripped = st.tripped]_vars

\* A daily limit stops new entries for the rest of the day, whatever happens
\* in between, and only for that day.
NoEntryOnAHitDay ==
    [][entering' \subseteq entering \/ ~ hit]_vars

\* The trade limit can be passed only by entries that were already waiting for
\* the broker when it was reached: one less than the callers at most.
TradesBounded ==
    Rolled(st).trades + Cardinality(entering) <= MaxTrades - 1 + Cardinality(Callers)

OpenedBefore(k) == IF today - k \in Days THEN opened[today - k] ELSE 0

\* The PDT count never misses an entry recorded in the last five trading days,
\* even over days on which the state was never saved.
PdtNeverUndercounts ==
    PdtUsed(Rolled(st)) >= page.entries + OpenedBefore(1) + OpenedBefore(2)
                                        + OpenedBefore(3) + OpenedBefore(4)

=============================================================================
