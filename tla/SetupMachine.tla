---------------------------- MODULE SetupMachine ----------------------------
(***************************************************************************)
(* What decides a setup's status: the transition table of state_machine,   *)
(* the revalidation ladder of setup_lifecycle_service and the strategies   *)
(* that turn a snapshot into a signal.  Pure operators; SetupLifecycle     *)
(* runs them against the row, the market and the operators.                *)
(*                                                                         *)
(* A price is told apart by the levels of the setup it has crossed, and    *)
(* bid, ask, last and close are one price.  Only long setups; only configs *)
(* that save_setup accepts, so a stop exists and lies below the entry.     *)
(***************************************************************************)
EXTENDS Integers

NoQuote    == 0   \* never a usable price for the symbol
Broken     == 1   \* below the stop, the support and every invalidation
InZone     == 2   \* in the support, retest or pullback zone, below the trigger
AtTrigger  == 3   \* at the top of the zone
Broke      == 4   \* above the trigger, within the maximum limit
AboveLimit == 5   \* above the maximum limit, within the anti-chase buffer
TooFar     == 6   \* beyond the anti-chase threshold
Prices == NoQuote..TooFar

\* What the decisions read beside the row.  age: the setup's created_at and
\* expires_at against the clock; broker: the saved broker reality report,
\* unknown before the first.
Facts == [price : Prices, bullish : BOOLEAN, rth : BOOLEAN, wide : BOOLEAN,
          broker : {"unknown", "ok", "blocking"}, age : {"fresh", "old", "expired"}]

Kinds == {"aggressive_rebound", "breakout_retest", "pullback_continuation",
          "range_breakout", "runner", "position_management"}

\* The kind of the setup, its role and whether it names a retest zone.
Configs == {c \in [kind : Kinds, management : BOOLEAN, retest : BOOLEAN] :
               c.kind = "position_management" => c.management}

-----------------------------------------------------------------------------
(* state_machine.py                                                        *)

Ending  == {"CANCELLED", "ERROR"}
Failing == {"INVALIDATED"} \cup Ending
Decided == {"EXPIRED"} \cup Failing

Allowed == [
    DISABLED |-> {"WAITING_ACTIVATION", "RECONCILING_EXISTING_POSITION", "CANCELLED"},
    WAITING_ACTIVATION |-> Decided \cup
        {"WAITING_BREAKOUT", "MISSED_BREAKOUT", "MISSED_BREAKOUT_WAIT_RETEST",
         "STALE_SETUP", "BLOCKED", "WAITING_RETEST", "WAITING_REBOUND",
         "WAITING_CONFIRMATION", "WAITING_ENTRY_SIGNAL"},
    BLOCKED |-> Decided \cup
        {"WAITING_ACTIVATION", "RECONCILING_EXISTING_POSITION",
         "MISSED_BREAKOUT_WAIT_RETEST", "STALE_SETUP", "DISABLED"},
    STALE_SETUP |-> Decided \cup
        {"WAITING_ACTIVATION", "MISSED_BREAKOUT_WAIT_RETEST", "BLOCKED", "DISABLED"},
    MISSED_BREAKOUT_WAIT_RETEST |-> Decided \cup
        {"WAITING_ACTIVATION", "WAITING_RETEST", "REARMED_ON_NEW_BASE",
         "STALE_SETUP", "BLOCKED", "DISABLED"},
    WAITING_ENTRY_SIGNAL |-> Failing \cup {"ENTRY_READY", "ENTRY_ORDER_PLACED"},
    ENTRY_ORDER_PLACED |-> Ending \cup {"ENTRY_PARTIALLY_FILLED", "ENTRY_FILLED"},
    STOP_ORDER_PLACED |-> {"IN_POSITION", "ERROR", "MANUAL_REVIEW_REQUIRED"},
    RECONCILING_EXISTING_POSITION |->
        {"IN_POSITION", "BLOCKED", "INVALIDATED", "MANUAL_REVIEW_REQUIRED",
         "ERROR_REQUIRES_MANUAL_REVIEW", "CANCELLED"},
    IN_POSITION |-> {"MANAGING_POSITION", "PARTIAL_EXIT", "CLOSED", "ERROR",
                     "MANUAL_REVIEW_REQUIRED"},
    MANAGING_POSITION |-> {"PARTIAL_EXIT", "CLOSED", "ERROR", "MANUAL_REVIEW_REQUIRED"},
    EXPIRED |-> {}, INVALIDATED |-> {}, CANCELLED |-> {},
    MANUAL_REVIEW_REQUIRED |-> {"CANCELLED", "ERROR", "ERROR_REQUIRES_MANUAL_REVIEW"},
    ERROR_REQUIRES_MANUAL_REVIEW |-> {"CANCELLED", "MANUAL_REVIEW_REQUIRED"}]

\* The statuses a row really takes.  Nothing writes the others of the enum
\* (DRAFT, LOADED, VALIDATED, ENTRY_READY, CLOSED, ERROR, ...) to a row of a
\* modelled kind; the ones of momentum_breakout belong to MomentumBreakout.
Statuses == DOMAIN Allowed

EntryFlow == {"WAITING_ACTIVATION", "MISSED_BREAKOUT_WAIT_RETEST", "STALE_SETUP",
              "WAITING_ENTRY_SIGNAL", "ENTRY_ORDER_PLACED", "STOP_ORDER_PLACED"}

Decisive == {"EXPIRED", "INVALIDATED", "CANCELLED"}

\* explain_transition: a management-only setup stays out of the entry flow,
\* where the caller names the role.
CanTransition(from, to, management) ==
    /\ ~ (management /\ to \in EntryFlow)
    /\ from = to \/ to \in Allowed[from]

-----------------------------------------------------------------------------
(* setup_lifecycle_service.py                                              *)

Managed == {"WAITING_ACTIVATION", "BLOCKED", "STALE_SETUP",
            "MISSED_BREAKOUT_WAIT_RETEST", "RECONCILING_EXISTING_POSITION"}
Evaluable == Managed \cup {"DISABLED", "WAITING_ENTRY_SIGNAL"}

Healthy(status) ==
    IF status \in Managed \cup {"DISABLED"} THEN "WAITING_ACTIVATION" ELSE status

\* The entry ladder, first rung that applies.
EntryStatus(cfg, status, f) ==
    IF f.age = "expired" THEN "EXPIRED"
    ELSE IF f.age = "old" THEN "STALE_SETUP"
    ELSE IF f.price = NoQuote THEN IF f.rth THEN "BLOCKED" ELSE Healthy(status)
    ELSE IF f.price = Broken THEN "INVALIDATED"
    ELSE IF f.price > Broke /\ cfg.retest THEN "MISSED_BREAKOUT_WAIT_RETEST"
    ELSE IF f.price = TooFar THEN "STALE_SETUP"
    ELSE IF f.rth /\ (f.broker = "blocking" \/ f.wide) THEN "BLOCKED"
    ELSE Healthy(status)

\* The management ladder: the broker, then the position's row.
ManagementStatus(status, f, position) ==
    IF (f.rth /\ f.broker = "blocking") \/ ~ position THEN "BLOCKED"
    ELSE IF status = "BLOCKED" THEN "RECONCILING_EXISTING_POSITION"
    ELSE status

\* revalidate_setup: orders, positions and decided setups pass through.
RevalidatedStatus(cfg, status, f, position) ==
    IF status \notin Evaluable THEN status
    ELSE IF cfg.management THEN ManagementStatus(status, f, position)
    ELSE EntryStatus(cfg, status, f)

\* The bug: a setup that is over is judged by the ladder like any other.
CanBeArmedAgain(cfg, status, f, position) ==
    IF cfg.management
    THEN ManagementStatus(status, f, position) # "BLOCKED"
    ELSE EntryStatus(cfg, status, f) \notin
            {"INVALIDATED", "EXPIRED", "STALE_SETUP", "MISSED_BREAKOUT_WAIT_RETEST"}

\* can_be_armed.
CanBeArmed(cfg, status, f, position) ==
    /\ status \in Evaluable
    /\ IF cfg.management
          THEN ManagementStatus(status, f, position) # "BLOCKED"
          ELSE EntryStatus(cfg, status, f) \notin
                  {"INVALIDATED", "EXPIRED", "STALE_SETUP", "MISSED_BREAKOUT_WAIT_RETEST"}

\* Neither a quote nor a report so far: nothing is judged.
Blind(f) == f.price = NoQuote /\ f.broker = "unknown"

\* The bug: a BLOCKED setup waits for somebody to arm it again.
AppliedUnlessBlocked(cfg, status, f, position) ==
    IF status \in Managed \ {"BLOCKED"} /\ ~ Blind(f)
    THEN RevalidatedStatus(cfg, status, f, position) ELSE status

\* The row after revalidate_and_apply: a managed status moves where the table
\* lets it, with the role named.
AppliedStatus(cfg, status, f, position) ==
    LET target == RevalidatedStatus(cfg, status, f, position)
    IN  IF /\ status \in Managed /\ ~ Blind(f)
           /\ CanTransition(status, target, cfg.management)
        THEN target ELSE status

\* What revalidate_and_apply hands on to the strategies, moved or not.
JudgedStatus(cfg, status, f, position) ==
    IF status \in Managed /\ ~ Blind(f)
    THEN RevalidatedStatus(cfg, status, f, position) ELSE status

-----------------------------------------------------------------------------
(* The strategies.                                                         *)

InitialStatus(cfg) ==
    IF cfg.management THEN "RECONCILING_EXISTING_POSITION" ELSE "WAITING_ACTIVATION"

Hold == [action |-> "HOLD", target |-> "none"]
Invalidate == [action |-> "INVALIDATE", target |-> "INVALIDATED"]
Change(to) == [action |-> "STATUS_CHANGE", target |-> to]
EntryReady == [action |-> "ENTRY_READY", target |-> "ENTRY_READY"]
RaiseStop  == [action |-> "RAISE_STOP", target |-> "MANAGING_POSITION"]

AggressiveRebound(status, f) ==
    CASE f.price = Broken -> Invalidate
      [] status = "WAITING_ACTIVATION" /\ f.price \in {InZone, AtTrigger}
            -> Change("WAITING_ENTRY_SIGNAL")
      [] status = "WAITING_ENTRY_SIGNAL" /\ f.bullish /\ f.price > AtTrigger -> EntryReady
      [] OTHER -> Hold

BreakoutRetest(status, f) ==
    CASE f.price = Broken /\ status \in {"WAITING_ACTIVATION", "WAITING_ENTRY_SIGNAL"}
            -> Invalidate
      [] status = "WAITING_ACTIVATION" /\ f.price > AtTrigger -> Change("WAITING_ENTRY_SIGNAL")
      [] status = "WAITING_ENTRY_SIGNAL" /\ f.bullish /\ f.price \in {InZone, AtTrigger}
            -> EntryReady
      [] OTHER -> Hold

\* Broken is also below the slow average, which lies below the fast one.
PullbackContinuation(status, f) ==
    CASE f.price = Broken -> Invalidate
      [] status = "WAITING_ACTIVATION" /\ f.price # Broken -> Change("WAITING_ENTRY_SIGNAL")
      [] status = "WAITING_ENTRY_SIGNAL" /\ f.bullish /\ f.price \in {InZone, AtTrigger}
            -> EntryReady
      [] OTHER -> Hold

\* It looks at no status at all.
RangeBreakout(f) ==
    CASE f.price = Broken -> Invalidate
      [] f.price > AtTrigger -> EntryReady
      [] OTHER -> Hold

\* Runner, trailing runner and position management: a rule raises the stop of
\* a position that is held.
StopRules(status, f) ==
    IF status \in {"IN_POSITION", "MANAGING_POSITION"} /\ f.price > AtTrigger
    THEN RaiseStop ELSE Hold

SignalOf(cfg, status, f) ==
    CASE cfg.kind = "aggressive_rebound" -> AggressiveRebound(status, f)
      [] cfg.kind = "breakout_retest" -> BreakoutRetest(status, f)
      [] cfg.kind = "pullback_continuation" -> PullbackContinuation(status, f)
      [] cfg.kind = "range_breakout" -> RangeBreakout(f)
      [] OTHER -> StopRules(status, f)
=============================================================================
