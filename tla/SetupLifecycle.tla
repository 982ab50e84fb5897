--------------------------- MODULE SetupLifecycle ---------------------------
(***************************************************************************)
(* One setup: its row, the facts its status is judged by, the batch of     *)
(* signals read from the row, and the order a signal leads to.             *)
(*                                                                         *)
(* A batch is evaluated at one moment and handled after the signals before *)
(* it, each of which may wait for TWS: the status, the enabled flag and    *)
(* the signal it carries may be old by then.  Meanwhile the market moves,  *)
(* the periodic revalidation writes the row, operators arm, disarm, switch *)
(* and save the setup, and reconciliation runs adopt and correct.  The     *)
(* bracket itself is BracketEntry's; here it is in flight, has an active   *)
(* row, or works at TWS with its row closed by mistake.                    *)
(***************************************************************************)
EXTENDS SetupMachine, FiniteSets

CONSTANTS
    Setups,       \* the configurations checked
    MaxChanges    \* bound: changes of the facts in one behaviour

ASSUME SetupsAssumption == Setups \subseteq Configs /\ Setups # {}
ASSUME ChangesAssumption == MaxChanges \in Nat

VARIABLES
    cfg,      \* the configuration, fixed
    row,      \* the setup's row: status and enabled (Auto ON)
    facts,    \* the market, the clock and the broker report
    changes,  \* changes of the facts so far
    batch,    \* the signal read and not handled yet
    order,    \* the entry: none, flight, active, lost (working, row closed)
    held,     \* the account holds the position of a management-only setup
    position  \* the position's row

lvars == <<cfg, row, facts, changes, batch, order, held, position>>

NoBatch == [action |-> "none", target |-> "none", read |-> "none", asked |-> "none",
            enabled |-> FALSE]

\* update_setup_status writes nothing when the row is gone.
Deleted == "DELETED"
SetStatus(s) == row' = IF row.status = Deleted THEN row ELSE [row EXCEPT !.status = s]

\* A first start outside the session, and a start on saved ticks and a report.
Cold == [price |-> NoQuote, bullish |-> FALSE, rth |-> FALSE, wide |-> FALSE,
         broker |-> "unknown", age |-> "fresh"]
Warm == [Cold EXCEPT !.price = InZone, !.rth = TRUE, !.broker = "ok"]

\* A saved setup starts DISABLED, with the enabled flag of its file.
LInit ==
    /\ cfg \in Setups
    /\ row = [status |-> "DISABLED", enabled |-> TRUE]
    /\ facts \in {Cold, Warm}
    /\ changes = 0
    /\ batch = NoBatch
    /\ order = "none"
    /\ held = cfg.management
    /\ position = FALSE

-----------------------------------------------------------------------------
(* The facts.                                                              *)

Changed ==
    /\ changes < MaxChanges
    /\ changes' = changes + 1
    /\ UNCHANGED <<cfg, row, batch, order, position>>

Quoted ==
    /\ \E p \in Prices \ {NoQuote}, b, w \in BOOLEAN :
          facts' = [facts EXCEPT !.price = p, !.bullish = b, !.wide = w]
    /\ facts' # facts
    /\ Changed /\ UNCHANGED held

SessionChanges == facts' = [facts EXCEPT !.rth = ~ @] /\ Changed /\ UNCHANGED held

Reported ==
    /\ \E b \in {"ok", "blocking"} \ {facts.broker} : facts' = [facts EXCEPT !.broker = b]
    /\ Changed /\ UNCHANGED held

\* max_age_days pass, or expires_at does.
Ages ==
    /\ facts.age = "fresh"
    /\ \E a \in {"old", "expired"} : facts' = [facts EXCEPT !.age = a]
    /\ Changed /\ UNCHANGED held

PositionClosed == held /\ held' = FALSE /\ Changed /\ UNCHANGED facts

-----------------------------------------------------------------------------
(* revalidate_all, every 30 s, for every managed setup.                    *)

Revalidate ==
    /\ row.status \in Managed
    /\ SetStatus(AppliedStatus(cfg, row.status, facts, position))
    /\ UNCHANGED <<cfg, facts, changes, batch, order, held, position>>

-----------------------------------------------------------------------------
(* evaluate_snapshot and the handling of its signal.                       *)

\* No strategy runs under these.
Mute == Decisive \cup {"ERROR_REQUIRES_MANUAL_REVIEW", "BLOCKED", "STALE_SETUP",
                       "MISSED_BREAKOUT_WAIT_RETEST"}

\* The status the strategy is asked about: a DISABLED setup is evaluated as
\* one that has just been armed.
AskedStatus(s) == IF s = "DISABLED" THEN InitialStatus(cfg) ELSE s

\* The row is revalidated and read, and the strategy asked.  The session
\* policy keeps an entry signal for later outside the session.
Evaluate ==
    /\ batch = NoBatch /\ facts.price # NoQuote /\ row.status # Deleted
    /\ LET judged == JudgedStatus(cfg, row.status, facts, position)
           asked == AskedStatus(judged)
           signal == SignalOf(cfg, asked, facts)
       IN  /\ SetStatus(AppliedStatus(cfg, row.status, facts, position))
           /\ batch' = IF \/ asked \in Mute \/ signal = Hold
                          \/ signal = EntryReady /\ ~ facts.rth
                       THEN NoBatch
                       ELSE [action |-> signal.action, target |-> signal.target,
                             read |-> judged, asked |-> asked, enabled |-> row.enabled]
    /\ UNCHANGED <<cfg, facts, changes, order, held, position>>

Handled == batch' = NoBatch /\ UNCHANGED <<cfg, facts, changes, held, position>>

\* transition_setup: the table is asked about the status the batch has read,
\* without the role, and the row is written over whatever it holds now.
Transition ==
    /\ batch.action \in {"STATUS_CHANGE", "INVALIDATE"}
    /\ IF CanTransition(batch.asked, batch.target, FALSE)
          THEN SetStatus(batch.target) ELSE UNCHANGED row
    /\ Handled /\ UNCHANGED order

\* execute_raise_stop_signal: a stop may be raised on a position row alone; a
\* stop that stands higher already is not moved.
RaiseStopHandled ==
    /\ batch.action = "RAISE_STOP"
    /\ \E moved \in {FALSE, position} :
          IF moved /\ CanTransition(batch.asked, batch.target, FALSE)
          THEN SetStatus(batch.target) ELSE UNCHANGED row
    /\ Handled /\ UNCHANGED order

\* _lifecycle_allows_transmission: the ladder on the status the batch has read
\* and on the facts of this moment.
Transmissible ==
    RevalidatedStatus(cfg, batch.read, facts, position)
        \notin {"INVALIDATED", "EXPIRED", "STALE_SETUP",
                "MISSED_BREAKOUT_WAIT_RETEST", "BLOCKED"}

\* The bugs: the role is not looked at; the ladder is not climbed again.
EntryHandledOfAnyRole ==
    /\ batch.action = "ENTRY_READY"
    /\ order' = IF /\ facts.rth /\ batch.enabled /\ Transmissible
                   /\ facts.broker = "ok" /\ order \notin {"active", "flight"}
                THEN "flight" ELSE order
    /\ UNCHANGED row
    /\ Handled

EntryHandledAsRead ==
    /\ batch.action = "ENTRY_READY"
    /\ order' = IF /\ facts.rth /\ batch.enabled /\ ~ cfg.management
                   /\ facts.broker = "ok" /\ order \notin {"active", "flight"}
                THEN "flight" ELSE order
    /\ UNCHANGED row
    /\ Handled

\* execute_entry_ready up to the broker's wait: the session of this moment, the
\* role, the enabled flag the batch has read, the ladder, the broker gate and
\* the duplicate check.  The trade guards, the risk engine, the cost gate and
\* the rest of the broker gate may refuse as well.  A setup the ladder stops is
\* demoted, from the status the batch has read.
EntryHandled ==
    /\ batch.action = "ENTRY_READY"
    /\ IF ~ facts.rth
          THEN UNCHANGED <<row, order>>
       ELSE IF cfg.management
          THEN SetStatus("ERROR_REQUIRES_MANUAL_REVIEW") /\ UNCHANGED order
       ELSE IF batch.enabled /\ ~ Transmissible
          THEN /\ IF AppliedStatus(cfg, batch.read, facts, position) # batch.read
                     THEN SetStatus(AppliedStatus(cfg, batch.read, facts, position))
                     ELSE UNCHANGED row
               /\ UNCHANGED order
       ELSE /\ \/ order' = order
               \/ /\ batch.enabled /\ facts.broker = "ok" /\ order \notin {"active", "flight"}
                  /\ order' = "flight"
            /\ UNCHANGED row
    /\ Handled

-----------------------------------------------------------------------------
(* The bracket, as BracketEntry leaves it.                                 *)

OrderStep == UNCHANGED <<cfg, facts, changes, batch, held, position>>

BracketPlaced ==
    /\ order = "flight" /\ order' = "active"
    /\ SetStatus("ENTRY_ORDER_PLACED")
    /\ OrderStep

BracketRefused ==
    /\ order = "flight" /\ order' = "none"
    /\ SetStatus("ERROR_REQUIRES_MANUAL_REVIEW")
    /\ OrderStep

\* The poll timeout cancels the task: nothing is saved.
BracketCutOff == order = "flight" /\ order' = "none" /\ UNCHANGED row /\ OrderStep

\* The user cancels it, or a run finds it filled: the setup's status stays.
OrderLeaves == order = "active" /\ order' = "none" /\ UNCHANGED row /\ OrderStep

\* A run finds the entry cancelled, or infers it while it still works.
OrderFoundCancelled ==
    /\ order = "active" /\ order' \in {"none", "lost"}
    /\ IF row.status \in {"ENTRY_ORDER_PLACED", "STOP_ORDER_PLACED"}
          THEN SetStatus("CANCELLED") ELSE UNCHANGED row
    /\ OrderStep

\* A run finds the lost entry open: its row is active again, and a setup that
\* had ended gets the status of the side that is restored first.
OrderRestored ==
    /\ order = "lost" /\ order' = "active"
    /\ IF row.status \in Decisive \cup {"ERROR_REQUIRES_MANUAL_REVIEW", "MANUAL_REVIEW_REQUIRED"}
          THEN \E s \in {"ENTRY_ORDER_PLACED", "STOP_ORDER_PLACED"} : SetStatus(s)
          ELSE UNCHANGED row
    /\ OrderStep

\* The lost entry fills or is cancelled by hand in TWS.
LostOrderEnds == order = "lost" /\ order' = "none" /\ UNCHANGED row /\ OrderStep

-----------------------------------------------------------------------------
(* The adoption of a run, for a management-only setup that has not ended,  *)
(* armed or not.  Without the position at TWS, with the price below the    *)
(* stop or without an open stop order it asks for a review.                *)

AdoptionRun ==
    /\ cfg.management /\ row.status # Deleted
    /\ row.status \notin Decisive \cup {"ERROR_REQUIRES_MANUAL_REVIEW"}
    /\ \/ SetStatus("MANUAL_REVIEW_REQUIRED") /\ UNCHANGED position
       \/ /\ held /\ facts.price # Broken
          /\ SetStatus("IN_POSITION") /\ position' = TRUE
    /\ UNCHANGED <<cfg, facts, changes, batch, order, held>>

-----------------------------------------------------------------------------
(* The operators.                                                          *)

Operated == UNCHANGED <<cfg, facts, changes, batch, order, held, position>>

\* arm_setup: whatever the status, if the ladder leaves the setup armable.
Arm ==
    /\ row.status # Deleted
    /\ CanBeArmed(cfg, row.status, facts, position)
    /\ SetStatus(InitialStatus(cfg))
    /\ Operated

\* disarm_setup: not with an active order row or a position row.
Disarm ==
    /\ order # "active" /\ ~ position
    /\ SetStatus("DISABLED")
    /\ Operated

\* Auto ON and Auto OFF.
SwitchAuto == row.status # Deleted /\ row' = [row EXCEPT !.enabled = ~ @] /\ Operated

\* delete_setup, under the conditions of a disarm.
Delete ==
    /\ order # "active" /\ ~ position
    /\ SetStatus(Deleted)
    /\ Operated

\* save_setup keeps the status, starts a new setup DISABLED and sets the
\* enabled flag back to the one of the file, which is TRUE.
Save ==
    /\ row' = [status |-> IF row.status = Deleted THEN "DISABLED" ELSE row.status,
               enabled |-> TRUE]
    /\ Operated

\* A restart loses the batch and the bracket in flight; load_all keeps the row.
Restart ==
    /\ batch' = NoBatch
    /\ order' = IF order = "flight" THEN "none" ELSE order
    /\ UNCHANGED <<cfg, row, facts, changes, held, position>>

-----------------------------------------------------------------------------
Market == Quoted \/ SessionChanges \/ Reported \/ Ages \/ PositionClosed
Handle == Transition \/ RaiseStopHandled \/ EntryHandled
Bracket == \/ BracketPlaced \/ BracketRefused \/ BracketCutOff
           \/ OrderLeaves \/ OrderFoundCancelled \/ OrderRestored \/ LostOrderEnds
Operator == Arm \/ Disarm \/ SwitchAuto \/ Delete \/ Save

LNext == Market \/ Revalidate \/ Evaluate \/ Handle \/ Bracket \/ AdoptionRun
            \/ Operator \/ Restart

\* The monitor's loop revalidates every 30 s.
LSpec == LInit /\ [][LNext]_lvars /\ WF_lvars(Revalidate)

-----------------------------------------------------------------------------
(* Properties.                                                             *)

RowType == [status : Statuses \cup {Deleted}, enabled : BOOLEAN]

\* Every variable keeps its type: no step of any party writes a status the
\* program does not know.
LTypeOK ==
    /\ cfg \in Setups
    /\ row \in RowType
    /\ facts \in Facts
    /\ changes \in 0..MaxChanges
    /\ batch.action \in {"none", "STATUS_CHANGE", "INVALIDATE", "RAISE_STOP", "ENTRY_READY"}
    /\ order \in {"none", "flight", "active", "lost"}
    /\ held \in BOOLEAN /\ position \in BOOLEAN

\* A management-only setup never enters: it has no order, and no party that
\* writes its row (arming, revalidation, a strategy of an entry kind, the
\* adoption, the restoring of orders) brings it into the entry flow.
ManagementNeverEnters ==
    cfg.management => order = "none" /\ row.status \notin EntryFlow

\* A setup that is over comes back by a disarm, a delete, a bracket that was
\* under way, an entry that turned out to work, or a batch read before.
OverUnlessAsked ==
    [][row.status \in Decisive /\ row'.status # row.status =>
          \/ row'.status \in {"DISABLED", Deleted}
          \/ order \in {"flight", "lost"}
          \/ batch # NoBatch /\ batch' = NoBatch]_lvars

\* An entry leaves only on facts of that moment that allow it: an open
\* session, a safe report, and unless the setup already had an entry when the
\* batch was read, an unexpired setup, an unbroken thesis, a price not beyond
\* the anti-chase buffer and a narrow spread.
EntryOnSoundFacts ==
    [][order = "none" /\ order' = "flight" =>
          /\ facts.rth /\ facts.broker = "ok"
          /\ \/ batch.read \notin Evaluable
             \/ /\ facts.age = "fresh" /\ ~ facts.wide
                /\ facts.price \notin {NoQuote, Broken, TooFar}]_lvars

\* Once the facts stay sound, a setup that was demoted for its environment
\* leaves BLOCKED, STALE_SETUP and MISSED_BREAKOUT_WAIT_RETEST again.
Sound == facts.age = "fresh" /\ facts.price \in {InZone, AtTrigger, Broke}
            /\ facts.broker = "ok" /\ ~ facts.wide
Demoted == row.status \in {"BLOCKED", "STALE_SETUP", "MISSED_BREAKOUT_WAIT_RETEST"}
DemotionEnds == <>[](Sound /\ (cfg.management => position)) => []<>(~ Demoted)

=============================================================================
