---------------------------- MODULE Engine_proofs ----------------------------
(***************************************************************************)
(* Machine-checked proofs about the setups and the broker session of the   *)
(* engine: SetupLifecycle, for every set of configurations and every       *)
(* number of changes of the facts, and TwsConnection, for every set of     *)
(* operators, session objects and client ids and every bound.              *)
(*                                                                         *)
(* A management-only setup stays out of the entry flow because no batch it *)
(* leads to has a target there: the ladder of a management-only setup      *)
(* gives no status a strategy of an entry kind would act on.  While no two *)
(* connects overlap, one task at most connects, on the connector the       *)
(* engine holds, and no session is up until it is done.                    *)
(***************************************************************************)
EXTENDS SetupLifecycle, TwsConnection, TLAPS


-----------------------------------------------------------------------------
(* The operators of SetupMachine.                                          *)

LEMMA StatusesAre ==
    Statuses = {"DISABLED", "WAITING_ACTIVATION", "BLOCKED", "STALE_SETUP",
        "MISSED_BREAKOUT_WAIT_RETEST", "WAITING_ENTRY_SIGNAL", "ENTRY_ORDER_PLACED",
        "STOP_ORDER_PLACED", "RECONCILING_EXISTING_POSITION", "IN_POSITION",
        "MANAGING_POSITION", "EXPIRED", "INVALIDATED", "CANCELLED",
        "MANUAL_REVIEW_REQUIRED", "ERROR_REQUIRES_MANUAL_REVIEW"}
BY DEF Statuses, Allowed

\* The ladders know the statuses they leave a setup in.
LEMMA LadderStatuses ==
    ASSUME NEW c, NEW s \in Statuses, NEW f, NEW p
    PROVE  RevalidatedStatus(c, s, f, p) \in Statuses
BY StatusesAre DEF RevalidatedStatus, ManagementStatus, EntryStatus, Healthy

LEMMA AppliedStatuses ==
    ASSUME NEW c, NEW s \in Statuses, NEW f, NEW p
    PROVE  AppliedStatus(c, s, f, p) \in Statuses /\ JudgedStatus(c, s, f, p) \in Statuses
BY LadderStatuses DEF AppliedStatus, JudgedStatus

\* The status of a row whose setup is deleted, and of one that is not
\* evaluated any more, is left alone.
LEMMA AppliedElsewhere ==
    ASSUME NEW c, NEW s, s \notin Managed, NEW f, NEW p
    PROVE  AppliedStatus(c, s, f, p) = s /\ JudgedStatus(c, s, f, p) = s
BY DEF AppliedStatus, JudgedStatus

\* The ladder of a management-only setup never leads into the entry flow.
LEMMA ManagementLadder ==
    ASSUME NEW c, c.management, NEW s, s \notin EntryFlow, NEW f, NEW p
    PROVE  AppliedStatus(c, s, f, p) \notin EntryFlow /\ JudgedStatus(c, s, f, p) \notin EntryFlow
BY DEF AppliedStatus, JudgedStatus, RevalidatedStatus, ManagementStatus, EntryFlow

\* Every signal is one of these.
LEMMA Signals ==
    ASSUME NEW c, NEW s, NEW f
    PROVE  SignalOf(c, s, f) \in {Hold, Invalidate, Change("WAITING_ENTRY_SIGNAL"),
                                  EntryReady, RaiseStop}
BY DEF SignalOf, AggressiveRebound, BreakoutRetest, PullbackContinuation,
       RangeBreakout, StopRules

\* A strategy waits for an entry signal only from WAITING_ACTIVATION.
LEMMA WaitsFromActivation ==
    ASSUME NEW c, NEW s, NEW f, s # "WAITING_ACTIVATION"
    PROVE  SignalOf(c, s, f) # Change("WAITING_ENTRY_SIGNAL")
BY DEF SignalOf, AggressiveRebound, BreakoutRetest, PullbackContinuation,
       RangeBreakout, StopRules, Change, Hold, Invalidate, EntryReady, RaiseStop

-----------------------------------------------------------------------------
(* Types.                                                                  *)

LEMMA FactsSet ==
    ASSUME NEW f \in Facts
    PROVE  /\ \A p \in Prices : [f EXCEPT !.price = p] \in Facts
           /\ \A b \in BOOLEAN : [f EXCEPT !.bullish = b] \in Facts
           /\ \A b \in BOOLEAN : [f EXCEPT !.wide = b] \in Facts
           /\ \A b \in BOOLEAN : [f EXCEPT !.rth = b] \in Facts
           /\ \A b \in {"unknown", "ok", "blocking"} : [f EXCEPT !.broker = b] \in Facts
           /\ \A a \in {"fresh", "old", "expired"} : [f EXCEPT !.age = a] \in Facts
BY DEF Facts

\* The row keeps its type and its enabled flag whatever status is set.
LEMMA StatusSet ==
    ASSUME NEW r \in RowType, NEW s \in Statuses \cup {Deleted}
    PROVE  /\ [r EXCEPT !.status = s] \in RowType
           /\ [r EXCEPT !.status = s].status = s
           /\ \A b \in BOOLEAN : [r EXCEPT !.enabled = b] \in RowType
                                 /\ [r EXCEPT !.enabled = b].status = r.status
           /\ r.status \in Statuses \cup {Deleted} /\ r.enabled \in BOOLEAN
BY DEF RowType

LEMMA SetStatusType ==
    ASSUME row \in RowType, NEW s \in Statuses \cup {Deleted}, SetStatus(s)
    PROVE  row' \in RowType /\ row'.status \in {s, Deleted}
BY StatusSet DEF SetStatus

\* What a batch can hold.
BatchOK ==
    \/ batch = NoBatch
    \/ /\ \/ batch.action = "STATUS_CHANGE" /\ batch.target = "WAITING_ENTRY_SIGNAL"
          \/ batch.action = "INVALIDATE" /\ batch.target = "INVALIDATED"
          \/ batch.action = "RAISE_STOP" /\ batch.target = "MANAGING_POSITION"
          \/ batch.action = "ENTRY_READY" /\ batch.target = "ENTRY_READY"
       /\ batch.read \in Statuses

Typed == LTypeOK /\ BatchOK

LEMMA InitTyped == LInit => Typed
<1> SUFFICES ASSUME LInit PROVE Typed
  OBVIOUS
<1>1. row \in RowType
  BY StatusesAre DEF LInit, RowType
<1>2. facts \in Facts
  <2>1. Cold \in Facts
    BY DEF Facts, Cold, Prices, NoQuote, TooFar
  <2>2. [Cold EXCEPT !.price = InZone] \in Facts
    <3>1. InZone \in Prices
      BY DEF Prices, NoQuote, InZone, TooFar
    <3> QED BY <2>1, <3>1, FactsSet
  <2>3. [[Cold EXCEPT !.price = InZone] EXCEPT !.rth = TRUE] \in Facts
    BY <2>2, FactsSet
  <2>4. [[[Cold EXCEPT !.price = InZone] EXCEPT !.rth = TRUE] EXCEPT !.broker = "ok"] \in Facts
    BY <2>3, FactsSet
  <2>5. Warm \in Facts
    BY <2>4, Zenon DEF Warm
  <2> QED BY <2>1, <2>5 DEF LInit
<1>3. held \in BOOLEAN
  BY SetupsAssumption DEF LInit, Configs
<1> QED
  <2>1. BatchOK /\ batch.action = "none"
    BY DEF LInit, BatchOK, NoBatch
  <2>2. position \in BOOLEAN /\ cfg \in Setups /\ order = "none"
    BY DEF LInit
  <2>3. changes \in 0..MaxChanges
    BY ChangesAssumption DEF LInit
  <2> QED BY <1>1, <1>2, <1>3, <2>1, <2>2, <2>3 DEF Typed, LTypeOK

LEMMA MarketTyped == Typed /\ Market => Typed'
<1> SUFFICES ASSUME Typed, Market PROVE Typed'
  OBVIOUS
<1>1. changes' \in 0..MaxChanges /\ UNCHANGED <<cfg, row, batch, order, position>>
  <2>1. Changed
    BY DEF Market, Quoted, SessionChanges, Reported, Ages, PositionClosed
  <2> QED BY <2>1, ChangesAssumption DEF Changed, Typed, LTypeOK
<1>2. held' \in BOOLEAN
  BY DEF Market, Quoted, SessionChanges, Reported, Ages, PositionClosed, Typed, LTypeOK
<1>3. facts' \in Facts
  <2>1. CASE Quoted
    <3>1. PICK p \in Prices, b \in BOOLEAN, w \in BOOLEAN :
             facts' = [[[facts EXCEPT !.price = p] EXCEPT !.bullish = b] EXCEPT !.wide = w]
      BY <2>1 DEF Quoted
    <3>2. [facts EXCEPT !.price = p] \in Facts
      BY FactsSet DEF Typed, LTypeOK
    <3>3. [[facts EXCEPT !.price = p] EXCEPT !.bullish = b] \in Facts
      BY <3>2, FactsSet
    <3> QED BY <3>1, <3>3, FactsSet
  <2>2. CASE SessionChanges
    BY <2>2, FactsSet DEF SessionChanges, Typed, LTypeOK
  <2>3. CASE Reported
    BY <2>3, FactsSet DEF Reported, Typed, LTypeOK
  <2>4. CASE Ages
    BY <2>4, FactsSet DEF Ages, Typed, LTypeOK
  <2>5. CASE PositionClosed
    BY <2>5 DEF PositionClosed, Typed, LTypeOK
  <2> QED BY <2>1, <2>2, <2>3, <2>4, <2>5 DEF Market
<1> QED
  BY <1>1, <1>2, <1>3 DEF Typed, LTypeOK, BatchOK

LEMMA EvaluateTyped == Typed /\ Evaluate => Typed'
<1> SUFFICES ASSUME Typed, Evaluate PROVE Typed'
  OBVIOUS
<1> DEFINE judged == JudgedStatus(cfg, row.status, facts, position)
           applied == AppliedStatus(cfg, row.status, facts, position)
           signal == SignalOf(cfg, AskedStatus(judged), facts)
<1>1. row.status \in Statuses
  BY StatusSet DEF Evaluate, Typed, LTypeOK
<1>2. judged \in Statuses /\ applied \in Statuses
  BY <1>1, AppliedStatuses
<1>3. row' \in RowType
  BY <1>2, SetStatusType DEF Evaluate, Typed, LTypeOK
<1>4. signal \in {Hold, Invalidate, Change("WAITING_ENTRY_SIGNAL"), EntryReady, RaiseStop}
  BY Signals
<1>5. \/ batch' = NoBatch
      \/ /\ batch' = [action |-> signal.action, target |-> signal.target, read |-> judged,
                      asked |-> AskedStatus(judged), enabled |-> row.enabled]
         /\ signal # Hold
  BY DEF Evaluate
<1> HIDE DEF judged, applied, signal
<1>6. BatchOK'
  BY <1>2, <1>4, <1>5 DEF BatchOK, Hold, Invalidate, Change, EntryReady, RaiseStop
<1>7. UNCHANGED <<cfg, facts, changes, order, held, position>>
  BY DEF Evaluate
<1>8. batch'.action \in {"none", "STATUS_CHANGE", "INVALIDATE", "RAISE_STOP", "ENTRY_READY"}
  BY <1>6 DEF BatchOK, NoBatch
<1> QED
  BY <1>3, <1>6, <1>7, <1>8 DEF Typed, LTypeOK

LEMMA HandleTyped == Typed /\ Handle => Typed'
<1> SUFFICES ASSUME Typed, Handle PROVE Typed'
  OBVIOUS
<1>1. batch # NoBatch
  <2>1. NoBatch.action = "none"
    BY DEF NoBatch
  <2>2. batch.action # "none"
    BY DEF Handle, Transition, RaiseStopHandled, EntryHandled
  <2> QED BY <2>1, <2>2
<1>2. batch' = NoBatch /\ UNCHANGED <<cfg, facts, changes, held, position>>
  BY DEF Handle, Transition, RaiseStopHandled, EntryHandled, Handled
<1>3. order' \in {"none", "flight", "active", "lost"}
  BY DEF Handle, Transition, RaiseStopHandled, EntryHandled, Typed, LTypeOK
<1>4. row' \in RowType
  <2> DEFINE applied == AppliedStatus(cfg, batch.read, facts, position)
  <2>1. applied \in Statuses
    BY <1>1, AppliedStatuses DEF Typed, BatchOK
  <2>2. batch.action # "ENTRY_READY" => batch.target \in Statuses
    BY <1>1, StatusesAre DEF Typed, BatchOK
  <2>3. \/ UNCHANGED row
        \/ batch.action # "ENTRY_READY" /\ SetStatus(batch.target)
        \/ SetStatus("ERROR_REQUIRES_MANUAL_REVIEW")
        \/ SetStatus(applied)
    BY DEF Handle, Transition, RaiseStopHandled, EntryHandled
  <2> HIDE DEF applied
  <2> QED BY <2>1, <2>2, <2>3, SetStatusType, StatusesAre DEF Typed, LTypeOK
<1> QED
  BY <1>2, <1>3, <1>4 DEF Typed, LTypeOK, BatchOK, NoBatch

LEMMA BracketTyped == Typed /\ Bracket => Typed'
<1> SUFFICES ASSUME Typed, Bracket PROVE Typed'
  OBVIOUS
<1>1. UNCHANGED <<cfg, facts, changes, batch, held, position>>
  BY DEF Bracket, BracketPlaced, BracketRefused, BracketCutOff, OrderLeaves,
         OrderFoundCancelled, OrderRestored, LostOrderEnds, OrderStep
<1>2. order' \in {"none", "flight", "active", "lost"}
  BY DEF Bracket, BracketPlaced, BracketRefused, BracketCutOff, OrderLeaves,
         OrderFoundCancelled, OrderRestored, LostOrderEnds
<1>3. UNCHANGED row \/ \E s \in Statuses : SetStatus(s)
  BY StatusesAre DEF Bracket, BracketPlaced, BracketRefused, BracketCutOff, OrderLeaves,
         OrderFoundCancelled, OrderRestored, LostOrderEnds
<1>4. row' \in RowType
  BY <1>3, SetStatusType DEF Typed, LTypeOK
<1> QED
  BY <1>1, <1>2, <1>4 DEF Typed, LTypeOK, BatchOK

LEMMA OperatorTyped == Typed /\ Operator => Typed'
<1> SUFFICES ASSUME Typed, Operator PROVE Typed'
  OBVIOUS
<1>1. UNCHANGED <<cfg, facts, changes, batch, order, held, position>>
  BY DEF Operator, Arm, Disarm, SwitchAuto, Delete, Save, Operated
<1>2. row' \in RowType
  <2>1. CASE Arm \/ Disarm \/ Delete
    <3>1. \E s \in Statuses \cup {Deleted} : SetStatus(s)
      BY <2>1, StatusesAre DEF Arm, Disarm, Delete, InitialStatus
    <3> QED BY <3>1, SetStatusType DEF Typed, LTypeOK
  <2>2. CASE SwitchAuto
    BY <2>2, StatusSet DEF SwitchAuto, Typed, LTypeOK
  <2>3. CASE Save
    <3>1. row.status \in Statuses \cup {Deleted}
      BY StatusSet DEF Typed, LTypeOK
    <3> QED BY <2>3, <3>1, StatusesAre DEF Save, RowType
  <2> QED BY <2>1, <2>2, <2>3 DEF Operator
<1> QED
  BY <1>1, <1>2 DEF Typed, LTypeOK, BatchOK

LEMMA NextTyped == Typed /\ [LNext]_lvars => Typed'
<1> SUFFICES ASSUME Typed, [LNext]_lvars PROVE Typed'
  OBVIOUS
<1>1. CASE Revalidate
  <2>1. row.status \in Statuses
    BY <1>1, StatusesAre DEF Revalidate, Managed
  <2>2. row' \in RowType
    BY <1>1, <2>1, AppliedStatuses, SetStatusType DEF Revalidate, Typed, LTypeOK
  <2> QED BY <1>1, <2>2 DEF Revalidate, Typed, LTypeOK, BatchOK
<1>2. CASE AdoptionRun
  <2>1. row' \in RowType /\ position' \in BOOLEAN
    BY <1>2, StatusesAre, SetStatusType DEF AdoptionRun, Typed, LTypeOK
  <2> QED BY <1>2, <2>1 DEF AdoptionRun, Typed, LTypeOK, BatchOK
<1>3. CASE Restart
  BY <1>3 DEF Restart, Typed, LTypeOK, BatchOK, NoBatch
<1>4. CASE UNCHANGED lvars
  BY <1>4 DEF lvars, Typed, LTypeOK, BatchOK
<1> QED
  BY <1>1, <1>2, <1>3, <1>4, MarketTyped, EvaluateTyped, HandleTyped, BracketTyped,
     OperatorTyped DEF LNext

\* Type correctness: no party writes a status the program does not know.
THEOREM LifecycleTypes == LSpec => []LTypeOK
<1>1. Typed => LTypeOK
  BY DEF Typed
<1> QED
  BY InitTyped, NextTyped, <1>1, PTL DEF LSpec

-----------------------------------------------------------------------------
(* Management-only setups.                                                 *)

\* The inductive part: no batch of a management-only setup leads into the
\* entry flow either.
StaysOut ==
    cfg.management =>
       /\ order = "none"
       /\ row.status \notin EntryFlow
       /\ batch.target \notin EntryFlow

IInv == Typed /\ StaysOut

\* What a step of such a setup may set its status to.
LEMMA SetOutside ==
    ASSUME row \in RowType, row.status \notin EntryFlow,
           UNCHANGED row \/ \E s \in (Statuses \cup {Deleted}) \ EntryFlow : SetStatus(s)
    PROVE  row'.status \notin EntryFlow
<1>1. CASE UNCHANGED row
  BY <1>1
<1>2. ASSUME NEW s \in (Statuses \cup {Deleted}) \ EntryFlow, SetStatus(s)
      PROVE  row'.status \notin EntryFlow
  BY <1>2, SetStatusType DEF EntryFlow, Deleted
<1> QED
  BY <1>1, <1>2

LEMMA NextStaysOut ==
    ASSUME Typed, StaysOut, [LNext]_lvars, cfg.management
    PROVE  order' = "none" /\ row'.status \notin EntryFlow /\ batch'.target \notin EntryFlow
<1> DEFINE Out == UNCHANGED row
                  \/ \E s \in (Statuses \cup {Deleted}) \ EntryFlow : SetStatus(s)
           Goal == order' = "none" /\ row'.status \notin EntryFlow
                   /\ batch'.target \notin EntryFlow
<1>1. order = "none" /\ row.status \notin EntryFlow /\ batch.target \notin EntryFlow
      /\ row \in RowType
  BY DEF StaysOut, Typed, LTypeOK
<1>2. ASSUME Out, order' = "none", batch'.target \notin EntryFlow PROVE Goal
  BY <1>1, <1>2, SetOutside
<1>3. NoBatch.target \notin EntryFlow
  BY DEF NoBatch, EntryFlow
<1>4. CASE Market
  <2>1. UNCHANGED <<row, batch, order>>
    BY <1>4 DEF Market, Quoted, SessionChanges, Reported, Ages, PositionClosed, Changed
  <2> QED BY <1>1, <2>1
<1>5. CASE Revalidate
  <2>1. row.status \in Statuses
    BY <1>5, StatusesAre DEF Revalidate, Managed
  <2>2. Out
    BY <1>1, <1>5, <2>1, AppliedStatuses, ManagementLadder DEF Revalidate
  <2> QED BY <1>1, <1>2, <1>5, <2>2 DEF Revalidate
<1>6. CASE Evaluate
  <2> DEFINE judged == JudgedStatus(cfg, row.status, facts, position)
             applied == AppliedStatus(cfg, row.status, facts, position)
             signal == SignalOf(cfg, AskedStatus(judged), facts)
  <2>1. row.status \in Statuses
    BY <1>1, <1>6, StatusSet DEF Evaluate
  <2>2. judged \in Statuses \ EntryFlow /\ applied \in Statuses \ EntryFlow
    BY <1>1, <2>1, AppliedStatuses, ManagementLadder
  <2>3. AskedStatus(judged) # "WAITING_ACTIVATION"
    BY <2>2 DEF AskedStatus, InitialStatus, EntryFlow
  <2>4. signal \in {Hold, Invalidate, EntryReady, RaiseStop}
    BY <2>3, Signals, WaitsFromActivation
  <2>5. batch' = NoBatch \/ batch'.target = signal.target
    BY <1>6 DEF Evaluate
  <2>6. SetStatus(applied) /\ order' = order
    BY <1>6 DEF Evaluate
  <2> HIDE DEF judged, applied, signal
  <2>7. signal.target \notin EntryFlow
    BY <2>4 DEF Hold, Invalidate, EntryReady, RaiseStop, EntryFlow
  <2>8. Out
    BY <2>2, <2>6
  <2> QED BY <1>1, <1>2, <1>3, <2>5, <2>6, <2>7, <2>8
<1>7. CASE Handle
  <2>1. batch # NoBatch
    <3>1. NoBatch.action = "none"
      BY DEF NoBatch
    <3>2. batch.action # "none"
      BY <1>7 DEF Handle, Transition, RaiseStopHandled, EntryHandled
    <3> QED BY <3>1, <3>2
  <2>2. batch' = NoBatch
    BY <1>7 DEF Handle, Transition, RaiseStopHandled, EntryHandled, Handled
  <2>3. order' = order
    BY <1>7 DEF Handle, Transition, RaiseStopHandled, EntryHandled
  <2>4. \/ UNCHANGED row
        \/ batch.action # "ENTRY_READY" /\ SetStatus(batch.target)
        \/ SetStatus("ERROR_REQUIRES_MANUAL_REVIEW")
    BY <1>7 DEF Handle, Transition, RaiseStopHandled, EntryHandled
  <2>5. batch.action # "ENTRY_READY" => batch.target \in Statuses
    BY <2>1, StatusesAre DEF Typed, BatchOK
  <2>6. "ERROR_REQUIRES_MANUAL_REVIEW" \in Statuses \ EntryFlow
    BY StatusesAre DEF EntryFlow
  <2>7. Out
    BY <1>1, <2>4, <2>5, <2>6
  <2> QED BY <1>1, <1>2, <1>3, <2>2, <2>3, <2>7
<1>8. CASE Bracket
  <2>1. FALSE
    BY <1>1, <1>8 DEF Bracket, BracketPlaced, BracketRefused, BracketCutOff, OrderLeaves,
                      OrderFoundCancelled, OrderRestored, LostOrderEnds
  <2> QED BY <2>1
<1>9. CASE AdoptionRun
  <2>1. {"MANUAL_REVIEW_REQUIRED", "IN_POSITION"} \subseteq Statuses \ EntryFlow
    BY StatusesAre DEF EntryFlow
  <2>2. Out
    BY <1>9, <2>1 DEF AdoptionRun
  <2> QED BY <1>1, <1>2, <1>9, <2>2 DEF AdoptionRun
<1>10. CASE Operator
  <2>1. UNCHANGED <<batch, order>>
    BY <1>10 DEF Operator, Arm, Disarm, SwitchAuto, Delete, Save, Operated
  <2>2. CASE Arm \/ Disarm \/ Delete
    <3>1. {"RECONCILING_EXISTING_POSITION", "DISABLED", Deleted}
             \subseteq (Statuses \cup {Deleted}) \ EntryFlow
      BY StatusesAre DEF EntryFlow, Deleted
    <3>2. Out
      BY <2>2, <3>1 DEF Arm, Disarm, Delete, InitialStatus
    <3> QED BY <1>1, <1>2, <2>1, <3>2
  <2>3. CASE SwitchAuto
    <3>1. row'.status = row.status
      BY <1>1, <2>3, StatusSet DEF SwitchAuto
    <3> QED BY <1>1, <2>1, <3>1
  <2>4. CASE Save
    <3>1. row'.status \in {row.status, "DISABLED"}
      BY <2>4 DEF Save
    <3>2. "DISABLED" \notin EntryFlow
      BY DEF EntryFlow
    <3> QED BY <1>1, <2>1, <3>1, <3>2
  <2> QED BY <1>10, <2>2, <2>3, <2>4 DEF Operator
<1>11. CASE Restart
  BY <1>1, <1>3, <1>11 DEF Restart
<1>12. CASE UNCHANGED lvars
  BY <1>1, <1>12 DEF lvars
<1> QED
  BY <1>4, <1>5, <1>6, <1>7, <1>8, <1>9, <1>10, <1>11, <1>12 DEF LNext

LEMMA NextIInv == IInv /\ [LNext]_lvars => IInv'
<1> SUFFICES ASSUME IInv, [LNext]_lvars PROVE IInv'
  OBVIOUS
<1>1. cfg' = cfg
  BY DEF LNext, lvars, Market, Quoted, SessionChanges, Reported, Ages, PositionClosed, Changed,
         Revalidate, Evaluate, Handle, Transition, RaiseStopHandled, EntryHandled, Handled,
         Bracket, BracketPlaced, BracketRefused, BracketCutOff, OrderLeaves,
         OrderFoundCancelled, OrderRestored, LostOrderEnds, OrderStep, AdoptionRun,
         Operator, Arm, Disarm, SwitchAuto, Delete, Save, Operated, Restart
<1>2. StaysOut'
  BY <1>1, NextStaysOut DEF IInv, StaysOut
<1> QED
  BY <1>2, NextTyped DEF IInv

LEMMA InitIInv == LInit => IInv
<1> SUFFICES ASSUME LInit PROVE StaysOut
  BY InitTyped DEF IInv
<1> QED
  BY DEF LInit, StaysOut, NoBatch, EntryFlow

\* A management-only setup never enters: arming, revalidation, batches read
\* long ago, adoption and restored orders all leave it out of the entry flow.
THEOREM ManagementStaysOut == LSpec => []ManagementNeverEnters
<1>1. IInv => ManagementNeverEnters
  BY DEF IInv, StaysOut, ManagementNeverEnters
<1> QED
  BY InitIInv, NextIInv, <1>1, PTL DEF LSpec

-----------------------------------------------------------------------------
(* Action properties.                                                      *)

\* A setup that is over comes back only by a disarm, a delete, a bracket under
\* way, an entry that turned out to work, or a batch read before.
LEMMA OverStep ==
    ASSUME Typed, [LNext]_lvars, row.status \in Decisive, row'.status # row.status
    PROVE  \/ row'.status \in {"DISABLED", Deleted}
           \/ order \in {"flight", "lost"}
           \/ batch # NoBatch /\ batch' = NoBatch
<1>1. row \in RowType /\ row.status \in Statuses /\ row.status \notin Evaluable
      /\ row.status \notin Managed /\ row.status # Deleted
  BY StatusesAre DEF Typed, LTypeOK, Decisive, Evaluable, Managed, Deleted
<1>2. ASSUME NEW s \in Statuses \cup {Deleted}, SetStatus(s) PROVE row'.status \in {s, Deleted}
  BY <1>1, <1>2, SetStatusType
<1>3. CASE Evaluate
  <2>1. SetStatus(row.status)
    BY <1>1, <1>3, AppliedElsewhere DEF Evaluate
  <2> QED BY <1>1, <1>2, <2>1
<1>4. CASE Handle
  <2>1. NoBatch.action = "none"
    BY DEF NoBatch
  <2>2. batch.action # "none" /\ batch' = NoBatch
    BY <1>4 DEF Handle, Transition, RaiseStopHandled, EntryHandled, Handled
  <2> QED BY <2>1, <2>2
<1>5. CASE Bracket
  BY <1>5 DEF Bracket, BracketPlaced, BracketRefused, BracketCutOff, OrderLeaves,
              OrderFoundCancelled, OrderRestored, LostOrderEnds, Decisive
<1>6. CASE Operator
  <2>1. CASE Arm
    BY <1>1, <2>1 DEF Arm, CanBeArmed
  <2>2. CASE Disarm \/ Delete
    BY <1>2, <2>2, StatusesAre DEF Disarm, Delete
  <2>3. CASE SwitchAuto
    BY <1>1, <2>3, StatusSet DEF SwitchAuto
  <2>4. CASE Save
    BY <1>1, <2>4 DEF Save
  <2> QED BY <1>6, <2>1, <2>2, <2>3, <2>4 DEF Operator
<1> QED
  BY <1>1, <1>3, <1>4, <1>5, <1>6
     DEF LNext, lvars, Market, Quoted, SessionChanges, Reported, Ages, PositionClosed, Changed,
         Revalidate, AdoptionRun, Restart

\* A setup that is over stays over unless somebody, or a step begun before,
\* brings it back.
THEOREM OverStaysOver == LSpec => OverUnlessAsked
<1>1. Typed /\ [LNext]_lvars =>
         [row.status \in Decisive /\ row'.status # row.status =>
            \/ row'.status \in {"DISABLED", Deleted}
            \/ order \in {"flight", "lost"}
            \/ batch # NoBatch /\ batch' = NoBatch]_lvars
  BY OverStep
<1> QED
  BY InitTyped, NextTyped, <1>1, PTL DEF LSpec, OverUnlessAsked

\* The ladder lets an entry pass in an open session only on sound facts.
LEMMA LadderIsSound ==
    ASSUME NEW c, ~ c.management, NEW s \in Evaluable, NEW f \in Facts, f.rth, NEW p,
           RevalidatedStatus(c, s, f, p)
              \notin {"INVALIDATED", "EXPIRED", "STALE_SETUP",
                      "MISSED_BREAKOUT_WAIT_RETEST", "BLOCKED"}
    PROVE  f.age = "fresh" /\ ~ f.wide /\ f.price \notin {NoQuote, Broken, TooFar}
BY DEF RevalidatedStatus, EntryStatus, Facts

LEMMA EntryStep ==
    ASSUME Typed, [LNext]_lvars, order = "none", order' = "flight"
    PROVE  /\ facts.rth /\ facts.broker = "ok"
           /\ \/ batch.read \notin Evaluable
              \/ /\ facts.age = "fresh" /\ ~ facts.wide
                 /\ facts.price \notin {NoQuote, Broken, TooFar}
<1>1. EntryHandled
  BY DEF LNext, lvars, Market, Quoted, SessionChanges, Reported, Ages, PositionClosed, Changed,
         Revalidate, Evaluate, Handle, Transition, RaiseStopHandled,
         Bracket, BracketPlaced, BracketRefused, BracketCutOff, OrderLeaves,
         OrderFoundCancelled, OrderRestored, LostOrderEnds, AdoptionRun,
         Operator, Arm, Disarm, SwitchAuto, Delete, Save, Operated, Restart
<1>2. facts.rth /\ ~ cfg.management /\ batch.enabled /\ facts.broker = "ok" /\ Transmissible
  BY <1>1 DEF EntryHandled
<1> QED
  BY <1>2, LadderIsSound DEF Transmissible, Typed, LTypeOK

\* Every entry leaves on facts of that moment that allow it, however old the
\* signal is.
THEOREM EntriesOnSoundFacts == LSpec => EntryOnSoundFacts
<1>1. Typed /\ [LNext]_lvars =>
         [order = "none" /\ order' = "flight" =>
            /\ facts.rth /\ facts.broker = "ok"
            /\ \/ batch.read \notin Evaluable
               \/ /\ facts.age = "fresh" /\ ~ facts.wide
                  /\ facts.price \notin {NoQuote, Broken, TooFar}]_lvars
  BY EntryStep
<1> QED
  BY InitTyped, NextTyped, <1>1, PTL DEF LSpec, EntryOnSoundFacts

-----------------------------------------------------------------------------
(* The sessions of the connectors.                                         *)


Connector == [ib : Held, status : {"CONNECTED", "DISCONNECTED", "ERROR"},
              id : Nat, quotes : Held, due : BOOLEAN]
Wait == [at : {"idle", "connecting", "asking"}, conn : Connectors,
         ib : Held, base : Nat, next : 0..(Tries - 1), health : BOOLEAN]
Session == [up : BOOLEAN, id : Nat]

\* The connect that is under way, if any, has the engine to itself.
Alone(t) ==
    task[t].at = "connecting" =>
       /\ task[t].conn = engine
       /\ \A u \in Tasks : task[u].at = "connecting" => u = t
       /\ \A k \in Slots : ~ session[k].up

TInv ==
    /\ TTypeOK
    /\ ~ overlap => /\ \A k \in Slots : session[k].up => conn[engine].ib = k
                    /\ \A t \in Tasks : Alone(t)

-----------------------------------------------------------------------------
(* Helpers.                                                                *)

LEMMA Constants ==
    /\ Tries \in Nat /\ 1 <= Tries /\ MaxSwitches \in Nat
    /\ 0 \in Connectors /\ 0 \in 0..(Tries - 1)
    /\ None \in Held /\ Slots \subseteq Held
    /\ Idle \in Wait /\ Fresh \in Connector /\ Down \in Session
<1>1. /\ Tries \in Nat /\ 1 <= Tries /\ MaxSwitches \in Nat
      /\ 0 \in Connectors /\ 0 \in 0..(Tries - 1)
  BY ConnectionAssumption DEF Connectors
<1>2. None \in Held /\ Slots \subseteq Held
  BY DEF Held
<1> QED
  BY <1>1, <1>2 DEF Idle, Wait, Fresh, Connector, Down, Session

LEMMA ConnectionTyped ==
    TTypeOK <=> /\ engine \in Connectors /\ tws \in BOOLEAN /\ overlap \in BOOLEAN
                /\ drops \in 0..MaxDrops /\ slow \in 0..MaxSlow
                /\ conn \in [Connectors -> Connector]
                /\ session \in [Slots -> Session]
                /\ task \in [Tasks -> Wait]
  BY DEF TTypeOK, Connector, Session, Wait

\* A connector that is marked disconnected keeps its session.
LEMMA Marked ==
    ASSUME NEW cn \in Connector
    PROVE  /\ MarkDisconnected(cn) \in Connector
           /\ MarkDisconnected(cn).ib = cn.ib /\ MarkDisconnected(cn).quotes = None
  BY Constants DEF MarkDisconnected, Connector

\* What a health check up to its first wait does with connectors cs and
\* sessions ss: it changes the engine's connector and the task that asks.
LEMMA HealthAsks ==
    ASSUME TTypeOK, NEW t \in Tasks, NEW cs \in [Connectors -> Connector],
           NEW ss \in [Slots -> Session], HealthAsked(t, cs, ss)
    PROVE  /\ conn' \in [Connectors -> Connector]
           /\ task' \in [Tasks -> Wait] /\ overlap' \in BOOLEAN
           /\ \A c \in Connectors : conn'[c].ib = cs[c].ib
           /\ \A c \in Connectors : conn'[c].quotes \in {None, cs[c].quotes}
           /\ \A u \in Tasks \ {t} : task'[u] = task[u]
           /\ task'[t].at = "connecting" =>
                 /\ task'[t].conn = engine /\ ~ IsConnected(cs[engine], ss)
                 /\ overlap' = (overlap \/ Connecting(engine) \ {t} # {})
           /\ overlap => overlap'
<1>1. /\ engine \in Connectors /\ task \in [Tasks -> Wait] /\ overlap \in BOOLEAN
      /\ cs[engine] \in Connector
  BY ConnectionTyped
<1> DEFINE cn == cs[engine]
           up == IsConnected(cn, ss)
           known == cn.ib = None /\ cn.status = "ERROR"
           connects == ~ up /\ MaybeReconnect(cn)
           left == IF up \/ known THEN cn ELSE MarkDisconnected(cn)
           asks == [Idle EXCEPT !.at = "asking", !.conn = engine, !.ib = cn.ib]
           begins == [Idle EXCEPT !.at = "connecting", !.conn = engine, !.base = cn.id]
<1>2. /\ conn' = [cs EXCEPT ![engine] = [left EXCEPT !.due = @ /\ ~ connects]]
      /\ task' = [task EXCEPT ![t] =
              IF up THEN asks ELSE IF connects THEN begins ELSE Idle]
      /\ overlap' = (overlap \/ (connects /\ Connecting(engine) \ {t} # {}))
  BY DEF HealthAsked
<1>3. left \in Connector /\ left.ib = cn.ib /\ left.quotes \in {None, cn.quotes}
  BY <1>1, Marked
<1>4. (left.due /\ ~ connects) \in BOOLEAN
  OBVIOUS
<1>5. PICK due \in BOOLEAN : due = (left.due /\ ~ connects)
  BY <1>4
<1>6. conn' = [cs EXCEPT ![engine] = [left EXCEPT !.due = due]]
  BY <1>2, <1>5, Zenon
<1>7. /\ asks \in Wait /\ asks.at = "asking"
      /\ begins \in Wait /\ begins.at = "connecting" /\ begins.conn = engine
      /\ Idle \in Wait /\ Idle.at = "idle"
  BY <1>1, Constants DEF Connector, Wait, Idle
<1>8. up => ~ connects
  OBVIOUS
<1> HIDE DEF up, connects, left, asks, begins
<1>9. /\ conn' \in [Connectors -> Connector]
      /\ \A c \in Connectors : conn'[c].ib = cs[c].ib
      /\ \A c \in Connectors : conn'[c].quotes \in {None, cs[c].quotes}
  BY <1>1, <1>3, <1>6 DEF Connector
<1>10. /\ task' \in [Tasks -> Wait]
       /\ \A u \in Tasks \ {t} : task'[u] = task[u]
       /\ task'[t].at = "connecting" => connects /\ task'[t].conn = engine
  BY <1>1, <1>2, <1>7
<1>11. connects => ~ IsConnected(cs[engine], ss)
  BY DEF connects, up
<1>12. overlap' \in BOOLEAN /\ (overlap => overlap')
       /\ (connects => overlap' = (overlap \/ Connecting(engine) \ {t} # {}))
  BY <1>1, <1>2, Zenon
<1> QED
  BY <1>9, <1>10, <1>11, <1>12

\* A connect returns to what it leaves.
LEMMA ReturnsLeave ==
    ASSUME TTypeOK, NEW t \in Tasks, NEW cn \in Connector,
           NEW ss \in [Slots -> Session], Returns(t, cn, ss)
    PROVE  /\ session' = ss
           /\ conn' \in [Connectors -> Connector]
           /\ task' \in [Tasks -> Wait] /\ overlap' \in BOOLEAN
           /\ \A c \in Connectors :
                 LET was == IF c = task[t].conn THEN cn ELSE conn[c]
                 IN conn'[c].ib = was.ib /\ conn'[c].quotes \in {None, was.quotes}
           /\ \A u \in Tasks \ {t} : task'[u] = task[u]
           /\ task'[t].at = "connecting" =>
                 /\ task'[t].conn = engine
                 /\ task[t].conn = engine => ~ IsConnected(cn, ss)
           /\ overlap => overlap'
<1> DEFINE cs == [conn EXCEPT ![task[t].conn] = cn]
<1>1. /\ engine \in Connectors /\ task \in [Tasks -> Wait] /\ overlap \in BOOLEAN
      /\ conn \in [Connectors -> Connector] /\ task[t].conn \in Connectors
  BY ConnectionTyped DEF Wait
<1>2. /\ cs \in [Connectors -> Connector]
      /\ \A c \in Connectors : cs[c] = IF c = task[t].conn THEN cn ELSE conn[c]
  BY <1>1
<1>3. /\ session' = ss
      /\ IF task[t].health THEN HealthAsked(t, cs, ss)
         ELSE conn' = cs /\ task' = [task EXCEPT ![t] = Idle] /\ UNCHANGED overlap
  BY DEF Returns
<1> HIDE DEF cs
<1>4. CASE HealthAsked(t, cs, ss)
  BY <1>1, <1>2, <1>3, <1>4, HealthAsks
<1>5. CASE conn' = cs /\ task' = [task EXCEPT ![t] = Idle] /\ UNCHANGED overlap
  BY <1>1, <1>2, <1>3, <1>5, Constants DEF Idle
<1> QED
  BY <1>3, <1>4, <1>5

\* When the one connect that is under way returns, at most the session it
\* leaves is up, and it is the engine's.
LEMMA ReturnsKeep ==
    ASSUME TInv, NEW t \in Tasks, task[t].at = "connecting", NEW cn \in Connector,
           NEW ss \in [Slots -> Session], Returns(t, cn, ss), UNCHANGED engine,
           ~ overlap => \A k \in Slots : ss[k].up => cn.ib = k,
           tws' \in BOOLEAN, drops' \in 0..MaxDrops, slow' \in 0..MaxSlow
    PROVE  TInv'
<1>1. TTypeOK /\ engine \in Connectors /\ task \in [Tasks -> Wait] /\ overlap \in BOOLEAN
  BY ConnectionTyped DEF TInv
<1>2. /\ session' = ss
      /\ conn' \in [Connectors -> Connector]
      /\ task' \in [Tasks -> Wait] /\ overlap' \in BOOLEAN
      /\ \A u \in Tasks \ {t} : task'[u] = task[u]
      /\ task'[t].at = "connecting" =>
            /\ task'[t].conn = engine
            /\ task[t].conn = engine => ~ IsConnected(cn, ss)
      /\ overlap => overlap'
  BY <1>1, ReturnsLeave
<1>3. task[t].conn = engine => conn'[engine].ib = cn.ib
  BY <1>1, ReturnsLeave
<1>4. TTypeOK'
  BY <1>1, <1>2 DEF TTypeOK, Connector, Session, Wait
<1>5. ASSUME ~ overlap'
      PROVE  /\ \A k \in Slots : session'[k].up => conn'[engine'].ib = k
             /\ \A u \in Tasks : Alone(u)'
  <2>1. ~ overlap
    BY <1>2, <1>5
  <2>2. /\ task[t].conn = engine /\ \A u \in Tasks : task[u].at = "connecting" => u = t
        /\ \A k \in Slots : ss[k].up => cn.ib = k
    BY <2>1 DEF TInv, Alone
  <2>3. \A k \in Slots : session'[k].up => conn'[engine'].ib = k
    BY <1>2, <1>3, <2>2
  <2>4. ASSUME NEW u \in Tasks, task'[u].at = "connecting" PROVE u = t
    BY <1>2, <2>2, <2>4
  <2>5. ASSUME NEW u \in Tasks, task'[u].at = "connecting" PROVE Alone(u)'
    <3>1. u = t /\ task'[t].at = "connecting"
      BY <2>4, <2>5
    <3>2. ~ IsConnected(cn, ss)
      BY <1>2, <2>2, <3>1
    <3>3. \A k \in Slots : ~ ss[k].up
      BY <2>2, <3>2, ConnectionAssumption DEF IsConnected
    <3> QED
      BY <1>2, <2>4, <3>1, <3>3 DEF Alone
  <2> QED BY <2>3, <2>5 DEF Alone
<1> QED
  BY <1>4, <1>5 DEF TInv

\* Losses, closes and everything else that only takes sessions down, and moves
\* no engine, no session of a connector and no connect.
LEMMA QuietKeeps ==
    ASSUME TInv, TTypeOK', UNCHANGED <<engine, overlap>>,
           \A k \in Slots : session'[k].up => session[k].up,
           \A c \in Connectors : conn'[c].ib = conn[c].ib,
           \A u \in Tasks : task'[u].at = "connecting" =>
                               task[u].at = "connecting" /\ task'[u].conn = task[u].conn
    PROVE  TInv'
<1>1. engine \in Connectors
  BY DEF TInv, TTypeOK
<1> QED
  BY <1>1 DEF TInv, Alone

-----------------------------------------------------------------------------
(* The steps.                                                              *)

LEMMA InitTInv == TInit => TInv
<1> SUFFICES ASSUME TInit PROVE TInv
  OBVIOUS
<1>1. TTypeOK
  <2>1. task \in [Tasks -> Wait]
    <3>1. [Idle EXCEPT !.at = "connecting", !.health = TRUE] \in Wait
      BY Constants DEF Wait
    <3> QED BY <3>1, Constants DEF TInit
  <2>2. drops \in 0..MaxDrops /\ slow \in 0..MaxSlow
    BY ConnectionAssumption DEF TInit
  <2> QED
    BY <2>1, <2>2, Constants, ConnectionTyped DEF TInit
<1>2. \A k \in Slots : ~ session[k].up
  BY DEF TInit, Down
<1>3. \A t \in Tasks : task[t].at = "connecting" => t = Monitor /\ task[t].conn = engine
  BY DEF TInit, Idle
<1> QED
  BY <1>1, <1>2, <1>3 DEF TInv, Alone

\* A health check begins.
LEMMA HealthBeginsKeeps == ASSUME TInv, NEW t \in Tasks, HealthBegins(t) PROVE TInv'
<1>1. /\ TTypeOK /\ engine \in Connectors /\ task \in [Tasks -> Wait] /\ overlap \in BOOLEAN
      /\ conn \in [Connectors -> Connector] /\ session \in [Slots -> Session]
  BY ConnectionTyped DEF TInv
<1>2. /\ task[t].at = "idle" /\ HealthAsked(t, conn, session)
      /\ UNCHANGED <<engine, session, tws, drops, slow>>
  BY DEF HealthBegins
<1>3. /\ conn' \in [Connectors -> Connector]
      /\ task' \in [Tasks -> Wait] /\ overlap' \in BOOLEAN
      /\ \A c \in Connectors : conn'[c].ib = conn[c].ib
      /\ \A u \in Tasks \ {t} : task'[u] = task[u]
      /\ task'[t].at = "connecting" =>
            /\ task'[t].conn = engine /\ ~ IsConnected(conn[engine], session)
            /\ overlap' = (overlap \/ Connecting(engine) \ {t} # {})
      /\ overlap => overlap'
  BY <1>1, <1>2, HealthAsks
<1>4. TTypeOK'
  BY <1>1, <1>2, <1>3 DEF TTypeOK, Connector, Session, Wait
<1>5. CASE task'[t].at # "connecting"
  <2>1. CASE overlap'
    BY <1>4, <2>1 DEF TInv
  <2>2. CASE ~ overlap'
    <3>1. ~ overlap
      BY <1>3, <2>2
    <3>2. \A u \in Tasks : task'[u].at = "connecting" => task'[u] = task[u]
      BY <1>3, <1>5
    <3> QED
      BY <1>1, <1>2, <1>3, <1>4, <3>1, <3>2 DEF TInv, Alone
  <2> QED BY <2>1, <2>2
<1>6. CASE task'[t].at = "connecting" /\ ~ overlap'
  <2>1. ~ overlap /\ Connecting(engine) \ {t} = {}
    BY <1>1, <1>3, <1>6
  <2>2. \A u \in Tasks : task[u].at = "connecting" => u = t
    BY <2>1 DEF TInv, Alone, Connecting
  <2>3. \A k \in Slots : ~ session[k].up
    BY <1>3, <1>6, <2>1, ConnectionAssumption DEF TInv, IsConnected
  <2>4. \A u \in Tasks : task'[u].at = "connecting" => u = t
    BY <1>3, <2>2
  <2>5. \A u \in Tasks : Alone(u)'
    BY <1>2, <1>3, <2>3, <2>4 DEF Alone
  <2> QED
    BY <1>2, <1>4, <2>3, <2>5 DEF TInv
<1>7. CASE overlap'
  BY <1>4, <1>7 DEF TInv
<1> QED
  BY <1>5, <1>6, <1>7

\* A health check ends.
LEMMA HealthEndsKeeps == ASSUME TInv, NEW t \in Tasks, HealthEnds(t) PROVE TInv'
<1>1. /\ TTypeOK /\ engine \in Connectors /\ task \in [Tasks -> Wait] /\ overlap \in BOOLEAN
      /\ conn \in [Connectors -> Connector] /\ session \in [Slots -> Session]
      /\ task[t].conn \in Connectors /\ slow \in 0..MaxSlow /\ tws \in BOOLEAN
      /\ drops \in 0..MaxDrops
  BY ConnectionTyped DEF TInv, Wait
<1>2. UNCHANGED <<engine, tws, drops, overlap>> /\ task' = [task EXCEPT ![t] = Idle]
  BY DEF HealthEnds, HealthAnswered, HealthFails
<1>3. /\ task' \in [Tasks -> Wait]
      /\ \A u \in Tasks : task'[u].at = "connecting" =>
                             task[u].at = "connecting" /\ task'[u].conn = task[u].conn
  BY <1>1, <1>2, Constants DEF Idle
<1>4. CASE HealthAnswered(t)
  <2>1. /\ conn' = [conn EXCEPT ![task[t].conn] = [conn[task[t].conn] EXCEPT !.status = "CONNECTED"]]
        /\ UNCHANGED <<session, slow>>
    BY <1>1, <1>4 DEF HealthAnswered
  <2>2. /\ conn' \in [Connectors -> Connector]
        /\ \A c \in Connectors : conn'[c].ib = conn[c].ib
    BY <1>1, <2>1 DEF Connector
  <2>3. TTypeOK'
    BY <1>1, <1>2, <1>3, <2>1, <2>2 DEF TTypeOK, Connector, Session, Wait
  <2> QED BY <1>2, <1>3, <2>1, <2>2, <2>3, QuietKeeps
<1>5. CASE HealthFails(t)
  <2>1. /\ conn' = [conn EXCEPT ![task[t].conn] = MarkDisconnected(@)]
        /\ session' = [k \in Slots |-> IF k = conn[task[t].conn].ib THEN Down ELSE session[k]]
    BY <1>5 DEF HealthFails
  <2>2. slow' \in 0..MaxSlow
    BY <1>1, <1>5, ConnectionAssumption DEF HealthFails, Late
  <2>3. /\ conn' \in [Connectors -> Connector]
        /\ \A c \in Connectors : conn'[c].ib = conn[c].ib
    BY <1>1, <2>1, Marked
  <2>4. /\ session' \in [Slots -> Session]
        /\ \A k \in Slots : session'[k].up => session[k].up
    BY <1>1, <2>1, Constants DEF Down
  <2>5. TTypeOK'
    BY <1>1, <1>2, <1>3, <2>2, <2>3, <2>4 DEF TTypeOK, Connector, Session, Wait
  <2> QED BY <1>2, <1>3, <2>3, <2>4, <2>5, QuietKeeps
<1> QED
  BY <1>4, <1>5 DEF HealthEnds

\* A connect succeeds, tries another id or gives up.
LEMMA AttemptEndsKeeps == ASSUME TInv, NEW t \in Tasks, AttemptEnds(t) PROVE TInv'
<1>1. /\ TTypeOK /\ engine \in Connectors /\ task \in [Tasks -> Wait] /\ overlap \in BOOLEAN
      /\ conn \in [Connectors -> Connector] /\ session \in [Slots -> Session]
      /\ task[t].conn \in Connectors /\ slow \in 0..MaxSlow /\ tws \in BOOLEAN
      /\ drops \in 0..MaxDrops
      /\ task[t].base \in Nat /\ task[t].next \in Nat /\ conn[task[t].conn] \in Connector
      /\ Tries \in Nat /\ task[t].next \in 0..(Tries - 1)
  BY ConnectionTyped, Constants DEF TInv, Wait
<1>2. task[t].at = "connecting" /\ UNCHANGED <<engine, tws, drops>>
  BY DEF AttemptEnds, ConnectSucceeds, AttemptFails, ConnectRefused
<1>3. AllFailed(conn[task[t].conn], task[t].base) \in Connector
  BY <1>1, Constants DEF AllFailed, Connector
<1>4. ~ overlap => \A k \in Slots : ~ session[k].up
  BY <1>2 DEF TInv, Alone
<1>5. CASE ConnectSucceeds(t)
  <2> DEFINE k == CHOOSE s \in Spare : TRUE
             ss == [session EXCEPT ![k] = [up |-> TRUE, id |-> Candidate(t)]]
             cn == Connected(conn[task[t].conn], k, Candidate(t))
  <2>1. Spare # {} /\ Returns(t, cn, ss) /\ UNCHANGED slow
    BY <1>5 DEF ConnectSucceeds
  <2>2. k \in Slots
    BY <2>1 DEF Spare
  <2>3. Candidate(t) \in Nat
    BY <1>1 DEF Candidate
  <2> HIDE DEF k
  <2>4. ss \in [Slots -> Session]
    BY <1>1, <2>2, <2>3 DEF Session
  <2>5. cn \in Connector /\ cn.ib = k
    BY <1>1, <2>2, <2>3, Constants DEF Connected, Connector
  <2>6. ~ overlap => \A j \in Slots : ss[j].up => cn.ib = j
    BY <1>1, <1>4, <2>2, <2>5
  <2> HIDE DEF ss, cn
  <2> QED BY <1>1, <1>2, <2>1, <2>4, <2>5, <2>6, ReturnsKeep
<1>6. CASE AttemptFails(t) /\ AnotherId(t)
  <2>1. slow' \in 0..MaxSlow
    BY <1>1, <1>6, ConnectionAssumption DEF AttemptFails, Late
  <2>2. /\ task' = [task EXCEPT ![t] = [task[t] EXCEPT !.next = @ + 1]]
        /\ UNCHANGED <<conn, session, overlap>>
    BY <1>1, <1>6 DEF AttemptFails
  <2>3. task[t].next + 1 \in 0..(Tries - 1)
    BY <1>1, <1>6 DEF AnotherId
  <2>4. /\ task' \in [Tasks -> Wait]
        /\ \A u \in Tasks : task'[u].at = "connecting" =>
                               task[u].at = "connecting" /\ task'[u].conn = task[u].conn
    BY <1>1, <2>2, <2>3 DEF Wait
  <2>5. TTypeOK'
    BY <1>1, <1>2, <2>1, <2>2, <2>4 DEF TTypeOK, Connector, Session, Wait
  <2> QED BY <1>2, <2>2, <2>4, <2>5, QuietKeeps
<1>7. CASE (AttemptFails(t) /\ ~ AnotherId(t)) \/ ConnectRefused(t)
  <2>1. slow' \in 0..MaxSlow
    BY <1>1, <1>7, ConnectionAssumption DEF AttemptFails, ConnectRefused, Late
  <2>2. Returns(t, AllFailed(conn[task[t].conn], task[t].base), session)
    BY <1>7 DEF AttemptFails, ConnectRefused
  <2> QED BY <1>1, <1>2, <1>3, <1>4, <2>1, <2>2, ReturnsKeep
<1> QED
  BY <1>5, <1>6, <1>7 DEF AttemptEnds

\* The engine replaces its connector.
LEMMA SwitchKeeps == ASSUME TInv, NEW t \in Tasks, Switch(t) PROVE TInv'
<1>1. /\ TTypeOK /\ engine \in Connectors /\ task \in [Tasks -> Wait] /\ overlap \in BOOLEAN
      /\ conn \in [Connectors -> Connector] /\ session \in [Slots -> Session]
      /\ slow \in 0..MaxSlow /\ tws \in BOOLEAN /\ drops \in 0..MaxDrops
  BY ConnectionTyped DEF TInv
<1>2. /\ engine' = engine + 1 /\ engine < MaxSwitches
      /\ session' = [k \in Slots |-> IF k = conn[engine].ib THEN Down ELSE session[k]]
      /\ conn' = [conn EXCEPT ![engine] = MarkDisconnected(@)]
      /\ task' = [task EXCEPT ![t] = [Idle EXCEPT !.at = "connecting", !.conn = engine + 1,
                                                  !.health = TRUE]]
      /\ overlap' = (overlap \/ Connecting(engine) # {})
      /\ UNCHANGED <<tws, drops, slow>>
  BY DEF Switch, Replaced
<1>3. engine' \in Connectors
  BY <1>1, <1>2, Constants DEF Connectors
<1>4. [Idle EXCEPT !.at = "connecting", !.conn = engine + 1, !.health = TRUE] \in Wait
  BY <1>2, <1>3, Constants DEF Wait
<1>5. /\ task' \in [Tasks -> Wait] /\ task'[t].conn = engine'
      /\ \A u \in Tasks \ {t} : task'[u] = task[u]
  BY <1>1, <1>2, <1>4, Constants DEF Idle
<1>6. conn' \in [Connectors -> Connector]
  BY <1>1, <1>2, Marked
<1>7. /\ session' \in [Slots -> Session]
      /\ \A k \in Slots : session'[k].up => session[k].up /\ k # conn[engine].ib
  BY <1>1, <1>2, Constants DEF Down
<1>8. TTypeOK'
  <2>1. overlap' \in BOOLEAN
    BY <1>2
  <2> QED
    BY <1>1, <1>2, <1>3, <1>5, <1>6, <1>7, <2>1 DEF TTypeOK, Connector, Session, Wait
<1>9. ASSUME ~ overlap'
      PROVE  /\ \A k \in Slots : session'[k].up => conn'[engine'].ib = k
             /\ \A u \in Tasks : Alone(u)'
  <2>1. ~ overlap /\ Connecting(engine) = {}
    BY <1>2, <1>9
  <2>2. \A u \in Tasks : task[u].at # "connecting"
    BY <2>1 DEF TInv, Alone, Connecting
  <2>3. \A k \in Slots : ~ session'[k].up
    BY <1>7, <2>1 DEF TInv
  <2> QED
    BY <1>5, <2>2, <2>3 DEF Alone
<1> QED
  BY <1>8, <1>9 DEF TInv

\* Status reads, quotes, the clock, losses and TWS.
LEMMA OthersKeep ==
    ASSUME TInv,
           \/ \E c \in Connectors : StatusAsked(c) \/ QuoteSubscribed(c) \/ Elapse(c)
           \/ \E k \in Slots : SessionLost(k)
           \/ TwsStops \/ TwsStarts \/ UNCHANGED tvars
    PROVE  TInv'
<1>1. /\ TTypeOK /\ engine \in Connectors /\ task \in [Tasks -> Wait] /\ overlap \in BOOLEAN
      /\ conn \in [Connectors -> Connector] /\ session \in [Slots -> Session]
      /\ slow \in 0..MaxSlow /\ tws \in BOOLEAN /\ drops \in 0..MaxDrops
  BY ConnectionTyped DEF TInv
<1>2. UNCHANGED <<engine, task, slow, overlap>>
  BY DEF StatusAsked, QuoteSubscribed, Elapse, SessionLost, TwsStops, TwsStarts, tvars
<1>3. CASE \E c \in Connectors : StatusAsked(c) \/ QuoteSubscribed(c) \/ Elapse(c)
  <2>1. PICK c \in Connectors : StatusAsked(c) \/ QuoteSubscribed(c) \/ Elapse(c)
    BY <1>3
  <2>2. UNCHANGED <<session, tws, drops>>
    BY <2>1 DEF StatusAsked, QuoteSubscribed, Elapse
  <2>3. PICK cn \in Connector : conn' = [conn EXCEPT ![c] = cn] /\ cn.ib = conn[c].ib
    <3>1. CASE StatusAsked(c)
      BY <1>1, <3>1, Marked DEF StatusAsked
    <3>2. CASE QuoteSubscribed(c)
      <4>1. /\ conn' = [conn EXCEPT ![c] = [conn[c] EXCEPT !.quotes = conn[c].ib]]
            /\ [conn[c] EXCEPT !.quotes = conn[c].ib] \in Connector
            /\ [conn[c] EXCEPT !.quotes = conn[c].ib].ib = conn[c].ib
        BY <1>1, <3>2 DEF QuoteSubscribed, Connector
      <4> QED BY <4>1
    <3>3. CASE Elapse(c)
      <4>1. /\ conn' = [conn EXCEPT ![c] = [conn[c] EXCEPT !.due = TRUE]]
            /\ [conn[c] EXCEPT !.due = TRUE] \in Connector
            /\ [conn[c] EXCEPT !.due = TRUE].ib = conn[c].ib
        BY <1>1, <3>3 DEF Elapse, Connector
      <4> QED BY <4>1
    <3> QED BY <2>1, <3>1, <3>2, <3>3
  <2>4. /\ conn' \in [Connectors -> Connector]
        /\ \A d \in Connectors : conn'[d].ib = conn[d].ib
    BY <1>1, <2>3
  <2>5. TTypeOK'
    BY <1>1, <1>2, <2>2, <2>4 DEF TTypeOK, Connector, Session, Wait
  <2> QED BY <1>2, <2>2, <2>4, <2>5, QuietKeeps
<1>4. CASE (\E k \in Slots : SessionLost(k)) \/ TwsStops \/ TwsStarts \/ UNCHANGED tvars
  <2>1. UNCHANGED conn /\ tws' \in BOOLEAN
    BY <1>1, <1>4 DEF SessionLost, TwsStops, TwsStarts, tvars
  <2>2. drops' \in 0..MaxDrops
    BY <1>1, <1>4, ConnectionAssumption DEF SessionLost, TwsStops, TwsStarts, Dropped, tvars
  <2>3. /\ session' \in [Slots -> Session]
        /\ \A k \in Slots : session'[k].up => session[k].up
    <3>1. CASE TwsStarts \/ UNCHANGED tvars
      BY <1>1, <3>1 DEF TwsStarts, tvars
    <3>2. CASE TwsStops
      BY <1>1, <3>2, Constants DEF TwsStops, Down
    <3>3. CASE \E k \in Slots : SessionLost(k)
      BY <1>1, <3>3, Constants DEF SessionLost, Down
    <3> QED BY <1>4, <3>1, <3>2, <3>3
  <2>4. TTypeOK'
    BY <1>1, <1>2, <2>1, <2>2, <2>3 DEF TTypeOK, Connector, Session, Wait
  <2> QED BY <1>2, <2>1, <2>3, <2>4, QuietKeeps
<1> QED
  BY <1>3, <1>4

LEMMA StepTInv == TInv /\ [TNext]_tvars => TInv'
  BY HealthBeginsKeeps, HealthEndsKeeps, AttemptEndsKeeps, SwitchKeeps, OthersKeep DEF TNext

LEMMA SpecTInv == TSpec => []TInv
  BY InitTInv, StepTInv, PTL DEF TSpec

-----------------------------------------------------------------------------
(* The theorems.                                                           *)

\* Every variable keeps its type.
THEOREM ConnectionTypes == TSpec => []TTypeOK
<1>1. TInv => TTypeOK
  BY DEF TInv
<1> QED
  BY <1>1, SpecTInv, PTL

\* As long as connects neither overlap nor meet a switch, TWS has no session
\* but the engine's, for any number of tasks, client ids, losses, late answers
\* and switches.
THEOREM OneSession == TSpec => []NoSessionLeftBehind
<1>1. TInv => NoSessionLeftBehind
  BY DEF TInv, NoSessionLeftBehind
<1> QED
  BY <1>1, SpecTInv, PTL

-----------------------------------------------------------------------------
(* The connectors that switches left behind.                               *)

\* A step that opens no session, and gives no connector but the engine's a
\* session or a registry it did not have.
LEMMA QuietStaysApart ==
    ASSUME OnlyTheEngineHoldsASession, UNCHANGED engine, overlap => overlap',
           \A k \in Slots : session'[k].up => session[k].up,
           \A c \in Connectors \ {engine} :
              /\ conn'[c].ib = conn[c].ib
              /\ conn'[c].quotes \in {None, conn[c].quotes, conn[c].ib}
    PROVE  OnlyTheEngineHoldsASession'
  BY ConnectionAssumption DEF OnlyTheEngineHoldsASession

\* A connect returns: the only one, and the engine's.
LEMMA ConnectStaysApart ==
    ASSUME TInv, OnlyTheEngineHoldsASession, NEW t \in Tasks, AttemptEnds(t)
    PROVE  OnlyTheEngineHoldsASession'
<1>1. /\ TTypeOK /\ engine \in Connectors /\ task \in [Tasks -> Wait]
      /\ conn \in [Connectors -> Connector] /\ session \in [Slots -> Session]
      /\ task[t].base \in Nat /\ task[t].next \in Nat /\ task[t].conn \in Connectors
      /\ conn[task[t].conn] \in Connector
  BY ConnectionTyped, Constants DEF TInv, Wait
<1>2. task[t].at = "connecting" /\ UNCHANGED engine
  BY DEF AttemptEnds, ConnectSucceeds, AttemptFails, ConnectRefused
<1>3. ~ overlap => task[t].conn = engine
  BY <1>2 DEF TInv, Alone
<1>4. ASSUME NEW cn \in Connector, NEW ss \in [Slots -> Session], Returns(t, cn, ss),
             \A k \in Slots : ss[k].up => session[k].up \/ k \notin Referenced
      PROVE  OnlyTheEngineHoldsASession'
  <2>1. /\ session' = ss /\ (overlap => overlap')
        /\ \A c \in Connectors \ {task[t].conn} :
              conn'[c].ib = conn[c].ib /\ conn'[c].quotes \in {None, conn[c].quotes}
    BY <1>1, <1>4, ReturnsLeave
  <2>2. SUFFICES ASSUME ~ overlap', NEW c \in Connectors \ {engine}, NEW k \in Slots, ss[k].up
                 PROVE  k \notin {conn'[c].ib, conn'[c].quotes}
    BY <1>2, <2>1 DEF OnlyTheEngineHoldsASession
  <2>3. k \notin {conn[c].ib, conn[c].quotes, None}
    BY <1>4, <2>1, <2>2, ConnectionAssumption DEF OnlyTheEngineHoldsASession, Referenced
  <2> QED
    BY <1>3, <2>1, <2>2, <2>3
<1>5. CASE ConnectSucceeds(t)
  <2> DEFINE k == CHOOSE s \in Spare : TRUE
             ss == [session EXCEPT ![k] = [up |-> TRUE, id |-> Candidate(t)]]
             cn == Connected(conn[task[t].conn], k, Candidate(t))
  <2>1. Spare # {} /\ Returns(t, cn, ss)
    BY <1>5 DEF ConnectSucceeds
  <2>2. k \in Slots /\ k \notin Referenced
    BY <2>1 DEF Spare
  <2>3. Candidate(t) \in Nat
    BY <1>1 DEF Candidate
  <2> HIDE DEF k
  <2>4. ss \in [Slots -> Session] /\ \A j \in Slots : ss[j].up => session[j].up \/ j = k
    BY <1>1, <2>2, <2>3 DEF Session
  <2>5. cn \in Connector
    BY <1>1, <2>2, <2>3, Constants DEF Connected, Connector
  <2> HIDE DEF ss, cn
  <2> QED BY <1>4, <2>1, <2>2, <2>4, <2>5
<1>6. CASE AttemptFails(t) /\ AnotherId(t)
  BY <1>2, <1>6, QuietStaysApart DEF AttemptFails
<1>7. CASE (AttemptFails(t) /\ ~ AnotherId(t)) \/ ConnectRefused(t)
  <2> DEFINE cn == AllFailed(conn[task[t].conn], task[t].base)
  <2>1. cn \in Connector
    BY <1>1, Constants DEF AllFailed, Connector
  <2>2. Returns(t, cn, session)
    BY <1>7 DEF AttemptFails, ConnectRefused
  <2> HIDE DEF cn
  <2> QED BY <1>1, <1>4, <2>1, <2>2
<1> QED
  BY <1>5, <1>6, <1>7 DEF AttemptEnds

LEMMA StepApart ==
    TInv /\ OnlyTheEngineHoldsASession /\ [TNext]_tvars => OnlyTheEngineHoldsASession'
<1> SUFFICES ASSUME TInv, OnlyTheEngineHoldsASession, [TNext]_tvars
             PROVE  OnlyTheEngineHoldsASession'
  OBVIOUS
<1>1. /\ TTypeOK /\ engine \in Connectors /\ task \in [Tasks -> Wait]
      /\ conn \in [Connectors -> Connector] /\ session \in [Slots -> Session]
  BY ConnectionTyped DEF TInv
<1>2. ASSUME NEW c \in Connectors, conn' = [conn EXCEPT ![c] = MarkDisconnected(@)]
      PROVE  \A d \in Connectors :
                conn'[d].ib = conn[d].ib /\ conn'[d].quotes \in {None, conn[d].quotes}
  BY <1>1, <1>2, Marked
<1>3. ASSUME NEW t \in Tasks, HealthBegins(t) PROVE OnlyTheEngineHoldsASession'
  <2>1. HealthAsked(t, conn, session) /\ UNCHANGED <<engine, session>>
    BY <1>3 DEF HealthBegins
  <2> QED BY <1>1, <2>1, HealthAsks, QuietStaysApart
<1>4. ASSUME NEW t \in Tasks, HealthEnds(t) PROVE OnlyTheEngineHoldsASession'
  <2>1. task[t].conn \in Connectors
    BY <1>1 DEF Wait
  <2>2. CASE HealthAnswered(t)
    BY <1>1, <2>2, QuietStaysApart DEF HealthAnswered, Connector
  <2>3. CASE HealthFails(t)
    <3>1. \A k \in Slots : session'[k].up => session[k].up
      BY <1>1, <2>3, Constants DEF HealthFails, Down
    <3> QED BY <1>2, <2>1, <2>3, <3>1, QuietStaysApart DEF HealthFails
  <2> QED BY <1>4, <2>2, <2>3 DEF HealthEnds
<1>5. ASSUME NEW t \in Tasks, Switch(t) PROVE OnlyTheEngineHoldsASession'
  \* The switch closes the one session that can be up.
  <2>1. /\ session' = [k \in Slots |-> IF k = conn[engine].ib THEN Down ELSE session[k]]
        /\ overlap => overlap'
    BY <1>1, <1>5 DEF Switch, Replaced, TTypeOK
  <2>2. ~ overlap' => \A k \in Slots : ~ session'[k].up
    BY <2>1 DEF TInv, Down
  <2> QED BY <2>2 DEF OnlyTheEngineHoldsASession
<1>6. ASSUME NEW c \in Connectors, StatusAsked(c) \/ QuoteSubscribed(c) \/ Elapse(c)
      PROVE  OnlyTheEngineHoldsASession'
  <2>1. CASE StatusAsked(c)
    BY <1>2, <2>1, QuietStaysApart DEF StatusAsked
  <2>2. CASE QuoteSubscribed(c) \/ Elapse(c)
    BY <1>1, <2>2, QuietStaysApart DEF QuoteSubscribed, Elapse, Connector
  <2> QED BY <1>6, <2>1, <2>2
<1>7. ASSUME (\E k \in Slots : SessionLost(k)) \/ TwsStops \/ TwsStarts \/ UNCHANGED tvars
      PROVE  OnlyTheEngineHoldsASession'
  <2>1. /\ UNCHANGED <<engine, conn, overlap>>
        /\ \A k \in Slots : session'[k].up => session[k].up
    BY <1>1, <1>7, Constants DEF SessionLost, TwsStops, TwsStarts, tvars, Down
  <2> QED BY <2>1, QuietStaysApart
<1> QED
  BY <1>3, <1>4, <1>5, <1>6, <1>7, ConnectStaysApart DEF TNext

\* As long as connects neither overlap nor meet a switch, no connector but the
\* engine's holds a session that is up, nor a registry of quotes of one: what a
\* request with a connector of before a switch closes, reads or subscribes
\* there, a health check that fails late among it, is never the engine's.
THEOREM SwitchedOffHoldNothing == TSpec => []OnlyTheEngineHoldsASession
<1>1. TInit => OnlyTheEngineHoldsASession
  BY DEF TInit, Down, OnlyTheEngineHoldsASession
<1> QED
  BY <1>1, SpecTInv, StepApart, PTL DEF TSpec

=============================================================================
