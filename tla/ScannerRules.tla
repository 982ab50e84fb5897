----------------------------- MODULE ScannerRules -----------------------------
(***************************************************************************)
(* What the opportunity scanner makes of one quote, before it stores        *)
(* anything: the data-quality gate, the rules of the techniques, the score  *)
(* and the status, the selection rules, the liquidity filter.               *)
(*                                                                          *)
(* A quote is a record.  Its number fields hold integers or None: prices in *)
(* cents, percentages in hundredths, volume ratios in hundredths, volume in *)
(* thousands of shares.  "stale", "extended", "event" and "sector" are what *)
(* the code derives from the timestamp, the distance to the entry, the event*)
(* risk and the metadata.  Reasons, badges and wording are left out.        *)
(***************************************************************************)
EXTENDS Integers, Sequences, FiniteSets, TLC

CONSTANT None

Known(x) == x # None
AtLeast(x, bound) == Known(x) /\ x >= bound
AtMost(x, bound) == Known(x) /\ x <= bound
Above(x, bound) == Known(x) /\ x > bound
Below(x, bound) == Known(x) /\ x < bound

-----------------------------------------------------------------------------
(* The data-quality gate (data_quality_gate.py). *)

OhlcCoherent(q) ==
  LET inside == {q.open, q.close} \ {None}
  IN  /\ Known(q.high) => \A p \in inside \cup ({q.low} \ {None}) : p <= q.high
      /\ Known(q.low) => \A p \in inside : p >= q.low

MissingData(q) == ~AtLeast(q.price, 1) \/ ~OhlcCoherent(q) \/ q.bid_above_ask
QualityOk(q) == ~MissingData(q) /\ ~q.stale

-----------------------------------------------------------------------------
(* Rules (rule_interpreter.py): a conjunction of disjunctions of conditions. *)

Condition(field, op, value) == [field |-> field, op |-> op, value |-> value]

\* A field that is missing, or holds what the operator cannot compare, is a
\* condition that does not match.
Matches(c, q) ==
  LET x == q[c.field]
  IN  CASE c.op = ">=" -> AtLeast(x, c.value)
        [] c.op = ">"  -> Above(x, c.value)
        [] c.op = "<=" -> AtMost(x, c.value)
        [] c.op = "<"  -> Below(x, c.value)
        [] c.op = "==" -> Known(x) /\ x = c.value
        [] c.op = "between" -> AtLeast(x, c.value[1]) /\ AtMost(x, c.value[2])
        [] c.op = "in" -> Known(x) /\ x \in c.value
        [] OTHER       -> FALSE

MatchesAny(clause, q) == \E i \in DOMAIN clause : Matches(clause[i], q)
EvaluateRule(rule, q) ==
  rule.all # <<>> /\ \A i \in DOMAIN rule.all : MatchesAny(rule.all[i], q)

\* The spread condition that the one-shot migration adds to the rules of the
\* seven oldest techniques.
SpreadFilter == Condition("spread_pct", "<=", 50)
Mentions(rule, field) ==
  \E i \in DOMAIN rule.all : \E j \in DOMAIN rule.all[i] : rule.all[i][j].field = field
WithSpreadFilter(rule) ==
  IF Mentions(rule, "spread_pct") THEN rule
  ELSE [rule EXCEPT !.all = Append(@, <<SpreadFilter>>)]

-----------------------------------------------------------------------------
(* The seeded techniques (technique_seed.py). *)

Rule(type, clauses) == [type |-> type, all |-> clauses]

BuiltinRules ==
  [intraday_momentum_anomaly |->
     Rule("INTRADAY_MOMENTUM_ANOMALY", <<<<Condition("perf", ">=", 500)>>>>),
   relative_strength_leader |->
     Rule("RELATIVE_STRENGTH_LEADER",
          <<<<Condition("rs_spy", ">=", 300), Condition("rs_sector", ">=", 200)>>>>),
   volume_expansion |->
     Rule("VOLUME_EXPANSION", <<<<Condition("volume_ratio", ">=", 150)>>>>),
   breakout_candidate |->
     Rule("BREAKOUT_CANDIDATE", <<<<Condition("proximity", "<=", 150)>>>>),
   gap_and_hold |->
     Rule("GAP_AND_HOLD", <<<<Condition("gap", ">=", 300)>>, <<Condition("perf", ">", 0)>>>>),
   watchlist_anomaly |->
     Rule("WATCHLIST_ANOMALY", <<<<Condition("new_high", "==", TRUE)>>>>),
   sector_leader |->
     Rule("SECTOR_LEADER", <<<<Condition("rs_sector", ">=", 200)>>>>)]

\* At lunch the volume must confirm.
NotAtLunch ==
  <<Condition("bucket", "in", {"OPEN", "MORNING", "AFTERNOON", "POWER_HOUR"}),
    Condition("rvol", ">=", 150)>>

F1Rules ==
  [gap_and_go_full |->
     Rule("GAP_AND_GO_FULL",
          <<<<Condition("gap", ">=", 300)>>, <<Condition("perf", ">", 0)>>,
            <<Condition("dist_vwap", ">=", 0)>>, <<Condition("rvol", ">=", 150)>>,
            <<SpreadFilter>>, NotAtLunch>>),
   momentum_rvol_confirmed |->
     Rule("MOMENTUM_RVOL_CONFIRMED",
          <<<<Condition("perf", ">=", 500)>>, <<Condition("rs_spy", ">", 0)>>,
            <<Condition("rvol", ">=", 150)>>, <<SpreadFilter>>, NotAtLunch>>)]

\* The rules in force once the application has started.
SeededRules ==
  [t \in DOMAIN BuiltinRules |-> WithSpreadFilter(BuiltinRules[t])] @@ F1Rules

-----------------------------------------------------------------------------
(* Detection (technique_evaluator.py, detectors.py). *)

TypePriority ==
  <<"INTRADAY_MOMENTUM_ANOMALY", "RELATIVE_STRENGTH_LEADER", "VOLUME_EXPANSION",
    "BREAKOUT_CANDIDATE", "GAP_AND_HOLD", "PULLBACK_AFTER_MOMENTUM", "SECTOR_LEADER",
    "WATCHLIST_ANOMALY">>

\* The techniques whose rule matches, and the opportunity types they stand for.
Matched(rules, q) == {t \in DOMAIN rules : EvaluateRule(rules[t], q)}
TypesOf(rules, matched) == {rules[t].type : t \in matched}
Primary(types) ==
  LET known == {i \in DOMAIN TypePriority : TypePriority[i] \in types}
  IN  IF known = {} THEN "WATCHLIST_ANOMALY"
      ELSE TypePriority[CHOOSE i \in known : \A j \in known : i <= j]

-----------------------------------------------------------------------------
(* The score (scoring.py) and the status (service.py). *)

\* The spread the quote states, or the one of its bid and ask; only the
\* stated one is a field of the rules.
Spread(q) == IF Known(q.spread_pct) THEN q.spread_pct ELSE q.quoted_spread

Points(b, n) == IF b THEN n ELSE 0
Bounded(n) == IF n < 0 THEN 0 ELSE IF n > 100 THEN 100 ELSE n

RawScore(q, types) ==
    Points(AtLeast(q.perf, 500), 30) + Points(AtLeast(q.perf, 1000), 20)
  + Points("INTRADAY_MOMENTUM_ANOMALY" \in types, 20)
  + Points(AtLeast(q.rs_spy, 300), 20) + Points(AtLeast(q.rs_sector, 200), 20)
  + Points(AtLeast(q.volume_ratio, 150), 20) + Points(AtMost(Spread(q), 35), 10)

Penalty(q) ==
    Points(~q.sector /\ ~AtLeast(q.perf, 1000), 20) + Points(q.extended, 30)
  + Points(q.event, 30) + Points(Above(Spread(q), 35), 20)

Discovery(q, types) == Bounded(RawScore(q, types))
RiskAdjusted(q, types) ==
  Bounded(RawScore(q, types) - Penalty(q))

\* _status and _table_status_for_context_signal: what the row will say.
RowStatus(q, types) ==
  LET d == Discovery(q, types)
      r == RiskAdjusted(q, types)
  IN  IF d >= 70 /\ types # {} THEN "DETECTED"
      ELSE IF d >= 20 \/ r >= 20 THEN "WATCHLIST"
      ELSE "REJECTED"

-----------------------------------------------------------------------------
(* Selection rules of the setups' types (scanner.py).  A setup brings no      *)
(* scanner configuration: the volume ratio it needs is 1.0 for every type.    *)

Confirmed(q) == ~Below(q.volume_ratio, 100)
Distance(x, y) == IF x > y THEN x - y ELSE y - x

Selected(setup_type, q) ==
  CASE setup_type = "momentum_breakout" ->
         Known(q.previous_high) /\ AtLeast(q.price, q.previous_high) /\ Confirmed(q)
    [] setup_type = "breakout_retest" ->
         /\ q.broke_out
         /\ Known(q.price) /\ Known(q.support)
         /\ Known(q.atr) => Distance(q.price, q.support) <= q.atr
    [] setup_type = "reclaim" ->
         Known(q.ema20) /\ AtLeast(q.price, q.ema20) /\ Confirmed(q)
    [] setup_type = "pullback_continuation" ->
         /\ Known(q.price) /\ Known(q.ema20)
         /\ AtMost(q.ema50, q.ema20)
         /\ q.price >= q.ema20 /\ 100 * q.price <= 105 * q.ema20
    [] OTHER -> Known(q.price)

-----------------------------------------------------------------------------
(* The liquidity filter (scanner.py): a missing number does not block.       *)

Liquid(q) ==
  /\ Known(q.price) => q.price \in 100..100000
  /\ ~Below(q.volume, 100)
  /\ ~Below(q.volume_ratio, 80)
  /\ ~Above(Spread(q), 35)

\* A symbol without a quote passes with a setup only.
LiquidityBlocks(quoted, q, has_setup) ==
  IF quoted THEN ~Liquid(q) ELSE ~has_setup
=============================================================================
