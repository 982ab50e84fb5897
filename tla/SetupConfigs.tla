---------------------------- MODULE SetupConfigs ----------------------------
(***************************************************************************)
(* What makes a setup: how free text or a payload becomes a configuration  *)
(* (text_converter.py, canonical_model_builder.py), what is wrong with it  *)
(* (semantic_validation_service.py with config/schemas, the validate of    *)
(* the setup types) and what the intelligence service and the setup engine *)
(* each conclude from that.                                                *)
(*                                                                         *)
(* A configuration is a record of the settings these decisions read.  A    *)
(* field is named for the last part of its path; level is the price the    *)
(* setup's type enters at (breakout.resistance, breakout.daily_close_above,*)
(* pullback.entry_reference), zone_min and zone_max bound its zone (retest,*)
(* support_zone, range, missed_breakout).  A flag is "on", "off" or        *)
(* "absent"; a name that is not given is "".  Prices are in cents.         *)
(***************************************************************************)
EXTENDS Integers, Sequences

Unset == -1     \* no number
Bad   == -2     \* text where a number belongs
IsNumber(x) == x >= 0
Given(x) == x > 0

Types == {"breakout_retest", "aggressive_rebound", "pullback_continuation", "momentum_breakout",
          "position_management", "range_breakout", "runner", "trailing_runner"}
Levelled == {"breakout_retest", "pullback_continuation", "momentum_breakout"}
Zoned == {"breakout_retest", "aggressive_rebound", "range_breakout"}
Runners == {"runner", "trailing_runner"}

\* A payload that gives nothing.
Empty == [setup_id |-> "", symbol |-> "", setup_type |-> "", setup_role |-> "", enabled |-> TRUE,
          entry_enabled |-> "absent", order_type |-> "STP_LMT",
          trigger_price |-> Unset, entry_price |-> Unset, maximum_limit_price |-> Unset,
          trigger_offset |-> Unset, limit_offset |-> Unset,
          max_position |-> Unset, max_risk |-> Unset,
          level |-> Unset, zone_min |-> Unset, zone_max |-> Unset,
          stop_rules |-> FALSE, position_source |-> "absent",
          has_trailing |-> FALSE, trailing_enabled |-> "absent", initial_stop |-> Unset,
          never_lower_stop |-> "absent", required_before_entry |-> "absent",
          initial_stop_loss |-> Unset, protective_stop |-> Unset]

\* A configuration gives every field: its numbers, and offsets that are not
\* negative (setup.base.schema.json).
IsConfig(c) ==
  /\ DOMAIN c = DOMAIN Empty
  /\ \A f \in {"trigger_price", "entry_price", "maximum_limit_price", "max_position", "max_risk",
               "level", "zone_min", "zone_max", "initial_stop", "initial_stop_loss",
               "protective_stop"} : c[f] \in Int
  /\ \A f \in {"trigger_offset", "limit_offset"} : c[f] \in Nat \cup {Unset}

-----------------------------------------------------------------------------
(* Canonical form *)

\* _merge_trailing_stop_defaults: what the section leaves out takes the
\* default, and the default of each switch is on.
TrailingSwitch(raw, switch) ==
  IF raw.has_trailing /\ raw[switch] # "absent" THEN raw[switch] ELSE "on"

\* The stop of the trailing section, else a stop in the place of earlier
\* versions.  A zero initial_stop_loss hides the protective stop only when
\* there is a trailing section.
CanonicalStop(raw) ==
  LET hiding == IF raw.has_trailing THEN {Unset} ELSE {Unset, 0}
      legacy == IF raw.initial_stop_loss \in hiding THEN raw.protective_stop
                                                    ELSE raw.initial_stop_loss
  IN IF raw.has_trailing /\ raw.initial_stop # Unset THEN raw.initial_stop ELSE legacy

Canonical(raw) ==
  [raw EXCEPT
    !.has_trailing = TRUE,
    !.initial_stop = CanonicalStop(raw),
    !.trailing_enabled = TrailingSwitch(raw, "trailing_enabled"),
    !.never_lower_stop = TrailingSwitch(raw, "never_lower_stop"),
    !.required_before_entry = TrailingSwitch(raw, "required_before_entry"),
    !.initial_stop_loss = Unset,
    !.protective_stop = Unset]

-----------------------------------------------------------------------------
(* Free text: what the patterns found in it.                               *)
(*   t: symbol, setup_type (_detect_setup_type), stop, risk, position,     *)
(*      level, zone_min, zone_max (the first range), numbers (in their     *)
(*      order), steps (stop steps)                                         *)

\* What the patterns find are numbers.
IsText(t) ==
  /\ DOMAIN t = {"symbol", "setup_type", "stop", "risk", "position", "level", "zone_min",
                 "zone_max", "numbers", "steps"}
  /\ \A f \in {"stop", "risk", "position", "level", "zone_min", "zone_max"} : t[f] \in Int
  /\ t.numbers \in Seq(Int)

FirstAbove(numbers, stop) ==
  LET above == {i \in DOMAIN numbers : numbers[i] > stop}
  IN IF above = {} THEN Unset
     ELSE numbers[CHOOSE i \in above : \A j \in above : i <= j]

\* The price of a type that needs one.
ReferencePrice(t) ==
  IF Given(t.level) THEN t.level
  ELSE IF t.setup_type = "breakout_retest" THEN t.zone_max
  ELSE FirstAbove(t.numbers, t.stop)

\* What a text says whatever its type.
TextBase(t, id) ==
  [Empty EXCEPT !.setup_id = id, !.symbol = t.symbol, !.setup_type = t.setup_type,
    !.setup_role = "ENTRY_AND_MANAGEMENT", !.entry_enabled = "on",
    !.trigger_offset = 2, !.limit_offset = 5]

\* _build_config refuses a text without the levels its type enters by.
Converts(t) ==
  /\ t.stop # Unset
  /\ IF t.setup_type \in Zoned THEN t.zone_min # Unset ELSE ReferencePrice(t) # Unset

Converted(t, id, defaultRisk, defaultPosition) ==
  [TextBase(t, id) EXCEPT
    !.max_risk = IF t.risk # Unset THEN t.risk ELSE defaultRisk,
    !.max_position = IF t.position # Unset THEN t.position ELSE defaultPosition,
    !.has_trailing = TRUE, !.trailing_enabled = "on", !.never_lower_stop = "on",
    !.required_before_entry = "on", !.initial_stop = t.stop,
    !.stop_rules = t.steps,
    !.level = IF t.setup_type \in Levelled THEN ReferencePrice(t) ELSE Unset,
    !.entry_price = IF t.setup_type \in Runners THEN ReferencePrice(t) ELSE Unset,
    !.zone_min = IF t.setup_type \in Zoned THEN t.zone_min ELSE Unset,
    !.zone_max = IF t.setup_type \in Zoned THEN t.zone_max ELSE Unset]

\* _build_partial_text_config: what there is, as a draft; no default budget,
\* and no price but the one the text names as a level.
Partial(t, id) ==
  [TextBase(t, id) EXCEPT
    !.max_risk = t.risk, !.max_position = t.position,
    !.has_trailing = (t.stop # Unset), !.initial_stop = t.stop,
    !.trailing_enabled = IF t.stop # Unset THEN "on" ELSE "absent",
    !.never_lower_stop = IF t.stop # Unset THEN "on" ELSE "absent",
    !.required_before_entry = IF t.stop # Unset THEN "on" ELSE "absent",
    !.level = IF t.setup_type \in Levelled THEN t.level ELSE Unset,
    !.zone_min = IF t.setup_type \in Zoned THEN t.zone_min ELSE Unset,
    !.zone_max = IF t.setup_type \in Zoned THEN t.zone_max ELSE Unset]

-----------------------------------------------------------------------------
(* What is wrong with a canonical configuration *)

Error(path, code)   == [path |-> path, code |-> code, level |-> "ERROR"]
Warning(path, code) == [path |-> path, code |-> code, level |-> "WARNING"]
If(condition, issue) == IF condition THEN {issue} ELSE {}
Errors(issues) == {i \in issues : i.level = "ERROR"}

Numbers == {"trigger_price", "entry_price", "maximum_limit_price", "max_position", "max_risk",
            "level", "zone_min", "zone_max", "initial_stop"}
Positive == {"max_position", "max_risk", "level", "zone_min", "zone_max", "initial_stop"}

\* The fields the schema of the base and of the type require.
Required(c) ==
  {"setup_id", "symbol", "setup_type", "setup_role", "entry_enabled"}
    \cup (IF c.setup_type \in Levelled THEN {"level"} ELSE {})
    \cup (IF c.setup_type = "position_management" THEN {"position_source"} ELSE {})
IsAbsent(c, f) == IF f \in Numbers THEN c[f] = Unset ELSE c[f] \in {"", "absent"}

SchemaIssues(c) ==
    {Error(f, "MISSING_REQUIRED") : f \in {g \in Required(c) : IsAbsent(c, g)}}
    \cup {Error(f, "TYPE_MISMATCH") : f \in {g \in Numbers : c[g] = Bad}}
    \cup If(c.setup_type \in Zoned /\ Unset \in {c.zone_min, c.zone_max},
            Error("zone", "MISSING_REQUIRED"))
    \cup {Error(f, "EXCLUSIVE_MINIMUM") : f \in {g \in Positive : c[g] = 0}}
    \cup If(c.setup_type \notin Types \cup {""}, Error("setup_type", "ENUM_MISMATCH"))
    \cup If(c.setup_type = "position_management" /\ c.entry_enabled = "on",
            Error("entry_enabled", "CONST_MISMATCH"))
    \cup If(c.setup_type = "position_management" /\ c.setup_role \notin {"", "MANAGEMENT_ONLY"},
            Error("setup_role", "CONST_MISMATCH"))

\* _validate_trailing_stop_required; a section exists in canonical form.
TrailingIssues(c) ==
    If(c.trailing_enabled # "on", Error("trailing_enabled", "TRAILING_STOP_LOSS_REQUIRED"))
    \cup If(~IsNumber(c.initial_stop),
            Error("initial_stop", "TRAILING_STOP_INITIAL_STOP_REQUIRED_BEFORE_ARMING"))
    \cup If(c.entry_enabled # "off" /\ c.required_before_entry # "on",
            Error("required_before_entry", "TRAILING_STOP_BROKER_ORDER_REQUIRED"))
    \cup If(c.never_lower_stop # "on",
            Error("never_lower_stop", "TRAILING_STOP_NEVER_LOWER_REQUIRED"))

CommonIssues(c) ==
  LET trigger == IF IsNumber(c.trigger_price) THEN c.trigger_price ELSE c.entry_price
  IN If(IsNumber(trigger) /\ IsNumber(c.maximum_limit_price) /\ c.maximum_limit_price < trigger,
        Error("maximum_limit_price", "LIMIT_BELOW_TRIGGER"))
     \cup If(IsNumber(c.max_position) /\ IsNumber(c.max_risk) /\ c.max_risk > c.max_position,
             Warning("max_risk", "RISK_ABOVE_POSITION_BUDGET"))
     \cup TrailingIssues(c)

\* _validate_setup_specific_semantics; a range may not even be a single price.
TypeIssues(c) ==
  LET zone == IsNumber(c.zone_min) /\ IsNumber(c.zone_max)
      reversed == \/ c.setup_type \in {"breakout_retest", "aggressive_rebound", "momentum_breakout"}
                     /\ c.zone_min > c.zone_max
                  \/ c.setup_type = "range_breakout" /\ c.zone_min >= c.zone_max
  IN If(zone /\ reversed, Error("zone", "REVERSED_ZONE"))
     \cup If(c.setup_type = "breakout_retest" /\ IsNumber(c.level) /\ IsNumber(c.zone_max)
               /\ c.level < c.zone_max,
             Warning("level", "BREAKOUT_BELOW_RETEST_CEILING"))
     \cup If(c.setup_type = "momentum_breakout" /\ IsNumber(c.level)
               /\ IsNumber(c.maximum_limit_price) /\ c.maximum_limit_price < c.level,
             Error("maximum_limit_price", "MOMENTUM_LIMIT_BELOW_RESISTANCE"))
     \cup If(c.setup_type \in Runners /\ ~c.stop_rules,
             Warning("stop_rules", "RUNNER_WITHOUT_STOP_STEPS"))
     \cup If(c.setup_type = "position_management" /\ ~c.stop_rules,
             Warning("stop_rules", "MANAGEMENT_WITHOUT_RULES"))

SemanticIssues(c) == SchemaIssues(c) \cup CommonIssues(c) \cup TypeIssues(c)

-----------------------------------------------------------------------------
(* The setup types *)

\* setup_role_from_config; position_management has one role.
Role(c) ==
  IF c.setup_type = "position_management" THEN "MANAGEMENT_ONLY"
  ELSE IF c.setup_role = "" THEN "ENTRY_AND_MANAGEMENT"
  ELSE c.setup_role
AllowsEntry(c) == Role(c) # "MANAGEMENT_ONLY"
EntryEnabled(c) == c.entry_enabled # "off"

Plus(price, offset) == IF IsNumber(price) THEN price + offset ELSE price
TriggerOffset(c) == IF c.trigger_offset = Unset THEN 2 ELSE c.trigger_offset

\* A runner's price is the one it is given, else above its stop.
RunnerEntry(c) ==
  IF c.entry_price # Unset THEN c.entry_price
  ELSE IF Given(c.initial_stop) THEN c.initial_stop + 100 ELSE Unset

EstimatedEntry(c) ==
  IF c.setup_type = "position_management" THEN Unset
  ELSE IF c.setup_type \in Runners THEN RunnerEntry(c)
  ELSE IF c.trigger_price # Unset THEN c.trigger_price
  ELSE CASE c.setup_type = "aggressive_rebound" -> c.zone_max
         [] c.setup_type = "range_breakout" -> Plus(c.zone_max, TriggerOffset(c))
         [] c.setup_type = "pullback_continuation" -> c.level
         [] OTHER -> Plus(c.level, TriggerOffset(c))

MaximumLimit(c) ==
  IF ~IsNumber(EstimatedEntry(c)) THEN EstimatedEntry(c)
  ELSE IF c.order_type # "STP_LMT" THEN Unset
  ELSE IF c.maximum_limit_price # Unset THEN c.maximum_limit_price
  ELSE EstimatedEntry(c) + (IF c.limit_offset = Unset THEN 0 ELSE c.limit_offset)

WorstCaseEntry(c) == IF MaximumLimit(c) \in {Unset, 0} THEN EstimatedEntry(c) ELSE MaximumLimit(c)

\* float() of a text raises, and validate lets it.
ValidateRaises(c) ==
  \/ c.initial_stop = Bad
  \/ AllowsEntry(c) /\ Bad \in {c.max_position, c.max_risk, WorstCaseEntry(c)}

\* BaseSetup.validate and the types' own; path "" where the message names none.
RuleIssues(c) ==
    If(c.symbol = "", Error("symbol", "MISSING_REQUIRED_FIELD"))
    \cup If(~AllowsEntry(c) /\ EntryEnabled(c), Error("", "MANAGEMENT_WITH_ENTRY"))
    \cup If(AllowsEntry(c) /\ ~EntryEnabled(c), Error("", "ENTRY_SWITCHED_OFF"))
    \cup {Error(f, "MISSING_REQUIRED_FIELD") :
            f \in {g \in {"max_position", "max_risk"} : AllowsEntry(c) /\ ~Given(c[g])}}
    \cup If(c.trailing_enabled # "on", Error("", "TRAILING_STOP_LOSS_REQUIRED"))
    \cup If(~Given(c.initial_stop), Error("initial_stop", "MUST_BE_POSITIVE"))
    \cup If(AllowsEntry(c) /\ ~Given(WorstCaseEntry(c)),
            Error("trigger_price", "MISSING_REQUIRED_FIELD"))
    \cup If(AllowsEntry(c) /\ Given(WorstCaseEntry(c)) /\ Given(c.initial_stop)
              /\ c.initial_stop >= WorstCaseEntry(c),
            Error("initial_stop", "INVALID_RISK_CONFIGURATION"))
    \cup If(c.setup_type \in {"breakout_retest", "aggressive_rebound"}
              /\ Unset \in {c.zone_min, c.zone_max},
            Error("zone", "MISSING_REQUIRED_FIELD"))
    \cup If(c.setup_type = "breakout_retest" /\ c.level = Unset,
            Error("level", "MISSING_REQUIRED_FIELD"))
    \cup If(c.setup_type = "position_management" /\ c.setup_role \notin {"", "MANAGEMENT_ONLY"},
            Error("setup_role", "INVALID_FIELD_VALUE"))
    \cup If(c.setup_type = "position_management" /\ c.position_source # "adopt",
            Error("position_source", "INVALID_FIELD_VALUE"))

-----------------------------------------------------------------------------
(* Verdicts *)

\* _issue_from_message: some messages of the semantic checks are read once
\* more, as messages of the arm validation, and make a second issue.
Reread(issues) ==
    If(Error("symbol", "MISSING_REQUIRED") \in issues, Error("symbol", "MISSING_REQUIRED_FIELD"))
    \cup If(Error("setup_role", "CONST_MISMATCH") \in issues, Error("setup_role", "REREAD"))
    \cup If(Error("initial_stop", "TRAILING_STOP_INITIAL_STOP_REQUIRED_BEFORE_ARMING") \in issues,
            Error("initial_stop", "MISSING_REQUIRED_FIELD"))
    \cup If(Error("required_before_entry", "TRAILING_STOP_BROKER_ORDER_REQUIRED") \in issues,
            Error("required_before_entry", "INVALID_FIELD_VALUE"))

\* IntelligenceService._save_validation: a draft needs a symbol and a type.
Saveable(c) == c.symbol # "" /\ c.setup_type \in Types

\* A mutant of ArmIssues: the setup type's own validate is not asked.
SemanticArmIssues(c) == SemanticIssues(c) \cup Reread(SemanticIssues(c))

\* The issues of the arm validation.
ArmIssues(c) ==
  SemanticIssues(c) \cup Reread(SemanticIssues(c))
    \cup (IF c.setup_type \in Types THEN RuleIssues(c)
                                  ELSE {Error("setup_type", "UNKNOWN_SETUP_TYPE")})

\* IntelligenceService._arm_validation.
Armable(c) == Errors(ArmIssues(c)) = {}

\* Unlike the intelligence service, the engine takes an exception of validate
\* for an error.
EngineAccepts(c) == (c.setup_type \in Types => ~ValidateRaises(c)) /\ Errors(ArmIssues(c)) = {}

\* SetupEngine.validate_for_arm.
EngineArms(c) ==
  /\ EngineAccepts(c)
  /\ c.enabled
  /\ c.required_before_entry = "on"
  /\ IF AllowsEntry(c) THEN EntryEnabled(c) /\ WorstCaseEntry(c) # Unset /\ c.initial_stop # Unset
     ELSE c.position_source = "adopt" /\ ~EntryEnabled(c)
=============================================================================
