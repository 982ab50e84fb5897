------------------------------ MODULE MCResearch ------------------------------
(***************************************************************************)
(* The research side: its parts share no row, so one run checks them side  *)
(* by side, each with its own variables; "part" says which one moves.      *)
(***************************************************************************)
EXTENDS TechniqueLearning, TLC
CONSTANTS
  b, v, d1,                                    \* techniques and a horizon
  Universes, Watched, Ids, ScannerEnabled,     \* OpportunityRadar
  Forecasters, Default, Adapters, Restricted, Disabled,  \* ForecastRuns
  Members, Traded, Registered, Registry, Rows, MinJudged,  \* ForecastAccuracy
  Requests, Callers, Fixes, NewIds, DefaultRisk, DefaultPosition,
  MaxAnalyses, MaxAnswers                      \* SemanticAnalyses

\* The stage of a run is "idle", "record", ... or the technique it records.
ASSUME StagesAssumption == Watched \cap {"idle", "record", "list", "expire"} = {}

VARIABLES
  part,
  universe, paused, opp, outcomes, task, crossed, touched,
  latest, ofSetup, calls,
  outcome, priced, cards, evaluations,
  analyses, answers, saved, rollbacks

Radar == INSTANCE OpportunityRadar

Runs == INSTANCE ForecastRuns WITH Models <- Forecasters, task <- calls

Accuracy == INSTANCE ForecastAccuracy WITH
  Models <- Members, Symbols <- Traded, Count <- Registered, Of <- Registry,
  Limit <- Rows, MinSamples <- MinJudged, task <- evaluations

ASSUME AccuracyAssumption ==
  IsFiniteSet(Members) /\ Registered \in Nat /\ MinJudged \in Nat

-----------------------------------------------------------------------------
\* Requests of the intelligence service: a sound payload, two alternatives of
\* which the first lacks its risk budget, and a text without a stop, under the
\* key of the first.
Configs == INSTANCE SetupConfigs
Retest == [Configs!Empty EXCEPT
  !.setup_id = "a", !.symbol = "X", !.setup_type = "breakout_retest",
  !.setup_role = "ENTRY_AND_MANAGEMENT", !.entry_enabled = "on", !.trigger_price = 510,
  !.max_position = 1000, !.max_risk = 100, !.level = 500, !.zone_min = 480, !.zone_max = 490,
  !.initial_stop_loss = 450]
Pullback == [Retest EXCEPT !.setup_id = "", !.symbol = "", !.setup_type = "pullback_continuation",
                           !.trigger_price = Configs!Unset, !.maximum_limit_price = 505]
Words == [symbol |-> "", setup_type |-> "momentum_breakout", stop |-> Configs!Unset, risk |-> 50,
          position |-> Configs!Unset, level |-> 500, zone_min |-> Configs!Unset,
          zone_max |-> Configs!Unset,
          numbers |-> <<500>>, steps |-> FALSE]
Payload(configs, symbol, key) ==
  [form |-> "payload", body |-> configs, symbol |-> symbol, key |-> key]

Intelligence == INSTANCE SemanticAnalyses WITH Actors <- Callers

ASSUME RequestsAssumption ==
  /\ \A r \in Requests : Intelligence!IsRequest(r)
  /\ \A path \in DOMAIN Fixes : path \in DOMAIN Configs!Empty
  /\ \A path \in DOMAIN Fixes : \A value \in Fixes[path] : Intelligence!IsFix(path, value)
  /\ DefaultRisk \in Int /\ DefaultPosition \in Int

MCForecasters == <<"timesfm", "chronos">>
MCRegistry == <<[model |-> "timesfm", symbol |-> "x"], [model |-> "timesfm", symbol |-> "y"]>>
MCRequests == {Payload(<<Retest>>, "", "k"),
               Payload(<<[Retest EXCEPT !.max_risk = Configs!Unset], Pullback>>, "Y", ""),
               [form |-> "text", body |-> Words, symbol |-> "Y", key |-> "k"]}
MCFixes == [initial_stop |-> {450, 600, Configs!Bad}, max_risk |-> {100}, symbol |-> {""}]
MCNewIds == <<<<"n1", "m1">>, <<"n2", "m2">>, <<"n3", "m3">>>>

MCOrder == <<b, v>>
MCSessions == d1 :> 1
MCOutcomes == b :> 2 @@ v :> 1

-----------------------------------------------------------------------------
\* A quiet quote, known in every field.
Quiet == [open |-> 5000, high |-> 5300, low |-> 4950, close |-> 5250, price |-> 5250,
          bid_above_ask |-> FALSE, stale |-> FALSE, perf |-> 100, rs_spy |-> 50, rs_sector |-> 0,
          volume_ratio |-> 100, rvol |-> 100, gap |-> 0, proximity |-> 400, new_high |-> FALSE,
          dist_vwap |-> 10, bucket |-> "MORNING", spread_pct |-> 10, quoted_spread |-> 10,
          volume |-> 900, sector |-> TRUE, extended |-> FALSE, event |-> FALSE,
          previous_high |-> 5200, support |-> None, atr |-> None, broke_out |-> FALSE,
          ema20 |-> None, ema50 |-> None]
Strong == [Quiet EXCEPT !.perf = 1100, !.rs_spy = 500, !.volume_ratio = 200, !.rvol = 200]
Market(q) == [quoted |-> TRUE, quote |-> q, setup |-> None, score |-> 0]
Unquoted == [f \in DOMAIN Quiet |-> IF f \in {"bid_above_ask", "stale", "extended", "event"}
                                     THEN FALSE ELSE None]
Setup(q) == [Market(q) EXCEPT !.quoted = (q # Unquoted), !.setup = "momentum_breakout",
                              !.score = 60]
MCUniverses ==
  {{Market(Strong), Market([Strong EXCEPT !.volume = 50])},
   {Market([Strong EXCEPT !.stale = TRUE]), Market([Strong EXCEPT !.price = None])},
   {Setup(Quiet), Setup(Unquoted)}}
MCWatched == {"intraday_momentum_anomaly"}

-----------------------------------------------------------------------------
learningVars == <<row, pending, done, run, disturbed>>
radarVars == <<universe, paused, opp, outcomes, task, crossed, touched>>
runsVars == <<latest, ofSetup, calls>>
accuracyVars == <<outcome, priced, cards, evaluations>>
intelligenceVars == <<analyses, answers, saved, rollbacks>>

\* The parts that do not move keep one initial state.
ResearchInit ==
  /\ part \in {"learning", "radar", "runs", "accuracy", "intelligence"}
  /\ Init
  /\ Radar!Init
  /\ part # "radar" => universe = CHOOSE u \in Universes : TRUE
  /\ Runs!Init
  /\ Accuracy!Init
  /\ Intelligence!Init

In(name) == part = name /\ UNCHANGED part
InLearning ==
  In("learning") /\ UNCHANGED <<radarVars, runsVars, accuracyVars, intelligenceVars>>
InRadar ==
  In("radar") /\ UNCHANGED <<learningVars, runsVars, accuracyVars, intelligenceVars>>
InRuns ==
  In("runs") /\ UNCHANGED <<rth, learningVars, radarVars, accuracyVars, intelligenceVars>>
InAccuracy ==
  In("accuracy") /\ UNCHANGED <<rth, learningVars, radarVars, runsVars, intelligenceVars>>
InIntelligence ==
  In("intelligence") /\ UNCHANGED <<rth, learningVars, radarVars, runsVars, accuracyVars>>

ResearchNext ==
  \/ InLearning /\ Next
  \/ InRadar /\ Radar!Next
  \/ InRuns /\ Runs!Next
  \/ InAccuracy /\ Accuracy!Next
  \/ InIntelligence /\ Intelligence!Next

\* The fairness of the part that something is promised of in the end.
AccuracyFairness ==
  WF_accuracyVars(InAccuracy /\ (Accuracy!JobLists \/ Accuracy!JobObserves \/ Accuracy!Step("job")))

ResearchSpec ==
  /\ ResearchInit
  /\ [][ResearchNext]_<<part, rth, learningVars, radarVars, runsVars, accuracyVars,
         intelligenceVars>>
  /\ AccuracyFairness

DuplicatesOnlyByOverlap == Radar!DuplicatesOnlyByOverlap
FreshExpireOnlyByOverlap == Radar!FreshExpireOnlyByOverlap
RowsTellTheirModel == Runs!RowsTellTheirModel
BoostRestsOnRecord == Accuracy!BoostRestsOnRecord
RollbackTellsWhatItSaved == Intelligence!RollbackTellsWhatItSaved
ArmableEntriesAreSound == Intelligence!ArmableEntriesAreSound
DueForecastsAreJudged == Accuracy!DueForecastsAreJudged
=============================================================================
