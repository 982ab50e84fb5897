--------------------------- MODULE ForecastAccuracy ---------------------------
(***************************************************************************)
(* What becomes of a forecast after its horizon: the ledger of outcomes    *)
(* (forecast_accuracy_repository.py), the job and the routes that judge    *)
(* them and rebuild the scorecards (forecast_accuracy_service.py,          *)
(* background_jobs.py, routes_forecasting.py), and the consensus whose     *)
(* score impact rests on the scorecards (forecast_ensemble.py).            *)
(*                                                                         *)
(* The job works in a thread, the routes on the event loop; the database   *)
(* lock covers one statement, and the replacement of the scorecards.       *)
(* A judged outcome is a hit, right in its direction and 1 % off, or a     *)
(* miss, wrong and 10 % off; returns are in hundredths of a percent.       *)
(***************************************************************************)
EXTENDS Integers, Sequences, FiniteSets, Functions

CONSTANTS
  Models,
  Symbols,
  Count,       \* bound: forecasts that are registered
  Of,          \* 1..Count -> [model, symbol]: what each is, in order of its horizon's end
  Limit,       \* due_outcomes: rows per reading
  MinSamples,  \* forecast_accuracy.min_required_samples
  None

Forecasts == 1..Count
Actors == {"job", "route"}

VARIABLES
  outcome, \* forecast_outcomes: id -> its status; DUE: PENDING past its horizon
  priced,  \* symbols with a tick or a stored quote
  cards,   \* forecast_accuracy_scorecards: model -> [hit, miss] or None
  task     \* actor -> its evaluation or rebuild

vars == <<outcome, priced, cards, task>>

-----------------------------------------------------------------------------
(* Grades (forecast_accuracy_calculator.py). *)

Judged == {"HIT", "MISS"}
With(m, s) == {i \in Forecasts : Of[i].model = m /\ outcome[i] = s}
\* One card per model stands for one per model, symbol, timeframe and horizon.
Tally(m) == [hit |-> Cardinality(With(m, "HIT")), miss |-> Cardinality(With(m, "MISS"))]
Size(c) == c.hit + c.miss

\* direction_accuracy >= acc % and mape <= err %.
Meets(c, acc, err) == 100 * c.hit >= acc * Size(c) /\ c.hit + 10 * c.miss <= err * Size(c)

\* A mutant of ReliabilityGrade: a grade without enough samples.
GradeOfAnySample(c) ==
  IF Size(c) > 0 /\ Meets(c, 62, 4) THEN "A" ELSE "DorF"

ReliabilityGrade(c) ==
  CASE Size(c) < MinSamples -> "INSUFFICIENT_DATA"
    [] Size(c) >= MinSamples /\ Meets(c, 62, 4) -> "A"
    [] Size(c) >= MinSamples /\ ~Meets(c, 62, 4) /\ Meets(c, 57, 6) -> "B"
    [] Size(c) >= MinSamples /\ ~Meets(c, 57, 6) /\ Meets(c, 52, 8) -> "C"
    [] OTHER -> "DorF"

-----------------------------------------------------------------------------
(* The consensus (ForecastStackConsensus).  An opinion is a member's          *)
(* direction and its expected return, or FAILED; Lag-Llama's probability      *)
(* that the stop is touched first is high or not.                             *)

\* A factor in hundredths.
ScoreFactor(m) ==
  LET grade == IF cards[m] = None THEN "WARMUP" ELSE ReliabilityGrade(cards[m])
  IN  IF grade \in {"A", "B"} THEN 100 ELSE IF grade = "C" THEN 35 ELSE 0

Clip(n, bound) == IF n > bound THEN bound ELSE IF n < -bound THEN -bound ELSE n
Least(a, b) == IF a < b THEN a ELSE b

Agreement(o) ==
  IF ~{"timesfm", "chronos"} \subseteq Models THEN 0
  ELSE IF "FAILED" \in {o["timesfm"].direction, o["chronos"].direction} THEN 0
  ELSE IF o["timesfm"].direction # o["chronos"].direction THEN -200
  ELSE IF o["timesfm"].direction = "FLAT" THEN 0
  ELSE 6 * Least(ScoreFactor("timesfm"), ScoreFactor("chronos"))

\* The sum over the members that answered, each weighed by its record.
Returns(o) ==
  FoldFunctionOnSet(+, 0, [m \in Models |-> (Clip(o[m].return, 200) * ScoreFactor(m)) \div 100],
                    {m \in Models : o[m].direction # "FAILED"})

ScoreImpact(o, stop_first) ==
  Clip(Agreement(o) - (IF stop_first THEN 500 ELSE 0) + Returns(o), 1200)

-----------------------------------------------------------------------------
Idle == [at |-> "idle", seen |-> {}, todo |-> {}, changed |-> FALSE, tally |-> None]

Init ==
  /\ outcome = [i \in Forecasts |-> "NONE"]
  /\ priced = {}
  /\ cards = [m \in Models |-> None]
  /\ task = [a \in Actors |-> Idle]

Do(a, t) == task' = [task EXCEPT ![a] = t]

\* register: a forecast that is OK and has both prices; the others never are.
Register(i) ==
  /\ outcome[i] = "NONE"
  /\ i > 1 => outcome[i - 1] # "NONE"
  /\ outcome' = [outcome EXCEPT ![i] = "PENDING"]
  /\ UNCHANGED <<priced, cards, task>>

HorizonEnds(i) ==
  /\ outcome[i] = "PENDING"
  /\ i > 1 => outcome[i - 1] # "PENDING"
  /\ outcome' = [outcome EXCEPT ![i] = "DUE"]
  /\ UNCHANGED <<priced, cards, task>>

\* A symbol that was quoted once stays priced: the latest tick, or the stored
\* quote, is taken however old it is.
Quoted(s) ==
  /\ s \notin priced
  /\ priced' = priced \cup {s}
  /\ UNCHANGED <<outcome, cards, task>>

-----------------------------------------------------------------------------
(* Evaluation. *)

\* A mutant of DueOutcomes: the judged ones are still listed.
AllPastHorizon ==
  LET past == {i \in Forecasts : outcome[i] \in {"DUE"} \cup Judged}
  IN  {i \in past : Cardinality({j \in past : j <= i}) <= Limit}

\* due_outcomes: the first Limit that are due.
DueOutcomes ==
  LET due == {i \in Forecasts : outcome[i] = "DUE"}
  IN  {i \in due : Cardinality({j \in due : j <= i}) <= Limit}

\* The job reads what is due, to know which symbols it needs.
JobLists ==
  /\ task["job"].at = "idle"
  /\ Do("job", [Idle EXCEPT !.at = "observe", !.seen = {Of[i].symbol : i \in DueOutcomes}])
  /\ UNCHANGED <<outcome, priced, cards>>

JobObserves ==
  /\ task["job"].at = "observe"
  /\ Do("job", [task["job"] EXCEPT !.at = "list", !.seen = @ \cap priced])
  /\ UNCHANGED <<outcome, priced, cards>>

\* POST outcomes/evaluate-due brings its own prices.
RouteEvaluates(prices) ==
  /\ task["route"].at = "idle"
  /\ Do("route", [Idle EXCEPT !.at = "list", !.seen = prices])
  /\ UNCHANGED <<outcome, priced, cards>>

\* evaluate_due: what is due now, of the symbols that were priced.
ListDue(a) ==
  /\ task[a].at = "list"
  /\ Do(a, [task[a] EXCEPT !.at = "judge",
                           !.todo = {i \in DueOutcomes : Of[i].symbol \in task[a].seen}])
  /\ UNCHANGED <<outcome, priced, cards>>

Judge(a, i, verdict) ==
  /\ task[a].at = "judge"
  /\ i \in task[a].todo
  /\ outcome' = [outcome EXCEPT ![i] = verdict]
  /\ Do(a, [task[a] EXCEPT !.todo = @ \ {i}, !.changed = TRUE])
  /\ UNCHANGED <<priced, cards>>

\* The job rebuilds the scorecards if it judged anything, the route does not.
Judges(a) ==
  /\ task[a].at = "judge"
  /\ task[a].todo = {}
  /\ Do(a, IF a = "job" /\ task[a].changed THEN [Idle EXCEPT !.at = "read"] ELSE Idle)
  /\ UNCHANGED <<outcome, priced, cards>>

-----------------------------------------------------------------------------
(* rebuild_scorecards. *)

RouteRebuilds ==
  /\ task["route"].at = "idle"
  /\ Do("route", [Idle EXCEPT !.at = "read"])
  /\ UNCHANGED <<outcome, priced, cards>>

ReadJudged(a) ==
  /\ task[a].at = "read"
  /\ Do(a, [task[a] EXCEPT !.at = "replace", !.tally = [m \in Models |-> Tally(m)]])
  /\ UNCHANGED <<outcome, priced, cards>>

\* Delete all and insert, in one transaction; a model without samples has no card.
ReplaceScorecards(a) ==
  /\ task[a].at = "replace"
  /\ cards' = [m \in Models |-> IF Size(task[a].tally[m]) = 0 THEN None ELSE task[a].tally[m]]
  /\ Do(a, Idle)
  /\ UNCHANGED <<outcome, priced>>

-----------------------------------------------------------------------------
Step(a) ==
  \/ ListDue(a)
  \/ \E i \in Forecasts, verdict \in Judged : Judge(a, i, verdict)
  \/ Judges(a)
  \/ ReadJudged(a)
  \/ ReplaceScorecards(a)

Next ==
  \/ \E i \in Forecasts : Register(i)
  \/ \E i \in Forecasts : HorizonEnds(i)
  \/ \E s \in Symbols : Quoted(s)
  \/ JobLists
  \/ JobObserves
  \/ \E prices \in SUBSET Symbols : RouteEvaluates(prices)
  \/ RouteRebuilds
  \/ \E a \in Actors : Step(a)

\* The job comes round every fifteen minutes and ends what it started.
Fairness == WF_vars(JobLists \/ JobObserves \/ Step("job"))

Spec == Init /\ [][Next]_vars /\ Fairness

-----------------------------------------------------------------------------
(* Properties. *)

AccuracyTypeOK ==
  /\ outcome \in [Forecasts -> {"NONE", "PENDING", "DUE"} \cup Judged]
  /\ priced \subseteq Symbols
  /\ cards \in [Models -> [hit: Nat, miss: Nat] \cup {None}]

Opinions == {[direction |-> "UP", return |-> 150], [direction |-> "DOWN", return |-> -300],
             [direction |-> "FLAT", return |-> 0], [direction |-> "FAILED", return |-> 0]}

\* require_accuracy_history_before_score_boost: whatever the models say, they
\* lift a score only if one of those that answered has MinSamples judged
\* forecasts, more hits than misses among those its card counts.
BoostRestsOnRecord ==
  \A o \in [Models -> Opinions], stop_first \in BOOLEAN :
    ScoreImpact(o, stop_first) > 0 =>
      \E m \in Models : /\ o[m].direction # "FAILED"
                        /\ Size(Tally(m)) >= MinSamples
                        /\ cards[m].hit > cards[m].miss

\* Every forecast past its horizon is judged in the end, once its symbol is
\* quoted, unless outcomes of symbols that never are take up all of the rows
\* that one evaluation reads.
Unpriced == {i \in Forecasts : outcome[i] = "DUE" /\ Of[i].symbol \notin priced}
DueForecastsAreJudged ==
  \A i \in Forecasts : outcome[i] = "DUE" /\ Of[i].symbol \in priced
                   ~> outcome[i] \in Judged \/ Cardinality(Unpriced) >= Limit
=============================================================================
