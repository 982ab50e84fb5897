----------------------------- MODULE ForecastRuns -----------------------------
(***************************************************************************)
(* The runs of the forecast models for one symbol and one cached timeframe *)
(* (forecast_service.py, adapters.py, forecast_repository.py): the gates,  *)
(* the cache that is the latest stored row, the waits for the market       *)
(* history and for the model, the row that tells how it went, and the      *)
(* ensemble that runs one model after another.                             *)
(*                                                                         *)
(* The job refreshes the symbol's setup every fifteen minutes, a route runs*)
(* one model or all; both live on the event loop and interleave at their   *)
(* waits.  Paths and scores are left out; a row is what came of the run.   *)
(* The broker's connection and the health of the adapters are asked afresh *)
(* each time and are the environment's choice.  The ensemble's own row, OK,*)
(* PARTIAL or NO_MODEL_OUTPUT, is read by no call and left out.            *)
(***************************************************************************)
EXTENDS Integers, Sequences, FiniteSets

CONSTANTS
  Models,     \* default_models, in the order in which an ensemble runs them
  Default,    \* config.provider, one of them and no adapter; config.model is its rows' name
  Adapters,   \* those behind a worker or an optional package
  Restricted, \* use_for_runtime_forecast off: kept for the model lab
  Disabled,   \* neither enabled nor auto_enable_when_ready
  None

Names == {Models[i] : i \in DOMAIN Models}
Actors == {"job", "route"}

VARIABLES
  latest,    \* model -> its latest row of forecast_metrics
  ofSetup,   \* model -> its latest row that bears the setup's id
  task       \* actor -> its call

vars == <<latest, ofSetup, task>>

-----------------------------------------------------------------------------
\* "by": the model whose run the row tells of.
Row(status, by) == [status |-> status, by |-> by]
NoHistory == {"NO_MARKET_DATA", "INSUFFICIENT_DATA"}
Failed == NoHistory \cup {"MODEL_FAILED"}

Idle == [at |-> "idle", queue |-> <<>>, ensemble |-> FALSE, force |-> FALSE,
         cached_only |-> FALSE, setup |-> FALSE]

\* The gates that answer without a row: provider, then the adapter's health,
\* "down" being the adapters without worker or package.  TimesFM and the
\* baselines have no health check.
Refused(m, down) == m \in Restricted \cup Disabled \cup (Adapters \cap down)

\* _cached_forecast: the latest row, failed or not, however old.
Cached(m, setup) == IF setup THEN ofSetup[m] ELSE latest[m]

\* _runtime_forecast_models: what is ready; the baselines always are, and
\* TimesFM is where it is installed, as it is here.
Runtime(down) == SelectSeq(Models, LAMBDA m : ~Refused(m, down))

-----------------------------------------------------------------------------
Init ==
  /\ latest = [m \in Names |-> None]
  /\ ofSetup = [m \in Names |-> None]
  /\ task = [a \in Actors |-> Idle]

Do(a, t) == task' = [task EXCEPT ![a] = t]
Asked(models, ensemble, force, cached_only, setup) ==
  [Idle EXCEPT !.at = "gate", !.queue = models, !.ensemble = ensemble, !.force = force,
               !.cached_only = cached_only, !.setup = setup]

\* auto_recalculate_forecasts, with the broker connected: the setup's
\* ensemble, refreshed.
StartJob ==
  /\ task["job"].at = "idle"
  /\ \E down \in SUBSET Adapters : Do("job", Asked(Runtime(down), TRUE, TRUE, FALSE, TRUE))
  /\ UNCHANGED <<latest, ofSetup>>

\* POST /api/forecasting/run and run-for-setup, GET /api/forecast/{symbol}.
StartRoute(m, force, cached_only, setup) ==
  /\ task["route"].at = "idle"
  /\ Do("route", Asked(<<m>>, FALSE, force, cached_only, setup))
  /\ UNCHANGED <<latest, ofSetup>>

StartRouteEnsemble(force, setup) ==
  /\ task["route"].at = "idle"
  /\ \E down \in SUBSET Adapters :
       Do("route", Asked(Runtime(down), TRUE, force, FALSE, setup))
  /\ UNCHANGED <<latest, ofSetup>>

-----------------------------------------------------------------------------
\* An ensemble goes on to its next model.
Advance(a) ==
  Do(a, IF task[a].ensemble THEN [task[a] EXCEPT !.at = "gate", !.queue = Tail(@)] ELSE Idle)

\* insert_forecast.  A row bears the setup's id once its references were read,
\* asked for or not: they are those of the symbol's setup.
Persist(name, row, referenced) ==
  /\ latest' = [latest EXCEPT ![name] = row]
  /\ ofSetup' = IF referenced THEN [ofSetup EXCEPT ![name] = row] ELSE ofSetup

\* Up to the wait for the market history.
Gate(a) ==
  LET t == task[a]
      m == Head(t.queue)
      cached == Cached(m, t.setup)
  IN  /\ t.at = "gate"
      /\ t.queue # <<>>
      /\ \E down \in SUBSET Adapters :
           IF Refused(m, down) \/ t.cached_only \/ (cached # None /\ ~t.force)
           THEN Advance(a)
           ELSE Do(a, [t EXCEPT !.at = "history"])
      /\ UNCHANGED <<latest, ofSetup>>

\* A mutant of HistoryFails: the failure bears the setup's id.
HistoryFailsForSetup(a, status) ==
  /\ task[a].at = "history"
  /\ Persist(Default, Row(status, Head(task[a].queue)), TRUE)
  /\ Advance(a)

\* No history, from the broker or from the stored quotes, or too short a one.
\* The failure is stored under the default model's name, whose run it was not.
HistoryFails(a, status) ==
  /\ task[a].at = "history"
  /\ Persist(Default, Row(status, Head(task[a].queue)), FALSE)
  /\ Advance(a)

HistoryArrives(a) ==
  /\ task[a].at = "history"
  /\ Do(a, [task[a] EXCEPT !.at = "model"])
  /\ UNCHANGED <<latest, ofSetup>>

\* The model answers, or fails in a way the adapters translate.
ModelAnswers(a, status) ==
  LET m == Head(task[a].queue)
  IN  /\ task[a].at = "model"
      /\ Persist(m, Row(status, m), TRUE)
      /\ Advance(a)

\* An error that is neither "unavailable" nor "failed" ends the whole call.
ModelRaises(a) ==
  /\ task[a].at = "model"
  /\ Do(a, Idle)
  /\ UNCHANGED <<latest, ofSetup>>

\* The ensemble is stored under its own name, whatever came of its members.
StoreEnsemble(a) ==
  /\ task[a].at = "gate"
  /\ task[a].queue = <<>>
  /\ Do(a, Idle)
  /\ UNCHANGED <<latest, ofSetup>>

-----------------------------------------------------------------------------
Step(a) ==
  \/ Gate(a)
  \/ \E status \in NoHistory : HistoryFails(a, status)
  \/ HistoryArrives(a)
  \/ \E status \in {"OK", "MODEL_FAILED"} : ModelAnswers(a, status)
  \/ ModelRaises(a)
  \/ StoreEnsemble(a)

Next ==
  \/ StartJob
  \/ \E m \in Names, force, cached_only, setup \in BOOLEAN :
       StartRoute(m, force, cached_only, setup)
  \/ \E force, setup \in BOOLEAN : StartRouteEnsemble(force, setup)
  \/ \E a \in Actors : Step(a)

Spec == Init /\ [][Next]_vars

-----------------------------------------------------------------------------
(* Properties. *)

RunsTypeOK ==
  /\ {latest, ofSetup} \subseteq
       [Names -> [status: Failed \cup {"OK"}, by: Names] \cup {None}]
  /\ DOMAIN task = Actors

\* The row that a model's cache answers with tells of that model's own run,
\* but for the default model, which also answers for a market history that
\* failed another; a caller who names the setup is never told so.
RowsTellTheirModel ==
  \A m \in Names :
    /\ latest[m] # None /\ latest[m].by # m => m = Default /\ latest[m].status \in NoHistory
    /\ ofSetup[m] # None => ofSetup[m].by = m
=============================================================================
