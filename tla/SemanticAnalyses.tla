--------------------------- MODULE SemanticAnalyses ---------------------------
(***************************************************************************)
(* The analyses of the intelligence service (intelligence/service.py, its  *)
(* repository and routes): a request becomes scenarios, the scenarios what *)
(* is doubtful about them, an answer to a doubt a new analysis, and any    *)
(* analysis can be rolled back to, which saves its configuration as the    *)
(* setup again and then, after a wait, records that it did.                *)
(*                                                                         *)
(* A request is [form, body, symbol, key]: the body of a "text" is what    *)
(* the patterns find in it, that of a "payload" the configurations it      *)
(* gives.  Confidence scores and a caller's own ambiguities are left out:  *)
(* nothing is decided by them.                                             *)
(***************************************************************************)
EXTENDS SetupConfigs, FiniteSets, Functions

CONSTANTS
  Requests, Actors,
  Fixes,              \* field -> the values it is corrected to
  NewIds,             \* analysis number -> generated setup ids, one per scenario
  DefaultRisk, DefaultPosition,
  MaxAnalyses, MaxAnswers

\* A request gives configurations or what was found in a text.
IsRequest(r) ==
  \/ r.form = "payload" /\ r.body \in Seq(Range(r.body))
       /\ \A i \in DOMAIN r.body : IsConfig(r.body[i])
  \/ r.form = "text" /\ IsText(r.body)

\* A correction keeps the type of the field.
IsFix(path, value) == IsConfig([Empty EXCEPT ![path] = value])

VARIABLES
  analyses,   \* in the order of their rows
  answers,    \* the resolved ambiguities: [analysis, ambiguity, chosen, ref]
  saved,      \* the saved setups, at most one for each id
  rollbacks   \* actor -> its rollback between the save and the record

vars == <<analyses, answers, saved, rollbacks>>

Idle == [analysis |-> 0]

Init ==
  /\ analyses = <<>>
  /\ answers = {}
  /\ saved = {}
  /\ rollbacks = [p \in Actors |-> Idle]

-----------------------------------------------------------------------------
(* An analysis *)

Latest(S) == IF S = {} THEN 0 ELSE CHOOSE a \in S : \A other \in S : other <= a
WithKey(key) == {a \in DOMAIN analyses : key # "" /\ analyses[a].key = key}
WithInput(input) == {a \in DOMAIN analyses : analyses[a].input = input}
LatestOf(setup) == Latest({a \in DOMAIN analyses : analyses[a].setup = setup})

FromText(t, id) ==
  IF Converts(t) THEN Converted(t, id, DefaultRisk, DefaultPosition) ELSE Partial(t, id)

\* A text without a symbol gives nothing.
Raw(r) ==
  IF r.form = "payload" THEN r.body
  ELSE IF r.symbol = "" THEN <<>>
  ELSE <<FromText([r.body EXCEPT !.symbol = r.symbol], NewIds[Len(analyses) + 1][1])>>

Scenarios(r) ==
  [i \in DOMAIN Raw(r) |->
     LET raw == Raw(r)[i]
     IN Canonical([raw EXCEPT
          !.symbol = IF @ = "" THEN r.symbol ELSE @,
          !.setup_id = IF @ = "" THEN NewIds[Len(analyses) + 1][i] ELSE @])]

\* What the validation of a known type raises goes through to the caller.
Raises(scenarios) ==
  \E i \in DOMAIN scenarios : scenarios[i].setup_type \in Types /\ ValidateRaises(scenarios[i])
Persistable(scenarios) ==
  ~Raises(scenarios) /\ \E i \in DOMAIN scenarios : Saveable(scenarios[i])

\* save_analysis_bundle, with the previous analysis that is given or found.
Store(source, input, key, scenarios, given, forced) ==
  LET setup == scenarios[1].setup_id
      previous == IF given # 0 THEN given
                  ELSE IF LatestOf(setup) # 0 THEN LatestOf(setup)
                  ELSE IF forced THEN Latest(WithInput(input)) ELSE 0
  IN /\ Len(analyses) < MaxAnalyses
     /\ analyses' = Append(analyses,
          [source |-> source, input |-> input, key |-> key, setup |-> setup,
           scenarios |-> scenarios, previous |-> previous])

\* POST /api/intelligence/analyze.  A known key returns its analysis whatever
\* the request now says, and even when a new revision is asked for.
Analyze(r, forced) ==
  LET input == <<r.form, r.body, r.symbol>>
  IN /\ WithKey(r.key) = {}
     /\ forced \/ WithInput(input) = {}
     /\ Len(analyses) < MaxAnalyses
     /\ Persistable(Scenarios(r))
     /\ Store(r.form, input, r.key, Scenarios(r), 0, forced)
     /\ UNCHANGED <<answers, saved, rollbacks>>

\* The analysis of a configuration the service itself gives.
Derive(source, config, given) ==
  IF Persistable(<<config>>)
  THEN Store(source, <<"payload", <<config>>, "">>, "", <<config>>, given, TRUE)
  ELSE UNCHANGED analyses

-----------------------------------------------------------------------------
(* Ambiguities *)

Selection == [of |-> 0, path |-> "scenario_selection", code |-> "", level |-> "REVIEW"]
FieldDoubts(a) ==
  UNION {{[of |-> i, path |-> issue.path, code |-> issue.code, level |-> issue.level] :
            issue \in {x \in ArmIssues(analyses[a].scenarios[i]) : x.path # ""}} :
         i \in DOMAIN analyses[a].scenarios}
Ambiguities(a) ==
  FieldDoubts(a) \cup (IF Len(analyses[a].scenarios) > 1 THEN {Selection} ELSE {})

\* _selected_scenario_id_from_analysis.
Selected(a) ==
  LET chosen == {x \in answers : x.analysis = a /\ x.ambiguity = Selection /\ x.chosen # 0}
  IN IF chosen = {} THEN 1 ELSE (CHOOSE x \in chosen : TRUE).chosen

\* An ambiguity can be resolved again; the new answer replaces the old one.
Resolve(a, ambiguity, chosen, ref) ==
  /\ answers' = {x \in answers : x.analysis # a \/ x.ambiguity # ambiguity}
                  \cup {[analysis |-> a, ambiguity |-> ambiguity, chosen |-> chosen, ref |-> ref]}
  /\ Cardinality(answers') <= MaxAnswers
  /\ UNCHANGED <<saved, rollbacks>>

\* The scenario selection takes a scenario, or none.
SelectScenario(a) ==
  /\ Selection \in Ambiguities(a)
  /\ \E chosen \in {0} \cup DOMAIN analyses[a].scenarios : Resolve(a, Selection, chosen, 0)
  /\ UNCHANGED analyses

\* KEEP_DRAFT, ACCEPT_WARNING: noted, and nothing changes.
Acknowledge(a) ==
  /\ \E ambiguity \in FieldDoubts(a) : Resolve(a, ambiguity, 0, 0)
  /\ UNCHANGED analyses

\* _resolution_patch_for_field, on the canonical form of the stored scenario.
Patched(a, scenario, path, value) ==
  Canonical([analyses[a].scenarios[scenario] EXCEPT ![path] = value])

\* UPDATE_FIELD, REVIEW_FIELD: the answer may name another field than the
\* ambiguity.  It names the new analysis even when that is not stored, and
\* nothing happens when the correction makes validation raise.
UpdateField(a, path, value) ==
  \E ambiguity \in FieldDoubts(a) :
    LET config == Patched(a, ambiguity.of, path, value)
    IN /\ Len(analyses) < MaxAnalyses
       /\ ~Raises(<<config>>)
       /\ Derive("RESOLUTION", config, a)
       /\ Resolve(a, ambiguity, 0, Len(analyses) + 1)

-----------------------------------------------------------------------------
(* Saving *)

Save(config) == saved' = {c \in saved : c.setup_id # config.setup_id} \cup {config}

\* PUT and POST /api/setups: TradingEngine.save_setup.
SaveSetup(raw) ==
  /\ EngineAccepts(Canonical(raw))
  /\ Save(Canonical(raw))
  /\ UNCHANGED <<analyses, answers, rollbacks>>

\* _load_persisted_analysis validates the stored scenarios anew.
Ready(a) == {c \in Range(analyses[a].scenarios) : ~Raises(<<c>>) /\ Armable(c)}

\* prepare_rollback: the scenario asked for, else the selected one, under the
\* id of the setup (the analysis is of the setup of its first scenario).
ScenarioOf(a, requested) == IF requested # 0 THEN requested ELSE Selected(a)
Prepared(a, requested) ==
  [analyses[a].scenarios[ScenarioOf(a, requested)] EXCEPT !.setup_id = analyses[a].setup]

\* POST .../rollback up to the broadcast that save_setup waits for.
RollbackSaves(p, a, requested) ==
  LET config == Prepared(a, requested)
  IN /\ rollbacks[p] = Idle
     /\ EngineAccepts(Canonical(config))
     /\ Save(Canonical(config))
     /\ rollbacks' = [rollbacks EXCEPT ![p] =
          [analysis |-> a, requested |-> requested,
           scenario |-> ScenarioOf(a, requested), config |-> Canonical(config)]]
     /\ UNCHANGED <<analyses, answers>>

\* A mutant of RollbackRecords: the scenario asked for is not passed on.
RecordsSelection(p) ==
  LET task == rollbacks[p]
      setup == analyses[task.analysis].setup
  IN /\ task # Idle
     /\ Len(analyses) < MaxAnalyses
     /\ Derive("ROLLBACK", Canonical(Prepared(task.analysis, 0)), LatestOf(setup))
     /\ rollbacks' = [rollbacks EXCEPT ![p] = Idle]
     /\ UNCHANGED <<answers, saved>>

\* record_rollback prepares the rollback once more.
RollbackRecords(p) ==
  LET task == rollbacks[p]
      setup == analyses[task.analysis].setup
  IN /\ task # Idle
     /\ Len(analyses) < MaxAnalyses
     /\ Derive("ROLLBACK", Canonical(Prepared(task.analysis, task.requested)), LatestOf(setup))
     /\ rollbacks' = [rollbacks EXCEPT ![p] = Idle]
     /\ UNCHANGED <<answers, saved>>

Next ==
  \/ \E r \in Requests, forced \in BOOLEAN : Analyze(r, forced)
  \/ \E r \in Requests : \E i \in DOMAIN r.body : r.form = "payload" /\ SaveSetup(r.body[i])
  \/ \E a \in DOMAIN analyses :
       \/ SelectScenario(a)
       \/ Acknowledge(a)
       \/ \E path \in DOMAIN Fixes : \E value \in Fixes[path] : UpdateField(a, path, value)
       \/ \E p \in Actors : \E requested \in {0} \cup DOMAIN analyses[a].scenarios :
            RollbackSaves(p, a, requested)
  \/ \E p \in Actors : RollbackRecords(p)

Spec == Init /\ [][Next]_vars

-----------------------------------------------------------------------------
(* Properties *)

\* The record of a rollback is the newest analysis of the setup and shows the
\* configuration that this rollback saved before the wait, whatever was
\* answered, analysed or saved meanwhile, unless the rollback left the choice
\* to the selection and the selection has moved.
RollbackTellsWhatItSaved ==
  [][\A p \in Actors :
       LET task == rollbacks[p]
           newest == analyses'[Len(analyses')]
       IN (task # Idle /\ rollbacks'[p] = Idle) =>
            \/ task.requested = 0 /\ Selected(task.analysis) # task.scenario
            \/ /\ Len(analyses') > Len(analyses)
               /\ newest.setup = analyses[task.analysis].setup
               /\ newest.scenarios = <<task.config>>]_vars

\* What the analysis calls ready to arm, and what the engine has saved, the
\* engine arms (the three validate on their own): an entry that is switched on
\* has its stop below the worst price it may fill at, and a limit that the
\* trigger it gives can reach (a runner is entered at its own price).
SoundEntry(c) ==
  /\ EngineArms(c)
  /\ 0 < c.initial_stop /\ c.initial_stop < WorstCaseEntry(c)
  /\ c.setup_type \notin Runners /\ IsNumber(c.trigger_price) /\ Given(MaximumLimit(c)) =>
       MaximumLimit(c) >= c.trigger_price
ArmableEntriesAreSound ==
  \A c \in saved \cup UNION {Ready(a) : a \in DOMAIN analyses} :
    AllowsEntry(c) /\ c.enabled => SoundEntry(c)
=============================================================================
