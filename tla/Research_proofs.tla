--------------------------- MODULE Research_proofs ---------------------------
(***************************************************************************)
(* Machine-checked proofs about the research side, for any techniques,     *)
(* universes, forecast models and requests.  The parts share no row, so    *)
(* each has an inductive invariant of its own that the steps of the others *)
(* leave alone.  A lift of a score rests on a sum over the models, which   *)
(* Sums bounds term by term.                                               *)
(***************************************************************************)
EXTENDS MCResearch, Sums, SequenceTheorems, TLAPS

all == <<part, rth, learningVars, radarVars, runsVars, accuracyVars, intelligenceVars>>

-----------------------------------------------------------------------------
(* The rows of the forecast models: a step either leaves them alone or     *)
(* stores one row, which tells of the model it is named for or is the      *)
(* default's and tells that there was no history.                          *)

\* The rows are functions on the models; without that EXCEPT says nothing.
RowsOnNames ==
  /\ latest = [m \in Runs!Names |-> latest[m]]
  /\ ofSetup = [m \in Runs!Names |-> ofSetup[m]]

RowsIInv == RowsOnNames /\ Runs!RowsTellTheirModel

\* A row stored under the name of its model, or the default's row without a
\* history and without the setup's id, keeps the invariant.
LEMMA PersistKeepsRows ==
  ASSUME RowsIInv, NEW name, NEW status, NEW by, NEW referenced \in BOOLEAN,
         Runs!Persist(name, Runs!Row(status, by), referenced),
         by = name \/ (name = Default /\ status \in Runs!NoHistory /\ ~referenced)
  PROVE  RowsIInv'
<1> DEFINE kept == Runs!Row(status, by)
<1>1. /\ latest' = [latest EXCEPT ![name] = kept]
      /\ ofSetup' = IF referenced THEN [ofSetup EXCEPT ![name] = kept] ELSE ofSetup
  BY DEF Runs!Persist
<1>2. kept.status = status /\ kept.by = by
  BY DEF Runs!Row
<1> HIDE DEF kept
<1>3. RowsOnNames'
  BY <1>1 DEF RowsIInv, RowsOnNames
<1>4. ASSUME NEW m \in Runs!Names
      PROVE  latest'[m] # None /\ latest'[m].by # m =>
               m = Default /\ latest'[m].status \in Runs!NoHistory
  <2>1. CASE m = name
    <3>1. latest'[m] = kept
      BY <1>1, <2>1 DEF RowsIInv, RowsOnNames
    <3> QED BY <2>1, <3>1, <1>2
  <2>2. CASE m # name
    <3>1. latest'[m] = latest[m]
      BY <1>1, <2>2 DEF RowsIInv, RowsOnNames
    <3> QED BY <3>1 DEF RowsIInv, Runs!RowsTellTheirModel
  <2> QED BY <2>1, <2>2
<1>5. ASSUME NEW m \in Runs!Names, ofSetup'[m] # None
      PROVE  ofSetup'[m].by = m
  <2>1. CASE referenced /\ m = name
    <3>1. ofSetup'[m] = kept
      BY <1>1, <2>1 DEF RowsIInv, RowsOnNames
    <3> QED BY <2>1, <3>1, <1>2
  <2>2. CASE ~(referenced /\ m = name)
    <3>1. ofSetup'[m] = ofSetup[m]
      BY <1>1, <2>2 DEF RowsIInv, RowsOnNames
    <3> QED BY <3>1, <1>5 DEF RowsIInv, Runs!RowsTellTheirModel
  <2> QED BY <2>1, <2>2
<1> QED BY <1>3, <1>4, <1>5 DEF RowsIInv, Runs!RowsTellTheirModel

LEMMA InitRows == Runs!Init => RowsIInv
BY DEF Runs!Init, RowsIInv, RowsOnNames, Runs!RowsTellTheirModel

LEMMA NextRows == RowsIInv /\ (Runs!Next \/ UNCHANGED Runs!vars) => RowsIInv'
<1> SUFFICES ASSUME RowsIInv, Runs!Next \/ UNCHANGED Runs!vars PROVE RowsIInv'
  OBVIOUS
<1>1. ASSUME UNCHANGED <<latest, ofSetup>> PROVE RowsIInv'
  BY <1>1 DEF RowsIInv, RowsOnNames, Runs!RowsTellTheirModel
<1>2. ASSUME NEW a \in Runs!Actors, Runs!Step(a) PROVE RowsIInv'
  <2>1. CASE Runs!Gate(a) \/ Runs!HistoryArrives(a) \/ Runs!ModelRaises(a) \/ Runs!StoreEnsemble(a)
    BY <1>1, <2>1 DEF Runs!Gate, Runs!HistoryArrives, Runs!ModelRaises, Runs!StoreEnsemble
  <2>2. ASSUME NEW status \in Runs!NoHistory, Runs!HistoryFails(a, status) PROVE RowsIInv'
    BY <2>2, PersistKeepsRows DEF Runs!HistoryFails
  <2>3. ASSUME NEW status, Runs!ModelAnswers(a, status) PROVE RowsIInv'
    BY <2>3, PersistKeepsRows DEF Runs!ModelAnswers
  <2> QED BY <1>2, <2>1, <2>2, <2>3 DEF Runs!Step
<1>3. CASE Runs!StartJob
  BY <1>1, <1>3 DEF Runs!StartJob
<1>4. CASE \E m \in Runs!Names, force, cached_only, setup \in BOOLEAN :
             Runs!StartRoute(m, force, cached_only, setup)
  BY <1>1, <1>4 DEF Runs!StartRoute
<1>5. CASE \E force, setup \in BOOLEAN : Runs!StartRouteEnsemble(force, setup)
  BY <1>1, <1>5 DEF Runs!StartRouteEnsemble
<1>6. CASE UNCHANGED Runs!vars
  BY <1>1, <1>6 DEF Runs!vars
<1> QED BY <1>2, <1>3, <1>4, <1>5, <1>6 DEF Runs!Next

-----------------------------------------------------------------------------
(* The opportunities of a symbol.  Between its question and its insert a   *)
(* run stands at the technique it records; the invariant counts such a run *)
(* as an outcome already there.  What a sweep has listed is past its hour, *)
(* expired, or written by another since.                                   *)

Standing(a, t) == task[a].at = t

\* What EXCEPT needs to know of the variables.
IsTask(r) == r = [at |-> r.at, found |-> r.found, todo |-> r.todo, sweep |-> r.sweep]
IsRow(r) == r = [status |-> r.status, old |-> r.old]
Shapes ==
  /\ task = [a \in Radar!Actors |-> task[a]]
  /\ \A a \in Radar!Actors : IsTask(task[a])
  /\ outcomes \in [Radar!Techniques -> Nat]
  /\ opp = [id \in Ids |-> opp[id]]
  /\ \A id \in Ids : IsRow(opp[id])
  /\ touched = [a \in Radar!Actors |-> touched[a]]

\* Of two detections of a technique in one session, recorded or about to be,
\* one found the other absent.
Counted ==
  \A t \in Radar!Techniques :
    /\ outcomes[t] > 1 => t \in crossed
    /\ \A a \in Radar!Actors : Standing(a, t) =>
         /\ outcomes[t] > 0 => t \in crossed
         /\ \A o \in Radar!Actors : o # a /\ Standing(o, t) => t \in crossed

Spent(a, id) == opp[id].old \/ opp[id].status = "EXPIRED" \/ id \in touched[a]
Sweeps(a, id) == task[a].at = "expire" /\ id \in task[a].todo
SweptOnceStale == \A a \in Radar!Actors, id \in Ids : Sweeps(a, id) => Spent(a, id)

RadarIInv == Shapes /\ Counted /\ SweptOnceStale

-----------------------------------------------------------------------------
LEMMA AtSet ==
  ASSUME NEW s, IsTask(s), NEW at, NEW r, r = [s EXCEPT !.at = at]
  PROVE  IsTask(r) /\ r.at = at /\ r.todo = s.todo /\ r.sweep = s.sweep /\ r.found = s.found
BY SMT DEF IsTask

LEMMA TodoSet ==
  ASSUME NEW s, IsTask(s), NEW todo, NEW r, r = [s EXCEPT !.todo = todo]
  PROVE  IsTask(r) /\ r.at = s.at /\ r.todo = todo /\ r.sweep = s.sweep /\ r.found = s.found
BY SMT DEF IsTask

LEMMA FoundSet ==
  ASSUME NEW s, IsTask(s), NEW found, NEW r, r = [s EXCEPT !.found = found]
  PROVE  IsTask(r) /\ r.at = s.at
BY SMT DEF IsTask

LEMMA OldSet ==
  ASSUME NEW s, IsRow(s), NEW old, NEW r, r = [s EXCEPT !.old = old]
  PROVE  IsRow(r) /\ r.status = s.status /\ r.old = old
BY SMT DEF IsRow

LEMMA IdleIsTask == IsTask(Radar!Idle) /\ Radar!Idle.at = "idle"
BY SMT DEF IsTask, Radar!Idle

LEMMA ThenIsTask ==
  ASSUME NEW r
  PROVE  IsTask(Radar!Then(r)) /\ Radar!Then(r).at \in {"idle", "list"}
<1>1. CASE r.sweep
  BY <1>1, IdleIsTask, AtSet DEF Radar!Then
<1>2. CASE ~r.sweep
  BY <1>2, IdleIsTask DEF Radar!Then
<1> QED BY <1>1, <1>2

\* One run moves.
LEMMA Moves ==
  ASSUME Shapes, NEW a \in Radar!Actors, NEW r, IsTask(r), Radar!Do(a, r)
  PROVE  /\ task' = [o \in Radar!Actors |-> task'[o]]
         /\ \A o \in Radar!Actors : IsTask(task'[o])
         /\ \A o \in Radar!Actors : task'[o] = IF o = a THEN r ELSE task[o]
<1>1. \A o \in Radar!Actors : task'[o] = IF o = a THEN r ELSE task[o]
  BY DEF Shapes, Radar!Do
<1>2. task' = [o \in Radar!Actors |-> task'[o]]
  BY DEF Shapes, Radar!Do
<1> QED BY <1>1, <1>2 DEF Shapes

\* A row is written: of the rows a sweep has listed, another's too, none is
\* forgotten.
LEMMA Writes ==
  ASSUME Shapes, NEW a, NEW id, NEW status, Radar!Write(a, id, status)
  PROVE  /\ opp' = [i \in Ids |-> opp'[i]] /\ \A i \in Ids : IsRow(opp'[i])
         /\ touched' = [o \in Radar!Actors |-> touched'[o]]
         /\ \A i \in Ids : /\ opp'[i].old = opp[i].old
                           /\ opp'[i].status = IF i = id THEN status ELSE opp[i].status
         /\ \A o \in Radar!Actors, i \in Ids :
              i \in touched[o] \/ (i = id /\ o # a /\ task[o].at = "expire") => i \in touched'[o]
<1>1. /\ opp' = [opp EXCEPT ![id].status = status]
      /\ touched' = [o \in Radar!Actors |-> IF o # a /\ task[o].at = "expire"
                                            THEN touched[o] \cup {id} ELSE touched[o]]
  BY DEF Radar!Write
<1>2. opp' = [i \in Ids |-> opp'[i]]
  BY <1>1 DEF Shapes
<1>3. ASSUME NEW i \in Ids
      PROVE  /\ IsRow(opp'[i]) /\ opp'[i].old = opp[i].old
             /\ opp'[i].status = IF i = id THEN status ELSE opp[i].status
  <2>1. IsRow(opp[i])
    BY DEF Shapes
  <2>2. CASE i = id
    <3>1. opp'[i] = [opp[i] EXCEPT !.status = status]
      BY <1>1, <2>2 DEF Shapes
    <3> QED BY <2>1, <2>2, <3>1, SMT DEF IsRow
  <2>3. CASE i # id
    <3>1. opp'[i] = opp[i]
      BY <1>1, <2>3 DEF Shapes
    <3> QED BY <2>1, <2>3, <3>1
  <2> QED BY <2>2, <2>3
<1>4. touched' = [o \in Radar!Actors |-> touched'[o]]
  BY <1>1
<1>5. ASSUME NEW o \in Radar!Actors, NEW i \in Ids,
             i \in touched[o] \/ (i = id /\ o # a /\ task[o].at = "expire")
      PROVE  i \in touched'[o]
  BY <1>1, <1>5
<1> QED BY <1>2, <1>3, <1>4, <1>5

\* A run that moves, neither to a technique nor to a list of stale rows.
LEMMA MovesElsewhere ==
  ASSUME RadarIInv, NEW a \in Radar!Actors, NEW r, IsTask(r), Radar!Do(a, r),
         r.at \notin Radar!Techniques, r.at # "expire",
         UNCHANGED <<outcomes, crossed, opp, touched>>
  PROVE  RadarIInv'
<1>1. /\ task' = [o \in Radar!Actors |-> task'[o]]
      /\ \A o \in Radar!Actors : IsTask(task'[o])
      /\ \A o \in Radar!Actors : task'[o] = IF o = a THEN r ELSE task[o]
  BY Moves DEF RadarIInv
<1>2. Shapes'
  BY <1>1 DEF RadarIInv, Shapes
<1>3. \A o \in Radar!Actors, t \in Radar!Techniques : Standing(o, t)' => Standing(o, t)
  BY <1>1 DEF Standing
<1>4. Counted'
  BY <1>3 DEF RadarIInv, Counted
<1>5. \A o \in Radar!Actors, id \in Ids : Sweeps(o, id)' => Sweeps(o, id)
  BY <1>1 DEF Sweeps
<1>6. SweptOnceStale'
  BY <1>5 DEF RadarIInv, SweptOnceStale, Spent
<1> QED BY <1>2, <1>4, <1>6 DEF RadarIInv

\* A run that writes a row and moves.
LEMMA MovesWriting ==
  ASSUME RadarIInv, NEW a \in Radar!Actors, NEW r, IsTask(r), Radar!Do(a, r),
         r.at \notin Radar!Techniques, NEW id, NEW status, Radar!Write(a, id, status),
         UNCHANGED <<outcomes, crossed>>,
         r.at = "expire" => /\ task[a].at = "expire" /\ status = "EXPIRED"
                            /\ r.todo \subseteq task[a].todo
  PROVE  RadarIInv'
<1>1. /\ task' = [o \in Radar!Actors |-> task'[o]]
      /\ \A o \in Radar!Actors : IsTask(task'[o])
      /\ \A o \in Radar!Actors : task'[o] = IF o = a THEN r ELSE task[o]
  BY Moves DEF RadarIInv
<1>2. /\ opp' = [i \in Ids |-> opp'[i]] /\ \A i \in Ids : IsRow(opp'[i])
      /\ touched' = [o \in Radar!Actors |-> touched'[o]]
      /\ \A i \in Ids : /\ opp'[i].old = opp[i].old
                        /\ opp'[i].status = IF i = id THEN status ELSE opp[i].status
      /\ \A o \in Radar!Actors, i \in Ids :
           i \in touched[o] \/ (i = id /\ o # a /\ task[o].at = "expire") => i \in touched'[o]
  BY Writes DEF RadarIInv
<1>3. Shapes'
  BY <1>1, <1>2 DEF RadarIInv, Shapes
<1>4. \A o \in Radar!Actors, t \in Radar!Techniques : Standing(o, t)' => Standing(o, t)
  BY <1>1 DEF Standing
<1>5. Counted'
  BY <1>4 DEF RadarIInv, Counted
<1>6. ASSUME NEW o \in Radar!Actors, NEW i \in Ids, Sweeps(o, i)'
      PROVE  Spent(o, i)'
  <2>1. Sweeps(o, i)
    BY <1>1, <1>6 DEF Sweeps
  <2>2. Spent(o, i)
    BY <2>1 DEF RadarIInv, SweptOnceStale
  <2>3. CASE i # id
    BY <1>2, <2>2, <2>3 DEF Spent
  <2>4. CASE i = id /\ o # a
    BY <1>2, <2>1, <2>4 DEF Spent, Sweeps
  <2>5. CASE i = id /\ o = a
    BY <1>1, <1>2, <1>6, <2>5 DEF Spent, Sweeps
  <2> QED BY <2>3, <2>4, <2>5
<1> QED BY <1>3, <1>5, <1>6 DEF RadarIInv, SweptOnceStale

-----------------------------------------------------------------------------
LEMMA InitRadar == Radar!Init => RadarIInv
<1> SUFFICES ASSUME Radar!Init PROVE RadarIInv
  OBVIOUS
<1>1. Shapes
  BY IdleIsTask, SMT DEF Radar!Init, Shapes, IsRow, Radar!Absent
<1>2. \A a \in Radar!Actors : task[a].at = "idle"
  BY IdleIsTask DEF Radar!Init
<1>3. \A t \in Radar!Techniques, a \in Radar!Actors : ~Standing(a, t)
  BY <1>2, StagesAssumption DEF Standing, Radar!Techniques
<1>4. Counted
  BY <1>3 DEF Radar!Init, Counted
<1>5. SweptOnceStale
  BY <1>2 DEF SweptOnceStale, Sweeps
<1> QED BY <1>1, <1>4, <1>5 DEF RadarIInv

LEMMA RadarStutters == RadarIInv /\ UNCHANGED <<outcomes, crossed, task, opp, touched>> => RadarIInv'
BY DEF RadarIInv, Shapes, Counted, SweptOnceStale, Standing, Spent, Sweeps

LEMMA NextRadar == RadarIInv /\ (Radar!Next \/ UNCHANGED Radar!vars) => RadarIInv'
<1> SUFFICES ASSUME RadarIInv, Radar!Next \/ UNCHANGED Radar!vars PROVE RadarIInv'
  OBVIOUS
<1>0. Radar!Techniques \cap {"idle", "record", "list", "expire"} = {}
  BY StagesAssumption DEF Radar!Techniques
<1>1. \A a \in Radar!Actors : IsTask(task[a])
  BY DEF RadarIInv, Shapes
<1>2. ASSUME NEW a \in Radar!Actors, NEW t \in Radar!Techniques, Radar!CheckPending(a, t)
      PROVE  RadarIInv'
  <2>1. /\ task[a].at = "record" /\ outcomes[t] \in Nat /\ IsTask(task[a])
        /\ UNCHANGED <<outcomes, opp, touched>>
    BY <1>1, <1>2 DEF Radar!CheckPending, RadarIInv, Shapes
  <2>2. CASE outcomes[t] > 0
    <3>1. PICK r : r = [task[a] EXCEPT !.todo = task[a].todo \ {t}]
      OBVIOUS
    <3>2. Radar!Do(a, r) /\ crossed' = crossed
      BY <1>2, <2>1, <2>2, <3>1 DEF Radar!CheckPending
    <3>3. IsTask(r) /\ r.at = "record"
      BY <2>1, <3>1, TodoSet
    <3> QED BY <1>0, <2>1, <3>2, <3>3, MovesElsewhere
  <2>3. CASE ~(outcomes[t] > 0)
    <3>1. PICK r : r = [task[a] EXCEPT !.at = t]
      OBVIOUS
    <3>2. outcomes[t] = 0
      BY <2>1, <2>3
    <3>3. /\ Radar!Do(a, r)
          /\ crossed' = IF \E o \in Radar!Actors : o # a /\ Standing(o, t)
                        THEN crossed \cup {t} ELSE crossed
      BY <1>2, <2>3, <3>1, <3>2 DEF Radar!CheckPending, Standing
    <3>4. IsTask(r) /\ r.at = t
      BY <2>1, <3>1, AtSet
    <3>5. /\ task' = [o \in Radar!Actors |-> task'[o]]
          /\ \A o \in Radar!Actors : IsTask(task'[o])
          /\ \A o \in Radar!Actors : task'[o] = IF o = a THEN r ELSE task[o]
      BY <3>3, <3>4, Moves DEF RadarIInv
    <3>6. Shapes'
      BY <2>1, <3>5 DEF RadarIInv, Shapes
    <3>7. \A o \in Radar!Actors : \A s : Standing(o, s)' <=> IF o = a THEN s = t ELSE Standing(o, s)
      BY <3>4, <3>5 DEF Standing
    <3>8. Counted'
      BY <2>1, <3>2, <3>3, <3>7 DEF RadarIInv, Counted
    <3>9. \A o \in Radar!Actors, id \in Ids : Sweeps(o, id)' => Sweeps(o, id)
      BY <1>0, <3>4, <3>5 DEF Sweeps
    <3> QED BY <2>1, <3>6, <3>8, <3>9 DEF RadarIInv, SweptOnceStale, Spent
  <2> QED BY <2>2, <2>3
<1>3. ASSUME NEW a \in Radar!Actors, NEW t \in Radar!Techniques, Radar!CreateOutcome(a, t)
      PROVE  RadarIInv'
  <2>0. PICK q : q = [task[a] EXCEPT !.at = "record"]
    OBVIOUS
  <2>1. PICK r : r = [q EXCEPT !.todo = task[a].todo \ {t}]
    OBVIOUS
  <2>2. /\ Radar!Do(a, r) /\ Standing(a, t) /\ UNCHANGED <<crossed, opp, touched>>
        /\ outcomes' = [outcomes EXCEPT ![t] = @ + 1]
    BY <1>3, <2>0, <2>1 DEF Radar!CreateOutcome, Standing
  <2>3. IsTask(r) /\ r.at = "record"
    <3>1. IsTask(task[a])
      BY <1>1
    <3>2. IsTask(q) /\ q.at = "record"
      BY <2>0, <3>1, AtSet
    <3> QED BY <2>1, <3>2, TodoSet
  <2>4. outcomes' \in [Radar!Techniques -> Nat] /\ outcomes[t] \in Nat
    BY <2>2 DEF RadarIInv, Shapes
  <2>5. \A s \in Radar!Techniques : outcomes'[s] = IF s = t THEN outcomes[t] + 1 ELSE outcomes[s]
    BY <2>2 DEF RadarIInv, Shapes
  <2>6. /\ task' = [o \in Radar!Actors |-> task'[o]]
        /\ \A o \in Radar!Actors : IsTask(task'[o])
        /\ \A o \in Radar!Actors : task'[o] = IF o = a THEN r ELSE task[o]
    BY <2>2, <2>3, Moves DEF RadarIInv
  <2>7. Shapes'
    BY <2>2, <2>4, <2>6 DEF RadarIInv, Shapes
  <2>8. \A o \in Radar!Actors, s \in Radar!Techniques : Standing(o, s)' => o # a /\ Standing(o, s)
    BY <1>0, <2>3, <2>6 DEF Standing
  <2>9. Counted'
    BY <2>2, <2>4, <2>5, <2>8 DEF RadarIInv, Counted
  <2>10. \A o \in Radar!Actors, id \in Ids : Sweeps(o, id)' => Sweeps(o, id)
    BY <2>3, <2>6 DEF Sweeps
  <2> QED BY <2>2, <2>7, <2>9, <2>10 DEF RadarIInv, SweptOnceStale, Spent
<1>4. CASE Radar!Open
  <2>1. \A a \in Radar!Actors, t \in Radar!Techniques : ~Standing(a, t)'
    BY <1>0, <1>4 DEF Radar!Open, Standing
  <2>2. Shapes' /\ SweptOnceStale'
    BY <1>4 DEF Radar!Open, RadarIInv, Shapes, SweptOnceStale, Sweeps, Spent
  <2>3. Counted'
    BY <1>4, <2>1 DEF Radar!Open, Counted
  <2> QED BY <2>2, <2>3 DEF RadarIInv
<1>5. ASSUME NEW a \in Radar!Actors, Radar!UpsertFound(a) PROVE RadarIInv'
  <2>1. /\ Radar!Do(a, Radar!Then(task[a])) /\ UNCHANGED <<outcomes, crossed>>
        /\ Radar!Write(a, task[a].found.id, task[a].found.status)
    BY <1>5 DEF Radar!UpsertFound
  <2>2. IsTask(Radar!Then(task[a])) /\ Radar!Then(task[a]).at \in {"idle", "list"}
    BY ThenIsTask
  <2> QED BY <1>0, <2>1, <2>2, MovesWriting
<1>6. ASSUME NEW a \in Radar!Actors, Radar!ListStale(a) PROVE RadarIInv'
  <2>1. PICK stale : stale = {id \in Ids : Radar!IsExpired(id)}
    OBVIOUS
  <2>0. PICK q : q = [task[a] EXCEPT !.at = "expire"]
    OBVIOUS
  <2>2. PICK r : r = [q EXCEPT !.todo = stale]
    OBVIOUS
  <2>3. Radar!Do(a, r) /\ UNCHANGED <<outcomes, crossed, opp, touched>>
    BY <1>6, <2>0, <2>1, <2>2 DEF Radar!ListStale
  <2>4. IsTask(r) /\ r.at = "expire" /\ r.todo = stale
    <3>1. IsTask(task[a])
      BY <1>1
    <3>2. IsTask(q) /\ q.at = "expire"
      BY <2>0, <3>1, AtSet
    <3> QED BY <2>2, <3>2, TodoSet
  <2>5. /\ task' = [o \in Radar!Actors |-> task'[o]]
        /\ \A o \in Radar!Actors : IsTask(task'[o])
        /\ \A o \in Radar!Actors : task'[o] = IF o = a THEN r ELSE task[o]
    BY <2>3, <2>4, Moves DEF RadarIInv
  <2>6. Shapes'
    BY <2>3, <2>5 DEF RadarIInv, Shapes
  <2>7. \A o \in Radar!Actors, t \in Radar!Techniques : Standing(o, t)' => Standing(o, t)
    BY <1>0, <2>4, <2>5 DEF Standing
  <2>8. Counted'
    BY <2>3, <2>7 DEF RadarIInv, Counted
  <2>9. ASSUME NEW o \in Radar!Actors, NEW id \in Ids, Sweeps(o, id)' PROVE Spent(o, id)'
    <3>1. CASE o = a
      BY <2>1, <2>3, <2>4, <2>5, <2>9, <3>1 DEF Sweeps, Spent, Radar!IsExpired
    <3>2. CASE o # a
      BY <2>3, <2>5, <2>9, <3>2 DEF RadarIInv, SweptOnceStale, Sweeps, Spent
    <3> QED BY <3>1, <3>2
  <2> QED BY <2>6, <2>8, <2>9 DEF RadarIInv, SweptOnceStale
<1>7. ASSUME NEW a \in Radar!Actors, NEW id \in Ids, Radar!Expire(a, id) PROVE RadarIInv'
  <2>1. PICK r : r = [task[a] EXCEPT !.todo = task[a].todo \ {id}]
    OBVIOUS
  <2>2. /\ Radar!Do(a, r) /\ UNCHANGED <<outcomes, crossed>> /\ task[a].at = "expire"
        /\ Radar!Write(a, id, "EXPIRED")
    BY <1>7, <2>1 DEF Radar!Expire
  <2>3. IsTask(r) /\ r.at = "expire" /\ r.todo \subseteq task[a].todo
    BY <1>1, <2>1, <2>2, TodoSet
  <2> QED BY <1>0, <2>2, <2>3, MovesWriting
<1>8. ASSUME NEW a \in Radar!Actors, Radar!FinishSweep(a) PROVE RadarIInv'
  <2>1. /\ Radar!Do(a, Radar!Idle) /\ UNCHANGED <<outcomes, crossed, opp>>
        /\ touched' = [touched EXCEPT ![a] = {}]
    BY <1>8 DEF Radar!FinishSweep
  <2>2. /\ task' = [o \in Radar!Actors |-> task'[o]]
        /\ \A o \in Radar!Actors : IsTask(task'[o])
        /\ \A o \in Radar!Actors : task'[o] = IF o = a THEN Radar!Idle ELSE task[o]
    BY <2>1, IdleIsTask, Moves DEF RadarIInv
  <2>3. touched' = [o \in Radar!Actors |-> touched'[o]]
    BY <2>1 DEF RadarIInv, Shapes
  <2>4. \A o \in Radar!Actors : o # a => touched'[o] = touched[o]
    BY <2>1 DEF RadarIInv, Shapes
  <2>5. Shapes'
    BY <2>1, <2>2, <2>3 DEF RadarIInv, Shapes
  <2>6. \A o \in Radar!Actors, t \in Radar!Techniques : Standing(o, t)' => Standing(o, t)
    BY <1>0, <2>2, IdleIsTask DEF Standing
  <2>7. Counted'
    BY <2>1, <2>6 DEF RadarIInv, Counted
  <2>8. \A o \in Radar!Actors, id \in Ids : Sweeps(o, id)' => o # a /\ Sweeps(o, id)
    BY <2>2, IdleIsTask DEF Sweeps
  <2>9. SweptOnceStale'
    BY <2>1, <2>4, <2>8 DEF RadarIInv, SweptOnceStale, Spent
  <2> QED BY <2>5, <2>7, <2>9 DEF RadarIInv
<1>9. ASSUME NEW a \in Radar!Actors, NEW sweep \in BOOLEAN, Radar!StartScan(a, sweep)
      PROVE  RadarIInv'
  <2>1. UNCHANGED <<outcomes, crossed, opp, touched>>
    BY <1>9 DEF Radar!StartScan
  <2>2. PICK t : t = [Radar!Idle EXCEPT !.sweep = sweep]
    OBVIOUS
  <2>3. IsTask(t)
    BY <2>2, SMT DEF IsTask, Radar!Idle
  <2>4. CASE paused \/ ~ScannerEnabled
    <3>1. Radar!Do(a, Radar!Then(t))
      BY <1>9, <2>2, <2>4 DEF Radar!StartScan
    <3>2. IsTask(Radar!Then(t)) /\ Radar!Then(t).at \in {"idle", "list"}
      BY ThenIsTask
    <3> QED BY <1>0, <2>1, <3>1, <3>2, MovesElsewhere
  <2>5. CASE ~(paused \/ ~ScannerEnabled)
    <3>1. PICK f, todo : Radar!Do(a, [t EXCEPT !.at = "record", !.found = f, !.todo = todo])
      BY <1>9, <2>2, <2>5 DEF Radar!StartScan
    <3>2. PICK p : p = [t EXCEPT !.at = "record"]
      OBVIOUS
    <3>3. PICK q : q = [p EXCEPT !.found = f]
      OBVIOUS
    <3>4. PICK r : r = [q EXCEPT !.todo = todo]
      OBVIOUS
    <3>5. Radar!Do(a, r)
      BY <3>1, <3>2, <3>3, <3>4
    <3>6. IsTask(p) /\ p.at = "record"
      BY <2>3, <3>2, AtSet
    <3>7. IsTask(q) /\ q.at = "record"
      BY <3>3, <3>6, FoundSet
    <3>8. IsTask(r) /\ r.at = "record"
      BY <3>4, <3>7, TodoSet
    <3> QED BY <1>0, <2>1, <3>5, <3>8, MovesElsewhere
  <2> QED BY <2>4, <2>5
<1>10. CASE Radar!StartSweep
  <2>1. PICK r : r = [Radar!Idle EXCEPT !.at = "list"]
    OBVIOUS
  <2>2. Radar!Do("route", r) /\ UNCHANGED <<outcomes, crossed, opp, touched>>
    BY <1>10, <2>1 DEF Radar!StartSweep
  <2>3. IsTask(r) /\ r.at = "list"
    BY <2>1, IdleIsTask, AtSet
  <2>4. "route" \in Radar!Actors
    BY DEF Radar!Actors
  <2> QED BY <1>0, <2>2, <2>3, <2>4, MovesElsewhere
<1>11. ASSUME NEW id \in Ids, NEW s, Radar!Mark(id, s) PROVE RadarIInv'
  <2>1. Radar!Write("operator", id, s) /\ UNCHANGED <<outcomes, crossed, task>>
    BY <1>11 DEF Radar!Mark
  <2>2. /\ opp' = [i \in Ids |-> opp'[i]] /\ \A i \in Ids : IsRow(opp'[i])
        /\ touched' = [o \in Radar!Actors |-> touched'[o]]
        /\ \A i \in Ids : /\ opp'[i].old = opp[i].old
                          /\ opp'[i].status = IF i = id THEN s ELSE opp[i].status
        /\ \A o \in Radar!Actors, i \in Ids :
             i \in touched[o] \/ (i = id /\ o # "operator" /\ task[o].at = "expire")
               => i \in touched'[o]
    BY <2>1, Writes DEF RadarIInv
  <2>3. Shapes' /\ Counted'
    BY <2>1, <2>2 DEF RadarIInv, Shapes, Counted, Standing
  <2>4. "operator" \notin Radar!Actors
    BY DEF Radar!Actors
  <2>5. ASSUME NEW o \in Radar!Actors, NEW i \in Ids, Sweeps(o, i)' PROVE Spent(o, i)'
    BY <2>1, <2>2, <2>4, <2>5 DEF RadarIInv, SweptOnceStale, Sweeps, Spent
  <2> QED BY <2>3, <2>5 DEF RadarIInv, SweptOnceStale
<1>12. ASSUME NEW id \in Ids, Radar!Age(id) PROVE RadarIInv'
  <2>1. opp' = [opp EXCEPT ![id].old = TRUE] /\ UNCHANGED <<outcomes, crossed, task, touched>>
    BY <1>12 DEF Radar!Age
  <2>2. opp' = [i \in Ids |-> opp'[i]]
    BY <2>1 DEF RadarIInv, Shapes
  <2>3. ASSUME NEW i \in Ids
        PROVE  /\ IsRow(opp'[i]) /\ opp'[i].status = opp[i].status
               /\ opp[i].old => opp'[i].old
    <3>1. IsRow(opp[i])
      BY DEF RadarIInv, Shapes
    <3>2. CASE i = id
      <4>1. opp'[i] = [opp[i] EXCEPT !.old = TRUE]
        BY <2>1, <3>2 DEF RadarIInv, Shapes
      <4>2. IsRow(opp'[i]) /\ opp'[i].status = opp[i].status /\ opp'[i].old = TRUE
        BY <3>1, <4>1, OldSet
      <4> QED BY <3>2, <4>2
    <3>3. CASE i # id
      <4>1. opp'[i] = opp[i]
        BY <2>1, <3>3 DEF RadarIInv, Shapes
      <4> QED BY <3>1, <3>3, <4>1
    <3> QED BY <3>2, <3>3
  <2>4. Shapes' /\ Counted'
    BY <2>1, <2>2, <2>3 DEF RadarIInv, Shapes, Counted, Standing
  <2>5. ASSUME NEW o \in Radar!Actors, NEW i \in Ids, Sweeps(o, i)' PROVE Spent(o, i)'
    BY <2>1, <2>3, <2>5 DEF RadarIInv, SweptOnceStale, Sweeps, Spent
  <2> QED BY <2>4, <2>5 DEF RadarIInv, SweptOnceStale
<1>13. CASE (\E p \in BOOLEAN : Radar!Pause(p)) \/ Radar!Close \/ UNCHANGED Radar!vars
  BY <1>13, RadarStutters DEF Radar!Pause, Radar!Close, Radar!vars
<1> QED
  BY <1>2, <1>3, <1>4, <1>5, <1>6, <1>7, <1>8, <1>9, <1>10, <1>11, <1>12, <1>13
  DEF Radar!Next, Radar!Run

\* A sweep expires what it has listed.
LEMMA NextExpires ==
  ASSUME RadarIInv, Radar!Next, NEW a \in Radar!Actors, NEW id \in Ids,
         task[a].at = "expire", task'[a] # task[a],
         opp[id].status # "EXPIRED", opp'[id].status = "EXPIRED"
  PROVE  opp[id].old \/ id \in touched[a]
<1>1. ~UNCHANGED task /\ ~UNCHANGED opp
  OBVIOUS
<1>2. PICK o \in Radar!Actors : Radar!Run(o) \/ \E sweep \in BOOLEAN : Radar!StartScan(o, sweep)
  BY <1>1 DEF Radar!Next, Radar!StartSweep, Radar!Mark, Radar!Pause, Radar!Age, Radar!Open, Radar!Close
<1>3. CASE Radar!UpsertFound(o)
  <2>1. task[o].at = "record" /\ Radar!Do(o, Radar!Then(task[o]))
    BY <1>3 DEF Radar!UpsertFound
  <2>2. \A c \in Radar!Actors : c # o => task'[c] = task[c]
    BY <2>1 DEF Radar!Do, RadarIInv, Shapes
  <2> QED BY <2>1, <2>2
<1>4. ASSUME NEW i \in Ids, Radar!Expire(o, i) PROVE opp[id].old \/ id \in touched[a]
  <2>1. /\ i \in task[o].todo /\ Radar!Write(o, i, "EXPIRED")
        /\ Radar!Do(o, [task[o] EXCEPT !.todo = @ \ {i}])
    BY <1>4 DEF Radar!Expire
  <2>2. o = a
    BY <2>1 DEF Radar!Do, RadarIInv, Shapes
  <2>3. \A c \in Ids : opp'[c].status = IF c = i THEN "EXPIRED" ELSE opp[c].status
    BY <2>1, Writes DEF RadarIInv
  <2>4. i = id
    BY <2>3
  <2> QED BY <2>1, <2>2, <2>4 DEF RadarIInv, SweptOnceStale, Sweeps, Spent
<1> QED BY <1>1, <1>2, <1>3, <1>4 DEF Radar!Run, Radar!CheckPending, Radar!CreateOutcome,
           Radar!ListStale, Radar!FinishSweep, Radar!StartScan

-----------------------------------------------------------------------------
(* The composition: a step of one part leaves the rows of the others alone. *)

LEMMA ResearchSteps ==
  ASSUME ResearchNext \/ UNCHANGED all
  PROVE  /\ Runs!Next \/ UNCHANGED Runs!vars
         /\ Radar!Next \/ UNCHANGED <<outcomes, crossed, task, opp, touched>>
BY DEF ResearchNext, all, In, InLearning, InRadar, InRuns, InAccuracy, InIntelligence,
       radarVars, runsVars, Runs!vars

\* Whatever the calls, the failures and the adapters that are down, a model's
\* row tells of that model's own run or of a history the default was blamed
\* for, and the rows of a setup are never another model's
\* (forecast_service.py's _cached_forecast and _persist).
THEOREM RowsAlwaysTellTheirModel == ResearchSpec => []RowsTellTheirModel
<1>1. ResearchInit => RowsIInv
  BY InitRows DEF ResearchInit
<1>2. RowsIInv /\ [ResearchNext]_all => RowsIInv'
  BY NextRows, ResearchSteps
<1>3. RowsIInv => RowsTellTheirModel
  BY DEF RowsIInv, RowsTellTheirModel
<1> QED BY <1>1, <1>2, <1>3, PTL DEF ResearchSpec, all

LEMMA RadarInvariant == ResearchSpec => []RadarIInv
<1>1. ResearchInit => RadarIInv
  BY InitRadar DEF ResearchInit
<1>2. RadarIInv /\ [ResearchNext]_all => RadarIInv'
  BY NextRadar, RadarStutters, ResearchSteps
<1> QED BY <1>1, <1>2, PTL DEF ResearchSpec, all

\* Two pending outcomes of a technique in one session mean that the job's scan
\* and a route's each asked before the other had answered, however many
\* techniques and candidates there are (outcome_tracker.py's record).
THEOREM DuplicatesNeedOverlap == ResearchSpec => []DuplicatesOnlyByOverlap
<1>1. RadarIInv => DuplicatesOnlyByOverlap
  BY DEF RadarIInv, Counted, DuplicatesOnlyByOverlap, Radar!DuplicatesOnlyByOverlap
<1> QED BY <1>1, RadarInvariant, PTL

\* A sweep expires an opportunity within its hour only if the operator had
\* expired it when the sweep listed it and somebody has written it since
\* (opportunity_lifecycle_service.py's expire_stale).
THEOREM FreshExpiriesNeedOverlap == ResearchSpec => FreshExpireOnlyByOverlap
<1>1. RadarIInv /\ [ResearchNext]_all =>
        [\A a \in Radar!Actors, id \in Ids :
           /\ task[a].at = "expire"
           /\ task'[a] # task[a]
           /\ opp[id].status # "EXPIRED" /\ opp'[id].status = "EXPIRED"
           => opp[id].old \/ id \in touched[a]]_(Radar!vars)
  BY NextExpires, ResearchSteps
<1> QED BY <1>1, RadarInvariant, PTL
        DEF ResearchSpec, all, FreshExpireOnlyByOverlap, Radar!FreshExpireOnlyByOverlap

-----------------------------------------------------------------------------
(* The techniques: a run of the learning loop resolves what it has listed *)
(* on statistics it read before: outcomes are only ever added, so they     *)
(* still hold, and the count it keeps is no less than the techniques that  *)
(* are active until another actor writes a row.                            *)

IsTechnique(r) ==
  r = [status |-> r.status, enabled |-> r.enabled, origin |-> r.origin, parent |-> r.parent]
IsRun(r) ==
  r = [at |-> r.at, stats |-> r.stats, count |-> r.count, todo |-> r.todo, parents |-> r.parents]

LedgerOK ==
  /\ pending \in [Techniques -> [Horizons -> [0..MaxLeft -> Nat]]]
  /\ done \in [Techniques -> [Labels -> Nat]]

LearnShapes ==
  /\ LedgerOK
  /\ row = [t \in Techniques |-> row[t]]
  /\ \A t \in Techniques : IsTechnique(row[t])
  /\ run = [l \in Learners |-> run[l]]
  /\ \A l \in Learners : IsRun(run[l])
  /\ disturbed \in [Learners -> BOOLEAN]

\* Statistics that the ledger still bears out.
Borne(s, d) ==
  /\ {s.size, s.won, s.lost} \subseteq Nat
  /\ s.size <= Samples(d)
  /\ s.won <= d.won
  /\ s.lost <= d.lost

Sound(l) ==
  /\ run[l].at \in {"list", "resolve"} => \A t \in Techniques : Borne(run[l].stats[t], done[t])
  /\ run[l].at = "resolve" =>
       /\ run[l].todo \subseteq Techniques
       /\ \A t \in run[l].todo : Ready(run[l].stats[t])
       /\ run[l].count \in Nat
       /\ ~disturbed[l] => Cardinality(ActiveTechniques) <= run[l].count

LearnIInv == LearnShapes /\ \A l \in Learners : Sound(l)

-----------------------------------------------------------------------------
LEMMA RunAt ==
  ASSUME NEW s, IsRun(s), NEW x, NEW r, r = [s EXCEPT !.at = x]
  PROVE  /\ IsRun(r) /\ r.at = x
         /\ r.stats = s.stats /\ r.count = s.count /\ r.todo = s.todo
BY SMT DEF IsRun

LEMMA RunStats ==
  ASSUME NEW s, IsRun(s), NEW x, NEW r, r = [s EXCEPT !.stats = x]
  PROVE  /\ IsRun(r) /\ r.stats = x
         /\ r.at = s.at /\ r.count = s.count /\ r.todo = s.todo
BY SMT DEF IsRun

LEMMA RunCount ==
  ASSUME NEW s, IsRun(s), NEW x, NEW r, r = [s EXCEPT !.count = x]
  PROVE  /\ IsRun(r) /\ r.count = x
         /\ r.at = s.at /\ r.stats = s.stats /\ r.todo = s.todo
BY SMT DEF IsRun

LEMMA RunTodo ==
  ASSUME NEW s, IsRun(s), NEW x, NEW r, r = [s EXCEPT !.todo = x]
  PROVE  /\ IsRun(r) /\ r.todo = x
         /\ r.at = s.at /\ r.stats = s.stats /\ r.count = s.count
BY SMT DEF IsRun

LEMMA RunParents ==
  ASSUME NEW s, IsRun(s), NEW x, NEW r, r = [s EXCEPT !.parents = x]
  PROVE  IsRun(r) /\ r.at = s.at
BY SMT DEF IsRun

LEMMA NoRunIsRun == IsRun(NoRun) /\ NoRun.at = "idle"
BY SMT DEF IsRun, NoRun

LEMMA JudgingIsRun ==
  ASSUME NEW s, IsRun(s), NEW todo, NEW parents
  PROVE  IsRun(Judging(s, todo, parents)) /\ Judging(s, todo, parents).at \in {"idle", "judge"}
<1>1. CASE todo = {}
  BY <1>1, NoRunIsRun DEF Judging
<1>2. CASE todo # {}
  <2>1. PICK p : p = [s EXCEPT !.at = "judge"]
    OBVIOUS
  <2>2. PICK q : q = [p EXCEPT !.count = 0]
    OBVIOUS
  <2>3. PICK u : u = [q EXCEPT !.todo = todo]
    OBVIOUS
  <2>4. PICK r : r = [u EXCEPT !.parents = parents]
    OBVIOUS
  <2>5. Judging(s, todo, parents) = r
    BY <1>2, <2>1, <2>2, <2>3, <2>4 DEF Judging
  <2>6. IsRun(p) /\ p.at = "judge"
    BY <2>1, RunAt
  <2>7. IsRun(q) /\ q.at = "judge"
    BY <2>2, <2>6, RunCount
  <2>8. IsRun(u) /\ u.at = "judge"
    BY <2>3, <2>7, RunTodo
  <2>9. IsRun(r) /\ r.at = "judge"
    BY <2>4, <2>8, RunParents
  <2> QED BY <2>5, <2>9
<1> QED BY <1>1, <1>2

LEMMA TechniqueSet ==
  ASSUME NEW s, IsTechnique(s), NEW e
  PROVE  /\ IsTechnique(Enabled(s, e)) /\ Enabled(s, e).status = s.status
         /\ IsTechnique(Retired(s)) /\ Retired(s).status = "RETIRED"
         /\ IsTechnique(Promoted(s))
<1>1. \A r, x : r = [s EXCEPT !.enabled = x] => IsTechnique(r) /\ r.status = s.status
  BY SMT DEF IsTechnique
<1>2. \A r, x : r = [s EXCEPT !.status = x] => IsTechnique(r) /\ r.status = x
  BY SMT DEF IsTechnique
<1>3. \A p, r, x : IsTechnique(p) /\ r = [p EXCEPT !.enabled = x] => IsTechnique(r) /\ r.status = p.status
  BY SMT DEF IsTechnique
<1>4. IsTechnique(Enabled(s, e)) /\ Enabled(s, e).status = s.status
  BY <1>1 DEF Enabled
<1>5. ASSUME NEW x, NEW y, NEW r
      PROVE  r = [s EXCEPT !.status = x, !.enabled = y] => IsTechnique(r) /\ r.status = x
  <2>1. SUFFICES ASSUME r = [s EXCEPT !.status = x, !.enabled = y]
        PROVE  IsTechnique(r) /\ r.status = x
    OBVIOUS
  <2>2. PICK p : p = [s EXCEPT !.status = x]
    OBVIOUS
  <2>3. r = [p EXCEPT !.enabled = y]
    BY <2>1, <2>2
  <2> QED BY <1>2, <1>3, <2>2, <2>3
<1>6. IsTechnique(Retired(s)) /\ Retired(s).status = "RETIRED"
  <2>1. PICK r : r = Retired(s)
    OBVIOUS
  <2>2. r = [s EXCEPT !.status = "RETIRED", !.enabled = FALSE]
    BY <2>1 DEF Retired
  <2> QED BY <1>5, <2>1, <2>2
<1>7. IsTechnique(Promoted(s))
  <2>1. PICK r : r = Promoted(s)
    OBVIOUS
  <2>2. r = [s EXCEPT !.status = "ACTIVE", !.enabled = TRUE]
    BY <2>1 DEF Promoted
  <2> QED BY <1>5, <2>1, <2>2
<1> QED BY <1>4, <1>6, <1>7

LEMMA Counting ==
  ASSUME NEW S \in SUBSET Techniques, NEW T \in SUBSET Techniques, NEW t \in Techniques
  PROVE  /\ Cardinality(S) \in Nat
         /\ T \subseteq S => Cardinality(T) <= Cardinality(S)
         /\ T \subseteq S \cup {t} => Cardinality(T) <= Cardinality(S) + 1
<1>1. IsFiniteSet(S) /\ IsFiniteSet(T)
  BY LearningAssumption, FS_Subset
<1>2. Cardinality(S) \in Nat /\ Cardinality(T) \in Nat
  BY <1>1, FS_CardinalityType
<1>3. T \subseteq S => Cardinality(T) <= Cardinality(S)
  BY <1>1, FS_Subset
<1>4. IsFiniteSet(S \cup {t}) /\ Cardinality(S \cup {t}) <= Cardinality(S) + 1
  <2>1. /\ IsFiniteSet(S \cup {t})
        /\ Cardinality(S \cup {t}) = IF t \in S THEN Cardinality(S) ELSE Cardinality(S) + 1
    BY <1>1, FS_AddElement
  <2> QED BY <1>2, <2>1
<1>5. Cardinality(S \cup {t}) \in Nat
  BY <1>4, FS_CardinalityType
<1>6. T \subseteq S \cup {t} => Cardinality(T) <= Cardinality(S \cup {t})
  BY <1>4, FS_Subset
<1> QED BY <1>2, <1>3, <1>4, <1>5, <1>6

LEMMA LeftType == MaxLeft \in Nat
<1>1. PICK h \in Horizons : \A g \in Horizons : Sessions[g] <= Sessions[h]
  BY LearningAssumption
<1>2. \E n \in {Sessions[g] : g \in Horizons} : \A g \in Horizons : Sessions[g] <= n
  BY <1>1
<1>3. {Sessions[g] : g \in Horizons} \subseteq Nat
  BY LearningAssumption
<1> QED BY <1>2, <1>3 DEF MaxLeft

-----------------------------------------------------------------------------
\* A run that moves on, or no run: what the others rest on is kept, or they
\* are told that a row was written.
LEMMA OthersKept ==
  ASSUME LearnIInv, LearnShapes', done' = done, NEW l,
         \A o \in Learners : o # l => run'[o] = run[o],
         \/ row' = row /\ \A o \in Learners : o # l => disturbed'[o] = disturbed[o]
         \/ Disturb(l)
  PROVE  \A o \in Learners : o # l => Sound(o)'
<1> SUFFICES ASSUME NEW o \in Learners, o # l PROVE Sound(o)'
  OBVIOUS
<1>1. Sound(o) /\ run'[o] = run[o]
  BY DEF LearnIInv
<1>2. CASE row' = row /\ disturbed'[o] = disturbed[o]
  <2>1. ActiveTechniques' = ActiveTechniques
    BY <1>2 DEF ActiveTechniques, Live
  <2> QED BY <1>1, <1>2, <2>1 DEF Sound
<1>3. CASE Disturb(l)
  <2>1. run[o].at = "resolve" => disturbed'[o]
    BY <1>3 DEF Disturb
  <2> QED BY <1>1, <2>1 DEF Sound
<1> QED BY <1>2, <1>3

\* A learner moves to a stage from which it promotes nothing.
LEMMA LeavesStage ==
  ASSUME LearnIInv, NEW l \in Learners, NEW r, IsRun(r), r.at \notin {"list", "resolve"},
         run' = [run EXCEPT ![l] = r], UNCHANGED ledger,
         row' = [t \in Techniques |-> row'[t]], \A t \in Techniques : IsTechnique(row'[t]),
         disturbed' \in [Learners -> BOOLEAN],
         \/ row' = row /\ \A o \in Learners : o # l => disturbed'[o] = disturbed[o]
         \/ Disturb(l)
  PROVE  LearnIInv'
<1>1. \A o \in Learners : run'[o] = IF o = l THEN r ELSE run[o]
  BY DEF LearnIInv, LearnShapes
<1>2. run' = [o \in Learners |-> run'[o]]
  BY DEF LearnIInv, LearnShapes
<1>3. done' = done /\ LearnShapes'
  BY <1>1, <1>2 DEF LearnIInv, LearnShapes, LedgerOK, ledger
<1>4. \A o \in Learners : o # l => Sound(o)'
  BY <1>1, <1>3, OthersKept
<1>5. Sound(l)'
  BY <1>1 DEF Sound
<1> QED BY <1>3, <1>4, <1>5 DEF LearnIInv

LEMMA OperatorWrites ==
  ASSUME LearnIInv, NEW t, NEW r, t \in Techniques => IsTechnique(r),
         row' = [row EXCEPT ![t] = r], Disturb(None), UNCHANGED <<ledger, run>>
  PROVE  LearnIInv'
<1>1. row' = [u \in Techniques |-> row'[u]] /\ \A u \in Techniques : IsTechnique(row'[u])
  BY DEF LearnIInv, LearnShapes
<1>2. disturbed' \in [Learners -> BOOLEAN]
  BY DEF LearnIInv, LearnShapes, Disturb
<1>3. done' = done /\ run' = run /\ LearnShapes'
  BY <1>1, <1>2 DEF LearnIInv, LearnShapes, LedgerOK, ledger
<1>4. \A o \in Learners : o # None => Sound(o)'
  BY <1>3, OthersKept
<1> QED BY <1>3, <1>4, LearningAssumption DEF LearnIInv

\* The ledger moves: what was judged stays judged.
LEMMA LedgerMoves ==
  ASSUME LearnIInv, LedgerOK', UNCHANGED <<row, run, disturbed>>,
         \A t \in Techniques : \A k \in Labels : done'[t][k] >= done[t][k]
  PROVE  LearnIInv'
<1>1. LearnShapes'
  BY DEF LearnIInv, LearnShapes
<1>2. ASSUME NEW t \in Techniques, NEW s, Borne(s, done[t]) PROVE Borne(s, done'[t])
  <2>1. /\ {done[t].won, done[t].lost, done[t].open} \subseteq Nat
        /\ {done'[t].won, done'[t].lost, done'[t].open} \subseteq Nat
    BY DEF LearnIInv, LearnShapes, LedgerOK, Labels
  <2>2. /\ done'[t].won >= done[t].won /\ done'[t].lost >= done[t].lost
        /\ done'[t].open >= done[t].open
    BY DEF Labels
  <2> QED BY <1>2, <2>1, <2>2 DEF Borne, Samples
<1>3. ActiveTechniques' = ActiveTechniques
  BY DEF ActiveTechniques, Live
<1>4. ASSUME NEW l \in Learners PROVE Sound(l)'
  <2>1. Sound(l)
    BY DEF LearnIInv
  <2> QED BY <1>2, <1>3, <2>1 DEF Sound
<1> QED BY <1>1, <1>4 DEF LearnIInv

LEMMA NearerType ==
  ASSUME NEW f \in [0..MaxLeft -> Nat]
  PROVE  Nearer(f) \in [0..MaxLeft -> Nat]
<1>1. ASSUME NEW n \in 0..MaxLeft
      PROVE  (IF n < MaxLeft THEN f[n + 1] ELSE 0) + (IF n = 0 THEN f[0] ELSE 0) \in Nat
  <2>1. n < MaxLeft => f[n + 1] \in Nat
    BY LeftType
  <2>2. f[0] \in Nat
    BY LeftType
  <2> QED BY <2>1, <2>2
<1> QED BY <1>1 DEF Nearer

LEMMA InitLearning == Init => LearnIInv
<1> SUFFICES ASSUME Init PROVE LearnIInv
  OBVIOUS
<1>1. LedgerOK
  BY DEF Init, LedgerOK
<1>2. \A t \in Techniques : IsTechnique(row[t])
  <2>1. IsTechnique(Builtin) /\ IsTechnique(Absent)
    BY SMT DEF IsTechnique, Builtin, Absent
  <2> QED BY <2>1 DEF Init
<1>3. LearnShapes
  BY <1>1, <1>2, NoRunIsRun DEF Init, LearnShapes
<1>4. \A l \in Learners : Sound(l)
  BY NoRunIsRun DEF Init, Sound
<1> QED BY <1>3, <1>4 DEF LearnIInv

LEMMA NextLearning == LearnIInv /\ (Next \/ UNCHANGED learningVars) => LearnIInv'
<1> SUFFICES ASSUME LearnIInv, Next \/ UNCHANGED learningVars PROVE LearnIInv'
  OBVIOUS
<1>0. LedgerOK /\ \A l \in Learners : IsRun(run[l])
  BY DEF LearnIInv, LearnShapes
<1>1. ASSUME UNCHANGED learningVars PROVE LearnIInv'
  <2>1. LearnShapes' /\ ActiveTechniques' = ActiveTechniques
    BY <1>1 DEF learningVars, LearnIInv, LearnShapes, LedgerOK, ActiveTechniques, Live
  <2>2. \A l \in Learners : Sound(l)'
    BY <1>1, <2>1 DEF learningVars, LearnIInv, Sound
  <2> QED BY <2>1, <2>2 DEF LearnIInv
<1>2. CASE Open
  BY <1>1, <1>2 DEF Open, learningVars, ledger
<1>3. CASE Close
  <2>1. pending' \in [Techniques -> [Horizons -> [0..MaxLeft -> Nat]]]
    BY <1>0, <1>3, NearerType DEF Close, LedgerOK
  <2>2. LedgerOK' /\ \A t \in Techniques : \A k \in Labels : done'[t][k] >= done[t][k]
    BY <1>0, <1>3, <2>1 DEF Close, LedgerOK
  <2> QED BY <1>3, <2>2, LedgerMoves DEF Close
<1>4. ASSUME NEW t \in Techniques, NEW h \in Horizons, RecordDetection(t, h) PROVE LearnIInv'
  <2>1. pending' \in [Techniques -> [Horizons -> [0..MaxLeft -> Nat]]]
    <3>1. PICK n : n = DueIn(h)
      OBVIOUS
    <3>2. PICK f : f = [pending[t][h] EXCEPT ![n] = pending[t][h][n] + 1]
      OBVIOUS
    <3>3. pending[t][h] \in [0..MaxLeft -> Nat]
      BY <1>0 DEF LedgerOK
    <3>4. f \in [0..MaxLeft -> Nat]
      <4>1. ASSUME NEW i \in 0..MaxLeft PROVE f[i] \in Nat
        <5>1. f[i] = IF i = n THEN pending[t][h][i] + 1 ELSE pending[t][h][i]
          BY <3>2, <3>3
        <5>2. pending[t][h][i] \in Nat
          BY <3>3
        <5> QED BY <5>1, <5>2
      <4>2. f = [i \in 0..MaxLeft |-> f[i]]
        BY <3>2, <3>3
      <4> QED BY <4>1, <4>2
    <3>5. PICK g : g = [pending[t] EXCEPT ![h] = f]
      OBVIOUS
    <3>6. g \in [Horizons -> [0..MaxLeft -> Nat]]
      BY <1>0, <3>4, <3>5 DEF LedgerOK
    <3>7. pending' = [pending EXCEPT ![t] = g]
      BY <1>4, <3>1, <3>2, <3>5 DEF RecordDetection
    <3> QED BY <1>0, <3>6, <3>7 DEF LedgerOK
  <2>2. LedgerOK' /\ \A u \in Techniques : \A k \in Labels : done'[u][k] >= done[u][k]
    BY <1>0, <1>4, <2>1 DEF RecordDetection, LedgerOK
  <2> QED BY <1>4, <2>2, LedgerMoves DEF RecordDetection
<1>5. ASSUME NEW t \in Techniques, NEW h \in Horizons, EvaluateDue(t, h) PROVE LearnIInv'
  <2>1. PICK judged \in [Labels -> 0..pending[t][h][0]] :
          done' = [done EXCEPT ![t] = [k \in Labels |-> done[t][k] + judged[k]]]
    BY <1>5 DEF EvaluateDue
  <2>2. pending[t][h][0] \in Nat
    BY <1>0, LeftType DEF LedgerOK
  <2>3. \A k \in Labels : judged[k] \in Nat /\ done[t][k] \in Nat
    BY <1>0, <2>2 DEF LedgerOK
  <2>4. [k \in Labels |-> done[t][k] + judged[k]] \in [Labels -> Nat]
    BY <2>3
  <2>5. done' \in [Techniques -> [Labels -> Nat]]
    BY <1>0, <2>1, <2>4 DEF LedgerOK
  <2>6. \A u \in Techniques : \A k \in Labels : done'[u][k] >= done[u][k]
    <3> SUFFICES ASSUME NEW u \in Techniques, NEW k \in Labels PROVE done'[u][k] >= done[u][k]
      OBVIOUS
    <3>1. CASE u = t
      <4>1. done'[u][k] = done[t][k] + judged[k]
        BY <1>0, <2>1, <3>1 DEF LedgerOK
      <4> QED BY <2>3, <3>1, <4>1
    <3>2. CASE u # t
      <4>1. done'[u][k] = done[u][k] /\ done[u][k] \in Nat
        BY <1>0, <2>1, <3>2 DEF LedgerOK
      <4> QED BY <4>1
    <3> QED BY <3>1, <3>2
  <2>7. pending' \in [Techniques -> [Horizons -> [0..MaxLeft -> Nat]]]
    BY <1>0, <1>5 DEF EvaluateDue, LedgerOK
  <2>8. LedgerOK'
    BY <2>5, <2>7 DEF LedgerOK
  <2> QED BY <1>5, <2>6, <2>8, LedgerMoves DEF EvaluateDue
<1>6. ASSUME NEW l \in Learners, LearnStart(l) PROVE LearnIInv'
  <2>1. PICK p : p = [NoRun EXCEPT !.at = "list"]
    OBVIOUS
  <2>2. PICK r : r = [p EXCEPT !.stats = Stats]
    OBVIOUS
  <2>3. run' = [run EXCEPT ![l] = r] /\ UNCHANGED <<row, ledger, disturbed>>
    BY <1>6, <2>1, <2>2 DEF LearnStart
  <2>4. IsRun(p) /\ p.at = "list"
    BY <2>1, NoRunIsRun, RunAt
  <2>5. IsRun(r) /\ r.at = "list" /\ r.stats = Stats
    BY <2>2, <2>4, RunStats
  <2>6. \A o \in Learners : run'[o] = IF o = l THEN r ELSE run[o]
    BY <2>3 DEF LearnIInv, LearnShapes
  <2>7. run' = [o \in Learners |-> run'[o]]
    BY <2>3 DEF LearnIInv, LearnShapes
  <2>8. LearnShapes' /\ done' = done
    BY <2>3, <2>5, <2>6, <2>7 DEF LearnIInv, LearnShapes, LedgerOK, ledger
  <2>9. \A o \in Learners : o # l => Sound(o)'
    BY <2>3, <2>6, <2>8, OthersKept
  <2>10. ASSUME NEW t \in Techniques PROVE Borne(Stats[t], done[t])
    <3>1. {done[t].won, done[t].lost, done[t].open} \subseteq Nat
      BY <1>0 DEF LedgerOK, Labels
    <3>2. Stats[t].size = Samples(done[t]) /\ Stats[t].won = done[t].won /\ Stats[t].lost = done[t].lost
      BY DEF Stats
    <3> QED BY <3>1, <3>2 DEF Borne, Samples
  <2>11. Sound(l)'
    BY <2>5, <2>6, <2>8, <2>10 DEF Sound
  <2> QED BY <2>8, <2>9, <2>11 DEF LearnIInv
<1>7. ASSUME NEW l \in Learners, LearnList(l) PROVE LearnIInv'
  <2>1. PICK todo : todo = {t \in Techniques : Live(t, "CANDIDATE") /\ Ready(run[l].stats[t])}
    OBVIOUS
  <2>2. PICK n : n = Cardinality(ActiveTechniques)
    OBVIOUS
  <2>3. PICK p : p = [run[l] EXCEPT !.at = "resolve"]
    OBVIOUS
  <2>4. PICK q : q = [p EXCEPT !.count = n]
    OBVIOUS
  <2>5. PICK r : r = [q EXCEPT !.todo = todo]
    OBVIOUS
  <2>6. /\ run' = [run EXCEPT ![l] = [run[l] EXCEPT !.at = "resolve", !.count = n, !.todo = todo]]
        /\ UNCHANGED <<row, ledger>>
        /\ disturbed' = [disturbed EXCEPT ![l] = FALSE] /\ run[l].at = "list"
    BY <1>7, <2>1, <2>2 DEF LearnList, LearnIInv, LearnShapes
  <2>7. run' = [run EXCEPT ![l] = r]
    BY <2>3, <2>4, <2>5, <2>6
  <2>8. IsRun(p) /\ p.at = "resolve" /\ p.stats = run[l].stats
    BY <1>0, <2>3, RunAt
  <2>9. IsRun(q) /\ q.at = "resolve" /\ q.stats = run[l].stats /\ q.count = n
    BY <2>4, <2>8, RunCount
  <2>10. IsRun(r) /\ r.at = "resolve" /\ r.stats = run[l].stats /\ r.count = n /\ r.todo = todo
    BY <2>5, <2>9, RunTodo
  <2>11. \A o \in Learners : run'[o] = IF o = l THEN r ELSE run[o]
    BY <2>7 DEF LearnIInv, LearnShapes
  <2>12. run' = [o \in Learners |-> run'[o]]
    BY <2>7 DEF LearnIInv, LearnShapes
  <2>13. disturbed' \in [Learners -> BOOLEAN] /\ \A o \in Learners : o # l => disturbed'[o] = disturbed[o]
    BY <2>6 DEF LearnIInv, LearnShapes
  <2>14. LearnShapes' /\ done' = done
    BY <2>6, <2>10, <2>11, <2>12, <2>13 DEF LearnIInv, LearnShapes, LedgerOK, ledger
  <2>15. \A o \in Learners : o # l => Sound(o)'
    BY <2>6, <2>11, <2>13, <2>14, OthersKept
  <2>16. ActiveTechniques' = ActiveTechniques /\ n \in Nat
    BY <2>2, <2>6, LearningAssumption, FS_Subset, FS_CardinalityType DEF ActiveTechniques, Live
  <2>17. Sound(l)
    BY DEF LearnIInv
  <2>18. Sound(l)'
    <3>1. run'[l] = r /\ r.stats = run[l].stats
      BY <2>10, <2>11
    <3>2. \A t \in Techniques : Borne(run[l].stats[t], done[t])
      BY <2>6, <2>17 DEF Sound
    <3>3. todo \subseteq Techniques /\ \A t \in todo : Ready(run[l].stats[t])
      BY <2>1
    <3>4. Cardinality(ActiveTechniques') <= n
      BY <2>2, <2>16
    <3> QED BY <2>10, <2>14, <2>16, <3>1, <3>2, <3>3, <3>4 DEF Sound
  <2> QED BY <2>14, <2>15, <2>18 DEF LearnIInv
<1>8. ASSUME NEW l \in Learners, NEW t \in Techniques, LearnResolve(l, t) PROVE LearnIInv'
  <2>1. PICK promote \in BOOLEAN :
          promote = (Better(run[l].stats[t], run[l].stats[row[t].parent]) /\ WithinCap(l))
    OBVIOUS
  <2>2. PICK n : n = IF promote THEN run[l].count + 1 ELSE run[l].count
    OBVIOUS
  <2>3. PICK q : q = [run[l] EXCEPT !.count = n]
    OBVIOUS
  <2>4. PICK r : r = [q EXCEPT !.todo = run[l].todo \ {t}]
    OBVIOUS
  <2>5. /\ row' = [row EXCEPT ![t] = IF promote THEN Promoted(@) ELSE Retired(@)]
        /\ run' = [run EXCEPT ![l] = [run[l] EXCEPT !.count = IF promote THEN @ + 1 ELSE @,
                                                    !.todo = @ \ {t}]]
        /\ Disturb(l) /\ UNCHANGED ledger /\ run[l].at = "resolve" /\ t \in run[l].todo
    BY <1>8, <2>1 DEF LearnResolve, IsFirst
  <2>6. run' = [run EXCEPT ![l] = r]
    BY <2>2, <2>3, <2>4, <2>5
  <2>7. IsRun(q) /\ q.at = "resolve" /\ q.stats = run[l].stats /\ q.count = n
    BY <1>0, <2>3, <2>5, RunCount
  <2>8. IsRun(r) /\ r.at = "resolve" /\ r.stats = run[l].stats /\ r.count = n
        /\ r.todo = run[l].todo \ {t}
    BY <2>4, <2>7, RunTodo
  <2>9. \A o \in Learners : run'[o] = IF o = l THEN r ELSE run[o]
    BY <2>6 DEF LearnIInv, LearnShapes
  <2>10. run' = [o \in Learners |-> run'[o]]
    BY <2>6 DEF LearnIInv, LearnShapes
  <2>11. IsTechnique(row[t])
    BY DEF LearnIInv, LearnShapes
  <2>12. row' = [u \in Techniques |-> row'[u]]
    BY <2>5 DEF LearnIInv, LearnShapes
  <2>13. \A u \in Techniques :
           row'[u] = IF u = t THEN IF promote THEN Promoted(row[t]) ELSE Retired(row[t]) ELSE row[u]
    BY <2>5 DEF LearnIInv, LearnShapes
  <2>14. \A u \in Techniques : IsTechnique(row'[u])
    BY <2>11, <2>13, TechniqueSet DEF LearnIInv, LearnShapes
  <2>15. disturbed' \in [Learners -> BOOLEAN] /\ disturbed'[l] = disturbed[l]
    BY <2>5 DEF Disturb, LearnIInv, LearnShapes
  <2>16. LearnShapes' /\ done' = done
    BY <2>5, <2>8, <2>9, <2>10, <2>12, <2>14, <2>15 DEF LearnIInv, LearnShapes, LedgerOK, ledger
  <2>17. \A o \in Learners : o # l => Sound(o)'
    BY <2>5, <2>9, <2>16, OthersKept
  <2>18. Sound(l)
    BY DEF LearnIInv
  <2>19. n \in Nat /\ run[l].count \in Nat
    BY <2>2, <2>5, <2>18 DEF Sound
  <2>20. ~disturbed'[l] => Cardinality(ActiveTechniques') <= n
    <3>1. SUFFICES ASSUME ~disturbed[l] PROVE Cardinality(ActiveTechniques') <= n
      BY <2>15
    <3>2. Cardinality(ActiveTechniques) <= run[l].count
      BY <2>5, <2>18, <3>1 DEF Sound
    <3>3. ActiveTechniques \in SUBSET Techniques /\ ActiveTechniques' \in SUBSET Techniques
      BY DEF ActiveTechniques
    <3>4. ActiveTechniques' \subseteq ActiveTechniques \cup {t}
      BY <2>13 DEF ActiveTechniques, Live
    <3>5. ~promote => ActiveTechniques' \subseteq ActiveTechniques
      BY <2>11, <2>13, TechniqueSet DEF ActiveTechniques, Live
    <3>6. Cardinality(ActiveTechniques) \in Nat /\ Cardinality(ActiveTechniques') \in Nat
      BY <3>3, Counting
    <3>7. Cardinality(ActiveTechniques') <= Cardinality(ActiveTechniques) + 1
      BY <3>3, <3>4, Counting
    <3>8. ~promote => Cardinality(ActiveTechniques') <= Cardinality(ActiveTechniques)
      BY <3>3, <3>5, Counting
    <3> QED BY <2>2, <2>19, <3>2, <3>6, <3>7, <3>8
  <2>21. Sound(l)'
    BY <2>5, <2>8, <2>9, <2>16, <2>18, <2>19, <2>20 DEF Sound
  <2> QED BY <2>16, <2>17, <2>21 DEF LearnIInv
<1>9. ASSUME NEW l \in Learners, LearnRelist(l) PROVE LearnIInv'
  <2>1. PICK todo, parents : run' = [run EXCEPT ![l] = Judging(run[l], todo, parents)]
    BY <1>9 DEF LearnRelist
  <2>2. UNCHANGED <<row, ledger>> /\ disturbed' = [disturbed EXCEPT ![l] = FALSE]
    BY <1>9 DEF LearnRelist
  <2>3. /\ IsRun(Judging(run[l], todo, parents))
        /\ Judging(run[l], todo, parents).at \notin {"list", "resolve"}
    BY <1>0, JudgingIsRun
  <2>4. disturbed' \in [Learners -> BOOLEAN] /\ \A o \in Learners : o # l => disturbed'[o] = disturbed[o]
    BY <2>2 DEF LearnIInv, LearnShapes
  <2>5. row' = [t \in Techniques |-> row'[t]] /\ \A t \in Techniques : IsTechnique(row'[t])
    BY <2>2 DEF LearnIInv, LearnShapes
  <2> QED BY <2>1, <2>2, <2>3, <2>4, <2>5, LeavesStage
<1>10. ASSUME NEW l \in Learners, NEW t \in Techniques, LearnJudge(l, t) PROVE LearnIInv'
  <2>1. PICK todo, parents : run' = [run EXCEPT ![l] = Judging(run[l], todo, parents)]
    BY <1>10 DEF LearnJudge
  <2>2. UNCHANGED ledger /\ ((row' = row /\ disturbed' = disturbed) \/ Disturb(l))
    BY <1>10 DEF LearnJudge
  <2>3. /\ IsRun(Judging(run[l], todo, parents))
        /\ Judging(run[l], todo, parents).at \notin {"list", "resolve"}
    BY <1>0, JudgingIsRun
  <2>4. disturbed' \in [Learners -> BOOLEAN]
    BY <2>2 DEF LearnIInv, LearnShapes, Disturb
  <2>5. row' = [u \in Techniques |-> row'[u]] /\ \A u \in Techniques : IsTechnique(row'[u])
    <3>1. \A u \in Techniques : IsTechnique(row[u]) /\ IsTechnique(Variant(t))
      BY SMT DEF LearnIInv, LearnShapes, IsTechnique, Variant
    <3>2. /\ IsTechnique(Enabled(row[t], FALSE)) /\ IsTechnique(Retired(row[t]))
      BY <3>1, TechniqueSet
    <3>3. \/ row' = [row EXCEPT ![t] = Enabled(@, FALSE)]
          \/ row' = [row EXCEPT ![t] = Retired(@)]
          \/ row' = [c \in Techniques |-> IF c \in Spawned THEN Variant(t) ELSE row[c]]
          \/ row' = row
      BY <1>10 DEF LearnJudge
    <3> QED BY <3>1, <3>2, <3>3 DEF LearnIInv, LearnShapes
  <2> QED BY <2>1, <2>2, <2>3, <2>4, <2>5, LeavesStage
<1>11. ASSUME NEW t \in Pool, NEW e \in BOOLEAN, CreateTechnique(t, e) PROVE LearnIInv'
  <2>1. IsTechnique(Manual(e))
    BY SMT DEF IsTechnique, Manual
  <2> QED BY <1>11, <2>1, OperatorWrites DEF CreateTechnique
<1>12. ASSUME NEW t \in Techniques, NEW e \in BOOLEAN, UpdateTechnique(t, e) PROVE LearnIInv'
  <2>1. IsTechnique(Enabled(row[t], e))
    BY TechniqueSet DEF LearnIInv, LearnShapes
  <2>2. row' = [row EXCEPT ![t] = Enabled(row[t], e)] /\ Disturb(None) /\ UNCHANGED <<ledger, run>>
    BY <1>12 DEF UpdateTechnique
  <2> QED BY <2>1, <2>2, OperatorWrites
<1>13. ASSUME NEW t \in Techniques, RetireTechnique(t) PROVE LearnIInv'
  <2>1. IsTechnique(Enabled(row[t], FALSE)) /\ IsTechnique(Retired(row[t]))
    BY TechniqueSet DEF LearnIInv, LearnShapes
  <2>2. PICK r : r = IF row[t].origin = "builtin" THEN Enabled(row[t], FALSE) ELSE Retired(row[t])
    OBVIOUS
  <2>3. row' = [row EXCEPT ![t] = r] /\ Disturb(None) /\ UNCHANGED <<ledger, run>>
    BY <1>13, <2>2 DEF RetireTechnique
  <2> QED BY <2>1, <2>2, <2>3, OperatorWrites
<1> QED BY <1>1, <1>2, <1>3, <1>4, <1>5, <1>6, <1>7, <1>8, <1>9, <1>10, <1>11, <1>12, <1>13
        DEF Next, Operator

\* What the loop promotes, it promotes on outcomes the ledger still holds, and
\* within the cap unless another actor wrote a row meanwhile.
LEMMA NextPromotes ==
  ASSUME LearnIInv, Next, NEW t \in Techniques, NEW l \in Learners,
         Promotes(t), run[l].at = "resolve", run'[l] # run[l]
  PROVE  /\ Samples(done[t]) >= MinSamples
         /\ done[t].won + done[t].lost > 0
         /\ ~disturbed[l] => Cardinality(ActiveTechniques') <= MaxActive
<1>1. row[t].status = "CANDIDATE" /\ row'[t].status = "ACTIVE" /\ ~UNCHANGED row /\ ~UNCHANGED run
  BY DEF Promotes
<1>2. PICK o \in Learners, u \in Techniques : LearnResolve(o, u) \/ LearnJudge(o, u)
  BY <1>1 DEF Next, Operator, Open, Close, RecordDetection, EvaluateDue, LearnStart, LearnList,
              LearnRelist, CreateTechnique, UpdateTechnique, RetireTechnique
<1>3. LearnResolve(o, u) /\ o = l
  BY <1>2 DEF LearnResolve, LearnJudge, LearnIInv, LearnShapes
<1>4. PICK promote \in BOOLEAN :
        promote = (Better(run[l].stats[u], run[l].stats[row[u].parent]) /\ WithinCap(l))
  OBVIOUS
<1>5. row' = [row EXCEPT ![u] = IF promote THEN Promoted(@) ELSE Retired(@)] /\ u \in run[l].todo
  BY <1>3, <1>4 DEF LearnResolve, IsFirst
<1>6. \A c \in Techniques :
        row'[c] = IF c = u THEN IF promote THEN Promoted(row[u]) ELSE Retired(row[u]) ELSE row[c]
  BY <1>5 DEF LearnIInv, LearnShapes
<1>7. Retired(row[u]).status = "RETIRED"
  BY TechniqueSet DEF LearnIInv, LearnShapes
<1>8. t = u /\ promote
  BY <1>1, <1>6, <1>7
<1>9. Sound(l)
  BY DEF LearnIInv
<1>10. Borne(run[l].stats[t], done[t]) /\ Ready(run[l].stats[t]) /\ HasExpectancy(run[l].stats[t])
  BY <1>4, <1>5, <1>8, <1>9 DEF Sound, Better
<1>11. {done[t].won, done[t].lost, done[t].open} \subseteq Nat /\ MinSamples \in Nat /\ MaxActive \in Nat
  BY LearningAssumption DEF LearnIInv, LearnShapes, LedgerOK, Labels
<1>12. Samples(done[t]) >= MinSamples /\ done[t].won + done[t].lost > 0
  BY <1>10, <1>11 DEF Borne, Ready, HasExpectancy, Samples
<1>13. ASSUME ~disturbed[l] PROVE Cardinality(ActiveTechniques') <= MaxActive
  <2>1. Cardinality(ActiveTechniques) <= run[l].count /\ run[l].count \in Nat
    BY <1>9, <1>13 DEF Sound
  <2>2. run[l].count < MaxActive
    BY <1>4, <1>8 DEF WithinCap
  <2>3. ActiveTechniques \in SUBSET Techniques /\ ActiveTechniques' \in SUBSET Techniques
    BY DEF ActiveTechniques
  <2>4. ActiveTechniques' \subseteq ActiveTechniques \cup {t}
    BY <1>6, <1>8 DEF ActiveTechniques, Live
  <2>5. /\ Cardinality(ActiveTechniques) \in Nat /\ Cardinality(ActiveTechniques') \in Nat
        /\ Cardinality(ActiveTechniques') <= Cardinality(ActiveTechniques) + 1
    BY <2>3, <2>4, Counting
  <2> QED BY <1>11, <2>1, <2>2, <2>5
<1> QED BY <1>12, <1>13

-----------------------------------------------------------------------------
LEMMA LearningSteps ==
  ASSUME ResearchNext \/ UNCHANGED all
  PROVE  (In("learning") /\ Next) \/ UNCHANGED learningVars
BY DEF ResearchNext, all, InLearning, InRadar, InRuns, InAccuracy, InIntelligence, learningVars

\* A technique is promoted on MinSamples judged outcomes that the ledger still
\* holds, one of them labelled, and within MaxActive unless another actor wrote
\* a row between the listing and the write, for any number of techniques,
\* learners and outcomes (learning_loop.py's _resolve_candidates).
THEOREM PromotionsHoldUp == ResearchSpec => PromotedOnEvidenceWithinCap
<1>1. ResearchInit => LearnIInv
  BY InitLearning DEF ResearchInit
<1>2. LearnIInv /\ [ResearchNext]_all => LearnIInv'
  BY NextLearning, LearningSteps
<1>3. LearnIInv /\ [ResearchNext]_all =>
        [\A t \in Techniques, l \in Learners :
           Promotes(t) /\ run[l].at = "resolve" /\ run'[l] # run[l] =>
             /\ Samples(done[t]) >= MinSamples
             /\ done[t].won + done[t].lost > 0
             /\ ~disturbed[l] => Cardinality(ActiveTechniques') <= MaxActive]_vars
  BY NextPromotes, LearningSteps DEF learningVars
<1> QED BY <1>1, <1>2, <1>3, PTL DEF ResearchSpec, all, PromotedOnEvidenceWithinCap

-----------------------------------------------------------------------------
(* The intelligence service.  Every stored scenario and every saved setup   *)
(* is a configuration, answers and rollbacks point at what is stored, and a *)
(* rollback in its wait has saved what it will record unless the selection  *)
(* moves.                                                                   *)

ScenariosOf(a) == analyses[a].scenarios

IsAnalysis(x) ==
  /\ x.scenarios # <<>> /\ \E S : x.scenarios \in Seq(S)
  /\ \A i \in DOMAIN x.scenarios : Intelligence!IsConfig(x.scenarios[i])

\* The scenario under the id of its analysis, as a rollback saves it.
Restored(a, scenario) ==
  Intelligence!Canonical([ScenariosOf(a)[scenario] EXCEPT !.setup_id = analyses[a].setup])

IsRollback(t) ==
  /\ t.analysis \in DOMAIN analyses
  /\ t.scenario \in DOMAIN ScenariosOf(t.analysis)
  /\ t.requested # 0 => t.scenario = t.requested
  /\ t.config = Restored(t.analysis, t.scenario)
  /\ Intelligence!IsConfig(t.config) /\ Intelligence!EngineAccepts(t.config)

Ledger ==
  /\ \E S : analyses \in Seq(S)
  /\ \A a \in DOMAIN analyses : IsAnalysis(analyses[a])

AnswersOK ==
  \A x \in answers : x.analysis \in DOMAIN analyses
                       /\ x.chosen \in {0} \cup DOMAIN ScenariosOf(x.analysis)

SavedOK == \A c \in saved : Intelligence!IsConfig(c) /\ Intelligence!EngineAccepts(c)

RollbacksOK ==
  /\ DOMAIN rollbacks = Callers
  /\ \A p \in Callers : rollbacks[p] # Intelligence!Idle => IsRollback(rollbacks[p])

IntelIInv == Ledger /\ AnswersOK /\ SavedOK /\ RollbacksOK

-----------------------------------------------------------------------------
(* Configurations.                                                         *)

LEMMA Fields ==
  {"setup_id", "symbol", "setup_type", "setup_role", "enabled", "entry_enabled", "order_type",
   "trigger_price", "entry_price", "maximum_limit_price", "trigger_offset", "limit_offset",
   "max_position", "max_risk", "level", "zone_min", "zone_max", "stop_rules", "position_source",
   "has_trailing", "trailing_enabled", "initial_stop", "never_lower_stop",
   "required_before_entry", "initial_stop_loss", "protective_stop"}
    = DOMAIN Intelligence!Empty
BY DEF Intelligence!Empty

\* A configuration with one field replaced by a value of its type.
LEMMA EmptyIsConfig == Intelligence!IsConfig(Intelligence!Empty)
BY Fields DEF Intelligence!IsConfig, Intelligence!Empty, Intelligence!Unset

\* The canonical form is a configuration, under the same id.
LEMMA CanonicalIsConfig ==
  ASSUME NEW c, Intelligence!IsConfig(c)
  PROVE  /\ Intelligence!IsConfig(Intelligence!Canonical(c))
         /\ Intelligence!Canonical(c).setup_id = c.setup_id
<1> DEFINE stop == Intelligence!CanonicalStop(c)
<1>1. stop \in Int
  BY DEF Intelligence!CanonicalStop, Intelligence!IsConfig
<1>2. Intelligence!Unset \in Int
  BY DEF Intelligence!Unset
<1> HIDE DEF stop
<1>3. Intelligence!Canonical(c) = [c EXCEPT
    !.has_trailing = TRUE,
    !.initial_stop = stop,
    !.trailing_enabled = Intelligence!TrailingSwitch(c, "trailing_enabled"),
    !.never_lower_stop = Intelligence!TrailingSwitch(c, "never_lower_stop"),
    !.required_before_entry = Intelligence!TrailingSwitch(c, "required_before_entry"),
    !.initial_stop_loss = Intelligence!Unset,
    !.protective_stop = Intelligence!Unset]
  BY DEF Intelligence!Canonical, stop
<1> QED
  BY <1>1, <1>2, <1>3, Fields DEF Intelligence!IsConfig

\* Naming a configuration changes no number.
LEMMA NamedIsConfig ==
  ASSUME NEW c, Intelligence!IsConfig(c), NEW f \in {"setup_id", "symbol"}, NEW value
  PROVE  /\ Intelligence!IsConfig([c EXCEPT ![f] = value])
         /\ [c EXCEPT ![f] = value][f] = value
BY Fields DEF Intelligence!IsConfig

\* A correction keeps a configuration one.
LEMMA FixedIsConfig ==
  ASSUME NEW c, Intelligence!IsConfig(c), NEW path \in DOMAIN Fixes, NEW value \in Fixes[path]
  PROVE  Intelligence!IsConfig([c EXCEPT ![path] = value])
<1>1. path \in DOMAIN Intelligence!Empty /\ Intelligence!IsFix(path, value)
  BY RequestsAssumption DEF Configs!Empty, Intelligence!Empty, Configs!Unset, Intelligence!Unset
<1>2. \A f \in DOMAIN Intelligence!Empty :
        [c EXCEPT ![path] = value][f] = IF f = path THEN value ELSE c[f]
  BY Fields DEF Intelligence!IsConfig
<1>3. \A f \in DOMAIN Intelligence!Empty :
        f = path => [Intelligence!Empty EXCEPT ![path] = value][f] = value
  BY <1>1, Fields
<1>4. Intelligence!IsConfig([Intelligence!Empty EXCEPT ![path] = value])
  BY <1>1 DEF Intelligence!IsFix
<1> QED
  BY <1>1, <1>2, <1>3, <1>4, Fields DEF Intelligence!IsConfig

\* Where no error is found, the condition of none is met.
LEMMA NoErrors ==
  ASSUME NEW issues, Intelligence!Errors(issues) = {}, NEW path, NEW code,
         NEW condition, condition => Intelligence!Error(path, code) \in issues
  PROVE  ~condition
<1>1. Intelligence!Error(path, code).level = "ERROR"
  BY DEF Intelligence!Error
<1> QED
  BY <1>1 DEF Intelligence!Errors

\* A configuration without an error has a sound entry: the checks of the
\* schemas, of the service and of the setup types leave nothing to the engine.
LEMMA FaultlessIsSound ==
  ASSUME NEW c, Intelligence!IsConfig(c), Intelligence!EngineAccepts(c),
         Intelligence!AllowsEntry(c), c.enabled
  PROVE  Intelligence!SoundEntry(c)
<1> DEFINE Rules == Intelligence!RuleIssues(c)
           Semantic == Intelligence!SemanticIssues(c)
           All == Intelligence!ArmIssues(c)
           worst == Intelligence!WorstCaseEntry(c)
<1>1. Intelligence!Errors(All) = {} /\ Semantic \subseteq All
  BY DEF Intelligence!EngineAccepts, Intelligence!ArmIssues
<1>2. c.setup_type \in Intelligence!Types
  BY <1>1, NoErrors DEF Intelligence!ArmIssues
<1>3. Rules \subseteq All
  BY <1>2 DEF Intelligence!ArmIssues
<1>4. Intelligence!EntryEnabled(c)
  <2>1. ~Intelligence!EntryEnabled(c) => Intelligence!Error("", "ENTRY_SWITCHED_OFF") \in All
    BY <1>3 DEF Intelligence!RuleIssues, Intelligence!If
  <2> QED BY <1>1, <2>1, NoErrors
<1>5. c.required_before_entry = "on"
  <2>1. c.required_before_entry # "on" =>
          Intelligence!Error("required_before_entry", "TRAILING_STOP_BROKER_ORDER_REQUIRED") \in All
    BY <1>1, <1>4 DEF Intelligence!SemanticIssues, Intelligence!CommonIssues,
       Intelligence!TrailingIssues, Intelligence!If, Intelligence!EntryEnabled
  <2> QED BY <1>1, <2>1, NoErrors
<1>6. Intelligence!Given(c.initial_stop)
  <2>1. ~Intelligence!Given(c.initial_stop) =>
          Intelligence!Error("initial_stop", "MUST_BE_POSITIVE") \in All
    BY <1>3 DEF Intelligence!RuleIssues, Intelligence!If
  <2> QED BY <1>1, <2>1, NoErrors
<1>7. Intelligence!Given(worst)
  <2>1. ~Intelligence!Given(worst) =>
          Intelligence!Error("trigger_price", "MISSING_REQUIRED_FIELD") \in All
    BY <1>3 DEF Intelligence!RuleIssues, Intelligence!If
  <2> QED BY <1>1, <2>1, NoErrors
<1>8. ~(c.initial_stop >= worst)
  <2>1. c.initial_stop >= worst =>
          Intelligence!Error("initial_stop", "INVALID_RISK_CONFIGURATION") \in All
    BY <1>3, <1>6, <1>7 DEF Intelligence!RuleIssues, Intelligence!If
  <2> QED BY <1>1, <2>1, NoErrors
\* The numbers the prices are made of.
<1>9. /\ c.trigger_price \in Int /\ c.entry_price \in Int /\ c.maximum_limit_price \in Int
      /\ c.level \in Int /\ c.zone_max \in Int /\ c.initial_stop \in Int
      /\ c.trigger_offset \in Nat \cup {-1} /\ c.limit_offset \in Nat \cup {-1}
  BY DEF Intelligence!IsConfig, Intelligence!Unset
<1>10. Intelligence!EstimatedEntry(c) \in Int
  <2>1. Intelligence!TriggerOffset(c) \in Nat
    BY <1>9 DEF Intelligence!TriggerOffset, Intelligence!Unset
  <2>2. \A price \in Int : Intelligence!Plus(price, Intelligence!TriggerOffset(c)) \in Int
    BY <2>1 DEF Intelligence!Plus
  <2>3. Intelligence!RunnerEntry(c) \in Int
    BY <1>9 DEF Intelligence!RunnerEntry, Intelligence!Unset
  <2> QED
    BY <1>9, <2>2, <2>3 DEF Intelligence!EstimatedEntry, Intelligence!Unset
<1>11. Intelligence!MaximumLimit(c) \in Int
  BY <1>9, <1>10 DEF Intelligence!MaximumLimit, Intelligence!Unset
<1>12. worst \in Int
  BY <1>10, <1>11 DEF Intelligence!WorstCaseEntry
<1>13. 0 < c.initial_stop /\ c.initial_stop < worst
  BY <1>6, <1>8, <1>9, <1>12 DEF Intelligence!Given
<1>14. Intelligence!EngineArms(c)
  BY <1>4, <1>5, <1>6, <1>7 DEF Intelligence!EngineArms, Intelligence!Given, Intelligence!Unset
\* A limit that is given reaches the trigger that is given.
<1>15. ASSUME c.setup_type \notin Intelligence!Runners, Intelligence!IsNumber(c.trigger_price),
              Intelligence!Given(Intelligence!MaximumLimit(c))
       PROVE  Intelligence!MaximumLimit(c) >= c.trigger_price
  <2>1. Intelligence!EstimatedEntry(c) = c.trigger_price
    <3>1. c.setup_type # "position_management"
      BY DEF Intelligence!AllowsEntry, Intelligence!Role
    <3>2. c.trigger_price # Intelligence!Unset
      BY <1>15 DEF Intelligence!IsNumber, Intelligence!Unset
    <3> QED
      BY <1>15, <3>1, <3>2 DEF Intelligence!EstimatedEntry
  <2>2. CASE c.maximum_limit_price # Intelligence!Unset
    <3>1. Intelligence!MaximumLimit(c) = c.maximum_limit_price
      BY <1>15, <2>1, <2>2 DEF Intelligence!MaximumLimit, Intelligence!Given, Intelligence!Unset
    <3>2. Intelligence!IsNumber(c.maximum_limit_price)
      BY <1>9, <1>15, <3>1 DEF Intelligence!Given, Intelligence!IsNumber
    <3>3. c.maximum_limit_price < c.trigger_price =>
            Intelligence!Error("maximum_limit_price", "LIMIT_BELOW_TRIGGER") \in All
      BY <1>1, <1>15, <3>2 DEF Intelligence!SemanticIssues, Intelligence!CommonIssues, Intelligence!If
    <3>4. ~(c.maximum_limit_price < c.trigger_price)
      BY <1>1, <3>3, NoErrors
    <3> QED BY <1>9, <3>1, <3>4
  <2>3. CASE c.maximum_limit_price = Intelligence!Unset
    BY <1>9, <1>15, <2>1, <2>3
       DEF Intelligence!MaximumLimit, Intelligence!Given, Intelligence!Unset, Intelligence!IsNumber
  <2> QED BY <2>2, <2>3
<1> QED
  BY <1>13, <1>14, <1>15 DEF Intelligence!SoundEntry

-----------------------------------------------------------------------------
(* Requests.                                                               *)

\* A set of naturals with a member has a least one.
LEMMA LeastIndex ==
  ASSUME NEW S, S \subseteq Nat, S # {}
  PROVE  \E i \in S : \A j \in S : i <= j
<1>1. PICK i \in S : \A j \in S : ~(j < i)
  <2>1. PICK x \in S : TRUE
    OBVIOUS
  <2>2. \E y \in S : \A z \in S : ~(<<z, y>> \in OpToRel(<, Nat))
    BY <2>1, NatLessThanWellFounded, WFMin, Zenon
  <2> QED BY <2>2 DEF OpToRel
<1> QED BY <1>1

\* The number a text gives for a price that is not found otherwise is one.
LEMMA FirstAboveType ==
  ASSUME NEW numbers \in Seq(Int), NEW stop
  PROVE  Intelligence!FirstAbove(numbers, stop) \in Int
<1> DEFINE above == {i \in DOMAIN numbers : numbers[i] > stop}
<1>1. CASE above = {}
  BY <1>1 DEF Intelligence!FirstAbove, Intelligence!Unset
<1>2. CASE above # {}
  <2> above \subseteq Nat
    OBVIOUS
  <2> HIDE DEF above
  <2>1. \E i \in above : \A j \in above : i <= j
    BY <1>2, LeastIndex
  <2> USE DEF above
  <2>2. (CHOOSE i \in above : \A j \in above : i <= j) \in DOMAIN numbers
    BY <2>1
  <2> QED BY <1>2, <2>2 DEF Intelligence!FirstAbove
<1> QED BY <1>1, <1>2

\* What a text becomes is a configuration.
LEMMA TextIsConfig ==
  ASSUME NEW t, Intelligence!IsText(t), NEW id
  PROVE  Intelligence!IsConfig(Intelligence!FromText(t, id))
<1>1. /\ t.stop \in Int /\ t.risk \in Int /\ t.position \in Int /\ t.level \in Int
      /\ t.zone_min \in Int /\ t.zone_max \in Int
      /\ Intelligence!ReferencePrice(t) \in Int
  BY FirstAboveType DEF Intelligence!IsText, Intelligence!ReferencePrice
<1>2. Intelligence!Unset \in Int /\ DefaultRisk \in Int /\ DefaultPosition \in Int
  BY RequestsAssumption DEF Intelligence!Unset
<1>3. Intelligence!IsConfig(Intelligence!TextBase(t, id))
  BY Fields, EmptyIsConfig DEF Intelligence!TextBase, Intelligence!IsConfig
<1>4. Intelligence!IsConfig(Intelligence!Converted(t, id, DefaultRisk, DefaultPosition))
  <2> DEFINE base == Intelligence!TextBase(t, id)
             risk == IF t.risk # Intelligence!Unset THEN t.risk ELSE DefaultRisk
             position == IF t.position # Intelligence!Unset THEN t.position ELSE DefaultPosition
             price == Intelligence!ReferencePrice(t)
             level == IF t.setup_type \in Intelligence!Levelled THEN price ELSE Intelligence!Unset
             entry == IF t.setup_type \in Intelligence!Runners THEN price ELSE Intelligence!Unset
             low == IF t.setup_type \in Intelligence!Zoned THEN t.zone_min ELSE Intelligence!Unset
             high == IF t.setup_type \in Intelligence!Zoned THEN t.zone_max ELSE Intelligence!Unset
  <2>1. Intelligence!Converted(t, id, DefaultRisk, DefaultPosition) =
          [base EXCEPT !.max_risk = risk, !.max_position = position,
             !.has_trailing = TRUE, !.trailing_enabled = "on", !.never_lower_stop = "on",
             !.required_before_entry = "on", !.initial_stop = t.stop, !.stop_rules = t.steps,
             !.level = level, !.entry_price = entry, !.zone_min = low, !.zone_max = high]
    BY DEF Intelligence!Converted
  <2>2. /\ risk \in Int /\ position \in Int /\ level \in Int /\ entry \in Int
        /\ low \in Int /\ high \in Int
    BY <1>1, <1>2
  <2>3. Intelligence!IsConfig(base)
    BY <1>3
  <2> HIDE DEF base, risk, position, price, level, entry, low, high
  <2> DEFINE budget == [base EXCEPT !.max_risk = risk, !.max_position = position]
             switched == [budget EXCEPT
               !.has_trailing = TRUE, !.trailing_enabled = "on", !.never_lower_stop = "on",
               !.required_before_entry = "on", !.initial_stop = t.stop, !.stop_rules = t.steps]
             priced_ == [switched EXCEPT
               !.level = level, !.entry_price = entry, !.zone_min = low, !.zone_max = high]
  <2>4. Intelligence!IsConfig(budget)
    BY <2>2, <2>3, Fields DEF Intelligence!IsConfig
  <2>5. Intelligence!IsConfig(switched)
    <3> HIDE DEF budget
    <3> QED BY <1>1, <2>4, Fields DEF Intelligence!IsConfig
  <2>6. Intelligence!IsConfig(priced_)
    <3> HIDE DEF switched
    <3> QED BY <2>2, <2>5, Fields DEF Intelligence!IsConfig
  <2>7. Intelligence!Converted(t, id, DefaultRisk, DefaultPosition) = priced_
    BY <2>1
  <2> QED
    BY <2>6, <2>7
<1>5. Intelligence!IsConfig(Intelligence!Partial(t, id))
  BY <1>1, <1>2, <1>3, Fields DEF Intelligence!Partial, Intelligence!IsConfig
<1> QED
  BY <1>4, <1>5 DEF Intelligence!FromText

\* The scenarios of a request are a sequence of configurations.
LEMMA ScenariosAreConfigs ==
  ASSUME NEW r \in Requests
  PROVE  /\ \E S : Intelligence!Scenarios(r) \in Seq(S)
         /\ \A i \in DOMAIN Intelligence!Scenarios(r) :
              Intelligence!IsConfig(Intelligence!Scenarios(r)[i])
<1> DEFINE raws == Intelligence!Raw(r)
<1>1. Intelligence!IsRequest(r)
  BY RequestsAssumption
<1>2. (\E n \in Nat : DOMAIN raws = 1..n) /\ \A i \in DOMAIN raws : Intelligence!IsConfig(raws[i])
  <2>1. CASE r.form = "payload" /\ r.body \in Seq(Intelligence!Range(r.body))
             /\ \A i \in DOMAIN r.body : Intelligence!IsConfig(r.body[i])
    BY <2>1 DEF Intelligence!Raw
  <2>2. CASE r.form = "text" /\ Intelligence!IsText(r.body)
    <3>1. CASE r.symbol = ""
      <4>1. raws = <<>>
        BY <2>2, <3>1 DEF Intelligence!Raw
      <4>2. DOMAIN raws = 1..0
        BY <4>1
      <4> QED BY <4>2
    <3>2. CASE r.symbol # ""
      <4> DEFINE t == [r.body EXCEPT !.symbol = r.symbol]
                 id == NewIds[Len(analyses) + 1][1]
      <4>1. raws = <<Intelligence!FromText(t, id)>>
        BY <2>2, <3>2 DEF Intelligence!Raw
      <4>2. Intelligence!IsText(t)
        BY <2>2 DEF Intelligence!IsText
      <4>3. Intelligence!IsConfig(Intelligence!FromText(t, id))
        BY <4>2, TextIsConfig
      <4> HIDE DEF t, id
      <4> QED BY <4>1, <4>3
    <3> QED BY <3>1, <3>2
  <2> QED BY <1>1, <2>1, <2>2 DEF Intelligence!IsRequest
<1> DEFINE config(i) ==
             [raws[i] EXCEPT
                !.symbol = IF @ = "" THEN r.symbol ELSE @,
                !.setup_id = IF @ = "" THEN NewIds[Len(analyses) + 1][i] ELSE @]
<1>3. Intelligence!Scenarios(r) = [i \in DOMAIN raws |-> Intelligence!Canonical(config(i))]
  BY DEF Intelligence!Scenarios
<1>4. ASSUME NEW i \in DOMAIN raws PROVE Intelligence!IsConfig(config(i))
  BY <1>2, Fields DEF Intelligence!IsConfig
<1> HIDE DEF config, raws
<1>5. \A i \in DOMAIN raws : Intelligence!IsConfig(Intelligence!Scenarios(r)[i])
  BY <1>3, <1>4, CanonicalIsConfig
<1>6. \E S : Intelligence!Scenarios(r) \in Seq(S)
  <2>1. PICK n \in Nat : DOMAIN raws = 1..n
    BY <1>2
  <2> DEFINE S == {Intelligence!Scenarios(r)[i] : i \in 1..n}
  <2>2. Intelligence!Scenarios(r) \in [1..n -> S]
    BY <1>3, <2>1
  <2> QED BY <2>2, SeqDef
<1> QED
  BY <1>3, <1>5, <1>6

-----------------------------------------------------------------------------
(* The ledger only grows.                                                  *)

Kept == /\ DOMAIN analyses \subseteq DOMAIN analyses'
        /\ \A a \in DOMAIN analyses : analyses'[a] = analyses[a]

LEMMA AppendKeeps ==
  ASSUME Ledger, NEW x, IsAnalysis(x), analyses' = Append(analyses, x)
  PROVE  /\ Ledger' /\ Kept
         /\ Len(analyses') > Len(analyses) /\ analyses'[Len(analyses')] = x
<1>1. PICK S : analyses \in Seq(S)
  BY DEF Ledger
<1> DEFINE T == S \cup {x}
<1>2. analyses \in Seq(T) /\ x \in T
  BY <1>1
<1> HIDE DEF T
<1>3. /\ analyses' \in Seq(T) /\ Len(analyses') = Len(analyses) + 1
      /\ \A i \in 1..Len(analyses) : analyses'[i] = analyses[i]
      /\ analyses'[Len(analyses) + 1] = x
  BY <1>2, AppendProperties
<1>4. Len(analyses) \in Nat /\ DOMAIN analyses = 1..Len(analyses)
      /\ DOMAIN analyses' = 1..(Len(analyses) + 1)
  BY <1>2, <1>3
<1>5. Kept
  BY <1>3, <1>4 DEF Kept
<1>6. \A a \in DOMAIN analyses' : IsAnalysis(analyses'[a])
  BY <1>3, <1>4 DEF Ledger
<1> QED
  BY <1>3, <1>4, <1>5, <1>6 DEF Ledger

\* An analysis holds one configuration or the scenarios of a request.
LEMMA StoreKeeps ==
  ASSUME Ledger, NEW source, NEW input, NEW key, NEW scenarios, NEW given, NEW forced,
         scenarios # <<>>, \E S : scenarios \in Seq(S),
         \A i \in DOMAIN scenarios : Intelligence!IsConfig(scenarios[i]),
         Intelligence!Store(source, input, key, scenarios, given, forced)
  PROVE  /\ Ledger' /\ Kept /\ Len(analyses') > Len(analyses)
         /\ analyses'[Len(analyses')].scenarios = scenarios
         /\ analyses'[Len(analyses')].setup = scenarios[1].setup_id
<1>1. PICK previous : analyses' = Append(analyses,
        [source |-> source, input |-> input, key |-> key, setup |-> scenarios[1].setup_id,
         scenarios |-> scenarios, previous |-> previous])
  BY DEF Intelligence!Store
<1> DEFINE x == [source |-> source, input |-> input, key |-> key, setup |-> scenarios[1].setup_id,
                 scenarios |-> scenarios, previous |-> previous]
<1>2. x.scenarios = scenarios /\ x.setup = scenarios[1].setup_id
  OBVIOUS
<1>3. IsAnalysis(x)
  BY <1>2 DEF IsAnalysis
<1> HIDE DEF x
<1> QED
  BY <1>1, <1>2, <1>3, AppendKeeps DEF x

LEMMA DeriveKeeps ==
  ASSUME Ledger, NEW source, NEW config, NEW given, Intelligence!IsConfig(config),
         Intelligence!Derive(source, config, given)
  PROVE  /\ Ledger' /\ Kept
         /\ Intelligence!Persistable(<<config>>) =>
              /\ Len(analyses') > Len(analyses)
              /\ analyses'[Len(analyses')].scenarios = <<config>>
              /\ analyses'[Len(analyses')].setup = config.setup_id
<1>1. CASE Intelligence!Persistable(<<config>>)
  <2> DEFINE scenarios == <<config>>
  <2>1. /\ scenarios # <<>> /\ scenarios \in Seq({config})
        /\ DOMAIN scenarios = {1} /\ scenarios[1] = config
    OBVIOUS
  <2>2. Intelligence!Store(source, <<"payload", scenarios, "">>, "", scenarios, given, TRUE)
    BY <1>1 DEF Intelligence!Derive
  <2> HIDE DEF scenarios
  <2>3. \A i \in DOMAIN scenarios : Intelligence!IsConfig(scenarios[i])
    BY <2>1
  <2>4. /\ Ledger' /\ Kept /\ Len(analyses') > Len(analyses)
        /\ analyses'[Len(analyses')].scenarios = scenarios
        /\ analyses'[Len(analyses')].setup = scenarios[1].setup_id
    BY <2>1, <2>2, <2>3, StoreKeeps
  <2> QED BY <2>1, <2>4 DEF scenarios
<1>2. CASE ~Intelligence!Persistable(<<config>>)
  <2>1. analyses' = analyses
    BY <1>2 DEF Intelligence!Derive
  <2> QED BY <1>2, <2>1 DEF Ledger, Kept
<1> QED BY <1>1, <1>2

LEMMA AnswersStay ==
  ASSUME AnswersOK, Kept,
         \A x \in answers' :
           \/ x \in answers
           \/ x.analysis \in DOMAIN analyses /\ x.chosen \in {0} \cup DOMAIN ScenariosOf(x.analysis)
  PROVE  AnswersOK'
BY DEF AnswersOK, Kept, ScenariosOf

LEMMA RollbacksStay ==
  ASSUME RollbacksOK, Kept, DOMAIN rollbacks' = Callers,
         \A p \in Callers : rollbacks'[p] # Intelligence!Idle => rollbacks'[p] = rollbacks[p]
  PROVE  RollbacksOK'
<1>1. ASSUME NEW t, IsRollback(t) PROVE IsRollback(t)'
  BY <1>1 DEF IsRollback, Kept, Restored, ScenariosOf
<1> QED
  BY <1>1 DEF RollbacksOK

LEMMA StillKept ==
  ASSUME UNCHANGED analyses
  PROVE  Kept /\ (Ledger => Ledger')
BY DEF Kept, Ledger

LEMMA SelectedIsScenario ==
  ASSUME IntelIInv, NEW a \in DOMAIN analyses
  PROVE  Intelligence!Selected(a) \in DOMAIN ScenariosOf(a)
<1> DEFINE chosen == {x \in answers : x.analysis = a /\ x.ambiguity = Intelligence!Selection
                                                    /\ x.chosen # 0}
<1>1. CASE chosen = {}
  <2>1. Intelligence!Selected(a) = 1
    BY <1>1 DEF Intelligence!Selected
  <2>2. PICK S : ScenariosOf(a) \in Seq(S) /\ ScenariosOf(a) # <<>>
    BY DEF IntelIInv, Ledger, IsAnalysis, ScenariosOf
  <2> QED BY <2>1, <2>2
<1>2. CASE chosen # {}
  <2>1. (CHOOSE x \in chosen : TRUE) \in chosen
    BY <1>2
  <2>2. Intelligence!Selected(a) = (CHOOSE x \in chosen : TRUE).chosen
    BY <1>2 DEF Intelligence!Selected
  <2> QED BY <2>1, <2>2 DEF IntelIInv, AnswersOK
<1> QED BY <1>1, <1>2

\* What a rollback saves is a configuration under the id of its analysis.
LEMMA RestoredIsConfig ==
  ASSUME IntelIInv, NEW a \in DOMAIN analyses, NEW scenario \in DOMAIN ScenariosOf(a)
  PROVE  /\ Intelligence!IsConfig(Restored(a, scenario))
         /\ Restored(a, scenario).setup_id = analyses[a].setup
<1> DEFINE named == [ScenariosOf(a)[scenario] EXCEPT !.setup_id = analyses[a].setup]
<1>1. Intelligence!IsConfig(ScenariosOf(a)[scenario])
  BY DEF IntelIInv, Ledger, IsAnalysis, ScenariosOf
<1>2. Intelligence!IsConfig(named) /\ named.setup_id = analyses[a].setup
  BY <1>1, NamedIsConfig
<1> HIDE DEF named
<1>3. Restored(a, scenario) = Intelligence!Canonical(named)
  BY DEF Restored, named
<1> QED
  BY <1>2, <1>3, CanonicalIsConfig

\* What the engine has accepted is stored when it is given once more.
LEMMA AcceptedIsPersistable ==
  ASSUME NEW c, Intelligence!EngineAccepts(c)
  PROVE  Intelligence!Persistable(<<c>>)
<1>1. Intelligence!Errors(Intelligence!ArmIssues(c)) = {}
  BY DEF Intelligence!EngineAccepts
<1>2. c.setup_type \in Intelligence!Types
  BY <1>1, NoErrors DEF Intelligence!ArmIssues
<1>3. c.symbol # ""
  <2>1. c.symbol = "" =>
          Intelligence!Error("symbol", "MISSING_REQUIRED_FIELD") \in Intelligence!ArmIssues(c)
    BY <1>2 DEF Intelligence!ArmIssues, Intelligence!RuleIssues, Intelligence!If
  <2> QED BY <1>1, <2>1, NoErrors
<1>4. ~Intelligence!ValidateRaises(c)
  BY <1>2 DEF Intelligence!EngineAccepts
<1> DEFINE scenarios == <<c>>
<1>5. DOMAIN scenarios = {1} /\ scenarios[1] = c
  OBVIOUS
<1> HIDE DEF scenarios
<1>6. Intelligence!Persistable(scenarios)
  BY <1>2, <1>3, <1>4, <1>5
     DEF Intelligence!Persistable, Intelligence!Raises, Intelligence!Saveable
<1> QED BY <1>6 DEF scenarios

-----------------------------------------------------------------------------
(* The steps of the intelligence service.                                  *)

LEMMA InitIntel == Intelligence!Init => IntelIInv
<1> SUFFICES ASSUME Intelligence!Init PROVE IntelIInv
  OBVIOUS
<1>1. analyses \in Seq({}) /\ DOMAIN analyses = {}
  BY DEF Intelligence!Init
<1>2. Ledger
  BY <1>1 DEF Ledger
<1> QED
  BY <1>2 DEF Intelligence!Init, IntelIInv, AnswersOK, SavedOK, RollbacksOK

LEMMA AnalyzeKeeps ==
  ASSUME IntelIInv, NEW r \in Requests, NEW forced \in BOOLEAN, Intelligence!Analyze(r, forced)
  PROVE  IntelIInv'
<1> DEFINE scenarios == Intelligence!Scenarios(r)
<1>1. /\ \E S : scenarios \in Seq(S)
      /\ \A i \in DOMAIN scenarios : Intelligence!IsConfig(scenarios[i])
  BY ScenariosAreConfigs
<1>2. PICK input : Intelligence!Store(r.form, input, r.key, scenarios, 0, forced)
  BY DEF Intelligence!Analyze
<1>3. DOMAIN scenarios # {}
  BY DEF Intelligence!Analyze, Intelligence!Persistable
<1>4. UNCHANGED <<answers, saved, rollbacks>>
  BY DEF Intelligence!Analyze
<1> HIDE DEF scenarios
<1>5. scenarios # <<>>
  BY <1>3
<1>6. Ledger' /\ Kept
  BY <1>1, <1>2, <1>5, StoreKeeps DEF IntelIInv
<1> QED
  BY <1>4, <1>6, AnswersStay, RollbacksStay DEF IntelIInv, SavedOK, RollbacksOK

LEMMA SaveKeeps ==
  ASSUME IntelIInv, NEW config, Intelligence!IsConfig(config), Intelligence!EngineAccepts(config),
         Intelligence!Save(config)
  PROVE  SavedOK'
BY DEF IntelIInv, SavedOK, Intelligence!Save

LEMMA SaveSetupKeeps ==
  ASSUME IntelIInv, NEW r \in Requests, NEW i \in DOMAIN r.body, r.form = "payload",
         Intelligence!SaveSetup(r.body[i])
  PROVE  IntelIInv'
<1>1. Intelligence!IsConfig(r.body[i])
  BY RequestsAssumption DEF Intelligence!IsRequest
<1>2. Intelligence!IsConfig(Intelligence!Canonical(r.body[i]))
  BY <1>1, CanonicalIsConfig
<1>3. SavedOK' /\ UNCHANGED <<analyses, answers, rollbacks>>
  BY <1>2, SaveKeeps DEF Intelligence!SaveSetup
<1> QED
  BY <1>3, StillKept, AnswersStay, RollbacksStay DEF IntelIInv, RollbacksOK

\* An answer names an analysis and none or one of its scenarios.
LEMMA ResolveKeeps ==
  ASSUME IntelIInv, Kept, NEW a \in DOMAIN analyses, NEW ambiguity, NEW ref,
         NEW chosen \in {0} \cup DOMAIN ScenariosOf(a),
         Intelligence!Resolve(a, ambiguity, chosen, ref)
  PROVE  /\ AnswersOK' /\ SavedOK' /\ RollbacksOK'
<1> DEFINE answer == [analysis |-> a, ambiguity |-> ambiguity, chosen |-> chosen, ref |-> ref]
<1>1. answer.analysis = a /\ answer.chosen = chosen
  OBVIOUS
<1>2. \A x \in answers' : x \in answers \/ x = answer
  BY DEF Intelligence!Resolve
<1>3. UNCHANGED <<saved, rollbacks>>
  BY DEF Intelligence!Resolve
<1> HIDE DEF answer
<1>4. AnswersOK'
  <2>1. \A x \in answers' :
           \/ x \in answers
           \/ x.analysis \in DOMAIN analyses /\ x.chosen \in {0} \cup DOMAIN ScenariosOf(x.analysis)
    BY <1>1, <1>2
  <2> QED BY <2>1, AnswersStay DEF IntelIInv
<1>5. RollbacksOK'
  BY <1>3, RollbacksStay DEF IntelIInv, RollbacksOK
<1> QED
  BY <1>3, <1>4, <1>5 DEF IntelIInv, SavedOK

LEMMA UpdateFieldKeeps ==
  ASSUME IntelIInv, NEW a \in DOMAIN analyses, NEW path \in DOMAIN Fixes,
         NEW value \in Fixes[path], Intelligence!UpdateField(a, path, value)
  PROVE  IntelIInv'
<1>1. PICK ambiguity \in Intelligence!FieldDoubts(a) :
        /\ Intelligence!Derive("RESOLUTION",
             Intelligence!Patched(a, ambiguity.of, path, value), a)
        /\ Intelligence!Resolve(a, ambiguity, 0, Len(analyses) + 1)
  BY DEF Intelligence!UpdateField
<1>2. ambiguity.of \in DOMAIN ScenariosOf(a)
  <2>1. PICK i \in DOMAIN ScenariosOf(a) : \E issue :
          ambiguity = [of |-> i, path |-> issue.path, code |-> issue.code, level |-> issue.level]
    BY DEF Intelligence!FieldDoubts, ScenariosOf
  <2> QED BY <2>1
<1> DEFINE config == [ScenariosOf(a)[ambiguity.of] EXCEPT ![path] = value]
<1>3. Intelligence!IsConfig(ScenariosOf(a)[ambiguity.of])
  BY <1>2 DEF IntelIInv, Ledger, IsAnalysis, ScenariosOf
<1>4. Intelligence!IsConfig(config)
  BY <1>3, FixedIsConfig
<1>5. Intelligence!Patched(a, ambiguity.of, path, value) = Intelligence!Canonical(config)
  BY DEF Intelligence!Patched, ScenariosOf
<1> HIDE DEF config
<1>6. Intelligence!IsConfig(Intelligence!Patched(a, ambiguity.of, path, value))
  BY <1>4, <1>5, CanonicalIsConfig
<1>7. Ledger' /\ Kept
  BY <1>1, <1>6, DeriveKeeps DEF IntelIInv
<1>8. AnswersOK' /\ SavedOK' /\ RollbacksOK'
  BY <1>1, <1>7, ResolveKeeps
<1> QED
  BY <1>7, <1>8 DEF IntelIInv

LEMMA RollbackSavesKeeps ==
  ASSUME IntelIInv, NEW p \in Callers, NEW a \in DOMAIN analyses,
         NEW requested \in {0} \cup DOMAIN ScenariosOf(a),
         Intelligence!RollbackSaves(p, a, requested)
  PROVE  IntelIInv'
<1> DEFINE scenario == Intelligence!ScenarioOf(a, requested)
<1>1. scenario \in DOMAIN ScenariosOf(a) /\ (requested # 0 => scenario = requested)
  BY SelectedIsScenario DEF Intelligence!ScenarioOf
<1>2. Intelligence!Canonical(Intelligence!Prepared(a, requested)) = Restored(a, scenario)
  BY DEF Intelligence!Prepared, Restored, ScenariosOf
<1>3. Intelligence!IsConfig(Restored(a, scenario))
  BY <1>1, RestoredIsConfig
<1>4. /\ Intelligence!EngineAccepts(Restored(a, scenario))
      /\ Intelligence!Save(Restored(a, scenario))
      /\ rollbacks' = [rollbacks EXCEPT ![p] =
           [analysis |-> a, requested |-> requested,
            scenario |-> scenario, config |-> Restored(a, scenario)]]
      /\ UNCHANGED <<analyses, answers>>
  BY <1>2 DEF Intelligence!RollbackSaves
<1>5. SavedOK'
  BY <1>3, <1>4, SaveKeeps
<1>6. Kept /\ Ledger' /\ AnswersOK'
  BY <1>4, StillKept, AnswersStay DEF IntelIInv
<1>7. PICK t : /\ rollbacks' = [rollbacks EXCEPT ![p] = t]
               /\ t.analysis = a /\ t.requested = requested /\ t.scenario = scenario
               /\ t.config = Restored(a, scenario)
  <2> DEFINE u == [analysis |-> a, requested |-> requested,
                   scenario |-> scenario, config |-> Restored(a, scenario)]
  <2>1. /\ u.analysis = a /\ u.requested = requested
        /\ u.scenario = scenario /\ u.config = Restored(a, scenario)
    OBVIOUS
  <2>2. rollbacks' = [rollbacks EXCEPT ![p] = u]
    BY <1>4
  <2> HIDE DEF u, scenario
  <2> QED BY <2>1, <2>2
<1>8. IsRollback(t)
  <2> HIDE DEF scenario
  <2> QED BY <1>1, <1>3, <1>4, <1>7 DEF IsRollback
<1>9. ASSUME NEW u, IsRollback(u) PROVE IsRollback(u)'
  BY <1>4, <1>9 DEF IsRollback, Restored, ScenariosOf
<1>10. DOMAIN rollbacks' = Callers /\ rollbacks'[p] = t
       /\ \A q \in Callers : q # p => rollbacks'[q] = rollbacks[q]
  BY <1>7 DEF IntelIInv, RollbacksOK
<1>11. RollbacksOK'
  BY <1>8, <1>9, <1>10 DEF IntelIInv, RollbacksOK
<1> QED
  BY <1>5, <1>6, <1>11 DEF IntelIInv

\* The record prepares again what was saved, or another scenario is selected.
LEMMA RecordKeeps ==
  ASSUME IntelIInv, NEW p \in Callers, Intelligence!RollbackRecords(p)
  PROVE  /\ IntelIInv'
         /\ rollbacks' = [rollbacks EXCEPT ![p] = Intelligence!Idle]
         /\ \/ /\ rollbacks[p].requested = 0
               /\ Intelligence!Selected(rollbacks[p].analysis) # rollbacks[p].scenario
            \/ /\ Len(analyses') > Len(analyses)
               /\ analyses'[Len(analyses')].setup = analyses[rollbacks[p].analysis].setup
               /\ analyses'[Len(analyses')].scenarios = <<rollbacks[p].config>>
<1> DEFINE t == rollbacks[p]
           a == t.analysis
           scenario == Intelligence!ScenarioOf(a, t.requested)
           config == Restored(a, scenario)
<1>1. t # Intelligence!Idle /\ IsRollback(t)
  BY DEF Intelligence!RollbackRecords, IntelIInv, RollbacksOK
<1>2. a \in DOMAIN analyses /\ scenario \in DOMAIN ScenariosOf(a)
      /\ (t.requested = 0 => scenario = Intelligence!Selected(a))
      /\ (t.requested # 0 => scenario = t.scenario)
  BY <1>1, SelectedIsScenario DEF IsRollback, Intelligence!ScenarioOf
<1>3. Intelligence!Canonical(Intelligence!Prepared(a, t.requested)) = config
  BY DEF Intelligence!Prepared, Restored, ScenariosOf
<1>4. PICK given : Intelligence!Derive("ROLLBACK", config, given)
  BY <1>3 DEF Intelligence!RollbackRecords
<1>5. /\ rollbacks' = [rollbacks EXCEPT ![p] = Intelligence!Idle]
      /\ UNCHANGED <<answers, saved>>
  BY DEF Intelligence!RollbackRecords
<1>6. Intelligence!IsConfig(config) /\ config.setup_id = analyses[a].setup
  BY <1>2, RestoredIsConfig
<1> HIDE DEF config
<1>7. /\ Ledger' /\ Kept
      /\ Intelligence!Persistable(<<config>>) =>
           /\ Len(analyses') > Len(analyses)
           /\ analyses'[Len(analyses')].scenarios = <<config>>
           /\ analyses'[Len(analyses')].setup = config.setup_id
  BY <1>4, <1>6, DeriveKeeps DEF IntelIInv
<1>8. IntelIInv'
  <2>1. RollbacksOK'
    BY <1>5, <1>7, RollbacksStay DEF IntelIInv, RollbacksOK
  <2>2. AnswersOK'
    BY <1>5, <1>7, AnswersStay DEF IntelIInv
  <2> QED BY <1>5, <1>7, <2>1, <2>2 DEF IntelIInv, SavedOK
<1>9. CASE scenario = t.scenario
  <2>1. config = t.config /\ Intelligence!EngineAccepts(config)
    BY <1>1, <1>9 DEF IsRollback, config
  <2>2. Intelligence!Persistable(<<config>>)
    BY <2>1, AcceptedIsPersistable
  <2> QED BY <1>5, <1>6, <1>7, <1>8, <2>1, <2>2
<1>10. CASE scenario # t.scenario
  BY <1>2, <1>5, <1>8, <1>10
<1> QED BY <1>9, <1>10

LEMMA NextIntel ==
  IntelIInv /\ (Intelligence!Next \/ UNCHANGED Intelligence!vars) => IntelIInv'
<1> SUFFICES ASSUME IntelIInv, Intelligence!Next \/ UNCHANGED Intelligence!vars PROVE IntelIInv'
  OBVIOUS
<1>1. CASE UNCHANGED Intelligence!vars
  BY <1>1, StillKept, AnswersStay, RollbacksStay
     DEF Intelligence!vars, IntelIInv, SavedOK, RollbacksOK
<1>2. CASE \E r \in Requests, forced \in BOOLEAN : Intelligence!Analyze(r, forced)
  BY <1>2, AnalyzeKeeps
<1>3. CASE \E r \in Requests : \E i \in DOMAIN r.body :
             r.form = "payload" /\ Intelligence!SaveSetup(r.body[i])
  BY <1>3, SaveSetupKeeps
<1>4. ASSUME NEW a \in DOMAIN analyses,
             Intelligence!SelectScenario(a) \/ Intelligence!Acknowledge(a)
      PROVE  IntelIInv'
  <2>1. UNCHANGED analyses
    BY <1>4 DEF Intelligence!SelectScenario, Intelligence!Acknowledge
  <2>2. PICK chosen \in {0} \cup DOMAIN ScenariosOf(a) : \E ambiguity :
          Intelligence!Resolve(a, ambiguity, chosen, 0)
    BY <1>4 DEF Intelligence!SelectScenario, Intelligence!Acknowledge, ScenariosOf
  <2> QED BY <2>1, <2>2, StillKept, ResolveKeeps DEF IntelIInv
<1>5. CASE \E a \in DOMAIN analyses : \E path \in DOMAIN Fixes : \E value \in Fixes[path] :
             Intelligence!UpdateField(a, path, value)
  BY <1>5, UpdateFieldKeeps
<1>6. CASE \E a \in DOMAIN analyses : \E p \in Callers :
             \E requested \in {0} \cup DOMAIN ScenariosOf(a) :
               Intelligence!RollbackSaves(p, a, requested)
  BY <1>6, RollbackSavesKeeps
<1>7. CASE \E p \in Callers : Intelligence!RollbackRecords(p)
  BY <1>7, RecordKeeps
<1> QED
  BY <1>1, <1>2, <1>3, <1>4, <1>5, <1>6, <1>7 DEF Intelligence!Next, ScenariosOf

\* Only the record ends a rollback.
LEMMA NextTells ==
  ASSUME IntelIInv, Intelligence!Next, NEW p \in Callers,
         rollbacks[p] # Intelligence!Idle, rollbacks'[p] = Intelligence!Idle
  PROVE  \/ /\ rollbacks[p].requested = 0
            /\ Intelligence!Selected(rollbacks[p].analysis) # rollbacks[p].scenario
         \/ /\ Len(analyses') > Len(analyses)
            /\ analyses'[Len(analyses')].setup = analyses[rollbacks[p].analysis].setup
            /\ analyses'[Len(analyses')].scenarios = <<rollbacks[p].config>>
<1>1. DOMAIN rollbacks = Callers
  BY DEF IntelIInv, RollbacksOK
<1>2. ASSUME UNCHANGED rollbacks PROVE FALSE
  BY <1>2
<1>3. ASSUME NEW q \in Callers, NEW a, NEW requested, Intelligence!RollbackSaves(q, a, requested)
      PROVE  FALSE
  <2>1. PICK t : rollbacks' = [rollbacks EXCEPT ![q] = t] /\ rollbacks[q] = Intelligence!Idle
    BY <1>3 DEF Intelligence!RollbackSaves
  <2> QED BY <1>1, <2>1
<1>4. PICK q \in Callers : Intelligence!RollbackRecords(q)
  BY <1>2, <1>3 DEF Intelligence!Next, Intelligence!Analyze, Intelligence!SaveSetup,
     Intelligence!SelectScenario, Intelligence!Acknowledge, Intelligence!UpdateField,
     Intelligence!Resolve
<1>5. q = p
  BY <1>1, <1>4, RecordKeeps
<1> QED
  BY <1>4, <1>5, RecordKeeps

-----------------------------------------------------------------------------
LEMMA IntelSteps ==
  ASSUME ResearchNext \/ UNCHANGED all
  PROVE  Intelligence!Next \/ UNCHANGED Intelligence!vars
BY DEF ResearchNext, all, InLearning, InRadar, InRuns, InAccuracy, InIntelligence, intelligenceVars,
   Intelligence!vars

LEMMA IntelInvariant == ResearchSpec => []IntelIInv
<1>1. ResearchInit => IntelIInv
  BY InitIntel DEF ResearchInit
<1>2. IntelIInv /\ [ResearchNext]_all => IntelIInv'
  BY IntelSteps, NextIntel
<1> QED
  BY <1>1, <1>2, PTL DEF ResearchSpec, all

\* What the intelligence service calls ready to arm, and what the engine saved,
\* the engine arms with its stop below the worst price it may fill at, for any
\* prices, callers and analyses (the intelligence service and its validator).
THEOREM ReadyIsSound == ResearchSpec => []ArmableEntriesAreSound
<1>1. IntelIInv => ArmableEntriesAreSound
  <2> SUFFICES ASSUME IntelIInv,
                      NEW c \in saved \cup UNION {Intelligence!Ready(a) : a \in DOMAIN analyses},
                      Intelligence!AllowsEntry(c), c.enabled
               PROVE  Intelligence!SoundEntry(c)
    BY DEF ArmableEntriesAreSound, Intelligence!ArmableEntriesAreSound
  <2>1. Intelligence!IsConfig(c) /\ Intelligence!EngineAccepts(c)
    <3>1. CASE c \in saved
      BY <3>1 DEF IntelIInv, SavedOK
    <3>2. CASE \E a \in DOMAIN analyses : c \in Intelligence!Ready(a)
      <4>1. PICK a \in DOMAIN analyses : c \in Intelligence!Ready(a)
        BY <3>2
      <4>2. \E i \in DOMAIN ScenariosOf(a) : c = ScenariosOf(a)[i]
        BY <4>1 DEF Intelligence!Ready, Intelligence!Range, ScenariosOf
      <4>3. Intelligence!IsConfig(c)
        BY <4>2 DEF IntelIInv, Ledger, IsAnalysis, ScenariosOf
      <4>4. c.setup_type \in Intelligence!Types => ~Intelligence!ValidateRaises(c)
        <5> DEFINE scenarios == <<c>>
        <5>1. DOMAIN scenarios = {1} /\ scenarios[1] = c
          OBVIOUS
        <5>2. ~Intelligence!Raises(scenarios)
          BY <4>1 DEF Intelligence!Ready
        <5> HIDE DEF scenarios
        <5> QED BY <5>1, <5>2 DEF Intelligence!Raises
      <4> QED
        BY <4>1, <4>3, <4>4 DEF Intelligence!Ready, Intelligence!Armable,
           Intelligence!EngineAccepts
    <3> QED BY <3>1, <3>2
  <2> QED BY <2>1, FaultlessIsSound
<1> QED
  BY <1>1, IntelInvariant, PTL

\* A rollback's record shows the configuration this rollback saved, unless the
\* choice was left to the selection and the selection has moved, however the
\* saves, analyses and resolutions of other callers fall into the wait
\* (routes_intelligence.py's rollback).
THEOREM RecordsTellTheSave == ResearchSpec => RollbackTellsWhatItSaved
<1>1. IntelIInv /\ [ResearchNext]_all =>
        [\A p \in Callers :
           LET t == rollbacks[p]
               newest == analyses'[Len(analyses')]
           IN (t # Intelligence!Idle /\ rollbacks'[p] = Intelligence!Idle) =>
                \/ t.requested = 0 /\ Intelligence!Selected(t.analysis) # t.scenario
                \/ /\ Len(analyses') > Len(analyses)
                   /\ newest.setup = analyses[t.analysis].setup
                   /\ newest.scenarios = <<t.config>>]_(Intelligence!vars)
  BY IntelSteps, NextTells
<1> QED
  BY <1>1, IntelInvariant, PTL
     DEF ResearchSpec, all, RollbackTellsWhatItSaved, Intelligence!RollbackTellsWhatItSaved

-----------------------------------------------------------------------------
(* The accuracy of the forecast models.  An outcome that is judged stays    *)
(* judged, whatever the verdict becomes, so what a scorecard or a rebuild   *)
(* under way has counted is still there; and without a member that answered *)
(* and has a grade no term of the consensus is positive.                    *)

IsEval(t) ==
  t = [at |-> t.at, seen |-> t.seen, todo |-> t.todo, changed |-> t.changed, tally |-> t.tally]

Judgements(m) == Accuracy!Size(Accuracy!Tally(m))

\* What was counted for a model is no more than what is judged of it.
Within(c, size) == c.hit \in Nat /\ c.miss \in Nat /\ Accuracy!Size(c) <= size

CardsCount ==
  \A m \in Members : cards[m] # None => Within(cards[m], Judgements(m)) /\ Accuracy!Size(cards[m]) # 0

Rebuilding ==
  \A x \in Accuracy!Actors : evaluations[x].at = "replace" =>
    \A m \in Members : Within(evaluations[x].tally[m], Judgements(m))

AccuracyIInv ==
  /\ outcome = [i \in Accuracy!Forecasts |-> outcome[i]]
  /\ evaluations = [x \in Accuracy!Actors |-> evaluations[x]]
  /\ \A x \in Accuracy!Actors : IsEval(evaluations[x])
  /\ CardsCount
  /\ Rebuilding

\* Two grades are counted apart, and together they only grow.
LEMMA GradesGrow ==
  ASSUME NEW S, IsFiniteSet(S), NEW H \in SUBSET S, NEW M \in SUBSET S, H \cap M = {}
  PROVE  /\ Cardinality(H) \in Nat /\ Cardinality(M) \in Nat
         /\ \A G \in SUBSET (H \union M), N \in SUBSET (H \union M) : G \cap N = {} =>
              Cardinality(G) + Cardinality(N) <= Cardinality(H) + Cardinality(M)
<1>1. \A T \in SUBSET S : IsFiniteSet(T) /\ Cardinality(T) \in Nat
  BY FS_Subset, FS_CardinalityType
<1>2. ASSUME NEW A \in SUBSET S, NEW B \in SUBSET S, A \cap B = {}
      PROVE  Cardinality(A \union B) = Cardinality(A) + Cardinality(B)
  <2>1. Cardinality(A \union B) = Cardinality(A) + Cardinality(B) - Cardinality(A \cap B)
    BY <1>1, FS_Union
  <2> QED BY <1>1, <1>2, <2>1, FS_EmptySet
<1>3. ASSUME NEW G \in SUBSET (H \union M), NEW N \in SUBSET (H \union M), G \cap N = {}
      PROVE  Cardinality(G) + Cardinality(N) <= Cardinality(H) + Cardinality(M)
  <2>1. G \in SUBSET S /\ N \in SUBSET S /\ G \union N \in SUBSET (H \union M)
    OBVIOUS
  <2>2. Cardinality(G \union N) = Cardinality(G) + Cardinality(N)
    BY <1>2, <1>3, <2>1
  <2>3. Cardinality(H \union M) = Cardinality(H) + Cardinality(M)
    BY <1>2
  <2>4. IsFiniteSet(H \union M)
    BY <1>1
  <2>5. Cardinality(G \union N) <= Cardinality(H \union M)
    BY <2>1, <2>4, FS_Subset
  <2> QED BY <2>2, <2>3, <2>5
<1> QED
  BY <1>1, <1>3

LEMMA ForecastsAreFinite == IsFiniteSet(Accuracy!Forecasts)
BY AccuracyAssumption, FS_Interval DEF Accuracy!Forecasts

LEMMA SameSizes == \A S : Accuracy!Cardinality(S) = Cardinality(S)
BY DEF Accuracy!Cardinality, Cardinality

\* The counts of now, and those of after a step that takes no judgement back.
LEMMA TallyNow ==
  ASSUME NEW m
  PROVE  LET c == Accuracy!Tally(m)
         IN  c.hit \in Nat /\ c.miss \in Nat /\ Accuracy!Size(c) \in Nat /\ Judgements(m) \in Nat
<1>1. /\ Accuracy!With(m, "HIT") \in SUBSET Accuracy!Forecasts
      /\ Accuracy!With(m, "MISS") \in SUBSET Accuracy!Forecasts
  BY DEF Accuracy!With
<1>2. /\ Cardinality(Accuracy!With(m, "HIT")) \in Nat
      /\ Cardinality(Accuracy!With(m, "MISS")) \in Nat
  BY <1>1, ForecastsAreFinite, FS_Subset, FS_CardinalityType
<1> QED
  BY <1>2, SameSizes DEF Accuracy!Tally, Accuracy!Size, Judgements

LEMMA TallyGrows ==
  ASSUME \A i \in Accuracy!Forecasts :
           outcome[i] \in Accuracy!Judged => outcome'[i] \in Accuracy!Judged,
         NEW m
  PROVE  /\ Judgements(m) \in Nat /\ Judgements(m)' \in Nat
         /\ Judgements(m) <= Judgements(m)'
<1> DEFINE G == Accuracy!With(m, "HIT")
           N == Accuracy!With(m, "MISS")
<1>1. PICK H, M : H = G' /\ M = N'
  OBVIOUS
<1>2. H \in SUBSET Accuracy!Forecasts /\ M \in SUBSET Accuracy!Forecasts /\ H \cap M = {}
  BY <1>1 DEF Accuracy!With
<1>3. G \in SUBSET (H \union M) /\ N \in SUBSET (H \union M) /\ G \cap N = {}
  BY <1>1 DEF Accuracy!With, Accuracy!Judged
<1>4. /\ Cardinality(H) \in Nat /\ Cardinality(M) \in Nat
      /\ Cardinality(G) + Cardinality(N) <= Cardinality(H) + Cardinality(M)
  <2> HIDE DEF G, N
  <2> QED BY <1>2, <1>3, ForecastsAreFinite, GradesGrow
<1>5. /\ Judgements(m) = Cardinality(G) + Cardinality(N)
      /\ Judgements(m)' = Cardinality(H) + Cardinality(M)
  BY <1>1, SameSizes DEF Judgements, Accuracy!Tally, Accuracy!Size
<1>6. Judgements(m) \in Nat
  BY TallyNow
<1> QED
  BY <1>4, <1>5, <1>6

\* What was counted before such a step is no more than what is judged after it.
LEMMA StillCounts ==
  ASSUME \A i \in Accuracy!Forecasts :
           outcome[i] \in Accuracy!Judged => outcome'[i] \in Accuracy!Judged,
         NEW m, NEW c, Within(c, Judgements(m))
  PROVE  Within(c, Judgements(m)')
<1>1. c.hit \in Nat /\ c.miss \in Nat /\ Accuracy!Size(c) <= Judgements(m)
  BY DEF Within
<1>2. Accuracy!Size(c) \in Nat
  BY <1>1 DEF Accuracy!Size
<1>3. Accuracy!Size(c) <= Judgements(m)'
  BY <1>1, <1>2, TallyGrows
<1> QED
  BY <1>1, <1>3 DEF Within

-----------------------------------------------------------------------------
LEMMA EvalFields ==
  ASSUME NEW t, IsEval(t)
  PROVE  /\ \A x : LET e == [t EXCEPT !.at = x]
                   IN  IsEval(e) /\ e.at = x /\ e.tally = t.tally
         /\ \A x : LET e == [t EXCEPT !.seen = x]
                   IN  IsEval(e) /\ e.at = t.at /\ e.tally = t.tally
         /\ \A x : LET e == [t EXCEPT !.todo = x]
                   IN  IsEval(e) /\ e.at = t.at /\ e.tally = t.tally
         /\ \A x : LET e == [t EXCEPT !.changed = x]
                   IN  IsEval(e) /\ e.at = t.at /\ e.tally = t.tally
         /\ \A x : LET e == [t EXCEPT !.tally = x]
                   IN  IsEval(e) /\ e.at = t.at /\ e.tally = x
BY DEF IsEval

LEMMA IdleIsEval == IsEval(Accuracy!Idle) /\ Accuracy!Idle.at = "idle"
BY DEF IsEval, Accuracy!Idle

\* A task that moves on, into the replacement of the scorecards only with
\* counts of now.
LEMMA EvalMoves ==
  ASSUME AccuracyIInv, NEW x \in Accuracy!Actors, NEW t, IsEval(t), Accuracy!Do(x, t),
         \A i \in Accuracy!Forecasts :
           outcome[i] \in Accuracy!Judged => outcome'[i] \in Accuracy!Judged,
         t.at = "replace" => \A m \in Members : Within(t.tally[m], Judgements(m)')
  PROVE  /\ evaluations' = [y \in Accuracy!Actors |-> evaluations'[y]]
         /\ \A y \in Accuracy!Actors : IsEval(evaluations'[y])
         /\ Rebuilding'
<1>1. evaluations' = [y \in Accuracy!Actors |-> IF y = x THEN t ELSE evaluations[y]]
  BY DEF AccuracyIInv, Accuracy!Do
<1>2. \A y \in Accuracy!Actors : IsEval(evaluations'[y])
  BY <1>1 DEF AccuracyIInv
<1>3. ASSUME NEW y \in Accuracy!Actors, evaluations'[y].at = "replace", NEW m \in Members
      PROVE  Within(evaluations'[y].tally[m], Judgements(m)')
  <2>1. CASE y = x
    <3>1. evaluations'[y] = t
      BY <1>1, <2>1
    <3> QED BY <1>3, <3>1 DEF Within
  <2>2. CASE y # x
    <3>1. evaluations'[y] = evaluations[y]
      BY <1>1, <2>2
    <3>2. Within(evaluations[y].tally[m], Judgements(m))
      BY <1>3, <3>1 DEF AccuracyIInv, Rebuilding
    <3>3. PICK c : c = evaluations[y].tally[m]
      OBVIOUS
    <3>4. Within(c, Judgements(m)')
      BY <3>2, <3>3, StillCounts
    <3> QED BY <3>1, <3>3, <3>4 DEF Within
  <2> QED BY <2>1, <2>2
<1>4. Rebuilding'
  BY <1>3 DEF Rebuilding, Within
<1> QED
  BY <1>1, <1>2, <1>4

LEMMA CardsStay ==
  ASSUME AccuracyIInv, UNCHANGED cards,
         \A i \in Accuracy!Forecasts :
           outcome[i] \in Accuracy!Judged => outcome'[i] \in Accuracy!Judged
  PROVE  CardsCount'
<1> SUFFICES ASSUME NEW m \in Members, cards[m] # None
             PROVE  Within(cards'[m], Judgements(m)') /\ Accuracy!Size(cards'[m]) # 0
  BY DEF CardsCount, Within
<1>1. Within(cards[m], Judgements(m)) /\ Accuracy!Size(cards[m]) # 0
  BY DEF AccuracyIInv, CardsCount
<1>2. PICK c : c = cards[m] /\ c = cards'[m]
  OBVIOUS
<1>3. Within(c, Judgements(m)')
  BY <1>1, <1>2, StillCounts
<1> QED
  BY <1>1, <1>2, <1>3 DEF Within

LEMMA InitAccuracy == Accuracy!Init => AccuracyIInv
<1> SUFFICES ASSUME Accuracy!Init PROVE AccuracyIInv
  OBVIOUS
<1>1. \A x \in Accuracy!Actors : evaluations[x] = Accuracy!Idle
  BY DEF Accuracy!Init
<1>2. \A m \in Members : cards[m] = None
  BY DEF Accuracy!Init
<1> QED
  BY <1>1, <1>2, IdleIsEval DEF Accuracy!Init, AccuracyIInv, CardsCount, Rebuilding

LEMMA NextAccuracy == AccuracyIInv /\ (Accuracy!Next \/ UNCHANGED Accuracy!vars) => AccuracyIInv'
<1> SUFFICES ASSUME AccuracyIInv, Accuracy!Next \/ UNCHANGED Accuracy!vars PROVE AccuracyIInv'
  OBVIOUS
<1> DEFINE Keeps == \A i \in Accuracy!Forecasts :
                      outcome[i] \in Accuracy!Judged => outcome'[i] \in Accuracy!Judged
<1>1. /\ outcome = [i \in Accuracy!Forecasts |-> outcome[i]]
      /\ "job" \in Accuracy!Actors /\ "route" \in Accuracy!Actors
      /\ \A x \in Accuracy!Actors : IsEval(evaluations[x])
  BY DEF AccuracyIInv, Accuracy!Actors
<1>2. ASSUME UNCHANGED <<outcome, cards>>, NEW x \in Accuracy!Actors, NEW t, IsEval(t),
             Accuracy!Do(x, t),
             t.at = "replace" => \A m \in Members : Within(t.tally[m], Judgements(m)')
      PROVE  AccuracyIInv'
  <2>1. Keeps
    BY <1>2
  <2>2. outcome' = [i \in Accuracy!Forecasts |-> outcome'[i]]
    BY <1>1, <1>2
  <2> QED BY <1>2, <2>1, <2>2, EvalMoves, CardsStay DEF AccuracyIInv
<1>3. ASSUME UNCHANGED <<cards, evaluations>>, Keeps,
             outcome' = [i \in Accuracy!Forecasts |-> outcome'[i]]
      PROVE  AccuracyIInv'
  <2>1. \A x \in Accuracy!Actors, m \in Members : \A c : Within(c, Judgements(m)) => Within(c, Judgements(m)')
    BY <1>3, StillCounts
  <2>2. Rebuilding'
    <3> SUFFICES ASSUME NEW x \in Accuracy!Actors, evaluations'[x].at = "replace",
                        NEW m \in Members
                 PROVE  Within(evaluations'[x].tally[m], Judgements(m)')
      BY DEF Rebuilding, Within
    <3>1. PICK c : c = evaluations[x].tally[m] /\ c = evaluations'[x].tally[m]
      BY <1>3
    <3>2. Within(c, Judgements(m))
      BY <1>3, <3>1 DEF AccuracyIInv, Rebuilding
    <3> QED BY <2>1, <3>1, <3>2 DEF Within
  <2> QED BY <1>3, <2>2, CardsStay DEF AccuracyIInv
<1>4. ASSUME NEW i \in Accuracy!Forecasts, Accuracy!Register(i) \/ Accuracy!HorizonEnds(i)
      PROVE  AccuracyIInv'
  <2>1. \/ outcome[i] = "NONE" /\ outcome' = [outcome EXCEPT ![i] = "PENDING"]
        \/ outcome[i] = "PENDING" /\ outcome' = [outcome EXCEPT ![i] = "DUE"]
    BY <1>4 DEF Accuracy!Register, Accuracy!HorizonEnds
  <2>2. Keeps /\ outcome' = [j \in Accuracy!Forecasts |-> outcome'[j]]
    BY <1>1, <2>1 DEF Accuracy!Judged
  <2>3. UNCHANGED <<cards, evaluations>>
    BY <1>4 DEF Accuracy!Register, Accuracy!HorizonEnds
  <2> QED BY <1>3, <2>2, <2>3
<1>5. ASSUME NEW s \in Traded, Accuracy!Quoted(s)
      PROVE  AccuracyIInv'
  BY <1>1, <1>3, <1>5 DEF Accuracy!Quoted
<1>6. ASSUME Accuracy!JobLists
      PROVE  AccuracyIInv'
  <2>1. PICK u : u = [Accuracy!Idle EXCEPT !.at = "observe"]
    OBVIOUS
  <2>2. IsEval(u) /\ u.at = "observe"
    BY <2>1, EvalFields, IdleIsEval
  <2>3. PICK t : t = [u EXCEPT !.seen = {Registry[i].symbol : i \in Accuracy!DueOutcomes}]
    OBVIOUS
  <2>4. IsEval(t) /\ t.at = "observe"
    BY <2>2, <2>3, EvalFields
  <2>5. Accuracy!Do("job", t) /\ UNCHANGED <<outcome, cards>>
    BY <1>6, <2>1, <2>3 DEF Accuracy!JobLists
  <2> QED BY <1>1, <1>2, <2>4, <2>5
<1>7. ASSUME Accuracy!JobObserves
      PROVE  AccuracyIInv'
  <2>1. PICK u : u = [evaluations["job"] EXCEPT !.at = "list"]
    OBVIOUS
  <2>2. IsEval(u) /\ u.at = "list"
    BY <1>1, <2>1, EvalFields
  <2>3. PICK t : t = [u EXCEPT !.seen = @ \cap priced]
    OBVIOUS
  <2>4. IsEval(t) /\ t.at = "list"
    BY <2>2, <2>3, EvalFields
  <2>5. Accuracy!Do("job", t) /\ UNCHANGED <<outcome, cards>>
    BY <1>7, <2>1, <2>3 DEF Accuracy!JobObserves
  <2> QED BY <1>1, <1>2, <2>4, <2>5
<1>8. ASSUME NEW prices \in SUBSET Traded, Accuracy!RouteEvaluates(prices)
      PROVE  AccuracyIInv'
  <2> DEFINE u == [Accuracy!Idle EXCEPT !.at = "list"]
             t == [u EXCEPT !.seen = prices]
  <2>1. IsEval(u) /\ u.at = "list"
    BY EvalFields, IdleIsEval
  <2>2. IsEval(t) /\ t.at = "list"
    <3> HIDE DEF u
    <3> QED BY <2>1, EvalFields
  <2>3. Accuracy!Do("route", t) /\ UNCHANGED <<outcome, cards>>
    BY <1>8 DEF Accuracy!RouteEvaluates
  <2> HIDE DEF t
  <2> QED BY <1>1, <1>2, <2>2, <2>3
<1>9. ASSUME Accuracy!RouteRebuilds
      PROVE  AccuracyIInv'
  <2> DEFINE t == [Accuracy!Idle EXCEPT !.at = "read"]
  <2>1. IsEval(t) /\ t.at = "read"
    BY EvalFields, IdleIsEval
  <2>2. Accuracy!Do("route", t) /\ UNCHANGED <<outcome, cards>>
    BY <1>9 DEF Accuracy!RouteRebuilds
  <2> HIDE DEF t
  <2> QED BY <1>1, <1>2, <2>1, <2>2
<1>10. ASSUME NEW x \in Accuracy!Actors, Accuracy!ListDue(x)
       PROVE  AccuracyIInv'
  <2>1. PICK u : u = [evaluations[x] EXCEPT !.at = "judge"]
    OBVIOUS
  <2>2. IsEval(u) /\ u.at = "judge"
    BY <1>1, <2>1, EvalFields
  <2>3. PICK t : t = [u EXCEPT !.todo = {i \in Accuracy!DueOutcomes :
                                           Registry[i].symbol \in evaluations[x].seen}]
    OBVIOUS
  <2>4. IsEval(t) /\ t.at = "judge"
    BY <2>2, <2>3, EvalFields
  <2>5. Accuracy!Do(x, t) /\ UNCHANGED <<outcome, cards>>
    BY <1>10, <2>1, <2>3 DEF Accuracy!ListDue
  <2> QED BY <1>2, <2>4, <2>5
<1>11. ASSUME NEW x \in Accuracy!Actors, NEW i \in Accuracy!Forecasts,
              NEW verdict \in Accuracy!Judged, Accuracy!Judge(x, i, verdict)
       PROVE  AccuracyIInv'
  <2>1. PICK u : u = [evaluations[x] EXCEPT !.todo = @ \ {i}]
    OBVIOUS
  <2>2. evaluations[x].at = "judge"
    BY <1>11 DEF Accuracy!Judge
  <2>3. IsEval(u) /\ u.at = "judge"
    BY <1>1, <2>1, <2>2, EvalFields
  <2>4. PICK t : t = [u EXCEPT !.changed = TRUE]
    OBVIOUS
  <2>5. IsEval(t) /\ t.at = "judge"
    BY <2>3, <2>4, EvalFields
  <2>6. Accuracy!Do(x, t) /\ UNCHANGED cards
    BY <1>11, <2>1, <2>4 DEF Accuracy!Judge
  <2>7. outcome' = [outcome EXCEPT ![i] = verdict]
    BY <1>11 DEF Accuracy!Judge
  <2>8. Keeps /\ outcome' = [j \in Accuracy!Forecasts |-> outcome'[j]]
    BY <1>1, <1>11, <2>7
  <2> QED BY <2>5, <2>6, <2>8, EvalMoves, CardsStay DEF AccuracyIInv
<1>12. ASSUME NEW x \in Accuracy!Actors, Accuracy!Judges(x)
       PROVE  AccuracyIInv'
  <2>1. PICK t : t \in {Accuracy!Idle, [Accuracy!Idle EXCEPT !.at = "read"]}
                 /\ Accuracy!Do(x, t)
    BY <1>12 DEF Accuracy!Judges
  <2>2. IsEval(t) /\ t.at # "replace"
    <3>1. CASE t = Accuracy!Idle
      BY <3>1, IdleIsEval
    <3>2. CASE t = [Accuracy!Idle EXCEPT !.at = "read"]
      BY <3>2, EvalFields, IdleIsEval
    <3> QED BY <2>1, <3>1, <3>2
  <2> QED BY <1>2, <1>12, <2>1, <2>2 DEF Accuracy!Judges
<1>13. ASSUME NEW x \in Accuracy!Actors, Accuracy!ReadJudged(x)
       PROVE  AccuracyIInv'
  <2>1. PICK tally : tally = [m \in Members |-> Accuracy!Tally(m)]
    OBVIOUS
  <2>2. PICK u : u = [evaluations[x] EXCEPT !.at = "replace"]
    OBVIOUS
  <2>3. IsEval(u) /\ u.at = "replace"
    BY <1>1, <2>2, EvalFields
  <2>4. PICK t : t = [u EXCEPT !.tally = tally]
    OBVIOUS
  <2>5. IsEval(t) /\ t.tally = tally
    BY <2>3, <2>4, EvalFields
  <2>6. Accuracy!Do(x, t) /\ UNCHANGED <<outcome, cards>>
    BY <1>13, <2>1, <2>2, <2>4 DEF Accuracy!ReadJudged
  <2>7. ASSUME NEW m \in Members
        PROVE  Within(t.tally[m], Judgements(m)')
    <3>1. PICK c : c = Accuracy!Tally(m)
      OBVIOUS
    <3>2. t.tally[m] = c
      BY <2>1, <2>5, <3>1
    <3>3. Within(c, Judgements(m))
      BY <3>1, TallyNow DEF Within, Judgements
    <3>4. Within(c, Judgements(m)')
      BY <2>6, <3>3, StillCounts
    <3> QED BY <3>2, <3>4 DEF Within
  <2> QED BY <1>2, <2>5, <2>6, <2>7
<1>14. ASSUME NEW x \in Accuracy!Actors, Accuracy!ReplaceScorecards(x)
       PROVE  AccuracyIInv'
  <2>1. /\ evaluations[x].at = "replace" /\ Accuracy!Do(x, Accuracy!Idle)
        /\ UNCHANGED outcome
        /\ cards' = [m \in Members |-> IF Accuracy!Size(evaluations[x].tally[m]) = 0 THEN None
                                       ELSE evaluations[x].tally[m]]
    BY <1>14 DEF Accuracy!ReplaceScorecards
  <2>2. Keeps /\ outcome' = [j \in Accuracy!Forecasts |-> outcome'[j]]
    BY <1>1, <2>1
  <2>3. CardsCount'
    <3> SUFFICES ASSUME NEW m \in Members, cards'[m] # None
                 PROVE  Within(cards'[m], Judgements(m)') /\ Accuracy!Size(cards'[m]) # 0
      BY DEF CardsCount, Within
    <3>1. PICK c : c = evaluations[x].tally[m]
      OBVIOUS
    <3>2. cards'[m] = c /\ Accuracy!Size(c) # 0
      BY <2>1, <3>1
    <3>3. Within(c, Judgements(m))
      BY <2>1, <3>1 DEF AccuracyIInv, Rebuilding
    <3>4. Within(c, Judgements(m)')
      BY <2>2, <3>3, StillCounts
    <3> QED BY <3>2, <3>4 DEF Within
  <2> QED BY <2>1, <2>2, <2>3, EvalMoves, IdleIsEval DEF AccuracyIInv
<1>15. CASE Accuracy!Next
  <2> HIDE DEF Keeps
  <2> QED BY <1>4, <1>5, <1>6, <1>7, <1>8, <1>9, <1>10, <1>11, <1>12, <1>13, <1>14, <1>15, Zenon
          DEF Accuracy!Next, Accuracy!Step
<1>16. CASE UNCHANGED Accuracy!vars
  BY <1>1, <1>3, <1>16 DEF Accuracy!vars
<1> QED
  BY <1>15, <1>16

-----------------------------------------------------------------------------
\* A grade is earned by enough forecasts, more of them right than wrong.
LEMMA GradeEarned ==
  ASSUME NEW c, c.hit \in Nat, c.miss \in Nat, Accuracy!Size(c) # 0,
         Accuracy!ReliabilityGrade(c) \in {"A", "B", "C"}
  PROVE  Accuracy!Size(c) >= MinJudged /\ c.hit > c.miss
<1>1. Accuracy!Size(c) \in Nat /\ MinJudged \in Nat /\ Accuracy!Size(c) = c.hit + c.miss
  BY AccuracyAssumption DEF Accuracy!Size
<1>2. /\ Accuracy!Size(c) >= MinJudged
      /\ \/ Accuracy!Meets(c, 62, 4) \/ Accuracy!Meets(c, 57, 6) \/ Accuracy!Meets(c, 52, 8)
  <2>1. CASE Accuracy!Size(c) < MinJudged
    <3>1. ~(Accuracy!Size(c) >= MinJudged)
      BY <1>1, <2>1
    <3>2. Accuracy!ReliabilityGrade(c) = "INSUFFICIENT_DATA"
      BY <2>1, <3>1 DEF Accuracy!ReliabilityGrade
    <3> QED BY <3>2
  <2>2. CASE ~(Accuracy!Size(c) < MinJudged)
    <3>1. Accuracy!Size(c) >= MinJudged
      BY <1>1, <2>2
    <3>2. \/ Accuracy!Meets(c, 62, 4) \/ Accuracy!Meets(c, 57, 6) \/ Accuracy!Meets(c, 52, 8)
          \/ Accuracy!ReliabilityGrade(c) = "DorF"
      BY <2>2 DEF Accuracy!ReliabilityGrade
    <3> QED BY <3>1, <3>2
  <2> QED BY <2>1, <2>2, Zenon
<1>3. 100 * c.hit >= 52 * (c.hit + c.miss)
  BY <1>1, <1>2 DEF Accuracy!Meets
<1> QED
  BY <1>1, <1>2, <1>3

\* A member with a weight has a card with a grade.
LEMMA WeightEarned ==
  ASSUME AccuracyIInv, NEW m \in Members, Accuracy!ScoreFactor(m) # 0
  PROVE  Accuracy!Size(Accuracy!Tally(m)) >= MinJudged /\ cards[m].hit > cards[m].miss
<1>1. cards[m] # None /\ Accuracy!ReliabilityGrade(cards[m]) \in {"A", "B", "C"}
  BY Zenon DEF Accuracy!ScoreFactor
<1>2. Within(cards[m], Judgements(m)) /\ Accuracy!Size(cards[m]) # 0
  BY <1>1 DEF AccuracyIInv, CardsCount
<1>3. Accuracy!Size(cards[m]) >= MinJudged /\ cards[m].hit > cards[m].miss
  BY <1>1, <1>2, GradeEarned DEF Within
<1>4. /\ Accuracy!Size(cards[m]) \in Nat /\ MinJudged \in Nat /\ Judgements(m) \in Nat
      /\ Accuracy!Size(cards[m]) <= Judgements(m)
  <2>1. Judgements(m) \in Nat /\ MinJudged \in Nat
    BY TallyNow, AccuracyAssumption
  <2> QED BY <1>2, <2>1 DEF Within, Accuracy!Size
<1>5. Judgements(m) >= MinJudged
  BY <1>3, <1>4
<1> QED
  BY <1>3, <1>5 DEF Judgements

LEMMA FactorType == \A m : Accuracy!ScoreFactor(m) \in {0, 35, 100}
BY Zenon DEF Accuracy!ScoreFactor

\* The returns are a sum over the members that answered.
LEMMA ReturnsAreSum ==
  ASSUME NEW o
  PROVE  LET terms == [m \in Members |->
                         (Accuracy!Clip(o[m].return, 200) * Accuracy!ScoreFactor(m)) \div 100]
             answered == {m \in Members : o[m].direction # "FAILED"}
         IN  \E sums : SumsUp(sums, terms, SUBSET answered) /\ Accuracy!Returns(o) = sums[answered]
<1> DEFINE terms == [m \in Members |->
                       (Accuracy!Clip(o[m].return, 200) * Accuracy!ScoreFactor(m)) \div 100]
           answered == {m \in Members : o[m].direction # "FAILED"}
           Iter(h) == h = [T \in SUBSET answered |-> IF T = {} THEN 0
                            ELSE terms[CHOOSE x \in T : TRUE] + h[T \ {CHOOSE x \in T : TRUE}]]
<1>1. Accuracy!Returns(o) = (CHOOSE h : Iter(h))[answered]
  BY DEF Accuracy!Returns, Accuracy!FoldFunctionOnSet, Accuracy!MapThenFoldSet
<1>3. \A h : Iter(h) <=> SumsUp(h, terms, SUBSET answered)
  <2> HIDE DEF terms, answered
  <2> QED BY DEF SumsUp, Pick
<1>4. IsFiniteSet(answered)
  BY AccuracyAssumption, FS_Subset
<1>5. \E h : SumsUp(h, terms, SUBSET answered)
  <2> HIDE DEF terms, answered
  <2> QED BY <1>4, SumsExist
<1>6. Iter(CHOOSE h : Iter(h))
  <2> HIDE DEF Iter, terms, answered
  <2> QED BY <1>3, <1>5
<1>7. SumsUp(CHOOSE h : Iter(h), terms, SUBSET answered)
  <2> HIDE DEF Iter, terms, answered
  <2> QED BY <1>3, <1>6
<1> QED
  <2> HIDE DEF Iter, terms, answered
  <2>2. \E sums : SumsUp(sums, terms, SUBSET answered) /\ Accuracy!Returns(o) = sums[answered]
    BY <1>1, <1>7
  <2> QED BY <2>2 DEF terms, answered

\* Without a member that answered and has a weight the consensus lifts nothing.
LEMMA NoWeightNoLift ==
  ASSUME NEW o \in [Members -> Accuracy!Opinions], NEW stop_first \in BOOLEAN,
         \A m \in Members : o[m].direction # "FAILED" => Accuracy!ScoreFactor(m) = 0
  PROVE  ~(Accuracy!ScoreImpact(o, stop_first) > 0)
<1> DEFINE terms == [m \in Members |->
                       (Accuracy!Clip(o[m].return, 200) * Accuracy!ScoreFactor(m)) \div 100]
           answered == {m \in Members : o[m].direction # "FAILED"}
<1>1. Accuracy!Returns(o) \in Int /\ Accuracy!Returns(o) <= 0
  <2>1. ASSUME NEW m \in answered
        PROVE  terms[m] \in Int /\ terms[m] <= 0
    <3>1. o[m].return \in Int
      BY DEF Accuracy!Opinions
    <3>2. Accuracy!Clip(o[m].return, 200) \in Int
      BY <3>1 DEF Accuracy!Clip
    <3>3. Accuracy!ScoreFactor(m) = 0
      OBVIOUS
    <3>4. Accuracy!Clip(o[m].return, 200) * Accuracy!ScoreFactor(m) = 0
      BY <3>2, <3>3
    <3>5. terms[m] = 0 \div 100
      BY <3>4
    <3> QED BY <3>5
  <2>2. PICK sums : /\ SumsUp(sums, terms, SUBSET answered)
                    /\ Accuracy!Returns(o) = sums[answered]
    BY ReturnsAreSum
  <2>3. IsFiniteSet(answered) /\ Cardinality(answered) \in Nat
    BY AccuracyAssumption, FS_Subset, FS_CardinalityType
  <2>4. sums[answered] \in Int /\ sums[answered] <= Cardinality(answered) * 0
    <3> HIDE DEF terms, answered
    <3> QED BY <2>1, <2>2, <2>3, SumBound
  <2> HIDE DEF terms, answered
  <2> QED BY <2>2, <2>3, <2>4
<1>2. Accuracy!Agreement(o) \in Int /\ Accuracy!Agreement(o) <= 0
  <2>1. CASE Accuracy!Agreement(o) \in {0, -200}
    BY <2>1
  <2>2. CASE Accuracy!Agreement(o) \notin {0, -200}
    <3>1. /\ {"timesfm", "chronos"} \subseteq Members
          /\ o["timesfm"].direction # "FAILED" /\ o["chronos"].direction # "FAILED"
          /\ Accuracy!Agreement(o) = 6 * Accuracy!Least(Accuracy!ScoreFactor("timesfm"),
                                                        Accuracy!ScoreFactor("chronos"))
      BY <2>2, Zenon DEF Accuracy!Agreement
    <3>2. Accuracy!ScoreFactor("timesfm") = 0 /\ Accuracy!ScoreFactor("chronos") = 0
      BY <3>1
    <3> QED BY <3>1, <3>2 DEF Accuracy!Least
  <2> QED BY <2>1, <2>2
<1> HIDE DEF terms, answered
<1>3. PICK malus : malus = (IF stop_first THEN 500 ELSE 0)
  OBVIOUS
<1>4. malus \in Nat
  BY <1>3
<1>5. PICK lift \in Int :
        lift = Accuracy!Agreement(o) - malus + Accuracy!Returns(o) /\ lift <= 0
  BY <1>1, <1>2, <1>4
<1> QED
  BY <1>3, <1>5 DEF Accuracy!ScoreImpact, Accuracy!Clip

LEMMA AccuracySteps ==
  ASSUME ResearchNext \/ UNCHANGED all
  PROVE  Accuracy!Next \/ UNCHANGED Accuracy!vars
BY DEF ResearchNext, all, InLearning, InRadar, InRuns, InAccuracy, InIntelligence, accuracyVars,
   Accuracy!vars

\* Whatever the models, the opinions and the overlap of job and route: a score
\* is lifted only by a member that answered and whose card rests on enough
\* judged forecasts, more right than wrong (forecast_ensemble.py under
\* require_accuracy_history_before_score_boost).
THEOREM BoostsAreEarned == ResearchSpec => []BoostRestsOnRecord
<1>1. ResearchInit => AccuracyIInv
  BY InitAccuracy DEF ResearchInit
<1>2. AccuracyIInv /\ [ResearchNext]_all => AccuracyIInv'
  BY AccuracySteps, NextAccuracy
<1>3. AccuracyIInv => BoostRestsOnRecord
  <2> SUFFICES ASSUME AccuracyIInv,
                      NEW o \in [Members -> Accuracy!Opinions], NEW stop_first \in BOOLEAN,
                      Accuracy!ScoreImpact(o, stop_first) > 0
               PROVE  \E m \in Members : /\ o[m].direction # "FAILED"
                                         /\ Accuracy!Size(Accuracy!Tally(m)) >= MinJudged
                                         /\ cards[m].hit > cards[m].miss
    BY DEF BoostRestsOnRecord, Accuracy!BoostRestsOnRecord
  <2>1. PICK m \in Members : o[m].direction # "FAILED" /\ Accuracy!ScoreFactor(m) # 0
    BY NoWeightNoLift
  <2> QED BY <2>1, WeightEarned
<1> QED
  BY <1>1, <1>2, <1>3, PTL DEF ResearchSpec, all
=============================================================================
