-------------------------- MODULE TechniqueLearning --------------------------
(***************************************************************************)
(* The detection techniques of the opportunity scanner and what they are   *)
(* judged by: the ledger of detection outcomes (outcome_tracker.py,        *)
(* outcome_repository.py), the learning loop that promotes, retires and    *)
(* spawns techniques from the ledger (learning_loop.py), the operator's    *)
(* routes (technique_service.py) and the jobs that drive them              *)
(* (background_jobs.py).                                                   *)
(*                                                                         *)
(* The background jobs run the scan, the evaluation and the learning loop  *)
(* in worker threads (asyncio.to_thread) while the routes run the same     *)
(* code on the event loop; the database lock covers one statement.  An     *)
(* action is therefore one statement, or a run of statements that no other *)
(* actor can tell from one.                                                *)
(*                                                                         *)
(* A rule is left out: which technique matches a quote is the environment's*)
(* choice here and is computed in OpportunityRadar.  One symbol is watched. *)
(* Every winner gained and every loser lost one unit (mfe and mae of the   *)
(* labelled outcomes), so the expectancy is (won - lost) / (won + lost).   *)
(***************************************************************************)
EXTENDS Integers, Sequences, FiniteSets, Functions

CONSTANTS
  Builtins,      \* the seeded techniques
  Pool,          \* the ids that variants and manual techniques may take
  Order,         \* all ids in the order of their rows
  Horizons,      \* the horizons' names
  Sessions,      \* HORIZONS: trading days until an outcome is due
  Overlap,       \* scans that may run at once: the job's and the route's
  Learners,      \* the actors that run the learning loop
  LearningEnabled,  \* the kill switch, learning.enabled
  MaxActive,     \* learning.max_active
  MinSamples,    \* learning.min_samples
  MaxVariants,   \* learning.max_variants_per_parent
  None,
  MaxOutcomes    \* bound: outcomes recorded for a technique

Techniques == Builtins \cup Pool

ASSUME LearningAssumption ==
  /\ Builtins \cap Pool = {}
  /\ \A i, j \in DOMAIN Order : Order[i] = Order[j] => i = j
  /\ {Order[i] : i \in DOMAIN Order} = Techniques
  /\ Sessions \in [Horizons -> Nat \ {0}]
  /\ LearningEnabled \in BOOLEAN
  /\ {Overlap, MaxActive, MinSamples, MaxVariants} \subseteq Nat \ {0}
  /\ MaxOutcomes \in [Techniques -> Nat]
  /\ IsFiniteSet(Techniques) /\ None \notin Learners
  /\ \E h \in Horizons : \A g \in Horizons : Sessions[g] <= Sessions[h]

VARIABLES
  rth,        \* the regular session is open
  row,        \* detection_techniques
  pending,    \* PENDING outcomes by technique, horizon and closes until due
  done,       \* EVALUATED outcomes by label
  run,        \* learner -> its run of the loop
  disturbed   \* history: learner -> another actor wrote a row since it listed

ledger == <<pending, done>>
vars == <<rth, row, pending, done, run, disturbed>>

-----------------------------------------------------------------------------
(* Rows. *)

Absent == [status |-> "ABSENT", enabled |-> FALSE, origin |-> "none", parent |-> None]
Builtin == [status |-> "ACTIVE", enabled |-> TRUE, origin |-> "builtin", parent |-> None]
Variant(p) == [status |-> "CANDIDATE", enabled |-> TRUE, origin |-> "learned", parent |-> p]
Manual(e) == [status |-> "ACTIVE", enabled |-> e, origin |-> "manual", parent |-> None]

Exists(t) == row[t].status # "ABSENT"
Live(t, s) == row[t].status = s /\ row[t].enabled

\* list_active: what a scan evaluates.
Detecting == {t \in Techniques : Live(t, "ACTIVE") \/ Live(t, "CANDIDATE")}
ActiveTechniques == {t \in Techniques : Live(t, "ACTIVE")}

Enabled(r, e) == [r EXCEPT !.enabled = e]
Retired(r) == [r EXCEPT !.status = "RETIRED", !.enabled = FALSE]
Promoted(r) == [r EXCEPT !.status = "ACTIVE", !.enabled = TRUE]

\* list_all goes by the order of the rows.
Before(t, u) == \E i, j \in DOMAIN Order : i < j /\ Order[i] = t /\ Order[j] = u
IsFirst(t, S) == t \in S /\ \A u \in S : ~Before(u, t)

-----------------------------------------------------------------------------
(* The ledger. *)

MaxLeft == LET most == CHOOSE n \in {Sessions[h] : h \in Horizons} :
                         \A h \in Horizons : Sessions[h] <= n
           IN  most + 1
Labels == {"won", "lost", "open"}

\* An outcome is due at the close of its last session: the close of the
\* session it was detected in is the first of the closes still to come.
DueIn(h) == Sessions[h] + 1

Recorded(t) ==
  LET waiting == FoldFunction(+, 0, [k \in Horizons \X (0..MaxLeft) |-> pending[t][k[1]][k[2]]])
      judged  == FoldFunction(+, 0, done[t])
  IN  waiting + judged

Due(t, h) == pending[t][h][0] > 0

\* technique_stats: EVALUATED rows only.
Samples(d) == d.won + d.lost + d.open
Stats == [t \in Techniques |->
            [size |-> Samples(done[t]), won |-> done[t].won, lost |-> done[t].lost]]
Ready(s) == s.size >= MinSamples
HasExpectancy(s) == s.won + s.lost > 0
Expectancy(s) == s.won - s.lost    \* its sign is the expectancy's

\* expectancy > parent_expectancy, or the parent has none.
Better(s, p) ==
  /\ HasExpectancy(s)
  /\ HasExpectancy(p) =>
       Expectancy(s) * (p.won + p.lost) > Expectancy(p) * (s.won + s.lost)

-----------------------------------------------------------------------------
NoRun == [at |-> "idle", stats |-> None, count |-> 0, todo |-> {}, parents |-> {}]

Init ==
  /\ rth = FALSE
  /\ row = [t \in Techniques |-> IF t \in Builtins THEN Builtin ELSE Absent]
  /\ pending = [t \in Techniques |-> [h \in Horizons |-> [n \in 0..MaxLeft |-> 0]]]
  /\ done = [t \in Techniques |-> [l \in Labels |-> 0]]
  /\ run = [l \in Learners |-> NoRun]
  /\ disturbed = [l \in Learners |-> FALSE]

\* Whoever writes a row disturbs the runs of the others that decide on a listing.
Disturb(but) ==
  disturbed' = [l \in Learners |-> disturbed[l] \/ (l # but /\ run[l].at = "resolve")]

-----------------------------------------------------------------------------
(* The trading days. *)

Open ==
  /\ ~rth
  /\ rth' = TRUE
  /\ UNCHANGED <<row, ledger, run, disturbed>>

\* A close brings every pending outcome one close nearer.
Nearer(f) == [n \in 0..MaxLeft |->
                (IF n < MaxLeft THEN f[n + 1] ELSE 0) + (IF n = 0 THEN f[0] ELSE 0)]

Close ==
  /\ rth
  /\ rth' = FALSE
  /\ pending' = [t \in Techniques |-> [h \in Horizons |-> Nearer(pending[t][h])]]
  /\ UNCHANGED <<row, done, run, disturbed>>

-----------------------------------------------------------------------------
(* The scan records a match that is not pending yet.  Scans that overlap can *)
(* each find it absent and each insert it (see OpportunityRadar).            *)

RecordDetection(t, h) ==
  /\ rth
  /\ t \in Detecting
  /\ Recorded(t) < MaxOutcomes[t]
  /\ pending[t][h][DueIn(h)] < Overlap
  /\ pending' = [pending EXCEPT ![t][h][DueIn(h)] = @ + 1]
  /\ UNCHANGED <<rth, row, done, run, disturbed>>

-----------------------------------------------------------------------------
(* The evaluation job: in the regular session only, all rows that are due.   *)
(* Without daily bars an outcome is EXPIRED, which no statistic counts.      *)

EvaluateDue(t, h) ==
  /\ rth
  /\ Due(t, h)
  /\ pending' = [pending EXCEPT ![t][h][0] = 0]
  /\ \E judged \in [Labels -> 0..pending[t][h][0]] :
       /\ FoldFunction(+, 0, judged) <= pending[t][h][0]
       /\ done' = [done EXCEPT ![t] = [l \in Labels |-> @[l] + judged[l]]]
  /\ UNCHANGED <<rth, row, run, disturbed>>

-----------------------------------------------------------------------------
(* The learning loop. *)

\* run: the gates, then one read of the statistics.
LearnStart(l) ==
  /\ LearningEnabled
  /\ rth
  /\ run[l].at = "idle"
  /\ run' = [run EXCEPT ![l] = [NoRun EXCEPT !.at = "list", !.stats = Stats]]
  /\ UNCHANGED <<rth, row, ledger, disturbed>>

\* list_all of phase 1: the candidates to resolve and the active count.
LearnList(l) ==
  /\ run[l].at = "list"
  /\ run' = [run EXCEPT ![l] = [@ EXCEPT
                 !.at = "resolve",
                 !.count = Cardinality(ActiveTechniques),
                 !.todo = {t \in Techniques : Live(t, "CANDIDATE") /\ Ready(run[l].stats[t])}]]
  /\ disturbed' = [disturbed EXCEPT ![l] = FALSE]
  /\ UNCHANGED <<rth, row, ledger>>

\* A mutant of WithinCap: one more than the cap.
AtTheCap(l) == run[l].count <= MaxActive

WithinCap(l) == run[l].count < MaxActive

\* Phase 1: the next candidate is promoted or retired, whatever its row says by now.
LearnResolve(l, t) ==
  LET r == run[l]
      promote == Better(r.stats[t], r.stats[row[t].parent]) /\ WithinCap(l)
  IN  /\ r.at = "resolve"
      /\ IsFirst(t, r.todo)
      /\ row' = [row EXCEPT ![t] = IF promote THEN Promoted(@) ELSE Retired(@)]
      /\ run' = [run EXCEPT ![l] = [r EXCEPT
                     !.count = IF promote THEN @ + 1 ELSE @,
                     !.todo = @ \ {t}]]
      /\ Disturb(l)
      /\ UNCHANGED <<rth, ledger>>

\* The run ends with its list.
Judging(r, todo, parents) ==
  IF todo = {} THEN NoRun
  ELSE [r EXCEPT !.at = "judge", !.count = 0, !.todo = todo, !.parents = parents]

\* list_all of phase 2: the active techniques and the parents with candidates.
LearnRelist(l) ==
  LET r == run[l]
      judged == {t \in ActiveTechniques : Ready(r.stats[t]) /\ HasExpectancy(r.stats[t])}
  IN  /\ r.at = "resolve"
      /\ r.todo = {}
      /\ run' = [run EXCEPT ![l] =
                   Judging(r, judged,
                           {row[t].parent : t \in {c \in Techniques : row[c].status = "CANDIDATE"}})]
      /\ disturbed' = [disturbed EXCEPT ![l] = FALSE]
      /\ UNCHANGED <<rth, row, ledger>>

\* _unique_id and insert_if_absent: the next free ids, at most MaxVariants.
FreeIds == {t \in Pool : ~Exists(t)}
Spawned == {t \in FreeIds : Cardinality({u \in FreeIds : Before(u, t)}) < MaxVariants}

\* Phase 2: a loser is disabled (builtin) or retired, a winner without
\* candidates gets variants.
LearnJudge(l, t) ==
  LET r == run[l]
      gain == Expectancy(r.stats[t])
  IN  /\ r.at = "judge"
      /\ IsFirst(t, r.todo)
      /\ row' = CASE gain < 0 /\ row[t].origin = "builtin" -> [row EXCEPT ![t] = Enabled(@, FALSE)]
                  [] gain < 0 /\ row[t].origin # "builtin" -> [row EXCEPT ![t] = Retired(@)]
                  [] gain > 0 /\ t \notin r.parents ->
                       [c \in Techniques |-> IF c \in Spawned THEN Variant(t) ELSE row[c]]
                  [] OTHER -> row
      /\ run' = [run EXCEPT ![l] = Judging(r, r.todo \ {t}, r.parents)]
      /\ IF row' = row THEN UNCHANGED disturbed ELSE Disturb(l)
      /\ UNCHANGED <<rth, ledger>>

-----------------------------------------------------------------------------
(* The operator's routes. *)

\* POST: a manual technique is ACTIVE at once.
CreateTechnique(t, e) ==
  /\ IsFirst(t, FreeIds)
  /\ row' = [row EXCEPT ![t] = Manual(e)]
  /\ Disturb(None)
  /\ UNCHANGED <<rth, ledger, run>>

\* PATCH enabled.
UpdateTechnique(t, e) ==
  /\ Exists(t)
  /\ row[t].enabled # e
  /\ row' = [row EXCEPT ![t] = Enabled(@, e)]
  /\ Disturb(None)
  /\ UNCHANGED <<rth, ledger, run>>

\* DELETE: a builtin is only disabled.
RetireTechnique(t) ==
  /\ Exists(t)
  /\ row' = [row EXCEPT ![t] = IF @.origin = "builtin" THEN Enabled(@, FALSE) ELSE Retired(@)]
  /\ Disturb(None)
  /\ UNCHANGED <<rth, ledger, run>>

-----------------------------------------------------------------------------
Operator ==
  \/ \E t \in Pool, e \in BOOLEAN : CreateTechnique(t, e)
  \/ \E t \in Techniques, e \in BOOLEAN : UpdateTechnique(t, e)
  \/ \E t \in Techniques : RetireTechnique(t)

Next ==
  \/ Open
  \/ Close
  \/ \E t \in Techniques, h \in Horizons : RecordDetection(t, h)
  \/ \E t \in Techniques, h \in Horizons : EvaluateDue(t, h)
  \/ \E l \in Learners : LearnStart(l)
  \/ \E l \in Learners : LearnList(l)
  \/ \E l \in Learners, t \in Techniques : LearnResolve(l, t)
  \/ \E l \in Learners : LearnRelist(l)
  \/ \E l \in Learners, t \in Techniques : LearnJudge(l, t)
  \/ Operator

Spec == Init /\ [][Next]_vars

-----------------------------------------------------------------------------
(* Properties. *)

TechniqueTypeOK ==
  /\ rth \in BOOLEAN
  /\ row \in [Techniques -> [status: {"ABSENT", "ACTIVE", "CANDIDATE", "RETIRED"},
                             enabled: BOOLEAN,
                             origin: {"none", "builtin", "manual", "learned"},
                             parent: Techniques \cup {None}]]
  /\ pending \in [Techniques -> [Horizons -> [0..MaxLeft -> Nat]]]
  /\ done \in [Techniques -> [Labels -> Nat]]
  /\ disturbed \in [Learners -> BOOLEAN]

Promotes(t) == row[t].status = "CANDIDATE" /\ row'[t].status = "ACTIVE"

\* A technique becomes active on its own record: MinSamples judged outcomes of
\* its own, one of them at least labelled, and the number of active techniques
\* then stays within MaxActive, unless another actor wrote a row between the
\* listing the run decided on and its write ("promotion uniquement >= 30
\* echantillons, plafond 20 respecte").
PromotedOnEvidenceWithinCap ==
  [][\A t \in Techniques, l \in Learners :
       Promotes(t) /\ run[l].at = "resolve" /\ run'[l] # run[l] =>
         /\ Samples(done[t]) >= MinSamples
         /\ done[t].won + done[t].lost > 0
         /\ ~disturbed[l] => Cardinality(ActiveTechniques') <= MaxActive]_vars
=============================================================================
