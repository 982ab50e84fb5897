--------------------------- MODULE OpportunityRadar ---------------------------
(***************************************************************************)
(* The opportunities of one symbol: the scan that finds them and records   *)
(* what it detected (opportunities/scanner.py, outcome_tracker.py), the    *)
(* sweep that expires them (opportunity_lifecycle_service.py) and the      *)
(* operator's marks (routes_opportunities.py).                             *)
(*                                                                         *)
(* The job runs the scan and the sweep in a worker thread every thirty     *)
(* seconds (background_jobs.py); a route runs the same code on the event   *)
(* loop.  The database lock covers one statement, so an action is one      *)
(* statement, or a run of statements no other actor can tell from one.     *)
(* The symbol's quote, setup and metadata are read once, at the start.     *)
(***************************************************************************)
EXTENDS ScannerRules

CONSTANTS
  Universes,    \* sets of candidates: what scans may read for the symbol
  Watched,      \* the seeded techniques that are active
  Ids,          \* the opportunities the candidates lead to
  ScannerEnabled

Actors == {"job", "route"}
Techniques == Watched
Library == [t \in Watched |-> SeededRules[t]]

\* MARKED: ignored, archived or reviewed, which nothing tells apart.
Statuses == {"DETECTED", "WATCHLIST", "REJECTED", "EXPIRED", "MARKED"}

VARIABLES
  universe,  \* the symbol's, chosen once
  rth,       \* the regular session is open
  paused,    \* _paused
  opp,       \* opportunities: id -> [status, old]; old: detected_at is past its hour
  outcomes,  \* PENDING outcomes of the session by technique (of one horizon)
  task,      \* actor -> what it is doing
  crossed,   \* history: techniques both actors found absent
  touched    \* history: actor -> rows others wrote since it listed the stale ones

vars == <<universe, rth, paused, opp, outcomes, task, crossed, touched>>

Absent == [status |-> "ABSENT", old |-> FALSE]
Exists(id) == opp[id].status # "ABSENT"

-----------------------------------------------------------------------------
(* What a scan makes of a candidate. *)

Found(id, status, matched) == [id |-> id, status |-> status, matched |-> matched]

FoundForSetup(c) ==
  Found("setup",
        IF c.score >= 40 /\ Selected(c.setup, c.quote) THEN "DETECTED" ELSE "REJECTED", {})

FoundInMarket(c) ==
  LET matched == Matched(Library, c.quote)
      types == TypesOf(Library, matched)
  IN  Found(Primary(types), RowStatus(c.quote, types), matched)

\* Neither a quote of bad quality nor one the liquidity filter blocks is learnt
\* from; the filter lets a setup without a quote pass.
Opportunity(c) ==
  LET found == IF c.setup # None THEN FoundForSetup(c) ELSE FoundInMarket(c)
  IN  IF c.setup = None /\ ~QualityOk(c.quote) THEN Found("DATA_QUALITY", "REJECTED", {})
      ELSE IF LiquidityBlocks(c.quoted, c.quote, c.setup # None)
      THEN Found(found.id, "REJECTED", {})
      ELSE found

Finds == [u \in Universes |-> {Opportunity(c) : c \in u}]

-----------------------------------------------------------------------------
Idle == [at |-> "idle", found |-> None, todo |-> {}, sweep |-> FALSE]

\* A run is a scan, a sweep or, as the job's rebuild_shortlist, both in turn.
Then(t) == IF t.sweep THEN [Idle EXCEPT !.at = "list"] ELSE Idle

Init ==
  /\ universe \in Universes
  /\ rth = FALSE
  /\ paused = FALSE
  /\ opp = [id \in Ids |-> Absent]
  /\ outcomes = [t \in Techniques |-> 0]
  /\ task = [a \in Actors |-> Idle]
  /\ crossed = {}
  /\ touched = [a \in Actors |-> {}]

Do(a, t) == task' = [task EXCEPT ![a] = t]

\* The job always rebuilds; POST /api/scanner/run only scans.
StartScan(a, sweep) ==
  /\ task[a].at = "idle"
  /\ a = "job" => sweep
  /\ LET t == [Idle EXCEPT !.sweep = sweep]
     IN  IF paused \/ ~ScannerEnabled
         THEN Do(a, Then(t))
         ELSE \E f \in Finds[universe] :
                Do(a, [t EXCEPT !.at = "record", !.found = f,
                                !.todo = IF rth THEN f.matched ELSE {}])
  /\ UNCHANGED <<universe, rth, paused, opp, outcomes, crossed, touched>>

\* A mutant of CheckPending: nobody asks whether the technique is pending.
CheckNothing(a, t) ==
  /\ task[a].at = "record"
  /\ t \in task[a].todo
  /\ Do(a, [task[a] EXCEPT !.at = t])
  /\ UNCHANGED <<universe, rth, paused, opp, outcomes, crossed, touched>>

\* pending_exists: a technique pending for the session is not recorded again.
CheckPending(a, t) ==
  /\ task[a].at = "record"
  /\ t \in task[a].todo
  /\ IF outcomes[t] > 0
     THEN Do(a, [task[a] EXCEPT !.todo = @ \ {t}])
     ELSE Do(a, [task[a] EXCEPT !.at = t])
  /\ crossed' = IF outcomes[t] = 0 /\ \E o \in Actors : o # a /\ task[o].at = t
                THEN crossed \cup {t} ELSE crossed
  /\ UNCHANGED <<universe, rth, paused, opp, outcomes, touched>>

CreateOutcome(a, t) ==
  /\ task[a].at = t
  /\ outcomes' = [outcomes EXCEPT ![t] = @ + 1]
  /\ Do(a, [task[a] EXCEPT !.at = "record", !.todo = @ \ {t}])
  /\ UNCHANGED <<universe, rth, paused, opp, crossed, touched>>

\* upsert_opportunity: a row that exists keeps its detected_at.
Write(a, id, status) ==
  /\ opp' = [opp EXCEPT ![id].status = status]
  /\ touched' = [o \in Actors |-> IF o # a /\ task[o].at = "expire"
                                     THEN touched[o] \cup {id} ELSE touched[o]]

UpsertFound(a) ==
  /\ task[a].at = "record"
  /\ task[a].todo = {}
  /\ Write(a, task[a].found.id, task[a].found.status)
  /\ Do(a, Then(task[a]))
  /\ UNCHANGED <<universe, rth, paused, outcomes, crossed>>

-----------------------------------------------------------------------------
(* The sweep: expire_stale. *)

\* A mutant of IsExpired: every row past its hour or not.
IsListed(id) == Exists(id)

IsExpired(id) == opp[id].status = "EXPIRED" \/ (Exists(id) /\ opp[id].old)

\* GET /api/opportunities/shortlist sweeps without a scan.
StartSweep ==
  /\ task["route"].at = "idle"
  /\ Do("route", [Idle EXCEPT !.at = "list"])
  /\ UNCHANGED <<universe, rth, paused, opp, outcomes, crossed, touched>>

ListStale(a) ==
  /\ task[a].at = "list"
  /\ Do(a, [task[a] EXCEPT !.at = "expire", !.todo = {id \in Ids : IsExpired(id)}])
  /\ UNCHANGED <<universe, rth, paused, opp, outcomes, crossed, touched>>

\* expire: the row is read and written back.
Expire(a, id) ==
  /\ task[a].at = "expire"
  /\ id \in task[a].todo
  /\ Write(a, id, "EXPIRED")
  /\ Do(a, [task[a] EXCEPT !.todo = @ \ {id}])
  /\ UNCHANGED <<universe, rth, paused, outcomes, crossed>>

\* The shortlist is built from what is left.
FinishSweep(a) ==
  /\ task[a].at = "expire"
  /\ task[a].todo = {}
  /\ Do(a, Idle)
  /\ touched' = [touched EXCEPT ![a] = {}]
  /\ UNCHANGED <<universe, rth, paused, opp, outcomes, crossed>>

-----------------------------------------------------------------------------
(* The operator's routes, each on the event loop. *)

\* ignore, archive, mark_reviewed, expire.
Mark(id, s) ==
  /\ Exists(id)
  /\ s \in {"MARKED", "EXPIRED"}
  /\ Write("operator", id, s)
  /\ UNCHANGED <<universe, rth, paused, outcomes, task, crossed>>

Pause(p) ==
  /\ paused' = p
  /\ paused' # paused
  /\ UNCHANGED <<universe, rth, opp, outcomes, task, crossed, touched>>

-----------------------------------------------------------------------------
(* Time. *)

Age(id) ==
  /\ Exists(id)
  /\ ~opp[id].old
  /\ opp' = [opp EXCEPT ![id].old = TRUE]
  /\ UNCHANGED <<universe, rth, paused, outcomes, task, crossed, touched>>

\* A new day's outcomes fall due on another day; no scan lasts till then.
Open ==
  /\ ~rth
  /\ \A a \in Actors : task[a].at \in {"idle", "list", "expire"}
  /\ rth' = TRUE
  /\ outcomes' = [t \in Techniques |-> 0]
  /\ crossed' = {}
  /\ UNCHANGED <<universe, paused, opp, task, touched>>

Close ==
  /\ rth
  /\ rth' = FALSE
  /\ UNCHANGED <<universe, paused, opp, outcomes, task, crossed, touched>>

-----------------------------------------------------------------------------
Run(a) ==
  \/ \E t \in Techniques : CheckPending(a, t)
  \/ \E t \in Techniques : CreateOutcome(a, t)
  \/ UpsertFound(a)
  \/ ListStale(a)
  \/ \E id \in Ids : Expire(a, id)
  \/ FinishSweep(a)

Next ==
  \/ \E a \in Actors, sweep \in BOOLEAN : StartScan(a, sweep)
  \/ StartSweep
  \/ \E a \in Actors : Run(a)
  \/ \E id \in Ids, s \in Statuses : Mark(id, s)
  \/ \E p \in BOOLEAN : Pause(p)
  \/ \E id \in Ids : Age(id)
  \/ Open
  \/ Close

Spec == Init /\ [][Next]_vars

-----------------------------------------------------------------------------
(* Properties. *)

RadarTypeOK ==
  /\ {rth, paused} \subseteq BOOLEAN
  /\ universe \in Universes
  /\ opp \in [Ids -> [status: Statuses \cup {"ABSENT"}, old: BOOLEAN]]
  /\ outcomes \in [Techniques -> Nat]
  /\ crossed \subseteq Techniques
  /\ touched \in [Actors -> SUBSET Ids]

\* "Two detections on the same session collapse to one outcome per horizon"
\* (outcome_repository.py), unless the job's scan and the route's each asked
\* before the other had answered.
DuplicatesOnlyByOverlap ==
  \A t \in Techniques : outcomes[t] > 1 => t \in crossed

\* The sweep expires an opportunity within its hour only if it listed it as
\* expired by the operator and somebody else has written it since.
FreshExpireOnlyByOverlap ==
  [][\A a \in Actors, id \in Ids :
       /\ task[a].at = "expire"
       /\ task'[a] # task[a]
       /\ opp[id].status # "EXPIRED" /\ opp'[id].status = "EXPIRED"
       => opp[id].old \/ id \in touched[a]]_vars
=============================================================================
