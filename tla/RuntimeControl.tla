--------------------------- MODULE RuntimeControl ---------------------------
(***************************************************************************)
(* The runtime status RUNNING, PAUSED or EMERGENCY_STOP beside the entry   *)
(* pipeline: the monitor loop, the API's resume, pause, emergency_stop,    *)
(* connector switch and market snapshots, and the restart of the program.  *)
(*                                                                         *)
(* A heartbeat reads and writes the status in one step after its health    *)
(* check, but the poll it then runs works with the status read there.      *)
(* resume, pause and a switch of the connector write the status after a    *)
(* health check of their own, whatever it has become; emergency_stop writes it at once and cancels    *)
(* the entries the order table shows at that moment.                       *)
(***************************************************************************)
EXTENDS BracketEntry, FiniteSetsExt

CONSTANTS
    Operators,    \* API requests that resume or pause the bot, or switch its connector
    MaxStarts     \* bound: restarts in one behaviour

\* ERROR is declared too; no code assigns it.
BotStatus == {"RUNNING", "PAUSED", "EMERGENCY_STOP"}

VARIABLES
    runtime,    \* status of the runtime row of bot_state
    monitor,    \* the wait of the monitor loop and the status it has read
    request,    \* what each operator's request will write
    toCancel,   \* entries an emergency stop has still to cancel
    missed,     \* since the last emergency stop: the brackets it did not see
    starts      \* restarts so far

control == <<runtime, monitor, request, toCancel, missed, starts>>
cvars == <<vars, control>>

NoStop == {0}

CInit ==
    /\ Init
    /\ runtime = "RUNNING"
    /\ monitor = [at |-> "sleep", status |-> "RUNNING"]
    /\ request = [o \in Operators |-> "none"]
    /\ toCancel = {}
    /\ missed = NoStop
    /\ starts = 0

-----------------------------------------------------------------------------
(* The monitor loop.                                                       *)

\* health_check: it can find the connection lost, or bring it back.
HealthChecked(up) ==
    \/ up = connected /\ UNCHANGED vars
    \/ up /\ Reconnect
    \/ ~ up /\ Disconnect

Heartbeat ==
    /\ monitor.at = "sleep"
    /\ monitor' = [monitor EXCEPT !.at = "health"]
    /\ UNCHANGED <<vars, runtime, request, toCancel, missed, starts>>

\* A lost connection lowers RUNNING to PAUSED and nothing else.
Lowered(was, up) == IF ~ up /\ was = "RUNNING" THEN "PAUSED" ELSE was

\* The bug: the status is the one read before the health check.
HeartbeatStale(up) ==
    /\ monitor.at = "health"
    /\ HealthChecked(up)
    /\ runtime' = Lowered(monitor.status, up)
    /\ monitor' = [at |-> IF up THEN "poll" ELSE "sleep", status |-> runtime']
    /\ UNCHANGED <<request, toCancel, missed, starts>>

\* The bug: the poll goes on with the status the loop started with.
HeartbeatForgets(up) ==
    /\ monitor.at = "health"
    /\ HealthChecked(up)
    /\ runtime' = Lowered(runtime, up)
    /\ monitor' = [monitor EXCEPT !.at = IF up THEN "poll" ELSE "sleep"]
    /\ UNCHANGED <<request, toCancel, missed, starts>>

\* The health check answers: the status is read, lowered and written back.
\* Without a connection neither the reconciliation nor the poll waits; with
\* one, "poll" is the wait for both, up to the quote.
HeartbeatReads(up) ==
    /\ monitor.at = "health"
    /\ HealthChecked(up)
    /\ runtime' = Lowered(runtime, up)
    /\ monitor' = [at |-> IF up THEN "poll" ELSE "sleep", status |-> runtime']
    /\ UNCHANGED <<request, toCancel, missed, starts>>

\* The quote arrives: analysed if the status the heartbeat read was RUNNING.
PollAnalyses(t, s, batch) ==
    /\ t \in Pollers
    /\ monitor.at = "poll"
    /\ monitor.status = "RUNNING"
    /\ Evaluate(t, s, batch)
    /\ monitor' = [monitor EXCEPT !.at = "signals"]
    /\ UNCHANGED <<runtime, request, toCancel, missed, starts>>

\* The poll is over: no signal is left, or one of them raised.
PollEnds ==
    /\ monitor.at \in {"poll", "signals"}
    /\ \A t \in Pollers : ~ Busy(t) /\ queue[t] = {}
    /\ monitor' = [monitor EXCEPT !.at = "sleep"]
    /\ UNCHANGED <<vars, runtime, request, toCancel, missed, starts>>

\* wait_for expires while a signal of the poll waits.
PollExpires ==
    /\ monitor.at = "signals"
    /\ PollTimeout
    /\ monitor' = [monitor EXCEPT !.at = "sleep"]
    /\ UNCHANGED <<runtime, request, toCancel, missed, starts>>

-----------------------------------------------------------------------------
(* The API.                                                                *)

\* process_market_snapshot: the status is read in the step that evaluates.
SnapshotPosted(t, s, batch) ==
    /\ t \in Tasks \ Pollers
    /\ runtime = "RUNNING"
    /\ Evaluate(t, s, batch)
    /\ UNCHANGED control

\* resume or pause begins its health check.
Asked(o, what) ==
    /\ request[o] = "none"
    /\ request' = [request EXCEPT ![o] = what]
    /\ UNCHANGED <<vars, runtime, monitor, toCancel, missed, starts>>

\* set_broker_connector closes the session, connects again and asks.
SwitchAsked(o) ==
    /\ request[o] = "none"
    /\ request' = [request EXCEPT ![o] = "switch"]
    /\ IF connected THEN Disconnect ELSE UNCHANGED vars
    /\ UNCHANGED <<runtime, monitor, toCancel, missed, starts>>

\* The health check of a request answers; the status is overwritten.
Answered(o, up) ==
    /\ request[o] # "none"
    /\ HealthChecked(up)
    /\ runtime' = IF request[o] \in {"resume", "switch"} /\ up THEN "RUNNING" ELSE "PAUSED"
    /\ request' = [request EXCEPT ![o] = "none"]
    /\ missed' = NoStop
    /\ UNCHANGED <<monitor, toCancel, starts>>

\* force_sync runs a heartbeat of its own, without the poll.
Synced(up) ==
    /\ HealthChecked(up)
    /\ runtime' = Lowered(runtime, up)
    /\ UNCHANGED <<monitor, request, toCancel, missed, starts>>

\* The cancels of emergency_stop, newest row first, after the rows in absent
\* were found to be gone.  cancel_order raises without a connection, which
\* ends the request; an order the session does not know is looked up, which
\* waits.
CancelEntries(absent, rows) ==
    LET unknown == rows \ session'
        reached == IF ~ connected THEN {}
                   ELSE {i \in rows : \A j \in unknown : i > j}
    IN  /\ parent' = [i \in Brackets |->
                         IF i \in reached THEN AfterCancel(parent[i]) ELSE parent[i]]
        /\ row' = [i \in Brackets |->
                      IF i \in absent \cup reached THEN "CANCELLED" ELSE row[i]]
        /\ toCancel' = IF connected THEN rows \ reached ELSE {}

OpenRows == {i \in Brackets : row[i] = "SUBMITTED"}

\* The bug: entries whose bracket is not complete are left to the pipeline.
EmergencyStopPlacedOnly ==
    /\ toCancel = {}
    /\ runtime' = "EMERGENCY_STOP"
    /\ missed' = Brackets \ OpenRows
    /\ UNCHANGED <<work, phase, stopRow, status, child, queue, link>>
    /\ CancelEntries({}, {i \in OpenRows : stopRow[i] # "none"})
    /\ UNCHANGED <<monitor, request, starts>>

\* emergency_stop: the status is written and the rows are read in one step.
\* cancel_entry_orders is on, as in the default settings.
EmergencyStop ==
    /\ toCancel = {}
    /\ runtime' = "EMERGENCY_STOP"
    /\ missed' = Brackets \ OpenRows
    /\ UNCHANGED <<work, phase, stopRow, status, child, queue, link>>
    /\ CancelEntries({}, OpenRows)
    /\ UNCHANGED <<monitor, request, starts>>

\* open_orders answers for the newest row left, or its refresh times out.  An
\* order that is not listed counts as gone; the next rows follow.
CancelLookedUp(answered) ==
    LET i == Max(toCancel)
        listed == i \in session' /\ parent[i] \in {"working", "cancelling"}
    IN  /\ toCancel # {}
        /\ answered => connected
        /\ session' = IF answered
                         THEN session \cup {j \in Brackets :
                                              parent[j] \in {"working", "cancelling"}}
                         ELSE session
        /\ CancelEntries(IF listed THEN {} ELSE {i}, toCancel \ {i})
        /\ UNCHANGED <<work, phase, stopRow, status, child, queue, connected, drops>>
        /\ UNCHANGED <<runtime, monitor, request, missed, starts>>

-----------------------------------------------------------------------------
(* The process ends, at any wait, and start() runs.                        *)

\* What stop() writes, PAUSED, is overwritten by the next start().
\* What was in memory is gone, rows and statuses are not.  connect() makes a
\* session that may know fewer orders, and the runtime status is written from
\* the connection alone.
Restart(up) ==
    /\ starts < MaxStarts
    /\ starts' = starts + 1
    /\ phase' = [i \in Brackets |->
                    IF phase[i] \in Waiting THEN "aborted" ELSE phase[i]]
    /\ queue' = [t \in Tasks |-> {}]
    /\ connected' = up
    /\ session' \in SUBSET session
    /\ runtime' = IF up THEN "RUNNING" ELSE "PAUSED"
    /\ monitor' = [at |-> "sleep", status |-> runtime']
    /\ request' = [o \in Operators |-> "none"]
    /\ toCancel' = {}
    /\ missed' = NoStop
    /\ UNCHANGED <<work, local, tws, drops>>

-----------------------------------------------------------------------------
\* A step of the pipeline, TWS or the connection that control does not see.
Beside(Step) == Step /\ UNCHANGED control

Follow(t) == \E s \in Setups : HandleNext(t, s) \/ Refuse(t, s)

MonitorStep ==
    \/ Heartbeat
    \/ \E up \in BOOLEAN : HeartbeatReads(up)
    \/ \E t \in Tasks, s \in Setups, batch \in SUBSET Setups :
          PollAnalyses(t, s, batch)
    \/ PollEnds
    \/ PollExpires

ApiStep ==
    \/ \E t \in Tasks, s \in Setups, batch \in SUBSET Setups :
          SnapshotPosted(t, s, batch)
    \/ \E o \in Operators, what \in {"resume", "pause"} : Asked(o, what)
    \/ \E o \in Operators : SwitchAsked(o)
    \/ \E o \in Operators, up \in BOOLEAN : Answered(o, up)
    \/ \E up \in BOOLEAN : Synced(up)
    \/ EmergencyStop
    \/ \E answered \in BOOLEAN : CancelLookedUp(answered)

CNext ==
    \/ MonitorStep
    \/ ApiStep
    \/ \E up \in BOOLEAN : Restart(up)
    \/ \E t \in Tasks : Beside(Follow(t))
    \/ \E i \in Brackets : Beside(Resume(i))
    \/ \E i \in Brackets : Beside(Broker(i))
    \/ Beside(Disconnect)

\* The loop sleeps for a set time, a health check and the poll have timeouts,
\* and signals follow each other without a wait.  Of TWS it is assumed that a
\* reconciliation started by the heartbeat ends.
CFairness ==
    /\ WF_cvars(Heartbeat)
    /\ WF_cvars(\E up \in BOOLEAN : HeartbeatReads(up))
    /\ WF_cvars(PollEnds)
    /\ WF_cvars(PollExpires)
    /\ \A t \in Pollers : WF_cvars(Beside(Follow(t)))

CSpec == CInit /\ [][CNext]_cvars /\ CFairness

-----------------------------------------------------------------------------
(* Properties.                                                             *)

\* Only an operator's answered request, or a start, makes the bot RUNNING or
\* ends an emergency stop: no heartbeat, on whatever it read before its waits,
\* and no reconnection does.
OnlyOperatorsLift ==
    [][\/ runtime # "RUNNING" /\ runtime' = "RUNNING"
       \/ runtime = "EMERGENCY_STOP" /\ runtime' # "EMERGENCY_STOP"
       => request' # request \/ starts' # starts]_cvars

\* A stop or its end reaches the poll: the monitor loop does not keep working
\* with a RUNNING it has read, whatever TWS does to the signals it handles.
StopReachesTheMonitor ==
    runtime = "EMERGENCY_STOP" ~> runtime # "EMERGENCY_STOP" \/ monitor.status # "RUNNING"

\* With the session that placed the orders, an entry working at TWS after an
\* emergency stop is one that had no active row when the stop read the table.
OnlyMissedEntriesOutliveTheStop ==
    drops = 0 /\ starts = 0 /\ missed # NoStop =>
       \A i \in Brackets : parent[i] = "working" => i \in missed

=============================================================================
