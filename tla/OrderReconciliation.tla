------------------------ MODULE OrderReconciliation ------------------------
(***************************************************************************)
(* ReconciliationEngine.run and the API's cancel_order beside the entry    *)
(* pipeline: three writers of the same order rows and setup statuses.      *)
(*                                                                         *)
(* A run reads positions, open orders and account values, each behind a    *)
(* wait, and then rewrites the rows from what it read.  The statuses of    *)
(* trades() are read in the step that rewrites.  A query that fails or     *)
(* times out is swallowed by the connector, and a lost connection makes    *)
(* each query answer an empty list: the run goes on in both cases.         *)
(***************************************************************************)
EXTENDS BracketEntry

CONSTANT Runs    \* reconciliation runs that can overlap: monitor, force_sync

VARIABLES
    run,          \* each run's wait and what it has read so far
    stopSession,  \* brackets whose stop the session's trades() lists
    lookups       \* brackets whose API cancel waits for open_orders

books == <<run, stopSession, lookups>>
rvars == <<vars, books>>

Nothing == [i \in Brackets |-> "none"]
Resting == [at |-> "idle", held |-> FALSE, entries |-> Nothing, stops |-> Nothing]

RInit ==
    /\ Init
    /\ run = [r \in Runs |-> Resting]
    /\ stopSession = {}
    /\ lookups = {}

-----------------------------------------------------------------------------
(* What the connector answers.                                             *)

Filled(leg) == {i \in Brackets : leg[i] = "filled"}

\* The account holds the symbol: a filled entry whose stop has not filled.
PositionOpen == ~ (Filled(parent) \subseteq Filled(child))

\* open_orders: the trades of a session that are not done.
OpenEntries(known) ==
    [i \in Brackets |->
        IF i \in known /\ parent[i] \in {"held", "working", "cancelling"}
           THEN LocalStatus(parent[i]) ELSE "none"]

OpenStops(known) ==
    [i \in Brackets |->
        IF i \in known /\ child[i] = "working" THEN "SUBMITTED" ELSE "none"]

\* reqAllOpenOrders adds every transmitted open order to the session; it may
\* also time out, which changes nothing, and is not sent without a connection.
Refresh(answered) ==
    IF answered
       THEN /\ connected
            /\ session' = session \cup
                  {i \in Brackets : parent[i] \in {"working", "cancelling"}}
            /\ stopSession' = stopSession \cup {i \in Brackets : child[i] = "working"}
       ELSE UNCHANGED <<session, stopSession>>

\* openTrades() after the refresh: the session's orders; the cache of a lost
\* session may also have been cleared.
Listed(entries, stops) ==
    \/ entries = OpenEntries(session') /\ stops = OpenStops(stopSession')
    \/ ~ connected /\ entries = Nothing /\ stops = Nothing

\* order_statuses: what trades() says of a leg, nothing without a connection.
KnownStatus(i, known, leg) ==
    IF connected /\ i \in known THEN LocalStatus(leg) ELSE "none"

-----------------------------------------------------------------------------
(* _reconcile_local_orders.                                                *)

\* The bug: the statuses of trades() are not looked at.
ReconciledWithoutTrades(old, open, known, missing) ==
    IF old = "none" THEN "none"
    ELSE IF open # "none" THEN open
    ELSE IF old # "SUBMITTED" THEN old
    ELSE missing

\* The bug: only active rows are compared with the broker's open orders.
ReconciledActiveOnly(old, open, known, missing) ==
    IF old # "SUBMITTED" THEN old
    ELSE IF open # "none" THEN open
    ELSE IF known # "none" THEN known
    ELSE missing

\* The bug: a row the broker does not list as open is left alone.
ReconciledListedOnly(old, open, known, missing) ==
    IF old # "none" /\ open # "none" THEN open ELSE old

\* The new status of a row: the listed open order decides, then, for an active
\* row alone, trades(), then the inference for a missing order.
Reconciled(old, open, known, missing) ==
    IF old = "none" THEN "none"
    ELSE IF open # "none" THEN open
    ELSE IF old # "SUBMITTED" THEN old
    ELSE IF known # "none" THEN known
    ELSE missing

\* _update_setup_after_reconciled_order for one row.
SetupAfter(was, side, old, new) ==
    IF new = old THEN was
    ELSE IF new = "SUBMITTED" /\ was \in TerminalSignalStatuses
       THEN IF side = "SELL" THEN "STOP_ORDER_PLACED" ELSE PLACED
    ELSE IF new = "CANCELLED" /\ side = "BUY" /\ was \in {PLACED, "STOP_ORDER_PLACED"}
       THEN "CANCELLED"
    ELSE was

\* The rows are visited newest first: the last bracket's stop, its entry, ...
Apply(held, entries, stops) ==
    LET entryRow == [i \in Brackets |->
            Reconciled(row[i], entries[i], KnownStatus(i, session', parent[i]),
                       IF held THEN "FILLED" ELSE "CANCELLED")]
        stopLeg == [i \in Brackets |->
            Reconciled(stopRow[i], stops[i], KnownStatus(i, stopSession', child[i]),
                       "CANCELLED")]
        \* the status of setup s once the rows of the n newest brackets are done
        after(s) ==
            LET f[n \in 0..MaxOrders] ==
                  IF n = 0 THEN status[s]
                  ELSE LET i == MaxOrders + 1 - n
                       IN  IF of[i] # s THEN f[n - 1]
                           ELSE SetupAfter(
                                   SetupAfter(f[n - 1], "SELL", stopRow[i], stopLeg[i]),
                                   "BUY", row[i], entryRow[i])
            IN  f[MaxOrders]
    IN  /\ row' = entryRow
        /\ stopRow' = stopLeg
        /\ status' = [s \in Setups |-> after(s)]

\* A run that is not connected at its start only saves a report.
RunStarts(r) ==
    /\ run[r].at = "idle"
    /\ connected
    /\ run' = [run EXCEPT ![r].at = "positions"]
    /\ UNCHANGED <<vars, stopSession, lookups>>

\* positions() answers.  Without a connection the remaining queries answer
\* nothing and do not wait, so the rows are rewritten at once.
PositionsRead(r) ==
    /\ run[r].at = "positions"
    /\ \E held \in {PositionOpen} \cup (IF connected THEN {} ELSE {FALSE}) :
          IF connected
             THEN /\ run' = [run EXCEPT ![r].at = "orders", ![r].held = held]
                  /\ UNCHANGED local
             ELSE /\ run' = [run EXCEPT ![r] = Resting]
                  /\ Apply(held, Nothing, Nothing)
    /\ UNCHANGED <<work, phase, tws, queue, link, stopSession, lookups>>

\* open_orders() answers; account_summary waits only when the session has no
\* account values yet.
OrdersRead(r, answered) ==
    /\ run[r].at = "orders"
    /\ Refresh(answered)
    /\ \E entries \in {OpenEntries(session'), Nothing}, stops \in {OpenStops(stopSession'), Nothing} :
          /\ Listed(entries, stops)
          /\ \/ /\ Apply(run[r].held, entries, stops)
                /\ run' = [run EXCEPT ![r] = Resting]
             \/ /\ connected
                /\ run' = [run EXCEPT ![r] = [at |-> "account", held |-> run[r].held,
                                              entries |-> entries, stops |-> stops]]
                /\ UNCHANGED local
    /\ UNCHANGED <<work, phase, tws, queue, connected, drops, lookups>>

\* The account values arrive, or the request fails.
AccountRead(r) ==
    /\ run[r].at = "account"
    /\ UNCHANGED <<work, phase, tws, queue, link, stopSession, lookups>>
    /\ Apply(run[r].held, run[r].entries, run[r].stops)
    /\ run' = [run EXCEPT ![r] = Resting]

-----------------------------------------------------------------------------
(* cancel_order of an entry, from the API.  It does not look at the row's  *)
(* status, and the broker accepts it for any order of the session.         *)

UserCancels(i) ==
    /\ connected
    /\ row[i] # "none" /\ parent[i] # "none"
    /\ i \in session
    /\ parent' = [parent EXCEPT ![i] = AfterCancel(@)]
    /\ row' = [row EXCEPT ![i] = "CANCELLED"]
    /\ UNCHANGED <<work, phase, stopRow, child, status, queue, link, books>>

\* The session does not know the order: open_orders is asked.
UserCancelsUnknown(i) ==
    /\ connected
    /\ row[i] # "none" /\ parent[i] # "none"
    /\ i \notin session \cup lookups
    /\ lookups' = lookups \cup {i}
    /\ UNCHANGED <<vars, run, stopSession>>

\* _mark_cancelled_if_absent_from_broker: a refresh that timed out counts as
\* an answer.
LookupDone(i, answered) ==
    /\ i \in lookups
    /\ lookups' = lookups \ {i}
    /\ Refresh(answered)
    /\ \E entries \in {OpenEntries(session'), Nothing} :
          /\ Listed(entries, OpenStops(stopSession')) \/ ~ connected
          /\ row' = IF entries[i] = "none" THEN [row EXCEPT ![i] = "CANCELLED"] ELSE row
    /\ UNCHANGED <<work, phase, stopRow, status, tws, queue, connected, drops, run>>

-----------------------------------------------------------------------------
\* A step of BracketEntry.  A stop that is placed joins the session; a new
\* session may know fewer stops.
Beside(Step) ==
    /\ Step
    /\ IF ~ connected /\ connected'
          THEN stopSession' \in SUBSET stopSession
          ELSE stopSession' = stopSession \cup
                  {i \in Brackets : child[i] = "none" /\ child'[i] # "none"}
    /\ UNCHANGED <<run, lookups>>

EntryStep == Beside(Next)

RunStep(r) ==
    \/ RunStarts(r)
    \/ PositionsRead(r)
    \/ \E answered \in BOOLEAN : OrdersRead(r, answered)
    \/ AccountRead(r)

CancelStep(i) ==
    \/ UserCancels(i)
    \/ UserCancelsUnknown(i)
    \/ \E answered \in BOOLEAN : LookupDone(i, answered)

RNext ==
    \/ EntryStep
    \/ \E r \in Runs : RunStep(r)
    \/ \E i \in Brackets : CancelStep(i)

\* The monitor starts a run whenever one is due; positions and open_orders
\* wait 2 s at most, and a lost connection wakes the coroutine of a bracket.  Of
\* TWS it is assumed that it can be reached again, that it answers the account
\* request, and reqAllOpenOrders now and then.
RFairness ==
    /\ WF_rvars(Beside(Reconnect))
    /\ \A i \in Brackets : WF_rvars(~ connected /\ Beside(Resume(i)))
    /\ \A r \in Runs :
          /\ WF_rvars(RunStarts(r))
          /\ WF_rvars(PositionsRead(r))
          /\ WF_rvars(\E answered \in BOOLEAN : OrdersRead(r, answered))
          /\ SF_rvars(OrdersRead(r, TRUE))
          /\ WF_rvars(AccountRead(r))

RSpec == RInit /\ [][RNext]_rvars /\ RFairness

-----------------------------------------------------------------------------
\* While the connection never drops, runs and cancels that overlap the
\* pipeline never take a working entry off the books, however old the open
\* orders are that a run applies.
BooksHoldWhileConnected ==
    drops = 0 => WorkingEntryIsOnTheBooks

\* An entry that works at TWS while its row says otherwise comes back on the
\* books, or stops working.
EntryBackOnTheBooks ==
    \A i \in Brackets :
       parent[i] = "working" /\ row[i] # "SUBMITTED" ~>
          parent[i] # "working" \/ row[i] = "SUBMITTED"

\* The row of an entry that is over at TWS does not stay active.
DeadEntryLeavesTheBooks ==
    \A i \in Brackets :
       parent[i] \in {"filled", "cancelled", "rejected"} /\ row[i] = "SUBMITTED" ~>
          row[i] # "SUBMITTED"

=============================================================================
