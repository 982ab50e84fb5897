----------------------------- MODULE EntryGate -----------------------------
(***************************************************************************)
(* The broker reality gate: what a reconciliation run reads of TWS, the    *)
(* report it saves, and the automatic entries of several setups the report *)
(* lets through until it is replaced or goes stale.                        *)
(*                                                                         *)
(* A run reads positions, then open orders, then waits for the account     *)
(* values; it corrects the rows, adopts positions and judges everything    *)
(* with the rows of that last moment.  A bracket is BracketEntry's, told   *)
(* apart only by what a report can see of it: held at TWS without a row    *)
(* while its coroutine waits, working with both rows, or over.  Long       *)
(* setups with a configured stop; the tracker and all its switches on.     *)
(***************************************************************************)
EXTENDS Integers, FiniteSets, FiniteSetsExt

CONSTANTS
    Symbols,
    Entering,     \* the setups that enter, a function to their symbols
    Managing,     \* the management-only setups, a function to their symbols
    MaxEntries,   \* bound: entries in one behaviour
    MaxDrops,     \* bound: connections lost in one behaviour
    MaxAsked,     \* bound: requests of the operator in one behaviour
    MaxOpen,      \* trade_guards.exposure.max_open_positions
    StaleAfter    \* broker_tracker.stale_after_seconds, in ticks

ByHand == "by hand"   \* the owner of a position that no setup bought

ASSUME GateSetupsAssumption ==
    /\ DOMAIN Entering \cap DOMAIN Managing = {}
    /\ \A s \in DOMAIN Entering : Entering[s] \in Symbols
    /\ \A s \in DOMAIN Managing : Managing[s] \in Symbols
    /\ ByHand \notin DOMAIN Entering \cup DOMAIN Managing
ASSUME GateBoundsAssumption == {MaxEntries, MaxDrops, MaxAsked, MaxOpen, StaleAfter} \subseteq Nat /\ MaxEntries # 0

Setups == DOMAIN Entering \cup DOMAIN Managing
Symbol(s) == IF s \in DOMAIN Entering THEN Entering[s] ELSE Managing[s]
Entries == 1..MaxEntries

VARIABLES
    connected, drops, asked,
    session,  \* entries whose orders the TWS session knows
    n,        \* entries begun so far
    entry,    \* the entries: owner, both legs at TWS, both rows
    status,   \* the setups' status
    pos,      \* symbols with a row in the positions table
    run,      \* the reconciliation run: its wait and what it has read
    report    \* the saved report

link  == <<connected, drops, asked, session>>
gvars == <<link, n, entry, status, pos, run, report>>

Unused == [setup |-> ByHand, symbol |-> "", leg |-> "none", stop |-> "none",
           row |-> "none", stopRow |-> "none"]

\* No report before the first run.  held and filled record what the reads
\* behind the report saw, lost that the connection went down meanwhile.
NoReport == [saved |-> FALSE, connected |-> FALSE, blocked |-> TRUE, age |-> 0,
             filled |-> {}, lost |-> FALSE]
Idle == [at |-> "idle", held |-> {}, entries |-> {}, stops |-> {}, filled |-> {}, lost |-> FALSE]

Waiting == "WAITING"   \* any status a strategy enters from
InitialStatus(s) == IF s \in DOMAIN Managing THEN "RECONCILING" ELSE Waiting

\* There may be a position bought and protected by hand.
GInit ==
    /\ connected = TRUE /\ drops = 0 /\ asked = 0 /\ session = {}
    /\ \E held \in {{}} \cup {{x} : x \in Symbols} :
          /\ n = Cardinality(held)
          /\ entry = [e \in Entries |->
                IF e <= n THEN [Unused EXCEPT !.symbol = CHOOSE x \in held : TRUE,
                                              !.leg = "filled", !.stop = "working"]
                          ELSE Unused]
    /\ status = [s \in Setups |-> InitialStatus(s)]
    /\ pos = {}
    /\ run = Idle
    /\ report = NoReport

-----------------------------------------------------------------------------
(* The account.                                                            *)

Open(e) == entry[e].leg = "filled" /\ entry[e].stop # "filled"
HeldSymbols == {entry[e].symbol : e \in {f \in Entries : Open(f)}}

-----------------------------------------------------------------------------
(* build_broker_reality_report, from what the run has read (r) and the     *)
(* setups, rows and positions of the moment it is saved.                   *)

Final == {"CANCELLED", "ERROR_REQUIRES_MANUAL_REVIEW", "DELETED"}
OrderDependent == {"ENTRY_ORDER_PLACED", "IN_POSITION"}

\* _latest_local_order: the newest active row, else the newest row; 0 is none.
Newest(S) == IF S = {} THEN 0 ELSE Max(S)
LocalEntry(s, rows) ==
    LET mine == {e \in Entries : entry[e].setup = s /\ rows[e].row # "none"}
        active == {e \in mine : rows[e].row = "active"}
    IN  IF active # {} THEN Newest(active) ELSE Newest(mine)
LocalStop(s, rows) ==
    LET mine == {e \in Entries : entry[e].setup = s /\ rows[e].stopRow # "none"}
        active == {e \in mine : rows[e].stopRow = "active"}
    IN  IF active # {} THEN Newest(active) ELSE Newest(mine)

\* The entries TWS listed: [order, working], working FALSE for a parent that
\* is prepared and not transmitted.
Listed(r) == {l.order : l \in r.entries}
Works(e, r) == [order |-> e, working |-> TRUE] \in r.entries

\* _matching_broker_entry: the row's own order, else a BUY of the symbol, a
\* working one before a prepared one; equal ones in the order of the list.
MatchedEntries(s, symbol, rows, r) ==
    LET local == LocalEntry(s, rows)
        buys == {e \in Listed(r) : entry[e].symbol = symbol}
        working == {e \in buys : Works(e, r)}
    IN  IF local \in Listed(r) THEN {local}
        ELSE IF working # {} THEN working
        ELSE IF buys # {} THEN buys ELSE {0}

\* _matching_broker_stop: the row's own stop, else a stop of the symbol, one of
\* the entry's before another.
MatchedStops(s, symbol, matched, rows, r) ==
    LET local == LocalStop(s, rows)
        sells == {e \in r.stops : entry[e].symbol = symbol}
        children == sells \cap {matched, LocalEntry(s, rows)}
    IN  IF local \in r.stops THEN {local}
        ELSE IF children # {} THEN children
        ELSE IF sells # {} THEN sells ELSE {0}

\* A position or a working entry whose stop TWS does not list.
Protection(held, be, bs, r) ==
    CASE held /\ bs = 0 -> "POSITION_OPEN_STOP_MISSING_CRITICAL"
      [] held -> "POSITION_OPEN_STOP_ACTIVE"
      [] be # 0 /\ Works(be, r) /\ bs = 0 -> "ENTRY_ORDER_WITHOUT_STOP_CRITICAL"
      [] be # 0 /\ Works(be, r) -> "PROTECTED"
      [] OTHER -> "NOTHING_TO_PROTECT"
Critical == {"POSITION_OPEN_STOP_MISSING_CRITICAL", "ENTRY_ORDER_WITHOUT_STOP_CRITICAL"}

\* An order that is expected or on record and not in TWS, one that is prepared
\* only, a position on one side only.
Mismatched(s, status_, be, rows, local, r) ==
    \/ be = 0 /\ (status_ \in OrderDependent \/ LocalEntry(s, rows) # 0)
    \/ be # 0 /\ ~ Works(be, r)
    \/ (Symbol(s) \in r.held) # (Symbol(s) \in local)

\* Whether the row of a setup blocks new entries.
SetupRowBlocks(s, st, be, bs, rows, local, r) ==
    \/ Protection(Symbol(s) \in r.held, be, bs, r) \in Critical
    \/ Mismatched(s, st[s], be, rows, local, r)

Living(st) == {s \in Setups : st[s] \notin Final}

\* Positions no living setup has the symbol of, and orders no row uses; the
\* row of such a position uses the stop of its symbol.  Both always block.
OrphanPositions(st, r) == r.held \ {Symbol(s) : s \in Living(st)}
OrphanOrders(be, bs, r) ==
    (Listed(r) \ {be[s] : s \in DOMAIN be}) \cup (r.stops \ {bs[s] : s \in DOMAIN bs})

\* The entry and the stop each living setup's row may use.
Matches(st, rows, r) ==
    UNION {{<<be, bs>> : bs \in
               {g \in [Living(st) -> r.stops \cup {0}] :
                   \A s \in Living(st) : g[s] \in MatchedStops(s, Symbol(s), be[s], rows, r)}}
           : be \in {f \in [Living(st) -> Listed(r) \cup {0}] :
                       \A s \in Living(st) : f[s] \in MatchedEntries(s, Symbol(s), rows, r)}}

\* The bug: the order of a setup that is over belongs to it all the same.
BlocksUnlessOwned(st, rows, local, r) ==
    {\E s \in Living(st) : \E be \in MatchedEntries(s, Symbol(s), rows, r) :
        \E bs \in MatchedStops(s, Symbol(s), be, rows, r) :
           SetupRowBlocks(s, st, be, bs, rows, local, r)}

Judged(st, rows, local, r) ==
    {\/ \E s \in Living(st) : SetupRowBlocks(s, st, m[1][s], m[2][s], rows, local, r)
     \/ OrphanPositions(st, r) # {}
     \/ OrphanOrders(m[1], m[2], r) # {}
     : m \in Matches(st, rows, r)}

\* Of the entries read as filled, those the report accounts for: on a symbol the
\* positions read had, by hand, or with a row of a living setup and no order of
\* the symbol listed, which MatchedEntries would take in its place.
Claimed(r, st, rows) ==
    {e \in r.filled :
        \/ entry[e].symbol \in r.held
        \/ entry[e].setup = ByHand
        \/ /\ rows[e].row # "none" /\ st[entry[e].setup] \notin Final
           /\ \A f \in Listed(r) : entry[f].symbol # entry[e].symbol}

-----------------------------------------------------------------------------
(* The gate.                                                               *)

\* freshen_broker_reality_report and broker_reality_blocking_reasons.
GateOpen ==
    /\ report.saved /\ report.connected
    /\ ~ report.blocked
    /\ report.age <= StaleAfter

\* The exposure verdict of the trade guards: rows of the positions table.
ExposureAllows(s) == Symbol(s) \notin pos /\ Cardinality(pos) < MaxOpen

\* The duplicate check, and one coroutine of a setup at a time (the overlap of
\* two is BracketEntry's).
Free(s) == \A e \in Entries : entry[e].setup = s
              => entry[e].row # "active" /\ entry[e].leg # "held"

\* The bug: the gate is asked once, when the batch is evaluated.
EntryBeginsUnasked(s) ==
    /\ status[s] \in {Waiting, "ENTRY_ORDER_PLACED", "MANUAL_REVIEW_REQUIRED"}
    /\ connected /\ report.saved
    /\ ExposureAllows(s) /\ Free(s) /\ n < MaxEntries
    /\ n' = n + 1
    /\ entry' = [entry EXCEPT ![n + 1] =
                    [Unused EXCEPT !.setup = s, !.symbol = Symbol(s), !.leg = "held"]]
    /\ session' = session \cup {n + 1}
    /\ UNCHANGED <<connected, drops, asked, status, pos, run, report>>

\* execute_entry_ready passes its gates and the parent is prepared at TWS.  A
\* range breakout asks to enter whatever order its setup has had before.
EntryBegins(s) ==
    /\ status[s] \in {Waiting, "ENTRY_ORDER_PLACED", "MANUAL_REVIEW_REQUIRED"}
    /\ connected /\ GateOpen
    /\ ExposureAllows(s) /\ Free(s) /\ n < MaxEntries
    /\ n' = n + 1
    /\ entry' = [entry EXCEPT ![n + 1] =
                    [Unused EXCEPT !.setup = s, !.symbol = Symbol(s), !.leg = "held"]]
    /\ session' = session \cup {n + 1}
    /\ UNCHANGED <<connected, drops, asked, status, pos, run, report>>

Written(s, to) == IF status[s] = "DELETED" THEN status ELSE [status EXCEPT ![s] = to]

EntryPlaced(e) ==
    /\ entry[e].leg = "held" /\ connected
    /\ entry' = [entry EXCEPT ![e].leg = "working", ![e].stop = "working",
                              ![e].row = "active", ![e].stopRow = "active"]
    /\ status' = Written(entry[e].setup, "ENTRY_ORDER_PLACED")
    /\ UNCHANGED <<link, n, pos, run, report>>

\* Refused, or cancelled for a failed stop: the setup asks for a review.
EntryRefused(e) ==
    /\ entry[e].leg = "held"
    /\ entry' = [entry EXCEPT ![e].leg = "gone", ![e].row = "cancelled"]
    /\ status' = Written(entry[e].setup, "ERROR_REQUIRES_MANUAL_REVIEW")
    /\ UNCHANGED <<link, n, pos, run, report>>

-----------------------------------------------------------------------------
(* The run.                                                                *)

RunUnchanged == UNCHANGED <<link, n, entry, status, pos>>

\* A run without a connection saves at once that there is none.
RunStarts ==
    /\ run.at = "idle"
    /\ IF connected
          THEN run' = [Idle EXCEPT !.at = "positions"] /\ UNCHANGED report
          ELSE /\ report' = [NoReport EXCEPT !.saved = TRUE]
               /\ UNCHANGED run
    /\ RunUnchanged

PositionsRead ==
    /\ run.at = "positions"
    /\ run' = [run EXCEPT !.at = "orders", !.held = IF connected THEN HeldSymbols ELSE {}]
    /\ RunUnchanged /\ UNCHANGED report

OrdersRead ==
    /\ run.at = "orders"
    /\ run' = [run EXCEPT !.at = "account",
          !.filled = {e \in Entries : entry[e].leg = "filled"},
          !.entries = IF connected
             THEN {[order |-> e, working |-> entry[e].leg = "working"] :
                      e \in {f \in Entries : entry[f].leg \in {"held", "working"}}}
             ELSE {},
          !.stops = IF connected THEN {e \in Entries : entry[e].stop = "working"} ELSE {}]
    /\ RunUnchanged /\ UNCHANGED report

\* _reconcile_local_orders.  The status of an order that was not listed is known
\* to the session, or inferred from the positions read.
Missing(e, leg, held) ==
    IF ~ (connected /\ e \in session) THEN IF held THEN "filled" ELSE "cancelled"
    ELSE CASE leg = "working" -> "active" [] leg = "filled" -> "filled"
           [] OTHER -> "cancelled"

RowAfter(e) ==
    IF entry[e].row = "none" THEN "none"
    ELSE IF e \in Listed(run) THEN "active"
    ELSE IF entry[e].row # "active" THEN entry[e].row
    ELSE Missing(e, entry[e].leg, entry[e].symbol \in run.held)

StopRowAfter(e) ==
    IF entry[e].stopRow = "none" THEN "none"
    ELSE IF e \in run.stops THEN "active"
    ELSE IF entry[e].stopRow # "active" THEN entry[e].stopRow
    ELSE Missing(e, entry[e].stop, FALSE)

RowsAfter == [e \in Entries |-> [row |-> RowAfter(e), stopRow |-> StopRowAfter(e)]]

\* _update_setup_after_reconciled_order: an entry newly cancelled ends its
\* setup, an order newly active brings an ended one back.
Corrected(s, rows) ==
    LET mine == {e \in Entries : entry[e].setup = s}
        restored == \E e \in mine : \/ rows[e].row = "active" /\ entry[e].row # "active"
                                    \/ rows[e].stopRow = "active" /\ entry[e].stopRow # "active"
        cancelled == \E e \in mine : rows[e].row = "cancelled" /\ entry[e].row = "active"
    IN  IF status[s] = "DELETED" THEN "DELETED"
        ELSE IF restored /\ status[s] \in Final \cup {"MANUAL_REVIEW_REQUIRED"}
                THEN "ENTRY_ORDER_PLACED"
        ELSE IF cancelled /\ status[s] = "ENTRY_ORDER_PLACED" THEN "CANCELLED"
        ELSE status[s]

\* The adoption of the positions read: with a stop order of the symbol in the
\* orders read, and a price above the configured stop.
Adopted(st, adopted) ==
    [s \in Setups |->
        IF s \notin DOMAIN Managing \/ st[s] \in Final THEN st[s]
        ELSE IF s \in adopted THEN "IN_POSITION" ELSE "MANUAL_REVIEW_REQUIRED"]

Adoptable(st) ==
    {s \in DOMAIN Managing : /\ st[s] \notin Final /\ Managing[s] \in run.held
                             /\ \E e \in run.stops : entry[e].symbol = Managing[s]}

\* The bug: a tracker that was DISCONNECTED once stays so.
SavedSticky(blocked, filled) ==
    [saved |-> TRUE, connected |-> ~ report.saved \/ report.connected,
     blocked |-> blocked, age |-> 0, filled |-> filled, lost |-> run.lost]

Saved(blocked, filled) ==
    [saved |-> TRUE, connected |-> TRUE, blocked |-> blocked, age |-> 0,
     filled |-> filled, lost |-> run.lost]

\* The account values are there: rows, setups and positions are written, and
\* the report is stamped with the time of this moment, not of the reads.
RunSaves ==
    /\ run.at = "account"
    /\ LET rows == RowsAfter
           corrected == [s \in Setups |-> Corrected(s, rows)]
       IN  \E adopted \in SUBSET Adoptable(corrected) :
              /\ entry' = [e \in Entries |-> [entry[e] EXCEPT !.row = rows[e].row,
                                                              !.stopRow = rows[e].stopRow]]
              /\ status' = Adopted(corrected, adopted)
              /\ pos' = pos \cup {Managing[s] : s \in adopted}
              /\ \E blocked \in Judged(status', rows, pos', run) :
                    report' = Saved(blocked, Claimed(run, status', rows))
    /\ run' = Idle
    /\ UNCHANGED <<link, n>>

-----------------------------------------------------------------------------
(* Time, TWS and the connection.                                           *)

Tick ==
    /\ report.saved /\ report.age <= StaleAfter
    /\ report' = [report EXCEPT !.age = @ + 1]
    /\ RunUnchanged /\ UNCHANGED run

TwsUnchanged == UNCHANGED <<link, n, status, pos, run, report>>

TwsFills(e) ==
    /\ entry[e].leg = "working" /\ entry' = [entry EXCEPT ![e].leg = "filled"]
    /\ TwsUnchanged

\* The stop is hit, or the position is closed by hand and its stop cancelled.
TwsCloses(e) == Open(e) /\ entry' = [entry EXCEPT ![e].stop = "filled"] /\ TwsUnchanged

\* The user cancels an entry, and TWS its stop with it.
TwsCancels(e) ==
    /\ entry[e].leg \in {"held", "working"}
    /\ entry' = [entry EXCEPT ![e].leg = "gone",
                              ![e].stop = IF @ = "working" THEN "gone" ELSE @]
    /\ TwsUnchanged

\* The user or TWS ends a stop.
TwsDropsStop(e) ==
    /\ entry[e].stop = "working" /\ entry' = [entry EXCEPT ![e].stop = "gone"]
    /\ TwsUnchanged

Disconnect ==
    /\ connected /\ drops < MaxDrops
    /\ connected' = FALSE /\ drops' = drops + 1 /\ session' = {}
    /\ run' = IF run.at = "idle" THEN run ELSE [run EXCEPT !.lost = TRUE]
    /\ UNCHANGED <<asked, n, entry, status, pos, report>>

Reconnect ==
    /\ ~ connected /\ connected' = TRUE
    /\ session' \in SUBSET {e \in Entries : entry[e].leg \in {"held", "working"}
                                              \/ entry[e].stop = "working"}
    /\ UNCHANGED <<drops, asked, n, entry, status, pos, run, report>>

-----------------------------------------------------------------------------
(* The operator.                                                           *)

MayDisarm(s) ==
    /\ status[s] # "DELETED"
    /\ s \in DOMAIN Managing => Managing[s] \notin pos   \* the adopter's own row
    /\ \A e \in Entries : entry[e].setup = s
          => entry[e].row # "active" /\ entry[e].stopRow # "active"

Asks == asked < MaxAsked /\ asked' = asked + 1

\* Disarmed and armed again.
Rearm(s) ==
    /\ Asks /\ MayDisarm(s) /\ status[s] # InitialStatus(s)
    /\ status' = [status EXCEPT ![s] = InitialStatus(s)]
    /\ UNCHANGED <<connected, drops, session, n, entry, pos, run, report>>

Delete(s) ==
    /\ Asks /\ MayDisarm(s) /\ status' = [status EXCEPT ![s] = "DELETED"]
    /\ UNCHANGED <<connected, drops, session, n, entry, pos, run, report>>

\* The rows of an order that is over are deleted from the history.
Forget(e) ==
    /\ Asks /\ entry[e].row \in {"filled", "cancelled"} /\ entry[e].stopRow # "active"
    /\ entry' = [entry EXCEPT ![e].row = "none", ![e].stopRow = "none"]
    /\ UNCHANGED <<connected, drops, session, n, status, pos, run, report>>

GNext ==
    \/ \E s \in DOMAIN Entering : EntryBegins(s)
    \/ \E e \in Entries : EntryPlaced(e) \/ EntryRefused(e)
    \/ RunStarts \/ PositionsRead \/ OrdersRead \/ RunSaves
    \/ Tick
    \/ \E e \in Entries : TwsFills(e) \/ TwsCloses(e) \/ TwsCancels(e) \/ TwsDropsStop(e)
    \/ Disconnect \/ Reconnect
    \/ \E s \in Setups : Rearm(s) \/ Delete(s)
    \/ \E e \in Entries : Forget(e)

\* The monitor begins a run when one is due, TWS answers it.
Runs == RunStarts \/ PositionsRead \/ OrdersRead \/ RunSaves
GSpec == GInit /\ [][GNext]_gvars /\ WF_gvars(Runs)

-----------------------------------------------------------------------------
(* Properties.                                                             *)

RowStates == {"none", "active", "filled", "cancelled"}

GTypeOK ==
    /\ connected \in BOOLEAN /\ drops \in 0..MaxDrops /\ asked \in 0..MaxAsked /\ n \in 0..MaxEntries
    /\ session \subseteq Entries
    /\ entry \in [Entries -> [setup : Setups \cup {ByHand}, symbol : Symbols \cup {""},
          leg : {"none", "held", "working", "filled", "gone"},
          stop : {"none", "working", "filled", "gone"}, row : RowStates, stopRow : RowStates]]
    /\ status \in [Setups -> {Waiting, "RECONCILING", "ENTRY_ORDER_PLACED", "IN_POSITION",
                              "MANUAL_REVIEW_REQUIRED"} \cup Final]
    /\ pos \subseteq Symbols
    /\ run \in [at : {"idle", "positions", "orders", "account"}, held : SUBSET (Symbols \cup {""}),
                entries : SUBSET [order : Entries, working : BOOLEAN], stops : SUBSET Entries,
                filled : SUBSET Entries, lost : BOOLEAN]
    /\ report \in [saved : BOOLEAN, connected : BOOLEAN, blocked : BOOLEAN,
                   age : 0..(StaleAfter + 1), filled : SUBSET Entries, lost : BOOLEAN]

Begins == n' = n + 1

\* A position the program does not know, or knows and does not see protected,
\* stops every automatic entry as soon as a report has read it.  An entry begins
\* beside such a position only if it was filled after the reads of the report, or
\* the connection was lost during them, or it was filled between the reads and its
\* setup was over, its row deleted, or another order of its symbol listed.
Unknown(e) == Open(e) /\ entry[e].symbol \notin pos
NoEntryBesideAnUnknownPosition ==
    [][Begins => \/ report.lost
                 \/ \A e \in Entries : Unknown(e) => e \notin report.filled]_gvars

\* While the connection holds and no setup has an order, a position or a row of
\* either, nor a status that expects one, the gate opens again and again, however
\* long its report was blocking, stale or of a lost connection.
Clean == /\ connected /\ pos = {}
         /\ \A e \in Entries : entry[e].row = "none" /\ entry[e].leg \in {"none", "gone"}
                                 /\ entry[e].stop # "working"
         /\ \A s \in Setups : status[s] \in {Waiting} \cup Final
GateOpensWhenClean == <>[]Clean => []<>GateOpen

=============================================================================
