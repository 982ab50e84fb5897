--------------------------- MODULE StopProtection ---------------------------
(***************************************************************************)
(* The stop level of one held symbol, which four parties write: the API's  *)
(* modify_stop, the RAISE_STOP signals of a management strategy, the       *)
(* adoption of the TWS position by a reconciliation run, and the manual    *)
(* sells, whose STP orders modify_stop takes for the protective stop.      *)
(*                                                                         *)
(* The level is kept three times: the order at TWS, the stop_price of the  *)
(* order's row, and current_stop of the position's row.  modify_stop sends *)
(* the new price, sleeps 0.2 s and then writes both rows.  All coroutines  *)
(* that wait for TWS sleep equally long, so they wake in the order they    *)
(* went to sleep.  A stop is moved only through the program here, never by *)
(* hand in TWS.                                                            *)
(***************************************************************************)
EXTENDS Integers, Sequences, FiniteSetsExt

CONSTANTS
    MaxPrice,    \* bound: stop levels, 1..MaxPrice
    MaxSells,    \* bound: SELL orders in one behaviour; the first protects
    MaxAsleep,   \* bound: coroutines asleep at once
    MaxDrops,    \* bound: connections lost in one behaviour
    MaxRuns,     \* bound: reconciliation runs in one behaviour
    Held         \* shares of the position at the start

ASSUME SizesAssumption == {MaxPrice, MaxSells, Held} \subseteq Nat \ {0}
ASSUME LimitsAssumption == {MaxAsleep, MaxDrops, MaxRuns} \subseteq Nat

Prices == 1..MaxPrice
Sells  == 1..MaxSells

VARIABLES
    connected,  \* the TWS session is up
    drops,      \* connections lost so far
    held,       \* shares the account holds; negative is short
    n,          \* SELL orders created so far
    sell,       \* the SELL orders: what they are, their wait, TWS and the row
    pos,        \* the position's row; stop 0 is no row
    asleep,     \* coroutines in the 0.2 s after placeOrder, oldest first
    run         \* the adopting reconciliation run: its wait, what it read

link == <<connected, drops>>
svars == <<connected, drops, held, n, sell, pos, asleep, run>>

Unused ==
    [kind |-> "plain", at |-> "free", leg |-> "none", qty |-> 0, price |-> 0,
     row |-> "none", rowPrice |-> 0]

\* The protective stop: placed by the program with an entry that has filled,
\* and not adopted yet, or by hand in TWS for a position that is adopted; no
\* row records that one.
Protective(row) ==
    [kind |-> "stop", at |-> "done", leg |-> "working", qty |-> Held,
     price |-> 1, row |-> row, rowPrice |-> IF row = "none" THEN 0 ELSE 1]

NoRow == [qty |-> 0, stop |-> 0]
Idle(runs) == [at |-> "idle", runs |-> runs, qty |-> 0, stop |-> 0, open |-> {}]

SInit ==
    /\ connected = TRUE
    /\ drops = 0
    /\ held = Held
    /\ n = 1
    /\ \E row \in {"none", "active"} :
          /\ sell = [i \in Sells |-> IF i = 1 THEN Protective(row) ELSE Unused]
          /\ pos = IF row = "none" THEN [qty |-> Held, stop |-> 1] ELSE NoRow
    /\ asleep = << >>
    /\ run = Idle(0)

-----------------------------------------------------------------------------
(* What the code reads.                                                    *)

\* What the code tells apart of a status.  As in BracketEntry, a trade object
\* stays as it was once the connection is lost.
Answer(leg) == CASE leg = "filled" -> "filled" [] leg = "gone" -> "refused"
                 [] OTHER -> "accepted"

Answers(leg) == {Answer(leg)} \cup (IF connected THEN {} ELSE {"accepted"})

\* A row is active (CREATED, SUBMITTED) or closed (FILLED, CANCELLED, ...).
RowOf(answer) == IF answer = "accepted" THEN "active" ELSE "closed"

\* active_stop_order_for_symbol: the newest active SELL row with a stop price,
\* be it the protective stop or a manual STP order; 0 is none.
ActiveStops == {i \in Sells : sell[i].kind = "stop" /\ sell[i].row = "active"}
StopRow == IF ActiveStops = {} THEN 0 ELSE Max(ActiveStops)

\* The bug: the level is the one of the position, not of the order's row.
PositionStop(i) == pos.stop

\* _current_stop: the order's row before the position's row.
CurrentStop(i) == IF i # 0 THEN sell[i].rowPrice ELSE pos.stop

\* raise_stop reads the position's row again and refuses to lower it.
Raised(p) == IF pos.stop = 0 \/ p < pos.stop THEN pos ELSE [pos EXCEPT !.stop = p]

-----------------------------------------------------------------------------
(* modify_stop.                                                            *)

\* Guards passed, a target found, no lowering of the level on record.
MayModify(p) ==
    /\ StopRow # 0 \/ pos.stop # 0
    /\ p >= CurrentStop(StopRow)

\* Connected, with a row: the order is placed again with the new price.  An
\* order the session does not list is refused, which changes nothing.
ModifySent(p) ==
    /\ MayModify(p)
    /\ StopRow # 0 /\ connected
    /\ Len(asleep) < MaxAsleep
    /\ sell' = [sell EXCEPT ![StopRow].price =
                    IF sell[StopRow].leg = "working" THEN p ELSE @]
    /\ asleep' = Append(asleep, [what |-> "modify", order |-> StopRow,
                                 price |-> p, position |-> pos.stop # 0])
    /\ UNCHANGED <<link, held, n, pos, run>>

\* The bug: the order's row is left to the next reconciliation.
ModifyAnsweredPositionOnly ==
    /\ asleep # << >> /\ Head(asleep).what = "modify"
    /\ pos' = IF Head(asleep).position THEN Raised(Head(asleep).price) ELSE pos
    /\ asleep' = Tail(asleep)
    /\ UNCHANGED <<link, held, n, sell, run>>

\* The answer: refused when the order shows as cancelled or rejected, written
\* to the order's row and to the position's row otherwise.
ModifyAnswered ==
    /\ asleep # << >> /\ Head(asleep).what = "modify"
    /\ LET m == Head(asleep)
       IN  \E answer \in Answers(sell[m.order].leg) :
              IF answer = "refused"
                 THEN UNCHANGED <<sell, pos>>
                 ELSE /\ sell' = [sell EXCEPT ![m.order].rowPrice = m.price]
                      /\ pos' = IF m.position THEN Raised(m.price) ELSE pos
    /\ asleep' = Tail(asleep)
    /\ UNCHANGED <<link, held, n, run>>

\* Without a row or without a connection only the rows are written, and the
\* answer is ok all the same.
ModifyLocally(p) ==
    /\ MayModify(p)
    /\ StopRow = 0 \/ ~ connected
    /\ sell' = IF StopRow = 0 THEN sell ELSE [sell EXCEPT ![StopRow].rowPrice = p]
    /\ pos' = Raised(p)
    /\ UNCHANGED <<link, held, n, asleep, run>>

\* A RAISE_STOP signal: move_stop writes the position's row and nothing else.
RaiseSignal(p) ==
    /\ pos.stop # 0
    /\ pos' = Raised(p)
    /\ UNCHANGED <<link, held, n, sell, asleep, run>>

-----------------------------------------------------------------------------
(* A manual SELL: assessed, then submitted without a bracket.              *)

\* _assess_sell compares with the position's row alone: the sells that work
\* already, the protective stop among them, do not count.  Up to the wait for
\* the contract.  A limit or market sell has no stop price.
ManualSell(kind, qty, p) ==
    /\ p \in IF kind = "stop" THEN Prices ELSE {0}
    /\ qty <= pos.qty
    /\ connected
    /\ n < MaxSells
    /\ n' = n + 1
    /\ sell' = [sell EXCEPT ![n + 1] =
                    [kind |-> kind, at |-> "qualify", leg |-> "none", qty |-> qty,
                     price |-> p, row |-> "none", rowPrice |-> p]]
    /\ UNCHANGED <<link, held, pos, asleep, run>>

\* The contract or placeOrder raises: the row is saved as rejected.
SellNotSent(i) ==
    /\ sell[i].at = "qualify"
    /\ sell' = [sell EXCEPT ![i].at = "done", ![i].row = "closed"]
    /\ UNCHANGED <<link, held, n, pos, asleep, run>>

SellSent(i) ==
    /\ sell[i].at = "qualify"
    /\ connected
    /\ Len(asleep) < MaxAsleep
    /\ sell' = [sell EXCEPT ![i].at = "sent", ![i].leg = "working"]
    /\ asleep' = Append(asleep, [what |-> "sell", order |-> i, price |-> 0,
                                 position |-> FALSE])
    /\ UNCHANGED <<link, held, n, pos, run>>

SellAnswered ==
    /\ asleep # << >> /\ Head(asleep).what = "sell"
    /\ LET i == Head(asleep).order
       IN  \E answer \in Answers(sell[i].leg) :
              sell' = [sell EXCEPT ![i].at = "done", ![i].row = RowOf(answer)]
    /\ asleep' = Tail(asleep)
    /\ UNCHANGED <<link, held, n, pos, run>>

-----------------------------------------------------------------------------
(* A reconciliation run with a management setup that adopts the position.  *)

RunStarts ==
    /\ run.at = "idle" /\ connected
    /\ run.runs < MaxRuns
    /\ run' = [Idle(run.runs + 1) EXCEPT !.at = "positions"]
    /\ UNCHANGED <<link, held, n, sell, pos, asleep>>

\* positions(): nothing without a connection.
PositionsRead ==
    /\ run.at = "positions"
    /\ run' = [run EXCEPT !.at = "orders", !.qty = IF connected THEN held ELSE 0]
    /\ UNCHANGED <<link, held, n, sell, pos, asleep>>

OpenStops == {i \in Sells : sell[i].leg = "working" /\ sell[i].kind = "stop"}

\* open_orders(), and _matching_stop_order: any SELL with a stop price.
OrdersRead ==
    /\ run.at = "orders"
    /\ \E stop \in IF connected /\ OpenStops # {}
                      THEN {sell[i].price : i \in OpenStops} ELSE {0} :
          run' = [run EXCEPT !.at = "account", !.stop = stop,
                     !.open = IF connected THEN {i \in Sells : sell[i].leg = "working"}
                                           ELSE {}]
    /\ UNCHANGED <<link, held, n, sell, pos, asleep>>

\* The row of a sell after the run, as in OrderReconciliation.
Reconciled(i) ==
    IF sell[i].row = "none" THEN "none"
    ELSE IF i \in run.open THEN "active"
    ELSE IF sell[i].row # "active" THEN sell[i].row
    ELSE IF connected THEN RowOf(Answer(sell[i].leg)) ELSE "closed"

\* Account values read: rows are reconciled, then the position is adopted with
\* the stop TWS showed.  No position, or no stop, leaves the old row as it is;
\* so does a price below the stop of the setup, and a setup that need not
\* pause without a stop takes the one it was configured with.
Adopted ==
    {pos} \cup (IF run.qty = 0 THEN {}
                ELSE IF run.stop # 0 THEN {[qty |-> run.qty, stop |-> run.stop]}
                ELSE {[qty |-> run.qty, stop |-> 1]})

RunEnds ==
    /\ run.at = "account"
    /\ sell' = [i \in Sells |-> [sell[i] EXCEPT !.row = Reconciled(i)]]
    /\ pos' \in Adopted
    /\ run' = Idle(run.runs)
    /\ UNCHANGED <<link, held, n, asleep>>

-----------------------------------------------------------------------------
(* TWS and the connection.                                                 *)

TwsFills(i) ==
    /\ sell[i].leg = "working"
    /\ sell' = [sell EXCEPT ![i].leg = "filled"]
    /\ held' = held - sell[i].qty
    /\ UNCHANGED <<link, n, pos, asleep, run>>

\* TWS rejects or cancels the order, or its user cancels it.
TwsDrops(i) ==
    /\ sell[i].leg = "working"
    /\ sell' = [sell EXCEPT ![i].leg = "gone"]
    /\ UNCHANGED <<link, held, n, pos, asleep, run>>

Disconnect ==
    /\ connected /\ drops < MaxDrops
    /\ connected' = FALSE
    /\ drops' = drops + 1
    /\ UNCHANGED <<held, n, sell, pos, asleep, run>>

Reconnect ==
    /\ ~ connected
    /\ connected' = TRUE
    /\ UNCHANGED <<drops, held, n, sell, pos, asleep, run>>

SNext ==
    \/ \E p \in Prices : ModifySent(p) \/ ModifyLocally(p) \/ RaiseSignal(p)
    \/ ModifyAnswered
    \/ \E qty \in 1..Held, p \in 0..MaxPrice, kind \in {"stop", "plain"} :
          ManualSell(kind, qty, p)
    \/ \E i \in Sells : SellNotSent(i) \/ SellSent(i)
    \/ SellAnswered
    \/ RunStarts \/ PositionsRead \/ OrdersRead \/ RunEnds
    \/ \E i \in Sells : TwsFills(i) \/ TwsDrops(i)
    \/ Disconnect
    \/ Reconnect

SSpec == SInit /\ [][SNext]_svars

-----------------------------------------------------------------------------
(* Properties.                                                             *)

Modifying(i) == \E k \in 1..Len(asleep) :
                   asleep[k].what = "modify" /\ asleep[k].order = i

SellType ==
    [kind : {"stop", "plain"}, at : {"free", "qualify", "sent", "done"},
     leg : {"none", "working", "filled", "gone"},
     qty : 0..Held, price : 0..MaxPrice, rowPrice : 0..MaxPrice,
     row : {"none", "active", "closed"}]
PosType == [qty : Int, stop : 0..MaxPrice]
SleepType ==
    [what : {"modify", "sell"}, order : Sells, price : 0..MaxPrice,
     position : BOOLEAN]
RunType ==
    [at : {"idle", "positions", "orders", "account"}, runs : 0..MaxRuns,
     qty : Int, stop : 0..MaxPrice, open : SUBSET Sells]

STypeOK ==
    /\ connected \in BOOLEAN /\ drops \in 0..MaxDrops
    /\ held \in Int /\ n \in 1..MaxSells
    /\ sell \in [Sells -> SellType]
    /\ pos \in PosType
    /\ asleep \in Seq(SleepType)
    /\ run \in RunType

\* Between modifications the row of a working stop shows at least the level TWS
\* holds, whatever was lost, refused or written offline: the lowering check of
\* the next modify_stop compares with no less than the real stop.
RowCoversTws ==
    \A i \in Sells :
       sell[i].row = "active" /\ sell[i].leg = "working" /\ ~ Modifying(i)
          => sell[i].rowPrice >= sell[i].price

\* A stop is lowered at TWS only while another modification of the same order
\* is still in its wait; one modification after the other never lowers it.
LoweredOnlyByOverlap ==
    [][\A i \in Sells :
          sell[i].leg = "working" /\ sell'[i].price < sell[i].price
             => Modifying(i)]_svars

=============================================================================
