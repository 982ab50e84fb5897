---------------------------- MODULE BracketEntry ----------------------------
(***************************************************************************)
(* The entry pipeline of setup-order: an ENTRY_READY signal becomes a      *)
(* parent BUY order and a protective SELL stop (a bracket) at TWS.         *)
(*                                                                         *)
(* The program is one asyncio loop: a coroutine keeps the loop until an    *)
(* await that really suspends.  submit_order suspends twice, while the     *)
(* contract is qualified and while it sleeps 0.2 s after placeOrder, so a  *)
(* bracket is four waits long and each action below is the code between    *)
(* two of them.  Between waits other coroutines (the stock poll, an API    *)
(* request), the poll timeout, TWS and the connection take their steps.    *)
(*                                                                         *)
(* The order at TWS is external: it is modelled from the requests the code *)
(* sends and the statuses it reads back.                                   *)
(***************************************************************************)
EXTENDS Naturals

CONSTANTS
    Setups,       \* setups with an entry strategy, all on one symbol
    Tasks,        \* coroutines that evaluate snapshots and handle signals
    Pollers,      \* the tasks that run under the stock poll's wait_for
    MaxOrders,    \* bound: brackets begun in one behaviour
    MaxDrops,     \* bound: connections lost in one behaviour
    None          \* the owner and the setup of a bracket not begun yet

ASSUME PollersAssumption == Pollers \subseteq Tasks
ASSUME NoneAssumption == None \notin Tasks \cup Setups
ASSUME BoundsAssumption == MaxOrders \in Nat /\ MaxDrops \in Nat

Brackets == 1..MaxOrders

WAITING == "WAITING_ACTIVATION"
PLACED  == "ENTRY_ORDER_PLACED"
REVIEW  == "ERROR_REQUIRES_MANUAL_REVIEW"

SetupStatus == {WAITING, PLACED, "STOP_ORDER_PLACED", "CANCELLED", REVIEW}
TerminalSignalStatuses == {"CANCELLED", REVIEW}

\* The status column of a row of the orders table; "none" is no row.
RowStatus == {"none", "SUBMITTED", "FILLED", "CANCELLED", "REJECTED"}

\* A leg at TWS.  "held" is placed with transmit=False; "cancelling" is a
\* cancel sent and not confirmed yet.
LegStatus == {"none", "held", "working", "cancelling", "filled",
              "cancelled", "rejected"}

Waiting == {"qualifyParent", "sentParent", "qualifyStop", "sentStop"}
Ended   == {"placed", "failed", "raised", "aborted"}
Phases  == {"idle"} \cup Waiting \cup Ended

VARIABLES
    count,      \* brackets begun so far; bracket i is the i-th created
    phase,      \* where the coroutine of bracket i is waiting, or how it ended
    owner,      \* the task that runs bracket i
    of,         \* the setup of bracket i
    row,        \* local row of the parent order
    stopRow,    \* local row of the protective stop
    parent,     \* the parent order at TWS
    child,      \* the protective stop at TWS
    status,     \* the status column of each setup
    queue,      \* signals of a task's evaluated batch it has still to handle
    connected,  \* the TWS session is up
    session,    \* brackets whose parent the session's trades() lists
    drops       \* connections lost so far

local == <<row, stopRow, status>>
tws   == <<parent, child>>
link  == <<connected, session, drops>>
work  == <<count, owner, of>>
vars  == <<count, phase, owner, of, row, stopRow, parent, child, status,
           queue, connected, session, drops>>

Init ==
    /\ count = 0
    /\ phase = [i \in Brackets |-> "idle"]
    /\ owner = [i \in Brackets |-> None]
    /\ of = [i \in Brackets |-> None]
    /\ row = [i \in Brackets |-> "none"]
    /\ stopRow = [i \in Brackets |-> "none"]
    /\ parent = [i \in Brackets |-> "none"]
    /\ child = [i \in Brackets |-> "none"]
    /\ status = [s \in Setups |-> WAITING]
    /\ queue = [t \in Tasks |-> {}]
    /\ connected = TRUE
    /\ session = {}
    /\ drops = 0

-----------------------------------------------------------------------------
(* What the code reads.                                                    *)

\* _tws_order_status_to_order_status.
LocalStatus(leg) ==
    CASE leg = "filled"                      -> "FILLED"
      [] leg = "rejected"                    -> "REJECTED"
      [] leg \in {"cancelling", "cancelled"} -> "CANCELLED"
      [] OTHER                               -> "SUBMITTED"

\* The status a trade object shows: TWS no longer updates it once the
\* connection is lost, and it starts as a submitted order.  A trade of an
\* earlier session that is read after a reconnect shows what a current one
\* would if the leg changed right after the reply, which the model allows.
SeenStatus(leg) ==
    {LocalStatus(leg)} \cup (IF connected THEN {} ELSE {"SUBMITTED"})

\* The bug: only an entry whose stop is active counts as a duplicate.
HasProtectedEntry(s) ==
    \E i \in Brackets :
       i <= count /\ of[i] = s /\ row[i] = "SUBMITTED" /\ stopRow[i] = "SUBMITTED"

\* protection_snapshot_for_setup(s)["active_entry_order_id"]: an entry row of
\* the setup is CREATED or SUBMITTED.
HasActiveEntry(s) ==
    \E i \in Brackets : i <= count /\ of[i] = s /\ row[i] = "SUBMITTED"

Busy(t) == \E i \in Brackets : owner[i] = t /\ phase[i] \in Waiting

Signalable(s) == status[s] \notin TerminalSignalStatuses

-----------------------------------------------------------------------------
(* place_entry_order, up to the first wait: the checks and the parent      *)
(* request.  A refusal by a gate or a check writes nothing this module     *)
(* keeps.  submit_order raises at once without a connection.               *)
Submit(t, s) ==
    /\ ~ HasActiveEntry(s)
    /\ connected
    /\ count < MaxOrders
    /\ count' = count + 1
    /\ phase' = [phase EXCEPT ![count + 1] = "qualifyParent"]
    /\ owner' = [owner EXCEPT ![count + 1] = t]
    /\ of' = [of EXCEPT ![count + 1] = s]

\* analyze_market_snapshot: the statuses of all setups of the symbol are read
\* in one go, then the signals are handled one after the other.  batch holds
\* the signals; s is the first one that is not refused.
Evaluate(t, s, batch) ==
    /\ ~ Busy(t)
    /\ queue[t] = {}
    /\ \A x \in batch \cup {s} : Signalable(x)
    /\ Submit(t, s)
    /\ queue' = [queue EXCEPT ![t] = batch \ {s}]
    /\ UNCHANGED <<local, tws, link>>

\* The next signal of the batch: its setup was read before the waits of the
\* earlier ones and is not read again.
HandleNext(t, s) ==
    /\ ~ Busy(t)
    /\ s \in queue[t]
    /\ Submit(t, s)
    /\ queue' = [queue EXCEPT ![t] = @ \ {s}]
    /\ UNCHANGED <<local, tws, link>>

\* execute_entry_ready returns before place_entry_order, or place_entry_order
\* finds the duplicate.
Refuse(t, s) ==
    /\ ~ Busy(t)
    /\ s \in queue[t]
    /\ queue' = [queue EXCEPT ![t] = @ \ {s}]
    /\ UNCHANGED <<work, phase, local, tws, link>>

-----------------------------------------------------------------------------
(* submit_order of the parent.                                             *)

\* The qualification or placeOrder raises: submit_order answers REJECTED
\* without an order id, and place_entry_order records that and stops.
ParentNotSent(i) ==
    /\ phase[i] = "qualifyParent"
    /\ phase' = [phase EXCEPT ![i] = "failed"]
    /\ row' = [row EXCEPT ![i] = "REJECTED"]
    /\ status' = [status EXCEPT ![of[i]] = REVIEW]
    /\ UNCHANGED <<work, stopRow, tws, queue, link>>

\* The bug: the parent goes out with transmit=True.
PlaceParentTransmitted(i) ==
    /\ phase[i] = "qualifyParent"
    /\ connected
    /\ phase' = [phase EXCEPT ![i] = "sentParent"]
    /\ parent' = [parent EXCEPT ![i] = "working"]
    /\ session' = session \cup {i}
    /\ UNCHANGED <<work, local, child, queue, connected, drops>>

\* placeOrder with transmit=False.
PlaceParent(i) ==
    /\ phase[i] = "qualifyParent"
    /\ connected
    /\ phase' = [phase EXCEPT ![i] = "sentParent"]
    /\ parent' = [parent EXCEPT ![i] = "held"]
    /\ session' = session \cup {i}
    /\ UNCHANGED <<work, local, child, queue, connected, drops>>

\* The reply says rejected or cancelled: the row is saved, the setup flagged.
ParentRefused(i) ==
    /\ phase[i] = "sentParent"
    /\ \E seen \in SeenStatus(parent[i]) \cap {"REJECTED", "CANCELLED"} :
          row' = [row EXCEPT ![i] = seen]
    /\ phase' = [phase EXCEPT ![i] = "failed"]
    /\ status' = [status EXCEPT ![of[i]] = REVIEW]
    /\ UNCHANGED <<work, stopRow, tws, queue, link>>

\* The bug: the parent row is left to be saved when the stop is done.
ParentAcceptedUnsaved(i) ==
    /\ phase[i] = "sentParent"
    /\ connected
    /\ "SUBMITTED" \in SeenStatus(parent[i])
    /\ phase' = [phase EXCEPT ![i] = "qualifyStop"]
    /\ UNCHANGED <<work, local, tws, queue, link>>

\* The reply accepts the parent: the row is saved and place_stop_order runs
\* up to its own first wait.
ParentAccepted(i) ==
    /\ phase[i] = "sentParent"
    /\ connected
    /\ "SUBMITTED" \in SeenStatus(parent[i])
    /\ row' = [row EXCEPT ![i] = "SUBMITTED"]
    /\ phase' = [phase EXCEPT ![i] = "qualifyStop"]
    /\ UNCHANGED <<work, stopRow, status, tws, queue, link>>

\* As above with the connection gone: place_stop_order raises, so does the
\* cancel_order of _cancel_parent_for_failed_protection, and the exception
\* leaves place_entry_order, execute_entry_ready and the batch.
ParentAcceptedLinkLost(i) ==
    /\ phase[i] = "sentParent"
    /\ ~ connected
    /\ row' = [row EXCEPT ![i] = "SUBMITTED"]
    /\ phase' = [phase EXCEPT ![i] = "raised"]
    /\ queue' = [queue EXCEPT ![owner[i]] = {}]
    /\ UNCHANGED <<work, stopRow, status, tws, link>>

-----------------------------------------------------------------------------
(* submit_order of the stop.                                               *)

\* broker.cancel_order: the cancel of an order that is still open.
AfterCancel(leg) == IF leg \in {"held", "working"} THEN "cancelling" ELSE leg

\* The bug: the parent row is closed whatever cancel_order answered.
CancelParentUnchecked(i) ==
    /\ status' = [status EXCEPT ![of[i]] = REVIEW]
    /\ row' = [row EXCEPT ![i] = "CANCELLED"]
    /\ parent' = IF connected /\ i \in session
                    THEN [parent EXCEPT ![i] = AfterCancel(@)] ELSE parent
    /\ phase' = [phase EXCEPT ![i] = "failed"]
    /\ UNCHANGED queue

\* The bug: the setup is flagged only when the parent could be cancelled.
CancelParentFlagIfCancelled(i) ==
    /\ IF connected /\ i \in session
          THEN /\ parent' = [parent EXCEPT ![i] = AfterCancel(@)]
               /\ row' = [row EXCEPT ![i] = "CANCELLED"]
               /\ status' = [status EXCEPT ![of[i]] = REVIEW]
          ELSE UNCHANGED <<parent, row, status>>
    /\ phase' = [phase EXCEPT ![i] = "failed"]
    /\ UNCHANGED queue

\* _cancel_parent_for_failed_protection after place_stop_order has already
\* flagged the setup.  cancel_order accepts any parent the session lists, and
\* raises without a connection.
CancelParentForFailedProtection(i) ==
    /\ status' = [status EXCEPT ![of[i]] = REVIEW]
    /\ IF connected /\ i \in session
          THEN /\ parent' = [parent EXCEPT ![i] = AfterCancel(@)]
               /\ row' = [row EXCEPT ![i] = "CANCELLED"]
          ELSE UNCHANGED <<parent, row>>
    /\ IF connected
          THEN /\ phase' = [phase EXCEPT ![i] = "failed"]
               /\ UNCHANGED queue
          ELSE /\ phase' = [phase EXCEPT ![i] = "raised"]
               /\ queue' = [queue EXCEPT ![owner[i]] = {}]

\* The stop could not be placed: submit_order answers REJECTED.
StopNotSent(i) ==
    /\ phase[i] = "qualifyStop"
    /\ stopRow' = [stopRow EXCEPT ![i] = "REJECTED"]
    /\ CancelParentForFailedProtection(i)
    /\ UNCHANGED <<work, child, link>>

\* placeOrder of the stop with transmit=True, which also transmits the held
\* parent.  TWS refuses the child of an order that is gone.
PlaceStop(i) ==
    /\ phase[i] = "qualifyStop"
    /\ connected
    /\ phase' = [phase EXCEPT ![i] = "sentStop"]
    /\ IF parent[i] = "held"
          THEN /\ parent' = [parent EXCEPT ![i] = "working"]
               /\ child' = [child EXCEPT ![i] = "working"]
          ELSE /\ child' = [child EXCEPT ![i] = "rejected"]
               /\ UNCHANGED parent
    /\ UNCHANGED <<work, local, queue, link>>

\* The reply rejects the stop.
StopRejected(i) ==
    /\ phase[i] = "sentStop"
    /\ "REJECTED" \in SeenStatus(child[i])
    /\ stopRow' = [stopRow EXCEPT ![i] = "REJECTED"]
    /\ CancelParentForFailedProtection(i)
    /\ UNCHANGED <<work, child, link>>

\* Any other reply.  place_stop_order flags a CANCELLED stop for review, but
\* place_entry_order looks only for REJECTED and ERROR and overwrites that.
StopAnswered(i) ==
    /\ phase[i] = "sentStop"
    /\ \E seen \in SeenStatus(child[i]) \ {"REJECTED"} :
          stopRow' = [stopRow EXCEPT ![i] = seen]
    /\ phase' = [phase EXCEPT ![i] = "placed"]
    /\ status' = [status EXCEPT ![of[i]] = PLACED]
    /\ UNCHANGED <<work, row, tws, queue, link>>

\* The bug: the qualification is shielded from the timeout.
PollTimeoutShielded ==
    /\ \E i \in Brackets :
          owner[i] \in Pollers /\ phase[i] \in {"sentParent", "sentStop"}
    /\ phase' = [i \in Brackets |->
                    IF phase[i] \in {"sentParent", "sentStop"}
                          /\ owner[i] \in Pollers
                       THEN "aborted" ELSE phase[i]]
    /\ queue' = [t \in Tasks |-> IF t \in Pollers THEN {} ELSE queue[t]]
    /\ UNCHANGED <<work, local, tws, link>>

\* The stock poll's wait_for expires: its coroutines are cancelled where they
\* wait, and no handler of the pipeline catches CancelledError.
PollTimeout ==
    /\ \E t \in Pollers : Busy(t)
    /\ phase' = [i \in Brackets |->
                    IF phase[i] \in Waiting /\ owner[i] \in Pollers
                       THEN "aborted" ELSE phase[i]]
    /\ queue' = [t \in Tasks |-> IF t \in Pollers THEN {} ELSE queue[t]]
    /\ UNCHANGED <<work, local, tws, link>>

-----------------------------------------------------------------------------
(* TWS, its user and the connection.                                       *)

Disconnect ==
    /\ connected
    /\ drops < MaxDrops
    /\ connected' = FALSE
    /\ drops' = drops + 1
    /\ UNCHANGED <<work, phase, local, tws, queue, session>>

\* connect() makes a new session: it may know fewer of the earlier orders,
\* since the client id it obtains need not be the one that placed them.  A
\* qualification that was pending fails with the connection, so its coroutine
\* has woken up before the new session is there.
Reconnect ==
    /\ ~ connected
    /\ \A i \in Brackets : phase[i] \notin {"qualifyParent", "qualifyStop"}
    /\ connected' = TRUE
    /\ session' \in SUBSET session
    /\ UNCHANGED <<work, phase, local, tws, queue, drops>>

\* An entry that was transmitted fills, also while its cancel is under way.
TwsFillsEntry(i) ==
    /\ \/ parent[i] = "working"
       \/ parent[i] = "cancelling" /\ child[i] # "none"
    /\ parent' = [parent EXCEPT ![i] = "filled"]
    /\ UNCHANGED <<work, phase, local, child, queue, link>>

\* TWS confirms a cancel, or its user cancels the entry; the stop goes too.
TwsCancelsEntry(i) ==
    /\ parent[i] \in {"held", "working", "cancelling"}
    /\ parent' = [parent EXCEPT ![i] = "cancelled"]
    /\ child' = [child EXCEPT ![i] = IF @ = "working" THEN "cancelled" ELSE @]
    /\ UNCHANGED <<work, phase, local, queue, link>>

TwsRejectsEntry(i) ==
    /\ parent[i] \in {"held", "working"}
    /\ parent' = [parent EXCEPT ![i] = "rejected"]
    /\ child' = [child EXCEPT ![i] = IF @ = "working" THEN "cancelled" ELSE @]
    /\ UNCHANGED <<work, phase, local, queue, link>>

\* TWS rejects or cancels the stop alone.
TwsDropsStop(i) ==
    /\ child[i] = "working"
    /\ \E leg \in {"rejected", "cancelled"} :
          child' = [child EXCEPT ![i] = leg]
    /\ UNCHANGED <<work, phase, local, parent, queue, link>>

TwsTriggersStop(i) ==
    /\ child[i] = "working" /\ parent[i] = "filled"
    /\ child' = [child EXCEPT ![i] = "filled"]
    /\ UNCHANGED <<work, phase, local, parent, queue, link>>

-----------------------------------------------------------------------------
Signal ==
    \E t \in Tasks, s \in Setups :
       \/ \E batch \in SUBSET Setups : Evaluate(t, s, batch)
       \/ HandleNext(t, s)
       \/ Refuse(t, s)

\* The coroutine of bracket i wakes up.
Resume(i) ==
    \/ ParentNotSent(i)
    \/ PlaceParent(i)
    \/ ParentRefused(i)
    \/ ParentAccepted(i)
    \/ ParentAcceptedLinkLost(i)
    \/ StopNotSent(i)
    \/ PlaceStop(i)
    \/ StopRejected(i)
    \/ StopAnswered(i)

Broker(i) ==
    \/ TwsFillsEntry(i)
    \/ TwsCancelsEntry(i)
    \/ TwsRejectsEntry(i)
    \/ TwsDropsStop(i)
    \/ TwsTriggersStop(i)

Next ==
    \/ Signal
    \/ \E i \in Brackets : Resume(i)
    \/ PollTimeout
    \/ \E i \in Brackets : Broker(i)
    \/ Disconnect
    \/ Reconnect

\* The 0.2 s sleeps end and wait_for expires; a qualification that TWS never
\* answers has no timeout of its own, so nothing is assumed of it.
Fairness ==
    /\ WF_vars(PollTimeout)
    /\ \A i \in Brackets :
          WF_vars(phase[i] \in {"sentParent", "sentStop"} /\ Resume(i))

Spec == Init /\ [][Next]_vars /\ Fairness

-----------------------------------------------------------------------------
(* Properties.                                                             *)

\* Each column and each leg holds a status the code or TWS knows.
TypeOK ==
    /\ count \in 0..MaxOrders
    /\ phase \in [Brackets -> Phases]
    /\ owner \in [Brackets -> Tasks \cup {None}]
    /\ of \in [Brackets -> Setups \cup {None}]
    /\ row \in [Brackets -> RowStatus]
    /\ stopRow \in [Brackets -> RowStatus]
    /\ parent \in [Brackets -> LegStatus]
    /\ child \in [Brackets -> LegStatus \ {"held", "cancelling"}]
    /\ status \in [Setups -> SetupStatus]
    /\ queue \in [Tasks -> SUBSET Setups]
    /\ connected \in BOOLEAN
    /\ session \in SUBSET Brackets
    /\ drops \in 0..MaxDrops

\* An entry that can fill was sent together with a protective stop: TWS never
\* holds a transmitted parent whose stop place_entry_order has not placed.
ParentTransmittedOnlyWithStop ==
    \A i \in Brackets :
       parent[i] \in {"working", "filled"} => child[i] # "none"

\* Every entry working at TWS has an active local row, whatever wait the
\* pipeline is in and however its coroutine ended.  The duplicate check of
\* place_entry_order sees working orders only through these rows.
WorkingEntryIsOnTheBooks ==
    \A i \in Brackets : parent[i] = "working" => row[i] = "SUBMITTED"

\* One task alone never has two entries of one setup working at TWS: across
\* timeouts, exceptions, lost connections and failed stops, the rows it left
\* behind refuse the second one.
OneTaskNeverDuplicates ==
    \A i, j \in Brackets :
       /\ i # j
       /\ of[i] = of[j] /\ owner[i] = owner[j]
       /\ parent[i] = "working"
       => parent[j] # "working"

\* An entry TWS has and no row records is one that the poll timeout cut off or
\* whose coroutine still waits for the reply, and it was never transmitted.
UnsavedEntryWasCutOff ==
    \A i \in Brackets :
       parent[i] # "none" /\ row[i] = "none" =>
          /\ phase[i] \in {"sentParent", "aborted"}
          /\ child[i] = "none"

\* A bracket of the stock poll ends, even when TWS never answers a
\* qualification: the poll timeout is its only way out then.
PollBracketEnds ==
    \A i \in Brackets :
       phase[i] \in Waiting /\ owner[i] \in Pollers ~> phase[i] \in Ended

\* What a bracket leaves behind when its coroutine ends by itself: the entry
\* can expose the account, no active stop is recorded, nobody is told.
LeftUnprotected(i) ==
    /\ phase[i] \in Waiting /\ phase'[i] \in {"placed", "failed", "raised"}
    /\ parent'[i] \in {"working", "filled"}
    /\ stopRow'[i] \notin {"SUBMITTED", "FILLED"}
    /\ status'[of[i]] # REVIEW

\* The order manager contract asks for an explicit cancellation path if the
\* protective child cannot be created: no bracket is left unprotected.
EndedEntryIsProtectedOrFlagged == [][\A i \in Brackets : ~ LeftUnprotected(i)]_vars

\* The one way to be left unprotected is a stop that TWS reports CANCELLED;
\* every other failure, lost connections included, cancels the entry or flags
\* the setup.
OnlyACancelledStopSlipsThrough ==
    [][\A i \in Brackets : LeftUnprotected(i) => stopRow'[i] = "CANCELLED"]_vars

-----------------------------------------------------------------------------
(* The promise of the pipeline, read off the order columns and TWS.        *)

\* What a parent can still do: one whose cancel was sent can fill until TWS
\* confirms it, if it was transmitted with its stop.
Exposure(entryLeg, stopLeg) ==
    CASE entryLeg = "none"       -> "none"
      [] entryLeg = "held"       -> "pending"
      [] entryLeg = "working"    -> "live"
      [] entryLeg = "cancelling" -> IF stopLeg = "none" THEN "pending" ELSE "live"
      [] OTHER                   -> "over"

Promise == INSTANCE ProtectedEntry WITH
    entry   <- [i \in Brackets |-> Exposure(parent[i], child[i])],
    revoked <- {i \in Brackets : parent[i] = "cancelling"},
    booked  <- {i \in Brackets : row[i] = "SUBMITTED"},
    guarded <- {i \in Brackets : child[i] = "working"}

\* Through all waits, timeouts, exceptions and lost connections a bracket keeps
\* the promise of ProtectedEntry: it goes live only on the books and together
\* with its stop, and while it can fill it leaves the books in one way only,
\* the cancel that cancel_order has sent and TWS has not confirmed.
KeepsItsPromise == Promise!Spec

=============================================================================
