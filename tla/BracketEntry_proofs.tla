------------------------ MODULE BracketEntry_proofs ------------------------
(***************************************************************************)
(* Machine-checked proofs about BracketEntry, and about the reconciliation *)
(* beside it, for every set of setups, tasks and runs and every bound.     *)
(* The argument of the pipeline is one inductive invariant: what each wait *)
(* knows about the row and the orders of its bracket, and that a bracket   *)
(* followed by another of the same task and setup is over and no longer    *)
(* works at TWS.  Beside the reconciliation the promise is shown from what *)
(* a step that begins no bracket may do to one.                            *)
(***************************************************************************)
EXTENDS OrderReconciliation, TLAPS

\* Brackets are begun in order; one not begun has no trace anywhere.
Begun(i) ==
    /\ i > count => phase[i] = "idle"
    /\ i <= count => phase[i] # "idle" /\ owner[i] \in Tasks /\ of[i] \in Setups

\* Before the stop is placed no leg is transmitted; after the first wait TWS
\* has the parent; the pipeline sends a cancel only as it ends.
BeforeReply(i) ==
    /\ phase[i] \in {"idle", "qualifyParent"} => parent[i] = "none"
    /\ phase[i] \in {"idle", "qualifyParent", "sentParent"} =>
          row[i] = "none" /\ child[i] = "none"
    /\ phase[i] \in {"sentParent", "qualifyStop", "sentStop"} =>
          parent[i] \notin {"none", "cancelling"}
    /\ phase[i] = "qualifyStop" => row[i] = "SUBMITTED" /\ child[i] = "none"
    /\ child[i] = "none" => parent[i] \notin {"working", "filled"}
    /\ parent[i] = "held" => child[i] = "none"
    /\ phase[i] = "sentStop" => child[i] # "none"
    /\ row[i] = "none" =>
          /\ phase[i] \in {"idle", "qualifyParent", "sentParent", "aborted"}
          /\ child[i] = "none"

\* An order that works at TWS has its active row.
OnTheBooks(i) == parent[i] = "working" => row[i] = "SUBMITTED"

\* A bracket with a later one of the same task and setup is over.
Superseded(i, j) ==
    i < j /\ j <= count /\ owner[i] = owner[j] /\ of[i] = of[j] =>
       phase[i] \notin Waiting /\ parent[i] # "working"

IInv ==
    /\ TypeOK
    /\ \A i \in Brackets : Begun(i)
    /\ \A i \in Brackets : BeforeReply(i)
    /\ \A i \in Brackets : OnTheBooks(i)
    /\ \A i, j \in Brackets : Superseded(i, j)

-----------------------------------------------------------------------------
(* The initial state and each action keep IInv.                            *)

\* The initial state satisfies the inductive invariant.
LEMMA InitIInv == Init => IInv
<1> SUFFICES ASSUME Init PROVE IInv
  OBVIOUS
<1> USE DEF Init
<1>1. TypeOK
  BY BoundsAssumption DEF TypeOK, Brackets, Phases, Waiting, Ended, RowStatus,
     LegStatus, SetupStatus, WAITING
<1>2. ASSUME NEW i \in Brackets PROVE Begun(i) /\ BeforeReply(i) /\ OnTheBooks(i)
  BY BoundsAssumption DEF Begun, BeforeReply, OnTheBooks, Brackets
<1>3. ASSUME NEW i \in Brackets, NEW j \in Brackets PROVE Superseded(i, j)
  BY BoundsAssumption DEF Superseded, Brackets
<1> QED
  BY <1>1, <1>2, <1>3 DEF IInv

\* A refused or missing change: IInv speaks of nothing else.
LEMMA UnchangedIInv ==
    IInv /\ UNCHANGED <<work, phase, local, tws>> /\ TypeOK' => IInv'
<1> SUFFICES ASSUME IInv, UNCHANGED <<work, phase, local, tws>>, TypeOK'
             PROVE IInv'
  OBVIOUS
<1> USE DEF IInv, work, local, tws
<1>1. \A i \in Brackets : Begun(i)'
  BY DEF Begun
<1>2. \A i \in Brackets : BeforeReply(i)' /\ OnTheBooks(i)'
  BY DEF BeforeReply, OnTheBooks
<1>3. \A i, j \in Brackets : Superseded(i, j)'
  BY DEF Superseded
<1> QED
  BY <1>1, <1>2, <1>3

\* place_entry_order begins a bracket: the duplicate check and the sequential
\* batch make every earlier bracket of the task and setup a superseded one.
LEMMA SubmitIInv ==
    ASSUME NEW t \in Tasks, NEW s \in Setups, IInv, Submit(t, s), ~ Busy(t),
           UNCHANGED <<local, tws, link>>, queue' \in [Tasks -> SUBSET Setups]
    PROVE  IInv'
<1> USE DEF IInv, Submit, local, tws, link
<1>1. count \in Nat /\ MaxOrders \in Nat /\ count + 1 \in Brackets
  BY BoundsAssumption DEF TypeOK, Brackets
<1>2. TypeOK'
  BY <1>1 DEF TypeOK, Brackets, Phases, Waiting
<1>3. ASSUME NEW i \in Brackets PROVE Begun(i)'
  BY <1>1 DEF Begun, TypeOK, Brackets
<1>4. ASSUME NEW i \in Brackets PROVE BeforeReply(i)' /\ OnTheBooks(i)'
  <2>1. phase[count + 1] = "idle"
    BY <1>1 DEF Begun, TypeOK
  <2>2. CASE i = count + 1
    BY <2>1, <2>2, <1>1 DEF BeforeReply, OnTheBooks, TypeOK
  <2>3. CASE i # count + 1
    BY <2>3, <1>1 DEF BeforeReply, OnTheBooks, TypeOK
  <2> QED
    BY <2>2, <2>3
<1>5. ASSUME NEW i \in Brackets, NEW j \in Brackets PROVE Superseded(i, j)'
  <2> SUFFICES ASSUME i < j, j <= count', owner'[i] = owner'[j], of'[i] = of'[j]
               PROVE phase'[i] \notin Waiting /\ parent'[i] # "working"
    BY DEF Superseded
  <2>1. i # count + 1 /\ i <= count
    BY <1>1 DEF Brackets
  <2>2. phase'[i] = phase[i] /\ owner'[i] = owner[i] /\ of'[i] = of[i]
    BY <2>1, <1>1 DEF TypeOK
  <2>3. CASE j = count + 1
    <3>1. owner[i] = t /\ of[i] = s
      BY <2>2, <2>3, <1>1 DEF TypeOK
    <3>2. phase[i] \notin Waiting
      BY <3>1 DEF Busy
    <3>3. parent[i] # "working"
      BY <3>1, <2>1 DEF HasActiveEntry, OnTheBooks
    <3> QED
      BY <3>2, <3>3, <2>2
  <2>4. CASE j # count + 1
    <3>1. owner'[j] = owner[j] /\ of'[j] = of[j] /\ j <= count
      BY <2>4, <1>1 DEF TypeOK, Brackets
    <3> QED
      BY <3>1, <2>2 DEF Superseded
  <2> QED
    BY <2>3, <2>4
<1> QED
  BY <1>2, <1>3, <1>4, <1>5

\* The three handlings of a signal.
LEMMA SignalIInv == IInv /\ Signal => IInv'
<1> SUFFICES ASSUME IInv, NEW t \in Tasks, NEW s \in Setups,
                    \/ \E batch \in SUBSET Setups : Evaluate(t, s, batch)
                    \/ HandleNext(t, s)
                    \/ Refuse(t, s)
             PROVE IInv'
  BY DEF Signal
<1>1. TypeOK
  BY DEF IInv
<1>2. ASSUME NEW batch \in SUBSET Setups, Evaluate(t, s, batch) PROVE IInv'
  <2>1. queue' \in [Tasks -> SUBSET Setups]
    BY <1>1, <1>2 DEF TypeOK, Evaluate
  <2> QED
    BY <1>2, <2>1, SubmitIInv DEF Evaluate
<1>3. CASE HandleNext(t, s)
  <2>1. queue' \in [Tasks -> SUBSET Setups]
    BY <1>1, <1>3 DEF TypeOK, HandleNext
  <2> QED
    BY <1>3, <2>1, SubmitIInv DEF HandleNext
<1>4. CASE Refuse(t, s)
  <2>1. TypeOK'
    BY <1>1, <1>4 DEF TypeOK, Refuse, work, local, tws, link
  <2> QED
    BY <1>4, <2>1, UnchangedIInv DEF Refuse
<1> QED
  BY <1>2, <1>3, <1>4

\* What a trade object shows is a status a row can hold.
LEMMA SeenStatusType == ASSUME NEW leg PROVE SeenStatus(leg) \subseteq RowStatus \ {"none"}
<1>1. LocalStatus(leg) \in {"FILLED", "REJECTED", "CANCELLED", "SUBMITTED"}
  BY DEF LocalStatus
<1> QED
  BY <1>1 DEF SeenStatus, RowStatus

\* A coroutine of the pipeline wakes up.
LEMMA ResumeIInv == ASSUME NEW i \in Brackets, IInv, Resume(i) PROVE IInv'
<1> USE DEF IInv, work, local, tws, link
<1>1. CASE ParentNotSent(i)
  <2>1. TypeOK'
    BY <1>1 DEF ParentNotSent, TypeOK, Phases, Waiting, Ended, RowStatus, LegStatus,
       SetupStatus, REVIEW, PLACED
  <2>2. ASSUME NEW k \in Brackets PROVE Begun(k)' /\ BeforeReply(k)' /\ OnTheBooks(k)'
    BY <1>1 DEF ParentNotSent, TypeOK, Begun, BeforeReply, OnTheBooks
  <2>3. ASSUME NEW k \in Brackets, NEW j \in Brackets PROVE Superseded(k, j)'
    BY <1>1 DEF ParentNotSent, TypeOK, Superseded, Waiting
  <2> QED
    BY <2>1, <2>2, <2>3
<1>2. CASE PlaceParent(i)
  <2>1. TypeOK'
    BY <1>2 DEF PlaceParent, TypeOK, Phases, Waiting, Ended, RowStatus, LegStatus,
       SetupStatus, REVIEW, PLACED
  <2>2. ASSUME NEW k \in Brackets PROVE Begun(k)' /\ BeforeReply(k)' /\ OnTheBooks(k)'
    BY <1>2 DEF PlaceParent, TypeOK, Begun, BeforeReply, OnTheBooks
  <2>3. ASSUME NEW k \in Brackets, NEW j \in Brackets PROVE Superseded(k, j)'
    BY <1>2 DEF PlaceParent, TypeOK, Superseded, Waiting
  <2> QED
    BY <2>1, <2>2, <2>3
<1>3. CASE ParentRefused(i)
  <2>1. TypeOK'
    <3>1. PICK seen \in SeenStatus(parent[i]) \cap {"REJECTED", "CANCELLED"} :
             row' = [row EXCEPT ![i] = seen]
      BY <1>3 DEF ParentRefused
    <3>2. seen \in RowStatus
      BY <3>1, SeenStatusType
    <3>3. row' \in [Brackets -> RowStatus]
      BY <3>1, <3>2 DEF TypeOK
    <3> QED
      BY <1>3, <3>3 DEF ParentRefused, TypeOK, Phases, Waiting, Ended, SetupStatus, REVIEW, PLACED
  <2>2. ASSUME NEW k \in Brackets PROVE Begun(k)' /\ BeforeReply(k)' /\ OnTheBooks(k)'
    <3>1. PICK seen \in SeenStatus(parent[i]) \cap {"REJECTED", "CANCELLED"} :
             row' = [row EXCEPT ![i] = seen]
      BY <1>3 DEF ParentRefused
    <3> QED
      BY <1>3, <3>1 DEF ParentRefused, TypeOK, Begun, BeforeReply, OnTheBooks
  <2>3. ASSUME NEW k \in Brackets, NEW j \in Brackets PROVE Superseded(k, j)'
    BY <1>3 DEF ParentRefused, TypeOK, Superseded, Waiting
  <2> QED
    BY <2>1, <2>2, <2>3
<1>4. CASE ParentAccepted(i)
  <2>1. TypeOK'
    BY <1>4 DEF ParentAccepted, TypeOK, Phases, Waiting, Ended, RowStatus, LegStatus,
       SetupStatus, REVIEW, PLACED
  <2>2. ASSUME NEW k \in Brackets PROVE Begun(k)' /\ BeforeReply(k)' /\ OnTheBooks(k)'
    BY <1>4 DEF ParentAccepted, TypeOK, Begun, BeforeReply, OnTheBooks
  <2>3. ASSUME NEW k \in Brackets, NEW j \in Brackets PROVE Superseded(k, j)'
    BY <1>4 DEF ParentAccepted, TypeOK, Superseded, Waiting
  <2> QED
    BY <2>1, <2>2, <2>3
<1>5. CASE ParentAcceptedLinkLost(i)
  <2>1. TypeOK'
    BY <1>5 DEF ParentAcceptedLinkLost, TypeOK, Phases, Waiting, Ended, RowStatus, LegStatus,
       SetupStatus, REVIEW, PLACED
  <2>2. ASSUME NEW k \in Brackets PROVE Begun(k)' /\ BeforeReply(k)' /\ OnTheBooks(k)'
    BY <1>5 DEF ParentAcceptedLinkLost, TypeOK, Begun, BeforeReply, OnTheBooks
  <2>3. ASSUME NEW k \in Brackets, NEW j \in Brackets PROVE Superseded(k, j)'
    BY <1>5 DEF ParentAcceptedLinkLost, TypeOK, Superseded, Waiting
  <2> QED
    BY <2>1, <2>2, <2>3
<1>6. CASE StopNotSent(i)
  <2>1. TypeOK'
    BY <1>6 DEF StopNotSent, CancelParentForFailedProtection, AfterCancel, TypeOK, Phases, Waiting, Ended, RowStatus, LegStatus,
       SetupStatus, REVIEW, PLACED
  <2>2. ASSUME NEW k \in Brackets PROVE Begun(k)' /\ BeforeReply(k)' /\ OnTheBooks(k)'
    BY <1>6 DEF StopNotSent, CancelParentForFailedProtection, AfterCancel, TypeOK, Begun, BeforeReply, OnTheBooks
  <2>3. ASSUME NEW k \in Brackets, NEW j \in Brackets PROVE Superseded(k, j)'
    BY <1>6 DEF StopNotSent, CancelParentForFailedProtection, AfterCancel, TypeOK, Superseded, Waiting
  <2> QED
    BY <2>1, <2>2, <2>3
<1>7. CASE PlaceStop(i)
  <2>1. TypeOK'
    BY <1>7 DEF PlaceStop, TypeOK, Phases, Waiting, Ended, RowStatus, LegStatus,
       SetupStatus, REVIEW, PLACED
  <2>2. ASSUME NEW k \in Brackets PROVE Begun(k)' /\ BeforeReply(k)' /\ OnTheBooks(k)'
    BY <1>7 DEF PlaceStop, TypeOK, Begun, BeforeReply, OnTheBooks
  <2>3. ASSUME NEW k \in Brackets, NEW j \in Brackets PROVE Superseded(k, j)'
    BY <1>7 DEF PlaceStop, TypeOK, Superseded, Waiting
  <2> QED
    BY <2>1, <2>2, <2>3
<1>8. CASE StopRejected(i)
  <2>1. TypeOK'
    BY <1>8 DEF StopRejected, CancelParentForFailedProtection, AfterCancel, TypeOK, Phases, Waiting, Ended, RowStatus, LegStatus,
       SetupStatus, REVIEW, PLACED
  <2>2. ASSUME NEW k \in Brackets PROVE Begun(k)' /\ BeforeReply(k)' /\ OnTheBooks(k)'
    BY <1>8 DEF StopRejected, CancelParentForFailedProtection, AfterCancel, TypeOK, Begun, BeforeReply, OnTheBooks
  <2>3. ASSUME NEW k \in Brackets, NEW j \in Brackets PROVE Superseded(k, j)'
    BY <1>8 DEF StopRejected, CancelParentForFailedProtection, AfterCancel, TypeOK, Superseded, Waiting
  <2> QED
    BY <2>1, <2>2, <2>3
<1>9. CASE StopAnswered(i)
  <2>1. TypeOK'
    <3>1. PICK seen \in SeenStatus(child[i]) \ {"REJECTED"} :
             stopRow' = [stopRow EXCEPT ![i] = seen]
      BY <1>9 DEF StopAnswered
    <3>2. seen \in RowStatus
      BY <3>1, SeenStatusType
    <3>3. stopRow' \in [Brackets -> RowStatus]
      BY <3>1, <3>2 DEF TypeOK
    <3> QED
      BY <1>9, <3>3 DEF StopAnswered, TypeOK, Phases, Waiting, Ended, SetupStatus, REVIEW, PLACED
  <2>2. ASSUME NEW k \in Brackets PROVE Begun(k)' /\ BeforeReply(k)' /\ OnTheBooks(k)'
    BY <1>9 DEF StopAnswered, TypeOK, Begun, BeforeReply, OnTheBooks
  <2>3. ASSUME NEW k \in Brackets, NEW j \in Brackets PROVE Superseded(k, j)'
    BY <1>9 DEF StopAnswered, TypeOK, Superseded, Waiting
  <2> QED
    BY <2>1, <2>2, <2>3
<1> QED
  BY <1>1, <1>2, <1>3, <1>4, <1>5, <1>6, <1>7, <1>8, <1>9 DEF Resume

\* TWS or its user acts on an order.
LEMMA BrokerIInv == ASSUME NEW i \in Brackets, IInv, Broker(i) PROVE IInv'
<1> USE DEF IInv, work, local, tws, link
<1>1. CASE TwsFillsEntry(i)
  <2>1. TypeOK'
    BY <1>1 DEF TwsFillsEntry, TypeOK, Phases, Waiting, Ended, RowStatus, LegStatus,
       SetupStatus, REVIEW, PLACED
  <2>2. ASSUME NEW k \in Brackets PROVE Begun(k)' /\ BeforeReply(k)' /\ OnTheBooks(k)'
    BY <1>1 DEF TwsFillsEntry, TypeOK, Begun, BeforeReply, OnTheBooks
  <2>3. ASSUME NEW k \in Brackets, NEW j \in Brackets PROVE Superseded(k, j)'
    BY <1>1 DEF TwsFillsEntry, TypeOK, Superseded, Waiting
  <2> QED
    BY <2>1, <2>2, <2>3
<1>2. CASE TwsCancelsEntry(i)
  <2>1. TypeOK'
    BY <1>2 DEF TwsCancelsEntry, TypeOK, Phases, Waiting, Ended, RowStatus, LegStatus,
       SetupStatus, REVIEW, PLACED
  <2>2. ASSUME NEW k \in Brackets PROVE Begun(k)' /\ BeforeReply(k)' /\ OnTheBooks(k)'
    BY <1>2 DEF TwsCancelsEntry, TypeOK, Begun, BeforeReply, OnTheBooks
  <2>3. ASSUME NEW k \in Brackets, NEW j \in Brackets PROVE Superseded(k, j)'
    BY <1>2 DEF TwsCancelsEntry, TypeOK, Superseded, Waiting
  <2> QED
    BY <2>1, <2>2, <2>3
<1>3. CASE TwsRejectsEntry(i)
  <2>1. TypeOK'
    BY <1>3 DEF TwsRejectsEntry, TypeOK, Phases, Waiting, Ended, RowStatus, LegStatus,
       SetupStatus, REVIEW, PLACED
  <2>2. ASSUME NEW k \in Brackets PROVE Begun(k)' /\ BeforeReply(k)' /\ OnTheBooks(k)'
    BY <1>3 DEF TwsRejectsEntry, TypeOK, Begun, BeforeReply, OnTheBooks
  <2>3. ASSUME NEW k \in Brackets, NEW j \in Brackets PROVE Superseded(k, j)'
    BY <1>3 DEF TwsRejectsEntry, TypeOK, Superseded, Waiting
  <2> QED
    BY <2>1, <2>2, <2>3
<1>4. CASE TwsDropsStop(i)
  <2>1. TypeOK'
    BY <1>4 DEF TwsDropsStop, TypeOK, Phases, Waiting, Ended, RowStatus, LegStatus,
       SetupStatus, REVIEW, PLACED
  <2>2. ASSUME NEW k \in Brackets PROVE Begun(k)' /\ BeforeReply(k)' /\ OnTheBooks(k)'
    BY <1>4 DEF TwsDropsStop, TypeOK, Begun, BeforeReply, OnTheBooks
  <2>3. ASSUME NEW k \in Brackets, NEW j \in Brackets PROVE Superseded(k, j)'
    BY <1>4 DEF TwsDropsStop, TypeOK, Superseded, Waiting
  <2> QED
    BY <2>1, <2>2, <2>3
<1>5. CASE TwsTriggersStop(i)
  <2>1. TypeOK'
    BY <1>5 DEF TwsTriggersStop, TypeOK, Phases, Waiting, Ended, RowStatus, LegStatus,
       SetupStatus, REVIEW, PLACED
  <2>2. ASSUME NEW k \in Brackets PROVE Begun(k)' /\ BeforeReply(k)' /\ OnTheBooks(k)'
    BY <1>5 DEF TwsTriggersStop, TypeOK, Begun, BeforeReply, OnTheBooks
  <2>3. ASSUME NEW k \in Brackets, NEW j \in Brackets PROVE Superseded(k, j)'
    BY <1>5 DEF TwsTriggersStop, TypeOK, Superseded, Waiting
  <2> QED
    BY <2>1, <2>2, <2>3
<1> QED
  BY <1>1, <1>2, <1>3, <1>4, <1>5 DEF Broker

\* The poll timeout ends brackets and touches no row and no order.
LEMMA TimeoutIInv == IInv /\ PollTimeout => IInv'
<1> SUFFICES ASSUME IInv, PollTimeout PROVE IInv'
  OBVIOUS
<1> USE DEF IInv, PollTimeout, work, local, tws, link
<1>1. TypeOK'
  BY PollersAssumption DEF TypeOK, Phases, Ended
<1>2. ASSUME NEW k \in Brackets PROVE Begun(k)' /\ BeforeReply(k)' /\ OnTheBooks(k)'
  BY DEF TypeOK, Begun, BeforeReply, OnTheBooks, Waiting
<1>3. ASSUME NEW k \in Brackets, NEW j \in Brackets PROVE Superseded(k, j)'
  BY DEF TypeOK, Superseded, Waiting
<1> QED
  BY <1>1, <1>2, <1>3

\* IInv is inductive.
LEMMA NextIInv == IInv /\ [Next]_vars => IInv'
<1> SUFFICES ASSUME IInv, [Next]_vars PROVE IInv'
  OBVIOUS
<1>1. CASE Signal
  BY <1>1, SignalIInv
<1>2. ASSUME NEW i \in Brackets, Resume(i) PROVE IInv'
  BY <1>2, ResumeIInv
<1>3. CASE PollTimeout
  BY <1>3, TimeoutIInv
<1>4. ASSUME NEW i \in Brackets, Broker(i) PROVE IInv'
  BY <1>4, BrokerIInv
<1>5. CASE Disconnect
  <2>1. TypeOK'
    <3>1. drops' \in 0..MaxDrops
      BY <1>5, BoundsAssumption DEF IInv, TypeOK, Disconnect
    <3>2. connected' \in BOOLEAN
      BY <1>5 DEF Disconnect
    <3>3. session' = session /\ queue' = queue /\ phase' = phase
      BY <1>5 DEF Disconnect
    <3>4. UNCHANGED <<work, local, tws>>
      BY <1>5 DEF Disconnect
    <3> QED
      BY <3>1, <3>2, <3>3, <3>4 DEF IInv, TypeOK, work, local, tws
  <2> QED
    BY <1>5, <2>1, UnchangedIInv DEF Disconnect
<1>6. CASE Reconnect
  <2>1. TypeOK'
    BY <1>6 DEF IInv, TypeOK, Reconnect, work, local, tws
  <2> QED
    BY <1>6, <2>1, UnchangedIInv DEF Reconnect
<1>7. CASE UNCHANGED vars
  <2>1. TypeOK'
    BY <1>7 DEF IInv, TypeOK, vars
  <2> QED
    BY <1>7, <2>1, UnchangedIInv DEF vars, work, local, tws
<1> QED
  BY <1>1, <1>2, <1>3, <1>4, <1>5, <1>6, <1>7 DEF Next

\* The inductive invariant holds in every reachable state.
LEMMA SpecIInv == Spec => []IInv
  BY InitIInv, NextIInv, PTL DEF Spec

-----------------------------------------------------------------------------
(* The theorems.                                                           *)

\* Every variable keeps its type, for every instance.
THEOREM TypeCorrect == Spec => []TypeOK
<1>1. IInv => TypeOK
  BY DEF IInv
<1> QED
  BY <1>1, SpecIInv, PTL

\* No entry that can fill is at TWS without its stop having been placed.
THEOREM TransmittedWithStop == Spec => []ParentTransmittedOnlyWithStop
<1>1. IInv => ParentTransmittedOnlyWithStop
  BY DEF IInv, BeforeReply, ParentTransmittedOnlyWithStop
<1> QED
  BY <1>1, SpecIInv, PTL

\* An entry working at TWS always has its active row, however the coroutine
\* that placed it ended.
THEOREM OnTheBooksAlways == Spec => []WorkingEntryIsOnTheBooks
<1>1. IInv => WorkingEntryIsOnTheBooks
  BY DEF IInv, OnTheBooks, WorkingEntryIsOnTheBooks
<1> QED
  BY <1>1, SpecIInv, PTL

\* A single task never has two entries of a setup working, for any number of
\* brackets, tasks, setups and lost connections.
THEOREM NoDuplicateOfOneTask == Spec => []OneTaskNeverDuplicates
<1>1. IInv => OneTaskNeverDuplicates
  <2> SUFFICES ASSUME IInv, NEW i \in Brackets, NEW j \in Brackets, i # j,
                      of[i] = of[j], owner[i] = owner[j],
                      parent[i] = "working", parent[j] = "working"
               PROVE FALSE
    BY DEF OneTaskNeverDuplicates
  <2>1. i <= count /\ j <= count
    BY BoundsAssumption DEF IInv, Begun, BeforeReply, TypeOK, Brackets
  <2>2. i < j \/ j < i
    BY BoundsAssumption DEF Brackets
  <2> QED
    BY <2>1, <2>2 DEF IInv, Superseded
<1> QED
  BY <1>1, SpecIInv, PTL

\* An entry at TWS without a row was cut off or still waits for its reply.
THEOREM UnsavedWasCutOff == Spec => []UnsavedEntryWasCutOff
<1>1. IInv => UnsavedEntryWasCutOff
  BY DEF IInv, BeforeReply, UnsavedEntryWasCutOff
<1> QED
  BY <1>1, SpecIInv, PTL

\* Only the coroutine of a bracket ends it by itself, and it flags the setup
\* unless the reply of the stop is one that place_entry_order overlooks.
LEMMA EndOfBracket ==
    ASSUME IInv, Next, NEW i \in Brackets, LeftUnprotected(i)
    PROVE  stopRow'[i] = "CANCELLED"
<1> USE DEF work, local, tws, link
<1>1. /\ phase \in [Brackets -> Phases] /\ stopRow \in [Brackets -> RowStatus]
      /\ status \in [Setups -> SetupStatus]
      /\ phase[i] \in Waiting /\ phase'[i] \in {"placed", "failed", "raised"}
      /\ parent'[i] \in {"working", "filled"}
      /\ stopRow'[i] \notin {"SUBMITTED", "FILLED"} /\ status'[of[i]] # REVIEW
  BY DEF IInv, TypeOK, LeftUnprotected
<1>2. of[i] \in Setups
  <2>1. i \in Nat /\ count \in Nat
    BY BoundsAssumption DEF IInv, TypeOK, Brackets
  <2>2. ~ (i > count)
    BY <1>1 DEF IInv, Begun, Waiting
  <2> QED BY <2>1, <2>2 DEF IInv, Begun
<1>3. Resume(i)
  <2>1. ASSUME NEW j \in Brackets, Resume(j) PROVE j = i
    BY <1>1, <2>1 DEF Resume, ParentNotSent, PlaceParent, ParentRefused, ParentAccepted,
       ParentAcceptedLinkLost, StopNotSent, PlaceStop, StopRejected, StopAnswered,
       CancelParentForFailedProtection, Waiting
  <2>2. ~ Signal
    <3>1. ASSUME NEW t \in Tasks, NEW s \in Setups, Submit(t, s) PROVE FALSE
      <4>1. phase'[i] = phase[i] \/ phase'[i] = "qualifyParent"
        BY <1>1, <3>1 DEF Submit
      <4> QED BY <1>1, <4>1 DEF Waiting
    <3>2. ASSUME NEW t \in Tasks, NEW s \in Setups, Refuse(t, s) PROVE FALSE
      BY <1>1, <3>2 DEF Refuse, Waiting
    <3> QED BY <3>1, <3>2 DEF Signal, Evaluate, HandleNext
  <2>3. ~ PollTimeout
    BY <1>1 DEF PollTimeout, Waiting
  <2>4. ~ (Disconnect \/ Reconnect)
    BY <1>1 DEF Disconnect, Reconnect, Waiting
  <2>5. ASSUME NEW j \in Brackets, Broker(j) PROVE FALSE
    BY <1>1, <2>5 DEF Broker, TwsFillsEntry, TwsCancelsEntry, TwsRejectsEntry,
       TwsDropsStop, TwsTriggersStop, Waiting
  <2> QED BY <2>1, <2>2, <2>3, <2>4, <2>5 DEF Next
<1>4. ~ (ParentNotSent(i) \/ ParentRefused(i) \/ StopNotSent(i) \/ StopRejected(i))
  BY <1>1, <1>2 DEF ParentNotSent, ParentRefused, StopNotSent, StopRejected,
     CancelParentForFailedProtection
<1>5. ~ (PlaceParent(i) \/ ParentAccepted(i) \/ PlaceStop(i))
  BY <1>1 DEF PlaceParent, ParentAccepted, PlaceStop
<1>6. ~ ParentAcceptedLinkLost(i)
  BY <1>1 DEF ParentAcceptedLinkLost, IInv, BeforeReply
<1>7. StopAnswered(i)
  BY <1>3, <1>4, <1>5, <1>6 DEF Resume
<1>8. PICK seen \in SeenStatus(child[i]) \ {"REJECTED"} :
         stopRow' = [stopRow EXCEPT ![i] = seen]
  BY <1>7 DEF StopAnswered
<1>9. seen \in {"FILLED", "CANCELLED", "SUBMITTED"}
  <2>1. LocalStatus(child[i]) \in {"FILLED", "REJECTED", "CANCELLED", "SUBMITTED"}
    BY DEF LocalStatus
  <2> QED BY <1>8, <2>1 DEF SeenStatus
<1> QED
  BY <1>1, <1>8, <1>9

\* Of all the ways a bracket can end by itself, with its entry live or filled,
\* only a stop that TWS reports CANCELLED leaves neither an active stop row nor
\* a flagged setup.
THEOREM OnlyCancelledSlips == Spec => OnlyACancelledStopSlipsThrough
<1>1. IInv /\ [Next]_vars =>
        [\A i \in Brackets : LeftUnprotected(i) => stopRow'[i] = "CANCELLED"]_vars
  BY EndOfBracket
<1> QED
  BY <1>1, SpecIInv, PTL DEF Spec, OnlyACancelledStopSlipsThrough

-----------------------------------------------------------------------------
(* The pipeline implements ProtectedEntry: each step changes one bracket   *)
(* at most, and what it does to that bracket's row and legs is one of the  *)
(* abstract steps or a stutter.                                            *)

\* A step leaves the rows and legs of the other brackets alone.
Only(i) ==
    \A j \in Brackets \ {i} :
       row'[j] = row[j] /\ parent'[j] = parent[j] /\ child'[j] = child[j]

Booked(i) == row[i] = "SUBMITTED"

Over == {"cancelling", "filled", "cancelled", "rejected"}

\* A step that neither moves a leg nor books a row is a stutter.
LEMMA StutterKeepsPromise ==
    ASSUME UNCHANGED <<parent, child>>,
           \A j \in Brackets : Booked(j)' <=> Booked(j)
    PROVE  UNCHANGED Promise!pvars
  BY DEF Promise!pvars, Booked

\* What the promise sees of the entries, when only bracket i may change.
LEMMA EntriesMove ==
    ASSUME NEW i \in Brackets, Only(i)
    PROVE  /\ [j \in Brackets |-> Exposure(parent[j], child[j])]'
                 = [[j \in Brackets |-> Exposure(parent[j], child[j])]
                       EXCEPT ![i] = Exposure(parent'[i], child'[i])]
           /\ {j \in Brackets : parent[j] = "cancelling"}'
                 = IF parent'[i] = "cancelling"
                      THEN {j \in Brackets : parent[j] = "cancelling"} \cup {i}
                      ELSE {j \in Brackets : parent[j] = "cancelling"} \ {i}
           /\ {j \in Brackets : row[j] = "SUBMITTED"}'
                 = IF row'[i] = "SUBMITTED"
                      THEN {j \in Brackets : row[j] = "SUBMITTED"} \cup {i}
                      ELSE {j \in Brackets : row[j] = "SUBMITTED"} \ {i}
           /\ {j \in Brackets : child[j] = "working"}'
                 = IF child'[i] = "working"
                      THEN {j \in Brackets : child[j] = "working"} \cup {i}
                      ELSE {j \in Brackets : child[j] = "working"} \ {i}
<1>1. ASSUME NEW j \in Brackets, j # i
      PROVE Exposure(parent'[j], child'[j]) = Exposure(parent[j], child[j])
  BY <1>1 DEF Only
<1> QED
  BY <1>1 DEF Only

\* A parent that is placed and held is a request.
LEMMA HoldIsRequest ==
    ASSUME NEW i \in Brackets, TypeOK, Only(i), parent[i] = "none",
           parent'[i] = "held", row'[i] = row[i], child'[i] = child[i]
    PROVE  Promise!Request(i)
<1>1. Exposure(parent[i], child[i]) = "none" /\ Exposure(parent'[i], child'[i]) = "pending"
  BY DEF Exposure
<1> QED
  BY <1>1, EntriesMove DEF Promise!Request

\* Saving the row of a parent that TWS has, and was not asked to cancel, is a
\* booking.
LEMMA SaveIsBook ==
    ASSUME NEW i \in Brackets, TypeOK, Only(i),
           parent[i] \notin {"none", "cancelling"},
           parent'[i] = parent[i], child'[i] = child[i], row'[i] = "SUBMITTED"
    PROVE  Promise!Book(i)
<1>1. Exposure(parent[i], child[i]) # "none"
  BY DEF Exposure
<1> QED
  BY <1>1, EntriesMove DEF Promise!Book

\* Transmitting the stop of a held and saved parent lets the entry go live.
LEMMA TransmitIsGoLive ==
    ASSUME NEW i \in Brackets, TypeOK, Only(i), parent[i] = "held",
           row[i] = "SUBMITTED", row'[i] = row[i],
           parent'[i] = "working", child'[i] = "working"
    PROVE  Promise!GoLive(i)
<1>1. /\ Exposure(parent[i], child[i]) = "pending"
      /\ Exposure(parent'[i], child'[i]) = "live"
  BY DEF Exposure
<1> QED
  BY <1>1, EntriesMove DEF Promise!GoLive

\* Sending the cancel of a parent that is held or works is a revocation,
\* whatever becomes of its row: it can do afterwards what it could before.
LEMMA CancelIsRevoke ==
    ASSUME NEW i \in Brackets, TypeOK, Only(i), parent[i] \in {"held", "working"},
           parent[i] = "held" <=> child[i] = "none",
           parent'[i] = "cancelling", child'[i] = child[i], Booked(i)' => Booked(i)
    PROVE  Promise!Revoke(i)
<1>1. /\ Exposure(parent[i], child[i]) \in {"pending", "live"}
      /\ Exposure(parent'[i], child'[i]) = Exposure(parent[i], child[i])
  BY DEF Exposure
<1>2. {j \in Brackets : row[j] = "SUBMITTED"}'
         \in {{j \in Brackets : row[j] = "SUBMITTED"},
              {j \in Brackets : row[j] = "SUBMITTED"} \ {i}}
  BY DEF Only, Booked
<1>3. i \notin {j \in Brackets : parent[j] = "cancelling"}
  OBVIOUS
<1>4. UNCHANGED [j \in Brackets |-> Exposure(parent[j], child[j])]
  BY <1>1 DEF Only
<1>5. UNCHANGED {j \in Brackets : child[j] = "working"}
  BY DEF Only
<1>6. {j \in Brackets : parent[j] = "cancelling"}'
         = {j \in Brackets : parent[j] = "cancelling"} \cup {i}
  BY DEF Only
<1> QED
  BY <1>1, <1>2, <1>3, <1>4, <1>5, <1>6 DEF Promise!Revoke

\* A parent that TWS fills, cancels or refuses is closed, and stays on the
\* books if it was there.
LEMMA EndIsClose ==
    ASSUME NEW i \in Brackets, TypeOK, Only(i),
           parent[i] \in {"held", "working", "cancelling"},
           parent'[i] \in {"filled", "cancelled", "rejected"}, row'[i] = row[i],
           child'[i] = "working" => child[i] = "working"
    PROVE  Promise!Close(i)
<1>1. /\ Exposure(parent[i], child[i]) \in {"pending", "live"}
      /\ Exposure(parent'[i], child'[i]) = "over"
  BY DEF Exposure
<1> QED
  BY <1>1, EntriesMove DEF Promise!Close

\* Closing the row of a parent that is over takes it off the books.
LEMMA CloseIsUnbook ==
    ASSUME NEW i \in Brackets, TypeOK, Only(i),
           parent[i] \in {"filled", "cancelled", "rejected"},
           parent'[i] = parent[i], child'[i] = child[i], row'[i] # "SUBMITTED"
    PROVE  Promise!Unbook(i)
<1>1. Exposure(parent[i], child[i]) = "over"
  BY DEF Exposure
<1> QED
  BY <1>1, EntriesMove DEF Promise!Unbook

\* A stop that fills or is dropped leaves the guarded brackets.
LEMMA DropIsLoseStop ==
    ASSUME NEW i \in Brackets, TypeOK, Only(i), child[i] = "working",
           child'[i] \notin {"working", "none"}, parent'[i] = parent[i], row'[i] = row[i]
    PROVE  Promise!LoseStop(i)
<1>1. Exposure(parent'[i], child'[i]) = Exposure(parent[i], child[i])
  BY DEF Exposure
<1> QED
  BY <1>1, EntriesMove DEF Promise!LoseStop

-----------------------------------------------------------------------------
\* A failed protection revokes the entry, takes one that is over off the books,
\* or changes nothing the promise sees.
LEMMA FailedProtectionKeepsPromise ==
    ASSUME NEW i \in Brackets, IInv, CancelParentForFailedProtection(i),
           phase[i] \in {"qualifyStop", "sentStop"}, UNCHANGED child
    PROVE  Promise!Next \/ UNCHANGED Promise!pvars
<1>1. TypeOK /\ parent[i] \notin {"none", "cancelling"}
  BY DEF IInv, BeforeReply
<1>2. CASE connected /\ i \in session
  <2>1. Only(i) /\ row'[i] = "CANCELLED" /\ parent'[i] = AfterCancel(parent[i])
    BY <1>1, <1>2 DEF CancelParentForFailedProtection, TypeOK, Only
  <2>2. CASE parent[i] \in {"held", "working"}
    <3>1. parent[i] = "held" <=> child[i] = "none"
      BY <2>2 DEF IInv, BeforeReply
    <3> QED
      BY <1>1, <2>1, <2>2, <3>1, CancelIsRevoke DEF Promise!Next, AfterCancel, Booked
  <2>3. CASE parent[i] \notin {"held", "working"}
    BY <1>1, <2>1, <2>3, CloseIsUnbook DEF Promise!Next, AfterCancel, TypeOK, LegStatus
  <2> QED
    BY <2>2, <2>3
<1>3. CASE ~ (connected /\ i \in session)
  BY <1>3, StutterKeepsPromise DEF CancelParentForFailedProtection, Booked
<1> QED
  BY <1>2, <1>3

\* A coroutine that wakes up keeps the promise.
LEMMA ResumeKeepsPromise ==
    ASSUME NEW i \in Brackets, IInv, Resume(i)
    PROVE  Promise!Next \/ UNCHANGED Promise!pvars
<1>1. TypeOK /\ BeforeReply(i)
  BY DEF IInv
<1>2. CASE ParentNotSent(i) \/ ParentRefused(i)
  <2>1. UNCHANGED <<parent, child>>
    BY <1>2 DEF ParentNotSent, ParentRefused, tws
  <2>2. row[i] = "none"
    BY <1>1, <1>2 DEF ParentNotSent, ParentRefused, BeforeReply
  <2>3. \A j \in Brackets : Booked(j)' <=> Booked(j)
    BY <1>1, <1>2, <2>2 DEF ParentNotSent, ParentRefused, TypeOK, Booked
  <2> QED
    BY <2>1, <2>3, StutterKeepsPromise
<1>3. CASE PlaceParent(i)
  <2>1. Only(i) /\ parent[i] = "none" /\ parent'[i] = "held"
    BY <1>1, <1>3 DEF PlaceParent, BeforeReply, TypeOK, Only, local
  <2> QED
    BY <1>1, <1>3, <2>1, HoldIsRequest DEF PlaceParent, local, Promise!Next
<1>4. CASE ParentAccepted(i) \/ ParentAcceptedLinkLost(i)
  <2>1. Only(i) /\ parent[i] \notin {"none", "cancelling"} /\ row'[i] = "SUBMITTED"
    BY <1>1, <1>4 DEF ParentAccepted, ParentAcceptedLinkLost, BeforeReply, TypeOK,
       Only, tws
  <2> QED
    BY <1>1, <1>4, <2>1, SaveIsBook
       DEF ParentAccepted, ParentAcceptedLinkLost, tws, Promise!Next
<1>5. CASE StopNotSent(i) \/ StopRejected(i)
  <2>1. phase[i] \in {"qualifyStop", "sentStop"} /\ UNCHANGED child
    BY <1>5 DEF StopNotSent, StopRejected
  <2>2. CancelParentForFailedProtection(i)
    BY <1>5 DEF StopNotSent, StopRejected
  <2> QED
    BY <2>1, <2>2, FailedProtectionKeepsPromise
<1>6. CASE PlaceStop(i)
  <2>1. CASE parent[i] = "held"
    <3>1. Only(i) /\ row[i] = "SUBMITTED" /\ row'[i] = row[i]
      BY <1>1, <1>6, <2>1 DEF PlaceStop, BeforeReply, TypeOK, Only, local
    <3>2. parent'[i] = "working" /\ child'[i] = "working"
      BY <1>1, <1>6, <2>1 DEF PlaceStop, TypeOK
    <3> QED
      BY <1>1, <2>1, <3>1, <3>2, TransmitIsGoLive DEF Promise!Next
  <2>2. CASE parent[i] # "held"
    <3>1. child[i] = "none" /\ child' = [child EXCEPT ![i] = "rejected"]
      BY <1>1, <1>6, <2>2 DEF PlaceStop, BeforeReply
    <3>2. UNCHANGED <<row, parent>>
      BY <1>6, <2>2 DEF PlaceStop, local
    <3>3. parent[i] # "cancelling"
      BY <1>1, <1>6 DEF PlaceStop, BeforeReply
    <3>4. Only(i) /\ child'[i] = "rejected"
      BY <1>1, <3>1, <3>2 DEF Only, TypeOK
    <3>5. \A j \in Brackets :
             Exposure(parent'[j], child'[j]) = Exposure(parent[j], child[j])
      BY <3>2, <3>3, <3>4 DEF Only, Exposure
    <3>6. \A j \in Brackets : child'[j] = "working" <=> child[j] = "working"
      BY <3>1, <3>4 DEF Only
    <3> QED
      BY <3>2, <3>5, <3>6 DEF Promise!pvars
  <2> QED
    BY <2>1, <2>2
<1>7. CASE StopAnswered(i)
  BY <1>7, StutterKeepsPromise DEF StopAnswered, tws, Booked
<1> QED
  BY <1>2, <1>3, <1>4, <1>5, <1>6, <1>7 DEF Resume

\* TWS and its user keep the promise.
LEMMA BrokerKeepsPromise ==
    ASSUME NEW i \in Brackets, IInv, Broker(i)
    PROVE  Promise!Next
<1>1. TypeOK
  BY DEF IInv
<1>2. CASE TwsFillsEntry(i) \/ TwsCancelsEntry(i) \/ TwsRejectsEntry(i)
  <2>1. Only(i) /\ parent[i] \in {"held", "working", "cancelling"}
    BY <1>1, <1>2 DEF TwsFillsEntry, TwsCancelsEntry, TwsRejectsEntry, TypeOK, Only,
       local
  <2>2. /\ parent'[i] \in {"filled", "cancelled", "rejected"}
        /\ row'[i] = row[i] /\ (child'[i] = "working" => child[i] = "working")
    BY <1>1, <1>2 DEF TwsFillsEntry, TwsCancelsEntry, TwsRejectsEntry, TypeOK, local
  <2> QED
    BY <1>1, <2>1, <2>2, EndIsClose DEF Promise!Next
<1>3. CASE TwsDropsStop(i) \/ TwsTriggersStop(i)
  <2>1. Only(i) /\ child[i] = "working" /\ child'[i] \notin {"working", "none"}
    BY <1>1, <1>3 DEF TwsDropsStop, TwsTriggersStop, TypeOK, Only, local
  <2>2. parent'[i] = parent[i] /\ row'[i] = row[i]
    BY <1>3 DEF TwsDropsStop, TwsTriggersStop, local
  <2> QED
    BY <1>1, <2>1, <2>2, DropIsLoseStop DEF Promise!Next
<1> QED
  BY <1>2, <1>3 DEF Broker

\* Every step is a step of ProtectedEntry or a stutter.
LEMMA StepKeepsPromise ==
    IInv /\ [Next]_vars => [Promise!Next]_(Promise!pvars)
<1> SUFFICES ASSUME IInv, [Next]_vars
             PROVE Promise!Next \/ UNCHANGED Promise!pvars
  OBVIOUS
<1>1. CASE Signal
  <2>1. UNCHANGED <<row, parent, child>>
    BY <1>1 DEF Signal, Evaluate, HandleNext, Refuse, local, tws
  <2> QED
    BY <2>1, StutterKeepsPromise DEF Booked
<1>2. ASSUME NEW i \in Brackets, Resume(i)
      PROVE Promise!Next \/ UNCHANGED Promise!pvars
  BY <1>2, ResumeKeepsPromise
<1>3. ASSUME NEW i \in Brackets, Broker(i) PROVE Promise!Next
  BY <1>3, BrokerKeepsPromise
<1>4. CASE PollTimeout \/ Disconnect \/ Reconnect \/ UNCHANGED vars
  <2>1. UNCHANGED <<row, parent, child>>
    BY <1>4 DEF PollTimeout, Disconnect, Reconnect, vars, local, tws
  <2> QED
    BY <2>1, StutterKeepsPromise DEF Booked
<1> QED
  BY <1>1, <1>2, <1>3, <1>4 DEF Next

\* The initial state is an initial state of ProtectedEntry.
LEMMA InitKeepsPromise == Init => Promise!Init
  BY DEF Init, Promise!Init, Exposure

\* The entry pipeline implements its abstract specification: an entry goes
\* live only on the books and together with its stop, and while it can fill it
\* leaves the books only when TWS was asked to cancel it.
THEOREM ImplementsPromise == Spec => KeepsItsPromise
<1>1. Spec => Promise!Init
  BY InitKeepsPromise DEF Spec
<1>2. Spec => [][Promise!Next]_(Promise!pvars)
  BY SpecIInv, StepKeepsPromise, PTL DEF Spec
<1> QED
  BY <1>1, <1>2 DEF KeepsItsPromise, Promise!Spec

-----------------------------------------------------------------------------
(* The books beside the reconciliation and the API cancel, for as long as  *)
(* the first session lasts: it lists every order that was sent, so a run    *)
(* that finds an entry missing from what it read earlier still finds its   *)
(* status in trades(), and a stored reading "CANCELLED" stays true.        *)

\* What the session, the row and the coroutine of a bracket know of its entry.
InStep(i) ==
    /\ i > count => phase[i] = "idle"
    /\ phase[i] \in {"idle", "qualifyParent"} => parent[i] = "none" /\ row[i] = "none"
    /\ phase[i] \in {"qualifyStop", "sentStop"} => row[i] # "none"
    /\ row[i] = "none" => parent[i] # "working"
    /\ parent[i] \in {"held", "working"} => row[i] \in {"none", "SUBMITTED"}
    /\ parent[i] # "none" => i \in session

\* What a run read and has not applied yet.
Readings == {"none", "SUBMITTED", "CANCELLED"}
ReadingHolds(r, i) == run[r].entries[i] = "CANCELLED" => parent[i] \in Over

FirstSession ==
    /\ count \in Nat
    /\ phase \in [Brackets -> Phases]
    /\ row \in [Brackets -> RowStatus]
    /\ parent \in [Brackets -> LegStatus]
    /\ run \in [Runs -> [at : {"idle", "positions", "orders", "account"}, held : BOOLEAN,
                         entries : [Brackets -> Readings], stops : [Brackets -> Readings]]]
    /\ connected /\ lookups = {}
    /\ \A i \in Brackets : InStep(i) /\ \A r \in Runs : ReadingHolds(r, i)

BooksInv == drops \in Nat /\ (drops = 0 => FirstSession)

\* A bracket that a step leaves alone.
Same(i) == phase'[i] = phase[i] /\ row'[i] = row[i] /\ parent'[i] = parent[i]

\* An entry that is over stays over, and a step that touches one bracket need
\* only keep that one in step.
LEMMA PipelineStaysInStep ==
    ASSUME FirstSession, UNCHANGED <<run, lookups, connected>>,
           count' \in Nat, count' >= count, session \subseteq session',
           phase' \in [Brackets -> Phases], row' \in [Brackets -> RowStatus],
           parent' \in [Brackets -> LegStatus],
           \A i \in Brackets : \/ Same(i) /\ (i > count' => i > count)
                               \/ InStep(i)' /\ (parent[i] \in Over => parent'[i] \in Over)
    PROVE  FirstSession'
<1>1. ASSUME NEW i \in Brackets
      PROVE  InStep(i)' /\ (parent[i] \in Over => parent'[i] \in Over)
  <2>1. InStep(i)
    BY DEF FirstSession
  <2>2. CASE Same(i) /\ (i > count' => i > count)
    BY <2>1, <2>2 DEF Same, InStep
  <2> QED BY <2>2
<1>2. ASSUME NEW i \in Brackets, NEW r \in Runs PROVE ReadingHolds(r, i)'
  BY <1>1 DEF FirstSession, ReadingHolds
<1> QED
  BY <1>1, <1>2 DEF FirstSession

\* A bracket begins: it is the next one, and has sent nothing.
LEMMA SubmitStaysInStep ==
    ASSUME FirstSession, NEW t \in Tasks, NEW s \in Setups, Submit(t, s),
           UNCHANGED <<local, tws, link>>, UNCHANGED <<run, lookups>>
    PROVE  FirstSession'
<1> USE DEF Submit, local, tws, link
<1>1. count \in Nat /\ count + 1 \in Nat /\ MaxOrders \in Nat
  BY BoundsAssumption DEF FirstSession
<1>2. count + 1 \in Brackets
  BY <1>1 DEF Brackets
<1>3. phase' \in [Brackets -> Phases]
  BY DEF FirstSession, Phases, Waiting
<1>4. ASSUME NEW i \in Brackets
      PROVE  \/ Same(i) /\ (i > count' => i > count)
             \/ InStep(i)' /\ (parent[i] \in Over => parent'[i] \in Over)
  <2>1. InStep(i) /\ i \in Nat
    BY <1>1 DEF FirstSession, Brackets
  <2>2. CASE i = count + 1
    <3>1. parent'[i] = "none" /\ row'[i] = "none" /\ phase'[i] = "qualifyParent"
          /\ parent[i] = "none"
      BY <1>1, <1>2, <2>1, <2>2 DEF InStep, FirstSession
    <3> QED BY <1>1, <2>2, <3>1 DEF InStep, Over
  <2>3. CASE i # count + 1
    BY <1>1, <2>1, <2>3 DEF Same, FirstSession
  <2> QED BY <2>2, <2>3
<1> QED
  BY <1>1, <1>3, <1>4, PipelineStaysInStep DEF FirstSession

\* The coroutine of a bracket wakes up.
LEMMA ResumeStaysInStep ==
    ASSUME FirstSession, NEW i \in Brackets, Resume(i), UNCHANGED <<run, lookups>>
    PROVE  FirstSession'
<1> USE DEF work, local, tws, link
<1>1. /\ count \in Nat /\ InStep(i) /\ i \in Nat
      /\ phase \in [Brackets -> Phases] /\ row \in [Brackets -> RowStatus]
      /\ parent \in [Brackets -> LegStatus] /\ connected
  BY BoundsAssumption DEF FirstSession, Brackets
<1>2. UNCHANGED <<count, connected>> /\ session \subseteq session'
  BY DEF Resume, ParentNotSent, PlaceParent, ParentRefused, ParentAccepted,
     ParentAcceptedLinkLost, StopNotSent, PlaceStop, StopRejected, StopAnswered
<1> SUFFICES /\ phase' \in [Brackets -> Phases] /\ row' \in [Brackets -> RowStatus]
             /\ parent' \in [Brackets -> LegStatus]
             /\ \A j \in Brackets : j = i \/ Same(j)
             /\ InStep(i)' /\ (parent[i] \in Over => parent'[i] \in Over)
  BY <1>1, <1>2, PipelineStaysInStep
<1>3. CASE ParentNotSent(i)
  BY <1>1, <1>2, <1>3 DEF ParentNotSent, Same, InStep, Phases, Ended, RowStatus
<1>4. CASE PlaceParent(i)
  BY <1>1, <1>2, <1>4 DEF PlaceParent, Same, InStep, Phases, Waiting, LegStatus, Over
<1>5. CASE ParentRefused(i)
  <2>1. PICK seen \in SeenStatus(parent[i]) \cap {"REJECTED", "CANCELLED"} :
           row' = [row EXCEPT ![i] = seen]
    BY <1>5 DEF ParentRefused
  <2>2. LocalStatus(parent[i]) = seen
    BY <1>1, <2>1 DEF SeenStatus
  <2>3. parent[i] \notin {"held", "working"}
    BY <2>1, <2>2 DEF LocalStatus
  <2>4. seen \in RowStatus
    BY <2>1 DEF RowStatus
  <2> QED
    BY <1>1, <1>2, <1>5, <2>1, <2>3, <2>4 DEF ParentRefused, Same, InStep, Phases, Ended
<1>6. CASE ParentAccepted(i)
  BY <1>1, <1>2, <1>6 DEF ParentAccepted, Same, InStep, Phases, Waiting, RowStatus
<1>7. CASE ParentAcceptedLinkLost(i)
  BY <1>1, <1>7 DEF ParentAcceptedLinkLost
<1>8. CASE StopNotSent(i) \/ StopRejected(i)
  BY <1>1, <1>2, <1>8 DEF StopNotSent, StopRejected, CancelParentForFailedProtection,
     AfterCancel, Same, InStep, Phases, Ended, RowStatus, LegStatus, Over
<1>9. CASE PlaceStop(i)
  BY <1>1, <1>2, <1>9 DEF PlaceStop, Same, InStep, Phases, Waiting, LegStatus, Over
<1>10. CASE StopAnswered(i)
  BY <1>1, <1>2, <1>10 DEF StopAnswered, Same, InStep, Phases, Ended
<1> QED
  BY <1>3, <1>4, <1>5, <1>6, <1>7, <1>8, <1>9, <1>10 DEF Resume

\* TWS changes an order it has, and never makes it work again.
LEMMA BrokerStaysInStep ==
    ASSUME FirstSession, NEW i \in Brackets, Broker(i), UNCHANGED <<run, lookups>>
    PROVE  FirstSession'
<1> USE DEF work, local, tws, link
<1>1. /\ count \in Nat /\ InStep(i)
      /\ phase \in [Brackets -> Phases] /\ row \in [Brackets -> RowStatus]
      /\ parent \in [Brackets -> LegStatus]
  BY DEF FirstSession
<1>2. UNCHANGED <<count, connected, session, phase, row>>
  BY DEF Broker, TwsFillsEntry, TwsCancelsEntry, TwsRejectsEntry, TwsDropsStop,
     TwsTriggersStop
<1>3. \/ UNCHANGED parent
      \/ \E leg \in {"filled", "cancelled", "rejected"} :
            parent[i] # "none" /\ parent' = [parent EXCEPT ![i] = leg]
  BY DEF Broker, TwsFillsEntry, TwsCancelsEntry, TwsRejectsEntry, TwsDropsStop,
     TwsTriggersStop
<1>4. /\ parent' \in [Brackets -> LegStatus]
      /\ \A j \in Brackets : j = i \/ Same(j)
      /\ InStep(i)' /\ (parent[i] \in Over => parent'[i] \in Over)
  BY <1>1, <1>2, <1>3 DEF Same, InStep, LegStatus, Over
<1> QED
  BY <1>1, <1>2, <1>4, PipelineStaysInStep

\* The poll timeout ends brackets where they wait.
LEMMA TimeoutStaysInStep ==
    ASSUME FirstSession, PollTimeout, UNCHANGED <<run, lookups>>
    PROVE  FirstSession'
<1>1. UNCHANGED <<count, row, parent, connected, session>>
  BY DEF PollTimeout, work, local, tws, link
<1>2. phase' = [i \in Brackets |->
                   IF phase[i] \in Waiting /\ owner[i] \in Pollers
                      THEN "aborted" ELSE phase[i]]
  BY DEF PollTimeout
<1>3. \A i \in Brackets :
         phase'[i] = phase[i] \/ (phase'[i] = "aborted" /\ phase[i] \in Waiting)
  BY <1>2
<1>4. phase' \in [Brackets -> Phases]
  <2>1. \A i \in Brackets : phase'[i] \in Phases
    BY <1>3 DEF FirstSession, Phases, Ended
  <2> QED BY <1>2, <2>1
<1>5. ASSUME NEW i \in Brackets PROVE InStep(i)'
  <2>1. InStep(i)
    BY DEF FirstSession
  <2>2. CASE phase'[i] = phase[i]
    BY <1>1, <2>1, <2>2 DEF InStep
  <2>3. CASE phase'[i] = "aborted" /\ phase[i] \in Waiting
    BY <1>1, <2>1, <2>3 DEF InStep, Waiting
  <2> QED BY <1>3, <2>2, <2>3
<1>6. count' \in Nat /\ count' >= count /\ session \subseteq session'
  BY <1>1 DEF FirstSession
<1>7. row' \in [Brackets -> RowStatus] /\ parent' \in [Brackets -> LegStatus]
  BY <1>1 DEF FirstSession
<1> QED
  BY <1>1, <1>4, <1>5, <1>6, <1>7, PipelineStaysInStep

\* Whatever the pipeline, TWS or the poll timeout does while the session lasts.
LEMMA NextStaysInStep ==
    ASSUME FirstSession, Next, UNCHANGED <<run, lookups>>, drops \in Nat, drops' = 0
    PROVE  FirstSession'
<1>1. ASSUME NEW t \in Tasks, NEW s \in Setups,
             \/ \E batch \in SUBSET Setups : Evaluate(t, s, batch)
             \/ HandleNext(t, s)
      PROVE  FirstSession'
  BY <1>1, SubmitStaysInStep DEF Evaluate, HandleNext
<1>2. ASSUME NEW t \in Tasks, NEW s \in Setups, Refuse(t, s) PROVE FirstSession'
  <2>1. UNCHANGED <<count, phase, row, parent, connected, session>>
    BY <1>2 DEF Refuse, work, local, tws, link
  <2> QED BY <2>1, PipelineStaysInStep DEF FirstSession, Same
<1>3. CASE \E i \in Brackets : Resume(i) \/ Broker(i)
  BY <1>3, ResumeStaysInStep, BrokerStaysInStep
<1>4. CASE PollTimeout
  BY <1>4, TimeoutStaysInStep
<1>5. CASE Disconnect \/ Reconnect
  BY <1>5 DEF Disconnect, Reconnect, FirstSession
<1> QED
  BY <1>1, <1>2, <1>3, <1>4, <1>5 DEF Next, Signal

-----------------------------------------------------------------------------
\* The run rewrites the rows: one of an entry that works, or is held, stays on
\* the books, whatever the run read and whatever it infers.
LEMMA ApplyStaysInStep ==
    ASSUME FirstSession, NEW held, NEW entries \in [Brackets -> Readings], NEW stops,
           Apply(held, entries, stops), session \subseteq session',
           \A i \in Brackets : entries[i] = "CANCELLED" => parent[i] \in Over,
           UNCHANGED <<work, phase, tws, connected>>
    PROVE  row' \in [Brackets -> RowStatus] /\ \A i \in Brackets : InStep(i)'
<1> USE DEF work, tws
<1>1. /\ row \in [Brackets -> RowStatus] /\ parent \in [Brackets -> LegStatus]
      /\ connected /\ connected' = connected /\ \A i \in Brackets : InStep(i)
  BY DEF FirstSession
<1>2. row' = [i \in Brackets |->
                 Reconciled(row[i], entries[i], KnownStatus(i, session', parent[i]),
                            IF held THEN "FILLED" ELSE "CANCELLED")]
  BY DEF Apply
<1>3. ASSUME NEW i \in Brackets
      PROVE  /\ row'[i] \in RowStatus
             /\ row'[i] = "none" <=> row[i] = "none"
             /\ parent[i] \in {"held", "working"} => row'[i] = row[i]
  <2> DEFINE missing == IF held THEN "FILLED" ELSE "CANCELLED"
             known == KnownStatus(i, session', parent[i])
  <2>1. row'[i] = Reconciled(row[i], entries[i], known, missing)
    BY <1>2
  <2>2. missing \in {"FILLED", "CANCELLED"}
    OBVIOUS
  <2>3. LocalStatus(parent[i]) \in {"FILLED", "REJECTED", "CANCELLED", "SUBMITTED"}
    BY DEF LocalStatus
  <2>4. known \in {"none", "FILLED", "REJECTED", "CANCELLED", "SUBMITTED"}
    BY <2>3 DEF KnownStatus
  <2>5. parent[i] \in {"held", "working"} => known = "SUBMITTED"
    BY <1>1 DEF KnownStatus, LocalStatus, InStep
  <2>6. entries[i] \in Readings /\ row[i] \in RowStatus
    BY <1>1
  <2>7. parent[i] \in {"held", "working"} =>
           row[i] \in {"none", "SUBMITTED"} /\ entries[i] # "CANCELLED"
    BY <1>1 DEF InStep, Over
  <2> HIDE DEF missing, known
  <2> QED
    BY <2>1, <2>2, <2>4, <2>5, <2>6, <2>7 DEF Reconciled, Readings, RowStatus
<1>4. row' \in [Brackets -> RowStatus]
  BY <1>2, <1>3
<1>5. ASSUME NEW i \in Brackets PROVE InStep(i)'
  BY <1>1, <1>3 DEF InStep
<1> QED
  BY <1>4, <1>5

\* What open_orders lists of the entries is a reading that stays true.
LEMMA OpenEntriesHold ==
    ASSUME parent \in [Brackets -> LegStatus], NEW known
    PROVE  /\ OpenEntries(known) \in [Brackets -> Readings]
           /\ \A i \in Brackets : OpenEntries(known)[i] = "CANCELLED" => parent[i] \in Over
<1>1. \A i \in Brackets :
         /\ OpenEntries(known)[i] \in Readings
         /\ OpenEntries(known)[i] = "CANCELLED" => parent[i] \in Over
  BY DEF OpenEntries, LocalStatus, LegStatus, Readings, Over
<1> QED
  BY <1>1 DEF OpenEntries

LEMMA OpenStopsHold ==
    ASSUME NEW known PROVE OpenStops(known) \in [Brackets -> Readings]
<1>1. \A i \in Brackets : OpenStops(known)[i] \in Readings
  BY DEF OpenStops, Readings
<1> QED
  BY <1>1 DEF OpenStops

LEMMA NothingHolds ==
    /\ Nothing \in [Brackets -> Readings]
    /\ \A i \in Brackets : Nothing[i] # "CANCELLED"
  BY DEF Nothing, Readings

\* A step of a run.
LEMMA RunStaysInStep ==
    ASSUME FirstSession, NEW r \in Runs, RunStep(r)
    PROVE  FirstSession'
<1> USE DEF work, tws, local, link
<1> DEFINE Run == [at : {"idle", "positions", "orders", "account"}, held : BOOLEAN,
                   entries : [Brackets -> Readings], stops : [Brackets -> Readings]]
<1>1. /\ run \in [Runs -> Run] /\ connected /\ lookups = {}
      /\ count \in Nat /\ phase \in [Brackets -> Phases]
      /\ row \in [Brackets -> RowStatus] /\ parent \in [Brackets -> LegStatus]
      /\ \A i \in Brackets : InStep(i) /\ \A q \in Runs : ReadingHolds(q, i)
  BY DEF FirstSession
<1>2. Resting \in Run /\ \A i \in Brackets : Resting.entries[i] # "CANCELLED"
  BY NothingHolds DEF Resting
<1>3. UNCHANGED <<count, phase, parent, connected, lookups>>
  BY DEF RunStep, RunStarts, PositionsRead, OrdersRead, AccountRead, vars, Refresh
\* The step moves run r alone, to step w.
<1>4. ASSUME NEW w \in Run, run' = [run EXCEPT ![r] = w],
             \A i \in Brackets : w.entries[i] = "CANCELLED" => parent[i] \in Over,
             row' \in [Brackets -> RowStatus], \A i \in Brackets : InStep(i)'
      PROVE  FirstSession'
  <2>1. run' \in [Runs -> Run]
    BY <1>1, <1>4
  <2>2. ASSUME NEW i \in Brackets, NEW q \in Runs PROVE ReadingHolds(q, i)'
    BY <1>1, <1>3, <1>4 DEF ReadingHolds
  <2> QED
    BY <1>1, <1>3, <1>4, <2>1, <2>2 DEF FirstSession
<1>5. CASE RunStarts(r)
  <2>1. run' = [run EXCEPT ![r] = [run[r] EXCEPT !.at = "positions"]]
    BY <1>1, <1>5 DEF RunStarts
  <2>2. [run[r] EXCEPT !.at = "positions"] \in Run
    BY <1>1
  <2>3. \A i \in Brackets :
           [run[r] EXCEPT !.at = "positions"].entries[i] = "CANCELLED" => parent[i] \in Over
    BY <1>1 DEF ReadingHolds
  <2>4. row' = row /\ \A i \in Brackets : InStep(i)'
    BY <1>1, <1>5 DEF RunStarts, vars, InStep
  <2> QED BY <1>1, <1>4, <2>1, <2>2, <2>3, <2>4
<1>6. CASE PositionsRead(r)
  <2>1. PICK held \in {PositionOpen} :
           run' = [run EXCEPT ![r].at = "orders", ![r].held = held]
    BY <1>1, <1>6 DEF PositionsRead
  <2>2. held \in BOOLEAN
    BY <2>1 DEF PositionOpen
  <2> DEFINE w == [run[r] EXCEPT !.at = "orders", !.held = held]
  <2>3. run' = [run EXCEPT ![r] = w]
    BY <1>1, <2>1
  <2>4. w \in Run /\ w.entries = run[r].entries
    BY <1>1, <2>2
  <2>5. row' = row /\ \A i \in Brackets : InStep(i)'
    BY <1>1, <1>6 DEF PositionsRead, InStep
  <2> HIDE DEF w
  <2>6. \A i \in Brackets : w.entries[i] = "CANCELLED" => parent[i] \in Over
    BY <1>1, <2>4 DEF ReadingHolds
  <2>7. row' \in [Brackets -> RowStatus]
    BY <1>1, <2>5
  <2> QED BY <1>4, <2>3, <2>4, <2>5, <2>6, <2>7
<1>7. CASE \E answered \in BOOLEAN : OrdersRead(r, answered)
  <2>1. PICK answered \in BOOLEAN : OrdersRead(r, answered)
    BY <1>7
  <2>2. session \subseteq session'
    BY <2>1 DEF OrdersRead, Refresh
  <2>3. PICK entries \in {OpenEntries(session'), Nothing},
             stops \in {OpenStops(stopSession'), Nothing} :
           /\ Listed(entries, stops)
           /\ \/ /\ Apply(run[r].held, entries, stops)
                 /\ run' = [run EXCEPT ![r] = Resting]
              \/ /\ connected
                 /\ run' = [run EXCEPT ![r] = [at |-> "account", held |-> run[r].held,
                                               entries |-> entries, stops |-> stops]]
                 /\ UNCHANGED local
    BY <2>1 DEF OrdersRead
  <2>4. /\ entries \in [Brackets -> Readings] /\ stops \in [Brackets -> Readings]
        /\ \A i \in Brackets : entries[i] = "CANCELLED" => parent[i] \in Over
    BY <1>1, <2>3, OpenEntriesHold, OpenStopsHold, NothingHolds
  <2>5. CASE Apply(run[r].held, entries, stops) /\ run' = [run EXCEPT ![r] = Resting]
    <3>1. row' \in [Brackets -> RowStatus] /\ \A i \in Brackets : InStep(i)'
      BY <1>3, <2>1, <2>2, <2>4, <2>5, ApplyStaysInStep DEF OrdersRead
    <3> QED BY <1>2, <1>4, <2>5, <3>1
  <2>6. CASE /\ run' = [run EXCEPT ![r] = [at |-> "account", held |-> run[r].held,
                                           entries |-> entries, stops |-> stops]]
             /\ UNCHANGED local
    <3> DEFINE w == [at |-> "account", held |-> run[r].held,
                     entries |-> entries, stops |-> stops]
    <3>1. w \in Run /\ w.entries = entries
      BY <1>1, <2>4
    <3>2. row' = row /\ \A i \in Brackets : InStep(i)'
      BY <1>1, <1>3, <2>2, <2>6 DEF InStep
    <3>3. run' = [run EXCEPT ![r] = w]
      BY <2>6
    <3> HIDE DEF w
    <3> QED BY <1>1, <1>4, <2>4, <3>1, <3>2, <3>3
  <2> QED BY <2>3, <2>5, <2>6
<1>8. CASE AccountRead(r)
  <2>1. /\ Apply(run[r].held, run[r].entries, run[r].stops)
        /\ run' = [run EXCEPT ![r] = Resting] /\ session' = session
        /\ UNCHANGED <<work, phase, tws, connected>>
    BY <1>8 DEF AccountRead
  <2>2. run[r].entries \in [Brackets -> Readings]
        /\ \A i \in Brackets : run[r].entries[i] = "CANCELLED" => parent[i] \in Over
    BY <1>1 DEF ReadingHolds
  <2>3. row' \in [Brackets -> RowStatus] /\ \A i \in Brackets : InStep(i)'
    BY <2>1, <2>2, ApplyStaysInStep
  <2> QED BY <1>2, <1>4, <2>1, <2>3
<1> QED
  BY <1>5, <1>6, <1>7, <1>8 DEF RunStep

\* An entry whose cancel the API sends is over before its row says so; the
\* session knows every order, so none is looked up.
LEMMA CancelStaysInStep ==
    ASSUME FirstSession, NEW i \in Brackets, CancelStep(i)
    PROVE  FirstSession'
<1> USE DEF work, tws, local, link, books
<1>1. /\ lookups = {} /\ InStep(i) /\ count \in Nat
      /\ phase \in [Brackets -> Phases] /\ row \in [Brackets -> RowStatus]
      /\ parent \in [Brackets -> LegStatus]
  BY DEF FirstSession
<1>2. UserCancels(i)
  BY <1>1 DEF CancelStep, UserCancelsUnknown, LookupDone, InStep
<1>3. UNCHANGED <<count, phase, session, connected, run, lookups>>
  BY <1>2 DEF UserCancels
<1>4. /\ parent' = [parent EXCEPT ![i] = AfterCancel(@)]
      /\ row' = [row EXCEPT ![i] = "CANCELLED"] /\ row[i] # "none" /\ parent[i] # "none"
  BY <1>2 DEF UserCancels
<1>5. AfterCancel(parent[i]) \in Over /\ AfterCancel(parent[i]) \in LegStatus
  BY <1>1, <1>4 DEF AfterCancel, LegStatus, Over
<1>6. /\ parent' \in [Brackets -> LegStatus] /\ row' \in [Brackets -> RowStatus]
      /\ \A j \in Brackets : j = i \/ Same(j)
  BY <1>1, <1>3, <1>4, <1>5 DEF Same, RowStatus
<1>7. InStep(i)' /\ parent'[i] \in Over
  BY <1>1, <1>3, <1>4, <1>5 DEF InStep, Over
<1> QED
  BY <1>1, <1>3, <1>6, <1>7, PipelineStaysInStep

\* Connections are lost one by one.
LEMMA StepDrops ==
    ASSUME drops \in Nat, [RNext]_rvars PROVE drops' \in Nat /\ (drops' = 0 => drops = 0)
<1>1. UNCHANGED drops \/ drops' = drops + 1
  BY DEF RNext, EntryStep, Beside, Next, Signal, Evaluate, HandleNext, Refuse, Resume,
     ParentNotSent, PlaceParent, ParentRefused, ParentAccepted, ParentAcceptedLinkLost,
     StopNotSent, PlaceStop, StopRejected, StopAnswered, PollTimeout, Broker,
     TwsFillsEntry, TwsCancelsEntry, TwsRejectsEntry, TwsDropsStop, TwsTriggersStop,
     Disconnect, Reconnect, RunStep, RunStarts, PositionsRead, OrdersRead, AccountRead,
     CancelStep, UserCancels, UserCancelsUnknown, LookupDone, vars, rvars, link
<1> QED
  BY <1>1

LEMMA InitBooks == RInit => BooksInv
<1> SUFFICES ASSUME RInit PROVE FirstSession /\ drops \in Nat
  BY DEF BooksInv
<1>1. ASSUME NEW i \in Brackets PROVE InStep(i) /\ \A r \in Runs : ReadingHolds(r, i)
  BY DEF RInit, Init, InStep, ReadingHolds, Resting, Nothing
<1>2. run \in [Runs -> [at : {"idle", "positions", "orders", "account"}, held : BOOLEAN,
                        entries : [Brackets -> Readings], stops : [Brackets -> Readings]]]
  BY NothingHolds DEF RInit, Resting
<1>3. /\ phase \in [Brackets -> Phases] /\ row \in [Brackets -> RowStatus]
      /\ parent \in [Brackets -> LegStatus]
  BY DEF RInit, Init, Phases, RowStatus, LegStatus
<1> QED
  BY <1>1, <1>2, <1>3 DEF RInit, Init, FirstSession

LEMMA StepBooks == BooksInv /\ [RNext]_rvars => BooksInv'
<1> SUFFICES ASSUME BooksInv, [RNext]_rvars, drops' = 0 PROVE FirstSession'
  BY StepDrops DEF BooksInv
<1>1. FirstSession /\ drops \in Nat
  BY StepDrops DEF BooksInv
<1>2. CASE EntryStep
  BY <1>1, <1>2, NextStaysInStep DEF EntryStep, Beside
<1>3. CASE \E r \in Runs : RunStep(r)
  BY <1>1, <1>3, RunStaysInStep
<1>4. CASE \E i \in Brackets : CancelStep(i)
  BY <1>1, <1>4, CancelStaysInStep
<1>5. CASE UNCHANGED rvars
  <2>1. UNCHANGED <<count, phase, row, parent, connected, session, run, lookups>>
    BY <1>5 DEF rvars, vars, books
  <2> QED BY <1>1, <2>1, PipelineStaysInStep DEF FirstSession, Same
<1> QED
  BY <1>2, <1>3, <1>4, <1>5 DEF RNext

\* While the connection never drops, no reconciliation run, however old the
\* open orders it applies, and no cancel of the API takes a working entry off
\* the books, for any number of runs, tasks, setups and brackets.
THEOREM ReconciliationKeepsTheBooks == RSpec => []BooksHoldWhileConnected
<1>1. BooksInv => BooksHoldWhileConnected
  BY DEF BooksInv, FirstSession, InStep, BooksHoldWhileConnected, WorkingEntryIsOnTheBooks
<1> QED
  BY <1>1, InitBooks, StepBooks, PTL DEF RSpec

-----------------------------------------------------------------------------
(* The promise beside the reconciliation: what a bracket may become does   *)
(* not depend on who else writes its rows.                                 *)

\* The columns of the brackets are functions on them.
Columns ==
    /\ DOMAIN phase = Brackets /\ DOMAIN owner = Brackets /\ DOMAIN of = Brackets
    /\ DOMAIN parent = Brackets /\ DOMAIN child = Brackets

\* A bracket in a step that begins none: its coroutine does not start to wait,
\* its entry comes to work by its coroutine alone, and together with its stop.
Quiet(i) ==
    /\ phase'[i] \in Waiting => phase[i] \in Waiting
    /\ parent'[i] = "working" => parent[i] = "working" \/ phase[i] \in Waiting
    /\ child'[i] = "none" =>
          /\ child[i] = "none"
          /\ parent'[i] \in {"working", "filled"} => parent[i] \in {"working", "filled"}

QuietStep == Columns' /\ UNCHANGED work /\ \A i \in Brackets : Quiet(i)

\* Nothing the steps read of changes for a bracket a step leaves alone.
LEMMA UntouchedIsQuiet ==
    ASSUME Columns, UNCHANGED <<work, phase, tws>>
    PROVE  QuietStep
BY DEF QuietStep, Quiet, Columns, work, tws

LEMMA ResumeIsQuiet ==
    ASSUME Columns, NEW i \in Brackets, Resume(i)
    PROVE  QuietStep
<1> USE DEF QuietStep, Quiet, Columns, work, tws, Waiting
<1>1. CASE ParentNotSent(i) \/ ParentRefused(i) \/ ParentAccepted(i) \/ ParentAcceptedLinkLost(i)
           \/ StopAnswered(i)
  BY <1>1 DEF ParentNotSent, ParentRefused, ParentAccepted, ParentAcceptedLinkLost, StopAnswered
<1>2. CASE PlaceParent(i)
  BY <1>2 DEF PlaceParent
<1>3. CASE StopNotSent(i) \/ StopRejected(i)
  BY <1>3 DEF StopNotSent, StopRejected, CancelParentForFailedProtection, AfterCancel
<1>4. CASE PlaceStop(i)
  BY <1>4 DEF PlaceStop
<1> QED
  BY <1>1, <1>2, <1>3, <1>4 DEF Resume

LEMMA BrokerIsQuiet ==
    ASSUME Columns, ParentTransmittedOnlyWithStop, NEW i \in Brackets, Broker(i)
    PROVE  QuietStep
BY DEF QuietStep, Quiet, Columns, work, ParentTransmittedOnlyWithStop, Broker, TwsFillsEntry,
   TwsCancelsEntry, TwsRejectsEntry, TwsDropsStop, TwsTriggersStop

LEMMA TimeoutIsQuiet ==
    ASSUME Columns, PollTimeout
    PROVE  QuietStep
BY DEF QuietStep, Quiet, Columns, work, tws, PollTimeout, Waiting

\* A step that begins no bracket keeps what was transmitted with a stop, and
\* what was over when a later bracket began.
LEMMA QuietKeeps ==
    ASSUME QuietStep
    PROVE  /\ ParentTransmittedOnlyWithStop => ParentTransmittedOnlyWithStop'
           /\ (\A i, j \in Brackets : Superseded(i, j)) =>
                 (\A i, j \in Brackets : Superseded(i, j))'
<1>1. Brackets' = Brackets
  BY DEF Brackets
<1>2. ASSUME ParentTransmittedOnlyWithStop PROVE ParentTransmittedOnlyWithStop'
  BY <1>1, <1>2 DEF QuietStep, Quiet, ParentTransmittedOnlyWithStop
<1>3. ASSUME \A i, j \in Brackets : Superseded(i, j), NEW i \in Brackets, NEW j \in Brackets
      PROVE  Superseded(i, j)'
  BY <1>3 DEF QuietStep, Quiet, Superseded, work
<1> QED
  BY <1>1, <1>2, <1>3

\* A bracket begins: the task does not wait, and the rows refuse a second entry
\* beside one that works.
LEMMA SubmitSupersedes ==
    ASSUME Columns, count \in Nat, NEW t \in Tasks, NEW s \in Setups, Submit(t, s), ~ Busy(t),
           UNCHANGED tws
    PROVE  /\ Columns'
           /\ ParentTransmittedOnlyWithStop => ParentTransmittedOnlyWithStop'
           /\ (\A i \in Brackets : OnTheBooks(i)) /\ (\A i, j \in Brackets : Superseded(i, j)) =>
                 (\A i, j \in Brackets : Superseded(i, j))'
<1> USE DEF Columns, Submit, tws
<1>1. Columns' /\ count + 1 \in Brackets /\ Brackets' = Brackets
  BY BoundsAssumption DEF Brackets
<1>2. ASSUME ParentTransmittedOnlyWithStop PROVE ParentTransmittedOnlyWithStop'
  BY <1>1, <1>2 DEF ParentTransmittedOnlyWithStop
<1>3. ASSUME \A i \in Brackets : OnTheBooks(i), \A i, j \in Brackets : Superseded(i, j),
             NEW i \in Brackets, NEW j \in Brackets,
             i < j, j <= count', owner'[i] = owner'[j], of'[i] = of'[j]
      PROVE  phase'[i] \notin Waiting /\ parent'[i] # "working"
  <2>1. i # count + 1 /\ i <= count
    BY <1>1, <1>3 DEF Brackets
  <2>2. phase'[i] = phase[i] /\ owner'[i] = owner[i] /\ of'[i] = of[i] /\ parent'[i] = parent[i]
    BY <2>1
  <2>3. CASE j = count + 1
    <3>1. owner[i] = t /\ of[i] = s
      BY <1>1, <1>3, <2>2, <2>3
    <3>2. phase[i] \notin Waiting
      BY <3>1 DEF Busy
    <3>3. parent[i] # "working"
      BY <1>3, <2>1, <3>1 DEF HasActiveEntry, OnTheBooks
    <3> QED
      BY <2>2, <3>2, <3>3
  <2>4. CASE j # count + 1
    <3>1. owner'[j] = owner[j] /\ of'[j] = of[j] /\ j <= count
      BY <1>1, <1>3, <2>4 DEF Brackets
    <3> QED
      BY <1>3, <2>2, <3>1 DEF Superseded
  <2> QED
    BY <2>3, <2>4
<1> QED
  BY <1>1, <1>2, <1>3 DEF Superseded

\* The pipeline, TWS and the connection.
LEMMA NextIsQuiet ==
    ASSUME Columns, ParentTransmittedOnlyWithStop, Next
    PROVE  QuietStep \/ \E t \in Tasks, s \in Setups :
                           Submit(t, s) /\ ~ Busy(t) /\ UNCHANGED tws
<1>1. CASE \E t \in Tasks, s \in Setups, batch \in SUBSET Setups :
              Evaluate(t, s, batch) \/ HandleNext(t, s)
  BY <1>1 DEF Evaluate, HandleNext
<1>2. CASE \E t \in Tasks, s \in Setups : Refuse(t, s)
  BY <1>2, UntouchedIsQuiet DEF Refuse
<1>3. CASE \E i \in Brackets : Resume(i)
  BY <1>3, ResumeIsQuiet
<1>4. CASE \E i \in Brackets : Broker(i)
  BY <1>4, BrokerIsQuiet
<1>5. CASE Disconnect \/ Reconnect
  BY <1>5, UntouchedIsQuiet DEF Disconnect, Reconnect
<1> QED
  BY <1>1, <1>2, <1>3, <1>4, <1>5, TimeoutIsQuiet DEF Next, Signal

\* A run and a cancel: of the legs, a cancel touches the entry alone.
LEMMA BesideIsQuiet ==
    ASSUME Columns, \/ \E r \in Runs : RunStep(r)
                    \/ \E i \in Brackets : CancelStep(i)
                    \/ UNCHANGED rvars
    PROVE  QuietStep
<1>1. CASE \E r \in Runs : RunStep(r)
  <2>1. UNCHANGED <<work, phase, tws>>
    BY <1>1 DEF RunStep, RunStarts, PositionsRead, OrdersRead, AccountRead, vars, work, tws
  <2> QED
    BY <2>1, UntouchedIsQuiet
<1>2. CASE \E i \in Brackets : CancelStep(i)
  <2>1. PICK i \in Brackets : CancelStep(i)
    BY <1>2
  <2>2. CASE UserCancels(i)
    BY <2>2 DEF UserCancels, AfterCancel, QuietStep, Quiet, Columns, work
  <2>3. CASE UserCancelsUnknown(i) \/ \E answered \in BOOLEAN : LookupDone(i, answered)
    BY <2>3, UntouchedIsQuiet DEF UserCancelsUnknown, LookupDone, vars, work, tws
  <2> QED
    BY <2>1, <2>2, <2>3 DEF CancelStep
<1>3. CASE UNCHANGED rvars
  BY <1>3, UntouchedIsQuiet DEF rvars, vars, work, tws
<1> QED
  BY <1>1, <1>2, <1>3

PromiseInv ==
    /\ BooksInv
    /\ count \in Nat
    /\ Columns
    /\ ParentTransmittedOnlyWithStop
    /\ drops = 0 => \A i, j \in Brackets : Superseded(i, j)

LEMMA InitPromise == RInit => PromiseInv
<1> SUFFICES ASSUME RInit PROVE PromiseInv
  OBVIOUS
<1>1. Columns /\ count = 0 /\ ParentTransmittedOnlyWithStop
  BY DEF RInit, Init, Columns, ParentTransmittedOnlyWithStop
<1>2. \A i, j \in Brackets : Superseded(i, j)
  BY <1>1, BoundsAssumption DEF Superseded, Brackets
<1> QED
  BY <1>1, <1>2, InitBooks DEF PromiseInv

LEMMA StepPromise == PromiseInv /\ [RNext]_rvars => PromiseInv'
<1> SUFFICES ASSUME PromiseInv, [RNext]_rvars PROVE PromiseInv'
  OBVIOUS
<1>1. BooksInv' /\ drops' \in Nat /\ (drops' = 0 => drops = 0)
  BY StepBooks, StepDrops DEF PromiseInv, BooksInv
<1>2. drops = 0 => \A i \in Brackets : OnTheBooks(i)
  BY DEF PromiseInv, BooksInv, FirstSession, InStep, OnTheBooks
<1>3. CASE QuietStep
  <2>1. count' = count
    BY <1>3 DEF QuietStep, work
  <2>2. Columns' /\ ParentTransmittedOnlyWithStop'
    BY <1>3, QuietKeeps DEF PromiseInv, QuietStep
  <2>3. drops' = 0 => (\A i, j \in Brackets : Superseded(i, j))'
    BY <1>1, <1>3, QuietKeeps DEF PromiseInv
  <2> QED
    BY <1>1, <2>1, <2>2, <2>3 DEF PromiseInv
<1>4. CASE \E t \in Tasks, s \in Setups : Submit(t, s) /\ ~ Busy(t) /\ UNCHANGED tws
  <2>1. PICK t \in Tasks, s \in Setups : Submit(t, s) /\ ~ Busy(t) /\ UNCHANGED tws
    BY <1>4
  <2>2. count' \in Nat
    BY <2>1 DEF Submit, PromiseInv
  <2>3. Columns' /\ ParentTransmittedOnlyWithStop'
    BY <2>1, SubmitSupersedes DEF PromiseInv
  <2>4. drops' = 0 => (\A i, j \in Brackets : Superseded(i, j))'
    BY <1>1, <1>2, <2>1, SubmitSupersedes DEF PromiseInv
  <2> QED
    BY <1>1, <2>2, <2>3, <2>4 DEF PromiseInv
<1>5. QuietStep \/ \E t \in Tasks, s \in Setups : Submit(t, s) /\ ~ Busy(t) /\ UNCHANGED tws
  BY NextIsQuiet, BesideIsQuiet DEF PromiseInv, RNext, EntryStep, Beside
<1> QED
  BY <1>3, <1>4, <1>5

\* Beside any number of runs and cancels no parent is transmitted before its
\* protective stop: neither a row rewritten from old answers nor a cancel in
\* one of the bracket's waits transmits an entry.
THEOREM ReconciliationTransmitsNothing == RSpec => []ParentTransmittedOnlyWithStop
<1>1. PromiseInv => ParentTransmittedOnlyWithStop
  BY DEF PromiseInv
<1> QED
  BY <1>1, InitPromise, StepPromise, PTL DEF RSpec

\* As long as the connection never drops, one task has no two entries of one
\* setup working at TWS, also beside the runs and cancels that rewrite the rows
\* its duplicate check reads.
THEOREM NoDuplicateBesideRuns == RSpec => [](drops = 0 => OneTaskNeverDuplicates)
<1>1. PromiseInv => (drops = 0 => OneTaskNeverDuplicates)
  <2> SUFFICES ASSUME PromiseInv, drops = 0, NEW i \in Brackets, NEW j \in Brackets,
                      i # j, of[i] = of[j], owner[i] = owner[j],
                      parent[i] = "working", parent[j] = "working"
               PROVE  FALSE
    BY DEF OneTaskNeverDuplicates
  <2>1. i <= count /\ j <= count
    BY DEF PromiseInv, BooksInv, FirstSession, InStep, Brackets
  <2>2. Superseded(i, j) /\ Superseded(j, i)
    BY DEF PromiseInv
  <2> QED
    BY <2>1, <2>2 DEF Superseded, Brackets
<1> QED
  BY <1>1, InitPromise, StepPromise, PTL DEF RSpec

=============================================================================
