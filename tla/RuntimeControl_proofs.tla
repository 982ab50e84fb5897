----------------------- MODULE RuntimeControl_proofs -----------------------
(***************************************************************************)
(* Machine-checked proofs about RuntimeControl, for every set of tasks and *)
(* operators and every bound.  The first speaks of the status, the loop    *)
(* and the requests alone: what the pipeline does meanwhile is of no       *)
(* matter.  The second follows the orders an emergency stop leaves behind;  *)
(* the last ones show that control takes nothing from the promise of the   *)
(* pipeline.                                                               *)
(***************************************************************************)
EXTENDS RuntimeControl, TLAPS

\* The part of the state the arguments below read.
ControlTyped ==
    /\ runtime \in BotStatus
    /\ request \in [Operators -> {"none", "resume", "pause", "switch"}]
    /\ starts \in Nat
    /\ monitor \in [at : {"sleep", "health", "poll", "signals"}, status : BotStatus]

-----------------------------------------------------------------------------
\* A step of the pipeline, the broker or the connection leaves control alone.
LEMMA PipelineLeavesControl ==
    ASSUME \/ \E t \in Tasks : Beside(Follow(t))
           \/ \E i \in Brackets : Beside(Resume(i))
           \/ \E i \in Brackets : Beside(Broker(i))
           \/ Beside(Disconnect)
    PROVE  UNCHANGED control
BY DEF Beside

LEMMA InitControl == CInit => ControlTyped
BY DEF CInit, ControlTyped, BotStatus

\* Requests and the counter of starts keep their types in every step.
LEMMA StepTyped == ControlTyped /\ [CNext]_cvars => ControlTyped'
<1> SUFFICES ASSUME ControlTyped, [CNext]_cvars PROVE ControlTyped'
  OBVIOUS
<1> USE DEF ControlTyped, BotStatus
<1>1. CASE Heartbeat
  BY <1>1 DEF Heartbeat
<1>2. CASE \E up \in BOOLEAN : HeartbeatReads(up)
  BY <1>2 DEF HeartbeatReads, Lowered
<1>3. CASE \E t \in Tasks, s \in Setups, batch \in SUBSET Setups :
              PollAnalyses(t, s, batch)
  BY <1>3 DEF PollAnalyses
<1>4. CASE PollEnds
  BY <1>4 DEF PollEnds
<1>5. CASE PollExpires
  BY <1>5 DEF PollExpires
<1>6. CASE \E t \in Tasks, s \in Setups, batch \in SUBSET Setups :
              SnapshotPosted(t, s, batch)
  BY <1>6 DEF SnapshotPosted, control
<1>7. CASE \E o \in Operators, what \in {"resume", "pause"} : Asked(o, what)
  BY <1>7 DEF Asked
<1>8. CASE (\E o \in Operators : SwitchAsked(o))
           \/ \E o \in Operators, up \in BOOLEAN : Answered(o, up)
  BY <1>8 DEF SwitchAsked, Answered
<1>9. CASE \E up \in BOOLEAN : Synced(up)
  BY <1>9 DEF Synced, Lowered
<1>10. CASE EmergencyStop
  BY <1>10 DEF EmergencyStop
<1>11. CASE \E answered \in BOOLEAN : CancelLookedUp(answered)
  BY <1>11 DEF CancelLookedUp
<1>12. CASE \E up \in BOOLEAN : Restart(up)
  BY <1>12 DEF Restart
<1>13. CASE UNCHANGED control
  BY <1>13 DEF control
<1> QED
  BY <1>1, <1>2, <1>3, <1>4, <1>5, <1>6, <1>7, <1>8, <1>9, <1>10, <1>11, <1>12,
     <1>13, PipelineLeavesControl DEF CNext, MonitorStep, ApiStep, cvars

LEMMA SpecControl == CSpec => []ControlTyped
BY InitControl, StepTyped, PTL DEF CSpec

-----------------------------------------------------------------------------
\* What a step that makes the bot RUNNING, or ends an emergency stop, is.
Lift ==
    \/ runtime # "RUNNING" /\ runtime' = "RUNNING"
    \/ runtime = "EMERGENCY_STOP" /\ runtime' # "EMERGENCY_STOP"

\* Such a step answers a request or starts the program.
LEMMA LiftIsAsked ==
    ControlTyped /\ [CNext]_cvars => (Lift => request' # request \/ starts' # starts)
<1> SUFFICES ASSUME ControlTyped, [CNext]_cvars, Lift
             PROVE request' # request \/ starts' # starts
  OBVIOUS
<1> USE DEF Lift
<1>1. CASE \E o \in Operators, up \in BOOLEAN : Answered(o, up)
  BY <1>1 DEF Answered, ControlTyped
<1>2. CASE \E up \in BOOLEAN : Restart(up)
  BY <1>2 DEF Restart, ControlTyped
<1>3. CASE EmergencyStop
  BY <1>3 DEF EmergencyStop
<1>4. CASE MonitorStep
  BY <1>4 DEF MonitorStep, Heartbeat, HeartbeatReads, Lowered, PollAnalyses,
     PollEnds, PollExpires
<1>5. CASE \/ \E t \in Tasks, s \in Setups, batch \in SUBSET Setups :
                 SnapshotPosted(t, s, batch)
           \/ \E o \in Operators, what \in {"resume", "pause"} : Asked(o, what)
           \/ \E o \in Operators : SwitchAsked(o)
           \/ \E up \in BOOLEAN : Synced(up)
           \/ \E answered \in BOOLEAN : CancelLookedUp(answered)
  BY <1>5 DEF SnapshotPosted, Asked, SwitchAsked, Synced, Lowered, CancelLookedUp, control
<1>6. CASE UNCHANGED control
  BY <1>6 DEF control
<1> QED
  BY <1>1, <1>2, <1>3, <1>4, <1>5, <1>6, PipelineLeavesControl
     DEF CNext, ApiStep, cvars

\* Whatever a heartbeat, a reconnection or force_sync read before their waits,
\* they never make the bot RUNNING and never end an emergency stop.
THEOREM OperatorsLiftAlone == CSpec => OnlyOperatorsLift
<1>1. ControlTyped /\ [CNext]_cvars =>
        [\/ runtime # "RUNNING" /\ runtime' = "RUNNING"
         \/ runtime = "EMERGENCY_STOP" /\ runtime' # "EMERGENCY_STOP"
         => request' # request \/ starts' # starts]_cvars
  BY LiftIsAsked DEF Lift
<1> QED
  BY <1>1, SpecControl, PTL DEF CSpec, OnlyOperatorsLift

-----------------------------------------------------------------------------
(* The emergency stop.                                                     *)

\* While the first session lasts, it lists every order that was sent: a row
\* that is open stands for an order the stop can cancel on the spot.
Listed(i) ==
    /\ i > count => phase[i] = "idle"
    /\ phase[i] \in {"idle", "qualifyParent"} => parent[i] = "none"
    /\ phase[i] = "sentParent" => parent[i] # "none"
    /\ row[i] = "SUBMITTED" => parent[i] # "none"
    /\ parent[i] # "none" => i \in session

\* What a row knows of its entry: it is saved before the stop is placed, and
\* closed only together with the entry.
OnTheBooks(i) ==
    /\ phase[i] \in {"idle", "qualifyParent"} => row[i] = "none"
    /\ phase[i] \in {"qualifyStop", "sentStop"} => row[i] # "none"
    /\ row[i] = "none" => parent[i] # "working"
    /\ parent[i] \in {"held", "working"} => row[i] \in {"none", "SUBMITTED"}

\* What the stop saw is over, or about to be.
Seen(i) ==
    missed # NoStop /\ i \notin missed =>
        parent[i] \in {"cancelling", "filled", "cancelled", "rejected"}

FirstSession ==
    /\ count \in Nat
    /\ phase \in [Brackets -> Phases]
    /\ row \in [Brackets -> RowStatus]
    /\ parent \in [Brackets -> LegStatus]
    /\ connected
    /\ toCancel = {}
    /\ \A i \in Brackets : Listed(i) /\ OnTheBooks(i) /\ Seen(i)

StopInv ==
    /\ drops \in Nat /\ starts \in Nat
    /\ drops = 0 /\ starts = 0 => FirstSession

\* A bracket that a step leaves alone.
Same(i) ==
    /\ phase'[i] = phase[i] /\ row'[i] = row[i] /\ parent'[i] = parent[i]

\* A step of the pipeline, of TWS or of the poll timeout keeps what the first
\* session lists if it keeps it for each bracket it touches.
LEMMA FirstSessionStays ==
    ASSUME FirstSession, UNCHANGED <<toCancel, missed, connected>>,
           count' \in Nat, count' >= count, session \subseteq session',
           phase' \in [Brackets -> Phases], row' \in [Brackets -> RowStatus],
           parent' \in [Brackets -> LegStatus],
           \A i \in Brackets : (Same(i) /\ (i > count' => i > count))
                               \/ (Listed(i)' /\ OnTheBooks(i)' /\ Seen(i)')
    PROVE  FirstSession'
<1>1. ASSUME NEW i \in Brackets PROVE Listed(i)' /\ OnTheBooks(i)' /\ Seen(i)'
  <2>1. Listed(i) /\ OnTheBooks(i) /\ Seen(i)
    BY DEF FirstSession
  <2>2. CASE Same(i) /\ (i > count' => i > count)
    BY <2>1, <2>2 DEF Same, Listed, OnTheBooks, Seen
  <2> QED BY <2>2
<1> QED
  BY <1>1 DEF FirstSession

LEMMA InitStop == CInit => StopInv
<1> SUFFICES ASSUME CInit PROVE StopInv
  OBVIOUS
<1>1. ASSUME NEW i \in Brackets PROVE Listed(i) /\ OnTheBooks(i) /\ Seen(i)
  BY DEF CInit, Init, Listed, OnTheBooks, Seen
<1>2. /\ phase \in [Brackets -> Phases] /\ row \in [Brackets -> RowStatus]
      /\ parent \in [Brackets -> LegStatus]
  BY DEF CInit, Init, Phases, RowStatus, LegStatus
<1> QED
  BY <1>1, <1>2 DEF CInit, Init, StopInv, FirstSession

\* A bracket begins: it is the next one, and has sent nothing.
LEMMA SubmitStaysListed ==
    ASSUME FirstSession, NEW t \in Tasks, NEW s \in Setups, Submit(t, s),
           UNCHANGED <<local, tws, link>>, UNCHANGED <<toCancel, missed>>
    PROVE  FirstSession'
<1> USE DEF Submit, local, tws, link
<1>1. count \in Nat /\ count + 1 \in Nat /\ MaxOrders \in Nat
  BY BoundsAssumption DEF FirstSession
<1>2. count + 1 \in Brackets
  BY <1>1 DEF Brackets
<1>3. phase' \in [Brackets -> Phases]
  BY DEF FirstSession, Phases, Waiting
<1>4. ASSUME NEW i \in Brackets
      PROVE  (Same(i) /\ (i > count' => i > count)) \/ (Listed(i)' /\ OnTheBooks(i)' /\ Seen(i)')
  <2>1. Listed(i) /\ OnTheBooks(i) /\ Seen(i) /\ i \in Nat
    BY <1>1 DEF FirstSession, Brackets
  <2>2. CASE i = count + 1
    <3>1. parent'[i] = "none" /\ phase'[i] = "qualifyParent" /\ row'[i] = row[i]
      BY <1>1, <1>2, <2>1, <2>2 DEF Listed, FirstSession
    <3>2. Listed(i)'
      BY <1>1, <2>1, <2>2, <3>1 DEF Listed
    <3>3. Seen(i)'
      BY <2>1, <2>2, <3>1 DEF Seen
    <3>4. OnTheBooks(i)'
      BY <1>1, <2>1, <2>2, <3>1 DEF Listed, OnTheBooks
    <3> QED BY <3>2, <3>3, <3>4
  <2>3. CASE i # count + 1
    BY <1>1, <2>1, <2>3 DEF Same, FirstSession
  <2> QED BY <2>2, <2>3
<1> QED
  BY <1>1, <1>3, <1>4, FirstSessionStays DEF FirstSession

\* The coroutine of a bracket wakes up.
LEMMA ResumeStaysListed ==
    ASSUME FirstSession, NEW i \in Brackets, Resume(i), UNCHANGED <<toCancel, missed>>
    PROVE  FirstSession'
<1> USE DEF work, local, tws, link
<1>1. /\ count \in Nat /\ Listed(i) /\ OnTheBooks(i) /\ Seen(i) /\ i \in Nat
      /\ phase \in [Brackets -> Phases] /\ row \in [Brackets -> RowStatus]
      /\ parent \in [Brackets -> LegStatus] /\ connected
  BY BoundsAssumption DEF FirstSession, Brackets
<1>2. UNCHANGED <<count, connected>> /\ session \subseteq session'
  BY DEF Resume, ParentNotSent, PlaceParent, ParentRefused, ParentAccepted,
     ParentAcceptedLinkLost, StopNotSent, PlaceStop, StopRejected, StopAnswered
<1> SUFFICES /\ phase' \in [Brackets -> Phases] /\ row' \in [Brackets -> RowStatus]
             /\ parent' \in [Brackets -> LegStatus]
             /\ \A j \in Brackets : j = i \/ Same(j)
             /\ Listed(i)' /\ OnTheBooks(i)' /\ Seen(i)'
  BY <1>1, <1>2, FirstSessionStays
<1>3. CASE ParentNotSent(i)
  BY <1>1, <1>2, <1>3 DEF ParentNotSent, Same, Listed, OnTheBooks, Seen, Phases, Ended, RowStatus
<1>4. CASE PlaceParent(i)
  BY <1>1, <1>2, <1>4 DEF PlaceParent, Same, Listed, OnTheBooks, Seen, Phases, Waiting, LegStatus
<1>5. CASE ParentRefused(i)
  <2>1. /\ parent[i] \notin {"held", "working"} /\ UNCHANGED <<parent, session>>
        /\ phase[i] = "sentParent" /\ phase' = [phase EXCEPT ![i] = "failed"]
        /\ \E seen \in {"REJECTED", "CANCELLED"} : row' = [row EXCEPT ![i] = seen]
    BY <1>1, <1>5 DEF ParentRefused, SeenStatus, LocalStatus
  <2> QED
    BY <1>1, <1>2, <2>1 DEF Same, Listed, OnTheBooks, Seen, Phases, Ended, RowStatus
<1>6. CASE ParentAccepted(i)
  BY <1>1, <1>2, <1>6 DEF ParentAccepted, Same, Listed, OnTheBooks, Seen, Phases, Waiting, RowStatus
<1>7. CASE ParentAcceptedLinkLost(i)
  BY <1>1, <1>7 DEF ParentAcceptedLinkLost
<1>8. CASE StopNotSent(i) \/ StopRejected(i)
  BY <1>1, <1>2, <1>8 DEF StopNotSent, StopRejected, CancelParentForFailedProtection,
     AfterCancel, Same, Listed, OnTheBooks, Seen, Phases, Ended, RowStatus, LegStatus
<1>9. CASE PlaceStop(i)
  BY <1>1, <1>2, <1>9 DEF PlaceStop, Same, Listed, OnTheBooks, Seen, Phases, Waiting, LegStatus
<1>10. CASE StopAnswered(i)
  BY <1>1, <1>2, <1>10 DEF StopAnswered, Same, Listed, OnTheBooks, Seen, Phases, Ended
<1> QED
  BY <1>3, <1>4, <1>5, <1>6, <1>7, <1>8, <1>9, <1>10 DEF Resume

\* TWS changes an order it has, and never makes it work again.
LEMMA BrokerStaysListed ==
    ASSUME FirstSession, NEW i \in Brackets, Broker(i), UNCHANGED <<toCancel, missed>>
    PROVE  FirstSession'
<1> USE DEF work, local, tws, link
<1>1. /\ count \in Nat /\ Listed(i) /\ OnTheBooks(i) /\ Seen(i)
      /\ phase \in [Brackets -> Phases] /\ row \in [Brackets -> RowStatus]
      /\ parent \in [Brackets -> LegStatus]
  BY DEF FirstSession
<1>2. UNCHANGED <<count, connected, session, phase, row>>
  BY DEF Broker, TwsFillsEntry, TwsCancelsEntry, TwsRejectsEntry, TwsDropsStop,
     TwsTriggersStop
<1>3. \/ UNCHANGED parent
      \/ \E leg \in {"filled", "cancelled", "rejected"} :
            parent[i] # "none" /\ parent' = [parent EXCEPT ![i] = leg]
  BY DEF Broker, TwsFillsEntry, TwsCancelsEntry, TwsRejectsEntry, TwsDropsStop,
     TwsTriggersStop
<1>4. /\ parent' \in [Brackets -> LegStatus]
      /\ \A j \in Brackets : j = i \/ Same(j)
      /\ Listed(i)' /\ OnTheBooks(i)' /\ Seen(i)'
  BY <1>1, <1>2, <1>3 DEF Same, Listed, OnTheBooks, Seen, LegStatus
<1> QED
  BY <1>1, <1>2, <1>4, FirstSessionStays

\* The emergency stop finds every open row's order in the session: all are
\* cancelled in its own step, and none is left to be looked up.
LEMMA EmergencyStopSeesAll ==
    ASSUME FirstSession, EmergencyStop
    PROVE  FirstSession'
<1> USE DEF work, local, tws, link
<1>1. /\ count \in Nat /\ connected
      /\ phase \in [Brackets -> Phases] /\ row \in [Brackets -> RowStatus]
      /\ parent \in [Brackets -> LegStatus]
      /\ \A i \in Brackets : Listed(i) /\ OnTheBooks(i)
  BY DEF FirstSession
<1>2. UNCHANGED <<count, phase, connected, session>> /\ missed' = Brackets \ OpenRows
  BY DEF EmergencyStop
<1>3. \A i \in OpenRows : i \in Brackets /\ i \in session /\ parent[i] # "none"
  BY <1>1 DEF OpenRows, Listed
<1>4. OpenRows \ session' = {}
  BY <1>2, <1>3
<1>5. /\ parent' = [i \in Brackets |->
                       IF i \in OpenRows THEN AfterCancel(parent[i]) ELSE parent[i]]
      /\ row' = [i \in Brackets |-> IF i \in OpenRows THEN "CANCELLED" ELSE row[i]]
      /\ toCancel' = {}
  <2>1. {i \in OpenRows : \A j \in OpenRows \ session' : i > j} = OpenRows
    BY <1>4
  <2>2. CancelEntries({}, OpenRows)
    BY DEF EmergencyStop
  <2> QED BY <1>1, <2>1, <2>2 DEF CancelEntries
<1>6. \A i \in OpenRows :
         AfterCancel(parent[i]) \in {"cancelling", "filled", "cancelled", "rejected"}
  BY <1>1, <1>3 DEF AfterCancel, LegStatus
<1>7. parent' \in [Brackets -> LegStatus] /\ row' \in [Brackets -> RowStatus]
  <2>1. \A i \in Brackets : parent'[i] \in LegStatus /\ row'[i] \in RowStatus
    BY <1>1, <1>5, <1>6 DEF LegStatus, RowStatus
  <2> QED BY <1>5, <2>1
<1>8. ASSUME NEW i \in Brackets PROVE Listed(i)' /\ OnTheBooks(i)' /\ Seen(i)'
  <2>1. CASE i \in OpenRows
    BY <1>1, <1>2, <1>3, <1>5, <1>6, <2>1 DEF Listed, OnTheBooks, Seen
  <2>2. CASE i \notin OpenRows
    BY <1>1, <1>2, <1>5, <2>2 DEF Listed, OnTheBooks, Seen
  <2> QED BY <2>1, <2>2
<1> QED
  BY <1>1, <1>2, <1>5, <1>7, <1>8 DEF FirstSession

\* While the first session lasts a health check changes nothing.
LEMMA FirstSessionAnswers ==
    ASSUME FirstSession, NEW up \in BOOLEAN, HealthChecked(up), drops \in Nat, drops' = 0
    PROVE  UNCHANGED vars
<1>1. ~ Reconnect
  BY DEF FirstSession, Reconnect
<1>2. ~ Disconnect
  BY DEF Disconnect
<1> QED
  BY <1>1, <1>2, Zenon DEF HealthChecked

\* A step that leaves the pipeline and what the stop left behind alone, or ends
\* the stop.
LEMMA ControlStaysListed ==
    ASSUME FirstSession, UNCHANGED vars, UNCHANGED toCancel,
           missed' = missed \/ missed' = NoStop
    PROVE  FirstSession'
<1>1. UNCHANGED <<count, phase, row, parent, connected, session>>
  BY DEF vars
<1>2. ASSUME NEW i \in Brackets PROVE Listed(i)' /\ OnTheBooks(i)' /\ Seen(i)'
  BY <1>1 DEF FirstSession, Listed, OnTheBooks, Seen
<1> QED
  BY <1>1, <1>2 DEF FirstSession

\* Evaluated, handled and refused signals, and the poll timeout.
LEMMA SignalStaysListed ==
    ASSUME FirstSession, UNCHANGED <<toCancel, missed>>,
           \/ \E t \in Tasks, s \in Setups, batch \in SUBSET Setups : Evaluate(t, s, batch)
           \/ \E t \in Tasks : Follow(t)
           \/ PollTimeout
    PROVE  FirstSession'
<1>1. ASSUME NEW t \in Tasks, NEW s \in Setups, NEW batch \in SUBSET Setups,
             Evaluate(t, s, batch)
      PROVE  FirstSession'
  BY <1>1, SubmitStaysListed DEF Evaluate
<1>2. ASSUME NEW t \in Tasks, NEW s \in Setups, HandleNext(t, s)
      PROVE  FirstSession'
  BY <1>2, SubmitStaysListed DEF HandleNext
<1>3. ASSUME NEW t \in Tasks, NEW s \in Setups, Refuse(t, s)
      PROVE  FirstSession'
  <2>1. UNCHANGED <<count, phase, row, parent, connected, session>>
    BY <1>3 DEF Refuse, work, local, tws, link
  <2> QED BY <2>1, FirstSessionStays DEF FirstSession, Same
<1>4. CASE PollTimeout
  <2>1. UNCHANGED <<count, row, parent, connected, session>>
    BY <1>4 DEF PollTimeout, work, local, tws, link
  <2>2. phase' = [i \in Brackets |->
                     IF phase[i] \in Waiting /\ owner[i] \in Pollers
                        THEN "aborted" ELSE phase[i]]
    BY <1>4 DEF PollTimeout
  <2>3. \A i \in Brackets : phase'[i] = phase[i] \/ (phase'[i] = "aborted" /\ phase[i] \in Waiting)
    BY <2>2
  <2>4. phase' \in [Brackets -> Phases]
    <3>1. \A i \in Brackets : phase'[i] \in Phases
      BY <2>3 DEF FirstSession, Phases, Ended
    <3> QED BY <2>2, <3>1
  <2>5. ASSUME NEW i \in Brackets PROVE Listed(i)' /\ OnTheBooks(i)' /\ Seen(i)'
    <3>1. Listed(i) /\ OnTheBooks(i) /\ Seen(i)
      BY DEF FirstSession
    <3>2. missed' = missed
      OBVIOUS
    <3>3. CASE phase'[i] = phase[i]
      BY <2>1, <3>1, <3>2, <3>3 DEF Listed, OnTheBooks, Seen
    <3>4. CASE phase'[i] = "aborted" /\ phase[i] \in Waiting
      BY <2>1, <3>1, <3>2, <3>4 DEF Listed, OnTheBooks, Seen, Waiting
    <3> QED BY <2>3, <3>3, <3>4
  <2> QED BY <2>1, <2>4, <2>5 DEF FirstSession
<1> QED
  BY <1>1, <1>2, <1>3, <1>4 DEF Follow

\* A restart is counted, and so is a lost connection.
LEMMA StepCounts ==
    ASSUME StopInv, [CNext]_cvars
    PROVE  /\ drops' \in Nat /\ starts' \in Nat
           /\ drops' = 0 /\ starts' = 0 => drops = 0 /\ starts = 0
<1>1. UNCHANGED drops \/ drops' = drops + 1
  BY DEF CNext, MonitorStep, ApiStep, Heartbeat, HeartbeatReads, HealthChecked, Reconnect,
     Disconnect, PollAnalyses, Evaluate, PollEnds, PollExpires, PollTimeout,
     SnapshotPosted, Asked, SwitchAsked, Answered, Synced, EmergencyStop, CancelLookedUp, Restart,
     Beside, Follow, HandleNext, Refuse, Resume, ParentNotSent, PlaceParent, ParentRefused,
     ParentAccepted, ParentAcceptedLinkLost, StopNotSent, PlaceStop, StopRejected,
     StopAnswered, Broker, TwsFillsEntry, TwsCancelsEntry, TwsRejectsEntry,
     TwsDropsStop, TwsTriggersStop, vars, cvars, link
<1>2. UNCHANGED starts \/ starts' = starts + 1
  BY DEF CNext, MonitorStep, ApiStep, Heartbeat, HeartbeatReads, PollAnalyses, PollEnds,
     PollExpires, SnapshotPosted, Asked, SwitchAsked, Answered, Synced, EmergencyStop, CancelLookedUp,
     Restart, Beside, cvars, control
<1> QED
  BY <1>1, <1>2 DEF StopInv

LEMMA StepStop == StopInv /\ [CNext]_cvars => StopInv'
<1> SUFFICES ASSUME StopInv, [CNext]_cvars, drops' = 0, starts' = 0
             PROVE  FirstSession'
  BY StepCounts DEF StopInv
<1>1. FirstSession /\ drops = 0 /\ starts = 0 /\ drops \in Nat
  BY StepCounts DEF StopInv
<1>2. CASE Heartbeat \/ PollEnds
           \/ \E o \in Operators, what \in {"resume", "pause"} : Asked(o, what)
  BY <1>1, <1>2, ControlStaysListed DEF Heartbeat, PollEnds, Asked
<1>3. CASE \E up \in BOOLEAN : HeartbeatReads(up) \/ Synced(up)
  BY <1>1, <1>3, FirstSessionAnswers, ControlStaysListed DEF HeartbeatReads, Synced
<1>4. CASE \E o \in Operators, up \in BOOLEAN : Answered(o, up)
  BY <1>1, <1>4, FirstSessionAnswers, ControlStaysListed DEF Answered
<1>5. CASE \E t \in Tasks, s \in Setups, batch \in SUBSET Setups :
              PollAnalyses(t, s, batch) \/ SnapshotPosted(t, s, batch)
  BY <1>1, <1>5, SignalStaysListed DEF PollAnalyses, SnapshotPosted, control
<1>6. CASE PollExpires \/ \E t \in Tasks : Beside(Follow(t))
  BY <1>1, <1>6, SignalStaysListed DEF PollExpires, Beside, control
<1>7. CASE EmergencyStop
  BY <1>1, <1>7, EmergencyStopSeesAll
<1>8. CASE \E answered \in BOOLEAN : CancelLookedUp(answered)
  BY <1>1, <1>8 DEF CancelLookedUp, FirstSession
<1>9. CASE \E up \in BOOLEAN : Restart(up)
  BY <1>1, <1>9 DEF Restart
<1>10. CASE \E i \in Brackets : Beside(Resume(i))
  BY <1>1, <1>10, ResumeStaysListed DEF Beside, control
<1>11. CASE \E i \in Brackets : Beside(Broker(i))
  BY <1>1, <1>11, BrokerStaysListed DEF Beside, control
<1>12. CASE Beside(Disconnect)
  BY <1>1, <1>12 DEF Beside, Disconnect
<1>13. CASE UNCHANGED cvars
  BY <1>1, <1>13, ControlStaysListed DEF cvars, control
<1>14. CASE \E o \in Operators : SwitchAsked(o)
  BY <1>1, <1>14 DEF SwitchAsked, Disconnect, FirstSession
<1> QED
  BY <1>2, <1>3, <1>4, <1>5, <1>6, <1>7, <1>8, <1>9, <1>10, <1>11, <1>12, <1>13,
     <1>14 DEF CNext, MonitorStep, ApiStep

\* As long as the session that placed the orders is up, an entry that works at
\* TWS after an emergency stop had no open row when the stop read the table:
\* every other was cancelled in the stop's own step, whatever the pipeline, the
\* poll and TWS do before and after.
THEOREM StopCancelsWhatItSees == CSpec => []OnlyMissedEntriesOutliveTheStop
<1>1. StopInv => OnlyMissedEntriesOutliveTheStop
  BY DEF StopInv, FirstSession, Seen, OnlyMissedEntriesOutliveTheStop
<1> QED
  BY <1>1, InitStop, StepStop, PTL DEF CSpec

-----------------------------------------------------------------------------
(* The brackets under control: no status, stop or start makes an entry     *)
(* work, so the pipeline's promise about an entry and its stop stands; and *)
(* while the first session lasts, so does the duplicate check.             *)

\* The columns of the brackets are functions on them.
Columns ==
    /\ DOMAIN phase = Brackets /\ DOMAIN owner = Brackets /\ DOMAIN of = Brackets
    /\ DOMAIN parent = Brackets /\ DOMAIN child = Brackets

\* A bracket in a step that begins none: its coroutine does not start to wait,
\* its entry comes to work by its coroutine alone, and together with its stop.
Quiet(i) ==
    /\ phase'[i] \in Waiting => phase[i] \in Waiting
    /\ parent'[i] = "working" => parent[i] = "working" \/ phase[i] \in Waiting
    /\ child'[i] = "none" =>
          /\ child[i] = "none"
          /\ parent'[i] \in {"working", "filled"} => parent[i] \in {"working", "filled"}

\* A bracket with a later one of the same task and setup is over.
Superseded(i, j) ==
    i < j /\ j <= count /\ owner[i] = owner[j] /\ of[i] = of[j] =>
       phase[i] \notin Waiting /\ parent[i] # "working"

QuietStep == Columns' /\ UNCHANGED work /\ \A i \in Brackets : Quiet(i)

\* Nothing the steps read of changes for a bracket a step leaves alone.
LEMMA UntouchedIsQuiet ==
    ASSUME Columns, UNCHANGED <<work, phase, tws>>
    PROVE  QuietStep
BY DEF QuietStep, Quiet, Columns, work, tws

LEMMA ResumeIsQuiet ==
    ASSUME Columns, NEW i \in Brackets, Resume(i)
    PROVE  QuietStep
<1> USE DEF QuietStep, Quiet, Columns, work, tws, Waiting
<1>1. CASE ParentNotSent(i) \/ ParentRefused(i) \/ ParentAccepted(i) \/ ParentAcceptedLinkLost(i)
           \/ StopAnswered(i)
  BY <1>1 DEF ParentNotSent, ParentRefused, ParentAccepted, ParentAcceptedLinkLost, StopAnswered
<1>2. CASE PlaceParent(i)
  BY <1>2 DEF PlaceParent
<1>3. CASE StopNotSent(i) \/ StopRejected(i)
  BY <1>3 DEF StopNotSent, StopRejected, CancelParentForFailedProtection, AfterCancel
<1>4. CASE PlaceStop(i)
  BY <1>4 DEF PlaceStop
<1> QED
  BY <1>1, <1>2, <1>3, <1>4 DEF Resume

LEMMA BrokerIsQuiet ==
    ASSUME Columns, ParentTransmittedOnlyWithStop, NEW i \in Brackets, Broker(i)
    PROVE  QuietStep
BY DEF QuietStep, Quiet, Columns, work, ParentTransmittedOnlyWithStop, Broker, TwsFillsEntry,
   TwsCancelsEntry, TwsRejectsEntry, TwsDropsStop, TwsTriggersStop

LEMMA TimeoutIsQuiet ==
    ASSUME Columns, PollTimeout
    PROVE  QuietStep
BY DEF QuietStep, Quiet, Columns, work, tws, PollTimeout, Waiting

\* A step that begins no bracket keeps what was transmitted with a stop, and
\* what was over when a later bracket began.
LEMMA QuietKeeps ==
    ASSUME QuietStep
    PROVE  /\ ParentTransmittedOnlyWithStop => ParentTransmittedOnlyWithStop'
           /\ (\A i, j \in Brackets : Superseded(i, j)) =>
                 (\A i, j \in Brackets : Superseded(i, j))'
<1>1. Brackets' = Brackets
  BY DEF Brackets
<1>2. ASSUME ParentTransmittedOnlyWithStop PROVE ParentTransmittedOnlyWithStop'
  BY <1>1, <1>2 DEF QuietStep, Quiet, ParentTransmittedOnlyWithStop
<1>3. ASSUME \A i, j \in Brackets : Superseded(i, j), NEW i \in Brackets, NEW j \in Brackets
      PROVE  Superseded(i, j)'
  BY <1>3 DEF QuietStep, Quiet, Superseded, work
<1> QED
  BY <1>1, <1>2, <1>3

\* A bracket begins: the task does not wait, and the rows refuse a second entry
\* beside one that works.
LEMMA SubmitSupersedes ==
    ASSUME Columns, count \in Nat, NEW t \in Tasks, NEW s \in Setups, Submit(t, s), ~ Busy(t),
           UNCHANGED tws
    PROVE  /\ Columns'
           /\ ParentTransmittedOnlyWithStop => ParentTransmittedOnlyWithStop'
           /\ WorkingEntryIsOnTheBooks /\ (\A i, j \in Brackets : Superseded(i, j)) =>
                 (\A i, j \in Brackets : Superseded(i, j))'
<1> USE DEF Columns, Submit, tws
<1>1. Columns' /\ count + 1 \in Brackets /\ Brackets' = Brackets
  BY BoundsAssumption DEF Brackets
<1>2. ASSUME ParentTransmittedOnlyWithStop PROVE ParentTransmittedOnlyWithStop'
  BY <1>1, <1>2 DEF ParentTransmittedOnlyWithStop
<1>3. ASSUME WorkingEntryIsOnTheBooks, \A i, j \in Brackets : Superseded(i, j),
             NEW i \in Brackets, NEW j \in Brackets,
             i < j, j <= count', owner'[i] = owner'[j], of'[i] = of'[j]
      PROVE  phase'[i] \notin Waiting /\ parent'[i] # "working"
  <2>1. i # count + 1 /\ i <= count
    BY <1>1, <1>3 DEF Brackets
  <2>2. phase'[i] = phase[i] /\ owner'[i] = owner[i] /\ of'[i] = of[i] /\ parent'[i] = parent[i]
    BY <2>1
  <2>3. CASE j = count + 1
    <3>1. owner[i] = t /\ of[i] = s
      BY <1>1, <1>3, <2>2, <2>3
    <3>2. phase[i] \notin Waiting
      BY <3>1 DEF Busy
    <3>3. parent[i] # "working"
      BY <1>3, <2>1, <3>1 DEF HasActiveEntry, WorkingEntryIsOnTheBooks
    <3> QED
      BY <2>2, <3>2, <3>3
  <2>4. CASE j # count + 1
    <3>1. owner'[j] = owner[j] /\ of'[j] = of[j] /\ j <= count
      BY <1>1, <1>3, <2>4 DEF Brackets
    <3> QED
      BY <1>3, <2>2, <3>1 DEF Superseded
  <2> QED
    BY <2>3, <2>4
<1> QED
  BY <1>1, <1>2, <1>3 DEF Superseded

\* The cancels of an emergency stop: an order that works may end, none begins.
LEMMA CancelsAreQuiet ==
    ASSUME Columns, UNCHANGED <<work, phase, child>>, NEW absent, NEW rows,
           CancelEntries(absent, rows)
    PROVE  QuietStep
<1>1. PICK reached \in SUBSET rows :
         parent' = [i \in Brackets |-> IF i \in reached THEN AfterCancel(parent[i]) ELSE parent[i]]
  BY DEF CancelEntries
<1> QED
  BY <1>1 DEF QuietStep, Quiet, Columns, work, AfterCancel

\* A start ends the waits and leaves the orders at TWS.
LEMMA RestartIsQuiet ==
    ASSUME Columns, NEW up \in BOOLEAN, Restart(up)
    PROVE  QuietStep
BY DEF Restart, QuietStep, Quiet, Columns, work, tws, Waiting

\* The monitor's and the operators' own steps, and the connection's.
LEMMA ControlIsQuiet ==
    ASSUME Columns,
           \/ Heartbeat \/ PollEnds \/ UNCHANGED cvars \/ Beside(Disconnect)
           \/ \E up \in BOOLEAN : HeartbeatReads(up) \/ Synced(up)
           \/ \E o \in Operators, what \in {"resume", "pause"} : Asked(o, what)
           \/ \E o \in Operators : SwitchAsked(o)
           \/ \E o \in Operators, up \in BOOLEAN : Answered(o, up)
    PROVE  QuietStep
<1>1. UNCHANGED <<work, phase, tws>>
  BY DEF Heartbeat, PollEnds, cvars, Beside, HeartbeatReads, Synced, Asked, SwitchAsked,
     Answered, HealthChecked, Reconnect, Disconnect, vars, work, tws
<1> QED
  BY <1>1, UntouchedIsQuiet

Begins == \E t \in Tasks, s \in Setups : Submit(t, s) /\ ~ Busy(t) /\ UNCHANGED tws

LEMMA StepIsQuiet ==
    ASSUME Columns, ParentTransmittedOnlyWithStop, [CNext]_cvars
    PROVE  QuietStep \/ Begins
<1>1. CASE \E t \in Tasks, s \in Setups, batch \in SUBSET Setups :
              PollAnalyses(t, s, batch) \/ SnapshotPosted(t, s, batch)
  BY <1>1 DEF PollAnalyses, SnapshotPosted, Evaluate, Begins
<1>2. CASE \E t \in Tasks : Beside(Follow(t))
  BY <1>2, UntouchedIsQuiet DEF Beside, Follow, HandleNext, Refuse, Begins
<1>3. CASE \E i \in Brackets : Beside(Resume(i)) \/ Beside(Broker(i))
  BY <1>3, ResumeIsQuiet, BrokerIsQuiet DEF Beside
<1>4. CASE PollExpires
  BY <1>4, TimeoutIsQuiet DEF PollExpires
<1>5. CASE EmergencyStop
  BY <1>5, CancelsAreQuiet DEF EmergencyStop
<1>6. CASE \E answered \in BOOLEAN : CancelLookedUp(answered)
  BY <1>6, CancelsAreQuiet DEF CancelLookedUp
<1>7. CASE \E up \in BOOLEAN : Restart(up)
  BY <1>7, RestartIsQuiet
<1> QED
  BY <1>1, <1>2, <1>3, <1>4, <1>5, <1>6, <1>7, ControlIsQuiet DEF CNext, MonitorStep, ApiStep

PromiseInv ==
    /\ StopInv
    /\ count \in Nat
    /\ Columns
    /\ ParentTransmittedOnlyWithStop
    /\ drops = 0 /\ starts = 0 => \A i, j \in Brackets : Superseded(i, j)

LEMMA InitPromise == CInit => PromiseInv
<1> SUFFICES ASSUME CInit PROVE PromiseInv
  OBVIOUS
<1>1. Columns /\ count = 0 /\ ParentTransmittedOnlyWithStop
  BY DEF CInit, Init, Columns, ParentTransmittedOnlyWithStop
<1>2. \A i, j \in Brackets : Superseded(i, j)
  BY <1>1, BoundsAssumption DEF Superseded, Brackets
<1> QED
  BY <1>1, <1>2, InitStop DEF PromiseInv

LEMMA StepPromise == PromiseInv /\ [CNext]_cvars => PromiseInv'
<1> SUFFICES ASSUME PromiseInv, [CNext]_cvars PROVE PromiseInv'
  OBVIOUS
<1>1. StopInv' /\ (drops' = 0 /\ starts' = 0 => drops = 0 /\ starts = 0)
  BY StepStop, StepCounts DEF PromiseInv
<1>2. drops = 0 /\ starts = 0 => WorkingEntryIsOnTheBooks
  BY DEF PromiseInv, StopInv, FirstSession, OnTheBooks, WorkingEntryIsOnTheBooks
<1>3. CASE QuietStep
  <2>1. count' = count
    BY <1>3 DEF QuietStep, work
  <2>2. Columns' /\ ParentTransmittedOnlyWithStop'
    BY <1>3, QuietKeeps DEF PromiseInv, QuietStep
  <2>3. drops' = 0 /\ starts' = 0 => (\A i, j \in Brackets : Superseded(i, j))'
    BY <1>1, <1>3, QuietKeeps DEF PromiseInv
  <2> QED
    BY <1>1, <2>1, <2>2, <2>3 DEF PromiseInv
<1>4. CASE Begins
  <2>1. PICK t \in Tasks, s \in Setups : Submit(t, s) /\ ~ Busy(t) /\ UNCHANGED tws
    BY <1>4 DEF Begins
  <2>2. count' \in Nat
    BY <2>1 DEF Submit, PromiseInv
  <2>3. Columns' /\ ParentTransmittedOnlyWithStop'
    BY <2>1, SubmitSupersedes DEF PromiseInv
  <2>4. drops' = 0 /\ starts' = 0 => (\A i, j \in Brackets : Superseded(i, j))'
    BY <1>1, <1>2, <2>1, SubmitSupersedes DEF PromiseInv
  <2> QED
    BY <1>1, <2>2, <2>3, <2>4 DEF PromiseInv
<1> QED
  BY <1>3, <1>4, StepIsQuiet DEF PromiseInv

\* Whatever the monitor, operators, an emergency stop's cancels and starts do
\* between the waits of a bracket, no parent is transmitted before its
\* protective stop, for any tasks, operators and bounds.
THEOREM ControlTransmitsNothing == CSpec => []ParentTransmittedOnlyWithStop
<1>1. PromiseInv => ParentTransmittedOnlyWithStop
  BY DEF PromiseInv
<1> QED
  BY <1>1, InitPromise, StepPromise, PTL DEF CSpec

\* In the first session of the first start, an emergency stop closes no row of
\* an entry that goes on working, and one task has no two entries of one setup
\* working at TWS, whatever is paused, stopped and resumed between them.
THEOREM ControlKeepsTheBooks ==
    CSpec => [](drops = 0 /\ starts = 0 => WorkingEntryIsOnTheBooks /\ OneTaskNeverDuplicates)
<1>1. PromiseInv => (drops = 0 /\ starts = 0 =>
                        WorkingEntryIsOnTheBooks /\ OneTaskNeverDuplicates)
  <2> SUFFICES ASSUME PromiseInv, drops = 0, starts = 0
               PROVE  WorkingEntryIsOnTheBooks /\ OneTaskNeverDuplicates
    OBVIOUS
  <2>1. WorkingEntryIsOnTheBooks
    BY DEF PromiseInv, StopInv, FirstSession, OnTheBooks, WorkingEntryIsOnTheBooks
  <2>2. \A i \in Brackets : parent[i] = "working" => i <= count
    BY DEF PromiseInv, StopInv, FirstSession, Listed, Brackets
  <2>3. OneTaskNeverDuplicates
    BY <2>2 DEF PromiseInv, Superseded, OneTaskNeverDuplicates, Brackets
  <2> QED
    BY <2>1, <2>3
<1> QED
  BY <1>1, InitPromise, StepPromise, PTL DEF CSpec

=============================================================================
