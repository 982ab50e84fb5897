--------------------------- MODULE TwsConnection ---------------------------
(***************************************************************************)
(* The sessions of the TWS connector: connect() and its search for a free  *)
(* client id, the health check that reconnects, and the switch of the      *)
(* engine to a new connector object.  Every health check, whoever asks it, *)
(* may reconnect, and a connect waits up to five seconds per client id, so *)
(* the waits of several tasks overlap on one connector.                    *)
(*                                                                         *)
(* An action is the code between two waits.  The waits are one attempt of  *)
(* connectAsync ("connecting") and reqCurrentTime ("asking").              *)
(***************************************************************************)
EXTENDS Integers, FiniteSets

CONSTANTS Monitor,      \* the task of start() and of the monitor loop
          Operators,    \* tasks of API requests: resume, pause, switch
          Slots,        \* session objects
          Tries,        \* client ids one connect tries
          MaxSwitches,  \* connectors the operator selects after the first
          MaxDrops,     \* losses of a session or of TWS
          MaxSlow,      \* answers of a running TWS that come too late
          None          \* no session

ASSUME ConnectionAssumption ==
    /\ Monitor \notin Operators /\ None \notin Slots
    /\ Tries \in Nat \ {0} /\ MaxSwitches \in Nat /\ MaxDrops \in Nat /\ MaxSlow \in Nat

Tasks == {Monitor} \cup Operators
Connectors == 0..MaxSwitches

VARIABLES
    engine,    \* the connector the engine holds
    conn,      \* per connector: its session, status, client id, quote registry
    session,   \* per session object: is it up at TWS, and under which id
    task,      \* per task: its wait
    tws,       \* TWS runs and can be reached
    drops, slow,
    overlap    \* did two connects overlap, or a switch and a connect?

tvars == <<engine, conn, session, task, tws, drops, slow, overlap>>

Idle == [at |-> "idle", conn |-> 0, ib |-> None, base |-> 0, next |-> 0, health |-> FALSE]

\* due: reconnect_interval_seconds have passed since the last attempt began.
Fresh == [ib |-> None, status |-> "DISCONNECTED", id |-> 0, quotes |-> None, due |-> FALSE]

Down == [up |-> FALSE, id |-> 0]

\* start() is waiting for its first attempt; requests are served already.
TInit ==
    /\ engine = 0 /\ tws \in BOOLEAN /\ drops = 0 /\ slow = 0 /\ overlap = FALSE
    /\ conn = [c \in Connectors |-> Fresh]
    /\ session = [k \in Slots |-> Down]
    /\ task = [t \in Tasks |-> IF t = Monitor THEN [Idle EXCEPT !.at = "connecting", !.health = TRUE]
                                              ELSE Idle]

-----------------------------------------------------------------------------
Connecting(c) == {t \in Tasks : task[t].at = "connecting" /\ task[t].conn = c}

\* Session objects nobody refers to any more stand for new ones.
Referenced == {conn[c].ib : c \in Connectors} \cup {conn[c].quotes : c \in Connectors}
                 \cup {task[t].ib : t \in Tasks}
Spare == {k \in Slots : ~ session[k].up} \ Referenced

IsConnected(cn, ss) == cn.ib # None /\ ss[cn.ib].up

MarkDisconnected(cn) == [cn EXCEPT !.quotes = None, !.status = "DISCONNECTED"]

\* For comparison: only a connector that was connected is connected again.
ReconnectsOnceConnected(cn) == cn.due /\ cn.status # "ERROR"

\* _maybe_reconnect: at most one attempt per interval begins a connect.
MaybeReconnect(cn) == cn.due

\* health_check of the engine's connector by task t up to its first wait, with
\* connectors cs and sessions ss as it finds them.
HealthAsked(t, cs, ss) ==
    LET cn == cs[engine]
        up == IsConnected(cn, ss)
        known == cn.ib = None /\ cn.status = "ERROR"
        connects == ~ up /\ MaybeReconnect(cn)
        left == IF up \/ known THEN cn ELSE MarkDisconnected(cn)
    IN /\ conn' = [cs EXCEPT ![engine] = [left EXCEPT !.due = @ /\ ~ connects]]
       /\ task' = [task EXCEPT ![t] =
              IF up THEN [Idle EXCEPT !.at = "asking", !.conn = engine, !.ib = cn.ib]
              ELSE IF connects THEN [Idle EXCEPT !.at = "connecting", !.conn = engine, !.base = cn.id]
              ELSE Idle]
       /\ overlap' = (overlap \/ (connects /\ Connecting(engine) \ {t} # {}))

\* The heartbeat, resume and pause ask the connector the engine holds.
HealthBegins(t) ==
    /\ task[t].at = "idle"
    /\ HealthAsked(t, conn, session)
    /\ UNCHANGED <<engine, session, tws, drops, slow>>

\* reqCurrentTime is answered.  The status is set whatever the connector
\* holds by now.
HealthAnswered(t) ==
    /\ task[t].at = "asking" /\ session[task[t].ib].up
    /\ conn' = [conn EXCEPT ![task[t].conn].status = "CONNECTED"]
    /\ task' = [task EXCEPT ![t] = Idle]
    /\ UNCHANGED <<engine, session, tws, drops, slow, overlap>>

Late == slow < MaxSlow /\ slow' = slow + 1

\* It raises or times out: the session the connector holds by now is closed.
HealthFails(t) ==
    LET c == task[t].conn
    IN /\ task[t].at = "asking"
       /\ IF session[task[t].ib].up THEN Late ELSE UNCHANGED slow
       /\ conn' = [conn EXCEPT ![c] = MarkDisconnected(@)]
       /\ session' = [k \in Slots |-> IF k = conn[c].ib THEN Down ELSE session[k]]
       /\ task' = [task EXCEPT ![t] = Idle]
       /\ UNCHANGED <<engine, tws, drops, overlap>>

\* status() of any other caller notices a session that has gone.
StatusAsked(c) ==
    /\ conn[c].status = "CONNECTED" /\ ~ IsConnected(conn[c], session)
    /\ conn' = [conn EXCEPT ![c] = MarkDisconnected(@)]
    /\ UNCHANGED <<engine, session, task, tws, drops, slow, overlap>>

\* A quote without a registry makes one for the session the connector holds.
QuoteSubscribed(c) ==
    /\ conn[c].ib # None /\ conn[c].quotes = None
    /\ conn' = [conn EXCEPT ![c].quotes = conn[c].ib]
    /\ UNCHANGED <<engine, session, task, tws, drops, slow, overlap>>

-----------------------------------------------------------------------------
Candidate(t) == task[t].base + task[t].next
Taken(id) == \E k \in Slots : session[k].up /\ session[k].id = id

\* connect returns and leaves connector cn and sessions ss.  start() and the
\* switch go on to a health check of the connector the engine holds by now,
\* without a wait in between.
Returns(t, cn, ss) ==
    LET cs == [conn EXCEPT ![task[t].conn] = cn]
    IN /\ session' = ss
       /\ IF task[t].health THEN HealthAsked(t, cs, ss)
          ELSE /\ conn' = cs /\ task' = [task EXCEPT ![t] = Idle]
               /\ UNCHANGED overlap

\* The new session replaces whatever the connector holds.
Connected(cn, k, id) == [cn EXCEPT !.ib = k, !.quotes = k, !.id = id, !.status = "CONNECTED"]

\* A request on a session that has closed is raised at once: a handshake with
\* TWS takes longer.
Raising == \E t \in Tasks : task[t].at = "asking" /\ ~ session[task[t].ib].up

\* TWS accepts the client id.
ConnectSucceeds(t) ==
    /\ task[t].at = "connecting" /\ tws /\ ~ Taken(Candidate(t)) /\ Spare # {}
    /\ ~ Raising
    /\ LET k == CHOOSE s \in Spare : TRUE
       IN Returns(t, Connected(conn[task[t].conn], k, Candidate(t)),
                  [session EXCEPT ![k] = [up |-> TRUE, id |-> Candidate(t)]])
    /\ UNCHANGED <<engine, tws, drops, slow>>

\* Every id was tried, or TWS refused: what the connector holds is forgotten.
AllFailed(cn, base) == [cn EXCEPT !.ib = None, !.id = base, !.status = "ERROR"]

AnotherId(t) == task[t].next + 1 < Tries

\* The client id is in use, or the attempt takes more than its five seconds.
AttemptFails(t) ==
    /\ task[t].at = "connecting" /\ tws
    /\ IF Taken(Candidate(t)) THEN UNCHANGED slow ELSE Late
    /\ IF AnotherId(t)
         THEN /\ task' = [task EXCEPT ![t].next = @ + 1]
              /\ UNCHANGED <<conn, session, overlap>>
         ELSE Returns(t, AllFailed(conn[task[t].conn], task[t].base), session)
    /\ UNCHANGED <<engine, tws, drops>>

\* Nobody listens: connect gives up without another id.
ConnectRefused(t) ==
    /\ task[t].at = "connecting" /\ ~ tws
    /\ Returns(t, AllFailed(conn[task[t].conn], task[t].base), session)
    /\ UNCHANGED <<engine, tws, drops, slow>>

-----------------------------------------------------------------------------
\* For comparison: the former connector keeps its session.
ReplacedOpen(c) == [session |-> session, conn |-> conn]

\* disconnect() of the connector the engine replaces.
Replaced(c) ==
    [session |-> [k \in Slots |-> IF k = conn[c].ib THEN Down ELSE session[k]],
     conn    |-> [conn EXCEPT ![c] = MarkDisconnected(@)]]

\* set_broker_connector: the former connector is disconnected, the new one
\* begins with the configured client id.
Switch(t) ==
    /\ task[t].at = "idle" /\ t \in Operators /\ engine < MaxSwitches
    /\ engine' = engine + 1
    /\ session' = Replaced(engine).session /\ conn' = Replaced(engine).conn
    /\ task' = [task EXCEPT ![t] = [Idle EXCEPT !.at = "connecting", !.conn = engine + 1,
                                               !.health = TRUE]]
    /\ overlap' = (overlap \/ Connecting(engine) # {})
    /\ UNCHANGED <<tws, drops, slow>>

-----------------------------------------------------------------------------
(* The connection and the clock.                                           *)

Elapse(c) ==
    /\ ~ conn[c].due /\ conn' = [conn EXCEPT ![c].due = TRUE]
    /\ UNCHANGED <<engine, session, task, tws, drops, slow, overlap>>

Dropped == drops < MaxDrops /\ drops' = drops + 1

SessionLost(k) ==
    /\ session[k].up /\ Dropped
    /\ session' = [session EXCEPT ![k] = Down]
    /\ UNCHANGED <<engine, conn, task, tws, slow, overlap>>

TwsStops ==
    /\ tws /\ tws' = FALSE /\ Dropped
    /\ session' = [k \in Slots |-> Down]
    /\ UNCHANGED <<engine, conn, task, slow, overlap>>

TwsStarts ==
    /\ ~ tws /\ tws' = TRUE
    /\ UNCHANGED <<engine, conn, session, task, drops, slow, overlap>>

AttemptEnds(t) == ConnectSucceeds(t) \/ AttemptFails(t) \/ ConnectRefused(t)
HealthEnds(t) == HealthAnswered(t) \/ HealthFails(t)

TNext ==
    \/ \E t \in Tasks : HealthBegins(t) \/ HealthEnds(t) \/ AttemptEnds(t) \/ Switch(t)
    \/ \E c \in Connectors : StatusAsked(c) \/ QuoteSubscribed(c) \/ Elapse(c)
    \/ \E k \in Slots : SessionLost(k)
    \/ TwsStops \/ TwsStarts

\* The loop asks every interval, time passes, and both waits have timeouts.
TFairness ==
    /\ WF_tvars(HealthBegins(Monitor))
    /\ \A t \in Tasks : WF_tvars(HealthEnds(t)) /\ WF_tvars(AttemptEnds(t))
    /\ \A c \in Connectors : WF_tvars(Elapse(c))

TSpec == TInit /\ [][TNext]_tvars /\ TFairness

-----------------------------------------------------------------------------
(* Properties.                                                             *)

Held == Slots \cup {None}

TTypeOK ==
    /\ engine \in Connectors /\ tws \in BOOLEAN /\ overlap \in BOOLEAN
    /\ drops \in 0..MaxDrops /\ slow \in 0..MaxSlow
    /\ conn \in [Connectors -> [ib : Held, status : {"CONNECTED", "DISCONNECTED", "ERROR"},
                                id : Nat, quotes : Held, due : BOOLEAN]]
    /\ session \in [Slots -> [up : BOOLEAN, id : Nat]]
    /\ task \in [Tasks -> [at : {"idle", "connecting", "asking"}, conn : Connectors,
                           ib : Held, base : Nat, next : 0..(Tries - 1), health : BOOLEAN]]

\* A session that is up belongs to the connector the engine holds, whatever
\* was lost, timed out, refused or switched: no other session keeps a client id
\* and the orders placed under it.  Only connects that overlapped, or a switch
\* during a connect, leave one behind.
NoSessionLeftBehind ==
    ~ overlap => \A k \in Slots : session[k].up => conn[engine].ib = k

\* A connector that a switch has replaced, and that requests still work with,
\* neither holds a session that is up nor quotes from one: the health check it
\* still waits for cannot close the engine's session.
OnlyTheEngineHoldsASession ==
    ~ overlap => \A c \in Connectors \ {engine}, k \in Slots :
                    session[k].up => k \notin {conn[c].ib, conn[c].quotes}

\* When TWS stays reachable the engine's connector is connected in the end,
\* whatever overlapped, failed or was left behind before.
Online == conn[engine].status = "CONNECTED" /\ IsConnected(conn[engine], session)
ConnectedInTheEnd == <>[]tws => <>[]Online

=============================================================================
