------------------------ MODULE Decision_proofs -------------------------
(***************************************************************************)
(* Machine-checked proofs about EntryDecision, for every list of setups,   *)
(* tickets, snapshots and limits, and about MarketFeed.                    *)
(*                                                                         *)
(* An entry: the prices of a signal are whole from the snapshot on, an     *)
(* order's size comes from an integer division by the very price it is     *)
(* bound to, and the rounding of that price comes last; a signal keeps the *)
(* hour and the volume it was judged by until the order takes them over.   *)
(* The day: what is sent and not counted yet is one entry a batch and one  *)
(* a ticket, and the last of them passed the guard with a trade left, so   *)
(* the orders of a day are bounded and the sum of what they can lose is    *)
(* bounded term by term.  The feed: a symbol's coroutines are the poll's   *)
(* until one raises.                                                       *)
(***************************************************************************)
EXTENDS EntryDecision, MarketFeed, Sums, TLAPS

IsType ==
    [action : {"HOLD", "STATUS_CHANGE", "ENTRY_READY"},
     target : {"none", "MISSED_BREAKOUT", "WAITING_RETEST", "ENTRY_READY"},
     path : {"none", "FAST_BREAKOUT", "CONFIRMED_BREAKOUT", "BREAKOUT_RETEST"},
     trigger : Int, limit : Int, stop : Int]
SignalType == [hour : 0..7, strong : BOOLEAN, spread : Int, is : IsType]
OrderType ==
    [at : {"none", "sending", "sent", "held"}, quantity : Nat, limit : Int, stop : Int,
     judged : 0..7, strong : BOOLEAN, sent : 0..7]

DTypeOK ==
    /\ hour \in 1..7
    /\ signal \in [Setups -> SignalType]
    /\ order \in [Actors -> OrderType]
    /\ asked \in [Tickets -> [at : {"new", "asked", "done"}, hour : 0..7]]
    /\ exposure \in Int

\* An entry that waits in its batch was judged in the window, earlier or now,
\* and on strong volume if that was at lunch.
JudgedInTime(s) ==
    signal[s].is.action = "ENTRY_READY" =>
        /\ signal[s].hour \in 1..hour /\ InWindow(signal[s].hour)
        /\ Hours[signal[s].hour] = "lunch" => signal[s].strong

\* The budgets of an order, and the lunch rule for an automatic one.
Affordable(a) ==
    order[a].at # "none" =>
        /\ RiskOf(a) <= RiskBudget(a) + order[a].quantity
        /\ order[a].quantity * order[a].limit <= AmountBudget(a) + order[a].quantity
OnVolume(s) ==
    order[s].at # "none" /\ Hours[order[s].sent] = "lunch" =>
        order[s].strong \/ Hours[order[s].judged] = "morning"

IInv ==
    /\ DTypeOK
    /\ \A s \in Setups : JudgedInTime(s) /\ OnVolume(s)
    /\ \A a \in Actors : Affordable(a)

-----------------------------------------------------------------------------
(* Arithmetic.                                                             *)

\* A whole quotient times its divisor does not exceed what was divided.
LEMMA WholeQuotient ==
    ASSUME NEW a \in Int, NEW b \in Int, b > 0, NEW q \in Int, q <= a \div b
    PROVE  q * b <= a
<1>1. PICK d \in Int : d = a \div b /\ d * b <= a
  BY SMT
<1>2. PICK e \in Nat : d = q + e
  <2>1. d - q \in Nat /\ d = q + (d - q)
    BY <1>1
  <2> QED BY <2>1
<1>3. e * b >= 0
  BY SMT
<1>4. d * b = q * b + e * b
  BY <1>2, SMT
<1> QED
  BY <1>1, <1>3, <1>4, SMT

\* Rounding to the cent moves a price by half a cent at most.
LEMMA Rounding ==
    ASSUME NEW p \in Int, NEW r \in Cents(p), NEW q \in Nat, NEW s \in Int,
           NEW risk \in Int, NEW amount \in Int, q * (p - s) <= risk, q * p <= amount
    PROVE  /\ r \in Int
           /\ q * (r - s) <= risk + q
           /\ q * r <= amount + q
<1>1. r \in Int /\ (r = p \/ r = p - 1 \/ r = p + 1)
  BY DEF Cents
<1>2. CASE r = p
  BY <1>2
<1>3. CASE r = p - 1
  <2>1. q * (r - s) = q * (p - s) - q /\ q * r = q * p - q
    BY <1>3, SMT
  <2> QED BY <1>1, <2>1
<1>4. CASE r = p + 1
  <2>1. q * (r - s) = q * (p - s) + q /\ q * r = q * p + q
    BY <1>4, SMT
  <2> QED BY <1>1, <2>1
<1> QED
  BY <1>1, <1>2, <1>3, <1>4

\* A size the risk engine grants keeps to the risk and to the amount.
LEMMA SizeKeepsBudgets ==
    ASSUME NEW entry \in Int, NEW stop \in Int, NEW risk \in Int, NEW amount \in Int,
           stop > 0, Quantity(entry, stop, risk, amount) > 0
    PROVE  LET q == Quantity(entry, stop, risk, amount)
           IN  q \in Nat /\ q * (entry - stop) <= risk /\ q * entry <= amount
<1> DEFINE q == Quantity(entry, stop, risk, amount)
<1>1. entry > stop
  BY DEF Quantity
<1>2. q \in Int /\ q <= risk \div (entry - stop) /\ q <= amount \div entry
  BY <1>1 DEF Quantity, Smaller
<1>3. q * (entry - stop) <= risk
  <2>1. entry - stop \in Int /\ entry - stop > 0
    BY <1>1
  <2> QED BY <1>2, <2>1, WholeQuotient
<1>4. q * entry <= amount
  BY <1>1, <1>2, WholeQuotient
<1> QED
  BY <1>2, <1>3, <1>4

-----------------------------------------------------------------------------
(* The prices of a signal are whole.                                       *)

LEMMA MarketType ==
    ASSUME NEW m \in Markets
    PROVE  /\ m.bid \in Int /\ m.ask \in Int /\ m.atr15 \in Int /\ m.atr1h \in Int
           /\ m.ratio \in Int /\ m.supports \subseteq Nat /\ Spread(m) \in Int
BY DecisionAssumption DEF Spread

LEMMA ConfigType ==
    ASSUME NEW s \in Setups
    PROVE  /\ ConfigOf[s].resistance \in Int /\ ConfigOf[s].limit \in Int
           /\ ConfigOf[s].maxRisk \in Int /\ ConfigOf[s].maxPosition \in Int
BY DecisionAssumption DEF Setups

LEMMA LimitType ==
    /\ MaxExposure \in Int /\ MaxAmount \in Int /\ MaxRisk \in Int
    /\ \A k \in Tickets : /\ TicketOf[k].limit \in Nat /\ TicketOf[k].stop \in Nat
                          /\ TicketOf[k].quantity \in Nat
BY DecisionAssumption

LEMMA Wholes ==
    /\ \A a, b \in Int : Larger(a, b) \in Int /\ Smaller(a, b) \in Int /\ Smaller(a, b) <= a
    /\ \A a, b, c \in Int : Largest(a, b, c) \in Int
    /\ \A a \in Int : RoundUp(a, Tick) \in Int /\ RoundDown(a, Tick) \in Int
BY DEF Larger, Smaller, Largest, RoundUp, RoundDown, Tick

LEMMA TriggerType ==
    ASSUME NEW s \in Setups, NEW m \in Markets
    PROVE  Trigger(ConfigOf[s], m) \in Int
<1>1. RawTrigger(m) \in Int
  BY MarketType DEF RawTrigger, Tick, Largest, Larger
<1>2. RoundUp(RawTrigger(m), Tick) \in Int
  BY <1>1, Wholes
<1>3. ConfigOf[s].resistance + RoundUp(RawTrigger(m), Tick) \in Int
  BY <1>2, ConfigType
<1> QED
  BY <1>3, Wholes DEF Trigger

LEMMA LimitIsWhole ==
    ASSUME NEW s \in Setups, NEW m \in Markets
    PROVE  Limit(ConfigOf[s], m) \in Int
<1>1. RawLimit(m) \in Int
  BY MarketType DEF RawLimit, Tick, Largest, Larger
<1>2. Trigger(ConfigOf[s], m) + RoundUp(RawLimit(m), Tick) \in Int
  <2>1. RoundUp(RawLimit(m), Tick) \in Int
    BY <1>1, Wholes
  <2> QED BY <2>1, TriggerType
<1>3. RoundUp(Trigger(ConfigOf[s], m) + RoundUp(RawLimit(m), Tick), Tick) \in Int
  BY <1>2, Wholes
<1> QED
  BY <1>3, Wholes, ConfigType DEF Limit

\* Supports under the trigger have a highest one, so the stop rests on it.
LEMMA SupportIsOne ==
    ASSUME NEW s \in Setups, NEW m \in Markets, Eligible(ConfigOf[s], m) # {}
    PROVE  Support(ConfigOf[s], m) \in Eligible(ConfigOf[s], m)
<1> DEFINE E == Eligible(ConfigOf[s], m)
           top == Trigger(ConfigOf[s], m)
<1>1. E \in SUBSET Nat /\ top \in Int /\ \A p \in E : p < top
  BY MarketType, TriggerType DEF Eligible
<1>2. IsFiniteSet(E)
  <2>1. top \in Nat /\ \A p \in E : p <= top
    BY <1>1
  <2> HIDE DEF E, top
  <2> QED BY <1>1, <2>1, FS_BoundedSetOfNaturals
<1>3. \E p \in E : \A r \in E : p >= r
  <2>1. E \subseteq Int /\ E # {}
    BY <1>1
  <2> HIDE DEF E
  <2> QED BY <1>2, <2>1, GreatestOfFinite
<1>4. \E p \in E : \A r \in E : r <= p
  BY <1>1, <1>3
<1> QED
  BY <1>4 DEF Support

LEMMA StopIsWhole ==
    ASSUME NEW s \in Setups, NEW m \in Markets, Eligible(ConfigOf[s], m) # {}
    PROVE  InitialStop(ConfigOf[s], m) \in Int
<1>1. Support(ConfigOf[s], m) \in Int
  BY SupportIsOne, MarketType DEF Eligible
<1>2. StopBuffer(m) \in Int
  BY MarketType DEF StopBuffer, Tick, Largest, Larger
<1>3. Support(ConfigOf[s], m) - StopBuffer(m) \in Int
  BY <1>1, <1>2
<1> QED
  BY <1>3, Wholes DEF InitialStop

LEMMA HoldType ==
    /\ Hold \in IsType /\ Hold.action = "HOLD"
    /\ \A t \in {"MISSED_BREAKOUT", "WAITING_RETEST"} :
          ChangeTo(t) \in IsType /\ ChangeTo(t).action = "STATUS_CHANGE"
<1>1. None \in Int
  BY DEF None
<1>2. Hold \in IsType /\ Hold.action = "HOLD"
  BY <1>1 DEF Hold, IsType
<1>3. ASSUME NEW t \in {"MISSED_BREAKOUT", "WAITING_RETEST"}
      PROVE  ChangeTo(t) \in IsType /\ ChangeTo(t).action = "STATUS_CHANGE"
  <2>1. PICK q : q = [Hold EXCEPT !.action = "STATUS_CHANGE"]
    OBVIOUS
  <2>2. q \in IsType /\ q.action = "STATUS_CHANGE"
    BY <2>1, <1>2 DEF IsType
  <2>3. PICK r : r = [q EXCEPT !.target = t]
    OBVIOUS
  <2>4. r \in IsType /\ r.action = "STATUS_CHANGE"
    BY <2>2, <2>3 DEF IsType
  <2>5. ChangeTo(t) = r
    BY <2>1, <2>3 DEF ChangeTo
  <2> QED BY <2>4, <2>5
<1> QED
  BY <1>2, <1>3

LEMMA PathType ==
    ASSUME NEW s \in Setups, NEW m \in Markets
    PROVE  Path(ConfigOf[s], m)
             \in {"none", "FAST_BREAKOUT", "CONFIRMED_BREAKOUT", "BREAKOUT_RETEST"}
BY DEF Path

LEMMA SignalOfType ==
    ASSUME NEW s \in Setups, NEW m \in Markets, NEW st
    PROVE  SignalOf(ConfigOf[s], m, st) \in IsType
<1> DEFINE c == ConfigOf[s]
<1>1. \/ SignalOf(c, m, st) = Hold
      \/ SignalOf(c, m, st) = ChangeTo("MISSED_BREAKOUT")
      \/ SignalOf(c, m, st) = ChangeTo("WAITING_RETEST")
      \/ SignalOf(c, m, st) = ReadySignal(c, m) /\ Sized(c, m)
  BY Zenon DEF SignalOf
<1>2. ASSUME Sized(c, m) PROVE ReadySignal(c, m) \in IsType
  <2>1. InitialStop(c, m) \in Int
    BY <1>2, StopIsWhole DEF Sized
  <2> QED BY <2>1, TriggerType, LimitIsWhole, PathType DEF ReadySignal, IsType
<1> QED
  BY <1>1, <1>2, HoldType

LEMMA HoursAre ==
    /\ Len(Hours) = 7
    /\ Hours[4] = "lunch" /\ Hours[3] = "morning"
    /\ \A h \in 1..7 : Hours[h] = "lunch" => h = 4
    /\ \A h \in 1..7 : InWindow(h) /\ h <= 4 => h = 3 \/ h = 4
<1>1. /\ Len(Hours) = 7
      /\ Hours[1] = "pre" /\ Hours[2] = "opening" /\ Hours[3] = "morning"
      /\ Hours[4] = "lunch" /\ Hours[5] = "afternoon" /\ Hours[6] = "late"
      /\ Hours[7] = "after"
  BY DEF Hours
<1>2. \A h \in 1..7 : h = 1 \/ h = 2 \/ h = 3 \/ h = 4 \/ h = 5 \/ h = 6 \/ h = 7
  OBVIOUS
<1> QED
  BY <1>1, <1>2 DEF InWindow

\* What a batch leaves to be handled has the hour and the volume of now.
LEMMA JudgedNow ==
    ASSUME DTypeOK, NEW s \in Setups, NEW m \in Markets
    PROVE  /\ Judged(s, m) \in SignalType
           /\ Judged(s, m).is.action = "ENTRY_READY" =>
                 /\ Judged(s, m).hour = hour /\ InWindow(hour)
                 /\ Hours[hour] = "lunch" => Judged(s, m).strong
<1>1. hour \in 0..7 /\ 0 \in 0..7 /\ 0 \in Int
  BY DEF DTypeOK
<1>2. NoSignal \in SignalType /\ NoSignal.is.action # "ENTRY_READY"
  BY <1>1, HoldType DEF NoSignal, SignalType
<1>3. PICK e : e = Evaluated(s, m)
  OBVIOUS
<1>4. /\ e \in IsType
      /\ e.action = "ENTRY_READY" => PolicyAllows(hour, m)
  <2>1. \/ e = SignalOf(ConfigOf[s], m, status[s]) /\ e.action # "ENTRY_READY"
        \/ e = SignalOf(ConfigOf[s], m, status[s]) /\ PolicyAllows(hour, m)
        \/ e = Hold
    BY <1>3, Zenon DEF Evaluated
  <2> QED BY <2>1, SignalOfType, HoldType
<1>5. PICK b : b = (m.ratio >= 150)
  OBVIOUS
<1>6. b \in BOOLEAN
  BY <1>5
<1>7. e.action = "ENTRY_READY" => InWindow(hour) /\ (Hours[hour] = "lunch" => b)
  BY <1>4, <1>5, Zenon DEF PolicyAllows
<1>8. \/ Judged(s, m) = NoSignal
      \/ Judged(s, m) = [hour |-> hour, strong |-> b, spread |-> Spread(m), is |-> e]
  BY <1>3, <1>5, Zenon DEF Judged
<1>9. PICK r : r = [hour |-> hour, strong |-> b, spread |-> Spread(m), is |-> e]
  OBVIOUS
<1>10. r \in SignalType /\ r.is = e /\ r.hour = hour /\ r.strong = b
  BY <1>1, <1>4, <1>6, <1>9, MarketType, Zenon DEF SignalType
<1>11. Judged(s, m) = NoSignal \/ Judged(s, m) = r
  BY <1>8, <1>9, Zenon
<1>12. CASE Judged(s, m) = NoSignal
  BY <1>2, <1>12, Zenon
<1>13. CASE Judged(s, m) = r
  BY <1>7, <1>10, <1>13, Zenon
<1> QED
  BY <1>11, <1>12, <1>13, Zenon

-----------------------------------------------------------------------------
(* The invariant.                                                          *)

LEMMA InvInit ==
    ASSUME DInit
    PROVE  IInv
<1>1. NoSignal \in SignalType /\ NoSignal.is.action # "ENTRY_READY"
  <2>1. 0 \in 0..7 /\ 0 \in Int
    OBVIOUS
  <2> QED BY <2>1, HoldType, Zenon DEF NoSignal, SignalType
<1>2. NoOrder \in OrderType /\ NoOrder.at = "none"
  <2>1. 0 \in 0..7 /\ 0 \in Int /\ 0 \in Nat
    OBVIOUS
  <2> QED BY <2>1, Zenon DEF NoOrder, OrderType
<1>3. DTypeOK
  BY <1>1, <1>2 DEF DInit, DTypeOK
<1>4. \A a \in Actors : order[a].at = "none"
  BY <1>2 DEF DInit
<1>5. \A s \in Setups : JudgedInTime(s)
  BY <1>1 DEF DInit, JudgedInTime
<1>6. Setups \subseteq Actors
  BY DEF Actors
<1> QED
  BY <1>3, <1>4, <1>5, <1>6 DEF IInv, OnVolume, Affordable

\* An order that goes out within its budgets and its hour.
LEMMA OrderPlaced ==
    ASSUME IInv, NEW a \in Actors, NEW o \in OrderType,
           order' = [order EXCEPT ![a] = o],
           o.quantity * (o.limit - o.stop) <= RiskBudget(a) + o.quantity,
           o.quantity * o.limit <= AmountBudget(a) + o.quantity,
           a \in Setups /\ Hours[o.sent] = "lunch" => o.strong \/ Hours[o.judged] = "morning"
    PROVE  /\ order' \in [Actors -> OrderType]
           /\ \A b \in Actors : Affordable(b)'
           /\ \A s \in Setups : OnVolume(s)'
<1>1. order \in [Actors -> OrderType] /\ Setups \subseteq Actors
  BY DEF IInv, DTypeOK, Actors
<1>2. order' \in [Actors -> OrderType] /\ order'[a] = o
      /\ \A b \in Actors : b # a => order'[b] = order[b]
  BY <1>1
<1>3. ASSUME NEW b \in Actors PROVE Affordable(b)'
  <2>1. CASE b = a
    BY <1>2, <2>1 DEF Affordable, RiskOf, RiskBudget, AmountBudget
  <2>2. CASE b # a
    <3>1. Affordable(b)
      BY DEF IInv
    <3> QED BY <1>2, <2>2, <3>1 DEF Affordable, RiskOf, RiskBudget, AmountBudget
  <2> QED BY <2>1, <2>2
<1>4. ASSUME NEW s \in Setups PROVE OnVolume(s)'
  <2>1. CASE s = a
    BY <1>2, <2>1, Zenon DEF OnVolume
  <2>2. CASE s # a
    <3>1. OnVolume(s) /\ s \in Actors
      BY <1>1 DEF IInv
    <3> QED BY <1>2, <2>2, <3>1, Zenon DEF OnVolume
  <2> QED BY <2>1, <2>2
<1> QED
  BY <1>2, <1>3, <1>4

\* An order that moves on, or goes, keeps what it was placed with.
LEMMA OrderMoves ==
    ASSUME IInv, NEW a \in Actors, NEW v \in {"sending", "sent", "held"},
           order[a].at # "none",
           order' = [order EXCEPT ![a].at = v] \/ order' = [order EXCEPT ![a] = NoOrder]
    PROVE  /\ order' \in [Actors -> OrderType]
           /\ \A b \in Actors : Affordable(b)'
           /\ \A s \in Setups : OnVolume(s)'
<1>1. order \in [Actors -> OrderType] /\ Setups \subseteq Actors
  BY DEF IInv, DTypeOK, Actors
<1>2. order[a] \in OrderType
  BY <1>1
<1>3. \A b \in Actors : /\ order'[b] \in OrderType
                        /\ \/ order'[b].at = "none"
                           \/ /\ order[b].at # "none"
                              /\ order'[b].quantity = order[b].quantity
                              /\ order'[b].limit = order[b].limit
                              /\ order'[b].stop = order[b].stop
                              /\ order'[b].judged = order[b].judged
                              /\ order'[b].strong = order[b].strong
                              /\ order'[b].sent = order[b].sent
  <2>1. CASE order' = [order EXCEPT ![a] = NoOrder]
    <3>1. NoOrder \in OrderType /\ NoOrder.at = "none"
      <4>1. 0 \in 0..7 /\ 0 \in Int /\ 0 \in Nat
        OBVIOUS
      <4> QED BY <4>1, Zenon DEF NoOrder, OrderType
    <3> QED BY <1>1, <2>1, <3>1
  <2>2. CASE order' = [order EXCEPT ![a].at = v]
    <3>1. PICK o : o = [order[a] EXCEPT !.at = v]
      OBVIOUS
    <3>2. /\ o \in OrderType /\ o.quantity = order[a].quantity
          /\ o.limit = order[a].limit /\ o.stop = order[a].stop
          /\ o.judged = order[a].judged /\ o.strong = order[a].strong
          /\ o.sent = order[a].sent
      BY <1>2, <3>1 DEF OrderType
    <3>3. order' = [order EXCEPT ![a] = o]
      BY <2>2, <3>1
    <3>4. order'[a] = o /\ \A b \in Actors : b # a => order'[b] = order[b]
      BY <1>1, <3>3
    <3> QED BY <1>1, <3>2, <3>4
  <2> QED BY <2>1, <2>2
<1>4. order' \in [Actors -> OrderType]
  <2>1. \A o : [order EXCEPT ![a] = o] = [b \in Actors |-> IF b = a THEN o ELSE order[b]]
    BY <1>1
  <2>2. order' = [b \in Actors |-> order'[b]]
    BY <1>1
  <2> QED BY <1>3, <2>2
<1>5. ASSUME NEW b \in Actors PROVE Affordable(b)'
  <2>1. Affordable(b)
    BY DEF IInv
  <2> QED BY <1>3, <2>1 DEF Affordable, RiskOf, RiskBudget, AmountBudget
<1>6. ASSUME NEW s \in Setups PROVE OnVolume(s)'
  <2>1. OnVolume(s) /\ s \in Actors
    BY <1>1 DEF IInv
  <2>2. order'[s].at = "none" \/ (/\ order[s].at # "none"
                                  /\ order'[s].judged = order[s].judged
                                  /\ order'[s].strong = order[s].strong
                                  /\ order'[s].sent = order[s].sent)
    BY <1>3, <2>1
  <2> QED BY <2>1, <2>2, Zenon DEF OnVolume
<1> QED
  BY <1>4, <1>5, <1>6

\* What a step that places and moves no order, judges no signal and leaves the
\* clock alone keeps.
LEMMA OrdersStay ==
    ASSUME IInv, UNCHANGED order
    PROVE  /\ order' \in [Actors -> OrderType]
           /\ \A b \in Actors : Affordable(b)'
           /\ \A s \in Setups : OnVolume(s)'
<1>1. \A b \in Actors : Affordable(b)'
  BY DEF IInv, Affordable, RiskOf, RiskBudget, AmountBudget
<1>2. \A s \in Setups : OnVolume(s)'
  BY Zenon DEF IInv, OnVolume
<1> QED
  BY <1>1, <1>2 DEF IInv, DTypeOK

LEMMA SignalsStay ==
    ASSUME IInv, UNCHANGED hour,
           UNCHANGED signal \/ \E s \in Setups : Taken(s) \/ Dropped(s)
    PROVE  /\ signal' \in [Setups -> SignalType]
           /\ \A s \in Setups : JudgedInTime(s)'
<1>1. NoSignal \in SignalType /\ NoSignal.is.action # "ENTRY_READY"
  <2>1. 0 \in 0..7 /\ 0 \in Int
    OBVIOUS
  <2> QED BY <2>1, HoldType, Zenon DEF NoSignal, SignalType
<1>2. signal \in [Setups -> SignalType]
  BY DEF IInv, DTypeOK
<1>3. /\ signal' \in [Setups -> SignalType]
      /\ \A s \in Setups : signal'[s] = signal[s] \/ signal'[s] = NoSignal
  <2>1. CASE UNCHANGED signal
    BY <1>2, <2>1
  <2>2. ASSUME NEW s \in Setups, Taken(s)
        PROVE  <1>3!1 /\ <1>3!2
    BY <1>1, <1>2, <2>2 DEF Taken
  <2>3. ASSUME NEW s \in Setups, Dropped(s)
        PROVE  <1>3!1 /\ <1>3!2
    BY <1>1, <1>2, <2>3 DEF Dropped
  <2> QED BY <2>1, <2>2, <2>3
<1>4. ASSUME NEW s \in Setups PROVE JudgedInTime(s)'
  <2>1. JudgedInTime(s)
    BY DEF IInv
  <2>2. CASE signal'[s] = signal[s]
    BY <2>1, <2>2, Zenon DEF JudgedInTime
  <2>3. CASE signal'[s] = NoSignal
    BY <1>1, <2>3, Zenon DEF JudgedInTime
  <2> QED BY <1>3, <2>2, <2>3
<1> QED
  BY <1>3, <1>4

\* An entry order keeps to what its signal and the risk engine allow.
LEMMA SentWithinBudget ==
    ASSUME IInv, NEW s \in Setups, EntrySent(s)
    PROVE  IInv'
<1>1. s \in Actors /\ signal[s] \in SignalType /\ signal[s].is \in IsType
  BY DEF IInv, DTypeOK, SignalType, Actors
<1> DEFINE is == signal[s].is
           q == RiskQuantity(s, is)
<1>2. is.limit \in Int /\ is.stop \in Int
  BY <1>1 DEF IsType
<1>3. /\ q \in Nat
      /\ q * (is.limit - is.stop) <= ConfigOf[s].maxRisk
      /\ q * is.limit <= ConfigOf[s].maxPosition
  <2>1. q > 0
    BY DEF EntrySent
  <2>2. PICK amount : amount = Smaller(ConfigOf[s].maxPosition, MaxExposure - exposure)
    OBVIOUS
  <2>3. amount \in Int /\ amount <= ConfigOf[s].maxPosition
    <3>1. MaxExposure - exposure \in Int
      BY LimitType DEF IInv, DTypeOK
    <3> QED BY <2>2, <3>1, ConfigType, Wholes
  <2>4. /\ ~ (is.stop <= 0) /\ q = Quantity(is.limit, is.stop, ConfigOf[s].maxRisk, amount)
    BY <2>1, <2>2 DEF RiskQuantity
  <2>5. is.stop > 0 /\ Quantity(is.limit, is.stop, ConfigOf[s].maxRisk, amount) > 0
    BY <1>2, <2>1, <2>4
  <2>6. q \in Nat /\ q * (is.limit - is.stop) <= ConfigOf[s].maxRisk /\ q * is.limit <= amount
    <3> HIDE DEF is
    <3> QED BY <1>2, <2>3, <2>4, <2>5, ConfigType, SizeKeepsBudgets
  <2>7. q * is.limit \in Int
    BY <1>2, <2>6
  <2> HIDE DEF q, is
  <2> QED BY <2>3, <2>6, <2>7, ConfigType
<1>4. PICK limit \in Cents(is.limit) :
        order' = [order EXCEPT ![s] =
            [at |-> "sending", quantity |-> q, limit |-> limit, stop |-> is.stop,
             judged |-> signal[s].hour, strong |-> signal[s].strong, sent |-> hour]]
  BY DEF EntrySent
<1>5. PICK o : o = [at |-> "sending", quantity |-> q, limit |-> limit, stop |-> is.stop,
                    judged |-> signal[s].hour, strong |-> signal[s].strong, sent |-> hour]
  OBVIOUS
<1>6. /\ limit \in Int
      /\ q * (limit - is.stop) <= ConfigOf[s].maxRisk + q
      /\ q * limit <= ConfigOf[s].maxPosition + q
  <2> HIDE DEF q, is
  <2> QED BY <1>2, <1>3, Rounding, ConfigType
<1>7. o \in OrderType
  <2>1. hour \in 0..7 /\ signal[s].hour \in 0..7 /\ signal[s].strong \in BOOLEAN
    BY <1>1 DEF IInv, DTypeOK, SignalType
  <2> HIDE DEF q, is
  <2> QED BY <1>2, <1>3, <1>5, <1>6, <2>1, Zenon DEF OrderType
<1>8. /\ o.quantity = q /\ o.limit = limit /\ o.stop = is.stop
      /\ o.judged = signal[s].hour /\ o.strong = signal[s].strong /\ o.sent = hour
  BY <1>5
<1>9. order' = [order EXCEPT ![s] = o]
  BY <1>4, <1>5
<1>10. Hours[o.sent] = "lunch" => o.strong \/ Hours[o.judged] = "morning"
  <2>1. JudgedInTime(s) /\ is.action = "ENTRY_READY" /\ hour \in 1..7
    BY DEF IInv, DTypeOK, EntrySent
  <2>2. /\ signal[s].hour \in 1..hour /\ InWindow(signal[s].hour)
        /\ Hours[signal[s].hour] = "lunch" => signal[s].strong
    BY <2>1, Zenon DEF JudgedInTime
  <2>3. CASE Hours[hour] = "lunch"
    <3>1. hour = 4
      BY <2>1, <2>3, HoursAre
    <3>2. signal[s].hour = 3 \/ signal[s].hour = 4
      BY <2>2, <3>1, HoursAre
    <3>3. Hours[signal[s].hour] = "morning" \/ Hours[signal[s].hour] = "lunch"
      BY <3>2, HoursAre
    <3> QED BY <1>8, <2>2, <3>3, Zenon
  <2> QED BY <1>8, <2>3, Zenon
<1>11. /\ o.quantity * (o.limit - o.stop) <= RiskBudget(s) + o.quantity
       /\ o.quantity * o.limit <= AmountBudget(s) + o.quantity
  BY <1>6, <1>8 DEF RiskBudget, AmountBudget
<1>12. /\ order' \in [Actors -> OrderType]
       /\ \A b \in Actors : Affordable(b)'
       /\ \A t \in Setups : OnVolume(t)'
  BY <1>1, <1>7, <1>9, <1>10, <1>11, OrderPlaced, Zenon
<1>13. Taken(s) /\ UNCHANGED <<hour, asked, exposure>>
  BY DEF EntrySent
<1>14. /\ signal' \in [Setups -> SignalType]
       /\ \A t \in Setups : JudgedInTime(t)'
  BY <1>13, SignalsStay
<1> QED
  BY <1>12, <1>13, <1>14 DEF IInv, DTypeOK

\* A ticket keeps to the limits it is checked against.
LEMMA TicketWithinBudget ==
    ASSUME IInv, NEW k \in Tickets, TicketSent(k)
    PROVE  IInv'
<1> DEFINE t == TicketOf[k]
<1>1. /\ k \in Actors /\ k \notin Setups
      /\ t.limit \in Nat /\ t.stop \in Nat /\ t.quantity \in Nat
  BY DecisionAssumption DEF Actors, Setups
<1>2. /\ t.quantity * (t.limit - t.stop) <= MaxRisk
      /\ t.quantity * t.limit <= MaxAmount
  BY DEF TicketSent, WithinLimits
<1>3. PICK limit \in Cents(t.limit) :
        order' = [order EXCEPT ![k] =
            [at |-> "sending", quantity |-> t.quantity, limit |-> limit, stop |-> t.stop,
             judged |-> 0, strong |-> FALSE, sent |-> 0]]
  BY DEF TicketSent
<1>4. PICK o : o = [at |-> "sending", quantity |-> t.quantity, limit |-> limit,
                    stop |-> t.stop, judged |-> 0, strong |-> FALSE, sent |-> 0]
  OBVIOUS
<1>5. /\ limit \in Int
      /\ t.quantity * (limit - t.stop) <= MaxRisk + t.quantity
      /\ t.quantity * limit <= MaxAmount + t.quantity
  <2> HIDE DEF t
  <2>1. t.limit \in Int /\ t.stop \in Int
    BY <1>1
  <2> QED BY <1>1, <1>2, <2>1, Rounding, LimitType
<1>6. o \in OrderType
  <2>1. 0 \in 0..7 /\ FALSE \in BOOLEAN /\ t.stop \in Int
    BY <1>1
  <2> HIDE DEF t
  <2> QED BY <1>1, <1>4, <1>5, <2>1, Zenon DEF OrderType
<1>7. o.quantity = t.quantity /\ o.limit = limit /\ o.stop = t.stop
  BY <1>4
<1>8. order' = [order EXCEPT ![k] = o]
  BY <1>3, <1>4
<1>9. /\ o.quantity * (o.limit - o.stop) <= RiskBudget(k) + o.quantity
      /\ o.quantity * o.limit <= AmountBudget(k) + o.quantity
  BY <1>1, <1>5, <1>7 DEF RiskBudget, AmountBudget
<1>10. /\ order' \in [Actors -> OrderType]
       /\ \A b \in Actors : Affordable(b)'
       /\ \A s \in Setups : OnVolume(s)'
  BY <1>1, <1>6, <1>8, <1>9, OrderPlaced, Zenon
<1>11. UNCHANGED <<hour, signal, exposure>> /\ Decided(k)
  BY DEF TicketSent
<1>12. /\ signal' \in [Setups -> SignalType]
       /\ \A s \in Setups : JudgedInTime(s)'
  BY <1>11, SignalsStay
<1>13. asked' \in [Tickets -> [at : {"new", "asked", "done"}, hour : 0..7]]
  BY <1>11 DEF IInv, DTypeOK, Decided
<1> QED
  BY <1>10, <1>11, <1>12, <1>13 DEF IInv, DTypeOK

\* What is asked of tickets, as an invariant of its own.
AskedType == asked \in [Tickets -> [at : {"new", "asked", "done"}, hour : 0..7]]

LEMMA InvNext ==
    ASSUME IInv, [DNext]_dvars
    PROVE  IInv'
<1>1. AskedType /\ hour \in 1..7 /\ exposure \in Int
  BY DEF IInv, DTypeOK, AskedType
<1>2. ASSUME NEW symbol \in Symbols, Evaluate(symbol)
      PROVE  IInv'
  <2>1. UNCHANGED <<hour, order, asked, exposure>>
    BY <1>2 DEF Evaluate
  <2>2. PICK m \in Markets :
          signal' = [s \in Setups |-> IF s \in BatchOf(symbol) THEN Judged(s, m) ELSE signal[s]]
    BY <1>2 DEF Evaluate
  <2>3. ASSUME NEW s \in Setups
        PROVE  signal'[s] \in SignalType /\ JudgedInTime(s)'
    <3>1. DTypeOK /\ JudgedInTime(s) /\ signal[s] \in SignalType
      BY DEF IInv, DTypeOK
    <3>2. CASE s \in BatchOf(symbol)
      <4>1. signal'[s] = Judged(s, m)
        BY <2>2, <3>2
      <4>2. hour \in 1..hour
        BY <1>1
      <4>3. Judged(s, m) \in SignalType
        BY <3>1, JudgedNow
      <4>4. Judged(s, m).is.action = "ENTRY_READY" =>
              /\ Judged(s, m).hour = hour /\ InWindow(hour)
              /\ Hours[hour] = "lunch" => Judged(s, m).strong
        BY <3>1, JudgedNow, Zenon
      <4>5. hour' = hour
        BY <2>1
      <4> QED BY <4>1, <4>2, <4>3, <4>4, <4>5, Zenon DEF JudgedInTime
    <3>3. CASE s \notin BatchOf(symbol)
      <4>1. signal'[s] = signal[s] /\ hour' = hour
        BY <2>1, <2>2, <3>3
      <4> QED BY <3>1, <4>1, Zenon DEF JudgedInTime
    <3> QED BY <3>2, <3>3
  <2>4. signal' \in [Setups -> SignalType]
    BY <2>2, <2>3
  <2> QED BY <2>1, <2>3, <2>4, OrdersStay DEF IInv, DTypeOK
<1>3. ASSUME NEW s \in Setups, StatusSignal(s) \/ EntryRefused(s)
      PROVE  IInv'
  <2>1. Taken(s) /\ UNCHANGED <<hour, order, asked, exposure>>
    BY <1>3 DEF StatusSignal, EntryRefused
  <2> QED BY <2>1, OrdersStay, SignalsStay DEF IInv, DTypeOK
<1>4. ASSUME NEW s \in Setups, EntrySent(s)
      PROVE  IInv'
  BY <1>4, SentWithinBudget
<1>5. ASSUME NEW s \in Setups, EntryAnswered(s)
      PROVE  IInv'
  <2>1. /\ s \in Actors /\ order[s].at # "none"
        /\ order' = [order EXCEPT ![s].at = "sent"] \/ order' = [order EXCEPT ![s] = NoOrder]
        /\ UNCHANGED <<hour, signal, asked, exposure>>
    BY <1>5 DEF EntryAnswered, Actors
  <2> QED BY <2>1, OrderMoves, SignalsStay DEF IInv, DTypeOK
<1>12. ASSUME NEW s \in Setups, EntryCutOff(s)
       PROVE  IInv'
  <2>1. /\ s \in Actors /\ order[s].at # "none"
        /\ order' = [order EXCEPT ![s].at = "sent"] \/ order' = [order EXCEPT ![s] = NoOrder]
        /\ Dropped(s) /\ UNCHANGED <<hour, asked, exposure>>
    BY <1>12 DEF EntryCutOff, CutOff, Actors
  <2> QED BY <2>1, OrderMoves, SignalsStay DEF IInv, DTypeOK
<1>13. ASSUME NEW k \in Tickets, TicketCutOff(k)
       PROVE  IInv'
  <2>1. /\ k \in Actors /\ order[k].at # "none"
        /\ order' = [order EXCEPT ![k].at = "sent"] \/ order' = [order EXCEPT ![k] = NoOrder]
        /\ UNCHANGED <<hour, signal, asked, exposure>>
    BY <1>13 DEF TicketCutOff, CutOff, Actors
  <2> QED BY <2>1, OrderMoves, SignalsStay DEF IInv, DTypeOK
<1>6. ASSUME NEW k \in Tickets, TicketAsked(k) \/ TicketRefused(k)
      PROVE  IInv'
  <2>1. UNCHANGED <<hour, order, signal, exposure>>
    BY <1>6 DEF TicketAsked, TicketRefused
  <2>2. AskedType'
    BY <1>1, <1>6 DEF TicketAsked, TicketRefused, AskedType, Decided
  <2> QED BY <2>1, <2>2, OrdersStay, SignalsStay DEF IInv, DTypeOK, AskedType
<1>7. ASSUME NEW k \in Tickets, TicketSent(k)
      PROVE  IInv'
  BY <1>7, TicketWithinBudget
<1>8. ASSUME NEW k \in Tickets, TicketAnswered(k)
      PROVE  IInv'
  <2>1. /\ k \in Actors /\ order[k].at # "none"
        /\ order' = [order EXCEPT ![k].at = "sent"] \/ order' = [order EXCEPT ![k] = NoOrder]
        /\ UNCHANGED <<hour, signal, asked, exposure>>
    BY <1>8 DEF TicketAnswered, Actors
  <2> QED BY <2>1, OrderMoves, SignalsStay DEF IInv, DTypeOK
<1>9. ASSUME NEW a \in Actors, Adopted(a)
      PROVE  IInv'
  <2>1. /\ order[a].at # "none" /\ order' = [order EXCEPT ![a].at = "held"]
        /\ exposure' = exposure + order[a].quantity * order[a].limit
        /\ UNCHANGED <<hour, signal, asked>>
    BY <1>9 DEF Adopted
  <2>2. order[a].quantity \in Int /\ order[a].limit \in Int
    BY DEF IInv, DTypeOK, OrderType
  <2>3. exposure' \in Int
    BY <1>1, <2>1, <2>2
  <2> QED BY <2>1, <2>3, OrderMoves, SignalsStay DEF IInv, DTypeOK
<1>10. ASSUME TimePasses
       PROVE  IInv'
  <2>1. hour' = hour + 1 /\ hour' \in 1..7 /\ UNCHANGED <<signal, order, asked, exposure>>
    BY <1>1, <1>10, HoursAre DEF TimePasses
  <2>2. ASSUME NEW s \in Setups PROVE JudgedInTime(s)'
    <3>1. JudgedInTime(s)
      BY DEF IInv
    <3>2. \A h : h \in 1..hour => h \in 1..hour'
      BY <1>1, <2>1
    <3> QED BY <2>1, <3>1, <3>2, Zenon DEF JudgedInTime
  <2> QED BY <2>1, <2>2, OrdersStay DEF IInv, DTypeOK
<1>11. ASSUME UNCHANGED dvars
       PROVE  IInv'
  <2>1. UNCHANGED <<hour, signal, order, asked, exposure>>
    BY <1>11 DEF dvars
  <2> QED BY <2>1, OrdersStay, SignalsStay DEF IInv, DTypeOK
<1> QED
  BY <1>2, <1>3, <1>4, <1>5, <1>6, <1>7, <1>8, <1>9, <1>10, <1>11, <1>12, <1>13, Zenon DEF DNext

-----------------------------------------------------------------------------
\* Whatever the snapshots, the limits and the waits: an entry that fills at the
\* worst price its order allows and is stopped out stays within the budgets of
\* its setup or ticket, up to the rounding of the limit to a cent.
THEOREM EntriesWithinBudget == DSpec => []FilledWithinBudget
<1>1. DInit => IInv
  BY InvInit
<1>2. IInv /\ [DNext]_dvars => IInv'
  BY InvNext
<1>3. IInv => FilledWithinBudget
  BY DEF IInv, Affordable, FilledWithinBudget, Placed
<1> QED
  BY <1>1, <1>2, <1>3, PTL DEF DSpec

\* An automatic entry that goes out at lunch has the volume lunch asks for,
\* unless it was judged in the morning and the entries before it took until
\* then.
THEOREM LunchEntriesOnVolume == DSpec => []LunchOnVolume
<1>1. DInit => IInv
  BY InvInit
<1>2. IInv /\ [DNext]_dvars => IInv'
  BY InvNext
<1>3. IInv => LunchOnVolume
  BY Zenon DEF IInv, OnVolume, LunchOnVolume
<1> QED
  BY <1>1, <1>2, <1>3, PTL DEF DSpec

-----------------------------------------------------------------------------
(* The risk of a day.  A batch has one entry at the wait for TWS and a      *)
(* ticket is an order of its own, so the entries that have passed the gates *)
(* and are not counted yet are no more than there are lanes; the last of    *)
(* them passed while the day had a trade left.  An entry that is cut off    *)
(* leaves the wait uncounted: it is lost, or nothing of it is live.         *)

Sending == {a \in Actors : order[a].at = "sending"}
Counted == {a \in Actors \ lost : order[a].at \in {"sent", "held"}}

LostType == lost \in SUBSET Actors

\* One entry of a symbol's batch is at the wait.
OneAtTheWait ==
    \A s, u \in Setups :
        /\ order[s].at = "sending" /\ order[u].at = "sending"
        /\ SymbolOf[s] = SymbolOf[u]
        => s = u

CountedInTime ==
    /\ trades \in Nat
    /\ Cardinality(Counted) <= trades
    /\ trades + Cardinality(Sending) <= MaxTrades + Lanes - 1

DayIInv == IInv /\ OneAtTheWait /\ CountedInTime /\ LostType

LEMMA FiniteDay ==
    /\ IsFiniteSet(Setups) /\ IsFiniteSet(Actors) /\ IsFiniteSet(Tickets)
    /\ IsFiniteSet({SymbolOf[s] : s \in Setups})
    /\ Cardinality({SymbolOf[s] : s \in Setups}) \in Nat /\ Cardinality(Tickets) \in Nat
    /\ Lanes \in Nat /\ MaxTrades \in Nat \ {0}
<1>1. IsFiniteSet(DOMAIN Listed) /\ IsFiniteSet(Tickets) /\ MaxTrades \in Nat \ {0}
  BY DecisionAssumption
<1>2. IsFiniteSet(Setups)
  BY <1>1, ImageIsFinite DEF Setups
<1>3. IsFiniteSet(Actors)
  BY <1>1, <1>2, FS_Union DEF Actors
<1>4. IsFiniteSet({SymbolOf[s] : s \in Setups})
  BY <1>2, ImageIsFinite
<1>5. Cardinality({SymbolOf[s] : s \in Setups}) \in Nat /\ Cardinality(Tickets) \in Nat
  BY <1>1, <1>4, FS_CardinalityType
<1> QED
  BY <1>1, <1>2, <1>3, <1>4, <1>5 DEF Lanes

\* Sets of actors have a size, and a subset has no larger one.
LEMMA ActorSets ==
    ASSUME NEW S \in SUBSET Actors
    PROVE  /\ IsFiniteSet(S) /\ Cardinality(S) \in Nat
           /\ \A T \in SUBSET S : Cardinality(T) \in Nat /\ Cardinality(T) <= Cardinality(S)
<1>1. \A T \in SUBSET Actors : IsFiniteSet(T) /\ Cardinality(T) \in Nat
  BY FiniteDay, FS_Subset, FS_CardinalityType
<1> QED
  BY <1>1, FS_Subset

\* The entries at the wait fit into the lanes: a symbol each, or a ticket each.
LEMMA SendingFits ==
    ASSUME NEW S \in SUBSET Actors,
           \A s, u \in S \cap Setups : SymbolOf[s] = SymbolOf[u] => s = u
    PROVE  Cardinality(S) <= Lanes
<1> DEFINE ofSetups == S \cap Setups
           ofTickets == S \cap Tickets
           symbols == {SymbolOf[s] : s \in Setups}
           lane == [s \in ofSetups |-> SymbolOf[s]]
<1>1. Cardinality(ofSetups) <= Cardinality(symbols)
  <2>1. lane \in [ofSetups -> symbols]
    OBVIOUS
  <2>2. \A s, u \in ofSetups : lane[s] = lane[u] => s = u
    OBVIOUS
  <2>3. lane \in Injection(ofSetups, symbols)
    BY <2>1, <2>2 DEF Injection, IsInjective
  <2> QED
    <3> HIDE DEF lane, ofSetups, symbols
    <3>1. IsFiniteSet(symbols)
      BY FiniteDay DEF symbols
    <3> QED BY <2>3, <3>1, FS_Injection
<1>2. Cardinality(ofTickets) <= Cardinality(Tickets)
  BY FiniteDay, FS_Subset
<1>3. /\ IsFiniteSet(ofSetups) /\ IsFiniteSet(ofTickets)
      /\ Cardinality(ofSetups) \in Nat /\ Cardinality(ofTickets) \in Nat
      /\ Cardinality(ofSetups \cap ofTickets) \in Nat
  <2>1. /\ ofSetups \in SUBSET Actors /\ ofTickets \in SUBSET Actors
        /\ ofSetups \cap ofTickets \in SUBSET Actors
    OBVIOUS
  <2> HIDE DEF ofSetups, ofTickets
  <2> QED BY <2>1, ActorSets
<1>4. S = ofSetups \union ofTickets
  BY DEF Actors
<1>5. Cardinality(S) =
        Cardinality(ofSetups) + Cardinality(ofTickets) - Cardinality(ofSetups \cap ofTickets)
  <2> HIDE DEF ofSetups, ofTickets
  <2> QED BY <1>3, <1>4, FS_Union
<1> HIDE DEF ofSetups, ofTickets
<1> QED
  BY <1>1, <1>2, <1>3, <1>5, FiniteDay DEF Lanes

\* An entry that passes the gates finds a trade left.
LEMMA PlacedIsCounted ==
    ASSUME IInv, CountedInTime, UNCHANGED <<trades, lost>>, trades < MaxTrades, OneAtTheWait',
           NEW a \in Actors, NEW o, o.at = "sending", order' = [order EXCEPT ![a] = o]
    PROVE  CountedInTime'
<1>1. order \in [Actors -> OrderType]
  BY DEF IInv, DTypeOK
<1>2. Counted' \in SUBSET Counted
  <2>1. order'[a].at = "sending" /\ \A b \in Actors : b # a => order'[b] = order[b]
    BY <1>1
  <2> QED BY <2>1 DEF Counted
<1>3. Cardinality(Counted') \in Nat /\ Cardinality(Counted') <= Cardinality(Counted)
      /\ Cardinality(Counted) \in Nat
  <2>1. Counted \in SUBSET Actors
    BY DEF Counted
  <2> QED BY <1>2, <2>1, ActorSets
<1>4. Cardinality(Sending') <= Lanes /\ Cardinality(Sending') \in Nat
  <2>1. Sending' \in SUBSET Actors
    BY DEF Sending
  <2>2. \A s, u \in Sending' \cap Setups : SymbolOf[s] = SymbolOf[u] => s = u
    BY DEF OneAtTheWait, Sending
  <2> QED BY <2>1, <2>2, SendingFits, ActorSets
<1>5. trades \in Nat /\ Cardinality(Counted) <= trades
  BY DEF CountedInTime
<1>6. trades' = trades /\ trades + 1 <= MaxTrades
  BY <1>5, FiniteDay
<1>7. trades' + Cardinality(Sending') <= MaxTrades + Lanes - 1
  BY <1>4, <1>5, <1>6, FiniteDay
<1> QED
  BY <1>3, <1>5, <1>6, <1>7 DEF CountedInTime

\* An answer takes an entry from the wait and counts it, unless nothing of it
\* is left; one that is cut off leaves the wait and is lost, or nothing is left.
LEMMA AnswerIsCounted ==
    ASSUME IInv, OneAtTheWait, CountedInTime, NEW a \in Actors, order[a].at = "sending",
           LostType, lost' \in {lost, lost \union {a}},
           order' = [order EXCEPT ![a].at = "sent"] \/ order' = [order EXCEPT ![a] = NoOrder],
           trades' \in {trades, trades + 1},
           trades' = trades => a \in lost' \/ order' = [order EXCEPT ![a] = NoOrder]
    PROVE  OneAtTheWait' /\ CountedInTime' /\ LostType'
<1>1. order \in [Actors -> OrderType] /\ NoOrder.at = "none" /\ order[a] \in OrderType
  BY DEF IInv, DTypeOK, NoOrder
<1>2. /\ \A b \in Actors : b # a => order'[b] = order[b]
      /\ order'[a].at \in {"sent", "none"}
      /\ trades' = trades => a \in lost' \/ order'[a].at = "none"
  <2>1. [order[a] EXCEPT !.at = "sent"].at = "sent"
    BY <1>1 DEF OrderType
  <2>2. order' = [order EXCEPT ![a].at = "sent"] => order'[a].at = "sent"
    BY <1>1, <2>1
  <2>3. order' = [order EXCEPT ![a] = NoOrder] => order'[a].at = "none"
    BY <1>1
  <2>4. \A b \in Actors : b # a => order'[b] = order[b]
    BY <1>1
  <2> QED BY <2>2, <2>3, <2>4
<1>3. Setups \subseteq Actors
  BY DEF Actors
<1>4. OneAtTheWait'
  BY <1>2, <1>3 DEF OneAtTheWait
<1>5. Sending' = Sending \ {a} /\ a \in Sending
  BY <1>2 DEF Sending
<1>6. /\ Counted' \subseteq Counted \union {a}
      /\ trades' = trades => Counted' \subseteq Counted
  BY <1>2 DEF Counted
<1>12. LostType'
  BY DEF LostType
<1>7. Cardinality(Sending') = Cardinality(Sending) - 1 /\ Cardinality(Sending) \in Nat
  <2>1. IsFiniteSet(Sending) /\ Cardinality(Sending) \in Nat
    <3>1. Sending \in SUBSET Actors
      BY DEF Sending
    <3> QED BY <3>1, ActorSets
  <2> QED BY <1>5, <2>1, FS_RemoveElement
<1>8. /\ Cardinality(Counted) \in Nat /\ Cardinality(Counted') \in Nat
      /\ Cardinality(Counted') <= Cardinality(Counted) + 1
      /\ trades' = trades => Cardinality(Counted') <= Cardinality(Counted)
  <2>1. Counted \in SUBSET Actors /\ IsFiniteSet(Counted) /\ Cardinality(Counted) \in Nat
    <3>1. Counted \in SUBSET Actors
      BY DEF Counted
    <3> QED BY <3>1, ActorSets
  <2>2. Counted \union {a} \in SUBSET Actors
    BY <2>1
  <2>3. Cardinality(Counted \union {a}) <= Cardinality(Counted) + 1
    <3>1. Cardinality(Counted \union {a}) =
            IF a \in Counted THEN Cardinality(Counted) ELSE Cardinality(Counted) + 1
      BY <2>1, FS_AddElement
    <3> QED BY <2>1, <3>1
  <2>4. /\ Cardinality(Counted') \in Nat /\ Cardinality(Counted \union {a}) \in Nat
        /\ Cardinality(Counted') <= Cardinality(Counted \union {a})
    BY <1>6, <2>2, ActorSets
  <2>5. trades' = trades => Cardinality(Counted') <= Cardinality(Counted)
    BY <1>6, <2>1, ActorSets
  <2> QED BY <2>1, <2>3, <2>4, <2>5
<1>9. /\ trades \in Nat /\ Cardinality(Counted) <= trades
      /\ trades + Cardinality(Sending) <= MaxTrades + Lanes - 1
      /\ trades' = trades \/ trades' = trades + 1
  BY DEF CountedInTime
<1>10. trades' \in Nat /\ Cardinality(Counted') <= trades'
  BY <1>8, <1>9
<1>11. trades' + Cardinality(Sending') <= MaxTrades + Lanes - 1
  BY <1>7, <1>9, FiniteDay
<1> QED
  BY <1>4, <1>10, <1>11, <1>12 DEF CountedInTime, Lanes

LEMMA DayInit == DInit => DayIInv
<1> SUFFICES ASSUME DInit PROVE DayIInv
  OBVIOUS
<1>1. \A a \in Actors : order[a].at = "none"
  BY DEF DInit, NoOrder
<1>2. Sending = {} /\ Counted = {} /\ trades = 0
  BY <1>1 DEF Sending, Counted, DInit
<1>3. CountedInTime
  BY <1>2, FS_EmptySet, FiniteDay DEF CountedInTime
<1>4. OneAtTheWait
  <2>1. Setups \subseteq Actors
    BY DEF Actors
  <2> QED BY <1>1, <2>1 DEF OneAtTheWait
<1> QED
  BY <1>3, <1>4, InvInit DEF DayIInv, LostType, DInit

LEMMA DayNext == DayIInv /\ [DNext]_dvars => DayIInv'
<1> SUFFICES ASSUME DayIInv, [DNext]_dvars PROVE DayIInv'
  OBVIOUS
<1>1. IInv /\ OneAtTheWait /\ CountedInTime /\ LostType /\ IInv'
  BY InvNext DEF DayIInv
<1>2. order \in [Actors -> OrderType] /\ Setups \subseteq Actors /\ Tickets \subseteq Actors
      /\ Setups \cap Tickets = {}
  BY <1>1, DecisionAssumption DEF IInv, DTypeOK, Actors, Setups
<1>3. ASSUME UNCHANGED <<order, trades, lost>>
      PROVE  DayIInv'
  BY <1>1, <1>3 DEF DayIInv, OneAtTheWait, CountedInTime, LostType, Sending, Counted, Lanes
<1>4. ASSUME NEW s \in Setups, EntrySent(s)
      PROVE  DayIInv'
  <2>1. PICK o : o.at = "sending" /\ order' = [order EXCEPT ![s] = o]
    BY <1>4, Zenon DEF EntrySent
  <2>2. trades < MaxTrades /\ UNCHANGED <<trades, lost>> /\ ~ AtTheWait(SymbolOf[s])
    BY <1>4 DEF EntrySent, GuardsAllow, IsNext
  <2>3. \A u \in Setups : SymbolOf[u] = SymbolOf[s] => order[u].at # "sending"
    BY <2>2 DEF AtTheWait, BatchOf
  <2>4. \A u \in Setups : u # s => order'[u] = order[u]
    BY <1>2, <2>1
  <2>5. OneAtTheWait'
    BY <1>1, <2>3, <2>4 DEF OneAtTheWait
  <2>6. s \in Actors
    BY <1>2
  <2>7. CountedInTime'
    BY <1>1, <2>1, <2>2, <2>5, <2>6, PlacedIsCounted
  <2> QED BY <1>1, <2>2, <2>5, <2>7 DEF DayIInv, LostType
<1>5. ASSUME NEW k \in Tickets, TicketSent(k)
      PROVE  DayIInv'
  <2>1. PICK o : o.at = "sending" /\ order' = [order EXCEPT ![k] = o]
    BY <1>5, Zenon DEF TicketSent
  <2>2. trades < MaxTrades /\ UNCHANGED <<trades, lost>>
    BY <1>5 DEF TicketSent, GuardsAllow
  <2>3. \A u \in Setups : order'[u] = order[u]
    BY <1>2, <2>1
  <2>4. OneAtTheWait'
    BY <1>1, <2>3 DEF OneAtTheWait
  <2>5. k \in Actors
    BY <1>2
  <2>6. CountedInTime'
    BY <1>1, <2>1, <2>2, <2>4, <2>5, PlacedIsCounted
  <2> QED BY <1>1, <2>2, <2>4, <2>6 DEF DayIInv, LostType
<1>6. ASSUME NEW s \in Setups, EntryAnswered(s)
      PROVE  DayIInv'
  <2>1. /\ s \in Actors /\ order[s].at = "sending" /\ trades' = trades + 1 /\ lost' = lost
        /\ order' = [order EXCEPT ![s].at = "sent"] \/ order' = [order EXCEPT ![s] = NoOrder]
    BY <1>2, <1>6 DEF EntryAnswered
  <2>2. trades' # trades
    BY <1>1, <2>1 DEF CountedInTime
  <2> QED BY <1>1, <2>1, <2>2, AnswerIsCounted DEF DayIInv
<1>7. ASSUME NEW k \in Tickets, TicketAnswered(k)
      PROVE  DayIInv'
  <2>1. /\ k \in Actors /\ order[k].at = "sending" /\ lost' = lost
        /\ trades' \in {trades, trades + 1}
        /\ order' = [order EXCEPT ![k].at = "sent"] \/ order' = [order EXCEPT ![k] = NoOrder]
    BY <1>2, <1>7 DEF TicketAnswered
  <2>2. trades' = trades => order' = [order EXCEPT ![k] = NoOrder]
    BY <1>1, <1>7 DEF TicketAnswered, CountedInTime
  <2> QED BY <1>1, <2>1, <2>2, AnswerIsCounted DEF DayIInv
<1>11. ASSUME NEW a \in Actors, CutOff(a), trades' = trades
       PROVE  DayIInv'
  <2>1. /\ order[a].at = "sending" /\ lost' \in {lost, lost \union {a}}
        /\ order' = [order EXCEPT ![a].at = "sent"] \/ order' = [order EXCEPT ![a] = NoOrder]
        /\ a \in lost' \/ order' = [order EXCEPT ![a] = NoOrder]
    BY <1>11 DEF CutOff
  <2> QED BY <1>1, <1>11, <2>1, AnswerIsCounted DEF DayIInv
<1>8. ASSUME NEW a \in Actors, Adopted(a)
      PROVE  DayIInv'
  <2>1. /\ order[a].at = "sent" /\ order' = [order EXCEPT ![a].at = "held"]
        /\ UNCHANGED <<trades, lost>>
    BY <1>8 DEF Adopted
  <2>2. order'[a].at = "held" /\ \A b \in Actors : b # a => order'[b] = order[b]
    <3>1. order[a] \in OrderType
      BY <1>2
    <3>2. [order[a] EXCEPT !.at = "held"].at = "held"
      BY <3>1 DEF OrderType
    <3> QED BY <1>2, <2>1, <3>2
  <2>3. Sending' = Sending /\ Counted' = Counted
    BY <2>1, <2>2 DEF Sending, Counted
  <2>4. OneAtTheWait'
    BY <1>1, <1>2, <2>1, <2>2 DEF OneAtTheWait
  <2> QED BY <1>1, <2>1, <2>3, <2>4 DEF DayIInv, CountedInTime, LostType, Lanes
<1>9. CASE DNext
  <2>1. CASE \E symbol \in Symbols : Evaluate(symbol)
    BY <1>3, <2>1 DEF Evaluate
  <2>2. CASE \E s \in Setups : StatusSignal(s) \/ EntryRefused(s)
    BY <1>3, <2>2 DEF StatusSignal, EntryRefused
  <2>3. CASE \E k \in Tickets : TicketAsked(k) \/ TicketRefused(k)
    BY <1>3, <2>3 DEF TicketAsked, TicketRefused
  <2>4. CASE TimePasses
    BY <1>3, <2>4 DEF TimePasses
  <2>5. CASE (\E s \in Setups : EntryCutOff(s)) \/ (\E k \in Tickets : TicketCutOff(k))
    BY <1>2, <1>11, <2>5 DEF EntryCutOff, TicketCutOff
  <2> QED BY <1>4, <1>5, <1>6, <1>7, <1>8, <1>9, <2>1, <2>2, <2>3, <2>4, <2>5, Zenon DEF DNext
<1>10. CASE UNCHANGED dvars
  BY <1>3, <1>10 DEF dvars
<1> QED
  BY <1>9, <1>10

\* The greatest budget is one no budget exceeds.
LEMMA GreatestBudget ==
    /\ Greatest \in Nat
    /\ \A a \in Actors : RiskBudget(a) \in Int /\ RiskBudget(a) <= Greatest
<1> DEFINE budgets == {0} \union {RiskBudget(a) : a \in Actors}
<1>1. \A a \in Actors : RiskBudget(a) \in Int
  BY ConfigType, LimitType DEF RiskBudget
<1>2. budgets \subseteq Int /\ 0 \in budgets
  BY <1>1
<1>3. IsFiniteSet(budgets)
  <2>1. IsFiniteSet({RiskBudget(a) : a \in Actors})
    <3>1. PICK f : f = [a \in Actors |-> RiskBudget(a)]
      OBVIOUS
    <3>2. {f[a] : a \in Actors} = {RiskBudget(a) : a \in Actors}
      BY <3>1
    <3>3. IsFiniteSet({f[a] : a \in Actors})
      BY FiniteDay, ImageIsFinite
    <3> QED BY <3>2, <3>3, Zenon
  <2> QED BY <2>1, FS_Singleton, FS_Union
<1>4. \E top \in budgets : \A r \in budgets : top >= r
  <2> HIDE DEF budgets
  <2> QED BY <1>2, <1>3, GreatestOfFinite
<1>5. Greatest \in budgets /\ \A r \in budgets : Greatest >= r
  <2>1. Greatest = CHOOSE top \in budgets : \A r \in budgets : top >= r
    BY DEF Greatest, Max
  <2> HIDE DEF budgets
  <2> QED BY <1>4, <2>1
<1>6. Greatest \in Nat
  <2> HIDE DEF budgets
  <2> QED BY <1>2, <1>5
<1>7. \A a \in Actors : RiskBudget(a) \in budgets
  OBVIOUS
<1> QED
  <2> HIDE DEF budgets
  <2> QED BY <1>1, <1>5, <1>6, <1>7

\* The fold of the day is a sum over the orders that were placed.
LEMMA RiskIsSum ==
    \E sums, v :
        /\ v = [a \in Placed |-> RiskOf(a) - order[a].quantity]
        /\ SumsUp(sums, v, SUBSET Placed)
        /\ DayRisk = sums[Placed]
<1> DEFINE v == [a \in Placed |-> RiskOf(a) - order[a].quantity]
           Iter(h) == h = [T \in SUBSET Placed |-> IF T = {} THEN 0
                             ELSE (RiskOf(CHOOSE x \in T : TRUE)
                                    - order[CHOOSE x \in T : TRUE].quantity)
                                  + h[T \ {CHOOSE x \in T : TRUE}]]
<1>1. DayRisk = (CHOOSE h : Iter(h))[Placed]
  BY DEF DayRisk, MapThenSumSet, MapThenFoldSet
<1>2. \A T \in SUBSET Placed : T # {} =>
        v[Pick(T)] = RiskOf(CHOOSE x \in T : TRUE) - order[CHOOSE x \in T : TRUE].quantity
  BY DEF Pick
<1>3. \A h : SumsUp(h, v, SUBSET Placed) <=> Iter(h)
  <2> SUFFICES ASSUME NEW h PROVE SumsUp(h, v, SUBSET Placed) <=> Iter(h)
    OBVIOUS
  <2>1. [T \in SUBSET Placed |-> IF T = {} THEN 0 ELSE v[Pick(T)] + h[T \ {Pick(T)}]]
          = [T \in SUBSET Placed |-> IF T = {} THEN 0
                             ELSE (RiskOf(CHOOSE x \in T : TRUE)
                                    - order[CHOOSE x \in T : TRUE].quantity)
                                  + h[T \ {CHOOSE x \in T : TRUE}]]
    <3> HIDE DEF v
    <3> QED BY <1>2 DEF Pick
  <2> HIDE DEF v
  <2> QED BY <2>1 DEF SumsUp
<1>4. \E h : SumsUp(h, v, SUBSET Placed)
  <2>1. IsFiniteSet(Placed)
    BY ActorSets DEF Placed
  <2> QED BY <2>1, SumsExist
<1>5. Iter(CHOOSE h : Iter(h))
  <2> HIDE DEF Iter
  <2> QED BY <1>3, <1>4
<1>6. SumsUp(CHOOSE h : Iter(h), v, SUBSET Placed)
  <2> HIDE DEF Iter, v
  <2> QED BY <1>3, <1>5
<1> QED
  <2> HIDE DEF Iter
  <2> QED BY <1>1, <1>6

\* A union has no more elements than its two sets together.
LEMMA UnionIsNoLarger ==
    ASSUME NEW S, NEW T, IsFiniteSet(S), IsFiniteSet(T)
    PROVE  /\ IsFiniteSet(S \union T) /\ Cardinality(S \union T) \in Nat
           /\ Cardinality(S \union T) <= Cardinality(S) + Cardinality(T)
<1>1. IsFiniteSet(S \union T) /\ Cardinality(S \union T)
         = Cardinality(S) + Cardinality(T) - Cardinality(S \cap T)
  BY FS_Union
<1>2. IsFiniteSet(S \cap T)
  BY FS_Subset
<1>3. /\ Cardinality(S) \in Nat /\ Cardinality(T) \in Nat
      /\ Cardinality(S \cap T) \in Nat /\ Cardinality(S \union T) \in Nat
  BY <1>1, <1>2, FS_CardinalityType
<1> QED
  BY <1>1, <1>3

\* What the invariant comes to in money.
LEMMA DayIsBounded == DayIInv => DayRiskBounded
<1> SUFFICES ASSUME DayIInv PROVE DayRiskBounded
  OBVIOUS
<1>1. /\ order \in [Actors -> OrderType] /\ trades \in Nat
      /\ \A a \in Actors : Affordable(a)
  BY DEF DayIInv, IInv, DTypeOK, CountedInTime
<1>2. Placed \in SUBSET Actors
  BY DEF Placed
<1>3. PICK sums, v :
        /\ v = [a \in Placed |-> RiskOf(a) - order[a].quantity]
        /\ SumsUp(sums, v, SUBSET Placed)
        /\ DayRisk = sums[Placed]
  BY RiskIsSum
<1>4. ASSUME NEW a \in Placed
      PROVE  v[a] \in Int /\ v[a] <= Greatest
  <2>1. order[a] \in OrderType /\ RiskOf(a) <= RiskBudget(a) + order[a].quantity
    BY <1>1, <1>2 DEF Placed, Affordable
  <2>2. order[a].quantity \in Int /\ RiskOf(a) \in Int
    BY <2>1, SMT DEF OrderType, RiskOf
  <2>3. RiskBudget(a) \in Int /\ RiskBudget(a) <= Greatest /\ Greatest \in Int
    BY <1>2, GreatestBudget
  <2>4. v[a] = RiskOf(a) - order[a].quantity
    BY <1>3
  <2> QED BY <2>1, <2>2, <2>3, <2>4
<1>5. v \in [Placed -> Int]
  BY <1>3, <1>4
<1>6. IsFiniteSet(Placed) /\ Cardinality(Placed) \in Nat
  BY <1>2, ActorSets
<1>7. sums[Placed] \in Int /\ sums[Placed] <= Cardinality(Placed) * Greatest
  <2>1. Greatest \in Int
    BY GreatestBudget
  <2> QED BY <1>3, <1>4, <1>5, <1>6, <2>1, SumBound
<1>8. /\ Cardinality(Placed) <= MaxTrades + Lanes - 1 + Cardinality(lost)
      /\ Cardinality(lost) \in Nat
  <2>1. Placed \subseteq (Sending \union Counted) \union lost
    <3>1. \A a \in Actors : order[a].at \in {"none", "sending", "sent", "held"}
      BY <1>1 DEF OrderType
    <3> QED BY <3>1 DEF Placed, Sending, Counted
  <2>2. /\ IsFiniteSet(Sending) /\ IsFiniteSet(Counted) /\ IsFiniteSet(lost)
        /\ Cardinality(Sending) \in Nat /\ Cardinality(Counted) \in Nat
        /\ Cardinality(lost) \in Nat
    <3>1. Sending \in SUBSET Actors /\ Counted \in SUBSET Actors /\ lost \in SUBSET Actors
      BY DEF Sending, Counted, DayIInv, LostType
    <3> QED BY <3>1, ActorSets
  <2>3. \A S, T : IsFiniteSet(S) /\ IsFiniteSet(T) =>
           /\ IsFiniteSet(S \union T) /\ Cardinality(S \union T) \in Nat
           /\ Cardinality(S \union T) <= Cardinality(S) + Cardinality(T)
    BY UnionIsNoLarger
  <2>4. /\ IsFiniteSet((Sending \union Counted) \union lost)
        /\ Cardinality((Sending \union Counted) \union lost)
              <= Cardinality(Sending) + Cardinality(Counted) + Cardinality(lost)
        /\ Cardinality((Sending \union Counted) \union lost) \in Nat
    <3>1. PICK S, T, U : S = Sending /\ T = Counted /\ U = lost
      OBVIOUS
    <3>2. /\ IsFiniteSet(S \union T) /\ Cardinality(S \union T) \in Nat
          /\ Cardinality(S \union T) <= Cardinality(S) + Cardinality(T)
      BY <2>2, <2>3, <3>1
    <3>3. /\ IsFiniteSet((S \union T) \union U) /\ Cardinality((S \union T) \union U) \in Nat
          /\ Cardinality((S \union T) \union U) <= Cardinality(S \union T) + Cardinality(U)
      BY <2>2, <2>3, <3>1, <3>2
    <3>4. Cardinality(S) \in Nat /\ Cardinality(T) \in Nat /\ Cardinality(U) \in Nat
      BY <2>2, <3>1
    <3>5. Cardinality((S \union T) \union U) <= Cardinality(S) + Cardinality(T) + Cardinality(U)
      BY <3>2, <3>3, <3>4
    <3> QED BY <3>1, <3>3, <3>5
  <2>5. Cardinality(Placed) <= Cardinality((Sending \union Counted) \union lost)
    BY <2>1, <2>4, FS_Subset
  <2>6. /\ Cardinality(Counted) <= trades
        /\ trades + Cardinality(Sending) <= MaxTrades + Lanes - 1
    BY DEF DayIInv, CountedInTime
  <2> QED BY <1>1, <1>6, <2>2, <2>4, <2>5, <2>6, FiniteDay
<1>9. Cardinality(Placed) * Greatest <= (MaxTrades + Lanes - 1 + Cardinality(lost)) * Greatest
  <2>1. PICK e \in Nat : MaxTrades + Lanes - 1 + Cardinality(lost) = Cardinality(Placed) + e
    <3>1. PICK bound \in Int : bound = MaxTrades + Lanes - 1 + Cardinality(lost)
      BY <1>8, FiniteDay
    <3>2. bound - Cardinality(Placed) \in Nat
      BY <1>6, <1>8, <3>1
    <3>3. bound = Cardinality(Placed) + (bound - Cardinality(Placed))
      BY <1>6, <3>1
    <3> QED BY <3>1, <3>2, <3>3
  <2>2. \A c, d, g \in Nat : c * g <= (c + d) * g
    BY SMT
  <2> QED BY <1>6, <2>1, <2>2, GreatestBudget
<1>10. /\ Cardinality(Placed) * Greatest \in Int
       /\ (MaxTrades + Lanes - 1 + Cardinality(lost)) * Greatest \in Int
  <2>1. MaxTrades + Lanes - 1 + Cardinality(lost) \in Int
    BY <1>8, FiniteDay
  <2>2. \A c, g \in Int : c * g \in Int
    BY SMT
  <2> QED BY <1>6, <2>1, <2>2, GreatestBudget
<1> QED
  BY <1>3, <1>7, <1>9, <1>10 DEF DayRiskBounded

\* Whatever the setups, tickets and waits: what the entries of a day can lose,
\* up to half a cent a share, is no more than the trades the day allows, one
\* entry a lane less one, and the entries that were cut off after their stop
\* was sent, each with the greatest budget.
THEOREM DayWithinItsTrades == DSpec => []DayRiskBounded
<1>1. DInit => DayIInv
  BY DayInit
<1>2. DayIInv /\ [DNext]_dvars => DayIInv'
  BY DayNext
<1>3. DayIInv => DayRiskBounded
  BY DayIsBounded
<1> QED
  BY <1>1, <1>2, <1>3, PTL DEF DSpec

-----------------------------------------------------------------------------
(* The market data of a symbol, for any coroutines.  Without an exception   *)
(* the poll that runs is the one its coroutines run for.                    *)

FeedIInv ==
    /\ task = [t \in Tasks |-> task[t]]
    /\ poll.on \/ poll.mine = {}
    /\ AloneUnlessRaised

\* A coroutine goes on inside of its poll.
LEMMA GoesInside ==
    ASSUME FeedIInv, NEW t \in Tasks, Goes(t)
    PROVE  FeedIInv'
<1>1. ~ At(t, "idle") /\ UNCHANGED <<poll, raised>>
  BY DEF Goes, At, Qualified, QualifyFails, SignalBars, QuoteReady, QuoteTimesOut, HourBars, Handled
<1>2. \E step : task' = [task EXCEPT ![t] = step]
  BY DEF Goes, Goto, Qualified, QualifyFails, SignalBars, QuoteReady, QuoteTimesOut, HourBars,
     Handled, LiveBegins, QuoteSettled, Merged
<1>3. PICK step : task' = [task EXCEPT ![t] = step]
  BY <1>2
<1>4. \A u \in Tasks : u # t => task'[u] = task[u]
  BY <1>3 DEF FeedIInv
<1>5. task' = [u \in Tasks |-> task'[u]]
  BY <1>3 DEF FeedIInv
<1>6. ~ raised => t \in poll.mine
  BY <1>1 DEF FeedIInv, AloneUnlessRaised
<1>7. AloneUnlessRaised'
  BY <1>1, <1>4, <1>6 DEF FeedIInv, AloneUnlessRaised, At
<1> QED
  BY <1>1, <1>5, <1>7 DEF FeedIInv

LEMMA NextFeed == FeedIInv /\ [FNext]_fvars => FeedIInv'
<1> SUFFICES ASSUME FeedIInv, [FNext]_fvars PROVE FeedIInv'
  OBVIOUS
<1>1. CASE \E t \in Tasks : Goes(t)
  BY <1>1, GoesInside
<1>2. CASE \E t \in Tasks : Raises(t)
  <2>1. PICK t \in Tasks : Raises(t)
    BY <1>2
  <2>2. poll' = NoPoll /\ raised' = TRUE /\ (task' = task \/ task' = [task EXCEPT ![t] = Idle])
    BY <2>1 DEF Raises, Goto
  <2>3. task' = [u \in Tasks |-> task'[u]]
    BY <2>2 DEF FeedIInv
  <2> QED BY <2>2, <2>3 DEF FeedIInv, AloneUnlessRaised, NoPoll
<1>3. CASE PollBegins
  <2>1. PICK t \in Tasks : /\ poll' = [on |-> TRUE, mine |-> {t}]
                           /\ task' = [task EXCEPT ![t] = [Idle EXCEPT !.at = "qualify"]]
    BY <1>3 DEF PollBegins, Goto
  <2>2. poll.mine = {} /\ raised' = raised
    BY <1>3 DEF PollBegins, FeedIInv
  <2>3. task' = [u \in Tasks |-> task'[u]] /\ \A u \in Tasks : u # t => task'[u] = task[u]
    BY <2>1 DEF FeedIInv
  <2>4. AloneUnlessRaised'
    BY <2>1, <2>2, <2>3 DEF FeedIInv, AloneUnlessRaised, At
  <2> QED BY <2>1, <2>3, <2>4 DEF FeedIInv
<1>4. CASE PollEnds
  BY <1>4 DEF PollEnds, FeedIInv, AloneUnlessRaised, At, NoPoll
<1>5. CASE PollTimeout
  <2>1. poll' = NoPoll /\ task' = Cancelled /\ raised' = raised
    BY <1>5 DEF PollTimeout
  <2>2. \A u \in Tasks : task'[u] = IF u \in poll.mine THEN Idle ELSE task[u]
    BY <2>1 DEF Cancelled
  <2>3. task' = [u \in Tasks |-> task'[u]]
    BY <2>1 DEF Cancelled
  <2> QED BY <2>1, <2>2, <2>3 DEF FeedIInv, AloneUnlessRaised, At, NoPoll, Idle
<1>6. CASE Elapse
  <2>1. task' = [u \in Tasks |-> AgedTask(task[u])] /\ UNCHANGED <<poll, raised>>
    BY <1>6 DEF Elapse
  <2>2. \A u \in Tasks : At(u, "idle") => task'[u] = task[u]
    BY <2>1 DEF AgedTask, At
  <2>3. task' = [u \in Tasks |-> task'[u]]
    BY <2>1
  <2> QED BY <2>1, <2>2, <2>3 DEF FeedIInv, AloneUnlessRaised, At
<1>7. CASE Ticks \/ NewSession \/ TwsChanges \/ UNCHANGED fvars
  <2>1. UNCHANGED <<task, poll, raised>>
    BY <1>7 DEF Ticks, NewSession, TwsChanges, fvars
  <2> QED BY <2>1 DEF FeedIInv, AloneUnlessRaised, At
<1> QED
  BY <1>1, <1>2, <1>3, <1>4, <1>5, <1>6, <1>7 DEF FNext

\* A poll that is over has left no coroutine of the symbol behind, unless one
\* of its coroutines raised: gather passes the exception on and cancels nothing
\* (StockMarketMonitor's poll), for any coroutines and settings.
THEOREM PollLeavesNone == FSpec => []AloneUnlessRaised
<1>1. FInit => FeedIInv
  BY DEF FInit, FeedIInv, AloneUnlessRaised, At, Idle, NoPoll
<1>2. FeedIInv => AloneUnlessRaised
  BY DEF FeedIInv
<1> QED
  BY <1>1, <1>2, NextFeed, PTL DEF FSpec

=============================================================================
