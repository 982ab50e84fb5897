------------------------ MODULE Gates_proofs ------------------------
(***************************************************************************)
(* Proofs about two gates in front of an entry: the daily kill switch, for *)
(* any number of callers, limits, results and days, and the broker reality *)
(* gate, for any setups, symbols, entries and bounds.                      *)
(*                                                                         *)
(* The switch's invariant ties the stored state to the day: a state saved  *)
(* today counts what today's page shows, and a state of an earlier day     *)
(* means that nothing was recorded today.  The gate's invariant follows    *)
(* the reads of a run until its report is saved, and the report until the  *)
(* next.                                                                   *)
(***************************************************************************)
EXTENDS CircuitBreaker, EntryGate, FiniteSetTheorems, SequenceTheorems, WellFoundedInduction, TLAPS

\* The stored state counts what happened on its day.
BookMatchesPage ==
    IF st.day = today
       THEN /\ st.trades = page.entries
            /\ st.pnl = page.pnl
            /\ st.losing = page.streak
            /\ hit => st.tripped # "none"
       ELSE /\ st.day < today
            /\ page = EmptyPage
            /\ ~ hit

\* While fewer callers than can be are waiting, the trades leave them room.
TradesLeaveRoom ==
    st.day = today =>
       st.trades + Cardinality(entering) <= MaxTrades - 1 + Cardinality(Callers)

IInv == TypeOK /\ BookMatchesPage /\ TradesLeaveRoom

-----------------------------------------------------------------------------
(* The operators on the stored state.                                      *)

\* The last num elements of a sequence are a sequence of the same elements.
LEMMA LastType ==
    ASSUME NEW S, NEW seq \in Seq(S), NEW num \in Nat
    PROVE  Last(seq, num) \in Seq(S)
<1> DEFINE m == IF Len(seq) > num THEN Len(seq) - num + 1 ELSE 1
<1>1. Len(seq) \in Nat /\ m \in Int /\ m >= 1
  BY LenProperties
<1>2. \A i \in m..Len(seq) : seq[i] \in S
  BY <1>1, ElementOfSeq
<1>3. SubSeq(seq, m, Len(seq)) \in Seq(S)
  BY <1>1, <1>2, SubSeqProperties
<1> QED
  BY <1>3 DEF Last

\* Rolling keeps the type, dates the state today and keeps a state of today.
LEMMA RolledFacts ==
    ASSUME st \in StateType, today \in Days
    PROVE  /\ Rolled(st) \in StateType
           /\ Rolled(st).day = today
           /\ st.day = today => Rolled(st) = st
           /\ st.day # today => /\ Rolled(st).trades = 0
                                /\ Rolled(st).pnl = 0
                                /\ Rolled(st).losing = 0
                                /\ Rolled(st).tripped = "none"
<1> DEFINE seq == IF st.day # 0 /\ st.trades > 0
                     THEN Append(st.recent, [day |-> st.day, count |-> st.trades])
                     ELSE st.recent
<1>1. st.recent \in Seq([day : Nat, count : Nat])
  BY DEF StateType
<1>2. [day |-> st.day, count |-> st.trades] \in [day : Nat, count : Nat]
  BY DEF StateType
<1>3. seq \in Seq([day : Nat, count : Nat])
  BY <1>1, <1>2, AppendProperties
<1>4. Last(seq, 5) \in Seq([day : Nat, count : Nat])
  BY <1>3, LastType
<1>5. today \in Nat
  BY DEF Days
<1>6. CASE st.day = today
  BY <1>6 DEF Rolled
<1>7. CASE st.day # today
  <2>1. Rolled(st) = [day |-> today, trades |-> 0, losing |-> 0, pnl |-> 0,
                      tripped |-> "none", recent |-> Last(seq, 5)]
    BY <1>7 DEF Rolled
  <2> HIDE DEF seq
  <2> QED
    BY <1>4, <1>5, <1>7, <2>1 DEF StateType, Trips
<1> QED
  BY <1>6, <1>7

\* Assigning a trip, a trade count or a result to a state.
LEMMA SetTripped ==
    ASSUME NEW s \in StateType, NEW trip \in Trips
    PROVE  LET t == [s EXCEPT !.tripped = trip]
           IN  /\ t \in StateType
               /\ t.day = s.day /\ t.trades = s.trades /\ t.pnl = s.pnl
               /\ t.losing = s.losing /\ t.tripped = trip
BY DEF StateType

\* The same for the trade count of record_entry_submitted.
LEMMA SetTrades ==
    ASSUME NEW s \in StateType, NEW num \in Nat
    PROVE  LET t == [s EXCEPT !.trades = num]
           IN  /\ t \in StateType
               /\ t.day = s.day /\ t.trades = num /\ t.pnl = s.pnl
               /\ t.losing = s.losing /\ t.tripped = s.tripped
BY DEF StateType

\* The same for the result and the losing streak of record_position_closed.
LEMMA SetResult ==
    ASSUME NEW s \in StateType, NEW pnl \in Int, NEW num \in Nat
    PROVE  LET t == [s EXCEPT !.pnl = pnl, !.losing = num]
           IN  /\ t \in StateType
               /\ t.day = s.day /\ t.trades = s.trades /\ t.pnl = pnl
               /\ t.losing = num /\ t.tripped = s.tripped
BY DEF StateType

\* Tripping changes the trip alone, never replaces one, and leaves none only
\* when no limit is crossed.
LEMMA MaybeTripFacts ==
    ASSUME NEW s \in StateType
    PROVE  /\ MaybeTrip(s) \in StateType
           /\ MaybeTrip(s).day = s.day
           /\ MaybeTrip(s).trades = s.trades
           /\ MaybeTrip(s).pnl = s.pnl
           /\ MaybeTrip(s).losing = s.losing
           /\ s.tripped # "none" => MaybeTrip(s).tripped = s.tripped
           /\ MaybeTrip(s).tripped = "none" =>
                 /\ s.trades < MaxTrades
                 /\ s.losing < MaxConsecutive
                 /\ ~ (s.pnl <= -MaxLoss)
<1> DEFINE trip == IF s.pnl <= -MaxLoss \/ s.losing >= MaxConsecutive
                       THEN "DAILY_LOSS_LIMIT"
                    ELSE IF s.trades >= MaxTrades THEN "MAX_TRADES_REACHED"
                    ELSE "none"
<1>1. trip \in Trips
  BY DEF Trips
<1>2. trip = "none" =>
         /\ s.trades < MaxTrades
         /\ s.losing < MaxConsecutive
         /\ ~ (s.pnl <= -MaxLoss)
  BY LimitsAssumption DEF StateType
<1>3. MaybeTrip(s) = IF s.tripped # "none" THEN s ELSE [s EXCEPT !.tripped = trip]
  BY DEF MaybeTrip
<1> HIDE DEF trip
<1> QED
  BY <1>1, <1>2, <1>3, SetTripped

\* What each hook saves is today's state, tripped when today is over a limit.
LEMMA RecordFacts ==
    ASSUME st \in StateType, today \in Days, NEW result \in Int
    PROVE  /\ EntryRecorded(st) \in StateType
           /\ EntryRecorded(st).day = today
           /\ EntryRecorded(st).trades = Rolled(st).trades + 1
           /\ EntryRecorded(st).pnl = Rolled(st).pnl
           /\ EntryRecorded(st).losing = Rolled(st).losing
           /\ Rolled(st).tripped # "none" =>
                 EntryRecorded(st).tripped = Rolled(st).tripped
           /\ EntryRecorded(st).tripped = "none" =>
                 /\ EntryRecorded(st).trades < MaxTrades
                 /\ EntryRecorded(st).losing < MaxConsecutive
                 /\ ~ (EntryRecorded(st).pnl <= -MaxLoss)
           /\ CloseRecorded(st, result) \in StateType
           /\ CloseRecorded(st, result).day = today
           /\ CloseRecorded(st, result).trades = Rolled(st).trades
           /\ CloseRecorded(st, result).pnl = Rolled(st).pnl + result
           /\ CloseRecorded(st, result).losing =
                 IF result < 0 THEN Rolled(st).losing + 1 ELSE 0
           /\ Rolled(st).tripped # "none" =>
                 CloseRecorded(st, result).tripped = Rolled(st).tripped
           /\ CloseRecorded(st, result).tripped = "none" =>
                 /\ CloseRecorded(st, result).trades < MaxTrades
                 /\ CloseRecorded(st, result).losing < MaxConsecutive
                 /\ ~ (CloseRecorded(st, result).pnl <= -MaxLoss)
<1> DEFINE r == Rolled(st)
           e == [r EXCEPT !.trades = @ + 1]
           c == [r EXCEPT !.pnl = @ + result,
                          !.losing = IF result < 0 THEN @ + 1 ELSE 0]
<1>1. r \in StateType /\ r.day = today
  BY RolledFacts
<1>2. EntryRecorded(st) = MaybeTrip(e) /\ CloseRecorded(st, result) = MaybeTrip(c)
  BY DEF EntryRecorded, CloseRecorded
<1> HIDE DEF r
<1>3. /\ e \in StateType
      /\ e.day = r.day /\ e.trades = r.trades + 1 /\ e.pnl = r.pnl
      /\ e.losing = r.losing /\ e.tripped = r.tripped
  <2>1. r.trades + 1 \in Nat
    BY <1>1 DEF StateType
  <2> QED
    BY <1>1, <2>1, SetTrades
<1>4. /\ c \in StateType
      /\ c.day = r.day /\ c.trades = r.trades /\ c.pnl = r.pnl + result
      /\ c.losing = IF result < 0 THEN r.losing + 1 ELSE 0
      /\ c.tripped = r.tripped
  <2> DEFINE num == IF result < 0 THEN r.losing + 1 ELSE 0
             p == r.pnl + result
  <2>1. num \in Nat /\ p \in Int
    BY <1>1 DEF StateType
  <2>2. c = [r EXCEPT !.pnl = p, !.losing = num]
    OBVIOUS
  <2> HIDE DEF num, p, c
  <2>3. /\ c \in StateType
        /\ c.day = r.day /\ c.trades = r.trades /\ c.pnl = p
        /\ c.losing = num /\ c.tripped = r.tripped
    BY <1>1, <2>1, <2>2 DEF StateType
  <2> QED
    BY <2>3 DEF num, p
<1> HIDE DEF e, c
<1>5. /\ MaybeTrip(e) \in StateType
      /\ MaybeTrip(e).day = today
      /\ MaybeTrip(e).trades = r.trades + 1
      /\ MaybeTrip(e).pnl = r.pnl
      /\ MaybeTrip(e).losing = r.losing
      /\ r.tripped # "none" => MaybeTrip(e).tripped = r.tripped
      /\ MaybeTrip(e).tripped = "none" =>
            /\ MaybeTrip(e).trades < MaxTrades
            /\ MaybeTrip(e).losing < MaxConsecutive
            /\ ~ (MaybeTrip(e).pnl <= -MaxLoss)
  BY <1>1, <1>3, MaybeTripFacts
<1>6. /\ MaybeTrip(c) \in StateType
      /\ MaybeTrip(c).day = today
      /\ MaybeTrip(c).trades = r.trades
      /\ MaybeTrip(c).pnl = r.pnl + result
      /\ MaybeTrip(c).losing = IF result < 0 THEN r.losing + 1 ELSE 0
      /\ r.tripped # "none" => MaybeTrip(c).tripped = r.tripped
      /\ MaybeTrip(c).tripped = "none" =>
            /\ MaybeTrip(c).trades < MaxTrades
            /\ MaybeTrip(c).losing < MaxConsecutive
            /\ ~ (MaybeTrip(c).pnl <= -MaxLoss)
  BY <1>1, <1>4, MaybeTripFacts
<1> QED
  BY <1>2, <1>5, <1>6 DEF r

\* An open gate means that today's state is not tripped and has room for a
\* trade.
LEMMA OpenGate ==
    ASSUME st \in StateType, today \in Days, BreakerAllows(st)
    PROVE  /\ Rolled(st).tripped = "none"
           /\ Rolled(st).trades < MaxTrades
<1>1. Rolled(st) \in StateType
  BY RolledFacts
<1> QED
  BY <1>1, MaybeTripFacts DEF BreakerAllows

-----------------------------------------------------------------------------
(* The invariant.                                                          *)

\* A day on which nothing happened.
LEMMA EmptyPageType ==
    EmptyPage \in [entries : Nat, pnl : Int, streak : Nat, closed : Nat]
BY DEF EmptyPage

\* Before the first day's entries nothing is stored.
LEMMA InitIInv == Init => IInv
<1> SUFFICES ASSUME Init PROVE IInv
  OBVIOUS
<1>1. TypeOK
  <2>1. today \in Days /\ opened \in [Days -> Nat]
    BY BoundsAssumption DEF Init, Days
  <2>2. <<>> \in Seq([day : Nat, count : Nat])
    OBVIOUS
  <2>3. st \in StateType
    BY <2>2 DEF Init, StateType, Trips
  <2> QED
    BY <2>1, <2>3, EmptyPageType DEF Init, TypeOK
<1>2. BookMatchesPage /\ TradesLeaveRoom
  BY DEF Init, BookMatchesPage, TradesLeaveRoom
<1> QED
  BY <1>1, <1>2 DEF IInv

\* The number of waiting callers.
LEMMA EnteringFinite ==
    ASSUME entering \in SUBSET Callers
    PROVE  /\ Cardinality(Callers) \in Nat
           /\ IsFiniteSet(entering)
           /\ Cardinality(entering) \in Nat
           /\ Cardinality(entering) <= Cardinality(Callers)
BY CallersAssumption, FS_Subset, FS_CardinalityType

\* A caller that passes the gate.
LEMMA PassGateIInv ==
    ASSUME IInv, NEW c \in Callers, PassGate(c)
    PROVE  IInv'
<1> USE DEF IInv, PassGate
<1>1. TypeOK'
  BY DEF TypeOK, StateType
<1>2. BookMatchesPage'
  BY DEF BookMatchesPage, EmptyPage
<1>3. TradesLeaveRoom'
  <2>1. entering' \in SUBSET Callers
    BY <1>1 DEF TypeOK
  <2>2. /\ Cardinality(Callers) \in Nat
        /\ Cardinality(entering') \in Nat
        /\ Cardinality(entering') <= Cardinality(Callers)
    BY <2>1, CallersAssumption, FS_Subset, FS_CardinalityType
  <2>3. st \in StateType /\ today \in Days
    BY DEF TypeOK
  <2>4. st.day = today => st.trades < MaxTrades
    BY <2>3, OpenGate, RolledFacts
  <2>5. st.trades \in Nat /\ MaxTrades \in Nat
    BY <2>3, LimitsAssumption DEF StateType
  <2> QED
    BY <2>2, <2>4, <2>5 DEF TradesLeaveRoom
<1> QED
  BY <1>1, <1>2, <1>3

\* A caller that comes back from the broker.
LEMMA EntryDoneIInv ==
    ASSUME IInv, NEW c \in Callers, EntryDone(c)
    PROVE  IInv'
<1> USE DEF IInv, EntryDone
<1>1. st \in StateType /\ today \in Days /\ page \in [entries : Nat, pnl : Int, streak : Nat, closed : Nat]
  BY DEF TypeOK
<1>2. /\ EntryRecorded(st) \in StateType
      /\ EntryRecorded(st).day = today
      /\ EntryRecorded(st).trades = Rolled(st).trades + 1
      /\ EntryRecorded(st).pnl = Rolled(st).pnl
      /\ EntryRecorded(st).losing = Rolled(st).losing
      /\ Rolled(st).tripped # "none" => EntryRecorded(st).tripped = Rolled(st).tripped
      /\ EntryRecorded(st).tripped = "none" =>
            /\ EntryRecorded(st).trades < MaxTrades
            /\ EntryRecorded(st).losing < MaxConsecutive
            /\ ~ (EntryRecorded(st).pnl <= -MaxLoss)
  BY <1>1, RecordFacts, 0 \in Int
<1>3. /\ Rolled(st).trades = page.entries
      /\ Rolled(st).pnl = page.pnl
      /\ Rolled(st).losing = page.streak
      /\ hit => Rolled(st).tripped # "none"
      /\ st.day = today => Rolled(st).trades = st.trades
      /\ st.day # today => Rolled(st).trades = 0
  BY <1>1, RolledFacts DEF BookMatchesPage, EmptyPage
<1>4. TypeOK'
  BY <1>1, <1>2 DEF TypeOK, Note, Crossed
<1>5. BookMatchesPage'
  <2>1. /\ page'.entries = page.entries + 1
        /\ page'.pnl = page.pnl /\ page'.streak = page.streak
        /\ hit' = (hit \/ Crossed(page'))
    BY <1>1 DEF Note
  <2>2. hit' => EntryRecorded(st).tripped # "none"
    <3>1. ASSUME Crossed(page'), EntryRecorded(st).tripped = "none"
          PROVE  FALSE
      <4>1. /\ page'.entries < MaxTrades
            /\ page'.streak < MaxConsecutive
            /\ ~ (page'.pnl <= -MaxLoss)
        BY <1>2, <1>3, <2>1, <3>1
      <4> HIDE DEF EntryDone
      <4> QED
        BY <1>4, <3>1, <4>1, LimitsAssumption DEF Crossed, TypeOK
    <3> HIDE DEF EntryDone
    <3> QED
      BY <1>2, <1>3, <2>1, <3>1
  <2> QED
    BY <1>2, <1>3, <2>1, <2>2 DEF BookMatchesPage
<1>6. TradesLeaveRoom'
  <2>1. /\ Cardinality(Callers) \in Nat
        /\ IsFiniteSet(entering)
        /\ Cardinality(entering) \in Nat
        /\ Cardinality(entering) <= Cardinality(Callers)
    BY EnteringFinite DEF TypeOK
  <2>2. Cardinality(entering') = Cardinality(entering) - 1
    BY <2>1, FS_RemoveElement
  <2>3. Rolled(st).trades + Cardinality(entering) <= MaxTrades - 1 + Cardinality(Callers)
    <3>1. st.trades \in Nat /\ MaxTrades \in Nat \ {0}
      BY <1>1, LimitsAssumption DEF StateType
    <3> QED
      BY <1>3, <2>1, <3>1 DEF TradesLeaveRoom
  <2>4. Rolled(st).trades \in Nat /\ MaxTrades \in Nat
    BY <1>1, RolledFacts, LimitsAssumption DEF StateType
  <2>5. st'.trades = Rolled(st).trades + 1
    BY <1>2
  <2> QED
    BY <2>1, <2>2, <2>3, <2>4, <2>5 DEF TradesLeaveRoom
<1> QED
  BY <1>4, <1>5, <1>6

\* A caller that is lost, or all of them in a restart.
LEMMA LostIInv ==
    ASSUME IInv, entering' \subseteq entering,
           UNCHANGED <<today, st, page, opened, hit>>
    PROVE  IInv'
<1> USE DEF IInv
<1>1. TypeOK' /\ BookMatchesPage'
  BY DEF TypeOK, StateType, BookMatchesPage, EmptyPage
<1>2. /\ Cardinality(Callers) \in Nat
      /\ IsFiniteSet(entering)
      /\ Cardinality(entering) \in Nat
  BY EnteringFinite DEF TypeOK
<1>3. Cardinality(entering') \in Nat /\ Cardinality(entering') <= Cardinality(entering)
  BY <1>2, FS_Subset, FS_CardinalityType
<1>4. st.trades \in Nat /\ MaxTrades \in Nat
  BY LimitsAssumption DEF TypeOK, StateType
<1>5. TradesLeaveRoom'
  BY <1>2, <1>3, <1>4 DEF TradesLeaveRoom
<1> QED
  BY <1>1, <1>5

\* A closed position that is recorded.
LEMMA PositionClosedIInv ==
    ASSUME IInv, NEW result \in Results, PositionClosed(result)
    PROVE  IInv'
<1> USE DEF IInv, PositionClosed
<1>1. /\ st \in StateType /\ today \in Days /\ result \in Int
      /\ page \in [entries : Nat, pnl : Int, streak : Nat, closed : Nat]
  BY BoundsAssumption DEF TypeOK
<1>2. /\ CloseRecorded(st, result) \in StateType
      /\ CloseRecorded(st, result).day = today
      /\ CloseRecorded(st, result).trades = Rolled(st).trades
      /\ CloseRecorded(st, result).pnl = Rolled(st).pnl + result
      /\ CloseRecorded(st, result).losing = IF result < 0 THEN Rolled(st).losing + 1 ELSE 0
      /\ Rolled(st).tripped # "none" => CloseRecorded(st, result).tripped = Rolled(st).tripped
      /\ CloseRecorded(st, result).tripped = "none" =>
            /\ CloseRecorded(st, result).trades < MaxTrades
            /\ CloseRecorded(st, result).losing < MaxConsecutive
            /\ ~ (CloseRecorded(st, result).pnl <= -MaxLoss)
  BY <1>1, RecordFacts
<1>3. /\ Rolled(st).trades = page.entries
      /\ Rolled(st).pnl = page.pnl
      /\ Rolled(st).losing = page.streak
      /\ hit => Rolled(st).tripped # "none"
      /\ st.day = today => Rolled(st).trades = st.trades
      /\ st.day # today => Rolled(st).trades = 0
  BY <1>1, RolledFacts DEF BookMatchesPage, EmptyPage
<1>4. /\ page'.entries = page.entries
      /\ page'.pnl = page.pnl + result
      /\ page'.streak = IF result < 0 THEN page.streak + 1 ELSE 0
      /\ page' \in [entries : Nat, pnl : Int, streak : Nat, closed : Nat]
      /\ hit' = (hit \/ Crossed(page'))
  <2> DEFINE num == IF result < 0 THEN page.streak + 1 ELSE 0
             p == page.pnl + result
             k == page.closed + 1
  <2>1. num \in Nat /\ p \in Int /\ k \in Nat
    BY <1>1
  <2>2. page' = [page EXCEPT !.pnl = p, !.streak = num, !.closed = k]
    BY DEF Note, ClosedPage
  <2>3. hit' = (hit \/ Crossed(page'))
    BY DEF Note, Crossed
  <2> HIDE DEF num, p, k, PositionClosed
  <2>4. /\ page' \in [entries : Nat, pnl : Int, streak : Nat, closed : Nat]
        /\ page'.entries = page.entries /\ page'.pnl = p /\ page'.streak = num
    BY <1>1, <2>1, <2>2
  <2> QED
    BY <2>3, <2>4 DEF num, p
<1>5. TypeOK'
  BY <1>1, <1>2, <1>4 DEF TypeOK, Note, Crossed
<1>6. BookMatchesPage'
  <2>1. hit' => CloseRecorded(st, result).tripped # "none"
    <3>1. ASSUME Crossed(page'), CloseRecorded(st, result).tripped = "none"
          PROVE  FALSE
      <4> HIDE DEF PositionClosed
      <4>1. /\ page'.entries < MaxTrades
            /\ page'.streak < MaxConsecutive
            /\ ~ (page'.pnl <= -MaxLoss)
        BY <1>2, <1>3, <1>4, <3>1
      <4> QED
        BY <1>4, <3>1, <4>1, LimitsAssumption DEF Crossed
    <3> HIDE DEF PositionClosed
    <3> QED
      BY <1>2, <1>3, <1>4, <3>1
  <2> QED
    BY <1>2, <1>3, <1>4, <2>1 DEF BookMatchesPage
<1>7. TradesLeaveRoom'
  <2>1. /\ Cardinality(Callers) \in Nat
        /\ Cardinality(entering) \in Nat
        /\ Cardinality(entering) <= Cardinality(Callers)
    BY EnteringFinite DEF TypeOK
  <2>2. MaxTrades \in Nat \ {0}
    BY LimitsAssumption
  <2> QED
    BY <1>2, <1>3, <2>1, <2>2 DEF TradesLeaveRoom
<1> QED
  BY <1>5, <1>6, <1>7

\* A new trading day.
LEMMA NextDayIInv == IInv /\ NextDay => IInv'
<1> SUFFICES ASSUME IInv, NextDay PROVE IInv'
  OBVIOUS
<1> USE DEF IInv, NextDay
<1>1. TypeOK'
  <2>1. page \in [entries : Nat, pnl : Int, streak : Nat, closed : Nat]
    BY DEF TypeOK
  <2>2. page.entries \in Nat
    BY <2>1
  <2>3. opened' \in [Days -> Nat]
    BY <2>2 DEF TypeOK
  <2>4. today' \in Days
    BY BoundsAssumption DEF TypeOK, Days
  <2> QED
    BY <2>3, <2>4, EmptyPageType DEF TypeOK
<1>2. st.day < today'
  BY DEF TypeOK, StateType, Days, BookMatchesPage
<1>3. st.day \in Nat /\ today' \in Nat
  BY <1>1 DEF TypeOK, StateType, Days
<1>4. BookMatchesPage' /\ TradesLeaveRoom'
  BY <1>2, <1>3 DEF BookMatchesPage, TradesLeaveRoom, EmptyPage
<1> QED
  BY <1>1, <1>4

\* Every step of the tracker keeps the invariant.
LEMMA NextIInv == IInv /\ [Next]_vars => IInv'
<1> SUFFICES ASSUME IInv, [Next]_vars PROVE IInv'
  OBVIOUS
<1>1. CASE EntrySteps
  <2>1. PICK c \in Callers : PassGate(c) \/ EntryDone(c) \/ EntryLost(c)
    BY <1>1 DEF EntrySteps
  <2>2. CASE EntryLost(c)
    BY <2>2, LostIInv DEF EntryLost
  <2> QED
    BY <2>1, <2>2, PassGateIInv, EntryDoneIInv
<1>2. CASE Restart
  BY <1>2, LostIInv DEF Restart
<1>3. CASE \E result \in Results : PositionClosed(result)
  BY <1>3, PositionClosedIInv
<1>4. CASE NextDay
  BY <1>4, NextDayIInv
<1>5. CASE UNCHANGED vars
  BY <1>5, LostIInv DEF vars
<1> QED
  BY <1>1, <1>2, <1>3, <1>4, <1>5 DEF Next

\* The stored state and today's page agree in every reachable state.
THEOREM SpecIInv == Spec => []IInv
<1> QED
  BY InitIInv, NextIInv, PTL DEF Spec

-----------------------------------------------------------------------------
(* The theorems.                                                           *)

\* Type correctness of the stored state.
THEOREM TypeCorrect == Spec => []TypeOK
<1>1. IInv => TypeOK
  BY DEF IInv
<1> QED
  BY <1>1, SpecIInv, PTL

\* Once a day has crossed a limit the state read back is tripped.
THEOREM HitDayTripped == Spec => []HitDayIsTripped
<1>1. IInv => HitDayIsTripped
  BY RolledFacts DEF IInv, TypeOK, BookMatchesPage, HitDayIsTripped
<1> QED
  BY <1>1, SpecIInv, PTL

\* The trades of a day exceed the limit by less than the number of callers.
THEOREM TradesStayBounded == Spec => []TradesBounded
<1>1. IInv => TradesBounded
  <2> SUFFICES ASSUME IInv PROVE TradesBounded
    OBVIOUS
  <2>1. /\ Cardinality(Callers) \in Nat
        /\ Cardinality(entering) \in Nat
        /\ Cardinality(entering) <= Cardinality(Callers)
    BY EnteringFinite DEF IInv, TypeOK
  <2>2. /\ st.day = today => Rolled(st) = st
        /\ st.day # today => Rolled(st).trades = 0
    BY RolledFacts DEF IInv, TypeOK
  <2>3. MaxTrades \in Nat \ {0}
    BY LimitsAssumption
  <2> QED
    BY <2>1, <2>2, <2>3 DEF IInv, TradesLeaveRoom, TradesBounded
<1> QED
  BY <1>1, SpecIInv, PTL

\* A trip keeps its reason for the rest of the day.
THEOREM TripSticks == Spec => TripIsSticky
<1>1. IInv /\ [Next]_vars =>
         (st.tripped # "none" /\ st'.day = st.day => st'.tripped = st.tripped)
  <2> SUFFICES ASSUME IInv, Next, st.tripped # "none", st'.day = st.day
               PROVE  st'.tripped = st.tripped
    BY DEF vars
  <2>1. st \in StateType /\ today \in Days
    BY DEF IInv, TypeOK
  <2>2. ASSUME NEW c \in Callers, EntryDone(c)
        PROVE  st'.tripped = st.tripped
    <3>1. st' = EntryRecorded(st)
      BY <2>2 DEF EntryDone
    <3>2. st'.day = today /\ (Rolled(st).tripped # "none" => st'.tripped = Rolled(st).tripped)
      BY <2>1, <3>1, RecordFacts, 0 \in Int
    <3> QED
      BY <2>1, <3>2, RolledFacts
  <2>3. ASSUME NEW result \in Results, PositionClosed(result)
        PROVE  st'.tripped = st.tripped
    <3>1. st' = CloseRecorded(st, result) /\ result \in Int
      BY <2>3, BoundsAssumption DEF PositionClosed
    <3>2. st'.day = today /\ (Rolled(st).tripped # "none" => st'.tripped = Rolled(st).tripped)
      BY <2>1, <3>1, RecordFacts
    <3> QED
      BY <2>1, <3>2, RolledFacts
  <2>4. \/ \E c \in Callers : EntryDone(c)
        \/ \E result \in Results : PositionClosed(result)
        \/ UNCHANGED st
    BY DEF Next, EntrySteps, PassGate, EntryLost, Restart, NextDay
  <2> QED
    BY <2>2, <2>3, <2>4
<1> QED
  BY <1>1, SpecIInv, PTL DEF Spec, TripIsSticky

\* No entry passes the gate on a day that has crossed a limit.
THEOREM HitDayTakesNoEntry == Spec => NoEntryOnAHitDay
<1>1. IInv /\ [Next]_vars => (entering' \subseteq entering \/ ~ hit)
  <2> SUFFICES ASSUME IInv, Next, hit
               PROVE  entering' \subseteq entering
    BY DEF vars
  <2>1. st \in StateType /\ today \in Days
    BY DEF IInv, TypeOK
  <2>2. Rolled(st).tripped # "none"
    BY <2>1, RolledFacts DEF IInv, BookMatchesPage
  <2>3. ASSUME NEW c \in Callers, PassGate(c)
        PROVE  FALSE
    BY <2>1, <2>2, <2>3, OpenGate DEF PassGate
  <2> QED
    BY <2>3 DEF Next, EntrySteps, EntryDone, EntryLost, Restart, PositionClosed, NextDay
<1> QED
  BY <1>1, SpecIInv, PTL DEF Spec, NoEntryOnAHitDay

-----------------------------------------------------------------------------
(* The archive of the last days.                                           *)

\* A list of days before d, in order: none with an entry is missing, unless
\* five later ones are listed.
Archive(seq, d) ==
    /\ Len(seq) <= 5
    /\ \A i \in 1..Len(seq) : /\ seq[i].day \in Days /\ seq[i].day < d
                              /\ seq[i].count = opened[seq[i].day]
    /\ \A i, j \in 1..Len(seq) : i < j => seq[i].day < seq[j].day
    /\ \A e \in Days : e < d /\ opened[e] > 0 =>
          \/ \E i \in 1..Len(seq) : seq[i].day = e
          \/ Len(seq) = 5 /\ e < seq[1].day

\* The stored state archives the days before its own; its own, if it is over,
\* is still to be archived, and nothing was recorded since.
ArchiveInv ==
    /\ Archive(st.recent, st.day)
    /\ st.day # today /\ st.day # 0 => opened[st.day] = st.trades
    /\ \A e \in Days : e > st.day \/ e = today => opened[e] = 0

Record == [day : Nat, count : Nat]

\* The last five of a list of at most six.
LEMMA LastFive ==
    ASSUME NEW seq \in Seq(Record), Len(seq) <= 6
    PROVE  /\ Len(seq) <= 5 => Last(seq, 5) = seq
           /\ Len(seq) = 6 => /\ Len(Last(seq, 5)) = 5
                              /\ \A i \in 1..5 : Last(seq, 5)[i] = seq[i + 1]
<1>1. Len(seq) \in Nat
  BY LenProperties
<1>2. CASE Len(seq) <= 5
  <2>1. Last(seq, 5) = SubSeq(seq, 1, Len(seq))
    <3>1. (IF Len(seq) > 5 THEN Len(seq) - 5 + 1 ELSE 1) = 1
      BY <1>1, <1>2
    <3> QED BY <3>1 DEF Last
  <2>2. SubSeq(seq, 1, Len(seq)) = seq
    BY <1>1
  <2> QED BY <1>2, <2>1, <2>2
<1>3. CASE Len(seq) = 6
  <2>1. Last(seq, 5) = SubSeq(seq, 2, 6)
    BY <1>3 DEF Last
  <2>2. Len(SubSeq(seq, 2, 6)) = 5 /\ \A i \in 1..5 : SubSeq(seq, 2, 6)[i] = seq[i + 1]
    BY <1>3
  <2> QED BY <1>3, <2>1, <2>2
<1> QED
  BY <1>1, <1>2, <1>3

\* Rolling the state to today archives the day it was of.
LEMMA RolledArchive ==
    ASSUME IInv, ArchiveInv
    PROVE  Archive(Rolled(st).recent, today)
<1>1. /\ st \in StateType /\ today \in Days /\ opened \in [Days -> Nat]
      /\ st.recent \in Seq(Record) /\ st.day \in Nat /\ st.trades \in Nat
      /\ today \in Nat /\ LastDay \in Nat
  BY BoundsAssumption DEF IInv, TypeOK, StateType, Record, Days
<1>2. CASE st.day = today
  BY <1>2 DEF Rolled, ArchiveInv
<1>3. CASE st.day # today
  <2>1. st.day < today
    BY <1>3 DEF IInv, BookMatchesPage
  <2> DEFINE recorded == [day |-> st.day, count |-> st.trades]
             seq == IF st.day # 0 /\ st.trades > 0 THEN Append(st.recent, recorded)
                    ELSE st.recent
  <2>2. Rolled(st).recent = Last(seq, 5)
    BY <1>3 DEF Rolled
  <2>3. CASE ~ (st.day # 0 /\ st.trades > 0)
    <3>1. seq = st.recent /\ Len(st.recent) <= 5
      BY <2>3 DEF ArchiveInv, Archive
    <3>2. Last(seq, 5) = st.recent
      BY <1>1, <3>1, LastFive
    <3>3. \A e \in Days : e < today /\ opened[e] > 0 => e < st.day
      BY <1>1, <1>3, <2>3 DEF ArchiveInv, Days
    <3>4. \A i \in 1..Len(st.recent) : st.recent[i].day < today
      <4> SUFFICES ASSUME NEW i \in 1..Len(st.recent) PROVE st.recent[i].day < today
        OBVIOUS
      <4>1. st.recent[i].day \in Nat /\ st.recent[i].day < st.day
        BY <1>1 DEF ArchiveInv, Archive, Days
      <4> QED BY <1>1, <2>1, <4>1
    <3>5. Archive(st.recent, today)
      BY <3>3, <3>4 DEF ArchiveInv, Archive
    <3> QED BY <2>2, <3>2, <3>5
  <2>4. CASE st.day # 0 /\ st.trades > 0
    <3> DEFINE old == st.recent
               num == Len(old)
    <3>1. /\ recorded \in Record /\ num \in Nat /\ num <= 5
          /\ seq = Append(old, recorded)
      BY <1>1, <2>4, LenProperties DEF ArchiveInv, Archive, Record
    <3>2. /\ seq \in Seq(Record) /\ Len(seq) = num + 1
          /\ \A i \in 1..num : seq[i] = old[i]
          /\ seq[num + 1] = recorded
      BY <1>1, <3>1, AppendProperties
    <3>3. st.day \in Days /\ opened[st.day] = st.trades
      BY <1>1, <1>3, <2>1, <2>4 DEF ArchiveInv, Days
    <3>4. /\ recorded.day = st.day /\ recorded.count = st.trades
      OBVIOUS
    <3> HIDE DEF recorded, seq
    <3>5. \A i \in 1..Len(seq) : /\ seq[i].day \in Days /\ seq[i].day < today
                                 /\ seq[i].count = opened[seq[i].day]
      <4> SUFFICES ASSUME NEW i \in 1..(num + 1)
                   PROVE  /\ seq[i].day \in Days /\ seq[i].day < today
                          /\ seq[i].count = opened[seq[i].day]
        BY <3>2
      <4>1. CASE i \in 1..num
        <5>1. old[i].day \in Days /\ old[i].day < st.day /\ old[i].count = opened[old[i].day]
          BY <4>1 DEF ArchiveInv, Archive
        <5>2. old[i].day \in Nat
          BY <1>1, <5>1 DEF Days
        <5>3. old[i].day < today
          BY <1>1, <2>1, <5>1, <5>2
        <5>4. seq[i] = old[i]
          BY <3>2, <4>1
        <5> QED BY <5>1, <5>3, <5>4
      <4>2. CASE i = num + 1
        BY <2>1, <3>2, <3>3, <3>4, <4>2
      <4> QED BY <3>1, <4>1, <4>2
    <3>6. \A i, j \in 1..Len(seq) : i < j => seq[i].day < seq[j].day
      <4> SUFFICES ASSUME NEW i \in 1..(num + 1), NEW j \in 1..(num + 1), i < j
                   PROVE  seq[i].day < seq[j].day
        BY <3>2
      <4>1. i \in 1..num /\ seq[i] = old[i] /\ old[i].day < st.day
        BY <3>1, <3>2 DEF ArchiveInv, Archive
      <4>2. CASE j \in 1..num
        BY <3>2, <4>1, <4>2 DEF ArchiveInv, Archive
      <4>3. CASE j = num + 1
        BY <3>2, <3>4, <4>1, <4>3
      <4> QED BY <3>1, <4>2, <4>3
    <3>7. \A e \in Days : e < today /\ opened[e] > 0 =>
             \/ \E i \in 1..Len(seq) : seq[i].day = e
             \/ num = 5 /\ e < seq[1].day
      <4> SUFFICES ASSUME NEW e \in Days, e < today, opened[e] > 0
                   PROVE  \/ \E i \in 1..Len(seq) : seq[i].day = e
                          \/ num = 5 /\ e < seq[1].day
        OBVIOUS
      <4>1. e \in Nat /\ (e < st.day \/ e = st.day)
        BY <1>1 DEF ArchiveInv, Days
      <4>2. CASE e = st.day
        <5>1. num + 1 \in 1..Len(seq)
          BY <3>1, <3>2
        <5> QED BY <3>2, <3>4, <4>2, <5>1
      <4>3. CASE e < st.day
        <5>1. (\E i \in 1..num : old[i].day = e) \/ (num = 5 /\ e < old[1].day)
          BY <4>3 DEF ArchiveInv, Archive
        <5>2. \A i \in 1..num : i \in 1..Len(seq) /\ seq[i] = old[i]
          BY <3>1, <3>2
        <5> QED BY <5>1, <5>2
      <4> QED BY <4>1, <4>2, <4>3
    <3>8. CASE num <= 4
      <4>1. Last(seq, 5) = seq /\ Len(seq) <= 5
        <5>1. seq \in Seq(Record) /\ Len(seq) <= 5 /\ Len(seq) <= 6
          BY <3>1, <3>2, <3>8
        <5> QED BY <5>1, LastFive
      <4>2. num # 5
        <5> HIDE DEF num
        <5> QED BY <3>8
      <4>3. Archive(seq, today)
        BY <3>5, <3>6, <3>7, <4>1, <4>2 DEF Archive
      <4> QED BY <2>2, <4>1, <4>3 DEF seq
    <3>9. CASE num = 5
      <4>1. Len(seq) = 6
        BY <3>2, <3>9
      <4>2. PICK five : five = Last(seq, 5)
        OBVIOUS
      <4>3. Len(five) = 5 /\ \A i \in 1..5 : five[i] = seq[i + 1]
        <5>1. seq \in Seq(Record)
          BY <3>2
        <5>2. Len(seq) <= 6
          BY <4>1
        <5> QED BY <4>1, <4>2, <5>1, <5>2, LastFive
      <4>4. \A i \in 1..5 : i + 1 \in 1..Len(seq)
        BY <4>1
      <4>5. \A i \in 1..5 : /\ five[i].day \in Days /\ five[i].day < today
                            /\ five[i].count = opened[five[i].day]
        BY <3>5, <4>3, <4>4
      <4>6. \A i, j \in 1..5 : i < j => five[i].day < five[j].day
        BY <3>6, <4>3, <4>4
      <4>7. ASSUME NEW e \in Days, e < today, opened[e] > 0
            PROVE  (\E i \in 1..5 : five[i].day = e) \/ e < five[1].day
        <5>1. five[1] = seq[2] /\ seq[1].day < seq[2].day /\ seq[1].day \in Days
              /\ seq[2].day \in Days
          BY <3>5, <3>6, <4>1, <4>3
        <5>2. CASE e < seq[1].day
          BY <1>1, <5>1, <5>2 DEF Days
        <5>3. ASSUME NEW i \in 1..Len(seq), seq[i].day = e
              PROVE  (\E k \in 1..5 : five[k].day = e) \/ e < five[1].day
          <6>1. CASE i = 1
            BY <5>1, <5>3, <6>1
          <6>2. CASE i # 1
            <7>1. i - 1 \in 1..5 /\ five[i - 1] = seq[i]
              BY <4>1, <4>3, <6>2
            <7> QED BY <5>3, <7>1
          <6> QED BY <6>1, <6>2
        <5> QED BY <3>7, <4>7, <5>2, <5>3
      <4>8. Archive(five, today)
        BY <4>3, <4>5, <4>6, <4>7 DEF Archive
      <4> QED BY <2>2, <4>2, <4>8
    <3>10. num <= 4 \/ num = 5
      <4> HIDE DEF num, old
      <4> QED BY <3>1
    <3> QED BY <3>8, <3>9, <3>10
  <2> QED BY <2>3, <2>4
<1> QED
  BY <1>2, <1>3

\* The hooks change the archive by rolling alone.
LEMMA RecordsKeepArchive ==
    ASSUME st \in StateType, today \in Days, NEW result \in Int
    PROVE  /\ EntryRecorded(st).recent = Rolled(st).recent
           /\ CloseRecorded(st, result).recent = Rolled(st).recent
<1> DEFINE r == Rolled(st)
           num == IF result < 0 THEN r.losing + 1 ELSE 0
<1>1. r \in StateType
  BY RolledFacts
<1>2. ASSUME NEW s \in StateType PROVE MaybeTrip(s).recent = s.recent
  BY <1>2 DEF MaybeTrip, StateType
<1> HIDE DEF r
<1>3. r.trades + 1 \in Nat /\ r.pnl + result \in Int /\ num \in Nat
  BY <1>1 DEF StateType
<1>4. PICK e : e = [r EXCEPT !.trades = @ + 1]
  OBVIOUS
<1>5. e \in StateType /\ e.recent = r.recent
  BY <1>1, <1>3, <1>4 DEF StateType
<1>6. PICK c : c = [r EXCEPT !.pnl = @ + result, !.losing = IF result < 0 THEN @ + 1 ELSE 0]
  OBVIOUS
<1>7. c = [[r EXCEPT !.pnl = r.pnl + result] EXCEPT !.losing = num]
  BY <1>1, <1>6 DEF StateType
<1>8. c \in StateType /\ c.recent = r.recent
  <2> HIDE DEF num
  <2>1. PICK d : d = [r EXCEPT !.pnl = r.pnl + result]
    OBVIOUS
  <2>2. d \in StateType /\ d.recent = r.recent
    BY <1>1, <1>3, <2>1 DEF StateType
  <2>3. c = [d EXCEPT !.losing = num]
    BY <1>7, <2>1
  <2> QED BY <1>3, <2>2, <2>3 DEF StateType
<1>9. EntryRecorded(st) = MaybeTrip(e) /\ CloseRecorded(st, result) = MaybeTrip(c)
  BY <1>4, <1>6 DEF EntryRecorded, CloseRecorded, r
<1> QED
  BY <1>2, <1>5, <1>8, <1>9 DEF r

\* What a hook saves is today's archive.
LEMMA SavedArchive ==
    ASSUME IInv, ArchiveInv, UNCHANGED <<today, opened>>,
           st'.recent = Rolled(st).recent, st'.day = today
    PROVE  ArchiveInv'
<1>1. Archive(Rolled(st).recent, today)
  BY RolledArchive
<1>2. Archive(st.recent, st.day)'
  BY <1>1 DEF Archive
<1>3. today \in Nat /\ st.day \in Nat /\ (st.day = today \/ st.day < today)
  BY DEF IInv, TypeOK, StateType, Days, BookMatchesPage
<1>4. \A e \in Days : e > today \/ e = today => opened[e] = 0
  BY <1>3 DEF ArchiveInv, Days
<1> QED
  BY <1>2, <1>4 DEF ArchiveInv

LEMMA NextDayArchive ==
    ASSUME IInv, ArchiveInv, NextDay
    PROVE  ArchiveInv'
<1>1. /\ today \in Days /\ opened \in [Days -> Nat] /\ st.day \in Nat /\ LastDay \in Nat
      /\ today \in Nat /\ page.entries \in Nat /\ (st.day = today \/ st.day < today)
      /\ \A e \in Days : e \in Nat
  BY BoundsAssumption DEF IInv, TypeOK, StateType, Days, BookMatchesPage
<1>2. /\ today' = today + 1 /\ UNCHANGED st
      /\ opened' = [opened EXCEPT ![today] = page.entries]
  BY DEF NextDay
<1>3. /\ opened'[today] = page.entries
      /\ \A e \in Days : e # today => opened'[e] = opened[e]
  BY <1>1, <1>2
<1>4. \A e \in Days : e < st.day => opened'[e] = opened[e]
  BY <1>1, <1>3
<1>5. Archive(st.recent, st.day)'
  BY <1>2, <1>4 DEF ArchiveInv, Archive
<1>6. st.day # 0 => opened'[st.day] = st.trades
  <2>1. CASE st.day = today
    BY <1>3, <2>1 DEF IInv, BookMatchesPage
  <2>2. CASE st.day # today /\ st.day # 0
    <3>1. st.day \in Days
      BY <1>1, <2>2 DEF Days
    <3> QED BY <1>3, <2>2, <3>1 DEF ArchiveInv
  <2> QED BY <2>1, <2>2
<1>7. ASSUME NEW e \in Days, e > st.day \/ e = today + 1
      PROVE  opened'[e] = 0
  <2>1. CASE e = today
    <3>1. st.day # today
      BY <1>1, <1>7, <2>1
    <3> QED BY <1>3, <2>1, <3>1 DEF IInv, BookMatchesPage, EmptyPage
  <2>2. CASE e # today
    <3>1. e > st.day
      BY <1>1, <1>7
    <3> QED BY <1>3, <2>2, <3>1 DEF ArchiveInv
  <2> QED BY <2>1, <2>2
<1> QED
  BY <1>2, <1>5, <1>6, <1>7 DEF ArchiveInv

LEMMA InitArchive == Init => ArchiveInv
<1> SUFFICES ASSUME Init PROVE ArchiveInv
  OBVIOUS
<1>1. st.recent = <<>> /\ st.day = 0 /\ opened = [d \in Days |-> 0]
  BY DEF Init
<1>2. Archive(<<>>, 0)
  BY <1>1 DEF Archive, Days
<1> QED
  BY <1>1, <1>2 DEF ArchiveInv

LEMMA NextArchive == IInv /\ ArchiveInv /\ [Next]_vars => ArchiveInv'
<1> SUFFICES ASSUME IInv, ArchiveInv, [Next]_vars PROVE ArchiveInv'
  OBVIOUS
<1>1. st \in StateType /\ today \in Days
  BY DEF IInv, TypeOK
<1>2. ASSUME NEW c \in Callers, EntryDone(c) PROVE ArchiveInv'
  <2>1. st' = EntryRecorded(st) /\ UNCHANGED <<today, opened>>
    BY <1>2 DEF EntryDone, Note
  <2>2. st'.recent = Rolled(st).recent /\ st'.day = today
    BY <1>1, <2>1, RecordFacts, RecordsKeepArchive, 0 \in Int
  <2> QED BY <2>1, <2>2, SavedArchive
<1>3. ASSUME NEW result \in Results, PositionClosed(result) PROVE ArchiveInv'
  <2>1. st' = CloseRecorded(st, result) /\ UNCHANGED <<today, opened>> /\ result \in Int
    BY <1>3, BoundsAssumption DEF PositionClosed, Note
  <2>2. st'.recent = Rolled(st).recent /\ st'.day = today
    BY <1>1, <2>1, RecordFacts, RecordsKeepArchive
  <2> QED BY <2>1, <2>2, SavedArchive
<1>4. CASE NextDay
  BY <1>4, NextDayArchive
<1>5. CASE UNCHANGED <<st, today, opened>>
  BY <1>5 DEF ArchiveInv, Archive
<1>6. \/ \E c \in Callers : EntryDone(c)
      \/ \E result \in Results : PositionClosed(result)
      \/ NextDay
      \/ UNCHANGED <<st, today, opened>>
  BY DEF Next, EntrySteps, PassGate, EntryLost, Restart, vars
<1> QED
  BY <1>2, <1>3, <1>4, <1>5, <1>6

\* The last j days of the archive are those of the last k days.
Matched(seq, k, j) ==
    /\ j \in 0..k /\ j <= Len(seq)
    /\ \A i \in 1..Len(seq) : i > Len(seq) - j <=> seq[i].day >= today - k

\* One day further back: it is the next of the archive or had no entry.
LEMMA MatchedFurther ==
    ASSUME TypeOK, NEW seq \in Seq(Record), Archive(seq, today),
           NEW k \in 0..3, NEW j \in 0..3, Matched(seq, k, j)
    PROVE  \/ Matched(seq, k + 1, j) /\ OpenedBefore(k + 1) = 0
           \/ Matched(seq, k + 1, j + 1) /\ OpenedBefore(k + 1) = CountBack(seq, j)
<1> DEFINE num == Len(seq)
           e == today - (k + 1)
<1>1. /\ today \in Nat /\ opened \in [Days -> Nat] /\ num \in Nat /\ e \in Int
      /\ j \in 0..k /\ j <= num
      /\ \A d \in Days : d \in Nat
  BY LenProperties DEF TypeOK, Days, Matched
<1>2. \A i \in 1..num : seq[i].day \in Nat /\ seq[i].day \in Days
  BY <1>1 DEF Archive
<1>3. \A i \in 1..num : i > num - j <=> seq[i].day >= today - k
  BY DEF Matched
<1>4. \A h, i \in 1..num : h < i => seq[h].day < seq[i].day
  BY DEF Archive
<1>5. OpenedBefore(k + 1) = IF e \in Days THEN opened[e] ELSE 0
  BY DEF OpenedBefore
<1> HIDE DEF num, e
<1>6. \A d \in Nat : d >= today - (k + 1) <=> d >= today - k \/ d = e
  BY <1>1 DEF e
<1>7. \A d \in Nat : d = e => ~ (d >= today - k)
  BY <1>1 DEF e
<1>8. ASSUME NEW i \in 1..num, seq[i].day = e
      PROVE  Matched(seq, k + 1, j + 1) /\ OpenedBefore(k + 1) = CountBack(seq, j)
  <2>1. ~ (i > num - j)
    BY <1>2, <1>3, <1>7, <1>8
  <2>2. i = num - j
    <3>1. SUFFICES ASSUME i < num - j PROVE FALSE
      BY <1>1, <2>1
    <3>2. i + 1 \in 1..num /\ ~ (i + 1 > num - j) /\ i < i + 1
      BY <1>1, <3>1
    <3>3. seq[i].day < seq[i + 1].day
      BY <1>4, <3>2
    <3>4. seq[i + 1].day >= today - k
      BY <1>1, <1>2, <1>8, <3>2, <3>3 DEF e
    <3> QED BY <1>3, <3>2, <3>4
  <2>3. j + 1 \in 0..(k + 1) /\ j + 1 <= num
    BY <1>1, <2>2
  <2>4. ASSUME NEW h \in 1..num
        PROVE  h > num - (j + 1) <=> seq[h].day >= today - (k + 1)
    <3>1. h > num - (j + 1) <=> h > num - j \/ h = i
      BY <1>1, <2>2
    <3>2. h = i <=> seq[h].day = e
      <4>1. CASE h < i
        BY <1>2, <1>4, <1>8, <4>1
      <4>2. CASE i < h
        BY <1>2, <1>4, <1>8, <4>2
      <4> QED BY <1>8, <4>1, <4>2
    <3> QED BY <1>2, <1>3, <1>6, <3>1, <3>2
  <2>5. Matched(seq, k + 1, j + 1)
    BY <2>3, <2>4 DEF Matched, num
  <2>6. seq[i].count = opened[e] /\ e \in Days
    BY <1>2, <1>8 DEF Archive, num
  <2>7. CountBack(seq, j) = seq[num - j].count
    BY <1>1, <2>2 DEF CountBack, num
  <2> QED BY <1>5, <2>2, <2>5, <2>6, <2>7
<1>9. ASSUME \A i \in 1..num : seq[i].day # e
      PROVE  Matched(seq, k + 1, j) /\ OpenedBefore(k + 1) = 0
  <2>1. \A i \in 1..num : i > num - j <=> seq[i].day >= today - (k + 1)
    BY <1>2, <1>3, <1>6, <1>9
  <2>2. Matched(seq, k + 1, j)
    BY <1>1, <2>1 DEF Matched, num
  <2>3. ASSUME e \in Days, opened[e] > 0 PROVE FALSE
    <3>1. e < today
      BY <1>1 DEF e
    <3>2. num = 5 /\ e < seq[1].day
      BY <1>9, <2>3, <3>1 DEF Archive, num
    <3>3. 1 \in 1..num /\ ~ (1 > num - j)
      BY <1>1, <3>2
    <3>4. ~ (seq[1].day >= today - k)
      BY <1>3, <3>3
    <3>5. seq[1].day \in Nat
      BY <1>2, <3>3
    <3> QED BY <1>1, <3>2, <3>4, <3>5 DEF e
  <2>4. OpenedBefore(k + 1) = 0
    BY <1>1, <1>5, <2>3
  <2> QED BY <2>2, <2>4
<1> QED
  BY <1>8, <1>9

\* However the days of the trades lie among days on which the state was never
\* saved, the count that guards the pattern day trader rule has every entry of
\* the last five trading days: the archive of five covers the four before today.
THEOREM PdtCountIsWhole == Spec => []PdtNeverUndercounts
<1>1. ASSUME IInv, ArchiveInv PROVE PdtNeverUndercounts
  <2> DEFINE r == Rolled(st)
  <2>1. /\ r \in StateType /\ TypeOK /\ Archive(r.recent, today)
    BY <1>1, RolledArchive, RolledFacts DEF IInv, TypeOK
  <2>2. r.trades = page.entries /\ page.entries \in Nat
    BY <1>1, RolledFacts DEF IInv, TypeOK, BookMatchesPage, EmptyPage
  <2> HIDE DEF r
  <2>3. r.recent \in Seq(Record) /\ Len(r.recent) \in Nat
    BY <2>1, LenProperties DEF StateType, Record
  <2>4. \A k \in 0..3 : CountBack(r.recent, k) \in Nat
    <3> SUFFICES ASSUME NEW k \in 0..3 PROVE CountBack(r.recent, k) \in Nat
      OBVIOUS
    <3>1. CASE k < Len(r.recent)
      <4>1. Len(r.recent) - k \in 1..Len(r.recent)
        BY <2>3, <3>1
      <4>2. r.recent[Len(r.recent) - k] \in Record
        BY <2>3, <4>1, ElementOfSeq
      <4> QED BY <3>1, <4>2 DEF CountBack, Record
    <3>2. CASE ~ (k < Len(r.recent))
      BY <3>2 DEF CountBack
    <3> QED BY <3>1, <3>2
  <2>5. Matched(r.recent, 0, 0)
    <3>1. \A i \in 1..Len(r.recent) : ~ (i > Len(r.recent) - 0)
      BY <2>3
    <3>2. \A i \in 1..Len(r.recent) : ~ (r.recent[i].day >= today - 0)
      <4> SUFFICES ASSUME NEW i \in 1..Len(r.recent)
                   PROVE  ~ (r.recent[i].day >= today - 0)
        OBVIOUS
      <4>1. r.recent[i].day \in Nat /\ r.recent[i].day < today /\ today \in Nat
        BY <2>1 DEF Archive, TypeOK, Days
      <4> QED BY <4>1
    <3> QED BY <2>3, <3>1, <3>2 DEF Matched
  <2>6. ASSUME NEW k \in 0..3, NEW j \in 0..3, Matched(r.recent, k, j)
        PROVE  \/ Matched(r.recent, k + 1, j) /\ OpenedBefore(k + 1) = 0
               \/ Matched(r.recent, k + 1, j + 1)
                  /\ OpenedBefore(k + 1) = CountBack(r.recent, j)
    BY <2>1, <2>3, <2>6, MatchedFurther
  <2> DEFINE B(k) == CountBack(r.recent, k)
             O(k) == OpenedBefore(k)
             M(k, j) == Matched(r.recent, k, j)
  <2>7. \/ M(1, 0) /\ O(1) = 0
        \/ M(1, 1) /\ O(1) = B(0)
    BY <2>5, <2>6
  <2>8. \/ M(2, 0) /\ O(1) + O(2) = 0
        \/ M(2, 1) /\ O(1) + O(2) = B(0)
        \/ M(2, 2) /\ O(1) + O(2) = B(0) + B(1)
    <3>1. \A j \in 0..1 : M(1, j) => (M(2, j) /\ O(2) = 0) \/ (M(2, j + 1) /\ O(2) = B(j))
      BY <2>6
    <3> HIDE DEF B, O, M
    <3>2. /\ M(1, 0) => (M(2, 0) /\ O(2) = 0) \/ (M(2, 1) /\ O(2) = B(0))
          /\ M(1, 1) => (M(2, 1) /\ O(2) = 0) \/ (M(2, 2) /\ O(2) = B(1))
      BY <3>1
    <3>3. B(0) \in Nat /\ B(1) \in Nat
      BY <2>4 DEF B
    <3> QED BY <2>7, <3>2, <3>3
  <2>9. \/ M(3, 0) /\ O(1) + O(2) + O(3) = 0
        \/ M(3, 1) /\ O(1) + O(2) + O(3) = B(0)
        \/ M(3, 2) /\ O(1) + O(2) + O(3) = B(0) + B(1)
        \/ M(3, 3) /\ O(1) + O(2) + O(3) = B(0) + B(1) + B(2)
    <3>1. \A j \in 0..2 : M(2, j) => (M(3, j) /\ O(3) = 0) \/ (M(3, j + 1) /\ O(3) = B(j))
      BY <2>6
    <3> HIDE DEF B, O, M
    <3>2. /\ M(2, 0) => (M(3, 0) /\ O(3) = 0) \/ (M(3, 1) /\ O(3) = B(0))
          /\ M(2, 1) => (M(3, 1) /\ O(3) = 0) \/ (M(3, 2) /\ O(3) = B(1))
          /\ M(2, 2) => (M(3, 2) /\ O(3) = 0) \/ (M(3, 3) /\ O(3) = B(2))
      BY <3>1
    <3>3. B(0) \in Nat /\ B(1) \in Nat /\ B(2) \in Nat
      BY <2>4 DEF B
    <3> QED BY <2>8, <3>2, <3>3
  <2>10. O(1) + O(2) + O(3) + O(4) <= B(0) + B(1) + B(2) + B(3)
    <3>1. \A j \in 0..3 : M(3, j) => O(4) = 0 \/ O(4) = B(j)
      BY <2>6
    <3> HIDE DEF B, O, M
    <3>2. /\ M(3, 0) => O(4) = 0 \/ O(4) = B(0)
          /\ M(3, 1) => O(4) = 0 \/ O(4) = B(1)
          /\ M(3, 2) => O(4) = 0 \/ O(4) = B(2)
          /\ M(3, 3) => O(4) = 0 \/ O(4) = B(3)
      BY <3>1
    <3>3. B(0) \in Nat /\ B(1) \in Nat /\ B(2) \in Nat /\ B(3) \in Nat
      BY <2>4 DEF B
    <3> QED BY <2>9, <3>2, <3>3
  <2>11. \A k \in 1..4 : O(k) \in Nat
    BY <2>1 DEF OpenedBefore, TypeOK, Days
  <2>12. PdtUsed(r) = r.trades + B(0) + B(1) + B(2) + B(3)
    BY DEF PdtUsed
  <2>13. PdtUsed(r) >= page.entries + O(1) + O(2) + O(3) + O(4)
    <3>1. B(0) \in Nat /\ B(1) \in Nat /\ B(2) \in Nat /\ B(3) \in Nat
      BY <2>4
    <3>2. O(1) \in Nat /\ O(2) \in Nat /\ O(3) \in Nat /\ O(4) \in Nat
      BY <2>11
    <3> HIDE DEF B, O, M
    <3> QED BY <2>2, <2>10, <2>12, <3>1, <3>2
  <2> QED BY <2>13 DEF PdtNeverUndercounts, r
<1>2. Init => IInv /\ ArchiveInv
  BY InitIInv, InitArchive
<1>3. IInv /\ ArchiveInv /\ [Next]_vars => IInv' /\ ArchiveInv'
  BY NextIInv, NextArchive
<1> QED
  BY <1>1, <1>2, <1>3, PTL DEF Spec

-----------------------------------------------------------------------------
(* The broker reality gate.  A position that a report accounts for is on a  *)
(* symbol with a row or makes the report block.                             *)

Bracket == [setup : Setups \cup {ByHand}, symbol : Symbols \cup {""},
            leg : {"none", "held", "working", "filled", "gone"},
            stop : {"none", "working", "filled", "gone"}, row : RowStates, stopRow : RowStates]

StatusOf == {Waiting, "RECONCILING", "ENTRY_ORDER_PLACED", "IN_POSITION",
             "MANUAL_REVIEW_REQUIRED"} \cup Final

RunType == [at : {"idle", "positions", "orders", "account"}, held : SUBSET (Symbols \cup {""}),
            entries : SUBSET [order : Entries, working : BOOLEAN], stops : SUBSET Entries,
            filled : SUBSET Entries, lost : BOOLEAN]
ReportType == [saved : BOOLEAN, connected : BOOLEAN, blocked : BOOLEAN,
               age : 0..(StaleAfter + 1), filled : SUBSET Entries, lost : BOOLEAN]

\* An entry a setup began is on its symbol, one by hand is a position from the
\* start, one that has not begun is nothing.
Owned(e) ==
  /\ e > n => entry[e].leg = "none"
  /\ entry[e].setup = ByHand => entry[e].leg \in {"none", "filled"}
  /\ entry[e].setup # ByHand => entry[e].symbol = Symbol(entry[e].setup)

\* While a run keeps its connection, the positions it has read hold every
\* position bought by hand.
ReadsAll ==
  /\ run.at # "idle" /\ ~ run.lost => connected
  /\ run.at \in {"orders", "account"} /\ ~ run.lost =>
       \A e \in Entries : Open(e) /\ entry[e].setup = ByHand => entry[e].symbol \in run.held
  /\ \A e \in Entries : e \in run.filled \cup report.filled => entry[e].leg = "filled"

\* A report that does not block accounts for positions with a row only.
ReportSound ==
  report.saved /\ report.connected /\ ~ report.lost /\ ~ report.blocked =>
    \A e \in Entries : e \in report.filled /\ Open(e) => entry[e].symbol \in pos

GateIInv == GTypeOK /\ (\A e \in Entries : Owned(e)) /\ ReadsAll /\ ReportSound


-----------------------------------------------------------------------------
LEMMA Bounds ==
  /\ MaxEntries \in Nat \ {0} /\ MaxDrops \in Nat /\ MaxAsked \in Nat /\ MaxOpen \in Nat
  /\ StaleAfter \in Nat
BY GateBoundsAssumption

LEMMA GateTypes ==
  GTypeOK <=>
    /\ connected \in BOOLEAN /\ drops \in 0..MaxDrops /\ asked \in 0..MaxAsked /\ n \in 0..MaxEntries
    /\ session \subseteq Entries /\ entry \in [Entries -> Bracket]
    /\ status \in [Setups -> StatusOf] /\ pos \subseteq Symbols
    /\ run \in RunType /\ report \in ReportType
BY Zenon DEF GTypeOK, Bracket, StatusOf, RunType, ReportType

LEMMA GateTypesNext ==
  GTypeOK' <=>
    /\ connected' \in BOOLEAN /\ drops' \in 0..MaxDrops /\ asked' \in 0..MaxAsked
    /\ n' \in 0..MaxEntries
    /\ session' \subseteq Entries /\ entry' \in [Entries -> Bracket]
    /\ status' \in [Setups -> StatusOf] /\ pos' \subseteq Symbols
    /\ run' \in RunType /\ report' \in ReportType
BY Zenon DEF GTypeOK, Bracket, StatusOf, RunType, ReportType

LEMMA LeastNumber ==
  ASSUME NEW S, S \subseteq Nat, S # {}
  PROVE  \E i \in S : \A j \in S : i <= j
<1>1. PICK i \in S : \A j \in S : ~(j < i)
  <2>1. PICK x \in S : TRUE
    OBVIOUS
  <2>2. \E y \in S : \A z \in S : ~(<<z, y>> \in OpToRel(<, Nat))
    BY <2>1, NatLessThanWellFounded, WFMin, Zenon
  <2> QED BY <2>2 DEF OpToRel
<1> QED BY <1>1

\* The newest of some entries is one of them.
LEMMA NewestIsOne ==
  ASSUME NEW S, S \subseteq Entries, S # {}
  PROVE  Newest(S) \in S
<1>1. MaxEntries \in Nat
  BY GateBoundsAssumption
<1> DEFINE gaps == {MaxEntries - e : e \in S}
<1>2. gaps \subseteq Nat /\ gaps # {}
  <2>1. \A e \in S : e \in Int /\ 1 <= e /\ e <= MaxEntries
    BY <1>1 DEF Entries
  <2>2. \A e \in S : MaxEntries - e \in Nat
    BY <1>1, <2>1
  <2> QED BY <2>2, Zenon
<1>3. PICK g \in gaps : \A h \in gaps : g <= h
  BY <1>2, LeastNumber
<1>4. PICK e \in S : g = MaxEntries - e
  BY <1>3
<1>5. \A f \in S : e >= f
  BY <1>1, <1>3, <1>4 DEF Entries
<1> QED
  BY <1>4, <1>5 DEF Newest, Max

\* What no action undoes: whose an entry is, that it was filled, that it is over.
Progress(e) ==
  /\ entry[e].leg # "none" => entry'[e].setup = entry[e].setup /\ entry'[e].symbol = entry[e].symbol
  /\ entry[e].leg = "filled" => entry'[e].leg = "filled" /\ (Open(e)' => Open(e))
  /\ entry'[e].leg = "filled" /\ entry'[e].setup = ByHand => entry[e].leg = "filled"

\* An action that leaves the run, the report and the positions alone, and undoes
\* nothing, keeps what the reads and the report stand for.
LEMMA GateKeeps ==
  ASSUME GateIInv, GTypeOK', \A e \in Entries : Owned(e)' /\ Progress(e),
         connected => connected', UNCHANGED <<pos, run, report>>
  PROVE  GateIInv'
<1>1. ASSUME NEW e \in Entries, e \in run.filled \cup report.filled
      PROVE  /\ entry[e].leg = "filled" /\ entry'[e].leg = "filled"
             /\ entry'[e].symbol = entry[e].symbol /\ (Open(e)' => Open(e))
  BY <1>1 DEF GateIInv, ReadsAll, Progress
<1>2. ASSUME NEW e \in Entries, Open(e)', entry'[e].setup = ByHand
      PROVE  Open(e) /\ entry[e].setup = ByHand /\ entry'[e].symbol = entry[e].symbol
  BY <1>2 DEF Progress, Open
<1>3. ReadsAll'
  BY <1>1, <1>2 DEF GateIInv, ReadsAll
<1>4. ReportSound'
  BY <1>1 DEF GateIInv, ReportSound
<1> QED
  BY <1>3, <1>4 DEF GateIInv

\* The entry of one bracket is replaced by one of the type.
LEMMA BracketSet ==
  ASSUME NEW e \in Entries, NEW w \in Bracket, entry \in [Entries -> Bracket],
         entry' = [entry EXCEPT ![e] = w]
  PROVE  /\ entry' \in [Entries -> Bracket] /\ entry'[e] = w
         /\ \A f \in Entries : f # e => entry'[f] = entry[f]
OBVIOUS

\* A bracket that moves on, with the same owner and without coming back to life.
LEMMA BracketMoves ==
  ASSUME GateIInv, NEW e \in Entries, NEW w \in Bracket, entry' = [entry EXCEPT ![e] = w],
         w.setup = entry[e].setup, w.symbol = entry[e].symbol,
         entry[e].leg = "filled" => w.leg = "filled" /\ (w.stop # "filled" => entry[e].stop # "filled"),
         entry[e].leg = "none" => w.leg = "none",
         w.setup = ByHand => w.leg = entry[e].leg,
         status' \in [Setups -> StatusOf], UNCHANGED <<connected, drops, session, n, pos, run, report>>,
         asked' \in 0..MaxAsked
  PROVE  GateIInv'
<1>1. entry \in [Entries -> Bracket]
  BY DEF GateIInv, GTypeOK, Bracket
<1>2. /\ entry' \in [Entries -> Bracket] /\ entry'[e] = w
      /\ \A f \in Entries : f # e => entry'[f] = entry[f]
  BY <1>1, BracketSet
<1>3. GTypeOK'
  BY <1>2 DEF GateIInv, GTypeOK, Bracket, StatusOf
<1>4. ASSUME NEW f \in Entries PROVE Owned(f)' /\ Progress(f)
  <2>1. CASE f = e
    <3>1. Owned(e)
      BY DEF GateIInv
    <3>2. Owned(e)'
      BY <1>2, <3>1 DEF Owned, Symbol
    <3>3. Progress(e)
      BY <1>2, <3>1 DEF Owned, Progress, Open
    <3> QED BY <2>1, <3>2, <3>3
  <2>2. CASE f # e
    <3>1. entry'[f] = entry[f]
      BY <1>2, <2>2
    <3>2. Owned(f)
      BY DEF GateIInv
    <3>3. Owned(f)'
      BY <3>1, <3>2 DEF Owned, Symbol
    <3>4. Progress(f)
      BY <3>1 DEF Progress, Open
    <3> QED BY <3>3, <3>4
  <2> QED BY <2>1, <2>2
<1> QED
  BY <1>3, <1>4, GateKeeps

-----------------------------------------------------------------------------
LEMMA InitGate == GInit => GateIInv
<1> SUFFICES ASSUME GInit PROVE GateIInv
  OBVIOUS
<1>1. MaxEntries \in Nat \ {0} /\ MaxDrops \in Nat /\ MaxAsked \in Nat /\ StaleAfter \in Nat
  BY GateBoundsAssumption
<1>2. PICK held \in {{}} \cup {{x} : x \in Symbols} :
        /\ n = Cardinality(held)
        /\ entry = [e \in Entries |->
             IF e <= n THEN [Unused EXCEPT !.symbol = CHOOSE x \in held : TRUE,
                                           !.leg = "filled", !.stop = "working"]
                       ELSE Unused]
  BY DEF GInit
<1>3. PICK x : n = 0 \/ (n = 1 /\ x \in Symbols /\ held = {x})
  <2>1. CASE held = {}
    BY <1>2, <2>1, FS_EmptySet
  <2>2. CASE \E x \in Symbols : held = {x}
    <3>1. PICK x \in Symbols : held = {x}
      BY <2>2
    <3>2. n = 1
      BY <1>2, <3>1, FS_Singleton
    <3> QED BY <3>1, <3>2
  <2> QED BY <2>1, <2>2
<1>4. ASSUME NEW e \in Entries
      PROVE  /\ entry[e] \in Bracket
             /\ entry[e].leg \in {"none", "filled"} /\ entry[e].setup = ByHand
             /\ e > n => entry[e].leg = "none"
  <2>1. Unused \in Bracket /\ Unused.leg = "none" /\ Unused.setup = ByHand
    BY DEF Unused, Bracket, RowStates
  <2>2. CASE e <= n
    <3>1. held = {x} /\ x \in Symbols /\ e \in Nat /\ n \in Nat
      BY <1>1, <1>3, <2>2 DEF Entries
    <3> DEFINE w == [Unused EXCEPT !.symbol = x, !.leg = "filled", !.stop = "working"]
    <3>2. w \in Bracket /\ w.leg = "filled" /\ w.setup = ByHand
      BY <2>1, <3>1 DEF Unused, Bracket, RowStates
    <3>3. (CHOOSE y \in held : TRUE) = x
      BY <3>1
    <3>4. entry[e] = w
      BY <1>2, <2>2, <3>3
    <3> HIDE DEF w
    <3> QED BY <2>2, <3>1, <3>2, <3>4
  <2>3. CASE ~ (e <= n)
    BY <1>2, <2>1, <2>3
  <2> QED BY <2>2, <2>3
<1>5. entry \in [Entries -> Bracket]
  BY <1>2, <1>4
<1>6. GTypeOK
  <2>1. n \in 0..MaxEntries
    BY <1>1, <1>3
  <2>2. status \in [Setups -> StatusOf]
    BY DEF GInit, InitialStatus, StatusOf
  <2>3. run = Idle /\ report = NoReport /\ pos = {} /\ connected = TRUE
        /\ drops = 0 /\ asked = 0 /\ session = {}
    BY DEF GInit
  <2>4. Idle \in RunType
    BY DEF Idle, RunType
  <2>5. NoReport \in ReportType
    BY <1>1 DEF NoReport, ReportType
  <2> QED BY <1>1, <1>5, <2>1, <2>2, <2>3, <2>4, <2>5, GateTypes
<1>7. ReadsAll /\ ReportSound
  BY DEF GInit, ReadsAll, ReportSound, Idle, NoReport
<1> QED
  BY <1>4, <1>6, <1>7 DEF GateIInv, Owned

\* An order at TWS moves on, a row is written.
LEMMA BracketSteps ==
  ASSUME GateIInv, NEW e \in Entries,
         \/ EntryPlaced(e) \/ EntryRefused(e) \/ Forget(e)
         \/ TwsFills(e) \/ TwsCloses(e) \/ TwsCancels(e) \/ TwsDropsStop(e)
  PROVE  GateIInv'
<1>1. /\ entry \in [Entries -> Bracket] /\ entry[e] \in Bracket /\ Owned(e)
      /\ status \in [Setups -> StatusOf] /\ asked \in 0..MaxAsked /\ MaxAsked \in Nat
  BY GateBoundsAssumption DEF GateIInv, GTypeOK, Bracket, StatusOf
<1>2. \A s : \A to \in StatusOf : Written(s, to) \in [Setups -> StatusOf]
  BY <1>1 DEF Written
<1>3. CASE EntryPlaced(e)
  <2> DEFINE w == [entry[e] EXCEPT !.leg = "working", !.stop = "working",
                                   !.row = "active", !.stopRow = "active"]
  <2>1. entry' = [entry EXCEPT ![e] = w] /\ entry[e].leg = "held"
    BY <1>3 DEF EntryPlaced
  <2>2. /\ w \in Bracket /\ w.setup = entry[e].setup /\ w.symbol = entry[e].symbol
        /\ w.leg = "working"
    BY <1>1 DEF Bracket, RowStates
  <2> HIDE DEF w
  <2>3. w.setup # ByHand
    BY <1>1, <2>1, <2>2 DEF Owned
  <2>4. status' \in [Setups -> StatusOf]
    BY <1>2, <1>3 DEF EntryPlaced, StatusOf
  <2>5. UNCHANGED <<connected, drops, session, n, pos, run, report, asked>>
    BY <1>3 DEF EntryPlaced, link
  <2> QED BY <1>1, <2>1, <2>2, <2>3, <2>4, <2>5, BracketMoves
<1>4. CASE EntryRefused(e)
  <2> DEFINE w == [entry[e] EXCEPT !.leg = "gone", !.row = "cancelled"]
  <2>1. entry' = [entry EXCEPT ![e] = w] /\ entry[e].leg = "held"
    BY <1>4 DEF EntryRefused
  <2>2. w \in Bracket /\ w.setup = entry[e].setup /\ w.symbol = entry[e].symbol
    BY <1>1 DEF Bracket, RowStates
  <2> HIDE DEF w
  <2>3. w.setup # ByHand
    BY <1>1, <2>1, <2>2 DEF Owned
  <2>4. status' \in [Setups -> StatusOf]
    BY <1>2, <1>4 DEF EntryRefused, StatusOf, Final
  <2>5. UNCHANGED <<connected, drops, session, n, pos, run, report, asked>>
    BY <1>4 DEF EntryRefused, link
  <2> QED BY <1>1, <2>1, <2>2, <2>3, <2>4, <2>5, BracketMoves
<1>5. CASE Forget(e)
  <2> DEFINE w == [entry[e] EXCEPT !.row = "none", !.stopRow = "none"]
  <2>1. entry' = [entry EXCEPT ![e] = w]
    BY <1>5 DEF Forget
  <2>2. /\ w \in Bracket /\ w.setup = entry[e].setup /\ w.symbol = entry[e].symbol
        /\ w.leg = entry[e].leg /\ w.stop = entry[e].stop
    BY <1>1 DEF Bracket, RowStates
  <2> HIDE DEF w
  <2>3. asked' \in 0..MaxAsked
    BY <1>1, <1>5 DEF Forget, Asks
  <2>4. UNCHANGED <<connected, drops, session, n, pos, run, report, status>>
    BY <1>5 DEF Forget
  <2> QED BY <1>1, <2>1, <2>2, <2>3, <2>4, BracketMoves
<1>6. ASSUME TwsUnchanged PROVE UNCHANGED <<connected, drops, session, n, pos, run, report, status, asked>>
  BY <1>6 DEF TwsUnchanged, link
<1>7. CASE TwsFills(e)
  <2> DEFINE w == [entry[e] EXCEPT !.leg = "filled"]
  <2>1. entry' = [entry EXCEPT ![e] = w] /\ entry[e].leg = "working"
    BY <1>7 DEF TwsFills
  <2>2. w \in Bracket /\ w.setup = entry[e].setup /\ w.symbol = entry[e].symbol
    BY <1>1 DEF Bracket
  <2> HIDE DEF w
  <2>3. w.setup # ByHand
    BY <1>1, <2>1, <2>2 DEF Owned
  <2> QED BY <1>1, <1>6, <1>7, <2>1, <2>2, <2>3, BracketMoves DEF TwsFills
<1>8. CASE TwsCloses(e)
  <2> DEFINE w == [entry[e] EXCEPT !.stop = "filled"]
  <2>1. entry' = [entry EXCEPT ![e] = w]
    BY <1>8 DEF TwsCloses
  <2>2. /\ w \in Bracket /\ w.setup = entry[e].setup /\ w.symbol = entry[e].symbol
        /\ w.leg = entry[e].leg /\ w.stop = "filled"
    BY <1>1 DEF Bracket
  <2> HIDE DEF w
  <2> QED BY <1>1, <1>6, <1>8, <2>1, <2>2, BracketMoves DEF TwsCloses
<1>9. CASE TwsCancels(e)
  <2> DEFINE w == [entry[e] EXCEPT !.leg = "gone", !.stop = IF @ = "working" THEN "gone" ELSE @]
  <2>1. entry' = [entry EXCEPT ![e] = w] /\ entry[e].leg \in {"held", "working"}
    BY <1>9 DEF TwsCancels
  <2>2. w \in Bracket /\ w.setup = entry[e].setup /\ w.symbol = entry[e].symbol
    BY <1>1 DEF Bracket
  <2> HIDE DEF w
  <2>3. w.setup # ByHand
    BY <1>1, <2>1, <2>2 DEF Owned
  <2>4. UNCHANGED <<connected, drops, session, n, pos, run, report, status, asked>>
    BY <1>6, <1>9 DEF TwsCancels
  <2>5. entry[e].leg # "filled" /\ entry[e].leg # "none"
    BY <2>1
  <2> QED BY <1>1, <2>1, <2>2, <2>3, <2>4, <2>5, BracketMoves
<1>10. CASE TwsDropsStop(e)
  <2> DEFINE w == [entry[e] EXCEPT !.stop = "gone"]
  <2>1. entry' = [entry EXCEPT ![e] = w] /\ entry[e].stop = "working"
    BY <1>10 DEF TwsDropsStop
  <2>2. /\ w \in Bracket /\ w.setup = entry[e].setup /\ w.symbol = entry[e].symbol
        /\ w.leg = entry[e].leg
    BY <1>1 DEF Bracket
  <2> HIDE DEF w
  <2> QED BY <1>1, <1>6, <1>10, <2>1, <2>2, BracketMoves DEF TwsDropsStop
<1> QED
  BY <1>3, <1>4, <1>5, <1>7, <1>8, <1>9, <1>10

-----------------------------------------------------------------------------
\* The next entry was nothing; it is its setup's, on the setup's symbol.
LEMMA BeginKeeps ==
  ASSUME GateIInv, NEW s \in DOMAIN Entering, EntryBegins(s)
  PROVE  GateIInv'
<1>1. /\ entry \in [Entries -> Bracket] /\ n \in Nat /\ MaxEntries \in Nat
      /\ n < MaxEntries /\ n + 1 \in Entries
  BY Bounds, GateTypes DEF GateIInv, EntryBegins, Entries
<1>2. s \in Setups /\ s # ByHand /\ Symbol(s) \in Symbols
  BY GateSetupsAssumption DEF Setups, Symbol
<1> DEFINE w == [Unused EXCEPT !.setup = s, !.symbol = Symbol(s), !.leg = "held"]
<1>3. w \in Bracket /\ w.setup = s /\ w.symbol = Symbol(s) /\ w.leg = "held"
  BY <1>2 DEF Unused, Bracket, RowStates
<1>4. entry' = [entry EXCEPT ![n + 1] = w] /\ n' = n + 1 /\ session' = session \cup {n + 1}
      /\ UNCHANGED <<connected, drops, asked, status, pos, run, report>>
  BY DEF EntryBegins
<1> HIDE DEF w
<1>5. /\ entry' \in [Entries -> Bracket] /\ entry'[n + 1] = w
      /\ \A f \in Entries : f # n + 1 => entry'[f] = entry[f]
  BY <1>1, <1>3, <1>4, BracketSet
<1>6. GTypeOK'
  BY <1>1, <1>4, <1>5, GateTypes, GateTypesNext DEF GateIInv
<1>7. ASSUME NEW f \in Entries PROVE Owned(f)' /\ Progress(f)
  <2>1. f \in Nat /\ Owned(f)
    BY DEF Entries, GateIInv
  <2>2. CASE f = n + 1
    <3>1. entry[f].leg = "none"
      BY <1>1, <2>1, <2>2 DEF Owned
    <3>2. Owned(f)'
      BY <1>1, <1>2, <1>3, <1>4, <1>5, <2>2 DEF Owned, Symbol
    <3>3. Progress(f)
      BY <1>3, <1>5, <2>2, <3>1 DEF Progress
    <3> QED BY <3>2, <3>3
  <2>3. CASE f # n + 1
    <3>1. entry'[f] = entry[f]
      BY <1>5, <2>3
    <3>2. Owned(f)'
      BY <1>1, <1>4, <2>1, <3>1 DEF Owned, Symbol
    <3>3. Progress(f)
      BY <3>1 DEF Progress, Open
    <3> QED BY <3>2, <3>3
  <2> QED BY <2>2, <2>3
<1> QED
  BY <1>4, <1>6, <1>7, GateKeeps

\* Steps that leave the entries alone.
LEMMA OtherSteps ==
  ASSUME GateIInv,
         \/ RunStarts \/ PositionsRead \/ OrdersRead \/ Tick \/ Disconnect \/ Reconnect
         \/ \E s \in Setups : Rearm(s) \/ Delete(s)
         \/ UNCHANGED gvars
  PROVE  GateIInv'
<1>1. /\ GTypeOK /\ ReadsAll /\ ReportSound
      /\ run \in RunType /\ report \in ReportType /\ entry \in [Entries -> Bracket]
      /\ status \in [Setups -> StatusOf]
  BY GateTypes DEF GateIInv
<1>2. drops \in 0..MaxDrops /\ asked \in 0..MaxAsked
  BY <1>1 DEF GTypeOK
<1>3. Idle \in RunType /\ Idle.at = "idle" /\ Idle.filled = {} /\ ~ Idle.lost
  BY DEF Idle, RunType
<1>4. ASSUME UNCHANGED <<n, entry>> PROVE \A e \in Entries : Owned(e)' /\ (Open(e)' <=> Open(e))
  BY <1>4 DEF GateIInv, Owned, Symbol, Open
<1>5. ASSUME RunUnchanged, run' \in RunType, report' \in ReportType PROVE GTypeOK'
  BY <1>1, <1>5, GateTypes, GateTypesNext DEF RunUnchanged, link
<1>6. RunUnchanged => UNCHANGED <<connected, n, entry, pos>>
  BY DEF RunUnchanged, link
<1>7. CASE RunStarts
  <2> DEFINE none == [NoReport EXCEPT !.saved = TRUE]
             starts == [Idle EXCEPT !.at = "positions"]
  <2>1. none \in ReportType /\ none.filled = {} /\ ~ none.connected
    <3>1. 0 \in 0..(StaleAfter + 1)
      BY Bounds
    <3> QED BY <3>1 DEF NoReport, ReportType
  <2>2. starts \in RunType /\ starts.at = "positions" /\ starts.filled = {}
    BY DEF Idle, RunType
  <2>3. RunUnchanged /\ \/ connected /\ run' = starts /\ report' = report
                        \/ run' = run /\ report' = none
    BY <1>7 DEF RunStarts
  <2> HIDE DEF none, starts
  <2>4. GTypeOK'
    BY <1>1, <1>5, <2>1, <2>2, <2>3
  <2>5. ReadsAll'
    BY <1>1, <1>4, <1>6, <2>1, <2>2, <2>3 DEF ReadsAll
  <2>6. ReportSound'
    BY <1>1, <1>4, <1>6, <2>1, <2>3 DEF ReportSound
  <2> QED BY <1>4, <1>6, <2>3, <2>4, <2>5, <2>6 DEF GateIInv
<1>8. CASE PositionsRead
  <2>1. PICK held : held = (IF connected THEN HeldSymbols ELSE {})
    OBVIOUS
  <2> DEFINE r == [run EXCEPT !.at = "orders", !.held = held]
  <2>2. run' = r /\ RunUnchanged /\ report' = report /\ run.at = "positions"
    BY <1>8, <2>1 DEF PositionsRead
  <2>3. \A e \in Entries : entry[e].symbol \in Symbols \cup {""}
    BY <1>1 DEF Bracket
  <2>4. held \subseteq Symbols \cup {""}
    BY <2>1, <2>3 DEF HeldSymbols
  <2>5. r \in RunType /\ r.at = "orders" /\ r.held = held /\ r.lost = run.lost
        /\ r.filled = run.filled
    BY <1>1, <2>4 DEF RunType
  <2> HIDE DEF r
  <2>6. GTypeOK'
    BY <1>1, <1>5, <2>2, <2>5
  <2>7. connected => \A e \in Entries : Open(e) => entry[e].symbol \in held
    BY <2>1 DEF HeldSymbols
  <2>8. ReadsAll'
    BY <1>1, <1>4, <1>6, <2>2, <2>5, <2>7 DEF ReadsAll
  <2>9. ReportSound'
    BY <1>1, <1>4, <1>6, <2>2 DEF ReportSound
  <2> QED BY <1>4, <1>6, <2>2, <2>6, <2>8, <2>9 DEF GateIInv
<1>9. CASE OrdersRead
  <2>1. PICK entries, stops :
          /\ run' = [run EXCEPT !.at = "account",
                       !.filled = {e \in Entries : entry[e].leg = "filled"},
                       !.entries = entries, !.stops = stops]
          /\ entries = IF connected
                THEN {[order |-> e, working |-> entry[e].leg = "working"] :
                      e \in {f \in Entries : entry[f].leg \in {"held", "working"}}}
                ELSE {}
          /\ stops = IF connected THEN {e \in Entries : entry[e].stop = "working"} ELSE {}
    BY <1>9 DEF OrdersRead
  <2>2. entries \in SUBSET [order : Entries, working : BOOLEAN] /\ stops \in SUBSET Entries
    <3>1. \A e \in Entries :
            [order |-> e, working |-> entry[e].leg = "working"] \in [order : Entries, working : BOOLEAN]
      OBVIOUS
    <3>2. CASE connected
      <4>1. ASSUME NEW x \in entries PROVE x \in [order : Entries, working : BOOLEAN]
        <5>1. PICK e \in Entries : x = [order |-> e, working |-> entry[e].leg = "working"]
          BY <2>1, <3>2
        <5> QED BY <3>1, <5>1
      <4>2. stops \in SUBSET Entries
        BY <2>1, <3>2
      <4> QED BY <4>1, <4>2
    <3>3. CASE ~ connected
      BY <2>1, <3>3
    <3> QED BY <3>2, <3>3
  <2>3. PICK r : /\ run' = r /\ r.at = "account" /\ r.held = run.held /\ r.lost = run.lost
                 /\ r.filled = {e \in Entries : entry[e].leg = "filled"}
                 /\ r \in RunType
    <3> DEFINE filled == {e \in Entries : entry[e].leg = "filled"}
               r == [run EXCEPT !.at = "account", !.filled = filled,
                                !.entries = entries, !.stops = stops]
    <3>1. filled \in SUBSET Entries /\ run' = r
      BY <2>1
    <3>2. \A F \in SUBSET Entries : LET q == [run EXCEPT !.at = "account", !.filled = F,
                                                 !.entries = entries, !.stops = stops]
                                   IN /\ q.at = "account" /\ q.held = run.held /\ q.lost = run.lost
                                      /\ q.filled = F /\ q \in RunType
      BY <1>1, <2>2 DEF RunType
    <3>3. /\ r.at = "account" /\ r.held = run.held /\ r.lost = run.lost
          /\ r.filled = filled /\ r \in RunType
      BY <3>1, <3>2
    <3> HIDE DEF r
    <3> QED BY <3>1, <3>3
  <2>4. RunUnchanged /\ report' = report /\ run.at = "orders"
    BY <1>9 DEF OrdersRead
  <2>5. GTypeOK'
    BY <1>1, <1>5, <2>3, <2>4
  <2>6. ReadsAll'
    BY <1>1, <1>4, <1>6, <2>3, <2>4 DEF ReadsAll
  <2>7. ReportSound'
    BY <1>1, <1>4, <1>6, <2>4 DEF ReportSound
  <2> QED BY <1>4, <1>6, <2>4, <2>5, <2>6, <2>7 DEF GateIInv
<1>10. CASE Tick
  <2>1. PICK r : /\ report' = r /\ r \in ReportType /\ r.filled = report.filled
                 /\ r.saved = report.saved /\ r.connected = report.connected
                 /\ r.blocked = report.blocked /\ r.lost = report.lost
    <3> DEFINE r == [report EXCEPT !.age = @ + 1]
    <3>1. report' = r /\ report.age <= StaleAfter
      BY <1>10 DEF Tick
    <3>2. report.age + 1 \in 0..(StaleAfter + 1)
      BY <1>1, <3>1, Bounds DEF ReportType
    <3>3. /\ r \in ReportType /\ r.filled = report.filled
          /\ r.saved = report.saved /\ r.connected = report.connected
          /\ r.blocked = report.blocked /\ r.lost = report.lost
      BY <1>1, <3>2 DEF ReportType
    <3> HIDE DEF r
    <3> QED BY <3>1, <3>3
  <2>2. RunUnchanged /\ run' = run
    BY <1>10 DEF Tick
  <2>3. GTypeOK'
    BY <1>1, <1>5, <2>1, <2>2
  <2>4. ReadsAll'
    BY <1>1, <1>4, <1>6, <2>1, <2>2 DEF ReadsAll
  <2>5. ReportSound'
    BY <1>1, <1>4, <1>6, <2>1, <2>2 DEF ReportSound
  <2> QED BY <1>4, <1>6, <2>2, <2>3, <2>4, <2>5 DEF GateIInv
<1>11. CASE Disconnect
  <2>1. /\ connected' = FALSE /\ drops' = drops + 1 /\ drops < MaxDrops /\ session' = {}
        /\ UNCHANGED <<asked, n, entry, status, pos, report>>
    BY <1>11 DEF Disconnect
  <2>2. PICK r : /\ run' = r /\ r \in RunType /\ r.at = run.at /\ r.held = run.held
                 /\ r.filled = run.filled /\ (r.at # "idle" => r.lost)
    <3> DEFINE lost == [run EXCEPT !.lost = TRUE]
    <3>1. lost \in RunType /\ lost.at = run.at /\ lost.held = run.held /\ lost.lost
          /\ lost.filled = run.filled
      BY <1>1 DEF RunType
    <3>2. (run.at = "idle" /\ run' = run) \/ run' = lost
      BY <1>11 DEF Disconnect
    <3> HIDE DEF lost
    <3> QED BY <1>1, <3>1, <3>2
  <2>3. drops' \in 0..MaxDrops
    BY <1>2, <2>1, Bounds
  <2>4. GTypeOK'
    BY <1>1, <2>1, <2>2, <2>3, GateTypes, GateTypesNext
  <2>5. ReadsAll'
    BY <1>1, <1>4, <2>1, <2>2 DEF ReadsAll
  <2>6. ReportSound'
    BY <1>1, <1>4, <2>1 DEF ReportSound
  <2> QED BY <1>4, <2>1, <2>4, <2>5, <2>6 DEF GateIInv
<1>12. CASE Reconnect
  <2>1. /\ connected' = TRUE /\ session' \subseteq Entries
        /\ UNCHANGED <<drops, asked, n, entry, status, pos, run, report>>
    BY <1>12 DEF Reconnect
  <2>2. GTypeOK'
    BY <1>1, <2>1, GateTypes, GateTypesNext
  <2> QED BY <1>1, <1>4, <2>1, <2>2 DEF GateIInv, ReadsAll, ReportSound
<1>13. CASE \E s \in Setups : Rearm(s) \/ Delete(s)
  <2>1. PICK s \in Setups : Rearm(s) \/ Delete(s)
    BY <1>13
  <2>2. /\ asked' \in 0..MaxAsked /\ UNCHANGED <<connected, drops, session, n, entry, pos, run, report>>
    BY <1>2, <2>1, Bounds DEF Rearm, Delete, Asks
  <2>3. InitialStatus(s) \in StatusOf /\ "DELETED" \in StatusOf
    BY DEF InitialStatus, StatusOf, Final
  <2>4. status' \in [Setups -> StatusOf]
    BY <1>1, <2>1, <2>3 DEF Rearm, Delete
  <2>5. GTypeOK'
    BY <1>1, <2>2, <2>4, GateTypes, GateTypesNext
  <2> QED BY <1>1, <1>4, <2>2, <2>5 DEF GateIInv, ReadsAll, ReportSound
<1>14. CASE UNCHANGED gvars
  <2>1. UNCHANGED <<connected, drops, asked, session, n, entry, status, pos, run, report>>
    BY <1>14 DEF gvars, link
  <2>2. GTypeOK'
    BY <1>1, <2>1, GateTypes, GateTypesNext
  <2> QED BY <1>1, <1>4, <2>1, <2>2 DEF GateIInv, ReadsAll, ReportSound
<1> QED
  BY <1>7, <1>8, <1>9, <1>10, <1>11, <1>12, <1>13, <1>14

-----------------------------------------------------------------------------
\* A symbol whose filled entry has a row of a living setup, no position read
\* and no order listed: the row's order is expected and not in TWS.
LEMMA MissingBlocks ==
  ASSUME GateIInv, NEW e \in Entries, NEW standing, NEW rows, NEW r, NEW local,
         NEW bs, NEW be,
         entry[e].setup # ByHand, rows[e].row # "none",
         be \in MatchedEntries(entry[e].setup, Symbol(entry[e].setup), rows, r),
         \A f \in Listed(r) : entry[f].symbol # entry[e].symbol,
         Listed(r) \subseteq Entries
  PROVE  SetupRowBlocks(entry[e].setup, standing, be, bs, rows, local, r)
<1> DEFINE s == entry[e].setup
           mine == {f \in Entries : entry[f].setup = s /\ rows[f].row # "none"}
           active == {f \in mine : rows[f].row = "active"}
<1>1. e \in mine /\ Owned(e) /\ \A f \in mine : Owned(f) /\ entry[f].setup # ByHand
  BY DEF GateIInv
<1>2. LocalEntry(s, rows) \in mine
  <2>1. LocalEntry(s, rows) = IF active # {} THEN Newest(active) ELSE Newest(mine)
    BY DEF LocalEntry
  <2>2. active # {} => Newest(active) \in active
    <3> HIDE DEF mine
    <3> QED BY NewestIsOne DEF mine
  <2>3. Newest(mine) \in mine
    BY <1>1, NewestIsOne
  <2> QED BY <2>1, <2>2, <2>3
<1>3. \A f \in mine : entry[f].symbol = entry[e].symbol /\ entry[e].symbol = Symbol(s)
  BY <1>1 DEF Owned
<1>4. LocalEntry(s, rows) \notin Listed(r)
  BY <1>2, <1>3
<1>5. \A f \in Listed(r) : entry[f].symbol # Symbol(s)
  BY <1>1, <1>3
<1>6. be = 0
  BY <1>4, <1>5 DEF MatchedEntries
<1>7. LocalEntry(s, rows) # 0
  BY <1>2 DEF Entries
<1> QED
  BY <1>6, <1>7 DEF SetupRowBlocks, Mismatched

\* The report of a run accounts for the positions it has read, or blocks.
LEMMA SavedIsSound ==
  ASSUME GateIInv, NEW rows, NEW standing, NEW local, NEW blocked \in Judged(standing, rows, local, run),
         ~ blocked, ~ run.lost, run.at = "account",
         NEW e \in Claimed(run, standing, rows), Open(e)
  PROVE  entry[e].symbol \in local
<1>1. /\ GTypeOK /\ run \in RunType /\ entry \in [Entries -> Bracket] /\ ReadsAll
      /\ run.filled \subseteq Entries /\ Listed(run) \subseteq Entries
  BY GateTypes DEF GateIInv, RunType, Listed
<1>2. e \in Entries /\ e \in run.filled
  BY <1>1 DEF Claimed
<1>3. PICK m \in Matches(standing, rows, run) :
        /\ \A s \in Living(standing) : ~ SetupRowBlocks(s, standing, m[1][s], m[2][s], rows, local, run)
        /\ OrphanPositions(standing, run) = {}
  BY DEF Judged
<1>4. CASE entry[e].symbol \in run.held
  <2>1. PICK s \in Living(standing) : Symbol(s) = entry[e].symbol
    BY <1>3, <1>4 DEF OrphanPositions
  <2>2. (Symbol(s) \in run.held) = (Symbol(s) \in local)
    BY <1>3 DEF SetupRowBlocks, Mismatched
  <2> QED BY <1>4, <2>1, <2>2
<1>5. CASE entry[e].setup = ByHand
  BY <1>1, <1>2, <1>4, <1>5 DEF ReadsAll
<1>6. CASE /\ entry[e].setup # ByHand
           /\ rows[e].row # "none" /\ standing[entry[e].setup] \notin Final
           /\ \A f \in Listed(run) : entry[f].symbol # entry[e].symbol
  <2>1. entry[e].setup \in Living(standing)
    BY <1>1, <1>2, <1>6 DEF Living, Bracket
  <2>2. m[1][entry[e].setup] \in MatchedEntries(entry[e].setup, Symbol(entry[e].setup), rows, run)
    BY <2>1 DEF Matches
  <2>3. SetupRowBlocks(entry[e].setup, standing, m[1][entry[e].setup], m[2][entry[e].setup],
                       rows, local, run)
    BY <1>1, <1>2, <1>6, <2>2, MissingBlocks
  <2> QED BY <1>3, <2>1, <2>3
<1> QED
  BY <1>4, <1>5, <1>6 DEF Claimed

LEMMA SaveKeepsGate ==
  ASSUME GateIInv, RunSaves
  PROVE  GateIInv'
<1>1. /\ GTypeOK /\ ReadsAll /\ ReportSound
      /\ run \in RunType /\ report \in ReportType /\ entry \in [Entries -> Bracket]
      /\ status \in [Setups -> StatusOf] /\ pos \subseteq Symbols
  BY GateTypes DEF GateIInv
<1>2. PICK rows : rows = RowsAfter
  OBVIOUS
<1>3. PICK corrected : corrected = [s \in Setups |-> Corrected(s, rows)]
  OBVIOUS
<1>4. PICK adopted \in SUBSET Adoptable(corrected) :
        /\ entry' = [e \in Entries |-> [entry[e] EXCEPT !.row = rows[e].row,
                                                        !.stopRow = rows[e].stopRow]]
        /\ status' = Adopted(corrected, adopted)
        /\ pos' = pos \cup {Managing[s] : s \in adopted}
        /\ \E blocked \in Judged(status', rows, pos', run) :
              report' = Saved(blocked, Claimed(run, status', rows))
  BY <1>2, <1>3 DEF RunSaves
<1>5. PICK blocked \in Judged(status', rows, pos', run) :
        report' = Saved(blocked, Claimed(run, status', rows))
  BY <1>4
<1>6. run.at = "account" /\ run' = Idle
      /\ UNCHANGED <<connected, drops, asked, session, n>>
  BY DEF RunSaves, link
<1>7. ASSUME NEW e \in Entries
      PROVE  /\ entry'[e] \in Bracket
             /\ entry'[e].setup = entry[e].setup /\ entry'[e].symbol = entry[e].symbol
             /\ entry'[e].leg = entry[e].leg /\ entry'[e].stop = entry[e].stop
  <2>1. \A leg, held : Missing(e, leg, held) \in RowStates
    BY DEF Missing, RowStates
  <2>2. entry[e] \in Bracket /\ entry[e].row \in RowStates /\ entry[e].stopRow \in RowStates
    BY <1>1 DEF Bracket
  <2>3. rows[e].row \in RowStates
    BY <1>2, <2>1, <2>2 DEF RowsAfter, RowAfter, RowStates
  <2>4. rows[e].stopRow \in RowStates
    BY <1>2, <2>1, <2>2 DEF RowsAfter, StopRowAfter, RowStates
  <2>5. entry'[e] = [entry[e] EXCEPT !.row = rows[e].row, !.stopRow = rows[e].stopRow]
    BY <1>4
  <2> QED BY <2>2, <2>3, <2>4, <2>5 DEF Bracket
<1>8. entry' \in [Entries -> Bracket]
  BY <1>4, <1>7
<1>9. status' \in [Setups -> StatusOf]
  <2>1. \A s \in Setups : Corrected(s, rows) \in StatusOf
    BY <1>1 DEF Corrected, StatusOf, Final
  <2> QED BY <1>3, <1>4, <2>1 DEF Adopted, StatusOf
<1>10. pos' \subseteq Symbols
  BY <1>1, <1>4, GateSetupsAssumption DEF Adoptable
<1>11. Claimed(run, status', rows) \subseteq run.filled /\ run.filled \subseteq Entries
       /\ run.lost \in BOOLEAN
  BY <1>1 DEF Claimed, RunType
<1>12. blocked \in BOOLEAN
  BY DEF Judged
<1>13. PICK filled : filled = Claimed(run, status', rows)
  OBVIOUS
<1>14. /\ report' \in ReportType /\ report'.filled = filled /\ report'.lost = run.lost
       /\ report'.blocked = blocked
  <2>1. report' = [saved |-> TRUE, connected |-> TRUE, blocked |-> blocked, age |-> 0,
                   filled |-> filled, lost |-> run.lost]
    BY <1>5, <1>13 DEF Saved
  <2>2. 0 \in 0..(StaleAfter + 1)
    BY Bounds
  <2> QED BY <1>11, <1>12, <1>13, <2>1, <2>2 DEF ReportType
<1>15. Idle \in RunType /\ Idle.at = "idle" /\ Idle.filled = {}
  BY DEF Idle, RunType
<1>16. GTypeOK'
  BY <1>1, <1>6, <1>8, <1>9, <1>10, <1>14, <1>15, GateTypes, GateTypesNext
<1>17. \A e \in Entries : Owned(e)' /\ (Open(e)' <=> Open(e))
  BY <1>6, <1>7 DEF GateIInv, Owned, Symbol, Open
<1>18. ReadsAll'
  BY <1>1, <1>6, <1>7, <1>11, <1>13, <1>14, <1>15 DEF ReadsAll
<1>19. ReportSound'
  <2> SUFFICES ASSUME ~ report'.lost, ~ report'.blocked,
                      NEW e \in Entries, e \in report'.filled, Open(e)'
               PROVE  entry'[e].symbol \in pos'
    BY DEF ReportSound
  <2>1. entry[e].symbol \in pos'
    BY <1>5, <1>6, <1>13, <1>14, <1>17, SavedIsSound
  <2> QED BY <1>7, <2>1
<1> QED
  BY <1>16, <1>17, <1>18, <1>19 DEF GateIInv

-----------------------------------------------------------------------------
LEMMA NextGate == GateIInv /\ [GNext]_gvars => GateIInv'
<1> SUFFICES ASSUME GateIInv, [GNext]_gvars PROVE GateIInv'
  OBVIOUS
<1>1. CASE \E s \in DOMAIN Entering : EntryBegins(s)
  BY <1>1, BeginKeeps
<1>2. CASE \E e \in Entries : \/ EntryPlaced(e) \/ EntryRefused(e) \/ Forget(e)
                              \/ TwsFills(e) \/ TwsCloses(e) \/ TwsCancels(e) \/ TwsDropsStop(e)
  BY <1>2, BracketSteps
<1>3. CASE \/ RunStarts \/ PositionsRead \/ OrdersRead \/ Tick \/ Disconnect \/ Reconnect
           \/ \E s \in Setups : Rearm(s) \/ Delete(s)
           \/ UNCHANGED gvars
  BY <1>3, OtherSteps
<1>4. CASE RunSaves
  BY <1>4, SaveKeepsGate
<1> QED
  BY <1>1, <1>2, <1>3, <1>4 DEF GNext

\* Every state of the gate is well typed.
THEOREM GateTypesHold == GSpec => []GTypeOK
<1>1. GateIInv => GTypeOK
  BY DEF GateIInv
<1> QED
  BY <1>1, InitGate, NextGate, PTL DEF GSpec

\* A step that begins an entry found the gate open, so its report blocks nothing.
THEOREM NoEntryBesideOne == GSpec => NoEntryBesideAnUnknownPosition
<1>1. GateIInv /\ [GNext]_gvars =>
        [Begins => \/ report.lost
                   \/ \A e \in Entries : Unknown(e) => e \notin report.filled]_gvars
  <2> SUFFICES ASSUME GateIInv, GNext, Begins, ~ report.lost,
                      NEW e \in Entries, Unknown(e), e \in report.filled
               PROVE  FALSE
    BY DEF gvars
  <2>1. n \in Nat
    BY Bounds, GateTypes DEF GateIInv
  <2>2. PICK s \in DOMAIN Entering : EntryBegins(s)
    <3>1. n' # n
      BY <2>1 DEF Begins
    <3>2. \A e1 \in Entries : EntryPlaced(e1) \/ EntryRefused(e1) \/ Forget(e1) => n' = n
      BY DEF EntryPlaced, EntryRefused, Forget
    <3>3. \A e1 \in Entries : TwsFills(e1) \/ TwsCloses(e1) \/ TwsCancels(e1) \/ TwsDropsStop(e1)
            => n' = n
      BY DEF TwsFills, TwsCloses, TwsCancels, TwsDropsStop, TwsUnchanged
    <3>4. RunStarts \/ PositionsRead \/ OrdersRead \/ RunSaves \/ Tick => n' = n
      BY DEF RunStarts, PositionsRead, OrdersRead, RunSaves, Tick, RunUnchanged
    <3>5. Disconnect \/ Reconnect \/ (\E s \in Setups : Rearm(s) \/ Delete(s)) => n' = n
      BY DEF Disconnect, Reconnect, Rearm, Delete
    <3> QED BY <3>1, <3>2, <3>3, <3>4, <3>5 DEF GNext
  <2>3. GateOpen
    BY <2>2 DEF EntryBegins
  <2> QED BY <2>3 DEF GateIInv, ReportSound, GateOpen, Unknown
<1> QED
  BY <1>1, InitGate, NextGate, PTL DEF GSpec, NoEntryBesideAnUnknownPosition

=============================================================================
