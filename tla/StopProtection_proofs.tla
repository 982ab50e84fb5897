------------------------ MODULE StopProtection_proofs ------------------------
(***************************************************************************)
(* Machine-checked proofs about StopProtection, for every position, number *)
(* of sells, of sleeping coroutines and of runs.  The argument: while a    *)
(* stop works at TWS, either its row shows at least the level TWS holds,   *)
(* or the newest modification asleep carries exactly that level and will   *)
(* write it when it wakes, after all the older ones.                       *)
(***************************************************************************)
EXTENDS StopProtection, Sums, TLAPS

\* SELL orders are created in order, and have no row before their answer.
Fresh(i) ==
    /\ i > n => sell[i] = Unused
    /\ sell[i].at # "done" => sell[i].row = "none"
    /\ sell[i].at \in {"free", "qualify"} => sell[i].leg = "none"

\* A coroutine sleeps on an order that has been sent.
Asleep(k) ==
    /\ asleep[k].what = "modify" => sell[asleep[k].order].at = "done"
    /\ asleep[k].what = "sell" => sell[asleep[k].order].at = "sent"

\* Only one coroutine waits for the first answer to a sell.
OneSell(j, k) ==
    asleep[j].what = "sell" /\ asleep[k].what = "sell"
    /\ asleep[j].order = asleep[k].order => j = k

\* The modification of i that wakes last.
Newest(i, k) ==
    /\ asleep[k].what = "modify" /\ asleep[k].order = i
    /\ \A j \in 1..Len(asleep) :
          j > k => ~ (asleep[j].what = "modify" /\ asleep[j].order = i)

\* The row of a working order, present or still to be written, covers its
\* level; the newest modification asleep is the one TWS works by.
Covered(i) ==
    sell[i].leg = "working" =>
       /\ ~ Modifying(i) /\ (sell[i].row # "none" \/ sell[i].at # "done")
             => sell[i].rowPrice >= sell[i].price
       /\ \A k \in 1..Len(asleep) : Newest(i, k) => asleep[k].price = sell[i].price

\* A sell in its first wait has the level its row will show.
Asked(i) == sell[i].at = "qualify" => sell[i].rowPrice = sell[i].price

Queue ==
    /\ \A i \in Sells : Fresh(i) /\ Covered(i) /\ Asked(i)
    /\ \A k \in 1..Len(asleep) : Asleep(k)
    /\ \A j, k \in 1..Len(asleep) : OneSell(j, k)

IInv == STypeOK /\ Queue

-----------------------------------------------------------------------------
(* Facts about the operators.                                              *)

\* Max of a non-empty set of bounded naturals is one of its elements.
LEMMA MaxIsOne ==
    ASSUME NEW N \in Nat, NEW T \in SUBSET (1..N), T # {}
    PROVE  Max(T) \in T /\ \A y \in T : Max(T) >= y
<1>1. IsFiniteSet(T) /\ T \subseteq Int
  <2>1. IsFiniteSet(1..N)
    <3>1. 1 \in Int /\ N \in Int
      OBVIOUS
    <3> QED BY <3>1, FS_Interval
  <2>2. IsFiniteSet(T)
    BY <2>1, FS_Subset
  <2> QED BY <2>2
<1>2. \E x \in T : \A y \in T : x >= y
  BY <1>1, GreatestOfFinite
<1> QED
  BY <1>2 DEF Max

\* The sizes, as the provers use them.
LEMMA Sizes ==
    /\ MaxPrice \in Nat /\ MaxPrice >= 1
    /\ MaxSells \in Nat /\ MaxSells >= 1
    /\ Held \in Nat /\ Held >= 1
    /\ MaxAsleep \in Nat /\ MaxDrops \in Nat /\ MaxRuns \in Nat
BY SizesAssumption, LimitsAssumption

\* The order modify_stop takes is a SELL order with an active row.
LEMMA StopRowIsActive ==
    ASSUME STypeOK, StopRow # 0
    PROVE  StopRow \in Sells /\ sell[StopRow].kind = "stop" /\ sell[StopRow].row = "active"
<1>1. ActiveStops \in SUBSET (1..MaxSells)
  BY DEF ActiveStops, Sells
<1>2. ActiveStops # {} /\ StopRow = Max(ActiveStops)
  BY DEF StopRow
<1>3. StopRow \in ActiveStops
  BY <1>1, <1>2, MaxIsOne, Sizes
<1> QED
  BY <1>3 DEF ActiveStops

-----------------------------------------------------------------------------
(* Types.                                                                  *)

LEMMA RaisedType ==
    ASSUME NEW p \in Prices, pos \in PosType
    PROVE  Raised(p) \in PosType
BY Sizes DEF Raised, Prices, PosType

\* What a step writes into a sell keeps its type.
LEMMA SellSet ==
    ASSUME NEW s \in SellType
    PROVE  /\ \A v \in {"free", "qualify", "sent", "done"} : [s EXCEPT !.at = v] \in SellType
           /\ \A v \in {"none", "working", "filled", "gone"} : [s EXCEPT !.leg = v] \in SellType
           /\ \A v \in {"none", "active", "closed"} : [s EXCEPT !.row = v] \in SellType
           /\ \A v \in 0..MaxPrice : [s EXCEPT !.price = v] \in SellType
           /\ \A v \in 0..MaxPrice : [s EXCEPT !.rowPrice = v] \in SellType
           /\ s.price \in 0..MaxPrice /\ s.rowPrice \in 0..MaxPrice /\ s.qty \in 0..Held
           /\ s.row \in {"none", "active", "closed"}
           /\ s.leg \in {"none", "working", "filled", "gone"}
           /\ s.at \in {"free", "qualify", "sent", "done"}
BY DEF SellType

\* The same of a coroutine that goes to sleep and of a run.
LEMMA SleepSet ==
    ASSUME NEW w \in {"modify", "sell"}, NEW i \in Sells, NEW p \in 0..MaxPrice,
           NEW b \in BOOLEAN
    PROVE  [what |-> w, order |-> i, price |-> p, position |-> b] \in SleepType
BY DEF SleepType

LEMMA AsleepGet ==
    ASSUME STypeOK, asleep # << >>
    PROVE  /\ Head(asleep) \in SleepType
           /\ Head(asleep).order \in Sells /\ Head(asleep).price \in 0..MaxPrice
           /\ Tail(asleep) \in Seq(SleepType)
<1>1. asleep \in Seq(SleepType)
  BY DEF STypeOK
<1>2. Head(asleep) \in SleepType /\ Tail(asleep) \in Seq(SleepType)
  BY <1>1
<1> QED
  BY <1>2 DEF SleepType

LEMMA RunSet ==
    ASSUME NEW r \in RunType
    PROVE  /\ \A v \in {"idle", "positions", "orders", "account"} :
                [r EXCEPT !.at = v] \in RunType
           /\ \A v \in Int : [r EXCEPT !.qty = v] \in RunType
           /\ \A v \in 0..MaxPrice : [r EXCEPT !.stop = v] \in RunType
           /\ \A v \in SUBSET Sells : [r EXCEPT !.open = v] \in RunType
           /\ r.runs \in 0..MaxRuns /\ r.qty \in Int /\ r.stop \in 0..MaxPrice
           /\ r.open \in SUBSET Sells
BY DEF RunType

LEMMA IdleType == \A runs \in 0..MaxRuns : Idle(runs) \in RunType
BY Sizes DEF Idle, RunType

LEMMA UnusedType == Unused \in SellType
BY Sizes DEF Unused, SellType

LEMMA InitTypeOK == SInit => STypeOK
<1> SUFFICES ASSUME SInit PROVE STypeOK
  OBVIOUS
<1>1. \A row \in {"none", "active"} : Protective(row) \in SellType
  BY Sizes DEF Protective, SellType
<1>2. sell \in [Sells -> SellType]
  BY <1>1, UnusedType DEF SInit
<1>3. pos \in PosType
  BY Sizes DEF SInit, NoRow, PosType
<1>4. run \in RunType
  BY IdleType, Sizes DEF SInit
<1> QED
  BY <1>2, <1>3, <1>4, Sizes DEF SInit, STypeOK

LEMMA NextTypeOK == STypeOK /\ [SNext]_svars => STypeOK'
<1> SUFFICES ASSUME STypeOK, [SNext]_svars PROVE STypeOK'
  OBVIOUS
<1> USE Sizes DEF STypeOK, link
<1>1. ASSUME NEW p \in Prices, ModifySent(p) PROVE STypeOK'
  <2>1. StopRow \in Sells
    BY <1>1, StopRowIsActive DEF ModifySent
  <2>2. p \in 0..MaxPrice
    BY DEF Prices
  <2>3. sell' \in [Sells -> SellType]
    BY <1>1, <2>1, <2>2, SellSet DEF ModifySent
  <2>4. asleep' \in Seq(SleepType)
    <3> DEFINE a == [what |-> "modify", order |-> StopRow, price |-> p,
                     position |-> pos.stop # 0]
    <3>1. a \in SleepType
      BY <2>1, <2>2, SleepSet
    <3>2. asleep' = Append(asleep, a)
      BY <1>1 DEF ModifySent
    <3> HIDE DEF a
    <3> QED BY <3>1, <3>2
  <2> QED BY <1>1, <2>3, <2>4 DEF ModifySent
<1>2. ASSUME NEW p \in Prices, ModifyLocally(p) PROVE STypeOK'
  <2>1. pos' \in PosType
    BY <1>2, RaisedType DEF ModifyLocally
  <2>2. p \in 0..MaxPrice
    BY DEF Prices
  <2>3. sell' \in [Sells -> SellType]
    BY <1>2, <2>2, SellSet, StopRowIsActive DEF ModifyLocally
  <2> QED BY <1>2, <2>1, <2>3 DEF ModifyLocally
<1>3. ASSUME NEW p \in Prices, RaiseSignal(p) PROVE STypeOK'
  BY <1>3, RaisedType DEF RaiseSignal
<1>4. CASE ModifyAnswered
  <2>1. Head(asleep).order \in Sells /\ Head(asleep).price \in 0..MaxPrice
        /\ Tail(asleep) \in Seq(SleepType)
    BY <1>4, AsleepGet DEF ModifyAnswered
  <2>2. sell' \in [Sells -> SellType]
    <3> DEFINE m == Head(asleep)
    <3>1. sell' = sell \/ sell' = [sell EXCEPT ![m.order].rowPrice = m.price]
      BY <1>4 DEF ModifyAnswered
    <3> HIDE DEF m
    <3>2. m.order \in Sells /\ m.price \in 0..MaxPrice
      BY <2>1 DEF m
    <3>3. [sell[m.order] EXCEPT !.rowPrice = m.price] \in SellType
      BY <3>2, SellSet
    <3> QED BY <3>1, <3>2, <3>3
  <2>3. pos' \in PosType
    BY <1>4, <2>1 DEF ModifyAnswered, Raised, PosType
  <2> QED BY <1>4, <2>1, <2>2, <2>3 DEF ModifyAnswered
<1>5. ASSUME NEW qty \in 1..Held, NEW p \in 0..MaxPrice,
             NEW kind \in {"stop", "plain"}, ManualSell(kind, qty, p)
      PROVE  STypeOK'
  <2>1. [kind |-> kind, at |-> "qualify", leg |-> "none", qty |-> qty,
         price |-> p, row |-> "none", rowPrice |-> p] \in SellType
    BY DEF SellType
  <2>2. sell' \in [Sells -> SellType]
    BY <1>5, <2>1 DEF ManualSell
  <2> QED BY <1>5, <2>2 DEF ManualSell
<1>6. ASSUME NEW i \in Sells, SellNotSent(i) PROVE STypeOK'
  <2>1. sell' \in [Sells -> SellType]
    BY <1>6, SellSet DEF SellNotSent
  <2> QED BY <1>6, <2>1 DEF SellNotSent
<1>7. ASSUME NEW i \in Sells, SellSent(i) PROVE STypeOK'
  <2>1. sell' \in [Sells -> SellType]
    BY <1>7, SellSet DEF SellSent
  <2>2. asleep' \in Seq(SleepType)
    <3> DEFINE a == [what |-> "sell", order |-> i, price |-> 0, position |-> FALSE]
    <3>1. a \in SleepType
      <4>1. 0 \in 0..MaxPrice /\ FALSE \in BOOLEAN
        OBVIOUS
      <4> QED BY <4>1, SleepSet, Zenon
    <3>2. asleep' = Append(asleep, a)
      BY <1>7 DEF SellSent
    <3> HIDE DEF a
    <3> QED BY <3>1, <3>2
  <2> QED BY <1>7, <2>1, <2>2 DEF SellSent
<1>8. CASE SellAnswered
  <2>1. Head(asleep).order \in Sells /\ Tail(asleep) \in Seq(SleepType)
    BY <1>8, AsleepGet DEF SellAnswered
  <2>2. sell' \in [Sells -> SellType]
    <3> DEFINE i == Head(asleep).order
    <3>1. PICK row \in {"active", "closed"} :
             sell' = [sell EXCEPT ![i].at = "done", ![i].row = row]
      BY <1>8 DEF SellAnswered, RowOf
    <3>2. i \in Sells
      BY <2>1
    <3> HIDE DEF i
    <3>3. [[sell[i] EXCEPT !.at = "done"] EXCEPT !.row = row] \in SellType
      BY <3>2, SellSet
    <3> QED BY <3>1, <3>2, <3>3
  <2> QED BY <1>8, <2>1, <2>2 DEF SellAnswered
<1>9. CASE RunStarts
  <2>1. Idle(run.runs + 1) \in RunType
    <3>1. run.runs \in 0..MaxRuns /\ run.runs < MaxRuns
      BY <1>9, RunSet DEF RunStarts
    <3>2. run.runs + 1 \in 0..MaxRuns
      BY <3>1
    <3> QED BY <3>2, IdleType
  <2>2. run' \in RunType
    BY <1>9, <2>1, RunSet DEF RunStarts
  <2> QED BY <1>9, <2>2 DEF RunStarts
<1>10. CASE PositionsRead
  <2>1. run' \in RunType
    <3> DEFINE q == IF connected THEN held ELSE 0
    <3>1. q \in Int
      OBVIOUS
    <3>2. run' = [[run EXCEPT !.at = "orders"] EXCEPT !.qty = q]
      BY <1>10, Zenon DEF PositionsRead
    <3> HIDE DEF q
    <3>3. [run EXCEPT !.at = "orders"] \in RunType
      BY RunSet
    <3> QED BY <3>1, <3>2, <3>3, RunSet
  <2> QED BY <1>10, <2>1 DEF PositionsRead
<1>11. CASE OrdersRead
  <2>1. \A i \in OpenStops : sell[i].price \in 0..MaxPrice
    BY SellSet DEF OpenStops
  <2>2. run' \in RunType
    <3>1. PICK stop \in 0..MaxPrice, open \in SUBSET Sells :
             run' = [[[run EXCEPT !.at = "account"] EXCEPT !.stop = stop]
                        EXCEPT !.open = open]
      <4> DEFINE stops == IF connected /\ OpenStops # {}
                             THEN {sell[i].price : i \in OpenStops} ELSE {0}
                 opens == IF connected THEN {i \in Sells : sell[i].leg = "working"}
                                       ELSE {}
      <4>1. PICK stop \in stops :
               run' = [[[run EXCEPT !.at = "account"] EXCEPT !.stop = stop]
                          EXCEPT !.open = opens]
        BY <1>11, Zenon DEF OrdersRead
      <4>2. stop \in 0..MaxPrice
        BY <2>1
      <4>3. opens \in SUBSET Sells
        OBVIOUS
      <4> HIDE DEF stops, opens
      <4> QED BY <4>1, <4>2, <4>3
    <3>2. [run EXCEPT !.at = "account"] \in RunType
      BY RunSet
    <3> QED BY <3>1, <3>2, RunSet
  <2> QED BY <1>11, <2>2 DEF OrdersRead
<1>12. CASE RunEnds
  <2>1. \A i \in Sells : Reconciled(i) \in {"none", "active", "closed"}
    BY SellSet DEF Reconciled, RowOf
  <2>2. pos' \in PosType
    <3>1. run.qty \in Int /\ run.stop \in 0..MaxPrice
      BY RunSet
    <3>2. [qty |-> run.qty, stop |-> run.stop] \in PosType
          /\ [qty |-> run.qty, stop |-> 1] \in PosType
      BY <3>1 DEF PosType
    <3> QED BY <1>12, <3>2 DEF RunEnds, Adopted
  <2>3. sell' \in [Sells -> SellType]
    BY <1>12, <2>1, SellSet DEF RunEnds
  <2>4. run' \in RunType
    BY <1>12, IdleType, RunSet DEF RunEnds
  <2> QED BY <1>12, <2>2, <2>3, <2>4 DEF RunEnds
<1>13. ASSUME NEW i \in Sells, TwsFills(i) PROVE STypeOK'
  <2>1. sell' \in [Sells -> SellType]
    BY <1>13, SellSet DEF TwsFills
  <2>2. held' \in Int
    <3>1. sell[i] \in SellType
      OBVIOUS
    <3>2. sell[i].qty \in 0..Held
      BY <3>1, SellSet
    <3> QED BY <1>13, <3>2 DEF TwsFills
  <2> QED BY <1>13, <2>1, <2>2 DEF TwsFills
<1>14. ASSUME NEW i \in Sells, TwsDrops(i) PROVE STypeOK'
  <2>1. sell' \in [Sells -> SellType]
    BY <1>14, SellSet DEF TwsDrops
  <2> QED BY <1>14, <2>1 DEF TwsDrops
<1>15. CASE Disconnect
  <2>1. drops' \in 0..MaxDrops
    BY <1>15 DEF Disconnect
  <2>2. connected' \in BOOLEAN
    BY <1>15 DEF Disconnect
  <2> QED BY <1>15, <2>1, <2>2, Zenon DEF Disconnect
<1>16. CASE Reconnect
  BY <1>16 DEF Reconnect
<1>17. CASE UNCHANGED svars
  BY <1>17 DEF svars
<1> QED
  BY <1>1, <1>2, <1>3, <1>4, <1>5, <1>6, <1>7, <1>8, <1>9, <1>10, <1>11,
     <1>12, <1>13, <1>14, <1>15, <1>16, <1>17 DEF SNext, Prices

\* Type correctness: no step of any of the four writers leaves the types.
THEOREM StopTypes == SSpec => []STypeOK
<1> QED
  BY InitTypeOK, NextTypeOK, PTL DEF SSpec

-----------------------------------------------------------------------------
(* The inductive invariant.                                                *)

\* What a step of one field leaves of the others.
LEMMA SellGet ==
    ASSUME NEW s \in SellType, NEW v, NEW t
    PROVE  /\ t = [s EXCEPT !.rowPrice = v]
              => t.rowPrice = v /\ t.price = s.price
                 /\ t.at = s.at /\ t.leg = s.leg /\ t.row = s.row
           /\ t = [s EXCEPT !.price = v]
              => t.price = v /\ t.rowPrice = s.rowPrice
                 /\ t.at = s.at /\ t.leg = s.leg /\ t.row = s.row
           /\ t = [s EXCEPT !.at = v]
              => t.at = v /\ t.rowPrice = s.rowPrice /\ t.price = s.price
                 /\ t.leg = s.leg /\ t.row = s.row
           /\ t = [s EXCEPT !.leg = v]
              => t.leg = v /\ t.rowPrice = s.rowPrice /\ t.price = s.price
                 /\ t.at = s.at /\ t.row = s.row
           /\ t = [s EXCEPT !.row = v]
              => t.row = v /\ t.rowPrice = s.rowPrice /\ t.price = s.price
                 /\ t.at = s.at /\ t.leg = s.leg
BY DEF SellType

LEMMA Popped ==
    ASSUME STypeOK, asleep # << >>, asleep' = Tail(asleep)
    PROVE  /\ Len(asleep) \in Nat \ {0} /\ Len(asleep') = Len(asleep) - 1
           /\ Head(asleep) = asleep[1]
           /\ \A k \in 1..Len(asleep') : asleep'[k] = asleep[k + 1]
BY DEF STypeOK

LEMMA Pushed ==
    ASSUME STypeOK, NEW a, asleep' = Append(asleep, a)
    PROVE  /\ Len(asleep) \in Nat /\ Len(asleep') = Len(asleep) + 1
           /\ asleep'[Len(asleep) + 1] = a
           /\ \A k \in 1..Len(asleep) : asleep'[k] = asleep[k]
BY DEF STypeOK

LEMMA Orders ==
    ASSUME STypeOK, NEW k \in 1..Len(asleep)
    PROVE  asleep[k].order \in Sells
<1>1. asleep[k] \in SleepType
  BY DEF STypeOK
<1> QED
  BY <1>1 DEF SleepType

\* A step that leaves the orders, their rows and the sleepers alone.
LEMMA Untouched ==
    ASSUME Queue, UNCHANGED <<n, sell, asleep>>
    PROVE  Queue'
BY DEF Queue, Fresh, Covered, Asked, Asleep, OneSell, Newest, Modifying

LEMMA InitQueue == SInit => Queue
<1> SUFFICES ASSUME SInit PROVE Queue
  OBVIOUS
<1>1. Len(asleep) = 0
  BY DEF SInit
<1>2. PICK row \in {"none", "active"} :
         sell = [i \in Sells |-> IF i = 1 THEN Protective(row) ELSE Unused]
  BY DEF SInit
<1>3. \A i \in Sells : Fresh(i) /\ Covered(i) /\ Asked(i)
  BY <1>1, <1>2, Sizes DEF Fresh, Covered, Asked, Newest, Sells, Protective, Unused, SInit
<1> QED
  BY <1>1, <1>3 DEF Queue, Asleep, OneSell

\* The answer to a modification: the row of the order is written with the
\* price of the oldest sleeper, unless the order no longer works.
LEMMA AnsweredQueue ==
    ASSUME STypeOK, Queue, ModifyAnswered
    PROVE  Queue'
<1> DEFINE L == Len(asleep)
<1>1. /\ L \in Nat \ {0} /\ Len(asleep') = L - 1
      /\ Head(asleep) = asleep[1]
      /\ \A k \in 1..Len(asleep') : asleep'[k] = asleep[k + 1]
  BY Popped DEF ModifyAnswered
<1>2. PICK i \in Sells : i = asleep[1].order
  BY <1>1, AsleepGet DEF ModifyAnswered
<1>a. asleep[1].what = "modify" /\ n' = n
  BY <1>1 DEF ModifyAnswered
<1>b. \A k \in 1..L : asleep[k].order \in Sells
  BY Orders
<1>3. sell[i].at = "done"
  BY <1>1, <1>2, <1>a DEF Queue, Asleep
<1>4. /\ sell' = sell \/ sell' = [sell EXCEPT ![i].rowPrice = asleep[1].price]
      /\ sell[i].leg = "working" => sell' = [sell EXCEPT ![i].rowPrice = asleep[1].price]
  BY <1>1, <1>2 DEF ModifyAnswered, Answers, Answer
<1>5. \A j \in Sells : j # i => sell'[j] = sell[j]
  BY <1>2, <1>4 DEF STypeOK
<1>6. /\ sell'[i].at = sell[i].at /\ sell'[i].leg = sell[i].leg
      /\ sell'[i].price = sell[i].price /\ sell'[i].row = sell[i].row
      /\ sell[i].leg = "working" => sell'[i].rowPrice = asleep[1].price
  <2>1. sell[i] \in SellType
    BY DEF STypeOK
  <2>2. sell'[i] = sell[i] \/ sell'[i] = [sell[i] EXCEPT !.rowPrice = asleep[1].price]
    BY <1>4 DEF STypeOK
  <2>3. sell[i].leg = "working" => sell'[i] = [sell[i] EXCEPT !.rowPrice = asleep[1].price]
    BY <1>4 DEF STypeOK
  <2>4. CASE sell'[i] = sell[i]
    BY <2>1, <2>3, <2>4, SellGet
  <2>5. CASE sell'[i] = [sell[i] EXCEPT !.rowPrice = asleep[1].price]
    BY <2>1, <2>5, SellGet
  <2> QED BY <2>2, <2>4, <2>5
<1>7. \A j \in Sells : Fresh(j)' /\ Asked(j)'
  <2>1. ~ (i > n)
    BY <1>3 DEF Queue, Fresh, Unused
  <2> QED BY <1>a, <1>3, <1>5, <1>6, <2>1 DEF Queue, Fresh, Asked
<1>8. \A k \in 1..Len(asleep') : Asleep(k)'
  <2> SUFFICES ASSUME NEW k \in 1..Len(asleep') PROVE Asleep(k)'
    OBVIOUS
  <2>1. \A j \in Sells : sell'[j].at = sell[j].at
    BY <1>5, <1>6
  <2>2. k + 1 \in 1..L /\ asleep'[k] = asleep[k + 1]
    BY <1>1
  <2>3. Asleep(k + 1) /\ asleep[k + 1].order \in Sells
    BY <1>b, <2>2 DEF Queue
  <2> QED BY <2>1, <2>2, <2>3 DEF Asleep
<1>9. \A j, k \in 1..Len(asleep') : OneSell(j, k)'
  BY <1>1 DEF Queue, OneSell
<1>10. ASSUME NEW j \in Sells PROVE Covered(j)'
  <2>1. \A k \in 1..Len(asleep') : Newest(j, k)' => Newest(j, k + 1)
    <3> SUFFICES ASSUME NEW k \in 1..Len(asleep'), Newest(j, k)',
                        NEW l \in 1..Len(asleep), l > k + 1
                 PROVE  /\ asleep[k + 1].what = "modify" /\ asleep[k + 1].order = j
                        /\ ~ (asleep[l].what = "modify" /\ asleep[l].order = j)
      BY <1>1 DEF Newest
    <3>1. l - 1 \in 1..Len(asleep') /\ l - 1 > k /\ asleep'[l - 1] = asleep[l]
      BY <1>1
    <3>2. asleep'[k] = asleep[k + 1]
      BY <1>1
    <3> QED BY <3>1, <3>2 DEF Newest
  <2>2. CASE j # i
    <3>1. Modifying(j) => Modifying(j)'
      <4> SUFFICES ASSUME NEW k \in 1..Len(asleep), asleep[k].what = "modify",
                          asleep[k].order = j
                   PROVE  Modifying(j)'
        BY DEF Modifying
      <4>1. k # 1
        BY <1>2, <2>2
      <4>2. k - 1 \in 1..Len(asleep') /\ asleep'[k - 1] = asleep[k]
        BY <4>1, <1>1
      <4> QED BY <4>2 DEF Modifying
    <3> QED BY <1>1, <1>5, <2>1, <2>2, <3>1 DEF Queue, Covered
  <2>3. CASE j = i
    <3>1. ~ Modifying(i)' => Newest(i, 1)
      <4> SUFFICES ASSUME ~ Modifying(i)', NEW l \in 1..Len(asleep), l > 1,
                          asleep[l].what = "modify", asleep[l].order = i
                   PROVE  FALSE
        BY <1>1, <1>2, <1>a DEF Newest
      <4>1. l - 1 \in 1..Len(asleep') /\ asleep'[l - 1] = asleep[l]
        BY <1>1
      <4> QED BY <4>1 DEF Modifying
    <3>2. sell[i].leg = "working" /\ ~ Modifying(i)'
             => sell'[i].rowPrice >= sell'[i].price
      <4>1. sell[i] \in SellType
        BY <1>2 DEF STypeOK
      <4>2. sell[i].price \in Int
        <5>1. sell[i].price \in 0..MaxPrice
          BY <4>1, SellSet
        <5> QED BY <5>1, Sizes
      <4> QED BY <1>1, <1>6, <3>1, <4>2 DEF Queue, Covered
    <3>3. ASSUME NEW k \in 1..Len(asleep'), Newest(i, k)', sell[i].leg = "working"
          PROVE  asleep'[k].price = sell'[i].price
      <4>1. Newest(i, k + 1) /\ k + 1 \in 1..Len(asleep) /\ asleep'[k] = asleep[k + 1]
        BY <3>3, <1>1, <2>1, <2>3
      <4> QED BY <4>1, <3>3, <1>6 DEF Queue, Covered
    <3> QED BY <1>6, <2>3, <3>2, <3>3 DEF Covered
  <2> QED BY <2>2, <2>3
<1> QED
  BY <1>7, <1>8, <1>9, <1>10 DEF Queue

\* modify_stop sends: the newest sleeper carries the price TWS now has.
LEMMA SentQueue ==
    ASSUME STypeOK, Queue, NEW p \in Prices, ModifySent(p)
    PROVE  Queue'
<1>1. PICK s \in Sells : s = StopRow /\ sell[s].row = "active"
  BY StopRowIsActive DEF ModifySent
<1>2. PICK a : a.what = "modify" /\ a.order = s /\ a.price = p
               /\ asleep' = Append(asleep, a)
  BY <1>1 DEF ModifySent
<1>3. /\ Len(asleep) \in Nat /\ Len(asleep') = Len(asleep) + 1
      /\ asleep'[Len(asleep) + 1] = a
      /\ \A k \in 1..Len(asleep) : asleep'[k] = asleep[k]
  BY <1>2, Pushed
<1>4. \A k \in 1..Len(asleep) : asleep[k].order \in Sells
  BY Orders
<1>5. sell[s].at = "done" /\ ~ (s > n) /\ n' = n
  BY <1>1 DEF Queue, Fresh, Unused, ModifySent
<1>6. \A j \in Sells : j # s => sell'[j] = sell[j]
  BY <1>1 DEF ModifySent, STypeOK
<1>7. /\ sell'[s].at = sell[s].at /\ sell'[s].leg = sell[s].leg
      /\ sell'[s].row = sell[s].row
      /\ sell[s].leg = "working" => sell'[s].price = p
  <2>1. sell[s] \in SellType
    BY DEF STypeOK
  <2>2. PICK v : /\ sell'[s] = [sell[s] EXCEPT !.price = v]
                 /\ sell[s].leg = "working" => v = p
    BY <1>1 DEF ModifySent, STypeOK
  <2> QED BY <2>1, <2>2, SellGet
<1>8. \A j \in Sells : Fresh(j)' /\ Asked(j)'
  BY <1>5, <1>6, <1>7 DEF Queue, Fresh, Asked
<1>9. \A k \in 1..Len(asleep') : Asleep(k)'
  <2>1. \A j \in Sells : sell'[j].at = sell[j].at
    BY <1>6, <1>7
  <2> QED BY <1>2, <1>3, <1>4, <1>5, <2>1 DEF Queue, Asleep
<1>10. \A j, k \in 1..Len(asleep') : OneSell(j, k)'
  BY <1>2, <1>3 DEF Queue, OneSell
<1>11. ASSUME NEW j \in Sells PROVE Covered(j)'
  <2>1. CASE j # s
    <3>1. \A k \in 1..Len(asleep') : Newest(j, k)' => k \in 1..Len(asleep) /\ Newest(j, k)
      BY <1>2, <1>3, <2>1 DEF Newest
    <3>2. Modifying(j) => Modifying(j)'
      BY <1>3 DEF Modifying
    <3> QED BY <1>3, <1>6, <2>1, <3>1, <3>2 DEF Queue, Covered
  <2>2. CASE j = s
    <3>1. Modifying(s)'
      BY <1>2, <1>3 DEF Modifying
    <3>2. \A k \in 1..Len(asleep') : Newest(s, k)' => k = Len(asleep) + 1
      BY <1>2, <1>3 DEF Newest
    <3> QED BY <1>2, <1>3, <1>7, <2>2, <3>1, <3>2 DEF Covered
  <2> QED BY <2>1, <2>2
<1> QED
  BY <1>8, <1>9, <1>10, <1>11 DEF Queue

\* modify_stop writes the rows alone: no lower level than the row has.
LEMMA LocalQueue ==
    ASSUME STypeOK, Queue, NEW p \in Prices, ModifyLocally(p)
    PROVE  Queue'
<1>1. CASE StopRow = 0
  BY <1>1, Untouched DEF ModifyLocally
<1>2. CASE StopRow # 0
  <2>1. PICK s \in Sells : s = StopRow /\ sell[s].row = "active"
    BY <1>2, StopRowIsActive
  <2>2. UNCHANGED <<n, asleep>> /\ sell' = [sell EXCEPT ![s].rowPrice = p]
        /\ p >= sell[s].rowPrice
    BY <1>2, <2>1 DEF ModifyLocally, MayModify, CurrentStop
  <2>3. \A j \in Sells : j # s => sell'[j] = sell[j]
    BY <2>2 DEF STypeOK
  <2>4. /\ sell'[s].at = sell[s].at /\ sell'[s].leg = sell[s].leg
        /\ sell'[s].row = sell[s].row /\ sell'[s].price = sell[s].price
        /\ sell'[s].rowPrice = p
    <3>1. sell[s] \in SellType /\ sell'[s] = [sell[s] EXCEPT !.rowPrice = p]
      BY <2>2 DEF STypeOK
    <3> QED BY <3>1, SellGet
  <2>5. sell[s].at = "done" /\ ~ (s > n)
    BY <2>1 DEF Queue, Fresh, Unused
  <2>6. \A j \in Sells : Fresh(j)' /\ Asked(j)'
    BY <2>2, <2>3, <2>4, <2>5 DEF Queue, Fresh, Asked
  <2>7. \A k \in 1..Len(asleep') : Asleep(k)'
    <3>1. \A j \in Sells : sell'[j].at = sell[j].at
      BY <2>3, <2>4
    <3> QED BY <2>2, <3>1, Orders DEF Queue, Asleep
  <2>8. \A j, k \in 1..Len(asleep') : OneSell(j, k)'
    BY <2>2 DEF Queue, OneSell
  <2>9. ASSUME NEW j \in Sells PROVE Covered(j)'
    <3>1. CASE j # s
      BY <2>2, <2>3, <3>1 DEF Queue, Covered, Newest, Modifying
    <3>2. CASE j = s
      <4>1. sell[s].price \in 0..MaxPrice /\ sell[s].rowPrice \in 0..MaxPrice
        <5>1. sell[s] \in SellType
          BY DEF STypeOK
        <5> QED BY <5>1, SellSet
      <4>2. \A k \in 1..Len(asleep') : Newest(s, k)' => Newest(s, k)
        BY <2>2 DEF Newest
      <4>3. Modifying(s) => Modifying(s)'
        BY <2>2 DEF Modifying
      <4>4. sell[s].row # "none" /\ Covered(s)
        BY <2>1 DEF Queue
      <4>5. sell[s].leg = "working" /\ ~ Modifying(s)' => p >= sell[s].price
        BY <2>2, <4>1, <4>3, <4>4, Sizes DEF Covered, Prices
      <4> QED BY <2>2, <2>4, <3>2, <4>2, <4>4, <4>5 DEF Covered
    <3> QED BY <3>1, <3>2
  <2> QED BY <2>6, <2>7, <2>8, <2>9 DEF Queue
<1> QED
  BY <1>1, <1>2

\* A step of one order that does not work afterwards and that no coroutine
\* sleeps on, or whose wait it leaves alone.
LEMMA OneOrderQueue ==
    ASSUME STypeOK, Queue, NEW s \in Sells, asleep' = asleep,
           n' \in Int, n' >= n,
           \A j \in Sells : j # s => sell'[j] = sell[j],
           sell'[s].leg # "working", Fresh(s)', Asked(s)',
           sell'[s].at = sell[s].at \/ sell[s].at \in {"free", "qualify"}
    PROVE  Queue'
<1>1. \A j \in Sells : Fresh(j)' /\ Asked(j)'
  <2>1. \A j \in Sells : j > n' => j > n
    BY Sizes DEF STypeOK, Sells
  <2> QED BY <2>1 DEF Queue, Fresh, Asked
<1>2. \A k \in 1..Len(asleep') : Asleep(k)'
  BY Orders DEF Queue, Asleep
<1>3. \A j, k \in 1..Len(asleep') : OneSell(j, k)'
  BY DEF Queue, OneSell
<1>4. \A j \in Sells : Covered(j)'
  BY DEF Queue, Covered, Newest, Modifying
<1> QED
  BY <1>1, <1>2, <1>3, <1>4 DEF Queue

LEMMA ManualQueue ==
    ASSUME STypeOK, Queue, NEW kind, NEW qty, NEW p, ManualSell(kind, qty, p)
    PROVE  Queue'
<1>1. n + 1 \in Sells /\ n' = n + 1 /\ n \in Int /\ asleep' = asleep
  BY Sizes DEF ManualSell, STypeOK, Sells
<1>2. PICK s \in Sells : s = n + 1
  BY <1>1
<1>3. sell[s] = Unused
  BY <1>1, <1>2 DEF Queue, Fresh
<1>4. \A j \in Sells : j # s => sell'[j] = sell[j]
  BY <1>2 DEF ManualSell, STypeOK
<1>5. sell'[s] = [kind |-> kind, at |-> "qualify", leg |-> "none", qty |-> qty,
                  price |-> p, row |-> "none", rowPrice |-> p]
  BY <1>2 DEF ManualSell, STypeOK
<1>6. Fresh(s)' /\ Asked(s)'
  BY <1>1, <1>2, <1>5 DEF Fresh, Asked
<1>7. sell[s].at = "free" /\ sell'[s].leg # "working"
  BY <1>3, <1>5 DEF Unused
<1> QED
  BY <1>1, <1>4, <1>6, <1>7, OneOrderQueue

LEMMA NotSentQueue ==
    ASSUME STypeOK, Queue, NEW s \in Sells, SellNotSent(s)
    PROVE  Queue'
<1>1. n' = n /\ n \in Int /\ asleep' = asleep /\ sell[s].at = "qualify"
  BY Sizes DEF SellNotSent, STypeOK
<1>2. \A j \in Sells : j # s => sell'[j] = sell[j]
  BY DEF SellNotSent, STypeOK
<1>3. sell'[s].at = "done" /\ sell'[s].leg = sell[s].leg
  <2>1. sell[s] \in SellType /\ [sell[s] EXCEPT !.at = "done"] \in SellType
        /\ sell'[s] = [[sell[s] EXCEPT !.at = "done"] EXCEPT !.row = "closed"]
    BY SellSet DEF SellNotSent, STypeOK
  <2> QED BY <2>1, SellGet
<1>4. sell[s].leg = "none" /\ ~ (s > n)
  BY <1>1 DEF Queue, Fresh, Unused
<1>5. Fresh(s)' /\ Asked(s)'
  BY <1>1, <1>3, <1>4 DEF Fresh, Asked
<1> QED
  BY <1>1, <1>2, <1>3, <1>4, <1>5, OneOrderQueue

LEMMA TwsQueue ==
    ASSUME STypeOK, Queue, NEW s \in Sells, TwsFills(s) \/ TwsDrops(s)
    PROVE  Queue'
<1>1. PICK v \in {"filled", "gone"} : sell' = [sell EXCEPT ![s].leg = v]
  BY DEF TwsFills, TwsDrops
<1>2. n' = n /\ n \in Int /\ asleep' = asleep /\ sell[s].leg = "working"
  BY Sizes DEF TwsFills, TwsDrops, STypeOK
<1>3. \A j \in Sells : j # s => sell'[j] = sell[j]
  BY <1>1 DEF STypeOK
<1>4. /\ sell'[s].at = sell[s].at /\ sell'[s].leg = v
      /\ sell'[s].row = sell[s].row /\ sell'[s].price = sell[s].price
      /\ sell'[s].rowPrice = sell[s].rowPrice
  <2>1. sell[s] \in SellType /\ sell'[s] = [sell[s] EXCEPT !.leg = v]
    BY <1>1 DEF STypeOK
  <2> QED BY <2>1, SellGet
<1>5. ~ (s > n) /\ ~ (sell[s].at \in {"free", "qualify"})
  BY <1>2 DEF Queue, Fresh, Unused
<1>6. Fresh(s)' /\ Asked(s)'
  BY <1>2, <1>4, <1>5 DEF Queue, Fresh, Asked
<1> QED
  BY <1>2, <1>3, <1>4, <1>6, OneOrderQueue

\* A manual sell is placed: its row will show the level it is placed with.
LEMMA SellSentQueue ==
    ASSUME STypeOK, Queue, NEW s \in Sells, SellSent(s)
    PROVE  Queue'
<1>1. PICK a : a.what = "sell" /\ a.order = s /\ asleep' = Append(asleep, a)
  BY DEF SellSent
<1>2. /\ Len(asleep) \in Nat /\ Len(asleep') = Len(asleep) + 1
      /\ asleep'[Len(asleep) + 1] = a
      /\ \A k \in 1..Len(asleep) : asleep'[k] = asleep[k]
  BY <1>1, Pushed
<1>3. \A k \in 1..Len(asleep) : asleep[k].order \in Sells
  BY Orders
<1>4. n' = n /\ sell[s].at = "qualify"
  BY DEF SellSent
<1>5. ~ (s > n) /\ sell[s].row = "none" /\ sell[s].rowPrice = sell[s].price
  BY <1>4 DEF Queue, Fresh, Asked, Unused
<1>6. \A j \in Sells : j # s => sell'[j] = sell[j]
  BY DEF SellSent, STypeOK
<1>7. /\ sell'[s].at = "sent" /\ sell'[s].row = "none"
      /\ sell'[s].rowPrice = sell'[s].price
      /\ sell'[s].price \in Int
  <2>1. sell[s] \in SellType /\ [sell[s] EXCEPT !.at = "sent"] \in SellType
        /\ sell'[s] = [[sell[s] EXCEPT !.at = "sent"] EXCEPT !.leg = "working"]
    BY SellSet DEF SellSent, STypeOK
  <2>2. sell[s].price \in 0..MaxPrice
    BY <2>1, SellSet
  <2> QED BY <2>1, <2>2, <1>5, Sizes, SellGet
<1>8. \A k \in 1..Len(asleep) : asleep[k].order # s \/ ~ (asleep[k].what \in {"modify", "sell"})
  BY <1>4 DEF Queue, Asleep
<1>9. \A j \in Sells : Fresh(j)' /\ Asked(j)'
  BY <1>4, <1>5, <1>6, <1>7 DEF Queue, Fresh, Asked
<1>10. \A k \in 1..Len(asleep') : Asleep(k)'
  BY <1>1, <1>2, <1>3, <1>6, <1>7, <1>8 DEF Queue, Asleep
<1>11. \A j, k \in 1..Len(asleep') : OneSell(j, k)'
  BY <1>1, <1>2, <1>8 DEF Queue, OneSell
<1>12. ASSUME NEW j \in Sells PROVE Covered(j)'
  <2>1. \A k \in 1..Len(asleep') : Newest(j, k)' => k \in 1..Len(asleep) /\ Newest(j, k)
    BY <1>1, <1>2 DEF Newest
  <2>2. Modifying(j) => Modifying(j)'
    BY <1>2 DEF Modifying
  <2>3. CASE j # s
    BY <1>2, <1>6, <2>1, <2>2, <2>3 DEF Queue, Covered
  <2>4. CASE j = s
    BY <1>7, <1>8, <2>1, <2>4 DEF Covered, Newest
  <2> QED BY <2>3, <2>4
<1> QED
  BY <1>9, <1>10, <1>11, <1>12 DEF Queue

\* The answer to a manual sell: from here on its row counts.
LEMMA SellAnsweredQueue ==
    ASSUME STypeOK, Queue, SellAnswered
    PROVE  Queue'
<1>1. /\ Len(asleep) \in Nat \ {0} /\ Len(asleep') = Len(asleep) - 1
      /\ Head(asleep) = asleep[1]
      /\ \A k \in 1..Len(asleep') : asleep'[k] = asleep[k + 1]
  BY Popped DEF SellAnswered
<1>2. PICK s \in Sells : s = asleep[1].order
  BY <1>1, AsleepGet DEF SellAnswered
<1>3. asleep[1].what = "sell" /\ n' = n
  BY <1>1 DEF SellAnswered
<1>4. \A k \in 1..Len(asleep) : asleep[k].order \in Sells
  BY Orders
<1>5. sell[s].at = "sent" /\ ~ (s > n)
  BY <1>1, <1>2, <1>3 DEF Queue, Asleep, Fresh, Unused
<1>6. PICK row \in {"active", "closed"} :
         sell' = [sell EXCEPT ![s].at = "done", ![s].row = row]
  BY <1>1, <1>2 DEF SellAnswered, RowOf
<1>7. \A j \in Sells : j # s => sell'[j] = sell[j]
  BY <1>6 DEF STypeOK
<1>8. /\ sell'[s].at = "done" /\ sell'[s].leg = sell[s].leg
      /\ sell'[s].rowPrice = sell[s].rowPrice /\ sell'[s].price = sell[s].price
  <2>1. sell[s] \in SellType /\ [sell[s] EXCEPT !.at = "done"] \in SellType
        /\ sell'[s] = [[sell[s] EXCEPT !.at = "done"] EXCEPT !.row = row]
    BY <1>6, SellSet DEF STypeOK
  <2> QED BY <2>1, SellGet
<1>9. \A k \in 2..Len(asleep) : asleep[k].order # s \/ ~ (asleep[k].what \in {"modify", "sell"})
  BY <1>1, <1>2, <1>3, <1>5 DEF Queue, Asleep, OneSell
<1>10. \A j \in Sells : Fresh(j)' /\ Asked(j)'
  BY <1>3, <1>5, <1>7, <1>8 DEF Queue, Fresh, Asked
<1>11. \A k \in 1..Len(asleep') : Asleep(k)'
  <2> SUFFICES ASSUME NEW k \in 1..Len(asleep') PROVE Asleep(k)'
    OBVIOUS
  <2>1. k + 1 \in 2..Len(asleep) /\ asleep'[k] = asleep[k + 1]
    BY <1>1
  <2> QED BY <1>4, <1>7, <1>8, <1>9, <2>1 DEF Queue, Asleep
<1>12. \A j, k \in 1..Len(asleep') : OneSell(j, k)'
  BY <1>1 DEF Queue, OneSell
<1>13. ASSUME NEW j \in Sells PROVE Covered(j)'
  <2>1. \A k \in 1..Len(asleep') : Newest(j, k)' => Newest(j, k + 1)
    <3> SUFFICES ASSUME NEW k \in 1..Len(asleep'), Newest(j, k)',
                        NEW l \in 1..Len(asleep), l > k + 1
                 PROVE  /\ asleep[k + 1].what = "modify" /\ asleep[k + 1].order = j
                        /\ ~ (asleep[l].what = "modify" /\ asleep[l].order = j)
      BY <1>1 DEF Newest
    <3>1. l - 1 \in 1..Len(asleep') /\ l - 1 > k /\ asleep'[l - 1] = asleep[l]
      BY <1>1
    <3>2. asleep'[k] = asleep[k + 1]
      BY <1>1
    <3> QED BY <3>1, <3>2 DEF Newest
  <2>2. Modifying(j) => Modifying(j)'
    <3> SUFFICES ASSUME NEW k \in 1..Len(asleep), asleep[k].what = "modify",
                        asleep[k].order = j
                 PROVE  Modifying(j)'
      BY DEF Modifying
    <3>1. k - 1 \in 1..Len(asleep') /\ asleep'[k - 1] = asleep[k]
      BY <1>1, <1>3
    <3> QED BY <3>1 DEF Modifying
  <2>3. CASE j # s
    BY <1>1, <1>7, <2>1, <2>2, <2>3 DEF Queue, Covered
  <2>4. CASE j = s
    <3>1. Covered(s) /\ sell[s].at # "done"
      BY <1>5 DEF Queue
    <3> QED BY <1>1, <1>8, <2>1, <2>2, <2>4, <3>1 DEF Covered
  <2> QED BY <2>3, <2>4
<1> QED
  BY <1>10, <1>11, <1>12, <1>13 DEF Queue

\* A reconciliation run rewrites the status of rows; it creates none.
LEMMA RunEndsQueue ==
    ASSUME STypeOK, Queue, RunEnds
    PROVE  Queue'
<1>1. n' = n /\ asleep' = asleep
      /\ \A i \in Sells : sell'[i] = [sell[i] EXCEPT !.row = Reconciled(i)]
  BY DEF RunEnds
<1>2. \A i \in Sells : Reconciled(i) = "none" <=> sell[i].row = "none"
  BY DEF Reconciled, RowOf
<1>3. ASSUME NEW i \in Sells
      PROVE  /\ sell'[i].at = sell[i].at /\ sell'[i].leg = sell[i].leg
             /\ sell'[i].price = sell[i].price /\ sell'[i].rowPrice = sell[i].rowPrice
             /\ sell'[i].row = Reconciled(i)
  <2>1. sell[i] \in SellType
    BY DEF STypeOK
  <2>2. sell'[i] = [sell[i] EXCEPT !.row = Reconciled(i)]
    BY <1>1
  <2> QED BY <2>1, <2>2, SellGet
<1>4. \A i \in Sells : Fresh(i)' /\ Asked(i)'
  <2> SUFFICES ASSUME NEW i \in Sells PROVE Fresh(i)' /\ Asked(i)'
    OBVIOUS
  <2>1. sell[i] = Unused => sell'[i] = Unused
    BY <1>1, <1>2 DEF Unused
  <2> QED BY <1>1, <1>2, <1>3, <2>1 DEF Queue, Fresh, Asked
<1>5. \A k \in 1..Len(asleep') : Asleep(k)'
  BY <1>1, <1>3, Orders DEF Queue, Asleep
<1>6. \A j, k \in 1..Len(asleep') : OneSell(j, k)'
  BY <1>1 DEF Queue, OneSell
<1>7. ASSUME NEW j \in Sells PROVE Covered(j)'
  BY <1>1, <1>2, <1>3 DEF Queue, Covered, Newest, Modifying
<1> QED
  BY <1>4, <1>5, <1>6, <1>7 DEF Queue

LEMMA NextIInv == IInv /\ [SNext]_svars => IInv'
<1> SUFFICES ASSUME STypeOK, Queue, [SNext]_svars PROVE Queue'
  BY NextTypeOK DEF IInv
<1>1. ASSUME NEW p \in Prices, ModifySent(p) \/ ModifyLocally(p) \/ RaiseSignal(p)
      PROVE  Queue'
  BY <1>1, SentQueue, LocalQueue, Untouched DEF RaiseSignal
<1>2. CASE ModifyAnswered \/ SellAnswered
  BY <1>2, AnsweredQueue, SellAnsweredQueue
<1>3. ASSUME NEW qty \in 1..Held, NEW p \in 0..MaxPrice,
             NEW kind \in {"stop", "plain"}, ManualSell(kind, qty, p)
      PROVE  Queue'
  BY <1>3, ManualQueue
<1>4. ASSUME NEW i \in Sells, SellNotSent(i) \/ SellSent(i) PROVE Queue'
  BY <1>4, NotSentQueue, SellSentQueue
<1>5. CASE RunStarts \/ PositionsRead \/ OrdersRead
  BY <1>5, Untouched DEF RunStarts, PositionsRead, OrdersRead
<1>6. CASE RunEnds
  BY <1>6, RunEndsQueue
<1>7. ASSUME NEW i \in Sells, TwsFills(i) \/ TwsDrops(i) PROVE Queue'
  BY <1>7, TwsQueue
<1>8. CASE Disconnect \/ Reconnect \/ UNCHANGED svars
  BY <1>8, Untouched DEF Disconnect, Reconnect, svars
<1> QED
  BY <1>1, <1>2, <1>3, <1>4, <1>5, <1>6, <1>7, <1>8 DEF SNext

-----------------------------------------------------------------------------
(* The theorems.                                                           *)

\* The lowering check of modify_stop never compares with less than the level
\* TWS holds: between modifications the active row of a working stop covers
\* it, however long the connection was lost and whatever was written offline.
THEOREM RowsCoverTheirStops == SSpec => []RowCoversTws
<1>1. SInit => IInv
  BY InitTypeOK, InitQueue DEF IInv
<1>2. IInv => RowCoversTws
  BY DEF IInv, Queue, Covered, RowCoversTws
<1> QED
  BY <1>1, <1>2, NextIInv, PTL DEF SSpec

\* A step that lowers the level of a working order at TWS finds an earlier
\* modification of that order still asleep.
LEMMA LoweringStep ==
    ASSUME IInv, [SNext]_svars, NEW i \in Sells,
           sell[i].leg = "working", sell'[i].price < sell[i].price
    PROVE  Modifying(i)
<1> SUFFICES sell'[i].price < sell[i].price => Modifying(i)
  OBVIOUS
<1>1. sell[i] \in SellType /\ sell[i].price \in Int
  <2>1. sell[i] \in SellType
    BY DEF IInv, STypeOK
  <2>2. sell[i].price \in 0..MaxPrice
    BY <2>1, SellSet
  <2> QED BY <2>1, <2>2, Sizes
<1> DEFINE Kept == sell'[i].price = sell[i].price
<1>a. Kept => ~ (sell'[i].price < sell[i].price)
  BY <1>1
<1>2. ASSUME NEW p \in Prices, ModifySent(p) PROVE sell'[i].price < sell[i].price => Modifying(i)
  <2>1. PICK s \in Sells : s = StopRow /\ sell[s].row = "active"
    BY <1>2, StopRowIsActive DEF ModifySent, IInv
  <2>2. i # s => sell'[i] = sell[i]
    BY <1>2, <2>1 DEF ModifySent, IInv, STypeOK
  <2>3. CASE i # s
    BY <2>2, <2>3, <1>a
  <2>4. CASE i = s
    <3>1. sell'[i] = [sell[i] EXCEPT !.price = p]
      BY <1>2, <2>1, <2>4 DEF ModifySent, IInv, STypeOK
    <3>2. sell'[i].price = p
      BY <3>1, <1>1, SellGet
    <3>3. p >= sell[i].rowPrice
      BY <1>2, <2>1, <2>4 DEF ModifySent, MayModify, CurrentStop
    <3>4. ~ Modifying(i) => sell[i].rowPrice >= sell[i].price
      BY <2>1, <2>4 DEF IInv, Queue, Covered
    <3>5. sell[i].rowPrice \in 0..MaxPrice
      BY <1>1, SellSet
    <3> QED BY <1>1, <3>2, <3>3, <3>4, <3>5, Sizes DEF Prices
  <2> QED BY <2>3, <2>4
<1>3. ASSUME NEW p \in Prices, ModifyLocally(p) PROVE Kept
  <2>1. CASE StopRow = 0
    BY <1>3, <2>1 DEF ModifyLocally
  <2>2. CASE StopRow # 0
    <3>1. sell'[i] = sell[i] \/ sell'[i] = [sell[i] EXCEPT !.rowPrice = p]
      BY <1>3, <2>2 DEF ModifyLocally, IInv, STypeOK
    <3> QED BY <3>1, <1>1, SellGet
  <2> QED BY <2>1, <2>2
<1>4. CASE ModifyAnswered
  <2>1. PICK m : sell' = sell \/ sell' = [sell EXCEPT ![m.order].rowPrice = m.price]
    BY <1>4 DEF ModifyAnswered
  <2>2. sell'[i] = sell[i] \/ sell'[i] = [sell[i] EXCEPT !.rowPrice = m.price]
    BY <2>1 DEF IInv, STypeOK
  <2>3. Kept
    BY <2>2, <1>1, SellGet
  <2> QED BY <2>3, <1>a
<1>5. ASSUME NEW qty \in 1..Held, NEW p \in 0..MaxPrice,
             NEW kind \in {"stop", "plain"}, ManualSell(kind, qty, p)
      PROVE  Kept
  <2>1. i # n + 1
    <3>1. i = n + 1 => i > n
      BY Sizes DEF Sells, IInv, STypeOK
    <3> QED BY <3>1 DEF IInv, Queue, Fresh, Unused
  <2> QED BY <1>5, <2>1 DEF ManualSell, IInv, STypeOK
<1>6. ASSUME NEW j \in Sells, SellNotSent(j) PROVE Kept
  <2>1. CASE i = j
    <3>1. sell[i].at = "qualify"
      BY <1>6, <2>1 DEF SellNotSent
    <3> QED BY <3>1 DEF IInv, Queue, Fresh
  <2> QED BY <1>6, <2>1 DEF SellNotSent, IInv, STypeOK
<1>7. ASSUME NEW j \in Sells, SellSent(j) PROVE Kept
  <2>1. CASE i = j
    <3>1. sell[i].at = "qualify"
      BY <1>7, <2>1 DEF SellSent
    <3> QED BY <3>1 DEF IInv, Queue, Fresh
  <2> QED BY <1>7, <2>1 DEF SellSent, IInv, STypeOK
<1>8. CASE SellAnswered
  <2>1. PICK row : sell'[i] = sell[i]
                   \/ sell'[i] = [[sell[i] EXCEPT !.at = "done"] EXCEPT !.row = row]
    BY <1>8 DEF SellAnswered, IInv, STypeOK
  <2>2. [sell[i] EXCEPT !.at = "done"] \in SellType
    BY <1>1, SellSet
  <2>3. Kept
    <3>1. CASE sell'[i] = [[sell[i] EXCEPT !.at = "done"] EXCEPT !.row = row]
      BY <3>1, <2>2, <1>1, SellGet
    <3> QED BY <2>1, <3>1
  <2> QED BY <2>3, <1>a
<1>9. CASE RunEnds
  <2>1. sell'[i] = [sell[i] EXCEPT !.row = Reconciled(i)]
    BY <1>9 DEF RunEnds
  <2> QED BY <2>1, <1>1, <1>a, SellGet
<1>10. ASSUME NEW j \in Sells, TwsFills(j) \/ TwsDrops(j) PROVE Kept
  <2>1. PICK v : sell'[i] = sell[i] \/ sell'[i] = [sell[i] EXCEPT !.leg = v]
    BY <1>10 DEF TwsFills, TwsDrops, IInv, STypeOK
  <2> QED BY <2>1, <1>1, SellGet
<1>11. CASE UNCHANGED sell
  BY <1>11, <1>1
<1>12. CASE RunStarts \/ PositionsRead \/ OrdersRead \/ Disconnect \/ Reconnect
            \/ (\E p \in Prices : RaiseSignal(p)) \/ UNCHANGED svars
  <2>1. UNCHANGED sell
    BY <1>12 DEF RunStarts, PositionsRead, OrdersRead, Disconnect, Reconnect,
                 RaiseSignal, svars
  <2> QED BY <1>11, <2>1
<1> HIDE DEF Kept
<1> QED
  BY <1>a, <1>2, <1>3, <1>4, <1>5, <1>6, <1>7, <1>8, <1>9, <1>10, <1>12 DEF SNext

\* One modification of a stop after the other never lowers it at TWS.
THEOREM NoLoweringWithoutOverlap == SSpec => LoweredOnlyByOverlap
<1>1. SInit => IInv
  BY InitTypeOK, InitQueue DEF IInv
<1>2. IInv /\ [SNext]_svars
         => [\A i \in Sells :
                sell[i].leg = "working" /\ sell'[i].price < sell[i].price
                   => Modifying(i)]_svars
  BY LoweringStep
<1> QED
  BY <1>1, <1>2, NextIInv, PTL DEF SSpec, LoweredOnlyByOverlap
=============================================================================
