--------------------------- MODULE ReadingsProofs ---------------------------
(***************************************************************************)
(* Proofs about Readings, for every number of slots and cells, any blocks  *)
(* and whatever the lines say.                                             *)
(*                                                                         *)
(* 1. What the loop does with the rows, whatever a parser returns: the     *)
(*    totals, and what is published (DataInv).                             *)
(* 2. What the loops of the parser compute.  A recursive function that     *)
(*    walks a sequence is what its first value and its turns determine     *)
(*    (Recursion), and an induction is over the indices of that sequence,  *)
(*    with a set in the place of a predicate (InductUpTo): Selected,       *)
(*    FlattenSeq and the walk over the header.                             *)
(* 3. On a plain layout the walk gives every field the place of its column *)
(*    (RightlyIndexed), the omitted SOC label included, so a row holds     *)
(*    what its own columns say.                                            *)
(* 4. On a typed layout a transform refuses exactly the tokens a person    *)
(*    cannot read as what the column is, so a table keeps exactly the      *)
(*    lines a person can read (PwrKeeps, BatKeeps).                        *)
(***************************************************************************)
EXTENDS Readings, TLAPS, SequenceTheorems, WellFoundedInduction

BatteryFields == {"sys_id", "values", "age", "detail", "cells"}

\* The batteries are a function into records, never an arbitrary value.
Shape ==
  /\ batteries = [i \in DOMAIN batteries |-> batteries[i]]
  /\ \A i \in DOMAIN batteries : DOMAIN batteries[i] = BatteryFields
  /\ DOMAIN totals = {"over", "age"}

\* From the command that listed the batteries to the publication.
Listed == {"detail", "stat", "cells", "parse", "publish"}

BatteriesAreOfThisPoll ==
  pc \in Listed =>
    /\ DOMAIN batteries # {} /\ totals.age = "now"
    /\ \A i \in DOMAIN batteries :
         /\ batteries[i].age = "now" /\ batteries[i].cells.age # "old"
         /\ \A k \in DetailKeys : batteries[i].detail[k] # "old"

CountersAreOfThisPoll == pc = "publish" => stat # "old"

DataInv ==
  /\ Shape /\ TotalsMatchBatteries
  /\ BatteriesAreOfThisPoll /\ CountersAreOfThisPoll

(***************************************************************************)
(* A new object, read from a row or from a block, is of this poll.         *)
(***************************************************************************)
New(battery, sys_id) ==
  /\ DOMAIN battery = BatteryFields
  /\ battery.sys_id = sys_id /\ battery.age = "now" /\ battery.cells.age = "none"

LEMMA BatteryIsNew ==
  ASSUME NEW s, NEW v
  PROVE  New(Battery(s, v), s) /\ \A k \in DetailKeys : Battery(s, v).detail[k] = "none"
  BY DEF New, Battery, BatteryFields, NoDetail, NoCells

LEMMA IndexedBatteryIsNew ==
  ASSUME NEW s, NEW block
  PROVE  /\ New(IndexedBattery(s, block), s)
         /\ \A k \in DetailKeys : IndexedBattery(s, block).detail[k] # "old"
  BY BatteryIsNew DEF New, IndexedBattery, BatteryFields

LEMMA EmptyFunction ==
  ASSUME NEW f, f = [x \in DOMAIN f |-> f[x]], DOMAIN f = {}
  PROVE  f = <<>>
  OBVIOUS

LEMMA InitData == Init => DataInv
  BY DEF Init, DataInv, Shape, TotalsMatchBatteries, BatteriesAreOfThisPoll,
         CountersAreOfThisPoll, SysIds, Listed

(***************************************************************************)
(* The two ways of listing the batteries establish everything at once:     *)
(* whatever follows has at least one, read in this poll, and its totals.   *)
(***************************************************************************)
LEMMA NewList ==
  ASSUME NEW bs, bs = [i \in DOMAIN bs |-> bs[i]],
         \A i \in DOMAIN bs :
           /\ DOMAIN bs[i] = BatteryFields
           /\ bs[i].age = "now" /\ bs[i].cells.age # "old"
           /\ \A k \in DetailKeys : bs[i].detail[k] # "old",
         batteries' = bs, totals' = _aggregate_pwr(bs),
         pc' \in Listed => bs # <<>>, pc' # "publish"
  PROVE  DataInv'
<1>1. Shape'
  BY DEF Shape, _aggregate_pwr
<1>2. TotalsMatchBatteries'
  BY DEF TotalsMatchBatteries, _aggregate_pwr, SysIds
<1>3. BatteriesAreOfThisPoll'
  BY EmptyFunction DEF BatteriesAreOfThisPoll, _aggregate_pwr
<1>4. CountersAreOfThisPoll'
  BY DEF CountersAreOfThisPoll
<1> QED BY <1>1, <1>2, <1>3, <1>4 DEF DataInv

LEMMA FetchPwrKeepsData ==
  ASSUME NEW states, FetchPwr(states)
  PROVE  DataInv'
<1> DEFINE rows == parse_table(PWR_TABLE_SCHEMA,
                     TextOf(firmware.pwr, TRUE, states, [i \in DOMAIN states |-> i]))
           bs   == BuildBatteries(rows)
<1>1. batteries' = bs /\ totals' = _aggregate_pwr(batteries') /\ pc' = AfterPwr(batteries')
  BY DEF FetchPwr
<1> HIDE DEF rows
<1>2. bs = [i \in DOMAIN bs |-> bs[i]]
  BY DEF BuildBatteries
<1>3. \A i \in DOMAIN bs : /\ New(bs[i], rows[i].sys_id.battery)
                           /\ \A k \in DetailKeys : bs[i].detail[k] = "none"
  BY BatteryIsNew DEF BuildBatteries
<1> HIDE DEF bs
<1>4. pc' \in Listed => bs # <<>>
  BY <1>1 DEF AfterPwr, Listed
<1>5. pc' # "publish"
  BY <1>1 DEF AfterPwr
<1>6. totals' = _aggregate_pwr(bs)
  BY <1>1
<1> QED BY <1>1, <1>2, <1>3, <1>4, <1>5, <1>6, NewList DEF New

LEMMA FetchIndexedKeepsData ==
  ASSUME NEW blocks, FetchIndexed(blocks)
  PROVE  DataInv'
<1> DEFINE slots == PresentSlots(blocks)
           bs    == [i \in DOMAIN slots |-> IndexedBattery(slots[i], blocks[slots[i]])]
<1>1. batteries' = bs /\ totals' = _aggregate_pwr(batteries')
  BY DEF FetchIndexed
<1>2. (pc' = "stat" /\ batteries' # <<>>) \/ pc' = "start"
  BY DEF FetchIndexed, Error
<1> HIDE DEF slots
<1>3. \A i \in DOMAIN bs : /\ New(bs[i], slots[i])
                           /\ \A k \in DetailKeys : bs[i].detail[k] # "old"
  BY IndexedBatteryIsNew
<1>4. bs = [i \in DOMAIN bs |-> bs[i]]
  OBVIOUS
<1> HIDE DEF bs
<1>5. /\ totals' = _aggregate_pwr(bs)
      /\ pc' \in Listed => bs # <<>>
      /\ pc' # "publish"
  BY <1>1, <1>2 DEF Listed
<1> QED BY <1>1, <1>3, <1>4, <1>5, NewList DEF New

(***************************************************************************)
(* The steps that change the batteries in place keep the list, its totals  *)
(* and their age; only the top of the loop makes them old, and then        *)
(* nothing is listed until a table or a probe has replaced them.           *)
(***************************************************************************)
LEMMA StartPollKeepsData ==
  ASSUME DataInv, StartPoll
  PROVE  DataInv'
<1>1. /\ batteries' = Aged(batteries)
      /\ totals' = [totals EXCEPT !.age = Older(@)]
      /\ pc' \notin Listed
  BY DEF StartPoll, Listed
<1>2. /\ DOMAIN batteries' = DOMAIN batteries
      /\ batteries' = [i \in DOMAIN batteries' |-> batteries'[i]]
  BY <1>1 DEF Aged
<1>3. ASSUME NEW i \in DOMAIN batteries
      PROVE  /\ DOMAIN batteries'[i] = BatteryFields
             /\ batteries'[i].sys_id = batteries[i].sys_id
             /\ batteries'[i].age = Older(batteries[i].age)
  BY <1>1, <1>3 DEF Aged, DataInv, Shape, BatteryFields
<1>4. Shape'
  BY <1>1, <1>2, <1>3 DEF DataInv, Shape
<1>5. TotalsMatchBatteries'
  <2>1. totals'.over = totals.over /\ totals'.age = Older(totals.age)
    BY <1>1 DEF DataInv, Shape
  <2>2. SysIds(batteries') = SysIds(batteries)
    BY <1>2, <1>3 DEF SysIds
  <2> QED BY <1>2, <1>3, <2>1, <2>2 DEF DataInv, TotalsMatchBatteries
<1>6. BatteriesAreOfThisPoll' /\ CountersAreOfThisPoll'
  BY <1>1 DEF BatteriesAreOfThisPoll, CountersAreOfThisPoll, Listed
<1> QED BY <1>4, <1>5, <1>6 DEF DataInv

LEMMA EnrichKeepsData ==
  ASSUME DataInv, NEW blocks, NEW failing, Enrich(blocks, failing)
  PROVE  DataInv'
<1>1. pc = "detail" /\ pc' = "stat" /\ totals' = totals
  BY DEF Enrich
<1>2. /\ DOMAIN batteries' = DOMAIN batteries
      /\ batteries' = [i \in DOMAIN batteries' |-> batteries'[i]]
  BY DEF Enrich
<1>3. ASSUME NEW i \in DOMAIN batteries
      PROVE  /\ DOMAIN batteries'[i] = BatteryFields
             /\ batteries'[i].sys_id = batteries[i].sys_id
             /\ batteries'[i].age = batteries[i].age
             /\ batteries'[i].cells = batteries[i].cells
             /\ \A k \in DetailKeys : batteries'[i].detail[k] # "old"
  <2>1. \A k \in DetailKeys : batteries[i].detail[k] # "old"
    BY <1>1 DEF DataInv, BatteriesAreOfThisPoll, Listed
  <2>2. DOMAIN batteries[i] = BatteryFields
    BY DEF DataInv, Shape
  <2> DEFINE answer == parse_keyvalue(blocks[batteries[i].sys_id])
  <2>3. batteries'[i] = IF batteries[i].sys_id \in failing \/ ~answer.battery
                        THEN batteries[i]
                        ELSE [batteries[i] EXCEPT !.detail =
                                [k \in DetailKeys |-> IF k \in answer.fields
                                                      THEN "now" ELSE "none"]]
    BY DEF Enrich
  <2> HIDE DEF answer
  <2> QED BY <2>1, <2>2, <2>3 DEF BatteryFields
<1>4. Shape'
  BY <1>1, <1>2, <1>3 DEF DataInv, Shape
<1>5. TotalsMatchBatteries'
  <2>1. SysIds(batteries') = SysIds(batteries)
    BY <1>2, <1>3 DEF SysIds
  <2> QED BY <1>1, <1>2, <1>3, <2>1 DEF DataInv, TotalsMatchBatteries
<1>6. BatteriesAreOfThisPoll' /\ CountersAreOfThisPoll'
  BY <1>1, <1>2, <1>3 DEF DataInv, BatteriesAreOfThisPoll, CountersAreOfThisPoll, Listed
<1> QED BY <1>4, <1>5, <1>6 DEF DataInv

LEMMA FetchCellsKeepsData ==
  ASSUME DataInv, NEW states, NEW header, NEW failing,
         FetchCells(states, header, failing)
  PROVE  DataInv'
<1> DEFINE Rows(b) == parse_table(BAT_TABLE_SCHEMA,
                        TextOf(firmware.bat, header, states, [i \in DOMAIN states |-> b]))
           cells(i) == [rows |-> Rows(batteries[i].sys_id), from |-> states,
                        header |-> header, age |-> "now"]
<1>1. pc = "cells" /\ pc' = "parse" /\ totals' = totals
  BY DEF FetchCells
<1>2. batteries' = [i \in DOMAIN batteries |->
                      IF batteries[i].sys_id \in failing THEN batteries[i]
                      ELSE [batteries[i] EXCEPT !.cells = cells(i)]]
  BY DEF FetchCells
<1>3. \A i : cells(i).age = "now"
  OBVIOUS
<1> HIDE DEF cells
<1>4. /\ DOMAIN batteries' = DOMAIN batteries
      /\ batteries' = [i \in DOMAIN batteries' |-> batteries'[i]]
  BY <1>2
<1>5. ASSUME NEW i \in DOMAIN batteries
      PROVE  /\ DOMAIN batteries'[i] = BatteryFields
             /\ batteries'[i].sys_id = batteries[i].sys_id
             /\ batteries'[i].age = batteries[i].age
             /\ batteries'[i].detail = batteries[i].detail
             /\ batteries'[i].cells.age # "old"
  BY <1>1, <1>2, <1>3 DEF DataInv, Shape, BatteriesAreOfThisPoll, BatteryFields, Listed
<1>6. Shape'
  BY <1>1, <1>4, <1>5 DEF DataInv, Shape
<1>7. TotalsMatchBatteries'
  <2>1. SysIds(batteries') = SysIds(batteries)
    BY <1>4, <1>5 DEF SysIds
  <2> QED BY <1>1, <1>4, <1>5, <2>1 DEF DataInv, TotalsMatchBatteries
<1>8. BatteriesAreOfThisPoll' /\ CountersAreOfThisPoll'
  BY <1>1, <1>4, <1>5 DEF DataInv, BatteriesAreOfThisPoll, CountersAreOfThisPoll, Listed
<1> QED BY <1>6, <1>7, <1>8 DEF DataInv

\* The steps that change neither the batteries nor their totals.
LEMMA OtherStepKeepsData ==
  ASSUME DataInv, UNCHANGED <<batteries, totals>>,
         pc' \in Listed => pc \in Listed, pc' = "publish" => stat' # "old"
  PROVE  DataInv'
  BY DEF DataInv, Shape, TotalsMatchBatteries, BatteriesAreOfThisPoll,
         CountersAreOfThisPoll

LEMMA NextKeepsData == DataInv /\ [Next]_vars => DataInv'
<1> SUFFICES ASSUME DataInv, [Next]_vars PROVE DataInv'
  OBVIOUS
<1>1. CASE StartPoll
  BY <1>1, StartPollKeepsData
<1>2. CASE \E reported \in SUBSET InfoKeys : FetchInfo(reported)
  BY <1>2, OtherStepKeepsData DEF FetchInfo, Listed
<1>3. CASE \E states \in [1 .. Slots -> firmware.pwrStates] : FetchPwr(states)
  BY <1>3, FetchPwrKeepsData
<1>4. CASE FetchPwrUnusable
  BY <1>4, OtherStepKeepsData DEF FetchPwrUnusable, system, Listed
<1>5. CASE \E blocks \in [1 .. Slots -> Blocks] : FetchIndexed(blocks)
  BY <1>5, FetchIndexedKeepsData
<1>6. CASE \E blocks \in [1 .. Slots -> Blocks], failing \in SUBSET (1 .. Slots) :
             Enrich(blocks, failing)
  BY <1>6, EnrichKeepsData
<1>7. CASE FetchStat
  BY <1>7, OtherStepKeepsData DEF FetchStat, system, Listed
<1>8. CASE \E states \in [1 .. Cells -> firmware.batStates], header \in BOOLEAN,
              failing \in SUBSET (1 .. Slots) : FetchCells(states, header, failing)
  BY <1>8, FetchCellsKeepsData
<1>9. CASE \E counters, stamp \in BOOLEAN : ParseStat(counters, stamp)
  BY <1>9, OtherStepKeepsData DEF ParseStat, StatRead, Listed
<1>10. CASE Publish
  BY <1>10, OtherStepKeepsData DEF Publish, system, Listed
<1>11. CASE Fail
  BY <1>11, OtherStepKeepsData DEF Fail, Error, Listed
<1>12. CASE UNCHANGED vars
  BY <1>12, OtherStepKeepsData DEF vars, system, DataInv, CountersAreOfThisPoll
<1> QED
  BY <1>1, <1>2, <1>3, <1>4, <1>5, <1>6, <1>7, <1>8, <1>9, <1>10, <1>11, <1>12 DEF Next

LEMMA DataIsSound == Spec => []DataInv
  BY InitData, NextKeepsData, PTL DEF Spec

(***************************************************************************)
(* The totals are always those of the batteries listed beside them, of the *)
(* same poll (_aggregate_pwr, _fetch_batteries_indexed).                   *)
(***************************************************************************)
THEOREM TotalsAreOfTheBatteries == Spec => []TotalsMatchBatteries
<1>1. DataInv => TotalsMatchBatteries
  BY DEF DataInv
<1> QED BY <1>1, DataIsSound, PTL

(***************************************************************************)
(* Nothing but the device info and the clock survives into a later payload:*)
(* no battery, no total, no detail, no cell and no counter (main).         *)
(***************************************************************************)
THEOREM PublicationIsFresh == Spec => []PublishedIsOfThisPoll
<1>1. DataInv => PublishedIsOfThisPoll
  <2> SUFFICES ASSUME DataInv, pc = "publish"
      PROVE  /\ batteries # <<>> /\ totals.age = "now" /\ stat # "old"
             /\ \A i \in DOMAIN batteries :
                  /\ batteries[i].age = "now" /\ batteries[i].cells.age # "old"
                  /\ \A k \in DetailKeys : batteries[i].detail[k] # "old"
    BY DEF PublishedIsOfThisPoll
  <2> QED BY DEF DataInv, BatteriesAreOfThisPoll, CountersAreOfThisPoll, Listed
<1> QED BY <1>1, DataIsSound, PTL

(***************************************************************************)
(* The info fields and the clock, once known, are known for good           *)
(* (parse_loose_keys, always_set = False).                                 *)
(***************************************************************************)
THEOREM NothingKnownIsForgotten == Spec => KnownIsKept
<1>1. [Next]_vars => [info \subseteq info' /\ (bms_time # "none" => bms_time' # "none")]_vars
  BY DEF Next, vars, system, StartPoll, Older, FetchInfo, FetchPwr, FetchPwrUnusable,
         FetchIndexed, Enrich, FetchStat, FetchCells, ParseStat, TimeRead, Publish,
         Fail, Error
<1> QED BY <1>1, PTL DEF Spec, KnownIsKept

-----------------------------------------------------------------------------
(***************************************************************************)
(* Induction over natural numbers, with a set in the place of a predicate, *)
(* and the functions that a first value and a next one determine.          *)
(***************************************************************************)
LEMMA Least ==
  ASSUME NEW T \in SUBSET Nat, T # {}
  PROVE  \E n \in T : \A m \in T : ~(m < n)
<1> DEFINE R == {ss \in Nat \X Nat : ss[1] < ss[2]}
<1>1. IsWellFoundedOn(R, Nat)
  BY NatLessThanWellFounded DEF OpToRel
<1>2. \E x \in T : \A y \in T : ~ (<<y, x>> \in R)
  BY <1>1, WFMin, Zenon
<1>3. \A x, y \in Nat : y < x => <<y, x>> \in R
  OBVIOUS
<1> QED BY <1>2, <1>3

LEMMA InductUpTo ==
  ASSUME NEW n \in Nat, NEW S, 0 \in S, \A i \in S : i \in Nat /\ i < n => i + 1 \in S
  PROVE  \A i \in 0 .. n : i \in S
<1> DEFINE T == {i \in 0 .. n : i \notin S}
<1> SUFFICES ASSUME T # {} PROVE FALSE
  OBVIOUS
<1>1. PICK m \in T : \A k \in T : ~(k < m)
  <2>1. T \in SUBSET Nat
    OBVIOUS
  <2> HIDE DEF T
  <2> QED BY <2>1, Least
<1>2. m # 0 /\ m \in 1 .. n
  BY <1>1
<1>3. m - 1 \in 0 .. n /\ m - 1 < m /\ m - 1 < n
  BY <1>2
<1>4. m - 1 \in S
  BY <1>1, <1>3
<1>5. m - 1 + 1 = m
  BY <1>2
<1>6. m \in S
  BY <1>3, <1>4, <1>5
<1> QED BY <1>1, <1>6

\* The values of a loop over 1 .. n: what it starts with, and what each turn
\* makes of it.
Turns(next, n, D) == next \in [1 .. n -> [D -> D]]

Follows(f, base, next, n, D) ==
  /\ f \in [0 .. n -> D] /\ f[0] = base
  /\ \A i \in 1 .. n : f[i] = next[i][f[i - 1]]

LEMMA Recursion ==
  ASSUME NEW n \in Nat, NEW D, NEW base \in D, NEW next, Turns(next, n, D)
  PROVE  \E f : Follows(f, base, next, n, D)
<1> USE DEF Turns
<1> DEFINE Upto(m, f) == /\ f \in [0 .. m -> D] /\ f[0] = base
                         /\ \A i \in 1 .. m : f[i] = next[i][f[i - 1]]
           S == {m \in 0 .. n : \E f : Upto(m, f)}
<1>1. 0 \in S
  <2>1. Upto(0, [i \in 0 .. 0 |-> base])
    OBVIOUS
  <2> HIDE DEF Upto
  <2> QED BY <2>1
<1>2. ASSUME NEW m \in S, m < n
      PROVE  m + 1 \in S
  <2>1. PICK f : Upto(m, f)
    OBVIOUS
  <2>2. m \in Nat /\ m + 1 \in 1 .. n /\ f[m] \in D
    BY <1>2, <2>1
  <2>3. next[m + 1][f[m]] \in D
    BY <2>2
  <2> DEFINE g == [i \in 0 .. m + 1 |-> IF i = m + 1 THEN next[m + 1][f[m]] ELSE f[i]]
  <2>4. g \in [0 .. m + 1 -> D] /\ g[0] = base
    BY <2>1, <2>2, <2>3
  <2>5. ASSUME NEW i \in 1 .. m + 1 PROVE g[i] = next[i][g[i - 1]]
    <3>1. CASE i = m + 1
      BY <2>2, <3>1
    <3>2. CASE i # m + 1
      <4>1. i \in 1 .. m /\ i \in 0 .. m + 1 /\ i - 1 \in 0 .. m + 1 /\ i - 1 # m + 1
        BY <2>2, <3>2
      <4>2. g[i] = f[i] /\ g[i - 1] = f[i - 1]
        BY <4>1, <3>2
      <4> QED BY <2>1, <4>1, <4>2
    <3> QED BY <3>1, <3>2
  <2>6. Upto(m + 1, g)
    BY <2>4, <2>5
  <2> HIDE DEF g, Upto
  <2> QED BY <2>2, <2>6
<1> HIDE DEF S
<1>3. n \in S
  <2>1. \A i \in S : i \in Nat /\ i < n => i + 1 \in S
    BY <1>2
  <2>2. \A i \in 0 .. n : i \in S
    BY <1>1, <2>1, InductUpTo
  <2> QED BY <2>2
<1> QED BY <1>3 DEF S, Follows

(***************************************************************************)
(* What Selected returns: the items at the kept positions, in order.       *)
(***************************************************************************)
Appends(upTo, items, kept) ==
  /\ upTo[0] = <<>>
  /\ \A i \in 1 .. Len(items) :
       upTo[i] = IF i \in kept THEN Append(upTo[i - 1], items[i]) ELSE upTo[i - 1]

LEMMA SelectedLoop ==
  ASSUME NEW D, NEW items \in Seq(D), NEW kept
  PROVE  \E upTo \in [0 .. Len(items) -> Seq(D)] :
           Appends(upTo, items, kept) /\ Selected(items, kept) = upTo[Len(items)]
<1> DEFINE n == Len(items)
           E == Seq(D)
           next == [i \in 1 .. n |-> [s \in Seq(D) |->
                      IF i \in kept THEN Append(s, items[i]) ELSE s]]
           Turn(f, i) == IF i = 0 THEN <<>>
                         ELSE IF i \in kept THEN Append(f[i - 1], items[i])
                         ELSE f[i - 1]
           Loop(f) == f = [i \in 0 .. n |-> Turn(f, i)]
<1>1. n \in Nat /\ <<>> \in E /\ Turns(next, n, E)
  BY DEF Turns
<1>2. PICK f : Follows(f, <<>>, next, n, E)
  <2> HIDE DEF next, n, E
  <2> QED BY <1>1, Recursion
<1>3. \A i \in 1 .. n : f[i] = IF i \in kept THEN Append(f[i - 1], items[i]) ELSE f[i - 1]
  <2> SUFFICES ASSUME NEW i \in 1 .. n
               PROVE  f[i] = IF i \in kept THEN Append(f[i - 1], items[i]) ELSE f[i - 1]
    OBVIOUS
  <2>1. i - 1 \in 0 .. n
    BY <1>1
  <2>2. f[i - 1] \in Seq(D)
    BY <1>2, <2>1 DEF Follows
  <2>3. f[i] = next[i][f[i - 1]]
    BY <1>2 DEF Follows
  <2> QED BY <2>2, <2>3
<1>4. Loop(f)
  <2>1. f = [i \in 0 .. n |-> f[i]]
    BY <1>2 DEF Follows
  <2>2. ASSUME NEW i \in 0 .. n PROVE f[i] = Turn(f, i)
    <3>1. i = 0 \/ i \in 1 .. n
      BY <1>1
    <3>2. CASE i = 0
      BY <1>2, <3>2 DEF Follows
    <3>3. CASE i \in 1 .. n
      BY <1>3, <3>3
    <3> QED BY <3>1, <3>2, <3>3
  <2> HIDE DEF Turn
  <2> QED BY <2>1, <2>2
<1>5. \A g : Loop(g) => g = f
  <2> SUFFICES ASSUME NEW g, Loop(g) PROVE g = f
    OBVIOUS
  <2>1. g = [i \in 0 .. n |-> g[i]] /\ \A i \in 0 .. n : g[i] = Turn(g, i)
    <3> HIDE DEF Turn
    <3> QED OBVIOUS
  <2> HIDE DEF Loop
  <2> DEFINE S == {i \in 0 .. n : g[i] = f[i]}
  <2>2. 0 \in S
    <3>1. 0 \in 0 .. n
      BY <1>1
    <3>2. g[0] = <<>>
      BY <2>1, <3>1
    <3>3. f[0] = <<>>
      BY <1>2 DEF Follows
    <3> QED BY <3>1, <3>2, <3>3
  <2>3. ASSUME NEW i \in S, i \in Nat /\ i < n PROVE i + 1 \in S
    <3>1. i + 1 \in 1 .. n /\ i + 1 - 1 = i /\ g[i] = f[i] /\ i + 1 \in 0 .. n /\ i + 1 # 0
      BY <1>1, <2>3
    <3> DEFINE j == i + 1
    <3>2. g[j] = IF j \in kept THEN Append(g[i], items[j]) ELSE g[i]
      <4>1. g[j] = Turn(g, j)
        BY <2>1, <3>1
      <4>2. j # 0 /\ j - 1 = i
        BY <3>1
      <4> QED BY <4>1, <4>2
    <3>3. f[j] = IF j \in kept THEN Append(f[i], items[j]) ELSE f[i]
      BY <1>3, <3>1
    <3>4. g[j] = f[j]
      BY <3>1, <3>2, <3>3
    <3> QED BY <3>1, <3>4
  <2>4. \A i \in 0 .. n : i \in S
    <3> HIDE DEF S, n
    <3> QED BY <1>1, <2>2, <2>3, InductUpTo
  <2>5. \A i \in 0 .. n : g[i] = f[i]
    BY <2>4
  <2> QED BY <1>2, <2>1, <2>5 DEF Follows
<1>6. Selected(items, kept) = f[n]
  <2>1. (CHOOSE g : Loop(g)) = f
    <3> HIDE DEF Loop
    <3> QED BY <1>4, <1>5
  <2> QED BY <2>1 DEF Selected
<1> QED BY <1>2, <1>3, <1>6 DEF Appends, Follows

\* A list of positions that picks out the items of another list.
Picks(pos, items, chosen) ==
  /\ Len(pos) = Len(chosen)
  /\ \A k \in 1 .. Len(pos) : pos[k] \in 1 .. Len(items) /\ chosen[k] = items[pos[k]]
  /\ \A j, k \in 1 .. Len(pos) : j < k => pos[j] < pos[k]

LEMMA SelectedIs ==
  ASSUME NEW D, NEW items \in Seq(D), NEW kept
  PROVE  \E pos \in Seq(Nat) :
           /\ Picks(pos, items, Selected(items, kept))
           /\ \A i : (\E k \in 1 .. Len(pos) : pos[k] = i) <=> i \in kept /\ i \in 1 .. Len(items)
           /\ Len(pos) <= Len(items) /\ Selected(items, kept) \in Seq(D)
<1> DEFINE n == Len(items)
<1>1. n \in Nat
  OBVIOUS
<1>2. PICK f \in [0 .. n -> Seq(D)] : Appends(f, items, kept) /\ Selected(items, kept) = f[n]
  BY SelectedLoop
<1> DEFINE Good(m, pos) ==
             /\ Len(pos) = Len(f[m])
             /\ \A k \in 1 .. Len(pos) : pos[k] \in 1 .. m /\ f[m][k] = items[pos[k]]
             /\ \A j, k \in 1 .. Len(pos) : j < k => pos[j] < pos[k]
             /\ \A i : (\E k \in 1 .. Len(pos) : pos[k] = i) <=> i \in kept /\ i \in 1 .. m
             /\ Len(pos) <= m
           S == {m \in 0 .. n : \E pos \in Seq(Nat) : Good(m, pos)}
<1>3. 0 \in S
  <2>1. Good(0, <<>>) /\ <<>> \in Seq(Nat) /\ 0 \in 0 .. n
    BY <1>1, <1>2 DEF Appends
  <2> HIDE DEF Good
  <2> QED BY <2>1
<1>4. ASSUME NEW m \in 0 .. n, m < n, NEW pos \in Seq(Nat), Good(m, pos)
      PROVE  \E q \in Seq(Nat) : Good(m + 1, q)
  <2>1. m \in Nat /\ m + 1 \in 1 .. n /\ m + 1 - 1 = m /\ f[m] \in Seq(D)
    BY <1>1, <1>2, <1>4
  <2>2. f[m + 1] = IF m + 1 \in kept THEN Append(f[m], items[m + 1]) ELSE f[m]
    <3> HIDE DEF Good
    <3>1. f[m + 1] = IF m + 1 \in kept THEN Append(f[m + 1 - 1], items[m + 1])
                     ELSE f[m + 1 - 1]
      BY <1>2, <2>1 DEF Appends
    <3> QED BY <2>1, <3>1
  <2>3. CASE m + 1 \notin kept
    <3>1. \A i : i \in kept /\ i \in 1 .. m + 1 <=> i \in kept /\ i \in 1 .. m
      BY <2>1, <2>3
    <3>2. Good(m + 1, pos)
      BY <1>4, <2>1, <2>2, <2>3, <3>1
    <3> HIDE DEF Good
    <3> QED BY <3>2
  <2>4. CASE m + 1 \in kept
    <3> DEFINE q == Append(pos, m + 1)
    <3>1. items[m + 1] \in D
      BY <2>1
    <3>2. /\ q \in Seq(Nat) /\ Len(q) = Len(pos) + 1 /\ q[Len(pos) + 1] = m + 1
          /\ \A k \in 1 .. Len(pos) : q[k] = pos[k]
      BY <2>1
    <3>3. /\ Len(f[m + 1]) = Len(f[m]) + 1
          /\ f[m + 1][Len(f[m]) + 1] = items[m + 1]
          /\ \A k \in 1 .. Len(f[m]) : f[m + 1][k] = f[m][k]
      BY <2>1, <2>2, <2>4, <3>1
    <3>4. Len(pos) \in Nat /\ Len(pos) = Len(f[m]) /\ Len(pos) <= m
      BY <1>4
    <3>5. 1 .. Len(q) = 1 .. Len(pos) \cup {Len(pos) + 1}
      BY <3>2, <3>4
    <3> HIDE DEF q
    <3>6. ASSUME NEW k \in 1 .. Len(q)
          PROVE  q[k] \in 1 .. m + 1 /\ f[m + 1][k] = items[q[k]]
      <4>1. CASE k \in 1 .. Len(pos)
        <5>1. pos[k] \in 1 .. m /\ f[m][k] = items[pos[k]]
          BY <1>4, <4>1
        <5>2. q[k] = pos[k] /\ f[m + 1][k] = f[m][k]
          BY <3>2, <3>3, <3>4, <4>1
        <5> QED BY <2>1, <5>1, <5>2
      <4>2. CASE k = Len(pos) + 1
        BY <2>1, <3>2, <3>3, <3>4, <4>2
      <4> QED BY <3>5, <4>1, <4>2
    <3>7. ASSUME NEW j \in 1 .. Len(q), NEW k \in 1 .. Len(q), j < k
          PROVE  q[j] < q[k]
      <4>1. j \in 1 .. Len(pos) /\ pos[j] \in 1 .. m /\ q[j] = pos[j]
        BY <1>4, <3>2, <3>4, <3>7
      <4>2. CASE k \in 1 .. Len(pos)
        <5>1. pos[j] < pos[k] /\ q[k] = pos[k]
          BY <1>4, <3>2, <3>7, <4>1, <4>2
        <5> QED BY <4>1, <5>1
      <4>3. CASE k = Len(pos) + 1
        BY <2>1, <3>2, <4>1, <4>3
      <4> QED BY <3>5, <4>2, <4>3
    <3>8. ASSUME NEW i PROVE (\E k \in 1 .. Len(q) : q[k] = i) <=> i \in kept /\ i \in 1 .. m + 1
      <4>1. CASE i = m + 1
        <5>1. Len(pos) + 1 \in 1 .. Len(q)
          BY <3>5
        <5> QED BY <2>1, <2>4, <3>2, <4>1, <5>1
      <4>2. CASE i # m + 1
        <5>1. i \in 1 .. m + 1 <=> i \in 1 .. m
          BY <2>1, <4>2
        <5>2. (\E k \in 1 .. Len(q) : q[k] = i) <=> (\E k \in 1 .. Len(pos) : pos[k] = i)
          BY <3>2, <3>5, <4>2
        <5> QED BY <1>4, <5>1, <5>2
      <4> QED BY <4>1, <4>2
    <3>9. Good(m + 1, q)
      BY <2>1, <3>2, <3>3, <3>4, <3>6, <3>7, <3>8
    <3> HIDE DEF Good
    <3> QED BY <3>2, <3>9
  <2> QED BY <2>3, <2>4
<1>5. n \in S
  <2> HIDE DEF Good
  <2>1. ASSUME NEW m \in S, m \in Nat /\ m < n PROVE m + 1 \in S
    <3>1. PICK pos \in Seq(Nat) : Good(m, pos)
      OBVIOUS
    <3>2. m \in 0 .. n /\ m + 1 \in 0 .. n
      BY <1>1, <2>1
    <3> QED BY <1>4, <2>1, <3>1, <3>2
  <2> HIDE DEF S
  <2> QED BY <1>1, <1>3, <2>1, InductUpTo
<1>6. PICK pos \in Seq(Nat) : Good(n, pos)
  BY <1>5
<1> QED BY <1>1, <1>2, <1>6 DEF Picks

-----------------------------------------------------------------------------
(***************************************************************************)
(* The two schemas: no label stands for two columns, no field for two, and *)
(* a named column is one token wide.                                       *)
(***************************************************************************)
SoundTransform(t) ==
  /\ "missing" \notin Transforms[t].takes
  /\ \A kind \in Transforms[t].takes : kind \notin Transforms[t].none

SoundColumn(c) ==
  /\ \E a, b : c.labels \in {<<a>>, <<a, b>>}
  /\ c.width \in {1, 2} /\ c.default \in Nat
  /\ c.field # NoName => c.width = 1
  /\ SoundTransform(c.transform)

SoundSchema(schema) ==
  /\ \A c \in ToSet(schema.columns) : SoundColumn(c)
  /\ \A c, d \in ToSet(schema.columns) : c.labels[1] = d.labels[1] => c = d
  /\ \A c, d \in Named(schema.columns) : c.field = d.field => c = d
  /\ schema.column = ByField(schema.columns)

LEMMA FieldColumn ==
  ASSUME NEW schema, SoundSchema(schema), NEW f \in Fields(schema)
  PROVE  /\ schema.column[f] \in ToSet(schema.columns)
         /\ schema.column[f].field = f /\ f # NoName
<1>1. PICK c \in Named(schema.columns) : c.field = f
  BY DEF SoundSchema, Fields, ByField
<1>2. schema.column[f] = CHOOSE d \in Named(schema.columns) : d.field = f
  BY DEF SoundSchema, Fields, ByField
<1>3. schema.column[f] \in Named(schema.columns) /\ schema.column[f].field = f
  BY <1>1, <1>2
<1> QED BY <1>3 DEF Named

LEMMA ColumnOfField ==
  ASSUME NEW schema, SoundSchema(schema), NEW c \in ToSet(schema.columns), c.field # NoName
  PROVE  c.field \in Fields(schema) /\ schema.column[c.field] = c
<1>1. c \in Named(schema.columns)
  BY DEF Named
<1>2. c.field \in Fields(schema)
  <2>1. c.field \in {d.field : d \in Named(schema.columns)}
    BY <1>1
  <2> QED BY <2>1 DEF SoundSchema, Fields, ByField
<1>3. schema.column[c.field] \in ToSet(schema.columns) /\ schema.column[c.field].field = c.field
  BY <1>2, FieldColumn
<1> QED BY <1>1, <1>2, <1>3 DEF SoundSchema, Named

LEMMA PwrColumns ==
  ToSet(PWR_COLUMNS) = {PWR_COLUMNS[i] : i \in 1 .. 16}
<1>1. DOMAIN PWR_COLUMNS = 1 .. 16
  BY DEF PWR_COLUMNS
<1> HIDE DEF PWR_COLUMNS
<1> QED BY <1>1 DEF ToSet

LEMMA PwrAt ==
  /\ PWR_COLUMNS[1] = ColumnSpec(<<"Power">>, "sys_id", 0, "required_int")
  /\ PWR_COLUMNS[2] = ColumnSpec(<<"Volt">>, "voltage", 1, "required_milli")
  /\ PWR_COLUMNS[3] = ColumnSpec(<<"Curr">>, "current", 2, "required_milli")
  /\ PWR_COLUMNS[4] = ColumnSpec(<<"Tempr">>, "temperature", 3, "required_milli")
  /\ PWR_COLUMNS[5] = ColumnSpec(<<"Tlow">>, "temp_low", 4, "optional_milli")
  /\ PWR_COLUMNS[6] = ColumnSpec(<<"Thigh">>, "temp_high", 5, "optional_milli")
  /\ PWR_COLUMNS[7] = ColumnSpec(<<"Vlow">>, "volt_low", 6, "optional_milli")
  /\ PWR_COLUMNS[8] = ColumnSpec(<<"Vhigh">>, "volt_high", 7, "optional_milli")
  /\ PWR_COLUMNS[9] = ColumnSpec(<<"Base.St">>, "status", 8, "required_str")
  /\ PWR_COLUMNS[10] = ColumnSpec(<<"Volt.St">>, "volt_status", 9, "optional_status")
  /\ PWR_COLUMNS[11] = ColumnSpec(<<"Curr.St">>, "curr_status", 10, "optional_status")
  /\ PWR_COLUMNS[12] = ColumnSpec(<<"Temp.St">>, "temp_status", 11, "optional_status")
  /\ PWR_COLUMNS[13] = ColumnSpec(<<"Coulomb">>, "soc", 12, "required_percent_int")
  /\ PWR_COLUMNS[14] = Unread(<<"Time">>, 2)
  /\ PWR_COLUMNS[15] = ColumnSpec(<<"B.V.St">>, "batt_volt_status", 15, "optional_status")
  /\ PWR_COLUMNS[16] = ColumnSpec(<<"B.T.St">>, "batt_temp_status", 16, "optional_status")
  BY DEF PWR_COLUMNS

PwrWords ==
  <<"Power", "Volt", "Curr", "Tempr", "Tlow", "Thigh", "Vlow", "Vhigh",
    "Base.St", "Volt.St", "Curr.St", "Temp.St", "Coulomb", "Time", "B.V.St",
    "B.T.St">>

PwrFields ==
  <<"sys_id", "voltage", "current", "temperature", "temp_low", "temp_high",
    "volt_low", "volt_high", "status", "volt_status", "curr_status",
    "temp_status", "soc", "None", "batt_volt_status", "batt_temp_status">>

LEMMA TransformsAreSound ==
  \A t \in {"required_int", "required_milli", "required_percent_int", "required_str",
            "optional_milli", "optional_status", "optional_str_by_bounds",
            "optional_int_by_bounds", "percent_int_or_zero"} :
    SoundTransform(t)
  BY DEF SoundTransform, Transforms, Kinds

LEMMA PwrSoundAt == \A i \in 1 .. 16 : SoundColumn(PWR_COLUMNS[i])
<1>1. \A w, f, d : \A t \in {"required_int", "required_milli", "required_percent_int",
                             "required_str", "optional_milli", "optional_status"} :
        d \in Nat => SoundColumn(ColumnSpec(<<w>>, f, d, t))
  BY TransformsAreSound DEF SoundColumn, ColumnSpec
<1>2. SoundColumn(Unread(<<"Time">>, 2))
  BY TransformsAreSound DEF SoundColumn, Unread, NoName
<1> QED BY <1>1, <1>2, PwrAt

LEMMA PwrWordAt == \A i \in 1 .. 16 : PWR_COLUMNS[i].labels[1] = PwrWords[i]
<1>1. \A w, f, t, d : d \in Nat => ColumnSpec(<<w>>, f, d, t).labels[1] = w
  BY DEF ColumnSpec
<1>2. Unread(<<"Time">>, 2).labels[1] = "Time"
  BY DEF Unread, NoName
<1> QED BY <1>1, <1>2, PwrAt DEF PwrWords

LEMMA PwrFieldAt == \A i \in 1 .. 16 : PWR_COLUMNS[i].field = PwrFields[i]
<1>1. \A w, f, t, d : d \in Nat => ColumnSpec(<<w>>, f, d, t).field = f
  BY DEF ColumnSpec
<1>2. Unread(<<"Time">>, 2).field = "None"
  BY DEF Unread, NoName
<1> QED BY <1>1, <1>2, PwrAt DEF PwrFields

LEMMA PwrWordsDiffer == \A i, j \in 1 .. 16 : PwrWords[i] = PwrWords[j] => i = j
  BY DEF PwrWords

LEMMA PwrFieldsDiffer ==
  \A i, j \in 1 .. 16 : PwrFields[i] = PwrFields[j] => i = j
  BY DEF PwrFields

LEMMA PwrSound == SoundSchema(PWR_TABLE_SCHEMA)
<1>1. PWR_TABLE_SCHEMA.columns = PWR_COLUMNS /\ PWR_TABLE_SCHEMA.column = ByField(PWR_COLUMNS)
  BY DEF PWR_TABLE_SCHEMA
<1> HIDE DEF PWR_TABLE_SCHEMA, PWR_COLUMNS
<1>2. \A c \in ToSet(PWR_COLUMNS) : \E i \in 1 .. 16 : c = PWR_COLUMNS[i]
  BY PwrColumns
<1>3. \A c \in ToSet(PWR_COLUMNS) : SoundColumn(c)
  BY <1>2, PwrSoundAt
<1>4. ASSUME NEW c \in ToSet(PWR_COLUMNS), NEW d \in ToSet(PWR_COLUMNS), c.labels[1] = d.labels[1]
      PROVE  c = d
  <2>1. PICK i \in 1 .. 16, j \in 1 .. 16 : c = PWR_COLUMNS[i] /\ d = PWR_COLUMNS[j]
    BY <1>2
  <2>2. PwrWords[i] = PwrWords[j]
    BY <1>4, <2>1, PwrWordAt
  <2>3. i = j
    BY <2>2, PwrWordsDiffer
  <2> QED BY <2>1, <2>3
<1>5. ASSUME NEW c \in Named(PWR_COLUMNS), NEW d \in Named(PWR_COLUMNS), c.field = d.field
      PROVE  c = d
  <2>1. PICK i \in 1 .. 16, j \in 1 .. 16 : c = PWR_COLUMNS[i] /\ d = PWR_COLUMNS[j]
    BY <1>2 DEF Named
  <2>2. PwrFields[i] = PwrFields[j]
    BY <1>5, <2>1, PwrFieldAt
  <2>3. i = j
    BY <2>2, PwrFieldsDiffer
  <2> QED BY <2>1, <2>3
<1> QED BY <1>1, <1>3, <1>4, <1>5 DEF SoundSchema

LEMMA BatColumns ==
  ToSet(BAT_COLUMNS) = {BAT_COLUMNS[i] : i \in 1 .. 10}
<1>1. DOMAIN BAT_COLUMNS = 1 .. 10
  BY DEF BAT_COLUMNS
<1> HIDE DEF BAT_COLUMNS
<1> QED BY <1>1 DEF ToSet

LEMMA BatAt ==
  /\ BAT_COLUMNS[1] = ColumnSpec(<<"Battery">>, "cell_id", 0, "required_int")
  /\ BAT_COLUMNS[2] = ColumnSpec(<<"Volt">>, "voltage", 1, "required_milli")
  /\ BAT_COLUMNS[3] = ColumnSpec(<<"Curr">>, "current", 2, "required_milli")
  /\ BAT_COLUMNS[4] = ColumnSpec(<<"Tempr">>, "temperature", 3, "required_milli")
  /\ BAT_COLUMNS[5] = ColumnSpec(<<"Base", "State">>, "base_state", 4, "required_str")
  /\ BAT_COLUMNS[6] = ColumnSpec(<<"Volt.", "State">>, "volt_status", 5, "optional_str_by_bounds")
  /\ BAT_COLUMNS[7] = ColumnSpec(<<"Curr.", "State">>, "curr_status", 6, "optional_str_by_bounds")
  /\ BAT_COLUMNS[8] = ColumnSpec(<<"Temp.", "State">>, "temp_status", 7, "optional_str_by_bounds")
  /\ BAT_COLUMNS[9] = ColumnSpec(<<"SOC">>, "soc", 8, "percent_int_or_zero")
  /\ BAT_COLUMNS[10] = ColumnSpec(<<"Coulomb">>, "capacity", 9, "optional_int_by_bounds")
  BY DEF BAT_COLUMNS

BatWords ==
  <<"Battery", "Volt", "Curr", "Tempr", "Base", "Volt.", "Curr.", "Temp.",
    "SOC", "Coulomb">>

BatFields ==
  <<"cell_id", "voltage", "current", "temperature", "base_state",
    "volt_status", "curr_status", "temp_status", "soc", "capacity">>

LEMMA BatSoundAt == \A i \in 1 .. 10 : SoundColumn(BAT_COLUMNS[i])
<1>1. \A w, f, d : \A t \in {"required_int", "required_milli", "percent_int_or_zero",
                             "optional_int_by_bounds"} :
        d \in Nat => SoundColumn(ColumnSpec(<<w>>, f, d, t))
  BY TransformsAreSound DEF SoundColumn, ColumnSpec
<1>2. \A w, v, f, d : \A t \in {"required_str", "optional_str_by_bounds"} :
        d \in Nat => SoundColumn(ColumnSpec(<<w, v>>, f, d, t))
  BY TransformsAreSound DEF SoundColumn, ColumnSpec
<1> QED BY <1>1, <1>2, BatAt

LEMMA BatWordAt == \A i \in 1 .. 10 : BAT_COLUMNS[i].labels[1] = BatWords[i]
<1>1. \A w, f, t, d : d \in Nat => ColumnSpec(<<w>>, f, d, t).labels[1] = w
  BY DEF ColumnSpec
<1>2. \A w, v, f, t, d : d \in Nat => ColumnSpec(<<w, v>>, f, d, t).labels[1] = w
  BY DEF ColumnSpec
<1> QED BY <1>1, <1>2, BatAt DEF BatWords

LEMMA BatFieldAt == \A i \in 1 .. 10 : BAT_COLUMNS[i].field = BatFields[i]
<1>1. \A w, f, t, d : d \in Nat => ColumnSpec(<<w>>, f, d, t).field = f
  BY DEF ColumnSpec
<1>2. \A w, v, f, t, d : d \in Nat => ColumnSpec(<<w, v>>, f, d, t).field = f
  BY DEF ColumnSpec
<1> QED BY <1>1, <1>2, BatAt DEF BatFields

LEMMA BatWordsDiffer == \A i, j \in 1 .. 10 : BatWords[i] = BatWords[j] => i = j
  BY DEF BatWords

LEMMA BatFieldsDiffer ==
  \A i, j \in 1 .. 10 : BatFields[i] = BatFields[j] => i = j
  BY DEF BatFields

LEMMA BatSound == SoundSchema(BAT_TABLE_SCHEMA)
<1>1. BAT_TABLE_SCHEMA.columns = BAT_COLUMNS /\ BAT_TABLE_SCHEMA.column = ByField(BAT_COLUMNS)
  BY DEF BAT_TABLE_SCHEMA
<1> HIDE DEF BAT_TABLE_SCHEMA, BAT_COLUMNS
<1>2. \A c \in ToSet(BAT_COLUMNS) : \E i \in 1 .. 10 : c = BAT_COLUMNS[i]
  BY BatColumns
<1>3. \A c \in ToSet(BAT_COLUMNS) : SoundColumn(c)
  BY <1>2, BatSoundAt
<1>4. ASSUME NEW c \in ToSet(BAT_COLUMNS), NEW d \in ToSet(BAT_COLUMNS), c.labels[1] = d.labels[1]
      PROVE  c = d
  <2>1. PICK i \in 1 .. 10, j \in 1 .. 10 : c = BAT_COLUMNS[i] /\ d = BAT_COLUMNS[j]
    BY <1>2
  <2>2. BatWords[i] = BatWords[j]
    BY <1>4, <2>1, BatWordAt
  <2>3. i = j
    BY <2>2, BatWordsDiffer
  <2> QED BY <2>1, <2>3
<1>5. ASSUME NEW c \in Named(BAT_COLUMNS), NEW d \in Named(BAT_COLUMNS), c.field = d.field
      PROVE  c = d
  <2>1. PICK i \in 1 .. 10, j \in 1 .. 10 : c = BAT_COLUMNS[i] /\ d = BAT_COLUMNS[j]
    BY <1>2 DEF Named
  <2>2. BatFields[i] = BatFields[j]
    BY <1>5, <2>1, BatFieldAt
  <2>3. i = j
    BY <2>2, BatFieldsDiffer
  <2> QED BY <2>1, <2>3
<1> QED BY <1>1, <1>3, <1>4, <1>5 DEF SoundSchema

-----------------------------------------------------------------------------
(***************************************************************************)
(* Where FlattenSeq puts the elements of each of its sequences.            *)
(***************************************************************************)
Concatenates(f, seqs) ==
  /\ f[0] = <<>>
  /\ \A j \in 1 .. Len(seqs) : f[j] = f[j - 1] \o seqs[j]

LEMMA FlattenLoop ==
  ASSUME NEW S, NEW seqs \in Seq(Seq(S))
  PROVE  \E f \in [0 .. Len(seqs) -> Seq(S)] :
           Concatenates(f, seqs) /\ FlattenSeq(seqs) = f[Len(seqs)]
<1> DEFINE n == Len(seqs)
           E == Seq(S)
           next == [j \in 1 .. n |-> [s \in E |-> s \o seqs[j]]]
<1>1. n \in Nat /\ <<>> \in E /\ Turns(next, n, E)
  BY DEF Turns
<1>2. PICK f : Follows(f, <<>>, next, n, E)
  <2> HIDE DEF next, n, E
  <2> QED BY <1>1, Recursion
<1>3. f \in [0 .. n -> E] /\ f[0] = <<>>
  BY <1>2 DEF Follows
<1>4. ASSUME NEW j \in 1 .. n PROVE f[j] = f[j - 1] \o seqs[j]
  <2>1. j - 1 \in 0 .. n
    BY <1>1
  <2>2. f[j - 1] \in E
    BY <1>3, <2>1
  <2>3. f[j] = next[j][f[j - 1]]
    BY <1>2 DEF Follows
  <2> QED BY <2>2, <2>3
<1>5. Concatenates(f, seqs)
  BY <1>3, <1>4 DEF Concatenates
<1>6. CASE n = 0
  <2>1. FlattenSeq(seqs) = <<>>
    BY <1>6 DEF FlattenSeq
  <2> QED BY <1>3, <1>5, <1>6, <2>1
<1>7. CASE n # 0
  <2> DEFINE Turn(g, j) == IF j = 1 THEN seqs[j] ELSE g[j - 1] \o seqs[j]
             Loop(g) == g = [j \in 1 .. n |-> Turn(g, j)]
             h == [j \in 1 .. n |-> f[j]]
  <2>1. \A j \in 1 .. n : h[j] = Turn(h, j)
    <3> SUFFICES ASSUME NEW j \in 1 .. n PROVE h[j] = Turn(h, j)
      OBVIOUS
    <3>1. CASE j = 1
      <4>1. f[j] = f[j - 1] \o seqs[j] /\ f[j - 1] = <<>>
        <5>1. j - 1 = 0
          BY <3>1
        <5> QED BY <1>3, <1>4, <5>1
      <4>2. seqs[j] \in Seq(S)
        OBVIOUS
      <4>3. f[j] = seqs[j]
        BY <4>1, <4>2
      <4> QED BY <3>1, <4>3
    <3>2. CASE j # 1
      <4>1. j - 1 \in 1 .. n
        BY <1>1, <3>2
      <4> QED BY <1>4, <3>2, <4>1
    <3> QED BY <3>1, <3>2
  <2>2. Loop(h)
    <3> HIDE DEF Turn
    <3> QED BY <2>1
  <2>3. \A g : Loop(g) => g = h
    <3> SUFFICES ASSUME NEW g, Loop(g) PROVE g = h
      OBVIOUS
    <3>1. g = [j \in 1 .. n |-> g[j]] /\ \A j \in 1 .. n : g[j] = Turn(g, j)
      <4> HIDE DEF Turn
      <4> QED OBVIOUS
    <3> HIDE DEF Loop, h
    <3> DEFINE T == {i \in 0 .. n : i = 0 \/ g[i] = h[i]}
    <3>2. 0 \in T
      BY <1>1
    <3>3. ASSUME NEW i \in T, i \in Nat /\ i < n PROVE i + 1 \in T
      <4> DEFINE j == i + 1
      <4>1. j \in 1 .. n /\ j \in 0 .. n /\ j - 1 = i
        <5> HIDE DEF T, n
        <5> QED BY <1>1, <3>3
      <4>2. g[j] = Turn(g, j) /\ h[j] = Turn(h, j)
        BY <2>1, <3>1, <4>1
      <4>3. CASE i = 0
        BY <4>1, <4>2, <4>3
      <4>4. CASE i # 0
        <5>1. g[i] = h[i] /\ j # 1
          BY <4>1, <4>4
        <5> QED BY <4>1, <4>2, <5>1
      <4> QED BY <4>3, <4>4
    <3>4. \A i \in 0 .. n : i \in T
      <4> HIDE DEF T, n
      <4> QED BY <1>1, <3>2, <3>3, InductUpTo
    <3>5. \A j \in 1 .. n : g[j] = h[j]
      BY <1>1, <3>4
    <3>6. h = [j \in 1 .. n |-> h[j]]
      BY DEF h
    <3> QED BY <3>1, <3>5, <3>6
  <2>4. FlattenSeq(seqs) = h[n]
    <3>1. (CHOOSE g : Loop(g)) = h
      <4> HIDE DEF Loop, h
      <4> QED BY <2>2, <2>3
    <3> HIDE DEF h
    <3> QED BY <1>7, <3>1 DEF FlattenSeq
  <2>5. h[n] = f[n]
    BY <1>1, <1>7
  <2> QED BY <1>3, <1>5, <2>4, <2>5
<1> QED BY <1>6, <1>7

\* off[j] is the number of elements of the first j sequences.
Offsets(off, seqs) ==
  /\ off \in [0 .. Len(seqs) -> Nat] /\ off[0] = 0
  /\ \A j \in 1 .. Len(seqs) : off[j] = off[j - 1] + Len(seqs[j])

LEMMA OffsetsExist ==
  ASSUME NEW S, NEW seqs \in Seq(Seq(S))
  PROVE  \E off : Offsets(off, seqs)
<1> DEFINE n == Len(seqs)
           next == [j \in 1 .. n |-> [s \in Nat |-> s + Len(seqs[j])]]
<1>1. n \in Nat /\ 0 \in Nat /\ Turns(next, n, Nat)
  BY DEF Turns
<1>2. PICK off : Follows(off, 0, next, n, Nat)
  <2> HIDE DEF next, n
  <2> QED BY <1>1, Recursion
<1>3. ASSUME NEW j \in 1 .. n PROVE off[j] = off[j - 1] + Len(seqs[j])
  <2>1. j - 1 \in 0 .. n
    BY <1>1
  <2>2. off[j - 1] \in Nat
    BY <1>2, <2>1 DEF Follows
  <2>3. off[j] = next[j][off[j - 1]]
    BY <1>2 DEF Follows
  <2> QED BY <2>2, <2>3
<1> QED BY <1>2, <1>3 DEF Offsets, Follows

LEMMA OffsetsGrow ==
  ASSUME NEW S, NEW seqs \in Seq(Seq(S)), NEW off, Offsets(off, seqs),
         NEW j \in 0 .. Len(seqs), NEW i \in 0 .. j
  PROVE  off[i] <= off[j]
<1> DEFINE n == Len(seqs)
           T == {m \in 0 .. n : i <= m => off[i] <= off[m]}
<1>1. n \in Nat /\ off \in [0 .. n -> Nat] /\ i \in 0 .. n
  BY DEF Offsets
<1>2. 0 \in T
  BY <1>1
<1>3. ASSUME NEW m \in T, m \in Nat /\ m < n PROVE m + 1 \in T
  <2>1. m + 1 \in 1 .. n /\ m + 1 - 1 = m /\ m \in 0 .. n /\ m + 1 \in 0 .. n
    BY <1>1, <1>3
  <2>2. off[m + 1] = off[m] + Len(seqs[m + 1]) /\ Len(seqs[m + 1]) \in Nat
    <3>1. off[m + 1] = off[m + 1 - 1] + Len(seqs[m + 1])
      BY <2>1 DEF Offsets
    <3>2. seqs[m + 1] \in Seq(S)
      BY <2>1
    <3> QED BY <2>1, <3>1, <3>2
  <2>3. off[m] \in Nat /\ off[i] \in Nat /\ off[m + 1] \in Nat
    BY <1>1, <2>1
  <2> QED BY <1>1, <1>3, <2>1, <2>2, <2>3
<1>4. \A m \in 0 .. n : m \in T
  <2> HIDE DEF T, n
  <2> QED BY <1>1, <1>2, <1>3, InductUpTo
<1> QED BY <1>1, <1>4

LEMMA FlattenIs ==
  ASSUME NEW S, NEW seqs \in Seq(Seq(S)), NEW off, Offsets(off, seqs)
  PROVE  /\ FlattenSeq(seqs) \in Seq(S)
         /\ Len(FlattenSeq(seqs)) = off[Len(seqs)]
         /\ \A j \in 1 .. Len(seqs) : \A k \in 1 .. Len(seqs[j]) :
              FlattenSeq(seqs)[off[j - 1] + k] = seqs[j][k]
<1> DEFINE n == Len(seqs)
<1>1. PICK f \in [0 .. n -> Seq(S)] : Concatenates(f, seqs) /\ FlattenSeq(seqs) = f[n]
  BY FlattenLoop
<1>2. n \in Nat /\ off \in [0 .. n -> Nat] /\ off[0] = 0
  BY DEF Offsets
<1>s. \A j \in 1 .. n : seqs[j] \in Seq(S) /\ Len(seqs[j]) \in Nat
  OBVIOUS
<1> DEFINE Good(m) ==
             /\ Len(f[m]) = off[m]
             /\ \A j \in 1 .. m : \A k \in 1 .. Len(seqs[j]) : f[m][off[j - 1] + k] = seqs[j][k]
           T == {m \in 0 .. n : Good(m)}
<1>3. 0 \in T
  BY <1>1, <1>2 DEF Concatenates
<1>4. ASSUME NEW m \in 0 .. n, Good(m), m < n PROVE Good(m + 1)
  <2> DEFINE q == m + 1
  <2>1. q \in 1 .. n /\ q \in 0 .. n /\ q - 1 = m /\ m \in Nat
    BY <1>2, <1>4
  <2>2. f[q] = f[m] \o seqs[q] /\ off[q] = off[m] + Len(seqs[q])
    <3>1. f[q] = f[q - 1] \o seqs[q]
      BY <1>1, <2>1 DEF Concatenates
    <3>2. off[q] = off[q - 1] + Len(seqs[q])
      BY <2>1 DEF Offsets
    <3> QED BY <2>1, <3>1, <3>2
  <2>3. f[m] \in Seq(S) /\ seqs[q] \in Seq(S) /\ off[m] \in Nat /\ Len(seqs[q]) \in Nat
    BY <1>1, <1>2, <1>s, <2>1
  <2> HIDE DEF q
  <2>4. Len(f[q]) = off[q]
    <3>1. Len(f[m] \o seqs[q]) = Len(f[m]) + Len(seqs[q])
      BY <2>3
    <3> QED BY <1>4, <2>2, <3>1
  <2>5. ASSUME NEW j \in 1 .. q, NEW k \in 1 .. Len(seqs[j])
        PROVE  f[q][off[j - 1] + k] = seqs[j][k]
    <3>1. CASE j = q
      <4>1. off[j - 1] = off[m] /\ Len(f[m]) = off[m]
        BY <1>4, <2>1, <3>1
      <4>2. k \in 1 .. Len(seqs[q])
        BY <3>1
      <4>3. (f[m] \o seqs[q])[Len(f[m]) + k] = seqs[q][k]
        <5> DEFINE a == f[m]
                   b == seqs[q]
                   i == Len(a) + k
        <5>1. a \in Seq(S) /\ b \in Seq(S) /\ Len(a) \in Nat /\ Len(b) \in Nat
          BY <2>3
        <5> HIDE DEF a, b
        <5>2. i \in 1 .. Len(a) + Len(b) /\ ~(i <= Len(a)) /\ i - Len(a) = k
          BY <4>2, <5>1 DEF b
        <5> HIDE DEF i
        <5>3. (a \o b)[i] = IF i <= Len(a) THEN a[i] ELSE b[i - Len(a)]
          BY <5>1, <5>2, ConcatProperties
        <5> QED BY <5>2, <5>3 DEF a, b, i
      <4> QED BY <2>2, <3>1, <4>1, <4>3
    <3>2. CASE j # q
      <4>1. j \in 1 .. m /\ j \in 1 .. n /\ j \in 0 .. n /\ j - 1 \in 0 .. n /\ j \in 0 .. m /\ m \in 0 .. n
        BY <1>2, <2>1, <3>2 DEF q
      <4>2. f[m][off[j - 1] + k] = seqs[j][k]
        BY <1>4, <4>1
      <4>3. off[j] <= off[m] /\ off[j] = off[j - 1] + Len(seqs[j])
        BY <4>1, OffsetsGrow DEF Offsets
      <4>4. off[j - 1] \in Nat /\ off[j] \in Nat /\ Len(seqs[j]) \in Nat
        BY <1>2, <1>s, <4>1
      <4>5. off[j - 1] + k \in 1 .. Len(f[m])
        <5>1. Len(f[m]) = off[m] /\ k \in 1 .. Len(seqs[j])
          BY <1>4
        <5>2. \A a, b, c, l \in Nat : b = a + l /\ b <= c => a + k \in 1 .. c \/ k \notin 1 .. l
          OBVIOUS
        <5> HIDE DEF Good
        <5> QED BY <2>3, <4>3, <4>4, <5>1, <5>2
      <4>6. (f[m] \o seqs[q])[off[j - 1] + k] = f[m][off[j - 1] + k]
        BY <2>3, <4>5
      <4> QED BY <2>2, <4>2, <4>6
    <3> QED BY <3>1, <3>2
  <2> QED BY <2>4, <2>5 DEF q
<1>5. n \in T
  <2> HIDE DEF Good
  <2>1. ASSUME NEW m \in T, m \in Nat /\ m < n PROVE m + 1 \in T
    BY <1>2, <1>4, <2>1
  <2> HIDE DEF T
  <2> QED BY <1>2, <1>3, <2>1, InductUpTo
<1>6. f[n] \in Seq(S)
  BY <1>1, <1>2
<1> QED BY <1>1, <1>5, <1>6

\* Every element is one of one of the sequences.
Covered(off, seqs) ==
  \A p \in 1 .. off[Len(seqs)] :
    \E j \in 1 .. Len(seqs) : \E k \in 1 .. Len(seqs[j]) : p = off[j - 1] + k

LEMMA FlattenFrom ==
  ASSUME NEW S, NEW seqs \in Seq(Seq(S)), NEW off, Offsets(off, seqs)
  PROVE  Covered(off, seqs)
<1> SUFFICES ASSUME NEW p \in 1 .. off[Len(seqs)]
             PROVE  \E j \in 1 .. Len(seqs) :
                      \E k \in 1 .. Len(seqs[j]) : p = off[j - 1] + k
  BY DEF Covered
<1> DEFINE n == Len(seqs)
           T == {m \in 0 .. n : p <= off[m] =>
                   \E j \in 1 .. n : \E k \in 1 .. Len(seqs[j]) : p = off[j - 1] + k}
<1>1. n \in Nat /\ off \in [0 .. n -> Nat] /\ off[0] = 0
  BY DEF Offsets
<1>s. \A j \in 1 .. n : Len(seqs[j]) \in Nat
  OBVIOUS
<1>2. p \in Nat /\ p > 0
  BY <1>1
<1>3. 0 \in T
  BY <1>1, <1>2
<1>4. ASSUME NEW m \in T, m \in Nat /\ m < n PROVE m + 1 \in T
  <2> DEFINE q == m + 1
  <2>1. q \in 1 .. n /\ q \in 0 .. n /\ q - 1 = m /\ m \in 0 .. n
    BY <1>1, <1>4
  <2>2. off[q] = off[m] + Len(seqs[q]) /\ off[m] \in Nat /\ Len(seqs[q]) \in Nat
    <3>1. off[q] = off[q - 1] + Len(seqs[q])
      BY <2>1 DEF Offsets
    <3>2. off[m] \in Nat /\ Len(seqs[q]) \in Nat
      <4> HIDE DEF T
      <4> QED BY <1>1, <1>s, <2>1
    <3> QED BY <2>1, <3>1, <3>2
  <2>3. CASE p <= off[m]
    BY <1>4, <2>1, <2>3
  <2>4. CASE ~(p <= off[m]) /\ p <= off[q]
    <3> DEFINE k == p - off[m]
    <3>1. k \in 1 .. Len(seqs[q]) /\ p = off[q - 1] + k
      BY <1>2, <2>1, <2>2, <2>4
    <3> QED BY <2>1, <3>1
  <2>5. CASE ~(p <= off[q])
    BY <2>1, <2>5
  <2> QED BY <2>3, <2>4, <2>5
<1>5. \A m \in 0 .. n : m \in T
  <2> HIDE DEF T, n
  <2> QED BY <1>1, <1>3, <1>4, InductUpTo
<1> QED BY <1>1, <1>2, <1>5

-----------------------------------------------------------------------------
(***************************************************************************)
(* The walk over a header: where it is well defined.                       *)
(***************************************************************************)
WalkStates(schema) == [skip : Nat, data : Nat, indices : [Fields(schema) -> Nat]]

LEMMA OneMatch ==
  ASSUME NEW schema, SoundSchema(schema), NEW S, NEW header \in Seq(S),
         NEW i \in 1 .. Len(header)
  PROVE  /\ \A c \in MatchesAt(schema, header, i) :
              c \in ToSet(schema.columns) /\ c.labels[1] = header[i]
         /\ \A c \in MatchesAt(schema, header, i) : MatchesAt(schema, header, i) = {c}
<1>1. ASSUME NEW c \in MatchesAt(schema, header, i)
      PROVE  c \in ToSet(schema.columns) /\ c.labels[1] = header[i]
  <2>1. /\ c \in ToSet(schema.columns) /\ SoundColumn(c)
        /\ i + Len(c.labels) - 1 <= Len(header)
        /\ SubSeq(header, i, i + Len(c.labels) - 1) = c.labels
    BY DEF MatchesAt, SoundSchema
  <2>2. Len(c.labels) \in {1, 2}
    BY <2>1 DEF SoundColumn
  <2>3. \A j \in i .. Len(header) : SubSeq(header, i, j)[1] = header[i]
    OBVIOUS
  <2>4. i + Len(c.labels) - 1 \in i .. Len(header)
    <3>1. \A l \in {1, 2} : i + l - 1 <= Len(header) => i + l - 1 \in i .. Len(header)
      OBVIOUS
    <3> QED BY <2>1, <2>2, <3>1
  <2> QED BY <2>1, <2>3, <2>4
<1>2. \A c, d \in MatchesAt(schema, header, i) : c = d
  BY <1>1 DEF SoundSchema
<1> QED BY <1>1, <1>2

LEMMA LongestOfOne == \A c : Longest({c}) = c
<1> SUFFICES ASSUME NEW c PROVE Longest({c}) = c
  OBVIOUS
<1>1. Longest({c}) = CHOOSE d \in {c} : \A other \in {c} : Len(other.labels) <= Len(d.labels)
  BY DEF Longest
<1> QED BY <1>1

LEMMA PlaceIs ==
  ASSUME NEW schema, SoundSchema(schema), NEW S, NEW header \in Seq(S),
         NEW i \in 1 .. Len(header), NEW state
  PROVE  /\ state.skip > 0 =>
              Place(schema, header, state, i) = [state EXCEPT !.skip = @ - 1]
         /\ state.skip = 0 /\ MatchesAt(schema, header, i) = {} =>
              Place(schema, header, state, i) = [state EXCEPT !.data = @ + 1]
         /\ \A c \in MatchesAt(schema, header, i) : state.skip = 0 =>
              Place(schema, header, state, i) =
                [skip |-> Len(c.labels) - 1, data |-> state.data + c.width,
                 indices |-> IF c.field = NoName THEN state.indices
                             ELSE [state.indices EXCEPT ![c.field] = state.data]]
<1> DEFINE column == Longest(MatchesAt(schema, header, i))
<1>1. Place(schema, header, state, i) =
        CASE state.skip > 0 -> [state EXCEPT !.skip = @ - 1]
          [] state.skip = 0 /\ MatchesAt(schema, header, i) = {}
               -> [state EXCEPT !.data = @ + 1]
          [] OTHER -> [skip |-> Len(column.labels) - 1,
                       data |-> state.data + column.width,
                       indices |-> IF column.field = NoName THEN state.indices
                                   ELSE [state.indices EXCEPT
                                           ![column.field] = state.data]]
  BY DEF Place, Walk
<1>2. \A c \in MatchesAt(schema, header, i) : column = c
  <2> SUFFICES ASSUME NEW c \in MatchesAt(schema, header, i) PROVE column = c
    OBVIOUS
  <2>1. MatchesAt(schema, header, i) = {c}
    BY OneMatch
  <2> QED BY <2>1, LongestOfOne
<1> HIDE DEF column
<1>3. ASSUME NEW c \in MatchesAt(schema, header, i), state.skip = 0
      PROVE  Place(schema, header, state, i) =
               [skip |-> Len(c.labels) - 1, data |-> state.data + c.width,
                indices |-> IF c.field = NoName THEN state.indices
                            ELSE [state.indices EXCEPT ![c.field] = state.data]]
  <2>1. column = c
    BY <1>2
  <2>2. ~(state.skip > 0) /\ ~(state.skip = 0 /\ MatchesAt(schema, header, i) = {})
    BY <1>3
  <2> QED BY <1>1, <2>1, <2>2
<1>4. state.skip > 0 => Place(schema, header, state, i) = [state EXCEPT !.skip = @ - 1]
  BY <1>1
<1>5. state.skip = 0 /\ MatchesAt(schema, header, i) = {} =>
        Place(schema, header, state, i) = [state EXCEPT !.data = @ + 1]
  BY <1>1
<1> QED BY <1>3, <1>4, <1>5

LEMMA PlaceType ==
  ASSUME NEW schema, SoundSchema(schema), NEW S, NEW header \in Seq(S),
         NEW i \in 1 .. Len(header), NEW state \in WalkStates(schema)
  PROVE  Place(schema, header, state, i) \in WalkStates(schema)
<1>1. state.skip \in Nat /\ state.data \in Nat /\ state.indices \in [Fields(schema) -> Nat]
  BY DEF WalkStates
<1>2. CASE state.skip > 0
  BY <1>1, <1>2, PlaceIs DEF WalkStates
<1>3. CASE state.skip = 0 /\ MatchesAt(schema, header, i) = {}
  <2>1. Place(schema, header, state, i) = [state EXCEPT !.data = @ + 1]
    BY <1>3, PlaceIs
  <2>2. state.data + 1 \in Nat
    BY <1>1
  <2> QED BY <1>1, <2>1, <2>2 DEF WalkStates
<1>4. CASE state.skip = 0 /\ MatchesAt(schema, header, i) # {}
  <2>1. PICK c \in MatchesAt(schema, header, i) : TRUE
    BY <1>4
  <2>2. c \in ToSet(schema.columns) /\ SoundColumn(c)
    BY OneMatch DEF SoundSchema
  <2>3. Len(c.labels) - 1 \in Nat /\ c.width \in Nat
    <3>1. PICK a, b : c.labels \in {<<a>>, <<a, b>>}
      BY <2>2 DEF SoundColumn
    <3>2. Len(<<a>>) = 1 /\ Len(<<a, b>>) = 2
      OBVIOUS
    <3>3. Len(c.labels) \in {1, 2}
      BY <3>1, <3>2
    <3>4. c.width \in Nat
      BY <2>2 DEF SoundColumn
    <3>5. \A l \in {1, 2} : l - 1 \in Nat
      OBVIOUS
    <3>6. Len(c.labels) - 1 \in Nat
      BY <3>3, <3>5
    <3> QED BY <3>4, <3>6
  <2> DEFINE indices == IF c.field = NoName THEN state.indices
                        ELSE [state.indices EXCEPT ![c.field] = state.data]
  <2>4. indices \in [Fields(schema) -> Nat]
    BY <1>1
  <2>5. Place(schema, header, state, i) =
          [skip |-> Len(c.labels) - 1, data |-> state.data + c.width, indices |-> indices]
    BY <1>4, PlaceIs
  <2> HIDE DEF indices
  <2>6. state.data + c.width \in Nat
    BY <1>1, <2>3
  <2> QED BY <2>3, <2>4, <2>5, <2>6 DEF WalkStates
<1> QED BY <1>1, <1>2, <1>3, <1>4

Walks(walk, schema, header, defaults) ==
  /\ walk \in [0 .. Len(header) -> WalkStates(schema)]
  /\ walk[0] = [skip |-> 0, data |-> 0, indices |-> defaults]
  /\ \A i \in 1 .. Len(header) : walk[i] = Place(schema, header, walk[i - 1], i)

LEMMA ResolveIs ==
  ASSUME NEW schema, SoundSchema(schema), NEW S, NEW header \in Seq(S),
         NEW defaults \in [Fields(schema) -> Nat]
  PROVE  \E walk : /\ Walks(walk, schema, header, defaults)
                   /\ _resolve_indices(schema, header, defaults)
                        = Shifted(schema, walk[Len(header)].indices, header)
<1> DEFINE n == Len(header)
           E == WalkStates(schema)
           start == [skip |-> 0, data |-> 0, indices |-> defaults]
           next == [i \in 1 .. n |-> [state \in E |-> Place(schema, header, state, i)]]
           Turn(g, i) == IF i = 0 THEN start ELSE Place(schema, header, g[i - 1], i)
           Loop(g) == g = [i \in 0 .. n |-> Turn(g, i)]
<1>1. n \in Nat /\ start \in E /\ Turns(next, n, E)
  BY PlaceType DEF Turns, WalkStates
<1>2. PICK f : Follows(f, start, next, n, E)
  <2> HIDE DEF next, n, E, start
  <2> QED BY <1>1, Recursion
<1>3. f \in [0 .. n -> E] /\ f[0] = start
  BY <1>2 DEF Follows
<1>4. ASSUME NEW i \in 1 .. n PROVE f[i] = Place(schema, header, f[i - 1], i)
  <2>1. i - 1 \in 0 .. n
    BY <1>1
  <2>2. f[i - 1] \in E
    BY <1>3, <2>1
  <2>3. f[i] = next[i][f[i - 1]]
    BY <1>2 DEF Follows
  <2> HIDE DEF E
  <2> QED BY <2>2, <2>3
<1> HIDE DEF start
<1>5. Loop(f)
  <2>1. \A i \in 0 .. n : f[i] = Turn(f, i)
    <3>1. \A i \in 0 .. n : i = 0 \/ i \in 1 .. n
      BY <1>1
    <3> QED BY <1>3, <1>4, <3>1
  <2>2. f = [i \in 0 .. n |-> f[i]]
    BY <1>3
  <2> HIDE DEF Turn
  <2> QED BY <2>1, <2>2
<1>6. \A g : Loop(g) => g = f
  <2> SUFFICES ASSUME NEW g, Loop(g) PROVE g = f
    OBVIOUS
  <2>1. g = [i \in 0 .. n |-> g[i]] /\ \A i \in 0 .. n : g[i] = Turn(g, i)
    <3> HIDE DEF Turn
    <3> QED OBVIOUS
  <2> HIDE DEF Loop
  <2> DEFINE T == {i \in 0 .. n : g[i] = f[i]}
  <2>2. 0 \in T
    <3>1. 0 \in 0 .. n
      BY <1>1
    <3>2. g[0] = Turn(g, 0)
      BY <2>1, <3>1
    <3> QED BY <1>3, <3>1, <3>2
  <2>3. ASSUME NEW i \in T, i \in Nat /\ i < n PROVE i + 1 \in T
    <3> DEFINE j == i + 1
    <3>1. j \in 1 .. n /\ j \in 0 .. n /\ j - 1 = i /\ j # 0
      <4> HIDE DEF T, n
      <4> QED BY <1>1, <2>3
    <3>2. g[i] = f[i]
      OBVIOUS
    <3> HIDE DEF T, j
    <3>3. g[j] = Place(schema, header, g[i], j)
      BY <2>1, <3>1
    <3>4. f[j] = Place(schema, header, f[i], j)
      BY <1>4, <3>1
    <3>5. j \in T
      BY <3>1, <3>2, <3>3, <3>4 DEF T
    <3> QED BY <3>5 DEF j
  <2>4. \A i \in 0 .. n : i \in T
    <3> HIDE DEF T, n
    <3> QED BY <1>1, <2>2, <2>3, InductUpTo
  <2> QED BY <1>3, <2>1, <2>4
<1>7. _resolve_indices(schema, header, defaults) = Shifted(schema, f[n].indices, header)
  <2>1. (CHOOSE g : Loop(g)) = f
    <3> HIDE DEF Loop
    <3> QED BY <1>5, <1>6
  <2> QED BY <2>1 DEF _resolve_indices, start
<1> QED BY <1>3, <1>4, <1>7 DEF Walks, start

(***************************************************************************)
(* The walk over the header of a plain layout.                             *)
(***************************************************************************)
HeaderParts(layout) ==
  [i \in DOMAIN layout |-> IF layout[i].shown THEN layout[i].labels ELSE <<>>]

LEMMA HeaderPartsType ==
  ASSUME NEW layout \in Seq(Column)
  PROVE  /\ HeaderParts(layout) \in Seq(Seq(STRING))
         /\ Len(HeaderParts(layout)) = Len(layout)
         /\ HeaderOf(layout) = FlattenSeq(HeaderParts(layout))
         /\ \A i \in 1 .. Len(layout) :
              HeaderParts(layout)[i] = IF layout[i].shown THEN layout[i].labels ELSE <<>>
<1>1. DOMAIN layout = 1 .. Len(layout) /\ Len(layout) \in Nat
  OBVIOUS
<1>2. \A i \in 1 .. Len(layout) : layout[i] \in Column
  OBVIOUS
<1>3. \A i \in 1 .. Len(layout) : layout[i].labels \in Seq(STRING)
  BY <1>2 DEF Column
<1>4. HeaderParts(layout) = [i \in 1 .. Len(layout) |->
                               IF layout[i].shown THEN layout[i].labels ELSE <<>>]
  BY <1>1 DEF HeaderParts
<1>5. HeaderParts(layout) \in [1 .. Len(layout) -> Seq(STRING)]
  <2>1. \A i \in 1 .. Len(layout) :
          (IF layout[i].shown THEN layout[i].labels ELSE <<>>) \in Seq(STRING)
    <3>1. <<>> \in Seq(STRING)
      OBVIOUS
    <3> QED BY <1>3, <3>1, Zenon
  <2> QED BY <1>4, <2>1
<1>6. HeaderParts(layout) \in Seq(Seq(STRING)) /\ Len(HeaderParts(layout)) = Len(layout)
  BY <1>1, <1>5
<1>7. HeaderOf(layout) = FlattenSeq(HeaderParts(layout))
  BY DEF HeaderOf, HeaderParts
<1>8. \A i \in 1 .. Len(layout) :
        HeaderParts(layout)[i] = IF layout[i].shown THEN layout[i].labels ELSE <<>>
  BY <1>4
<1> QED BY <1>6, <1>7, <1>8

\* Where a column's labels are in the header.
LEMMA HeaderAt ==
  ASSUME NEW layout \in Seq(Column), NEW hoff, Offsets(hoff, HeaderParts(layout)),
         NEW j \in 1 .. Len(layout), layout[j].shown
  PROVE  /\ HeaderOf(layout) \in Seq(STRING) /\ Len(HeaderOf(layout)) = hoff[Len(layout)]
         /\ hoff[j - 1] \in Nat /\ hoff[j] = hoff[j - 1] + Len(layout[j].labels)
         /\ hoff[j] <= hoff[Len(layout)] /\ hoff[j] \in Nat
         /\ \A k \in 1 .. Len(layout[j].labels) :
              HeaderOf(layout)[hoff[j - 1] + k] = layout[j].labels[k]
<1> DEFINE parts == HeaderParts(layout)
<1>1. /\ parts \in Seq(Seq(STRING)) /\ Len(parts) = Len(layout)
      /\ HeaderOf(layout) = FlattenSeq(parts) /\ parts[j] = layout[j].labels
  BY HeaderPartsType
<1> HIDE DEF parts
<1>2. Offsets(hoff, parts)
  BY DEF parts
<1>3. /\ FlattenSeq(parts) \in Seq(STRING) /\ Len(FlattenSeq(parts)) = hoff[Len(parts)]
      /\ \A i \in 1 .. Len(parts) : \A k \in 1 .. Len(parts[i]) :
           FlattenSeq(parts)[hoff[i - 1] + k] = parts[i][k]
  BY <1>1, <1>2, FlattenIs
<1>4. j - 1 \in 0 .. Len(layout) /\ j \in 0 .. Len(layout) /\ Len(layout) \in 0 .. Len(layout)
  OBVIOUS
<1>5. hoff[j - 1] \in Nat /\ hoff[j] \in Nat /\ hoff[j] = hoff[j - 1] + Len(parts[j])
  BY <1>1, <1>2, <1>4 DEF Offsets
<1>6. hoff[j] <= hoff[Len(parts)]
  BY <1>1, <1>2, <1>4, OffsetsGrow
<1> QED BY <1>1, <1>3, <1>5, <1>6

\* The widths a line has for its columns, and where each starts.
DataOffsets(off, layout) ==
  /\ off \in [0 .. Len(layout) -> Nat] /\ off[0] = 0
  /\ \A j \in 1 .. Len(layout) : off[j] = off[j - 1] + layout[j].tokens

\* What entering a column does to the indices.
LEMMA ColumnStep ==
  ASSUME NEW schema, SoundSchema(schema),
         NEW layout \in Seq(Column), PlainLayout(schema, layout),
         NEW hoff, Offsets(hoff, HeaderParts(layout)),
         NEW walk, NEW defaults, Walks(walk, schema, HeaderOf(layout), defaults),
         NEW j \in 1 .. Len(layout), layout[j].shown, walk[hoff[j - 1]].skip = 0
  PROVE  /\ walk[hoff[j]].skip = 0
         /\ j # Len(layout) =>
              walk[hoff[j]].data = walk[hoff[j - 1]].data + layout[j].tokens
         /\ \A f \in Fields(schema) :
              walk[hoff[j]].indices[f] =
                IF Labels(schema, f) = layout[j].labels THEN walk[hoff[j - 1]].data
                ELSE walk[hoff[j - 1]].indices[f]
<1> DEFINE header == HeaderOf(layout)
           p == hoff[j - 1]
           i == p + 1
           labels == layout[j].labels
           old == walk[p]
<1>1. /\ header \in Seq(STRING) /\ p \in Nat /\ hoff[j] = p + Len(labels)
      /\ hoff[j] <= Len(header) /\ hoff[j] \in Nat
      /\ \A k \in 1 .. Len(labels) : header[p + k] = labels[k]
  <2>1. /\ header \in Seq(STRING) /\ p \in Nat /\ hoff[j] = p + Len(labels)
        /\ Len(header) = hoff[Len(layout)] /\ hoff[j] <= hoff[Len(layout)] /\ hoff[j] \in Nat
    BY HeaderAt
  <2>2. \A k \in 1 .. Len(labels) : header[p + k] = labels[k]
    BY HeaderAt
  <2> QED BY <2>1, <2>2
<1>2. labels \in Seq(STRING) /\ PlainColumn(schema, layout[j], j = Len(layout))
  <2>1. layout[j] \in Column /\ j \in DOMAIN layout
    OBVIOUS
  <2> QED BY <2>1 DEF Column, PlainLayout
<1> HIDE DEF header, p
<1>3. walk \in [0 .. Len(header) -> WalkStates(schema)]
  BY DEF Walks, header
<1>4. \A k \in 1 .. Len(header) : walk[k] = Place(schema, header, walk[k - 1], k)
  BY DEF Walks, header
<1>5. old.skip = 0
  BY DEF p
<1>6. Len(labels) \in Nat /\ Len(header) \in Nat
  BY <1>1, <1>2
<1>7. ASSUME Len(labels) \in {1, 2}
      PROVE  /\ i \in 1 .. Len(header) /\ i - 1 = p /\ p \in 0 .. Len(header)
             /\ header[i] = labels[1] /\ walk[i] = Place(schema, header, old, i)
             /\ old \in WalkStates(schema)
  <2>1. i \in 1 .. Len(header) /\ i - 1 = p /\ p \in 0 .. Len(header)
    <3>1. p + 1 <= Len(header)
      <4>1. \A a, b, l, n \in Nat : l \in {1, 2} /\ b = a + l /\ b <= n => a + 1 <= n
        OBVIOUS
      <4> QED BY <1>1, <1>6, <1>7, <4>1
    <3> QED BY <1>1, <1>6, <3>1
  <2>2. header[i] = labels[1]
    BY <1>1, <1>7
  <2>3. walk[i] = Place(schema, header, old, i)
    BY <1>4, <2>1
  <2>4. old \in WalkStates(schema)
    BY <1>3, <2>1
  <2> QED BY <2>1, <2>2, <2>3, <2>4
<1>8. CASE \E c \in ToSet(schema.columns) :
             labels = c.labels /\ (j # Len(layout) => layout[j].tokens = c.width)
  <2>1. PICK c \in ToSet(schema.columns) :
               labels = c.labels /\ (j # Len(layout) => layout[j].tokens = c.width)
    BY <1>8
  <2>2. SoundColumn(c)
    BY DEF SoundSchema
  <2>3. Len(labels) \in {1, 2}
    <3>1. PICK a, b : c.labels \in {<<a>>, <<a, b>>}
      BY <2>2 DEF SoundColumn
    <3>2. Len(<<a>>) = 1 /\ Len(<<a, b>>) = 2
      OBVIOUS
    <3> QED BY <2>1, <3>1, <3>2
  <2>4. c \in MatchesAt(schema, header, i)
    <3>1. i + Len(labels) - 1 = hoff[j]
      BY <1>1, <1>6
    <3>2. SubSeq(header, i, hoff[j]) = labels
      <4>1. i \in 1 .. Len(header) + 1 /\ hoff[j] \in i - 1 .. Len(header)
        BY <1>1, <1>6, <1>7, <2>3
      <4>2. /\ SubSeq(header, i, hoff[j]) \in Seq(STRING)
            /\ Len(SubSeq(header, i, hoff[j])) = Len(labels)
            /\ \A k \in 1 .. Len(labels) : SubSeq(header, i, hoff[j])[k] = header[i + k - 1]
        <5>1. hoff[j] - i + 1 = Len(labels)
          BY <1>1, <1>6
        <5> QED BY <1>1, <1>6, <4>1, <5>1, SubSeqProperties
      <4>3. \A k \in 1 .. Len(labels) : i + k - 1 = p + k
        BY <1>1, <1>6
      <4>4. \A k \in 1 .. Len(labels) : SubSeq(header, i, hoff[j])[k] = labels[k]
        BY <1>1, <4>2, <4>3
      <4> QED BY <1>2, <4>2, <4>4, SeqEqual
    <3> QED BY <1>1, <2>1, <3>1, <3>2 DEF MatchesAt
  <2>5. walk[i] = [skip |-> Len(labels) - 1, data |-> old.data + c.width,
                   indices |-> IF c.field = NoName THEN old.indices
                               ELSE [old.indices EXCEPT ![c.field] = old.data]]
    <3>1. i \in 1 .. Len(header) /\ walk[i] = Place(schema, header, old, i)
      BY <1>7, <2>3
    <3> DEFINE state == old
    <3>2. state.skip = 0
      BY <1>5
    <3> HIDE DEF state, i
    <3>3. Place(schema, header, state, i) =
            [skip |-> Len(c.labels) - 1, data |-> state.data + c.width,
             indices |-> IF c.field = NoName THEN state.indices
                         ELSE [state.indices EXCEPT ![c.field] = state.data]]
      BY <1>1, <2>4, <3>1, <3>2, PlaceIs
    <3> QED BY <2>1, <3>1, <3>3 DEF state
  <2>6. \A f \in Fields(schema) :
          walk[i].indices[f] = IF Labels(schema, f) = labels THEN old.data
                               ELSE old.indices[f]
    <3> SUFFICES ASSUME NEW f \in Fields(schema)
                 PROVE  walk[i].indices[f] = IF Labels(schema, f) = labels THEN old.data
                                             ELSE old.indices[f]
      OBVIOUS
    <3>1. old.indices \in [Fields(schema) -> Nat]
      BY <1>7, <2>3 DEF WalkStates
    <3>2. /\ schema.column[f] \in ToSet(schema.columns)
          /\ schema.column[f].field = f /\ f # NoName
      BY FieldColumn
    <3>3. CASE Labels(schema, f) = labels
      <4>1. schema.column[f] = c
        BY <2>1, <3>2, <3>3 DEF Labels, SoundSchema
      <4> QED BY <2>5, <3>1, <3>2, <3>3, <4>1
    <3>4. CASE Labels(schema, f) # labels
      <4>1. c.field # f
        <5>1. CASE c.field = NoName
          BY <3>2, <5>1
        <5>2. CASE c.field # NoName
          BY <2>1, <3>4, <5>2, ColumnOfField DEF Labels
        <5> QED BY <5>1, <5>2
      <4> QED BY <2>5, <3>1, <3>4, <4>1
    <3> QED BY <3>3, <3>4
  <2>7. CASE Len(labels) = 1
    <3>1. hoff[j] = i /\ walk[i].skip = 0
      BY <1>1, <2>5, <2>7
    <3>2. walk[i].data = old.data + c.width
      BY <2>5
    <3> QED BY <2>1, <2>6, <3>1, <3>2 DEF p
  <2>8. CASE Len(labels) = 2
    <3> DEFINE q == i + 1
    <3>1. q \in 1 .. Len(header) /\ q - 1 = i /\ hoff[j] = q
      BY <1>1, <1>6, <2>8
    <3>2. walk[q] = Place(schema, header, walk[i], q)
      BY <1>4, <3>1
    <3>3. walk[i].skip = 1
      BY <2>5, <2>8
    <3>4. walk[q] = [walk[i] EXCEPT !.skip = @ - 1]
      <4> DEFINE state == walk[i]
      <4>1. state.skip > 0
        BY <3>3
      <4> HIDE DEF state, q
      <4>2. Place(schema, header, state, q) = [state EXCEPT !.skip = @ - 1]
        BY <1>1, <3>1, <4>1, PlaceIs
      <4> QED BY <3>2, <4>2 DEF state
    <3>5. /\ walk[q].skip = 0 /\ walk[q].data = walk[i].data
          /\ walk[q].indices = walk[i].indices
      <4>1. walk[i].skip - 1 = 0
        BY <3>3
      <4> QED BY <2>5, <3>4, <4>1
    <3> HIDE DEF q
    <3>6. walk[q].data = old.data + c.width
      BY <2>5, <3>5
    <3> QED BY <2>1, <2>6, <3>1, <3>5, <3>6 DEF p
  <2> QED BY <2>3, <2>7, <2>8
<1>9. CASE /\ Len(labels) = 1 /\ layout[j].tokens = 1
           /\ \A c \in ToSet(schema.columns) : c.labels[1] # labels[1]
  <2>1. MatchesAt(schema, header, i) = {}
    BY <1>1, <1>7, <1>9, OneMatch
  <2>2. walk[i] = [old EXCEPT !.data = @ + 1]
    <3> DEFINE state == old
    <3>1. state.skip = 0 /\ i \in 1 .. Len(header) /\ walk[i] = Place(schema, header, state, i)
      BY <1>5, <1>7, <1>9
    <3> HIDE DEF state, i
    <3>2. Place(schema, header, state, i) = [state EXCEPT !.data = @ + 1]
      BY <1>1, <2>1, <3>1, PlaceIs
    <3> QED BY <3>1, <3>2 DEF state
  <2>3. hoff[j] = i
    BY <1>1, <1>9
  <2>4. \A f \in Fields(schema) : Labels(schema, f) # labels
    BY <1>9, FieldColumn DEF Labels
  <2>5. walk[i].skip = 0 /\ walk[i].data = old.data + 1 /\ walk[i].indices = old.indices
    BY <1>5, <1>7, <1>9, <2>2 DEF WalkStates
  <2> QED BY <1>9, <2>3, <2>4, <2>5 DEF p
<1> QED BY <1>2, <1>8, <1>9 DEF PlainColumn

LEMMA DataOffsetsExist ==
  ASSUME NEW layout \in Seq(Column)
  PROVE  \E off : DataOffsets(off, layout)
<1> DEFINE seqs == [j \in 1 .. Len(layout) |-> [k \in 1 .. layout[j].tokens |-> k]]
<1>1. Len(layout) \in Nat /\ \A j \in 1 .. Len(layout) : layout[j].tokens \in Nat
  <2>1. \A j \in 1 .. Len(layout) : layout[j] \in Column
    OBVIOUS
  <2> QED BY <2>1 DEF Column
<1>2. \A j \in 1 .. Len(layout) : seqs[j] \in Seq(Nat) /\ Len(seqs[j]) = layout[j].tokens
  BY <1>1
<1>3. seqs \in Seq(Seq(Nat)) /\ Len(seqs) = Len(layout)
  <2>1. seqs = [j \in 1 .. Len(layout) |-> seqs[j]]
    OBVIOUS
  <2> HIDE DEF seqs
  <2>2. seqs \in [1 .. Len(layout) -> Seq(Nat)]
    BY <1>2, <2>1
  <2> QED BY <1>1, <2>2
<1> HIDE DEF seqs
<1>4. PICK off : Offsets(off, seqs)
  BY <1>3, OffsetsExist
<1> QED BY <1>2, <1>3, <1>4 DEF Offsets, DataOffsets

\* As long as every column has its label, each is entered at its own offset.
LEMMA PlacedUpTo ==
  ASSUME NEW schema, SoundSchema(schema),
         NEW layout \in Seq(Column), PlainLayout(schema, layout),
         NEW hoff, Offsets(hoff, HeaderParts(layout)), NEW off, DataOffsets(off, layout),
         NEW walk, NEW defaults, Walks(walk, schema, HeaderOf(layout), defaults),
         NEW m \in 0 .. Len(layout), \A j \in 1 .. m : layout[j].shown
  PROVE  /\ walk[hoff[m]].skip = 0
         /\ m # Len(layout) => walk[hoff[m]].data = off[m]
         /\ \A f \in Fields(schema), j \in 1 .. m :
              Labels(schema, f) = layout[j].labels => walk[hoff[m]].indices[f] = off[j - 1]
<1> DEFINE Good(l) == /\ walk[hoff[l]].skip = 0
                      /\ l # Len(layout) => walk[hoff[l]].data = off[l]
                      /\ \A f \in Fields(schema), j \in 1 .. l :
                           Labels(schema, f) = layout[j].labels
                             => walk[hoff[l]].indices[f] = off[j - 1]
           T == {l \in 0 .. m : Good(l)}
<1>1. m \in Nat /\ m <= Len(layout) /\ Len(layout) \in Nat
  OBVIOUS
<1>2. 0 \in T
  <2>1. hoff[0] = 0 /\ off[0] = 0 /\ walk[0].skip = 0 /\ walk[0].data = 0
    BY DEF Offsets, DataOffsets, Walks
  <2> QED BY <1>1, <2>1
<1>3. ASSUME NEW l \in 0 .. m, Good(l), l < m PROVE Good(l + 1)
  <2> DEFINE q == l + 1
  <2>1. q \in 1 .. Len(layout) /\ q - 1 = l /\ q \in 1 .. m
    BY <1>1, <1>3
  <2> HIDE DEF q
  <2>2. layout[q].shown /\ walk[hoff[q - 1]].skip = 0
    BY <1>3, <2>1
  <2>3. /\ walk[hoff[q]].skip = 0
        /\ q # Len(layout) => walk[hoff[q]].data = walk[hoff[l]].data + layout[q].tokens
        /\ \A f \in Fields(schema) :
             walk[hoff[q]].indices[f] =
               IF Labels(schema, f) = layout[q].labels THEN walk[hoff[l]].data
               ELSE walk[hoff[l]].indices[f]
    BY <2>1, <2>2, ColumnStep
  <2>l. walk[hoff[l]].data = off[l]
    BY <1>1, <1>3
  <2>4. q # Len(layout) => walk[hoff[q]].data = off[q]
    BY <2>1, <2>3, <2>l DEF DataOffsets
  <2>5. ASSUME NEW f \in Fields(schema), NEW j \in 1 .. q,
               Labels(schema, f) = layout[j].labels
        PROVE  walk[hoff[q]].indices[f] = off[j - 1]
    <3>1. CASE j = q
      BY <2>1, <2>3, <2>5, <2>l, <3>1
    <3>2. CASE j # q
      <4>1. j \in 1 .. l /\ j \in 1 .. Len(layout)
        BY <1>1, <2>1, <3>2
      <4>2. layout[j].labels # layout[q].labels
        BY <2>1, <3>2, <4>1 DEF PlainLayout
      <4> QED BY <1>3, <2>3, <2>5, <4>1, <4>2
    <3> QED BY <3>1, <3>2
  <2>6. Good(q)
    BY <2>3, <2>4, <2>5
  <2> QED BY <2>6 DEF q
<1>4. m \in T
  <2> HIDE DEF Good
  <2>1. ASSUME NEW l \in T, l \in Nat /\ l < m PROVE l + 1 \in T
    BY <1>1, <1>3, <2>1
  <2> HIDE DEF T
  <2>2. \A l \in 0 .. m : l \in T
    BY <1>1, <1>2, <2>1, InductUpTo
  <2> QED BY <1>1, <2>2
<1> QED BY <1>4

\* What a header is made of.
LEMMA HeaderFrom ==
  ASSUME NEW layout \in Seq(Column)
  PROVE  \A i \in 1 .. Len(HeaderOf(layout)) :
           \E j \in 1 .. Len(layout) : \E k \in 1 .. Len(layout[j].labels) :
             layout[j].shown /\ HeaderOf(layout)[i] = layout[j].labels[k]
<1> DEFINE parts == HeaderParts(layout)
<1>1. /\ parts \in Seq(Seq(STRING)) /\ Len(parts) = Len(layout)
      /\ HeaderOf(layout) = FlattenSeq(parts)
      /\ \A j \in 1 .. Len(layout) :
           parts[j] = IF layout[j].shown THEN layout[j].labels ELSE <<>>
  BY HeaderPartsType
<1> HIDE DEF parts
<1>2. PICK hoff : Offsets(hoff, parts)
  BY <1>1, OffsetsExist
<1>3. /\ Len(FlattenSeq(parts)) = hoff[Len(parts)]
      /\ \A j \in 1 .. Len(parts) : \A k \in 1 .. Len(parts[j]) :
           FlattenSeq(parts)[hoff[j - 1] + k] = parts[j][k]
  BY <1>1, <1>2, FlattenIs
<1>t. Covered(hoff, parts)
  <2>1. parts \in Seq(Seq(STRING))
    BY <1>1
  <2> QED BY <1>2, <2>1, FlattenFrom
<1> TAKE i \in 1 .. Len(HeaderOf(layout))
<1>4. i \in 1 .. hoff[Len(parts)]
  BY <1>1, <1>3
<1>5. PICK j \in 1 .. Len(parts) : \E k \in 1 .. Len(parts[j]) : i = hoff[j - 1] + k
  BY <1>4, <1>t DEF Covered
<1>6. PICK k \in 1 .. Len(parts[j]) : i = hoff[j - 1] + k
  BY <1>5
<1>7. layout[j].shown /\ parts[j] = layout[j].labels
  <2>1. ~layout[j].shown => parts[j] = <<>>
    BY <1>1
  <2>2. ~layout[j].shown => FALSE
    BY <1>6, <2>1
  <2> QED BY <1>1, <2>2
<1>8. k \in 1 .. Len(layout[j].labels) /\ j \in 1 .. Len(layout)
  BY <1>1, <1>6, <1>7
<1>9. HeaderOf(layout)[i] = layout[j].labels[k]
  BY <1>1, <1>3, <1>6, <1>7
<1> QED BY <1>7, <1>8, <1>9

\* The schema that knows of a column without a label.
LEMMA BatShift ==
  /\ BAT_TABLE_SCHEMA.shiftWithout = "SOC" /\ BAT_TABLE_SCHEMA.columns = BAT_COLUMNS
  /\ {"soc", "capacity"} \subseteq Fields(BAT_TABLE_SCHEMA)
  /\ Labels(BAT_TABLE_SCHEMA, "soc") = <<"SOC">>
  /\ Labels(BAT_TABLE_SCHEMA, "capacity") = <<"Coulomb">>
  /\ \A c \in ToSet(BAT_COLUMNS) : Len(c.labels) = 2 => c.labels[2] = "State"
<1>1. BAT_TABLE_SCHEMA.shiftWithout = "SOC" /\ BAT_TABLE_SCHEMA.columns = BAT_COLUMNS
  BY DEF BAT_TABLE_SCHEMA
<1> HIDE DEF BAT_TABLE_SCHEMA, BAT_COLUMNS
<1>2. /\ BAT_COLUMNS[9] \in ToSet(BAT_COLUMNS) /\ BAT_COLUMNS[9].field = "soc"
      /\ BAT_COLUMNS[9].labels = <<"SOC">>
  BY BatColumns, BatAt DEF ColumnSpec
<1>3. /\ BAT_COLUMNS[10] \in ToSet(BAT_COLUMNS) /\ BAT_COLUMNS[10].field = "capacity"
      /\ BAT_COLUMNS[10].labels = <<"Coulomb">>
  BY BatColumns, BatAt DEF ColumnSpec
<1>4. "soc" # NoName /\ "capacity" # NoName
  BY DEF NoName
<1>5. "soc" \in Fields(BAT_TABLE_SCHEMA) /\ Labels(BAT_TABLE_SCHEMA, "soc") = <<"SOC">>
  BY <1>1, <1>2, <1>4, BatSound, ColumnOfField DEF Labels
<1>6. /\ "capacity" \in Fields(BAT_TABLE_SCHEMA)
      /\ Labels(BAT_TABLE_SCHEMA, "capacity") = <<"Coulomb">>
  BY <1>1, <1>3, <1>4, BatSound, ColumnOfField DEF Labels
<1>7. \A i \in 1 .. 10 : Len(BAT_COLUMNS[i].labels) = 2 => BAT_COLUMNS[i].labels[2] = "State"
  <2>1. \A w, f, d, t : Len(ColumnSpec(<<w>>, f, d, t).labels) # 2
    BY DEF ColumnSpec
  <2>2. \A w, f, d, t : ColumnSpec(<<w, "State">>, f, d, t).labels[2] = "State"
    BY DEF ColumnSpec
  <2> QED BY <2>1, <2>2, BatAt
<1>8. \A c \in ToSet(BAT_COLUMNS) : Len(c.labels) = 2 => c.labels[2] = "State"
  BY <1>7, BatColumns
<1> QED BY <1>1, <1>5, <1>6, <1>8

Schemas == {PWR_TABLE_SCHEMA, BAT_TABLE_SCHEMA}

LEMMA SchemasAreSound == \A schema \in Schemas : SoundSchema(schema)
  BY PwrSound, BatSound DEF Schemas

Defaults(schema) == [f \in Fields(schema) |-> schema.column[f].default]

LEMMA DefaultsType ==
  ASSUME NEW schema, SoundSchema(schema)
  PROVE  Defaults(schema) \in [Fields(schema) -> Nat]
<1>1. \A f \in Fields(schema) : schema.column[f].default \in Nat
  BY FieldColumn DEF SoundSchema, SoundColumn
<1> QED BY <1>1 DEF Defaults

LEMMA IndicesResolve ==
  ASSUME NEW schema, NEW header, has_header(schema, header)
  PROVE  Indices(schema, header) = _resolve_indices(schema, header, Defaults(schema))
  BY DEF Indices, Defaults

LEMMA PwrShift == PWR_TABLE_SCHEMA.shiftWithout = NoName
  BY DEF PWR_TABLE_SCHEMA

LEMMA PwrIndices ==
  ASSUME NEW layout \in Seq(Column), has_header(PWR_TABLE_SCHEMA, HeaderOf(layout))
  PROVE  Indices(PWR_TABLE_SCHEMA, HeaderOf(layout)) \in [Fields(PWR_TABLE_SCHEMA) -> Nat]
<1> DEFINE schema == PWR_TABLE_SCHEMA
           header == HeaderOf(layout)
<1>1. SoundSchema(schema) /\ schema.shiftWithout = NoName
  BY PwrSound, PwrShift
<1>2. header \in Seq(STRING)
  <2>1. HeaderParts(layout) \in Seq(Seq(STRING)) /\ header = FlattenSeq(HeaderParts(layout))
    BY HeaderPartsType
  <2>2. PICK off : Offsets(off, HeaderParts(layout))
    BY <2>1, OffsetsExist
  <2> QED BY <2>1, <2>2, FlattenIs
<1>3. Indices(schema, header) = _resolve_indices(schema, header, Defaults(schema))
  BY IndicesResolve
<1> HIDE DEF schema, header
<1>4. Defaults(schema) \in [Fields(schema) -> Nat]
  BY <1>1, DefaultsType
<1>5. PICK walk : /\ Walks(walk, schema, header, Defaults(schema))
                  /\ _resolve_indices(schema, header, Defaults(schema))
                       = Shifted(schema, walk[Len(header)].indices, header)
  BY <1>1, <1>2, <1>4, ResolveIs
<1>6. walk[Len(header)].indices \in [Fields(schema) -> Nat]
  <2>1. Len(header) \in 0 .. Len(header)
    BY <1>2
  <2> QED BY <1>5, <2>1 DEF Walks, WalkStates
<1>7. Shifted(schema, walk[Len(header)].indices, header) = walk[Len(header)].indices
  BY <1>1 DEF Shifted
<1> QED BY <1>3, <1>5, <1>6, <1>7 DEF schema, header

\* A field of a column the console prints is read where the console prints it.
RightlyIndexed(schema, layout, off, indices) ==
  \A f \in Fields(schema), j \in 1 .. Len(layout) :
    Labels(schema, f) = layout[j].labels => indices[f] = off[j - 1]

LEMMA AllShown ==
  ASSUME NEW schema, SoundSchema(schema),
         NEW layout \in Seq(Column), PlainLayout(schema, layout),
         NEW hoff, Offsets(hoff, HeaderParts(layout)), NEW off, DataOffsets(off, layout),
         NEW walk, NEW defaults, Walks(walk, schema, HeaderOf(layout), defaults),
         \A j \in 1 .. Len(layout) : layout[j].shown
  PROVE  RightlyIndexed(schema, layout, off,
           Shifted(schema, walk[hoff[Len(layout)]].indices, HeaderOf(layout)))
<1>1. Len(layout) \in 0 .. Len(layout)
  OBVIOUS
<1>2. \A f \in Fields(schema), j \in 1 .. Len(layout) :
        Labels(schema, f) = layout[j].labels
          => walk[hoff[Len(layout)]].indices[f] = off[j - 1]
  BY <1>1, PlacedUpTo
<1>3. schema.shiftWithout # NoName => schema.shiftWithout \in ToSet(HeaderOf(layout))
  <2> SUFFICES ASSUME schema.shiftWithout # NoName
               PROVE  schema.shiftWithout \in ToSet(HeaderOf(layout))
    OBVIOUS
  <2>1. PICK j \in 1 .. Len(layout) : layout[j].labels = <<schema.shiftWithout>>
    BY DEF PlainLayout, Printed, ToSet
  <2>2. /\ HeaderOf(layout) \in Seq(STRING) /\ Len(HeaderOf(layout)) = hoff[Len(layout)]
        /\ hoff[j - 1] \in Nat /\ hoff[j] = hoff[j - 1] + Len(layout[j].labels)
        /\ hoff[j] <= hoff[Len(layout)] /\ hoff[j] \in Nat
    BY HeaderAt
  <2>3. Len(layout[j].labels) = 1 /\ layout[j].labels[1] = schema.shiftWithout
    BY <2>1
  <2>4. 1 \in 1 .. Len(layout[j].labels)
    BY <2>3
  <2>5. HeaderOf(layout)[hoff[j - 1] + 1] = schema.shiftWithout
    BY <2>3, <2>4, HeaderAt
  <2>6. hoff[j - 1] + 1 \in 1 .. Len(HeaderOf(layout))
    BY <2>2, <2>3
  <2>7. hoff[j - 1] + 1 \in DOMAIN HeaderOf(layout)
    BY <2>2, <2>6
  <2> QED BY <2>5, <2>7 DEF ToSet
<1>4. Shifted(schema, walk[hoff[Len(layout)]].indices, HeaderOf(layout))
        = walk[hoff[Len(layout)]].indices
  BY <1>3 DEF Shifted
<1> QED BY <1>2, <1>4 DEF RightlyIndexed

LEMMA OneUnlabelled ==
  ASSUME NEW layout \in Seq(Column), PlainLayout(BAT_TABLE_SCHEMA, layout),
         NEW hoff, Offsets(hoff, HeaderParts(layout)), NEW off, DataOffsets(off, layout),
         NEW walk, NEW defaults \in [Fields(BAT_TABLE_SCHEMA) -> Nat],
         Walks(walk, BAT_TABLE_SCHEMA, HeaderOf(layout), defaults),
         NEW i \in 1 .. Len(layout), ~layout[i].shown
  PROVE  RightlyIndexed(BAT_TABLE_SCHEMA, layout, off,
           Shifted(BAT_TABLE_SCHEMA, walk[hoff[Len(layout)]].indices, HeaderOf(layout)))
<1> DEFINE schema == BAT_TABLE_SCHEMA
           header == HeaderOf(layout)
           n == Len(layout)
<1>1. SoundSchema(schema) /\ schema.shiftWithout = "SOC"
  BY BatSound, BatShift
<1>2. /\ \A j \in 1 .. n : ~layout[j].shown => Unlabelled(schema, layout, j)
      /\ \A j, k \in 1 .. n : layout[j].labels = layout[k].labels => j = k
  BY DEF PlainLayout
<1>c. \A j \in 1 .. n : PlainColumn(schema, layout[j], j = n)
  BY DEF PlainLayout
<1>3. n \in Nat /\ i \in 1 .. n /\ DOMAIN layout = 1 .. n
  OBVIOUS
<1>4. /\ layout[i].labels = <<"SOC">> /\ i = n - 1 /\ layout[n].labels = <<"Coulomb">>
      /\ n \in 1 .. n /\ i - 1 \in 0 .. n
  <2>1. Unlabelled(schema, layout, i)
    BY <1>2
  <2>2. n \in 1 .. n /\ i - 1 \in 0 .. n
    <3> HIDE DEF n
    <3> QED BY <1>3
  <2> HIDE DEF schema
  <2> QED BY <1>1, <2>1, <2>2 DEF Unlabelled
<1>5. \A j \in 1 .. n : j # i => layout[j].shown
  BY <1>1, <1>2, <1>3, <1>4 DEF Unlabelled
<1>b. /\ {"soc", "capacity"} \subseteq Fields(schema)
      /\ Labels(schema, "soc") = <<"SOC">> /\ Labels(schema, "capacity") = <<"Coulomb">>
      /\ schema.columns = BAT_COLUMNS
      /\ \A c \in ToSet(BAT_COLUMNS) : Len(c.labels) = 2 => c.labels[2] = "State"
  BY BatShift
<1>s. \E c \in ToSet(schema.columns) : c.labels = <<"SOC">>
  BY <1>1, <1>b, FieldColumn DEF Labels
<1>6. "SOC" \notin ToSet(header)
  <2> SUFFICES ASSUME "SOC" \in ToSet(header) PROVE FALSE
    OBVIOUS
  <2>1. header \in Seq(STRING)
    BY <1>4, <1>5, HeaderAt
  <2>2. PICK q \in 1 .. Len(header) : header[q] = "SOC"
    <3> HIDE DEF header
    <3> QED BY <2>1 DEF ToSet
  <2>3. PICK j \in 1 .. n : \E k \in 1 .. Len(layout[j].labels) :
                              layout[j].shown /\ header[q] = layout[j].labels[k]
    BY <2>2, HeaderFrom
  <2>4. PICK k \in 1 .. Len(layout[j].labels) : layout[j].shown /\ "SOC" = layout[j].labels[k]
    BY <2>2, <2>3
  <2> HIDE DEF header, n, schema
  <2>5. j # i /\ layout[j].labels # <<"SOC">>
    BY <1>2, <1>3, <1>4, <2>4
  <2>6. CASE \E c \in ToSet(schema.columns) : layout[j].labels = c.labels
    <3>1. PICK c \in ToSet(schema.columns) : layout[j].labels = c.labels
      BY <2>6
    <3>2. PICK a, b : c.labels \in {<<a>>, <<a, b>>}
      BY <1>1 DEF SoundSchema, SoundColumn
    <3>3. CASE c.labels = <<a>>
      <4>1. k = 1 /\ a = "SOC"
        BY <2>4, <3>1, <3>3
      <4> QED BY <2>5, <3>1, <3>3, <4>1
    <3>4. CASE c.labels = <<a, b>>
      <4>1. Len(c.labels) = 2 /\ k \in {1, 2}
        BY <2>4, <3>1, <3>4
      <4>2. c.labels[2] = "State"
        BY <1>b, <4>1
      <4>3. k = 1
        BY <2>4, <3>1, <4>1, <4>2
      <4>4. PICK d \in ToSet(schema.columns) : d.labels = <<"SOC">>
        BY <1>s
      <4>5. d.labels[1] = c.labels[1]
        BY <2>4, <3>1, <4>3, <4>4
      <4>6. c = d
        BY <1>1, <4>5 DEF SoundSchema
      <4> QED BY <2>5, <3>1, <4>4, <4>6
    <3> QED BY <3>2, <3>3, <3>4
  <2>7. CASE /\ Len(layout[j].labels) = 1
             /\ \A c \in ToSet(schema.columns) : c.labels[1] # layout[j].labels[1]
    <3>1. k = 1
      BY <2>7
    <3>2. PICK d \in ToSet(schema.columns) : d.labels = <<"SOC">>
      BY <1>s
    <3>3. d.labels[1] = "SOC"
      BY <3>2
    <3> QED BY <2>4, <2>7, <3>1, <3>3
  <2> QED BY <1>c, <2>6, <2>7 DEF PlainColumn
<1>7. hoff[i] = hoff[i - 1]
  <2>1. /\ HeaderParts(layout)[i] = <<>> /\ Len(HeaderParts(layout)) = n
        /\ HeaderParts(layout) \in Seq(Seq(STRING))
    BY HeaderPartsType
  <2>2. hoff[i] = hoff[i - 1] + Len(HeaderParts(layout)[i]) /\ hoff[i - 1] \in Nat
    <3> HIDE DEF n
    <3> QED BY <1>3, <1>4, <2>1 DEF Offsets
  <2>3. Len(HeaderParts(layout)[i]) = 0
    BY <2>1
  <2> QED BY <2>2, <2>3
<1>8. /\ walk[hoff[i]].skip = 0 /\ walk[hoff[i]].data = off[i - 1]
      /\ \A f \in Fields(schema), j \in 1 .. i - 1 :
           Labels(schema, f) = layout[j].labels => walk[hoff[i]].indices[f] = off[j - 1]
  <2>1. \A j \in 1 .. i - 1 : layout[j].shown
    <3> HIDE DEF n
    <3> QED BY <1>3, <1>4, <1>5
  <2>2. PlainLayout(schema, layout) /\ Walks(walk, schema, header, defaults)
    OBVIOUS
  <2> DEFINE m == i - 1
  <2>3. m \in 0 .. Len(layout) /\ m # Len(layout) /\ \A j \in 1 .. m : layout[j].shown
    BY <1>3, <1>4, <2>1
  <2> HIDE DEF schema, m, n
  <2>4. /\ walk[hoff[m]].skip = 0 /\ walk[hoff[m]].data = off[m]
        /\ \A f \in Fields(schema), j \in 1 .. m :
             Labels(schema, f) = layout[j].labels => walk[hoff[m]].indices[f] = off[j - 1]
    BY <1>1, <2>2, <2>3, PlacedUpTo
  <2> QED BY <1>7, <2>4 DEF m
<1>9. \A f \in Fields(schema) :
        walk[hoff[n]].indices[f] =
          IF Labels(schema, f) = layout[n].labels THEN walk[hoff[n - 1]].data
          ELSE walk[hoff[n - 1]].indices[f]
  <2>1. layout[n].shown /\ walk[hoff[n - 1]].skip = 0
    <3> HIDE DEF n
    <3> QED BY <1>3, <1>4, <1>5, <1>8
  <2>2. PlainLayout(schema, layout) /\ Walks(walk, schema, header, defaults)
    OBVIOUS
  <2>3. n \in 1 .. Len(layout)
    BY <1>4
  <2> HIDE DEF schema, n
  <2> QED BY <1>1, <2>1, <2>2, <2>3, ColumnStep
<1> DEFINE old == walk[hoff[n]].indices
<1>10. old \in [Fields(schema) -> Nat]
  <2>1. header \in Seq(STRING) /\ Len(header) = hoff[n]
    BY <1>4, <1>5, HeaderAt
  <2>2. hoff[n] \in 0 .. Len(header)
    <3> HIDE DEF header, n
    <3> QED BY <2>1
  <2> QED BY <2>2 DEF Walks, WalkStates
<1> DEFINE new == Shifted(schema, old, header)
<1>11. new = [old EXCEPT !["soc"] = old["capacity"], !["capacity"] = @ + 1]
  <2>1. "SOC" # NoName
    BY DEF NoName
  <2> HIDE DEF schema, header, old
  <2> QED BY <1>1, <1>6, <2>1 DEF Shifted
<1> HIDE DEF old
<1>12. old["capacity"] = off[i - 1]
  <2> HIDE DEF schema, n
  <2> QED BY <1>4, <1>8, <1>9, <1>b DEF old
<1>13. off[n - 1] = off[i - 1] + 1
  <2>1. layout[i].tokens = 1
    <3>1. PlainColumn(schema, layout[i], i = n)
      BY <1>c
    <3>n. i # n
      <4> HIDE DEF n
      <4> QED BY <1>3, <1>4
    <3>2. \A c \in ToSet(schema.columns) : c.labels = <<"SOC">> => c.width = 1
      <4> SUFFICES ASSUME NEW c \in ToSet(schema.columns), c.labels = <<"SOC">>
                   PROVE  c.width = 1
        OBVIOUS
      <4>1. c = schema.column["soc"] /\ c.field = "soc"
        <5>1. schema.column["soc"] \in ToSet(schema.columns) /\ schema.column["soc"].field = "soc"
          BY <1>1, <1>b, FieldColumn
        <5>2. schema.column["soc"].labels = c.labels
          BY <1>b DEF Labels
        <5> HIDE DEF schema
        <5> QED BY <1>1, <5>1, <5>2 DEF SoundSchema
      <4>2. "soc" # NoName
        BY DEF NoName
      <4> HIDE DEF schema
      <4> QED BY <1>1, <4>1, <4>2 DEF SoundSchema, SoundColumn
    <3> HIDE DEF schema
    <3> QED BY <1>4, <3>1, <3>2, <3>n DEF PlainColumn
  <2> HIDE DEF n
  <2>2. off[i] = off[i - 1] + layout[i].tokens
    BY <1>3 DEF DataOffsets, n
  <2> QED BY <1>4, <2>1, <2>2
<1> HIDE DEF schema, n, new
<1>14. ASSUME NEW f \in Fields(schema), NEW j \in 1 .. n, Labels(schema, f) = layout[j].labels
       PROVE  new[f] = off[j - 1]
  <2>0. i \in 1 .. n /\ n \in 1 .. n
    BY <1>3, <1>4
  <2>1. CASE j = n
    <3>1. f = "capacity"
      <4>1. Labels(schema, f) = Labels(schema, "capacity") /\ "capacity" \in Fields(schema)
        BY <1>14, <1>4, <1>b, <2>1
      <4> QED BY <1>1, <4>1, FieldColumn DEF Labels, SoundSchema
    <3> QED BY <1>10, <1>11, <1>12, <1>13, <1>b, <2>1, <3>1
  <2>2. CASE j = i
    <3>1. f = "soc"
      <4>1. Labels(schema, f) = Labels(schema, "soc") /\ "soc" \in Fields(schema)
        BY <1>14, <1>4, <1>b, <2>2
      <4> QED BY <1>1, <4>1, FieldColumn DEF Labels, SoundSchema
    <3>2. "soc" # "capacity"
      OBVIOUS
    <3> QED BY <1>10, <1>11, <1>12, <1>b, <2>2, <3>1, <3>2
  <2>3. CASE j # n /\ j # i
    <3>1. j \in 1 .. i - 1
      BY <1>3, <1>4, <2>3
    <3>2. f # "soc" /\ f # "capacity"
      BY <1>14, <1>2, <1>4, <1>b, <2>0, <2>3
    <3>3. old[f] = walk[hoff[n - 1]].indices[f]
      <4>1. Labels(schema, f) # layout[n].labels
        BY <1>14, <1>2, <2>0, <2>3
      <4> QED BY <1>9, <4>1 DEF old
    <3>4. old[f] = off[j - 1]
      BY <1>14, <1>4, <1>8, <3>1, <3>3
    <3> QED BY <1>10, <1>11, <3>2, <3>4
  <2> QED BY <2>1, <2>2, <2>3
<1> QED BY <1>14 DEF RightlyIndexed, new, old, n, schema

-----------------------------------------------------------------------------
LEMMA IndicesAre ==
  ASSUME NEW schema \in Schemas, NEW layout \in Seq(Column), PlainLayout(schema, layout),
         has_header(schema, HeaderOf(layout)), NEW off, DataOffsets(off, layout)
  PROVE  RightlyIndexed(schema, layout, off, Indices(schema, HeaderOf(layout)))
<1> DEFINE header == HeaderOf(layout)
           defaults == Defaults(schema)
<1>1. SoundSchema(schema) /\ defaults \in [Fields(schema) -> Nat]
  BY SchemasAreSound, DefaultsType
<1>2. Indices(schema, header) = _resolve_indices(schema, header, defaults)
  BY IndicesResolve
<1>3. /\ HeaderParts(layout) \in Seq(Seq(STRING)) /\ header = FlattenSeq(HeaderParts(layout))
      /\ Len(HeaderParts(layout)) = Len(layout)
  BY HeaderPartsType
<1>4. PICK hoff : Offsets(hoff, HeaderParts(layout))
  BY <1>3, OffsetsExist
<1>5. header \in Seq(STRING) /\ Len(header) = hoff[Len(layout)]
  BY <1>3, <1>4, FlattenIs
<1> HIDE DEF defaults, header
<1>6. PICK walk : /\ Walks(walk, schema, header, defaults)
                  /\ _resolve_indices(schema, header, defaults)
                       = Shifted(schema, walk[Len(header)].indices, header)
  BY <1>1, <1>5, ResolveIs
<1>7. Walks(walk, schema, HeaderOf(layout), defaults)
  BY <1>6 DEF header
<1>8. CASE \A j \in 1 .. Len(layout) : layout[j].shown
  <2>1. RightlyIndexed(schema, layout, off,
          Shifted(schema, walk[hoff[Len(layout)]].indices, HeaderOf(layout)))
    BY <1>1, <1>4, <1>7, <1>8, AllShown
  <2> QED BY <1>2, <1>5, <1>6, <2>1 DEF header
<1>9. CASE \E j \in 1 .. Len(layout) : ~layout[j].shown
  <2>1. PICK i \in 1 .. Len(layout) : ~layout[i].shown
    BY <1>9
  <2>2. schema.shiftWithout # NoName
    BY <2>1 DEF PlainLayout, Unlabelled
  <2>3. schema = BAT_TABLE_SCHEMA
    BY <2>2, PwrShift DEF Schemas
  <2>4. /\ PlainLayout(BAT_TABLE_SCHEMA, layout)
        /\ Walks(walk, BAT_TABLE_SCHEMA, HeaderOf(layout), defaults)
        /\ defaults \in [Fields(BAT_TABLE_SCHEMA) -> Nat]
    BY <1>1, <1>7, <2>3
  <2>5. RightlyIndexed(BAT_TABLE_SCHEMA, layout, off,
          Shifted(BAT_TABLE_SCHEMA, walk[hoff[Len(layout)]].indices, HeaderOf(layout)))
    BY <1>4, <2>1, <2>4, OneUnlabelled
  <2> QED BY <1>2, <1>5, <1>6, <2>3, <2>5 DEF header
<1> QED BY <1>8, <1>9 DEF header

(***************************************************************************)
(* A line: which column each of its tokens comes from.                     *)
(***************************************************************************)
Token(column, state, battery, line, k) ==
  [is |-> IF k = 1 THEN KindIn(column, state) ELSE "word", of |-> column.labels,
   nth |-> k, battery |-> battery, line |-> line]

IsLine(tokens, layout, off, state, battery, line) ==
  /\ Len(tokens) \in Nat /\ DOMAIN tokens = 1 .. Len(tokens)
  /\ Len(tokens) = IF state.keep < off[Len(layout)] THEN state.keep ELSE off[Len(layout)]
  /\ \A j \in 1 .. Len(layout), k \in 1 .. Len(tokens) :
       k \in off[j - 1] + 1 .. off[j]
         => tokens[k] = Token(layout[j], state, battery, line, k - off[j - 1])
  /\ \A k \in 1 .. Len(tokens) : \E j \in 1 .. Len(layout) : k \in off[j - 1] + 1 .. off[j]

LEMMA LineIs ==
  ASSUME NEW layout \in Seq(Column), NEW state, state.keep \in Nat, NEW battery, NEW line,
         NEW off, DataOffsets(off, layout)
  PROVE  IsLine(LineOf(layout, state, battery, line).tokens, layout, off, state, battery, line)
<1> DEFINE n == Len(layout)
           token(j, k) == Token(layout[j], state, battery, line, k)
           S == {token(j, k) : j \in 1 .. n, k \in Nat}
           seqs == [j \in 1 .. n |-> [k \in 1 .. layout[j].tokens |-> token(j, k)]]
           whole == FlattenSeq(seqs)
           last == IF state.keep < Len(whole) THEN state.keep ELSE Len(whole)
           tokens == LineOf(layout, state, battery, line).tokens
<1>1. n \in Nat /\ DOMAIN layout = 1 .. n /\ \A j \in 1 .. n : layout[j].tokens \in Nat
  <2>1. \A j \in 1 .. n : layout[j] \in Column
    OBVIOUS
  <2> QED BY <2>1 DEF Column
<1>2. tokens = SubSeq(whole, 1, last)
  <2>1. seqs = [i \in DOMAIN layout |->
                  [k \in 1 .. layout[i].tokens |->
                     [is |-> IF k = 1 THEN KindIn(layout[i], state) ELSE "word",
                      of |-> layout[i].labels, nth |-> k,
                      battery |-> battery, line |-> line]]]
    BY <1>1 DEF Token
  <2> HIDE DEF seqs
  <2> QED BY <2>1 DEF LineOf
<1>3. ASSUME NEW j \in 1 .. n
      PROVE  /\ seqs[j] \in Seq(S) /\ Len(seqs[j]) = layout[j].tokens
             /\ \A k \in 1 .. layout[j].tokens : seqs[j][k] = token(j, k)
  <2>1. \A k \in Nat : token(j, k) \in S
    OBVIOUS
  <2>2. seqs[j] = [k \in 1 .. layout[j].tokens |-> token(j, k)]
    OBVIOUS
  <2> HIDE DEF seqs, S, token
  <2> QED BY <1>1, <2>1, <2>2
<1>4. seqs \in Seq(Seq(S)) /\ Len(seqs) = n
  <2>1. seqs = [j \in 1 .. n |-> seqs[j]]
    OBVIOUS
  <2> HIDE DEF seqs, S
  <2>2. seqs \in [1 .. n -> Seq(S)]
    BY <1>3, <2>1
  <2> QED BY <1>1, <2>2
<1> HIDE DEF seqs, S, token
<1>5. Offsets(off, seqs)
  BY <1>3, <1>4 DEF Offsets, DataOffsets
<1>6. /\ whole \in Seq(S) /\ Len(whole) = off[n]
      /\ \A j \in 1 .. n : \A k \in 1 .. Len(seqs[j]) : whole[off[j - 1] + k] = seqs[j][k]
  BY <1>4, <1>5, FlattenIs
<1>7. Covered(off, seqs)
  BY <1>4, <1>5, FlattenFrom
<1> HIDE DEF whole
<1>8. last \in 0 .. Len(whole) /\ last \in Nat /\ Len(whole) \in Nat
  <2>1. Len(whole) \in Nat
    BY <1>6
  <2> QED BY <2>1
<1>9. /\ tokens \in Seq(S) /\ Len(tokens) = last
      /\ \A k \in 1 .. last : tokens[k] = whole[k]
  <2> HIDE DEF last, tokens
  <2>1. SubSeq(whole, 1, last) \in Seq(S) /\ Len(SubSeq(whole, 1, last)) = last
    BY <1>6, <1>8
  <2>2. \A k \in 1 .. last : SubSeq(whole, 1, last)[k] = whole[k]
    BY <1>6, <1>8
  <2> QED BY <1>2, <2>1, <2>2
<1>10. last = IF state.keep < off[n] THEN state.keep ELSE off[n]
  BY <1>6
<1> HIDE DEF tokens, last, n
<1>11. ASSUME NEW j \in 1 .. n, NEW k \in 1 .. Len(tokens), k \in off[j - 1] + 1 .. off[j]
       PROVE  tokens[k] = token(j, k - off[j - 1])
  <2>1. j - 1 \in 0 .. n /\ j \in 0 .. n
    BY <1>1
  <2>2. off[j - 1] \in Nat /\ off[j] = off[j - 1] + Len(seqs[j]) /\ Len(seqs[j]) \in Nat
    BY <1>1, <1>3, <1>4, <1>5, <2>1 DEF Offsets
  <2> DEFINE q == k - off[j - 1]
  <2>3. q \in 1 .. Len(seqs[j]) /\ off[j - 1] + q = k
    BY <1>11, <2>2
  <2> HIDE DEF q
  <2>4. whole[k] = seqs[j][q]
    BY <1>6, <2>3
  <2>5. seqs[j][q] = token(j, q)
    BY <1>3, <2>3
  <2>6. q = k - off[j - 1]
    BY DEF q
  <2> QED BY <1>9, <2>4, <2>5, <2>6
<1>12. ASSUME NEW k \in 1 .. Len(tokens) PROVE \E j \in 1 .. n : k \in off[j - 1] + 1 .. off[j]
  <2>1. k \in 1 .. off[Len(seqs)]
    BY <1>4, <1>6, <1>8, <1>9
  <2>2. PICK j \in 1 .. Len(seqs) : \E q \in 1 .. Len(seqs[j]) : k = off[j - 1] + q
    BY <1>7, <2>1 DEF Covered
  <2>3. PICK q \in 1 .. Len(seqs[j]) : k = off[j - 1] + q
    BY <2>2
  <2>4. j \in 1 .. n /\ j - 1 \in 0 .. n
    BY <1>1, <1>4
  <2>5. off[j - 1] \in Nat /\ off[j] = off[j - 1] + Len(seqs[j]) /\ Len(seqs[j]) \in Nat
    BY <1>1, <1>3, <1>4, <1>5, <2>4 DEF Offsets
  <2>6. k \in off[j - 1] + 1 .. off[j]
    BY <2>3, <2>5
  <2> QED BY <2>4, <2>6
<1>13. Len(tokens) \in Nat /\ DOMAIN tokens = 1 .. Len(tokens)
  BY <1>9
<1> QED BY <1>9, <1>10, <1>11, <1>12, <1>13 DEF IsLine, tokens, token, n

(***************************************************************************)
(* What a field takes from a line.                                         *)
(***************************************************************************)
LEMMA ReadAny ==
  ASSUME NEW t, SoundTransform(t), NEW index \in Nat,
         NEW layout, NEW off, NEW state, NEW battery, NEW line, NEW tokens,
         IsLine(tokens, layout, off, state, battery, line),
         Read(t, tokens, index) # Bad
  PROVE  \/ Read(t, tokens, index) = None /\ Transforms[t].none # {}
         \/ /\ Read(t, tokens, index).battery = battery
            /\ Read(t, tokens, index).line = line
            /\ index < Len(tokens) /\ Read(t, tokens, index) = tokens[index + 1]
            /\ tokens[index + 1].is \in Transforms[t].takes
<1> DEFINE kind == IF index < Len(tokens) THEN tokens[index + 1].is ELSE "missing"
<1>1. Read(t, tokens, index) = CASE kind \in Transforms[t].takes -> tokens[index + 1]
                                 [] kind \in Transforms[t].none -> None
                                 [] OTHER -> Bad
  BY DEF Read
<1>2. CASE kind \in Transforms[t].takes
  <2>1. index < Len(tokens) /\ tokens[index + 1].is \in Transforms[t].takes
    BY <1>2 DEF SoundTransform
  <2> HIDE DEF kind
  <2> DEFINE q == index + 1
  <2>2. q \in 1 .. Len(tokens)
    BY <2>1 DEF IsLine
  <2> HIDE DEF q
  <2>3. PICK j \in 1 .. Len(layout) : q \in off[j - 1] + 1 .. off[j]
    BY <2>2 DEF IsLine
  <2>4. tokens[q] = Token(layout[j], state, battery, line, q - off[j - 1])
    BY <2>2, <2>3 DEF IsLine
  <2>5. tokens[index + 1].battery = battery /\ tokens[index + 1].line = line
    BY <2>4 DEF Token, q
  <2>6. kind \notin Transforms[t].none
    BY <1>2 DEF SoundTransform
  <2>7. Read(t, tokens, index) = tokens[index + 1]
    BY <1>1, <1>2, <2>6
  <2> QED BY <2>1, <2>5, <2>7
<1>3. CASE kind \notin Transforms[t].takes
  <2> HIDE DEF kind
  <2>1. kind \in Transforms[t].none /\ Read(t, tokens, index) = None
    BY <1>1, <1>3
  <2> QED BY <2>1
<1> QED BY <1>2, <1>3

\* The column of a field has a token at least.
LEMMA FieldWidth ==
  ASSUME NEW schema \in Schemas, NEW layout \in Seq(Column), PlainLayout(schema, layout),
         NEW off, DataOffsets(off, layout), NEW f \in Fields(schema),
         NEW j \in 1 .. Len(layout), Labels(schema, f) = layout[j].labels
  PROVE  off[j - 1] \in Nat /\ off[j] \in Nat /\ off[j] >= off[j - 1] + 1
<1>1. SoundSchema(schema)
  BY SchemasAreSound
<1>2. /\ schema.column[f] \in ToSet(schema.columns)
      /\ schema.column[f].field = f /\ f # NoName
      /\ schema.column[f].labels = layout[j].labels
  BY <1>1, FieldColumn DEF Labels
<1>3. schema.column[f].width = 1
  BY <1>1, <1>2 DEF SoundSchema, SoundColumn
<1>4. PlainColumn(schema, layout[j], j = Len(layout)) /\ layout[j].tokens \in Nat
  <2>1. layout[j] \in Column
    OBVIOUS
  <2> QED BY <2>1 DEF PlainLayout, Column
<1>5. layout[j].tokens >= 1
  <2>1. CASE \E c \in ToSet(schema.columns) :
               layout[j].labels = c.labels
                 /\ (layout[j].tokens = c.width \/ layout[j].tokens > c.width)
    <3>1. PICK c \in ToSet(schema.columns) :
                 layout[j].labels = c.labels
                   /\ (layout[j].tokens = c.width \/ layout[j].tokens > c.width)
      BY <2>1
    <3>2. c = schema.column[f]
      BY <1>1, <1>2, <3>1 DEF SoundSchema
    <3> QED BY <1>3, <1>4, <3>1, <3>2
  <2>2. CASE layout[j].tokens = 1
    BY <2>2
  <2> QED BY <1>4, <2>1, <2>2 DEF PlainColumn
<1>6. j - 1 \in 0 .. Len(layout) /\ j \in 0 .. Len(layout)
  OBVIOUS
<1>7. off[j - 1] \in Nat /\ off[j] \in Nat /\ off[j] = off[j - 1] + layout[j].tokens
  BY <1>6 DEF DataOffsets
<1> QED BY <1>4, <1>5, <1>7

\* The token of a field, when the line is long enough to have it.
LEMMA FieldToken ==
  ASSUME NEW schema \in Schemas, NEW layout \in Seq(Column), PlainLayout(schema, layout),
         NEW off, DataOffsets(off, layout), NEW f \in Fields(schema),
         NEW j \in 1 .. Len(layout), Labels(schema, f) = layout[j].labels,
         NEW state, NEW battery, NEW line, NEW tokens,
         IsLine(tokens, layout, off, state, battery, line), off[j - 1] < Len(tokens)
  PROVE  tokens[off[j - 1] + 1] = Token(layout[j], state, battery, line, 1)
<1>1. off[j - 1] \in Nat /\ off[j] \in Nat /\ off[j] >= off[j - 1] + 1
  BY FieldWidth
<1> DEFINE q == off[j - 1] + 1
<1>2. q \in 1 .. Len(tokens) /\ q \in off[j - 1] + 1 .. off[j] /\ q - off[j - 1] = 1
  BY <1>1 DEF IsLine
<1> HIDE DEF q
<1>3. tokens[q] = Token(layout[j], state, battery, line, q - off[j - 1])
  BY <1>2 DEF IsLine
<1> QED BY <1>2, <1>3 DEF q

LEMMA OwnValue ==
  ASSUME NEW schema \in Schemas, NEW layout \in Seq(Column), PlainLayout(schema, layout),
         NEW off, DataOffsets(off, layout), NEW indices,
         RightlyIndexed(schema, layout, off, indices),
         NEW f \in Fields(schema), Labels(schema, f) \in Printed(layout),
         NEW state, NEW battery, NEW line, NEW tokens,
         IsLine(tokens, layout, off, state, battery, line), NEW v, v # Bad,
         v = Read(schema.column[f].transform, tokens, indices[f])
  PROVE  \/ v = None
         \/ /\ v.of = Labels(schema, f) /\ v.nth = 1
            /\ v.battery = battery /\ v.line = line
<1>1. PICK j \in 1 .. Len(layout) : Labels(schema, f) = layout[j].labels
  BY DEF Printed, ToSet
<1>2. indices[f] = off[j - 1] /\ off[j - 1] \in Nat
  BY <1>1, FieldWidth DEF RightlyIndexed
<1>3. SoundTransform(schema.column[f].transform)
  BY SchemasAreSound, FieldColumn DEF SoundSchema, SoundColumn
<1>4. \/ v = None
      \/ /\ v.battery = battery /\ v.line = line
         /\ off[j - 1] < Len(tokens) /\ v = tokens[off[j - 1] + 1]
  BY <1>2, <1>3, ReadAny
<1>5. off[j - 1] < Len(tokens)
        => tokens[off[j - 1] + 1].of = Labels(schema, f) /\ tokens[off[j - 1] + 1].nth = 1
  <2> SUFFICES ASSUME off[j - 1] < Len(tokens)
               PROVE  /\ tokens[off[j - 1] + 1].of = Labels(schema, f)
                      /\ tokens[off[j - 1] + 1].nth = 1
    OBVIOUS
  <2>1. tokens[off[j - 1] + 1] = Token(layout[j], state, battery, line, 1)
    BY <1>1, FieldToken
  <2> QED BY <1>1, <2>1 DEF Token
<1> QED BY <1>4, <1>5

(***************************************************************************)
(* The rows of a table: the lines at some positions, in order.             *)
(***************************************************************************)
Line(layout, states, numbers, i) == LineOf(layout, states[i], numbers[i], i)

Kept(schema, indices, line) ==
  IsRow(schema, indices, line) /\ Converted(Values(schema, indices, line))

RowsFrom(rows, pos, schema, indices, layout, n, states, numbers) ==
  /\ Len(rows) \in Nat /\ Len(rows) <= n /\ DOMAIN rows = 1 .. Len(rows)
  /\ \A k \in 1 .. Len(rows) :
       /\ pos[k] \in 1 .. n
       /\ rows[k] = Values(schema, indices, Line(layout, states, numbers, pos[k]))
       /\ Converted(rows[k])
  /\ \A j, k \in 1 .. Len(rows) : j < k => pos[j] < pos[k]
  /\ \A i \in 1 .. n :
       (\E k \in 1 .. Len(rows) : pos[k] = i)
         <=> Kept(schema, indices, Line(layout, states, numbers, i))

LEMMA RowsAre ==
  ASSUME NEW schema, NEW layout, NEW header, NEW n \in Nat,
         NEW states, DOMAIN states = 1 .. n, NEW numbers
  PROVE  \E pos : RowsFrom(parse_table(schema, TextOf(layout, header, states, numbers)), pos,
                           schema,
                           Indices(schema, IF header THEN HeaderOf(layout) ELSE <<>>),
                           layout, n, states, numbers)
<1> DEFINE text == TextOf(layout, header, states, numbers)
           indices == Indices(schema, IF header THEN HeaderOf(layout) ELSE <<>>)
           line(i) == Line(layout, states, numbers, i)
           read == [i \in 1 .. n |-> Values(schema, indices, line(i))]
           kept == {i \in 1 .. n : IsRow(schema, indices, line(i)) /\ Converted(read[i])}
           D == {Values(schema, indices, line(i)) : i \in 1 .. n}
           rows == parse_table(schema, text)
<1>1. /\ text.header = IF header THEN HeaderOf(layout) ELSE <<>>
      /\ text.lines = [i \in 1 .. n |-> line(i)]
  BY DEF TextOf, Line
<1> HIDE DEF text
<1>2. rows = Selected(read, kept)
  <2>1. /\ DOMAIN text.lines = 1 .. n /\ \A i \in 1 .. n : text.lines[i] = line(i)
        /\ Indices(schema, text.header) = indices
    BY <1>1
  <2>2. read = [i \in DOMAIN text.lines |-> Values(schema, indices, text.lines[i])]
    BY <2>1
  <2>3. kept = {i \in DOMAIN read : /\ IsRow(schema, indices, text.lines[i])
                                    /\ Converted(read[i])}
    <3>1. DOMAIN read = 1 .. n
      OBVIOUS
    <3> HIDE DEF read, indices, line
    <3> QED BY <2>1, <3>1
  <2> HIDE DEF read, kept, indices
  <2> QED BY <2>1, <2>2, <2>3 DEF parse_table
<1>3. read \in Seq(D) /\ Len(read) = n /\ \A i \in 1 .. n : read[i] = Values(schema, indices, line(i))
  <2>1. \A i \in 1 .. n : Values(schema, indices, line(i)) \in D
    OBVIOUS
  <2> HIDE DEF D, indices, line
  <2>2. read \in [1 .. n -> D]
    BY <2>1
  <2> QED BY <2>2
<1>4. \A i : i \in kept <=> /\ i \in 1 .. n /\ Kept(schema, indices, line(i))
  BY <1>3 DEF Kept
<1> HIDE DEF read, kept, D, line, indices, rows
<1>5. PICK pos \in Seq(Nat) :
        /\ Picks(pos, read, Selected(read, kept))
        /\ \A i : (\E k \in 1 .. Len(pos) : pos[k] = i) <=> i \in kept /\ i \in 1 .. Len(read)
        /\ Len(pos) <= Len(read) /\ Selected(read, kept) \in Seq(D)
  BY <1>3, SelectedIs
<1>6. /\ Len(rows) \in Nat /\ Len(rows) <= n /\ DOMAIN rows = 1 .. Len(rows)
      /\ Len(pos) = Len(rows)
  BY <1>2, <1>3, <1>5 DEF Picks
<1>7. ASSUME NEW k \in 1 .. Len(rows)
      PROVE  /\ pos[k] \in 1 .. n /\ rows[k] = Values(schema, indices, line(pos[k]))
             /\ Converted(rows[k])
  <2>1. pos[k] \in 1 .. n /\ rows[k] = read[pos[k]] /\ pos[k] \in kept
    BY <1>2, <1>3, <1>5, <1>6 DEF Picks
  <2> QED BY <1>3, <1>4, <2>1 DEF Kept
<1>8. \A j, k \in 1 .. Len(rows) : j < k => pos[j] < pos[k]
  BY <1>5, <1>6 DEF Picks
<1>9. \A i \in 1 .. n : (\E k \in 1 .. Len(rows) : pos[k] = i) <=> Kept(schema, indices, line(i))
  BY <1>3, <1>4, <1>5, <1>6
<1>10. RowsFrom(rows, pos, schema, indices, layout, n, states, numbers)
  BY <1>6, <1>7, <1>8, <1>9 DEF RowsFrom, line
<1> QED BY <1>10 DEF rows, indices, text

-----------------------------------------------------------------------------
(***************************************************************************)
(* Types.                                                                  *)
(***************************************************************************)
Pcs == {"start", "info", "pwr", "probe", "detail", "stat", "cells", "parse", "publish"}

Controls ==
  /\ console \in DOMAIN Consoles /\ pc \in Pcs /\ info_fetched \in BOOLEAN
  /\ totals.age \in Ages /\ info \subseteq InfoKeys
  /\ stat \in Ages /\ bms_time \in Ages

TypedBattery(b) ==
  /\ b.sys_id \in 1 .. Slots /\ b.age \in {"old", "now"}
  /\ b.detail \in [DetailKeys -> Ages] /\ b.cells.age \in Ages

TypedBatteries(bs) ==
  /\ Len(bs) \in Nat /\ Len(bs) <= Slots /\ DOMAIN bs = 1 .. Len(bs)
  /\ \A i \in DOMAIN bs : TypedBattery(bs[i])

TypeInv == DataInv /\ Controls /\ TypedBatteries(batteries)

LEMMA OlderType == \A age \in Ages : Older(age) \in Ages /\ Older(age) # "now"
  BY DEF Older, Ages

LEMMA FirmwareType ==
  ASSUME console \in DOMAIN Consoles
  PROVE  /\ firmware.pwr \in Seq(Column) /\ firmware.bat \in Seq(Column)
         /\ \A state \in firmware.pwrStates \cup firmware.batStates : state.keep \in Nat
         /\ Slots \in Nat /\ Cells \in Nat
  BY ConsolesAssumption DEF ConsolesAssumption, firmware

LEMMA PwrSysId ==
  /\ "sys_id" \in Fields(PWR_TABLE_SCHEMA)
  /\ Labels(PWR_TABLE_SCHEMA, "sys_id") = <<"Power">>
  /\ PWR_TABLE_SCHEMA.column["sys_id"].transform = "required_int"
<1>1. PWR_TABLE_SCHEMA.columns = PWR_COLUMNS
  BY DEF PWR_TABLE_SCHEMA
<1> HIDE DEF PWR_TABLE_SCHEMA, PWR_COLUMNS
<1>2. /\ PWR_COLUMNS[1] \in ToSet(PWR_COLUMNS) /\ PWR_COLUMNS[1].field = "sys_id"
      /\ PWR_COLUMNS[1].labels = <<"Power">> /\ PWR_COLUMNS[1].transform = "required_int"
  BY PwrColumns, PwrAt DEF ColumnSpec
<1>3. "sys_id" # NoName
  BY DEF NoName
<1> QED BY <1>1, <1>2, <1>3, PwrSound, ColumnOfField DEF Labels

LEMMA RequiredInt ==
  /\ Transforms["required_int"].takes = {"int"} /\ Transforms["required_int"].none = {}
  BY DEF Transforms

\* The rows of a 'pwr' table, and the battery each is about.
IsPwrTable(rows, layout, n, states) ==
  \E pos : /\ RowsFrom(rows, pos, PWR_TABLE_SCHEMA,
                       Indices(PWR_TABLE_SCHEMA, HeaderOf(layout)), layout,
                       n, states, [i \in DOMAIN states |-> i])
           /\ \A k \in 1 .. Len(rows) : rows[k].sys_id.battery = pos[k]

LEMMA PwrRows ==
  ASSUME NEW layout \in Seq(Column), has_header(PWR_TABLE_SCHEMA, HeaderOf(layout)),
         NEW n \in Nat, NEW states, DOMAIN states = 1 .. n,
         \A i \in 1 .. n : states[i].keep \in Nat
  PROVE  IsPwrTable(parse_table(PWR_TABLE_SCHEMA,
                      TextOf(layout, TRUE, states, [i \in DOMAIN states |-> i])),
                    layout, n, states)
<1> DEFINE schema == PWR_TABLE_SCHEMA
           numbers == [i \in DOMAIN states |-> i]
           indices == Indices(schema, HeaderOf(layout))
           rows == parse_table(schema, TextOf(layout, TRUE, states, numbers))
<1>1. PICK pos : RowsFrom(rows, pos, schema,
                          Indices(schema, IF TRUE THEN HeaderOf(layout) ELSE <<>>),
                          layout, n, states, numbers)
  <2> HIDE DEF schema, numbers, rows
  <2> QED BY RowsAre DEF rows
<1>2. RowsFrom(rows, pos, schema, indices, layout, n, states, numbers)
  BY <1>1
<1>3. indices \in [Fields(schema) -> Nat]
  BY PwrIndices
<1>4. \A i \in 1 .. n : numbers[i] = i
  OBVIOUS
<1>5. /\ "sys_id" \in Fields(schema) /\ schema.column["sys_id"].transform = "required_int"
      /\ SoundTransform("required_int") /\ SoundSchema(schema)
  BY PwrSysId, PwrSound, TransformsAreSound
<1> HIDE DEF schema, indices, rows, numbers
<1>6. ASSUME NEW k \in 1 .. Len(rows) PROVE rows[k]["sys_id"].battery = pos[k]
  <2> DEFINE line == Line(layout, states, numbers, pos[k])
             tokens == line.tokens
             v == Read("required_int", tokens, indices["sys_id"])
  <2>1. pos[k] \in 1 .. n /\ rows[k] = Values(schema, indices, line) /\ Converted(rows[k])
    BY <1>2 DEF RowsFrom
  <2>2. rows[k]["sys_id"] = v /\ v # Bad
    BY <1>5, <2>1 DEF Values, Converted
  <2>3. PICK off : DataOffsets(off, layout)
    BY DataOffsetsExist
  <2>4. IsLine(tokens, layout, off, states[pos[k]], numbers[pos[k]], pos[k])
    BY <2>1, <2>3, LineIs DEF Line
  <2>5. indices["sys_id"] \in Nat
    BY <1>3, <1>5
  <2> HIDE DEF tokens, line
  <2>6. v.battery = numbers[pos[k]]
    BY <1>5, <2>2, <2>4, <2>5, RequiredInt, ReadAny
  <2> QED BY <1>4, <2>1, <2>2, <2>6
<1> QED BY <1>2, <1>6 DEF IsPwrTable, rows, indices, numbers, schema

LEMMA FetchPwrTypes ==
  ASSUME TypeInv, NEW states \in [1 .. Slots -> firmware.pwrStates], FetchPwr(states)
  PROVE  TypedBatteries(batteries')
<1> DEFINE rows == parse_table(PWR_TABLE_SCHEMA,
                     TextOf(firmware.pwr, TRUE, states, [i \in DOMAIN states |-> i]))
<1>1. batteries' = BuildBatteries(rows)
      /\ has_header(PWR_TABLE_SCHEMA, HeaderOf(firmware.pwr))
  BY DEF FetchPwr
<1>2. /\ firmware.pwr \in Seq(Column) /\ Slots \in Nat /\ DOMAIN states = 1 .. Slots
      /\ \A i \in 1 .. Slots : states[i].keep \in Nat
  BY FirmwareType DEF TypeInv, Controls
<1>3. PICK pos : /\ RowsFrom(rows, pos, PWR_TABLE_SCHEMA,
                             Indices(PWR_TABLE_SCHEMA, HeaderOf(firmware.pwr)),
                             firmware.pwr, Slots, states, [i \in DOMAIN states |-> i])
                 /\ \A k \in 1 .. Len(rows) : rows[k].sys_id.battery = pos[k]
  <2>1. IsPwrTable(rows, firmware.pwr, Slots, states)
    BY <1>1, <1>2, PwrRows
  <2> HIDE DEF rows
  <2> QED BY <2>1 DEF IsPwrTable
<1> HIDE DEF rows
<1>4. /\ Len(rows) \in Nat /\ Len(rows) <= Slots /\ DOMAIN rows = 1 .. Len(rows)
      /\ \A k \in 1 .. Len(rows) : rows[k].sys_id.battery \in 1 .. Slots
  BY <1>3 DEF RowsFrom
<1>5. \A s, v : s \in 1 .. Slots => TypedBattery(Battery(s, v))
  BY DEF TypedBattery, Battery, NoDetail, NoCells, Ages
<1>6. \A i \in 1 .. Len(rows) : TypedBattery(BuildBatteries(rows)[i])
  BY <1>4, <1>5 DEF BuildBatteries
<1>7. /\ Len(BuildBatteries(rows)) = Len(rows)
      /\ DOMAIN BuildBatteries(rows) = 1 .. Len(rows)
  BY <1>4 DEF BuildBatteries
<1> QED BY <1>1, <1>4, <1>6, <1>7 DEF TypedBatteries

LEMMA SlotsArePresent ==
  ASSUME NEW blocks, Slots \in Nat
  PROVE  /\ PresentSlots(blocks) \in Seq(1 .. Slots)
         /\ Len(PresentSlots(blocks)) <= Slots
<1> DEFINE items == [s \in 1 .. Slots |-> s]
           kept == {s \in 1 .. Slots : /\ \A t \in 1 .. s : blocks[t].known
                                       /\ parse_keyvalue(blocks[s]).battery}
<1>1. items \in Seq(1 .. Slots) /\ Len(items) = Slots
  OBVIOUS
<1>2. PresentSlots(blocks) = Selected(items, kept)
  BY DEF PresentSlots
<1> HIDE DEF items, kept
<1>3. PICK pos \in Seq(Nat) : /\ Len(pos) = Len(Selected(items, kept))
                              /\ Len(pos) <= Len(items)
                              /\ Selected(items, kept) \in Seq(1 .. Slots)
  BY <1>1, SelectedIs DEF Picks
<1> QED BY <1>1, <1>2, <1>3

LEMMA FetchIndexedTypes ==
  ASSUME TypeInv, NEW blocks, FetchIndexed(blocks)
  PROVE  TypedBatteries(batteries')
<1> DEFINE slots == PresentSlots(blocks)
           bs == [i \in DOMAIN slots |-> IndexedBattery(slots[i], blocks[slots[i]])]
<1>1. batteries' = bs
  BY DEF FetchIndexed
<1>2. slots \in Seq(1 .. Slots) /\ Len(slots) <= Slots /\ Slots \in Nat
  BY SlotsArePresent, FirmwareType DEF TypeInv, Controls
<1> HIDE DEF slots
<1>3. ASSUME NEW s \in 1 .. Slots, NEW block PROVE TypedBattery(IndexedBattery(s, block))
  BY DEF TypedBattery, IndexedBattery, Battery, NoDetail, NoCells, Ages
<1>4. DOMAIN slots = 1 .. Len(slots) /\ \A i \in 1 .. Len(slots) : slots[i] \in 1 .. Slots
  BY <1>2
<1>5. Len(bs) = Len(slots) /\ DOMAIN bs = 1 .. Len(slots) /\ Len(slots) \in Nat
  BY <1>2, <1>4
<1>6. \A i \in 1 .. Len(slots) : TypedBattery(bs[i])
  BY <1>3, <1>4
<1> HIDE DEF bs
<1> QED BY <1>1, <1>2, <1>5, <1>6 DEF TypedBatteries

\* A step that replaces batteries one by one.
LEMMA SameList ==
  ASSUME TypedBatteries(batteries), NEW bs, DOMAIN bs = DOMAIN batteries,
         bs = [i \in DOMAIN batteries |-> bs[i]],
         \A i \in DOMAIN batteries : TypedBattery(bs[i])
  PROVE  TypedBatteries(bs)
<1>1. DOMAIN bs = 1 .. Len(batteries) /\ Len(batteries) \in Nat
  BY DEF TypedBatteries
<1>2. Len(bs) = Len(batteries)
  BY <1>1
<1> QED BY <1>1, <1>2 DEF TypedBatteries

LEMMA StartPollTypes ==
  ASSUME TypeInv, StartPoll
  PROVE  TypedBatteries(batteries')
<1>1. batteries' = Aged(batteries)
  BY DEF StartPoll
<1>2. /\ DOMAIN batteries' = DOMAIN batteries
      /\ batteries' = [i \in DOMAIN batteries |-> batteries'[i]]
  BY <1>1 DEF Aged
<1>3. ASSUME NEW i \in DOMAIN batteries PROVE TypedBattery(batteries'[i])
  <2>1. TypedBattery(batteries[i]) /\ DOMAIN batteries[i] = BatteryFields
    BY DEF TypeInv, TypedBatteries, DataInv, Shape
  <2>2. batteries'[i] =
          [batteries[i] EXCEPT !.age = Older(@), !.values = <<>>,
             !.cells = [NoCells EXCEPT !.age = Older(batteries[i].cells.age)],
             !.detail = [k \in DetailKeys |-> Older(@[k])]]
    BY <1>1 DEF Aged
  <2> DEFINE b == batteries[i]
             c == batteries'[i]
  <2>3. /\ c.sys_id = b.sys_id /\ c.age = Older(b.age)
        /\ c.detail = [k \in DetailKeys |-> Older(b.detail[k])]
        /\ c.cells = [NoCells EXCEPT !.age = Older(b.cells.age)]
    BY <2>1, <2>2 DEF BatteryFields
  <2>4. c.cells.age = Older(b.cells.age)
    BY <2>3 DEF NoCells
  <2>5. c.age \in {"old", "now"}
    BY <2>1, <2>3 DEF TypedBattery, Older
  <2> HIDE DEF b, c
  <2>6. c.detail \in [DetailKeys -> Ages] /\ c.cells.age \in Ages
    BY <2>1, <2>3, <2>4, OlderType DEF TypedBattery, b
  <2> QED BY <2>1, <2>3, <2>5, <2>6 DEF TypedBattery, b, c
<1> QED BY <1>2, <1>3, SameList DEF TypeInv

LEMMA EnrichTypes ==
  ASSUME TypeInv, NEW blocks, NEW failing, Enrich(blocks, failing)
  PROVE  TypedBatteries(batteries')
<1>1. /\ DOMAIN batteries' = DOMAIN batteries
      /\ batteries' = [i \in DOMAIN batteries |-> batteries'[i]]
  BY DEF Enrich
<1>2. ASSUME NEW i \in DOMAIN batteries PROVE TypedBattery(batteries'[i])
  <2>1. TypedBattery(batteries[i]) /\ DOMAIN batteries[i] = BatteryFields
    BY DEF TypeInv, TypedBatteries, DataInv, Shape
  <2> DEFINE answer == parse_keyvalue(blocks[batteries[i].sys_id])
             detail == [k \in DetailKeys |-> IF k \in answer.fields THEN "now" ELSE "none"]
  <2>2. batteries'[i] = IF batteries[i].sys_id \in failing \/ ~answer.battery
                        THEN batteries[i]
                        ELSE [batteries[i] EXCEPT !.detail = detail]
    BY DEF Enrich
  <2>3. detail \in [DetailKeys -> Ages]
    BY DEF Ages
  <2> HIDE DEF answer, detail
  <2> QED BY <2>1, <2>2, <2>3 DEF TypedBattery, BatteryFields
<1> QED BY <1>1, <1>2, SameList DEF TypeInv

LEMMA FetchCellsTypes ==
  ASSUME TypeInv, NEW states, NEW header, NEW failing, FetchCells(states, header, failing)
  PROVE  TypedBatteries(batteries')
<1> DEFINE Rows(b) == parse_table(BAT_TABLE_SCHEMA,
                        TextOf(firmware.bat, header, states, [i \in DOMAIN states |-> b]))
           cells(i) == [rows |-> Rows(batteries[i].sys_id), from |-> states,
                        header |-> header, age |-> "now"]
<1>1. batteries' = [i \in DOMAIN batteries |->
                      IF batteries[i].sys_id \in failing THEN batteries[i]
                      ELSE [batteries[i] EXCEPT !.cells = cells(i)]]
  BY DEF FetchCells
<1>2. \A i : cells(i).age \in Ages
  BY DEF Ages
<1> HIDE DEF cells
<1>3. /\ DOMAIN batteries' = DOMAIN batteries
      /\ batteries' = [i \in DOMAIN batteries |-> batteries'[i]]
  BY <1>1
<1>4. ASSUME NEW i \in DOMAIN batteries PROVE TypedBattery(batteries'[i])
  <2>1. TypedBattery(batteries[i]) /\ DOMAIN batteries[i] = BatteryFields
    BY DEF TypeInv, TypedBatteries, DataInv, Shape
  <2> QED BY <1>1, <1>2, <2>1 DEF TypedBattery, BatteryFields
<1> QED BY <1>3, <1>4, SameList DEF TypeInv

LEMMA InitTypes == Init => TypeInv
<1> SUFFICES ASSUME Init PROVE TypeInv
  OBVIOUS
<1>1. Controls
  BY DEF Init, Controls, Pcs, Ages
<1>2. TypedBatteries(batteries)
  BY <1>1, FirmwareType DEF Init, TypedBatteries, Controls
<1> QED BY <1>1, <1>2, InitData DEF TypeInv

LEMMA NextKeepsControls == TypeInv /\ [Next]_vars => Controls'
<1> SUFFICES ASSUME TypeInv, [Next]_vars PROVE Controls'
  OBVIOUS
<1> USE DEF Controls
<1>0. Controls /\ DOMAIN totals = {"over", "age"}
  BY DEF TypeInv, DataInv, Shape
<1>1. CASE StartPoll
  <2>1. totals'.age = Older(totals.age)
    BY <1>0, <1>1 DEF StartPoll
  <2> QED BY <1>0, <1>1, <2>1, OlderType DEF StartPoll, Pcs
<1>2. CASE \E reported \in SUBSET InfoKeys : FetchInfo(reported)
  BY <1>0, <1>2 DEF FetchInfo, Pcs
<1>3. CASE \E states \in [1 .. Slots -> firmware.pwrStates] : FetchPwr(states)
  <2>1. PICK states : FetchPwr(states)
    BY <1>3
  <2>2. totals'.age \in Ages /\ pc' \in Pcs
    BY <2>1 DEF FetchPwr, _aggregate_pwr, AfterPwr, Ages, Pcs
  <2>3. UNCHANGED <<console, info_fetched, info, stat, bms_time>>
    BY <2>1 DEF FetchPwr
  <2> QED BY <1>0, <2>2, <2>3
<1>4. CASE FetchPwrUnusable
  BY <1>0, <1>4 DEF FetchPwrUnusable, system, Pcs
<1>5. CASE \E blocks \in [1 .. Slots -> Blocks] : FetchIndexed(blocks)
  <2>1. PICK blocks : FetchIndexed(blocks)
    BY <1>5
  <2>2. totals'.age \in Ages
    BY <2>1 DEF FetchIndexed, _aggregate_pwr, Ages
  <2>3. /\ pc' \in {"start", "stat"} /\ info_fetched' \in {info_fetched, FALSE}
        /\ UNCHANGED <<console, info, stat, bms_time>>
    BY <2>1 DEF FetchIndexed, Error
  <2> QED BY <1>0, <2>2, <2>3 DEF Pcs
<1>6. CASE \E blocks \in [1 .. Slots -> Blocks], failing \in SUBSET (1 .. Slots) :
             Enrich(blocks, failing)
  BY <1>0, <1>6 DEF Enrich, Pcs
<1>7. CASE FetchStat
  BY <1>0, <1>7 DEF FetchStat, system, Pcs
<1>8. CASE \E states \in [1 .. Cells -> firmware.batStates], header \in BOOLEAN,
              failing \in SUBSET (1 .. Slots) : FetchCells(states, header, failing)
  BY <1>0, <1>8 DEF FetchCells, Pcs
<1>9. CASE \E counters, stamp \in BOOLEAN : ParseStat(counters, stamp)
  BY <1>0, <1>9 DEF ParseStat, StatRead, TimeRead, Ages, Pcs
<1>10. CASE Publish
  BY <1>0, <1>10 DEF Publish, system, Pcs
<1>11. CASE Fail
  BY <1>0, <1>11 DEF Fail, Error, Pcs
<1>12. CASE UNCHANGED vars
  BY <1>0, <1>12 DEF vars, system
<1> QED
  BY <1>1, <1>2, <1>3, <1>4, <1>5, <1>6, <1>7, <1>8, <1>9, <1>10, <1>11, <1>12 DEF Next

LEMMA NextKeepsTypes == TypeInv /\ [Next]_vars => TypeInv'
<1> SUFFICES ASSUME TypeInv, [Next]_vars PROVE TypeInv'
  OBVIOUS
<1> SUFFICES TypedBatteries(batteries')
  BY NextKeepsData, NextKeepsControls DEF TypeInv, TypedBatteries, TypedBattery
<1>s. UNCHANGED batteries => TypedBatteries(batteries')
  BY DEF TypeInv, TypedBatteries, TypedBattery
<1>1. CASE StartPoll
  BY <1>1, StartPollTypes
<1>2. CASE \E reported \in SUBSET InfoKeys : FetchInfo(reported)
  BY <1>2, <1>s DEF FetchInfo
<1>3. CASE \E states \in [1 .. Slots -> firmware.pwrStates] : FetchPwr(states)
  BY <1>3, FetchPwrTypes
<1>4. CASE FetchPwrUnusable
  BY <1>4, <1>s DEF FetchPwrUnusable, system
<1>5. CASE \E blocks \in [1 .. Slots -> Blocks] : FetchIndexed(blocks)
  BY <1>5, FetchIndexedTypes
<1>6. CASE \E blocks \in [1 .. Slots -> Blocks], failing \in SUBSET (1 .. Slots) :
             Enrich(blocks, failing)
  BY <1>6, EnrichTypes
<1>7. CASE FetchStat
  BY <1>7, <1>s DEF FetchStat, system
<1>8. CASE \E states \in [1 .. Cells -> firmware.batStates], header \in BOOLEAN,
              failing \in SUBSET (1 .. Slots) : FetchCells(states, header, failing)
  BY <1>8, FetchCellsTypes
<1>9. CASE \E counters, stamp \in BOOLEAN : ParseStat(counters, stamp)
  BY <1>9, <1>s DEF ParseStat
<1>10. CASE Publish
  BY <1>10, <1>s DEF Publish, system
<1>11. CASE Fail
  BY <1>11, <1>s DEF Fail
<1>12. CASE UNCHANGED vars
  BY <1>12, <1>s DEF vars, system
<1> QED
  BY <1>1, <1>2, <1>3, <1>4, <1>5, <1>6, <1>7, <1>8, <1>9, <1>10, <1>11, <1>12 DEF Next

LEMMA TypesAreKept == Spec => []TypeInv
  BY InitTypes, NextKeepsTypes, PTL DEF Spec

(***************************************************************************)
(* The parser gives every battery a number of the stack, never more of     *)
(* them than it has slots, whatever the lines say and in either way of     *)
(* listing them (parse_table, _fetch_batteries_indexed).                   *)
(***************************************************************************)
THEOREM TypeCorrect == Spec => []TypeOK
<1>1. TypeInv => TypeOK
  <2> SUFFICES ASSUME TypeInv PROVE TypeOK
    OBVIOUS
  <2>1. /\ Len(batteries) \in Nat /\ Len(batteries) <= Slots
        /\ DOMAIN batteries = 1 .. Len(batteries)
        /\ \A i \in DOMAIN batteries : TypedBattery(batteries[i])
    BY DEF TypeInv, TypedBatteries
  <2>2. totals.over \in Seq(1 .. Slots)
    <3>1. totals.over = [i \in 1 .. Len(batteries) |-> batteries[i].sys_id]
      BY <2>1 DEF TypeInv, DataInv, TotalsMatchBatteries, SysIds
    <3>2. \A i \in 1 .. Len(batteries) : batteries[i].sys_id \in 1 .. Slots
      BY <2>1 DEF TypedBattery
    <3> DEFINE n == Len(batteries)
    <3>3. totals.over \in [1 .. n -> 1 .. Slots] /\ n \in Nat
      BY <2>1, <3>1, <3>2
    <3> HIDE DEF n
    <3> DEFINE S == 1 .. Slots
    <3>4. \A m \in Nat : \A s \in [1 .. m -> S] : s \in Seq(S)
      <4> HIDE DEF S
      <4> QED OBVIOUS
    <3> QED BY <3>3, <3>4
  <2>3. Controls
    BY DEF TypeInv
  <2> QED BY <2>1, <2>2, <2>3 DEF TypeOK, Controls, Pcs, TypedBattery
<1> QED BY <1>1, TypesAreKept, PTL

-----------------------------------------------------------------------------
(***************************************************************************)
(* Every field of a row is its own column's, of the battery asked for.     *)
(***************************************************************************)
OwnRow(row, schema, layout, battery, line) ==
  \A f \in Fields(schema) :
    Labels(schema, f) \in Printed(layout)
      => \/ row[f] = None
         \/ /\ row[f].of = Labels(schema, f) /\ row[f].nth = 1
            /\ row[f].battery = battery /\ row[f].line = line

LEMMA RowsAreOwn ==
  ASSUME NEW schema \in Schemas, NEW layout \in Seq(Column), PlainLayout(schema, layout),
         has_header(schema, HeaderOf(layout)),
         NEW n \in Nat, NEW states, \A i \in 1 .. n : states[i].keep \in Nat, NEW numbers,
         NEW rows, NEW pos,
         RowsFrom(rows, pos, schema, Indices(schema, HeaderOf(layout)), layout, n, states,
                  numbers),
         NEW k \in 1 .. Len(rows)
  PROVE  OwnRow(rows[k], schema, layout, numbers[pos[k]], pos[k])
<1> DEFINE indices == Indices(schema, HeaderOf(layout))
           line == Line(layout, states, numbers, pos[k])
           tokens == line.tokens
<1>1. PICK off : DataOffsets(off, layout)
  BY DataOffsetsExist
<1>2. RightlyIndexed(schema, layout, off, indices)
  BY <1>1, IndicesAre
<1> HIDE DEF indices
<1>3. pos[k] \in 1 .. n /\ rows[k] = Values(schema, indices, line) /\ Converted(rows[k])
  BY DEF RowsFrom, indices
<1>4. IsLine(tokens, layout, off, states[pos[k]], numbers[pos[k]], pos[k])
  BY <1>1, <1>3, LineIs DEF Line
<1> HIDE DEF line, tokens
<1>5. \A f \in Fields(schema) : /\ rows[k][f] # Bad
                                /\ rows[k][f] = Read(schema.column[f].transform, tokens, indices[f])
  BY <1>3 DEF Values, Converted, tokens
<1>6. ASSUME NEW f \in Fields(schema), Labels(schema, f) \in Printed(layout)
      PROVE  \/ rows[k][f] = None
             \/ /\ rows[k][f].of = Labels(schema, f) /\ rows[k][f].nth = 1
                /\ rows[k][f].battery = numbers[pos[k]] /\ rows[k][f].line = pos[k]
  BY <1>1, <1>2, <1>4, <1>5, <1>6, OwnValue
<1> QED BY <1>6 DEF OwnRow

OwnBattery(c, b) ==
  /\ b.values # <<>> =>
       \A f \in Fields(PWR_TABLE_SCHEMA) :
         Labels(PWR_TABLE_SCHEMA, f) \in Shown(c.pwr)
           => Own(b.values, PWR_TABLE_SCHEMA, f, b.sys_id)
  /\ b.cells.header =>
       \A k \in DOMAIN b.cells.rows, f \in Fields(BAT_TABLE_SCHEMA) :
         Labels(BAT_TABLE_SCHEMA, f) \in Printed(c.bat)
           => Own(b.cells.rows[k], BAT_TABLE_SCHEMA, f, b.sys_id)

LEMMA ColumnsByBattery ==
  ColumnsAreOwn <=> \A i \in DOMAIN batteries : OwnBattery(firmware, batteries[i])
  BY DEF ColumnsAreOwn, OwnBattery

LEMMA PlainFirmware ==
  ASSUME PlainConsoles, console \in DOMAIN Consoles
  PROVE  /\ PlainLayout(PWR_TABLE_SCHEMA, firmware.pwr)
         /\ PlainLayout(BAT_TABLE_SCHEMA, firmware.bat)
         /\ has_header(BAT_TABLE_SCHEMA, HeaderOf(firmware.bat))
  BY DEF PlainConsoles, firmware

LEMMA FetchPwrOwn ==
  ASSUME PlainConsoles, TypeInv, NEW states \in [1 .. Slots -> firmware.pwrStates],
         FetchPwr(states)
  PROVE  \A i \in DOMAIN batteries' : OwnBattery(firmware, batteries'[i])
<1> DEFINE schema == PWR_TABLE_SCHEMA
           layout == firmware.pwr
           numbers == [i \in DOMAIN states |-> i]
           rows == parse_table(schema, TextOf(layout, TRUE, states, numbers))
<1>1. batteries' = BuildBatteries(rows) /\ has_header(schema, HeaderOf(layout))
  BY DEF FetchPwr
<1>2. /\ layout \in Seq(Column) /\ Slots \in Nat /\ DOMAIN states = 1 .. Slots
      /\ \A i \in 1 .. Slots : states[i].keep \in Nat
      /\ PlainLayout(schema, layout)
  BY FirmwareType, PlainFirmware DEF TypeInv, Controls
<1>3. IsPwrTable(rows, layout, Slots, states)
  BY <1>1, <1>2, PwrRows
<1> HIDE DEF rows
<1>4. PICK pos : /\ RowsFrom(rows, pos, schema, Indices(schema, HeaderOf(layout)), layout,
                             Slots, states, numbers)
                 /\ \A k \in 1 .. Len(rows) : rows[k].sys_id.battery = pos[k]
  BY <1>3 DEF IsPwrTable
<1>5. schema \in Schemas /\ \A i \in 1 .. Slots : numbers[i] = i
  BY <1>2 DEF Schemas
<1> HIDE DEF schema, layout, numbers
<1>6. DOMAIN rows = 1 .. Len(rows) /\ \A k \in 1 .. Len(rows) : pos[k] \in 1 .. Slots
  BY <1>4 DEF RowsFrom
<1>7. ASSUME NEW k \in 1 .. Len(rows)
      PROVE  OwnBattery(firmware, Battery(rows[k].sys_id.battery, rows[k]))
  <2>1. OwnRow(rows[k], schema, layout, numbers[pos[k]], pos[k])
    BY <1>1, <1>2, <1>4, <1>5, RowsAreOwn
  <2>2. numbers[pos[k]] = rows[k].sys_id.battery
    BY <1>4, <1>5, <1>6
  <2> DEFINE row == rows[k]
             id == rows[k].sys_id.battery
  <2>3. OwnRow(row, schema, layout, id, pos[k])
    BY <2>1, <2>2
  <2> HIDE DEF row, id
  <2>4. Shown(firmware.pwr) \subseteq Printed(firmware.pwr)
    BY DEF Shown, Printed
  <2>5. /\ Battery(id, row).values = row /\ Battery(id, row).sys_id = id
        /\ Battery(id, row).cells.header = FALSE
    BY DEF Battery, NoCells
  <2>6. OwnBattery(firmware, Battery(id, row))
    BY <2>3, <2>4, <2>5 DEF OwnBattery, OwnRow, Own, layout, schema
  <2> QED BY <2>6 DEF row, id
<1> QED BY <1>1, <1>6, <1>7 DEF BuildBatteries

LEMMA FetchIndexedOwn ==
  ASSUME NEW blocks, FetchIndexed(blocks)
  PROVE  \A i \in DOMAIN batteries' : OwnBattery(firmware, batteries'[i])
<1> DEFINE slots == PresentSlots(blocks)
<1>1. batteries' = [i \in DOMAIN slots |-> IndexedBattery(slots[i], blocks[slots[i]])]
  BY DEF FetchIndexed
<1> HIDE DEF slots
<1>2. \A s, block : /\ IndexedBattery(s, block).values = <<>>
                    /\ IndexedBattery(s, block).cells.header = FALSE
  BY DEF IndexedBattery, Battery, NoCells
<1> QED BY <1>1, <1>2 DEF OwnBattery

LEMMA StartPollOwn ==
  ASSUME TypeInv, StartPoll
  PROVE  \A i \in DOMAIN batteries' : OwnBattery(firmware, batteries'[i])
<1>1. batteries' = Aged(batteries)
  BY DEF StartPoll
<1>2. ASSUME NEW i \in DOMAIN batteries'
      PROVE  batteries'[i].values = <<>> /\ batteries'[i].cells.header = FALSE
  <2>1. i \in DOMAIN batteries /\ DOMAIN batteries[i] = BatteryFields
    BY <1>1 DEF Aged, TypeInv, DataInv, Shape
  <2>2. batteries'[i] =
          [batteries[i] EXCEPT !.age = Older(@), !.values = <<>>,
             !.cells = [NoCells EXCEPT !.age = Older(batteries[i].cells.age)],
             !.detail = [k \in DetailKeys |-> Older(@[k])]]
    BY <1>1, <2>1 DEF Aged
  <2>3. /\ batteries'[i].values = <<>>
        /\ batteries'[i].cells = [NoCells EXCEPT !.age = Older(batteries[i].cells.age)]
    BY <2>1, <2>2 DEF BatteryFields
  <2> QED BY <2>3 DEF NoCells
<1> QED BY <1>2 DEF OwnBattery

LEMMA EnrichOwn ==
  ASSUME TypeInv, ColumnsAreOwn, NEW blocks, NEW failing, Enrich(blocks, failing)
  PROVE  \A i \in DOMAIN batteries' : OwnBattery(firmware, batteries'[i])
<1>1. ASSUME NEW i \in DOMAIN batteries'
      PROVE  /\ i \in DOMAIN batteries
             /\ batteries'[i].values = batteries[i].values
             /\ batteries'[i].cells = batteries[i].cells
             /\ batteries'[i].sys_id = batteries[i].sys_id
  <2>1. i \in DOMAIN batteries /\ DOMAIN batteries[i] = BatteryFields
    BY DEF Enrich, TypeInv, DataInv, Shape
  <2> DEFINE answer == parse_keyvalue(blocks[batteries[i].sys_id])
             detail == [k \in DetailKeys |-> IF k \in answer.fields THEN "now" ELSE "none"]
  <2>2. batteries'[i] = IF batteries[i].sys_id \in failing \/ ~answer.battery
                        THEN batteries[i]
                        ELSE [batteries[i] EXCEPT !.detail = detail]
    BY <2>1 DEF Enrich
  <2> HIDE DEF answer, detail
  <2> QED BY <2>1, <2>2 DEF BatteryFields
<1>2. \A i \in DOMAIN batteries : OwnBattery(firmware, batteries[i])
  BY ColumnsByBattery
<1> QED BY <1>1, <1>2 DEF OwnBattery

\* The rows 'bat N' yields, and the cells of the battery they make.
BatRows(states, header, b) ==
  parse_table(BAT_TABLE_SCHEMA,
              TextOf(firmware.bat, header, states, [i \in DOMAIN states |-> b]))

LEMMA FetchedCells ==
  ASSUME DataInv, NEW states, NEW header, NEW failing, FetchCells(states, header, failing),
         NEW i \in DOMAIN batteries'
  PROVE  /\ i \in DOMAIN batteries
         /\ batteries'[i].values = batteries[i].values
         /\ batteries'[i].sys_id = batteries[i].sys_id
         /\ \/ batteries'[i].cells = batteries[i].cells
            \/ /\ batteries'[i].cells.rows = BatRows(states, header, batteries[i].sys_id)
               /\ batteries'[i].cells.from = states
               /\ batteries'[i].cells.header = header
<1> DEFINE cells(j) == [rows |-> BatRows(states, header, batteries[j].sys_id),
                        from |-> states, header |-> header, age |-> "now"]
<1>1. batteries' = [j \in DOMAIN batteries |->
                      IF batteries[j].sys_id \in failing THEN batteries[j]
                      ELSE [batteries[j] EXCEPT !.cells = cells(j)]]
  BY DEF FetchCells, BatRows
<1>2. /\ cells(i).rows = BatRows(states, header, batteries[i].sys_id)
      /\ cells(i).from = states /\ cells(i).header = header
  OBVIOUS
<1> HIDE DEF cells
<1>3. i \in DOMAIN batteries /\ DOMAIN batteries[i] = BatteryFields
  BY <1>1 DEF DataInv, Shape
<1>4. \/ batteries'[i] = batteries[i]
      \/ batteries'[i] = [batteries[i] EXCEPT !.cells = cells(i)]
  BY <1>1, <1>3
<1> QED BY <1>2, <1>3, <1>4 DEF BatteryFields

\* A table of cells with a header, read for battery b.
IsBatTable(rows, layout, n, states, b) ==
  \E pos : RowsFrom(rows, pos, BAT_TABLE_SCHEMA,
                    Indices(BAT_TABLE_SCHEMA, HeaderOf(layout)), layout,
                    n, states, [i \in DOMAIN states |-> b])

LEMMA BatRowsAre ==
  ASSUME NEW n \in Nat, NEW states, DOMAIN states = 1 .. n, NEW b
  PROVE  IsBatTable(BatRows(states, TRUE, b), firmware.bat, n, states, b)
<1> DEFINE schema == BAT_TABLE_SCHEMA
           layout == firmware.bat
           numbers == [i \in DOMAIN states |-> b]
           rows == parse_table(schema, TextOf(layout, TRUE, states, numbers))
<1>1. PICK pos : RowsFrom(rows, pos, schema,
                          Indices(schema, IF TRUE THEN HeaderOf(layout) ELSE <<>>),
                          layout, n, states, numbers)
  <2> HIDE DEF schema, layout, numbers, rows
  <2> QED BY RowsAre DEF rows
<1> HIDE DEF rows
<1>2. RowsFrom(rows, pos, schema, Indices(schema, HeaderOf(layout)), layout, n, states, numbers)
  BY <1>1
<1> QED BY <1>2 DEF IsBatTable, BatRows, rows

LEMMA FetchCellsOwn ==
  ASSUME PlainConsoles, TypeInv, ColumnsAreOwn,
         NEW states \in [1 .. Cells -> firmware.batStates], NEW header \in BOOLEAN,
         NEW failing, FetchCells(states, header, failing)
  PROVE  \A i \in DOMAIN batteries' : OwnBattery(firmware, batteries'[i])
<1> SUFFICES ASSUME NEW i \in DOMAIN batteries' PROVE OwnBattery(firmware, batteries'[i])
  OBVIOUS
<1>1. /\ i \in DOMAIN batteries
      /\ batteries'[i].values = batteries[i].values
      /\ batteries'[i].sys_id = batteries[i].sys_id
      /\ \/ batteries'[i].cells = batteries[i].cells
         \/ /\ batteries'[i].cells.rows = BatRows(states, header, batteries[i].sys_id)
            /\ batteries'[i].cells.header = header
  BY FetchedCells DEF TypeInv
<1>2. OwnBattery(firmware, batteries[i])
  BY <1>1, ColumnsByBattery
<1>3. CASE batteries'[i].cells = batteries[i].cells
  BY <1>1, <1>2, <1>3 DEF OwnBattery
<1>4. CASE /\ batteries'[i].cells.rows = BatRows(states, header, batteries[i].sys_id)
           /\ batteries'[i].cells.header = header
  <2>1. CASE header = FALSE
    BY <1>1, <1>2, <1>4, <2>1 DEF OwnBattery
  <2>2. CASE header = TRUE
    <3> DEFINE b == batteries[i].sys_id
               rows == BatRows(states, TRUE, b)
               schema == BAT_TABLE_SCHEMA
               layout == firmware.bat
               numbers == [j \in DOMAIN states |-> b]
    <3>1. /\ layout \in Seq(Column) /\ Cells \in Nat /\ DOMAIN states = 1 .. Cells
          /\ \A j \in 1 .. Cells : states[j].keep \in Nat
          /\ PlainLayout(schema, layout) /\ has_header(schema, HeaderOf(layout))
          /\ schema \in Schemas /\ \A j \in 1 .. Cells : numbers[j] = b
      BY FirmwareType, PlainFirmware DEF TypeInv, Controls, Schemas
    <3>2. IsBatTable(rows, layout, Cells, states, b)
      BY <3>1, BatRowsAre
    <3> HIDE DEF b, rows, schema, layout
    <3>3. PICK pos : RowsFrom(rows, pos, schema, Indices(schema, HeaderOf(layout)), layout,
                              Cells, states, numbers)
      BY <3>2 DEF IsBatTable, schema
    <3> HIDE DEF numbers
    <3>4. DOMAIN rows = 1 .. Len(rows) /\ \A k \in 1 .. Len(rows) : pos[k] \in 1 .. Cells
      BY <3>3 DEF RowsFrom
    <3>5. \A k \in 1 .. Len(rows) : OwnRow(rows[k], schema, layout, b, pos[k])
      <4> SUFFICES ASSUME NEW k \in 1 .. Len(rows)
                   PROVE  OwnRow(rows[k], schema, layout, b, pos[k])
        OBVIOUS
      <4>1. OwnRow(rows[k], schema, layout, numbers[pos[k]], pos[k])
        BY <3>1, <3>3, RowsAreOwn
      <4>2. numbers[pos[k]] = b
        BY <3>1, <3>4
      <4> QED BY <4>1, <4>2
    <3>6. \A k \in DOMAIN rows, f \in Fields(BAT_TABLE_SCHEMA) :
            Labels(BAT_TABLE_SCHEMA, f) \in Printed(firmware.bat)
              => Own(rows[k], BAT_TABLE_SCHEMA, f, b)
      BY <3>4, <3>5 DEF OwnRow, Own, schema, layout
    <3>7. batteries'[i].cells.rows = rows /\ batteries'[i].sys_id = b
      BY <1>1, <1>4, <2>2 DEF rows, b
    <3>8. batteries'[i].values # <<>> =>
            \A f \in Fields(PWR_TABLE_SCHEMA) :
              Labels(PWR_TABLE_SCHEMA, f) \in Shown(firmware.pwr)
                => Own(batteries'[i].values, PWR_TABLE_SCHEMA, f, batteries'[i].sys_id)
      BY <1>1, <1>2 DEF OwnBattery
    <3> QED BY <3>6, <3>7, <3>8 DEF OwnBattery
  <2> QED BY <2>1, <2>2
<1> QED BY <1>1, <1>3, <1>4

LEMMA NextKeepsColumns ==
  PlainConsoles /\ TypeInv /\ ColumnsAreOwn /\ [Next]_vars => ColumnsAreOwn'
<1> SUFFICES ASSUME PlainConsoles, TypeInv, ColumnsAreOwn, [Next]_vars PROVE ColumnsAreOwn'
  OBVIOUS
<1>1. console' = console
  BY DEF Next, vars, StartPoll, FetchInfo, FetchPwr, FetchPwrUnusable, FetchIndexed, Error,
         Enrich, FetchStat, FetchCells, ParseStat, Publish, Fail
<1> SUFFICES \A i \in DOMAIN batteries' : OwnBattery(firmware, batteries'[i])
  BY <1>1 DEF ColumnsAreOwn, OwnBattery, Own, firmware
<1>s. UNCHANGED batteries => \A i \in DOMAIN batteries' : OwnBattery(firmware, batteries'[i])
  BY ColumnsByBattery
<1>2. CASE StartPoll
  BY <1>2, StartPollOwn
<1>3. CASE \E states \in [1 .. Slots -> firmware.pwrStates] : FetchPwr(states)
  BY <1>3, FetchPwrOwn
<1>4. CASE \E blocks \in [1 .. Slots -> Blocks] : FetchIndexed(blocks)
  BY <1>4, FetchIndexedOwn
<1>5. CASE \E blocks \in [1 .. Slots -> Blocks], failing \in SUBSET (1 .. Slots) :
             Enrich(blocks, failing)
  BY <1>5, EnrichOwn
<1>6. CASE \E states \in [1 .. Cells -> firmware.batStates], header \in BOOLEAN,
              failing \in SUBSET (1 .. Slots) : FetchCells(states, header, failing)
  BY <1>6, FetchCellsOwn
<1>7. CASE \/ \E reported \in SUBSET InfoKeys : FetchInfo(reported)
           \/ FetchPwrUnusable \/ FetchStat \/ Publish \/ Fail
           \/ \E counters, stamp \in BOOLEAN : ParseStat(counters, stamp)
           \/ UNCHANGED vars
  <2>1. UNCHANGED batteries
    BY <1>7 DEF FetchInfo, FetchPwrUnusable, FetchStat, Publish, Fail, ParseStat, system, vars
  <2> QED BY <1>s, <2>1
<1> QED BY <1>2, <1>3, <1>4, <1>5, <1>6, <1>7 DEF Next

(***************************************************************************)
(* On every console whose layouts are plain, each field the console has a  *)
(* column for holds what that column says of that battery, or nothing      *)
(* (_resolve_indices, _bat_header_postprocess).                            *)
(***************************************************************************)
THEOREM ColumnsStayOwn == PlainConsoles => (Spec => []ColumnsAreOwn)
<1> SUFFICES ASSUME PlainConsoles PROVE Spec => []ColumnsAreOwn
  OBVIOUS
<1>1. Init => ColumnsAreOwn
  BY DEF Init, ColumnsAreOwn
<1>2. TypeInv /\ ColumnsAreOwn /\ [Next]_vars => ColumnsAreOwn'
  BY NextKeepsColumns
<1> QED BY <1>1, <1>2, TypesAreKept, PTL DEF Spec

-----------------------------------------------------------------------------
(***************************************************************************)
(* When a transform takes what a column holds.  A token that is there is   *)
(* of the column's own kind, a dash or a word.                             *)
(***************************************************************************)
Takes(t, present, kind) ==
  IF present THEN kind \in Transforms[t].takes \cup Transforms[t].none
  ELSE "missing" \in Transforms[t].none

Wants(req, num, lim, present, kind) ==
  /\ req => present
  /\ present /\ num => kind \notin {"word", "dash"}
  /\ present /\ lim => kind # "word"

\* A transform refuses exactly what a reader misses or cannot read as a number.
Rule(t, req, num, lim) ==
  \A own \in Transforms[t].takes : \A kind \in {"dash", "word", own} :
    \A present \in BOOLEAN : Takes(t, present, kind) <=> Wants(req, num, lim, present, kind)

LEMMA Rules ==
  /\ \A t \in {"required_int", "required_milli", "required_percent_int"} :
       Rule(t, TRUE, TRUE, FALSE)
  /\ Rule("required_str", TRUE, FALSE, FALSE)
  /\ Rule("optional_milli", FALSE, FALSE, TRUE)
  /\ \A t \in {"optional_status", "optional_str_by_bounds"} : Rule(t, FALSE, FALSE, FALSE)
  /\ \A t \in {"optional_int_by_bounds", "percent_int_or_zero"} : Rule(t, FALSE, TRUE, FALSE)
<1> USE DEF Rule, Takes, Wants, Transforms, Kinds
<1>1. \A t \in {"required_int", "required_milli", "required_percent_int"} :
        Rule(t, TRUE, TRUE, FALSE)
  OBVIOUS
<1>2. Rule("required_str", TRUE, FALSE, FALSE)
  OBVIOUS
<1>3. Rule("optional_milli", FALSE, FALSE, TRUE)
  OBVIOUS
<1>4. \A t \in {"optional_status", "optional_str_by_bounds"} : Rule(t, FALSE, FALSE, FALSE)
  OBVIOUS
<1>5. \A t \in {"optional_int_by_bounds", "percent_int_or_zero"} : Rule(t, FALSE, TRUE, FALSE)
  OBVIOUS
<1> QED BY <1>1, <1>2, <1>3, <1>4, <1>5

\* The same of a column of a schema, and of the columns a reader needs.
ColumnRule(c, required, numbers, limits) ==
  Rule(c.transform, c.labels \in required, c.labels \in numbers, c.labels \in limits)

LEMMA PwrRules ==
  \A i \in (1 .. 16) \ {14} :
    ColumnRule(PWR_COLUMNS[i], PwrNumbers \cup {<<"Base.St">>}, PwrNumbers, PwrLimits)
<1> DEFINE required == PwrNumbers \cup {<<"Base.St">>}
<1>1. \A w \in {"Power", "Volt", "Curr", "Tempr", "Coulomb"} :
        <<w>> \in required /\ <<w>> \in PwrNumbers /\ <<w>> \notin PwrLimits
  BY DEF PwrNumbers, PwrLimits
<1>2. <<"Base.St">> \in required /\ <<"Base.St">> \notin PwrNumbers /\ <<"Base.St">> \notin PwrLimits
  BY DEF PwrNumbers, PwrLimits
<1>3. \A w \in {"Tlow", "Thigh", "Vlow", "Vhigh"} :
        <<w>> \notin required /\ <<w>> \notin PwrNumbers /\ <<w>> \in PwrLimits
  BY DEF PwrNumbers, PwrLimits
<1>4. \A w \in {"Volt.St", "Curr.St", "Temp.St", "B.V.St", "B.T.St"} :
        <<w>> \notin required /\ <<w>> \notin PwrNumbers /\ <<w>> \notin PwrLimits
  BY DEF PwrNumbers, PwrLimits
<1> HIDE DEF required
<1> DEFINE Ruled(c) == ColumnRule(c, required, PwrNumbers, PwrLimits)
<1>5. \A w \in {"Power", "Volt", "Curr", "Tempr", "Coulomb"} :
        \A t \in {"required_int", "required_milli", "required_percent_int"} :
          \A f, d : Ruled(ColumnSpec(<<w>>, f, d, t))
  BY <1>1, Rules DEF ColumnRule, ColumnSpec, Rule, Wants
<1>6. \A f, d : Ruled(ColumnSpec(<<"Base.St">>, f, d, "required_str"))
  BY <1>2, Rules DEF ColumnRule, ColumnSpec, Rule, Wants
<1>7. \A w \in {"Tlow", "Thigh", "Vlow", "Vhigh"} :
        \A f, d : Ruled(ColumnSpec(<<w>>, f, d, "optional_milli"))
  BY <1>3, Rules DEF ColumnRule, ColumnSpec, Rule, Wants
<1>8. \A w \in {"Volt.St", "Curr.St", "Temp.St", "B.V.St", "B.T.St"} :
        \A f, d : Ruled(ColumnSpec(<<w>>, f, d, "optional_status"))
  BY <1>4, Rules DEF ColumnRule, ColumnSpec, Rule, Wants
<1> HIDE DEF Ruled
<1>9. \A i \in (1 .. 16) \ {14} : Ruled(PWR_COLUMNS[i])
  BY <1>5, <1>6, <1>7, <1>8, PwrAt
<1> QED BY <1>9 DEF Ruled, required

\* The SOC of a cell may be missing: what asks for it is the length of the row.
BatRequired == (BatNumbers \cup {<<"Base", "State">>}) \ {<<"SOC">>}

LEMMA BatRules ==
  \A i \in 1 .. 10 :
    ColumnRule(BAT_COLUMNS[i], BatRequired, BatNumbers \cup {<<"Coulomb">>}, {})
<1> DEFINE numbers == BatNumbers \cup {<<"Coulomb">>}
<1>1. \A w \in {"Battery", "Volt", "Curr", "Tempr"} : <<w>> \in BatRequired /\ <<w>> \in numbers
  BY DEF BatNumbers, BatRequired
<1>2. <<"Base", "State">> \in BatRequired /\ <<"Base", "State">> \notin numbers
  BY DEF BatNumbers, BatRequired
<1>3. \A w \in {"Volt.", "Curr.", "Temp."} :
        <<w, "State">> \notin BatRequired /\ <<w, "State">> \notin numbers
  BY DEF BatNumbers, BatRequired
<1>4. \A w \in {"SOC", "Coulomb"} : <<w>> \notin BatRequired /\ <<w>> \in numbers
  BY DEF BatNumbers, BatRequired
<1> HIDE DEF numbers
<1> DEFINE Ruled(c) == ColumnRule(c, BatRequired, numbers, {})
<1>5. \A w \in {"Battery", "Volt", "Curr", "Tempr"} :
        \A t \in {"required_int", "required_milli"} :
          \A f, d : Ruled(ColumnSpec(<<w>>, f, d, t))
  BY <1>1, Rules DEF ColumnRule, ColumnSpec, Rule, Wants
<1>6. \A f, d : Ruled(ColumnSpec(<<"Base", "State">>, f, d, "required_str"))
  BY <1>2, Rules DEF ColumnRule, ColumnSpec, Rule, Wants
<1>7. \A w \in {"Volt.", "Curr.", "Temp."} :
        \A f, d : Ruled(ColumnSpec(<<w, "State">>, f, d, "optional_str_by_bounds"))
  BY <1>3, Rules DEF ColumnRule, ColumnSpec, Rule, Wants
<1>8. \A w \in {"SOC", "Coulomb"} :
        \A t \in {"percent_int_or_zero", "optional_int_by_bounds"} :
          \A f, d : Ruled(ColumnSpec(<<w>>, f, d, t))
  BY <1>4, Rules DEF ColumnRule, ColumnSpec, Rule, Wants
<1> HIDE DEF Ruled
<1>9. \A i \in 1 .. 10 : Ruled(BAT_COLUMNS[i])
  BY <1>5, <1>6, <1>7, <1>8, BatAt
<1> QED BY <1>9 DEF Ruled, numbers

(***************************************************************************)
(* A line field by field: what a reader wants and what the code converts.  *)
(***************************************************************************)
Present(layout, off, state, j) ==
  off[j - 1] < IF state.keep < off[Len(layout)] THEN state.keep ELSE off[Len(layout)]

AllWanted(schema, layout, off, state, required, numbers, limits) ==
  \A f \in Fields(schema), j \in 1 .. Len(layout) :
    Labels(schema, f) = layout[j].labels =>
      Wants(Labels(schema, f) \in required, Labels(schema, f) \in numbers,
            Labels(schema, f) \in limits, Present(layout, off, state, j),
            KindIn(layout[j], state))

AllTaken(schema, layout, off, state) ==
  \A f \in Fields(schema), j \in 1 .. Len(layout) :
    Labels(schema, f) = layout[j].labels =>
      Takes(schema.column[f].transform, Present(layout, off, state, j),
            KindIn(layout[j], state))

SchemaLabels(schema) == {Labels(schema, f) : f \in Fields(schema)}

LEMMA PresentIs ==
  ASSUME NEW layout, NEW off, NEW state, NEW battery, NEW line, NEW tokens,
         IsLine(tokens, layout, off, state, battery, line), NEW j
  PROVE  Present(layout, off, state, j) <=> off[j - 1] < Len(tokens)
  BY DEF Present, IsLine

LEMMA ReadableByField ==
  ASSUME NEW schema \in Schemas, NEW layout \in Seq(Column), PlainLayout(schema, layout),
         Complete(schema, layout), NEW off, DataOffsets(off, layout),
         NEW state, NEW battery, NEW number, NEW line,
         IsLine(line.tokens, layout, off, state, battery, number),
         NEW required \in SUBSET SchemaLabels(schema),
         NEW numbers \in SUBSET SchemaLabels(schema),
         NEW limits \in SUBSET SchemaLabels(schema)
  PROVE  Readable(line, required, numbers, limits)
           <=> AllWanted(schema, layout, off, state, required, numbers, limits)
<1> DEFINE tokens == line.tokens
           n == Len(layout)
           First(c) == Token(c, state, battery, number, 1)
<1>1. /\ Len(tokens) \in Nat
      /\ ToSet(tokens) = {tokens[k] : k \in 1 .. Len(tokens)}
  BY DEF IsLine, ToSet
<1>2. \A k \in 1 .. Len(tokens) :
        \E j \in 1 .. n : /\ k \in off[j - 1] + 1 .. off[j]
                          /\ tokens[k] = Token(layout[j], state, battery, number, k - off[j - 1])
  BY DEF IsLine
<1>3. \A j, k \in 1 .. n : layout[j].labels = layout[k].labels => j = k
  BY DEF PlainLayout
<1>4. \A labels \in SchemaLabels(schema) :
        \E f \in Fields(schema), j \in 1 .. n :
          Labels(schema, f) = labels /\ layout[j].labels = labels
  BY DEF Complete, SchemaLabels, Printed, ToSet
<1>5. \A c : /\ First(c).of = c.labels /\ First(c).is = KindIn(c, state)
             /\ First(c).nth = 1
  BY DEF Token
<1>6. \A j \in 1 .. n : off[j - 1] \in Nat
  <2>1. \A j \in 1 .. n : j - 1 \in 0 .. n
    OBVIOUS
  <2> QED BY <2>1 DEF DataOffsets
<1>7. \A j \in 1 .. n, f \in Fields(schema) :
        Labels(schema, f) = layout[j].labels /\ off[j - 1] < Len(tokens)
          => First(layout[j]) \in ToSet(tokens)
  <2> SUFFICES ASSUME NEW j \in 1 .. n, NEW f \in Fields(schema),
                      Labels(schema, f) = layout[j].labels, off[j - 1] < Len(tokens)
               PROVE  First(layout[j]) \in ToSet(tokens)
    OBVIOUS
  <2>1. tokens[off[j - 1] + 1] = First(layout[j])
    BY FieldToken
  <2>2. off[j - 1] + 1 \in 1 .. Len(tokens)
    BY <1>1, <1>6
  <2> QED BY <1>1, <2>1, <2>2
<1>8. \A j \in 1 .. n : Present(layout, off, state, j) <=> off[j - 1] < Len(tokens)
  BY PresentIs
<1> DEFINE T == {t \in ToSet(tokens) : t.nth = 1}
<1>9. \A t \in T : \E j \in 1 .. n : Present(layout, off, state, j) /\ t = First(layout[j])
  <2> SUFFICES ASSUME NEW k \in 1 .. Len(tokens), tokens[k].nth = 1
               PROVE  \E j \in 1 .. n : Present(layout, off, state, j) /\ tokens[k] = First(layout[j])
    BY <1>1
  <2>1. PICK j \in 1 .. n :
                 /\ k \in off[j - 1] + 1 .. off[j]
                 /\ tokens[k] = Token(layout[j], state, battery, number, k - off[j - 1])
    BY <1>2
  <2>2. off[j - 1] < Len(tokens)
    BY <1>1, <1>6, <2>1
  <2>3. k - off[j - 1] = 1
    BY <2>1 DEF Token
  <2> QED BY <1>8, <2>1, <2>2, <2>3
<1>10. Readable(line, required, numbers, limits) <=>
         /\ \A labels \in required : \E t \in T : t.of = labels
         /\ \A t \in T : /\ t.of \in numbers => t.is \notin {"word", "dash"}
                         /\ t.of \in limits => t.is # "word"
  BY DEF Readable
<1> HIDE DEF tokens, n, T, First
<1>11. ASSUME Readable(line, required, numbers, limits),
              NEW f \in Fields(schema), NEW j \in 1 .. n, Labels(schema, f) = layout[j].labels
       PROVE  Wants(Labels(schema, f) \in required, Labels(schema, f) \in numbers,
                    Labels(schema, f) \in limits, Present(layout, off, state, j),
                    KindIn(layout[j], state))
  <2>1. ASSUME Labels(schema, f) \in required PROVE Present(layout, off, state, j)
    <3>1. PICK t \in T : t.of = Labels(schema, f)
      BY <1>10, <1>11, <2>1
    <3>2. PICK i \in 1 .. n : Present(layout, off, state, i) /\ t = First(layout[i])
      BY <1>9 DEF T
    <3>3. layout[i].labels = layout[j].labels
      BY <1>11, <1>5, <3>1, <3>2
    <3> QED BY <1>3, <3>2, <3>3
  <2>2. ASSUME Present(layout, off, state, j)
        PROVE  /\ Labels(schema, f) \in numbers => KindIn(layout[j], state) \notin {"word", "dash"}
               /\ Labels(schema, f) \in limits => KindIn(layout[j], state) # "word"
    <3>1. First(layout[j]) \in T
      BY <1>11, <1>5, <1>7, <1>8, <2>2 DEF T
    <3> QED BY <1>10, <1>11, <1>5, <3>1
  <2> QED BY <2>1, <2>2 DEF Wants
<1>12. ASSUME AllWanted(schema, layout, off, state, required, numbers, limits)
       PROVE  Readable(line, required, numbers, limits)
  <2>1. ASSUME NEW labels \in required PROVE \E t \in T : t.of = labels
    <3>1. PICK f \in Fields(schema), j \in 1 .. n :
                 Labels(schema, f) = labels /\ layout[j].labels = labels
      BY <1>4
    <3>2. Present(layout, off, state, j)
      BY <1>12, <3>1 DEF AllWanted, Wants, n
    <3>3. First(layout[j]) \in T
      BY <1>5, <1>7, <1>8, <3>1, <3>2 DEF T
    <3> QED BY <1>5, <3>1, <3>3
  <2>2. ASSUME NEW t \in T
        PROVE  /\ t.of \in numbers => t.is \notin {"word", "dash"}
               /\ t.of \in limits => t.is # "word"
    <3>1. PICK j \in 1 .. n : Present(layout, off, state, j) /\ t = First(layout[j])
      BY <1>9 DEF T
    <3>2. t.of = layout[j].labels /\ t.is = KindIn(layout[j], state)
      BY <1>5, <3>1
    <3>3. ASSUME t.of \in SchemaLabels(schema)
          PROVE  Wants(t.of \in required, t.of \in numbers, t.of \in limits,
                       Present(layout, off, state, j), KindIn(layout[j], state))
      <4>1. PICK f \in Fields(schema) : Labels(schema, f) = t.of
        BY <3>3 DEF SchemaLabels
      <4> QED BY <1>12, <3>2, <4>1 DEF AllWanted, n
    <3> QED BY <3>1, <3>2, <3>3 DEF Wants
  <2> QED BY <1>10, <2>1, <2>2
<1>13. Readable(line, required, numbers, limits)
         => AllWanted(schema, layout, off, state, required, numbers, limits)
  BY <1>11 DEF AllWanted, n
<1> QED BY <1>12, <1>13

LEMMA PwrField ==
  ASSUME NEW f \in Fields(PWR_TABLE_SCHEMA)
  PROVE  \E i \in (1 .. 16) \ {14} : PWR_TABLE_SCHEMA.column[f] = PWR_COLUMNS[i]
<1> DEFINE schema == PWR_TABLE_SCHEMA
<1>1. schema.columns = PWR_COLUMNS
  BY DEF PWR_TABLE_SCHEMA
<1> HIDE DEF schema
<1>2. /\ schema.column[f] \in ToSet(schema.columns)
      /\ schema.column[f].field = f /\ f # NoName
  BY PwrSound, FieldColumn DEF schema
<1>3. PICK i \in 1 .. 16 : schema.column[f] = PWR_COLUMNS[i]
  BY <1>1, <1>2, PwrColumns
<1>4. PWR_COLUMNS[14].field = NoName
  BY PwrAt DEF Unread
<1>5. i # 14
  BY <1>2, <1>3, <1>4
<1> QED BY <1>3, <1>5 DEF schema

LEMMA PwrFieldRules ==
  \A f \in Fields(PWR_TABLE_SCHEMA) :
    ColumnRule(PWR_TABLE_SCHEMA.column[f], PwrNumbers \cup {<<"Base.St">>}, PwrNumbers, PwrLimits)
<1> SUFFICES ASSUME NEW f \in Fields(PWR_TABLE_SCHEMA)
             PROVE  ColumnRule(PWR_TABLE_SCHEMA.column[f], PwrNumbers \cup {<<"Base.St">>},
                               PwrNumbers, PwrLimits)
  OBVIOUS
<1>1. PICK i \in (1 .. 16) \ {14} : PWR_TABLE_SCHEMA.column[f] = PWR_COLUMNS[i]
  BY PwrField
<1>2. ColumnRule(PWR_COLUMNS[i], PwrNumbers \cup {<<"Base.St">>}, PwrNumbers, PwrLimits)
  BY PwrRules
<1> QED BY <1>1, <1>2

LEMMA BatFieldRules ==
  \A f \in Fields(BAT_TABLE_SCHEMA) :
    ColumnRule(BAT_TABLE_SCHEMA.column[f], BatRequired, BatNumbers \cup {<<"Coulomb">>}, {})
<1> SUFFICES ASSUME NEW f \in Fields(BAT_TABLE_SCHEMA)
             PROVE  ColumnRule(BAT_TABLE_SCHEMA.column[f], BatRequired,
                               BatNumbers \cup {<<"Coulomb">>}, {})
  OBVIOUS
<1>1. BAT_TABLE_SCHEMA.columns = BAT_COLUMNS
  BY DEF BAT_TABLE_SCHEMA
<1>2. BAT_TABLE_SCHEMA.column[f] \in ToSet(BAT_TABLE_SCHEMA.columns)
  BY BatSound, FieldColumn
<1>3. PICK i \in 1 .. 10 : BAT_TABLE_SCHEMA.column[f] = BAT_COLUMNS[i]
  <2> HIDE DEF BAT_TABLE_SCHEMA
  <2> QED BY <1>1, <1>2, BatColumns
<1>4. ColumnRule(BAT_COLUMNS[i], BatRequired, BatNumbers \cup {<<"Coulomb">>}, {})
  BY BatRules
<1> QED BY <1>3, <1>4

\* The labels of a column are those of a field.
LEMMA ColumnLabels ==
  ASSUME NEW schema \in Schemas, NEW c \in ToSet(schema.columns), c.field # NoName
  PROVE  c.labels \in SchemaLabels(schema)
<1>1. c.field \in Fields(schema) /\ schema.column[c.field] = c
  BY SchemasAreSound, ColumnOfField
<1> QED BY <1>1 DEF SchemaLabels, Labels

LEMMA PwrLabelSets ==
  /\ PwrNumbers \cup {<<"Base.St">>} \in SUBSET SchemaLabels(PWR_TABLE_SCHEMA)
  /\ PwrNumbers \in SUBSET SchemaLabels(PWR_TABLE_SCHEMA)
  /\ PwrLimits \in SUBSET SchemaLabels(PWR_TABLE_SCHEMA)
<1>1. \A i \in {1, 2, 3, 4, 5, 6, 7, 8, 9, 13} :
        PWR_COLUMNS[i].labels \in SchemaLabels(PWR_TABLE_SCHEMA)
  <2> SUFFICES ASSUME NEW i \in {1, 2, 3, 4, 5, 6, 7, 8, 9, 13}
               PROVE  PWR_COLUMNS[i].labels \in SchemaLabels(PWR_TABLE_SCHEMA)
    OBVIOUS
  <2>1. i \in 1 .. 16 /\ i # 14
    OBVIOUS
  <2>2. PWR_COLUMNS[i].field # NoName
    <3>1. PwrFields[i] # "None"
      BY DEF PwrFields
    <3> QED BY <2>1, <3>1, PwrFieldAt DEF NoName
  <2>3. PWR_TABLE_SCHEMA.columns = PWR_COLUMNS /\ PWR_TABLE_SCHEMA \in Schemas
    BY DEF PWR_TABLE_SCHEMA, Schemas
  <2>4. PWR_COLUMNS[i] \in ToSet(PWR_TABLE_SCHEMA.columns)
    BY <2>1, <2>3, PwrColumns
  <2> QED BY <2>2, <2>3, <2>4, ColumnLabels
<1>2. /\ PWR_COLUMNS[1].labels = <<"Power">> /\ PWR_COLUMNS[2].labels = <<"Volt">>
      /\ PWR_COLUMNS[3].labels = <<"Curr">> /\ PWR_COLUMNS[4].labels = <<"Tempr">>
      /\ PWR_COLUMNS[5].labels = <<"Tlow">> /\ PWR_COLUMNS[6].labels = <<"Thigh">>
      /\ PWR_COLUMNS[7].labels = <<"Vlow">> /\ PWR_COLUMNS[8].labels = <<"Vhigh">>
      /\ PWR_COLUMNS[9].labels = <<"Base.St">> /\ PWR_COLUMNS[13].labels = <<"Coulomb">>
  BY PwrAt DEF ColumnSpec
<1> HIDE DEF PWR_TABLE_SCHEMA
<1> QED BY <1>1, <1>2 DEF PwrNumbers, PwrLimits

LEMMA BatLabelSets ==
  /\ BatNumbers \cup {<<"Base", "State">>} \in SUBSET SchemaLabels(BAT_TABLE_SCHEMA)
  /\ BatNumbers \cup {<<"Coulomb">>} \in SUBSET SchemaLabels(BAT_TABLE_SCHEMA)
  /\ {} \in SUBSET SchemaLabels(BAT_TABLE_SCHEMA)
<1>1. \A i \in {1, 2, 3, 4, 5, 9, 10} :
        BAT_COLUMNS[i].labels \in SchemaLabels(BAT_TABLE_SCHEMA)
  <2> SUFFICES ASSUME NEW i \in {1, 2, 3, 4, 5, 9, 10}
               PROVE  BAT_COLUMNS[i].labels \in SchemaLabels(BAT_TABLE_SCHEMA)
    OBVIOUS
  <2>1. i \in 1 .. 10
    OBVIOUS
  <2>2. BAT_COLUMNS[i].field # NoName
    <3>1. BatFields[i] # "None"
      BY DEF BatFields
    <3> QED BY <2>1, <3>1, BatFieldAt DEF NoName
  <2>3. BAT_TABLE_SCHEMA.columns = BAT_COLUMNS /\ BAT_TABLE_SCHEMA \in Schemas
    BY DEF BAT_TABLE_SCHEMA, Schemas
  <2>4. BAT_COLUMNS[i] \in ToSet(BAT_TABLE_SCHEMA.columns)
    BY <2>1, <2>3, BatColumns
  <2> QED BY <2>2, <2>3, <2>4, ColumnLabels
<1>2. /\ BAT_COLUMNS[1].labels = <<"Battery">> /\ BAT_COLUMNS[2].labels = <<"Volt">>
      /\ BAT_COLUMNS[3].labels = <<"Curr">> /\ BAT_COLUMNS[4].labels = <<"Tempr">>
      /\ BAT_COLUMNS[5].labels = <<"Base", "State">>
      /\ BAT_COLUMNS[9].labels = <<"SOC">> /\ BAT_COLUMNS[10].labels = <<"Coulomb">>
  BY BatAt DEF ColumnSpec
<1> HIDE DEF BAT_TABLE_SCHEMA
<1> QED BY <1>1, <1>2 DEF BatNumbers

(***************************************************************************)
(* On a line of such a console, no transform refuses a token exactly when  *)
(* nothing a person wants is missing or unreadable.                        *)
(***************************************************************************)
LEMMA ReadTaken ==
  ASSUME NEW t, SoundTransform(t), NEW index \in Nat, NEW row,
         NEW present \in BOOLEAN, present <=> index < Len(row),
         NEW kind,
         present => row[index + 1].is = kind /\ row[index + 1] # Bad
  PROVE  Read(t, row, index) # Bad <=> Takes(t, present, kind)
<1> DEFINE k == IF index < Len(row) THEN row[index + 1].is ELSE "missing"
           takes == Transforms[t].takes
           none == Transforms[t].none
<1>1. Read(t, row, index) = CASE k \in takes -> row[index + 1]
                              [] k \in none  -> None
                              [] OTHER       -> Bad
  BY DEF Read
<1>2. "missing" \notin takes /\ \A q \in takes : q \notin none
  BY DEF SoundTransform
<1>3. None # Bad
  <2>1. None.is # Bad.is
    BY DEF None, Bad
  <2> QED BY <2>1
<1>4. Takes(t, present, kind)
        <=> IF present THEN kind \in takes \cup none ELSE "missing" \in none
  BY DEF Takes
<1> HIDE DEF takes, none
<1>5. CASE present
  <2>1. k = kind /\ row[index + 1] # Bad
    BY <1>5
  <2> HIDE DEF k
  <2> QED BY <1>1, <1>2, <1>3, <1>4, <1>5, <2>1
<1>6. CASE ~present
  <2>1. k = "missing"
    BY <1>6
  <2> HIDE DEF k
  <2> QED BY <1>1, <1>2, <1>3, <1>4, <1>6, <2>1
<1> QED BY <1>5, <1>6

LEMMA TokenIsNotBad ==
  ASSUME NEW column, NEW state, NEW battery, NEW line, NEW k
  PROVE  Token(column, state, battery, line, k) # Bad
<1>1. DOMAIN Token(column, state, battery, line, k) = {"is", "of", "nth", "battery", "line"}
  BY DEF Token
<1>2. DOMAIN Bad = {"is"}
  BY DEF Bad
<1>3. "of" \in {"is", "of", "nth", "battery", "line"} /\ "of" \notin {"is"}
  OBVIOUS
<1> QED BY <1>1, <1>2, <1>3

LEMMA ConvertedByField ==
  ASSUME NEW schema \in Schemas, NEW layout \in Seq(Column), PlainLayout(schema, layout),
         Complete(schema, layout), NEW off, DataOffsets(off, layout),
         NEW indices, RightlyIndexed(schema, layout, off, indices),
         NEW state, NEW battery, NEW number, NEW line,
         IsLine(line.tokens, layout, off, state, battery, number)
  PROVE  Converted(Values(schema, indices, line)) <=> AllTaken(schema, layout, off, state)
<1> DEFINE tokens == line.tokens
           n == Len(layout)
<1>1. ASSUME NEW f \in Fields(schema), NEW j \in 1 .. n, Labels(schema, f) = layout[j].labels
      PROVE  Read(schema.column[f].transform, tokens, indices[f]) # Bad
               <=> Takes(schema.column[f].transform, Present(layout, off, state, j),
                         KindIn(layout[j], state))
  <2> DEFINE t == schema.column[f].transform
             present == off[j - 1] < Len(tokens)
             kind == KindIn(layout[j], state)
  <2>1. SoundTransform(t)
    BY SchemasAreSound, FieldColumn DEF SoundSchema, SoundColumn
  <2>2. indices[f] = off[j - 1] /\ off[j - 1] \in Nat
    BY <1>1, FieldWidth DEF RightlyIndexed
  <2>3. present => tokens[off[j - 1] + 1] = Token(layout[j], state, battery, number, 1)
    BY <1>1, FieldToken
  <2>4. Present(layout, off, state, j) <=> present
    BY PresentIs
  <2>5. /\ Token(layout[j], state, battery, number, 1).is = kind
        /\ Token(layout[j], state, battery, number, 1) # Bad
    BY TokenIsNotBad DEF Token
  <2> DEFINE index == off[j - 1]
  <2>6. present => tokens[index + 1].is = kind /\ tokens[index + 1] # Bad
    BY <2>3, <2>5
  <2>7. /\ present \in BOOLEAN /\ index \in Nat /\ (present <=> index < Len(tokens))
    BY <2>2
  <2> HIDE DEF t, kind, index, present, tokens
  <2>8. Read(t, tokens, index) # Bad <=> Takes(t, present, kind)
    BY <2>1, <2>6, <2>7, ReadTaken
  <2>9. Takes(t, Present(layout, off, state, j), kind) <=> Takes(t, present, kind)
    BY <2>4 DEF Takes
  <2> QED BY <2>2, <2>8, <2>9 DEF t, kind, index
<1>2. \A f \in Fields(schema) : \E j \in 1 .. n : Labels(schema, f) = layout[j].labels
  <2> SUFFICES ASSUME NEW f \in Fields(schema)
               PROVE  \E j \in 1 .. n : Labels(schema, f) = layout[j].labels
    OBVIOUS
  <2>1. Labels(schema, f) \in Printed(layout)
    BY DEF Complete
  <2>2. PICK c \in ToSet(layout) : c.labels = Labels(schema, f)
    BY <2>1 DEF Printed
  <2> QED BY <2>2 DEF ToSet
<1>3. Converted(Values(schema, indices, line)) <=>
        \A f \in Fields(schema) : Read(schema.column[f].transform, tokens, indices[f]) # Bad
  BY DEF Converted, Values
<1> HIDE DEF n, tokens
<1>4. AllTaken(schema, layout, off, state) <=>
        \A f \in Fields(schema), j \in 1 .. n :
          Labels(schema, f) = layout[j].labels =>
            Takes(schema.column[f].transform, Present(layout, off, state, j),
                  KindIn(layout[j], state))
  BY DEF AllTaken, n
<1> QED BY <1>1, <1>2, <1>3, <1>4

LEMMA KindOfColumn ==
  ASSUME NEW column, NEW state
  PROVE  KindIn(column, state) \in {"dash", "word", column.kind}
<1>1. CASE column.labels \in state.dash
  BY <1>1 DEF KindIn
<1>2. CASE column.labels \notin state.dash /\ column.labels \in state.junk
  BY <1>2 DEF KindIn
<1>3. CASE column.labels \notin state.dash /\ column.labels \notin state.junk
  BY <1>3 DEF KindIn
<1> QED BY <1>1, <1>2, <1>3

LEMMA TakenIsWanted ==
  ASSUME NEW schema \in Schemas, NEW layout \in Seq(Column), TypedLayout(schema, layout),
         NEW off, NEW state, NEW required, NEW numbers, NEW limits,
         \A f \in Fields(schema) : ColumnRule(schema.column[f], required, numbers, limits)
  PROVE  AllTaken(schema, layout, off, state)
           <=> AllWanted(schema, layout, off, state, required, numbers, limits)
<1>1. ASSUME NEW f \in Fields(schema), NEW j \in 1 .. Len(layout),
             Labels(schema, f) = layout[j].labels
      PROVE  Takes(schema.column[f].transform, Present(layout, off, state, j),
                   KindIn(layout[j], state))
               <=> Wants(Labels(schema, f) \in required, Labels(schema, f) \in numbers,
                         Labels(schema, f) \in limits, Present(layout, off, state, j),
                         KindIn(layout[j], state))
  <2> DEFINE c == schema.column[f]
             kind == KindIn(layout[j], state)
             present == Present(layout, off, state, j)
  <2>1. c.labels = Labels(schema, f)
    BY DEF Labels
  <2>2. layout[j].kind \in Transforms[c.transform].takes
    <3>1. layout[j] \in ToSet(layout)
      BY DEF ToSet
    <3> QED BY <1>1, <3>1 DEF TypedLayout
  <2>3. kind \in {"dash", "word", layout[j].kind}
    BY KindOfColumn
  <2>4. present \in BOOLEAN
    BY DEF Present
  <2>5. ColumnRule(c, required, numbers, limits)
    OBVIOUS
  <2> HIDE DEF c, kind, present
  <2>6. Takes(c.transform, present, kind)
          <=> Wants(c.labels \in required, c.labels \in numbers, c.labels \in limits, present, kind)
    BY <2>2, <2>3, <2>4, <2>5 DEF ColumnRule, Rule
  <2>7. Wants(c.labels \in required, c.labels \in numbers, c.labels \in limits, present, kind)
          <=> Wants(Labels(schema, f) \in required, Labels(schema, f) \in numbers,
                    Labels(schema, f) \in limits, present, kind)
    BY <2>1 DEF Wants
  <2> QED BY <2>6, <2>7 DEF c, kind, present
<1> QED BY <1>1 DEF AllTaken, AllWanted

LEMMA GrowsByOne ==
  ASSUME NEW n \in Nat, NEW off \in [0 .. n -> Nat],
         \A j \in 1 .. n : off[j] >= off[j - 1] + 1
  PROVE  \A i \in 0 .. n : off[i] >= i
<1> DEFINE S == {i \in 0 .. n : off[i] >= i}
<1>1. 0 \in S
  OBVIOUS
<1>2. ASSUME NEW j \in S, j \in Nat, j < n PROVE j + 1 \in S
  <2>1. j + 1 \in 1 .. n /\ (j + 1) - 1 = j /\ off[j] >= j /\ off[j] \in Nat /\ off[j + 1] \in Nat
    BY <1>2
  <2>2. off[j + 1] >= off[j] + 1
    BY <2>1
  <2> QED BY <2>1, <2>2
<1> HIDE DEF S
<1>3. \A i \in 0 .. n : i \in S
  BY <1>1, <1>2, InductUpTo
<1> SUFFICES ASSUME NEW m \in 0 .. n PROVE off[m] >= m
  OBVIOUS
<1>4. m \in S
  BY <1>3
<1> QED BY <1>4 DEF S

\* A column holds a token at least.
LEMMA ColumnsTakeTokens ==
  ASSUME NEW schema \in Schemas, NEW layout \in Seq(Column), PlainLayout(schema, layout),
         NEW off, DataOffsets(off, layout)
  PROVE  /\ off \in [0 .. Len(layout) -> Nat]
         /\ \A i \in 0 .. Len(layout) : off[i] >= i
<1>1. \A j \in 1 .. Len(layout) : layout[j].tokens \in Nat /\ layout[j].tokens >= 1
  <2> SUFFICES ASSUME NEW j \in 1 .. Len(layout)
               PROVE  layout[j].tokens \in Nat /\ layout[j].tokens >= 1
    OBVIOUS
  <2>1. PlainColumn(schema, layout[j], j = Len(layout)) /\ layout[j].tokens \in Nat
    <3>1. layout[j] \in Column
      OBVIOUS
    <3> QED BY <3>1 DEF PlainLayout, Column
  <2>2. \A c \in ToSet(schema.columns) : c.width \in {1, 2}
    BY SchemasAreSound DEF SoundSchema, SoundColumn
  <2>3. layout[j].tokens >= 1
    BY <2>1, <2>2 DEF PlainColumn
  <2> QED BY <2>1, <2>3
<1> DEFINE n == Len(layout)
<1>2. n \in Nat /\ off \in [0 .. n -> Nat]
  BY DEF DataOffsets
<1>3. \A j \in 1 .. n : off[j] = off[j - 1] + layout[j].tokens
  BY DEF DataOffsets
<1>4. ASSUME NEW j \in 1 .. n PROVE off[j] >= off[j - 1] + 1
  <2>1. j - 1 \in 0 .. n /\ layout[j].tokens \in Nat /\ layout[j].tokens >= 1
    BY <1>1
  <2> HIDE DEF n
  <2>2. off[j] = off[j - 1] + layout[j].tokens /\ off[j - 1] \in Nat
    BY <1>2, <1>3, <2>1
  <2> QED BY <2>1, <2>2
<1>5. \A i \in 0 .. n : off[i] >= i
  <2> HIDE DEF n
  <2> QED BY <1>2, <1>4, GrowsByOne
<1> QED BY <1>2, <1>5

\* The first token is a number when no transform refuses it.
LEMMA FirstToken ==
  ASSUME NEW schema \in Schemas, NEW layout \in Seq(Column), PlainLayout(schema, layout),
         NEW off, DataOffsets(off, layout),
         NEW state, NEW battery, NEW number, NEW tokens,
         IsLine(tokens, layout, off, state, battery, number),
         AllTaken(schema, layout, off, state), 0 < Len(tokens),
         NEW f \in Fields(schema), Labels(schema, f) = <<schema.first>>,
         schema.column[f].transform = "required_int"
  PROVE  Head(tokens).is = "int"
<1>1. 1 \in 1 .. Len(layout) /\ layout[1].labels = <<schema.first>>
  BY DEF PlainLayout
<1>2. off[1 - 1] = 0
  BY DEF DataOffsets
<1>3. off[1 - 1] < Len(tokens)
  BY <1>2
<1>4. tokens[off[1 - 1] + 1] = Token(layout[1], state, battery, number, 1)
  BY <1>1, <1>3, FieldToken
<1>5. Present(layout, off, state, 1)
  BY <1>3, PresentIs
<1>6. Takes("required_int", Present(layout, off, state, 1), KindIn(layout[1], state))
  BY <1>1 DEF AllTaken
<1>7. KindIn(layout[1], state) = "int"
  BY <1>5, <1>6, RequiredInt DEF Takes
<1>8. tokens[1] = tokens[off[1 - 1] + 1]
  BY <1>2
<1>9. Head(tokens) = tokens[1]
  OBVIOUS
<1> QED BY <1>4, <1>7, <1>8, <1>9 DEF Token

LEMMA PwrShape ==
  /\ PWR_TABLE_SCHEMA.longer = 10 /\ PWR_TABLE_SCHEMA.skipAbsent = TRUE
  /\ PWR_TABLE_SCHEMA.minField = NoName /\ PWR_TABLE_SCHEMA.first = "Power"
  BY DEF PWR_TABLE_SCHEMA

\* Of a table of the stack, the rows kept are the lines a person can read.
LEMMA PwrKeeps ==
  ASSUME NEW layout \in Seq(Column), PlainLayout(PWR_TABLE_SCHEMA, layout),
         Complete(PWR_TABLE_SCHEMA, layout), TypedLayout(PWR_TABLE_SCHEMA, layout),
         NEW far \in 1 .. Len(layout), far > PWR_TABLE_SCHEMA.longer,
         layout[far].labels \in PwrNumbers,
         has_header(PWR_TABLE_SCHEMA, HeaderOf(layout)),
         NEW state, state.keep \in Nat, NEW battery, NEW number
  PROVE  Kept(PWR_TABLE_SCHEMA, Indices(PWR_TABLE_SCHEMA, HeaderOf(layout)),
              LineOf(layout, state, battery, number))
           <=> /\ ~state.absent
               /\ Readable(LineOf(layout, state, 0, 0), PwrNumbers \cup {<<"Base.St">>},
                           PwrNumbers, PwrLimits)
<1> DEFINE schema == PWR_TABLE_SCHEMA
           required == PwrNumbers \cup {<<"Base.St">>}
           indices == Indices(schema, HeaderOf(layout))
           line == LineOf(layout, state, battery, number)
           shown == LineOf(layout, state, 0, 0)
<1>1. /\ schema \in Schemas /\ schema.longer = 10 /\ schema.skipAbsent = TRUE
      /\ schema.minField = NoName /\ schema.first = "Power"
  BY PwrShape DEF Schemas
<1>2. /\ required \in SUBSET SchemaLabels(schema)
      /\ PwrNumbers \in SUBSET SchemaLabels(schema)
      /\ PwrLimits \in SUBSET SchemaLabels(schema)
  BY PwrLabelSets
<1>3. \A f \in Fields(schema) : ColumnRule(schema.column[f], required, PwrNumbers, PwrLimits)
  BY PwrFieldRules
<1>4. PwrNumbers \subseteq required
  OBVIOUS
<1>5. /\ "sys_id" \in Fields(schema) /\ Labels(schema, "sys_id") = <<schema.first>>
      /\ schema.column["sys_id"].transform = "required_int"
  BY <1>1, PwrSysId
<1>6. line.absent = state.absent
  BY DEF LineOf
<1> HIDE DEF schema, required
<1>7. PICK off : DataOffsets(off, layout)
  BY DataOffsetsExist
<1>8. RightlyIndexed(schema, layout, off, indices)
  BY <1>1, <1>7, IndicesAre DEF schema
<1> HIDE DEF indices, line, shown
<1>9. IsLine(line.tokens, layout, off, state, battery, number)
  BY <1>7, LineIs DEF line
<1>10. IsLine(shown.tokens, layout, off, state, 0, 0)
  BY <1>7, LineIs DEF shown
<1>11. Converted(Values(schema, indices, line)) <=> AllTaken(schema, layout, off, state)
  BY <1>1, <1>7, <1>8, <1>9, ConvertedByField DEF schema
<1>12. Readable(shown, required, PwrNumbers, PwrLimits)
         <=> AllWanted(schema, layout, off, state, required, PwrNumbers, PwrLimits)
  BY <1>1, <1>2, <1>7, <1>10, ReadableByField DEF schema
<1>13. AllTaken(schema, layout, off, state)
         <=> AllWanted(schema, layout, off, state, required, PwrNumbers, PwrLimits)
  BY <1>1, <1>3, TakenIsWanted DEF schema
<1>14. ASSUME AllWanted(schema, layout, off, state, required, PwrNumbers, PwrLimits)
       PROVE  Len(line.tokens) \in Nat /\ Len(line.tokens) > 10
  <2>1. PICK f \in Fields(schema) : Labels(schema, f) = layout[far].labels
    BY <1>2 DEF SchemaLabels
  <2>2. Present(layout, off, state, far)
    BY <1>14, <1>4, <2>1 DEF AllWanted, Wants
  <2>3. off[far - 1] < Len(line.tokens)
    BY <1>9, <2>2, PresentIs
  <2>4. far - 1 \in 0 .. Len(layout) /\ far - 1 >= 10
    BY <1>1 DEF schema
  <2>5. off[far - 1] \in Nat /\ off[far - 1] >= far - 1
    BY <1>1, <1>7, <2>4, ColumnsTakeTokens DEF schema
  <2>6. Len(line.tokens) \in Nat
    BY <1>9 DEF IsLine
  <2> QED BY <2>3, <2>4, <2>5, <2>6
<1>15. ASSUME AllWanted(schema, layout, off, state, required, PwrNumbers, PwrLimits)
       PROVE  Head(line.tokens).is = "int"
  <2>1. AllTaken(schema, layout, off, state) /\ 0 < Len(line.tokens)
    BY <1>13, <1>14, <1>15
  <2> QED BY <1>1, <1>5, <1>7, <1>9, <2>1, FirstToken DEF schema
<1>16. IsRow(schema, indices, line)
         <=> /\ Len(line.tokens) > 10 /\ Head(line.tokens).is = "int" /\ ~line.absent
  BY <1>1 DEF IsRow
<1>17. Kept(schema, indices, line)
         <=> /\ ~state.absent
             /\ AllWanted(schema, layout, off, state, required, PwrNumbers, PwrLimits)
  <2>1. Kept(schema, indices, line)
          <=> IsRow(schema, indices, line) /\ Converted(Values(schema, indices, line))
    BY DEF Kept
  <2>2. ~line.absent <=> ~state.absent
    BY <1>6
  <2> QED BY <1>11, <1>13, <1>14, <1>15, <1>16, <2>1, <2>2
<1> QED BY <1>12, <1>17 DEF schema, required, indices, line, shown

LEMMA BatShape ==
  /\ BAT_TABLE_SCHEMA.longer = 0 /\ BAT_TABLE_SCHEMA.skipAbsent = FALSE
  /\ BAT_TABLE_SCHEMA.minField = "soc" /\ BAT_TABLE_SCHEMA.first = "Battery"
  BY DEF BAT_TABLE_SCHEMA

LEMMA BatCellId ==
  /\ "cell_id" \in Fields(BAT_TABLE_SCHEMA)
  /\ Labels(BAT_TABLE_SCHEMA, "cell_id") = <<"Battery">>
  /\ BAT_TABLE_SCHEMA.column["cell_id"].transform = "required_int"
  /\ "soc" \in Fields(BAT_TABLE_SCHEMA)
  /\ Labels(BAT_TABLE_SCHEMA, "soc") = <<"SOC">>
<1>1. BAT_TABLE_SCHEMA.columns = BAT_COLUMNS
  BY DEF BAT_TABLE_SCHEMA
<1> HIDE DEF BAT_TABLE_SCHEMA, BAT_COLUMNS
<1>2. /\ BAT_COLUMNS[1] \in ToSet(BAT_COLUMNS) /\ BAT_COLUMNS[1].field = "cell_id"
      /\ BAT_COLUMNS[1].labels = <<"Battery">> /\ BAT_COLUMNS[1].transform = "required_int"
      /\ BAT_COLUMNS[9] \in ToSet(BAT_COLUMNS) /\ BAT_COLUMNS[9].field = "soc"
      /\ BAT_COLUMNS[9].labels = <<"SOC">>
  BY BatColumns, BatAt DEF ColumnSpec
<1>3. "cell_id" # NoName /\ "soc" # NoName
  BY DEF NoName
<1> QED BY <1>1, <1>2, <1>3, BatSound, ColumnOfField DEF Labels

\* What the length of a row asks for is the SOC.
LEMMA SocIsWanted ==
  ASSUME NEW schema, NEW layout, NEW off, NEW state, NEW numbers, NEW limits,
         NEW required, NEW others, NEW soc, others = required \ {soc}, soc \in required,
         NEW f \in Fields(schema), Labels(schema, f) = soc,
         NEW j \in 1 .. Len(layout), layout[j].labels = soc,
         \A i, k \in 1 .. Len(layout) : layout[i].labels = layout[k].labels => i = k
  PROVE  AllWanted(schema, layout, off, state, required, numbers, limits)
           <=> /\ AllWanted(schema, layout, off, state, others, numbers, limits)
               /\ Present(layout, off, state, j)
<1>1. ASSUME AllWanted(schema, layout, off, state, required, numbers, limits)
      PROVE  /\ AllWanted(schema, layout, off, state, others, numbers, limits)
             /\ Present(layout, off, state, j)
  <2>1. AllWanted(schema, layout, off, state, others, numbers, limits)
    BY <1>1 DEF AllWanted, Wants
  <2>2. Present(layout, off, state, j)
    BY <1>1 DEF AllWanted, Wants
  <2> QED BY <2>1, <2>2
<1>2. ASSUME AllWanted(schema, layout, off, state, others, numbers, limits),
             Present(layout, off, state, j)
      PROVE  AllWanted(schema, layout, off, state, required, numbers, limits)
  <2> SUFFICES ASSUME NEW g \in Fields(schema), NEW i \in 1 .. Len(layout),
                      Labels(schema, g) = layout[i].labels
               PROVE  Wants(Labels(schema, g) \in required, Labels(schema, g) \in numbers,
                            Labels(schema, g) \in limits, Present(layout, off, state, i),
                            KindIn(layout[i], state))
    BY DEF AllWanted
  <2>1. Wants(Labels(schema, g) \in others, Labels(schema, g) \in numbers,
              Labels(schema, g) \in limits, Present(layout, off, state, i),
              KindIn(layout[i], state))
    BY <1>2 DEF AllWanted
  <2>2. CASE Labels(schema, g) = soc
    <3>1. i = j
      BY <2>2
    <3> QED BY <1>2, <2>1, <3>1 DEF Wants
  <2>3. CASE Labels(schema, g) # soc
    BY <2>1, <2>3 DEF Wants
  <2> QED BY <2>2, <2>3
<1> QED BY <1>1, <1>2

\* Of a table of cells, the rows kept are the lines a person can read.
LEMMA BatKeeps ==
  ASSUME NEW layout \in Seq(Column), PlainLayout(BAT_TABLE_SCHEMA, layout),
         Complete(BAT_TABLE_SCHEMA, layout), TypedLayout(BAT_TABLE_SCHEMA, layout),
         has_header(BAT_TABLE_SCHEMA, HeaderOf(layout)),
         NEW state, state.keep \in Nat, NEW battery, NEW number
  PROVE  Kept(BAT_TABLE_SCHEMA, Indices(BAT_TABLE_SCHEMA, HeaderOf(layout)),
              LineOf(layout, state, battery, number))
           <=> Readable(LineOf(layout, state, 0, 0), BatNumbers \cup {<<"Base", "State">>},
                        BatNumbers \cup {<<"Coulomb">>}, {})
<1> DEFINE schema == BAT_TABLE_SCHEMA
           required == BatNumbers \cup {<<"Base", "State">>}
           numbers == BatNumbers \cup {<<"Coulomb">>}
           indices == Indices(schema, HeaderOf(layout))
           line == LineOf(layout, state, battery, number)
           shown == LineOf(layout, state, 0, 0)
<1>1. /\ schema \in Schemas /\ schema.longer = 0 /\ schema.skipAbsent = FALSE
      /\ schema.minField = "soc" /\ schema.first = "Battery" /\ "soc" # NoName
  BY BatShape DEF Schemas, NoName
<1>2. /\ required \in SUBSET SchemaLabels(schema)
      /\ numbers \in SUBSET SchemaLabels(schema)
      /\ {} \in SUBSET SchemaLabels(schema)
  BY BatLabelSets
<1>3. \A f \in Fields(schema) : ColumnRule(schema.column[f], BatRequired, numbers, {})
  BY BatFieldRules
<1>4. /\ BatRequired = required \ {<<"SOC">>} /\ <<"SOC">> \in required
      /\ <<"Battery">> \in BatRequired
  <2>1. <<"Battery">> # <<"SOC">>
    <3>1. <<"Battery">>[1] # <<"SOC">>[1]
      OBVIOUS
    <3> QED BY <3>1
  <2> QED BY <2>1 DEF BatNumbers, BatRequired
<1>5. /\ "cell_id" \in Fields(schema) /\ Labels(schema, "cell_id") = <<schema.first>>
      /\ schema.column["cell_id"].transform = "required_int"
      /\ "soc" \in Fields(schema) /\ Labels(schema, "soc") = <<"SOC">>
  BY <1>1, BatCellId
<1>6. PICK j \in 1 .. Len(layout) : layout[j].labels = <<"SOC">>
  <2>1. Labels(schema, "soc") \in Printed(layout)
    BY <1>5 DEF Complete
  <2>2. PICK c \in ToSet(layout) : c.labels = <<"SOC">>
    <3> HIDE DEF schema
    <3> QED BY <1>5, <2>1 DEF Printed
  <2> QED BY <2>2 DEF ToSet
<1>7. PICK off : DataOffsets(off, layout)
  BY DataOffsetsExist
<1> HIDE DEF schema, required, numbers
<1>8. RightlyIndexed(schema, layout, off, indices)
  BY <1>1, <1>7, IndicesAre DEF schema
<1> HIDE DEF indices, line, shown
<1>9. IsLine(line.tokens, layout, off, state, battery, number)
  BY <1>7, LineIs DEF line
<1>10. IsLine(shown.tokens, layout, off, state, 0, 0)
  BY <1>7, LineIs DEF shown
<1>11. Converted(Values(schema, indices, line)) <=> AllTaken(schema, layout, off, state)
  BY <1>1, <1>7, <1>8, <1>9, ConvertedByField DEF schema
<1>12. Readable(shown, required, numbers, {})
         <=> AllWanted(schema, layout, off, state, required, numbers, {})
  BY <1>1, <1>2, <1>7, <1>10, ReadableByField DEF schema
<1>13. AllTaken(schema, layout, off, state)
         <=> AllWanted(schema, layout, off, state, BatRequired, numbers, {})
  BY <1>1, <1>3, TakenIsWanted DEF schema
<1>14. AllWanted(schema, layout, off, state, required, numbers, {})
         <=> /\ AllWanted(schema, layout, off, state, BatRequired, numbers, {})
             /\ Present(layout, off, state, j)
  <2>1. \A i, k \in 1 .. Len(layout) : layout[i].labels = layout[k].labels => i = k
    BY DEF PlainLayout
  <2> QED BY <1>4, <1>5, <1>6, <2>1, SocIsWanted
<1>15. Len(line.tokens) > indices["soc"] <=> Present(layout, off, state, j)
  <2>1. indices["soc"] = off[j - 1]
    BY <1>5, <1>6, <1>8 DEF RightlyIndexed
  <2>2. off[j - 1] \in Nat /\ Len(line.tokens) \in Nat
    <3>1. j - 1 \in 0 .. Len(layout)
      OBVIOUS
    <3> QED BY <1>7, <1>9, <3>1 DEF DataOffsets, IsLine
  <2>3. Present(layout, off, state, j) <=> off[j - 1] < Len(line.tokens)
    BY <1>9, PresentIs
  <2> QED BY <2>1, <2>2, <2>3
<1>16. ASSUME AllWanted(schema, layout, off, state, BatRequired, numbers, {})
       PROVE  /\ Len(line.tokens) \in Nat /\ Len(line.tokens) > 0
              /\ Head(line.tokens).is = "int"
  <2>1. 1 \in 1 .. Len(layout) /\ layout[1].labels = <<"Battery">> /\ off[1 - 1] = 0
    BY <1>1, <1>7 DEF PlainLayout, DataOffsets, schema
  <2>2. Present(layout, off, state, 1)
    BY <1>1, <1>4, <1>5, <1>16, <2>1 DEF AllWanted, Wants
  <2>3. off[1 - 1] < Len(line.tokens)
    BY <1>9, <2>2, PresentIs
  <2>4. Len(line.tokens) \in Nat /\ 0 < Len(line.tokens)
    BY <1>9, <2>1, <2>3 DEF IsLine
  <2>5. Head(line.tokens).is = "int"
    <3>1. AllTaken(schema, layout, off, state)
      BY <1>13, <1>16
    <3> QED BY <1>1, <1>5, <1>7, <1>9, <2>4, <3>1, FirstToken DEF schema
  <2> QED BY <2>4, <2>5
<1>17. IsRow(schema, indices, line)
         <=> /\ Len(line.tokens) > 0 /\ Head(line.tokens).is = "int"
             /\ Len(line.tokens) > indices["soc"]
  BY <1>1 DEF IsRow
<1>18. Kept(schema, indices, line)
         <=> AllWanted(schema, layout, off, state, required, numbers, {})
  <2>1. Kept(schema, indices, line)
          <=> IsRow(schema, indices, line) /\ Converted(Values(schema, indices, line))
    BY DEF Kept
  <2> QED BY <1>11, <1>13, <1>14, <1>15, <1>16, <1>17, <2>1
<1> QED BY <1>12, <1>18 DEF schema, required, numbers, indices, line, shown

-----------------------------------------------------------------------------
(***************************************************************************)
(* Tables without a lost line, and the steps of the loop.                  *)
(***************************************************************************)
LEMMA TypedFirmware ==
  ASSUME TypedConsoles, console \in DOMAIN Consoles
  PROVE  /\ TypedLayout(PWR_TABLE_SCHEMA, firmware.pwr)
         /\ TypedLayout(BAT_TABLE_SCHEMA, firmware.bat)
         /\ \E i \in DOMAIN firmware.pwr : /\ i > PWR_TABLE_SCHEMA.longer
                                           /\ firmware.pwr[i].labels \in PwrNumbers
  BY DEF TypedConsoles, firmware

\* Rows taken at the given positions list what is kept.
LEMMA PositionsList ==
  ASSUME NEW rows, NEW pos, NEW schema, NEW indices, NEW layout, NEW n \in Nat,
         NEW states, NEW numbers,
         RowsFrom(rows, pos, schema, indices, layout, n, states, numbers),
         NEW seq, seq = [k \in DOMAIN rows |-> pos[k]],
         NEW S, S = {i \in 1 .. n : Kept(schema, indices, Line(layout, states, numbers, i))}
  PROVE  Lists(seq, S)
<1>1. /\ DOMAIN rows = 1 .. Len(rows)
      /\ \A k \in 1 .. Len(rows) : pos[k] \in 1 .. n
      /\ \A j, k \in 1 .. Len(rows) : j < k => pos[j] < pos[k]
      /\ \A i \in 1 .. n : (\E k \in 1 .. Len(rows) : pos[k] = i)
                             <=> Kept(schema, indices, Line(layout, states, numbers, i))
  BY DEF RowsFrom
<1>2. DOMAIN seq = 1 .. Len(rows) /\ \A k \in 1 .. Len(rows) : seq[k] = pos[k]
  BY <1>1
<1>3. ToSet(seq) = S
  <2>1. ToSet(seq) = {seq[k] : k \in 1 .. Len(rows)}
    BY <1>2 DEF ToSet
  <2>2. ASSUME NEW k \in 1 .. Len(rows) PROVE seq[k] \in S
    BY <1>1, <1>2
  <2>3. ASSUME NEW i \in S PROVE \E k \in 1 .. Len(rows) : seq[k] = i
    BY <1>1, <1>2
  <2>4. ToSet(seq) \subseteq S
    BY <2>1, <2>2
  <2>5. S \subseteq ToSet(seq)
    BY <2>1, <2>3
  <2> QED BY <2>4, <2>5
<1>4. \A j, k \in DOMAIN seq : j < k => seq[j] < seq[k]
  BY <1>1, <1>2
<1> QED BY <1>3, <1>4 DEF Lists

LEMMA FetchPwrSurvives ==
  ASSUME PlainConsoles, TypedConsoles, TypeInv,
         NEW states \in [1 .. Slots -> firmware.pwrStates], FetchPwr(states),
         Complete(PWR_TABLE_SCHEMA, firmware.pwr)
  PROVE  Lists(SysIds(batteries'), {s \in 1 .. Slots : PwrReadable(states[s])})
<1> DEFINE schema == PWR_TABLE_SCHEMA
           layout == firmware.pwr
           numbers == [i \in DOMAIN states |-> i]
           indices == Indices(schema, HeaderOf(layout))
           rows == parse_table(schema, TextOf(layout, TRUE, states, numbers))
<1>1. batteries' = BuildBatteries(rows) /\ has_header(schema, HeaderOf(layout))
  BY DEF FetchPwr
<1>2. /\ layout \in Seq(Column) /\ Slots \in Nat /\ DOMAIN states = 1 .. Slots
      /\ \A i \in 1 .. Slots : states[i].keep \in Nat
      /\ PlainLayout(schema, layout)
  BY FirmwareType, PlainFirmware DEF TypeInv, Controls
<1>3. PICK far \in 1 .. Len(layout) : far > schema.longer /\ layout[far].labels \in PwrNumbers
  <2> HIDE DEF layout
  <2>1. DOMAIN layout = 1 .. Len(layout)
    BY <1>2
  <2> QED BY <2>1, TypedFirmware DEF layout, TypeInv, Controls
<1>4. TypedLayout(schema, layout)
  BY TypedFirmware DEF TypeInv, Controls
<1>5. IsPwrTable(rows, layout, Slots, states)
  BY <1>1, <1>2, PwrRows
<1> HIDE DEF rows
<1>6. PICK pos : /\ RowsFrom(rows, pos, schema, indices, layout, Slots, states, numbers)
                 /\ \A k \in 1 .. Len(rows) : rows[k].sys_id.battery = pos[k]
  BY <1>5 DEF IsPwrTable
<1>7. \A i \in 1 .. Slots :
        Kept(schema, indices, Line(layout, states, numbers, i)) <=> PwrReadable(states[i])
  <2> SUFFICES ASSUME NEW i \in 1 .. Slots
               PROVE  Kept(schema, indices, Line(layout, states, numbers, i))
                        <=> PwrReadable(states[i])
    OBVIOUS
  <2> DEFINE state == states[i]
  <2>1. Line(layout, states, numbers, i) = LineOf(layout, state, numbers[i], i)
    BY DEF Line
  <2>2. state.keep \in Nat
    BY <1>2
  <2>3. Complete(schema, layout)
    OBVIOUS
  <2> HIDE DEF numbers, layout, state
  <2>4. Kept(schema, indices, LineOf(layout, state, numbers[i], i))
          <=> /\ ~state.absent
              /\ Readable(LineOf(layout, state, 0, 0), PwrNumbers \cup {<<"Base.St">>},
                          PwrNumbers, PwrLimits)
    BY <1>1, <1>2, <1>3, <1>4, <2>2, <2>3, PwrKeeps
  <2> QED BY <2>1, <2>4 DEF PwrReadable, layout, state
<1>8. DOMAIN rows = 1 .. Len(rows)
  BY <1>6 DEF RowsFrom
<1>9. SysIds(batteries') = [k \in DOMAIN rows |-> pos[k]]
  <2>1. \A s, v : Battery(s, v).sys_id = s
    BY DEF Battery
  <2>2. SysIds(batteries') = [k \in DOMAIN rows |-> rows[k].sys_id.battery]
    BY <1>1, <2>1 DEF SysIds, BuildBatteries
  <2> QED BY <1>6, <1>8, <2>2
<1> DEFINE S == {s \in 1 .. Slots : PwrReadable(states[s])}
<1>10. S = {i \in 1 .. Slots : Kept(schema, indices, Line(layout, states, numbers, i))}
  BY <1>7
<1> HIDE DEF S, schema, layout, numbers, indices
<1>11. Lists(SysIds(batteries'), S)
  BY <1>2, <1>6, <1>9, <1>10, PositionsList
<1> QED BY <1>11 DEF S

\* The lines a table of cells was read from.
RowLines(rows) == [k \in DOMAIN rows |-> rows[k]["cell_id"].line]

LEMMA BatTableSurvives ==
  ASSUME PlainConsoles, TypedConsoles, TypeInv,
         NEW states \in [1 .. Cells -> firmware.batStates], NEW b,
         Complete(BAT_TABLE_SCHEMA, firmware.bat)
  PROVE  Lists(RowLines(BatRows(states, TRUE, b)),
               {c \in 1 .. Cells : BatReadable(states[c])})
<1> DEFINE schema == BAT_TABLE_SCHEMA
           layout == firmware.bat
           numbers == [i \in DOMAIN states |-> b]
           indices == Indices(schema, HeaderOf(layout))
           rows == BatRows(states, TRUE, b)
<1>1. /\ layout \in Seq(Column) /\ Cells \in Nat /\ DOMAIN states = 1 .. Cells
      /\ \A i \in 1 .. Cells : states[i].keep \in Nat
      /\ PlainLayout(schema, layout) /\ has_header(schema, HeaderOf(layout))
      /\ schema \in Schemas
  BY FirmwareType, PlainFirmware DEF TypeInv, Controls, Schemas
<1>2. TypedLayout(schema, layout) /\ Complete(schema, layout)
  BY TypedFirmware DEF TypeInv, Controls
<1>3. IsBatTable(rows, layout, Cells, states, b)
  BY <1>1, BatRowsAre
<1> HIDE DEF rows
<1>4. PICK pos : RowsFrom(rows, pos, schema, indices, layout, Cells, states, numbers)
  BY <1>3 DEF IsBatTable
<1>5. /\ "cell_id" \in Fields(schema) /\ schema.column["cell_id"].transform = "required_int"
      /\ Labels(schema, "cell_id") = <<"Battery">> /\ SoundTransform("required_int")
  BY BatCellId, TransformsAreSound
<1> HIDE DEF schema, layout, numbers
<1>6. \A i \in 1 .. Cells :
        Kept(schema, indices, Line(layout, states, numbers, i)) <=> BatReadable(states[i])
  <2> SUFFICES ASSUME NEW i \in 1 .. Cells
               PROVE  Kept(schema, indices, Line(layout, states, numbers, i))
                        <=> BatReadable(states[i])
    OBVIOUS
  <2> DEFINE state == states[i]
  <2>1. Line(layout, states, numbers, i) = LineOf(layout, state, numbers[i], i)
    BY DEF Line
  <2>2. state.keep \in Nat
    BY <1>1
  <2> HIDE DEF state
  <2>3. Kept(schema, indices, LineOf(layout, state, numbers[i], i))
          <=> Readable(LineOf(layout, state, 0, 0), BatNumbers \cup {<<"Base", "State">>},
                       BatNumbers \cup {<<"Coulomb">>}, {})
    BY <1>1, <1>2, <2>2, BatKeeps DEF schema
  <2> QED BY <2>1, <2>3 DEF BatReadable, layout, state
<1>7. ASSUME NEW k \in 1 .. Len(rows) PROVE rows[k]["cell_id"].line = pos[k]
  <2>1. PICK off : DataOffsets(off, layout)
    BY <1>1, DataOffsetsExist
  <2> DEFINE line == Line(layout, states, numbers, pos[k])
             tokens == line.tokens
             v == Read("required_int", tokens, indices["cell_id"])
  <2>2. pos[k] \in 1 .. Cells /\ rows[k] = Values(schema, indices, line) /\ Converted(rows[k])
    BY <1>4 DEF RowsFrom
  <2>3. rows[k]["cell_id"] = v /\ v # Bad
    BY <1>5, <2>2 DEF Values, Converted
  <2>4. IsLine(tokens, layout, off, states[pos[k]], numbers[pos[k]], pos[k])
    BY <1>1, <2>1, <2>2, LineIs DEF Line
  <2>5. indices["cell_id"] \in Nat
    <3>1. RightlyIndexed(schema, layout, off, indices)
      BY <1>1, <2>1, IndicesAre
    <3>2. 1 \in 1 .. Len(layout) /\ layout[1].labels = <<"Battery">> /\ off[1 - 1] = 0
      BY <1>1, <2>1, BatShape DEF PlainLayout, DataOffsets, schema
    <3>3. indices["cell_id"] = off[1 - 1]
      BY <1>5, <3>1, <3>2 DEF RightlyIndexed
    <3> QED BY <3>2, <3>3
  <2> HIDE DEF tokens, line, indices
  <2>6. v.line = pos[k]
    BY <1>5, <2>3, <2>4, <2>5, RequiredInt, ReadAny
  <2> QED BY <2>3, <2>6
<1>8. DOMAIN rows = 1 .. Len(rows)
  BY <1>4 DEF RowsFrom
<1>9. RowLines(rows) = [k \in DOMAIN rows |-> pos[k]]
  BY <1>7, <1>8 DEF RowLines
<1> DEFINE S == {c \in 1 .. Cells : BatReadable(states[c])}
<1>10. S = {i \in 1 .. Cells : Kept(schema, indices, Line(layout, states, numbers, i))}
  BY <1>6
<1> HIDE DEF S, indices
<1>11. Lists(RowLines(rows), S)
  BY <1>1, <1>4, <1>9, <1>10, PositionsList
<1> QED BY <1>11 DEF S, rows

\* The two halves of the property.
StackSurvives ==
  pc \in Listed /\ listed # <<>> /\ Complete(PWR_TABLE_SCHEMA, firmware.pwr)
    => Lists(SysIds(batteries), {s \in 1 .. Slots : PwrReadable(listed[s])})

CellsSurvive(cells) ==
  cells.header /\ Complete(BAT_TABLE_SCHEMA, firmware.bat)
    => Lists(RowLines(cells.rows), {c \in 1 .. Cells : BatReadable(cells.from[c])})

LEMMA SurvivalByPart ==
  ReadableRowsSurvive
    <=> StackSurvives /\ \A i \in DOMAIN batteries : CellsSurvive(batteries[i].cells)
  BY DEF ReadableRowsSurvive, StackSurvives, CellsSurvive, RowLines, Listed

LEMMA CellsStepSurvives ==
  ASSUME PlainConsoles, TypedConsoles, TypeInv,
         \A i \in DOMAIN batteries : CellsSurvive(batteries[i].cells),
         NEW states \in [1 .. Cells -> firmware.batStates], NEW header \in BOOLEAN,
         NEW failing, FetchCells(states, header, failing)
  PROVE  /\ \A i \in DOMAIN batteries' : CellsSurvive(batteries'[i].cells)
         /\ SysIds(batteries') = SysIds(batteries)
<1>1. ASSUME NEW i \in DOMAIN batteries'
      PROVE  /\ i \in DOMAIN batteries /\ batteries'[i].sys_id = batteries[i].sys_id
             /\ \/ batteries'[i].cells = batteries[i].cells
                \/ /\ batteries'[i].cells.rows = BatRows(states, header, batteries[i].sys_id)
                   /\ batteries'[i].cells.from = states
                   /\ batteries'[i].cells.header = header
  BY FetchedCells DEF TypeInv
<1>2. ASSUME NEW i \in DOMAIN batteries' PROVE CellsSurvive(batteries'[i].cells)
  <2>1. CASE batteries'[i].cells = batteries[i].cells
    BY <1>1, <2>1
  <2>2. CASE /\ batteries'[i].cells.rows = BatRows(states, header, batteries[i].sys_id)
             /\ batteries'[i].cells.from = states
             /\ batteries'[i].cells.header = header
    <3>1. CASE header = FALSE
      BY <2>2, <3>1 DEF CellsSurvive
    <3>2. CASE header = TRUE
      <4>1. Complete(BAT_TABLE_SCHEMA, firmware.bat)
              => Lists(RowLines(BatRows(states, TRUE, batteries[i].sys_id)),
                       {c \in 1 .. Cells : BatReadable(states[c])})
        BY BatTableSurvives
      <4> QED BY <2>2, <3>2, <4>1 DEF CellsSurvive
    <3> QED BY <3>1, <3>2
  <2> QED BY <1>1, <2>1, <2>2
<1>3. DOMAIN batteries' = DOMAIN batteries
  BY DEF FetchCells
<1>4. SysIds(batteries') = SysIds(batteries)
  BY <1>1, <1>3 DEF SysIds
<1> QED BY <1>2, <1>4

LEMMA EnrichSurvives ==
  ASSUME TypeInv, \A i \in DOMAIN batteries : CellsSurvive(batteries[i].cells),
         NEW blocks, NEW failing, Enrich(blocks, failing)
  PROVE  /\ \A i \in DOMAIN batteries' : CellsSurvive(batteries'[i].cells)
         /\ SysIds(batteries') = SysIds(batteries)
<1>1. ASSUME NEW i \in DOMAIN batteries'
      PROVE  /\ i \in DOMAIN batteries
             /\ batteries'[i].cells = batteries[i].cells
             /\ batteries'[i].sys_id = batteries[i].sys_id
  <2>1. i \in DOMAIN batteries /\ DOMAIN batteries[i] = BatteryFields
    BY DEF Enrich, TypeInv, DataInv, Shape
  <2> DEFINE answer == parse_keyvalue(blocks[batteries[i].sys_id])
             detail == [k \in DetailKeys |-> IF k \in answer.fields THEN "now" ELSE "none"]
  <2>2. batteries'[i] = IF batteries[i].sys_id \in failing \/ ~answer.battery
                        THEN batteries[i]
                        ELSE [batteries[i] EXCEPT !.detail = detail]
    BY <2>1 DEF Enrich
  <2> HIDE DEF answer, detail
  <2> QED BY <2>1, <2>2 DEF BatteryFields
<1>2. \A i \in DOMAIN batteries' : CellsSurvive(batteries'[i].cells)
  BY <1>1
<1>3. DOMAIN batteries' = DOMAIN batteries
  BY DEF Enrich
<1>4. SysIds(batteries') = SysIds(batteries)
  BY <1>1, <1>3 DEF SysIds
<1> QED BY <1>2, <1>4

\* An object whose cells were never read.
LEMMA NoCellsSurvive ==
  ASSUME NEW b, b.cells.header = FALSE
  PROVE  CellsSurvive(b.cells)
  BY DEF CellsSurvive

LEMMA NewCellsSurvive ==
  /\ \A s, v : CellsSurvive(Battery(s, v).cells)
  /\ \A s, block : CellsSurvive(IndexedBattery(s, block).cells)
<1>1. \A s, v : Battery(s, v).cells.header = FALSE
  BY DEF Battery, NoCells
<1>2. \A s, block : IndexedBattery(s, block).cells.header = FALSE
  BY DEF IndexedBattery, Battery, NoCells
<1> QED BY <1>1, <1>2, NoCellsSurvive

LEMMA AgedCellsSurvive ==
  ASSUME TypeInv, StartPoll
  PROVE  \A i \in DOMAIN batteries' : CellsSurvive(batteries'[i].cells)
<1> SUFFICES ASSUME NEW i \in DOMAIN batteries' PROVE batteries'[i].cells.header = FALSE
  BY NoCellsSurvive
<1>1. i \in DOMAIN batteries /\ DOMAIN batteries[i] = BatteryFields
  BY DEF StartPoll, Aged, TypeInv, DataInv, Shape
<1>2. batteries'[i] =
        [batteries[i] EXCEPT !.age = Older(@), !.values = <<>>,
           !.cells = [NoCells EXCEPT !.age = Older(batteries[i].cells.age)],
           !.detail = [k \in DetailKeys |-> Older(@[k])]]
  BY <1>1 DEF StartPoll, Aged
<1>3. batteries'[i].cells = [NoCells EXCEPT !.age = Older(batteries[i].cells.age)]
  BY <1>1, <1>2 DEF BatteryFields
<1> QED BY <1>3 DEF NoCells

LEMMA NextKeepsRows ==
  PlainConsoles /\ TypedConsoles /\ TypeInv /\ ReadableRowsSurvive /\ [Next]_vars
    => ReadableRowsSurvive'
<1> SUFFICES ASSUME PlainConsoles, TypedConsoles, TypeInv, ReadableRowsSurvive, [Next]_vars
             PROVE  ReadableRowsSurvive'
  OBVIOUS
<1>1. console' = console
  BY DEF Next, vars, StartPoll, FetchInfo, FetchPwr, FetchPwrUnusable, FetchIndexed, Error,
         Enrich, FetchStat, FetchCells, ParseStat, Publish, Fail
<1>2. StackSurvives /\ \A i \in DOMAIN batteries : CellsSurvive(batteries[i].cells)
  BY SurvivalByPart
<1>3. ASSUME NEW bs, bs = batteries',
             pc' \in Listed /\ listed' # <<>> /\ Complete(PWR_TABLE_SCHEMA, firmware.pwr)
               => Lists(SysIds(bs), {s \in 1 .. Slots : PwrReadable(listed'[s])}),
             \A i \in DOMAIN bs : CellsSurvive(bs[i].cells)
      PROVE  ReadableRowsSurvive'
  BY <1>1, <1>3 DEF ReadableRowsSurvive, CellsSurvive, RowLines, Listed, firmware, PwrReadable,
                    BatReadable
<1>4. CASE StartPoll
  <2>1. pc' \notin Listed
    BY <1>4 DEF StartPoll, Listed
  <2> QED BY <1>3, <1>4, <2>1, AgedCellsSurvive
<1>5. CASE \E states \in [1 .. Slots -> firmware.pwrStates] : FetchPwr(states)
  <2>1. PICK states \in [1 .. Slots -> firmware.pwrStates] : FetchPwr(states)
    BY <1>5
  <2>2. listed' = states
    BY <2>1 DEF FetchPwr
  <2>3. Complete(PWR_TABLE_SCHEMA, firmware.pwr)
          => Lists(SysIds(batteries'), {s \in 1 .. Slots : PwrReadable(listed'[s])})
    BY <2>1, <2>2, FetchPwrSurvives
  <2>4. \A i \in DOMAIN batteries' : CellsSurvive(batteries'[i].cells)
    BY <2>1, NewCellsSurvive DEF FetchPwr, BuildBatteries
  <2> QED BY <1>3, <2>3, <2>4
<1>6. CASE \E blocks \in [1 .. Slots -> Blocks] : FetchIndexed(blocks)
  <2>1. PICK blocks : FetchIndexed(blocks)
    BY <1>6
  <2>2. pc' \notin Listed \/ listed' = <<>>
    BY <2>1 DEF FetchIndexed, Error, Listed
  <2>3. \A i \in DOMAIN batteries' : CellsSurvive(batteries'[i].cells)
    BY <2>1, NewCellsSurvive DEF FetchIndexed
  <2> QED BY <1>3, <2>2, <2>3
<1>7. CASE \E blocks \in [1 .. Slots -> Blocks], failing \in SUBSET (1 .. Slots) :
             Enrich(blocks, failing)
  <2>1. PICK blocks, failing : Enrich(blocks, failing)
    BY <1>7
  <2>2. pc \in Listed /\ listed' = listed
    BY <2>1 DEF Enrich, Listed
  <2>3. /\ \A i \in DOMAIN batteries' : CellsSurvive(batteries'[i].cells)
        /\ SysIds(batteries') = SysIds(batteries)
    BY <1>2, <2>1, EnrichSurvives
  <2> QED BY <1>2, <1>3, <2>2, <2>3 DEF StackSurvives
<1>8. CASE \E states \in [1 .. Cells -> firmware.batStates], header \in BOOLEAN,
              failing \in SUBSET (1 .. Slots) : FetchCells(states, header, failing)
  <2>1. PICK states \in [1 .. Cells -> firmware.batStates], header \in BOOLEAN,
             failing \in SUBSET (1 .. Slots) : FetchCells(states, header, failing)
    BY <1>8
  <2>2. pc \in Listed /\ listed' = listed
    BY <2>1 DEF FetchCells, Listed
  <2>3. /\ \A i \in DOMAIN batteries' : CellsSurvive(batteries'[i].cells)
        /\ SysIds(batteries') = SysIds(batteries)
    BY <1>2, <2>1, CellsStepSurvives
  <2> QED BY <1>2, <1>3, <2>2, <2>3 DEF StackSurvives
<1>9. CASE \/ \E reported \in SUBSET InfoKeys : FetchInfo(reported)
           \/ FetchPwrUnusable \/ FetchStat \/ Publish \/ Fail
           \/ \E counters, stamp \in BOOLEAN : ParseStat(counters, stamp)
           \/ UNCHANGED vars
  <2>1. /\ batteries' = batteries
        /\ pc' \in Listed => pc \in Listed /\ listed' = listed
    <3> USE DEF Listed
    <3>1. CASE \E reported \in SUBSET InfoKeys : FetchInfo(reported)
      BY <3>1 DEF FetchInfo
    <3>2. CASE FetchPwrUnusable
      BY <3>2 DEF FetchPwrUnusable, system
    <3>3. CASE FetchStat
      BY <3>3 DEF FetchStat, system
    <3>4. CASE Publish
      BY <3>4 DEF Publish, system
    <3>5. CASE Fail
      BY <3>5 DEF Fail, Error
    <3>6. CASE \E counters, stamp \in BOOLEAN : ParseStat(counters, stamp)
      BY <3>6 DEF ParseStat
    <3>7. CASE UNCHANGED vars
      BY <3>7 DEF vars, system
    <3> QED BY <1>9, <3>1, <3>2, <3>3, <3>4, <3>5, <3>6, <3>7
  <2>3. pc' \in Listed /\ listed' # <<>> /\ Complete(PWR_TABLE_SCHEMA, firmware.pwr)
          => Lists(SysIds(batteries), {s \in 1 .. Slots : PwrReadable(listed'[s])})
    BY <1>2, <2>1 DEF StackSurvives
  <2> QED BY <1>2, <1>3, <2>1, <2>3
<1> QED BY <1>4, <1>5, <1>6, <1>7, <1>8, <1>9 DEF Next

(***************************************************************************)
(* On every console whose layouts are plain and whose columns hold what    *)
(* the schema's transforms take, a table that has every column yields      *)
(* exactly the lines a person can read, in order, whatever else the table  *)
(* holds (parse_table, _bat_header_postprocess).                           *)
(***************************************************************************)
THEOREM RowsSurvive ==
  PlainConsoles /\ TypedConsoles => (Spec => []ReadableRowsSurvive)
<1> SUFFICES ASSUME PlainConsoles, TypedConsoles PROVE Spec => []ReadableRowsSurvive
  OBVIOUS
<1>1. Init => ReadableRowsSurvive
  BY DEF Init, ReadableRowsSurvive
<1>2. TypeInv /\ ReadableRowsSurvive /\ [Next]_vars => ReadableRowsSurvive'
  BY NextKeepsRows
<1> QED BY <1>1, <1>2, TypesAreKept, PTL DEF Spec
=============================================================================
