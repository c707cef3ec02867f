------------------------------ MODULE Readings ------------------------------
(***************************************************************************)
(* The data of the sidecar's poll loop (main, src/src/main.py): the one    *)
(* PylontechSystem object the loop fills poll after poll, from replies     *)
(* parsed by the operators of ConsoleTables.  What PollLoop abstracts to   *)
(* "usable" is what a reply holds here, and its signals, sessions and      *)
(* retries are left to that module: any command may fail.                  *)
(*                                                                         *)
(* Values are kept as their provenance: "now" is what this poll read, "old"*)
(* what an earlier poll left in the object, "none" what nobody set.        *)
(***************************************************************************)
EXTENDS ConsoleTables

CONSTANTS
  Consoles,    \* a sequence of consoles: pwr and bat, their layouts; pwrStates and
               \* batStates, what can become of a line; level, MONITORING_LEVEL
  Slots,       \* the number of slots of the stack, at most MAX_BATTERIES
  Cells,       \* the cells of a battery
  Blocks,      \* the blocks 'pwr N' can answer
  InfoKeys     \* the fields 'info' reports

(***************************************************************************)
(* A layout is the sequence of the console's own columns: the labels it    *)
(* prints, or none (shown), the tokens each line has for it and their kind.*)
(* What follows the first token of a column is a word: an hour, the unit   *)
(* mAH.  The condition of a line: empty slot, tokens kept before it breaks *)
(* off, columns printed as a dash or garbled into a word.                  *)
(***************************************************************************)
HeaderOf(layout) ==
  FlattenSeq([i \in DOMAIN layout |->
                IF layout[i].shown THEN layout[i].labels ELSE <<>>])

KindIn(column, state) ==
  CASE column.labels \in state.dash -> "dash"
    [] column.labels \in state.junk -> "word"
    [] OTHER -> column.kind

LineOf(layout, state, battery, line) ==
  LET Tokens(c) == [k \in 1 .. c.tokens |->
                      [is |-> IF k = 1 THEN KindIn(c, state) ELSE "word",
                       of |-> c.labels, nth |-> k,
                       battery |-> battery, line |-> line]]
      whole == FlattenSeq([i \in DOMAIN layout |-> Tokens(layout[i])])
  IN  [tokens |-> SubSeq(whole, 1, IF state.keep < Len(whole) THEN state.keep
                                   ELSE Len(whole)),
       absent |-> state.absent]

\* The table of a console whose lines are in the given states and are about the
\* given batteries.
TextOf(layout, header, states, numbers) ==
  [header |-> IF header THEN HeaderOf(layout) ELSE <<>>,
   lines  |-> [i \in DOMAIN states |->
                 LineOf(layout, states[i], numbers[i], i)]]

Column == [labels : Seq(STRING), kind : Kinds, tokens : Nat, shown : BOOLEAN]

ASSUME ConsolesAssumption ==
  /\ Slots \in Nat /\ Cells \in Nat
  /\ \A n \in DOMAIN Consoles :
       /\ Consoles[n].pwr \in Seq(Column) /\ Consoles[n].bat \in Seq(Column)
       /\ \A state \in Consoles[n].pwrStates \cup Consoles[n].batStates :
            state.keep \in Nat

VARIABLES
  console,       \* which of Consoles, chosen once
  pc,            \* the command the loop is at
  info_fetched,  \* info_fetched
  batteries,     \* system.batteries
  totals,        \* system.voltage, current, soc and power: what they are over
  info,          \* the fields of 'info' the system object has
  stat,          \* the counters of 'stat'
  bms_time,      \* system.bms_time
  listed         \* history: the 'pwr' table the batteries were read from

system == <<batteries, totals, info, stat, bms_time>>
vars   == <<console, pc, info_fetched, system, listed>>

Ages == {"none", "old", "now"}

NoDetail == [k \in DetailKeys |-> "none"]
NoCells  == [rows |-> <<>>, from |-> <<>>, header |-> FALSE, age |-> "none"]

Battery(sys_id, values) ==
  [sys_id |-> sys_id, values |-> values, age |-> "now",
   detail |-> NoDetail, cells |-> NoCells]

SysIds(bs) == [i \in DOMAIN bs |-> bs[i].sys_id]

firmware == Consoles[console]

TypeOK ==
  /\ console \in DOMAIN Consoles
  /\ pc \in {"start", "info", "pwr", "probe", "detail", "stat", "cells",
             "parse", "publish"}
  /\ info_fetched \in BOOLEAN
  /\ \A i \in DOMAIN batteries :
       /\ batteries[i].sys_id \in 1 .. Slots
       /\ batteries[i].age \in {"old", "now"}
       /\ batteries[i].detail \in [DetailKeys -> Ages]
       /\ batteries[i].cells.age \in Ages
  /\ Len(batteries) <= Slots
  /\ totals.over \in Seq(1 .. Slots) /\ totals.age \in Ages
  /\ info \subseteq InfoKeys
  /\ stat \in Ages /\ bms_time \in Ages

-----------------------------------------------------------------------------

Init ==
  /\ console \in DOMAIN Consoles
  /\ pc = "start" /\ info_fetched = FALSE
  /\ batteries = <<>> /\ totals = [over |-> <<>>, age |-> "none"]
  /\ info = {} /\ stat = "none" /\ bms_time = "none"
  /\ listed = <<>>

Older(age) == IF age = "now" THEN "old" ELSE age

\* What an earlier poll read is kept as its age only.
Aged(bs) ==
  [i \in DOMAIN bs |->
     [bs[i] EXCEPT !.age = Older(@), !.values = <<>>,
                   !.cells = [NoCells EXCEPT !.age = Older(bs[i].cells.age)],
                   !.detail = [k \in DetailKeys |-> Older(@[k])]]]

\* The top of the loop; what the object holds is now of an earlier poll.
StartPoll ==
  /\ pc = "start"
  /\ pc' = IF info_fetched THEN "pwr" ELSE "info"
  /\ batteries' = Aged(batteries)
  /\ totals' = [totals EXCEPT !.age = Older(@)]
  /\ stat' = Older(stat) /\ bms_time' = Older(bms_time)
  /\ listed' = <<>>
  /\ UNCHANGED <<console, info_fetched, info>>

\* parse_loose_keys: what is not reported, or does not convert, keeps its value.
FetchInfo(reported) ==
  /\ pc = "info"
  /\ info' = info \cup reported
  /\ info_fetched' = TRUE
  /\ pc' = "pwr"
  /\ UNCHANGED <<console, batteries, totals, stat, bms_time, listed>>

\* A fault variant: the averages of no battery are left as they are.
AggregateNonEmpty(bs) ==
  IF bs = <<>> THEN totals ELSE [over |-> SysIds(bs), age |-> "now"]

_aggregate_pwr(bs) == [over |-> SysIds(bs), age |-> "now"]

\* A fault variant: a battery already known keeps its object.
KeepBatteries(rows) ==
  [i \in DOMAIN rows |->
     IF i \in DOMAIN batteries /\ batteries[i].sys_id = rows[i].sys_id.battery
     THEN [batteries[i] EXCEPT !.values = rows[i], !.age = "now"]
     ELSE Battery(rows[i].sys_id.battery, rows[i])]

\* A fault variant: batteries are numbered by their row.
NumberBatteries(rows) == [i \in DOMAIN rows |-> Battery(i - 1, rows[i])]

\* row_factory: sys_id is what the first column says.
BuildBatteries(rows) ==
  [i \in DOMAIN rows |-> Battery(rows[i].sys_id.battery, rows[i])]

AfterPwr(bs) ==
  CASE bs = <<>> -> "probe"
    [] bs # <<>> /\ firmware.level = "low" -> "stat"
    [] OTHER -> "detail"

FetchPwr(states) ==
  LET rows == parse_table(PWR_TABLE_SCHEMA,
                          TextOf(firmware.pwr, TRUE, states, [i \in DOMAIN states |-> i]))
  IN  /\ pc = "pwr"
      /\ has_header(PWR_TABLE_SCHEMA, HeaderOf(firmware.pwr))
      /\ batteries' = BuildBatteries(rows)
      /\ totals' = _aggregate_pwr(batteries')
      /\ listed' = states
      /\ pc' = AfterPwr(batteries')
      /\ UNCHANGED <<console, info_fetched, info, stat, bms_time>>

\* No header, not even after the retry: nothing is parsed.
FetchPwrUnusable ==
  /\ pc = "pwr"
  /\ pc' = "probe"
  /\ UNCHANGED <<console, info_fetched, system, listed>>

Error ==
  /\ pc' = "start" /\ info_fetched' = FALSE
  /\ UNCHANGED <<console, info, stat, bms_time, listed>>

\* _fetch_batteries_indexed: slots up to the first the console does not know.
PresentSlots(blocks) ==
  Selected([s \in 1 .. Slots |-> s],
           {s \in 1 .. Slots : /\ \A t \in 1 .. s : blocks[t].known
                               /\ parse_keyvalue(blocks[s]).battery})

IndexedBattery(slot, block) ==
  [Battery(slot, <<>>) EXCEPT !.detail =
     [k \in DetailKeys |-> IF k \in parse_keyvalue(block).fields THEN "now"
                           ELSE "none"]]

FetchIndexed(blocks) ==
  /\ pc = "probe"
  /\ batteries' = [i \in DOMAIN PresentSlots(blocks) |->
                     IndexedBattery(PresentSlots(blocks)[i],
                                    blocks[PresentSlots(blocks)[i]])]
  /\ totals' = _aggregate_pwr(batteries')
  /\ IF batteries' = <<>> THEN Error
     ELSE /\ pc' = "stat" /\ listed' = <<>>
          /\ UNCHANGED <<console, info_fetched, info, stat, bms_time>>

\* _enrich_batteries_indexed: a battery whose query fails is left as it is.
Enrich(blocks, failing) ==
  /\ pc = "detail"
  /\ batteries' =
       [i \in DOMAIN batteries |->
          LET answer == parse_keyvalue(blocks[batteries[i].sys_id])
          IN  IF batteries[i].sys_id \in failing \/ ~answer.battery
              THEN batteries[i]
              ELSE [batteries[i] EXCEPT !.detail =
                      [k \in DetailKeys |-> IF k \in answer.fields THEN "now"
                                            ELSE "none"]]]
  /\ pc' = "stat"
  /\ UNCHANGED <<console, info_fetched, totals, info, stat, bms_time, listed>>

\* 'stat' and 'time' are asked here and parsed once the cells have been read.
FetchStat ==
  /\ pc = "stat"
  /\ pc' = IF firmware.level = "high" THEN "cells" ELSE "parse"
  /\ UNCHANGED <<console, info_fetched, system, listed>>

\* 'bat N' for every battery; one whose query fails keeps the cells it has.
FetchCells(states, header, failing) ==
  LET Rows(b) == parse_table(BAT_TABLE_SCHEMA,
                             TextOf(firmware.bat, header, states, [i \in DOMAIN states |-> b]))
  IN  /\ pc = "cells"
      /\ batteries' =
           [i \in DOMAIN batteries |->
              IF batteries[i].sys_id \in failing THEN batteries[i]
              ELSE [batteries[i] EXCEPT !.cells =
                      [rows |-> Rows(batteries[i].sys_id), from |-> states,
                       header |-> header, age |-> "now"]]]
      /\ pc' = "parse"
      /\ UNCHANGED <<console, info_fetched, totals, info, stat, bms_time, listed>>

\* always_set: a missing counter is None.
StatRead(found) == IF found THEN "now" ELSE "none"

\* A missing stamp leaves the one an earlier poll read.
TimeRead(found) == IF found THEN "now" ELSE bms_time

ParseStat(counters, stamp) ==
  /\ pc = "parse"
  /\ stat' = StatRead(counters)
  /\ bms_time' = TimeRead(stamp)
  /\ pc' = "publish"
  /\ UNCHANGED <<console, info_fetched, batteries, totals, info, listed>>

\* The payload is the object as it is.
Publish ==
  /\ pc = "publish"
  /\ pc' = "start"
  /\ UNCHANGED <<console, info_fetched, system, listed>>

\* A command fails: both handlers start the next poll from 'info'.
Fail ==
  /\ pc \in {"info", "pwr", "probe", "stat"}
  /\ Error
  /\ UNCHANGED <<batteries, totals>>

-----------------------------------------------------------------------------

Next ==
  \/ StartPoll
  \/ \E reported \in SUBSET InfoKeys : FetchInfo(reported)
  \/ \E states \in [1 .. Slots -> firmware.pwrStates] : FetchPwr(states)
  \/ FetchPwrUnusable
  \/ \E blocks \in [1 .. Slots -> Blocks] : FetchIndexed(blocks)
  \/ \E blocks \in [1 .. Slots -> Blocks], failing \in SUBSET (1 .. Slots) :
       Enrich(blocks, failing)
  \/ FetchStat
  \/ \E states \in [1 .. Cells -> firmware.batStates], header \in BOOLEAN,
        failing \in SUBSET (1 .. Slots) : FetchCells(states, header, failing)
  \/ \E counters, stamp \in BOOLEAN : ParseStat(counters, stamp)
  \/ Publish
  \/ Fail

Spec == Init /\ [][Next]_vars

-----------------------------------------------------------------------------

Labels(schema, field) == schema.column[field].labels

Shown(layout)  == {c.labels : c \in {d \in ToSet(layout) : d.shown}}
Printed(layout) == {c.labels : c \in ToSet(layout)}

Own(values, schema, field, battery) ==
  \/ values[field] = None
  \/ /\ values[field].of = Labels(schema, field) /\ values[field].nth = 1
     /\ values[field].battery = battery

(***************************************************************************)
(* Wherever the firmware prints a column, and whatever it inserts, moves   *)
(* or leaves out, a field never holds what another column, another battery *)
(* or a unit says (_resolve_indices, _bat_header_postprocess).  A column   *)
(* the console does not have is excepted: its default index is read.  So is*)
(* a 'bat' table that moves Coulomb from its end: see PlainColumn.         *)
(***************************************************************************)
ColumnsAreOwn ==
  LET shown   == Shown(firmware.pwr)
      printed == Printed(firmware.bat)
  IN  \A i \in DOMAIN batteries :
        LET b == batteries[i]
        IN  /\ b.values # <<>> =>
                 \A f \in Fields(PWR_TABLE_SCHEMA) :
                   Labels(PWR_TABLE_SCHEMA, f) \in shown
                     => Own(b.values, PWR_TABLE_SCHEMA, f, b.sys_id)
            /\ b.cells.header =>
                 \A k \in DOMAIN b.cells.rows, f \in Fields(BAT_TABLE_SCHEMA) :
                   Labels(BAT_TABLE_SCHEMA, f) \in printed
                     => Own(b.cells.rows[k], BAT_TABLE_SCHEMA, f, b.sys_id)

(***************************************************************************)
(* What a person would read of a line: what the reading cannot do without  *)
(* is there, the numbers are numbers, and the limits numbers or a dash.    *)
(***************************************************************************)
Readable(line, required, numbers, limits) ==
  LET tokens == {t \in ToSet(line.tokens) : t.nth = 1}
  IN  /\ \A labels \in required : \E t \in tokens : t.of = labels
      /\ \A t \in tokens : /\ t.of \in numbers => t.is \notin {"word", "dash"}
                           /\ t.of \in limits => t.is # "word"

PwrNumbers == {<<"Power">>, <<"Volt">>, <<"Curr">>, <<"Tempr">>, <<"Coulomb">>}
PwrLimits  == {<<"Tlow">>, <<"Thigh">>, <<"Vlow">>, <<"Vhigh">>}
BatNumbers == {<<"Battery">>, <<"Volt">>, <<"Curr">>, <<"Tempr">>, <<"SOC">>}

\* A slot without a module says so.
PwrReadable(state) ==
  /\ ~state.absent
  /\ Readable(LineOf(firmware.pwr, state, 0, 0), PwrNumbers \cup {<<"Base.St">>},
              PwrNumbers, PwrLimits)

BatReadable(state) ==
  Readable(LineOf(firmware.bat, state, 0, 0), BatNumbers \cup {<<"Base", "State">>},
           BatNumbers \cup {<<"Coulomb">>}, {})

Complete(schema, layout) ==
  {Labels(schema, f) : f \in Fields(schema)} \subseteq Printed(layout)

(***************************************************************************)
(* What the theorems assume of a layout: it starts with the schema's first *)
(* column; a column is one of the schema, as wide as it says, or one word  *)
(* of data under one label the schema does not know; no label is printed   *)
(* twice; and every column has its label, except an SOC just before the    *)
(* Coulomb that ends the line.                                             *)
(*                                                                         *)
(* The column that ends the line may be wider than the schema says.  That  *)
(* of 'bat' is: Coulomb prints "42586 mAH" where the schema counts one     *)
(* token, so a firmware that moved it, or printed a column after it, would *)
(* have every field behind it read one token too early.                    *)
(***************************************************************************)
PlainColumn(schema, column, last) ==
  \/ \E c \in ToSet(schema.columns) :
       /\ column.labels = c.labels
       /\ column.tokens = c.width \/ (last /\ column.tokens > c.width)
  \/ /\ Len(column.labels) = 1 /\ column.tokens = 1
     /\ \A c \in ToSet(schema.columns) : c.labels[1] # column.labels[1]

Unlabelled(schema, layout, i) ==
  /\ schema.shiftWithout # NoName /\ layout[i].labels = <<schema.shiftWithout>>
  /\ i = Len(layout) - 1 /\ layout[Len(layout)].labels = <<"Coulomb">>

PlainLayout(schema, layout) ==
  /\ layout # <<>> /\ layout[1].labels = <<schema.first>>
  /\ \A i \in DOMAIN layout : /\ PlainColumn(schema, layout[i], i = Len(layout))
                              /\ layout[i].shown \/ Unlabelled(schema, layout, i)
  /\ \A i, j \in DOMAIN layout : layout[i].labels = layout[j].labels => i = j
  /\ schema.shiftWithout # NoName => <<schema.shiftWithout>> \in Printed(layout)

PlainConsoles ==
  \A n \in DOMAIN Consoles :
    /\ PlainLayout(PWR_TABLE_SCHEMA, Consoles[n].pwr)
    /\ PlainLayout(BAT_TABLE_SCHEMA, Consoles[n].bat)
    /\ has_header(BAT_TABLE_SCHEMA, HeaderOf(Consoles[n].bat))

(***************************************************************************)
(* And for a row to be what a person reads: the columns of the schema hold *)
(* what its transforms take, and one that no row can do without comes      *)
(* after the ten tokens a row of 'pwr' must exceed.                        *)
(***************************************************************************)
TypedLayout(schema, layout) ==
  \A c \in ToSet(layout), f \in Fields(schema) :
    c.labels = Labels(schema, f) => c.kind \in Transforms[schema.column[f].transform].takes

TypedConsoles ==
  \A n \in DOMAIN Consoles :
    /\ TypedLayout(PWR_TABLE_SCHEMA, Consoles[n].pwr)
    /\ TypedLayout(BAT_TABLE_SCHEMA, Consoles[n].bat)
    /\ \E i \in DOMAIN Consoles[n].pwr :
         i > PWR_TABLE_SCHEMA.longer /\ Consoles[n].pwr[i].labels \in PwrNumbers

\* The members of a set of numbers, in order.
Lists(seq, S) ==
  /\ ToSet(seq) = S
  /\ \A i, j \in DOMAIN seq : i < j => seq[i] < seq[j]

(***************************************************************************)
(* A table that has every column yields exactly its readable lines, in     *)
(* order: a garbled, broken or absent line costs no other line, and the    *)
(* label a firmware omits costs none (parse_table).                        *)
(***************************************************************************)
ReadableRowsSurvive ==
  /\ /\ pc \in {"detail", "stat", "cells", "parse", "publish"}
     /\ listed # <<>>
     /\ Complete(PWR_TABLE_SCHEMA, firmware.pwr)
     => Lists(SysIds(batteries), {s \in 1 .. Slots : PwrReadable(listed[s])})
  /\ \A i \in DOMAIN batteries :
       LET cells == batteries[i].cells
       IN  cells.header /\ Complete(BAT_TABLE_SCHEMA, firmware.bat)
             => Lists([k \in DOMAIN cells.rows |-> cells.rows[k]["cell_id"].line],
                      {c \in 1 .. Cells : BatReadable(cells.from[c])})

(***************************************************************************)
(* The totals are those of the batteries listed beside them at every       *)
(* moment, a table without a usable row and a fallback that finds nothing  *)
(* included (_aggregate_pwr, _fetch_batteries_indexed).                    *)
(***************************************************************************)
TotalsMatchBatteries ==
  /\ totals.over = SysIds(batteries)
  /\ \A i \in DOMAIN batteries : batteries[i].age = totals.age

(***************************************************************************)
(* Of an object that lives as long as the process, what is published was   *)
(* read in this poll or is absent: batteries, totals, the detail and cells *)
(* of a battery whose own query failed, counters a reply does not show.    *)
(* The device info and the console's clock are kept on purpose.            *)
(***************************************************************************)
PublishedIsOfThisPoll ==
  pc = "publish" =>
    /\ batteries # <<>> /\ totals.age = "now" /\ stat # "old"
    /\ \A i \in DOMAIN batteries :
         /\ batteries[i].age = "now" /\ batteries[i].cells.age # "old"
         /\ \A k \in DetailKeys : batteries[i].detail[k] # "old"

(***************************************************************************)
(* Through failures, reconnections and replies that lack them, what is     *)
(* known of the device and its clock is never forgotten (parse_loose_keys, *)
(* always_set = False).                                                    *)
(***************************************************************************)
KnownIsKept ==
  [][info \subseteq info' /\ (bms_time # "none" => bms_time' # "none")]_vars
=============================================================================
