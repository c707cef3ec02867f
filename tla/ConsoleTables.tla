--------------------------- MODULE ConsoleTables ---------------------------
(***************************************************************************)
(* The parsing engine of the sidecar (src/src/parser.py) with the two      *)
(* table schemas and the key:value schema of src/src/parser_schema.py, as  *)
(* operators: how a header line places the columns, which lines are rows,  *)
(* what each column takes from a row and what drops the row.               *)
(*                                                                         *)
(* A token of a row is kept as what kind of text it is and where it comes  *)
(* from: the labels of the console's column, the battery and the line.     *)
(* Labels stand for themselves up to the case the code folds.              *)
(***************************************************************************)
EXTENDS Integers, Sequences, SequencesExt

Kinds == {"int", "percent", "word", "dash"}

None == [is |-> "none"]
Bad  == [is |-> "bad"]     \* the transform raises: the row is dropped

(***************************************************************************)
(* The cell transforms, as the kinds of token they convert and those they  *)
(* turn into None; anything else raises.  percent_int_or_zero's 0 for a    *)
(* missing token is None here.                                             *)
(***************************************************************************)
Transforms == [
  required_int           |-> [takes |-> {"int"},             none |-> {}],
  required_milli         |-> [takes |-> {"int"},             none |-> {}],
  required_percent_int   |-> [takes |-> {"int", "percent"},  none |-> {}],
  required_str           |-> [takes |-> Kinds,               none |-> {}],
  optional_milli         |-> [takes |-> {"int"},             none |-> {"missing", "dash"}],
  optional_status        |-> [takes |-> Kinds \ {"dash"},    none |-> {"missing", "dash"}],
  optional_str_by_bounds |-> [takes |-> Kinds,               none |-> {"missing"}],
  optional_int_by_bounds |-> [takes |-> {"int"},             none |-> {"missing"}],
  percent_int_or_zero    |-> [takes |-> {"int", "percent"},  none |-> {"missing"}]]

\* Data indices count from 0, as in the code.
Read(transform, row, index) ==
  LET kind == IF index < Len(row) THEN row[index + 1].is ELSE "missing"
  IN  CASE kind \in Transforms[transform].takes -> row[index + 1]
        [] kind \in Transforms[transform].none  -> None
        [] OTHER                                -> Bad

\* A field or a label that is None.
NoName == "None"

ColumnSpec(labels, field, default, transform) ==
  [labels |-> labels, width |-> 1, field |-> field, default |-> default,
   transform |-> transform]

\* "Time": two data tokens, no field.
Unread(labels, width) ==
  [labels |-> labels, width |-> width, field |-> NoName, default |-> 0,
   transform |-> "required_str"]

PWR_COLUMNS == <<
  ColumnSpec(<<"Power">>,   "sys_id",           0,  "required_int"),
  ColumnSpec(<<"Volt">>,    "voltage",          1,  "required_milli"),
  ColumnSpec(<<"Curr">>,    "current",          2,  "required_milli"),
  ColumnSpec(<<"Tempr">>,   "temperature",      3,  "required_milli"),
  ColumnSpec(<<"Tlow">>,    "temp_low",         4,  "optional_milli"),
  ColumnSpec(<<"Thigh">>,   "temp_high",        5,  "optional_milli"),
  ColumnSpec(<<"Vlow">>,    "volt_low",         6,  "optional_milli"),
  ColumnSpec(<<"Vhigh">>,   "volt_high",        7,  "optional_milli"),
  ColumnSpec(<<"Base.St">>, "status",           8,  "required_str"),
  ColumnSpec(<<"Volt.St">>, "volt_status",      9,  "optional_status"),
  ColumnSpec(<<"Curr.St">>, "curr_status",      10, "optional_status"),
  ColumnSpec(<<"Temp.St">>, "temp_status",      11, "optional_status"),
  ColumnSpec(<<"Coulomb">>, "soc",              12, "required_percent_int"),
  Unread(<<"Time">>, 2),
  ColumnSpec(<<"B.V.St">>,  "batt_volt_status", 15, "optional_status"),
  ColumnSpec(<<"B.T.St">>,  "batt_temp_status", 16, "optional_status")>>

BAT_COLUMNS == <<
  ColumnSpec(<<"Battery">>,        "cell_id",     0, "required_int"),
  ColumnSpec(<<"Volt">>,           "voltage",     1, "required_milli"),
  ColumnSpec(<<"Curr">>,           "current",     2, "required_milli"),
  ColumnSpec(<<"Tempr">>,          "temperature", 3, "required_milli"),
  ColumnSpec(<<"Base", "State">>,  "base_state",  4, "required_str"),
  ColumnSpec(<<"Volt.", "State">>, "volt_status", 5, "optional_str_by_bounds"),
  ColumnSpec(<<"Curr.", "State">>, "curr_status", 6, "optional_str_by_bounds"),
  ColumnSpec(<<"Temp.", "State">>, "temp_status", 7, "optional_str_by_bounds"),
  ColumnSpec(<<"SOC">>,            "soc",         8, "percent_int_or_zero"),
  ColumnSpec(<<"Coulomb">>,        "capacity",    9, "optional_int_by_bounds")>>

Named(columns) == {c \in ToSet(columns) : c.field # NoName}

ByField(columns) ==
  [f \in {c.field : c \in Named(columns)} |->
     CHOOSE c \in Named(columns) : c.field = f]

PWR_TABLE_SCHEMA == [
  first |-> "Power", must |-> "Coulomb", longer |-> 10, skipAbsent |-> TRUE,
  minField |-> NoName, shiftWithout |-> NoName,
  columns |-> PWR_COLUMNS, column |-> ByField(PWR_COLUMNS)]

BAT_TABLE_SCHEMA == [
  first |-> "Battery", must |-> "Coulomb", longer |-> 0, skipAbsent |-> FALSE,
  minField |-> "soc", shiftWithout |-> "SOC",
  columns |-> BAT_COLUMNS, column |-> ByField(BAT_COLUMNS)]

Fields(schema) == DOMAIN schema.column

-----------------------------------------------------------------------------

\* A loop over items that appends those at the kept positions, in order.
Selected(items, kept) ==
  LET upTo[i \in 0 .. Len(items)] ==
        IF i = 0 THEN <<>>
        ELSE IF i \in kept THEN Append(upTo[i - 1], items[i]) ELSE upTo[i - 1]
  IN  upTo[Len(items)]

(***************************************************************************)
(* parse_table.  A text is the header line (empty when there is none) and  *)
(* the other lines, each its tokens and whether it says "Absent".          *)
(***************************************************************************)

has_header(schema, header) ==
  /\ header # <<>>
  /\ Head(header) = schema.first
  /\ schema.must \in ToSet(header)

\* The columns whose labels start at position i of the header.
MatchesAt(schema, header, i) ==
  {c \in ToSet(schema.columns) :
     /\ i + Len(c.labels) - 1 <= Len(header)
     /\ SubSeq(header, i, i + Len(c.labels) - 1) = c.labels}

Longest(columns) ==
  CHOOSE c \in columns : \A other \in columns : Len(other.labels) <= Len(c.labels)

\* One turn of the walk over the header; unknown is the data width of a label
\* the schema does not know.
Walk(schema, header, state, i, unknown) ==
  LET matches == MatchesAt(schema, header, i)
      column  == Longest(matches)
  IN  CASE state.skip > 0 -> [state EXCEPT !.skip = @ - 1]
        [] state.skip = 0 /\ matches = {} -> [state EXCEPT !.data = @ + unknown]
        [] OTHER -> [skip |-> Len(column.labels) - 1,
                     data |-> state.data + column.width,
                     indices |-> IF column.field = NoName THEN state.indices
                                 ELSE [state.indices EXCEPT
                                         ![column.field] = state.data]]

\* A fault variant: a label the schema does not know takes no data token.
PlaceKnownOnly(schema, header, state, i) == Walk(schema, header, state, i, 0)

Place(schema, header, state, i) == Walk(schema, header, state, i, 1)

\* A fault variant: the omitted SOC label is overlooked.
Unshifted(schema, indices, header) == indices

\* _bat_header_postprocess: a firmware that omits the SOC label but not its data.
Shifted(schema, indices, header) ==
  IF schema.shiftWithout = NoName \/ schema.shiftWithout \in ToSet(header)
  THEN indices
  ELSE [indices EXCEPT !["soc"] = indices["capacity"], !["capacity"] = @ + 1]

\* A column the header does not list keeps the index it has.  (The code collects
\* the others apart and then updates the defaults; a header it takes for one has
\* the label of the capacity, which Shifted reads.)
_resolve_indices(schema, header, defaults) ==
  LET walk[i \in 0 .. Len(header)] ==
        IF i = 0 THEN [skip |-> 0, data |-> 0, indices |-> defaults]
        ELSE Place(schema, header, walk[i - 1], i)
  IN  Shifted(schema, walk[Len(header)].indices, header)

Indices(schema, header) ==
  LET defaults == [f \in Fields(schema) |-> schema.column[f].default]
  IN  IF has_header(schema, header)
      THEN _resolve_indices(schema, header, defaults)
      ELSE defaults

IsRow(schema, indices, line) ==
  /\ Len(line.tokens) > schema.longer
  /\ Head(line.tokens).is = "int"
  /\ ~(schema.skipAbsent /\ line.absent)
  /\ schema.minField # NoName => Len(line.tokens) > indices[schema.minField]

Values(schema, indices, line) ==
  [f \in Fields(schema) |->
     Read(schema.column[f].transform, line.tokens, indices[f])]

\* No transform refused a token.
Converted(values) == \A f \in DOMAIN values : values[f] # Bad

\* Every row that no transform refuses, in order; a refused row is only logged.
parse_table(schema, text) ==
  LET indices == Indices(schema, text.header)
      read    == [i \in DOMAIN text.lines |-> Values(schema, indices, text.lines[i])]
  IN  Selected(read, {i \in DOMAIN read : /\ IsRow(schema, indices, text.lines[i])
                                         /\ Converted(read[i])})

-----------------------------------------------------------------------------
(***************************************************************************)
(* parse_keyvalue with PWR_INDEXED_SCHEMA.  A block is whether the console *)
(* knows the slot, whether the slot is empty and the fields whose line is  *)
(* missing or does not convert.                                            *)
(***************************************************************************)

RequiredKeys == {"voltage", "current", "temperature", "soc"}
DetailKeys   == {"coul_status", "bat_events", "power_events", "sys_fault"}
IndexedKeys  == RequiredKeys \cup DetailKeys
                \cup {"status", "volt_status", "curr_status", "temp_status"}

\* What the block yields: the fields read, or nothing ("no battery").
parse_keyvalue(block) ==
  IF block.known /\ ~block.absent /\ RequiredKeys \cap block.lost = {}
  THEN [battery |-> TRUE,  fields |-> IndexedKeys \ block.lost]
  ELSE [battery |-> FALSE, fields |-> {}]
=============================================================================
