------------------------------ MODULE Entities ------------------------------
(***************************************************************************)
(* What the integration makes of the payloads (custom_components/          *)
(* pylontech_mqtt): which it accepts and takes in (coordinator.py), the    *)
(* entities it makes for the modules and cells that show up (sensor.py,    *)
(* number.py, entity.py), the capacity of each module, restored, derived   *)
(* from the spec or set by the user, and energy_stored, which is computed  *)
(* from it.  When entities are available is Coordinator's subject.         *)
(*                                                                         *)
(* External: Home Assistant's tasks that add entities one by one, what it  *)
(* restores of a number, its debounced refresh, and the order in which it  *)
(* calls a coordinator's listeners.                                        *)
(***************************************************************************)
EXTENDS Naturals, Sequences, FiniteSets

CONSTANTS
  Batteries,      \* sys_id's
  Cells,          \* cell_id's
  Payloads,       \* what may be published
  Missing,        \* a key that is not there
  NotText,        \* a spec that is no string
  MaxCells,       \* _MAX_CELLS_PER_BATTERY
  MinValue, MaxValue,       \* the range of a capacity number
  DEFAULT_BATTERY_CAPACITY, \* the fallback
  SpecCapacity,   \* what the stack's spec string comes to
  UserValues,     \* what a user sets
  OldValues       \* what an earlier version may have left to restore

\* A capacity is in steps of some size; 0 stands for None.
None == 0

ASSUME CapacityAssumption ==
  /\ MinValue \in Nat \ {0} /\ MaxValue \in Nat /\ MinValue <= MaxValue
  /\ DEFAULT_BATTERY_CAPACITY \in Nat \ {0} /\ SpecCapacity \in Nat \ {0}
  /\ UserValues \subseteq MinValue .. MaxValue
  /\ OldValues \subseteq Nat \ {0}

VARIABLES
  platforms,          \* of "sensor" and "number", those set up
  data,               \* the payload taken in last
  energy,             \* the capacity each energy_stored was computed with
  default_capacity, auto_capacity_set,
  battery_capacities,
  seen,               \* of each platform, the ids it has made entities for
  offered,            \* how often it passed an entity to async_add_entities
  number,             \* the value of each capacity number that was added
  refresh,            \* the debouncer: "idle", "cooldown", or "due" after it
  stored,             \* Home Assistant's: the values of numbers, to restore
  user,               \* history: what the user set last
  spec_seen,          \* history: a spec that parses came since setup
  blind               \* history: the numbers that had no spec to start from

capacity == <<default_capacity, auto_capacity_set, battery_capacities>>
history  == <<user, spec_seen, blind>>
vars == <<platforms, data, energy, capacity, seen, offered, number, refresh,
          stored, history>>

-----------------------------------------------------------------------------
(* What the sidecar publishes.                                             *)

Fields(keys, kind, from) ==
  {[key |-> k, kind |-> kind, from |-> from] : k \in keys}

\* The fields of a reading and the commands that fill them; each is there in
\* every payload, null when no command filled it.
PylontechSystem ==
  Fields({"voltage", "current", "soc", "power", "energy_in", "energy_out",
          "energy_stored"}, "number", {"pwr"})
  \cup Fields({"cell_count", "max_charge_curr", "max_dischg_curr"},
              "number", {"info"})
  \cup Fields({"spec", "barcode", "fw_version", "soft_version",
               "board_version", "boot_version", "comm_version",
               "release_date", "manufacturer", "model"}, "text", {"info"})
  \cup Fields({"bms_time"}, "text", {"time"})
  \cup Fields({"cycles", "soh", "charge_times", "discharge_cnt", "idle_times",
               "shut_times", "reset_times", "sc_times", "bat_ov_times",
               "bat_hv_times", "bat_lv_times", "bat_uv_times", "pwr_ov_times",
               "pwr_hv_times", "life_warn_times", "life_alarm_times",
               "pwr_coulomb", "dsg_cap"}, "number", {"stat"})

PylontechBattery ==
  Fields({"sys_id", "voltage", "current", "temperature", "soc", "power",
          "energy_stored"}, "number", {"pwr"})
  \cup Fields({"status"}, "text", {"pwr"})
  \cup Fields({"temp_low", "temp_high", "volt_low", "volt_high"},
              "number", {"table"})
  \cup Fields({"batt_volt_status", "batt_temp_status"}, "text", {"table"})
  \cup Fields({"volt_status", "curr_status", "temp_status"},
              "text", {"table", "detail"})
  \cup Fields({"coul_status"}, "text", {"detail"})
  \cup Fields({"bat_events", "power_events", "sys_fault"},
              "number", {"detail"})

PylontechCell ==
  Fields({"cell_id", "voltage", "current", "temperature", "soc", "capacity"},
         "number", {"bat"})
  \cup Fields({"base_state", "volt_status", "curr_status", "temp_status"},
              "text", {"bat"})

Commands == {"pwr", "table", "detail", "info", "stat", "time", "bat"}

Keys == {f.key : f \in PylontechSystem \cup PylontechBattery \cup PylontechCell}

\* What a payload d has for the field f: null when no command filled it, or when
\* the reply did not show it (d.lost); another publisher may put a text where
\* the sidecar puts a number (d.odd).
Get(f, d) ==
  IF f.key \in d.lost \/ f.from \cap d.read = {} THEN "null"
  ELSE IF f.key \in d.odd THEN "text" ELSE f.kind

-----------------------------------------------------------------------------
(* What the sensors show.  A numeric sensor has a unit, a device class or a *)
(* state class: Home Assistant raises when it is given a text.             *)

\* Fault variant: a key of one side is spelt in another way on the other.
SystemSensorsRenamed ==
  [numeric |-> {"voltage", "current", "soc", "power", "energy_in",
                "energy_out", "energy_stored", "soh", "cycles",
                "charge_times", "discharge_times", "idle_times"},
   plain   |-> {"cell_count", "fw_version", "spec", "barcode", "bms_time"}]

SYSTEM_SENSORS ==
  [numeric |-> {"voltage", "current", "soc", "power", "energy_in",
                "energy_out", "energy_stored", "soh", "cycles",
                "charge_times", "discharge_cnt", "idle_times",
                "max_charge_curr", "max_dischg_curr", "sc_times",
                "bat_ov_times", "bat_hv_times", "bat_lv_times",
                "bat_uv_times", "pwr_ov_times", "pwr_hv_times", "shut_times",
                "reset_times", "life_warn_times", "life_alarm_times",
                "pwr_coulomb", "dsg_cap"},
   plain   |-> {"cell_count", "fw_version", "spec", "barcode", "bms_time",
                "board_version", "soft_version", "boot_version",
                "comm_version", "release_date"}]

BATTERY_SENSORS ==
  [numeric |-> {"voltage", "current", "temperature", "soc", "power",
                "energy_stored", "temp_low", "temp_high", "volt_low",
                "volt_high"},
   plain   |-> {"status", "volt_status", "curr_status", "temp_status",
                "batt_volt_status", "batt_temp_status", "coul_status",
                "bat_events", "power_events", "sys_fault"}]

CELL_SENSORS ==
  [numeric |-> {"voltage", "current", "temperature", "soc"},
   plain   |-> {"base_state", "volt_status", "curr_status", "temp_status",
                "capacity"}]

\* Which sensors read which object.
ReadBy ==
  {[sensors |-> SYSTEM_SENSORS,  fields |-> PylontechSystem],
   [sensors |-> BATTERY_SENSORS, fields |-> PylontechBattery],
   [sensors |-> CELL_SENSORS,    fields |-> PylontechCell]}

\* The fields that numeric sensors read.
Measured ==
  UNION {{f \in r.fields : f.key \in r.sensors.numeric} : r \in ReadBy}

\* A sensor's listener raises when it is given d.
Raises(d) == \E f \in Measured : Get(f, d) = "text"

-----------------------------------------------------------------------------
(* Payloads and entities.                                                  *)

\* Before the first payload; a payload that is taken in has read "pwr".
NoData == [read |-> {}, lost |-> {}, odd |-> {}, cells |-> [b \in {} |-> {}]]

Present == DOMAIN data.cells

\* The entities of a platform for the modules and cells in d.
Items(platform, d) ==
  IF platform = "number" THEN {<<"number", b>> : b \in DOMAIN d.cells}
  ELSE {<<"battery", b>> : b \in DOMAIN d.cells}
       \cup UNION {{<<"cell", b, c>> : c \in d.cells[b]} : b \in DOMAIN d.cells}

Entity == {<<"number", b>> : b \in Batteries}
          \cup {<<"battery", b>> : b \in Batteries}
          \cup {<<"cell", b, c>> : b \in Batteries, c \in Cells}

TypeOK ==
  /\ platforms \subseteq {"sensor", "number"}
  /\ data.read \subseteq Commands /\ Present \subseteq Batteries
  /\ data.lost \subseteq Keys /\ data.odd \subseteq Keys
  /\ \A b \in Present : data.cells[b] \subseteq Cells
  /\ energy \in [Batteries -> Nat]
  /\ default_capacity \in Nat \ {0} /\ auto_capacity_set \in BOOLEAN
  /\ battery_capacities \in [Batteries -> {None} \cup MinValue .. MaxValue]
  /\ seen \in [{"sensor", "number"} -> SUBSET Entity]
  /\ offered \in [Entity -> 0 .. 2]
  /\ number \in [Batteries -> {None} \cup MinValue .. MaxValue]
  /\ refresh \in {"idle", "cooldown", "due"}
  /\ stored \in [Batteries -> {None} \cup OldValues \cup MinValue .. MaxValue]
  /\ user \in [Batteries -> {None} \cup UserValues]
  /\ spec_seen \in BOOLEAN /\ blind \subseteq Batteries

NoNumber == [b \in Batteries |-> None]

Init ==
  /\ platforms = {} /\ data = NoData /\ energy = NoNumber
  /\ default_capacity = DEFAULT_BATTERY_CAPACITY /\ auto_capacity_set = FALSE
  /\ battery_capacities = NoNumber /\ number = NoNumber
  /\ seen = [p \in {"sensor", "number"} |-> {}]
  /\ offered = [e \in Entity |-> 0]
  /\ refresh = "idle"
  /\ stored \in [Batteries -> {None} \cup OldValues]
  /\ user = NoNumber /\ spec_seen = FALSE
  /\ blind = {b \in Batteries : stored[b] # None}

-----------------------------------------------------------------------------
(* Discovery.                                                              *)

discover_new_ids(items, seen_ids) == items \ seen_ids

\* Fault variant: only the ids of the last payload are remembered.
SeenLately(items, seen_ids) == items

SeenWith(items, seen_ids) == seen_ids \cup items

\* _add_new_entities of sensor.py and _add_new_batteries of number.py, for the
\* platforms in up.
AddNew(up, d) ==
  LET times(e) == Cardinality({p \in up :
                    e \in discover_new_ids(Items(p, d), seen[p])})
  IN  /\ offered' = [e \in Entity |-> IF offered[e] + times(e) > 2 THEN 2
                                      ELSE offered[e] + times(e)]
      /\ seen' = [p \in DOMAIN seen |->
                    IF p \in up THEN SeenWith(Items(p, d), seen[p])
                    ELSE seen[p]]

\* Fault variant: a platform waits for the next payload.
SetupWithoutLooking(p) ==
  /\ p \notin platforms
  /\ platforms' = platforms \cup {p}
  /\ UNCHANGED <<data, energy, capacity, seen, offered, number, refresh,
                 stored, history>>

\* async_setup_entry of a platform: what came before it is looked at.
SetupPlatform(p) ==
  /\ p \notin platforms
  /\ platforms' = platforms \cup {p}
  /\ IF data = NoData THEN UNCHANGED <<seen, offered>> ELSE AddNew({p}, data)
  /\ UNCHANGED <<data, energy, capacity, number, refresh, stored, history>>

-----------------------------------------------------------------------------
(* Payloads.                                                               *)

_REQUIRED_NUMERIC_FIELDS ==
  {"voltage", "current", "soc", "power", "energy_in", "energy_out"}

Required == {f \in PylontechSystem : f.key \in _REQUIRED_NUMERIC_FIELDS}

\* A module's four measurements are one here: "number" when all are numbers in
\* their ranges.
_validate_state_payload(p) ==
  /\ p.schema_version = 1
  /\ \A f \in Required : Get(f, p) = "number"
  /\ \A bat \in p.batteries :
       /\ bat.sys_id # Missing
       /\ bat.soc = "number"
       /\ bat.cells # Missing =>
            /\ Len(bat.cells) <= MaxCells
            /\ \A i, j \in DOMAIN bat.cells :
                 i # j => bat.cells[i] # bat.cells[j]

\* What is accepted is about the modules and cells of the instance.
ASSUME PayloadAssumption ==
  \A p \in Payloads : _validate_state_payload(p) =>
    /\ p.read \subseteq Commands /\ p.lost \subseteq Keys /\ p.odd \subseteq Keys
    /\ \A bat \in p.batteries :
         /\ bat.sys_id \in Batteries
         /\ bat.cells # Missing =>
              \A i \in DOMAIN bat.cells : bat.cells[i] \in Cells

\* The module that find_battery finds, and its cells.
_deserialize(p) ==
  [read  |-> p.read, lost |-> p.lost, odd |-> p.odd,
   cells |-> [b \in {bat.sys_id : bat \in p.batteries} |->
                LET bat == CHOOSE bat \in p.batteries : bat.sys_id = b
                IN  IF bat.cells = Missing THEN {}
                    ELSE {bat.cells[i] : i \in DOMAIN bat.cells}]]

\* None also when the string does not parse and ValueError is raised; the
\* TypeError of a spec that is no string is in _process_payload.
parse_spec_capacity(spec) ==
  IF spec = "48V/100AH" THEN SpecCapacity ELSE None

\* Fault variant: the first spec settles it, whether it parses or not.
DeriveOnce(spec) ==
  IF ~auto_capacity_set /\ spec # ""
  THEN /\ default_capacity' = IF parse_spec_capacity(spec) = None
                              THEN default_capacity
                              ELSE parse_spec_capacity(spec)
       /\ auto_capacity_set' = TRUE
  ELSE UNCHANGED <<default_capacity, auto_capacity_set>>

\* The default of numbers to come, from the first spec that parses.
DeriveDefault(spec) ==
  IF ~auto_capacity_set /\ parse_spec_capacity(spec) # None
  THEN /\ default_capacity' = parse_spec_capacity(spec)
       /\ auto_capacity_set' = TRUE
  ELSE UNCHANGED <<default_capacity, auto_capacity_set>>

_compute_energy_stored(d, capacities, default) ==
  [b \in Batteries |->
     IF b \notin DOMAIN d.cells THEN None
     ELSE IF capacities[b] # None THEN capacities[b] ELSE default]

\* The platforms whose listeners are called for d: after a sensor's listener has
\* raised none is, and the order is that in which they came to listen.  An
\* addition of entities that is under way then is left out.
Reached(d) ==
  IF "sensor" \in platforms /\ Raises(d) THEN SUBSET platforms ELSE {platforms}

\* A payload whose spec is no string is dropped while a spec is looked for: the
\* TypeError comes before anything is changed.  async_set_updated_data cancels a
\* refresh that is due before it calls the listeners.
_process_payload(p) ==
  /\ _validate_state_payload(p)
  /\ auto_capacity_set \/ p.spec # NotText
  /\ DeriveDefault(p.spec)
  /\ spec_seen' = (spec_seen \/ parse_spec_capacity(p.spec) # None)
  /\ data' = _deserialize(p)
  /\ energy' = _compute_energy_stored(data', battery_capacities,
                                      default_capacity')
  /\ refresh' = "idle"
  /\ \E up \in Reached(data') : AddNew(up, data')
  /\ UNCHANGED <<platforms, battery_capacities, number, stored, user, blind>>

\* No sensor reads anything while it is unavailable, so every listener is called
\* and a platform that was not reached looks at the payload then.  The calls
\* that a refresh makes meet the listener that raises again.
_mark_unavailable ==
  /\ AddNew(platforms, data)
  /\ UNCHANGED <<platforms, data, energy, capacity, number, refresh, stored,
                 history>>

-----------------------------------------------------------------------------
(* Capacity numbers.                                                       *)

\* async_request_refresh: at once, unless one was made a moment ago;
\* _async_update_data computes energy_stored anew.
RequestRefresh(capacities) ==
  IF refresh = "idle"
  THEN /\ refresh' = "cooldown"
       /\ energy' = _compute_energy_stored(data, capacities, default_capacity)
  ELSE refresh' = "due" /\ UNCHANGED energy

\* The end of the cooldown.
RefreshTimer ==
  /\ \/ /\ refresh = "due" /\ refresh' = "cooldown"
        /\ energy' = _compute_energy_stored(data, battery_capacities,
                                            default_capacity)
     \/ refresh = "cooldown" /\ refresh' = "idle" /\ UNCHANGED energy
  /\ UNCHANGED <<platforms, data, capacity, seen, offered, number, stored,
                 history>>

Clamp(value) ==
  IF value < MinValue THEN MinValue
  ELSE IF value > MaxValue THEN MaxValue ELSE value

\* A number that was discovered but not added yet.
Pending(b) == offered[<<"number", b>>] > 0 /\ number[b] = None

\* What its addition does with the value it starts from.
StartFrom(b, value) ==
  /\ number' = [number EXCEPT ![b] = value]
  /\ battery_capacities' = [battery_capacities EXCEPT ![b] = value]
  /\ RequestRefresh(battery_capacities')
  /\ blind' = IF stored[b] = None /\ ~spec_seen THEN blind \cup {b} ELSE blind
  /\ UNCHANGED <<platforms, data, default_capacity, auto_capacity_set, seen,
                 offered, stored, user, spec_seen>>

\* Fault variant: the spec is taken over what was restored.
AddFromSpec(b) ==
  /\ Pending(b)
  /\ StartFrom(b, Clamp(IF stored[b] # None /\ ~auto_capacity_set
                        THEN stored[b] ELSE default_capacity))

\* The number's own value of the constructor is never shown.
async_added_to_hass(b) ==
  /\ Pending(b)
  /\ StartFrom(b, Clamp(IF stored[b] # None THEN stored[b]
                        ELSE default_capacity))

\* Fault variant: energy_stored waits for the next payload.
SetWithoutRefresh(b, value) ==
  /\ number[b] # None /\ b \in Present
  /\ number' = [number EXCEPT ![b] = value]
  /\ battery_capacities' = [battery_capacities EXCEPT ![b] = value]
  /\ user' = [user EXCEPT ![b] = value]
  /\ UNCHANGED <<platforms, data, energy, default_capacity,
                 auto_capacity_set, seen, offered, refresh, stored,
                 spec_seen, blind>>

\* By a user, who cannot set what is unavailable.
async_set_native_value(b, value) ==
  /\ number[b] # None /\ b \in Present
  /\ number' = [number EXCEPT ![b] = value]
  /\ battery_capacities' = [battery_capacities EXCEPT ![b] = value]
  /\ user' = [user EXCEPT ![b] = value]
  /\ RequestRefresh(battery_capacities')
  /\ UNCHANGED <<platforms, data, default_capacity, auto_capacity_set, seen,
                 offered, stored, spec_seen, blind>>

\* The entry is unloaded, or Home Assistant stopped, and set up again with a
\* coordinator of its own; Home Assistant keeps the values of the numbers it
\* had, and those it had kept of modules that did not show up.
Reload ==
  /\ stored' = [b \in Batteries |-> IF number[b] # None THEN number[b]
                                    ELSE stored[b]]
  /\ platforms' = {} /\ data' = NoData /\ energy' = NoNumber
  /\ default_capacity' = DEFAULT_BATTERY_CAPACITY /\ auto_capacity_set' = FALSE
  /\ battery_capacities' = NoNumber /\ number' = NoNumber
  /\ seen' = [p \in {"sensor", "number"} |-> {}]
  /\ offered' = [e \in Entity |-> 0]
  /\ refresh' = "idle" /\ spec_seen' = FALSE
  /\ UNCHANGED <<user, blind>>

Next ==
  \/ \E p \in {"sensor", "number"} : SetupPlatform(p)
  \/ \E p \in Payloads : _process_payload(p)
  \/ _mark_unavailable
  \/ \E b \in Batteries : async_added_to_hass(b)
  \/ \E b \in Batteries, v \in UserValues : async_set_native_value(b, v)
  \/ RefreshTimer
  \/ Reload

Spec == Init /\ [][Next]_vars

-----------------------------------------------------------------------------
(* Properties.                                                             *)

\* Whenever no refresh is due, the energy_stored of every module in the payload
\* was computed with the capacity its number shows, or with the default before
\* it has one: in whatever order payloads, specs, restored values, changes by
\* the user and the debounced refreshes come.
EnergyIsCurrent ==
  refresh # "due" =>
    \A b \in Present :
      energy[b] = IF number[b] # None THEN number[b] ELSE default_capacity

\* A capacity the user set stays through payloads, specs, the module's absence
\* and restarts, those in which it does not show up included.
UserCapacityKept ==
  \A b \in Batteries :
    user[b] # None /\ number[b] # None => number[b] = user[b]

\* A number that is neither set by the user nor left by an earlier version, and
\* that was added after the stack's spec was read, shows the spec's capacity.
\* One added before it keeps the fallback, restarts included (blind).
PrefilledFromSpec ==
  \A b \in Batteries \ blind :
    user[b] = None /\ number[b] # None => number[b] = Clamp(SpecCapacity)

\* Every module and every cell of the last payload has been given its entities
\* by each platform that is set up, and none twice: whether the payload came
\* before the platform or after, and however often the module went and came.
\* The payloads at which a sensor raises are excepted, not those after them.
OneEntityEach ==
  /\ \A e \in Entity : offered[e] <= 1
  /\ ~Raises(data) =>
       \A p \in platforms : \A e \in Items(p, data) : offered[e] = 1

\* The sensors and the sidecar, which are installed apart, agree on their keys:
\* every sensor reads a field the sidecar has, and no payload in which every
\* field has the kind the sidecar gives it makes a numeric sensor raise.  A
\* field may still be null, when its command or its line is missing.
SensorsReadable ==
  /\ \A r \in ReadBy :
       r.sensors.numeric \cup r.sensors.plain \subseteq {f.key : f \in r.fields}
  /\ data.odd = {} => ~Raises(data)

-----------------------------------------------------------------------------
(* The inductive invariant behind the properties of capacities.            *)

\* energy_stored is computed with what the numbers show.
NumbersInForce == battery_capacities = number

\* What the user set is shown, or kept to be restored.
UserValueHeld ==
  \A b \in Batteries : user[b] # None =>
    user[b] = IF number[b] # None THEN number[b] ELSE stored[b]

\* So is the capacity of the spec.
SpecValueHeld ==
  \A b \in Batteries \ blind : user[b] = None =>
    (IF number[b] # None THEN number[b] ELSE stored[b])
      \in {None, Clamp(SpecCapacity)}

SpecIsDefault ==
  /\ spec_seen => auto_capacity_set
  /\ auto_capacity_set => default_capacity = SpecCapacity

IInv ==
  /\ TypeOK /\ NumbersInForce /\ EnergyIsCurrent
  /\ UserValueHeld /\ SpecValueHeld /\ SpecIsDefault

\* The inductive invariant behind OneEntityEach: each entity belongs to one
\* platform, which has offered it once if it has seen its id, and not otherwise.
PlatformOf(e) == IF e[1] = "number" THEN "number" ELSE "sensor"

OfferedOnceSeen ==
  \A e \in Entity :
    offered[e] = IF e \in seen[PlatformOf(e)] THEN 1 ELSE 0

SeenAll ==
  ~Raises(data) => \A p \in platforms : Items(p, data) \subseteq seen[p]

DInv == TypeOK /\ OfferedOnceSeen /\ SeenAll
=============================================================================
