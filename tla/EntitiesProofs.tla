--------------------------- MODULE EntitiesProofs ---------------------------
(***************************************************************************)
(* Proofs about Entities, for any modules, cells, payloads and capacities. *)
(* First the types; then the capacities, from NumbersInForce (energy_stored *)
(* is computed with what the numbers show) and from what is held of a value *)
(* while its number does not exist; then discovery.                        *)
(***************************************************************************)
EXTENDS Entities, FiniteSetTheorems, TLAPS

USE DEF None

-----------------------------------------------------------------------------
(* Operators.                                                              *)

LEMMA ClampInRange ==
  ASSUME NEW value \in Nat
  PROVE  Clamp(value) \in MinValue .. MaxValue
BY CapacityAssumption DEF Clamp

LEMMA ClampKeeps ==
  ASSUME NEW value \in MinValue .. MaxValue
  PROVE  Clamp(value) = value
BY CapacityAssumption DEF Clamp

\* Whatever the payload, an energy is computed for every module.
LEMMA ComputeType ==
  ASSUME NEW d, NEW capacities \in [Batteries -> Nat], NEW default \in Nat
  PROVE  _compute_energy_stored(d, capacities, default) \in [Batteries -> Nat]
BY DEF _compute_energy_stored

LEMMA DeserializeType ==
  ASSUME NEW p \in Payloads, _validate_state_payload(p)
  PROVE  /\ _deserialize(p).read \subseteq Commands
         /\ _deserialize(p).lost \subseteq Keys
         /\ _deserialize(p).odd \subseteq Keys
         /\ DOMAIN _deserialize(p).cells \subseteq Batteries
         /\ \A b \in DOMAIN _deserialize(p).cells :
              _deserialize(p).cells[b] \subseteq Cells
<1>1. /\ p.read \subseteq Commands /\ p.lost \subseteq Keys /\ p.odd \subseteq Keys
      /\ \A bat \in p.batteries :
           /\ bat.sys_id \in Batteries
           /\ bat.cells # Missing =>
                \A i \in DOMAIN bat.cells : bat.cells[i] \in Cells
  BY PayloadAssumption
<1>2. DOMAIN _deserialize(p).cells = {bat.sys_id : bat \in p.batteries}
  BY DEF _deserialize
<1>3. ASSUME NEW b \in {bat.sys_id : bat \in p.batteries}
      PROVE  _deserialize(p).cells[b] \subseteq Cells
  <2> DEFINE found == CHOOSE bat \in p.batteries : bat.sys_id = b
  <2>1. found \in p.batteries
    BY <1>3
  <2>2. _deserialize(p).cells[b] = IF found.cells = Missing THEN {}
                          ELSE {found.cells[i] : i \in DOMAIN found.cells}
    BY <1>3 DEF _deserialize
  <2> QED BY <1>1, <2>1, <2>2
<1> QED BY <1>1, <1>2, <1>3 DEF _deserialize

LEMMA PlatformsFinite == IsFiniteSet({"sensor", "number"})
<1>1. IsFiniteSet({"sensor"})
  BY FS_Singleton
<1>2. {"sensor", "number"} = {"sensor"} \cup {"number"}
  OBVIOUS
<1> QED BY <1>1, <1>2, FS_AddElement

LEMMA AddNewType ==
  ASSUME TypeOK, NEW up \in SUBSET {"sensor", "number"}, NEW d,
         DOMAIN d.cells \subseteq Batteries,
         \A b \in DOMAIN d.cells : d.cells[b] \subseteq Cells,
         AddNew(up, d)
  PROVE  /\ seen' \in [{"sensor", "number"} -> SUBSET Entity]
         /\ offered' \in [Entity -> 0 .. 2]
<1>1. \A q : Items(q, d) \subseteq Entity
  BY DEF Items, Entity
<1>2. seen' \in [{"sensor", "number"} -> SUBSET Entity]
  BY <1>1 DEF AddNew, SeenWith, TypeOK
<1> DEFINE times(e) == Cardinality({q \in up :
                         e \in discover_new_ids(Items(q, d), seen[q])})
<1>3. offered' = [e \in Entity |-> IF offered[e] + times(e) > 2 THEN 2
                                   ELSE offered[e] + times(e)]
  BY DEF AddNew
<1>4. ASSUME NEW e \in Entity
      PROVE  times(e) \in Nat
  BY PlatformsFinite, FS_Subset, FS_CardinalityType
<1> HIDE DEF times
<1> QED BY <1>2, <1>3, <1>4 DEF TypeOK

-----------------------------------------------------------------------------
(* Types.                                                                  *)

LEMMA RequestRefreshType ==
  ASSUME TypeOK, NEW capacities \in [Batteries -> Nat], RequestRefresh(capacities)
  PROVE  /\ energy' \in [Batteries -> Nat]
         /\ refresh' \in {"cooldown", "due"}
<1>1. energy \in [Batteries -> Nat] /\ default_capacity \in Nat
  BY DEF TypeOK
<1>2. _compute_energy_stored(data, capacities, default_capacity)
        \in [Batteries -> Nat]
  BY <1>1, ComputeType
<1> QED BY <1>1, <1>2 DEF RequestRefresh

LEMMA StartFromType ==
  ASSUME TypeOK, NEW b \in Batteries, NEW value \in MinValue .. MaxValue,
         StartFrom(b, value)
  PROVE  TypeOK'
<1>1. battery_capacities' \in [Batteries -> {None} \cup MinValue .. MaxValue]
  BY DEF StartFrom, TypeOK
<1>2. battery_capacities' \in [Batteries -> Nat]
  BY <1>1, CapacityAssumption
<1>3. energy' \in [Batteries -> Nat] /\ refresh' \in {"cooldown", "due"}
  BY <1>2, RequestRefreshType DEF StartFrom
<1> QED BY <1>1, <1>3 DEF StartFrom, TypeOK, Present

\* What a number starts from is a capacity in range.
LEMMA StartValue ==
  ASSUME TypeOK, NEW b \in Batteries
  PROVE  Clamp(IF stored[b] # None THEN stored[b] ELSE default_capacity)
           \in MinValue .. MaxValue
<1> DEFINE value == IF stored[b] # None THEN stored[b] ELSE default_capacity
<1>1. stored[b] \in {None} \cup OldValues \cup MinValue .. MaxValue
  BY DEF TypeOK
<1>2. \A v \in {None} \cup OldValues \cup MinValue .. MaxValue : v \in Nat
  BY CapacityAssumption
<1>3. stored[b] \in Nat
  BY <1>1, <1>2, Zenon
<1>4. default_capacity \in Nat
  BY DEF TypeOK
<1>5. value \in Nat
  BY <1>3, <1>4
<1> QED BY <1>5, ClampInRange

\* What a setup starts with.
LEMMA FreshType ==
  /\ NoData.read \subseteq Commands /\ DOMAIN NoData.cells = {}
  /\ NoData.lost \subseteq Keys /\ NoData.odd \subseteq Keys
  /\ NoNumber \in [Batteries -> Nat]
  /\ NoNumber \in [Batteries -> {None} \cup MinValue .. MaxValue]
  /\ NoNumber \in [Batteries -> {None} \cup UserValues]
  /\ [q \in {"sensor", "number"} |-> {}]
       \in [{"sensor", "number"} -> SUBSET Entity]
  /\ [e \in Entity |-> 0] \in [Entity -> 0 .. 2]
BY DEF NoData, NoNumber

LEMMA InitType == Init => TypeOK
<1> SUFFICES ASSUME Init PROVE TypeOK
  OBVIOUS
<1>1. /\ data.read \subseteq Commands /\ Present = {}
      /\ data.lost \subseteq Keys /\ data.odd \subseteq Keys
  BY FreshType DEF Init, Present
<1>2. stored \in [Batteries -> {None} \cup OldValues \cup MinValue .. MaxValue]
  BY DEF Init
<1>3. default_capacity \in Nat \ {0}
  BY CapacityAssumption DEF Init
<1>4. blind \subseteq Batteries
  BY DEF Init
<1> QED BY <1>1, <1>2, <1>3, <1>4, FreshType DEF Init, TypeOK

LEMMA ReachedPlatforms ==
  ASSUME NEW d, NEW up \in Reached(d)
  PROVE  up \subseteq platforms /\ (~Raises(d) => up = platforms)
BY DEF Reached

LEMMA ProcessType ==
  ASSUME TypeOK, NEW p \in Payloads, _process_payload(p)
  PROVE  TypeOK'
<1>1. default_capacity' \in Nat \ {0} /\ auto_capacity_set' \in BOOLEAN
  BY CapacityAssumption
  DEF _process_payload, DeriveDefault, parse_spec_capacity, TypeOK
<1>2. spec_seen' \in BOOLEAN
  BY DEF _process_payload, TypeOK
<1>3. /\ data' = _deserialize(p)
      /\ energy' = _compute_energy_stored(data', battery_capacities,
                                          default_capacity')
      /\ refresh' = "idle"
  BY DEF _process_payload
<1>4. /\ data'.read \subseteq Commands /\ DOMAIN data'.cells \subseteq Batteries
      /\ data'.lost \subseteq Keys /\ data'.odd \subseteq Keys
      /\ \A b \in DOMAIN data'.cells : data'.cells[b] \subseteq Cells
  BY <1>3, DeserializeType DEF _process_payload
<1>5. battery_capacities \in [Batteries -> Nat]
  BY CapacityAssumption DEF TypeOK
<1>6. energy' \in [Batteries -> Nat]
  BY <1>1, <1>3, <1>5, ComputeType
<1>7. /\ seen' \in [{"sensor", "number"} -> SUBSET Entity]
      /\ offered' \in [Entity -> 0 .. 2]
  <2>1. PICK up \in Reached(data') : AddNew(up, data')
    BY DEF _process_payload
  <2>2. up \in SUBSET {"sensor", "number"}
    BY ReachedPlatforms DEF TypeOK
  <2> QED BY <1>4, <2>1, <2>2, AddNewType
<1>8. UNCHANGED <<platforms, battery_capacities, number, stored, user, blind>>
  BY DEF _process_payload
<1> QED BY <1>1, <1>2, <1>3, <1>4, <1>6, <1>7, <1>8 DEF TypeOK, Present

LEMMA UnavailableType ==
  ASSUME TypeOK, _mark_unavailable
  PROVE  TypeOK'
<1>1. /\ seen' \in [{"sensor", "number"} -> SUBSET Entity]
      /\ offered' \in [Entity -> 0 .. 2]
  BY AddNewType DEF _mark_unavailable, TypeOK, Present
<1> QED BY <1>1 DEF _mark_unavailable, TypeOK, capacity, history, Present

LEMMA SetupType ==
  ASSUME TypeOK, NEW q \in {"sensor", "number"}, SetupPlatform(q)
  PROVE  TypeOK'
<1>1. platforms' \subseteq {"sensor", "number"}
  BY DEF SetupPlatform, TypeOK
<1>2. /\ seen' \in [{"sensor", "number"} -> SUBSET Entity]
      /\ offered' \in [Entity -> 0 .. 2]
  <2>1. CASE data = NoData
    BY <2>1 DEF SetupPlatform, TypeOK
  <2>2. CASE data # NoData
    <3>1. AddNew({q}, data) /\ {q} \in SUBSET {"sensor", "number"}
      BY <2>2 DEF SetupPlatform
    <3>2. /\ DOMAIN data.cells \subseteq Batteries
          /\ \A b \in DOMAIN data.cells : data.cells[b] \subseteq Cells
      BY DEF TypeOK, Present
    <3> QED BY <3>1, <3>2, AddNewType
  <2> QED BY <2>1, <2>2
<1> QED BY <1>1, <1>2 DEF SetupPlatform, TypeOK, capacity, history, Present

LEMMA SetType ==
  ASSUME TypeOK, NEW b \in Batteries, NEW v \in UserValues,
         async_set_native_value(b, v)
  PROVE  TypeOK'
<1>1. v \in MinValue .. MaxValue
  BY CapacityAssumption
<1>2. battery_capacities' \in [Batteries -> {None} \cup MinValue .. MaxValue]
  BY <1>1 DEF async_set_native_value, TypeOK
<1>3. battery_capacities' \in [Batteries -> Nat]
  BY <1>2, CapacityAssumption
<1>4. energy' \in [Batteries -> Nat] /\ refresh' \in {"cooldown", "due"}
  BY <1>3, RequestRefreshType DEF async_set_native_value
<1> QED BY <1>1, <1>2, <1>4 DEF async_set_native_value, TypeOK, Present

LEMMA TimerType ==
  ASSUME TypeOK, RefreshTimer
  PROVE  TypeOK'
<1>1. battery_capacities \in [Batteries -> Nat] /\ default_capacity \in Nat
  BY CapacityAssumption DEF TypeOK
<1>2. _compute_energy_stored(data, battery_capacities, default_capacity)
        \in [Batteries -> Nat]
  BY <1>1, ComputeType
<1>3. energy' \in [Batteries -> Nat] /\ refresh' \in {"idle", "cooldown"}
  BY <1>2 DEF RefreshTimer, TypeOK
<1> QED BY <1>3 DEF RefreshTimer, TypeOK, capacity, history, Present

LEMMA ReloadType ==
  ASSUME TypeOK, Reload
  PROVE  TypeOK'
<1>1. /\ data'.read \subseteq Commands /\ Present' = {}
      /\ data'.lost \subseteq Keys /\ data'.odd \subseteq Keys
  BY FreshType DEF Reload, Present
<1>2. stored' \in [Batteries -> {None} \cup OldValues \cup MinValue .. MaxValue]
  BY DEF Reload, TypeOK
<1>3. default_capacity' \in Nat \ {0}
  BY CapacityAssumption DEF Reload
<1> QED BY <1>1, <1>2, <1>3, FreshType DEF Reload, TypeOK

LEMMA StutterType ==
  ASSUME TypeOK, UNCHANGED vars
  PROVE  TypeOK'
BY DEF vars, capacity, history, TypeOK, Present

\* Every variable keeps its type; among them, a number and the capacity in use
\* stay in the range of the number, whatever was restored or derived.
THEOREM TypeCorrect == Spec => []TypeOK
<1>1. TypeOK /\ [Next]_vars => TypeOK'
  <2> SUFFICES ASSUME TypeOK, [Next]_vars PROVE TypeOK'
    OBVIOUS
  <2>1. CASE \E q \in {"sensor", "number"} : SetupPlatform(q)
    BY <2>1, SetupType
  <2>2. CASE \E p \in Payloads : _process_payload(p)
    BY <2>2, ProcessType
  <2>3. CASE \E b \in Batteries : async_added_to_hass(b)
    BY <2>3, StartValue, StartFromType DEF async_added_to_hass
  <2>4. CASE \E b \in Batteries, v \in UserValues : async_set_native_value(b, v)
    BY <2>4, SetType
  <2>5. CASE RefreshTimer
    BY <2>5, TimerType
  <2>6. CASE Reload
    BY <2>6, ReloadType
  <2>7. CASE UNCHANGED vars
    BY <2>7, StutterType
  <2>8. CASE _mark_unavailable
    BY <2>8, UnavailableType
  <2> QED BY <2>1, <2>2, <2>3, <2>4, <2>5, <2>6, <2>7, <2>8 DEF Next
<1> QED BY <1>1, InitType, PTL DEF Spec

-----------------------------------------------------------------------------
(* Capacities.                                                             *)

\* What energies are computed with, when the numbers are in force.
LEMMA ComputeShows ==
  ASSUME NEW d, NEW default, NEW b \in DOMAIN d.cells, b \in Batteries
  PROVE  _compute_energy_stored(d, number, default)[b] =
           IF number[b] # None THEN number[b] ELSE default
BY DEF _compute_energy_stored

LEMMA ComputeShowsNext ==
  ASSUME NEW d, NEW default, NEW b \in DOMAIN d.cells, b \in Batteries
  PROVE  _compute_energy_stored(d, number', default)[b] =
           IF number'[b] # None THEN number'[b] ELSE default
BY DEF _compute_energy_stored

\* A refresh that is asked for with the numbers as they become is enough.
LEMMA RefreshShows ==
  ASSUME TypeOK, battery_capacities' = number', RequestRefresh(battery_capacities'),
         data' = data, default_capacity' = default_capacity
  PROVE  EnergyIsCurrent'
<1>1. CASE refresh = "idle"
  <2>1. energy' = _compute_energy_stored(data, number', default_capacity)
    BY <1>1 DEF RequestRefresh
  <2>2. Present' = DOMAIN data.cells /\ Present' \subseteq Batteries
    BY DEF Present, TypeOK
  <2> QED BY <2>1, <2>2, ComputeShowsNext DEF EnergyIsCurrent
<1>2. CASE refresh # "idle"
  BY <1>2 DEF RequestRefresh, EnergyIsCurrent
<1> QED BY <1>1, <1>2

\* A payload is shown with the numbers as they are and the default it may bring.
LEMMA ProcessKeeps ==
  ASSUME IInv, NEW p \in Payloads, _process_payload(p)
  PROVE  IInv'
<1>1. TypeOK'
  BY ProcessType DEF IInv
<1>2. /\ data' = _deserialize(p)
      /\ energy' = _compute_energy_stored(data', battery_capacities,
                                          default_capacity')
  BY DEF _process_payload
<1>3. UNCHANGED <<battery_capacities, number, stored, user, blind>>
  BY DEF _process_payload
<1>4. EnergyIsCurrent'
  <2>1. energy' = _compute_energy_stored(data', number, default_capacity')
    BY <1>2 DEF IInv, NumbersInForce
  <2>2. \A b \in Present' : b \in DOMAIN data'.cells /\ b \in Batteries
    BY <1>1 DEF TypeOK, Present
  <2>3. \A b \in Present' :
          energy'[b] = IF number[b] # None THEN number[b] ELSE default_capacity'
    BY <2>1, <2>2, ComputeShows
  <2> QED BY <2>3, <1>3 DEF EnergyIsCurrent
<1>5. SpecIsDefault'
  BY CapacityAssumption
  DEF _process_payload, DeriveDefault, parse_spec_capacity, SpecIsDefault, IInv
<1>6. NumbersInForce' /\ UserValueHeld' /\ SpecValueHeld'
  BY <1>2, <1>3
  DEF NumbersInForce, UserValueHeld, SpecValueHeld, IInv
<1> QED BY <1>1, <1>4, <1>5, <1>6 DEF IInv

\* A number starts from what the user set, when there is such a value, and
\* from the spec's, when it is neither blind nor set.
LEMMA AddedKeeps ==
  ASSUME IInv, NEW b \in Batteries, async_added_to_hass(b)
  PROVE  IInv'
<1> DEFINE value == Clamp(IF stored[b] # None THEN stored[b]
                          ELSE default_capacity)
<1>1. StartFrom(b, value) /\ number[b] = None
  BY DEF async_added_to_hass, Pending
<1>2. value \in MinValue .. MaxValue /\ value # None
  <2>1. value \in MinValue .. MaxValue
    BY StartValue DEF IInv
  <2> QED BY <2>1, CapacityAssumption
<1>3. TypeOK'
  BY <1>1, <1>2, StartFromType DEF IInv
<1>4. NumbersInForce'
  BY <1>1 DEF StartFrom, NumbersInForce, IInv
<1>5. EnergyIsCurrent'
  BY <1>1, <1>4, RefreshShows DEF StartFrom, NumbersInForce, IInv
<1>6. number' = [number EXCEPT ![b] = value] /\ UNCHANGED <<user, stored>>
  BY <1>1 DEF StartFrom
<1>7. number'[b] = value /\ \A c \in Batteries : c # b => number'[c] = number[c]
  BY <1>6 DEF IInv, TypeOK
<1>8. ASSUME user[b] # None
      PROVE  value = user[b]
  <2>1. stored[b] = user[b] /\ user[b] \in MinValue .. MaxValue
    BY <1>1, <1>8, CapacityAssumption DEF IInv, UserValueHeld, TypeOK
  <2> QED BY <2>1, <1>8, ClampKeeps
<1>9. UserValueHeld'
  <2>1. ASSUME NEW c \in Batteries, user[c] # None
        PROVE  user[c] = IF number'[c] # None THEN number'[c] ELSE stored[c]
    BY <2>1, <1>2, <1>7, <1>8 DEF IInv, UserValueHeld
  <2> QED BY <2>1, <1>6 DEF UserValueHeld
<1>10. ASSUME b \notin blind', user[b] = None
       PROVE  value = Clamp(SpecCapacity)
  <2>1. CASE stored[b] = None
    <3>1. spec_seen
      BY <1>1, <1>10, <2>1 DEF StartFrom
    <3>2. default_capacity = SpecCapacity
      BY <3>1 DEF IInv, SpecIsDefault
    <3> QED BY <2>1, <3>2
  <2>2. CASE stored[b] # None
    <3>1. b \notin blind
      BY <1>1, <1>10 DEF StartFrom
    <3>2. stored[b] = Clamp(SpecCapacity)
      BY <1>1, <1>10, <2>2, <3>1 DEF IInv, SpecValueHeld
    <3>3. Clamp(SpecCapacity) \in MinValue .. MaxValue
      BY ClampInRange, CapacityAssumption
    <3> QED BY <2>2, <3>2, <3>3, ClampKeeps
  <2> QED BY <2>1, <2>2
<1>11. SpecValueHeld'
  <2>1. blind \subseteq blind'
    BY <1>1 DEF StartFrom
  <2> HIDE DEF value
  <2>2. ASSUME NEW c \in Batteries \ blind', user[c] = None
        PROVE  (IF number'[c] # None THEN number'[c] ELSE stored[c])
                 \in {None, Clamp(SpecCapacity)}
    <3>1. CASE c = b
      BY <3>1, <2>2, <1>2, <1>7, <1>10
    <3>2. CASE c # b
      <4>1. (IF number[c] # None THEN number[c] ELSE stored[c])
              \in {None, Clamp(SpecCapacity)}
        BY <2>1, <2>2 DEF IInv, SpecValueHeld
      <4> QED BY <3>2, <4>1, <1>7
    <3> QED BY <3>1, <3>2
  <2> QED BY <2>2, <1>6 DEF SpecValueHeld
<1>12. SpecIsDefault'
  BY <1>1 DEF StartFrom, SpecIsDefault, IInv
<1> QED BY <1>3, <1>4, <1>5, <1>9, <1>11, <1>12 DEF IInv

LEMMA SetKeeps ==
  ASSUME IInv, NEW b \in Batteries, NEW v \in UserValues,
         async_set_native_value(b, v)
  PROVE  IInv'
<1>1. v # None
  BY CapacityAssumption
<1>2. TypeOK'
  BY SetType DEF IInv
<1>3. NumbersInForce'
  BY DEF async_set_native_value, NumbersInForce, IInv
<1>4. EnergyIsCurrent'
  BY <1>3, RefreshShows DEF async_set_native_value, NumbersInForce, IInv
<1>5. UserValueHeld'
  BY <1>1 DEF async_set_native_value, UserValueHeld, IInv, TypeOK
<1>6. SpecValueHeld'
  BY <1>1 DEF async_set_native_value, SpecValueHeld, IInv, TypeOK
<1>7. SpecIsDefault'
  BY DEF async_set_native_value, SpecIsDefault, IInv
<1> QED BY <1>2, <1>3, <1>4, <1>5, <1>6, <1>7 DEF IInv

LEMMA TimerKeeps ==
  ASSUME IInv, RefreshTimer
  PROVE  IInv'
<1>1. TypeOK'
  BY TimerType DEF IInv
<1>2. UNCHANGED <<platforms, data, capacity, number, stored, history>>
  BY DEF RefreshTimer
<1>3. EnergyIsCurrent'
  <2>1. CASE refresh = "due"
    <3>1. energy' = _compute_energy_stored(data, number, default_capacity)
      BY <2>1 DEF RefreshTimer, IInv, NumbersInForce
    <3>2. Present' = DOMAIN data.cells /\ Present' \subseteq Batteries
      BY <1>2 DEF Present, IInv, TypeOK
    <3> QED BY <1>2, <3>1, <3>2, ComputeShows DEF EnergyIsCurrent, capacity
  <2>2. CASE refresh # "due"
    BY <2>2, <1>2 DEF RefreshTimer, EnergyIsCurrent, Present, IInv, capacity
  <2> QED BY <2>1, <2>2
<1>4. NumbersInForce' /\ UserValueHeld' /\ SpecValueHeld' /\ SpecIsDefault'
  BY <1>2 DEF NumbersInForce, UserValueHeld, SpecValueHeld, SpecIsDefault,
              capacity, history, IInv
<1> QED BY <1>1, <1>3, <1>4 DEF IInv

LEMMA SetupKeeps ==
  ASSUME IInv, NEW q \in {"sensor", "number"}, SetupPlatform(q)
  PROVE  IInv'
<1>1. TypeOK'
  BY SetupType DEF IInv
<1>2. UNCHANGED <<data, energy, capacity, number, refresh, stored, history>>
  BY DEF SetupPlatform
<1>3. EnergyIsCurrent' /\ NumbersInForce'
  BY <1>2 DEF EnergyIsCurrent, NumbersInForce, Present,
              capacity, history, IInv
<1>4. UserValueHeld' /\ SpecValueHeld' /\ SpecIsDefault'
  BY <1>2 DEF UserValueHeld, SpecValueHeld, SpecIsDefault, capacity, history,
              IInv
<1> QED BY <1>1, <1>3, <1>4 DEF IInv

\* The values of the numbers go to what is stored, where the next start finds
\* them.
LEMMA ReloadKeeps ==
  ASSUME IInv, Reload
  PROVE  IInv'
<1>1. TypeOK'
  BY ReloadType DEF IInv
<1>2. Present' = {}
  BY FreshType DEF Reload, Present
<1>3. \A b \in Batteries :
        /\ number'[b] = None
        /\ stored'[b] = IF number[b] # None THEN number[b] ELSE stored[b]
  BY DEF Reload, NoNumber
<1>4. user' = user /\ blind' = blind 
  BY DEF Reload
<1>5. UserValueHeld' /\ SpecValueHeld'
  BY <1>3, <1>4 DEF UserValueHeld, SpecValueHeld, IInv
<1>6. EnergyIsCurrent' /\ NumbersInForce' /\ SpecIsDefault'
  BY <1>2, <1>4 DEF Reload, EnergyIsCurrent, NumbersInForce, SpecIsDefault, IInv
<1> QED BY <1>1, <1>5, <1>6 DEF IInv

LEMMA UnavailableKeeps ==
  ASSUME IInv, _mark_unavailable
  PROVE  IInv'
<1>1. TypeOK'
  BY UnavailableType DEF IInv
<1>2. UNCHANGED <<data, energy, capacity, number, refresh, stored, history>>
  BY DEF _mark_unavailable
<1>3. EnergyIsCurrent' /\ NumbersInForce'
  BY <1>2 DEF EnergyIsCurrent, NumbersInForce, Present, capacity, history, IInv
<1>4. UserValueHeld' /\ SpecValueHeld' /\ SpecIsDefault'
  BY <1>2 DEF UserValueHeld, SpecValueHeld, SpecIsDefault, capacity, history,
              IInv
<1> QED BY <1>1, <1>3, <1>4 DEF IInv

LEMMA StutterKeeps ==
  ASSUME IInv, UNCHANGED vars
  PROVE  IInv'
<1>1. TypeOK'
  BY StutterType DEF IInv
<1>2. EnergyIsCurrent' /\ NumbersInForce'
  BY DEF EnergyIsCurrent, NumbersInForce, Present, vars,
         capacity, history, IInv
<1>3. UserValueHeld' /\ SpecValueHeld' /\ SpecIsDefault'
  BY DEF UserValueHeld, SpecValueHeld, SpecIsDefault, vars, capacity, history,
         IInv
<1> QED BY <1>1, <1>2, <1>3 DEF IInv

THEOREM CapacityInvariant == Spec => []IInv
<1>1. Init => IInv
  <2> SUFFICES ASSUME Init PROVE IInv
    OBVIOUS
  <2>1. Present = {}
    BY FreshType DEF Init, Present
  <2>2. \A b \in Batteries : user[b] = None /\ number[b] = None
    BY DEF Init, NoNumber
  <2>3. \A b \in Batteries \ blind : stored[b] = None
    BY DEF Init
  <2>4. UserValueHeld /\ SpecValueHeld
    BY <2>2, <2>3 DEF UserValueHeld, SpecValueHeld
  <2> QED BY <2>1, <2>4, InitType
    DEF Init, IInv, EnergyIsCurrent, NumbersInForce, SpecIsDefault
<1>2. IInv /\ [Next]_vars => IInv'
  <2> SUFFICES ASSUME IInv, [Next]_vars PROVE IInv'
    OBVIOUS
  <2>1. CASE \E q \in {"sensor", "number"} : SetupPlatform(q)
    BY <2>1, SetupKeeps
  <2>2. CASE \E p \in Payloads : _process_payload(p)
    BY <2>2, ProcessKeeps
  <2>3. CASE \E b \in Batteries : async_added_to_hass(b)
    BY <2>3, AddedKeeps
  <2>4. CASE \E b \in Batteries, v \in UserValues : async_set_native_value(b, v)
    BY <2>4, SetKeeps
  <2>5. CASE RefreshTimer
    BY <2>5, TimerKeeps
  <2>6. CASE Reload
    BY <2>6, ReloadKeeps
  <2>7. CASE UNCHANGED vars
    BY <2>7, StutterKeeps
  <2>8. CASE _mark_unavailable
    BY <2>8, UnavailableKeeps
  <2> QED BY <2>1, <2>2, <2>3, <2>4, <2>5, <2>6, <2>7, <2>8 DEF Next
<1> QED BY <1>1, <1>2, PTL DEF Spec

\* Whenever no refresh is due, every energy_stored was computed with the
\* capacity shown for its module (coordinator.py, _compute_energy_stored).
THEOREM EnergyFollowsCapacity == Spec => []EnergyIsCurrent
<1>1. IInv => EnergyIsCurrent
  BY DEF IInv
<1> QED BY <1>1, CapacityInvariant, PTL

\* A capacity the user set is the one shown from then on (number.py).
THEOREM UserValueIsKept == Spec => []UserCapacityKept
<1>1. IInv => UserCapacityKept
  BY DEF IInv, UserValueHeld, UserCapacityKept
<1> QED BY <1>1, CapacityInvariant, PTL

\* A number added after the spec was read shows the capacity of the spec.
THEOREM SpecPrefills == Spec => []PrefilledFromSpec
<1>1. IInv => PrefilledFromSpec
  BY DEF IInv, SpecValueHeld, PrefilledFromSpec
<1> QED BY <1>1, CapacityInvariant, PTL

-----------------------------------------------------------------------------
(* Discovery.                                                              *)

\* A platform makes entities of its own kinds only.
LEMMA ItemsAreOwn ==
  ASSUME NEW q \in {"sensor", "number"}, NEW d, NEW e \in Items(q, d)
  PROVE  PlatformOf(e) = q
BY DEF Items, PlatformOf

\* Platforms that look at a payload offer what they had not seen, and once.
LEMMA AddNewOnce ==
  ASSUME TypeOK, OfferedOnceSeen, NEW up \in SUBSET {"sensor", "number"}, NEW d,
         AddNew(up, d)
  PROVE  /\ OfferedOnceSeen'
         /\ \A q \in {"sensor", "number"} : seen[q] \subseteq seen'[q]
         /\ \A q \in up : Items(q, d) \subseteq seen'[q]
<1>1. \A q \in {"sensor", "number"} :
        seen'[q] = IF q \in up THEN seen[q] \cup Items(q, d) ELSE seen[q]
  BY DEF AddNew, SeenWith, TypeOK
<1> DEFINE New(e) == {q \in up : e \in discover_new_ids(Items(q, d), seen[q])}
           times(e) == Cardinality(New(e))
<1>2. offered' = [e \in Entity |-> IF offered[e] + times(e) > 2 THEN 2
                                   ELSE offered[e] + times(e)]
  BY DEF AddNew
<1>3. ASSUME NEW e \in Entity
      PROVE  offered'[e] = IF e \in seen'[PlatformOf(e)] THEN 1 ELSE 0
  <2> DEFINE own == PlatformOf(e)
  <2>1. own \in {"sensor", "number"}
    BY DEF PlatformOf
  <2>2. \A q \in New(e) : q = own
    BY ItemsAreOwn DEF discover_new_ids
  <2>3. offered[e] = IF e \in seen[own] THEN 1 ELSE 0
    BY DEF OfferedOnceSeen
  <2>4. CASE own \in New(e)
    <3>1. New(e) = {own}
      BY <2>2, <2>4
    <3>2. times(e) = 1
      BY <3>1, FS_Singleton
    <3>3. e \notin seen[own] /\ e \in seen'[own]
      BY <1>1, <2>1, <2>4 DEF discover_new_ids
    <3> HIDE DEF times, New, own
    <3>4. offered'[e] = 1
      BY <1>2, <2>3, <3>2, <3>3
    <3> QED BY <3>3, <3>4 DEF own
  <2>5. CASE own \notin New(e)
    <3>1. New(e) = {}
      BY <2>2, <2>5
    <3>2. times(e) = 0
      BY <3>1, FS_EmptySet
    <3>3. e \in seen'[own] <=> e \in seen[own]
      BY <1>1, <2>1, <2>5 DEF discover_new_ids
    <3> HIDE DEF times, New, own
    <3>4. offered'[e] = offered[e]
      BY <1>2, <2>3, <3>2
    <3> QED BY <2>3, <3>3, <3>4 DEF own
  <2> QED BY <2>4, <2>5
<1>4. OfferedOnceSeen'
  BY <1>3 DEF OfferedOnceSeen
<1> QED BY <1>1, <1>4

\* A payload at which no sensor raises is looked at by every platform.
LEMMA ProcessDiscovers ==
  ASSUME DInv, NEW p \in Payloads, _process_payload(p)
  PROVE  OfferedOnceSeen' /\ SeenAll'
<1>1. platforms' = platforms /\ platforms \in SUBSET {"sensor", "number"}
  BY DEF _process_payload, DInv, TypeOK
<1>2. PICK up \in Reached(data') : AddNew(up, data')
  BY DEF _process_payload
<1>3. up \in SUBSET {"sensor", "number"} /\ (~Raises(data') => up = platforms)
  BY <1>1, ReachedPlatforms
<1>4. OfferedOnceSeen' /\ \A q \in up : Items(q, data') \subseteq seen'[q]
  BY <1>2, <1>3, AddNewOnce DEF DInv
<1>5. Raises(data)' <=> Raises(data')
  BY DEF Raises, Get
<1> QED BY <1>1, <1>3, <1>4, <1>5 DEF SeenAll

LEMMA UnavailableDiscovers ==
  ASSUME DInv, _mark_unavailable
  PROVE  OfferedOnceSeen' /\ SeenAll'
<1>1. platforms' = platforms /\ data' = data
      /\ platforms \in SUBSET {"sensor", "number"}
  BY DEF _mark_unavailable, DInv, TypeOK
<1>2. OfferedOnceSeen' /\ \A q \in platforms : Items(q, data) \subseteq seen'[q]
  BY <1>1, AddNewOnce DEF DInv, _mark_unavailable
<1> QED BY <1>1, <1>2 DEF SeenAll

LEMMA NothingWithoutData ==
  ASSUME NEW q
  PROVE  Items(q, NoData) = {}
BY FreshType DEF Items

LEMMA SetupDiscovers ==
  ASSUME DInv, NEW q \in {"sensor", "number"}, SetupPlatform(q)
  PROVE  OfferedOnceSeen' /\ SeenAll'
<1>1. platforms' = platforms \cup {q} /\ data' = data
  BY DEF SetupPlatform
<1>2. CASE data = NoData
  <2>1. UNCHANGED <<seen, offered>>
    BY <1>2 DEF SetupPlatform
  <2>2. \A r : Items(r, data') = {}
    BY <1>1, <1>2, NothingWithoutData
  <2> QED BY <2>1, <2>2 DEF DInv, OfferedOnceSeen, SeenAll
<1>3. CASE data # NoData
  <2>1. AddNew({q}, data) /\ {q} \in SUBSET {"sensor", "number"}
    BY <1>3 DEF SetupPlatform
  <2>2. /\ OfferedOnceSeen' /\ Items(q, data) \subseteq seen'[q]
        /\ \A r \in {"sensor", "number"} : seen[r] \subseteq seen'[r]
    BY <2>1, AddNewOnce DEF DInv
  <2>3. ~Raises(data) =>
          \A r \in platforms : Items(r, data) \subseteq seen'[r]
    BY <2>2 DEF DInv, SeenAll, TypeOK
  <2>4. Raises(data)' <=> Raises(data)
    BY <1>1 DEF Raises, Get
  <2> QED BY <1>1, <2>2, <2>3, <2>4 DEF SeenAll
<1> QED BY <1>2, <1>3

\* The actions that leave discovery alone.
LEMMA OthersDiscover ==
  ASSUME DInv, UNCHANGED <<platforms, data, seen, offered>>
  PROVE  OfferedOnceSeen' /\ SeenAll'
<1>1. Raises(data)' <=> Raises(data)
  BY DEF Raises, Get
<1> QED BY <1>1 DEF DInv, OfferedOnceSeen, SeenAll

\* Every module and cell of the last payload has been offered by each platform
\* that is set up, once (sensor.py, number.py, discover_new_ids), unless a
\* sensor raises at that payload; and none is ever offered twice.
THEOREM DiscoveredOnce == Spec => []OneEntityEach
<1>1. Init => OfferedOnceSeen /\ SeenAll
  <2> SUFFICES ASSUME Init PROVE OfferedOnceSeen /\ SeenAll
    OBVIOUS
  <2>1. \A e \in Entity : PlatformOf(e) \in {"sensor", "number"}
    BY DEF PlatformOf
  <2> QED BY <2>1 DEF Init, OfferedOnceSeen, SeenAll
<1>2. DInv /\ [Next]_vars => OfferedOnceSeen' /\ SeenAll'
  <2> SUFFICES ASSUME DInv, [Next]_vars PROVE OfferedOnceSeen' /\ SeenAll'
    OBVIOUS
  <2>1. CASE \E q \in {"sensor", "number"} : SetupPlatform(q)
    BY <2>1, SetupDiscovers
  <2>2. CASE \E p \in Payloads : _process_payload(p)
    BY <2>2, ProcessDiscovers
  <2>3. CASE \E b \in Batteries : async_added_to_hass(b)
    BY <2>3, OthersDiscover DEF async_added_to_hass, StartFrom
  <2>4. CASE \E b \in Batteries, v \in UserValues : async_set_native_value(b, v)
    BY <2>4, OthersDiscover DEF async_set_native_value
  <2>5. CASE RefreshTimer
    BY <2>5, OthersDiscover DEF RefreshTimer
  <2>6. CASE Reload
    <3>1. \A e \in Entity : PlatformOf(e) \in {"sensor", "number"}
      BY DEF PlatformOf
    <3> QED BY <2>6, <3>1 DEF Reload, OfferedOnceSeen, SeenAll
  <2>7. CASE UNCHANGED vars
    BY <2>7, OthersDiscover DEF vars
  <2>8. CASE _mark_unavailable
    BY <2>8, UnavailableDiscovers
  <2> QED BY <2>1, <2>2, <2>3, <2>4, <2>5, <2>6, <2>7, <2>8 DEF Next
<1>3. TypeOK /\ OfferedOnceSeen /\ SeenAll => OneEntityEach
  <2> SUFFICES ASSUME TypeOK, OfferedOnceSeen, SeenAll PROVE OneEntityEach
    OBVIOUS
  <2>1. \A e \in Entity : offered[e] <= 1
    BY DEF OfferedOnceSeen
  <2>2. ASSUME ~Raises(data), NEW q \in platforms, NEW e \in Items(q, data)
        PROVE  offered[e] = 1
    <3>1. q \in {"sensor", "number"} /\ e \in seen[q]
      BY <2>2 DEF TypeOK, SeenAll
    <3>2. PlatformOf(e) = q /\ e \in Entity
      BY <3>1, ItemsAreOwn DEF TypeOK
    <3> QED BY <3>1, <3>2 DEF OfferedOnceSeen
  <2> QED BY <2>1, <2>2 DEF OneEntityEach
<1> QED BY <1>1, <1>2, <1>3, TypeCorrect, PTL DEF Spec, DInv
-----------------------------------------------------------------------------
(***************************************************************************)
(* What the sensors of one device read from one object: a numeric sensor's *)
(* field is a number wherever it is filled from, and every sensor has a    *)
(* field.                                                                  *)
(***************************************************************************)
NumbersAreNumeric(table, fields) ==
  \A f \in fields : f.key \in table.numeric => f.kind = "number"

SensorsHaveFields(table, fields) ==
  \A key \in table.numeric \cup table.plain : \E f \in fields : f.key = key

LEMMA FieldOfKey ==
  ASSUME NEW keys, NEW kind, NEW from, NEW key \in keys
  PROVE  \E f \in Fields(keys, kind, from) : f.key = key
<1> DEFINE f == [key |-> key, kind |-> kind, from |-> from]
<1>1. f \in Fields(keys, kind, from) /\ f.key = key
  BY DEF Fields
<1> QED BY <1>1

LEMMA SystemAgrees ==
  /\ NumbersAreNumeric(SYSTEM_SENSORS, PylontechSystem)
  /\ SensorsHaveFields(SYSTEM_SENSORS, PylontechSystem)
<1>1. NumbersAreNumeric(SYSTEM_SENSORS, PylontechSystem)
  BY DEF NumbersAreNumeric, SYSTEM_SENSORS, PylontechSystem, Fields
<1>2. SensorsHaveFields(SYSTEM_SENSORS, PylontechSystem)
  <2> DEFINE K1 == {"voltage", "current", "soc", "power", "energy_in",
                  "energy_out", "energy_stored"}
           K2 == {"cell_count", "max_charge_curr", "max_dischg_curr"}
           K3 == {"spec", "barcode", "fw_version", "soft_version",
                  "board_version", "boot_version", "comm_version",
                  "release_date", "manufacturer", "model"}
           K4 == {"bms_time"}
           K5 == {"cycles", "soh", "charge_times", "discharge_cnt",
                  "idle_times", "shut_times", "reset_times", "sc_times",
                  "bat_ov_times", "bat_hv_times", "bat_lv_times",
                  "bat_uv_times", "pwr_ov_times", "pwr_hv_times",
                  "life_warn_times", "life_alarm_times", "pwr_coulomb",
                  "dsg_cap"}
  <2>1. SYSTEM_SENSORS.numeric \cup SYSTEM_SENSORS.plain \subseteq K1 \cup K2 \cup K3 \cup K4 \cup K5
    BY DEF SYSTEM_SENSORS
  <2>2. \A key \in K1 : \E f \in PylontechSystem : f.key = key
    <3>1. Fields(K1, "number", {"pwr"}) \subseteq PylontechSystem
      BY DEF PylontechSystem
    <3> HIDE DEF K1
    <3> QED BY <3>1, FieldOfKey
  <2>3. \A key \in K2 : \E f \in PylontechSystem : f.key = key
    <3>1. Fields(K2, "number", {"info"}) \subseteq PylontechSystem
      BY DEF PylontechSystem
    <3> HIDE DEF K2
    <3> QED BY <3>1, FieldOfKey
  <2>4. \A key \in K3 : \E f \in PylontechSystem : f.key = key
    <3>1. Fields(K3, "text", {"info"}) \subseteq PylontechSystem
      BY DEF PylontechSystem
    <3> HIDE DEF K3
    <3> QED BY <3>1, FieldOfKey
  <2>5. \A key \in K4 : \E f \in PylontechSystem : f.key = key
    <3>1. Fields(K4, "text", {"time"}) \subseteq PylontechSystem
      BY DEF PylontechSystem
    <3> HIDE DEF K4
    <3> QED BY <3>1, FieldOfKey
  <2>6. \A key \in K5 : \E f \in PylontechSystem : f.key = key
    <3>1. Fields(K5, "number", {"stat"}) \subseteq PylontechSystem
      BY DEF PylontechSystem
    <3> HIDE DEF K5
    <3> QED BY <3>1, FieldOfKey
  <2> HIDE DEF K1, K2, K3, K4, K5
  <2> QED BY <2>1, <2>2, <2>3, <2>4, <2>5, <2>6 DEF SensorsHaveFields
<1> QED BY <1>1, <1>2

LEMMA BatteryAgrees ==
  /\ NumbersAreNumeric(BATTERY_SENSORS, PylontechBattery)
  /\ SensorsHaveFields(BATTERY_SENSORS, PylontechBattery)
<1>1. NumbersAreNumeric(BATTERY_SENSORS, PylontechBattery)
  BY DEF NumbersAreNumeric, BATTERY_SENSORS, PylontechBattery, Fields
<1>2. SensorsHaveFields(BATTERY_SENSORS, PylontechBattery)
  <2> DEFINE K1 == {"sys_id", "voltage", "current", "temperature", "soc",
                  "power", "energy_stored"}
           K2 == {"status"}
           K3 == {"temp_low", "temp_high", "volt_low", "volt_high"}
           K4 == {"batt_volt_status", "batt_temp_status"}
           K5 == {"volt_status", "curr_status", "temp_status"}
           K6 == {"coul_status"}
           K7 == {"bat_events", "power_events", "sys_fault"}
  <2>1. BATTERY_SENSORS.numeric \cup BATTERY_SENSORS.plain \subseteq K1 \cup K2 \cup K3 \cup K4 \cup K5 \cup K6 \cup K7
    BY DEF BATTERY_SENSORS
  <2>2. \A key \in K1 : \E f \in PylontechBattery : f.key = key
    <3>1. Fields(K1, "number", {"pwr"}) \subseteq PylontechBattery
      BY DEF PylontechBattery
    <3> HIDE DEF K1
    <3> QED BY <3>1, FieldOfKey
  <2>3. \A key \in K2 : \E f \in PylontechBattery : f.key = key
    <3>1. Fields(K2, "text", {"pwr"}) \subseteq PylontechBattery
      BY DEF PylontechBattery
    <3> HIDE DEF K2
    <3> QED BY <3>1, FieldOfKey
  <2>4. \A key \in K3 : \E f \in PylontechBattery : f.key = key
    <3>1. Fields(K3, "number", {"table"}) \subseteq PylontechBattery
      BY DEF PylontechBattery
    <3> HIDE DEF K3
    <3> QED BY <3>1, FieldOfKey
  <2>5. \A key \in K4 : \E f \in PylontechBattery : f.key = key
    <3>1. Fields(K4, "text", {"table"}) \subseteq PylontechBattery
      BY DEF PylontechBattery
    <3> HIDE DEF K4
    <3> QED BY <3>1, FieldOfKey
  <2>6. \A key \in K5 : \E f \in PylontechBattery : f.key = key
    <3>1. Fields(K5, "text", {"table", "detail"}) \subseteq PylontechBattery
      BY DEF PylontechBattery
    <3> HIDE DEF K5
    <3> QED BY <3>1, FieldOfKey
  <2>7. \A key \in K6 : \E f \in PylontechBattery : f.key = key
    <3>1. Fields(K6, "text", {"detail"}) \subseteq PylontechBattery
      BY DEF PylontechBattery
    <3> HIDE DEF K6
    <3> QED BY <3>1, FieldOfKey
  <2>8. \A key \in K7 : \E f \in PylontechBattery : f.key = key
    <3>1. Fields(K7, "number", {"detail"}) \subseteq PylontechBattery
      BY DEF PylontechBattery
    <3> HIDE DEF K7
    <3> QED BY <3>1, FieldOfKey
  <2> HIDE DEF K1, K2, K3, K4, K5, K6, K7
  <2> QED BY <2>1, <2>2, <2>3, <2>4, <2>5, <2>6, <2>7, <2>8 DEF SensorsHaveFields
<1> QED BY <1>1, <1>2

LEMMA CellAgrees ==
  /\ NumbersAreNumeric(CELL_SENSORS, PylontechCell)
  /\ SensorsHaveFields(CELL_SENSORS, PylontechCell)
<1>1. NumbersAreNumeric(CELL_SENSORS, PylontechCell)
  BY DEF NumbersAreNumeric, CELL_SENSORS, PylontechCell, Fields
<1>2. SensorsHaveFields(CELL_SENSORS, PylontechCell)
  BY FieldOfKey DEF SensorsHaveFields, CELL_SENSORS, PylontechCell
<1> QED BY <1>1, <1>2

LEMMA MeasuredAreNumbers == \A f \in Measured : f.kind = "number"
<1>1. ASSUME NEW r \in ReadBy, NEW f \in r.fields, f.key \in r.sensors.numeric
      PROVE  f.kind = "number"
  <2>1. NumbersAreNumeric(r.sensors, r.fields)
    BY SystemAgrees, BatteryAgrees, CellAgrees DEF ReadBy
  <2> QED BY <1>1, <2>1 DEF NumbersAreNumeric
<1> QED BY <1>1 DEF Measured

LEMMA SensorsHaveKeys ==
  ASSUME NEW r \in ReadBy
  PROVE  r.sensors.numeric \cup r.sensors.plain \subseteq {f.key : f \in r.fields}
<1>1. SensorsHaveFields(r.sensors, r.fields)
  BY SystemAgrees, BatteryAgrees, CellAgrees DEF ReadBy
<1> QED BY <1>1 DEF SensorsHaveFields

\* sensor.py and structs.py agree: every sensor reads a field the sidecar has,
\* and no payload with the sidecar's kinds makes a numeric sensor raise,
\* whatever commands it was filled by and whatever their replies lack.
THEOREM SensorsAgree == Spec => []SensorsReadable
<1>1. data.odd = {} => ~Raises(data)
  BY MeasuredAreNumbers DEF Raises, Get
<1>2. SensorsReadable
  BY <1>1, SensorsHaveKeys DEF SensorsReadable
<1> QED BY <1>2, PTL
=============================================================================
