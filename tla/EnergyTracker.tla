--------------------------- MODULE EnergyTracker ---------------------------
(***************************************************************************)
(* The sidecar's energy counters (class EnergyTracker of src/src/main.py): *)
(* trapezoidal integration of the polled power into energy_in/energy_out,  *)
(* periodic checkpoints written to a temporary file and renamed into       *)
(* place, the final flush of a clean shutdown, and the reload on restart.  *)
(*                                                                         *)
(* update() and _save() are cut at every statement where the process may   *)
(* be interrupted (SIGTERM, raised as KeyboardInterrupt by the handler of  *)
(* main()) or killed.  Time is a discrete clock.  Energies are kept in     *)
(* units of 1/(2*Scale) watt-second, so that a zero crossing that falls    *)
(* between two clock values is still exact.                                *)
(***************************************************************************)
EXTENDS Integers

CONSTANTS
  Powers,        \* the values system.power takes
  MaxInterval,   \* _MAX_INTERVAL_SECONDS
  SaveInterval,  \* _SAVE_INTERVAL_SECONDS
  MaxSaveTime,   \* longest time one update() spends (its fsync, in practice)
  Scale,         \* unit of energy, divisible by every power difference
  StateFile,     \* ENERGY_STATE_FILE is not empty
  InitialFiles,  \* what the state file may hold before the first start
  MaxTime,       \* bound on the clock, for TLC
  None,          \* Python's None
  NoFile,        \* open() raises FileNotFoundError
  Corrupt,       \* bad JSON, missing key, negative or non-finite number
  BadType        \* JSON of another shape: a list, null, {"energy_in": null}

Distance(x, y) == IF x >= y THEN x - y ELSE y - x

\* What the counters hold.  covered is history: the seconds of operation whose
\* energy they contain.
Counters == [energy_in : Nat, energy_out : Nat, covered : Nat]

Zero == [energy_in |-> 0, energy_out |-> 0, covered |-> 0]

ASSUME TimeAssumption ==
  /\ MaxInterval \in Nat
  /\ SaveInterval \in Nat \ {0}
  /\ MaxSaveTime \in Nat
  /\ MaxTime \in Nat
  /\ StateFile \in BOOLEAN

ASSUME PowerAssumption ==
  /\ Powers \subseteq Int
  /\ Scale \in Nat \ {0}
  /\ \A s, e \in Powers : s * e < 0 =>
       /\ Scale \div Distance(s, e) \in Nat \ {0}
       /\ (Scale \div Distance(s, e)) * Distance(s, e) = Scale

ASSUME ValueAssumption ==
  /\ None \notin Int
  /\ {NoFile, Corrupt, BadType} \cap Counters = {}
  /\ NoFile # Corrupt /\ NoFile # BadType /\ Corrupt # BadType

ASSUME FileAssumption ==
  InitialFiles \subseteq
    {NoFile, Corrupt, BadType} \cup {c \in Counters : c.covered = 0}

VARIABLES
  clock,           \* time.monotonic()
  pc,              \* the statement the process is about to run
  energy,          \* self.energy_in, self.energy_out
  last_time,       \* self._last_time
  last_power,      \* self._last_power
  last_save_time,  \* self._last_save_time
  dirty,           \* self._dirty
  now,             \* local of update(): the time of the latest sample
  power,           \* argument of update(): the latest sample
  file,            \* the state file
  tmp,             \* the temporary file beside it
  stopping,        \* _clean_shutdown() is running
  failed,          \* history: the latest attempt to save failed
  cut              \* history: a signal kept update() from setting _dirty

memory  == <<energy, last_time, last_power, last_save_time, dirty>>
disk    == <<file, tmp>>
history == <<failed, cut>>
vars    == <<clock, pc, memory, now, power, disk, stopping, history>>

Contents == Counters \cup {NoFile, Corrupt, BadType}

TypeOK ==
  /\ clock \in Nat
  /\ pc \in {"down", "idle", "integrate", "mark", "write", "replace",
             "record", "exit"}
  /\ energy \in Counters
  /\ last_time \in Nat \cup {None}
  /\ last_power \in Powers \cup {None}
  /\ last_save_time \in Nat \cup {None}
  /\ now \in Nat
  /\ power \in Powers \cup {None}
  /\ file \in Contents
  /\ tmp \in Contents
  /\ {dirty, stopping, failed, cut} \subseteq BOOLEAN

-----------------------------------------------------------------------------
(* Integration: _integrate and _integrate_segment.                         *)

\* One segment, of t scaled seconds; start + end is twice the average power.
_integrate_segment(c, start, end, t) ==
  IF start + end >= 0
    THEN [c EXCEPT !.energy_in  = @ + (start + end) * t]
    ELSE [c EXCEPT !.energy_out = @ - (start + end) * t]

Straddles(start, end) == start * end < 0

\* elapsed * start / (start - end), in scaled seconds.
CrossingSeconds(start, end, elapsed) ==
  LET unit == Scale \div Distance(start, end)
  IN  elapsed * (unit * Distance(start, 0))

BeforeCrossing(c, start, end, elapsed) ==
  _integrate_segment(c, start, 0, CrossingSeconds(start, end, elapsed))

\* Fault variant: no split at the zero crossing.
IntegrateWithoutSplit(c, start, end, elapsed) ==
  _integrate_segment(c, start, end, Scale * elapsed)

_integrate(c, start, end, elapsed) ==
  IF Straddles(start, end)
    THEN _integrate_segment(BeforeCrossing(c, start, end, elapsed), 0, end,
           Scale * elapsed - CrossingSeconds(start, end, elapsed))
    ELSE _integrate_segment(c, start, end, Scale * elapsed)

\* The counters once an interval of the given length is accounted for.
Covering(c, elapsed) == [c EXCEPT !.covered = @ + elapsed]

-----------------------------------------------------------------------------
(* Start: __init__ and _load.                                              *)

Loaded(f) == IF f \in Counters THEN f ELSE Zero

Init ==
  /\ clock = 0
  /\ pc = "down"
  /\ energy = Zero
  /\ last_time = None /\ last_power = None /\ last_save_time = None
  /\ dirty = FALSE
  /\ now = 0 /\ power = None
  /\ file \in InitialFiles
  /\ tmp = NoFile
  /\ stopping = FALSE
  /\ failed = FALSE /\ cut = FALSE

\* float(data["energy_in"]) raises TypeError on a value of another shape, which
\* _load does not catch: the constructor raises and the process does not start.
Start ==
  /\ pc = "down"
  /\ StateFile => file # BadType
  /\ pc' = "idle"
  /\ energy' = IF StateFile THEN Loaded(file) ELSE Zero
  /\ last_time' = None /\ last_power' = None /\ last_save_time' = None
  /\ dirty' = FALSE
  /\ now' = clock /\ power' = None
  /\ stopping' = FALSE
  /\ failed' = FALSE /\ cut' = FALSE
  /\ UNCHANGED <<clock, disk>>

-----------------------------------------------------------------------------
(* update().                                                               *)

Integrable(t) ==
  /\ last_time # None /\ last_power # None
  /\ t > last_time
  /\ t - last_time <= MaxInterval

\* self._last_time = now; self._last_power = power_w
Remember(t, p) == last_time' = t /\ last_power' = p

\* Fault variant: the sample time is not moved after an integrated interval.
FinishUpdateKeepingTime ==
  /\ last_time' = last_time /\ last_power' = power
  /\ pc' = "idle"

\* The end of update(), reached once its interval has been integrated.
FinishUpdate ==
  /\ Remember(now, power)
  /\ pc' = "idle"

\* update(p) on a first sample, after a gap, or at an unchanged clock: nothing
\* to integrate, the sample only replaces the previous one.
SkipInterval(p) ==
  /\ pc = "idle"
  /\ ~Integrable(clock)
  /\ now' = clock /\ power' = p
  /\ Remember(clock, p)
  /\ UNCHANGED <<clock, pc, energy, last_save_time, dirty, disk, stopping,
                 history>>

BeginInterval(p) ==
  /\ pc = "idle"
  /\ Integrable(clock)
  /\ now' = clock /\ power' = p
  /\ pc' = "integrate"
  /\ UNCHANGED <<clock, memory, disk, stopping, history>>

Integrate ==
  /\ pc = "integrate"
  /\ energy' = Covering(_integrate(energy, last_power, power, now - last_time),
                        now - last_time)
  /\ pc' = "mark"
  /\ UNCHANGED <<clock, last_time, last_power, last_save_time, dirty, now,
                 power, disk, stopping, history>>

\* Fault variant: only a checkpoint that already exists is ever refreshed.
SaveDueOnceSaved ==
  StateFile /\ last_save_time # None /\ now - last_save_time >= SaveInterval

SaveDue ==
  /\ StateFile
  /\ \/ last_save_time = None
     \/ now - last_save_time >= SaveInterval

\* self._dirty = True, and the decision to save.
MarkDirty ==
  /\ pc = "mark"
  /\ dirty' = TRUE
  /\ IF SaveDue
       THEN pc' = "write" /\ UNCHANGED <<last_time, last_power>>
       ELSE FinishUpdate
  /\ UNCHANGED <<clock, energy, last_save_time, now, power, disk, stopping,
                 history>>

-----------------------------------------------------------------------------
(* _save().                                                                *)

\* _save() returns: to flush() when stopping, to update() otherwise.
ReturnFromSave ==
  IF stopping
    THEN pc' = "exit" /\ UNCHANGED <<last_time, last_power>>
    ELSE FinishUpdate

\* Fault variant: the content goes straight to the state file, so a process that
\* dies here leaves it half written.
WriteInPlace ==
  /\ pc = "write"
  /\ file' \in {Corrupt, energy}
  /\ tmp' = energy
  /\ pc' = "replace"
  /\ UNCHANGED <<clock, memory, now, power, stopping, history>>

\* The temporary file is written, flushed and synced.
WriteTmp ==
  /\ pc = "write"
  /\ tmp' = energy
  /\ pc' = "replace"
  /\ UNCHANGED <<clock, memory, now, power, file, stopping, history>>

\* os.replace
Replace ==
  /\ pc = "replace"
  /\ file' = tmp
  /\ tmp' = NoFile
  /\ pc' = "record"
  /\ UNCHANGED <<clock, memory, now, power, stopping, history>>

Record ==
  /\ pc = "record"
  /\ last_save_time' = clock
  /\ dirty' = FALSE
  /\ failed' = FALSE
  /\ ReturnFromSave
  /\ UNCHANGED <<clock, energy, now, power, disk, stopping, cut>>

\* An OSError in makedirs, open, write, fsync or replace is logged and dropped.
SaveFails ==
  /\ pc \in {"write", "replace"}
  /\ IF pc = "write" THEN tmp' \in {tmp, Corrupt} ELSE tmp' = tmp
  /\ failed' = TRUE
  /\ ReturnFromSave
  /\ UNCHANGED <<clock, energy, last_save_time, dirty, now, power, file,
                 stopping, cut>>

-----------------------------------------------------------------------------
(* invalidate_last_time(), flush() from _clean_shutdown(), and the end of  *)
(* the process.                                                            *)

Invalidate ==
  /\ pc = "idle"
  /\ last_time' = None /\ last_power' = None
  /\ UNCHANGED <<clock, pc, energy, last_save_time, dirty, now, power, disk,
                 stopping, history>>

\* Fault variant: flush() looks at the interval, as update() does.
FlushWhenDue == IF SaveDue /\ dirty THEN "write" ELSE "exit"

flush == IF StateFile /\ dirty THEN "write" ELSE "exit"

\* SIGTERM: whatever statement it lands on, _clean_shutdown() runs flush().
Interrupt ==
  /\ pc \notin {"down", "exit"} /\ ~stopping
  /\ stopping' = TRUE
  /\ pc' = flush
  /\ cut' = (pc = "mark" /\ ~dirty)
  /\ UNCHANGED <<clock, memory, now, power, disk, failed>>

\* SIGTERM between the two segments of a zero crossing.
InterruptAtCrossing ==
  /\ pc = "integrate" /\ ~stopping
  /\ Straddles(last_power, power)
  /\ energy' = Covering(BeforeCrossing(energy, last_power, power,
                                       now - last_time), now - last_time)
  /\ stopping' = TRUE
  /\ pc' = flush
  /\ cut' = ~dirty
  /\ UNCHANGED <<clock, last_time, last_power, last_save_time, dirty, now,
                 power, disk, failed>>

\* sys.exit(0): the memory is gone, the disk stays.
Exit ==
  /\ pc = "exit"
  /\ pc' = "down"
  /\ UNCHANGED <<clock, memory, now, power, disk, stopping, history>>

\* SIGKILL, the power cut, or a second SIGTERM: at any statement.
Kill ==
  /\ pc # "down"
  /\ pc' = "down"
  /\ IF pc = "write" THEN tmp' \in {tmp, Corrupt} ELSE tmp' = tmp
  /\ UNCHANGED <<clock, memory, now, power, file, stopping, history>>

-----------------------------------------------------------------------------

Tick ==
  /\ clock < MaxTime
  /\ pc \notin {"idle", "down"} => clock < now + MaxSaveTime
  /\ clock' = clock + 1
  /\ UNCHANGED <<pc, memory, now, power, disk, stopping, history>>

Next ==
  \/ Start \/ Invalidate
  \/ \E p \in Powers : SkipInterval(p) \/ BeginInterval(p)
  \/ Integrate \/ MarkDirty
  \/ WriteTmp \/ Replace \/ Record \/ SaveFails
  \/ Interrupt \/ InterruptAtCrossing \/ Exit \/ Kill
  \/ Tick

Spec == Init /\ [][Next]_vars

-----------------------------------------------------------------------------
(* Properties.                                                             *)

Unsaved == energy.covered - Loaded(file).covered

\* Between two updates, as long as saving works, what a crash would lose was
\* accumulated in less than one checkpoint interval plus the time one update
\* may take: last_save_time is read after the sync, so the sample that was
\* saved is older than it.
CrashLossBounded ==
  StateFile /\ pc = "idle" /\ ~failed => Unsaved < SaveInterval + MaxSaveTime

\* A clean shutdown whose save succeeds leaves in the state file everything the
\* process had counted; only when the signal falls between the integration of
\* an interval and the assignment of _dirty is that one interval missing.
FlushKeepsEverything ==
  StateFile /\ pc = "exit" /\ ~failed =>
    IF cut THEN Unsaved = now - last_time ELSE Loaded(file) = energy

\* No second of operation is integrated twice, over any number of restarts,
\* crashes and reloads.
NeverCountedTwice ==
  energy.covered <= clock /\ Loaded(file).covered <= clock

\* No step, not even a crash in the middle of a save, turns a readable state
\* file into one that _load() rejects.
FileNeverTorn == [][file' \in {Corrupt, BadType} => file' = file]_vars

\* One interval adds its signed trapezoid to the net of the two counters, and
\* a change of sign inside it feeds both counters.
IntegrationFaithful ==
  [][Integrate =>
       /\ energy'.energy_in - energy'.energy_out =
            energy.energy_in - energy.energy_out
              + Scale * (last_power + power) * (now - last_time)
       /\ Straddles(last_power, power) =>
            /\ energy'.energy_in > energy.energy_in
            /\ energy'.energy_out > energy.energy_out]_vars

\* The counters Home Assistant sees as ever increasing totals go down only when
\* a new process loads an older checkpoint.
CountersNeverDecrease ==
  [][pc # "down" =>
       /\ energy'.energy_in >= energy.energy_in
       /\ energy'.energy_out >= energy.energy_out]_vars

-----------------------------------------------------------------------------
(* The inductive invariant behind the safety properties.                   *)

InUpdate == pc \notin {"down", "idle", "exit"} /\ ~stopping

\* What each control point knows of the sample times.
SampleOrder ==
  /\ now <= clock
  /\ last_time # None => last_time <= now
  /\ pc = "idle" /\ last_time # None => last_time = now
  /\ pc \in {"idle", "integrate", "mark"} => ~stopping
  /\ pc = "exit" => stopping
  /\ InUpdate =>
       /\ last_time # None /\ last_power # None /\ power # None
       /\ last_time < now /\ now - last_time <= MaxInterval
       /\ clock <= now + MaxSaveTime

\* What each control point knows of the seconds covered.
Coverage ==
  /\ energy.covered <= now
  /\ pc = "integrate" => energy.covered <= last_time
  /\ Loaded(file).covered <= clock

\* What each control point knows of the disk.
Checkpointed ==
  /\ pc \in {"write", "replace"} => StateFile /\ dirty
  /\ pc = "replace" => tmp = energy
  /\ pc = "record" => file = energy
  /\ StateFile /\ ~dirty =>
       /\ pc \in {"idle", "integrate"} => Loaded(file) = energy
       /\ pc = "mark" => Unsaved = now - last_time
  /\ pc \notin {"down", "exit"} => ~cut
  /\ FlushKeepsEverything

\* How old the energy missing from the disk can be.
UnsavedSince(t) ==
  IF last_save_time = None
    THEN Unsaved <= 0
    ELSE Unsaved <= t - last_save_time + MaxSaveTime

UnsavedAge ==
  StateFile /\ ~failed =>
    /\ pc = "idle" => UnsavedSince(now) /\ CrashLossBounded
    /\ pc = "integrate" => UnsavedSince(last_time)
    /\ pc = "mark" /\ last_save_time # None => UnsavedSince(now)

IInv == TypeOK /\ SampleOrder /\ Coverage /\ Checkpointed /\ UnsavedAge
=============================================================================
