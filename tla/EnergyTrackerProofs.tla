------------------------ MODULE EnergyTrackerProofs ------------------------
(***************************************************************************)
(* Proofs about EnergyTracker, for every set of powers, every interval and *)
(* every content of the state file the assumptions of the module allow.    *)
(***************************************************************************)
EXTENDS EnergyTracker, TLAPS

-----------------------------------------------------------------------------
(* The integration.                                                        *)

\* The product of two counts is a count (elapsed seconds times a power).
LEMMA ProductNat ==
  ASSUME NEW a \in Nat, NEW b \in Nat
  PROVE  a * b \in Nat
  OBVIOUS

\* A positive power over a positive time is a positive energy.
LEMMA ProductPositive ==
  ASSUME NEW a \in Nat, NEW b \in Nat, a > 0, b > 0
  PROVE  a * b > 0
  OBVIOUS

\* Two powers of opposite sign, without products.
LEMMA StraddleSigns ==
  ASSUME NEW s \in Int, NEW e \in Int, Straddles(s, e)
  PROVE  (s > 0 /\ e < 0) \/ (s < 0 /\ e > 0)
  BY DEF Straddles

\* A segment only ever adds to one of the two counters.
LEMMA SegmentGrows ==
  ASSUME NEW c \in Counters, NEW s \in Int, NEW e \in Int, NEW t \in Nat
  PROVE  LET d == _integrate_segment(c, s, e, t)
         IN  /\ d \in Counters
             /\ d.covered = c.covered
             /\ d.energy_in >= c.energy_in
             /\ d.energy_out >= c.energy_out
             /\ d.energy_in - d.energy_out =
                  c.energy_in - c.energy_out + (s + e) * t
             /\ s + e > 0 /\ t > 0 => d.energy_in > c.energy_in
             /\ s + e < 0 /\ t > 0 => d.energy_out > c.energy_out
<1>1. CASE s + e >= 0
  <2>1. (s + e) * t \in Nat /\ (s + e > 0 /\ t > 0 => (s + e) * t > 0)
    BY <1>1, ProductNat, ProductPositive
  <2> QED
    BY <1>1, <2>1 DEF _integrate_segment, Counters
<1>2. CASE ~(s + e >= 0)
  <2>1. /\ (0 - (s + e)) * t \in Nat
        /\ t > 0 => (0 - (s + e)) * t > 0
    BY <1>2, ProductNat, ProductPositive
  <2> DEFINE k == (0 - (s + e)) * t
  <2>2. (s + e) * t = 0 - k /\ (s + e) * t \in Int
    OBVIOUS
  <2>3. _integrate_segment(c, s, e, t) = [c EXCEPT !.energy_out = @ + k]
    <3>1. c.energy_out \in Nat
      BY DEF Counters
    <3>2. c.energy_out - (s + e) * t = c.energy_out + k
      BY <2>1, <2>2, <3>1
    <3> QED
      BY <1>2, <3>2 DEF _integrate_segment
  <2> HIDE DEF k
  <2>4. k \in Nat /\ (t > 0 => k > 0)
    BY <2>1 DEF k
  <2> DEFINE d == [c EXCEPT !.energy_out = @ + k]
  <2>5. /\ d \in Counters
        /\ d.covered = c.covered
        /\ d.energy_in = c.energy_in
        /\ d.energy_out = c.energy_out + k
        /\ c.energy_in \in Nat /\ c.energy_out \in Nat
    BY <2>4 DEF Counters
  <2> HIDE DEF d
  <2>6. d.energy_in - d.energy_out = c.energy_in - c.energy_out + (s + e) * t
    <3> DEFINE m == (s + e) * t
    <3>1. m = 0 - k /\ m \in Int
      BY <2>2
    <3> HIDE DEF m
    <3>2. d.energy_in - d.energy_out = c.energy_in - c.energy_out + m
      BY <2>4, <2>5, <3>1
    <3> QED
      BY <3>2 DEF m
  <2>7. s + e < 0 /\ t > 0 => d.energy_out > c.energy_out
    BY <2>4, <2>5
  <2>8. _integrate_segment(c, s, e, t) = d
    BY <2>3 DEF d
  <2> QED
    BY <1>2, <2>4, <2>5, <2>6, <2>7, <2>8
<1> QED
  BY <1>1, <1>2

\* The algebra of a zero crossing between a and -b, u being Scale / (a + b).
LEMMA CrossingAlgebra ==
  ASSUME NEW a \in Nat, NEW b \in Nat, NEW u \in Nat, NEW t \in Nat
  PROVE  /\ (u * (a + b)) * t - t * (u * a) = t * (u * b)
         /\ a * (t * (u * a)) - b * (t * (u * b)) = (u * (a + b)) * (a - b) * t
  OBVIOUS

\* The unit of the scaled seconds of an interval that changes sign.
LEMMA CrossingUnit ==
  ASSUME NEW s \in Powers, NEW e \in Powers, Straddles(s, e)
  PROVE  LET u == Scale \div Distance(s, e)
             a == Distance(s, 0)
             b == Distance(e, 0)
         IN  /\ u \in Nat \ {0} /\ a \in Nat \ {0} /\ b \in Nat \ {0}
             /\ u * (a + b) = Scale
             /\ (s > 0 /\ s = a /\ e = -b) \/ (s < 0 /\ s = -a /\ e = b)
<1>1. s \in Int /\ e \in Int
  BY PowerAssumption
<1>2. /\ Scale \div Distance(s, e) \in Nat \ {0}
      /\ (Scale \div Distance(s, e)) * Distance(s, e) = Scale
  BY PowerAssumption DEF Straddles
<1>3. /\ Distance(s, 0) \in Nat \ {0} /\ Distance(e, 0) \in Nat \ {0}
      /\ Distance(s, e) = Distance(s, 0) + Distance(e, 0)
      /\ \/ s > 0 /\ s = Distance(s, 0) /\ e = -Distance(e, 0)
         \/ s < 0 /\ s = -Distance(s, 0) /\ e = Distance(e, 0)
  BY <1>1, StraddleSigns DEF Distance
<1> QED
  BY <1>2, <1>3

\* The seconds before and after the crossing, both positive.
LEMMA CrossingSplit ==
  ASSUME NEW s \in Powers, NEW e \in Powers, Straddles(s, e),
         NEW t \in Nat, t > 0
  PROVE  LET u == Scale \div Distance(s, e)
         IN  /\ CrossingSeconds(s, e, t) = t * (u * Distance(s, 0))
             /\ Scale * t - CrossingSeconds(s, e, t) = t * (u * Distance(e, 0))
             /\ CrossingSeconds(s, e, t) \in Nat \ {0}
             /\ Scale * t - CrossingSeconds(s, e, t) \in Nat \ {0}
<1> DEFINE u == Scale \div Distance(s, e)
           a == Distance(s, 0)
           b == Distance(e, 0)
<1>1. u \in Nat \ {0} /\ a \in Nat \ {0} /\ b \in Nat \ {0} /\ u * (a + b) = Scale
  BY CrossingUnit
<1>2. CrossingSeconds(s, e, t) = t * (u * a)
  BY DEF CrossingSeconds
<1> HIDE DEF u, a, b
<1>3. Scale * t - t * (u * a) = t * (u * b)
  BY <1>1, CrossingAlgebra
<1>4. u * a \in Nat \ {0} /\ u * b \in Nat \ {0}
  BY <1>1, ProductNat, ProductPositive
<1>5. t * (u * a) \in Nat \ {0} /\ t * (u * b) \in Nat \ {0}
  <2> DEFINE x == u * a
             y == u * b
  <2>1. x \in Nat \ {0} /\ y \in Nat \ {0}
    BY <1>4
  <2> HIDE DEF x, y
  <2>2. t * x \in Nat \ {0} /\ t * y \in Nat \ {0}
    BY <2>1, ProductNat, ProductPositive
  <2> QED
    BY <2>2 DEF x, y
<1> QED
  BY <1>2, <1>3, <1>5 DEF u, a, b

\* _integrate adds its signed trapezoid to the net of the counters, never takes
\* anything away from either, and feeds both when the power changes sign.
THEOREM IntegrateCorrect ==
  ASSUME NEW c \in Counters, NEW s \in Powers, NEW e \in Powers,
         NEW t \in Nat, t > 0
  PROVE  LET d == _integrate(c, s, e, t)
         IN  /\ d \in Counters
             /\ d.covered = c.covered
             /\ d.energy_in >= c.energy_in
             /\ d.energy_out >= c.energy_out
             /\ d.energy_in - d.energy_out =
                  c.energy_in - c.energy_out + Scale * (s + e) * t
             /\ Straddles(s, e) => /\ d.energy_in > c.energy_in
                                   /\ d.energy_out > c.energy_out
<1>0. s \in Int /\ e \in Int /\ Scale \in Nat \ {0}
  BY PowerAssumption
<1>1. CASE ~Straddles(s, e)
  <2>1. Scale * t \in Nat
    BY <1>0, ProductNat
  <2>2. (s + e) * (Scale * t) = Scale * (s + e) * t
    BY <1>0
  <2>3. _integrate(c, s, e, t) = _integrate_segment(c, s, e, Scale * t)
    BY <1>1 DEF _integrate
  <2> QED
    BY <1>0, <1>1, <2>1, <2>2, <2>3, SegmentGrows
<1>2. CASE Straddles(s, e)
  <2> DEFINE u  == Scale \div Distance(s, e)
             a  == Distance(s, 0)
             b  == Distance(e, 0)
             t1 == CrossingSeconds(s, e, t)
             t2 == Scale * t - t1
             c1 == _integrate_segment(c, s, 0, t1)
             c2 == _integrate_segment(c1, 0, e, t2)
  <2>1. /\ u \in Nat \ {0} /\ a \in Nat \ {0} /\ b \in Nat \ {0}
        /\ u * (a + b) = Scale
        /\ (s > 0 /\ s = a /\ e = -b) \/ (s < 0 /\ s = -a /\ e = b)
    BY <1>2, CrossingUnit
  <2>2. /\ t1 = t * (u * a) /\ t2 = t * (u * b)
        /\ t1 \in Nat \ {0} /\ t2 \in Nat \ {0}
    BY <1>2, CrossingSplit
  <2>3. _integrate(c, s, e, t) = c2
    BY <1>2 DEF _integrate, BeforeCrossing
  <2>4. s * t1 + e * t2 = Scale * (s + e) * t
    <3> HIDE DEF t1, t2, a, b, u
    <3>1. a * t1 - b * t2 = (u * (a + b)) * (a - b) * t
      BY <2>1, <2>2, CrossingAlgebra
    <3>2. a * t1 - b * t2 = Scale * (a - b) * t
      BY <2>1, <3>1
    <3>3. CASE s = a /\ e = -b
      BY <2>1, <2>2, <3>2, <3>3
    <3>4. CASE s = -a /\ e = b
      <4>1. s * t1 + e * t2 = -(a * t1 - b * t2)
        BY <2>1, <2>2, <3>4
      <4>2. -(Scale * (a - b) * t) = Scale * (b - a) * t
        BY <1>0, <2>1
      <4> QED
        BY <2>1, <3>2, <3>4, <4>1, <4>2
    <3> QED
      BY <2>1, <3>3, <3>4
  <2> HIDE DEF t1, t2, a, b, u
  <2>5. /\ c1 \in Counters /\ c1.covered = c.covered
        /\ c1.energy_in >= c.energy_in /\ c1.energy_out >= c.energy_out
        /\ c1.energy_in - c1.energy_out = c.energy_in - c.energy_out + s * t1
        /\ s > 0 => c1.energy_in > c.energy_in
        /\ s < 0 => c1.energy_out > c.energy_out
    <3>1. s + 0 = s /\ 0 \in Int
      BY <1>0
    <3> QED
      BY <1>0, <2>2, <3>1, SegmentGrows
  <2> HIDE DEF c1
  <2>6. /\ c2 \in Counters /\ c2.covered = c1.covered
        /\ c2.energy_in >= c1.energy_in /\ c2.energy_out >= c1.energy_out
        /\ c2.energy_in - c2.energy_out = c1.energy_in - c1.energy_out + e * t2
        /\ e > 0 => c2.energy_in > c1.energy_in
        /\ e < 0 => c2.energy_out > c1.energy_out
    <3>1. 0 + e = e /\ 0 \in Int
      BY <1>0
    <3> QED
      BY <1>0, <2>2, <2>5, <3>1, SegmentGrows
  <2> HIDE DEF c2
  <2>7. /\ c.energy_in \in Nat /\ c.energy_out \in Nat
        /\ c1.energy_in \in Nat /\ c1.energy_out \in Nat
        /\ c2.energy_in \in Nat /\ c2.energy_out \in Nat
    BY <2>5, <2>6 DEF Counters
  <2>8. c2.energy_in >= c.energy_in /\ c2.energy_out >= c.energy_out
    BY <2>5, <2>6, <2>7
  <2>9. c2.energy_in - c2.energy_out =
          c.energy_in - c.energy_out + Scale * (s + e) * t
    <3> DEFINE x == s * t1
               y == e * t2
    <3>1. x \in Int /\ y \in Int /\ x + y = Scale * (s + e) * t
      BY <1>0, <2>2, <2>4
    <3>2. /\ c1.energy_in - c1.energy_out = c.energy_in - c.energy_out + x
          /\ c2.energy_in - c2.energy_out = c1.energy_in - c1.energy_out + y
      BY <2>5, <2>6
    <3> HIDE DEF x, y
    <3> QED
      BY <2>7, <3>1, <3>2
  <2>10. c2.energy_in > c.energy_in /\ c2.energy_out > c.energy_out
    BY <1>0, <1>2, <2>5, <2>6, <2>7, StraddleSigns
  <2> QED
    BY <2>3, <2>5, <2>6, <2>8, <2>9, <2>10
<1> QED
  BY <1>1, <1>2

\* The first segment alone keeps the counters well formed.
LEMMA BeforeCrossingType ==
  ASSUME NEW c \in Counters, NEW s \in Powers, NEW e \in Powers,
         NEW t \in Nat, t > 0, Straddles(s, e)
  PROVE  /\ BeforeCrossing(c, s, e, t) \in Counters
         /\ BeforeCrossing(c, s, e, t).covered = c.covered
         /\ BeforeCrossing(c, s, e, t).energy_in >= c.energy_in
         /\ BeforeCrossing(c, s, e, t).energy_out >= c.energy_out
<1>1. s \in Int /\ 0 \in Int
  BY PowerAssumption
<1>2. CrossingSeconds(s, e, t) \in Nat
  BY CrossingSplit
<1> QED
  BY <1>1, <1>2, SegmentGrows DEF BeforeCrossing

\* Accounting for an interval changes only the seconds covered.
LEMMA CoveringType ==
  ASSUME NEW c \in Counters, NEW t \in Nat
  PROVE  /\ Covering(c, t) \in Counters
         /\ Covering(c, t).covered = c.covered + t
         /\ Covering(c, t).energy_in = c.energy_in
         /\ Covering(c, t).energy_out = c.energy_out
  BY DEF Covering, Counters

\* Whatever the state file holds, _load() yields counters.
LEMMA LoadedType ==
  ASSUME NEW f
  PROVE  Loaded(f) \in Counters
  BY DEF Loaded, Zero, Counters

\* A file that holds counters is loaded as it is.
LEMMA LoadedCounters ==
  ASSUME NEW c \in Counters
  PROVE  Loaded(c) = c
  BY DEF Loaded

-----------------------------------------------------------------------------
(* The inductive invariant.                                                *)

\* Before the first start the invariant holds, whatever the file holds.
LEMMA InitInv == Init => IInv
<1> SUFFICES ASSUME Init PROVE IInv
  OBVIOUS
<1>1. /\ Zero \in Counters /\ Zero.covered = 0
      /\ file \in Contents /\ Loaded(file).covered = 0
  <2>1. Zero \in Counters /\ Zero.covered = 0
    BY DEF Zero, Counters
  <2>2. /\ file \in {NoFile, Corrupt, BadType} \cup {c \in Counters : c.covered = 0}
    BY FileAssumption DEF Init
  <2>3. file \in Counters => file.covered = 0
    BY <2>2, ValueAssumption
  <2> QED
    BY <2>1, <2>2, <2>3 DEF Contents, Loaded
<1>2. TypeOK
  BY <1>1 DEF Init, TypeOK, Contents
<1>3. SampleOrder
  BY DEF Init, SampleOrder, InUpdate
<1>4. Coverage
  BY <1>1 DEF Init, Coverage
<1>5. Checkpointed
  BY DEF Init, Checkpointed, FlushKeepsEverything
<1>6. UnsavedAge
  BY DEF Init, UnsavedAge
<1> QED
  BY <1>2, <1>3, <1>4, <1>5, <1>6 DEF IInv

\* What one whole interval does to the counters, from the invariant.
LEMMA IntegrateStep ==
  ASSUME IInv, Integrate
  PROVE  /\ last_time \in Nat /\ now - last_time \in Nat /\ now - last_time > 0
         /\ last_power \in Powers /\ power \in Powers
         /\ energy' \in Counters
         /\ energy'.covered = energy.covered + (now - last_time)
         /\ energy'.energy_in >= energy.energy_in
         /\ energy'.energy_out >= energy.energy_out
         /\ energy'.energy_in - energy'.energy_out =
              energy.energy_in - energy.energy_out
                + Scale * (last_power + power) * (now - last_time)
         /\ Straddles(last_power, power) =>
              /\ energy'.energy_in > energy.energy_in
              /\ energy'.energy_out > energy.energy_out
<1> DEFINE t == now - last_time
           d == _integrate(energy, last_power, power, t)
<1>1. /\ last_time \in Nat /\ t \in Nat /\ t > 0
      /\ last_power \in Powers /\ power \in Powers
      /\ energy \in Counters
  BY DEF IInv, TypeOK, SampleOrder, InUpdate, Integrate
<1>2. energy' = Covering(d, t)
  BY DEF Integrate
<1> HIDE DEF t
<1>3. /\ d \in Counters
      /\ d.covered = energy.covered
      /\ d.energy_in >= energy.energy_in
      /\ d.energy_out >= energy.energy_out
      /\ d.energy_in - d.energy_out =
           energy.energy_in - energy.energy_out + Scale * (last_power + power) * t
      /\ Straddles(last_power, power) => /\ d.energy_in > energy.energy_in
                                         /\ d.energy_out > energy.energy_out
  BY <1>1, IntegrateCorrect
<1> HIDE DEF d
<1>4. /\ energy' \in Counters
      /\ energy'.covered = energy.covered + t
      /\ energy'.energy_in = d.energy_in
      /\ energy'.energy_out = d.energy_out
  BY <1>1, <1>2, <1>3, CoveringType
<1> QED
  BY <1>1, <1>3, <1>4 DEF t

\* A signal between the two segments.
LEMMA CrossingStep ==
  ASSUME IInv, InterruptAtCrossing
  PROVE  /\ last_time \in Nat /\ now - last_time \in Nat
         /\ energy' \in Counters
         /\ energy'.covered = energy.covered + (now - last_time)
         /\ energy'.energy_in >= energy.energy_in
         /\ energy'.energy_out >= energy.energy_out
<1> DEFINE t == now - last_time
           d == BeforeCrossing(energy, last_power, power, t)
<1>1. /\ last_time \in Nat /\ t \in Nat /\ t > 0
      /\ last_power \in Powers /\ power \in Powers
      /\ energy \in Counters /\ Straddles(last_power, power)
  BY DEF IInv, TypeOK, SampleOrder, InUpdate, InterruptAtCrossing
<1>2. energy' = Covering(d, t)
  BY DEF InterruptAtCrossing
<1> HIDE DEF t
<1>3. /\ d \in Counters
      /\ d.covered = energy.covered
      /\ d.energy_in >= energy.energy_in
      /\ d.energy_out >= energy.energy_out
  BY <1>1, BeforeCrossingType
<1> HIDE DEF d
<1>4. /\ energy' \in Counters
      /\ energy'.covered = energy.covered + t
      /\ energy'.energy_in = d.energy_in
      /\ energy'.energy_out = d.energy_out
  BY <1>1, <1>2, <1>3, CoveringType
<1> QED
  BY <1>1, <1>3, <1>4 DEF t

\* Facts about the disk that every step uses.
LEMMA DiskFacts ==
  ASSUME IInv
  PROVE  /\ Loaded(file) \in Counters /\ Loaded(file)' \in Counters
         /\ energy \in Counters /\ Loaded(energy) = energy
         /\ Loaded(file).covered \in Nat /\ energy.covered \in Nat
         /\ Zero \in Counters /\ Zero.covered = 0
  BY LoadedType, LoadedCounters DEF IInv, TypeOK, Counters, Zero

\* Every statement, signal, crash and restart keeps the inductive invariant.
LEMMA NextInv == IInv /\ [Next]_vars => IInv'
<1> SUFFICES ASSUME IInv, [Next]_vars PROVE IInv'
  OBVIOUS
<1> USE TimeAssumption
<1>0. /\ Loaded(file) \in Counters /\ Loaded(file)' \in Counters
      /\ energy \in Counters /\ Loaded(energy) = energy
      /\ Loaded(file).covered \in Nat /\ energy.covered \in Nat
      /\ Zero \in Counters /\ Zero.covered = 0
  BY DiskFacts
<1>1. CASE Start
  <2>1. TypeOK'
    BY <1>0, <1>1 DEF Start, IInv, memory, disk, history, TypeOK, Contents
  <2>2. SampleOrder'
    BY <1>0, <1>1 DEF Start, IInv, memory, disk, history, TypeOK,
       SampleOrder, InUpdate
  <2>3. Coverage'
    BY <1>0, <1>1 DEF Start, IInv, memory, disk, history, TypeOK,
       SampleOrder, InUpdate, Coverage, Counters
  <2>4. Checkpointed'
    BY <1>0, <1>1 DEF Start, IInv, memory, disk, history, TypeOK,
       SampleOrder, InUpdate, Coverage, Checkpointed, FlushKeepsEverything,
       Unsaved, Counters
  <2>5. UnsavedAge'
    BY <1>0, <1>1 DEF Start, IInv, memory, disk, history, TypeOK,
       SampleOrder, InUpdate, Coverage, Checkpointed, UnsavedAge,
       UnsavedSince, CrashLossBounded, Unsaved, Counters
  <2> QED
    BY <2>1, <2>2, <2>3, <2>4, <2>5 DEF IInv
<1>2. CASE Invalidate
  <2>1. TypeOK'
    BY <1>0, <1>2 DEF Invalidate, IInv, memory, disk, history, TypeOK, Contents
  <2>2. SampleOrder'
    BY <1>0, <1>2 DEF Invalidate, IInv, memory, disk, history, TypeOK,
       SampleOrder, InUpdate
  <2>3. Coverage'
    BY <1>0, <1>2 DEF Invalidate, IInv, memory, disk, history, TypeOK,
       SampleOrder, InUpdate, Coverage, Counters
  <2>4. Checkpointed'
    BY <1>0, <1>2 DEF Invalidate, IInv, memory, disk, history, TypeOK,
       SampleOrder, InUpdate, Coverage, Checkpointed, FlushKeepsEverything,
       Unsaved, Counters
  <2>5. UnsavedAge'
    BY <1>0, <1>2 DEF Invalidate, IInv, memory, disk, history, TypeOK,
       SampleOrder, InUpdate, Coverage, Checkpointed, UnsavedAge,
       UnsavedSince, CrashLossBounded, Unsaved, Counters
  <2> QED
    BY <2>1, <2>2, <2>3, <2>4, <2>5 DEF IInv
<1>3. ASSUME NEW p \in Powers, SkipInterval(p) PROVE IInv'
  <2>1. TypeOK'
    BY <1>0, <1>3 DEF SkipInterval, IInv, memory, disk, history, TypeOK,
       Contents, Remember
  <2>2. SampleOrder'
    BY <1>0, <1>3 DEF SkipInterval, IInv, memory, disk, history, TypeOK,
       SampleOrder, InUpdate, Remember
  <2>3. Coverage'
    BY <1>0, <1>3 DEF SkipInterval, IInv, memory, disk, history, TypeOK,
       SampleOrder, InUpdate, Coverage, Counters, Remember
  <2>4. Checkpointed'
    BY <1>0, <1>3 DEF SkipInterval, IInv, memory, disk, history, TypeOK,
       SampleOrder, InUpdate, Coverage, Checkpointed, FlushKeepsEverything,
       Unsaved, Counters, Remember
  <2>5. UnsavedAge'
    BY <1>0, <1>3 DEF SkipInterval, IInv, memory, disk, history, TypeOK,
       SampleOrder, InUpdate, Coverage, Checkpointed, UnsavedAge,
       UnsavedSince, CrashLossBounded, Unsaved, Counters, Remember
  <2> QED
    BY <2>1, <2>2, <2>3, <2>4, <2>5 DEF IInv
<1>4. ASSUME NEW p \in Powers, BeginInterval(p) PROVE IInv'
  <2>1. TypeOK'
    BY <1>0, <1>4 DEF BeginInterval, IInv, memory, disk, history, TypeOK,
       Contents, Integrable
  <2>2. SampleOrder'
    BY <1>0, <1>4, PowerAssumption, ValueAssumption DEF BeginInterval, IInv,
       memory, disk, history, TypeOK, SampleOrder, InUpdate, Integrable
  <2>3. Coverage'
    BY <1>0, <1>4, PowerAssumption, ValueAssumption DEF BeginInterval, IInv,
       memory, disk, history, TypeOK, SampleOrder, InUpdate, Coverage,
       Counters, Integrable
  <2>4. Checkpointed'
    BY <1>0, <1>4, PowerAssumption, ValueAssumption DEF BeginInterval, IInv,
       memory, disk, history, TypeOK, SampleOrder, InUpdate, Coverage,
       Checkpointed, FlushKeepsEverything, Unsaved, Counters, Integrable
  <2>5. UnsavedAge'
    BY <1>0, <1>4, PowerAssumption, ValueAssumption DEF BeginInterval, IInv,
       memory, disk, history, TypeOK, SampleOrder, InUpdate, Coverage,
       Checkpointed, UnsavedAge, UnsavedSince, CrashLossBounded, Unsaved,
       Counters, Integrable
  <2> QED
    BY <2>1, <2>2, <2>3, <2>4, <2>5 DEF IInv
<1>5. CASE Integrate
  <2>1. TypeOK'
    BY <1>0, <1>5, IntegrateStep DEF Integrate, IInv, memory, disk, history,
       TypeOK, Contents
  <2>2. SampleOrder'
    BY <1>0, <1>5, IntegrateStep DEF Integrate, IInv, memory, disk, history,
       TypeOK, SampleOrder, InUpdate
  <2>3. Coverage'
    BY <1>0, <1>5, IntegrateStep DEF Integrate, IInv, memory, disk, history,
       TypeOK, SampleOrder, InUpdate, Coverage, Counters
  <2>4. Checkpointed'
    BY <1>0, <1>5, IntegrateStep DEF Integrate, IInv, memory, disk, history,
       TypeOK, SampleOrder, InUpdate, Coverage, Checkpointed,
       FlushKeepsEverything, Unsaved, Counters
  <2>5. UnsavedAge'
    BY <1>0, <1>5, IntegrateStep DEF Integrate, IInv, memory, disk, history,
       TypeOK, SampleOrder, InUpdate, Coverage, Checkpointed, UnsavedAge,
       UnsavedSince, CrashLossBounded, Unsaved, Counters
  <2> QED
    BY <2>1, <2>2, <2>3, <2>4, <2>5 DEF IInv
<1>6. CASE MarkDirty
  <2>1. TypeOK'
    BY <1>0, <1>6 DEF MarkDirty, IInv, memory, disk, history, TypeOK,
       Contents, SaveDue, FinishUpdate, Remember
  <2>2. SampleOrder'
    BY <1>0, <1>6 DEF MarkDirty, IInv, memory, disk, history, TypeOK,
       SampleOrder, InUpdate, SaveDue, FinishUpdate, Remember
  <2>3. Coverage'
    BY <1>0, <1>6 DEF MarkDirty, IInv, memory, disk, history, TypeOK,
       SampleOrder, InUpdate, Coverage, Counters, SaveDue, FinishUpdate,
       Remember
  <2>4. Checkpointed'
    BY <1>0, <1>6 DEF MarkDirty, IInv, memory, disk, history, TypeOK,
       SampleOrder, InUpdate, Coverage, Checkpointed, FlushKeepsEverything,
       Unsaved, Counters, SaveDue, FinishUpdate, Remember
  <2>5. UnsavedAge'
    BY <1>0, <1>6 DEF MarkDirty, IInv, memory, disk, history, TypeOK,
       SampleOrder, InUpdate, Coverage, Checkpointed, UnsavedAge,
       UnsavedSince, CrashLossBounded, Unsaved, Counters, SaveDue,
       FinishUpdate, Remember
  <2> QED
    BY <2>1, <2>2, <2>3, <2>4, <2>5 DEF IInv
<1>7. CASE WriteTmp
  <2>1. TypeOK'
    BY <1>0, <1>7 DEF WriteTmp, IInv, memory, disk, history, TypeOK, Contents
  <2>2. SampleOrder'
    BY <1>0, <1>7 DEF WriteTmp, IInv, memory, disk, history, TypeOK,
       SampleOrder, InUpdate
  <2>3. Coverage'
    BY <1>0, <1>7 DEF WriteTmp, IInv, memory, disk, history, TypeOK,
       SampleOrder, InUpdate, Coverage, Counters
  <2>4. Checkpointed'
    BY <1>0, <1>7 DEF WriteTmp, IInv, memory, disk, history, TypeOK,
       SampleOrder, InUpdate, Coverage, Checkpointed, FlushKeepsEverything,
       Unsaved, Counters
  <2>5. UnsavedAge'
    BY <1>0, <1>7 DEF WriteTmp, IInv, memory, disk, history, TypeOK,
       SampleOrder, InUpdate, Coverage, Checkpointed, UnsavedAge,
       UnsavedSince, CrashLossBounded, Unsaved, Counters
  <2> QED
    BY <2>1, <2>2, <2>3, <2>4, <2>5 DEF IInv
<1>8. CASE Replace
  <2>1. TypeOK'
    BY <1>0, <1>8 DEF Replace, IInv, memory, disk, history, TypeOK, Contents
  <2>2. SampleOrder'
    BY <1>0, <1>8 DEF Replace, IInv, memory, disk, history, TypeOK,
       SampleOrder, InUpdate
  <2>3. Coverage'
    BY <1>0, <1>8 DEF Replace, IInv, memory, disk, history, TypeOK,
       SampleOrder, InUpdate, Coverage, Counters, Checkpointed
  <2>4. Checkpointed'
    BY <1>0, <1>8 DEF Replace, IInv, memory, disk, history, TypeOK,
       SampleOrder, InUpdate, Coverage, Checkpointed, FlushKeepsEverything,
       Unsaved, Counters
  <2>5. UnsavedAge'
    BY <1>0, <1>8 DEF Replace, IInv, memory, disk, history, TypeOK,
       SampleOrder, InUpdate, Coverage, Checkpointed, UnsavedAge,
       UnsavedSince, CrashLossBounded, Unsaved, Counters
  <2> QED
    BY <2>1, <2>2, <2>3, <2>4, <2>5 DEF IInv
<1>9. CASE Record
  <2>1. TypeOK'
    BY <1>0, <1>9 DEF Record, IInv, memory, disk, history, TypeOK, Contents,
       ReturnFromSave, FinishUpdate, Remember
  <2>2. SampleOrder'
    BY <1>0, <1>9 DEF Record, IInv, memory, disk, history, TypeOK,
       SampleOrder, InUpdate, ReturnFromSave, FinishUpdate, Remember
  <2>3. Coverage'
    BY <1>0, <1>9 DEF Record, IInv, memory, disk, history, TypeOK,
       SampleOrder, InUpdate, Coverage, Counters, ReturnFromSave,
       FinishUpdate, Remember
  <2>4. Checkpointed'
    BY <1>0, <1>9 DEF Record, IInv, memory, disk, history, TypeOK,
       SampleOrder, InUpdate, Coverage, Checkpointed, FlushKeepsEverything,
       Unsaved, Counters, ReturnFromSave, FinishUpdate, Remember
  <2>5. UnsavedAge'
    BY <1>0, <1>9 DEF Record, IInv, memory, disk, history, TypeOK,
       SampleOrder, InUpdate, Coverage, Checkpointed, UnsavedAge,
       UnsavedSince, CrashLossBounded, Unsaved, Counters, ReturnFromSave,
       FinishUpdate, Remember
  <2> QED
    BY <2>1, <2>2, <2>3, <2>4, <2>5 DEF IInv
<1>10. CASE SaveFails
  <2>1. TypeOK'
    BY <1>0, <1>10 DEF SaveFails, IInv, memory, disk, history, TypeOK,
       Contents, ReturnFromSave, FinishUpdate, Remember
  <2>2. SampleOrder'
    BY <1>0, <1>10 DEF SaveFails, IInv, memory, disk, history, TypeOK,
       SampleOrder, InUpdate, ReturnFromSave, FinishUpdate, Remember
  <2>3. Coverage'
    BY <1>0, <1>10 DEF SaveFails, IInv, memory, disk, history, TypeOK,
       SampleOrder, InUpdate, Coverage, Counters, ReturnFromSave,
       FinishUpdate, Remember
  <2>4. Checkpointed'
    BY <1>0, <1>10 DEF SaveFails, IInv, memory, disk, history, TypeOK,
       SampleOrder, InUpdate, Coverage, Checkpointed, FlushKeepsEverything,
       Unsaved, Counters, ReturnFromSave, FinishUpdate, Remember
  <2>5. UnsavedAge'
    BY <1>0, <1>10 DEF SaveFails, IInv, memory, disk, history, TypeOK,
       SampleOrder, InUpdate, Coverage, Checkpointed, UnsavedAge,
       UnsavedSince, CrashLossBounded, Unsaved, Counters, ReturnFromSave,
       FinishUpdate, Remember
  <2> QED
    BY <2>1, <2>2, <2>3, <2>4, <2>5 DEF IInv
<1>11. CASE Interrupt
  <2>1. TypeOK'
    BY <1>0, <1>11 DEF Interrupt, IInv, memory, disk, history, TypeOK,
       Contents, flush
  <2>2. SampleOrder'
    BY <1>0, <1>11 DEF Interrupt, IInv, memory, disk, history, TypeOK,
       SampleOrder, InUpdate, flush
  <2>3. Coverage'
    BY <1>0, <1>11 DEF Interrupt, IInv, memory, disk, history, TypeOK,
       SampleOrder, InUpdate, Coverage, Counters, flush
  <2>4. Checkpointed'
    BY <1>0, <1>11 DEF Interrupt, IInv, memory, disk, history, TypeOK,
       SampleOrder, InUpdate, Coverage, Checkpointed, FlushKeepsEverything,
       Unsaved, Counters, flush
  <2>5. UnsavedAge'
    BY <1>0, <1>11 DEF Interrupt, IInv, memory, disk, history, TypeOK,
       SampleOrder, InUpdate, Coverage, Checkpointed, UnsavedAge,
       UnsavedSince, CrashLossBounded, Unsaved, Counters, flush
  <2> QED
    BY <2>1, <2>2, <2>3, <2>4, <2>5 DEF IInv
<1>12. CASE InterruptAtCrossing
  <2>1. TypeOK'
    BY <1>0, <1>12, CrossingStep DEF InterruptAtCrossing, IInv, memory,
       disk, history, TypeOK, Contents, flush
  <2>2. SampleOrder'
    BY <1>0, <1>12, CrossingStep DEF InterruptAtCrossing, IInv, memory,
       disk, history, TypeOK, SampleOrder, InUpdate, flush
  <2>3. Coverage'
    BY <1>0, <1>12, CrossingStep DEF InterruptAtCrossing, IInv, memory,
       disk, history, TypeOK, SampleOrder, InUpdate, Coverage, Counters,
       flush
  <2>4. Checkpointed'
    BY <1>0, <1>12, CrossingStep DEF InterruptAtCrossing, IInv, memory,
       disk, history, TypeOK, SampleOrder, InUpdate, Coverage, Checkpointed,
       FlushKeepsEverything, Unsaved, Counters, flush
  <2>5. UnsavedAge'
    BY <1>0, <1>12, CrossingStep DEF InterruptAtCrossing, IInv, memory,
       disk, history, TypeOK, SampleOrder, InUpdate, Coverage, Checkpointed,
       UnsavedAge, UnsavedSince, CrashLossBounded, Unsaved, Counters, flush
  <2> QED
    BY <2>1, <2>2, <2>3, <2>4, <2>5 DEF IInv
<1>13. CASE Exit
  <2>1. TypeOK'
    BY <1>0, <1>13 DEF Exit, IInv, memory, disk, history, TypeOK, Contents
  <2>2. SampleOrder'
    BY <1>0, <1>13 DEF Exit, IInv, memory, disk, history, TypeOK,
       SampleOrder, InUpdate
  <2>3. Coverage'
    BY <1>0, <1>13 DEF Exit, IInv, memory, disk, history, TypeOK,
       SampleOrder, InUpdate, Coverage, Counters
  <2>4. Checkpointed'
    BY <1>0, <1>13 DEF Exit, IInv, memory, disk, history, TypeOK,
       SampleOrder, InUpdate, Coverage, Checkpointed, FlushKeepsEverything,
       Unsaved, Counters
  <2>5. UnsavedAge'
    BY <1>0, <1>13 DEF Exit, IInv, memory, disk, history, TypeOK,
       SampleOrder, InUpdate, Coverage, Checkpointed, UnsavedAge,
       UnsavedSince, CrashLossBounded, Unsaved, Counters
  <2> QED
    BY <2>1, <2>2, <2>3, <2>4, <2>5 DEF IInv
<1>14. CASE Kill
  <2>1. TypeOK'
    BY <1>0, <1>14 DEF Kill, IInv, memory, disk, history, TypeOK, Contents
  <2>2. SampleOrder'
    BY <1>0, <1>14 DEF Kill, IInv, memory, disk, history, TypeOK,
       SampleOrder, InUpdate
  <2>3. Coverage'
    BY <1>0, <1>14 DEF Kill, IInv, memory, disk, history, TypeOK,
       SampleOrder, InUpdate, Coverage, Counters
  <2>4. Checkpointed'
    BY <1>0, <1>14 DEF Kill, IInv, memory, disk, history, TypeOK,
       SampleOrder, InUpdate, Coverage, Checkpointed, FlushKeepsEverything,
       Unsaved, Counters
  <2>5. UnsavedAge'
    BY <1>0, <1>14 DEF Kill, IInv, memory, disk, history, TypeOK,
       SampleOrder, InUpdate, Coverage, Checkpointed, UnsavedAge,
       UnsavedSince, CrashLossBounded, Unsaved, Counters
  <2> QED
    BY <2>1, <2>2, <2>3, <2>4, <2>5 DEF IInv
<1>15. CASE Tick
  <2>1. TypeOK'
    BY <1>0, <1>15 DEF Tick, IInv, memory, disk, history, TypeOK, Contents
  <2>2. SampleOrder'
    BY <1>0, <1>15 DEF Tick, IInv, memory, disk, history, TypeOK,
       SampleOrder, InUpdate
  <2>3. Coverage'
    BY <1>0, <1>15 DEF Tick, IInv, memory, disk, history, TypeOK,
       SampleOrder, InUpdate, Coverage, Counters
  <2>4. Checkpointed'
    BY <1>0, <1>15 DEF Tick, IInv, memory, disk, history, TypeOK,
       SampleOrder, InUpdate, Coverage, Checkpointed, FlushKeepsEverything,
       Unsaved, Counters
  <2>5. UnsavedAge'
    BY <1>0, <1>15 DEF Tick, IInv, memory, disk, history, TypeOK,
       SampleOrder, InUpdate, Coverage, Checkpointed, UnsavedAge,
       UnsavedSince, CrashLossBounded, Unsaved, Counters
  <2> QED
    BY <2>1, <2>2, <2>3, <2>4, <2>5 DEF IInv
<1>16. CASE UNCHANGED vars
  BY <1>16 DEF vars, memory, disk, history, IInv, TypeOK, SampleOrder, InUpdate,
     Coverage, Checkpointed, FlushKeepsEverything, UnsavedAge, UnsavedSince,
     CrashLossBounded, Unsaved
<1> QED
  BY <1>1, <1>2, <1>3, <1>4, <1>5, <1>6, <1>7, <1>8, <1>9, <1>10, <1>11,
     <1>12, <1>13, <1>14, <1>15, <1>16 DEF Next

-----------------------------------------------------------------------------
(* The theorems.                                                           *)

\* Throughout update(), _save(), flush(), crashes and reloads: the types, the order
\* of the sample times, the seconds covered, what the disk holds of the memory,
\* and the age of the oldest energy it does not hold.
THEOREM InductiveInvariant == Spec => []IInv
<1> QED
  BY InitInv, NextInv, PTL DEF Spec

\* The variables keep their types: in particular neither counter, in memory or
\* in the state file, ever becomes negative.
THEOREM TypeCorrect == Spec => []TypeOK
<1>1. IInv => TypeOK
  BY DEF IInv
<1> QED
  BY <1>1, InductiveInvariant, PTL

\* A crash between two updates loses less than SaveInterval + MaxSaveTime
\* seconds of integrated energy, as long as saving works (update, _save).
THEOREM CrashLossIsBounded == Spec => []CrashLossBounded
<1>1. IInv => CrashLossBounded
  BY DEF IInv, UnsavedAge, CrashLossBounded
<1> QED
  BY <1>1, InductiveInvariant, PTL

\* A clean shutdown leaves every counted second in the state file, up to the one
\* interval whose _dirty assignment a signal pre-empted (flush, _save).
THEOREM FlushIsComplete == Spec => []FlushKeepsEverything
<1>1. IInv => FlushKeepsEverything
  BY DEF IInv, Checkpointed
<1> QED
  BY <1>1, InductiveInvariant, PTL

\* No second is integrated twice across updates, crashes and reloads.
THEOREM NoDoubleCounting == Spec => []NeverCountedTwice
<1>1. IInv => NeverCountedTwice
  <2> SUFFICES ASSUME IInv PROVE NeverCountedTwice
    OBVIOUS
  <2>1. energy.covered \in Nat /\ Loaded(file).covered \in Nat
    BY DiskFacts
  <2> QED
    BY <2>1 DEF IInv, TypeOK, SampleOrder, Coverage, NeverCountedTwice
<1> QED
  BY <1>1, InductiveInvariant, PTL

\* No step makes the state file unreadable, at whatever statement of _save() the
\* process dies.
THEOREM StateFileIsNeverTorn == Spec => FileNeverTorn
<1>1. IInv /\ [Next]_vars => (file' \in {Corrupt, BadType} => file' = file)
  <2> SUFFICES ASSUME IInv, Next, file' \in {Corrupt, BadType}
               PROVE  file' = file
    BY DEF vars, disk
  <2>1. CASE Replace
    <3>1. file' \in Counters
      BY <2>1 DEF Replace, IInv, TypeOK, Checkpointed
    <3> QED
      BY <3>1, ValueAssumption
  <2>2. CASE ~Replace
    BY <2>2 DEF Next, Start, Invalidate, SkipInterval, BeginInterval, Integrate,
       MarkDirty, WriteTmp, Record, SaveFails, Interrupt, InterruptAtCrossing,
       Exit, Kill, Tick, disk
  <2> QED
    BY <2>1, <2>2
<1> QED
  BY <1>1, InductiveInvariant, PTL DEF Spec, FileNeverTorn

\* Every interval adds its signed trapezoid, and a reversal of the power inside
\* it feeds both counters (_integrate, _integrate_segment).
THEOREM IntegrationIsFaithful == Spec => IntegrationFaithful
<1> DEFINE Faithful ==
      Integrate =>
       /\ energy'.energy_in - energy'.energy_out =
            energy.energy_in - energy.energy_out
              + Scale * (last_power + power) * (now - last_time)
       /\ Straddles(last_power, power) =>
            /\ energy'.energy_in > energy.energy_in
            /\ energy'.energy_out > energy.energy_out
<1>1. IInv => Faithful
  BY IntegrateStep
<1> QED
  BY <1>1, InductiveInvariant, PTL DEF IntegrationFaithful

\* While a process runs its counters never go down.
THEOREM CountersAreMonotone == Spec => CountersNeverDecrease
<1> DEFINE Grows == pc # "down" =>
              /\ energy'.energy_in >= energy.energy_in
              /\ energy'.energy_out >= energy.energy_out
<1>1. IInv /\ [Next]_vars => Grows \/ UNCHANGED vars
  <2> SUFFICES ASSUME IInv, Next, pc # "down"
               PROVE  /\ energy'.energy_in >= energy.energy_in
                      /\ energy'.energy_out >= energy.energy_out
    OBVIOUS
  <2>1. CASE Integrate
    BY <2>1, IntegrateStep
  <2>2. CASE InterruptAtCrossing
    BY <2>2, CrossingStep
  <2>3. CASE ~Integrate /\ ~InterruptAtCrossing
    <3>1. energy' = energy
      BY <2>3 DEF Next, Start, Invalidate, SkipInterval, BeginInterval,
         MarkDirty, WriteTmp, Replace, Record, SaveFails, Interrupt, Exit, Kill,
         Tick, memory
    <3>2. energy.energy_in \in Nat /\ energy.energy_out \in Nat
      BY DEF IInv, TypeOK, Counters
    <3> QED
      BY <3>1, <3>2
  <2> QED
    BY <2>1, <2>2, <2>3
<1> QED
  BY <1>1, InductiveInvariant, PTL DEF Spec, CountersNeverDecrease
=============================================================================
