----------------------------- MODULE FilesProofs -----------------------------
(***************************************************************************)
(* Saving and loading a document, for any files, any documents and any     *)
(* limits: what is loaded is in its ranges, what is saved is loaded again  *)
(* as it was, and in any order of opening, saving, failing and crashing no *)
(* document is lost that the user did not give up.                         *)
(***************************************************************************)
EXTENDS Files, FiniteSetTheorems, FunctionTheorems, SequenceTheorems,
        WellFoundedInduction, TLAPS

-----------------------------------------------------------------------------
(* Numbers and sequences.                                                  *)

LEMMA MinOfTwo ==
  ASSUME NEW a \in Int, NEW b \in Int
  PROVE  Min({a, b}) = IF a <= b THEN a ELSE b
  BY DEF Min

LEMMA MaxOfTwo ==
  ASSUME NEW a \in Int, NEW b \in Int
  PROVE  Max({a, b}) = IF a <= b THEN b ELSE a
  BY DEF Max

(* A bounded set of numbers has a greatest one.                            *)
LEMMA MaxIsGreatest ==
  ASSUME NEW n \in Nat, NEW S \in SUBSET (1 .. n), S # {}
  PROVE  Max(S) \in S /\ \A i \in S : i <= Max(S)
  <1> DEFINE Distances == {n - i : i \in S}
  <1>1. Distances \subseteq Nat /\ Distances # {}
    <2>1. \A i \in S : n - i \in Nat
      OBVIOUS
    <2>2. PICK i \in S : TRUE
      OBVIOUS
    <2>3. n - i \in Distances
      OBVIOUS
    <2> QED
      BY <2>1, <2>3
  <1>2. PICK d \in Distances : \A e \in Distances : ~(<<e, d>> \in OpToRel(<, Nat))
    BY <1>1, NatLessThanWellFounded, WFMin
  <1>3. PICK m \in S : d = n - m
    OBVIOUS
  <1>4. ASSUME NEW i \in S PROVE i <= m
    <2>1. n - i \in Distances /\ n - i \in Nat /\ d \in Nat
      BY <1>1
    <2>2. ~(n - i < d)
      BY <1>2, <2>1 DEF OpToRel
    <2> QED
      BY <1>3, <2>1, <2>2
  <1>5. \A i \in S : m >= i
    BY <1>4
  <1> QED
    BY <1>3, <1>5 DEF Max

(* A list that is cut off.                                                 *)
LEMMA TruncatedShape ==
  ASSUME NEW S, NEW list \in Seq(S), NEW max \in Nat
  PROVE  /\ Truncated(list, max) \in Seq(S)
         /\ Len(Truncated(list, max)) = IF Len(list) <= max THEN Len(list) ELSE max
         /\ \A i \in DOMAIN Truncated(list, max) :
              i \in DOMAIN list /\ Truncated(list, max)[i] = list[i]
  <1> DEFINE n == IF Len(list) <= max THEN Len(list) ELSE max
  <1>1. Truncated(list, max) = SubSeq(list, 1, n)
    BY MinOfTwo DEF Truncated
  <1>2. \A i \in 1 .. n : list[i] \in S
    OBVIOUS
  <1>3. /\ SubSeq(list, 1, n) \in Seq(S) /\ Len(SubSeq(list, 1, n)) = n
        /\ \A i \in 1 .. n : SubSeq(list, 1, n)[i] = list[i]
    BY <1>2, SubSeqProperties
  <1> QED
    BY <1>1, <1>3

LEMMA TruncatedShort ==
  ASSUME NEW S, NEW list \in Seq(S), NEW max \in Nat, Len(list) <= max
  PROVE  Truncated(list, max) = list
  BY MinOfTwo, SubSeqFull DEF Truncated

-----------------------------------------------------------------------------
(* The stable sort of the events.                                          *)

Before(events, i, j) ==
  \/ events[i].anchor_tick < events[j].anchor_tick
  \/ events[i].anchor_tick = events[j].anchor_tick /\ i < j

AllBefore(events, i) == {j \in DOMAIN events : Before(events, j, i)}

Rank(events, i) == Cardinality(AllBefore(events, i)) + 1

Timed(events) ==
  /\ DOMAIN events = 1 .. Len(events) /\ Len(events) \in Nat
  /\ \A i \in DOMAIN events : events[i].anchor_tick \in Int

LEMMA InOrderByRank ==
  ASSUME NEW events
  PROVE  InOrder(events) =
           [k \in DOMAIN events |-> events[CHOOSE i \in DOMAIN events : Rank(events, i) = k]]
  BY DEF InOrder, Rank, AllBefore, Before

(* An event that is before another has the lower rank.                     *)
LEMMA RankOrders ==
  ASSUME NEW events, Timed(events), NEW i \in DOMAIN events, NEW j \in DOMAIN events
  PROVE  /\ Rank(events, i) \in DOMAIN events
         /\ Before(events, i, j) => Rank(events, i) < Rank(events, j)
  <1> DEFINE D == DOMAIN events
             A(k) == AllBefore(events, k)
  <1>1. IsFiniteSet(D) /\ Cardinality(D) = Len(events) /\ D = 1 .. Len(events)
        /\ Len(events) \in Nat
    <2>1. D = 1 .. Len(events) /\ Len(events) \in Nat
      BY DEF Timed
    <2>2. /\ IsFiniteSet(1 .. Len(events))
          /\ Cardinality(1 .. Len(events)) = IF 1 > Len(events) THEN 0 ELSE Len(events) - 1 + 1
      BY <2>1, FS_Interval
    <2> HIDE DEF D
    <2> QED
      BY <2>1, <2>2
  <1>2. A(i) \in SUBSET D /\ A(j) \in SUBSET D /\ i \notin A(i)
    BY DEF AllBefore, Before, Timed
  <1>3. /\ IsFiniteSet(A(i)) /\ IsFiniteSet(A(j))
        /\ Cardinality(A(i)) \in Nat /\ Cardinality(A(j)) \in Nat
        /\ Cardinality(A(i)) <= Cardinality(D)
        /\ Cardinality(A(i)) # Cardinality(D)
    BY <1>1, <1>2, FS_Subset, FS_CardinalityType
  <1>4. ASSUME Before(events, i, j) PROVE Cardinality(A(i)) < Cardinality(A(j))
    <2>1. i \in A(j)
      BY <1>4 DEF AllBefore
    <2>2. ASSUME NEW k \in A(i) PROVE k \in A(j)
      <3>1. k \in 1 .. Len(events) /\ Before(events, k, i)
        BY <1>1 DEF AllBefore
      <3> QED
        BY <1>4, <3>1 DEF AllBefore, Before, Timed
    <2>3. A(i) \in SUBSET A(j) /\ A(i) # A(j)
      BY <1>2, <2>1, <2>2
    <2>4. Cardinality(A(i)) <= Cardinality(A(j)) /\ Cardinality(A(i)) # Cardinality(A(j))
      BY <1>3, <2>3, FS_Subset
    <2> QED
      BY <1>3, <2>4
  <1> HIDE DEF A
  <1>5. Rank(events, i) = Cardinality(A(i)) + 1 /\ Rank(events, j) = Cardinality(A(j)) + 1
    BY DEF Rank, A
  <1> QED
    BY <1>1, <1>3, <1>4, <1>5

(* Each place of the sorted list is the rank of an event.                  *)
LEMMA RankIsOnto ==
  ASSUME NEW events, Timed(events), NEW k \in DOMAIN events
  PROVE  \E i \in DOMAIN events : Rank(events, i) = k
  <1> DEFINE D == DOMAIN events
             rank == [i \in D |-> Rank(events, i)]
  <1>1. rank \in [D -> D]
    BY RankOrders
  <1>2. ASSUME NEW i \in D, NEW j \in D, i # j PROVE rank[i] # rank[j]
    <2>1. Before(events, i, j) \/ Before(events, j, i)
      BY <1>2 DEF Timed, Before
    <2>2. rank[i] < rank[j] \/ rank[j] < rank[i]
      BY <2>1, RankOrders
    <2>3. rank[i] \in Int /\ rank[j] \in Int
      BY <1>1 DEF Timed
    <2> HIDE DEF rank
    <2> QED
      BY <2>2, <2>3
  <1>3. rank \in Injection(D, D)
    BY <1>1, <1>2 DEF Injection, IsInjective
  <1>4. IsFiniteSet(D)
    BY FS_Interval DEF Timed
  <1>5. rank \in Surjection(D, D)
    BY <1>3, <1>4, FS_Injection
  <1> QED
    BY <1>5 DEF Surjection

(* The sort returns the same events in order, and leaves a list that is in *)
(* order as it is.                                                         *)
LEMMA InOrderSorts ==
  ASSUME NEW S, NEW events \in Seq(S), \A e \in S : e.anchor_tick \in Int
  PROVE  /\ InOrder(events) \in Seq(S)
         /\ Len(InOrder(events)) = Len(events)
         /\ Sorted(InOrder(events))
         /\ Sorted(events) => InOrder(events) = events
  <1> DEFINE D == DOMAIN events
             from(k) == CHOOSE i \in D : Rank(events, i) = k
             at == [k \in D |-> from(k)]
             sorted == InOrder(events)
  <1>1. Timed(events)
    BY DEF Timed
  <1>2. ASSUME NEW k \in D PROVE at[k] \in D /\ Rank(events, at[k]) = k
    BY <1>1, RankIsOnto
  <1>3. sorted = [k \in D |-> events[at[k]]]
    <2>1. sorted = [k \in D |-> events[from(k)]]
      BY InOrderByRank
    <2> HIDE DEF sorted, from
    <2> QED
      BY <2>1
  <1>4. sorted \in Seq(S) /\ Len(sorted) = Len(events) /\ DOMAIN sorted = D
    <2>1. \A k \in D : events[at[k]] \in S
      BY <1>2
    <2> HIDE DEF at, sorted
    <2>2. D = 1 .. Len(events) /\ Len(events) \in Nat
      OBVIOUS
    <2> QED
      BY <1>3, <2>1, <2>2
  <1>5. ASSUME NEW k \in D, NEW l \in D, k < l
        PROVE  sorted[k].anchor_tick <= sorted[l].anchor_tick
    <2>1. ~Before(events, at[l], at[k])
      <3>1. Before(events, at[l], at[k]) => l < k
        BY <1>1, <1>2, RankOrders
      <3> QED
        BY <1>5, <3>1
    <2>2. events[at[k]].anchor_tick \in Int /\ events[at[l]].anchor_tick \in Int
      BY <1>1, <1>2 DEF Timed
    <2>3. events[at[k]].anchor_tick <= events[at[l]].anchor_tick
      BY <2>1, <2>2 DEF Before
    <2> QED
      BY <1>3, <2>3
  <1>6. ASSUME Sorted(events) PROVE sorted = events
    <2>1. ASSUME NEW i \in D PROVE Rank(events, i) = i
      <3>1. AllBefore(events, i) = 1 .. i - 1
        BY <1>1, <1>6 DEF AllBefore, Before, Sorted, Timed
      <3>2. Cardinality(1 .. i - 1) = i - 1
        BY FS_Interval
      <3> QED
        BY <3>1, <3>2 DEF Rank
    <2>2. ASSUME NEW k \in D PROVE at[k] = k
      BY <1>2, <2>1
    <2> HIDE DEF at
    <2>3. sorted = [k \in D |-> events[k]]
      BY <1>3, <2>2
    <2> QED
      BY <2>3
  <1>7. Sorted(sorted)
    BY <1>4, <1>5 DEF Sorted
  <1> QED
    BY <1>4, <1>6, <1>7

-----------------------------------------------------------------------------
(* Samples and instruments.                                                *)

(* A row of slots is saved up to the last one in use.                      *)
LEMMA SavedSlotsShape ==
  ASSUME NEW n \in Nat, NEW S, NEW slots \in Among(n, S)
  PROVE  /\ SavedSlots(slots) \in Seq(S \cup {None})
         /\ Len(SavedSlots(slots)) <= n
         /\ \A i \in DOMAIN SavedSlots(slots) : i \in 1 .. n /\ SavedSlots(slots)[i] = slots[i]
         /\ \A i \in 1 .. n : slots[i] # None => i \in DOMAIN SavedSlots(slots)
  <1> DEFINE used == {i \in DOMAIN slots : slots[i] # None}
             len == IF used = {} THEN 0 ELSE Max(used)
  <1>1. SavedSlots(slots) = [i \in 1 .. len |-> slots[i]]
    BY DEF SavedSlots
  <1>2. DOMAIN slots = 1 .. n /\ \A i \in 1 .. n : slots[i] \in S \cup {None}
    BY DEF Among
  <1>3. used \in SUBSET (1 .. n)
    BY <1>2
  <1>4. len \in 0 .. n /\ \A i \in used : i <= len
    <2> HIDE DEF used
    <2>1. CASE used = {}
      BY <2>1
    <2>2. CASE used # {}
      <3>1. Max(used) \in used /\ \A i \in used : i <= Max(used)
        BY <1>3, <2>2, MaxIsGreatest
      <3>2. Max(used) \in 1 .. n /\ len = Max(used)
        BY <1>3, <2>2, <3>1
      <3> HIDE DEF len
      <3> QED
        BY <3>1, <3>2
    <2> QED
      BY <2>1, <2>2
  <1>5. \A i \in 1 .. n : slots[i] # None => i \in 1 .. len
    BY <1>2, <1>4
  <1> HIDE DEF len
  <1> QED
    BY <1>1, <1>2, <1>4, <1>5

(* validate_sample() brings a sample in its ranges, and leaves one that is.*)
LEMMA LoadedSampleOk ==
  ASSUME NEW sample \in Samples
  PROVE  /\ LoadedSample(sample) \in DocSamples
         /\ sample \in DocSamples => LoadedSample(sample) = sample
  <1>1. CHROMATIC_COUNT \in Nat /\ MAX_SAMPLE_RATE \in Nat
    BY LimitsAssumption
  <1>2. sample.brr_size \in Nat
    BY DEF Samples
  <1> DEFINE rate == Defaulted(sample.sample_rate, MAX_SAMPLE_RATE, DEFAULT_SAMPLE_RATE)
             key == Defaulted(sample.root_key, CHROMATIC_COUNT - 1, DEFAULT_ROOT_KEY)
             loop == IF sample.loop_byte >= sample.brr_size THEN 0 ELSE sample.loop_byte
  <1>3. /\ rate \in Nat /\ rate <= MAX_SAMPLE_RATE /\ key \in Nat /\ key < CHROMATIC_COUNT
        /\ loop \in Nat /\ (loop < sample.brr_size \/ loop = 0)
    BY <1>1, <1>2, DefaultsAssumption DEF Samples, Defaulted
  <1>4. sample \in DocSamples =>
          rate = sample.sample_rate /\ key = sample.root_key /\ loop = sample.loop_byte
    BY <1>1, <1>2 DEF DocSamples, LoopInside, Samples, Defaulted
  <1>5. LoadedSample(sample) =
          [brr_size |-> sample.brr_size, loop_byte |-> loop, sample_rate |-> rate, root_key |-> key]
    <2>1. LoadedSample(sample) =
            [sample EXCEPT !.sample_rate = rate, !.root_key = key, !.loop_byte = loop]
      BY DEF LoadedSample
    <2> HIDE DEF rate, key, loop
    <2> QED
      BY <2>1 DEF Samples
  <1>6. sample = [brr_size |-> sample.brr_size, loop_byte |-> sample.loop_byte,
                  sample_rate |-> sample.sample_rate, root_key |-> sample.root_key]
    BY DEF Samples
  <1> HIDE DEF rate, key, loop
  <1> QED
    BY <1>2, <1>3, <1>4, <1>5, <1>6 DEF DocSamples, LoopInside, Samples

LEMMA SamplesLoad ==
  ASSUME NEW list \in Seq(Samples \cup {None})
  PROVE  LoadedSamples(list) \in Among(MAX_SAMPLES, DocSamples)
  <1>1. ASSUME NEW i \in FilledSlots(list, MAX_SAMPLES) PROVE LoadedSample(list[i]) \in DocSamples
    BY LoadedSampleOk DEF FilledSlots
  <1> QED
    BY <1>1 DEF LoadedSamples, Among

LEMMA SamplesReload ==
  ASSUME NEW samples \in Among(MAX_SAMPLES, DocSamples)
  PROVE  LoadedSamples(SavedSlots(samples)) = samples
  <1> DEFINE saved == SavedSlots(samples)
             n == MAX_SAMPLES
  <1>1. n \in Nat
    BY LimitsAssumption
  <1>2. /\ \A i \in DOMAIN saved : i \in 1 .. n /\ saved[i] = samples[i]
        /\ \A i \in 1 .. n : samples[i] # None => i \in DOMAIN saved
    BY <1>1, SavedSlotsShape
  <1> HIDE DEF saved
  <1>3. ASSUME NEW i \in 1 .. n
        PROVE  (IF i \in FilledSlots(saved, n) THEN LoadedSample(saved[i]) ELSE None) = samples[i]
    <2>1. samples[i] \in DocSamples \cup {None}
      BY DEF Among
    <2>2. CASE samples[i] = None
      BY <1>2, <2>2 DEF FilledSlots
    <2>3. CASE samples[i] # None
      <3>1. i \in FilledSlots(saved, n) /\ saved[i] = samples[i]
        BY <1>2, <2>3 DEF FilledSlots
      <3>2. samples[i] \in DocSamples /\ samples[i] \in Samples
        BY <2>1, <2>3 DEF DocSamples
      <3> QED
        BY <3>1, <3>2, LoadedSampleOk
    <2> QED
      BY <2>2, <2>3
  <1>4. LoadedSamples(saved) =
          [i \in 1 .. n |-> IF i \in FilledSlots(saved, n) THEN LoadedSample(saved[i]) ELSE None]
    BY DEF LoadedSamples
  <1>5. samples = [i \in 1 .. n |-> samples[i]]
    BY DEF Among
  <1> QED
    BY <1>3, <1>4, <1>5 DEF saved

LEMMA LoadedPatchOk ==
  ASSUME NEW patch \in Patches
  PROVE  /\ LoadedPatch(patch) \in DocPatches
         /\ patch \in DocPatches => LoadedPatch(patch) = patch
  <1>1. CHROMATIC_COUNT \in Nat \ {0} /\ MAX_ATTACK_RATE \in Nat
    BY LimitsAssumption
  <1> DEFINE note == Defaulted(patch.min_note, CHROMATIC_COUNT - 1, 0)
             rate == Defaulted(patch.attack_rate, MAX_ATTACK_RATE, MAX_ATTACK_RATE)
  <1>2. /\ note \in Nat /\ note < CHROMATIC_COUNT /\ rate \in Nat /\ rate <= MAX_ATTACK_RATE
        /\ patch \in DocPatches => note = patch.min_note /\ rate = patch.attack_rate
    BY <1>1 DEF DocPatches, Patches, Defaulted
  <1>3. LoadedPatch(patch) = [min_note |-> note, attack_rate |-> rate]
    <2>1. LoadedPatch(patch) = [patch EXCEPT !.min_note = note, !.attack_rate = rate]
      BY DEF LoadedPatch
    <2> HIDE DEF note, rate
    <2> QED
      BY <2>1 DEF Patches
  <1>4. patch = [min_note |-> patch.min_note, attack_rate |-> patch.attack_rate]
    BY DEF Patches
  <1> HIDE DEF note, rate
  <1> QED
    BY <1>2, <1>3, <1>4 DEF DocPatches, Patches

LEMMA LoadedKeysplitOk ==
  ASSUME NEW keysplit \in Seq(Patches)
  PROVE  /\ LoadedKeysplit(keysplit) \in UpTo(MAX_KEYSPLITS, DocPatches)
         /\ keysplit \in UpTo(MAX_KEYSPLITS, DocPatches) => LoadedKeysplit(keysplit) = keysplit
  <1> DEFINE patches == Truncated(keysplit, MAX_KEYSPLITS)
  <1>1. MAX_KEYSPLITS \in Nat
    BY LimitsAssumption
  <1>2. patches \in Seq(Patches) /\ Len(patches) <= MAX_KEYSPLITS
    BY <1>1, TruncatedShape
  <1>3. LoadedKeysplit(keysplit) = [k \in DOMAIN patches |-> LoadedPatch(patches[k])]
    BY DEF LoadedKeysplit
  <1>4. ASSUME keysplit \in UpTo(MAX_KEYSPLITS, DocPatches) PROVE LoadedKeysplit(keysplit) = keysplit
    <2>1. patches = keysplit
      BY <1>1, <1>4, TruncatedShort DEF UpTo
    <2>2. \A k \in DOMAIN keysplit : LoadedPatch(keysplit[k]) = keysplit[k]
      BY <1>4, LoadedPatchOk DEF UpTo
    <2> HIDE DEF patches
    <2> QED
      BY <1>3, <2>1, <2>2
  <1> HIDE DEF patches
  <1>5. \A k \in DOMAIN patches : LoadedPatch(patches[k]) \in DocPatches
    BY <1>2, LoadedPatchOk
  <1>6. LoadedKeysplit(keysplit) \in Seq(DocPatches)
        /\ Len(LoadedKeysplit(keysplit)) = Len(patches)
    BY <1>2, <1>3, <1>5
  <1> QED
    BY <1>2, <1>4, <1>6 DEF UpTo

DocKeysplits == UpTo(MAX_KEYSPLITS, DocPatches)

LEMMA InstrumentsLoad ==
  ASSUME NEW list \in Seq(Seq(Patches) \cup {None})
  PROVE  LoadedInstruments(list) \in Among(MAX_INSTRUMENTS, DocKeysplits)
  <1>1. ASSUME NEW i \in FilledSlots(list, MAX_INSTRUMENTS)
        PROVE  LoadedKeysplit(list[i]) \in DocKeysplits
    <2>1. list[i] \in Seq(Patches)
      BY DEF FilledSlots
    <2> QED
      BY <2>1, LoadedKeysplitOk DEF DocKeysplits
  <1> QED
    BY <1>1 DEF LoadedInstruments, Among

LEMMA InstrumentsReload ==
  ASSUME NEW instruments \in Among(MAX_INSTRUMENTS, DocKeysplits)
  PROVE  LoadedInstruments(SavedSlots(instruments)) = instruments
  <1> DEFINE saved == SavedSlots(instruments)
             n == MAX_INSTRUMENTS
  <1>1. n \in Nat
    BY LimitsAssumption
  <1>2. /\ \A i \in DOMAIN saved : i \in 1 .. n /\ saved[i] = instruments[i]
        /\ \A i \in 1 .. n : instruments[i] # None => i \in DOMAIN saved
    BY <1>1, SavedSlotsShape
  <1> HIDE DEF saved
  <1>3. ASSUME NEW i \in 1 .. n
        PROVE  (IF i \in FilledSlots(saved, n) THEN LoadedKeysplit(saved[i]) ELSE None)
                 = instruments[i]
    <2>1. instruments[i] \in DocKeysplits \cup {None}
      BY DEF Among
    <2>2. CASE instruments[i] = None
      BY <1>2, <2>2 DEF FilledSlots
    <2>3. CASE instruments[i] # None
      <3>1. i \in FilledSlots(saved, n) /\ saved[i] = instruments[i]
        BY <1>2, <2>3 DEF FilledSlots
      <3>2. instruments[i] \in DocKeysplits /\ instruments[i] \in Seq(Patches)
        BY <2>1, <2>3 DEF DocKeysplits, UpTo, DocPatches
      <3> QED
        BY <3>1, <3>2, LoadedKeysplitOk DEF DocKeysplits
    <2> QED
      BY <2>2, <2>3
  <1>4. LoadedInstruments(saved) =
          [i \in 1 .. n |-> IF i \in FilledSlots(saved, n) THEN LoadedKeysplit(saved[i]) ELSE None]
    BY DEF LoadedInstruments
  <1>5. instruments = [i \in 1 .. n |-> instruments[i]]
    BY DEF Among
  <1> QED
    BY <1>3, <1>4, <1>5 DEF saved

-----------------------------------------------------------------------------
(* Events, blocks and tracks.                                              *)

LEMMA EffectReloads ==
  ASSUME NEW effect \in DocEffects \cup {None}
  PROVE  SavedEffect(effect) \in Effects /\ LoadedEffect(SavedEffect(effect)) = effect
  <1>1. CASE effect = None
    <2>1. SavedEffect(effect) = [name |-> NoName, value |-> 0]
      BY <1>1 DEF SavedEffect
    <2> QED
      BY <1>1, <2>1 DEF LoadedEffect, Effects, NoName
  <1>2. CASE effect # None
    BY <1>2 DEF SavedEffect, LoadedEffect, DocEffects
  <1> QED
    BY <1>1, <1>2

LEMMA LoadedEventOk ==
  ASSUME NEW event \in FileEvents
  PROVE  LoadedEvent(event) \in DocEvents
  <1> DEFINE tick == Min({event.anchor_tick, MAX_TICK})
             effects == [i \in 1 .. MAX_EFFECTS_PER_EVENT |->
                           IF i \in DOMAIN event.effects
                             THEN LoadedEffect(event.effects[i]) ELSE None]
  <1>1. LoadedEvent(event) = [anchor_tick |-> tick, effects |-> effects]
    <2>1. LoadedEvent(event) = [event EXCEPT !.anchor_tick = tick, !.effects = effects]
      BY DEF LoadedEvent
    <2> HIDE DEF tick, effects
    <2> QED
      BY <2>1 DEF FileEvents
  <1>2. tick \in Int /\ tick <= MAX_TICK
    <2>1. event.anchor_tick \in Int /\ MAX_TICK \in Int
      BY LimitsAssumption DEF FileEvents
    <2> QED
      BY <2>1, MinOfTwo
  <1>3. effects \in Among(MAX_EFFECTS_PER_EVENT, DocEffects)
    <2>1. event.effects \in Seq(Effects)
      BY DEF FileEvents
    <2>2. \A i \in DOMAIN event.effects :
            LoadedEffect(event.effects[i]) \in DocEffects \cup {None}
      BY <2>1 DEF LoadedEffect, DocEffects
    <2> QED
      BY <2>2 DEF Among
  <1> HIDE DEF tick, effects
  <1> QED
    BY <1>1, <1>2, <1>3 DEF DocEvents

LEMMA EventReloads ==
  ASSUME NEW event \in DocEvents
  PROVE  SavedEvent(event) \in FileEvents /\ LoadedEvent(SavedEvent(event)) = event
  <1> DEFINE n == MAX_EFFECTS_PER_EVENT
             slots == SavedSlots(event.effects)
             effects == [i \in DOMAIN slots |-> SavedEffect(slots[i])]
  <1>1. /\ event = [anchor_tick |-> event.anchor_tick, effects |-> event.effects]
        /\ event.anchor_tick \in Int /\ event.anchor_tick <= MAX_TICK
        /\ event.effects \in Among(n, DocEffects)
    BY DEF DocEvents
  <1>2. n \in Nat /\ MAX_TICK \in Int
    BY LimitsAssumption
  <1>3. /\ slots \in Seq(DocEffects \cup {None}) /\ Len(slots) <= n
        /\ \A i \in DOMAIN slots : i \in 1 .. n /\ slots[i] = event.effects[i]
        /\ \A i \in 1 .. n : event.effects[i] # None => i \in DOMAIN slots
    BY <1>1, <1>2, SavedSlotsShape
  <1>4. SavedEvent(event) = [anchor_tick |-> event.anchor_tick, effects |-> effects]
    <2>1. SavedEvent(event) = [event EXCEPT !.effects = effects]
      BY DEF SavedEvent
    <2> HIDE DEF effects
    <2> QED
      BY <1>1, <2>1
  <1> HIDE DEF slots
  <1>5. effects \in Seq(Effects)
    <2>1. \A i \in DOMAIN slots : SavedEffect(slots[i]) \in Effects
      BY <1>3, EffectReloads
    <2>2. DOMAIN slots = 1 .. Len(slots) /\ Len(slots) \in Nat
      BY <1>3
    <2> QED
      BY <2>1, <2>2
  <1>6. SavedEvent(event) \in FileEvents
    <2> HIDE DEF effects
    <2> QED
      BY <1>1, <1>4, <1>5 DEF FileEvents
  <1> DEFINE back == [i \in 1 .. n |-> IF i \in DOMAIN effects THEN LoadedEffect(effects[i]) ELSE None]
  <1>7. back = event.effects
    <2>1. ASSUME NEW i \in 1 .. n PROVE back[i] = event.effects[i]
      <3>1. event.effects[i] \in DocEffects \cup {None}
        BY <1>1 DEF Among
      <3>2. CASE i \in DOMAIN slots
        <4>1. effects[i] = SavedEffect(event.effects[i]) /\ i \in DOMAIN effects
          BY <1>3, <3>2
        <4> HIDE DEF effects
        <4> QED
          BY <3>1, <4>1, EffectReloads
      <3>3. CASE i \notin DOMAIN slots
        BY <1>3, <3>3
      <3> QED
        BY <3>2, <3>3
    <2>2. event.effects = [i \in 1 .. n |-> event.effects[i]]
      BY <1>1 DEF Among
    <2>3. back = [i \in 1 .. n |-> back[i]]
      OBVIOUS
    <2> HIDE DEF back
    <2> QED
      BY <2>1, <2>2, <2>3
  <1>8. LoadedEvent(SavedEvent(event)) = event
    <2> DEFINE saved == SavedEvent(event)
    <2>1. saved.anchor_tick = event.anchor_tick /\ saved.effects = effects
      BY <1>4
    <2>2. Min({event.anchor_tick, MAX_TICK}) = event.anchor_tick
      BY <1>1, <1>2, MinOfTwo
    <2> HIDE DEF saved, effects
    <2>3. LoadedEvent(saved) = [saved EXCEPT !.anchor_tick = event.anchor_tick, !.effects = back]
      BY <2>1, <2>2 DEF LoadedEvent
    <2>4. saved = [anchor_tick |-> event.anchor_tick, effects |-> effects]
      BY <1>4 DEF saved
    <2> HIDE DEF back
    <2>5. LoadedEvent(saved) = [anchor_tick |-> event.anchor_tick, effects |-> event.effects]
      BY <1>7, <2>3, <2>4
    <2> QED
      BY <1>1, <2>5 DEF saved
  <1> QED
    BY <1>6, <1>8

(* A block as it is saved.                                                 *)
SavedBlock(block) ==
  [block EXCEPT !.events = [e \in DOMAIN block.events |-> SavedEvent(block.events[e])]]

LEMMA LoadedBlockOk ==
  ASSUME NEW block \in Blocks(Seq(FileEvents))
  PROVE  LoadedBlock(block) \in Blocks(DocPatterns)
  <1> DEFINE list == Truncated(block.events, MAX_EVENTS_PER_PATTERN)
             events == [e \in DOMAIN list |-> LoadedEvent(list[e])]
  <1>1. block.events \in Seq(FileEvents) /\ MAX_EVENTS_PER_PATTERN \in Nat
    BY LimitsAssumption DEF Blocks
  <1>2. list \in Seq(FileEvents) /\ Len(list) <= MAX_EVENTS_PER_PATTERN
    BY <1>1, TruncatedShape
  <1>3. LoadedBlock(block) = [block EXCEPT !.events = InOrder(events)]
    BY DEF LoadedBlock
  <1> HIDE DEF list
  <1>4. \A e \in DOMAIN list : LoadedEvent(list[e]) \in DocEvents
    BY <1>2, LoadedEventOk
  <1>5. events \in Seq(DocEvents) /\ Len(events) = Len(list)
    BY <1>2, <1>4
  <1> HIDE DEF events
  <1>6. \A e \in DocEvents : e.anchor_tick \in Int
    BY DEF DocEvents
  <1>7. InOrder(events) \in Seq(DocEvents) /\ Len(InOrder(events)) = Len(events)
        /\ Sorted(InOrder(events))
    BY <1>5, <1>6, InOrderSorts
  <1>8. InOrder(events) \in DocPatterns
    BY <1>2, <1>5, <1>7 DEF DocPatterns, UpTo
  <1> QED
    BY <1>3, <1>8 DEF Blocks

LEMMA BlockReloads ==
  ASSUME NEW block \in Blocks(DocPatterns)
  PROVE  /\ SavedBlock(block) \in Blocks(Seq(FileEvents))
         /\ LoadedBlock(SavedBlock(block)) = block
         /\ BlockFits(SavedBlock(block)) <=> BlockFits(block)
  <1> DEFINE events == block.events
             list == [e \in DOMAIN events |-> SavedEvent(events[e])]
             back == [e \in DOMAIN list |-> LoadedEvent(list[e])]
             saved == SavedBlock(block)
  <1>1. events \in Seq(DocEvents) /\ Len(events) <= MAX_EVENTS_PER_PATTERN /\ Sorted(events)
    BY DEF Blocks, DocPatterns, UpTo
  <1>2. \A e \in DOMAIN events : SavedEvent(events[e]) \in FileEvents
    BY <1>1, EventReloads
  <1>3. saved = [block EXCEPT !.events = list]
    BY DEF SavedBlock
  <1>4. block = [begin_tick |-> block.begin_tick, loop_count |-> block.loop_count,
                 length_ticks |-> block.length_ticks, events |-> events]
    BY DEF Blocks
  <1> HIDE DEF events
  <1>5. list \in Seq(FileEvents) /\ Len(list) = Len(events) /\ DOMAIN list = DOMAIN events
    BY <1>1, <1>2
  <1>6. back = events
    <2>1. \A e \in DOMAIN events : back[e] = events[e]
      BY <1>1, EventReloads
    <2>2. DOMAIN back = DOMAIN events /\ back = [e \in DOMAIN back |-> back[e]]
      OBVIOUS
    <2>3. events = [e \in DOMAIN events |-> events[e]]
      BY <1>1
    <2> HIDE DEF back
    <2> QED
      BY <2>1, <2>2, <2>3
  <1> HIDE DEF saved, list
  <1>7. saved = [begin_tick |-> block.begin_tick, loop_count |-> block.loop_count,
                 length_ticks |-> block.length_ticks, events |-> list]
    BY <1>3, <1>4
  <1>8. saved \in Blocks(Seq(FileEvents))
    BY <1>5, <1>7 DEF Blocks
  <1>9. Truncated(saved.events, MAX_EVENTS_PER_PATTERN) = list
    <2>1. MAX_EVENTS_PER_PATTERN \in Nat /\ saved.events = list
      BY LimitsAssumption, <1>7
    <2> QED
      BY <1>1, <1>5, <2>1, TruncatedShort
  <1>10. LoadedBlock(saved) = [saved EXCEPT !.events = InOrder(back)]
    BY <1>9 DEF LoadedBlock
  <1>11. InOrder(events) = events
    <2>1. \A e \in DocEvents : e.anchor_tick \in Int
      BY DEF DocEvents
    <2> QED
      BY <1>1, <2>1, InOrderSorts
  <1> HIDE DEF back
  <1>12. LoadedBlock(saved) = block
    BY <1>4, <1>6, <1>7, <1>10, <1>11
  <1>13. BlockFits(saved) <=> BlockFits(block)
    BY <1>7 DEF BlockFits
  <1> QED
    BY <1>8, <1>12, <1>13 DEF saved

LEMMA ClampedInRange ==
  ASSUME NEW v \in Int, NEW range, range.min \in Int, range.max \in Int, range.min <= range.max
  PROVE  /\ Clamped(v, range) \in range.min .. range.max
         /\ v \in range.min .. range.max => Clamped(v, range) = v
  <1> DEFINE least == Min({v, range.max})
  <1>1. least = IF v <= range.max THEN v ELSE range.max
    BY MinOfTwo
  <1>2. least \in Int
    BY <1>1
  <1>3. Clamped(v, range) = Max({range.min, least})
    BY DEF Clamped
  <1> HIDE DEF least
  <1>4. Max({range.min, least}) = IF range.min <= least THEN least ELSE range.min
    BY <1>2, MaxOfTwo
  <1> QED
    BY <1>1, <1>3, <1>4

ColumnRange == [min |-> 1, max |-> MAX_EFFECTS_PER_EVENT]

LEMMA ColumnsClamped ==
  ASSUME NEW n \in Int
  PROVE  /\ Clamped(n, ColumnRange) \in 1 .. MAX_EFFECTS_PER_EVENT
         /\ n \in 1 .. MAX_EFFECTS_PER_EVENT => Clamped(n, ColumnRange) = n
  <1>1. /\ ColumnRange.min = 1 /\ ColumnRange.max = MAX_EFFECTS_PER_EVENT
        /\ MAX_EFFECTS_PER_EVENT \in Nat \ {0}
    BY LimitsAssumption DEF ColumnRange
  <1> QED
    BY <1>1, ClampedInRange

LEMMA LoadedTrackOk ==
  ASSUME NEW track \in FileTracks
  PROVE  LoadedTrack(track) \in DocTracks
  <1> DEFINE list == Truncated(track.blocks, MAX_BLOCKS_PER_TRACK)
             blocks == [b \in DOMAIN list |-> LoadedBlock(list[b])]
             columns == Clamped(track.n_effect_col, ColumnRange)
  <1>1. /\ track.blocks \in Seq(Blocks(Seq(FileEvents))) /\ track.n_effect_col \in Nat
        /\ MAX_BLOCKS_PER_TRACK \in Nat
    BY LimitsAssumption DEF FileTracks
  <1>2. list \in Seq(Blocks(Seq(FileEvents))) /\ Len(list) <= MAX_BLOCKS_PER_TRACK
    BY <1>1, TruncatedShape
  <1>3. LoadedTrack(track) = [blocks |-> blocks, n_effect_col |-> columns]
    BY DEF LoadedTrack, ColumnRange
  <1> HIDE DEF list
  <1>4. \A b \in DOMAIN list : LoadedBlock(list[b]) \in Blocks(DocPatterns)
    BY <1>2, LoadedBlockOk
  <1>5. blocks \in Seq(Blocks(DocPatterns)) /\ Len(blocks) = Len(list)
    BY <1>2, <1>4
  <1>6. columns \in 1 .. MAX_EFFECTS_PER_EVENT
    BY <1>1, ColumnsClamped
  <1> HIDE DEF blocks, columns
  <1>7. blocks \in UpTo(MAX_BLOCKS_PER_TRACK, Blocks(DocPatterns))
    BY <1>2, <1>5 DEF UpTo
  <1> QED
    BY <1>3, <1>6, <1>7 DEF DocTracks

LEMMA TrackReloads ==
  ASSUME NEW track \in DocTracks
  PROVE  /\ SavedTrack(track) \in FileTracks
         /\ LoadedTrack(SavedTrack(track)) = track
         /\ SavedTrack(track).blocks \in Seq(Blocks(Seq(FileEvents)))
         /\ Len(SavedTrack(track).blocks) = Len(track.blocks)
         /\ \A b \in DOMAIN track.blocks :
              BlockFits(SavedTrack(track).blocks[b]) <=> BlockFits(track.blocks[b])
  <1> DEFINE blocks == track.blocks
             list == [b \in DOMAIN blocks |-> SavedBlock(blocks[b])]
             back == [b \in DOMAIN list |-> LoadedBlock(list[b])]
             saved == SavedTrack(track)
  <1>1. /\ blocks \in Seq(Blocks(DocPatterns)) /\ Len(blocks) <= MAX_BLOCKS_PER_TRACK
        /\ track.n_effect_col \in 1 .. MAX_EFFECTS_PER_EVENT
        /\ MAX_BLOCKS_PER_TRACK \in Nat /\ MAX_EFFECTS_PER_EVENT \in Nat
    BY LimitsAssumption DEF DocTracks, UpTo
  <1>2. track = [n_effect_col |-> track.n_effect_col, blocks |-> blocks]
    BY DEF DocTracks
  <1>3. saved = [track EXCEPT !.blocks = list]
    BY DEF SavedTrack, SavedBlock
  <1> HIDE DEF blocks, saved
  <1>4. \A b \in DOMAIN blocks : SavedBlock(blocks[b]) \in Blocks(Seq(FileEvents))
    BY <1>1, BlockReloads
  <1>5. /\ list \in Seq(Blocks(Seq(FileEvents))) /\ Len(list) = Len(blocks)
        /\ DOMAIN list = DOMAIN blocks
    BY <1>1, <1>4
  <1>6. back = blocks
    <2>1. \A b \in DOMAIN blocks : back[b] = blocks[b]
      BY <1>1, BlockReloads
    <2>2. DOMAIN back = DOMAIN blocks /\ back = [b \in DOMAIN back |-> back[b]]
      OBVIOUS
    <2>3. blocks = [b \in DOMAIN blocks |-> blocks[b]]
      BY <1>1
    <2> HIDE DEF back
    <2> QED
      BY <2>1, <2>2, <2>3
  <1>7. \A b \in DOMAIN blocks : BlockFits(list[b]) <=> BlockFits(blocks[b])
    BY <1>1, BlockReloads
  <1> HIDE DEF list
  <1>8. saved = [n_effect_col |-> track.n_effect_col, blocks |-> list]
    BY <1>2, <1>3
  <1>9. saved \in FileTracks
    BY <1>1, <1>5, <1>8 DEF FileTracks
  <1>10. Truncated(saved.blocks, MAX_BLOCKS_PER_TRACK) = list
    <2>1. saved.blocks = list
      BY <1>8
    <2> QED
      BY <1>1, <1>5, <2>1, TruncatedShort
  <1>11. LoadedTrack(saved) =
           [blocks |-> back, n_effect_col |-> Clamped(saved.n_effect_col, ColumnRange)]
    BY <1>10 DEF LoadedTrack, ColumnRange
  <1>12. Clamped(saved.n_effect_col, ColumnRange) = track.n_effect_col
    <2>1. saved.n_effect_col = track.n_effect_col
      BY <1>8
    <2> QED
      BY <1>1, <2>1, ColumnsClamped
  <1> HIDE DEF back
  <1>13. LoadedTrack(saved) = track
    BY <1>2, <1>6, <1>11, <1>12
  <1> QED
    BY <1>5, <1>7, <1>8, <1>9, <1>13 DEF saved, blocks

-----------------------------------------------------------------------------
(* The options, the frequency table and the sequence.                      *)

LEMMA OptionsLoad ==
  ASSUME NEW options \in [DOMAIN OptionRange -> Int]
  PROVE  /\ LoadedOptions(options) \in DocOptions
         /\ options \in DocOptions => LoadedOptions(options) = options
  <1>1. ASSUME NEW f \in DOMAIN OptionRange
        PROVE  /\ Clamped(options[f], OptionRange[f]) \in OptionRange[f].min .. OptionRange[f].max
               /\ options[f] \in OptionRange[f].min .. OptionRange[f].max =>
                    Clamped(options[f], OptionRange[f]) = options[f]
               /\ OptionRange[f].min \in Int
    BY RangesAssumption, ClampedInRange
  <1>2. LoadedOptions(options) \in DocOptions
    BY <1>1 DEF LoadedOptions, DocOptions
  <1>3. ASSUME options \in DocOptions PROVE LoadedOptions(options) = options
    <2>1. \A f \in DOMAIN OptionRange : Clamped(options[f], OptionRange[f]) = options[f]
      BY <1>1, <1>3 DEF DocOptions
    <2>2. options = [f \in DOMAIN OptionRange |-> options[f]]
      OBVIOUS
    <2> QED
      BY <2>1, <2>2 DEF LoadedOptions
  <1> QED
    BY <1>2, <1>3

Frequencies == [1 .. CHROMATIC_COUNT -> 0 .. MAX_TUNING_FREQ]

LEMMA FrequencyTableLoads ==
  ASSUME NEW table \in Seq(Int)
  PROVE  LoadedFrequencyTable(table) \in Frequencies
  BY DefaultsAssumption DEF LoadedFrequencyTable, Frequencies

LEMMA FrequencyTableReloads ==
  ASSUME NEW table \in Frequencies
  PROVE  table \in Seq(Int) /\ LoadedFrequencyTable(table) = table
  <1>1. CHROMATIC_COUNT \in Nat /\ MAX_TUNING_FREQ \in Nat
    BY LimitsAssumption
  <1>2. table \in Seq(Int) /\ Len(table) = CHROMATIC_COUNT
    BY <1>1 DEF Frequencies
  <1>3. \A i \in 1 .. CHROMATIC_COUNT : i <= Len(table) /\ table[i] \in 0 .. MAX_TUNING_FREQ
    BY <1>1, <1>2 DEF Frequencies
  <1>4. LoadedFrequencyTable(table) = [i \in 1 .. CHROMATIC_COUNT |-> table[i]]
    BY <1>3 DEF LoadedFrequencyTable
  <1>5. table = [i \in 1 .. CHROMATIC_COUNT |-> table[i]]
    BY DEF Frequencies
  <1> QED
    BY <1>2, <1>4, <1>5

ChipTracks == {tracks \in Seq(DocTracks) : Len(tracks) = NChan}

LoadedTracks(tracks) == [chan \in DOMAIN tracks |-> LoadedTrack(tracks[chan])]
SavedTracks(tracks) == [chan \in DOMAIN tracks |-> SavedTrack(tracks[chan])]

LEMMA ChipTracksLoad ==
  ASSUME NEW tracks \in Seq(FileTracks), Len(tracks) = NChan
  PROVE  LoadedTracks(tracks) \in ChipTracks
  <1>1. \A chan \in DOMAIN tracks : LoadedTrack(tracks[chan]) \in DocTracks
    BY LoadedTrackOk
  <1>2. LoadedTracks(tracks) \in Seq(DocTracks) /\ Len(LoadedTracks(tracks)) = Len(tracks)
    BY <1>1 DEF LoadedTracks
  <1> QED
    BY <1>2 DEF ChipTracks

LEMMA ChipTracksReload ==
  ASSUME NEW tracks \in ChipTracks
  PROVE  /\ SavedTracks(tracks) \in Seq(FileTracks)
         /\ Len(SavedTracks(tracks)) = NChan
         /\ DOMAIN SavedTracks(tracks) = DOMAIN tracks
         /\ LoadedTracks(SavedTracks(tracks)) = tracks
  <1> DEFINE saved == SavedTracks(tracks)
             back == LoadedTracks(saved)
  <1>1. tracks \in Seq(DocTracks) /\ Len(tracks) = NChan
    BY DEF ChipTracks
  <1>2. \A chan \in DOMAIN tracks : SavedTrack(tracks[chan]) \in FileTracks
    BY <1>1, TrackReloads
  <1>3. saved \in Seq(FileTracks) /\ Len(saved) = NChan /\ DOMAIN saved = DOMAIN tracks
    BY <1>1, <1>2 DEF SavedTracks
  <1>4. \A chan \in DOMAIN tracks : back[chan] = tracks[chan]
    BY <1>1, TrackReloads DEF SavedTracks, LoadedTracks
  <1>5. back = [chan \in DOMAIN tracks |-> back[chan]]
    BY <1>3 DEF LoadedTracks
  <1>6. tracks = [chan \in DOMAIN tracks |-> tracks[chan]]
    BY <1>1
  <1> HIDE DEF saved, back
  <1>7. back = tracks
    BY <1>4, <1>5, <1>6
  <1> QED
    BY <1>3, <1>7 DEF saved, back

LoadedSequence(sequence) == [chip \in DOMAIN sequence |-> LoadedTracks(sequence[chip])]
SavedSequence(sequence) == [chip \in DOMAIN sequence |-> SavedTracks(sequence[chip])]

LEMMA SequenceLoads ==
  ASSUME NEW sequence \in Seq(Seq(FileTracks)), NEW chips, SequenceFits(sequence, chips)
  PROVE  /\ LoadedSequence(sequence) \in DocSequences
         /\ Len(LoadedSequence(sequence)) = Len(sequence)
  <1>1. \A chip \in DOMAIN sequence :
          sequence[chip] \in Seq(FileTracks) /\ Len(sequence[chip]) = NChan
    BY DEF SequenceFits
  <1>2. \A chip \in DOMAIN sequence : LoadedTracks(sequence[chip]) \in ChipTracks
    BY <1>1, ChipTracksLoad
  <1>3. LoadedSequence(sequence) \in Seq(ChipTracks)
        /\ Len(LoadedSequence(sequence)) = Len(sequence)
    BY <1>2, SMTT(30) DEF LoadedSequence
  <1> QED
    BY <1>3 DEF DocSequences, ChipTracks

LEMMA SequenceReloads ==
  ASSUME NEW sequence \in DocSequences, NEW chips
  PROVE  /\ SavedSequence(sequence) \in Seq(Seq(FileTracks))
         /\ LoadedSequence(SavedSequence(sequence)) = sequence
         /\ SequenceFits(sequence, chips) => SequenceFits(SavedSequence(sequence), chips)
  <1> DEFINE saved == SavedSequence(sequence)
             back == LoadedSequence(saved)
  <1>1. sequence \in Seq(ChipTracks)
    BY DEF DocSequences, ChipTracks
  <1>2. \A chip \in DOMAIN sequence :
          SavedTracks(sequence[chip]) \in Seq(FileTracks)
          /\ Len(SavedTracks(sequence[chip])) = NChan
    BY <1>1, ChipTracksReload
  <1>3. saved \in Seq(Seq(FileTracks)) /\ Len(saved) = Len(sequence)
        /\ DOMAIN saved = DOMAIN sequence
    BY <1>1, <1>2 DEF SavedSequence
  <1>4. \A chip \in DOMAIN sequence : back[chip] = sequence[chip]
    BY <1>1, ChipTracksReload DEF SavedSequence, LoadedSequence
  <1>5. back = [chip \in DOMAIN sequence |-> back[chip]]
    BY <1>3 DEF LoadedSequence
  <1>6. sequence = [chip \in DOMAIN sequence |-> sequence[chip]]
    BY <1>1
  <1>7. back = sequence
    <2> HIDE DEF saved, back
    <2> QED
      BY <1>4, <1>5, <1>6
  <1>8. ASSUME SequenceFits(sequence, chips) PROVE SequenceFits(saved, chips)
    <2>1. Len(saved) = Len(chips)
      BY <1>3, <1>8 DEF SequenceFits
    <2>2. \A chip \in DOMAIN saved : Len(saved[chip]) = NChan
      BY <1>2, <1>3 DEF SavedSequence
    <2>3. ASSUME NEW chip \in DOMAIN saved, NEW chan \in DOMAIN saved[chip],
                 NEW b \in DOMAIN saved[chip][chan].blocks, b <= MAX_BLOCKS_PER_TRACK
          PROVE  BlockFits(saved[chip][chan].blocks[b])
      <3>1. /\ chip \in DOMAIN sequence /\ saved[chip] = SavedTracks(sequence[chip])
            /\ sequence[chip] \in ChipTracks
        BY <1>1, <1>3 DEF SavedSequence
      <3>2. chan \in DOMAIN sequence[chip]
        BY <3>1, ChipTracksReload
      <3> DEFINE track == sequence[chip][chan]
      <3>3. track \in DocTracks /\ saved[chip][chan] = SavedTrack(track)
        BY <3>1, <3>2 DEF ChipTracks, SavedTracks
      <3>4. b \in DOMAIN track.blocks
            /\ (BlockFits(SavedTrack(track).blocks[b]) <=> BlockFits(track.blocks[b]))
        <4>1. track.blocks \in Seq(Blocks(DocPatterns))
          BY <3>3 DEF DocTracks, UpTo
        <4>2. b \in DOMAIN track.blocks
          <5> HIDE DEF track
          <5> QED
            BY <3>3, <4>1, TrackReloads
        <4> QED
          BY <3>3, <4>2, TrackReloads
      <3>5. BlockFits(track.blocks[b])
        BY <1>8, <2>3, <3>1, <3>2, <3>4 DEF SequenceFits
      <3> QED
        BY <3>3, <3>4, <3>5
    <2> HIDE DEF saved
    <2> QED
      BY <2>1, <2>2, <2>3 DEF SequenceFits
  <1> QED
    BY <1>3, <1>7, <1>8

-----------------------------------------------------------------------------
(* Documents.                                                              *)

(* A document, field by field. *)
IsDocument(d) ==
  /\ d = [options |-> d.options, frequency_table |-> d.frequency_table,
          accidental_mode |-> d.accidental_mode, effect_name_chars |-> d.effect_name_chars,
          samples |-> d.samples, instruments |-> d.instruments,
          chips |-> d.chips, sequence |-> d.sequence]
  /\ d.options \in DocOptions /\ d.frequency_table \in Frequencies
  /\ d.accidental_mode \in {"Sharp", "Flat"} /\ d.effect_name_chars \in {1, 2}
  /\ d.samples \in Among(MAX_SAMPLES, DocSamples)
  /\ d.instruments \in Among(MAX_INSTRUMENTS, DocKeysplits)
  /\ d.chips \in Seq({"SPC700"}) /\ Len(d.chips) \in 1 .. MAX_NCHIP
  /\ d.sequence \in DocSequences /\ Len(d.sequence) = Len(d.chips)

LEMMA DocumentFields ==
  ASSUME NEW d
  PROVE  d \in Documents <=> IsDocument(d)
  <1>1. \A chips : chips \in UpTo(MAX_NCHIP, {"SPC700"}) /\ Len(chips) > 0
                     <=> chips \in Seq({"SPC700"}) /\ Len(chips) \in 1 .. MAX_NCHIP
    <2>1. MAX_NCHIP \in Nat
      BY LimitsAssumption
    <2>2. \A chips \in Seq({"SPC700"}) : Len(chips) \in Nat
      OBVIOUS
    <2> QED
      BY <2>1, <2>2 DEF UpTo
  <1> QED
    BY <1>1 DEF Documents, IsDocument, Frequencies, DocKeysplits

(* What a file gives is a document that is in its ranges.                  *)
LEMMA DocumentLoads ==
  ASSUME NEW file \in FileModules, Loads(file)
  PROVE  LoadedDocument(file) \in Documents
  <1> DEFINE d == LoadedDocument(file)
  <1>1. /\ file.options \in [DOMAIN OptionRange -> Int] /\ file.frequency_table \in Seq(Int)
        /\ file.samples \in Seq(Samples \cup {None})
        /\ file.instruments \in Seq(Seq(Patches) \cup {None})
        /\ file.chips \in Seq({"SPC700", "Unknown"}) /\ file.sequence \in Seq(Seq(FileTracks))
    BY DEF FileModules
  <1>2. ChipsFit(file.chips) /\ SequenceFits(file.sequence, file.chips)
    BY DEF Loads
  <1>3. d = [options |-> LoadedOptions(file.options),
             frequency_table |-> LoadedFrequencyTable(file.frequency_table),
             accidental_mode |->
               IF file.accidental_mode \in {"Sharp", "Flat"} THEN file.accidental_mode ELSE "Sharp",
             effect_name_chars |->
               IF file.effect_name_chars \in {1, 2} THEN file.effect_name_chars ELSE 1,
             samples |-> LoadedSamples(file.samples),
             instruments |-> LoadedInstruments(file.instruments),
             chips |-> file.chips, sequence |-> LoadedSequence(file.sequence)]
    BY DEF LoadedDocument, LoadedSequence, LoadedTracks
  <1>4. LoadedOptions(file.options) \in DocOptions
        /\ LoadedFrequencyTable(file.frequency_table) \in Frequencies
    BY <1>1, OptionsLoad, FrequencyTableLoads
  <1>5. LoadedSamples(file.samples) \in Among(MAX_SAMPLES, DocSamples)
        /\ LoadedInstruments(file.instruments) \in Among(MAX_INSTRUMENTS, DocKeysplits)
    BY <1>1, SamplesLoad, InstrumentsLoad
  <1>6. file.chips \in Seq({"SPC700"}) /\ Len(file.chips) \in 1 .. MAX_NCHIP
    <2> DEFINE chips == file.chips
    <2>1. chips \in Seq({"SPC700", "Unknown"})
      BY <1>1
    <2>2. Len(chips) \in 1 .. MAX_NCHIP /\ \A i \in DOMAIN chips : chips[i] \in {"SPC700"}
      BY <1>2 DEF ChipsFit
    <2> HIDE DEF chips
    <2>3. chips \in Seq({"SPC700"})
      BY <2>1, <2>2
    <2> QED
      BY <2>2, <2>3 DEF chips
  <1>7. LoadedSequence(file.sequence) \in DocSequences
        /\ Len(LoadedSequence(file.sequence)) = Len(file.chips)
    <2>1. Len(file.sequence) = Len(file.chips)
      BY <1>2 DEF SequenceFits
    <2> QED
      BY <1>1, <1>2, <2>1, SequenceLoads
  <1> HIDE DEF d
  <1>8. IsDocument(d)
    BY <1>3, <1>4, <1>5, <1>6, <1>7 DEF IsDocument
  <1> QED
    BY <1>8, DocumentFields DEF d

(* What is saved is a module that a file can hold.                         *)
LEMMA DocumentSaves ==
  ASSUME NEW doc \in Documents, NEW height \in Int
  PROVE  Saved(doc, height) \in FileModules
  <1>1. IsDocument(doc)
    BY DocumentFields
  <1>2. doc.options \in [DOMAIN OptionRange -> Int] /\ doc.frequency_table \in Seq(Int)
    BY <1>1, FrequencyTableReloads DEF IsDocument, DocOptions
  <1>3. SavedSlots(doc.samples) \in Seq(Samples \cup {None})
    <2>1. SavedSlots(doc.samples) \in Seq(DocSamples \cup {None})
      BY <1>1, LimitsAssumption, SavedSlotsShape DEF IsDocument
    <2>2. DocSamples \subseteq Samples
      BY DEF DocSamples
    <2> QED
      BY <2>1, <2>2
  <1>4. SavedSlots(doc.instruments) \in Seq(Seq(Patches) \cup {None})
    <2>1. SavedSlots(doc.instruments) \in Seq(DocKeysplits \cup {None})
      BY <1>1, LimitsAssumption, SavedSlotsShape DEF IsDocument
    <2>2. DocKeysplits \subseteq Seq(Patches)
      BY DEF DocKeysplits, UpTo, DocPatches
    <2> QED
      BY <2>1, <2>2
  <1>5. doc.chips \in Seq({"SPC700", "Unknown"})
    BY <1>1 DEF IsDocument
  <1>6. SavedSequence(doc.sequence) \in Seq(Seq(FileTracks))
    BY <1>1, SequenceReloads DEF IsDocument
  <1>7. doc.accidental_mode \in {"Sharp", "Flat", "Unknown"} /\ doc.effect_name_chars \in Nat
    BY <1>1 DEF IsDocument
  <1>8. Saved(doc, height) =
          [options |-> doc.options, frequency_table |-> doc.frequency_table,
           accidental_mode |-> doc.accidental_mode,
           effect_name_chars |-> doc.effect_name_chars,
           samples |-> SavedSlots(doc.samples), instruments |-> SavedSlots(doc.instruments),
           chips |-> doc.chips, sequence |-> SavedSequence(doc.sequence),
           ticks_per_row |-> height]
    BY DEF Saved, SavedSequence, SavedTracks
  <1> QED
    BY <1>2, <1>3, <1>4, <1>5, <1>6, <1>7, <1>8 DEF FileModules

(* Loading what was saved gives the document back, and never fails, unless *)
(* a block ends after MAX_TICK.                                            *)
LEMMA RoundTrip ==
  ASSUME NEW doc \in Documents, NEW height \in Int, ~Overlong(doc)
  PROVE  /\ Loads(Saved(doc, height))
         /\ LoadedDocument(Saved(doc, height)) = doc
  <1> DEFINE file == Saved(doc, height)
  <1>1. IsDocument(doc)
    BY DocumentFields
  <1>2. file \in FileModules
    BY DocumentSaves
  <1>3. /\ file.options = doc.options /\ file.frequency_table = doc.frequency_table
        /\ file.accidental_mode = doc.accidental_mode
        /\ file.effect_name_chars = doc.effect_name_chars
        /\ file.samples = SavedSlots(doc.samples)
        /\ file.instruments = SavedSlots(doc.instruments)
        /\ file.chips = doc.chips /\ file.sequence = SavedSequence(doc.sequence)
    BY DEF Saved, SavedSequence, SavedTracks
  <1> HIDE DEF file
  <1>4. Loads(file)
    <2>1. file \notin {None, Unrecognized, Corrupt}
      BY <1>2, NoneAssumption
    <2>2. ChipsFit(doc.chips)
      BY <1>1 DEF IsDocument, ChipsFit
    <2>3. SequenceFits(SavedSequence(doc.sequence), doc.chips)
      BY <1>1, SequenceReloads DEF IsDocument, Overlong
    <2> QED
      BY <1>3, <2>1, <2>2, <2>3 DEF Loads
  <1>5. LoadedDocument(file) =
          [options |-> LoadedOptions(doc.options),
           frequency_table |-> LoadedFrequencyTable(doc.frequency_table),
           accidental_mode |-> doc.accidental_mode,
           effect_name_chars |-> doc.effect_name_chars,
           samples |-> LoadedSamples(SavedSlots(doc.samples)),
           instruments |-> LoadedInstruments(SavedSlots(doc.instruments)),
           chips |-> doc.chips, sequence |-> LoadedSequence(SavedSequence(doc.sequence))]
    <2>1. doc.accidental_mode \in {"Sharp", "Flat"} /\ doc.effect_name_chars \in {1, 2}
      BY <1>1 DEF IsDocument
    <2> QED
      BY <1>3, <2>1 DEF LoadedDocument, LoadedSequence, LoadedTracks
  <1>6. LoadedOptions(doc.options) = doc.options
    <2>1. doc.options \in [DOMAIN OptionRange -> Int] /\ doc.options \in DocOptions
      BY <1>1 DEF IsDocument, DocOptions
    <2> QED
      BY <2>1, OptionsLoad
  <1>7. LoadedFrequencyTable(doc.frequency_table) = doc.frequency_table
    BY <1>1, FrequencyTableReloads DEF IsDocument
  <1>8. LoadedSamples(SavedSlots(doc.samples)) = doc.samples
        /\ LoadedInstruments(SavedSlots(doc.instruments)) = doc.instruments
    BY <1>1, SamplesReload, InstrumentsReload DEF IsDocument
  <1>9. LoadedSequence(SavedSequence(doc.sequence)) = doc.sequence
    BY <1>1, SequenceReloads DEF IsDocument
  <1>10. LoadedDocument(file) = doc
    BY <1>1, <1>5, <1>6, <1>7, <1>8, <1>9 DEF IsDocument
  <1> QED
    BY <1>4, <1>10 DEF file

-----------------------------------------------------------------------------
(* What the panels make of a document.                                     *)

LEMMA OptionsEdited ==
  ASSUME IsDocument(document), NEW doc \in EditedOptions
  PROVE  IsDocument(doc)
  <1>1. PICK f \in DOMAIN OptionRange, end \in {"min", "max"} :
          doc = [document EXCEPT !.options[f] = OptionRange[f][end]]
    BY DEF EditedOptions
  <1>2. OptionRange[f][end] \in OptionRange[f].min .. OptionRange[f].max
        /\ OptionRange[f][end] \in Int
    BY RangesAssumption
  <1> DEFINE options == [document.options EXCEPT ![f] = OptionRange[f][end]]
  <1>3. options \in DocOptions
    <2>1. document.options \in DocOptions
      BY DEF IsDocument
    <2> QED
      BY <1>2, <2>1 DEF DocOptions
  <1>4. doc = [document EXCEPT !.options = options]
    BY <1>1
  <1> HIDE DEF options
  <1> QED
    BY <1>3, <1>4 DEF IsDocument

LEMMA SamplesEdited ==
  ASSUME IsDocument(document), NEW doc \in EditedSamples
  PROVE  IsDocument(doc)
  <1>1. PICK i \in 1 .. MAX_SAMPLES :
          doc = [document EXCEPT !.samples[i] = IF @ = None THEN NewSample ELSE None]
    BY DEF EditedSamples
  <1> DEFINE sample == IF document.samples[i] = None THEN NewSample ELSE None
             samples == [document.samples EXCEPT ![i] = sample]
  <1>2. samples \in Among(MAX_SAMPLES, DocSamples)
    <2>1. document.samples \in Among(MAX_SAMPLES, DocSamples)
      BY DEF IsDocument
    <2>2. sample \in DocSamples \cup {None}
      BY NewAssumption
    <2> HIDE DEF sample
    <2> QED
      BY <2>1, <2>2 DEF Among
  <1>3. doc = [document EXCEPT !.samples = samples]
    BY <1>1
  <1> HIDE DEF samples
  <1> QED
    BY <1>2, <1>3 DEF IsDocument

LEMMA InstrumentsEdited ==
  ASSUME IsDocument(document), NEW doc \in EditedInstruments
  PROVE  IsDocument(doc)
  <1> DEFINE patch == [min_note |-> CHROMATIC_COUNT - 1, attack_rate |-> MAX_ATTACK_RATE]
  <1>1. PICK i \in 1 .. MAX_INSTRUMENTS :
          doc = [document EXCEPT !.instruments[i] = IF @ = None THEN <<patch>> ELSE None]
    BY DEF EditedInstruments
  <1>2. <<patch>> \in DocKeysplits
    <2>1. CHROMATIC_COUNT \in Nat \ {0} /\ MAX_ATTACK_RATE \in Nat /\ MAX_KEYSPLITS \in Nat \ {0}
      BY LimitsAssumption
    <2>2. patch \in DocPatches
      BY <2>1 DEF DocPatches, Patches
    <2> HIDE DEF patch
    <2> QED
      BY <2>1, <2>2 DEF DocKeysplits, UpTo
  <1> HIDE DEF patch
  <1> DEFINE keysplit == IF document.instruments[i] = None THEN <<patch>> ELSE None
             instruments == [document.instruments EXCEPT ![i] = keysplit]
  <1>3. instruments \in Among(MAX_INSTRUMENTS, DocKeysplits)
    <2>1. document.instruments \in Among(MAX_INSTRUMENTS, DocKeysplits)
      BY DEF IsDocument
    <2>2. keysplit \in DocKeysplits \cup {None}
      BY <1>2
    <2> HIDE DEF keysplit
    <2> QED
      BY <2>1, <2>2 DEF Among
  <1>4. doc = [document EXCEPT !.instruments = instruments]
    BY <1>1
  <1> HIDE DEF instruments
  <1> QED
    BY <1>3, <1>4 DEF IsDocument

(* The first track, which the panels edit.                                 *)
LEMMA FirstTrack ==
  ASSUME IsDocument(document)
  PROVE  /\ document.sequence \in Seq(ChipTracks) /\ 1 \in DOMAIN document.sequence
         /\ document.sequence[1] \in ChipTracks /\ 1 \in DOMAIN document.sequence[1]
         /\ document.sequence[1][1] \in DocTracks
         /\ document.sequence[1][1].blocks \in Seq(Blocks(DocPatterns))
         /\ Len(document.sequence[1][1].blocks) <= MAX_BLOCKS_PER_TRACK
  <1>1. document.sequence \in Seq(ChipTracks) /\ Len(document.sequence) \in Nat \ {0}
    BY DEF IsDocument, DocSequences, ChipTracks
  <1>2. 1 \in DOMAIN document.sequence /\ document.sequence[1] \in ChipTracks
    BY <1>1
  <1>3. 1 \in DOMAIN document.sequence[1] /\ document.sequence[1][1] \in DocTracks
    <2>1. NChan \in Nat \ {0}
      BY LimitsAssumption
    <2> QED
      BY <1>2, <2>1 DEF ChipTracks
  <1> QED
    BY <1>1, <1>2, <1>3 DEF DocTracks, UpTo

LEMMA FirstTrackEdited ==
  ASSUME IsDocument(document), NEW blocks \in Seq(Blocks(DocPatterns)),
         Len(blocks) <= MAX_BLOCKS_PER_TRACK,
         NEW doc, doc = [document EXCEPT !.sequence[1][1].blocks = blocks]
  PROVE  IsDocument(doc)
  <1> DEFINE track == [document.sequence[1][1] EXCEPT !.blocks = blocks]
             tracks == [document.sequence[1] EXCEPT ![1] = track]
             sequence == [document.sequence EXCEPT ![1] = tracks]
  <1>1. track \in DocTracks
    BY FirstTrack DEF DocTracks, UpTo
  <1>2. doc = [document EXCEPT !.sequence = sequence]
    OBVIOUS
  <1> HIDE DEF track
  <1>3. tracks \in ChipTracks
    BY <1>1, FirstTrack DEF ChipTracks
  <1> HIDE DEF tracks
  <1>4. sequence \in Seq(ChipTracks) /\ Len(sequence) = Len(document.sequence)
    BY <1>3, FirstTrack
  <1>5. sequence \in DocSequences
    BY <1>4 DEF DocSequences, ChipTracks
  <1> HIDE DEF sequence
  <1> QED
    BY <1>2, <1>4, <1>5 DEF IsDocument

LEMMA EffectsEdited ==
  ASSUME IsDocument(document), NEW doc \in EditedEffects
  PROVE  IsDocument(doc)
  <1> DEFINE blocks == document.sequence[1][1].blocks
             events == blocks[1].events
             n == MAX_EFFECTS_PER_EVENT
  <1>1. blocks # <<>> /\ events # <<>>
    BY DEF EditedEffects
  <1>2. PICK col \in 1 .. n :
          doc = [document EXCEPT !.sequence[1][1].blocks[1].events[1].effects[col] =
                   IF @ = None THEN NewEffect ELSE None]
    BY <1>1 DEF EditedEffects
  <1> DEFINE effect == IF events[1].effects[col] = None THEN NewEffect ELSE None
             event == [events[1] EXCEPT !.effects[col] = effect]
             newEvents == [events EXCEPT ![1] = event]
             block == [blocks[1] EXCEPT !.events = newEvents]
             newBlocks == [blocks EXCEPT ![1] = block]
  <1>3. doc = [document EXCEPT !.sequence[1][1].blocks = newBlocks]
    BY <1>2
  <1>4. /\ blocks \in Seq(Blocks(DocPatterns)) /\ Len(blocks) <= MAX_BLOCKS_PER_TRACK
        /\ 1 \in DOMAIN blocks /\ blocks[1] \in Blocks(DocPatterns)
    BY <1>1, FirstTrack
  <1> HIDE DEF blocks
  <1>5. events \in Seq(DocEvents) /\ Len(events) <= MAX_EVENTS_PER_PATTERN /\ Sorted(events)
    BY <1>4 DEF Blocks, DocPatterns, UpTo
  <1> HIDE DEF events
  <1>6. 1 \in DOMAIN events /\ events[1] \in DocEvents
    BY <1>1, <1>5
  <1>7. effect \in DocEffects \cup {None}
    BY DEF NewEffect, DocEffects, Effects, NoName
  <1> HIDE DEF effect
  <1>8. event \in DocEvents /\ event.anchor_tick = events[1].anchor_tick
    BY <1>6, <1>7 DEF DocEvents, Among
  <1> HIDE DEF event
  <1>9. newEvents \in Seq(DocEvents) /\ Len(newEvents) = Len(events)
        /\ DOMAIN newEvents = DOMAIN events
        /\ \A i \in DOMAIN events : newEvents[i].anchor_tick = events[i].anchor_tick
    BY <1>5, <1>6, <1>8
  <1>10. newEvents \in DocPatterns
    BY <1>5, <1>9 DEF DocPatterns, UpTo, Sorted
  <1> HIDE DEF newEvents
  <1>11. block \in Blocks(DocPatterns)
    BY <1>4, <1>10 DEF Blocks
  <1> HIDE DEF block
  <1>12. newBlocks \in Seq(Blocks(DocPatterns)) /\ Len(newBlocks) = Len(blocks)
    BY <1>4, <1>11
  <1> HIDE DEF newBlocks
  <1> QED
    BY <1>3, <1>4, <1>12, FirstTrackEdited

LEMMA BlocksEdited ==
  ASSUME IsDocument(document), NEW doc \in EditedBlocks
  PROVE  IsDocument(doc)
  <1> DEFINE blocks == document.sequence[1][1].blocks
             last == Last(blocks)
             end == IF blocks = <<>> THEN 0
                    ELSE last.begin_tick + last.loop_count * last.length_ticks
  <1>1. blocks \in Seq(Blocks(DocPatterns)) /\ Len(blocks) <= MAX_BLOCKS_PER_TRACK
        /\ MAX_BLOCKS_PER_TRACK \in Nat
    BY FirstTrack, LimitsAssumption
  <1>2. PICK t \in {end, MAX_TICK} :
          /\ Len(blocks) # MAX_BLOCKS_PER_TRACK
          /\ doc = [document EXCEPT !.sequence[1][1].blocks =
                      Append(@, [NewBlock EXCEPT !.begin_tick = t])]
    BY DEF EditedBlocks
  <1>3. end \in Int
    <2>1. CASE blocks = <<>>
      BY <2>1
    <2>2. CASE blocks # <<>>
      <3>1. last \in Blocks(DocPatterns)
        <4> HIDE DEF blocks
        <4> QED
          BY <1>1, <2>2 DEF Last
      <3>2. last.begin_tick \in Int /\ last.loop_count \in Int /\ last.length_ticks \in Int
        BY <3>1 DEF Blocks
      <3> HIDE DEF last
      <3>3. last.loop_count * last.length_ticks \in Int
        BY <3>2
      <3> QED
        BY <2>2, <3>2, <3>3
    <2> QED
      BY <2>1, <2>2
  <1>4. t \in Int
    BY <1>3, LimitsAssumption
  <1> HIDE DEF end
  <1> DEFINE block == [NewBlock EXCEPT !.begin_tick = t]
             newBlocks == Append(blocks, block)
  <1>5. block \in Blocks(DocPatterns)
    BY <1>4, NewAssumption DEF Blocks
  <1>6. doc = [document EXCEPT !.sequence[1][1].blocks = newBlocks]
    BY <1>2
  <1> HIDE DEF blocks, block
  <1>7. newBlocks \in Seq(Blocks(DocPatterns)) /\ Len(newBlocks) <= MAX_BLOCKS_PER_TRACK
    BY <1>1, <1>2, <1>5
  <1> HIDE DEF newBlocks
  <1> QED
    BY <1>6, <1>7, FirstTrackEdited

-----------------------------------------------------------------------------
(* The invariant: the values each variable takes, what the screen says of  *)
(* the question that is asked, and what a document with no unsaved changes *)
(* is.                                                                     *)

Disks == [Paths -> FileModules \cup {None, Unrecognized, Corrupt}]

FilesTypeOK ==
  /\ disk \in Disks
  /\ document \in Documents /\ dirty \in BOOLEAN
  /\ file_path \in Paths \cup {None} /\ ticks_per_row \in Int
  /\ screen \in {"main", "asking", "naming", "choosing", "writing", "writing as", "closed"}
  /\ discarded \in BOOLEAN /\ edits \in Nat

(* A save knows its path, and what it was asked for; a file is chosen only *)
(* over a document that is saved or given up.                              *)
DialogsFollow ==
  /\ Writing => target \in Paths
  /\ screen = "main" => action = None
  /\ screen \in {"asking", "naming", "writing", "writing as"} =>
       action \in {None, "new", "open", "quit"}
  /\ screen = "asking" => action # None
  /\ screen = "choosing" => ~dirty \/ discarded

UntitledIsNew ==
  ~dirty /\ file_path = None /\ screen # "closed" => document = NewDocument

FilesInv == FilesTypeOK /\ DialogsFollow /\ CleanMeansOnDisk /\ UntitledIsNew

LEMMA RowHeightIsInt ==
  ASSUME NEW height \in Int
  PROVE  RowHeight(height) \in Int
  <1>1. Min({height, 48}) \in Int
    BY MinOfTwo
  <1> QED
    BY <1>1, MaxOfTwo DEF RowHeight

(* What a file that loads puts in place.                                   *)
LEMMA OpenedFile ==
  ASSUME disk \in Disks, NEW path \in Paths, Loaded(disk[path]) # None
  PROVE  /\ Loads(disk[path])
         /\ Loaded(disk[path]).document = LoadedDocument(disk[path])
         /\ Loaded(disk[path]).document \in Documents
         /\ Loaded(disk[path]).ticks_per_row \in Int
  <1>1. Loads(disk[path])
    BY DEF Loaded
  <1>2. disk[path] \in FileModules
    BY <1>1 DEF Loads, Disks
  <1>3. Loaded(disk[path]) = [document |-> LoadedDocument(disk[path]),
                              ticks_per_row |-> disk[path].ticks_per_row]
    BY <1>1 DEF Loaded
  <1>4. disk[path].ticks_per_row \in Int /\ LoadedDocument(disk[path]) \in Documents
    BY <1>1, <1>2, DocumentLoads DEF FileModules
  <1> QED
    BY <1>1, <1>3, <1>4

(* Opening a file makes its document the one that is clean.                *)
LEMMA OpenFile ==
  ASSUME disk \in Disks, NEW path \in Paths, Loaded(disk[path]) # None, disk' = disk,
         OpenDocument(Loaded(disk[path]).document, Loaded(disk[path]).ticks_per_row, path)
  PROVE  /\ document' \in Documents /\ dirty' = FALSE /\ file_path' = path
         /\ ticks_per_row' \in Int
         /\ Loads(disk'[file_path']) /\ Loaded(disk'[file_path']).document = document'
  BY OpenedFile, RowHeightIsInt DEF OpenDocument

LEMMA OpenNew ==
  ASSUME OpenDocument(NewDocument, DEFAULT_TICKS_PER_ROW, None)
  PROVE  /\ document' = NewDocument /\ document' \in Documents /\ dirty' = FALSE
         /\ file_path' = None /\ ticks_per_row' \in Int
  BY NewAssumption, RowHeightIsInt DEF OpenDocument

(* What goes on after a question.                                          *)
LEMMA ProceedCases ==
  ASSUME NEW what \in {"new", "open", "quit"}, Proceed(what)
  PROVE  \/ /\ what = "new" /\ document' = NewDocument /\ document' \in Documents
            /\ dirty' = FALSE /\ file_path' = None /\ ticks_per_row' \in Int
            /\ screen' = "main" /\ action' = None
         \/ /\ what = "open" /\ screen' = "choosing" /\ action' = "open"
            /\ UNCHANGED <<document, dirty, file_path, ticks_per_row>>
         \/ /\ what = "quit" /\ screen' = "closed" /\ action' = "quit"
            /\ UNCHANGED <<document, dirty, file_path, ticks_per_row>>
  <1>1. CASE what = "new"
    BY <1>1, OpenNew DEF Proceed, Idle
  <1>2. CASE what = "open"
    BY <1>2 DEF Proceed
  <1>3. CASE what = "quit"
    BY <1>3 DEF Proceed
  <1> QED
    BY <1>1, <1>2, <1>3

(* A save puts a document where opening it gives it back.                  *)
LEMMA CommitSaves ==
  ASSUME FilesInv, Writing, disk' = [disk EXCEPT ![target] = Saved(document, ticks_per_row)]
  PROVE  /\ disk' \in Disks /\ target \in Paths
         /\ \/ Overlong(document)
            \/ Loads(disk'[target]) /\ Loaded(disk'[target]).document = document
         /\ \A path \in Paths : path # target => disk'[path] = disk[path]
  <1>1. target \in Paths /\ document \in Documents /\ ticks_per_row \in Int /\ disk \in Disks
    BY DEF FilesInv, FilesTypeOK, DialogsFollow
  <1>2. Saved(document, ticks_per_row) \in FileModules
    BY <1>1, DocumentSaves
  <1>3. disk'[target] = Saved(document, ticks_per_row)
    BY <1>1 DEF Disks
  <1>4. ~Overlong(document) =>
          Loads(disk'[target]) /\ Loaded(disk'[target]).document = document
    BY <1>1, <1>3, RoundTrip DEF Loaded
  <1> QED
    BY <1>1, <1>2, <1>4 DEF Disks

LEMMA FilesInit ==
  ASSUME Init
  PROVE  FilesInv
  BY NewAssumption, DisksAssumption
  DEF Init, FilesInv, FilesTypeOK, Disks, DialogsFollow, Writing, CleanMeansOnDisk, UntitledIsNew

(* A step that leaves the document and the disk alone. *)
LEMMA QuietStep ==
  ASSUME FilesInv, UNCHANGED <<disk, document, dirty, file_path, edits, discarded>>,
         ticks_per_row' \in Int, DialogsFollow',
         screen \notin {"closed"} \/ screen' = "closed",
         screen' \in {"main", "asking", "naming", "choosing", "writing", "writing as", "closed"}
  PROVE  FilesInv'
  BY DEF FilesInv, FilesTypeOK, Disks, CleanMeansOnDisk, UntitledIsNew

LEMMA CloseStep ==
  ASSUME FilesInv, Close
  PROVE  FilesInv'
  <1>1. PICK what \in {"new", "open", "quit"} :
          IF dirty
          THEN /\ screen' = "asking" /\ action' = what
               /\ UNCHANGED <<document, dirty, file_path, ticks_per_row, target>>
          ELSE Proceed(what)
    BY DEF Close
  <1>2. screen = "main" /\ UNCHANGED <<disk, edits>> /\ discarded' = FALSE
    BY DEF Close
  <1>3. CASE dirty
    BY <1>1, <1>2, <1>3, PathsAssumption
    DEF FilesInv, FilesTypeOK, DialogsFollow, Writing, CleanMeansOnDisk, UntitledIsNew
  <1>4. CASE ~dirty
    BY <1>1, <1>2, <1>4, ProceedCases
    DEF FilesInv, FilesTypeOK, DialogsFollow, Writing, CleanMeansOnDisk, UntitledIsNew
  <1> QED
    BY <1>3, <1>4

LEMMA DiscardStep ==
  ASSUME FilesInv, Discard
  PROVE  FilesInv'
  <1>1. action \in {"new", "open", "quit"} /\ screen # "closed"
    BY DEF FilesInv, DialogsFollow, Discard
  <1> QED
    BY <1>1, ProceedCases
    DEF Discard, FilesInv, FilesTypeOK, DialogsFollow, Writing, CleanMeansOnDisk, UntitledIsNew

LEMMA OpenStep ==
  ASSUME FilesInv, Open
  PROVE  FilesInv'
  <1>1. /\ screen = "choosing" /\ UNCHANGED <<disk, discarded, edits>>
        /\ screen' = "main" /\ action' = None
    BY DEF Open, Idle
  <1>2. DialogsFollow'
    BY <1>1 DEF DialogsFollow, Writing
  <1>3. PICK path \in Paths :
          IF Loaded(disk[path]) = None
          THEN UNCHANGED <<document, dirty, file_path, ticks_per_row>>
          ELSE OpenDocument(Loaded(disk[path]).document, Loaded(disk[path]).ticks_per_row, path)
    BY DEF Open
  <1>4. CASE Loaded(disk[path]) = None
    BY <1>1, <1>2, <1>3, <1>4, QuietStep DEF FilesInv, FilesTypeOK
  <1>5. CASE Loaded(disk[path]) # None
    <2>1. /\ document' \in Documents /\ dirty' = FALSE /\ file_path' = path
          /\ ticks_per_row' \in Int
          /\ Loads(disk'[file_path']) /\ Loaded(disk'[file_path']).document = document'
      BY <1>1, <1>3, <1>5, OpenFile DEF FilesInv, FilesTypeOK
    <2>2. path # None
      BY PathsAssumption
    <2> QED
      BY <1>1, <1>2, <2>1, <2>2
      DEF FilesInv, FilesTypeOK, CleanMeansOnDisk, UntitledIsNew
  <1> QED
    BY <1>4, <1>5

LEMMA SaveStep ==
  ASSUME FilesInv, Save \/ SaveAs \/ PickName \/ Cancel \/ SetRowHeight \/ Fail \/ Crash
  PROVE  FilesInv'
  <1> USE DEF DialogsFollow, Writing
  <1>1. CASE Save
    BY <1>1, QuietStep DEF Save, FilesInv, FilesTypeOK
  <1>2. CASE SaveAs
    BY <1>2, QuietStep DEF SaveAs, FilesInv, FilesTypeOK
  <1>3. CASE PickName
    BY <1>3, QuietStep DEF PickName, FilesInv, FilesTypeOK
  <1>4. CASE Cancel
    BY <1>4, QuietStep DEF Cancel, Idle, FilesInv, FilesTypeOK
  <1>5. CASE SetRowHeight
    <2>1. ticks_per_row' \in Int
      BY <1>5, NewAssumption, RowHeightIsInt DEF SetRowHeight
    <2> QED
      BY <1>5, <2>1, QuietStep DEF SetRowHeight, FilesInv, FilesTypeOK
  <1>6. CASE Fail
    BY <1>6, QuietStep DEF Fail, Idle, FilesInv, FilesTypeOK
  <1>7. CASE Crash
    BY <1>7, QuietStep DEF Crash, FilesInv, FilesTypeOK
  <1> QED
    BY <1>1, <1>2, <1>3, <1>4, <1>5, <1>6, <1>7

LEMMA CommitStep ==
  ASSUME FilesInv, Commit
  PROVE  FilesInv'
  <1>1. /\ Writing /\ disk' = [disk EXCEPT ![target] = Saved(document, ticks_per_row)]
        /\ UNCHANGED <<discarded, edits>>
    BY DEF Commit
  <1>2. /\ disk' \in Disks /\ target \in Paths /\ target # None
        /\ \/ Overlong(document)
           \/ Loads(disk'[target]) /\ Loaded(disk'[target]).document = document
    BY <1>1, CommitSaves, PathsAssumption
  <1>3. action \in {None, "new", "open", "quit"}
    BY <1>1 DEF FilesInv, DialogsFollow, Writing
  <1>4. CASE action = "new"
    BY <1>1, <1>2, <1>4, ProceedCases
    DEF Commit, FilesInv, FilesTypeOK, DialogsFollow, Writing, CleanMeansOnDisk, UntitledIsNew
  <1>5. CASE action # "new"
    <2>1. /\ dirty' = FALSE /\ file_path' = target /\ UNCHANGED <<document, ticks_per_row, action>>
          /\ screen' = CASE action = None -> "main" [] action = "open" -> "choosing"
                         [] action = "quit" -> "closed"
      BY <1>5 DEF Commit
    <2>2. /\ screen' \in {"main", "choosing", "closed"}
          /\ screen' = "main" => action = None
      BY <1>3, <1>5, <2>1, PathsAssumption
    <2> QED
      BY <1>1, <1>2, <1>3, <2>1, <2>2
      DEF FilesInv, FilesTypeOK, DialogsFollow, Writing, CleanMeansOnDisk, UntitledIsNew
  <1> QED
    BY <1>4, <1>5

LEMMA EditStep ==
  ASSUME FilesInv, Edit
  PROVE  FilesInv'
  <1>1. IsDocument(document)
    BY DocumentFields DEF FilesInv, FilesTypeOK
  <1>2. PICK doc \in EditedOptions \cup EditedSamples \cup EditedInstruments
                       \cup EditedEffects \cup EditedBlocks : document' = doc
    BY DEF Edit
  <1>3. IsDocument(doc)
    BY <1>1, <1>2, OptionsEdited, SamplesEdited, InstrumentsEdited, EffectsEdited, BlocksEdited
  <1>4. document' \in Documents
    BY <1>2, <1>3, DocumentFields
  <1> QED
    BY <1>4
    DEF Edit, FilesInv, FilesTypeOK, DialogsFollow, Writing, CleanMeansOnDisk, UntitledIsNew

LEMMA StartStep ==
  ASSUME FilesInv, Start
  PROVE  FilesInv'
  <1>1. UNCHANGED <<disk, discarded, edits>> /\ screen' = "main" /\ action' = None
    BY DEF Start, Idle
  <1>2. DialogsFollow'
    BY <1>1 DEF DialogsFollow, Writing
  <1>3. CASE OpenDocument(NewDocument, DEFAULT_TICKS_PER_ROW, None)
    BY <1>1, <1>2, <1>3, OpenNew
    DEF FilesInv, FilesTypeOK, CleanMeansOnDisk, UntitledIsNew
  <1>4. ASSUME NEW path \in Paths, Loaded(disk[path]) # None,
               OpenDocument(Loaded(disk[path]).document, Loaded(disk[path]).ticks_per_row, path)
        PROVE  FilesInv'
    <2>1. /\ document' \in Documents /\ dirty' = FALSE /\ file_path' = path
          /\ ticks_per_row' \in Int
          /\ Loads(disk'[file_path']) /\ Loaded(disk'[file_path']).document = document'
      BY <1>1, <1>4, OpenFile DEF FilesInv, FilesTypeOK
    <2>2. path # None
      BY PathsAssumption
    <2> QED
      BY <1>1, <1>2, <2>1, <2>2
      DEF FilesInv, FilesTypeOK, CleanMeansOnDisk, UntitledIsNew
  <1> QED
    BY <1>3, <1>4 DEF Start

LEMMA FilesStep ==
  ASSUME FilesInv, [Next]_vars
  PROVE  FilesInv'
  <1>1. CASE Next
    BY <1>1, CloseStep, DiscardStep, OpenStep, SaveStep, CommitStep, EditStep, StartStep
    DEF Next
  <1>2. CASE UNCHANGED vars
    BY <1>2 DEF vars, FilesInv, FilesTypeOK, DialogsFollow, Writing, CleanMeansOnDisk,
                UntitledIsNew
  <1> QED
    BY <1>1, <1>2

LEMMA FilesInvHolds == Spec => []FilesInv
  BY FilesInit, FilesStep, PTL DEF Spec

-----------------------------------------------------------------------------
(* The theorems.                                                           *)

(* The variables keep to their types, whatever files there are: above all  *)
(* the document is always one that doc.h describes.                        *)
THEOREM FilesTypesHold == Spec => []FilesTypeOK
  BY FilesInvHolds, PTL DEF FilesInv

(* A titled document with no unsaved changes is what opening its file      *)
(* again gives (main_window.cpp on_save(), on_open(); serialize.cpp).      *)
THEOREM CleanMeansOnDiskHolds == Spec => []CleanMeansOnDisk
  BY FilesInvHolds, PTL DEF FilesInv

LEMMA DocumentsAreInRange ==
  ASSUME document \in Documents
  PROVE  DocumentInRange
  <1>1. IsDocument(document)
    BY DocumentFields
  <1>2. \A f \in DOMAIN OptionRange :
          document.options[f] \in OptionRange[f].min .. OptionRange[f].max
    BY <1>1 DEF IsDocument, DocOptions
  <1>3. /\ document.effect_name_chars \in {1, 2}
        /\ \A key \in 1 .. CHROMATIC_COUNT :
             document.frequency_table[key] \in 0 .. MAX_TUNING_FREQ
    BY <1>1 DEF IsDocument, Frequencies
  <1>4. ASSUME NEW i \in 1 .. MAX_SAMPLES, document.samples[i] # None
        PROVE  /\ LoopInside(document.samples[i])
               /\ document.samples[i].root_key < CHROMATIC_COUNT
    BY <1>1, <1>4 DEF IsDocument, Among, DocSamples
  <1>5. ASSUME NEW i \in 1 .. MAX_INSTRUMENTS, document.instruments[i] # None
        PROVE  /\ Len(document.instruments[i]) <= MAX_KEYSPLITS
               /\ \A k \in DOMAIN document.instruments[i] :
                    document.instruments[i][k].min_note < CHROMATIC_COUNT
    <2>1. document.instruments[i] \in DocKeysplits
      BY <1>1, <1>5 DEF IsDocument, Among
    <2> QED
      BY <2>1 DEF DocKeysplits, UpTo, DocPatches
  <1>6. /\ Len(document.sequence) = Len(document.chips)
        /\ \A chip \in DOMAIN document.sequence : Len(document.sequence[chip]) = NChan
    BY <1>1 DEF IsDocument, DocSequences
  <1>7. TracksInRange
    <2> SUFFICES ASSUME NEW chip \in DOMAIN document.sequence,
                        NEW chan \in DOMAIN document.sequence[chip]
                 PROVE  LET track == document.sequence[chip][chan]
                        IN  /\ track.n_effect_col \in 1 .. MAX_EFFECTS_PER_EVENT
                            /\ Len(track.blocks) <= MAX_BLOCKS_PER_TRACK
                            /\ \A b \in DOMAIN track.blocks :
                                 LET events == track.blocks[b].events
                                 IN  /\ Len(events) <= MAX_EVENTS_PER_PATTERN
                                     /\ \A i, j \in DOMAIN events :
                                          i < j => events[i].anchor_tick <= events[j].anchor_tick
                                     /\ \A i \in DOMAIN events :
                                          /\ events[i].anchor_tick <= MAX_TICK
                                          /\ DOMAIN events[i].effects = 1 .. MAX_EFFECTS_PER_EVENT
      BY DEF TracksInRange
    <2> DEFINE track == document.sequence[chip][chan]
    <2>1. track \in DocTracks
      BY <1>1 DEF IsDocument, DocSequences
    <2> HIDE DEF track
    <2>2. /\ track.n_effect_col \in 1 .. MAX_EFFECTS_PER_EVENT
          /\ Len(track.blocks) <= MAX_BLOCKS_PER_TRACK
          /\ track.blocks \in Seq(Blocks(DocPatterns))
      BY <2>1 DEF DocTracks, UpTo
    <2>3. ASSUME NEW b \in DOMAIN track.blocks
          PROVE  LET events == track.blocks[b].events
                 IN  /\ Len(events) <= MAX_EVENTS_PER_PATTERN
                     /\ \A i, j \in DOMAIN events :
                          i < j => events[i].anchor_tick <= events[j].anchor_tick
                     /\ \A i \in DOMAIN events :
                          /\ events[i].anchor_tick <= MAX_TICK
                          /\ DOMAIN events[i].effects = 1 .. MAX_EFFECTS_PER_EVENT
      <3> DEFINE events == track.blocks[b].events
      <3>1. events \in DocPatterns
        <4>1. track.blocks[b] \in Blocks(DocPatterns)
          BY <2>2
        <4> QED
          BY <4>1 DEF Blocks
      <3> HIDE DEF events
      <3>2. /\ Len(events) <= MAX_EVENTS_PER_PATTERN
            /\ events \in Seq(DocEvents)
            /\ \A i, j \in DOMAIN events :
                 i < j => events[i].anchor_tick <= events[j].anchor_tick
        BY <3>1 DEF DocPatterns, UpTo, Sorted
      <3>3. \A e \in DocEvents : /\ e.anchor_tick <= MAX_TICK
                                 /\ DOMAIN e.effects = 1 .. MAX_EFFECTS_PER_EVENT
        BY DEF DocEvents, Among
      <3>4. \A i \in DOMAIN events : /\ events[i].anchor_tick <= MAX_TICK
                                     /\ DOMAIN events[i].effects = 1 .. MAX_EFFECTS_PER_EVENT
        BY <3>2, <3>3
      <3> QED
        BY <3>2, <3>4 DEF events
    <2> QED
      BY <2>2, <2>3 DEF track
  <1> QED
    BY <1>2, <1>3, <1>4, <1>5, <1>6, <1>7 DEF DocumentInRange

(* What is opened, and what the panels make of it, is in the ranges that   *)
(* validation brings files into (validate.cpp) and its readers rely on.    *)
THEOREM DocumentStaysInRange == Spec => []DocumentInRange
  <1>1. FilesInv => DocumentInRange
    BY DocumentsAreInRange DEF FilesInv, FilesTypeOK
  <1> QED
    BY <1>1, FilesInvHolds, PTL

(* What a clean document that is replaced leaves behind. *)
LEMMA CleanIsRecoverable ==
  ASSUME FilesInv, ~dirty, screen # "closed", disk' = disk
  PROVE  Recoverable \/ Overlong(document)
  <1>1. CASE file_path = None
    BY <1>1 DEF FilesInv, UntitledIsNew, Recoverable
  <1>2. CASE file_path # None
    BY <1>2 DEF FilesInv, FilesTypeOK, CleanMeansOnDisk, Recoverable
  <1> QED
    BY <1>1, <1>2

LEMMA LossStep ==
  ASSUME FilesInv, [Next]_vars, Replaced, screen # "closed", edits' = edits
  PROVE  discarded' \/ Recoverable \/ Overlong(document)
  <1>1. CASE Close
    <2>1. (screen' # "closed" /\ document' = document) \/ ~dirty
      BY <1>1 DEF Close
    <2> QED
      BY <1>1, <2>1, CleanIsRecoverable DEF Close, Replaced
  <1>2. CASE Discard
    BY <1>2 DEF Discard
  <1>3. CASE Open
    <2>1. ~dirty \/ discarded'
      BY <1>3 DEF Open, FilesInv, DialogsFollow
    <2> QED
      BY <1>3, <2>1, CleanIsRecoverable DEF Open
  <1>4. CASE Commit
    <2>1. /\ target \in Paths
          /\ \/ Overlong(document)
             \/ Loads(disk'[target]) /\ Loaded(disk'[target]).document = document
      BY <1>4, CommitSaves DEF Commit
    <2> QED
      BY <2>1 DEF Recoverable
  <1>5. CASE Save \/ SaveAs \/ PickName \/ Cancel \/ SetRowHeight \/ Fail
    BY <1>5 DEF Save, SaveAs, PickName, Cancel, SetRowHeight, Fail, Idle, Replaced
  <1>6. CASE Crash
    BY <1>6 DEF Crash, Replaced
  <1>7. CASE Edit
    BY <1>7 DEF Edit, FilesInv, FilesTypeOK
  <1>8. CASE Start
    BY <1>8 DEF Start
  <1>9. CASE UNCHANGED vars
    BY <1>9 DEF vars, Replaced
  <1> QED
    BY <1>1, <1>2, <1>3, <1>4, <1>5, <1>6, <1>7, <1>8, <1>9 DEF Next

(* No step but an edit takes a document away that the user did not choose  *)
(* to discard and that is nowhere else (main_window.cpp on_new(),          *)
(* on_open(), closeEvent()).                                               *)
THEOREM LossIsChosenHolds == Spec => LossIsChosen
  <1>1. FilesInv /\ [Next]_vars =>
          [Replaced /\ screen # "closed" /\ edits' = edits =>
             discarded' \/ Recoverable \/ Overlong(document)]_vars
    BY LossStep
  <1> QED
    BY <1>1, FilesInvHolds, PTL DEF Spec, LossIsChosen

LEMMA LoadableStep ==
  ASSUME FilesInv, [Next]_vars, NEW path \in Paths, Loads(disk[path])
  PROVE  Loads(disk'[path]) \/ Overlong(document)
  <1>1. CASE Commit
    BY <1>1, CommitSaves DEF Commit
  <1>2. CASE disk' = disk
    BY <1>2
  <1>3. Commit \/ disk' = disk
    BY DEF Next, vars, Close, Cancel, Discard, Open, Save, SaveAs, PickName, Fail, Edit,
           SetRowHeight, Crash, Start
  <1> QED
    BY <1>1, <1>2, <1>3

(* A file that can be loaded stays one through saves, failures and crashes *)
(* (serialize.cpp save_to_path()).                                         *)
THEOREM FilesStayLoadableHolds == Spec => FilesStayLoadable
  <1>1. FilesInv /\ [Next]_vars =>
          [\A path \in Paths : Loads(disk[path]) => Loads(disk'[path]) \/ Overlong(document)]_vars
    BY LoadableStep
  <1> QED
    BY <1>1, FilesInvHolds, PTL DEF Spec, FilesStayLoadable
=============================================================================
