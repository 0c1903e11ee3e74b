--------------------------- MODULE DebounceProofs ---------------------------
(***************************************************************************)
(* Proofs about the debounce algorithms: what each promises of a change of *)
(* the debounced matrix, for every set of keys, debounce time, layout of   *)
(* rows, width of the timer and distance between scans.                    *)
(***************************************************************************)
EXTENDS Debounce, OrderLemmas, TLAPS

-----------------------------------------------------------------------------
(* The inductive invariants tie the counters, which only scans update, to  *)
(* the true times in the ghosts held and quiet.                            *)

CounterTypes == {"sym_defer_pk", "sym_eager_pk", "sym_eager_pr", "asym_eager_defer_pk"}
EagerTypes   == {"sym_eager_pk", "sym_eager_pr"}

\* h is at least the time since a counter, now at c, was started.
Since(h, c) == h >= DEBOUNCE \/ h >= (DEBOUNCE - c) + gap

\* sym_defer_g: the timer is looked at before it can wrap, and no switch has
\* moved since it was started.
GInv ==
  build.type = "sym_defer_g" /\ debouncing =>
    /\ TimerDiff(now, debouncing_time) < DEBOUNCE + gap
    /\ \A k \in Keys : held[k] >= DEBOUNCE \/ held[k] >= TimerDiff(now, debouncing_time)

\* sym_defer_pr: no switch of the row has moved since its counter was started.
PrInv ==
  build.type = "sym_defer_pr" =>
    /\ TimerDiff(now, last_time) = gap
    /\ \A g \in Groups :
         /\ last_raw[g] = raw \cap g
         /\ debounce_counters[g] > 0 =>
              \A k \in g : Since(held[k], debounce_counters[g])

\* While a counter runs the counters are updated, from the time of the last scan.
CountInv ==
  build.type \in CounterTypes =>
    /\ counters_need_update => TimerDiff(now, last_time) = gap
    /\ (\E g \in Groups : debounce_counters[g] > 0) => counters_need_update

\* sym_defer_pk: a counter runs for a switch that differs and has not moved.
PkInv ==
  build.type = "sym_defer_pk" =>
    \A k \in Keys : debounce_counters[{k}] > 0 =>
      k \in Delta(raw, cooked) /\ Since(held[k], debounce_counters[{k}])

\* sym_eager: the counter of a group is that of its last change, and only then
\* may a key differ from its switch.
EagerInv ==
  build.type \in EagerTypes =>
    \A g \in Groups :
      IF debounce_counters[g] > 0
      THEN /\ \A j \in g : Since(quiet[j], debounce_counters[g])
           /\ \E j \in g : quiet[j] <= (DEBOUNCE - debounce_counters[g]) + gap
      ELSE /\ \A j \in g : quiet[j] >= DEBOUNCE
           /\ g \cap Delta(raw, cooked) = {}

\* asym_eager_defer_pk: a key is down if its switch is; a counter runs from its
\* press, or from the opening of a switch that has stayed open.
AsymInv ==
  build.type = "asym_eager_defer_pk" =>
    \A k \in Keys :
      /\ k \in raw \/ debounce_counters[{k}] > 0 => k \in cooked
      /\ IF debounce_counters[{k}] = 0
         THEN k \in cooked => quiet[k] >= DEBOUNCE
         ELSE IF {k} \in pressed
         THEN Since(quiet[k], debounce_counters[{k}])
         ELSE k \notin raw /\ quiet[k] >= DEBOUNCE /\ Since(held[k], debounce_counters[{k}])

Inv == TypeOK /\ GInv /\ PrInv /\ CountInv /\ PkInv /\ EagerInv /\ AsymInv

-----------------------------------------------------------------------------
(* Groups, matrices and time.                                              *)

\* The groups partition the keys, and are single keys where they are not rows.
LEMMA GroupFacts ==
  ASSUME build \in Builds
  PROVE  /\ \A k \in Keys : GroupOf(k) \in Groups /\ k \in GroupOf(k)
         /\ \A g \in Groups : g \subseteq Keys /\ \A k \in g : g = GroupOf(k)
         /\ build.type \in {"sym_defer_pk", "sym_eager_pk", "asym_eager_defer_pk"} =>
              \A k \in Keys : GroupOf(k) = {k} /\ {k} \in Groups
<1>1. build.type \in Types
  BY BuildAssumption
<1>2. \A k \in Keys : k \in GroupOf(k) /\ GroupOf(k) \subseteq Keys
  BY <1>1 DEF GroupOf, Types
<1>3. \A k \in Keys : \A j \in GroupOf(k) : GroupOf(k) = GroupOf(j)
  BY <1>1 DEF GroupOf, Types
<1>4. build.type \in {"sym_defer_pk", "sym_eager_pk", "asym_eager_defer_pk"} =>
        \A k \in Keys : GroupOf(k) = {k}
  BY DEF GroupOf
<1>5. \A k \in Keys : GroupOf(k) \in Groups
  BY DEF Groups
<1>6. \A g \in Groups : g \subseteq Keys /\ \A k \in g : g = GroupOf(k)
  BY <1>2, <1>3 DEF Groups
<1>7. ASSUME build.type \in {"sym_defer_pk", "sym_eager_pk", "asym_eager_defer_pk"}, NEW k \in Keys
      PROVE  {k} \in Groups
  <2>1. GroupOf(k) = {k} /\ GroupOf(k) \in Groups
    BY <1>4, <1>5, <1>7
  <2> QED BY <2>1, Zenon
<1> QED BY <1>2, <1>4, <1>5, <1>6, <1>7

\* A key is in a union of groups just when its group is one of them.
LEMMA InUnion ==
  ASSUME build \in Builds, NEW G, G \subseteq Groups, NEW k \in Keys
  PROVE  k \in UNION G <=> GroupOf(k) \in G
BY GroupFacts

\* No step changes the grouping.
LEMMA GroupsFixed ==
  ASSUME build' = build
  PROVE  Groups' = Groups /\ \A k : GroupOf(k)' = GroupOf(k)
BY DEF Groups, GroupOf

\* What a transfer does to a key.
LEMMA Transferred ==
  ASSUME NEW c, NEW r, NEW K, NEW k
  PROVE  k \in Transfer(c, r, K) <=> IF k \in K THEN k \in r ELSE k \in c
BY DEF Transfer

\* A transfer changes the matrix just when one of its keys differs.
LEMMA TransferMoves ==
  ASSUME NEW c, NEW r, NEW K
  PROVE  K \cap Delta(c, r) # {} <=> Transfer(c, r, K) # c
<1>1. ASSUME NEW k \in K \cap Delta(c, r) PROVE Transfer(c, r, K) # c
  BY <1>1, Transferred DEF Delta
<1>2. ASSUME NEW k, ~(k \in Transfer(c, r, K) <=> k \in c) PROVE k \in K \cap Delta(c, r)
  BY <1>2, Transferred DEF Delta
<1>3. ASSUME K \cap Delta(c, r) = {} PROVE Transfer(c, r, K) = c
  BY <1>2, <1>3
<1> QED BY <1>1, <1>3

\* A difference of timer values is one of the timer's values; it is zero for
\* equal values and grows by one with the timer until it wraps.
LEMMA TimerFacts ==
  ASSUME NEW a \in 0 .. TimerMod - 1, NEW b \in 0 .. TimerMod - 1
  PROVE  /\ TimerDiff(a, b) \in 0 .. TimerMod - 1
         /\ TimerDiff(a, a) = 0
         /\ (a + 1) % TimerMod \in 0 .. TimerMod - 1
         /\ TimerDiff(a, b) + 1 < TimerMod =>
              TimerDiff((a + 1) % TimerMod, b) = TimerDiff(a, b) + 1
<1>1. TimerMod \in Nat \ {0}
  BY DebounceAssumption
<1>2. PICK d \in Int : d = a - b
  BY <1>1
<1>3. d % TimerMod \in 0 .. TimerMod - 1 /\ (a + 1) % TimerMod \in 0 .. TimerMod - 1
  BY <1>1, ModSplit
<1>4. (0 % TimerMod) = 0
  BY <1>1, ModNear
<1>5. ((d % TimerMod) + 1) % TimerMod = (d + 1) % TimerMod
  <2>1. d \in Int /\ 1 \in Int
    BY <1>2
  <2> QED BY <1>1, <2>1, ModAdd, Zenon
<1>6. (d % TimerMod) + 1 < TimerMod => ((d % TimerMod) + 1) % TimerMod = (d % TimerMod) + 1
  BY <1>1, <1>3, ModNear
<1>7. (((a + 1) % TimerMod) + (-b)) % TimerMod = ((a + 1) + (-b)) % TimerMod
  <2>1. a + 1 \in Int /\ -b \in Int
    BY <1>1
  <2> QED BY <1>1, <2>1, ModAdd
<1>8. ((a + 1) % TimerMod) + (-b) = ((a + 1) % TimerMod) - b /\ (a + 1) + (-b) = d + 1 /\ a - a = 0
  BY <1>1, <1>2, <1>3
<1> QED BY <1>2, <1>3, <1>4, <1>5, <1>6, <1>7, <1>8 DEF TimerDiff

\* The time that the algorithms see is the time since the last scan, clamped.
LEMMA ElapsedFacts ==
  ASSUME TypeOK, TimerDiff(now, last_time) = gap
  PROVE  /\ Elapsed \in Nat /\ Elapsed <= gap
         /\ gap > 0 => Elapsed > 0
         /\ \A c \in 0 .. DEBOUNCE : c > Elapsed => Elapsed = gap
BY DebounceAssumption DEF TypeOK, Elapsed

\* What the update at the start of a call makes of the counters.
LEMMA CountedFacts ==
  ASSUME TypeOK, CountInv, build.type \in CounterTypes
  PROVE  /\ Counted \in [Groups -> 0 .. DEBOUNCE]
         /\ Ended \subseteq Groups
         /\ \A g \in Groups :
              /\ Counted[g] = IF debounce_counters[g] <= gap THEN 0
                              ELSE debounce_counters[g] - gap
              /\ g \in Ended <=> debounce_counters[g] > 0 /\ Counted[g] = 0
              /\ g \in Ended => counters_need_update /\ Elapsed > 0
<1>1. ASSUME NEW g \in Groups
      PROVE  /\ Counted[g] = IF debounce_counters[g] <= gap THEN 0
                             ELSE debounce_counters[g] - gap
             /\ g \in Ended <=> debounce_counters[g] > 0 /\ Counted[g] = 0
             /\ g \in Ended => counters_need_update /\ Elapsed > 0
  <2>1. debounce_counters[g] \in 0 .. DEBOUNCE /\ gap \in Nat /\ DEBOUNCE \in Nat
    BY DebounceAssumption DEF TypeOK
  <2>2. g \in Ended <=> debounce_counters[g] > 0 /\ Counted[g] = 0
    BY <2>1 DEF Ended, Running, DEBOUNCE_ELAPSED
  <2>3. CASE debounce_counters[g] = 0
    BY <2>1, <2>2, <2>3 DEF Counted, Running, DEBOUNCE_ELAPSED
  <2>4. CASE debounce_counters[g] > 0
    <3>1. counters_need_update /\ TimerDiff(now, last_time) = gap
      BY <2>4 DEF CountInv
    <3>2. /\ Elapsed \in Nat /\ Elapsed <= gap /\ (gap > 0 => Elapsed > 0)
          /\ debounce_counters[g] > Elapsed => Elapsed = gap
      BY <2>1, <3>1, ElapsedFacts
    <3>3. Counted[g] = Count(debounce_counters[g], Elapsed)
      BY <2>1, <2>4, <3>1 DEF Counted, Running, DEBOUNCE_ELAPSED
    <3>4. Counted[g] = IF debounce_counters[g] <= gap THEN 0 ELSE debounce_counters[g] - gap
      BY <2>1, <3>2, <3>3 DEF Count, DEBOUNCE_ELAPSED
    <3>5. Counted[g] = 0 => Elapsed > 0
      BY <2>1, <2>4, <3>2, <3>3 DEF Count, DEBOUNCE_ELAPSED
    <3> QED BY <2>2, <3>1, <3>4, <3>5
  <2> QED BY <2>1, <2>3, <2>4
<1>2. Counted = [g \in Groups |-> Counted[g]]
  BY DEF Counted
<1>3. \A g \in Groups : Counted[g] \in 0 .. DEBOUNCE
  <2> SUFFICES ASSUME NEW g \in Groups PROVE Counted[g] \in 0 .. DEBOUNCE
    OBVIOUS
  <2>1. debounce_counters[g] \in 0 .. DEBOUNCE /\ gap \in Nat /\ DEBOUNCE \in Nat
    BY DebounceAssumption DEF TypeOK
  <2> QED BY <1>1, <2>1
<1>4. Ended \subseteq Groups
  BY DEF Ended, Running
<1> QED BY <1>1, <1>2, <1>3, <1>4

\* The bookkeeping at the end of a call keeps CountInv: if the call starts a
\* counter it sets last_time, and it forgets no counter that still runs.
LEMMA CountKept ==
  ASSUME TypeOK, CountInv, build.type \in CounterTypes, build' = build, now' = now, gap' = 0,
         NEW started \in BOOLEAN, NEW second \in BOOLEAN, started => second,
         counters_need_update' = CountersNeedUpdate(started),
         last_time' = LastTime(second),
         \A g \in Groups : debounce_counters'[g] > 0 => started \/ Counted[g] > 0
  PROVE  CountInv' /\ counters_need_update' \in BOOLEAN /\ last_time' \in 0 .. TimerMod - 1
<1>1. Groups' = Groups
  BY GroupsFixed
<1>2. counters_need_update' => counters_need_update \/ second
  BY DEF CountersNeedUpdate, TypeOK
<1>3. counters_need_update' => last_time' = now
  BY <1>2 DEF LastTime
<1>4. TimerDiff(now, now) = 0
  BY TimerFacts DEF TypeOK
<1>5. counters_need_update' => TimerDiff(now', last_time') = gap'
  BY <1>3, <1>4, Zenon
<1>6. ASSUME NEW g \in Groups, debounce_counters'[g] > 0 PROVE counters_need_update'
  <2>1. CASE started
    BY <2>1 DEF CountersNeedUpdate
  <2>2. CASE Counted[g] > 0
    <3>1. debounce_counters[g] \in 0 .. DEBOUNCE /\ DEBOUNCE \in Nat /\ gap \in Nat
      BY DebounceAssumption DEF TypeOK
    <3>2. debounce_counters[g] > 0
      BY <2>2, <3>1, CountedFacts
    <3>3. counters_need_update
      BY <3>2 DEF CountInv
    <3>4. Counted[g] # DEBOUNCE_ELAPSED
      BY <2>2, CountedFacts DEF DEBOUNCE_ELAPSED
    <3> QED BY <3>3, <3>4 DEF CountersNeedUpdate
  <2> QED BY <1>6, <2>1, <2>2
<1>7. counters_need_update' \in BOOLEAN /\ last_time' \in 0 .. TimerMod - 1
  BY DEF CountersNeedUpdate, LastTime, TypeOK
<1>8. CountInv'
  BY <1>1, <1>5, <1>6 DEF CountInv, TimerDiff
<1> QED BY <1>7, <1>8

-----------------------------------------------------------------------------
(* Time passes.                                                            *)

LEMMA InitInv == Init => Inv
<1> SUFFICES ASSUME Init PROVE Inv
  OBVIOUS
<1>1. /\ build \in Builds /\ 0 \in 0 .. TimerMod - 1 /\ 0 \in 0 .. DEBOUNCE
      /\ DEBOUNCE \in 0 .. DEBOUNCE /\ 0 \in 0 .. MaxGap
  BY DebounceAssumption DEF Init
<1>2. TypeOK
  <2>1. pressed \subseteq Groups
    BY DEF Init
  <2> QED BY <1>1, <2>1, GroupFacts DEF Init, TypeOK, DEBOUNCE_ELAPSED
<1>3. GInv
  BY DEF Init, GInv
<1>4. PrInv
  <2>1. TimerDiff(now, now) = 0
    BY TimerFacts DEF Init
  <2> QED BY <2>1, GroupFacts DEF Init, PrInv, DEBOUNCE_ELAPSED
<1>5. ASSUME NEW k \in Keys, build.type \in {"sym_defer_pk", "asym_eager_defer_pk"}
      PROVE  {k} \in Groups
  BY <1>1, <1>5, GroupFacts, Zenon
<1>6. CountInv
  BY DEF Init, CountInv, DEBOUNCE_ELAPSED
<1>7. PkInv
  BY <1>5 DEF Init, PkInv, DEBOUNCE_ELAPSED
<1>8. EagerInv
  BY <1>1, GroupFacts DEF Init, EagerInv, DEBOUNCE_ELAPSED, Delta
<1>9. AsymInv
  BY <1>1, <1>5 DEF Init, AsymInv, DEBOUNCE_ELAPSED
<1> QED BY <1>2, <1>3, <1>4, <1>6, <1>7, <1>8, <1>9 DEF Inv

LEMMA TickInv == Inv /\ Tick => Inv'
<1> SUFFICES ASSUME Inv, Tick PROVE Inv'
  OBVIOUS
<1>1. TypeOK /\ build \in Builds
  BY DEF Inv, TypeOK
<1>2. Groups' = Groups /\ build' = build
  BY GroupsFixed DEF Tick
<1>3. DEBOUNCE \in Nat \ {0} /\ gap \in 0 .. MaxGap /\ gap \in Nat /\ gap' = gap + 1 /\ MaxGap \in Nat
  BY <1>1, DebounceAssumption DEF TypeOK, Tick
<1>4. /\ held' = [k \in Keys |-> Inc(held[k])] /\ quiet' = [k \in Keys |-> Inc(quiet[k])]
      /\ raw' = raw /\ cooked' = cooked /\ changed' = changed
      /\ debouncing' = debouncing /\ debouncing_time' = debouncing_time
      /\ last_raw' = last_raw /\ pressed' = pressed /\ debounce_counters' = debounce_counters
      /\ last_time' = last_time /\ counters_need_update' = counters_need_update
      /\ matrix_need_update' = matrix_need_update
  BY DEF Tick, ownVars, counterVars
<1>5. \A k \in Keys : held[k] \in 0 .. DEBOUNCE /\ quiet[k] \in 0 .. DEBOUNCE
  BY <1>1 DEF TypeOK
<1>6. \A g \in Groups : debounce_counters[g] \in 0 .. DEBOUNCE
  BY <1>1 DEF TypeOK
<1>7. /\ \A k \in Keys : held'[k] \in 0 .. DEBOUNCE /\ held'[k] >= held[k]
      /\ \A k \in Keys : quiet'[k] \in 0 .. DEBOUNCE /\ quiet'[k] <= quiet[k] + 1
      /\ \A k \in Keys : held[k] >= DEBOUNCE => held'[k] >= DEBOUNCE
      /\ \A k \in Keys : quiet[k] >= DEBOUNCE => quiet'[k] >= DEBOUNCE
      /\ \A k \in Keys : held'[k] >= DEBOUNCE \/ held'[k] = held[k] + 1
  BY <1>3, <1>4, <1>5 DEF Inc
<1>8. /\ \A k \in Keys, g \in Groups : Since(held[k], debounce_counters[g]) =>
            Since(held[k], debounce_counters[g])'
      /\ \A k \in Keys, g \in Groups : Since(quiet[k], debounce_counters[g]) =>
            Since(quiet[k], debounce_counters[g])'
  <2> SUFFICES ASSUME NEW k \in Keys, NEW g \in Groups
               PROVE  /\ Since(held[k], debounce_counters[g]) => Since(held[k], debounce_counters[g])'
                      /\ Since(quiet[k], debounce_counters[g]) => Since(quiet[k], debounce_counters[g])'
    OBVIOUS
  <2>1. held'[k] = Inc(held[k]) /\ quiet'[k] = Inc(quiet[k])
    BY <1>4
  <2>2. held[k] \in 0 .. DEBOUNCE /\ quiet[k] \in 0 .. DEBOUNCE /\ debounce_counters[g] \in 0 .. DEBOUNCE
    BY <1>5, <1>6
  <2> QED BY <1>3, <1>4, <2>1, <2>2 DEF Since, Inc
<1>9. /\ TimerDiff(now, last_time) \in Nat /\ TimerDiff(now, debouncing_time) \in Nat
      /\ now' \in 0 .. TimerMod - 1
      /\ TimerDiff(now, last_time) = gap => TimerDiff(now, last_time)' = gap'
      /\ TimerDiff(now, debouncing_time) < DEBOUNCE + gap =>
           TimerDiff(now, debouncing_time)' = TimerDiff(now, debouncing_time) + 1
  <2>1. now \in 0 .. TimerMod - 1 /\ last_time \in 0 .. TimerMod - 1
        /\ debouncing_time \in 0 .. TimerMod - 1
    BY <1>1 DEF TypeOK
  <2>2. now' = (now + 1) % TimerMod /\ gap < MaxGap
    BY DEF Tick
  <2>3. TimerDiff(now, last_time)' = TimerDiff((now + 1) % TimerMod, last_time)
        /\ TimerDiff(now, debouncing_time)' = TimerDiff((now + 1) % TimerMod, debouncing_time)
    BY <2>2, <1>4 DEF TimerDiff
  <2>4. /\ TimerDiff(now, last_time) \in 0 .. TimerMod - 1
        /\ TimerDiff(now, debouncing_time) \in 0 .. TimerMod - 1
        /\ now' \in 0 .. TimerMod - 1
        /\ TimerDiff(now, last_time) + 1 < TimerMod =>
             TimerDiff((now + 1) % TimerMod, last_time) = TimerDiff(now, last_time) + 1
        /\ TimerDiff(now, debouncing_time) + 1 < TimerMod =>
             TimerDiff((now + 1) % TimerMod, debouncing_time) = TimerDiff(now, debouncing_time) + 1
    BY <2>1, <2>2, TimerFacts
  <2>5. gap + 1 < TimerMod /\ DEBOUNCE + gap + 1 <= TimerMod /\ TimerMod \in Nat
    BY <1>3, <2>2, DebounceAssumption
  <2> QED BY <1>3, <2>3, <2>4, <2>5
<1>10. TypeOK'
  <2>1. held' \in [Keys -> 0 .. DEBOUNCE] /\ quiet' \in [Keys -> 0 .. DEBOUNCE]
    BY <1>4, <1>7
  <2>2. gap' \in 0 .. MaxGap
    BY <1>3 DEF Tick
  <2> QED BY <1>1, <1>2, <1>4, <1>9, <2>1, <2>2 DEF TypeOK
<1>11. GInv'
  BY <1>2, <1>3, <1>4, <1>5, <1>7, <1>9 DEF Inv, GInv
<1>12. PrInv'
  <2> SUFFICES ASSUME build.type = "sym_defer_pr" PROVE PrInv'
    BY <1>2 DEF PrInv
  <2>1. TimerDiff(now, last_time)' = gap'
    BY <1>9 DEF Inv, PrInv
  <2>2. \A g \in Groups : last_raw'[g] = raw' \cap g
    BY <1>4 DEF Inv, PrInv
  <2>3. ASSUME NEW g \in Groups, debounce_counters'[g] > 0, NEW k \in g
        PROVE  Since(held[k], debounce_counters[g])'
    <3>1. Since(held[k], debounce_counters[g]) /\ k \in Keys
      BY <1>1, <1>4, <2>3, GroupFacts DEF Inv, PrInv
    <3> QED BY <3>1, <1>8
  <2> QED BY <1>2, <2>1, <2>2, <2>3 DEF PrInv
<1>13. CountInv'
  BY <1>2, <1>4, <1>9 DEF Inv, CountInv
<1>14. PkInv'
  <2> SUFFICES ASSUME build.type = "sym_defer_pk", NEW k \in Keys, debounce_counters'[{k}] > 0
               PROVE  k \in Delta(raw', cooked') /\ Since(held[k], debounce_counters[{k}])'
    BY <1>2 DEF PkInv, Delta
  <2>1. {k} \in Groups
    BY <1>1, GroupFacts, Zenon
  <2>2. k \in Delta(raw, cooked) /\ Since(held[k], debounce_counters[{k}])
    BY <1>4 DEF Inv, PkInv
  <2> QED BY <1>4, <1>8, <2>1, <2>2
<1>15. EagerInv'
  <2> SUFFICES ASSUME build.type \in EagerTypes, NEW g \in Groups
               PROVE  IF debounce_counters'[g] > 0
                      THEN /\ \A j \in g : Since(quiet[j], debounce_counters[g])'
                           /\ \E j \in g : quiet'[j] <= (DEBOUNCE - debounce_counters'[g]) + gap'
                      ELSE /\ \A j \in g : quiet'[j] >= DEBOUNCE
                           /\ g \cap Delta(raw', cooked') = {}
    BY <1>2 DEF EagerInv, Delta
  <2>1. g \subseteq Keys
    BY <1>1, GroupFacts
  <2>2. CASE debounce_counters[g] > 0
    <3>1. /\ \A j \in g : Since(quiet[j], debounce_counters[g])
          /\ \E j \in g : quiet[j] <= (DEBOUNCE - debounce_counters[g]) + gap
      BY <2>2 DEF Inv, EagerInv
    <3>2. \A j \in g : Since(quiet[j], debounce_counters[g])'
      BY <1>8, <2>1, <3>1
    <3>3. PICK j \in g : quiet[j] <= (DEBOUNCE - debounce_counters[g]) + gap
      BY <3>1
    <3>4. /\ quiet[j] \in Nat /\ quiet'[j] \in Nat /\ quiet'[j] <= quiet[j] + 1
          /\ debounce_counters[g] \in 0 .. DEBOUNCE
      BY <1>5, <1>6, <1>7, <2>1
    <3>5. quiet'[j] <= (DEBOUNCE - debounce_counters'[g]) + gap'
      BY <1>3, <1>4, <3>3, <3>4
    <3> QED BY <1>4, <2>2, <3>2, <3>5
  <2>3. CASE ~(debounce_counters[g] > 0)
    <3>1. (\A j \in g : quiet[j] >= DEBOUNCE) /\ g \cap Delta(raw, cooked) = {}
      BY <2>3 DEF Inv, EagerInv
    <3> QED BY <1>4, <1>7, <2>1, <2>3, <3>1
  <2> QED BY <2>2, <2>3
<1>16. AsymInv'
  <2> SUFFICES ASSUME build.type = "asym_eager_defer_pk", NEW k \in Keys
               PROVE  /\ k \in raw' \/ debounce_counters'[{k}] > 0 => k \in cooked'
                      /\ IF debounce_counters'[{k}] = 0
                         THEN k \in cooked' => quiet'[k] >= DEBOUNCE
                         ELSE IF {k} \in pressed'
                         THEN Since(quiet[k], debounce_counters[{k}])'
                         ELSE k \notin raw' /\ quiet'[k] >= DEBOUNCE /\ Since(held[k], debounce_counters[{k}])'
    BY <1>2 DEF AsymInv
  <2>1. {k} \in Groups
    BY <1>1, GroupFacts, Zenon
  <2>2. /\ k \in raw \/ debounce_counters[{k}] > 0 => k \in cooked
        /\ IF debounce_counters[{k}] = 0
           THEN k \in cooked => quiet[k] >= DEBOUNCE
           ELSE IF {k} \in pressed
           THEN Since(quiet[k], debounce_counters[{k}])
           ELSE k \notin raw /\ quiet[k] >= DEBOUNCE /\ Since(held[k], debounce_counters[{k}])
    BY DEF Inv, AsymInv
  <2> QED BY <1>4, <1>7, <1>8, <2>1, <2>2
<1> QED BY <1>10, <1>11, <1>12, <1>13, <1>14, <1>15, <1>16 DEF Inv

-----------------------------------------------------------------------------
(* Scans.  Each algorithm keeps the invariant and what the properties ask  *)
(* of a step.                                                              *)

DeferStep ==
  build.type \in {"sym_defer_g", "sym_defer_pr", "sym_defer_pk"} =>
    \A k \in Delta(cooked, cooked') : \A j \in GroupOf(k) : Stable(j)

QuietStep ==
  build.type \in {"sym_eager_pk", "sym_eager_pr"} =>
    \A k \in Delta(cooked, cooked') : \A j \in GroupOf(k) : quiet[j] >= DEBOUNCE

PromptStep ==
  gap' = 0 =>
    /\ build.type \in {"sym_eager_pk", "sym_eager_pr"} =>
         \A k \in Keys : (\A j \in GroupOf(k) : quiet[j] >= DEBOUNCE)
                            => (k \in raw' <=> k \in cooked')
    /\ build.type = "asym_eager_defer_pk" => raw' \subseteq cooked'

ReleaseStep ==
  build.type = "asym_eager_defer_pk" =>
    \A k \in cooked \ cooked' : Stable(k) /\ quiet[k] >= DEBOUNCE

ReportStep == gap' = 0 => (changed' <=> cooked' # cooked)

Promises == DeferStep /\ QuietStep /\ PromptStep /\ ReleaseStep /\ ReportStep

\* What a scan does whatever the algorithm.
LEMMA ScanFacts ==
  ASSUME Inv, NEW curr \in SUBSET Keys, matrix_scan(curr)
  PROVE  /\ TypeOK /\ build \in Builds /\ build' = build /\ Groups' = Groups
         /\ raw' = curr /\ now' = now /\ gap' = 0
         /\ DEBOUNCE \in Nat \ {0} /\ gap \in Nat
         /\ \A g \in Groups : debounce_counters[g] \in 0 .. DEBOUNCE
         /\ \A k \in Keys :
              /\ held[k] \in 0 .. DEBOUNCE /\ quiet[k] \in 0 .. DEBOUNCE
              /\ held'[k] = IF k \in Delta(raw, curr) THEN 0 ELSE held[k]
              /\ quiet'[k] = IF k \in Delta(cooked, cooked') THEN 0 ELSE quiet[k]
         /\ held' \in [Keys -> 0 .. DEBOUNCE] /\ quiet' \in [Keys -> 0 .. DEBOUNCE]
         /\ gap' \in 0 .. MaxGap
<1>1. TypeOK /\ build \in Builds /\ build' = build /\ DEBOUNCE \in Nat \ {0} /\ MaxGap \in Nat
  BY DebounceAssumption DEF Inv, TypeOK, matrix_scan
<1>2. \A k \in Keys : held[k] \in 0 .. DEBOUNCE /\ quiet[k] \in 0 .. DEBOUNCE
  BY <1>1 DEF TypeOK
<1>3. /\ held' = [k \in Keys |-> IF k \in Delta(raw, curr) THEN 0 ELSE held[k]]
      /\ quiet' = [k \in Keys |-> IF k \in Delta(cooked, cooked') THEN 0 ELSE quiet[k]]
  BY DEF matrix_scan
<1>4. held' \in [Keys -> 0 .. DEBOUNCE] /\ quiet' \in [Keys -> 0 .. DEBOUNCE]
  BY <1>1, <1>2, <1>3
<1>5. Groups' = Groups
  BY <1>1, GroupsFixed
<1>6. \A g \in Groups : debounce_counters[g] \in 0 .. DEBOUNCE
  BY <1>1 DEF TypeOK
<1>7. raw' = curr /\ now' = now /\ gap' = 0 /\ gap \in Nat
  BY <1>1 DEF matrix_scan, TypeOK
<1> QED BY <1>1, <1>2, <1>3, <1>4, <1>5, <1>6, <1>7

\* The invariants of the other algorithms say nothing of a build's own.
LEMMA OwnInv ==
  ASSUME TypeOK',
         build'.type = "sym_defer_g" => GInv', build'.type = "sym_defer_pr" => PrInv',
         build'.type \in CounterTypes => CountInv', build'.type = "sym_defer_pk" => PkInv',
         build'.type \in EagerTypes => EagerInv',
         build'.type = "asym_eager_defer_pk" => AsymInv'
  PROVE  Inv'
BY DEF Inv, GInv, PrInv, CountInv, PkInv, EagerInv, AsymInv

LEMMA ScanDeferG ==
  ASSUME Inv, NEW curr \in SUBSET Keys, matrix_scan(curr), sym_defer_g(curr, curr # raw)
  PROVE  Inv' /\ Promises
<1>1. build.type = "sym_defer_g"
  BY DEF sym_defer_g
<1>2. PICK moved \in BOOLEAN : moved = (curr # raw)
  OBVIOUS
<1>3. /\ debouncing_time' = IF moved THEN now ELSE debouncing_time
      /\ debouncing' = (moved \/ (debouncing /\ ~Expired(moved)))
      /\ cooked' = IF Expired(moved) THEN curr ELSE cooked
      /\ changed' = (Expired(moved) /\ cooked # curr)
      /\ last_raw' = last_raw /\ pressed' = pressed
      /\ debounce_counters' = debounce_counters /\ last_time' = last_time
      /\ counters_need_update' = counters_need_update /\ matrix_need_update' = matrix_need_update
  BY <1>2, Zenon DEF sym_defer_g, counterVars
<1>4. Expired(moved) => ~moved /\ debouncing /\ TimerDiff(now, debouncing_time) >= DEBOUNCE
  BY DEF Expired
<1>5. ~moved /\ debouncing /\ ~Expired(moved) => ~(TimerDiff(now, debouncing_time) >= DEBOUNCE)
  BY DEF Expired
<1>6. TimerDiff(now, now) = 0 /\ TimerDiff(now, debouncing_time) \in Nat
  BY TimerFacts DEF Inv, TypeOK
<1>7. TypeOK'
  <2>1. cooked' \subseteq Keys /\ changed' \in BOOLEAN /\ debouncing' \in BOOLEAN
        /\ debouncing_time' \in 0 .. TimerMod - 1
    BY <1>3, ScanFacts DEF TypeOK
  <2> QED BY <1>3, <2>1, ScanFacts DEF TypeOK
<1>8. GInv'
  <2> SUFFICES ASSUME debouncing'
               PROVE  /\ TimerDiff(now, debouncing_time)' < DEBOUNCE + gap'
                      /\ \A k \in Keys : held'[k] >= DEBOUNCE
                                          \/ held'[k] >= TimerDiff(now, debouncing_time)'
    BY DEF GInv
  <2>1. CASE moved
    <3>1. TimerDiff(now, debouncing_time)' = 0
      BY <1>3, <1>6, <2>1, ScanFacts DEF TimerDiff
    <3>2. \A k \in Keys : held'[k] \in Nat
      BY ScanFacts
    <3> QED BY <3>1, <3>2, ScanFacts
  <2>2. CASE ~moved
    <3>1. debouncing /\ ~Expired(moved)
      BY <1>3, <2>2
    <3>2. TimerDiff(now, debouncing_time)' = TimerDiff(now, debouncing_time)
      BY <1>3, <2>2, ScanFacts DEF TimerDiff
    <3>3. TimerDiff(now, debouncing_time) < DEBOUNCE + gap'
      BY <1>5, <1>6, <2>2, <3>1, ScanFacts
    <3>4. \A k \in Keys : held'[k] = held[k]
      BY <1>2, <2>2, ScanFacts DEF Delta
    <3>5. \A k \in Keys : held[k] >= DEBOUNCE \/ held[k] >= TimerDiff(now, debouncing_time)
      BY <1>1, <3>1 DEF Inv, GInv
    <3> QED BY <3>2, <3>3, <3>4, <3>5
  <2> QED BY <2>1, <2>2
<1>9. Inv'
  BY <1>1, <1>7, <1>8, ScanFacts, OwnInv DEF CounterTypes, EagerTypes
<1>10. DeferStep
  <2> SUFFICES ASSUME NEW k \in Delta(cooked, cooked'), NEW j \in GroupOf(k) PROVE Stable(j)
    BY DEF DeferStep
  <2>1. Expired(moved)
    BY <1>3 DEF Delta
  <2>2. raw' = raw /\ debouncing /\ TimerDiff(now, debouncing_time) >= DEBOUNCE
    BY <1>2, <1>4, <2>1, ScanFacts
  <2>3. j \in Keys
    BY <1>1 DEF GroupOf
  <2>4. held[j] >= DEBOUNCE
    <3>1. held[j] >= DEBOUNCE \/ held[j] >= TimerDiff(now, debouncing_time)
      BY <1>1, <2>2, <2>3 DEF Inv, GInv
    <3> QED BY <3>1, <2>2, <2>3, <1>6, ScanFacts
  <2> QED BY <2>2, <2>4 DEF Stable, Delta
<1>11. ReportStep
  BY <1>3 DEF ReportStep
<1> QED BY <1>1, <1>9, <1>10, <1>11 DEF Promises, QuietStep, PromptStep, ReleaseStep

LEMMA ScanDeferPr ==
  ASSUME Inv, NEW curr \in SUBSET Keys, matrix_scan(curr), sym_defer_pr(curr, curr # raw)
  PROVE  Inv' /\ Promises
<1>1. build.type = "sym_defer_pr"
  BY DEF sym_defer_pr
<1>2. PICK expired \in SUBSET Groups :
        expired = {g \in Groups : ~Moved(g, curr) /\ debounce_counters[g] \in 1 .. Elapsed}
  OBVIOUS
<1>3. /\ last_time' = now
      /\ last_raw' = [g \in Groups |-> curr \cap g]
      /\ debounce_counters' = [g \in Groups |->
           IF Moved(g, curr) THEN DEBOUNCE
           ELSE IF debounce_counters[g] > Elapsed THEN debounce_counters[g] - Elapsed ELSE 0]
      /\ cooked' = Transfer(cooked, curr, UNION expired)
      /\ changed' = ((UNION expired) \cap Delta(cooked, curr) # {})
      /\ debouncing' = debouncing /\ debouncing_time' = debouncing_time /\ pressed' = pressed
      /\ counters_need_update' = counters_need_update /\ matrix_need_update' = matrix_need_update
  BY <1>2, Zenon DEF sym_defer_pr
<1>4. /\ Elapsed \in Nat /\ Elapsed <= gap
      /\ \A c \in 0 .. DEBOUNCE : c > Elapsed => Elapsed = gap
  BY <1>1, ElapsedFacts DEF Inv, PrInv
<1>5. \A g \in Groups : g \subseteq Keys
  BY ScanFacts, GroupFacts
<1>6. ASSUME NEW g \in Groups, ~Moved(g, curr), NEW k \in g
      PROVE  k \notin Delta(raw, curr) /\ held'[k] = held[k]
  <2>1. curr \cap g = raw \cap g
    BY <1>1, <1>6 DEF Inv, PrInv, Moved
  <2> QED BY <2>1, <1>5, ScanFacts DEF Delta
<1>7. \A g \in Groups : debounce_counters'[g] \in 0 .. DEBOUNCE
  BY <1>3, <1>4, ScanFacts
<1>8. TypeOK'
  <2>1. cooked' \subseteq Keys
    BY <1>3, <1>5, ScanFacts DEF TypeOK, Transfer
  <2>2. debounce_counters' \in [Groups -> 0 .. DEBOUNCE] /\ last_raw' \in [Groups -> SUBSET Keys]
    BY <1>3, <1>7
  <2>3. changed' \in BOOLEAN /\ last_time' \in 0 .. TimerMod - 1
    BY <1>3, ScanFacts DEF TypeOK
  <2>4. pressed' \subseteq Groups' /\ debouncing' \in BOOLEAN
        /\ debouncing_time' \in 0 .. TimerMod - 1
        /\ counters_need_update' \in BOOLEAN /\ matrix_need_update' \in BOOLEAN
    BY <1>3, ScanFacts DEF TypeOK
  <2>5. build' \in Builds /\ raw' \subseteq Keys /\ now' \in 0 .. TimerMod - 1
    BY ScanFacts DEF TypeOK
  <2> QED BY <2>1, <2>2, <2>3, <2>4, <2>5, ScanFacts DEF TypeOK
<1>9. PrInv'
  <2>1. TimerDiff(now', last_time') = gap'
    BY <1>3, TimerFacts, ScanFacts DEF TypeOK
  <2>2. \A g \in Groups : last_raw'[g] = raw' \cap g
    BY <1>3, ScanFacts
  <2>3. ASSUME NEW g \in Groups, debounce_counters'[g] > 0, NEW k \in g
        PROVE  Since(held[k], debounce_counters[g])'
    <3>1. CASE Moved(g, curr)
      <4>1. debounce_counters'[g] = DEBOUNCE /\ held'[k] \in Nat
        BY <1>3, <1>5, <3>1, ScanFacts
      <4> QED BY <4>1, ScanFacts DEF Since
    <3>2. CASE ~Moved(g, curr)
      <4>1. debounce_counters[g] > Elapsed /\ debounce_counters'[g] = debounce_counters[g] - Elapsed
        BY <1>3, <2>3, <3>2
      <4>2. Elapsed = gap /\ debounce_counters[g] > 0
        BY <1>4, <4>1, ScanFacts
      <4>3. Since(held[k], debounce_counters[g]) /\ held'[k] = held[k] /\ held[k] \in Nat
        BY <1>1, <1>5, <1>6, <3>2, <4>2, ScanFacts DEF Inv, PrInv
      <4> QED BY <4>1, <4>2, <4>3, ScanFacts DEF Since
    <3> QED BY <3>1, <3>2
  <2> QED BY <2>1, <2>2, <2>3, ScanFacts DEF PrInv
<1>10. Inv'
  BY <1>1, <1>8, <1>9, ScanFacts, OwnInv DEF CounterTypes, EagerTypes
<1>11. DeferStep
  <2> SUFFICES ASSUME NEW k \in Delta(cooked, cooked'), NEW j \in GroupOf(k) PROVE Stable(j)
    BY DEF DeferStep
  <2>1. k \in UNION expired /\ k \in Keys
    BY <1>3, <1>5, ScanFacts DEF Delta, Transfer, TypeOK
  <2>2. PICK g \in expired : g = GroupOf(k)
    BY <2>1, InUnion, ScanFacts
  <2>3. g \in Groups /\ ~Moved(g, curr) /\ debounce_counters[g] \in 1 .. Elapsed
    BY <1>2
  <2>4. Since(held[j], debounce_counters[g]) /\ j \in Keys /\ held[j] \in Nat
    BY <1>1, <1>5, <2>2, <2>3, <1>4, ScanFacts DEF Inv, PrInv
  <2>5. held[j] >= DEBOUNCE
    BY <1>4, <2>3, <2>4, ScanFacts DEF Since
  <2> QED BY <1>6, <2>2, <2>3, <2>5, ScanFacts DEF Stable
<1>12. ReportStep
  <2>1. (UNION expired) \cap Delta(cooked, curr) # {} <=> cooked' # cooked
    BY <1>3, TransferMoves
  <2> QED BY <1>3, <2>1 DEF ReportStep
<1> QED BY <1>1, <1>10, <1>11, <1>12 DEF Promises, QuietStep, PromptStep, ReleaseStep

LEMMA ScanDeferPk ==
  ASSUME Inv, NEW curr \in SUBSET Keys, matrix_scan(curr), sym_defer_pk(curr, curr # raw)
  PROVE  Inv' /\ Promises
<1>1. build.type = "sym_defer_pk" /\ build.type \in CounterTypes
  BY DEF sym_defer_pk, CounterTypes
<1>2. PICK moved \in BOOLEAN : moved = (curr # raw)
  OBVIOUS
<1>3. PICK next : next = Transfer(cooked, curr, UNION Ended)
  OBVIOUS
<1>4. PICK delta \in SUBSET Groups : delta = {g \in Groups : g \cap Delta(curr, next) # {}}
  OBVIOUS
<1>5. PICK started \in BOOLEAN :
        started = (moved /\ \E g \in delta : Counted[g] = DEBOUNCE_ELAPSED)
  OBVIOUS
<1>6. /\ cooked' = next
      /\ changed' = (next # cooked)
      /\ debounce_counters' =
           IF moved THEN [g \in Groups |-> StartCounter(Counted[g], g \in delta)] ELSE Counted
      /\ counters_need_update' = CountersNeedUpdate(started)
      /\ last_time' = LastTime(moved)
      /\ debouncing' = debouncing /\ debouncing_time' = debouncing_time /\ pressed' = pressed
      /\ last_raw' = last_raw /\ matrix_need_update' = matrix_need_update
  BY <1>2, <1>3, <1>4, <1>5, Zenon DEF sym_defer_pk
<1>7. /\ Counted \in [Groups -> 0 .. DEBOUNCE]
      /\ Ended \subseteq Groups
      /\ \A g \in Groups :
           /\ Counted[g] = IF debounce_counters[g] <= gap THEN 0 ELSE debounce_counters[g] - gap
           /\ g \in Ended <=> debounce_counters[g] > 0 /\ Counted[g] = 0
  BY <1>1, CountedFacts DEF Inv
<1>8. \A k \in Keys : {k} \in Groups
  BY <1>1, GroupFacts, ScanFacts, Zenon
<1>9. ASSUME NEW k \in Keys
      PROVE  /\ k \in next <=> IF {k} \in Ended THEN k \in curr ELSE k \in cooked
             /\ {k} \in delta <=> k \in Delta(curr, next)
  <2>1. k \in UNION Ended <=> {k} \in Ended
    <3>1. GroupOf(k) = {k} /\ (k \in UNION Ended <=> GroupOf(k) \in Ended)
      BY <1>1, <1>7, GroupFacts, InUnion, ScanFacts
    <3> QED BY <3>1
  <2>2. {k} \in delta <=> k \in Delta(curr, next)
    BY <1>4, <1>8
  <2> QED BY <1>3, <2>1, <2>2, Transferred
<1>10. ASSUME NEW g \in Groups
       PROVE  /\ debounce_counters'[g] \in 0 .. DEBOUNCE
              /\ debounce_counters'[g] > 0 => started \/ Counted[g] > 0
              /\ debounce_counters'[g] > 0 /\ moved => g \in delta
              /\ debounce_counters'[g] > 0 /\ Counted[g] > 0 => debounce_counters'[g] = Counted[g]
              /\ debounce_counters'[g] > 0 /\ Counted[g] = 0 => debounce_counters'[g] = DEBOUNCE /\ moved
  <2>1. Counted[g] \in 0 .. DEBOUNCE
    BY <1>7
  <2>2. CASE moved
    <3>1. debounce_counters'[g] = StartCounter(Counted[g], g \in delta)
      BY <1>6, <2>2
    <3>2. CASE g \in delta
      <4>1. debounce_counters'[g] = IF Counted[g] = 0 THEN DEBOUNCE ELSE Counted[g]
        BY <3>1, <3>2 DEF StartCounter, DEBOUNCE_ELAPSED
      <4>2. Counted[g] = 0 => started
        BY <1>5, <2>2, <3>2 DEF DEBOUNCE_ELAPSED
      <4> QED BY <2>1, <2>2, <3>2, <4>1, <4>2, ScanFacts
    <3>3. CASE g \notin delta
      <4>1. debounce_counters'[g] = 0
        BY <3>1, <3>3 DEF StartCounter, DEBOUNCE_ELAPSED
      <4> QED BY <4>1, ScanFacts
    <3> QED BY <3>2, <3>3
  <2>3. CASE ~moved
    <3>1. debounce_counters'[g] = Counted[g]
      BY <1>6, <2>3
    <3> QED BY <2>1, <2>3, <3>1, ScanFacts
  <2> QED BY <2>2, <2>3
<1>11. CountInv' /\ counters_need_update' \in BOOLEAN /\ last_time' \in 0 .. TimerMod - 1
  <2>1. started => moved
    BY <1>5
  <2>2. TypeOK /\ CountInv /\ build' = build /\ now' = now /\ gap' = 0
    BY ScanFacts DEF Inv
  <2> QED BY <1>1, <1>6, <1>10, <2>1, <2>2, CountKept
<1>12. TypeOK'
  <2>1. cooked' \subseteq Keys /\ changed' \in BOOLEAN
    BY <1>3, <1>6, ScanFacts DEF Transfer, TypeOK
  <2>2. debounce_counters' \in [Groups -> 0 .. DEBOUNCE]
    BY <1>6, <1>7, <1>10
  <2>3. pressed' \subseteq Groups' /\ debouncing' \in BOOLEAN
        /\ debouncing_time' \in 0 .. TimerMod - 1 /\ matrix_need_update' \in BOOLEAN
        /\ last_raw' \in [Groups' -> SUBSET Keys]
    BY <1>6, ScanFacts DEF TypeOK
  <2>4. build' \in Builds /\ raw' \subseteq Keys /\ now' \in 0 .. TimerMod - 1
    BY ScanFacts DEF TypeOK
  <2> QED BY <1>11, <2>1, <2>2, <2>3, <2>4, ScanFacts DEF TypeOK
\* A counter that goes on belongs to a switch that has not moved.
<1>13. ASSUME NEW k \in Keys, debounce_counters[{k}] > 0
       PROVE  k \in Delta(raw, cooked) /\ Since(held[k], debounce_counters[{k}])
  BY <1>1, <1>13 DEF Inv, PkInv
<1>14. PkInv'
  <2> SUFFICES ASSUME NEW k \in Keys, debounce_counters'[{k}] > 0
               PROVE  k \in Delta(raw', cooked') /\ Since(held[k], debounce_counters[{k}])'
    BY DEF PkInv, Delta
  <2>1. PICK g \in Groups : g = {k}
    BY <1>8
  <2>2. debounce_counters[g] \in 0 .. DEBOUNCE /\ Counted[g] \in 0 .. DEBOUNCE
    BY <1>7, ScanFacts
  <2>3. CASE Counted[g] > 0
    <3>1. debounce_counters[g] > 0 /\ g \notin Ended /\ debounce_counters'[g] = debounce_counters[g] - gap
      BY <1>7, <1>10, <2>1, <2>2, <2>3, ScanFacts
    <3>2. k \in Delta(raw, cooked) /\ Since(held[k], debounce_counters[g])
      BY <1>13, <2>1, <3>1
    <3>3. k \in next <=> k \in cooked
      BY <1>9, <2>1, <3>1
    <3>4. moved => k \in Delta(curr, next)
      BY <1>9, <1>10, <2>1
    <3>5. k \notin Delta(raw, curr) /\ k \in Delta(curr, next)
      BY <1>2, <3>2, <3>3, <3>4 DEF Delta
    <3>6. held'[k] = held[k] /\ held[k] \in Nat
      BY <3>5, ScanFacts
    <3>7. Since(held[k], debounce_counters[g])'
      BY <2>2, <3>1, <3>2, <3>6, ScanFacts DEF Since
    <3> QED BY <1>6, <2>1, <3>5, <3>7, ScanFacts
  <2>4. CASE Counted[g] = 0
    <3>1. debounce_counters'[g] = DEBOUNCE /\ k \in Delta(curr, next)
      BY <1>9, <1>10, <2>1, <2>4
    <3>2. held'[k] \in Nat
      BY ScanFacts
    <3>3. Since(held[k], debounce_counters[g])'
      BY <3>1, <3>2, ScanFacts DEF Since
    <3> QED BY <1>6, <2>1, <3>1, <3>3, ScanFacts
  <2> QED BY <2>2, <2>3, <2>4
<1>15. Inv'
  BY <1>1, <1>11, <1>12, <1>14, ScanFacts, OwnInv DEF EagerTypes
<1>16. DeferStep
  <2> SUFFICES ASSUME NEW k \in Delta(cooked, cooked'), NEW j \in GroupOf(k) PROVE Stable(j)
    BY DEF DeferStep
  <2>1. k \in Keys
    BY <1>12, ScanFacts DEF TypeOK, Delta
  <2>2. j = k
    <3>1. GroupOf(k) = {k}
      BY <1>1, <2>1, GroupFacts, ScanFacts
    <3> QED BY <3>1
  <2>3. PICK g \in Groups : g = {k}
    BY <1>8, <2>1
  <2>4. g \in Ended /\ (k \in next <=> k \in curr)
    BY <1>6, <1>9, <2>1, <2>3 DEF Delta
  <2>5. debounce_counters[g] > 0 /\ debounce_counters[g] <= gap /\ debounce_counters[g] \in Nat
    BY <1>7, <2>4, ScanFacts
  <2>6. k \in Delta(raw, cooked) /\ Since(held[k], debounce_counters[g])
    BY <1>13, <2>1, <2>3, <2>5
  <2>7. held[k] >= DEBOUNCE
    BY <2>1, <2>5, <2>6, ScanFacts DEF Since
  <2>8. k \notin Delta(raw, raw')
    BY <1>6, <2>4, <2>6, ScanFacts DEF Delta
  <2> QED BY <2>2, <2>7, <2>8 DEF Stable
<1>17. ReportStep
  BY <1>6 DEF ReportStep
<1> QED BY <1>1, <1>15, <1>16, <1>17 DEF Promises, QuietStep, PromptStep, ReleaseStep

LEMMA ScanEager ==
  ASSUME Inv, NEW curr \in SUBSET Keys, matrix_scan(curr), Eager(curr, curr # raw),
         build.type \in EagerTypes
  PROVE  Inv' /\ Promises
<1>1. build.type \in CounterTypes
  BY DEF CounterTypes, EagerTypes
<1>2. PICK transfer \in BOOLEAN : transfer = (curr # raw \/ MatrixNeedUpdate(Groups))
  OBVIOUS
<1>3. PICK flipped \in SUBSET Groups :
        flipped = {g \in Groups : /\ transfer /\ g \cap Delta(curr, cooked) # {}
                                  /\ Counted[g] = DEBOUNCE_ELAPSED}
  OBVIOUS
<1>4. PICK started \in BOOLEAN : started = (flipped # {})
  OBVIOUS
<1>5. /\ cooked' = Transfer(cooked, curr, UNION flipped)
      /\ changed' = (flipped # {})
      /\ debounce_counters' = [g \in Groups |-> IF g \in flipped THEN DEBOUNCE ELSE Counted[g]]
      /\ counters_need_update' = CountersNeedUpdate(started)
      /\ matrix_need_update' = (MatrixNeedUpdate(Groups) /\ ~transfer)
      /\ last_time' = LastTime(transfer)
      /\ debouncing' = debouncing /\ debouncing_time' = debouncing_time
      /\ last_raw' = last_raw /\ pressed' = pressed
  BY <1>2, <1>3, <1>4, Zenon DEF Eager
<1>6. /\ Counted \in [Groups -> 0 .. DEBOUNCE]
      /\ Ended \subseteq Groups
      /\ \A g \in Groups :
           /\ Counted[g] = IF debounce_counters[g] <= gap THEN 0 ELSE debounce_counters[g] - gap
           /\ g \in Ended <=> debounce_counters[g] > 0 /\ Counted[g] = 0
           /\ g \in Ended => counters_need_update /\ Elapsed > 0
  BY <1>1, CountedFacts DEF Inv
<1>7. \A g \in Groups : g \subseteq Keys
  BY GroupFacts, ScanFacts
\* Where the matrix differs and no counter runs, the call looks.
<1>8. ASSUME NEW g \in Groups, g \cap Delta(curr, cooked) # {}, Counted[g] = 0
      PROVE  g \in flipped
  <2>1. CASE debounce_counters[g] > 0
    <3>1. g \in Ended
      BY <1>6, <1>8, <2>1
    <3>2. counters_need_update /\ Elapsed > 0 /\ Ended \cap Groups # {}
      BY <1>6, <3>1
    <3>3. MatrixNeedUpdate(Groups)
      BY <3>2 DEF MatrixNeedUpdate
    <3> QED BY <1>2, <1>3, <1>8, <3>3 DEF DEBOUNCE_ELAPSED
  <2>2. CASE ~(debounce_counters[g] > 0)
    <3>1. g \cap Delta(raw, cooked) = {}
      BY <2>2 DEF Inv, EagerInv
    <3>2. curr # raw
      BY <1>8, <3>1 DEF Delta
    <3> QED BY <1>2, <1>3, <1>8, <3>2 DEF DEBOUNCE_ELAPSED
  <2> QED BY <2>1, <2>2
<1>9. ASSUME NEW g \in flipped
      PROVE  /\ Counted[g] = 0 /\ \E j \in g : j \in Delta(cooked, cooked')
             /\ \A j \in g : j \in cooked' <=> j \in curr
  <2>1. Counted[g] = 0 /\ g \cap Delta(curr, cooked) # {}
    BY <1>3 DEF DEBOUNCE_ELAPSED
  <2>2. \A j \in g : j \in cooked' <=> j \in curr
    BY <1>5, Transferred
  <2> QED BY <2>1, <2>2 DEF Delta
<1>10. ASSUME NEW g \in Groups \ flipped, NEW j \in g
       PROVE  j \in cooked' <=> j \in cooked
  <2>1. j \in Keys /\ g = GroupOf(j)
    BY GroupFacts, ScanFacts
  <2>2. j \notin UNION flipped
    BY <2>1, InUnion, ScanFacts
  <2> QED BY <1>5, <2>2, Transferred
\* A group that no counter keeps has been quiet.
<1>11. ASSUME NEW g \in Groups, Counted[g] = 0
       PROVE  \A j \in g : quiet[j] >= DEBOUNCE
  <2> SUFFICES ASSUME NEW j \in g PROVE quiet[j] >= DEBOUNCE
    OBVIOUS
  <2>1. quiet[j] \in Nat /\ debounce_counters[g] \in 0 .. DEBOUNCE
    BY <1>7, ScanFacts
  <2>2. CASE debounce_counters[g] > 0
    <3>1. Since(quiet[j], debounce_counters[g])
      BY <2>2 DEF Inv, EagerInv
    <3>2. debounce_counters[g] <= gap
      BY <1>6, <1>11, <2>1, <2>2, ScanFacts
    <3> QED BY <2>1, <3>1, <3>2, ScanFacts DEF Since
  <2>3. CASE ~(debounce_counters[g] > 0)
    BY <2>3 DEF Inv, EagerInv
  <2> QED BY <2>2, <2>3
<1>12. \A g \in Groups : /\ debounce_counters'[g] = IF g \in flipped THEN DEBOUNCE ELSE Counted[g]
                         /\ debounce_counters'[g] \in 0 .. DEBOUNCE
  BY <1>5, <1>6, ScanFacts
<1>13. CountInv' /\ counters_need_update' \in BOOLEAN /\ last_time' \in 0 .. TimerMod - 1
  <2>1. started => transfer
    BY <1>3, <1>4
  <2>2. TypeOK /\ CountInv /\ build' = build /\ now' = now /\ gap' = 0
    BY ScanFacts DEF Inv
  <2>3. \A g \in Groups : debounce_counters'[g] > 0 => started \/ Counted[g] > 0
    BY <1>4, <1>12
  <2> QED BY <1>1, <1>5, <2>1, <2>2, <2>3, CountKept
<1>14. TypeOK'
  <2>1. cooked' \subseteq Keys /\ changed' \in BOOLEAN /\ matrix_need_update' \in BOOLEAN
    BY <1>5, ScanFacts DEF Transfer, TypeOK
  <2>2. debounce_counters' \in [Groups -> 0 .. DEBOUNCE]
    BY <1>5, <1>12
  <2>3. pressed' \subseteq Groups' /\ debouncing' \in BOOLEAN
        /\ debouncing_time' \in 0 .. TimerMod - 1
        /\ last_raw' \in [Groups' -> SUBSET Keys]
    BY <1>5, ScanFacts DEF TypeOK
  <2>4. build' \in Builds /\ raw' \subseteq Keys /\ now' \in 0 .. TimerMod - 1
    BY ScanFacts DEF TypeOK
  <2> QED BY <1>13, <2>1, <2>2, <2>3, <2>4, ScanFacts DEF TypeOK
<1>15. EagerInv'
  <2> SUFFICES ASSUME NEW g \in Groups
               PROVE  IF debounce_counters'[g] > 0
                      THEN /\ \A j \in g : Since(quiet[j], debounce_counters[g])'
                           /\ \E j \in g : quiet'[j] <= (DEBOUNCE - debounce_counters'[g]) + gap'
                      ELSE /\ \A j \in g : quiet'[j] >= DEBOUNCE
                           /\ g \cap Delta(raw', cooked') = {}
    BY ScanFacts DEF EagerInv, Delta
  <2>1. \A j \in g : quiet[j] \in 0 .. DEBOUNCE /\ quiet'[j] \in 0 .. DEBOUNCE
    BY <1>7, ScanFacts
  <2>2. CASE g \in flipped
    <3>1. debounce_counters'[g] = DEBOUNCE
      BY <1>12, <2>2
    <3>2. PICK j \in g : j \in Delta(cooked, cooked')
      BY <1>9, <2>2
    <3>3. quiet'[j] = 0
      BY <1>7, <3>2, ScanFacts
    <3>4. \A i \in g : Since(quiet[i], debounce_counters[g])'
      BY <2>1, <3>1, ScanFacts DEF Since
    <3> QED BY <3>1, <3>3, <3>4, ScanFacts
  <2>3. CASE g \notin flipped
    <3>1. debounce_counters'[g] = Counted[g] /\ Counted[g] \in 0 .. DEBOUNCE
      BY <1>6, <1>12, <2>3
    <3>2. \A j \in g : quiet'[j] = quiet[j] /\ (j \in cooked' <=> j \in cooked)
      BY <1>7, <1>10, <2>3, ScanFacts DEF Delta
    <3>3. CASE Counted[g] > 0
      <4>1. debounce_counters[g] > gap /\ Counted[g] = debounce_counters[g] - gap
        BY <1>6, <3>3, ScanFacts
      <4>2. /\ \A j \in g : Since(quiet[j], debounce_counters[g])
            /\ \E j \in g : quiet[j] <= (DEBOUNCE - debounce_counters[g]) + gap
        BY <4>1, ScanFacts DEF Inv, EagerInv
      <4>3. \A j \in g : Since(quiet[j], debounce_counters[g])'
        BY <2>1, <3>1, <3>2, <4>1, <4>2, ScanFacts DEF Since
      <4>4. PICK j \in g : quiet[j] <= (DEBOUNCE - debounce_counters[g]) + gap
        BY <4>2
      <4>5. quiet'[j] <= (DEBOUNCE - debounce_counters'[g]) + gap'
        BY <2>1, <3>1, <3>2, <4>1, <4>4, ScanFacts
      <4> QED BY <3>1, <3>3, <4>3, <4>5
    <3>4. CASE Counted[g] = 0
      <4>1. \A j \in g : quiet'[j] >= DEBOUNCE
        BY <1>11, <3>2, <3>4
      <4>2. g \cap Delta(curr, cooked) = {}
        BY <1>8, <2>3, <3>4
      <4>3. g \cap Delta(raw', cooked') = {}
        BY <3>2, <4>2, ScanFacts DEF Delta
      <4> QED BY <3>1, <3>4, <4>1, <4>3
    <3> QED BY <3>1, <3>3, <3>4
  <2> QED BY <2>2, <2>3
<1>16. Inv'
  BY <1>13, <1>14, <1>15, ScanFacts, OwnInv DEF EagerTypes
<1>17. QuietStep
  <2> SUFFICES ASSUME NEW k \in Delta(cooked, cooked'), NEW j \in GroupOf(k)
               PROVE  quiet[j] >= DEBOUNCE
    BY DEF QuietStep
  <2>1. k \in Keys
    BY <1>14, ScanFacts DEF TypeOK, Delta
  <2>2. GroupOf(k) \in Groups /\ k \in GroupOf(k)
    BY <2>1, GroupFacts, ScanFacts
  <2>3. GroupOf(k) \in flipped
    BY <1>10, <2>2 DEF Delta
  <2> QED BY <1>9, <1>11, <2>2, <2>3
<1>18. PromptStep
  <2> SUFFICES ASSUME NEW k \in Keys, \A j \in GroupOf(k) : quiet[j] >= DEBOUNCE
               PROVE  k \in raw' <=> k \in cooked'
    BY DEF PromptStep, EagerTypes
  <2>1. PICK g \in Groups : g = GroupOf(k)
    BY GroupFacts, ScanFacts
  <2>2. k \in g
    BY <2>1, GroupFacts, ScanFacts
  <2>3. Counted[g] = 0
    <3>1. CASE debounce_counters[g] > 0
      <4>1. PICK j \in g : quiet[j] <= (DEBOUNCE - debounce_counters[g]) + gap
        BY <3>1 DEF Inv, EagerInv
      <4>2. quiet[j] >= DEBOUNCE /\ quiet[j] \in Nat
        BY <1>7, <2>1, ScanFacts
      <4>3. debounce_counters[g] <= gap
        BY <4>1, <4>2, ScanFacts
      <4> QED BY <1>6, <4>3
    <3>2. CASE ~(debounce_counters[g] > 0)
      BY <1>6, <3>2, ScanFacts
    <3> QED BY <3>1, <3>2
  <2>4. CASE g \in flipped
    BY <1>9, <2>2, <2>4, ScanFacts
  <2>5. CASE g \notin flipped
    BY <1>8, <1>10, <2>2, <2>3, <2>5, ScanFacts DEF Delta
  <2> QED BY <2>4, <2>5
<1>19. ReportStep
  <2>1. flipped # {} => cooked' # cooked
    BY <1>9 DEF Delta
  <2>2. ASSUME flipped = {} PROVE cooked' = cooked
    BY <1>5, <2>2 DEF Transfer
  <2> QED BY <1>5, <2>1, <2>2 DEF ReportStep
<1> QED BY <1>16, <1>17, <1>18, <1>19 DEF Promises, DeferStep, ReleaseStep, EagerTypes

LEMMA ScanAsym ==
  ASSUME Inv, NEW curr \in SUBSET Keys, matrix_scan(curr), asym_eager_defer_pk(curr, curr # raw)
  PROVE  Inv' /\ Promises
<1>1. build.type = "asym_eager_defer_pk" /\ build.type \in CounterTypes
  BY DEF asym_eager_defer_pk, CounterTypes
<1>2. PICK transfer \in BOOLEAN : transfer = (curr # raw \/ MatrixNeedUpdate(pressed))
  OBVIOUS
<1>3. PICK released : released = UNION (Ended \ pressed)
  OBVIOUS
<1>4. PICK next : next = Transfer(cooked, curr, released)
  OBVIOUS
<1>5. PICK delta \in SUBSET Groups : delta = {g \in Groups : g \cap Delta(curr, next) # {}}
  OBVIOUS
<1>6. PICK started \in SUBSET Groups :
        started = {g \in delta : transfer /\ Counted[g] = DEBOUNCE_ELAPSED}
  OBVIOUS
<1>7. PICK cancelled : cancelled = IF transfer THEN Cancelled(delta) ELSE {}
  OBVIOUS
<1>8. PICK starts \in BOOLEAN : starts = (started # {})
  OBVIOUS
<1>9. /\ cooked' = next \cup Down(started, curr)
      /\ changed' = CookedChanged(released, Down(started, curr), curr)
      /\ pressed' = (pressed \ started) \cup {g \in started : g \subseteq curr}
      /\ debounce_counters' =
           [g \in Groups |-> IF g \in started THEN DEBOUNCE
                             ELSE IF g \in cancelled THEN DEBOUNCE_ELAPSED ELSE Counted[g]]
      /\ counters_need_update' = CountersNeedUpdate(starts)
      /\ matrix_need_update' = (MatrixNeedUpdate(pressed) /\ ~transfer)
      /\ last_time' = LastTime(transfer)
      /\ debouncing' = debouncing /\ debouncing_time' = debouncing_time /\ last_raw' = last_raw
  BY <1>2, <1>3, <1>4, <1>5, <1>6, <1>7, <1>8, Zenon DEF asym_eager_defer_pk
<1>10. /\ Counted \in [Groups -> 0 .. DEBOUNCE]
       /\ Ended \subseteq Groups
       /\ \A g \in Groups :
            /\ Counted[g] = IF debounce_counters[g] <= gap THEN 0 ELSE debounce_counters[g] - gap
            /\ g \in Ended <=> debounce_counters[g] > 0 /\ Counted[g] = 0
  BY <1>1, CountedFacts DEF Inv
<1>11. \A k \in Keys : {k} \in Groups
  BY <1>1, GroupFacts, ScanFacts, Zenon
\* What becomes of one key and its counter.
<1>12. ASSUME NEW k \in Keys
       PROVE  /\ k \in released <=> {k} \in Ended /\ {k} \notin pressed
              /\ k \in next <=> IF k \in released THEN k \in curr ELSE k \in cooked
              /\ {k} \in delta <=> k \in Delta(curr, next)
              /\ {k} \in started <=> {k} \in delta /\ transfer /\ Counted[{k}] = 0
              /\ {k} \in cancelled <=>
                   transfer /\ {k} \notin delta /\ Counted[{k}] # 0 /\ {k} \notin pressed
              /\ k \in Down(started, curr) <=> {k} \in started /\ k \in curr
              /\ {k} \in pressed' <=> IF {k} \in started THEN k \in curr ELSE {k} \in pressed
              /\ debounce_counters'[{k}] = IF {k} \in started THEN DEBOUNCE
                                           ELSE IF {k} \in cancelled THEN 0 ELSE Counted[{k}]
  <2>1. PICK g \in Groups : g = {k}
    BY <1>11
  <2>2. GroupOf(k) = g
    BY <1>1, <2>1, GroupFacts, ScanFacts
  <2>3. \A G \in SUBSET Groups : k \in UNION G <=> g \in G
    BY <2>2, InUnion, ScanFacts
  <2>4. k \in released <=> g \in Ended /\ g \notin pressed
    <3>1. Ended \ pressed \in SUBSET Groups
      BY <1>10
    <3> QED BY <1>3, <2>3, <3>1
  <2>5. k \in next <=> IF k \in released THEN k \in curr ELSE k \in cooked
    BY <1>4, Transferred
  <2>6. g \in delta <=> k \in Delta(curr, next)
    BY <1>5, <2>1
  <2>7. g \in started <=> g \in delta /\ transfer /\ Counted[g] = 0
    BY <1>6 DEF DEBOUNCE_ELAPSED
  <2>8. g \in cancelled <=> transfer /\ g \notin delta /\ Counted[g] # 0 /\ g \notin pressed
    BY <1>7 DEF Cancelled, DEBOUNCE_ELAPSED
  <2>9. k \in Down(started, curr) <=> g \in started /\ k \in curr
    <3>1. k \in UNION started <=> g \in started
      BY <2>3
    <3> QED BY <3>1 DEF Down
  <2>10. g \in pressed' <=> IF g \in started THEN k \in curr ELSE g \in pressed
    BY <1>9, <2>1
  <2>11. debounce_counters'[g] = IF g \in started THEN DEBOUNCE
                                ELSE IF g \in cancelled THEN 0 ELSE Counted[g]
    BY <1>9 DEF DEBOUNCE_ELAPSED
  <2> QED BY <2>1, <2>4, <2>5, <2>6, <2>7, <2>8, <2>9, <2>10, <2>11
\* The invariant, for one key.
<1>13. ASSUME NEW k \in Keys
       PROVE  /\ k \in raw \/ debounce_counters[{k}] > 0 => k \in cooked
              /\ debounce_counters[{k}] = 0 /\ k \in cooked => quiet[k] >= DEBOUNCE
              /\ debounce_counters[{k}] > 0 /\ {k} \in pressed =>
                   Since(quiet[k], debounce_counters[{k}])
              /\ debounce_counters[{k}] > 0 /\ {k} \notin pressed =>
                   k \notin raw /\ quiet[k] >= DEBOUNCE /\ Since(held[k], debounce_counters[{k}])
  <2>1. debounce_counters[{k}] \in 0 .. DEBOUNCE
    BY <1>11, ScanFacts
  <2> QED BY <1>1, <2>1 DEF Inv, AsymInv
\* A key that no counter keeps has been quiet, and one that is released now has
\* been open.
<1>14. ASSUME NEW k \in Keys, Counted[{k}] = 0, k \in cooked
       PROVE  quiet[k] >= DEBOUNCE /\ (k \in released => k \notin raw /\ held[k] >= DEBOUNCE)
  <2>1. PICK c \in 0 .. DEBOUNCE : c = debounce_counters[{k}]
    BY <1>11, ScanFacts
  <2>2. c <= gap /\ ({k} \in Ended <=> c > 0)
    <3>1. Counted[{k}] = (IF c <= gap THEN 0 ELSE c - gap) /\ ({k} \in Ended <=> c > 0)
      BY <1>10, <1>11, <1>14, <2>1
    <3> QED BY <1>14, <3>1, ScanFacts
  <2>3. quiet[k] \in Nat /\ held[k] \in Nat
    BY ScanFacts
  <2>4. \A h \in Nat : Since(h, c) => h >= DEBOUNCE
    BY <2>2, ScanFacts DEF Since
  <2>5. quiet[k] >= DEBOUNCE
    <3>1. CASE c = 0
      BY <1>13, <1>14, <2>1, <3>1
    <3>2. CASE c > 0 /\ {k} \in pressed
      <4>1. Since(quiet[k], c)
        BY <1>13, <2>1, <3>2
      <4> QED BY <2>3, <2>4, <4>1
    <3>3. CASE c > 0 /\ {k} \notin pressed
      BY <1>13, <2>1, <3>3
    <3> QED BY <2>1, <3>1, <3>2, <3>3, ScanFacts
  <2>6. k \in released => k \notin raw /\ held[k] >= DEBOUNCE
    BY <1>12, <1>13, <2>1, <2>2, <2>3, <2>4
  <2> QED BY <2>5, <2>6
<1>15. ASSUME NEW k \in Keys
       PROVE  /\ Counted[{k}] \in 0 .. DEBOUNCE
              /\ Counted[{k}] > 0 => /\ k \in cooked /\ k \notin released
                                     /\ debounce_counters[{k}] > gap
                                     /\ Counted[{k}] = debounce_counters[{k}] - gap
              /\ k \in released => k \in cooked /\ Counted[{k}] = 0
              /\ debounce_counters[{k}] \in 0 .. DEBOUNCE
  <2>1. PICK c \in 0 .. DEBOUNCE : c = debounce_counters[{k}]
    BY <1>11, ScanFacts
  <2>2. /\ Counted[{k}] = IF c <= gap THEN 0 ELSE c - gap
        /\ {k} \in Ended <=> c > 0 /\ Counted[{k}] = 0
    BY <1>10, <1>11, <2>1
  <2>3. c > 0 => k \in cooked
    BY <1>13, <2>1
  <2>4. k \in released => {k} \in Ended
    BY <1>12
  <2> QED BY <2>1, <2>2, <2>3, <2>4, ScanFacts
\* A press is never delayed.
<1>16. ASSUME NEW k \in Keys, k \in curr PROVE k \in cooked'
  <2>1. CASE k \in next
    BY <1>9, <2>1
  <2>2. CASE k \notin next
    <3>1. k \notin released /\ k \notin cooked
      BY <1>12, <1>16, <2>2
    <3>2. Counted[{k}] = 0 /\ k \notin raw
      <4>1. k \notin raw
        BY <1>13, <3>1
      <4>2. ~(Counted[{k}] > 0) /\ Counted[{k}] \in 0 .. DEBOUNCE
        BY <1>15, <3>1
      <4> QED BY <4>1, <4>2, ScanFacts
    <3>3. transfer /\ {k} \in delta
      BY <1>2, <1>12, <1>16, <2>2, <3>2 DEF Delta
    <3> QED BY <1>9, <1>12, <1>16, <3>2, <3>3
  <2> QED BY <2>1, <2>2
<1>17. ASSUME NEW g \in Groups
       PROVE  /\ debounce_counters'[g] \in 0 .. DEBOUNCE
              /\ debounce_counters'[g] > 0 => starts \/ Counted[g] > 0
  <2>1. debounce_counters'[g] = IF g \in started THEN DEBOUNCE
                               ELSE IF g \in cancelled THEN 0 ELSE Counted[g]
    BY <1>9 DEF DEBOUNCE_ELAPSED
  <2>2. Counted[g] \in 0 .. DEBOUNCE /\ (g \in started => starts)
    BY <1>8, <1>10
  <2> QED BY <2>1, <2>2, ScanFacts
<1>18. CountInv' /\ counters_need_update' \in BOOLEAN /\ last_time' \in 0 .. TimerMod - 1
  <2>1. starts => transfer
    BY <1>6, <1>8
  <2>2. TypeOK /\ CountInv /\ build' = build /\ now' = now /\ gap' = 0
    BY ScanFacts DEF Inv
  <2> QED BY <1>1, <1>9, <1>17, <2>1, <2>2, CountKept
<1>19. TypeOK'
  <2>1. cooked' \subseteq Keys
    BY <1>4, <1>9, ScanFacts DEF Transfer, TypeOK, Down
  <2>2. changed' \in BOOLEAN /\ matrix_need_update' \in BOOLEAN
    BY <1>9 DEF CookedChanged
  <2>3. pressed' \subseteq Groups'
    BY <1>9, ScanFacts DEF TypeOK
  <2>4. debounce_counters' \in [Groups -> 0 .. DEBOUNCE]
    BY <1>9, <1>17
  <2>5. debouncing' \in BOOLEAN /\ debouncing_time' \in 0 .. TimerMod - 1
        /\ last_raw' \in [Groups' -> SUBSET Keys]
    BY <1>9, ScanFacts DEF TypeOK
  <2>6. build' \in Builds /\ raw' \subseteq Keys /\ now' \in 0 .. TimerMod - 1
    BY ScanFacts DEF TypeOK
  <2> QED BY <1>18, <2>1, <2>2, <2>3, <2>4, <2>5, <2>6, ScanFacts DEF TypeOK
<1>20. AsymInv'
  <2> SUFFICES ASSUME NEW k \in Keys
               PROVE  /\ k \in raw' \/ debounce_counters'[{k}] > 0 => k \in cooked'
                      /\ IF debounce_counters'[{k}] = 0
                         THEN k \in cooked' => quiet'[k] >= DEBOUNCE
                         ELSE IF {k} \in pressed'
                         THEN Since(quiet[k], debounce_counters[{k}])'
                         ELSE k \notin raw' /\ quiet'[k] >= DEBOUNCE
                              /\ Since(held[k], debounce_counters[{k}])'
    BY DEF AsymInv
  <2>1. /\ quiet[k] \in Nat /\ held[k] \in Nat /\ quiet'[k] \in Nat /\ held'[k] \in Nat
        /\ (k \in cooked /\ k \in cooked' => quiet'[k] = quiet[k])
        /\ (k \notin raw /\ k \notin curr => held'[k] = held[k])
    BY ScanFacts DEF Delta
  <2>2. k \in raw' => k \in cooked'
    BY <1>16, ScanFacts
  <2>3. CASE {k} \in started
    <3>1. debounce_counters'[{k}] = DEBOUNCE /\ Counted[{k}] = 0 /\ k \in Delta(curr, next)
          /\ ({k} \in pressed' <=> k \in curr)
      BY <1>12, <2>3
    <3>2. /\ Since(quiet[k], debounce_counters[{k}])'
          /\ Since(held[k], debounce_counters[{k}])'
      BY <2>1, <3>1, ScanFacts DEF Since
    <3>3. CASE k \in curr
      BY <1>16, <3>1, <3>2, <3>3, ScanFacts
    <3>4. CASE k \notin curr
      <4>1. k \in next /\ k \notin released /\ k \in cooked /\ k \in cooked'
        BY <1>9, <1>12, <3>1, <3>4 DEF Delta
      <4>2. quiet'[k] >= DEBOUNCE
        BY <1>14, <2>1, <3>1, <4>1
      <4> QED BY <3>1, <3>2, <3>4, <4>1, <4>2, ScanFacts
    <3> QED BY <3>3, <3>4
  <2>4. CASE {k} \notin started /\ Counted[{k}] = 0
    <3>1. debounce_counters'[{k}] = 0 /\ (k \in cooked' <=> k \in next)
      BY <1>9, <1>12, <2>4
    <3>2. k \in next => k \in cooked
      BY <1>12, <1>15
    <3>3. k \in cooked' => quiet'[k] >= DEBOUNCE
      BY <1>14, <2>1, <2>4, <3>1, <3>2
    <3> QED BY <2>2, <3>1, <3>3
  <2>5. CASE {k} \notin started /\ Counted[{k}] > 0
    <3>0. /\ k \in cooked /\ k \notin released /\ debounce_counters[{k}] > gap
          /\ Counted[{k}] = debounce_counters[{k}] - gap
          /\ debounce_counters[{k}] \in 0 .. DEBOUNCE /\ Counted[{k}] \in 0 .. DEBOUNCE
      BY <1>15, <2>5
    <3>1. /\ k \in cooked /\ k \notin released /\ debounce_counters[{k}] > gap
          /\ Counted[{k}] = debounce_counters[{k}] - gap /\ k \in next /\ k \in cooked'
          /\ quiet'[k] = quiet[k] /\ debounce_counters[{k}] \in Nat
          /\ Counted[{k}] \in Nat
      BY <1>9, <1>12, <2>1, <3>0
    <3>2. CASE {k} \in cancelled
      <4>1. debounce_counters'[{k}] = 0 /\ {k} \notin pressed
        BY <1>12, <2>5, <3>2
      <4>2. quiet[k] >= DEBOUNCE
        BY <1>13, <3>1, <4>1, ScanFacts
      <4> QED BY <2>2, <3>1, <4>1, <4>2
    <3>3. CASE {k} \notin cancelled
      <4>1. debounce_counters'[{k}] = Counted[{k}] /\ ({k} \in pressed' <=> {k} \in pressed)
        BY <1>12, <2>5, <3>3
      <4>2. ASSUME {k} \in pressed PROVE Since(quiet[k], debounce_counters[{k}])'
        <5>1. Since(quiet[k], debounce_counters[{k}])
          BY <1>13, <3>1, <4>2, ScanFacts, SMTT(40)
        <5> QED BY <2>1, <3>1, <4>1, <5>1, ScanFacts DEF Since
      <4>3. ASSUME {k} \notin pressed
            PROVE  k \notin raw' /\ quiet'[k] >= DEBOUNCE /\ Since(held[k], debounce_counters[{k}])'
        <5>1. k \notin raw /\ quiet[k] >= DEBOUNCE /\ Since(held[k], debounce_counters[{k}])
          BY <1>13, <3>1, <4>3, ScanFacts
        <5>2. k \notin curr
          <6>1. SUFFICES ASSUME k \in curr PROVE FALSE
            OBVIOUS
          <6>2. transfer /\ {k} \notin delta
            BY <1>2, <1>12, <3>1, <5>1, <6>1 DEF Delta
          <6> QED BY <1>12, <2>5, <3>3, <4>3, <6>2
        <5>3. Since(held[k], debounce_counters[{k}])'
          BY <2>1, <3>1, <4>1, <5>1, <5>2, ScanFacts DEF Since
        <5> QED BY <3>1, <5>1, <5>2, <5>3, ScanFacts
      <4> QED BY <2>5, <3>1, <4>1, <4>2, <4>3
    <3> QED BY <3>2, <3>3
  <2> QED BY <1>15, <2>3, <2>4, <2>5
<1>21. Inv'
  BY <1>1, <1>19, <1>18, <1>20, ScanFacts, OwnInv DEF EagerTypes
<1>22. PromptStep
  BY <1>1, <1>16, ScanFacts DEF PromptStep
<1>23. ReleaseStep
  <2> SUFFICES ASSUME NEW k \in cooked \ cooked' PROVE Stable(k) /\ quiet[k] >= DEBOUNCE
    BY DEF ReleaseStep
  <2>1. k \in Keys
    BY ScanFacts DEF TypeOK
  <2>2. k \notin next /\ k \notin curr
    BY <1>9, <1>16, <2>1
  <2>3. k \in released
    BY <1>12, <2>1, <2>2
  <2>4. Counted[{k}] = 0
    BY <1>15, <2>1, <2>3
  <2>5. k \notin raw /\ held[k] >= DEBOUNCE /\ quiet[k] >= DEBOUNCE
    BY <1>14, <2>1, <2>3, <2>4
  <2> QED BY <2>2, <2>5, ScanFacts DEF Stable, Delta
<1>24. ReportStep
  <2>1. cooked' \subseteq Keys /\ cooked \subseteq Keys
    BY <1>19, ScanFacts DEF TypeOK
  <2>2. ASSUME NEW k \in Keys
        PROVE  (k \in released /\ k \in Delta(curr, cooked)) \/ k \in Down(started, curr)
                 <=> k \in Delta(cooked, cooked')
    <3>1. k \in cooked' <=> k \in next \/ k \in Down(started, curr)
      BY <1>9
    <3>2. CASE k \in released
      BY <1>12, <1>15, <3>1, <3>2 DEF Delta
    <3>3. CASE k \notin released
      BY <1>12, <3>1, <3>3 DEF Delta
    <3> QED BY <3>2, <3>3
  <2>3. Delta(curr, cooked) \subseteq Keys /\ Down(started, curr) \subseteq Keys
        /\ Delta(cooked, cooked') \subseteq Keys
    BY <2>1 DEF Delta, Down
  <2>4. (released \cap Delta(curr, cooked)) \cup Down(started, curr) = Delta(cooked, cooked')
    BY <2>2, <2>3
  <2>5. Delta(cooked, cooked') # {} <=> cooked' # cooked
    BY DEF Delta
  <2>6. changed' <=> cooked' # cooked
    BY <1>9, <2>4, <2>5, Zenon DEF CookedChanged
  <2> QED BY <2>6 DEF ReportStep
<1> QED BY <1>1, <1>21, <1>22, <1>23, <1>24 DEF Promises, DeferStep, QuietStep

-----------------------------------------------------------------------------
(* Theorems.                                                               *)

LEMMA NextInv == Inv /\ [Next]_vars => Inv' /\ [Promises]_vars
<1> SUFFICES ASSUME Inv, [Next]_vars PROVE Inv' /\ [Promises]_vars
  OBVIOUS
<1>1. ASSUME NEW curr \in SUBSET Keys, matrix_scan(curr) PROVE Inv' /\ Promises
  <2>1. debounce(curr, curr # raw)
    BY <1>1 DEF matrix_scan
  <2>2. CASE sym_defer_g(curr, curr # raw)
    BY <1>1, <2>2, ScanDeferG
  <2>3. CASE sym_defer_pr(curr, curr # raw)
    BY <1>1, <2>3, ScanDeferPr
  <2>4. CASE sym_defer_pk(curr, curr # raw)
    BY <1>1, <2>4, ScanDeferPk
  <2>5. CASE sym_eager_pk(curr, curr # raw) \/ sym_eager_pr(curr, curr # raw)
    <3>1. Eager(curr, curr # raw) /\ build.type \in EagerTypes
      BY <2>5 DEF sym_eager_pk, sym_eager_pr, EagerTypes
    <3> QED BY <1>1, <3>1, ScanEager
  <2>6. CASE asym_eager_defer_pk(curr, curr # raw)
    BY <1>1, <2>6, ScanAsym
  <2> QED BY <2>1, <2>2, <2>3, <2>4, <2>5, <2>6, Zenon DEF debounce
<1>2. ASSUME Tick PROVE Inv' /\ Promises
  <2>1. Inv'
    BY <1>2, TickInv
  <2>2. cooked' = cooked /\ gap' # 0
    BY <1>2 DEF Tick, Inv, TypeOK
  <2> QED BY <2>1, <2>2 DEF Promises, DeferStep, QuietStep, PromptStep, ReleaseStep, ReportStep, Delta
<1>3. ASSUME UNCHANGED vars PROVE Inv'
  <2>1. Groups' = Groups
    BY <1>3, GroupsFixed DEF vars
  <2> QED BY <1>3, <2>1 DEF vars, Inv, TypeOK, GInv, PrInv, CountInv, PkInv, EagerInv, AsymInv,
              Since, TimerDiff
<1> QED BY <1>1, <1>2, <1>3 DEF Next, Scan

LEMMA InvHolds == Spec => []Inv
BY InitInv, NextInv, PTL DEF Spec

\* No counter and no time leaves its range, whatever the algorithm, the layout
\* and the moments of the scans.
THEOREM DebounceTypes == Spec => []TypeOK
<1>1. Inv => TypeOK
  BY DEF Inv
<1> QED BY <1>1, InvHolds, PTL

\* The deferred algorithms change a key only after all switches that share its
\* counter have rested for DEBOUNCE milliseconds: the counters, which see only
\* the times of scans, never run ahead of the switches.
THEOREM DeferredIsStable == Spec => DeferStable
<1>1. Inv /\ [Next]_vars => [DeferStep]_vars
  BY NextInv DEF Promises
<1>2. [DeferStep]_vars <=>
        [build.type \in {"sym_defer_g", "sym_defer_pr", "sym_defer_pk"} =>
           \A k \in Delta(cooked, cooked') : \A j \in GroupOf(k) : Stable(j)]_vars
  BY DEF DeferStep
<1> QED BY <1>1, <1>2, InvHolds, PTL DEF Spec, DeferStable

\* The eager algorithms leave the keys of a counter alone for DEBOUNCE
\* milliseconds after any of them has changed.
THEOREM EagerIsQuiet == Spec => EagerQuiet
<1>1. Inv /\ [Next]_vars => [QuietStep]_vars
  BY NextInv DEF Promises
<1>2. [QuietStep]_vars <=>
        [build.type \in {"sym_eager_pk", "sym_eager_pr"} =>
           \A k \in Delta(cooked, cooked') : \A j \in GroupOf(k) : quiet[j] >= DEBOUNCE]_vars
  BY DEF QuietStep
<1> QED BY <1>1, <1>2, InvHolds, PTL DEF Spec, EagerQuiet

\* The eager algorithms follow a key that was left alone for long enough at the
\* next scan, and asym_eager_defer_pk every press at once.
THEOREM EagerIsPrompt == Spec => EagerPrompt
<1>1. Inv /\ [Next]_vars => [PromptStep]_vars
  BY NextInv DEF Promises
<1>2. [PromptStep]_vars <=>
        [gap' = 0 =>
           /\ build.type \in {"sym_eager_pk", "sym_eager_pr"} =>
                \A k \in Keys : (\A j \in GroupOf(k) : quiet[j] >= DEBOUNCE)
                                   => (k \in raw' <=> k \in cooked')
           /\ build.type = "asym_eager_defer_pk" => raw' \subseteq cooked']_vars
  BY DEF PromptStep
<1> QED BY <1>1, <1>2, InvHolds, PTL DEF Spec, EagerPrompt

\* asym_eager_defer_pk releases a key only when its switch has rested open, and
\* never too soon after the press.
THEOREM AsymReleaseIsStable == Spec => ReleaseIsStable
<1>1. Inv /\ [Next]_vars => [ReleaseStep]_vars
  BY NextInv DEF Promises
<1>2. [ReleaseStep]_vars <=>
        [build.type = "asym_eager_defer_pk" =>
           \A k \in cooked \ cooked' : Stable(k) /\ quiet[k] >= DEBOUNCE]_vars
  BY DEF ReleaseStep
<1> QED BY <1>1, <1>2, InvHolds, PTL DEF Spec, ReleaseIsStable

\* Every algorithm's debounce() returns true exactly when it changed the matrix.
THEOREM ChangesAreReported == Spec => ReportsChanges
<1>1. Inv /\ [Next]_vars => [ReportStep]_vars
  BY NextInv DEF Promises
<1>2. [ReportStep]_vars <=> [gap' = 0 => (changed' <=> cooked' # cooked)]_vars
  BY DEF ReportStep
<1> QED BY <1>1, <1>2, InvHolds, PTL DEF Spec, ReportsChanges
=============================================================================
