------------------------------ MODULE Debounce ------------------------------
(***************************************************************************)
(* The matrix scan of quantum/matrix.c and the debounce algorithms of      *)
(* quantum/debounce, of which a build links one.  matrix_scan reads the    *)
(* switches, notes whether any has moved since the scan before and hands   *)
(* both to debounce(), which maintains the matrix the rest of the firmware *)
(* sees.  A matrix is the set of the keys that are down.  Scans come at    *)
(* arbitrary distances, and switches may bounce between any two of them.   *)
(***************************************************************************)
EXTENDS Integers, FiniteSets

CONSTANTS
  Keys,        \* the key switches
  Builds,      \* [type : an algorithm, row : the matrix row of every key]
  DEBOUNCE,    \* milliseconds
  CounterMax,  \* UINT8_MAX, the limit of counters and of elapsed times
  TimerMod,    \* values of fast_timer_t
  MaxGap       \* bound: milliseconds between two scans

\* The values of DEBOUNCE_TYPE.
Types == {"sym_defer_g", "sym_defer_pr", "sym_defer_pk",
          "sym_eager_pk", "sym_eager_pr", "asym_eager_defer_pk"}

ASSUME BuildAssumption ==
  \A b \in Builds : b.type \in Types /\ b.row \in [Keys -> Nat]
\* DEBOUNCE = 0 selects none.c.  A scan that takes as long as the timer needs
\* to wrap around is out of scope.
ASSUME DebounceAssumption ==
  /\ CounterMax \in Nat /\ DEBOUNCE \in 1 .. CounterMax
  /\ MaxGap \in Nat \ {0} /\ TimerMod \in Nat
  /\ MaxGap < TimerMod /\ DEBOUNCE < TimerMod - MaxGap

VARIABLES
  build,                                     \* fixed when the firmware is built
  raw,                                       \* raw_matrix
  cooked,                                    \* matrix
  now,                                       \* the millisecond timer
  changed,                                   \* what the last debounce() returned
  debouncing, debouncing_time,               \* sym_defer_g
  last_raw,                                  \* sym_defer_pr
  pressed,                                   \* asym_eager_defer_pk, by counter
  debounce_counters, last_time,              \* all but sym_defer_g
  counters_need_update, matrix_need_update,
  held,     \* ghost: for how long raw has had its value, per key
  quiet,    \* ghost: for how long cooked has had its value, per key
  gap       \* ghost: time since the last scan

counterVars == <<debounce_counters, last_time, counters_need_update, matrix_need_update>>
ownVars == <<debouncing, debouncing_time, last_raw, pressed, counterVars>>
vars == <<build, raw, cooked, now, changed, debouncing, debouncing_time, last_raw,
          pressed, debounce_counters, last_time, counters_need_update,
          matrix_need_update, held, quiet, gap>>

-----------------------------------------------------------------------------
(* Matrices, groups of keys, and time.                                     *)

\* Keys on which two matrices differ.
Delta(m, n) == (m \ n) \cup (n \ m)

\* c with the keys of K taken from the matrix r.
Transfer(c, r, K) == (c \ K) \cup (r \cap K)

\* The keys that are debounced together with k: all, its row, or none else.
GroupOf(k) ==
  CASE build.type = "sym_defer_g" -> Keys
    [] build.type \in {"sym_defer_pr", "sym_eager_pr"} ->
         {j \in Keys : build.row[j] = build.row[k]}
    [] OTHER -> {k}

\* There is one counter per group.
Groups == {GroupOf(k) : k \in Keys}

\* TIMER_DIFF_FAST, clamped before it is stored in eight bits.
TimerDiff(a, b) == (a - b) % TimerMod
Elapsed ==
  IF TimerDiff(now, last_time) > CounterMax THEN CounterMax ELSE TimerDiff(now, last_time)

-----------------------------------------------------------------------------
(* sym_defer_g: one timer for all, restarted by every change.              *)

\* Mutant: the scan has to come at the very millisecond.
Expired_Exact(moved) ==
  ~moved /\ debouncing /\ TimerDiff(now, debouncing_time) = DEBOUNCE

Expired(moved) ==
  ~moved /\ debouncing /\ TimerDiff(now, debouncing_time) >= DEBOUNCE

sym_defer_g(r, moved) ==
  /\ build.type = "sym_defer_g"
  /\ debouncing_time' = IF moved THEN now ELSE debouncing_time
  /\ debouncing' = (moved \/ (debouncing /\ ~Expired(moved)))
  /\ cooked' = IF Expired(moved) THEN r ELSE cooked
  /\ changed' = (Expired(moved) /\ cooked # r)
  /\ UNCHANGED <<last_raw, pressed, counterVars>>

-----------------------------------------------------------------------------
(* sym_defer_pr: a countdown per row, restarted by every change in it.     *)

\* Something in the row has moved since the last scan.
Moved(g, r) == r \cap g # last_raw[g]

sym_defer_pr(r, moved) ==
  LET expired == {g \in Groups : ~Moved(g, r) /\ debounce_counters[g] \in 1 .. Elapsed}
  IN
  /\ build.type = "sym_defer_pr"
  /\ last_time' = now
  /\ last_raw' = [g \in Groups |-> r \cap g]
  /\ debounce_counters' = [g \in Groups |->
       IF Moved(g, r) THEN DEBOUNCE
       ELSE IF debounce_counters[g] > Elapsed THEN debounce_counters[g] - Elapsed ELSE 0]
  /\ cooked' = Transfer(cooked, r, UNION expired)
  /\ changed' = ((UNION expired) \cap Delta(cooked, r) # {})
  /\ UNCHANGED <<debouncing, debouncing_time, pressed,
                 counters_need_update, matrix_need_update>>

-----------------------------------------------------------------------------
(* The counters of the other algorithms.                                   *)

DEBOUNCE_ELAPSED == 0

Running == {g \in Groups : debounce_counters[g] # DEBOUNCE_ELAPSED}

\* Mutant: the counter goes below zero.
Count_NoFloor(c, t) == c - t

\* A running counter t milliseconds later.
Count(c, t) == IF c <= t THEN DEBOUNCE_ELAPSED ELSE c - t

\* The counters after the update at the start of the call, ...
Counted ==
  [g \in Groups |-> IF counters_need_update /\ g \in Running
                    THEN Count(debounce_counters[g], Elapsed)
                    ELSE debounce_counters[g]]

\* ... and those that it ended.
Ended == {g \in Running : Counted[g] = DEBOUNCE_ELAPSED}

\* counters_need_update after a call that has started counters or not.
CountersNeedUpdate(started) ==
  \/ started
  \/ IF counters_need_update /\ Elapsed > 0
     THEN \E g \in Groups : Counted[g] # DEBOUNCE_ELAPSED
     ELSE counters_need_update

\* Mutant: a group that may move again is not looked at.
MatrixNeedUpdate_Never(blocking) == matrix_need_update

\* matrix_need_update after the update of the counters: one has ended that kept
\* its keys from moving.
MatrixNeedUpdate(blocking) ==
  IF counters_need_update /\ Elapsed > 0 THEN Ended \cap blocking # {}
  ELSE matrix_need_update

\* Mutant: counters are started from the time of the last update.
LastTime_Stale(second) == IF counters_need_update THEN now ELSE last_time

\* last_time is set by the update and by the second half of the call.
LastTime(second) == IF counters_need_update \/ second THEN now ELSE last_time

-----------------------------------------------------------------------------
(* sym_defer_pk: a change is taken over when it has lasted.                *)

\* Mutant: a key that has bounced back keeps its counter.
StartCounter_NoReset(c, differs) ==
  IF differs /\ c = DEBOUNCE_ELAPSED THEN DEBOUNCE ELSE c

\* start_debounce_counters, for one key.
StartCounter(c, differs) ==
  IF ~differs THEN DEBOUNCE_ELAPSED
  ELSE IF c = DEBOUNCE_ELAPSED THEN DEBOUNCE ELSE c

\* update_debounce_counters_and_transfer_if_expired, then, if the switches have
\* moved, start_debounce_counters.
sym_defer_pk(r, moved) ==
  LET next  == Transfer(cooked, r, UNION Ended)
      delta == {g \in Groups : g \cap Delta(r, next) # {}}
  IN
  /\ build.type = "sym_defer_pk"
  /\ cooked' = next
  /\ changed' = (next # cooked)
  /\ debounce_counters' =
       IF moved THEN [g \in Groups |-> StartCounter(Counted[g], g \in delta)] ELSE Counted
  /\ counters_need_update' =
       CountersNeedUpdate(moved /\ \E g \in delta : Counted[g] = DEBOUNCE_ELAPSED)
  /\ last_time' = LastTime(moved)
  /\ UNCHANGED <<debouncing, debouncing_time, last_raw, pressed, matrix_need_update>>

-----------------------------------------------------------------------------
(* sym_eager_pk and sym_eager_pr: a change is taken over at once, and then *)
(* the key or the row is left alone.                                       *)

\* update_debounce_counters, then transfer_matrix_values if the switches have
\* moved or a group may move again.
Eager(r, moved) ==
  LET transfer == moved \/ MatrixNeedUpdate(Groups)
      flipped  == {g \in Groups : /\ transfer /\ g \cap Delta(r, cooked) # {}
                                  /\ Counted[g] = DEBOUNCE_ELAPSED}
  IN
  /\ cooked' = Transfer(cooked, r, UNION flipped)
  /\ changed' = (flipped # {})
  /\ debounce_counters' = [g \in Groups |-> IF g \in flipped THEN DEBOUNCE ELSE Counted[g]]
  /\ counters_need_update' = CountersNeedUpdate(flipped # {})
  /\ matrix_need_update' = (MatrixNeedUpdate(Groups) /\ ~transfer)
  /\ last_time' = LastTime(transfer)
  /\ UNCHANGED <<debouncing, debouncing_time, last_raw, pressed>>

sym_eager_pk(r, moved) == build.type = "sym_eager_pk" /\ Eager(r, moved)
sym_eager_pr(r, moved) == build.type = "sym_eager_pr" /\ Eager(r, moved)

-----------------------------------------------------------------------------
(* asym_eager_defer_pk: a press is taken over at once and then the key is  *)
(* left alone, a release is taken over when it has lasted.                 *)

\* Mutant: a switch that is closed again does not stop a pending release.
Cancelled_None(delta) == {}

\* transfer_matrix_values: pending releases that did not last.
Cancelled(delta) ==
  {g \in Groups \ delta : Counted[g] # DEBOUNCE_ELAPSED /\ g \notin pressed}

\* Mutant: presses wait like releases.
Down_Deferred(started, r) == {}

\* A press is taken over at once.
Down(started, r) == (UNION started) \cap r

\* Mutant: a release is not reported.
CookedChanged_Press(released, down, r) == down # {}

\* cooked_changed, accumulated over both halves of the call.
CookedChanged(released, down, r) == (released \cap Delta(r, cooked)) \cup down # {}

\* update_debounce_counters_and_transfer_if_expired, then transfer_matrix_values
\* if the switches have moved or the time after a press has ended.
asym_eager_defer_pk(r, moved) ==
  LET released  == UNION (Ended \ pressed)
      next      == Transfer(cooked, r, released)
      delta     == {g \in Groups : g \cap Delta(r, next) # {}}
      transfer  == moved \/ MatrixNeedUpdate(pressed)
      started   == {g \in delta : transfer /\ Counted[g] = DEBOUNCE_ELAPSED}
      cancelled == IF transfer THEN Cancelled(delta) ELSE {}
  IN
  /\ build.type = "asym_eager_defer_pk"
  /\ cooked' = next \cup Down(started, r)
  /\ changed' = CookedChanged(released, Down(started, r), r)
  /\ pressed' = (pressed \ started) \cup {g \in started : g \subseteq r}
  /\ debounce_counters' =
       [g \in Groups |-> IF g \in started THEN DEBOUNCE
                         ELSE IF g \in cancelled THEN DEBOUNCE_ELAPSED ELSE Counted[g]]
  /\ counters_need_update' = CountersNeedUpdate(started # {})
  /\ matrix_need_update' = (MatrixNeedUpdate(pressed) /\ ~transfer)
  /\ last_time' = LastTime(transfer)
  /\ UNCHANGED <<debouncing, debouncing_time, last_raw>>

-----------------------------------------------------------------------------
(* Scans.                                                                  *)

debounce(r, moved) ==
  \/ sym_defer_g(r, moved)
  \/ sym_defer_pr(r, moved)
  \/ sym_defer_pk(r, moved)
  \/ sym_eager_pk(r, moved)
  \/ sym_eager_pr(r, moved)
  \/ asym_eager_defer_pk(r, moved)

\* matrix_scan finds the switches in state curr.
matrix_scan(curr) ==
  /\ raw' = curr
  /\ debounce(curr, curr # raw)
  /\ held' = [k \in Keys |-> IF k \in Delta(raw, curr) THEN 0 ELSE held[k]]
  /\ quiet' = [k \in Keys |-> IF k \in Delta(cooked, cooked') THEN 0 ELSE quiet[k]]
  /\ gap' = 0
  /\ UNCHANGED <<build, now>>

\* A ghost counts up to what the properties ask for.
Inc(n) == IF n < DEBOUNCE THEN n + 1 ELSE n

\* A millisecond passes between two scans.
Tick ==
  /\ gap < MaxGap
  /\ now' = (now + 1) % TimerMod /\ gap' = gap + 1
  /\ held' = [k \in Keys |-> Inc(held[k])]
  /\ quiet' = [k \in Keys |-> Inc(quiet[k])]
  /\ UNCHANGED <<build, raw, cooked, changed, ownVars>>

\* matrix_init and debounce_init.  asym_eager_defer_pk leaves pressed
\* uninitialised, and does not read it before it is set.
Init ==
  /\ build \in Builds
  /\ raw = {} /\ cooked = {} /\ changed = FALSE
  /\ now \in 0 .. TimerMod - 1
  /\ debouncing = FALSE /\ debouncing_time = 0
  /\ last_raw = [g \in Groups |-> {}]
  /\ pressed \in IF build.type = "asym_eager_defer_pk" THEN SUBSET Groups ELSE {{}}
  /\ debounce_counters = [g \in Groups |-> DEBOUNCE_ELAPSED]
  /\ last_time = IF build.type = "sym_defer_pr" THEN now ELSE 0
  /\ counters_need_update = FALSE /\ matrix_need_update = FALSE
  /\ held = [k \in Keys |-> DEBOUNCE] /\ quiet = [k \in Keys |-> DEBOUNCE] /\ gap = 0

Scan == \E curr \in SUBSET Keys : matrix_scan(curr)

Next == Scan \/ Tick

Spec == Init /\ [][Next]_vars

\* The main loop scans for ever, and time passes.
FairSpec == Spec /\ WF_vars(Scan) /\ WF_vars(Tick)

-----------------------------------------------------------------------------
(* Properties.                                                             *)

\* Type invariant: no counter leaves the range that debounce_counter_t is used
\* for, and no time that of the timer.
TypeOK ==
  /\ build \in Builds
  /\ raw \subseteq Keys /\ cooked \subseteq Keys /\ changed \in BOOLEAN
  /\ now \in 0 .. TimerMod - 1 /\ last_time \in 0 .. TimerMod - 1
  /\ debouncing \in BOOLEAN /\ debouncing_time \in 0 .. TimerMod - 1
  /\ last_raw \in [Groups -> SUBSET Keys] /\ pressed \subseteq Groups
  /\ debounce_counters \in [Groups -> 0 .. DEBOUNCE]
  /\ counters_need_update \in BOOLEAN /\ matrix_need_update \in BOOLEAN
  /\ held \in [Keys -> 0 .. DEBOUNCE] /\ quiet \in [Keys -> 0 .. DEBOUNCE]
  /\ gap \in 0 .. MaxGap

\* The switch of k has been as it is, at every scan, for DEBOUNCE milliseconds.
Stable(k) == held[k] >= DEBOUNCE /\ k \notin Delta(raw, raw')

\* The deferred algorithms change a key only when its switch, and those of all
\* keys that share its counter, have not moved for DEBOUNCE milliseconds.
DeferStable ==
  [][build.type \in {"sym_defer_g", "sym_defer_pr", "sym_defer_pk"} =>
       \A k \in Delta(cooked, cooked') : \A j \in GroupOf(k) : Stable(j)]_vars

\* The eager algorithms leave a key, and all that share its counter, alone for
\* DEBOUNCE milliseconds after a change.
EagerQuiet ==
  [][build.type \in {"sym_eager_pk", "sym_eager_pr"} =>
       \A k \in Delta(cooked, cooked') : \A j \in GroupOf(k) : quiet[j] >= DEBOUNCE]_vars

\* No algorithm waits longer than it must.  The eager ones make a key that has
\* been left alone for DEBOUNCE milliseconds, with all that share its counter,
\* follow its switch at the very next scan, also when the switch moved earlier
\* and not in this scan; asym_eager_defer_pk never delays a press, not even in
\* the scan that ends a release.
EagerPrompt ==
  [][gap' = 0 =>
       /\ build.type \in {"sym_eager_pk", "sym_eager_pr"} =>
            \A k \in Keys : (\A j \in GroupOf(k) : quiet[j] >= DEBOUNCE)
                               => (k \in raw' <=> k \in cooked')
       /\ build.type = "asym_eager_defer_pk" => raw' \subseteq cooked']_vars

\* asym_eager_defer_pk releases a key only when its switch has been open for
\* DEBOUNCE milliseconds, and not sooner than that after the press.
ReleaseIsStable ==
  [][build.type = "asym_eager_defer_pk" =>
       \A k \in cooked \ cooked' : Stable(k) /\ quiet[k] >= DEBOUNCE]_vars

\* debounce() returns true exactly when the debounced matrix has changed, as
\* debounce.h promises, also when one call changes it in both of its halves.
ReportsChanges == [][gap' = 0 => (changed' <=> cooked' # cooked)]_vars

\* No press and no release is lost for good: when the switches stop moving the
\* matrix ends up as they are.
Settles == \A m \in SUBSET Keys : <>[](raw = m) => <>[](cooked = m)
=============================================================================
