------------------------- MODULE DeferredExecProofs -------------------------
(***************************************************************************)
(* Safety of the deferred executor table for every table size, every token *)
(* and timer width and every set of delays and callbacks.                  *)
(***************************************************************************)
EXTENDS DeferredExec, OrderLemmas, FiniteSetTheorems, TLAPS

\* While a callback runs, the task stands at a slot and remembers the token of
\* a queued executor: without this, returning from the callback could re-arm
\* an empty slot.
InCallback ==
  task.pc = "callback" => task.i \in Slots /\ task.token # INVALID_DEFERRED_TOKEN

\* The inductive invariant.
Inv == TypeOK /\ InCallback /\ TokensUnique /\ NoNullCallback

\* A free slot is found whenever there is one.
LEMMA FirstFreeIsFree ==
  ASSUME FreeSlots # {}
  PROVE  FirstFree \in Slots /\ ~Live(FirstFree)
<1>1. FreeSlots \subseteq Nat
  BY TableAssumption DEF FreeSlots, Slots
<1>2. \E m \in FreeSlots : \A j \in FreeSlots : m <= j
  BY <1>1, SmallestElement
<1>3. FirstFree \in FreeSlots
  BY <1>2 DEF FirstFree
<1> QED BY <1>3 DEF FreeSlots

\* allocate_token either comes full circle or stops at a usable token.
LEMMA TokenStepsRange ==
  \/ TokenSteps = TokenMod + 1
  \/ /\ TokenSteps \in 1 .. TokenMod
     /\ token_can_be_used((current_token + TokenSteps) % TokenMod)
<1> DEFINE usable == {k \in 1 .. TokenMod :
                        token_can_be_used((current_token + k) % TokenMod)}
<1>1. CASE usable = {}
  BY <1>1 DEF TokenSteps
<1>2. CASE usable # {}
  <2>1. TokenSteps = CHOOSE k \in usable : \A j \in usable : k <= j
    BY <1>2 DEF TokenSteps
  <2>2. usable \subseteq Nat
    BY TokenAssumption
  <2>3. TokenSteps \in usable
    <3> HIDE DEF usable
    <3> QED BY <1>2, <2>1, <2>2, SmallestElement
  <2> QED BY <2>3
<1> QED BY <1>1, <1>2

\* Wherever the search ends, current_token keeps its width; a search that
\* succeeds returns a token that no slot holds.
LEMMA NextTokenFresh ==
  ASSUME TypeOK
  PROVE  /\ NextToken \in Tokens
         /\ ~(TokenSteps > TokenMod) => token_can_be_used(NextToken)
<1>1. TokenSteps \in Nat
  BY TokenStepsRange, TokenAssumption
<1>2. NextToken \in Tokens
  BY <1>1, TokenAssumption DEF NextToken, TypeOK, Tokens
<1>3. ASSUME ~(TokenSteps > TokenMod) PROVE token_can_be_used(NextToken)
  <2>1. TokenSteps # TokenMod + 1
    BY <1>3, TokenAssumption
  <2> QED BY <2>1, TokenStepsRange DEF NextToken
<1> QED BY <1>2, <1>3

\* Writing one slot keeps the invariant of the table when the new entry is
\* either wiped or carries a callback and a token no other slot holds.
LEMMA WriteSlot ==
  ASSUME TypeOK, TokensUnique, NoNullCallback,
         NEW i \in Slots, NEW e \in Entry,
         \/ e = FreeEntry
         \/ /\ e.token # INVALID_DEFERRED_TOKEN /\ e.callback \in Callbacks
            /\ \A j \in Slots : j # i => table[j].token # e.token,
         table' = [table EXCEPT ![i] = e]
  PROVE  table' \in [Slots -> Entry] /\ TokensUnique' /\ NoNullCallback'
<1>1. table' \in [Slots -> Entry]
  BY DEF TypeOK
<1>2. table'[i] = e /\ \A j \in Slots : j # i => table'[j] = table[j]
  BY DEF TypeOK
<1>3. NoNullCallback'
  BY <1>2 DEF NoNullCallback, Live, FreeEntry, INVALID_DEFERRED_TOKEN
<1>4. TokensUnique'
  BY <1>2 DEF TokensUnique, Live, FreeEntry, INVALID_DEFERRED_TOKEN
<1> QED BY <1>1, <1>3, <1>4

\* Init establishes the invariant.
LEMMA InitInv == Init => Inv
<1> SUFFICES ASSUME Init PROVE Inv
  OBVIOUS
<1> USE DEF Init, FreeEntry, INVALID_DEFERRED_TOKEN
<1>1. TypeOK
  <2>1. FreeEntry \in Entry /\ 0 \in Tokens
    BY TokenAssumption, TimeAssumption DEF Entry, Tokens
  <2>2. /\ task \in [pc : {"idle", "scan", "callback"}, i : 0 .. TableCount + 1,
                      now : 0 .. TimeMod - 1, token : Tokens]
        /\ now \in 0 .. TimeMod - 1 /\ last_execution_time \in 0 .. TimeMod - 1
    BY <2>1, TableAssumption, TimeAssumption
  <2>3. watched \in Nat
    BY TokenAssumption
  <2>4. table \in [Slots -> Entry] /\ wait \in [Slots -> Int]
    BY <2>1
  <2> QED BY <2>1, <2>2, <2>3, <2>4 DEF TypeOK
<1>2. InCallback /\ TokensUnique /\ NoNullCallback
  BY DEF InCallback, TokensUnique, NoNullCallback, Live
<1> QED BY <1>1, <1>2 DEF Inv

\* Every step keeps it.
LEMMA NextInv == Inv /\ [Next]_vars => Inv'
<1> SUFFICES ASSUME Inv, [Next]_vars PROVE Inv'
  OBVIOUS
<1> USE DEF Inv, InCallback
<1> DEFINE Task == [pc : {"idle", "scan", "callback"}, i : 0 .. TableCount + 1,
                    now : 0 .. TimeMod - 1, token : Tokens]
<1>0. /\ \A t \in 0 .. TimeMod - 1, d \in Nat : (t + d) % TimeMod \in 0 .. TimeMod - 1
      /\ 0 \in 0 .. TimeMod - 1 /\ 0 \in Tokens
      /\ FreeEntry \in Entry
  BY TimeAssumption, TokenAssumption
     DEF FreeEntry, Entry, Tokens, INVALID_DEFERRED_TOKEN
<1>1. ASSUME NEW d \in Delays, NEW cb \in Callbacks, DeferExec(d, cb)
      PROVE  Inv'
  <2> DEFINE e == [token |-> NextToken, trigger_time |-> (now + d) % TimeMod,
                   callback |-> cb]
  <2>1. NextToken \in Tokens
    BY NextTokenFresh
  <2>2. CASE TokenSteps > TokenMod
    BY <1>1, <2>1, <2>2 DEF DeferExec, TypeOK, TokensUnique, NoNullCallback, Live
  <2>3. CASE ~(TokenSteps > TokenMod)
    <3>1. FirstFree \in Slots
      BY <1>1, FirstFreeIsFree DEF DeferExec
    <3>2. token_can_be_used(NextToken)
      BY <2>3, NextTokenFresh
    <3>3. e \in Entry
      BY <1>0, <2>1, DelayAssumption DEF Entry, TypeOK
    <3>4. table' = [table EXCEPT ![FirstFree] = e]
      BY <1>1, <2>3 DEF DeferExec
    <3>5. table' \in [Slots -> Entry] /\ TokensUnique' /\ NoNullCallback'
      <4>1. /\ e.token # INVALID_DEFERRED_TOKEN /\ e.callback \in Callbacks
            /\ \A j \in Slots : j # FirstFree => table[j].token # e.token
        BY <3>2 DEF token_can_be_used
      <4> HIDE DEF e
      <4> QED BY <3>1, <3>3, <3>4, <4>1, WriteSlot
    <3>6. wait' \in [Slots -> Int] /\ watched' \in Nat
      BY <1>1, <2>3, DelayAssumption, TokenAssumption DEF DeferExec, TypeOK
    <3> QED BY <1>1, <2>1, <3>5, <3>6 DEF DeferExec, TypeOK
  <2> QED BY <2>2, <2>3
<1>2. ASSUME NEW t \in Tokens, NEW d \in Delays, ExtendDeferredExec(t, d)
      PROVE  Inv'
  <2>1. PICK i \in Slots :
           /\ table[i].token = t
           /\ table' = [table EXCEPT ![i].trigger_time = (now + d) % TimeMod]
           /\ wait' = [wait EXCEPT ![i] = d]
    BY <1>2 DEF ExtendDeferredExec
  <2> DEFINE e == [table[i] EXCEPT !.trigger_time = (now + d) % TimeMod]
  <2>2. e \in Entry /\ e.token = table[i].token /\ e.callback = table[i].callback
    BY <1>0, DelayAssumption DEF TypeOK, Entry
  <2>3. table' = [table EXCEPT ![i] = e]
    BY <2>1 DEF TypeOK
  <2>4. table' \in [Slots -> Entry] /\ TokensUnique' /\ NoNullCallback'
    <3>1. /\ e.token # INVALID_DEFERRED_TOKEN /\ e.callback \in Callbacks
          /\ \A j \in Slots : j # i => table[j].token # e.token
      BY <1>2, <2>1, <2>2 DEF ExtendDeferredExec, TokensUnique, NoNullCallback, Live
    <3> HIDE DEF e
    <3> QED BY <2>2, <2>3, <3>1, WriteSlot
  <2>5. wait' \in [Slots -> Int]
    BY <2>1, DelayAssumption DEF TypeOK
  <2> QED BY <1>2, <2>4, <2>5 DEF ExtendDeferredExec, TypeOK
<1>3. ASSUME NEW t \in Tokens, CancelDeferredExec(t)
      PROVE  Inv'
  <2>1. PICK i \in Slots :
           /\ table' = [table EXCEPT ![i] = FreeEntry]
           /\ wait' = [wait EXCEPT ![i] = 0]
    BY <1>3 DEF CancelDeferredExec
  <2>2. table' \in [Slots -> Entry] /\ TokensUnique' /\ NoNullCallback'
    BY <1>0, <2>1, WriteSlot
  <2>3. wait' \in [Slots -> Int]
    BY <2>1 DEF TypeOK
  <2> QED BY <1>3, <2>2, <2>3 DEF CancelDeferredExec, TypeOK
<1>4. CASE TaskBegin
  BY <1>0, <1>4, TableAssumption
     DEF TaskBegin, TypeOK, TokensUnique, NoNullCallback, Live
<1>5. CASE TaskInvoke
  <2>1. /\ table[task.i] \in Entry /\ Live(task.i)
        /\ task \in Task
    BY <1>5 DEF TaskInvoke, Due, TypeOK
  <2>2. task' \in Task /\ task'.i = task.i /\ task'.token = table[task.i].token
    BY <1>5, <2>1 DEF TaskInvoke, Entry
  <2> QED BY <1>5, <2>1, <2>2
          DEF TaskInvoke, TypeOK, TokensUnique, NoNullCallback, Live
<1>6. CASE TaskSkip
  <2>1. task' \in Task /\ task'.pc = "scan"
    BY <1>6, TableAssumption, SMTT(40) DEF TaskSkip, TypeOK, Slots
  <2> QED BY <1>6, <2>1
          DEF TaskSkip, TypeOK, ghosts, TokensUnique, NoNullCallback, Live
<1>7. CASE TaskEnd
  <2>1. task' \in Task /\ task'.pc = "idle"
    <3>1. task \in Task /\ task' = [task EXCEPT !.pc = "idle", !.i = 0, !.now = 0]
      BY <1>7 DEF TaskEnd, TypeOK
    <3>2. 0 \in 0 .. TableCount + 1
      BY TableAssumption
    <3> QED BY <1>0, <3>1, <3>2
  <2> QED BY <1>7, <2>1
          DEF TaskEnd, TypeOK, ghosts, TokensUnique, NoNullCallback, Live
<1>8. ASSUME NEW d \in Delays \cup {0}, CallbackReturn(d)
      PROVE  Inv'
  <2> DEFINE i == task.i
  <2>0. i \in Slots /\ task.token # INVALID_DEFERRED_TOKEN /\ d \in Nat
    BY <1>8, DelayAssumption DEF CallbackReturn
  <2>1. task' \in Task /\ task'.pc = "scan"
    <3>1. i + 1 \in 0 .. TableCount + 1
      BY <2>0, TableAssumption DEF Slots
    <3>2. task \in Task /\ task' = [task EXCEPT !.pc = "scan", !.i = i + 1, !.token = 0]
      BY <1>8 DEF CallbackReturn, TypeOK
    <3> QED BY <1>0, <3>1, <3>2
  <2>2. table' \in [Slots -> Entry] /\ TokensUnique' /\ NoNullCallback'
    <3>1. CASE table[i].token # task.token
      BY <1>8, <3>1 DEF CallbackReturn, TypeOK, TokensUnique, NoNullCallback, Live
    <3>2. CASE table[i].token = task.token /\ d > 0
      <4> DEFINE e == [table[i] EXCEPT !.trigger_time = (@ + d) % TimeMod]
      <4>1. e \in Entry /\ e.token = table[i].token /\ e.callback = table[i].callback
        BY <1>0, <2>0 DEF TypeOK, Entry
      <4>2. table' = [table EXCEPT ![i] = e]
        BY <1>8, <2>0, <3>2 DEF CallbackReturn, TypeOK
      <4>3. /\ e.token # INVALID_DEFERRED_TOKEN /\ e.callback \in Callbacks
            /\ \A j \in Slots : j # i => table[j].token # e.token
        BY <2>0, <3>2, <4>1 DEF TokensUnique, NoNullCallback, Live
      <4> HIDE DEF e
      <4> QED BY <2>0, <4>1, <4>2, <4>3, WriteSlot
    <3>3. CASE table[i].token = task.token /\ ~(d > 0)
      <4>1. table' = [table EXCEPT ![i] = FreeEntry]
        BY <1>8, <3>3 DEF CallbackReturn
      <4> QED BY <1>0, <2>0, <4>1, WriteSlot
    <3> QED BY <3>1, <3>2, <3>3
  <2>3. wait' \in [Slots -> Int]
    BY <1>8, <2>0 DEF CallbackReturn, TypeOK
  <2> QED BY <1>8, <2>1, <2>2, <2>3 DEF CallbackReturn, TypeOK
<1>9. CASE Tick
  BY <1>0, <1>9 DEF Tick, TypeOK, TokensUnique, NoNullCallback, Live
<1>10. CASE UNCHANGED vars
  BY <1>10 DEF vars, TypeOK, TokensUnique, NoNullCallback, Live
<1> QED BY <1>1, <1>2, <1>3, <1>4, <1>5, <1>6, <1>7, <1>8, <1>9, <1>10 DEF Next

LEMMA TableInv == Spec => []Inv
  BY InitInv, NextInv, PTL DEF Spec

\* Tokens and times keep their widths, and the pass over the table stays within
\* it, for every instance and however often the counters wrap.
THEOREM TableTypes == Spec => []TypeOK
<1>1. Inv => TypeOK
  BY DEF Inv
<1> QED BY TableInv, <1>1, PTL

\* extend_deferred_exec and cancel_deferred_exec find the executor a token was
\* given for: no two queued executors share one.
THEOREM TokensStayUnique == Spec => []TokensUnique
<1>1. Inv => TokensUnique
  BY DEF Inv
<1> QED BY TableInv, <1>1, PTL

\* deferred_exec_advanced_task never calls a null callback, and a slot without
\* a token is wiped completely.
THEOREM CallbacksNeverNull == Spec => []NoNullCallback
<1>1. Inv => NoNullCallback
  BY DEF Inv
<1> QED BY TableInv, <1>1, PTL

-----------------------------------------------------------------------------
(* Time.  The ghost wait holds the true time to go of every executor; the  *)
(* invariant ties the 32-bit times to it.  What the task reads as a signed *)
(* difference is right because a delay is waited for from its request, or  *)
(* from the trigger before it, and a pass looks at the time of its start.  *)

\* At most one delay away, at most two (a callback that extends itself and
\* returns a delay), and what a pass may find, counted from its start.
OneDelay(w)  == \E d \in Delays \cup {0} : w <= d
TwoDelays(w) == \E d, e \in Delays \cup {0} : w <= d + e
InPass(w)    == TwoDelays(w) \/ \E d \in Delays \cup {0} : w <= d + MaxGap

\* What a queued executor's slot says of its time.
SlotTime(i) ==
  Live(i) =>
    /\ table[i].trigger_time = (now + wait[i]) % TimeMod
    /\ -MaxLate <= wait[i] /\ TwoDelays(wait[i])
    /\ task.pc # "idle" /\ task.i <= i => InPass(wait[i] + passed)

\* How far the time of the pass, and the executor being run, are behind.
PassTime ==
  /\ passed <= MaxGap
  /\ task.pc # "idle" => now = (task.now + passed) % TimeMod
  /\ task.pc = "callback" /\ Live(task.i) => OneDelay(wait[task.i])

TimeInv == PassTime /\ \A i \in Slots : SlotTime(i)

\* The bounds keep what a pass compares within half of the timer's range.
LEMMA DelayRange ==
  /\ \A d \in Delays : OneDelay(d) /\ TwoDelays(d)
  /\ \A w \in Int : w <= 0 => OneDelay(w)
  /\ \A w \in Int, d \in Delays \cup {0} : OneDelay(w) => TwoDelays(w + d)
  /\ \A v, w \in Int : v <= w /\ TwoDelays(w) => TwoDelays(v)
  /\ \A v, w \in Int : v <= w /\ OneDelay(w) => OneDelay(v)
  /\ \A w \in Int : TwoDelays(w) => InPass(w)
  /\ \A d \in Delays, p \in 0 .. MaxGap : InPass(d + p)
  /\ \A w \in Int : -MaxLate <= w /\ InPass(w) => -TimeMod <= 2 * w /\ 2 * w < TimeMod
  /\ 2 * MaxGap < TimeMod
<1> DEFINE D == Delays \cup {0}
<1>0. D \subseteq Nat /\ 0 \in D /\ Delays \subseteq D /\ MaxGap \in Nat /\ MaxLate \in Nat
  BY DelayAssumption, BoundAssumption
<1>1. \A d \in Delays : OneDelay(d) /\ TwoDelays(d)
  <2> SUFFICES ASSUME NEW d \in Delays PROVE OneDelay(d) /\ TwoDelays(d)
    OBVIOUS
  <2>1. d \in D /\ 0 \in D /\ d <= d /\ d <= d + 0
    BY <1>0
  <2> QED BY <2>1 DEF OneDelay, TwoDelays
<1>2. \A w \in Int : w <= 0 => OneDelay(w)
  BY DEF OneDelay
<1>3. ASSUME NEW w \in Int, NEW d \in D, OneDelay(w) PROVE TwoDelays(w + d)
  <2>1. PICK e \in D : w <= e
    BY <1>3 DEF OneDelay
  <2>2. w + d <= e + d
    BY <1>0, <2>1
  <2> QED BY <2>2 DEF TwoDelays
<1>4. ASSUME NEW v \in Int, NEW w \in Int, v <= w, TwoDelays(w) PROVE TwoDelays(v)
  <2>1. PICK d \in D, e \in D : w <= d + e
    BY <1>4 DEF TwoDelays
  <2>2. v <= d + e
    BY <1>0, <1>4, <2>1
  <2> QED BY <2>2 DEF TwoDelays
<1>5. ASSUME NEW v \in Int, NEW w \in Int, v <= w, OneDelay(w) PROVE OneDelay(v)
  <2>1. PICK d \in D : w <= d
    BY <1>5 DEF OneDelay
  <2>2. v <= d
    BY <1>0, <1>5, <2>1
  <2> QED BY <2>2 DEF OneDelay
<1>6. ASSUME NEW d \in Delays, NEW p \in 0 .. MaxGap PROVE InPass(d + p)
  <2>1. d \in D /\ d + p <= d + MaxGap
    BY <1>0
  <2> QED BY <2>1 DEF InPass
<1>7. 2 * MaxGap < TimeMod
  BY <1>0, TimeAssumption, RangeAssumption
<1>8. ASSUME NEW w \in Int, -MaxLate <= w, InPass(w)
      PROVE  -TimeMod <= 2 * w /\ 2 * w < TimeMod
  <2>1. -TimeMod <= 2 * w
    BY <1>0, <1>8, TimeAssumption, RangeAssumption
  <2>2. CASE TwoDelays(w)
    <3>1. PICK d \in D, e \in D : w <= d + e
      BY <2>2 DEF TwoDelays
    <3>2. CASE d \in Delays /\ e \in Delays
      BY <1>0, <2>1, <3>1, <3>2, TimeAssumption, RangeAssumption
    <3>3. CASE d \in Delays /\ e = 0
      <4>1. 2 * (d + d) < TimeMod
        BY <3>3, RangeAssumption
      <4> QED BY <1>0, <2>1, <3>1, <3>3, <4>1, TimeAssumption
    <3>4. CASE d = 0 /\ e \in Delays
      <4>1. 2 * (e + e) < TimeMod
        BY <3>4, RangeAssumption
      <4> QED BY <1>0, <2>1, <3>1, <3>4, <4>1, TimeAssumption
    <3>5. CASE d = 0 /\ e = 0
      BY <2>1, <3>1, <3>5, TimeAssumption
    <3> QED BY <2>1, <3>2, <3>3, <3>4, <3>5
  <2>3. CASE \E d \in D : w <= d + MaxGap
    <3>1. PICK d \in D : w <= d + MaxGap
      BY <2>3
    <3>2. CASE d \in Delays
      <4>1. 2 * (d + MaxGap) < TimeMod
        BY <3>2, RangeAssumption
      <4> QED BY <1>0, <2>1, <3>1, <4>1, TimeAssumption
    <3>3. CASE d = 0
      BY <1>0, <1>7, <2>1, <3>1, <3>3, TimeAssumption
    <3> QED BY <3>2, <3>3
  <2> QED BY <1>8, <2>2, <2>3 DEF InPass
<1>9. \A w \in Int : TwoDelays(w) => InPass(w)
  BY DEF InPass
<1> QED BY <1>1, <1>2, <1>3, <1>4, <1>5, <1>6, <1>7, <1>8, <1>9

\* (int32_t)TIMER_DIFF_32 is the true difference when that is within half of
\* the timer's range, however the two times lie to its wrap.
LEMMA TimerDiffIsTrue ==
  ASSUME NEW t \in 0 .. TimeMod - 1, NEW w \in Int, -TimeMod <= 2 * w, 2 * w < TimeMod
  PROVE  TimerDiff((t + w) % TimeMod, t) = w
<1>0. TimeMod \in Nat \ {0}
  BY TimeAssumption
<1>1. (((t + w) % TimeMod) - t) % TimeMod = w % TimeMod
  <2>1. t + w \in Int /\ -t \in Int /\ (t + w) + (-t) = w
    OBVIOUS
  <2>2. (((t + w) % TimeMod) + (-t)) % TimeMod = ((t + w) + (-t)) % TimeMod
    BY <1>0, <2>1, ModAdd
  <2>3. ((t + w) % TimeMod) + (-t) = ((t + w) % TimeMod) - t
    BY <1>0, <2>1, ModSplit
  <2> QED BY <2>1, <2>2, <2>3
<1>2. TimerDiff((t + w) % TimeMod, t)
        = IF 2 * (w % TimeMod) >= TimeMod THEN (w % TimeMod) - TimeMod ELSE w % TimeMod
  BY <1>1 DEF TimerDiff
<1>3. CASE 0 <= w
  <2>1. w % TimeMod = w
    BY <1>0, <1>3, ModNear
  <2> QED BY <1>0, <1>2, <2>1
<1>4. CASE w < 0
  <2>1. w % TimeMod = w + TimeMod
    BY <1>0, <1>4, ModNear
  <2> QED BY <1>0, <1>2, <1>4, <2>1
<1> QED BY <1>3, <1>4

\* What the task computes of a queued executor it has not passed yet.
LEMMA PassReadsTime ==
  ASSUME TypeOK, TimeInv, task.pc # "idle", NEW i \in Slots, Live(i), task.i <= i
  PROVE  TimerDiff(table[i].trigger_time, task.now) = wait[i] + passed
<1> DEFINE w == wait[i] + passed
<1>0. /\ task.now \in 0 .. TimeMod - 1 /\ wait[i] \in Int /\ passed \in Nat /\ w \in Int
      /\ TimeMod \in Nat \ {0}
  BY TimeAssumption DEF TypeOK
<1>1. /\ table[i].trigger_time = (now + wait[i]) % TimeMod
      /\ -MaxLate <= wait[i] /\ InPass(w)
      /\ now = (task.now + passed) % TimeMod
  BY DEF TimeInv, SlotTime, PassTime
<1>2. table[i].trigger_time = (task.now + w) % TimeMod
  <2>1. task.now + passed \in Int /\ (task.now + passed) + wait[i] = task.now + w
    BY <1>0
  <2> QED BY <1>0, <1>1, <2>1, ModAdd, ZenonT(60)
<1>3. -MaxLate <= w
  BY <1>0, <1>1, BoundAssumption
<1>4. -TimeMod <= 2 * w /\ 2 * w < TimeMod
  <2> HIDE DEF w
  <2> QED BY <1>0, <1>1, <1>3, DelayRange
<1> HIDE DEF w
<1>5. TimerDiff((task.now + w) % TimeMod, task.now) = w
  BY <1>0, <1>4, TimerDiffIsTrue
<1> QED BY <1>2, <1>5 DEF w

\* A slot that a step leaves alone keeps its reading of the time.
LEMMA SlotTimeFrame ==
  ASSUME NEW i \in Slots, SlotTime(i), table'[i] = table[i], wait'[i] = wait[i],
         UNCHANGED <<now, passed>>,
         task'.pc # "idle" /\ task'.i <= i => task.pc # "idle" /\ task.i <= i
  PROVE  SlotTime(i)'
  BY DEF SlotTime, Live

\* A delay counted from now, given to a slot by defer_exec or extend_deferred_exec.
LEMMA SlotTimeSet ==
  ASSUME TypeOK, PassTime, NEW i \in Slots, NEW d \in Delays,
         table'[i].trigger_time = (now + d) % TimeMod, wait'[i] = d,
         UNCHANGED <<now, passed, task>>
  PROVE  SlotTime(i)' /\ OneDelay(wait'[i])
<1>1. d \in Nat /\ -MaxLate <= d
  BY DelayAssumption, BoundAssumption
<1>2. passed \in 0 .. MaxGap
  BY DEF TypeOK, PassTime
<1>3. OneDelay(d) /\ TwoDelays(d) /\ InPass(d + passed)
  BY <1>2, DelayRange
<1>4. OneDelay(d)' = OneDelay(d) /\ TwoDelays(d)' = TwoDelays(d)
  BY DEF OneDelay, TwoDelays
<1> QED BY <1>1, <1>3 DEF SlotTime

LEMMA InitTime == Init => TimeInv
  BY BoundAssumption
     DEF Init, TimeInv, PassTime, SlotTime, Live, FreeEntry, INVALID_DEFERRED_TOKEN

LEMMA NextTime == Inv /\ TimeInv /\ [Next]_vars => TimeInv'
<1> SUFFICES ASSUME Inv, TimeInv, [Next]_vars PROVE TimeInv'
  OBVIOUS
<1>0. /\ TypeOK /\ PassTime /\ \A i \in Slots : SlotTime(i) /\ wait[i] \in Int
      /\ TimeMod \in Nat \ {0} /\ passed \in 0 .. MaxGap /\ now \in 0 .. TimeMod - 1
  BY TimeAssumption DEF Inv, TimeInv, TypeOK, PassTime
<1>1. ASSUME NEW d \in Delays, NEW cb \in Callbacks, DeferExec(d, cb)
      PROVE  TimeInv'
  <2>0. UNCHANGED <<now, passed, task>>
    BY <1>1 DEF DeferExec
  <2>1. CASE UNCHANGED <<table, wait>>
    BY <1>0, <2>0, <2>1 DEF TimeInv, PassTime, SlotTime, Live
  <2>2. CASE ~(TokenSteps > TokenMod)
    <3>1. PICK j \in Slots : j = FirstFree
      BY <1>1, FirstFreeIsFree DEF DeferExec
    <3>2. /\ table'[j].trigger_time = (now + d) % TimeMod /\ wait'[j] = d
          /\ \A i \in Slots : i # j => table'[i] = table[i] /\ wait'[i] = wait[i]
      BY <1>0, <1>1, <2>2, <3>1 DEF DeferExec, TypeOK
    <3>3. SlotTime(j)' /\ OneDelay(wait'[j])
      BY <1>0, <2>0, <3>1, <3>2, SlotTimeSet
    <3>4. ASSUME NEW i \in Slots PROVE SlotTime(i)'
      <4>1. CASE i = j
        BY <3>3, <4>1
      <4>2. CASE i # j
        BY <1>0, <2>0, <3>2, <4>2, SlotTimeFrame
      <4> QED BY <4>1, <4>2
    <3>5. PassTime'
      <4>1. task.pc = "callback" => task.i \in Slots
        BY DEF Inv, InCallback
      <4> QED BY <1>0, <2>0, <3>2, <3>3, <4>1 DEF PassTime, Live
    <3> QED BY <3>4, <3>5 DEF TimeInv
  <2> QED BY <1>1, <2>1, <2>2 DEF DeferExec
<1>2. ASSUME NEW t \in Tokens, NEW d \in Delays, ExtendDeferredExec(t, d)
      PROVE  TimeInv'
  <2>0. UNCHANGED <<now, passed, task>>
    BY <1>2 DEF ExtendDeferredExec
  <2>1. PICK j \in Slots :
           /\ table' = [table EXCEPT ![j].trigger_time = (now + d) % TimeMod]
           /\ wait' = [wait EXCEPT ![j] = d]
    BY <1>2 DEF ExtendDeferredExec
  <2>2. /\ table'[j].trigger_time = (now + d) % TimeMod /\ wait'[j] = d
        /\ \A i \in Slots : i # j => table'[i] = table[i] /\ wait'[i] = wait[i]
    BY <1>0, <2>1 DEF TypeOK, Entry
  <2>3. SlotTime(j)' /\ OneDelay(wait'[j])
    BY <1>0, <2>0, <2>2, SlotTimeSet
  <2>4. ASSUME NEW i \in Slots PROVE SlotTime(i)'
    <3>1. CASE i = j
      BY <2>3, <3>1
    <3>2. CASE i # j
      BY <1>0, <2>0, <2>2, <3>2, SlotTimeFrame
    <3> QED BY <3>1, <3>2
  <2>5. PassTime'
    <3>1. task.pc = "callback" => task.i \in Slots
      BY DEF Inv, InCallback
    <3> QED BY <1>0, <2>0, <2>2, <2>3, <3>1 DEF PassTime, Live
  <2> QED BY <2>4, <2>5 DEF TimeInv
<1>3. ASSUME NEW t \in Tokens, CancelDeferredExec(t)
      PROVE  TimeInv'
  <2>0. UNCHANGED <<now, passed, task>>
    BY <1>3 DEF CancelDeferredExec
  <2>1. PICK j \in Slots :
           /\ table' = [table EXCEPT ![j] = FreeEntry] /\ wait' = [wait EXCEPT ![j] = 0]
    BY <1>3 DEF CancelDeferredExec
  <2>2. /\ ~Live(j)'
        /\ \A i \in Slots : i # j => table'[i] = table[i] /\ wait'[i] = wait[i]
    BY <1>0, <2>1 DEF TypeOK, Live, FreeEntry
  <2>3. ASSUME NEW i \in Slots PROVE SlotTime(i)'
    <3>1. CASE i = j
      BY <2>2, <3>1 DEF SlotTime
    <3>2. CASE i # j
      BY <1>0, <2>0, <2>2, <3>2, SlotTimeFrame
    <3> QED BY <3>1, <3>2
  <2>4. PassTime'
    <3>1. task.pc = "callback" => task.i \in Slots
      BY DEF Inv, InCallback
    <3> QED BY <1>0, <2>0, <2>2, <3>1 DEF PassTime, Live
  <2> QED BY <2>3, <2>4 DEF TimeInv
<1>4. CASE TaskBegin
  <2>0. task.pc = "idle" /\ UNCHANGED <<table, now, wait>> /\ passed' = 0
    BY <1>4 DEF TaskBegin
  <2>1. \/ UNCHANGED task
        \/ task' = [pc |-> "scan", i |-> 1, now |-> now, token |-> 0]
    BY <1>4 DEF TaskBegin
  <2>2. now = (now + 0) % TimeMod
    BY <1>0, ModNear
  <2>3. PassTime'
    BY <1>0, <2>0, <2>1, <2>2, BoundAssumption DEF PassTime
  <2>4. ASSUME NEW i \in Slots PROVE SlotTime(i)'
    <3>1. Live(i) => InPass(wait[i] + 0)
      BY <1>0, DelayRange DEF SlotTime
    <3> QED BY <1>0, <2>0, <3>1 DEF SlotTime, Live
  <2> QED BY <2>3, <2>4 DEF TimeInv
<1>5. CASE TaskInvoke
  <2>0. /\ UNCHANGED <<table, now, wait, passed>> /\ task.pc = "scan" /\ task.i \in Slots
        /\ Due(task.i)
    BY <1>5 DEF TaskInvoke
  <2>1. task'.pc = "callback" /\ task'.i = task.i /\ task'.now = task.now
    BY <1>0, <1>5 DEF TaskInvoke, TypeOK
  <2>2. wait[task.i] <= 0
    <3>1. task.i <= task.i
      BY <2>0, TableAssumption DEF Slots
    <3>2. TimerDiff(table[task.i].trigger_time, task.now) = wait[task.i] + passed
      BY <1>0, <2>0, <3>1, PassReadsTime DEF Due, TimeInv
    <3> QED BY <1>0, <2>0, <3>2 DEF Due
  <2>3. OneDelay(wait[task.i])
    BY <1>0, <2>0, <2>2, DelayRange
  <2>4. PassTime'
    BY <1>0, <2>0, <2>1, <2>3 DEF PassTime, Live
  <2>5. \A i \in Slots : SlotTime(i)'
    BY <1>0, <2>0, <2>1, SlotTimeFrame
  <2> QED BY <2>4, <2>5 DEF TimeInv
<1>6. CASE TaskSkip
  <2>0. /\ UNCHANGED <<table, now, wait, passed>> /\ task.pc = "scan" /\ task.i \in Slots
    BY <1>6 DEF TaskSkip, ghosts
  <2>1. task'.pc = "scan" /\ task'.i = task.i + 1 /\ task'.now = task.now
    BY <1>0, <1>6 DEF TaskSkip, TypeOK
  <2>2. PassTime'
    BY <1>0, <2>0, <2>1 DEF PassTime
  <2>3. ASSUME NEW i \in Slots PROVE SlotTime(i)'
    <3>1. task'.i <= i => task.i <= i
      BY <2>0, <2>1, TableAssumption DEF Slots
    <3> QED BY <1>0, <2>0, <3>1, SlotTimeFrame
  <2> QED BY <2>2, <2>3 DEF TimeInv
<1>7. CASE TaskEnd
  <2>1. UNCHANGED <<table, now, wait, passed>> /\ task'.pc = "idle"
    BY <1>0, <1>7 DEF TaskEnd, ghosts, TypeOK
  <2>2. \A i \in Slots : SlotTime(i)'
    BY <1>0, <2>1, SlotTimeFrame
  <2> QED BY <1>0, <2>1, <2>2 DEF TimeInv, PassTime
<1>8. ASSUME NEW d \in Delays \cup {0}, CallbackReturn(d)
      PROVE  TimeInv'
  <2>a. PICK j \in Slots : j = task.i
    BY <1>8 DEF CallbackReturn, Inv, InCallback
  <2>0. /\ j = task.i /\ UNCHANGED <<now, passed>> /\ task.pc = "callback" /\ d \in Nat
        /\ task.token # INVALID_DEFERRED_TOKEN
    BY <1>8, <2>a, DelayAssumption DEF CallbackReturn, Inv, InCallback
  <2>1. task'.pc = "scan" /\ task'.i = j + 1 /\ task'.now = task.now
    BY <1>0, <1>8, <2>0 DEF CallbackReturn, TypeOK
  <2>2. PassTime'
    BY <1>0, <2>0, <2>1 DEF PassTime
  <2>3. \A i \in Slots : i # j => table'[i] = table[i] /\ wait'[i] = wait[i]
    BY <1>0, <1>8, <2>0 DEF CallbackReturn, TypeOK
  <2>4. \A i \in Slots : (task'.i <= i => task.i <= i) /\ (i = j => ~(task'.i <= i))
    BY <2>0, <2>1, TableAssumption DEF Slots
  <2>5. SlotTime(j)'
    <3>1. CASE table[j].token # task.token
      <4>1. table' = table /\ wait' = wait
        BY <1>8, <2>0, <3>1 DEF CallbackReturn
      <4> QED BY <1>0, <2>0, <2>1, <2>4, <4>1, SlotTimeFrame
    <3>2. CASE table[j].token = task.token /\ d > 0
      <4>0. Live(j) /\ OneDelay(wait[j])
        BY <1>0, <2>0, <3>2 DEF Live, PassTime
      <4>1. /\ table'[j].trigger_time = (table[j].trigger_time + d) % TimeMod
            /\ wait'[j] = wait[j] + d
        BY <1>0, <1>8, <2>0, <3>2 DEF CallbackReturn, TypeOK, Entry
      <4>2. table'[j].trigger_time = (now + wait'[j]) % TimeMod
        <5>1. now + wait[j] \in Int /\ (now + wait[j]) + d = now + wait'[j]
          BY <1>0, <2>0, <4>1
        <5>2. table[j].trigger_time = (now + wait[j]) % TimeMod
          BY <1>0, <2>0, <4>0 DEF SlotTime
        <5>3. (((now + wait[j]) % TimeMod) + d) % TimeMod = ((now + wait[j]) + d) % TimeMod
          <6> DEFINE c == now + wait[j]
          <6>1. c \in Int /\ d \in Int
            BY <2>0, <5>1
          <6> HIDE DEF c
          <6>2. ((c % TimeMod) + d) % TimeMod = (c + d) % TimeMod
            BY <1>0, <6>1, ModAdd
          <6> QED BY <6>2 DEF c
        <5> QED BY <4>1, <5>1, <5>2, <5>3
      <4>3. TwoDelays(wait'[j])
        BY <1>0, <2>0, <4>0, <4>1, DelayRange
      <4>4. -MaxLate <= wait'[j]
        BY <1>0, <2>0, <4>0, <4>1, BoundAssumption DEF SlotTime
      <4> QED BY <2>0, <2>4, <4>2, <4>3, <4>4 DEF SlotTime
    <3>3. CASE table[j].token = task.token /\ ~(d > 0)
      <4>1. ~Live(j)'
        BY <1>0, <1>8, <2>0, <3>3 DEF CallbackReturn, TypeOK, Live, FreeEntry
      <4> QED BY <4>1 DEF SlotTime
    <3> QED BY <3>1, <3>2, <3>3
  <2>6. ASSUME NEW i \in Slots PROVE SlotTime(i)'
    <3>1. CASE i = j
      BY <2>5, <3>1
    <3>2. CASE i # j
      BY <1>0, <2>0, <2>1, <2>3, <2>4, <3>2, SlotTimeFrame
    <3> QED BY <3>1, <3>2
  <2> QED BY <2>2, <2>6 DEF TimeInv
<1>9. CASE Tick
  <2>0. /\ passed < MaxGap /\ now' = (now + 1) % TimeMod /\ passed' = passed + 1
        /\ UNCHANGED <<table, task>>
        /\ \A i \in Slots : Live(i) => wait[i] > -MaxLate /\ wait'[i] = wait[i] - 1
    BY <1>9 DEF Tick
  <2>1. PassTime'
    <3>1. passed' <= MaxGap
      BY <1>0, <2>0, BoundAssumption
    <3>2. task'.pc # "idle" => now' = (task'.now + passed') % TimeMod
      <4>1. /\ task.now \in Int /\ task.now + passed \in Int
            /\ (task.now + passed) + 1 = task.now + passed'
        BY <1>0, <2>0 DEF TypeOK
      <4>2. (((task.now + passed) % TimeMod) + 1) % TimeMod = (task.now + passed') % TimeMod
        BY <1>0, <4>1, ModAdd
      <4> QED BY <1>0, <2>0, <4>2 DEF PassTime
    <3>3. task'.pc = "callback" /\ Live(task.i)' => OneDelay(wait'[task'.i])
      <4> SUFFICES ASSUME task.pc = "callback", Live(task.i)
                   PROVE  OneDelay(wait'[task.i])
        BY <2>0 DEF Live
      <4>1. task.i \in Slots /\ OneDelay(wait[task.i])
        BY <1>0 DEF Inv, InCallback, PassTime
      <4>2. /\ wait'[task.i] \in Int /\ wait[task.i] \in Int
            /\ wait'[task.i] <= wait[task.i]
        BY <1>0, <2>0, <4>1
      <4> QED BY <4>1, <4>2, DelayRange
    <3> QED BY <2>0, <3>1, <3>2, <3>3 DEF PassTime
  <2>2. ASSUME NEW i \in Slots, Live(i) PROVE SlotTime(i)'
    <3>0. wait'[i] = wait[i] - 1 /\ wait[i] \in Int /\ wait[i] > -MaxLate
      BY <1>0, <2>0, <2>2
    <3>1. table[i].trigger_time = (now' + wait'[i]) % TimeMod
      <4>1. now + 1 \in Int /\ wait[i] - 1 \in Int /\ (now + 1) + (wait[i] - 1) = now + wait[i]
        BY <1>0, <3>0
      <4>2. (((now + 1) % TimeMod) + (wait[i] - 1)) % TimeMod = (now + wait[i]) % TimeMod
        BY <1>0, <4>1, ModAdd, ZenonT(60)
      <4> QED BY <1>0, <2>0, <2>2, <3>0, <4>2 DEF SlotTime
    <3>2. -MaxLate <= wait'[i]
      BY <3>0, BoundAssumption
    <3>3. TwoDelays(wait'[i])
      <4>1. wait'[i] \in Int /\ wait'[i] <= wait[i]
        BY <3>0
      <4> QED BY <1>0, <2>2, <3>0, <4>1, DelayRange DEF SlotTime
    <3>4. wait'[i] + passed' = wait[i] + passed
      BY <1>0, <2>0, <3>0
    <3> QED BY <1>0, <2>0, <2>2, <3>1, <3>2, <3>3, <3>4 DEF SlotTime
  <2>3. ASSUME NEW i \in Slots, ~Live(i) PROVE SlotTime(i)'
    BY <2>0, <2>3 DEF SlotTime, Live
  <2> QED BY <2>1, <2>2, <2>3 DEF TimeInv
<1>10. CASE UNCHANGED vars
  BY <1>0, <1>10 DEF vars, TimeInv, PassTime, SlotTime, Live
<1> QED BY <1>1, <1>2, <1>3, <1>4, <1>5, <1>6, <1>7, <1>8, <1>9, <1>10 DEF Next

\* The executor a pass runs is due, and the ones it steps over were not when
\* it began.
LEMMA StepsAreDue ==
  ASSUME TypeOK, TimeInv
  PROVE  /\ TaskInvoke => wait[task.i] <= 0
         /\ TaskSkip => ~Live(task.i) \/ wait[task.i] + TimerDiff(now, task.now) > 0
<1>0. passed \in 0 .. MaxGap /\ wait \in [Slots -> Int] /\ task.now \in 0 .. TimeMod - 1
  BY DEF TypeOK, TimeInv, PassTime
<1>1. ASSUME task.pc = "scan", task.i \in Slots, Live(task.i)
      PROVE  TimerDiff(table[task.i].trigger_time, task.now) = wait[task.i] + passed
  <2>1. task.i <= task.i
    BY <1>1, TableAssumption DEF Slots
  <2> QED BY <1>1, <2>1, PassReadsTime
<1>2. ASSUME task.pc = "scan" PROVE TimerDiff(now, task.now) = passed
  <2>1. now = (task.now + passed) % TimeMod
    BY <1>2 DEF TimeInv, PassTime
  <2>2. passed \in Int /\ -TimeMod <= 2 * passed /\ 2 * passed < TimeMod
    BY <1>0, DelayRange, BoundAssumption, TimeAssumption
  <2> QED BY <1>0, <2>1, <2>2, TimerDiffIsTrue
<1>3. TaskInvoke => wait[task.i] <= 0
  BY <1>0, <1>1 DEF TaskInvoke, Due
<1>4. TaskSkip => ~Live(task.i) \/ wait[task.i] + TimerDiff(now, task.now) > 0
  BY <1>0, <1>1, <1>2 DEF TaskSkip, Due
<1> QED BY <1>3, <1>4

\* A callback is entered only when its whole delay has elapsed, and a pass
\* steps over no executor that was due when it began, for every width of the
\* timer and across its wraps (deferred_exec_advanced_task).
THEOREM FiresWhenDue == Spec => FiresExactlyWhenDue
<1>1. Inv /\ TimeInv /\ [Next]_vars =>
        [/\ TaskInvoke => wait[task.i] <= 0
         /\ TaskSkip => ~Live(task.i) \/ wait[task.i] + TimerDiff(now, task.now) > 0]_vars
  BY StepsAreDue DEF Inv
<1> QED BY InitInv, NextInv, InitTime, NextTime, <1>1, PTL DEF Spec, FiresExactlyWhenDue

-----------------------------------------------------------------------------
(* Reuse of a token.  After token 1 the counter only moves forward until   *)
(* it wraps, past tokens it hands out and tokens that are held.  The held  *)
(* ones ahead of it were there when token 1 was handed out, so there are   *)
(* fewer of them than slots; the rest of the way is made of allocations.   *)

\* Tokens of queued executors that the counter has yet to pass.
Ahead == {t \in Tokens : t > current_token /\ \E i \in Slots : table[i].token = t}

ReuseInv ==
  \/ watched >= TokenMod - 1 - TableCount
  \/ /\ current_token # 0
     /\ (current_token - 1) - watched + Cardinality(Ahead) <= TableCount - 1

LEMMA AheadFinite == IsFiniteSet(Ahead) /\ Cardinality(Ahead) \in Nat
<1>1. IsFiniteSet(0 .. TokenMod - 1)
  BY TokenAssumption, FS_Interval
<1>2. Ahead \in SUBSET (0 .. TokenMod - 1)
  BY DEF Ahead, Tokens
<1>3. IsFiniteSet(Ahead)
  BY <1>1, <1>2, FS_Subset
<1> QED BY <1>3, FS_CardinalityType

\* A set of slots holds at most as many tokens as it has slots.
LEMMA TokensOfSlots ==
  ASSUME NEW S \in SUBSET Slots, NEW T, \A t \in T : \E i \in S : table[i].token = t
  PROVE  IsFiniteSet(T) /\ Cardinality(T) <= Cardinality(S) /\ Cardinality(S) \in Nat
<1> DEFINE f == [i \in S |-> table[i].token]
           R == {f[i] : i \in S}
<1>1. IsFiniteSet(Slots)
  BY TableAssumption, FS_Interval DEF Slots
<1>2. IsFiniteSet(S) /\ Cardinality(S) \in Nat
  BY <1>1, FS_Subset, FS_CardinalityType
<1>3. f \in Surjection(S, R)
  BY DEF Surjection
<1>4. T \in SUBSET R
  OBVIOUS
<1> HIDE DEF f, R
<1>5. IsFiniteSet(R) /\ Cardinality(R) <= Cardinality(S)
  BY <1>2, <1>3, FS_Surjection
<1>6. IsFiniteSet(T) /\ Cardinality(T) <= Cardinality(R)
  BY <1>4, <1>5, FS_Subset
<1>7. Cardinality(T) \in Nat /\ Cardinality(R) \in Nat
  BY <1>5, <1>6, FS_CardinalityType
<1> QED BY <1>2, <1>5, <1>6, <1>7

\* The tokens that the search steps over are held.
LEMMA SteppedOver ==
  ASSUME TypeOK, NEW k \in 1 .. TokenMod, k < TokenSteps,
         (current_token + k) % TokenMod # 0
  PROVE  \E i \in Slots : table[i].token = (current_token + k) % TokenMod
<1> DEFINE usable == {j \in 1 .. TokenMod :
                        token_can_be_used((current_token + j) % TokenMod)}
<1>1. k \notin usable
  <2>1. CASE usable = {}
    BY <2>1
  <2>2. CASE usable # {}
    <3>1. TokenSteps = CHOOSE j \in usable : \A m \in usable : j <= m
      BY <2>2 DEF TokenSteps
    <3>2. usable \subseteq Nat
      BY TokenAssumption
    <3>3. TokenSteps \in usable /\ \A m \in usable : TokenSteps <= m
      <4> HIDE DEF usable
      <4> QED BY <2>2, <3>1, <3>2, SmallestElement
    <3>4. TokenSteps \in Nat
      BY <3>2, <3>3
    <3> QED BY <3>3, <3>4
  <2> QED BY <2>1, <2>2
<1> QED BY <1>1 DEF token_can_be_used, INVALID_DEFERRED_TOKEN

\* When the counter wraps on its way from token 1, enough were handed out.
LEMMA WrapIsFar ==
  ASSUME TypeOK, ReuseInv, TokenSteps > TokenMod - 1 - current_token
  PROVE  watched >= TokenMod - 1 - TableCount
<1> DEFINE c == current_token
           T == c + 1 .. TokenMod - 1
<1>0. /\ c \in 0 .. TokenMod - 1 /\ TokenMod \in Nat /\ TokenMod > 1 /\ watched \in Nat
      /\ TableCount \in Nat /\ TokenSteps \in Nat
  BY TokenAssumption, TableAssumption, TokenStepsRange DEF TypeOK, Tokens
<1>1. CASE c = 0
  BY <1>0, <1>1 DEF ReuseInv
<1>2. CASE c # 0 /\ (c - 1) - watched + Cardinality(Ahead) <= TableCount - 1
  <2>1. ASSUME NEW t \in T PROVE t \in Ahead
    <3>1. t - c \in 1 .. TokenMod /\ t - c < TokenSteps /\ t \in Int /\ t > c /\ t \in Tokens
      BY <1>0 DEF Tokens
    <3>2. c + (t - c) = t /\ t % TokenMod = t /\ t # 0
      BY <1>0, <3>1, ModNear
    <3>3. \E i \in Slots : table[i].token = t
      BY <3>1, <3>2, SteppedOver
    <3> QED BY <3>1, <3>3 DEF Ahead
  <2>2. Cardinality(T) = TokenMod - 1 - c
    <3>1. c + 1 \in Int /\ TokenMod - 1 \in Int
      BY <1>0
    <3>2. Cardinality(T) = IF c + 1 > TokenMod - 1 THEN 0 ELSE (TokenMod - 1) - (c + 1) + 1
      BY <3>1, FS_Interval
    <3> QED BY <1>0, <3>2
  <2>3. Cardinality(T) <= Cardinality(Ahead)
    <3> HIDE DEF T
    <3> QED BY <2>1, AheadFinite, FS_Subset
  <2> QED BY <1>0, <1>2, <2>2, <2>3, AheadFinite
<1> QED BY <1>1, <1>2 DEF ReuseInv

\* The bound follows at once when nothing is queued, extended or freed.
LEMMA ReuseFrame ==
  ASSUME TypeOK, ReuseInv, UNCHANGED <<current_token, watched>>,
         \A i \in Slots : table'[i].token \in {table[i].token, 0}
  PROVE  ReuseInv'
<1>1. Ahead' \in SUBSET Ahead
  BY DEF Ahead, TypeOK, Tokens
<1>2. Cardinality(Ahead') <= Cardinality(Ahead) /\ Cardinality(Ahead') \in Nat
  BY <1>1, AheadFinite, FS_Subset, FS_CardinalityType
<1> QED BY <1>2, AheadFinite, TokenAssumption, TableAssumption DEF ReuseInv, TypeOK, Tokens

LEMMA DeferReuse ==
  ASSUME TypeOK, ReuseInv, NEW d \in Delays, NEW cb \in Callbacks, DeferExec(d, cb)
  PROVE  ReuseInv'
<1> DEFINE c == current_token
           k == TokenSteps
<1>0. /\ c \in 0 .. TokenMod - 1 /\ TokenMod \in Nat /\ TokenMod > 1 /\ watched \in Nat
      /\ TableCount \in Nat /\ k \in 1 .. TokenMod + 1
  BY TokenAssumption, TableAssumption, TokenStepsRange DEF TypeOK, Tokens
<1>1. CASE k > TokenMod
  <2>1. watched >= TokenMod - 1 - TableCount /\ watched' = watched
    BY <1>0, <1>1, WrapIsFar DEF DeferExec
  <2> QED BY <2>1 DEF ReuseInv
<1>2. CASE ~(k > TokenMod)
  <2>0. PICK j \in Slots : j = FirstFree
    BY FirstFreeIsFree DEF DeferExec
  <2>1. /\ table'[j].token = NextToken /\ current_token' = NextToken
        /\ \A i \in Slots : i # j => table'[i] = table[i]
        /\ watched' = IF NextToken = 1 THEN 0
                      ELSE IF watched < TokenMod THEN watched + 1 ELSE watched
    BY <1>2, <2>0 DEF DeferExec, TypeOK
  <2>2. NextToken \in Tokens /\ NextToken # 0
    BY <1>2, NextTokenFresh DEF token_can_be_used, INVALID_DEFERRED_TOKEN
  <2>3. CASE NextToken = 1
    <3>1. \A t \in Ahead' : \E i \in Slots \ {j} : table'[i].token = t
      BY <2>1, <2>3 DEF Ahead, Tokens
    <3>2. \A t \in Ahead' : \E i \in Slots \ {j} : table[i].token = t
      BY <2>1, <3>1
    <3>3. Cardinality(Ahead') <= Cardinality(Slots \ {j}) /\ IsFiniteSet(Ahead')
      BY <3>2, TokensOfSlots
    <3>4. Cardinality(Slots \ {j}) = TableCount - 1
      <4>1. IsFiniteSet(Slots) /\ Cardinality(Slots) = TableCount
        BY TableAssumption, FS_Interval DEF Slots
      <4> QED BY <4>1, FS_RemoveElement
    <3> QED BY <1>0, <2>1, <2>3, <3>3, <3>4, FS_CardinalityType DEF ReuseInv
  <2>4. CASE NextToken # 1 /\ watched >= TokenMod - 1 - TableCount
    BY <1>0, <2>1, <2>4 DEF ReuseInv
  <2>5. CASE NextToken # 1 /\ ~(watched >= TokenMod - 1 - TableCount)
    <3>1. /\ c # 0 /\ (c - 1) - watched + Cardinality(Ahead) <= TableCount - 1
          /\ ~(k > TokenMod - 1 - c)
      BY <2>5, WrapIsFar DEF ReuseInv
    <3>2. NextToken = c + k
      <4>1. c + k \in Int /\ 0 <= c + k /\ c + k < TokenMod
        BY <1>0, <3>1
      <4>2. NextToken = (c + k) % TokenMod
        BY DEF NextToken
      <4> HIDE DEF c, k
      <4> QED BY <1>0, <4>1, <4>2, ModNear
    <3> DEFINE T == c + 1 .. c + k - 1
    <3>3. ASSUME NEW t \in T PROVE t \in Ahead
      <4>1. t - c \in 1 .. TokenMod /\ t - c < k /\ t \in Int /\ t > c /\ t \in Tokens
        BY <1>0, <3>1 DEF Tokens
      <4>2. c + (t - c) = t /\ t % TokenMod = t /\ t # 0
        BY <1>0, <4>1, ModNear DEF Tokens
      <4>3. \E i \in Slots : table[i].token = t
        BY <4>1, <4>2, SteppedOver
      <4> QED BY <4>1, <4>3 DEF Ahead
    <3>4. Cardinality(T) = k - 1
      <4>1. c + 1 \in Int /\ c + k - 1 \in Int
        BY <1>0
      <4>2. Cardinality(T) = IF c + 1 > c + k - 1 THEN 0 ELSE (c + k - 1) - (c + 1) + 1
        BY <4>1, FS_Interval
      <4> QED BY <1>0, <4>2
    <3>5. Ahead' \in SUBSET (Ahead \ T)
      <4> SUFFICES ASSUME NEW t \in Ahead' PROVE t \in Ahead \ T
        OBVIOUS
      <4>1. /\ t \in Tokens /\ t > c + k /\ t # NextToken
            /\ \E i \in Slots : table'[i].token = t
        BY <1>0, <2>1, <3>2 DEF Ahead, Tokens
      <4>2. \E i \in Slots : table[i].token = t
        BY <2>1, <4>1
      <4>3. t > c /\ t \notin T
        BY <1>0, <4>1 DEF Tokens
      <4> QED BY <4>1, <4>2, <4>3 DEF Ahead
    <3>6. Cardinality(Ahead \ T) = Cardinality(Ahead) - (k - 1) /\ IsFiniteSet(Ahead \ T)
      <4>1. Ahead \cap T = T
        BY <3>3
      <4> HIDE DEF T
      <4>2. /\ IsFiniteSet(Ahead \ T)
            /\ Cardinality(Ahead \ T) = Cardinality(Ahead) - Cardinality(Ahead \cap T)
        BY AheadFinite, FS_Difference
      <4> QED BY <3>4, <4>1, <4>2
    <3>7. Cardinality(Ahead') <= Cardinality(Ahead) - (k - 1) /\ Cardinality(Ahead') \in Nat
      <4> HIDE DEF T
      <4> QED BY <3>5, <3>6, FS_Subset, FS_CardinalityType
    <3>8. watched' = watched + 1
      BY <1>0, <2>1, <2>5
    <3> HIDE DEF T
    <3> QED BY <1>0, <2>1, <2>2, <3>1, <3>2, <3>7, <3>8, AheadFinite DEF ReuseInv
  <2> QED BY <2>3, <2>4, <2>5
<1> QED BY <1>1, <1>2

LEMMA NextReuse == Inv /\ ReuseInv /\ [Next]_vars => ReuseInv'
<1> SUFFICES ASSUME Inv, ReuseInv, [Next]_vars PROVE ReuseInv'
  OBVIOUS
<1>0. TypeOK
  BY DEF Inv
<1>1. ASSUME NEW d \in Delays, NEW cb \in Callbacks, DeferExec(d, cb)
      PROVE  ReuseInv'
  BY <1>0, <1>1, DeferReuse
<1>2. ASSUME NEW t \in Tokens, NEW d \in Delays, ExtendDeferredExec(t, d)
      PROVE  ReuseInv'
  <2>1. UNCHANGED <<current_token, watched>>
    BY <1>2 DEF ExtendDeferredExec
  <2>2. \A i \in Slots : table'[i].token = table[i].token
    BY <1>0, <1>2 DEF ExtendDeferredExec, TypeOK, Entry
  <2> QED BY <1>0, <2>1, <2>2, ReuseFrame
<1>3. ASSUME NEW t \in Tokens, CancelDeferredExec(t)
      PROVE  ReuseInv'
  <2>1. UNCHANGED <<current_token, watched>>
    BY <1>3 DEF CancelDeferredExec
  <2>2. \A i \in Slots : table'[i].token \in {table[i].token, 0}
    BY <1>0, <1>3 DEF CancelDeferredExec, TypeOK, FreeEntry, INVALID_DEFERRED_TOKEN
  <2> QED BY <1>0, <2>1, <2>2, ReuseFrame
<1>4. ASSUME NEW d \in Delays \cup {0}, CallbackReturn(d)
      PROVE  ReuseInv'
  <2>1. UNCHANGED <<current_token, watched>>
    BY <1>4 DEF CallbackReturn
  <2>2. \A i \in Slots : table'[i].token \in {table[i].token, 0}
    BY <1>0, <1>4 DEF CallbackReturn, TypeOK, Entry, FreeEntry, INVALID_DEFERRED_TOKEN
  <2> QED BY <1>0, <2>1, <2>2, ReuseFrame
<1>5. CASE UNCHANGED <<table, current_token, watched>>
  BY <1>0, <1>5, ReuseFrame
<1> QED BY <1>1, <1>2, <1>3, <1>4, <1>5
        DEF Next, TaskBegin, TaskInvoke, TaskSkip, TaskEnd, Tick, ghosts, vars

\* A slot gets token 1 only where the invariant has counted enough others.
LEMMA ReuseIsFar ==
  ASSUME TypeOK, ReuseInv, Next, NEW i \in Slots, ~Live(i), table'[i].token = 1
  PROVE  watched >= TokenMod - 1 - TableCount
<1>0. table[i].token = 0
  BY DEF Live, INVALID_DEFERRED_TOKEN
<1>1. ASSUME NEW d \in Delays, NEW cb \in Callbacks, DeferExec(d, cb)
      PROVE  watched >= TokenMod - 1 - TableCount
  <2>1. ~(TokenSteps > TokenMod) /\ NextToken = 1
    BY <1>0, <1>1, FirstFreeIsFree DEF DeferExec, TypeOK
  <2>2. TokenSteps \in 1 .. TokenMod /\ current_token \in 0 .. TokenMod - 1 /\ watched \in Nat
        /\ TokenMod \in Nat /\ TableCount \in Nat
    BY <2>1, TokenStepsRange, TokenAssumption, TableAssumption DEF TypeOK, Tokens
  <2>3. CASE current_token = 0
    BY <2>2, <2>3 DEF ReuseInv
  <2>4. CASE current_token # 0 /\ current_token + TokenSteps < TokenMod
    <3>1. (current_token + TokenSteps) % TokenMod = current_token + TokenSteps
      BY <2>2, <2>4, TokenAssumption, ModNear
    <3> QED BY <2>1, <2>2, <2>4, <3>1 DEF NextToken
  <2>5. CASE ~(current_token + TokenSteps < TokenMod)
    <3>1. TokenSteps > TokenMod - 1 - current_token
      BY <2>2, <2>5
    <3> QED BY <3>1, WrapIsFar
  <2> QED BY <2>3, <2>4, <2>5
<1>2. ASSUME NEW t \in Tokens, NEW d \in Delays, ExtendDeferredExec(t, d)
      PROVE  table'[i].token = 0
  BY <1>0, <1>2 DEF ExtendDeferredExec, TypeOK, Entry
<1>3. ASSUME NEW t \in Tokens, CancelDeferredExec(t)
      PROVE  table'[i].token = 0
  BY <1>0, <1>3 DEF CancelDeferredExec, TypeOK, FreeEntry, INVALID_DEFERRED_TOKEN
<1>4. ASSUME NEW d \in Delays \cup {0}, CallbackReturn(d)
      PROVE  table'[i].token = 0
  BY <1>0, <1>4 DEF CallbackReturn, TypeOK, Entry, FreeEntry, INVALID_DEFERRED_TOKEN
<1>5. CASE UNCHANGED table
  BY <1>0, <1>5
<1> QED BY <1>1, <1>2, <1>3, <1>4, <1>5
        DEF Next, TaskBegin, TaskInvoke, TaskSkip, TaskEnd, Tick, ghosts

\* A stale token a client has kept stays harmless for at least
\* TokenMod - 1 - TableCount allocations, whatever is queued and cancelled in
\* between (allocate_token).
THEOREM TokensReusedLate == Spec => TokenReuseDistance
<1>1. Init => ReuseInv
  BY TokenAssumption, TableAssumption DEF Init, ReuseInv
<1>2. Inv /\ ReuseInv /\ [Next]_vars =>
        [\A i \in Slots : ~Live(i) /\ table'[i].token = 1 =>
           watched >= TokenMod - 1 - TableCount]_vars
  BY ReuseIsFar DEF Inv
<1> QED BY InitInv, NextInv, <1>1, NextReuse, <1>2, PTL DEF Spec, TokenReuseDistance
=============================================================================
