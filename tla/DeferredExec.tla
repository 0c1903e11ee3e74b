---------------------------- MODULE DeferredExec ----------------------------
(***************************************************************************)
(* The deferred executor table of quantum/deferred_exec.c: callbacks are   *)
(* queued with a delay, extended and cancelled by token, and run by a task *)
(* that the main loop calls.  Everything runs on the one firmware thread,  *)
(* but a callback runs in the middle of a pass over the table and may call *)
(* the whole API itself, and the millisecond timer moves under all of it.  *)
(***************************************************************************)
EXTENDS Integers, FiniteSets

CONSTANTS
  TableCount,  \* slots of the table (MAX_DEFERRED_EXECUTORS, 8)
  TokenMod,    \* number of values of deferred_token (uint8_t, 256)
  TimeMod,     \* number of values of the 32-bit millisecond timer
  Delays,      \* the delays clients and callbacks ask for
  Callbacks,   \* the callbacks clients queue
  NULL,
  MaxLate,     \* bound: how far, in ms, an executor may fall behind
  MaxGap       \* bound: ms between two calls of the task

ASSUME TableAssumption == TableCount \in Nat \ {0}
ASSUME TokenAssumption == TokenMod \in Nat /\ TokenMod > 1
ASSUME TimeAssumption  == TimeMod \in Nat /\ TimeMod > 1
ASSUME DelayAssumption == Delays \subseteq Nat
ASSUME NullAssumption  == NULL \notin Callbacks
ASSUME BoundAssumption == MaxLate \in Nat /\ MaxGap \in Nat
\* The signed reading of a timer difference is right only within half of the
\* timer's range (about 24 days).  A callback that extends its own executor and
\* then returns a delay adds the two, so it is the sum that has to fit.
ASSUME RangeAssumption ==
  /\ \A d, e \in Delays : 2 * (d + e) < TimeMod /\ 2 * (d + MaxGap) < TimeMod
  /\ 2 * (MaxLate + MaxGap) < TimeMod

VARIABLES
  table,               \* the executor table
  current_token,       \* last token handed out
  now,                 \* timer_read32()
  last_execution_time, \* time of the last pass over the table
  task,                \* where deferred_exec_advanced_task is
  wait,                \* ghost: true ms left until each slot's trigger
  passed,              \* ghost: true ms since the task was last called
  watched              \* ghost: allocations since token 1 was handed out

vars == <<table, current_token, now, last_execution_time, task,
          wait, passed, watched>>
ghosts == <<wait, passed, watched>>

INVALID_DEFERRED_TOKEN == 0
Slots  == 1 .. TableCount
Tokens == 0 .. TokenMod - 1
Entry  == [token : Tokens, trigger_time : 0 .. TimeMod - 1,
           callback : Callbacks \cup {NULL}]
FreeEntry == [token |-> INVALID_DEFERRED_TOKEN, trigger_time |-> 0, callback |-> NULL]

\* Mutant: the difference is not taken modulo the timer's range.
TimerDiff_NoWrap(a, b) == a - b

\* (int32_t)TIMER_DIFF_32(a, b): the modular difference read as signed.
TimerDiff(a, b) ==
  LET d == (a - b) % TimeMod IN IF 2 * d >= TimeMod THEN d - TimeMod ELSE d

Live(i) == table[i].token # INVALID_DEFERRED_TOKEN

-----------------------------------------------------------------------------
(* Token allocation.                                                       *)

\* Mutant: a token still in the table is handed out again.
token_can_be_used_NoScan(t) == t # INVALID_DEFERRED_TOKEN

token_can_be_used(t) ==
  /\ t # INVALID_DEFERRED_TOKEN
  /\ \A i \in Slots : table[i].token # t

\* How far current_token moves; TokenMod + 1 stands for the full circle back
\* to the first candidate, after which nothing is handed out.
TokenSteps ==
  LET usable == {k \in 1 .. TokenMod :
                   token_can_be_used((current_token + k) % TokenMod)}
  IN IF usable = {} THEN TokenMod + 1
     ELSE CHOOSE k \in usable : \A j \in usable : k <= j

\* Mutant: the counter is wider than the 8 bits of a token.
NextToken_Wide == current_token + TokenSteps

\* Mutant: the search starts at 1 instead of behind the last token.
NextToken_Lowest ==
  LET usable == {t \in Tokens : token_can_be_used(t)}
  IN IF usable = {} THEN 0 ELSE CHOOSE t \in usable : \A u \in usable : t <= u

NextToken == (current_token + TokenSteps) % TokenMod

-----------------------------------------------------------------------------
(* The API, called from the main loop or from inside a callback.           *)

APICaller == task.pc \in {"idle", "callback"}

FreeSlots == {i \in Slots : ~Live(i)}
FirstFree == CHOOSE i \in FreeSlots : \A j \in FreeSlots : i <= j

\* defer_exec(d, cb).  Nothing changes when the delay is zero or the table is
\* full; when no token is left only current_token has moved.
DeferExec(d, cb) ==
  /\ APICaller
  /\ d # 0 /\ FreeSlots # {}
  /\ current_token' = NextToken
  /\ IF TokenSteps > TokenMod
     THEN UNCHANGED <<table, wait, watched>>
     ELSE /\ table' = [table EXCEPT ![FirstFree] =
                        [token |-> NextToken, trigger_time |-> (now + d) % TimeMod,
                         callback |-> cb]]
          /\ wait' = [wait EXCEPT ![FirstFree] = d]
          /\ watched' = IF NextToken = 1 THEN 0
                        ELSE IF watched < TokenMod THEN watched + 1 ELSE watched
  /\ UNCHANGED <<now, last_execution_time, task, passed>>

ExtendDeferredExec(t, d) ==
  /\ APICaller
  /\ t # INVALID_DEFERRED_TOKEN /\ d # 0
  /\ \E i \in Slots :
       /\ table[i].token = t
       /\ table' = [table EXCEPT ![i].trigger_time = (now + d) % TimeMod]
       /\ wait' = [wait EXCEPT ![i] = d]
  /\ UNCHANGED <<current_token, now, last_execution_time, task,
                 passed, watched>>

\* Mutant: only the callback is cleared, the token stays.
CancelDeferredExec_KeepToken(t) ==
  /\ APICaller
  /\ \E i \in Slots :
       /\ Live(i) /\ table[i].token = t
       /\ table' = [table EXCEPT ![i].callback = NULL]
  /\ UNCHANGED <<current_token, now, last_execution_time, task, ghosts>>

CancelDeferredExec(t) ==
  /\ APICaller
  /\ t # INVALID_DEFERRED_TOKEN
  /\ \E i \in Slots :
       /\ table[i].token = t
       /\ table' = [table EXCEPT ![i] = FreeEntry]
       /\ wait' = [wait EXCEPT ![i] = 0]
  /\ UNCHANGED <<current_token, now, last_execution_time, task,
                 passed, watched>>

-----------------------------------------------------------------------------
(* deferred_exec_advanced_task: one pass, slot by slot.                    *)

\* Mutant: the throttle compares absolute times.
TaskBegin_Absolute ==
  /\ task.pc = "idle"
  /\ passed' = 0
  /\ IF now > last_execution_time
     THEN /\ last_execution_time' = now
          /\ task' = [pc |-> "scan", i |-> 1, now |-> now, token |-> 0]
     ELSE UNCHANGED <<last_execution_time, task>>
  /\ UNCHANGED <<table, current_token, now, wait, watched>>

\* The call; a pass is made at most once per millisecond.
TaskBegin ==
  /\ task.pc = "idle"
  /\ passed' = 0
  /\ IF TimerDiff(now, last_execution_time) > 0
     THEN /\ last_execution_time' = now
          /\ task' = [pc |-> "scan", i |-> 1, now |-> now, token |-> 0]
     ELSE UNCHANGED <<last_execution_time, task>>
  /\ UNCHANGED <<table, current_token, now, wait, watched>>

Due(i) == Live(i) /\ TimerDiff(table[i].trigger_time, task.now) <= 0

\* entry->callback(...) is entered.
TaskInvoke ==
  /\ task.pc = "scan" /\ task.i \in Slots
  /\ Due(task.i)
  /\ task' = [task EXCEPT !.pc = "callback", !.token = table[task.i].token]
  /\ UNCHANGED <<table, current_token, now, last_execution_time, wait, passed, watched>>

TaskSkip ==
  /\ task.pc = "scan" /\ task.i \in Slots
  /\ ~Due(task.i)
  /\ task' = [task EXCEPT !.i = @ + 1]
  /\ UNCHANGED <<table, current_token, now, last_execution_time, ghosts>>

TaskEnd ==
  /\ task.pc = "scan" /\ task.i \notin Slots
  /\ task' = [task EXCEPT !.pc = "idle", !.i = 0, !.now = 0]
  /\ UNCHANGED <<table, current_token, now, last_execution_time, ghosts>>

\* The callback returns d: a slot whose token changed meanwhile is left alone,
\* d > 0 re-arms the slot relative to its previous trigger, 0 frees it.
CallbackReturn(d) ==
  /\ task.pc = "callback"
  /\ LET i == task.i IN
     IF table[i].token # task.token
     THEN UNCHANGED <<table, wait>>
     ELSE IF d > 0
     THEN /\ table' = [table EXCEPT ![i].trigger_time = (@ + d) % TimeMod]
          /\ wait' = [wait EXCEPT ![i] = @ + d]
     ELSE /\ table' = [table EXCEPT ![i] = FreeEntry]
          /\ wait' = [wait EXCEPT ![i] = 0]
  /\ task' = [task EXCEPT !.pc = "scan", !.i = @ + 1, !.token = 0]
  /\ UNCHANGED <<current_token, now, last_execution_time, passed, watched>>

\* A millisecond goes by, in the main loop or while a callback blocks.  The
\* bounds say that the main loop keeps coming round.
Tick ==
  /\ passed < MaxGap
  /\ \A i \in Slots : Live(i) => wait[i] > -MaxLate
  /\ now' = (now + 1) % TimeMod
  /\ passed' = passed + 1
  /\ wait' = [i \in Slots |-> IF Live(i) THEN wait[i] - 1 ELSE 0]
  /\ UNCHANGED <<table, current_token, last_execution_time, task, watched>>

Init ==
  /\ table = [i \in Slots |-> FreeEntry]
  /\ current_token = 0
  /\ now = 0 /\ last_execution_time = 0
  /\ task = [pc |-> "idle", i |-> 0, now |-> 0, token |-> 0]
  /\ wait = [i \in Slots |-> 0]
  /\ passed = 0
  /\ watched = TokenMod

Next ==
  \/ \E d \in Delays, cb \in Callbacks : DeferExec(d, cb)
  \/ \E t \in Tokens, d \in Delays : ExtendDeferredExec(t, d)
  \/ \E t \in Tokens : CancelDeferredExec(t)
  \/ TaskBegin \/ TaskInvoke \/ TaskSkip \/ TaskEnd
  \/ \E d \in Delays \cup {0} : CallbackReturn(d)
  \/ Tick

Spec == Init /\ [][Next]_vars

\* The main loop calls the task for ever, callbacks return and time passes;
\* nothing obliges a client to call the API.
Fairness ==
  /\ WF_vars(TaskBegin) /\ WF_vars(TaskInvoke) /\ WF_vars(TaskSkip) /\ WF_vars(TaskEnd)
  /\ WF_vars(\E d \in Delays \cup {0} : CallbackReturn(d))
  /\ WF_vars(Tick)

FairSpec == Spec /\ Fairness

-----------------------------------------------------------------------------
(* Properties.                                                             *)

\* Type invariant: tokens and times keep to their 8 and 32 bits however often they
\* wrap, and the scan stays within one slot past the table.
TypeOK ==
  /\ table \in [Slots -> Entry]
  /\ current_token \in Tokens
  /\ now \in 0 .. TimeMod - 1 /\ last_execution_time \in 0 .. TimeMod - 1
  /\ task \in [pc : {"idle", "scan", "callback"}, i : 0 .. TableCount + 1,
               now : 0 .. TimeMod - 1, token : Tokens]
  /\ wait \in [Slots -> Int] /\ passed \in Nat
  /\ watched \in Nat

\* A token names at most one queued executor, whatever the order of queueing,
\* cancelling and running and however often the 8-bit counter has wrapped: an
\* extend or cancel finds the executor it was given for.
TokensUnique ==
  \A i, j \in Slots : Live(i) /\ table[i].token = table[j].token => i = j

\* The task calls entry->callback without a null check: a slot with a token
\* has a callback, and a slot without one has been wiped completely.
NoNullCallback ==
  \A i \in Slots : IF Live(i) THEN table[i].callback \in Callbacks
                   ELSE table[i] = FreeEntry

\* A callback is entered only when the whole delay has really elapsed, even
\* across a wrap of the timer, and a pass steps over a queued executor only
\* if it was not due when the pass began.
FiresExactlyWhenDue ==
  [][/\ TaskInvoke => wait[task.i] <= 0
     /\ TaskSkip => ~Live(task.i) \/ wait[task.i] + TimerDiff(now, task.now) > 0]_vars

\* Token 1, which stands for any, is handed out again only after at least
\* TokenMod - 1 - TableCount others have been: a stale token kept by a client
\* stays harmless that long.
TokenReuseDistance ==
  [][\A i \in Slots : ~Live(i) /\ table'[i].token = 1 =>
       watched >= TokenMod - 1 - TableCount]_vars

\* An executor that has become due is run, unless it is extended or cancelled
\* first.
DueIsServed ==
  \A i \in Slots :
    (Live(i) /\ wait[i] <= 0)
      ~> (~Live(i) \/ wait[i] > 0 \/ (task.pc = "callback" /\ task.i = i))
=============================================================================
