# Formal models of the ZSA QMK firmware

TLA+ models of the core logic of this keyboard firmware (a fork of QMK used by
the ZSA keyboards), the TLC runs that check them on small instances, and TLAPS
proofs of the properties that hold for every instance.

## 1. The system

One thread runs `main.c`: it initialises the keyboard and then calls
`protocol_task` and `housekeeping_task` for ever.  Each turn scans the matrix,
debounces it, turns every changed key into an event, runs the event through the
feature processors and finally through the action code, which edits the layer
state and the HID report.  Everything that looks concurrent is interleaving on
that thread (a callback in the middle of a table scan, a key event while another
one is still undecided), the millisecond timer moving underneath, the second
half of a split keyboard, the host, and loss of power between two flash writes.

| component | source | state | operations | what is hard |
|---|---|---|---|---|
| deferred execution | `quantum/deferred_exec.c` | executor table, 8-bit token counter, time of last pass | defer, extend, cancel, task | callbacks change the table under the scan; tokens and timer wrap |
| wear-levelled EEPROM | `quantum/wear_leveling/` | RAM cache, consolidated image, write log, lock | init, write, read, erase | power loss between backing-store writes, torn log entries, failing driver, log full |
| debounce | `quantum/debounce/` | per-key/row counters, raw and cooked matrix | `debounce` per scan | bounces at the window's edge, counters of 7 or 8 bits, scans further apart than a counter can hold |
| tap/hold decision | `quantum/action_tapping.c` | tapping key, ring of waiting events | `action_tapping_process` | order of interleaved presses and releases, timeouts, ring full |
| actions, layers, modifiers | `quantum/action.c`, `action_layer.c`, `action_util.c` | layer masks, oneshot state, mods, report | `process_action`, `layer_*`, oneshot | a release must undo what its press did although the layer has changed in between |
| layer lock, key lock, caps word | `quantum/layer_lock.c`, `process_keycode/` | lock masks, timers | toggles, per-event filters | lock and layer state drifting apart |
| combos, key overrides, auto shift, tap dance, achordion, leader, dynamic macro, secure, repeat key | `quantum/process_keycode/`, `quantum/*.c` | feature buffers and timers | per-event filters and tasks | events buffered and replayed later, timeouts racing events |
| split keyboard | `quantum/split_common/` | shared memory, checksums, connection error count | transactions, slave handlers | lost or corrupted transfers, disconnect and reconnect |
| encoders | `quantum/encoder.c` | quadrature state, event queue | update, drain | queue full |
| Oryx raw HID protocol | `keyboards/zsa/common/oryx.c` | pairing state, live-training flags | receive handler, layer/key events | stale pairing after the host goes away |
| EEPROM layout | `quantum/eeconfig.c`, `quantum/dynamic_keymap.c`, `quantum/via.c`, `nvm` | magic number, stored settings | init, update, macro send | reset half way, bounds of host-given offsets |
| timer, drivers, LED/RGB effects, painter, audio, OLED, pointing devices, USB stacks, CLI | `platforms`, `drivers`, `tmk_core`, `quantum/rgb_matrix`, `lib/python` | hardware, pixels, host tools | | I/O and rendering, not control logic |

What makes the modelled components correct, in short: a deferred executor runs
once its whole delay has passed and under the token its client holds; the EEPROM
reads the same before and after a restart; a key event is neither lost for good
nor reported too early by debouncing; the tap-hold decision changes when and as
what a key is processed, never whether its release undoes its press; layers end
with the keys, one-shot taps and locks that turned them on; a chord swallows no
key but its own; and the halves of a split keyboard agree in the end, whatever
the cable does.  The
hazards these properties are aimed at are listed in `PROJECT.json`, each at its
source line.

## 2. Modules

| module | models | checked by |
|---|---|---|
| `DeferredExec` | `quantum/deferred_exec.c` | `deferred_exec`; proved in `DeferredExecProofs` |
| `WearLeveling` | `quantum/wear_leveling/wear_leveling.c`, `_internal.h` | `wl_sizes`, `wl_8byte`, `wl_retry`, `wl_torn_elsewhere`; proved in `WearLevelingProofs` |
| `Eeprom` | nothing: the promise of wear levelling to its clients | implemented by `WearLeveling` (`WearLevelingEeprom`), run `wl_8byte`, proved in `WearLevelingProofs` |
| `Debounce` | `matrix_scan` of `quantum/matrix.c` and the six files of `quantum/debounce/` | `debounce`; proved in `DebounceProofs` |
| `Combo` | `quantum/process_keycode/process_combo.c` | `combo`, `combo_stale`; proved in `ComboProofs` |
| `Tapping` | `quantum/action_tapping.c` and the calls into it and out of it | `tapping`, `tapping_stuck`; proved in `TappingProofs` |
| `Layers` | `quantum/action_layer.c`, the layer actions of `action.c`, one-shot layers of `action_util.c`, `layer_lock.c`, `process_layer_lock.c`, `process_tri_layer.c` | `layers`; proved in `LayersProofs` |
| `Split` | `quantum/split_common/` (`transactions.c`, `transport.c`, `split_util.c`), `matrix_post_scan` of `matrix_common.c` | `split`; proved in `SplitProofs` |
| `OrderLemmas` | nothing: the least-element principle and the arithmetic of wrapping timers, for the proofs | |

An `MC` module next to each gives the constants values.  A definition whose name
has a suffix after an underscore, under a comment that begins with "Mutant:", is
a plausible bug in the definition that follows; a property is kept only if one
of these bugs violates it.  Variables marked *ghost* are not in the code; they
record history for the properties and never influence a step.

### DeferredExec

`table`, `current_token` and `last_execution_time` are the variables of the C
file; `task` holds the locals of `deferred_exec_advanced_task` (slot, the time
read at its start, the token remembered around the callback).  `DeferExec`,
`ExtendDeferredExec` and `CancelDeferredExec` are the API, enabled in the main
loop and inside a callback.  The task is cut at the points where other code
runs: `TaskBegin`, `TaskInvoke`/`TaskSkip` per slot, `CallbackReturn`,
`TaskEnd`.  `Tick` is the timer.  The value a callback returns is arbitrary.
Ghosts: `wait` (true time to each trigger, no wrapping), `passed`, `watched`.

### WearLeveling

The store is `image`, `checksum` and `log`, a sequence of slots of the write
size; entries are encoded into bytes and decoded as `wear_leveling_internal.h`
does, with the radix of an address byte and the limits of the short formats as
constants so that every format occurs in a small address space.  The FNV hash is
modelled as the data it is computed from (no collisions).  Each call is cut at
every backing-store operation (`op.pc`): a `PowerLoss` is possible before each,
and the driver may fail each one in `Faults`.  Reads of the store inside
`wear_leveling_init` change nothing and are one step with it; what a failing read
does at each slot is enumerated.  `dirty` (ghost) collects the addresses whose
write was reported as failed.

`Eeprom` says what is left of this for a client: reads return `seen`, a restart
brings back `kept`, and a call may lose no byte but the ones it writes, unless it
rewrites the store, which leaves all of the data or none, or the driver fails.
`WearLevelingEeprom` maps the detailed state to it: `kept` is what playback would
read off the store in this very state, `doubt` is `dirty`.  `MCWearLevelingSizes`
runs the 2-byte and the 4-byte store next to each other in one state graph.

### Debounce

A build links one algorithm; `build` is chosen in `Init` and never changes.
`matrix_scan(curr)` is one scan that finds the switches in an arbitrary state
`curr`, followed by `debounce`, and arbitrary time (up to `MaxGap`) passes
between scans.  A matrix is the set of keys that are down; a counter belongs to
a group of keys, which is one key or one row.  `sym_eager_pk` and `sym_eager_pr`
are the same algorithm over different groups, `Eager`.  Ghosts: for how long
each switch and each debounced key has had its value.

### Tapping

`process_tapping(s, r)` maps a state (tapping key, buffer, records handed to
`process_record` so far and what they have switched on) and a record to what the C
function leaves of them and whether it consumed the record; its cases follow the nesting of the C function
(`Idle`, `Unsettled`, `Tapped`, `Released`).  `action_tapping_process` adds the
buffering, the overflow and the loop over the buffer (`DrainTurn` is one turn of it).
The ghost `lost` is set by an overflow and stays while keys are down or layers are
on that the overflow left on.  The actions are
`KeyEvent`, `TickEvent` and `Pass`.  A `setup` fixes what the keys are mapped to
and which have `PERMISSIVE_HOLD` or `HOLD_ON_OTHER_KEY_PRESS` (the per-key
options).  Of `process_record` the model keeps what a record switches on or off
(`active`), and that `process_action` takes an interrupted tap back (`Processed`).

### Combo

`q` is the state of `process_combo.c`: the flags and key bits of every combo, the
ring `combo_buffer` as the sequence from read to write index (an append that makes
the two meet leaves it empty), `key_buffer` with the key events waiting in it, the
timer and `longest_term`; and what has come out (`keysOut`, `combosOut`).  `Press`
and `Release` are `process_combo` for one event, with `process_single_combo` for
every combo in turn; `combo_task` runs at least once per millisecond.  The order
of the keys in a combo does not matter without `COMBO_MUST_PRESS_IN_ORDER`, so a
combo is a set of keys.  `lost` (ghost) collects presses that `apply_combo` turned
into ticks without a combo, or that found `key_buffer` full.

### Layers

An event enters after the tap-hold decision, with any tap count that decision may
give it (`TapCounts`), and is one step: `process_record_quantum` (tri layer, layer
lock, one-shot toggle), then `process_action`.  The operations are functions from
a firmware state to a firmware state, in the order the code calls them;
`PressRecord` includes the release the code generates inside the press of the key
that ends a one-shot layer.  Layer masks are sets.  `Keymap` is a constant: every
kind of layer key occurs in the instance, on several layers.  `ONESHOT_TAP_TOGGLE`
is not defined.

### Split

Every transfer of the master is a step of its own (`ReadChecksum`, `ReadData`,
`led_state_handlers_master`), so that the slave may scan, restart, or the link
change between any two.  On an up link transfers succeed, on a down link they
fail; on a noisy one each may fail or succeed, and data may arrive as any matrix.
A checksum byte that is reported as read is taken to be right.  The slave
publishes its matrix and checksum in one step (`split_shared_memory_lock`).
`real` (ghost) holds the checksums the slave has published.  LED state stands for
the handlers that write when the value differs, the matrix for those that read
under a checksum.

Shared memory starts zeroed, its checksum byte included (`Blank`).  That byte is not
the checksum of the empty matrix next to it: `crc8` starts from 0xff (`crc.c:48`), and
the checksum function is an arbitrary constant here.  Until the slave has scanned
once, at power-on or after a restart, the master finds a mismatch, reads a matrix that
the byte does not vouch for, and counts an error.  Data damaged into a matrix whose
checksum happens to be 0 passes in that time, which is why `OnlyRealKeys` and `TypeOK`
allow `Blank` besides the published checksums.  Where `SPLIT_CONNECTION_CHECK_TIMEOUT`
is 0 the connection never counts as broken.

## 3. Runs

| run | result | what it shows |
|---|---|---|
| `deferred_exec` | passes | tokens unique, no null callback, fires exactly when due, token reuse distance, due executors are served |
| `wl_sizes` | passes | 2-byte and 4-byte stores, all entry formats: durable, writes in bounds, between calls no entry reaches beyond the log, locked, on erased slots, clean consolidation; with 4 bytes a loss is local |
| `wl_8byte` | passes | with a failing driver and power losses the store implements `Eeprom` |
| `wl_retry` | violation | a repeated write reports success and stores nothing |
| `wl_torn_elsewhere` | violation | a torn 2-byte entry damages another address |
| `debounce` | passes | all six algorithms: stable, quiet, prompt, reported, settling |
| `tapping` | passes | three keyboards with one tap-hold key: no stuck keys, presses in order, releases paired with them, nothing waits needlessly; these and two mod-taps: buffer in bounds, every press decided |
| `tapping_stuck` | violation | a press overtaken by its own release |
| `layers` | passes | no stuck code or modifier, locks hold, momentary layers end when the keys stay up |
| `combo` | passes | overlapping chords: none stuck, no press lost, every press decided |
| `combo_stale` | violation | a combo left in the ring swallows a later press |
| `split` | passes | released on disconnection, only real keys, halves converge |

Bounds, and why they are enough:

- *DeferredExec*: two slots, tokens 1 to 4, a timer of 9 values, delays 1 and 2.
  Tokens run round, both slots fill up, the timer wraps with executors queued,
  callbacks outlast a millisecond (`MaxGap` 2) and an executor can be late
  (`MaxLate`).  One token (1) is watched for reuse; the search for a token treats
  all but 0 alike.
- *WearLeveling*: four or seven logical bytes, four or five slots, up to two power
  losses and two failures.  The writes cover every format, entries of one to four
  words, a write too long for one entry, and consolidation in the middle of a
  write.  `FirstSector = LogSlots`: one erase empties the log; see section 5 for
  what happens otherwise.
- *Debounce*: two keys, in one row or in two, scans up to 3 ms apart with a debounce
  time and counter limit of 2 ms, so that a scan gap exceeds both, and a timer of
  6 values.
- *Tapping*: three keys, a tapping term of three ticks, a ring of four (three
  usable), tap counts to 2, a timer of 6 values.  `NoStuckKeys`, `WaitsForTapping`,
  `ReleaseMatchesPress` and `PressOrder` speak of keyboards with one tap-hold key
  (`OneTapKey`).  For those the first three are proved for every ring, term and number
  of keys; `PressOrder` was also checked with a term of four and a ring of five.  With
  two tap-hold keys all four are false (section 5), on larger rings than the one here
  even without options, so nothing is claimed of them there.  The keyboard with two
  mod-taps is in the run for `TypeOK`, proved for every keyboard, and for
  `EveryPressIsDecided`; that no press waits longer than the term and a tick was also
  checked there with a term of five and a ring of six.  Up to three key events between
  two ticks, one with `PERMISSIVE_HOLD` and with two mod-taps; between two tick events
  a key moves at most once, because debouncing does not let it move faster.
- *Combo*: four chords of two and three keys that share keys, one for holds and one
  for taps only, a plain key and the toggle key, terms of 1 and 2 ms, a timer of 4
  values.  All chords share a key, because chords apart run into the finding; the
  other run has those.  The buffers are large enough for all keys: section 5 has
  what happens when they are not.  Both runs restart the timer with every key, as
  without `COMBO_STRICT_TIMER`.
- *Layers*: four keys on five layers with all fifteen kinds of key, two taps to
  toggle, both time limits one tick.
- *Split*: four matrices: the empty one and another with the same checksum, which is
  not the blank byte; one whose checksum is the blank byte; and one that only a damaged
  transfer produces.  Two LED states, two attempts, disconnection after two errors,
  counter limit two.

Deadlock is checked in every run; none may stop.

Fairness.  Liveness is claimed under weak fairness of the main loop and of the
timer only: `keyboard_task` scans and calls the deferred executor for ever and
`matrix_task` generates a tick event, at most one per millisecond, in every turn
in which the debounced matrix has not changed.  That such turns keep coming is an
assumption: with `MATRIX_HAS_GHOST` a ghosted row stays different from
`matrix_previous`, and no tick is generated until the ghost is gone.  Callbacks are assumed to return.  In `Split` both halves keep scanning and time passes; nothing is
assumed of the link, and `Converges` is conditional: *if* it stays up and the
inputs stay put.  No client call, key event or
movement of a switch is assumed.  `Settles` is conditional: *if* the switches
stop moving, and `HandsOffEndsLayers`: *if* all keys stay up.  `WF_lag` in `Tapping` is the fairness of the two actions that
change `lag`.

## 4. Proofs

Every theorem holds for all values of the constants that satisfy the `ASSUME`s of
its module: any number of slots, keys, layers, matrices and bytes, any width of
tokens and timers, any keymap, any checksum function.

| module | theorem | states | assumed besides |
|---|---|---|---|
| `DeferredExecProofs` | `TableTypes` | always `TypeOK` | |
| | `TokensStayUnique` | always `TokensUnique` | |
| | `CallbacksNeverNull` | always `NoNullCallback` | |
| | `FiresWhenDue` | `FiresExactlyWhenDue` | |
| | `TokensReusedLate` | `TokenReuseDistance` | |
| `DebounceProofs` | `DebounceTypes` | always `TypeOK` | |
| | `DeferredIsStable` | `DeferStable` | |
| | `EagerIsQuiet` | `EagerQuiet` | |
| | `EagerIsPrompt` | `EagerPrompt` | |
| | `AsymReleaseIsStable` | `ReleaseIsStable` | |
| | `ChangesAreReported` | `ReportsChanges` | |
| `LayersProofs` | `LayersTypes` | always `TypeOK` | |
| | `NothingStuck` | always `NoStuckKeys` | |
| | `LocksAlwaysHold` | `LocksHold` | |
| `SplitProofs` | `SplitTypes` | always `TypeOK` | |
| | `DisconnectedReleases` | always `DisconnectedIsReleased` | |
| | `RealKeysOnly` | always `OnlyRealKeys` | |
| `TappingProofs` | `TappingTypesHold` | always `TypeOK` | |
| | `NoKeyStaysOn` | always `NoStuckKeys` | |
| | `RecordsWaitForTapping` | always `WaitsForTapping` | |
| | `ReleasesGoToTheirPresses` | `ReleaseMatchesPress` | |
| `WearLevelingProofs` | `LockSafe` | always `LockDiscipline` | lock and unlock do not fail |
| | `BoundsSafe` | always `WritesInBounds` | erase does not fail |
| | `StoreTypes` | always `TypeOK` | 8-byte writes, one-step erase that does not fail |
| | `DataSurvives` | always `Durable` and `LossIsLocal` | the same |
| | `EepromImplemented` | `ImplementsEeprom`: the refinement of `Eeprom` | the same |
| `ComboProofs` | `BuffersInBounds` | always `TypeOK` | |
| | `NothingStaysDown` | always `NoStuckCombo` | `Roomy` |
| | `PressesAreNotLost` | always `NoLostPress` | `Roomy` |

*Deferred execution.*  The inductive invariant of the first three adds
`InCallback`: while a callback runs the task stands at a slot and remembers a
non-zero token.  Without it a return could re-arm an empty slot, which is exactly
the case of a callback that cancels itself.  `FiresWhenDue` rests on `TimeInv`: the
trigger time of every executor is the present time plus the ghost `wait`, modulo
the timer, and `wait` stays within the half of the timer's range in which the
signed difference is right.  The proof needed an assumption the model did not have:
a callback that extends its own executor and then returns a delay adds the two, so
the *sum* of two delays has to fit (`RangeAssumption`).  `ReuseInv` measures how far
the token counter has to go before it meets token 1 again: its distance, less the
tokens that are in the table ahead of it, is made of allocations.

*Debouncing.*  One invariant per algorithm ties the counters, which see only the
times of scans, to the ghosts `held` and `quiet`, which see every millisecond
(`GInv`, `PrInv`, `PkInv`, `EagerInv`, `AsymInv`; `CountInv` for the flag that skips
the updating of counters).  The promises are action properties; `NextInv` proves
them together with the invariant, one lemma per algorithm.

*Layers.*  `HeldInv` names, for every code and modifier that is down, a held key
whose release, looked up on the layer its press was cached with, takes it away.
That the release is looked up there is what `store_or_get_action` is for.

*Split.*  `ReleaseInv` follows `last_connected`: a disconnection that has been
noted has released the other half, and an error count that disconnects has been
noted in the same scan.  `RealInv` names all the places the rows of the other half
can come from: the last good matrix, the empty one, and the checksum that the data
of a transfer is held against, which the slave has published or not yet filled in
(`Vouched`).  It says nothing of the matrix in `split_shmem`,
where damaged data does end up: when the checksums agree there, the one read from
the slave vouches for it.  Nothing is assumed of the checksum function.

*Tap-hold.*  `NothingStaysOn` is false for arbitrary keyboards (section 5).
`OneTapKey`, the antecedent of the properties, is the condition: the keyboard has at
most one mod-tap or layer-tap and, if `PERMISSIVE_HOLD` is used, at most one key event
between two ticks; the options, terms, size of the buffer and all other keys are
arbitrary.  It is a predicate of `setup`, which never changes: the first three keyboards
of the run `tapping` satisfy it.  `OneKeyInv`, the inductive invariant on such
keyboards, relates the tapping key t, the buffer b, what is on and the keys
that are down:

- `KeysInv`: the last record of a key in b tells whether the key is down, what is
  on without a record in b belongs to a key that is down, and a press in b comes after
  a release of its key there or finds the key not on (`Opens`);
- `BufferInv`: the tap-hold key has no record but the last one;
- `StateInv`: for an unsettled t every record in b is of another key and within the
  term; for a tapped t the last record is its release; after its release b is empty;
- `EffectsInv`: a tap that is on is the one t stands for; a hold that is on ends with
  the release that is last in b, marked as a hold's, or comes;
- `Rests`: the first record in b cannot be processed yet, unless a nested tap has
  just decided t, which leaves b for the next tick while t is still down.

The loop over the buffer is a recursive function; as with playback below, the
least-element principle shows that every turn keeps the invariant (`TurnKeeps`,
`DrainKeeps`) and that the loop ends with an empty buffer or at a record that waits.
An overflow needs the set of layers it may leave on (`Left`), which the invariant
excepts until `lost` ends; so `NoStuckKeys` also says that an overflow leaves nothing
else on.

`ReleaseMatchesPress` speaks of all the records that one call hands on, so it is not
enough to know where the call ends.  `Emits` says that one call of `process_tapping`
hands on at most one record, and that this one `Fits`: a press finds nothing of its key
on, a release leaves nothing.  It follows from the invariant and from `Ready`, what the
record at hand requires of the effects that are on; for the head of the buffer `Ready`
is what `Opens` is for (`HeadReady`), for a new event it is that a key changes its
state with every event (`EventReady`).  `Matched` carries `Fits` through the turns of
the loop (`TurnEmits`, `DrainEmits`).  A step that ends `lost` seems to start with layers
an overflow has left on.  It does not: every key was up before it and nothing waited, so
that the call had no release to process; what was on is on still (`Kept`), and ending
`lost` requires that this is nothing (`NothingLeft`).

*Wear levelling, any write size.*  `LockInv` adds that an unlocked store is always
one the call in progress has promised to lock (`op.relock`); when locking itself may
fail the property is false.  `BoundsInv`: outside consolidation `write_address` is a
slot of the log.  The step for `wear_leveling_init` needs that playback ends at a
slot number, whatever it finds in the log; playback is a recursive function, and
this is shown for it by the least-element principle (`TurnsExist`, `PlaybackNext`)
in place of induction.

*Wear levelling, 8-byte writes.*  The refinement.  It goes
from bytes to steps: an entry decodes to the address, length and bytes it was made
of, for every radix of an address byte (`AddressParts`, `EntryHolds`); the words of
a write are entries that together put all of its bytes (`EncodingFacts`); playback
of a log of n entries behind which all is erased is the image with the n entries
applied in order and ends at slot n + 1 (`PlaybackFilled`); so an append adds one
entry to what a restart reads, a first erase leaves the image, and an image without
a checksum reads as zeros (`StoreAppend`, `StoreEmpty`, `StoreBlank`).  `StoreInv`
then says where a call stands:

- `LogInv`: the log is filled up to the append position, or the store is in doubt as
  a whole (a start that failed);
- `RewriteInv`: how much of the image a consolidation has written, without a checksum;
- `CallInv`: bytes a restart would not bring back are in doubt or being written;
- `WriteInv`: the words still to be appended encode the rest of the write, and the
  bytes before are in the store.

One lemma per action proves the invariant and the step of `Eeprom` it implements.
The hypotheses (`EightByteStore`) are needed.  Shorter writes tear entries: the run
`wl_torn_elsewhere` refutes `LossIsLocal` with 2 bytes.  After a failed erase the log
is neither full nor empty, and an erase in two steps leaves entries behind erased
slots (section 5).  All other faults, of reading, writing, locking and unlocking, are
allowed, and any number of power losses.

*Combos.*  `BuffersInBounds` needs no condition.  The other two properties are false
for arbitrary combos (section 5); `Roomy` is the condition, a predicate of the
constants that the run `combo` satisfies:

- every combo has at least two keys, because a combo of one key can fire without a
  key to release it;
- `key_buffer` holds all keys that are part of combos, and the ring as many combos as
  can be queued, with the place it leaves unused;
- every two combos share a key (`Sharing`), whichever of them are for holds or taps
  only; or no two do and none is for holds only (`Separate`).  In between, a combo that
  is given up behind the front of the ring stays there: `combo_stale` has combos that
  share a key next to one that does not, and a hold-only combo behind another one is
  dropped in the same way.

The inductive invariant `ComboInv` follows every key that is down to the one place
where it is accounted for:

- `BufferSound`: `key_buffer` holds presses of combo keys, each once, so that its
  length is their number and a further combo key always finds room;
- `KeysSound`: keys of a combo that has fired are neither in the buffer nor out, and
  one of them is still down; keys that another combo has noted wait in the buffer;
  queued combos share no key, have not fired, are not disabled and find all their keys
  in the buffer, so that `apply_combo` completes;
- `QueueSound`: a combo whose keys are all down has fired, is disabled or is queued;
- `DownSound`: what waits, is out or is noted belongs to keys that are down.

In the middle of an event it holds with exceptions: during a press the new key is
noted before it is in the buffer, during a release queued combos miss the key that goes
up.  `Pressing` and `Releasing` say so for the loop over the combos, whose turns are
followed with the induction principle `UpTo`; `Releasing` adds that a combo that has
answered for the release (`Spoken`) leaves no way for the key to be out afterwards,
which is why no release need reach the host.  `Settled` says what emptying the buffers
does, for `apply_combos`, for the flush without a queued combo and for switching combos
off.

Only model-checked, and why:

- liveness (`DueIsServed`, `Settles`, `EveryPressIsDecided`, `HandsOffEndsLayers`,
  `PressIsDecided`, `Converges`): TLAPS has no proof rules for fairness here;
- the 2-byte and 4-byte stores (`Sizes...`, `WideLossIsLocal`): entries of several
  words, which the playback lemmas above do not cover yet.  `ReadsInBounds` is checked
  there only: with 8-byte writes an entry is one word, and the bound of the playback
  loop is all there is to it;
- `PressOrder` of `Tapping`: it compares the ages of presses by the difference of two
  timer readings, which is right only while no record waits for half of the timer's
  range; the inductive invariant bounds no waiting time of the records yet.

## 5. What the models found

Disagreements between the code and what a comment, header or test says, each
with a run that shows it:

- *EEPROM, repeated write* (`wear_leveling.c:687`): the cache is changed before the
  driver fails, so that repeating the write finds nothing to do.
- *EEPROM, torn 2-byte entry* (`wear_leveling.c:521`): the low address byte of a
  torn entry is read as zero and other bytes are overwritten at the next start.
- *tap-hold, press overtaken* (`action_tapping.c:244`): with
  `HOLD_ON_OTHER_KEY_PRESS` and two tap-hold keys a press can be left in the buffer
  with no tapping key; the release that follows is processed first.

- *combos, stale ring entry* (`process_combo.c:292`): a combo disabled behind the
  front of the ring stays queued, is enabled again by `clear_combos`, and the next
  time combos are applied turns a single press of one of its keys into nothing.

Limits of the properties that pass, found by widening the constants, and other
things a maintainer should know:

- *deferred executor, token comes round* (`deferred_exec.c:136`): a callback that
  cancels and re-queues itself is recognised by its changed token; after 254
  allocations it may get the same one, and its return value is applied to the new
  executor;
- with `COMBO_BUFFER_LENGTH = 2` and two chords apart the full ring forgets both;
  their keys are sent one by one, but a release still counts as part of the chord
  and is swallowed: `NoStuckCombo` fails.  With the default of 4 this takes four
  chords at once;
- a chord key pressed when `timer_read()` is 0 starts no term and waits for the next
  key event; `PressIsDecided` excepts it;
- a callback that extends its own executor and returns a delay gets the sum of the
  two (`deferred_exec.c:146`); only the sum of two delays below half of the timer's
  range is safe;
- the header of layer lock lists `OSL(layer)` among the keys whose release leaves a
  locked layer on, but `process_layer_lock.c` handles `OSL` only through the one-shot
  state: while one-shot keys are disabled the release turns the layer off
  (`action.c:649`), locked or not (`LockExceptions`);
- a combo of one key that is tapped within its term is active with no key held, and
  nothing releases it;
- `TT` on a locked layer unlocks it with the press, and the release then toggles it
  on again; a second `OSL` pressed while the first is held leaves the layer of the
  first on; one-shot keys switched off while a one-shot layer is on leave it on
  (excepted in `HandsOffEndsLayers`); `TG` or `TT` pressed on a tapped one-shot layer
  is released twice and so toggles twice (`action.c:872`);
- a failed LED write is not retried: the value is in `split_shmem` before it is sent
  (`transport.c:107`), so the second attempt finds no mismatch and succeeds; the
  forced sync repairs it;
- read off the code, not modelled: the encoder drain command can be lost after the
  events were applied, or drain events that were not read (`transactions.c:258`); the
  split watchdog of the master stays done when the slave restarts, which then is
  never pinged and restarts every `SPLIT_WATCHDOG_TIMEOUT` unless the connection was
  seen to break (`split_util.c:106`);

- with `FirstSector < LogSlots` (erase in two sectors) a power loss between the
  two leaves log entries behind an empty first slot: `SizesWritesErasedSlots` fails;
- with `"erase"` in `Faults` the write after a failed consolidation is beyond the
  store: `WritesInBounds` fails, which is why `BoundsSafe` assumes it away;
- with 2-byte and with 4-byte writes, when power is lost after the first word of an
  entry that begins in the last slot, playback reads the rest of it beyond the store
  (`wear_leveling.c:512`), where the mock of the unit tests asserts "Address would
  result of out-of-bounds access" (`wear_leveling/tests/backing_mocks.cpp:119`).  TLC finds it
  as soon as `ReadsInBounds` is asked of every state; as stated it speaks of the store
  between calls, when no word of an entry is missing;
- after an overflow of the tapping buffer layers may stay on, because
  `clear_keyboard` clears none ("clear all", `action_tapping.c:140`); `NothingStaysOn`
  and `NoStuckKeys` except them, and claim that nothing else stays on;
- with `PERMISSIVE_HOLD` and more than one key event per tick, modifiers pressed
  again within one tick can change places, and a release that a decision left in the
  buffer can follow the next press of its key;
- two tap-hold keys can leave a key on without `PERMISSIVE_HOLD` and
  `HOLD_ON_OTHER_KEY_PRESS` too (found with `QUICK_TAP_TERM = 0`, a term of five ticks
  and a ring of six): one is held past its term while the other is tapped twice and a
  plain key is pressed; the loop then starts tapping again for the second press
  ("FIX: start new tap again", `action_tapping.c:583`) without `waiting_buffer_scan_tap`,
  stops at its release, and the release of the plain key overtakes the press that is
  still in the buffer.  The later press of a plain key overtakes it as well: with two
  tap-hold keys `WaitsForTapping`, `ReleaseMatchesPress` and `PressOrder` fail too.

## 6. Not modelled, and why

- Chordal Hold, Flow Tap, Retro Shift and speculative options of
  `action_tapping.c`: next along the plan; the cases they replace are modelled.
- What `process_action` does to reports, one-shot and weak modifiers: `Tapping` keeps
  only whether each effect is on, `Layers` which codes and modifiers are registered.
- Combo options that change which events a combo takes
  (`COMBO_MUST_PRESS_IN_ORDER`, `COMBO_SHOULD_TRIGGER`, `COMBO_PROCESS_KEY_RELEASE`)
  and events that come back into `process_combo` while the buffer is dumped.
- Split handlers other than matrix and LED state; most are instances of one of the
  two patterns.  Encoders, RPC and the watchdog are not.  The I2C transport.
- Builds in which `split_shared_memory_lock` does nothing: there a transfer may see
  half of the slave's copy.
- The flash drivers: modelled from their use, as operations that take effect as a
  whole or fail.  Programming a slot that is not blank fails.
- Reading pins, ghosting and the matrix of the other half: arbitrary input.
- Lighting, audio, displays, pointing devices, USB stacks, host tools: I/O,
  rendering or not firmware.

## 7. Plan

Done: the seven component modules above, the abstract EEPROM and the proof that the
8-byte store implements it, the safety properties of `DeferredExec`, `Debounce`,
`Layers` and `Split` as theorems, those of `Tapping` for keyboards with one tap-hold
key, those of `Combo` for combos that all share a key or none do.  Next, in this order:

1. *Proofs*: `PressOrder` for one tap-hold key, with the age of the records in the
   buffer; entries of several words (2-byte and 4-byte stores); `Combo` for combos that partly overlap, with
   the ring entries that stay behind as part of the invariant.
2. *Tapping*: Chordal Hold and Flow Tap as further setups; an abstract
   specification (each press is processed exactly once, in order, as a tap or a
   hold, and each release after it) with `Tapping` shown to implement it.
3. *Composition*: `Combo` in front of `Tapping` in front of `Layers`.
4. *Split*: the encoder handlers with the event queue of `encoder.c`, the watchdog.
5. *Tap dance*, *auto shift*, *Oryx* pairing.
