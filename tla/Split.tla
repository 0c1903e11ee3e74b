------------------------------- MODULE Split --------------------------------
(***************************************************************************)
(* The link between the halves of a split keyboard: quantum/split_common/  *)
(* transactions.c, transport.c and split_util.c, with matrix_post_scan of  *)
(* quantum/matrix_common.c.  The master reads the slave's matrix, guarded  *)
(* by a checksum, and writes the state of the host LEDs; both sides work   *)
(* on their own copy of split_shmem.  Every transfer is a step, so that    *)
(* the slave may scan, or the link change, between any two of them.        *)
(***************************************************************************)
EXTENDS Integers, FiniteSets

CONSTANTS
  Matrix,          \* matrices of one half; 0 is the one with no key down
  SlaveMatrix,     \* those the slave's keys produce
  CRC,             \* crc8 of a matrix
  Leds,            \* states of the host LEDs; 0 is the one after reset
  Retries,         \* attempts at a handler while connected (10)
  SPLIT_MAX_CONNECTION_ERRORS,
  SPLIT_CONNECTION_CHECK_TIMEOUT,
  FORCED_SYNC_THROTTLE_MS,
  ErrorCap         \* the largest value of connection_errors (255)

ASSUME DataAssumption ==
  /\ 0 \in SlaveMatrix /\ SlaveMatrix \subseteq Matrix /\ 0 \in Leds
  /\ DOMAIN CRC = Matrix
ASSUME BoundAssumption ==
  /\ {Retries, SPLIT_MAX_CONNECTION_ERRORS, ErrorCap} \subseteq Nat \ {0}
  /\ {SPLIT_CONNECTION_CHECK_TIMEOUT, FORCED_SYNC_THROTTLE_MS} \subseteq Nat
  /\ SPLIT_MAX_CONNECTION_ERRORS <= ErrorCap

VARIABLES
  link,    \* "up", "down", or "noisy": transfers may fail or be damaged
  slave,   \* the slave: its debounced keys, its copy of split_shmem (matrix,
           \* checksum, led_state), and the LED state it shows
  shmem,   \* the master's copy of split_shmem: matrix, led_state
  leds,    \* the master: host_keyboard_leds()
  other,   \* the master: the rows of the other half in matrix
  last,    \* last_matrix and last_connected
  errors,  \* connection_errors
  age,     \* time since each last_update and since connection_check_timer,
           \* as far as it matters
  at,      \* where transactions_master is: the step, attempts left, the
           \* checksum it has read
  real     \* ghost: checksums of the matrices the slave has published; none at first

vars == <<link, slave, shmem, leds, other, last, errors, age, at, real>>

is_transport_connected(e) == e < SPLIT_MAX_CONNECTION_ERRORS

\* Mutant: nothing is sent or read again without a reason.
Due_Never(a) == FALSE

\* timer_elapsed32(last_update) >= FORCED_SYNC_THROTTLE_MS.
Due(a) == a >= FORCED_SYNC_THROTTLE_MS

\* Attempts at a handler.
Attempts == IF is_transport_connected(errors) THEN Retries ELSE 1

\* The checksum byte of a split_shmem that its slave has not filled yet.  It is not
\* the checksum of the empty matrix: crc8 starts from 0xff.
Blank == 0

Idle == [pc |-> "idle", tries |-> 0, sum |-> Blank]
Enter(handler) == [pc |-> handler, tries |-> Attempts, sum |-> Blank]

-----------------------------------------------------------------------------
(* The end of a scan of the master.                                        *)

\* Mutant: the other half keeps its keys.
matrix_post_scan_Keeps(connected, m) ==
  /\ other' = IF connected THEN m ELSE other
  /\ last' = [last EXCEPT !.connected = connected, !.matrix = m]

\* matrix_post_scan, after transport_master_if_connected has returned
\* connected and left m in slave_matrix.
matrix_post_scan(connected, m) ==
  /\ other' = IF connected THEN m ELSE IF last.connected THEN 0 ELSE other
  /\ last' = [last EXCEPT !.connected = connected, !.matrix = m]

\* Mutant: the error counter may wrap.
CountError_Wraps(e) == IF e < ErrorCap + 1 THEN e + 1 ELSE 0

CountError(e) == IF e < ErrorCap THEN e + 1 ELSE e

\* The rest of transport_master_if_connected, with m as the last good matrix.
\* Without a timeout a failure is counted and forgotten at once.
EndScan(okay, m) ==
  LET e == IF okay \/ SPLIT_CONNECTION_CHECK_TIMEOUT = 0 THEN 0 ELSE CountError(errors) IN
  /\ at' = Idle
  /\ errors' = e
  /\ age' = IF is_transport_connected(e) THEN age ELSE [age EXCEPT !.check = 0]
  /\ matrix_post_scan(is_transport_connected(e), m)

\* transaction_handler_master: another attempt, or none are left.
Retry(handler, m) ==
  IF at.tries > 1
  THEN /\ at' = [pc |-> handler, tries |-> at.tries - 1, sum |-> Blank]
       /\ last' = [last EXCEPT !.matrix = m]
       /\ UNCHANGED <<other, errors, age>>
  ELSE EndScan(FALSE, m)

-----------------------------------------------------------------------------
(* The master.                                                             *)

\* The start of transport_master_if_connected.
StartScan ==
  /\ at.pc = "idle"
  /\ IF ~is_transport_connected(errors) /\ age.check < SPLIT_CONNECTION_CHECK_TIMEOUT
     THEN matrix_post_scan(FALSE, last.matrix) /\ UNCHANGED at
     ELSE at' = Enter("sum") /\ UNCHANGED <<other, last>>
  /\ UNCHANGED <<link, slave, shmem, leds, errors, age, real>>

\* read_if_checksum_mismatch for the slave's matrix: the checksum.  If it is
\* that of the copy at hand, and the copy is not old, the copy stands.
ReadChecksum(ok) ==
  /\ at.pc = "sum"
  /\ ok => link # "down"
  /\ ~ok => link # "up"
  /\ IF ~ok THEN Retry("sum", last.matrix)
     ELSE IF Due(age.matrix) \/ slave.checksum # CRC[shmem.matrix]
     THEN /\ at' = [at EXCEPT !.pc = "data", !.sum = slave.checksum]
          /\ UNCHANGED <<other, last, errors, age>>
     ELSE /\ at' = Enter("leds")
          /\ last' = [last EXCEPT !.matrix = shmem.matrix]
          /\ UNCHANGED <<other, errors, age>>
  /\ UNCHANGED <<link, slave, shmem, leds, real>>

\* Mutant: data that arrived is taken for what it is.
Accepted_Unchecked(m) == TRUE

Accepted(m) == at.sum = CRC[m]

\* ... and the matrix m that arrives in shmem, damaged or cut short when the
\* link is not up; ok is what the transport says of it.
ReadData(ok, m) ==
  /\ at.pc = "data"
  /\ link = "up" => ok
  /\ link = "down" => ~ok
  /\ link # "noisy" => m = IF ok THEN slave.matrix ELSE shmem.matrix
  /\ shmem' = [shmem EXCEPT !.matrix = m]
  /\ IF ok /\ Accepted(m)
     THEN /\ at' = Enter("leds")
          /\ last' = [last EXCEPT !.matrix = m]
          /\ age' = [age EXCEPT !.matrix = 0]
          /\ UNCHANGED <<other, errors>>
     ELSE Retry("sum", last.matrix)
  /\ UNCHANGED <<link, slave, leds, real>>

\* led_state_handlers_master: send_if_data_mismatch.  The value goes into
\* shmem before it is sent, so a second attempt finds no mismatch.  There is
\* no acknowledgement: ok tells that the slave was there, got what it received.
led_state_handlers_master(ok, got) ==
  /\ at.pc = "leds"
  /\ IF ~Due(age.leds) /\ leds = shmem.leds
     THEN /\ EndScan(TRUE, last.matrix)
          /\ ok /\ got = slave.leds
          /\ UNCHANGED <<slave, shmem>>
     ELSE /\ link = "up" => ok
          /\ link = "down" => ~ok
          /\ link # "noisy" => got = IF ok THEN leds ELSE slave.leds
          /\ shmem' = [shmem EXCEPT !.leds = leds]
          /\ slave' = [slave EXCEPT !.leds = got]
          /\ IF ok THEN /\ at' = Idle /\ errors' = 0
                        /\ age' = [age EXCEPT !.leds = 0]
                        /\ matrix_post_scan(TRUE, last.matrix)
                   ELSE Retry("leds", last.matrix)
  /\ UNCHANGED <<link, leds, real>>

MasterStep ==
  \/ StartScan
  \/ \E ok \in BOOLEAN : ReadChecksum(ok)
  \/ \E ok \in BOOLEAN, m \in Matrix : ReadData(ok, m)
  \/ \E ok \in BOOLEAN, got \in Leds : led_state_handlers_master(ok, got)

-----------------------------------------------------------------------------
(* The slave and the surroundings.                                         *)

\* transactions_slave: slave_matrix_handlers_slave, led_state_handlers_slave.
transactions_slave ==
  /\ slave' = [slave EXCEPT !.matrix = slave.keys, !.checksum = CRC[slave.keys],
                            !.shown = slave.leds]
  /\ real' = real \cup {CRC[slave.keys]}
  /\ UNCHANGED <<link, shmem, leds, other, last, errors, age, at>>

\* The slave starts anew, with an empty split_shmem: until its first scan its
\* checksum byte does not belong to its matrix.
SlaveReset ==
  /\ link # "up"
  /\ slave' = [slave EXCEPT !.matrix = 0, !.checksum = Blank, !.leds = 0, !.shown = 0]
  /\ UNCHANGED <<link, shmem, leds, other, last, errors, age, at, real>>

Keys ==
  /\ \E k \in SlaveMatrix : slave' = [slave EXCEPT !.keys = k]
  /\ UNCHANGED <<link, shmem, leds, other, last, errors, age, at, real>>

HostLeds ==
  /\ leds' \in Leds
  /\ UNCHANGED <<link, slave, shmem, other, last, errors, age, at, real>>

Link ==
  /\ link' \in {"up", "down", "noisy"}
  /\ UNCHANGED <<slave, shmem, leds, other, last, errors, age, at, real>>

Older(a, limit) == IF a < limit THEN a + 1 ELSE a

\* A millisecond passes.
Time ==
  /\ age' = [matrix |-> Older(age.matrix, FORCED_SYNC_THROTTLE_MS),
             leds   |-> Older(age.leds, FORCED_SYNC_THROTTLE_MS),
             check  |-> Older(age.check, SPLIT_CONNECTION_CHECK_TIMEOUT)]
  /\ UNCHANGED <<link, slave, shmem, leds, other, last, errors, at, real>>

Init ==
  /\ link \in {"up", "down"}
  /\ slave = [keys |-> 0, matrix |-> 0, checksum |-> Blank, leds |-> 0, shown |-> 0]
  /\ shmem = [matrix |-> 0, leds |-> 0] /\ leds = 0 /\ other = 0
  /\ last = [matrix |-> 0, connected |-> FALSE] /\ errors = 0
  /\ age = [matrix |-> 0, leds |-> 0, check |-> 0] /\ at = Idle /\ real = {}

Next ==
  MasterStep \/ transactions_slave \/ SlaveReset \/ Keys \/ HostLeds \/ Link \/ Time

\* Both halves keep scanning and time keeps passing.
Spec ==
  Init /\ [][Next]_vars
       /\ WF_vars(MasterStep) /\ WF_vars(transactions_slave) /\ WF_vars(Time)

-----------------------------------------------------------------------------
(* Properties.                                                             *)

\* The checksums the master may read.
Sums == {CRC[m] : m \in SlaveMatrix} \cup {Blank}

\* Type invariant: connection_errors stays within its byte, the attempts within
\* their number, and the checksum at hand is one a matrix of the slave can have or
\* that of a slave that has not scanned.
TypeOK ==
  /\ link \in {"up", "down", "noisy"}
  /\ slave \in [keys : SlaveMatrix, matrix : SlaveMatrix, leds : Leds, shown : Leds,
                checksum : Sums]
  /\ shmem \in [matrix : Matrix, leds : Leds] /\ leds \in Leds /\ other \in Matrix
  /\ last \in [matrix : Matrix, connected : BOOLEAN] /\ errors \in 0 .. ErrorCap
  /\ age \in [matrix : 0 .. FORCED_SYNC_THROTTLE_MS, leds : 0 .. FORCED_SYNC_THROTTLE_MS,
              check : 0 .. SPLIT_CONNECTION_CHECK_TIMEOUT]
  /\ at \in [pc : {"idle", "sum", "data", "leds"}, tries : 0 .. Retries, sum : Sums]

\* matrix_post_scan releases the keys of a half that is gone: while the
\* transport counts as disconnected none of them is down ("reset other half
\* when disconnected").
DisconnectedIsReleased == ~is_transport_connected(errors) => other = 0

\* However transfers fail, are damaged, or straddle a scan of the slave, the
\* master shows no key, or a matrix with a checksum the slave has published: what
\* a broken transfer left in split_shmem is never taken for the slave's keys.  The
\* one other checksum is that of a slave that has not scanned, which can vouch for
\* damaged data.
OnlyRealKeys == other # 0 => CRC[other] \in real \cup {Blank}

\* Once the link stays up and nothing changes, the master shows the slave's
\* keys and the slave the master's LEDs, also when checksums coincide, when a
\* failed transfer left the copies in split_shmem looking equal, or when the
\* slave was reset.
Converges ==
  \A k \in SlaveMatrix, l \in Leds :
    <>[](link = "up" /\ slave.keys = k /\ leds = l) => <>[](other = k /\ slave.shown = l)
=============================================================================
