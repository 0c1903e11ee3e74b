---------------------------- MODULE SplitProofs -----------------------------
(***************************************************************************)
(* Proofs about the link between the halves: types, the keys of a half     *)
(* that is gone are released, and no broken transfer is taken for the      *)
(* slave's keys, for every set of matrices, every checksum function, every *)
(* number of retries and every limit of connection_errors.                 *)
(***************************************************************************)
EXTENDS Split, TLAPS

-----------------------------------------------------------------------------
(* Types.  They need no strengthening: every handler keeps them.           *)

\* The facts about the constants that the types rest on.
LEMMA ConstantTypes ==
  /\ 0 \in SlaveMatrix /\ 0 \in Matrix /\ 0 \in Leds /\ 0 \in Sums
  /\ \A m \in SlaveMatrix : m \in Matrix /\ CRC[m] \in Sums
  /\ Retries \in Nat \ {0} /\ ErrorCap \in Nat \ {0}
  /\ SPLIT_CONNECTION_CHECK_TIMEOUT \in Nat /\ FORCED_SYNC_THROTTLE_MS \in Nat
<1>1. 0 \in Sums
  BY DEF Sums, Blank
<1> QED BY <1>1, DataAssumption, BoundAssumption DEF Sums

\* The state that the end of a scan writes.
MasterTypes ==
  /\ other \in Matrix /\ last \in [matrix : Matrix, connected : BOOLEAN]
  /\ errors \in 0 .. ErrorCap
  /\ age \in [matrix : 0 .. FORCED_SYNC_THROTTLE_MS, leds : 0 .. FORCED_SYNC_THROTTLE_MS,
              check : 0 .. SPLIT_CONNECTION_CHECK_TIMEOUT]
  /\ at \in [pc : {"idle", "sum", "data", "leds"}, tries : 0 .. Retries, sum : Sums]

LEMMA IdleEnterTypes ==
  ASSUME NEW handler \in {"sum", "data", "leds"}
  PROVE  {Idle, Enter(handler)}
           \subseteq [pc : {"idle", "sum", "data", "leds"}, tries : 0 .. Retries, sum : Sums]
<1>1. Attempts \in 0 .. Retries /\ 0 \in 0 .. Retries
  BY ConstantTypes DEF Attempts
<1> QED BY <1>1, ConstantTypes DEF Idle, Enter, Blank

LEMMA PostScanTypes ==
  ASSUME MasterTypes, NEW connected \in BOOLEAN, NEW m \in Matrix,
         matrix_post_scan(connected, m)
  PROVE  other' \in Matrix /\ last' \in [matrix : Matrix, connected : BOOLEAN]
  BY ConstantTypes DEF matrix_post_scan, MasterTypes

LEMMA EndScanTypes ==
  ASSUME MasterTypes, NEW okay \in BOOLEAN, NEW m \in Matrix, EndScan(okay, m)
  PROVE  MasterTypes'
<1>1. at' \in [pc : {"idle", "sum", "data", "leds"}, tries : 0 .. Retries, sum : Sums]
  BY IdleEnterTypes DEF EndScan
<1>2. errors' \in 0 .. ErrorCap
  BY ConstantTypes DEF EndScan, CountError, MasterTypes
<1>3. /\ other' \in Matrix /\ last' \in [matrix : Matrix, connected : BOOLEAN]
  <2>1. \E e : matrix_post_scan(is_transport_connected(e), m)
    BY DEF EndScan
  <2>2. \A e : is_transport_connected(e) \in BOOLEAN
    BY DEF is_transport_connected
  <2> QED BY <2>1, <2>2, PostScanTypes
<1>4. age' \in [matrix : 0 .. FORCED_SYNC_THROTTLE_MS, leds : 0 .. FORCED_SYNC_THROTTLE_MS,
                check : 0 .. SPLIT_CONNECTION_CHECK_TIMEOUT]
  <2>1. age' = age \/ age' = [age EXCEPT !.check = 0]
    BY DEF EndScan
  <2>2. 0 \in 0 .. SPLIT_CONNECTION_CHECK_TIMEOUT
    BY ConstantTypes
  <2> QED BY <2>1, <2>2 DEF MasterTypes
<1> QED BY <1>1, <1>2, <1>3, <1>4 DEF MasterTypes

LEMMA RetryTypes ==
  ASSUME MasterTypes, NEW handler \in {"sum", "data", "leds"}, Retry(handler, last.matrix)
  PROVE  MasterTypes'
<1>0. last.matrix \in Matrix
  BY DEF MasterTypes
<1>1. CASE at.tries > 1
  <2>1. at' \in [pc : {"idle", "sum", "data", "leds"}, tries : 0 .. Retries, sum : Sums]
    <3>1. at.tries - 1 \in 0 .. Retries
      BY <1>1, ConstantTypes DEF MasterTypes
    <3>2. at' = [pc |-> handler, tries |-> at.tries - 1, sum |-> 0]
      BY <1>1 DEF Retry, Blank
    <3> QED BY <3>1, <3>2, ConstantTypes
  <2> QED BY <1>0, <1>1, <2>1 DEF Retry, MasterTypes
<1>2. CASE ~(at.tries > 1)
  BY <1>0, <1>2, EndScanTypes DEF Retry
<1> QED BY <1>1, <1>2

LEMMA MasterStepTypes ==
  ASSUME TypeOK, MasterStep
  PROVE  TypeOK'
<1>0. MasterTypes /\ last.matrix \in Matrix
  BY DEF TypeOK, MasterTypes
<1> SUFFICES /\ MasterTypes' /\ UNCHANGED <<link, leds>>
             /\ slave' \in [keys : SlaveMatrix, matrix : SlaveMatrix, leds : Leds,
                           shown : Leds, checksum : Sums]
             /\ shmem' \in [matrix : Matrix, leds : Leds]
  BY DEF TypeOK, MasterTypes
<1>1. CASE StartScan
  <2>1. UNCHANGED <<link, leds, slave, shmem, errors, age>>
    BY <1>1 DEF StartScan
  <2>2. at' \in {at, Enter("sum")}
    BY <1>1 DEF StartScan
  <2>3. /\ other' \in Matrix /\ last' \in [matrix : Matrix, connected : BOOLEAN]
    BY <1>0, <1>1, ConstantTypes DEF StartScan, matrix_post_scan, MasterTypes
  <2> QED BY <1>0, <2>1, <2>2, <2>3, IdleEnterTypes DEF MasterTypes, TypeOK
<1>2. ASSUME NEW ok \in BOOLEAN, ReadChecksum(ok)
      PROVE  MasterTypes' /\ UNCHANGED <<link, leds, slave, shmem>>
  <2>1. UNCHANGED <<link, leds, slave, shmem>>
    BY <1>2 DEF ReadChecksum
  <2>2. CASE ~ok
    BY <1>0, <1>2, <2>1, <2>2, RetryTypes DEF ReadChecksum
  <2>3. CASE ok /\ (Due(age.matrix) \/ slave.checksum # CRC[shmem.matrix])
    <3>1. /\ at' = [at EXCEPT !.pc = "data", !.sum = slave.checksum]
          /\ UNCHANGED <<other, last, errors, age>>
      BY <1>2, <2>3 DEF ReadChecksum
    <3> QED BY <1>0, <2>1, <3>1 DEF MasterTypes, TypeOK
  <2>4. CASE ok /\ ~(Due(age.matrix) \/ slave.checksum # CRC[shmem.matrix])
    <3>1. /\ at' = Enter("leds") /\ last' = [last EXCEPT !.matrix = shmem.matrix]
          /\ UNCHANGED <<other, errors, age>>
      BY <1>2, <2>4 DEF ReadChecksum
    <3> QED BY <1>0, <2>1, <3>1, IdleEnterTypes DEF MasterTypes, TypeOK
  <2> QED BY <2>2, <2>3, <2>4
<1>3. ASSUME NEW ok \in BOOLEAN, NEW m \in Matrix, ReadData(ok, m)
      PROVE  /\ MasterTypes' /\ UNCHANGED <<link, leds, slave>>
             /\ shmem' \in [matrix : Matrix, leds : Leds]
  <2>1. /\ UNCHANGED <<link, leds, slave>> /\ shmem' \in [matrix : Matrix, leds : Leds]
    BY <1>3 DEF ReadData, TypeOK
  <2>2. CASE ok /\ Accepted(m)
    <3>1. /\ at' = Enter("leds") /\ last' = [last EXCEPT !.matrix = m]
          /\ age' = [age EXCEPT !.matrix = 0] /\ UNCHANGED <<other, errors>>
      BY <1>3, <2>2 DEF ReadData
    <3>2. 0 \in 0 .. FORCED_SYNC_THROTTLE_MS
      BY ConstantTypes
    <3> QED BY <1>0, <2>1, <3>1, <3>2, IdleEnterTypes DEF MasterTypes
  <2>3. CASE ~(ok /\ Accepted(m))
    BY <1>0, <1>3, <2>1, <2>3, RetryTypes DEF ReadData
  <2> QED BY <2>2, <2>3
<1>4. ASSUME NEW ok \in BOOLEAN, NEW got \in Leds, led_state_handlers_master(ok, got)
      PROVE  /\ MasterTypes' /\ UNCHANGED <<link, leds>>
             /\ slave' \in [keys : SlaveMatrix, matrix : SlaveMatrix, leds : Leds,
                           shown : Leds, checksum : Sums]
             /\ shmem' \in [matrix : Matrix, leds : Leds]
  <2>1. /\ UNCHANGED <<link, leds>> /\ shmem' \in [matrix : Matrix, leds : Leds]
        /\ slave' \in [keys : SlaveMatrix, matrix : SlaveMatrix, leds : Leds,
                       shown : Leds, checksum : Sums]
    BY <1>4, ZenonT(60) DEF led_state_handlers_master, TypeOK
  <2>2. CASE ~Due(age.leds) /\ leds = shmem.leds
    <3>1. EndScan(TRUE, last.matrix)
      BY <1>4, <2>2 DEF led_state_handlers_master
    <3> QED BY <1>0, <2>1, <3>1, EndScanTypes
  <2>3. CASE ~(~Due(age.leds) /\ leds = shmem.leds) /\ ok
    <3>1. /\ at' = Idle /\ errors' = 0 /\ age' = [age EXCEPT !.leds = 0]
          /\ matrix_post_scan(TRUE, last.matrix)
      BY <1>4, <2>3 DEF led_state_handlers_master
    <3>2. 0 \in 0 .. FORCED_SYNC_THROTTLE_MS /\ 0 \in 0 .. ErrorCap
      BY ConstantTypes
    <3>3. /\ other' \in Matrix /\ last' \in [matrix : Matrix, connected : BOOLEAN]
      BY <1>0, <3>1 DEF matrix_post_scan, MasterTypes
    <3> QED BY <1>0, <2>1, <3>1, <3>2, <3>3, IdleEnterTypes DEF MasterTypes
  <2>4. CASE ~(~Due(age.leds) /\ leds = shmem.leds) /\ ~ok
    <3>1. Retry("leds", last.matrix)
      BY <1>4, <2>4 DEF led_state_handlers_master
    <3> QED BY <1>0, <2>1, <3>1, RetryTypes
  <2> QED BY <2>2, <2>3, <2>4
<1> QED BY <1>1, <1>2, <1>3, <1>4 DEF MasterStep, TypeOK

\* The variables of both halves keep their types through every order of
\* transfers, failures and resets: connection_errors its byte and the attempts
\* of transaction_handler_master their number.
THEOREM SplitTypes == Spec => []TypeOK
<1>1. Init => TypeOK
  <2> SUFFICES ASSUME Init PROVE TypeOK
    OBVIOUS
  <2>1. at \in [pc : {"idle", "sum", "data", "leds"}, tries : 0 .. Retries, sum : Sums]
    BY IdleEnterTypes DEF Init
  <2> QED BY <2>1, ConstantTypes DEF Init, TypeOK, Blank
<1>2. TypeOK /\ [Next]_vars => TypeOK'
  <2> SUFFICES ASSUME TypeOK, [Next]_vars
               PROVE  TypeOK'
    OBVIOUS
  <2>1. CASE MasterStep
    BY <2>1, MasterStepTypes
  <2>2. CASE transactions_slave
    BY <2>2, ConstantTypes DEF transactions_slave, TypeOK
  <2>3. CASE SlaveReset
    BY <2>3, ConstantTypes DEF SlaveReset, TypeOK, Blank
  <2>4. CASE Keys
    BY <2>4 DEF Keys, TypeOK
  <2>5. CASE HostLeds \/ Link
    BY <2>5 DEF HostLeds, Link, TypeOK
  <2>6. CASE Time
    <3>1. age' \in [matrix : 0 .. FORCED_SYNC_THROTTLE_MS,
                    leds : 0 .. FORCED_SYNC_THROTTLE_MS,
                    check : 0 .. SPLIT_CONNECTION_CHECK_TIMEOUT]
      BY <2>6, ConstantTypes DEF Time, Older, TypeOK
    <3> QED BY <2>6, <3>1 DEF Time, TypeOK
  <2>7. CASE UNCHANGED vars
    BY <2>7 DEF vars, TypeOK
  <2> QED BY <2>1, <2>2, <2>3, <2>4, <2>5, <2>6, <2>7 DEF Next
<1> QED BY <1>1, <1>2, PTL DEF Spec

-----------------------------------------------------------------------------
(* Disconnection.  The invariant follows last_connected: the rows of the   *)
(* other half are cleared in the scan that notices the disconnection, and  *)
(* later scans find it noted already.                                      *)

\* Where the other half is released, and errors that disconnect are noted.
ReleaseInv ==
  /\ DOMAIN last = {"matrix", "connected"}
  /\ last.connected \in BOOLEAN
  /\ ~last.connected => other = 0
  /\ ~is_transport_connected(errors) => ~last.connected

\* The end of a scan leaves the other half released when it is disconnected.
LEMMA PostScanReleases ==
  ASSUME ReleaseInv, NEW connected \in BOOLEAN, NEW m, matrix_post_scan(connected, m)
  PROVE  /\ DOMAIN last' = {"matrix", "connected"}
         /\ last'.connected = connected
         /\ ~connected => other' = 0
  BY DEF ReleaseInv, matrix_post_scan

LEMMA EndScanReleases ==
  ASSUME ReleaseInv, NEW okay \in BOOLEAN, NEW m, EndScan(okay, m)
  PROVE  ReleaseInv'
<1> DEFINE e == IF okay \/ SPLIT_CONNECTION_CHECK_TIMEOUT = 0 THEN 0 ELSE CountError(errors)
<1>1. errors' = e /\ matrix_post_scan(is_transport_connected(e), m)
  BY DEF EndScan
<1>2. is_transport_connected(e) \in BOOLEAN
  BY DEF is_transport_connected
<1>3. /\ DOMAIN last' = {"matrix", "connected"}
      /\ last'.connected = is_transport_connected(e)
      /\ ~is_transport_connected(e) => other' = 0
  <2> HIDE DEF e
  <2> QED BY <1>1, <1>2, PostScanReleases
<1>4. is_transport_connected(errors)' = is_transport_connected(e)
  BY <1>1 DEF is_transport_connected
<1> QED BY <1>2, <1>3, <1>4 DEF ReleaseInv

LEMMA RetryReleases ==
  ASSUME ReleaseInv, NEW handler, NEW m, Retry(handler, m)
  PROVE  ReleaseInv'
<1>1. CASE at.tries > 1
  <2>1. /\ DOMAIN last' = DOMAIN last /\ last'.connected = last.connected
        /\ UNCHANGED <<other, errors>>
    BY <1>1 DEF Retry, ReleaseInv
  <2> QED BY <2>1 DEF ReleaseInv, is_transport_connected
<1>2. CASE ~(at.tries > 1)
  <2>1. EndScan(FALSE, m)
    BY <1>2 DEF Retry
  <2> QED BY <2>1, EndScanReleases
<1> QED BY <1>1, <1>2

\* The invariant speaks of nothing but last, other and errors.
LEMMA ReleaseFrame ==
  ASSUME ReleaseInv, UNCHANGED <<other, errors>>,
         DOMAIN last' = DOMAIN last, last'.connected = last.connected
  PROVE  ReleaseInv'
  BY DEF ReleaseInv, is_transport_connected

LEMMA MasterReleases ==
  ASSUME ReleaseInv, MasterStep, SPLIT_MAX_CONNECTION_ERRORS \in Nat \ {0}
  PROVE  ReleaseInv'
<1>1. CASE StartScan
  <2>1. CASE ~is_transport_connected(errors) /\ age.check < SPLIT_CONNECTION_CHECK_TIMEOUT
    <3>1. matrix_post_scan(FALSE, last.matrix) /\ errors' = errors
      BY <1>1, <2>1 DEF StartScan
    <3>2. /\ DOMAIN last' = {"matrix", "connected"} /\ last'.connected = FALSE
          /\ other' = 0
      BY <3>1, PostScanReleases
    <3> QED BY <3>1, <3>2, <2>1 DEF ReleaseInv, is_transport_connected
  <2>2. CASE ~(~is_transport_connected(errors) /\ age.check < SPLIT_CONNECTION_CHECK_TIMEOUT)
    <3>1. UNCHANGED <<other, last, errors>>
      BY <1>1, <2>2 DEF StartScan
    <3> QED BY <3>1, ReleaseFrame
  <2> QED BY <2>1, <2>2
<1>2. ASSUME NEW ok \in BOOLEAN, ReadChecksum(ok)
      PROVE  ReleaseInv'
  <2>1. CASE ~ok
    BY <1>2, <2>1, RetryReleases DEF ReadChecksum
  <2>2. CASE ok
    <3>1. /\ UNCHANGED <<other, errors>>
          /\ DOMAIN last' = DOMAIN last /\ last'.connected = last.connected
      BY <1>2, <2>2 DEF ReadChecksum, ReleaseInv
    <3> QED BY <3>1, ReleaseFrame
  <2> QED BY <2>1, <2>2
<1>3. ASSUME NEW ok \in BOOLEAN, NEW m \in Matrix, ReadData(ok, m)
      PROVE  ReleaseInv'
  <2>1. CASE ok /\ Accepted(m)
    <3>1. /\ UNCHANGED <<other, errors>>
          /\ DOMAIN last' = DOMAIN last /\ last'.connected = last.connected
      BY <1>3, <2>1 DEF ReadData, ReleaseInv
    <3> QED BY <3>1, ReleaseFrame
  <2>2. CASE ~(ok /\ Accepted(m))
    BY <1>3, <2>2, RetryReleases DEF ReadData
  <2> QED BY <2>1, <2>2
<1>4. ASSUME NEW ok \in BOOLEAN, NEW got \in Leds, led_state_handlers_master(ok, got)
      PROVE  ReleaseInv'
  <2>1. CASE ~Due(age.leds) /\ leds = shmem.leds
    <3>1. EndScan(TRUE, last.matrix)
      BY <1>4, <2>1 DEF led_state_handlers_master
    <3> QED BY <3>1, EndScanReleases
  <2>2. CASE ~(~Due(age.leds) /\ leds = shmem.leds) /\ ok
    <3>1. errors' = 0 /\ matrix_post_scan(TRUE, last.matrix)
      BY <1>4, <2>2 DEF led_state_handlers_master
    <3>2. DOMAIN last' = {"matrix", "connected"} /\ last'.connected = TRUE
      BY <3>1, PostScanReleases
    <3>3. is_transport_connected(errors)'
      BY <3>1 DEF is_transport_connected
    <3> QED BY <3>2, <3>3 DEF ReleaseInv
  <2>3. CASE ~(~Due(age.leds) /\ leds = shmem.leds) /\ ~ok
    <3>1. Retry("leds", last.matrix)
      BY <1>4, <2>3 DEF led_state_handlers_master
    <3> QED BY <3>1, RetryReleases
  <2> QED BY <2>1, <2>2, <2>3
<1> QED BY <1>1, <1>2, <1>3, <1>4 DEF MasterStep

\* While the transport counts as disconnected, no key of the other half is
\* down in the master's matrix (matrix_post_scan, matrix_common.c).
THEOREM DisconnectedReleases == Spec => []DisconnectedIsReleased
<1>0. SPLIT_MAX_CONNECTION_ERRORS \in Nat \ {0}
  BY BoundAssumption
<1>1. Init => ReleaseInv
  BY <1>0 DEF Init, ReleaseInv, is_transport_connected
<1>2. ReleaseInv /\ [Next]_vars => ReleaseInv'
  <2> SUFFICES ASSUME ReleaseInv, [Next]_vars
               PROVE  ReleaseInv'
    OBVIOUS
  <2>1. CASE MasterStep
    BY <1>0, <2>1, MasterReleases
  <2>2. CASE UNCHANGED <<other, errors, last>>
    BY <2>2, ReleaseFrame
  <2> QED BY <2>1, <2>2
          DEF Next, vars, transactions_slave, SlaveReset, Keys, HostLeds, Link, Time
<1>3. ReleaseInv => DisconnectedIsReleased
  BY DEF ReleaseInv, DisconnectedIsReleased
<1> QED BY <1>1, <1>2, <1>3, PTL DEF Spec

-----------------------------------------------------------------------------
(* Real keys.  Everything the rows of the other half can come from is the  *)
(* empty matrix or has a checksum the slave has offered: the last good     *)
(* matrix, and the checksum that the data of a transfer is held against.   *)
(* Nothing is claimed of split_shmem itself, where damaged data does end   *)
(* up.                                                                     *)

Offered == real \cup {Blank}
Vouched(m) == m = 0 \/ CRC[m] \in Offered

RealInv ==
  /\ DOMAIN last = {"matrix", "connected"} /\ DOMAIN at = {"pc", "tries", "sum"}
  /\ DOMAIN slave = {"keys", "matrix", "checksum", "leds", "shown"}
  /\ Vouched(other) /\ Vouched(last.matrix)
  /\ slave.checksum \in Offered
  /\ at.pc = "data" => at.sum \in Offered

\* What the end of a scan does to the last matrix and to the other half.
LEMMA EndScanReal ==
  ASSUME RealInv, NEW okay \in BOOLEAN, NEW m, Vouched(m), EndScan(okay, m),
         UNCHANGED real, DOMAIN slave' = DOMAIN slave, slave'.checksum = slave.checksum
  PROVE  RealInv'
<1>1. at' = [pc |-> "idle", tries |-> 0, sum |-> Blank]
  BY DEF EndScan, Idle
<1>2. /\ DOMAIN last' = DOMAIN last /\ last'.matrix = m
      /\ other' \in {m, 0, other}
  BY DEF EndScan, matrix_post_scan, RealInv
<1> QED BY <1>1, <1>2 DEF RealInv, Vouched, Offered

LEMMA RetryReal ==
  ASSUME RealInv, NEW handler, handler # "data", Retry(handler, last.matrix),
         UNCHANGED real, DOMAIN slave' = DOMAIN slave, slave'.checksum = slave.checksum
  PROVE  RealInv'
<1>1. CASE at.tries > 1
  <2>1. /\ DOMAIN at' = DOMAIN at /\ at'.pc = handler
        /\ DOMAIN last' = DOMAIN last /\ last'.matrix = last.matrix
        /\ UNCHANGED other
    BY <1>1 DEF Retry, RealInv
  <2> QED BY <2>1 DEF RealInv, Vouched, Offered
<1>2. CASE ~(at.tries > 1)
  <2>1. EndScan(FALSE, last.matrix) /\ Vouched(last.matrix)
    BY <1>2 DEF Retry, RealInv
  <2> QED BY <2>1, EndScanReal
<1> QED BY <1>1, <1>2

LEMMA MasterReal ==
  ASSUME RealInv, MasterStep
  PROVE  RealInv'
<1>1. CASE StartScan
  <2>1. UNCHANGED <<slave, real>>
    BY <1>1 DEF StartScan
  <2>2. /\ DOMAIN last' = DOMAIN last /\ last'.matrix = last.matrix
        /\ other' \in {last.matrix, 0, other}
    BY <1>1 DEF StartScan, matrix_post_scan, RealInv
  <2>3. at' = at \/ at' = Enter("sum")
    BY <1>1 DEF StartScan
  <2>4. DOMAIN Enter("sum") = {"pc", "tries", "sum"} /\ Enter("sum").pc = "sum"
    BY DEF Enter
  <2> QED BY <2>1, <2>2, <2>3, <2>4 DEF RealInv, Vouched, Offered
<1>2. ASSUME NEW ok \in BOOLEAN, ReadChecksum(ok)
      PROVE  RealInv'
  <2>1. UNCHANGED <<slave, real>>
    BY <1>2 DEF ReadChecksum
  <2>2. CASE ~ok
    BY <1>2, <2>1, <2>2, RetryReal DEF ReadChecksum
  <2>3. CASE ok /\ (Due(age.matrix) \/ slave.checksum # CRC[shmem.matrix])
    <3>1. /\ DOMAIN at' = DOMAIN at /\ at'.sum = slave.checksum
          /\ UNCHANGED <<other, last>>
      BY <1>2, <2>3 DEF ReadChecksum, RealInv
    <3> QED BY <2>1, <3>1 DEF RealInv, Vouched, Offered
  <2>4. CASE ok /\ ~(Due(age.matrix) \/ slave.checksum # CRC[shmem.matrix])
    <3>1. /\ DOMAIN at' = {"pc", "tries", "sum"} /\ at'.pc = "leds"
      BY <1>2, <2>4 DEF ReadChecksum, Enter
    <3>2. /\ DOMAIN last' = DOMAIN last /\ last'.matrix = shmem.matrix /\ UNCHANGED other
      BY <1>2, <2>4 DEF ReadChecksum, RealInv
    <3>3. CRC[shmem.matrix] \in Offered
      BY <2>4 DEF RealInv
    <3> QED BY <2>1, <3>1, <3>2, <3>3 DEF RealInv, Vouched, Offered
  <2> QED BY <2>2, <2>3, <2>4
<1>3. ASSUME NEW ok \in BOOLEAN, NEW m \in Matrix, ReadData(ok, m)
      PROVE  RealInv'
  <2>1. UNCHANGED <<slave, real>> /\ at.pc = "data"
    BY <1>3 DEF ReadData
  <2>2. CASE ok /\ Accepted(m)
    <3>1. /\ DOMAIN at' = {"pc", "tries", "sum"} /\ at'.pc = "leds"
      BY <1>3, <2>2 DEF ReadData, Enter
    <3>2. /\ DOMAIN last' = DOMAIN last /\ last'.matrix = m /\ UNCHANGED other
      BY <1>3, <2>2 DEF ReadData, RealInv
    <3>3. CRC[m] \in Offered
      BY <2>1, <2>2 DEF Accepted, RealInv
    <3> QED BY <2>1, <3>1, <3>2, <3>3 DEF RealInv, Vouched, Offered
  <2>3. CASE ~(ok /\ Accepted(m))
    BY <1>3, <2>1, <2>3, RetryReal DEF ReadData
  <2> QED BY <2>2, <2>3
<1>4. ASSUME NEW ok \in BOOLEAN, NEW got \in Leds, led_state_handlers_master(ok, got)
      PROVE  RealInv'
  <2>1. /\ UNCHANGED real /\ DOMAIN slave' = DOMAIN slave
        /\ slave'.checksum = slave.checksum
    BY <1>4 DEF led_state_handlers_master, RealInv
  <2>2. Vouched(last.matrix)
    BY DEF RealInv
  <2>3. CASE ~Due(age.leds) /\ leds = shmem.leds
    <3>1. EndScan(TRUE, last.matrix)
      BY <1>4, <2>3 DEF led_state_handlers_master
    <3> QED BY <2>1, <2>2, <3>1, EndScanReal
  <2>4. CASE ~(~Due(age.leds) /\ leds = shmem.leds) /\ ok
    <3>1. at' = [pc |-> "idle", tries |-> 0, sum |-> Blank]
      BY <1>4, <2>4 DEF led_state_handlers_master, Idle
    <3>2. /\ DOMAIN last' = DOMAIN last /\ last'.matrix = last.matrix
          /\ other' = last.matrix
      BY <1>4, <2>4 DEF led_state_handlers_master, matrix_post_scan, RealInv
    <3> QED BY <2>1, <2>2, <3>1, <3>2 DEF RealInv, Vouched, Offered
  <2>5. CASE ~(~Due(age.leds) /\ leds = shmem.leds) /\ ~ok
    <3>1. Retry("leds", last.matrix)
      BY <1>4, <2>5 DEF led_state_handlers_master
    <3> QED BY <2>1, <3>1, RetryReal
  <2> QED BY <2>3, <2>4, <2>5
<1> QED BY <1>1, <1>2, <1>3, <1>4 DEF MasterStep

\* The master never shows keys whose checksum the slave has not published, whatever
\* the link does, but for those with the checksum byte of a slave that has not
\* scanned (read_if_checksum_mismatch, transactions.c).
THEOREM RealKeysOnly == Spec => []OnlyRealKeys
<1>1. Init => RealInv
  BY DEF Init, Idle, RealInv, Vouched, Offered
<1>2. RealInv /\ [Next]_vars => RealInv'
  <2> SUFFICES ASSUME RealInv, [Next]_vars
               PROVE  RealInv'
    OBVIOUS
  <2>1. CASE MasterStep
    BY <2>1, MasterReal
  <2>2. CASE transactions_slave
    <3>1. /\ UNCHANGED <<other, last, at>> /\ real' = real \cup {slave'.checksum}
          /\ DOMAIN slave' = DOMAIN slave
      BY <2>2 DEF transactions_slave, RealInv
    <3> QED BY <3>1 DEF RealInv, Vouched, Offered
  <2>3. CASE SlaveReset
    <3>1. /\ UNCHANGED <<other, last, at, real>> /\ slave'.checksum = Blank
          /\ DOMAIN slave' = DOMAIN slave
      BY <2>3 DEF SlaveReset, RealInv
    <3> QED BY <3>1 DEF RealInv, Vouched, Offered
  <2>4. CASE Keys
    <3>1. /\ UNCHANGED <<other, last, at, real>> /\ slave'.checksum = slave.checksum
          /\ DOMAIN slave' = DOMAIN slave
      BY <2>4 DEF Keys, RealInv
    <3> QED BY <3>1 DEF RealInv, Vouched, Offered
  <2>5. CASE UNCHANGED <<other, last, at, real, slave>>
    BY <2>5 DEF RealInv, Vouched, Offered
  <2> QED BY <2>1, <2>2, <2>3, <2>4, <2>5 DEF Next, vars, HostLeds, Link, Time
<1>3. RealInv => OnlyRealKeys
  BY DEF RealInv, Vouched, Offered, OnlyRealKeys
<1> QED BY <1>1, <1>2, <1>3, PTL DEF Spec
=============================================================================
