------------------------------- MODULE Eeprom -------------------------------
(***************************************************************************)
(* What wear levelling promises its clients, with no log, no image and no  *)
(* encoding: reads return `seen', a restart brings back `kept'.  Between   *)
(* calls the two agree.  Inside a call the power may go: a write that has  *)
(* not begun to rewrite the store leaves every byte it does not write, and *)
(* each byte it writes is old or new; a rewrite leaves all of the data or  *)
(* a blank EEPROM.  Only a failure of the driver may put bytes in doubt.   *)
(***************************************************************************)
EXTENDS Naturals

CONSTANTS Addr, Byte

VARIABLES
  mode,     \* "off", "idle", "busy" in a call, "rewriting" in a call that
            \* has blanked the store
  seen,     \* what reads return
  kept,     \* what a restart would bring back
  writing,  \* the addresses of the last write, in progress or not
  doubt,    \* addresses for which kept promises nothing
  failures  \* failures of the driver so far

vars == <<mode, seen, kept, writing, doubt, failures>>

Blank == [x \in Addr |-> 0]

Differ(f, g) == {x \in Addr : f[x] # g[x]}

\* A call may end with a step after which all but the bytes in doubt are kept.
MayReturn ==
  /\ mode' \in {"busy", "idle"}
  /\ mode' = "idle" => Differ(seen', kept') \subseteq doubt'

\* A step that goes on as if the driver had not failed.
MayFail == failures' \in {failures, failures + 1}

TypeOK ==
  /\ mode \in {"off", "idle", "busy", "rewriting"}
  /\ seen \in [Addr -> Byte] /\ kept \in [Addr -> Byte]
  /\ writing \subseteq Addr /\ doubt \subseteq Addr /\ failures \in Nat

-----------------------------------------------------------------------------
PowerOn ==
  /\ mode = "off" /\ seen' = kept /\ doubt' = {}
  /\ MayReturn
  /\ UNCHANGED <<kept, writing, failures>>

PowerOff ==
  /\ mode # "off" /\ mode' = "off"
  /\ seen' = Blank /\ writing' = {} /\ doubt' = {}
  /\ UNCHANGED <<kept, failures>>

\* A call begins; a write changes what reads return at once, and one that
\* changes nothing is over.
Call ==
  /\ mode = "idle" /\ MayReturn
  /\ writing' \subseteq Addr
  /\ Differ(seen, seen') \subseteq writing'
  /\ UNCHANGED <<kept, doubt, failures>>

\* Some of the bytes being written, or none, get to the store.
Store ==
  /\ mode = "busy"
  /\ Differ(kept, kept') \subseteq doubt \cup (writing \ Differ(kept', seen))
  /\ doubt' \subseteq doubt /\ Differ(kept', seen) \cap doubt \subseteq doubt'
  /\ MayReturn
  /\ UNCHANGED <<seen, writing, failures>>

\* The store is blanked, to be rewritten or, with what reads return, erased.
Wipe ==
  /\ mode = "busy" /\ mode' \in {"busy", "rewriting"}
  /\ kept' = Blank
  /\ IF mode' = "busy" THEN seen' = Blank /\ doubt' = {} ELSE UNCHANGED <<seen, doubt>>
  /\ MayFail
  /\ UNCHANGED writing

Rewrite ==
  /\ mode = "rewriting" /\ mode' \in {"rewriting", "busy"}
  /\ IF mode' = "busy" THEN kept' = seen /\ doubt' = {} ELSE UNCHANGED <<kept, doubt>>
  /\ UNCHANGED <<seen, writing, failures>>

\* An initialisation in which everything is in doubt starts blank.
GiveUp ==
  /\ mode = "busy" /\ mode' = "idle"
  /\ doubt = Addr /\ seen' = Blank
  /\ MayFail
  /\ UNCHANGED <<kept, writing, doubt>>

\* The driver fails.  At the start it may hide data; later it can only cost
\* the bytes being written or, in a rewrite, all of them.
Failure ==
  /\ failures' = failures + 1
  /\ \/ mode = "off" /\ mode' \in {"idle", "busy", "rewriting"}
        /\ kept' = kept /\ writing' = writing
     \/ /\ mode = "idle" /\ mode' \in {"idle", "busy"}
        /\ doubt' \subseteq doubt \cup writing'
        /\ Differ(seen, seen') \subseteq writing'
        /\ kept' = kept
     \/ /\ mode \in {"busy", "rewriting"} /\ MayReturn
        /\ doubt' \subseteq (IF mode = "busy" THEN doubt \cup writing ELSE Addr)
        /\ Differ(kept, kept') \subseteq doubt \cup doubt'
        /\ UNCHANGED <<seen, writing>>

Init ==
  /\ mode = "off" /\ seen = Blank /\ kept = Blank
  /\ writing = {} /\ doubt = {} /\ failures = 0

Next ==
  PowerOn \/ PowerOff \/ Call \/ Store \/ Wipe \/ Rewrite \/ GiveUp \/ Failure

Spec == Init /\ [][Next]_vars
=============================================================================
