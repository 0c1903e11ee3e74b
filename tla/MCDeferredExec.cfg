\* Two slots, tokens 1..4, a timer that wraps after 9 ms.
CONSTANTS
  TableCount = 2
  TokenMod = 5
  TimeMod = 9
  Delays = {1, 2}
  Callbacks = {cb}
  NULL = NULL
  MaxLate = 1
  MaxGap = 2
SPECIFICATION FairSpec
INVARIANTS TypeOK TokensUnique NoNullCallback
PROPERTIES FiresExactlyWhenDue TokenReuseDistance DueIsServed
