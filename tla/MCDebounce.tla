----------------------------- MODULE MCDebounce -----------------------------
EXTENDS Debounce, TLC
CONSTANTS a, b
\* Every algorithm; those with a counter per row with both keys in one row, and
\* with a row for each.
OneRow == a :> 1 @@ b :> 1
TwoRows == a :> 1 @@ b :> 2
AllBuilds ==
  [type : Types, row : {OneRow}] \cup [type : {"sym_defer_pr", "sym_eager_pr"}, row : {TwoRows}]
=============================================================================
