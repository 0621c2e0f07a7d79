------------------------------ MODULE Numbers ------------------------------
(***************************************************************************)
(* A float column as the engine keeps it: a cell is a number or missing,   *)
(* and a statistic skips what is missing.                                  *)
(***************************************************************************)
EXTENDS Integers, FiniteSets, FiniteSetsExt

CONSTANT NaN

ASSUME NaNAssumption == NaN \notin Int

Known(x) == IF x = NaN THEN 0 ELSE x

\* Positions of a column that hold a number.
KnownAt(column, is) == {i \in is : column[i] # NaN}

\* Faulty: a missing number counts as 0.
MaxOfZeroed(column, is) == Max({Known(column[i]) : i \in is})

\* The largest number, missing when there is none.
MaxOf(column, is) ==
  IF KnownAt(column, is) = {} THEN NaN ELSE Max({column[i] : i \in KnownAt(column, is)})

\* A mean is kept as a sum and a count, which is 0 when the mean is missing.
MeanOf(column, is) ==
  [sum |-> MapThenSumSet(LAMBDA i : column[i], KnownAt(column, is)),
   count |-> Cardinality(KnownAt(column, is))]
=============================================================================
