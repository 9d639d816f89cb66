------------------------------- MODULE Totals -------------------------------
(***************************************************************************)
(* Sums of amounts, as the verification of a ledger computes them.  An     *)
(* amount is a number of units; the units of all amounts are counted.      *)
(***************************************************************************)
EXTENDS Integers, Sequences, FiniteSets

\* The sum of the positive values of a function.
Total(f) == Cardinality(UNION {{x} \X (1..f[x]) : x \in DOMAIN f})

Negated(f) == [x \in DOMAIN f |-> 0 - f[x]]

\* The sum of its values.
Net(f) == Total(f) - Total(Negated(f))

\* The amounts of the entries of a ledger.
Amounts(log) == [i \in DOMAIN log |-> log[i].amount]
=============================================================================
