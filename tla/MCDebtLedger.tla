----------------------------- MODULE MCDebtLedger -----------------------------
(* Instances of DebtLedger for TLC.                                           *)
EXTENDS DebtLedger, TLC

CONSTANTS e1, e2, p1, p2

Symmetry == Permutations({e1, e2}) \cup Permutations({p1, p2})

(* Bound: runs overlap as long as only one execution has been asked for.      *)
FewAtWork == \/ \A e, f \in Executions : e = f \/ "idle" \in {pc[e], pc[f]}
             \/ \A p, q \in Runs : p = q \/ "idle" \in {pc[p], pc[q]}
=============================================================================
