------------------------------ MODULE MCSessions ------------------------------
(***************************************************************************)
(* Small instances of Sessions.                                            *)
(***************************************************************************)
EXTENDS Sessions, TLC

CONSTANTS p1, p2, g1, g2

Enabled == [enabled |-> TRUE, password |-> p1, grants |-> g1]
Disabled == [Enabled EXCEPT !.enabled = FALSE]
Changed == [Enabled EXCEPT !.password = p2]
Regiven == [Enabled EXCEPT !.grants = g2]

MCAccount == {Enabled, Disabled, Changed, Regiven}
MCFirstAccounts == [u \in Users |-> Enabled]

Symmetric == Permutations(Callers)

\* Two events in all, of changes of the account and restarts.
FewEvents == Len(history) - 1 + restarts <= 2
===============================================================================
