--------------------------- MODULE MCUserAccounts ---------------------------
(* One identity, two pool threads, two passwords; the bodies carry each field *)
(* the section or login treats differently, the counter among them.           *)
EXTENDS UserAccounts, TLC

CONSTANTS alice, old, new, t1, t2

AccountBodies ==
  {[enabled |-> FALSE], [enabled |-> TRUE, password |-> old], [failed |-> 0],
   [password |-> new, confirm |-> new, failed |-> 2, last |-> 1]}

MCIdentities == {alice}
MCTasks == {t1, t2}
MCPasswords == {old, new}
ThreadSymmetry == Permutations(MCTasks)
=============================================================================
