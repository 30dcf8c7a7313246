---------------------------- MODULE MCPartySync ----------------------------
(* Model values, settings and symmetry for PartySync. *)
EXTENDS PartySync, TLC

CONSTANTS c1, c2, i1, i2

MCBrowser == {c1, c2}
MCId == {i1, i2}
MCSettings ==
  {[maxTime |-> 1, maxPages |-> 1, breaks |-> 1, timeouts |-> TRUE],
   [maxTime |-> 2, maxPages |-> 2, breaks |-> 0, timeouts |-> FALSE]}
Symmetry == Permutations(MCBrowser) \cup Permutations(MCId)
=============================================================================
