---------------------------- MODULE MCPartyTracks ----------------------------
EXTENDS PartyTracks, TLC

(* Tracks of a kind are treated alike. *)
Symmetric == Permutations(Pushed) \cup Permutations(Pulled)
=============================================================================
