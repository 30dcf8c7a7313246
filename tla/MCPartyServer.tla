---------------------------- MODULE MCPartyServer ----------------------------
EXTENDS PartyServer, TLC

CONSTANTS c1, c2, c3, i1, i2, t1, t2

(* Two sockets of one client, which keeps its id, and one of another. *)
MCConn == {c1, c2, c3}
MCId   == {i1, i2}
MCIdOf == c1 :> i1 @@ c2 :> i1 @@ c3 :> i2
MCTask == {t1, t2}
=============================================================================
