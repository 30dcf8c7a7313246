------------------------------ MODULE MCPubSub ------------------------------
(* Rooms, locations and topics for PubSub. *)
EXTENDS PubSub, TLC

All == <<"*">>
Prefix == <<"p", ":", "*">>
MCPart == {"*", ":", "a", "b", "enam", "p", "weur", "x", "y"}
MCRoom == {<<"x">>, <<"x", "y">>}
MCLocation == <<"weur", "enam">>
MCTopic == {<<"a">>, <<"p", ":", "b">>}
MCTopics == {<<Prefix, All>>, << <<"a">>, Prefix>>, <<Prefix>>}     \* the first overlap
Symmetric == Permutations(Client)
=============================================================================
