-------------------------- MODULE MCResilientTrack --------------------------
EXTENDS ResilientTrack
CONSTANTS a, b

MCLists == {<<a, b>>, <<b>>}
Outcomes ==
  {<<"good", "good">>, <<"moody", "good">>, <<"moody", "moody">>, <<"bad", "good">>,
   <<"bad", "bad">>, <<"bad", "moody">>, <<"gone", "moody">>, <<"gone", "denied">>}
MCSettings ==
  [managed : BOOLEAN, health : {[d \in Devices |-> IF d = a THEN o[1] ELSE o[2]] : o \in Outcomes}]

LiveSpec == TrackSpec /\ TrackFairness
=============================================================================
