-------------------------- MODULE MCBroadcastTrack --------------------------
EXTENDS BroadcastTrack
MCOptions ==
  [kinds : {{"video"}, {"audio", "video"}}, retain : BOOLEAN, active : BOOLEAN,
   broadcasting : BOOLEAN]
=============================================================================
