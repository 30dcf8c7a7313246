SPECIFICATION LiveSpec
CONSTANTS
  Kinds = {"audio", "video"}
  Options <- MCOptions
INVARIANTS
  SaysWhatItSends
  OnlyMeant
PROPERTIES
  PushedIsShown
  StartedIsSent
