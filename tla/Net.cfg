SPECIFICATION Spec
CONSTANTS
  na = na
  nb = nb
  nc = nc
INVARIANTS NicksAgree ChannelHolds ModesHold LinksHold RelayHolds PresenceHolds OpersHold SilenceHolds
           TargetsHold  JupesHold
CHECK_DEADLOCK FALSE
