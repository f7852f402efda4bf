SPECIFICATION ObservedSpec
CONSTANTS
  Tags = {a, b}
  NoTag = NoTag
  ErrorThreshold = 1
  Hysteresis = 2
  ErrorWindow = 1
  Cooldown = 2
  MaxFailures = 2
  FailureWindow = 2
  Stale = 0
  Shadow = FALSE
  Switches = {"bool"}
PROPERTIES CooldownKept
