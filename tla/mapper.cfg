CONSTANTS
  up = up
  left = left
  right = right
  go = go
  Actions = {up, left, right, go}
  NoAction = NoAction
  NoThreshold = NoThreshold
  Full = 3
  Profiles <- MCProfiles
  Preset <- PresetProfile
  XValues <- MCXValues
  YValues <- MCYValues
  ZValues <- MCZValues
  Pads = {"left"}
  Deadzones = {0, 1}
  Hystereses = {1}
  Repeats <- MCRepeats
SPECIFICATION Spec
INVARIANT TypeOK
INVARIANT OutputIsHeld
PROPERTY StickIsSteady
