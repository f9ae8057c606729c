SPECIFICATION FairSpec
CONSTANTS
  ctrl = ctrl
  esc = esc
  btn = btn
  keyboard = keyboard
  mouse = mouse
  Devices = {keyboard, mouse}
  Keys <- MCKeys
  Esc = esc
  Modifiers <- MCModifiers
  Capacity = 2
  Window = 1
  MayStop = TRUE
  MaxEvents = 3
  MaxFaults = 1
INVARIANTS TypeOK NothingStuck
PROPERTIES ChordReturnsInput ControlsFreed
CHECK_DEADLOCK FALSE
