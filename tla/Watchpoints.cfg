CONSTANTS
  BpLocations <- MCBpLocations
  Reduced = {4}
  HostRegs = 3
  GpuRegs = 2
SPECIFICATION Spec
INVARIANTS
  TypeOK
  HostMatches
  NoGpuLeak
  WatchedOnGpu
  TriggerAttributed
PROPERTIES
  ResumedWatched
  HandedOver
