SPECIFICATION Spec
CONSTANTS
  Devices <- MCDevices
  Cpu <- MCCpu
  Setups <- MCSetups
  MaxRounds = 3
INVARIANTS
  SplitsReadTheirGraph
  HostHeldBack
PROPERTIES
  NothingStuck
