\* Contexts over every configuration of up to three devices.
SPECIFICATION Spec
CONSTANTS
  a1 = a1
  a2 = a2
  b1 = b1
  Drivers = {a1, a2, b1}
  TypeOf <- DriverTypes
  Plugins = {"B", "Reader"}
  Configs <- SmallConfigs
INVARIANTS
  TypeOK
  OneNamePerDriver
  TakenByThisContext
  ConnectedUpToPlugin
