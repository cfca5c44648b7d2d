\* A configuration that names a plug-in before other devices.
SPECIFICATION Spec
CONSTANTS
  a1 = a1
  a2 = a2
  b1 = b1
  Drivers = {a1, a2, b1}
  TypeOf <- DriverTypes
  Plugins = {"B", "Reader"}
  Configs <- SmallConfigs
INVARIANTS
  AllDevicesAssigned
