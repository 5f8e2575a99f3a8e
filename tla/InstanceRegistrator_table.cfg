\* Two processes share an address, a third runs on the same host.
CONSTANTS
  a = a
  b = b
  c = c
  Instances <- MCInstances
  Hosts <- MCHosts
  HostOf <- MCHostOf
  PortOf <- MCPortOf
  MaxLate = 2
SPECIFICATION Spec
INVARIANTS ServingIsRegistered OneInstancePerAddress
PROPERTIES OrphanStays
