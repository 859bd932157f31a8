CONSTANTS
  Addresses = {a1, a2}
  Ports = {1, 2}
  DefaultPort = 1
  Ids = {u1}
  NoId = NoId
  MaxHosts = 3
  Socks = {s1, s2}
  Inline = 1
  Instances = {n1, n2, n3}
  MaxServices = 2
  MaxBoots = 3
  MaxConfig = 3
  MaxIdentity = 2
  MaxEvents = 4
  MaxStreams = 3
  MaxId = 3
  Descriptors = {1, 2}
  Slices = 2
  MaxAddresses = 2
SPECIFICATION ServicesSpec
INVARIANTS SettingsOK StorageOK AppOK ClientOK NetworkOK
PROPERTIES PairingStays ServicesMove
CHECK_DEADLOCK FALSE
