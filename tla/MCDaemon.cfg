SPECIFICATION Spec
CONSTANTS
  Names = {r1, r2}
  Scripts <- MCScripts
  Absent = Absent
  Layout <- MCLayout
  OscPort <- MCOscPort
  ObsConns <- MCObsConns
  Conns <- MCConns
  Configs <- MCConfigs
  Broken = Broken
  ConfigObs <- MCConfigObs
  ConfigPort <- MCConfigPort
  MaxEdits = 2
  MaxReloads = 1
  Faults = {"startup edits", "misses", "start fails", "bind fails"}
SYMMETRY RoutesAlike
CHECK_DEADLOCK FALSE
INVARIANTS
  TypeOK
  RegistriesAgree
  ReceiversNeeded
  ReloadRefreshesLoaded
  QuiescentFresh
  ObsRegistered
