SPECIFICATION Spec
CONSTANTS
  Flows = {f1, f2}
  DcrClients = {dcr}
  UrlClients = {url}
  Uris <- MCUris
  PortInsensitive = TRUE
  Registered <- MCRegistered
  Docs <- MCDocs
  None = None
  TTL = 1
  MaxFlight = 1
  MaxTime = 3
SYMMETRY MCSymmetry
INVARIANTS
  TypeOK
  BoundedStaleness
  RedirectsOnlyRegistered
  LateRefusals
