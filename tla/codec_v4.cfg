SPECIFICATION Spec
CONSTANTS
  Requests <- V4Requests
  Hosts <- MCHosts
INVARIANT DialsRequestedPort
