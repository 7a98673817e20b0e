SPECIFICATION Spec
CONSTANTS
  Requests <- MCRequests
  Hosts <- MCHosts
INVARIANTS
  EchoIsRequest
  DialsRequestedPort
  ReplyFramed
