SPECIFICATION Spec
CONSTANTS
  Clients = {c1, c2}
  Modes = {"rocks", "temp", "hyper", "ws"}
  Scripts <- MCScripts
  Nobody = Nobody
INVARIANT WebsocketHonest
PROPERTIES
  GoodIsServed
  HandshakenIsServed
