SPECIFICATION Spec
CONSTANTS
  Sessions = {s1, s2}
  Ephemeral = {40000, 40001}
  Preferred = 6123
  NoPort = NoPort
INVARIANTS PortsInv ClientsReachOwn RaceHasWinner
PROPERTIES DaemonsListen
