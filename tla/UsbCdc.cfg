CONSTANTS
  Size = 4
  Hosts = {"typing", "streaming"}
  MaxSent = 9
SPECIFICATION Spec
INVARIANTS TypeOK KeepsListening QuietMeansEchoed
PROPERTIES EchoInOrder TypedIsEchoed
