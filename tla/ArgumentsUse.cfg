SPECIFICATION Spec
CONSTANTS
  NotANumber = NotANumber
  Ports <- SomePorts
  Timeouts <- SomeTimeouts
  Words = {"a", "b"}
  DefaultPort = 7
  PortModulus = 16
  WordModulus = 256
  Microsecond = 20
  MaxOptions = 3
INVARIANTS FirstCounts SamePort MinimumIfFits
