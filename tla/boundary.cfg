SPECIFICATION PartSpec
CONSTANTS
  Deployments <- MCDeployments
  Numeral <- MCNumeral
  Usize = 4096
  MaxLen = 11
  MaxChunks = 4
  MinChunk = 2
  Word = 32
  Caps = {0, 5, 10, 11, 12, 31}
CHECK_DEADLOCK FALSE
INVARIANTS  EventsDecoded BodiesWhole
