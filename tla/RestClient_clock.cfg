SPECIFICATION Spec
CONSTANTS
  c1 = c1
  c2 = c2
  Callers = {c1, c2}
  Functions <- FewFunctions
  ServerTime <- MCServerTime
  Unnamed <- MCUnnamed
  Exponents <- MCExponents
  Secrets = {"hmacKey"}
  Urls = {"good"}
  Statuses = {200}
  ErrorCodes = {}
  Skews <- Drifting
  MaxNow = 2
  MaxSteps = 1
  MaxConfigs = 2
SYMMETRY Interchangeable
INVARIANT StampBounded
