SPECIFICATION Spec
CONSTANTS
  c1 = c1
  c2 = c2
  Callers = {c1}
  Functions <- AllFunctions
  ServerTime <- MCServerTime
  Unnamed <- MCUnnamed
  Exponents <- MCExponents
  Secrets = {"", "hmacKey"}
  Urls = {"good", "malformed"}
  Statuses = {200, 400, 401, 403, 404, 500}
  ErrorCodes = {10006, 10018, 1}
  Skews <- Aligned
  MaxNow = 0
  MaxSteps = 0
  MaxConfigs = 3
INVARIANT TypeOK
INVARIANT SuccessMeansExecuted
INVARIANT SignatureVerifies
INVARIANT ExecutedReported
INVARIANT RateLimitTyped
INVARIANT IdentifiedOrder
INVARIANT LayoutMatches
INVARIANT MalformedRefused
