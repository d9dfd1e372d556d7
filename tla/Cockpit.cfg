\* Escalations: two tool calls, two contacts, failing saves, doubled posts, two restarts.
\* Login: a user with two requests and two tokens; links live for one tick, the limiter allows
\* two posts in two ticks.  Connections: an SMTP account, which a rotation re-encrypts, and a
\* Resend one, which it leaves alone; two threads, three saves, one rotation.
CONSTANTS
  b1 = b1
  u1 = u1
  NoOwner = NoOwner
  Bot = {b1, b2}
  Resolver = {u1, u2}
  Owner <- MCOwner
  Contact = {a1, a2}
  Call = {c1, c2}
  Authorized = {b1}
  MaxEscRestarts = 2
  Doubles = TRUE
  SavesFail = TRUE
  User = {u1}
  MaxRequests = 2
  MaxTokens = 2
  TTL = 1
  Window = 1
  MaxAttempts = 2
  MaxTime = 2
  MaxLoginRestarts = 1
  AutoApprove = TRUE
  Service = {"smtp", "resend"}
  password = password
  signing_secret = signing_secret
  api_key = api_key
  Field = {password, signing_secret, api_key}
  SecretsOf <- MCSecretsOf
  Merging = {"resend"}
  Credential = {"smtp"}
  Value = {"good", "v:odd"}
  Good = {"good"}
  LooksEncrypted = {"v:odd"}
  Saver = {w1, w2}
  MaxSaves = 3
  MaxKey = 2
SPECIFICATION MCSpec
SYMMETRY MCSymmetry
INVARIANTS
  CockpitShowsRecorded
  SessionsAreApproved
  NobodyIsLockedOut
  WindowsAreLimited
  SecretsSurvive
  StatusIsOfConfig
PROPERTIES
  ResolutionsLast
\* the instance stops when its calls, requests, saves and restarts are used up
CHECK_DEADLOCK FALSE
