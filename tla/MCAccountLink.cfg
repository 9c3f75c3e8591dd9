CONSTANTS
  Attempts = {a1, a2}
  Tokens = {t1, t2}
  NoToken = NoToken
  NoAttempt = NoAttempt
  MaxBusy = 2
SPECIFICATION Spec
INVARIANTS
  NoOrphanListener
PROPERTIES
  TokenIsKept
  CredentialsTakeEffect
  LinkAnnounces
