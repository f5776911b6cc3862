SPECIFICATION Spec
CONSTANTS
  Accounts = {A, B}
  Attempts = {n1, n2}
  Tasks = {t1}
  Legacy <- LegacyTokens
  None = None
SYMMETRY Symmetry
INVARIANTS
  TypeOK CloudSessionIsAlone SignInCanBeCancelled CancelEndsTheWait
  SessionMatchesKeychain DisconnectIsFinal
