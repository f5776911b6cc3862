SPECIFICATION Spec
CONSTANTS
  Accounts = {A, B}
  Attempts = {n1, n2}
  Tasks = {t1}
  Legacy = {None}
  None = None
INVARIANT BaseIsOfItsAccount
