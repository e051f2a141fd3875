SPECIFICATION Spec
CONSTANTS
  w1 = w1
  w2 = w2
  w3 = w3
  n1 = n1
  n2 = n2
  Waiters <- MCWaiters
  Notifiers <- MCNotifiers
INVARIANT IInv
PROPERTY TokenSpec
