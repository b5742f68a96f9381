SPECIFICATION Spec
CONSTANTS
  Users = {u1}
  NoUser = NoUser
  Workers = {w1, w2}
  Attempts = 2
  MaxWrites = 2
  MaxFaults = 1
  MaxAsked = 1
SYMMETRY Interchangeable
INVARIANTS
  TypeOK
  
  
CHECK_DEADLOCK FALSE
