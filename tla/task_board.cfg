SPECIFICATION FairSpec
CONSTANTS
  t1 = t1
  t2 = t2
  t3 = t3
  todo = todo
  done = done
  Tasks = {t1, t2, t3}
  Statuses = {todo, done}
  Requests = {r1, r2}
  MaxPos = 2
  FirstBoards <- Boards
INVARIANTS
  TypeOK
  
PROPERTIES
  MovesKeepOrder
  
CHECK_DEADLOCK FALSE
