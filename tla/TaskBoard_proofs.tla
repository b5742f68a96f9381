------------------------- MODULE TaskBoard_proofs -------------------------
(***************************************************************************)
(* Theorems about TaskBoard: types, the uniqueness of positions and the    *)
(* order a move keeps, for any number of cards, columns and requests.      *)
(*                                                                         *)
(* While nothing is disturbed at most one request is active.  The          *)
(* invariant says what its transaction has written so far: at every step   *)
(* of a move, each row is what the statements finished by then make of the *)
(* committed row, and what they all make of a board in order is in order.  *)
(***************************************************************************)
EXTENDS TaskBoard, TLAPS

\* What the statement stmt of the move m makes of a card it finds.
Shiftable(m, stmt, card) == card.state # "absent" /\ Hit(m, stmt, card)
ShiftOf(m, stmt, card) == IF Shiftable(m, stmt, card) THEN Shifted(stmt, card) ELSE card

\* The card as stmt finds it, and as the last of the shifts leaves it.
Before(m, stmt, card) == IF stmt = "open" THEN ShiftOf(m, "close", card) ELSE card
LastShift(m) == IF m.from.status # m.to.status THEN "open" ELSE FirstShift(m.from, m.to)
Settled(m, card) == ShiftOf(m, LastShift(m), Before(m, LastShift(m), card))
Stmts(m) == {FirstShift(m.from, m.to), LastShift(m)}

Moving(r) == request[r].at \in MoveStep \cup {"rows"}

MoveGoesOn(r) ==
    LET m == request[r]
        others == Tasks \ {m.task} IN
    /\ Live(m.task) /\ m.from = SlotOf(m.task)
    /\ m.at \in Shift =>
          /\ m.at \in Stmts(m)
          /\ m.task \notin Written(r)
          /\ \A u \in others : View(r, u) = Before(m, m.at, row[u])
    /\ m.at = "rows" =>
          /\ m.stmt \in Stmts(m)
          /\ m.task \notin Written(r) /\ m.task \notin m.todo
          /\ \A u \in m.todo :
                /\ View(r, u) = Before(m, m.stmt, row[u])
                /\ Shiftable(m, m.stmt, View(r, u))
          /\ \A u \in others \ m.todo :
                View(r, u) = ShiftOf(m, m.stmt, Before(m, m.stmt, row[u]))
    /\ m.at \in {"place", "log", "commit"} =>
          \A u \in others : View(r, u) = Settled(m, row[u])
    /\ m.at = "place" => m.task \notin Written(r)
    /\ m.at \in {"log", "commit"} => View(r, m.task) = PutAt(row[m.task], m.to)

\* A swap remembers where its cards are, and has written the first one of them.
SwapGoesOn(r) ==
    LET m == request[r] IN
    /\ Live(m.one) /\ Live(m.other) /\ m.one # m.other
    /\ m.oneTo = SlotOf(m.other) /\ m.otherTo = SlotOf(m.one)
    /\ m.at = "second" =>
          \A t \in Tasks :
              View(r, t) = IF t = m.one THEN PutAt(row[t], m.oneTo) ELSE row[t]

\* A creation remembers a place below the column.
CreationGoesOn(r) == Bottom(request[r].slot.status, request[r].slot.position)

DraftsAreTransactions == \A r \in Requests : Written(r) # {} => InTransaction(r)

Undisturbed ==
    /\ InOrder(row)
    /\ \A r, q \in Requests : Active(r) /\ Active(q) => r = q
    /\ \A r \in Requests :
          /\ Moving(r) => MoveGoesOn(r)
          /\ request[r].at \in {"first", "second"} => SwapGoesOn(r)
          /\ At(r, "insert") => CreationGoesOn(r)

IInv == TypeOK /\ DraftsAreTransactions /\ (disturbed \/ Undisturbed)

-----------------------------------------------------------------------------
(* Kinds of requests, and what the transactions' views are made of.         *)

LEMMA RequestKinds ==
    ASSUME NEW q \in Request
    PROVE  /\ q.at \in MoveStep => q \in [at : MoveStep, task : Tasks, from : Slot, to : Target]
           /\ q.at = "rows" => q \in [at : {"rows"}, stmt : Shift, todo : SUBSET Tasks,
                                      task : Tasks, from : Slot, to : Target]
           /\ q.at = "insert" => q \in [at : {"insert"}, task : Tasks, slot : Slot]
           /\ q.at = "patch" => q \in [at : {"patch"}, task : Tasks, status : Statuses]
           /\ q.at = "delete" => q \in [at : {"delete"}, task : Tasks]
           /\ q.at \in {"first", "second"} =>
                 q \in [at : {"first", "second"}, one : Tasks, other : Tasks,
                        oneTo : Slot, otherTo : Slot]
BY DEF Request, Move, MoveStep, Shift

LEMMA MoveKinds ==
    ASSUME TypeOK, NEW r \in Requests, Moving(r)
    PROVE  request[r].task \in Tasks /\ request[r].from \in Slot /\ request[r].to \in Target
BY RequestKinds DEF TypeOK, Moving

LEMMA ViewType ==
    ASSUME TypeOK, NEW r \in Requests, NEW t \in Tasks
    PROVE  View(r, t) \in Row
BY DEF TypeOK, View, Written

LEMMA WriteViews ==
    ASSUME TypeOK, NEW r \in Requests, NEW t \in Tasks, NEW new \in Row, Write(r, t, new)
    PROVE  /\ draft' = [q \in Requests |-> draft'[q]]
           /\ \A q \in Requests : DOMAIN draft'[q] \subseteq Tasks /\ draft'[q] \in [DOMAIN draft'[q] -> Row]
           /\ \A q \in Requests \ {r} : draft'[q] = draft[q]
           /\ DOMAIN draft'[r] = Written(r) \cup {t}
           /\ row' = row => \A u \in Tasks : View(r, u)' = IF u = t THEN new ELSE View(r, u)
<1>1. draft'[r] = [u \in Written(r) \cup {t} |-> IF u = t THEN new ELSE View(r, u)]
  BY DEF Write, TypeOK
<1>2. draft' = [q \in Requests |-> draft'[q]] /\ \A q \in Requests \ {r} : draft'[q] = draft[q]
  BY DEF Write, TypeOK
<1>3. Written(r) \subseteq Tasks
  BY DEF TypeOK, Written
<1>4. \A u \in Tasks : View(r, u) \in Row
  BY ViewType
<1>5. DOMAIN draft'[r] = Written(r) \cup {t}
  BY <1>1
<1>6. draft'[r] \in [Written(r) \cup {t} -> Row]
  BY <1>1, <1>3, <1>4
<1>7. \A q \in Requests : DOMAIN draft'[q] \subseteq Tasks /\ draft'[q] \in [DOMAIN draft'[q] -> Row]
  BY <1>2, <1>3, <1>5, <1>6 DEF TypeOK
<1>8. ASSUME row' = row, NEW u \in Tasks
      PROVE  View(r, u)' = IF u = t THEN new ELSE View(r, u)
  <2>1. CASE u \in Written(r) \cup {t}
    BY <1>1, <1>5, <2>1 DEF View, Written
  <2>2. CASE u \notin Written(r) \cup {t}
    BY <1>5, <1>8, <2>2 DEF View, Written
  <2> QED BY <2>1, <2>2
<1> QED BY <1>2, <1>5, <1>7, <1>8

LEMMA CardsShift ==
    ASSUME NEW card \in Row, NEW stmt
    PROVE  /\ Shifted(stmt, card) \in Row
           /\ Shifted(stmt, card).state = card.state
           /\ Shifted(stmt, card).status = card.status
           /\ Shifted(stmt, card).position = IF stmt \in {"down", "close"} THEN card.position - 1
                                             ELSE card.position + 1
<1>1. card.position \in Int
  BY DEF Row
<1>2. /\ Shifted(stmt, card) \in Row
      /\ Shifted(stmt, card).state = card.state
      /\ Shifted(stmt, card).status = card.status
  BY <1>1 DEF Row, Shifted
<1>3. Shifted(stmt, card).position = IF stmt \in {"down", "close"} THEN card.position - 1
                                     ELSE card.position + 1
  BY <1>1 DEF Row, Shifted
<1> QED BY <1>2, <1>3

LEMMA CardsArePut ==
    ASSUME NEW card \in Row, NEW slot \in Slot
    PROVE  /\ PutAt(card, slot) \in Row
           /\ PutAt(card, slot).state = card.state
           /\ PutAt(card, slot).status = slot.status
           /\ PutAt(card, slot).position = slot.position
<1>1. card.position \in Int /\ slot.position \in Int /\ slot.status \in Statuses
  BY DEF Row, Slot
<1> QED BY <1>1 DEF Row, PutAt

LEMMA TargetsAreSlots == Target \subseteq Slot
BY MaxPosAssumption DEF Target, Slot

LEMMA ShiftedCards ==
    ASSUME NEW m, m.from \in Slot, m.to \in Slot, NEW stmt \in Shift, NEW card \in Row
    PROVE  /\ ShiftOf(m, stmt, card) \in Row
           /\ ShiftOf(m, stmt, card).state = card.state
           /\ ShiftOf(m, stmt, card).status = card.status
           /\ ShiftOf(m, stmt, card).position =
                 IF ~Shiftable(m, stmt, card) THEN card.position
                 ELSE IF stmt \in {"down", "close"} THEN card.position - 1 ELSE card.position + 1
<1>1. CASE Shiftable(m, stmt, card)
  <2>1. ShiftOf(m, stmt, card) = Shifted(stmt, card)
    BY <1>1 DEF ShiftOf
  <2> QED BY <1>1, <2>1, CardsShift
<1>2. CASE ~Shiftable(m, stmt, card)
  BY <1>2 DEF ShiftOf
<1> QED BY <1>1, <1>2

LEMMA BeforeCards ==
    ASSUME NEW m, m.from \in Slot, m.to \in Slot, NEW stmt \in Shift, NEW card \in Row
    PROVE  /\ Before(m, stmt, card) \in Row
           /\ Before(m, stmt, card).state = card.state
           /\ Before(m, stmt, card).status = card.status
BY ShiftedCards DEF Before, Shift

\* Where the shifts of a move put a card.
NewPosition(m, card) ==
    IF card.state = "absent" THEN card.position
    ELSE IF m.from.status # m.to.status
    THEN IF card.status = m.from.status /\ card.position >= m.from.position THEN card.position - 1
         ELSE IF card.status = m.to.status /\ card.position >= m.to.position THEN card.position + 1
         ELSE card.position
    ELSE IF card.status # m.from.status THEN card.position
    ELSE IF m.from.position < card.position /\ card.position <= m.to.position THEN card.position - 1
    ELSE IF m.to.position <= card.position /\ card.position < m.from.position THEN card.position + 1
    ELSE card.position

LEMMA SettledCards ==
    ASSUME NEW m, m.from \in Slot, m.to \in Slot, NEW card \in Row
    PROVE  /\ Settled(m, card) \in Row
           /\ Settled(m, card).state = card.state
           /\ Settled(m, card).status = card.status
           /\ Settled(m, card).position = NewPosition(m, card)
<1> DEFINE last == LastShift(m)
           found == Before(m, last, card)
<1>1. last \in Shift
  BY DEF LastShift, FirstShift, Shift
<1>2. /\ found \in Row /\ found.state = card.state /\ found.status = card.status
  BY <1>1, BeforeCards
<1>3. /\ Settled(m, card) \in Row
      /\ Settled(m, card).state = card.state
      /\ Settled(m, card).status = card.status
      /\ Settled(m, card).position =
            IF ~Shiftable(m, last, found) THEN found.position
            ELSE IF last \in {"down", "close"} THEN found.position - 1 ELSE found.position + 1
  BY <1>1, <1>2, ShiftedCards DEF Settled
<1>4. /\ card.position \in Int /\ m.from.position \in Int /\ m.to.position \in Int
      /\ found.position \in Int
  BY <1>2 DEF Row, Slot
<1>5. CASE m.from.status # m.to.status
  <2>1. last = "open" /\ found = ShiftOf(m, "close", card)
    BY <1>5 DEF LastShift, Before
  <2>2. found.position = IF Shiftable(m, "close", card) THEN card.position - 1 ELSE card.position
    BY <2>1, ShiftedCards DEF Shift
  <2>3. Shiftable(m, "close", card) <=>
           card.state # "absent" /\ card.status = m.from.status /\ card.position >= m.from.position
    BY DEF Shiftable, Hit
  <2>4. Shiftable(m, "open", found) <=>
           card.state # "absent" /\ card.status = m.to.status /\ found.position >= m.to.position
    BY <1>2 DEF Shiftable, Hit
  <2> HIDE DEF last, found
  <2> QED BY <1>3, <1>4, <1>5, <2>1, <2>2, <2>3, <2>4 DEF NewPosition
<1>6. CASE m.from.status = m.to.status /\ m.to.position > m.from.position
  <2>1. last = "down" /\ found = card
    BY <1>6 DEF LastShift, FirstShift, Before
  <2>2. Shiftable(m, "down", card) <=>
           /\ card.state # "absent" /\ card.status = m.from.status
           /\ m.from.position < card.position /\ card.position <= m.to.position
    BY DEF Shiftable, Hit
  <2> HIDE DEF last, found
  <2> QED BY <1>3, <1>4, <1>6, <2>1, <2>2 DEF NewPosition
<1>7. CASE m.from.status = m.to.status /\ ~(m.to.position > m.from.position)
  <2>1. last = "up" /\ found = card
    BY <1>7 DEF LastShift, FirstShift, Before
  <2>2. Shiftable(m, "up", card) <=>
           /\ card.state # "absent" /\ card.status = m.from.status
           /\ m.to.position <= card.position /\ card.position < m.from.position
    BY DEF Shiftable, Hit
  <2> HIDE DEF last, found
  <2> QED BY <1>3, <1>4, <1>7, <2>1, <2>2 DEF NewPosition
<1> QED BY <1>5, <1>6, <1>7

-----------------------------------------------------------------------------
(* A whole move.                                                            *)

LEMMA MovesOrder ==
    ASSUME NEW board \in [Tasks -> Row], InOrder(board),
           NEW m, m.task \in Tasks, m.from \in Slot, m.to \in Slot, m.to.position >= 0,
           board[m.task].state = "live",
           m.from.status = board[m.task].status, m.from.position = board[m.task].position,
           NEW after \in [Tasks -> Row],
           after[m.task] = PutAt(board[m.task], m.to),
           \A u \in Tasks \ {m.task} : after[u] = Settled(m, board[u])
    PROVE  /\ InOrder(after)
           /\ \A t, u \in Tasks \ {m.task} :
                 /\ board[t].state = "live" /\ board[u].state = "live"
                 /\ board[t].status = board[u].status
                 => (board[t].position < board[u].position
                     <=> after[t].position < after[u].position)
<1>1. \A u \in Tasks : board[u].position \in Int /\ after[u].position \in Int
  BY DEF Row
<1>2. m.from.position \in Int /\ m.to.position \in Int
  BY DEF Slot
<1>3. /\ after[m.task].state = "live"
      /\ after[m.task].status = m.to.status
      /\ after[m.task].position = m.to.position
  <2>1. board[m.task] \in Row
    OBVIOUS
  <2> QED BY <2>1, CardsArePut
<1>4. \A u \in Tasks \ {m.task} :
         /\ after[u].state = board[u].state /\ after[u].status = board[u].status
         /\ after[u].position = NewPosition(m, board[u])
  BY SettledCards
<1>5. \A u \in Tasks \ {m.task} :
         board[u].state = "live" /\ board[u].status = m.from.status
         => board[u].position # m.from.position
  BY DEF InOrder
<1>6. \A u \in Tasks : board[u].state = "live" => board[u].position >= 0
  BY DEF InOrder
<1>7. \A t, u \in Tasks \ {m.task} :
         /\ board[t].state = "live" /\ board[u].state = "live"
         /\ board[t].status = board[u].status
         => (board[t].position < board[u].position
             <=> NewPosition(m, board[t]) < NewPosition(m, board[u]))
  <2> SUFFICES ASSUME NEW t \in Tasks \ {m.task}, NEW u \in Tasks \ {m.task},
                      board[t].state = "live", board[u].state = "live",
                      board[t].status = board[u].status
               PROVE  board[t].position < board[u].position
                        <=> NewPosition(m, board[t]) < NewPosition(m, board[u])
    OBVIOUS
  <2>1. /\ board[t].position \in Int /\ board[u].position \in Int
        /\ board[t].status = m.from.status =>
              board[t].position # m.from.position /\ board[u].position # m.from.position
    BY <1>1, <1>5
  <2>2. CASE m.from.status # m.to.status
    BY ONLY <1>2, <2>1, <2>2, board[t].state = "live", board[u].state = "live",
            board[t].status = board[u].status DEF NewPosition
  <2>3. CASE m.from.status = m.to.status
    BY ONLY <1>2, <2>1, <2>3, board[t].state = "live", board[u].state = "live",
            board[t].status = board[u].status DEF NewPosition
  <2> QED BY <2>2, <2>3
<1>8. \A u \in Tasks \ {m.task} :
         board[u].state = "live" =>
             /\ NewPosition(m, board[u]) >= 0
             /\ board[u].status = m.to.status => NewPosition(m, board[u]) # m.to.position
  <2> SUFFICES ASSUME NEW u \in Tasks \ {m.task}, board[u].state = "live"
               PROVE  /\ NewPosition(m, board[u]) >= 0
                      /\ board[u].status = m.to.status
                         => NewPosition(m, board[u]) # m.to.position
    OBVIOUS
  <2>1. /\ board[u].position \in Int /\ board[u].position >= 0
        /\ board[u].status = m.from.status => board[u].position # m.from.position
    BY <1>1, <1>5, <1>6
  <2>2. m.to.position >= 0 /\ m.from.position >= 0
    BY <1>6
  <2>3. CASE m.from.status # m.to.status
    BY ONLY <1>2, <2>1, <2>2, <2>3, board[u].state = "live" DEF NewPosition
  <2>4. CASE m.from.status = m.to.status
    BY ONLY <1>2, <2>1, <2>2, <2>4, board[u].state = "live" DEF NewPosition
  <2> QED BY <2>3, <2>4
<1>9. \A t, u \in Tasks \ {m.task} :
         /\ t # u /\ board[t].state = "live" /\ board[u].state = "live"
         /\ board[t].status = board[u].status
         => NewPosition(m, board[t]) # NewPosition(m, board[u])
  BY <1>1, <1>4, <1>7 DEF InOrder
<1>10. InOrder(after)
  <2> SUFFICES ASSUME NEW t \in Tasks, after[t].state = "live"
               PROVE  /\ after[t].position >= 0
                      /\ \A u \in Tasks \ {t} :
                            after[u].state = "live" /\ after[u].status = after[t].status
                            => after[u].position # after[t].position
    BY DEF InOrder
  <2>1. CASE t = m.task
    BY <1>3, <1>4, <1>8, <2>1
  <2>2. CASE t # m.task
    BY <1>3, <1>4, <1>8, <1>9, <2>2
  <2> QED BY <2>1, <2>2
<1> QED BY <1>4, <1>7, <1>10
-----------------------------------------------------------------------------
(* Steps of a move.                                                         *)

LEMMA SameMove ==
    ASSUME NEW m, NEW n, m.from = n.from, m.to = n.to
    PROVE  /\ Stmts(m) = Stmts(n)
           /\ \A stmt, card :
                 /\ Shiftable(m, stmt, card) = Shiftable(n, stmt, card)
                 /\ ShiftOf(m, stmt, card) = ShiftOf(n, stmt, card)
                 /\ Before(m, stmt, card) = Before(n, stmt, card)
           /\ \A card : Settled(m, card) = Settled(n, card)
<1>1. Stmts(m) = Stmts(n) /\ LastShift(m) = LastShift(n)
  BY DEF Stmts, LastShift
<1>2. \A stmt, card : Hit(m, stmt, card) = Hit(n, stmt, card)
  BY DEF Hit
<1>3. \A stmt, card : Shiftable(m, stmt, card) = Shiftable(n, stmt, card)
  BY <1>2 DEF Shiftable
<1>4. \A stmt, card : ShiftOf(m, stmt, card) = ShiftOf(n, stmt, card)
  BY <1>3 DEF ShiftOf
<1>5. \A stmt, card : Before(m, stmt, card) = Before(n, stmt, card)
  BY <1>4 DEF Before
<1>6. \A card : Settled(m, card) = Settled(n, card)
  BY <1>1, <1>4, <1>5 DEF Settled
<1> QED BY <1>1, <1>3, <1>4, <1>5, <1>6

LEMMA StatementEnds ==
    ASSUME NEW m, NEW stmt \in Stmts(m), NEW card
    PROVE  LET result == ShiftOf(m, stmt, Before(m, stmt, card)) IN
           /\ stmt \in Shift
           /\ stmt = "close" => /\ After(stmt) = "open" /\ "open" \in Stmts(m)
                                /\ result = Before(m, "open", card)
           /\ stmt # "close" => After(stmt) = "place" /\ result = Settled(m, card)
<1>1. CASE m.from.status # m.to.status
  <2>1. FirstShift(m.from, m.to) = "close" /\ LastShift(m) = "open"
    BY <1>1 DEF FirstShift, LastShift
  <2> QED BY <2>1 DEF Stmts, Shift, After, Before, Settled
<1>2. CASE m.from.status = m.to.status
  <2>1. /\ FirstShift(m.from, m.to) = LastShift(m)
        /\ LastShift(m) \in {"down", "up"}
    BY <1>2 DEF FirstShift, LastShift
  <2> QED BY <2>1 DEF Stmts, Shift, After, Settled
<1> QED BY <1>1, <1>2

\* A step of the only active request.
LEMMA OneGoesOn ==
    ASSUME Undisturbed, NEW r \in Requests,
           \A q \in Requests \ {r} : ~Active(q) /\ request'[q] = request[q],
           InOrder(row'),
           Moving(r)' => MoveGoesOn(r)',
           request'[r].at \in {"first", "second"} => SwapGoesOn(r)',
           At(r, "insert")' => CreationGoesOn(r)'
    PROVE  Undisturbed'
<1>1. \A q \in Requests \ {r} :
         ~Active(q)' /\ ~Moving(q)' /\ request'[q].at \notin {"first", "second", "insert"}
  BY DEF Active, Moving, MoveStep, Shift
<1> QED BY <1>1 DEF Undisturbed, At

LEMMA OthersAreIdle ==
    ASSUME Undisturbed, NEW r \in Requests, Active(r)
    PROVE  \A q \in Requests \ {r} : ~Active(q)
BY DEF Undisturbed

\* Views do not change when neither the rows nor the drafts do.
LEMMA SameViews ==
    ASSUME UNCHANGED <<row, draft>>
    PROVE  \A r, t : /\ View(r, t)' = View(r, t) /\ Written(r)' = Written(r)
                     /\ Live(t)' = Live(t) /\ SlotOf(t)' = SlotOf(t)
BY DEF View, Written, Live, SlotOf

\* A request begins.
LEMMA BeginStep ==
    ASSUME IInv, NEW r \in Requests, NEW what \in Request, Begin(r, what),
           what.at \notin {"new", "done", "moved", "failed"},
           ~disturbed' /\ Moving(r)' => MoveGoesOn(r)',
           ~disturbed' /\ what.at \in {"first", "second"} => SwapGoesOn(r)',
           ~disturbed' /\ what.at = "insert" => CreationGoesOn(r)'
    PROVE  IInv'
<1>1. request' = [request EXCEPT ![r] = what] /\ UNCHANGED <<row, draft>> /\ disturbed' \in BOOLEAN
  BY DEF Begin, IInv, TypeOK
<1>2. TypeOK'
  BY <1>1 DEF IInv, TypeOK
<1>3. request'[r] = what /\ \A q \in Requests \ {r} : request'[q] = request[q]
  BY <1>1 DEF IInv, TypeOK
<1>4. Written(r) = {}
  BY DEF Begin, At, IInv, DraftsAreTransactions, InTransaction, MoveStep, Shift
<1>5. DraftsAreTransactions'
  BY <1>1, <1>3, <1>4 DEF IInv, DraftsAreTransactions, InTransaction, Written
<1>6. ASSUME ~disturbed' PROVE Undisturbed'
  <2>1. Undisturbed /\ \A q \in Requests : ~Active(q)
    BY <1>6 DEF Begin, IInv
  <2>2. InOrder(row')
    BY <1>1, <2>1 DEF Undisturbed
  <2> QED BY <1>3, <1>6, <2>1, <2>2, OneGoesOn DEF At
<1> QED BY <1>2, <1>5, <1>6 DEF IInv

LEMMA BeginMoveStep ==
    ASSUME IInv, NEW r \in Requests, NEW t \in Tasks, NEW to \in Target, BeginMove(r, t, to)
    PROVE  IInv'
<1> DEFINE from == [status |-> row[t].status, position |-> row[t].position]
           what == [at |-> FirstShift(from, to), task |-> t, from |-> from, to |-> to]
<1>1. Live(t) /\ Begin(r, what) /\ from = SlotOf(t)
  BY DEF BeginMove, SlotOf
<1>2. from \in Slot
  BY DEF IInv, TypeOK, Row, Slot
<1>3. what.at \in Shift \ {"open"}
  BY DEF FirstShift, Shift
<1>4. what \in Request
  BY <1>2, <1>3 DEF Request, Move, MoveStep
<1>5. UNCHANGED <<row, draft>> /\ request'[r] = what
  BY <1>1 DEF Begin, IInv, TypeOK
<1>6. Written(r) = {}
  BY <1>1 DEF Begin, At, IInv, DraftsAreTransactions, InTransaction, MoveStep, Shift
<1>7. \A u : View(r, u)' = row[u] /\ row'[u] = row[u]
  BY <1>5, <1>6, SameViews DEF View
<1>8. \A card : Before(what, what.at, card) = card
  BY <1>3 DEF Before
<1>9. what.at \in Stmts(what)
  BY DEF Stmts
<1>10. MoveGoesOn(r)'
  <2>1. Written(r)' = {} /\ Live(t)' /\ SlotOf(t)' = SlotOf(t)
    BY <1>1, <1>5, <1>6, SameViews
  <2> HIDE DEF from
  <2>2. what.task = t /\ what.from = from /\ what.at \notin {"rows", "place", "log", "commit"}
    BY <1>3 DEF Shift
  <2> HIDE DEF what
  <2> QED BY <1>1, <1>5, <1>7, <1>8, <1>9, <2>1, <2>2 DEF MoveGoesOn
<1>11. what.at \notin {"new", "done", "moved", "failed", "first", "second", "insert"}
  BY <1>3 DEF Shift
<1> HIDE DEF what
<1> QED BY <1>1, <1>4, <1>10, <1>11, BeginStep

LEMMA BeginSwapStep ==
    ASSUME IInv, NEW r \in Requests, NEW t \in Tasks, NEW u \in Tasks, BeginSwap(r, t, u)
    PROVE  IInv'
<1> DEFINE what == [at |-> "first", one |-> t, other |-> u,
                    oneTo |-> SlotOf(u), otherTo |-> SlotOf(t)]
<1>1. t # u /\ Live(t) /\ Live(u) /\ Begin(r, what)
  BY DEF BeginSwap
<1>2. SlotOf(t) \in Slot /\ SlotOf(u) \in Slot
  BY DEF IInv, TypeOK, Row, Slot, SlotOf
<1>3. what \in Request
  BY <1>2 DEF Request
<1>4. UNCHANGED <<row, draft>> /\ request'[r] = what
  BY <1>1 DEF Begin, IInv, TypeOK
<1>5. SwapGoesOn(r)'
  BY <1>1, <1>4, SameViews DEF SwapGoesOn
<1>6. ~Moving(r)'
  BY <1>4 DEF Moving, MoveStep, Shift
<1> QED BY <1>1, <1>3, <1>5, <1>6, BeginStep

LEMMA BeginCreateStep ==
    ASSUME IInv, NEW r \in Requests, NEW t \in Tasks, NEW s \in Statuses, NEW p \in Int,
           BeginCreate(r, t, s, p)
    PROVE  IInv'
<1> DEFINE what == [at |-> "insert", task |-> t, slot |-> [status |-> s, position |-> p]]
<1>1. Bottom(s, p) /\ Begin(r, what)
  BY DEF BeginCreate
<1>2. what \in Request
  BY DEF Request, Slot
<1>3. UNCHANGED <<row, draft>> /\ request'[r] = what
  BY <1>1 DEF Begin, IInv, TypeOK
<1>4. CreationGoesOn(r)'
  BY <1>1, <1>3 DEF CreationGoesOn, Bottom, Column, Live
<1>5. ~Moving(r)'
  BY <1>3 DEF Moving, MoveStep, Shift
<1> QED BY <1>1, <1>2, <1>4, <1>5, BeginStep

LEMMA BeginOtherStep ==
    ASSUME IInv, NEW r \in Requests, NEW t \in Tasks,
           BeginDelete(r, t) \/ \E s \in Statuses : BeginPatch(r, t, s)
    PROVE  IInv'
<1>1. CASE BeginDelete(r, t)
  <2> DEFINE what == [at |-> "delete", task |-> t]
  <2>1. Begin(r, what) /\ what \in Request
    BY <1>1 DEF BeginDelete, Request
  <2>2. request'[r] = what
    BY <2>1 DEF Begin, IInv, TypeOK
  <2>3. ~Moving(r)'
    BY <2>2 DEF Moving, MoveStep, Shift
  <2> QED BY <2>1, <2>3, BeginStep
<1>2. ASSUME NEW s \in Statuses, BeginPatch(r, t, s) PROVE IInv'
  <2> DEFINE what == [at |-> "patch", task |-> t, status |-> s]
  <2>1. Begin(r, what) /\ what \in Request
    BY <1>2 DEF BeginPatch, Request
  <2>2. request'[r] = what
    BY <2>1 DEF Begin, IInv, TypeOK
  <2>3. ~Moving(r)'
    BY <2>2 DEF Moving, MoveStep, Shift
  <2> QED BY <2>1, <2>3, BeginStep
<1> QED BY <1>1, <1>2

\* A request goes on: the board and the requests stay typed, drafts belong to
\* transactions, and nothing else moves.
LEMMA ContinueStep ==
    ASSUME IInv, NEW r \in Requests, Active(r), NEW what \in Request,
           request' = [request EXCEPT ![r] = what],
           row' \in [Tasks -> Row],
           draft' = [q \in Requests |-> draft'[q]],
           \A q \in Requests :
               DOMAIN draft'[q] \subseteq Tasks /\ draft'[q] \in [DOMAIN draft'[q] -> Row],
           \A q \in Requests \ {r} : draft'[q] = draft[q],
           Written(r)' # {} => InTransaction(r)',
           disturbed' \in BOOLEAN, disturbed => disturbed',
           ~disturbed' => InOrder(row'),
           ~disturbed' /\ Moving(r)' => MoveGoesOn(r)',
           ~disturbed' /\ what.at \in {"first", "second"} => SwapGoesOn(r)',
           what.at # "insert"
    PROVE  IInv'
<1>1. TypeOK'
  BY DEF IInv, TypeOK
<1>2. request'[r] = what /\ \A q \in Requests \ {r} : request'[q] = request[q]
  BY DEF IInv, TypeOK
<1>3. DraftsAreTransactions'
  <2> SUFFICES ASSUME NEW q \in Requests PROVE Written(q)' # {} => InTransaction(q)'
    BY DEF DraftsAreTransactions
  <2>1. CASE q = r
    BY <2>1
  <2>2. CASE q # r
    BY <1>2, <2>2 DEF IInv, DraftsAreTransactions, Written, InTransaction
  <2> QED BY <2>1, <2>2
<1>4. ASSUME ~disturbed' PROVE Undisturbed'
  <2>1. Undisturbed
    BY <1>4 DEF IInv, TypeOK
  <2>2. \A q \in Requests \ {r} : ~Active(q)
    BY <2>1, OthersAreIdle
  <2> QED BY <1>2, <1>4, <2>1, <2>2, OneGoesOn DEF At
<1> QED BY <1>1, <1>3, <1>4 DEF IInv

LEMMA BeginShiftStep ==
    ASSUME IInv, NEW r \in Requests, BeginShift(r)
    PROVE  IInv'
<1> DEFINE m == request[r]
           hits == {u \in Tasks \ {m.task} : /\ View(r, u).state # "absent"
                                             /\ Hit(m, m.at, View(r, u))}
           what == IF hits = {} THEN [m EXCEPT !.at = After(m.at)]
                   ELSE [at |-> "rows", stmt |-> m.at, todo |-> hits,
                         task |-> m.task, from |-> m.from, to |-> m.to]
<1>1. m.at \in Shift /\ request' = [request EXCEPT ![r] = what] /\ UNCHANGED <<row, draft, disturbed>>
  BY DEF BeginShift
<1>2. m \in [at : MoveStep, task : Tasks, from : Slot, to : Target]
  BY <1>1, RequestKinds DEF MoveStep, IInv, TypeOK
<1>3. Active(r) /\ Moving(r)
  BY <1>1 DEF Active, Moving, MoveStep, Shift
<1>4. request'[r] = what
  BY <1>1 DEF IInv, TypeOK
<1>5. what.task = m.task /\ what.from = m.from /\ what.to = m.to
  BY <1>2
<1>6. CASE hits = {}
  <2>1. what = [m EXCEPT !.at = After(m.at)] /\ After(m.at) \in {"open", "place"}
    BY <1>6 DEF After
  <2>2. what.at = After(m.at) /\ what \in [at : MoveStep, task : Tasks, from : Slot, to : Target]
    BY <1>2, <2>1 DEF MoveStep, Shift
  <2>3. what \in Request
    BY <2>2 DEF Request, Move
  <2>4. ASSUME ~disturbed PROVE MoveGoesOn(r)'
    <3>1. MoveGoesOn(r)
      BY <1>3, <2>4 DEF IInv, Undisturbed
    <3>2. m.at \in Stmts(m) /\ m.task \notin Written(r)
      BY <1>1, <3>1 DEF MoveGoesOn
    <3>3. ASSUME NEW u \in Tasks \ {m.task}
          PROVE  View(r, u)' = ShiftOf(m, m.at, Before(m, m.at, row[u]))
      <4>1. View(r, u) = Before(m, m.at, row[u])
        BY <1>1, <3>1 DEF MoveGoesOn
      <4>2. ~Shiftable(m, m.at, View(r, u))
        BY <1>6 DEF Shiftable
      <4> QED BY <1>1, <4>1, <4>2, SameViews DEF ShiftOf
    <3>4. /\ Live(m.task) /\ m.from = SlotOf(m.task)
          /\ m.task \notin Written(r)' /\ Written(r)' = Written(r) /\ row' = row
      BY <1>1, <3>1, <3>2, SameViews DEF MoveGoesOn
    <3>5. CASE m.at = "close"
      <4>1. what.at = "open" /\ "open" \in Stmts(m)
        BY <2>2, <3>2, <3>5, StatementEnds
      <4>2. \A u \in Tasks \ {m.task} : View(r, u)' = Before(m, "open", row[u])
        BY <3>2, <3>3, <3>5, StatementEnds
      <4>3. /\ what.at \in Stmts(what)
            /\ \A card : Before(what, what.at, card) = Before(m, "open", card)
        <5> HIDE DEF what, m
        <5> QED BY <1>5, <4>1, SameMove
      <4> HIDE DEF what
      <4> QED BY <1>4, <1>5, <3>4, <4>1, <4>2, <4>3 DEF MoveGoesOn, Live, SlotOf, Shift
    <3>6. CASE m.at # "close"
      <4>1. what.at = "place"
        BY <2>2, <3>2, <3>6, StatementEnds
      <4>2. \A u \in Tasks \ {m.task} : View(r, u)' = Settled(m, row[u])
        BY <3>2, <3>3, <3>6, StatementEnds
      <4>3. \A card : Settled(what, card) = Settled(m, card)
        <5> HIDE DEF what, m
        <5> QED BY <1>5, SameMove
      <4> HIDE DEF what
      <4> QED BY <1>4, <1>5, <3>4, <4>1, <4>2, <4>3 DEF MoveGoesOn, Live, SlotOf, Shift
    <3> QED BY <3>5, <3>6
  <2>5. InTransaction(r)' /\ what.at \notin {"first", "second", "insert"}
    BY <1>4, <2>2, <2>1 DEF InTransaction, MoveStep, Shift
  <2>6. ~disturbed => InOrder(row')
    BY <1>1 DEF IInv, Undisturbed
  <2> HIDE DEF what
  <2> QED BY <1>1, <1>3, <2>3, <2>4, <2>5, <2>6, ContinueStep DEF IInv, TypeOK
<1>7. CASE hits # {}
  <2>1. what = [at |-> "rows", stmt |-> m.at, todo |-> hits,
                task |-> m.task, from |-> m.from, to |-> m.to]
    BY <1>7
  <2>2. hits \subseteq Tasks \ {m.task}
    OBVIOUS
  <2> HIDE DEF hits
  <2>3. what \in Request
    BY <1>1, <1>2, <2>1, <2>2 DEF Request, Move
  <2>4. ASSUME ~disturbed PROVE MoveGoesOn(r)'
    <3>1. MoveGoesOn(r)
      BY <1>3, <2>4 DEF IInv, Undisturbed
    <3>2. m.at \in Stmts(m) /\ m.task \notin Written(r)
      BY <1>1, <3>1 DEF MoveGoesOn
    <3>3. \A u \in Tasks \ {m.task} : View(r, u)' = Before(m, m.at, row[u])
      BY <1>1, <3>1, SameViews DEF MoveGoesOn
    <3>4. \A u \in Tasks \ {m.task} : u \in hits <=> Shiftable(m, m.at, View(r, u)')
      BY <1>1, SameViews DEF Shiftable, hits
    <3>5. /\ Live(m.task) /\ m.from = SlotOf(m.task)
          /\ m.task \notin Written(r)' /\ Written(r)' = Written(r) /\ row' = row
      BY <1>1, <3>1, <3>2, SameViews DEF MoveGoesOn
    <3>6. \A u \in (Tasks \ {m.task}) \ hits :
             View(r, u)' = ShiftOf(m, m.at, Before(m, m.at, row[u]))
      BY <3>3, <3>4 DEF ShiftOf
    <3>7. /\ m.at \in Stmts(what)
          /\ \A stmt, card :
                /\ Shiftable(what, stmt, card) = Shiftable(m, stmt, card)
                /\ ShiftOf(what, stmt, card) = ShiftOf(m, stmt, card)
                /\ Before(what, stmt, card) = Before(m, stmt, card)
      <4> HIDE DEF what, m
      <4> QED BY <1>5, <3>2, SameMove
    <3>8. what.at = "rows" /\ what.stmt = m.at /\ what.todo = hits
      BY <2>1
    <3> HIDE DEF what
    <3> QED BY <1>4, <1>5, <2>2, <3>3, <3>4, <3>5, <3>6, <3>7, <3>8 DEF MoveGoesOn, Live, SlotOf, Shift
  <2>5. InTransaction(r)' /\ what.at \notin {"first", "second", "insert"}
    BY <1>4, <2>1 DEF InTransaction
  <2>6. ~disturbed => InOrder(row')
    BY <1>1 DEF IInv, Undisturbed
  <2> HIDE DEF what
  <2> QED BY <1>1, <1>3, <2>3, <2>4, <2>5, <2>6, ContinueStep DEF IInv, TypeOK
<1> QED BY <1>6, <1>7

LEMMA ShiftRowStep ==
    ASSUME IInv, NEW r \in Requests, NEW u \in Tasks, ShiftRow(r, u)
    PROVE  IInv'
<1> DEFINE m == request[r]
           rest == m.todo \ {u}
           what == IF rest # {} THEN [m EXCEPT !.todo = rest]
                   ELSE [at |-> After(m.stmt), task |-> m.task, from |-> m.from, to |-> m.to]
           new == Shifted(m.stmt, View(r, u))
<1>1. /\ m.at = "rows" /\ u \in m.todo
      /\ IF Hit(m, m.stmt, View(r, u)) THEN Write(r, u, new) ELSE UNCHANGED draft
      /\ request' = [request EXCEPT ![r] = what] /\ UNCHANGED <<row, disturbed>>
  BY DEF ShiftRow, At
<1>2. m \in [at : {"rows"}, stmt : Shift, todo : SUBSET Tasks,
             task : Tasks, from : Slot, to : Target]
  BY <1>1, RequestKinds DEF IInv, TypeOK
<1>3. Active(r) /\ Moving(r)
  BY <1>1 DEF Active, Moving
<1>4. request'[r] = what /\ TypeOK
  BY <1>1 DEF IInv, TypeOK
<1>5. what.task = m.task /\ what.from = m.from /\ what.to = m.to
  BY <1>2
<1>6. View(r, u) \in Row /\ new \in Row
  BY <1>4, ViewType, CardsShift
<1>7. /\ draft' = [q \in Requests |-> draft'[q]]
      /\ \A q \in Requests : DOMAIN draft'[q] \subseteq Tasks /\ draft'[q] \in [DOMAIN draft'[q] -> Row]
      /\ \A q \in Requests \ {r} : draft'[q] = draft[q]
      /\ Written(r)' \subseteq Written(r) \cup {u}
  <2> HIDE DEF new
  <2>1. CASE Write(r, u, new)
    BY <1>4, <1>6, <2>1, WriteViews DEF Written
  <2>2. CASE UNCHANGED draft
    BY <1>4, <2>2 DEF TypeOK, Written
  <2> QED BY <1>1, <2>1, <2>2
<1>8. ASSUME ~disturbed
      PROVE  /\ MoveGoesOn(r) /\ m.stmt \in Stmts(m) /\ u # m.task
             /\ m.task \notin Written(r)'
             /\ \A v \in Tasks :
                   View(r, v)' = IF v = u THEN ShiftOf(m, m.stmt, Before(m, m.stmt, row[u]))
                                 ELSE View(r, v)
  <2>1. MoveGoesOn(r)
    BY <1>3, <1>8 DEF IInv, Undisturbed
  <2>2. /\ View(r, u) = Before(m, m.stmt, row[u]) /\ Shiftable(m, m.stmt, View(r, u))
        /\ m.stmt \in Stmts(m) /\ m.task \notin Written(r) /\ u # m.task
    BY <1>1, <2>1 DEF MoveGoesOn
  <2>3. new = ShiftOf(m, m.stmt, Before(m, m.stmt, row[u])) /\ Write(r, u, new)
    BY <1>1, <2>2 DEF ShiftOf, Shiftable
  <2> HIDE DEF new
  <2>4. \A v \in Tasks : View(r, v)' = IF v = u THEN new ELSE View(r, v)
    BY <1>1, <1>4, <1>6, <2>3, WriteViews
  <2> QED BY <1>7, <2>1, <2>2, <2>3, <2>4
<1>9. CASE rest # {}
  <2>1. what = [m EXCEPT !.todo = rest] /\ what.at = "rows" /\ what.stmt = m.stmt /\ what.todo = rest
    BY <1>1, <1>2, <1>9
  <2>2. what \in Request
    BY <1>2, <2>1 DEF Request, Move
  <2>3. ASSUME ~disturbed PROVE MoveGoesOn(r)'
    <3>1. /\ Live(m.task) /\ m.from = SlotOf(m.task) /\ row' = row /\ m.task \notin rest
          /\ \A v \in rest :
                /\ View(r, v)' = Before(m, m.stmt, row[v])
                /\ Shiftable(m, m.stmt, View(r, v)')
          /\ \A v \in (Tasks \ {m.task}) \ rest :
                View(r, v)' = ShiftOf(m, m.stmt, Before(m, m.stmt, row[v]))
      BY <1>1, <1>2, <1>8, <2>3 DEF MoveGoesOn
    <3>2. /\ m.stmt \in Stmts(what)
          /\ \A stmt, card :
                /\ Shiftable(what, stmt, card) = Shiftable(m, stmt, card)
                /\ ShiftOf(what, stmt, card) = ShiftOf(m, stmt, card)
                /\ Before(what, stmt, card) = Before(m, stmt, card)
      <4>1. m.stmt \in Stmts(m)
        BY <1>8, <2>3
      <4> HIDE DEF what, m
      <4> QED BY <1>5, <4>1, SameMove
    <3>3. /\ row'[m.task].state = "live"
          /\ m.from = [status |-> row'[m.task].status, position |-> row'[m.task].position]
      BY <3>1 DEF Live, SlotOf
    <3>4. m.task \notin Written(r)'
      BY <1>8, <2>3
    <3> HIDE DEF what, rest
    <3> QED BY <1>4, <1>5, <2>1, <3>1, <3>2, <3>3, <3>4 DEF MoveGoesOn, Live, SlotOf, Shift
  <2>4. InTransaction(r)' /\ what.at \notin {"first", "second", "insert"}
    BY <1>4, <2>1 DEF InTransaction
  <2>5. ~disturbed => InOrder(row')
    BY <1>1 DEF IInv, Undisturbed
  <2> HIDE DEF what
  <2> QED BY <1>1, <1>3, <1>7, <2>2, <2>3, <2>4, <2>5, ContinueStep DEF IInv, TypeOK
<1>10. CASE rest = {}
  <2>1. what = [at |-> After(m.stmt), task |-> m.task, from |-> m.from, to |-> m.to]
    BY <1>10
  <2>2. what.at = After(m.stmt) /\ After(m.stmt) \in {"open", "place"}
    BY <2>1 DEF After
  <2>3. what \in Request
    BY <1>2, <2>1, <2>2 DEF Request, Move, MoveStep, Shift
  <2>4. ASSUME ~disturbed PROVE MoveGoesOn(r)'
    <3>1. /\ Live(m.task) /\ m.from = SlotOf(m.task) /\ row' = row
          /\ \A v \in Tasks \ {m.task} :
                View(r, v)' = ShiftOf(m, m.stmt, Before(m, m.stmt, row[v]))
      BY <1>1, <1>2, <1>8, <1>10, <2>4 DEF MoveGoesOn
    <3>2. m.stmt \in Stmts(m)
      BY <1>8, <2>4
    <3>3. CASE m.stmt = "close"
      <4>1. what.at = "open" /\ "open" \in Stmts(m)
        BY <2>2, <3>2, <3>3, StatementEnds
      <4>2. \A v \in Tasks \ {m.task} : View(r, v)' = Before(m, "open", row[v])
        BY <3>1, <3>2, <3>3, StatementEnds
      <4>3. /\ what.at \in Stmts(what)
            /\ \A card : Before(what, what.at, card) = Before(m, "open", card)
        <5> HIDE DEF what, m
        <5> QED BY <1>5, <4>1, SameMove
      <4> HIDE DEF what
      <4> QED BY <1>4, <1>5, <1>8, <2>4, <3>1, <4>1, <4>2, <4>3 DEF MoveGoesOn, Live, SlotOf, Shift
    <3>4. CASE m.stmt # "close"
      <4>1. what.at = "place"
        BY <2>2, <3>2, <3>4, StatementEnds
      <4>2. \A v \in Tasks \ {m.task} : View(r, v)' = Settled(m, row[v])
        BY <3>1, <3>2, <3>4, StatementEnds
      <4>3. \A card : Settled(what, card) = Settled(m, card)
        <5> HIDE DEF what, m
        <5> QED BY <1>5, SameMove
      <4> HIDE DEF what
      <4> QED BY <1>4, <1>5, <1>8, <2>4, <3>1, <4>1, <4>2, <4>3 DEF MoveGoesOn, Live, SlotOf, Shift
    <3> QED BY <3>3, <3>4
  <2>5. InTransaction(r)' /\ what.at \notin {"first", "second", "insert"}
    BY <1>4, <2>2 DEF InTransaction, MoveStep, Shift
  <2>6. ~disturbed => InOrder(row')
    BY <1>1 DEF IInv, Undisturbed
  <2> HIDE DEF what
  <2> QED BY <1>1, <1>3, <1>7, <2>3, <2>4, <2>5, <2>6, ContinueStep DEF IInv, TypeOK
<1> QED BY <1>9, <1>10

LEMMA PlaceStep ==
    ASSUME IInv, NEW r \in Requests, Place(r)
    PROVE  IInv'
<1> DEFINE m == request[r]
           what == [m EXCEPT !.at = "log"]
           new == PutAt(View(r, m.task), m.to)
<1>1. /\ m.at = "place" /\ Write(r, m.task, new) /\ UNCHANGED <<row, disturbed>>
      /\ request' = [request EXCEPT ![r].at = "log"]
  BY DEF Place, At, Goto, PutAt
<1>2. m \in [at : MoveStep, task : Tasks, from : Slot, to : Target]
  BY <1>1, RequestKinds DEF MoveStep, IInv, TypeOK
<1>3. Active(r) /\ Moving(r) /\ TypeOK
  BY <1>1 DEF Active, Moving, MoveStep, IInv
<1>4. request' = [request EXCEPT ![r] = what] /\ request'[r] = what
  BY <1>1, <1>3 DEF TypeOK
<1>5. /\ what.task = m.task /\ what.from = m.from /\ what.to = m.to /\ what.at = "log"
      /\ what \in [at : MoveStep, task : Tasks, from : Slot, to : Target]
  BY <1>2 DEF MoveStep
<1>6. what \in Request
  BY <1>5 DEF Request, Move
<1>7. new \in Row
  BY <1>2, <1>3, ViewType, CardsArePut, TargetsAreSlots
<1> HIDE DEF what, new
<1>8. /\ draft' = [q \in Requests |-> draft'[q]]
      /\ \A q \in Requests : DOMAIN draft'[q] \subseteq Tasks /\ draft'[q] \in [DOMAIN draft'[q] -> Row]
      /\ \A q \in Requests \ {r} : draft'[q] = draft[q]
      /\ \A v \in Tasks : View(r, v)' = IF v = m.task THEN new ELSE View(r, v)
  BY <1>1, <1>2, <1>3, <1>7, WriteViews
<1>9. ASSUME ~disturbed PROVE MoveGoesOn(r)'
  <2>1. MoveGoesOn(r)
    BY <1>3, <1>9 DEF IInv, Undisturbed
  <2>2. new = PutAt(row[m.task], m.to)
    BY <1>1, <2>1 DEF MoveGoesOn, View, new
  <2>3. \A v \in Tasks \ {m.task} : View(r, v)' = Settled(m, row[v])
    BY <1>1, <1>8, <2>1 DEF MoveGoesOn
  <2>4. \A card : Settled(what, card) = Settled(m, card)
    <3> HIDE DEF m
    <3> QED BY <1>5, SameMove
  <2>5. Live(m.task)' /\ m.from = SlotOf(m.task)' /\ row'[m.task] = row[m.task]
    BY <1>1, <2>1 DEF MoveGoesOn, Live, SlotOf
  <2>6. /\ \A v \in Tasks \ {m.task} : View(r, v)' = Settled(what, row'[v])
        /\ View(r, m.task)' = PutAt(row'[m.task], m.to)
    BY <1>1, <1>2, <1>8, <2>2, <2>3, <2>4
  <2> QED BY <1>4, <1>5, <2>5, <2>6 DEF MoveGoesOn, Shift
<1>10. InTransaction(r)' /\ what.at \notin {"first", "second", "insert"}
  BY <1>4, <1>5 DEF InTransaction, MoveStep
<1>11. ~disturbed => InOrder(row')
  BY <1>1 DEF IInv, Undisturbed
<1> QED BY <1>1, <1>3, <1>4, <1>6, <1>8, <1>9, <1>10, <1>11, ContinueStep DEF IInv, TypeOK

LEMMA LogMovedStep ==
    ASSUME IInv, NEW r \in Requests, LogMoved(r)
    PROVE  IInv'
<1> DEFINE m == request[r]
           what == [m EXCEPT !.at = "commit"]
<1>1. /\ m.at = "log" /\ UNCHANGED <<row, draft, disturbed>>
      /\ request' = [request EXCEPT ![r].at = "commit"]
  BY DEF LogMoved, At, Goto
<1>2. m \in [at : MoveStep, task : Tasks, from : Slot, to : Target]
  BY <1>1, RequestKinds DEF MoveStep, IInv, TypeOK
<1>3. Active(r) /\ Moving(r) /\ TypeOK
  BY <1>1 DEF Active, Moving, MoveStep, IInv
<1>4. request' = [request EXCEPT ![r] = what] /\ request'[r] = what
  BY <1>1, <1>3 DEF TypeOK
<1>5. /\ what.task = m.task /\ what.from = m.from /\ what.to = m.to /\ what.at = "commit"
      /\ what \in [at : MoveStep, task : Tasks, from : Slot, to : Target]
  BY <1>2 DEF MoveStep
<1>6. what \in Request
  BY <1>5 DEF Request, Move
<1> HIDE DEF what
<1>7. ASSUME ~disturbed PROVE MoveGoesOn(r)'
  <2>1. MoveGoesOn(r)
    BY <1>3, <1>7 DEF IInv, Undisturbed
  <2>2. /\ \A v \in Tasks \ {m.task} : View(r, v)' = Settled(m, row[v])
        /\ View(r, m.task) = PutAt(row[m.task], m.to)
        /\ \A v : View(r, v)' = View(r, v)
    BY <1>1, <2>1, SameViews DEF MoveGoesOn
  <2>3. \A card : Settled(what, card) = Settled(m, card)
    <3> HIDE DEF m
    <3> QED BY <1>5, SameMove
  <2>4. Live(m.task)' /\ m.from = SlotOf(m.task)'
    BY <1>1, <2>1 DEF MoveGoesOn, Live, SlotOf
  <2>5. /\ \A v \in Tasks \ {m.task} : View(r, v)' = Settled(what, row'[v])
        /\ View(r, m.task)' = PutAt(row'[m.task], m.to)
    BY <1>1, <1>2, <2>2, <2>3
  <2> QED BY <1>4, <1>5, <2>4, <2>5 DEF MoveGoesOn, Shift
<1>8. InTransaction(r)' /\ what.at \notin {"first", "second", "insert"}
  BY <1>4, <1>5 DEF InTransaction, MoveStep
<1>9. ~disturbed => InOrder(row')
  BY <1>1 DEF IInv, Undisturbed
<1> QED BY <1>1, <1>3, <1>4, <1>6, <1>7, <1>8, <1>9, ContinueStep DEF IInv, TypeOK

-----------------------------------------------------------------------------
(* How requests end.                                                        *)

LEMMA EmptyDraft ==
    ASSUME TypeOK, NEW r \in Requests, NoDraft(r)
    PROVE  /\ draft' = [q \in Requests |-> draft'[q]]
           /\ \A q \in Requests :
                 DOMAIN draft'[q] \subseteq Tasks /\ draft'[q] \in [DOMAIN draft'[q] -> Row]
           /\ \A q \in Requests \ {r} : draft'[q] = draft[q]
           /\ Written(r)' = {}
<1>1. draft'[r] = [t \in {} |-> row[t]] /\ \A q \in Requests \ {r} : draft'[q] = draft[q]
  BY DEF NoDraft, TypeOK
<1>2. draft' = [q \in Requests |-> draft'[q]]
  BY DEF NoDraft, TypeOK
<1>3. DOMAIN draft'[r] = {} /\ draft'[r] \in [{} -> Row]
  BY <1>1
<1> QED BY <1>1, <1>2, <1>3 DEF TypeOK, Written

LEMMA EndStep ==
    ASSUME IInv, NEW r \in Requests, Active(r), NEW how \in {"done", "moved", "failed"}, End(r, how),
           row' \in [Tasks -> Row],
           NoDraft(r) \/ (UNCHANGED draft /\ Written(r) = {}),
           disturbed' \in BOOLEAN, disturbed => disturbed',
           ~disturbed' => InOrder(row')
    PROVE  IInv'
<1> DEFINE what == [at |-> how]
<1>1. what \in Request /\ request' = [request EXCEPT ![r] = what] /\ request'[r] = what
  BY DEF End, Request, IInv, TypeOK
<1>2. /\ draft' = [q \in Requests |-> draft'[q]]
      /\ \A q \in Requests :
            DOMAIN draft'[q] \subseteq Tasks /\ draft'[q] \in [DOMAIN draft'[q] -> Row]
      /\ \A q \in Requests \ {r} : draft'[q] = draft[q]
      /\ Written(r)' = {}
  BY EmptyDraft DEF IInv, TypeOK, Written
<1>3. ~Moving(r)' /\ what.at \notin {"first", "second", "insert"}
  BY <1>1 DEF Moving, MoveStep, Shift
<1> HIDE DEF what
<1> QED BY <1>1, <1>2, <1>3, ContinueStep

LEMMA CommitStep ==
    ASSUME IInv, NEW r \in Requests, Commit(r)
    PROVE  /\ IInv'
           /\ ~disturbed =>
                 LET m == request[r] IN
                 /\ row'[m.task].status = m.to.status
                 /\ row'[m.task].position = m.to.position
                 /\ \A t, u \in Tasks \ {m.task} :
                       Live(t) /\ Live(u) /\ row[t].status = row[u].status =>
                           (row[t].position < row[u].position
                            <=> row'[t].position < row'[u].position)
<1> DEFINE m == request[r]
<1>1. /\ m.at = "commit" /\ row' = [t \in Tasks |-> View(r, t)] /\ NoDraft(r) /\ End(r, "moved")
      /\ UNCHANGED disturbed
  BY DEF Commit, At, Publish
<1>2. /\ m \in [at : MoveStep, task : Tasks, from : Slot, to : Target]
      /\ Active(r) /\ Moving(r) /\ TypeOK
  BY <1>1, RequestKinds DEF MoveStep, IInv, TypeOK, Active, Moving
<1>3. row' \in [Tasks -> Row] /\ row \in [Tasks -> Row]
  BY <1>1, <1>2, ViewType DEF TypeOK
<1>4. ASSUME ~disturbed
      PROVE  /\ InOrder(row')
             /\ row'[m.task] = PutAt(row[m.task], m.to)
             /\ \A t, u \in Tasks \ {m.task} :
                   /\ row[t].state = "live" /\ row[u].state = "live"
                   /\ row[t].status = row[u].status
                   => (row[t].position < row[u].position
                       <=> row'[t].position < row'[u].position)
  <2>1. MoveGoesOn(r) /\ InOrder(row)
    BY <1>2, <1>4 DEF IInv, Undisturbed
  <2>2. /\ row'[m.task] = PutAt(row[m.task], m.to)
        /\ \A v \in Tasks \ {m.task} : row'[v] = Settled(m, row[v])
    BY <1>1, <1>2, <2>1 DEF MoveGoesOn
  <2>3. /\ row[m.task].state = "live"
        /\ m.from.status = row[m.task].status /\ m.from.position = row[m.task].position
    BY <2>1 DEF MoveGoesOn, Live, SlotOf
  <2>4. m.task \in Tasks /\ m.from \in Slot /\ m.to \in Slot /\ m.to.position >= 0
    BY <1>2, TargetsAreSlots, MaxPosAssumption DEF Target
  <2> HIDE DEF m
  <2> QED BY <1>3, <2>1, <2>2, <2>3, <2>4, MovesOrder
<1>5. IInv'
  BY <1>1, <1>2, <1>3, <1>4, EndStep DEF TypeOK
<1>6. ~disturbed => row'[m.task].status = m.to.status /\ row'[m.task].position = m.to.position
  <2>1. row[m.task] \in Row /\ m.to \in Slot
    BY <1>2, <1>3, TargetsAreSlots
  <2> QED BY <1>4, <2>1, CardsArePut
<1> QED BY <1>4, <1>5, <1>6 DEF Live

LEMMA FailStep ==
    ASSUME IInv, NEW r \in Requests, Rollback(r) \/ Victim(r)
    PROVE  IInv'
<1>1. NoDraft(r) /\ End(r, "failed") /\ UNCHANGED <<row, disturbed>>
  BY DEF Rollback, Victim
<1>2. Active(r)
  BY DEF Rollback, Victim, InTransaction, Active, MoveStep, Shift, Blocked, Wanted, At
<1> QED BY <1>1, <1>2, EndStep DEF IInv, TypeOK, Undisturbed

LEMMA InsertStep ==
    ASSUME IInv, NEW r \in Requests, Insert(r)
    PROVE  IInv'
<1> DEFINE new == request[r]
           card == [state |-> "live", status |-> new.slot.status, position |-> new.slot.position]
<1>1. /\ new.at = "insert" /\ row' = [row EXCEPT ![new.task] = card] /\ End(r, "done")
      /\ UNCHANGED <<draft, disturbed>>
  BY DEF Insert, At
<1>2. new \in [at : {"insert"}, task : Tasks, slot : Slot] /\ Active(r) /\ TypeOK
  BY <1>1, RequestKinds DEF IInv, TypeOK, Active
<1>3. row' \in [Tasks -> Row]
  BY <1>1, <1>2 DEF TypeOK, Row, Slot
<1>4. Written(r) = {}
  BY <1>1 DEF IInv, DraftsAreTransactions, InTransaction, MoveStep, Shift
<1>5. ASSUME ~disturbed PROVE InOrder(row')
  <2>1. InOrder(row) /\ Bottom(new.slot.status, new.slot.position)
    BY <1>1, <1>5 DEF IInv, Undisturbed, CreationGoesOn, At
  <2>2. /\ row'[new.task] = card
        /\ \A t \in Tasks \ {new.task} : row'[t] = row[t]
    BY <1>1, <1>2 DEF TypeOK
  <2>3. \A t \in Tasks : row[t].state = "live" /\ row[t].status = new.slot.status
                         => row[t].position < new.slot.position
    BY <2>1 DEF Bottom, Column, Live
  <2>4. new.slot.position \in Int /\ \A t \in Tasks : row[t].position \in Int
    BY <1>2 DEF TypeOK, Row, Slot
  <2>5. new.slot.position >= 0
    <3>1. CASE Column(new.slot.status) = {}
      BY <2>1, <2>4, <3>1 DEF Bottom
    <3>2. CASE Column(new.slot.status) # {}
      <4>1. PICK t \in Column(new.slot.status) : row[t].position = new.slot.position - 1
        BY <2>1, <3>2 DEF Bottom
      <4>2. row[t].position >= 0
        BY <2>1 DEF InOrder, Column, Live
      <4> QED BY <2>4, <4>1, <4>2 DEF Column
    <3> QED BY <3>1, <3>2
  <2>6. card.state = "live" /\ card.status = new.slot.status /\ card.position = new.slot.position
    OBVIOUS
  <2> HIDE DEF card, new
  <2> SUFFICES ASSUME NEW t \in Tasks, row'[t].state = "live"
               PROVE  /\ row'[t].position >= 0
                      /\ \A u \in Tasks \ {t} :
                            row'[u].state = "live" /\ row'[u].status = row'[t].status
                            => row'[u].position # row'[t].position
    BY DEF InOrder
  <2>7. CASE t = new.task
    BY <2>2, <2>3, <2>4, <2>5, <2>6, <2>7
  <2>8. CASE t # new.task
    <3>1. row'[t] = row[t]
      BY <2>2, <2>8
    <3>2. \A u \in Tasks \ {t} : row[u].state = "live" /\ row[u].status = row[t].status
                                 => row[u].position # row[t].position
      BY <2>1, <3>1 DEF InOrder
    <3>3. row[t].status = new.slot.status => row[t].position < new.slot.position
      BY <2>3, <3>1
    <3>4. row[t].position >= 0
      BY <2>1, <3>1 DEF InOrder
    <3> QED BY <2>2, <2>4, <2>6, <2>8, <3>1, <3>2, <3>3, <3>4
  <2> QED BY <2>7, <2>8
<1> QED BY <1>1, <1>2, <1>3, <1>4, <1>5, EndStep DEF TypeOK

LEMMA PatchStep ==
    ASSUME IInv, NEW r \in Requests, Patch(r)
    PROVE  IInv'
<1> DEFINE t == request[r].task
<1>1. /\ At(r, "patch") /\ row' = [row EXCEPT ![t] = [row[t] EXCEPT !.status = request[r].status]]
      /\ End(r, "done") /\ UNCHANGED draft /\ disturbed' = TRUE
  BY DEF Patch, WriteAlone
<1>2. /\ request[r] \in [at : {"patch"}, task : Tasks, status : Statuses]
      /\ Active(r) /\ TypeOK
  BY <1>1, RequestKinds DEF IInv, TypeOK, Active, At
<1>3. row' \in [Tasks -> Row]
  BY <1>1, <1>2 DEF TypeOK, Row
<1>4. Written(r) = {}
  BY <1>1 DEF IInv, DraftsAreTransactions, InTransaction, MoveStep, Shift, At
<1> QED BY <1>1, <1>2, <1>3, <1>4, EndStep

LEMMA DeleteStep ==
    ASSUME IInv, NEW r \in Requests, Delete(r)
    PROVE  IInv'
<1> DEFINE t == request[r].task
<1>1. /\ At(r, "delete") /\ row' = [row EXCEPT ![t] = [row[t] EXCEPT !.state = "deleted"]]
      /\ End(r, "done") /\ UNCHANGED <<draft, disturbed>>
  BY DEF Delete, WriteAlone
<1>2. /\ request[r] \in [at : {"delete"}, task : Tasks]
      /\ Active(r) /\ TypeOK
  BY <1>1, RequestKinds DEF IInv, TypeOK, Active, At
<1>3. row' \in [Tasks -> Row]
  BY <1>1, <1>2 DEF TypeOK, Row
<1>4. Written(r) = {}
  BY <1>1 DEF IInv, DraftsAreTransactions, InTransaction, MoveStep, Shift, At
<1>5. ASSUME ~disturbed PROVE InOrder(row')
  <2>1. InOrder(row)
    BY <1>5 DEF IInv, Undisturbed
  <2>2. row'[t].state = "deleted" /\ \A u \in Tasks \ {t} : row'[u] = row[u]
    BY <1>1, <1>2 DEF TypeOK, Row
  <2> QED BY <2>1, <2>2 DEF InOrder
<1> QED BY <1>1, <1>2, <1>3, <1>4, <1>5, EndStep DEF TypeOK

-----------------------------------------------------------------------------
(* Swaps.                                                                   *)

LEMMA SwapFirstStep ==
    ASSUME IInv, NEW r \in Requests, SwapFirst(r)
    PROVE  IInv'
<1> DEFINE m == request[r]
           what == [m EXCEPT !.at = "second"]
           new == PutAt(View(r, m.one), m.oneTo)
<1>1. /\ m.at = "first" /\ Write(r, m.one, new) /\ UNCHANGED <<row, disturbed>>
      /\ request' = [request EXCEPT ![r].at = "second"]
  BY DEF SwapFirst, At, Goto
<1>2. /\ m \in [at : {"first", "second"}, one : Tasks, other : Tasks, oneTo : Slot, otherTo : Slot]
      /\ TypeOK /\ Active(r)
  BY <1>1, RequestKinds DEF IInv, TypeOK, Active
<1>3. request' = [request EXCEPT ![r] = what] /\ request'[r] = what
  BY <1>1, <1>2 DEF TypeOK
<1>4. /\ what.one = m.one /\ what.other = m.other /\ what.oneTo = m.oneTo /\ what.otherTo = m.otherTo
      /\ what.at = "second" /\ what \in Request
  BY <1>2 DEF Request
<1>5. new \in Row
  BY <1>2, ViewType, CardsArePut
<1>6. Written(r) = {}
  BY <1>1 DEF IInv, DraftsAreTransactions, InTransaction, MoveStep, Shift
<1> HIDE DEF what
<1>7. /\ draft' = [q \in Requests |-> draft'[q]]
      /\ \A q \in Requests : DOMAIN draft'[q] \subseteq Tasks /\ draft'[q] \in [DOMAIN draft'[q] -> Row]
      /\ \A q \in Requests \ {r} : draft'[q] = draft[q]
      /\ \A v \in Tasks : View(r, v)' = IF v = m.one THEN new ELSE View(r, v)
  <2> HIDE DEF new
  <2> QED BY <1>1, <1>2, <1>5, WriteViews
<1>8. \A v \in Tasks : View(r, v) = row[v]
  BY <1>6 DEF View
<1>9. ASSUME ~disturbed PROVE SwapGoesOn(r)'
  <2>1. SwapGoesOn(r)
    BY <1>1, <1>9 DEF IInv, Undisturbed
  <2>2. \A v \in Tasks : View(r, v)' = IF v = m.one THEN PutAt(row[v], m.oneTo) ELSE row[v]
    BY <1>7, <1>8
  <2> QED BY <1>1, <1>3, <1>4, <2>1, <2>2 DEF SwapGoesOn, Live, SlotOf
<1>10. InTransaction(r)' /\ ~Moving(r)'
  BY <1>3, <1>4 DEF InTransaction, Moving, MoveStep, Shift
<1>11. ~disturbed => InOrder(row')
  BY <1>1 DEF IInv, Undisturbed
<1> HIDE DEF new
<1> QED BY <1>1, <1>2, <1>3, <1>4, <1>7, <1>9, <1>10, <1>11, ContinueStep DEF TypeOK

LEMMA SwapSecondStep ==
    ASSUME IInv, NEW r \in Requests, SwapSecond(r)
    PROVE  IInv'
<1> DEFINE m == request[r]
<1>1. /\ m.at = "second" /\ NoDraft(r) /\ End(r, "done") /\ UNCHANGED disturbed
      /\ row' = [t \in Tasks |-> IF t = m.other THEN PutAt(View(r, t), m.otherTo) ELSE View(r, t)]
  BY DEF SwapSecond, At
<1>2. /\ m \in [at : {"first", "second"}, one : Tasks, other : Tasks, oneTo : Slot, otherTo : Slot]
      /\ TypeOK /\ Active(r)
  BY <1>1, RequestKinds DEF IInv, TypeOK, Active
<1>3. row' \in [Tasks -> Row]
  <2>1. \A t \in Tasks : View(r, t) \in Row /\ PutAt(View(r, t), m.otherTo) \in Row
    BY <1>2, ViewType, CardsArePut
  <2> QED BY <1>1, <2>1
<1>4. ASSUME ~disturbed PROVE InOrder(row')
  <2>1. SwapGoesOn(r) /\ InOrder(row)
    BY <1>1, <1>4 DEF IInv, Undisturbed
  <2>2. /\ m.one # m.other /\ row[m.one].state = "live" /\ row[m.other].state = "live"
        /\ m.oneTo = SlotOf(m.other) /\ m.otherTo = SlotOf(m.one)
    BY <2>1 DEF SwapGoesOn, Live
  <2>3. \A t \in Tasks :
           row'[t] = IF t = m.other THEN PutAt(row[t], m.otherTo)
                     ELSE IF t = m.one THEN PutAt(row[t], m.oneTo) ELSE row[t]
    BY <1>1, <2>1 DEF SwapGoesOn
  <2>4. /\ row'[m.one].state = "live" /\ row'[m.one].status = row[m.other].status
        /\ row'[m.one].position = row[m.other].position
    <3>1. row'[m.one] = PutAt(row[m.one], m.oneTo) /\ row[m.one] \in Row /\ m.oneTo \in Slot
      BY <1>2, <2>2, <2>3 DEF TypeOK
    <3> QED BY <2>2, <3>1, CardsArePut DEF SlotOf
  <2>5. /\ row'[m.other].state = "live" /\ row'[m.other].status = row[m.one].status
        /\ row'[m.other].position = row[m.one].position
    <3>1. row'[m.other] = PutAt(row[m.other], m.otherTo) /\ row[m.other] \in Row /\ m.otherTo \in Slot
      BY <1>2, <2>2, <2>3 DEF TypeOK
    <3> QED BY <2>2, <3>1, CardsArePut DEF SlotOf
  <2>6. \A t \in Tasks \ {m.one, m.other} : row'[t] = row[t]
    BY <2>3
  <2>7. m.one \in Tasks /\ m.other \in Tasks
    BY <1>2
  <2> DEFINE partner(t) == IF t = m.one THEN m.other ELSE IF t = m.other THEN m.one ELSE t
  <2>8. \A t \in Tasks : /\ partner(t) \in Tasks
                         /\ row'[t].state = "live" => row[partner(t)].state = "live"
                         /\ row'[t].status = row[partner(t)].status
                         /\ row'[t].position = row[partner(t)].position
    BY <2>2, <2>4, <2>5, <2>6, <2>7
  <2>9. \A t, u \in Tasks : t # u => partner(t) # partner(u)
    BY <2>2
  <2> HIDE DEF partner
  <2> QED BY <2>1, <2>8, <2>9 DEF InOrder
<1> HIDE DEF m
<1> QED BY <1>1, <1>2, <1>3, <1>4, EndStep DEF TypeOK

-----------------------------------------------------------------------------
(* The theorems.                                                            *)

LEMMA InitIsFine == Init => IInv
<1> SUFFICES ASSUME Init PROVE IInv
  OBVIOUS
<1>1. row \in [Tasks -> Row] /\ InOrder(row)
  BY BoardAssumption DEF Init
<1>2. /\ request = [r \in Requests |-> [at |-> "new"]] /\ disturbed = FALSE
      /\ draft = [r \in Requests |-> [t \in {} |-> row[t]]]
  BY DEF Init
<1>3. \A r \in Requests : DOMAIN draft[r] = {} /\ draft[r] \in [{} -> Row]
  BY <1>2
<1>4. TypeOK
  BY <1>1, <1>2, <1>3 DEF TypeOK, Request
<1>5. DraftsAreTransactions
  BY <1>3 DEF DraftsAreTransactions, Written
<1>6. Undisturbed
  BY <1>1, <1>2 DEF Undisturbed, Active, Moving, MoveStep, Shift, At
<1> QED BY <1>4, <1>5, <1>6 DEF IInv

LEMMA StepIsFine == IInv /\ [Next]_vars => IInv'
<1> SUFFICES ASSUME IInv, [Next]_vars PROVE IInv'
  OBVIOUS
<1>1. CASE UNCHANGED vars
  <2>1. UNCHANGED <<row, draft>> /\ request' = request /\ disturbed' = disturbed
    BY <1>1 DEF vars
  <2>2. TypeOK' /\ DraftsAreTransactions'
    BY <2>1 DEF IInv, TypeOK, DraftsAreTransactions, Written, InTransaction
  <2>3. ASSUME Undisturbed PROVE Undisturbed'
    <3>1. \A r \in Requests : /\ Moving(r)' = Moving(r) /\ Active(r)' = Active(r)
                              /\ MoveGoesOn(r)' = MoveGoesOn(r)
                              /\ SwapGoesOn(r)' = SwapGoesOn(r)
                              /\ CreationGoesOn(r)' = CreationGoesOn(r)
      BY <2>1 DEF Moving, Active, MoveGoesOn, SwapGoesOn, CreationGoesOn, View, Written, Live,
                  SlotOf, Bottom, Column
    <3> QED BY <2>1, <2>3, <3>1 DEF Undisturbed, At
  <2> QED BY <2>1, <2>2, <2>3 DEF IInv
<1>2. ASSUME NEW r \in Requests, BeginAny(r) PROVE IInv'
  <2>1. ASSUME NEW t \in Tasks, NEW s \in Statuses,
               NEW p \in {0} \cup {row[u].position + 1 : u \in Tasks}, BeginCreate(r, t, s, p)
        PROVE  IInv'
    <3>1. p \in Int
      BY DEF IInv, TypeOK, Row
    <3> QED BY <2>1, <3>1, BeginCreateStep
  <2> QED BY <1>2, <2>1, BeginMoveStep, BeginSwapStep, BeginOtherStep DEF BeginAny
<1>3. ASSUME NEW r \in Requests, Continue(r) PROVE IInv'
  BY <1>3, BeginShiftStep, ShiftRowStep, PlaceStep, LogMovedStep, CommitStep, InsertStep,
     PatchStep, DeleteStep, SwapFirstStep, SwapSecondStep DEF Continue
<1>4. ASSUME NEW r \in Requests, Rollback(r) \/ Victim(r) PROVE IInv'
  BY <1>4, FailStep
<1> QED BY <1>1, <1>2, <1>3, <1>4 DEF Next

\* Rows, drafts and requests keep their types, whatever overlaps.
THEOREM BoardTypesHold == Spec => []TypeOK
<1>1. IInv => TypeOK
  BY DEF IInv
<1> QED BY <1>1, InitIsFine, StepIsFine, PTL DEF Spec

\* The promise of tasks.service.ts:26-33: while requests come one at a time and no
\* card changes its column alone, positions are unique within a column, through
\* every statement of every request, for any board.
THEOREM PositionsStayUnique == Spec => []PositionsAreUnique
<1>1. IInv => PositionsAreUnique
  BY DEF IInv, Undisturbed, PositionsAreUnique
<1> QED BY <1>1, InitIsFine, StepIsFine, PTL DEF Spec

LEMMA MoveKeepsOrder ==
    ASSUME IInv, [Next]_vars
    PROVE  [\A r \in Requests :
              ~disturbed /\ At(r, "commit") /\ request'[r].at = "moved" =>
                  LET m == request[r] IN
                  /\ row'[m.task].status = m.to.status
                  /\ row'[m.task].position = m.to.position
                  /\ \A t, u \in Tasks \ {m.task} :
                        Live(t) /\ Live(u) /\ row[t].status = row[u].status =>
                            (row[t].position < row[u].position
                             <=> row'[t].position < row'[u].position)]_vars
<1> SUFFICES ASSUME Next, NEW r \in Requests, ~disturbed, At(r, "commit"), request'[r].at = "moved"
             PROVE  LET m == request[r] IN
                    /\ row'[m.task].status = m.to.status
                    /\ row'[m.task].position = m.to.position
                    /\ \A t, u \in Tasks \ {m.task} :
                          Live(t) /\ Live(u) /\ row[t].status = row[u].status =>
                              (row[t].position < row[u].position
                               <=> row'[t].position < row'[u].position)
  OBVIOUS
<1>1. PICK q \in Requests : BeginAny(q) \/ Continue(q) \/ Rollback(q) \/ Victim(q)
  BY DEF Next
<1>2. CASE q # r
  <2>1. \E what : request' = [request EXCEPT ![q] = what]
    <3>1. CASE BeginAny(q)
      BY <3>1 DEF BeginAny, BeginMove, BeginPatch, BeginCreate, BeginDelete, BeginSwap, Begin
    <3>2. CASE Continue(q)
      BY <3>2 DEF Continue, BeginShift, ShiftRow, Place, LogMoved, Commit, Insert, Patch, Delete,
                  SwapFirst, SwapSecond, Goto, End
    <3>3. CASE Rollback(q) \/ Victim(q)
      BY <3>3 DEF Rollback, Victim, End
    <3> QED BY <1>1, <3>1, <3>2, <3>3
  <2>2. request'[r] = request[r]
    BY <1>2, <2>1 DEF IInv, TypeOK
  <2> QED BY <2>2 DEF At
<1>3. CASE q = r
  <2>1. CASE Commit(r)
    BY <2>1, CommitStep
  <2>2. CASE ~Commit(r)
    <3>1. Rollback(r) \/ Victim(r)
      BY <1>1, <1>3, <2>2 DEF BeginAny, BeginMove, BeginPatch, BeginCreate, BeginDelete, BeginSwap,
         Begin, Continue, BeginShift, ShiftRow, Place, LogMoved, Insert, Patch, Delete, SwapFirst,
         SwapSecond, At, Shift
    <3>2. request'[r].at = "failed"
      BY <3>1 DEF Rollback, Victim, End, IInv, TypeOK
    <3> QED BY <3>2
  <2> QED BY <2>1, <2>2
<1> QED BY <1>2, <1>3

\* A move that nothing overlaps puts its card where it was asked to and keeps the
\* order of the others, for any number of cards and columns.
THEOREM MovesKeepTheOrder == Spec => MovesKeepOrder
BY InitIsFine, StepIsFine, MoveKeepsOrder, PTL DEF Spec, MovesKeepOrder
=============================================================================
