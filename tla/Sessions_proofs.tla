--------------------------- MODULE Sessions_proofs ---------------------------
(***************************************************************************)
(* Proofs about module Sessions, for any set of requests and any bounds.   *)
(* The inductive invariant adds to the properties of the rows what a       *)
(* request carries between its read and its write, and that the sign-in a  *)
(* session descends from is a row that was used.  Two more invariants, for *)
(* requests that come one at a time, build on it.                          *)
(***************************************************************************)
EXTENDS Sessions, TLAPS

\* The first session of a sign-in is not an unused row.
RootsAreUsed == \A s \in SessionIds : Exists(s) => sessions[s].root \notin Unused

\* What a request carries between two of its steps.
Carried(q, password) ==
    /\ q.step \in {"rotating", "finding", "revoking"} => q.row \in SessionIds
    /\ q.step = "rotating" => q.valid
    /\ q.step = "failing" => q.failed < MaxWrong
    /\ q.step = "sweeping" => q.password <= password

CarriedOK == \A r \in Requests : Carried(req[r], user.password)

SweptIsPast == swept <= user.password

IInv == /\ TypeOK
        /\ RootsAreUsed
        /\ CarriedOK
        /\ SweptIsPast
        /\ OneLivePerSignIn
        /\ ResetEndsSessions

\* A step that only ends sessions: rows are revoked, expire or are deleted.
Ends(s) ==
    \/ sessions'[s] = sessions[s]
    \/ Exists(s) /\ \E state \in {"revoked", "expired"} :
                       sessions'[s] = [sessions[s] EXCEPT !.state = state]
    \/ Exists(s) /\ sessions'[s] = Blank(s, "gone")

-----------------------------------------------------------------------------
LEMMA InitIInv == Init => IInv
  BY SessionsAssumption
  DEF Init, IInv, TypeOK, RootsAreUsed, CarriedOK, Carried, SweptIsPast, OneLivePerSignIn,
      ResetEndsSessions, Fresh, Idle, Blank, Accounts, Rows, InFlight, Steps, Answers,
      Locks, Lost, Passwords, SessionIds, None, Exists, Live, Unused

\* Ending sessions keeps everything said about the rows.
LEMMA EndingKeeps ==
  ASSUME TypeOK, RootsAreUsed, OneLivePerSignIn, ResetEndsSessions,
         sessions' \in [SessionIds -> Rows],
         \A s \in SessionIds : Ends(s)
  PROVE  /\ RootsAreUsed' /\ OneLivePerSignIn'
         /\ \A s \in SessionIds : (Live(s))' =>
                Live(s) /\ sessions'[s].password = sessions[s].password
                        /\ sessions'[s].late = sessions[s].late
  <1>1. ASSUME NEW s \in SessionIds
        PROVE  /\ sessions[s] \in Rows /\ sessions'[s] \in Rows
               /\ (Exists(s))' => Exists(s) /\ sessions'[s].root = sessions[s].root
               /\ (Live(s))' => sessions'[s] = sessions[s]
               /\ (sessions'[s].state = "free") => (sessions[s].state = "free")
    BY <1>1 DEF TypeOK, Ends, Rows, Exists, Live, Blank
  <1>2. RootsAreUsed'
    BY <1>1 DEF RootsAreUsed, Unused, Rows
  <1>3. \A s \in SessionIds : (Live(s))' => Live(s)
    BY <1>1 DEF Live
  <1>4. OneLivePerSignIn'
    BY <1>1, <1>3 DEF OneLivePerSignIn
  <1>5. QED
    BY <1>1, <1>2, <1>3, <1>4

\* Revoking rows keeps their type and only ends sessions.
LEMMA RevokingEnds ==
  ASSUME TypeOK, NEW S, sessions' = Revoked(S)
  PROVE  sessions' \in [SessionIds -> Rows] /\ \A s \in SessionIds : Ends(s)
  <1>1. ASSUME NEW s \in SessionIds
        PROVE  sessions[s] \in Rows /\ sessions'[s] \in Rows /\ Ends(s)
    BY <1>1 DEF TypeOK, Revoked, Ends, Rows, Live, Exists
  <1>2. sessions' = [s \in SessionIds |-> sessions'[s]]
    BY DEF Revoked
  <1>3. QED
    BY <1>1, <1>2

-----------------------------------------------------------------------------
\* A session is inserted: for a sign-in it is its own root, for a rotation
\* it has the root of the row it replaces.
LEMMA CreatingKeeps ==
  ASSUME TypeOK, RootsAreUsed, OneLivePerSignIn, ResetEndsSessions,
         NEW rows \in [SessionIds -> Rows], NEW n \in Unused,
         NEW p \in Passwords, NEW root \in SessionIds, NEW late \in BOOLEAN,
         \A s \in SessionIds : rows[s] = sessions[s]
                 \/ (Live(s) /\ rows[s] = [sessions[s] EXCEPT !.state = "revoked"]),
         sessions' = Created(rows, n, p, root, late),
         root = n \/ root \notin Unused,
         late \/ \A t \in SessionIds : rows[t].state = "live" /\ rows[t].root = root
                                           => rows[t].late,
         late \/ swept <= p
  PROVE  /\ sessions' \in [SessionIds -> Rows]
         /\ RootsAreUsed' /\ OneLivePerSignIn'
         /\ \A s \in SessionIds : (Live(s))' /\ sessions'[s].password < swept
                                     => sessions'[s].late
  <1>. USE DEF TypeOK
  <1>1. n \in SessionIds /\ sessions[n].state = "free"
    BY DEF Unused
  <1>2. /\ sessions'[n] = [state |-> "live", password |-> p, root |-> root, late |-> late]
        /\ \A s \in SessionIds \ {n} : sessions'[s] = rows[s]
        /\ sessions' \in [SessionIds -> Rows]
    BY <1>1 DEF Created, Rows
  <1>3. ASSUME NEW s \in SessionIds \ {n}
        PROVE  /\ sessions[s] \in Rows /\ sessions'[s] \in Rows
               /\ (Live(s))' => Live(s) /\ sessions'[s] = sessions[s]
               /\ (Exists(s))' => Exists(s) /\ sessions'[s].root = sessions[s].root
               /\ sessions'[s].state = "free" => sessions[s].state = "free"
    BY <1>2 DEF Rows, Live, Exists
  <1>4. RootsAreUsed'
    <2>1. Unused' \subseteq Unused \ {n}
      BY <1>1, <1>2, <1>3 DEF Unused
    <2>2. SUFFICES ASSUME NEW s \in SessionIds, (Exists(s))'
                   PROVE  sessions'[s].root \notin Unused \ {n}
      BY <2>1 DEF RootsAreUsed
    <2>3. CASE s = n
      BY <1>2, <2>3
    <2>4. CASE s # n
      BY <1>3, <2>2, <2>4 DEF RootsAreUsed
    <2>5. QED
      BY <2>3, <2>4
  <1>5. OneLivePerSignIn'
    <2>1. ASSUME NEW s \in SessionIds \ {n}, (Live(s))', sessions'[s].root = root
          PROVE  sessions'[s].late \/ late
      BY <1>2, <1>3, <2>1 DEF Live
    <2>2. SUFFICES ASSUME NEW s \in SessionIds, NEW t \in SessionIds,
                          s # t, (Live(s))', (Live(t))', sessions'[s].root = sessions'[t].root
                   PROVE  sessions'[s].late \/ sessions'[t].late
      BY DEF OneLivePerSignIn
    <2>3. CASE s = n
      BY <1>2, <2>1, <2>2, <2>3
    <2>4. CASE t = n
      BY <1>2, <2>1, <2>2, <2>4
    <2>5. CASE s # n /\ t # n
      BY <1>3, <2>2, <2>5 DEF OneLivePerSignIn
    <2>6. QED
      BY <2>3, <2>4, <2>5
  <1>6. ASSUME NEW s \in SessionIds, (Live(s))', sessions'[s].password < swept
        PROVE  sessions'[s].late
    <2>1. CASE s = n
      BY <1>2, <1>6, <2>1, SessionsAssumption DEF Passwords
    <2>2. CASE s # n
      BY <1>3, <1>6, <2>2 DEF ResetEndsSessions
    <2>3. QED
      BY <2>1, <2>2
  <1>7. QED
    BY <1>2, <1>4, <1>5, <1>6

-----------------------------------------------------------------------------
\* One request moves on, the others carry what they carried.
LEMMA MovingCarries ==
  ASSUME TypeOK, CarriedOK, NEW r \in Requests, NEW q \in InFlight, Becomes(r, q),
         user'.password \in Passwords, user.password <= user'.password,
         Carried(q, user'.password)
  PROVE  req' \in [Requests -> InFlight] /\ CarriedOK'
  <1>1. req' \in [Requests -> InFlight]
    BY DEF TypeOK, Becomes
  <1>2. ASSUME NEW t \in Requests
        PROVE  Carried(req'[t], user'.password)
    <2>1. CASE t = r
      BY <2>1 DEF TypeOK, Becomes
    <2>2. CASE t # r
      <3>1. req'[t] = req[t] /\ req[t] \in InFlight /\ Carried(req[t], user.password)
        BY <2>2 DEF TypeOK, Becomes, CarriedOK
      <3>2. user.password \in Nat /\ user'.password \in Nat /\ req[t].password \in Nat
        BY <3>1, SessionsAssumption DEF TypeOK, Accounts, InFlight, Passwords
      <3>3. QED
        BY <3>1, <3>2 DEF Carried
    <2>3. QED
      BY <2>1, <2>2
  <1>3. QED
    BY <1>1, <1>2 DEF CarriedOK

\* The histories keep their types.
LEMMA HistoriesTyped ==
  ASSUME TypeOK, NEW r \in Requests, NEW n \in 0..Lost, NEW e \in BOOLEAN
  PROVE  /\ Counted(r, n) => wrong' \in 0..Lost
         /\ Excused(r, e) => excused' \in BOOLEAN
  <1>1. Counted(r, n) => wrong' \in 0..Lost
    BY SessionsAssumption DEF Counted, Lost
  <1>2. Excused(r, e) => excused' \in BOOLEAN
    BY Zenon DEF Excused
  <1>3. QED
    BY <1>1, <1>2

\* The values a request takes are well typed.
LEMMA ValuesTyped ==
  /\ Idle \in InFlight /\ Done \in InFlight
  /\ \A step \in Steps : At(step) \in InFlight
  /\ \A answer \in Answers : Reply(answer) \in InFlight
  <1>1. 0 \in Passwords /\ 0 \in 0..MaxWrong /\ FALSE \in BOOLEAN
    BY SessionsAssumption DEF Passwords
  <1>2. Idle \in InFlight
    BY <1>1 DEF Idle, InFlight, Steps, Answers
  <1>3. ASSUME NEW step \in Steps
        PROVE  At(step) \in InFlight
    BY <1>2 DEF At, InFlight
  <1>4. ASSUME NEW answer \in Answers
        PROVE  Reply(answer) \in InFlight
    <2>1. At("answering") \in InFlight
      BY <1>3 DEF Steps
    <2>2. QED
      BY <2>1 DEF Reply, InFlight
  <1>5. QED
    BY <1>2, <1>3, <1>4 DEF Done

\* The steps of a request that carry nothing into their write.
LEMMA NothingCarried ==
  ASSUME NEW q \in InFlight, NEW password,
         q.step \in {"idle", "answering", "revokingAll", "rewriting", "clearing", "creating"}
  PROVE  Carried(q, password)
  BY DEF Carried

\* The fields of the values a request takes.
LEMMA Shapes ==
  /\ \A step \in Steps : At(step).step = step
  /\ Done.step = "idle" /\ Idle.step = "idle"
  /\ \A answer \in Answers : Reply(answer).step = "answering"
  /\ \A step \in Steps, row \in {None} \cup SessionIds :
        /\ WithRow(step, row) \in InFlight
        /\ WithRow(step, row).step = step /\ WithRow(step, row).row = row
  /\ \A step \in Steps, password \in Passwords :
        /\ WithPassword(step, password) \in InFlight
        /\ WithPassword(step, password).step = step
        /\ WithPassword(step, password).password = password
  /\ \A failed \in 0..MaxWrong :
        /\ WithFailures(failed) \in InFlight
        /\ WithFailures(failed).step = "failing" /\ WithFailures(failed).failed = failed
  /\ \A row \in SessionIds :
        /\ Found(row, TRUE) \in InFlight /\ Found(row, TRUE).step = "rotating"
        /\ Found(row, TRUE).row = row /\ Found(row, TRUE).valid
  /\ \A row \in SessionIds :
        /\ NewSession(row) \in InFlight /\ NewSession(row).step = "answering"
        /\ Leaving(row) \in InFlight /\ Leaving(row).step = "revoking"
        /\ Leaving(row).row = row
  <1>1. ASSUME NEW step \in Steps
        PROVE  At(step) \in InFlight /\ At(step).step = step
    BY ValuesTyped DEF At, Idle, InFlight
  <1>2. Reply("set") \in InFlight /\ \A answer \in Answers : Reply(answer).step = "answering"
    BY ValuesTyped, <1>1 DEF Reply, InFlight, Answers, Steps
  <1>3. ASSUME NEW step \in Steps, NEW row \in {None} \cup SessionIds
        PROVE  /\ WithRow(step, row) \in InFlight
               /\ WithRow(step, row).step = step /\ WithRow(step, row).row = row
    BY <1>1 DEF WithRow, InFlight
  <1>4. ASSUME NEW step \in Steps, NEW password \in Passwords
        PROVE  /\ WithPassword(step, password) \in InFlight
               /\ WithPassword(step, password).step = step
               /\ WithPassword(step, password).password = password
    BY <1>1 DEF WithPassword, InFlight
  <1>5. ASSUME NEW failed \in 0..MaxWrong
        PROVE  /\ WithFailures(failed) \in InFlight
               /\ WithFailures(failed).step = "failing"
               /\ WithFailures(failed).failed = failed
    <2>1. At("failing") \in InFlight /\ At("failing").step = "failing"
      BY <1>1 DEF Steps
    <2>2. QED
      BY <2>1 DEF WithFailures, InFlight
  <1>6. ASSUME NEW row \in SessionIds
        PROVE  /\ Found(row, TRUE) \in InFlight /\ Found(row, TRUE).step = "rotating"
               /\ Found(row, TRUE).row = row /\ Found(row, TRUE).valid
    <2>1. At("rotating") \in InFlight /\ At("rotating").step = "rotating"
      BY <1>1 DEF Steps
    <2>2. QED
      BY <2>1 DEF Found, InFlight
  <1>7. ASSUME NEW row \in SessionIds
        PROVE  /\ NewSession(row) \in InFlight /\ NewSession(row).step = "answering"
               /\ Leaving(row) \in InFlight /\ Leaving(row).step = "revoking"
               /\ Leaving(row).row = row
    <2>1. Reply("set").step = "answering"
      BY <1>2 DEF Answers
    <2>2. NewSession(row) \in InFlight /\ NewSession(row).step = "answering"
      BY <1>2, <2>1 DEF NewSession, InFlight
    <2>3. /\ WithRow("revoking", row) \in InFlight
          /\ WithRow("revoking", row).step = "revoking" /\ WithRow("revoking", row).row = row
      BY <1>3 DEF Steps
    <2>4. QED
      BY <2>2, <2>3 DEF Leaving, InFlight, Answers
  <1>8. QED
    BY <1>1, <1>2, <1>3, <1>4, <1>5, <1>6, <1>7 DEF Done, Idle

\* A step that leaves the rows and the history of resets alone.
LEMMA RowsStay ==
  ASSUME IInv, UNCHANGED <<sessions, swept>>
  PROVE  RootsAreUsed' /\ OneLivePerSignIn' /\ ResetEndsSessions'
  BY DEF IInv, RootsAreUsed, OneLivePerSignIn, ResetEndsSessions, Unused, Exists, Live

\* A step of a request that touches neither the rows nor the user's password.
LEMMA QuietStep ==
  ASSUME IInv, NEW r \in Requests, NEW q \in InFlight, Becomes(r, q),
         Carried(q, user.password),
         user' \in Accounts, user'.password = user.password,
         cookie' \in {None} \cup SessionIds, wrong' \in 0..Lost, excused' \in BOOLEAN,
         UNCHANGED <<sessions, swept>>
  PROVE  IInv'
  <1>1. user.password \in Passwords /\ user.password <= user'.password
    BY SessionsAssumption DEF IInv, TypeOK, Accounts, Passwords
  <1>2. req' \in [Requests -> InFlight] /\ CarriedOK'
    BY <1>1, MovingCarries DEF IInv
  <1>3. TypeOK'
    BY <1>2 DEF IInv, TypeOK
  <1>4. SweptIsPast'
    BY DEF IInv, SweptIsPast
  <1>5. QED
    BY <1>2, <1>3, <1>4, RowsStay DEF IInv

-----------------------------------------------------------------------------
LEMMA LoginIInv ==
  ASSUME IInv, NEW r \in Requests, NEW given \in Passwords, Login(r, given)
  PROVE  IInv'
  <1>1. user \in Accounts /\ TypeOK /\ user.failed \in Nat /\ MaxWrong \in Nat
    BY SessionsAssumption DEF IInv, TypeOK, Accounts
  <1>2. AfterLogin(given) \in InFlight /\ Carried(AfterLogin(given), user.password)
    <2>1. CASE user.lock # "held" /\ given # user.password
      <3>. DEFINE q == WithFailures(user.failed)
      <3>1. user.failed \in 0..MaxWrong /\ user.failed < MaxWrong
        BY <1>1, <2>1 DEF Login, Accounts
      <3>2. q \in InFlight /\ q.step = "failing" /\ q.failed = user.failed
        BY <3>1, Shapes
      <3>3. AfterLogin(given) = q
        BY <2>1 DEF AfterLogin
      <3>. HIDE DEF q
      <3>4. QED
        BY <3>1, <3>2, <3>3 DEF Carried
    <2>2. CASE user.lock = "held"
      BY <2>2, ValuesTyped, Shapes, NothingCarried DEF AfterLogin
    <2>3. CASE user.lock # "held" /\ given = user.password
      <3>. DEFINE step == IF user.failed > 0 \/ user.lock # "none" THEN "clearing" ELSE "creating"
                  q == WithPassword(step, user.password)
      <3>1. step \in {"clearing", "creating"} /\ user.password \in Passwords
        BY <1>1 DEF Accounts
      <3>2. q \in InFlight /\ q.step \in {"clearing", "creating"}
        BY <3>1, Shapes DEF Steps
      <3>3. AfterLogin(given) = q
        BY <2>3 DEF AfterLogin
      <3>. HIDE DEF q
      <3>4. QED
        BY <3>2, <3>3, NothingCarried
    <2>4. QED
      BY <2>1, <2>2, <2>3
  <1>3. wrong' \in 0..Lost
    BY <1>1, SessionsAssumption DEF Login, Counted, Alone, TypeOK, Lost
  <1>4. excused' \in BOOLEAN
    BY <1>1 DEF Login, Excused, TypeOK
  <1>5. QED
    BY <1>1, <1>2, <1>3, <1>4, QuietStep DEF Login, TypeOK

LEMMA OtherArrivals ==
  ASSUME IInv, NEW r \in Requests,
         \/ GoogleLogin(r) \/ Refresh(r) \/ Logout(r) \/ LogoutAll(r)
         \/ (\E s \in SessionIds : RevokeSession(r, s)) \/ ResetPassword(r)
  PROVE  IInv'
  <1>1. /\ TypeOK /\ user \in Accounts /\ cookie \in {None} \cup SessionIds
        /\ wrong \in 0..Lost /\ user.password \in Passwords
    BY DEF IInv, TypeOK, Accounts
  <1>2. Counted(r, wrong) => wrong' \in 0..Lost
    BY <1>1, HistoriesTyped
  <1>3. CASE GoogleLogin(r)
    <2>1. /\ WithPassword("creating", user.password) \in InFlight
          /\ Carried(WithPassword("creating", user.password), user.password)
      BY <1>1, Shapes, NothingCarried DEF Steps
    <2>2. excused' \in BOOLEAN
      BY <1>1, <1>3 DEF GoogleLogin, Excused, TypeOK
    <2>3. QED
      BY <1>1, <1>2, <1>3, <2>1, <2>2, QuietStep DEF GoogleLogin
  <1>4. CASE Refresh(r)
    <2>1. AfterLookup \in InFlight /\ Carried(AfterLookup, user.password)
      <3>1. CASE Valid(cookie)
        <4>. DEFINE q == Found(cookie, TRUE)
        <4>1. cookie \in SessionIds
          BY <1>1, <3>1 DEF Valid
        <4>2. q \in InFlight /\ q.step = "rotating" /\ q.row = cookie /\ q.valid
          BY <4>1, Shapes
        <4>3. Valid(cookie) = TRUE
          BY <3>1 DEF Valid, Live
        <4>4. AfterLookup = q
          BY <4>3, Zenon DEF AfterLookup
        <4>. HIDE DEF q
        <4>5. QED
          BY <4>1, <4>2, <4>4 DEF Carried
      <3>2. CASE ~Valid(cookie)
        BY <3>2, ValuesTyped, Shapes, NothingCarried DEF AfterLookup, Answers
      <3>3. QED
        BY <3>1, <3>2
    <2>2. excused' \in BOOLEAN
      BY <1>1, <1>4 DEF Refresh, Excused, TypeOK
    <2>3. QED
      BY <1>1, <1>2, <1>4, <2>1, <2>2, QuietStep DEF Refresh
  <1>5. CASE Logout(r)
    <2>. DEFINE q == IF Valid(cookie) THEN WithRow("finding", cookie) ELSE Done
    <2>1. q \in InFlight /\ Carried(q, user.password)
      <3>1. CASE Valid(cookie)
        <4>1. cookie \in SessionIds
          BY <1>1, <3>1 DEF Valid
        <4>2. QED
          BY <3>1, <4>1, Shapes DEF Carried, Steps
      <3>2. CASE ~Valid(cookie)
        BY <3>2, ValuesTyped, Shapes, NothingCarried
      <3>3. QED
        BY <3>1, <3>2
    <2>2. excused' \in BOOLEAN
      BY <1>1, <1>5 DEF Logout, Excused, TypeOK
    <2>3. QED
      BY <1>1, <1>2, <1>5, <2>1, <2>2, QuietStep DEF Logout, Authenticated
  <1>6. CASE LogoutAll(r)
    <2>. DEFINE q == IF Valid(cookie) THEN At("revokingAll") ELSE Done
    <2>1. q \in InFlight /\ Carried(q, user.password)
      BY ValuesTyped, Shapes, NothingCarried DEF Steps
    <2>2. excused' \in BOOLEAN
      BY <1>1, <1>6 DEF LogoutAll, Excused, TypeOK
    <2>3. QED
      BY <1>1, <1>2, <1>6, <2>1, <2>2, QuietStep DEF LogoutAll, Authenticated
  <1>7. ASSUME NEW s \in SessionIds, RevokeSession(r, s)
        PROVE  IInv'
    <2>. DEFINE q == IF Valid(cookie) THEN WithRow("revoking", s) ELSE Done
    <2>1. q \in InFlight /\ Carried(q, user.password)
      <3>1. CASE Valid(cookie)
        BY <3>1, Shapes DEF Carried, Steps
      <3>2. CASE ~Valid(cookie)
        BY <3>2, ValuesTyped, Shapes, NothingCarried
      <3>3. QED
        BY <3>1, <3>2
    <2>2. excused' \in BOOLEAN
      BY <1>1, <1>7 DEF RevokeSession, Excused, TypeOK
    <2>3. QED
      BY <1>1, <1>2, <1>7, <2>1, <2>2, QuietStep DEF RevokeSession, Authenticated
  <1>8. CASE ResetPassword(r)
    <2>1. At("rewriting") \in InFlight /\ Carried(At("rewriting"), user.password)
      BY ValuesTyped, Shapes, NothingCarried DEF Steps
    <2>2. excused' \in BOOLEAN
      BY <1>1, <1>8 DEF ResetPassword, Excused, TypeOK
    <2>3. QED
      BY <1>1, <1>2, <1>8, <2>1, <2>2, QuietStep DEF ResetPassword
  <1>9. QED
    BY <1>3, <1>4, <1>5, <1>6, <1>7, <1>8

-----------------------------------------------------------------------------
LEMMA FailuresIInv ==
  ASSUME IInv, NEW r \in Requests, RecordFailure(r) \/ ClearFailures(r)
  PROVE  IInv'
  <1>1. /\ TypeOK /\ user \in Accounts /\ req[r] \in InFlight /\ excused \in BOOLEAN
        /\ Carried(req[r], user.password)
    BY DEF IInv, TypeOK, CarriedOK
  <1>2. CASE RecordFailure(r)
    <2>1. Attempts(r) \in 0..MaxWrong
      BY <1>1, <1>2, SessionsAssumption DEF RecordFailure, Attempts, Carried, InFlight
    <2>2. user' \in Accounts /\ user'.password = user.password
      BY <1>1, <1>2, <2>1 DEF RecordFailure, Accounts, Locks
    <2>3. Done \in InFlight /\ Carried(Done, user.password)
      BY ValuesTyped, Shapes, NothingCarried
    <2>4. /\ Becomes(r, Done) /\ cookie' \in {None} \cup SessionIds
          /\ wrong' \in 0..Lost /\ excused' \in BOOLEAN /\ UNCHANGED <<sessions, swept>>
      BY <1>1, <1>2 DEF RecordFailure, TypeOK
    <2>5. QED
      BY <2>2, <2>3, <2>4, QuietStep
  <1>3. CASE ClearFailures(r)
    <2>1. user' \in Accounts /\ user'.password = user.password
      <3>1. user \in Accounts /\ user' = [user EXCEPT !.failed = 0, !.lock = "none"]
        BY <1>1, <1>3 DEF ClearFailures
      <3>2. 0 \in 0..MaxWrong
        BY SessionsAssumption
      <3>3. QED
        BY <3>1, <3>2 DEF Accounts, Locks
    <2>2. wrong' \in 0..Lost
      BY <1>1, <1>3, SessionsAssumption, HistoriesTyped DEF ClearFailures, Lost
    <2>3. req[r].password \in Passwords
      BY <1>1 DEF InFlight
    <2>4. /\ WithPassword("creating", req[r].password) \in InFlight
          /\ WithPassword("creating", req[r].password).step = "creating"
      BY <2>3, Shapes DEF Steps
    <2>5. QED
      BY <1>1, <1>3, <2>1, <2>2, <2>4, NothingCarried, QuietStep DEF ClearFailures, TypeOK
  <1>4. QED
    BY <1>2, <1>3

LEMMA EndOfRequest ==
  ASSUME IInv, NEW r \in Requests,
         FindForLogout(r) \/ Answer(r) \/ LoseAnswer(r) \/ Die(r)
  PROVE  IInv'
  <1>1. /\ TypeOK /\ user \in Accounts /\ cookie \in {None} \cup SessionIds
        /\ req[r] \in InFlight /\ Carried(req[r], user.password)
        /\ wrong \in 0..Lost /\ excused \in BOOLEAN
    BY DEF IInv, TypeOK, CarriedOK
  <1>2. CASE FindForLogout(r)
    <2>1. req[r].row \in SessionIds
      BY <1>1, <1>2 DEF FindForLogout, Carried
    <2>2. CASE Valid(req[r].row)
      <3>1. Leaving(req[r].row) \in InFlight /\ Carried(Leaving(req[r].row), user.password)
        BY <2>1, Shapes DEF Carried
      <3>2. QED
        BY <1>1, <1>2, <2>2, <3>1, QuietStep DEF FindForLogout
    <2>3. CASE ~Valid(req[r].row)
      <3>1. Reply("clear") \in InFlight /\ Carried(Reply("clear"), user.password)
        BY ValuesTyped, Shapes, NothingCarried DEF Answers
      <3>2. QED
        BY <1>1, <1>2, <2>3, <3>1, QuietStep DEF FindForLogout
    <2>4. QED
      BY <2>2, <2>3
  <1>3. Idle \in InFlight /\ Carried(Idle, user.password)
    BY ValuesTyped, Shapes, NothingCarried
  <1>4. CASE Answer(r)
    <2>1. Stored(r) \in {None} \cup SessionIds
      BY <1>1 DEF Stored, InFlight, Answers
    <2>2. QED
      BY <1>1, <1>3, <1>4, <2>1, QuietStep DEF Answer
  <1>5. CASE LoseAnswer(r)
    BY <1>1, <1>3, <1>5, QuietStep DEF LoseAnswer
  <1>6. CASE Die(r)
    <2>1. wrong' \in 0..Lost
      BY <1>6, SessionsAssumption DEF Die, Lost
    <2>2. QED
      BY <1>1, <1>3, <1>6, <2>1, QuietStep DEF Die
  <1>7. QED
    BY <1>2, <1>4, <1>5, <1>6

\* The user row changes, no request moves and the password stays.
LEMMA UserStep ==
  ASSUME IInv, user' \in Accounts, user'.password = user.password,
         wrong' \in 0..Lost, excused' \in BOOLEAN,
         UNCHANGED <<sessions, cookie, req, swept>>
  PROVE  IInv'
  <1>1. TypeOK'
    BY DEF IInv, TypeOK
  <1>2. CarriedOK' /\ SweptIsPast'
    BY DEF IInv, CarriedOK, Carried, SweptIsPast
  <1>3. QED
    BY <1>1, <1>2, RowsStay DEF IInv

LEMMA UserSteps ==
  ASSUME IInv, (\E r \in Requests : ForgotPassword(r)) \/ LockEnds \/ LinkExpires
  PROVE  IInv'
  <1>1. TypeOK /\ user \in Accounts /\ wrong \in 0..Lost /\ excused \in BOOLEAN
    BY DEF IInv, TypeOK
  <1>2. ASSUME NEW r \in Requests, ForgotPassword(r)
        PROVE  IInv'
    <2>1. user' \in Accounts /\ user'.password = user.password
      BY <1>1, <1>2 DEF ForgotPassword, Accounts
    <2>2. wrong' \in 0..Lost /\ excused' \in BOOLEAN
      BY <1>1, <1>2, HistoriesTyped DEF ForgotPassword
    <2>3. QED
      BY <1>2, <2>1, <2>2, UserStep DEF ForgotPassword
  <1>3. CASE LockEnds
    <2>1. user' \in Accounts /\ user'.password = user.password
      BY <1>1, <1>3 DEF LockEnds, Accounts, Locks
    <2>2. QED
      BY <1>1, <1>3, <2>1, UserStep DEF LockEnds
  <1>4. CASE LinkExpires
    <2>1. user' \in Accounts /\ user'.password = user.password
      BY <1>1, <1>4 DEF LinkExpires, Accounts
    <2>2. QED
      BY <1>1, <1>4, <2>1, UserStep DEF LinkExpires
  <1>5. QED
    BY <1>2, <1>3, <1>4

-----------------------------------------------------------------------------
\* A step that ends sessions, moves no password and no history of resets.
LEMMA EndingStep ==
  ASSUME IInv, sessions' \in [SessionIds -> Rows], \A s \in SessionIds : Ends(s),
         req' \in [Requests -> InFlight], CarriedOK', excused' \in BOOLEAN,
         UNCHANGED <<user, cookie, swept, wrong>>
  PROVE  IInv'
  <1>1. TypeOK' /\ SweptIsPast'
    BY DEF IInv, TypeOK, SweptIsPast
  <1>2. /\ RootsAreUsed' /\ OneLivePerSignIn'
        /\ \A s \in SessionIds : (Live(s))' =>
              Live(s) /\ sessions'[s].password = sessions[s].password
                      /\ sessions'[s].late = sessions[s].late
    BY EndingKeeps DEF IInv
  <1>3. ResetEndsSessions'
    BY <1>2 DEF IInv, ResetEndsSessions
  <1>4. QED
    BY <1>1, <1>2, <1>3 DEF IInv

LEMMA RevokingSteps ==
  ASSUME IInv, NEW r \in Requests, Revoke(r) \/ RevokeAll(r)
  PROVE  IInv'
  <1>1. /\ TypeOK /\ CarriedOK /\ user.password \in Passwords /\ user.password <= user.password
        /\ excused \in BOOLEAN
    BY SessionsAssumption DEF IInv, TypeOK, Accounts, Passwords
  <1>2. PICK q \in {Done, Reply("clear")} : Becomes(r, q)
    BY DEF Revoke, RevokeAll
  <1>3. q \in InFlight /\ Carried(q, user.password)
    BY <1>2, ValuesTyped, Shapes, NothingCarried DEF Answers
  <1>4. UNCHANGED <<user, cookie, swept, wrong, excused>>
    BY DEF Revoke, RevokeAll
  <1>5. req' \in [Requests -> InFlight] /\ CarriedOK'
    BY <1>1, <1>2, <1>3, <1>4, MovingCarries
  <1>6. sessions' \in [SessionIds -> Rows] /\ \A s \in SessionIds : Ends(s)
    <2>1. CASE UNCHANGED sessions
      BY <1>1, <2>1 DEF TypeOK, Ends
    <2>2. ASSUME NEW S, sessions' = Revoked(S)
          PROVE  sessions' \in [SessionIds -> Rows] /\ \A s \in SessionIds : Ends(s)
      BY <1>1, <2>2, RevokingEnds
    <2>3. QED
      BY <2>1, <2>2 DEF Revoke, RevokeAll, AllRevoked
  <1>7. QED
    BY <1>1, <1>4, <1>5, <1>6, EndingStep

LEMMA ClockSteps ==
  ASSUME IInv, (\E s \in SessionIds : SessionExpires(s)) \/ CleanExpiredSessions
  PROVE  IInv'
  <1>1. /\ TypeOK /\ sessions \in [SessionIds -> Rows] /\ excused \in BOOLEAN
        /\ req \in [Requests -> InFlight] /\ CarriedOK
    BY DEF IInv, TypeOK
  <1>2. UNCHANGED <<user, cookie, req, swept, wrong>>
    BY DEF SessionExpires, CleanExpiredSessions
  <1>3. req' \in [Requests -> InFlight] /\ CarriedOK'
    BY <1>1, <1>2 DEF CarriedOK, Carried
  <1>4. CASE CleanExpiredSessions
    <2>1. ASSUME NEW s \in SessionIds
          PROVE  sessions[s] \in Rows /\ Blank(s, "gone") \in Rows
      BY <1>1, SessionsAssumption DEF Rows, Blank, Passwords
    <2>2. sessions' \in [SessionIds -> Rows] /\ \A s \in SessionIds : Ends(s)
      BY <1>4, <2>1 DEF CleanExpiredSessions, Ends, Exists
    <2>3. excused' \in BOOLEAN
      BY <1>1, <1>4 DEF CleanExpiredSessions
    <2>4. QED
      BY <1>2, <1>3, <2>2, <2>3, EndingStep
  <1>5. ASSUME NEW s \in SessionIds, SessionExpires(s)
        PROVE  IInv'
    <2>1. excused' \in BOOLEAN
      BY <1>1, <1>5, Zenon DEF SessionExpires
    <2>2. sessions' = [sessions EXCEPT ![s] = [sessions[s] EXCEPT !.state = "expired"]]
      BY <1>5 DEF SessionExpires
    <2>3. [sessions[s] EXCEPT !.state = "expired"] \in Rows /\ Exists(s)
      BY <1>1, <1>5 DEF Rows, Exists, SessionExpires
    <2>4. sessions' \in [SessionIds -> Rows] /\ \A t \in SessionIds : Ends(t)
      BY <1>1, <2>2, <2>3 DEF Ends
    <2>5. QED
      BY <1>2, <1>3, <2>1, <2>4, EndingStep
  <1>6. QED
    BY <1>4, <1>5

LEMMA PasswordSteps ==
  ASSUME IInv, NEW r \in Requests, WritePassword(r) \/ Sweep(r)
  PROVE  IInv'
  <1>1. /\ TypeOK /\ CarriedOK /\ user \in Accounts /\ user.password \in Passwords
        /\ req[r] \in InFlight /\ Carried(req[r], user.password)
        /\ swept \in Passwords /\ swept <= user.password
    BY DEF IInv, TypeOK, Accounts, CarriedOK, SweptIsPast
  <1>2. CASE WritePassword(r)
    <2>. DEFINE q == WithPassword("sweeping", user.password + 1)
    <2>1. /\ user' \in Accounts /\ user'.password = user.password + 1
          /\ user'.password \in Passwords /\ user.password <= user'.password
      <3>1. user \in Accounts /\ user' = [user EXCEPT !.password = @ + 1, !.link = FALSE]
        BY <1>1, <1>2 DEF WritePassword
      <3>2. user.password + 1 \in Passwords /\ user.password <= user.password + 1
        BY <1>1, <1>2, SessionsAssumption DEF WritePassword, Passwords
      <3>3. user' \in Accounts /\ user'.password = user.password + 1
        BY <3>1, <3>2 DEF Accounts
      <3>4. QED
        BY <3>2, <3>3
    <2>2. q \in InFlight /\ q.step = "sweeping" /\ q.password = user'.password
      BY <2>1, Shapes DEF Steps
    <2>3. Carried(q, user'.password)
      BY <2>1, <2>2, SessionsAssumption DEF Carried, Passwords
    <2>4. Becomes(r, q) /\ UNCHANGED <<sessions, cookie, swept, wrong>> /\ excused' \in BOOLEAN
      BY <1>2 DEF WritePassword
    <2>. HIDE DEF q
    <2>5. req' \in [Requests -> InFlight] /\ CarriedOK'
      BY <1>1, <2>1, <2>2, <2>3, <2>4, MovingCarries
    <2>6. TypeOK'
      BY <1>1, <2>1, <2>4, <2>5 DEF TypeOK
    <2>7. SweptIsPast'
      BY <1>1, <2>1, <2>4, SessionsAssumption DEF SweptIsPast, Passwords
    <2>8. QED
      BY <2>4, <2>5, <2>6, <2>7, RowsStay DEF IInv
  <1>3. CASE Sweep(r)
    <2>1. Done \in InFlight /\ Carried(Done, user.password)
      BY ValuesTyped, Shapes, NothingCarried
    <2>2. /\ Becomes(r, Done) /\ UNCHANGED <<user, cookie, wrong, excused>>
          /\ sessions' = Revoked(SessionIds)
      BY <1>3 DEF Sweep, AfterReset, AllRevoked
    <2>3. user.password <= user.password
      BY <1>1, SessionsAssumption DEF Passwords
    <2>4. req' \in [Requests -> InFlight] /\ CarriedOK'
      BY <1>1, <2>1, <2>2, <2>3, MovingCarries
    <2>5. swept' \in Passwords /\ swept' <= user.password
      <3>1. req[r].password \in Passwords /\ req[r].password <= user.password
        BY <1>1, <1>3 DEF Sweep, Carried, InFlight
      <3>2. QED
        BY <1>1, <1>3, <3>1 DEF Sweep
    <2>6. sessions' \in [SessionIds -> Rows] /\ \A s \in SessionIds : Ends(s)
      BY <1>1, <2>2, RevokingEnds
    <2>7. TypeOK' /\ SweptIsPast'
      BY <1>1, <2>2, <2>4, <2>5, <2>6 DEF TypeOK, SweptIsPast
    <2>8. RootsAreUsed' /\ OneLivePerSignIn'
      BY <2>6, EndingKeeps DEF IInv
    <2>9. ASSUME NEW s \in SessionIds
          PROVE  ~(Live(s))'
      <3>1. sessions[s] \in Rows
        BY <1>1 DEF TypeOK
      <3>2. sessions'[s].state # "live"
        BY <2>2, <3>1 DEF Revoked, Live, Rows
      <3>3. QED
        BY <3>2 DEF Live
    <2>10. QED
      BY <2>4, <2>7, <2>8, <2>9 DEF IInv, ResetEndsSessions
  <1>4. QED
    BY <1>2, <1>3

-----------------------------------------------------------------------------
\* An identifier taken for a new row is unused.
LEMMA NextIdUnused == Unused # {} => NextId \in Unused
  BY DEF NextId

\* A step that inserts a row and answers.
LEMMA InsertingStep ==
  ASSUME IInv, NEW r \in Requests, NEW n \in SessionIds, Becomes(r, NewSession(n)),
         sessions' \in [SessionIds -> Rows], RootsAreUsed', OneLivePerSignIn',
         \A s \in SessionIds : (Live(s))' /\ sessions'[s].password < swept
                                  => sessions'[s].late,
         wrong' \in 0..Lost, excused' \in BOOLEAN, UNCHANGED <<user, cookie, swept>>
  PROVE  IInv'
  <1>1. user.password \in Passwords /\ user.password <= user.password
    BY SessionsAssumption DEF IInv, TypeOK, Accounts, Passwords
  <1>2. NewSession(n) \in InFlight /\ Carried(NewSession(n), user.password)
    BY Shapes, NothingCarried
  <1>3. req' \in [Requests -> InFlight] /\ CarriedOK'
    BY <1>1, <1>2, MovingCarries DEF IInv
  <1>4. TypeOK' /\ SweptIsPast'
    BY <1>3 DEF IInv, TypeOK, SweptIsPast
  <1>5. ResetEndsSessions'
    BY DEF ResetEndsSessions
  <1>6. QED
    BY <1>3, <1>4, <1>5 DEF IInv

LEMMA CreateIInv ==
  ASSUME IInv, NEW r \in Requests, CreateSession(r)
  PROVE  IInv'
  <1>. DEFINE p == req[r].password
              late == p # user.password
  <1>1. /\ TypeOK /\ RootsAreUsed /\ OneLivePerSignIn /\ ResetEndsSessions
        /\ p \in Passwords /\ sessions \in [SessionIds -> Rows]
        /\ user.password \in Passwords /\ swept <= user.password
        /\ wrong \in 0..Lost /\ excused \in BOOLEAN
    BY DEF IInv, TypeOK, InFlight, Accounts, SweptIsPast
  <1>2. NextId \in Unused /\ NextId \in SessionIds
    BY NextIdUnused DEF CreateSession, Unused
  <1>3. late \in BOOLEAN /\ (late \/ swept <= p)
    BY <1>1
  <1>4. late \/ \A t \in SessionIds : sessions[t].state = "live" /\ sessions[t].root = NextId
                                        => sessions[t].late
    BY <1>2 DEF RootsAreUsed, Exists, IInv
  <1>5. sessions' = Created(sessions, NextId, p, NextId, late)
    BY DEF CreateSession
  <1>. HIDE DEF p, late
  <1>6. /\ sessions' \in [SessionIds -> Rows] /\ RootsAreUsed' /\ OneLivePerSignIn'
        /\ \A s \in SessionIds : (Live(s))' /\ sessions'[s].password < swept
                                     => sessions'[s].late
    <2>1. \A s \in SessionIds : sessions[s] = sessions[s]
                 \/ (Live(s) /\ sessions[s] = [sessions[s] EXCEPT !.state = "revoked"])
      OBVIOUS
    <2>2. NextId = NextId \/ NextId \notin Unused
      OBVIOUS
    <2>3. /\ TypeOK /\ RootsAreUsed /\ OneLivePerSignIn /\ ResetEndsSessions
          /\ sessions \in [SessionIds -> Rows] /\ NextId \in Unused /\ NextId \in SessionIds
          /\ p \in Passwords /\ late \in BOOLEAN /\ (late \/ swept <= p)
      BY <1>1, <1>2, <1>3
    <2>4. QED
      BY ONLY <1>4, <1>5, <2>1, <2>2, <2>3, CreatingKeeps, Zenon
  <1>7. Becomes(r, NewSession(NextId)) /\ UNCHANGED <<user, cookie, swept, wrong>>
    BY DEF CreateSession
  <1>8. excused' \in BOOLEAN
    BY Zenon DEF CreateSession, Excused
  <1>9. QED
    BY <1>1, <1>2, <1>6, <1>7, <1>8, InsertingStep

LEMMA RotateIInv ==
  ASSUME IInv, NEW r \in Requests, Rotate(r)
  PROVE  IInv'
  <1>. DEFINE p == req[r].row
  <1>1. /\ TypeOK /\ RootsAreUsed /\ OneLivePerSignIn /\ ResetEndsSessions /\ CarriedOK
        /\ sessions \in [SessionIds -> Rows] /\ cookie \in {None} \cup SessionIds
        /\ user \in Accounts /\ wrong \in 0..Lost /\ excused \in BOOLEAN
        /\ Carried(req[r], user.password) /\ swept \in Passwords
    BY DEF IInv, TypeOK, CarriedOK
  <1>2. p \in SessionIds /\ req[r].valid /\ UNCHANGED <<user, cookie, swept, wrong, excused>>
    BY <1>1 DEF Rotate, Carried
  <1>. HIDE DEF p
  <1>3. CASE ~Exists(p)
    <2>1. Becomes(r, Reply("clear")) /\ UNCHANGED sessions
      BY <1>3 DEF Rotate, p
    <2>2. Reply("clear") \in InFlight /\ Carried(Reply("clear"), user.password)
      BY ValuesTyped, Shapes, NothingCarried DEF Answers
    <2>3. QED
      BY <1>1, <1>2, <2>1, <2>2, QuietStep
  <1>4. CASE Exists(p)
    <2>. DEFINE rows == Revoked({p})
                root == sessions[p].root
                late == sessions[p].late \/ (req[r].valid /\ ~Live(p))
    <2>1. /\ Unused # {} /\ sessions' = Created(rows, NextId, sessions[p].password, root, late)
          /\ Becomes(r, NewSession(NextId))
      BY <1>4 DEF Rotate, Rotated, p
    <2>2. NextId \in Unused /\ NextId \in SessionIds
      BY <2>1, NextIdUnused DEF Unused
    <2>3. sessions[p] \in Rows /\ root \in SessionIds /\ sessions[p].password \in Passwords
      BY <1>1, <1>2 DEF Rows
    <2>4. ASSUME NEW s \in SessionIds
          PROVE  /\ rows[s] = sessions[s]
                    \/ (Live(s) /\ rows[s] = [sessions[s] EXCEPT !.state = "revoked"])
                 /\ rows[s] \in Rows
                 /\ rows[s].state = "live" => Live(s) /\ s # p /\ rows[s] = sessions[s]
      <3>1. sessions[s] \in Rows
        BY <1>1
      <3>2. rows[s] = IF s = p /\ Live(s) THEN [sessions[s] EXCEPT !.state = "revoked"]
                                         ELSE sessions[s]
        BY DEF Revoked
      <3>. HIDE DEF rows
      <3>3. CASE s = p /\ Live(s)
        BY <3>1, <3>2, <3>3 DEF Rows
      <3>4. CASE ~(s = p /\ Live(s))
        BY <3>1, <3>2, <3>4 DEF Live, Rows
      <3>5. QED
        BY <3>3, <3>4
    <2>5. rows \in [SessionIds -> Rows]
      <3>1. rows = [s \in SessionIds |-> rows[s]]
        BY DEF Revoked
      <3>2. QED
        BY <2>4, <3>1
    <2>6. late \in BOOLEAN
      OBVIOUS
    <2>7. root \notin Unused
      BY <1>1, <1>2, <1>4 DEF RootsAreUsed
    <2>8. ~late => Live(p) /\ ~sessions[p].late
      BY <1>2
    <2>9. late \/ \A t \in SessionIds : rows[t].state = "live" /\ rows[t].root = root
                                           => rows[t].late
      BY <1>1, <1>2, <2>4, <2>8 DEF OneLivePerSignIn
    <2>10. late \/ swept <= sessions[p].password
      <3>1. swept \in Nat /\ sessions[p].password \in Nat
        BY <1>1, <2>3, SessionsAssumption DEF Passwords
      <3>2. QED
        BY <1>1, <1>2, <2>8, <3>1 DEF ResetEndsSessions
    <2>. HIDE DEF rows, root, late
    <2>11. /\ sessions' \in [SessionIds -> Rows] /\ RootsAreUsed' /\ OneLivePerSignIn'
           /\ \A s \in SessionIds : (Live(s))' /\ sessions'[s].password < swept
                                        => sessions'[s].late
      <3>1. \A s \in SessionIds : rows[s] = sessions[s]
                 \/ (Live(s) /\ rows[s] = [sessions[s] EXCEPT !.state = "revoked"])
        BY <2>4
      <3>2. QED
        BY <1>1, <2>1, <2>2, <2>3, <2>5, <2>6, <2>7, <2>9, <2>10, <3>1, CreatingKeeps
    <2>12. QED
      BY <1>1, <1>2, <2>1, <2>2, <2>11, InsertingStep
  <1>5. QED
    BY <1>3, <1>4

-----------------------------------------------------------------------------
LEMMA NextIInv == IInv /\ [Next]_vars => IInv'
  <1>1. SUFFICES ASSUME IInv, [Next]_vars PROVE IInv'
    OBVIOUS
  <1>2. ASSUME NEW r \in Requests, Step(r)
        PROVE  IInv'
    BY <1>1, <1>2, LoginIInv, OtherArrivals, FailuresIInv, CreateIInv, RotateIInv,
       EndOfRequest, RevokingSteps, UserSteps, PasswordSteps DEF Step
  <1>3. CASE LockEnds \/ LinkExpires
    BY <1>1, <1>3, UserSteps
  <1>4. CASE (\E s \in SessionIds : SessionExpires(s)) \/ CleanExpiredSessions
    BY <1>1, <1>4, ClockSteps
  <1>5. CASE UNCHANGED vars
    <2>1. user.password \in Passwords
      BY <1>1 DEF IInv, TypeOK, Accounts
    <2>2. TypeOK' /\ CarriedOK' /\ SweptIsPast'
      BY <1>1, <1>5 DEF IInv, TypeOK, CarriedOK, Carried, SweptIsPast, vars
    <2>3. QED
      BY <1>1, <1>5, <2>2, RowsStay DEF IInv, vars
  <1>6. QED
    BY <1>1, <1>2, <1>3, <1>4, <1>5 DEF Next

LEMMA Inductive == Spec => []IInv
  BY InitIInv, NextIInv, PTL DEF Spec

(***************************************************************************)
(* Every variable keeps its type.                                          *)
(***************************************************************************)
THEOREM SessionsTypeCorrect == Spec => []TypeOK
  <1>1. IInv => TypeOK
    BY DEF IInv
  <1>2. QED
    BY <1>1, Inductive, PTL

(***************************************************************************)
(* One sign-in has one live session, but for the rotations that committed  *)
(* after their row was revoked (token.service.ts:199), for any number of   *)
(* requests and of sessions.                                               *)
(***************************************************************************)
THEOREM RotationReplaces == Spec => []OneLivePerSignIn
  <1>1. IInv => OneLivePerSignIn
    BY DEF IInv
  <1>2. QED
    BY <1>1, Inductive, PTL

(***************************************************************************)
(* After a reset has revoked (auth.service.ts:576), the live sessions of   *)
(* an earlier password are those written from an overtaken read, for any   *)
(* number of requests, sessions and resets.                                *)
(***************************************************************************)
THEOREM ResetsEndSessions == Spec => []ResetEndsSessions
  <1>1. IInv => ResetEndsSessions
    BY DEF IInv
  <1>2. QED
    BY <1>1, Inductive, PTL

-----------------------------------------------------------------------------
(***************************************************************************)
(* Requests one at a time.  As long as neither history is lost, at most    *)
(* one request is under way, and the two invariants say what it carries.   *)
(***************************************************************************)
OneBusy == \A r, q \in Requests : (Busy(r) /\ Busy(q)) => r = q

\* The counter, and the wrong password that is about to be added to it.
Counting == wrong # Lost =>
    /\ OneBusy
    /\ user.failed >= LockAfter => user.lock # "none"
    /\ \A r \in Requests : req[r].step = "failing" =>
           req[r].failed = user.failed /\ wrong = user.failed + 1
    /\ (\A r \in Requests : req[r].step # "failing") => wrong = user.failed

\* What a request carries while its browser is owed a live session.
Keeps(q, held, rows) ==
    /\ q.step \notin {"finding", "revokingAll", "sweeping"}
    /\ q.step = "rotating" => q.row = held
    /\ q.step = "revoking" => q.row # held /\ q.answer = "keep"
    /\ q.step = "answering" => /\ q.answer = "set"
                               /\ q.row \in SessionIds /\ rows[q.row].state = "live"

\* The session the browser holds.
Holds(held, rows) == held # None /\ rows[held].state = "live"

SignedIn == ~excused =>
    /\ wrong # Lost
    /\ \A r \in Requests : Keeps(req[r], cookie, sessions)
    /\ (\A r \in Requests : req[r].step # "answering") => Holds(cookie, sessions)

\* The request that moves, and the others.
LEMMA Moved ==
  ASSUME TypeOK, NEW r \in Requests, NEW q, Becomes(r, q)
  PROVE  req'[r] = q /\ \A t \in Requests \ {r} : req'[t] = req[t]
  BY DEF TypeOK, Becomes

\* What else is known of the values a request takes.
LEMMA MoreShapes ==
  /\ \A step \in Steps, row \in {None} \cup SessionIds : WithRow(step, row).answer = "keep"
  /\ \A row \in SessionIds : NewSession(row).row = row /\ NewSession(row).answer = "set"
  <1>1. ASSUME NEW step \in Steps, NEW row \in {None} \cup SessionIds
        PROVE  WithRow(step, row).answer = "keep"
    BY <1>1 DEF WithRow, At, Idle
  <1>2. ASSUME NEW row \in SessionIds
        PROVE  NewSession(row).row = row /\ NewSession(row).answer = "set"
    BY <1>2 DEF NewSession, Reply, At, Idle
  <1>3. QED
    BY <1>1, <1>2

-----------------------------------------------------------------------------
LEMMA InitCounting == Init => Counting
  BY SessionsAssumption DEF Init, Counting, OneBusy, Busy, Fresh, Idle

\* A request arrives.
LEMMA CountedArrival ==
  ASSUME TypeOK, Counting, NEW r \in Requests, Arrives(r), NEW q, Becomes(r, q),
         NEW n \in 0..Lost, Counted(r, n), UNCHANGED user,
         \/ q.step # "failing" /\ n = wrong
         \/ q.step = "failing" /\ q.failed = user.failed /\ n = wrong + 1
  PROVE  Counting'
  <1>1. CASE wrong' = Lost
    BY <1>1 DEF Counting, Lost
  <1>2. CASE wrong' # Lost
    <2>1. Alone(r) /\ wrong' = n
      BY <1>2, Zenon DEF Counted
    <2>2. \A t \in Requests : ~Busy(t)
      BY <2>1 DEF Alone, Arrives
    <2>3. \A t \in Requests : req[t].step # "failing"
      BY <2>2 DEF Busy
    <2>4. wrong = user.failed /\ (user.failed >= LockAfter => user.lock # "none")
      BY <2>1, <2>3 DEF Counting, Alone
    <2>5. req'[r] = q /\ \A t \in Requests \ {r} : req'[t] = req[t]
      BY Moved
    <2>6. OneBusy'
      BY <2>2, <2>5 DEF OneBusy, Busy
    <2>7. QED
      BY <2>1, <2>3, <2>4, <2>5, <2>6 DEF Counting
  <1>3. QED
    BY <1>1, <1>2

\* A request moves on and neither counter nor lock changes.
LEMMA CountedMove ==
  ASSUME TypeOK, Counting, NEW r \in Requests, Busy(r), NEW q, Becomes(r, q),
         req[r].step # "failing", q.step # "failing",
         wrong' = wrong, user'.failed = user.failed, user'.lock = user.lock
  PROVE  Counting'
  <1>1. req'[r] = q /\ \A t \in Requests \ {r} : req'[t] = req[t]
    BY Moved
  <1>2. wrong # Lost => OneBusy'
    BY <1>1 DEF Counting, OneBusy, Busy
  <1>3. QED
    BY <1>1, <1>2 DEF Counting, Lost

LEMMA LoginCounting ==
  ASSUME IInv, Counting, NEW r \in Requests, NEW given \in Passwords, Login(r, given)
  PROVE  Counting'
  <1>1. TypeOK /\ user \in Accounts /\ wrong \in 0..Lost /\ user.password \in Passwords
    BY DEF IInv, TypeOK, Accounts
  <1>2. /\ Arrives(r) /\ Becomes(r, AfterLogin(given)) /\ UNCHANGED user
        /\ Counted(r, IF user.lock # "held" /\ given # user.password THEN wrong + 1 ELSE wrong)
    BY DEF Login
  <1>3. CASE user.lock # "held" /\ given # user.password
    <2>. DEFINE q == WithFailures(user.failed)
    <2>1. q.step = "failing" /\ q.failed = user.failed
      BY <1>1, Shapes DEF Accounts
    <2>2. Becomes(r, q) /\ Counted(r, wrong + 1)
      BY <1>2, <1>3, Zenon DEF AfterLogin
    <2>. HIDE DEF q
    <2>3. CASE wrong + 1 \in 0..Lost
      BY <1>1, <1>2, <2>1, <2>2, <2>3, CountedArrival
    <2>4. CASE wrong = Lost
      <3>1. wrong' = Lost
        BY <2>2, <2>4, Zenon DEF Counted, Alone
      <3>2. QED
        BY <3>1 DEF Counting, Lost
    <2>5. QED
      BY <1>1, <2>3, <2>4, SessionsAssumption DEF Lost
  <1>4. CASE ~(user.lock # "held" /\ given # user.password)
    <2>1. Counted(r, wrong)
      BY <1>2, <1>4, Zenon
    <2>2. AfterLogin(given).step # "failing"
      BY <1>1, <1>4, Shapes DEF AfterLogin, Steps
    <2>3. QED
      BY <1>1, <1>2, <2>1, <2>2, CountedArrival
  <1>5. QED
    BY <1>3, <1>4

\* The other requests arrive with the counter as it is.
LEMMA ArrivalsCounting ==
  ASSUME IInv, Counting, NEW r \in Requests,
         \/ GoogleLogin(r) \/ Refresh(r) \/ Logout(r) \/ LogoutAll(r)
         \/ (\E s \in SessionIds : RevokeSession(r, s)) \/ ResetPassword(r)
  PROVE  Counting'
  <1>1. /\ TypeOK /\ user.password \in Passwords /\ wrong \in 0..Lost
        /\ cookie \in {None} \cup SessionIds
    BY DEF IInv, TypeOK, Accounts
  <1>2. Arrives(r) /\ Counted(r, wrong) /\ UNCHANGED user
    BY DEF GoogleLogin, Refresh, Logout, LogoutAll, RevokeSession, ResetPassword, Authenticated
  <1>3. ASSUME NEW q, Becomes(r, q), q.step # "failing"
        PROVE  Counting'
    BY <1>1, <1>2, <1>3, CountedArrival
  <1>4. CASE GoogleLogin(r)
    <2>1. WithPassword("creating", user.password).step # "failing"
      BY <1>1, Shapes DEF Steps
    <2>2. QED
      BY <1>3, <1>4, <2>1 DEF GoogleLogin
  <1>5. CASE Refresh(r)
    <2>1. AfterLookup.step # "failing"
      <3>1. CASE Valid(cookie)
        <4>1. cookie \in SessionIds /\ Valid(cookie) = TRUE
          BY <1>1, <3>1 DEF Valid, Live
        <4>2. AfterLookup = Found(cookie, TRUE)
          BY <4>1, Zenon DEF AfterLookup
        <4>3. QED
          BY <4>1, <4>2, Shapes
      <3>2. CASE ~Valid(cookie)
        BY <3>2, Shapes DEF AfterLookup, Answers
      <3>3. QED
        BY <3>1, <3>2
    <2>2. QED
      BY <1>3, <1>5, <2>1 DEF Refresh
  <1>6. CASE Logout(r)
    <2>. DEFINE q == IF Valid(cookie) THEN WithRow("finding", cookie) ELSE Done
    <2>1. q.step # "failing"
      BY <1>1, Shapes DEF Steps
    <2>2. QED
      BY <1>3, <1>6, <2>1 DEF Logout, Authenticated
  <1>7. CASE LogoutAll(r)
    <2>. DEFINE q == IF Valid(cookie) THEN At("revokingAll") ELSE Done
    <2>1. q.step # "failing"
      BY Shapes DEF Steps
    <2>2. QED
      BY <1>3, <1>7, <2>1 DEF LogoutAll, Authenticated
  <1>8. ASSUME NEW s \in SessionIds, RevokeSession(r, s)
        PROVE  Counting'
    <2>. DEFINE q == IF Valid(cookie) THEN WithRow("revoking", s) ELSE Done
    <2>1. q.step # "failing"
      BY Shapes DEF Steps
    <2>2. QED
      BY <1>3, <1>8, <2>1 DEF RevokeSession, Authenticated
  <1>9. CASE ResetPassword(r)
    <2>1. At("rewriting").step # "failing"
      BY Shapes DEF Steps
    <2>2. QED
      BY <1>3, <1>9, <2>1 DEF ResetPassword
  <1>10. QED
    BY <1>4, <1>5, <1>6, <1>7, <1>8, <1>9

\* The two writes to the counter.
LEMMA FailuresCounting ==
  ASSUME IInv, Counting, NEW r \in Requests, RecordFailure(r) \/ ClearFailures(r)
  PROVE  Counting'
  <1>1. /\ TypeOK /\ user \in Accounts /\ req[r] \in InFlight /\ wrong \in 0..Lost
    BY DEF IInv, TypeOK
  <1>2. ASSUME wrong # Lost, Busy(r), NEW q, Becomes(r, q)
        PROVE  /\ \A t \in Requests \ {r} : ~Busy(t) /\ req'[t] = req[t]
               /\ req'[r] = q /\ OneBusy'
    <2>1. req'[r] = q /\ \A t \in Requests \ {r} : req'[t] = req[t]
      BY <1>1, <1>2, Moved
    <2>2. \A t \in Requests \ {r} : ~Busy(t)
      BY <1>2 DEF Counting, OneBusy
    <2>3. QED
      BY <2>1, <2>2 DEF OneBusy, Busy
  <1>3. CASE RecordFailure(r)
    <2>1. /\ Busy(r) /\ Becomes(r, Done) /\ wrong' = wrong /\ req[r].step = "failing"
          /\ user'.failed = req[r].failed + 1
          /\ user'.lock = IF req[r].failed + 1 >= LockAfter THEN "held" ELSE user.lock
      BY <1>1, <1>3 DEF RecordFailure, Attempts, Busy, Accounts
    <2>2. SUFFICES ASSUME wrong # Lost PROVE Counting'
      BY <2>1 DEF Counting, Lost
    <2>3. /\ \A t \in Requests \ {r} : ~Busy(t) /\ req'[t] = req[t]
          /\ req'[r] = Done /\ OneBusy'
      BY <1>2, <2>1, <2>2
    <2>4. \A t \in Requests : req'[t].step = "idle"
      BY <2>3, Shapes DEF Busy
    <2>5. wrong' = user'.failed
      BY <2>1, <2>2 DEF Counting
    <2>6. user'.failed >= LockAfter => user'.lock # "none"
      BY <2>1
    <2>7. QED
      BY <2>3, <2>4, <2>5, <2>6 DEF Counting
  <1>4. CASE ClearFailures(r)
    <2>. DEFINE q == WithPassword("creating", req[r].password)
    <2>1. q.step = "creating"
      BY <1>1, Shapes DEF Steps, InFlight
    <2>2. Busy(r) /\ Becomes(r, q) /\ Counted(r, 0)
      BY <1>4 DEF ClearFailures, Busy
    <2>3. user'.failed = 0 /\ user'.lock = "none"
      BY <1>1, <1>4 DEF ClearFailures, Accounts
    <2>. HIDE DEF q
    <2>4. CASE wrong = Lost
      <3>1. wrong' = Lost
        BY <2>2, <2>4, Zenon DEF Counted, Alone
      <3>2. QED
        BY <3>1 DEF Counting, Lost
    <2>5. CASE wrong # Lost
      <3>1. /\ \A t \in Requests \ {r} : ~Busy(t) /\ req'[t] = req[t]
            /\ req'[r] = q /\ OneBusy'
        BY <1>2, <2>2, <2>5
      <3>2. wrong' = 0
        BY <2>2, <2>5, <3>1 DEF Counted, Alone
      <3>3. \A t \in Requests : req'[t].step # "failing"
        BY <2>1, <3>1 DEF Busy
      <3>4. ~(user'.failed >= LockAfter)
        BY <2>3, SessionsAssumption
      <3>5. QED
        BY <2>3, <3>1, <3>2, <3>3, <3>4 DEF Counting
    <2>6. QED
      BY <2>4, <2>5
  <1>5. QED
    BY <1>3, <1>4

\* The steps that change neither counter nor lock.
LEMMA MovesCounting ==
  ASSUME IInv, Counting, NEW r \in Requests,
         \/ CreateSession(r) \/ Rotate(r) \/ FindForLogout(r) \/ Revoke(r) \/ RevokeAll(r)
         \/ WritePassword(r) \/ Sweep(r) \/ Answer(r) \/ LoseAnswer(r)
  PROVE  Counting'
  <1>1. /\ TypeOK /\ user \in Accounts /\ user.password \in Passwords /\ req[r] \in InFlight
        /\ Carried(req[r], user.password)
    BY DEF IInv, TypeOK, Accounts, CarriedOK
  <1>2. /\ Busy(r) /\ req[r].step # "failing" /\ wrong' = wrong
    BY DEF Busy, CreateSession, Rotate, FindForLogout, Revoke, RevokeAll, WritePassword, Sweep,
           Answer, LoseAnswer
  <1>3. user'.failed = user.failed /\ user'.lock = user.lock
    BY <1>1 DEF CreateSession, Rotate, FindForLogout, Revoke, RevokeAll, WritePassword, Sweep,
                Answer, LoseAnswer, Accounts
  <1>4. ASSUME NEW q, Becomes(r, q), q.step # "failing"
        PROVE  Counting'
    BY <1>1, <1>2, <1>3, <1>4, CountedMove
  <1>5. /\ Done.step # "failing" /\ Idle.step # "failing"
        /\ \A answer \in Answers : Reply(answer).step # "failing"
        /\ \A row \in SessionIds : NewSession(row).step # "failing" /\ Leaving(row).step # "failing"
    BY Shapes
  <1>6. Unused # {} => NextId \in SessionIds
    BY NextIdUnused DEF Unused
  <1>7. CASE CreateSession(r)
    BY <1>4, <1>5, <1>6, <1>7 DEF CreateSession
  <1>8. CASE Rotate(r)
    BY <1>4, <1>5, <1>6, <1>8 DEF Rotate, Answers
  <1>9. CASE FindForLogout(r)
    <2>1. req[r].row \in SessionIds
      BY <1>1, <1>9 DEF FindForLogout, Carried
    <2>2. QED
      BY <1>4, <1>5, <1>9, <2>1 DEF FindForLogout, Answers
  <1>10. CASE Revoke(r) \/ RevokeAll(r)
    BY <1>4, <1>5, <1>10 DEF Revoke, RevokeAll, Answers
  <1>11. CASE WritePassword(r)
    <2>1. user.password + 1 \in Passwords
      BY <1>1, <1>11, SessionsAssumption DEF WritePassword, Passwords
    <2>2. WithPassword("sweeping", user.password + 1).step # "failing"
      BY <2>1, Shapes DEF Steps
    <2>3. QED
      BY <1>4, <1>11, <2>2 DEF WritePassword
  <1>12. CASE Sweep(r)
    BY <1>4, <1>5, <1>12 DEF Sweep
  <1>13. CASE Answer(r) \/ LoseAnswer(r)
    BY <1>4, <1>5, <1>13 DEF Answer, LoseAnswer
  <1>14. QED
    BY <1>7, <1>8, <1>9, <1>10, <1>11, <1>12, <1>13

\* Requests stay where they are.
LEMMA StillCounting ==
  ASSUME Counting, req' = req, wrong' = wrong, user'.failed = user.failed,
         user'.lock # user.lock => user'.lock # "none"
  PROVE  Counting'
  BY DEF Counting, OneBusy, Busy, Lost

LEMMA NextCounting == IInv /\ Counting /\ [Next]_vars => Counting'
  <1>1. SUFFICES ASSUME IInv, Counting, [Next]_vars PROVE Counting'
    OBVIOUS
  <1>2. TypeOK /\ user \in Accounts
    BY <1>1 DEF IInv, TypeOK
  <1>3. ASSUME NEW r \in Requests, Step(r)
        PROVE  Counting'
    <2>1. CASE ForgotPassword(r)
      <3>1. user'.failed = user.failed /\ user'.lock = user.lock /\ req' = req
        BY <1>2, <2>1 DEF ForgotPassword, Accounts
      <3>2. CASE wrong' = wrong
        BY <1>1, <3>1, <3>2, StillCounting
      <3>3. CASE wrong' = Lost
        BY <3>3 DEF Counting, Lost
      <3>4. QED
        BY <2>1, <3>2, <3>3, Zenon DEF ForgotPassword, Counted
    <2>2. CASE Die(r)
      BY <2>2 DEF Die, Counting, Lost
    <2>3. QED
      BY <1>1, <1>3, <2>1, <2>2, LoginCounting, ArrivalsCounting, FailuresCounting,
         MovesCounting DEF Step
  <1>4. CASE LockEnds \/ LinkExpires \/ (\E s \in SessionIds : SessionExpires(s))
             \/ CleanExpiredSessions \/ UNCHANGED vars
    <2>1. /\ req' = req /\ wrong' = wrong /\ user'.failed = user.failed
          /\ user'.lock # user.lock => user'.lock # "none"
      BY <1>2, <1>4 DEF LockEnds, LinkExpires, SessionExpires, CleanExpiredSessions, vars, Accounts
    <2>2. QED
      BY <1>1, <2>1, StillCounting
  <1>5. QED
    BY <1>1, <1>3, <1>4 DEF Next

(***************************************************************************)
(* While requests come one at a time and none dies, the counter counts the *)
(* wrong passwords and enough of them lock the account                     *)
(* (auth.service.ts:294-306), for any limit and any number of requests.    *)
(***************************************************************************)
THEOREM WrongPasswordsAreCounted == Spec => []FailuresAreCounted
  <1>1. Counting => FailuresAreCounted
    BY DEF Counting, FailuresAreCounted, Busy
  <1>2. Spec => []Counting
    BY Inductive, InitCounting, NextCounting, PTL DEF Spec
  <1>3. QED
    BY <1>1, <1>2, PTL

-----------------------------------------------------------------------------
LEMMA InitSignedIn == Init => SignedIn
  BY DEF Init, SignedIn

\* A request that is idle, or about to write something that is not a row the
\* browser holds, says nothing about the browser.
LEMMA KeepsNothing ==
  ASSUME NEW q, NEW held, NEW rows,
         q.step \in {"idle", "failing", "clearing", "creating", "rewriting"}
  PROVE  Keeps(q, held, rows)
  BY DEF Keeps

\* A step of one request, while the others are idle.
LEMMA SignedStep ==
  ASSUME TypeOK, NEW r \in Requests, NEW q, Becomes(r, q),
         ~excused' => /\ wrong' # Lost
                      /\ \A t \in Requests \ {r} : ~Busy(t)
                      /\ Keeps(q, cookie', sessions')
                      /\ q.step # "answering" => Holds(cookie', sessions')
  PROVE  SignedIn'
  <1>1. SUFFICES ASSUME ~excused'
                 PROVE  /\ wrong' # Lost
                        /\ \A t \in Requests : Keeps(req'[t], cookie', sessions')
                        /\ (\A t \in Requests : req'[t].step # "answering")
                               => Holds(cookie', sessions')
    BY DEF SignedIn
  <1>2. req'[r] = q /\ \A t \in Requests \ {r} : req'[t] = req[t]
    BY Moved
  <1>3. ASSUME NEW t \in Requests \ {r}
        PROVE  Keeps(req'[t], cookie', sessions')
    BY <1>1, <1>2, KeepsNothing DEF Busy
  <1>4. QED
    BY <1>1, <1>2, <1>3

\* While the browser is owed a session and nothing is under way, it has one.
LEMMA SignedAtRest ==
  ASSUME SignedIn, ~excused, \A t \in Requests : req[t].step # "answering"
  PROVE  Holds(cookie, sessions)
  BY DEF SignedIn

\* A request arrives that leaves rows and cookies alone.
LEMMA SignedArrival ==
  ASSUME TypeOK, SignedIn, NEW r \in Requests, Arrives(r), NEW q, Becomes(r, q),
         NEW n, Counted(r, n), Alone(r) => n # Lost, NEW e \in BOOLEAN, Excused(r, e),
         UNCHANGED <<sessions, cookie>>, excused => e,
         (~e /\ Holds(cookie, sessions)) =>
             Keeps(q, cookie, sessions) /\ q.step # "answering"
  PROVE  SignedIn'
  <1>1. SUFFICES ASSUME ~excused'
                 PROVE  /\ wrong' # Lost
                        /\ \A t \in Requests \ {r} : ~Busy(t)
                        /\ Keeps(q, cookie', sessions')
                        /\ q.step # "answering" => Holds(cookie', sessions')
    BY SignedStep
  <1>2. ~e /\ Alone(r) /\ ~excused
    BY <1>1, Zenon DEF Excused
  <1>3. (\A t \in Requests \ {r} : ~Busy(t)) /\ wrong' = n
    BY <1>2, Zenon DEF Alone, Counted
  <1>4. wrong' # Lost
    BY <1>2, <1>3
  <1>5. Holds(cookie, sessions)
    BY <1>2, <1>3, SignedAtRest DEF Busy, Arrives
  <1>6. QED
    BY <1>2, <1>3, <1>4, <1>5

\* Rows are revoked or a request ends: the histories stay.
LEMMA SignedMove ==
  ASSUME TypeOK, Counting, SignedIn, NEW r \in Requests, Busy(r), NEW q, Becomes(r, q),
         UNCHANGED <<wrong, excused>>,
         ~excused => /\ Keeps(q, cookie', sessions')
                     /\ q.step # "answering" => Holds(cookie', sessions')
  PROVE  SignedIn'
  <1>1. ~excused => wrong # Lost /\ \A t \in Requests \ {r} : ~Busy(t)
    BY DEF SignedIn, Counting, OneBusy
  <1>2. QED
    BY <1>1, SignedStep

\* What a busy request carries while the browser is owed a session.
LEMMA SignedCarries ==
  ASSUME Counting, SignedIn, ~excused, NEW r \in Requests, Busy(r)
  PROVE  /\ Keeps(req[r], cookie, sessions)
         /\ req[r].step # "answering" => Holds(cookie, sessions)
         /\ \A t \in Requests \ {r} : ~Busy(t)
  <1>1. Keeps(req[r], cookie, sessions) /\ \A t \in Requests \ {r} : ~Busy(t)
    BY DEF SignedIn, Counting, OneBusy
  <1>2. ASSUME req[r].step # "answering"
        PROVE  Holds(cookie, sessions)
    BY <1>1, <1>2, SignedAtRest DEF Busy
  <1>3. QED
    BY <1>1, <1>2

LEMMA LoginSigned ==
  ASSUME IInv, SignedIn, NEW r \in Requests, NEW given \in Passwords, Login(r, given)
  PROVE  SignedIn'
  <1>. DEFINE n == IF user.lock # "held" /\ given # user.password THEN wrong + 1 ELSE wrong
              q == AfterLogin(given)
  <1>1. TypeOK /\ user \in Accounts /\ wrong \in 0..Lost /\ excused \in BOOLEAN
        /\ user.password \in Passwords
    BY DEF IInv, TypeOK, Accounts
  <1>2. /\ Arrives(r) /\ Becomes(r, q) /\ Counted(r, n) /\ Excused(r, excused)
        /\ UNCHANGED <<sessions, cookie>>
        /\ given # user.password => user.failed < MaxWrong /\ wrong # MaxWrong
    BY DEF Login
  <1>3. Alone(r) => n # Lost
    BY <1>1, <1>2, SessionsAssumption DEF Alone, Lost
  <1>4. q.step \in {"idle", "failing", "clearing", "creating"}
    <2>1. CASE user.lock # "held" /\ given # user.password
      <3>1. user.failed \in 0..MaxWrong
        BY <1>1 DEF Accounts
      <3>2. QED
        BY <2>1, <3>1, Shapes DEF AfterLogin
    <2>2. CASE user.lock = "held"
      BY <2>2, Shapes DEF AfterLogin
    <2>3. CASE user.lock # "held" /\ given = user.password
      BY <1>1, <2>3, Shapes DEF AfterLogin, Steps
    <2>4. QED
      BY <2>1, <2>2, <2>3
  <1>. HIDE DEF n, q
  <1>5. Keeps(q, cookie, sessions) /\ q.step # "answering"
    BY <1>4, KeepsNothing
  <1>6. QED
    BY <1>1, <1>2, <1>3, <1>5, SignedArrival

LEMMA ArrivalsSigned ==
  ASSUME IInv, SignedIn, NEW r \in Requests,
         \/ GoogleLogin(r) \/ Refresh(r) \/ Logout(r) \/ LogoutAll(r)
         \/ (\E s \in SessionIds : RevokeSession(r, s)) \/ ResetPassword(r)
  PROVE  SignedIn'
  <1>1. /\ TypeOK /\ user.password \in Passwords /\ cookie \in {None} \cup SessionIds
        /\ excused \in BOOLEAN
    BY DEF IInv, TypeOK, Accounts
  <1>2. /\ Arrives(r) /\ Counted(r, wrong) /\ UNCHANGED <<sessions, cookie>>
        /\ Alone(r) => wrong # Lost
    BY DEF GoogleLogin, Refresh, Logout, LogoutAll, RevokeSession, ResetPassword, Authenticated,
           Alone
  <1>3. ASSUME NEW q, Becomes(r, q), NEW e \in BOOLEAN, Excused(r, e), excused => e,
               (~e /\ Holds(cookie, sessions)) =>
                   Keeps(q, cookie, sessions) /\ q.step # "answering"
        PROVE  SignedIn'
    BY <1>1, <1>2, <1>3, SignedArrival
  <1>4. CASE GoogleLogin(r)
    <2>. DEFINE q == WithPassword("creating", user.password)
    <2>1. q.step = "creating"
      BY <1>1, Shapes DEF Steps
    <2>2. Becomes(r, q) /\ Excused(r, excused)
      BY <1>4 DEF GoogleLogin
    <2>. HIDE DEF q
    <2>3. QED
      BY <1>1, <1>3, <2>1, <2>2, KeepsNothing
  <1>5. CASE Refresh(r)
    <2>. DEFINE q == AfterLookup
    <2>1. Holds(cookie, sessions) => Keeps(q, cookie, sessions) /\ q.step # "answering"
      <3>1. SUFFICES ASSUME Holds(cookie, sessions)
                     PROVE  Keeps(q, cookie, sessions) /\ q.step # "answering"
        OBVIOUS
      <3>2. cookie \in SessionIds /\ Valid(cookie) = TRUE
        BY <1>1, <3>1 DEF Holds, Valid, Live
      <3>3. q = Found(cookie, TRUE)
        BY <3>2, Zenon DEF AfterLookup
      <3>4. q.step = "rotating" /\ q.row = cookie
        BY <3>2, <3>3, Shapes
      <3>. HIDE DEF q
      <3>5. QED
        BY <3>4 DEF Keeps
    <2>2. Becomes(r, q) /\ Excused(r, excused)
      BY <1>5 DEF Refresh
    <2>. HIDE DEF q
    <2>3. QED
      BY <1>1, <1>3, <2>1, <2>2
  <1>6. CASE Logout(r)
    <2>1. PICK q : Becomes(r, q) /\ Excused(r, TRUE)
      BY <1>6 DEF Logout, Authenticated
    <2>2. QED
      BY <1>3, <2>1
  <1>7. CASE LogoutAll(r)
    <2>1. PICK q : Becomes(r, q) /\ Excused(r, TRUE)
      BY <1>7 DEF LogoutAll, Authenticated
    <2>2. QED
      BY <1>3, <2>1
  <1>8. ASSUME NEW s \in SessionIds, RevokeSession(r, s)
        PROVE  SignedIn'
    <2>. DEFINE q == IF Valid(cookie) THEN WithRow("revoking", s) ELSE Done
                e == excused \/ s = cookie
    <2>1. ~e => Keeps(q, cookie, sessions) /\ q.step # "answering"
      <3>1. CASE Valid(cookie)
        <4>1. q.step = "revoking" /\ q.row = s /\ q.answer = "keep"
          BY <3>1, Shapes, MoreShapes DEF Steps
        <4>. HIDE DEF q
        <4>2. QED
          BY <4>1 DEF Keeps
      <3>2. CASE ~Valid(cookie)
        <4>1. q.step = "idle"
          BY <3>2, Shapes
        <4>. HIDE DEF q
        <4>2. QED
          BY <4>1, KeepsNothing
      <3>3. QED
        BY <3>1, <3>2
    <2>2. Becomes(r, q) /\ Excused(r, e)
      BY <1>8 DEF RevokeSession, Authenticated
    <2>3. e \in BOOLEAN /\ (excused => e)
      BY <1>1
    <2>. HIDE DEF q, e
    <2>4. QED
      BY <1>3, <2>1, <2>2, <2>3
  <1>9. CASE ResetPassword(r)
    <2>. DEFINE q == At("rewriting")
    <2>1. q.step = "rewriting"
      BY Shapes DEF Steps
    <2>2. Becomes(r, q) /\ Excused(r, excused)
      BY <1>9 DEF ResetPassword
    <2>. HIDE DEF q
    <2>3. QED
      BY <1>1, <1>3, <2>1, <2>2, KeepsNothing
  <1>10. QED
    BY <1>4, <1>5, <1>6, <1>7, <1>8, <1>9

LEMMA FailuresSigned ==
  ASSUME IInv, Counting, SignedIn, NEW r \in Requests, RecordFailure(r) \/ ClearFailures(r)
  PROVE  SignedIn'
  <1>1. TypeOK /\ req[r] \in InFlight
    BY DEF IInv, TypeOK
  <1>2. Busy(r) /\ req[r].step # "answering" /\ UNCHANGED <<sessions, cookie, excused>>
    BY DEF RecordFailure, ClearFailures, Busy
  <1>3. ~excused => Holds(cookie, sessions) /\ \A t \in Requests \ {r} : ~Busy(t)
    BY <1>2, SignedCarries
  <1>4. CASE RecordFailure(r)
    <2>1. Becomes(r, Done) /\ UNCHANGED <<wrong, excused>>
      BY <1>4 DEF RecordFailure
    <2>2. Keeps(Done, cookie, sessions)
      BY Shapes, KeepsNothing
    <2>3. QED
      BY <1>1, <1>2, <1>3, <2>1, <2>2, SignedMove
  <1>5. CASE ClearFailures(r)
    <2>. DEFINE q == WithPassword("creating", req[r].password)
    <2>1. q.step = "creating"
      BY <1>1, Shapes DEF Steps, InFlight
    <2>2. Becomes(r, q) /\ Counted(r, 0)
      BY <1>5 DEF ClearFailures
    <2>3. ~excused => wrong' # Lost
      <3>1. SUFFICES ASSUME ~excused PROVE wrong' # Lost
        OBVIOUS
      <3>2. Alone(r)
        BY <1>3, <3>1 DEF SignedIn, Alone
      <3>3. wrong' = 0
        BY <2>2, <3>2 DEF Counted
      <3>4. QED
        BY <3>3, SessionsAssumption DEF Lost
    <2>. HIDE DEF q
    <2>4. Keeps(q, cookie, sessions)
      BY <2>1, KeepsNothing
    <2>5. QED
      BY <1>1, <1>2, <1>3, <2>2, <2>3, <2>4, SignedStep
  <1>6. QED
    BY <1>4, <1>5

\* The two steps that insert a row answer with it.
LEMMA InsertsSigned ==
  ASSUME IInv, Counting, SignedIn, NEW r \in Requests, CreateSession(r) \/ Rotate(r)
  PROVE  SignedIn'
  <1>1. TypeOK /\ sessions \in [SessionIds -> Rows] /\ CarriedOK /\ Carried(req[r], user.password)
    BY DEF IInv, TypeOK, CarriedOK
  <1>2. ASSUME Unused # {}
        PROVE  /\ NextId \in SessionIds
               /\ NewSession(NextId).step = "answering" /\ NewSession(NextId).answer = "set"
               /\ NewSession(NextId).row = NextId
    <2>1. NextId \in SessionIds
      BY <1>2, NextIdUnused DEF Unused
    <2>2. QED
      BY <2>1, Shapes, MoreShapes
  <1>3. ASSUME Unused # {}, sessions'[NextId].state = "live"
        PROVE  Keeps(NewSession(NextId), cookie', sessions')
    <2>. DEFINE q == NewSession(NextId)
    <2>1. /\ NextId \in SessionIds /\ q.step = "answering" /\ q.answer = "set"
          /\ q.row = NextId
      BY <1>2, <1>3
    <2>. HIDE DEF q
    <2>2. Keeps(q, cookie', sessions')
      BY <1>3, <2>1 DEF Keeps
    <2>3. QED
      BY <2>2 DEF q
  <1>4. CASE CreateSession(r)
    <2>1. /\ Unused # {} /\ Becomes(r, NewSession(NextId)) /\ wrong' = wrong
          /\ Excused(r, FALSE)
      BY <1>4 DEF CreateSession
    <2>2. sessions'[NextId].state = "live"
      BY <1>1, <1>2, <1>4, <2>1 DEF CreateSession, Created
    <2>3. ~excused' => wrong' # Lost /\ \A t \in Requests \ {r} : ~Busy(t)
      BY <2>1, Zenon DEF Excused, Alone
    <2>4. QED
      BY <1>1, <1>2, <1>3, <2>1, <2>2, <2>3, SignedStep
  <1>5. CASE Rotate(r)
    <2>1. Busy(r) /\ UNCHANGED <<cookie, wrong, excused>> /\ req[r].step = "rotating"
      BY <1>5 DEF Rotate, Busy
    <2>2. CASE excused
      BY <2>1, <2>2 DEF SignedIn
    <2>3. CASE ~excused
      <3>1. Holds(cookie, sessions) /\ req[r].row = cookie
        BY <2>1, <2>3, SignedCarries DEF Keeps
      <3>2. Exists(req[r].row)
        BY <3>1 DEF Holds, Exists
      <3>3. /\ Unused # {} /\ Becomes(r, NewSession(NextId))
            /\ sessions' = Rotated(req[r].row, req[r].valid)
        BY <1>5, <3>2 DEF Rotate
      <3>4. sessions'[NextId].state = "live"
        BY <1>2, <3>3 DEF Rotated, Created, Revoked
      <3>5. QED
        BY <1>1, <1>2, <1>3, <2>1, <3>3, <3>4, SignedMove
    <2>4. QED
      BY <2>2, <2>3
  <1>6. QED
    BY <1>4, <1>5

\* The steps that do not happen while the browser is owed a session, or end it.
LEMMA ExcusingSteps ==
  ASSUME IInv, Counting, SignedIn, NEW r \in Requests,
         \/ FindForLogout(r) \/ RevokeAll(r) \/ Sweep(r)
         \/ WritePassword(r) \/ LoseAnswer(r) \/ Die(r)
  PROVE  SignedIn'
  <1>1. CASE WritePassword(r) \/ LoseAnswer(r) \/ Die(r)
    BY <1>1 DEF WritePassword, LoseAnswer, Die, SignedIn
  <1>2. CASE FindForLogout(r) \/ RevokeAll(r) \/ Sweep(r)
    <2>1. /\ Busy(r) /\ req[r].step \in {"finding", "revokingAll", "sweeping"}
          /\ excused' = excused
      BY <1>2 DEF FindForLogout, RevokeAll, Sweep, Busy
    <2>2. excused
      BY <2>1, SignedCarries DEF Keeps
    <2>3. QED
      BY <2>1, <2>2 DEF SignedIn
  <1>3. QED
    BY <1>1, <1>2

\* A session revoked from the list is not the browser's own.
LEMMA RevokeSigned ==
  ASSUME IInv, Counting, SignedIn, NEW r \in Requests, Revoke(r)
  PROVE  SignedIn'
  <1>1. TypeOK /\ cookie \in {None} \cup SessionIds
    BY DEF IInv, TypeOK
  <1>2. Busy(r) /\ req[r].step = "revoking" /\ UNCHANGED <<cookie, wrong, excused>>
    BY DEF Revoke, Busy
  <1>3. CASE excused
    BY <1>2, <1>3 DEF SignedIn
  <1>4. CASE ~excused
    <2>1. Holds(cookie, sessions) /\ req[r].row # cookie /\ req[r].answer = "keep"
      BY <1>2, <1>4, SignedCarries DEF Keeps
    <2>2. Becomes(r, Done)
      BY <2>1 DEF Revoke
    <2>3. sessions'[cookie] = sessions[cookie]
      BY <1>1, <2>1 DEF Revoke, Revoked, Holds
    <2>4. Holds(cookie', sessions')
      BY <1>2, <2>1, <2>3 DEF Holds
    <2>5. Keeps(Done, cookie', sessions')
      BY Shapes, KeepsNothing
    <2>6. QED
      BY <1>1, <1>2, <2>2, <2>4, <2>5, SignedMove
  <1>5. QED
    BY <1>3, <1>4

\* The answer brings a live session.
LEMMA AnswerSigned ==
  ASSUME IInv, Counting, SignedIn, NEW r \in Requests, Answer(r)
  PROVE  SignedIn'
  <1>1. TypeOK
    BY DEF IInv
  <1>2. /\ Busy(r) /\ req[r].step = "answering" /\ UNCHANGED <<sessions, wrong, excused>>
        /\ Becomes(r, Idle) /\ cookie' = Stored(r)
    BY DEF Answer, Busy
  <1>3. ASSUME ~excused
        PROVE  Holds(cookie', sessions')
    <2>1. /\ req[r].answer = "set" /\ req[r].row \in SessionIds
          /\ sessions[req[r].row].state = "live"
      BY <1>2, <1>3, SignedCarries DEF Keeps
    <2>2. cookie' = req[r].row
      BY <1>2, <2>1 DEF Stored
    <2>3. QED
      BY <1>2, <2>1, <2>2 DEF Holds, None, SessionIds
  <1>4. Keeps(Idle, cookie', sessions')
    BY Shapes, KeepsNothing
  <1>5. QED
    BY <1>1, <1>2, <1>3, <1>4, SignedMove

\* No request moves, and what the browser and the requests hold stays live.
LEMMA StillSigned ==
  ASSUME IInv, SignedIn, UNCHANGED <<cookie, req, wrong>>,
         ~excused' => /\ ~excused
                      /\ \A s \in SessionIds :
                            /\ s = cookie \/ \E r \in Requests : req[r].row = s
                            /\ sessions[s].state = "live"
                            => sessions'[s].state = "live"
  PROVE  SignedIn'
  <1>1. cookie \in {None} \cup SessionIds
    BY DEF IInv, TypeOK
  <1>2. SUFFICES ASSUME ~excused'
                 PROVE  /\ \A r \in Requests : Keeps(req[r], cookie, sessions')
                        /\ Holds(cookie, sessions) => Holds(cookie, sessions')
    BY DEF SignedIn
  <1>3. ASSUME NEW r \in Requests
        PROVE  Keeps(req[r], cookie, sessions')
    BY <1>2 DEF SignedIn, Keeps
  <1>4. QED
    BY <1>1, <1>2, <1>3 DEF Holds

LEMMA EventsSigned ==
  ASSUME IInv, SignedIn,
         \/ LockEnds \/ LinkExpires \/ UNCHANGED vars
         \/ (\E s \in SessionIds : SessionExpires(s)) \/ CleanExpiredSessions
  PROVE  SignedIn'
  <1>1. UNCHANGED <<cookie, req, wrong>> /\ sessions \in [SessionIds -> Rows]
    BY DEF LockEnds, LinkExpires, SessionExpires, CleanExpiredSessions, vars, IInv, TypeOK
  <1>2. CASE LockEnds \/ LinkExpires \/ UNCHANGED vars
    <2>1. UNCHANGED <<sessions, excused>>
      BY <1>2 DEF LockEnds, LinkExpires, vars
    <2>2. QED
      BY <1>1, <2>1, StillSigned
  <1>3. ASSUME NEW s \in SessionIds, SessionExpires(s)
        PROVE  SignedIn'
    <2>1. ~excused' => ~excused /\ s # cookie /\ \A r \in Requests : req[r].row # s
      BY <1>3, Zenon DEF SessionExpires
    <2>2. \A t \in SessionIds \ {s} : sessions'[t] = sessions[t]
      BY <1>1, <1>3 DEF SessionExpires
    <2>3. QED
      BY <1>1, <2>1, <2>2, StillSigned
  <1>4. CASE CleanExpiredSessions
    <2>1. excused' = excused
          /\ \A t \in SessionIds : sessions[t].state = "live" => sessions'[t] = sessions[t]
      BY <1>1, <1>4 DEF CleanExpiredSessions
    <2>2. QED
      BY <1>1, <2>1, StillSigned
  <1>5. QED
    BY <1>2, <1>3, <1>4

LEMMA ForgotSigned ==
  ASSUME IInv, SignedIn, NEW r \in Requests, ForgotPassword(r)
  PROVE  SignedIn'
  <1>1. /\ Counted(r, wrong) /\ Excused(r, excused) /\ UNCHANGED <<sessions, cookie, req>>
    BY DEF ForgotPassword
  <1>2. ~excused' => ~excused /\ Alone(r)
    BY <1>1, Zenon DEF Excused
  <1>3. Alone(r) => wrong' = wrong
    BY <1>1 DEF Counted
  <1>4. CASE excused'
    BY <1>4 DEF SignedIn
  <1>5. CASE ~excused'
    BY <1>1, <1>2, <1>3, <1>5, StillSigned
  <1>6. QED
    BY <1>4, <1>5

LEMMA NextSignedIn == IInv /\ Counting /\ SignedIn /\ [Next]_vars => SignedIn'
  <1>1. SUFFICES ASSUME IInv, Counting, SignedIn, [Next]_vars PROVE SignedIn'
    OBVIOUS
  <1>2. ASSUME NEW r \in Requests, Step(r)
        PROVE  SignedIn'
    BY <1>1, <1>2, LoginSigned, ArrivalsSigned, FailuresSigned, InsertsSigned, ExcusingSteps,
       RevokeSigned, AnswerSigned, ForgotSigned DEF Step
  <1>3. QED
    BY <1>1, <1>2, EventsSigned DEF Next

(***************************************************************************)
(* A browser that signed in and whose requests come one at a time holds a  *)
(* live session until it signs out, a session of its own is revoked or     *)
(* expires, or the password is reset (auth.controller.ts:152-185,          *)
(* api-client.ts:55-75), for any number of requests and sessions.          *)
(***************************************************************************)
THEOREM RefreshingKeepsSignedIn == Spec => []RefreshKeepsSignedIn
  <1>1. SignedIn => RefreshKeepsSignedIn
    BY DEF SignedIn, RefreshKeepsSignedIn, Holds, Valid, Live, Busy
  <1>2. Spec => []Counting
    BY Inductive, InitCounting, NextCounting, PTL DEF Spec
  <1>3. Spec => []SignedIn
    BY <1>2, Inductive, InitSignedIn, NextSignedIn, PTL DEF Spec
  <1>4. QED
    BY <1>1, <1>3, PTL
=============================================================================
