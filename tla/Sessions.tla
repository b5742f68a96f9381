------------------------------ MODULE Sessions ------------------------------
(***************************************************************************)
(* One account of the platform: its user row, its session rows and the     *)
(* browser that holds their cookies (packages/api/src/modules/auth,        *)
(* services/session.service.ts, services/token.service.ts,                 *)
(* middleware/auth.middleware.ts).                                         *)
(*                                                                         *)
(* A request is a sequence of queries; between two of them other requests  *)
(* run, and the API process may die.  The refresh token and the access     *)
(* token of a session travel in two cookies set together, so the browser   *)
(* is the identifier of the session it holds.  A password is a version     *)
(* number.  Time is three events: a lock runs out, a session expires, a    *)
(* reset link expires.                                                     *)
(***************************************************************************)
EXTENDS Naturals, FiniteSets

CONSTANTS Requests,      \* requests in flight at a time, of any tab
          MaxSessions,   \* bound: session rows ever created
          MaxPasswords,  \* bound: password changes
          LockAfter,     \* auth.service.ts:299, 5 in the code
          MaxWrong,      \* bound: wrong passwords counted
          MaxEvents      \* bound: rows, wrong passwords and resets together

ASSUME SessionsAssumption == /\ MaxSessions \in Nat
                             /\ MaxPasswords \in Nat
                             /\ LockAfter \in Nat \ {0}
                             /\ MaxWrong \in Nat
                             /\ MaxEvents \in Nat

VARIABLES user,      \* the user row: password, failed, lock, reset
          sessions,  \* the session rows, a function on SessionIds
          cookie,    \* the session whose tokens the browser holds, or None
          req,       \* the requests in flight
          swept,     \* history: the last password whose reset has revoked
          wrong,     \* history: wrong passwords since the counter was cleared,
                     \* Lost once two requests overlapped or one died
          excused    \* history: the browser need not be signed in

vars == <<user, sessions, cookie, req, swept, wrong, excused>>

None == 0
SessionIds == 1..MaxSessions
Passwords == 0..MaxPasswords
Locks == {"none", "held", "over"}
Lost == MaxWrong + 1

(***************************************************************************)
(* A session row.  Expired stands for a row past its expiry, revoked or    *)
(* not.  late marks a row written from a row or a password that was valid  *)
(* when it was read and was not any more when it was used.                 *)
(***************************************************************************)
Rows == [state : {"free", "live", "revoked", "expired", "gone"},
         password : Passwords, root : SessionIds, late : BOOLEAN]

Blank(s, state) == [state |-> state, password |-> 0, root |-> s, late |-> FALSE]

Accounts == [password : Passwords, failed : 0..MaxWrong, lock : Locks, link : BOOLEAN]

Steps == {"idle", "failing", "clearing", "creating", "rotating", "finding",
          "revoking", "revokingAll", "rewriting", "sweeping", "answering"}

\* What the answer does to the cookies: leave them, clear them or set them.
Answers == {"keep", "clear", "set"}

InFlight == [step : Steps, row : {None} \cup SessionIds, password : Passwords,
             failed : 0..MaxWrong, valid : BOOLEAN, answer : Answers]

-----------------------------------------------------------------------------
Fresh == [password |-> 0, failed |-> 0, lock |-> "none", link |-> FALSE]

Idle == [step |-> "idle", row |-> None, password |-> 0, failed |-> 0,
         valid |-> FALSE, answer |-> "keep"]

Init == /\ user = Fresh
        /\ sessions = [s \in SessionIds |-> Blank(s, "free")]
        /\ cookie = None
        /\ req = [r \in Requests |-> Idle]
        /\ swept = 0
        /\ wrong = 0
        /\ excused = TRUE

\* The row is there, not revoked and not expired.
Live(s) == sessions[s].state = "live"
Exists(s) == sessions[s].state \in {"live", "revoked", "expired"}
Valid(s) == s # None /\ Live(s)

Busy(r) == req[r].step # "idle"

Becomes(r, q) == req' = [req EXCEPT ![r] = q]
At(step) == [Idle EXCEPT !.step = step]
Reply(answer) == [At("answering") EXCEPT !.answer = answer]
WithRow(step, row) == [At(step) EXCEPT !.row = row]
WithPassword(step, password) == [At(step) EXCEPT !.password = password]
WithFailures(failed) == [At("failing") EXCEPT !.failed = failed]
Found(row, valid) == [At("rotating") EXCEPT !.row = row, !.valid = valid]
Leaving(row) == [WithRow("revoking", row) EXCEPT !.answer = "clear"]
NewSession(row) == [Reply("set") EXCEPT !.row = row]

\* An answer that leaves the cookies alone ends the request.
Done == Idle

\* The histories are about requests that come one at a time.
Alone(r) == wrong # Lost /\ \A q \in Requests \ {r} : ~Busy(q)
Counted(r, n) == wrong' = IF Alone(r) THEN n ELSE Lost
Excused(r, e) == excused' = (e \/ ~Alone(r))

Arrives(r) == ~Busy(r)

Unused == {s \in SessionIds : sessions[s].state = "free"}
NextId == CHOOSE s \in Unused : TRUE

\* The bound on what an execution does.
Room == Cardinality(SessionIds \ Unused) + user.failed + user.password < MaxEvents

\* The rows after those of S were revoked.
Revoked(S) == [s \in SessionIds |-> IF s \in S /\ Live(s)
                                     THEN [sessions[s] EXCEPT !.state = "revoked"]
                                     ELSE sessions[s]]

\* updateMany over the account's rows that are not revoked.
AllRevoked == Revoked(SessionIds)

\* Mutant of Created: a session that starts a line has no root.
CreatedRootless(rows, s, password, root, late) ==
    [rows EXCEPT ![s] = [state |-> "live", password |-> password,
                         root |-> IF root = s THEN None ELSE root, late |-> late]]
Created(rows, s, password, root, late) ==
    [rows EXCEPT ![s] = [state |-> "live", password |-> password, root |-> root, late |-> late]]

-----------------------------------------------------------------------------
(***************************************************************************)
(* Login: the user row is read once, the lock and the password are judged  *)
(* by that snapshot, and each outcome writes by id.                        *)
(***************************************************************************)
AfterLogin(given) ==
    IF user.lock = "held" THEN Done
    ELSE IF given # user.password THEN WithFailures(user.failed)
    ELSE WithPassword(IF user.failed > 0 \/ user.lock # "none" THEN "clearing" ELSE "creating",
                      user.password)

Login(r, given) ==
    /\ Arrives(r)
    /\ Room
    /\ given # user.password => user.failed < MaxWrong /\ wrong # MaxWrong
    /\ Becomes(r, AfterLogin(given))
    /\ Counted(r, IF user.lock # "held" /\ given # user.password THEN wrong + 1 ELSE wrong)
    /\ Excused(r, excused)
    /\ UNCHANGED <<user, sessions, cookie, swept>>

\* A Google sign-in reads the user and checks neither lock nor password.
GoogleLogin(r) == /\ Arrives(r)
                  /\ Room
                  /\ Becomes(r, WithPassword("creating", user.password))
                  /\ Counted(r, wrong)
                  /\ Excused(r, excused)
                  /\ UNCHANGED <<user, sessions, cookie, swept>>

\* Mutant of Attempts: the failure is not added.
AttemptsAsRead(r) == req[r].failed
Attempts(r) == req[r].failed + 1

RecordFailure(r) ==
    /\ req[r].step = "failing"
    /\ user' = [user EXCEPT !.failed = Attempts(r),
                            !.lock = IF Attempts(r) >= LockAfter THEN "held" ELSE @]
    /\ Becomes(r, Done)
    /\ UNCHANGED <<sessions, cookie, swept, wrong, excused>>

ClearFailures(r) ==
    /\ req[r].step = "clearing"
    /\ user' = [user EXCEPT !.failed = 0, !.lock = "none"]
    /\ Counted(r, 0)
    /\ Becomes(r, WithPassword("creating", req[r].password))
    /\ UNCHANGED <<sessions, cookie, swept, excused>>

CreateSession(r) ==
    /\ req[r].step = "creating"
    /\ Unused # {}
    /\ sessions' = Created(sessions, NextId, req[r].password, NextId,
                           req[r].password # user.password)
    /\ Becomes(r, NewSession(NextId))
    /\ Excused(r, FALSE)
    /\ UNCHANGED <<user, cookie, swept, wrong>>

-----------------------------------------------------------------------------
(***************************************************************************)
(* Refresh: read the row of the cookie's token, then revoke it by id and   *)
(* insert its successor in one transaction.  Any error clears the cookies. *)
(***************************************************************************)
AfterLookup == IF Valid(cookie)
               THEN Found(cookie, Valid(cookie))
               ELSE Reply("clear")

Refresh(r) == /\ Arrives(r)
              /\ Room
              /\ Becomes(r, AfterLookup)
              /\ Counted(r, wrong)
              /\ Excused(r, excused)
              /\ UNCHANGED <<user, sessions, cookie, swept>>

\* Mutant of Rotated: the old row is not revoked.
RotatedKeeping(p, valid) ==
    Created(sessions, NextId, sessions[p].password, sessions[p].root,
            sessions[p].late \/ (valid /\ ~Live(p)))

\* The successor of row p, written by a request that found p valid or not.
Rotated(p, valid) ==
    Created(Revoked({p}), NextId, sessions[p].password, sessions[p].root,
            sessions[p].late \/ (valid /\ ~Live(p)))

Rotate(r) ==
    LET p == req[r].row IN
    /\ req[r].step = "rotating"
    /\ \/ /\ Exists(p)
          /\ Unused # {}
          /\ sessions' = Rotated(p, req[r].valid)
          /\ Becomes(r, NewSession(NextId))
       \/ /\ ~Exists(p)                     \* the update finds no row and throws
          /\ Becomes(r, Reply("clear"))
          /\ UNCHANGED sessions
    /\ UNCHANGED <<user, cookie, swept, wrong, excused>>

-----------------------------------------------------------------------------
(***************************************************************************)
(* Logout, logout-all and the session list: behind the auth middleware,    *)
(* which reads the session of the access token.                            *)
(***************************************************************************)
Authenticated(r, q) == /\ Arrives(r)
                       /\ Becomes(r, IF Valid(cookie) THEN q ELSE Done)
                       /\ Counted(r, wrong)

Logout(r) == /\ Authenticated(r, WithRow("finding", cookie))
             /\ Excused(r, TRUE)
             /\ UNCHANGED <<user, sessions, cookie, swept>>

FindForLogout(r) ==
    /\ req[r].step = "finding"
    /\ Becomes(r, IF Valid(req[r].row)
                  THEN Leaving(req[r].row)
                  ELSE Reply("clear"))
    /\ UNCHANGED <<user, sessions, cookie, swept, wrong, excused>>

\* DELETE /sessions/:id for a row s of the account.
RevokeSession(r, s) ==
    /\ Exists(s)
    /\ Authenticated(r, WithRow("revoking", s))
    /\ Excused(r, excused \/ s = cookie)
    /\ UNCHANGED <<user, sessions, cookie, swept>>

\* update by id; a row that is gone makes it throw and the cookies stay.
Revoke(r) ==
    LET s == req[r].row IN
    /\ req[r].step = "revoking"
    /\ sessions' = IF Exists(s) THEN Revoked({s}) ELSE sessions
    /\ Becomes(r, IF Exists(s) /\ req[r].answer = "clear" THEN Reply("clear") ELSE Done)
    /\ UNCHANGED <<user, cookie, swept, wrong, excused>>

LogoutAll(r) == /\ Authenticated(r, At("revokingAll"))
                /\ Excused(r, TRUE)
                /\ UNCHANGED <<user, sessions, cookie, swept>>

RevokeAll(r) == /\ req[r].step = "revokingAll"
                /\ sessions' = AllRevoked
                /\ Becomes(r, Reply("clear"))
                /\ UNCHANGED <<user, cookie, swept, wrong, excused>>

-----------------------------------------------------------------------------
(***************************************************************************)
(* Password reset: a link is mailed, and the request that opens it finds   *)
(* the user by the token, writes the password, then revokes the sessions.  *)
(***************************************************************************)
ForgotPassword(r) ==
    /\ Arrives(r)
    /\ user' = [user EXCEPT !.link = TRUE]
    /\ Counted(r, wrong)
    /\ Excused(r, excused)
    /\ UNCHANGED <<sessions, cookie, req, swept>>

ResetPassword(r) ==
    /\ Arrives(r)
    /\ Room
    /\ user.link
    /\ Becomes(r, At("rewriting"))
    /\ Counted(r, wrong)
    /\ Excused(r, excused)
    /\ UNCHANGED <<user, sessions, cookie, swept>>

WritePassword(r) ==
    /\ req[r].step = "rewriting"
    /\ user.password < MaxPasswords
    /\ user' = [user EXCEPT !.password = @ + 1, !.link = FALSE]
    /\ Becomes(r, WithPassword("sweeping", user.password + 1))
    /\ excused' = TRUE
    /\ UNCHANGED <<sessions, cookie, swept, wrong>>

\* Mutant of AfterReset: nothing is revoked.
AfterResetKept == sessions

\* The rows after the reset has revoked the account's sessions.
AfterReset == AllRevoked

Sweep(r) ==
    /\ req[r].step = "sweeping"
    /\ sessions' = AfterReset
    /\ swept' = IF swept < req[r].password THEN req[r].password ELSE swept
    /\ Becomes(r, Done)
    /\ UNCHANGED <<user, cookie, wrong, excused>>

-----------------------------------------------------------------------------
\* Mutant of Stored: an answer sets cookies only where there are none.
StoredAtSignIn(r) == IF cookie = None THEN req[r].row ELSE cookie

\* The cookies after an answer has arrived.
Stored(r) == CASE req[r].answer = "set"   -> req[r].row
               [] req[r].answer = "clear" -> None
               [] req[r].answer = "keep"  -> cookie

\* The answer reaches the browser.
Answer(r) == /\ req[r].step = "answering"
             /\ cookie' = Stored(r)
             /\ Becomes(r, Idle)
             /\ UNCHANGED <<user, sessions, swept, wrong, excused>>

\* The answer is lost, the work is done.
LoseAnswer(r) == /\ req[r].step = "answering"
                 /\ Becomes(r, Idle)
                 /\ excused' = TRUE
                 /\ UNCHANGED <<user, sessions, cookie, swept, wrong>>

\* The process dies, or a query fails, between two steps of a request.
Die(r) == /\ Busy(r)
          /\ Becomes(r, Idle)
          /\ wrong' = Lost
          /\ excused' = TRUE
          /\ UNCHANGED <<user, sessions, cookie, swept>>

LockEnds == /\ user.lock = "held"
            /\ user' = [user EXCEPT !.lock = "over"]
            /\ UNCHANGED <<sessions, cookie, req, swept, wrong, excused>>

LinkExpires == /\ user.link
               /\ user' = [user EXCEPT !.link = FALSE]
               /\ UNCHANGED <<sessions, cookie, req, swept, wrong, excused>>

SessionExpires(s) ==
    /\ sessions[s].state \in {"live", "revoked"}
    /\ sessions' = [sessions EXCEPT ![s].state = "expired"]
    /\ excused' = (excused \/ s = cookie \/ \E r \in Requests : req[r].row = s)
    /\ UNCHANGED <<user, cookie, req, swept, wrong>>

\* The clean-up job: a session lives 30 days from its creation, so the rows
\* revoked and older than 30 days are expired as well.
CleanExpiredSessions ==
    LET old == {s \in SessionIds : sessions[s].state = "expired"} IN
    /\ old # {}
    /\ sessions' = [s \in SessionIds |->
                      IF s \in old THEN Blank(s, "gone") ELSE sessions[s]]
    /\ UNCHANGED <<user, cookie, req, swept, wrong, excused>>

-----------------------------------------------------------------------------
Step(r) == \/ \E given \in Passwords : Login(r, given)
           \/ GoogleLogin(r) \/ RecordFailure(r) \/ ClearFailures(r) \/ CreateSession(r)
           \/ Refresh(r) \/ Rotate(r)
           \/ Logout(r) \/ FindForLogout(r)
           \/ \E s \in SessionIds : RevokeSession(r, s)
           \/ Revoke(r) \/ LogoutAll(r) \/ RevokeAll(r)
           \/ ForgotPassword(r) \/ ResetPassword(r) \/ WritePassword(r) \/ Sweep(r)
           \/ Answer(r) \/ LoseAnswer(r) \/ Die(r)

Next == \/ \E r \in Requests : Step(r)
        \/ LockEnds \/ LinkExpires
        \/ \E s \in SessionIds : SessionExpires(s)
        \/ CleanExpiredSessions

Spec == Init /\ [][Next]_vars

-----------------------------------------------------------------------------
TypeOK == /\ user \in Accounts
          /\ sessions \in [SessionIds -> Rows]
          /\ cookie \in {None} \cup SessionIds
          /\ req \in [Requests -> InFlight]
          /\ swept \in Passwords
          /\ wrong \in 0..Lost
          /\ excused \in BOOLEAN

(***************************************************************************)
(* One sign-in has one live session: rotating a refresh token replaces its *)
(* session (token.service.ts:199), however many requests, logouts, resets  *)
(* and clean-ups interleave.  The exception the code leaves open is a      *)
(* rotation that found its row valid and committed after it was revoked.   *)
(***************************************************************************)
OneLivePerSignIn ==
    \A s, t \in SessionIds :
        (s # t /\ Live(s) /\ Live(t) /\ sessions[s].root = sessions[t].root)
            => (sessions[s].late \/ sessions[t].late)

(***************************************************************************)
(* Once a password reset has revoked the sessions (auth.service.ts:576),   *)
(* no session signed in with an earlier password is live, except one a     *)
(* login or a refresh wrote after its own read had been overtaken.         *)
(***************************************************************************)
ResetEndsSessions ==
    \A s \in SessionIds :
        (Live(s) /\ sessions[s].password < swept) => sessions[s].late

(***************************************************************************)
(* While requests come one at a time and none dies, the counter of the     *)
(* user row is the number of wrong passwords since it was cleared, and     *)
(* that many lock the account (auth.service.ts:294-306).                   *)
(***************************************************************************)
FailuresAreCounted ==
    (wrong # Lost /\ \A r \in Requests : ~Busy(r))
        => (user.failed = wrong /\ (wrong >= LockAfter => user.lock # "none"))

(***************************************************************************)
(* A browser that signed in and whose requests come one at a time, with    *)
(* every answer delivered, holds a live session until it signs out, a      *)
(* session is revoked or expires, or the password is reset: refreshing     *)
(* never signs it out (auth.controller.ts:152-185, api-client.ts:55-75).   *)
(***************************************************************************)
RefreshKeepsSignedIn ==
    (~excused /\ \A r \in Requests : ~Busy(r)) => Valid(cookie)
=============================================================================
