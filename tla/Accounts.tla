------------------------------ MODULE Accounts ------------------------------
(***************************************************************************)
(* The accounts and the sessions signed in to them.  A request loads its   *)
(* session when it arrives, works on that copy across awaits (settings,    *)
(* password hashing) and saves it when it answers.  Meanwhile other        *)
(* requests log out, sign in, change passwords and roles, and remove       *)
(* accounts.  The session plugin is external: how it saves is taken from   *)
(* the store that is written for it.                                       *)
(***************************************************************************)
CONSTANTS
  User,
  Sid,            \* session ids: each is issued once
  Req,            \* requests in flight at a time
  NoUser, NoSid

VARIABLES
  account,        \* the users table
  rows,           \* the sessions table
  used,           \* history: session ids issued so far
  req,            \* the requests in flight
  crowded         \* history: a role that was checked against other accounts left no admin

vars == <<account, rows, used, req, crowded>>

Age == {"live", "idle", "expired"}    \* in the idle window, past it, past the row's own expiry
(* How a stored session was signed in: with the password in force, with one *)
(* that was replaced since, or with one that was replaced on the way.       *)
Signed == {"now", "before", "late"}
NoRow == [user |-> NoUser, age |-> "expired", signed |-> "now"]

(* A request's copy of the session: NoSid is the blank one that is never    *)
(* saved, fresh one that the store has not seen.                            *)
Idle == [pc |-> "none", sid |-> NoSid, user |-> NoUser, age |-> "live", touched |-> FALSE,
         fresh |-> FALSE, target |-> NoUser, admin |-> FALSE, since |-> {}]

Issued(s) == rows[s] # NoRow
There(u) == account[u].is = "there"
Admins == {u \in User : There(u) /\ account[u].admin}
NoAdmin == Admins = {}

TypeOK ==
  /\ account \in [User -> [is : {"none", "there", "gone"}, admin : BOOLEAN, password : {"legacy", "hashed", "taken back"}]]
  /\ rows \in [Sid -> [user : User \cup {NoUser}, age : Age, signed : Signed]]
  /\ used \subseteq Sid
  /\ \A s \in Sid : Issued(s) => s \in used /\ rows[s].user # NoUser
  /\ req \in [Req -> [pc : {"none", "loaded", "verifying", "rehashing", "hashing", "done"},
                      sid : Sid \cup {NoSid}, user : User \cup {NoUser}, age : Age \ {"expired"},
                      touched : BOOLEAN, fresh : BOOLEAN, target : User \cup {NoUser},
                      admin : BOOLEAN, since : SUBSET {"account", "password"}]]
  /\ crowded \in BOOLEAN

Init ==
  /\ \E a \in User, old \in BOOLEAN :
       account = [u \in User |-> [is |-> IF u = a THEN "there" ELSE "none", admin |-> u = a,
                                  password |-> IF u = a /\ old THEN "legacy" ELSE "hashed"]]
  /\ rows = [s \in Sid |-> NoRow]
  /\ used = {}
  /\ req = [r \in Req |-> Idle]
  /\ crowded = FALSE

-----------------------------------------------------------------------------
(* SqliteSessionStore.get: an expired row is removed on the way out.        *)
Get(s) == IF rows[s].age = "expired" THEN NoRow ELSE rows[s]

Without(gone) == [s \in Sid |-> IF s \in gone THEN NoRow ELSE rows[s]]

(* A request arrives, with a cookie or without.                             *)
Arrive(r, s) ==
  /\ req[r].pc = "none"
  /\ s \in used \cup {NoSid}
  /\ IF s # NoSid /\ Get(s) # NoRow
     THEN /\ req' = [req EXCEPT ![r] = [Idle EXCEPT !.pc = "loaded", !.sid = s, !.user = rows[s].user,
                                                    !.age = rows[s].age]]
          /\ UNCHANGED rows
     ELSE /\ req' = [req EXCEPT ![r].pc = "loaded"]
          /\ rows' = IF s = NoSid THEN rows ELSE Without({s})
  /\ UNCHANGED <<account, used, crowded>>

(* isUnauthorized.                                                          *)
Unauthorized(q) == q.user = NoUser \/ q.age = "idle"

(* An unchanged session is not saved: the request is over.                  *)
Leave(q) == IF q.touched THEN [q EXCEPT !.pc = "done"] ELSE Idle

(* What an await of the route needed is let go of.                          *)
LetGo(q) == [q EXCEPT !.target = NoUser, !.admin = FALSE, !.since = @ \ {"account"}]

(* authHook: the copy, and the account as it is now.  From there to the     *)
(* first await of the route nothing gives way.                              *)
SignedIn(q) == q.pc = "loaded" /\ ~Unauthorized(q) /\ There(q.user)

(* touchSession, when the timestamp is a minute old.                        *)
Touched(q, touch) == [q EXCEPT !.touched = @ \/ touch]

(* The routes that leave accounts and sessions alone, the probe that keeps  *)
(* nothing awake, and 401.                                                  *)
Answer(r, touch) ==
  /\ req[r].pc = "loaded"
  /\ touch => SignedIn(req[r])
  /\ req' = [req EXCEPT ![r] = Leave(Touched(@, touch))]
  /\ UNCHANGED <<account, rows, used, crowded>>

(* startSession: the old row is dropped, the new id is not stored before    *)
(* the answer.                                                              *)
StartSession(r, s, u, since, next) ==
  /\ s \notin used
  /\ used' = used \cup {s}
  /\ rows' = IF req[r].sid = NoSid THEN rows ELSE Without({req[r].sid})
  /\ req' = [req EXCEPT ![r] = [Idle EXCEPT !.pc = next, !.sid = s, !.user = u, !.touched = TRUE,
                                            !.fresh = TRUE, !.since = since]]

(* POST /api/login reads the account and verifies the password against it.  *)
Login(r, u) ==
  /\ req[r].pc = "loaded"
  /\ There(u)
  /\ LET copy == IF req[r].fresh THEN req[r] ELSE [Idle EXCEPT !.sid = req[r].sid]
     IN  req' = [req EXCEPT ![r] = [copy EXCEPT !.pc = "verifying", !.target = u,
                                                !.admin = account[u].password = "legacy"]]
  /\ UNCHANGED <<account, rows, used, crowded>>

WrongPassword(r) ==
  /\ req[r].pc = "verifying"
  /\ req' = [req EXCEPT ![r] = Leave(LetGo(@))]
  /\ UNCHANGED <<account, rows, used, crowded>>

RightPassword(r, s) ==
  /\ req[r].pc = "verifying"
  /\ StartSession(r, s, req[r].target, req[r].since, IF req[r].admin THEN "rehashing" ELSE "done")
  /\ UNCHANGED <<account, crowded>>

(* The legacy digest is replaced by a hash of the password that signed in.  *)
UpdatePasswordHash(r) ==
  /\ req[r].pc = "rehashing"
  /\ account' = [account EXCEPT ![req[r].user] =
                   IF @.is = "gone" THEN @
                   ELSE [@ EXCEPT !.password = IF "password" \in req[r].since THEN "taken back" ELSE "hashed"]]
  /\ req' = [req EXCEPT ![r].pc = "done"]
  /\ UNCHANGED <<rows, used, crowded>>

(* proxyAuthHook, ahead of authHook: a valid session wins.                  *)
ProxyAuth(r, s, u) ==
  /\ req[r].pc = "loaded" /\ Unauthorized(req[r])
  /\ There(u)
  /\ StartSession(r, s, u, {}, "loaded")
  /\ UNCHANGED <<account, crowded>>

(* POST /api/login/logout: nothing is left to save.                         *)
Logout(r) ==
  /\ req[r].pc = "loaded"
  /\ rows' = IF req[r].sid = NoSid THEN rows ELSE Without({req[r].sid})
  /\ req' = [req EXCEPT ![r] = Idle]
  /\ UNCHANGED <<account, used, crowded>>

-----------------------------------------------------------------------------
(* set for a session the store has not seen.                                *)
SetRow(q) ==
  [rows EXCEPT ![q.sid] = [user |-> q.user, age |-> q.age,
                           signed |-> IF "password" \in q.since THEN "late" ELSE "now"]]

(* A bug: whatever the request loaded is written back.                      *)
SavedBySet(q) ==
  IF ~q.touched THEN rows
  ELSE IF q.fresh \/ ~Issued(q.sid) THEN SetRow(q)
  ELSE [rows EXCEPT ![q.sid].user = q.user, ![q.sid].age = q.age]

(* compareAndSet replaces only a row that is there and has not expired.     *)
Saved(q) ==
  IF ~q.touched THEN rows
  ELSE IF q.fresh THEN SetRow(q)
  ELSE IF Issued(q.sid) /\ rows[q.sid].age # "expired"
  THEN [rows EXCEPT ![q.sid].user = q.user, ![q.sid].age = q.age]
  ELSE rows

(* The answer goes out and the session is saved, when it changed.           *)
Respond(r) ==
  /\ req[r].pc = "done"
  /\ rows' = Saved(req[r])
  /\ req' = [req EXCEPT ![r] = Idle]
  /\ UNCHANGED <<account, used, crowded>>

-----------------------------------------------------------------------------
(* checkIfAnyAdminAfterRemovingUser.                                        *)
AdminBeside(u) == Admins \ {u} # {}

IsAdmin(r) == SignedIn(req[r]) /\ req[r].user \in Admins

(* What the requests under way do not know of: the saves that are hashing,  *)
(* that an account changed; the sign-ins of u, that its password did.       *)
Told(requests) ==
  [r \in Req |-> IF requests[r].pc = "hashing"
                 THEN [requests[r] EXCEPT !.since = @ \cup {"account"}] ELSE requests[r]]
ToldOfPassword(requests, u) ==
  [r \in Req |-> IF \/ requests[r].pc = "verifying" /\ requests[r].target = u
                    \/ requests[r].fresh /\ requests[r].user = u
                 THEN [Told(requests)[r] EXCEPT !.since = @ \cup {"password"}] ELSE Told(requests)[r]]

(* POST /api/admin/users up to upsertUser: a role alone is written at once, *)
(* a password is hashed first.                                              *)
SaveUser(r, u, admin, password, touch) ==
  /\ IsAdmin(r)
  /\ account[u].is # "gone" /\ (account[u].is = "none" => password)
  /\ admin \/ AdminBeside(u)
  /\ IF password
     THEN /\ req' = [req EXCEPT ![r] = [Touched(@, touch) EXCEPT !.pc = "hashing", !.target = u, !.admin = admin]]
          /\ UNCHANGED <<account, crowded>>
     ELSE /\ account' = [account EXCEPT ![u].admin = admin]
          /\ req' = Told([req EXCEPT ![r] = Leave(Touched(@, touch))])
          /\ UNCHANGED crowded
  /\ UNCHANGED <<rows, used>>

(* A bug: the sessions of the account stay.                                 *)
EndedByNone(u, keep) == {}

(* DELETE FROM sessions WHERE user_id = @id AND sid IS NOT @keep.           *)
EndedBy(u, keep) == {s \in Sid : rows[s].user = u /\ s # keep}

(* The rows that survive a new password of u.                               *)
Replaced(left, u, keep) ==
  [s \in Sid |-> IF left[s].user = u /\ s # keep /\ left[s].signed = "now"
                 THEN [left[s] EXCEPT !.signed = "before"] ELSE left[s]]

(* The rest of upsertUser: insert, or update with the sessions in one       *)
(* transaction; an account removed meanwhile is not there to update.        *)
PasswordHashed(r) ==
  LET q == req[r]
      u == q.target
      left == [req EXCEPT ![r] = Leave(LetGo(@))]
  IN  /\ q.pc = "hashing"
      /\ IF account[u].is = "gone"
         THEN /\ rows' = Without(EndedBy(u, q.sid)) /\ req' = left
              /\ UNCHANGED account
         ELSE /\ account' = [account EXCEPT ![u] = [is |-> "there", admin |-> q.admin, password |-> "hashed"]]
              /\ rows' = Replaced(Without(EndedBy(u, q.sid)), u, q.sid)
              /\ req' = ToldOfPassword(left, u)
      /\ crowded' = (NoAdmin' /\ (crowded \/ "account" \in q.since))
      /\ UNCHANGED used

(* DELETE /api/admin/users and removeUser, one turn.  That a user owns a    *)
(* channel of somebody else's job refuses it: an Answer, with nothing done. *)
RemoveUser(r, u, touch) ==
  /\ IsAdmin(r)
  /\ There(u) /\ AdminBeside(u) /\ req[r].user # u
  /\ account' = [account EXCEPT ![u] = [is |-> "gone", admin |-> FALSE, password |-> "hashed"]]
  /\ rows' = Replaced(Without(EndedBy(u, NoSid)), u, NoSid)
  /\ req' = ToldOfPassword([req EXCEPT ![r] = Leave(Touched(@, touch))], u)
  /\ UNCHANGED <<used, crowded>>

-----------------------------------------------------------------------------
(* A session nobody uses grows older.                                       *)
Older(s) ==
  /\ Issued(s) /\ rows[s].age # "expired"
  /\ rows' = [rows EXCEPT ![s].age = IF @ = "live" THEN "idle" ELSE "expired"]
  /\ UNCHANGED <<account, used, req, crowded>>

(* The hourly cleanup, and the one at the start.                            *)
SweepExpiredSessions ==
  /\ rows' = Without({s \in Sid : rows[s].age = "expired"})
  /\ rows' # rows
  /\ UNCHANGED <<account, used, req, crowded>>

(* The process is killed: what it had not written is lost.                  *)
Restart ==
  /\ req' = [r \in Req |-> Idle]
  /\ rows' = Without({s \in Sid : rows[s].age = "expired"})
  /\ UNCHANGED <<account, used, crowded>>

Next ==
  \/ \E r \in Req, s \in Sid \cup {NoSid} : Arrive(r, s)
  \/ \E r \in Req : WrongPassword(r) \/ UpdatePasswordHash(r)
                    \/ Logout(r) \/ Respond(r) \/ PasswordHashed(r)
  \/ \E r \in Req, u \in User : Login(r, u)
  \/ \E r \in Req, touch \in BOOLEAN : Answer(r, touch)
  \/ \E r \in Req, u \in User, touch \in BOOLEAN : RemoveUser(r, u, touch)
  \/ \E r \in Req, s \in Sid : RightPassword(r, s)
  \/ \E r \in Req, s \in Sid, u \in User : ProxyAuth(r, s, u)
  \/ \E r \in Req, u \in User, admin, password, touch \in BOOLEAN :
       SaveUser(r, u, admin, password, touch)
  \/ \E s \in Sid : Older(s)
  \/ SweepExpiredSessions
  \/ Restart

Spec == Init /\ [][Next]_vars

-----------------------------------------------------------------------------
(***************************************************************************)
(* Properties                                                              *)
(***************************************************************************)

(* A session that a logout, a sign-in, a new password, a removed account or *)
(* its expiry ended is not brought back by a request that had loaded it:    *)
(* only the answer to its own sign-in ever creates a row.                   *)
OnlyFreshRows ==
  \A s \in Sid : ~Issued(s) /\ s \in used /\ rows'[s] # NoRow => \E r \in Req : req[r].sid = s /\ req[r].fresh
EndedStaysEnded == [][OnlyFreshRows]_vars

(* Every stored session belongs to an account that is there and was signed  *)
(* in with the password in force, or kept by whoever set it; except when    *)
(* the sign-in was under way while the password changed.                    *)
SignedInWithThePassword ==
  \A s \in Sid : Issued(s) =>
    /\ rows[s].signed # "before"
    /\ rows[s].signed = "now" => There(rows[s].user)

(* Somebody can administer the system, unless the last role was taken by a  *)
(* save that had looked before other accounts changed.                      *)
SomebodyAdministers == NoAdmin => crowded
=============================================================================
