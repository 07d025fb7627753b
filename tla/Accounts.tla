------------------------------ MODULE Accounts ------------------------------
(***************************************************************************)
(* Local accounts and login sessions: server/auth/accounts.ts, the login,  *)
(* logout and administration routes in front of it, and the command        *)
(* admin:reset-password (adminCli.ts).                                     *)
(*                                                                         *)
(* Hashing takes long and runs between two statements on the database, so  *)
(* a request reads the account in one step and acts on it in a later one.  *)
(* What a transaction does under the lock of the account's row is one step.*)
(***************************************************************************)
EXTENDS Naturals

CONSTANTS
  Users,         \* account ids: UUIDs, never used twice
  Admins,        \* the ids created with role "admin"
  Names,         \* user names
  NameOf,        \* the name an id was created with
  Passwords,
  Browsers,      \* cookie jars and terminals, one request at a time each
  Ttl,           \* lifetime of a session
  CleanupPause,  \* time between two purges of one process
  MaxTime,       \* bound: clock
  MaxSalt,       \* bound: hashes ever made
  MaxToken,      \* bound: sessions ever opened
  Absent         \* no row, no request

ASSUME ConstantsAssumption ==
  /\ Admins \subseteq Users
  /\ NameOf \in [Users -> Names]
  /\ Ttl \in Nat \ {0}
  /\ CleanupPause \in Nat \ {0}
  /\ MaxTime \in Nat
  /\ MaxSalt \in Nat
  /\ MaxToken \in Nat

VARIABLES
  users,         \* id -> password hash and number of resets, or Absent
  created,       \* the ids ever given out
  sessions,      \* rows of the table sessions
  cookie,        \* the token the browser sends, 0 for none
  request,       \* what the browser's request has read and does next
  salt,          \* hashes made so far: no two are equal
  token,         \* sessions opened so far
  now,           \* the clock
  nextCleanup    \* earliest time of the next purge

vars == <<users, created, sessions, cookie, request, salt, token, now,
          nextCleanup>>

\* epoch counts the resets; no code reads it.
Hashes == [password : Passwords, weak : BOOLEAN, salt : 0 .. MaxSalt]
Rows == [hash : Hashes, epoch : Nat]
Sessions ==
  [token : 1 .. MaxToken, user : Users, expires : 0 .. MaxTime + Ttl,
   epoch : Nat]

Logins ==
  [step : {"verify", "rehash", "open"}, user : Users, hash : Hashes,
   password : Passwords, upgraded : Hashes, epoch : Nat, at : 0 .. MaxTime]
Resets == [step : {"reset"}, user : Users, hash : Hashes]
Creations == [step : {"create"}, name : Names, hash : Hashes, init : BOOLEAN]
Deletions == [step : {"delete"}, user : Users, by : Users]
Requests == Logins \cup Resets \cup Creations \cup Deletions

ASSUME SentinelAssumption ==
  /\ Absent \notin Rows
  /\ Absent \notin Requests

Exists(u) == users[u] # Absent

\* The constraint username UNIQUE: existing accounts have different names.
NamesUnique ==
  \A u, v \in Users : Exists(u) /\ Exists(v) /\ NameOf[u] = NameOf[v] => u = v

\* The types of the variables, and that a name finds at most one account
\* whatever several browsers create, delete and create again.
TypeOK ==
  /\ NamesUnique
  /\ users \in [Users -> Rows \cup {Absent}]
  /\ created \subseteq Users
  /\ sessions \subseteq Sessions
  /\ cookie \in [Browsers -> 0 .. MaxToken]
  /\ request \in [Browsers -> Requests \cup {Absent}]
  /\ salt \in 0 .. MaxSalt
  /\ token \in 0 .. MaxToken
  /\ now \in 0 .. MaxTime
  /\ nextCleanup \in Nat

-----------------------------------------------------------------------------

\* Any first accounts, their hashes made with today's parameters or not.
FirstUsers(first, w, p) ==
  [u \in Users |->
     IF u \in first
     THEN [hash |-> [password |-> p, weak |-> w, salt |-> 0], epoch |-> 0]
     ELSE Absent]

Init ==
  /\ \E first \in SUBSET Users, w \in BOOLEAN, p \in Passwords :
       /\ \A u, v \in first : NameOf[u] = NameOf[v] => u = v
       /\ created = first
       /\ users = FirstUsers(first, w, p)
  /\ sessions = {}
  /\ cookie = [b \in Browsers |-> 0]
  /\ request = [b \in Browsers |-> Absent]
  /\ salt = 0
  /\ token = 0
  /\ now = 0
  /\ nextCleanup = 0

\* hashPassword: a new salt, today's parameters.
NewHash(p) == [password |-> p, weak |-> FALSE, salt |-> salt + 1]

\* verifySession accepts the cookie: the purge that comes first is not due (any
\* more), and the session has not expired.
SignedInAs(b, u) ==
  /\ now < nextCleanup
  /\ \E s \in sessions : s.token = cookie[b] /\ s.user = u /\ now < s.expires

Idle(b) == request[b] = Absent

Continue(b, r) == request' = [request EXCEPT ![b] = r]

Answer(b) == request' = [request EXCEPT ![b] = Absent]

Tick ==
  /\ now < MaxTime
  /\ now' = now + 1
  /\ UNCHANGED <<users, created, sessions, cookie, request, salt, token,
                 nextCleanup>>

\* verifySession, first half: at most one purge per pause and process.
PurgeExpired(b) ==
  /\ Idle(b)
  /\ cookie[b] # 0
  /\ now >= nextCleanup
  /\ nextCleanup' = now + CleanupPause
  /\ \/ sessions' = {s \in sessions : s.expires > now}
     \/ UNCHANGED sessions                          \* the delete failed
  /\ UNCHANGED <<users, created, cookie, request, salt, token, now>>

\* verifySession, second half: an expired session is deleted on sight.
RejectExpired(b) ==
  /\ Idle(b)
  /\ now < nextCleanup
  /\ \E s \in sessions : s.token = cookie[b] /\ s.expires <= now
  /\ sessions' = {s \in sessions : s.token # cookie[b]}
  /\ UNCHANGED <<users, created, cookie, request, salt, token, now,
                 nextCleanup>>

-----------------------------------------------------------------------------

\* verifyCredentials reads the row by name. Unknown names change nothing.
BeginLogin(b, u, p) ==
  /\ Idle(b)
  /\ Exists(u)
  /\ Continue(b, [step |-> "verify", user |-> u, hash |-> users[u].hash,
                  password |-> p, upgraded |-> users[u].hash,
                  epoch |-> users[u].epoch, at |-> now])
  /\ UNCHANGED <<users, created, sessions, cookie, salt, token, now,
                 nextCleanup>>

AtStep(b, step) == request[b] # Absent /\ request[b].step = step

Login(r, step, hash, upgraded) ==
  [step |-> step, user |-> r.user, hash |-> hash, password |-> r.password,
   upgraded |-> upgraded, epoch |-> r.epoch, at |-> r.at]

\* argon2 compares the password with the hash that was read, and a hash with
\* weaker parameters is made anew, unless that fails.
Verify(b) ==
  /\ AtStep(b, "verify")
  /\ LET r == request[b]
     IN  \/ /\ r.password # r.hash.password
            /\ Answer(b)
            /\ UNCHANGED salt
         \/ /\ r.password = r.hash.password
            /\ Continue(b, Login(r, "open", r.hash, r.hash))
            /\ UNCHANGED salt
         \/ /\ r.password = r.hash.password
            /\ r.hash.weak
            /\ salt < MaxSalt
            /\ salt' = salt + 1
            /\ Continue(b, Login(r, "rehash", r.hash, NewHash(r.password)))
  /\ UNCHANGED <<users, created, sessions, cookie, token, now, nextCleanup>>

\* Mutant: the statement finds the account by id alone.
AccountExists(r) == Exists(r.user)

\* The account still has the hash that was verified.
HashUnchanged(r) == Exists(r.user) /\ users[r.user].hash = r.hash

WithHash(u, hash) == [hash |-> hash, epoch |-> users[u].epoch]

\* UPDATE ... SET password_hash = upgraded WHERE id AND password_hash = old.
Rehash(b) ==
  /\ AtStep(b, "rehash")
  /\ LET r == request[b]
     IN  IF HashUnchanged(r)
         THEN /\ users' = [users EXCEPT ![r.user] = WithHash(r.user, r.upgraded)]
              /\ Continue(b, Login(r, "open", r.upgraded, r.upgraded))
         ELSE Answer(b) /\ UNCHANGED users
  /\ UNCHANGED <<created, sessions, cookie, salt, token, now, nextCleanup>>

\* loginWithPassword's transaction: the row is locked and its hash compared
\* again; this browser's previous session ends, the new one begins. The cookie
\* is set unless the answer is lost.
OpenSession(b) ==
  /\ AtStep(b, "open")
  /\ LET r == request[b]
     IN  IF HashUnchanged(r)
         THEN /\ token < MaxToken
              /\ token' = token + 1
              /\ sessions' =
                   {s \in sessions : s.token # cookie[b]} \cup
                   {[token |-> token + 1, user |-> r.user,
                     expires |-> r.at + Ttl, epoch |-> r.epoch]}
              /\ \/ cookie' = [cookie EXCEPT ![b] = token + 1]
                 \/ UNCHANGED cookie
         ELSE UNCHANGED <<sessions, cookie, token>>
  /\ Answer(b)
  /\ UNCHANGED <<users, created, salt, now, nextCleanup>>

\* The session is deleted and the cookie cleared.
Logout(b) ==
  /\ Idle(b)
  /\ cookie[b] # 0
  /\ sessions' = {s \in sessions : s.token # cookie[b]}
  /\ cookie' = [cookie EXCEPT ![b] = 0]
  /\ UNCHANGED <<users, created, request, salt, token, now, nextCleanup>>

-----------------------------------------------------------------------------

\* requireAdmin and the route's body, or the command's prompt; then the hash.
BeginReset(b, u, p) ==
  /\ Idle(b)
  /\ Exists(u)
  /\ u \in Admins \/ \E admin \in Admins : SignedInAs(b, admin)
  /\ salt < MaxSalt
  /\ salt' = salt + 1
  /\ Continue(b, [step |-> "reset", user |-> u, hash |-> NewHash(p)])
  /\ UNCHANGED <<users, created, sessions, cookie, token, now, nextCleanup>>

\* Mutant: only the password changes.
KeepSessions(u) == sessions

WithoutSessionsOf(u) == {s \in sessions : s.user # u}

\* setUserPassword's transaction: new hash, and no session survives.
ApplyReset(b) ==
  /\ AtStep(b, "reset")
  /\ LET r == request[b]
     IN  IF Exists(r.user)
         THEN /\ users' = [users EXCEPT ![r.user] =
                   [hash |-> r.hash, epoch |-> users[r.user].epoch + 1]]
              /\ sessions' = WithoutSessionsOf(r.user)
         ELSE UNCHANGED <<users, sessions>>
  /\ Answer(b)
  /\ UNCHANGED <<created, cookie, salt, token, now, nextCleanup>>

\* requireAdmin and the route's body, or admin:init, which found no admin and
\* prompted for a password; then the hash.
BeginCreate(b, n, p, init) ==
  /\ Idle(b)
  /\ IF init
     THEN /\ \A a \in Admins : ~Exists(a)
          /\ \E a \in Admins : NameOf[a] = n
     ELSE \E admin \in Admins : SignedInAs(b, admin)
  /\ salt < MaxSalt
  /\ salt' = salt + 1
  /\ Continue(b, [step |-> "create", name |-> n, hash |-> NewHash(p),
                  init |-> init])
  /\ UNCHANGED <<users, created, sessions, cookie, token, now, nextCleanup>>

\* Mutant: the insert meets no conflict.
NameFree(n) == FALSE

NameTaken(n) == \E v \in Users : Exists(v) /\ NameOf[v] = n

\* INSERT ... ON CONFLICT (username) DO NOTHING, with a new id.
ApplyCreate(b) ==
  /\ AtStep(b, "create")
  /\ LET r == request[b]
     IN  \/ /\ NameTaken(r.name)
            /\ UNCHANGED <<users, created>>
         \/ /\ ~NameTaken(r.name)
            /\ \E u \in Users \ created :
                 /\ NameOf[u] = r.name
                 /\ r.init => u \in Admins
                 /\ created' = created \cup {u}
                 /\ users' = [users EXCEPT ![u] = [hash |-> r.hash, epoch |-> 0]]
  /\ Answer(b)
  /\ UNCHANGED <<sessions, cookie, salt, token, now, nextCleanup>>

BeginDelete(b, admin, u) ==
  /\ Idle(b)
  /\ admin \in Admins
  /\ SignedInAs(b, admin)
  /\ Continue(b, [step |-> "delete", user |-> u, by |-> admin])
  /\ UNCHANGED <<users, created, sessions, cookie, salt, token, now,
                 nextCleanup>>

\* deleteUser: the actor still has to be an admin; never the actor, so never
\* the last admin. The foreign key takes the sessions along.
DeleteUser(b) ==
  /\ AtStep(b, "delete")
  /\ LET r == request[b]
     IN  IF Exists(r.by) /\ Exists(r.user) /\ r.user # r.by
         THEN /\ users' = [users EXCEPT ![r.user] = Absent]
              /\ sessions' = WithoutSessionsOf(r.user)
         ELSE UNCHANGED <<users, sessions>>
  /\ Answer(b)
  /\ UNCHANGED <<created, cookie, salt, token, now, nextCleanup>>

Next ==
  \/ Tick
  \/ \E b \in Browsers :
       \/ PurgeExpired(b) \/ RejectExpired(b)
       \/ Verify(b) \/ Rehash(b) \/ OpenSession(b) \/ Logout(b)
       \/ ApplyReset(b) \/ ApplyCreate(b) \/ DeleteUser(b)
  \/ \E b \in Browsers, u \in Users, p \in Passwords :
       BeginLogin(b, u, p) \/ BeginReset(b, u, p)
  \/ \E b \in Browsers, n \in Names, p \in Passwords, init \in BOOLEAN :
       BeginCreate(b, n, p, init)
  \/ \E b \in Browsers, admin \in Admins, u \in Users :
       BeginDelete(b, admin, u)

Spec == Init /\ [][Next]_vars

-----------------------------------------------------------------------------

\* "A reset invalidates existing logins" (ADR 0005): every session belongs to
\* an existing account and to a login that read the account after its last
\* reset, however long the login was checking the password.
NoSessionSurvivesReset ==
  \A s \in sessions : Exists(s.user) /\ s.epoch = users[s.user].epoch

\* The upgrade of a weak hash never brings an earlier password back: only a
\* reset changes what password an account has.
OnlyResetChangesPassword ==
  [][\A u \in Users :
       (/\ Exists(u)
        /\ users'[u] # Absent
        /\ users'[u].hash.password # users[u].hash.password)
         => users'[u].epoch > users[u].epoch]_vars
=============================================================================
