--------------------------- MODULE AccountsProofs ---------------------------
(***************************************************************************)
(* Theorems about Accounts, for any accounts, browsers and bounds.         *)
(*                                                                         *)
(* The argument: a hash that was made and not yet stored is known to one   *)
(* request only, so when it is stored nobody else has verified a password  *)
(* against it. Hence a login whose hash is still the account's read the    *)
(* account after its last reset.                                           *)
(***************************************************************************)
EXTENDS Accounts, TLAPS

USE ConstantsAssumption, SentinelAssumption

IsLogin(b) == request[b] # Absent /\ request[b].step \in {"verify", "rehash", "open"}

\* The hash the request of b has made and not yet stored.
Pending(b) ==
  IF AtStep(b, "rehash") THEN request[b].upgraded ELSE request[b].hash

HasPending(b) ==
  AtStep(b, "rehash") \/ AtStep(b, "reset") \/ AtStep(b, "create")

\* Accounts and what mentions them have ids that were given out.
IdsInv ==
  /\ \A u \in Users : Exists(u) => u \in created
  /\ \A b \in Browsers : IsLogin(b) => request[b].user \in created

\* No hash has a salt that is still to come.
SaltsInv ==
  /\ \A u \in Users : Exists(u) => users[u].hash.salt <= salt
  /\ \A b \in Browsers : IsLogin(b) => request[b].hash.salt <= salt
  /\ \A b \in Browsers : HasPending(b) => Pending(b).salt <= salt

\* The salt of a hash that is not stored yet is on no other hash.
FreshInv ==
  \A b \in Browsers : HasPending(b) =>
    /\ \A u \in Users : Exists(u) => users[u].hash.salt # Pending(b).salt
    /\ \A c \in Browsers : IsLogin(c) => request[c].hash.salt # Pending(b).salt
    /\ \A c \in Browsers :
         HasPending(c) /\ c # b => Pending(c).salt # Pending(b).salt

\* A login whose hash is still the account's has read it since the last reset.
EpochInv ==
  \A b \in Browsers :
    (IsLogin(b) /\ HashUnchanged(request[b]))
      => request[b].epoch = users[request[b].user].epoch

LoginsInv == IdsInv /\ SaltsInv /\ FreshInv /\ EpochInv

IInv == TypeOK /\ LoginsInv /\ NoSessionSurvivesReset

-----------------------------------------------------------------------------

LEMMA InitIInv == Init => IInv
<1> SUFFICES ASSUME Init PROVE IInv
  OBVIOUS
<1>1. PICK first \in SUBSET Users, w \in BOOLEAN, p \in Passwords :
        /\ \A u, v \in first : NameOf[u] = NameOf[v] => u = v
        /\ created = first
        /\ users = FirstUsers(first, w, p)
  BY Zenon DEF Init
<1>2. [hash |-> [password |-> p, weak |-> w, salt |-> 0], epoch |-> 0] \in Rows
  BY DEF Rows, Hashes
<1>3. TypeOK
  <2>1. users \in [Users -> Rows \cup {Absent}] /\ created \subseteq Users
    BY <1>1, <1>2 DEF FirstUsers
  <2>2. /\ sessions \subseteq Sessions
        /\ cookie \in [Browsers -> 0 .. MaxToken]
        /\ request \in [Browsers -> Requests \cup {Absent}]
    BY DEF Init
  <2>3. /\ salt \in 0 .. MaxSalt
        /\ token \in 0 .. MaxToken
        /\ now \in 0 .. MaxTime
        /\ nextCleanup \in Nat
    BY DEF Init
  <2>4. NamesUnique
    <3>1. \A u, v \in first : NameOf[u] = NameOf[v] => u = v
      BY <1>1
    <3> QED
      BY <1>1, <3>1 DEF NamesUnique, Exists, FirstUsers
  <2> QED
    BY <2>1, <2>2, <2>3, <2>4 DEF TypeOK
<1>4. \A u \in Users : Exists(u) => u \in created /\ users[u].hash.salt = 0
  BY <1>1 DEF Exists, FirstUsers
<1>5. \A b \in Browsers : ~IsLogin(b) /\ ~HasPending(b)
  BY DEF Init, IsLogin, HasPending, AtStep
<1>6. LoginsInv
  <2>1. salt = 0
    BY DEF Init
  <2>2. IdsInv
    BY <1>4, <1>5 DEF IdsInv
  <2>3. SaltsInv
    BY <1>4, <1>5, <2>1 DEF SaltsInv
  <2>4. FreshInv
    BY <1>5 DEF FreshInv
  <2>5. EpochInv
    BY <1>5 DEF EpochInv
  <2> QED
    BY <2>2, <2>3, <2>4, <2>5 DEF LoginsInv
<1>7. NoSessionSurvivesReset
  BY DEF Init, NoSessionSurvivesReset
<1> QED
  BY <1>3, <1>6, <1>7 DEF IInv

\* What a request's record holds, by its step.
LEMMA RequestTypes ==
  ASSUME TypeOK, NEW b \in Browsers, request[b] # Absent
  PROVE  /\ request[b] \in Requests
         /\ IsLogin(b) => request[b] \in Logins
         /\ AtStep(b, "reset") => request[b] \in Resets
         /\ AtStep(b, "create") => request[b] \in Creations
         /\ AtStep(b, "delete") => request[b] \in Deletions
<1>1. request[b] \in Requests
  BY DEF TypeOK
<1>2. request[b].step \in {"verify", "rehash", "open"} => request[b] \in Logins
  BY <1>1 DEF Requests, Logins, Resets, Creations, Deletions
<1>3. request[b].step = "reset" => request[b] \in Resets
  BY <1>1 DEF Requests, Logins, Resets, Creations, Deletions
<1>4. request[b].step = "create" => request[b] \in Creations
  BY <1>1 DEF Requests, Logins, Resets, Creations, Deletions
<1>5. request[b].step = "delete" => request[b] \in Deletions
  BY <1>1 DEF Requests, Logins, Resets, Creations, Deletions
<1> QED
  BY <1>1, <1>2, <1>3, <1>4, <1>5 DEF IsLogin, AtStep

LEMMA NewHashType ==
  ASSUME TypeOK, salt < MaxSalt, NEW p \in Passwords
  PROVE  NewHash(p) \in Hashes /\ NewHash(p).salt = salt + 1
BY DEF TypeOK, NewHash, Hashes

\* Only an insert adds a name, and it meets no account that has it.
LEMMA NamesStep == TypeOK /\ [Next]_vars => NamesUnique'
<1> SUFFICES ASSUME TypeOK, [Next]_vars PROVE NamesUnique'
  OBVIOUS
<1>1. CASE \A u \in Users : Exists(u)' => Exists(u)
  BY <1>1 DEF TypeOK, NamesUnique
<1>2. ASSUME NEW b \in Browsers, ApplyCreate(b) PROVE NamesUnique'
  <2>1. CASE NameTaken(request[b].name)
    BY <1>1, <1>2, <2>1 DEF ApplyCreate, Exists
  <2>2. CASE ~NameTaken(request[b].name)
    <3>1. PICK u \in Users :
            /\ NameOf[u] = request[b].name
            /\ users' = [users EXCEPT ![u] = [hash |-> request[b].hash, epoch |-> 0]]
      BY <1>2, <2>2 DEF ApplyCreate
    <3>2. \A v \in Users : v # u => users'[v] = users[v]
      BY <3>1 DEF TypeOK
    <3>3. \A v \in Users \ {u} : Exists(v)' => Exists(v) /\ NameOf[v] # NameOf[u]
      BY <2>2, <3>1, <3>2 DEF NameTaken, Exists
    <3> QED
      BY <3>3 DEF TypeOK, NamesUnique
  <2> QED
    BY <2>1, <2>2
<1>3. ASSUME NEW b \in Browsers, Rehash(b) \/ ApplyReset(b) \/ DeleteUser(b)
      PROVE  NamesUnique'
  <2>1. /\ Rehash(b) => request[b] \in Logins
        /\ ApplyReset(b) => request[b] \in Resets
    BY RequestTypes DEF Rehash, ApplyReset, AtStep, IsLogin
  <2>2. \A u \in Users : Exists(u)' => Exists(u)
    BY <1>3 DEF Rehash, ApplyReset, DeleteUser, HashUnchanged, Exists, TypeOK
  <2> QED
    BY <1>1, <2>2
<1>4. CASE UNCHANGED users
  BY <1>1, <1>4 DEF Exists
<1>5. CASE \/ Tick
           \/ \E b \in Browsers :
                \/ PurgeExpired(b) \/ RejectExpired(b)
                \/ Verify(b) \/ OpenSession(b) \/ Logout(b)
           \/ \E b \in Browsers, u \in Users, p \in Passwords :
                BeginLogin(b, u, p) \/ BeginReset(b, u, p)
           \/ \E b \in Browsers, n \in Names, p \in Passwords, init \in BOOLEAN :
                BeginCreate(b, n, p, init)
           \/ \E b \in Browsers, admin \in Admins, u \in Users :
                BeginDelete(b, admin, u)
  BY <1>4, <1>5 DEF Tick, PurgeExpired, RejectExpired, Verify, OpenSession,
     Logout, BeginLogin, BeginReset, BeginCreate, BeginDelete
<1>6. CASE UNCHANGED vars
  BY <1>4, <1>6 DEF vars
<1> QED
  BY <1>2, <1>3, <1>5, <1>6 DEF Next

\* The variables keep their types, and names stay unique.
LEMMA TypeStep == TypeOK /\ [Next]_vars => TypeOK'
<1> SUFFICES ASSUME TypeOK, [Next]_vars PROVE TypeOK'
  OBVIOUS
<1>0. NamesUnique'
  BY NamesStep
<1>1. CASE Tick
  BY <1>0, <1>1 DEF Tick, TypeOK
<1>2. ASSUME NEW b \in Browsers, PurgeExpired(b) PROVE TypeOK'
  <2>1. nextCleanup' \in Nat
    BY <1>2 DEF PurgeExpired, TypeOK
  <2> QED
    BY <1>0, <1>2, <2>1 DEF PurgeExpired, TypeOK
<1>3. ASSUME NEW b \in Browsers, RejectExpired(b) PROVE TypeOK'
  BY <1>0, <1>3 DEF RejectExpired, TypeOK
<1>4. ASSUME NEW b \in Browsers, Verify(b) PROVE TypeOK'
  <2>1. request[b] \in Logins
    BY <1>4, RequestTypes DEF Verify, AtStep, IsLogin
  <2>2. /\ request[b].user \in Users /\ request[b].hash \in Hashes
        /\ request[b].password \in Passwords /\ request[b].epoch \in Nat
        /\ request[b].at \in 0 .. MaxTime
    BY <2>1 DEF Logins
  <2>3. \A step \in {"verify", "rehash", "open"}, h \in Hashes, up \in Hashes :
          Login(request[b], step, h, up) \in Logins
    BY <2>2 DEF Login, Logins
  <2>4. salt < MaxSalt => NewHash(request[b].password) \in Hashes
    BY <2>2, NewHashType
  <2>5. request' \in [Browsers -> Requests \cup {Absent}]
    BY <1>4, <2>2, <2>3, <2>4 DEF Verify, Continue, Answer, TypeOK, Requests
  <2>6. salt' \in 0 .. MaxSalt
    BY <1>4 DEF Verify, TypeOK
  <2> QED
    BY <1>0, <1>4, <2>5, <2>6 DEF Verify, TypeOK
<1>5. ASSUME NEW b \in Browsers, Rehash(b) PROVE TypeOK'
  <2>1. request[b] \in Logins
    BY <1>5, RequestTypes DEF Rehash, AtStep, IsLogin
  <2>2. /\ request[b].user \in Users /\ request[b].upgraded \in Hashes
        /\ request[b].password \in Passwords /\ request[b].epoch \in Nat
        /\ request[b].at \in 0 .. MaxTime
    BY <2>1 DEF Logins
  <2>3. Login(request[b], "open", request[b].upgraded, request[b].upgraded)
          \in Logins
    BY <2>2 DEF Login, Logins
  <2>4. HashUnchanged(request[b])
          => WithHash(request[b].user, request[b].upgraded) \in Rows
    BY <2>2 DEF HashUnchanged, Exists, WithHash, Rows, TypeOK
  <2>5. request' \in [Browsers -> Requests \cup {Absent}]
    BY <1>5, <2>3 DEF Rehash, Continue, Answer, TypeOK, Requests
  <2>6. users' \in [Users -> Rows \cup {Absent}]
    BY <1>5, <2>4 DEF Rehash, TypeOK
  <2> QED
    BY <1>0, <1>5, <2>5, <2>6 DEF Rehash, TypeOK
<1>6. ASSUME NEW b \in Browsers, OpenSession(b) PROVE TypeOK'
  <2>1. request[b] \in Logins
    BY <1>6, RequestTypes DEF OpenSession, AtStep, IsLogin
  <2>2. /\ request[b].user \in Users /\ request[b].epoch \in Nat
        /\ request[b].at \in 0 .. MaxTime
    BY <2>1 DEF Logins
  <2>3. CASE HashUnchanged(request[b])
    <3>1. token' \in 1 .. MaxToken /\ token' = token + 1
      BY <1>6, <2>3 DEF OpenSession, TypeOK
    <3>2. [token |-> token + 1, user |-> request[b].user,
           expires |-> request[b].at + Ttl, epoch |-> request[b].epoch]
            \in Sessions
      BY <2>2, <3>1 DEF Sessions
    <3>3. sessions' \subseteq Sessions
      BY <1>6, <2>3, <3>2 DEF OpenSession, TypeOK
    <3>4. cookie' \in [Browsers -> 0 .. MaxToken]
      BY <1>6, <2>3, <3>1 DEF OpenSession, TypeOK
    <3>5. request' \in [Browsers -> Requests \cup {Absent}]
      BY <1>6 DEF OpenSession, Answer, TypeOK
    <3>6. token' \in 0 .. MaxToken
      BY <3>1 DEF TypeOK
    <3>7. UNCHANGED <<users, created, salt, now, nextCleanup>>
      BY <1>6 DEF OpenSession
    <3> QED
      BY <1>0, <3>3, <3>4, <3>5, <3>6, <3>7 DEF TypeOK
  <2>4. CASE ~HashUnchanged(request[b])
    BY <1>0, <1>6, <2>4 DEF OpenSession, Answer, TypeOK
  <2> QED
    BY <2>3, <2>4
<1>7. ASSUME NEW b \in Browsers, Logout(b) PROVE TypeOK'
  BY <1>0, <1>7 DEF Logout, TypeOK
<1>8. ASSUME NEW b \in Browsers, ApplyReset(b) PROVE TypeOK'
  <2>1. request[b].user \in Users /\ request[b].hash \in Hashes
    BY <1>8, RequestTypes DEF ApplyReset, AtStep, Resets
  <2>2. Exists(request[b].user)
          => [hash |-> request[b].hash,
              epoch |-> users[request[b].user].epoch + 1] \in Rows
    BY <2>1 DEF Exists, Rows, TypeOK
  <2>3. users' \in [Users -> Rows \cup {Absent}]
    BY <1>8, <2>2 DEF ApplyReset, TypeOK
  <2>4. sessions' \subseteq Sessions
    BY <1>8 DEF ApplyReset, WithoutSessionsOf, TypeOK
  <2> QED
    BY <1>0, <1>8, <2>3, <2>4 DEF ApplyReset, Answer, TypeOK
<1>9. ASSUME NEW b \in Browsers, ApplyCreate(b) PROVE TypeOK'
  <2>1. request[b].hash \in Hashes
    BY <1>9, RequestTypes DEF ApplyCreate, AtStep, Creations
  <2>2. [hash |-> request[b].hash, epoch |-> 0] \in Rows
    BY <2>1 DEF Rows
  <2>3. users' \in [Users -> Rows \cup {Absent}]
    BY <1>9, <2>2 DEF ApplyCreate, TypeOK
  <2>4. created' \subseteq Users
    BY <1>9 DEF ApplyCreate, TypeOK
  <2> QED
    BY <1>0, <1>9, <2>3, <2>4 DEF ApplyCreate, Answer, TypeOK
<1>10. ASSUME NEW b \in Browsers, DeleteUser(b) PROVE TypeOK'
  BY <1>0, <1>10 DEF DeleteUser, WithoutSessionsOf, Answer, TypeOK
<1>11. ASSUME NEW b \in Browsers, NEW u \in Users, NEW p \in Passwords,
              BeginLogin(b, u, p)
       PROVE  TypeOK'
  <2>1. users[u] \in Rows
    BY <1>11 DEF BeginLogin, Exists, TypeOK
  <2>2. [step |-> "verify", user |-> u, hash |-> users[u].hash,
         password |-> p, upgraded |-> users[u].hash,
         epoch |-> users[u].epoch, at |-> now] \in Logins
    BY <2>1 DEF Logins, Rows, TypeOK
  <2> QED
    BY <1>0, <1>11, <2>2 DEF BeginLogin, Continue, TypeOK, Requests
<1>12. ASSUME NEW b \in Browsers, NEW u \in Users, NEW p \in Passwords,
              BeginReset(b, u, p)
       PROVE  TypeOK'
  <2>1. [step |-> "reset", user |-> u, hash |-> NewHash(p)] \in Resets
    BY <1>12, NewHashType DEF BeginReset, Resets
  <2>2. salt' \in 0 .. MaxSalt
    BY <1>12 DEF BeginReset, TypeOK
  <2> QED
    BY <1>0, <1>12, <2>1, <2>2 DEF BeginReset, Continue, TypeOK, Requests
<1>13. ASSUME NEW b \in Browsers, NEW n \in Names, NEW p \in Passwords,
              NEW init \in BOOLEAN, BeginCreate(b, n, p, init)
       PROVE  TypeOK'
  <2>1. [step |-> "create", name |-> n, hash |-> NewHash(p), init |-> init]
          \in Creations
    BY <1>13, NewHashType DEF BeginCreate, Creations
  <2>2. salt' \in 0 .. MaxSalt
    BY <1>13 DEF BeginCreate, TypeOK
  <2> QED
    BY <1>0, <1>13, <2>1, <2>2 DEF BeginCreate, Continue, TypeOK, Requests
<1>14. ASSUME NEW b \in Browsers, NEW admin \in Admins, NEW u \in Users,
              BeginDelete(b, admin, u)
       PROVE  TypeOK'
  <2>1. [step |-> "delete", user |-> u, by |-> admin] \in Deletions
    BY DEF Deletions
  <2> QED
    BY <1>0, <1>14, <2>1 DEF BeginDelete, Continue, TypeOK, Requests
<1>15. CASE UNCHANGED vars
  BY <1>0, <1>15 DEF vars, TypeOK
<1> QED
  BY <1>1, <1>2, <1>3, <1>4, <1>5, <1>6, <1>7, <1>8, <1>9, <1>10, <1>11,
     <1>12, <1>13, <1>14, <1>15 DEF Next

\* Every variable keeps its type, and no two accounts share a name.
THEOREM AccountsTypeOK == Spec => []TypeOK
<1>1. Init => TypeOK
  BY InitIInv DEF IInv
<1> QED
  BY <1>1, TypeStep, PTL DEF Spec
-----------------------------------------------------------------------------

\* A step that stores no hash and makes none: one request goes on with the hash
\* it had, or ends.
LEMMA ContinueKeepsLogins ==
  ASSUME TypeOK, LoginsInv, NEW b \in Browsers, NEW x,
         request' = [request EXCEPT ![b] = x],
         UNCHANGED <<users, created, salt>>,
         \/ x = Absent
         \/ /\ x.step \in {"open", "delete"}
            /\ x.step = "open" => /\ IsLogin(b)
                                  /\ x.user = request[b].user
                                  /\ x.hash = request[b].hash
                                  /\ x.epoch = request[b].epoch
  PROVE  LoginsInv'
<1>1. \A c \in Browsers : c # b =>
        /\ request'[c] = request[c]
        /\ IsLogin(c)' <=> IsLogin(c)
        /\ HasPending(c)' <=> HasPending(c)
        /\ Pending(c)' = Pending(c)
  BY DEF TypeOK, IsLogin, HasPending, Pending, AtStep
<1>2. request'[b] = x
  BY DEF TypeOK
<1>3. /\ ~HasPending(b)'
      /\ IsLogin(b)' => /\ IsLogin(b)
                        /\ request'[b].user = request[b].user
                        /\ request'[b].hash = request[b].hash
                        /\ request'[b].epoch = request[b].epoch
  BY <1>2 DEF IsLogin, HasPending, AtStep
<1>4. IdsInv'
  BY <1>1, <1>3 DEF LoginsInv, IdsInv, Exists
<1>5. SaltsInv'
  BY <1>1, <1>3 DEF LoginsInv, SaltsInv, Exists
<1>6. FreshInv'
  BY <1>1, <1>3 DEF LoginsInv, FreshInv, Exists
<1>7. EpochInv'
  <2> SUFFICES ASSUME NEW c \in Browsers, IsLogin(c)', HashUnchanged(request[c])'
               PROVE  request'[c].epoch = users'[request'[c].user].epoch
    BY DEF EpochInv
  <2>1. /\ IsLogin(c)
        /\ request'[c].user = request[c].user
        /\ request'[c].hash = request[c].hash
        /\ request'[c].epoch = request[c].epoch
    BY <1>1, <1>3
  <2>2. HashUnchanged(request[c])
    BY <2>1 DEF HashUnchanged, Exists
  <2> QED
    BY <2>1, <2>2 DEF LoginsInv, EpochInv
<1> QED
  BY <1>4, <1>5, <1>6, <1>7 DEF LoginsInv

\* A request that makes a hash takes a salt nobody has.
LEMMA NewHashKeepsLogins ==
  ASSUME TypeOK, LoginsInv, NEW b \in Browsers, NEW x,
         request' = [request EXCEPT ![b] = x],
         UNCHANGED <<users, created>>, salt' = salt + 1,
         x # Absent,
         \/ /\ x.step \in {"reset", "create"}
            /\ x.hash.salt = salt + 1
         \/ /\ x.step = "rehash"
            /\ x.upgraded.salt = salt + 1
            /\ IsLogin(b)
            /\ x.user = request[b].user
            /\ x.hash = request[b].hash
            /\ x.epoch = request[b].epoch
  PROVE  LoginsInv'
<1>1. \A c \in Browsers : c # b =>
        /\ request'[c] = request[c]
        /\ IsLogin(c)' <=> IsLogin(c)
        /\ HasPending(c)' <=> HasPending(c)
        /\ Pending(c)' = Pending(c)
  BY DEF TypeOK, IsLogin, HasPending, Pending, AtStep
<1>2. request'[b] = x
  BY DEF TypeOK
<1>3. /\ HasPending(b)'
      /\ Pending(b)'.salt = salt + 1
      /\ IsLogin(b)' => /\ IsLogin(b)
                        /\ request'[b].user = request[b].user
                        /\ request'[b].hash = request[b].hash
                        /\ request'[b].epoch = request[b].epoch
  BY <1>2 DEF IsLogin, HasPending, Pending, AtStep
<1>4. /\ salt \in Nat
      /\ \A u \in Users : Exists(u) => users[u].hash.salt \in Nat
      /\ \A c \in Browsers : IsLogin(c) => request[c].hash.salt \in Nat
      /\ \A c \in Browsers : HasPending(c) => Pending(c).salt \in Nat
  <2>1. salt \in Nat
    BY DEF TypeOK
  <2>2. ASSUME NEW u \in Users, Exists(u) PROVE users[u].hash.salt \in Nat
    BY <2>2 DEF TypeOK, Exists, Rows, Hashes
  <2>3. ASSUME NEW c \in Browsers, IsLogin(c) PROVE request[c].hash.salt \in Nat
    <3>1. request[c] \in Logins
      BY <2>3, RequestTypes DEF IsLogin
    <3> QED
      BY <3>1 DEF Logins, Hashes
  <2>4. ASSUME NEW c \in Browsers, HasPending(c) PROVE Pending(c).salt \in Nat
    <3>1. Pending(c) \in Hashes
      BY <2>4, RequestTypes
      DEF HasPending, Pending, AtStep, IsLogin, Logins, Resets, Creations
    <3> QED
      BY <3>1 DEF Hashes
  <2> QED
    BY <2>1, <2>2, <2>3, <2>4
<1>5. IdsInv'
  BY <1>1, <1>3 DEF LoginsInv, IdsInv, Exists
<1>6. SaltsInv'
  BY <1>1, <1>3, <1>4 DEF LoginsInv, SaltsInv, Exists
<1>7. FreshInv'
  <2> SUFFICES ASSUME NEW c \in Browsers, HasPending(c)'
               PROVE  /\ \A u \in Users : Exists(u)'
                           => users'[u].hash.salt # Pending(c)'.salt
                      /\ \A d \in Browsers : IsLogin(d)'
                           => request'[d].hash.salt # Pending(c)'.salt
                      /\ \A d \in Browsers : HasPending(d)' /\ d # c
                           => Pending(d)'.salt # Pending(c)'.salt
    BY DEF FreshInv
  <2>1. \A d \in Browsers : IsLogin(d)' =>
          IsLogin(d) /\ request'[d].hash = request[d].hash
    BY <1>1, <1>3
  <2>2. CASE c = b
    BY <2>1, <2>2, <1>1, <1>3, <1>4 DEF LoginsInv, SaltsInv, Exists
  <2>3. CASE c # b
    BY <2>1, <2>3, <1>1, <1>3, <1>4 DEF LoginsInv, SaltsInv, FreshInv, Exists
  <2> QED
    BY <2>2, <2>3
<1>8. EpochInv'
  <2> SUFFICES ASSUME NEW c \in Browsers, IsLogin(c)', HashUnchanged(request[c])'
               PROVE  request'[c].epoch = users'[request'[c].user].epoch
    BY DEF EpochInv
  <2>1. /\ IsLogin(c)
        /\ request'[c].user = request[c].user
        /\ request'[c].hash = request[c].hash
        /\ request'[c].epoch = request[c].epoch
    BY <1>1, <1>3
  <2>2. HashUnchanged(request[c])
    BY <2>1 DEF HashUnchanged, Exists
  <2> QED
    BY <2>1, <2>2 DEF LoginsInv, EpochInv
<1> QED
  BY <1>5, <1>6, <1>7, <1>8 DEF LoginsInv

\* A request that stores the hash it has made: no login of anybody else has
\* verified a password against it.
LEMMA StoreKeepsLogins ==
  ASSUME TypeOK, LoginsInv, NEW b \in Browsers, NEW x, NEW v \in Users, NEW r,
         HasPending(b),
         request' = [request EXCEPT ![b] = x],
         users' = [users EXCEPT ![v] = r],
         created' = created \cup {v}, UNCHANGED salt,
         r # Absent, r.hash = Pending(b),
         \/ x = Absent
         \/ /\ x.step = "open"
            /\ IsLogin(b)
            /\ x.user = request[b].user /\ x.user = v
            /\ x.hash = Pending(b)
            /\ x.epoch = r.epoch
  PROVE  LoginsInv'
<1>1. \A c \in Browsers : c # b =>
        /\ request'[c] = request[c]
        /\ IsLogin(c)' <=> IsLogin(c)
        /\ HasPending(c)' <=> HasPending(c)
        /\ Pending(c)' = Pending(c)
  BY DEF TypeOK, IsLogin, HasPending, Pending, AtStep
<1>2. request'[b] = x
  BY DEF TypeOK
<1>3. /\ ~HasPending(b)'
      /\ IsLogin(b)' => /\ IsLogin(b)
                        /\ request'[b].user = v
                        /\ request[b].user = v
                        /\ request'[b].hash = Pending(b)
                        /\ request'[b].epoch = r.epoch
  BY <1>2 DEF IsLogin, HasPending, AtStep
<1>4. users'[v] = r /\ \A u \in Users : u # v => users'[u] = users[u]
  BY DEF TypeOK
<1>5. IdsInv'
  BY <1>1, <1>3, <1>4 DEF LoginsInv, IdsInv, Exists
<1>6. SaltsInv'
  BY <1>1, <1>3, <1>4 DEF LoginsInv, SaltsInv, Exists
<1>7. FreshInv'
  BY <1>1, <1>3, <1>4 DEF LoginsInv, FreshInv, Exists
<1>8. EpochInv'
  <2> SUFFICES ASSUME NEW c \in Browsers, IsLogin(c)', HashUnchanged(request[c])'
               PROVE  request'[c].epoch = users'[request'[c].user].epoch
    BY DEF EpochInv
  <2>1. CASE c = b
    BY <2>1, <1>3, <1>4
  <2>2. CASE c # b
    <3>1. IsLogin(c) /\ request'[c] = request[c]
      BY <2>2, <1>1
    <3>2. request[c].hash.salt # Pending(b).salt
      BY <3>1 DEF LoginsInv, FreshInv
    <3>3. request[c].user \in Users
      BY <3>1, RequestTypes DEF IsLogin, Logins
    <3>4. users'[request[c].user].hash = request[c].hash
      BY <3>1 DEF HashUnchanged
    <3>5. request[c].user # v
      BY <3>2, <3>4, <1>4
    <3>6. HashUnchanged(request[c])
      BY <3>1, <3>3, <3>5, <1>4 DEF HashUnchanged, Exists
    <3> QED
      BY <3>1, <3>3, <3>5, <3>6, <1>4 DEF LoginsInv, EpochInv
  <2> QED
    BY <2>1, <2>2
<1> QED
  BY <1>5, <1>6, <1>7, <1>8 DEF LoginsInv
\* An account that is deleted takes no part any more.
LEMMA DeleteKeepsLogins ==
  ASSUME TypeOK, LoginsInv, NEW b \in Browsers, DeleteUser(b)
  PROVE  LoginsInv'
<1> DEFINE v == request[b].user
<1>1. \A c \in Browsers :
        /\ IsLogin(c)' => IsLogin(c) /\ request'[c] = request[c]
        /\ HasPending(c)' => HasPending(c) /\ Pending(c)' = Pending(c)
  BY DEF DeleteUser, Answer, TypeOK, IsLogin, HasPending, Pending, AtStep
<1>2. \A u \in Users : Exists(u)' => Exists(u) /\ users'[u] = users[u]
  BY DEF DeleteUser, TypeOK, Exists
<1>3. UNCHANGED <<created, salt>>
  BY DEF DeleteUser
<1>4. IdsInv'
  BY <1>1, <1>2, <1>3 DEF LoginsInv, IdsInv
<1>5. SaltsInv'
  BY <1>1, <1>2, <1>3 DEF LoginsInv, SaltsInv
<1>6. FreshInv'
  BY <1>1, <1>2, <1>3 DEF LoginsInv, FreshInv
<1>7. EpochInv'
  <2> SUFFICES ASSUME NEW c \in Browsers, IsLogin(c)', HashUnchanged(request[c])'
               PROVE  request'[c].epoch = users'[request'[c].user].epoch
    BY DEF EpochInv
  <2>1. IsLogin(c) /\ request'[c] = request[c]
    BY <1>1
  <2>2. request[c].user \in Users
    BY <2>1, RequestTypes DEF IsLogin, Logins
  <2>3. /\ Exists(request[c].user)
        /\ users'[request[c].user] = users[request[c].user]
    BY <2>1, <2>2, <1>2 DEF HashUnchanged, Exists
  <2>4. HashUnchanged(request[c])
    BY <2>1, <2>3 DEF HashUnchanged
  <2> QED
    BY <2>1, <2>3, <2>4 DEF LoginsInv, EpochInv
<1> QED
  BY <1>4, <1>5, <1>6, <1>7 DEF LoginsInv

\* A login begins with the account as it is.
LEMMA BeginKeepsLogins ==
  ASSUME TypeOK, LoginsInv, NEW b \in Browsers, NEW v \in Users,
         NEW p \in Passwords, BeginLogin(b, v, p)
  PROVE  LoginsInv'
<1>1. \A c \in Browsers : c # b =>
        /\ request'[c] = request[c]
        /\ IsLogin(c)' <=> IsLogin(c)
        /\ HasPending(c)' <=> HasPending(c)
        /\ Pending(c)' = Pending(c)
  BY DEF BeginLogin, Continue, TypeOK, IsLogin, HasPending, Pending, AtStep
<1>2. /\ request'[b].user = v
      /\ request'[b].hash = users[v].hash
      /\ request'[b].epoch = users[v].epoch
      /\ request'[b].step = "verify"
  BY DEF BeginLogin, Continue, TypeOK
<1>3. ~HasPending(b)'
  BY <1>2 DEF HasPending, AtStep
<1>4. Exists(v) /\ UNCHANGED <<users, created, salt>>
  BY DEF BeginLogin
<1>5. IdsInv'
  BY <1>1, <1>2, <1>4 DEF LoginsInv, IdsInv, Exists
<1>6. SaltsInv'
  BY <1>1, <1>2, <1>3, <1>4 DEF LoginsInv, SaltsInv, Exists
<1>7. FreshInv'
  BY <1>1, <1>2, <1>3, <1>4 DEF LoginsInv, FreshInv, Exists
<1>8. EpochInv'
  BY <1>1, <1>2, <1>4 DEF LoginsInv, EpochInv, HashUnchanged, Exists
<1> QED
  BY <1>5, <1>6, <1>7, <1>8 DEF LoginsInv

LEMMA LoginsStep == TypeOK /\ LoginsInv /\ [Next]_vars => LoginsInv'
<1> SUFFICES ASSUME TypeOK, LoginsInv, [Next]_vars PROVE LoginsInv'
  OBVIOUS
<1>1. ASSUME UNCHANGED <<users, created, request, salt>> PROVE LoginsInv'
  BY <1>1 DEF LoginsInv, IdsInv, SaltsInv, FreshInv, EpochInv, IsLogin,
              HasPending, Pending, AtStep, Exists, HashUnchanged
<1>2. CASE Tick
  BY <1>1, <1>2 DEF Tick
<1>3. ASSUME NEW b \in Browsers, PurgeExpired(b) \/ RejectExpired(b) \/ Logout(b)
      PROVE  LoginsInv'
  BY <1>1, <1>3 DEF PurgeExpired, RejectExpired, Logout
<1>4. ASSUME NEW b \in Browsers, Verify(b) PROVE LoginsInv'
  <2> DEFINE r == request[b]
  <2>1. IsLogin(b) /\ r \in Logins /\ UNCHANGED <<users, created>>
    BY <1>4, RequestTypes DEF Verify, AtStep, IsLogin
  <2>2. CASE Answer(b) /\ UNCHANGED salt
    BY <2>1, <2>2, ContinueKeepsLogins DEF Answer
  <2>3. CASE Continue(b, Login(r, "open", r.hash, r.hash)) /\ UNCHANGED salt
    <3> DEFINE x == Login(r, "open", r.hash, r.hash)
    <3>1. /\ x.step = "open" /\ x.user = r.user
          /\ x.hash = r.hash /\ x.epoch = r.epoch
      BY DEF Login
    <3>2. request' = [request EXCEPT ![b] = x]
      BY <2>3 DEF Continue
    <3> HIDE DEF x
    <3> QED
      BY <2>1, <2>3, <3>1, <3>2, ContinueKeepsLogins
  <2>4. CASE /\ salt < MaxSalt /\ salt' = salt + 1
             /\ Continue(b, Login(r, "rehash", r.hash, NewHash(r.password)))
    <3> DEFINE x == Login(r, "rehash", r.hash, NewHash(r.password))
    <3>1. NewHash(r.password).salt = salt + 1
      BY <2>1, <2>4, NewHashType DEF Logins
    <3>2. /\ x.step = "rehash" /\ x.user = r.user /\ x.hash = r.hash
          /\ x.epoch = r.epoch /\ x.upgraded.salt = salt + 1
      BY <3>1 DEF Login
    <3>3. x \in Logins
      BY <2>1, <2>4, NewHashType DEF Login, Logins
    <3>4. x # Absent
      BY <3>3 DEF Requests
    <3>5. request' = [request EXCEPT ![b] = x]
      BY <2>4 DEF Continue
    <3> HIDE DEF x
    <3> QED
      BY <2>1, <2>4, <3>2, <3>4, <3>5, NewHashKeepsLogins
  <2> QED
    BY <1>4, <2>2, <2>3, <2>4 DEF Verify
<1>5. ASSUME NEW b \in Browsers, Rehash(b) PROVE LoginsInv'
  <2> DEFINE r == request[b]
  <2>1. /\ IsLogin(b) /\ r \in Logins /\ UNCHANGED <<created, salt>>
        /\ HasPending(b) /\ Pending(b) = r.upgraded
    BY <1>5, RequestTypes DEF Rehash, AtStep, IsLogin, HasPending, Pending
  <2>2. CASE HashUnchanged(r)
    <3> DEFINE row == WithHash(r.user, r.upgraded)
               x == Login(r, "open", r.upgraded, r.upgraded)
    <3>1. r.user \in Users /\ r.user \in created /\ Exists(r.user)
      BY <2>1, <2>2 DEF Logins, LoginsInv, IdsInv, HashUnchanged
    <3>2. row \in Rows /\ row.hash = r.upgraded /\ row.epoch = users[r.user].epoch
      BY <2>1, <3>1 DEF WithHash, Rows, Logins, Exists, TypeOK
    <3>3. /\ x.step = "open" /\ x.user = r.user /\ x.hash = r.upgraded
          /\ x.epoch = r.epoch
      BY DEF Login
    <3>4. r.epoch = users[r.user].epoch
      BY <2>1, <2>2 DEF LoginsInv, EpochInv
    <3>5. /\ users' = [users EXCEPT ![r.user] = row]
          /\ request' = [request EXCEPT ![b] = x]
      BY <1>5, <2>2 DEF Rehash, Continue
    <3>6. created' = created \cup {r.user} /\ row # Absent
      BY <2>1, <3>1, <3>2
    <3> HIDE DEF x, row
    <3> QED
      BY <2>1, <3>1, <3>2, <3>3, <3>4, <3>5, <3>6, StoreKeepsLogins
  <2>3. CASE ~HashUnchanged(r)
    <3>1. request' = [request EXCEPT ![b] = Absent] /\ UNCHANGED users
      BY <1>5, <2>3 DEF Rehash, Answer
    <3> QED
      BY <2>1, <3>1, ContinueKeepsLogins
  <2> QED
    BY <2>2, <2>3
<1>6. ASSUME NEW b \in Browsers, OpenSession(b) PROVE LoginsInv'
  BY <1>6, ContinueKeepsLogins DEF OpenSession, Answer
<1>7. ASSUME NEW b \in Browsers, ApplyReset(b) PROVE LoginsInv'
  <2> DEFINE r == request[b]
  <2>1. /\ r \in Resets /\ UNCHANGED <<created, salt>>
        /\ HasPending(b) /\ Pending(b) = r.hash
        /\ request' = [request EXCEPT ![b] = Absent]
    BY <1>7, RequestTypes DEF ApplyReset, AtStep, HasPending, Pending, Answer
  <2>2. CASE Exists(r.user)
    <3> DEFINE row == [hash |-> r.hash, epoch |-> users[r.user].epoch + 1]
    <3>1. r.user \in Users /\ r.user \in created
      BY <2>1, <2>2 DEF Resets, LoginsInv, IdsInv
    <3>2. row \in Rows /\ row.hash = r.hash
      BY <2>1, <2>2, <3>1 DEF Rows, Resets, Exists, TypeOK
    <3>3. users' = [users EXCEPT ![r.user] = row]
      BY <1>7, <2>2 DEF ApplyReset
    <3>4. created' = created \cup {r.user} /\ row # Absent
      BY <2>1, <3>1, <3>2
    <3> HIDE DEF row
    <3> QED
      BY <2>1, <3>1, <3>2, <3>3, <3>4, StoreKeepsLogins
  <2>3. CASE ~Exists(r.user)
    <3>1. UNCHANGED users
      BY <1>7, <2>3 DEF ApplyReset
    <3> QED
      BY <2>1, <3>1, ContinueKeepsLogins
  <2> QED
    BY <2>2, <2>3
<1>8. ASSUME NEW b \in Browsers, ApplyCreate(b) PROVE LoginsInv'
  <2> DEFINE r == request[b]
             row == [hash |-> r.hash, epoch |-> 0]
  <2>1. /\ r \in Creations /\ UNCHANGED salt
        /\ HasPending(b) /\ Pending(b) = r.hash
        /\ request' = [request EXCEPT ![b] = Absent]
    BY <1>8, RequestTypes DEF ApplyCreate, AtStep, HasPending, Pending, Answer
  <2>2. CASE NameTaken(r.name)
    <3>1. UNCHANGED <<users, created>>
      BY <1>8, <2>2 DEF ApplyCreate
    <3> QED
      BY <2>1, <3>1, ContinueKeepsLogins
  <2>3. CASE ~NameTaken(r.name)
    <3>1. PICK u \in Users : /\ created' = created \cup {u}
                             /\ users' = [users EXCEPT ![u] = row]
      BY <1>8, <2>3 DEF ApplyCreate
    <3>2. row \in Rows /\ row.hash = r.hash
      BY <2>1 DEF Rows, Creations
    <3>3. row # Absent
      BY <3>2
    <3> HIDE DEF row
    <3> QED
      BY <2>1, <3>1, <3>2, <3>3, StoreKeepsLogins
  <2> QED
    BY <2>2, <2>3
<1>9. ASSUME NEW b \in Browsers, DeleteUser(b) PROVE LoginsInv'
  BY <1>9, DeleteKeepsLogins
<1>10. ASSUME NEW b \in Browsers, NEW u \in Users, NEW p \in Passwords,
              BeginLogin(b, u, p)
       PROVE  LoginsInv'
  BY <1>10, BeginKeepsLogins
<1>11. ASSUME NEW b \in Browsers, NEW u \in Users, NEW p \in Passwords,
              BeginReset(b, u, p)
       PROVE  LoginsInv'
  <2> DEFINE x == [step |-> "reset", user |-> u, hash |-> NewHash(p)]
  <2>1. salt < MaxSalt /\ salt' = salt + 1 /\ UNCHANGED <<users, created>>
    BY <1>11 DEF BeginReset
  <2>2. x \in Resets /\ x.step = "reset" /\ x.hash.salt = salt + 1
    BY <2>1, NewHashType DEF Resets
  <2>3. request' = [request EXCEPT ![b] = x] /\ x # Absent
    BY <1>11, <2>2 DEF BeginReset, Continue, Requests
  <2> HIDE DEF x
  <2> QED
    BY <2>1, <2>2, <2>3, NewHashKeepsLogins
<1>12. ASSUME NEW b \in Browsers, NEW n \in Names, NEW p \in Passwords,
              NEW init \in BOOLEAN, BeginCreate(b, n, p, init)
       PROVE  LoginsInv'
  <2> DEFINE x == [step |-> "create", name |-> n, hash |-> NewHash(p),
                   init |-> init]
  <2>1. salt < MaxSalt /\ salt' = salt + 1 /\ UNCHANGED <<users, created>>
    BY <1>12 DEF BeginCreate
  <2>2. x \in Creations /\ x.step = "create" /\ x.hash.salt = salt + 1
    BY <2>1, NewHashType DEF Creations
  <2>3. request' = [request EXCEPT ![b] = x] /\ x # Absent
    BY <1>12, <2>2 DEF BeginCreate, Continue, Requests
  <2> HIDE DEF x
  <2> QED
    BY <2>1, <2>2, <2>3, NewHashKeepsLogins
<1>13. ASSUME NEW b \in Browsers, NEW admin \in Admins, NEW u \in Users,
              BeginDelete(b, admin, u)
       PROVE  LoginsInv'
  <2> DEFINE x == [step |-> "delete", user |-> u, by |-> admin]
  <2>1. x.step = "delete"
    OBVIOUS
  <2>2. /\ request' = [request EXCEPT ![b] = x]
        /\ UNCHANGED <<users, created, salt>>
    BY <1>13 DEF BeginDelete, Continue
  <2> HIDE DEF x
  <2> QED
    BY <2>1, <2>2, ContinueKeepsLogins
<1>14. CASE UNCHANGED vars
  BY <1>1, <1>14 DEF vars
<1> QED
  BY <1>2, <1>3, <1>4, <1>5, <1>6, <1>7, <1>8, <1>9, <1>10, <1>11, <1>12,
     <1>13, <1>14 DEF Next

LEMMA SessionsStep == IInv /\ [Next]_vars => NoSessionSurvivesReset'
<1> SUFFICES ASSUME IInv, [Next]_vars PROVE NoSessionSurvivesReset'
  OBVIOUS
<1> USE DEF IInv
<1>1. \A s \in sessions : s.user \in Users
  BY DEF TypeOK, Sessions
<1>2. ASSUME UNCHANGED users, sessions' \subseteq sessions
      PROVE  NoSessionSurvivesReset'
  BY <1>2 DEF NoSessionSurvivesReset, Exists
<1>3. ASSUME NEW b \in Browsers, Rehash(b) PROVE NoSessionSurvivesReset'
  <2> DEFINE r == request[b]
  <2>1. UNCHANGED sessions
    BY <1>3 DEF Rehash
  <2>2. r.user \in Users /\ r.upgraded \in Hashes
    BY <1>3, RequestTypes DEF Rehash, AtStep, IsLogin, Logins
  <2>3. HashUnchanged(r) =>
          /\ Exists(r.user)
          /\ WithHash(r.user, r.upgraded) \in Rows
          /\ WithHash(r.user, r.upgraded).epoch = users[r.user].epoch
    BY <2>2 DEF HashUnchanged, Exists, WithHash, Rows, TypeOK
  <2>4. \A u \in Users : Exists(u) => Exists(u)' /\ users'[u].epoch = users[u].epoch
    <3>1. CASE HashUnchanged(r)
      <4>1. users' = [users EXCEPT ![r.user] = WithHash(r.user, r.upgraded)]
        BY <1>3, <3>1 DEF Rehash
      <4> QED
        BY <2>3, <3>1, <4>1 DEF Exists, TypeOK
    <3>2. CASE ~HashUnchanged(r)
      BY <1>3, <3>2 DEF Rehash, Exists
    <3> QED
      BY <3>1, <3>2
  <2> QED
    BY <1>1, <2>1, <2>4 DEF NoSessionSurvivesReset
<1>4. ASSUME NEW b \in Browsers, OpenSession(b) PROVE NoSessionSurvivesReset'
  <2> DEFINE r == request[b]
  <2>1. IsLogin(b) /\ UNCHANGED users
    BY <1>4 DEF OpenSession, AtStep, IsLogin
  <2>2. CASE HashUnchanged(r)
    <3>1. Exists(r.user) /\ r.epoch = users[r.user].epoch
      BY <2>1, <2>2 DEF LoginsInv, EpochInv, HashUnchanged
    <3>2. \A s \in sessions' : s \in sessions \/ (s.user = r.user /\ s.epoch = r.epoch)
      BY <1>4, <2>2 DEF OpenSession
    <3> QED
      BY <2>1, <3>1, <3>2 DEF NoSessionSurvivesReset, Exists
  <2>3. CASE ~HashUnchanged(r)
    BY <1>2, <1>4, <2>1, <2>3 DEF OpenSession
  <2> QED
    BY <2>2, <2>3
<1>5. ASSUME NEW b \in Browsers, ApplyReset(b) \/ DeleteUser(b)
      PROVE  NoSessionSurvivesReset'
  <2> DEFINE v == request[b].user
  <2>1. CASE UNCHANGED <<users, sessions>>
    BY <1>2, <2>1
  <2>2. CASE /\ sessions' = WithoutSessionsOf(v)
             /\ \E r : users' = [users EXCEPT ![v] = r]
    <3>1. \A s \in sessions' : s \in sessions /\ s.user # v
      BY <2>2 DEF WithoutSessionsOf
    <3>2. \A u \in Users : u # v => users'[u] = users[u]
      BY <2>2 DEF TypeOK
    <3> QED
      BY <1>1, <3>1, <3>2 DEF NoSessionSurvivesReset, Exists
  <2> QED
    BY <1>5, <2>1, <2>2 DEF ApplyReset, DeleteUser
<1>6. ASSUME NEW b \in Browsers, ApplyCreate(b) PROVE NoSessionSurvivesReset'
  <2>1. UNCHANGED sessions
    BY <1>6 DEF ApplyCreate
  <2>2. CASE UNCHANGED users
    BY <1>2, <2>1, <2>2
  <2>3. CASE \E u \in Users \ created : \E r : users' = [users EXCEPT ![u] = r]
    <3>1. \A v \in Users : v \in created => users'[v] = users[v]
      BY <2>3 DEF TypeOK
    <3>2. \A s \in sessions : s.user \in created
      BY <1>1 DEF NoSessionSurvivesReset, LoginsInv, IdsInv
    <3> QED
      BY <1>1, <2>1, <3>1, <3>2 DEF NoSessionSurvivesReset, Exists
  <2> QED
    BY <1>6, <2>2, <2>3 DEF ApplyCreate
<1>7. CASE Tick \/ UNCHANGED vars
  BY <1>2, <1>7 DEF Tick, vars
<1>8. ASSUME NEW b \in Browsers,
             PurgeExpired(b) \/ RejectExpired(b) \/ Verify(b) \/ Logout(b)
      PROVE  NoSessionSurvivesReset'
  BY <1>2, <1>8 DEF PurgeExpired, RejectExpired, Verify, Logout
<1>9. ASSUME NEW b \in Browsers, NEW u \in Users, NEW p \in Passwords,
             BeginLogin(b, u, p) \/ BeginReset(b, u, p)
      PROVE  NoSessionSurvivesReset'
  BY <1>2, <1>9 DEF BeginLogin, BeginReset
<1>10. ASSUME NEW b \in Browsers, NEW n \in Names, NEW p \in Passwords,
              NEW init \in BOOLEAN, BeginCreate(b, n, p, init)
       PROVE  NoSessionSurvivesReset'
  BY <1>2, <1>10 DEF BeginCreate
<1>11. ASSUME NEW b \in Browsers, NEW admin \in Admins, NEW u \in Users,
              BeginDelete(b, admin, u)
       PROVE  NoSessionSurvivesReset'
  BY <1>2, <1>11 DEF BeginDelete
<1> QED
  BY <1>3, <1>4, <1>5, <1>6, <1>7, <1>8, <1>9, <1>10, <1>11 DEF Next

\* A reset invalidates existing logins, however long one takes to check its
\* password: every session belongs to an existing account and to a login that
\* read it after its last reset.
THEOREM ResetEndsSessions == Spec => []NoSessionSurvivesReset
<1>1. IInv /\ [Next]_vars => IInv'
  BY TypeStep, LoginsStep, SessionsStep DEF IInv
<1>2. IInv => NoSessionSurvivesReset
  BY DEF IInv
<1> QED
  BY InitIInv, <1>1, <1>2, PTL DEF Spec
-----------------------------------------------------------------------------

\* The upgrade of a hash is a hash of the same password.
RehashInv ==
  \A b \in Browsers : AtStep(b, "rehash") =>
    request[b].upgraded.password = request[b].hash.password

LEMMA RehashStep == TypeOK /\ RehashInv /\ [Next]_vars => RehashInv'
<1> SUFFICES ASSUME TypeOK, RehashInv, [Next]_vars, NEW c \in Browsers,
                    AtStep(c, "rehash")'
             PROVE  request'[c].upgraded.password = request'[c].hash.password
  BY DEF RehashInv
<1>1. ASSUME request'[c] = request[c]
      PROVE  request'[c].upgraded.password = request'[c].hash.password
  BY <1>1 DEF RehashInv, AtStep
<1>2. ASSUME NEW b \in Browsers, NEW x, request' = [request EXCEPT ![b] = x],
             x = Absent \/ x.step # "rehash"
      PROVE  request'[c].upgraded.password = request'[c].hash.password
  BY <1>1, <1>2 DEF TypeOK, AtStep
<1>3. ASSUME NEW b \in Browsers, Verify(b)
      PROVE  request'[c].upgraded.password = request'[c].hash.password
  <2> DEFINE r == request[b]
  <2>1. CASE Answer(b)
    BY <1>2, <2>1 DEF Answer
  <2>2. CASE Continue(b, Login(r, "open", r.hash, r.hash))
    <3> DEFINE x == Login(r, "open", r.hash, r.hash)
    <3>1. x.step # "rehash"
      BY DEF Login
    <3>2. request' = [request EXCEPT ![b] = x]
      BY <2>2 DEF Continue
    <3> HIDE DEF x
    <3> QED
      BY <1>2, <3>1, <3>2
  <2>3. CASE /\ r.password = r.hash.password
             /\ Continue(b, Login(r, "rehash", r.hash, NewHash(r.password)))
    <3>1. CASE c = b
      <4>1. /\ request'[c].upgraded = NewHash(r.password)
            /\ request'[c].hash = r.hash
        BY <2>3, <3>1 DEF Continue, Login, TypeOK
      <4> QED
        BY <2>3, <4>1 DEF NewHash
    <3>2. CASE c # b
      BY <1>1, <2>3, <3>2 DEF Continue, TypeOK
    <3> QED
      BY <3>1, <3>2
  <2> QED
    BY <1>3, <2>1, <2>2, <2>3 DEF Verify
<1>4. ASSUME NEW b \in Browsers, Rehash(b)
      PROVE  request'[c].upgraded.password = request'[c].hash.password
  <2> DEFINE x == Login(request[b], "open", request[b].upgraded,
                        request[b].upgraded)
  <2>1. x.step # "rehash"
    BY DEF Login
  <2>2. \/ request' = [request EXCEPT ![b] = x]
        \/ request' = [request EXCEPT ![b] = Absent]
    BY <1>4 DEF Rehash, Continue, Answer
  <2> HIDE DEF x
  <2> QED
    BY <1>2, <2>1, <2>2
<1>5. ASSUME NEW b \in Browsers,
             \/ OpenSession(b) \/ ApplyReset(b) \/ ApplyCreate(b) \/ DeleteUser(b)
      PROVE  request'[c].upgraded.password = request'[c].hash.password
  BY <1>2, <1>5 DEF OpenSession, ApplyReset, ApplyCreate, DeleteUser, Answer
<1>6. ASSUME NEW b \in Browsers, PurgeExpired(b) \/ RejectExpired(b) \/ Logout(b)
      PROVE  request'[c].upgraded.password = request'[c].hash.password
  BY <1>1, <1>6 DEF PurgeExpired, RejectExpired, Logout
<1>7. ASSUME NEW b \in Browsers, NEW u \in Users, NEW p \in Passwords,
             BeginLogin(b, u, p)
      PROVE  request'[c].upgraded.password = request'[c].hash.password
  <2> DEFINE x == [step |-> "verify", user |-> u, hash |-> users[u].hash,
                   password |-> p, upgraded |-> users[u].hash,
                   epoch |-> users[u].epoch, at |-> now]
  <2>1. x.step # "rehash"
    OBVIOUS
  <2>2. request' = [request EXCEPT ![b] = x]
    BY <1>7 DEF BeginLogin, Continue
  <2> HIDE DEF x
  <2> QED
    BY <1>2, <2>1, <2>2
<1>8. ASSUME NEW b \in Browsers, NEW u \in Users, NEW p \in Passwords,
             BeginReset(b, u, p)
      PROVE  request'[c].upgraded.password = request'[c].hash.password
  <2> DEFINE x == [step |-> "reset", user |-> u, hash |-> NewHash(p)]
  <2>1. x.step # "rehash"
    OBVIOUS
  <2>2. request' = [request EXCEPT ![b] = x]
    BY <1>8 DEF BeginReset, Continue
  <2> HIDE DEF x
  <2> QED
    BY <1>2, <2>1, <2>2
<1>9. ASSUME NEW b \in Browsers, NEW n \in Names, NEW p \in Passwords,
             NEW init \in BOOLEAN, BeginCreate(b, n, p, init)
      PROVE  request'[c].upgraded.password = request'[c].hash.password
  <2> DEFINE x == [step |-> "create", name |-> n, hash |-> NewHash(p),
                   init |-> init]
  <2>1. x.step # "rehash"
    OBVIOUS
  <2>2. request' = [request EXCEPT ![b] = x]
    BY <1>9 DEF BeginCreate, Continue
  <2> HIDE DEF x
  <2> QED
    BY <1>2, <2>1, <2>2
<1>10. ASSUME NEW b \in Browsers, NEW admin \in Admins, NEW u \in Users,
             BeginDelete(b, admin, u)
      PROVE  request'[c].upgraded.password = request'[c].hash.password
  <2> DEFINE x == [step |-> "delete", user |-> u, by |-> admin]
  <2>1. x.step # "rehash"
    OBVIOUS
  <2>2. request' = [request EXCEPT ![b] = x]
    BY <1>10 DEF BeginDelete, Continue
  <2> HIDE DEF x
  <2> QED
    BY <1>2, <2>1, <2>2
<1>11. CASE Tick \/ UNCHANGED vars
  BY <1>1, <1>11 DEF Tick, vars
<1> QED
  BY <1>3, <1>4, <1>5, <1>6, <1>7, <1>8, <1>9, <1>10, <1>11 DEF Next

\* The password of an account changes in a reset only.
PasswordStep ==
  \A u \in Users :
    (/\ Exists(u)
     /\ users'[u] # Absent
     /\ users'[u].hash.password # users[u].hash.password)
      => users'[u].epoch > users[u].epoch

LEMMA PasswordStepHolds == IInv /\ RehashInv /\ [Next]_vars => PasswordStep
<1> SUFFICES ASSUME IInv, RehashInv, [Next]_vars, NEW u \in Users,
                    Exists(u), users'[u] # Absent,
                    users'[u].hash.password # users[u].hash.password
             PROVE  users'[u].epoch > users[u].epoch
  BY DEF PasswordStep
<1> USE DEF IInv
<1>1. users'[u] # users[u]
  OBVIOUS
<1>2. ASSUME UNCHANGED users PROVE FALSE
  BY <1>1, <1>2
<1>3. ASSUME NEW b \in Browsers, Rehash(b) PROVE FALSE
  <2> DEFINE r == request[b]
  <2>1. /\ HashUnchanged(r)
        /\ users' = [users EXCEPT ![r.user] = WithHash(r.user, r.upgraded)]
        /\ AtStep(b, "rehash")
    BY <1>2, <1>3 DEF Rehash
  <2>2. u = r.user
    BY <1>1, <2>1 DEF TypeOK
  <2>3. users'[u].hash = r.upgraded /\ users[u].hash = r.hash
    BY <2>1, <2>2 DEF TypeOK, WithHash, HashUnchanged
  <2> QED
    BY <2>1, <2>3 DEF RehashInv
<1>4. ASSUME NEW b \in Browsers, ApplyReset(b)
      PROVE  users'[u].epoch > users[u].epoch
  <2> DEFINE r == request[b]
  <2>1. users' = [users EXCEPT ![r.user] =
          [hash |-> r.hash, epoch |-> users[r.user].epoch + 1]]
    BY <1>2, <1>4 DEF ApplyReset
  <2>2. u = r.user
    BY <1>1, <2>1 DEF TypeOK
  <2>3. users'[u].epoch = users[u].epoch + 1
    BY <2>1, <2>2 DEF TypeOK
  <2>4. users[u].epoch \in Nat
    BY DEF TypeOK, Exists, Rows
  <2> QED
    BY <2>3, <2>4
<1>5. ASSUME NEW b \in Browsers, ApplyCreate(b) PROVE FALSE
  <2>1. PICK v \in Users \ created : \E r : users' = [users EXCEPT ![v] = r]
    BY <1>2, <1>5 DEF ApplyCreate
  <2>2. u \in created
    BY DEF LoginsInv, IdsInv
  <2> QED
    BY <1>1, <2>1, <2>2 DEF TypeOK
<1>6. ASSUME NEW b \in Browsers, DeleteUser(b) PROVE FALSE
  <2>1. users' = [users EXCEPT ![request[b].user] = Absent]
    BY <1>2, <1>6 DEF DeleteUser
  <2> QED
    BY <1>1, <2>1 DEF TypeOK
<1>7. ASSUME NEW b \in Browsers,
             \/ PurgeExpired(b) \/ RejectExpired(b) \/ Verify(b)
             \/ OpenSession(b) \/ Logout(b)
      PROVE  FALSE
  BY <1>2, <1>7 DEF PurgeExpired, RejectExpired, Verify, OpenSession, Logout
<1>8. ASSUME NEW b \in Browsers, NEW v \in Users, NEW p \in Passwords,
             BeginLogin(b, v, p) \/ BeginReset(b, v, p)
      PROVE  FALSE
  BY <1>2, <1>8 DEF BeginLogin, BeginReset
<1>9. ASSUME NEW b \in Browsers, NEW n \in Names, NEW p \in Passwords,
             NEW init \in BOOLEAN, BeginCreate(b, n, p, init)
      PROVE  FALSE
  BY <1>2, <1>9 DEF BeginCreate
<1>10. ASSUME NEW b \in Browsers, NEW admin \in Admins, NEW v \in Users,
              BeginDelete(b, admin, v)
       PROVE  FALSE
  BY <1>2, <1>10 DEF BeginDelete
<1>11. CASE Tick \/ UNCHANGED vars
  BY <1>2, <1>11 DEF Tick, vars
<1> QED
  BY <1>3, <1>4, <1>5, <1>6, <1>7, <1>8, <1>9, <1>10, <1>11 DEF Next

\* The transparent upgrade of a hash never undoes a reset: a password changes in
\* a reset only.
THEOREM UpgradeKeepsPassword == Spec => OnlyResetChangesPassword
<1>1. Init => RehashInv
  BY DEF Init, RehashInv, AtStep
<1>2. IInv /\ [Next]_vars => IInv'
  BY TypeStep, LoginsStep, SessionsStep DEF IInv
<1>3. IInv => TypeOK
  BY DEF IInv
<1>4. IInv /\ RehashInv /\ [Next]_vars => [PasswordStep]_vars
  BY PasswordStepHolds
<1>5. OnlyResetChangesPassword <=> [][PasswordStep]_vars
  BY DEF OnlyResetChangesPassword, PasswordStep
<1> QED
  BY InitIInv, RehashStep, <1>1, <1>2, <1>3, <1>4, <1>5, PTL DEF Spec
=============================================================================
