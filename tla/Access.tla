------------------------------- MODULE Access -------------------------------
(***************************************************************************)
(* Who may sign in (auth.ts, webauthn.ts and the routes under api/auth,     *)
(* api/users, api/people/[id]/access and api/api-keys): the first visitor   *)
(* claimed the instance as its admin; logins are granted to people and taken *)
(* away, alone, by the offboard sweep (Offboard) or with their person, who  *)
(* is deleted for good on request; passkeys are registered and used with    *)
(* one-time challenges; a lost credential is replaced with a one-time reset *)
(* link from the command line.                                              *)
(*                                                                          *)
(* A request is a handler under way: what it has read so far is in req, and *)
(* its statements interleave with those of other requests. Deleting a user  *)
(* takes their sessions, passkeys, challenges, reset links and API keys     *)
(* along (ON DELETE CASCADE), and none of these can be added for a user who *)
(* is gone; deleting a person takes their user along. The tokens of         *)
(* sessions and links, and the bytes of challenges, are numbers nobody uses *)
(* twice. Names of logins do not collide.                                   *)
(***************************************************************************)
EXTENDS Integers, FiniteSets

CONSTANTS
  Logins,      \* ids of users, 1..n, in the order they are created
  Members,     \* people
  Requests,
  Licensed,    \* the more_admins feature
  MaxStarts,   \* bound: requests
  NoOne, NoUser, Free

User ==
  [role : {"admin", "viewer"}, person : Members \cup {NoOne}, password : BOOLEAN]

ASSUME AccessAssumption ==
  Logins = 1..Cardinality(Logins) /\ NoOne \notin Logins /\ NoUser \notin User

VARIABLES
  persons,     \* the people who have not been deleted for good
  users,       \* role, person and whether there is a password; or NoUser
  passkeys,    \* webauthn_credentials: [id, user]
  sessions,    \* [id, user]
  apiKeys,     \* api_keys that are not revoked: [id, user]
  challenges,  \* auth_challenges that have not expired: [id, kind, user]
  minted,      \* reset_tokens, unused and not expired: [id, user]
  req,         \* the requests under way
  serial,      \* the next id
  uses,        \* history: what each challenge and link was used for
  claimed,     \* history: claims that were let in
  emptied,     \* history: how often the last admin went
  erased,      \* history: how often of these with their person
  overlaps,    \* history: two removals of admins were under way at once
  starts

logged == <<persons, users, passkeys, sessions, apiKeys, challenges, minted>>
history == <<uses, claimed, emptied, erased, overlaps>>
accessVars == <<logged, req, serial, history, starts>>

Exists(u) == u \in Logins /\ users[u] # NoUser
Admins == {u \in Logins : users[u] # NoUser /\ users[u].role = "admin"}
LoginsOf(p) == {u \in Logins : users[u] # NoUser /\ users[u].person = p}
NextLogin == CHOOSE u \in Logins : u = Cardinality(uses.born) + 1
CanCreate == Cardinality(uses.born) + 1 \in Logins

isClaimed == Admins # {}

\* userFromRequest: a session or a personal API key that still exists
SignedIn(u) ==
  Exists(u) /\ \E s \in sessions \cup apiKeys : s.user = u
requireAdmin(u) == SignedIn(u) /\ users[u].role = "admin"

AccessInit ==
  /\ persons = Members
  /\ users = [u \in Logins |-> NoUser]
  /\ passkeys = {} /\ sessions = {} /\ apiKeys = {} /\ challenges = {} /\ minted = {}
  /\ req = [r \in Requests |-> Free]
  /\ serial = 1
  /\ uses = [born |-> {}, spent |-> {}, own |-> {}, twice |-> FALSE]
  /\ claimed = 0 /\ emptied = 0 /\ erased = 0 /\ overlaps = FALSE
  /\ starts \in 0..MaxStarts

Start(r, state) ==
  /\ req[r] = Free /\ starts < MaxStarts
  /\ req' = [req EXCEPT ![r] = state]
  /\ starts' = starts + 1

Go(r, state) == req' = [req EXCEPT ![r] = state] /\ UNCHANGED starts
End(r) == Go(r, Free)
At(r, step) == req[r] # Free /\ req[r].step = step

\* the challenge or link was used once more
Spend(id) ==
  uses' = [uses EXCEPT !.spent = @ \cup {id}, !.twice = @ \/ id \in uses.spent]

NewSession(u) ==
  /\ sessions' = sessions \cup {[id |-> serial, user |-> u]}
  /\ serial' = serial + 1

Deleted(u) ==
  /\ users' = [users EXCEPT ![u] = NoUser]
  /\ passkeys' = {c \in passkeys : c.user # u}
  /\ sessions' = {s \in sessions : s.user # u}
  /\ apiKeys' = {k \in apiKeys : k.user # u}
  /\ challenges' = {c \in challenges : c.user # u}
  /\ minted' = {l \in minted : l.user # u}

(***************************************************************************)
(* Challenges.                                                              *)
(***************************************************************************)
storeChallenge(kind, u) ==
  /\ starts < MaxStarts /\ starts' = starts + 1
  /\ challenges' = challenges \cup {[id |-> serial, kind |-> kind, user |-> u]}
  /\ serial' = serial + 1
  /\ UNCHANGED <<persons, users, passkeys, sessions, apiKeys, minted, req, history>>

\* mutant: the row is read, and stays
consumeChallenge_Kept(c) == UNCHANGED challenges

\* DELETE .. RETURNING: the row is gone as it is read
consumeChallenge(c) == challenges' = challenges \ {c}

SetupOptions == ~isClaimed /\ storeChallenge("registration", NoOne)
LoginOptions == isClaimed /\ storeChallenge("authentication", NoOne)
PasskeyOptions(u) == SignedIn(u) /\ storeChallenge("registration", u)

\* expires_at passes
Expired ==
  /\ \/ \E c \in challenges : challenges' = challenges \ {c} /\ UNCHANGED <<sessions, minted>>
     \/ \E l \in minted : minted' = minted \ {l} /\ UNCHANGED <<sessions, challenges>>
     \/ \E s \in sessions : sessions' = sessions \ {s} /\ UNCHANGED <<minted, challenges>>
  /\ UNCHANGED <<persons, users, passkeys, apiKeys, req, serial, history, starts>>

(***************************************************************************)
(* Claiming.                                                                *)
(***************************************************************************)
SetupPassword(r) ==
  /\ ~isClaimed
  /\ Start(r, [step |-> "claim", passkey |-> NoOne])
  /\ UNCHANGED <<logged, serial, history>>

SetupPasskey(r) ==
  /\ ~isClaimed
  /\ \E c \in challenges :
       /\ c.kind = "registration"
       /\ consumeChallenge(c) /\ Spend(c.id)
       /\ Start(r, [step |-> "claim", passkey |-> c.id])
  /\ UNCHANGED <<persons, users, passkeys, sessions, apiKeys, minted, serial, claimed, emptied, erased, overlaps>>

\* mutant: the claim trusts the check it made before it hashed the password
lockClaim_Unchecked == TRUE

\* under the lock, in the transaction of the claim
lockClaim == ~isClaimed

ClaimInstance(r) ==
  /\ At(r, "claim") /\ End(r)
  /\ IF lockClaim /\ CanCreate
     THEN /\ users' = [users EXCEPT ![NextLogin] =
               [role |-> "admin", person |-> NoOne, password |-> req[r].passkey = NoOne]]
          /\ passkeys' = IF req[r].passkey = NoOne THEN passkeys
                         ELSE passkeys \cup {[id |-> req[r].passkey, user |-> NextLogin]}
          /\ NewSession(NextLogin)
          /\ uses' = [uses EXCEPT !.born = @ \cup {NextLogin},
                        !.own = IF req[r].passkey = NoOne THEN @
                                ELSE @ \cup {<<req[r].passkey, NextLogin>>}]
          /\ claimed' = claimed + 1
     ELSE UNCHANGED <<users, passkeys, sessions, serial, uses, claimed>>
  /\ UNCHANGED <<persons, apiKeys, challenges, minted, emptied, erased, overlaps>>

(***************************************************************************)
(* Signing in and out.                                                      *)
(***************************************************************************)
\* the password is verified against the hash that was read
LoginPassword(r, u) ==
  /\ Exists(u) /\ users[u].password
  /\ Start(r, [step |-> "session", user |-> u])
  /\ UNCHANGED <<logged, serial, history>>

LoginPasskey(r) ==
  /\ \E c \in challenges :
       /\ c.kind = "authentication"
       /\ consumeChallenge(c) /\ Spend(c.id)
       /\ \E k \in passkeys : Start(r, [step |-> "assert", passkey |-> k.id])
  /\ UNCHANGED <<persons, users, passkeys, sessions, apiKeys, minted, serial, claimed, emptied, erased, overlaps>>

\* credentialById, the verification, and the counter
credentialById(r) ==
  /\ At(r, "assert")
  /\ \/ \E k \in passkeys : k.id = req[r].passkey /\ Go(r, [step |-> "session", user |-> k.user])
     \/ (\A k \in passkeys : k.id # req[r].passkey) /\ End(r)
  /\ UNCHANGED <<logged, serial, history>>

createSession(r) ==
  /\ At(r, "session") /\ End(r)
  /\ IF Exists(req[r].user) THEN NewSession(req[r].user) ELSE UNCHANGED <<sessions, serial>>
  /\ UNCHANGED <<persons, users, passkeys, apiKeys, challenges, minted, history>>

destroySession ==
  /\ \E s \in sessions : sessions' = sessions \ {s}
  /\ UNCHANGED <<persons, users, passkeys, apiKeys, challenges, minted, req, serial, history, starts>>

\* mutant: any registration challenge will do
OwnChallenge_Any(c, u) == c.kind = "registration"

OwnChallenge(c, u) == c.kind = "registration" /\ c.user = u

\* POST /api/auth/passkey/verify: the challenge is gone also if it is refused
AddPasskey(r, u) ==
  /\ SignedIn(u)
  /\ \E c \in challenges :
       /\ c.kind = "registration"
       /\ consumeChallenge(c) /\ Spend(c.id)
       /\ IF OwnChallenge(c, u)
          THEN Start(r, [step |-> "passkey", passkey |-> c.id, user |-> u, for |-> c.user])
          ELSE starts < MaxStarts /\ starts' = starts + 1 /\ UNCHANGED req
  /\ UNCHANGED <<persons, users, passkeys, sessions, apiKeys, minted, serial, claimed, emptied, erased, overlaps>>

addCredential(r) ==
  /\ At(r, "passkey") /\ End(r)
  /\ IF Exists(req[r].user)
     THEN /\ passkeys' = passkeys \cup {[id |-> req[r].passkey, user |-> req[r].user]}
          /\ uses' = [uses EXCEPT !.own = @ \cup {<<req[r].passkey, req[r].for>>}]
     ELSE UNCHANGED <<passkeys, uses>>
  /\ UNCHANGED <<persons, users, sessions, apiKeys, challenges, minted, serial, claimed, emptied, erased, overlaps>>

\* POST /api/auth/password; a user who went meanwhile is not updated
SetPassword(u) ==
  /\ SignedIn(u) /\ ~users[u].password
  /\ users' = [users EXCEPT ![u].password = TRUE]
  /\ UNCHANGED <<persons, passkeys, sessions, apiKeys, challenges, minted, req, serial, history, starts>>

mintApiKey(u) ==
  /\ SignedIn(u) /\ starts < MaxStarts /\ starts' = starts + 1
  /\ apiKeys' = apiKeys \cup {[id |-> serial, user |-> u]}
  /\ serial' = serial + 1
  /\ UNCHANGED <<persons, users, passkeys, sessions, challenges, minted, req, history>>

revokeApiKey(u) ==
  /\ SignedIn(u)
  /\ \E k \in apiKeys : k.user = u /\ apiKeys' = apiKeys \ {k}
  /\ UNCHANGED <<persons, users, passkeys, sessions, challenges, minted, req, serial, history, starts>>

(***************************************************************************)
(* Reset links.                                                              *)
(***************************************************************************)
\* reset-admin: an admin is read, their unused links go, a link is added
mintResetToken(r) ==
  \/ /\ \E u \in Admins : Start(r, [step |-> "void", user |-> u])
     /\ UNCHANGED <<logged, serial, history>>
  \/ /\ At(r, "void") /\ Go(r, [req[r] EXCEPT !.step = "link"])
     /\ minted' = {l \in minted : l.user # req[r].user}
     /\ UNCHANGED <<persons, users, passkeys, sessions, apiKeys, challenges, serial, history>>
  \/ /\ At(r, "link") /\ End(r)
     /\ IF Exists(req[r].user)
        THEN minted' = minted \cup {[id |-> serial, user |-> req[r].user]} /\ serial' = serial + 1
        ELSE UNCHANGED <<minted, serial>>
     /\ UNCHANGED <<persons, users, passkeys, sessions, apiKeys, challenges, history>>

\* the link is used up; then every session of the user goes, and one is issued
ResetConsume(r) ==
  \/ /\ \E l \in minted :
          /\ minted' = minted \ {l} /\ Spend(l.id)
          /\ Start(r, [step |-> "signout", user |-> l.user])
     /\ UNCHANGED <<persons, users, passkeys, sessions, apiKeys, challenges, serial, claimed, emptied, erased, overlaps>>
  \/ /\ At(r, "signout") /\ Go(r, [req[r] EXCEPT !.step = "session"])
     /\ sessions' = {s \in sessions : s.user # req[r].user}
     /\ UNCHANGED <<persons, users, passkeys, apiKeys, challenges, minted, serial, history>>

(***************************************************************************)
(* Taking logins away, and giving them.                                     *)
(***************************************************************************)
Removing == {r \in Requests : req[r] # Free /\ req[r].step \in {"count", "delete", "grant", "erase"}}

\* the role is read; only an admin's removal counts the admins
LookedUp(r, u) ==
  /\ Start(r, [step |-> IF users[u].role = "admin" THEN "count" ELSE "delete", user |-> u])
  /\ overlaps' = (overlaps \/ Removing # {})
  /\ UNCHANGED <<logged, serial, uses, claimed, emptied, erased>>

\* DELETE /api/users/[id]
RemoveUser(r, by, u) == requireAdmin(by) /\ Exists(u) /\ u # by /\ LookedUp(r, u)

\* PUT /api/people/[id]/access, none
AccessNone(r, by, p) ==
  requireAdmin(by) /\ \E u \in LoginsOf(p) : u # by /\ LookedUp(r, u)

\* runOffboard: by an admin, or by a directory's tick, which is nobody
OffboardLogin(r, by, p) ==
  /\ by = NoOne \/ requireAdmin(by)
  /\ \E u \in LoginsOf(p) : u # by /\ LookedUp(r, u)

\* mutant: the last admin is not looked for
LastAdmin_Never == FALSE

LastAdmin == Cardinality(Admins) <= 1

CountAdmins(r) ==
  /\ At(r, "count")
  /\ IF LastAdmin THEN End(r) ELSE Go(r, [req[r] EXCEPT !.step = "delete"])
  /\ UNCHANGED <<logged, serial, history>>

Emptied == emptied' = emptied + (IF Admins # {} /\ Admins' = {} THEN 1 ELSE 0)

DeleteUser(r) ==
  /\ At(r, "delete") /\ End(r)
  /\ Deleted(req[r].user) /\ Emptied
  /\ UNCHANGED <<persons, serial, uses, claimed, erased, overlaps>>

\* DELETE /api/people/[id]: an admin deletes a person for good
HardDelete(r, by, p) ==
  /\ requireAdmin(by) /\ p \in persons
  /\ Start(r, [step |-> "erase", person |-> p])
  /\ overlaps' = (overlaps \/ Removing # {})
  /\ UNCHANGED <<logged, serial, uses, claimed, emptied, erased>>

\* hardDeletePerson's last statement: the person's login goes with them, also
\* the admin's own and the last one (users.person_id ON DELETE CASCADE)
hardDeletePerson(r) ==
  /\ At(r, "erase") /\ End(r)
  /\ persons' = persons \ {req[r].person}
  /\ IF LoginsOf(req[r].person) = {}
     THEN UNCHANGED <<users, passkeys, sessions, apiKeys, challenges, minted>>
     ELSE \E u \in LoginsOf(req[r].person) : Deleted(u)
  /\ Emptied
  /\ erased' = erased + (emptied' - emptied)
  /\ UNCHANGED <<serial, uses, claimed, overlaps>>

\* PUT /api/people/[id]/access, viewer or admin: the login is read, the license
\* looked at and the password hashed before the row is written
AccessRole(r, by, p, role) ==
  /\ requireAdmin(by) /\ p \in persons
  /\ LET current == LoginsOf(p) IN
       /\ by \notin current
       /\ role = "admin" /\ (\A u \in current : users[u].role # "admin") => Licensed
       /\ Start(r, [step |-> "grant", person |-> p, role |-> role,
                    user |-> IF current = {} THEN NoOne ELSE CHOOSE u \in current : TRUE])
  /\ overlaps' = (overlaps \/ Removing # {})
  /\ UNCHANGED <<logged, serial, uses, claimed, emptied, erased>>

Grant(r) ==
  /\ At(r, "grant") /\ End(r)
  /\ LET u == req[r].user
         add == /\ u = NoOne /\ req[r].person \in persons
                /\ LoginsOf(req[r].person) = {} /\ CanCreate
     IN  /\ users' = IF add
                     THEN [users EXCEPT ![NextLogin] =
                       [role |-> req[r].role, person |-> req[r].person, password |-> TRUE]]
                     ELSE IF Exists(u) THEN [users EXCEPT ![u].role = req[r].role]
                     ELSE users
         /\ uses' = IF add THEN [uses EXCEPT !.born = @ \cup {NextLogin}] ELSE uses
  /\ Emptied
  /\ UNCHANGED <<persons, passkeys, sessions, apiKeys, challenges, minted, serial, claimed, erased, overlaps>>

AccessNext ==
  \/ SetupOptions \/ LoginOptions \/ Expired \/ destroySession
  \/ \E u \in Logins : PasskeyOptions(u) \/ SetPassword(u) \/ mintApiKey(u) \/ revokeApiKey(u)
  \/ \E r \in Requests :
       \/ SetupPassword(r) \/ SetupPasskey(r) \/ ClaimInstance(r)
       \/ LoginPasskey(r) \/ credentialById(r) \/ createSession(r) \/ addCredential(r)
       \/ mintResetToken(r) \/ ResetConsume(r)
       \/ CountAdmins(r) \/ DeleteUser(r) \/ Grant(r) \/ hardDeletePerson(r)
       \/ \E u \in Logins : LoginPassword(r, u) \/ AddPasskey(r, u)
       \/ \E by \in Logins, u \in Logins : RemoveUser(r, by, u)
       \/ \E by \in Logins, p \in Members :
            \/ AccessNone(r, by, p) \/ OffboardLogin(r, by, p) \/ HardDelete(r, by, p)
            \/ \E role \in {"admin", "viewer"} : AccessRole(r, by, p, role)
       \/ \E p \in Members : OffboardLogin(r, NoOne, p)

(***************************************************************************)
(* Properties.                                                              *)
(***************************************************************************)
\* However many visitors claim at once, one is let in; nobody else is until the
\* instance has no admin left (auth.ts: "the race loser sees the winner's
\* committed admin").
ClaimedOnce == claimed <= 1 + emptied

\* The last admin never goes by one removal or demotion alone, whether asked
\* for on the Users list, on a person's page or by the offboard sweep. It goes
\* when two cross, or when the person whose login it is is deleted for good.
AdminStays == emptied > erased => overlaps

\* A challenge or reset link lets in one request, however often it is sent and
\* whatever it is sent along with.
UsedOnce == ~uses.twice

\* A passkey belongs to the user its challenge was made for, or to the admin
\* who claimed the instance with it.
PasskeysAreOwn == \A k \in passkeys : <<k.id, k.user>> \in uses.own

AccessHolds == ClaimedOnce /\ AdminStays /\ UsedOnce /\ PasskeysAreOwn

\* An instance that was claimed has an admin (users/[id]/route.ts: "Never the
\* last admin"). It fails: two admins remove each other at once, or one deletes
\* the person of the only admin, and the login with it.
AlwaysAnAdmin == emptied = 0
=============================================================================
