---------------------------- MODULE AccountAccess ----------------------------
(***************************************************************************)
(* What an account may do now: the logins and the access leases of one     *)
(* website, internal/httpapi access.go, auth.go, password.go and admin.go  *)
(* over internal/store access.go and password.go.                          *)
(*                                                                         *)
(* A request of a logged in user, and a push job of the server (sess =     *)
(* Nil), holds an access lease.   It reads the database, may compute or    *)
(* verify a password hash for a while, and runs transactions; anything may *)
(* happen between these steps.  Attaching a lease and every change that    *)
(* takes access away pass through the gate of the user; the lookups before *)
(* do not.                                                                 *)
(*                                                                         *)
(* SQLite runs one transaction at a time and the store has one connection, *)
(* so a transaction is one step.  A transaction begins only while the      *)
(* context of its request is alive, that is, while its lease is.  A        *)
(* password stands for its hash: a number that grows with each change.     *)
(* How the accounts came to be, and the slots of the hashes, are in        *)
(* Registration.                                                           *)
(***************************************************************************)
EXTENDS Integers, FiniteSets

CONSTANTS
    Users, Sessions,
    Root,           \* the user with the role admin
    Requests,       \* the requests and jobs that run at a time
    Nil,
    MaxHash         \* bound: password changes of a user

\* What the constants have to be: an instance assumes it.
AccessAssumption ==
    /\ Root \in Users /\ MaxHash \in Nat
    /\ Nil \notin Users \cup Sessions \cup Requests \cup {"gone"}
    /\ "gone" \notin Users

VARIABLES
    account,    \* users: "on" or "off" (disabled)
    hash,       \* password_hash
    must,       \* must_change_password
    userOf,     \* the user of a session; Nil before it is made, "gone" after
    gate,       \* who holds the gate of the user
    ends,       \* leases that a committed change is about to cancel
    req         \* the requests

accountVars == <<account, hash, must, userOf>>
accessVars == <<accountVars, gate, ends, req>>

LeaseOps == {"password", "reset", "call", "push"}
Exempt == {"password"}
At == {"idle", "hashing", "hashed", "issue", "looked", "checked", "live", "canceled"}

Idle == [op |-> "call", at |-> "idle", user |-> Nil, sess |-> Nil,
         seen |-> 0, target |-> Nil]

\* The types of all variables.
AccessTypeOK ==
    /\ account \in [Users -> {"on", "off"}]
    /\ hash \in [Users -> 0..MaxHash] /\ must \in [Users -> BOOLEAN]
    /\ userOf \in [Sessions -> Users \cup {Nil, "gone"}]
    /\ gate \in [Users -> Requests \cup {Nil}]
    /\ ends \in [Users -> SUBSET Requests]
    /\ req \in [Requests -> [op : LeaseOps \cup {"login"}, at : At, user : Users \cup {Nil},
                             sess : Sessions \cup {Nil}, seen : Nat,
                             target : Users \cup {Nil}]]

AccessInit ==
    /\ account = [u \in Users |-> "on"]
    /\ hash = [u \in Users |-> 0] /\ must = [u \in Users |-> FALSE]
    /\ userOf = [s \in Sessions |-> Nil]
    /\ gate = [u \in Users |-> Nil] /\ ends = [u \in Users |-> {}]
    /\ req = [r \in Requests |-> Idle]

Becomes(r, state) == req' = [req EXCEPT ![r] = state]
Moves(r, at) == req' = [req EXCEPT ![r].at = at]
Stops(r) == Becomes(r, Idle)

Valid(s, u) == userOf[s] = u /\ account[u] = "on"
\* UserEnabled for a push job, SessionAccess for a request.
Admitted(r) ==
    IF req[r].sess = Nil THEN account[req[r].user] = "on"
                          ELSE Valid(req[r].sess, req[r].user)
Live(r) == req[r].at \in {"live", "hashing", "hashed"} /\ req[r].op \in LeaseOps

\* UserByEmail, before the password is verified.
BeginLogin(r, u) ==
    /\ req[r].at = "idle" /\ account[u] = "on"
    /\ Becomes(r, [Idle EXCEPT !.op = "login", !.at = "hashing", !.user = u])
    /\ UNCHANGED <<accountVars, gate, ends>>

\* A wrong password ends a login or a change.
Hashed(r) ==
    /\ req[r].at = "hashing"
    /\ \/ Moves(r, IF req[r].op = "login" THEN "issue" ELSE "hashed")
       \/ req[r].op = "login" /\ Stops(r)
       \/ req[r].op = "password" /\ Moves(r, "live")
    /\ UNCHANGED <<accountVars, gate, ends>>

\* The session is inserted from the row of an enabled user.
CreateSession(s, u) ==
    userOf' = IF account[u] = "on" THEN [userOf EXCEPT ![s] = u] ELSE userOf

\* issueSession, under the gate, with a token that is new.
Issue(r) ==
    LET u == req[r].user
        unused == {s \in Sessions : userOf[s] = Nil} IN
    /\ req[r].at = "issue" /\ gate[u] = Nil /\ unused # {}
    /\ CreateSession(CHOOSE s \in unused : TRUE, u) /\ Stops(r)
    /\ UNCHANGED <<account, hash, must, gate, ends>>

(***************************************************************************)
(* Access leases                                                           *)
(***************************************************************************)
\* The user of a session as it is now, as lookupSession reads it.
FindsUser(s, u) == userOf[s] = u /\ account[u] = "on"

\* authenticate: the lookup, and the forced change of a reset password.
Lookup(r, op, s) ==
    /\ req[r].at = "idle" /\ op \in {"password", "reset", "call"}
    /\ \E u \in Users :
          /\ FindsUser(s, u)
          /\ must[u] => op \in Exempt
          /\ op = "reset" => u = Root
          /\ Becomes(r, [Idle EXCEPT !.op = op, !.at = "looked", !.user = u,
                                     !.sess = s, !.seen = hash[u]])
    /\ UNCHANGED <<accountVars, gate, ends>>

\* A push job is made from the subscriptions of the host's owner.
StartPush(r, u) ==
    /\ req[r].at = "idle" /\ account[u] = "on"
    /\ Becomes(r, [Idle EXCEPT !.op = "push", !.at = "looked", !.user = u])
    /\ UNCHANGED <<accountVars, gate, ends>>

\* Fault: the database is asked before the gate is taken.
AttachCheckUngated(r) ==
    /\ req[r].at = "looked"
    /\ IF Admitted(r) THEN Moves(r, "checked") ELSE Stops(r)
    /\ UNCHANGED <<accountVars, gate, ends>>

\* attach asks the database under the gate ...
AttachCheck(r) ==
    LET u == req[r].user IN
    /\ req[r].at = "looked" /\ gate[u] = Nil
    /\ IF Admitted(r) THEN Moves(r, "checked") /\ gate' = [gate EXCEPT ![u] = r]
                      ELSE Stops(r) /\ UNCHANGED gate
    /\ UNCHANGED <<accountVars, ends>>

\* ... and enters the lease before it leaves the gate.
AttachEnter(r) ==
    /\ req[r].at = "checked" /\ Moves(r, "live")
    /\ gate' = [u \in Users |-> IF gate[u] = r THEN Nil ELSE gate[u]]
    /\ UNCHANGED <<accountVars, ends>>

Release(r) ==
    /\ req[r].at \in {"live", "canceled"} /\ \A u \in Users : gate[u] # r
    /\ Stops(r)
    /\ UNCHANGED <<accountVars, gate, ends>>

\* The deadline of the leases of a session is the session's.
ExpireLogin(s) ==
    /\ userOf[s] \in Users /\ gate[userOf[s]] = Nil
    /\ userOf' = [userOf EXCEPT ![s] = "gone"]
    /\ req' = [r \in Requests |-> IF Live(r) /\ req[r].sess = s
                                  THEN [req[r] EXCEPT !.at = "canceled"] ELSE req[r]]
    /\ UNCHANGED <<account, hash, must, gate, ends>>

(***************************************************************************)
(* Changes that take access away.  changeMatching commits under the gate   *)
(* and then cancels the leases that match.                                 *)
(***************************************************************************)
LeasesOf(u) == {r \in Requests : Live(r) /\ req[r].user = u}
SessionsOf(u) == {s \in Sessions : userOf[s] = u}

\* The transaction: the sessions of gone end, the leases of out will.
Takes(r, u, gone, out) ==
    /\ gate[u] = Nil /\ gate' = [gate EXCEPT ![u] = r]
    /\ ends' = [ends EXCEPT ![u] = out]
    /\ userOf' = [s \in Sessions |-> IF s \in gone THEN "gone" ELSE userOf[s]]

CancelLeases(u) ==
    /\ gate[u] # Nil /\ req[gate[u]].at # "checked"
    /\ gate' = [gate EXCEPT ![u] = Nil] /\ ends' = [ends EXCEPT ![u] = {}]
    /\ req' = [r \in Requests |-> IF r \in ends[u] \cap LeasesOf(u)
                                  THEN [req[r] EXCEPT !.at = "canceled"] ELSE req[r]]
    /\ UNCHANGED accountVars

\* changePassword and resetUserPassword hash the new password first.
BeginHash(r, u) ==
    /\ req[r].at = "live" /\ req[r].op \in {"password", "reset"}
    /\ req[r].op = "reset" => u # req[r].user
    /\ req[r].op = "password" => u = req[r].user
    /\ req' = [req EXCEPT ![r].at = "hashing", ![r].target = u]
    /\ UNCHANGED <<accountVars, gate, ends>>

\* ChangePassword: the kept session exists and the hash is the verified one.
MayChange(r) ==
    /\ Valid(req[r].sess, req[r].user) /\ hash[req[r].user] = req[r].seen

ChangePassword(r) ==
    LET u == req[r].user
        s == req[r].sess IN
    /\ req[r].at = "hashed" /\ req[r].op = "password" /\ gate[u] = Nil /\ hash[u] < MaxHash
    /\ IF MayChange(r)
       THEN /\ Takes(r, u, SessionsOf(u) \ {s}, {l \in LeasesOf(u) : req[l].sess # s})
            /\ hash' = [hash EXCEPT ![u] = @ + 1] /\ must' = [must EXCEPT ![u] = FALSE]
       ELSE UNCHANGED <<userOf, hash, must, gate, ends>>
    /\ Moves(r, "live")
    /\ UNCHANGED account

\* Fault: the logins that exist when the password is reset stay.
ResetKeepsLogins(r) ==
    LET u == req[r].target IN
    /\ req[r].at = "hashed" /\ req[r].op = "reset" /\ hash[u] < MaxHash
    /\ Takes(r, u, {}, {})
    /\ hash' = [hash EXCEPT ![u] = @ + 1] /\ must' = [must EXCEPT ![u] = TRUE]
    /\ Moves(r, "live")
    /\ UNCHANGED account

ResetPassword(r) ==
    LET u == req[r].target IN
    /\ req[r].at = "hashed" /\ req[r].op = "reset" /\ hash[u] < MaxHash
    /\ Takes(r, u, SessionsOf(u), LeasesOf(u))
    /\ hash' = [hash EXCEPT ![u] = @ + 1] /\ must' = [must EXCEPT ![u] = TRUE]
    /\ Moves(r, "live")
    /\ UNCHANGED account

\* A request of an administrator whose account is still enabled.
Administers(r) ==
    /\ req[r].at = "live" /\ req[r].op = "call" /\ req[r].user = Root
    /\ account[req[r].user] = "on"

\* SetUserDisabled and endUserAccessTx: never oneself, which keeps the last administrator too.
Disable(r, u) ==
    /\ Administers(r) /\ u # req[r].user
    /\ Takes(r, u, SessionsOf(u), LeasesOf(u))
    /\ account' = [account EXCEPT ![u] = "off"]
    /\ UNCHANGED <<hash, must, req>>

Enable(r, u) ==
    /\ Administers(r) /\ account[u] = "off"
    /\ account' = [account EXCEPT ![u] = "on"]
    /\ UNCHANGED <<hash, must, userOf, gate, ends, req>>

\* RevokeUserSessions, for all sessions of a user or one.
MayRevoke(r, u, gone) ==
    Administers(r) /\ gone \in {SessionsOf(u)} \cup {{s} : s \in SessionsOf(u)}

\* logout deletes the session of its request.
MayLogOut(r, u, gone) ==
    req[r].at = "live" /\ req[r].user = u /\ gone = {req[r].sess}

Revoke(r, u, gone) ==
    /\ MayRevoke(r, u, gone) \/ MayLogOut(r, u, gone)
    /\ gone # {} /\ gone \subseteq SessionsOf(u)
    /\ Takes(r, u, gone, {l \in LeasesOf(u) : req[l].sess \in gone})
    /\ UNCHANGED <<account, hash, must, req>>

RequestStep(r) ==
    \/ \E u \in Users : \/ BeginLogin(r, u) \/ StartPush(r, u)
                        \/ BeginHash(r, u) \/ Disable(r, u) \/ Enable(r, u)
                        \/ \E gone \in SUBSET Sessions : Revoke(r, u, gone)
    \/ \E s \in Sessions, op \in LeaseOps : Lookup(r, op, s)
    \/ Issue(r) \/ Hashed(r) \/ AttachCheck(r) \/ AttachEnter(r)
    \/ Release(r) \/ ChangePassword(r) \/ ResetPassword(r)

AccessNext ==
    \/ \E r \in Requests : RequestStep(r)
    \/ \E s \in Sessions : ExpireLogin(s)
    \/ \E u \in Users : CancelLeases(u)

AccessSpec == AccessInit /\ [][AccessNext]_accessVars
-----------------------------------------------------------------------------
\* Access that is taken away is gone when the gate opens: a disabled user has
\* no login, and a lease that lives has a login that does, whatever the
\* request or job read before it came to the gate.
AccessIsCurrent ==
    \A u \in Users :
        /\ account[u] = "off" => SessionsOf(u) = {}
        /\ gate[u] = Nil => \A r \in LeasesOf(u) : Admitted(r)

\* After an administrator has reset a password, requests of the user are
\* served again only after the user has changed it: none that looked its
\* session up before the reset comes through.
ResetIsEnforced ==
    \A u \in Users : must[u] /\ gate[u] = Nil =>
        \A r \in LeasesOf(u) : req[r].op \in Exempt \cup {"push"}

\* What a user may do follows the account, also in the middle of a change.
AccessFollowsAccounts == AccessIsCurrent /\ ResetIsEnforced

\* The strengthening that makes them inductive.  A request is where its kind
\* of request can be, and its login is that of its user for ever;
RequestFits(r) ==
    /\ IF req[r].at = "idle" THEN req[r].sess = Nil ELSE req[r].user \in Users
    /\ req[r].op = "login" => req[r].at \in {"hashing", "issue"} /\ req[r].sess = Nil
    /\ req[r].op \in {"password", "reset"} => req[r].sess # Nil
    /\ req[r].op = "call" /\ req[r].at # "idle" => req[r].sess # Nil
    /\ req[r].op = "push" => req[r].sess = Nil
    /\ req[r].op = "reset" /\ req[r].at \in {"hashing", "hashed"} => req[r].target \in Users
    /\ req[r].sess # Nil => userOf[req[r].sess] \in {req[r].user, "gone"}

\* one that attaches holds the gate of its user since the database admitted
\* it, and none that looked up a login before a reset has that login still;
AttachFits(r) ==
    /\ req[r].at = "checked" =>
          gate[req[r].user] = r /\ ends[req[r].user] = {} /\ Admitted(r)
    /\ /\ req[r].at \in {"looked", "checked"} /\ req[r].sess # Nil
       /\ userOf[req[r].sess] = req[r].user /\ must[req[r].user]
       => req[r].op \in Exempt

\* a gate is held by a request that attaches or by one that was served;
GateFits(u) ==
    IF gate[u] = Nil THEN ends[u] = {}
    ELSE /\ req[gate[u]].op \in LeaseOps
         /\ \/ req[gate[u]].at = "checked" /\ req[gate[u]].user = u
            \/ req[gate[u]].at \in {"live", "hashing", "hashed", "canceled"}

\* and every lease of a user is one it may have now, or about to be canceled
\* by the request that holds the gate.
LeasesFit(u) ==
    \A r \in LeasesOf(u) : r \notin ends[u] =>
        Admitted(r) /\ (must[u] => req[r].op \in Exempt \cup {"push"})

AccessInv ==
    /\ AccessTypeOK
    /\ \A r \in Requests : RequestFits(r) /\ AttachFits(r)
    /\ \A u \in Users :
          GateFits(u) /\ LeasesFit(u) /\ (account[u] = "off" => SessionsOf(u) = {})
=============================================================================
