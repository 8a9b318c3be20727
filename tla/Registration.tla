---------------------------- MODULE Registration ----------------------------
(***************************************************************************)
(* How accounts come to be: internal/httpapi auth.go and admin.go over     *)
(* internal/store users.go, invites.go and settings.go.                    *)
(*                                                                         *)
(* A request is a goroutine that reads the database, computes a password   *)
(* hash for a while and then runs one transaction; other requests and the  *)
(* administrators may do anything between these steps.  SQLite runs one    *)
(* transaction at a time and the store has one connection, so a            *)
(* transaction is one step.  What an account may do is the subject of      *)
(* AccountAccess.                                                          *)
(***************************************************************************)
EXTENDS Integers, FiniteSets

CONSTANTS
    Users, Invites,
    Requests,       \* the requests that run at a time
    None,
    HashSlots,      \* config.AuthHashConcurrency
    MaxRevision     \* bound: changes of the registration settings

\* What the constants have to be: an instance assumes it.
RegistrationAssumption ==
    /\ HashSlots \in Nat \ {0} /\ MaxRevision \in Nat /\ None \notin Users \cup Invites
    /\ {"none", "open", "closed"} \cap Users = {}

VARIABLES
    exists,     \* the users that are rows
    root,       \* the users with the role admin
    invite,     \* "none", "open", "closed" (revoked or expired) or its user
    mode,       \* instance_settings.registration
    revision,   \* instance_settings.revision
    join        \* the requests

rows == <<exists, root, invite, mode, revision>>
registrationVars == <<rows, join>>

At == {"idle", "hashing", "hashed"}
Idle == [op |-> "register", at |-> "idle", user |-> None, seen |-> 0, by |-> None]

\* The types of all variables.
RegistrationTypeOK ==
    /\ root \subseteq exists /\ exists \subseteq Users
    /\ invite \in [Invites -> {"none", "open", "closed"} \cup Users]
    /\ mode \in {"closed", "invite"} /\ revision \in 0..MaxRevision
    /\ join \in [Requests -> [op : {"bootstrap", "register", "login"}, at : At,
                              user : Users \cup {None}, seen : Nat,
                              by : Invites \cup {None}]]

RegistrationInit ==
    /\ exists = {} /\ root = {}
    /\ invite = [i \in Invites |-> "none"]
    /\ mode = "invite" /\ revision = 0
    /\ join = [r \in Requests |-> Idle]

Becomes(r, state) == join' = [join EXCEPT ![r] = state]
Stops(r) == Becomes(r, Idle)

Hashing(ops) == {r \in Requests : join[r].at = "hashing" /\ join[r].op \in ops}

\* hashSlot: a request that finds no slot is answered "busy".
Slot(op) ==
    /\ Cardinality(Hashing({"bootstrap", "register", "login"})) < HashSlots
    /\ op # "login" => Hashing({"bootstrap", "register"}) = {}

BeginBootstrap(r, u) ==
    /\ join[r].at = "idle" /\ exists = {} /\ Slot("bootstrap")
    /\ Becomes(r, [Idle EXCEPT !.op = "bootstrap", !.at = "hashing", !.user = u])
    /\ UNCHANGED rows

BeginRegister(r, u, i) ==
    /\ join[r].at = "idle" /\ u \notin exists
    /\ mode = "invite" /\ invite[i] = "open" /\ Slot("register")
    /\ Becomes(r, [op |-> "register", at |-> "hashing", user |-> u,
                   seen |-> revision, by |-> i])
    /\ UNCHANGED rows

\* Logins and changes of a password take slots too.
BeginLogin(r) ==
    /\ join[r].at = "idle" /\ Slot("login")
    /\ Becomes(r, [Idle EXCEPT !.op = "login", !.at = "hashing"])
    /\ UNCHANGED rows

\* The slot is given back.
Hashed(r) ==
    /\ join[r].at = "hashing"
    /\ IF join[r].op = "login" THEN Stops(r) ELSE join' = [join EXCEPT ![r].at = "hashed"]
    /\ UNCHANGED rows

\* BootstrapUser counts the users again.
Bootstrap(r) ==
    LET u == join[r].user IN
    /\ join[r].at = "hashed" /\ join[r].op = "bootstrap" /\ Stops(r)
    /\ IF exists = {} THEN exists' = {u} /\ root' = {u} /\ UNCHANGED <<invite, mode, revision>>
                      ELSE UNCHANGED rows

\* Fault: what the request read about its invite is not read again.
MayRegisterEarlier(r) == join[r].user \notin exists

\* requireRegistrationTx, the invite and the unique email, all in one
\* transaction.
MayRegister(r) ==
    /\ mode = "invite" /\ revision = join[r].seen
    /\ invite[join[r].by] = "open" /\ join[r].user \notin exists

Register(r) ==
    LET u == join[r].user IN
    /\ join[r].at = "hashed" /\ join[r].op = "register" /\ Stops(r)
    /\ IF MayRegister(r)
       THEN /\ exists' = exists \cup {u}
            /\ invite' = [invite EXCEPT ![join[r].by] = u]
            /\ UNCHANGED <<root, mode, revision>>
       ELSE UNCHANGED rows

\* An administrator makes an invite ...
CreateInvite(i) ==
    /\ root # {} /\ invite[i] = "none"
    /\ invite' = [invite EXCEPT ![i] = "open"]
    /\ UNCHANGED <<exists, root, mode, revision, join>>

\* ... and revokes it, or its seven days are over.
CloseInvite(i) ==
    /\ invite[i] = "open" /\ invite' = [invite EXCEPT ![i] = "closed"]
    /\ UNCHANGED <<exists, root, mode, revision, join>>

\* SetRegistration with the revision the page shows.
SetRegistration(m) ==
    /\ root # {} /\ revision < MaxRevision
    /\ mode' = m /\ revision' = revision + 1
    /\ UNCHANGED <<exists, root, invite, join>>

RegistrationNext ==
    \/ \E r \in Requests :
          \/ BeginLogin(r) \/ Hashed(r) \/ Bootstrap(r) \/ Register(r)
          \/ \E u \in Users : \/ BeginBootstrap(r, u)
                               \/ \E i \in Invites : BeginRegister(r, u, i)
    \/ \E i \in Invites : CreateInvite(i) \/ CloseInvite(i)
    \/ \E m \in {"closed", "invite"} : SetRegistration(m)

RegistrationSpec == RegistrationInit /\ [][RegistrationNext]_registrationVars
-----------------------------------------------------------------------------
\* Bootstraps and registrations that overlap, before, during and after a
\* change of the settings, make one administrator, and one user per invite.
AccountsAreAdmitted ==
    /\ Cardinality(root) <= 1
    /\ \A u \in exists \ root : \E i \in Invites : invite[i] = u

\* A request that hashes for an account names its user and its invite.
JoinFits(r) ==
    join[r].at # "idle" =>
        /\ join[r].op # "login" => join[r].user \in Users
        /\ join[r].op = "register" => join[r].by \in Invites

\* The inductive invariant.
RegistrationInv ==
    /\ RegistrationTypeOK
    /\ \A u, v \in root : u = v
    /\ \A u \in exists \ root : \E i \in Invites : invite[i] = u
    /\ \A r \in Requests : JoinFits(r)
=============================================================================
