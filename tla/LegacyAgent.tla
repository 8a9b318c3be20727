---------------------------- MODULE LegacyAgent ----------------------------
(***************************************************************************)
(* The configuration file of the controlled host and those who change it:  *)
(* internal/agentcli/store.go, config.go and cli.go, and the SSH server    *)
(* of internal/agent/sshserver.go, which serves hosts paired the old way.  *)
(*                                                                         *)
(* A daemon holds the file's lock for its lifetime and keeps the file in   *)
(* memory; commands ask the daemon, and change the file themselves, under  *)
(* the lock, when no daemon answers.  Connections read the file again for  *)
(* each request.  Processes end at any time, and so does the power.        *)
(***************************************************************************)
EXTENDS Naturals, FiniteSets

CONSTANTS
    Commands,   \* processes of the command line
    Conns,      \* SSH connections of the website
    None,
    MaxId,      \* bound: identities that are made
    MaxTokens   \* bound: pairing tokens that are issued

VARIABLES
    file,       \* the configuration at its path
    durable,    \* what a power failure leaves at the path
    holder,     \* who holds the lock of the file
    daemon,     \* the daemon's state; update: the store.Update under way
    memory,     \* StateStore.cached of the daemon
    command,    \* where each command stands
    conn,       \* SSH connections: who they are and what they do
    lastId,
    lastToken,
    unpaired    \* ghost: the identity that was last reported revoked

agentVars == <<file, durable, holder, daemon, memory, command, conn, lastId, lastToken, unpaired>>

Ops == {"setup", "init", "force", "pair", "unpair"}
Quiet == [by |-> None, op |-> "none", token |-> 0, saved |-> FALSE]
Idle == [op |-> "none", at |-> "idle"]
Closed == [at |-> "none", id |-> 0, paired |-> FALSE, token |-> 0]
Empty == [id |-> 0, keys |-> FALSE, paired |-> FALSE, revoked |-> FALSE, token |-> 0]

\* agent.Decode: a file without an identity is incomplete.
Loads(f) == f # None /\ f.id # 0

Configurations == [id : Nat, keys : BOOLEAN, paired : BOOLEAN, revoked : BOOLEAN, token : Nat]
Stages == {"idle", "look", "migrate", "copy", "ask", "asked", "lock", "change", "sync"}

\* What is assumed of the constants.
AgentAssumption ==
    /\ MaxId \in Nat /\ MaxTokens \in Nat
    /\ None \notin Configurations \cup Commands \cup {"daemon"} /\ "daemon" \notin Commands

\* The types of all variables.
AgentTypeOK ==
    /\ lastId \in 0..MaxId /\ lastToken \in 0..MaxTokens /\ unpaired \in 0..lastId
    /\ \A f \in {file, durable, memory} :
        f = None \/ (f \in Configurations /\ f.id \in 0..lastId /\ f.token \in 0..lastToken)
    /\ holder \in {None, "daemon"} \cup Commands
    /\ daemon \in [at : {"off", "starting", "up"}, serves : Nat,
                   update : [by : {None} \cup Commands \cup Conns, op : {"none", "pair", "unpair", "confirm"},
                             token : 0..MaxTokens, saved : BOOLEAN]]
    /\ command \in [Commands -> [op : Ops \cup {"none"}, at : Stages]]
    /\ conn \in [Conns -> [at : {"none", "open", "runs", "confirm"}, id : 0..MaxId, paired : BOOLEAN,
                           token : 0..MaxTokens]]

AgentInit ==
    /\ file = None /\ durable = None /\ holder = None /\ memory = None
    /\ daemon = [at |-> "off", serves |-> 0, update |-> Quiet]
    /\ command = [c \in Commands |-> Idle] /\ conn = [k \in Conns |-> Closed]
    /\ lastId = 0 /\ lastToken = 0 /\ unpaired = 0

(***************************************************************************)
(* What the mutators of Update make of the file                            *)
(***************************************************************************)
Loaded == IF file = None THEN Empty ELSE file

\* Fault: setup trusts the look it had at the file before it took the lock.
TrustsItsLook(op, token) == op = "confirm" => Loaded.token = token

\* Fault: the token of the pairing is not compared again in Update.
AnyToken(op, token) == op = "setup" => Loaded.id = 0

Accepted(op, token) ==
    CASE op = "setup" -> Loaded.id = 0
      [] op = "confirm" -> Loaded.token = token
      [] OTHER -> TRUE

Changed(op, token) ==
    CASE op = "setup" -> [Empty EXCEPT !.id = lastId + 1]
      [] op = "init" -> [Loaded EXCEPT !.id = lastId + 1, !.keys = TRUE, !.paired = FALSE, !.revoked = FALSE]
      [] op = "pair" -> [Loaded EXCEPT !.paired = FALSE, !.token = lastToken + 1]
      [] op = "unpair" -> [Loaded EXCEPT !.paired = FALSE, !.revoked = TRUE, !.token = 0]
      [] op = "confirm" -> [Loaded EXCEPT !.paired = TRUE, !.revoked = FALSE, !.token = 0]

MakesId(op) == op \in {"setup", "init"}
WithinBounds(op) == (MakesId(op) => lastId < MaxId) /\ (op = "pair" => lastToken < MaxTokens)

\* The rename of SafeSaveConfig.
Saves(op, token) ==
    /\ WithinBounds(op) /\ (file = None \/ Loads(file)) /\ Accepted(op, token)
    /\ file' = Changed(op, token)
    /\ lastId' = (IF MakesId(op) THEN lastId + 1 ELSE lastId)
    /\ lastToken' = (IF op = "pair" THEN lastToken + 1 ELSE lastToken)

Done(c, op) == unpaired' = IF op = "unpair" THEN file.id ELSE unpaired
CommandEnds(c) == command' = [command EXCEPT ![c] = Idle]
CommandGoes(c, step) == command' = [command EXCEPT ![c].at = step]

(***************************************************************************)
(* The commands                                                            *)
(***************************************************************************)
Begin(c) ==
    /\ command[c].at = "idle"
    /\ \E op \in Ops : command' = [command EXCEPT ![c] = [op |-> op, at |-> IF op \in {"pair", "unpair"} THEN "ask" ELSE "look"]]
    /\ UNCHANGED <<file, durable, holder, daemon, memory, conn, lastId, lastToken, unpaired>>

\* agent.Exists: setup uses the identity that is there, init refuses without
\* --force.
Look(c) ==
    LET op == command[c].op IN
    /\ command[c].at = "look"
    /\ IF file # None /\ op # "force" THEN CommandEnds(c)
       ELSE command' = [command EXCEPT ![c] = IF op = "setup" THEN [op |-> op, at |-> "migrate"] ELSE [op |-> "init", at |-> "lock"]]
    /\ UNCHANGED <<file, durable, holder, daemon, memory, conn, lastId, lastToken, unpaired>>

\* MigrateFromLegacy: under the lock, if the file is still not there.
Migrate(c) ==
    /\ command[c].at = "migrate"
    /\ \/ holder = None /\ file = None /\ holder' = c /\ CommandGoes(c, "copy")
       \/ CommandEnds(c) /\ UNCHANGED holder
    /\ UNCHANGED <<file, durable, daemon, memory, conn, lastId, lastToken, unpaired>>

\* There is an old identity, paired or revoked, and its daemon is stopped.
Copy(c) ==
    /\ command[c].at = "copy" /\ lastId < MaxId /\ lastId' = lastId + 1 /\ CommandGoes(c, "sync")
    /\ \E revoked \in BOOLEAN, paired \in BOOLEAN :
        /\ ~ (revoked /\ paired)
        /\ file' = [Empty EXCEPT !.id = lastId + 1, !.keys = TRUE, !.paired = paired, !.revoked = revoked]
    /\ UNCHANGED <<durable, holder, daemon, memory, conn, lastToken, unpaired>>

NothingToCopy(c) ==
    /\ command[c].at = "copy" /\ CommandGoes(c, "lock") /\ holder' = None
    /\ UNCHANGED <<file, durable, daemon, memory, conn, lastId, lastToken, unpaired>>

\* The old service is customized, runs, or its file is in use.
MigrationRefused(c) ==
    /\ command[c].at = "copy" /\ CommandEnds(c) /\ holder' = None
    /\ UNCHANGED <<file, durable, daemon, memory, conn, lastId, lastToken, unpaired>>

\* ClientCallIPC: the daemon answers, refuses, or is offline.
Ask(c) ==
    /\ command[c].at = "ask"
    /\ IF daemon.at = "up"
       THEN /\ daemon.update.op = "none" /\ CommandGoes(c, "asked")
            /\ daemon' = [daemon EXCEPT !.update = [Quiet EXCEPT !.by = c, !.op = command[c].op]]
       ELSE CommandGoes(c, "lock") /\ UNCHANGED daemon
    /\ UNCHANGED <<file, durable, holder, memory, conn, lastId, lastToken, unpaired>>

\* Fault: a command that changes the file does not wait for its lock.
Unlocked(c) == holder \notin Commands

LockFree(c) == holder = None

\* AcquireConfigLock
Lock(c) ==
    /\ command[c].at = "lock" /\ LockFree(c) /\ CommandGoes(c, "change") /\ holder' = c
    /\ UNCHANGED <<file, durable, daemon, memory, conn, lastId, lastToken, unpaired>>

LockTimesOut(c) ==
    /\ command[c].at = "lock" /\ holder # None /\ CommandEnds(c)
    /\ UNCHANGED <<file, durable, holder, daemon, memory, conn, lastId, lastToken, unpaired>>

\* Update of a command, to the rename.
Change(c) ==
    /\ command[c].at = "change" /\ Saves(command[c].op, 0) /\ CommandGoes(c, "sync")
    /\ UNCHANGED <<durable, holder, daemon, memory, conn, unpaired>>

\* The file cannot be read, the mutator refuses, or it cannot be written.
ChangeFails(c) ==
    /\ command[c].at = "change" /\ CommandEnds(c) /\ holder' = None
    /\ UNCHANGED <<file, durable, daemon, memory, conn, lastId, lastToken, unpaired>>

\* The directory is synced, or nobody knows: ErrPersistUncertain.
Sync(c) ==
    /\ command[c].at = "sync" /\ CommandEnds(c) /\ holder' = None
    /\ \/ durable' = file /\ Done(c, command[c].op)
       \/ UNCHANGED <<durable, unpaired>>
    /\ UNCHANGED <<file, daemon, memory, conn, lastId, lastToken>>

\* A command is killed: the kernel releases its lock.
Kill(c) ==
    /\ command[c].at # "idle" /\ CommandEnds(c) /\ holder' = (IF holder = c THEN None ELSE holder)
    /\ UNCHANGED <<file, durable, daemon, memory, conn, lastId, lastToken, unpaired>>

(***************************************************************************)
(* The daemon                                                              *)
(***************************************************************************)
\* AcquireDaemonLock
Serve ==
    /\ daemon.at = "off" /\ holder = None /\ holder' = "daemon" /\ daemon' = [daemon EXCEPT !.at = "starting"]
    /\ UNCHANGED <<file, durable, memory, command, conn, lastId, lastToken, unpaired>>

\* The control server is up and the file is read; the old SSH server starts
\* for a file with a key that is not revoked.
Up ==
    /\ daemon.at = "starting" /\ memory' = (IF Loads(file) THEN file ELSE None)
    /\ daemon' = [daemon EXCEPT !.at = "up",
           !.serves = IF Loads(file) /\ file.keys /\ ~ file.revoked THEN file.id ELSE 0]
    /\ UNCHANGED <<file, durable, holder, command, conn, lastId, lastToken, unpaired>>

\* Update of the daemon, for a command or a connection, to the rename.
DaemonChange ==
    LET u == daemon.update IN
    /\ u.op # "none" /\ ~ u.saved /\ Saves(u.op, u.token)
    /\ daemon' = [daemon EXCEPT !.update.saved = TRUE]
    /\ UNCHANGED <<durable, holder, memory, command, conn, unpaired>>

\* The one who asked gets the answer.
Answered(by) ==
    /\ daemon' = [daemon EXCEPT !.update = Quiet]
    /\ command' = [c \in Commands |-> IF c = by /\ command[c].at = "asked" THEN Idle ELSE command[c]]
    /\ conn' = [k \in Conns |-> IF k = by /\ conn[k].at = "confirm" THEN [conn[k] EXCEPT !.at = "open", !.token = 0] ELSE conn[k]]

DaemonRefuses ==
    /\ daemon.update.op # "none" /\ ~ daemon.update.saved /\ Answered(daemon.update.by)
    /\ UNCHANGED <<file, durable, holder, memory, lastId, lastToken, unpaired>>

DaemonSync ==
    LET u == daemon.update IN
    /\ u.saved /\ Answered(u.by)
    /\ \/ durable' = file /\ memory' = file /\ Done(u.by, u.op)
       \/ memory' = file /\ UNCHANGED <<durable, unpaired>>
       \/ UNCHANGED <<memory, durable, unpaired>>
    /\ UNCHANGED <<file, holder, lastId, lastToken>>

DaemonGone ==
    /\ daemon' = [at |-> "off", serves |-> 0, update |-> Quiet] /\ memory' = None
    /\ conn' = [k \in Conns |-> Closed]

DaemonStops ==
    /\ daemon.at # "off" /\ DaemonGone /\ holder' = None
    /\ command' = [c \in Commands |-> IF command[c].at = "asked" THEN Idle ELSE command[c]]
    /\ UNCHANGED <<file, durable, lastId, lastToken, unpaired>>

PowerFails ==
    /\ file # durable /\ file' = durable /\ DaemonGone /\ holder' = None /\ command' = [c \in Commands |-> Idle]
    /\ UNCHANGED <<durable, lastId, lastToken, unpaired>>

(***************************************************************************)
(* SSH connections                                                         *)
(***************************************************************************)
\* PublicKeyCallback: the role is the one of now.
Connect(k) ==
    /\ conn[k].at = "none" /\ daemon.serves # 0 /\ Loads(file) /\ ~ file.revoked
    /\ conn' = [conn EXCEPT ![k] = [at |-> "open", id |-> daemon.serves, paired |-> file.paired, token |-> 0]]
    /\ UNCHANGED <<file, durable, holder, daemon, memory, command, lastId, lastToken, unpaired>>

\* handleSession and handleStreamLocal: paired then and now.
Permits(k) == Loads(file) /\ ~ file.revoked /\ conn[k].paired /\ file.paired

Run(k) ==
    /\ conn[k].at = "open" /\ Permits(k) /\ conn' = [conn EXCEPT ![k].at = "runs"]
    /\ UNCHANGED <<file, durable, holder, daemon, memory, command, lastId, lastToken, unpaired>>

Ran(k) ==
    /\ conn[k].at = "runs" /\ conn' = [conn EXCEPT ![k].at = "open"]
    /\ UNCHANGED <<file, durable, holder, daemon, memory, command, lastId, lastToken, unpaired>>

\* confirm-pair, with a token that was issued.
Confirm(k) ==
    /\ conn[k].at = "open" /\ Loads(file) /\ ~ file.revoked
    /\ \E t \in 1..lastToken : conn' = [conn EXCEPT ![k].at = "confirm", ![k].token = t]
    /\ UNCHANGED <<file, durable, holder, daemon, memory, command, lastId, lastToken, unpaired>>

ConfirmStarts(k) ==
    /\ conn[k].at = "confirm" /\ daemon.update.op = "none"
    /\ daemon' = [daemon EXCEPT !.update = [Quiet EXCEPT !.by = k, !.op = "confirm", !.token = conn[k].token]]
    /\ UNCHANGED <<file, durable, holder, memory, command, conn, lastId, lastToken, unpaired>>

Hangup(k) ==
    /\ conn[k].at # "none" /\ conn' = [conn EXCEPT ![k] = Closed]
    /\ UNCHANGED <<file, durable, holder, daemon, memory, command, lastId, lastToken, unpaired>>

\* watchRevocation: each second.
Watch(k) == conn[k].at # "none" /\ (~ Loads(file) \/ file.revoked) /\ Hangup(k)

-----------------------------------------------------------------------------
AgentNext ==
    \/ \E c \in Commands :
        \/ Begin(c) \/ Look(c) \/ Migrate(c) \/ Copy(c) \/ NothingToCopy(c) \/ MigrationRefused(c) \/ Ask(c) \/ Lock(c)
        \/ LockTimesOut(c) \/ Change(c) \/ ChangeFails(c) \/ Sync(c) \/ Kill(c)
    \/ Serve \/ Up \/ DaemonChange \/ DaemonRefuses \/ DaemonSync \/ DaemonStops \/ PowerFails
    \/ \E k \in Conns : Connect(k) \/ Run(k) \/ Ran(k) \/ Confirm(k) \/ ConfirmStarts(k) \/ Hangup(k) \/ Watch(k)

AgentSpec == AgentInit /\ [][AgentNext]_agentVars

-----------------------------------------------------------------------------
\* A revocation that was reported as done stays: neither a pairing that was
\* under way, nor a command that read the file before, nor a restart of the
\* daemon, nor the power brings the identity's access back (runLegacyUnpair,
\* StateStore.Update).
RevokedStays ==
    unpaired # 0 => \A f \in {file, durable, memory} : f # None /\ f.id = unpaired => f.revoked

\* An identity is replaced by init alone: setups that run at the same time,
\* migrations and updates never do (the mutator of runSetup).  Init looks
\* before it takes the lock, so it may do so without --force.
IdentityIsKept ==
    [][Loads(file) /\ Loads(file') /\ file'.id # file.id =>
        \/ \E c \in Commands : command[c].op = "init" /\ command[c].at = "change"
        \/ file' = durable]_agentVars

\* A command runs only on a connection made with the key of the identity
\* that the file now has: nobody replaces it under a daemon that serves it.
RunsForItsIdentity == \A k \in Conns : conn[k].at = "runs" => file # None /\ conn[k].id = file.id

-----------------------------------------------------------------------------
\* Who changes the file holds its lock, and so does the daemon while it runs.
LockFits ==
    /\ \A c \in Commands : command[c].at \in {"copy", "change", "sync"} => holder = c
    /\ daemon.at # "off" => holder = "daemon"

\* The daemon serves the identity of the file, on connections of that identity.
DaemonFits ==
    /\ daemon.at # "up" => memory = None /\ daemon.serves = 0 /\ daemon.update = Quiet
    /\ daemon.serves # 0 => file # None /\ file.id = daemon.serves
    /\ \A k \in Conns : conn[k].at # "none" => conn[k].id = daemon.serves /\ daemon.serves # 0

\* Only a file that was not there is migrated to, and the daemon is asked to
\* pair and to unpair.
CommandFits(c) ==
    /\ command[c].at = "copy" => file = None
    /\ command[c].at \in {"ask", "asked"} => command[c].op \in {"pair", "unpair"}
    /\ command[c].at \in {"migrate", "copy"} => command[c].op = "setup"
    /\ command[c].at \in {"lock", "change"} => command[c].op \in Ops \ {"force"}
    /\ command[c].at = "sync" /\ command[c].op = "unpair" => file # None /\ file.revoked

\* A token that is still to be confirmed was issued, and not since the file
\* was revoked.
TokenFits(t) == t \in 1..lastToken /\ (file # None /\ file.revoked => t # file.token)

UpdatesFit ==
    /\ \A k \in Conns : conn[k].at = "confirm" => TokenFits(conn[k].token)
    /\ daemon.update.op = "confirm" /\ ~ daemon.update.saved => TokenFits(daemon.update.token)
    /\ daemon.update.op = "unpair" /\ daemon.update.saved => file # None /\ file.revoked

\* The inductive invariant.
AgentInv ==
    /\ AgentTypeOK /\ RevokedStays /\ RunsForItsIdentity
    /\ LockFits /\ DaemonFits /\ UpdatesFit
    /\ \A c \in Commands : CommandFits(c)
=============================================================================
