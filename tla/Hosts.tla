------------------------------- MODULE Hosts -------------------------------
(***************************************************************************)
(* The hosts, folders, saved SSH keys and credentials of one user, and the *)
(* requests that edit them: internal/httpapi hosts.go, host_folders.go,    *)
(* and ssh_keys.go over internal/store.                                    *)
(*                                                                         *)
(* A request reads a row, lets the user's input and some cryptography pass *)
(* and writes in one transaction that compares what it read.  Requests     *)
(* overlap.  A dial of the host pool reads the row like a request does and *)
(* reports the host key that the address presented.                        *)
(*                                                                         *)
(* A host key stands for the address that presents it.  A credential is    *)
(* either a saved key or made for one host by one edit.                    *)
(***************************************************************************)
EXTENDS Integers, FiniteSets

CONSTANTS
    HostIds, Folders, Keys, Owned,  \* Owned: credentials of single hosts
    Addresses, Requests,
    None, Deleted,  \* no row yet, no row any more
    MaxVersion      \* bound: writes to a host (the trust in its key aside)

VARIABLES
    row,        \* hosts: None, a row or Deleted; version is updated_at
    made,       \* credentials that were ever made
    creds,      \* credentials
    keyRev,     \* ssh_keys.revision, 0 without a row
    parent,     \* host_folders.parent_id, "absent" without a row
    request     \* what each request has read

store == <<row, made, creds, keyRev, parent>>
hostVars == <<store, request>>

Rows == [cred : Keys \cup Owned, folder : Folders \cup {None}, addr : Addresses,
         trusted : Addresses \cup {None}, pending : Addresses \cup {None},
         version : 0..MaxVersion + 1]

\* What the constants have to be: an instance assumes it.
HostsAssumption ==
    /\ MaxVersion \in Nat
    /\ Keys \cap Owned = {}
    /\ None \notin HostIds \cup Folders \cup Keys \cup Owned \cup Addresses \cup {"absent"}
    /\ "absent" \notin Folders
    /\ None # Deleted /\ {None, Deleted} \cap Rows = {}

Idle == [op |-> "idle"]

\* The types of all variables.
HostsTypeOK ==
    /\ row \in [HostIds -> Rows \cup {None, Deleted}]
    /\ creds \subseteq made /\ made \subseteq Keys \cup Owned
    /\ keyRev \in [Keys -> 0..2]
    /\ parent \in [Folders -> Folders \cup {None, "absent"}]
    /\ DOMAIN request = Requests

HostsInit ==
    /\ row = [h \in HostIds |-> None] /\ made = {} /\ creds = {}
    /\ keyRev = [k \in Keys |-> 0] /\ parent = [f \in Folders |-> "absent"]
    /\ request = [r \in Requests |-> Idle]

Reads(r, what) == request' = [request EXCEPT ![r] = what]
IsRow(h) == row[h] \notin {None, Deleted}
FolderExists(f) == f \in Folders => parent[f] # "absent"
KeyExists(k) == keyRev[k] > 0
(***************************************************************************)
(* SSH hosts                                                               *)
(***************************************************************************)
\* createHost starts from nothing, updateSSHHost from the row it reads.
BeginSave(r, h) ==
    /\ request[r] = Idle /\ row[h] # Deleted
    /\ Reads(r, [op |-> "save", host |-> h, previous |-> row[h]])
    /\ UNCHANGED store

\* The host key stays with the address it was presented by.
NewRow(e, c, f, a) ==
    LET same == e.previous # None /\ e.previous.addr = a IN
    [cred |-> c, folder |-> f, addr |-> a,
     trusted |-> IF same THEN e.previous.trusted ELSE None,
     pending |-> IF same THEN e.previous.pending ELSE None,
     version |-> IF e.previous = None THEN 0 ELSE e.previous.version + 1]

\* What SaveHost asks of the database before it writes.  The credential is
\* the previous one, a saved key or a new one.
MaySave(e, c, f) ==
    /\ FolderExists(f)
    /\ \/ e.previous # None /\ c = e.previous.cred /\ c \in creds
       \/ c \in Keys /\ KeyExists(c)
       \/ c \in Owned \ made
    /\ IF e.previous = None THEN row[e.host] = None
       ELSE IsRow(e.host) /\ row[e.host].version = e.previous.version

\* Fault: what was made for one host goes with the next credential.
UsedByKey(rows, c) == c \in Keys

\* deleteUnusedCredential leaves a credential that a row still refers to.
Used(rows, c) ==
    \/ \E h \in HostIds : rows[h] \notin {None, Deleted} /\ rows[h].cred = c
    \/ c \in Keys /\ KeyExists(c)

Save(r, c, f, a) ==
    LET e == request[r]
        rows == [row EXCEPT ![e.host] = NewRow(e, c, f, a)]
        old == IF e.previous = None THEN {} ELSE {e.previous.cred} IN
    /\ e.op = "save" /\ Reads(r, Idle)
    /\ \/ /\ MaySave(e, c, f) /\ NewRow(e, c, f, a).version <= MaxVersion
          /\ row' = rows
          /\ made' = made \cup {c}
          /\ creds' = (creds \cup {c}) \ {x \in old : ~Used(rows, x)}
          /\ UNCHANGED <<keyRev, parent>>
       \/ ~MaySave(e, c, f) /\ UNCHANGED store

Current(h, new) ==
    /\ IsRow(h) /\ row' = [row EXCEPT ![h] = [new EXCEPT !.version = @ + 1]]

RenameHost(h) ==
    /\ IsRow(h) /\ row[h].version < MaxVersion
    /\ Current(h, row[h]) /\ UNCHANGED <<made, creds, keyRev, parent, request>>

MoveHost(h, f) ==
    /\ FolderExists(f) /\ IsRow(h) /\ row[h].version < MaxVersion
    /\ Current(h, [row[h] EXCEPT !.folder = f])
    /\ UNCHANGED <<made, creds, keyRev, parent, request>>

DeleteHost(h) ==
    LET rows == [row EXCEPT ![h] = Deleted] IN
    /\ IsRow(h) /\ row' = rows
    /\ creds' = IF Used(rows, row[h].cred) THEN creds ELSE creds \ {row[h].cred}
    /\ UNCHANGED <<made, keyRev, parent, request>>

(***************************************************************************)
(* Host keys: a dial reports the key of an unknown host, the user trusts it *)
(***************************************************************************)
BeginDial(r, h) ==
    /\ request[r] = Idle /\ IsRow(h) /\ row[h].trusted = None
    /\ Reads(r, [op |-> "dial", host |-> h, previous |-> row[h]])
    /\ UNCHANGED store

\* Fault: SetPendingHostKey, which takes the key for the host as it is now.
ForSomeHost(e) == IsRow(e.host)

\* SetPendingHostKeyIfCurrent: the row is still the one that was dialed.
ForThisHost(e) ==
    /\ IsRow(e.host)
    /\ \A field \in {"addr", "cred", "trusted"} : row[e.host][field] = e.previous[field]

PresentKey(r) ==
    LET e == request[r] IN
    /\ e.op = "dial" /\ Reads(r, Idle)
    /\ row' = IF ForThisHost(e) THEN [row EXCEPT ![e.host].pending = e.previous.addr] ELSE row
    /\ UNCHANGED <<made, creds, keyRev, parent>>

BeginTrust(r, h) ==
    /\ request[r] = Idle /\ IsRow(h) /\ row[h].pending # None
    /\ Reads(r, [op |-> "trust", host |-> h, previous |-> row[h]])
    /\ UNCHANGED store

\* TrustHostKey compares the pending key with the one the user saw.
TrustHostKey(r) ==
    LET e == request[r] IN
    /\ e.op = "trust" /\ Reads(r, Idle)
    /\ IF IsRow(e.host) /\ row[e.host].pending = e.previous.pending
       THEN Current(e.host, [row[e.host] EXCEPT !.trusted = e.previous.pending, !.pending = None])
       ELSE UNCHANGED row
    /\ UNCHANGED <<made, creds, keyRev, parent>>

(***************************************************************************)
(* Saved keys and folders                                                  *)
(***************************************************************************)
CreateSSHKey(k) ==
    /\ k \notin made /\ made' = made \cup {k} /\ creds' = creds \cup {k}
    /\ keyRev' = [keyRev EXCEPT ![k] = 1]
    /\ UNCHANGED <<row, parent, request>>

BeginKey(r, k) ==
    /\ request[r] = Idle /\ KeyExists(k) /\ keyRev[k] < 2
    /\ Reads(r, [op |-> "key", key |-> k, seen |-> keyRev[k]]) /\ UNCHANGED store

UpdateSSHKey(r) ==
    LET e == request[r] IN
    /\ e.op = "key" /\ Reads(r, Idle)
    /\ keyRev' = IF keyRev[e.key] = e.seen THEN [keyRev EXCEPT ![e.key] = @ + 1] ELSE keyRev
    /\ UNCHANGED <<row, made, creds, parent>>

\* The row of the key goes with its credential.
DeleteSSHKey(k) ==
    /\ KeyExists(k)
    /\ \A h \in HostIds : IsRow(h) => row[h].cred # k
    /\ creds' = creds \ {k} /\ keyRev' = [keyRev EXCEPT ![k] = 0]
    /\ UNCHANGED <<row, made, parent, request>>

\* The folders from f upwards, None at the end: the least set that has f and
\* the parent of each folder in it.
Above(f) ==
    LET all == Folders \cup {None, "absent"}
        closed == {S \in SUBSET all : f \in S /\ \A g \in S \cap Folders : parent[g] \in S}
    IN {x \in all : \A S \in closed : x \in S}

\* Fault: only the folder itself is refused as its parent.
IsCycleItself(f, p) == p = f

IsCycle(f, p) == f \in Above(p)

\* SaveHostFolder creates or updates a folder, after the walk to the top.
SaveFolder(f, p) ==
    /\ FolderExists(p) /\ ~IsCycle(f, p)
    /\ parent' = [parent EXCEPT ![f] = p]
    /\ UNCHANGED <<row, made, creds, keyRev, request>>

\* The contents of a deleted folder move to its parent.
DeleteFolder(f) ==
    /\ parent[f] # "absent"
    /\ parent' = [g \in Folders |-> IF g = f THEN "absent"
                                    ELSE IF parent[g] = f THEN parent[f] ELSE parent[g]]
    /\ row' = [h \in HostIds |->
                 IF row[h] \in {None, Deleted} \/ row[h].folder # f THEN row[h]
                 ELSE [row[h] EXCEPT !.folder = parent[f], !.version = @ + 1]]
    /\ \A h \in HostIds : row'[h] # row[h] => row'[h].version <= MaxVersion
    /\ UNCHANGED <<made, creds, keyRev, request>>

(***************************************************************************)
(* The work on a host                                                      *)
(***************************************************************************)
\* ownedHost: the lease of the request, attached before, now names its host.
UseHost(r, h) ==
    /\ request[r] = Idle /\ IsRow(h)
    /\ Reads(r, [op |-> "work", host |-> h]) /\ UNCHANGED store

\* Fault: check asks only for the login of the lease.
HostAllowsAny(r) == TRUE

\* The part of accessLease.check that reads the host of the lease.
HostAllows(r) == IsRow(request[r].host)

\* The five second check of the lease cancels it.
Watch(r) ==
    /\ request[r].op = "work" /\ ~HostAllows(r)
    /\ Reads(r, Idle) /\ UNCHANGED store

Leave(r) == request[r].op = "work" /\ Reads(r, Idle) /\ UNCHANGED store

HostsNext ==
    \/ \E h \in HostIds :
          \/ RenameHost(h) \/ DeleteHost(h)
          \/ \E f \in Folders \cup {None} : MoveHost(h, f)
          \/ \E r \in Requests :
                BeginSave(r, h) \/ BeginDial(r, h) \/ BeginTrust(r, h) \/ UseHost(r, h)
    \/ \E r \in Requests :
          \/ \E c \in Keys \cup Owned, f \in Folders \cup {None}, a \in Addresses :
                Save(r, c, f, a)
          \/ PresentKey(r) \/ TrustHostKey(r) \/ UpdateSSHKey(r)
          \/ Watch(r) \/ Leave(r)
          \/ \E k \in Keys : BeginKey(r, k)
    \/ \E k \in Keys : CreateSSHKey(k) \/ DeleteSSHKey(k)
    \/ \E f \in Folders : DeleteFolder(f) \/ \E p \in Folders \cup {None} : SaveFolder(f, p)

\* The ticker of a lease fires.
WatchFairness == \A r \in Requests : WF_hostVars(Watch(r))

HostsSpec == HostsInit /\ [][HostsNext]_hostVars /\ WatchFairness
-----------------------------------------------------------------------------
\* Edits, moves and deletions that overlap leave no host without the
\* credential and the folder it names, no key without its credential, no
\* credential that nothing names and no folders that lead back to themselves.
ReferencesEnd ==
    /\ \A h \in HostIds : IsRow(h) =>
          row[h].cred \in creds /\ FolderExists(row[h].folder)
    /\ \A k \in Keys : KeyExists(k) <=> k \in creds
    /\ \A c \in creds \cap Owned : Used(row, c)
    /\ \A f \in Folders : parent[f] # "absent" => None \in Above(f)

\* A trusted host key was presented by the address of the host, although a
\* dial of the previous address reports late and the user answers later.
TrustedForAddress ==
    \A h \in HostIds : IsRow(h) => row[h].trusted \in {None, row[h].addr}

-----------------------------------------------------------------------------
\* Every set of folders has one whose parent is outside: no way up leads back.
FoldersEnd ==
    /\ \A f \in Folders : parent[f] # "absent" => FolderExists(parent[f])
    /\ \A S \in SUBSET {f \in Folders : parent[f] # "absent"} :
          S # {} => \E f \in S : parent[f] \notin S

\* A host key that a row has, or that waits for the user, is of its address;
\* it waits only while none is trusted.
Presented(x) ==
    /\ x.trusted \in {None, x.addr} /\ x.pending \in {None, x.addr}
    /\ x.pending # None => x.trusted = None
    /\ x.trusted = None => x.version <= MaxVersion

\* What a request has read of a row: the row has it while its version stays.
RequestFits(e) ==
    /\ e.op = "key" => e.key \in Keys /\ e.seen = 1
    /\ e.op = "dial" => e.previous # None /\ e.previous.trusted = None
    /\ e.op = "trust" => e.previous # None /\ e.previous.pending # None
    /\ e.op \in {"save", "dial", "trust"} =>
          e.host \in HostIds /\ e.previous \in Rows \cup {None}
    /\ e.op \in {"save", "dial", "trust"} /\ e.previous # None =>
          /\ Presented(e.previous) /\ row[e.host] # None
          /\ IsRow(e.host) =>
                /\ e.previous.version <= row[e.host].version
                /\ e.previous.version = row[e.host].version => e.previous.cred = row[e.host].cred

\* The inductive invariant.
HostsInv ==
    /\ HostsTypeOK /\ FoldersEnd
    /\ \A h \in HostIds : IsRow(h) =>
          row[h].cred \in creds /\ FolderExists(row[h].folder) /\ Presented(row[h])
    /\ \A k \in Keys : KeyExists(k) <=> k \in creds
    /\ \A c \in creds \cap Owned : Used(row, c)
    /\ \A r \in Requests : RequestFits(request[r])

\* Work on a deleted host ends, although the deletion cancels nothing and the
\* host of a lease is named only after the lease was attached.
DeletedHostLeaves ==
    \A r \in Requests :
        (request[r].op = "work" /\ ~IsRow(request[r].host)) ~> request[r].op # "work"
=============================================================================
