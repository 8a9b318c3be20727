----------------------- MODULE WorkbenchRecordsProofs -----------------------
(***************************************************************************)
(* Proofs about what the workbench keeps, for every value of the           *)
(* constants: accounts and what they may do (AccountAccess), how accounts  *)
(* come to be (Registration), hosts with their folders and keys (Hosts),   *)
(* and notifications (PushMonitor, PushDelivery).  The last section states *)
(* what follows for MCWorkbenchRecords.                                    *)
(*                                                                         *)
(* Each invariant is inductive: each action keeps it, by a lemma of its    *)
(* own with one step per part.                                             *)
(***************************************************************************)
EXTENDS MCWorkbenchRecords, EnrollmentProofs, FiniteSetTheorems, TLAPS

(***************************************************************************)
(* Accounts and what they may do                                           *)
(***************************************************************************)

USE DEF LeaseOps, Exempt, At, accountVars

\* The types of the users' rows and gates.
LEMMA UserTypes ==
    ASSUME AccessInv, NEW u \in Users
    PROVE  /\ account[u] \in {"on", "off"} /\ hash[u] \in 0..MaxHash /\ must[u] \in BOOLEAN
           /\ gate[u] \in Requests \cup {Nil} /\ ends[u] \subseteq Requests
           /\ GateFits(u) /\ LeasesFit(u) /\ (account[u] = "off" => SessionsOf(u) = {})
BY DEF AccessInv, AccessTypeOK

\* The types of a request.
LEMMA RequestTypes ==
    ASSUME AccessInv, NEW r \in Requests
    PROVE  /\ req[r].op \in LeaseOps \cup {"login"} /\ req[r].at \in At
           /\ req[r].user \in Users \cup {Nil} /\ req[r].sess \in Sessions \cup {Nil}
           /\ req[r].seen \in Nat /\ req[r].target \in Users \cup {Nil}
           /\ RequestFits(r) /\ AttachFits(r)
BY DEF AccessInv, AccessTypeOK

\* The set of the requests.
RequestSet == [op : LeaseOps \cup {"login"}, at : At, user : Users \cup {Nil},
               sess : Sessions \cup {Nil}, seen : Nat, target : Users \cup {Nil}]

\* The types of the variables.
LEMMA VariableTypes ==
    ASSUME AccessInv
    PROVE  /\ account \in [Users -> {"on", "off"}]
           /\ hash \in [Users -> 0..MaxHash] /\ must \in [Users -> BOOLEAN]
           /\ userOf \in [Sessions -> Users \cup {Nil, "gone"}]
           /\ gate \in [Users -> Requests \cup {Nil}]
           /\ ends \in [Users -> SUBSET Requests]
           /\ req \in [Requests -> RequestSet]
BY DEF AccessInv, AccessTypeOK, RequestSet

(***************************************************************************)
(* Steps of one request                                                    *)
(***************************************************************************)
\* Whether a request is admitted depends on its user and its login only.
LEMMA AdmittedSame ==
    ASSUME UNCHANGED accountVars, NEW r \in Requests,
           req'[r].user = req[r].user, req'[r].sess = req[r].sess
    PROVE  Admitted(r)' <=> Admitted(r)
BY DEF Admitted, Valid

\* A step of a request that touches no account keeps the invariant if the
\* request fits, keeps the gates it holds, and was the lease it is.
LEMMA OnlyRequest ==
    ASSUME AccessAssumption, AccessInv, NEW r \in Requests, NEW x \in RequestSet,
           req' = [req EXCEPT ![r] = x], UNCHANGED <<accountVars, gate, ends>>,
           RequestFits(r)', AttachFits(r)',
           \A u \in Users : gate[u] = r =>
               x.op \in LeaseOps /\ x.at \in {"live", "hashing", "hashed", "canceled"},
           Live(r)' => /\ Live(r) /\ x.op = req[r].op /\ x.user = req[r].user
                       /\ x.sess = req[r].sess
    PROVE  AccessInv'
<1>0. /\ req'[r] = x /\ \A q \in Requests : q # r => req'[q] = req[q]
      /\ req' \in [Requests -> RequestSet]
  BY VariableTypes
<1>1. AccessTypeOK'
  BY <1>0, VariableTypes DEF AccessTypeOK, RequestSet
<1>2. ASSUME NEW q \in Requests, q # r
      PROVE  RequestFits(q)' /\ AttachFits(q)'
  <2>1. Admitted(q)' <=> Admitted(q)
    BY <1>0, <1>2, AdmittedSame
  <2>2. RequestFits(q) /\ AttachFits(q)
    BY RequestTypes
  <2>3. RequestFits(q)'
    BY <1>0, <1>2, <2>2 DEF RequestFits
  <2>4. AttachFits(q)'
    BY <1>0, <1>2, <2>1, <2>2 DEF AttachFits
  <2> QED BY <2>3, <2>4
<1>3. ASSUME NEW u \in Users
      PROVE  GateFits(u)' /\ LeasesFit(u)' /\ (account'[u] = "off" => SessionsOf(u)' = {})
  <2>0. GateFits(u) /\ LeasesFit(u) /\ (account[u] = "off" => SessionsOf(u) = {})
    BY UserTypes
  <2>1. GateFits(u)'
    <3>1. gate[u] = Nil \/ gate[u] \in Requests
      BY UserTypes
    <3> QED BY <1>0, <2>0, <3>1 DEF GateFits
  <2>2. LeasesFit(u)'
    <3> SUFFICES ASSUME NEW q \in LeasesOf(u)', q \notin ends'[u]
                 PROVE  Admitted(q)' /\ (must'[u] => req'[q].op \in Exempt \cup {"push"})
      BY DEF LeasesFit
    <3>1. q \in Requests /\ Live(q)' /\ req'[q].user = u
      BY DEF LeasesOf
    <3>2. /\ Live(q) /\ req'[q].op = req[q].op /\ req'[q].user = req[q].user
          /\ req'[q].sess = req[q].sess
      <4>1. CASE q = r
        BY <1>0, <3>1, <4>1
      <4>2. CASE q # r
        BY <1>0, <3>1, <4>2 DEF Live
      <4> QED BY <4>1, <4>2
    <3>3. q \in LeasesOf(u) /\ q \notin ends[u]
      BY <3>1, <3>2 DEF LeasesOf
    <3>4. Admitted(q)' <=> Admitted(q)
      BY <3>1, <3>2, AdmittedSame
    <3> QED BY <2>0, <3>2, <3>3, <3>4 DEF LeasesFit
  <2>3. account'[u] = "off" => SessionsOf(u)' = {}
    BY <2>0 DEF SessionsOf
  <2> QED BY <2>1, <2>2, <2>3
<1> QED BY <1>1, <1>2, <1>3 DEF AccessInv

\* What is left of a request that ends.
LEMMA IdleFits ==
    /\ Idle \in RequestSet /\ Idle.at = "idle" /\ Idle.op = "call" /\ Idle.sess = Nil
    /\ Idle.user = Nil
BY DEF Idle, RequestSet

\* A request that ends, and that holds no gate, keeps the invariant.
LEMMA StopKeeps ==
    ASSUME AccessAssumption, AccessInv, NEW r \in Requests, Stops(r),
           UNCHANGED <<accountVars, gate, ends>>, \A u \in Users : gate[u] # r
    PROVE  AccessInv'
<1>1. req' = [req EXCEPT ![r] = Idle] /\ req'[r] = Idle
  BY VariableTypes DEF Stops, Becomes
<1>2. RequestFits(r)' /\ AttachFits(r)' /\ ~Live(r)'
  BY <1>1, IdleFits DEF RequestFits, AttachFits, Live
<1> QED BY <1>1, <1>2, IdleFits, OnlyRequest

\* A request that did not take a lease holds no gate.
LEMMA NoGateYet ==
    ASSUME AccessInv, NEW r \in Requests, r # Nil,
           req[r].at \in {"idle", "looked", "issue"} \/ req[r].op = "login"
    PROVE  \A u \in Users : gate[u] # r
BY UserTypes DEF GateFits

\* A login begins.
LEMMA BeginLoginKeeps ==
    ASSUME AccessAssumption, AccessInv, NEW r \in Requests, NEW u \in Users,
           BeginLogin(r, u)
    PROVE  AccessInv'
<1> DEFINE x == [Idle EXCEPT !.op = "login", !.at = "hashing", !.user = u]
<1>1. /\ x \in RequestSet /\ x.op = "login" /\ x.at = "hashing" /\ x.user = u /\ x.sess = Nil
  BY DEF Idle, RequestSet
<1>2. req' = [req EXCEPT ![r] = x] /\ req[r].at = "idle" /\ UNCHANGED <<accountVars, gate, ends>>
  BY DEF BeginLogin, Becomes
<1> HIDE DEF x
<1>3. req'[r] = x
  BY <1>2, VariableTypes
<1>4. RequestFits(r)' /\ AttachFits(r)' /\ ~Live(r)'
  BY <1>1, <1>3 DEF RequestFits, AttachFits, Live
<1>5. \A v \in Users : gate[v] # r
  BY <1>2, NoGateYet DEF AccessAssumption
<1> QED BY <1>1, <1>2, <1>4, <1>5, OnlyRequest

\* A push job begins.
LEMMA StartPushKeeps ==
    ASSUME AccessAssumption, AccessInv, NEW r \in Requests, NEW u \in Users,
           StartPush(r, u)
    PROVE  AccessInv'
<1> DEFINE x == [Idle EXCEPT !.op = "push", !.at = "looked", !.user = u]
<1>1. /\ x \in RequestSet /\ x.op = "push" /\ x.at = "looked" /\ x.user = u /\ x.sess = Nil
  BY DEF Idle, RequestSet
<1>2. req' = [req EXCEPT ![r] = x] /\ req[r].at = "idle" /\ UNCHANGED <<accountVars, gate, ends>>
  BY DEF StartPush, Becomes
<1> HIDE DEF x
<1>3. req'[r] = x
  BY <1>2, VariableTypes
<1>4. RequestFits(r)' /\ AttachFits(r)' /\ ~Live(r)'
  BY <1>1, <1>3 DEF RequestFits, AttachFits, Live
<1>5. \A v \in Users : gate[v] # r
  BY <1>2, NoGateYet DEF AccessAssumption
<1> QED BY <1>1, <1>2, <1>4, <1>5, OnlyRequest

\* A request looks its login up: it is that of the user, who must not have to
\* change the password for what is asked.
LEMMA LookupKeeps ==
    ASSUME AccessAssumption, AccessInv, NEW r \in Requests, NEW s \in Sessions,
           NEW op \in LeaseOps, Lookup(r, op, s)
    PROVE  AccessInv'
<1>1. PICK u \in Users :
          /\ FindsUser(s, u) /\ (must[u] => op \in Exempt)
          /\ Becomes(r, [Idle EXCEPT !.op = op, !.at = "looked", !.user = u,
                                     !.sess = s, !.seen = hash[u]])
  BY DEF Lookup
<1> DEFINE x == [Idle EXCEPT !.op = op, !.at = "looked", !.user = u,
                             !.sess = s, !.seen = hash[u]]
<1>2. /\ x \in RequestSet /\ x.op = op /\ x.at = "looked" /\ x.user = u /\ x.sess = s
  <2>1. hash[u] \in Nat
    BY UserTypes
  <2> QED BY <2>1 DEF Idle, RequestSet
<1>3. /\ req' = [req EXCEPT ![r] = x] /\ req[r].at = "idle"
      /\ UNCHANGED <<accountVars, gate, ends>> /\ op \in {"password", "reset", "call"}
  BY <1>1 DEF Lookup, Becomes
<1> HIDE DEF x
<1>4. req'[r] = x
  BY <1>3, VariableTypes
<1>5. s # Nil /\ userOf[s] = u
  BY <1>1 DEF FindsUser, AccessAssumption
<1>6. RequestFits(r)' /\ ~Live(r)'
  BY <1>2, <1>3, <1>4, <1>5 DEF RequestFits, Live
<1>7. AttachFits(r)'
  BY <1>1, <1>2, <1>3, <1>4, <1>5 DEF AttachFits
<1>8. \A v \in Users : gate[v] # r
  BY <1>3, NoGateYet DEF AccessAssumption
<1> QED BY <1>2, <1>3, <1>6, <1>7, <1>8, OnlyRequest

\* A request that goes from one place to another.
LEMMA MoveTo ==
    ASSUME AccessInv, NEW r \in Requests, NEW place \in At, Moves(r, place)
    PROVE  \E x \in RequestSet :
              /\ req' = [req EXCEPT ![r] = x] /\ x.at = place /\ req'[r] = x
              /\ x.op = req[r].op /\ x.user = req[r].user /\ x.sess = req[r].sess
              /\ x.target = req[r].target /\ x.seen = req[r].seen
<1> DEFINE x == [req[r] EXCEPT !.at = place]
<1>1. req[r] \in RequestSet
  BY VariableTypes
<1>2. /\ x \in RequestSet /\ x.at = place
      /\ x.op = req[r].op /\ x.user = req[r].user /\ x.sess = req[r].sess
      /\ x.target = req[r].target /\ x.seen = req[r].seen
  BY <1>1 DEF RequestSet
<1>3. req' = [req EXCEPT ![r] = x] /\ req'[r] = x
  BY VariableTypes DEF Moves
<1> QED BY <1>2, <1>3

\* A hash is computed or verified.
LEMMA HashedKeeps ==
    ASSUME AccessAssumption, AccessInv, NEW r \in Requests, Hashed(r)
    PROVE  AccessInv'
<1>0. req[r].at = "hashing" /\ UNCHANGED <<accountVars, gate, ends>>
  BY DEF Hashed
<1>1. CASE Moves(r, IF req[r].op = "login" THEN "issue" ELSE "hashed")
  <2>1. CASE req[r].op = "login"
    <3>1. PICK x \in RequestSet :
              /\ req' = [req EXCEPT ![r] = x] /\ x.at = "issue" /\ req'[r] = x
              /\ x.op = req[r].op /\ x.user = req[r].user /\ x.sess = req[r].sess
              /\ x.target = req[r].target /\ x.seen = req[r].seen
      BY <1>1, <2>1, MoveTo
    <3>2. RequestFits(r)' /\ AttachFits(r)' /\ ~Live(r)'
      BY <1>0, <2>1, <3>1, RequestTypes DEF RequestFits, AttachFits, Live
    <3>3. \A v \in Users : gate[v] # r
      BY <2>1, NoGateYet DEF AccessAssumption
    <3> QED BY <1>0, <3>1, <3>2, <3>3, OnlyRequest
  <2>2. CASE req[r].op # "login"
    <3>1. PICK x \in RequestSet :
              /\ req' = [req EXCEPT ![r] = x] /\ x.at = "hashed" /\ req'[r] = x
              /\ x.op = req[r].op /\ x.user = req[r].user /\ x.sess = req[r].sess
              /\ x.target = req[r].target /\ x.seen = req[r].seen
      BY <1>1, <2>2, MoveTo
    <3>2. RequestFits(r)' /\ AttachFits(r)' /\ Live(r)
      BY <1>0, <2>2, <3>1, RequestTypes DEF RequestFits, AttachFits, Live
    <3>3. x.op \in LeaseOps
      BY <2>2, <3>1, RequestTypes
    <3> QED BY <1>0, <3>1, <3>2, <3>3, OnlyRequest
  <2> QED BY <2>1, <2>2
<1>2. CASE req[r].op = "login" /\ Stops(r)
  BY <1>0, <1>2, StopKeeps, NoGateYet DEF AccessAssumption
<1>3. CASE req[r].op = "password" /\ Moves(r, "live")
  <2>1. PICK x \in RequestSet :
            /\ req' = [req EXCEPT ![r] = x] /\ x.at = "live" /\ req'[r] = x
            /\ x.op = req[r].op /\ x.user = req[r].user /\ x.sess = req[r].sess
            /\ x.target = req[r].target /\ x.seen = req[r].seen
    BY <1>3, MoveTo
  <2>2. RequestFits(r)' /\ AttachFits(r)' /\ Live(r)
    BY <1>0, <1>3, <2>1, RequestTypes DEF RequestFits, AttachFits, Live
  <2> QED BY <1>0, <1>3, <2>1, <2>2, OnlyRequest
<1> QED BY <1>1, <1>2, <1>3 DEF Hashed

\* A request or job that was served, or canceled, ends.
LEMMA ReleaseKeeps ==
    ASSUME AccessAssumption, AccessInv, NEW r \in Requests, Release(r)
    PROVE  AccessInv'
BY StopKeeps DEF Release

\* A new password is hashed.
LEMMA BeginHashKeeps ==
    ASSUME AccessAssumption, AccessInv, NEW r \in Requests, NEW u \in Users,
           BeginHash(r, u)
    PROVE  AccessInv'
<1> DEFINE x == [req[r] EXCEPT !.at = "hashing", !.target = u]
<1>1. req[r] \in RequestSet
  BY VariableTypes
<1>2. /\ x \in RequestSet /\ x.at = "hashing" /\ x.target = u
      /\ x.op = req[r].op /\ x.user = req[r].user /\ x.sess = req[r].sess
  BY <1>1 DEF RequestSet
<1>3. /\ req' = [req EXCEPT ![r] = x] /\ req[r].at = "live"
      /\ req[r].op \in {"password", "reset"} /\ UNCHANGED <<accountVars, gate, ends>>
  BY VariableTypes DEF BeginHash
<1> HIDE DEF x
<1>4. req'[r] = x
  BY <1>3, VariableTypes
<1>5. RequestFits(r)' /\ AttachFits(r)' /\ Live(r)
  BY <1>2, <1>3, <1>4, RequestTypes DEF RequestFits, AttachFits, Live
<1> QED BY <1>2, <1>3, <1>4, <1>5, OnlyRequest

(***************************************************************************)
(* Leases                                                                  *)
(***************************************************************************)
\* The database is asked under the gate: what it admitted stays admitted.
LEMMA AttachCheckKeeps ==
    ASSUME AccessAssumption, AccessInv, NEW r \in Requests, AttachCheck(r)
    PROVE  AccessInv'
<1>0. req[r].at = "looked" /\ gate[req[r].user] = Nil /\ UNCHANGED <<accountVars, ends>>
  BY DEF AttachCheck
<1>1. req[r].user \in Users /\ r # Nil
  BY <1>0, RequestTypes DEF RequestFits, AccessAssumption
<1>2. \A v \in Users : gate[v] # r
  BY <1>0, <1>1, NoGateYet
<1>3. CASE ~Admitted(r)
  BY <1>0, <1>2, <1>3, StopKeeps DEF AttachCheck
<1>4. CASE Admitted(r)
  <2> DEFINE u == req[r].user
  <2>1. gate' = [gate EXCEPT ![u] = r] /\ Moves(r, "checked")
    BY <1>4 DEF AttachCheck
  <2>2. PICK x \in RequestSet :
            /\ req' = [req EXCEPT ![r] = x] /\ x.at = "checked" /\ req'[r] = x
            /\ x.op = req[r].op /\ x.user = u /\ x.sess = req[r].sess
            /\ x.target = req[r].target /\ x.seen = req[r].seen
    BY <2>1, MoveTo
  <2>3. /\ \A q \in Requests : q # r => req'[q] = req[q]
        /\ req' \in [Requests -> RequestSet]
        /\ gate' \in [Users -> Requests \cup {Nil}]
        /\ gate'[u] = r /\ \A v \in Users : v # u => gate'[v] = gate[v]
    BY <1>1, <2>1, <2>2, VariableTypes
  <2>4. AccessTypeOK'
    BY <1>0, <2>3, VariableTypes DEF AccessTypeOK, RequestSet
  <2>5. ends[u] = {}
    BY <1>0, <1>1, UserTypes DEF GateFits
  <2>6. Admitted(r)'
    BY <1>0, <1>4, <2>2, AdmittedSame
  <2>7. RequestFits(r)' /\ AttachFits(r)'
    <3>1. RequestFits(r)'
      BY <1>0, <2>2, RequestTypes DEF RequestFits
    <3>2. AttachFits(r)'
      BY <1>0, <1>1, <2>2, <2>3, <2>5, <2>6, RequestTypes DEF AttachFits
    <3> QED BY <3>1, <3>2
  <2>8. ASSUME NEW q \in Requests, q # r
        PROVE  RequestFits(q)' /\ AttachFits(q)'
    <3>1. RequestFits(q) /\ AttachFits(q)
      BY RequestTypes
    <3>2. Admitted(q)' <=> Admitted(q)
      BY <1>0, <2>3, <2>8, AdmittedSame
    <3>3. RequestFits(q)'
      BY <1>0, <2>3, <2>8, <3>1 DEF RequestFits
    <3>4. req[q].at = "checked" => req[q].user # u /\ req[q].user \in Users
      BY <1>0, <1>1, <2>8, <3>1, RequestTypes DEF AttachFits, RequestFits, AccessAssumption
    <3>5. AttachFits(q)'
      BY <1>0, <2>3, <2>8, <3>1, <3>2, <3>4 DEF AttachFits
    <3> QED BY <3>3, <3>5
  <2>9. ASSUME NEW v \in Users
        PROVE  GateFits(v)' /\ LeasesFit(v)' /\ (account'[v] = "off" => SessionsOf(v)' = {})
    <3>0. GateFits(v) /\ LeasesFit(v) /\ (account[v] = "off" => SessionsOf(v) = {})
      BY UserTypes
    <3>1. GateFits(v)'
      <4>1. CASE v = u
        <5>1. req[r].op \in LeaseOps
          BY <1>0, RequestTypes DEF RequestFits
        <5> QED BY <1>1, <2>2, <2>3, <4>1, <5>1 DEF GateFits
      <4>2. CASE v # u
        <5>1. gate'[v] = gate[v] /\ gate[v] # r /\ (gate[v] = Nil \/ gate[v] \in Requests)
          BY <1>2, <2>3, <4>2, UserTypes
        <5> QED BY <1>0, <2>3, <3>0, <5>1 DEF GateFits
      <4> QED BY <4>1, <4>2
    <3>2. LeasesFit(v)'
      <4> SUFFICES ASSUME NEW q \in LeasesOf(v)', q \notin ends'[v]
                   PROVE  Admitted(q)' /\ (must'[v] => req'[q].op \in Exempt \cup {"push"})
        BY DEF LeasesFit
      <4>1. q \in Requests /\ q # r /\ Live(q)' /\ req'[q].user = v
        BY <2>2 DEF LeasesOf, Live
      <4>2. req'[q] = req[q] /\ q \in LeasesOf(v)
        BY <2>3, <4>1 DEF LeasesOf, Live
      <4>3. Admitted(q)' <=> Admitted(q)
        BY <1>0, <4>1, <4>2, AdmittedSame
      <4> QED BY <1>0, <3>0, <4>2, <4>3 DEF LeasesFit
    <3>3. account'[v] = "off" => SessionsOf(v)' = {}
      BY <1>0, <3>0 DEF SessionsOf
    <3> QED BY <3>1, <3>2, <3>3
  <2> QED BY <2>4, <2>7, <2>8, <2>9 DEF AccessInv
<1> QED BY <1>3, <1>4

\* The lease is entered and the gate left: it holds that gate only.
LEMMA AttachEnterKeeps ==
    ASSUME AccessAssumption, AccessInv, NEW r \in Requests, AttachEnter(r)
    PROVE  AccessInv'
<1> DEFINE u == req[r].user
<1>0. req[r].at = "checked" /\ UNCHANGED <<accountVars, ends>> /\ Moves(r, "live")
  BY DEF AttachEnter
<1>1. /\ u \in Users /\ gate[u] = r /\ ends[u] = {} /\ Admitted(r) /\ r # Nil
      /\ RequestFits(r) /\ AttachFits(r)
  BY <1>0, RequestTypes DEF RequestFits, AttachFits, AccessAssumption
<1>2. \A v \in Users : gate[v] = r => v = u
  BY <1>0, <1>1, UserTypes DEF GateFits
<1>3. PICK x \in RequestSet :
          /\ req' = [req EXCEPT ![r] = x] /\ x.at = "live" /\ req'[r] = x
          /\ x.op = req[r].op /\ x.user = u /\ x.sess = req[r].sess
          /\ x.target = req[r].target /\ x.seen = req[r].seen
  BY <1>0, MoveTo
<1>4. /\ \A q \in Requests : q # r => req'[q] = req[q]
      /\ req' \in [Requests -> RequestSet]
      /\ gate' \in [Users -> Requests \cup {Nil}]
      /\ gate'[u] = Nil /\ \A v \in Users : v # u => gate'[v] = gate[v]
  BY <1>1, <1>2, <1>3, VariableTypes DEF AttachEnter
<1>5. AccessTypeOK'
  BY <1>0, <1>4, VariableTypes DEF AccessTypeOK, RequestSet
<1>6. RequestFits(r)' /\ AttachFits(r)'
  BY <1>0, <1>1, <1>3 DEF RequestFits, AttachFits
<1>7. ASSUME NEW q \in Requests, q # r
      PROVE  RequestFits(q)' /\ AttachFits(q)'
  <2>1. RequestFits(q) /\ AttachFits(q)
    BY RequestTypes
  <2>2. Admitted(q)' <=> Admitted(q)
    BY <1>0, <1>4, <1>7, AdmittedSame
  <2>3. RequestFits(q)'
    BY <1>0, <1>4, <1>7, <2>1 DEF RequestFits
  <2>4. req[q].at = "checked" => req[q].user # u /\ req[q].user \in Users
    BY <1>1, <1>7, <2>1 DEF AttachFits, RequestFits
  <2>5. AttachFits(q)'
    BY <1>0, <1>4, <1>7, <2>1, <2>2, <2>4 DEF AttachFits
  <2> QED BY <2>3, <2>5
<1>8. ASSUME NEW v \in Users
      PROVE  GateFits(v)' /\ LeasesFit(v)' /\ (account'[v] = "off" => SessionsOf(v)' = {})
  <2>0. GateFits(v) /\ LeasesFit(v) /\ (account[v] = "off" => SessionsOf(v) = {})
    BY UserTypes
  <2>1. GateFits(v)'
    <3>1. CASE v = u
      BY <1>0, <1>1, <1>4, <3>1 DEF GateFits
    <3>2. CASE v # u
      <4>1. gate'[v] = gate[v] /\ gate[v] # r /\ (gate[v] = Nil \/ gate[v] \in Requests)
        BY <1>2, <1>4, <3>2, UserTypes
      <4> QED BY <1>0, <1>4, <2>0, <4>1 DEF GateFits
    <3> QED BY <3>1, <3>2
  <2>2. LeasesFit(v)'
    <3> SUFFICES ASSUME NEW q \in LeasesOf(v)', q \notin ends'[v]
                 PROVE  Admitted(q)' /\ (must'[v] => req'[q].op \in Exempt \cup {"push"})
      BY DEF LeasesFit
    <3>1. q \in Requests /\ Live(q)' /\ req'[q].user = v
      BY DEF LeasesOf
    <3>2. req'[q].user = req[q].user /\ req'[q].sess = req[q].sess /\ req'[q].op = req[q].op
      BY <1>3, <1>4, <3>1
    <3>3. Admitted(q)' <=> Admitted(q)
      BY <1>0, <3>1, <3>2, AdmittedSame
    <3>4. CASE q = r
      <4>1. must[u] /\ req[r].sess # Nil => req[r].op \in Exempt
        BY <1>0, <1>1 DEF AttachFits, Admitted, Valid
      <4>2. req[r].sess = Nil => req[r].op = "push"
        BY <1>0, <1>1, RequestTypes DEF RequestFits
      <4> QED BY <1>0, <1>1, <1>3, <3>1, <3>2, <3>3, <3>4, <4>1, <4>2
    <3>5. CASE q # r
      <4>1. q \in LeasesOf(v)
        BY <1>4, <3>1, <3>5 DEF LeasesOf, Live
      <4> QED BY <1>0, <2>0, <3>2, <3>3, <4>1 DEF LeasesFit
    <3> QED BY <3>4, <3>5
  <2>3. account'[v] = "off" => SessionsOf(v)' = {}
    BY <1>0, <2>0 DEF SessionsOf
  <2> QED BY <2>1, <2>2, <2>3
<1> QED BY <1>5, <1>6, <1>7, <1>8 DEF AccessInv

\* A login that was verified gets a session, if its user is enabled still.
LEMMA IssueKeeps ==
    ASSUME AccessAssumption, AccessInv, NEW r \in Requests, Issue(r)
    PROVE  AccessInv'
<1> DEFINE u == req[r].user
<1>0. /\ req[r].at = "issue" /\ Stops(r) /\ UNCHANGED <<account, hash, must, gate, ends>>
      /\ r # Nil /\ u \in Users
  BY RequestTypes DEF Issue, AccessAssumption, RequestFits
<1>1. \A v \in Users : gate[v] # r
  BY <1>0, NoGateYet
<1>2. PICK s \in Sessions :
          userOf[s] = Nil /\ userOf' = IF account[u] = "on" THEN [userOf EXCEPT ![s] = u]
                                                            ELSE userOf
  <2>1. {s \in Sessions : userOf[s] = Nil} # {}
    BY DEF Issue
  <2>2. \E s \in {t \in Sessions : userOf[t] = Nil} : CreateSession(s, u)
    BY <2>1 DEF Issue
  <2> QED BY <2>2 DEF CreateSession
<1>3. /\ userOf' \in [Sessions -> Users \cup {Nil, "gone"}]
      /\ \A t \in Sessions : userOf[t] # Nil => userOf'[t] = userOf[t]
      /\ \A t \in Sessions : userOf'[t] = userOf[t] \/ (userOf'[t] = u /\ account[u] = "on")
  BY <1>0, <1>2, VariableTypes
<1>4. /\ req' = [req EXCEPT ![r] = Idle] /\ req'[r] = Idle
      /\ \A q \in Requests : q # r => req'[q] = req[q]
      /\ req' \in [Requests -> RequestSet]
  BY <1>0, IdleFits, VariableTypes DEF Stops, Becomes
<1>5. AccessTypeOK'
  BY <1>0, <1>3, <1>4, VariableTypes DEF AccessTypeOK, RequestSet
<1>6. RequestFits(r)' /\ AttachFits(r)' /\ ~Live(r)'
  BY <1>4, IdleFits DEF RequestFits, AttachFits, Live
<1>7. ASSUME NEW q \in Requests, q # r
      PROVE  /\ RequestFits(q)' /\ AttachFits(q)'
             /\ req[q].user \in Users /\ Admitted(q) => Admitted(q)'
  <2>1. RequestFits(q) /\ AttachFits(q)
    BY RequestTypes
  <2>2. req[q].user \in Users => req[q].user # Nil /\ req[q].user # "gone"
    BY DEF AccessAssumption
  <2>3. /\ req'[q] = req[q]
        /\ req[q].sess # Nil => req[q].sess \in Sessions
    BY <1>4, <1>7, RequestTypes
  <2>4. req[q].sess # Nil /\ req[q].at # "idle" =>
            userOf'[req[q].sess] = userOf[req[q].sess]
    BY <1>3, <2>1, <2>2, <2>3 DEF RequestFits, AccessAssumption
  <2>5. req[q].user \in Users /\ Admitted(q) => Admitted(q)'
    BY <1>0, <1>3, <2>2, <2>3 DEF Admitted, Valid
  <2>6. RequestFits(q)'
    <3>1. req[q].sess # Nil => userOf[req[q].sess] \in {req[q].user, "gone"}
      BY <2>1 DEF RequestFits
    <3>2. CASE req[q].sess # Nil /\ userOf[req[q].sess] = Nil
      <4>1. req[q].user \in Users
        BY <2>1, <3>2 DEF RequestFits
      <4> QED BY <2>2, <3>1, <3>2, <4>1 DEF AccessAssumption
    <3>3. CASE req[q].sess = Nil \/ userOf[req[q].sess] # Nil
      BY <1>3, <2>1, <2>3, <3>3 DEF RequestFits
    <3> QED BY <3>2, <3>3
  <2>7. AttachFits(q)'
    BY <1>0, <2>1, <2>3, <2>4, <2>5 DEF AttachFits, RequestFits
  <2> QED BY <2>5, <2>6, <2>7
<1>8. ASSUME NEW v \in Users
      PROVE  GateFits(v)' /\ LeasesFit(v)' /\ (account'[v] = "off" => SessionsOf(v)' = {})
  <2>0. GateFits(v) /\ LeasesFit(v) /\ (account[v] = "off" => SessionsOf(v) = {})
    BY UserTypes
  <2>1. GateFits(v)'
    <3>1. gate[v] # r /\ (gate[v] = Nil \/ gate[v] \in Requests)
      BY <1>1, UserTypes
    <3> QED BY <1>0, <1>4, <2>0, <3>1 DEF GateFits
  <2>2. LeasesFit(v)'
    <3> SUFFICES ASSUME NEW q \in LeasesOf(v)', q \notin ends'[v]
                 PROVE  Admitted(q)' /\ (must'[v] => req'[q].op \in Exempt \cup {"push"})
      BY DEF LeasesFit
    <3>1. q \in Requests /\ q # r /\ req'[q].user = v
      BY <1>6 DEF LeasesOf
    <3>2. req'[q] = req[q] /\ q \in LeasesOf(v)
      BY <1>4, <3>1 DEF LeasesOf, Live
    <3> QED BY <1>0, <1>7, <2>0, <3>1, <3>2 DEF LeasesFit
  <2>3. account'[v] = "off" => SessionsOf(v)' = {}
    BY <1>0, <1>3, <2>0 DEF SessionsOf
  <2> QED BY <2>1, <2>2, <2>3
<1> QED BY <1>5, <1>6, <1>7, <1>8 DEF AccessInv

(***************************************************************************)
(* Changes that take access away                                           *)
(***************************************************************************)
\* A committed change keeps the invariant if every lease that it takes the
\* access of will be canceled by the request that holds the gate.
LEMMA TakesKeeps ==
    ASSUME AccessAssumption, AccessInv, NEW r \in Requests, NEW u \in Users,
           NEW gone \in SUBSET SessionsOf(u), NEW out \in SUBSET LeasesOf(u),
           Takes(r, u, gone, out), Live(r),
           req' = req \/ (req[r].at = "hashed" /\ Moves(r, "live")),
           hash' \in [Users -> 0..MaxHash], must' \in [Users -> BOOLEAN],
           \/ account' = account
           \/ account' = [account EXCEPT ![u] = "off"] /\ gone = SessionsOf(u),
           \A v \in Users \ {u} : must'[v] = must[v],
           must'[u] => must[u] \/ (gone = SessionsOf(u) /\ out = LeasesOf(u)),
           \A l \in LeasesOf(u) \ out : Admitted(l)'
    PROVE  AccessInv'
<1>0. /\ r # Nil /\ gate[u] = Nil /\ ends[u] = {}
      /\ \A v \in Users : GateFits(v) /\ LeasesFit(v)
      /\ \A v \in Users : account[v] = "off" => SessionsOf(v) = {}
  BY UserTypes DEF Takes, GateFits, AccessAssumption
<1>1. /\ gate' \in [Users -> Requests \cup {Nil}] /\ ends' \in [Users -> SUBSET Requests]
      /\ gate'[u] = r /\ ends'[u] = out
      /\ \A v \in Users : v # u => gate'[v] = gate[v] /\ ends'[v] = ends[v]
  BY VariableTypes DEF Takes, LeasesOf
<1>2. /\ userOf' \in [Sessions -> Users \cup {Nil, "gone"}]
      /\ \A s \in Sessions : userOf'[s] = IF s \in gone THEN "gone" ELSE userOf[s]
      /\ \A s \in gone : s \in Sessions /\ userOf[s] = u
  BY VariableTypes DEF Takes, SessionsOf
<1>3. /\ account' \in [Users -> {"on", "off"}]
      /\ \A v \in Users : v # u => account'[v] = account[v]
      /\ account'[u] = account[u] \/ gone = SessionsOf(u)
  BY VariableTypes
<1>4. /\ req' \in [Requests -> RequestSet]
      /\ \A q \in Requests :
            /\ req'[q].op = req[q].op /\ req'[q].user = req[q].user
            /\ req'[q].sess = req[q].sess /\ req'[q].target = req[q].target
            /\ q # r => req'[q] = req[q]
      /\ req'[r].at \in {"live", "hashing", "hashed"}
      /\ req'[r].at # req[r].at => req'[r].at = "live" /\ req[r].at = "hashed"
  <2>1. CASE req' = req
    BY <2>1, VariableTypes DEF Live
  <2>2. CASE req[r].at = "hashed" /\ Moves(r, "live")
    <3>1. PICK x \in RequestSet :
              /\ req' = [req EXCEPT ![r] = x] /\ x.at = "live" /\ req'[r] = x
              /\ x.op = req[r].op /\ x.user = req[r].user /\ x.sess = req[r].sess
              /\ x.target = req[r].target /\ x.seen = req[r].seen
      BY <2>2, MoveTo
    <3> QED BY <2>2, <3>1, VariableTypes
  <2> QED BY <2>1, <2>2
<1>5. AccessTypeOK'
  BY <1>1, <1>2, <1>3, <1>4 DEF AccessTypeOK, RequestSet
<1>6. req[r].at \in {"live", "hashing", "hashed"} /\ req[r].op \in LeaseOps
  BY DEF Live
<1>7. \A q \in Requests : Live(q)' <=> Live(q)
  BY <1>4, <1>6 DEF Live
<1>8. \A v \in Users : LeasesOf(v)' = LeasesOf(v)
  BY <1>4, <1>7 DEF LeasesOf
<1>9. ASSUME NEW q \in Requests, req[q].user \in Users \ {u}, Admitted(q)
      PROVE  Admitted(q)'
  <2>1. CASE req[q].sess = Nil
    BY <1>3, <1>4, <1>9, <2>1 DEF Admitted
  <2>2. CASE req[q].sess # Nil
    <3>1. req[q].sess \in Sessions /\ userOf[req[q].sess] = req[q].user
      BY <1>9, <2>2, RequestTypes DEF Admitted, Valid
    <3>2. userOf'[req[q].sess] = req[q].user
      BY <1>2, <1>9, <3>1
    <3> QED BY <1>3, <1>4, <1>9, <2>2, <3>2 DEF Admitted, Valid
  <2> QED BY <2>1, <2>2
<1>10. ASSUME NEW q \in Requests
       PROVE  RequestFits(q)' /\ AttachFits(q)'
  <2>1. RequestFits(q) /\ AttachFits(q) /\ req[q].sess \in Sessions \cup {Nil}
    BY RequestTypes
  <2>2. RequestFits(q)'
    <3>1. CASE q = r
      BY <1>2, <1>4, <1>6, <2>1, <3>1 DEF RequestFits
    <3>2. CASE q # r
      BY <1>2, <1>4, <2>1, <3>2 DEF RequestFits
    <3> QED BY <3>1, <3>2
  <2>3. AttachFits(q)'
    <3>1. CASE q = r
      BY <1>4, <3>1 DEF AttachFits
    <3>2. CASE q # r
      <4>0. req'[q] = req[q]
        BY <1>4, <3>2
      <4>1. ASSUME req[q].at = "checked"
            PROVE  gate'[req[q].user] = q /\ ends'[req[q].user] = {} /\ Admitted(q)'
        <5>1. req[q].user \in Users \ {u} /\ Admitted(q)
          BY <1>0, <2>1, <4>1 DEF RequestFits, AttachFits, AccessAssumption
        <5> QED BY <1>1, <1>9, <2>1, <4>1, <5>1 DEF AttachFits
      <4>2. ASSUME req[q].at \in {"looked", "checked"}, req[q].sess # Nil,
                   userOf'[req[q].sess] = req[q].user, must'[req[q].user]
            PROVE  req[q].op \in Exempt
        <5>1. req[q].user \in Users /\ req[q].user # "gone" /\ req[q].sess \in Sessions
          BY <2>1, <4>2 DEF RequestFits, AccessAssumption
        <5>2. req[q].sess \notin gone /\ userOf[req[q].sess] = req[q].user
          BY <1>2, <4>2, <5>1
        <5>3. must[req[q].user]
          BY <4>2, <5>1, <5>2 DEF SessionsOf
        <5> QED BY <2>1, <4>2, <5>2, <5>3 DEF AttachFits
      <4> QED BY <4>0, <4>1, <4>2 DEF AttachFits
    <3> QED BY <3>1, <3>2
  <2> QED BY <2>2, <2>3
<1>11. ASSUME NEW v \in Users
       PROVE  GateFits(v)' /\ LeasesFit(v)' /\ (account'[v] = "off" => SessionsOf(v)' = {})
  <2>1. GateFits(v)'
    <3>1. CASE v = u
      BY <1>0, <1>1, <1>4, <1>6, <3>1 DEF GateFits
    <3>2. CASE v # u
      <4>1. gate'[v] = gate[v] /\ (gate[v] = Nil \/ gate[v] \in Requests)
        BY <1>1, <3>2, UserTypes
      <4>2. gate[v] # Nil => \/ req'[gate[v]] = req[gate[v]]
                              \/ gate[v] = r
        BY <1>4, <4>1
      <4> QED BY <1>0, <1>1, <1>4, <1>6, <3>2, <4>1, <4>2 DEF GateFits
    <3> QED BY <3>1, <3>2
  <2>2. LeasesFit(v)'
    <3> SUFFICES ASSUME NEW q \in LeasesOf(v), q \notin ends'[v]
                 PROVE  Admitted(q)' /\ (must'[v] => req'[q].op \in Exempt \cup {"push"})
      BY <1>8 DEF LeasesFit
    <3>1. q \in Requests /\ req[q].user = v /\ req'[q].op = req[q].op
      BY <1>4 DEF LeasesOf
    <3>2. CASE v = u
      <4>1. q \in LeasesOf(u) \ out /\ q \notin ends[u]
        BY <1>0, <1>1, <3>2
      <4>2. must'[u] => must[u]
        BY <4>1
      <4> QED BY <1>0, <3>1, <3>2, <4>1, <4>2 DEF LeasesFit
    <3>3. CASE v # u
      <4>1. Admitted(q) /\ (must[v] => req[q].op \in Exempt \cup {"push"})
        BY <1>0, <1>1, <3>3 DEF LeasesFit
      <4> QED BY <1>9, <3>1, <3>3, <4>1
    <3> QED BY <3>2, <3>3
  <2>3. account'[v] = "off" => SessionsOf(v)' = {}
    <3> SUFFICES ASSUME account'[v] = "off", NEW s \in Sessions, userOf'[s] = v PROVE FALSE
      BY DEF SessionsOf
    <3>1. s \notin gone /\ s \in SessionsOf(v)
      BY <1>2 DEF SessionsOf, AccessAssumption
    <3>2. account[v] # "off"
      BY <1>0, <3>1
    <3>3. v = u /\ gone = SessionsOf(u)
      BY <1>3, <3>2
    <3> QED BY <3>1, <3>3
  <2> QED BY <2>1, <2>2, <2>3
<1> QED BY <1>5, <1>10, <1>11 DEF AccessInv

\* A password is reset: the user's logins and leases go.
LEMMA ResetPasswordKeeps ==
    ASSUME AccessAssumption, AccessInv, NEW r \in Requests, ResetPassword(r)
    PROVE  AccessInv'
<1> DEFINE u == req[r].target
<1>1. /\ req[r].at = "hashed" /\ req[r].op = "reset" /\ hash[u] < MaxHash
      /\ Takes(r, u, SessionsOf(u), LeasesOf(u)) /\ Moves(r, "live") /\ account' = account
      /\ hash' = [hash EXCEPT ![u] = @ + 1] /\ must' = [must EXCEPT ![u] = TRUE]
  BY DEF ResetPassword
<1>2. u \in Users /\ Live(r)
  BY <1>1, RequestTypes DEF RequestFits, Live
<1>3. hash' \in [Users -> 0..MaxHash] /\ must' \in [Users -> BOOLEAN]
  BY <1>1, <1>2, VariableTypes DEF AccessAssumption
<1>4. \A v \in Users \ {u} : must'[v] = must[v]
  BY <1>1, VariableTypes
<1> HIDE DEF u
<1> QED BY <1>1, <1>2, <1>3, <1>4, TakesKeeps

\* A password is changed: the logins and leases but those of the request go.
LEMMA ChangePasswordKeeps ==
    ASSUME AccessAssumption, AccessInv, NEW r \in Requests, ChangePassword(r)
    PROVE  AccessInv'
<1> DEFINE u == req[r].user
           s == req[r].sess
<1>1. /\ req[r].at = "hashed" /\ req[r].op = "password" /\ hash[u] < MaxHash
      /\ Moves(r, "live") /\ account' = account
  BY DEF ChangePassword
<1>2. u \in Users /\ Live(r) /\ s # Nil
  BY <1>1, RequestTypes DEF RequestFits, Live
<1>3. CASE MayChange(r)
  <2> DEFINE gone == SessionsOf(u) \ {s}
             out == {l \in LeasesOf(u) : req[l].sess # s}
  <2>1. /\ Takes(r, u, gone, out)
        /\ hash' = [hash EXCEPT ![u] = @ + 1] /\ must' = [must EXCEPT ![u] = FALSE]
    BY <1>3 DEF ChangePassword
  <2>2. hash' \in [Users -> 0..MaxHash] /\ must' \in [Users -> BOOLEAN]
    BY <1>1, <1>2, <2>1, VariableTypes DEF AccessAssumption
  <2>3. \A v \in Users : must'[v] = IF v = u THEN FALSE ELSE must[v]
    BY <1>2, <2>1, VariableTypes
  <2>4. ASSUME NEW l \in LeasesOf(u) \ out
        PROVE  Admitted(l)'
    <3>1. l \in Requests /\ req[l].user = u /\ req[l].sess = s
      BY DEF LeasesOf
    <3>2. s \in Sessions /\ userOf[s] = u /\ account[u] = "on"
      BY <1>2, <1>3, RequestTypes DEF MayChange, Valid
    <3>3. userOf'[s] = u
      BY <2>1, <3>2 DEF Takes
    <3>4. req'[l].user = req[l].user /\ req'[l].sess = req[l].sess
      <4>1. CASE l = r
        BY <1>1, <4>1, MoveTo
      <4>2. CASE l # r
        BY <1>1, <3>1, <4>2, VariableTypes DEF Moves
      <4> QED BY <4>1, <4>2
    <3> QED BY <1>1, <1>2, <3>1, <3>2, <3>3, <3>4 DEF Admitted, Valid
  <2>5. gone \in SUBSET SessionsOf(u) /\ out \in SUBSET LeasesOf(u)
    OBVIOUS
  <2> HIDE DEF gone, out, u, s
  <2> QED BY <1>1, <1>2, <2>1, <2>2, <2>3, <2>4, <2>5, TakesKeeps
<1>4. CASE ~MayChange(r)
  <2>1. UNCHANGED <<accountVars, gate, ends>>
    BY <1>1, <1>4 DEF ChangePassword
  <2>2. PICK x \in RequestSet :
            /\ req' = [req EXCEPT ![r] = x] /\ x.at = "live" /\ req'[r] = x
            /\ x.op = req[r].op /\ x.user = req[r].user /\ x.sess = req[r].sess
            /\ x.target = req[r].target /\ x.seen = req[r].seen
    BY <1>1, MoveTo
  <2>3. RequestFits(r)' /\ AttachFits(r)'
    BY <1>1, <2>1, <2>2, RequestTypes DEF RequestFits, AttachFits
  <2> QED BY <1>1, <1>2, <2>1, <2>2, <2>3, OnlyRequest
<1> QED BY <1>3, <1>4

\* A user is disabled.
LEMMA DisableKeeps ==
    ASSUME AccessAssumption, AccessInv, NEW r \in Requests, NEW u \in Users, Disable(r, u)
    PROVE  AccessInv'
<1>1. /\ Takes(r, u, SessionsOf(u), LeasesOf(u)) /\ account' = [account EXCEPT ![u] = "off"]
      /\ UNCHANGED <<hash, must, req>> /\ Live(r)
  BY DEF Disable, Administers, Live
<1> QED BY <1>1, VariableTypes, TakesKeeps

\* Logins of a user end, by an administrator or by a logout.
LEMMA RevokeKeeps ==
    ASSUME AccessAssumption, AccessInv, NEW r \in Requests, NEW u \in Users,
           NEW gone \in SUBSET Sessions, Revoke(r, u, gone)
    PROVE  AccessInv'
<1> DEFINE out == {l \in LeasesOf(u) : req[l].sess \in gone}
<1>1. /\ Takes(r, u, gone, out) /\ gone \subseteq SessionsOf(u)
      /\ UNCHANGED <<account, hash, must, req>> /\ req[r].at = "live"
  BY DEF Revoke, MayRevoke, MayLogOut, Administers
<1>2. Live(r)
  BY <1>1, RequestTypes DEF Live, RequestFits
<1>3. ASSUME NEW l \in LeasesOf(u) \ out
      PROVE  Admitted(l)'
  <2>1. l \in Requests /\ req[l].user = u /\ req[l].sess \notin gone
    BY DEF LeasesOf
  <2>2. ends[u] = {}
    BY <1>1, UserTypes DEF Takes, GateFits
  <2>3. Admitted(l)
    BY <2>2, UserTypes DEF LeasesFit
  <2>4. req[l].sess \in Sessions => userOf'[req[l].sess] = userOf[req[l].sess]
    BY <1>1, <2>1 DEF Takes
  <2> QED BY <1>1, <2>1, <2>3, <2>4, RequestTypes DEF Admitted, Valid
<1>4. out \in SUBSET LeasesOf(u)
  OBVIOUS
<1> HIDE DEF out
<1> QED BY <1>1, <1>2, <1>3, <1>4, VariableTypes, TakesKeeps

\* A user who is enabled again has no login left.
LEMMA EnableKeeps ==
    ASSUME AccessAssumption, AccessInv, NEW r \in Requests, NEW u \in Users, Enable(r, u)
    PROVE  AccessInv'
<1>1. /\ account' = [account EXCEPT ![u] = "on"]
      /\ UNCHANGED <<hash, must, userOf, gate, ends, req>>
  BY DEF Enable
<1>2. AccessTypeOK'
  BY <1>1, VariableTypes DEF AccessTypeOK, RequestSet
<1>3. ASSUME NEW q \in Requests, Admitted(q) PROVE Admitted(q)'
  BY <1>1, <1>3, VariableTypes DEF Admitted, Valid
<1>4. ASSUME NEW q \in Requests PROVE RequestFits(q)' /\ AttachFits(q)'
  <2>1. RequestFits(q)'
    BY <1>1, RequestTypes DEF RequestFits
  <2>2. AttachFits(q)'
    BY <1>1, <1>3, RequestTypes DEF AttachFits
  <2> QED BY <2>1, <2>2
<1>5. ASSUME NEW v \in Users
      PROVE  GateFits(v)' /\ LeasesFit(v)' /\ (account'[v] = "off" => SessionsOf(v)' = {})
  <2>1. GateFits(v)'
    BY <1>1, UserTypes DEF GateFits
  <2>2. LeasesFit(v)'
    <3>1. LeasesOf(v)' = LeasesOf(v)
      BY <1>1 DEF LeasesOf, Live
    <3>2. \A q \in LeasesOf(v) : q \in Requests
      BY DEF LeasesOf
    <3> QED BY <1>1, <1>3, <3>1, <3>2, UserTypes DEF LeasesFit
  <2>3. account'[v] = "off" => SessionsOf(v)' = {}
    BY <1>1, UserTypes, VariableTypes DEF SessionsOf
  <2> QED BY <2>1, <2>2, <2>3
<1> QED BY <1>2, <1>4, <1>5 DEF AccessInv

\* Leases that are canceled leave the others as they were.
LEMMA CancelSome ==
    ASSUME AccessInv, NEW out \in SUBSET Requests,
           req' = [q \in Requests |-> IF q \in out /\ Live(q)
                                      THEN [req[q] EXCEPT !.at = "canceled"] ELSE req[q]]
    PROVE  /\ req' \in [Requests -> RequestSet]
           /\ \A q \in Requests :
                 /\ req'[q].op = req[q].op /\ req'[q].user = req[q].user
                 /\ req'[q].sess = req[q].sess /\ req'[q].target = req[q].target
                 /\ \/ req'[q] = req[q]
                    \/ Live(q) /\ req'[q].at = "canceled"
                 /\ q \in out => ~Live(q)'
                 /\ q \notin out => req'[q] = req[q]
<1> SUFFICES ASSUME NEW q \in Requests
             PROVE  /\ req'[q] \in RequestSet
                    /\ req'[q].op = req[q].op /\ req'[q].user = req[q].user
                    /\ req'[q].sess = req[q].sess /\ req'[q].target = req[q].target
                    /\ \/ req'[q] = req[q]
                       \/ Live(q) /\ req'[q].at = "canceled"
                    /\ q \in out => ~Live(q)'
                    /\ q \notin out => req'[q] = req[q]
  OBVIOUS
<1>1. req[q] \in RequestSet
  BY VariableTypes
<1>2. CASE q \in out /\ Live(q)
  <2>1. req'[q] = [req[q] EXCEPT !.at = "canceled"]
    BY <1>2
  <2> QED BY <1>1, <1>2, <2>1 DEF RequestSet, Live
<1>3. CASE ~(q \in out /\ Live(q))
  BY <1>1, <1>3 DEF Live
<1> QED BY <1>2, <1>3

\* What cancels leases that may not live keeps the parts about one request.
LEMMA CancelFits ==
    ASSUME AccessInv, NEW q \in Requests,
           req'[q].op = req[q].op, req'[q].user = req[q].user,
           req'[q].sess = req[q].sess, req'[q].target = req[q].target,
           req'[q] = req[q] \/ (Live(q) /\ req'[q].at = "canceled"),
           req[q].sess # Nil => userOf'[req[q].sess] \in {userOf[req[q].sess], "gone"}
    PROVE  RequestFits(q)'
<1>1. RequestFits(q)
  BY RequestTypes
<1>2. CASE req'[q] = req[q]
  BY <1>1, <1>2 DEF RequestFits
<1>3. CASE Live(q) /\ req'[q].at = "canceled"
  BY <1>1, <1>3 DEF RequestFits, Live
<1> QED BY <1>2, <1>3

\* A login ends: its leases end with it.
LEMMA LoginExpires ==
    ASSUME AccessAssumption, AccessInv, NEW s \in Sessions, ExpireLogin(s)
    PROVE  AccessInv'
<1> DEFINE out == {q \in Requests : req[q].sess = s}
<1>1. /\ userOf[s] \in Users /\ gate[userOf[s]] = Nil
      /\ userOf' = [userOf EXCEPT ![s] = "gone"]
      /\ UNCHANGED <<account, hash, must, gate, ends>>
  BY DEF ExpireLogin
<1>2. req' = [q \in Requests |-> IF q \in out /\ Live(q)
                                 THEN [req[q] EXCEPT !.at = "canceled"] ELSE req[q]]
  BY DEF ExpireLogin
<1>3. out \in SUBSET Requests
  OBVIOUS
<1>4. /\ req' \in [Requests -> RequestSet]
      /\ \A q \in Requests :
            /\ req'[q].op = req[q].op /\ req'[q].user = req[q].user
            /\ req'[q].sess = req[q].sess /\ req'[q].target = req[q].target
            /\ \/ req'[q] = req[q]
               \/ Live(q) /\ req'[q].at = "canceled"
            /\ q \in out => ~Live(q)'
            /\ q \notin out => req'[q] = req[q]
  <2> HIDE DEF out
  <2> QED BY <1>2, <1>3, CancelSome
<1>5. /\ userOf' \in [Sessions -> Users \cup {Nil, "gone"}]
      /\ \A t \in Sessions : userOf'[t] = IF t = s THEN "gone" ELSE userOf[t]
  BY <1>1, VariableTypes
<1>6. AccessTypeOK'
  BY <1>1, <1>4, <1>5, VariableTypes DEF AccessTypeOK, RequestSet
<1>7. ASSUME NEW q \in Requests, req[q].sess # s, Admitted(q) PROVE Admitted(q)'
  BY <1>1, <1>4, <1>5, <1>7, RequestTypes DEF Admitted, Valid
<1>8. ASSUME NEW q \in Requests PROVE RequestFits(q)' /\ AttachFits(q)'
  <2>0. RequestFits(q) /\ AttachFits(q) /\ req[q].sess \in Sessions \cup {Nil}
    BY RequestTypes
  <2>1. RequestFits(q)'
    BY <1>4, <1>5, <2>0, CancelFits
  <2>2. AttachFits(q)'
    <3>1. CASE req'[q] = req[q]
      <4>1. ASSUME req[q].at = "checked"
            PROVE  gate'[req[q].user] = q /\ ends'[req[q].user] = {} /\ Admitted(q)'
        <5>1. gate[req[q].user] = q /\ ends[req[q].user] = {} /\ Admitted(q) /\ q # Nil
          BY <2>0, <4>1 DEF AttachFits, AccessAssumption
        <5>2. req[q].sess # s
          BY <1>1, <5>1 DEF Admitted, Valid, AccessAssumption
        <5> QED BY <1>1, <1>7, <5>1, <5>2
      <4>2. ASSUME req[q].at \in {"looked", "checked"}, req[q].sess # Nil,
                   userOf'[req[q].sess] = req[q].user, must'[req[q].user]
            PROVE  req[q].op \in Exempt
        <5>1. req[q].user \in Users /\ req[q].user # "gone" /\ req[q].sess \in Sessions
          BY <2>0, <4>2 DEF RequestFits, AccessAssumption
        <5>2. userOf[req[q].sess] = req[q].user /\ must[req[q].user]
          BY <1>1, <1>5, <4>2, <5>1
        <5> QED BY <2>0, <4>2, <5>2 DEF AttachFits
      <4> QED BY <3>1, <4>1, <4>2 DEF AttachFits
    <3>2. CASE req'[q].at = "canceled"
      BY <3>2 DEF AttachFits
    <3> QED BY <1>4, <3>1, <3>2
  <2> QED BY <2>1, <2>2
<1>9. ASSUME NEW v \in Users
      PROVE  GateFits(v)' /\ LeasesFit(v)' /\ (account'[v] = "off" => SessionsOf(v)' = {})
  <2>0. /\ GateFits(v) /\ LeasesFit(v) /\ (account[v] = "off" => SessionsOf(v) = {})
        /\ gate[v] \in Requests \cup {Nil}
    BY UserTypes
  <2>1. GateFits(v)'
    BY <1>1, <1>4, <2>0 DEF GateFits, Live
  <2>2. LeasesFit(v)'
    <3> SUFFICES ASSUME NEW q \in LeasesOf(v)', q \notin ends'[v]
                 PROVE  Admitted(q)' /\ (must'[v] => req'[q].op \in Exempt \cup {"push"})
      BY DEF LeasesFit
    <3>1. q \in Requests /\ Live(q)' /\ req'[q].user = v
      BY DEF LeasesOf
    <3>2. req'[q] = req[q] /\ req[q].sess # s
      BY <1>4, <3>1
    <3>3. q \in LeasesOf(v)
      BY <3>1, <3>2 DEF LeasesOf, Live
    <3> QED BY <1>1, <1>7, <2>0, <3>1, <3>2, <3>3 DEF LeasesFit
  <2>3. account'[v] = "off" => SessionsOf(v)' = {}
    BY <1>1, <1>5, <2>0 DEF SessionsOf, AccessAssumption
  <2> QED BY <2>1, <2>2, <2>3
<1> QED BY <1>6, <1>8, <1>9 DEF AccessInv

\* The request that holds the gate cancels the leases and leaves it: those
\* that stay are leases the user may have.
LEMMA CancelLeasesKeeps ==
    ASSUME AccessAssumption, AccessInv, NEW u \in Users, CancelLeases(u)
    PROVE  AccessInv'
<1> DEFINE out == ends[u] \cap LeasesOf(u)
<1>1. /\ gate[u] # Nil /\ req[gate[u]].at # "checked"
      /\ gate' = [gate EXCEPT ![u] = Nil] /\ ends' = [ends EXCEPT ![u] = {}]
      /\ UNCHANGED accountVars
  BY DEF CancelLeases
<1>2. req' = [q \in Requests |-> IF q \in out /\ Live(q)
                                 THEN [req[q] EXCEPT !.at = "canceled"] ELSE req[q]]
  BY DEF CancelLeases, LeasesOf
<1>3. out \in SUBSET Requests
  BY DEF LeasesOf
<1>4. /\ req' \in [Requests -> RequestSet]
      /\ \A q \in Requests :
            /\ req'[q].op = req[q].op /\ req'[q].user = req[q].user
            /\ req'[q].sess = req[q].sess /\ req'[q].target = req[q].target
            /\ \/ req'[q] = req[q]
               \/ Live(q) /\ req'[q].at = "canceled"
            /\ q \in out => ~Live(q)'
            /\ q \notin out => req'[q] = req[q]
  <2> HIDE DEF out
  <2> QED BY <1>2, <1>3, CancelSome
<1>5. /\ gate' \in [Users -> Requests \cup {Nil}] /\ ends' \in [Users -> SUBSET Requests]
      /\ gate'[u] = Nil /\ ends'[u] = {}
      /\ \A v \in Users : v # u => gate'[v] = gate[v] /\ ends'[v] = ends[v]
  BY <1>1, VariableTypes
<1>6. AccessTypeOK'
  BY <1>1, <1>4, <1>5, VariableTypes DEF AccessTypeOK, RequestSet
<1>7. ASSUME NEW q \in Requests PROVE Admitted(q)' <=> Admitted(q)
  BY <1>1, <1>4, AdmittedSame
<1>8. ASSUME NEW q \in Requests PROVE RequestFits(q)' /\ AttachFits(q)'
  <2>0. RequestFits(q) /\ AttachFits(q)
    BY RequestTypes
  <2>1. RequestFits(q)'
    BY <1>1, <1>4, CancelFits
  <2>2. AttachFits(q)'
    <3>1. CASE req'[q] = req[q]
      <4>1. req[q].at = "checked" => req[q].user \in Users \ {u}
        BY <1>1, <2>0 DEF AttachFits, RequestFits
      <4> QED BY <1>1, <1>5, <1>7, <2>0, <3>1, <4>1 DEF AttachFits
    <3>2. CASE req'[q].at = "canceled"
      BY <3>2 DEF AttachFits
    <3> QED BY <1>4, <3>1, <3>2
  <2> QED BY <2>1, <2>2
<1>9. ASSUME NEW v \in Users
      PROVE  GateFits(v)' /\ LeasesFit(v)' /\ (account'[v] = "off" => SessionsOf(v)' = {})
  <2>0. /\ GateFits(v) /\ LeasesFit(v) /\ (account[v] = "off" => SessionsOf(v) = {})
        /\ gate[v] \in Requests \cup {Nil}
    BY UserTypes
  <2>1. GateFits(v)'
    <3>1. CASE v = u
      BY <1>5, <3>1 DEF GateFits
    <3>2. CASE v # u
      BY <1>4, <1>5, <2>0, <3>2 DEF GateFits, Live
    <3> QED BY <3>1, <3>2
  <2>2. LeasesFit(v)'
    <3> SUFFICES ASSUME NEW q \in LeasesOf(v)', q \notin ends'[v]
                 PROVE  Admitted(q)' /\ (must'[v] => req'[q].op \in Exempt \cup {"push"})
      BY DEF LeasesFit
    <3>1. q \in Requests /\ Live(q)' /\ req'[q].user = v
      BY DEF LeasesOf
    <3>2. req'[q] = req[q] /\ q \notin out
      BY <1>4, <3>1
    <3>3. q \in LeasesOf(v) /\ q \notin ends[v]
      <4>1. q \in LeasesOf(v)
        BY <3>1, <3>2 DEF LeasesOf, Live
      <4> QED BY <1>5, <3>2, <4>1
    <3> QED BY <1>1, <1>7, <2>0, <3>1, <3>2, <3>3 DEF LeasesFit
  <2>3. account'[v] = "off" => SessionsOf(v)' = {}
    BY <1>1, <2>0 DEF SessionsOf
  <2> QED BY <2>1, <2>2, <2>3
<1> QED BY <1>6, <1>8, <1>9 DEF AccessInv

(***************************************************************************)
(* The theorems                                                            *)
(***************************************************************************)
\* The strengthened invariant holds initially.
LEMMA AccessInitKeeps ==
    ASSUME AccessAssumption, AccessInit
    PROVE  AccessInv
<1>1. req \in [Requests -> RequestSet] /\ \A r \in Requests : req[r] = Idle
  BY IdleFits DEF AccessInit
<1>2. AccessTypeOK
  BY <1>1 DEF AccessInit, AccessTypeOK, RequestSet, AccessAssumption
<1>3. \A r \in Requests : RequestFits(r) /\ AttachFits(r)
  BY <1>1, IdleFits DEF RequestFits, AttachFits
<1>4. ASSUME NEW u \in Users
      PROVE  GateFits(u) /\ LeasesFit(u) /\ (account[u] = "off" => SessionsOf(u) = {})
  BY <1>1, IdleFits DEF AccessInit, GateFits, LeasesFit, LeasesOf, Live
<1> QED BY <1>2, <1>3, <1>4 DEF AccessInv

\* No step changes it.
LEMMA AccessStep ==
    ASSUME AccessAssumption, AccessInv, [AccessNext]_accessVars
    PROVE  AccessInv'
<1>1. ASSUME NEW r \in Requests, RequestStep(r)
      PROVE  AccessInv'
  BY <1>1, BeginLoginKeeps, StartPushKeeps, BeginHashKeeps, DisableKeeps, EnableKeeps,
     RevokeKeeps, LookupKeeps, IssueKeeps, HashedKeeps, AttachCheckKeeps,
     AttachEnterKeeps, ReleaseKeeps, ChangePasswordKeeps, ResetPasswordKeeps
     DEF RequestStep
<1>2. CASE UNCHANGED accessVars
  BY <1>2 DEF accessVars, AccessInv, AccessTypeOK, RequestFits, AttachFits, GateFits,
     LeasesFit, LeasesOf, Live, SessionsOf, Admitted, Valid
<1> QED BY <1>1, <1>2, LoginExpires, CancelLeasesKeeps DEF AccessNext

\* The strengthened invariant holds in every state.
THEOREM AccessInvariance ==
    ASSUME AccessAssumption
    PROVE  AccessSpec => []AccessInv
<1>1. AccessInit => AccessInv
  BY AccessInitKeeps
<1>2. AccessInv /\ [AccessNext]_accessVars => AccessInv'
  BY AccessStep
<1> QED BY <1>1, <1>2, PTL DEF AccessSpec

\* The variables have their types.
THEOREM AccessTypeCorrect ==
    ASSUME AccessAssumption
    PROVE  AccessSpec => []AccessTypeOK
<1>1. AccessInv => AccessTypeOK
  BY DEF AccessInv
<1> QED BY <1>1, AccessInvariance, PTL

\* Access that is taken away is gone when the gate opens, and a request from
\* before a reset is never served after it.
THEOREM AccessFollows ==
    ASSUME AccessAssumption
    PROVE  AccessSpec => []AccessFollowsAccounts
<1>1. AccessInv => AccessFollowsAccounts
  <2> SUFFICES ASSUME AccessInv, NEW u \in Users
               PROVE  /\ account[u] = "off" => SessionsOf(u) = {}
                      /\ gate[u] = Nil => \A r \in LeasesOf(u) : Admitted(r)
                      /\ must[u] /\ gate[u] = Nil =>
                            \A r \in LeasesOf(u) : req[r].op \in Exempt \cup {"push"}
    BY DEF AccessFollowsAccounts, AccessIsCurrent, ResetIsEnforced
  <2> QED BY UserTypes DEF GateFits, LeasesFit
<1> QED BY <1>1, AccessInvariance, PTL

(***************************************************************************)
(* How accounts come to be                                                 *)
(***************************************************************************)

\* The operator of FiniteSets that Registration takes.
LEMMA RegistrationSets == \A S : Registration!Cardinality(S) = Cardinality(S)
BY Zenon DEF Registration!Cardinality, Cardinality

\* What a request does next leaves the others alone.
LEMMA BecomesKeeps ==
    ASSUME Registration!RegistrationInv, NEW r \in Tasks, NEW state, Registration!Becomes(r, state),
           state \in [op : {"bootstrap", "register", "login"}, at : Registration!At,
                      user : Newcomers \cup {None}, seen : Nat, by : Invites \cup {None}],
           state.at # "idle" => /\ state.op # "login" => state.user \in Newcomers
                                /\ state.op = "register" => state.by \in Invites
    PROVE  /\ join' \in [Tasks -> [op : {"bootstrap", "register", "login"}, at : Registration!At,
                                   user : Newcomers \cup {None}, seen : Nat, by : Invites \cup {None}]]
           /\ \A q \in Tasks : Registration!JoinFits(q)'
BY DEF Registration!RegistrationInv, Registration!RegistrationTypeOK, Registration!Becomes,
   Registration!JoinFits

\* A request that stops leaves nothing behind.
LEMMA StopsKeeps ==
    ASSUME Registration!RegistrationInv, NEW r \in Tasks, Registration!Stops(r)
    PROVE  /\ join' \in [Tasks -> [op : {"bootstrap", "register", "login"}, at : Registration!At,
                                   user : Newcomers \cup {None}, seen : Nat, by : Invites \cup {None}]]
           /\ \A q \in Tasks : Registration!JoinFits(q)'
<1>1. /\ Registration!Becomes(r, Registration!Idle) /\ Registration!Idle.at = "idle"
      /\ Registration!Idle \in [op : {"bootstrap", "register", "login"}, at : Registration!At,
                                user : Newcomers \cup {None}, seen : Nat, by : Invites \cup {None}]
  BY DEF Registration!Stops, Registration!Idle, Registration!At
<1> QED BY <1>1, BecomesKeeps

\* One step for each action.
LEMMA RegistrationStepKeeps ==
    ASSUME Registration!RegistrationAssumption, Registration!RegistrationInv, [Registration!RegistrationNext]_(Registration!registrationVars)
    PROVE  Registration!RegistrationInv'
<1> DEFINE Joins == [op : {"bootstrap", "register", "login"}, at : Registration!At,
                     user : Newcomers \cup {None}, seen : Nat, by : Invites \cup {None}]
<1> USE DEF Registration!RegistrationAssumption
<1>1. ASSUME UNCHANGED Registration!rows, join' \in [Tasks -> Joins], \A q \in Tasks : Registration!JoinFits(q)'
      PROVE  Registration!RegistrationInv'
  BY <1>1 DEF Registration!RegistrationInv, Registration!RegistrationTypeOK, Registration!rows
<1>2. ASSUME NEW r \in Tasks, NEW u \in Newcomers, Registration!BeginBootstrap(r, u) PROVE Registration!RegistrationInv'
  <2>1. PICK state : state = [Registration!Idle EXCEPT !.op = "bootstrap", !.at = "hashing", !.user = u]
    OBVIOUS
  <2>2. state \in Joins /\ state.user = u /\ state.op = "bootstrap"
    BY <2>1 DEF Registration!Idle, Registration!At
  <2>3. Registration!Becomes(r, state) /\ UNCHANGED Registration!rows
    BY <1>2, <2>1 DEF Registration!BeginBootstrap
  <2> QED BY <1>1, <2>2, <2>3, BecomesKeeps
<1>3. ASSUME NEW r \in Tasks, NEW u \in Newcomers, NEW i \in Invites, Registration!BeginRegister(r, u, i)
      PROVE  Registration!RegistrationInv'
  <2>1. PICK state : state = [op |-> "register", at |-> "hashing", user |-> u, seen |-> revision, by |-> i]
    OBVIOUS
  <2>2. state \in Joins /\ state.user = u /\ state.by = i
    BY <2>1 DEF Registration!At, Registration!RegistrationInv, Registration!RegistrationTypeOK
  <2>3. Registration!Becomes(r, state) /\ UNCHANGED Registration!rows
    BY <1>3, <2>1 DEF Registration!BeginRegister
  <2> QED BY <1>1, <2>2, <2>3, BecomesKeeps
<1>4. ASSUME NEW r \in Tasks, Registration!BeginLogin(r) PROVE Registration!RegistrationInv'
  <2>1. PICK state : state = [Registration!Idle EXCEPT !.op = "login", !.at = "hashing"]
    OBVIOUS
  <2>2. state \in Joins /\ state.op = "login"
    BY <2>1 DEF Registration!Idle, Registration!At
  <2>3. Registration!Becomes(r, state) /\ UNCHANGED Registration!rows
    BY <1>4, <2>1 DEF Registration!BeginLogin
  <2> QED BY <1>1, <2>2, <2>3, BecomesKeeps
<1>5. ASSUME NEW r \in Tasks, Registration!Hashed(r) PROVE Registration!RegistrationInv'
  <2>1. CASE Registration!Stops(r)
    BY <1>1, <1>5, <2>1, StopsKeeps DEF Registration!Hashed
  <2>2. CASE join' = [join EXCEPT ![r].at = "hashed"]
    <3>1. /\ join' \in [Tasks -> Joins]
          /\ \A q \in Tasks : Registration!JoinFits(q)'
      BY <1>5, <2>2 DEF Registration!Hashed, Registration!RegistrationInv,
         Registration!RegistrationTypeOK, Registration!JoinFits, Registration!At
    <3> QED BY <1>1, <1>5, <3>1 DEF Registration!Hashed
  <2> QED BY <1>5, <2>1, <2>2 DEF Registration!Hashed
<1>6. ASSUME NEW r \in Tasks, Registration!Bootstrap(r) PROVE Registration!RegistrationInv'
  <2>1. Registration!Stops(r) /\ join[r].user \in Newcomers
    BY <1>6 DEF Registration!Bootstrap, Registration!RegistrationInv, Registration!JoinFits
  <2>2. CASE UNCHANGED Registration!rows
    BY <1>1, <2>1, <2>2, StopsKeeps
  <2>3. CASE exists' = {join[r].user} /\ root' = {join[r].user} /\ UNCHANGED <<invite, mode, revision>>
    BY <2>1, <2>3, StopsKeeps DEF Registration!RegistrationInv, Registration!RegistrationTypeOK
  <2> QED BY <1>6, <2>2, <2>3 DEF Registration!Bootstrap
<1>7. ASSUME NEW r \in Tasks, Registration!Register(r) PROVE Registration!RegistrationInv'
  <2> DEFINE u == join[r].user
             i == join[r].by
  <2>1. Registration!Stops(r) /\ u \in Newcomers /\ i \in Invites
    BY <1>7 DEF Registration!Register, Registration!RegistrationInv, Registration!JoinFits
  <2>2. CASE UNCHANGED Registration!rows
    BY <1>1, <2>1, <2>2, StopsKeeps
  <2>3. CASE Registration!MayRegister(r) /\ exists' = exists \cup {u} /\ invite' = [invite EXCEPT ![i] = u]
             /\ UNCHANGED <<root, mode, revision>>
    <3>1. Registration!RegistrationTypeOK'
      BY <2>1, <2>3, StopsKeeps DEF Registration!RegistrationInv, Registration!RegistrationTypeOK
    <3>2. invite[i] = "open" /\ "open" \notin Newcomers
      BY <2>3 DEF Registration!MayRegister
    <3>3. \A x \in exists' \ root' : \E j \in Invites : invite'[j] = x
      <4> SUFFICES ASSUME NEW x \in exists' \ root' PROVE \E j \in Invites : invite'[j] = x
        OBVIOUS
      <4>1. CASE x = u
        BY <2>1, <2>3, <4>1 DEF Registration!RegistrationInv, Registration!RegistrationTypeOK
      <4>2. CASE x # u
        <5>1. PICK j \in Invites : invite[j] = x
          BY <2>3, <4>2 DEF Registration!RegistrationInv
        <5>2. x \in Newcomers /\ j # i
          BY <2>3, <3>2, <4>2, <5>1 DEF Registration!RegistrationInv, Registration!RegistrationTypeOK
        <5> QED BY <2>3, <5>1, <5>2 DEF Registration!RegistrationInv, Registration!RegistrationTypeOK
      <4> QED BY <4>1, <4>2
    <3> QED BY <2>1, <2>3, <3>1, <3>3, StopsKeeps DEF Registration!RegistrationInv
  <2> QED BY <1>7, <2>2, <2>3 DEF Registration!Register
<1>8. ASSUME NEW i \in Invites, Registration!CreateInvite(i) \/ Registration!CloseInvite(i) PROVE Registration!RegistrationInv'
  <2>1. /\ invite[i] \in {"none", "open"} /\ UNCHANGED <<exists, root, mode, revision, join>>
        /\ invite' \in [Invites -> {"none", "open", "closed"} \cup Newcomers]
        /\ \A j \in Invites \ {i} : invite'[j] = invite[j]
    BY <1>8 DEF Registration!CreateInvite, Registration!CloseInvite, Registration!RegistrationInv,
       Registration!RegistrationTypeOK
  <2>2. \A u \in exists \ root : \E j \in Invites \ {i} : invite[j] = u
    <3>1. \A u \in exists : u \in Newcomers
      BY DEF Registration!RegistrationInv, Registration!RegistrationTypeOK
    <3> QED BY <2>1, <3>1 DEF Registration!RegistrationInv
  <2> QED BY <2>1, <2>2 DEF Registration!RegistrationInv, Registration!RegistrationTypeOK,
             Registration!JoinFits
<1>9. ASSUME NEW m \in {"closed", "invite"}, Registration!SetRegistration(m) PROVE Registration!RegistrationInv'
  BY <1>9 DEF Registration!SetRegistration, Registration!RegistrationInv,
     Registration!RegistrationTypeOK, Registration!JoinFits
<1>10. CASE UNCHANGED Registration!registrationVars
  BY <1>10 DEF Registration!registrationVars, Registration!rows, Registration!RegistrationInv,
     Registration!RegistrationTypeOK, Registration!JoinFits
<1> QED BY <1>2, <1>3, <1>4, <1>5, <1>6, <1>7, <1>8, <1>9, <1>10 DEF Registration!RegistrationNext

\* At most one administrator, and an invite for each other account.
LEMMA AccountsAdmitted ==
    ASSUME Registration!RegistrationInv PROVE Registration!AccountsAreAdmitted
<1>1. CASE root = {}
  BY <1>1, FS_EmptySet, RegistrationSets DEF Registration!RegistrationInv, Registration!AccountsAreAdmitted
<1>2. CASE root # {}
  <2>1. PICK u : root = {u}
    BY <1>2 DEF Registration!RegistrationInv
  <2>2. Cardinality(root) = 1
    BY <2>1, FS_Singleton
  <2> QED BY <2>2, RegistrationSets DEF Registration!RegistrationInv, Registration!AccountsAreAdmitted
<1> QED BY <1>1, <1>2

\* However bootstraps, registrations and changes of the settings overlap, one
\* account at most is the administrator, and each other account has used up an
\* invite of its own (Bootstrap, Register).
THEOREM RegistrationInvariance ==
    ASSUME Registration!RegistrationAssumption
    PROVE  Registration!RegistrationSpec => [](Registration!RegistrationInv /\ Registration!AccountsAreAdmitted)
<1>1. Registration!RegistrationInit => Registration!RegistrationInv
  BY DEF Registration!RegistrationInit, Registration!RegistrationInv, Registration!RegistrationTypeOK,
     Registration!RegistrationAssumption, Registration!JoinFits, Registration!Idle, Registration!At
<1>2. Registration!RegistrationInv /\ [Registration!RegistrationNext]_(Registration!registrationVars) => Registration!RegistrationInv'
  BY RegistrationStepKeeps
<1>3. Registration!RegistrationInv => Registration!AccountsAreAdmitted
  BY AccountsAdmitted
<1> QED BY <1>1, <1>2, <1>3, PTL DEF Registration!RegistrationSpec

(***************************************************************************)
(* Hosts, folders and keys                                                 *)
(***************************************************************************)

\* A host has a row when the row has its type.
LEMMA RowTypes ==
    ASSUME Hosts!HostsAssumption, Hosts!HostsTypeOK, NEW h \in HostIds
    PROVE  /\ Hosts!IsRow(h) <=> row[h] \in Hosts!Rows
           /\ Hosts!IsRow(h) => row[h].version \in Nat /\ row[h].cred \in Keys \cup Owned
BY DEF Hosts!HostsAssumption, Hosts!HostsTypeOK, Hosts!IsRow, Hosts!Rows

\* How a step may change the rows without surprise to who has read them.
RowsGrow ==
    \A h \in HostIds : row[h] # None =>
        /\ row'[h] # None
        /\ Hosts!IsRow(h)' => /\ Hosts!IsRow(h) /\ row[h].version <= row'[h].version
                              /\ row[h].version = row'[h].version => row[h].cred = row'[h].cred

\* What a request has read stays as it was.
LEMMA RequestFitsStays ==
    ASSUME Hosts!HostsAssumption, Hosts!HostsTypeOK, Hosts!HostsTypeOK', RowsGrow, NEW e, Hosts!RequestFits(e)
    PROVE  Hosts!RequestFits(e)'
<1>1. \A h \in HostIds : Hosts!IsRow(h) => row[h].version \in Nat
  BY RowTypes
<1>2. \A h \in HostIds : Hosts!IsRow(h)' => row'[h].version \in Nat
  BY DEF Hosts!HostsAssumption, Hosts!HostsTypeOK, Hosts!IsRow, Hosts!Rows
<1>3. \A x \in Hosts!Rows : x.version \in Nat
  BY DEF Hosts!HostsAssumption, Hosts!Rows
<1>4. \A h \in HostIds : Hosts!IsRow(h)' => row[h] = None \/ Hosts!IsRow(h)
  BY DEF RowsGrow
<1> QED BY <1>1, <1>2, <1>3, <1>4 DEF RowsGrow, Hosts!RequestFits

\* The requests of a step in which one at most goes on.
LEMMA RequestsKeep ==
    ASSUME Hosts!HostsAssumption, Hosts!HostsInv, Hosts!HostsTypeOK', RowsGrow,
           request' = request \/
              \E r \in Requests : \E what :
                                        /\ Hosts!Reads(r, what)
                                        /\ what.op \in {"idle", "work"} \/ Hosts!RequestFits(what)
    PROVE  \A q \in Requests : Hosts!RequestFits(request[q])'
<1>1. \A e : Hosts!RequestFits(e) => Hosts!RequestFits(e)'
  BY RequestFitsStays DEF Hosts!HostsInv
<1>2. CASE request' = request
  BY <1>1, <1>2 DEF Hosts!HostsInv
<1>3. ASSUME NEW r \in Requests, NEW what, Hosts!Reads(r, what),
             what.op \in {"idle", "work"} \/ Hosts!RequestFits(what)
      PROVE  \A q \in Requests : Hosts!RequestFits(request[q])'
  <2>1. /\ request'[r] = what
        /\ \A q \in Requests \ {r} : request'[q] = request[q]
    BY <1>3 DEF Hosts!HostsInv, Hosts!HostsTypeOK, Hosts!Reads
  <2>2. \A e : e.op \in {"idle", "work"} => Hosts!RequestFits(e)'
    BY DEF Hosts!RequestFits
  <2>3. Hosts!RequestFits(what)'
    BY <1>1, <1>3, <2>2
  <2>4. \A q \in Requests \ {r} : Hosts!RequestFits(request[q])'
    <3> SUFFICES ASSUME NEW q \in Requests \ {r} PROVE Hosts!RequestFits(request[q])'
      OBVIOUS
    <3>1. request'[q] = request[q] /\ Hosts!RequestFits(request[q])
      BY <2>1 DEF Hosts!HostsInv
    <3>2. PICK e : e = request[q]
      OBVIOUS
    <3>3. Hosts!RequestFits(e)' /\ request'[q] = e
      BY <1>1, <3>1, <3>2
    <3> QED BY <3>3 DEF Hosts!RequestFits
  <2>5. Hosts!RequestFits(request[r])'
    BY <2>1, <2>3 DEF Hosts!RequestFits
  <2> QED BY <2>4, <2>5
<1> QED BY <1>2, <1>3

\* A step that changes no rows and no folders keeps the invariant.
LEMMA ReadsKeep ==
    ASSUME Hosts!HostsAssumption, Hosts!HostsInv, UNCHANGED Hosts!store,
           NEW r \in Requests, NEW what, Hosts!Reads(r, what),
           what.op \in {"idle", "work"} \/ Hosts!RequestFits(what)
    PROVE  Hosts!HostsInv'
<1>1. RowsGrow
  BY RowTypes DEF RowsGrow, Hosts!store, Hosts!HostsInv, Hosts!IsRow
<1>2. Hosts!HostsTypeOK'
  BY DEF Hosts!HostsInv, Hosts!HostsTypeOK, Hosts!store, Hosts!Reads
<1>3. \A q \in Requests : Hosts!RequestFits(request[q])'
  BY <1>1, <1>2, RequestsKeep
<1> QED BY <1>2, <1>3 DEF Hosts!HostsInv, Hosts!store, Hosts!FoldersEnd, Hosts!FolderExists,
           Hosts!KeyExists, Hosts!IsRow, Hosts!Presented, Hosts!Used

\* A handler reads the row it is to save (saveHost).
LEMMA BeginSaveKeeps ==
    ASSUME Hosts!HostsAssumption, Hosts!HostsInv, NEW r \in Requests, NEW h \in HostIds, Hosts!BeginSave(r, h)
    PROVE  Hosts!HostsInv'
<1> DEFINE what == [op |-> "save", host |-> h, previous |-> row[h]]
<1>1. Hosts!RequestFits(what)
  BY RowTypes DEF Hosts!HostsInv, Hosts!HostsTypeOK, Hosts!BeginSave, Hosts!RequestFits, Hosts!IsRow
<1>2. Hosts!Reads(r, what) /\ UNCHANGED Hosts!store
  BY DEF Hosts!BeginSave
<1> HIDE DEF what
<1> QED BY <1>1, <1>2, ReadsKeep

\* A dial reads the row of its host.
LEMMA BeginDialKeeps ==
    ASSUME Hosts!HostsAssumption, Hosts!HostsInv, NEW r \in Requests, NEW h \in HostIds, Hosts!BeginDial(r, h)
    PROVE  Hosts!HostsInv'
<1> DEFINE what == [op |-> "dial", host |-> h, previous |-> row[h]]
<1>1. Hosts!RequestFits(what)
  BY RowTypes DEF Hosts!HostsInv, Hosts!HostsTypeOK, Hosts!BeginDial, Hosts!RequestFits, Hosts!IsRow
<1>2. Hosts!Reads(r, what) /\ UNCHANGED Hosts!store
  BY DEF Hosts!BeginDial
<1> HIDE DEF what
<1> QED BY <1>1, <1>2, ReadsKeep

\* A handler reads the row whose new host key it is to trust.
LEMMA BeginTrustKeeps ==
    ASSUME Hosts!HostsAssumption, Hosts!HostsInv, NEW r \in Requests, NEW h \in HostIds, Hosts!BeginTrust(r, h)
    PROVE  Hosts!HostsInv'
<1> DEFINE what == [op |-> "trust", host |-> h, previous |-> row[h]]
<1>1. Hosts!RequestFits(what)
  BY RowTypes DEF Hosts!HostsInv, Hosts!HostsTypeOK, Hosts!BeginTrust, Hosts!RequestFits, Hosts!IsRow
<1>2. Hosts!Reads(r, what) /\ UNCHANGED Hosts!store
  BY DEF Hosts!BeginTrust
<1> HIDE DEF what
<1> QED BY <1>1, <1>2, ReadsKeep

\* A handler reads the revision of the SSH key it is to change.
LEMMA BeginKeyKeeps ==
    ASSUME Hosts!HostsAssumption, Hosts!HostsInv, NEW r \in Requests, NEW k \in Keys, Hosts!BeginKey(r, k)
    PROVE  Hosts!HostsInv'
<1> DEFINE what == [op |-> "key", key |-> k, seen |-> keyRev[k]]
<1>1. Hosts!RequestFits(what)
  BY DEF Hosts!HostsInv, Hosts!HostsTypeOK, Hosts!BeginKey, Hosts!RequestFits, Hosts!KeyExists
<1>2. Hosts!Reads(r, what) /\ UNCHANGED Hosts!store
  BY DEF Hosts!BeginKey
<1> HIDE DEF what
<1> QED BY <1>1, <1>2, ReadsKeep

\* A request that works on a host, or ends with nothing written.
LEMMA WorkKeeps ==
    ASSUME Hosts!HostsAssumption, Hosts!HostsInv, NEW r \in Requests,
           (\E h \in HostIds : Hosts!UseHost(r, h)) \/ Hosts!Watch(r) \/ Hosts!Leave(r)
    PROVE  Hosts!HostsInv'
<1>1. ASSUME NEW h \in HostIds, Hosts!UseHost(r, h) PROVE Hosts!HostsInv'
  <2> DEFINE what == [op |-> "work", host |-> h]
  <2>1. what.op = "work" /\ Hosts!Reads(r, what) /\ UNCHANGED Hosts!store
    BY <1>1 DEF Hosts!UseHost
  <2> HIDE DEF what
  <2> QED BY <2>1, ReadsKeep
<1>2. CASE Hosts!Watch(r) \/ Hosts!Leave(r)
  <2>1. Hosts!Idle.op = "idle" /\ Hosts!Reads(r, Hosts!Idle) /\ UNCHANGED Hosts!store
    BY <1>2 DEF Hosts!Watch, Hosts!Leave, Hosts!Idle
  <2> QED BY <2>1, ReadsKeep
<1> QED BY <1>1, <1>2

\* A step that gives one row new contents, with the same credential.
LEMMA CurrentKeeps ==
    ASSUME Hosts!HostsAssumption, Hosts!HostsInv, NEW h \in HostIds, NEW new \in Hosts!Rows, Hosts!IsRow(h),
           row' = [row EXCEPT ![h] = new], UNCHANGED <<made, creds, keyRev, parent>>,
           new.cred = row[h].cred, row[h].version <= new.version,
           Hosts!Presented(new), Hosts!FolderExists(new.folder),
           request' = request \/ \E r \in Requests : Hosts!Reads(r, Hosts!Idle)
    PROVE  Hosts!HostsInv'
<1>1. Hosts!HostsTypeOK'
  BY DEF Hosts!HostsInv, Hosts!HostsTypeOK, Hosts!Reads
<1>2. /\ row'[h] = new /\ Hosts!IsRow(h)'
      /\ \A g \in HostIds \ {h} : row'[g] = row[g] /\ (Hosts!IsRow(g)' <=> Hosts!IsRow(g))
      /\ \A g \in HostIds : Hosts!IsRow(g) <=> row[g] \in Hosts!Rows
  BY RowTypes DEF Hosts!HostsInv, Hosts!HostsTypeOK, Hosts!IsRow, Hosts!HostsAssumption
<1>3. RowsGrow
  BY <1>2, RowTypes DEF RowsGrow, Hosts!HostsInv, Hosts!IsRow
<1>4. \A q \in Requests : Hosts!RequestFits(request[q])'
  BY <1>1, <1>3, RequestsKeep DEF Hosts!Idle
<1>5. Hosts!FoldersEnd'
  BY DEF Hosts!HostsInv, Hosts!FoldersEnd, Hosts!FolderExists
<1>6. \A g \in HostIds : Hosts!IsRow(g)' =>
          row'[g].cred \in creds' /\ Hosts!FolderExists(row[g].folder)' /\ Hosts!Presented(row[g])'
  BY <1>2 DEF Hosts!HostsInv, Hosts!FolderExists, Hosts!Presented
<1>7. \A c \in creds' \cap Owned : Hosts!Used(row, c)'
  BY <1>2 DEF Hosts!HostsInv, Hosts!Used, Hosts!IsRow, Hosts!KeyExists
<1>8. \A k \in Keys : Hosts!KeyExists(k)' <=> k \in creds'
  BY DEF Hosts!HostsInv, Hosts!KeyExists
<1> QED BY <1>1, <1>4, <1>5, <1>6, <1>7, <1>8 DEF Hosts!HostsInv

\* A row with the next version.
LEMMA NextVersion ==
    ASSUME Hosts!HostsAssumption, NEW old \in Hosts!Rows, old.version <= MaxVersion,
           NEW new, new = [old EXCEPT !.version = @ + 1]
    PROVE  /\ new \in Hosts!Rows /\ new.cred = old.cred /\ new.folder = old.folder
           /\ new.trusted = old.trusted /\ new.pending = old.pending /\ new.addr = old.addr
           /\ new.version = old.version + 1
BY DEF Hosts!Rows, Hosts!HostsAssumption

\* A host is renamed or moved to a folder that is there.
LEMMA EditsKeep ==
    ASSUME Hosts!HostsAssumption, Hosts!HostsInv, NEW h \in HostIds,
           Hosts!RenameHost(h) \/ \E f \in Folders \cup {None} : Hosts!MoveHost(h, f)
    PROVE  Hosts!HostsInv'
<1>1. /\ Hosts!IsRow(h) /\ row[h] \in Hosts!Rows /\ Hosts!Presented(row[h]) /\ Hosts!FolderExists(row[h].folder)
      /\ row[h].version \in Nat /\ row[h].version < MaxVersion /\ MaxVersion \in Nat
  BY RowTypes DEF Hosts!HostsInv, Hosts!RenameHost, Hosts!MoveHost, Hosts!HostsAssumption
<1>2. CASE Hosts!RenameHost(h)
  <2>1. PICK new : new = [row[h] EXCEPT !.version = @ + 1]
    OBVIOUS
  <2>2. row' = [row EXCEPT ![h] = new] /\ UNCHANGED <<made, creds, keyRev, parent, request>>
    BY <1>2, <2>1 DEF Hosts!RenameHost, Hosts!Current
  <2>3. /\ new \in Hosts!Rows /\ new.cred = row[h].cred /\ new.folder = row[h].folder
        /\ new.trusted = row[h].trusted /\ new.pending = row[h].pending /\ new.addr = row[h].addr
        /\ new.version = row[h].version + 1
    BY <1>1, <2>1, NextVersion
  <2>4. Hosts!Presented(new)
    BY <1>1, <2>3 DEF Hosts!Presented
  <2>5. row[h].version <= new.version
    BY <1>1, <2>3
  <2>6. Hosts!FolderExists(new.folder)
    BY <1>1, <2>3
  <2> QED BY <1>1, <2>2, <2>3, <2>4, <2>5, <2>6, CurrentKeeps
<1>3. ASSUME NEW f \in Folders \cup {None}, Hosts!MoveHost(h, f) PROVE Hosts!HostsInv'
  <2>1. PICK old : old = [row[h] EXCEPT !.folder = f]
    OBVIOUS
  <2>2. /\ old \in Hosts!Rows /\ old.folder = f /\ old.cred = row[h].cred /\ old.version = row[h].version
        /\ old.trusted = row[h].trusted /\ old.pending = row[h].pending /\ old.addr = row[h].addr
    BY <1>1, <2>1 DEF Hosts!Rows
  <2>3. PICK new : new = [old EXCEPT !.version = @ + 1]
    OBVIOUS
  <2>4. /\ row' = [row EXCEPT ![h] = new] /\ UNCHANGED <<made, creds, keyRev, parent, request>>
        /\ Hosts!FolderExists(f)
    BY <1>3, <2>1, <2>3 DEF Hosts!MoveHost, Hosts!Current
  <2>5. /\ new \in Hosts!Rows /\ new.cred = old.cred /\ new.folder = old.folder
        /\ new.trusted = old.trusted /\ new.pending = old.pending /\ new.addr = old.addr
        /\ new.version = old.version + 1
    BY <1>1, <2>2, <2>3, NextVersion
  <2>6. Hosts!Presented(new)
    BY <1>1, <2>2, <2>5 DEF Hosts!Presented
  <2>7. row[h].version <= new.version /\ new.cred = row[h].cred
    BY <1>1, <2>2, <2>5
  <2>8. Hosts!FolderExists(new.folder)
    BY <2>2, <2>4, <2>5
  <2> QED BY <1>1, <2>4, <2>5, <2>6, <2>7, <2>8, CurrentKeeps
<1> QED BY <1>2, <1>3

\* The key that an address presented waits for the user, if the row is still
\* the one that was dialed.
LEMMA PresentKeyKeeps ==
    ASSUME Hosts!HostsAssumption, Hosts!HostsInv, NEW r \in Requests, Hosts!PresentKey(r)
    PROVE  Hosts!HostsInv'
<1>e. PICK e : e = request[r]
  OBVIOUS
<1>1. /\ e.op = "dial" /\ Hosts!Reads(r, Hosts!Idle) /\ UNCHANGED <<made, creds, keyRev, parent>>
      /\ row' = IF Hosts!ForThisHost(e) THEN [row EXCEPT ![e.host].pending = e.previous.addr] ELSE row
  BY <1>e DEF Hosts!PresentKey
<1>2. Hosts!RequestFits(e)
  BY <1>e DEF Hosts!HostsInv
<1>3. e.host \in HostIds /\ e.previous \in Hosts!Rows /\ e.previous.trusted = None
  BY <1>1, <1>2 DEF Hosts!RequestFits
<1>4. CASE ~Hosts!ForThisHost(e)
  <2>1. Hosts!Idle.op = "idle" /\ UNCHANGED Hosts!store
    BY <1>1, <1>4 DEF Hosts!Idle, Hosts!store
  <2> QED BY <1>1, <2>1, ReadsKeep
<1>5. CASE Hosts!ForThisHost(e)
  <2>0. PICK old : old = row[e.host]
    OBVIOUS
  <2>1. /\ Hosts!IsRow(e.host) /\ old \in Hosts!Rows /\ old.addr = e.previous.addr /\ old.trusted = None
        /\ Hosts!Presented(old) /\ Hosts!FolderExists(old.folder)
    BY <1>3, <1>5, <2>0, RowTypes DEF Hosts!ForThisHost, Hosts!HostsInv
  <2>2. PICK new : new = [old EXCEPT !.pending = e.previous.addr]
    OBVIOUS
  <2>3. row' = [row EXCEPT ![e.host] = new]
    BY <1>1, <1>5, <2>0, <2>2
  <2>4. e.previous.addr \in Addresses
    BY <1>3 DEF Hosts!Rows
  <2>5. /\ new \in Hosts!Rows /\ new.cred = old.cred /\ old.version = new.version
        /\ new.pending = old.addr /\ new.trusted = None /\ new.addr = old.addr /\ new.folder = old.folder
    BY <2>1, <2>2, <2>4 DEF Hosts!Rows
  <2>6. Hosts!Presented(new)
    BY <2>1, <2>5 DEF Hosts!Presented
  <2>7. old.version <= new.version
    BY <2>0, <2>1, <2>5, <1>3, RowTypes DEF Hosts!HostsInv
  <2> QED BY <1>1, <1>3, <2>0, <2>1, <2>3, <2>5, <2>6, <2>7, CurrentKeeps
<1> QED BY <1>4, <1>5

\* The user trusts the key that waits, and that was of the row's address.
LEMMA TrustKeeps ==
    ASSUME Hosts!HostsAssumption, Hosts!HostsInv, NEW r \in Requests, Hosts!TrustHostKey(r)
    PROVE  Hosts!HostsInv'
<1>e. PICK e : e = request[r]
  OBVIOUS
<1> DEFINE may == Hosts!IsRow(e.host) /\ row[e.host].pending = e.previous.pending
           trusted == [row[e.host] EXCEPT !.trusted = e.previous.pending, !.pending = None]
<1>1. /\ e.op = "trust" /\ Hosts!Reads(r, Hosts!Idle) /\ UNCHANGED <<made, creds, keyRev, parent>>
      /\ IF may THEN Hosts!Current(e.host, trusted) ELSE UNCHANGED row
  BY <1>e DEF Hosts!TrustHostKey
<1>2. Hosts!RequestFits(e)
  BY <1>e DEF Hosts!HostsInv
<1>3. e.host \in HostIds /\ e.previous \in Hosts!Rows /\ e.previous.pending # None
  BY <1>1, <1>2 DEF Hosts!RequestFits
<1>4. CASE ~may
  <2>1. Hosts!Idle.op = "idle" /\ UNCHANGED Hosts!store
    BY <1>1, <1>4 DEF Hosts!Idle, Hosts!store
  <2> QED BY <1>1, <2>1, ReadsKeep
<1>5. CASE may
  <2>0. PICK old : old = row[e.host]
    OBVIOUS
  <2>1. /\ Hosts!IsRow(e.host) /\ old \in Hosts!Rows /\ old.pending = e.previous.pending
        /\ Hosts!Presented(old) /\ Hosts!FolderExists(old.folder) /\ old.version \in Nat /\ MaxVersion \in Nat
    BY <1>3, <1>5, <2>0, RowTypes DEF Hosts!HostsInv, Hosts!HostsAssumption
  <2>2. /\ old.trusted = None /\ old.pending = old.addr /\ old.version <= MaxVersion
    BY <1>3, <2>1 DEF Hosts!Presented
  <2>3. PICK t : t = trusted
    OBVIOUS
  <2>4. t = [old EXCEPT !.trusted = old.addr, !.pending = None]
    BY <2>0, <2>1, <2>2, <2>3
  <2>5. /\ t \in Hosts!Rows /\ t.cred = old.cred /\ t.version = old.version /\ t.folder = old.folder
        /\ t.trusted = old.addr /\ t.pending = None /\ t.addr = old.addr
    BY <2>1, <2>4 DEF Hosts!Rows
  <2>6. PICK new : new = [t EXCEPT !.version = @ + 1]
    OBVIOUS
  <2>7. row' = [row EXCEPT ![e.host] = new]
    BY <1>1, <1>5, <2>3, <2>6 DEF Hosts!Current
  <2>8. /\ new \in Hosts!Rows /\ new.cred = t.cred /\ new.folder = t.folder
        /\ new.trusted = t.trusted /\ new.pending = t.pending /\ new.addr = t.addr
        /\ new.version = t.version + 1
    BY <2>2, <2>5, <2>6, NextVersion
  <2>9. old.addr \in Addresses
    BY <2>1 DEF Hosts!Rows
  <2>10. Hosts!Presented(new)
    BY <2>2, <2>5, <2>8, <2>9 DEF Hosts!Presented, Hosts!HostsAssumption
  <2>11. row[e.host].version <= new.version /\ new.cred = row[e.host].cred
    BY <2>0, <2>1, <2>5, <2>8
  <2>12. Hosts!FolderExists(new.folder)
    BY <2>1, <2>5, <2>8
  <2> QED BY <1>1, <1>3, <2>1, <2>7, <2>8, <2>10, <2>11, <2>12, CurrentKeeps
<1> QED BY <1>4, <1>5

\* A host goes, and its credential when nothing names that any more.
LEMMA DeleteHostKeeps ==
    ASSUME Hosts!HostsAssumption, Hosts!HostsInv, NEW h \in HostIds, Hosts!DeleteHost(h)
    PROVE  Hosts!HostsInv'
<1>1. /\ row' = [row EXCEPT ![h] = Deleted] /\ Hosts!IsRow(h)
      /\ creds' = IF Hosts!Used(row', row[h].cred) THEN creds ELSE creds \ {row[h].cred}
      /\ UNCHANGED <<made, keyRev, parent, request>>
  BY DEF Hosts!DeleteHost
<1>2. Hosts!HostsTypeOK'
  BY <1>1 DEF Hosts!HostsInv, Hosts!HostsTypeOK
<1>3. /\ row'[h] = Deleted /\ ~Hosts!IsRow(h)'
      /\ \A g \in HostIds \ {h} : row'[g] = row[g] /\ (Hosts!IsRow(g)' <=> Hosts!IsRow(g))
  BY <1>1 DEF Hosts!HostsInv, Hosts!HostsTypeOK, Hosts!IsRow
<1>4. RowsGrow
  BY <1>3, RowTypes DEF RowsGrow, Hosts!HostsInv, Hosts!IsRow, Hosts!HostsAssumption
<1>5. \A q \in Requests : Hosts!RequestFits(request[q])'
  BY <1>1, <1>2, <1>4, RequestsKeep
<1>6. Hosts!FoldersEnd'
  BY <1>1 DEF Hosts!HostsInv, Hosts!FoldersEnd, Hosts!FolderExists
<1>7. \A g \in HostIds : Hosts!IsRow(g)' =>
          row'[g].cred \in creds' /\ Hosts!FolderExists(row[g].folder)' /\ Hosts!Presented(row[g])'
  <2>1. \A g \in HostIds : Hosts!IsRow(g)' => Hosts!Used(row', row[g].cred)
    BY <1>3 DEF Hosts!Used, Hosts!IsRow
  <2>2. SUFFICES ASSUME NEW g \in HostIds, Hosts!IsRow(g)'
                 PROVE  row'[g].cred \in creds' /\ Hosts!FolderExists(row[g].folder)' /\ Hosts!Presented(row[g])'
    OBVIOUS
  <2>3. g # h /\ row'[g] = row[g] /\ Hosts!IsRow(g)
    BY <1>3, <2>2
  <2>4. row[g].cred \in creds'
    BY <1>1, <2>1, <2>2, <2>3 DEF Hosts!HostsInv
  <2> QED BY <1>1, <2>3, <2>4 DEF Hosts!HostsInv, Hosts!FolderExists, Hosts!Presented
<1>8. \A c \in creds' \cap Owned : Hosts!Used(row, c)'
  <2> SUFFICES ASSUME NEW c \in creds' \cap Owned PROVE Hosts!Used(row', c)
    BY <1>1 DEF Hosts!Used, Hosts!KeyExists
  <2>1. c \in creds /\ Hosts!Used(row, c) /\ c \notin Keys
    BY <1>1 DEF Hosts!HostsInv, Hosts!HostsAssumption
  <2>2. PICK g \in HostIds : Hosts!IsRow(g) /\ row[g].cred = c
    BY <2>1 DEF Hosts!Used, Hosts!IsRow
  <2>3. CASE g = h
    BY <1>1, <2>2, <2>3
  <2>4. CASE g # h
    BY <1>3, <2>2, <2>4 DEF Hosts!Used, Hosts!IsRow
  <2> QED BY <2>3, <2>4
<1>9. \A k \in Keys : Hosts!KeyExists(k)' <=> k \in creds'
  BY <1>1 DEF Hosts!HostsInv, Hosts!KeyExists, Hosts!Used
<1> QED BY <1>2, <1>5, <1>6, <1>7, <1>8, <1>9 DEF Hosts!HostsInv

\* A saved key comes.
LEMMA CreateSSHKeyKeeps ==
    ASSUME Hosts!HostsAssumption, Hosts!HostsInv, NEW k \in Keys, Hosts!CreateSSHKey(k)
    PROVE  Hosts!HostsInv'
<1>1. Hosts!HostsTypeOK'
  BY DEF Hosts!HostsInv, Hosts!HostsTypeOK, Hosts!CreateSSHKey
<1>2. RowsGrow
  BY RowTypes DEF RowsGrow, Hosts!HostsInv, Hosts!IsRow, Hosts!CreateSSHKey
<1>3. \A q \in Requests : Hosts!RequestFits(request[q])'
  BY <1>1, <1>2, RequestsKeep DEF Hosts!CreateSSHKey
<1>4. Hosts!FoldersEnd'
  BY DEF Hosts!HostsInv, Hosts!FoldersEnd, Hosts!FolderExists, Hosts!CreateSSHKey
<1>5. \A x \in Keys : Hosts!KeyExists(x)' <=> x \in creds'
  BY DEF Hosts!HostsInv, Hosts!HostsTypeOK, Hosts!KeyExists, Hosts!CreateSSHKey
<1>6. \A c \in creds' \cap Owned : Hosts!Used(row, c)'
  <2>1. \A c \in creds' \cap Owned : c \in creds /\ c \notin Keys
    BY DEF Hosts!CreateSSHKey, Hosts!HostsAssumption
  <2> QED BY <2>1 DEF Hosts!HostsInv, Hosts!Used, Hosts!CreateSSHKey
<1>7. \A h \in HostIds : Hosts!IsRow(h)' =>
          row'[h].cred \in creds' /\ Hosts!FolderExists(row[h].folder)' /\ Hosts!Presented(row[h])'
  BY DEF Hosts!HostsInv, Hosts!CreateSSHKey, Hosts!IsRow, Hosts!FolderExists, Hosts!Presented
<1> QED BY <1>1, <1>3, <1>4, <1>5, <1>6, <1>7 DEF Hosts!HostsInv

\* A saved key is edited.
LEMMA UpdateSSHKeyKeeps ==
    ASSUME Hosts!HostsAssumption, Hosts!HostsInv, NEW r \in Requests, Hosts!UpdateSSHKey(r)
    PROVE  Hosts!HostsInv'
<1>0. PICK e : e = request[r]
  OBVIOUS
<1>1. /\ e.op = "key" /\ Hosts!Reads(r, Hosts!Idle) /\ UNCHANGED <<row, made, creds, parent>>
      /\ keyRev' = IF keyRev[e.key] = e.seen THEN [keyRev EXCEPT ![e.key] = @ + 1] ELSE keyRev
  BY <1>0 DEF Hosts!UpdateSSHKey
<1>2. e.key \in Keys /\ e.seen = 1
  BY <1>0, <1>1 DEF Hosts!HostsInv, Hosts!RequestFits
<1>3. keyRev' \in [Keys -> 0..2] /\ \A k \in Keys : Hosts!KeyExists(k)' <=> Hosts!KeyExists(k)
  BY <1>1, <1>2 DEF Hosts!HostsInv, Hosts!HostsTypeOK, Hosts!KeyExists
<1>4. Hosts!HostsTypeOK'
  BY <1>1, <1>3 DEF Hosts!HostsInv, Hosts!HostsTypeOK, Hosts!Reads
<1>5. RowsGrow
  BY <1>1, RowTypes DEF RowsGrow, Hosts!HostsInv, Hosts!IsRow
<1>6. \A q \in Requests : Hosts!RequestFits(request[q])'
  BY <1>1, <1>4, <1>5, RequestsKeep DEF Hosts!Idle
<1>7. Hosts!FoldersEnd'
  BY <1>1 DEF Hosts!HostsInv, Hosts!FoldersEnd, Hosts!FolderExists
<1>8. \A c \in creds' \cap Owned : Hosts!Used(row, c)'
  BY <1>1, <1>3 DEF Hosts!HostsInv, Hosts!Used
<1>9. \A h \in HostIds : Hosts!IsRow(h)' =>
          row'[h].cred \in creds' /\ Hosts!FolderExists(row[h].folder)' /\ Hosts!Presented(row[h])'
  BY <1>1 DEF Hosts!HostsInv, Hosts!IsRow, Hosts!FolderExists, Hosts!Presented
<1> QED BY <1>1, <1>3, <1>4, <1>6, <1>7, <1>8, <1>9 DEF Hosts!HostsInv

\* A saved key that no host names goes with its credential.
LEMMA DeleteSSHKeyKeeps ==
    ASSUME Hosts!HostsAssumption, Hosts!HostsInv, NEW k \in Keys, Hosts!DeleteSSHKey(k)
    PROVE  Hosts!HostsInv'
<1>1. Hosts!HostsTypeOK'
  BY DEF Hosts!HostsInv, Hosts!HostsTypeOK, Hosts!DeleteSSHKey
<1>2. RowsGrow
  BY RowTypes DEF RowsGrow, Hosts!HostsInv, Hosts!IsRow, Hosts!DeleteSSHKey
<1>3. \A q \in Requests : Hosts!RequestFits(request[q])'
  BY <1>1, <1>2, RequestsKeep DEF Hosts!DeleteSSHKey
<1>4. Hosts!FoldersEnd'
  BY DEF Hosts!HostsInv, Hosts!FoldersEnd, Hosts!FolderExists, Hosts!DeleteSSHKey
<1>5. \A x \in Keys : Hosts!KeyExists(x)' <=> x \in creds'
  BY DEF Hosts!HostsInv, Hosts!HostsTypeOK, Hosts!KeyExists, Hosts!DeleteSSHKey
<1>6. \A c \in creds' \cap Owned : Hosts!Used(row, c)'
  <2>1. \A c \in creds' \cap Owned : c \in creds /\ c \notin Keys
    BY DEF Hosts!DeleteSSHKey, Hosts!HostsAssumption
  <2> QED BY <2>1 DEF Hosts!HostsInv, Hosts!Used, Hosts!DeleteSSHKey
<1>7. \A h \in HostIds : Hosts!IsRow(h)' =>
          row'[h].cred \in creds' /\ Hosts!FolderExists(row[h].folder)' /\ Hosts!Presented(row[h])'
  BY DEF Hosts!HostsInv, Hosts!DeleteSSHKey, Hosts!IsRow, Hosts!FolderExists, Hosts!Presented
<1> QED BY <1>1, <1>3, <1>4, <1>5, <1>6, <1>7 DEF Hosts!HostsInv

\* A folder is put where the walk to the top does not meet it.
LEMMA SaveFolderKeeps ==
    ASSUME Hosts!HostsAssumption, Hosts!HostsInv, NEW f \in Folders, NEW p \in Folders \cup {None}, Hosts!SaveFolder(f, p)
    PROVE  Hosts!HostsInv'
<1>1. /\ Hosts!FolderExists(p) /\ ~Hosts!IsCycle(f, p) /\ parent' = [parent EXCEPT ![f] = p]
      /\ UNCHANGED <<row, made, creds, keyRev, request>>
  BY DEF Hosts!SaveFolder
<1>2. Hosts!HostsTypeOK'
  BY <1>1 DEF Hosts!HostsInv, Hosts!HostsTypeOK
<1>3. /\ parent'[f] = p /\ p # "absent"
      /\ \A g \in Folders \ {f} : parent'[g] = parent[g]
      /\ \A g \in Folders \cup {None} : Hosts!FolderExists(g) => Hosts!FolderExists(g)'
  <2>1. parent \in [Folders -> Folders \cup {None, "absent"}] /\ p # "absent"
    BY DEF Hosts!HostsInv, Hosts!HostsTypeOK, Hosts!HostsAssumption
  <2> QED BY <1>1, <2>1 DEF Hosts!FolderExists
<1>4. Hosts!FoldersEnd'
  <2> DEFINE all == Folders \cup {None, "absent"}
  <2>1. PICK S \in SUBSET all : p \in S /\ (\A g \in S \cap Folders : parent[g] \in S) /\ f \notin S
    BY <1>1 DEF Hosts!IsCycle, Hosts!Above
  <2>2. \A g \in Folders : parent'[g] # "absent" => Hosts!FolderExists(parent[g])'
    <3>1. \A g \in Folders : parent[g] # "absent" => Hosts!FolderExists(parent[g])
      BY DEF Hosts!HostsInv, Hosts!FoldersEnd
    <3> QED BY <1>1, <1>3, <3>1 DEF Hosts!FolderExists
  <2>3. ASSUME NEW T \in SUBSET {g \in Folders : parent'[g] # "absent"}, T # {},
               \A g \in T : parent'[g] \in T
        PROVE  FALSE
    <3>1. CASE f \notin T
      <4>1. T \in SUBSET {g \in Folders : parent[g] # "absent"} /\ \A g \in T : parent[g] \in T
        BY <1>3, <2>3, <3>1
      <4> QED BY <2>3, <4>1 DEF Hosts!HostsInv, Hosts!FoldersEnd
    <3>2. CASE f \in T
      <4>1. p \in T \cap S
        BY <1>3, <2>1, <2>3, <3>2
      <4>2. \A g \in T \cap S : g \in Folders /\ g # f /\ parent[g] = parent'[g]
        BY <1>3, <2>1
      <4>3. /\ T \cap S \in SUBSET {g \in Folders : parent[g] # "absent"}
            /\ \A g \in T \cap S : parent[g] \in T \cap S
        BY <2>1, <2>3, <4>2
      <4> QED BY <4>1, <4>3 DEF Hosts!HostsInv, Hosts!FoldersEnd
    <3> QED BY <3>1, <3>2
  <2>4. \A T \in SUBSET {g \in Folders : parent'[g] # "absent"} : T # {} => \E g \in T : parent'[g] \notin T
    BY <2>3
  <2> QED BY <2>2, <2>4 DEF Hosts!FoldersEnd
<1>5. RowsGrow
  BY <1>1, RowTypes DEF RowsGrow, Hosts!HostsInv, Hosts!IsRow
<1>6. \A q \in Requests : Hosts!RequestFits(request[q])'
  BY <1>1, <1>2, <1>5, RequestsKeep
<1>7. \A h \in HostIds : Hosts!IsRow(h)' =>
          row'[h].cred \in creds' /\ Hosts!FolderExists(row[h].folder)' /\ Hosts!Presented(row[h])'
  <2>1. \A h \in HostIds : Hosts!IsRow(h) => row[h].folder \in Folders \cup {None}
    BY RowTypes DEF Hosts!HostsInv, Hosts!Rows
  <2> QED BY <1>1, <1>3, <2>1 DEF Hosts!HostsInv, Hosts!IsRow, Hosts!Presented
<1>8. \A c \in creds' \cap Owned : Hosts!Used(row, c)'
  BY <1>1 DEF Hosts!HostsInv, Hosts!Used, Hosts!KeyExists
<1>9. \A k \in Keys : Hosts!KeyExists(k)' <=> k \in creds'
  BY <1>1 DEF Hosts!HostsInv, Hosts!KeyExists
<1> QED BY <1>2, <1>4, <1>6, <1>7, <1>8, <1>9 DEF Hosts!HostsInv

\* A folder goes and what it had moves up: no way up gets longer.
LEMMA DeleteFolderKeeps ==
    ASSUME Hosts!HostsAssumption, Hosts!HostsInv, NEW f \in Folders, Hosts!DeleteFolder(f)
    PROVE  Hosts!HostsInv'
<1>p. PICK p : p = parent[f]
  OBVIOUS
<1>0. \A h \in HostIds : row'[h] # row[h] => row'[h].version <= MaxVersion
  BY DEF Hosts!DeleteFolder
<1>1. /\ parent[f] # "absent"
      /\ parent' = [g \in Folders |-> IF g = f THEN "absent"
                                      ELSE IF parent[g] = f THEN parent[f] ELSE parent[g]]
      /\ row' = [h \in HostIds |->
                   IF row[h] \in {None, Deleted} \/ row[h].folder # f THEN row[h]
                   ELSE [row[h] EXCEPT !.folder = parent[f], !.version = @ + 1]]
      /\ UNCHANGED <<made, creds, keyRev, request>>
  BY DEF Hosts!DeleteFolder
<1>2. /\ parent'[f] = "absent"
      /\ \A g \in Folders \ {f} : parent'[g] = IF parent[g] = f THEN parent[f] ELSE parent[g]
      /\ parent[f] \in Folders \cup {None} /\ parent[f] # f
  <2>1. parent[f] # f
    <3>1. {f} \in SUBSET {g \in Folders : parent[g] # "absent"}
      BY <1>1
    <3> QED BY <3>1 DEF Hosts!HostsInv, Hosts!FoldersEnd
  <2> QED BY <1>1, <2>1 DEF Hosts!HostsInv, Hosts!HostsTypeOK
<1>3. Hosts!FoldersEnd'
  <2>1. \A g \in Folders : parent'[g] # "absent" => Hosts!FolderExists(parent[g])'
    <3> SUFFICES ASSUME NEW g \in Folders, parent'[g] # "absent", parent'[g] \in Folders
                 PROVE  parent'[parent'[g]] # "absent"
      BY DEF Hosts!FolderExists
    <3>1. g # f /\ parent'[g] # f /\ parent[parent'[g]] # "absent"
      BY <1>1, <1>2 DEF Hosts!HostsInv, Hosts!FoldersEnd, Hosts!FolderExists
    <3> QED BY <1>1, <1>2, <3>1 DEF Hosts!HostsInv, Hosts!HostsTypeOK
  <2>2. ASSUME NEW T \in SUBSET {g \in Folders : parent'[g] # "absent"}, T # {},
               \A g \in T : parent'[g] \in T
        PROVE  FALSE
    <3>1. f \notin T /\ \A g \in T : g \in Folders /\ parent[g] # "absent"
      <4>1. \A g \in T : g \in Folders /\ parent'[g] # "absent"
        BY <2>2
      <4> QED BY <1>2, <4>1 DEF Hosts!HostsAssumption
    <3>2. CASE \E g \in T : parent[g] = f
      <4>1. parent[f] \in T
        BY <1>2, <2>2, <3>1, <3>2
      <4>2. /\ T \cup {f} \in SUBSET {g \in Folders : parent[g] # "absent"}
            /\ \A g \in T \cup {f} : parent[g] \in T \cup {f}
        BY <1>1, <1>2, <2>2, <3>1, <4>1
      <4> QED BY <4>2 DEF Hosts!HostsInv, Hosts!FoldersEnd
    <3>3. CASE \A g \in T : parent[g] # f
      <4>1. /\ T \in SUBSET {g \in Folders : parent[g] # "absent"}
            /\ \A g \in T : parent[g] \in T
        BY <1>2, <2>2, <3>1, <3>3
      <4> QED BY <2>2, <4>1 DEF Hosts!HostsInv, Hosts!FoldersEnd
    <3> QED BY <3>2, <3>3
  <2>3. \A T \in SUBSET {g \in Folders : parent'[g] # "absent"} : T # {} => \E g \in T : parent'[g] \notin T
    BY <2>2
  <2> QED BY <2>1, <2>3 DEF Hosts!FoldersEnd
<1>4. ASSUME NEW h \in HostIds, Hosts!IsRow(h)
      PROVE  /\ row'[h] \in Hosts!Rows /\ row'[h].cred = row[h].cred
             /\ Hosts!FolderExists(row[h].folder)' /\ Hosts!Presented(row[h])'
             /\ row[h].version <= row'[h].version
  <2>0. PICK old \in Hosts!Rows : old = row[h]
    BY <1>4, RowTypes DEF Hosts!HostsInv
  <2>1. old.version \in Nat /\ Hosts!Presented(old) /\ Hosts!FolderExists(old.folder)
    BY <1>4, <2>0, RowTypes DEF Hosts!HostsInv
  <2>2. CASE old.folder # f
    <3>1. row'[h] = old
      BY <1>1, <2>0, <2>2
    <3>2. Hosts!FolderExists(old.folder)'
      BY <1>1, <1>2, <2>1, <2>2 DEF Hosts!FolderExists
    <3> QED BY <2>0, <2>1, <3>1, <3>2 DEF Hosts!Presented, Hosts!FolderExists
  <2>3. CASE old.folder = f
    <3>1. PICK new : new = [old EXCEPT !.folder = parent[f], !.version = @ + 1]
      OBVIOUS
    <3>2. row'[h] = new
      BY <1>1, <1>4, <2>0, <2>3, <3>1 DEF Hosts!IsRow
    <3>3. /\ new.cred = old.cred /\ new.folder = parent[f] /\ new.addr = old.addr
          /\ new.trusted = old.trusted /\ new.pending = old.pending /\ new.version = old.version + 1
      BY <3>1 DEF Hosts!Rows
    <3>4. old # new /\ new.version <= MaxVersion
      <4>1. old.version # new.version
        BY <2>1, <3>3
      <4> QED BY <1>0, <2>0, <3>2, <4>1
    <3>5. new \in Hosts!Rows
      <4>1. new.version \in 0..MaxVersion + 1
        BY <2>1, <3>3, <3>4 DEF Hosts!HostsAssumption
      <4> QED BY <1>2, <3>1, <3>3, <4>1 DEF Hosts!Rows
    <3>6. Hosts!FolderExists(p)'
      BY <1>p, <1>1, <1>2 DEF Hosts!HostsInv, Hosts!HostsTypeOK, Hosts!FoldersEnd, Hosts!FolderExists,
         Hosts!HostsAssumption
    <3>7. Hosts!Presented(new)
      BY <2>1, <3>3, <3>4 DEF Hosts!Presented
    <3>8. Hosts!Presented(row[h])'
      BY <3>2, <3>7 DEF Hosts!Presented
    <3>9. Hosts!FolderExists(row[h].folder)'
      BY <1>p, <3>2, <3>3, <3>6 DEF Hosts!FolderExists
    <3> QED BY <2>0, <2>1, <3>2, <3>3, <3>5, <3>8, <3>9
  <2> QED BY <2>2, <2>3
<1>5. \A h \in HostIds : ~Hosts!IsRow(h) => row'[h] = row[h]
  BY <1>1 DEF Hosts!IsRow
<1>6. Hosts!HostsTypeOK'
  <2>1. row' \in [HostIds -> Hosts!Rows \cup {None, Deleted}]
    <3>1. \A h \in HostIds : row'[h] \in Hosts!Rows \cup {None, Deleted}
      BY <1>4, <1>5 DEF Hosts!HostsInv, Hosts!HostsTypeOK
    <3> QED BY <1>1, <3>1
  <2>2. parent' \in [Folders -> Folders \cup {None, "absent"}]
    BY <1>1, <1>2 DEF Hosts!HostsInv, Hosts!HostsTypeOK
  <2> QED BY <1>1, <2>1, <2>2 DEF Hosts!HostsInv, Hosts!HostsTypeOK
<1>7. \A h \in HostIds : Hosts!IsRow(h)' <=> Hosts!IsRow(h)
  BY <1>4, <1>5 DEF Hosts!IsRow, Hosts!HostsAssumption
<1>8. RowsGrow
  <2>1. \A h \in HostIds : Hosts!IsRow(h) => row'[h] # None
    BY <1>4 DEF Hosts!HostsAssumption
  <2> QED BY <1>4, <1>5, <1>7, <2>1 DEF RowsGrow
<1>9. \A q \in Requests : Hosts!RequestFits(request[q])'
  BY <1>1, <1>6, <1>8, RequestsKeep
<1>10. \A h \in HostIds : Hosts!IsRow(h)' =>
          row'[h].cred \in creds' /\ Hosts!FolderExists(row[h].folder)' /\ Hosts!Presented(row[h])'
  <2>1. \A h \in HostIds : Hosts!IsRow(h) => row[h].cred \in creds
    BY DEF Hosts!HostsInv
  <2>2. creds' = creds
    BY <1>1
  <2> SUFFICES ASSUME NEW h \in HostIds, Hosts!IsRow(h)'
               PROVE  row'[h].cred \in creds' /\ Hosts!FolderExists(row[h].folder)' /\ Hosts!Presented(row[h])'
    OBVIOUS
  <2>3. Hosts!IsRow(h)
    BY <1>7
  <2> QED BY <1>4, <2>1, <2>2, <2>3
<1>11. \A c \in creds' \cap Owned : Hosts!Used(row, c)'
  <2> SUFFICES ASSUME NEW c \in creds \cap Owned PROVE Hosts!Used(row, c)'
    BY <1>1
  <2>1. c \notin Keys /\ Hosts!Used(row, c)
    BY DEF Hosts!HostsInv, Hosts!HostsAssumption
  <2>2. PICK h \in HostIds : Hosts!IsRow(h) /\ row[h].cred = c
    BY <2>1 DEF Hosts!Used, Hosts!IsRow
  <2> QED BY <1>4, <1>7, <2>2 DEF Hosts!Used, Hosts!IsRow
<1>12. \A k \in Keys : Hosts!KeyExists(k)' <=> k \in creds'
  BY <1>1 DEF Hosts!HostsInv, Hosts!KeyExists
<1> QED BY <1>3, <1>6, <1>9, <1>10, <1>11, <1>12 DEF Hosts!HostsInv

\* What a save writes: a row of its version, with a credential that is there
\* or comes now, and without the one it replaces if nothing names that.
LEMMA SaveKeeps ==
    ASSUME Hosts!HostsAssumption, Hosts!HostsInv, NEW r \in Requests, NEW c \in Keys \cup Owned,
           NEW f \in Folders \cup {None}, NEW a \in Addresses, Hosts!Save(r, c, f, a)
    PROVE  Hosts!HostsInv'
<1>0. PICK e : e = request[r]
  OBVIOUS
<1>1. PICK new : new = Hosts!NewRow(e, c, f, a)
  OBVIOUS
<1>2. PICK old : old = IF e.previous = None THEN {} ELSE {e.previous.cred}
  OBVIOUS
<1>3. e.op = "save" /\ Hosts!Reads(r, Hosts!Idle)
  BY <1>0 DEF Hosts!Save
<1>4. CASE UNCHANGED Hosts!store
  <2>1. Hosts!Idle.op = "idle"
    BY DEF Hosts!Idle
  <2> QED BY <1>3, <1>4, <2>1, ReadsKeep
<1>5. CASE /\ Hosts!MaySave(e, c, f) /\ new.version <= MaxVersion
           /\ row' = [row EXCEPT ![e.host] = new]
           /\ made' = made \cup {c}
           /\ creds' = (creds \cup {c}) \ {x \in old : ~Hosts!Used(row', x)}
           /\ UNCHANGED <<keyRev, parent>>
  <2>1. /\ e.host \in HostIds /\ e.previous \in Hosts!Rows \cup {None} /\ Hosts!RequestFits(e)
    BY <1>0, <1>3 DEF Hosts!HostsInv, Hosts!RequestFits
  <2>2. /\ Hosts!FolderExists(f)
        /\ e.previous = None => row[e.host] = None
        /\ e.previous # None => Hosts!IsRow(e.host) /\ row[e.host].version = e.previous.version
    BY <1>5 DEF Hosts!MaySave
  <2>3. /\ e.previous # None => Hosts!Presented(e.previous) /\ row[e.host].cred = e.previous.cred
        /\ e.previous # None => e.previous.version \in Nat
    BY <1>3, <2>1, <2>2 DEF Hosts!RequestFits, Hosts!Rows, Hosts!HostsAssumption
  <2>4. /\ new \in Hosts!Rows /\ new.cred = c /\ new.folder = f /\ Hosts!Presented(new)
        /\ e.previous # None => new.version = e.previous.version + 1
    <3>1. /\ new.cred = c /\ new.folder = f /\ new.addr = a
          /\ new.version = IF e.previous = None THEN 0 ELSE e.previous.version + 1
      BY <1>1 DEF Hosts!NewRow
    <3>2. CASE e.previous # None /\ e.previous.addr = a
      <4>1. new.trusted = e.previous.trusted /\ new.pending = e.previous.pending
        BY <1>1, <3>2 DEF Hosts!NewRow
      <4>2. e.previous.trusted \in Addresses \cup {None} /\ e.previous.pending \in Addresses \cup {None}
        BY <2>1, <3>2 DEF Hosts!Rows
      <4>3. new.version \in 0..MaxVersion + 1
        BY <1>5, <2>3, <3>1, <3>2 DEF Hosts!HostsAssumption
      <4>4. new \in Hosts!Rows
        BY <1>1, <3>1, <4>1, <4>2, <4>3 DEF Hosts!NewRow, Hosts!Rows
      <4>5. Hosts!Presented(new)
        BY <1>5, <2>3, <3>1, <3>2, <4>1 DEF Hosts!Presented
      <4> QED BY <3>1, <4>4, <4>5
    <3>3. CASE ~(e.previous # None /\ e.previous.addr = a)
      <4>1. new.trusted = None /\ new.pending = None
        BY <1>1, <3>3 DEF Hosts!NewRow
      <4>2. new.version \in 0..MaxVersion + 1
        BY <1>5, <2>3, <3>1 DEF Hosts!HostsAssumption
      <4>3. new \in Hosts!Rows
        BY <1>1, <3>1, <4>1, <4>2 DEF Hosts!NewRow, Hosts!Rows
      <4>4. Hosts!Presented(new)
        BY <1>5, <3>1, <4>1 DEF Hosts!Presented
      <4> QED BY <3>1, <4>3, <4>4
    <3> QED BY <3>2, <3>3
  <2>5. /\ row'[e.host] = new /\ Hosts!IsRow(e.host)'
        /\ \A h \in HostIds \ {e.host} : row'[h] = row[h] /\ (Hosts!IsRow(h)' <=> Hosts!IsRow(h))
    BY <1>5, <2>1, <2>4 DEF Hosts!HostsInv, Hosts!HostsTypeOK, Hosts!IsRow, Hosts!HostsAssumption
  <2>6. Hosts!HostsTypeOK'
    BY <1>3, <1>5, <2>1, <2>4 DEF Hosts!HostsInv, Hosts!HostsTypeOK, Hosts!Reads
  <2>7. RowsGrow
    <3>1. row'[e.host] # None
      BY <2>4, <2>5 DEF Hosts!HostsAssumption
    <3>2. \A h \in HostIds : Hosts!IsRow(h) => row[h].version \in Nat
      BY RowTypes DEF Hosts!HostsInv
    <3> QED BY <2>1, <2>2, <2>3, <2>4, <2>5, <3>1, <3>2 DEF RowsGrow
  <2>8. \A q \in Requests : Hosts!RequestFits(request[q])'
    BY <1>3, <2>6, <2>7, RequestsKeep DEF Hosts!Idle
  <2>9. Hosts!FoldersEnd'
    BY <1>5 DEF Hosts!HostsInv, Hosts!FoldersEnd, Hosts!FolderExists
  <2>10. \A h \in HostIds : Hosts!IsRow(h)' => Hosts!Used(row', row'[h].cred)
    BY DEF Hosts!Used, Hosts!IsRow
  <2>11. \A h \in HostIds : Hosts!IsRow(h)' =>
            row'[h].cred \in creds' /\ Hosts!FolderExists(row[h].folder)' /\ Hosts!Presented(row[h])'
    <3>1. \A h \in HostIds : Hosts!IsRow(h)' => row'[h].cred \in creds \cup {c}
      BY <2>4, <2>5 DEF Hosts!HostsInv
    <3>2. \A h \in HostIds : Hosts!IsRow(h)' => row'[h].cred \in creds'
      <4>1. \A x \in creds \cup {c} : Hosts!Used(row', x) => x \in creds'
        BY <1>5
      <4> QED BY <2>10, <3>1, <4>1
    <3>3. \A h \in HostIds : Hosts!IsRow(h)' => Hosts!FolderExists(row[h].folder)'
      BY <1>5, <2>2, <2>4, <2>5 DEF Hosts!HostsInv, Hosts!FolderExists
    <3>4. \A h \in HostIds : Hosts!IsRow(h)' => Hosts!Presented(row[h])'
      BY <2>4, <2>5 DEF Hosts!HostsInv, Hosts!Presented
    <3> QED BY <3>2, <3>3, <3>4
  <2>12. \A x \in creds' \cap Owned : Hosts!Used(row, x)'
    <3> SUFFICES ASSUME NEW x \in creds' \cap Owned PROVE Hosts!Used(row', x)
      BY <1>5 DEF Hosts!Used, Hosts!KeyExists
    <3>1. x \in old => Hosts!Used(row', x)
      BY <1>5
    <3>2. CASE x = c
      BY <2>1, <2>4, <2>5, <2>10, <3>2
    <3>3. CASE x # c /\ x \notin old
      <4>1. x \in creds \cap Owned /\ x \notin Keys /\ Hosts!Used(row, x)
        BY <1>5, <3>3 DEF Hosts!HostsInv, Hosts!HostsAssumption
      <4>2. PICK h \in HostIds : Hosts!IsRow(h) /\ row[h].cred = x
        BY <4>1 DEF Hosts!Used, Hosts!IsRow
      <4>3. h # e.host
        BY <1>2, <2>2, <2>3, <3>3, <4>2 DEF Hosts!IsRow
      <4> QED BY <2>5, <4>2, <4>3 DEF Hosts!Used, Hosts!IsRow
    <3> QED BY <3>1, <3>2, <3>3
  <2>13. \A k \in Keys : Hosts!KeyExists(k)' <=> k \in creds'
    <3> SUFFICES ASSUME NEW k \in Keys PROVE Hosts!KeyExists(k) <=> k \in creds'
      BY <1>5 DEF Hosts!KeyExists
    <3>1. Hosts!KeyExists(k) => Hosts!Used(row', k)
      BY DEF Hosts!Used
    <3>2. Hosts!KeyExists(k) <=> k \in creds
      BY DEF Hosts!HostsInv
    <3>3. k = c => Hosts!KeyExists(k)
      <4>0. Hosts!MaySave(e, c, f)
        BY <1>5
      <4>1. c \in creds \/ Hosts!KeyExists(c) \/ c \in Owned
        BY <4>0 DEF Hosts!MaySave
      <4> QED BY <3>2, <4>1 DEF Hosts!HostsAssumption
    <3> QED BY <1>5, <3>1, <3>2, <3>3
  <2> QED BY <2>6, <2>8, <2>9, <2>11, <2>12, <2>13 DEF Hosts!HostsInv
<1> QED BY <1>0, <1>1, <1>2, <1>4, <1>5 DEF Hosts!Save

\* The store is empty and nobody asks for anything.
LEMMA HostsInitKeeps ==
    ASSUME Hosts!HostsInit PROVE Hosts!HostsInv
<1>1. Hosts!HostsTypeOK
  BY DEF Hosts!HostsInit, Hosts!HostsTypeOK
<1>2. Hosts!FoldersEnd
  BY DEF Hosts!HostsInit, Hosts!FoldersEnd
<1> QED BY <1>1, <1>2 DEF Hosts!HostsInit, Hosts!HostsInv, Hosts!IsRow, Hosts!KeyExists,
           Hosts!RequestFits, Hosts!Idle

\* One lemma for each action.
LEMMA HostsInvStep ==
    ASSUME Hosts!HostsAssumption, Hosts!HostsInv, [Hosts!HostsNext]_(Hosts!hostVars)
    PROVE  Hosts!HostsInv'
<1>1. CASE Hosts!HostsNext
  BY <1>1, EditsKeep, DeleteHostKeeps, BeginSaveKeeps, BeginDialKeeps, BeginTrustKeeps, WorkKeeps,
     SaveKeeps, PresentKeyKeeps, TrustKeeps, UpdateSSHKeyKeeps, BeginKeyKeeps, CreateSSHKeyKeeps,
     DeleteSSHKeyKeeps, DeleteFolderKeeps, SaveFolderKeeps DEF Hosts!HostsNext
<1>2. CASE UNCHANGED Hosts!hostVars
  <2>1. RowsGrow
    BY <1>2, RowTypes DEF RowsGrow, Hosts!hostVars, Hosts!store, Hosts!HostsInv, Hosts!IsRow
  <2>2. Hosts!HostsTypeOK'
    BY <1>2 DEF Hosts!HostsInv, Hosts!HostsTypeOK, Hosts!hostVars, Hosts!store
  <2>3. \A q \in Requests : Hosts!RequestFits(request[q])'
    BY <1>2, <2>1, <2>2, RequestsKeep DEF Hosts!hostVars
  <2> QED BY <1>2, <2>2, <2>3 DEF Hosts!HostsInv, Hosts!hostVars, Hosts!store, Hosts!FoldersEnd,
             Hosts!FolderExists, Hosts!KeyExists, Hosts!IsRow, Hosts!Presented, Hosts!Used
<1> QED BY <1>1, <1>2

\* The way up from every folder ends.
LEMMA FoldersReachTheTop ==
    ASSUME Hosts!HostsAssumption, Hosts!HostsTypeOK, Hosts!FoldersEnd, NEW f \in Folders, parent[f] # "absent"
    PROVE  None \in Hosts!Above(f)
<1> DEFINE all == Folders \cup {None, "absent"}
<1> SUFFICES ASSUME NEW S \in SUBSET all, f \in S, \A g \in S \cap Folders : parent[g] \in S,
                    None \notin S
             PROVE  FALSE
  BY DEF Hosts!Above
<1> DEFINE T == {g \in S \cap Folders : parent[g] # "absent"}
<1>1. T \in SUBSET {g \in Folders : parent[g] # "absent"} /\ f \in T
  OBVIOUS
<1>2. \A g \in T : parent[g] \in T
  <2> SUFFICES ASSUME NEW g \in T PROVE parent[g] \in T
    OBVIOUS
  <2>1. parent[g] \in S /\ parent[g] # "absent" /\ parent[g] \in Folders
    BY DEF Hosts!HostsTypeOK
  <2> QED BY <2>1 DEF Hosts!FoldersEnd, Hosts!FolderExists
<1> QED BY <1>1, <1>2 DEF Hosts!FoldersEnd

\* What the invariant says of rows and folders as the runs check it: the set
\* above a folder reaches the top, and a trusted key is that of the address.
LEMMA HostsAreWhole ==
    ASSUME Hosts!HostsAssumption, Hosts!HostsInv
    PROVE  Hosts!ReferencesEnd /\ Hosts!TrustedForAddress
<1>1. Hosts!ReferencesEnd
  BY FoldersReachTheTop DEF Hosts!HostsInv, Hosts!ReferencesEnd
<1>2. Hosts!TrustedForAddress
  BY DEF Hosts!HostsInv, Hosts!TrustedForAddress, Hosts!Presented
<1> QED BY <1>1, <1>2

\* The strengthened invariant holds in every state, fairly scheduled or not.
LEMMA HostsBehave ==
    ASSUME Hosts!HostsAssumption
    PROVE  Hosts!HostsInit /\ [][Hosts!HostsNext]_(Hosts!hostVars) => [](Hosts!HostsInv /\ Hosts!ReferencesEnd /\ Hosts!TrustedForAddress)
<1>1. Hosts!HostsInit => Hosts!HostsInv
  BY HostsInitKeeps
<1>2. Hosts!HostsInv /\ [Hosts!HostsNext]_(Hosts!hostVars) => Hosts!HostsInv'
  BY HostsInvStep
<1>3. Hosts!HostsInv => Hosts!ReferencesEnd /\ Hosts!TrustedForAddress
  BY HostsAreWhole
<1> QED BY <1>1, <1>2, <1>3, PTL

\* Whatever edits, moves, deletions and dials overlap, a host names a folder and
\* a credential that are there, no folders lead back to themselves, and the
\* trusted key of a row is that of its address (ReferencesEnd,
\* TrustedForAddress).
THEOREM HostsInvariance ==
    ASSUME Hosts!HostsAssumption
    PROVE  Hosts!HostsSpec => [](Hosts!HostsInv /\ Hosts!ReferencesEnd /\ Hosts!TrustedForAddress)
BY HostsBehave, PTL DEF Hosts!HostsSpec

(***************************************************************************)
(* What is told of agents                                                  *)
(***************************************************************************)

\* What is known of one pane.
PaneFits(p) == Push!ShownFits(p) /\ Push!ToldFits(p) /\ Push!PreviousFits(p) /\ Push!PendingFits(p) /\ Push!DueFits(p)

\* The numbers of a pane are numbers.
LEMMA PaneTypes ==
    ASSUME Push!PushAssumption, Push!PushTypeOK, NEW p \in Panes
    PROVE  /\ clock \in Int /\ seq \in Int /\ run \in Int /\ poll.run \in Int /\ Delay \in Int
           /\ agents[p] # None => agents[p].seq \in Int /\ agents[p].since \in Int /\ agents[p] \in Push!Agents
           /\ poll.snapshot[p] # None => /\ poll.snapshot[p].seq \in Int /\ poll.snapshot[p].since \in Int
                                         /\ poll.snapshot[p] \in Push!Agents
           /\ previous[p] # None => previous[p].seq \in Int /\ previous[p].run \in Int
           /\ pending[p] # None => pending[p] \in Int
           /\ told[p] # None => told[p].seq \in Int /\ told[p].run \in Int /\ told[p] \in Push!Messages
BY DEF Push!PushAssumption, Push!PushTypeOK, Push!Agents, Push!Rounds, Push!Messages

\* A pane has a new state, with the next number of the run.
LEMMA AgentMovesKeeps ==
    ASSUME Push!PushAssumption, Push!PushInv, NEW q \in Panes, Push!AgentMoves(q)
    PROVE  Push!PushInv'
<1>1. PICK state \in Push!Statuses :
        /\ seq < MaxSeq /\ seq' = seq + 1
        /\ agents' = [agents EXCEPT ![q] = [status |-> state, seq |-> seq + 1, since |-> clock]]
  BY DEF Push!AgentMoves
<1>2. UNCHANGED <<clock, run, previous, pending, poll, told, markers, absent>>
  BY DEF Push!AgentMoves, Push!pollVars
<1>3. PICK new : new = [status |-> state, seq |-> seq + 1, since |-> clock]
  OBVIOUS
<1>4. new \in Push!Agents /\ new.seq = seq + 1 /\ new.since = clock /\ seq \in Int /\ clock \in Int
  BY <1>1, <1>3 DEF Push!PushInv, Push!PushTypeOK, Push!Agents, Push!PushAssumption
<1>5. agents'[q] = new /\ (\A p \in Panes \ {q} : agents'[p] = agents[p])
      /\ agents' \in [Panes -> Push!Agents \cup {None}]
  BY <1>1, <1>3, <1>4 DEF Push!PushInv, Push!PushTypeOK
<1>6. Push!PushTypeOK'
  BY <1>1, <1>2, <1>5 DEF Push!PushInv, Push!PushTypeOK, Push!PushAssumption
<1>7. Push!Works' = Push!Works /\ Push!RunOf' = Push!RunOf
  BY <1>2 DEF Push!Works, Push!RunOf
<1>8. ASSUME NEW p \in Panes PROVE PaneFits(p)'
  <2>0. /\ Push!ShownFits(p) /\ Push!ToldFits(p) /\ Push!PreviousFits(p) /\ Push!PendingFits(p) /\ Push!DueFits(p)
        /\ agents'[p] = agents[p] \/ agents'[p] = new
    BY <1>5 DEF Push!PushInv
  <2>1. Push!ShownFits(p)'
    BY <1>1, <1>2, <1>4, <1>7, <2>0, PaneTypes DEF Push!ShownFits, Push!PushInv
  <2>2. Push!ToldFits(p)'
    BY <1>1, <1>2, <1>4, <1>7, <2>0, PaneTypes DEF Push!ToldFits, Push!ToldBefore, Push!PushInv
  <2>3. Push!PreviousFits(p)'
    BY <1>1, <1>2, <1>4, <1>7, <2>0, PaneTypes DEF Push!PreviousFits, Push!ToldBefore, Push!Before,
       Push!PushInv
  <2>4. Push!PendingFits(p)'
    BY <1>1, <1>2, <1>4, <1>7, <2>0, PaneTypes DEF Push!PendingFits, Push!PreviousFits, Push!PushInv
  <2>5. Push!DueFits(p)'
    BY <1>2, <2>0 DEF Push!DueFits
  <2> QED BY <2>1, <2>2, <2>3, <2>4, <2>5 DEF PaneFits
<1> QED BY <1>2, <1>6, <1>7, <1>8 DEF Push!PushInv, PaneFits

\* A pane closes, and its agent with it.
LEMMA PaneClosesKeeps ==
    ASSUME Push!PushAssumption, Push!PushInv, NEW q \in Panes, Push!PaneCloses(q)
    PROVE  Push!PushInv'
<1>1. UNCHANGED <<clock, seq, run, previous, pending, poll, told, markers, absent>>
      /\ agents' = [agents EXCEPT ![q] = None]
  BY DEF Push!PaneCloses, Push!pollVars
<1>2. Push!PushTypeOK'
  BY <1>1 DEF Push!PushInv, Push!PushTypeOK
<1>3. Push!Works' = Push!Works /\ Push!RunOf' = Push!RunOf
  BY <1>1 DEF Push!Works, Push!RunOf
<1>4. ASSUME NEW p \in Panes PROVE PaneFits(p)'
  <2>0. /\ Push!ShownFits(p) /\ Push!ToldFits(p) /\ Push!PreviousFits(p) /\ Push!PendingFits(p) /\ Push!DueFits(p)
        /\ agents'[p] = agents[p] \/ agents'[p] = None
    BY <1>1 DEF Push!PushInv, Push!PushTypeOK
  <2>1. Push!ShownFits(p)'
    BY <1>1, <1>3, <2>0 DEF Push!ShownFits
  <2>2. Push!ToldFits(p)'
    BY <1>1, <1>3, <2>0 DEF Push!ToldFits, Push!ToldBefore
  <2>3. Push!PreviousFits(p)'
    BY <1>1, <1>3, <2>0 DEF Push!PreviousFits, Push!ToldBefore, Push!Before
  <2>4. Push!PendingFits(p)'
    BY <1>1, <1>3, <2>0 DEF Push!PendingFits
  <2>5. Push!DueFits(p)'
    BY <1>1, <2>0 DEF Push!DueFits
  <2> QED BY <2>1, <2>2, <2>3, <2>4, <2>5 DEF PaneFits
<1> QED BY <1>1, <1>2, <1>3, <1>4 DEF Push!PushInv, PaneFits

\* A new run of Herdr: nothing was told of it yet.
LEMMA HerdrRestartsKeeps ==
    ASSUME Push!PushAssumption, Push!PushInv, Push!HerdrRestarts
    PROVE  Push!PushInv'
<1>1. /\ run < MaxRun /\ run' = run + 1 /\ seq' = 0 /\ agents' = [p \in Panes |-> None]
      /\ UNCHANGED <<clock, previous, pending, poll, told, markers, absent>>
  BY DEF Push!HerdrRestarts, Push!pollVars
<1>2. Push!PushTypeOK'
  BY <1>1 DEF Push!PushInv, Push!PushTypeOK, Push!PushAssumption
<1>3. Push!Works' = Push!Works /\ Push!RunOf' = IF Push!Works THEN Push!RunOf ELSE run + 1
  BY <1>1 DEF Push!Works, Push!RunOf
<1>4. run \in Int /\ poll.run \in Int /\ (Push!Works => poll.run \in 1..run) /\ Push!RunOf = (IF Push!Works THEN poll.run ELSE run)
  BY DEF Push!PushInv, Push!PushTypeOK, Push!RunOf, Push!PushAssumption
<1>5. ASSUME NEW p \in Panes PROVE PaneFits(p)'
  <2>0. Push!ShownFits(p) /\ Push!ToldFits(p) /\ Push!PreviousFits(p) /\ Push!PendingFits(p) /\ Push!DueFits(p) /\ agents'[p] = None
    BY <1>1 DEF Push!PushInv
  <2>1. Push!ShownFits(p)'
    BY <1>1, <1>3, <1>4, <2>0 DEF Push!ShownFits
  <2>2. Push!ToldFits(p)'
    BY <1>1, <1>3, <1>4, <2>0, PaneTypes DEF Push!ToldFits, Push!ToldBefore, Push!PushInv
  <2>3. Push!PreviousFits(p)'
    BY <1>1, <1>3, <1>4, <2>0, PaneTypes DEF Push!PreviousFits, Push!ToldFits, Push!ToldBefore,
       Push!Before, Push!PushInv
  <2>4. Push!PendingFits(p)'
    BY <1>1, <1>3, <1>4, <2>0, PaneTypes DEF Push!PendingFits, Push!ToldFits, Push!PushInv
  <2>5. Push!DueFits(p)'
    BY <1>1, <2>0 DEF Push!DueFits
  <2> QED BY <2>1, <2>2, <2>3, <2>4, <2>5 DEF PaneFits
<1> QED BY <1>1, <1>2, <1>3, <1>4, <1>5 DEF Push!PushInv, PaneFits

\* Time passes.
LEMMA TickKeeps ==
    ASSUME Push!PushAssumption, Push!PushInv, Push!Tick
    PROVE  Push!PushInv'
<1>1. /\ clock < MaxClock /\ clock' = clock + 1
      /\ UNCHANGED <<agents, seq, run, previous, pending, poll, told, markers, absent>>
  BY DEF Push!Tick, Push!herdrVars, Push!pollVars
<1>2. Push!PushTypeOK'
  BY <1>1 DEF Push!PushInv, Push!PushTypeOK, Push!PushAssumption
<1>3. Push!Works' = Push!Works /\ Push!RunOf' = Push!RunOf
  BY <1>1 DEF Push!Works, Push!RunOf
<1>4. ASSUME NEW p \in Panes PROVE PaneFits(p)'
  <2>0. Push!ShownFits(p) /\ Push!ToldFits(p) /\ Push!PreviousFits(p) /\ Push!PendingFits(p) /\ Push!DueFits(p)
    BY DEF Push!PushInv
  <2>1. Push!ShownFits(p)'
    BY <1>1, <1>3, <2>0, PaneTypes DEF Push!ShownFits, Push!PushInv
  <2>2. Push!ToldFits(p)'
    BY <1>1, <1>3, <2>0 DEF Push!ToldFits
  <2>3. Push!PreviousFits(p)'
    BY <1>1, <1>3, <2>0 DEF Push!PreviousFits
  <2>4. Push!PendingFits(p)'
    BY <1>1, <1>3, <2>0 DEF Push!PendingFits
  <2>5. Push!DueFits(p)'
    BY <1>1, <2>0, PaneTypes DEF Push!DueFits, Push!PushInv
  <2> QED BY <2>1, <2>2, <2>3, <2>4, <2>5 DEF PaneFits
<1> QED BY <1>1, <1>2, <1>3, <1>4 DEF Push!PushInv, PaneFits

\* The history of a host goes.
LEMMA ForgetKeeps ==
    ASSUME Push!PushAssumption, Push!PushInv, Push!Forget
    PROVE  Push!PushInv'
<1>1. /\ poll.at = "idle" /\ UNCHANGED <<clock, agents, seq, run, poll, told, markers, absent>>
      /\ previous' = [p \in Panes |-> None] /\ pending' = [p \in Panes |-> None]
  BY DEF Push!Forget, Push!herdrVars
<1>2. Push!PushTypeOK'
  BY <1>1 DEF Push!PushInv, Push!PushTypeOK
<1>3. Push!Works' = Push!Works /\ Push!RunOf' = Push!RunOf
  BY <1>1 DEF Push!Works, Push!RunOf
<1>4. ASSUME NEW p \in Panes PROVE PaneFits(p)'
  <2>0. /\ Push!ShownFits(p) /\ Push!ToldFits(p) /\ Push!PreviousFits(p) /\ Push!PendingFits(p) /\ Push!DueFits(p)
        /\ previous'[p] = None /\ pending'[p] = None
    BY <1>1 DEF Push!PushInv
  <2> QED BY <1>1, <1>3, <2>0 DEF PaneFits, Push!ShownFits, Push!ToldFits, Push!PreviousFits,
             Push!PendingFits, Push!DueFits
<1> QED BY <1>1, <1>2, <1>3, <1>4 DEF Push!PushInv, PaneFits

\* A poll that does not work, or no more.
LEMMA RestsKeeps ==
    ASSUME Push!PushAssumption, Push!PushInv, UNCHANGED <<clock, agents, seq, run, previous, pending, told>>,
           ~Push!Works', poll'.due = {}, Push!PushTypeOK'
    PROVE  Push!PushInv'
<1>1. /\ Push!RunOf' = run /\ poll'.at # "compare"
      /\ Push!RunOf = (IF Push!Works THEN poll.run ELSE run) /\ (Push!Works => poll.run \in 1..run)
  BY DEF Push!PushInv, Push!RunOf, Push!Works
<1>2. ASSUME NEW p \in Panes PROVE PaneFits(p)'
  <2>0. Push!ShownFits(p) /\ Push!ToldFits(p) /\ Push!PreviousFits(p) /\ Push!PendingFits(p) /\ Push!DueFits(p)
    BY DEF Push!PushInv
  <2>1. Push!ShownFits(p)'
    BY <1>1, <2>0 DEF Push!ShownFits
  <2>2. Push!ToldFits(p)'
    BY <1>1, <2>0, PaneTypes DEF Push!ToldFits, Push!ToldBefore, Push!PushInv
  <2>3. Push!PreviousFits(p)'
    BY <1>1, <2>0, PaneTypes DEF Push!PreviousFits, Push!ToldFits, Push!ToldBefore, Push!Before,
       Push!PushInv
  <2>4. Push!PendingFits(p)'
    BY <1>1, <2>0, PaneTypes DEF Push!PendingFits, Push!ToldFits, Push!PushInv
  <2>5. Push!DueFits(p)'
    BY <2>0 DEF Push!DueFits
  <2> QED BY <2>1, <2>2, <2>3, <2>4, <2>5 DEF PaneFits
<1> QED BY <1>2 DEF Push!PushInv, PaneFits

\* A poll begins, ends or is given up.
LEMMA TurnsKeep ==
    ASSUME Push!PushAssumption, Push!PushInv, Push!Collect \/ Push!PollStops \/ Push!Delivered
    PROVE  Push!PushInv'
<1>1. UNCHANGED <<clock, agents, seq, run, previous, pending, told, markers, absent>>
  BY DEF Push!Collect, Push!PollStops, Push!Delivered, Push!herdrVars
<1>2. poll' = Push!Idle \/ poll' = [Push!Idle EXCEPT !.at = "snapshot"]
  BY DEF Push!Collect, Push!PollStops, Push!Delivered
<1>3. /\ poll'.at \in {"idle", "snapshot"} /\ poll'.snapshot = [p \in Panes |-> None] /\ poll'.run = 0
      /\ poll'.due = {} /\ poll'.out = {}
  BY <1>2 DEF Push!Idle
<1>4. Push!PushTypeOK'
  BY <1>1, <1>3 DEF Push!PushInv, Push!PushTypeOK, Push!PushAssumption
<1> QED BY <1>1, <1>3, <1>4, RestsKeeps DEF Push!Works

\* The poll has a snapshot of what Herdr shows.
LEMMA SnapshotKeeps ==
    ASSUME Push!PushAssumption, Push!PushInv, Push!Snapshot
    PROVE  Push!PushInv'
<1>1. /\ UNCHANGED <<clock, agents, seq, run, previous, pending, told, markers, absent>>
      /\ poll.at = "snapshot"
  BY DEF Push!Snapshot, Push!herdrVars
<1>2. poll' = [poll EXCEPT !.at = "compare", !.snapshot = agents, !.run = run]
  BY DEF Push!Snapshot
<1>3. /\ poll'.at = "compare" /\ poll'.snapshot = agents /\ poll'.run = run
      /\ poll'.due = poll.due /\ poll'.out = poll.out
  BY <1>2
<1>4. Push!PushTypeOK'
  BY <1>1, <1>3 DEF Push!PushInv, Push!PushTypeOK, Push!PushAssumption
<1>5. Push!RunOf' = Push!RunOf /\ Push!RunOf = run /\ ~Push!Works /\ Push!Works'
  BY <1>1, <1>3 DEF Push!RunOf, Push!Works
<1>6. run \in 1..run
  BY DEF Push!PushInv, Push!PushTypeOK, Push!PushAssumption
<1>7. ASSUME NEW p \in Panes PROVE PaneFits(p)'
  <2>0. Push!ShownFits(p) /\ Push!ToldFits(p) /\ Push!PreviousFits(p) /\ Push!PendingFits(p) /\ Push!DueFits(p)
    BY DEF Push!PushInv
  <2>1. Push!ShownFits(p)'
    BY <1>1, <1>3, <1>5, <2>0, PaneTypes DEF Push!ShownFits, Push!PushInv
  <2>2. Push!ToldFits(p)'
    BY <1>1, <1>3, <1>5, <2>0 DEF Push!ToldFits
  <2>3. Push!PreviousFits(p)'
    BY <1>1, <1>3, <1>5, <2>0 DEF Push!PreviousFits
  <2>4. Push!PendingFits(p)'
    BY <1>1, <1>3, <1>5, <2>0 DEF Push!PendingFits
  <2>5. Push!DueFits(p)'
    BY <1>1, <1>3, <2>0 DEF Push!DueFits
  <2> QED BY <2>1, <2>2, <2>3, <2>4, <2>5 DEF PaneFits
<1> QED BY <1>1, <1>3, <1>4, <1>6, <1>7 DEF Push!PushInv, PaneFits

\* The markers are no part of what is told of a round.
LEMMA MarkersKeep ==
    ASSUME Push!PushAssumption, Push!PushInv, NEW p \in Panes,
           Push!FindAbsent(p) \/ Push!Prune(p) \/ \E shown \in 1..seq : Push!MarkSeen(p, shown)
    PROVE  Push!PushInv'
<1>1. UNCHANGED <<clock, agents, seq, run, previous, pending, poll, told>>
  BY DEF Push!FindAbsent, Push!Prune, Push!MarkSeen, Push!herdrVars, Push!pollVars
<1>2. Push!PushTypeOK'
  <2>1. \A shown \in 1..seq : shown \in -1..MaxSeq
    BY DEF Push!PushInv, Push!PushTypeOK, Push!PushAssumption
  <2> QED BY <1>1, <2>1 DEF Push!PushInv, Push!PushTypeOK, Push!FindAbsent, Push!Prune, Push!MarkSeen,
             Push!PushAssumption
<1> QED
  BY <1>1, <1>2 DEF Push!PushInv, Push!Works, Push!RunOf, Push!ShownFits, Push!ToldFits,
     Push!PreviousFits, Push!PendingFits, Push!DueFits

\* What is told of a pane with what is put out.
LEMMA TellsTypes ==
    ASSUME Push!PushTypeOK, NEW out \in SUBSET Push!Messages, told' = Push!Tells(out), NEW p \in Panes
    PROVE  /\ told'[p] = told[p] \/ (told'[p] \in out /\ told'[p].pane = p)
           /\ told' \in [Panes -> Push!Messages \cup {None}]
<1>1. \A q \in Panes : told'[q] = IF \E m \in out : m.pane = q THEN CHOOSE m \in out : m.pane = q ELSE told[q]
  BY DEF Push!Tells
<1>2. \A q \in Panes : told'[q] = told[q] \/ (told'[q] \in out /\ told'[q].pane = q)
  BY <1>1
<1>3. told' = [q \in Panes |-> told'[q]]
  BY DEF Push!Tells
<1>4. \A q \in Panes : told'[q] \in Push!Messages \cup {None}
  BY <1>2 DEF Push!PushTypeOK
<1> QED BY <1>2, <1>3, <1>4

\* The state of a pane changed, or what waits of it is due.
LEMMA CompareKeeps ==
    ASSUME Push!PushAssumption, Push!PushInv, Push!Compare
    PROVE  /\ Push!PushInv'
           /\ \A message \in poll'.out : message # told[message.pane] /\ message.kind = "blocked"
<1>b. PICK blocked : blocked = {p \in Panes : Push!Seen(p) /\ poll.snapshot[p].status = "blocked" /\ Push!Changed(p, poll.snapshot[p])}
  OBVIOUS
<1>d. PICK due : due = {p \in Panes : Push!Seen(p) /\ Push!Due(p, poll.snapshot[p])}
  OBVIOUS
<1>o. PICK out : out = {Push!Message("blocked", p) : p \in blocked}
  OBVIOUS
<1>1. /\ poll.at = "compare"
      /\ UNCHANGED <<clock, agents, seq, run, markers, absent>>
      /\ told' = Push!Tells(out)
  BY <1>b, <1>o DEF Push!Compare, Push!herdrVars
<1>2. previous' = [p \in Panes |-> IF Push!Seen(p)
                                   THEN [status |-> poll.snapshot[p].status, seq |-> poll.snapshot[p].seq,
                                         run |-> IF previous[p] # None /\ ~Push!Changed(p, poll.snapshot[p])
                                                 THEN previous[p].run ELSE poll.run]
                                   ELSE None]
  BY DEF Push!Compare
<1>3. pending' = [p \in Panes |->
            IF ~Push!Seen(p) \/ poll.snapshot[p].status # "done" \/ p \in due THEN None
            ELSE IF Push!Changed(p, poll.snapshot[p]) THEN clock + Delay
            ELSE pending[p]]
  BY <1>d DEF Push!Compare
<1>4. poll' = IF due = {} THEN Push!ToDeliver(out) ELSE [poll EXCEPT !.at = "markers", !.due = due, !.out = out]
  BY <1>b, <1>d, <1>o DEF Push!Compare
<1>5. /\ Push!Works /\ Push!RunOf = poll.run /\ poll.run \in 1..run /\ run \in 1..MaxRun /\ MaxRun \in Nat
      /\ poll.run \in 1..MaxRun /\ poll.run <= run /\ Push!RunOf \in Int /\ run \in Int
  BY <1>1 DEF Push!Works, Push!RunOf, Push!PushInv, Push!PushTypeOK, Push!PushAssumption
<1>6. /\ poll'.out = out /\ poll'.due = due
      /\ poll'.at \in {"markers", "deliver"} /\ (due # {} => poll'.at = "markers")
      /\ poll'.at = "markers" => poll'.snapshot = poll.snapshot /\ poll'.run = poll.run
      /\ poll'.snapshot \in [Panes -> Push!Agents \cup {None}] /\ poll'.run \in 0..MaxRun
  <2>1. CASE due = {}
    <3>1. /\ poll'.out = out /\ poll'.due = {} /\ poll'.at = "deliver" /\ poll'.run = 0
          /\ poll'.snapshot = [p \in Panes |-> None]
      BY <1>4, <2>1 DEF Push!ToDeliver, Push!Idle
    <3> QED BY <1>5, <2>1, <3>1
  <2>2. CASE due # {}
    <3>1. poll' = [poll EXCEPT !.at = "markers", !.due = due, !.out = out]
      BY <1>4, <2>2
    <3>2. /\ poll'.out = out /\ poll'.due = due /\ poll'.at = "markers" /\ poll'.run = poll.run
          /\ poll'.snapshot = poll.snapshot
      BY <3>1
    <3> QED BY <1>5, <2>2, <3>2 DEF Push!PushInv, Push!PushTypeOK
  <2> QED BY <2>1, <2>2
<1>7. Push!RunOf' = (IF poll'.at = "markers" THEN poll.run ELSE run) /\ (Push!Works' <=> poll'.at = "markers")
  BY <1>1, <1>6 DEF Push!RunOf, Push!Works
<1>8. ASSUME NEW p \in Panes, p \in blocked
      PROVE  /\ Push!Message("blocked", p) \in Push!Messages /\ Push!Message("blocked", p).pane = p
             /\ Push!Message("blocked", p).kind = "blocked" /\ Push!Message("blocked", p).run = poll.run
             /\ Push!Message("blocked", p).seq = poll.snapshot[p].seq
             /\ poll.snapshot[p] # None /\ poll.snapshot[p].status = "blocked"
             /\ Push!Changed(p, poll.snapshot[p])
  BY <1>b, <1>5, <1>8 DEF Push!Message, Push!Messages, Push!PushInv, Push!PushTypeOK, Push!Agents, Push!Seen
<1>9. out \in SUBSET Push!Messages
  BY <1>b, <1>o, <1>8
<1>10. told' \in [Panes -> Push!Messages \cup {None}]
  BY <1>1, <1>9, TellsTypes DEF Push!PushInv, Push!Tells
<1>11. \A p \in Panes :
          \/ told'[p] = told[p]
          \/ /\ p \in blocked /\ told'[p] = Push!Message("blocked", p)
  <2> SUFFICES ASSUME NEW p \in Panes, told'[p] # told[p]
               PROVE  p \in blocked /\ told'[p] = Push!Message("blocked", p)
    OBVIOUS
  <2>1. told'[p] \in out /\ told'[p].pane = p
    BY <1>1, <1>9, TellsTypes DEF Push!PushInv
  <2>2. PICK q \in blocked : told'[p] = Push!Message("blocked", q)
    BY <1>o, <2>1
  <2>3. q = p
    BY <1>b, <1>8, <2>1, <2>2
  <2> QED BY <2>2, <2>3
<1>12. ASSUME NEW p \in Panes
       PROVE  /\ Push!Seen(p) => /\ previous'[p] # None /\ previous'[p] \in Push!Rounds
                                 /\ previous'[p].status = poll.snapshot[p].status /\ previous'[p].seq = poll.snapshot[p].seq
                                 /\ previous'[p].run = IF previous[p] # None /\ ~Push!Changed(p, poll.snapshot[p])
                                                       THEN previous[p].run ELSE poll.run
              /\ ~Push!Seen(p) => previous'[p] = None
  <2>1. CASE Push!Seen(p)
    <3>1. PICK round : round = [status |-> poll.snapshot[p].status, seq |-> poll.snapshot[p].seq,
                                run |-> IF previous[p] # None /\ ~Push!Changed(p, poll.snapshot[p])
                                        THEN previous[p].run ELSE poll.run]
      OBVIOUS
    <3>2. previous'[p] = round
      BY <1>2, <2>1, <3>1
    <3>3. previous[p] # None => previous[p].run \in 1..MaxRun
      BY DEF Push!PushInv, Push!PushTypeOK, Push!Rounds
    <3>4. poll.snapshot[p] \in Push!Agents
      BY <2>1 DEF Push!Seen, Push!PushInv, Push!PushTypeOK
    <3>5. round \in Push!Rounds
      BY <1>5, <3>1, <3>3, <3>4 DEF Push!Rounds, Push!Agents
    <3>6. round # None
      BY <3>5 DEF Push!PushAssumption
    <3> QED BY <2>1, <3>1, <3>2, <3>5, <3>6
  <2>2. CASE ~Push!Seen(p)
    BY <1>2, <2>2
  <2> QED BY <2>1, <2>2
<1>13. ASSUME NEW p \in Panes
       PROVE  pending'[p] # None =>
                 /\ Push!Seen(p) /\ poll.snapshot[p].status = "done" /\ p \notin due
                 /\ \/ Push!Changed(p, poll.snapshot[p]) /\ pending'[p] = clock + Delay
                    \/ ~Push!Changed(p, poll.snapshot[p]) /\ pending'[p] = pending[p]
  BY <1>3
<1>14. Push!PushTypeOK'
  <2>1. previous' \in [Panes -> Push!Rounds \cup {None}]
    BY <1>2, <1>12
  <2>2. pending' \in [Panes -> 0..(MaxClock + Delay) \cup {None}]
    <3>1. clock + Delay \in 0..(MaxClock + Delay)
      BY DEF Push!PushInv, Push!PushTypeOK, Push!PushAssumption
    <3>2. \A p \in Panes : pending'[p] \in 0..(MaxClock + Delay) \cup {None}
      BY <1>13, <3>1 DEF Push!PushInv, Push!PushTypeOK
    <3> QED BY <1>3, <3>2
  <2>3. due \subseteq Panes
    BY <1>d
  <2> QED BY <1>1, <1>6, <1>9, <1>10, <2>1, <2>2, <2>3 DEF Push!PushInv, Push!PushTypeOK
<1>15. ASSUME NEW p \in Panes PROVE PaneFits(p)'
  <2>0. Push!ShownFits(p) /\ Push!ToldFits(p) /\ Push!PreviousFits(p) /\ Push!PendingFits(p) /\ Push!DueFits(p)
    BY DEF Push!PushInv
  <2>t. /\ told'[p] # None => told'[p].run \in Int /\ told'[p].seq \in Int
        /\ previous[p] # None => previous[p].seq \in Int /\ previous[p].run \in Int
        /\ poll.snapshot[p] # None => poll.snapshot[p].seq \in Int
    BY <1>10, PaneTypes DEF Push!PushInv, Push!Messages
  <2>1. Push!ShownFits(p)'
    BY <1>1, <1>5, <1>6, <1>7, <2>0 DEF Push!ShownFits
  <2>2. Push!ToldFits(p)'
    <3>1. CASE told'[p] = told[p]
      BY <1>1, <1>5, <1>6, <1>7, <2>0, <3>1, <2>t DEF Push!ToldFits, Push!ToldBefore
    <3>2. CASE p \in blocked /\ told'[p] = Push!Message("blocked", p)
      BY <1>1, <1>5, <1>6, <1>7, <1>8, <2>0, <2>t, <3>2 DEF Push!ToldFits, Push!ToldBefore, Push!ShownFits
    <3> QED BY <1>11, <3>1, <3>2
  <2>3. Push!PreviousFits(p)'
    <3>0. /\ Push!Seen(p) = (poll.snapshot[p] # None) /\ poll'.at # "compare"
          /\ Push!Changed(p, poll.snapshot[p]) <=>
                previous[p] # None /\ (previous[p].status # poll.snapshot[p].status \/ previous[p].seq # poll.snapshot[p].seq)
      BY <1>6 DEF Push!Seen, Push!Changed
    <3>1. previous'[p] # None => previous'[p].run <= Push!RunOf' /\ (previous'[p].run = run => previous'[p].seq <= seq)
      <4> SUFFICES ASSUME previous'[p] # None
                   PROVE  previous'[p].run <= Push!RunOf' /\ (previous'[p].run = run => previous'[p].seq <= seq)
        OBVIOUS
      <4>1. Push!Seen(p) /\ poll.snapshot[p] # None /\ previous'[p].seq = poll.snapshot[p].seq
        BY <1>12, <3>0
      <4>2. CASE previous[p] # None /\ ~Push!Changed(p, poll.snapshot[p])
        <5>1. /\ previous'[p].run = previous[p].run /\ previous'[p].seq = previous[p].seq
              /\ previous[p].run <= poll.run /\ previous[p].run \in Int
              /\ previous[p].run = run => previous[p].seq <= seq
          BY <1>5, <1>12, <2>0, <2>t, <3>0, <4>1, <4>2 DEF Push!PreviousFits
        <5> QED BY <1>5, <1>7, <5>1
      <4>3. CASE ~(previous[p] # None /\ ~Push!Changed(p, poll.snapshot[p]))
        <5>1. previous'[p].run = poll.run
          BY <1>12, <4>1, <4>3
        <5>2. poll.run = run => poll.snapshot[p].seq <= seq
          BY <1>5, <2>0, <4>1 DEF Push!ShownFits
        <5> QED BY <1>5, <1>7, <4>1, <5>1, <5>2
      <4> QED BY <4>2, <4>3
    <3>2. ASSUME previous'[p] # None, told'[p] # None, told'[p].run = Push!RunOf'
          PROVE  /\ Push!ToldBefore(told[p], previous[p])'
                 /\ Push!RunOf' = run => previous'[p].seq <= seq /\ (agents[p] # None => Push!Before(previous[p], agents[p])')
      <4>0. Push!Seen(p) /\ poll.snapshot[p] # None
        BY <1>12, <3>0, <3>2
      <4>1. told'[p].run = poll.run
        <5>1. told'[p].run <= poll.run
          BY <1>5, <1>8, <1>11, <2>0, <3>2 DEF Push!ToldFits
        <5> QED BY <1>5, <1>7, <2>t, <3>2, <5>1
      <4>2. Push!ToldBefore(told[p], previous[p])'
        <5>1. CASE told'[p] = told[p]
          BY <1>1, <1>12, <2>0, <3>2, <4>0, <4>1, <5>1 DEF Push!ToldFits, Push!ToldBefore
        <5>2. CASE p \in blocked /\ told'[p] = Push!Message("blocked", p)
          BY <1>8, <1>12, <2>t, <4>0, <5>2 DEF Push!ToldBefore
        <5> QED BY <1>11, <5>1, <5>2
      <4>3. Push!RunOf' = run => poll.run = run
        BY <3>2, <4>1
      <4>4. /\ previous'[p].seq = poll.snapshot[p].seq /\ previous'[p].status = poll.snapshot[p].status
            /\ agents' = agents
        BY <1>1, <1>12, <4>0
      <4>5. poll.run = run => poll.snapshot[p].seq <= seq
        BY <1>5, <2>0, <4>0 DEF Push!ShownFits
      <4>5a. poll.run = run /\ agents[p] # None => poll.snapshot[p].seq <= agents[p].seq
        BY <1>5, <2>0, <4>0 DEF Push!ShownFits
      <4>5b. poll.run = run /\ agents[p] # None /\ poll.snapshot[p].seq = agents[p].seq =>
               poll.snapshot[p].status = agents[p].status
        BY <1>5, <2>0, <4>0 DEF Push!ShownFits
      <4>6. ASSUME poll.run = run
            PROVE  previous'[p].seq <= seq /\ (agents[p] # None => Push!Before(previous[p], agents[p])')
        <5>1. previous'[p].seq <= seq
          BY <4>4, <4>5, <4>6
        <5>2. ASSUME agents[p] # None PROVE Push!Before(previous[p], agents[p])'
          <6>1. poll.snapshot[p].seq <= agents[p].seq
            BY <4>5a, <4>6, <5>2
          <6>2. poll.snapshot[p].seq = agents[p].seq => poll.snapshot[p].status = agents[p].status
            BY <4>5b, <4>6, <5>2
          <6>3. agents'[p].seq = agents[p].seq /\ agents'[p].status = agents[p].status
            BY <4>4
          <6>4. previous'[p].seq <= agents'[p].seq
            BY <4>4, <6>1, <6>3
          <6>5. previous'[p].seq = agents'[p].seq => previous'[p].status = agents'[p].status
            BY <4>4, <6>2, <6>3
          <6> QED BY <6>4, <6>5 DEF Push!Before
        <5> QED BY <5>1, <5>2
      <4> QED BY <4>2, <4>3, <4>6
    <3> QED BY <1>1, <3>0, <3>1, <3>2 DEF Push!PreviousFits
  <2>4. Push!PendingFits(p)'
    <3> SUFFICES ASSUME pending'[p] # None PROVE Push!PendingFits(p)'
      BY DEF Push!PendingFits
    <3>0. /\ Push!Seen(p) /\ poll.snapshot[p] # None /\ poll.snapshot[p].status = "done" /\ poll'.at # "compare"
          /\ previous'[p] # None /\ previous'[p].seq = poll.snapshot[p].seq
          /\ Push!Changed(p, poll.snapshot[p]) <=>
                previous[p] # None /\ (previous[p].status # poll.snapshot[p].status \/ previous[p].seq # poll.snapshot[p].seq)
      BY <1>6, <1>12, <1>13 DEF Push!Seen, Push!Changed
    <3>1. told'[p] # None /\ told'[p].run = Push!RunOf' /\ told'[p].kind = "done" => told'[p].seq # previous'[p].seq
      <4> SUFFICES ASSUME told'[p] # None, told'[p].run = Push!RunOf', told'[p].kind = "done",
                          told'[p].seq = poll.snapshot[p].seq
                   PROVE  FALSE
        BY <3>0
      <4>1. told'[p] = told[p]
        BY <1>8, <1>11
      <4>2. told[p].run <= poll.run
        BY <1>5, <2>0, <4>1 DEF Push!ToldFits
      <4>3. told[p].run = poll.run
        BY <1>5, <1>7, <2>t, <4>1, <4>2
      <4>4. CASE Push!Changed(p, poll.snapshot[p])
        <5>1. Push!ToldBefore(told[p], previous[p]) /\ Push!Before(previous[p], poll.snapshot[p])
          BY <1>1, <1>5, <2>0, <3>0, <4>1, <4>3, <4>4 DEF Push!PreviousFits
        <5> QED BY <2>t, <3>0, <4>1, <4>4, <5>1 DEF Push!ToldBefore, Push!Before
      <4>5. CASE ~Push!Changed(p, poll.snapshot[p]) /\ pending'[p] = pending[p]
        <5>1. previous[p] # None /\ told[p].seq # previous[p].seq
          BY <1>5, <2>0, <4>1, <4>3, <4>5 DEF Push!PendingFits
        <5> QED BY <3>0, <4>1, <4>5, <5>1
      <4> QED BY <1>13, <4>4, <4>5
    <3>2. previous'[p].run = run /\ agents[p] # None /\ agents[p].seq = previous'[p].seq =>
            agents[p].since + Delay <= pending'[p]
      <4>1. CASE Push!Changed(p, poll.snapshot[p]) /\ pending'[p] = clock + Delay
        <5>1. agents[p] # None => agents[p].since <= clock /\ agents[p].since \in Int
          BY <2>0, PaneTypes DEF Push!ShownFits, Push!PushInv
        <5>2. clock \in Int /\ Delay \in Int
          BY PaneTypes DEF Push!PushInv
        <5> QED BY <4>1, <5>1, <5>2
      <4>2. CASE ~Push!Changed(p, poll.snapshot[p]) /\ pending'[p] = pending[p]
        <5>1. previous[p] # None
          BY <2>0, <4>2 DEF Push!PendingFits
        <5>2. previous'[p].run = previous[p].run /\ previous'[p].seq = previous[p].seq
          BY <1>12, <3>0, <4>2, <5>1
        <5> QED BY <2>0, <4>2, <5>2 DEF Push!PendingFits
      <4> QED BY <1>13, <4>1, <4>2
    <3> QED BY <1>1, <3>0, <3>1, <3>2 DEF Push!PendingFits
  <2>5. Push!DueFits(p)'
    <3> SUFFICES ASSUME p \in due PROVE Push!DueFits(p)'
      BY <1>6 DEF Push!DueFits
    <3>1. /\ Push!Seen(p) /\ poll.snapshot[p] # None /\ poll.snapshot[p].status = "done"
          /\ ~Push!Changed(p, poll.snapshot[p]) /\ pending[p] # None /\ clock >= pending[p]
      BY <1>d DEF Push!Due, Push!Seen
    <3>2. previous[p] # None /\ previous[p].status = poll.snapshot[p].status /\ previous[p].seq = poll.snapshot[p].seq
      BY <2>0, <3>1 DEF Push!PendingFits, Push!Changed
    <3>3. /\ poll'.at = "markers" /\ poll'.snapshot = poll.snapshot /\ poll'.run = poll.run /\ p \in poll'.due
      BY <1>6
    <3>4. /\ pending'[p] = None /\ previous'[p] # None /\ previous'[p].seq = poll.snapshot[p].seq
          /\ previous'[p].status = "done" /\ previous'[p].run = previous[p].run
      BY <1>3, <1>12, <3>1, <3>2
    <3>5. told'[p] # [kind |-> "done", pane |-> p, seq |-> poll.snapshot[p].seq, run |-> poll.run]
      <4>1. CASE told'[p] = told[p]
        <5> SUFFICES ASSUME told[p] = [kind |-> "done", pane |-> p, seq |-> poll.snapshot[p].seq, run |-> poll.run],
                            told[p] # None
                     PROVE  FALSE
          <6>1. [kind |-> "done", pane |-> p, seq |-> poll.snapshot[p].seq, run |-> poll.run] # None
            <7>1. Push!Message("done", p) \in Push!Messages
              BY <1>5, <3>1 DEF Push!PushInv, Push!PushTypeOK, Push!Agents, Push!Message, Push!Messages
            <7>2. Push!Message("done", p) # None
              BY <7>1 DEF Push!PushAssumption
            <7> QED BY <7>2 DEF Push!Message
          <6> QED BY <4>1, <6>1
        <5>1. told[p].kind = "done" /\ told[p].seq = previous[p].seq /\ told[p].run = Push!RunOf
          BY <1>5, <3>2
        <5> QED BY <2>0, <3>1, <5>1 DEF Push!PendingFits
      <4>2. CASE p \in blocked /\ told'[p] = Push!Message("blocked", p)
        BY <1>8, <3>1, <4>2
      <4> QED BY <1>11, <4>1, <4>2
    <3>6. previous[p].run = poll.run => poll.snapshot[p].since + Delay <= clock
      <4>1. previous[p].run = poll.run => poll.snapshot[p].since + Delay <= pending[p]
        BY <1>1, <2>0, <3>1, <3>2 DEF Push!PendingFits
      <4>2. /\ pending[p] \in Int /\ clock \in Int /\ poll.snapshot[p].since \in Int /\ Delay \in Int
        BY <3>1, PaneTypes DEF Push!PushInv
      <4> QED BY <3>1, <4>1, <4>2
    <3> QED BY <1>1, <3>1, <3>3, <3>4, <3>5, <3>6 DEF Push!DueFits
  <2> QED BY <2>1, <2>2, <2>3, <2>4, <2>5 DEF PaneFits
<1>16. \A message \in poll'.out : message # told[message.pane] /\ message.kind = "blocked"
  <2> SUFFICES ASSUME NEW p \in blocked PROVE Push!Message("blocked", p) # told[p]
    BY <1>b, <1>o, <1>6, <1>8
  <2>0. Push!ShownFits(p) /\ Push!ToldFits(p) /\ Push!PreviousFits(p) /\ p \in Panes
    BY <1>b DEF Push!PushInv
  <2>1. previous[p] # None /\ (previous[p].status # poll.snapshot[p].status \/ previous[p].seq # poll.snapshot[p].seq)
    BY <1>8, <2>0 DEF Push!Changed
  <2> SUFFICES ASSUME told[p] = Push!Message("blocked", p) PROVE FALSE
    OBVIOUS
  <2>2. told[p] # None /\ told[p].run = Push!RunOf /\ told[p].kind = "blocked" /\ told[p].seq = poll.snapshot[p].seq
    BY <1>5, <1>8, <2>0 DEF Push!PushAssumption
  <2>3. Push!ToldBefore(told[p], previous[p]) /\ Push!Before(previous[p], poll.snapshot[p])
    BY <1>1, <1>5, <1>8, <2>0, <2>1, <2>2 DEF Push!PreviousFits
  <2>4. previous[p].seq \in Int /\ poll.snapshot[p].seq \in Int
    BY <1>8, <2>0, <2>1, PaneTypes DEF Push!PushInv
  <2> QED BY <1>8, <2>0, <2>1, <2>2, <2>3, <2>4 DEF Push!ToldBefore, Push!Before
<1> QED BY <1>1, <1>5, <1>6, <1>7, <1>14, <1>15, <1>16 DEF Push!PushInv, PaneFits

\* A finished round that is not read is told; one that was read is not.
LEMMA ReadMarkersKeeps ==
    ASSUME Push!PushAssumption, Push!PushInv, Push!ReadMarkers
    PROVE  /\ Push!PushInv'
           /\ \A message \in poll'.out \ poll.out :
                 message # told[message.pane] /\ markers[message.pane] # message.seq
<1>o. PICK out : out = {Push!Message("done", p) : p \in {q \in poll.due : Push!Unread(q)}}
  OBVIOUS
<1>1. /\ poll.at = "markers" /\ poll' = Push!ToDeliver(poll.out \cup out) /\ told' = Push!Tells(out)
      /\ UNCHANGED <<clock, agents, seq, run, previous, pending, markers, absent>>
  BY <1>o DEF Push!ReadMarkers, Push!herdrVars
<1>2. /\ poll'.at = "deliver" /\ poll'.out = poll.out \cup out /\ poll'.due = {} /\ poll'.run = 0
      /\ poll'.snapshot = [p \in Panes |-> None]
  BY <1>1 DEF Push!ToDeliver, Push!Idle
<1>3. /\ Push!RunOf' = run /\ Push!RunOf = poll.run /\ poll.run \in 1..run /\ run \in 1..MaxRun /\ MaxRun \in Nat
      /\ poll.run \in 1..MaxRun /\ ~Push!Works' /\ Push!Works
  BY <1>1, <1>2 DEF Push!Works, Push!RunOf, Push!PushInv, Push!PushTypeOK, Push!PushAssumption
<1>4. ASSUME NEW p \in poll.due
      PROVE  /\ Push!Message("done", p) \in Push!Messages /\ Push!Message("done", p).pane = p
             /\ Push!Message("done", p).kind = "done" /\ Push!Message("done", p).run = poll.run
             /\ Push!Message("done", p).seq = poll.snapshot[p].seq
             /\ p \in Panes /\ Push!DueFits(p) /\ Push!ShownFits(p)
  <2>1. p \in Panes /\ Push!DueFits(p) /\ Push!ShownFits(p)
    BY DEF Push!PushInv, Push!PushTypeOK
  <2>2. poll.snapshot[p] \in Push!Agents
    BY <2>1 DEF Push!DueFits, Push!PushInv, Push!PushTypeOK
  <2> QED BY <1>3, <2>1, <2>2 DEF Push!Message, Push!Messages, Push!Agents
<1>5. out \in SUBSET Push!Messages
  BY <1>o, <1>4
<1>6. told' \in [Panes -> Push!Messages \cup {None}]
  BY <1>1, <1>5, TellsTypes DEF Push!PushInv, Push!Tells
<1>7. \A p \in Panes : told'[p] = told[p] \/ (p \in poll.due /\ told'[p] = Push!Message("done", p))
  <2> SUFFICES ASSUME NEW p \in Panes, told'[p] # told[p]
               PROVE  p \in poll.due /\ told'[p] = Push!Message("done", p)
    OBVIOUS
  <2>1. told'[p] \in out /\ told'[p].pane = p
    BY <1>1, <1>5, TellsTypes DEF Push!PushInv
  <2>2. PICK q \in poll.due : told'[p] = Push!Message("done", q)
    BY <1>o, <2>1
  <2>3. q = p
    BY <1>4, <2>1, <2>2
  <2> QED BY <2>2, <2>3
<1>8. Push!PushTypeOK'
  <2>1. Push!PushTypeOK /\ 0 \in 0..MaxRun
    BY <1>3 DEF Push!PushInv
  <2>2. poll'.out \subseteq Push!Messages
    BY <1>2, <1>5, <2>1 DEF Push!PushTypeOK
  <2>3. poll'.snapshot \in [Panes -> Push!Agents \cup {None}]
    BY <1>2
  <2> QED BY <1>1, <1>2, <1>6, <2>1, <2>2, <2>3 DEF Push!PushTypeOK
<1>9. ASSUME NEW p \in Panes PROVE PaneFits(p)'
  <2>0. Push!ShownFits(p) /\ Push!ToldFits(p) /\ Push!PreviousFits(p) /\ Push!PendingFits(p) /\ Push!DueFits(p)
    BY DEF Push!PushInv
  <2>1. Push!ShownFits(p)'
    BY <1>1, <1>3, <2>0 DEF Push!ShownFits
  <2>2. CASE told'[p] = told[p]
    <3>1. Push!ToldFits(p)'
      BY <1>1, <1>2, <1>3, <2>0, <2>2, PaneTypes DEF Push!ToldFits, Push!ToldBefore, Push!PushInv
    <3>2. Push!PreviousFits(p)'
      BY <1>1, <1>2, <1>3, <2>0, <2>2, PaneTypes DEF Push!PreviousFits, Push!ToldFits, Push!ToldBefore,
         Push!Before, Push!PushInv
    <3>3. Push!PendingFits(p)'
      BY <1>1, <1>2, <1>3, <2>0, <2>2, PaneTypes DEF Push!PendingFits, Push!ToldFits, Push!PushInv
    <3>4. Push!DueFits(p)'
      BY <1>2 DEF Push!DueFits
    <3> QED BY <2>1, <3>1, <3>2, <3>3, <3>4 DEF PaneFits
  <2>3. CASE p \in poll.due /\ told'[p] = Push!Message("done", p)
    <3>0. /\ told'[p].run = poll.run /\ told'[p].seq = poll.snapshot[p].seq /\ told'[p].pane = p /\ told'[p].kind = "done"
          /\ poll.snapshot[p] # None /\ poll.snapshot[p].status = "done" /\ previous[p] # None
          /\ previous[p].seq = poll.snapshot[p].seq /\ previous[p].status = "done" /\ pending[p] = None
          /\ poll.snapshot[p].seq \in Int
      BY <1>4, <2>0, <2>3, PaneTypes DEF Push!DueFits, Push!PushInv
    <3>1. Push!ToldFits(p)'
      BY <1>1, <1>2, <1>3, <2>0, <3>0 DEF Push!ToldFits, Push!ToldBefore, Push!ShownFits
    <3>2. Push!PreviousFits(p)'
      <4>1. previous[p].run <= Push!RunOf' /\ (previous[p].run = run => previous[p].seq <= seq)
        BY <1>3, <2>0, <3>0, PaneTypes DEF Push!PreviousFits, Push!PushInv
      <4>2. poll.run = run =>
              /\ previous[p].seq <= seq
              /\ agents[p] # None => Push!Before(previous[p], agents[p])
        BY <1>3, <2>0, <3>0 DEF Push!ShownFits, Push!Before
      <4>3. Push!ToldBefore(told[p], previous[p])'
        BY <1>1, <3>0 DEF Push!ToldBefore
      <4>4. agents[p] # None => (Push!Before(previous[p], agents[p])' <=> Push!Before(previous[p], agents[p]))
        BY <1>1 DEF Push!Before
      <4> QED BY <1>1, <1>2, <1>3, <3>0, <4>1, <4>2, <4>3, <4>4 DEF Push!PreviousFits
    <3>3. Push!PendingFits(p)'
      BY <1>1, <3>0 DEF Push!PendingFits
    <3>4. Push!DueFits(p)'
      BY <1>2 DEF Push!DueFits
    <3> QED BY <2>1, <3>1, <3>2, <3>3, <3>4 DEF PaneFits
  <2> QED BY <1>7, <2>2, <2>3
<1>10. \A message \in poll'.out \ poll.out :
          message # told[message.pane] /\ markers[message.pane] # message.seq
  <2> SUFFICES ASSUME NEW p \in poll.due, Push!Unread(p)
               PROVE  Push!Message("done", p) # told[p] /\ markers[p] # Push!Message("done", p).seq
    BY <1>o, <1>2, <1>4
  <2>1. markers[p] # Push!Message("done", p).seq
    BY <1>4 DEF Push!Unread
  <2>2. Push!Message("done", p) # told[p]
    BY <1>4 DEF Push!DueFits, Push!Message
  <2> QED BY <2>1, <2>2
<1> QED BY <1>1, <1>3, <1>8, <1>9, <1>10 DEF Push!PushInv, PaneFits

\* Without the markers the rounds wait on, and are due at once.
LEMMA MarkersFailKeeps ==
    ASSUME Push!PushAssumption, Push!PushInv, Push!MarkersFail
    PROVE  Push!PushInv' /\ poll'.out = poll.out /\ poll'.due = {}
<1>1. /\ poll.at = "markers" /\ poll' = Push!ToDeliver(poll.out)
      /\ pending' = [p \in Panes |-> IF p \in poll.due /\ pending[p] = None /\ previous[p] # None /\ previous[p].status = "done"
                                     THEN clock ELSE pending[p]]
      /\ UNCHANGED <<clock, agents, seq, run, previous, told, markers, absent>>
  BY DEF Push!MarkersFail, Push!herdrVars
<1>2. /\ poll'.at = "deliver" /\ poll'.out = poll.out /\ poll'.due = {} /\ poll'.run = 0
      /\ poll'.snapshot = [p \in Panes |-> None]
  BY <1>1 DEF Push!ToDeliver, Push!Idle
<1>3. /\ Push!RunOf' = run /\ Push!RunOf = poll.run /\ poll.run \in 1..run /\ run \in Int /\ ~Push!Works' /\ Push!Works
  BY <1>1, <1>2 DEF Push!Works, Push!RunOf, Push!PushInv, Push!PushTypeOK, Push!PushAssumption
<1>4. Push!PushTypeOK'
  <2>1. clock \in 0..(MaxClock + Delay)
    BY DEF Push!PushInv, Push!PushTypeOK, Push!PushAssumption
  <2>2. pending' \in [Panes -> 0..(MaxClock + Delay) \cup {None}]
    BY <1>1, <2>1 DEF Push!PushInv, Push!PushTypeOK
  <2>3. /\ poll'.at \in {"idle", "snapshot", "compare", "markers", "deliver"}
        /\ poll'.snapshot \in [Panes -> Push!Agents \cup {None}] /\ poll'.run \in 0..MaxRun
        /\ poll'.due \subseteq Panes /\ poll'.out \subseteq Push!Messages
    BY <1>2 DEF Push!PushInv, Push!PushTypeOK, Push!PushAssumption
  <2> QED BY <1>1, <2>2, <2>3 DEF Push!PushInv, Push!PushTypeOK
<1>5. ASSUME NEW p \in Panes PROVE PaneFits(p)'
  <2>0. Push!ShownFits(p) /\ Push!ToldFits(p) /\ Push!PreviousFits(p) /\ Push!PendingFits(p) /\ Push!DueFits(p)
    BY DEF Push!PushInv
  <2>1. Push!ShownFits(p)'
    BY <1>1, <1>3, <2>0 DEF Push!ShownFits
  <2>2. Push!ToldFits(p)'
    BY <1>1, <1>2, <1>3, <2>0, PaneTypes DEF Push!ToldFits, Push!ToldBefore, Push!PushInv
  <2>3. Push!PreviousFits(p)'
    <3>1. previous[p] # None => /\ previous[p].run <= run
                                /\ previous[p].run = run => previous[p].seq <= seq
      BY <1>3, <2>0, PaneTypes DEF Push!PreviousFits, Push!PushInv
    <3>2. told[p] # None /\ told[p].run = run => Push!RunOf = run
      BY <1>3, <2>0, PaneTypes DEF Push!ToldFits, Push!PushInv
    <3>3. previous[p] # None /\ told[p] # None /\ told[p].run = run =>
            /\ Push!ToldBefore(told[p], previous[p])
            /\ previous[p].seq <= seq
            /\ agents[p] # None => Push!Before(previous[p], agents[p])
      BY <2>0, <3>2 DEF Push!PreviousFits
    <3>4. /\ Push!ToldBefore(told[p], previous[p])' <=> Push!ToldBefore(told[p], previous[p])
          /\ Push!Before(previous[p], agents[p])' <=> Push!Before(previous[p], agents[p])
      BY <1>1 DEF Push!ToldBefore, Push!Before
    <3> QED BY <1>1, <1>2, <1>3, <3>1, <3>3, <3>4 DEF Push!PreviousFits
  <2>4. Push!PendingFits(p)'
    <3>1. CASE pending'[p] = pending[p]
      <4> SUFFICES ASSUME pending[p] # None PROVE Push!PendingFits(p)'
        BY <3>1 DEF Push!PendingFits
      <4>1. previous[p] # None
        BY <2>0 DEF Push!PendingFits
      <4>2. told[p] # None /\ told[p].run = run => told[p].run = Push!RunOf
        BY <1>3, <2>0, PaneTypes DEF Push!ToldFits, Push!PushInv
      <4>3. told[p] # None /\ told[p].run = run /\ told[p].kind = "done" => told[p].seq # previous[p].seq
        BY <2>0, <4>2 DEF Push!PendingFits
      <4>4. previous[p].run = run /\ agents[p] # None /\ agents[p].seq = previous[p].seq =>
              agents[p].since + Delay <= pending[p]
        BY <2>0 DEF Push!PendingFits
      <4> QED BY <1>1, <1>2, <1>3, <3>1, <4>1, <4>3, <4>4 DEF Push!PendingFits
    <3>2. CASE p \in poll.due /\ pending'[p] = clock
      <4>0. /\ previous[p] # None /\ previous[p].seq = poll.snapshot[p].seq /\ poll.snapshot[p] # None
            /\ previous[p].run = poll.run => poll.snapshot[p].since + Delay <= clock
            /\ told[p] # [kind |-> "done", pane |-> p, seq |-> poll.snapshot[p].seq, run |-> poll.run]
        BY <2>0, <3>2 DEF Push!DueFits
      <4>1. ~(told[p] # None /\ told[p].run = run /\ told[p].kind = "done" /\ told[p].seq = previous[p].seq)
        <5> SUFFICES ASSUME told[p] # None, told[p].run = run, told[p].kind = "done", told[p].seq = previous[p].seq
                     PROVE  FALSE
          OBVIOUS
        <5>1. told[p].run = poll.run /\ told[p].pane = p
          BY <1>3, <2>0, PaneTypes DEF Push!ToldFits, Push!PushInv
        <5>2. told[p] \in Push!Messages
          BY PaneTypes DEF Push!PushInv
        <5> QED BY <4>0, <5>1, <5>2 DEF Push!Messages
      <4>2. ASSUME previous[p].run = run, agents[p] # None, agents[p].seq = previous[p].seq
            PROVE  agents[p].since + Delay <= clock
        <5>1. poll.run = run
          BY <1>3, <2>0, <4>0, <4>2 DEF Push!PreviousFits
        <5>2. poll.snapshot[p] = agents[p]
          BY <1>3, <2>0, <4>0, <4>2, <5>1 DEF Push!ShownFits
        <5> QED BY <4>0, <4>2, <5>1, <5>2
      <4> QED BY <1>1, <1>2, <1>3, <3>2, <4>0, <4>1, <4>2 DEF Push!PendingFits
    <3> QED BY <1>1, <3>1, <3>2
  <2>5. Push!DueFits(p)'
    BY <1>2 DEF Push!DueFits
  <2> QED BY <2>1, <2>2, <2>3, <2>4, <2>5 DEF PaneFits
<1> QED BY <1>1, <1>2, <1>3, <1>4, <1>5 DEF Push!PushInv, PaneFits

\* Nothing has run and nothing was told.
LEMMA PushInitKeeps ==
    ASSUME Push!PushAssumption, Push!PushInit PROVE Push!PushInv
<1>1. Push!Idle.at = "idle" /\ Push!Idle.snapshot = [p \in Panes |-> None] /\ Push!Idle.run = 0 /\ Push!Idle.due = {} /\ Push!Idle.out = {}
  BY DEF Push!Idle
<1>2. Push!PushTypeOK
  BY <1>1 DEF Push!PushInit, Push!PushTypeOK, Push!PushAssumption
<1>3. \A p \in Panes : agents[p] = None /\ previous[p] = None /\ pending[p] = None /\ told[p] = None
  BY DEF Push!PushInit
<1>4. poll.at = "idle" /\ poll.due = {}
  BY <1>1 DEF Push!PushInit
<1> QED
  BY <1>2, <1>3, <1>4 DEF Push!PushInv, Push!Works, Push!ShownFits, Push!ToldFits, Push!PreviousFits,
     Push!PendingFits, Push!DueFits

\* What a step puts out was not told before, and is due and unread.
ToldOnceStep ==
    /\ \A message \in poll'.out \ poll.out :
         message # told[message.pane] /\ (message.kind = "done" => markers[message.pane] # message.seq)
    /\ \A p \in poll'.due \ poll.due :
         previous[p].run = poll.run => poll.snapshot[p].since + Delay <= clock

\* One lemma for each action; only Compare and Tell send anything.
LEMMA PushInvStep ==
    ASSUME Push!PushAssumption, Push!PushInv, [Push!PushNext]_(Push!pushVars)
    PROVE  Push!PushInv' /\ ToldOnceStep
<1>1. CASE Push!Compare
  <2>1. Push!PushInv' /\ \A message \in poll'.out : message # told[message.pane] /\ message.kind = "blocked"
    BY <1>1, CompareKeeps
  <2>2. \A p \in poll'.due \ poll.due : previous[p].run = poll.run => poll.snapshot[p].since + Delay <= clock
    <3> SUFFICES ASSUME NEW p \in poll'.due, previous[p].run = poll.run
                 PROVE  poll.snapshot[p].since + Delay <= clock
      OBVIOUS
    <3>0. p \in Panes
      BY <2>1 DEF Push!PushInv, Push!PushTypeOK
    <3>1. Push!PendingFits(p) /\ Push!DueFits(p)'
      BY <2>1, <3>0 DEF Push!PushInv
    <3>2. poll'.due \subseteq {q \in Panes : Push!Seen(q) /\ Push!Due(q, poll.snapshot[q])}
      <4> DEFINE due == {q \in Panes : Push!Seen(q) /\ Push!Due(q, poll.snapshot[q])}
      <4>1. \/ due = {} /\ poll'.due = {}
            \/ poll'.due = due
        BY <1>1 DEF Push!Compare, Push!ToDeliver, Push!Idle
      <4> QED BY <4>1
    <3>3. /\ poll.snapshot[p] # None /\ pending[p] # None /\ clock >= pending[p] /\ ~Push!Changed(p, poll.snapshot[p])
      BY <3>2 DEF Push!Due, Push!Seen
    <3>4. previous[p] # None /\ poll.snapshot[p].seq = previous[p].seq /\ poll.at = "compare"
      BY <1>1, <3>1, <3>3 DEF Push!PendingFits, Push!Changed, Push!Compare
    <3>5. poll.snapshot[p].since + Delay <= pending[p]
      BY <3>1, <3>3, <3>4 DEF Push!PendingFits
    <3>6. pending[p] \in Int /\ clock \in Int /\ poll.snapshot[p].since \in Int /\ Delay \in Int
      BY <3>0, <3>3, PaneTypes DEF Push!PushInv
    <3> QED BY <3>3, <3>5, <3>6
  <2> QED BY <2>1, <2>2 DEF ToldOnceStep
<1>2. CASE Push!ReadMarkers
  <2>1. poll'.due = {}
    BY <1>2 DEF Push!ReadMarkers, Push!ToDeliver, Push!Idle
  <2> QED BY <1>2, <2>1, ReadMarkersKeeps DEF ToldOnceStep
<1>3. CASE Push!MarkersFail
  BY <1>3, MarkersFailKeeps DEF ToldOnceStep
<1>4. CASE Push!Snapshot
  <2>1. poll'.out = poll.out /\ poll'.due = poll.due
    BY <1>4 DEF Push!Snapshot
  <2> QED BY <1>4, <2>1, SnapshotKeeps DEF ToldOnceStep
<1>5. CASE Push!Collect \/ Push!PollStops \/ Push!Delivered
  <2>1. poll'.out = {} /\ poll'.due = {}
    BY <1>5 DEF Push!Collect, Push!PollStops, Push!Delivered, Push!Idle
  <2> QED BY <1>5, <2>1, TurnsKeep DEF ToldOnceStep
<1>6. CASE UNCHANGED Push!pushVars
  BY <1>6 DEF Push!pushVars, Push!herdrVars, Push!pollVars, Push!PushInv, Push!PushTypeOK, Push!Works,
     Push!RunOf, Push!ShownFits, Push!ToldFits, Push!PreviousFits,
     Push!PendingFits, Push!DueFits, ToldOnceStep
<1>7. CASE Push!Forget \/ Push!HerdrRestarts \/ Push!Tick
  <2>1. poll' = poll
    BY <1>7 DEF Push!Forget, Push!HerdrRestarts, Push!Tick, Push!pollVars
  <2> QED BY <1>7, <2>1, ForgetKeeps, HerdrRestartsKeeps, TickKeeps DEF ToldOnceStep
<1>8. ASSUME NEW p \in Panes, Push!AgentMoves(p) \/ Push!PaneCloses(p) \/ Push!FindAbsent(p) \/ Push!Prune(p)
                               \/ \E shown \in 1..seq : Push!MarkSeen(p, shown)
      PROVE  Push!PushInv' /\ ToldOnceStep
  <2>1. poll' = poll
    BY <1>8 DEF Push!AgentMoves, Push!PaneCloses, Push!FindAbsent, Push!Prune, Push!MarkSeen, Push!pollVars
  <2> QED BY <1>8, <2>1, AgentMovesKeeps, PaneClosesKeeps, MarkersKeep DEF ToldOnceStep
<1> QED BY <1>1, <1>2, <1>3, <1>4, <1>5, <1>6, <1>7, <1>8 DEF Push!PushNext

\* A round is told once, and a finished one not before it has stayed finished
\* for the delay, unless Herdr was restarted in between (collectPushHost).
THEOREM PushInvariance ==
    ASSUME Push!PushAssumption
    PROVE  Push!PushSpec => []Push!PushInv /\ Push!ToldOnceInTime
<1>1. Push!PushInit => Push!PushInv
  BY PushInitKeeps
<1>2. Push!PushInv /\ [Push!PushNext]_(Push!pushVars) => Push!PushInv'
  BY PushInvStep
<1>3. Push!PushInv /\ [Push!PushNext]_(Push!pushVars) => [ToldOnceStep]_(Push!pushVars)
  BY PushInvStep
<1> QED BY <1>1, <1>2, <1>3, PTL DEF Push!PushSpec, Push!ToldOnceInTime, ToldOnceStep

(***************************************************************************)
(* Subscriptions                                                           *)
(***************************************************************************)

\* The states of the workers.
Workers == [at : {"idle", "collected", "deliver", "sent", "ended"}, owner : Subscribers \cup {None},
            left : SUBSET Delivery!Subscriptions, current : Delivery!Subscriptions \cup {None}]

\* What a worker holds.
LEMMA WorkerTypes ==
    ASSUME Delivery!DeliveryAssumption, Delivery!DeliveryInv, NEW d \in Deliveries
    PROVE  /\ delivery[d] \in Workers
           /\ \A sub \in delivery[d].left : sub.id <= lastId
           /\ delivery[d].at # "idle" => delivery[d].owner \in Subscribers
           /\ delivery[d].at = "sent" => /\ delivery[d].current \in Delivery!Subscriptions
                                         /\ delivery[d].current.id <= lastId
                                         /\ delivery[d].current.id > cleared[delivery[d].owner]
<1>1. delivery[d] \in Workers
  BY DEF Delivery!DeliveryInv, Delivery!DeliveryTypeOK, Workers
<1>2. delivery[d].owner \in Subscribers \cup {None} /\ delivery[d].current \in Delivery!Subscriptions \cup {None}
  BY <1>1 DEF Workers
<1>3. /\ \A sub \in delivery[d].left : sub.id <= lastId
      /\ delivery[d].at # "idle" => delivery[d].owner # None
      /\ delivery[d].at = "sent" => /\ delivery[d].current # None /\ delivery[d].current.id <= lastId
                                    /\ delivery[d].current.id > cleared[delivery[d].owner]
  BY DEF Delivery!DeliveryInv, Delivery!DeliveryTypeOK, Delivery!EndedIsSilent
<1> QED BY <1>1, <1>2, <1>3

\* What the rows and the ends of access are.
LEMMA SubscriptionTypes ==
    ASSUME Delivery!DeliveryAssumption, Delivery!DeliveryInv
    PROVE  /\ MaxId \in Nat /\ lastId \in 0..MaxId /\ enabled \subseteq Subscribers
           /\ cleared \in [Subscribers -> 0..MaxId] /\ \A u \in Subscribers : cleared[u] <= lastId
           /\ subscriptions \in [Endpoints -> Delivery!Rows \cup {None}]
           /\ \A e \in Endpoints : subscriptions[e] # None =>
                /\ subscriptions[e] \in Delivery!Rows
                /\ subscriptions[e].id <= lastId /\ subscriptions[e].id > cleared[subscriptions[e].user]
BY DEF Delivery!DeliveryInv, Delivery!DeliveryTypeOK, Delivery!DeliveryAssumption

\* One worker moves, and asks a provider about a standing row only.
LEMMA WorkerMoves ==
    ASSUME Delivery!DeliveryAssumption, Delivery!DeliveryInv, NEW d \in Deliveries, NEW w \in Workers,
           delivery' = [delivery EXCEPT ![d] = w], UNCHANGED <<subscriptions, lastId, enabled, cleared>>,
           \A sub \in w.left : sub.id <= lastId,
           w.at # "idle" => w.owner # None,
           w.at = "sent" => w.current # None /\ w.current.id <= lastId /\ w.current.id > cleared[w.owner]
    PROVE  Delivery!DeliveryInv'
<1>1. delivery \in [Deliveries -> Workers]
  BY DEF Delivery!DeliveryInv, Delivery!DeliveryTypeOK, Workers
<1>2. delivery' \in [Deliveries -> Workers]
  BY <1>1
<1>3. ASSUME NEW e \in Deliveries PROVE delivery'[e] = w \/ delivery'[e] = delivery[e]
  BY <1>1
<1>4. Delivery!DeliveryTypeOK'
  BY <1>2, <1>3 DEF Delivery!DeliveryInv, Delivery!DeliveryTypeOK, Workers
<1>5. Delivery!EndedIsSilent'
  BY <1>3 DEF Delivery!DeliveryInv, Delivery!EndedIsSilent
<1> QED BY <1>3, <1>4, <1>5 DEF Delivery!DeliveryInv

\* A subscription is saved with an id that is new.
LEMMA SubscribeKeeps ==
    ASSUME Delivery!DeliveryAssumption, Delivery!DeliveryInv, NEW u \in Subscribers, NEW e \in Endpoints, Delivery!subscribePush(u, e)
    PROVE  Delivery!DeliveryInv' /\ \A x \in Endpoints : subscriptions'[x] = subscriptions[x] \/ subscriptions'[x] # None
<1>1. /\ lastId < MaxId /\ lastId' = lastId + 1
      /\ subscriptions' = [subscriptions EXCEPT ![e] = [id |-> lastId + 1, user |-> u]]
      /\ UNCHANGED <<enabled, cleared, delivery>>
  BY DEF Delivery!subscribePush
<1>2. lastId \in 0..MaxId /\ MaxId \in Nat /\ lastId' \in 0..MaxId
  BY <1>1, SubscriptionTypes
<1>3. PICK new : new = [id |-> lastId + 1, user |-> u]
  OBVIOUS
<1>4. new \in Delivery!Rows /\ new.id = lastId + 1 /\ new.user = u /\ new # None
  <2>1. new \in Delivery!Rows /\ new.id = lastId + 1 /\ new.user = u
    BY <1>1, <1>2, <1>3 DEF Delivery!Rows
  <2> QED BY <2>1 DEF Delivery!DeliveryAssumption
<1>5. subscriptions \in [Endpoints -> Delivery!Rows \cup {None}]
  BY SubscriptionTypes
<1>6. /\ subscriptions' \in [Endpoints -> Delivery!Rows \cup {None}]
      /\ \A x \in Endpoints : subscriptions'[x] = subscriptions[x] \/ subscriptions'[x] = new
  BY <1>1, <1>3, <1>4, <1>5
<1>7. \A v \in Subscribers : cleared[v] \in 0..MaxId /\ cleared[v] <= lastId
  BY SubscriptionTypes
<1>8. \A x \in Endpoints : subscriptions'[x] # None =>
        subscriptions'[x].id <= lastId' /\ subscriptions'[x].id > cleared[subscriptions'[x].user]
  <2> SUFFICES ASSUME NEW x \in Endpoints, subscriptions'[x] # None
               PROVE  subscriptions'[x].id <= lastId' /\ subscriptions'[x].id > cleared[subscriptions'[x].user]
    OBVIOUS
  <2>1. CASE subscriptions'[x] = new
    BY <1>1, <1>2, <1>4, <1>7, <2>1
  <2>2. CASE subscriptions'[x] = subscriptions[x]
    <3>1. /\ subscriptions[x] \in Delivery!Rows /\ subscriptions[x].id <= lastId
          /\ subscriptions[x].id > cleared[subscriptions[x].user]
      BY <2>2, SubscriptionTypes
    <3> QED BY <1>1, <1>2, <2>2, <3>1 DEF Delivery!Rows
  <2> QED BY <1>6, <2>1, <2>2
<1>9. ASSUME NEW d \in Deliveries
      PROVE  /\ \A sub \in delivery[d].left : sub.id <= lastId'
             /\ delivery[d].at = "sent" => delivery[d].current.id <= lastId'
  <2>1. \A sub \in Delivery!Subscriptions : sub.id <= lastId => sub.id <= lastId'
    BY <1>1, <1>2 DEF Delivery!Subscriptions
  <2>2. delivery[d].left \subseteq Delivery!Subscriptions
    BY WorkerTypes DEF Workers
  <2> QED BY <2>1, <2>2, WorkerTypes
<1>10. \A v \in Subscribers : cleared[v] <= lastId'
  BY <1>1, <1>2, <1>7
<1>11. Delivery!DeliveryTypeOK'
  BY <1>1, <1>2, <1>6, <1>8, <1>9 DEF Delivery!DeliveryInv, Delivery!DeliveryTypeOK
<1>12. Delivery!EndedIsSilent'
  BY <1>1 DEF Delivery!DeliveryInv, Delivery!EndedIsSilent
<1>13. Delivery!DeliveryInv'
  BY <1>1, <1>8, <1>9, <1>10, <1>11, <1>12 DEF Delivery!DeliveryInv
<1> QED BY <1>4, <1>6, <1>13

\* The access of a user ends: the user's rows go, and no worker asks about them
\* any more.
LEMMA EndAccessKeeps ==
    ASSUME Delivery!DeliveryAssumption, Delivery!DeliveryInv, NEW u \in Subscribers, Delivery!EndAccess(u),
           enabled' \subseteq Subscribers
    PROVE  /\ Delivery!DeliveryInv'
           /\ \A e \in Endpoints : subscriptions[e] # None /\ subscriptions'[e] = None =>
                subscriptions[e].id <= cleared'[subscriptions[e].user]
<1>1. /\ subscriptions' = [e \in Endpoints |-> IF e \in Delivery!RowsOf(u) THEN None ELSE subscriptions[e]]
      /\ cleared' = [cleared EXCEPT ![u] = lastId] /\ lastId' = lastId
      /\ delivery' = [d \in Deliveries |->
            IF delivery[d].owner = u /\ delivery[d].at \in {"deliver", "sent"}
            THEN [delivery[d] EXCEPT !.at = "ended"] ELSE delivery[d]]
  BY DEF Delivery!EndAccess, Delivery!DeleteRows
<1>2. /\ MaxId \in Nat /\ lastId \in 0..MaxId /\ cleared \in [Subscribers -> 0..MaxId]
      /\ \A v \in Subscribers : cleared[v] <= lastId
      /\ subscriptions \in [Endpoints -> Delivery!Rows \cup {None}]
  BY SubscriptionTypes
<1>3. /\ cleared' \in [Subscribers -> 0..MaxId] /\ cleared'[u] = lastId
      /\ \A v \in Subscribers : cleared'[v] <= lastId
      /\ \A v \in Subscribers : v # u => cleared'[v] = cleared[v]
  BY <1>1, <1>2
<1>4. /\ subscriptions' \in [Endpoints -> Delivery!Rows \cup {None}]
      /\ \A e \in Endpoints : subscriptions'[e] # None => subscriptions'[e] = subscriptions[e] /\ e \notin Delivery!RowsOf(u)
      /\ \A e \in Endpoints : subscriptions[e] # None /\ subscriptions'[e] = None => e \in Delivery!RowsOf(u)
  BY <1>1, <1>2
<1>5. ASSUME NEW e \in Endpoints, subscriptions'[e] # None
      PROVE  subscriptions'[e].id <= lastId' /\ subscriptions'[e].id > cleared'[subscriptions'[e].user]
  <2>1. /\ subscriptions[e] \in Delivery!Rows /\ subscriptions[e].id <= lastId
        /\ subscriptions[e].id > cleared[subscriptions[e].user]
    BY <1>4, <1>5, SubscriptionTypes
  <2>2. subscriptions[e].user \in Subscribers /\ subscriptions[e].user # u
    BY <1>4, <1>5, <2>1 DEF Delivery!RowsOf, Delivery!Rows
  <2> QED BY <1>1, <1>3, <1>4, <1>5, <2>1, <2>2
<1>6. ASSUME NEW d \in Deliveries
      PROVE  /\ delivery'[d] \in Workers /\ delivery'[d].left = delivery[d].left
             /\ delivery'[d].owner = delivery[d].owner /\ delivery'[d].current = delivery[d].current
             /\ delivery'[d].at # "idle" => delivery[d].at # "idle"
             /\ delivery'[d].at = "sent" => delivery[d].at = "sent" /\ delivery[d].owner # u
  <2>1. PICK old : old = delivery[d]
    OBVIOUS
  <2>2. old \in Workers
    BY <2>1, WorkerTypes
  <2>3. CASE old.owner = u /\ old.at \in {"deliver", "sent"}
    <3>1. delivery'[d] = [old EXCEPT !.at = "ended"]
      BY <1>1, <2>1, <2>3
    <3> QED BY <2>1, <2>2, <2>3, <3>1 DEF Workers
  <2>4. CASE ~(old.owner = u /\ old.at \in {"deliver", "sent"})
    <3>1. delivery'[d] = old
      BY <1>1, <2>1, <2>4
    <3> QED BY <2>1, <2>2, <2>4, <3>1
  <2> QED BY <2>3, <2>4
<1>7. delivery' \in [Deliveries -> Workers]
  BY <1>1, <1>6
<1>8. \A d \in Deliveries : \A sub \in delivery'[d].left : sub.id <= lastId'
  BY <1>1, <1>6, WorkerTypes
<1>9. Delivery!DeliveryTypeOK'
  BY <1>1, <1>2, <1>3, <1>4, <1>5, <1>7, <1>8 DEF Delivery!DeliveryTypeOK, Workers
<1>10. Delivery!EndedIsSilent'
  <2> SUFFICES ASSUME NEW d \in Deliveries, delivery'[d].at = "sent"
               PROVE  delivery'[d].current.id > cleared'[delivery'[d].owner]
    BY DEF Delivery!EndedIsSilent
  <2>1. delivery[d].at = "sent" /\ delivery[d].owner # u
    BY <1>6
  <2>2. delivery[d].owner \in Subscribers /\ delivery[d].current.id > cleared[delivery[d].owner]
    BY <2>1, WorkerTypes
  <2> QED BY <1>3, <1>6, <2>1, <2>2
<1>11. ASSUME NEW d \in Deliveries
       PROVE  /\ delivery'[d].at # "idle" => delivery'[d].owner # None
              /\ delivery'[d].at = "sent" => delivery'[d].current # None /\ delivery'[d].current.id <= lastId'
  BY <1>1, <1>6 DEF Delivery!DeliveryInv
<1>12. Delivery!DeliveryInv'
  BY <1>1, <1>3, <1>5, <1>9, <1>10, <1>11 DEF Delivery!DeliveryInv
<1>13. ASSUME NEW e \in Endpoints, subscriptions[e] # None, subscriptions'[e] = None
       PROVE  subscriptions[e].id <= cleared'[subscriptions[e].user]
  <2>1. subscriptions[e].user = u
    BY <1>4, <1>13 DEF Delivery!RowsOf
  <2> QED BY <1>3, <1>13, <2>1, SubscriptionTypes
<1> QED BY <1>12, <1>13

\* An account that is enabled again has what it had.
LEMMA EnableDeliveryKeeps ==
    ASSUME Delivery!DeliveryAssumption, Delivery!DeliveryInv, NEW u \in Subscribers, Delivery!Enable(u)
    PROVE  Delivery!DeliveryInv'
<1>1. UNCHANGED <<subscriptions, lastId, cleared, delivery>> /\ enabled' = enabled \cup {u}
  BY DEF Delivery!Enable
<1>2. Delivery!DeliveryTypeOK'
  BY <1>1 DEF Delivery!DeliveryInv, Delivery!DeliveryTypeOK
<1>3. Delivery!EndedIsSilent'
  BY <1>1 DEF Delivery!DeliveryInv, Delivery!EndedIsSilent
<1> QED BY <1>1, <1>2, <1>3 DEF Delivery!DeliveryInv

\* A worker reads the rows of an owner, who has some.
LEMMA CollectKeeps ==
    ASSUME Delivery!DeliveryAssumption, Delivery!DeliveryInv, NEW d \in Deliveries, Delivery!Collect(d)
    PROVE  Delivery!DeliveryInv'
<1>1. PICK u \in enabled :
        delivery' = [delivery EXCEPT ![d] = [at |-> "collected", owner |-> u, current |-> None,
               left |-> {[endpoint |-> e, id |-> subscriptions[e].id] : e \in Delivery!RowsOf(u)}]]
  BY DEF Delivery!Collect
<1>2. UNCHANGED <<subscriptions, lastId, enabled, cleared>>
  BY DEF Delivery!Collect
<1>3. PICK left : left = {[endpoint |-> e, id |-> subscriptions[e].id] : e \in Delivery!RowsOf(u)}
  OBVIOUS
<1>4. PICK w : w = [at |-> "collected", owner |-> u, current |-> None, left |-> left]
  OBVIOUS
<1>5. ASSUME NEW e \in Delivery!RowsOf(u)
      PROVE  /\ [endpoint |-> e, id |-> subscriptions[e].id] \in Delivery!Subscriptions
             /\ [endpoint |-> e, id |-> subscriptions[e].id].id <= lastId
  BY SubscriptionTypes DEF Delivery!RowsOf, Delivery!Subscriptions, Delivery!Rows
<1>6. left \subseteq Delivery!Subscriptions /\ \A sub \in left : sub.id <= lastId
  BY <1>3, <1>5
<1>7. u \in Subscribers /\ u # None
  BY SubscriptionTypes DEF Delivery!DeliveryAssumption
<1>8. w \in Workers /\ w.left = left /\ w.at = "collected" /\ w.owner = u
  BY <1>4, <1>6, <1>7 DEF Workers
<1>9. delivery' = [delivery EXCEPT ![d] = w]
  BY <1>1, <1>3, <1>4
<1> QED BY <1>2, <1>6, <1>7, <1>8, <1>9, WorkerMoves

\* A worker gets its lease.
LEMMA AttachKeeps ==
    ASSUME Delivery!DeliveryAssumption, Delivery!DeliveryInv, NEW d \in Deliveries, Delivery!Attach(d)
    PROVE  Delivery!DeliveryInv'
<1>1. PICK old : old = delivery[d]
  OBVIOUS
<1>2. old \in Workers /\ \A s \in old.left : s.id <= lastId
  BY <1>1, WorkerTypes
<1>3. PICK w : w = [old EXCEPT !.at = "deliver"]
  OBVIOUS
<1>4. w \in Workers /\ w.left = old.left /\ w.at = "deliver" /\ w.owner = old.owner
  BY <1>2, <1>3 DEF Workers
<1>5. /\ delivery' = [delivery EXCEPT ![d] = w] /\ delivery[d].at = "collected"
      /\ UNCHANGED <<subscriptions, lastId, enabled, cleared>>
  BY <1>1, <1>3 DEF Delivery!Attach
<1>6. w.owner # None
  BY <1>1, <1>4, <1>5 DEF Delivery!DeliveryInv
<1> QED BY <1>2, <1>4, <1>5, <1>6, WorkerMoves

\* A worker that leaves has nothing.
LEMMA LeaveKeeps ==
    ASSUME Delivery!DeliveryAssumption, Delivery!DeliveryInv, NEW d \in Deliveries, Delivery!Leave(d)
    PROVE  Delivery!DeliveryInv'
<1>1. PICK w : w = Delivery!Resting
  OBVIOUS
<1>2. w \in Workers /\ w.left = {} /\ w.at = "idle"
  BY <1>1 DEF Delivery!Resting, Workers
<1>3. delivery' = [delivery EXCEPT ![d] = w] /\ UNCHANGED <<subscriptions, lastId, enabled, cleared>>
  BY <1>1 DEF Delivery!Leave, Delivery!Ends
<1> QED BY <1>2, <1>3, WorkerMoves

\* A worker reads a row again, and asks the provider when it still stands.
LEMMA ReadKeeps ==
    ASSUME Delivery!DeliveryAssumption, Delivery!DeliveryInv, NEW d \in Deliveries, Delivery!Read(d)
    PROVE  Delivery!DeliveryInv'
<1>1. PICK sub \in delivery[d].left :
        delivery' = IF Delivery!Current(sub, delivery[d].owner)
                    THEN [delivery EXCEPT ![d].at = "sent", ![d].current = sub, ![d].left = @ \ {sub}]
                    ELSE [delivery EXCEPT ![d].left = @ \ {sub}]
  BY Zenon DEF Delivery!Read
<1>2. delivery[d].at = "deliver" /\ UNCHANGED <<subscriptions, lastId, enabled, cleared>>
  BY DEF Delivery!Read
<1>3. PICK old : old = delivery[d]
  OBVIOUS
<1>4. old \in Workers /\ sub \in old.left /\ old.owner # None /\ \A s \in old.left : s.id <= lastId
  BY <1>1, <1>2, <1>3, WorkerTypes DEF Delivery!DeliveryInv
<1>5. sub \in Delivery!Subscriptions /\ sub # None /\ sub.id <= lastId
  BY <1>4 DEF Delivery!DeliveryAssumption, Workers
<1>6. CASE Delivery!Current(sub, delivery[d].owner)
  <2>1. PICK w : w = [old EXCEPT !.at = "sent", !.current = sub, !.left = @ \ {sub}]
    OBVIOUS
  <2>2. /\ w \in Workers /\ w.left = old.left \ {sub} /\ w.at = "sent" /\ w.owner = old.owner /\ w.current = sub
    BY <1>4, <1>5, <2>1 DEF Workers
  <2>3. delivery' = [delivery EXCEPT ![d] = w]
    BY <1>1, <1>3, <1>6, <2>1
  <2>4. sub.endpoint \in Endpoints
    BY <1>5 DEF Delivery!Subscriptions
  <2>5. sub.id > cleared[old.owner]
    BY <1>3, <1>6, <2>4, SubscriptionTypes DEF Delivery!Current
  <2>6. \A s \in w.left : s.id <= lastId
    BY <1>4, <2>2
  <2> QED BY <1>2, <1>4, <1>5, <2>2, <2>3, <2>5, <2>6, WorkerMoves
<1>7. CASE ~Delivery!Current(sub, delivery[d].owner)
  <2>1. PICK w : w = [old EXCEPT !.left = @ \ {sub}]
    OBVIOUS
  <2>2. w \in Workers /\ w.left = old.left \ {sub} /\ w.at = "deliver" /\ w.owner = old.owner
    BY <1>2, <1>3, <1>4, <2>1 DEF Workers
  <2>3. delivery' = [delivery EXCEPT ![d] = w]
    BY <1>1, <1>3, <1>7, <2>1
  <2>4. \A s \in w.left : s.id <= lastId
    BY <1>4, <2>2
  <2> QED BY <1>2, <1>4, <2>2, <2>3, <2>4, WorkerMoves
<1> QED BY <1>6, <1>7

\* The answer of a provider ends the wait for it.
LEMMA ProceedsKeeps ==
    ASSUME Delivery!DeliveryAssumption, Delivery!DeliveryInv, NEW d \in Deliveries, Delivery!Sent(d)
    PROVE  Delivery!DeliveryInv'
<1>1. PICK old : old = delivery[d]
  OBVIOUS
<1>2. old \in Workers /\ \A s \in old.left : s.id <= lastId
  BY <1>1, WorkerTypes
<1>3. PICK w : w = [old EXCEPT !.at = "deliver", !.current = None]
  OBVIOUS
<1>4. w \in Workers /\ w.left = old.left /\ w.at = "deliver" /\ w.owner = old.owner
  BY <1>2, <1>3 DEF Workers
<1>5. /\ delivery' = [delivery EXCEPT ![d] = w] /\ delivery[d].at = "sent"
      /\ UNCHANGED <<subscriptions, lastId, enabled, cleared>>
  BY <1>1, <1>3 DEF Delivery!Sent, Delivery!Proceeds
<1>6. w.owner # None
  BY <1>1, <1>4, <1>5 DEF Delivery!DeliveryInv
<1> QED BY <1>2, <1>4, <1>5, <1>6, WorkerMoves

\* A row that a provider does not know goes while it is the row it was asked about.
LEMMA ExpiredKeeps ==
    ASSUME Delivery!DeliveryAssumption, Delivery!DeliveryInv, NEW d \in Deliveries, Delivery!Expired(d)
    PROVE  /\ Delivery!DeliveryInv'
           /\ \A e \in Endpoints : subscriptions[e] # None /\ subscriptions'[e] = None =>
                delivery[d].at = "sent" /\ delivery[d].current = [endpoint |-> e, id |-> subscriptions[e].id]
<1>1. PICK sub : sub = delivery[d].current
  OBVIOUS
<1>2. /\ delivery[d].at = "sent" /\ Delivery!Proceeds(d) /\ UNCHANGED <<lastId, enabled, cleared>>
      /\ subscriptions' = IF Delivery!Current(sub, delivery[d].owner) THEN [subscriptions EXCEPT ![sub.endpoint] = None]
                                                                      ELSE subscriptions
  BY <1>1 DEF Delivery!Expired, Delivery!Expires
<1>3. sub \in Delivery!Subscriptions
  BY <1>1, <1>2, WorkerTypes
<1>4. subscriptions \in [Endpoints -> Delivery!Rows \cup {None}] /\ sub.endpoint \in Endpoints
  BY <1>3, SubscriptionTypes DEF Delivery!Subscriptions
<1>5. /\ subscriptions' \in [Endpoints -> Delivery!Rows \cup {None}]
      /\ \A e \in Endpoints : subscriptions'[e] = subscriptions[e] \/ subscriptions'[e] = None
      /\ \A e \in Endpoints : subscriptions'[e] # subscriptions[e] => e = sub.endpoint /\ Delivery!Current(sub, delivery[d].owner)
  BY <1>2, <1>4
<1>6. ASSUME NEW e \in Endpoints, subscriptions[e] # None, subscriptions'[e] = None
      PROVE  sub = [endpoint |-> e, id |-> subscriptions[e].id]
  <2>1. e = sub.endpoint /\ subscriptions[e].id = sub.id
    BY <1>5, <1>6 DEF Delivery!Current
  <2> QED BY <1>3, <2>1 DEF Delivery!Subscriptions
<1>7. Delivery!DeliveryInv'
  <2>1. PICK old : old = delivery[d]
    OBVIOUS
  <2>2. old \in Workers /\ old.owner # None /\ \A s \in old.left : s.id <= lastId
    BY <1>2, <2>1, WorkerTypes DEF Delivery!DeliveryInv
  <2>3. PICK w : w = [old EXCEPT !.at = "deliver", !.current = None]
    OBVIOUS
  <2>4. w \in Workers /\ w.left = old.left /\ w.at = "deliver" /\ w.owner = old.owner
    BY <2>2, <2>3 DEF Workers
  <2>5. delivery' = [delivery EXCEPT ![d] = w]
    BY <1>2, <2>1, <2>3 DEF Delivery!Proceeds
  <2>6. delivery \in [Deliveries -> Workers]
    BY DEF Delivery!DeliveryInv, Delivery!DeliveryTypeOK, Workers
  <2>7. delivery' \in [Deliveries -> Workers] /\ \A x \in Deliveries : delivery'[x] = delivery[x] \/ delivery'[x] = w
    BY <2>4, <2>5, <2>6
  <2>8. Delivery!DeliveryTypeOK'
    BY <1>2, <1>5, <2>2, <2>4, <2>7 DEF Delivery!DeliveryInv, Delivery!DeliveryTypeOK, Workers
  <2>9. \A x \in Deliveries :
          /\ delivery'[x].at # "idle" => delivery'[x].owner # None
          /\ delivery'[x].at = "sent" => /\ delivery'[x].current # None /\ delivery'[x].current.id <= lastId'
                                         /\ delivery'[x].current.id > cleared'[delivery'[x].owner]
    BY <1>2, <2>2, <2>4, <2>7 DEF Delivery!DeliveryInv, Delivery!EndedIsSilent
  <2>10. \A e \in Endpoints : subscriptions'[e] # None => subscriptions'[e].id > cleared'[subscriptions'[e].user]
    BY <1>2, <1>5 DEF Delivery!DeliveryInv
  <2> QED BY <1>2, <2>8, <2>9, <2>10 DEF Delivery!DeliveryInv, Delivery!EndedIsSilent
<1> QED BY <1>1, <1>2, <1>6, <1>7

\* A row that goes is the one a provider was asked about, or the access of its
\* user has ended.
RenewedStep ==
    \A e \in Endpoints : subscriptions[e] # None /\ subscriptions'[e] = None =>
        \/ subscriptions[e].id <= cleared'[subscriptions[e].user]
        \/ \E d \in Deliveries : /\ delivery[d].at = "sent"
                                 /\ delivery[d].current = [endpoint |-> e, id |-> subscriptions[e].id]

\* Every step keeps the invariant, and takes a row away only as it should.
LEMMA DeliveryStep ==
    ASSUME Delivery!DeliveryAssumption, Delivery!DeliveryInv, [Delivery!DeliveryNext]_(Delivery!deliveryVars)
    PROVE  Delivery!DeliveryInv' /\ RenewedStep
<1>1. ASSUME NEW u \in Subscribers, Delivery!Disable(u) \/ Delivery!NewPassword(u)
      PROVE  Delivery!DeliveryInv' /\ RenewedStep
  <2>1. Delivery!EndAccess(u) /\ enabled' \subseteq Subscribers
    BY <1>1, SubscriptionTypes DEF Delivery!Disable, Delivery!NewPassword
  <2> QED BY <2>1, EndAccessKeeps DEF RenewedStep
<1>2. ASSUME NEW u \in Subscribers, NEW e \in Endpoints, Delivery!subscribePush(u, e)
      PROVE  Delivery!DeliveryInv' /\ RenewedStep
  BY <1>2, SubscribeKeeps DEF RenewedStep
<1>3. ASSUME NEW u \in Subscribers, Delivery!Enable(u)
      PROVE  Delivery!DeliveryInv' /\ subscriptions' = subscriptions
  BY <1>3, EnableDeliveryKeeps DEF Delivery!Enable
<1>4. ASSUME NEW d \in Deliveries,
             Delivery!Collect(d) \/ Delivery!Attach(d) \/ Delivery!Leave(d) \/ Delivery!Read(d) \/ Delivery!Sent(d)
      PROVE  Delivery!DeliveryInv' /\ subscriptions' = subscriptions
  <2>1. CASE Delivery!Collect(d)
    BY <2>1, CollectKeeps DEF Delivery!Collect
  <2>2. CASE Delivery!Attach(d)
    BY <2>2, AttachKeeps DEF Delivery!Attach
  <2>3. CASE Delivery!Leave(d)
    BY <2>3, LeaveKeeps DEF Delivery!Leave
  <2>4. CASE Delivery!Read(d)
    <3>1. subscriptions' = subscriptions
      BY <2>4, Zenon DEF Delivery!Read
    <3> QED BY <2>4, <3>1, ReadKeeps
  <2>5. CASE Delivery!Sent(d)
    BY <2>5, ProceedsKeeps DEF Delivery!Sent
  <2> QED BY <1>4, <2>1, <2>2, <2>3, <2>4, <2>5
<1>5. ASSUME NEW d \in Deliveries, Delivery!Expired(d)
      PROVE  Delivery!DeliveryInv' /\ RenewedStep
  BY <1>5, ExpiredKeeps DEF RenewedStep
<1>6. CASE UNCHANGED Delivery!deliveryVars
  BY <1>6 DEF Delivery!deliveryVars, Delivery!DeliveryInv, Delivery!DeliveryTypeOK, Delivery!EndedIsSilent, RenewedStep
<1>7. subscriptions' = subscriptions => RenewedStep
  BY DEF RenewedStep
<1> QED BY <1>1, <1>2, <1>3, <1>4, <1>5, <1>6, <1>7 DEF Delivery!DeliveryNext

\* Nobody has a subscription at first.
LEMMA DeliveryBegins ==
    ASSUME Delivery!DeliveryAssumption, Delivery!DeliveryInit PROVE Delivery!DeliveryInv
<1>1. PICK w : w = Delivery!Resting
  OBVIOUS
<1>2. w \in Workers /\ w.left = {} /\ w.at = "idle"
  BY <1>1 DEF Delivery!Resting, Workers
<1>3. delivery \in [Deliveries -> Workers] /\ \A d \in Deliveries : delivery[d] = w
  BY <1>1, <1>2 DEF Delivery!DeliveryInit
<1>4. /\ subscriptions = [e \in Endpoints |-> None] /\ lastId = 0 /\ enabled = Subscribers
      /\ cleared = [u \in Subscribers |-> 0]
  BY DEF Delivery!DeliveryInit
<1>5. Delivery!DeliveryTypeOK
  BY <1>2, <1>3, <1>4 DEF Delivery!DeliveryTypeOK, Workers, Delivery!DeliveryAssumption
<1> QED BY <1>2, <1>3, <1>4, <1>5 DEF Delivery!DeliveryInv, Delivery!EndedIsSilent

\* A row goes only while it is the one the provider was asked about or because
\* the access of its user has ended, and the provider is not asked about a row
\* that went that way (deliverPushHost, DeletePushSubscriptionIfCurrent,
\* endUserAccessTx).
THEOREM DeliveryInvariance ==
    ASSUME Delivery!DeliveryAssumption
    PROVE  Delivery!DeliverySpec => []Delivery!DeliveryInv /\ Delivery!RenewedStays
<1>1. Delivery!DeliveryInit => Delivery!DeliveryInv
  BY DeliveryBegins
<1>2. Delivery!DeliveryInv /\ [Delivery!DeliveryNext]_(Delivery!deliveryVars) => Delivery!DeliveryInv'
  BY DeliveryStep
<1>3. Delivery!DeliveryInv /\ [Delivery!DeliveryNext]_(Delivery!deliveryVars) => [RenewedStep]_(Delivery!deliveryVars)
  BY DeliveryStep
<1> QED BY <1>1, <1>2, <1>3, PTL DEF Delivery!DeliverySpec, Delivery!RenewedStays, RenewedStep

(***************************************************************************)
(* What the workbench keeps                                                *)
(***************************************************************************)

\* A step of the workbench is a step of each part, or leaves it alone.
LEMMA RecordsStep ==
    [RecordsNext]_<<part, allVars, registrationVars, accessVars, hostVars, pushVars, deliveryVars>> =>
        /\ [SystemNext]_allVars
        /\ [AccessNext]_accessVars
        /\ [Registration!RegistrationNext]_(Registration!registrationVars)
        /\ [Hosts!HostsNext]_(Hosts!hostVars)
        /\ [Push!PushNext]_(Push!pushVars)
        /\ [Delivery!DeliveryNext]_(Delivery!deliveryVars)
<1>1. UNCHANGED registrationVars => UNCHANGED (Registration!registrationVars)
  BY DEF registrationVars, Registration!registrationVars, Registration!rows
<1>2. UNCHANGED hostVars => UNCHANGED (Hosts!hostVars)
  BY DEF hostVars, Hosts!hostVars, Hosts!store
<1>3. UNCHANGED pushVars => UNCHANGED (Push!pushVars)
  BY DEF pushVars, Push!pushVars, Push!herdrVars, Push!pollVars
<1>4. UNCHANGED deliveryVars => UNCHANGED (Delivery!deliveryVars)
  BY DEF deliveryVars, Delivery!deliveryVars
<1> QED BY <1>1, <1>2, <1>3, <1>4 DEF RecordsNext

\* The specification of the workbench implies those of its parts, without the
\* fairness of a ticker.
LEMMA RecordsHaveParts ==
    RecordsSpec => /\ SystemSpec /\ AccessSpec /\ Registration!RegistrationSpec
                   /\ Hosts!HostsInit /\ [][Hosts!HostsNext]_(Hosts!hostVars)
                   /\ Push!PushSpec /\ Delivery!DeliverySpec
<1>1. RecordsInit => /\ Init /\ WebInit /\ AccessInit /\ Registration!RegistrationInit /\ Hosts!HostsInit
                     /\ Push!PushInit /\ Delivery!DeliveryInit
  BY DEF RecordsInit
<1> QED
  BY <1>1, RecordsStep, PTL DEF RecordsSpec, SystemSpec, AccessSpec, Registration!RegistrationSpec,
     Push!PushSpec, Delivery!DeliverySpec

\* The variables of every part of the workbench have their types, for every
\* value of the constants.
THEOREM RecordsTypeCorrect == RecordsSpec => []RecordsTypeOK
<1>1. /\ Registration!RegistrationAssumption /\ AccessAssumption
      /\ Hosts!HostsAssumption /\ Push!PushAssumption /\ Delivery!DeliveryAssumption
  BY PartsAssumption
<1>2. /\ WebTypeOK /\ AccessTypeOK /\ Registration!RegistrationInv /\ Hosts!HostsInv
      /\ Push!PushInv /\ Delivery!DeliveryInv
      => RecordsTypeOK
  BY DEF RecordsTypeOK, Registration!RegistrationInv, Hosts!HostsInv, Push!PushInv, Delivery!DeliveryInv
<1> QED
  BY <1>1, <1>2, RecordsHaveParts, WebTypeCorrect, AccessTypeCorrect, RegistrationInvariance,
     HostsBehave, PushInvariance, DeliveryInvariance, PTL

\* In every behaviour of the workbench an enrollment keeps track of whom the
\* agent serves, and access follows the accounts (FinalizeEnrollment, gate).
THEOREM RecordsKeepTrack == RecordsSpec => [](EnrollmentKeepsTrack /\ AccessFollowsAccounts)
<1>1. AccessAssumption
  BY PartsAssumption
<1> QED
  BY <1>1, RecordsHaveParts, KeepsTrack, AccessFollows, PTL

\* What a row names was there and fits it, whatever is deleted, edited or
\* refused between a handler's reads and its transaction (ReferencesEnd,
\* TrustedForAddress, AccountsAreAdmitted).
THEOREM RecordsAreWhole == RecordsSpec => []RowsAreWhole
<1>1. Registration!RegistrationAssumption /\ Hosts!HostsAssumption
  BY PartsAssumption
<1> QED
  BY <1>1, HostsBehave, RegistrationInvariance, RecordsHaveParts, PTL DEF RowsAreWhole

\* A round is told once and in time, a subscription that was renewed stays, and
\* what an account had subscribed before its access ended is told nothing
\* (collectPushHost, deliverPushHost, endUserAccessTx).
THEOREM RecordsNotifyOnce == RecordsSpec => NotificationsAreRight
<1>1. Push!PushAssumption /\ Delivery!DeliveryAssumption
  BY PartsAssumption
<1>2. Delivery!DeliveryInv' => [part = "delivery" => Delivery!EndedIsSilent']_deliveryVars
  BY DEF Delivery!DeliveryInv
<1> QED
  BY <1>1, <1>2, PushInvariance, DeliveryInvariance, RecordsHaveParts, PTL DEF NotificationsAreRight
=============================================================================
