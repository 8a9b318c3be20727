--------------------------- MODULE HostPoolProofs ---------------------------
(***************************************************************************)
(* Theorems about HostPool for every number of hosts, callers and flights. *)
(***************************************************************************)
EXTENDS HostPool, FiniteSetTheorems, TLAPS

\* The users of every flight are a finite set.
LEMMA UsersFinite ==
    ASSUME NEW t
    PROVE  /\ IsFiniteSet(Users(t)) /\ Cardinality(Users(t)) \in Nat
           /\ IsFiniteSet(Waiting(t)) /\ Cardinality(Waiting(t)) \in Nat
           /\ IsFiniteSet(Users(t)') /\ Cardinality(Users(t)') \in Nat
           /\ IsFiniteSet(Waiting(t)') /\ Cardinality(Waiting(t)') \in Nat
<1>1. IsFiniteSet(Callers)  BY HostPoolAssumption
<1>2. /\ Users(t) \in SUBSET Callers /\ Waiting(t) \in SUBSET Callers
      /\ Users(t)' \in SUBSET Callers /\ Waiting(t)' \in SUBSET Callers
  BY DEF Users, Waiting
<1>3. \A S \in SUBSET Callers : IsFiniteSet(S) /\ Cardinality(S) \in Nat
  BY <1>1, FS_Subset, FS_CardinalityType
<1> QED BY <1>2, <1>3

\* A caller that comes to a flight is one more user of it and of no other.
LEMMA UsersJoin ==
    ASSUME NEW c \in Callers, NEW t \in Flights,
           on \in [Callers -> Flights \cup {None}],
           on[c] = None, on' = [on EXCEPT ![c] = t]
    PROVE  /\ Cardinality(Users(t)') = Cardinality(Users(t)) + 1
           /\ \A x \in Flights \ {t} : Users(x)' = Users(x)
<1>1. Users(t)' = Users(t) \cup {c} /\ c \notin Users(t)
  BY HostPoolAssumption DEF Users
<1>2. \A x \in Flights \ {t} : Users(x)' = Users(x)
  BY HostPoolAssumption DEF Users
<1>3. Cardinality(Users(t)') = Cardinality(Users(t)) + 1
  BY <1>1, UsersFinite, FS_AddElement
<1> QED BY <1>2, <1>3

\* A caller that leaves a flight is one user fewer of it and of no other.
LEMMA UsersLeave ==
    ASSUME NEW c \in Callers, NEW t \in Flights,
           on \in [Callers -> Flights \cup {None}],
           on[c] = t, on' = [on EXCEPT ![c] = None]
    PROVE  /\ Cardinality(Users(t)') = Cardinality(Users(t)) - 1
           /\ Cardinality(Users(t)) \in Nat \ {0}
           /\ \A x \in Flights \ {t} : Users(x)' = Users(x)
<1>1. Users(t)' = Users(t) \ {c} /\ c \in Users(t)
  BY HostPoolAssumption DEF Users
<1>2. \A x \in Flights \ {t} : Users(x)' = Users(x)
  BY HostPoolAssumption DEF Users
<1>3. Cardinality(Users(t)') = Cardinality(Users(t)) - 1
  BY <1>1, UsersFinite, FS_RemoveElement
<1>4. Cardinality(Users(t)) # 0
  BY <1>1, UsersFinite, FS_EmptySet
<1> QED BY <1>2, <1>3, <1>4, UsersFinite

\* The same of the callers that wait on a flight.
LEMMA WaitingJoin ==
    ASSUME NEW c \in Callers, NEW t \in Flights,
           on \in [Callers -> Flights \cup {None}], pc \in [Callers -> CallerStates],
           on[c] = None, on' = [on EXCEPT ![c] = t], pc' = [pc EXCEPT ![c] = "waiting"]
    PROVE  /\ Cardinality(Waiting(t)') = Cardinality(Waiting(t)) + 1
           /\ \A x \in Flights \ {t} : Waiting(x)' = Waiting(x)
<1>1. Waiting(t)' = Waiting(t) \cup {c} /\ c \notin Waiting(t)
  BY HostPoolAssumption DEF Waiting
<1>2. \A x \in Flights \ {t} : Waiting(x)' = Waiting(x)
  BY HostPoolAssumption DEF Waiting
<1>3. Cardinality(Waiting(t)') = Cardinality(Waiting(t)) + 1
  BY <1>1, UsersFinite, FS_AddElement
<1> QED BY <1>2, <1>3

\* A caller that stops waiting is one observer fewer of its flight.
LEMMA WaitingLeave ==
    ASSUME NEW c \in Callers, NEW t \in Flights,
           pc \in [Callers -> CallerStates], pc[c] = "waiting", on[c] = t,
           \/ on' = on /\ pc' = [pc EXCEPT ![c] = "releasing"]
           \/ on' = [on EXCEPT ![c] = None] /\ pc' = [pc EXCEPT ![c] = "idle"],
           on \in [Callers -> Flights \cup {None}]
    PROVE  /\ Cardinality(Waiting(t)') = Cardinality(Waiting(t)) - 1
           /\ Cardinality(Waiting(t)) \in Nat \ {0}
           /\ \A x \in Flights \ {t} : Waiting(x)' = Waiting(x)
<1>1. Waiting(t)' = Waiting(t) \ {c} /\ c \in Waiting(t)
  BY HostPoolAssumption DEF Waiting
<1>2. \A x \in Flights \ {t} : Waiting(x)' = Waiting(x)
  BY HostPoolAssumption DEF Waiting
<1>3. Cardinality(Waiting(t)') = Cardinality(Waiting(t)) - 1
  BY <1>1, UsersFinite, FS_RemoveElement
<1>4. Cardinality(Waiting(t)) # 0
  BY <1>1, UsersFinite, FS_EmptySet
<1> QED BY <1>2, <1>3, <1>4, UsersFinite

\* An action that moves no caller and counts nothing keeps the counts exact.
LEMMA CountKept ==
    ASSUME CountInv, UNCHANGED <<refs, waiters, pc, on>>,
           \A t \in Flights : /\ outcome'[t] \in {outcome[t], "failed", "canceled"}
                              /\ retired[t] => retired'[t]
    PROVE  CountInv'
<1>1. \A t \in Flights : Users(t)' = Users(t) /\ Waiting(t)' = Waiting(t)
  BY DEF Users, Waiting
<1> QED BY <1>1 DEF CountInv, Live

LEMMA InitIInv == Init => IInv
<1> SUFFICES ASSUME Init PROVE IInv
  OBVIOUS
<1>1. \A t \in Flights : Users(t) = {} /\ Waiting(t) = {}
  BY HostPoolAssumption DEF Init, Users, Waiting
<1>2. CountInv
  BY <1>1, FS_EmptySet DEF Init, CountInv, Live
<1>3. TypeOK
  BY HostPoolAssumption DEF Init, TypeOK, FailureKinds, Outcomes, DialerStates, CallerStates
<1>4. CallerInv /\ PoolInv /\ DialInv /\ OwnerInv /\ IdleInv
  BY HostPoolAssumption DEF Init, CallerInv, PoolInv, DialInv, OwnerInv, IdleInv, Live, InHand
<1> QED BY <1>2, <1>3, <1>4 DEF IInv

LEMMA CloseHandleIInv ==
    ASSUME IInv, NEW c \in Callers, CloseHandle(c)
    PROVE  IInv'
<1> USE HostPoolAssumption DEF IInv
<1>1. PICK t \in Flights : on[c] = t /\ outcome[t] = "entry"
  BY DEF CallerInv, CloseHandle, TypeOK
<1>2. /\ Cardinality(Users(t)') = Cardinality(Users(t)) - 1
      /\ Cardinality(Users(t)) \in Nat \ {0}
      /\ \A x \in Flights \ {t} : Users(x)' = Users(x)
  BY <1>1, UsersLeave DEF CloseHandle, Leave, TypeOK
<1>3. refs[t] >= Cardinality(Users(t)) /\ refs[t] \in Nat
  BY <1>1 DEF CountInv, TypeOK
<1>4. TypeOK'
  <2>1. /\ refs' \in [Flights -> Nat]
        /\ pc' \in [Callers -> CallerStates]
        /\ want' \in [Callers -> Hosts \cup {None}]
        /\ on' \in [Callers -> Flights \cup {None}]
    <3>1. refs' = [refs EXCEPT ![t] = refs[t] - 1] /\ refs \in [Flights -> Nat]
      BY <1>1 DEF CloseHandle, TypeOK
    <3>2. refs[t] - 1 \in Nat
      BY <1>2, <1>3
    <3>3. refs' \in [Flights -> Nat]
      BY <3>1, <3>2
    <3>4. pc' \in [Callers -> CallerStates]
      BY <1>1 DEF TypeOK, CloseHandle, Leave, CallerStates
    <3>5. /\ want' \in [Callers -> Hosts \cup {None}]
          /\ on' \in [Callers -> Flights \cup {None}]
      BY <1>1 DEF TypeOK, CloseHandle, Leave
    <3> QED BY <3>3, <3>4, <3>5
  <2>2. IdleEntries \in SUBSET Flights
    BY DEF IdleEntries, Published
  <2>3. idle' \in [Flights -> BOOLEAN] /\ older' \in [Flights -> SUBSET Flights]
    <3>1. idle \in [Flights -> BOOLEAN] /\ older \in [Flights -> SUBSET Flights]
      BY DEF TypeOK
    <3>2. CASE retired[t] \/ refs[t] # 1
      BY <1>1, <3>1, <3>2 DEF CloseHandle
    <3>3. CASE ~(retired[t] \/ refs[t] # 1)
      <4>1. /\ idle' = [idle EXCEPT ![t] = TRUE]
            /\ older' = [x \in Flights |-> IF x = t THEN IdleEntries ELSE older[x] \ {t}]
        BY <1>1, <3>3 DEF CloseHandle
      <4> QED BY <2>2, <3>1, <4>1
    <3> QED BY <3>2, <3>3
  <2> QED BY <2>1, <2>3 DEF TypeOK, CloseHandle, poolVars, flightVars
<1>5. CallerInv'
  BY <1>1 DEF TypeOK, CallerInv, CloseHandle, Leave, flightVars, CallerStates
<1>6. PoolInv'
  BY DEF PoolInv, CloseHandle, Live, poolVars, flightVars
<1>7. DialInv'
  BY <1>1 DEF TypeOK, DialInv, CloseHandle, flightVars
<1>8. CountInv'
  <2>1. \A x \in Flights : Waiting(x)' = Waiting(x)
    BY DEF CloseHandle, Leave, Waiting, TypeOK
  <2> QED BY <1>1, <1>2, <1>3, <2>1 DEF TypeOK, CountInv, CloseHandle, Live, flightVars
<1>9. OwnerInv'
  BY DEF OwnerInv, CloseHandle, Live, InHand, poolVars, flightVars
<1>10. IdleInv'
  <2>1. CASE retired[t] \/ refs[t] # 1
    BY <1>1, <1>2, <1>3, <2>1 DEF TypeOK, IdleInv, CloseHandle, Live, poolVars, flightVars
  <2>2. CASE ~(retired[t] \/ refs[t] # 1)
    <3>1. idle' = [idle EXCEPT ![t] = TRUE] /\ refs' = [refs EXCEPT ![t] = refs[t] - 1]
      BY <1>1, <2>2 DEF CloseHandle
    <3> QED BY <1>1, <2>2, <3>1 DEF TypeOK, IdleInv, CloseHandle, Live, poolVars, flightVars
  <2> QED BY <2>1, <2>2
<1> QED BY <1>4, <1>5, <1>6, <1>7, <1>8, <1>9, <1>10

LEMMA ReuseIInv ==
    ASSUME IInv, NEW c \in Callers, NEW h \in Hosts, pc[c] \in {"idle", "checking"}, Reuse(c, h)
    PROVE  IInv'
<1> USE HostPoolAssumption DEF IInv
<1>1. TypeOK'
  BY DEF TypeOK, FailureKinds, Outcomes, DialerStates, CallerStates, Reuse, poolVars, flightVars, entryVars, callerVars
<1>2. CallerInv'
  BY DEF TypeOK, CallerInv, PoolInv, Live, Reuse, poolVars, flightVars, entryVars, callerVars
<1>3. PoolInv'
  BY DEF TypeOK, PoolInv, Live, Reuse, poolVars, flightVars, entryVars, callerVars
<1>4. DialInv'
  BY DEF TypeOK, DialInv, Reuse, poolVars, flightVars, entryVars, callerVars
<1>5. CountInv'
  <2>1. PICK t \in Flights : endpoints[h] = t /\ Live(t)
    BY DEF Reuse, TypeOK, PoolInv
  <2>2. /\ Cardinality(Users(t)') = Cardinality(Users(t)) + 1
        /\ \A x \in Flights \ {t} : Users(x)' = Users(x)
    <3>1. on[c] = None /\ on' = [on EXCEPT ![c] = t]
      BY <2>1 DEF Reuse, CallerInv
    <3> QED BY <3>1, UsersJoin DEF TypeOK
  <2>3. \A x \in Flights : Waiting(x)' = Waiting(x)
    BY DEF Reuse, Waiting, TypeOK
  <2> QED BY <2>1, <2>2, <2>3, UsersFinite DEF TypeOK, CountInv, Live, Reuse, flightVars
<1>6. OwnerInv'
  BY DEF TypeOK, OwnerInv, Live, InHand, Reuse, poolVars, flightVars, entryVars, callerVars
<1>7. IdleInv'
  BY DEF TypeOK, IdleInv, Live, Reuse, poolVars, flightVars, entryVars, callerVars
<1> QED BY <1>1, <1>2, <1>3, <1>4, <1>5, <1>6, <1>7

LEMMA JoinIInv ==
    ASSUME IInv, NEW c \in Callers, NEW h \in Hosts, pc[c] \in {"idle", "checking"}, Join(c, h)
    PROVE  IInv'
<1> USE HostPoolAssumption DEF IInv
<1>1. TypeOK'
  BY DEF TypeOK, FailureKinds, Outcomes, DialerStates, CallerStates, Join, Wait, poolVars, flightVars, entryVars, callerVars
<1>2. CallerInv'
  BY DEF TypeOK, CallerInv, PoolInv, Join, Wait, poolVars, flightVars, entryVars, callerVars
<1>3. PoolInv'
  BY DEF TypeOK, PoolInv, Live, Join, Wait, poolVars, flightVars, entryVars, callerVars
<1>4. DialInv'
  BY DEF TypeOK, DialInv, Join, Wait, poolVars, flightVars, entryVars, callerVars
<1>5. CountInv'
  <2>1. PICK t \in Flights : flights[h] = t /\ outcome[t] = "pending"
    BY DEF Join, TypeOK, PoolInv
  <2>2. /\ Cardinality(Users(t)') = Cardinality(Users(t)) + 1
        /\ \A x \in Flights \ {t} : Users(x)' = Users(x)
    BY <2>1, UsersJoin DEF Join, Wait, TypeOK, CallerInv
  <2>3. /\ Cardinality(Waiting(t)') = Cardinality(Waiting(t)) + 1
        /\ \A x \in Flights \ {t} : Waiting(x)' = Waiting(x)
    BY <2>1, WaitingJoin DEF Join, Wait, TypeOK, CallerInv
  <2>4. waiters' = [waiters EXCEPT ![t] = waiters[t] + 1]
    BY <2>1 DEF Join
  <2> QED BY <2>1, <2>2, <2>3, <2>4, UsersFinite DEF TypeOK, CountInv, Live, Join, entryVars
<1>6. OwnerInv'
  BY DEF TypeOK, OwnerInv, Live, InHand, Join, Wait, poolVars, flightVars, entryVars, callerVars
<1>7. IdleInv'
  BY DEF TypeOK, IdleInv, Live, Join, Wait, poolVars, flightVars, entryVars, callerVars
<1> QED BY <1>1, <1>2, <1>3, <1>4, <1>5, <1>6, <1>7

LEMMA OpenLocalIInv ==
    ASSUME IInv, NEW c \in Callers, NEW h \in Hosts, OpenLocal(c, h)
    PROVE  IInv'
<1> USE HostPoolAssumption DEF IInv
<1>1. TypeOK'
  BY DEF TypeOK, FailureKinds, Outcomes, DialerStates, CallerStates, OpenLocal, poolVars, flightVars, entryVars, callerVars
<1>2. CallerInv'
  BY DEF TypeOK, CallerInv, OpenLocal, poolVars, flightVars, entryVars, callerVars
<1>3. PoolInv'
  BY DEF TypeOK, PoolInv, Live, OpenLocal, poolVars, flightVars, entryVars, callerVars
<1>4. DialInv'
  BY DEF TypeOK, DialInv, OpenLocal, poolVars, flightVars, entryVars, callerVars
<1>5. CountInv'
  BY DEF TypeOK, CountInv, Live, Users, Waiting, OpenLocal, poolVars, flightVars, entryVars, callerVars
<1>6. OwnerInv'
  BY DEF TypeOK, OwnerInv, Live, InHand, OpenLocal, poolVars, flightVars, entryVars, callerVars
<1>7. IdleInv'
  BY DEF TypeOK, IdleInv, Live, OpenLocal, poolVars, flightVars, entryVars, callerVars
<1> QED BY <1>1, <1>2, <1>3, <1>4, <1>5, <1>6, <1>7

LEMMA LocalRefusedIInv ==
    ASSUME IInv, NEW c \in Callers, LocalRefused(c)
    PROVE  IInv'
<1> USE HostPoolAssumption DEF IInv
<1>1. TypeOK'
  BY DEF TypeOK, FailureKinds, Outcomes, DialerStates, CallerStates, LocalRefused, Leave, poolVars, flightVars, entryVars, callerVars
<1>2. CallerInv'
  BY DEF TypeOK, CallerInv, LocalRefused, Leave, poolVars, flightVars, entryVars, callerVars
<1>3. PoolInv'
  BY DEF TypeOK, PoolInv, Live, LocalRefused, Leave, poolVars, flightVars, entryVars, callerVars
<1>4. DialInv'
  BY DEF TypeOK, DialInv, LocalRefused, Leave, poolVars, flightVars, entryVars, callerVars
<1>5. CountInv'
  <2>1. on' = on
    BY DEF LocalRefused, Leave, TypeOK, CallerInv
  <2>2. \A x \in Flights : Users(x)' = Users(x) /\ Waiting(x)' = Waiting(x)
    BY <2>1 DEF Users, Waiting, LocalRefused, Leave, TypeOK
  <2> QED BY <2>2 DEF CountInv, Live, LocalRefused, flightVars, entryVars
<1>6. OwnerInv'
  BY DEF TypeOK, OwnerInv, Live, InHand, LocalRefused, Leave, poolVars, flightVars, entryVars, callerVars
<1>7. IdleInv'
  BY DEF TypeOK, IdleInv, Live, LocalRefused, Leave, poolVars, flightVars, entryVars, callerVars
<1> QED BY <1>1, <1>2, <1>3, <1>4, <1>5, <1>6, <1>7

LEMMA AwaitIInv ==
    ASSUME IInv, NEW c \in Callers, Await(c)
    PROVE  IInv'
<1> USE HostPoolAssumption DEF IInv
<1>1. TypeOK'
  BY DEF TypeOK, FailureKinds, Outcomes, DialerStates, CallerStates, Await, Leave, poolVars, flightVars, entryVars, callerVars
<1>2. CallerInv'
  BY DEF TypeOK, CallerInv, Await, Leave, poolVars, flightVars, entryVars, callerVars
<1>3. PoolInv'
  BY DEF TypeOK, PoolInv, Live, Await, Leave, poolVars, flightVars, entryVars, callerVars
<1>4. DialInv'
  BY DEF TypeOK, DialInv, Await, Leave, poolVars, flightVars, entryVars, callerVars
<1>5. CountInv'
  <2>1. PICK t \in Flights : on[c] = t /\ outcome[t] # "pending"
    BY DEF Await, TypeOK, CallerInv
  <2>2. \A x \in Flights : Cardinality(Waiting(x)') <= Cardinality(Waiting(x))
    <3>1. \A x \in Flights : Waiting(x)' \in SUBSET Waiting(x)
      BY DEF Await, Leave, Waiting, TypeOK
    <3> QED BY <3>1, UsersFinite, FS_Subset
  <2>3. CASE Live(t)
    <3>1. \A x \in Flights : Users(x)' = Users(x)
      BY <2>1, <2>3 DEF Await, Users, Live
    <3> QED BY <2>2, <3>1, UsersFinite DEF TypeOK, CountInv, Live, Await, flightVars, entryVars
  <2>4. CASE ~Live(t)
    <3>1. /\ Cardinality(Users(t)') = Cardinality(Users(t)) - 1
          /\ \A x \in Flights \ {t} : Users(x)' = Users(x)
      BY <2>1, <2>4, UsersLeave DEF Await, Leave, Live, TypeOK
    <3> QED BY <2>1, <2>2, <2>4, <3>1, UsersFinite
            DEF TypeOK, CountInv, Live, Await, flightVars, entryVars
  <2> QED BY <2>3, <2>4
<1>6. OwnerInv'
  BY DEF TypeOK, OwnerInv, Live, InHand, Await, Leave, poolVars, flightVars, entryVars, callerVars
<1>7. IdleInv'
  BY DEF TypeOK, IdleInv, Live, Await, Leave, poolVars, flightVars, entryVars, callerVars
<1> QED BY <1>1, <1>2, <1>3, <1>4, <1>5, <1>6, <1>7

LEMMA CloseVictimIInv ==
    ASSUME IInv, NEW t \in Flights, CloseVictim(t)
    PROVE  IInv'
<1> USE HostPoolAssumption DEF IInv
<1>1. TypeOK'
  BY DEF TypeOK, FailureKinds, Outcomes, DialerStates, CallerStates, CloseVictim, poolVars, flightVars, entryVars, callerVars
<1>2. CallerInv'
  BY DEF TypeOK, CallerInv, CloseVictim, poolVars, flightVars, entryVars, callerVars
<1>3. PoolInv'
  BY DEF TypeOK, PoolInv, Live, CloseVictim, poolVars, flightVars, entryVars, callerVars
<1>4. DialInv'
  BY DEF TypeOK, DialInv, CloseVictim, poolVars, flightVars, entryVars, callerVars
<1>5. CountInv'
  BY CountKept DEF TypeOK, CloseVictim, poolVars, flightVars, entryVars, callerVars
<1>6. OwnerInv'
  BY DEF TypeOK, DialInv, OwnerInv, Live, InHand, CloseVictim, poolVars, flightVars, entryVars, callerVars
<1>7. IdleInv'
  BY DEF TypeOK, IdleInv, Live, CloseVictim, poolVars, flightVars, entryVars, callerVars
<1> QED BY <1>1, <1>2, <1>3, <1>4, <1>5, <1>6, <1>7

LEMMA TakeSlotIInv ==
    ASSUME IInv, NEW t \in Flights, TakeSlot(t)
    PROVE  IInv'
<1> USE HostPoolAssumption DEF IInv
<1>1. TypeOK'
  BY DEF TypeOK, FailureKinds, Outcomes, DialerStates, CallerStates, TakeSlot, poolVars, flightVars, entryVars, callerVars
<1>2. CallerInv'
  BY DEF TypeOK, CallerInv, TakeSlot, poolVars, flightVars, entryVars, callerVars
<1>3. PoolInv'
  BY DEF TypeOK, PoolInv, Live, TakeSlot, poolVars, flightVars, entryVars, callerVars
<1>4. DialInv'
  BY DEF TypeOK, DialInv, TakeSlot, poolVars, flightVars, entryVars, callerVars
<1>5. CountInv'
  BY CountKept DEF TypeOK, TakeSlot, poolVars, flightVars, entryVars, callerVars
<1>6. OwnerInv'
  BY DEF TypeOK, OwnerInv, Live, InHand, TakeSlot, poolVars, flightVars, entryVars, callerVars
<1>7. IdleInv'
  BY DEF TypeOK, IdleInv, Live, TakeSlot, poolVars, flightVars, entryVars, callerVars
<1> QED BY <1>1, <1>2, <1>3, <1>4, <1>5, <1>6, <1>7

LEMMA LeaveQueueIInv ==
    ASSUME IInv, NEW t \in Flights, LeaveQueue(t)
    PROVE  IInv'
<1> USE HostPoolAssumption DEF IInv
<1>1. TypeOK'
  BY DEF TypeOK, FailureKinds, Outcomes, DialerStates, CallerStates, LeaveQueue, poolVars, flightVars, entryVars, callerVars
<1>2. CallerInv'
  BY DEF TypeOK, CallerInv, LeaveQueue, poolVars, flightVars, entryVars, callerVars
<1>3. PoolInv'
  BY DEF TypeOK, PoolInv, Live, LeaveQueue, poolVars, flightVars, entryVars, callerVars
<1>4. DialInv'
  BY DEF TypeOK, DialInv, LeaveQueue, poolVars, flightVars, entryVars, callerVars
<1>5. CountInv'
  BY CountKept DEF TypeOK, LeaveQueue, poolVars, flightVars, entryVars, callerVars
<1>6. OwnerInv'
  BY DEF TypeOK, OwnerInv, Live, InHand, LeaveQueue, poolVars, flightVars, entryVars, callerVars
<1>7. IdleInv'
  BY DEF TypeOK, IdleInv, Live, LeaveQueue, poolVars, flightVars, entryVars, callerVars
<1> QED BY <1>1, <1>2, <1>3, <1>4, <1>5, <1>6, <1>7

LEMMA DialReturnIInv ==
    ASSUME IInv, NEW t \in Flights, DialReturn(t)
    PROVE  IInv'
<1> USE HostPoolAssumption DEF IInv
<1>1. TypeOK'
  BY DEF TypeOK, FailureKinds, Outcomes, DialerStates, CallerStates, DialReturn, poolVars, flightVars, entryVars, callerVars
<1>2. CallerInv'
  BY DEF TypeOK, CallerInv, DialReturn, poolVars, flightVars, entryVars, callerVars
<1>3. PoolInv'
  BY DEF TypeOK, PoolInv, Live, DialReturn, poolVars, flightVars, entryVars, callerVars
<1>4. DialInv'
  BY DEF TypeOK, DialInv, DialReturn, poolVars, flightVars, entryVars, callerVars
<1>5. CountInv'
  BY CountKept DEF TypeOK, DialReturn, poolVars, flightVars, entryVars, callerVars
<1>6. OwnerInv'
  BY DEF TypeOK, OwnerInv, Live, InHand, DialReturn, poolVars, flightVars, entryVars, callerVars
<1>7. IdleInv'
  BY DEF TypeOK, IdleInv, Live, DialReturn, poolVars, flightVars, entryVars, callerVars
<1> QED BY <1>1, <1>2, <1>3, <1>4, <1>5, <1>6, <1>7

LEMMA DiscardDialIInv ==
    ASSUME IInv, NEW t \in Flights, DiscardDial(t)
    PROVE  IInv'
<1> USE HostPoolAssumption DEF IInv
<1>1. TypeOK'
  BY DEF TypeOK, FailureKinds, Outcomes, DialerStates, CallerStates, DiscardDial, AfterDial, poolVars, flightVars, entryVars, callerVars
<1>2. CallerInv'
  BY DEF TypeOK, CallerInv, DiscardDial, AfterDial, poolVars, flightVars, entryVars, callerVars
<1>3. PoolInv'
  BY DEF TypeOK, PoolInv, Live, DiscardDial, AfterDial, poolVars, flightVars, entryVars, callerVars
<1>4. DialInv'
  BY DEF TypeOK, DialInv, DiscardDial, AfterDial, poolVars, flightVars, entryVars, callerVars
<1>5. CountInv'
  BY CountKept DEF TypeOK, DiscardDial, poolVars, flightVars, entryVars, callerVars
<1>6. OwnerInv'
  BY DEF TypeOK, OwnerInv, Live, InHand, DiscardDial, AfterDial, poolVars, flightVars, entryVars, callerVars
<1>7. IdleInv'
  BY DEF TypeOK, IdleInv, Live, DiscardDial, AfterDial, poolVars, flightVars, entryVars, callerVars
<1> QED BY <1>1, <1>2, <1>3, <1>4, <1>5, <1>6, <1>7

LEMMA FailDialIInv ==
    ASSUME IInv, NEW t \in Flights, FailDial(t)
    PROVE  IInv'
<1> USE HostPoolAssumption DEF IInv
<1>1. TypeOK'
  <2>1. failures' \in [Hosts -> FailureKinds]
    BY DEF FailDial, RecordFailure, TypeOK, FailureKinds
  <2>2. /\ outcome' \in [Flights -> Outcomes] /\ dialer' \in [Flights -> DialerStates]
        /\ flights' \in [Hosts -> Flights \cup {None}]
    BY DEF FailDial, AfterDial, TypeOK, Outcomes, DialerStates
  <2> QED BY <2>1, <2>2 DEF TypeOK, FailDial, entryVars, callerVars
<1>2. CallerInv'
  BY DEF TypeOK, CallerInv, FailDial, AfterDial, poolVars, flightVars, entryVars, callerVars
<1>3. PoolInv'
  BY DEF TypeOK, PoolInv, Live, FailDial, AfterDial, poolVars, flightVars, entryVars, callerVars
<1>4. DialInv'
  BY DEF TypeOK, DialInv, FailDial, AfterDial, poolVars, flightVars, entryVars, callerVars
<1>5. CountInv'
  BY CountKept DEF TypeOK, FailDial, poolVars, flightVars, entryVars, callerVars
<1>6. OwnerInv'
  BY DEF TypeOK, OwnerInv, Live, InHand, FailDial, AfterDial, poolVars, flightVars, entryVars, callerVars
<1>7. IdleInv'
  BY DEF TypeOK, IdleInv, Live, FailDial, AfterDial, poolVars, flightVars, entryVars, callerVars
<1> QED BY <1>1, <1>2, <1>3, <1>4, <1>5, <1>6, <1>7

LEMMA PublishIInv ==
    ASSUME IInv, NEW t \in Flights, Publish(t)
    PROVE  IInv'
<1> USE HostPoolAssumption DEF IInv
<1>1. TypeOK'
  BY DEF TypeOK, FailureKinds, Outcomes, DialerStates, CallerStates, Publish, poolVars, flightVars, entryVars, callerVars
<1>2. CallerInv'
  BY DEF TypeOK, CallerInv, Publish, poolVars, flightVars, entryVars, callerVars
<1>3. PoolInv'
  BY DEF TypeOK, DialInv, PoolInv, Live, Publish, poolVars, flightVars, entryVars, callerVars
<1>4. DialInv'
  BY DEF TypeOK, DialInv, Publish, poolVars, flightVars, entryVars, callerVars
<1>5. CountInv'
  <2>1. \A x \in Flights : Users(x)' = Users(x) /\ Waiting(x)' = Waiting(x)
    BY DEF Publish, Users, Waiting, callerVars
  <2> QED BY <2>1, UsersFinite DEF TypeOK, CountInv, Live, Publish
<1>6. OwnerInv'
  BY DEF TypeOK, DialInv, OwnerInv, Live, InHand, Publish, poolVars, flightVars, entryVars, callerVars
<1>7. IdleInv'
  BY DEF TypeOK, IdleInv, CountInv, DialInv, Live, Publish
<1> QED BY <1>1, <1>2, <1>3, <1>4, <1>5, <1>6, <1>7

LEMMA CloseDiscardedIInv ==
    ASSUME IInv, NEW t \in Flights, CloseDiscarded(t)
    PROVE  IInv'
<1> USE HostPoolAssumption DEF IInv
<1>1. TypeOK'
  BY DEF TypeOK, FailureKinds, Outcomes, DialerStates, CallerStates, CloseDiscarded, poolVars, flightVars, entryVars, callerVars
<1>2. CallerInv'
  BY DEF TypeOK, CallerInv, CloseDiscarded, poolVars, flightVars, entryVars, callerVars
<1>3. PoolInv'
  BY DEF TypeOK, PoolInv, Live, CloseDiscarded, poolVars, flightVars, entryVars, callerVars
<1>4. DialInv'
  BY DEF TypeOK, DialInv, CloseDiscarded, poolVars, flightVars, entryVars, callerVars
<1>5. CountInv'
  BY CountKept DEF TypeOK, CloseDiscarded, poolVars, flightVars, entryVars, callerVars
<1>6. OwnerInv'
  BY DEF TypeOK, DialInv, OwnerInv, Live, InHand, CloseDiscarded, poolVars, flightVars, entryVars, callerVars
<1>7. IdleInv'
  BY DEF TypeOK, IdleInv, Live, CloseDiscarded, poolVars, flightVars, entryVars, callerVars
<1> QED BY <1>1, <1>2, <1>3, <1>4, <1>5, <1>6, <1>7

LEMMA BackoffEndsIInv ==
    ASSUME IInv, NEW h \in Hosts, BackoffEnds(h)
    PROVE  IInv'
<1> USE HostPoolAssumption DEF IInv
<1>1. TypeOK'
  BY DEF TypeOK, FailureKinds, Outcomes, DialerStates, CallerStates, BackoffEnds, poolVars, flightVars, entryVars, callerVars
<1>2. CallerInv'
  BY DEF TypeOK, CallerInv, BackoffEnds, poolVars, flightVars, entryVars, callerVars
<1>3. PoolInv'
  BY DEF TypeOK, PoolInv, Live, BackoffEnds, poolVars, flightVars, entryVars, callerVars
<1>4. DialInv'
  BY DEF TypeOK, DialInv, BackoffEnds, poolVars, flightVars, entryVars, callerVars
<1>5. CountInv'
  BY CountKept DEF TypeOK, BackoffEnds, poolVars, flightVars, entryVars, callerVars
<1>6. OwnerInv'
  BY DEF TypeOK, OwnerInv, Live, InHand, BackoffEnds, poolVars, flightVars, entryVars, callerVars
<1>7. IdleInv'
  BY DEF TypeOK, IdleInv, Live, BackoffEnds, poolVars, flightVars, entryVars, callerVars
<1> QED BY <1>1, <1>2, <1>3, <1>4, <1>5, <1>6, <1>7

LEMMA IdleTimerIInv ==
    ASSUME IInv, NEW t \in Flights, IdleTimer(t)
    PROVE  IInv'
<1> USE HostPoolAssumption DEF IInv
<1>1. TypeOK'
  BY DEF TypeOK, FailureKinds, Outcomes, DialerStates, CallerStates, IdleTimer, poolVars, flightVars, entryVars, callerVars
<1>2. CallerInv'
  BY DEF TypeOK, CallerInv, IdleTimer, poolVars, flightVars, entryVars, callerVars
<1>3. PoolInv'
  BY DEF TypeOK, PoolInv, Live, IdleTimer, poolVars, flightVars, entryVars, callerVars
<1>4. DialInv'
  BY DEF TypeOK, DialInv, IdleTimer, poolVars, flightVars, entryVars, callerVars
<1>5. CountInv'
  BY CountKept DEF TypeOK, IdleTimer, poolVars, flightVars, entryVars, callerVars
<1>6. OwnerInv'
  BY DEF TypeOK, OwnerInv, Live, InHand, IdleTimer, poolVars, flightVars, entryVars, callerVars
<1>7. IdleInv'
  BY DEF TypeOK, IdleInv, Live, IdleTimer, poolVars, flightVars, entryVars, callerVars
<1> QED BY <1>1, <1>2, <1>3, <1>4, <1>5, <1>6, <1>7

LEMMA CloseEndpointIInv ==
    ASSUME IInv, NEW t \in Flights, CloseEndpoint(t)
    PROVE  IInv'
<1> USE HostPoolAssumption DEF IInv
<1>1. TypeOK'
  BY DEF TypeOK, FailureKinds, Outcomes, DialerStates, CallerStates, CloseEndpoint, poolVars, flightVars, entryVars, callerVars
<1>2. CallerInv'
  BY DEF TypeOK, CallerInv, CloseEndpoint, poolVars, flightVars, entryVars, callerVars
<1>3. PoolInv'
  BY DEF TypeOK, PoolInv, Live, CloseEndpoint, poolVars, flightVars, entryVars, callerVars
<1>4. DialInv'
  BY DEF TypeOK, DialInv, CloseEndpoint, poolVars, flightVars, entryVars, callerVars
<1>5. CountInv'
  BY CountKept DEF TypeOK, CloseEndpoint, poolVars, flightVars, entryVars, callerVars
<1>6. OwnerInv'
  BY DEF TypeOK, DialInv, OwnerInv, Live, InHand, CloseEndpoint, poolVars, flightVars, entryVars, callerVars
<1>7. IdleInv'
  BY DEF TypeOK, IdleInv, Live, CloseEndpoint, poolVars, flightVars, entryVars, callerVars
<1> QED BY <1>1, <1>2, <1>3, <1>4, <1>5, <1>6, <1>7

\* What every step that retires live entries and cancels flights keeps.
LEMMA DropIInv ==
    ASSUME IInv, NEW hs \in SUBSET Hosts, NEW ts \in SUBSET Flights,
           \A t \in ts : Live(t),
           CancelFlights(hs), Retire(ts),
           endpoints' = [h \in Hosts |-> IF endpoints[h] \in ts THEN None ELSE endpoints[h]],
           closed' \in BOOLEAN, closed' => closed \/ (hs = Hosts /\ ts = Published),
           failures' \in [Hosts -> FailureKinds],
           callbacks' \in [Flights -> Nat],
           \A t \in Flights : \/ callbacks'[t] = callbacks[t]
                              \/ callbacks[t] > 0 /\ (t \in ts \/ ~Live(t) \/ refs[t] # 0),
           UNCHANGED <<host, waiters, dialer, victim, endpoint, refs, pc, want, on>>
    PROVE  IInv'
<1> USE HostPoolAssumption DEF IInv
<1>1. \A t \in Flights : /\ outcome[t] = "pending" => outcome'[t] \in {"pending", "canceled"}
                         /\ outcome[t] # "pending" => outcome'[t] = outcome[t]
  BY DEF CancelFlights, TypeOK, PoolInv
<1>2. \A t \in Flights : Live(t)' <=> Live(t) /\ t \notin ts
  BY <1>1 DEF Live, Retire
<1>3. TypeOK'
  <2>1. /\ outcome' \in [Flights -> Outcomes]
        /\ flights' \in [Hosts -> Flights \cup {None}]
    BY DEF TypeOK, CancelFlights, Outcomes
  <2>2. /\ retired' \in [Flights -> BOOLEAN] /\ idle' \in [Flights -> BOOLEAN]
        /\ older' \in [Flights -> SUBSET Flights] /\ closers' \in [Flights -> Nat]
    BY DEF TypeOK, Retire
  <2>3. endpoints' \in [Hosts -> Flights \cup {None}] /\ closed' \in BOOLEAN
    BY DEF TypeOK
  <2> QED BY <2>1, <2>2, <2>3 DEF TypeOK
<1>4. CallerInv'
  BY <1>1 DEF TypeOK, CallerInv
<1>5. PoolInv'
  <2>1. \A t \in Flights : outcome'[t] # "none" => host'[t] \in Hosts
    BY <1>1 DEF PoolInv
  <2>2. \A t \in Flights, h \in Hosts : endpoints'[h] = t <=> Live(t)' /\ host'[t] = h
    BY <1>2 DEF PoolInv
  <2>3. \A t \in Flights, h \in Hosts :
            flights'[h] = t <=> outcome'[t] = "pending" /\ host'[t] = h
    BY DEF PoolInv, CancelFlights
  <2>4. \A h \in Hosts : endpoints'[h] = None \/ flights'[h] = None
    BY DEF PoolInv, CancelFlights
  <2>5. closed' => \A h \in Hosts : endpoints'[h] = None /\ flights'[h] = None
    BY DEF PoolInv, CancelFlights, Published, TypeOK
  <2> QED BY <2>1, <2>2, <2>3, <2>4, <2>5 DEF PoolInv
<1>6. DialInv'
  BY <1>1 DEF TypeOK, DialInv, Retire, Live
<1>7. CountInv'
  BY <1>1, CountKept DEF Retire
<1>8. OwnerInv'
  BY <1>1, <1>2 DEF TypeOK, OwnerInv, DialInv, Retire, InHand, Live
<1>9. IdleInv'
  BY <1>2 DEF TypeOK, IdleInv, Retire
<1> QED BY <1>3, <1>4, <1>5, <1>6, <1>7, <1>8, <1>9

LEMMA InvalidateIInv ==
    ASSUME IInv, NEW c \in Callers, Invalidate(c)
    PROVE  IInv'
<1>1. PICK t \in Flights : on[c] = t /\ Live(t)
  BY DEF IInv, CallerInv, Invalidate, TypeOK, Live
<1>2. CancelFlights({})
  BY DEF CancelFlights, Invalidate, IInv, TypeOK, flightVars
<1>3. endpoints' = [h \in Hosts |-> IF endpoints[h] \in {t} THEN None ELSE endpoints[h]]
  <2>1. \A h \in Hosts : endpoints[h] = t <=> host[t] = h
    BY <1>1 DEF IInv, PoolInv
  <2>2. endpoints' = [endpoints EXCEPT ![host[t]] = IF @ = t THEN None ELSE @]
    BY <1>1 DEF Invalidate
  <2> QED BY <2>1, <2>2 DEF IInv, TypeOK
<1> QED BY <1>1, <1>2, <1>3, DropIInv DEF Invalidate, IInv, TypeOK, flightVars, callerVars

LEMMA IdleCallbackIInv ==
    ASSUME IInv, NEW t \in Flights, IdleCallback(t)
    PROVE  IInv'
<1>1. CancelFlights({})
  BY DEF CancelFlights, IdleCallback, IInv, TypeOK, flightVars
<1>4. /\ callbacks' \in [Flights -> Nat] /\ callbacks[t] > 0
      /\ \A x \in Flights \ {t} : callbacks'[x] = callbacks[x]
  BY DEF IdleCallback, IInv, TypeOK
<1>5. /\ closed' \in BOOLEAN /\ (closed' => closed)
      /\ failures' \in [Hosts -> FailureKinds]
      /\ UNCHANGED <<host, waiters, dialer, victim, endpoint, refs, pc, want, on>>
  BY DEF IdleCallback, IInv, TypeOK, flightVars, callerVars
<1>2. CASE StillIdle(t)
  <2>1. Live(t)
    BY <1>2, HostPoolAssumption DEF StillIdle, Live, IInv, PoolInv, DialInv, IdleCallback, TypeOK
  <2>2. endpoints' = [h \in Hosts |-> IF endpoints[h] \in {t} THEN None ELSE endpoints[h]]
    <3>1. \A h \in Hosts : endpoints[h] = t <=> host[t] = h
      BY <2>1 DEF IInv, PoolInv
    <3>2. endpoints' = [endpoints EXCEPT ![host[t]] = None]
      BY <1>2 DEF IdleCallback
    <3> QED BY <3>1, <3>2 DEF IInv, TypeOK
  <2>3. Retire({t})
    BY <1>2 DEF IdleCallback
  <2> QED BY <1>1, <1>4, <1>5, <2>1, <2>2, <2>3, DropIInv
<1>3. CASE ~StillIdle(t)
  <2>1. ~Live(t) \/ refs[t] # 0
    BY <1>3 DEF StillIdle, Live, IInv, PoolInv
  <2>2. Retire({})
    BY <1>3 DEF Retire, IdleCallback, IInv, TypeOK
  <2>3. endpoints' = [h \in Hosts |-> IF endpoints[h] \in {} THEN None ELSE endpoints[h]]
    BY <1>3 DEF IdleCallback, IInv, TypeOK
  <2> QED BY <1>1, <1>4, <1>5, <2>1, <2>2, <2>3, DropIInv
<1> QED BY <1>2, <1>3

LEMMA CloseHostIInv ==
    ASSUME IInv, NEW h \in Hosts, CloseHost(h)
    PROVE  IInv'
<1> DEFINE ts == {endpoints[h]} \ {None}
<1>1. ts \in SUBSET Flights /\ \A t \in ts : Live(t)
  BY DEF IInv, PoolInv, TypeOK
<1>2. endpoints' = [x \in Hosts |-> IF endpoints[x] \in ts THEN None ELSE endpoints[x]]
  <2>1. \A x \in Hosts : endpoints[x] \in ts <=> x = h /\ endpoints[h] # None
    BY DEF IInv, PoolInv, TypeOK
  <2>2. endpoints' = [endpoints EXCEPT ![h] = None]
    BY DEF CloseHost
  <2> QED BY <2>1, <2>2 DEF IInv, TypeOK
<1>3. failures' \in [Hosts -> FailureKinds]
  BY DEF CloseHost, IInv, TypeOK, FailureKinds
<1> QED BY <1>1, <1>2, <1>3, DropIInv DEF CloseHost, IInv, TypeOK, callerVars

LEMMA CloseIInv ==
    ASSUME IInv, Close
    PROVE  IInv'
<1>1. Published \in SUBSET Flights /\ \A t \in Published : Live(t)
  BY DEF IInv, PoolInv, TypeOK, Published
<1>2. endpoints' = [x \in Hosts |-> IF endpoints[x] \in Published THEN None ELSE endpoints[x]]
  BY DEF Close, IInv, TypeOK, Published
<1>3. failures' \in [Hosts -> FailureKinds]
  BY DEF Close, FailureKinds
<1> QED BY <1>1, <1>2, <1>3, DropIInv DEF Close, IInv, TypeOK, callerVars

LEMMA AbandonWaitIInv ==
    ASSUME IInv, NEW c \in Callers, AbandonWait(c)
    PROVE  IInv'
<1> USE HostPoolAssumption DEF IInv
<1>1. PICK t \in Flights : on[c] = t /\ outcome[t] # "none"
  BY DEF AbandonWait, TypeOK, CallerInv
<1>2. /\ Cardinality(Waiting(t)') = Cardinality(Waiting(t)) - 1
      /\ Cardinality(Waiting(t)) \in Nat \ {0}
      /\ \A x \in Flights \ {t} : Waiting(x)' = Waiting(x)
  BY <1>1, WaitingLeave DEF AbandonWait, Leave, TypeOK
<1>3. waiters' = [waiters EXCEPT ![t] = waiters[t] - 1] /\ waiters[t] - 1 \in Nat
  BY <1>1, <1>2 DEF AbandonWait, CountInv, TypeOK
<1>4. CASE outcome[t] = "entry"
  <2>1. /\ pc' = [pc EXCEPT ![c] = "releasing"]
        /\ UNCHANGED <<want, on, flights, outcome, poolVars, host, dialer, victim, entryVars>>
    BY <1>1, <1>4 DEF AbandonWait, poolVars
  <2>2. TypeOK'
    BY <1>3, <2>1 DEF TypeOK, CallerStates, poolVars, entryVars
  <2>3. CallerInv'
    BY <1>1, <1>4, <2>1 DEF TypeOK, CallerInv, AbandonWait
  <2>4. PoolInv' /\ DialInv' /\ OwnerInv' /\ IdleInv'
    BY <2>1 DEF PoolInv, DialInv, OwnerInv, IdleInv, Live, InHand, poolVars, entryVars
  <2>5. CountInv'
    <3>1. \A x \in Flights : Users(x)' = Users(x)
      BY <2>1 DEF Users
    <3> QED BY <1>1, <1>2, <1>3, <1>4, <2>1, <3>1, UsersFinite DEF CountInv, TypeOK, Live, entryVars
  <2> QED BY <2>2, <2>3, <2>4, <2>5
<1>5. CASE outcome[t] # "entry"
  <2>1. /\ pc' = [pc EXCEPT ![c] = "idle"] /\ want' = [want EXCEPT ![c] = None]
        /\ on' = [on EXCEPT ![c] = None]
        /\ UNCHANGED <<closed, endpoints, failures, host, dialer, victim, entryVars>>
    BY <1>1, <1>5 DEF AbandonWait, Leave
  <2>2. /\ Cardinality(Users(t)') = Cardinality(Users(t)) - 1
        /\ Cardinality(Users(t)) \in Nat \ {0}
        /\ \A x \in Flights \ {t} : Users(x)' = Users(x)
    BY <1>1, <2>1, UsersLeave DEF TypeOK
  <2>3. /\ outcome' \in [Flights -> Outcomes]
        /\ flights' \in [Hosts -> Flights \cup {None}]
        /\ \A x \in Flights \ {t} : outcome'[x] = outcome[x]
        /\ outcome'[t] \in {outcome[t], "canceled"}
        /\ outcome'[t] # outcome[t] => outcome[t] = "pending"
        /\ outcome'[t] = "pending" => waiters[t] # 1
        /\ \A x \in Flights, h \in Hosts :
              flights'[h] = x <=> outcome'[x] = "pending" /\ host[x] = h
        /\ \A h \in Hosts : flights'[h] \in {flights[h], None}
    <3>1. CASE outcome[t] = "pending" /\ waiters[t] = 1
      <4>1. CancelFlights({host[t]}) /\ host[t] \in Hosts
        BY <1>1, <3>1 DEF AbandonWait, PoolInv
      <4>2. \A x \in Flights : flights[host[t]] = x <=> x = t
        BY <3>1, <4>1 DEF PoolInv, TypeOK
      <4>3. /\ outcome' \in [Flights -> Outcomes]
            /\ \A x \in Flights : outcome'[x] = IF x = t THEN "canceled" ELSE outcome[x]
        BY <4>1, <4>2 DEF CancelFlights, TypeOK, Outcomes
      <4>4. /\ flights' \in [Hosts -> Flights \cup {None}]
            /\ \A y \in Hosts : flights'[y] = IF y = host[t] THEN None ELSE flights[y]
        BY <4>1 DEF CancelFlights, TypeOK
      <4> QED BY <3>1, <4>1, <4>2, <4>3, <4>4 DEF PoolInv
    <3>2. CASE ~(outcome[t] = "pending" /\ waiters[t] = 1)
      BY <1>1, <3>2 DEF AbandonWait, PoolInv, TypeOK
    <3> QED BY <3>1, <3>2
  <2>4. TypeOK'
    BY <1>3, <2>1, <2>3 DEF TypeOK, CallerStates, entryVars
  <2>5. CallerInv'
    BY <1>1, <2>1, <2>3 DEF TypeOK, CallerInv, AbandonWait
  <2>6. PoolInv'
    BY <2>1, <2>3 DEF TypeOK, PoolInv, Live, entryVars
  <2>7. DialInv'
    BY <1>5, <2>1, <2>3 DEF DialInv, entryVars
  <2>8. CountInv'
    BY <1>2, <1>3, <1>5, <2>1, <2>2, <2>3, UsersFinite DEF TypeOK, CountInv, Live, entryVars
  <2>9. OwnerInv' /\ IdleInv'
    BY <1>5, <2>1, <2>3 DEF OwnerInv, IdleInv, Live, InHand, entryVars
  <2> QED BY <2>4, <2>5, <2>6, <2>7, <2>8, <2>9
<1> QED BY <1>4, <1>5

\* A new flight: t was garbage, v is the idle entry it evicts, or None.
LEMMA NewFlightIInv ==
    ASSUME IInv, NEW c \in Callers, NEW h \in Hosts, NEW t \in Flights,
           NEW v \in Flights \cup {None},
           pc[c] \in {"idle", "checking"}, ~closed,
           endpoints[h] = None, flights[h] = None,
           v # None => v \in IdleEntries,
           NewFlight(c, h, t, v),
           endpoints' = IF v = None THEN endpoints ELSE [endpoints EXCEPT ![host[v]] = None]
    PROVE  IInv'
<1> USE HostPoolAssumption DEF IInv
<1>1. v # None => Live(v) /\ v # t /\ refs[v] = 0 /\ host[v] \in Hosts /\ v \in Flights
  BY DEF IdleEntries, Published, PoolInv, NewFlight, Garbage
<1>2. /\ outcome[t] # "pending" /\ ~Live(t) /\ dialer[t] = "off" /\ endpoint[t] # "open"
      /\ closers[t] = 0 /\ callbacks[t] = 0
      /\ \A x \in Callers : on[x] # t
      /\ \A x \in Flights : victim[x] # t
  BY DEF NewFlight, Garbage, OwnerInv
<1>3. /\ flights' = [flights EXCEPT ![h] = t] /\ host' = [host EXCEPT ![t] = h]
      /\ waiters' = [waiters EXCEPT ![t] = 1]
      /\ outcome' = [outcome EXCEPT ![t] = "pending"]
      /\ endpoint' = [endpoint EXCEPT ![t] = "none"] /\ refs' = [refs EXCEPT ![t] = 0]
      /\ UNCHANGED <<closed, failures, callbacks, closers>>
  BY DEF NewFlight
<1>4. /\ dialer' = [dialer EXCEPT ![t] = IF v = None THEN "queued" ELSE "evicting"]
      /\ victim' = [victim EXCEPT ![t] = v]
  BY DEF NewFlight
<1>5. /\ retired' \in [Flights -> BOOLEAN] /\ idle' \in [Flights -> BOOLEAN]
      /\ ~retired'[t] /\ ~idle'[t]
      /\ v # None => retired'[v] /\ ~idle'[v]
      /\ \A x \in Flights \ {t, v} : retired'[x] = retired[x] /\ idle'[x] = idle[x]
  BY <1>1 DEF NewFlight, TypeOK
<1>6. /\ on' = [on EXCEPT ![c] = t] /\ pc' = [pc EXCEPT ![c] = "waiting"]
      /\ want' = [want EXCEPT ![c] = h] /\ on[c] = None
  BY DEF NewFlight, Wait, CallerInv
<1>7. \A x \in Flights : Live(x)' <=> Live(x) /\ x # v
  BY <1>1, <1>2, <1>3, <1>5 DEF Live, TypeOK, DialInv
<1>8. TypeOK'
  <2>1. older' \in [Flights -> SUBSET Flights]
    BY DEF TypeOK, NewFlight
  <2>2. endpoints' \in [Hosts -> Flights \cup {None}]
    BY DEF TypeOK
  <2>3. /\ dialer' \in [Flights -> DialerStates] /\ outcome' \in [Flights -> Outcomes]
        /\ pc' \in [Callers -> CallerStates]
    BY <1>3, <1>4, <1>6 DEF TypeOK, DialerStates, Outcomes, CallerStates
  <2> QED BY <1>3, <1>4, <1>5, <1>6, <2>1, <2>2, <2>3 DEF TypeOK
<1>9. CallerInv'
  BY <1>2, <1>3, <1>6 DEF TypeOK, CallerInv
<1>10. PoolInv'
  <2>1. \A x \in Flights : outcome'[x] # "none" => host'[x] \in Hosts
    BY <1>3 DEF PoolInv, TypeOK
  <2>2. \A x \in Flights, y \in Hosts : endpoints'[y] = x <=> Live(x)' /\ host'[x] = y
    BY <1>1, <1>2, <1>3, <1>7 DEF PoolInv, TypeOK
  <2>3. \A x \in Flights, y \in Hosts :
            flights'[y] = x <=> outcome'[x] = "pending" /\ host'[x] = y
    BY <1>2, <1>3 DEF PoolInv, TypeOK
  <2>4. \A y \in Hosts : endpoints'[y] = None \/ flights'[y] = None
    BY <1>1, <1>3 DEF PoolInv, TypeOK
  <2> QED BY <1>3, <2>1, <2>2, <2>3, <2>4 DEF PoolInv
<1>11. DialInv'
  BY <1>1, <1>2, <1>3, <1>4, <1>5 DEF TypeOK, DialInv, Live
<1>12. CountInv'
  <2>1. Users(t) = {} /\ Waiting(t) = {}
    BY <1>2 DEF Users, Waiting
  <2>2. /\ Cardinality(Users(t)') = 1 /\ Cardinality(Waiting(t)') = 1
        /\ \A x \in Flights \ {t} : Users(x)' = Users(x) /\ Waiting(x)' = Waiting(x)
    <3>1. /\ Cardinality(Users(t)') = Cardinality(Users(t)) + 1
          /\ \A x \in Flights \ {t} : Users(x)' = Users(x)
      BY <1>6, UsersJoin DEF TypeOK
    <3>2. /\ Cardinality(Waiting(t)') = Cardinality(Waiting(t)) + 1
          /\ \A x \in Flights \ {t} : Waiting(x)' = Waiting(x)
      BY <1>6, WaitingJoin DEF TypeOK
    <3>3. Cardinality(Users(t)) = 0 /\ Cardinality(Waiting(t)) = 0
      BY <2>1, FS_EmptySet
    <3> QED BY <3>1, <3>2, <3>3
  <2> QED BY <1>2, <1>3, <1>7, <2>2 DEF TypeOK, CountInv
<1>13. OwnerInv'
  <2>1. \A x \in Flights \ {t} : /\ endpoint'[x] = endpoint[x] /\ closers'[x] = closers[x]
                                 /\ InHand(x)' <=> InHand(x)
                                 /\ outcome'[x] = outcome[x]
    BY <1>3, <1>4 DEF InHand, TypeOK
  <2>2. endpoint'[t] # "open" /\ ~InHand(t)' /\ closers'[t] = 0 /\ ~Live(t)'
    BY <1>2, <1>3, <1>4, <1>7 DEF InHand, TypeOK
  <2>3. \A x \in Flights : victim'[x] = IF x = t THEN v ELSE victim[x]
    BY <1>4 DEF TypeOK
  <2>4. victim[t] = None
    BY <1>2 DEF DialInv
  <2>5. v # None => /\ endpoint[v] = "open" /\ ~InHand(v) /\ closers[v] = 0
                    /\ outcome[v] = "entry" /\ \A x \in Flights : victim[x] # v
    BY <1>1 DEF OwnerInv, DialInv, InHand, Live, TypeOK
  <2> QED BY <1>1, <1>2, <1>5, <1>7, <2>1, <2>2, <2>3, <2>4, <2>5 DEF OwnerInv
<1>14. IdleInv'
  BY <1>1, <1>2, <1>3, <1>5, <1>7 DEF TypeOK, IdleInv
<1> QED BY <1>8, <1>9, <1>10, <1>11, <1>12, <1>13, <1>14

LEMMA OpenSharedIInv ==
    ASSUME IInv, NEW c \in Callers, NEW h \in Hosts,
           pc[c] \in {"idle", "checking"}, ~closed, OpenShared(c, h)
    PROVE  IInv'
<1>1. CASE Reuse(c, h)
  BY <1>1, ReuseIInv
<1>2. CASE Join(c, h)
  BY <1>2, JoinIInv
<1>3. ASSUME NEW t \in Flights, Start(c, h, t)
      PROVE  IInv'
  BY <1>3, NewFlightIInv DEF Start
<1>4. ASSUME NEW t \in Flights, StartEvicting(c, h, t)
      PROVE  IInv'
  <2>1. PICK v \in IdleEntries : /\ NewFlight(c, h, t, v)
                                 /\ endpoints' = [endpoints EXCEPT ![host[v]] = None]
    BY <1>4 DEF StartEvicting, OldestIdle
  <2>2. v \in Flights /\ v # None
    BY HostPoolAssumption DEF IdleEntries, Published
  <2> QED BY <1>4, <2>1, <2>2, NewFlightIInv DEF StartEvicting
<1> QED BY <1>1, <1>2, <1>3, <1>4 DEF OpenShared

\* The invariant is inductive.
THEOREM IInvStep == IInv /\ [Next]_vars => IInv'
<1> SUFFICES ASSUME IInv, [Next]_vars PROVE IInv'
  OBVIOUS
<1>1. ASSUME NEW c \in Callers, NEW h \in Hosts, Open(c, h) \/ OpenLocal(c, h)
      PROVE  IInv'
  BY <1>1, OpenSharedIInv, OpenLocalIInv DEF Open
<1>2. ASSUME NEW c \in Callers, LocalAllowed(c)
      PROVE  IInv'
  <2>1. want[c] \in Hosts
    BY <1>2 DEF LocalAllowed, IInv, CallerInv
  <2> QED BY <1>2, <2>1, OpenSharedIInv DEF LocalAllowed
<1>3. ASSUME NEW c \in Callers,
             \/ LocalRefused(c) \/ Await(c) \/ AbandonWait(c)
             \/ CloseHandle(c) \/ Invalidate(c)
      PROVE  IInv'
  BY <1>3, LocalRefusedIInv, AwaitIInv, AbandonWaitIInv, CloseHandleIInv, InvalidateIInv
<1>4. ASSUME NEW t \in Flights, DialStep(t)
      PROVE  IInv'
  BY <1>4, CloseVictimIInv, TakeSlotIInv, LeaveQueueIInv, DialReturnIInv, DiscardDialIInv,
     FailDialIInv, PublishIInv, CloseDiscardedIInv DEF DialStep
<1>5. ASSUME NEW t \in Flights, IdleTimer(t) \/ IdleCallback(t) \/ CloseEndpoint(t)
      PROVE  IInv'
  BY <1>5, IdleTimerIInv, IdleCallbackIInv, CloseEndpointIInv
<1>6. ASSUME NEW h \in Hosts, BackoffEnds(h) \/ CloseHost(h)
      PROVE  IInv'
  BY <1>6, BackoffEndsIInv, CloseHostIInv
<1>7. CASE Close
  BY <1>7, CloseIInv
<1>8. CASE UNCHANGED vars
  <2>1. UNCHANGED <<closed, endpoints, flights, failures, host, waiters, outcome, dialer,
                    victim, endpoint, refs, retired, idle, older, callbacks, closers, pc, want, on>>
    BY <1>8 DEF vars, poolVars, flightVars, entryVars, callerVars
  <2>2. CountInv'
    BY <2>1, CountKept DEF IInv
  <2>3. TypeOK' /\ CallerInv' /\ PoolInv'
    BY <2>1 DEF IInv, TypeOK, CallerInv, PoolInv, Live
  <2>4. DialInv' /\ OwnerInv' /\ IdleInv'
    BY <2>1 DEF IInv, DialInv, OwnerInv, IdleInv, Live, InHand
  <2> QED BY <2>2, <2>3, <2>4 DEF IInv
<1> QED BY <1>1, <1>2, <1>3, <1>4, <1>5, <1>6, <1>7, <1>8 DEF Next

LEMMA Invariance == Spec => []IInv
<1> QED BY InitIInv, IInvStep, PTL DEF Spec

(***************************************************************************)
(* The theorems.                                                           *)
(***************************************************************************)
\* Every variable keeps its type; no reference or observer count of the pool
\* ever becomes negative.
THEOREM TypeCorrect == Spec => []TypeOK
<1>1. IInv => TypeOK
  BY DEF IInv
<1> QED BY <1>1, Invariance, PTL

\* The reference count of a live entry is exactly its number of users.
THEOREM RefsAreExact == Spec => []RefsExact
<1>1. IInv => RefsExact
  BY DEF IInv, CountInv, RefsExact
<1> QED BY <1>1, Invariance, PTL

\* An idle entry always has a timer or a callback that will look at it.
THEOREM IdleIsWatched == Spec => []IdleWatched
<1>1. IInv => IdleWatched
  BY DEF IInv, IdleInv, PoolInv, IdleWatched, IdleEntries, Published
<1> QED BY <1>1, Invariance, PTL

\* No open transport is without an owner and none has two: it does not leak
\* and is not closed twice.
THEOREM SingleOwner == Spec => []OneOwner
<1>1. ASSUME IInv, NEW t \in Flights
      PROVE  IF endpoint[t] = "open" THEN \E o \in Owners(t) : Owners(t) = {o}
             ELSE Owners(t) = {}
  <2> USE HostPoolAssumption
  <2>1. \A h \in Hosts : endpoints[h] = t <=> Live(t) /\ host[t] = h
    BY <1>1 DEF IInv, PoolInv
  <2>2. Live(t) => host[t] \in Hosts /\ ~InHand(t) /\ closers[t] = 0
                   /\ \A x \in Flights : victim[x] # t
    BY <1>1 DEF IInv, PoolInv, DialInv, OwnerInv, Live, InHand
  <2>3. InHand(t) => closers[t] = 0 /\ \A x \in Flights : victim[x] # t
    BY <1>1 DEF IInv, DialInv, OwnerInv, InHand
  <2>4. /\ closers[t] \in {0, 1}
        /\ closers[t] = 1 => \A x \in Flights : victim[x] # t
        /\ endpoint[t] = "open" <=> \/ Live(t) \/ InHand(t) \/ closers[t] = 1
                                    \/ \E x \in Flights : victim[x] = t
    BY <1>1 DEF IInv, OwnerInv
  <2>5. \A x, y \in Flights : victim[x] = t /\ victim[y] = t => x = y
    BY <1>1 DEF IInv, OwnerInv
  <2>6. CASE Live(t)
    <3>1. Owners(t) = {<<"pool", host[t]>>}
      BY <2>1, <2>2, <2>6 DEF Owners
    <3> QED BY <2>4, <2>6, <3>1
  <2>7. CASE ~Live(t) /\ InHand(t)
    <3>1. Owners(t) = {<<"dialer", t>>}
      BY <2>1, <2>3, <2>7 DEF Owners
    <3> QED BY <2>4, <2>7, <3>1
  <2>8. CASE ~Live(t) /\ ~InHand(t) /\ closers[t] = 1
    <3>1. Owners(t) = {<<"closer", 1>>}
      BY <2>1, <2>4, <2>8 DEF Owners
    <3> QED BY <2>4, <2>8, <3>1
  <2>9. CASE ~Live(t) /\ ~InHand(t) /\ closers[t] = 0
    <3>1. Owners(t) = {<<"evictor", x>> : x \in {y \in Flights : victim[y] = t}}
      BY <2>1, <2>9 DEF Owners
    <3>2. CASE \E x \in Flights : victim[x] = t
      <4>1. PICK x \in Flights : victim[x] = t
        BY <3>2
      <4>2. {y \in Flights : victim[y] = t} = {x}
        BY <2>5, <4>1
      <4>3. Owners(t) = {<<"evictor", x>>}
        BY <3>1, <4>2
      <4> QED BY <2>4, <4>1, <4>3
    <3>3. CASE ~\E x \in Flights : victim[x] = t
      <4>1. Owners(t) = {}
        BY <3>1, <3>3
      <4> QED BY <2>4, <2>9, <3>3, <4>1
    <3> QED BY <3>2, <3>3
  <2> QED BY <2>4, <2>6, <2>7, <2>8, <2>9
<1>2. IInv => OneOwner
  BY <1>1 DEF OneOwner
<1> QED BY <1>2, Invariance, PTL

\* A closed factory has nothing published and dials nothing.
THEOREM ClosedIsEmpty == Spec => []ClosedEmpty
<1>1. ASSUME IInv, closed
      PROVE  Load = 0 /\ \A t \in Flights : outcome[t] # "pending"
  <2>1. {h \in Hosts : endpoints[h] # None} = {} /\ {h \in Hosts : flights[h] # None} = {}
    BY <1>1 DEF IInv, PoolInv
  <2>2. Load = 0
    BY <2>1, FS_EmptySet DEF Load
  <2>3. ASSUME NEW t \in Flights, outcome[t] = "pending"
        PROVE  FALSE
    <3>1. host[t] \in Hosts /\ flights[host[t]] = t
      BY <1>1, <2>3 DEF IInv, PoolInv
    <3> QED BY <1>1, <3>1, HostPoolAssumption DEF IInv, PoolInv
  <2> QED BY <2>2, <2>3
<1>2. IInv => ClosedEmpty
  BY <1>1 DEF ClosedEmpty
<1> QED BY <1>2, Invariance, PTL

Ready   == {h \in Hosts : endpoints[h] # None}
Pending == {h \in Hosts : flights[h] # None}

\* Shrinking maps do not add to the load.
LEMMA LoadShrinks ==
    ASSUME Ready' \subseteq Ready, Pending' \subseteq Pending
    PROVE  Load' <= Load /\ Load \in Nat /\ Load' \in Nat
<1>1. IsFiniteSet(Ready) /\ IsFiniteSet(Pending)
  BY HostPoolAssumption, FS_Subset DEF Ready, Pending
<1>2. /\ Cardinality(Ready') <= Cardinality(Ready) /\ Cardinality(Ready) \in Nat
      /\ Cardinality(Ready') \in Nat
  BY <1>1, FS_Subset, FS_CardinalityType
<1>3. /\ Cardinality(Pending') <= Cardinality(Pending) /\ Cardinality(Pending) \in Nat
      /\ Cardinality(Pending') \in Nat
  BY <1>1, FS_Subset, FS_CardinalityType
<1> QED BY <1>2, <1>3 DEF Load, Ready, Pending

\* A host that begins to dial adds one.
LEMMA LoadStart ==
    ASSUME NEW h \in Hosts, Pending' = Pending \cup {h}
    PROVE  /\ Cardinality(Pending') <= Cardinality(Pending) + 1
           /\ Cardinality(Pending') \in Nat /\ Cardinality(Pending) \in Nat
           /\ Cardinality(Ready) \in Nat
<1>1. IsFiniteSet(Ready) /\ IsFiniteSet(Pending)
  BY HostPoolAssumption, FS_Subset DEF Ready, Pending
<1>2. IsFiniteSet(Pending')
  BY <1>1, FS_AddElement
<1> QED BY <1>1, <1>2, FS_AddElement, FS_CardinalityType

LEMMA LimitStep == IInv /\ WithinLimit /\ [Next]_vars => WithinLimit'
<1> SUFFICES ASSUME IInv, WithinLimit, [Next]_vars PROVE WithinLimit'
  OBVIOUS
<1> USE HostPoolAssumption
<1>0. Load = Cardinality(Ready) + Cardinality(Pending)
      /\ Load' = Cardinality(Ready') + Cardinality(Pending')
  BY DEF Load, Ready, Pending
<1>1. ASSUME NEW c \in Callers, NEW h \in Hosts, NEW t \in Flights, Start(c, h, t)
      PROVE  WithinLimit'
  <2>1. Pending' = Pending \cup {h} /\ Ready' = Ready
    BY <1>1 DEF Start, NewFlight, Pending, Ready, IInv, TypeOK
  <2>2. Load < Limit
    BY <1>1 DEF Start
  <2> QED BY <1>0, <2>1, <2>2, LoadStart DEF WithinLimit
<1>2. ASSUME NEW c \in Callers, NEW h \in Hosts, NEW t \in Flights, StartEvicting(c, h, t)
      PROVE  WithinLimit'
  <2>1. PICK v \in IdleEntries : /\ NewFlight(c, h, t, v)
                                 /\ endpoints' = [endpoints EXCEPT ![host[v]] = None]
    BY <1>2 DEF StartEvicting, OldestIdle
  <2>2. host[v] \in Ready
    BY <2>1 DEF Ready, IdleEntries, Published, IInv, PoolInv
  <2>3. Pending' = Pending \cup {h} /\ Ready' = Ready \ {host[v]}
    BY <2>1, <2>2 DEF NewFlight, Pending, Ready, IInv, TypeOK
  <2>4. IsFiniteSet(Ready)
    BY FS_Subset DEF Ready
  <2>5. Cardinality(Ready') = Cardinality(Ready) - 1
    BY <2>2, <2>3, <2>4, FS_RemoveElement
  <2>6. Load <= Limit
    BY DEF WithinLimit
  <2>7. /\ Cardinality(Pending') <= Cardinality(Pending) + 1
        /\ Cardinality(Pending') \in Nat /\ Cardinality(Pending) \in Nat
        /\ Cardinality(Ready) \in Nat
    BY <2>3, LoadStart
  <2>8. Load' <= Limit
    BY <1>0, <2>5, <2>6, <2>7
  <2> QED BY <2>8 DEF WithinLimit
<1>3. ASSUME NEW t \in Flights, Publish(t)
      PROVE  WithinLimit'
  <2>1. host[t] \in Hosts /\ flights[host[t]] = t /\ endpoints[host[t]] = None
    BY <1>3 DEF Publish, IInv, PoolInv
  <2>2. Ready' = Ready \cup {host[t]} /\ host[t] \notin Ready
        /\ Pending' = Pending \ {host[t]} /\ host[t] \in Pending
    BY <1>3, <2>1 DEF Publish, Pending, Ready, IInv, TypeOK
  <2>3. IsFiniteSet(Ready) /\ IsFiniteSet(Pending)
    BY FS_Subset DEF Ready, Pending
  <2>4. /\ Cardinality(Ready') = Cardinality(Ready) + 1
        /\ Cardinality(Pending') = Cardinality(Pending) - 1
        /\ Cardinality(Ready) \in Nat /\ Cardinality(Pending) \in Nat
    BY <2>2, <2>3, FS_AddElement, FS_RemoveElement, FS_CardinalityType
  <2> QED BY <1>0, <2>4 DEF WithinLimit
<1>4. ASSUME Ready' \subseteq Ready, Pending' \subseteq Pending
      PROVE  WithinLimit'
  <2>1. Load' <= Load /\ Load \in Nat /\ Load' \in Nat
    BY <1>4, LoadShrinks
  <2> QED BY <2>1 DEF WithinLimit
<1>5. ASSUME NEW c \in Callers, NEW h \in Hosts, Reuse(c, h) \/ Join(c, h) \/ OpenLocal(c, h)
      PROVE  WithinLimit'
  BY <1>4, <1>5 DEF Reuse, Join, OpenLocal, poolVars, Ready, Pending
<1>6. ASSUME NEW c \in Callers, LocalRefused(c) \/ Await(c) \/ CloseHandle(c)
      PROVE  WithinLimit'
  BY <1>4, <1>6 DEF LocalRefused, Await, CloseHandle, poolVars, Ready, Pending
<1>7. ASSUME NEW c \in Callers, AbandonWait(c)
      PROVE  WithinLimit'
  BY <1>4, <1>7 DEF AbandonWait, CancelFlights, Ready, Pending
<1>8. ASSUME NEW c \in Callers, Invalidate(c)
      PROVE  WithinLimit'
  BY <1>4, <1>8 DEF Invalidate, Ready, Pending, IInv, TypeOK
<1>9. ASSUME NEW t \in Flights,
             \/ CloseVictim(t) \/ TakeSlot(t) \/ LeaveQueue(t) \/ DialReturn(t)
             \/ DiscardDial(t) \/ CloseDiscarded(t) \/ IdleTimer(t) \/ CloseEndpoint(t)
      PROVE  WithinLimit'
  BY <1>4, <1>9 DEF CloseVictim, TakeSlot, LeaveQueue, DialReturn, DiscardDial, CloseDiscarded,
     IdleTimer, CloseEndpoint, poolVars, Ready, Pending
<1>10. ASSUME NEW t \in Flights, FailDial(t)
       PROVE  WithinLimit'
  BY <1>4, <1>10 DEF FailDial, Ready, Pending, IInv, TypeOK
<1>11. ASSUME NEW t \in Flights, IdleCallback(t)
       PROVE  WithinLimit'
  BY <1>4, <1>11 DEF IdleCallback, Ready, Pending, IInv, TypeOK
<1>12. ASSUME NEW h \in Hosts, BackoffEnds(h) \/ CloseHost(h)
       PROVE  WithinLimit'
  BY <1>4, <1>12 DEF BackoffEnds, CloseHost, CancelFlights, Ready, Pending, IInv, TypeOK
<1>13. CASE Close
  BY <1>4, <1>13 DEF Close, CancelFlights, Ready, Pending
<1>14. CASE UNCHANGED vars
  BY <1>4, <1>14 DEF vars, poolVars, Ready, Pending
<1> QED BY <1>1, <1>2, <1>3, <1>5, <1>6, <1>7, <1>8, <1>9, <1>10, <1>11, <1>12, <1>13, <1>14,
           Zenon DEF Next, Open, LocalAllowed, OpenShared, DialStep, IInv, CallerInv

LEMMA InitLimit == Init => WithinLimit
<1> SUFFICES ASSUME Init PROVE WithinLimit
  OBVIOUS
<1>1. {h \in Hosts : endpoints[h] # None} = {} /\ {h \in Hosts : flights[h] # None} = {}
  BY DEF Init
<1>2. Load = 0
  BY <1>1, FS_EmptySet DEF Load
<1> QED BY <1>2, HostPoolAssumption DEF WithinLimit

\* Connections and dials together never exceed the configured limit.
THEOREM LimitHolds == Spec => []WithinLimit
<1> QED BY InitLimit, LimitStep, Invariance, PTL DEF Spec

\* Eviction and idle timers take an entry only when nobody holds it or was
\* promised it.
THEOREM ReclaimIsSafe == Spec => ReclaimOnlyUnused
<1> DEFINE Forced == \/ \E c \in Callers : Invalidate(c)
                     \/ \E h \in Hosts : CloseHost(h)
                     \/ Close
           Safe == \A t \in Flights : Live(t) /\ retired'[t] /\ Users(t) # {} => Forced
<1>1. ASSUME IInv, NEW t \in Flights, Live(t), refs[t] = 0
      PROVE  Users(t) = {}
  <2>1. Cardinality(Users(t)) = 0
    BY <1>1 DEF IInv, CountInv
  <2> QED BY <2>1, UsersFinite, FS_EmptySet
<1>2. ASSUME IInv, NEW c \in Callers, NEW h \in Hosts, OpenShared(c, h)
      PROVE  Safe
  <2>1. CASE Reuse(c, h) \/ Join(c, h)
    BY <2>1 DEF Reuse, Join, Live, entryVars
  <2>2. ASSUME NEW t \in Flights, Start(c, h, t), NEW x \in Flights, Live(x), retired'[x]
        PROVE  FALSE
    BY <2>2, HostPoolAssumption DEF Start, NewFlight, Live
  <2>3. ASSUME NEW t \in Flights, StartEvicting(c, h, t),
               NEW x \in Flights, Live(x), retired'[x]
        PROVE  Users(x) = {}
    <3>1. PICK v \in IdleEntries : NewFlight(c, h, t, v)
      BY <2>3 DEF StartEvicting, OldestIdle
    <3>2. x = v
      BY <2>3, <3>1 DEF NewFlight, Live
    <3> QED BY <1>1, <1>2, <2>3, <3>2 DEF IdleEntries
  <2> QED BY <1>2, <2>1, <2>2, <2>3 DEF OpenShared
<1>3. ASSUME IInv, NEW t \in Flights, IdleCallback(t)
      PROVE  Safe
  <2>1. CASE StillIdle(t)
    BY <1>1, <1>3, <2>1 DEF IdleCallback, StillIdle, Retire, Live
  <2>2. CASE ~StillIdle(t)
    BY <1>3, <2>2 DEF IdleCallback, Live
  <2> QED BY <2>1, <2>2
<1>4. ASSUME UNCHANGED retired
      PROVE  Safe
  BY <1>4 DEF Live
<1>5. IInv /\ [Next]_vars => Safe
  <2> SUFFICES ASSUME IInv, [Next]_vars PROVE Safe
    OBVIOUS
  <2>1. ASSUME NEW c \in Callers, NEW h \in Hosts, Open(c, h)
        PROVE  Safe
    BY <1>2, <2>1 DEF Open
  <2>2. ASSUME NEW c \in Callers, LocalAllowed(c)
        PROVE  Safe
    BY <1>2, <2>2 DEF LocalAllowed, IInv, CallerInv
  <2>3. ASSUME NEW c \in Callers, NEW h \in Hosts, OpenLocal(c, h)
        PROVE  Safe
    BY <1>4, <2>3 DEF OpenLocal, entryVars
  <2>4. ASSUME NEW c \in Callers,
               LocalRefused(c) \/ Await(c) \/ AbandonWait(c) \/ CloseHandle(c)
        PROVE  Safe
    BY <1>4, <2>4 DEF LocalRefused, Await, AbandonWait, CloseHandle, entryVars
  <2>5. ASSUME NEW t \in Flights, DialStep(t)
        PROVE  Safe
    BY <1>4, <2>5 DEF DialStep, CloseVictim, TakeSlot, LeaveQueue, DialReturn, DiscardDial,
       FailDial, Publish, CloseDiscarded, entryVars
  <2>6. ASSUME NEW t \in Flights, IdleTimer(t) \/ CloseEndpoint(t)
        PROVE  Safe
    BY <1>4, <2>6 DEF IdleTimer, CloseEndpoint
  <2>7. ASSUME NEW h \in Hosts, BackoffEnds(h)
        PROVE  Safe
    BY <1>4, <2>7 DEF BackoffEnds, entryVars
  <2>8. CASE UNCHANGED vars
    BY <1>4, <2>8 DEF vars, entryVars
  <2>9. CASE Forced
    BY <2>9
  <2> QED BY <1>3, <2>1, <2>2, <2>3, <2>4, <2>5, <2>6, <2>7, <2>8, <2>9 DEF Next
<1>6. IInv /\ [Next]_vars => [Safe]_vars
  BY <1>5
<1> QED BY <1>6, Invariance, PTL DEF Spec, ReclaimOnlyUnused
=============================================================================
