---------------------------- MODULE PushDelivery ----------------------------
(***************************************************************************)
(* The subscriptions of browsers and what is sent to them:                 *)
(* internal/httpapi/push.go, push_monitor.go (deliverPushHost),            *)
(* internal/push/service.go, and internal/store/push.go, access.go and     *)
(* password.go.                                                            *)
(*                                                                         *)
(* A push endpoint belongs to one row.  A delivery starts from the rows of *)
(* the owner that its round has read, gets an access lease of the owner    *)
(* later, and reads each row again before the provider is asked, which may *)
(* answer late.  When the access of a user ends, because the account is    *)
(* disabled or its password is new, the user's rows are deleted.           *)
(***************************************************************************)
EXTENDS Naturals

CONSTANTS
    Endpoints,    \* the push endpoints of browsers
    Users,
    Deliveries,   \* workers that deliver
    None,
    MaxId         \* bound: subscriptions that are saved

VARIABLES
    subscriptions,   \* push_subscriptions
    lastId,
    enabled,         \* users.disabled = 0
    cleared,         \* history: the last row saved when the access of a user last ended
    delivery         \* what each worker has to deliver and to whom

deliveryVars == <<subscriptions, lastId, enabled, cleared, delivery>>

Rows == [id : 1..MaxId, user : Users]
Subscriptions == [endpoint : Endpoints, id : 1..MaxId]

\* What the constants have to be: an instance assumes it.
DeliveryAssumption == MaxId \in Nat /\ None \notin Users \cup Rows \cup Subscriptions

Resting == [at |-> "idle", owner |-> None, left |-> {}, current |-> None]

\* The types of all variables.
DeliveryTypeOK ==
    /\ lastId \in 0..MaxId /\ enabled \subseteq Users /\ cleared \in [Users -> 0..MaxId]
    /\ subscriptions \in [Endpoints -> Rows \cup {None}]
    /\ \A e \in Endpoints : subscriptions[e] # None => subscriptions[e].id <= lastId
    /\ delivery \in [Deliveries -> [at : {"idle", "collected", "deliver", "sent", "ended"},
            owner : Users \cup {None}, left : SUBSET Subscriptions, current : Subscriptions \cup {None}]]
    /\ \A d \in Deliveries : \A sub \in delivery[d].left : sub.id <= lastId

DeliveryInit ==
    /\ subscriptions = [e \in Endpoints |-> None] /\ lastId = 0 /\ enabled = Users
    /\ cleared = [u \in Users |-> 0]
    /\ delivery = [d \in Deliveries |-> Resting]

RowsOf(u) == {e \in Endpoints : subscriptions[e] # None /\ subscriptions[e].user = u}

\* A subscription of u that is the row of its endpoint.
Current(sub, u) ==
    /\ subscriptions[sub.endpoint] # None
    /\ subscriptions[sub.endpoint].user = u /\ subscriptions[sub.endpoint].id = sub.id

\* UpsertPushSubscription: a new id, and the endpoint may change hands.  It
\* asks for an enabled user only: the request of a login that is just ended may
\* still save its row.
subscribePush(u, e) ==
    /\ u \in enabled /\ lastId < MaxId /\ lastId' = lastId + 1
    /\ subscriptions' = [subscriptions EXCEPT ![e] = [id |-> lastId + 1, user |-> u]]
    /\ UNCHANGED <<enabled, cleared, delivery>>

\* Fault: the logins of the user end and the subscriptions stay.
KeepRows(u) == UNCHANGED subscriptions

DeleteRows(u) == subscriptions' = [e \in Endpoints |-> IF e \in RowsOf(u) THEN None ELSE subscriptions[e]]

\* One transaction under the user's access gate, and the background leases of
\* the user with it; a delivery that has no lease yet does not notice.
EndAccess(u) ==
    /\ DeleteRows(u) /\ cleared' = [cleared EXCEPT ![u] = lastId] /\ UNCHANGED lastId
    /\ delivery' = [d \in Deliveries |->
            IF delivery[d].owner = u /\ delivery[d].at \in {"deliver", "sent"}
            THEN [delivery[d] EXCEPT !.at = "ended"] ELSE delivery[d]]

\* SetUserDisabled.
Disable(u) == u \in enabled /\ enabled' = enabled \ {u} /\ EndAccess(u)

Enable(u) ==
    /\ u \notin enabled /\ enabled' = enabled \cup {u}
    /\ UNCHANGED <<subscriptions, lastId, cleared, delivery>>

\* ChangePassword, and ResetPassword, which a disabled user may get as well.
NewPassword(u) == UNCHANGED enabled /\ EndAccess(u)

\* collectPushHosts: PushSubscriptions of users that are not disabled.
Collect(d) ==
    /\ delivery[d].at = "idle"
    /\ \E u \in enabled :
        /\ RowsOf(u) # {}
        /\ delivery' = [delivery EXCEPT ![d] = [at |-> "collected", owner |-> u, current |-> None,
               left |-> {[endpoint |-> e, id |-> subscriptions[e].id] : e \in RowsOf(u)}]]
    /\ UNCHANGED <<subscriptions, lastId, enabled, cleared>>

\* The host was read and there is something to tell: the delivery gets a lease.
Attach(d) ==
    /\ delivery[d].at = "collected" /\ delivery[d].owner \in enabled
    /\ delivery' = [delivery EXCEPT ![d].at = "deliver"]
    /\ UNCHANGED <<subscriptions, lastId, enabled, cleared>>

Ends(d) == delivery' = [delivery EXCEPT ![d] = Resting]

\* Nothing to tell, no lease or an ended one, the host is gone, or all rows
\* were served.
Leave(d) ==
    /\ delivery[d].at \in {"collected", "deliver", "ended"}
    /\ Ends(d) /\ UNCHANGED <<subscriptions, lastId, enabled, cleared>>

\* deliverPushHost: under a lease that stands, the row is read by its owner and
\* endpoint.  (A lease that ends between the two takes the row with it.)
Read(d) ==
    /\ delivery[d].at = "deliver"
    /\ \E sub \in delivery[d].left :
        delivery' = IF Current(sub, delivery[d].owner)
                    THEN [delivery EXCEPT ![d].at = "sent", ![d].current = sub, ![d].left = @ \ {sub}]
                    ELSE [delivery EXCEPT ![d].left = @ \ {sub}]
    /\ UNCHANGED <<subscriptions, lastId, enabled, cleared>>

Proceeds(d) == delivery' = [delivery EXCEPT ![d].at = "deliver", ![d].current = None]

\* Notify: delivered, refused or canceled.
Sent(d) ==
    /\ delivery[d].at = "sent" /\ Proceeds(d) /\ UNCHANGED <<subscriptions, lastId, enabled, cleared>>

\* Fault: the row is deleted by its endpoint and its owner.
OfOwner(sub, u) == subscriptions[sub.endpoint] # None /\ subscriptions[sub.endpoint].user = u

Expires(sub, u) == Current(sub, u)

\* The provider answers 404 or 410: DeletePushSubscriptionIfCurrent.
Expired(d) ==
    LET sub == delivery[d].current IN
    /\ delivery[d].at = "sent" /\ Proceeds(d)
    /\ subscriptions' = IF Expires(sub, delivery[d].owner) THEN [subscriptions EXCEPT ![sub.endpoint] = None]
                                                           ELSE subscriptions
    /\ UNCHANGED <<lastId, enabled, cleared>>

-----------------------------------------------------------------------------
DeliveryNext ==
    \/ \E u \in Users : Disable(u) \/ Enable(u) \/ NewPassword(u) \/ \E e \in Endpoints : subscribePush(u, e)
    \/ \E d \in Deliveries :
        Collect(d) \/ Attach(d) \/ Leave(d) \/ Read(d) \/ Sent(d) \/ Expired(d)

DeliverySpec == DeliveryInit /\ [][DeliveryNext]_deliveryVars

-----------------------------------------------------------------------------
\* "A late provider response must not delete a renewed or reassigned
\* subscription": a row goes only while it is the one the provider was asked
\* about, or because it was there when the access of its user ended
\* (deliverPushHost, DeletePushSubscriptionIfCurrent, endUserAccessTx).
RenewedStays ==
    [][\A e \in Endpoints : subscriptions[e] # None /\ subscriptions'[e] = None =>
        \/ subscriptions[e].id <= cleared'[subscriptions[e].user]
        \/ \E d \in Deliveries : /\ delivery[d].at = "sent"
                                 /\ delivery[d].current = [endpoint |-> e, id |-> subscriptions[e].id]]_deliveryVars

\* "A lost device would otherwise keep receiving notifications": the provider
\* is only asked about a row that was saved after the access of its owner last
\* ended, whatever the delivery had collected before (ChangePassword,
\* ResetPassword, SetUserDisabled, deliverPushHost).
EndedIsSilent ==
    \A d \in Deliveries : delivery[d].at = "sent" =>
        delivery[d].current.id > cleared[delivery[d].owner]

-----------------------------------------------------------------------------
\* A worker that waits for a provider knows what it asked about, and asks
\* about nothing that is to come; no row is left of what was cleared: the
\* inductive invariant.
DeliveryInv ==
    /\ DeliveryTypeOK /\ EndedIsSilent
    /\ \A u \in Users : cleared[u] <= lastId
    /\ \A e \in Endpoints : subscriptions[e] # None => subscriptions[e].id > cleared[subscriptions[e].user]
    /\ \A d \in Deliveries :
        /\ delivery[d].at # "idle" => delivery[d].owner # None
        /\ delivery[d].at = "sent" => delivery[d].current # None /\ delivery[d].current.id <= lastId
=============================================================================
