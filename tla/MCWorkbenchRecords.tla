------------------------- MODULE MCWorkbenchRecords -------------------------
(***************************************************************************)
(* TLC instance of what the workbench keeps: the enrollments of hosts      *)
(* (with the agent they bind), the accounts and what they may do, the      *)
(* hosts, and the notifications.  They share no state here, so a behaviour *)
(* runs one of them and leaves the others where they begin.                *)
(***************************************************************************)
EXTENDS Enrollment, AccountAccess, TLC

CONSTANTS
    HostIds, Folders, Keys, Owned, Addresses, Deleted, MaxVersion,          \* Hosts
    Newcomers, Invites, HashSlots, MaxRevision,                             \* Registration
    Panes, Delay, MaxClock, MaxSeq, MaxRun,                                 \* PushMonitor
    Subscribers, Endpoints, Deliveries, MaxId                               \* PushDelivery

VARIABLES
    part,                                                                   \* which of them runs
    exists, root, invite, mode, revision, join,                             \* Registration
    row, made, creds, keyRev, parent, request,                              \* Hosts
    clock, agents, seq, run, previous, pending, poll, told, markers, absent, \* PushMonitor
    subscriptions, lastId, enabled, cleared, delivery                       \* PushDelivery

Registration == INSTANCE Registration WITH Users <- Newcomers, Requests <- Tasks
Hosts == INSTANCE Hosts
Push == INSTANCE PushMonitor
Delivery == INSTANCE PushDelivery WITH Users <- Subscribers

\* The parts get the constants they assume.
ASSUME PartsAssumption ==
    /\ Registration!RegistrationAssumption /\ AccessAssumption
    /\ Hosts!HostsAssumption /\ Push!PushAssumption /\ Delivery!DeliveryAssumption

registrationVars == <<exists, root, invite, mode, revision, join>>
hostVars == <<row, made, creds, keyRev, parent, request>>
pushVars == <<clock, agents, seq, run, previous, pending, poll, told, markers, absent>>
deliveryVars == <<subscriptions, lastId, enabled, cleared, delivery>>

RecordsInit ==
    /\ part \in {"enrollment", "registration", "access", "hosts", "push", "delivery"}
    /\ Init /\ WebInit /\ Registration!RegistrationInit /\ AccessInit
    /\ Hosts!HostsInit /\ Push!PushInit /\ Delivery!DeliveryInit

RecordsNext ==
    \/ part = "enrollment" /\ SystemNext
        /\ UNCHANGED <<part, registrationVars, accessVars, hostVars, pushVars, deliveryVars>>
    \/ part = "registration" /\ Registration!RegistrationNext
        /\ UNCHANGED <<part, allVars, accessVars, hostVars, pushVars, deliveryVars>>
    \/ part = "access" /\ AccessNext
        /\ UNCHANGED <<part, allVars, registrationVars, hostVars, pushVars, deliveryVars>>
    \/ part = "hosts" /\ Hosts!HostsNext
        /\ UNCHANGED <<part, allVars, registrationVars, accessVars, pushVars, deliveryVars>>
    \/ part = "push" /\ Push!PushNext
        /\ UNCHANGED <<part, allVars, registrationVars, accessVars, hostVars, deliveryVars>>
    \/ part = "delivery" /\ Delivery!DeliveryNext
        /\ UNCHANGED <<part, allVars, registrationVars, accessVars, hostVars, pushVars>>

RecordsSpec ==
    RecordsInit /\ [][RecordsNext]_<<part, allVars, registrationVars, accessVars, hostVars, pushVars, deliveryVars>>

\* The tasks of the server and the requests of browsers are interchangeable.
Symmetry == Permutations(Tasks)

\* The types of the variables of the part that runs.
RecordsTypeOK ==
    /\ part = "enrollment" => WebTypeOK
    /\ part = "registration" => Registration!RegistrationTypeOK
    /\ part = "access" => AccessTypeOK
    /\ part = "hosts" => Hosts!HostsTypeOK
    /\ part = "push" => Push!PushTypeOK
    /\ part = "delivery" => Delivery!DeliveryTypeOK

\* What a row names was there and fits: what a host's row names exists and is
\* for the address of the row, an account was admitted: ReferencesEnd,
\* TrustedForAddress, AccountsAreAdmitted.
RowsAreWhole ==
    /\ Hosts!ReferencesEnd /\ Hosts!TrustedForAddress
    /\ Registration!AccountsAreAdmitted

\* A round is told once and in time, a subscription that was renewed stays,
\* and nothing is sent to what an account had subscribed before its access
\* ended: ToldOnceInTime, RenewedStays, and after every step EndedIsSilent.
NotificationsAreRight ==
    /\ Push!ToldOnceInTime /\ Delivery!RenewedStays
    /\ [][part = "delivery" => Delivery!EndedIsSilent']_deliveryVars
=============================================================================
