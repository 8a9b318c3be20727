----------------------------- MODULE MCHostPool -----------------------------
(***************************************************************************)
(* TLC instance of the connections to hosts: the pool, a dial over ssh, a  *)
(* session on a connection, the cache of a host's capabilities and the     *)
(* stream of a terminal.  They share no state here, so a behaviour runs    *)
(* one of them and leaves the others where they begin.                     *)
(***************************************************************************)
EXTENDS HostPool, Connections, TLC

VARIABLE part   \* which of them runs

\* The parts get the constants they assume.
ASSUME PartsAssumption ==
    /\ Dial!DialAssumption /\ Capability!CapabilityAssumption
    /\ StreamAssumption

dialVars == <<path, at, open, ended, attempt>>
sessionVars == <<caller, opener, closer, gone, session, master>>
capabilityVars == <<daemon, cli, revision, live, cliSeen, report, unsupported, probing, call>>

PartsInit ==
    /\ part \in {"pool", "dial", "session", "capability", "stream"}
    /\ Init /\ Dial!DialInit /\ Session!SshSessionInit /\ Capability!CapabilityInit
    /\ StreamInit

PartsNext ==
    \/ part = "pool" /\ Next
        /\ UNCHANGED <<part, dialVars, sessionVars, capabilityVars, streamVars>>
    \/ part = "dial" /\ Dial!DialNext
        /\ UNCHANGED <<part, vars, sessionVars, capabilityVars, streamVars>>
    \/ part = "session" /\ Session!SshSessionNext
        /\ UNCHANGED <<part, vars, dialVars, capabilityVars, streamVars>>
    \/ part = "capability" /\ Capability!CapabilityNext
        /\ UNCHANGED <<part, vars, dialVars, sessionVars, streamVars>>
    \/ part = "stream" /\ StreamNext
        /\ UNCHANGED <<part, vars, dialVars, sessionVars, capabilityVars>>

PartsSpec ==
    PartsInit /\ [][PartsNext]_<<part, vars, dialVars, sessionVars, capabilityVars, streamVars>>

Symmetry == Permutations(Callers) \cup Permutations(Flights)

\* The types of the variables of the part that runs.
PartsTypeOK ==
    /\ part = "pool" => TypeOK
    /\ part = "dial" => Dial!DialTypeOK
    /\ part = "session" => Session!SshSessionTypeOK
    /\ part = "capability" => Capability!CapabilityTypeOK
    /\ part = "stream" => StreamTypeOK
=============================================================================
