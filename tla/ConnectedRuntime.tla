-------------------------- MODULE ConnectedRuntime --------------------------
(***************************************************************************)
(* The shared registry together with the real connector it is built for:   *)
(* a probe of RegistryRuntime is the probing of three services             *)
(* (createDomainGoIMConnector), which fail and recover by themselves, and  *)
(* every request calls its tools on the connector it was given             *)
(* (GoImConnector), however old that has become.                           *)
(***************************************************************************)
EXTENDS RegistryRuntime, GoImConnector

CONSTANTS MaxOutages   \* bound: how often services go down

ASSUME OutageAssumption == MaxOutages \in Nat

VARIABLES
    lacks,      \* the capabilities the connected system does not have
    up,         \* the services that can be reached
    upSince,    \* when each was last reached again
    outages,    \* how often one went down
    outcome     \* of each request's probe: how each of its parts ended

serviceVars == <<lacks, up, upSince, outages>>
connectedVars == <<vars, serviceVars, outcome>>

\* A connector is built when all is known about its services.
ConnectedTypeOK ==
    /\ lacks \subseteq Capabilities
    /\ up \subseteq Services
    /\ upSince \in [Services -> Int]
    /\ outages \in 0..MaxOutages
    /\ outcome \in [Requests -> [Probes -> {"none", "ok", "unavailable", "unsupported"}]]
    /\ \A r \in Requests, p \in Probes : probe[r] = "ok" => outcome[r][p] # "none"

ConnectedInit ==
    /\ Init
    /\ lacks \in {{}} \cup {{c} : c \in Capabilities}
    /\ up = Services
    /\ upSince = [s \in Services |-> -RefreshMs]
    /\ outages = 0
    /\ outcome = [r \in Requests |-> [p \in Probes |-> "none"]]

-----------------------------------------------------------------------------
(* The environment.                                                        *)

GoesDown(s) ==
    /\ s \in up /\ outages < MaxOutages
    /\ up' = up \ {s}
    /\ outages' = outages + 1
    /\ UNCHANGED <<vars, lacks, upSince, outcome>>

Recovers(s) ==
    /\ s \notin up
    /\ up' = up \cup {s}
    /\ upSince' = [upSince EXCEPT ![s] = now]
    /\ UNCHANGED <<vars, lacks, outages, outcome>>

(* The registry.                                                           *)

Untouched == UNCHANGED <<serviceVars, outcome>>

\* The parts of a probe run at once and settle in any order, each with what
\* its service says at that time.
ProbeSettles(r, p) ==
    /\ probe[r] = "pending" /\ outcome[r][p] = "none"
    /\ outcome' = [outcome EXCEPT ![r][p] = ProbeOutcome(p, ServiceOf(p) \in up, lacks)]
    /\ UNCHANGED <<vars, serviceVars>>

\* Promise.allSettled
AllSettled(r) == \A p \in Probes : outcome[r][p] # "none"

\* With all parts settled the connector is built, whatever they say; it fails
\* only before, when the configuration is wrong.
Build(r) == AllSettled(r) /\ Resolve(r) /\ Untouched

BuildFails(r) ==
    /\ \A p \in Probes : outcome[r][p] = "none"
    /\ Reject(r) /\ Untouched

GetNewRegistry(r) == GetNew(r) /\ Untouched
GetSharedRegistry(r) == GetShared(r) /\ Untouched
ResetRegistry == Reset /\ Untouched
TimePasses == Tick /\ Untouched
Rest == Quiet /\ Untouched

-----------------------------------------------------------------------------
(* The tool calls.  They leave all of this alone.                          *)

HasRegistry(r) == joined[r] # None /\ probe[joined[r]] = "ok"

\* The code a call of a request is answered with at this time, "none" if the
\* service responds.
CodeOf(r, call) ==
    LET refusal == RefusalOf(call, outcome[joined[r]], lacks) IN
    IF refusal # "none" THEN refusal
    ELSE IF ServiceCalled(call) \notin up THEN "unavailable" ELSE "none"

ConnectedNext ==
    \/ \E s \in Services : GoesDown(s) \/ Recovers(s)
    \/ \E r \in Requests :
        \/ \E p \in Probes : ProbeSettles(r, p)
        \/ GetNewRegistry(r) \/ GetSharedRegistry(r) \/ Build(r) \/ BuildFails(r)
    \/ ResetRegistry \/ TimePasses \/ Rest

ConnectedSpec == ConnectedInit /\ [][ConnectedNext]_connectedVars

-----------------------------------------------------------------------------
(* Properties.                                                             *)

\* That something is not supported is only said of what the connected system
\* lacks, never for an outage, at the probe or at the call.
UnsupportedIsLacking ==
    \A r \in Requests, call \in Calls :
        HasRegistry(r) /\ CodeOf(r, call) = "unsupported" =>
            call = "find_conversation" \/ CapabilityOf(call) \in lacks

\* A call is unavailable only if the service it needs is, or the one behind
\* its capability was less than refreshMs before the request came: services
\* fail apart, and a recovered one is used again.
RecoverySeen ==
    \A r \in Requests, call \in Calls :
        HasRegistry(r) /\ CodeOf(r, call) = "unavailable" =>
            LET probed == ServiceOf(ProbeOf(CapabilityOf(call))) IN
            \/ {ServiceCalled(call), probed} \ up # {}
            \/ upSince[probed] > joinedAt[r] - RefreshMs

\* A call that is let through, on whatever connector the request has, asks for
\* something the system has, so that nothing found is not a feature lacking; and
\* it is answered with what is so, if the services keep to their contract:
\* nothing partial passes for whole, nor does something said of another message
\* or time, but for the empty timeline of no message (CompletePageIsWhole).
AnswersAreHonest ==
    \A r \in Requests, call \in Calls :
        HasRegistry(r) /\ CodeOf(r, call) = "none" =>
            /\ CapabilityOf(call) \notin lacks
            /\ call = "get_delivery_events" => CompletePageIsWhole
            /\ call = "get_connection_status" => PastIsLatest
            /\ call \in {"find_in_range", "find_user"} => UniqueIsOnly
            /\ FactsOfAsked
=============================================================================
