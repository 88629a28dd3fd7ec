---------------------------- MODULE ProviderHealth ----------------------------
(***************************************************************************)
(* What admits a run of the Agent: the probe that samples the provider      *)
(* beside the worker's job loop, the internal route that takes its reports, *)
(* the one row that keeps them and the check a new run must pass.           *)
(***************************************************************************)
EXTENDS Naturals

CONSTANTS
    Manifests,  \* digests of reviewed manifests of one provider id
    First,      \* the manifest the deployment starts with
    FreshFor,   \* how long a sample stays fresh (30 s)
    Ahead,      \* how far ahead a sample may be (5 s)
    Lifetime,   \* of the assertion a report is signed with (30 s)
    Skews,      \* how far the worker's clock may be ahead of the server's
    MaxClock,   \* bound: the server's clock
    MaxProbes,  \* bound: samples taken
    MaxAdmitted \* bound: runs created

ASSUME ProviderAssumption ==
    /\ First \in Manifests
    /\ FreshFor \in Nat /\ Ahead \in Nat /\ Lifetime \in Nat /\ Skews \subseteq Nat
    /\ MaxClock \in Nat /\ MaxProbes \in Nat /\ MaxAdmitted \in Nat

VARIABLES
    clock,      \* the server's clock
    approved,   \* the manifest the server and the worker have loaded
    probed,     \* samples taken by the worker
    wire,       \* samples posted and not yet received
    row,        \* agent_provider_health: {} or the one row of the provider
    newest,     \* history: of each manifest, the latest sample the route let through
    admitted    \* runs created

providerVars == <<clock, approved, probed, wire, row, newest, admitted>>

Healths == {"healthy", "degraded", "unavailable"}

ProviderInit ==
    /\ clock = 0 /\ approved = First
    /\ probed = 0 /\ wire = {} /\ row = {}
    /\ newest = [m \in Manifests |-> {}]
    /\ admitted = 0

ClockTicks == /\ clock < MaxClock /\ clock' = clock + 1
              /\ UNCHANGED <<approved, probed, wire, row, newest, admitted>>

\* sample_provider_health and report_provider_health: only the probe says
\* "healthy", anything that goes wrong is "unavailable".  A report that timed
\* out may still arrive, after the ones that follow it, or never.
Probe(h, ahead) ==
    /\ probed < MaxProbes
    /\ probed' = probed + 1
    /\ wire' = wire \cup {[at |-> clock + ahead, health |-> h, manifest |-> approved]}
    /\ UNCHANGED <<clock, approved, row, newest, admitted>>

\* A faulty Upsert: an older sample replaces a newer one.
UpsertAnyOrder(s) == IF \A r \in row : r.manifest = s.manifest THEN {s} ELSE row

\* upsert: one row per provider, replaced only by a newer sample of its manifest.
Upsert(s) == IF \A r \in row : r.manifest = s.manifest /\ r.at < s.at THEN {s} ELSE row

\* authorizeProviderHealthAssertion: signed no later than now, and not expired.
Authorized(s) == s.at <= clock /\ clock <= s.at + Lifetime

\* InternalProviderHealthRoute.handle: another scope, a time too far ahead or an
\* assertion that does not hold is refused before the repository is asked.
ReceiveSample(s) ==
    LET taken == s.manifest = approved /\ s.at <= clock + Ahead /\ Authorized(s)
    IN  /\ s \in wire
        /\ wire' = wire \ {s}
        /\ row' = IF taken THEN Upsert(s) ELSE row
        /\ newest' = IF taken /\ \A n \in newest[approved] : n.at < s.at
                     THEN [newest EXCEPT ![approved] = {s}] ELSE newest
        /\ UNCHANGED <<clock, approved, probed, admitted>>

\* loadAgentProviderScope: server and worker are restarted with another
\* reviewed manifest of the same provider.
Redeploy(m) ==
    /\ m # approved
    /\ approved' = m
    /\ UNCHANGED <<clock, probed, wire, row, newest, admitted>>

\* current: the row of this manifest while it is fresh and not from the future.
ServiceHealth ==
    IF \E r \in row : /\ r.manifest = approved
                      /\ clock <= r.at + FreshFor /\ r.at <= clock + Ahead
    THEN (CHOOSE r \in row : TRUE).health
    ELSE "unavailable"

\* AgentService.request as far as health goes: in the transaction that creates
\* the run, with the row held.  A refusal changes nothing.
Admit ==
    /\ admitted < MaxAdmitted
    /\ ServiceHealth = "healthy"
    /\ admitted' = admitted + 1
    /\ UNCHANGED <<clock, approved, probed, wire, row, newest>>

ProviderNext ==
    \/ ClockTicks
    \/ \E h \in Healths, k \in Skews : Probe(h, k)
    \/ \E s \in wire : ReceiveSample(s)
    \/ \E m \in Manifests : Redeploy(m)
    \/ Admit

ProviderSpec == ProviderInit /\ [][ProviderNext]_providerVars

-----------------------------------------------------------------------------
(* Properties *)

\* Reports that time out, arrive late, out of order, or from before a
\* redeployment never reopen the door: a run is created only while the newest
\* report about the approved manifest says healthy and is fresh (request,
\* upsert, current).
AdmittedHealthy ==
    [][admitted' > admitted =>
          \E s \in newest[approved] :
             s.health = "healthy" /\ clock <= s.at + FreshFor]_providerVars

\* "Repository upsert accepts only newer `checkedAt`": the newest report about
\* the approved manifest is the one the row holds.
\* The code does not keep this: see the observations in README.md.
NewestIsKept == newest[approved] # {} => row = newest[approved]

=============================================================================
