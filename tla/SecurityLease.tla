---------------------------- MODULE SecurityLease ----------------------------
(***************************************************************************)
(* A tenant's security settings and the activation leases of one of its    *)
(* machines (features/security/service.ts, lease.ts, lease-store.ts).      *)
(*                                                                         *)
(* Publishing reads the settings statement by statement, signs the rule    *)
(* bundle and then, in a transaction that has the settings lock for        *)
(* itself, reads again and writes.  A fetch reads settings and newest      *)
(* lease the same way, signs, and stores in a transaction that shares that *)
(* lock and has the machine's lock for itself.                             *)
(*                                                                         *)
(* The settings are their version and the monitor mode, the rules their    *)
(* version, the bundle its epoch.  Every server has the same clock.        *)
(***************************************************************************)
EXTENDS Naturals, Sequences

CONSTANTS
    Fetches,        \* GET /lease requests at the same time
    Publishers,     \* administrators and the settings CLI
    Reuse,          \* LEASE_REUSE_MS, in ticks
    Validity,       \* LEASE_VALIDITY_MS
    IssueAttempts,  \* LEASE_ISSUE_ATTEMPTS
    MaxTicks,       \* bound: the clock stops here
    MaxPublished,   \* bound: publications
    MaxLeases       \* bound: leases stored

ASSUME LeaseAssumption ==
    /\ Reuse \in Nat \ {0} /\ Validity \in Nat /\ Reuse <= Validity
    /\ IssueAttempts \in Nat \ {0}
    /\ MaxTicks \in Nat /\ MaxPublished \in Nat /\ MaxLeases \in Nat

VARIABLES
    ticks,          \* the clock
    policy,         \* the newest data settings, rule settings and bundle
    leases,         \* security_activation_leases of the machine, as stored
    fpc, fetch,     \* where a fetch is, and what it has read
    ppc, draft,     \* the same of a publisher
    published       \* publications so far

leaseVars == <<ticks, policy, leases, fpc, fetch, ppc, draft, published>>

NoBundle == 0
NoPolicy == [data |-> 0, mode |-> "off", rules |-> 0, epoch |-> NoBundle]
NoLease == [issued |-> 0, data |-> 0, mode |-> "none", epoch |-> NoBundle]
NoFetch == [at |-> 0, tries |-> 0, fresh |-> FALSE, seen |-> NoPolicy, lease |-> NoLease]

LeaseInit ==
    /\ ticks = 0
    /\ policy = NoPolicy
    /\ leases = <<>>
    /\ fpc = [f \in Fetches |-> "idle"] /\ fetch = [f \in Fetches |-> NoFetch]
    /\ ppc = [a \in Publishers |-> "idle"] /\ draft = [a \in Publishers |-> NoPolicy]
    /\ published = 0

LeaseTick ==
    /\ ticks < MaxTicks
    /\ ticks' = ticks + 1
    /\ UNCHANGED <<policy, leases, fpc, fetch, ppc, draft, published>>

----------------------------------------------------------------------------
(* Publishing.                                                             *)

PublisherGoes(a, where, what) ==
    /\ ppc' = [ppc EXCEPT ![a] = where]
    /\ draft' = [draft EXCEPT ![a] = what]
    /\ UNCHANGED <<ticks, leases>>

\* readSecuritySettings: three statements, each of its own moment.
ReadRules(a) ==
    /\ ppc[a] = "idle" /\ published < MaxPublished
    /\ PublisherGoes(a, "data", [NoPolicy EXCEPT !.rules = policy.rules])
    /\ UNCHANGED <<policy, fpc, fetch, published>>

ReadData(a) ==
    /\ ppc[a] = "data"
    /\ PublisherGoes(a, "bundle",
           [draft[a] EXCEPT !.data = policy.data, !.mode = policy.mode])
    /\ UNCHANGED <<policy, fpc, fetch, published>>

ReadBundle(a) ==
    /\ ppc[a] = "bundle"
    /\ PublisherGoes(a, "signing", [draft[a] EXCEPT !.epoch = policy.epoch])
    /\ UNCHANGED <<policy, fpc, fetch, published>>

Other(mode) == IF mode = "off" THEN "monitor" ELSE "off"

\* What a change makes of the settings it was planned on: the rules change, or
\* the data settings, or the monitor is switched, which makes the first bundle
\* when there is none.
Planned(p) ==
    {[p EXCEPT !.rules = @ + 1, !.epoch = @ + 1],
     [p EXCEPT !.data = @ + 1],
     IF Other(p.mode) = "monitor" /\ p.epoch = NoBundle
     THEN [data |-> p.data + 1, mode |-> "monitor",
           rules |-> IF p.rules = 0 THEN 1 ELSE p.rules, epoch |-> 1]
     ELSE [p EXCEPT !.data = @ + 1, !.mode = Other(p.mode)]}

\* The transaction; a fetch that began before it no longer is a fresh one.
Apply(a) ==
    /\ ppc[a] = "signing"
    /\ published < MaxPublished
    /\ draft[a] = policy
    /\ policy' \in Planned(policy)
    /\ published' = published + 1
    /\ fetch' = [f \in Fetches |-> [fetch[f] EXCEPT !.fresh = FALSE]]
    /\ PublisherGoes(a, "idle", NoPolicy)
    /\ UNCHANGED fpc

\* Signing fails, or another publication landed after the plan.
PublishFails(a) ==
    /\ ppc[a] = "signing"
    /\ PublisherGoes(a, "idle", NoPolicy)
    /\ UNCHANGED <<policy, fpc, fetch, published>>

----------------------------------------------------------------------------
(* Fetching a lease.                                                       *)

FetchGoes(f, where, what) ==
    /\ fpc' = [fpc EXCEPT ![f] = where]
    /\ fetch' = [fetch EXCEPT ![f] = what]
    /\ UNCHANGED <<ticks, policy, ppc, draft, published>>

FetchEnds(f) == FetchGoes(f, "idle", NoFetch)
Serve(f, lease) == FetchGoes(f, "served", [fetch[f] EXCEPT !.lease = lease])

\* The clock is read once, for all attempts.  (A machine that is not active is
\* refused here.)
BeginFetch(f) ==
    /\ fpc[f] = "idle"
    /\ FetchGoes(f, "data", [NoFetch EXCEPT !.at = ticks, !.fresh = TRUE])
    /\ UNCHANGED leases

\* issuanceState: two statements.
SeeData(f) ==
    /\ fpc[f] = "data"
    /\ FetchGoes(f, "bundle",
           [fetch[f] EXCEPT !.seen.data = policy.data, !.seen.mode = policy.mode])
    /\ UNCHANGED leases

SeeBundle(f) ==
    /\ fpc[f] = "bundle"
    /\ IF policy.epoch = NoBundle THEN FetchEnds(f)
       ELSE FetchGoes(f, "newest", [fetch[f] EXCEPT !.seen.epoch = policy.epoch])
    /\ UNCHANGED leases

\* The newest by time of issue; of the same time, any.
Newest1(ls) ==
    {ls[i] : i \in {j \in 1..Len(ls) : \A k \in 1..Len(ls) : ls[k].issued <= ls[j].issued}}

SameState(x, y) == x.data = y.data /\ x.mode = y.mode /\ x.epoch = y.epoch

\* Mutant: a lease in its time is served, whatever it was issued for.
ReusableByAge(lease, state, at) ==
    at >= lease.issued /\ at - lease.issued < Reuse

Reusable(lease, state, at) ==
    /\ at >= lease.issued /\ at - lease.issued < Reuse
    /\ at < lease.issued + Validity
    /\ SameState(lease, state)

SeeNewest(f) ==
    /\ fpc[f] = "newest"
    /\ \/ \E lease \in Newest1(leases) :
             Reusable(lease, fetch[f].seen, fetch[f].at) /\ Serve(f, lease)
       \/ /\ Newest1(leases) = {} \/ \E lease \in Newest1(leases) :
                ~Reusable(lease, fetch[f].seen, fetch[f].at)
          /\ FetchGoes(f, "signing", fetch[f])
    /\ UNCHANGED leases

\* Mutant: what was signed is stored without another look at the settings.
AnyState(x, y) == TRUE

\* The state a lease was signed for is still the tenant's state.
SameIssuanceState(x, y) == SameState(x, y)

\* Mutant: a lease stored meanwhile is not looked at.
NeverServed(lease, f) == FALSE

\* A lease stored meanwhile is served when it is reusable or newer.
ServedInstead(lease, f) ==
    lease.issued > fetch[f].at \/ Reusable(lease, policy, fetch[f].at)

\* insertLease
StoreLease(f) ==
    /\ fpc[f] = "signing"
    /\ SameIssuanceState(fetch[f].seen, policy)
    /\ \/ \E lease \in Newest1(leases) :
             ServedInstead(lease, f) /\ Serve(f, lease) /\ UNCHANGED leases
       \/ /\ Newest1(leases) = {} \/ \E lease \in Newest1(leases) : ~ServedInstead(lease, f)
          /\ Len(leases) < MaxLeases
          /\ LET new == [issued |-> fetch[f].at, data |-> fetch[f].seen.data,
                         mode |-> fetch[f].seen.mode, epoch |-> fetch[f].seen.epoch]
             IN leases' = Append(leases, new) /\ Serve(f, new)

\* The settings moved: another attempt, while there is one.
Restart(f) ==
    /\ fpc[f] = "signing"
    /\ ~SameIssuanceState(fetch[f].seen, policy)
    /\ IF fetch[f].tries + 1 < IssueAttempts
       THEN FetchGoes(f, "data", [fetch[f] EXCEPT !.tries = @ + 1])
       ELSE FetchEnds(f)
    /\ UNCHANGED leases

\* No signature, no database, or answered.
EndFetch(f) ==
    /\ fpc[f] \in {"signing", "served"}
    /\ FetchEnds(f)
    /\ UNCHANGED leases

LeaseNext ==
    \/ LeaseTick
    \/ \E a \in Publishers :
          ReadRules(a) \/ ReadData(a) \/ ReadBundle(a) \/ Apply(a) \/ PublishFails(a)
    \/ \E f \in Fetches :
          \/ BeginFetch(f) \/ SeeData(f) \/ SeeBundle(f) \/ SeeNewest(f)
          \/ StoreLease(f) \/ Restart(f) \/ EndFetch(f)

LeaseSpec == LeaseInit /\ [][LeaseNext]_leaseVars

----------------------------------------------------------------------------
(* A fetch that begins after a publication is served a lease for what was    *)
(* published: no reused, raced or slowly signed lease keeps a monitor on     *)
(* that has been switched off.                                               *)
ServedIsCurrent ==
    \A f \in Fetches :
        fpc[f] = "served" /\ fetch[f].fresh => SameState(fetch[f].lease, policy)

(* The leases of a machine are stored in the order of the settings they were *)
(* issued for and of their times: the newest by time is the newest by        *)
(* settings, whatever a fetch had read before it signed.                     *)
StoredInOrder ==
    \A i, j \in 1..Len(leases) : i < j =>
        /\ leases[i].issued <= leases[j].issued
        /\ leases[i].data <= leases[j].data /\ leases[i].epoch <= leases[j].epoch

(* Fetches at the same time do not each store a lease: two leases for the    *)
(* same settings are the time of reuse apart, but where a lease for earlier  *)
(* settings was issued at the very time of the first: which of the two is    *)
(* the newest is then left to their ids.                                     *)
NoTwinLeases ==
    \A i, j \in 1..Len(leases) :
        i < j /\ SameState(leases[i], leases[j]) =>
            \/ leases[i].issued + Reuse <= leases[j].issued
            \/ \E k \in 1..(i - 1) :
                   leases[k].issued = leases[i].issued /\ ~SameState(leases[k], leases[i])
============================================================================
