----------------------------- MODULE CheckProofs -----------------------------
(***************************************************************************)
(* Proof.CheckStorageProofs (check_proofs) on top of the endpoints that    *)
(* resolve_endpoints maintains: one goroutine per provider, at most        *)
(* MaxConcurrentBags at a time, each loading the provider's endpoint and   *)
(* verifying its bags one by one.                                          *)
(***************************************************************************)
EXTENDS Endpoints, Sequences

CONSTANTS
  MaxConcurrentBags,  \* slots of the semaphore
  MaxBagsPerProvider, \* sample limit, 0 for none
  BagsSamplePercent,
  Outages,            \* per provider: the sets of stages that may fail
  MaxChecked          \* bound of the inputs of SkipsAfterRunOfFailures

ASSUME ChecksAssumption ==
  /\ MaxConcurrentBags \in Nat \ {0} /\ MaxBagsPerProvider \in Nat
  /\ BagsSamplePercent \in Nat /\ MaxChecked \in Nat
  /\ \A p \in Providers : Outages[p] # {} /\ IsFiniteSet(Bags[p])

VARIABLES
  cpc,       \* check_proofs: control point
  live,      \* its context is not done
  ctodo,     \* providers whose goroutine has not started
  loaded,    \* running goroutines: provider and what LoadFresh returned
  reasons,   \* per provider: the reasons appended, in the order of the bags
  cause      \* history: providers without a usable endpoint when it was loaded

checkVars == <<cpc, live, ctodo, loaded, reasons, cause>>
vars == <<endpointVars, checkVars>>

Valid == "ValidStorageProof"
\* The stages of Verify and checkPiece, by the reason each returns when it fails.
Stages == <<"CantCreatePeer", "FailedInitialPing", "UnknownPeer", "PingFailed", "InvalidBagID",
            "GetInfoFailed", "InvalidHeader", "CantGetPiece", "CantParseBoC", "ProofCheckFailed">>
Reasons == Range(Stages) \cup {Valid, "IPNotFound", "UnavailableProvider"}

CheckInit ==
  /\ cpc = "idle" /\ live = TRUE /\ ctodo = {} /\ loaded = {} /\ cause = {}
  /\ reasons = [p \in Providers |-> <<>>]

-----------------------------------------------------------------------------
\* What LoadFresh returns: the four address columns; no column holds the key of
\* the storage peer, so the field keeps its zero value.
None == [ok |-> FALSE, ip |-> FALSE, key |-> FALSE]
LoadFresh(p) == IF Fresh(p) THEN [ok |-> TRUE, ip |-> p \in storage, key |-> FALSE] ELSE None

\* checkPiece: the reason of the first stage that fails.
CheckPiece(bad) ==
  LET F == {i \in DOMAIN Stages : Stages[i] \in bad}
  IN  IF F = {} THEN Valid ELSE Stages[Min(F)]

Verify(ep, bad) == IF ~ep.ip \/ ~ep.key THEN "IPNotFound" ELSE CheckPiece(bad)

SampleSize(n) ==
  LET calc == (n * BagsSamplePercent) \div 100
  IN  IF MaxBagsPerProvider = 0 \/ n <= MaxBagsPerProvider THEN n
      ELSE IF BagsSamplePercent \in 1..99 /\ calc \in 1..(MaxBagsPerProvider - 1) THEN calc
      ELSE MaxBagsPerProvider

Threshold(n) == n \div 5

\* failsInARow before bag i, given what Verify says of every bag; a bag that is
\* skipped leaves it alone.
FaultyFailsInARow(verdicts, t) ==
  LET f[i \in 1..Len(verdicts)] ==
        IF i = 1 THEN 0
        ELSE IF verdicts[i - 1] = Valid THEN f[i - 1] ELSE f[i - 1] + 1
  IN  f
FailsInARow(verdicts, t) ==
  LET f[i \in 1..Len(verdicts)] ==
        IF i = 1 THEN 0
        ELSE IF t > 0 /\ f[i - 1] > t THEN f[i - 1]
        ELSE IF verdicts[i - 1] = Valid THEN 0 ELSE f[i - 1] + 1
  IN  f

\* The loop of checkProvider.
CheckBags(verdicts) ==
  LET t == Threshold(Len(verdicts))
  IN  [i \in 1..Len(verdicts) |->
         IF t > 0 /\ FailsInARow(verdicts, t)[i] > t THEN "UnavailableProvider" ELSE verdicts[i]]

Fill(n, r) == [i \in 1..n |-> r]

\* Faulty: without an endpoint only a sample of the bags is reported.
FaultyCheckProvider(p, ep, bad) ==
  LET n == SampleSize(Cardinality(Bags[p]))
  IN  IF ~ep.ok \/ ~ep.ip THEN Fill(n, "IPNotFound") ELSE CheckBags(Fill(n, Verify(ep, bad)))

CheckProvider(p, ep, bad) ==
  LET n == Cardinality(Bags[p])
  IN  IF ~ep.ok \/ ~ep.ip THEN Fill(n, "IPNotFound")
      ELSE CheckBags(Fill(SampleSize(n), Verify(ep, bad)))

-----------------------------------------------------------------------------
CheckStart ==
  /\ cpc = "idle"
  /\ cpc' = "loop" /\ live' = TRUE /\ ctodo' = Providers /\ loaded' = {} /\ cause' = {}
  /\ reasons' = [p \in Providers |-> <<>>]
  /\ UNCHANGED endpointVars

\* The deadline passes or the agent shuts down.
Cancel ==
  /\ cpc = "loop" /\ live
  /\ live' = FALSE
  /\ UNCHANGED <<endpointVars, cpc, ctodo, loaded, reasons, cause>>

\* A goroutine takes its slot and loads the endpoint; a query that fails counts
\* as no endpoint.
Running == {l.key : l \in loaded}
FaultyBegin(p) ==
  /\ cpc = "loop" /\ p \in ctodo
  /\ ctodo' = ctodo \ {p}
  /\ \E ep \in {LoadFresh(p), None} :
       /\ loaded' = loaded \cup {[key |-> p, ep |-> ep]}
       /\ cause' = IF ep.ok /\ ep.ip THEN cause ELSE cause \cup {p}
  /\ UNCHANGED <<endpointVars, cpc, live, reasons>>
Begin(p) ==
  /\ cpc = "loop" /\ p \in ctodo /\ Cardinality(loaded) < MaxConcurrentBags
  /\ ctodo' = ctodo \ {p}
  /\ \E ep \in {LoadFresh(p), None} :
       /\ loaded' = loaded \cup {[key |-> p, ep |-> ep]}
       /\ cause' = IF ep.ok /\ ep.ip THEN cause ELSE cause \cup {p}
  /\ UNCHANGED <<endpointVars, cpc, live, reasons>>

\* The bags are verified; once the context is done the loop stops early, and
\* whatever it has is appended.
Finish(l) ==
  /\ cpc = "loop" /\ l \in loaded
  /\ loaded' = loaded \ {l}
  /\ \E bad \in Outages[l.key] :
       LET full == CheckProvider(l.key, l.ep, bad)
       IN  \E n \in IF live \/ ~l.ep.ip THEN {Len(full)} ELSE 0..Len(full) :
             reasons' = [reasons EXCEPT ![l.key] = SubSeq(full, 1, n)]
  /\ UNCHANGED <<endpointVars, cpc, live, ctodo, cause>>

\* wg.Wait returns; a run whose context is done publishes nothing.
FaultyPublish ==
  /\ cpc = "loop" /\ loaded = {} /\ (ctodo = {} \/ ~live)
  /\ cpc' = "sent"
  /\ UNCHANGED <<endpointVars, live, ctodo, loaded, reasons, cause>>
Publish ==
  /\ cpc = "loop" /\ loaded = {} /\ ctodo = {} /\ live
  /\ cpc' = "sent"
  /\ UNCHANGED <<endpointVars, live, ctodo, loaded, reasons, cause>>

\* The run ends: its result is applied, its context was done, or the XADD fails.
Return ==
  /\ \/ cpc = "sent"
     \/ cpc = "loop" /\ loaded = {} /\ (~live \/ ctodo = {})
  /\ cpc' = "idle" /\ live' = TRUE /\ ctodo' = {} /\ cause' = {}
  /\ reasons' = [p \in Providers |-> <<>>]
  /\ UNCHANGED <<endpointVars, loaded>>

Init == EndpointInit /\ CheckInit
Next ==
  \/ Tick /\ UNCHANGED checkVars
  \/ \E p \in Providers : Move(p) /\ UNCHANGED checkVars
  \/ ResolveStart /\ UNCHANGED checkVars
  \/ \E p \in Providers : Resolve(p) /\ UNCHANGED checkVars
  \/ ResolvePublish /\ UNCHANGED checkVars
  \/ ResolveFails /\ UNCHANGED checkVars
  \/ ApplyEndpoints /\ UNCHANGED checkVars
  \/ LookupStart /\ UNCHANGED checkVars
  \/ \E p \in Providers : GetIPInfo(p) /\ UNCHANGED checkVars
  \/ LookupPublish /\ UNCHANGED checkVars
  \/ LookupFails /\ UNCHANGED checkVars
  \/ ApplyInfo /\ UNCHANGED checkVars
  \/ CheckStart
  \/ Cancel
  \/ \E p \in Providers : Begin(p)
  \/ \E l \in loaded : Finish(l)
  \/ Publish
  \/ Return
Spec == Init /\ [][Next]_vars

\* lookup_ipinfo is triggered over and over and its job is worked off.
FairSpec == Spec /\ WF_vars(LookupProgress /\ UNCHANGED checkVars)

-----------------------------------------------------------------------------
TypeOK ==
  /\ EndpointTypeOK
  /\ cpc \in {"idle", "loop", "sent"} /\ live \in BOOLEAN
  /\ ctodo \subseteq Providers /\ cause \subseteq Providers
  /\ loaded \subseteq [key : Providers, ep : [ok : BOOLEAN, ip : BOOLEAN, key : BOOLEAN]]
  /\ IsFiniteSet(loaded) /\ Cardinality(loaded) <= MaxConcurrentBags
  /\ reasons \in [Providers -> Seq(Reasons)]

\* A published result has a reason for every bag of a provider whose endpoint was
\* not usable when its goroutine loaded it, one for every sampled bag of any
\* other, and never what a goroutine had when its context was cut off.
Reported(p) ==
  LET n == Cardinality(Bags[p])
  IN  Len(reasons[p]) = IF p \in cause THEN n ELSE SampleSize(n)
ReasonsComplete == cpc = "sent" => \A p \in Providers : Reported(p)

\* The inductive form: while its context is alive, a run has for every provider
\* either a goroutine to start, or exactly one at work, or its reasons; what was
\* loaded is what the goroutine works with although the table moves on.
ChecksInv ==
  /\ cpc # "loop" => loaded = {}
  /\ ctodo \cap (Running \cup cause) = {}
  /\ \A k, l \in loaded : k.key = l.key => k = l
  /\ \A l \in loaded : l.key \in cause <=> ~(l.ep.ok /\ l.ep.ip)
  /\ cpc = "loop" /\ live => \A p \in Providers \ (ctodo \cup Running) : Reported(p)
  /\ ReasonsComplete

\* The reference for the loop over n bags: a bag is passed over when a run of
\* more than the threshold of failures lies before it.
LongRun(verdicts, t, i) ==
  \E j \in DOMAIN verdicts : j + t < i /\ \A k \in j..(j + t) : verdicts[k] # Valid
SkipsRight(n) ==
  \A verdicts \in [1..n -> {Valid, "PingFailed"}] :
    LET t == Threshold(n)
    IN  CheckBags(verdicts) =
          [i \in 1..n |-> IF t > 0 /\ LongRun(verdicts, t, i) THEN "UnavailableProvider"
                          ELSE verdicts[i]]
AllSkipsRight == \A n \in 0..MaxChecked : SkipsRight(n)

\* Whenever a goroutine is in checkProvider, and however many bags it has: it
\* writes UnavailableProvider for exactly the bags that follow a run of more
\* than the threshold of failures, whatever came before the run, and reports
\* every other bag as Verify does.
SkipsAfterRunOfFailures == loaded # {} => AllSkipsRight

\* The comment on Verify: it returns a ReasonCode, "including ValidStorageProof
\* on success"; so a provider with a fresh endpoint at which every stage
\* succeeds is reported as valid.
HealthyIsValid ==
  cpc = "sent" => \A p \in Providers :
    Outages[p] = {{}} /\ p \notin cause => Range(reasons[p]) = {Valid}
=============================================================================
