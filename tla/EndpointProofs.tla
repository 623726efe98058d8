--------------------------- MODULE EndpointProofs ---------------------------
(***************************************************************************)
(* The addresses that resolve_endpoints maintains stay recent while they   *)
(* can be resolved, and what check_proofs takes for fresh is, for any      *)
(* providers, addresses and bags and any TTL, interval, timeout and        *)
(* maximal age, whether or not the backend stores updated_at.              *)
(***************************************************************************)
EXTENDS CheckProofs, TLAPS

\* The derived times are what their names say.
LEMMA TimeFacts ==
  /\ Period \in Nat /\ Interval <= Period /\ Timeout <= Period
  /\ Renewal \in Nat /\ Renewal = EndpointTTL + Period + Timeout
  /\ AgeBound \in Nat /\ Renewal <= AgeBound
<1>1. Period \in Nat /\ Interval <= Period /\ Timeout <= Period
  BY EndpointsAssumption DEF Period, Greatest
<1>2. Renewal \in Nat /\ Renewal = EndpointTTL + Period + Timeout
  BY EndpointsAssumption, <1>1 DEF Renewal
<1>3. AgeBound \in Nat /\ Renewal <= AgeBound
  BY EndpointsAssumption, <1>2 DEF AgeBound, Greatest
<1> QED
  BY <1>1, <1>2, <1>3

\* Ages grow by one at most, in step, and a run's age never overtakes them.
LEMMA OlderFacts ==
  ASSUME NEW a \in Nat, NEW b \in Nat
  PROVE  /\ Older(a) \in Nat /\ Older(a) <= a + 1
         /\ a <= b => Older(a) <= Older(b)
         /\ a <= b /\ a < Timeout => a + 1 <= Older(b)
<1>1. AgeBound \in Nat /\ Timeout \in Nat /\ Timeout <= AgeBound
  BY TimeFacts, EndpointsAssumption
<1> QED
  BY <1>1 DEF Older

\* The invariant holds before anything is resolved.
LEMMA AgeInit == Init => AgeInv
<1> SUFFICES ASSUME Init PROVE AgeInv
  OBVIOUS
<1>1. upd \in [Providers -> Nat] /\ known \in [Providers -> Nat]
      /\ \A p \in Providers : known[p] <= upd[p] /\ ip[p] = NoIP
  BY TimeFacts DEF Init, EndpointInit, NoIPs
<1>2. /\ due \in Nat /\ due <= Period /\ rage \in Nat /\ rage <= Timeout
      /\ rpc = "idle" /\ rtodo = {} /\ found = {}
  BY TimeFacts, EndpointsAssumption DEF Init, EndpointInit
<1> QED
  BY <1>1, <1>2 DEF AgeInv

\* Steps that leave the addresses and resolve_endpoints alone keep it.
LEMMA AgeFrame ==
  ASSUME AgeInv, UNCHANGED <<ip, upd, known, resolveVars>>
  PROVE  AgeInv'
BY DEF AgeInv, resolveVars, Scheduled, Keys

\* Time passes only while no trigger is due and no run is at its limit.
LEMMA AgeTick ==
  ASSUME AgeInv, Tick
  PROVE  AgeInv'
<1> USE EndpointsAssumption, TimeFacts
<1>1. UNCHANGED <<ip, rpc, rtodo, found, failed>> /\ due' = due + 1
      /\ (rpc = "idle" => due < Interval /\ rage' = 0)
      /\ (rpc # "idle" => rage < Timeout /\ rage' = rage + 1 /\ due = rage)
  BY DEF Tick, AgeInv
<1>2. /\ upd' \in [Providers -> Nat]
      /\ \A p \in Providers : rpc # "idle" => rage' <= upd'[p]
  <2>1. ASSUME NEW p \in Providers
        PROVE  upd'[p] \in Nat /\ (rpc # "idle" => rage' <= upd'[p])
    <3>1. upd'[p] = Older(upd[p]) /\ upd[p] \in Nat /\ rage \in Nat
      BY DEF Tick, AgeInv
    <3>2. rpc # "idle" => rage <= upd[p]
      BY DEF AgeInv
    <3> QED
      BY <1>1, <3>1, <3>2, OlderFacts
  <2> QED
    BY <2>1 DEF Tick
<1>3. /\ known' \in [Providers -> Nat]
      /\ \A p \in Providers : known'[p] <= upd'[p] /\ known'[p] <= known[p] + 1
  <2>1. ASSUME NEW p \in Providers
        PROVE  known'[p] \in Nat /\ known'[p] <= upd'[p] /\ known'[p] <= known[p] + 1
    <3>1. /\ upd[p] \in Nat /\ known[p] \in Nat /\ known[p] <= upd[p]
          /\ upd'[p] = Older(upd[p])
          /\ known'[p] = IF ip[p] = NoIP THEN 0 ELSE Older(known[p])
      BY DEF Tick, AgeInv
    <3>2. /\ Older(upd[p]) \in Nat /\ Older(known[p]) \in Nat
          /\ Older(known[p]) <= Older(upd[p]) /\ Older(known[p]) <= known[p] + 1
      BY <3>1, OlderFacts
    <3>3. CASE ip[p] = NoIP
      BY <3>1, <3>2, <3>3
    <3>4. CASE ip[p] # NoIP
      BY <3>1, <3>2, <3>4
    <3> QED
      BY <3>3, <3>4
  <2> QED
    BY <2>1 DEF Tick
<1>4. due' \in Nat /\ due' <= Period /\ rage' \in Nat /\ rage' <= Timeout
      /\ (rpc # "idle" => due' = rage')
  <2>1. due \in Nat /\ rage \in Nat
    BY DEF AgeInv
  <2>2. CASE rpc = "idle"
    BY <1>1, <2>1, <2>2
  <2>3. CASE rpc # "idle"
    BY <1>1, <2>1, <2>3
  <2> QED
    BY <2>2, <2>3
<1>5. ASSUME NEW p \in Providers, ip'[p] # NoIP, p \notin failed'
      PROVE  \/ known'[p] < EndpointTTL + due'
             \/ Scheduled(p)' /\ known'[p] < EndpointTTL + Period + rage'
  <2>1. known[p] \in Nat /\ known'[p] \in Nat /\ known'[p] <= known[p] + 1
        /\ due \in Nat /\ rage \in Nat
    BY <1>3 DEF AgeInv
  <2>2. CASE known[p] < EndpointTTL + due
    BY <1>1, <2>1, <2>2
  <2>3. CASE Scheduled(p) /\ known[p] < EndpointTTL + Period + rage
    <3>1. rpc # "idle" /\ Scheduled(p)'
      BY <1>1, <2>3 DEF Scheduled, AgeInv, Keys
    <3> QED
      BY <1>1, <2>1, <2>3, <3>1
  <2> QED
    BY <1>1, <1>5, <2>2, <2>3 DEF AgeInv
<1>6. (rpc = "idle" => rtodo = {} /\ found = {}) /\ (rpc = "sent" => rtodo = {})
  BY DEF AgeInv
<1> HIDE EndpointsAssumption, TimeFacts
<1> QED
  BY <1>1, <1>2, <1>3, <1>4, <1>5, <1>6 DEF AgeInv

\* A run takes every row that has reached the TTL.
LEMMA AgeStart ==
  ASSUME AgeInv, ResolveStart
  PROVE  AgeInv'
<1> USE EndpointsAssumption, TimeFacts
<1>1. UNCHANGED <<ip, upd, known, failed>> /\ rpc = "idle"
      /\ due' = 0 /\ rage' = 0 /\ rpc' = "loop" /\ found' = {}
  BY DEF ResolveStart, rowVars
<1>2. ASSUME NEW p \in Providers, ip'[p] # NoIP, p \notin failed'
      PROVE  \/ known'[p] < EndpointTTL + due'
             \/ Scheduled(p)' /\ known'[p] < EndpointTTL + Period + rage'
  <2>1. known[p] \in Nat /\ upd[p] \in Nat /\ known[p] <= upd[p]
        /\ due \in Nat /\ due <= Period
    BY DEF AgeInv
  <2>2. known[p] < EndpointTTL + due
    BY <1>1, <1>2 DEF AgeInv, Scheduled, Keys
  <2>3. CASE Skip(p)
    BY <1>1, <2>1, <2>3 DEF Skip
  <2>4. CASE ~Skip(p)
    <3>1. Scheduled(p)'
      BY <2>4 DEF ResolveStart, Scheduled
    <3> QED
      BY <1>1, <2>1, <2>2, <3>1
  <2> QED
    BY <2>3, <2>4
<1>3. \A p \in Providers : rage' <= upd'[p]
  BY <1>1 DEF AgeInv
<1> QED
  BY <1>1, <1>2, <1>3 DEF AgeInv

\* A provider leaves the loop resolved or failed.
LEMMA AgeResolve ==
  ASSUME AgeInv, NEW q \in Providers, Resolve(q)
  PROVE  AgeInv'
<1>1. UNCHANGED <<ip, upd, known, due, rpc, rage>> /\ rpc = "loop" /\ rtodo' = rtodo \ {q}
  BY DEF Resolve, rowVars
<1>2. /\ Keys(found) \subseteq Keys(found') /\ failed \subseteq failed'
      /\ q \in failed' \/ q \in Keys(found')
  <2>1. PICK ep \in DHTResolve(q) :
          \/ ep.ip = NoIP /\ failed' = failed \cup {q} /\ found' = found
          \/ /\ ep.ip # NoIP /\ failed' = failed
             /\ \E s \in IF ep.storage THEN {TRUE} ELSE OverlayFinds(q) :
                  found' = found \cup {[key |-> q, ip |-> ep.ip, storage |-> s]}
    BY ZenonT(30) DEF Resolve
  <2>2. CASE ep.ip = NoIP
    BY <2>1, <2>2 DEF Keys
  <2>3. CASE ep.ip # NoIP
    <3>1. PICK s \in IF ep.storage THEN {TRUE} ELSE OverlayFinds(q) :
            found' = found \cup {[key |-> q, ip |-> ep.ip, storage |-> s]}
      BY ZenonT(30), <2>1, <2>3
    <3>2. [key |-> q, ip |-> ep.ip, storage |-> s] \in found' /\ found \subseteq found'
      BY <3>1
    <3>3. q \in Keys(found') /\ Keys(found) \subseteq Keys(found')
      BY <3>2 DEF Keys
    <3> QED
      BY ZenonT(30), <2>1, <2>3, <3>3
  <2> QED
    BY <2>2, <2>3
<1>3. ASSUME NEW p \in Providers, p \notin failed', Scheduled(p)
      PROVE  Scheduled(p)'
  BY <1>1, <1>2, <1>3 DEF Scheduled
<1> QED
  BY <1>1, <1>2, <1>3 DEF AgeInv

\* A run that publishes nothing leaves only failed providers behind.
LEMMA AgeFails ==
  ASSUME AgeInv, ResolveFails
  PROVE  AgeInv'
<1>1. UNCHANGED <<ip, upd, known, due>> /\ rpc' = "idle" /\ rage' = 0 /\ rtodo' = {} /\ found' = {}
  BY DEF ResolveFails, rowVars
<1>2. \A p \in Providers : p \notin failed' => p \notin failed /\ ~Scheduled(p)
  BY DEF ResolveFails, Scheduled, Keys
<1> QED
  BY EndpointsAssumption, <1>1, <1>2 DEF AgeInv

\* The applied addresses are as old as the run that found them, and the row was
\* there when that run began.
LEMMA AgeApply ==
  ASSUME AgeInv, ApplyEndpoints
  PROVE  AgeInv'
<1> USE EndpointsAssumption
<1>1. UNCHANGED <<due, rtodo>> /\ rpc = "sent" /\ rpc' = "idle" /\ rage' = 0 /\ found' = {}
      /\ rtodo = {} /\ due = rage /\ due \in Nat /\ due <= Period /\ rage \in Nat
  BY DEF ApplyEndpoints, AgeInv
<1>2. PICK stamp \in Stamps :
        upd' = [p \in Providers |-> IF stamp /\ p \in Keys(found) THEN rage ELSE upd[p]]
  BY DEF ApplyEndpoints
<1>3. known' = [p \in Providers |-> IF p \in Keys(found) THEN rage ELSE known[p]]
  BY DEF ApplyEndpoints
<1>4. \A p \in Providers : /\ upd[p] \in Nat /\ known[p] \in Nat
                            /\ known[p] <= upd[p] /\ rage <= upd[p]
  BY <1>1 DEF AgeInv
<1>5. upd' \in [Providers -> Nat] /\ known' \in [Providers -> Nat]
  BY <1>1, <1>2, <1>3, <1>4
<1>6. ASSUME NEW p \in Providers PROVE known'[p] <= upd'[p]
  <2>1. CASE p \in Keys(found)
    <3>1. known'[p] = rage /\ (upd'[p] = rage \/ upd'[p] = upd[p])
      BY <1>2, <1>3, <2>1
    <3> QED
      BY <1>1, <1>4, <3>1
  <2>2. CASE p \notin Keys(found)
    BY <1>2, <1>3, <1>4, <2>2
  <2> QED
    BY <2>1, <2>2
<1>7. ASSUME NEW p \in Providers, ip'[p] # NoIP, p \notin failed'
      PROVE  known'[p] < EndpointTTL + due'
  <2>1. CASE p \in Keys(found)
    BY <1>1, <1>3, <2>1
  <2>2. CASE p \notin Keys(found)
    <3>1. ip'[p] = ip[p] /\ known'[p] = known[p] /\ p \notin failed
      BY <1>7, <2>2 DEF ApplyEndpoints
    <3>2. ~Scheduled(p)
      BY <1>1, <2>2 DEF Scheduled
    <3> QED
      BY <1>1, <1>7, <3>1, <3>2 DEF AgeInv
  <2> QED
    BY <2>1, <2>2
<1> QED
  BY <1>1, <1>5, <1>6, <1>7 DEF AgeInv

\* Every step preserves the invariant.
LEMMA AgeStep == AgeInv /\ [Next]_vars => AgeInv'
<1> SUFFICES ASSUME AgeInv, [Next]_vars PROVE AgeInv'
  OBVIOUS
<1>1. CASE UNCHANGED vars
  BY <1>1, AgeFrame DEF vars, endpointVars, rowVars
<1>2. CASE Tick
  BY <1>2, AgeTick
<1>3. CASE ResolveStart
  BY <1>3, AgeStart
<1>4. ASSUME NEW p \in Providers, Resolve(p) PROVE AgeInv'
  BY <1>4, AgeResolve
<1>5. CASE ResolvePublish
  BY <1>5 DEF ResolvePublish, rowVars, AgeInv, Scheduled, Keys
<1>6. CASE ResolveFails
  BY <1>6, AgeFails
<1>7. CASE ApplyEndpoints
  BY <1>7, AgeApply
<1>8. ASSUME NEW p \in Providers, Move(p) \/ GetIPInfo(p) PROVE AgeInv'
  BY <1>8, AgeFrame DEF Move, GetIPInfo, rowVars
<1>9. CASE LookupStart \/ LookupPublish \/ LookupFails \/ ApplyInfo
  BY <1>9, AgeFrame DEF LookupStart, LookupPublish, LookupFails, ApplyInfo, rowVars
<1>10. CASE CheckStart \/ Cancel \/ Publish \/ Return
  BY <1>10, AgeFrame DEF CheckStart, Cancel, Publish, Return, endpointVars, rowVars
<1>11. ASSUME NEW p \in Providers, Begin(p) PROVE AgeInv'
  BY <1>11, AgeFrame DEF Begin, endpointVars, rowVars
<1>12. ASSUME NEW l \in loaded, Finish(l) PROVE AgeInv'
  BY <1>12, AgeFrame DEF Finish, endpointVars, rowVars
<1> QED
  BY <1>1, <1>2, <1>3, <1>4, <1>5, <1>6, <1>7, <1>8, <1>9, <1>10, <1>11, <1>12 DEF Next

\* The bound on the age of an address is an invariant of the cycles.
THEOREM Invariance == Spec => []AgeInv
BY AgeInit, AgeStep, PTL DEF Spec

\* While no attempt to resolve it fails, the address of a provider is never
\* older than a TTL, a period and a run of resolve_endpoints.
THEOREM StaysRecent == Spec => []AddressIsRecent
<1>1. AgeInv => AddressIsRecent
  <2> SUFFICES ASSUME AgeInv, NEW p \in Providers, ip[p] # NoIP, p \notin failed
               PROVE  known[p] < Renewal
    BY DEF AddressIsRecent
  <2>1. /\ known[p] \in Nat /\ due \in Nat /\ due <= Period
        /\ rage \in Nat /\ rage <= Timeout
    BY DEF AgeInv
  <2>2. known[p] < EndpointTTL + due \/ known[p] < EndpointTTL + Period + rage
    BY DEF AgeInv
  <2> QED
    BY <2>1, <2>2, TimeFacts, EndpointsAssumption
<1> QED
  BY <1>1, Invariance, PTL

\* What LoadFresh returns to check_proofs was found less than EndpointMaxAge
\* ago.
THEOREM FreshMeansRecent == Spec => []FreshIsRecent
<1>1. AgeInv => FreshIsRecent
  BY EndpointsAssumption DEF AgeInv, FreshIsRecent, Fresh
<1> QED
  BY <1>1, Invariance, PTL
=============================================================================
