------------------------- MODULE CheckProofsProofs -------------------------
(***************************************************************************)
(* What check_proofs reports, for any providers, bags, sample sizes and    *)
(* outages: the loop of checkProvider passes over exactly the bags behind  *)
(* a long run of failures, and a published result is complete.             *)
(***************************************************************************)
EXTENDS CheckProofs, NatOrder

-----------------------------------------------------------------------------
\* The loop of checkProvider.

\* m is the last bag before i that verified, 0 when there is none.
LastValid(v, i, m) ==
  /\ m \in 0..(i - 1)
  /\ m > 0 => v[m] = Valid
  /\ \A k \in (m + 1)..(i - 1) : v[k] # Valid

\* There is such a bag.
LEMMA LastValidExists ==
  ASSUME NEW n \in Nat, NEW v, NEW i \in 1..n
  PROVE  \E m \in Nat : LastValid(v, i, m)
<1> DEFINE S == {k \in 0..(i - 1) : k > 0 => v[k] = Valid}
<1>1. i - 1 \in Nat /\ S \in SUBSET (0..(i - 1)) /\ 0 \in S
  OBVIOUS
<1>2. PICK m \in S : \A k \in S : k <= m
  <2> HIDE DEF S
  <2> QED
    BY ZenonT(30), <1>1, GreatestNat
<1>3. \A k \in (m + 1)..(i - 1) : v[k] # Valid
  BY <1>2
<1> QED
  BY <1>2, <1>3 DEF LastValid

\* The failures in a row before bag i, without recursion: the distance to the
\* last bag that verified, and t + 1 once there was a run of that length.
InARow(v, t, i) ==
  IF LongRun(v, t, i) THEN t + 1
  ELSE i - 1 - (CHOOSE m \in Nat : LastValid(v, i, m))

\* Without a long run before bag i the last valid bag is near.
LEMMA InARowFacts ==
  ASSUME NEW n \in Nat, NEW v, DOMAIN v = 1..n, NEW t \in Nat \ {0}, NEW i \in 1..n
  PROVE  /\ LongRun(v, t, i) => InARow(v, t, i) = t + 1
         /\ ~LongRun(v, t, i) =>
              \E m \in Nat : LastValid(v, i, m) /\ InARow(v, t, i) = i - 1 - m
                             /\ i - 1 - m <= t
<1>1. PICK m \in Nat : m = CHOOSE k \in Nat : LastValid(v, i, k)
  BY LastValidExists
<1>2. LastValid(v, i, m)
  BY ZenonT(30), <1>1, LastValidExists
<1>3. ASSUME ~LongRun(v, t, i) PROVE i - 1 - m <= t
  <2> SUFFICES ASSUME m + 1 + t < i PROVE FALSE
    BY <1>2 DEF LastValid
  <2>1. m + 1 \in DOMAIN v /\ (m + 1)..(m + 1 + t) \subseteq (m + 1)..(i - 1)
    BY <1>2 DEF LastValid
  <2> QED
    BY ZenonT(30), <1>2, <1>3, <2>1 DEF LastValid, LongRun
<1> QED
  BY ZenonT(30), <1>1, <1>2, <1>3 DEF InARow

\* It meets the equations of the loop's counter failsInARow (proof.go:193-221).
LEMMA InARowStep ==
  ASSUME NEW n \in Nat, NEW v, DOMAIN v = 1..n, NEW t \in Nat \ {0}, NEW i \in 1..n
  PROVE  InARow(v, t, i) =
           IF i = 1 THEN 0
           ELSE IF InARow(v, t, i - 1) > t THEN InARow(v, t, i - 1)
           ELSE IF v[i - 1] = Valid THEN 0 ELSE InARow(v, t, i - 1) + 1
<1>1. CASE i = 1
  <2>1. ~LongRun(v, t, i)
    BY <1>1 DEF LongRun
  <2>2. PICK m \in Nat : LastValid(v, i, m) /\ InARow(v, t, i) = i - 1 - m
    BY <2>1, InARowFacts
  <2> QED
    BY <1>1, <2>2 DEF LastValid
<1>2. CASE i # 1
  <2>0. i - 1 \in 1..n
    BY <1>2
  <2>1. CASE LongRun(v, t, i - 1)
    <3>1. LongRun(v, t, i)
      BY <2>1 DEF LongRun
    <3> QED
      BY <1>2, <2>0, <2>1, <3>1, InARowFacts
  <2>2. CASE ~LongRun(v, t, i - 1)
    <3>1. PICK m \in Nat : LastValid(v, i - 1, m) /\ InARow(v, t, i - 1) = i - 1 - 1 - m
                           /\ i - 1 - 1 - m <= t
      BY ZenonT(30), <2>0, <2>2, InARowFacts
    <3>2. ASSUME LongRun(v, t, i)
          PROVE  i - 1 - t \in 1..n /\ \A k \in (i - 1 - t)..(i - 1) : v[k] # Valid
      <4>1. PICK j \in 1..n : j + t < i /\ \A k \in j..(j + t) : v[k] # Valid
        BY ZenonT(30), <3>2 DEF LongRun
      <4>2. j + t = i - 1
        <5> SUFFICES ASSUME j + t < i - 1 PROVE FALSE
          BY <4>1
        <5>1. j \in DOMAIN v
          BY <4>1
        <5>2. LongRun(v, t, i - 1)
          BY ZenonT(30), <4>1, <5>1 DEF LongRun
        <5> QED
          BY <2>2, <5>2
      <4>3. j = i - 1 - t
        BY <4>2
      <4> QED
        BY <4>1, <4>2, <4>3
    <3>3. CASE v[i - 1] = Valid
      <4>1. ~LongRun(v, t, i)
        BY <3>2, <3>3
      <4>2. PICK q \in Nat : LastValid(v, i, q) /\ InARow(v, t, i) = i - 1 - q
        BY <4>1, InARowFacts
      <4>3. q = i - 1
        BY <2>0, <3>3, <4>2 DEF LastValid
      <4> QED
        BY <1>2, <3>1, <3>3, <4>2, <4>3
    <3>4. CASE v[i - 1] # Valid
      <4>1. LastValid(v, i, m)
        BY <2>0, <3>1, <3>4 DEF LastValid
      <4>2. CASE LongRun(v, t, i)
        <5>1. m < i - 1 - t
          BY <2>0, <3>1, <3>2, <4>1, <4>2 DEF LastValid
        <5>2. InARow(v, t, i) = t + 1
          BY <4>2, InARowFacts
        <5> QED
          BY <1>2, <3>1, <3>4, <5>1, <5>2
      <4>3. CASE ~LongRun(v, t, i)
        <5>1. PICK q \in Nat : LastValid(v, i, q) /\ InARow(v, t, i) = i - 1 - q
          BY <4>3, InARowFacts
        <5>2. q = m
          BY <4>1, <5>1 DEF LastValid
        <5> QED
          BY <1>2, <3>1, <3>4, <5>1, <5>2
      <4> QED
        BY <4>2, <4>3
    <3> QED
      BY <3>3, <3>4
  <2> QED
    BY <2>1, <2>2
<1> QED
  BY <1>1, <1>2

\* The counter of the loop is that number: there is a function that meets the
\* equations, and two that do cannot differ first at any bag.
LEMMA CounterIsInARow ==
  ASSUME NEW n \in Nat, NEW v, DOMAIN v = 1..n, Len(v) = n, NEW t \in Nat \ {0}
  PROVE  FailsInARow(v, t) = [i \in 1..n |-> InARow(v, t, i)]
<1> DEFINE Body(f, i) == IF i = 1 THEN 0
                         ELSE IF t > 0 /\ f[i - 1] > t THEN f[i - 1]
                         ELSE IF v[i - 1] = Valid THEN 0 ELSE f[i - 1] + 1
           g == [i \in 1..n |-> InARow(v, t, i)]
           f == FailsInARow(v, t)
<1>1. g = [i \in 1..n |-> Body(g, i)]
  <2>1. ASSUME NEW i \in 1..n PROVE InARow(v, t, i) = Body(g, i)
    <3>1. i # 1 => g[i - 1] = InARow(v, t, i - 1)
      OBVIOUS
    <3> HIDE DEF g
    <3> QED
      BY <3>1, InARowStep
  <2> QED
    BY <2>1
<1>2. f = CHOOSE h : h = [i \in 1..n |-> Body(h, i)]
  BY DEF FailsInARow
<1>3. f = [i \in 1..n |-> Body(f, i)]
  <2> HIDE DEF f, g
  <2> QED
    BY ZenonT(30), <1>1, <1>2
<1> HIDE DEF f
<1> DEFINE D == {i \in 1..n : f[i] # g[i]}
<1>4. D = {}
  <2> SUFFICES ASSUME D # {} PROVE FALSE
    OBVIOUS
  <2>1. PICK i \in D : \A j \in D : i <= j
    <3>1. D \in SUBSET Nat
      OBVIOUS
    <3> HIDE DEF D
    <3> QED
      BY <3>1, LeastNat
  <2>2. f[i] = Body(f, i) /\ g[i] = Body(g, i) /\ i \in 1..n
    <3> HIDE DEF Body, g
    <3> QED
      BY ZenonT(30), <1>1, <1>3, <2>1
  <2>3. i # 1 => f[i - 1] = g[i - 1]
    <3> HIDE DEF g
    <3> QED
      BY <2>1
  <2>4. f[i] = g[i]
    <3> HIDE DEF g
    <3> QED
      BY <2>2, <2>3
  <2> QED
    BY <2>1, <2>4
<1>5. DOMAIN f = 1..n /\ f = [i \in 1..n |-> f[i]]
  <2> HIDE DEF Body
  <2> QED
    BY <1>3
<1>6. \A i \in 1..n : f[i] = g[i]
  BY ZenonT(30), <1>4
<1>7. f = g
  BY <1>5, <1>6
<1> QED
  BY <1>7 DEF f

\* The loop of checkProvider passes over exactly the bags that follow a run of
\* more than the threshold of failures, whatever Verify says of the bags.
THEOREM LoopIsRight ==
  ASSUME NEW n \in Nat, NEW v, DOMAIN v = 1..n, Len(v) = n
  PROVE  CheckBags(v) =
           [i \in 1..n |-> IF Threshold(n) > 0 /\ LongRun(v, Threshold(n), i)
                           THEN "UnavailableProvider" ELSE v[i]]
<1>1. PICK t \in Nat : t = Threshold(n)
  BY DEF Threshold
<1>2. ASSUME t > 0, NEW i \in 1..n
      PROVE  FailsInARow(v, t)[i] > t <=> LongRun(v, t, i)
  <2>1. FailsInARow(v, t)[i] = InARow(v, t, i)
    BY <1>2, CounterIsInARow
  <2>2. t \in Nat \ {0}
    BY <1>2
  <2>3. CASE LongRun(v, t, i)
    BY <2>1, <2>2, <2>3, InARowFacts
  <2>4. CASE ~LongRun(v, t, i)
    <3>1. PICK m \in Nat : InARow(v, t, i) = i - 1 - m /\ i - 1 - m <= t
      BY <2>2, <2>4, InARowFacts
    <3> QED
      BY <2>1, <2>4, <3>1
  <2> QED
    BY <2>3, <2>4
<1>3. CheckBags(v) = [i \in 1..n |-> IF t > 0 /\ FailsInARow(v, t)[i] > t
                                     THEN "UnavailableProvider" ELSE v[i]]
  BY <1>1 DEF CheckBags
<1>4. CASE t > 0
  BY <1>1, <1>2, <1>3, <1>4
<1>5. CASE ~(t > 0)
  BY <1>1, <1>3, <1>5
<1> QED
  BY <1>4, <1>5

\* However many bags a provider has, checkProvider reports UnavailableProvider
\* for exactly the bags behind a run of more than a fifth of them that failed
\* (proof.go:185-222), for any bound on the number of bags.
THEOREM SkipsRightly == Spec => []SkipsAfterRunOfFailures
<1>1. ASSUME NEW n \in Nat PROVE SkipsRight(n)
  <2> SUFFICES ASSUME NEW v \in [1..n -> {Valid, "PingFailed"}]
               PROVE  CheckBags(v) =
                        [i \in 1..n |-> IF Threshold(n) > 0 /\ LongRun(v, Threshold(n), i)
                                        THEN "UnavailableProvider" ELSE v[i]]
    BY DEF SkipsRight
  <2>1. DOMAIN v = 1..n /\ Len(v) = n
    OBVIOUS
  <2> QED
    BY <2>1, LoopIsRight
<1>2. SkipsAfterRunOfFailures
  BY <1>1, ChecksAssumption DEF SkipsAfterRunOfFailures, AllSkipsRight
<1> QED
  BY <1>2, PTL


-----------------------------------------------------------------------------
\* Type correctness.

\* No run outlasts the age from which on ages are not told apart.
LEMMA AgeBoundType == AgeBound \in Nat /\ Timeout <= AgeBound
<1>1. Period \in Nat
  BY EndpointsAssumption DEF Period, Greatest
<1>2. Renewal \in Nat /\ Timeout <= Renewal
  BY EndpointsAssumption, <1>1 DEF Renewal
<1> QED
  BY EndpointsAssumption, <1>2 DEF AgeBound, Greatest

\* The steps of resolve_endpoints, of lookup_ipinfo and of time keep the types
\* of the providers table and of both runs.
LEMMA EndpointTypeStep ==
  ASSUME EndpointTypeOK,
         \/ Tick \/ ResolveStart \/ ResolvePublish \/ ResolveFails \/ ApplyEndpoints
         \/ LookupStart \/ LookupPublish \/ LookupFails \/ ApplyInfo
         \/ \E p \in Providers : Move(p) \/ Resolve(p) \/ GetIPInfo(p)
         \/ UNCHANGED endpointVars
  PROVE  EndpointTypeOK'
<1> USE EndpointsAssumption DEF worldVars, rowVars, resolveVars, lookupVars, NoIPs
<1>1. CASE Tick
  <2>1. due' \in Nat /\ rage' \in 0..Timeout
    BY <1>1 DEF Tick, EndpointTypeOK
  <2>2. \A p \in Providers : Older(upd[p]) \in Ages /\ Older(known[p]) \in Ages
    BY AgeBoundType DEF Older, Ages, EndpointTypeOK
  <2>3. upd' \in [Providers -> Ages] /\ known' \in [Providers -> Ages]
    BY <1>1, <2>2, AgeBoundType DEF Tick, Ages
  <2> QED
    BY <1>1, <2>1, <2>3 DEF Tick, EndpointTypeOK
<1>2. CASE ResolveStart \/ ResolvePublish
  BY <1>2 DEF ResolveStart, ResolvePublish, EndpointTypeOK
<1>3. CASE ResolveFails
  BY <1>3 DEF ResolveFails, EndpointTypeOK
<1>4. CASE ApplyEndpoints
  <2>1. ASSUME NEW p \in Keys(found) PROVE (CHOOSE e \in found : e.key = p).ip \in IPs
    <3>1. \E e \in found : e.key = p
      BY DEF Keys
    <3>2. (CHOOSE e \in found : e.key = p) \in found
      BY <3>1
    <3> QED
      BY <3>2 DEF EndpointTypeOK
  <2>2. ip' \in [Providers -> IPs \cup {NoIP}]
    BY <1>4, <2>1 DEF ApplyEndpoints, EndpointTypeOK
  <2>3. rage \in Ages
    BY AgeBoundType DEF EndpointTypeOK, Ages
  <2>4. upd' \in [Providers -> Ages] /\ known' \in [Providers -> Ages]
    BY <1>4, <2>3 DEF ApplyEndpoints, EndpointTypeOK
  <2>5. storage' \subseteq Providers /\ failed' \subseteq Providers
    BY <1>4 DEF ApplyEndpoints, EndpointTypeOK, Keys
  <2> QED
    BY <1>4, <2>2, <2>4, <2>5 DEF ApplyEndpoints, EndpointTypeOK
<1>5. CASE LookupStart \/ LookupPublish
  BY <1>5 DEF LookupStart, LookupPublish, EndpointTypeOK
<1>6. CASE LookupFails \/ ApplyInfo
  BY <1>6 DEF LookupFails, ApplyInfo, EndpointTypeOK
<1>7. ASSUME NEW p \in Providers, Move(p) PROVE EndpointTypeOK'
  BY <1>7 DEF Move, EndpointTypeOK
<1>8. ASSUME NEW p \in Providers, Resolve(p) PROVE EndpointTypeOK'
  <2>1. PICK ep \in DHTResolve(p) :
          \/ ep.ip = NoIP /\ failed' = failed \cup {p} /\ found' = found
          \/ /\ ep.ip # NoIP /\ failed' = failed
             /\ \E s \in IF ep.storage THEN {TRUE} ELSE OverlayFinds(p) :
                  found' = found \cup {[key |-> p, ip |-> ep.ip, storage |-> s]}
    BY ZenonT(30), <1>8 DEF Resolve
  <2>2. ep.ip \in IPs \cup {NoIP}
    BY <2>1 DEF DHTResolve, FindProvider, EndpointTypeOK
  <2>3. OverlayFinds(p) \subseteq BOOLEAN
    BY DEF OverlayFinds
  <2>4. found' \subseteq [key : Providers, ip : IPs, storage : BOOLEAN]
        /\ failed' \subseteq Providers
    <3>1. CASE ep.ip = NoIP
      BY <2>1, <3>1 DEF EndpointTypeOK
    <3>2. CASE ep.ip # NoIP
      <4>1. PICK s \in BOOLEAN : found' = found \cup {[key |-> p, ip |-> ep.ip, storage |-> s]}
        BY ZenonT(30), <2>1, <2>3, <3>2
      <4>2. [key |-> p, ip |-> ep.ip, storage |-> s] \in [key : Providers, ip : IPs, storage : BOOLEAN]
        BY <2>2, <3>2
      <4> QED
        BY ZenonT(30), <2>1, <3>2, <4>1, <4>2 DEF EndpointTypeOK
    <3> QED
      BY <3>1, <3>2
  <2> QED
    BY <1>8, <2>4 DEF Resolve, EndpointTypeOK
<1>9. ASSUME NEW p \in Providers, GetIPInfo(p) PROVE EndpointTypeOK'
  <2>1. PICK a \in Answers : /\ items' = [items EXCEPT ![p] = a]
                             /\ a # ltodo[p] => faults < MaxFaults
                             /\ faults' = IF a # ltodo[p] THEN faults + 1 ELSE faults
    BY ZenonT(30), <1>9 DEF GetIPInfo
  <2>2. a \in IPs \cup {NoIP}
    BY DEF Answers, EndpointTypeOK
  <2>3. faults' \in 0..MaxFaults
    BY <2>1 DEF EndpointTypeOK
  <2>4. items' \in [Providers -> IPs \cup {NoIP}]
    BY <2>1, <2>2 DEF EndpointTypeOK
  <2>5. ltodo' \in [Providers -> IPs \cup {NoIP}]
    BY <1>9 DEF GetIPInfo, EndpointTypeOK
  <2> QED
    BY <1>9, <2>3, <2>4, <2>5 DEF GetIPInfo, EndpointTypeOK
<1>10. CASE UNCHANGED endpointVars
  BY <1>10 DEF endpointVars, EndpointTypeOK
<1> QED
  BY <1>1, <1>2, <1>3, <1>4, <1>5, <1>6, <1>7, <1>8, <1>9, <1>10

\* Every stage that fails has a reason code, and the first of them exists.
LEMMA VerifyType ==
  ASSUME NEW ep, NEW bad
  PROVE  Verify(ep, bad) \in Reasons
<1>1. CheckPiece(bad) \in Reasons
  <2> DEFINE F == {i \in DOMAIN Stages : Stages[i] \in bad}
  <2>1. CASE F = {}
    BY <2>1 DEF CheckPiece, Reasons
  <2>2. CASE F # {}
    <3>1. DOMAIN Stages = 1..10
      BY DEF Stages
    <3>2. F \in SUBSET Nat
      BY <3>1
    <3>3. \E m \in F : \A k \in F : m <= k
      <4> HIDE DEF F
      <4> QED
        BY <2>2, <3>2, LeastNat
    <3>4. Min(F) \in F
      <4> HIDE DEF F
      <4> QED
        BY <3>3 DEF Min
    <3>5. Stages[Min(F)] \in Range(Stages)
      <4>1. Min(F) \in DOMAIN Stages
        BY <3>4
      <4> HIDE DEF F
      <4> QED
        BY <4>1 DEF Range
    <3>6. CheckPiece(bad) = Stages[Min(F)]
      BY <2>2 DEF CheckPiece
    <3> QED
      BY <3>5, <3>6 DEF Reasons
  <2> QED
    BY <2>1, <2>2
<1> QED
  BY <1>1 DEF Verify, Reasons

\* The sample is a natural number of bags.
LEMMA SampleType ==
  ASSUME NEW n \in Nat
  PROVE  SampleSize(n) \in Nat
BY ChecksAssumption DEF SampleSize

\* checkProvider returns one reason for every bag without a usable endpoint,
\* and one for every bag of the sample with one (proof.go:161-234).
LEMMA CheckProviderFacts ==
  ASSUME NEW p \in Providers, NEW ep, NEW bad
  PROVE  /\ CheckProvider(p, ep, bad) \in Seq(Reasons)
         /\ Cardinality(Bags[p]) \in Nat
         /\ Len(CheckProvider(p, ep, bad)) =
              IF ep.ok /\ ep.ip THEN SampleSize(Cardinality(Bags[p])) ELSE Cardinality(Bags[p])
<1>1. PICK n \in Nat : n = Cardinality(Bags[p])
  BY ChecksAssumption, FS_CardinalityType
<1>2. PICK k \in Nat : k = SampleSize(n)
  BY SampleType
<1>3. PICK r \in Reasons : r = Verify(ep, bad)
  BY VerifyType
<1>4. {"IPNotFound", "UnavailableProvider"} \subseteq Reasons
  BY DEF Reasons
<1>5. CASE ~ep.ok \/ ~ep.ip
  <2>1. CheckProvider(p, ep, bad) = [i \in 1..n |-> "IPNotFound"]
    BY <1>1, <1>5 DEF CheckProvider, Fill
  <2>2. CheckProvider(p, ep, bad) \in Seq(Reasons) /\ Len(CheckProvider(p, ep, bad)) = n
    <3> HIDE DEF Reasons
    <3> QED
      BY <1>4, <2>1
  <2> QED
    BY <1>1, <1>5, <2>2
<1>6. CASE ep.ok /\ ep.ip
  <2>1. PICK v : v = [i \in 1..k |-> r]
    BY ZenonT(30)
  <2>2. CheckProvider(p, ep, bad) = CheckBags(v)
    BY <1>1, <1>2, <1>3, <1>6, <2>1 DEF CheckProvider, Fill
  <2>3. DOMAIN v = 1..k /\ Len(v) = k /\ \A i \in 1..k : v[i] \in Reasons
    BY <1>3, <2>1
  <2>4. CheckBags(v) = [i \in 1..k |-> IF Threshold(k) > 0 /\ LongRun(v, Threshold(k), i)
                                       THEN "UnavailableProvider" ELSE v[i]]
    BY <2>3, LoopIsRight
  <2>5. CheckBags(v) \in [1..k -> Reasons]
    BY <1>4, <2>3, <2>4
  <2>6. CheckBags(v) \in Seq(Reasons) /\ Len(CheckBags(v)) = k
    BY <2>5
  <2> QED
    BY <1>1, <1>2, <1>6, <2>2, <2>6
<1> QED
  BY <1>5, <1>6

\* What LoadFresh returns is an endpoint record.
EndpointRecs == [ok : BOOLEAN, ip : BOOLEAN, key : BOOLEAN]
LEMMA LoadFreshType ==
  ASSUME NEW p
  PROVE  {LoadFresh(p), None} \subseteq EndpointRecs
<1>1. (p \in storage) \in BOOLEAN
  OBVIOUS
<1> QED
  BY <1>1 DEF LoadFresh, None, EndpointRecs

\* Begin starts one goroutine, and only into a free slot.
LEMMA BeginFacts ==
  ASSUME TypeOK, NEW p \in Providers, Begin(p)
  PROVE  \E ep \in EndpointRecs :
           /\ loaded' = loaded \cup {[key |-> p, ep |-> ep]}
           /\ cause' = IF ep.ok /\ ep.ip THEN cause ELSE cause \cup {p}
           /\ IsFiniteSet(loaded') /\ Cardinality(loaded') <= MaxConcurrentBags
<1>1. PICK ep \in EndpointRecs :
        /\ loaded' = loaded \cup {[key |-> p, ep |-> ep]}
        /\ cause' = IF ep.ok /\ ep.ip THEN cause ELSE cause \cup {p}
  BY LoadFreshType DEF Begin
<1>2. IsFiniteSet(loaded) /\ Cardinality(loaded) \in Nat
      /\ Cardinality(loaded) + 1 <= MaxConcurrentBags
  <2>1. IsFiniteSet(loaded) /\ Cardinality(loaded) < MaxConcurrentBags
    BY DEF TypeOK, Begin
  <2>2. Cardinality(loaded) \in Nat
    BY <2>1, FS_CardinalityType
  <2> QED
    BY <2>1, <2>2, ChecksAssumption
<1>3. IsFiniteSet(loaded')
      /\ Cardinality(loaded') \in {Cardinality(loaded), Cardinality(loaded) + 1}
  BY ZenonT(30), <1>1, <1>2, FS_AddElement
<1>4. Cardinality(loaded') <= MaxConcurrentBags
  BY <1>2, <1>3, ChecksAssumption
<1> QED
  BY <1>1, <1>3, <1>4

\* Finish ends one goroutine and appends a prefix of what checkProvider returns,
\* all of it while the context is alive.
LEMMA FinishFacts ==
  ASSUME TypeOK, NEW l \in loaded, Finish(l)
  PROVE  /\ l.key \in Providers /\ loaded' = loaded \ {l}
         /\ IsFiniteSet(loaded') /\ Cardinality(loaded') <= MaxConcurrentBags
         /\ \E r \in Seq(Reasons) :
              /\ reasons' = [reasons EXCEPT ![l.key] = r]
              /\ live => Len(r) = IF l.ep.ok /\ l.ep.ip
                                  THEN SampleSize(Cardinality(Bags[l.key]))
                                  ELSE Cardinality(Bags[l.key])
<1>1. l.key \in Providers /\ loaded' = loaded \ {l}
  BY DEF TypeOK, Finish
<1>2. IsFiniteSet(loaded') /\ Cardinality(loaded') <= MaxConcurrentBags
  <2>1. IsFiniteSet(loaded) /\ Cardinality(loaded) <= MaxConcurrentBags
    BY DEF TypeOK
  <2>2. IsFiniteSet(loaded') /\ Cardinality(loaded') = Cardinality(loaded) - 1
    BY <1>1, <2>1, FS_RemoveElement
  <2>3. Cardinality(loaded) \in Nat
    BY <2>1, FS_CardinalityType
  <2> QED
    BY <2>1, <2>2, <2>3, ChecksAssumption
<1>3. PICK bad \in Outages[l.key] :
        \E n \in IF live \/ ~l.ep.ip THEN {Len(CheckProvider(l.key, l.ep, bad))}
                 ELSE 0..Len(CheckProvider(l.key, l.ep, bad)) :
          reasons' = [reasons EXCEPT ![l.key] = SubSeq(CheckProvider(l.key, l.ep, bad), 1, n)]
  BY ZenonT(30) DEF Finish
<1> DEFINE full == CheckProvider(l.key, l.ep, bad)
<1>4. full \in Seq(Reasons)
      /\ Len(full) = IF l.ep.ok /\ l.ep.ip THEN SampleSize(Cardinality(Bags[l.key]))
                     ELSE Cardinality(Bags[l.key])
  BY <1>1, CheckProviderFacts
<1> HIDE DEF full
<1>5. PICK n \in 0..Len(full) : /\ live => n = Len(full)
                                /\ reasons' = [reasons EXCEPT ![l.key] = SubSeq(full, 1, n)]
  <2>1. Len(full) \in Nat
    BY <1>4
  <2> QED
    <3>1. PICK n : /\ n \in IF live \/ ~l.ep.ip THEN {Len(full)} ELSE 0..Len(full)
                   /\ reasons' = [reasons EXCEPT ![l.key] = SubSeq(full, 1, n)]
      BY ZenonT(30), <1>3 DEF full
    <3>2. CASE live \/ ~l.ep.ip
      <4>1. n = Len(full)
        BY Zenon, <3>1, <3>2
      <4>2. Len(full) \in 0..Len(full)
        BY <2>1
      <4> QED
        BY Zenon, <3>1, <4>1, <4>2
    <3>3. CASE ~(live \/ ~l.ep.ip)
      BY ZenonT(30), <2>1, <3>1, <3>3
    <3> QED
      BY <3>2, <3>3
<1>6. SubSeq(full, 1, n) \in Seq(Reasons) /\ Len(SubSeq(full, 1, n)) = n
  BY <1>4
<1> QED
  BY ZenonT(30), <1>1, <1>2, <1>4, <1>5, <1>6

\* Every step keeps the types of the cycles and of check_proofs.
LEMMA TypeStep ==
  ASSUME TypeOK, [Next]_vars
  PROVE  TypeOK'
<1>1. EndpointTypeOK
  BY DEF TypeOK
<1>2. ASSUME UNCHANGED checkVars, EndpointTypeOK' PROVE TypeOK'
  <2> HIDE DEF EndpointTypeOK
  <2> QED
    BY <1>2 DEF TypeOK, checkVars
<1>3. CASE /\ UNCHANGED checkVars
           /\ \/ Tick \/ ResolveStart \/ ResolvePublish \/ ResolveFails \/ ApplyEndpoints
              \/ LookupStart \/ LookupPublish \/ LookupFails \/ ApplyInfo
              \/ \E p \in Providers : Move(p) \/ Resolve(p) \/ GetIPInfo(p)
              \/ UNCHANGED endpointVars
  <2>1. EndpointTypeOK'
    BY <1>1, <1>3, EndpointTypeStep
  <2> QED
    BY <1>2, <1>3, <2>1
<1>4. ASSUME UNCHANGED endpointVars PROVE EndpointTypeOK'
  BY <1>1, <1>4, EndpointTypeStep
<1>5. IsFiniteSet({}) /\ Cardinality({}) <= MaxConcurrentBags
      /\ [p \in Providers |-> <<>>] \in [Providers -> Seq(Reasons)]
  <2>1. IsFiniteSet({}) /\ Cardinality({}) = 0
    BY FS_EmptySet
  <2> QED
    BY <2>1, ChecksAssumption
<1> HIDE DEF EndpointTypeOK
<1>6. CASE CheckStart
  BY <1>4, <1>5, <1>6 DEF CheckStart, TypeOK
<1>7. CASE Cancel \/ Publish
  BY ZenonT(30), <1>4, <1>7 DEF Cancel, Publish, TypeOK
<1>8. CASE Return
  BY <1>4, <1>5, <1>8 DEF Return, TypeOK
<1>9. ASSUME NEW p \in Providers, Begin(p) PROVE TypeOK'
  <2>1. PICK ep \in EndpointRecs :
           /\ loaded' = loaded \cup {[key |-> p, ep |-> ep]}
           /\ cause' = IF ep.ok /\ ep.ip THEN cause ELSE cause \cup {p}
           /\ IsFiniteSet(loaded') /\ Cardinality(loaded') <= MaxConcurrentBags
    BY <1>9, BeginFacts
  <2>2. loaded' \subseteq [key : Providers, ep : EndpointRecs] /\ cause' \subseteq Providers
    BY <2>1 DEF TypeOK, EndpointRecs
  <2> QED
    BY <1>4, <1>9, <2>1, <2>2 DEF Begin, TypeOK, EndpointRecs
<1>10. ASSUME NEW l \in loaded, Finish(l) PROVE TypeOK'
  <2>1. reasons' \in [Providers -> Seq(Reasons)] /\ loaded' \subseteq loaded
        /\ IsFiniteSet(loaded') /\ Cardinality(loaded') <= MaxConcurrentBags
    BY <1>10, FinishFacts DEF TypeOK
  <2> QED
    BY <1>4, <1>10, <2>1 DEF Finish, TypeOK
<1> QED
  BY <1>3, <1>6, <1>7, <1>8, <1>9, <1>10 DEF Next, vars


-----------------------------------------------------------------------------
\* Published results are complete.

\* A goroutine that starts takes its provider out of the providers to do, and
\* what it loaded decides how much it reports.
LEMMA ChecksBegin ==
  ASSUME TypeOK, ChecksInv, NEW p \in Providers, Begin(p)
  PROVE  ChecksInv'
<1>1. PICK ep \in EndpointRecs :
         /\ loaded' = loaded \cup {[key |-> p, ep |-> ep]}
         /\ cause' = IF ep.ok /\ ep.ip THEN cause ELSE cause \cup {p}
  BY BeginFacts
<1>2. /\ cpc = "loop" /\ p \in ctodo /\ ctodo' = ctodo \ {p}
      /\ UNCHANGED <<cpc, live, reasons>>
  BY DEF Begin
<1>3. p \notin Running /\ p \notin cause
  BY <1>2 DEF ChecksInv
<1>4. \A l \in loaded : l.key \in Running /\ l.key # p
  BY <1>3 DEF Running
<1>5. Running' = Running \cup {p}
  <2>1. [key |-> p, ep |-> ep].key = p
    OBVIOUS
  <2> QED
    BY ZenonT(30), <1>1, <2>1 DEF Running
<1>6. \A q \in Providers \ {p} : (q \in cause' <=> q \in cause) /\ (Reported(q)' <=> Reported(q))
  BY <1>1, <1>2 DEF Reported
<1>7. ctodo' \cap (Running' \cup cause') = {}
  BY <1>1, <1>2, <1>5 DEF ChecksInv
<1>8. \A k, l \in loaded' : k.key = l.key => k = l
  BY <1>1, <1>4 DEF ChecksInv
<1>9. \A l \in loaded' : l.key \in cause' <=> ~(l.ep.ok /\ l.ep.ip)
  <2>1. ASSUME NEW l \in loaded PROVE l.key \in cause' <=> ~(l.ep.ok /\ l.ep.ip)
    <3>1. l.key \in cause' <=> l.key \in cause
      BY <1>1, <1>4
    <3> QED
      BY <3>1 DEF ChecksInv
  <2>2. p \in cause' <=> ~(ep.ok /\ ep.ip)
    BY <1>1, <1>3
  <2>3. [key |-> p, ep |-> ep].key = p /\ [key |-> p, ep |-> ep].ep = ep
    OBVIOUS
  <2>4. ASSUME NEW l \in loaded' PROVE l \in loaded \/ (l.key = p /\ l.ep = ep)
    BY <1>1, <2>3
  <2> QED
    BY <2>1, <2>2, <2>4
<1>10. live' => \A q \in Providers \ (ctodo' \cup Running') : Reported(q)'
  <2>1. \A q \in Providers \ (ctodo' \cup Running') :
          q \in Providers \ {p} /\ q \in Providers \ (ctodo \cup Running)
    BY <1>2, <1>5
  <2> HIDE DEF Reported, Running
  <2> QED
    BY <1>2, <1>6, <2>1 DEF ChecksInv
<1> QED
  <2> HIDE DEF Reported, Running
  <2> QED
    BY <1>2, <1>7, <1>8, <1>9, <1>10 DEF ChecksInv, ReasonsComplete

\* A goroutine that ends with the context alive has reported its provider.
LEMMA ChecksFinish ==
  ASSUME TypeOK, ChecksInv, NEW l \in loaded, Finish(l)
  PROVE  ChecksInv'
<1>1. PICK r \in Seq(Reasons) :
        /\ reasons' = [reasons EXCEPT ![l.key] = r]
        /\ live => Len(r) = IF l.ep.ok /\ l.ep.ip THEN SampleSize(Cardinality(Bags[l.key]))
                            ELSE Cardinality(Bags[l.key])
  BY FinishFacts
<1>2. /\ cpc = "loop" /\ loaded' = loaded \ {l} /\ l.key \in Providers
      /\ UNCHANGED <<cpc, live, ctodo, cause>>
  BY ZenonT(30), FinishFacts DEF Finish
<1>3. l.key \in cause <=> ~(l.ep.ok /\ l.ep.ip)
  BY DEF ChecksInv
<1>4. Running' \subseteq Running /\ Running \ {l.key} \subseteq Running'
  BY <1>2 DEF Running
<1>5. live => Reported(l.key)'
  <2>1. reasons'[l.key] = r
    BY <1>1, <1>2 DEF TypeOK
  <2>2. CASE l.ep.ok /\ l.ep.ip
    BY <1>1, <1>2, <1>3, <2>1, <2>2 DEF Reported
  <2>3. CASE ~(l.ep.ok /\ l.ep.ip)
    BY <1>1, <1>2, <1>3, <2>1, <2>3 DEF Reported
  <2> QED
    BY <2>2, <2>3
<1>6. \A q \in Providers \ {l.key} : Reported(q)' <=> Reported(q)
  BY <1>1, <1>2 DEF Reported, TypeOK
<1>7. live' => \A q \in Providers \ (ctodo' \cup Running') : Reported(q)'
  <2> SUFFICES ASSUME live, NEW q \in Providers \ (ctodo' \cup Running') PROVE Reported(q)'
    BY <1>2
  <2>1. CASE q = l.key
    BY <1>5, <2>1
  <2>2. CASE q # l.key
    <3>1. q \in Providers \ (ctodo \cup Running)
      BY <1>2, <1>4, <2>2
    <3> HIDE DEF Reported, Running
    <3>2. Reported(q)
      BY <1>2, <3>1 DEF ChecksInv
    <3> QED
      BY <1>6, <2>2, <3>2
  <2> QED
    BY <2>1, <2>2
<1>8. /\ ctodo' \cap (Running' \cup cause') = {}
      /\ \A k, m \in loaded' : k.key = m.key => k = m
      /\ \A m \in loaded' : m.key \in cause' <=> ~(m.ep.ok /\ m.ep.ip)
  <2> HIDE DEF Running
  <2> QED
    BY <1>2, <1>4 DEF ChecksInv
<1> QED
  <2> HIDE DEF Reported, Running
  <2> QED
    BY <1>2, <1>7, <1>8 DEF ChecksInv, ReasonsComplete

\* Every step preserves the invariant of check_proofs.
LEMMA ChecksStep ==
  ASSUME TypeOK, ChecksInv, [Next]_vars
  PROVE  ChecksInv'
<1>1. CASE UNCHANGED checkVars
  BY <1>1 DEF checkVars, ChecksInv, ReasonsComplete, Reported, Running
<1>2. CASE CheckStart
  <2>1. Running' = {}
    BY <1>2 DEF CheckStart, Running
  <2> QED
    BY <1>2, <2>1 DEF CheckStart, ChecksInv, ReasonsComplete
<1>3. CASE Cancel
  <2>1. UNCHANGED <<cpc, ctodo, loaded, reasons, cause>> /\ cpc = "loop" /\ live' = FALSE
    BY <1>3 DEF Cancel
  <2> QED
    BY <2>1 DEF ChecksInv, ReasonsComplete, Running
<1>4. CASE Publish
  <2>1. /\ UNCHANGED <<ctodo, loaded, reasons, cause>> /\ cpc' = "sent"
        /\ cpc = "loop" /\ live /\ loaded = {} /\ ctodo = {}
    BY <1>4 DEF Publish
  <2>2. Running = {} /\ Running' = {}
    BY <2>1 DEF Running
  <2>3. \A p \in Providers : Reported(p)
    <3> HIDE DEF Reported, Running
    <3> QED
      BY <2>1, <2>2 DEF ChecksInv
  <2>4. \A p \in Providers : Reported(p)'
    BY <2>1, <2>3 DEF Reported
  <2> QED
    <3> HIDE DEF Reported, Running
    <3> QED
      BY <2>1, <2>2, <2>4 DEF ChecksInv, ReasonsComplete
<1>5. CASE Return
  <2>1. loaded = {} /\ loaded' = {} /\ cpc' = "idle" /\ ctodo' = {}
    BY <1>5 DEF Return, ChecksInv
  <2> QED
    BY <2>1 DEF ChecksInv, ReasonsComplete
<1> QED
  BY <1>1, <1>2, <1>3, <1>4, <1>5, ChecksBegin, ChecksFinish DEF Next, vars

\* Types and the invariant of check_proofs, in every reachable state.
THEOREM ChecksInvariance == Spec => [](TypeOK /\ ChecksInv)
<1>1. Init => TypeOK /\ ChecksInv
  <2> SUFFICES ASSUME Init PROVE TypeOK /\ ChecksInv
    OBVIOUS
  <2>1. EndpointTypeOK
    <3>1. upd \in [Providers -> Ages] /\ known \in [Providers -> Ages]
      BY AgeBoundType DEF Init, EndpointInit, Ages
    <3>2. info \in [Providers -> IPs \cup {NoIP, Null}]
      BY DEF Init, EndpointInit
    <3> QED
      BY EndpointsAssumption, <3>1, <3>2 DEF Init, EndpointInit, EndpointTypeOK, NoIPs
  <2>2. IsFiniteSet({}) /\ Cardinality({}) <= MaxConcurrentBags
    <3>1. IsFiniteSet({}) /\ Cardinality({}) = 0
      BY FS_EmptySet
    <3> QED
      BY <3>1, ChecksAssumption
  <2>3. TypeOK
    <3> HIDE DEF EndpointTypeOK
    <3> QED
      BY <2>1, <2>2 DEF Init, CheckInit, TypeOK
  <2> QED
    BY <2>3 DEF Init, CheckInit, ChecksInv, ReasonsComplete
<1>2. TypeOK /\ ChecksInv /\ [Next]_vars => TypeOK' /\ ChecksInv'
  BY TypeStep, ChecksStep
<1> QED
  BY <1>1, <1>2, PTL DEF Spec

\* The variables keep their types; in particular never more goroutines of
\* CheckStorageProofs are at work than the semaphore has slots (proof.go:104-136).
THEOREM TypeCorrect == Spec => []TypeOK
BY ChecksInvariance, PTL

\* A published result holds every reason: of all bags of a provider without a
\* usable endpoint, of all sampled bags of the others, and of none a cut-off
\* part (proof.go:138-148).
THEOREM PublishedIsComplete == Spec => []ReasonsComplete
<1>1. ChecksInv => ReasonsComplete
  BY DEF ChecksInv
<1> QED
  BY <1>1, ChecksInvariance, PTL
=============================================================================
