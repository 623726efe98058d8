----------------------------- MODULE PollProofs -----------------------------
(***************************************************************************)
(* Results of probe_rates are complete and inspect_contracts rejects only  *)
(* for cause, for any keys, contracts, relations, semaphore sizes, spans   *)
(* and timeouts, provided that a run and the liteserver's lag together are *)
(* shorter than the hour of grace.                                         *)
(***************************************************************************)
EXTENDS Poll, TLAPS

\* The types hold initially.
LEMMA TypeInit == Init => TypeOK
<1> SUFFICES ASSUME Init PROVE TypeOK
  OBVIOUS
<1>1. Never \in Ages /\ 0 \in 0..Timeout
  BY PollAssumption DEF Ages, Never
<1>2. proof \in [Relations -> Ages] /\ block \in OnChain
  BY <1>1 DEF Init, NoBlock, OnChain
<1>3. out \in [Items -> Outcome]
  BY DEF Init, NoOut, Outcome
<1>4. result \in ResultType
  BY DEF Init, NoResult, ResultType
<1>5. pc = "idle" /\ cycle = "none" /\ ctx = "live" /\ age = 0 /\ rows = {} /\ queue = {}
      /\ waiting = {} /\ running = {}
  BY DEF Init
<1> QED
  BY <1>1, <1>2, <1>3, <1>4, <1>5 DEF TypeOK

\* Ages stay ages and grow by one at most.
LEMMA OlderFacts ==
  ASSUME NEW a \in Ages
  PROVE  /\ Older(a) \in Ages
         /\ Older(a) <= a + 1 /\ a \in Int /\ Older(a) \in Int
BY PollAssumption DEF Older, Ages, MaxAge, Never

\* The first component of a relation is a contract.
LEMMA RelationPair == \A r \in Relations : r[1] \in Contracts
BY PollAssumption

\* Every step preserves the types.
LEMMA TypeStep == TypeOK /\ [Next]_vars => TypeOK'
<1> SUFFICES ASSUME TypeOK, [Next]_vars PROVE TypeOK'
  OBVIOUS
<1> USE PollAssumption DEF handlerVars
<1>1. CASE UNCHANGED vars
  BY <1>1 DEF TypeOK, vars
<1>2. ASSUME NEW r \in Relations, Prove(r) PROVE TypeOK'
  <2>1. 0 \in Ages
    BY DEF Ages, MaxAge
  <2>2. proof' \in [Relations -> Ages]
    BY <1>2, <2>1 DEF Prove, TypeOK
  <2> QED
    BY <1>2, <2>2 DEF Prove, TypeOK
<1>3. CASE Tick
  <2>1. proof' \in [Relations -> Ages]
    BY <1>3, OlderFacts DEF Tick, TypeOK
  <2>2. block' \in OnChain
    <3>1. CASE pc = "idle"
      BY <1>3, <3>1 DEF Tick, TypeOK
    <3>2. CASE pc # "idle"
      <4>1. [r \in Relations |-> Older(block.proof[r])] \in [Relations -> Ages]
        BY OlderFacts DEF TypeOK, OnChain
      <4> QED
        BY <1>3, <3>2, <4>1 DEF Tick, TypeOK, OnChain
    <3> QED
      BY <3>1, <3>2
  <2>3. age' \in 0..Timeout /\ ctx' \in {"live", "done"}
    BY <1>3 DEF Tick, TypeOK
  <2> QED
    BY <1>3, <2>1, <2>2, <2>3 DEF Tick, TypeOK
<1>4. CASE Cancel
  BY <1>4 DEF Cancel, TypeOK
<1>5. ASSUME NEW c \in {"probe_rates", "inspect_contracts"}, Start(c) PROVE TypeOK'
  <2>1. out' \in [Items -> Outcome] /\ 0 \in 0..Timeout
    BY <1>5 DEF Start, NoOut, Outcome
  <2>2. Never \in Ages
    BY DEF Ages, Never
  <2>3. block' \in OnChain
    BY <1>5, <2>2 DEF Start, NoBlock, OnChain
  <2>4. result' \in ResultType
    BY <1>5 DEF Start, NoResult, ResultType
  <2> QED
    BY <1>5, <2>1, <2>3, <2>4 DEF Start, TypeOK
<1>6. CASE HandlerFails \/ Cancelled
  BY <1>6 DEF HandlerFails, Cancelled, Return, TypeOK
<1>7. CASE GetAllPubkeys
  <2>1. PICK keys \in SUBSET Keys : rows' = keys /\ queue' = keys
    BY <1>7 DEF GetAllPubkeys
  <2> QED
    BY <1>7, <2>1 DEF GetAllPubkeys, TypeOK, Items
<1>8. CASE LoopEnd
  BY <1>8 DEF LoopEnd, TypeOK
<1>9. CASE GetActiveRelations
  <2>1. PICK rels \in SUBSET Relations :
          /\ rows' = rels /\ queue' = {r[1] : r \in rels}
          /\ pc' = IF rels = {} THEN "wait" ELSE "block"
    BY <1>9 DEF GetActiveRelations
  <2>2. queue' \subseteq Items
    BY <2>1, RelationPair DEF Items
  <2> QED
    BY <1>9, <2>1, <2>2 DEF GetActiveRelations, TypeOK
<1>10. CASE GetMasterchainInfo
  <2>1. PICK listed \in SUBSET (rows \cap Relations), low \in SUBSET (rows \cap Relations),
             proofs \in [Relations -> Ages] :
          block' = [listed |-> listed, low |-> low, proof |-> proofs]
    BY ZenonT(30), <1>10 DEF GetMasterchainInfo
  <2>2. block' \in OnChain
    BY <2>1 DEF OnChain, TypeOK
  <2> QED
    BY <1>10, <2>2 DEF GetMasterchainInfo, TypeOK
<1>11. ASSUME NEW i \in Items, LoopNext(i) \/ Acquire(i) PROVE TypeOK'
  BY <1>11 DEF LoopNext, Acquire, TypeOK
<1>12. ASSUME NEW i \in Items, Finish(i) PROVE TypeOK'
  <2>1. Answers(i) \subseteq Outcome
    BY DEF Answers, Outcome
  <2>2. out' \in [Items -> Outcome]
    BY <1>12, <2>1 DEF Finish, TypeOK
  <2> QED
    BY <1>12, <2>2 DEF Finish, TypeOK
<1>13. CASE PublishRates
  <2>1. result' \in ResultType
    BY <1>13 DEF PublishRates, ResultType, TypeOK, Answered, Items
  <2> QED
    BY <1>13, <2>1 DEF PublishRates, Return, TypeOK
<1>14. CASE PublishRejected
  <2>1. result' \in ResultType
    BY <1>14 DEF PublishRejected, ResultType, TypeOK, Items
  <2> QED
    BY <1>14, <2>1 DEF PublishRejected, Return, TypeOK
<1> QED
  BY <1>1, <1>2, <1>3, <1>4, <1>5, <1>6, <1>7, <1>8, <1>9, <1>10, <1>11, <1>12, <1>13, <1>14
  DEF Next, HandlerStep

\* The poll worker keeps its types.
THEOREM TypeCorrect == Spec => []TypeOK
BY TypeInit, TypeStep, PTL DEF Spec
-----------------------------------------------------------------------------
\* Preservation of PollInv.

\* Nothing has been read, proved or published.
LEMMA InvInit == Init => PollInv
<1> SUFFICES ASSUME Init PROVE PollInv
  OBVIOUS
<1>1. TimeInv
  BY PollAssumption DEF Init, TimeInv, Never
<1> QED
  BY <1>1 DEF Init, PollInv, FreshInv, ProbeInv, InspectInv, StatusesComplete,
              RejectedForCause, NoResult

\* Time: a punctual proof is never older than its span, and what the run saw
\* of it ages with the run.
LEMMA InvTick ==
  ASSUME TypeOK, PollInv, Tick
  PROVE  PollInv'
<1>1. \A r \in Punctual : proof'[r] <= MaxSpan
  <2> SUFFICES ASSUME NEW r \in Punctual PROVE proof'[r] <= MaxSpan
    OBVIOUS
  <2>1. r \in Relations /\ proof[r] \in Ages /\ proof[r] < MaxSpan /\ proof'[r] = Older(proof[r])
    BY PollAssumption DEF Tick, TypeOK
  <2> QED
    BY <2>1, OlderFacts, PollAssumption
<1>2. ASSUME pc' # "idle", ctx' = "live"
      PROVE  age' < Timeout /\ \A r \in Punctual : block'.proof[r] <= MaxSpan + MaxLag + age'
  <2>1. pc # "idle" /\ ctx = "live" /\ age < Timeout /\ age \in Nat
    BY <1>2, PollAssumption DEF Tick, PollInv, TimeInv, TypeOK
  <2>2. age' = age + 1 /\ age' # Timeout
    BY <1>2, <2>1, PollAssumption DEF Tick
  <2>3. age' < Timeout
    BY <2>1, <2>2, PollAssumption
  <2>4. ASSUME NEW r \in Punctual PROVE block'.proof[r] <= MaxSpan + MaxLag + age'
    <3>1. r \in Relations /\ block \in OnChain
      BY PollAssumption DEF TypeOK
    <3>2. block.proof[r] \in Ages /\ block'.proof[r] = Older(block.proof[r])
      BY <2>1, <3>1 DEF Tick, OnChain
    <3>3. block.proof[r] <= MaxSpan + MaxLag + age
      BY <2>1 DEF PollInv, TimeInv
    <3> QED
      BY <2>1, <2>2, <3>2, <3>3, OlderFacts, PollAssumption
  <2> QED
    BY <2>3, <2>4
<1>3. TimeInv'
  BY <1>1, <1>2 DEF TimeInv
<1>4. /\ UNCHANGED <<pc, cycle, rows, queue, waiting, running, out, result>>
      /\ ctx' = "live" => ctx = "live"
      /\ ctx = "done" => ctx' = "done"
  BY SMTT(30) DEF Tick, TypeOK
<1>5. FreshInv' /\ ProbeInv' /\ InspectInv'
  BY <1>4 DEF PollInv, FreshInv, ProbeInv, InspectInv
<1>6. StatusesComplete'
  BY <1>4 DEF PollInv, StatusesComplete
<1>7. RejectedForCause'
  <2>1. CASE pc = "idle"
    BY <1>4, <2>1 DEF Tick, PollInv, RejectedForCause
  <2>2. CASE pc # "idle"
    BY <1>4, <2>2 DEF PollInv, RejectedForCause, NoResult
  <2> QED
    BY <2>1, <2>2
<1> QED
  BY <1>3, <1>4, <1>5, <1>6, <1>7 DEF PollInv

\* A proof, a cancellation, the start of a run and its return without a result
\* change nothing the run has read.
LEMMA InvAround ==
  ASSUME TypeOK, PollInv, NEW r, NEW c,
         \/ r \in Relations /\ Prove(r)
         \/ Cancel \/ HandlerFails \/ Cancelled
         \/ c \in {"probe_rates", "inspect_contracts"} /\ Start(c)
  PROVE  PollInv'
<1> USE DEF handlerVars
<1>1. CASE r \in Relations /\ Prove(r)
  <2>1. TimeInv'
    BY <1>1, PollAssumption DEF Prove, PollInv, TimeInv, TypeOK
  <2> QED
    BY <1>1, <2>1 DEF Prove, PollInv, FreshInv, ProbeInv, InspectInv, StatusesComplete,
                      RejectedForCause
<1>2. CASE Cancel
  BY <1>2 DEF Cancel, PollInv, TimeInv, FreshInv, ProbeInv, InspectInv, StatusesComplete,
              RejectedForCause
<1>3. CASE HandlerFails \/ Cancelled
  BY <1>3 DEF HandlerFails, Cancelled, Return, PollInv, TimeInv, FreshInv, ProbeInv, InspectInv,
              StatusesComplete, RejectedForCause
<1>4. CASE c \in {"probe_rates", "inspect_contracts"} /\ Start(c)
  <2>1. TimeInv'
    <3>1. \A q \in Punctual : block'.proof[q] = Never /\ proof' = proof
      BY <1>4, PollAssumption DEF Start, NoBlock
    <3> QED
      BY <1>4, <3>1, PollAssumption DEF Start, PollInv, TimeInv, Never
  <2> QED
    BY <1>4, <2>1 DEF Start, PollInv, FreshInv, ProbeInv, InspectInv, StatusesComplete,
                      RejectedForCause, NoResult
<1> QED
  BY <1>1, <1>2, <1>3, <1>4

\* A punctual relation's last proof, seen from a block of lag ago, is at most
\* that much older than its span.
LEMMA LastProofAge ==
  ASSUME TypeOK, PollInv, NEW r \in Punctual, NEW lag \in 0..MaxLag, NEW a \in LastProofs(r, lag)
  PROVE  a \in Int /\ a <= MaxSpan + MaxLag
<1>1. proof[r] \in Int /\ proof[r] <= MaxSpan
  BY PollAssumption DEF TypeOK, Ages, Never, PollInv, TimeInv
<1>2. CASE proof[r] = Never \/ proof[r] > lag
  BY <1>1, <1>2, PollAssumption DEF LastProofs
<1>3. CASE ~(proof[r] = Never \/ proof[r] > lag)
  <2>1. a = Never \/ (a \in lag..MaxAge /\ a <= MaxSpan + lag)
    BY <1>3 DEF LastProofs
  <2> QED
    BY <2>1, PollAssumption DEF Never, MaxAge
<1> QED
  BY <1>2, <1>3

\* The reads, and the block: every key and every contract is queued, and the
\* block lags by no more than the liteserver does.
LEMMA InvReads ==
  ASSUME TypeOK, PollInv, GetAllPubkeys \/ GetActiveRelations \/ GetMasterchainInfo
  PROVE  PollInv'
<1>1. pc # "idle" /\ result = NoResult /\ pc' # "idle" /\ result' = NoResult
      /\ UNCHANGED <<proof, cycle, ctx, age, running, out>>
  BY DEF GetAllPubkeys, GetActiveRelations, GetMasterchainInfo, PollInv
<1>2. StatusesComplete' /\ RejectedForCause'
  BY <1>1 DEF StatusesComplete, RejectedForCause, NoResult
<1>3. CASE GetAllPubkeys
  <2>1. PICK keys \in SUBSET Keys : rows' = keys /\ queue' = keys
    BY <1>3 DEF GetAllPubkeys
  <2>2. /\ pc = "read" /\ pc' = "loop" /\ cycle = "probe_rates" /\ block' = block
        /\ waiting' = {} /\ running' = {} /\ out' = NoOut
    BY <1>3 DEF GetAllPubkeys, PollInv, FreshInv
  <2>3. \A k \in Keys : out'[k] = "none"
    BY <2>2 DEF NoOut, Items
  <2>4. ProbeInv'
    BY <2>1, <2>2, <2>3 DEF ProbeInv
  <2>5. TimeInv'
    BY <1>1, <2>2 DEF PollInv, TimeInv
  <2> QED
    BY <1>1, <1>2, <2>2, <2>4, <2>5 DEF PollInv, FreshInv, InspectInv
<1>4. CASE GetActiveRelations
  <2>1. PICK rels \in SUBSET Relations :
          /\ rows' = rels /\ queue' = {r[1] : r \in rels}
          /\ pc' = IF rels = {} THEN "wait" ELSE "block"
    BY <1>4 DEF GetActiveRelations
  <2>2. /\ pc = "read" /\ cycle = "inspect_contracts" /\ block' = block
        /\ waiting' = {} /\ running' = {} /\ out' = NoOut
    BY <1>4 DEF GetActiveRelations, PollInv, FreshInv
  <2>3. InspectInv'
    BY <2>1, <2>2 DEF InspectInv
  <2>4. TimeInv'
    BY <1>1, <2>2 DEF PollInv, TimeInv
  <2> QED
    BY <1>1, <1>2, <2>1, <2>2, <2>3, <2>4 DEF PollInv, FreshInv, ProbeInv
<1>5. CASE GetMasterchainInfo
  <2>1. /\ pc = "block" /\ pc' = "wait" /\ rows' = rows
        /\ waiting' = queue /\ queue' = {}
    BY <1>5 DEF GetMasterchainInfo
  <2>2. cycle = "inspect_contracts" => InspectInv'
    BY <1>1, <2>1 DEF PollInv, InspectInv
  <2>3. \A r \in Punctual : block'.proof[r] \in Int /\ block'.proof[r] <= MaxSpan + MaxLag
    <3>1. PICK listed \in SUBSET (rows \cap Relations), low \in SUBSET (rows \cap Relations),
               lag \in 0..MaxLag, proofs \in [Relations -> Ages] :
            /\ \A r \in Relations : proofs[r] \in LastProofs(r, lag)
            /\ block' = [listed |-> listed, low |-> low, proof |-> proofs]
      BY ZenonT(30), <1>5 DEF GetMasterchainInfo
    <3> QED
      BY <3>1, LastProofAge, PollAssumption
  <2>4. TimeInv'
    <3>1. age \in Nat
      BY PollAssumption DEF TypeOK
    <3> QED
      BY <1>1, <2>1, <2>3, <3>1, PollAssumption DEF PollInv, TimeInv
  <2>5. cycle # "probe_rates"
    BY <2>1 DEF PollInv, FreshInv
  <2> QED
    BY <1>1, <1>2, <2>1, <2>2, <2>4, <2>5 DEF PollInv, FreshInv, ProbeInv, InspectInv
<1> QED
  BY <1>3, <1>4, <1>5

\* The loop, the slots and the goroutines: an item leaves the queue for the
\* semaphore, the semaphore for its goroutine, and that one with its entry.
LEMMA InvFanOut ==
  ASSUME TypeOK, PollInv,
         LoopEnd \/ \E i \in Items : LoopNext(i) \/ Acquire(i) \/ Finish(i)
  PROVE  PollInv'
<1>1. /\ UNCHANGED <<proof, cycle, ctx, age, rows, block, result>>
      /\ pc # "idle" => pc' # "idle"
      /\ pc = "idle" => pc' = "idle"
  BY DEF LoopEnd, LoopNext, Acquire, Finish
<1>2. TimeInv'
  BY <1>1 DEF PollInv, TimeInv
<1>3. RejectedForCause'
  BY <1>1 DEF PollInv, RejectedForCause
<1>4. CASE LoopEnd
  <2>1. pc = "loop" /\ pc' = "wait" /\ queue' = {} /\ UNCHANGED <<waiting, running, out>>
        /\ (ctx = "live" => queue = {}) /\ cycle = "probe_rates"
    BY <1>4 DEF LoopEnd, PollInv, FreshInv
  <2>2. ProbeInv'
    BY <1>1, <2>1 DEF PollInv, ProbeInv
  <2>3. StatusesComplete'
    BY <1>1, <2>1 DEF PollInv, StatusesComplete, NoResult
  <2> QED
    BY <1>1, <1>2, <1>3, <2>1, <2>2, <2>3 DEF PollInv, FreshInv, InspectInv
<1>5. ASSUME NEW k \in Items, LoopNext(k) PROVE PollInv'
  <2>1. /\ pc = "loop" /\ ctx = "live" /\ waiting = {} /\ k \in queue /\ queue' = queue \ {k}
        /\ waiting' = {k} \ BadKeys /\ UNCHANGED <<pc, running, out>> /\ cycle = "probe_rates"
    BY <1>5 DEF LoopNext, PollInv, FreshInv
  <2>2. ProbeInv'
    BY <1>1, <2>1 DEF PollInv, ProbeInv
  <2>3. StatusesComplete'
    BY <1>1, <2>1 DEF PollInv, StatusesComplete, NoResult
  <2> QED
    BY <1>1, <1>2, <1>3, <2>1, <2>2, <2>3 DEF PollInv, FreshInv, InspectInv
<1>6. ASSUME NEW i \in Items, Acquire(i) PROVE PollInv'
  <2>1. /\ i \in waiting /\ waiting' = waiting \ {i} /\ running' = running \cup {i}
        /\ UNCHANGED <<pc, queue, out>>
    BY <1>6 DEF Acquire
  <2>2. ProbeInv'
    BY <1>1, <2>1 DEF PollInv, ProbeInv
  <2>3. InspectInv'
    BY <1>1, <2>1 DEF PollInv, InspectInv
  <2>4. StatusesComplete'
    BY <1>1, <2>1 DEF PollInv, StatusesComplete
  <2> QED
    BY <1>1, <1>2, <1>3, <2>1, <2>2, <2>3, <2>4 DEF PollInv, FreshInv
<1>7. ASSUME NEW i \in Items, Finish(i) PROVE PollInv'
  <2>1. PICK a \in Answers(i) : out' = [out EXCEPT ![i] = a]
    BY ZenonT(30), <1>7 DEF Finish
  <2>2. /\ i \in running /\ running' = running \ {i} /\ UNCHANGED <<pc, queue, waiting>>
    BY <1>7 DEF Finish
  <2>3. out'[i] = a /\ \A j \in Items \ {i} : out'[j] = out[j]
    BY <2>1 DEF TypeOK
  <2>4. /\ i \in Keys => a # "none" /\ (a = "cut" => ctx = "done")
        /\ i \in Contracts \ BadAddrs => a # "none"
    BY PollAssumption DEF Answers
  <2>5. pc \notin {"read", "block", "idle"}
    BY <2>2 DEF PollInv, FreshInv
  <2>6. ProbeInv'
    BY <1>1, <2>2, <2>3, <2>4 DEF PollInv, ProbeInv, Items
  <2>7. InspectInv'
    <3>1. \A r \in Relations : r[1] \in Contracts /\ r[1] \in Items
      BY RelationPair DEF Items
    <3> QED
      BY <1>1, <2>2, <2>3, <2>4, <2>5, <3>1 DEF PollInv, InspectInv
  <2>8. StatusesComplete'
    BY <1>1, <2>5 DEF PollInv, StatusesComplete, NoResult
  <2> QED
    BY <1>1, <1>2, <1>3, <2>2, <2>5, <2>6, <2>7, <2>8 DEF PollInv, FreshInv
<1> QED
  BY <1>4, <1>5, <1>6, <1>7

\* Building the result: nothing is outstanding and the context is live.
LEMMA InvPublish ==
  ASSUME TypeOK, PollInv, PublishRates \/ PublishRejected
  PROVE  PollInv'
<1>1. /\ pc = "wait" /\ waiting = {} /\ running = {} /\ ctx = "live" /\ pc' = "idle"
      /\ UNCHANGED <<proof, cycle, ctx, age, rows, queue, waiting, running, out, block>>
  BY DEF PublishRates, PublishRejected, Published, Return, handlerVars
<1>2. TimeInv' /\ FreshInv' /\ ProbeInv' /\ InspectInv'
  BY <1>1 DEF PollInv, TimeInv, FreshInv, ProbeInv, InspectInv
<1>3. CASE PublishRates
  <2>1. /\ cycle = "probe_rates" /\ result'.cycle = "probe_rates"
        /\ result'.reported = {k \in Keys : out[k] # "none"}
    BY <1>3 DEF PublishRates, Answered
  <2>2. queue = {} /\ rows \subseteq Keys
    BY <1>1, <2>1 DEF PollInv, ProbeInv
  <2>3. result'.reported = rows \ BadKeys
    BY <1>1, <2>1, <2>2 DEF PollInv, ProbeInv
  <2>4. \A k \in Keys : out[k] # "cut"
    BY <1>1, <2>1 DEF PollInv, ProbeInv
  <2>5. StatusesComplete'
    BY <1>1, <2>1, <2>3, <2>4 DEF StatusesComplete
  <2> QED
    BY <1>1, <1>2, <2>1, <2>5 DEF PollInv, RejectedForCause
<1>4. CASE PublishRejected
  <2>1. /\ cycle = "inspect_contracts" /\ result'.cycle = "inspect_contracts"
        /\ result'.reported = {r \in rows : Rejected(r)}
        /\ result'.also = {c \in Contracts : out[c] = "error"}
    BY <1>4 DEF PublishRejected
  <2>2. ASSUME NEW r \in rows, Rejected(r)
        PROVE  /\ out[r[1]] # "error"
               /\ \/ r[1] \in BadAddrs \/ r \notin block.listed
                  \/ r \in block.low /\ r \notin Punctual
    <3>1. CASE out[r[1]] = "none"
      BY <1>1, <2>1, <3>1 DEF PollInv, InspectInv
    <3>2. CASE out[r[1]] # "error" /\ (r \notin block.listed \/ IsRemovedByLowBalance(r))
      <4>1. SUFFICES ASSUME IsRemovedByLowBalance(r), r \in Punctual PROVE FALSE
        BY <3>2 DEF IsRemovedByLowBalance
      <4>2. age < Timeout /\ block.proof[r] <= MaxSpan + MaxLag + age /\ block.proof[r] > MaxSpan + Grace
        BY <1>1, <4>1 DEF PollInv, TimeInv, IsRemovedByLowBalance
      <4>3. age \in Nat /\ r \in Relations
        BY <4>1, PollAssumption DEF TypeOK
      <4>4. block.proof[r] \in Int
        BY <4>3, PollAssumption DEF TypeOK, OnChain, Ages, Never
      <4> QED
        BY <4>2, <4>3, <4>4, PollAssumption
    <3> QED
      BY <2>2, <3>1, <3>2 DEF Rejected
  <2>3. RejectedForCause'
    BY <1>1, <2>1, <2>2 DEF RejectedForCause
  <2> QED
    BY <1>1, <1>2, <2>1, <2>3 DEF PollInv, StatusesComplete
<1> QED
  BY <1>3, <1>4

\* Every step preserves PollInv.
LEMMA InvStep == TypeOK /\ PollInv /\ [Next]_vars => PollInv'
<1> SUFFICES ASSUME TypeOK, PollInv, [Next]_vars PROVE PollInv'
  OBVIOUS
<1>1. CASE UNCHANGED vars
  BY <1>1 DEF vars, handlerVars, PollInv, TimeInv, FreshInv, ProbeInv, InspectInv,
              StatusesComplete, RejectedForCause
<1> QED
  BY <1>1, InvTick, InvAround, InvReads, InvFanOut, InvPublish DEF Next, HandlerStep

\* PollInv is an invariant.
THEOREM Invariance == Spec => []PollInv
<1>1. Init => TypeOK /\ PollInv
  BY TypeInit, InvInit
<1>2. TypeOK /\ PollInv /\ [Next]_vars => (TypeOK /\ PollInv)'
  BY TypeStep, InvStep
<1> QED
  BY <1>1, <1>2, PTL DEF Spec

\* probe_rates publishes a status for every key it read and none of a probe
\* that its own end cut short.
THEOREM ProbeResults == Spec => []StatusesComplete
<1>1. PollInv => StatusesComplete
  BY DEF PollInv
<1> QED
  BY <1>1, Invariance, PTL

\* inspect_contracts rejects no relation of a punctual provider for its
\* balance, and none of a contract the liteserver gave no answer for.
THEOREM InspectResults == Spec => []RejectedForCause
<1>1. PollInv => RejectedForCause
  BY DEF PollInv
<1> QED
  BY <1>1, Invariance, PTL
=============================================================================
