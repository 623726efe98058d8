-------------------------------- MODULE Poll --------------------------------
(***************************************************************************)
(* The poll worker: Poll.UpdateProviderRates (probe_rates) and             *)
(* Poll.UpdateRejectedContracts (inspect_contracts), which a pool of one   *)
(* runs in any order.  Both fan out to goroutines that share a counting    *)
(* semaphore, append their answer under a mutex and are awaited before the *)
(* result is built.                                                        *)
(*                                                                         *)
(* An item is a public key to probe or a contract to inspect.  Time is     *)
(* kept as ages: of the run, and of each relation's last storage proof.    *)
(***************************************************************************)
EXTENDS Integers, FiniteSets

CONSTANTS
  Keys, BadKeys,         \* public keys; those that are not 32 bytes of hex
  Contracts, BadAddrs,   \* contract addresses; those ParseAddr refuses
  Relations,             \* pairs of a contract and a provider's key
  Punctual,              \* relations whose provider proves every MaxSpan
  MaxConcurrentProbe,    \* size of the semaphore of probe_rates
  ParallelRequests,      \* size of the semaphore of GetProvidersInfo
  Timeout,               \* age at which process() cancels the run's context
  MaxSpan,               \* a relation's longest time between two proofs
  Grace,                 \* one hour in isRemovedByLowBalance
  MaxLag                 \* how far a liteserver's newest block may lag

ASSUME PollAssumption ==
  /\ BadKeys \subseteq Keys /\ BadAddrs \subseteq Contracts
  /\ Keys \cap Contracts = {}
  /\ Relations \subseteq Contracts \X Keys /\ Punctual \subseteq Relations
  /\ MaxConcurrentProbe \in Nat \ {0} /\ ParallelRequests \in Nat \ {0}
  /\ Timeout \in Nat \ {0} /\ MaxSpan \in Nat /\ Grace \in Nat
  /\ MaxLag \in Nat /\ Timeout + MaxLag <= Grace + 1

VARIABLES
  proof,     \* per relation on chain: age of its last proof, or Never
  pc, cycle, \* control point, and which of the two handlers runs
  ctx,       \* the run's context: live or done
  age,       \* age of the run
  rows,      \* the keys or the relations the handler read
  queue,     \* items the loop has not reached
  waiting,   \* items whose goroutine, or the loop itself, waits for a slot
  running,   \* items whose goroutine holds a slot
  out,       \* per item: the entry its goroutine appended
  block,     \* at the run's block: the relations listed, those underfunded
             \* and their last proofs
  result     \* what the run published: its cycle, the statuses' keys or the
             \* rejected relations, the rates' keys or the skipped addresses

handlerVars == <<rows, queue, waiting, running, out, block>>
vars == <<proof, pc, cycle, ctx, age, handlerVars, result>>

Never == -1
MaxAge == MaxSpan + Grace + 1
Ages == {Never} \cup 0..MaxAge
Items == Keys \cup Contracts
Outcome == {"none", "online", "offline", "cut", "state", "error"}
NoOut == [i \in Items |-> "none"]
OnChain == [listed : SUBSET Relations, low : SUBSET Relations, proof : [Relations -> Ages]]
NoBlock == [listed |-> {}, low |-> {}, proof |-> [r \in Relations |-> Never]]
ResultType == [cycle : {"none", "probe_rates", "inspect_contracts"},
               reported : SUBSET (Keys \cup Relations), also : SUBSET Items]
NoResult == [cycle |-> "none", reported |-> {}, also |-> {}]

Init ==
  /\ proof = [r \in Relations |-> Never]
  /\ pc = "idle" /\ cycle = "none" /\ ctx = "live" /\ age = 0
  /\ rows = {} /\ queue = {} /\ waiting = {} /\ running = {}
  /\ out = NoOut /\ block = NoBlock /\ result = NoResult

-----------------------------------------------------------------------------
\* Time, the chain and the run's context.

Older(a) == IF a \in {Never, MaxAge} THEN a ELSE a + 1

\* LastProofTime of relation r becomes now.
Prove(r) ==
  /\ proof' = [proof EXCEPT ![r] = 0]
  /\ UNCHANGED <<pc, cycle, ctx, age, handlerVars, result>>

\* A punctual provider proves before its span is over.  The run's context is
\* done when the run reaches its timeout.
Tick ==
  /\ \A r \in Punctual : proof[r] < MaxSpan
  /\ proof' = [r \in Relations |-> Older(proof[r])]
  /\ \/ pc = "idle" /\ UNCHANGED <<block, age, ctx>>
     \/ /\ pc # "idle"
        /\ block' = [block EXCEPT !.proof = [r \in Relations |-> Older(@[r])]]
        /\ age' = IF age < Timeout THEN age + 1 ELSE age
        /\ ctx' = IF age' = Timeout THEN "done" ELSE ctx
  /\ UNCHANGED <<pc, cycle, rows, queue, waiting, running, out, result>>

\* SIGTERM cancels the context of a run.
Cancel ==
  /\ pc # "idle" /\ ctx = "live"
  /\ ctx' = "done"
  /\ UNCHANGED <<proof, pc, cycle, age, handlerVars, result>>

\* A run starts with fresh locals; what the last one held stays in sight
\* until then.
Start(c) ==
  /\ pc = "idle"
  /\ pc' = "read" /\ cycle' = c /\ ctx' = "live" /\ age' = 0
  /\ rows' = {} /\ queue' = {} /\ waiting' = {} /\ running' = {}
  /\ out' = NoOut /\ block' = NoBlock /\ result' = NoResult
  /\ UNCHANGED proof

Return == pc' = "idle" /\ UNCHANGED <<proof, cycle, ctx, age, handlerVars>>

-----------------------------------------------------------------------------
\* The handlers.

\* A table cannot be read, there is no masterchain block, or the XADD fails.
HandlerFails ==
  /\ pc \in {"read", "block"} \/ (pc = "wait" /\ waiting \cup running = {})
  /\ Return
  /\ UNCHANGED result

GetAllPubkeys ==
  /\ pc = "read" /\ cycle = "probe_rates"
  /\ \E keys \in SUBSET Keys : rows' = keys /\ queue' = keys
  /\ pc' = "loop"
  /\ UNCHANGED <<proof, cycle, ctx, age, waiting, running, out, block, result>>

\* One iteration of the loop: it looks at the context, passes over a key that
\* does not decode, and otherwise waits for a slot, whatever becomes of the
\* context.
LoopNext(k) ==
  /\ pc = "loop" /\ ctx = "live" /\ waiting = {} /\ k \in queue
  /\ queue' = queue \ {k}
  /\ waiting' = {k} \ BadKeys
  /\ UNCHANGED <<proof, pc, cycle, ctx, age, rows, running, out, block, result>>

LoopEnd ==
  /\ pc = "loop" /\ waiting = {}
  /\ queue = {} \/ ctx = "done"
  /\ pc' = "wait" /\ queue' = {}
  /\ UNCHANGED <<proof, cycle, ctx, age, rows, waiting, running, out, block, result>>

\* Without relations the result is empty and nothing is inspected.
FaultyGetActiveRelations ==
  /\ pc = "read" /\ cycle = "inspect_contracts"
  /\ \E rels \in SUBSET Relations :
       /\ rows' = rels
       /\ queue' = rels
       /\ pc' = IF rels = {} THEN "wait" ELSE "block"
  /\ UNCHANGED <<proof, cycle, ctx, age, waiting, running, out, block, result>>
GetActiveRelations ==
  /\ pc = "read" /\ cycle = "inspect_contracts"
  /\ \E rels \in SUBSET Relations :
       /\ rows' = rels
       /\ queue' = {r[1] : r \in rels}
       /\ pc' = IF rels = {} THEN "wait" ELSE "block"
  /\ UNCHANGED <<proof, cycle, ctx, age, waiting, running, out, block, result>>

\* The ages a relation's last proof may have in a block of lag ago: if there
\* was one since, the block shows the one before, if any.
LastProofs(r, lag) ==
  IF proof[r] = Never \/ proof[r] > lag THEN {proof[r]}
  ELSE {Never} \cup {a \in lag..MaxAge : r \in Punctual => a <= MaxSpan + lag}

\* GetProvidersInfo asks for everything at the block the liteserver says is the
\* newest and starts a goroutine for every address.  Which relations are listed
\* there, and which balances are below the bounty, is up to the chain.
GetMasterchainInfo ==
  /\ pc = "block"
  /\ \E listed, low \in SUBSET (rows \cap Relations), lag \in 0..MaxLag :
     \E proofs \in [Relations -> Ages] :
       /\ \A r \in Relations : proofs[r] \in LastProofs(r, lag)
       /\ block' = [listed |-> listed, low |-> low, proof |-> proofs]
  /\ waiting' = queue /\ queue' = {}
  /\ pc' = "wait"
  /\ UNCHANGED <<proof, cycle, ctx, age, rows, running, out, result>>

Slots == IF cycle = "probe_rates" THEN MaxConcurrentProbe ELSE ParallelRequests

Acquire(i) ==
  /\ i \in waiting
  /\ Cardinality(running) < Slots
  /\ waiting' = waiting \ {i} /\ running' = running \cup {i}
  /\ UNCHANGED <<proof, pc, cycle, ctx, age, rows, queue, out, block, result>>

\* Probe ends with an answer, or offline on its own timeout; a done context
\* cuts it short, which is an offline status as well.  GetProvidersV1 gives a
\* state or, after its retries, an error.  Of an address that does not parse
\* there is no entry.
Answers(i) ==
  IF i \in BadAddrs THEN {"none"}
  ELSE IF i \in Keys THEN {"online", "offline"} \cup (IF ctx = "done" THEN {"cut"} ELSE {})
  ELSE {"state", "error"}

\* The goroutine appends its entry, releases the slot, then calls wg.Done.
FaultyFinish(i) ==
  /\ i \in running
  /\ running' = running \ {i}
  /\ \E a \in Answers(i) : out' = [out EXCEPT ![i] = IF a = "offline" THEN "none" ELSE a]
  /\ UNCHANGED <<proof, pc, cycle, ctx, age, rows, queue, waiting, block, result>>
LeakyFinish(i) ==
  /\ i \in running
  /\ \E a \in Answers(i) :
       /\ out' = [out EXCEPT ![i] = a]
       /\ running' = IF a = "none" THEN running ELSE running \ {i}
  /\ UNCHANGED <<proof, pc, cycle, ctx, age, rows, queue, waiting, block, result>>
Finish(i) ==
  /\ i \in running
  /\ running' = running \ {i}
  /\ \E a \in Answers(i) : out' = [out EXCEPT ![i] = a]
  /\ UNCHANGED <<proof, pc, cycle, ctx, age, rows, queue, waiting, block, result>>

\* The context check after wg.Wait, and the XADD, which needs the context.
Published == pc = "wait" /\ waiting \cup running = {} /\ ctx = "live"

Answered(S) == {i \in S : out[i] # "none"}
PublishRates ==
  /\ Published /\ cycle = "probe_rates"
  /\ result' = [cycle |-> cycle, reported |-> Answered(Keys),
                also |-> {k \in Keys : out[k] = "online"}]
  /\ Return

\* Underfunded at the block, and now later than the last proof, the span and
\* an hour; never if there was no proof at all.
FaultyIsRemovedByLowBalance(r) == r \in block.low /\ block.proof[r] > MaxSpan
IsRemovedByLowBalance(r) == r \in block.low /\ block.proof[r] > MaxSpan + Grace

Rejected(r) ==
  \/ out[r[1]] = "none"
  \/ out[r[1]] # "error" /\ (r \notin block.listed \/ IsRemovedByLowBalance(r))

PublishRejected ==
  /\ Published /\ cycle = "inspect_contracts"
  /\ result' = [cycle |-> cycle, reported |-> {r \in rows : Rejected(r)},
                also |-> {c \in Contracts : out[c] = "error"}]
  /\ Return

-----------------------------------------------------------------------------
\* A context that is done after wg.Wait makes the handler return an error.
Cancelled ==
  /\ pc = "wait" /\ waiting \cup running = {} /\ ctx = "done"
  /\ Return
  /\ UNCHANGED result

HandlerStep ==
  \/ GetAllPubkeys \/ LoopEnd \/ GetActiveRelations \/ GetMasterchainInfo
  \/ \E i \in Items : LoopNext(i) \/ Acquire(i) \/ Finish(i)
  \/ PublishRates \/ PublishRejected \/ Cancelled

Next ==
  \/ \E r \in Relations : Prove(r)
  \/ Tick \/ Cancel \/ HandlerFails \/ HandlerStep
  \/ \E c \in {"probe_rates", "inspect_contracts"} : Start(c)

Spec == Init /\ [][Next]_vars
FairSpec == Spec /\ WF_vars(HandlerStep)

-----------------------------------------------------------------------------
TypeOK ==
  /\ proof \in [Relations -> Ages]
  /\ pc \in {"idle", "read", "loop", "block", "wait"}
  /\ cycle \in {"none", "probe_rates", "inspect_contracts"}
  /\ ctx \in {"live", "done"} /\ age \in 0..Timeout
  /\ rows \subseteq Keys \cup Relations
  /\ queue \subseteq Items /\ waiting \subseteq Items /\ running \subseteq Items
  /\ out \in [Items -> Outcome] /\ block \in OnChain
  /\ result \in ResultType

\* A probe_rates result has a status for every key that was read and decodes,
\* and none of a probe that the end of the run cut short: wg.Wait comes before
\* the result is built, and a done context after it means no result
\* (src/docs/02-data-contracts.md:169, one status for every polled provider).
StatusesComplete ==
  result.cycle = "probe_rates" =>
    /\ result.reported = rows \ BadKeys
    /\ \A k \in result.reported : out[k] # "cut"

\* inspect_contracts rejects a relation only if its contract's address does not
\* parse, or the contract does not list the provider at the run's block, or it
\* is underfunded and the provider has really missed its proofs: the block is
\* older than the clock isRemovedByLowBalance looks at, by the liteserver's lag
\* and the time since, but by less than the hour of grace.  A skipped contract has no rejected relation
\* (src/docs/02-data-contracts.md:193).
RejectedForCause ==
  result.cycle = "inspect_contracts" =>
    \A r \in result.reported :
      /\ r[1] \notin result.also
      /\ \/ r[1] \in BadAddrs
         \/ r \notin block.listed
         \/ r \in block.low /\ r \notin Punctual

\* Every run ends: goroutines return their slots and are all awaited, also
\* when the context is done while the loop waits for a slot.
RunReturns == pc # "idle" ~> pc = "idle"

\* The inductive invariant behind StatusesComplete and RejectedForCause: every
\* key or contract the handler read is still to be handled or has its entry,
\* and what the run knows of a punctual relation lags by no more than its own
\* age and the liteserver.
TimeInv ==
  /\ \A r \in Punctual : proof[r] <= MaxSpan
  /\ pc # "idle" /\ ctx = "live" =>
       /\ age < Timeout
       /\ \A r \in Punctual : block.proof[r] <= MaxSpan + MaxLag + age
FreshInv ==
  /\ pc = "loop" => cycle = "probe_rates"
  /\ pc = "block" => cycle = "inspect_contracts"
  /\ pc \in {"idle", "read", "block"} => waiting = {} /\ running = {}
  /\ pc \in {"read", "block"} => out = NoOut
ProbeInv ==
  cycle = "probe_rates" /\ pc \in {"loop", "wait"} =>
    /\ rows \subseteq Keys
    /\ \A k \in Keys : out[k] = "cut" => ctx = "done"
    /\ ctx = "live" =>
         /\ pc = "wait" => queue = {}
         /\ \A k \in Keys : k \in rows \ BadKeys <=>
              out[k] # "none" \/ k \in (queue \ BadKeys) \cup waiting \cup running
InspectInv ==
  cycle = "inspect_contracts" /\ pc \in {"block", "wait"} =>
    /\ rows \subseteq Relations
    /\ pc = "block" => queue = {r[1] : r \in rows}
    /\ pc = "wait" => \A r \in rows : out[r[1]] = "none" => r[1] \in BadAddrs \cup waiting \cup running
PollInv ==
  /\ TimeInv /\ FreshInv /\ ProbeInv /\ InspectInv
  /\ pc # "idle" => result = NoResult
  /\ StatusesComplete /\ RejectedForCause
=============================================================================
