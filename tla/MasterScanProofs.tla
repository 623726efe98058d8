-------------------------- MODULE MasterScanProofs --------------------------
(***************************************************************************)
(* The scan_master checkpoint never passes an unreported registration, for *)
(* any number of workers, jobs, keys and transactions and any page size,   *)
(* provided that paging is never cut between two pages or one page holds   *)
(* the wallet.  The backend's dedup drops only what a job that was started *)
(* more than once reported.                                                *)
(***************************************************************************)
EXTENDS MasterScan, TLAPS

\* No page is missing when a deadline ends the paging.
PagesSuffice == Deadlines => MaxTx <= Batch

\* A run has a job until it is over.
HasJob == \A w \in Workers : pc[w] # "idle" => job[w] \in Jobs

\* The types hold initially.
LEMMA TypeInit == Init => TypeOK
<1> SUFFICES ASSUME Init PROVE TypeOK
  OBVIOUS
<1> USE MasterScanAssumption DEF Init
<1>1. 0 \in 0..MaxTx /\ 0 \in 0..MaxRuns
  BY SMT
<1>2. /\ jobs \in [Jobs -> {"queued", "pending", "closed"}]
      /\ pc \in [Workers -> PcState] /\ job \in [Workers -> Jobs \cup {NoJob}]
      /\ from \in [Workers -> 0..MaxTx] /\ seen \in [Workers -> SUBSET Keys]
      /\ cursor \in [Workers -> 0..MaxTx] /\ collected \in [Workers -> SUBSET LTs]
      /\ found \in [Workers -> SUBSET Keys] /\ last \in [Workers -> 0..MaxTx]
  BY ZenonT(30), <1>1, Zenon DEF PcState
<1>3. /\ tip \in 0..MaxTx /\ checkpoint \in 0..MaxTx /\ runs \in 0..MaxRuns
      /\ known \subseteq Keys /\ results \subseteq Result /\ processed \subseteq Jobs
      /\ again \subseteq Jobs
  BY <1>1
<1>4. wallet \in [LTs -> Keys \cup {Internal, External}]
  OBVIOUS
<1> HIDE DEF Init
<1> QED
  BY <1>2, <1>3, <1>4 DEF TypeOK

\* The newest page's oldest transaction lies within the wallet.
LEMMA PageFacts ==
  ASSUME NEW c \in 1..MaxTx
  PROVE  /\ Oldest(c) \in 1..c
         /\ Page(c) = Oldest(c)..c /\ Page(c) \subseteq LTs
BY MasterScanAssumption DEF Oldest, Page, LTs

\* A step of the chain, the backend or the consumer preserves the types.
LEMMA TypeAround ==
  ASSUME TypeOK, NEW w, NEW j, NEW r,
         \/ NewTx
         \/ r \in results /\ Apply(r)
         \/ w \in Workers /\ ((j \in Jobs /\ Start(w, j)) \/ XAck(w) \/ Lose(w))
  PROVE  TypeOK'
<1> USE MasterScanAssumption DEF TypeOK, PcState, chainVars, backendVars, localVars, Goto
<1>1. CASE NewTx
  BY <1>1 DEF NewTx
<1>2. CASE r \in results /\ Apply(r)
  <2>1. r.job \in Jobs /\ r.keys \subseteq Keys /\ r.lt \in 0..MaxTx
    BY <1>2 DEF Result
  <2> QED
    BY <1>2, <2>1 DEF Apply
<1>3. CASE w \in Workers /\ j \in Jobs /\ Start(w, j)
  BY <1>3 DEF Start
<1>4. CASE w \in Workers /\ Reset(w) /\ jobs' \in [Jobs -> {"queued", "pending", "closed"}]
           /\ again' = again /\ runs' \in 0..MaxRuns
  <2>1. /\ pc' \in [Workers -> PcState] /\ job' \in [Workers -> Jobs \cup {NoJob}]
        /\ from' \in [Workers -> 0..MaxTx] /\ cursor' \in [Workers -> 0..MaxTx]
        /\ last' \in [Workers -> 0..MaxTx]
    BY <1>4 DEF Reset
  <2>2. /\ seen' \in [Workers -> SUBSET Keys] /\ collected' \in [Workers -> SUBSET LTs]
        /\ found' \in [Workers -> SUBSET Keys]
    BY <1>4 DEF Reset
  <2> QED
    BY <1>4, <2>1, <2>2 DEF Reset
<1>5. CASE w \in Workers /\ (XAck(w) \/ Lose(w))
  BY SMTT(30), <1>4, <1>5 DEF XAck, Lose
<1> QED
  BY <1>1, <1>2, <1>3, <1>4, <1>5

\* A step of the handler preserves the types.
LEMMA TypeHandler ==
  ASSUME TypeOK, NEW w \in Workers, CollectNewProviders(w),
         pc[w] # "idle" => job[w] \in Jobs
  PROVE  TypeOK'
<1> USE MasterScanAssumption DEF TypeOK, PcState, chainVars, backendVars, localVars, Goto
<1>1. CASE GetMasterWalletLT(w)
  BY <1>1 DEF GetMasterWalletLT
<1>2. CASE GetAllPubkeys(w)
  BY <1>2 DEF GetAllPubkeys
<1>3. CASE GetAccount(w)
  BY <1>3 DEF GetAccount
<1>4. CASE ListTransactions(w)
  <2>1. cursor[w] \in 1..MaxTx
    BY <1>4 DEF ListTransactions
  <2>2. Oldest(cursor[w]) - 1 \in 0..MaxTx /\ Page(cursor[w]) \subseteq LTs
    BY <2>1, PageFacts
  <2>3. cursor' \in [Workers -> 0..MaxTx] /\ collected' \in [Workers -> SUBSET LTs]
    BY <1>4, <2>2 DEF ListTransactions
  <2>4. pc' \in [Workers -> PcState]
    BY <1>4 DEF ListTransactions
  <2> QED
    BY <1>4, <2>3, <2>4 DEF ListTransactions
<1>5. CASE NoTransactions(w) \/ CutShort(w) \/ HandlerFails(w)
  BY <1>5 DEF NoTransactions, CutShort, HandlerFails
<1>6. CASE Scan(w)
  <2>1. last' \in [Workers -> 0..MaxTx] /\ found' \in [Workers -> SUBSET Keys]
    BY <1>6 DEF Scan, Parsed, LTs
  <2>2. cursor' \in [Workers -> 0..MaxTx] /\ collected' \in [Workers -> SUBSET LTs]
    BY <1>6 DEF Scan
  <2>3. pc' \in [Workers -> PcState]
    BY <1>6 DEF Scan
  <2> QED
    BY <1>6, <2>1, <2>2, <2>3 DEF Scan
<1>7. CASE PublishResult(w)
  <2>1. [job |-> job[w], keys |-> found[w], lt |-> last[w]] \in Result
    BY <1>7 DEF PublishResult, Result
  <2>2. pc' \in [Workers -> PcState] /\ results' \subseteq Result
    BY <1>7, <2>1 DEF PublishResult
  <2> QED
    BY <1>7, <2>2 DEF PublishResult
<1>8. CASE SetMasterWalletLT(w)
  BY <1>8 DEF SetMasterWalletLT
<1> QED
  BY <1>1, <1>2, <1>3, <1>4, <1>5, <1>6, <1>7, <1>8 DEF CollectNewProviders

-----------------------------------------------------------------------------
\* Preservation of ScanInv.

\* A registration once reported stays reported: keys are never removed from
\* the providers table and results are never unpublished.
LEMMA ReportedStays ==
  ASSUME wallet' = wallet, known \subseteq known', results \subseteq results',
         NEW l, Reported(l, results)
  PROVE  Reported(l, results)'
BY DEF Reported

localOf(v) == <<pc[v], job[v], from[v], seen[v], cursor[v], collected[v], found[v], last[v]>>

\* A run is not disturbed by the steps of others.
LEMMA OthersKeep ==
  ASSUME wallet' = wallet, known \subseteq known', results \subseteq results',
         NEW v \in Workers, UNCHANGED localOf(v), RunInv(v)
  PROVE  RunInv(v)'
<1> HIDE DEF Reported
<1>1. \A l : Reported(l, results) => Reported(l, results)'
  BY ReportedStays
<1> QED
  BY <1>1 DEF RunInv, localOf

\* The backend's LT write and NewTx leave every registration covered.
LEMMA InvBackend ==
  ASSUME TypeOK, ScanInv, NEW r, NewTx \/ (r \in results /\ Apply(r))
  PROVE  ScanInv'
<1> USE DEF chainVars, backendVars, localVars
<1>1. /\ wallet' = wallet /\ known \subseteq known' /\ results' = results
      /\ \A v \in Workers : UNCHANGED localOf(v)
  BY DEF NewTx, Apply, localOf
<1>2. \A l : Reported(l, results) => Reported(l, results)'
  BY <1>1, ReportedStays
<1>3. \A v \in Workers : RunInv(v)'
  BY <1>1, OthersKeep DEF ScanInv
<1>4. checkpoint' = checkpoint \/ (r \in results /\ checkpoint' = r.lt)
  BY DEF NewTx, Apply
<1> QED
  BY <1>1, <1>2, <1>3, <1>4 DEF ScanInv, CheckpointCovered

\* A step of worker w that leaves the backend and the results alone keeps
\* ScanInv if it keeps w's own part of it.
LEMMA LocalStep ==
  ASSUME ScanInv, NEW w \in Workers,
         wallet' = wallet, known' = known, results' = results, checkpoint' = checkpoint,
         \A v \in Workers \ {w} : UNCHANGED localOf(v),
         RunInv(w)'
  PROVE  ScanInv'
<1>1. \A v \in Workers \ {w} : RunInv(v)'
  BY OthersKeep DEF ScanInv
<1>2. \A l : Reported(l, results) => Reported(l, results)'
  BY ReportedStays
<1> QED
  BY <1>1, <1>2 DEF ScanInv, CheckpointCovered

\* Delivery and the end of a run keep ScanInv: a run starts from nothing.
LEMMA InvDelivery ==
  ASSUME TypeOK, ScanInv, NEW w \in Workers,
         (\E j \in Jobs : Start(w, j)) \/ XAck(w) \/ Lose(w)
  PROVE  ScanInv'
<1> USE DEF chainVars, backendVars, Goto
<1>1. CASE \E j \in Jobs : Start(w, j)
  <2>1. \A v \in Workers \ {w} : UNCHANGED localOf(v)
    BY <1>1 DEF Start, localOf, TypeOK
  <2>2. RunInv(w)'
    BY SMTT(30), <1>1 DEF ScanInv, RunInv, Start, TypeOK, Reported
  <2> QED
    BY <1>1, <2>1, <2>2, LocalStep DEF Start
<1>2. CASE Reset(w)
  <2>1. \A v \in Workers \ {w} : UNCHANGED localOf(v)
    BY <1>2 DEF Reset, localOf, TypeOK
  <2>2. RunInv(w)'
    BY <1>2 DEF RunInv, Reset, TypeOK
  <2> QED
    BY <1>2, <2>1, <2>2, LocalStep DEF Reset
<1> QED
  BY <1>1, <1>2 DEF XAck, Lose

\* Reading the checkpoint and the known keys, and asking for the account,
\* start a run below which everything is reported.
LEMMA InvReads ==
  ASSUME TypeOK, ScanInv, NEW w \in Workers,
         GetMasterWalletLT(w) \/ GetAllPubkeys(w) \/ GetAccount(w) \/ HandlerFails(w)
  PROVE  ScanInv'
<1> USE DEF chainVars, backendVars, localVars, Goto, TypeOK
<1> HIDE DEF Reported
<1>0. \A l : Reported(l, results) /\ wallet' = wallet /\ known' = known /\ results' = results
              => Reported(l, results)'
  BY ReportedStays
<1>1. CASE GetMasterWalletLT(w)
  <2>1. \A v \in Workers \ {w} : UNCHANGED localOf(v)
    BY <1>1 DEF GetMasterWalletLT, localOf
  <2>2. RunInv(w)'
    BY <1>0, <1>1 DEF ScanInv, CheckpointCovered, RunInv, GetMasterWalletLT
  <2> QED
    BY <1>1, <2>1, <2>2, LocalStep DEF GetMasterWalletLT
<1>2. CASE GetAllPubkeys(w)
  <2>1. \A v \in Workers \ {w} : UNCHANGED localOf(v)
    BY <1>2 DEF GetAllPubkeys, localOf
  <2>2. RunInv(w)'
    BY <1>0, <1>2 DEF ScanInv, RunInv, GetAllPubkeys
  <2> QED
    BY <1>2, <2>1, <2>2, LocalStep DEF GetAllPubkeys
<1>3. CASE GetAccount(w)
  <2>1. \A v \in Workers \ {w} : UNCHANGED localOf(v)
    BY <1>3 DEF GetAccount, localOf
  <2>2. RunInv(w)'
    BY <1>0, <1>3 DEF ScanInv, RunInv, GetAccount
  <2> QED
    BY <1>3, <2>1, <2>2, LocalStep DEF GetAccount
<1>4. CASE HandlerFails(w)
  <2>1. \A v \in Workers \ {w} : UNCHANGED localOf(v)
    BY <1>4 DEF HandlerFails, localOf
  <2>2. RunInv(w)'
    BY <1>0, <1>4 DEF ScanInv, RunInv, HandlerFails
  <2> QED
    BY <1>4, <2>1, <2>2, LocalStep DEF HandlerFails
<1> QED
  BY <1>1, <1>2, <1>3, <1>4

\* A page closes the hole below the cursor: either it is taken whole, or it
\* reaches a transaction at or below fromLT and all newer ones are taken.
\* Where a deadline may end the paging, the first page leaves no hole.
LEMMA InvPaging ==
  ASSUME TypeOK, ScanInv, PagesSuffice, NEW w \in Workers,
         ListTransactions(w) \/ NoTransactions(w) \/ CutShort(w)
  PROVE  ScanInv'
<1> USE DEF chainVars, backendVars, localVars, Goto, TypeOK
<1> HIDE DEF Reported
<1>0. \A l : Reported(l, results) /\ wallet' = wallet /\ known' = known /\ results' = results
              => Reported(l, results)'
  BY ReportedStays
<1>1. CASE ListTransactions(w)
  <2> DEFINE c == cursor[w]
             new == {l \in Page(c) : \A o \in Old(w, c) : l >= o}
  <2>1. \A v \in Workers \ {w} : UNCHANGED localOf(v)
    BY <1>1 DEF ListTransactions, localOf
  <2>2. c \in 1..MaxTx
    BY <1>1, MasterScanAssumption DEF ListTransactions
  <2>3. /\ Oldest(c) \in 1..c /\ Page(c) = Oldest(c)..c
    BY <2>2, PageFacts
  <2>4. /\ pc[w] = "page" /\ collected'[w] = collected[w] \cup new
        /\ cursor'[w] = Oldest(c) - 1 /\ UNCHANGED <<job, from, seen, found, last>>
        /\ pc'[w] = IF Old(w, c) = {} THEN "page" ELSE "scan"
    BY <1>1 DEF ListTransactions
  <2>5. \A l \in Page(c) : l <= from[w] \/ l \in new
    BY <2>3 DEF Old
  <2>6. Old(w, c) # {} => Oldest(c) <= from[w]
    BY SMTT(30), <2>2, <2>3, MasterScanAssumption DEF Old
  <2>7. \A d \in collected'[w] : \A l \in 1..d :
          \/ l <= from'[w] \/ l \in collected'[w]
          \/ pc'[w] = "page" /\ l <= cursor'[w]
    <3> SUFFICES ASSUME NEW d \in collected'[w], NEW l \in 1..d, ~(l <= from[w]),
                        l \notin collected'[w]
                 PROVE  pc'[w] = "page" /\ l <= Oldest(c) - 1
      BY <2>4
    <3>1. l \in Nat /\ from[w] \in Nat /\ c \in Nat /\ Oldest(c) \in Nat
      BY SMTT(30), <2>2, <2>3, MasterScanAssumption
    <3>2. l <= c
      <4>1. CASE d \in collected[w]
        BY SMTT(30), <2>4, <4>1 DEF ScanInv, RunInv
      <4>2. CASE d \in new
        <5>1. d \in Page(c)
          BY <4>2
        <5>2. d \in Nat /\ d <= c
          BY SMTT(30), <2>3, <3>1, <5>1
        <5> QED
          BY SMTT(30), <3>1, <5>2
      <4> HIDE DEF TypeOK, c, new
      <4> QED
        BY <2>4, <4>1, <4>2
    <3>3. l \notin Page(c)
      BY SMTT(30), <2>4, <2>5
    <3>4. l < Oldest(c)
      BY SMTT(30), <2>3, <3>1, <3>2, <3>3
    <3>5. Old(w, c) = {}
      <4> SUFFICES ASSUME Old(w, c) # {} PROVE FALSE
        OBVIOUS
      <4>1. Oldest(c) <= from[w]
        BY <2>6
      <4> HIDE DEF TypeOK, c
      <4> QED
        BY <3>1, <3>4, <4>1
    <3>6. l <= Oldest(c) - 1
      BY SMTT(30), <3>1, <3>4
    <3> QED
      BY <2>4, <3>5, <3>6
  <2>8. Deadlines => cursor'[w] = 0
    BY SMTT(30), <2>2, <2>4, MasterScanAssumption DEF PagesSuffice, Oldest
  <2>9. RunInv(w)'
    <3> HIDE DEF new, c
    <3> QED
      BY <1>0, <1>1, <2>4, <2>7, <2>8 DEF ScanInv, RunInv, ListTransactions
  <2> QED
    BY <1>1, <2>1, <2>9, LocalStep DEF ListTransactions
<1>2. CASE NoTransactions(w)
  <2>1. \A v \in Workers \ {w} : UNCHANGED localOf(v)
    BY <1>2 DEF NoTransactions, localOf
  <2>2. RunInv(w)'
    BY SMTT(30), <1>0, <1>2, MasterScanAssumption DEF ScanInv, RunInv, NoTransactions, LTs
  <2> QED
    BY <1>2, <2>1, <2>2, LocalStep DEF NoTransactions
<1>3. CASE CutShort(w)
  <2>1. \A v \in Workers \ {w} : UNCHANGED localOf(v)
    BY <1>3 DEF CutShort, localOf
  <2>2. collected[w] = {} \/ cursor[w] = 0
    BY <1>3 DEF ScanInv, RunInv, CutShort
  <2>3. RunInv(w)'
    BY SMTT(30), <1>0, <1>3, <2>2, MasterScanAssumption DEF ScanInv, RunInv, CutShort, LTs
  <2> QED
    BY <1>3, <2>1, <2>3, LocalStep DEF CutShort
<1> QED
  BY <1>1, <1>2, <1>3

\* Scan drops only what is known: every registration up to lastLT is found.
LEMMA InvScan ==
  ASSUME TypeOK, ScanInv, NEW w \in Workers, Scan(w)
  PROVE  ScanInv'
<1> USE DEF chainVars, backendVars, Goto, TypeOK
<1> HIDE DEF Reported
<1>0. \A l : Reported(l, results) /\ wallet' = wallet /\ known' = known /\ results' = results
              => Reported(l, results)'
  BY ReportedStays
<1>1. \A v \in Workers \ {w} : UNCHANGED localOf(v)
  BY DEF Scan, localOf
<1>2. PICK n \in {from[w]} \cup Parsed(w) : last' = [last EXCEPT ![w] = n]
  BY ZenonT(30) DEF Scan
<1>3. /\ pc[w] = "scan" /\ pc'[w] = "publish" /\ last'[w] = n /\ collected'[w] = {}
      /\ found'[w] = {wallet[l] : l \in Parsed(w)} \cap (Keys \ seen[w])
      /\ UNCHANGED <<job, from, seen, wallet, known, results, checkpoint>>
  BY <1>2 DEF Scan
<1>4. ASSUME NEW l \in 1..n, ~(l <= from[w]), wallet[l] \in Keys
      PROVE  wallet[l] \in found'[w] \cup seen[w]
  <2>1. n \in collected[w]
    BY <1>2, <1>4, MasterScanAssumption DEF Parsed
  <2>2. l \in collected[w]
    BY <1>3, <1>4, <2>1 DEF ScanInv, RunInv
  <2>3. l \in LTs /\ l > from[w]
    BY <1>4, <2>2, MasterScanAssumption DEF LTs
  <2>4. l \in Parsed(w)
    BY <1>4, <2>2, <2>3, MasterScanAssumption DEF Parsed
  <2> QED
    BY <1>3, <1>4, <2>4
<1>5. RunInv(w)'
  BY <1>0, <1>3, <1>4 DEF ScanInv, RunInv
<1> QED
  BY <1>1, <1>3, <1>5, LocalStep

\* Once the result is out, everything up to its LT is reported; the LT is
\* saved only after that (discovery.go:116-125).
LEMMA InvPublish ==
  ASSUME TypeOK, ScanInv, NEW w \in Workers, PublishResult(w)
  PROVE  ScanInv'
<1> USE DEF chainVars, backendVars, localVars, Goto, TypeOK
<1> DEFINE res == [job |-> job[w], keys |-> found[w], lt |-> last[w]]
<1>1. /\ \A v \in Workers \ {w} : UNCHANGED localOf(v)
      /\ pc[w] = "publish" /\ pc'[w] \in {"save", "end"} /\ results' = results \cup {res}
      /\ UNCHANGED <<wallet, known, checkpoint, localVars>>
  BY DEF PublishResult, localOf
<1>2. \A l : Reported(l, results) => Reported(l, results)'
  BY ZenonT(30), <1>1, ReportedStays
<1>3. ASSUME NEW l \in 1..last[w] PROVE Reported(l, results)'
  <2>1. CASE l <= from[w]
    <3>1. l \in 1..from[w]
      BY SMTT(30), <2>1, MasterScanAssumption
    <3> QED
      BY <1>2, <3>1 DEF ScanInv, RunInv
  <2>2. CASE wallet[l] \in Keys => wallet[l] \in found[w] \cup seen[w]
    <3>1. wallet[l] \in Keys => wallet[l] \in known \/ wallet[l] \in res.keys
      BY <2>2 DEF ScanInv, RunInv
    <3> HIDE DEF res
    <3> QED
      BY <1>1, <3>1 DEF Reported
  <2> QED
    BY <1>1, <2>1, <2>2 DEF ScanInv, RunInv
<1>4. \A v \in Workers \ {w} : RunInv(v)'
  BY <1>1, OthersKeep DEF ScanInv
<1> HIDE DEF Reported
<1>5. RunInv(w)'
  BY ZenonT(30), <1>1, <1>2, <1>3 DEF ScanInv, RunInv
<1>6. \A r \in results' : \A l \in 1..r.lt : Reported(l, results)'
  <2>1. res.lt = last[w]
    OBVIOUS
  <2> HIDE DEF res
  <2> QED
    BY ZenonT(30), <1>1, <1>2, <1>3, <2>1 DEF ScanInv
<1> QED
  BY ZenonT(30), <1>1, <1>2, <1>4, <1>5, <1>6 DEF ScanInv, CheckpointCovered

\* The LT a run saves lies above nothing unreported, also when it moves the
\* checkpoint back.
LEMMA InvSave ==
  ASSUME TypeOK, ScanInv, NEW w \in Workers, SetMasterWalletLT(w)
  PROVE  ScanInv'
<1> USE DEF chainVars, backendVars, localVars, Goto, TypeOK
<1>1. /\ \A v \in Workers \ {w} : UNCHANGED localOf(v)
      /\ pc[w] = "save" /\ pc'[w] = "end" /\ checkpoint' \in {checkpoint, last[w]}
      /\ UNCHANGED <<wallet, known, results, localVars>>
  BY DEF SetMasterWalletLT, localOf
<1>2. \A l : Reported(l, results) => Reported(l, results)'
  BY <1>1, ReportedStays
<1>3. \A v \in Workers \ {w} : RunInv(v)'
  BY <1>1, OthersKeep DEF ScanInv
<1> HIDE DEF Reported
<1>4. RunInv(w)'
  BY <1>1, <1>2 DEF ScanInv, RunInv
<1>5. \A l \in 1..checkpoint' : Reported(l, results)'
  BY <1>1, <1>2 DEF ScanInv, RunInv, CheckpointCovered
<1> QED
  BY <1>1, <1>2, <1>3, <1>4, <1>5 DEF ScanInv, CheckpointCovered

-----------------------------------------------------------------------------
\* Preservation of OnceInv.

\* A run that neither starts nor publishes keeps its job to itself; it may
\* end, close its job and give it up.
LEMMA OnceLocal ==
  ASSUME TypeOK, HasJob, OnceInv, NEW w \in Workers,
         pc[w] # "idle", pc[w] \in {"save", "end"} => pc'[w] \in {"save", "end", "idle"},
         pc'[w] # "idle" => job'[w] = job[w],
         \A v \in Workers \ {w} : pc'[v] = pc[v] /\ job'[v] = job[v],
         \A j \in Jobs : jobs'[j] = "queued" => jobs[j] = "queued",
         UNCHANGED <<known, processed, results, again>>
  PROVE  OnceInv'
<1>1. \A r \in results : r.job \in Jobs
  BY DEF TypeOK, Result
<1>2. \A v \in Workers : pc[v] # "idle" => job[v] \in Jobs
  BY DEF HasJob
<1>3. \A v \in Workers : pc'[v] # "idle" =>
        /\ pc[v] # "idle" /\ job'[v] = job[v]
        /\ pc'[v] \notin {"save", "end"} => pc[v] \notin {"save", "end"}
  OBVIOUS
<1>4. /\ \A r \in results' : jobs'[r.job] # "queued"
      /\ \A j \in processed' : \E r \in results' : r.job = j
      /\ \A r \in results' : r.job \notin again' =>
           /\ r.job \in processed' => r.keys \subseteq known'
           /\ \A s \in results' : s.job = r.job => s = r
  BY <1>1 DEF OnceInv
<1>5. ASSUME NEW v \in Workers, pc'[v] # "idle"
      PROVE  /\ jobs'[job'[v]] # "queued"
             /\ job'[v] \notin again' =>
                  /\ \A u \in Workers : pc'[u] # "idle" /\ job'[u] = job'[v] => u = v
                  /\ pc'[v] \notin {"save", "end"} => \A r \in results' : r.job # job'[v]
  BY <1>2, <1>3, <1>5 DEF OnceInv
<1> QED
  BY <1>4, <1>5 DEF OnceInv

\* A queued job is nobody's, and one that is pending joins again.
LEMMA OnceStart ==
  ASSUME TypeOK, HasJob, OnceInv, NEW w \in Workers, NEW j \in Jobs, Start(w, j)
  PROVE  OnceInv'
<1>1. /\ pc[w] = "idle" /\ jobs[j] \in {"queued", "pending"}
      /\ UNCHANGED <<known, processed, results>>
      /\ jobs' = [jobs EXCEPT ![j] = "pending"]
      /\ pc' = [pc EXCEPT ![w] = "lt"] /\ job' = [job EXCEPT ![w] = j]
      /\ again' = IF jobs[j] = "pending" THEN again \cup {j} ELSE again
  BY DEF Start, backendVars, Goto
<1>2. /\ pc'[w] = "lt" /\ job'[w] = j
      /\ \A v \in Workers \ {w} : pc'[v] = pc[v] /\ job'[v] = job[v]
      /\ jobs'[j] = "pending" /\ \A i \in Jobs \ {j} : jobs'[i] = jobs[i]
  BY <1>1 DEF TypeOK
<1>3. again \subseteq again' /\ (j \notin again' => jobs[j] = "queued")
  BY <1>1
<1>4. \A r \in results : r.job \in Jobs /\ (j \notin again' => r.job # j)
  BY <1>3 DEF OnceInv, TypeOK, Result
<1>5. \A v \in Workers : pc[v] # "idle" => job[v] \in Jobs /\ (j \notin again' => job[v] # j)
  BY <1>3 DEF OnceInv, HasJob
<1>6. /\ \A r \in results' : jobs'[r.job] # "queued"
      /\ \A i \in processed' : \E r \in results' : r.job = i
      /\ \A r \in results' : r.job \notin again' =>
           /\ r.job \in processed' => r.keys \subseteq known'
           /\ \A s \in results' : s.job = r.job => s = r
  BY <1>1, <1>2, <1>3, <1>4 DEF OnceInv
<1>7. ASSUME NEW v \in Workers, pc'[v] # "idle"
      PROVE  /\ jobs'[job'[v]] # "queued"
             /\ job'[v] \notin again' =>
                  /\ \A u \in Workers : pc'[u] # "idle" /\ job'[u] = job'[v] => u = v
                  /\ pc'[v] \notin {"save", "end"} => \A r \in results' : r.job # job'[v]
  <2>1. CASE v = w
    BY <1>1, <1>2, <1>4, <1>5, <2>1
  <2>2. CASE v # w
    <3>1. pc[v] # "idle" /\ pc'[v] = pc[v] /\ job'[v] = job[v] /\ job[v] \in Jobs
      BY <1>2, <1>5, <1>7, <2>2
    <3>2. jobs'[job[v]] # "queued"
      BY <1>2, <3>1 DEF OnceInv
    <3>3. ASSUME job[v] \notin again'
          PROVE  \A u \in Workers : pc'[u] # "idle" /\ job'[u] = job[v] => u = v
      BY <1>2, <1>3, <1>5, <3>1, <3>3 DEF OnceInv
    <3> QED
      BY <1>1, <1>3, <3>1, <3>2, <3>3 DEF OnceInv
  <2> QED
    BY <2>1, <2>2
<1> QED
  BY <1>6, <1>7 DEF OnceInv

\* The result of a job that was started once is its first, and the job is not
\* processed before it is there.
LEMMA OncePublish ==
  ASSUME TypeOK, HasJob, OnceInv, NEW w \in Workers, PublishResult(w)
  PROVE  OnceInv'
<1> DEFINE res == [job |-> job[w], keys |-> found[w], lt |-> last[w]]
<1>1. /\ pc[w] = "publish" /\ pc'[w] \in {"save", "end"}
      /\ \A v \in Workers \ {w} : pc'[v] = pc[v]
      /\ UNCHANGED <<known, processed, jobs, again, job>> /\ results' = results \cup {res}
  BY DEF PublishResult, backendVars, localVars, Goto, TypeOK
<1>2. res.job = job[w]
  BY ZenonT(30)
<1> HIDE DEF res
<1>3. jobs[job[w]] # "queued"
  BY <1>1 DEF OnceInv
<1>4. job[w] \notin again => job[w] \notin processed /\ \A r \in results : r.job # job[w]
  BY <1>1 DEF OnceInv
<1>5. job[w] \notin again => \A v \in Workers \ {w} : pc[v] # "idle" => job[v] # job[w]
  BY <1>1 DEF OnceInv
<1>6. /\ \A r \in results' : jobs'[r.job] # "queued"
      /\ \A j \in processed' : \E r \in results' : r.job = j
  BY <1>1, <1>2, <1>3 DEF OnceInv
<1>7. \A r \in results' : r.job \notin again' =>
           /\ r.job \in processed' => r.keys \subseteq known'
           /\ \A s \in results' : s.job = r.job => s = r
  BY <1>1, <1>2, <1>4 DEF OnceInv
<1>8. ASSUME NEW v \in Workers, pc'[v] # "idle"
      PROVE  /\ jobs'[job'[v]] # "queued"
             /\ job'[v] \notin again' =>
                  /\ \A u \in Workers : pc'[u] # "idle" /\ job'[u] = job'[v] => u = v
                  /\ pc'[v] \notin {"save", "end"} => \A r \in results' : r.job # job'[v]
  BY <1>1, <1>2, <1>5, <1>8 DEF OnceInv
<1> QED
  BY <1>6, <1>7, <1>8 DEF OnceInv

\* Every step preserves OnceInv.
LEMMA OnceStep ==
  ASSUME TypeOK, HasJob, OnceInv, [Next]_vars
  PROVE  OnceInv'
<1>1. CASE UNCHANGED vars \/ NewTx
  <2>1. UNCHANGED <<known, processed, results, jobs, again, pc, job>>
    BY <1>1 DEF vars, NewTx, backendVars, localVars
  <2> QED
    BY <2>1 DEF OnceInv
<1>2. ASSUME NEW r \in results, Apply(r)
      PROVE  OnceInv'
  <2>1. /\ processed' = processed \cup {r.job} /\ known' = known \cup r.keys
        /\ UNCHANGED <<results, jobs, again, pc, job>>
    BY <1>2 DEF Apply, localVars
  <2>2. \A s \in results : s.job \notin again /\ s.job \in processed' => s.keys \subseteq known'
    BY <2>1 DEF OnceInv
  <2>3. \A j \in processed' : \E s \in results' : s.job = j
    BY <2>1 DEF OnceInv
  <2> QED
    BY <2>1, <2>2, <2>3 DEF OnceInv
<1>3. ASSUME NEW w \in Workers, \E j \in Jobs : Start(w, j)
      PROVE  OnceInv'
  BY ZenonT(30), <1>3, OnceStart
<1>4. ASSUME NEW w \in Workers, XAck(w) \/ Lose(w)
      PROVE  OnceInv'
  <2>1. /\ pc[w] # "idle" /\ UNCHANGED <<known, processed, results, again>>
        /\ pc' = [pc EXCEPT ![w] = "idle"] /\ job' = [job EXCEPT ![w] = NoJob]
        /\ jobs' = jobs \/ jobs' = [jobs EXCEPT ![job[w]] = "closed"]
    BY <1>4 DEF XAck, Lose, Reset, backendVars, Goto
  <2>2. /\ pc'[w] = "idle"
        /\ \A v \in Workers \ {w} : pc'[v] = pc[v] /\ job'[v] = job[v]
        /\ \A j \in Jobs : jobs'[j] = "queued" => jobs[j] = "queued"
    BY <2>1 DEF TypeOK
  <2> QED
    BY <2>1, <2>2, OnceLocal
<1>5. ASSUME NEW w \in Workers, CollectNewProviders(w), ~PublishResult(w)
      PROVE  OnceInv'
  <2>1. /\ pc[w] # "idle"
        /\ pc[w] \in {"save", "end"} => pc'[w] \in {"save", "end", "idle"}
        /\ \A v \in Workers \ {w} : pc'[v] = pc[v]
        /\ UNCHANGED <<known, processed, results, jobs, again, job>>
    BY <1>5 DEF CollectNewProviders, GetMasterWalletLT, GetAllPubkeys, GetAccount,
                ListTransactions, NoTransactions, CutShort, Scan,
                SetMasterWalletLT, HandlerFails, Goto, backendVars, localVars, TypeOK
  <2> QED
    BY <2>1, OnceLocal
<1>6. ASSUME NEW w \in Workers, PublishResult(w)
      PROVE  OnceInv'
  BY <1>6, OncePublish
<1> QED
  BY SMTT(30), <1>1, <1>2, <1>3, <1>4, <1>5, <1>6 DEF Next

-----------------------------------------------------------------------------
\* The theorems.

\* Every step preserves the types, and every run keeps its job.
LEMMA TypeStep ==
  ASSUME TypeOK, HasJob, [Next]_vars
  PROVE  TypeOK' /\ HasJob'
<1>1. CASE UNCHANGED vars
  BY <1>1 DEF vars, chainVars, backendVars, localVars, TypeOK, HasJob
<1>2. CASE NewTx
  BY <1>2, TypeAround DEF NewTx, localVars, HasJob
<1>3. ASSUME NEW r \in results, Apply(r)
      PROVE  TypeOK' /\ HasJob'
  BY <1>3, TypeAround DEF Apply, localVars, HasJob
<1>4. ASSUME NEW w \in Workers, (\E j \in Jobs : Start(w, j)) \/ XAck(w) \/ Lose(w)
      PROVE  TypeOK' /\ HasJob'
  <2>1. TypeOK'
    BY <1>4, TypeAround
  <2>2. CASE \E j \in Jobs : Start(w, j)
    <3>1. PICK j \in Jobs : pc' = [pc EXCEPT ![w] = "lt"] /\ job' = [job EXCEPT ![w] = j]
      BY <2>2 DEF Start, Goto
    <3>2. job'[w] = j /\ \A v \in Workers \ {w} : pc'[v] = pc[v] /\ job'[v] = job[v]
      BY <3>1 DEF TypeOK
    <3> QED
      BY <2>1, <3>2 DEF HasJob
  <2>3. CASE Reset(w)
    <3>1. pc' = [pc EXCEPT ![w] = "idle"] /\ job' = [job EXCEPT ![w] = NoJob]
      BY <2>3 DEF Reset, Goto
    <3>2. pc'[w] = "idle" /\ \A v \in Workers \ {w} : pc'[v] = pc[v] /\ job'[v] = job[v]
      BY <3>1 DEF TypeOK
    <3> QED
      BY <2>1, <3>2 DEF HasJob
  <2> QED
    BY <1>4, <2>1, <2>2, <2>3 DEF XAck, Lose
<1>5. ASSUME NEW w \in Workers, CollectNewProviders(w)
      PROVE  TypeOK' /\ HasJob'
  <2>1. TypeOK'
    BY <1>5, TypeHandler DEF HasJob
  <2>2. job' = job /\ pc[w] # "idle" /\ \A v \in Workers \ {w} : pc'[v] = pc[v]
    BY <1>5 DEF CollectNewProviders, GetMasterWalletLT, GetAllPubkeys, GetAccount,
                ListTransactions, NoTransactions, CutShort, Scan, PublishResult,
                SetMasterWalletLT, HandlerFails, Goto, localVars, TypeOK
  <2> QED
    BY <2>1, <2>2 DEF HasJob
<1> QED
  BY SMTT(30), <1>1, <1>2, <1>3, <1>4, <1>5 DEF Next

\* The types hold in every run of scan_master, with or without deadlines,
\* repeated jobs and crashes.
THEOREM TypeCorrect == Spec => []TypeOK
<1>1. Init => TypeOK /\ HasJob
  BY TypeInit DEF Init, HasJob
<1>2. TypeOK /\ HasJob /\ [Next]_vars => TypeOK' /\ HasJob'
  BY ZenonT(30), TypeStep
<1> QED
  BY <1>1, <1>2, PTL DEF Spec

\* Every step preserves the types and, when the pages suffice, ScanInv.
LEMMA InvStep ==
  ASSUME TypeOK, ScanInv, PagesSuffice, [Next]_vars
  PROVE  TypeOK' /\ ScanInv'
<1>1. CASE UNCHANGED vars
  BY ZenonT(30), <1>1 DEF vars, chainVars, backendVars, localVars, TypeOK, ScanInv, CheckpointCovered,
              RunInv, Reported
<1>2. CASE NewTx
  BY <1>2, TypeAround, InvBackend
<1>3. ASSUME NEW r \in results, Apply(r)
      PROVE  TypeOK' /\ ScanInv'
  BY <1>3, TypeAround, InvBackend
<1>4. ASSUME NEW w \in Workers, (\E j \in Jobs : Start(w, j)) \/ XAck(w) \/ Lose(w)
      PROVE  TypeOK' /\ ScanInv'
  BY <1>4, TypeAround, InvDelivery
<1>5. ASSUME NEW w \in Workers, CollectNewProviders(w)
      PROVE  TypeOK' /\ ScanInv'
  <2>1. TypeOK'
    BY <1>5, TypeHandler DEF ScanInv, RunInv
  <2> QED
    BY SMTT(30), <1>5, <2>1, InvReads, InvPaging, InvScan, InvPublish, InvSave
    DEF CollectNewProviders
<1> QED
  BY SMTT(30), <1>1, <1>2, <1>3, <1>4, <1>5 DEF Next

\* Before the first transaction there is nothing to report.
LEMMA InvInit == Init => ScanInv
<1> SUFFICES ASSUME Init PROVE ScanInv
  OBVIOUS
<1>1. checkpoint = 0 /\ results = {}
  BY DEF Init
<1>2. CheckpointCovered
  BY <1>1 DEF CheckpointCovered
<1>3. \A w \in Workers : RunInv(w)
  BY DEF Init, RunInv
<1> QED
  BY <1>1, <1>2, <1>3 DEF ScanInv

\* What is reported up to the checkpoint, in the results and in every run is
\* as ScanInv says, for any number of overlapping and repeated runs.
THEOREM Invariance ==
  ASSUME Deadlines => MaxTx <= Batch
  PROVE  Spec => [](TypeOK /\ ScanInv)
<1>1. Init => TypeOK /\ ScanInv
  BY TypeInit, InvInit
<1>2. TypeOK /\ ScanInv /\ [Next]_vars => TypeOK' /\ ScanInv'
  BY ZenonT(30), InvStep DEF PagesSuffice
<1> QED
  BY <1>1, <1>2, PTL DEF Spec

\* If paging is never cut between two pages, or one page holds the wallet, the
\* checkpoint never passes a registration that is neither stored nor
\* published: overlapping and repeated runs, stale reads, lagging liteservers,
\* crashes and lost replies lose nothing.
THEOREM NoRegistrationSkipped ==
  ASSUME Deadlines => MaxTx <= Batch
  PROVE  Spec => []CheckpointCovered
<1>1. ScanInv => CheckpointCovered
  BY DEF ScanInv
<1> QED
  BY <1>1, Invariance, PTL

\* A job that was started once publishes once and loses nothing to the
\* backend's dedup, whatever happens to the other jobs: the reaper may start
\* any pending job again at any time.
THEOREM RunOnce == Spec => []OnceInv
<1>1. Init => TypeOK /\ HasJob /\ OnceInv
  BY TypeInit DEF Init, HasJob, OnceInv
<1>2. TypeOK /\ HasJob /\ OnceInv /\ [Next]_vars => TypeOK' /\ HasJob' /\ OnceInv'
  BY ZenonT(30), TypeStep, OnceStep
<1> QED
  BY <1>1, <1>2, PTL DEF Spec

\* If the pages suffice, a registration at or below the checkpoint that the
\* backend has not stored is in a result it will store, or in a result of a job
\* that was started more than once: the dedup by job_id drops no other.
THEOREM NoOtherDropped ==
  ASSUME Deadlines => MaxTx <= Batch
  PROVE  Spec => []DroppedOnlyIfRepeated
<1>1. CheckpointCovered /\ OnceInv => DroppedOnlyIfRepeated
  <2> SUFFICES ASSUME CheckpointCovered, OnceInv, NEW l \in 1..checkpoint,
                      wallet[l] \in Keys, wallet[l] \notin known
               PROVE  \E r \in results : /\ r.job \notin processed \/ r.job \in again
                                         /\ wallet[l] \in r.keys
    BY DEF DroppedOnlyIfRepeated, Reported
  <2>1. PICK r \in results : wallet[l] \in r.keys
    BY DEF CheckpointCovered, Reported
  <2> QED
    BY <2>1 DEF OnceInv
<1> QED
  BY <1>1, NoRegistrationSkipped, RunOnce, PTL

-----------------------------------------------------------------------------
\* The cycle implements a feed.

\* What a step does to the feed: it leaves the checkpoint alone and takes back
\* no report, or it reports nothing (Apply stores what a result had reported).
LEMMA FeedEffect ==
  ASSUME TypeOK, [Next]_vars
  PROVE  /\ wallet' = wallet
         /\ \/ checkpoint' = checkpoint /\ known \subseteq known' /\ results \subseteq results'
            \/ \A l : Reported(l, results)' <=> Reported(l, results)
<1> USE DEF chainVars, backendVars, localVars
<1>1. CASE UNCHANGED vars
  BY <1>1 DEF vars
<1>2. CASE NewTx
  BY <1>2 DEF NewTx
<1>3. ASSUME NEW r \in results, Apply(r)
      PROVE  wallet' = wallet /\ \A l : Reported(l, results)' <=> Reported(l, results)
  <2>1. wallet' = wallet /\ results' = results /\ known' = known \cup r.keys
    BY <1>3 DEF Apply
  <2> QED
    BY <1>3, <2>1 DEF Reported
<1>4. ASSUME NEW w \in Workers, (\E j \in Jobs : Start(w, j)) \/ XAck(w) \/ Lose(w)
      PROVE  UNCHANGED <<wallet, checkpoint, known, results>>
  BY <1>4 DEF Start, XAck, Lose, Reset
<1>5. ASSUME NEW w \in Workers, CollectNewProviders(w), ~PublishResult(w),
             ~SetMasterWalletLT(w)
      PROVE  UNCHANGED <<wallet, checkpoint, known, results>>
  BY ZenonT(30), <1>5 DEF CollectNewProviders, GetMasterWalletLT, GetAllPubkeys, GetAccount,
              ListTransactions, NoTransactions, CutShort, Scan, HandlerFails
<1>6. ASSUME NEW w \in Workers, PublishResult(w)
      PROVE  UNCHANGED <<wallet, checkpoint, known>> /\ results \subseteq results'
  BY ZenonT(30), <1>6 DEF PublishResult
<1>7. ASSUME NEW w \in Workers, SetMasterWalletLT(w)
      PROVE  wallet' = wallet /\ \A l : Reported(l, results)' <=> Reported(l, results)
  BY ZenonT(30), <1>7 DEF SetMasterWalletLT, Reported
<1> QED
  BY <1>1, <1>2, <1>3, <1>4, <1>5, <1>6, <1>7 DEF Next

\* Every step is a step of the feed: where the checkpoint moves, what the new
\* one covers was reported before.
LEMMA FeedStep ==
  ASSUME TypeOK, TypeOK', ScanInv', [Next]_vars
  PROVE  [Feed!FeedNext]_(Feed!feedVars)
<1> DEFINE S == {l \in LTs : Reported(l, results)}
<1>1. CASE checkpoint' = checkpoint /\ known \subseteq known' /\ results \subseteq results'
  <2>1. S \subseteq S'
    BY <1>1, FeedEffect, ReportedStays
  <2> QED
    BY <1>1, <2>1 DEF Feed!FeedNext, Feed!Settle
<1>2. CASE \A l : Reported(l, results)' <=> Reported(l, results)
  <2>1. S' = S
    BY <1>2
  <2>2. \A l \in LTs : l <= checkpoint' => l \in S
    BY <1>2, MasterScanAssumption DEF ScanInv, CheckpointCovered, TypeOK, LTs
  <2> QED
    BY <2>1, <2>2 DEF Feed!FeedNext, Feed!SetMarks
<1> QED
  BY <1>1, <1>2, FeedEffect

\* CollectNewProviders and the backend implement a feed, when the pages
\* suffice: reports are final, and the LT is only written over reported ones.
THEOREM ScanIsAFeed ==
  ASSUME Deadlines => MaxTx <= Batch
  PROVE  Spec => ImplementsFeed
<1>1. Init => Feed!FeedInit
  BY DEF Init, Feed!FeedInit
<1>2. TypeOK /\ ScanInv /\ TypeOK' /\ ScanInv' /\ [Next]_vars
        => [Feed!FeedNext]_(Feed!feedVars)
  BY FeedStep
<1> QED
  BY <1>1, <1>2, Invariance, PTL DEF Spec, ImplementsFeed, Feed!FeedSpec
=============================================================================
