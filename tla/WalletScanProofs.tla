-------------------------- MODULE WalletScanProofs --------------------------
(***************************************************************************)
(* last_tx_lt never passes a withdrawal that was neither withheld nor      *)
(* reported, for any number of workers, jobs, providers, contracts and     *)
(* transactions, with wallets that providers may share.                    *)
(***************************************************************************)
EXTENDS WalletScan, TLAPS

\* The types hold initially.
LEMMA TypeInit == Init => TypeOK
<1> SUFFICES ASSUME Init PROVE TypeOK
  OBVIOUS
<1> USE WalletScanAssumption DEF Init
<1>1. 0 \in 0..MaxTx /\ 0 \in 0..MaxLosses
  BY SMT
<1>2. NoLT \in [Providers -> 0..MaxTx]
  BY <1>1 DEF NoLT
<1> HIDE DEF NoLT
<1>3. /\ jobs \in [Jobs -> {"queued", "pending", "closed"}]
      /\ pc \in [Workers -> PcState] /\ job \in [Workers -> Jobs \cup {NoJob}]
      /\ todo \in [Workers -> SUBSET Providers] /\ found \in [Workers -> SUBSET Relation]
      /\ from \in [Workers -> [Providers -> 0..MaxTx]]
      /\ last \in [Workers -> [Providers -> 0..MaxTx]]
  BY ZenonT(30), <1>2 DEF PcState
<1>4. /\ rows \subseteq Providers /\ lt \in [Providers -> 0..MaxTx]
      /\ stored \subseteq Relation /\ processed \subseteq Jobs /\ results \subseteq Result
      /\ again \subseteq Jobs /\ losses \in 0..MaxLosses /\ withheld \subseteq LTs
      /\ tx \in [LTs -> [to : Addrs, from : Contracts \cup {Other}]]
  BY <1>1, <1>2
<1>5. \A w \in Workers : pc[w] = "idle"
  OBVIOUS
<1> HIDE DEF Init
<1> QED
  BY ZenonT(30), <1>3, <1>4, <1>5 DEF TypeOK

\* Leaving the handler keeps the types of a run's locals.
LEMMA TypeLeave ==
  ASSUME TypeOK, NEW w \in Workers, NEW label \in PcState, Leave(w, label)
  PROVE  /\ pc' \in [Workers -> PcState] /\ todo' \in [Workers -> SUBSET Providers]
         /\ from' \in [Workers -> [Providers -> 0..MaxTx]]
         /\ found' \in [Workers -> SUBSET Relation]
         /\ last' \in [Workers -> [Providers -> 0..MaxTx]]
         /\ pc'[w] = label /\ \A v \in Workers \ {w} : pc'[v] = pc[v]
<1>1. NoLT \in [Providers -> 0..MaxTx]
  BY WalletScanAssumption DEF NoLT
<1> QED
  BY <1>1 DEF TypeOK, Leave, Goto

\* What Scan does to a run: some contracts of the wallet are merged, the LT
\* moves to that of a transaction, what is left out on the way is withheld.
LEMMA ScanFacts ==
  ASSUME TypeOK, NEW w \in Workers, NEW p \in Providers, Scan(w, p)
  PROVE  \E infos \in SUBSET Contracts, m \in 0..MaxTx :
            /\ found' = [found EXCEPT ![w] = @ \cup (infos \X {Addr[p]})]
            /\ last' = [last EXCEPT ![w][p] = IF m > from[w][p] THEN m ELSE 0]
            /\ withheld' = withheld \cup LeftOut(Addr[p], from[w][p], m, infos)
<1>1. PICK n \in 0..MaxTx : \E txs \in GetTransactions(Addr[p], from[w][p], n) :
        \E infos \in SUBSET Senders(txs), m \in LastLT(from[w][p], txs) :
          /\ found' = [found EXCEPT ![w] = @ \cup (infos \X {Addr[p]})]
          /\ last' = [last EXCEPT ![w][p] = IF m > from[w][p] THEN m ELSE 0]
          /\ withheld' = withheld \cup LeftOut(Addr[p], from[w][p], m, infos)
  BY ZenonT(30) DEF Scan
<1>2. PICK txs \in GetTransactions(Addr[p], from[w][p], n) :
        \E infos \in SUBSET Senders(txs), m \in LastLT(from[w][p], txs) :
          /\ found' = [found EXCEPT ![w] = @ \cup (infos \X {Addr[p]})]
          /\ last' = [last EXCEPT ![w][p] = IF m > from[w][p] THEN m ELSE 0]
          /\ withheld' = withheld \cup LeftOut(Addr[p], from[w][p], m, infos)
  BY ZenonT(30), <1>1
<1>3. txs \subseteq LTs
  BY DEF GetTransactions, WalletTxs
<1>4. SUBSET Senders(txs) \subseteq SUBSET Contracts
  BY DEF Senders, Withdrawals
<1>5. from[w][p] \in 0..MaxTx
  BY DEF TypeOK
<1>6. LastLT(from[w][p], txs) \subseteq 0..MaxTx
  <2>1. Withdrawals(txs) \subseteq 0..MaxTx
    <3>1. LTs \subseteq 0..MaxTx
      BY SMTT(30), WalletScanAssumption DEF LTs
    <3> QED
      BY ZenonT(30), <1>3, <3>1 DEF Withdrawals
  <2>2. {from[w][p]} \cup Withdrawals(txs) \subseteq 0..MaxTx
    BY ZenonT(30), <1>5, <2>1
  <2> QED
    BY ZenonT(30), <2>2 DEF LastLT, Newest
<1> QED
  BY ZenonT(30), <1>2, <1>4, <1>6

\* Every step preserves the types.
LEMMA TypeStep == TypeOK /\ [Next]_vars => TypeOK'
<1> SUFFICES ASSUME TypeOK, [Next]_vars PROVE TypeOK'
  OBVIOUS
<1> USE WalletScanAssumption DEF tableVars, jobVars
<1>1. CASE UNCHANGED vars
  BY <1>1 DEF TypeOK, vars, localVars
<1>2. CASE \E p \in Providers : Register(p)
  BY ZenonT(30), <1>2 DEF TypeOK, Register, localVars
<1>3. ASSUME NEW r \in results, Apply(r) PROVE TypeOK'
  <2>1. r.job \in Jobs /\ r.rels \subseteq Relation /\ r.lts \in [Providers -> 0..MaxTx]
    BY <1>3 DEF TypeOK, Result
  <2>2. lt' \in [Providers -> 0..MaxTx]
    BY <1>3, <2>1 DEF TypeOK, Apply
  <2>3. processed' \subseteq Jobs /\ stored' \subseteq Relation
    BY <1>3, <2>1 DEF TypeOK, Apply
  <2> QED
    BY ZenonT(30), <1>3, <2>2, <2>3 DEF TypeOK, Apply, localVars
<1>4. ASSUME NEW w \in Workers, NEW j \in Jobs, Start(w, j) PROVE TypeOK'
  <2>1. /\ pc' \in [Workers -> PcState] /\ job' \in [Workers -> Jobs \cup {NoJob}]
        /\ jobs' \in [Jobs -> {"queued", "pending", "closed"}] /\ again' \subseteq Jobs
    BY <1>4 DEF TypeOK, Start, Goto, PcState
  <2>2. \A v \in Workers : pc'[v] # "idle" => job'[v] \in Jobs
    BY <1>4 DEF TypeOK, Start, Goto
  <2> QED
    BY ZenonT(30), <1>4, <2>1, <2>2 DEF TypeOK, Start
<1>5. ASSUME NEW w \in Workers, GetAllWallets(w) PROVE TypeOK'
  <2>1. /\ pc' \in [Workers -> PcState] /\ todo' \in [Workers -> SUBSET Providers]
        /\ from' \in [Workers -> [Providers -> 0..MaxTx]]
    BY <1>5 DEF TypeOK, GetAllWallets, Goto, PcState
  <2>2. \A v \in Workers : pc'[v] # "idle" => job'[v] \in Jobs
    BY <1>5 DEF TypeOK, GetAllWallets, Goto
  <2> QED
    BY ZenonT(30), <1>5, <2>1, <2>2 DEF TypeOK, GetAllWallets
<1>6. ASSUME NEW w \in Workers, NEW p \in Providers, Scan(w, p) PROVE TypeOK'
  <2>1. PICK infos \in SUBSET Contracts, m \in 0..MaxTx :
            /\ found' = [found EXCEPT ![w] = @ \cup (infos \X {Addr[p]})]
            /\ last' = [last EXCEPT ![w][p] = IF m > from[w][p] THEN m ELSE 0]
            /\ withheld' = withheld \cup LeftOut(Addr[p], from[w][p], m, infos)
    BY <1>6, ScanFacts
  <2>5. from[w] \in [Providers -> 0..MaxTx] /\ last[w] \in [Providers -> 0..MaxTx]
    BY DEF TypeOK
  <2>7. infos \X {Addr[p]} \subseteq Relation
    BY DEF Relation
  <2>8. found' \in [Workers -> SUBSET Relation]
    BY <2>1, <2>7 DEF TypeOK
  <2>9. last' \in [Workers -> [Providers -> 0..MaxTx]]
    BY <2>1, <2>5 DEF TypeOK
  <2>10. withheld' \subseteq LTs
    BY <2>1 DEF TypeOK, LeftOut, Withdrawals, WalletTxs
  <2>11. todo' \in [Workers -> SUBSET Providers]
    BY <1>6 DEF TypeOK, Scan
  <2> QED
    BY ZenonT(30), <1>6, <2>8, <2>9, <2>10, <2>11 DEF TypeOK, Scan
<1>7. ASSUME NEW w \in Workers, NEW p \in Providers, ScanSkips(w, p) PROVE TypeOK'
  BY <1>7 DEF TypeOK, ScanSkips
<1>8. ASSUME NEW w \in Workers, PublishResult(w) PROVE TypeOK'
  <2>1. [job |-> job[w], rels |-> found[w], lts |-> last[w]] \in Result
    BY <1>8 DEF TypeOK, PublishResult, Result
  <2>2. results' \subseteq Result
    BY <1>8, <2>1 DEF TypeOK, PublishResult
  <2>3. CASE Leave(w, "end")
    <3>1. "end" \in PcState
      BY DEF PcState
    <3> QED
      BY SMTT(30), <1>8, <2>2, <2>3, <3>1, TypeLeave DEF TypeOK, PublishResult
  <2>4. CASE Goto(w, "save") /\ UNCHANGED <<todo, from, found, last>>
    <3>1. pc' \in [Workers -> PcState] /\ \A v \in Workers : pc'[v] # "idle" => job[v] \in Jobs
      BY <1>8, <2>4 DEF TypeOK, Goto, PcState, PublishResult
    <3> QED
      BY ZenonT(30), <1>8, <2>2, <2>4, <3>1 DEF TypeOK, PublishResult
  <2> QED
    BY <1>8, <2>3, <2>4 DEF PublishResult
<1>9. ASSUME NEW w \in Workers, UpdateLT(w) PROVE TypeOK'
  <2>1. "end" \in PcState
    BY DEF PcState
  <2>2. last[w] \in [Providers -> 0..MaxTx]
    BY DEF TypeOK
  <2>3. lt' \in [Providers -> 0..MaxTx]
    BY <1>9, <2>2 DEF TypeOK, UpdateLT, SavedLTs
  <2> QED
    BY SMTT(30), <1>9, <2>1, <2>3, TypeLeave DEF TypeOK, UpdateLT
<1>10. ASSUME NEW w \in Workers, HandlerFails(w) PROVE TypeOK'
  <2>1. "end" \in PcState
    BY DEF PcState
  <2> QED
    BY SMTT(30), <1>10, <2>1, TypeLeave DEF TypeOK, HandlerFails
<1>11. ASSUME NEW w \in Workers, XAck(w) \/ Lose(w) PROVE TypeOK'
  <2>1. "idle" \in PcState /\ Leave(w, "idle")
    BY <1>11 DEF PcState, XAck, Lose
  <2>2. losses' \in 0..MaxLosses
    <3>1. CASE XAck(w)
      BY <3>1 DEF TypeOK, XAck
    <3>2. CASE Lose(w)
      BY SMTT(30), <3>2 DEF TypeOK, Lose
    <3> QED
      BY <1>11, <3>1, <3>2
  <2>3. jobs' \in [Jobs -> {"queued", "pending", "closed"}]
    BY ZenonT(30), <1>11 DEF TypeOK, XAck, Lose
  <2>4. job' = [job EXCEPT ![w] = NoJob]
    BY <1>11 DEF XAck, Lose
  <2>5. UNCHANGED <<tx, tableVars, results, again, withheld>>
    BY <1>11 DEF XAck, Lose
  <2>6. job' \in [Workers -> Jobs \cup {NoJob}]
    BY <2>4 DEF TypeOK
  <2>7. \A v \in Workers : pc'[v] # "idle" => job'[v] \in Jobs
    BY SMTT(30), <2>1, <2>4, TypeLeave DEF TypeOK
  <2> QED
    BY ZenonT(30), <2>1, <2>2, <2>3, <2>5, <2>6, <2>7, TypeLeave DEF TypeOK
<1> QED
  BY <1>1, <1>2, <1>3, <1>4, <1>5, <1>6, <1>7, <1>8, <1>9, <1>10, <1>11
  DEF Next, WorkerStep

\* CollectStorageContracts and the tables it shares keep their types.
THEOREM TypeCorrect == Spec => []TypeOK
BY TypeInit, TypeStep, PTL DEF Spec

-----------------------------------------------------------------------------
\* Preservation of WalletInv.

\* A withdrawal once seen stays seen: relations are never removed, results
\* never unpublished.
LEMMA SeenStays ==
  ASSUME tx' = tx, stored \subseteq stored', results \subseteq results',
         withheld \subseteq withheld', NEW l
  PROVE  Seen(l, Reported) => Seen(l, Reported)'
<1>1. Reported \subseteq Reported'
  BY DEF Reported
<1> HIDE DEF Reported
<1> QED
  BY <1>1 DEF Seen

\* A run is not disturbed by the steps of others.
localOf(v) == <<pc[v], from[v], found[v], last[v]>>
LEMMA OthersKeep ==
  ASSUME tx' = tx, stored \subseteq stored', results \subseteq results',
         withheld \subseteq withheld',
         NEW v \in Workers, UNCHANGED localOf(v), RunInv(v)
  PROVE  RunInv(v)'
<1>1. Reported \subseteq Reported'
  BY DEF Reported
<1> HIDE DEF Reported
<1> QED
  BY SMTT(30), <1>1 DEF RunInv, CoveredBy, WalletTxs, Seen, localOf

\* A step of worker w that leaves the tables and the results alone keeps
\* WalletInv if it keeps w's own part of it.
LEMMA LocalStep ==
  ASSUME WalletInv, NEW w \in Workers,
         tx' = tx, lt' = lt, stored' = stored, results' = results,
         withheld \subseteq withheld',
         \A v \in Workers \ {w} : UNCHANGED localOf(v),
         RunInv(w)'
  PROVE  WalletInv'
<1>1. \A v \in Workers \ {w} : RunInv(v)'
  BY OthersKeep DEF WalletInv
<1>2. \A l : Seen(l, Reported) => Seen(l, Reported)'
  BY SeenStays
<1>3. \A p \in Providers : CoveredBy(Addr[p], lt[p], Reported)'
  BY <1>2 DEF WalletInv, CoveredBy, WalletTxs
<1>4. \A r \in results', p \in Providers : CoveredBy(Addr[p], r.lts[p], Reported)'
  BY <1>2 DEF WalletInv, CoveredBy, WalletTxs
<1> QED
  BY <1>1, <1>3, <1>4 DEF WalletInv

\* A handler that has been left holds nothing that needs cover.
LEMMA LeaveKeeps ==
  ASSUME TypeOK, NEW w \in Workers, NEW label \in {"idle", "end"}, Leave(w, label)
  PROVE  RunInv(w)' /\ \A v \in Workers \ {w} : UNCHANGED localOf(v)
<1>1. \A v \in Workers \ {w} : UNCHANGED localOf(v)
  BY DEF Leave, Goto, localOf, TypeOK
<1>2. pc'[w] # "save" /\ from'[w] = NoLT /\ last'[w] = NoLT
  BY DEF Leave, Goto, TypeOK
<1>3. \A p \in Providers : from'[w][p] = 0 /\ last'[w][p] = 0
  BY <1>2 DEF NoLT
<1>4. \A a : WalletTxs(a, 0)' = {}
  BY SMTT(30), WalletScanAssumption DEF WalletTxs, LTs
<1>5. RunInv(w)'
  BY <1>2, <1>3, <1>4 DEF RunInv, CoveredBy
<1> QED
  BY <1>1, <1>5

\* Nothing lies at or below LT 0.
LEMMA InvInit == Init => WalletInv
<1> SUFFICES ASSUME Init PROVE WalletInv
  OBVIOUS
<1>1. \A a : WalletTxs(a, 0) = {}
  BY SMTT(30), WalletScanAssumption DEF WalletTxs, LTs
<1>2. \A p \in Providers : /\ lt[p] = 0
                           /\ \A w \in Workers : from[w][p] = 0 /\ last[w][p] = 0
  BY DEF Init, NoLT
<1>3. results = {} /\ \A w \in Workers : pc[w] = "idle"
  BY DEF Init
<1> QED
  BY <1>1, <1>2, <1>3 DEF WalletInv, RunInv, CoveredBy

\* The LTs of a result are covered, so the backend may store them any time.
LEMMA InvApply ==
  ASSUME TypeOK, WalletInv, NEW r \in results, Apply(r)
  PROVE  WalletInv'
<1> USE DEF localVars
<1>1. /\ tx' = tx /\ stored \subseteq stored' /\ results' = results /\ withheld' = withheld
      /\ \A v \in Workers : UNCHANGED localOf(v)
  BY DEF Apply, localOf
<1>2. \A l : Seen(l, Reported) => Seen(l, Reported)'
  BY <1>1, SeenStays
<1>3. \A v \in Workers : RunInv(v)'
  BY <1>1, OthersKeep DEF WalletInv
<1>4. \A p \in Providers : lt'[p] \in {lt[p], r.lts[p]}
  BY DEF Apply
<1>5. \A p \in Providers : CoveredBy(Addr[p], lt[p], Reported)'
  BY <1>1, <1>2, <1>4 DEF WalletInv, CoveredBy, WalletTxs
<1>6. \A s \in results', p \in Providers : CoveredBy(Addr[p], s.lts[p], Reported)'
  BY <1>1, <1>2 DEF WalletInv, CoveredBy, WalletTxs
<1> QED
  BY <1>3, <1>5, <1>6 DEF WalletInv

\* Starting, reading the wallets and skipping one leave a run covered: what
\* GetAllWallets reads is the LT in the table.
LEMMA InvReads ==
  ASSUME TypeOK, WalletInv, NEW w \in Workers,
         \/ \E j \in Jobs : Start(w, j)
         \/ GetAllWallets(w)
         \/ \E p \in Providers : ScanSkips(w, p)
  PROVE  WalletInv'
<1>1. /\ tx' = tx /\ lt' = lt /\ stored' = stored /\ results' = results /\ withheld' = withheld
      /\ found' = found /\ last' = last /\ pc'[w] # "save"
      /\ from'[w] \in {from[w], lt}
      /\ \A v \in Workers \ {w} : UNCHANGED localOf(v)
  BY SMTT(30) DEF Start, GetAllWallets, ScanSkips, Goto, tableVars, localOf, TypeOK
<1>2. Reported' = Reported
  BY <1>1 DEF Reported
<1> HIDE DEF Reported
<1>3. RunInv(w)'
  BY SMTT(30), <1>1, <1>2 DEF WalletInv, RunInv, CoveredBy, WalletTxs, Seen
<1> QED
  BY <1>1, <1>3, LocalStep

\* The scan of a wallet: what lies above fromLT and up to lastLT is merged or
\* withheld, what lies below was covered when the LT was read.
LEMMA InvScan ==
  ASSUME TypeOK, WalletInv, NEW w \in Workers, NEW p \in Providers, Scan(w, p)
  PROVE  WalletInv'
<1>1. PICK infos \in SUBSET Contracts, m \in 0..MaxTx :
            /\ found' = [found EXCEPT ![w] = @ \cup (infos \X {Addr[p]})]
            /\ last' = [last EXCEPT ![w][p] = IF m > from[w][p] THEN m ELSE 0]
            /\ withheld' = withheld \cup LeftOut(Addr[p], from[w][p], m, infos)
  BY ScanFacts
<1>2. /\ tx' = tx /\ lt' = lt /\ stored' = stored /\ results' = results
      /\ pc' = pc /\ from' = from /\ pc[w] = "scan"
  BY DEF Scan, tableVars
<1>3. \A v \in Workers \ {w} : UNCHANGED localOf(v)
  BY <1>1, <1>2 DEF localOf, TypeOK
<1>4. /\ found'[w] = found[w] \cup (infos \X {Addr[p]})
      /\ last'[w][p] = IF m > from[w][p] THEN m ELSE 0
      /\ \A q \in Providers \ {p} : last'[w][q] = last[w][q]
  BY <1>1 DEF TypeOK
<1>5. \A l : Seen(l, Reported) => Seen(l, Reported)'
  BY <1>1, <1>2, SeenStays
<1>6. \A l : Seen(l, Reported \cup found[w]) => Seen(l, Reported \cup found[w])'
  <2>1. Reported' = Reported
    BY <1>2 DEF Reported
  <2> HIDE DEF Reported
  <2> QED
    BY <1>1, <1>2, <1>4, <2>1 DEF Seen
<1>7. \A q \in Providers : CoveredBy(Addr[q], from[w][q], Reported)'
  BY ZenonT(30), <1>2, <1>5 DEF WalletInv, RunInv, CoveredBy, WalletTxs
<1>8. ASSUME NEW l \in WalletTxs(Addr[p], last[w][p])'
      PROVE  Seen(l, Reported \cup found[w])'
  <2>1. from[w][p] \in Nat /\ l \in Nat /\ l > 0 /\ l \in LTs /\ tx[l].to = Addr[p]
    BY <1>2, WalletScanAssumption DEF TypeOK, WalletTxs, LTs
  <2>2. l <= m
    BY <1>4, <2>1 DEF WalletTxs
  <2>3. CASE l <= from[w][p]
    <3>1. l \in WalletTxs(Addr[p], from[w][p])
      BY <2>1, <2>3 DEF WalletTxs
    <3>2. Seen(l, Reported)
      BY ZenonT(30), <3>1 DEF WalletInv, RunInv, CoveredBy
    <3>3. Seen(l, Reported)'
      BY <1>5, <3>2
    <3> QED
      BY <3>3 DEF Seen
  <2>4. CASE l > from[w][p] /\ tx[l].from \in infos
    <3>1. <<tx[l].from, tx[l].to>> \in found'[w]
      BY <1>4, <2>1, <2>4
    <3> QED
      BY <1>2, <3>1 DEF Seen
  <2>5. CASE l > from[w][p] /\ tx[l].from \notin infos
    <3>1. tx[l].from \in Contracts => l \in LeftOut(Addr[p], from[w][p], m, infos)
      BY <2>1, <2>2, <2>5 DEF LeftOut, Withdrawals, WalletTxs
    <3> QED
      BY <1>1, <1>2, <3>1 DEF Seen
  <2> QED
    BY <2>1, <2>3, <2>4, <2>5
<1>9. \A q \in Providers : CoveredBy(Addr[q], last[w][q], Reported \cup found[w])'
  <2>1. CoveredBy(Addr[p], last[w][p], Reported \cup found[w])'
    BY <1>8 DEF CoveredBy
  <2>2. ASSUME NEW q \in Providers \ {p}
        PROVE  CoveredBy(Addr[q], last[w][q], Reported \cup found[w])'
    BY ZenonT(30), <1>2, <1>4, <1>6 DEF WalletInv, RunInv, CoveredBy, WalletTxs
  <2> QED
    BY <2>1, <2>2
<1>10. RunInv(w)'
  BY ZenonT(30), <1>2, <1>7, <1>9 DEF RunInv
<1> QED
  BY <1>1, <1>2, <1>3, <1>10, LocalStep

\* The result that is published covers its own LTs.
LEMMA InvPublish ==
  ASSUME TypeOK, WalletInv, NEW w \in Workers, PublishResult(w)
  PROVE  WalletInv'
<1> DEFINE res == [job |-> job[w], rels |-> found[w], lts |-> last[w]]
<1>1. /\ tx' = tx /\ lt' = lt /\ stored' = stored /\ withheld' = withheld
      /\ results' = results \cup {res}
  BY DEF PublishResult, tableVars
<1>2. /\ results \subseteq results' /\ res \in results'
      /\ res.lts = last[w] /\ res.rels = found[w]
  BY <1>1
<1>3. \A l : Seen(l, Reported) => Seen(l, Reported)'
  BY <1>1, <1>2, SeenStays
<1>4. Reported \cup found[w] \subseteq Reported'
  <2> HIDE DEF res
  <2> QED
    BY <1>1, <1>2 DEF Reported
<1>5. \A p \in Providers : \A l \in WalletTxs(Addr[p], last[w][p]) : Seen(l, Reported)'
  <2> HIDE DEF res
  <2> QED
    BY <1>1, <1>4 DEF WalletInv, RunInv, CoveredBy, Seen
<1>6. \A p \in Providers : CoveredBy(Addr[p], lt[p], Reported)'
  BY <1>1, <1>3 DEF WalletInv, CoveredBy, WalletTxs
<1>7. \A r \in results', p \in Providers : CoveredBy(Addr[p], r.lts[p], Reported)'
  <2>1. ASSUME NEW r \in results', NEW p \in Providers
        PROVE  \A l \in WalletTxs(Addr[p], r.lts[p]) : Seen(l, Reported)'
    <3>1. CASE r \in results
      BY <1>3, <3>1 DEF WalletInv, CoveredBy
    <3>2. CASE r = res
      <4>1. r.lts[p] = last[w][p]
        BY <3>2
      <4> HIDE DEF res
      <4> QED
        BY <1>5, <4>1
    <3> HIDE DEF res
    <3> QED
      BY <1>1, <3>1, <3>2
  <2> HIDE DEF res
  <2> QED
    BY <1>1, <2>1 DEF CoveredBy, WalletTxs
<1> HIDE DEF res
<1>8. RunInv(w)' /\ \A v \in Workers \ {w} : UNCHANGED localOf(v)
  <2>1. CASE Leave(w, "end")
    BY <2>1, LeaveKeeps
  <2>2. CASE Goto(w, "save") /\ UNCHANGED <<todo, from, found, last>>
    <3>1. \A v \in Workers \ {w} : UNCHANGED localOf(v)
      BY <2>2 DEF Goto, localOf, TypeOK
    <3>2. \A p \in Providers : CoveredBy(Addr[p], from[w][p], Reported)'
      BY ZenonT(30), <1>1, <1>3, <2>2 DEF WalletInv, RunInv, CoveredBy, WalletTxs
    <3>3. \A p \in Providers : CoveredBy(Addr[p], last[w][p], Reported \cup found[w])'
      BY <1>1, <1>5, <2>2 DEF CoveredBy, WalletTxs, Seen
    <3>4. found'[w] \subseteq Reported'
      BY <1>4, <2>2
    <3> QED
      BY <3>1, <3>2, <3>3, <3>4 DEF RunInv
  <2> QED
    BY <2>1, <2>2 DEF PublishResult
<1>9. \A v \in Workers \ {w} : RunInv(v)'
  BY <1>1, <1>2, <1>8, OthersKeep DEF WalletInv
<1> QED
  BY <1>6, <1>7, <1>8, <1>9 DEF WalletInv

\* UpdateLT stores LTs whose relations have been published, also when it
\* overwrites a larger LT (provider.go:836).
LEMMA InvSave ==
  ASSUME TypeOK, WalletInv, NEW w \in Workers, UpdateLT(w)
  PROVE  WalletInv'
<1>1. /\ tx' = tx /\ stored' = stored /\ results' = results /\ withheld' = withheld
      /\ pc[w] = "save" /\ Leave(w, "end")
  BY DEF UpdateLT
<1>2. RunInv(w)' /\ \A v \in Workers \ {w} : UNCHANGED localOf(v)
  BY <1>1, LeaveKeeps
<1>3. \A v \in Workers \ {w} : RunInv(v)'
  BY <1>1, <1>2, OthersKeep DEF WalletInv
<1>4. \A l : Seen(l, Reported) => Seen(l, Reported)'
  BY <1>1, SeenStays
<1>5. \A p \in Providers : lt'[p] \in {lt[p], last[w][p]}
  BY DEF UpdateLT, SavedLTs
<1>6. \A p \in Providers : CoveredBy(Addr[p], last[w][p], Reported)
  <2>1. found[w] \subseteq Reported
    BY ZenonT(30), <1>1 DEF WalletInv, RunInv
  <2> HIDE DEF Reported
  <2> QED
    BY <2>1 DEF WalletInv, RunInv, CoveredBy, Seen
<1>7. \A p \in Providers : CoveredBy(Addr[p], lt[p], Reported)'
  BY <1>1, <1>4, <1>5, <1>6 DEF WalletInv, CoveredBy, WalletTxs
<1>8. \A r \in results', p \in Providers : CoveredBy(Addr[p], r.lts[p], Reported)'
  BY <1>1, <1>4 DEF WalletInv, CoveredBy, WalletTxs
<1> QED
  BY <1>2, <1>3, <1>7, <1>8 DEF WalletInv

\* Every step preserves WalletInv.
LEMMA InvStep == TypeOK /\ WalletInv /\ [Next]_vars => WalletInv'
<1> SUFFICES ASSUME TypeOK, WalletInv, [Next]_vars PROVE WalletInv'
  OBVIOUS
<1>1. CASE UNCHANGED vars \/ \E p \in Providers : Register(p)
  <2>1. /\ tx' = tx /\ lt' = lt /\ stored' = stored /\ results' = results
        /\ withheld' = withheld /\ pc' = pc /\ from' = from /\ found' = found /\ last' = last
    BY <1>1 DEF vars, tableVars, localVars, Register
  <2> QED
    BY <2>1 DEF WalletInv, RunInv, CoveredBy, WalletTxs, Seen, Reported
<1>2. ASSUME NEW w \in Workers, HandlerFails(w) \/ XAck(w) \/ Lose(w) PROVE WalletInv'
  <2>1. /\ tx' = tx /\ lt' = lt /\ stored' = stored /\ results' = results
        /\ withheld' = withheld /\ (Leave(w, "end") \/ Leave(w, "idle"))
    BY <1>2 DEF HandlerFails, XAck, Lose, tableVars
  <2> QED
    BY <2>1, LeaveKeeps, LocalStep
<1> QED
  BY <1>1, <1>2, InvApply, InvReads, InvScan, InvPublish, InvSave DEF Next, WorkerStep

\* WalletInv is an invariant.
THEOREM Invariance == Spec => []WalletInv
<1>1. Init => TypeOK /\ WalletInv
  BY TypeInit, InvInit
<1>2. TypeOK /\ WalletInv /\ [Next]_vars => (TypeOK /\ WalletInv)'
  BY TypeStep, InvStep
<1> QED
  BY <1>1, <1>2, PTL DEF Spec

\* last_tx_lt never passes a withdrawal that arrived complete and is in no
\* result, whatever runs overlap, fail or are lost.
THEOREM NoWithdrawalSkipped == Spec => []WalletsCovered
<1>1. TypeOK /\ WalletInv => WalletsCovered
  BY DEF TypeOK, WalletInv, WalletsCovered
<1> QED
  BY <1>1, TypeCorrect, Invariance, PTL

-----------------------------------------------------------------------------
\* Preservation of OnceInv.

\* A run that neither starts nor publishes keeps its job to itself; it may
\* end, close its job and give it up.
LEMMA OnceLocal ==
  ASSUME TypeOK, OnceInv, NEW w \in Workers,
         pc[w] # "idle", pc'[w] \in {"rows", "scan"} => pc[w] \in {"rows", "scan"},
         pc'[w] # "idle" => job'[w] = job[w],
         \A v \in Workers \ {w} : pc'[v] = pc[v] /\ job'[v] = job[v],
         \A j \in Jobs : jobs'[j] = "queued" => jobs[j] = "queued",
         UNCHANGED <<stored, processed, results, again>>
  PROVE  OnceInv'
<1>1. \A r \in results : r.job \in Jobs
  BY DEF TypeOK, Result
<1>2. \A v \in Workers : pc[v] # "idle" => job[v] \in Jobs
  BY DEF TypeOK
<1>3. \A v \in Workers : pc'[v] # "idle" =>
        /\ pc[v] # "idle" /\ job'[v] = job[v]
        /\ pc'[v] \in {"rows", "scan"} => pc[v] \in {"rows", "scan"}
  OBVIOUS
<1>4. /\ \A r \in results' : jobs'[r.job] # "queued"
      /\ \A j \in processed' : \E r \in results' : r.job = j
      /\ \A r \in results' : r.job \notin again' =>
           /\ r.job \in processed' => r.rels \subseteq stored'
           /\ \A s \in results' : s.job = r.job => s = r
  BY <1>1 DEF OnceInv
<1>5. ASSUME NEW v \in Workers, pc'[v] # "idle"
      PROVE  /\ jobs'[job'[v]] # "queued"
             /\ job'[v] \notin again' =>
                  /\ \A u \in Workers : pc'[u] # "idle" /\ job'[u] = job'[v] => u = v
                  /\ pc'[v] \in {"rows", "scan"} => \A r \in results' : r.job # job'[v]
  BY <1>2, <1>3, <1>5 DEF OnceInv
<1> QED
  BY <1>4, <1>5 DEF OnceInv

\* A queued job is nobody's, and one that is pending joins again.
LEMMA OnceStart ==
  ASSUME TypeOK, OnceInv, NEW w \in Workers, NEW j \in Jobs, Start(w, j)
  PROVE  OnceInv'
<1>1. /\ pc[w] = "idle" /\ jobs[j] \in {"queued", "pending"}
      /\ UNCHANGED <<stored, processed, results>>
      /\ jobs' = [jobs EXCEPT ![j] = "pending"]
      /\ pc' = [pc EXCEPT ![w] = "rows"] /\ job' = [job EXCEPT ![w] = j]
      /\ again' = IF jobs[j] = "pending" THEN again \cup {j} ELSE again
  BY DEF Start, tableVars, Goto
<1>2. /\ pc'[w] = "rows" /\ job'[w] = j
      /\ \A v \in Workers \ {w} : pc'[v] = pc[v] /\ job'[v] = job[v]
      /\ jobs'[j] = "pending" /\ \A i \in Jobs \ {j} : jobs'[i] = jobs[i]
  BY <1>1 DEF TypeOK
<1>3. again \subseteq again' /\ (j \notin again' => jobs[j] = "queued")
  BY <1>1
<1>4. \A r \in results : r.job \in Jobs /\ (j \notin again' => r.job # j)
  BY <1>3 DEF OnceInv, TypeOK, Result
<1>5. \A v \in Workers : pc[v] # "idle" => job[v] \in Jobs /\ (j \notin again' => job[v] # j)
  BY <1>3 DEF OnceInv, TypeOK
<1>6. /\ \A r \in results' : jobs'[r.job] # "queued"
      /\ \A i \in processed' : \E r \in results' : r.job = i
      /\ \A r \in results' : r.job \notin again' =>
           /\ r.job \in processed' => r.rels \subseteq stored'
           /\ \A s \in results' : s.job = r.job => s = r
  BY <1>1, <1>2, <1>3, <1>4 DEF OnceInv
<1>7. ASSUME NEW v \in Workers, pc'[v] # "idle"
      PROVE  /\ jobs'[job'[v]] # "queued"
             /\ job'[v] \notin again' =>
                  /\ \A u \in Workers : pc'[u] # "idle" /\ job'[u] = job'[v] => u = v
                  /\ pc'[v] \in {"rows", "scan"} => \A r \in results' : r.job # job'[v]
  <2>1. CASE v = w
    BY <1>1, <1>2, <1>4, <1>5, <2>1
  <2>2. CASE v # w
    <3>1. pc[v] # "idle" /\ pc'[v] = pc[v] /\ job'[v] = job[v] /\ job[v] \in Jobs
      BY <1>2, <1>5, <1>7, <2>2
    <3>2. jobs'[job[v]] # "queued"
      BY <1>2, <3>1 DEF OnceInv
    <3>3. ASSUME job[v] \notin again'
          PROVE  \A u \in Workers : pc'[u] # "idle" /\ job'[u] = job[v] => u = v
      BY <1>2, <1>3, <1>5, <3>1, <3>3 DEF OnceInv
    <3> QED
      BY <1>1, <1>3, <3>1, <3>2, <3>3 DEF OnceInv
  <2> QED
    BY <2>1, <2>2
<1> QED
  BY <1>6, <1>7 DEF OnceInv

\* The result of a job that was started once is its first, and the job is not
\* processed before it is there.
LEMMA OncePublish ==
  ASSUME TypeOK, OnceInv, NEW w \in Workers, PublishResult(w)
  PROVE  OnceInv'
<1> DEFINE res == [job |-> job[w], rels |-> found[w], lts |-> last[w]]
<1>1. /\ pc[w] = "scan" /\ pc'[w] \in {"save", "end"}
      /\ \A v \in Workers \ {w} : pc'[v] = pc[v]
      /\ UNCHANGED <<stored, processed, jobs, again, job>> /\ results' = results \cup {res}
  BY DEF PublishResult, Leave, tableVars, jobVars, Goto, TypeOK
<1>2. res.job = job[w]
  BY ZenonT(30)
<1> HIDE DEF res
<1>3. jobs[job[w]] # "queued"
  BY <1>1 DEF OnceInv
<1>4. job[w] \notin again => job[w] \notin processed /\ \A r \in results : r.job # job[w]
  BY <1>1 DEF OnceInv
<1>5. job[w] \notin again => \A v \in Workers \ {w} : pc[v] # "idle" => job[v] # job[w]
  BY <1>1 DEF OnceInv
<1>6. /\ \A r \in results' : jobs'[r.job] # "queued"
      /\ \A j \in processed' : \E r \in results' : r.job = j
  BY <1>1, <1>2, <1>3 DEF OnceInv
<1>7. \A r \in results' : r.job \notin again' =>
           /\ r.job \in processed' => r.rels \subseteq stored'
           /\ \A s \in results' : s.job = r.job => s = r
  BY <1>1, <1>2, <1>4 DEF OnceInv
<1>8. ASSUME NEW v \in Workers, pc'[v] # "idle"
      PROVE  /\ jobs'[job'[v]] # "queued"
             /\ job'[v] \notin again' =>
                  /\ \A u \in Workers : pc'[u] # "idle" /\ job'[u] = job'[v] => u = v
                  /\ pc'[v] \in {"rows", "scan"} => \A r \in results' : r.job # job'[v]
  BY <1>1, <1>2, <1>5, <1>8 DEF OnceInv
<1> QED
  BY <1>6, <1>7, <1>8 DEF OnceInv

\* Every step preserves OnceInv.
LEMMA OnceStep == TypeOK /\ OnceInv /\ [Next]_vars => OnceInv'
<1> SUFFICES ASSUME TypeOK, OnceInv, [Next]_vars PROVE OnceInv'
  OBVIOUS
<1>1. CASE UNCHANGED vars \/ \E p \in Providers : Register(p)
  <2>1. UNCHANGED <<stored, processed, results, jobs, again, pc, job>>
    BY <1>1 DEF vars, tableVars, jobVars, localVars, Register
  <2> QED
    BY <2>1 DEF OnceInv
<1>2. ASSUME NEW r \in results, Apply(r) PROVE OnceInv'
  <2>1. /\ processed' = processed \cup {r.job} /\ stored' = stored \cup r.rels
        /\ UNCHANGED <<results, jobs, again, pc, job>>
    BY <1>2 DEF Apply, jobVars, localVars
  <2>2. \A s \in results : s.job \notin again /\ s.job \in processed' => s.rels \subseteq stored'
    BY <2>1 DEF OnceInv
  <2>3. \A j \in processed' : \E s \in results' : s.job = j
    BY <2>1 DEF OnceInv
  <2> QED
    BY <2>1, <2>2, <2>3 DEF OnceInv
<1>3. ASSUME NEW w \in Workers, XAck(w) \/ Lose(w) PROVE OnceInv'
  <2>1. /\ pc[w] # "idle" /\ UNCHANGED <<stored, processed, results, again>>
        /\ pc' = [pc EXCEPT ![w] = "idle"] /\ job' = [job EXCEPT ![w] = NoJob]
        /\ jobs' = jobs \/ jobs' = [jobs EXCEPT ![job[w]] = "closed"]
    BY <1>3 DEF XAck, Lose, Leave, Goto, tableVars
  <2>2. /\ pc'[w] = "idle"
        /\ \A v \in Workers \ {w} : pc'[v] = pc[v] /\ job'[v] = job[v]
        /\ \A j \in Jobs : jobs'[j] = "queued" => jobs[j] = "queued"
    BY <2>1 DEF TypeOK
  <2> QED
    BY <2>1, <2>2, OnceLocal
<1>4. ASSUME NEW w \in Workers,
             \/ GetAllWallets(w) \/ UpdateLT(w) \/ HandlerFails(w)
             \/ \E p \in Providers : Scan(w, p) \/ ScanSkips(w, p)
      PROVE  OnceInv'
  <2>1. /\ pc[w] # "idle" /\ (pc'[w] \in {"rows", "scan"} => pc[w] \in {"rows", "scan"})
        /\ \A v \in Workers \ {w} : pc'[v] = pc[v]
        /\ UNCHANGED <<stored, processed, results, jobs, again, job>>
    BY <1>4 DEF GetAllWallets, UpdateLT, HandlerFails, Scan, ScanSkips, Leave, Goto,
                tableVars, jobVars, TypeOK
  <2> QED
    BY <2>1, OnceLocal
<1> QED
  BY <1>1, <1>2, <1>3, <1>4, OnceStart, OncePublish DEF Next, WorkerStep

\* A job that was started once publishes once and loses nothing to the
\* backend's dedup, whatever happens to the other jobs.
THEOREM RunOnce == Spec => []OnceInv
<1>1. Init => TypeOK /\ OnceInv
  BY ZenonT(30), TypeInit DEF Init, OnceInv
<1>2. TypeOK /\ OnceInv /\ [Next]_vars => (TypeOK /\ OnceInv)'
  BY TypeStep, OnceStep
<1> QED
  BY <1>1, <1>2, PTL DEF Spec

\* The backend's dedup drops no relation below last_tx_lt, but for one that was
\* withheld or that only jobs which ran more than once reported.
THEOREM NoRelationDropped == Spec => []RelationsReachBackend
<1>1. WalletsCovered /\ OnceInv => RelationsReachBackend
  <2> DEFINE live == {s \in results : s.job \notin processed \/ s.job \in again}
  <2> SUFFICES ASSUME WalletsCovered, OnceInv,
                      NEW p \in rows, NEW l \in WalletTxs(Addr[p], lt[p])
               PROVE  Seen(l, stored \cup UNION {r.rels : r \in live})
    BY DEF RelationsReachBackend, CoveredBy
  <2>1. Seen(l, Reported)
    BY DEF WalletsCovered, CoveredBy
  <2>2. Reported \subseteq stored \cup UNION {r.rels : r \in live}
    BY DEF OnceInv, Reported
  <2> QED
    BY ZenonT(30), <2>1, <2>2 DEF Seen
<1> QED
  BY <1>1, NoWithdrawalSkipped, RunOnce, PTL

-----------------------------------------------------------------------------
\* The cycle implements a feed per row.

\* What a step does to the feeds: it leaves the LTs alone and takes back no
\* report, or it reports nothing (Apply stores what a result had reported).
LEMMA FeedEffect ==
  ASSUME TypeOK, [Next]_vars
  PROVE  /\ tx' = tx
         /\ \/ /\ lt' = lt /\ stored \subseteq stored'
               /\ results \subseteq results' /\ withheld \subseteq withheld'
            \/ Reported' = Reported /\ withheld' = withheld
<1> USE DEF tableVars, jobVars, localVars
<1>1. CASE UNCHANGED vars
  BY <1>1 DEF vars
<1>2. CASE \E p \in Providers : Register(p)
  BY <1>2 DEF Register
<1>3. ASSUME NEW r \in results, Apply(r)
      PROVE  tx' = tx /\ Reported' = Reported /\ withheld' = withheld
  <2>1. UNCHANGED <<tx, results, withheld>> /\ stored' = stored \cup r.rels
    BY <1>3 DEF Apply
  <2>2. r.rels \subseteq UNION {s.rels : s \in results}
    BY <1>3
  <2> QED
    BY <2>1, <2>2 DEF Reported
<1>4. ASSUME NEW w \in Workers, WorkerStep(w), ~UpdateLT(w)
      PROVE  /\ UNCHANGED <<tx, lt, stored>>
             /\ results \subseteq results' /\ withheld \subseteq withheld'
  <2>1. CASE \E p \in Providers : Scan(w, p)
    BY <2>1 DEF Scan
  <2>2. CASE PublishResult(w)
    BY <2>2 DEF PublishResult
  <2>3. CASE (\E j \in Jobs : Start(w, j)) \/ GetAllWallets(w)
    BY <2>3 DEF Start, GetAllWallets
  <2>4. CASE \E p \in Providers : ScanSkips(w, p)
    BY <2>4 DEF ScanSkips
  <2>5. CASE HandlerFails(w) \/ XAck(w) \/ Lose(w)
    BY <2>5 DEF HandlerFails, XAck, Lose
  <2> QED
    BY <1>4, <2>1, <2>2, <2>3, <2>4, <2>5 DEF WorkerStep
<1>5. ASSUME NEW w \in Workers, UpdateLT(w)
      PROVE  tx' = tx /\ Reported' = Reported /\ withheld' = withheld
  BY <1>5 DEF UpdateLT, Reported
<1> QED
  BY <1>1, <1>2, <1>3, <1>4, <1>5 DEF Next

\* Every step is a step of the feeds: where an LT moves, what the new one
\* covers was reported or withheld before.
LEMMA FeedStep ==
  ASSUME TypeOK, TypeOK', WalletInv', [Next]_vars
  PROVE  [Feed!FeedNext]_(Feed!feedVars)
<1> DEFINE S(p) == {l \in LTs : tx[l].to = Addr[p] => Seen(l, Reported)}
<1>1. CASE /\ lt' = lt /\ stored \subseteq stored'
           /\ results \subseteq results' /\ withheld \subseteq withheld'
  <2>1. \A l : Seen(l, Reported) => Seen(l, Reported)'
    BY <1>1, FeedEffect, SeenStays
  <2>2. \A p \in Providers : S(p) \subseteq S(p)'
    BY <2>1, FeedEffect
  <2> QED
    BY <1>1, <2>2 DEF Feed!FeedNext, Feed!Settle
<1>2. CASE Reported' = Reported /\ withheld' = withheld
  <2>1. tx' = tx /\ \A l : Seen(l, Reported)' <=> Seen(l, Reported)
    BY <1>2, FeedEffect DEF Seen
  <2>2. \A p \in Providers : S(p)' = S(p)
    BY <2>1
  <2>3. \A p \in Providers : \A l \in LTs : l <= lt'[p] => l \in S(p)
    BY <2>1 DEF WalletInv, CoveredBy, WalletTxs
  <2> QED
    BY <2>2, <2>3 DEF Feed!FeedNext, Feed!SetMarks
<1> QED
  BY <1>1, <1>2, FeedEffect

\* CollectStorageContracts and the backend implement one feed per row: reports
\* are final, and last_tx_lt is only written over reported withdrawals.
THEOREM ScanIsAFeed == Spec => ImplementsFeed
<1>1. Init => Feed!FeedInit
  BY DEF Init, NoLT, Feed!FeedInit
<1>2. TypeOK /\ WalletInv /\ TypeOK' /\ WalletInv' /\ [Next]_vars
        => [Feed!FeedNext]_(Feed!feedVars)
  BY FeedStep
<1> QED
  BY <1>1, <1>2, Invariance, TypeCorrect, PTL DEF Spec, ImplementsFeed, Feed!FeedSpec
=============================================================================
