----------------------------- MODULE WalletScan -----------------------------
(***************************************************************************)
(* The scan_wallets cycle: Discovery.CollectStorageContracts with the      *)
(* wallet scanner, the per-wallet last_tx_lt in providers.providers and    *)
(* the backend that applies results and drops those of a job_id it has     *)
(* already processed.                                                      *)
(*                                                                         *)
(* Logical times number the transactions of all wallets.  A transaction is *)
(* a reward withdrawal, sent by a storage contract, or another message.  A *)
(* relation is a contract with the wallet it paid: the public key of the   *)
(* row that owns the wallet, the bag and the size ride along.              *)
(***************************************************************************)
EXTENDS Integers, FiniteSetsExt

CONSTANTS
  Workers,      \* threads that run the handler, of any agent
  Jobs, NoJob,  \* job ids of the triggers, and none
  Providers,    \* rows of providers.providers, by public key
  Addrs,        \* wallet addresses
  Addr,         \* the address column of a row
  Contracts,    \* storage contracts
  Other,        \* sender of a message that is no reward withdrawal
  MaxTx,        \* bound: transactions
  MaxLosses     \* bound: runs that end without an XACK

ASSUME WalletScanAssumption ==
  /\ NoJob \notin Jobs
  /\ Addr \in [Providers -> Addrs]
  /\ Other \notin Contracts
  /\ MaxTx \in Nat /\ MaxLosses \in Nat

VARIABLES
  tx,           \* per LT: the receiving wallet and the sender; a liteserver
                \* may answer from any block, so no tip is kept
  rows,         \* the providers the backend has stored
  lt,           \* per provider: last_tx_lt
  stored,       \* the relations the backend has stored
  results,      \* result envelopes XADDed so far
  processed,    \* system.processed_jobs
  jobs,         \* per job: queued, pending or closed
  again,        \* jobs that were started more than once
  pc, job,      \* per worker: control point and job
  todo,         \* per worker: rows the loop has not reached
  from,         \* per worker: the LTs GetAllWallets read
  found,        \* per worker: relations of the merged contracts
  last,         \* per worker: LTs of updatedWallets, 0 for a row not in it
  losses,
  withheld      \* history: withdrawals a scan moved its LT past though their
                \* page, or their contract's info, never arrived

tableVars == <<rows, lt, stored, processed>>
jobVars == <<jobs, again, losses>>
localVars == <<job, todo, from, found, last>>
vars == <<tx, tableVars, results, jobVars, pc, localVars, withheld>>

LTs == 1..MaxTx
Relation == Contracts \X Addrs
Result == [job : Jobs, rels : SUBSET Relation, lts : [Providers -> 0..MaxTx]]
PcState == {"idle", "rows", "scan", "save", "end"}
NoLT == [p \in Providers |-> 0]

Init ==
  /\ tx \in [LTs -> [to : Addrs, from : Contracts \cup {Other}]]
  /\ rows = {} /\ lt = NoLT /\ stored = {} /\ processed = {} /\ results = {}
  /\ jobs = [j \in Jobs |-> "queued"] /\ again = {} /\ losses = 0
  /\ pc = [w \in Workers |-> "idle"] /\ job = [w \in Workers |-> NoJob]
  /\ todo = [w \in Workers |-> {}] /\ from = [w \in Workers |-> NoLT]
  /\ found = [w \in Workers |-> {}] /\ last = [w \in Workers |-> NoLT]
  /\ withheld = {}

-----------------------------------------------------------------------------
\* The backend.

\* The backend stores a provider found by scan_master.
Register(p) ==
  /\ p \notin rows
  /\ rows' = rows \cup {p}
  /\ UNCHANGED <<tx, lt, stored, processed, results, jobVars, pc, localVars, withheld>>

\* Faulty: the job is marked processed, and then the insert fails.
FaultyApplyMarksOnly(r) ==
  /\ r.job \notin processed
  /\ processed' = processed \cup {r.job}
  /\ UNCHANGED <<tx, rows, lt, stored, results, jobVars, pc, localVars, withheld>>

\* One transaction: mark the job processed, insert the relations, raise the
\* LTs.  A result of a processed job is acknowledged and forgotten.
Apply(r) ==
  /\ r.job \notin processed
  /\ processed' = processed \cup {r.job}
  /\ stored' = stored \cup r.rels
  /\ lt' = [p \in Providers |-> IF lt[p] < r.lts[p] THEN r.lts[p] ELSE lt[p]]
  /\ UNCHANGED <<tx, rows, results, jobVars, pc, localVars, withheld>>

-----------------------------------------------------------------------------
\* The job's delivery and its end, as the consumer does it.

Goto(w, label) == pc' = [pc EXCEPT ![w] = label]

Start(w, j) ==
  /\ pc[w] = "idle"
  /\ jobs[j] \in {"queued", "pending"}
  /\ jobs' = [jobs EXCEPT ![j] = "pending"]
  /\ again' = IF jobs[j] = "pending" THEN again \cup {j} ELSE again
  /\ job' = [job EXCEPT ![w] = j]
  /\ Goto(w, "rows")
  /\ UNCHANGED <<tx, tableVars, results, losses, todo, from, found, last, withheld>>

\* The handler has returned, or died with its process; its locals are gone.
Leave(w, label) ==
  /\ Goto(w, label)
  /\ todo' = [todo EXCEPT ![w] = {}] /\ from' = [from EXCEPT ![w] = NoLT]
  /\ found' = [found EXCEPT ![w] = {}] /\ last' = [last EXCEPT ![w] = NoLT]

\* process() acknowledges the job whether the handler failed or not.
XAck(w) ==
  /\ pc[w] = "end"
  /\ jobs' = [jobs EXCEPT ![job[w]] = "closed"]
  /\ job' = [job EXCEPT ![w] = NoJob]
  /\ Leave(w, "idle")
  /\ UNCHANGED <<tx, tableVars, results, again, losses, withheld>>

\* A crash at any point, or an XACK that fails.
Lose(w) ==
  /\ pc[w] # "idle"
  /\ losses < MaxLosses
  /\ losses' = losses + 1
  /\ job' = [job EXCEPT ![w] = NoJob]
  /\ Leave(w, "idle")
  /\ UNCHANGED <<tx, tableVars, results, jobs, again, withheld>>

-----------------------------------------------------------------------------
\* CollectStorageContracts

\* With no rows the loop is empty and so is the result.
GetAllWallets(w) ==
  /\ pc[w] = "rows"
  /\ todo' = [todo EXCEPT ![w] = rows]
  /\ from' = [from EXCEPT ![w] = lt]
  /\ Goto(w, "scan")
  /\ UNCHANGED <<tx, tableVars, results, jobVars, job, found, last, withheld>>

\* The transactions of wallet a up to LT n.
WalletTxs(a, n) == {l \in LTs : l <= n /\ tx[l].to = a}

\* GetTransactions pages back from the account's newest transaction n to the
\* newest one the LT f has seen, which it returns as well; a deadline or a
\* -400 reply leaves the pages it has.
OldestPaged(a, f, n) == {0} \cup {l \in WalletTxs(a, n) : l <= f}
GetTransactions(a, f, n) ==
  {{l \in WalletTxs(a, n) : l >= c} : c \in Max(OldestPaged(a, f, n))..n}

Withdrawals(txs) == {l \in txs : tx[l].from \in Contracts}
Senders(txs) == {tx[l].from : l \in Withdrawals(txs)}

\* Scan's lastLT, as a singleton: the newest withdrawal, or the LT it started
\* from.
Newest(S) == {m \in S : \A l \in S : l <= m}
FaultyLastLT(f, txs) == {m + 1 : m \in Newest({f} \cup Withdrawals(txs))}
LastLT(f, txs) == Newest({f} \cup Withdrawals(txs))

\* The withdrawals between the LTs f and m whose contract is not in kept.
LeftOut(a, f, m, kept) ==
  {l \in Withdrawals(WalletTxs(a, m)) : l > f /\ tx[l].from \notin kept}

\* Scan of one row's wallet.  GetStorageContractsInfo skips a contract whose
\* info it cannot get, and Scan then leaves it out; the LT advances anyway.
Scan(w, p) ==
  /\ pc[w] = "scan" /\ p \in todo[w]
  /\ LET f == from[w][p] IN
     \E n \in 0..MaxTx : \E txs \in GetTransactions(Addr[p], f, n) :
     \E infos \in SUBSET Senders(txs), m \in LastLT(f, txs) :
       /\ found' = [found EXCEPT ![w] = @ \cup (infos \X {Addr[p]})]
       /\ last' = [last EXCEPT ![w][p] = IF m > f THEN m ELSE 0]
       /\ withheld' = withheld \cup LeftOut(Addr[p], f, m, infos)
  /\ todo' = [todo EXCEPT ![w] = @ \ {p}]
  /\ UNCHANGED <<tx, tableVars, results, jobVars, pc, job, from>>

\* An address that is not user-friendly, or an error of Scan: the next row.
ScanSkips(w, p) ==
  /\ pc[w] = "scan" /\ p \in todo[w]
  /\ todo' = [todo EXCEPT ![w] = @ \ {p}]
  /\ UNCHANGED <<tx, tableVars, results, jobVars, pc, job, from, found, last, withheld>>

\* The result lacks the relations: published before they were built.
FaultyPublishResult(w) ==
  /\ pc[w] = "scan" /\ todo[w] = {}
  /\ results' = results \cup {[job |-> job[w], rels |-> {}, lts |-> last[w]]}
  /\ \/ Goto(w, "save") /\ UNCHANGED <<todo, from, found, last>>
     \/ Leave(w, "end")
  /\ UNCHANGED <<tx, tableVars, jobVars, job, withheld>>
\* The XADD is executed; its reply may be lost, and the handler then fails.
PublishResult(w) ==
  /\ pc[w] = "scan" /\ todo[w] = {}
  /\ results' = results \cup {[job |-> job[w], rels |-> found[w], lts |-> last[w]]}
  /\ \/ Goto(w, "save") /\ UNCHANGED <<todo, from, found, last>>
     \/ Leave(w, "end")
  /\ UNCHANGED <<tx, tableVars, jobVars, job, withheld>>

\* UpdateLT overwrites the LTs of updatedWallets, or fails, which is logged.
SavedLTs(w) == [p \in Providers |-> IF last[w][p] > 0 THEN last[w][p] ELSE lt[p]]
UpdateLT(w) ==
  /\ pc[w] = "save"
  /\ lt' \in {lt, SavedLTs(w)}
  /\ Leave(w, "end")
  /\ UNCHANGED <<tx, rows, stored, processed, results, jobVars, job, withheld>>

\* GetAllWallets fails, the context is done in the loop, or the XADD is not
\* executed.
FaultyHandlerFails(w) ==
  /\ pc[w] \in {"rows", "scan"}
  /\ Goto(w, "save")
  /\ UNCHANGED <<tx, tableVars, results, jobVars, localVars, withheld>>
HandlerFails(w) ==
  /\ pc[w] \in {"rows", "scan"}
  /\ Leave(w, "end")
  /\ UNCHANGED <<tx, tableVars, results, jobVars, job, withheld>>

-----------------------------------------------------------------------------
WorkerStep(w) ==
  \/ \E j \in Jobs : Start(w, j)
  \/ GetAllWallets(w)
  \/ \E p \in Providers : Scan(w, p) \/ ScanSkips(w, p)
  \/ PublishResult(w) \/ UpdateLT(w) \/ HandlerFails(w)
  \/ XAck(w) \/ Lose(w)

Next ==
  \/ \E p \in Providers : Register(p)
  \/ \E r \in results : Apply(r)
  \/ \E w \in Workers : WorkerStep(w)

Spec == Init /\ [][Next]_vars

-----------------------------------------------------------------------------
TypeOK ==
  /\ tx \in [LTs -> [to : Addrs, from : Contracts \cup {Other}]]
  /\ rows \subseteq Providers /\ lt \in [Providers -> 0..MaxTx]
  /\ stored \subseteq Relation /\ processed \subseteq Jobs /\ results \subseteq Result
  /\ jobs \in [Jobs -> {"queued", "pending", "closed"}] /\ again \subseteq Jobs
  /\ losses \in 0..MaxLosses /\ withheld \subseteq LTs
  /\ pc \in [Workers -> PcState] /\ job \in [Workers -> Jobs \cup {NoJob}]
  /\ todo \in [Workers -> SUBSET Providers]
  /\ from \in [Workers -> [Providers -> 0..MaxTx]]
  /\ found \in [Workers -> SUBSET Relation]
  /\ last \in [Workers -> [Providers -> 0..MaxTx]]
  /\ \A w \in Workers : pc[w] # "idle" => job[w] \in Jobs

Reported == stored \cup UNION {r.rels : r \in results}

\* The transaction at l is no withdrawal, or was withheld, or its relation is
\* in S.
Seen(l, S) ==
  tx[l].from \in Contracts => l \in withheld \/ <<tx[l].from, tx[l].to>> \in S
CoveredBy(a, n, S) == \A l \in WalletTxs(a, n) : Seen(l, S)

\* CollectStorageContracts publishes before UpdateLT, so that no crash, failed
\* wallet, lost reply or overlapping run moves last_tx_lt past a withdrawal
\* that arrived complete and whose relation is in no result.
WalletsCovered == \A p \in rows : CoveredBy(Addr[p], lt[p], Reported)

\* The backend drops a second result of a job (processed_jobs).  A relation
\* below last_tx_lt that was not withheld is stored, or in a result the backend
\* will still apply, or was reported only by jobs that ran more than once.
RelationsReachBackend ==
  \A p \in rows :
    CoveredBy(Addr[p], lt[p],
              stored \cup UNION {r.rels : r \in {s \in results : s.job \notin processed \/ s.job \in again}})

\* The inductive invariant behind WalletsCovered: the LTs of every result and
\* of every run in progress are covered too, by what the run has found if
\* nowhere else; a run that reaches UpdateLT has published what it found.
RunInv(w) ==
  /\ \A p \in Providers : /\ CoveredBy(Addr[p], from[w][p], Reported)
                          /\ CoveredBy(Addr[p], last[w][p], Reported \cup found[w])
  /\ pc[w] = "save" => found[w] \subseteq Reported
WalletInv ==
  /\ \A p \in Providers : CoveredBy(Addr[p], lt[p], Reported)
  /\ \A r \in results, p \in Providers : CoveredBy(Addr[p], r.lts[p], Reported)
  /\ \A w \in Workers : RunInv(w)

\* The cycle implements one feed per row with last_tx_lt as its mark: what is
\* reported stays so, and UpdateLT and the backend write an LT only after every
\* withdrawal of the wallet at or below it was reported or withheld.
Feed == INSTANCE ScanFeed WITH
          Feeds <- Providers, Events <- LTs,
          settled <- [p \in Providers |->
                        {l \in LTs : tx[l].to = Addr[p] => Seen(l, Reported)}],
          mark <- lt
ImplementsFeed == Feed!FeedSpec

\* What dedup by job_id rests on: a job that was started once is in the hands
\* of one worker and publishes one result, so that the relations of a result
\* whose job is processed are stored.
OnceInv ==
  /\ \A r \in results : jobs[r.job] # "queued"
  /\ \A j \in processed : \E r \in results : r.job = j
  /\ \A r \in results : r.job \notin again =>
       /\ r.job \in processed => r.rels \subseteq stored
       /\ \A s \in results : s.job = r.job => s = r
  /\ \A w \in Workers : pc[w] # "idle" =>
       /\ jobs[job[w]] # "queued"
       /\ job[w] \notin again =>
            /\ \A v \in Workers : pc[v] # "idle" /\ job[v] = job[w] => v = w
            /\ pc[w] \in {"rows", "scan"} => \A r \in results : r.job # job[w]
=============================================================================
