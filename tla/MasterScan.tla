----------------------------- MODULE MasterScan -----------------------------
(***************************************************************************)
(* The scan_master cycle: Discovery.CollectNewProviders with the master    *)
(* scanner, the liteclient's paging, the checkpoint in system.params and   *)
(* the backend that applies results and drops those of a job_id it has     *)
(* already processed.                                                      *)
(*                                                                         *)
(* The master wallet's transactions are numbered 1, 2, ... by logical time *)
(* (LT).  A worker runs the handler for a job of the cycle stream; what    *)
(* the consumer does around it (module Consumer) appears as jobs that stay *)
(* pending when no XACK reached Redis, and that may be run again.          *)
(***************************************************************************)
EXTENDS Integers, FiniteSets

CONSTANTS
  Workers,      \* threads that run the handler, of any agent
  Jobs, NoJob,  \* job ids of the triggers, and none
  Keys,         \* provider public keys
  Internal,     \* an internal message that registers nobody
  External,     \* a message parseTx drops
  Batch,        \* ListTransactions limit (100 in the code)
  Deadlines,    \* getTxTimeout or a -400 reply may also end the paging between
                \* two pages
  MaxTx,        \* bound: transactions of the wallet
  MaxRuns       \* bound: runs of the handler

ASSUME MasterScanAssumption ==
  /\ NoJob \notin Jobs
  /\ Batch \in Nat \ {0}
  /\ Deadlines \in BOOLEAN
  /\ MaxTx \in Nat /\ MaxRuns \in Nat
  /\ Internal \notin Keys /\ External \notin Keys /\ Internal # External

VARIABLES
  wallet,       \* per LT: the key a transaction registers, Internal or External
  tip,          \* the transactions up to tip are on chain
  checkpoint,   \* system.params masterWalletLastLT
  known,        \* providers.providers: the public keys the backend stored
  results,      \* result envelopes XADDed so far
  processed,    \* system.processed_jobs
  jobs,         \* per job: queued, pending or closed
  again,        \* history: the jobs that were started more than once
  pc, job,      \* per worker: control point and job
  from, seen,   \* per worker: fromLT and the known public keys
  cursor,       \* per worker: LT of the next page's newest transaction
  collected,    \* per worker: LTs of the transactions paged so far
  found, last,  \* per worker: Scan's providers and lastLT
  runs          \* runs of the handler so far

chainVars == <<wallet, tip>>
backendVars == <<known, processed>>
localVars == <<job, from, seen, cursor, collected, found, last>>
vars == <<chainVars, checkpoint, backendVars, results, jobs, again, pc, localVars, runs>>

LTs == 1..MaxTx
Result == [job : Jobs, keys : SUBSET Keys, lt : 0..MaxTx]
PcState == {"idle", "lt", "known", "account", "page", "scan", "publish", "save", "end"}

Init ==
  /\ wallet \in [LTs -> Keys \cup {Internal, External}] /\ tip = 0
  /\ checkpoint = 0 /\ known = {} /\ results = {} /\ processed = {}
  /\ jobs = [j \in Jobs |-> "queued"] /\ again = {}
  /\ pc = [w \in Workers |-> "idle"] /\ job = [w \in Workers |-> NoJob]
  /\ from = [w \in Workers |-> 0] /\ seen = [w \in Workers |-> {}]
  /\ cursor = [w \in Workers |-> 0] /\ collected = [w \in Workers |-> {}]
  /\ found = [w \in Workers |-> {}] /\ last = [w \in Workers |-> 0]
  /\ runs = 0

-----------------------------------------------------------------------------
\* The chain and the backend.

NewTx ==
  /\ tip < MaxTx
  /\ tip' = tip + 1
  /\ UNCHANGED <<wallet, checkpoint, backendVars, results, jobs, again, pc, localVars, runs>>

\* Faulty: the job is marked processed, and then the insert fails.
FaultyApplyMarksOnly(r) ==
  /\ r.job \notin processed
  /\ processed' = processed \cup {r.job}
  /\ UNCHANGED <<chainVars, checkpoint, known, results, jobs, again, pc, localVars, runs>>

\* One transaction: mark the job processed, insert the providers, raise the
\* LT (the backend's LT-writes are guarded by WHERE current < incoming).
\* A result of a processed job is acknowledged and forgotten.
Apply(r) ==
  /\ r.job \notin processed
  /\ processed' = processed \cup {r.job}
  /\ known' = known \cup r.keys
  /\ checkpoint' = IF checkpoint < r.lt THEN r.lt ELSE checkpoint
  /\ UNCHANGED <<chainVars, results, jobs, again, pc, localVars, runs>>

-----------------------------------------------------------------------------
\* The job's delivery and its end, as the consumer does it.

Goto(w, label) == pc' = [pc EXCEPT ![w] = label]

\* A worker reads a new job, or the reaper claims one that is pending, which
\* need not be abandoned.
Start(w, j) ==
  /\ pc[w] = "idle" /\ runs < MaxRuns
  /\ jobs[j] \in {"queued", "pending"}
  /\ runs' = runs + 1
  /\ again' = IF jobs[j] = "pending" THEN again \cup {j} ELSE again
  /\ jobs' = [jobs EXCEPT ![j] = "pending"]
  /\ job' = [job EXCEPT ![w] = j]
  /\ Goto(w, "lt")
  /\ UNCHANGED <<chainVars, checkpoint, backendVars, results, from, seen, cursor,
                 collected, found, last>>

\* The worker forgets the run.
Reset(w) ==
  /\ Goto(w, "idle")
  /\ job' = [job EXCEPT ![w] = NoJob]
  /\ from' = [from EXCEPT ![w] = 0] /\ seen' = [seen EXCEPT ![w] = {}]
  /\ cursor' = [cursor EXCEPT ![w] = 0] /\ collected' = [collected EXCEPT ![w] = {}]
  /\ found' = [found EXCEPT ![w] = {}] /\ last' = [last EXCEPT ![w] = 0]
  /\ UNCHANGED <<chainVars, checkpoint, backendVars, results>>

\* process() acknowledges the job whether the handler failed or not.
XAck(w) ==
  /\ pc[w] = "end"
  /\ jobs' = [jobs EXCEPT ![job[w]] = "closed"]
  /\ Reset(w)
  /\ UNCHANGED <<again, runs>>

\* A crash at any point, or an XACK that fails.
Lose(w) ==
  /\ pc[w] # "idle"
  /\ Reset(w)
  /\ UNCHANGED <<jobs, again, runs>>

-----------------------------------------------------------------------------
\* CollectNewProviders

GetMasterWalletLT(w) ==
  /\ pc[w] = "lt"
  /\ from' = [from EXCEPT ![w] = checkpoint]
  /\ Goto(w, "known")
  /\ UNCHANGED <<chainVars, checkpoint, backendVars, results, jobs, again, job, seen, cursor,
                 collected, found, last, runs>>

GetAllPubkeys(w) ==
  /\ pc[w] = "known"
  /\ seen' = [seen EXCEPT ![w] = known]
  /\ Goto(w, "account")
  /\ UNCHANGED <<chainVars, checkpoint, backendVars, results, jobs, again, job, from, cursor,
                 collected, found, last, runs>>

\* GetMasterchainInfo and GetAccount: the liteserver may lag behind the tip.
GetAccount(w) ==
  /\ pc[w] = "account"
  /\ \E n \in 0..tip : cursor' = [cursor EXCEPT ![w] = n]
  /\ Goto(w, "page")
  /\ UNCHANGED <<chainVars, checkpoint, backendVars, results, jobs, again, job, from, seen,
                 collected, found, last, runs>>

\* The page that ends at LT c, and its transactions the checkpoint has seen.
Oldest(c) == IF c > Batch THEN c - Batch + 1 ELSE 1
Page(c) == Oldest(c)..c
Old(w, c) == {l \in Page(c) : l <= from[w]}

\* Faulty: the next page is taken one transaction too far back.
FaultyPageSkips(w) ==
  /\ pc[w] = "page"
  /\ cursor[w] > 0
  /\ LET P == Page(cursor[w])
         old == Old(w, cursor[w])
     IN /\ collected' = [collected EXCEPT ![w] =
                           @ \cup {l \in P : \A o \in old : l >= o}]
        /\ cursor' = [cursor EXCEPT ![w] = Oldest(cursor[w]) - 2]
        /\ Goto(w, IF old = {} THEN "page" ELSE "scan")
  /\ UNCHANGED <<chainVars, checkpoint, backendVars, results, jobs, again, job, from, seen,
                 found, last, runs>>

\* ListTransactions returns a page: keep what is newer than the newest old
\* transaction of it and stop there, or keep it all and go on.
ListTransactions(w) ==
  /\ pc[w] = "page"
  /\ cursor[w] > 0
  /\ LET P == Page(cursor[w])
         old == Old(w, cursor[w])
     IN /\ collected' = [collected EXCEPT ![w] =
                           @ \cup {l \in P : \A o \in old : l >= o}]
        /\ cursor' = [cursor EXCEPT ![w] = Oldest(cursor[w]) - 1]
        /\ Goto(w, IF old = {} THEN "page" ELSE "scan")
  /\ UNCHANGED <<chainVars, checkpoint, backendVars, results, jobs, again, job, from, seen,
                 found, last, runs>>

\* ErrNoTransactionsWereFound past the first transaction of the wallet.
NoTransactions(w) ==
  /\ pc[w] = "page"
  /\ cursor[w] = 0
  /\ Goto(w, IF collected[w] # {} THEN "scan" ELSE "end")
  /\ UNCHANGED <<chainVars, checkpoint, backendVars, results, jobs, again, localVars, runs>>

\* DeadlineExceeded or a -400 reply: what has been collected is the result.
\* Before the first page and after the last this may always happen.
CutShort(w) ==
  /\ pc[w] = "page"
  /\ Deadlines \/ collected[w] = {} \/ cursor[w] = 0
  /\ Goto(w, "scan")
  /\ UNCHANGED <<chainVars, checkpoint, backendVars, results, jobs, again, localVars, runs>>

\* Scan and the filter on known keys: parseTx drops external messages, LTs
\* up to fromLT are skipped, the others move lastLT.
Parsed(w) == {l \in collected[w] : wallet[l] # External /\ l > from[w]}

Scan(w) ==
  /\ pc[w] = "scan"
  /\ \E n \in {from[w]} \cup Parsed(w) :
       /\ \A l \in Parsed(w) : l <= n
       /\ last' = [last EXCEPT ![w] = n]
  /\ found' = [found EXCEPT ![w] = {wallet[l] : l \in Parsed(w)} \cap (Keys \ seen[w])]
  /\ cursor' = [cursor EXCEPT ![w] = 0] /\ collected' = [collected EXCEPT ![w] = {}]
  /\ Goto(w, "publish")
  /\ UNCHANGED <<chainVars, checkpoint, backendVars, results, jobs, again, job, from, seen, runs>>

\* Faulty: the XADD trims the stream to the newest entry.
FaultyPublishTrims(w) ==
  /\ pc[w] = "publish"
  /\ results' = {[job |-> job[w], keys |-> found[w], lt |-> last[w]]}
  /\ Goto(w, IF last[w] > from[w] THEN "save" ELSE "end") \/ Goto(w, "end")
  /\ UNCHANGED <<chainVars, checkpoint, backendVars, jobs, again, localVars, runs>>

\* The XADD is executed; its reply may be lost, and then the handler fails.
PublishResult(w) ==
  /\ pc[w] = "publish"
  /\ results' = results \cup {[job |-> job[w], keys |-> found[w], lt |-> last[w]]}
  /\ Goto(w, IF last[w] > from[w] THEN "save" ELSE "end") \/ Goto(w, "end")
  /\ UNCHANGED <<chainVars, checkpoint, backendVars, jobs, again, localVars, runs>>

\* An unconditional upsert, executed or not; its error is only logged.
SetMasterWalletLT(w) ==
  /\ pc[w] = "save"
  /\ checkpoint' \in {checkpoint, last[w]}
  /\ Goto(w, "end")
  /\ UNCHANGED <<chainVars, backendVars, results, jobs, again, localVars, runs>>

\* Faulty: an error of PublishResult is logged and the LT saved all the same.
FaultySaveUnpublished(w) ==
  /\ pc[w] \in {"lt", "known", "account", "page", "publish"}
  /\ Goto(w, IF pc[w] = "publish" THEN "save" ELSE "end")
  /\ UNCHANGED <<chainVars, checkpoint, backendVars, results, jobs, again, localVars, runs>>

\* An error of Postgres, the liteserver or XADD, or the handler's timeout.
HandlerFails(w) ==
  /\ pc[w] \in {"lt", "known", "account", "page", "publish"}
  /\ Goto(w, "end")
  /\ UNCHANGED <<chainVars, checkpoint, backendVars, results, jobs, again, localVars, runs>>

CollectNewProviders(w) ==
  \/ GetMasterWalletLT(w) \/ GetAllPubkeys(w) \/ GetAccount(w)
  \/ ListTransactions(w) \/ NoTransactions(w) \/ CutShort(w)
  \/ Scan(w) \/ PublishResult(w) \/ SetMasterWalletLT(w) \/ HandlerFails(w)

Next ==
  \/ NewTx
  \/ \E r \in results : Apply(r)
  \/ \E w \in Workers : \/ \E j \in Jobs : Start(w, j)
                        \/ XAck(w) \/ Lose(w) \/ CollectNewProviders(w)

Spec == Init /\ [][Next]_vars

-----------------------------------------------------------------------------
\* Properties

\* LTs, keys and jobs are what the code takes them for.
TypeOK ==
  /\ wallet \in [LTs -> Keys \cup {Internal, External}] /\ tip \in 0..MaxTx
  /\ checkpoint \in 0..MaxTx /\ known \subseteq Keys
  /\ results \subseteq Result /\ processed \subseteq Jobs
  /\ jobs \in [Jobs -> {"queued", "pending", "closed"}] /\ again \subseteq Jobs
  /\ pc \in [Workers -> PcState] /\ job \in [Workers -> Jobs \cup {NoJob}]
  /\ from \in [Workers -> 0..MaxTx] /\ seen \in [Workers -> SUBSET Keys]
  /\ cursor \in [Workers -> 0..MaxTx] /\ collected \in [Workers -> SUBSET LTs]
  /\ found \in [Workers -> SUBSET Keys] /\ last \in [Workers -> 0..MaxTx]
  /\ runs \in 0..MaxRuns

\* The key registered at LT l, if any, is stored or in one of the results R.
Reported(l, R) ==
  wallet[l] \in Keys => wallet[l] \in known \/ \E r \in R : wallet[l] \in r.keys

\* The next scan starts behind the checkpoint, so whatever lies at or below
\* it must have been reported: no registration is skipped, whatever workers
\* overlap, whatever they read before, and wherever a run is cut off
\* (discovery.go:116-125; client.go:102-103 "We collect more next time").
CheckpointCovered ==
  \A l \in 1..checkpoint : Reported(l, results)

\* A run of the handler: it has a job; the keys it takes for known are
\* stored; nothing at or below the LT it read, or is about to save, is
\* unreported; what it has paged has no holes above fromLT except below its
\* cursor, and none at all when the paging may be cut short; what it is
\* about to publish lacks no registration it passed.
RunInv(w) ==
  /\ pc[w] # "idle" => job[w] \in Jobs
  /\ seen[w] \subseteq known
  /\ \A l \in 1..from[w] : Reported(l, results)
  /\ pc[w] \in {"idle", "lt", "known", "account"} => collected[w] = {}
  /\ pc[w] \in {"page", "scan"} =>
       \A c \in collected[w] : \A l \in 1..c :
         \/ l <= from[w] \/ l \in collected[w]
         \/ pc[w] = "page" /\ l <= cursor[w]
  /\ Deadlines /\ pc[w] = "page" => collected[w] = {} \/ cursor[w] = 0
  /\ pc[w] = "publish" =>
       \A l \in 1..last[w] :
         l <= from[w] \/ (wallet[l] \in Keys => wallet[l] \in found[w] \cup seen[w])
  /\ pc[w] = "save" => \A l \in 1..last[w] : Reported(l, results)

\* What makes CheckpointCovered inductive when paging is complete, or the
\* wallet fits one page: the same holds of the LT in every result, which the
\* backend may store at any time.
ScanInv ==
  /\ CheckpointCovered
  /\ \A r \in results : \A l \in 1..r.lt : Reported(l, results)
  /\ \A w \in Workers : RunInv(w)

\* The stronger promise towards the backend: what lies at or below the
\* checkpoint is stored, or in a result the backend has still to apply and
\* will not drop as a duplicate, whatever crashes and is delivered again
\* (docs/01-architecture.md:156 "Re-delivery; processed_jobs ловит дубль").
RegistrationsReachBackend ==
  \A l \in 1..checkpoint : Reported(l, {r \in results : r.job \notin processed})

\* The part of it that does hold: the only results whose keys the backend may
\* drop are those of a job that was started more than once; a registration
\* reported by any other job is stored or will be (dedup by job_id,
\* docs/01-architecture.md:138-143; discovery.go:116-125).
DroppedOnlyIfRepeated ==
  \A l \in 1..checkpoint :
    Reported(l, {r \in results : r.job \notin processed \/ r.job \in again})

\* What a job that is run once promises the backend: it is held by one
\* worker and publishes one result, after which nobody runs it, so the keys
\* of a result whose job is processed are stored (dedup by job_id drops
\* nothing new, docs/01-architecture.md:156).
OnceInv ==
  /\ \A r \in results : jobs[r.job] # "queued"
  /\ \A j \in processed : \E r \in results : r.job = j
  /\ \A r \in results : r.job \notin again =>
       /\ r.job \in processed => r.keys \subseteq known
       /\ \A s \in results : s.job = r.job => s = r
  /\ \A w \in Workers : pc[w] # "idle" =>
       /\ jobs[job[w]] # "queued"
       /\ job[w] \notin again =>
            /\ \A v \in Workers : pc[v] # "idle" /\ job[v] = job[w] => v = w
            /\ pc[w] \notin {"save", "end"} => \A r \in results : r.job # job[w]

\* The cycle implements a feed with the checkpoint as its mark: a registration
\* once reported stays reported, and the LT is written, by the agent or by the
\* backend, only after everything at or below it was reported
\* (discovery.go:116-125: PublishResult first, then SetMasterWalletLT).
Feed == INSTANCE ScanFeed WITH
          Feeds <- {"master"}, Events <- LTs,
          settled <- [f \in {"master"} |-> {l \in LTs : Reported(l, results)}],
          mark <- [f \in {"master"} |-> checkpoint]
ImplementsFeed == Feed!FeedSpec

\* Out-of-order runs do not move the LT back ("LT-writes use WHERE current <
\* incoming", docs/01-architecture.md:160).
CheckpointNeverRegresses ==
  [][checkpoint' >= checkpoint]_checkpoint
=============================================================================
