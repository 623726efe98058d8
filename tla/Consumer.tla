------------------------------ MODULE Consumer ------------------------------
(***************************************************************************)
(* One cycle stream mtpa:cycle:<type>, its consumer group, and the agents  *)
(* that serve it (internal/adapters/inbound/redisstream).  An agent runs   *)
(* Pool workers (XREADGROUP ">", COUNT 1) and one reaper (XAUTOCLAIM); both *)
(* hand a message to process(): run the handler, then XACK.                *)
(*                                                                         *)
(* A stream entry is its position 1, 2, ... in the stream.  Time is a      *)
(* discrete clock (Tick); the age of a pending entry and of a handler's    *)
(* context saturate at the bound they are compared with.  A Redis command  *)
(* issued with a cancelled context fails before it is sent; a failing      *)
(* command may or may not have been executed by the server.                *)
(***************************************************************************)
EXTENDS Integers, FiniteSets

CONSTANTS
  Agents,          \* agent processes in the group
  MayStop,         \* the agents that may receive SIGTERM
  Pool,            \* workers per consumer (cfg.Pool, defaulted to 1)
  Timeout,         \* handler timeout, in ticks (cfg.Timeout)
  MinIdle,         \* XAUTOCLAIM MINIDLETIME, in ticks (cfg.MinIdle)
  ClaimCount,      \* XAUTOCLAIM COUNT (10 in the code)
  Prompt,          \* TRUE: only handlers and blocking reads take time
  MaxMsgs,         \* bound: triggers the backend adds
  MaxCrashes,      \* bound: process crashes
  MaxErrors,       \* bound: Redis errors other than those of XAUTOCLAIM
  MaxClaimErrors   \* bound: XAUTOCLAIM errors under a live context

ASSUME ConsumerAssumption ==
  /\ MayStop \subseteq Agents
  /\ Pool \in Nat \ {0}
  /\ Timeout \in Nat \ {0}
  /\ MinIdle \in Nat
  /\ ClaimCount \in Nat \ {0}
  /\ Prompt \in BOOLEAN
  /\ MaxMsgs \in Nat /\ MaxCrashes \in Nat
  /\ MaxErrors \in Nat /\ MaxClaimErrors \in Nat

VARIABLES
  added,       \* entries XADDed to the stream so far
  group,       \* the consumer group exists
  start,       \* last entry when the group was created ("$")
  last,        \* last-delivered-id of the group
  pending,     \* the group's pending entries list (PEL)
  idle,        \* ticks since the last delivery of a pending entry
  proc,        \* per agent: life cycle of the process
  pc,          \* per thread: control point
  cur,         \* per thread: the message process() works on
  elapsed,     \* per thread: age of the handler's context
  cursor,      \* per agent: claimPending's cursor
  batch,       \* per agent: claimed messages not yet processed
  published,   \* messages for which a result was XADDed
  finished,    \* messages for which some handler run returned nil
  failed,      \* messages for which some handler run returned an error
  crashes, errors, claimErrors

streamVars  == <<added, group, start, last, pending, idle>>
threadVars  == <<pc, cur, elapsed>>
reaperVars  == <<cursor, batch>>
resultVars  == <<published, finished, failed>>
faultVars   == <<crashes, errors, claimErrors>>
vars == <<streamVars, proc, threadVars, reaperVars, resultVars, faultVars>>

Ids == 1..MaxMsgs

\* Thread 0 of an agent is its reaper, threads 1..Pool are its workers.
Threads == Agents \X (0..Pool)
Workers == Agents \X (1..Pool)
Reaper(a) == <<a, 0>>

\* cursor: 0 is "0-0", n > 0 an entry id, BadCursor the "" of a failed reply.
BadCursor == -1

ProcState == {"down", "up", "draining", "stopped"}
PcState == {"off", "loop", "read", "backoff", "wait", "claim", "next",
            "run", "sent", "ack"}

Delivered == (start + 1)..last
Acked == Delivered \ pending

CtxDone(t) == proc[t[1]] = "draining"
InHandler(t) == pc[t] \in {"run", "sent"}

Init ==
  /\ added = 0 /\ group = FALSE /\ start = 0 /\ last = 0
  /\ pending = {} /\ idle = [m \in Ids |-> 0]
  /\ proc = [a \in Agents |-> "down"]
  /\ pc = [t \in Threads |-> "off"]
  /\ cur = [t \in Threads |-> 0]
  /\ elapsed = [t \in Threads |-> 0]
  /\ cursor = [a \in Agents |-> 0]
  /\ batch = [a \in Agents |-> {}]
  /\ published = {} /\ finished = {} /\ failed = {}
  /\ crashes = 0 /\ errors = 0 /\ claimErrors = 0

-----------------------------------------------------------------------------
\* The environment: the backend's dispatcher, Redis time, faults.

\* The backend XADDs a trigger.
Trigger ==
  /\ added < MaxMsgs
  /\ added' = added + 1
  /\ UNCHANGED <<group, start, last, pending, idle, proc, threadVars,
                 reaperVars, resultVars, faultVars>>

\* Under Prompt, time passes only while every thread is blocked in a read,
\* in a back-off, in the reaper's select, or in a handler before its deadline.
OnlyHandlersTakeTime ==
  \A t \in Threads :
    /\ pc[t] \notin {"loop", "next", "ack"}
    /\ pc[t] = "claim" => cursor[t[1]] = BadCursor
    /\ InHandler(t) => elapsed[t] < Timeout

Older(n, bound) == IF n < bound THEN n + 1 ELSE n

Tick ==
  /\ Prompt => OnlyHandlersTakeTime
  /\ idle' = [m \in Ids |-> IF m \in pending THEN Older(idle[m], MinIdle)
                            ELSE idle[m]]
  /\ elapsed' = [t \in Threads |-> IF InHandler(t)
                                   THEN Older(elapsed[t], Timeout)
                                   ELSE elapsed[t]]
  /\ UNCHANGED <<added, group, start, last, pending, proc, pc, cur,
                 reaperVars, resultVars, faultVars>>

\* The process dies: OOM, SIGKILL, a panic outside the handler's goroutine.
Crash(a) ==
  /\ crashes < MaxCrashes
  /\ proc[a] \in {"up", "draining"}
  /\ proc' = [proc EXCEPT ![a] = "down"]
  /\ pc' = [t \in Threads |-> IF t[1] = a THEN "off" ELSE pc[t]]
  /\ cur' = [t \in Threads |-> IF t[1] = a THEN 0 ELSE cur[t]]
  /\ elapsed' = [t \in Threads |-> IF t[1] = a THEN 0 ELSE elapsed[t]]
  /\ cursor' = [cursor EXCEPT ![a] = 0]
  /\ batch' = [batch EXCEPT ![a] = {}]
  /\ crashes' = crashes + 1
  /\ UNCHANGED <<streamVars, resultVars, errors, claimErrors>>

-----------------------------------------------------------------------------
\* App.MustRun and Consumer.Run for this stream's binding.

\* Faulty: the group starts at "0" and hears old triggers.
FaultyGroupFromZero ==
  /\ group' = TRUE
  /\ IF group THEN UNCHANGED <<start, last>> ELSE start' = 0 /\ last' = 0
  /\ UNCHANGED <<added, pending, idle>>

\* Faulty: an existing group is set to "$" again on every start.
FaultyGroupReset ==
  /\ group' = TRUE
  /\ start' = added /\ last' = added
  /\ UNCHANGED <<added, pending, idle>>

\* XGROUP CREATE MKSTREAM "$": a new group starts after the entries already
\* in the stream; BUSYGROUP leaves an existing group as it is.
EnsureGroup ==
  /\ group' = TRUE
  /\ IF group THEN UNCHANGED <<start, last>>
     ELSE start' = added /\ last' = added
  /\ UNCHANGED <<added, pending, idle>>

\* Faulty: the consumers start without EnsureGroup.
FaultyRunWithoutGroup(a) ==
  /\ proc[a] = "down"
  /\ proc' = [proc EXCEPT ![a] = "up"]
  /\ pc' = [t \in Threads |-> IF t[1] # a THEN pc[t]
                              ELSE IF t = Reaper(a) THEN "wait" ELSE "loop"]
  /\ UNCHANGED <<streamVars, cur, elapsed, reaperVars, resultVars, faultVars>>

\* Faulty: Run does not start the reaper.
FaultyRunWithoutReaper(a) ==
  /\ proc[a] = "down"
  /\ EnsureGroup
  /\ proc' = [proc EXCEPT ![a] = "up"]
  /\ pc' = [t \in Threads |-> IF t[1] # a THEN pc[t]
                              ELSE IF t = Reaper(a) THEN "off" ELSE "loop"]
  /\ UNCHANGED <<cur, elapsed, reaperVars, resultVars, faultVars>>

MustRun(a) ==
  /\ proc[a] = "down"
  /\ EnsureGroup
  /\ proc' = [proc EXCEPT ![a] = "up"]
  /\ pc' = [t \in Threads |-> IF t[1] # a THEN pc[t]
                              ELSE IF t = Reaper(a) THEN "wait" ELSE "loop"]
  /\ UNCHANGED <<cur, elapsed, reaperVars, resultVars, faultVars>>

\* EnsureGroup returns an error, executed by the server or not; MustRun panics.
MustRunPanics(a) ==
  /\ proc[a] = "down"
  /\ errors < MaxErrors
  /\ EnsureGroup \/ UNCHANGED streamVars
  /\ errors' = errors + 1
  /\ UNCHANGED <<proc, threadVars, reaperVars, resultVars, crashes, claimErrors>>

\* SIGTERM cancels the context of signal.NotifyContext.
Shutdown(a) ==
  /\ a \in MayStop
  /\ proc[a] = "up"
  /\ proc' = [proc EXCEPT ![a] = "draining"]
  /\ UNCHANGED <<streamVars, threadVars, reaperVars, resultVars, faultVars>>

\* wg.Wait returns once the reaper and every worker have returned.
RunReturns(a) ==
  /\ proc[a] = "draining"
  /\ \A t \in Threads : t[1] = a => pc[t] = "off"
  /\ proc' = [proc EXCEPT ![a] = "stopped"]
  /\ UNCHANGED <<streamVars, threadVars, reaperVars, resultVars, faultVars>>

-----------------------------------------------------------------------------
\* runWorker

Goto(t, label) == pc' = [pc EXCEPT ![t] = label]

\* process() starts on message m: a fresh handler context.
StartProcess(t, m) ==
  /\ Goto(t, "run")
  /\ cur' = [cur EXCEPT ![t] = m]
  /\ elapsed' = [elapsed EXCEPT ![t] = 0]

\* Faulty: XREADGROUP NOACK, the entry never enters the PEL.
FaultyDeliverNoAck ==
  /\ last < added
  /\ last' = last + 1
  /\ UNCHANGED <<added, group, start, pending, idle>>

\* The server hands the next undelivered entry to the group.
Deliver ==
  /\ last < added
  /\ last' = last + 1
  /\ pending' = pending \cup {last + 1}
  /\ idle' = [idle EXCEPT ![last + 1] = 0]
  /\ UNCHANGED <<added, group, start>>

\* Faulty: the loop does not look at the context.
FaultyLoopIgnoresCtx(w) ==
  /\ pc[w] = "loop"
  /\ Goto(w, "read")
  /\ UNCHANGED <<streamVars, proc, cur, elapsed, reaperVars, resultVars, faultVars>>

WorkerLoop(w) ==
  /\ pc[w] = "loop"
  /\ Goto(w, IF CtxDone(w) THEN "off" ELSE "read")
  /\ UNCHANGED <<streamVars, proc, cur, elapsed, reaperVars, resultVars, faultVars>>

\* A message arrives, possibly after the context was cancelled.
XReadGroupMsg(w) ==
  /\ pc[w] = "read"
  /\ Deliver
  /\ StartProcess(w, last + 1)
  /\ UNCHANGED <<proc, reaperVars, resultVars, faultVars>>

\* Faulty: redis.Nil is taken for a message.
FaultyNilIsMessage(w) ==
  /\ pc[w] = "read"
  /\ last = added \/ CtxDone(w)
  /\ Goto(w, "run")
  /\ UNCHANGED <<streamVars, proc, cur, elapsed, reaperVars, resultVars, faultVars>>

\* redis.Nil after BlockMs, or context.Canceled.
XReadGroupNil(w) ==
  /\ pc[w] = "read"
  /\ last = added \/ CtxDone(w)
  /\ Goto(w, "loop")
  /\ UNCHANGED <<streamVars, proc, cur, elapsed, reaperVars, resultVars, faultVars>>

\* Any other error; the server may have delivered an entry nobody received.
XReadGroupErr(w) ==
  /\ pc[w] = "read"
  /\ errors < MaxErrors
  /\ Deliver \/ UNCHANGED streamVars
  /\ Goto(w, "backoff")
  /\ errors' = errors + 1
  /\ UNCHANGED <<proc, cur, elapsed, reaperVars, resultVars, crashes, claimErrors>>

WorkerBackoff(w) ==
  /\ pc[w] = "backoff"
  /\ \/ CtxDone(w) /\ Goto(w, "off")
     \/ Goto(w, "loop")
  /\ UNCHANGED <<streamVars, proc, cur, elapsed, reaperVars, resultVars, faultVars>>

-----------------------------------------------------------------------------
\* process and runHandler, run by workers and by the reaper alike.

\* The handler returns an error, runs out of time, or panics and is recovered.
HandlerFails(t) ==
  /\ pc[t] = "run"
  /\ failed' = failed \cup {cur[t]}
  /\ Goto(t, "ack")
  /\ UNCHANGED <<streamVars, proc, cur, elapsed, reaperVars, published, finished, faultVars>>

\* The handler gets to PublishResult with a live context.
PublishResult(t) ==
  /\ pc[t] = "run"
  /\ ~CtxDone(t) /\ elapsed[t] < Timeout
  /\ published' = published \cup {cur[t]}
  /\ Goto(t, "sent")
  /\ UNCHANGED <<streamVars, proc, cur, elapsed, reaperVars, finished, failed, faultVars>>

\* The XADD is executed but its reply is lost: the handler returns an error.
PublishReplyLost(t) ==
  /\ pc[t] = "run"
  /\ ~CtxDone(t) /\ elapsed[t] < Timeout
  /\ errors < MaxErrors
  /\ errors' = errors + 1
  /\ published' = published \cup {cur[t]}
  /\ failed' = failed \cup {cur[t]}
  /\ Goto(t, "ack")
  /\ UNCHANGED <<streamVars, proc, cur, elapsed, reaperVars, finished, crashes, claimErrors>>

\* What follows the XADD (the LT write) only logs its errors.
HandlerReturns(t) ==
  /\ pc[t] = "sent"
  /\ finished' = finished \cup {cur[t]}
  /\ Goto(t, "ack")
  /\ UNCHANGED <<streamVars, proc, cur, elapsed, reaperVars, published, failed, faultVars>>

AfterProcess(t) ==
  /\ Goto(t, IF t[2] = 0 THEN "next" ELSE "loop")
  /\ cur' = [cur EXCEPT ![t] = 0]
  /\ elapsed' = [elapsed EXCEPT ![t] = 0]

\* XACK removes the entry from the PEL whichever consumer owns it.
AckEntry(m) ==
  /\ pending' = pending \ {m}
  /\ idle' = [idle EXCEPT ![m] = 0]
  /\ UNCHANGED <<added, group, start, last>>

XAck(t) ==
  /\ pc[t] = "ack"
  /\ ~CtxDone(t)
  /\ AckEntry(cur[t])
  /\ AfterProcess(t)
  /\ UNCHANGED <<proc, reaperVars, resultVars, faultVars>>

\* XACK with the cancelled context of a shutdown: logged, never retried.
XAckCancelled(t) ==
  /\ pc[t] = "ack"
  /\ CtxDone(t)
  /\ AfterProcess(t)
  /\ UNCHANGED <<streamVars, proc, reaperVars, resultVars, faultVars>>

XAckErr(t) ==
  /\ pc[t] = "ack"
  /\ ~CtxDone(t)
  /\ errors < MaxErrors
  /\ AckEntry(cur[t]) \/ UNCHANGED streamVars
  /\ AfterProcess(t)
  /\ errors' = errors + 1
  /\ UNCHANGED <<proc, reaperVars, resultVars, crashes, claimErrors>>

-----------------------------------------------------------------------------
\* runReaper and claimPending

ReaperStep(a, label) ==
  /\ Goto(Reaper(a), label)
  /\ UNCHANGED <<proc, cur, elapsed, resultVars, crashes, errors>>

\* The select may take the tick although the context is done as well.
ReaperTick(a) ==
  /\ pc[Reaper(a)] = "wait"
  /\ cursor' = [cursor EXCEPT ![a] = 0]
  /\ ReaperStep(a, "claim")
  /\ UNCHANGED <<streamVars, batch, claimErrors>>

ReaperDone(a) ==
  /\ pc[Reaper(a)] = "wait"
  /\ CtxDone(Reaper(a))
  /\ ReaperStep(a, "off")
  /\ UNCHANGED <<streamVars, reaperVars, claimErrors>>

\* Faulty: MINIDLETIME 0.
FaultyEligibleAtOnce(c) == {m \in pending : m >= c}

\* XAUTOCLAIM from c: the first ClaimCount pending entries that are idle for
\* MinIdle, and the cursor where the next call goes on (0 at the end).
Eligible(c) == {m \in pending : m >= c /\ idle[m] >= MinIdle}
Claimed(c) ==
  {m \in Eligible(c) : Cardinality({n \in Eligible(c) : n <= m}) <= ClaimCount}
Unseen(c) ==
  IF Cardinality(Claimed(c)) < ClaimCount THEN {}
  ELSE {m \in pending : \A n \in Claimed(c) : m > n}
NextCursor(c, n) ==
  IF Unseen(c) = {} THEN n = 0
  ELSE n \in Unseen(c) /\ \A m \in Unseen(c) : n <= m

\* Faulty: claiming does not restart the idle time.
FaultyKeepIdle(S) == UNCHANGED <<added, group, start, last, pending, idle>>

ResetIdle(S) ==
  /\ idle' = [m \in Ids |-> IF m \in S THEN 0 ELSE idle[m]]
  /\ UNCHANGED <<added, group, start, last, pending>>

XAutoClaim(a) ==
  /\ pc[Reaper(a)] = "claim"
  /\ cursor[a] # BadCursor
  /\ ~CtxDone(Reaper(a))
  /\ ResetIdle(Claimed(cursor[a]))
  /\ batch' = [batch EXCEPT ![a] = Claimed(cursor[a])]
  /\ \E n \in {0} \cup pending :
       /\ NextCursor(cursor[a], n)
       /\ cursor' = [cursor EXCEPT ![a] = n]
  /\ ReaperStep(a, "next")
  /\ UNCHANGED claimErrors

\* An error is logged and the loop goes on with the reply's empty cursor.
XAutoClaimErr(a) ==
  /\ pc[Reaper(a)] = "claim"
  /\ \/ /\ CtxDone(Reaper(a)) \/ cursor[a] = BadCursor
        /\ UNCHANGED <<streamVars, claimErrors>>
     \/ /\ cursor[a] # BadCursor
        /\ ~CtxDone(Reaper(a))
        /\ claimErrors < MaxClaimErrors
        /\ claimErrors' = claimErrors + 1
        /\ ResetIdle(Claimed(cursor[a])) \/ UNCHANGED streamVars
  /\ cursor' = [cursor EXCEPT ![a] = BadCursor]
  /\ ReaperStep(a, "claim")
  /\ UNCHANGED batch

\* The next claimed message, in stream order.
ProcessClaimed(a) ==
  /\ pc[Reaper(a)] = "next"
  /\ \E m \in batch[a] :
       /\ \A n \in batch[a] : m <= n
       /\ batch' = [batch EXCEPT ![a] = @ \ {m}]
       /\ StartProcess(Reaper(a), m)
  /\ UNCHANGED <<streamVars, proc, cursor, resultVars, faultVars>>

\* The batch is done: the next page, or back to the ticker.
NextPage(a) ==
  /\ pc[Reaper(a)] = "next"
  /\ batch[a] = {}
  /\ ReaperStep(a, IF cursor[a] = 0 THEN "wait" ELSE "claim")
  /\ UNCHANGED <<streamVars, reaperVars, claimErrors>>

-----------------------------------------------------------------------------
Process(t) ==
  \/ HandlerFails(t) \/ PublishResult(t) \/ PublishReplyLost(t)
  \/ HandlerReturns(t)
  \/ XAck(t) \/ XAckCancelled(t) \/ XAckErr(t)

RunWorker(w) ==
  \/ WorkerLoop(w) \/ XReadGroupMsg(w) \/ XReadGroupNil(w)
  \/ XReadGroupErr(w) \/ WorkerBackoff(w)

RunReaper(a) ==
  \/ ReaperTick(a) \/ ReaperDone(a) \/ XAutoClaim(a) \/ XAutoClaimErr(a)
  \/ ProcessClaimed(a) \/ NextPage(a)

Next ==
  \/ Trigger \/ Tick
  \/ \E a \in Agents : \/ Crash(a) \/ MustRun(a) \/ MustRunPanics(a)
                       \/ Shutdown(a) \/ RunReturns(a) \/ RunReaper(a)
  \/ \E w \in Workers : RunWorker(w)
  \/ \E t \in Threads : Process(t)

Spec == Init /\ [][Next]_vars

\* Every goroutine keeps running, Docker restarts a dead container
\* (restart: unless-stopped) and time passes.  Nothing is assumed of the
\* backend's triggers, of faults, or of SIGTERM.
Fairness ==
  /\ WF_vars(Tick)
  /\ \A a \in Agents : /\ WF_vars(MustRun(a)) /\ WF_vars(RunReturns(a))
                       /\ WF_vars(RunReaper(a))
  /\ \A w \in Workers : WF_vars(RunWorker(w))
  /\ \A t \in Threads : WF_vars(Process(t))

FairSpec == Spec /\ Fairness

-----------------------------------------------------------------------------
\* Properties

\* The variables range over the values the code can give them: cursors are
\* entry ids or the two special strings, a thread in process() has a message.
TypeOK ==
  /\ added \in 0..MaxMsgs /\ group \in BOOLEAN
  /\ start \in 0..MaxMsgs /\ last \in 0..MaxMsgs
  /\ pending \subseteq Ids /\ idle \in [Ids -> 0..MinIdle]
  /\ proc \in [Agents -> ProcState] /\ pc \in [Threads -> PcState]
  /\ cur \in [Threads -> 0..MaxMsgs] /\ elapsed \in [Threads -> 0..Timeout]
  /\ cursor \in [Agents -> {BadCursor} \cup 0..MaxMsgs]
  /\ batch \in [Agents -> SUBSET Ids]
  /\ published \subseteq Ids /\ finished \subseteq Ids /\ failed \subseteq Ids
  /\ crashes \in 0..MaxCrashes /\ errors \in 0..MaxErrors
  /\ claimErrors \in 0..MaxClaimErrors

\* At-least-once: an entry leaves the PEL (XACK, consumer.go:203) only after
\* some handler run for it came to an end, and a run that returned nil had
\* its result XADDed before.  Crashes, lost replies, cancelled contexts and
\* re-claimed entries never make a trigger disappear unprocessed.
AckedOnlyHandled ==
  \A m \in Acked : m \in failed \/ m \in finished \cap published

\* What makes AckedOnlyHandled inductive: whatever a thread works on, or a
\* reaper has claimed, was delivered by the group; the control points of
\* process() tell which outcome is already on record; and nothing runs, and
\* nothing was delivered, before the group exists.
DeliveryInv ==
  /\ start <= last /\ last <= added
  /\ ~group => last = 0 /\ \A t \in Threads : pc[t] = "off"
  /\ pending \subseteq Delivered
  /\ \A a \in Agents : batch[a] \subseteq Delivered
  /\ finished \subseteq published
  /\ finished \cup failed \subseteq Delivered
  /\ \A t \in Threads :
       /\ pc[t] \in {"run", "sent", "ack"} => cur[t] \in Delivered
       /\ pc[t] = "sent" => cur[t] \in published
       /\ pc[t] = "ack" => cur[t] \in finished \cup failed
  /\ AckedOnlyHandled

\* An entry that has been acknowledged is never pending again, although
\* stale copies of it may still sit in a reaper's batch (reaper.go:51).
AckedForever ==
  [][\A m \in Acked : m \in Acked']_vars

\* What the reaper's doc says of XAUTOCLAIM's victims ("the worker that got
\* them crashed or hung", docs/01-architecture.md:188-190): no entry has its
\* handler running in two live threads.
OneHandlerPerMessage ==
  \A t, u \in Threads :
    t # u /\ InHandler(t) /\ InHandler(u) => cur[t] # cur[u]

\* A handler is started only for an entry that is still unacknowledged: a
\* message that waits in claimPending's batch is not finished by another
\* agent meanwhile.
NoRunAfterAck ==
  [][\A t \in Threads : pc[t] # "run" /\ pc'[t] = "run" => cur'[t] \in pending']_vars

\* The entries a thread answers for: the one in process() and, for a reaper,
\* those of its batch.
InProcess(t) == pc[t] \in {"run", "sent", "ack"}
Current(t) == IF InProcess(t) THEN {cur[t]} ELSE {}
Waiting(t) == IF t[2] = 0 THEN batch[t[1]] ELSE {}
Held(t) == Current(t) \cup Waiting(t)

\* Every entry a thread still has to finish may cost it a Timeout, so what it
\* holds has been idle for the Timeouts it has spent already at most.
HoldsInTime(t) ==
  /\ Held(t) \subseteq pending
  /\ Current(t) \cap Waiting(t) = {}
  /\ Waiting(t) # {} => InProcess(t) \/ pc[t] = "next"
  /\ ~InProcess(t) => elapsed[t] = 0
  /\ proc[t[1]] = "down" => pc[t] = "off"
  /\ Cardinality(Held(t)) <= ClaimCount
  /\ \A m \in Held(t) :
       idle[m] + Cardinality(Held(t)) * Timeout <= ClaimCount * Timeout + elapsed[t]

\* Why no live entry is claimed when MinIdle exceeds ClaimCount * Timeout and
\* nothing but handlers takes time: an entry is held by one thread, which
\* holds it in time.
TimedInv ==
  /\ \A t, u \in Threads : t # u => Held(t) \cap Held(u) = {}
  /\ \A t \in Threads : HoldsInTime(t)

\* Every trigger the group can see is delivered, handled and acknowledged,
\* whatever happens to the agents that received it first, as long as some
\* agent is not stopped for good (docs/01-architecture.md:155, 205).
EventuallyAcked ==
  \A m \in Ids : (group /\ start < m /\ m <= added) ~> (m \in Acked)

\* Workers stop after SIGTERM: the in-flight handler ends, the loop sees the
\* cancelled context (consumer.go:111).
WorkersDrain ==
  \A w \in Workers : (proc[w[1]] = "draining") ~> (pc[w] = "off")

\* claimPending comes to the end of the PEL and the reaper goes back to its
\* ticker (docs/01-architecture.md:193), or the agent stops: after SIGTERM
\* Run returns only when the reaper has (app.go:283-286).
ReaperReturnsToTicker ==
  \A a \in Agents : (pc[Reaper(a)] = "claim") ~> (pc[Reaper(a)] \in {"wait", "off"})

\* Every job ends in a result, status ok or error (docs/02-data-contracts.md).
AckedHasResult == Acked \subseteq published

-----------------------------------------------------------------------------
\* The stream implements the job board.

BoardStatus(m) ==
  IF m > added THEN "absent"
  ELSE IF ~group \/ m <= start THEN "unheard"
  ELSE IF m > last THEN "queued"
  ELSE IF m \in pending THEN "open"
  ELSE "closed"

Board == INSTANCE JobBoard
  WITH Jobs <- Ids, opened <- group,
       status <- [m \in Ids |-> BoardStatus(m)],
       worked <- finished \cup failed

\* Agents, clocks, claims and faults are invisible at the level of the board.
ImplementsBoard == Board!BoardSpec
=============================================================================
