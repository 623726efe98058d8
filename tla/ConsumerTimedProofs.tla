------------------------ MODULE ConsumerTimedProofs -------------------------
(***************************************************************************)
(* When nothing but handlers takes time and MinIdle exceeds ClaimCount     *)
(* handler timeouts, XAUTOCLAIM never takes an entry that a live thread    *)
(* holds: for any number of agents, workers, triggers, crashes, errors and *)
(* shutdowns.                                                              *)
(***************************************************************************)
EXTENDS ConsumerProofs, NatOrder

\* The configuration under which the claims below hold.
Unhurried == Prompt = TRUE /\ ClaimCount * Timeout < MinIdle

\* A thread is its agent's reaper or one of its workers.
LEMMA ThreadParts ==
  /\ \A a \in Agents : Reaper(a)[1] = a /\ Reaper(a)[2] = 0
  /\ \A w \in Workers : w[2] # 0
  /\ \A t \in Threads : t[2] = 0 => t = Reaper(t[1])
BY DEF Threads, Workers, Reaper

\* XAUTOCLAIM returns at most COUNT entries: the largest entry claimed has at
\* most ClaimCount eligible entries up to it, and they include all claimed.
LEMMA ClaimedCount ==
  ASSUME TypeOK, NEW c
  PROVE  Claimed(c) \subseteq Ids /\ Cardinality(Claimed(c)) <= ClaimCount
<1> DEFINE upTo(m) == {n \in Eligible(c) : n <= m}
<1>1. /\ Claimed(c) \subseteq Ids /\ Eligible(c) \subseteq Ids
      /\ Claimed(c) \subseteq Eligible(c)
  BY DEF Claimed, Eligible, TypeOK
<1>2. IsFiniteSet(Ids)
  BY FS_Interval, ConsumerAssumption DEF Ids
<1>3. CASE Claimed(c) = {}
  BY <1>1, <1>3, FS_EmptySet, ConsumerAssumption
<1>4. CASE Claimed(c) # {}
  <2>1. Claimed(c) \in SUBSET (0..MaxMsgs)
    BY <1>1, ConsumerAssumption DEF Ids
  <2>2. PICK x \in Claimed(c) : \A m \in Claimed(c) : m <= x
    BY ZenonT(30), <1>4, <2>1, GreatestNat, ConsumerAssumption
  <2>3. Cardinality(upTo(x)) <= ClaimCount
    BY DEF Claimed
  <2>4. Claimed(c) \subseteq upTo(x) /\ upTo(x) \subseteq Ids
    BY <1>1, <2>2
  <2> HIDE DEF upTo
  <2>5. IsFiniteSet(upTo(x))
    BY <1>2, <2>4, FS_Subset
  <2>6. /\ Cardinality(Claimed(c)) <= Cardinality(upTo(x)) /\ IsFiniteSet(Claimed(c))
    BY <2>4, <2>5, FS_Subset
  <2>7. Cardinality(Claimed(c)) \in Nat /\ Cardinality(upTo(x)) \in Nat
    BY <2>5, <2>6, FS_CardinalityType
  <2> QED
    BY <1>1, <2>3, <2>6, <2>7, ConsumerAssumption
<1> QED
  BY <1>3, <1>4

\* What a thread holds is a finite set, and the numbers that HoldsInTime
\* compares are naturals.
LEMMA HeldFacts ==
  ASSUME TypeOK, NEW t \in Threads, HoldsInTime(t)
  PROVE  /\ Held(t) \subseteq Ids /\ IsFiniteSet(Held(t))
         /\ Cardinality(Held(t)) \in Nat /\ elapsed[t] \in 0..Timeout
         /\ \A m \in Held(t) : idle[m] \in 0..MinIdle
<1>1. Held(t) \subseteq Ids
  BY DEF HoldsInTime, TypeOK
<1>2. IsFiniteSet(Ids)
  BY FS_Interval, ConsumerAssumption DEF Ids
<1>3. IsFiniteSet(Held(t)) /\ Cardinality(Held(t)) \in Nat
  BY <1>1, <1>2, FS_Subset, FS_CardinalityType
<1> QED
  BY <1>1, <1>3 DEF TypeOK

\* A thread that is left alone keeps holding in time, while others reset idle
\* times and leave its entries pending.
LEMMA KeepThread ==
  ASSUME TypeOK, TypeOK', NEW t \in Threads, HoldsInTime(t),
         UNCHANGED <<pc[t], cur[t], elapsed[t], Waiting(t)>>,
         Held(t) \subseteq pending',
         \A m \in Held(t) : idle'[m] <= idle[m],
         proc'[t[1]] = "down" => proc[t[1]] = "down"
  PROVE  HoldsInTime(t)' /\ Held(t)' = Held(t)
<1>1. /\ Held(t)' = Held(t) /\ Current(t)' = Current(t) /\ Waiting(t)' = Waiting(t)
      /\ InProcess(t)' = InProcess(t)
  BY DEF Held, Current, InProcess
<1>2. ASSUME NEW m \in Held(t)
      PROVE  idle'[m] + Cardinality(Held(t)) * Timeout <= ClaimCount * Timeout + elapsed[t]
  <2>1. idle[m] + Cardinality(Held(t)) * Timeout <= ClaimCount * Timeout + elapsed[t]
    BY DEF HoldsInTime
  <2>2. /\ idle[m] \in Nat /\ idle'[m] \in Nat /\ Cardinality(Held(t)) \in Nat
        /\ elapsed[t] \in Nat /\ idle'[m] <= idle[m]
    BY HeldFacts DEF TypeOK
  <2> QED
    BY <2>1, <2>2, ConsumerAssumption
<1> HIDE DEF Held, Current, Waiting, InProcess
<1> QED
  BY <1>1, <1>2 DEF HoldsInTime

\* If the other threads keep what they hold and t holds nothing of theirs,
\* TimedInv is kept.
LEMMA OneThread ==
  ASSUME TimedInv, NEW t \in Threads, HoldsInTime(t)',
         \A u \in Threads \ {t} : HoldsInTime(u)' /\ Held(u)' = Held(u),
         \A u \in Threads \ {t} : Held(t)' \cap Held(u) = {}
  PROVE  TimedInv'
<1> HIDE DEF Held, HoldsInTime
<1> QED
  BY DEF TimedInv

\* A held entry is younger than MinIdle: its thread has at least one Timeout
\* of its budget left to spend on it.
LEMMA HeldIsYoung ==
  ASSUME TypeOK, TimedInv, Unhurried, NEW t \in Threads, NEW m \in Held(t)
  PROVE  idle[m] < MinIdle
<1> DEFINE k == Cardinality(Held(t))
<1>1. HoldsInTime(t)
  BY DEF TimedInv
<1>2. /\ k \in Nat /\ elapsed[t] \in 0..Timeout /\ idle[m] \in 0..MinIdle
      /\ IsFiniteSet(Held(t))
  BY <1>1, HeldFacts
<1>3. k # 0
  BY <1>2, FS_EmptySet
<1>4. idle[m] + k * Timeout <= ClaimCount * Timeout + elapsed[t]
  BY <1>1 DEF HoldsInTime
<1> HIDE DEF k
<1>5. PICK j \in Nat : k = j + 1
  BY <1>2, <1>3
<1>6. (j + 1) * Timeout = j * Timeout + Timeout /\ j * Timeout \in Nat
      /\ ClaimCount * Timeout \in Nat
  BY ConsumerAssumption
<1> QED
  BY <1>2, <1>4, <1>5, <1>6, ConsumerAssumption DEF Unhurried

\* So XAUTOCLAIM claims nothing that a thread holds.
LEMMA ClaimedIsFree ==
  ASSUME TypeOK, TimedInv, Unhurried, NEW c, NEW t \in Threads
  PROVE  Claimed(c) \cap Held(t) = {}
<1> SUFFICES ASSUME NEW m \in Claimed(c), m \in Held(t) PROVE FALSE
  OBVIOUS
<1>1. idle[m] < MinIdle
  BY HeldIsYoung
<1>2. idle[m] >= MinIdle /\ m \in Ids
  BY DEF Claimed, Eligible, TypeOK
<1> QED
  BY <1>1, <1>2, ConsumerAssumption DEF TypeOK

-----------------------------------------------------------------------------
\* Preservation of TimedInv, one lemma per group of actions.

\* A step that touches neither the threads nor the age of an entry, and stops
\* no process, keeps TimedInv.
LEMMA TimedAside ==
  ASSUME TypeOK, TypeOK', TimedInv,
         UNCHANGED <<pc, cur, elapsed, batch>>, pending \subseteq pending',
         \A m \in pending : idle'[m] <= idle[m],
         \A a \in Agents : proc'[a] = "down" => proc[a] = "down"
  PROVE  TimedInv'
<1>1. ASSUME NEW t \in Threads PROVE HoldsInTime(t)' /\ Held(t)' = Held(t)
  <2>1. HoldsInTime(t) /\ t[1] \in Agents
    BY ThreadFacts DEF TimedInv
  <2>2. Held(t) \subseteq pending /\ Waiting(t)' = Waiting(t)
    BY <2>1 DEF HoldsInTime, Waiting
  <2> HIDE DEF Held, HoldsInTime, Waiting
  <2> QED
    BY <2>1, <2>2, KeepThread
<1> HIDE DEF Held, HoldsInTime
<1> QED
  BY <1>1 DEF TimedInv

\* Time passes: no thread is between two messages, and every handler that runs
\* grows old as fast as the entries its thread holds.
LEMMA TimedTick ==
  ASSUME TypeOK, TimedInv, Unhurried, Tick
  PROVE  TimedInv'
<1>1. UNCHANGED <<pc, cur, batch, proc, pending>> /\ OnlyHandlersTakeTime
  BY DEF Tick, reaperVars, Unhurried
<1>2. ASSUME NEW t \in Threads PROVE HoldsInTime(t)' /\ Held(t)' = Held(t)
  <2>1. /\ Held(t)' = Held(t) /\ Current(t)' = Current(t) /\ Waiting(t)' = Waiting(t)
        /\ InProcess(t)' = InProcess(t)
    BY <1>1 DEF Held, Current, Waiting, InProcess
  <2>2. HoldsInTime(t)
    BY DEF TimedInv
  <2>3. pc[t] \notin {"next", "ack"}
    BY <1>1 DEF OnlyHandlersTakeTime
  <2>4. ~InProcess(t) => elapsed'[t] = elapsed[t]
    BY DEF InProcess, InHandler, Tick
  <2>5. ASSUME NEW m \in Held(t)
        PROVE  idle'[m] + Cardinality(Held(t)) * Timeout <= ClaimCount * Timeout + elapsed'[t]
    <3>1. InProcess(t)
      BY <2>2, <2>3 DEF HoldsInTime, Held, Current
    <3>2. InHandler(t) /\ elapsed[t] < Timeout
      BY <1>1, <2>3, <3>1 DEF InProcess, InHandler, OnlyHandlersTakeTime
    <3>3. elapsed'[t] = elapsed[t] + 1
      BY <3>2 DEF Tick, Older
    <3>4. /\ m \in Ids /\ idle[m] \in Nat /\ Cardinality(Held(t)) \in Nat /\ elapsed[t] \in Nat
      BY <2>2, HeldFacts, ConsumerAssumption
    <3>5. idle'[m] \in Nat /\ idle'[m] <= idle[m] + 1
      BY <3>4 DEF Tick, Older
    <3>6. idle[m] + Cardinality(Held(t)) * Timeout <= ClaimCount * Timeout + elapsed[t]
      BY <2>2 DEF HoldsInTime
    <3> QED
      BY <3>3, <3>4, <3>5, <3>6, ConsumerAssumption
  <2> HIDE DEF Held, Current, Waiting, InProcess
  <2>6. HoldsInTime(t)'
    BY <1>1, <2>1, <2>2, <2>4, <2>5 DEF HoldsInTime
  <2> QED
    BY <2>1, <2>6
<1> HIDE DEF Held, HoldsInTime
<1> QED
  BY <1>2 DEF TimedInv

\* A crash takes the agent's batch with it, and a process starts with none.
LEMMA TimedProcess ==
  ASSUME TypeOK, TypeOK', TimedInv, NEW a \in Agents, Crash(a) \/ MustRun(a)
  PROVE  TimedInv'
<1>1. /\ pending' = pending /\ idle' = idle
      /\ \A t \in Threads : t[1] # a => UNCHANGED <<pc[t], cur[t], elapsed[t]>>
      /\ \A b \in Agents : b # a => batch'[b] = batch[b] /\ proc'[b] = proc[b]
  BY ThreadFacts DEF Crash, MustRun, EnsureGroup, streamVars, reaperVars, TypeOK
<1>2. ASSUME NEW t \in Threads, t[1] # a PROVE HoldsInTime(t)' /\ Held(t)' = Held(t)
  <2>1. HoldsInTime(t) /\ t[1] \in Agents
    BY ThreadFacts DEF TimedInv
  <2>2. Held(t) \subseteq pending /\ Waiting(t)' = Waiting(t)
    BY <1>1, <1>2, <2>1 DEF HoldsInTime, Waiting
  <2>3. \A m \in Held(t) : idle[m] \in Int
    BY <2>1, HeldFacts
  <2> HIDE DEF Held, HoldsInTime, Waiting
  <2>4. \A m \in Held(t) : idle'[m] <= idle[m]
    BY <1>1, <2>3
  <2> QED
    BY <1>1, <1>2, <2>1, <2>2, <2>4, KeepThread
<1>3. ASSUME NEW t \in Threads, t[1] = a PROVE HoldsInTime(t)' /\ Held(t)' = {}
  <2>1. HoldsInTime(t)
    BY DEF TimedInv
  <2>2. /\ pc'[t] \in {"off", "wait", "loop"} /\ elapsed'[t] = 0 /\ Waiting(t)' = {}
        /\ proc'[a] = "down" => pc'[t] = "off"
    <3>1. CASE Crash(a)
      BY <1>3, <3>1 DEF Crash, Waiting, TypeOK
    <3>2. CASE MustRun(a)
      <4>1. proc[a] = "down" /\ proc'[a] = "up" /\ batch' = batch /\ elapsed' = elapsed
        BY <3>2 DEF MustRun, reaperVars, TypeOK
      <4>2. pc[t] = "off" /\ Waiting(t) = {} /\ elapsed[t] = 0
        BY <1>3, <2>1, <4>1 DEF HoldsInTime, InProcess
      <4>3. pc'[t] \in {"wait", "loop"}
        BY <1>3, <3>2 DEF MustRun
      <4> QED
        BY <4>1, <4>2, <4>3 DEF Waiting
    <3> QED
      BY <3>1, <3>2
  <2>3. ~InProcess(t)' /\ Current(t)' = {} /\ Held(t)' = {}
    BY <2>2 DEF InProcess, Current, Held
  <2>4. Cardinality(Held(t)') = 0
    BY <2>3, FS_EmptySet
  <2> HIDE DEF InProcess, Current, Waiting, Held
  <2> QED
    BY <1>3, <2>2, <2>3, <2>4, ConsumerAssumption DEF HoldsInTime
<1> HIDE DEF Held, HoldsInTime
<1> QED
  BY <1>2, <1>3 DEF TimedInv

\* The other threads are not disturbed by a step of thread t that leaves
\* their entries pending and makes no entry older.
LEMMA OthersStay ==
  ASSUME TypeOK, TypeOK', TimedInv, NEW t \in Threads, proc' = proc,
         \A u \in Threads \ {t} : UNCHANGED <<pc[u], cur[u], elapsed[u], Waiting(u)>>,
         \A u \in Threads \ {t} : Held(u) \subseteq pending',
         \A m \in pending : idle'[m] <= idle[m]
  PROVE  \A u \in Threads \ {t} : HoldsInTime(u)' /\ Held(u)' = Held(u)
<1> SUFFICES ASSUME NEW u \in Threads \ {t}
             PROVE  HoldsInTime(u)' /\ Held(u)' = Held(u)
  OBVIOUS
<1>1. HoldsInTime(u) /\ Held(u) \subseteq pending
  BY DEF TimedInv, HoldsInTime
<1> HIDE DEF Held, HoldsInTime, Waiting
<1> QED
  BY <1>1, KeepThread

\* A thread that moves between control points but keeps its entries and the
\* age of its handler's context keeps holding in time.
LEMMA SameEntries ==
  ASSUME TypeOK, TypeOK', TimedInv, NEW t \in Threads,
         Held(t)' = Held(t), elapsed'[t] = elapsed[t],
         Current(t)' \cap Waiting(t)' = {},
         Waiting(t)' # {} => InProcess(t)' \/ pc'[t] = "next",
         ~InProcess(t)' => elapsed[t] = 0,
         proc' = proc, pc[t] # "off",
         Held(t) \subseteq pending', \A m \in pending : idle'[m] <= idle[m]
  PROVE  HoldsInTime(t)'
<1>1. HoldsInTime(t)
  BY DEF TimedInv
<1>2. proc'[t[1]] # "down"
  BY <1>1 DEF HoldsInTime
<1>3. ASSUME NEW m \in Held(t)
      PROVE  idle'[m] + Cardinality(Held(t)) * Timeout <= ClaimCount * Timeout + elapsed[t]
  <2>1. idle[m] + Cardinality(Held(t)) * Timeout <= ClaimCount * Timeout + elapsed[t]
    BY <1>1 DEF HoldsInTime
  <2>2. /\ idle[m] \in Nat /\ idle'[m] \in Nat /\ Cardinality(Held(t)) \in Nat
        /\ elapsed[t] \in Nat /\ idle'[m] <= idle[m]
    BY <1>1, HeldFacts DEF TypeOK, HoldsInTime
  <2> QED
    BY <2>1, <2>2, ConsumerAssumption
<1> HIDE DEF Held, Current, Waiting, InProcess
<1> QED
  BY <1>1, <1>2, <1>3 DEF HoldsInTime

\* The loop of a worker holds nothing until XREADGROUP hands it a fresh entry.
LEMMA TimedWorker ==
  ASSUME TypeOK, TypeOK', DeliveryInv, TimedInv, NEW w \in Workers, RunWorker(w)
  PROVE  TimedInv'
<1> USE ThreadFacts
<1>1. w[2] # 0 /\ w \in Threads
  BY ThreadParts
<1>2. \A t \in Threads : Waiting(t)' = Waiting(t)
  BY DEF RunWorker, WorkerLoop, XReadGroupMsg, XReadGroupNil, XReadGroupErr,
         WorkerBackoff, reaperVars, Waiting
<1>3. /\ pc[w] \in {"loop", "read", "backoff"} /\ proc' = proc
      /\ \A u \in Threads \ {w} : UNCHANGED <<pc[u], cur[u], elapsed[u]>>
  BY DEF RunWorker, WorkerLoop, XReadGroupMsg, XReadGroupNil, XReadGroupErr,
         WorkerBackoff, StartProcess, Goto, TypeOK
<1>4. /\ pending \subseteq pending' /\ \A m \in pending : idle'[m] <= idle[m]
  <2>1. CASE Deliver
    BY <2>1, ConsumerAssumption DEF Deliver, TypeOK
  <2>2. CASE UNCHANGED <<pending, idle>>
    BY <2>2, ConsumerAssumption DEF TypeOK
  <2> QED
    BY ZenonT(30), <2>1, <2>2 DEF RunWorker, WorkerLoop, XReadGroupMsg, XReadGroupNil, XReadGroupErr,
                      WorkerBackoff, streamVars
<1>5. \A u \in Threads : Held(u) \subseteq pending'
  BY <1>4 DEF TimedInv, HoldsInTime
<1>6. \A u \in Threads \ {w} : HoldsInTime(u)' /\ Held(u)' = Held(u)
  <2> HIDE DEF Held, HoldsInTime, Waiting
  <2> QED
    BY <1>1, <1>2, <1>3, <1>4, <1>5, OthersStay
<1>7. Held(w) = {} /\ Waiting(w) = {} /\ Waiting(w)' = {}
  BY <1>1, <1>3 DEF Held, Current, Waiting, InProcess
<1>8. elapsed[w] = 0 /\ proc'[w[1]] # "down"
  BY <1>1, <1>3 DEF TimedInv, HoldsInTime, InProcess
<1>9. CASE XReadGroupMsg(w)
  <2>1. /\ pc'[w] = "run" /\ cur'[w] = last + 1 /\ elapsed'[w] = 0
        /\ last + 1 \in pending' /\ idle'[last + 1] = 0 /\ last + 1 \in Ids
    BY <1>1, <1>9, ConsumerAssumption DEF XReadGroupMsg, Deliver, StartProcess, Goto, TypeOK, Ids
  <2>2. Current(w)' = {last + 1} /\ Held(w)' = {last + 1} /\ InProcess(w)'
    BY <1>7, <2>1 DEF Current, Held, InProcess
  <2>3. Cardinality(Held(w)') = 1
    BY ZenonT(30), <2>2, FS_Singleton
  <2>4. HoldsInTime(w)'
    <3>1. 0 + 1 * Timeout <= ClaimCount * Timeout + 0
      <4>1. PICK j \in Nat : ClaimCount = j + 1
        BY ConsumerAssumption
      <4>2. (j + 1) * Timeout = j * Timeout + Timeout /\ j * Timeout \in Nat
        BY ConsumerAssumption
      <4> QED
        BY <4>1, <4>2, ConsumerAssumption
    <3> HIDE DEF Current, Held, InProcess, Waiting
    <3> QED
      BY <1>7, <1>8, <2>1, <2>2, <2>3, <3>1, ConsumerAssumption DEF HoldsInTime
  <2>5. last + 1 \notin pending
    BY SMTT(30), ConsumerAssumption DEF TypeOK, DeliveryInv, Delivered
  <2>6. \A u \in Threads \ {w} : Held(w)' \cap Held(u) = {}
    BY <2>2, <2>5 DEF TimedInv, HoldsInTime
  <2> HIDE DEF Held, HoldsInTime
  <2> QED
    BY <1>1, <1>6, <2>4, <2>6, OneThread
<1>10. CASE ~XReadGroupMsg(w)
  <2>1. pc'[w] \in {"off", "loop", "read", "backoff"} /\ elapsed'[w] = elapsed[w]
    BY <1>1, <1>10 DEF RunWorker, WorkerLoop, XReadGroupNil, XReadGroupErr, WorkerBackoff,
                       Goto, TypeOK
  <2>2. Held(w)' = {} /\ Current(w)' = {} /\ ~InProcess(w)'
    BY <1>7, <2>1 DEF Held, Current, InProcess
  <2> HIDE DEF Held, Current, Waiting, InProcess
  <2>3. HoldsInTime(w)'
    BY ZenonT(30), <1>1, <1>3, <1>4, <1>7, <1>8, <2>1, <2>2, SameEntries
  <2> HIDE DEF HoldsInTime
  <2> QED
    BY <1>1, <1>6, <2>2, <2>3, OneThread
<1> QED
  BY <1>9, <1>10

\* process(): the handler's outcomes keep the entry, its end gives it up and
\* pays one Timeout back, whether XACK reached Redis or not.
LEMMA TimedHandler ==
  ASSUME TypeOK, TypeOK', TimedInv, NEW t \in Threads, Process(t)
  PROVE  TimedInv'
<1>1. /\ InProcess(t) /\ pc[t] # "off" /\ proc' = proc
      /\ \A u \in Threads \ {t} : UNCHANGED <<pc[u], cur[u], elapsed[u]>>
  BY DEF Process, HandlerFails, PublishResult, PublishReplyLost, HandlerReturns, XAck,
         XAckCancelled, XAckErr, AfterProcess, Goto, InProcess, TypeOK
<1>2. \A u \in Threads : Waiting(u)' = Waiting(u)
  BY ZenonT(30) DEF Process, HandlerFails, PublishResult, PublishReplyLost, HandlerReturns, XAck,
         XAckCancelled, XAckErr, reaperVars, Waiting
<1>3. HoldsInTime(t)
  BY DEF TimedInv
<1>4. cur[t] \in Held(t) /\ cur[t] \in Ids /\ Held(t) = {cur[t]} \cup Waiting(t)
      /\ cur[t] \notin Waiting(t)
  BY ZenonT(30), <1>1, <1>3, HeldFacts DEF Held, Current, HoldsInTime
<1>5. /\ pending \ {cur[t]} \subseteq pending' /\ pending' \subseteq pending
      /\ \A m \in pending : idle'[m] <= idle[m]
  <2>1. CASE AckEntry(cur[t])
    BY <1>4, <2>1, ConsumerAssumption DEF AckEntry, TypeOK
  <2>2. CASE UNCHANGED <<pending, idle>>
    BY <2>2, ConsumerAssumption DEF TypeOK
  <2> QED
    BY <2>1, <2>2 DEF Process, HandlerFails, PublishResult, PublishReplyLost, HandlerReturns,
                      XAck, XAckCancelled, XAckErr, streamVars
<1>6. \A u \in Threads \ {t} : Held(u) \subseteq pending'
  BY <1>4, <1>5 DEF TimedInv, HoldsInTime
<1>7. \A u \in Threads \ {t} : HoldsInTime(u)' /\ Held(u)' = Held(u)
  <2> HIDE DEF Held, HoldsInTime, Waiting, InProcess
  <2> QED
    BY <1>1, <1>2, <1>5, <1>6, OthersStay
<1>8. CASE XAck(t) \/ XAckCancelled(t) \/ XAckErr(t)
  <2>1. AfterProcess(t)
    BY <1>8 DEF XAck, XAckCancelled, XAckErr
  <2>2. /\ pc'[t] = (IF t[2] = 0 THEN "next" ELSE "loop") /\ elapsed'[t] = 0
    BY <2>1 DEF AfterProcess, Goto, TypeOK
  <2>3. /\ ~InProcess(t)' /\ Current(t)' = {} /\ Held(t)' = Waiting(t)
        /\ Waiting(t) # {} => pc'[t] = "next"
    BY <1>2, <2>2 DEF InProcess, Current, Held, Waiting
  <2>4. Waiting(t) \subseteq pending' /\ Waiting(t) \subseteq Held(t) /\ Held(t) \subseteq pending
    BY <1>3, <1>4, <1>5 DEF HoldsInTime
  <2>5. /\ IsFiniteSet(Held(t)) /\ Cardinality(Held(t)) \in Nat /\ elapsed[t] \in 0..Timeout
        /\ Held(t) \subseteq Ids
    BY <1>3, HeldFacts
  <2>6. Waiting(t) = Held(t) \ {cur[t]}
    BY <1>4
  <2> HIDE DEF Held, Current, Waiting, InProcess
  <2>7. PICK k \in Nat : k = Cardinality(Waiting(t)) /\ Cardinality(Held(t)) = k + 1
    <3>1. IsFiniteSet(Waiting(t)) /\ Cardinality(Waiting(t)) = Cardinality(Held(t)) - 1
      BY <1>4, <2>5, <2>6, FS_RemoveElement
    <3>2. Cardinality(Waiting(t)) \in Nat
      BY <3>1, FS_CardinalityType
    <3> QED
      BY <2>5, <3>1, <3>2
  <2>8. ASSUME NEW m \in Waiting(t)
        PROVE  idle'[m] + k * Timeout <= ClaimCount * Timeout + 0
    <3>1. idle[m] + (k + 1) * Timeout <= ClaimCount * Timeout + elapsed[t]
      BY <1>3, <2>4, <2>7 DEF HoldsInTime
    <3>2. idle[m] \in Nat /\ idle'[m] \in Nat /\ idle'[m] <= idle[m]
      BY <1>5, <2>4, <2>5 DEF TypeOK
    <3>3. (k + 1) * Timeout = k * Timeout + Timeout /\ k * Timeout \in Nat
          /\ ClaimCount * Timeout \in Nat
      BY ConsumerAssumption
    <3> QED
      BY <2>5, <3>1, <3>2, <3>3, ConsumerAssumption
  <2>9. k <= ClaimCount
    BY <1>3, <2>7, ConsumerAssumption DEF HoldsInTime
  <2>10. HoldsInTime(t)'
    BY <1>1, <1>2, <1>3, <2>2, <2>3, <2>4, <2>7, <2>8, <2>9 DEF HoldsInTime
  <2>11. \A u \in Threads \ {t} : Held(t)' \cap Held(u) = {}
    BY <2>3, <2>4 DEF TimedInv
  <2> HIDE DEF HoldsInTime
  <2> QED
    BY <1>7, <2>10, <2>11, OneThread
<1>9. CASE HandlerFails(t) \/ PublishResult(t) \/ PublishReplyLost(t) \/ HandlerReturns(t)
  <2>1. pc'[t] \in {"sent", "ack"} /\ cur' = cur /\ elapsed' = elapsed
        /\ pending' = pending
    BY <1>9 DEF HandlerFails, PublishResult, PublishReplyLost, HandlerReturns, Goto,
                streamVars, TypeOK
  <2>2. InProcess(t)' /\ Current(t)' = Current(t) /\ Held(t)' = Held(t)
    BY <1>1, <1>2, <2>1 DEF InProcess, Current, Held
  <2>3. Current(t) \cap Waiting(t) = {} /\ Held(t) \subseteq pending
    BY <1>3 DEF HoldsInTime
  <2> HIDE DEF Held, Current, Waiting, InProcess
  <2>4. HoldsInTime(t)'
    BY ZenonT(30), <1>1, <1>2, <1>5, <2>1, <2>2, <2>3, SameEntries
  <2>5. \A u \in Threads \ {t} : Held(t)' \cap Held(u) = {}
    BY <2>2 DEF TimedInv
  <2> HIDE DEF HoldsInTime
  <2> QED
    BY <1>7, <2>4, <2>5, OneThread
<1> QED
  BY <1>8, <1>9 DEF Process

\* The reaper claims what nobody holds, at most ClaimCount entries with a
\* fresh idle time; moving one of them into process() changes nothing.
LEMMA TimedReaper ==
  ASSUME TypeOK, TypeOK', TimedInv, Unhurried, NEW a \in Agents, RunReaper(a)
  PROVE  TimedInv'
<1> DEFINE t == Reaper(a)
<1>0. t \in Threads /\ t[1] = a /\ t[2] = 0
  BY ThreadFacts, ThreadParts
<1> HIDE DEF t
<1>1. HoldsInTime(t) /\ Waiting(t) = batch[a] /\ Waiting(t)' = batch'[a]
  BY <1>0 DEF TimedInv, Waiting
<1>2. /\ pc[t] \in {"wait", "claim", "next"} /\ proc' = proc /\ pending' = pending
      /\ \A u \in Threads \ {t} : UNCHANGED <<pc[u], cur[u], elapsed[u]>>
      /\ \A b \in Agents \ {a} : batch'[b] = batch[b]
  <2>1. CASE ProcessClaimed(a)
    BY <1>0, <2>1 DEF ProcessClaimed, StartProcess, Goto, streamVars, TypeOK, t
  <2>2. CASE ~ProcessClaimed(a)
    BY ZenonT(30), <1>0, <2>2 DEF RunReaper, ReaperTick, ReaperDone, XAutoClaim, XAutoClaimErr, NextPage,
                      ReaperStep, ResetIdle, Goto, streamVars, reaperVars, TypeOK, t
  <2> QED
    BY <2>1, <2>2
<1>3. \A u \in Threads \ {t} : Waiting(u)' = Waiting(u)
  <2>1. \A u \in Threads \ {t} : u[2] = 0 => u[1] \in Agents \ {a}
    BY ThreadFacts, ThreadParts DEF t
  <2> QED
    BY ZenonT(30), <1>2, <2>1 DEF Waiting
<1>4. \A m \in pending : idle'[m] <= idle[m]
  <2>1. ASSUME NEW S, ResetIdle(S), NEW m \in pending PROVE idle'[m] <= idle[m]
    BY <2>1, ConsumerAssumption DEF ResetIdle, TypeOK
  <2>2. ASSUME idle' = idle, NEW m \in pending PROVE idle'[m] <= idle[m]
    BY <2>2, ConsumerAssumption DEF TypeOK
  <2> QED
    BY <2>1, <2>2 DEF RunReaper, ReaperTick, ReaperDone, XAutoClaim, XAutoClaimErr,
                      ProcessClaimed, NextPage, streamVars
<1>5. \A u \in Threads : Held(u) \subseteq pending'
  BY ZenonT(30), <1>2 DEF TimedInv, HoldsInTime
<1>6. \A u \in Threads \ {t} : HoldsInTime(u)' /\ Held(u)' = Held(u)
  <2> HIDE DEF Held, HoldsInTime, Waiting
  <2> QED
    BY ZenonT(30), <1>0, <1>2, <1>3, <1>4, <1>5, OthersStay
<1>7. /\ Current(t) = {} /\ Held(t) = batch[a] /\ elapsed[t] = 0 /\ pc[t] # "off"
      /\ proc[a] # "down" /\ (batch[a] # {} => pc[t] = "next")
  BY ZenonT(30), <1>0, <1>1, <1>2 DEF HoldsInTime, Current, Held, InProcess
<1>8. CASE XAutoClaim(a)
  <2>1. /\ pc'[t] = "next" /\ elapsed'[t] = 0 /\ batch'[a] = Claimed(cursor[a])
        /\ \A m \in Claimed(cursor[a]) : m \in Ids => idle'[m] = 0
    BY ZenonT(30), <1>0, <1>7, <1>8 DEF XAutoClaim, ReaperStep, ResetIdle, Goto, TypeOK, t
  <2>2. /\ ~InProcess(t)' /\ Current(t)' = {} /\ Held(t)' = Claimed(cursor[a])
        /\ Waiting(t)' = Claimed(cursor[a])
    BY ZenonT(30), <1>1, <2>1 DEF InProcess, Current, Held
  <2> DEFINE k == Cardinality(Claimed(cursor[a]))
  <2>3. /\ Claimed(cursor[a]) \subseteq Ids /\ Claimed(cursor[a]) \subseteq pending
        /\ k <= ClaimCount
    BY ClaimedCount, ClaimedArePending
  <2>4. k \in Nat
    <3>1. IsFiniteSet(Ids)
      BY FS_Interval, ConsumerAssumption DEF Ids
    <3>2. IsFiniteSet(Claimed(cursor[a]))
      BY <2>3, <3>1, FS_Subset
    <3> QED
      BY <3>2, FS_CardinalityType
  <2>5. 0 + k * Timeout <= ClaimCount * Timeout + 0
    <3> HIDE DEF k
    <3>1. PICK d \in Nat : ClaimCount = k + d
      BY <2>3, <2>4, ConsumerAssumption
    <3>2. (k + d) * Timeout = k * Timeout + d * Timeout /\ k * Timeout \in Nat
          /\ d * Timeout \in Nat
      BY <2>4, ConsumerAssumption
    <3> QED
      BY <3>1, <3>2
  <2>6. HoldsInTime(t)'
    <3> HIDE DEF Held, Current, Waiting, InProcess
    <3> QED
      BY <1>0, <1>2, <1>7, <2>1, <2>2, <2>3, <2>5 DEF HoldsInTime
  <2>7. \A u \in Threads \ {t} : Held(t)' \cap Held(u) = {}
    BY <2>2, ClaimedIsFree
  <2> HIDE DEF Held, HoldsInTime
  <2> QED
    BY <1>0, <1>6, <2>6, <2>7, OneThread
<1>9. CASE ~XAutoClaim(a)
  <2>1. /\ Held(t)' = Held(t) /\ elapsed'[t] = 0
        /\ Current(t)' \cap Waiting(t)' = {}
        /\ Waiting(t)' # {} => InProcess(t)' \/ pc'[t] = "next"
    <3>1. CASE ProcessClaimed(a)
      <4>1. PICK m \in batch[a] : /\ batch' = [batch EXCEPT ![a] = batch[a] \ {m}]
                                  /\ StartProcess(t, m)
        BY ZenonT(30), <3>1 DEF ProcessClaimed, t
      <4>2. /\ pc'[t] = "run" /\ cur'[t] = m /\ elapsed'[t] = 0 /\ batch'[a] = batch[a] \ {m}
        BY <1>0, <4>1 DEF StartProcess, Goto, TypeOK
      <4>3. InProcess(t)' /\ Current(t)' = {m} /\ Waiting(t)' = batch[a] \ {m}
        BY <1>1, <4>2 DEF InProcess, Current
      <4> QED
        BY <1>7, <4>2, <4>3 DEF Held
    <3>2. CASE ~ProcessClaimed(a)
      <4>1. /\ pc'[t] \in {"off", "wait", "claim"} /\ elapsed' = elapsed /\ batch' = batch
            /\ pc[t] = "next" => batch[a] = {}
        BY <1>0, <1>9, <3>2 DEF RunReaper, ReaperTick, ReaperDone, XAutoClaimErr, NextPage,
                      ReaperStep, Goto, reaperVars, TypeOK, t
      <4>2. Current(t)' = {} /\ Waiting(t)' = {} /\ batch[a] = {}
        BY ZenonT(30), <1>1, <1>7, <4>1 DEF Current, InProcess
      <4> QED
        BY <1>7, <4>1, <4>2 DEF Held
    <3> QED
      BY <3>1, <3>2
  <2>2. Held(t) \subseteq pending'
    BY <1>0, <1>5
  <2> HIDE DEF Held, Current, Waiting, InProcess
  <2>3. HoldsInTime(t)'
    BY ZenonT(30), <1>0, <1>2, <1>4, <1>7, <2>1, <2>2, SameEntries
  <2>4. \A u \in Threads \ {t} : Held(t)' \cap Held(u) = {}
    BY ZenonT(30), <1>0, <2>1 DEF TimedInv
  <2> HIDE DEF HoldsInTime
  <2> QED
    BY <1>0, <1>6, <2>3, <2>4, OneThread
<1> QED
  BY <1>8, <1>9

\* Every step of every actor keeps the timed invariant.
LEMMA TimedStep ==
  ASSUME TypeOK, TypeOK', DeliveryInv, TimedInv, Unhurried, [Next]_vars
  PROVE  TimedInv'
<1>1. ASSUME UNCHANGED <<pc, cur, elapsed, batch, pending, idle>>,
             \A a \in Agents : proc'[a] = "down" => proc[a] = "down"
      PROVE  TimedInv'
  <2>1. \A m \in pending : idle'[m] <= idle[m]
    BY <1>1, ConsumerAssumption DEF TypeOK
  <2> QED
    BY <1>1, <2>1, TimedAside
<1>2. CASE Trigger \/ UNCHANGED vars
  BY <1>1, <1>2 DEF Trigger, vars, streamVars, threadVars, reaperVars
<1>3. ASSUME NEW a \in Agents, MustRunPanics(a) \/ Shutdown(a) \/ RunReturns(a)
      PROVE  TimedInv'
  <2>1. UNCHANGED <<pc, cur, elapsed, batch, pending, idle>>
    BY <1>3 DEF MustRunPanics, Shutdown, RunReturns, EnsureGroup, streamVars, threadVars,
                reaperVars
  <2>2. \A b \in Agents : proc'[b] = "down" => proc[b] = "down"
    BY <1>3 DEF MustRunPanics, Shutdown, RunReturns, TypeOK
  <2> QED
    BY <1>1, <2>1, <2>2
<1> QED
  BY <1>2, <1>3, TimedTick, TimedProcess, TimedReaper, TimedWorker, TimedHandler DEF Next

\* With room for a whole batch before MinIdle, every entry has at most one
\* thread that answers for it, and that thread is done with it before
\* XAUTOCLAIM may give it away (reaper.go:37-54).
THEOREM TimedInvariance ==
  ASSUME Prompt = TRUE, ClaimCount * Timeout < MinIdle
  PROVE  Spec => []TimedInv
<1>1. Init => TimedInv
  <2> SUFFICES ASSUME Init PROVE TimedInv
    OBVIOUS
  <2>1. \A t \in Threads : Held(t) = {} /\ ~InProcess(t) /\ pc[t] = "off" /\ elapsed[t] = 0
                           /\ Waiting(t) = {}
    <3>1. \A t \in Threads : t[1] \in Agents
      BY DEF Threads
    <3> QED
      BY <3>1 DEF Init, Held, Current, Waiting, InProcess
  <2>2. Cardinality({}) = 0 /\ 0 <= ClaimCount
    BY FS_EmptySet, ConsumerAssumption
  <2> QED
    BY <2>1, <2>2 DEF TimedInv, HoldsInTime, Current
<1>2. TypeOK /\ TypeOK' /\ DeliveryInv /\ TimedInv /\ [Next]_vars => TimedInv'
  BY TimedStep DEF Unhurried
<1> QED
  BY <1>1, <1>2, Invariance, PTL DEF Spec

\* The reaper never runs a handler beside one that is still running
\* (docs/01-architecture.md:188-190), if handlers are all that takes time
\* and MinIdle is longer than a full batch of timed-out handlers.
THEOREM OneHandler ==
  ASSUME Prompt = TRUE, ClaimCount * Timeout < MinIdle
  PROVE  Spec => []OneHandlerPerMessage
<1>1. TimedInv => OneHandlerPerMessage
  <2> SUFFICES ASSUME TimedInv, NEW t \in Threads, NEW u \in Threads, t # u,
                      InHandler(t), InHandler(u)
               PROVE  cur[t] # cur[u]
    BY DEF OneHandlerPerMessage
  <2>1. cur[t] \in Held(t) /\ cur[u] \in Held(u)
    BY DEF InHandler, InProcess, Current, Held
  <2>2. Held(t) \cap Held(u) = {}
    BY DEF TimedInv
  <2> QED
    BY <2>1, <2>2
<1> QED
  BY <1>1, TimedInvariance, PTL

\* Under the same timing a handler is started only for an entry that is still
\* unacknowledged: nothing in a reaper's batch is finished by somebody else
\* while it waits its turn (reaper.go:51-54).
THEOREM NoStaleRun ==
  ASSUME Prompt = TRUE, ClaimCount * Timeout < MinIdle
  PROVE  Spec => NoRunAfterAck
<1> DEFINE Fresh == \A t \in Threads : pc[t] # "run" /\ pc'[t] = "run" => cur'[t] \in pending'
<1>1. ASSUME TypeOK, TimedInv, Next PROVE Fresh
  <2> SUFFICES ASSUME NEW t \in Threads, pc[t] # "run", pc'[t] = "run"
               PROVE  cur'[t] \in pending'
    OBVIOUS
  <2>1. CASE Trigger \/ Tick
    BY <2>1 DEF Trigger, Tick, threadVars
  <2>2. ASSUME NEW a \in Agents, \/ Crash(a) \/ MustRun(a) \/ MustRunPanics(a)
                                 \/ Shutdown(a) \/ RunReturns(a)
        PROVE  FALSE
    BY <2>2 DEF Crash, MustRun, MustRunPanics, Shutdown, RunReturns, threadVars
  <2>3. ASSUME NEW a \in Agents, RunReaper(a)
        PROVE  cur'[t] \in pending'
    <3>1. CASE ProcessClaimed(a)
      <4>1. PICK m \in batch[a] : StartProcess(Reaper(a), m)
        BY ZenonT(30), <3>1 DEF ProcessClaimed
      <4>2. pending' = pending
        BY <3>1 DEF ProcessClaimed, streamVars
      <4>3. m \in Held(Reaper(a)) /\ Reaper(a) \in Threads
        BY <4>1, ThreadFacts, ThreadParts DEF Held, Waiting
      <4>4. m \in pending
        BY <1>1, <4>3 DEF TimedInv, HoldsInTime
      <4>5. t = Reaper(a) /\ cur'[t] = m
        BY <1>1, <4>1, <4>3 DEF StartProcess, Goto, TypeOK
      <4> QED
        BY <4>2, <4>4, <4>5
    <3>2. CASE ~ProcessClaimed(a)
      BY <1>1, <2>3, <3>2 DEF RunReaper, ReaperTick, ReaperDone, XAutoClaim, XAutoClaimErr, NextPage,
                        ReaperStep, Goto, TypeOK
    <3> QED
      BY <3>1, <3>2
  <2>4. ASSUME NEW w \in Workers, RunWorker(w)
        PROVE  cur'[t] \in pending'
    <3>1. CASE XReadGroupMsg(w)
      BY <1>1, <3>1, ThreadFacts DEF XReadGroupMsg, Deliver, StartProcess, Goto, TypeOK
    <3>2. CASE ~XReadGroupMsg(w)
      BY <1>1, <2>4, <3>2 DEF RunWorker, WorkerLoop, XReadGroupNil, XReadGroupErr, WorkerBackoff,
                        Goto, TypeOK
    <3> QED
      BY <3>1, <3>2
  <2>5. ASSUME NEW u \in Threads, Process(u)
        PROVE  FALSE
    BY <1>1, <2>5 DEF Process, HandlerFails, PublishResult, PublishReplyLost, HandlerReturns, XAck,
                XAckCancelled, XAckErr, AfterProcess, Goto, TypeOK
  <2> QED
    BY <1>1, <2>1, <2>2, <2>3, <2>4, <2>5 DEF Next
<1>2. TypeOK /\ TimedInv /\ [Next]_vars => [Fresh]_vars
  BY <1>1
<1> QED
  BY <1>2, Invariance, TimedInvariance, PTL DEF Spec, NoRunAfterAck
=============================================================================
