--------------------------- MODULE ConsumerProofs ---------------------------
(***************************************************************************)
(* What Consumer guarantees for any number of agents, workers, triggers,   *)
(* crashes and errors, and for any Timeout, MinIdle and ClaimCount.        *)
(***************************************************************************)
EXTENDS Consumer, TLAPS

\* XAUTOCLAIM only ever claims pending entries.
LEMMA ClaimedArePending ==
  ASSUME NEW c PROVE Claimed(c) \subseteq pending
BY DEF Claimed, Eligible

\* A thread belongs to an agent; the reaper is one of its threads.
LEMMA ThreadFacts ==
  /\ \A a \in Agents : Reaper(a) \in Threads
  /\ \A w \in Workers : w \in Threads
  /\ \A t \in Threads : t[1] \in Agents
BY ConsumerAssumption DEF Threads, Workers, Reaper

\* A step of the environment or of MustRun preserves the types.
LEMMA TypeEnvironment ==
  ASSUME TypeOK, NEW a,
         \/ Trigger \/ Tick
         \/ a \in Agents /\ ( \/ Crash(a) \/ MustRun(a) \/ MustRunPanics(a)
                             \/ Shutdown(a) \/ RunReturns(a) )
  PROVE  TypeOK'
<1> USE ConsumerAssumption DEF TypeOK, Ids, ProcState, PcState
<1>1. CASE Trigger
  BY SMTT(30), <1>1 DEF Trigger, threadVars, reaperVars, resultVars, faultVars
<1>2. CASE Tick
  BY SMTT(30), <1>2 DEF Tick, Older, reaperVars, resultVars, faultVars
<1>3. CASE a \in Agents /\ Crash(a)
  BY <1>3 DEF Crash, streamVars, resultVars
<1>4. CASE a \in Agents /\ MustRun(a)
  BY ZenonT(30), <1>4 DEF MustRun, EnsureGroup, reaperVars, resultVars, faultVars
<1>5. CASE a \in Agents /\ MustRunPanics(a)
  <2>1. CASE EnsureGroup
    <3>1. start' \in 0..MaxMsgs /\ last' \in 0..MaxMsgs /\ group' \in BOOLEAN
      BY <2>1 DEF EnsureGroup
    <3>2. errors' \in 0..MaxErrors
      BY <1>5 DEF MustRunPanics
    <3> QED
      BY SMTT(30), <1>5, <2>1, <3>1, <3>2 DEF MustRunPanics, EnsureGroup, threadVars, reaperVars, resultVars
  <2>2. CASE UNCHANGED streamVars
    <3>1. errors' \in 0..MaxErrors
      BY <1>5 DEF MustRunPanics
    <3> QED
      BY SMTT(30), <1>5, <2>2, <3>1 DEF MustRunPanics, streamVars, threadVars, reaperVars, resultVars
  <2> QED
    BY ZenonT(30), <1>5, <2>1, <2>2 DEF MustRunPanics
<1>6. CASE a \in Agents /\ (Shutdown(a) \/ RunReturns(a))
  BY ZenonT(30), <1>6 DEF Shutdown, RunReturns, streamVars, threadVars, reaperVars, resultVars, faultVars
<1> HIDE DEF TypeOK
<1> QED
  BY <1>1, <1>2, <1>3, <1>4, <1>5, <1>6

\* A step of runWorker preserves the types.
LEMMA TypeWorker ==
  ASSUME TypeOK, NEW w \in Threads, RunWorker(w)
  PROVE  TypeOK'
<1> USE ConsumerAssumption DEF TypeOK, Ids, PcState, streamVars, reaperVars,
        resultVars, faultVars, Goto
<1>1. CASE WorkerLoop(w)
  BY SMTT(30), <1>1 DEF WorkerLoop
<1>2. CASE XReadGroupMsg(w)
  BY SMTT(30), <1>2 DEF XReadGroupMsg, Deliver, StartProcess
<1>3. CASE XReadGroupNil(w)
  BY SMTT(30), <1>3 DEF XReadGroupNil
<1>4. CASE XReadGroupErr(w)
  <2>1. CASE Deliver
    BY SMTT(30), <1>4, <2>1 DEF XReadGroupErr, Deliver
  <2>2. CASE UNCHANGED streamVars
    BY SMTT(30), <1>4, <2>2 DEF XReadGroupErr
  <2> QED
    BY ZenonT(30), <1>4, <2>1, <2>2 DEF XReadGroupErr
<1>5. CASE WorkerBackoff(w)
  BY ZenonT(30), <1>5 DEF WorkerBackoff
<1> HIDE DEF TypeOK
<1> QED
  BY <1>1, <1>2, <1>3, <1>4, <1>5 DEF RunWorker

\* XACK and the idle reset of a claim keep the PEL well-typed.
LEMMA TypePel ==
  ASSUME idle \in [Ids -> 0..MinIdle], pending \subseteq Ids
  PROVE  /\ \A m \in Ids : AckEntry(m) =>
              pending' \subseteq Ids /\ idle' \in [Ids -> 0..MinIdle]
         /\ \A S : ResetIdle(S) => idle' \in [Ids -> 0..MinIdle]
<1>1. 0 \in 0..MinIdle
  BY ConsumerAssumption
<1>2. ASSUME NEW m \in Ids, AckEntry(m)
      PROVE  pending' \subseteq Ids /\ idle' \in [Ids -> 0..MinIdle]
  BY <1>1, <1>2 DEF AckEntry
<1>3. ASSUME NEW S, ResetIdle(S)
      PROVE  idle' \in [Ids -> 0..MinIdle]
  BY <1>1, <1>3 DEF ResetIdle
<1> QED
  BY <1>2, <1>3

\* A step of process() preserves the types; it needs that a thread in
\* process() has a message, which DeliveryInv says.
LEMMA TypeProcess ==
  ASSUME TypeOK, NEW t \in Threads, Process(t),
         pc[t] \in {"run", "sent", "ack"} => cur[t] \in Ids
  PROVE  TypeOK'
<1> USE ConsumerAssumption DEF TypeOK, Ids, PcState, streamVars, reaperVars,
        resultVars, faultVars, Goto
<1>0. cur[t] \in Ids
  BY DEF Process, HandlerFails, PublishResult, PublishReplyLost, HandlerReturns,
         XAck, XAckCancelled, XAckErr
<1> USE <1>0
<1>1. CASE HandlerFails(t)
  BY ZenonT(30), <1>1 DEF HandlerFails
<1>2. CASE PublishResult(t)
  BY ZenonT(30), <1>2 DEF PublishResult
<1>3. CASE PublishReplyLost(t)
  <2>1. errors' \in 0..MaxErrors /\ pc' \in [Threads -> PcState]
    BY <1>3 DEF PublishReplyLost
  <2>2. published' \subseteq Ids /\ failed' \subseteq Ids
    BY ZenonT(30), <1>3 DEF PublishReplyLost
  <2> QED
    BY SMTT(30), <1>3, <2>1, <2>2 DEF PublishReplyLost
<1>4. CASE HandlerReturns(t)
  BY ZenonT(30), <1>4 DEF HandlerReturns
<1>5. CASE XAck(t)
  <2>1. pending' \subseteq Ids /\ idle' \in [Ids -> 0..MinIdle]
    BY <1>5, TypePel DEF XAck
  <2>2. /\ pc' \in [Threads -> PcState] /\ cur' \in [Threads -> 0..MaxMsgs]
        /\ elapsed' \in [Threads -> 0..Timeout]
    BY <1>5 DEF XAck, AfterProcess
  <2> QED
    BY ZenonT(30), <1>5, <2>1, <2>2 DEF XAck, AckEntry
<1>6. CASE XAckCancelled(t)
  <2>1. pc' \in [Threads -> PcState]
    BY <1>6 DEF XAckCancelled, AfterProcess
  <2>2. cur' \in [Threads -> 0..MaxMsgs] /\ elapsed' \in [Threads -> 0..Timeout]
    BY <1>6 DEF XAckCancelled, AfterProcess
  <2> QED
    BY ZenonT(30), <1>6, <2>1, <2>2 DEF XAckCancelled
<1>7. CASE XAckErr(t)
  <2>1. /\ pc' \in [Threads -> PcState] /\ cur' \in [Threads -> 0..MaxMsgs]
        /\ elapsed' \in [Threads -> 0..Timeout]
    BY <1>7 DEF XAckErr, AfterProcess
  <2>2. errors' \in 0..MaxErrors
    BY <1>7 DEF XAckErr
  <2>3. UNCHANGED <<proc, cursor, batch, published, finished, failed, crashes, claimErrors>>
    BY <1>7 DEF XAckErr
  <2>4. added' = added /\ group' = group /\ start' = start /\ last' = last
    BY <1>7 DEF XAckErr, AckEntry
  <2>5. pending' \subseteq Ids /\ idle' \in [Ids -> 0..MinIdle]
    BY ZenonT(30), <1>7, TypePel DEF XAckErr
  <2> QED
    BY ZenonT(30), <2>1, <2>2, <2>3, <2>4, <2>5
<1> HIDE DEF TypeOK
<1> QED
  BY <1>1, <1>2, <1>3, <1>4, <1>5, <1>6, <1>7 DEF Process

\* A step of runReaper or claimPending preserves the types.
LEMMA TypeReaper ==
  ASSUME TypeOK, NEW a \in Agents, RunReaper(a)
  PROVE  TypeOK'
<1> USE ConsumerAssumption, ThreadFacts DEF TypeOK, Ids, PcState,
        streamVars, reaperVars, resultVars, faultVars, Goto, ReaperStep
<1>1. CASE ReaperTick(a)
  <2>1. cursor' \in [Agents -> {BadCursor} \cup 0..MaxMsgs] /\ pc' \in [Threads -> PcState]
    BY <1>1 DEF ReaperTick
  <2> QED
    BY SMTT(30), <1>1, <2>1 DEF ReaperTick
<1>2. CASE ReaperDone(a)
  BY SMTT(30), <1>2 DEF ReaperDone
<1>3. CASE XAutoClaim(a)
  <2>1. Claimed(cursor[a]) \subseteq Ids
    BY ZenonT(30), ClaimedArePending
  <2>2. idle' \in [Ids -> 0..MinIdle] /\ batch' \in [Agents -> SUBSET Ids]
    BY <1>3, <2>1 DEF XAutoClaim, ResetIdle
  <2>3. cursor' \in [Agents -> {BadCursor} \cup 0..MaxMsgs]
    BY <1>3 DEF XAutoClaim
  <2>4. pc' \in [Threads -> PcState]
    BY <1>3 DEF XAutoClaim
  <2> QED
    BY ZenonT(30), <1>3, <2>2, <2>3, <2>4 DEF XAutoClaim, ResetIdle
<1>4. CASE XAutoClaimErr(a)
  <2>1. cursor' \in [Agents -> {BadCursor} \cup 0..MaxMsgs] /\ pc' \in [Threads -> PcState]
    BY <1>4 DEF XAutoClaimErr
  <2>2. claimErrors' \in 0..MaxClaimErrors
    BY <1>4 DEF XAutoClaimErr
  <2>3. /\ idle' \in [Ids -> 0..MinIdle]
        /\ UNCHANGED <<added, group, start, last, pending>>
    <3>1. CASE ResetIdle(Claimed(cursor[a]))
      BY <3>1, TypePel DEF ResetIdle
    <3>2. CASE UNCHANGED streamVars
      BY <3>2
    <3> QED
      BY ZenonT(30), <1>4, <3>1, <3>2 DEF XAutoClaimErr
  <2> QED
    BY ZenonT(30), <1>4, <2>1, <2>2, <2>3 DEF XAutoClaimErr
<1>5. CASE ProcessClaimed(a)
  <2>1. PICK m \in batch[a] : /\ batch' = [batch EXCEPT ![a] = @ \ {m}]
                              /\ StartProcess(Reaper(a), m)
    BY ZenonT(30), <1>5 DEF ProcessClaimed
  <2>2. batch' \in [Agents -> SUBSET Ids]
    BY <2>1
  <2>3. /\ pc' \in [Threads -> PcState] /\ cur' \in [Threads -> 0..MaxMsgs]
        /\ elapsed' \in [Threads -> 0..Timeout]
    BY <2>1 DEF StartProcess
  <2> QED
    BY ZenonT(30), <1>5, <2>2, <2>3 DEF ProcessClaimed
<1>6. CASE NextPage(a)
  BY SMTT(30), <1>6 DEF NextPage
<1> HIDE DEF TypeOK
<1> QED
  BY <1>1, <1>2, <1>3, <1>4, <1>5, <1>6 DEF RunReaper

-----------------------------------------------------------------------------
\* Preservation of DeliveryInv, one lemma per group of actions.

\* Creating the group delivers and acknowledges nothing.
LEMMA EnsureGroupKeeps ==
  ASSUME TypeOK, DeliveryInv, EnsureGroup
  PROVE  /\ Delivered' = Delivered /\ Acked' = Acked
         /\ start' <= last' /\ last' <= added' /\ group'
<1> USE DEF TypeOK, DeliveryInv, EnsureGroup, Delivered, Acked
<1>1. CASE group
  BY <1>1
<1>2. CASE ~group
  <2>1. Delivered = {} /\ Delivered' = {}
    BY <1>2, ConsumerAssumption
  <2> QED
    BY <1>2, <2>1, ConsumerAssumption
<1> QED
  BY <1>1, <1>2

\* XREADGROUP extends the delivered entries by one pending entry.
LEMMA DeliverAdds ==
  ASSUME TypeOK, DeliveryInv, Deliver
  PROVE  /\ Delivered' = Delivered \cup {last + 1} /\ Acked' = Acked
         /\ start' <= last' /\ last' <= added'
<1> USE ConsumerAssumption DEF TypeOK, DeliveryInv, Deliver, Delivered, Acked
<1>1. start' <= last' /\ last' <= added'
  OBVIOUS
<1>2. Delivered' = Delivered \cup {last + 1}
  OBVIOUS
<1>3. last + 1 \notin Delivered
  BY SMTT(30)
<1> QED
  BY <1>1, <1>2, <1>3

\* A trigger, time, a crash, a start or a SIGTERM preserves DeliveryInv.
LEMMA InvEnvironment ==
  ASSUME TypeOK, DeliveryInv, NEW a,
         \/ Trigger \/ Tick
         \/ a \in Agents /\ ( \/ Crash(a) \/ MustRun(a) \/ MustRunPanics(a)
                             \/ Shutdown(a) \/ RunReturns(a) )
  PROVE  DeliveryInv'
<1> USE ConsumerAssumption DEF TypeOK, Ids, DeliveryInv, Delivered, Acked, AckedOnlyHandled
<1>1. CASE Trigger
  BY SMTT(30), <1>1 DEF Trigger, threadVars, reaperVars, resultVars, faultVars
<1>2. CASE Tick
  BY <1>2 DEF Tick, reaperVars, resultVars, faultVars
<1>3. CASE a \in Agents /\ Crash(a)
  BY <1>3 DEF Crash, streamVars, resultVars
<1>4. CASE a \in Agents /\ MustRun(a)
  BY SMTT(30), <1>4 DEF MustRun, EnsureGroup, reaperVars, resultVars, faultVars
<1>5. CASE a \in Agents /\ MustRunPanics(a)
  <2>1. CASE EnsureGroup
    <3> HIDE DEF Delivered, Acked
    <3> QED
      BY ZenonT(30), <1>5, <2>1, EnsureGroupKeeps
      DEF MustRunPanics, EnsureGroup, threadVars, reaperVars, resultVars
  <2>2. CASE UNCHANGED streamVars
    BY <1>5, <2>2 DEF MustRunPanics, streamVars, threadVars, reaperVars, resultVars
  <2> HIDE DEF TypeOK, DeliveryInv
  <2> QED
    BY <1>5, <2>1, <2>2 DEF MustRunPanics
<1>6. CASE a \in Agents /\ Shutdown(a)
  BY <1>6 DEF Shutdown, streamVars, threadVars, reaperVars, resultVars, faultVars
<1>7. CASE a \in Agents /\ RunReturns(a)
  BY <1>7 DEF RunReturns, streamVars, threadVars, reaperVars, resultVars, faultVars
<1> HIDE DEF TypeOK, DeliveryInv
<1> QED
  BY <1>1, <1>2, <1>3, <1>4, <1>5, <1>6, <1>7

\* A step of runWorker preserves DeliveryInv: what it reads is delivered.
LEMMA InvWorker ==
  ASSUME TypeOK, DeliveryInv, NEW w \in Workers, RunWorker(w)
  PROVE  DeliveryInv'
<1> USE ConsumerAssumption, ThreadFacts DEF TypeOK, Ids, DeliveryInv, Delivered, Acked,
        AckedOnlyHandled, PcState, streamVars, reaperVars, resultVars, faultVars, Goto
<1>1. CASE WorkerLoop(w)
  BY <1>1 DEF WorkerLoop
<1>2. CASE XReadGroupMsg(w)
  <2> HIDE DEF Delivered, Acked
  <2>1. /\ Delivered' = Delivered \cup {last + 1} /\ Acked' = Acked
        /\ start' <= last' /\ last' <= added'
    BY ZenonT(30), <1>2, DeliverAdds DEF XReadGroupMsg
  <2> QED
    BY <1>2, <2>1 DEF XReadGroupMsg, Deliver, StartProcess
<1>3. CASE XReadGroupNil(w)
  BY <1>3 DEF XReadGroupNil
<1>4. CASE XReadGroupErr(w)
  <2>1. CASE Deliver
    <3> HIDE DEF Delivered, Acked
    <3> QED
      BY ZenonT(30), <1>4, <2>1, DeliverAdds DEF XReadGroupErr, Deliver
  <2>2. CASE UNCHANGED streamVars
    BY <1>4, <2>2 DEF XReadGroupErr
  <2> QED
    BY SMTT(30), <1>4, <2>1, <2>2 DEF XReadGroupErr
<1>5. CASE WorkerBackoff(w)
  BY SMTT(30), <1>5 DEF WorkerBackoff
<1> HIDE DEF TypeOK, DeliveryInv
<1> QED
  BY <1>1, <1>2, <1>3, <1>4, <1>5 DEF RunWorker

\* A step of process() preserves DeliveryInv: XACK comes after the handler.
LEMMA InvProcess ==
  ASSUME TypeOK, DeliveryInv, NEW t \in Threads, Process(t)
  PROVE  DeliveryInv'
<1> USE ConsumerAssumption DEF TypeOK, Ids, DeliveryInv, Delivered, Acked,
        AckedOnlyHandled, PcState, streamVars, reaperVars, resultVars, faultVars, Goto
<1>1. CASE HandlerFails(t)
  BY ZenonT(30), <1>1 DEF HandlerFails
<1>2. CASE PublishResult(t)
  BY SMTT(30), <1>2 DEF PublishResult
<1>3. CASE PublishReplyLost(t)
  BY ZenonT(30), <1>3 DEF PublishReplyLost
<1>4. CASE HandlerReturns(t)
  BY ZenonT(30), <1>4 DEF HandlerReturns
<1>5. CASE XAck(t)
  BY ZenonT(30), <1>5 DEF XAck, AckEntry, AfterProcess
<1>6. CASE XAckCancelled(t)
  BY <1>6 DEF XAckCancelled, AfterProcess
<1>7. CASE XAckErr(t)
  <2>1. CASE AckEntry(cur[t])
    <3>1. Delivered' = Delivered /\ Acked' \subseteq Acked \cup {cur[t]}
      BY <2>1 DEF AckEntry
    <3>2. cur[t] \in failed \/ cur[t] \in finished \cap published
      BY <1>7 DEF XAckErr
    <3> HIDE DEF Delivered, Acked
    <3> QED
      BY ZenonT(30), <1>7, <2>1, <3>1, <3>2 DEF XAckErr, AckEntry, AfterProcess
  <2>2. CASE UNCHANGED streamVars
    BY <1>7, <2>2 DEF XAckErr, AfterProcess
  <2> QED
    BY SMTT(30), <1>7, <2>1, <2>2 DEF XAckErr
<1> HIDE DEF TypeOK, DeliveryInv
<1> QED
  BY <1>1, <1>2, <1>3, <1>4, <1>5, <1>6, <1>7 DEF Process

\* A step of the reaper preserves DeliveryInv: it claims delivered entries.
LEMMA InvReaper ==
  ASSUME TypeOK, DeliveryInv, NEW a \in Agents, RunReaper(a)
  PROVE  DeliveryInv'
<1> USE ConsumerAssumption, ThreadFacts DEF TypeOK, Ids, DeliveryInv, Delivered, Acked,
        AckedOnlyHandled, PcState, streamVars, reaperVars, resultVars, faultVars, Goto, ReaperStep
<1>1. CASE ReaperTick(a)
  BY SMTT(30), <1>1 DEF ReaperTick
<1>2. CASE ReaperDone(a)
  BY SMTT(30), <1>2 DEF ReaperDone
<1>3. CASE XAutoClaim(a)
  <2>1. batch' = [batch EXCEPT ![a] = Claimed(cursor[a])] /\ Claimed(cursor[a]) \subseteq pending
    BY <1>3, ClaimedArePending DEF XAutoClaim
  <2>2. UNCHANGED <<added, group, start, last, pending>>
    BY SMTT(30), <1>3 DEF XAutoClaim, ResetIdle
  <2>3. pc' = [pc EXCEPT ![Reaper(a)] = "next"] /\ pc[Reaper(a)] # "off"
    BY SMTT(30), <1>3 DEF XAutoClaim
  <2>4. UNCHANGED <<cur, published, finished, failed>>
    BY <1>3 DEF XAutoClaim
  <2>5. \A b \in Agents : batch'[b] \subseteq Delivered
    BY ZenonT(30), <2>1
  <2> QED
    BY SMTT(30), <2>2, <2>3, <2>4, <2>5
<1>4. CASE XAutoClaimErr(a)
  <2>1. UNCHANGED <<added, group, start, last, pending>>
    BY <1>4 DEF XAutoClaimErr, ResetIdle
  <2>2. pc' = [pc EXCEPT ![Reaper(a)] = "claim"] /\ pc[Reaper(a)] = "claim"
    BY <1>4 DEF XAutoClaimErr
  <2>3. UNCHANGED <<cur, batch, published, finished, failed>>
    BY SMTT(30), <1>4 DEF XAutoClaimErr
  <2> QED
    BY <2>1, <2>2, <2>3
<1>5. CASE ProcessClaimed(a)
  <2>1. PICK m \in batch[a] :
          /\ batch' = [batch EXCEPT ![a] = batch[a] \ {m}]
          /\ pc' = [pc EXCEPT ![Reaper(a)] = "run"]
          /\ cur' = [cur EXCEPT ![Reaper(a)] = m]
    BY ZenonT(30), <1>5 DEF ProcessClaimed, StartProcess
  <2>2. UNCHANGED <<added, group, start, last, pending, published, finished, failed>>
    BY <1>5 DEF ProcessClaimed
  <2>3. group /\ m \in Delivered
    BY <1>5 DEF ProcessClaimed
  <2>4. Delivered' = Delivered /\ Acked' = Acked
    BY <2>2
  <2>5. \A b \in Agents : batch'[b] \subseteq batch[b]
    BY SMTT(30), <2>1
  <2> HIDE DEF Delivered, Acked
  <2>6. \A t \in Threads :
          /\ pc'[t] \in {"run", "sent", "ack"} => cur'[t] \in Delivered
          /\ pc'[t] = "sent" => cur'[t] \in published
          /\ pc'[t] = "ack" => cur'[t] \in finished \cup failed
    BY SMTT(30), <2>1, <2>3
  <2> QED
    BY SMTT(30), <2>2, <2>3, <2>4, <2>5, <2>6
<1>6. CASE NextPage(a)
  BY <1>6 DEF NextPage
<1> HIDE DEF TypeOK, DeliveryInv
<1> QED
  BY <1>1, <1>2, <1>3, <1>4, <1>5, <1>6 DEF RunReaper

-----------------------------------------------------------------------------
\* The invariant and what follows from it.

\* Every step, of any actor, preserves the types and DeliveryInv.
LEMMA InvStep ==
  ASSUME TypeOK, DeliveryInv, [Next]_vars
  PROVE  TypeOK' /\ DeliveryInv'
<1>1. CASE UNCHANGED vars
  BY <1>1 DEF vars, streamVars, threadVars, reaperVars, resultVars, faultVars, TypeOK,
              DeliveryInv, Delivered, Acked, AckedOnlyHandled
<1>2. CASE Trigger \/ Tick
  BY <1>2, TypeEnvironment, InvEnvironment
<1>3. ASSUME NEW a \in Agents, Crash(a) \/ MustRun(a) \/ MustRunPanics(a)
                                 \/ Shutdown(a) \/ RunReturns(a)
      PROVE  TypeOK' /\ DeliveryInv'
  BY <1>3, TypeEnvironment, InvEnvironment
<1>4. ASSUME NEW a \in Agents, RunReaper(a)
      PROVE  TypeOK' /\ DeliveryInv'
  BY <1>4, TypeReaper, InvReaper
<1>5. ASSUME NEW w \in Workers, RunWorker(w)
      PROVE  TypeOK' /\ DeliveryInv'
  BY <1>5, TypeWorker, InvWorker, ThreadFacts
<1>6. ASSUME NEW t \in Threads, Process(t)
      PROVE  TypeOK' /\ DeliveryInv'
  <2>1. pc[t] \in {"run", "sent", "ack"} => cur[t] \in Ids
    BY SMTT(30), ConsumerAssumption DEF TypeOK, DeliveryInv, Delivered, Ids
  <2> QED
    BY <1>6, <2>1, TypeProcess, InvProcess
<1> QED
  BY SMTT(30), <1>1, <1>2, <1>3, <1>4, <1>5, <1>6 DEF Next

\* Nothing is delivered, claimed or run in the initial state.
LEMMA InvInit == Init => TypeOK /\ DeliveryInv
<1> SUFFICES ASSUME Init PROVE TypeOK /\ DeliveryInv
  OBVIOUS
<1> USE ConsumerAssumption DEF Init
<1>1. TypeOK
  <2>1. 0 \in 0..MinIdle /\ 0 \in 0..MaxMsgs /\ 0 \in 0..Timeout
    BY SMT
  <2>2. /\ idle \in [Ids -> 0..MinIdle] /\ proc \in [Agents -> ProcState]
        /\ pc \in [Threads -> PcState] /\ cur \in [Threads -> 0..MaxMsgs]
        /\ elapsed \in [Threads -> 0..Timeout]
        /\ cursor \in [Agents -> {BadCursor} \cup 0..MaxMsgs]
        /\ batch \in [Agents -> SUBSET Ids]
    BY ZenonT(30), <2>1, Zenon DEF ProcState, PcState
  <2>3. group \in BOOLEAN
    BY ZenonT(30), Zenon
  <2>4. /\ added \in 0..MaxMsgs /\ start \in 0..MaxMsgs /\ last \in 0..MaxMsgs
        /\ pending \subseteq Ids
        /\ published \subseteq Ids /\ finished \subseteq Ids /\ failed \subseteq Ids
        /\ crashes \in 0..MaxCrashes /\ errors \in 0..MaxErrors
        /\ claimErrors \in 0..MaxClaimErrors
    BY SMT
  <2> HIDE DEF Init
  <2> QED
    BY <2>2, <2>3, <2>4 DEF TypeOK
<1>2. Delivered = {} /\ Acked = {}
  BY DEF Delivered, Acked
<1>3. DeliveryInv
  BY <1>2 DEF DeliveryInv, AckedOnlyHandled
<1> QED
  BY <1>1, <1>3

\* The inductive invariant holds in every reachable state, for any number of
\* agents, workers, triggers and faults.
THEOREM Invariance == Spec => [](TypeOK /\ DeliveryInv)
BY InvInit, InvStep, PTL DEF Spec

\* The variables keep their types.
THEOREM TypeCorrect == Spec => []TypeOK
BY Invariance, PTL

\* At-least-once delivery: an entry leaves the PEL (consumer.go:203) only
\* after a handler run for it ended, with its result published if it
\* returned nil.
THEOREM AtLeastOnce == Spec => []AckedOnlyHandled
<1>1. DeliveryInv => AckedOnlyHandled
  BY DEF DeliveryInv
<1> QED
  BY <1>1, Invariance, PTL

-----------------------------------------------------------------------------
\* The effect of a step on the stream, whoever takes it.

streamPart == <<added, group, start, last, pending>>
outcome == finished \cup failed

PostEffect == /\ added < MaxMsgs /\ added' = added + 1
              /\ UNCHANGED <<group, start, last, pending, outcome>>
OpenEffect == EnsureGroup /\ UNCHANGED outcome
TakeEffect == group /\ Deliver /\ UNCHANGED outcome
AckEffect == /\ \E m \in outcome \cap Delivered : pending' = pending \ {m}
             /\ UNCHANGED <<added, group, start, last, outcome>>
WorkEffect == /\ \E m \in Delivered : outcome' = outcome \cup {m}
              /\ UNCHANGED streamPart
NoEffect == UNCHANGED <<streamPart, outcome>>

\* Every step of every actor does to the stream one of five things, or
\* nothing: the operations of Redis that the code uses, seen by the group.
LEMMA StepEffect ==
  ASSUME TypeOK, DeliveryInv, [Next]_vars
  PROVE  \/ PostEffect \/ OpenEffect \/ TakeEffect
         \/ AckEffect \/ WorkEffect \/ NoEffect
<1> USE DEF streamVars, reaperVars, threadVars, resultVars, faultVars
<1>1. CASE UNCHANGED vars
  BY <1>1 DEF vars, NoEffect, streamPart, outcome
<1>2. CASE Trigger
  BY <1>2 DEF Trigger, PostEffect, outcome
<1>3. CASE Tick
  BY <1>3 DEF Tick, NoEffect, streamPart, outcome
<1>4. ASSUME NEW a \in Agents, Crash(a) \/ Shutdown(a) \/ RunReturns(a)
      PROVE  NoEffect
  BY <1>4 DEF Crash, Shutdown, RunReturns, NoEffect, streamPart, outcome
<1>5. ASSUME NEW a \in Agents, MustRun(a) \/ MustRunPanics(a)
      PROVE  OpenEffect \/ NoEffect
  BY SMTT(30), <1>5 DEF MustRun, MustRunPanics, OpenEffect, NoEffect, streamPart, outcome
<1>6. ASSUME NEW a \in Agents, RunReaper(a)
      PROVE  NoEffect
  BY SMTT(30), <1>6 DEF RunReaper, ReaperTick, ReaperDone, XAutoClaim, XAutoClaimErr, ProcessClaimed,
              NextPage, ReaperStep, ResetIdle, NoEffect, streamPart, outcome
<1>7. ASSUME NEW w \in Workers, RunWorker(w)
      PROVE  TakeEffect \/ NoEffect
  <2>1. pc[w] # "off" => group
    BY ZenonT(30), ThreadFacts DEF DeliveryInv
  <2> QED
    BY SMTT(30), <1>7, <2>1 DEF RunWorker, WorkerLoop, XReadGroupMsg, XReadGroupNil, XReadGroupErr,
                      WorkerBackoff, TakeEffect, NoEffect, streamPart, outcome
<1>8. ASSUME NEW t \in Threads, Process(t)
      PROVE  AckEffect \/ WorkEffect \/ NoEffect
  <2>1. /\ pc[t] \in {"run", "sent", "ack"} => cur[t] \in Delivered
        /\ pc[t] = "ack" => cur[t] \in outcome
    BY SMTT(30) DEF DeliveryInv, outcome
  <2>2. CASE HandlerFails(t) \/ PublishReplyLost(t) \/ HandlerReturns(t)
    BY SMTT(30), <2>1, <2>2 DEF HandlerFails, PublishReplyLost, HandlerReturns, WorkEffect,
                      streamPart, outcome
  <2>3. CASE PublishResult(t) \/ XAckCancelled(t)
    BY ZenonT(30), <2>3 DEF PublishResult, XAckCancelled, NoEffect, streamPart, outcome
  <2>4. CASE XAck(t) \/ XAckErr(t)
    BY ZenonT(30), <2>1, <2>4 DEF XAck, XAckErr, AckEntry, AckEffect, NoEffect, streamPart, outcome
  <2> QED
    BY <1>8, <2>2, <2>3, <2>4 DEF Process
<1> QED
  BY <1>1, <1>2, <1>3, <1>4, <1>5, <1>6, <1>7, <1>8 DEF Next

\* No step of any actor makes an acknowledged entry pending again.
LEMMA AckedStep ==
  ASSUME TypeOK, DeliveryInv, [Next]_vars
  PROVE  \A m \in Acked : m \in Acked'
<1>1. CASE OpenEffect
  BY <1>1, EnsureGroupKeeps DEF OpenEffect
<1>2. CASE TakeEffect
  BY <1>2, DeliverAdds DEF TakeEffect
<1>3. CASE PostEffect \/ AckEffect \/ WorkEffect \/ NoEffect
  BY <1>3 DEF PostEffect, AckEffect, WorkEffect, NoEffect, streamPart, Acked, Delivered
<1> QED
  BY <1>1, <1>2, <1>3, StepEffect

\* XACK is final: reclaims, restarts and stale batches (reaper.go:51) never
\* bring an acknowledged trigger back.
THEOREM AckIsFinal == Spec => AckedForever
<1>1. TypeOK /\ DeliveryInv /\ [Next]_vars => [\A m \in Acked : m \in Acked']_vars
  BY AckedStep
<1> QED
  BY <1>1, Invariance, PTL DEF Spec, AckedForever

-----------------------------------------------------------------------------
\* The stream implements the job board.

\* Each effect on the stream is a step of the board, or invisible to it.
LEMMA BoardStep ==
  ASSUME TypeOK, DeliveryInv, [Next]_vars
  PROVE  [Board!BoardNext]_(Board!boardVars)
<1> DEFINE st == [m \in Ids |-> BoardStatus(m)]
<1> USE ConsumerAssumption DEF TypeOK, Ids, Delivered, outcome, streamPart
<1>0. /\ start <= last /\ last <= added /\ pending \subseteq Delivered
      /\ (~group => last = 0)
  BY DEF DeliveryInv
<1>1. CASE PostEffect
  <2>0. PICK j \in Nat : j = added + 1
    OBVIOUS
  <2>1. j \in Ids /\ BoardStatus(j) = "absent"
    BY <1>1, <2>0 DEF PostEffect, BoardStatus
  <2>2. BoardStatus(j)' = IF group THEN "queued" ELSE "unheard"
    BY SMTT(30), <1>0, <1>1, <2>0 DEF PostEffect, BoardStatus
  <2>3. \A m \in Ids : m # j => BoardStatus(m)' = BoardStatus(m)
    BY <1>1, <2>0 DEF PostEffect, BoardStatus
  <2>4. \A i \in Ids : i < j => BoardStatus(i) # "absent"
    BY <2>0 DEF BoardStatus
  <2>5. Board!Post(j)
    BY ZenonT(30), <1>1, <2>1, <2>2, <2>3, <2>4 DEF Board!Post, Board!Move, PostEffect
  <2> QED
    BY <2>1, <2>5 DEF Board!BoardNext
<1>2. CASE OpenEffect
  <2>1. \A m \in Ids : BoardStatus(m)' = BoardStatus(m)
    BY SMTT(30), <1>0, <1>2 DEF OpenEffect, EnsureGroup, BoardStatus
  <2>2. st' = st
    BY <2>1
  <2>3. CASE group
    BY SMTT(30), <1>2, <2>2, <2>3 DEF OpenEffect, EnsureGroup, Board!boardVars
  <2>4. CASE ~group
    BY SMTT(30), <1>2, <2>2, <2>4 DEF OpenEffect, EnsureGroup, Board!OpenBoard, Board!BoardNext
  <2> QED
    BY <2>3, <2>4
<1>3. CASE TakeEffect
  <2>0. PICK j \in Nat : j = last + 1
    BY SMTT(30)
  <2>1. j \in Ids /\ BoardStatus(j) = "queued" /\ BoardStatus(j)' = "open"
    BY SMTT(30), <1>0, <1>3, <2>0 DEF TakeEffect, Deliver, BoardStatus
  <2>2. \A m \in Ids : m # j => BoardStatus(m)' = BoardStatus(m)
    BY SMTT(30), <1>3, <2>0 DEF TakeEffect, Deliver, BoardStatus
  <2>3. \A i \in Ids : i < j => BoardStatus(i) # "queued"
    BY SMTT(30), <2>0 DEF BoardStatus
  <2>4. Board!Take(j)
    BY ZenonT(30), <1>3, <2>1, <2>2, <2>3 DEF Board!Take, Board!Move, TakeEffect, Deliver
  <2> QED
    BY <2>1, <2>4 DEF Board!BoardNext
<1>4. CASE AckEffect
  <2>1. PICK j \in outcome \cap Delivered : pending' = pending \ {j}
    BY <1>4 DEF AckEffect
  <2>2. j \in Ids /\ BoardStatus(j)' = "closed"
    BY SMTT(30), <1>0, <1>4, <2>1 DEF AckEffect, BoardStatus
  <2>3. \A m \in Ids : m # j => BoardStatus(m)' = BoardStatus(m)
    BY <1>4, <2>1 DEF AckEffect, BoardStatus
  <2>4. BoardStatus(j) = IF j \in pending THEN "open" ELSE "closed"
    BY SMTT(30), <1>0, <2>1 DEF BoardStatus
  <2>5. CASE j \in pending
    BY ZenonT(30), <1>4, <2>1, <2>2, <2>3, <2>4, <2>5 DEF AckEffect, Board!Close, Board!Move, Board!BoardNext
  <2>6. CASE j \notin pending
    BY <1>4, <2>2, <2>3, <2>4, <2>6 DEF AckEffect, Board!boardVars
  <2> QED
    BY <2>5, <2>6
<1>5. CASE WorkEffect
  <2>1. PICK j \in Delivered : outcome' = outcome \cup {j}
    BY ZenonT(30), <1>5 DEF WorkEffect
  <2>2. j \in Ids /\ BoardStatus(j) \in {"open", "closed"}
    BY SMTT(30), <1>0, <2>1 DEF BoardStatus
  <2>3. st' = st
    BY <1>5 DEF WorkEffect, BoardStatus
  <2> QED
    BY ZenonT(30), <1>5, <2>1, <2>2, <2>3 DEF WorkEffect, Board!Work, Board!BoardNext
<1>6. CASE NoEffect
  BY <1>6 DEF NoEffect, BoardStatus, Board!boardVars
<1> QED
  BY SMTT(30), <1>1, <1>2, <1>3, <1>4, <1>5, <1>6, StepEffect

\* An agent fleet with its clocks, claims, crashes and lost replies is, for
\* the backend, a board on which jobs are taken in order, worked on at least
\* once and closed only after that.
THEOREM Refinement == Spec => ImplementsBoard
<1>1. Init => Board!BoardInit
  BY ConsumerAssumption DEF Init, Board!BoardInit, BoardStatus, Ids
<1>2. TypeOK /\ DeliveryInv /\ [Next]_vars => [Board!BoardNext]_(Board!boardVars)
  BY BoardStep
<1> QED
  BY <1>1, <1>2, Invariance, PTL DEF Spec, ImplementsBoard, Board!BoardSpec
=============================================================================
