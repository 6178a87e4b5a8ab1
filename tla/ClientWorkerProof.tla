------------------------- MODULE ClientWorkerProof -------------------------
(***************************************************************************)
(* Theorems about ClientWorker for every number of calls, every capacity   *)
(* of the job channel and every set of records: no call fails without a    *)
(* reason, and the two record loops keep step while tags verify.           *)
(***************************************************************************)
EXTENDS ClientWorker, RecordBridgeProof

\* The invariant only looks at the callers, the channel, the record being run, and at
\* whether the thread and the notary are gone.
LEMMA CallsQuiet ==
  ASSUME CallsInv, UNCHANGED <<callerVars, jobs, serving, hpc, cur>>,
         Exited' = Exited, NotaryOver => NotaryOver'
  PROVE  CallsInv'
  BY DEF CallsInv, CallTypes, JobsAwaited, ServingAwaited, SendersKnown, FailsOnlyWhenBroken,
     TagRejected, callerVars

\* run_notary_worker never comes back from a return.
LEMMA NotaryGoesOnce ==
  ASSUME NotaryStep \/ MisreadHeader \/ NotaryCrash
  PROVE  (NotaryOver => NotaryOver') /\ UNCHANGED <<hpc, cur>>
  BY DEF NotaryStep, ReadHeader, GcmRun, ReadCommit, Finish, NotaryEof, MisreadHeader, NotaryCrash,
     NotaryOver, hostVars

\* The callers' own steps: a call begins, is refused, breaks, or its caller goes away.
LEMMA CallsCaller ==
  ASSUME CallsInv, NEW d \in RecordOp,
         \/ \E b \in Body : StartCall(d, b)
         \/ RefuseShort \/ CallBreaks(d) \/ DropCaller(d)
  PROVE  CallsInv'
<1> USE DEF CallsInv, CallTypes, SendersKnown
<1> UNCHANGED <<jobs, serving, wpc, hpc, cur, npc>>
  BY DEF StartCall, RefuseShort, CallBreaks, DropCaller, vars, hostVars, notaryVars
<1>1. CallTypes'
  <2>1. /\ call' \in [RecordOp -> {"free", "sending", "waiting", "gone"}]
        /\ want' \in [RecordOp -> Body \cup {None}]
    BY DEF StartCall, RefuseShort, CallBreaks, DropCaller, RecordOp
  <2>2. failed' \in [RecordOp -> BOOLEAN]
    <3>1. \/ failed' = failed
          \/ \E o \in RecordOp, e \in BOOLEAN : failed' = [failed EXCEPT ![o] = e]
      BY DEF StartCall, RefuseShort, CallBreaks, DropCaller, RecordOp
    <3> QED
      BY <3>1
  <2> QED
    BY <2>1, <2>2
<1>2. SendersKnown'
  BY DEF StartCall, RefuseShort, CallBreaks, DropCaller, RecordOp
<1>3. JobsAwaited'
  BY DEF StartCall, RefuseShort, CallBreaks, DropCaller, RecordOp, JobsAwaited, Exited
<1>4. ServingAwaited'
  BY WorkerAssumption DEF StartCall, RefuseShort, CallBreaks, DropCaller, RecordOp, ServingAwaited,
     JobsAwaited, Exited, TagRejected
<1>5. FailsOnlyWhenBroken'
  BY DEF StartCall, RefuseShort, CallBreaks, DropCaller, RecordOp, FailsOnlyWhenBroken, Exited,
     NotaryOver
<1> QED
  BY <1>1, <1>2, <1>3, <1>4, <1>5

\* A job or a shutdown is put on the channel.
LEMMA CallsSend ==
  ASSUME CallsInv, (\E d \in RecordOp : SendJob(d)) \/ SendShutdown
  PROVE  CallsInv'
<1> USE DEF CallsInv, CallTypes
<1> UNCHANGED <<want, failed, serving, wpc, hpc, cur, npc>>
  BY DEF SendJob, SendShutdown, callerVars, vars, hostVars, notaryVars
<1>0. /\ SendersKnown' /\ FailsOnlyWhenBroken'
      /\ call' \in [RecordOp -> {"free", "sending", "waiting", "gone"}]
  BY DEF SendJob, SendShutdown, callerVars, SendersKnown, FailsOnlyWhenBroken, Exited, NotaryOver
<1>1. ServingAwaited'
  BY DEF SendJob, SendShutdown, callerVars, ServingAwaited, TagRejected
<1>2. ASSUME NEW d \in RecordOp, SendJob(d) PROVE CallsInv'
  <2> DEFINE j == [op |-> d, body |-> want[d]]
  <2>1. j \in Job \cup {Shutdown} /\ j.op = d /\ j.body = want[d]
    BY <1>2 DEF SendJob, SendersKnown, Job
  <2>2. jobs' = Append(jobs, j) /\ call' = [call EXCEPT ![d] = "waiting"] /\ ~Exited
    BY <1>2 DEF SendJob
  <2> HIDE DEF j
  <2>3. /\ jobs' \in Seq(Job \cup {Shutdown}) /\ Len(jobs') = Len(jobs) + 1
        /\ jobs'[Len(jobs) + 1] = j
        /\ \A i \in 1..Len(jobs) : jobs'[i] = jobs[i]
    BY <2>1, <2>2
  <2>4. \A i \in 1..Len(jobs) : jobs[i].op # d
    BY <1>2 DEF SendJob, JobsAwaited
  <2>5. serving # d
    BY <1>2 DEF SendJob, ServingAwaited
  <2>6. ASSUME NEW i \in 1..Len(jobs')
        PROVE  i \in 1..Len(jobs) \/ i = Len(jobs) + 1
    BY <2>3
  <2>7. \A i \in 1..Len(jobs') : jobs'[i].op \in RecordOp =>
          /\ call'[jobs'[i].op] = "waiting" /\ jobs'[i].op # serving
          /\ jobs'[i].body = want[jobs'[i].op]
    BY <2>1, <2>2, <2>3, <2>4, <2>5, <2>6 DEF JobsAwaited
  <2>8. \A i, k \in 1..Len(jobs') :
          jobs'[i].op \in RecordOp /\ jobs'[i].op = jobs'[k].op => i = k
    BY <2>1, <2>3, <2>4, <2>6 DEF JobsAwaited
  <2>9. JobsAwaited'
    BY <2>2, <2>7, <2>8 DEF JobsAwaited, Exited
  <2> QED
    BY <1>0, <1>1, <2>3, <2>9
<1>3. CASE SendShutdown
  <2>1. UNCHANGED call
    BY <1>3 DEF SendShutdown, callerVars
  <2>2. CASE UNCHANGED jobs
    BY <1>0, <1>1, <2>1, <2>2 DEF JobsAwaited, Exited
  <2>3. CASE ~Exited /\ jobs' = Append(jobs, Shutdown)
    <3>1. Shutdown.op \notin RecordOp
      BY DEF Shutdown, RecordOp
    <3> DEFINE j == Shutdown
    <3>2. j \in Job \cup {Shutdown} /\ j.op \notin RecordOp
      BY <3>1
    <3> HIDE DEF j
    <3>3. /\ jobs' \in Seq(Job \cup {Shutdown}) /\ Len(jobs') = Len(jobs) + 1
          /\ jobs'[Len(jobs) + 1] = j
          /\ \A i \in 1..Len(jobs) : jobs'[i] = jobs[i]
      BY <2>3, <3>2 DEF j
    <3>4. ASSUME NEW i \in 1..Len(jobs')
          PROVE  i \in 1..Len(jobs) \/ i = Len(jobs) + 1
      BY <3>3
    <3>5. \A i \in 1..Len(jobs') : jobs'[i].op \in RecordOp =>
            /\ call[jobs'[i].op] = "waiting" /\ jobs'[i].op # serving
            /\ jobs'[i].body = want[jobs'[i].op]
      BY <3>2, <3>3, <3>4 DEF JobsAwaited
    <3>6. \A i, k \in 1..Len(jobs') :
            jobs'[i].op \in RecordOp /\ jobs'[i].op = jobs'[k].op => i = k
      BY <3>2, <3>3, <3>4 DEF JobsAwaited
    <3>7. JobsAwaited'
      BY <2>1, <2>3, <3>5, <3>6 DEF JobsAwaited, Exited
    <3> QED
      BY <1>0, <1>1, <3>3, <3>7
  <2> QED
    BY <1>3, <2>2, <2>3 DEF SendShutdown
<1> QED
  BY <1>2, <1>3

\* The thread returns: BootstrapFails, TakeShutdown and SendersGone leave nothing
\* behind for a caller but the error of CallBreaks.
LEMMA CallsExit ==
  ASSUME CallsInv, Exit
  PROVE  CallsInv'
<1> UNCHANGED <<call, want, failed, npc>>
  BY DEF Exit, callerVars, notaryVars
<1>1. wpc' = "exit" /\ hpc' = "closed" /\ jobs' = <<>> /\ serving' = None
  BY DEF Exit
<1>2. CallTypes'
  BY <1>1 DEF CallsInv, CallTypes
<1>3. JobsAwaited' /\ ServingAwaited'
  BY <1>1, WorkerAssumption DEF JobsAwaited, ServingAwaited, Exited
<1>4. SendersKnown' /\ FailsOnlyWhenBroken'
  BY <1>1 DEF CallsInv, SendersKnown, FailsOnlyWhenBroken, Exited
<1> QED
  BY <1>2, <1>3, <1>4 DEF CallsInv

\* The thread takes the oldest job; its caller is the one that waits for it.
LEMMA CallsTake ==
  ASSUME CallsInv, TakeJob
  PROVE  CallsInv'
<1> DEFINE j == Head(jobs)
<1> USE DEF CallsInv, CallTypes
<1> UNCHANGED <<call, want, failed, wpc, npc>>
  BY DEF TakeJob, StartRecord, callerVars, notaryVars
<1>1. /\ jobs # <<>> /\ j # Shutdown /\ serving = None /\ ~Exited
      /\ jobs' = Tail(jobs) /\ serving' = j.op
      /\ hpc' = "run" /\ cur' = [op |-> j.op, seq |-> nextSeq[j.op], body |-> j.body]
  BY DEF TakeJob, Ready, StartRecord, Exited
<1>2. /\ Len(jobs) \in Nat \ {0} /\ Len(jobs') = Len(jobs) - 1 /\ j = jobs[1]
      /\ \A i \in 1..Len(jobs') : i + 1 \in 1..Len(jobs) /\ jobs'[i] = jobs[i + 1]
      /\ jobs' \in Seq(Job \cup {Shutdown})
  BY <1>1, TailAt
<1>3. 1 \in 1..Len(jobs) /\ j \in Job \cup {Shutdown}
  BY <1>2
<1>4. j \in Job /\ j.op \in RecordOp
  BY <1>1, <1>3 DEF Job
<1> HIDE DEF j
<1>5. call[j.op] = "waiting" /\ j.body = want[j.op]
  BY <1>2, <1>3, <1>4 DEF JobsAwaited
<1>6. ASSUME NEW i \in 1..Len(jobs'), jobs'[i].op \in RecordOp
      PROVE  /\ call[jobs'[i].op] = "waiting" /\ jobs'[i].op # j.op
             /\ jobs'[i].body = want[jobs'[i].op]
  <2>1. i + 1 \in 1..Len(jobs) /\ jobs'[i] = jobs[i + 1]
    BY <1>2
  <2>0. i + 1 # 1
    OBVIOUS
  <2> DEFINE k == i + 1
  <2>2. k \in 1..Len(jobs) /\ k # 1 /\ jobs'[i] = jobs[k]
    BY <2>0, <2>1
  <2> HIDE DEF k
  <2> QED
    BY <1>2, <1>3, <1>6, <2>2 DEF JobsAwaited
<1>7. ASSUME NEW i \in 1..Len(jobs'), NEW k \in 1..Len(jobs'),
             jobs'[i].op \in RecordOp, jobs'[i].op = jobs'[k].op
      PROVE  i = k
  <2>1. i + 1 \in 1..Len(jobs) /\ k + 1 \in 1..Len(jobs) /\ (i + 1 = k + 1 => i = k)
    BY <1>2
  <2>2. jobs'[i] = jobs[i + 1] /\ jobs'[k] = jobs[k + 1]
    BY <1>2
  <2> DEFINE m == i + 1
             n == k + 1
  <2> HIDE DEF m, n
  <2>3. m \in 1..Len(jobs) /\ n \in 1..Len(jobs) /\ jobs[m].op \in RecordOp /\ jobs[m].op = jobs[n].op
    BY <1>7, <2>1, <2>2 DEF m, n
  <2>4. m = n
    BY <2>3 DEF JobsAwaited
  <2> QED
    BY <2>1, <2>4 DEF m, n
<1>8. JobsAwaited'
  BY <1>1, <1>6, <1>7 DEF JobsAwaited, Exited
<1>9. ServingAwaited'
  BY <1>1, <1>4, <1>5 DEF ServingAwaited
<1>10. SendersKnown' /\ FailsOnlyWhenBroken'
  BY DEF SendersKnown, FailsOnlyWhenBroken, Exited, NotaryOver
<1> QED
  BY <1>1, <1>2, <1>4, <1>8, <1>9, <1>10

\* The notary's tag share is read; only a forged record to decrypt is rejected.
LEMMA CallsTag ==
  ASSUME CallsInv, JobTag
  PROVE  CallsInv'
<1> UNCHANGED <<call, want, failed, jobs, serving, wpc, npc, cur>>
  BY DEF JobTag, ReadTag, workerVars, callerVars, notaryVars
<1>1. hpc = "run" /\ hpc' = IF TagRejected(cur) THEN "rejected" ELSE "commit"
  BY DEF JobTag, ReadTag
<1>2. ServingAwaited'
  BY <1>1 DEF CallsInv, ServingAwaited, TagRejected
<1> QED
  BY <1>2 DEF CallsInv, CallTypes, JobsAwaited, SendersKnown, FailsOnlyWhenBroken, Exited, NotaryOver

\* The caller gets its answer: the record, or the reason there is none.
LEMMA CallsAnswered ==
  ASSUME CallsInv, JobDone \/ JobFails
  PROVE  CallsInv'
<1> USE DEF CallsInv, CallTypes
<1>1. PICK e \in BOOLEAN : Respond(e) /\ (e => JobFails)
  BY DEF JobDone, JobFails
<1>2. /\ serving # None /\ UNCHANGED <<want, jobs, wpc, npc, cur>>
      /\ hpc' = "idle" /\ serving' = None
      /\ call' = [call EXCEPT ![serving] = "free"]
      /\ failed' = [failed EXCEPT ![serving] = e]
  BY <1>1 DEF JobDone, JobFails, Respond, SendCommit, notaryVars
<1>3. serving \in RecordOp /\ cur.op = serving /\ cur.body = want[serving]
  BY <1>2 DEF ServingAwaited
<1>4. CallTypes'
  <2>1. call' \in [RecordOp -> {"free", "sending", "waiting", "gone"}]
    BY <1>2, <1>3
  <2>2. failed' \in [RecordOp -> BOOLEAN]
    BY <1>2, <1>3
  <2> QED
    BY <1>2, <2>1, <2>2
<1>5. JobsAwaited'
  <2>1. \A i \in 1..Len(jobs) : jobs[i].op \in RecordOp =>
          /\ call'[jobs[i].op] = "waiting" /\ jobs[i].op # None
          /\ jobs[i].body = want[jobs[i].op]
    BY <1>2, <1>3, WorkerAssumption DEF JobsAwaited
  <2>2. \A i, j \in 1..Len(jobs) : jobs[i].op \in RecordOp /\ jobs[i].op = jobs[j].op => i = j
    BY DEF JobsAwaited
  <2>3. Exited' => jobs = <<>>
    BY <1>2 DEF JobsAwaited, Exited
  <2> QED
    BY <1>2, <2>1, <2>2, <2>3 DEF JobsAwaited
<1>6. ServingAwaited' /\ SendersKnown'
  BY <1>2, <1>3, WorkerAssumption DEF ServingAwaited, SendersKnown
<1>7. FailsOnlyWhenBroken'
  <2>1. e => NotaryOver \/ (serving = "dec" /\ want[serving] \in Forged)
    BY <1>1, <1>3 DEF JobFails, ServingAwaited, TagRejected
  <2>2. ASSUME NEW d \in RecordOp, failed'[d]
        PROVE  Exited \/ NotaryOver \/ (d = "dec" /\ want[d] \in Forged \cup {None})
    <3>1. CASE d = serving
      <4>1. e
        BY <1>2, <1>3, <2>2, <3>1
      <4> QED
        BY <2>1, <3>1, <4>1
    <3>2. CASE d # serving
      <4>1. failed[d]
        BY <1>2, <2>2, <3>2
      <4> QED
        BY <4>1 DEF FailsOnlyWhenBroken
    <3> QED
      BY <3>1, <3>2
  <2> QED
    BY <1>2, <2>2 DEF FailsOnlyWhenBroken, Exited, NotaryOver
<1> QED
  BY <1>4, <1>5, <1>6, <1>7

\* Each step of the threads, the callers and the notary keeps the invariant.
LEMMA CallsInvStep == ASSUME CallsInv, [WNext]_wvars PROVE CallsInv'
<1>1. CASE WorkerStep
  <2>1. CASE Bootstrap
    BY <2>1, CallsQuiet DEF Bootstrap, callerVars, vars, hostVars, notaryVars, Exited, NotaryOver
  <2>2. CASE BootstrapFails \/ TakeShutdown \/ SendersGone
    BY <2>2, CallsExit DEF BootstrapFails, TakeShutdown, SendersGone
  <2> QED
    BY <1>1, <2>1, <2>2, CallsTake, CallsTag, CallsAnswered DEF WorkerStep
<1>2. CASE OwnerStep
  <2>1. CASE Join
    BY <2>1, CallsQuiet DEF Join, callerVars, vars, hostVars, notaryVars, Exited, NotaryOver
  <2> QED
    BY <1>2, <2>1, CallsSend DEF OwnerStep
<1>3. CASE Peer \/ (NotaryCrash /\ UNCHANGED workerVars)
  <2>1. UNCHANGED <<callerVars, jobs, serving, wpc>>
    BY <1>3 DEF Peer, MisreadHeader, workerVars
  <2>2. NotaryStep \/ MisreadHeader \/ NotaryCrash
    BY <1>3 DEF Peer
  <2> QED
    BY <2>1, <2>2, NotaryGoesOnce, CallsQuiet DEF Exited
<1>4. CASE Environment
  <2>1. CASE StartShutdown \/ DropOwner
    BY <2>1, CallsQuiet DEF StartShutdown, DropOwner, callerVars, vars, hostVars, notaryVars, Exited,
       NotaryOver
  <2>2. CASE RefuseShort
    BY <2>2, CallsCaller DEF RecordOp
  <2> QED
    BY <1>3, <1>4, <2>1, <2>2, CallsCaller DEF Environment
<1>5. CASE \E d \in RecordOp : CallerStep(d)
  BY <1>5, CallsSend, CallsCaller DEF CallerStep
<1>6. CASE UNCHANGED wvars
  BY <1>6, CallsQuiet DEF wvars, workerVars, callerVars, vars, hostVars, notaryVars, Exited, NotaryOver
<1> QED
  BY <1>1, <1>2, <1>3, <1>4, <1>5, <1>6 DEF WNext, Quiet

\* A worker that has not bootstrapped yet has no caller waiting.
LEMMA CallsStart == WInit => CallsInv
  BY WorkerAssumption DEF WInit, Init, CallsInv, CallTypes, JobsAwaited, ServingAwaited, SendersKnown,
     FailsOnlyWhenBroken, Exited

\* An encrypt or decrypt call of rustls returns an error only when the worker thread
\* or the notary is gone, or the record to decrypt is too short or does not verify: no
\* answer reaches the wrong caller and none is lost in the channel.
THEOREM CallsFailForCause == WSpec => []FailsOnlyWhenBroken
<1>1. WInit => CallsInv
  BY CallsStart
<1>2. CallsInv /\ [WNext]_wvars => CallsInv'
  BY CallsInvStep
<1>3. CallsInv => FailsOnlyWhenBroken
  BY DEF CallsInv
<1> QED
  BY <1>1, <1>2, <1>3, PTL DEF WSpec

-----------------------------------------------------------------------------
(* Lockstep while every tag verifies.                                      *)

\* Steps that leave the session alone: the callers', the owner's, Bootstrap.
LEMMA StepQuiet ==
  ASSUME StepInv, UNCHANGED <<vars, serving>>
  PROVE  StepInv'
  BY DEF StepInv, InStep, BetweenRecords, HeaderSent, BothRun, TagSent, TagRead, CommitSent,
     NextHeaderSent, CurHeader, ServingCur, IsCommit, NotaryOver, vars, hostVars, notaryVars

\* Leaving the closure closes the host's end, between two records or after the notary.
LEMMA StepExit ==
  ASSUME StepInv, Exit, Ready \/ NotaryOver
  PROVE  StepInv'
<1>1. /\ hpc' = "closed" /\ serving' = None
      /\ UNCHANGED <<cur, nextSeq, npc, hdr, toN, toC>>
  BY DEF Exit, notaryVars
<1>2. ~NotaryOver => BetweenRecords \/ CommitSent
  <2>1. ~NotaryOver => hpc \in {"idle", "closed"}
    BY DEF StepInv, Ready
  <2> QED
    BY <2>1 DEF StepInv, InStep, HeaderSent, BothRun, TagSent, TagRead, NextHeaderSent
<1>3. ~NotaryOver' => BetweenRecords' \/ CommitSent'
  BY <1>1, <1>2 DEF BetweenRecords, CommitSent, NotaryOver, IsCommit
<1> QED
  BY <1>1, <1>3 DEF StepInv, InStep

\* encrypt_one / decrypt_one writes the header, on an empty channel or behind the
\* commit of the record before.
LEMMA StepTake ==
  ASSUME CallsInv, StepInv, TakeJob
  PROVE  StepInv'
<1> DEFINE o == Head(jobs).op
           h == [kind |-> "hdr", op |-> o, seq |-> nextSeq[o]]
<1>1. Head(jobs) \in Job
  <2>1. jobs # <<>> /\ jobs \in Seq(Job \cup {Shutdown}) /\ Head(jobs) # Shutdown
    BY DEF CallsInv, CallTypes, TakeJob
  <2> QED
    BY <2>1
<1>2. o \in RecordOp /\ nextSeq[o] \in Nat /\ o # None
  BY <1>1, WorkerAssumption DEF Job, StepInv
<1>3. /\ hpc = "idle" /\ hpc' = "run" /\ serving' = o
      /\ cur' = [op |-> o, seq |-> nextSeq[o], body |-> Head(jobs).body]
      /\ toN' = Append(toN, h)
      /\ UNCHANGED <<nextSeq, npc, hdr, toC>>
  BY DEF TakeJob, StartRecord, WriteHeader, notaryVars
<1>4. h \in ToNotary
  BY <1>2 DEF ToNotary, Header
<1>5. cur' \in Record
  BY <1>1, <1>2, <1>3 DEF Job, Record
<1>6. CurHeader' = h
  BY <1>3 DEF CurHeader
<1> HIDE DEF o, h
<1>7. toN' \in Seq(ToNotary)
  BY <1>3, <1>4 DEF StepInv
<1>8. CASE BetweenRecords
  <2>1. toN' = <<h>>
    BY <1>3, <1>8 DEF BetweenRecords
  <2>2. HeaderSent'
    BY <2>1, <1>3, <1>6, <1>8 DEF HeaderSent, BetweenRecords
  <2> QED
    BY <2>2, <1>2, <1>3, <1>5, <1>7 DEF StepInv, InStep
<1>9. CASE CommitSent
  <2>1. Len(toN') = 2 /\ toN'[1] = toN[1] /\ toN'[2] = h
    <3>1. toN \in Seq(ToNotary) /\ Len(toN) = 1
      BY <1>9 DEF CommitSent, StepInv
    <3>2. /\ Len(toN') = Len(toN) + 1 /\ toN'[Len(toN) + 1] = h
          /\ \A j \in 1..Len(toN) : toN'[j] = toN[j]
      BY <1>3, <1>4, <3>1, AppendAt
    <3> QED
      BY <3>1, <3>2
  <2>2. NextHeaderSent'
    BY <2>1, <1>3, <1>6, <1>9 DEF NextHeaderSent, CommitSent, IsCommit
  <2> QED
    BY <2>2, <1>2, <1>3, <1>5, <1>7 DEF StepInv, InStep
<1>10. CASE NotaryOver
  BY <1>2, <1>3, <1>5, <1>7, <1>10 DEF StepInv, NotaryOver
<1> QED
  BY <1>3, <1>8, <1>9, <1>10 DEF StepInv, InStep, HeaderSent, BothRun, TagSent, TagRead,
     NextHeaderSent

\* The host ends its side of the run, and then the record.
LEMMA StepRecord ==
  ASSUME StepInv, JobTag \/ JobDone \/ JobFails, hpc # "rejected", hpc' # "rejected"
  PROVE  StepInv'
<1>1. CASE JobTag
  <2>1. /\ hpc = "run" /\ hpc' = "commit" /\ toC # <<>> /\ toC' = Tail(toC)
        /\ UNCHANGED <<serving, cur, nextSeq, npc, hdr, toN>>
    BY <1>1 DEF JobTag, ReadTag, workerVars, notaryVars
  <2>2. toC' \in Seq(ToHost)
    BY <2>1 DEF StepInv
  <2>3. ~NotaryOver => TagSent
    BY <2>1 DEF StepInv, InStep, BetweenRecords, HeaderSent, BothRun, TagRead, CommitSent,
       NextHeaderSent
  <2>4. TagSent => TagRead'
    <3>1. TagSent => toC' = <<>>
      BY <2>1 DEF TagSent, StepInv
    <3> QED
      BY <2>1, <3>1 DEF TagSent, TagRead, ServingCur
  <2> QED
    BY <2>1, <2>2, <2>3, <2>4 DEF StepInv, InStep, NotaryOver
<1>2. CASE JobDone
  <2> DEFINE m == [kind |-> "commit", body |-> cur.body]
  <2>1. /\ hpc = "commit" /\ hpc' = "idle" /\ serving' = None /\ toN' = Append(toN, m)
        /\ nextSeq' = [nextSeq EXCEPT ![cur.op] = @ + 1]
        /\ UNCHANGED <<cur, npc, toC>>
    BY <1>2 DEF JobDone, SendCommit, Respond, notaryVars
  <2>2. m \in ToNotary /\ IsCommit(m)
    BY <2>1 DEF StepInv, Record, ToNotary, Commit, IsCommit
  <2>3. nextSeq' \in [RecordOp -> Nat]
    BY <2>1 DEF StepInv, Record
  <2> HIDE DEF m
  <2>4. toN' \in Seq(ToNotary)
    BY <2>1, <2>2 DEF StepInv
  <2>5. ~NotaryOver => TagRead
    BY <2>1 DEF StepInv, InStep, BetweenRecords, HeaderSent, BothRun, TagSent, CommitSent,
       NextHeaderSent
  <2>6. TagRead => CommitSent'
    <3>1. TagRead => toN' = <<m>>
      BY <2>1 DEF TagRead
    <3>2. toN' = <<m>> => Len(toN') = 1 /\ toN'[1] = m
      OBVIOUS
    <3> QED
      BY <2>1, <2>2, <3>1, <3>2 DEF TagRead, CommitSent
  <2> QED
    BY <2>1, <2>3, <2>4, <2>5, <2>6 DEF StepInv, InStep, NotaryOver
<1>3. CASE JobFails
  BY <1>3 DEF JobFails, Respond, StepInv, NotaryOver, notaryVars
<1> QED
  BY <1>1, <1>2, <1>3

\* The notary reads a header only when the host waits inside that record, and inside
\* read_commit finds a commit: never the header of the record after.
LEMMA StepNotary ==
  ASSUME StepInv, NotaryStep \/ MisreadHeader \/ NotaryCrash, UNCHANGED serving
  PROVE  StepInv'
<1> UNCHANGED <<hpc, cur, nextSeq>>
  BY DEF NotaryStep, ReadHeader, GcmRun, ReadCommit, Finish, NotaryEof, MisreadHeader, NotaryCrash,
     hostVars
<1>1. CASE NotaryCrash \/ NotaryEof
  BY <1>1 DEF NotaryCrash, NotaryEof, StepInv, NotaryOver
<1>2. CASE ReadHeader
  <2>1. /\ npc = "header" /\ toN # <<>> /\ toN' = Tail(toN) /\ hdr' = Head(toN) /\ toC' = toC
        /\ hdr'.op \in RecordOp => npc' = "run"
    BY <1>2 DEF ReadHeader, NotaryReads, RecordOp
  <2>2. HeaderSent
    BY <2>1 DEF StepInv, InStep, BetweenRecords, HeaderSent, BothRun, TagSent, TagRead, CommitSent,
       NextHeaderSent, NotaryOver
  <2>3. toN' = <<>> /\ hdr' = CurHeader
    BY <2>1, <2>2 DEF HeaderSent
  <2>4. hdr'.op = cur.op /\ hdr'.seq = cur.seq /\ cur.op \in RecordOp
    BY <2>2, <2>3 DEF CurHeader, HeaderSent, StepInv, Record
  <2>5. BothRun'
    BY <2>1, <2>2, <2>3, <2>4 DEF HeaderSent, BothRun, ServingCur
  <2>6. toN' \in Seq(ToNotary)
    BY <2>3
  <2> QED
    BY <2>1, <2>5, <2>6 DEF StepInv, InStep
<1>3. CASE GcmRun
  <2> DEFINE m == [kind |-> "tag"]
  <2>1. npc = "run" /\ npc' = "commit" /\ toC' = Append(toC, m) /\ UNCHANGED <<hdr, toN>>
    BY <1>3 DEF GcmRun
  <2>2. BothRun
    BY <2>1 DEF StepInv, InStep, BetweenRecords, HeaderSent, BothRun, TagSent, TagRead, CommitSent,
       NextHeaderSent, NotaryOver
  <2>3. m \in ToHost
    BY DEF ToHost
  <2> HIDE DEF m
  <2>4. toC' = <<m>> /\ toC' \in Seq(ToHost)
    BY <2>1, <2>2, <2>3 DEF BothRun
  <2>5. Len(toC') = 1
    BY <2>4
  <2>6. TagSent'
    BY <2>1, <2>2, <2>5 DEF BothRun, TagSent, ServingCur
  <2> QED
    BY <2>1, <2>4, <2>6 DEF StepInv, InStep
<1>4. CASE ReadCommit
  <2>1. npc = "commit" /\ npc' = "header" /\ toN # <<>> /\ toN' = Tail(toN) /\ UNCHANGED <<hdr, toC>>
    BY <1>4 DEF ReadCommit, NotaryReads
  <2>2. CommitSent \/ NextHeaderSent
    BY <2>1 DEF StepInv, InStep, BetweenRecords, HeaderSent, BothRun, TagSent, TagRead, NotaryOver
  <2>3. toN' \in Seq(ToNotary)
    BY <2>1 DEF StepInv
  <2>4. CASE CommitSent
    <3>1. toN' = <<>>
      BY <2>1, <2>4 DEF CommitSent, StepInv
    <3>2. BetweenRecords'
      BY <2>1, <2>4, <3>1 DEF CommitSent, BetweenRecords
    <3> QED
      BY <2>1, <2>3, <3>2 DEF StepInv, InStep
  <2>5. CASE NextHeaderSent
    <3>1. toN' = <<CurHeader>>
      <4>1. Len(toN) = 2 /\ toN[2] = CurHeader /\ toN \in Seq(ToNotary)
        BY <2>5 DEF NextHeaderSent, StepInv
      <4>2. toN' \in Seq(ToNotary) /\ Len(toN') = 1 /\ toN'[1] = toN[2]
        <5>1. toN' = Tail(toN) /\ toN # <<>>
          BY <2>1
        <5>2. /\ Len(Tail(toN)) = Len(toN) - 1
              /\ \A j \in 1..Len(Tail(toN)) : Tail(toN)[j] = toN[j + 1]
          BY <4>1, <5>1, TailAt
        <5>3. Tail(toN) \in Seq(ToNotary)
          BY <4>1, <5>1
        <5>4. Len(Tail(toN)) = 1 /\ 1 \in 1..Len(Tail(toN)) /\ 1 + 1 = 2
          BY <4>1, <5>2
        <5>5. Tail(toN)[1] = toN[2]
          BY <5>2, <5>4
        <5> QED
          BY <5>1, <5>3, <5>4, <5>5
      <4> QED
        BY <4>1, <4>2
    <3>2. HeaderSent'
      BY <2>1, <2>5, <3>1 DEF NextHeaderSent, HeaderSent, CurHeader
    <3> QED
      BY <2>1, <2>3, <3>2 DEF StepInv, InStep
  <2> QED
    BY <2>2, <2>4, <2>5
<1>5. ~Finish
  BY DEF Finish, StepInv, InStep, BetweenRecords, HeaderSent, BothRun, TagSent, TagRead, CommitSent,
     NextHeaderSent, NotaryOver
<1>6. ~MisreadHeader
  <2> SUFFICES ASSUME npc = "commit", toN # <<>>, Head(toN).kind = "hdr" PROVE FALSE
    BY DEF MisreadHeader, NotaryReads
  <2>1. CommitSent \/ NextHeaderSent
    BY DEF StepInv, InStep, BetweenRecords, HeaderSent, BothRun, TagSent, TagRead, NotaryOver
  <2>2. toN[1].kind = "commit"
    BY <2>1 DEF CommitSent, NextHeaderSent, IsCommit
  <2> QED
    BY <2>2 DEF StepInv
<1> QED
  BY <1>1, <1>2, <1>3, <1>4, <1>5, <1>6 DEF NotaryStep

\* Every step between two states without a rejected tag.
LEMMA StepInvStep ==
  ASSUME CallsInv, StepInv, [WNext]_wvars, hpc # "rejected", hpc' # "rejected"
  PROVE  StepInv'
<1>1. CASE WorkerStep
  <2>1. CASE Bootstrap
    BY <2>1, StepQuiet DEF Bootstrap
  <2>2. CASE BootstrapFails \/ TakeShutdown \/ SendersGone
    BY <2>2, StepExit DEF BootstrapFails, TakeShutdown, SendersGone
  <2> QED
    BY <1>1, <2>1, <2>2, StepTake, StepRecord DEF WorkerStep
<1>2. CASE OwnerStep
  BY <1>2, StepQuiet DEF OwnerStep, SendShutdown, Join
<1>3. CASE Peer \/ (NotaryCrash /\ UNCHANGED workerVars)
  BY <1>3, StepNotary DEF Peer, MisreadHeader, workerVars
<1>4. CASE Environment
  <2>1. CASE NotaryCrash /\ UNCHANGED workerVars
    BY <1>3, <2>1
  <2> QED
    BY <1>4, <2>1, StepQuiet DEF Environment, StartCall, RefuseShort, DropCaller, StartShutdown,
       DropOwner
<1>5. CASE \E d \in RecordOp : CallerStep(d)
  BY <1>5, StepQuiet DEF CallerStep, SendJob, CallBreaks
<1>6. CASE UNCHANGED wvars
  BY <1>6, StepQuiet DEF wvars, workerVars
<1> QED
  BY <1>1, <1>2, <1>3, <1>4, <1>5, <1>6 DEF WNext, Quiet

\* As long as every tag verifies, a notary that waits in read_commit has that commit on
\* its way or a host inside that record, whatever the callers ask for next and however
\* the worker is shut down: the lockstep that encrypt_one, decrypt_one and the notary's
\* loop rely on.
THEOREM StepKept == WSpec => LockstepWhileVerified
<1>1. WInit => CallsInv /\ StepInv
  <2>1. WInit => StepInv
    BY DEF WInit, Init, StepInv, InStep, BetweenRecords
  <2> QED
    BY <2>1, CallsStart
<1>2. CallsInv /\ [WNext]_wvars => CallsInv'
  BY CallsInvStep
<1>3. CallsInv /\ StepInv /\ [WNext]_wvars /\ hpc # "rejected" /\ (hpc # "rejected")' => StepInv'
  BY StepInvStep
<1>4. StepInv => Lockstep
  <2> SUFFICES ASSUME StepInv, npc = "commit"
               PROVE  (hpc \in {"run", "commit", "rejected"} /\ ServingCur) \/ Pending = 1 \/ hpc = "closed"
    BY DEF Lockstep
  <2>1. TagSent \/ TagRead \/ CommitSent \/ NextHeaderSent
    BY DEF StepInv, InStep, BetweenRecords, HeaderSent, BothRun, NotaryOver
  <2>2. CommitSent \/ NextHeaderSent => Pending = 1
    BY DEF CommitSent, NextHeaderSent, IsCommit, Pending, StepInv
  <2> QED
    BY <2>1, <2>2 DEF TagSent, TagRead
<1> QED
  BY <1>1, <1>2, <1>3, <1>4, PTL DEF WSpec, LockstepWhileVerified, AllVerify

=============================================================================
