---------------------------- MODULE ClientWorker ----------------------------
(***************************************************************************)
(* ClientWorker of notary/src/tls.rs: one thread owns the notary stream    *)
(* and serves the jobs that a rustls encrypter and decrypter put on a      *)
(* bounded channel, until it is shut down or every sender is gone.         *)
(*                                                                         *)
(* The thread is the host of RecordBridge, whose channel and notary worker *)
(* this module shares; what differs is what follows an error: encrypt_one  *)
(* and decrypt_one report it to the caller and the thread keeps serving on *)
(* the same stream.                                                        *)
(***************************************************************************)
EXTENDS RecordBridge

CONSTANTS
  MaxCalls,   \* bound: encrypt and decrypt calls in one run
  Capacity    \* slots of the job channel

ASSUME WorkerAssumption ==
  /\ MaxCalls \in Nat /\ Capacity \in Nat \ {0}
  /\ None \notin RecordOp

VARIABLES
  call,     \* per direction: what rustls's encrypter or decrypter is doing
  want,     \* per direction: the body of the call being made
  failed,   \* per direction: whether its last call returned an error
  calls,    \* calls made so far
  jobs,     \* the sync_channel between the callers and the thread
  serving,  \* the direction whose job the thread is working on, or None
  wpc,      \* the thread: bootstrapping, serving, returned
  owner     \* the ClientWorker value: held, shutting down, dropped

callerVars == <<call, want, failed, calls>>
workerVars == <<callerVars, jobs, serving, wpc, owner>>
wvars == <<vars, workerVars>>

Shutdown == [op |-> "shutdown", body |-> None]

WInit ==
  /\ Init /\ keyed = FALSE
  /\ call = [d \in RecordOp |-> "free"] /\ want = [d \in RecordOp |-> None]
  /\ failed = [d \in RecordOp |-> FALSE] /\ calls = 0
  /\ jobs = <<>> /\ serving = None
  /\ wpc = "init" /\ owner = "held"

Exited == wpc = "exit"

-----------------------------------------------------------------------------
(* The callers: TwoPartyEncrypter::encrypt, TwoPartyDecrypter::decrypt.    *)

StartCall(d, b) ==
  /\ call[d] = "free" /\ calls < MaxCalls
  /\ call' = [call EXCEPT ![d] = "sending"]
  /\ want' = [want EXCEPT ![d] = b]
  /\ failed' = [failed EXCEPT ![d] = FALSE]
  /\ calls' = calls + 1
  /\ UNCHANGED <<jobs, serving, wpc, owner, vars>>

\* A record shorter than a tag is refused without a job; want stays None.
RefuseShort ==
  /\ call["dec"] = "free" /\ calls < MaxCalls
  /\ want' = [want EXCEPT !["dec"] = None]
  /\ failed' = [failed EXCEPT !["dec"] = TRUE]
  /\ calls' = calls + 1
  /\ UNCHANGED <<call, jobs, serving, wpc, owner, vars>>

\* send blocks while the channel is full.
SendJob(d) ==
  /\ call[d] = "sending" /\ ~Exited
  /\ Len(jobs) < Capacity
  /\ jobs' = Append(jobs, [op |-> d, body |-> want[d]])
  /\ call' = [call EXCEPT ![d] = "waiting"]
  /\ UNCHANGED <<want, failed, calls, serving, wpc, owner, vars>>

\* Mutant: only a blocked send notices that the receiver is gone.
CallBreaksInSend(d) ==
  /\ call[d] = "sending" /\ Exited
  /\ call' = [call EXCEPT ![d] = "free"]
  /\ failed' = [failed EXCEPT ![d] = TRUE]
  /\ UNCHANGED <<want, calls, jobs, serving, wpc, owner, vars>>

\* The receiver is gone, and with it the job and its response sender.
CallBreaks(d) ==
  /\ call[d] \in {"sending", "waiting"} /\ Exited
  /\ call' = [call EXCEPT ![d] = "free"]
  /\ failed' = [failed EXCEPT ![d] = TRUE]
  /\ UNCHANGED <<want, calls, jobs, serving, wpc, owner, vars>>

\* rustls drops a record layer, and its clone of the job sender.
DropCaller(d) ==
  /\ call[d] = "free"
  /\ call' = [call EXCEPT ![d] = "gone"]
  /\ UNCHANGED <<want, failed, calls, jobs, serving, wpc, owner, vars>>

-----------------------------------------------------------------------------
(* The owner: ClientWorker::shutdown, or a plain drop.                     *)

StartShutdown ==
  /\ owner = "held"
  /\ owner' = "sending"
  /\ UNCHANGED <<callerVars, jobs, serving, wpc, vars>>

\* A failed send is ignored: the thread has already returned.
SendShutdown ==
  /\ owner = "sending"
  /\ \/ Exited /\ UNCHANGED jobs
     \/ ~Exited /\ Len(jobs) < Capacity /\ jobs' = Append(jobs, Shutdown)
  /\ owner' = "joining"
  /\ UNCHANGED <<callerVars, serving, wpc, vars>>

Join ==
  /\ owner = "joining" /\ Exited
  /\ owner' = "joined"
  /\ UNCHANGED <<callerVars, jobs, serving, wpc, vars>>

DropOwner ==
  /\ owner = "held"
  /\ owner' = "dropped"
  /\ UNCHANGED <<callerVars, jobs, serving, wpc, vars>>

-----------------------------------------------------------------------------
(* The worker thread.                                                      *)

\* Wrk17ClientSession::init; the notary bootstraps with it.
Bootstrap ==
  /\ wpc = "init" /\ ~NotaryOver
  /\ wpc' = "serve"
  /\ UNCHANGED <<callerVars, jobs, serving, owner, vars>>

\* Leaving the closure drops the job receiver and the notary stream.
Exit ==
  /\ wpc' = "exit"
  /\ hpc' = "closed" /\ jobs' = <<>> /\ serving' = None
  /\ UNCHANGED <<callerVars, owner, cur, nextSeq, done, held, notaryVars, toN, toC>>

\* Mutant: the bootstrap is retried for ever.
BootstrapRetries == wpc = "init" /\ NotaryOver /\ UNCHANGED wvars

BootstrapFails == wpc = "init" /\ NotaryOver /\ Exit

Ready == wpc = "serve" /\ serving = None

TakeJob ==
  /\ Ready /\ jobs # <<>> /\ Head(jobs) # Shutdown
  /\ StartRecord(Head(jobs).op, Head(jobs).body)
  /\ serving' = Head(jobs).op
  /\ jobs' = Tail(jobs)
  /\ UNCHANGED <<callerVars, wpc, owner>>

TakeShutdown == Ready /\ jobs # <<>> /\ Head(jobs) = Shutdown /\ Exit

\* Mutant: the thread holds a sender of its own, so that recv never fails.
SendersGoneNever == FALSE /\ Exit

\* recv fails once the queue is drained and no sender is left.
SendersGone ==
  /\ Ready /\ jobs = <<>>
  /\ owner = "dropped" /\ \A d \in RecordOp : call[d] = "gone"
  /\ Exit

JobTag == serving # None /\ ReadTag /\ UNCHANGED workerVars

Respond(isError) ==
  /\ call' = [call EXCEPT ![serving] = "free"]
  /\ failed' = [failed EXCEPT ![serving] = isError]
  /\ serving' = None
  /\ UNCHANGED <<want, calls, jobs, wpc, owner>>

\* Mutant: decrypt_one returns its plaintext without the commit.
JobDoneNoCommit ==
  /\ serving # None /\ hpc = "commit"
  /\ hpc' = "idle"
  /\ Respond(FALSE)
  /\ UNCHANGED <<cur, nextSeq, done, held, notaryVars, toN, toC>>

JobDone == serving # None /\ SendCommit /\ Respond(FALSE)

\* Mutant: a tag share that is not there yet is an error.
JobFailsEarly ==
  /\ serving # None
  /\ hpc = "rejected" \/ (hpc = "run" /\ toC = <<>>)
  /\ hpc' = "idle"
  /\ Respond(TRUE)
  /\ UNCHANGED <<cur, nextSeq, done, held, notaryVars, toN, toC>>

\* The error is the caller's answer; the stream stays open.
JobFails ==
  /\ serving # None
  /\ hpc = "rejected" \/ (hpc = "run" /\ toC = <<>> /\ NotaryOver)
  /\ hpc' = "idle"
  /\ Respond(TRUE)
  /\ UNCHANGED <<cur, nextSeq, done, held, notaryVars, toN, toC>>

-----------------------------------------------------------------------------
(* The notary, reading what an out-of-step worker sends.                   *)

\* read_commit takes whatever bytes come next: a 20-byte header is either too
\* short for the commit it waits for, or ends up hashed into the log.
MisreadHeader ==
  /\ npc = "commit" /\ NotaryReads("hdr")
  /\ \/ UNCHANGED <<npc, records>>
     \/ /\ npc' = "header"
        /\ \E b \in Forged :
             records' = Append(records, [op |-> hdr.op, seq |-> hdr.seq, body |-> b])
  /\ UNCHANGED <<hostVars, hdr, bundle, keyed, toC, workerVars>>

WorkerStep ==
  \/ Bootstrap \/ BootstrapFails
  \/ TakeJob \/ TakeShutdown \/ SendersGone
  \/ JobTag \/ JobDone \/ JobFails
CallerStep(d) == SendJob(d) \/ CallBreaks(d)
OwnerStep == SendShutdown \/ Join
Peer == (NotaryStep /\ UNCHANGED workerVars) \/ MisreadHeader
Environment ==
  \/ \E d \in RecordOp, b \in Body : StartCall(d, b)
  \/ RefuseShort
  \/ \E d \in RecordOp : DropCaller(d)
  \/ StartShutdown \/ DropOwner
  \/ NotaryCrash /\ UNCHANGED workerVars

\* Nothing left to do once the thread, its owner and the notary are through.
Quiet == Exited /\ NotaryOver /\ UNCHANGED wvars

WNext ==
  \/ WorkerStep \/ OwnerStep \/ Peer \/ Environment \/ Quiet
  \/ \E d \in RecordOp : CallerStep(d)

\* Threads run; what rustls asks for, and when the owner lets go, is theirs.
WFairness ==
  /\ WF_wvars(WorkerStep) /\ WF_wvars(OwnerStep) /\ WF_wvars(Peer)
  /\ \A d \in RecordOp : WF_wvars(CallerStep(d))

WSpec == WInit /\ [][WNext]_wvars
WFairSpec == WSpec /\ WFairness

-----------------------------------------------------------------------------
\* Between two records both sides are between two records: a notary inside
\* read_commit has a commit on its way or a host still inside that record
\* (the lockstep of encrypt_one / decrypt_one and run_notary_worker_inner).
Lockstep ==
  npc = "commit" =>
    \/ hpc \in {"run", "commit", "rejected"} /\ ServingCur
    \/ Pending = 1
    \/ hpc = "closed"

\* Every tag of the whole session verifies.
AllVerify == [](hpc # "rejected")

\* While every tag verifies the two record loops keep step, whichever of the
\* callers' jobs comes next (one rejected decrypt is enough to part them: the
\* worker answers it and serves on, without the commit the notary waits for).
LockstepWhileVerified == AllVerify => []Lockstep

\* An encrypt or decrypt call fails only when the notary or the thread is gone
\* or the record it decrypts is too short or does not authenticate.
FailsOnlyWhenBroken ==
  \A d \in RecordOp :
    failed[d] => Exited \/ NotaryOver \/ (d = "dec" /\ want[d] \in Forged \cup {None})

\* No caller stays blocked in send or recv while tags verify: not on a full
\* queue, not on a worker that stopped, not on a notary that died.
CallsReturn == AllVerify =>
  \A d \in RecordOp : call[d] \in {"sending", "waiting"} ~> call[d] \in {"free", "gone"}

\* shutdown then returns, whatever is queued or being run when it is called.
ShutdownReturns == AllVerify => owner = "sending" ~> owner = "joined"

\* Without a shutdown, dropping every handle is enough to end the thread and
\* then the notary's worker, in a session whose tags verify.
HandlesDropped == owner = "dropped" /\ \A d \in RecordOp : call[d] = "gone"
DropReleases == AllVerify => HandlesDropped ~> Exited /\ NotaryOver

-----------------------------------------------------------------------------
(* The inductive invariant behind FailsOnlyWhenBroken: whose job is where. *)

Job == [op : RecordOp, body : Body]

CallTypes ==
  /\ call \in [RecordOp -> {"free", "sending", "waiting", "gone"}]
  /\ want \in [RecordOp -> Body \cup {None}]
  /\ failed \in [RecordOp -> BOOLEAN]
  /\ jobs \in Seq(Job \cup {Shutdown})
  /\ serving \in RecordOp \cup {None}

\* A caller waits for every job of its direction, and has no other.
JobsAwaited ==
  /\ \A i \in 1..Len(jobs) : jobs[i].op \in RecordOp =>
       /\ call[jobs[i].op] = "waiting" /\ jobs[i].op # serving
       /\ jobs[i].body = want[jobs[i].op]
  /\ \A i, j \in 1..Len(jobs) : jobs[i].op \in RecordOp /\ jobs[i].op = jobs[j].op => i = j
  /\ Exited => jobs = <<>> /\ serving = None

\* The record being run is that of the caller that waits for it.
ServingAwaited ==
  /\ serving \in RecordOp =>
       /\ call[serving] = "waiting" /\ hpc # "closed"
       /\ cur.op = serving /\ cur.body = want[serving]
  /\ hpc \in {"run", "commit", "rejected"} => serving \in RecordOp
  /\ hpc = "rejected" => TagRejected(cur)

SendersKnown == \A d \in RecordOp : call[d] = "sending" => want[d] \in Body

CallsInv == CallTypes /\ JobsAwaited /\ ServingAwaited /\ SendersKnown /\ FailsOnlyWhenBroken

-----------------------------------------------------------------------------
(* The inductive invariant behind LockstepWhileVerified: while every tag   *)
(* verifies, a living notary and the thread are always in one of these.    *)

CurHeader == [kind |-> "hdr", op |-> cur.op, seq |-> cur.seq]
IsCommit(m) == m.kind = "commit"

BetweenRecords == hpc \in {"idle", "closed"} /\ npc = "header" /\ toN = <<>> /\ toC = <<>>
HeaderSent     == hpc = "run" /\ npc = "header" /\ toN = <<CurHeader>> /\ toC = <<>>
BothRun        == hpc = "run" /\ npc = "run" /\ toN = <<>> /\ toC = <<>> /\ ServingCur
TagSent        == hpc = "run" /\ npc = "commit" /\ toN = <<>> /\ Len(toC) = 1 /\ ServingCur
TagRead        == hpc = "commit" /\ npc = "commit" /\ toN = <<>> /\ toC = <<>> /\ ServingCur
CommitSent ==
  hpc \in {"idle", "closed"} /\ npc = "commit" /\ Len(toN) = 1 /\ IsCommit(toN[1]) /\ toC = <<>>
NextHeaderSent ==
  /\ hpc = "run" /\ npc = "commit" /\ toC = <<>>
  /\ Len(toN) = 2 /\ IsCommit(toN[1]) /\ toN[2] = CurHeader

InStep ==
  \/ BetweenRecords \/ HeaderSent \/ BothRun \/ TagSent \/ TagRead \/ CommitSent
  \/ NextHeaderSent

StepInv ==
  /\ toN \in Seq(ToNotary) /\ toC \in Seq(ToHost)
  /\ nextSeq \in [RecordOp -> Nat]
  /\ hpc \notin {"idle", "closed"} => cur \in Record
  /\ serving # None => hpc \in {"run", "commit"}
  /\ serving = None => hpc \in {"idle", "closed"}
  /\ ~NotaryOver => InStep

=============================================================================
