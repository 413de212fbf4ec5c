---------------------------- MODULE ServingWorker ----------------------------
(***************************************************************************)
(* The thread-pinned worker that serves every request of one coordinator    *)
(* (glmrt-api, real_full.rs).                                               *)
(*                                                                          *)
(* Streaming clients post a start job and receive one event per decode      *)
(* cycle; they may close their receiver at any time.  Direct callers post   *)
(* execute and finish jobs and block on the reply.  One thread drains the   *)
(* mailbox, answers direct jobs first, lets waiting sequences in when the   *)
(* engine has room, and runs all active sequences through one cycle at a    *)
(* time.                                                                    *)
(*                                                                          *)
(* The engine behind the worker (the executor E) is kept as the set of the  *)
(* sequences it holds resources for.  A first cycle that finds no room      *)
(* fails with a retryable admission error and leaves nothing behind; any    *)
(* other cycle may go on, stop, or fail.                                    *)
(***************************************************************************)
EXTENDS Queues, FiniteSetsExt, SequencesExt

CONSTANTS
  Stream,         (* ids of sequences started by streaming clients          *)
  Direct,         (* ids of sequences driven by direct callers              *)
  Pages,          (* what a sequence takes of the engine's capacity         *)
  Capacity,       (* the engine's capacity                                  *)
  MaxConcurrent,  (* real_full_max_concurrent_sequences                     *)
  MaxBatch,       (* real_full_decode_cycle_batch_max_size                  *)
  MaxOutput,      (* max_output_tokens, in cycles                           *)
  MaxCalls        (* bound: execute calls of one direct caller              *)

ASSUME ServingAssumption ==
  /\ Stream \subseteq Nat /\ Direct \subseteq Nat /\ Stream \cap Direct = {}
  /\ Pages \in [Stream \cup Direct -> Nat \ {0}]
  /\ Capacity \in Nat /\ \A s \in Stream \cup Direct : Pages[s] <= Capacity
  /\ {MaxConcurrent, MaxBatch, MaxOutput, MaxCalls} \subseteq Nat \ {0}

VARIABLES
  mailbox,    (* jobs sent and not received                                 *)
  hungUp,     (* every sender of the mailbox has been dropped               *)
  client,     (* per stream: "idle", "open" or, its receiver closed, "gone" *)
  told,       (* streams that got an event saying how they ended            *)
  waiting,    (* direct callers blocked on a reply                          *)
  calls,      (* per direct caller: execute calls so far                    *)
  left,       (* direct callers that have finished their sequence           *)
  pending,    (* pending_sequences                                          *)
  active,     (* active_sequences                                           *)
  deferred,   (* deferred_jobs                                              *)
  batch,      (* direct callers gathered into one execution                 *)
  generated,  (* per stream: cycles it has run                              *)
  engine,     (* sequences the engine holds resources for                   *)
  pc          (* where the worker is in its loop                            *)

vars == <<mailbox, hungUp, client, told, waiting, calls, left, pending, active,
          deferred, batch, generated, engine, pc>>

clientVars == <<mailbox, hungUp, client, waiting, calls, left>>

workerVars == <<pending, active, deferred, batch, generated, engine, pc>>

Job == [kind : {"start"}, who : Stream]
         \cup [kind : {"execute", "finish"}, who : Direct]

Labels == {"top", "drain", "direct", "gather", "prune", "admit", "cycle",
           "stopped"}

Started(s, q) == [kind |-> "start", who |-> s] \in ToSet(q)

-----------------------------------------------------------------------------
(* Clients *)

Init ==
  /\ mailbox = <<>> /\ hungUp = FALSE
  /\ client = [s \in Stream |-> "idle"]
  /\ told = {} /\ waiting = {} /\ left = {}
  /\ calls = [d \in Direct |-> 0]
  /\ pending = <<>> /\ active = {} /\ deferred = <<>> /\ batch = {}
  /\ generated = [s \in Stream |-> 0]
  /\ engine = {}
  /\ pc = "top"

Post(kind, who) ==
  /\ ~hungUp
  /\ mailbox' = Append(mailbox, [kind |-> kind, who |-> who])

Start(s) ==
  /\ client[s] = "idle"
  /\ Post("start", s)
  /\ client' = [client EXCEPT ![s] = "open"]
  /\ UNCHANGED <<hungUp, told, waiting, calls, left, workerVars>>

Disconnect(s) ==
  /\ client[s] = "open"
  /\ client' = [client EXCEPT ![s] = "gone"]
  /\ UNCHANGED <<mailbox, hungUp, told, waiting, calls, left, workerVars>>

CallExecute(d) ==
  /\ d \notin waiting \cup left
  /\ calls[d] < MaxCalls
  /\ Post("execute", d)
  /\ calls' = [calls EXCEPT ![d] = @ + 1]
  /\ waiting' = waiting \cup {d}
  /\ UNCHANGED <<hungUp, client, told, left, workerVars>>

CallFinish(d) ==
  /\ d \notin waiting \cup left
  /\ calls[d] > 0
  /\ Post("finish", d)
  /\ left' = left \cup {d}
  /\ waiting' = waiting \cup {d}
  /\ UNCHANGED <<hungUp, client, told, calls, workerVars>>

(* The executor is dropped: nobody can be inside one of its calls. *)
HangUp ==
  /\ ~hungUp /\ waiting = {}
  /\ hungUp' = TRUE
  /\ UNCHANGED <<mailbox, client, told, waiting, calls, left, workerVars>>

-----------------------------------------------------------------------------
(* The engine *)

Load(S) == MapThenSumSet(LAMBDA s : Pages[s], S)

Fits(s, S) == Load(S \cup {s}) <= Capacity

(* One execution of a batch, in the order of the sequence ids.  "retry" is a *)
(* retryable admission error of a first cycle.                              *)
Outcome == {"more", "stop", "error", "retry"}

Results(S) ==
  {res \in [S -> Outcome] :
     \A s \in S :
       LET before == {q \in S : q < s /\ res[q] # "retry"}
       IN  res[s] = "retry" <=> s \notin engine /\ ~Fits(s, engine \cup before)}

-----------------------------------------------------------------------------
(* The worker loop *)

IsOpen(s) == client[s] = "open"

(* A bug: only the active sequences count against the limit.                *)
CrowdOfActive == Cardinality(active)

Crowd == Cardinality(active) + Len(pending)

(* A bug: the refused stream is dropped without an event.                   *)
EnqueueOrDrop(s) ==
  /\ pending' = IF Crowd >= MaxConcurrent THEN pending ELSE Append(pending, s)
  /\ UNCHANGED told

(* A start job: the sequence waits its turn, or is refused with an event.   *)
Enqueue(s) ==
  IF Crowd >= MaxConcurrent
  THEN told' = told \cup {s} /\ UNCHANGED pending
  ELSE pending' = Append(pending, s) /\ UNCHANGED told

Queue(job) ==
  IF job.kind = "start"
  THEN Enqueue(job.who) /\ UNCHANGED deferred
  ELSE deferred' = Append(deferred, job) /\ UNCHANGED <<pending, told>>

Receive ==
  /\ mailbox # <<>>
  /\ mailbox' = Tail(mailbox)
  /\ Queue(Head(mailbox))
  /\ UNCHANGED <<hungUp, client, waiting, calls, left, active, batch, generated,
                 engine>>

ForgetClosed ==
  /\ pc = "top"
  /\ pending' = Keep(pending, {s \in Stream : IsOpen(s)})
  /\ pc' = "drain"
  /\ UNCHANGED <<clientVars, told, active, deferred, batch, generated, engine>>

Drain ==
  /\ pc = "drain"
  /\ Receive
  /\ UNCHANGED pc

(* A bug: direct jobs wait until no sequence is active or queued.           *)
DrainedStreamsFirst ==
  /\ pc = "drain"
  /\ mailbox = <<>>
  /\ pc' = IF deferred # <<>> /\ Crowd = 0 THEN "direct" ELSE "prune"
  /\ UNCHANGED <<clientVars, told, pending, active, deferred, batch, generated,
                 engine>>

Drained ==
  /\ pc = "drain"
  /\ mailbox = <<>>
  /\ pc' = IF deferred # <<>> THEN "direct" ELSE "prune"
  /\ UNCHANGED <<clientVars, told, pending, active, deferred, batch, generated,
                 engine>>

(* Direct jobs, one at a time while sequences are being served ... *)
Reply(S) == waiting' = waiting \ S

Finish(d) ==
  /\ engine' = engine \ {d}
  /\ Reply({d})

FinishDirect ==
  /\ pc = "direct" /\ Head(deferred).kind = "finish"
  /\ Finish(Head(deferred).who)
  /\ active' = active \ {Head(deferred).who}
  /\ pending' = Keep(pending, Stream \ {Head(deferred).who})
  /\ deferred' = Tail(deferred)
  /\ pc' = "top"
  /\ UNCHANGED <<mailbox, hungUp, client, told, calls, left, batch, generated>>

Execute(S) ==
  /\ \E res \in Results(S) : engine' = engine \cup {d \in S : res[d] # "retry"}
  /\ Reply(S)

ExecuteDirect ==
  /\ pc = "direct" /\ Head(deferred).kind = "execute"
  /\ active # {} \/ pending # <<>>
  /\ Execute({Head(deferred).who})
  /\ deferred' = Tail(deferred)
  /\ pc' = "top"
  /\ UNCHANGED <<mailbox, hungUp, client, told, calls, left, pending, active,
                 batch, generated>>

(* ... and, while none is, gathered with what else arrives in time. *)
GatherFirst ==
  /\ pc = "direct" /\ Head(deferred).kind = "execute"
  /\ active = {} /\ pending = <<>>
  /\ batch' = {Head(deferred).who}
  /\ deferred' = Tail(deferred)
  /\ pc' = "gather"
  /\ UNCHANGED <<clientVars, told, pending, active, generated, engine>>

(* The next job: a deferred one, or else one from the mailbox. *)
NextJob(job) ==
  IF deferred # <<>>
  THEN job = Head(deferred) /\ deferred' = Tail(deferred) /\ UNCHANGED mailbox
  ELSE /\ mailbox # <<>>
       /\ job = Head(mailbox) /\ mailbox' = Tail(mailbox) /\ UNCHANGED deferred

Gather(job) ==
  /\ pc = "gather" /\ Cardinality(batch) < MaxBatch
  /\ NextJob(job)
  /\ \/ /\ job.kind = "execute"
        /\ batch' = batch \cup {job.who}
        /\ UNCHANGED <<waiting, engine, pending, told>>
     \/ /\ job.kind = "finish"
        /\ Finish(job.who)
        /\ UNCHANGED <<batch, pending, told>>
     \/ /\ job.kind = "start"
        /\ Enqueue(job.who)
        /\ UNCHANGED <<batch, waiting, engine>>
  /\ UNCHANGED <<hungUp, client, calls, left, active, generated, pc>>

ExecuteBatch ==
  /\ pc = "gather"
  /\ Cardinality(batch) = MaxBatch \/ (deferred = <<>> /\ mailbox = <<>>)
  /\ Execute(batch)
  /\ batch' = {}
  /\ pc' = "top"
  /\ UNCHANGED <<mailbox, hungUp, client, told, calls, left, pending, active,
                 deferred, generated>>

(* A bug: they leave the worker and not the engine.                         *)
PruneQuietly ==
  /\ pc = "prune"
  /\ active' = {s \in active : IsOpen(s)}
  /\ pc' = "admit"
  /\ UNCHANGED <<clientVars, told, pending, deferred, batch, generated, engine>>

(* Sequences whose client has gone leave before the next cycle. *)
Prune ==
  /\ pc = "prune"
  /\ active' = {s \in active : IsOpen(s)}
  /\ engine' = engine \ {s \in active : ~IsOpen(s)}
  /\ pc' = "admit"
  /\ UNCHANGED <<clientVars, told, pending, deferred, batch, generated>>

(* While nothing is active the worker waits a little for a fuller batch. *)
AwaitAdmission ==
  /\ pc = "admit"
  /\ active = {} /\ pending # <<>> /\ Len(pending) < MaxBatch
  /\ Receive
  /\ UNCHANGED pc

(* execute_active_real_full_sequences: run S through one cycle. *)
(* A bug: a client that has gone is not noticed.                            *)
ContinuesUnheard(s, res) == res[s] = "more" /\ generated[s] + 1 < MaxOutput

Continues(s, res) ==
  res[s] = "more" /\ IsOpen(s) /\ generated[s] + 1 < MaxOutput

RunCycle(S, res) ==
  LET ran   == {s \in S : res[s] \in {"more", "stop"}}
      ended == {s \in S : res[s] # "retry" /\ ~Continues(s, res)}
  IN  /\ generated' = [s \in Stream |->
                         IF s \in ran THEN generated[s] + 1 ELSE generated[s]]
      /\ told' = told \cup {s \in ended : IsOpen(s)}
      /\ engine' = (engine \cup {s \in S : res[s] # "retry"}) \ ended

(* A bug: sequences without room go back to the head of the queue.          *)
PutBackFirst(queue, S) == Ascending(S) \o queue

(* Sequences without room go to the tail of the queue, in the batch's order. *)
PutBack(queue, S) == queue \o Ascending(S)

Admitted == {pending[i] : i \in 1..Min({Len(pending), MaxBatch - Cardinality(active)})}

Admit ==
  /\ pc = "admit"
  /\ Admitted # {}
  /\ \E res \in Results(Admitted) :
       LET more  == {s \in Admitted : Continues(s, res)}
           retry == {s \in Admitted : res[s] = "retry"}
       IN  /\ RunCycle(Admitted, res)
           /\ active' = active \cup more
           /\ pending' = PutBack(SubSeq(pending, Cardinality(Admitted) + 1,
                                        Len(pending)), retry)
           /\ pc' = IF more # {} THEN "top" ELSE "cycle"
  /\ UNCHANGED <<clientVars, deferred, batch>>

AdmitNone ==
  /\ pc = "admit"
  /\ Admitted = {}
  /\ pc' = "cycle"
  /\ UNCHANGED <<clientVars, told, pending, active, deferred, batch, generated,
                 engine>>

Cycle ==
  /\ pc = "cycle" /\ active # {}
  /\ \E res \in Results(active) :
       /\ RunCycle(active, res)
       /\ active' = {s \in active : Continues(s, res)}
       /\ pending' = PutBack(pending, {s \in active : res[s] = "retry"})
  /\ pc' = "top"
  /\ UNCHANGED <<clientVars, deferred, batch>>

(* Nothing is active.  If sequences are waiting for room, the worker looks   *)
(* for a job for a millisecond; otherwise until there is one.                *)
IdleReceive ==
  /\ pc = "cycle" /\ active = {}
  /\ Receive
  /\ pc' = "top"

IdleTimeout ==
  /\ pc = "cycle" /\ active = {} /\ pending # <<>>
  /\ mailbox = <<>> /\ ~hungUp
  /\ pc' = "top"
  /\ UNCHANGED <<clientVars, told, pending, active, deferred, batch, generated,
                 engine>>

Stop ==
  /\ pc = "cycle" /\ active = {} /\ mailbox = <<>> /\ hungUp
  /\ engine' = engine \ ToSet(pending)
  /\ pending' = <<>>
  /\ pc' = "stopped"
  /\ UNCHANGED <<clientVars, told, active, deferred, batch, generated>>

Worker ==
  \/ ForgetClosed \/ Drain \/ Drained
  \/ FinishDirect \/ ExecuteDirect \/ GatherFirst \/ ExecuteBatch
  \/ \E job \in Job : Gather(job)
  \/ Prune \/ AwaitAdmission \/ Admit \/ AdmitNone \/ Cycle
  \/ IdleReceive \/ IdleTimeout \/ Stop

Next ==
  \/ \E s \in Stream : Start(s) \/ Disconnect(s)
  \/ \E d \in Direct : CallExecute(d) \/ CallFinish(d)
  \/ HangUp
  \/ Worker

Spec == Init /\ [][Next]_vars

(* The worker thread goes on while it can; nobody else has to do anything.  *)
FairSpec == Spec /\ WF_vars(Worker)

-----------------------------------------------------------------------------
(* Properties *)

(* Jobs are well formed, and each queue holds its own kind of them.         *)
TypeOK ==
  /\ mailbox \in Seq(Job)
  /\ deferred \in Seq({job \in Job : job.kind # "start"})
  /\ client \in [Stream -> {"idle", "open", "gone"}]
  /\ pending \in Seq(Stream) /\ active \cup told \subseteq Stream
  /\ waiting \cup left \cup batch \subseteq Direct
  /\ calls \in [Direct -> 0..MaxCalls]
  /\ generated \in [Stream -> 0..MaxOutput]
  /\ engine \subseteq Stream \cup Direct
  /\ hungUp \in BOOLEAN /\ pc \in Labels

(* Sequences are let in one by one, sent back and let in again, but never   *)
(* are there more of them than the limits say.                              *)
WithinLimits ==
  /\ TypeOK
  /\ Cardinality(active) + Len(pending) <= MaxConcurrent
  /\ Cardinality(active) <= MaxBatch

(* The engine holds resources for exactly the active sequences, and for the *)
(* direct callers' ones until these are finished: none is leaked by a       *)
(* client that goes, an error, a retry or the end of the worker.            *)
NothingLeaks ==
  /\ engine \cap Stream = active
  /\ \A d \in engine \cap Direct : d \in left => d \in waiting

(* A stream is in one place at a time, and its client, unless it has gone   *)
(* or the worker has stopped, is told when it is in none any more.          *)
Served(s) == Started(s, mailbox) \/ s \in ToSet(pending) \cup active

NoStreamIsForgotten ==
  \A s \in Stream :
    /\ client[s] = "idle" => ~Served(s)
    /\ client[s] = "open" => Served(s) \/ s \in told \/ pc = "stopped"
    /\ s \in told => ~Served(s)
    /\ IsInjective(pending)
    /\ s \in active => s \notin ToSet(pending)
    /\ Started(s, mailbox) => s \notin ToSet(pending) \cup active

(* A client that has gone costs at most one cycle: its sequence does not    *)
(* come out of the cycle it was in, or is let into.                         *)
GoneStreamsEnd ==
  [][\A s \in Stream :
       client[s] = "gone" /\ generated'[s] > generated[s] => s \notin active']_vars

(* A stream ends, by its own stop, its limit, an error or a refusal, once    *)
(* direct callers leave it room for good: streams that do not fit yet do not *)
(* keep out one that does.                                                  *)
FittingStreamsEnd ==
  \A s \in Stream :
    <>[]Fits(s, engine \cap Direct) => (Served(s) ~> ~Served(s))

(* The worker blocks on the mailbox with nothing to do but deferred jobs.    *)
AsleepOnJobs ==
  /\ pc = "cycle" /\ active = {} /\ pending = <<>> /\ mailbox = <<>>
  /\ deferred # <<>>

(* A direct call is answered, whatever streams and batches it comes in       *)
(* between, unless the worker falls asleep on it.                           *)
CallsReturnUnlessAsleep ==
  \A d \in Direct : d \in waiting ~> d \notin waiting \/ AsleepOnJobs

(* What the callers, who block on the reply, and the test                    *)
(* thread_pinned_real_full_executor_reuses_one_worker_thread expect: a       *)
(* direct call returns.  A job that comes in while the worker awaits         *)
(* admissions is deferred; when every sequence then let in ends in its first *)
(* cycle, the worker blocks on the mailbox with the job still deferred.      *)
EveryCallReturns == \A d \in Direct : d \in waiting ~> d \notin waiting
=============================================================================
