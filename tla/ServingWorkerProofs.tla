------------------------- MODULE ServingWorkerProofs -------------------------
(***************************************************************************)
(* What the worker promises, for every set of streams and callers, every    *)
(* engine and every limit: there are never more sequences than the limits   *)
(* say, no stream is in two places or forgotten, the engine keeps nothing   *)
(* for a sequence that has left, and a client that has gone costs at most   *)
(* one cycle.                                                               *)
(*                                                                          *)
(* A queue holds each of its elements once, so most steps are argued on the *)
(* sets of the queues' elements; the lemmas on queues come first.           *)
(***************************************************************************)
EXTENDS ServingWorker, QueueLemmas

-----------------------------------------------------------------------------
(* Queues *)

(* A queue of streams joined by others, which are not in it.                *)
LEMMA Joined ==
  ASSUME NEW q \in Seq(Stream), IsInjective(q),
         NEW T, T \subseteq Stream, IsFiniteSet(T), ToSet(q) \cap T = {}
  PROVE  /\ PutBack(q, T) \in Seq(Stream)
         /\ IsInjective(PutBack(q, T))
         /\ ToSet(PutBack(q, T)) = ToSet(q) \cup T
<1> DEFINE a == Ascending(T)
           c == q \o a
<1>1. a \in Seq(T) /\ IsInjective(a) /\ ToSet(a) = T
  <2>1. T \subseteq Nat
    BY ServingAssumption DEF ServingAssumption
  <2> QED BY <2>1, AscendingEnumerates
<1>2. a \in Seq(Stream)
  BY <1>1, SeqMonotonic
<1> HIDE DEF a
<1>3. /\ c \in Seq(Stream) /\ Len(c) = Len(q) + Len(a)
      /\ \A i \in 1..(Len(q) + Len(a)) : c[i] = IF i <= Len(q) THEN q[i] ELSE a[i - Len(q)]
  BY <1>2, ConcatProperties
<1>4. /\ Len(q) \in Nat /\ Len(a) \in Nat
      /\ DOMAIN q = 1..Len(q) /\ DOMAIN a = 1..Len(a)
      /\ DOMAIN c = 1..(Len(q) + Len(a))
  BY <1>2, <1>3, LenProperties
<1> HIDE DEF c
<1>5. \A i \in DOMAIN c :
        \/ i \in DOMAIN q /\ c[i] = q[i]
        \/ i > Len(q) /\ i - Len(q) \in DOMAIN a /\ c[i] = a[i - Len(q)]
  BY <1>3, <1>4
<1>6. /\ \A i \in DOMAIN q : i \in DOMAIN c /\ c[i] = q[i]
      /\ \A i \in DOMAIN a : i + Len(q) \in DOMAIN c /\ c[i + Len(q)] = a[i]
  BY <1>3, <1>4
<1>7. \A i \in DOMAIN q, j \in DOMAIN a : q[i] # a[j]
  BY <1>1 DEF ToSet
<1>8. IsInjective(c)
  <2> SUFFICES ASSUME NEW i \in DOMAIN c, NEW j \in DOMAIN c, c[i] = c[j]
               PROVE  i = j
    BY DEF IsInjective
  <2>1. i \in Nat /\ j \in Nat
    BY <1>4
  <2>2. CASE i \in DOMAIN q /\ c[i] = q[i] /\ j \in DOMAIN q /\ c[j] = q[j]
    BY <2>2 DEF IsInjective
  <2>3. CASE /\ i > Len(q) /\ i - Len(q) \in DOMAIN a /\ c[i] = a[i - Len(q)]
             /\ j > Len(q) /\ j - Len(q) \in DOMAIN a /\ c[j] = a[j - Len(q)]
    <3>1. i - Len(q) = j - Len(q)
      BY <1>1, <2>3 DEF IsInjective
    <3> QED BY <1>4, <2>1, <3>1
  <2> QED BY <1>5, <1>7, <2>2, <2>3
<1>9. ToSet(c) = ToSet(q) \cup ToSet(a)
  BY <1>5, <1>6 DEF ToSet
<1> QED BY <1>1, <1>3, <1>8, <1>9 DEF PutBack, a, c

-----------------------------------------------------------------------------
(* The inductive invariant *)

Jobs == ToSet(mailbox) \cup ToSet(deferred)

(* A job is in one place only.                                              *)
JobsOnce ==
  /\ IsInjective(mailbox) /\ IsInjective(deferred)
  /\ ToSet(mailbox) \cap ToSet(deferred) = {}

(* Behind every direct job there is a caller blocked on it, and on no other. *)
CallsAwaited ==
  /\ \A job \in Jobs :
       /\ job.kind = "execute" => job.who \in waiting \ (left \cup batch)
       /\ job.kind = "finish" => job.who \in waiting \cap left
  /\ batch \subseteq waiting \ left
  /\ pc = "direct" => deferred # <<>>

(* A stream that may still run a cycle has not run its last.                *)
StreamsFresh ==
  \A s \in Stream :
    /\ client[s] = "idle" => s \notin told
    /\ client[s] = "idle" \/ Served(s) => generated[s] < MaxOutput

LimitsKept ==
  /\ IsFiniteSet(active)
  /\ Cardinality(active) + Len(pending) <= MaxConcurrent
  /\ Cardinality(active) <= MaxBatch

WInv ==
  /\ TypeOK /\ LimitsKept /\ NoStreamIsForgotten /\ NothingLeaks
  /\ JobsOnce /\ CallsAwaited /\ StreamsFresh

LEMMA WorkerInit == Init => WInv
<1> SUFFICES ASSUME Init PROVE WInv
  OBVIOUS
<1> USE DEF Init
<1>1. /\ mailbox \in Seq(Job) /\ pending \in Seq(Stream) /\ Len(pending) = 0
      /\ deferred \in Seq({job \in Job : job.kind # "start"})
      /\ ToSet(mailbox) = {} /\ ToSet(pending) = {} /\ ToSet(deferred) = {}
      /\ IsInjective(mailbox) /\ IsInjective(pending) /\ IsInjective(deferred)
  BY EmptySeq DEF ToSet, IsInjective
<1>2. MaxConcurrent \in Nat \ {0} /\ MaxBatch \in Nat \ {0}
      /\ MaxOutput \in Nat \ {0} /\ MaxCalls \in Nat \ {0}
  BY ServingAssumption DEF ServingAssumption
<1>3. TypeOK
  <2>1. calls \in [Direct -> 0..MaxCalls] /\ generated \in [Stream -> 0..MaxOutput]
    BY <1>2
  <2>2. client \in [Stream -> {"idle", "open", "gone"}]
    OBVIOUS
  <2> QED BY <1>1, <2>1, <2>2 DEF TypeOK, Labels
<1>4. LimitsKept
  BY <1>1, <1>2, FS_EmptySet DEF LimitsKept
<1>5. NoStreamIsForgotten /\ StreamsFresh
  BY <1>1, <1>2 DEF NoStreamIsForgotten, StreamsFresh, Served, Started
<1>6. NothingLeaks /\ JobsOnce /\ CallsAwaited
  BY <1>1 DEF NothingLeaks, JobsOnce, CallsAwaited, Jobs
<1> QED BY <1>3, <1>4, <1>5, <1>6 DEF WInv

-----------------------------------------------------------------------------
(* Facts the steps share *)

LEMMA JobShape ==
  /\ \A job \in Job :
       /\ \/ job.kind = "start" /\ job.who \in Stream
          \/ job.kind \in {"execute", "finish"} /\ job.who \in Direct
       /\ job = [kind |-> job.kind, who |-> job.who]
  /\ \A s \in Stream : [kind |-> "start", who |-> s] \in Job
  /\ \A d \in Direct : /\ [kind |-> "execute", who |-> d] \in Job
                       /\ [kind |-> "finish", who |-> d] \in Job
BY DEF Job

(* The caller of a direct job waits for this job only.                      *)
LEMMA OneJobPerCaller ==
  ASSUME WInv
  PROVE  \A job, other \in Jobs :
           job.kind # "start" /\ other.kind # "start" /\ job.who = other.who
             => job = other
<1>1. Jobs \subseteq Job
  BY DEF WInv, TypeOK, Jobs, ToSet
<1> SUFFICES ASSUME NEW job \in Jobs, NEW other \in Jobs,
                    job.kind # "start", other.kind # "start", job.who = other.who
             PROVE  job = other
  OBVIOUS
<1>2. job.kind \in {"execute", "finish"} /\ other.kind \in {"execute", "finish"}
  BY <1>1, JobShape
<1>3. job.kind = other.kind
  BY <1>2 DEF WInv, CallsAwaited
<1>4. job = [kind |-> job.kind, who |-> job.who]
      /\ other = [kind |-> other.kind, who |-> other.who]
  BY <1>1, JobShape
<1> QED BY <1>3, <1>4

LEMMA MailTaken ==
  ASSUME WInv, mailbox # <<>>
  PROVE  /\ Head(mailbox) \in Job /\ Tail(mailbox) \in Seq(Job)
         /\ IsInjective(Tail(mailbox))
         /\ ToSet(mailbox) = ToSet(Tail(mailbox)) \cup {Head(mailbox)}
         /\ Head(mailbox) \notin ToSet(Tail(mailbox))
         /\ Head(mailbox) \notin ToSet(deferred)
BY Taken DEF WInv, TypeOK, JobsOnce

LEMMA DeferredTaken ==
  ASSUME WInv, deferred # <<>>
  PROVE  /\ Head(deferred) \in Job /\ Head(deferred).kind # "start"
         /\ Tail(deferred) \in Seq({job \in Job : job.kind # "start"})
         /\ IsInjective(Tail(deferred))
         /\ ToSet(deferred) = ToSet(Tail(deferred)) \cup {Head(deferred)}
         /\ Head(deferred) \notin ToSet(Tail(deferred))
         /\ Head(deferred) \notin ToSet(mailbox)
<1> DEFINE Calls == {job \in Job : job.kind # "start"}
<1>1. deferred \in Seq(Calls) /\ IsInjective(deferred)
  BY DEF WInv, TypeOK, JobsOnce
<1> HIDE DEF Calls
<1>2. /\ Tail(deferred) \in Seq(Calls) /\ Head(deferred) \in Calls
      /\ IsInjective(Tail(deferred))
      /\ ToSet(deferred) = ToSet(Tail(deferred)) \cup {Head(deferred)}
      /\ Head(deferred) \notin ToSet(Tail(deferred))
  BY <1>1, Taken
<1>3. Head(deferred) \notin ToSet(mailbox)
  BY <1>2 DEF WInv, JobsOnce
<1> QED BY <1>2, <1>3 DEF Calls

(* No stream is queued twice.                                               *)
LEMMA PendingOnce ==
  ASSUME WInv
  PROVE  IsInjective(pending)
<1>1. CASE Stream = {}
  BY <1>1 DEF WInv, TypeOK, IsInjective
<1>2. CASE Stream # {}
  BY <1>2 DEF WInv, NoStreamIsForgotten
<1> QED BY <1>1, <1>2

(* The crowd is counted by the set of its members.                          *)
LEMMA CrowdOfSets ==
  ASSUME WInv
  PROVE  /\ active \cap ToSet(pending) = {}
         /\ IsFiniteSet(active \cup ToSet(pending))
         /\ Cardinality(active \cup ToSet(pending)) = Cardinality(active) + Len(pending)
         /\ Cardinality(active) \in Nat /\ Len(pending) \in Nat
<1>1. IsFiniteSet(active) /\ pending \in Seq(Stream) /\ active \subseteq Stream
  BY DEF WInv, LimitsKept, TypeOK
<1>2. ASSUME NEW s \in active PROVE s \notin ToSet(pending)
  BY <1>1 DEF WInv, NoStreamIsForgotten
<1>3. active \cap ToSet(pending) = {}
  BY <1>2
<1>4. IsInjective(pending)
  BY PendingOnce
<1> QED BY <1>1, <1>3, <1>4, CrowdCounted

(* Fewer sequences are within the limits too.                               *)
LEMMA LimitsStay ==
  ASSUME WInv, pending' \in Seq(Stream), IsInjective(pending'),
         IsFiniteSet(active'), active' \cap ToSet(pending') = {},
         Cardinality(active') <= MaxBatch,
         active' \cup ToSet(pending') \subseteq active \cup ToSet(pending)
  PROVE  LimitsKept'
<1>1. /\ IsFiniteSet(active \cup ToSet(pending))
      /\ Cardinality(active \cup ToSet(pending)) <= MaxConcurrent
      /\ Cardinality(active \cup ToSet(pending)) \in Nat
  BY CrowdOfSets DEF WInv, LimitsKept
<1>2. /\ Cardinality(active' \cup ToSet(pending')) = Cardinality(active') + Len(pending')
      /\ Cardinality(active') \in Nat /\ Len(pending') \in Nat
  BY CrowdCounted
<1>3. Cardinality(active' \cup ToSet(pending')) <= Cardinality(active \cup ToSet(pending))
  BY <1>1, FS_Subset
<1>4. MaxConcurrent \in Nat
  BY ServingAssumption DEF ServingAssumption
<1> QED BY <1>1, <1>2, <1>3, <1>4 DEF LimitsKept

(* Streams may leave the worker when their clients have gone, or when it    *)
(* stops.                                                                   *)
LEMMA StreamsLeave ==
  ASSUME WInv, pending' \in Seq(Stream), IsInjective(pending'),
         UNCHANGED <<client, told, generated>>,
         active' \subseteq active, ToSet(pending') \subseteq ToSet(pending),
         \A s \in Stream : Started(s, mailbox') <=> Started(s, mailbox),
         \A s \in active \cup ToSet(pending) :
           client[s] = "open" => s \in active' \cup ToSet(pending') \/ pc' = "stopped",
         pc = "stopped" => pc' = "stopped"
  PROVE  LimitsKept' /\ NoStreamIsForgotten' /\ StreamsFresh'
<1>1. active \cap ToSet(pending) = {}
  BY CrowdOfSets
<1>2. IsFiniteSet(active') /\ Cardinality(active') <= MaxBatch
  <2>1. /\ IsFiniteSet(active) /\ Cardinality(active) \in Nat
        /\ Cardinality(active) <= MaxBatch /\ MaxBatch \in Nat
    BY CrowdOfSets, ServingAssumption DEF WInv, LimitsKept, ServingAssumption
  <2>2. IsFiniteSet(active') /\ Cardinality(active') <= Cardinality(active)
    BY <2>1, FS_Subset
  <2> QED BY <2>1, <2>2, FS_CardinalityType
<1>3. LimitsKept'
  BY <1>1, <1>2, LimitsStay
<1>4. NoStreamIsForgotten'
  <2> SUFFICES ASSUME NEW s \in Stream
               PROVE  /\ client'[s] = "idle" => ~Served(s)'
                      /\ client'[s] = "open" => Served(s)' \/ s \in told' \/ pc' = "stopped"
                      /\ s \in told' => ~Served(s)'
                      /\ s \in active' => s \notin ToSet(pending')
                      /\ Started(s, mailbox') => s \notin ToSet(pending') \cup active'
    BY DEF NoStreamIsForgotten
  <2>1. Served(s)' => Served(s)
    BY DEF Served
  <2>2. Served(s) /\ client[s] = "open" => Served(s)' \/ pc' = "stopped"
    BY DEF Served
  <2> QED BY <2>1, <2>2 DEF WInv, NoStreamIsForgotten
<1>5. StreamsFresh'
  BY DEF WInv, StreamsFresh, Served
<1> QED BY <1>3, <1>4, <1>5

(* A stream comes out of the mailbox into the queue, or is refused.         *)
LEMMA StreamComes ==
  ASSUME WInv, NEW n \in Stream, Started(n, mailbox), Enqueue(n),
         UNCHANGED <<client, active, generated>>, pc # "stopped",
         \A s \in Stream : Started(s, mailbox') <=> Started(s, mailbox) /\ s # n
  PROVE  /\ pending' \in Seq(Stream) /\ told' \subseteq Stream
         /\ LimitsKept' /\ NoStreamIsForgotten' /\ StreamsFresh'
<1> DEFINE room == Crowd < MaxConcurrent
<1>1. /\ pending \in Seq(Stream) /\ told \subseteq Stream /\ IsInjective(pending)
      /\ n \notin ToSet(pending) \cup active /\ client[n] # "idle" /\ n \notin told
  BY DEF WInv, TypeOK, NoStreamIsForgotten, Served
<1>2. /\ MaxConcurrent \in Nat /\ Crowd \in Nat /\ Len(pending) \in Nat
      /\ Cardinality(active) \in Nat /\ Crowd = Cardinality(active) + Len(pending)
  BY CrowdOfSets, ServingAssumption DEF ServingAssumption, Crowd
<1>3. \/ room /\ pending' = Append(pending, n) /\ told' = told
      \/ ~room /\ pending' = pending /\ told' = told \cup {n}
  BY <1>2 DEF Enqueue
<1>4. /\ Append(pending, n) \in Seq(Stream)
      /\ Len(Append(pending, n)) = Len(pending) + 1
      /\ ToSet(Append(pending, n)) = ToSet(pending) \cup {n}
      /\ IsInjective(Append(pending, n))
  BY <1>1, Appended
<1>5. pending' \in Seq(Stream) /\ told' \subseteq Stream /\ IsInjective(pending')
  BY <1>1, <1>3, <1>4
<1>6. LimitsKept'
  <2>1. CASE room /\ pending' = Append(pending, n)
    <3>1. Cardinality(active) + (Len(pending) + 1) <= MaxConcurrent
      BY <1>2, <2>1
    <3> QED BY <1>4, <2>1, <3>1 DEF WInv, LimitsKept
  <2>2. CASE pending' = pending
    BY <2>2 DEF WInv, LimitsKept
  <2> QED BY <1>3, <2>1, <2>2
<1> HIDE DEF room
<1>7. ASSUME NEW s \in Stream, s # n
      PROVE  (Served(s)' <=> Served(s)) /\ (s \in told' <=> s \in told)
             /\ (s \in ToSet(pending') <=> s \in ToSet(pending))
             /\ (Started(s, mailbox') <=> Started(s, mailbox))
  BY <1>3, <1>4, <1>7 DEF Served
<1>8. /\ ~Started(n, mailbox') /\ n \notin active'
      /\ (n \in ToSet(pending') <=> n \notin told')
      /\ (Served(n)' <=> n \in ToSet(pending'))
      /\ Served(n)
  BY <1>1, <1>3, <1>4 DEF Served
<1>9. NoStreamIsForgotten'
  <2> SUFFICES ASSUME NEW s \in Stream
               PROVE  /\ client'[s] = "idle" => ~Served(s)'
                      /\ client'[s] = "open" => Served(s)' \/ s \in told' \/ pc' = "stopped"
                      /\ s \in told' => ~Served(s)'
                      /\ s \in active' => s \notin ToSet(pending')
                      /\ Started(s, mailbox') => s \notin ToSet(pending') \cup active'
    BY <1>5 DEF NoStreamIsForgotten
  <2>1. CASE s = n
    BY <1>1, <1>8, <2>1
  <2>2. CASE s # n
    BY <1>7, <2>2 DEF WInv, NoStreamIsForgotten
  <2> QED BY <2>1, <2>2
<1>10. StreamsFresh'
  <2> SUFFICES ASSUME NEW s \in Stream
               PROVE  /\ client'[s] = "idle" => s \notin told'
                      /\ client'[s] = "idle" \/ Served(s)' => generated'[s] < MaxOutput
    BY DEF StreamsFresh
  <2>1. CASE s = n
    BY <1>1, <1>8, <2>1 DEF WInv, StreamsFresh
  <2>2. CASE s # n
    BY <1>7, <2>2 DEF WInv, StreamsFresh
  <2> QED BY <2>1, <2>2
<1> QED BY <1>5, <1>6, <1>9, <1>10

-----------------------------------------------------------------------------
(* The clients' steps *)

LEMMA StepStart ==
  ASSUME WInv, NEW s \in Stream, Start(s)
  PROVE  WInv'
<1> DEFINE job == [kind |-> "start", who |-> s]
<1>1. /\ client[s] = "idle" /\ mailbox' = Append(mailbox, job)
      /\ client' = [client EXCEPT ![s] = "open"]
      /\ UNCHANGED <<hungUp, told, waiting, calls, left, workerVars>>
  BY DEF Start, Post
<1>2. mailbox \in Seq(Job) /\ job \in Job /\ IsInjective(mailbox)
  BY JobShape DEF WInv, TypeOK, JobsOnce
<1>3. ~Served(s) /\ s \notin told /\ generated[s] < MaxOutput
  BY <1>1 DEF WInv, NoStreamIsForgotten, StreamsFresh
<1>4. job \notin ToSet(mailbox)
  BY <1>3 DEF Served, Started
<1>5. job \notin ToSet(deferred)
  BY DEF WInv, TypeOK, ToSet
<1> HIDE DEF job
<1>6. /\ mailbox' \in Seq(Job) /\ ToSet(mailbox') = ToSet(mailbox) \cup {job}
      /\ IsInjective(mailbox')
  BY <1>1, <1>2, <1>4, Appended
<1>7. \A x \in Stream : Started(x, mailbox') <=> Started(x, mailbox) \/ x = s
  BY <1>6 DEF Started, job
<1>8. TypeOK'
  BY <1>1, <1>6 DEF WInv, TypeOK, workerVars
<1>9. LimitsKept' /\ NothingLeaks'
  BY <1>1 DEF WInv, LimitsKept, NothingLeaks, workerVars
<1>10. ASSUME NEW x \in Stream, x # s
       PROVE  /\ client'[x] = client[x] /\ (Served(x)' <=> Served(x))
              /\ (Started(x, mailbox') <=> Started(x, mailbox))
  BY <1>1, <1>7, <1>10 DEF WInv, TypeOK, Served, workerVars
<1>11. client'[s] = "open" /\ Served(s)' /\ s \notin ToSet(pending') \cup active'
  BY <1>1, <1>3, <1>7 DEF WInv, TypeOK, Served, workerVars
<1>12. NoStreamIsForgotten' /\ StreamsFresh'
  <2>1. ASSUME NEW x \in Stream
        PROVE  /\ client'[x] = "idle" => ~Served(x)' /\ x \notin told'
               /\ client'[x] = "open" => Served(x)' \/ x \in told' \/ pc' = "stopped"
               /\ x \in told' => ~Served(x)'
               /\ IsInjective(pending')
               /\ x \in active' => x \notin ToSet(pending')
               /\ Started(x, mailbox') => x \notin ToSet(pending') \cup active'
               /\ client'[x] = "idle" \/ Served(x)' => generated'[x] < MaxOutput
    <3>1. CASE x = s
      BY <1>1, <1>3, <1>11, <3>1 DEF WInv, NoStreamIsForgotten, workerVars
    <3>2. CASE x # s
      BY <1>1, <1>10, <3>2 DEF WInv, NoStreamIsForgotten, StreamsFresh, workerVars
    <3> QED BY <3>1, <3>2
  <2> QED BY <2>1 DEF NoStreamIsForgotten, StreamsFresh
<1>13. JobsOnce'
  BY <1>1, <1>5, <1>6 DEF WInv, JobsOnce, workerVars
<1>14. CallsAwaited'
  BY <1>1, <1>6 DEF WInv, CallsAwaited, Jobs, workerVars, job
<1> QED BY <1>8, <1>9, <1>12, <1>13, <1>14 DEF WInv

LEMMA StepDisconnect ==
  ASSUME WInv, NEW s \in Stream, Disconnect(s)
  PROVE  WInv'
<1> USE DEF Disconnect, workerVars
<1>1. TypeOK' /\ LimitsKept' /\ NothingLeaks' /\ JobsOnce' /\ CallsAwaited'
  BY DEF WInv, TypeOK, LimitsKept, NothingLeaks, JobsOnce, CallsAwaited, Jobs
<1>2. \A x \in Stream :
        /\ client'[x] = IF x = s THEN "gone" ELSE client[x]
        /\ Served(x)' <=> Served(x)
  BY DEF WInv, TypeOK, Served
<1>3. NoStreamIsForgotten'
  BY <1>2 DEF WInv, NoStreamIsForgotten
<1>4. StreamsFresh'
  BY <1>2 DEF WInv, StreamsFresh
<1> QED BY <1>1, <1>3, <1>4 DEF WInv

(* A caller that is not blocked posts a job and blocks on it.               *)
LEMMA DirectPosted ==
  ASSUME WInv, NEW d \in Direct, d \notin waiting \cup left,
         NEW kind \in {"execute", "finish"}, Post(kind, d),
         waiting' = waiting \cup {d},
         left' = IF kind = "finish" THEN left \cup {d} ELSE left,
         calls' \in [Direct -> 0..MaxCalls],
         UNCHANGED <<hungUp, client, told, workerVars>>
  PROVE  WInv'
<1> DEFINE job == [kind |-> kind, who |-> d]
<1>1. mailbox' = Append(mailbox, job)
  BY DEF Post
<1>2. mailbox \in Seq(Job) /\ job \in Job /\ IsInjective(mailbox)
  BY JobShape DEF WInv, TypeOK, JobsOnce
<1>3. job \notin ToSet(mailbox) /\ job \notin ToSet(deferred)
  BY DEF WInv, CallsAwaited, Jobs
<1>4. job.kind = kind /\ job.who = d
  OBVIOUS
<1> HIDE DEF job
<1>5. /\ mailbox' \in Seq(Job) /\ ToSet(mailbox') = ToSet(mailbox) \cup {job}
      /\ IsInjective(mailbox')
  BY <1>1, <1>2, <1>3, Appended
<1>6. \A x \in Stream : Started(x, mailbox') <=> Started(x, mailbox)
  BY <1>4, <1>5 DEF Started
<1>7. TypeOK'
  BY <1>5 DEF WInv, TypeOK, workerVars
<1>8. LimitsKept' /\ NothingLeaks'
  BY DEF WInv, LimitsKept, NothingLeaks, workerVars
<1>9. \A x \in Stream : Served(x)' <=> Served(x)
  BY <1>6 DEF Served, workerVars
<1>10. NoStreamIsForgotten'
  BY <1>6, <1>9 DEF WInv, NoStreamIsForgotten, workerVars
<1>11. StreamsFresh'
  BY <1>9 DEF WInv, StreamsFresh, workerVars
<1>12. JobsOnce'
  BY <1>3, <1>5 DEF WInv, JobsOnce, workerVars
<1>13. CallsAwaited'
  <2>1. ASSUME NEW j \in Jobs
        PROVE  /\ j.kind = "execute" => j.who \in waiting \ (left \cup batch)
               /\ j.kind = "finish" => j.who \in waiting \cap left
    BY DEF WInv, CallsAwaited
  <2>2. d \notin batch /\ batch \subseteq waiting \ left
    BY DEF WInv, CallsAwaited
  <2>3. Jobs' = Jobs \cup {job}
    BY <1>5 DEF Jobs, workerVars
  <2>4. ASSUME NEW j \in Jobs'
        PROVE  /\ j.kind = "execute" => j.who \in waiting' \ (left' \cup batch')
               /\ j.kind = "finish" => j.who \in waiting' \cap left'
    <3>1. CASE j = job
      BY <1>4, <2>2, <3>1 DEF workerVars
    <3>2. CASE j \in Jobs
      BY <2>1, <3>2 DEF workerVars
    <3> QED BY <2>3, <3>1, <3>2
  <2> QED BY <2>2, <2>4 DEF WInv, CallsAwaited, workerVars
<1> QED BY <1>7, <1>8, <1>10, <1>11, <1>12, <1>13 DEF WInv

LEMMA StepCallExecute ==
  ASSUME WInv, NEW d \in Direct, CallExecute(d)
  PROVE  WInv'
<1>1. calls' \in [Direct -> 0..MaxCalls]
  BY ServingAssumption DEF ServingAssumption, CallExecute, WInv, TypeOK
<1> QED BY <1>1, DirectPosted DEF CallExecute

LEMMA StepCallFinish ==
  ASSUME WInv, NEW d \in Direct, CallFinish(d)
  PROVE  WInv'
<1>1. calls' \in [Direct -> 0..MaxCalls]
  BY DEF CallFinish, WInv, TypeOK
<1> QED BY <1>1, DirectPosted DEF CallFinish

LEMMA StepHangUp ==
  ASSUME WInv, HangUp
  PROVE  WInv'
BY DEF HangUp, workerVars, WInv, TypeOK, LimitsKept, NoStreamIsForgotten, Served,
       NothingLeaks, JobsOnce, CallsAwaited, Jobs, StreamsFresh

-----------------------------------------------------------------------------
(* The worker's steps: receiving and letting go *)

LEMMA StepReceive ==
  ASSUME WInv, Receive, pc # "stopped", pc' \in Labels \ {"direct"}
  PROVE  WInv'
<1> DEFINE job == Head(mailbox)
<1>1. /\ mailbox # <<>> /\ mailbox' = Tail(mailbox) /\ Queue(job)
      /\ UNCHANGED <<hungUp, client, waiting, calls, left, active, batch,
                     generated, engine>>
  BY DEF Receive
<1>2. /\ job \in Job /\ mailbox' \in Seq(Job) /\ IsInjective(mailbox')
      /\ ToSet(mailbox) = ToSet(mailbox') \cup {job}
      /\ job \notin ToSet(mailbox') /\ job \notin ToSet(deferred)
  BY <1>1, MailTaken
<1>3. NothingLeaks'
  BY <1>1 DEF WInv, NothingLeaks
<1> HIDE DEF job
<1>4. CASE job.kind = "start"
  <2>1. job.who \in Stream /\ job = [kind |-> "start", who |-> job.who]
    BY <1>2, <1>4, JobShape
  <2>2. Enqueue(job.who) /\ deferred' = deferred
    BY <1>1, <1>4 DEF Queue
  <2>3. Started(job.who, mailbox)
    BY <1>2, <2>1 DEF Started
  <2>4. ASSUME NEW s \in Stream
        PROVE  Started(s, mailbox') <=> Started(s, mailbox) /\ s # job.who
    <3>1. [kind |-> "start", who |-> s] = job <=> s = job.who
      BY <2>1
    <3> QED BY <1>2, <3>1 DEF Started
  <2>5. /\ pending' \in Seq(Stream) /\ told' \subseteq Stream
        /\ LimitsKept' /\ NoStreamIsForgotten' /\ StreamsFresh'
    BY <1>1, <2>1, <2>2, <2>3, <2>4, StreamComes
  <2>6. TypeOK'
    BY <1>1, <1>2, <2>2, <2>5 DEF WInv, TypeOK
  <2>7. JobsOnce'
    BY <1>2, <2>2 DEF WInv, JobsOnce
  <2>8. CallsAwaited'
    <3>1. Jobs' \subseteq Jobs
      BY <1>2, <2>2 DEF Jobs
    <3> QED BY <1>1, <3>1 DEF WInv, CallsAwaited
  <2> QED BY <1>3, <2>5, <2>6, <2>7, <2>8 DEF WInv
<1>5. CASE job.kind # "start"
  <2> DEFINE Calls == {j \in Job : j.kind # "start"}
  <2>1. deferred' = Append(deferred, job) /\ pending' = pending /\ told' = told
    BY <1>1, <1>5 DEF Queue
  <2>2. deferred \in Seq(Calls) /\ job \in Calls /\ IsInjective(deferred)
    BY <1>2, <1>5 DEF WInv, TypeOK, JobsOnce
  <2> HIDE DEF Calls
  <2>3. /\ deferred' \in Seq(Calls) /\ IsInjective(deferred')
        /\ ToSet(deferred') = ToSet(deferred) \cup {job}
    BY <1>2, <2>1, <2>2, Appended
  <2>4. \A s \in Stream : Started(s, mailbox') <=> Started(s, mailbox)
    BY <1>2, <1>5 DEF Started
  <2>5. TypeOK'
    BY <1>1, <1>2, <2>1, <2>3 DEF WInv, TypeOK, Calls
  <2>6. pending' \in Seq(Stream) /\ IsInjective(pending')
    BY <2>1, PendingOnce DEF WInv, TypeOK
  <2>7. LimitsKept' /\ NoStreamIsForgotten' /\ StreamsFresh'
    BY <1>1, <2>1, <2>4, <2>6, StreamsLeave
  <2>8. JobsOnce'
    BY <1>2, <2>3 DEF WInv, JobsOnce
  <2>9. CallsAwaited'
    <3>1. Jobs' = Jobs
      BY <1>2, <2>3 DEF Jobs
    <3> QED BY <1>1, <3>1 DEF WInv, CallsAwaited
  <2> QED BY <1>3, <2>5, <2>7, <2>8, <2>9 DEF WInv
<1> QED BY <1>4, <1>5

LEMMA StepForgetClosed ==
  ASSUME WInv, ForgetClosed
  PROVE  WInv'
<1> DEFINE Open == {s \in Stream : IsOpen(s)}
<1>1. /\ pending' = Keep(pending, Open) /\ pc = "top" /\ pc' = "drain"
      /\ UNCHANGED <<clientVars, told, active, deferred, batch, generated, engine>>
  BY DEF ForgetClosed
<1>2. pending \in Seq(Stream) /\ IsInjective(pending)
  BY PendingOnce DEF WInv, TypeOK
<1> HIDE DEF Open
<1>3. /\ pending' \in Seq(Stream) /\ IsInjective(pending')
      /\ ToSet(pending') = ToSet(pending) \cap Open
  BY <1>1, <1>2, Kept
<1>4. ASSUME NEW s \in active \cup ToSet(pending), client[s] = "open"
      PROVE  s \in active' \cup ToSet(pending')
  <2>1. s \in Open
    BY <1>2, <1>4 DEF Open, IsOpen, ToSet, WInv, TypeOK
  <2> QED BY <1>1, <1>3, <2>1
<1>5. LimitsKept' /\ NoStreamIsForgotten' /\ StreamsFresh'
  BY <1>1, <1>3, <1>4, StreamsLeave DEF clientVars
<1>6. TypeOK'
  BY <1>1, <1>3 DEF WInv, TypeOK, clientVars, Labels
<1>7. NothingLeaks' /\ JobsOnce' /\ CallsAwaited'
  BY <1>1 DEF WInv, NothingLeaks, JobsOnce, CallsAwaited, Jobs, clientVars
<1> QED BY <1>5, <1>6, <1>7 DEF WInv

(* Only the worker's place in its loop changes.                             *)
LEMMA OnlyPlaceChanges ==
  ASSUME WInv,
         UNCHANGED <<clientVars, told, pending, active, deferred, batch, generated,
                     engine>>,
         pc # "stopped", pc' \in Labels, pc' = "direct" => deferred # <<>>
  PROVE  WInv'
<1> USE DEF clientVars
<1>1. pending' \in Seq(Stream) /\ IsInjective(pending')
  BY PendingOnce DEF WInv, TypeOK
<1>2. LimitsKept' /\ NoStreamIsForgotten' /\ StreamsFresh'
  BY <1>1, StreamsLeave
<1>3. TypeOK'
  BY DEF WInv, TypeOK
<1>4. NothingLeaks' /\ JobsOnce' /\ CallsAwaited'
  BY DEF WInv, NothingLeaks, JobsOnce, CallsAwaited, Jobs
<1> QED BY <1>2, <1>3, <1>4 DEF WInv

LEMMA StepPrune ==
  ASSUME WInv, Prune
  PROVE  WInv'
<1>1. /\ active' = {s \in active : IsOpen(s)}
      /\ engine' = engine \ {s \in active : ~IsOpen(s)}
      /\ pc = "prune" /\ pc' = "admit"
      /\ UNCHANGED <<clientVars, told, pending, deferred, batch, generated>>
  BY DEF Prune
<1>2. pending' \in Seq(Stream) /\ IsInjective(pending')
  BY <1>1, PendingOnce DEF WInv, TypeOK
<1>3. \A s \in active \cup ToSet(pending) :
        client[s] = "open" => s \in active' \cup ToSet(pending')
  BY <1>1 DEF IsOpen
<1>4. LimitsKept' /\ NoStreamIsForgotten' /\ StreamsFresh'
  BY <1>1, <1>2, <1>3, StreamsLeave DEF clientVars
<1>5. TypeOK'
  BY <1>1 DEF WInv, TypeOK, clientVars, Labels
<1>6. NothingLeaks'
  BY <1>1 DEF WInv, NothingLeaks, clientVars, IsOpen
<1>7. JobsOnce' /\ CallsAwaited'
  BY <1>1 DEF WInv, JobsOnce, CallsAwaited, Jobs, clientVars
<1> QED BY <1>4, <1>5, <1>6, <1>7 DEF WInv

LEMMA StepStop ==
  ASSUME WInv, Stop
  PROVE  WInv'
<1>1. /\ active = {} /\ pending' = <<>> /\ pc' = "stopped"
      /\ engine' = engine \ ToSet(pending)
      /\ UNCHANGED <<clientVars, told, active, deferred, batch, generated>>
  BY DEF Stop
<1>2. pending' \in Seq(Stream) /\ IsInjective(pending') /\ ToSet(pending') = {}
  BY <1>1, EmptySeq DEF IsInjective, ToSet
<1>3. LimitsKept' /\ NoStreamIsForgotten' /\ StreamsFresh'
  BY <1>1, <1>2, StreamsLeave DEF clientVars
<1>4. TypeOK'
  BY <1>1, <1>2 DEF WInv, TypeOK, clientVars, Labels
<1>5. NothingLeaks'
  BY <1>1 DEF WInv, NothingLeaks, clientVars
<1>6. JobsOnce' /\ CallsAwaited'
  BY <1>1 DEF WInv, JobsOnce, CallsAwaited, Jobs, clientVars
<1> QED BY <1>3, <1>4, <1>5, <1>6 DEF WInv

-----------------------------------------------------------------------------
(* The worker's steps: direct jobs *)

(* The streams are left alone.                                              *)
LEMMA StreamsStay ==
  ASSUME WInv, pending' \in Seq(Stream), IsInjective(pending'),
         ToSet(pending') = ToSet(pending),
         UNCHANGED <<client, told, active, generated>>, pc # "stopped",
         \A s \in Stream : Started(s, mailbox') <=> Started(s, mailbox)
  PROVE  LimitsKept' /\ NoStreamIsForgotten' /\ StreamsFresh'
BY StreamsLeave

(* The call of d is answered and its job gone.                              *)
LEMMA CallAnswered ==
  ASSUME WInv, NEW d, NEW job, Jobs' \subseteq Jobs \ {job},
         waiting' = waiting \ {d}, left' = left, batch' = batch,
         d \notin batch, pc' # "direct",
         \A j \in Jobs : j.kind # "start" /\ j.who = d => j = job
  PROVE  CallsAwaited'
<1>1. ASSUME NEW j \in Jobs', j.kind \in {"execute", "finish"}
      PROVE  j \in Jobs /\ j.who # d
  BY <1>1
<1> QED BY <1>1 DEF WInv, CallsAwaited

(* What an execution does to the engine.                                    *)
LEMMA Executed ==
  ASSUME WInv, NEW D \in SUBSET (Direct \ left), Execute(D), UNCHANGED <<left, active>>
  PROVE  /\ engine' \subseteq engine \cup D
         /\ engine' \subseteq Stream \cup Direct
         /\ waiting' = waiting \ D
         /\ NothingLeaks'
<1>1. PICK res \in Results(D) : engine' = engine \cup {d \in D : res[d] # "retry"}
  BY DEF Execute
<1>2. engine \subseteq engine' /\ engine' \subseteq engine \cup D /\ waiting' = waiting \ D
  BY <1>1 DEF Execute, Reply
<1>3. D \cap Stream = {} /\ D \subseteq Direct
  BY ServingAssumption DEF ServingAssumption
<1>4. engine' \subseteq Stream \cup Direct
  BY <1>2, <1>3 DEF WInv, TypeOK
<1>5. engine' \cap Stream = active'
  BY <1>2, <1>3 DEF WInv, NothingLeaks
<1>6. \A d \in engine' \cap Direct : d \in left' => d \in waiting'
  BY <1>2 DEF WInv, NothingLeaks
<1> QED BY <1>2, <1>4, <1>5, <1>6 DEF NothingLeaks

LEMMA Finished ==
  ASSUME WInv, NEW d \in Direct, Finish(d), UNCHANGED <<left, active>>
  PROVE  /\ engine' \subseteq Stream \cup Direct
         /\ waiting' = waiting \ {d}
         /\ NothingLeaks'
<1>1. engine' = engine \ {d} /\ waiting' = waiting \ {d}
  BY DEF Finish, Reply
<1>2. d \notin Stream
  BY ServingAssumption DEF ServingAssumption
<1> QED BY <1>1, <1>2 DEF WInv, TypeOK, NothingLeaks

(* The first deferred job is done with.                                     *)
LEMMA DeferredDone ==
  ASSUME WInv, deferred # <<>>, deferred' = Tail(deferred), UNCHANGED mailbox
  PROVE  /\ JobsOnce'
         /\ deferred' \in Seq({job \in Job : job.kind # "start"})
         /\ Jobs' = Jobs \ {Head(deferred)}
         /\ Head(deferred) \in Jobs
         /\ Head(deferred) \in Job /\ Head(deferred).kind # "start"
         /\ Head(deferred).who \in Direct
         /\ \A job \in Jobs : job.kind # "start" /\ job.who = Head(deferred).who
                                => job = Head(deferred)
<1> DEFINE job == Head(deferred)
<1>1. /\ job \in Job /\ job.kind # "start" /\ IsInjective(deferred')
      /\ deferred' \in Seq({j \in Job : j.kind # "start"})
      /\ ToSet(deferred) = ToSet(deferred') \cup {job}
      /\ job \notin ToSet(deferred') /\ job \notin ToSet(mailbox)
  BY DeferredTaken
<1> HIDE DEF job
<1>2. JobsOnce'
  BY <1>1 DEF WInv, JobsOnce
<1>3. Jobs' = Jobs \ {job} /\ job \in Jobs
  BY <1>1 DEF Jobs
<1>4. job.who \in Direct
  BY <1>1, JobShape
<1>5. \A j \in Jobs : j.kind # "start" /\ j.who = job.who => j = job
  BY <1>1, <1>3, OneJobPerCaller
<1> QED BY <1>1, <1>2, <1>3, <1>4, <1>5 DEF job

LEMMA StepFinishDirect ==
  ASSUME WInv, FinishDirect
  PROVE  WInv'
<1> DEFINE job == Head(deferred)
           d == job.who
<1>1. /\ pc = "direct" /\ job.kind = "finish" /\ Finish(d)
      /\ active' = active \ {d} /\ pending' = Keep(pending, Stream \ {d})
      /\ deferred' = Tail(deferred) /\ pc' = "top"
      /\ UNCHANGED <<mailbox, hungUp, client, told, calls, left, batch, generated>>
  BY DEF FinishDirect
<1>2. deferred # <<>>
  BY <1>1 DEF WInv, CallsAwaited
<1>3. /\ JobsOnce' /\ deferred' \in Seq({j \in Job : j.kind # "start"})
      /\ Jobs' = Jobs \ {job} /\ job \in Jobs /\ job.kind # "start" /\ d \in Direct
      /\ \A j \in Jobs : j.kind # "start" /\ j.who = d => j = job
  BY <1>1, <1>2, DeferredDone
<1> HIDE DEF job
<1>4. d \notin Stream /\ d \in left
  BY <1>1, <1>3, ServingAssumption DEF ServingAssumption, WInv, CallsAwaited
<1>5. pending \in Seq(Stream) /\ IsInjective(pending) /\ active \subseteq Stream
      /\ ToSet(pending) \subseteq Stream
  BY PendingOnce DEF WInv, TypeOK, ToSet
<1>6. /\ pending' \in Seq(Stream) /\ IsInjective(pending')
      /\ ToSet(pending') = ToSet(pending) \cap (Stream \ {d})
  BY <1>1, <1>5, Kept
<1>7. ToSet(pending') = ToSet(pending) /\ active' = active
  BY <1>1, <1>4, <1>5, <1>6
<1>8. LimitsKept' /\ NoStreamIsForgotten' /\ StreamsFresh'
  BY <1>1, <1>6, <1>7, StreamsStay
<1>9. engine' \subseteq Stream \cup Direct /\ waiting' = waiting \ {d} /\ NothingLeaks'
  BY <1>1, <1>3, <1>7, Finished
<1>10. TypeOK'
  BY <1>1, <1>3, <1>6, <1>7, <1>9 DEF WInv, TypeOK, Labels
<1>11. CallsAwaited'
  <2>1. d \notin batch
    BY <1>4 DEF WInv, CallsAwaited
  <2> QED BY <1>1, <1>3, <1>9, <2>1, CallAnswered
<1> QED BY <1>3, <1>8, <1>9, <1>10, <1>11 DEF WInv

LEMMA StepExecuteDirect ==
  ASSUME WInv, ExecuteDirect
  PROVE  WInv'
<1> DEFINE job == Head(deferred)
           d == job.who
<1>1. /\ pc = "direct" /\ job.kind = "execute" /\ Execute({d})
      /\ deferred' = Tail(deferred) /\ pc' = "top"
      /\ UNCHANGED <<mailbox, hungUp, client, told, calls, left, pending, active,
                     batch, generated>>
  BY DEF ExecuteDirect
<1>2. deferred # <<>>
  BY <1>1 DEF WInv, CallsAwaited
<1>3. /\ JobsOnce' /\ deferred' \in Seq({j \in Job : j.kind # "start"})
      /\ Jobs' = Jobs \ {job} /\ job \in Jobs /\ job.kind # "start" /\ d \in Direct
      /\ \A j \in Jobs : j.kind # "start" /\ j.who = d => j = job
  BY <1>1, <1>2, DeferredDone
<1> HIDE DEF job
<1>4. d \notin left /\ d \notin batch
  BY <1>1, <1>3 DEF WInv, CallsAwaited
<1>5. pending' \in Seq(Stream) /\ IsInjective(pending')
  BY <1>1, PendingOnce DEF WInv, TypeOK
<1>6. LimitsKept' /\ NoStreamIsForgotten' /\ StreamsFresh'
  BY <1>1, <1>5, StreamsStay
<1>7. engine' \subseteq Stream \cup Direct /\ waiting' = waiting \ {d} /\ NothingLeaks'
  BY <1>1, <1>3, <1>4, Executed
<1>8. TypeOK'
  BY <1>1, <1>3, <1>7 DEF WInv, TypeOK, Labels
<1>9. CallsAwaited'
  BY <1>1, <1>3, <1>4, <1>7, CallAnswered
<1> QED BY <1>3, <1>6, <1>7, <1>8, <1>9 DEF WInv

LEMMA StepGatherFirst ==
  ASSUME WInv, GatherFirst
  PROVE  WInv'
<1> DEFINE job == Head(deferred)
           d == job.who
<1>1. /\ pc = "direct" /\ job.kind = "execute" /\ batch' = {d}
      /\ deferred' = Tail(deferred) /\ pc' = "gather"
      /\ UNCHANGED <<clientVars, told, pending, active, generated, engine>>
  BY DEF GatherFirst
<1>2. deferred # <<>>
  BY <1>1 DEF WInv, CallsAwaited
<1>3. /\ JobsOnce' /\ deferred' \in Seq({j \in Job : j.kind # "start"})
      /\ Jobs' = Jobs \ {job} /\ job \in Jobs /\ job.kind # "start" /\ d \in Direct
      /\ \A j \in Jobs : j.kind # "start" /\ j.who = d => j = job
  BY <1>1, <1>2, DeferredDone DEF clientVars
<1> HIDE DEF job
<1>4. d \in waiting \ left
  BY <1>1, <1>3 DEF WInv, CallsAwaited
<1>5. pending' \in Seq(Stream) /\ IsInjective(pending')
  BY <1>1, PendingOnce DEF WInv, TypeOK
<1>6. LimitsKept' /\ NoStreamIsForgotten' /\ StreamsFresh'
  BY <1>1, <1>5, StreamsStay DEF clientVars
<1>7. TypeOK' /\ NothingLeaks'
  BY <1>1, <1>3 DEF WInv, TypeOK, Labels, NothingLeaks, clientVars
<1>8. CallsAwaited'
  <2>1. ASSUME NEW j \in Jobs', j.kind = "execute" PROVE j.who # d
    BY <1>3, <2>1
  <2> QED BY <1>1, <1>3, <1>4, <2>1 DEF WInv, CallsAwaited, clientVars
<1> QED BY <1>3, <1>6, <1>7, <1>8 DEF WInv

LEMMA StepExecuteBatch ==
  ASSUME WInv, ExecuteBatch
  PROVE  WInv'
<1>1. /\ pc = "gather" /\ Execute(batch) /\ batch' = {} /\ pc' = "top"
      /\ UNCHANGED <<mailbox, hungUp, client, told, calls, left, pending, active,
                     deferred, generated>>
  BY DEF ExecuteBatch
<1>2. batch \in SUBSET (Direct \ left)
  BY DEF WInv, TypeOK, CallsAwaited
<1>3. pending' \in Seq(Stream) /\ IsInjective(pending')
  BY <1>1, PendingOnce DEF WInv, TypeOK
<1>4. LimitsKept' /\ NoStreamIsForgotten' /\ StreamsFresh'
  BY <1>1, <1>3, StreamsStay
<1>5. engine' \subseteq Stream \cup Direct /\ waiting' = waiting \ batch /\ NothingLeaks'
  BY <1>1, <1>2, Executed
<1>6. TypeOK' /\ JobsOnce'
  BY <1>1, <1>5 DEF WInv, TypeOK, Labels, JobsOnce
<1>7. CallsAwaited'
  <2>1. Jobs' = Jobs
    BY <1>1 DEF Jobs
  <2> QED BY <1>1, <1>5, <2>1 DEF WInv, CallsAwaited
<1> QED BY <1>4, <1>5, <1>6, <1>7 DEF WInv

(* The job gathered next leaves its queue.                                  *)
LEMMA NextJobTaken ==
  ASSUME WInv, NEW job, NextJob(job)
  PROVE  /\ job \in Jobs /\ job \in Job /\ Jobs' = Jobs \ {job} /\ JobsOnce'
         /\ mailbox' \in Seq(Job)
         /\ deferred' \in Seq({j \in Job : j.kind # "start"})
         /\ \A s \in Stream : Started(s, mailbox') <=>
              Started(s, mailbox) /\ [kind |-> "start", who |-> s] # job
         /\ job.kind = "start" => job \in ToSet(mailbox)
<1>1. CASE deferred # <<>>
  <2>1. job = Head(deferred) /\ deferred' = Tail(deferred) /\ mailbox' = mailbox
    BY <1>1 DEF NextJob
  <2>2. /\ JobsOnce' /\ deferred' \in Seq({j \in Job : j.kind # "start"})
        /\ Jobs' = Jobs \ {job} /\ job \in Jobs /\ job \in Job /\ job.kind # "start"
    BY <1>1, <2>1, DeferredDone
  <2> QED BY <2>1, <2>2 DEF WInv, TypeOK, Started
<1>2. CASE deferred = <<>>
  <2>1. /\ job = Head(mailbox) /\ mailbox' = Tail(mailbox) /\ deferred' = deferred
        /\ mailbox # <<>>
    BY <1>2 DEF NextJob
  <2>2. /\ job \in Job /\ mailbox' \in Seq(Job) /\ IsInjective(mailbox')
        /\ ToSet(mailbox) = ToSet(mailbox') \cup {job}
        /\ job \notin ToSet(mailbox') /\ job \notin ToSet(deferred)
    BY <2>1, MailTaken
  <2>3. JobsOnce' /\ Jobs' = Jobs \ {job} /\ job \in Jobs
    BY <2>1, <2>2 DEF WInv, JobsOnce, Jobs
  <2> QED BY <2>1, <2>2, <2>3 DEF WInv, TypeOK, Started
<1> QED BY <1>1, <1>2

LEMMA StepGather ==
  ASSUME WInv, NEW job \in Job, Gather(job)
  PROVE  WInv'
<1> DEFINE d == job.who
<1>1. /\ pc = "gather" /\ pc' = "gather" /\ NextJob(job)
      /\ UNCHANGED <<hungUp, client, calls, left, active, generated>>
  BY DEF Gather
<1>2. /\ job \in Jobs /\ Jobs' = Jobs \ {job} /\ JobsOnce'
      /\ mailbox' \in Seq(Job) /\ deferred' \in Seq({j \in Job : j.kind # "start"})
      /\ \A s \in Stream : Started(s, mailbox') <=>
           Started(s, mailbox) /\ [kind |-> "start", who |-> s] # job
      /\ job.kind = "start" => job \in ToSet(mailbox)
  BY <1>1, NextJobTaken
<1>3. job.kind # "start" =>
        \A s \in Stream : Started(s, mailbox') <=> Started(s, mailbox)
  BY <1>2
<1>4. \A j \in Jobs : job.kind # "start" /\ j.kind # "start" /\ j.who = d => j = job
  BY <1>2, OneJobPerCaller
<1>5. pending \in Seq(Stream) /\ IsInjective(pending)
  BY PendingOnce DEF WInv, TypeOK
<1>6. CASE /\ job.kind = "execute" /\ batch' = batch \cup {d}
           /\ UNCHANGED <<waiting, engine, pending, told>>
  <2>1. d \in waiting \ left /\ d \in Direct
    BY <1>2, <1>6, JobShape DEF WInv, CallsAwaited
  <2>2. LimitsKept' /\ NoStreamIsForgotten' /\ StreamsFresh'
    BY <1>1, <1>3, <1>5, <1>6, StreamsStay
  <2>3. TypeOK' /\ NothingLeaks'
    BY <1>1, <1>2, <1>6, <2>1 DEF WInv, TypeOK, NothingLeaks, Labels
  <2>4. CallsAwaited'
    <3>1. ASSUME NEW j \in Jobs', j.kind = "execute" PROVE j.who # d
      BY <1>2, <1>4, <1>6, <3>1
    <3> QED BY <1>1, <1>2, <1>6, <2>1, <3>1 DEF WInv, CallsAwaited
  <2> QED BY <1>2, <2>2, <2>3, <2>4 DEF WInv
<1>7. CASE job.kind = "finish" /\ Finish(d) /\ UNCHANGED <<batch, pending, told>>
  <2>1. d \in left /\ d \in Direct
    BY <1>2, <1>7, JobShape DEF WInv, CallsAwaited
  <2>2. LimitsKept' /\ NoStreamIsForgotten' /\ StreamsFresh'
    BY <1>1, <1>3, <1>5, <1>7, StreamsStay
  <2>3. engine' \subseteq Stream \cup Direct /\ waiting' = waiting \ {d} /\ NothingLeaks'
    BY <1>1, <1>7, <2>1, Finished
  <2>4. TypeOK'
    BY <1>1, <1>2, <1>7, <2>3 DEF WInv, TypeOK, Labels
  <2>5. CallsAwaited'
    <3>1. d \notin batch
      BY <2>1 DEF WInv, CallsAwaited
    <3>2. \A j \in Jobs : j.kind # "start" /\ j.who = d => j = job
      BY <1>4, <1>7
    <3> HIDE DEF d
    <3> QED BY <1>1, <1>2, <1>7, <2>3, <3>1, <3>2, CallAnswered
  <2> QED BY <1>2, <2>2, <2>3, <2>4, <2>5 DEF WInv
<1>8. CASE job.kind = "start" /\ Enqueue(d) /\ UNCHANGED <<batch, waiting, engine>>
  <2>1. d \in Stream /\ job = [kind |-> "start", who |-> d]
    BY <1>8, JobShape
  <2>2. Started(d, mailbox)
    BY <1>2, <1>8, <2>1 DEF Started
  <2>3. ASSUME NEW s \in Stream
        PROVE  Started(s, mailbox') <=> Started(s, mailbox) /\ s # d
    <3>1. [kind |-> "start", who |-> s] = job <=> s = d
      BY <2>1
    <3> QED BY <1>2, <3>1
  <2> HIDE DEF d
  <2>4. /\ pending' \in Seq(Stream) /\ told' \subseteq Stream
        /\ LimitsKept' /\ NoStreamIsForgotten' /\ StreamsFresh'
    BY <1>1, <1>8, <2>1, <2>2, <2>3, StreamComes
  <2>5. TypeOK' /\ NothingLeaks'
    BY <1>1, <1>2, <1>8, <2>4 DEF WInv, TypeOK, NothingLeaks, Labels
  <2>6. CallsAwaited'
    BY <1>1, <1>2, <1>8 DEF WInv, CallsAwaited
  <2> QED BY <1>2, <2>4, <2>5, <2>6 DEF WInv
<1> QED BY <1>6, <1>7, <1>8 DEF Gather

-----------------------------------------------------------------------------
(* The worker's steps: cycles *)

(* A stream whose client has gone does not come out of the cycle it runs.   *)
GoneEnd ==
  \A s \in Stream :
    client[s] = "gone" /\ generated'[s] > generated[s] => s \notin active'

(* The streams of S run one cycle.                                          *)
LEMMA CycleRuns ==
  ASSUME WInv, NEW S, S \subseteq active \cup ToSet(pending),
         NEW res \in Results(S), RunCycle(S, res),
         active' = (active \ S) \cup {s \in S : Continues(s, res)},
         pending' \in Seq(Stream), IsInjective(pending'),
         ToSet(pending') = (ToSet(pending) \ S) \cup {s \in S : res[s] = "retry"},
         IsFiniteSet(active'), Cardinality(active') <= MaxBatch,
         UNCHANGED <<clientVars, deferred, batch>>,
         pc # "stopped", pc' \in Labels \ {"direct"}
  PROVE  WInv' /\ GoneEnd
<1> DEFINE more  == {s \in S : Continues(s, res)}
           retry == {s \in S : res[s] = "retry"}
           ran   == {s \in S : res[s] \in {"more", "stop"}}
           ended == {s \in S : res[s] # "retry" /\ ~Continues(s, res)}
<1>1. /\ S \subseteq Stream /\ active \subseteq Stream /\ ToSet(pending) \subseteq Stream
      /\ active \cap ToSet(pending) = {} /\ engine \cap Stream = active
      /\ MaxOutput \in Nat
  <2>1. active \subseteq Stream /\ ToSet(pending) \subseteq Stream
    BY DEF WInv, TypeOK, ToSet
  <2> QED BY <2>1, CrowdOfSets, ServingAssumption
          DEF WInv, NothingLeaks, ServingAssumption
<1>2. /\ S = more \cup retry \cup ended
      /\ more \cap retry = {} /\ more \cap ended = {} /\ retry \cap ended = {}
      /\ more \subseteq ran /\ ran \cap retry = {}
  BY DEF Continues
<1>3. retry \cap active = {}
  <2>1. \A s \in S : res[s] = "retry" => s \notin engine
    BY DEF Results
  <2> QED BY <1>1, <2>1
<1>4. /\ generated' = [s \in Stream |-> IF s \in ran THEN generated[s] + 1 ELSE generated[s]]
      /\ told' = told \cup {s \in ended : IsOpen(s)}
      /\ engine' = (engine \cup {s \in S : res[s] # "retry"}) \ ended
  BY DEF RunCycle
<1>5. \A s \in more : client[s] = "open" /\ generated[s] + 1 < MaxOutput
  BY DEF Continues, IsOpen
<1>6. /\ active' = (active \ S) \cup more
      /\ ToSet(pending') = (ToSet(pending) \ S) \cup retry
      /\ {s \in S : res[s] # "retry"} = S \ retry
  OBVIOUS
<1>7. \A s \in ended : IsOpen(s) <=> client[s] = "open"
  BY DEF IsOpen
<1>8. more \subseteq S /\ retry \subseteq S /\ ended \subseteq S /\ ran \subseteq S
  OBVIOUS
<1> HIDE DEF more, retry, ran, ended
<1>9. active' \cap ToSet(pending') = {}
  BY <1>1, <1>2, <1>6, <1>8
<1>10. active' \cup ToSet(pending') \subseteq active \cup ToSet(pending)
  BY <1>6, <1>8
<1>11. LimitsKept'
  BY <1>9, <1>10, LimitsStay
<1>12. generated \in [Stream -> Nat] /\ \A s \in Stream : generated[s] <= MaxOutput
  BY <1>1 DEF WInv, TypeOK
<1>13. ASSUME NEW s \in S
       PROVE  /\ Served(s) /\ client[s] # "idle" /\ s \notin told
              /\ ~Started(s, mailbox) /\ generated[s] < MaxOutput
  <2>1. Served(s) /\ s \in Stream
    BY <1>1 DEF Served
  <2> QED BY <1>1, <2>1 DEF WInv, NoStreamIsForgotten, StreamsFresh
<1>14. ASSUME NEW s \in Stream, s \notin S
       PROVE  /\ Served(s)' <=> Served(s)
              /\ s \in told' <=> s \in told
              /\ s \in active' <=> s \in active
              /\ s \in ToSet(pending') <=> s \in ToSet(pending)
              /\ generated'[s] = generated[s]
  BY <1>4, <1>6, <1>8, <1>14 DEF Served, clientVars
<1>15. ASSUME NEW s \in S
       PROVE  /\ Served(s)' <=> s \in more \cup retry
              /\ s \in told' <=> s \in ended /\ client[s] = "open"
              /\ s \in active' <=> s \in more
              /\ s \in ToSet(pending') <=> s \in retry
              /\ ~Started(s, mailbox')
  BY <1>4, <1>6, <1>7, <1>13 DEF Served, clientVars
<1>16. TypeOK'
  <2>1. generated' \in [Stream -> 0..MaxOutput]
    <3>1. ASSUME NEW s \in Stream PROVE generated'[s] \in 0..MaxOutput
      <4>1. CASE s \in ran
        BY <1>1, <1>4, <1>8, <1>12, <1>13, <4>1
      <4>2. CASE s \notin ran
        BY <1>1, <1>4, <1>12, <4>2
      <4> QED BY <4>1, <4>2
    <3> QED BY <1>4, <3>1
  <2>2. told' \subseteq Stream /\ active' \subseteq Stream /\ engine' \subseteq Stream \cup Direct
    BY <1>1, <1>4, <1>6, <1>8 DEF WInv, TypeOK
  <2> QED BY <2>1, <2>2 DEF WInv, TypeOK, clientVars
<1>17. NoStreamIsForgotten'
  <2> SUFFICES ASSUME NEW s \in Stream
               PROVE  /\ client'[s] = "idle" => ~Served(s)'
                      /\ client'[s] = "open" => Served(s)' \/ s \in told' \/ pc' = "stopped"
                      /\ s \in told' => ~Served(s)'
                      /\ s \in active' => s \notin ToSet(pending')
                      /\ Started(s, mailbox') => s \notin ToSet(pending') \cup active'
    BY DEF NoStreamIsForgotten
  <2>1. CASE s \in S
    BY <1>2, <1>13, <1>15, <2>1 DEF clientVars
  <2>2. CASE s \notin S
    BY <1>14, <2>2 DEF WInv, NoStreamIsForgotten, clientVars
  <2> QED BY <2>1, <2>2
<1>18. StreamsFresh'
  <2> SUFFICES ASSUME NEW s \in Stream
               PROVE  /\ client'[s] = "idle" => s \notin told'
                      /\ client'[s] = "idle" \/ Served(s)' => generated'[s] < MaxOutput
    BY DEF StreamsFresh
  <2>1. CASE s \in more
    <3>1. s \in ran /\ s \in S
      BY <1>2, <1>8, <2>1
    <3> QED BY <1>4, <1>5, <1>13, <2>1, <3>1 DEF clientVars
  <2>2. CASE s \in S /\ s \notin more
    <3>1. s \in retry => s \notin ran
      BY <1>2
    <3> QED BY <1>4, <1>13, <1>15, <2>2, <3>1 DEF clientVars
  <2>3. CASE s \notin S
    BY <1>14, <2>3 DEF WInv, StreamsFresh, clientVars
  <2> QED BY <1>8, <2>1, <2>2, <2>3
<1>19. NothingLeaks'
  <2>1. engine' \cap Stream = active'
    BY <1>1, <1>2, <1>3, <1>4, <1>6, <1>8
  <2>2. engine' \cap Direct \subseteq engine \cap Direct
    BY <1>1, <1>4, <1>6, ServingAssumption DEF ServingAssumption
  <2> QED BY <2>1, <2>2 DEF WInv, NothingLeaks, clientVars
<1>20. JobsOnce' /\ CallsAwaited'
  BY DEF WInv, JobsOnce, CallsAwaited, Jobs, clientVars
<1>21. GoneEnd
  <2> SUFFICES ASSUME NEW s \in Stream, client[s] = "gone", generated'[s] > generated[s]
               PROVE  s \notin active'
    BY DEF GoneEnd
  <2>1. s \in ran
    BY <1>4, <1>12
  <2>2. s \notin more
    BY <1>5
  <2> QED BY <1>8, <1>15, <2>1, <2>2
<1> QED BY <1>11, <1>16, <1>17, <1>18, <1>19, <1>20, <1>21 DEF WInv

LEMMA StepCycle ==
  ASSUME WInv, Cycle
  PROVE  WInv' /\ GoneEnd
<1>1. PICK res \in Results(active) :
        /\ RunCycle(active, res)
        /\ active' = {s \in active : Continues(s, res)}
        /\ pending' = PutBack(pending, {s \in active : res[s] = "retry"})
  BY DEF Cycle
<1> DEFINE retry == {s \in active : res[s] = "retry"}
<1>2. pc = "cycle" /\ pc' = "top" /\ UNCHANGED <<clientVars, deferred, batch>>
  BY DEF Cycle
<1>3. /\ active \cap ToSet(pending) = {} /\ active \subseteq Stream
      /\ IsFiniteSet(active) /\ Cardinality(active) \in Nat
      /\ Cardinality(active) <= MaxBatch /\ MaxBatch \in Nat
      /\ pending \in Seq(Stream) /\ IsInjective(pending) /\ Stream \subseteq Nat
  BY CrowdOfSets, PendingOnce, ServingAssumption
  DEF WInv, TypeOK, LimitsKept, ServingAssumption
<1>4. retry \subseteq active /\ active' \subseteq active
  BY <1>1
<1>5. IsFiniteSet(retry)
  BY <1>3, <1>4, FS_Subset
<1>6. IsFiniteSet(active') /\ Cardinality(active') <= MaxBatch
  <2>1. IsFiniteSet(active') /\ Cardinality(active') <= Cardinality(active)
    BY <1>3, <1>4, FS_Subset
  <2> QED BY <1>3, <2>1, FS_CardinalityType
<1> HIDE DEF retry
<1>7. /\ pending' \in Seq(Stream) /\ IsInjective(pending')
      /\ ToSet(pending') = ToSet(pending) \cup retry
  <2>1. retry \subseteq Stream /\ ToSet(pending) \cap retry = {} /\ pending' = PutBack(pending, retry)
    BY <1>1, <1>3, <1>4 DEF retry
  <2>2. /\ PutBack(pending, retry) \in Seq(Stream)
        /\ IsInjective(PutBack(pending, retry))
        /\ ToSet(PutBack(pending, retry)) = ToSet(pending) \cup retry
    <3>1. /\ pending \in Seq(Stream) /\ IsInjective(pending)
          /\ retry \subseteq Stream /\ IsFiniteSet(retry) /\ ToSet(pending) \cap retry = {}
      BY <1>3, <1>5, <2>1
    <3> QED BY <3>1, Joined
  <2> QED BY <2>1, <2>2
<1>8. ToSet(pending') = (ToSet(pending) \ active) \cup {s \in active : res[s] = "retry"}
  BY <1>3, <1>7 DEF retry
<1>9. active' = (active \ active) \cup {s \in active : Continues(s, res)}
  BY <1>1
<1> QED BY <1>1, <1>2, <1>6, <1>7, <1>8, <1>9, CycleRuns DEF Labels

(* Those let in are the first of the queue, and no more than fit the batch.  *)
LEMMA AdmittedAreFirst ==
  ASSUME WInv
  PROVE  /\ IsFiniteSet(Admitted) /\ Cardinality(Admitted) \in 0..Len(pending)
         /\ Cardinality(active) + Cardinality(Admitted) <= MaxBatch
         /\ LET rest == SubSeq(pending, Cardinality(Admitted) + 1, Len(pending))
            IN  /\ rest \in Seq(Stream) /\ IsInjective(rest)
                /\ ToSet(pending) = Admitted \cup ToSet(rest)
                /\ Admitted \cap ToSet(rest) = {}
<1> DEFINE n == Min({Len(pending), MaxBatch - Cardinality(active)})
<1>1. /\ Len(pending) \in Nat /\ Cardinality(active) \in Nat /\ MaxBatch \in Nat
      /\ Cardinality(active) <= MaxBatch
      /\ pending \in Seq(Stream) /\ IsInjective(pending)
  BY CrowdOfSets, PendingOnce, ServingAssumption
  DEF WInv, TypeOK, LimitsKept, ServingAssumption
<1>2. n \in 0..Len(pending) /\ Cardinality(active) + n <= MaxBatch
  <2>1. \A a, b \in Nat : \E x \in {a, b} : \A y \in {a, b} : x <= y
    OBVIOUS
  <2>2. MaxBatch - Cardinality(active) \in Nat
    BY <1>1
  <2>3. /\ n \in {Len(pending), MaxBatch - Cardinality(active)}
        /\ \A y \in {Len(pending), MaxBatch - Cardinality(active)} : n <= y
    BY <1>1, <2>1, <2>2 DEF Min
  <2> QED BY <1>1, <2>2, <2>3
<1> HIDE DEF n
<1>3. Admitted = {pending[i] : i \in 1..n}
  BY DEF Admitted, n
<1>4. LET rest == SubSeq(pending, n + 1, Len(pending))
      IN  /\ rest \in Seq(Stream) /\ IsInjective(rest)
          /\ ToSet(pending) = Admitted \cup ToSet(rest)
          /\ Admitted \cap ToSet(rest) = {}
          /\ IsFiniteSet(Admitted) /\ Cardinality(Admitted) = n
  <2>1. pending \in Seq(Stream) /\ IsInjective(pending) /\ n \in 0..Len(pending)
    BY <1>1, <1>2
  <2>2. SubSeq(pending, n + 1, Len(pending)) \in Seq(Stream)
    BY <2>1, Parted
  <2>3. IsInjective(SubSeq(pending, n + 1, Len(pending)))
    BY <2>1, Parted
  <2>4. ToSet(pending) = {pending[i] : i \in 1..n}
                           \cup ToSet(SubSeq(pending, n + 1, Len(pending)))
    BY <2>1, Parted
  <2>5. {pending[i] : i \in 1..n} \cap ToSet(SubSeq(pending, n + 1, Len(pending))) = {}
    BY <2>1, Parted
  <2>6. IsFiniteSet({pending[i] : i \in 1..n}) /\ Cardinality({pending[i] : i \in 1..n}) = n
    BY <2>1, Parted
  <2> QED BY <1>3, <2>2, <2>3, <2>4, <2>5, <2>6
<1> QED BY <1>2, <1>4

LEMMA StepAdmit ==
  ASSUME WInv, Admit
  PROVE  WInv' /\ GoneEnd
<1> DEFINE rest == SubSeq(pending, Cardinality(Admitted) + 1, Len(pending))
<1>1. PICK res \in Results(Admitted) :
        /\ RunCycle(Admitted, res)
        /\ active' = active \cup {s \in Admitted : Continues(s, res)}
        /\ pending' = PutBack(rest, {s \in Admitted : res[s] = "retry"})
        /\ pc' \in {"top", "cycle"}
  BY DEF Admit
<1> DEFINE more  == {s \in Admitted : Continues(s, res)}
           retry == {s \in Admitted : res[s] = "retry"}
<1>2. pc = "admit" /\ UNCHANGED <<clientVars, deferred, batch>>
  BY DEF Admit
<1>3. /\ IsFiniteSet(Admitted) /\ Cardinality(Admitted) \in Nat
      /\ Cardinality(active) + Cardinality(Admitted) <= MaxBatch
      /\ rest \in Seq(Stream) /\ IsInjective(rest)
      /\ ToSet(pending) = Admitted \cup ToSet(rest)
      /\ Admitted \cap ToSet(rest) = {}
  BY AdmittedAreFirst
<1>4. /\ active \cap ToSet(pending) = {} /\ IsFiniteSet(active)
      /\ Cardinality(active) \in Nat /\ MaxBatch \in Nat
      /\ Stream \subseteq Nat /\ ToSet(pending) \subseteq Stream
  BY CrowdOfSets, ServingAssumption
  DEF WInv, TypeOK, LimitsKept, ServingAssumption, ToSet
<1>5. retry \subseteq Admitted /\ more \subseteq Admitted
  OBVIOUS
<1>6. IsFiniteSet(retry) /\ IsFiniteSet(more) /\ Cardinality(more) <= Cardinality(Admitted)
  BY <1>3, <1>5, FS_Subset
<1>7. active' = active \cup more /\ pending' = PutBack(rest, retry)
  BY <1>1
<1> HIDE DEF rest, more, retry
<1>8. IsFiniteSet(active') /\ Cardinality(active') <= MaxBatch
  <2>1. active \cap more = {}
    BY <1>3, <1>4, <1>5
  <2>2. /\ IsFiniteSet(active \cup more)
        /\ Cardinality(active \cup more)
             = Cardinality(active) + Cardinality(more) - Cardinality({})
    BY <1>4, <1>6, <2>1, FS_Union
  <2>3. Cardinality({}) = 0 /\ Cardinality(more) \in Nat
    BY <1>6, FS_EmptySet, FS_CardinalityType
  <2> QED BY <1>3, <1>4, <1>6, <1>7, <2>2, <2>3
<1>9. /\ pending' \in Seq(Stream) /\ IsInjective(pending')
      /\ ToSet(pending') = ToSet(rest) \cup retry
  <2>1. retry \subseteq Stream /\ ToSet(rest) \cap retry = {}
    BY <1>3, <1>4, <1>5
  <2>2. /\ PutBack(rest, retry) \in Seq(Stream)
        /\ IsInjective(PutBack(rest, retry))
        /\ ToSet(PutBack(rest, retry)) = ToSet(rest) \cup retry
    <3>1. /\ rest \in Seq(Stream) /\ IsInjective(rest)
          /\ retry \subseteq Stream /\ IsFiniteSet(retry) /\ ToSet(rest) \cap retry = {}
      BY <1>3, <1>4, <1>6, <2>1
    <3> QED BY <3>1, Joined
  <2> QED BY <1>7, <2>2
<1>10. /\ ToSet(pending') = (ToSet(pending) \ Admitted) \cup {s \in Admitted : res[s] = "retry"}
       /\ active' = (active \ Admitted) \cup {s \in Admitted : Continues(s, res)}
       /\ Admitted \subseteq active \cup ToSet(pending)
  BY <1>3, <1>4, <1>7, <1>9 DEF retry, more
<1> QED BY <1>1, <1>2, <1>8, <1>9, <1>10, CycleRuns DEF Labels

-----------------------------------------------------------------------------
(* The theorems *)

LEMMA NothingRan ==
  ASSUME WInv, UNCHANGED generated
  PROVE  GoneEnd
<1>1. ASSUME NEW s \in Stream PROVE ~(generated'[s] > generated[s])
  <2>1. generated[s] \in 0..MaxOutput
    BY DEF WInv, TypeOK
  <2> QED BY <2>1
<1> QED BY <1>1 DEF GoneEnd

(* The invariant is kept by every step of every actor.                      *)
LEMMA WorkerNext ==
  ASSUME WInv, [Next]_vars
  PROVE  WInv' /\ GoneEnd
<1>1. CASE \E s \in Stream : Start(s) \/ Disconnect(s)
  <2>1. WInv'
    BY <1>1, StepStart, StepDisconnect
  <2>2. UNCHANGED generated
    BY <1>1 DEF Start, Disconnect, workerVars
  <2> QED BY <2>1, <2>2, NothingRan
<1>2. CASE \E d \in Direct : CallExecute(d) \/ CallFinish(d)
  <2>1. WInv'
    BY <1>2, StepCallExecute, StepCallFinish
  <2>2. UNCHANGED generated
    BY <1>2 DEF CallExecute, CallFinish, workerVars
  <2> QED BY <2>1, <2>2, NothingRan
<1>3. CASE HangUp
  BY <1>3, StepHangUp, NothingRan DEF HangUp, workerVars
<1>4. CASE ForgetClosed
  BY <1>4, StepForgetClosed, NothingRan DEF ForgetClosed
<1>5. CASE Drain \/ AwaitAdmission \/ IdleReceive
  <2>1. Receive /\ pc # "stopped" /\ pc' \in Labels \ {"direct"}
    BY <1>5 DEF Drain, AwaitAdmission, IdleReceive, Labels
  <2>2. UNCHANGED generated
    BY <2>1 DEF Receive
  <2> QED BY <2>1, <2>2, StepReceive, NothingRan
<1>6. CASE Drained \/ AdmitNone \/ IdleTimeout
  <2>1. /\ UNCHANGED <<clientVars, told, pending, active, deferred, batch, generated,
                       engine>>
        /\ pc # "stopped" /\ pc' \in Labels /\ (pc' = "direct" => deferred # <<>>)
    BY <1>6 DEF Drained, AdmitNone, IdleTimeout, Labels
  <2> QED BY <2>1, OnlyPlaceChanges, NothingRan
<1>7. CASE FinishDirect
  BY <1>7, StepFinishDirect, NothingRan DEF FinishDirect
<1>8. CASE ExecuteDirect
  BY <1>8, StepExecuteDirect, NothingRan DEF ExecuteDirect
<1>9. CASE GatherFirst
  BY <1>9, StepGatherFirst, NothingRan DEF GatherFirst
<1>10. CASE ExecuteBatch
  BY <1>10, StepExecuteBatch, NothingRan DEF ExecuteBatch
<1>11. CASE \E job \in Job : Gather(job)
  <2>1. WInv'
    BY <1>11, StepGather
  <2>2. UNCHANGED generated
    BY <1>11 DEF Gather
  <2> QED BY <2>1, <2>2, NothingRan
<1>12. CASE Prune
  BY <1>12, StepPrune, NothingRan DEF Prune
<1>13. CASE Stop
  BY <1>13, StepStop, NothingRan DEF Stop
<1>14. CASE Admit \/ Cycle
  BY <1>14, StepAdmit, StepCycle
<1>15. CASE UNCHANGED vars
  <2>1. WInv'
    BY <1>15 DEF vars, WInv, TypeOK, LimitsKept, NoStreamIsForgotten, Served,
         NothingLeaks, JobsOnce, CallsAwaited, Jobs, StreamsFresh
  <2> QED BY <1>15, <2>1, NothingRan DEF vars
<1> QED BY <1>1, <1>2, <1>3, <1>4, <1>5, <1>6, <1>7, <1>8, <1>9, <1>10, <1>11,
           <1>12, <1>13, <1>14, <1>15 DEF Next, Worker

(* What the steps keep, whoever takes them: the three invariants below, with *)
(* the jobs each in one place and each awaited by its caller.               *)
THEOREM WorkerInvariance == Spec => []WInv
<1>1. WInv /\ [Next]_vars => WInv'
  BY WorkerNext
<1> QED BY WorkerInit, <1>1, PTL DEF Spec

(* No number of starts, retries and admissions takes the worker past         *)
(* real_full_max_concurrent_sequences, or its batch past the batch size.     *)
THEOREM LimitsHold == Spec => []WithinLimits
<1>1. WInv => WithinLimits
  BY DEF WInv, LimitsKept, WithinLimits
<1> QED BY WorkerInvariance, <1>1, PTL

(* A stream is in one place at a time and, unless its client goes or the      *)
(* worker stops, is never lost without an event.                            *)
THEOREM StreamsAreKept == Spec => []NoStreamIsForgotten
<1>1. WInv => NoStreamIsForgotten
  BY DEF WInv
<1> QED BY WorkerInvariance, <1>1, PTL

(* The engine holds what the active streams and the unfinished direct        *)
(* sequences take, and nothing else.                                        *)
THEOREM EngineIsGivenBack == Spec => []NothingLeaks
<1>1. WInv => NothingLeaks
  BY DEF WInv
<1> QED BY WorkerInvariance, <1>1, PTL

(* A client that has gone costs the engine at most one cycle.               *)
THEOREM GoneCostOneCycle == Spec => GoneStreamsEnd
<1>1. WInv /\ [Next]_vars =>
        [\A s \in Stream :
           client[s] = "gone" /\ generated'[s] > generated[s] => s \notin active']_vars
  BY WorkerNext DEF GoneEnd
<1> QED BY WorkerInvariance, <1>1, PTL DEF Spec, GoneStreamsEnd
=============================================================================
