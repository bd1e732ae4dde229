---------------------------- MODULE CollectionProofs ----------------------------
(***************************************************************************)
(* Proofs about a collection request, run in parallel or not, for any      *)
(* number of profiles, symbols, attempts and workers.                      *)
(*                                                                         *)
(* BrokerJob: what a job keeps of its bookkeeping, its datasets and its    *)
(* errors at every step, its death included, whatever runs the jobs.       *)
(* ParallelCollection: whichever workers die, no symbol is written twice,  *)
(* batches are returned only when complete, and the run keeps the promise  *)
(* of CollectionPromise.  SequentialCollection: the request stops at the   *)
(* first profile that fails, with that profile's error, and keeps the same *)
(* promise.                                                                *)
(***************************************************************************)
EXTENDS ParallelCollection, SequentialCollection, TLAPS

-----------------------------------------------------------------------------
(* A job                                                                   *)

Writing(j) == pc[j] \in {"staged", "announced"}
Between(j) == pc[j] \in {"idle", "loop", "connect", "sleep"}
Looping(j) == pc[j] \in {"symbol", "staged", "announced"}

\* What is on disk is what `collected` says, plus the write under way.
DiskAgrees(j) ==
    /\ \A s \in Symbol : Published(j, s) # {} <=> s \in collected[j]
    /\ \A s \in Symbol : \A m, n \in Published(j, s) : m = n
    /\ pc[j] # "killed" =>
         \A s \in Symbol, n \in 1 .. Attempts :
            disk[<<j, s, n>>] \in {"staged", "announced"} =>
                Writing(j) /\ s = current[j] /\ n = attempt[j]

\* Every wanted symbol is collected, pending, or both while an attempt runs.
LoopAgrees(j) ==
    /\ pending[j] \cup collected[j] = Wanted[j]
    /\ Between(j) => pending[j] \cap collected[j] = {}
    /\ pc[j] = "idle" => attempt[j] = 0
    /\ pc[j] \in {"idle", "sleep"} => attempt[j] < Attempts
    /\ pc[j] = "loop" /\ pending[j] # {} => attempt[j] < Attempts
    /\ pc[j] \in {"connect"} \cup {"symbol", "staged", "announced"} => attempt[j] \in 1 .. Attempts
    /\ Looping(j) => /\ todo[j] \subseteq pending[j]
                     /\ todo[j] \cap collected[j] = {}
                     /\ pending[j] \subseteq todo[j] \cup collected[j] \cup
                            (IF Writing(j) THEN {current[j]} ELSE {})
    /\ Writing(j) => /\ current[j] \in Wanted[j]
                     /\ current[j] \notin collected[j] /\ current[j] \notin todo[j]
    /\ pc[j] = "returned" => collected[j] = Wanted[j]

JobInv(j) == DiskAgrees(j) /\ LoopAgrees(j)

-----------------------------------------------------------------------------

\* A job that has not begun has collected nothing and written nothing.
LEMMA InitJobInv == ASSUME InitJobs, NEW j \in Job PROVE JobTypeOK /\ JobInv(j)
<1>1. JobTypeOK
  BY JobConstants DEF InitJobs, JobTypeOK, Working, Ended
<1>2. \A s \in Symbol : Published(j, s) = {}
  BY DEF InitJobs, Published, Dataset
<1>3. DiskAgrees(j)
  BY <1>2 DEF InitJobs, DiskAgrees, Dataset
<1>4. LoopAgrees(j)
  BY JobConstants DEF InitJobs, LoopAgrees, Between, Looping, Writing
<1>5. QED
  BY <1>1, <1>3, <1>4 DEF JobInv

\* Every step of a job, its death included, keeps the type of its variables.
LEMMA JobTypeStep ==
    ASSUME JobTypeOK, NEW j \in Job, LoopAgrees(j), Begin(j) \/ JobStep(j) \/ (Go(j, "killed") /\ UNCHANGED
             <<attempt, pending, todo, current, collected, errors, disk>>)
    PROVE  JobTypeOK'
<1> DEFINE Error == Verdict \cup {"MT5ConnectionError", "ParallelCollectionError"}
<1> USE JobConstants DEF JobTypeOK, Working, Ended, Go
<1>a. ASSUME NEW e \in Error, Meet(j, e) PROVE errors' \in [Job -> Seq(Error)]
  BY <1>a DEF Meet
<1>b. ASSUME Retry(j)
      PROVE  /\ pc' \in [Job -> Working \cup Ended \cup {"idle"}]
             /\ pending' \in [Job -> SUBSET Symbol]
             /\ errors' \in [Job -> Seq(Error)]
  <2>1. errors' \in [Job -> Seq(Error)]
    BY <1>a, <1>b DEF Retry
  <2>2. QED
    BY <1>b, <2>1 DEF Retry, Remaining
<1>c. ASSUME NEW e \in Error, Raise(j, e)
      PROVE  /\ pc' \in [Job -> Working \cup Ended \cup {"idle"}]
             /\ errors' \in [Job -> Seq(Error)]
  BY <1>a, <1>c DEF Raise
<1> HIDE DEF Error
<1>d. "OSError" \in Error /\ "DemoSafetyError" \in Error /\ "MT5ConnectionError" \in Error
      /\ "ParallelCollectionError" \in Error /\ Verdict \subseteq Error
  BY DEF Error, Verdict
<1>1. CASE Begin(j)
  BY <1>1 DEF Begin
<1>2. CASE NextAttempt(j)
  BY <1>2 DEF NextAttempt, LoopEnds
<1>3. CASE Finish(j)
  BY <1>3, <1>c, <1>d DEF Finish, Error
<1>4. CASE Connect(j)
  <2>1. CASE Go(j, "symbol") /\ todo' = [todo EXCEPT ![j] = pending[j]] /\ UNCHANGED <<pending, errors>>
    BY <1>4, <2>1 DEF Connect
  <2>2. CASE Retry(j) /\ UNCHANGED todo
    BY <1>4, <2>2, <1>b DEF Connect, Error
  <2>3. CASE Raise(j, "DemoSafetyError") /\ UNCHANGED <<pending, todo>>
    BY <1>4, <2>3, <1>c, <1>d DEF Connect, Error
  <2>4. QED
    BY <1>4, <2>1, <2>2, <2>3 DEF Connect
<1>5. ASSUME NEW s \in Symbol, Collect(j, s) PROVE JobTypeOK'
  <2>1. CASE /\ Go(j, "staged")
             /\ todo' = [todo EXCEPT ![j] = @ \ {s}]
             /\ current' = [current EXCEPT ![j] = s]
             /\ disk' = [disk EXCEPT ![<<j, s, attempt[j]>>] = "staged"]
             /\ UNCHANGED <<pending, errors>>
    <3>1. disk' \in [Dataset -> {"absent", "staged", "announced", "published"}]
      BY <2>1
    <3>2. todo' \in [Job -> SUBSET Symbol] /\ current' \in [Job -> Symbol \cup {NoSymbol}]
      BY <2>1
    <3>3. QED
      BY <1>5, <2>1, <3>1, <3>2 DEF Collect
  <2>2. CASE Retry(j) /\ UNCHANGED <<todo, current, disk>>
    BY <1>5, <2>2, <1>b DEF Collect, Error
  <2>3. CASE (\E e \in Verdict : Raise(j, e)) /\ UNCHANGED <<pending, todo, current, disk>>
    BY <1>5, <2>3, <1>c, <1>d DEF Collect, Error
  <2>4. QED
    BY <1>5, <2>1, <2>2, <2>3 DEF Collect
<1>6. CASE CloseAttempt(j)
  BY <1>6 DEF CloseAttempt
<1>7. CASE Announce(j)
  BY <1>7, <1>c, <1>d DEF Announce, WriteFails, Write, Error
<1>8. CASE Publish(j)
  <2>1. CASE WriteFails(j)
    BY <1>8, <2>1, <1>c, <1>d DEF Publish, WriteFails, Write, Error
  <2>2. CASE ~WriteFails(j)
    <3>1. pc[j] = "announced" /\ collected' = [collected EXCEPT ![j] = @ \cup {current[j]}]
      BY <1>8, <2>2 DEF Publish
    <3>2. current[j] \in Symbol
      BY <3>1 DEF LoopAgrees, Writing
    <3>3. QED
      BY <1>8, <2>2, <3>1, <3>2 DEF Publish, Write
  <2>3. QED
    BY <2>1, <2>2
<1>9. CASE Wake(j)
  BY <1>9 DEF Wake
<1>10. CASE Go(j, "killed") /\ UNCHANGED <<attempt, pending, todo, current, collected, errors, disk>>
  BY <1>10
<1>11. QED
  BY <1>1, <1>2, <1>3, <1>4, <1>5, <1>6, <1>7, <1>8, <1>9, <1>10 DEF JobStep

\* Everything a job does, its death included.
AnyStep(j) ==
    \/ Begin(j)
    \/ JobStep(j)
    \/ Go(j, "killed") /\ UNCHANGED <<attempt, pending, todo, current, collected, errors, disk>>

\* A job's step leaves every other job and its datasets alone.
LEMMA StepIsLocal ==
    ASSUME JobTypeOK, NEW j \in Job, AnyStep(j), NEW k \in Job, k # j
    PROVE  /\ pc'[k] = pc[k] /\ attempt'[k] = attempt[k] /\ pending'[k] = pending[k]
           /\ todo'[k] = todo[k] /\ current'[k] = current[k] /\ collected'[k] = collected[k]
           /\ errors'[k] = errors[k]
           /\ \A s \in Symbol, n \in 1 .. Attempts : disk'[<<k, s, n>>] = disk[<<k, s, n>>]
<1>1. ASSUME NEW c, NEW a, NEW v, disk' = [disk EXCEPT ![<<j, c, a>>] = v],
             NEW s \in Symbol, NEW n \in 1 .. Attempts
      PROVE  disk'[<<k, s, n>>] = disk[<<k, s, n>>]
  BY <1>1 DEF JobTypeOK, Dataset
<1> USE DEF JobTypeOK, Go
<1>2. CASE Begin(j)
  BY <1>2 DEF Begin
<1>3. CASE NextAttempt(j) \/ Finish(j) \/ CloseAttempt(j) \/ Wake(j)
  BY <1>3 DEF NextAttempt, Finish, CloseAttempt, Wake, Raise, Meet
<1>4. CASE Connect(j)
  BY <1>4 DEF Connect, Retry, Raise, Meet
<1>5. ASSUME NEW c \in Symbol, Collect(j, c)
      PROVE  /\ pc'[k] = pc[k] /\ attempt'[k] = attempt[k] /\ pending'[k] = pending[k]
             /\ todo'[k] = todo[k] /\ current'[k] = current[k] /\ collected'[k] = collected[k]
             /\ errors'[k] = errors[k]
             /\ \A s \in Symbol, n \in 1 .. Attempts : disk'[<<k, s, n>>] = disk[<<k, s, n>>]
  <2>1. /\ pc'[k] = pc[k] /\ attempt'[k] = attempt[k] /\ pending'[k] = pending[k]
        /\ todo'[k] = todo[k] /\ current'[k] = current[k] /\ collected'[k] = collected[k]
        /\ errors'[k] = errors[k]
    BY <1>5 DEF Collect, Retry, Raise, Meet
  <2>2. disk' = disk \/ disk' = [disk EXCEPT ![<<j, c, attempt[j]>>] = "staged"]
    BY <1>5 DEF Collect
  <2>3. CASE disk' = disk
    BY <2>1, <2>3
  <2>4. CASE disk' = [disk EXCEPT ![<<j, c, attempt[j]>>] = "staged"]
    <3>1. \A s \in Symbol, n \in 1 .. Attempts : disk'[<<k, s, n>>] = disk[<<k, s, n>>]
      BY <1>1, <2>4
    <3>2. QED
      BY <2>1, <3>1
  <2>5. QED
    BY <2>2, <2>3, <2>4
<1>6. CASE Announce(j) \/ Publish(j)
  <2>1. /\ pc'[k] = pc[k] /\ attempt'[k] = attempt[k] /\ pending'[k] = pending[k]
        /\ todo'[k] = todo[k] /\ current'[k] = current[k] /\ collected'[k] = collected[k]
        /\ errors'[k] = errors[k]
    BY <1>6 DEF Announce, Publish, WriteFails, Raise, Meet
  <2>2. PICK v : disk' = [disk EXCEPT ![<<j, current[j], attempt[j]>>] = v]
    BY <1>6 DEF Announce, Publish, WriteFails, Write
  <2>3. QED
    BY <1>1, <2>1, <2>2
<1>7. CASE Go(j, "killed") /\ UNCHANGED <<attempt, pending, todo, current, collected, errors, disk>>
  BY <1>7
<1>8. QED
  BY <1>2, <1>3, <1>4, <1>5, <1>6, <1>7 DEF AnyStep, JobStep

\* Every step keeps the retry loop's bookkeeping: pending and collected
\* together are what was wanted.
LEMMA LoopAgreesStep ==
    ASSUME JobTypeOK, NEW j \in Job, LoopAgrees(j), AnyStep(j)
    PROVE  LoopAgrees(j)'
<1> USE JobConstants DEF JobTypeOK, LoopAgrees, Between, Looping, Writing, Go
<1>1. CASE Begin(j)
  BY <1>1 DEF Begin
<1>2. CASE NextAttempt(j)
  BY <1>2 DEF NextAttempt, LoopEnds
<1>3. CASE Finish(j)
  BY <1>3 DEF Finish, Raise
<1>4. CASE Connect(j)
  BY <1>4 DEF Connect, Retry, Remaining, Raise
<1>5. ASSUME NEW s \in Symbol, Collect(j, s) PROVE LoopAgrees(j)'
  BY <1>5 DEF Collect, Retry, Remaining, Raise
<1>6. CASE CloseAttempt(j)
  BY <1>6 DEF CloseAttempt
<1>7. CASE Announce(j)
  BY <1>7 DEF Announce, WriteFails, Raise
<1>8. CASE Publish(j)
  BY <1>8 DEF Publish, WriteFails, Raise
<1>9. CASE Wake(j)
  BY <1>9 DEF Wake
<1>10. CASE Go(j, "killed") /\ UNCHANGED <<attempt, pending, todo, current, collected, errors, disk>>
  BY <1>10
<1>11. QED
  BY <1>1, <1>2, <1>3, <1>4, <1>5, <1>6, <1>7, <1>8, <1>9, <1>10 DEF AnyStep, JobStep

\* The dataset one write names, with what the write leaves there.
Overwrites(j, c, a, v) == disk' = [disk EXCEPT ![<<j, c, a>>] = v]

\* A write changes the dataset it names and no other.
LEMMA WriteIsLocal ==
    ASSUME JobTypeOK, NEW j \in Job, NEW c \in Symbol, NEW a \in 1 .. Attempts,
           NEW v, Overwrites(j, c, a, v)
    PROVE  /\ disk'[<<j, c, a>>] = v
           /\ \A s \in Symbol, n \in 1 .. Attempts :
                 s # c \/ n # a => disk'[<<j, s, n>>] = disk[<<j, s, n>>]
  BY DEF JobTypeOK, Dataset, Overwrites

\* A write that publishes nothing, over a dataset that was not published,
\* leaves what is published as it was.
LEMMA WriteUnpublished ==
    ASSUME JobTypeOK, NEW j \in Job, NEW c \in Symbol, NEW a \in 1 .. Attempts,
           NEW v, Overwrites(j, c, a, v),
           v # "published", disk[<<j, c, a>>] # "published"
    PROVE  \A s \in Symbol : Published(j, s)' = Published(j, s)
<1>1. /\ disk'[<<j, c, a>>] = v
      /\ \A s \in Symbol, n \in 1 .. Attempts :
            s # c \/ n # a => disk'[<<j, s, n>>] = disk[<<j, s, n>>]
  BY WriteIsLocal
<1>2. ASSUME NEW s \in Symbol, NEW n \in 1 .. Attempts
      PROVE  disk'[<<j, s, n>>] = "published" <=> disk[<<j, s, n>>] = "published"
  BY <1>1
<1>3. QED
  BY <1>2 DEF Published

\* A publishing write adds the dataset it names, and nothing else.
LEMMA WritePublished ==
    ASSUME JobTypeOK, NEW j \in Job, NEW c \in Symbol, NEW a \in 1 .. Attempts,
           Overwrites(j, c, a, "published")
    PROVE  /\ Published(j, c)' = Published(j, c) \cup {a}
           /\ \A s \in Symbol : s # c => Published(j, s)' = Published(j, s)
<1>1. /\ disk'[<<j, c, a>>] = "published"
      /\ \A s \in Symbol, n \in 1 .. Attempts :
            s # c \/ n # a => disk'[<<j, s, n>>] = disk[<<j, s, n>>]
  BY WriteIsLocal
<1>2. QED
  BY <1>1 DEF Published

\* A step that writes nothing and collects nothing keeps the agreement, as
\* long as it does not leave a write unfinished.
LEMMA DiskUntouched ==
    ASSUME NEW j \in Job, DiskAgrees(j), disk' = disk, collected' = collected,
           pc'[j] = "killed" \/ (~Writing(j) /\ pc[j] # "killed")
    PROVE  DiskAgrees(j)'
  BY DEF DiskAgrees, Published, Writing

\* Every step keeps the disk and `collected` in agreement.
LEMMA DiskAgreesStep ==
    ASSUME JobTypeOK, NEW j \in Job, JobInv(j), AnyStep(j)
    PROVE  DiskAgrees(j)'
<1> USE DEF Go, JobInv
<1>1. CASE Begin(j)
  BY <1>1, DiskUntouched DEF Begin, Writing
<1>2. CASE NextAttempt(j)
  BY <1>2, DiskUntouched DEF NextAttempt, Writing
<1>3. CASE Finish(j)
  BY <1>3, DiskUntouched DEF Finish, Writing
<1>4. CASE Connect(j)
  BY <1>4, DiskUntouched DEF Connect, Writing
<1>5. ASSUME NEW s \in Symbol, Collect(j, s) PROVE DiskAgrees(j)'
  <2>1. CASE UNCHANGED disk
    BY <1>5, <2>1, DiskUntouched DEF Collect, Writing
  <2>2. CASE /\ Go(j, "staged")
             /\ todo' = [todo EXCEPT ![j] = @ \ {s}]
             /\ current' = [current EXCEPT ![j] = s]
             /\ disk' = [disk EXCEPT ![<<j, s, attempt[j]>>] = "staged"]
    <3>1. /\ attempt[j] \in 1 .. Attempts /\ s \notin collected[j] /\ ~Writing(j)
          /\ pc[j] # "killed" /\ collected' = collected /\ attempt' = attempt
      BY <1>5 DEF Collect, LoopAgrees, Looping, Writing
    <3>2. Published(j, s) = {}
      BY <3>1 DEF DiskAgrees
    <3>3. disk[<<j, s, attempt[j]>>] # "published"
      BY <3>1, <3>2 DEF Published
    <3>4. Overwrites(j, s, attempt[j], "staged")
      BY <2>2 DEF Overwrites
    <3>5. \A q \in Symbol : Published(j, q)' = Published(j, q)
      BY <3>1, <3>3, <3>4, WriteUnpublished
    <3>6. \A q \in Symbol, n \in 1 .. Attempts :
            q # s \/ n # attempt[j] => disk'[<<j, q, n>>] = disk[<<j, q, n>>]
      BY <3>1, <3>4, WriteIsLocal, ZenonT(60)
    <3>7. Writing(j)' /\ current'[j] = s /\ attempt'[j] = attempt[j]
      BY <2>2, <3>1 DEF JobTypeOK, Writing
    <3>8. \A q \in Symbol, n \in 1 .. Attempts :
            disk'[<<j, q, n>>] \in {"staged", "announced"} => q = s /\ n = attempt[j]
      BY <3>1, <3>6 DEF DiskAgrees
    <3>9. QED
      BY <3>1, <3>5, <3>7, <3>8 DEF DiskAgrees
  <2>3. QED
    BY <1>5, <2>1, <2>2 DEF Collect
<1>6. CASE CloseAttempt(j)
  BY <1>6, DiskUntouched DEF CloseAttempt, Writing
<1>7. ASSUME NEW v, NEW c, NEW a, c = current[j], a = attempt[j],
             Overwrites(j, c, a, v), Writing(j),
             UNCHANGED <<attempt, current>>,
             \/ v = "announced" /\ Go(j, "announced") /\ UNCHANGED collected
             \/ v = "absent" /\ UNCHANGED collected
             \/ /\ v = "published"
                /\ collected' = [collected EXCEPT ![j] = @ \cup {c}]
      PROVE  DiskAgrees(j)'
  <2>1. c \in Symbol /\ a \in 1 .. Attempts /\ c \notin collected[j]
    BY <1>7, JobConstants DEF LoopAgrees, Writing, Looping
  <2>2. Published(j, c) = {}
    BY <2>1 DEF DiskAgrees
  <2>3. disk[<<j, c, a>>] # "published"
    BY <2>1, <2>2 DEF Published
  <2>4. /\ disk'[<<j, c, a>>] = v
        /\ \A q \in Symbol, n \in 1 .. Attempts :
              q # c \/ n # a => disk'[<<j, q, n>>] = disk[<<j, q, n>>]
    BY <1>7, <2>1, WriteIsLocal
  <2>5. \A q \in Symbol, n \in 1 .. Attempts :
          disk'[<<j, q, n>>] \in {"staged", "announced"} =>
              q = c /\ n = a /\ v \in {"staged", "announced"}
    BY <1>7, <2>1, <2>4 DEF DiskAgrees, Writing
  <2>6. CASE v # "published" /\ UNCHANGED collected
    <3>1. \A q \in Symbol : Published(j, q)' = Published(j, q)
      BY <1>7, <2>1, <2>3, <2>6, WriteUnpublished
    <3>2. v = "announced" => Writing(j)'
      BY <1>7 DEF JobTypeOK, Writing
    <3>3. \A q \in Symbol, n \in 1 .. Attempts :
            disk'[<<j, q, n>>] \in {"staged", "announced"} =>
                Writing(j)' /\ q = current'[j] /\ n = attempt'[j]
      BY <1>7, <2>5, <3>2
    <3>4. QED
      BY <2>6, <3>1, <3>3 DEF DiskAgrees
  <2>7. CASE v = "published" /\ collected' = [collected EXCEPT ![j] = @ \cup {c}]
    <3>1. /\ Published(j, c)' = {a}
          /\ \A q \in Symbol : q # c => Published(j, q)' = Published(j, q)
      <4>1. Overwrites(j, c, a, "published")
        BY <1>7, <2>7
      <4>2. QED
        BY <2>1, <2>2, <4>1, WritePublished
    <3>2. collected'[j] = collected[j] \cup {c}
      BY <2>7 DEF JobTypeOK
    <3>3. \A q \in Symbol, n \in 1 .. Attempts :
            disk'[<<j, q, n>>] \notin {"staged", "announced"}
      BY <2>5, <2>7
    <3>4. ASSUME NEW q \in Symbol
          PROVE  /\ Published(j, q)' # {} <=> q \in collected'[j]
                 /\ \A m, n \in Published(j, q)' : m = n
      <4>1. CASE q = c
        BY <3>1, <3>2, <4>1
      <4>2. CASE q # c
        BY <3>1, <3>2, <4>2 DEF DiskAgrees
      <4>3. QED
        BY <4>1, <4>2
    <3>5. QED
      BY <3>3, <3>4 DEF DiskAgrees
  <2>8. QED
    BY <1>7, <2>6, <2>7
<1>a. CASE Announce(j)
  BY <1>a, <1>7 DEF Announce, WriteFails, Write, Overwrites, Writing
<1>b. CASE Publish(j)
  BY <1>b, <1>7 DEF Publish, WriteFails, Write, Overwrites, Writing
<1>8. CASE Wake(j)
  BY <1>8, DiskUntouched DEF Wake, Writing
<1>9. CASE Go(j, "killed") /\ UNCHANGED <<attempt, pending, todo, current, collected, errors, disk>>
  BY <1>9, DiskUntouched DEF JobTypeOK
<1>10. QED
  BY <1>1, <1>2, <1>3, <1>4, <1>5, <1>6, <1>a, <1>b, <1>8, <1>9 DEF AnyStep, JobStep

\* One job's step keeps the invariant of every job.
LEMMA JobInvStep ==
    ASSUME JobTypeOK, NEW j \in Job, \A k \in Job : JobInv(k), AnyStep(j)
    PROVE  JobTypeOK' /\ \A k \in Job : JobInv(k)'
<1>1. JobTypeOK'
  BY JobTypeStep DEF AnyStep, JobInv
<1>2. JobInv(j)'
  BY LoopAgreesStep, DiskAgreesStep DEF JobInv
<1>3. ASSUME NEW k \in Job, k # j PROVE JobInv(k)'
  <2>1. LoopAgrees(k)'
    BY <1>3, StepIsLocal DEF JobInv, LoopAgrees, Between, Looping, Writing
  <2>2. \A s \in Symbol : Published(k, s)' = Published(k, s)
    BY <1>3, StepIsLocal DEF Published
  <2>3. DiskAgrees(k)'
    BY <1>3, <2>2, StepIsLocal DEF JobInv, DiskAgrees, Writing
  <2>4. QED
    BY <2>1, <2>3 DEF JobInv
<1>4. QED
  BY <1>1, <1>2, <1>3

\* Only a job that is running makes a job's step.
LEMMA JobStepWorks ==
    ASSUME NEW j \in Job, JobStep(j)
    PROVE  pc[j] \in Working
  BY DEF JobStep, NextAttempt, Finish, Connect, CloseAttempt, Collect, Announce, Publish,
         Wake, Working

-----------------------------------------------------------------------------
(* Errors and attempts                                                     *)

Raisable == Verdict \cup {"MT5ConnectionError", "ParallelCollectionError"}
Attempting(j) == pc[j] \in {"connect", "symbol", "staged", "announced"}

\* An attempt under way has met no error yet, every earlier one met at most
\* one, and only the error that ended the job is not a connection error.
ErrorsAgree(j) ==
    /\ Len(errors[j]) <= attempt[j]
    /\ Attempting(j) => Len(errors[j]) < attempt[j]
    /\ pc[j] = "failed" => Len(errors[j]) > 0
    /\ \A k \in 1 .. Len(errors[j]) :
          errors[j][k] # "MT5ConnectionError" => k = Len(errors[j]) /\ pc[j] \in Ended

\* A job that has not begun has met no error.
LEMMA InitErrors == ASSUME InitJobs, NEW j \in Job PROVE ErrorsAgree(j)
  BY DEF InitJobs, ErrorsAgree, Attempting

\* What `errors` holds after one more error.
LEMMA MeetAppends ==
    ASSUME JobTypeOK, NEW j \in Job, NEW e \in Raisable, Meet(j, e)
    PROVE  /\ Len(errors[j]) \in Nat
           /\ Len(errors'[j]) = Len(errors[j]) + 1
           /\ \A k \in 1 .. Len(errors[j]) : errors'[j][k] = errors[j][k]
           /\ errors'[j][Len(errors[j]) + 1] = e
<1>1. errors[j] \in Seq(Raisable) /\ errors'[j] = Append(errors[j], e)
  BY DEF JobTypeOK, Raisable, Meet
<1>2. QED
  BY <1>1

\* The last error of a job that met one is an exception the job can raise.
LEMMA LastError ==
    ASSUME JobTypeOK, NEW j \in Job, Len(errors[j]) > 0
    PROVE  errors[j][Len(errors[j])] \in Raisable
<1>1. errors[j] \in Seq(Raisable)
  BY DEF JobTypeOK, Raisable
<1>2. \A s \in Seq(Raisable) : Len(s) > 0 => s[Len(s)] \in Raisable
  OBVIOUS
<1>3. QED
  BY <1>1, <1>2

\* A job's step, its death included, keeps its errors and its attempts in
\* agreement.
LEMMA ErrorsStep ==
    ASSUME JobTypeOK, NEW j \in Job, LoopAgrees(j), ErrorsAgree(j), AnyStep(j)
    PROVE  ErrorsAgree(j)'
<1>0. Len(errors[j]) \in Nat /\ attempt[j] \in 0 .. Attempts /\ Attempts \in Nat
  BY JobConstants DEF JobTypeOK
<1>a. ASSUME Meet(j, "MT5ConnectionError"), Attempting(j), attempt' = attempt,
             pc'[j] \in {"sleep", "failed"}
      PROVE  ErrorsAgree(j)'
  <2>1. /\ Len(errors[j]) < attempt[j] /\ Len(errors'[j]) = Len(errors[j]) + 1
        /\ Len(errors[j]) \in Nat /\ ~Attempting(j)' /\ attempt'[j] = attempt[j]
        /\ \A k \in 1 .. Len(errors[j]) : errors'[j][k] = errors[j][k]
        /\ errors'[j][Len(errors[j]) + 1] = "MT5ConnectionError"
    BY <1>a, MeetAppends DEF ErrorsAgree, Raisable, Attempting
  <2>2. \A k \in 1 .. Len(errors'[j]) : k # Len(errors[j]) + 1 => k \in 1 .. Len(errors[j])
    BY <2>1
  <2>3. QED
    BY <1>0, <1>a, <2>1, <2>2 DEF ErrorsAgree, Attempting, Ended
<1>b. ASSUME NEW e \in Raisable, Raise(j, e), Attempting(j), attempt' = attempt
      PROVE  ErrorsAgree(j)'
  <2>1. Meet(j, e) /\ pc'[j] = "failed"
    BY <1>b DEF Raise, Go, JobTypeOK
  <2>2. QED
    BY <1>0, <1>b, <2>1, MeetAppends DEF ErrorsAgree, Attempting, Ended
<1>c. ASSUME Retry(j), Attempting(j), attempt' = attempt PROVE ErrorsAgree(j)'
  BY <1>a, <1>c DEF Retry, Go, JobTypeOK
<1>d. ASSUME UNCHANGED <<errors, attempt>>, pc[j] \notin Ended, pc'[j] # "failed",
             Attempting(j)' => Attempting(j)
      PROVE  ErrorsAgree(j)'
  BY <1>d DEF ErrorsAgree
<1>e. "OSError" \in Raisable /\ "DemoSafetyError" \in Raisable /\ Verdict \subseteq Raisable
  BY DEF Raisable, Verdict
<1> USE DEF Go, Attempting
<1>1. CASE Begin(j) \/ CloseAttempt(j) \/ Wake(j)
  BY <1>1, <1>d DEF Begin, CloseAttempt, Wake, JobTypeOK, Ended
<1>2. CASE NextAttempt(j)
  <2>1. errors' = errors /\ attempt'[j] = attempt[j] + 1 /\ pc[j] = "loop" /\ pc'[j] = "connect"
    BY <1>2 DEF NextAttempt, JobTypeOK
  <2>2. QED
    BY <1>0, <2>1 DEF ErrorsAgree, Ended
<1>3. CASE Finish(j)
  <2>1. pending[j] = {}
    BY <1>3, JobConstants DEF LoopAgrees, LoopEnds, Finish
  <2>2. collected[j] = Wanted[j]
    BY <2>1 DEF LoopAgrees
  <2>3. QED
    BY <1>3, <2>2, <1>d DEF Finish, JobTypeOK, Ended
<1>4. CASE Connect(j)
  BY <1>4, <1>b, <1>c, <1>d, <1>e DEF Connect, JobTypeOK, Ended
<1>5. ASSUME NEW s \in Symbol, Collect(j, s) PROVE ErrorsAgree(j)'
  BY <1>5, <1>b, <1>c, <1>d, <1>e DEF Collect, JobTypeOK, Ended
<1>6. CASE Announce(j) \/ Publish(j)
  BY <1>6, <1>b, <1>d, <1>e DEF Announce, Publish, WriteFails, JobTypeOK, Ended
<1>7. CASE Go(j, "killed") /\ UNCHANGED <<attempt, pending, todo, current, collected, errors, disk>>
  BY <1>7 DEF ErrorsAgree, JobTypeOK, Ended
<1>8. QED
  BY <1>1, <1>2, <1>3, <1>4, <1>5, <1>6, <1>7 DEF AnyStep, JobStep

\* The errors of every job agree after one job's step.
LEMMA AllErrorsStep ==
    ASSUME JobTypeOK, NEW j \in Job, \A k \in Job : LoopAgrees(k) /\ ErrorsAgree(k), AnyStep(j)
    PROVE  \A k \in Job : ErrorsAgree(k)'
<1>1. ErrorsAgree(j)'
  BY ErrorsStep
<1>2. ASSUME NEW k \in Job, k # j PROVE ErrorsAgree(k)'
  <2>1. pc'[k] = pc[k] /\ attempt'[k] = attempt[k] /\ errors'[k] = errors[k]
    BY <1>2, StepIsLocal
  <2>2. QED
    BY <2>1 DEF ErrorsAgree, Attempting
<1>3. QED
  BY <1>1, <1>2

\* Only a connection error is followed by another attempt.
LEMMA OnlyConnections ==
    ASSUME \A j \in Job : ErrorsAgree(j)
    PROVE  OnlyConnectionErrorsAreRetried
  BY DEF ErrorsAgree, OnlyConnectionErrorsAreRetried

-----------------------------------------------------------------------------
(* The pool and the coordinator                                            *)

\* A future holds what its job did, and an executor that is not broken has
\* abandoned no job.
FuturesAgree(j) ==
    /\ future[j] = "result" => pc[j] = "returned"
    /\ ~broken /\ future[j] # "pending" => pc[j] \in {"returned", "failed"}
    /\ IsHandled(j) => future[j] # "pending"
    /\ pc[j] = "failed" => Len(errors[j]) > 0
    /\ ~MayDie => ~broken /\ pc[j] # "killed"

\* What the answer said when it was given is still so.
AnswerAgrees ==
    Answered =>
        /\ Running = {}
        /\ \A j \in Job : IsHandled(j)
        /\ outcome.kind = "batches" =>
              outcome.completed = Job /\ \A j \in Job : future[j] = "result"
        /\ (\E j \in Job : future[j] = "DemoSafetyError") =>
              /\ outcome.kind = "DemoSafetyError"
              /\ \A j \in outcome.named : future[j] = "DemoSafetyError"

IInv ==
    /\ TypeOK
    /\ \A j \in Job : JobInv(j)
    /\ \A j \in Job : FuturesAgree(j)
    /\ AnswerAgrees

\* A job that fails has an error to raise.
LEMMA FailureHasError ==
    ASSUME JobTypeOK, NEW j \in Job, AnyStep(j), FuturesAgree(j)
    PROVE  pc'[j] = "failed" => Len(errors'[j]) > 0
<1> DEFINE Error == Verdict \cup {"MT5ConnectionError", "ParallelCollectionError"}
<1>1. ASSUME NEW e, Meet(j, e) PROVE Len(errors'[j]) > 0
  <2>1. errors \in [Job -> Seq(Error)] /\ errors'[j] = Append(errors[j], e)
    BY <1>1 DEF JobTypeOK, Meet
  <2>2. errors[j] \in Seq(Error)
    BY <2>1
  <2>3. Len(errors[j]) \in Nat /\ Len(errors'[j]) = Len(errors[j]) + 1
    BY <2>1, <2>2
  <2>4. QED
    BY <2>3
<1> USE DEF JobTypeOK, FuturesAgree, Go
<1>2. CASE Begin(j) \/ NextAttempt(j) \/ CloseAttempt(j) \/ Wake(j)
  BY <1>2 DEF Begin, NextAttempt, CloseAttempt, Wake
<1>3. CASE Finish(j)
  BY <1>1, <1>3 DEF Finish, Raise
<1>4. CASE Connect(j)
  BY <1>1, <1>4 DEF Connect, Retry, Raise
<1>5. CASE \E s \in Symbol : Collect(j, s)
  BY <1>1, <1>5 DEF Collect, Retry, Raise
<1>6. CASE Announce(j) \/ Publish(j)
  BY <1>1, <1>6 DEF Announce, Publish, WriteFails, Raise
<1>7. CASE Go(j, "killed") /\ UNCHANGED <<attempt, pending, todo, current, collected, errors, disk>>
  BY <1>7
<1>8. QED
  BY <1>2, <1>3, <1>4, <1>5, <1>6, <1>7 DEF AnyStep, JobStep

\* The invariant holds before anything is submitted to the pool.
LEMMA InitIInv == Init => IInv
<1> SUFFICES ASSUME Init PROVE IInv
  OBVIOUS
<1>1. InitJobs /\ future = [j \in Job |-> "pending"] /\ handled = <<>> /\ outcome = NoOutcome
      /\ broken = FALSE
  BY DEF Init
<1>2. \A j \in Job : JobTypeOK /\ JobInv(j)
  BY <1>1, InitJobInv
<1>3. JobTypeOK
  BY <1>2, PoolConstants
<1>4. TypeOK
  <2>1. handled \in Seq(Job)
    BY <1>1
  <2>2. future \in [Job -> Future]
    BY <1>1 DEF Future
  <2>3. QED
    BY <1>1, <1>3, <2>1, <2>2 DEF TypeOK
<1>5. ASSUME NEW j \in Job PROVE FuturesAgree(j)
  <2>1. pc[j] = "idle" /\ future[j] = "pending" /\ ~broken
    BY <1>1 DEF InitJobs
  <2>2. ~IsHandled(j)
    BY <1>1 DEF IsHandled
  <2>3. QED
    BY <2>1, <2>2 DEF FuturesAgree
<1>6. AnswerAgrees
  BY <1>1 DEF AnswerAgrees, Answered
<1>7. QED
  BY <1>2, <1>4, <1>5, <1>6 DEF IInv

\* A step of a running or starting job: the run has not answered yet.
LEMMA WorkStep ==
    ASSUME IInv, NEW j \in Job, Start(j) \/ Work(j)
    PROVE  IInv'
<1>1. AnyStep(j) /\ UNCHANGED poolVars
  BY DEF Start, Work, AnyStep
<1>2. JobTypeOK' /\ \A k \in Job : JobInv(k)'
  BY <1>1, JobInvStep DEF IInv, TypeOK
<1>3. TypeOK'
  BY <1>1, <1>2 DEF IInv, TypeOK, poolVars
<1>4. pc[j] \in Working \/ (pc[j] = "idle" /\ ~broken)
  BY JobStepWorks DEF Start, Begin, Work
<1>5. ~Answered
  <2>1. CASE pc[j] \in Working
    BY <2>1 DEF IInv, AnswerAgrees, Running
  <2>2. CASE pc[j] = "idle" /\ ~broken
    BY <2>2 DEF IInv, AnswerAgrees, FuturesAgree
  <2>3. QED
    BY <1>4, <2>1, <2>2
<1>6. AnswerAgrees'
  BY <1>1, <1>5 DEF AnswerAgrees, Answered, poolVars
<1>7. \A k \in Job : IsHandled(k)' <=> IsHandled(k)
  BY <1>1 DEF IsHandled, poolVars
<1>8. FuturesAgree(j)'
  <2>1. pc'[j] = "failed" => Len(errors'[j]) > 0
    BY <1>1, FailureHasError DEF IInv, TypeOK
  <2>2. pc'[j] # "killed"
    BY DEF Start, Work, Begin, JobStep, NextAttempt, Finish, Connect, CloseAttempt, Collect,
           Announce, Publish, WriteFails, Wake, Retry, Raise, Go, IInv, TypeOK, JobTypeOK
  <2>3. future'[j] = future[j] /\ broken' = broken /\ IsHandled(j)' = IsHandled(j)
    BY <1>1 DEF poolVars, IsHandled
  <2>4. QED
    BY <1>4, <2>1, <2>2, <2>3 DEF IInv, FuturesAgree, Working
<1>9. ASSUME NEW k \in Job, k # j PROVE FuturesAgree(k)'
  <2>1. pc'[k] = pc[k] /\ errors'[k] = errors[k]
    BY <1>1, <1>9, StepIsLocal DEF IInv, TypeOK
  <2>2. future'[k] = future[k] /\ broken' = broken /\ IsHandled(k)' = IsHandled(k)
    BY <1>1 DEF poolVars, IsHandled
  <2>3. QED
    BY <2>1, <2>2 DEF IInv, FuturesAgree
<1>10. QED
  BY <1>2, <1>3, <1>6, <1>8, <1>9 DEF IInv

\* A worker dies, or is terminated with the broken pool.
LEMMA DeathStep ==
    ASSUME IInv, NEW j \in Job, WorkerDies(j) \/ Terminate(j)
    PROVE  IInv'
<1>1. /\ AnyStep(j) /\ Go(j, "killed") /\ j \in Running /\ UNCHANGED <<errors, handled, outcome>>
      /\ (broken' = TRUE /\ MayDie) \/ (broken /\ broken' = broken)
  BY DEF WorkerDies, Terminate, AnyStep, poolVars
<1>2. JobTypeOK' /\ \A k \in Job : JobInv(k)'
  BY <1>1, JobInvStep DEF IInv, TypeOK
<1>3. ~Answered
  BY <1>1 DEF IInv, AnswerAgrees
<1>4. AnswerAgrees'
  BY <1>1, <1>3 DEF AnswerAgrees, Answered
<1>5. \A k \in Job : future'[k] = future[k] \/ (future[k] = "pending" /\ future'[k] = "BrokenProcessPool")
  BY DEF WorkerDies, Terminate, poolVars
<1>6. TypeOK'
  <2>1. future' \in [Job -> Future]
    BY DEF IInv, TypeOK, WorkerDies, Terminate, poolVars, Future
  <2>2. QED
    BY <1>1, <1>2, <2>1 DEF IInv, TypeOK
<1>7. ASSUME NEW k \in Job PROVE FuturesAgree(k)'
  <2>1. IsHandled(k)' <=> IsHandled(k)
    BY <1>1 DEF IsHandled
  <2>2. broken' /\ MayDie
    BY <1>1, PoolConstants DEF IInv, FuturesAgree, TypeOK
  <2>3. pc'[k] = IF k = j THEN "killed" ELSE pc[k]
    BY <1>1 DEF Go, IInv, TypeOK, JobTypeOK
  <2>4. future[j] # "result"
    BY <1>1 DEF IInv, FuturesAgree, Running, Working
  <2>5. QED
    BY <1>1, <1>5, <2>1, <2>2, <2>3, <2>4 DEF IInv, FuturesAgree
<1>8. QED
  BY <1>2, <1>4, <1>6, <1>7 DEF IInv

\* A job's variables do not change: neither does what is known of the job.
LEMMA JobsUntouched ==
    ASSUME IInv, UNCHANGED jobVars
    PROVE  JobTypeOK' /\ (\A k \in Job : JobInv(k)') /\ Running' = Running
<1>1. JobTypeOK'
  BY DEF IInv, TypeOK, JobTypeOK, jobVars
<1>2. Running' = Running
  BY DEF Running, jobVars
<1>3. ASSUME NEW k \in Job PROVE JobInv(k)'
  <2>1. JobInv(k)
    BY DEF IInv
  <2>2. QED
    BY <2>1 DEF JobInv, DiskAgrees, LoopAgrees, Published, Writing, Between, Looping, jobVars
<1>4. QED
  BY <1>1, <1>2, <1>3

\* Delivering a finished job's outcome keeps the invariant.
LEMMA DeliverStep ==
    ASSUME IInv, NEW j \in Job, Deliver(j)
    PROVE  IInv'
<1>1. JobTypeOK' /\ (\A k \in Job : JobInv(k)') /\ Running' = Running
  BY JobsUntouched DEF Deliver
<1>2. pc[j] = "failed" => errors[j][Len(errors[j])] \in Future
  <2> DEFINE Error == Verdict \cup {"MT5ConnectionError", "ParallelCollectionError"}
  <2>1. errors[j] \in Seq(Error) /\ (pc[j] = "failed" => Len(errors[j]) > 0)
    BY DEF IInv, TypeOK, JobTypeOK, FuturesAgree
  <2>2. \A s \in Seq(Error) : Len(s) > 0 => s[Len(s)] \in Error
    OBVIOUS
  <2>3. pc[j] = "failed" => errors[j][Len(errors[j])] \in Error
    BY <2>1, <2>2
  <2>4. QED
    BY <2>3 DEF Future
<1>3. TypeOK'
  BY <1>1, <1>2 DEF IInv, TypeOK, Deliver, Future
<1>4. ~Answered
  BY DEF IInv, AnswerAgrees, FuturesAgree, Deliver
<1>5. AnswerAgrees'
  BY <1>4 DEF AnswerAgrees, Answered, Deliver
<1>6. ASSUME NEW k \in Job PROVE FuturesAgree(k)'
  <2>1. IsHandled(k)' <=> IsHandled(k)
    BY DEF IsHandled, Deliver
  <2>2. CASE k # j
    BY <2>1, <2>2 DEF IInv, TypeOK, FuturesAgree, Deliver, jobVars
  <2>3. CASE k = j
    <3>1. ~IsHandled(j) /\ pc[j] \in {"returned", "failed"}
      BY DEF IInv, FuturesAgree, Deliver
    <3>2. pc[j] = "failed" => future'[j] \in Verdict \cup {"MT5ConnectionError", "ParallelCollectionError"}
      <4> DEFINE Error == Verdict \cup {"MT5ConnectionError", "ParallelCollectionError"}
      <4>1. errors[j] \in Seq(Error) /\ (pc[j] = "failed" => Len(errors[j]) > 0)
        BY DEF IInv, TypeOK, JobTypeOK, FuturesAgree
      <4>2. \A s \in Seq(Error) : Len(s) > 0 => s[Len(s)] \in Error
        OBVIOUS
      <4>3. pc[j] = "failed" => future'[j] = errors[j][Len(errors[j])]
        BY DEF Deliver, IInv, TypeOK
      <4>4. QED
        BY <4>1, <4>2, <4>3
    <3>3. pc[j] = "failed" => future'[j] # "result"
      BY <3>2 DEF Verdict
    <3>4. QED
      BY <2>1, <2>3, <3>1, <3>3 DEF IInv, FuturesAgree, Deliver, jobVars
  <2>4. QED
    BY <2>2, <2>3
<1>7. QED
  BY <1>1, <1>3, <1>5, <1>6 DEF IInv

\* So does the coordinator's taking a completed future.
LEMMA HandleStep ==
    ASSUME IInv, NEW j \in Job, Handle(j)
    PROVE  IInv'
<1>1. JobTypeOK' /\ (\A k \in Job : JobInv(k)') /\ Running' = Running
  BY JobsUntouched DEF Handle
<1>2. handled \in Seq(Job) /\ handled' = Append(handled, j)
  BY DEF IInv, TypeOK, Handle
<1>3. TypeOK'
  <2>1. handled' \in Seq(Job)
    BY <1>2
  <2>2. QED
    BY <1>1, <2>1 DEF IInv, TypeOK, Handle
<1>4. ~Answered
  BY DEF IInv, AnswerAgrees, Handle
<1>5. AnswerAgrees'
  BY <1>4 DEF AnswerAgrees, Answered, Handle
<1>6. ASSUME NEW k \in Job PROVE FuturesAgree(k)'
  <2>1. IsHandled(k)' => IsHandled(k) \/ k = j
    <3>1. \A i \in 1 .. Len(handled') :
             handled'[i] = j \/ (i \in 1 .. Len(handled) /\ handled'[i] = handled[i])
      BY <1>2
    <3>2. QED
      BY <3>1 DEF IsHandled
  <2>2. QED
    BY <2>1 DEF IInv, FuturesAgree, Handle, jobVars
<1>7. QED
  BY <1>1, <1>3, <1>5, <1>6 DEF IInv

\* So does the answer, which is what the futures say at that time.
LEMMA ReportStep ==
    ASSUME IInv, Report
    PROVE  IInv'
<1>1. JobTypeOK' /\ (\A k \in Job : JobInv(k)') /\ Running' = Running
  BY JobsUntouched DEF Report
<1>2. \A k \in 1 .. Len(handled) : handled[k] \in Job
  BY DEF IInv, TypeOK
<1>3. Answer \in Outcome
  <2>1. Results \in SUBSET Job /\ {handled[k] : k \in FirstRefused} \in SUBSET Job
        /\ {handled[k] : k \in FailedAt} \in SUBSET Job
    BY <1>2 DEF Results, FirstRefused, RefusedAt, FailedAt
  <2>2. QED
    BY <2>1 DEF Answer, Outcome
<1>4. TypeOK'
  BY <1>1, <1>3 DEF IInv, TypeOK, Report
<1>5. \A k \in Job : FuturesAgree(k)'
  BY DEF IInv, FuturesAgree, IsHandled, Report, jobVars
<1>6. Running' = {} /\ \A k \in Job : IsHandled(k)'
  BY <1>1 DEF Report, Drained, IsHandled
<1>7. FailedAt = {} => \A k \in Job : future[k] = "result"
  BY DEF FailedAt, Report, IsHandled
<1>8. (\E k \in Job : future[k] = "DemoSafetyError") => RefusedAt # {} /\ FailedAt # {}
  BY DEF FailedAt, RefusedAt, Report, IsHandled
<1>9. \A k \in FirstRefused : future[handled[k]] = "DemoSafetyError"
  BY DEF FirstRefused, RefusedAt
<1>10. Answer.kind = "batches" => Answer.completed = Job /\ \A k \in Job : future[k] = "result"
  BY <1>7 DEF Answer, Results
<1>11. (\E k \in Job : future[k] = "DemoSafetyError") =>
          /\ Answer.kind = "DemoSafetyError"
          /\ \A k \in Answer.named : future[k] = "DemoSafetyError"
  BY <1>8, <1>9 DEF Answer
<1>12. AnswerAgrees'
  BY <1>6, <1>10, <1>11 DEF AnswerAgrees, Report
<1>13. QED
  BY <1>1, <1>4, <1>5, <1>12 DEF IInv

\* Every step of the pool, its workers and the coordinator keeps the invariant.
LEMMA StepIInv == IInv /\ [Next]_vars => IInv'
<1> SUFFICES ASSUME IInv, [Next]_vars PROVE IInv'
  OBVIOUS
<1>1. CASE Next
  BY <1>1, WorkStep, DeathStep, DeliverStep, HandleStep, ReportStep DEF Next
<1>2. CASE UNCHANGED vars
  <2>1. JobTypeOK' /\ (\A k \in Job : JobInv(k)') /\ Running' = Running
    BY <1>2, JobsUntouched DEF vars
  <2>2. TypeOK'
    BY <1>2, <2>1 DEF IInv, TypeOK, vars, poolVars
  <2>3. \A k \in Job : FuturesAgree(k)'
    BY <1>2 DEF IInv, FuturesAgree, IsHandled, vars, poolVars, jobVars
  <2>4. AnswerAgrees'
    BY <1>2, <2>1 DEF IInv, AnswerAgrees, Answered, IsHandled, vars, poolVars
  <2>5. QED
    BY <2>1, <2>2, <2>3, <2>4 DEF IInv
<1>3. QED
  BY <1>1, <1>2

-----------------------------------------------------------------------------
(* The theorems                                                            *)

\* The inductive invariant holds in every reachable state.
THEOREM Invariant == Spec => []IInv
  BY InitIInv, StepIInv, PTL DEF Spec

\* Every variable of the jobs, the pool and the coordinator keeps its type.
THEOREM TypeCorrect == Spec => []TypeOK
<1>1. IInv => TypeOK
  BY DEF IInv
<1>2. QED
  BY <1>1, Invariant, PTL

\* However many attempts, profiles and dead workers: no symbol is published
\* under two dataset ids by one job.
THEOREM NoDuplicate == Spec => []WrittenOnce
<1>1. IInv => WrittenOnce
  BY DEF IInv, JobInv, DiskAgrees, WrittenOnce
<1>2. QED
  BY <1>1, Invariant, PTL

\* A job that returns published all it was asked for and left nothing staged.
THEOREM Completeness == Spec => []ReturnedIsComplete
<1>1. ASSUME IInv PROVE ReturnedIsComplete
  <2>1. SUFFICES ASSUME NEW j \in Job, pc[j] = "returned"
                 PROVE  /\ \A s \in Wanted[j] : Published(j, s) # {}
                        /\ \A s \in Symbol, n \in 1 .. Attempts :
                              disk[<<j, s, n>>] \in {"absent", "published"}
    BY DEF ReturnedIsComplete
  <2>2. DiskAgrees(j) /\ LoopAgrees(j)
    BY <1>1 DEF IInv, JobInv
  <2>3. collected[j] = Wanted[j] /\ Wanted[j] \subseteq Symbol
    BY <2>1, <2>2, JobConstants DEF LoopAgrees
  <2>4. \A s \in Symbol, n \in 1 .. Attempts :
          disk[<<j, s, n>>] \in {"absent", "staged", "announced", "published"}
    BY <1>1 DEF IInv, TypeOK, JobTypeOK, Dataset
  <2>5. \A s \in Symbol, n \in 1 .. Attempts :
          disk[<<j, s, n>>] \notin {"staged", "announced"}
    BY <2>1, <2>2 DEF DiskAgrees, Writing
  <2>6. QED
    BY <2>2, <2>3, <2>4, <2>5 DEF DiskAgrees
<1>2. QED
  BY <1>1, Invariant, PTL

\* The completeness check behind the retry loop can never fire.
THEOREM LoopIsExact == Spec => []FinalCheckIsSpare
<1>1. ASSUME IInv PROVE FinalCheckIsSpare
  <2>1. SUFFICES ASSUME NEW j \in Job, pc[j] = "loop", LoopEnds(j)
                 PROVE  collected[j] = Wanted[j]
    BY DEF FinalCheckIsSpare
  <2>2. LoopAgrees(j)
    BY <1>1 DEF IInv, JobInv
  <2>3. pending[j] = {}
    BY <2>1, <2>2, JobConstants DEF LoopAgrees, LoopEnds
  <2>4. QED
    BY <2>2, <2>3 DEF LoopAgrees
<1>2. QED
  BY <1>1, Invariant, PTL

\* The run answers only when no worker is writing any more.
THEOREM Drains == Spec => []AnswerAfterTheLastWrite
<1>1. IInv => AnswerAfterTheLastWrite
  BY DEF IInv, AnswerAgrees, FuturesAgree, AnswerAfterTheLastWrite
<1>2. QED
  BY <1>1, Invariant, PTL

\* As long as no worker process is killed, no dataset is left half-written
\* behind the answer.
THEOREM CleanDisk == ASSUME ~MayDie PROVE Spec => []NothingHalfWritten
<1>1. ASSUME IInv PROVE NothingHalfWritten
  <2>1. SUFFICES ASSUME Answered, NEW d \in Dataset
                 PROVE  disk[d] \in {"absent", "published"}
    BY DEF NothingHalfWritten
  <2>2. PICK j \in Job, s \in Symbol, n \in 1 .. Attempts : d = <<j, s, n>>
    BY DEF Dataset
  <2>3. disk[d] \in {"absent", "staged", "announced", "published"}
    BY <1>1 DEF IInv, TypeOK, JobTypeOK
  <2>4. ~Writing(j) /\ pc[j] # "killed"
    BY <1>1, <2>1 DEF IInv, AnswerAgrees, Running, Working, Writing, FuturesAgree
  <2>5. disk[d] \notin {"staged", "announced"}
    BY <1>1, <2>2, <2>4 DEF IInv, JobInv, DiskAgrees
  <2>6. QED
    BY <2>3, <2>5
<1>2. QED
  BY <1>1, Invariant, PTL

\* Batches are returned only when every job published everything it was asked
\* for, whichever workers died.
THEOREM Complete == Spec => []BatchesAreComplete
<1>1. ASSUME IInv PROVE BatchesAreComplete
  <2>1. SUFFICES ASSUME Answered, outcome.kind = "batches"
                 PROVE  /\ outcome.completed = Job
                        /\ \A j \in Job : \A s \in Wanted[j] : Published(j, s) # {}
    BY DEF BatchesAreComplete
  <2>2. outcome.completed = Job /\ \A j \in Job : pc[j] = "returned"
    BY <1>1, <2>1 DEF IInv, AnswerAgrees, FuturesAgree
  <2>3. \A j \in Job : collected[j] = Wanted[j] /\ Wanted[j] \subseteq Symbol
    BY <1>1, <2>2, JobConstants DEF IInv, JobInv, LoopAgrees
  <2>4. QED
    BY <1>1, <2>2, <2>3 DEF IInv, JobInv, DiskAgrees
<1>2. QED
  BY <1>1, Invariant, PTL

\* No verdict, refusal or failed write is ever followed by another attempt.
THEOREM OnlyRetries == Spec => []OnlyConnectionErrorsAreRetried
<1> DEFINE Errors == \A j \in Job : ErrorsAgree(j)
<1>1. Init => Errors
  BY InitErrors DEF Init
<1>2. ASSUME IInv, Errors, [Next]_vars PROVE Errors'
  <2>1. ASSUME NEW j \in Job, AnyStep(j) PROVE Errors'
    BY <1>2, <2>1, AllErrorsStep DEF IInv, TypeOK, JobInv
  <2>2. CASE UNCHANGED jobVars
    BY <1>2, <2>2 DEF ErrorsAgree, Attempting, jobVars
  <2>3. QED
    BY <1>2, <2>1, <2>2
       DEF Next, Start, Work, WorkerDies, Terminate, Deliver, Handle, Report, AnyStep, vars
<1>3. Errors => OnlyConnectionErrorsAreRetried
  BY OnlyConnections
<1> HIDE DEF Errors
<1>4. QED
  BY <1>1, <1>2, <1>3, Invariant, PTL DEF Spec

\* In whatever order the jobs complete, a safety refusal is what is reported.
THEOREM Unmasked == Spec => []RefusalIsNotMasked
<1>1. IInv => RefusalIsNotMasked
  BY DEF IInv, AnswerAgrees, RefusalIsNotMasked
<1>2. QED
  BY <1>1, Invariant, PTL

-----------------------------------------------------------------------------
(* Refinement                                                              *)

Stored == {p \in Job \X Symbol : Published(p[1], p[2]) # {}}

Given == IF ~Answered THEN "none"
         ELSE IF outcome.kind = "batches" THEN "batches" ELSE "error"

\* What is stored is what the jobs have collected.
LEMMA StoredIsCollected ==
    ASSUME IInv
    PROVE  Stored = {p \in Job \X Symbol : p[2] \in collected[p[1]]}
  BY DEF IInv, JobInv, DiskAgrees, Stored

\* The same after a step.
LEMMA StoredIsCollectedNext ==
    ASSUME IInv'
    PROVE  Stored' = {p \in Job \X Symbol : p[2] \in collected'[p[1]]}
  BY DEF IInv, JobInv, DiskAgrees, Stored

\* A step that collects nothing and answers nothing is a stutter.
LEMMA Stutter ==
    ASSUME IInv, IInv', UNCHANGED <<collected, outcome>>
    PROVE  UNCHANGED <<Stored, Given>>
<1>1. Stored = {p \in Job \X Symbol : p[2] \in collected[p[1]]}
  BY StoredIsCollected
<1>2. Stored' = {p \in Job \X Symbol : p[2] \in collected'[p[1]]}
  BY StoredIsCollectedNext
<1>3. QED
  BY <1>1, <1>2 DEF Given, Answered

\* Publishing a dataset is the abstract Store.
LEMMA PublishStores ==
    ASSUME IInv, IInv', NEW j \in Job, Publish(j), UNCHANGED outcome
    PROVE  [Promise!Next]_<<Stored, Given>>
<1>1. CASE UNCHANGED collected
  BY <1>1, Stutter
<1>2. CASE collected' = [collected EXCEPT ![j] = @ \cup {current[j]}]
  <2>1. Writing(j) /\ current[j] \in Wanted[j] /\ current[j] \notin collected[j]
        /\ Wanted[j] \subseteq Symbol
    BY JobConstants DEF IInv, JobInv, LoopAgrees, Publish, Writing
  <2>2. Stored' = Stored \cup {<<j, current[j]>>} /\ <<j, current[j]>> \notin Stored
    <3>1. Stored = {p \in Job \X Symbol : p[2] \in collected[p[1]]}
      BY StoredIsCollected
    <3>2. Stored' = {p \in Job \X Symbol : p[2] \in collected'[p[1]]}
      BY StoredIsCollectedNext
    <3>3. \A k \in Job : collected'[k] = IF k = j THEN collected[j] \cup {current[j]} ELSE collected[k]
      BY <1>2 DEF IInv, TypeOK, JobTypeOK
    <3>4. QED
      BY <2>1, <3>1, <3>2, <3>3
  <2>3. ~Answered
    BY <2>1 DEF IInv, AnswerAgrees, Running, Working, Writing
  <2>4. Given = "none" /\ Given' = Given
    BY <2>3 DEF Given, Answered
  <2>5. <<j, current[j]>> \in Promise!Everything
    BY <2>1 DEF Promise!Everything
  <2>6. QED
    BY <2>2, <2>4, <2>5 DEF Promise!Next, Promise!Store, Stored, Given
<1>3. QED
  BY <1>1, <1>2 DEF Publish, WriteFails

\* The answer given is the abstract Answer.
LEMMA ReportAnswers ==
    ASSUME IInv, IInv', Report
    PROVE  [Promise!Next]_<<Stored, Given>>
<1>1. Stored' = Stored /\ Given = "none"
  <2>1. Stored = {p \in Job \X Symbol : p[2] \in collected[p[1]]}
    BY StoredIsCollected
  <2>2. Stored' = {p \in Job \X Symbol : p[2] \in collected'[p[1]]}
    BY StoredIsCollectedNext
  <2>3. QED
    BY <2>1, <2>2 DEF Report, jobVars, Given, Answered
<1>2. CASE ~Answered'
  BY <1>1, <1>2 DEF Given
<1>3. CASE Answered' /\ Given' = "error"
  BY <1>1, <1>3 DEF Promise!Next, Promise!Answer, Stored, Given
<1>4. CASE Answered' /\ Given' = "batches"
  <2>1. \A j \in Job : pc'[j] = "returned"
    BY <1>4 DEF IInv, AnswerAgrees, FuturesAgree, Given
  <2>2. \A j \in Job : collected[j] = Wanted[j]
    BY <2>1 DEF IInv, JobInv, LoopAgrees, Report, jobVars
  <2>3. Stored = Promise!Everything
    BY <2>2, StoredIsCollected DEF Promise!Everything
  <2>4. QED
    BY <1>1, <1>4, <2>3 DEF Promise!Next, Promise!Answer, Stored, Given
<1>5. QED
  BY <1>2, <1>3, <1>4 DEF Given

\* The run implements CollectionPromise: whatever the interleaving, datasets
\* appear one by one, the answer comes once, and batches mean everything.
THEOREM Refinement == Spec => KeepsThePromise
<1>1. Init => Stored = {} /\ Given = "none"
  <2>1. Init => IInv /\ \A j \in Job : collected[j] = {}
    BY InitIInv DEF Init, InitJobs
  <2>2. QED
    BY <2>1, StoredIsCollected DEF Given, Answered, Init
<1>2. ASSUME IInv, IInv', [Next]_vars
      PROVE  [Promise!Next]_<<Stored, Given>>
  <2>1. CASE UNCHANGED <<collected, outcome>>
    BY <1>2, <2>1, Stutter
  <2>2. CASE Report
    BY <1>2, <2>2, ReportAnswers
  <2>3. ASSUME NEW j \in Job, Publish(j), UNCHANGED outcome
        PROVE  [Promise!Next]_<<Stored, Given>>
    BY <1>2, <2>3, PublishStores
  <2>4. QED
    BY <1>2, <2>1, <2>2, <2>3
       DEF Next, Start, Work, Begin, JobStep, NextAttempt, Finish, Connect, CloseAttempt, Collect,
           Announce, WriteFails, Wake, Deliver, WorkerDies, Terminate, Handle, vars, jobVars, poolVars
<1>3. QED
  BY <1>1, <1>2, Invariant, PTL DEF Spec, KeepsThePromise, Promise!Spec, Promise!Init, Stored, Given

-----------------------------------------------------------------------------
(* The request without --parallel                                          *)

Now == Profiles[turn]

\* The profiles before the current one are done, those after it have not
\* begun, and no job was ever killed: there is no process to lose.
TurnAgrees ==
    /\ turn \in 1 .. Len(Profiles) + 1
    /\ \A k \in 1 .. Len(Profiles) :
          /\ k < turn => pc[Profiles[k]] = "returned"
          /\ k > turn => pc[Profiles[k]] = "idle"

\* What the request answered is what happened to the profile it stands at.
OutcomeAgrees ==
    \/ Unanswered
    \/ reply = "batches" /\ turn = Len(Profiles) + 1
    \/ /\ reply # "batches"
       /\ turn <= Len(Profiles)
       /\ \/ pc[Now] = "idle" /\ reply = "MarketRelationshipError"
          \/ pc[Now] = "failed" /\ reply = errors[Now][Len(errors[Now])]

RequestInv ==
    /\ JobTypeOK
    /\ \A j \in Job : JobInv(j) /\ ErrorsAgree(j)
    /\ TurnAgrees
    /\ OutcomeAgrees

-----------------------------------------------------------------------------

\* The list has a length, and its entries are the jobs, one place each.
LEMMA Places ==
    /\ Len(Profiles) \in Nat
    /\ \A k \in 1 .. Len(Profiles) : Profiles[k] \in Job
    /\ \A j \in Job : \E k \in 1 .. Len(Profiles) : Profiles[k] = j
<1>1. Len(Profiles) \in Nat /\ DOMAIN Profiles = 1 .. Len(Profiles)
  BY ProfilesConstants
<1>2. QED
  BY <1>1, ProfilesConstants

\* Nothing has begun before the first turn.
LEMMA InitRequestInv == RequestInit => RequestInv
<1> SUFFICES ASSUME RequestInit PROVE RequestInv
  OBVIOUS
<1>1. \A j \in Job : JobTypeOK /\ JobInv(j) /\ ErrorsAgree(j)
  BY InitJobInv, InitErrors DEF RequestInit
<1>2. JobTypeOK
  BY JobConstants DEF RequestInit, InitJobs, JobTypeOK, Working, Ended
<1>3. TurnAgrees
  BY Places DEF RequestInit, InitJobs, TurnAgrees
<1>4. QED
  BY <1>1, <1>2, <1>3 DEF RequestInv, OutcomeAgrees, Unanswered, RequestInit

\* A step of the job whose turn it is, while there is no answer, keeps the
\* invariant: it is the only job that can move.
LEMMA MoveStep ==
    ASSUME RequestInv, Unanswered, NEW j \in Job, Begin(j) \/ JobStep(j),
           turn <= Len(Profiles), j = Now, UNCHANGED <<turn, reply>>
    PROVE  RequestInv'
<1>1. AnyStep(j)
  BY DEF AnyStep
<1>2. JobTypeOK' /\ \A k \in Job : JobInv(k)'
  BY <1>1, JobInvStep DEF RequestInv
<1>3. \A k \in Job : ErrorsAgree(k)'
  BY <1>1, AllErrorsStep DEF RequestInv, JobInv
<1>4. TurnAgrees'
  <2>1. \A k \in 1 .. Len(Profiles) : k # turn => pc'[Profiles[k]] = pc[Profiles[k]]
    <3>1. ASSUME NEW k \in 1 .. Len(Profiles), k # turn PROVE pc'[Profiles[k]] = pc[Profiles[k]]
      <4>0. turn \in 1 .. Len(Profiles)
        BY Places DEF RequestInv, TurnAgrees
      <4>1. Profiles[k] \in Job /\ Profiles[k] # j
        BY <3>1, <4>0, Places, ProfilesConstants DEF Now
      <4>2. QED
        BY <1>1, <4>1, StepIsLocal DEF RequestInv
    <3>2. QED
      BY <3>1
  <2>2. QED
    BY <2>1, Places DEF RequestInv, TurnAgrees
<1>5. OutcomeAgrees'
  BY DEF OutcomeAgrees, Unanswered
<1>6. QED
  BY <1>2, <1>3, <1>4, <1>5 DEF RequestInv

\* Only the job whose turn it is can work.
LEMMA WorkerIsNow ==
    ASSUME RequestInv, NEW j \in Job, JobStep(j)
    PROVE  turn <= Len(Profiles) /\ j = Now
<1>1. pc[j] \in Working
  BY JobStepWorks
<1>2. PICK k \in 1 .. Len(Profiles) : Profiles[k] = j
  BY Places
<1>3. k = turn
  BY <1>1, <1>2, Places DEF RequestInv, TurnAgrees, Working
<1>4. QED
  BY <1>2, <1>3, Places DEF Now

\* A step that leaves the jobs alone keeps what is known of them.
LEMMA RequestJobsUntouched ==
    ASSUME RequestInv, UNCHANGED jobVars
    PROVE  JobTypeOK' /\ \A j \in Job : JobInv(j)' /\ ErrorsAgree(j)'
<1>1. JobTypeOK'
  BY DEF RequestInv, JobTypeOK, jobVars
<1>2. ASSUME NEW j \in Job PROVE JobInv(j)' /\ ErrorsAgree(j)'
  BY DEF RequestInv, JobInv, DiskAgrees, LoopAgrees, Published, Writing, Between, Looping, ErrorsAgree,
         Attempting, jobVars
<1>3. QED
  BY <1>1, <1>2

\* Every step of the request keeps the invariant.
LEMMA StepRequestInv == RequestInv /\ [RequestNext]_requestVars => RequestInv'
<1> SUFFICES ASSUME RequestInv, [RequestNext]_requestVars PROVE RequestInv'
  OBVIOUS
<1>1. CASE UnknownProfile
  <2>1. TurnAgrees'
    BY <1>1 DEF UnknownProfile, RequestInv, TurnAgrees, jobVars
  <2>2. OutcomeAgrees'
    BY <1>1 DEF UnknownProfile, OutcomeAgrees, Now, jobVars
  <2>3. QED
    BY <1>1, <2>1, <2>2, RequestJobsUntouched DEF UnknownProfile, RequestInv
<1>2. CASE CallJob
  <2>1. Now \in Job
    BY <1>2, Places DEF CallJob, RequestInv, TurnAgrees, Now
  <2>2. QED
    BY <1>2, <2>1, MoveStep DEF CallJob, Now
<1>3. CASE WorkInTurn
  BY <1>3, MoveStep, WorkerIsNow DEF WorkInTurn
<1>4. CASE NextProfile
  <2>1. TurnAgrees'
    BY <1>4, Places DEF NextProfile, RequestInv, TurnAgrees, jobVars
  <2>2. OutcomeAgrees'
    BY <1>4 DEF NextProfile, OutcomeAgrees, Unanswered
  <2>3. QED
    BY <1>4, <2>1, <2>2, RequestJobsUntouched DEF NextProfile, RequestInv
<1>5. CASE Abort
  <2>1. TurnAgrees'
    BY <1>5 DEF Abort, RequestInv, TurnAgrees, jobVars
  <2>2. Now \in Job /\ Len(errors[Now]) > 0
    BY <1>5, Places DEF Abort, RequestInv, TurnAgrees, Now, ErrorsAgree
  <2>3. reply' \in Raisable
    BY <1>5, <2>2, LastError DEF Abort, RequestInv, Now
  <2>4. OutcomeAgrees'
    BY <1>5, <2>3 DEF Abort, OutcomeAgrees, Now, jobVars, Raisable, Verdict
  <2>5. QED
    BY <1>5, <2>1, <2>4, RequestJobsUntouched DEF Abort, RequestInv
<1>6. CASE Return
  <2>1. TurnAgrees'
    BY <1>6 DEF Return, RequestInv, TurnAgrees, jobVars
  <2>2. OutcomeAgrees'
    BY <1>6, Places DEF Return, RequestInv, TurnAgrees, OutcomeAgrees
  <2>3. QED
    BY <1>6, <2>1, <2>2, RequestJobsUntouched DEF Return, RequestInv
<1>7. CASE UNCHANGED requestVars
  BY <1>7, RequestJobsUntouched DEF requestVars, jobVars, RequestInv, TurnAgrees, OutcomeAgrees, Unanswered, Now
<1>8. QED
  BY <1>1, <1>2, <1>3, <1>4, <1>5, <1>6, <1>7 DEF RequestNext

\* The inductive invariant holds in every reachable state.
THEOREM RequestInvariant == RequestSpec => []RequestInv
  BY InitRequestInv, StepRequestInv, PTL DEF RequestSpec

\* The request stops at the first profile that fails: those before it are
\* complete on disk, those after it untouched, and the error is its own.
THEOREM FirstFailure == RequestSpec => []StopsAtTheFirstFailure
<1>1. ASSUME RequestInv PROVE StopsAtTheFirstFailure
  <2>1. SUFFICES ASSUME ~Unanswered, reply # "batches"
                 PROVE  /\ IF pc[Profiles[turn]] = "idle"
                           THEN reply = "MarketRelationshipError"
                           ELSE reply = errors[Profiles[turn]][Len(errors[Profiles[turn]])]
                        /\ \A k \in 1 .. Len(Profiles) :
                              /\ k < turn => \A s \in Wanted[Profiles[k]] :
                                                Published(Profiles[k], s) # {}
                              /\ k > turn => pc[Profiles[k]] = "idle"
    BY DEF StopsAtTheFirstFailure
  <2>2. ASSUME NEW k \in 1 .. Len(Profiles), k < turn, NEW s \in Wanted[Profiles[k]]
        PROVE  Published(Profiles[k], s) # {}
    <3>1. Profiles[k] \in Job /\ pc[Profiles[k]] = "returned"
      BY <1>1, <2>2, Places DEF RequestInv, TurnAgrees
    <3>2. s \in Symbol /\ s \in collected[Profiles[k]]
      BY <1>1, <2>2, <3>1, JobConstants DEF RequestInv, JobInv, LoopAgrees
    <3>3. QED
      BY <1>1, <3>1, <3>2 DEF RequestInv, JobInv, DiskAgrees
  <2>3. QED
    BY <1>1, <2>1, <2>2 DEF RequestInv, TurnAgrees, OutcomeAgrees, Now
<1>2. QED
  BY <1>1, RequestInvariant, PTL

-----------------------------------------------------------------------------
(* Refinement                                                              *)

RequestGiven == IF Unanswered THEN "none"
         ELSE IF reply = "batches" THEN "batches" ELSE "error"

\* What is stored is what the jobs have collected.
LEMMA RequestStored ==
    ASSUME RequestInv
    PROVE  Stored = {p \in Job \X Symbol : p[2] \in collected[p[1]]}
  BY DEF RequestInv, JobInv, DiskAgrees, Stored

\* The same after a step.
LEMMA RequestStoredNext ==
    ASSUME RequestInv'
    PROVE  Stored' = {p \in Job \X Symbol : p[2] \in collected'[p[1]]}
  BY DEF RequestInv, JobInv, DiskAgrees, Stored

\* A step that collects nothing stores nothing.
LEMMA NothingStored ==
    ASSUME RequestInv, RequestInv', UNCHANGED collected
    PROVE  Stored' = Stored
  BY RequestStored, RequestStoredNext

\* Publishing a dataset is the abstract Store.
LEMMA PublishStoresInTurn ==
    ASSUME RequestInv, RequestInv', NEW j \in Job, Publish(j), Unanswered, UNCHANGED reply,
           collected' = [collected EXCEPT ![j] = @ \cup {current[j]}]
    PROVE  RequestPromise!Store(<<j, current[j]>>) /\ <<j, current[j]>> \in RequestPromise!Everything
<1>1. current[j] \in Wanted[j] /\ current[j] \notin collected[j] /\ Wanted[j] \subseteq Symbol
  BY JobConstants DEF RequestInv, JobInv, LoopAgrees, Publish, Writing
<1>2. Stored' = Stored \cup {<<j, current[j]>>} /\ <<j, current[j]>> \notin Stored
  <2>1. Stored = {p \in Job \X Symbol : p[2] \in collected[p[1]]}
    BY RequestStored
  <2>2. Stored' = {p \in Job \X Symbol : p[2] \in collected'[p[1]]}
    BY RequestStoredNext
  <2>3. \A k \in Job : collected'[k] = IF k = j THEN collected[j] \cup {current[j]} ELSE collected[k]
    BY DEF RequestInv, JobTypeOK
  <2>4. QED
    BY <1>1, <2>1, <2>2, <2>3
<1>3. RequestGiven = "none" /\ RequestGiven' = "none"
  BY DEF RequestGiven, Unanswered
<1>4. QED
  BY <1>1, <1>2, <1>3 DEF RequestPromise!Store, RequestPromise!Everything, Stored, RequestGiven

\* Batches are returned when every profile is done.
LEMMA ReturnAnswers ==
    ASSUME RequestInv, RequestInv', Return
    PROVE  RequestPromise!Answer
<1>1. Stored' = Stored
  BY NothingStored DEF Return, jobVars
<1>2. \A j \in Job : pc[j] = "returned"
  BY Places DEF Return, RequestInv, TurnAgrees
<1>3. Stored = RequestPromise!Everything
  BY <1>2, RequestStored DEF RequestInv, JobInv, LoopAgrees, RequestPromise!Everything
<1>4. RequestGiven = "none" /\ RequestGiven' = "batches"
  BY ProfilesConstants DEF Return, RequestGiven, Unanswered
<1>5. QED
  BY <1>1, <1>3, <1>4 DEF RequestPromise!Answer, Stored, RequestGiven

\* A profile's failure, or its unknown name, is the abstract error.
LEMMA ErrorAnswers ==
    ASSUME RequestInv, RequestInv', UnknownProfile \/ Abort
    PROVE  RequestPromise!Answer
<1>1. Stored' = Stored
  BY NothingStored DEF UnknownProfile, Abort, jobVars
<1>2. reply' # "batches" /\ reply' # NoReply
  <2>1. CASE UnknownProfile
    BY <2>1, ProfilesConstants DEF UnknownProfile
  <2>2. CASE Abort
    <3>1. Now \in Job /\ Len(errors[Now]) > 0
      BY <2>2, Places DEF Abort, RequestInv, TurnAgrees, Now, ErrorsAgree
    <3>2. reply' \in Raisable
      BY <2>2, <3>1, LastError DEF Abort, RequestInv, Now
    <3>3. QED
      BY <3>2, ProfilesConstants DEF Raisable, Verdict
  <2>3. QED
    BY <2>1, <2>2
<1>3. RequestGiven = "none" /\ RequestGiven' = "error"
  BY <1>2 DEF UnknownProfile, Abort, RequestGiven, Unanswered
<1>4. QED
  BY <1>1, <1>3 DEF RequestPromise!Answer, Stored, RequestGiven

\* The request implements CollectionPromise: datasets appear one by one, the
\* answer comes once, and batches mean everything.
THEOREM RequestRefinement == RequestSpec => RequestKeepsThePromise
<1>1. RequestInit => Stored = {} /\ RequestGiven = "none"
  <2>1. RequestInit => RequestInv /\ \A j \in Job : collected[j] = {}
    BY InitRequestInv DEF RequestInit, InitJobs
  <2>2. QED
    BY <2>1, RequestStored DEF RequestGiven, Unanswered, RequestInit
<1>2. ASSUME RequestInv, RequestInv', [RequestNext]_requestVars
      PROVE  [RequestPromise!Next]_<<Stored, RequestGiven>>
  <2>1. CASE UNCHANGED <<collected, reply>>
    BY <1>2, <2>1, NothingStored DEF RequestGiven, Unanswered
  <2>2. CASE Return
    BY <1>2, <2>2, ReturnAnswers DEF RequestPromise!Next
  <2>3. CASE UnknownProfile \/ Abort
    BY <1>2, <2>3, ErrorAnswers DEF RequestPromise!Next
  <2>4. ASSUME NEW j \in Job, Publish(j), Unanswered, UNCHANGED reply, ~UNCHANGED collected
        PROVE  [RequestPromise!Next]_<<Stored, RequestGiven>>
    <3>1. collected' = [collected EXCEPT ![j] = @ \cup {current[j]}]
      BY <2>4 DEF Publish, WriteFails
    <3>2. QED
      BY <1>2, <2>4, <3>1, PublishStoresInTurn DEF RequestPromise!Next
  <2>5. QED
    BY <1>2, <2>1, <2>2, <2>3, <2>4
       DEF RequestNext, CallJob, WorkInTurn, NextProfile, Begin, JobStep, NextAttempt, Finish, Connect,
           CloseAttempt, Collect, Announce, WriteFails, Wake, requestVars, jobVars
<1>3. QED
  BY <1>1, <1>2, RequestInvariant, PTL DEF RequestSpec, RequestKeepsThePromise, RequestPromise!Spec, RequestPromise!Init, Stored, RequestGiven

=============================================================================
