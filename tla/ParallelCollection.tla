-------------------------- MODULE ParallelCollection --------------------------
(***************************************************************************)
(* `ParallelCollectionCoordinator.run`: one job per broker profile in a    *)
(* process pool, results taken as they complete, one answer at the end.    *)
(*                                                                         *)
(* The pool is concurrent.futures.ProcessPoolExecutor: at most `Workers`   *)
(* jobs run at once; a worker process that dies breaks the pool, which     *)
(* fails every future still pending and terminates the other workers.      *)
(***************************************************************************)
EXTENDS BrokerJob, FiniteSets

CONSTANTS
    Workers,   \* max_workers
    MayDie,    \* a worker process may be killed
    NoOutcome

ASSUME PoolConstants ==
    /\ IsFiniteSet(Job) /\ Job # {}
    /\ Workers \in Nat \ {0}
    /\ MayDie \in BOOLEAN

VARIABLES
    broken,   \* the executor is broken
    future,   \* what each future holds
    handled,  \* jobs as_completed has yielded, in that order
    outcome   \* what run returned or raised

poolVars == <<broken, future, handled, outcome>>
vars == <<jobVars, poolVars>>

Init ==
    /\ InitJobs
    /\ broken = FALSE
    /\ future = [j \in Job |-> "pending"]
    /\ handled = <<>>
    /\ outcome = NoOutcome

-----------------------------------------------------------------------------
(* The pool                                                                *)

Running == {j \in Job : pc[j] \in Working}

WorkerCount == IF Workers < Cardinality(Job) THEN Workers ELSE Cardinality(Job)

Start(j) ==
    /\ ~broken
    /\ Cardinality(Running) < WorkerCount
    /\ Begin(j)
    /\ UNCHANGED poolVars

Work(j) == JobStep(j) /\ UNCHANGED poolVars

\* A finished call's result or exception reaches its future.
Deliver(j) ==
    /\ pc[j] \in {"returned", "failed"} /\ future[j] = "pending"
    /\ future' = [future EXCEPT ![j] =
                    IF pc[j] = "returned" THEN "result" ELSE errors[j][Len(errors[j])]]
    /\ UNCHANGED <<jobVars, broken, handled, outcome>>

\* Mutant of WorkerDies: only the dead worker's own future is failed.
WorkerDiesAlone(j) ==
    /\ MayDie /\ ~broken /\ j \in Running
    /\ Go(j, "killed")
    /\ broken' = TRUE
    /\ future' = [future EXCEPT ![j] = "BrokenProcessPool"]
    /\ UNCHANGED <<attempt, pending, todo, current, collected, errors, disk, handled, outcome>>

\* The executor finds a dead worker: every pending future gets
\* BrokenProcessPool, and the remaining workers are to be terminated.
WorkerDies(j) ==
    /\ MayDie /\ ~broken /\ j \in Running
    /\ Go(j, "killed")
    /\ broken' = TRUE
    /\ future' = [k \in Job |-> IF future[k] = "pending" THEN "BrokenProcessPool" ELSE future[k]]
    /\ UNCHANGED <<attempt, pending, todo, current, collected, errors, disk, handled, outcome>>

Terminate(j) ==
    /\ broken /\ j \in Running
    /\ Go(j, "killed")
    /\ UNCHANGED <<attempt, pending, todo, current, collected, errors, disk, poolVars>>

-----------------------------------------------------------------------------
(* The coordinator                                                         *)

IsHandled(j) == \E k \in 1 .. Len(handled) : handled[k] = j

\* for future in as_completed(futures): results and failures are set aside.
Handle(j) ==
    /\ future[j] # "pending" /\ ~IsHandled(j)
    /\ handled' = Append(handled, j)
    /\ UNCHANGED <<jobVars, broken, future, outcome>>

Results == {j \in Job : future[j] = "result"}

\* Positions in `failures`, and those of them that are safety refusals.
FailedAt == {k \in 1 .. Len(handled) : future[handled[k]] # "result"}

\* Mutant of RefusedAt: only the first failure's type is looked at.
FirstFailureRefused ==
    {k \in FailedAt : future[handled[k]] = "DemoSafetyError" /\ \A l \in FailedAt : k <= l}

RefusedAt == {k \in FailedAt : future[handled[k]] = "DemoSafetyError"}

FirstRefused == {k \in RefusedAt : \A l \in RefusedAt : k <= l}

\* Mutant of Drained: the executor is shut down with wait=False.
DrainedAnyway == TRUE

\* The executor's shutdown waits for the workers; then _raise_for names the
\* first refusal alone, or else every failure, or run returns the batches.
Drained == Running = {}

Answer ==
    IF FailedAt = {} THEN [kind |-> "batches", named |-> {}, completed |-> Results]
    ELSE IF RefusedAt # {}
         THEN [kind |-> "DemoSafetyError",
               named |-> {handled[k] : k \in FirstRefused}, completed |-> {}]
         ELSE [kind |-> "ParallelCollectionError",
               named |-> {handled[k] : k \in FailedAt}, completed |-> Results]

\* Mutant of Report: the first failure is raised from inside the loop.
ReportAtOnce ==
    /\ outcome = NoOutcome
    /\ FailedAt # {} \/ \A j \in Job : IsHandled(j)
    /\ outcome' = Answer
    /\ UNCHANGED <<jobVars, broken, future, handled>>

Report ==
    /\ outcome = NoOutcome
    /\ \A j \in Job : IsHandled(j)
    /\ Drained
    /\ outcome' = Answer
    /\ UNCHANGED <<jobVars, broken, future, handled>>

Next ==
    \/ \E j \in Job : Start(j) \/ Work(j) \/ Deliver(j) \/ WorkerDies(j) \/ Terminate(j)
    \/ \E j \in Job : Handle(j)
    \/ Report

Spec == Init /\ [][Next]_vars

\* Terminal calls are given a timeout and file operations return, so a worker
\* keeps running; the pool starts, delivers and terminates; the coordinator's
\* loop runs.  Nothing is assumed of WorkerDies.
Fairness ==
    /\ \A j \in Job : WF_vars(Start(j)) /\ WF_vars(Work(j)) /\ WF_vars(Deliver(j))
                      /\ WF_vars(Terminate(j)) /\ WF_vars(Handle(j))
    /\ WF_vars(Report)

FairSpec == Spec /\ Fairness

-----------------------------------------------------------------------------
(* Properties                                                              *)

Future == Verdict \cup {"pending", "result", "MT5ConnectionError",
                        "ParallelCollectionError", "BrokenProcessPool"}

Outcome == [kind : {"batches", "DemoSafetyError", "ParallelCollectionError"},
            named : SUBSET Job, completed : SUBSET Job]

\* The values each variable can hold.
TypeOK ==
    /\ JobTypeOK
    /\ broken \in BOOLEAN
    /\ future \in [Job -> Future]
    /\ handled \in Seq(Job)
    /\ outcome \in Outcome \cup {NoOutcome}

Answered == outcome # NoOutcome

\* The pool drains before the run answers: no worker is still writing, and
\* no job was abandoned in the queue unless the pool broke
\* (parallel_collection.py:65-70).
AnswerAfterTheLastWrite ==
    Answered => /\ Running = {}
                /\ ~broken => \A j \in Job : pc[j] \in {"returned", "failed"}

\* "The run then reports a failure and leaves half-written output on disk" is
\* what draining prevents (parallel_collection.py:65-70): no dataset is staged
\* or merely announced once the run has answered.
NothingHalfWritten ==
    Answered => \A d \in Dataset : disk[d] \in {"absent", "published"}

\* Batches are returned only when every job published everything it was asked
\* for, whatever else happened in the pool.
BatchesAreComplete ==
    Answered /\ outcome.kind = "batches" =>
        /\ outcome.completed = Job
        /\ \A j \in Job : \A s \in Wanted[j] : Published(j, s) # {}

\* A safety refusal is never reported as a retryable collection failure, in
\* whatever order the jobs complete (_raise_for, parallel_collection.py:91-100).
RefusalIsNotMasked ==
    Answered /\ (\E j \in Job : future[j] = "DemoSafetyError") =>
        /\ outcome.kind = "DemoSafetyError"
        /\ \A j \in outcome.named : future[j] = "DemoSafetyError"

\* Every run answers.
RunAnswers == <>Answered

\* The run keeps the promise made to its caller.
Promise == INSTANCE CollectionPromise WITH
    stored <- {p \in Job \X Symbol : Published(p[1], p[2]) # {}},
    answer <- IF ~Answered THEN "none"
              ELSE IF outcome.kind = "batches" THEN "batches" ELSE "error"

KeepsThePromise == Promise!Spec

=============================================================================
