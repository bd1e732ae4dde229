------------------------------ MODULE BrokerJob ------------------------------
(***************************************************************************)
(* `collect_broker_job` (application/parallel_collection.py): one broker   *)
(* profile's symbols are collected and written, connection failures are    *)
(* retried per symbol, every other failure ends the job.                   *)
(*                                                                         *)
(* A job talks to a terminal that may fail any call (module MT5Session has *)
(* the session's own behaviour) and writes each dataset in the steps of    *)
(* module DatasetStore a reader can tell apart: staged, announced by its   *)
(* manifest, published with its data.  Each write mints a fresh id: a      *)
(* dataset is named by the job, the symbol and the attempt that wrote it.  *)
(***************************************************************************)
EXTENDS Integers, Sequences

CONSTANTS
    Job,       \* one per broker profile
    Symbol,    \* canonical symbols
    Wanted,    \* the symbols each job is asked for, duplicates removed
    Attempts,  \* settings.data.collection_attempts
    NoSymbol   \* no write is under way

ASSUME JobConstants ==
    /\ Wanted \in [Job -> SUBSET Symbol]
    /\ Attempts \in Nat \ {0}
    /\ NoSymbol \notin Symbol

VARIABLES
    pc,         \* where each job stands
    attempt,    \* the loop counter, 0 before the first attempt
    pending,    \* symbols the current attempt set out to collect
    todo,       \* those the loop over `pending` has not reached
    current,    \* the symbol being written
    collected,  \* the keys of `collected`
    errors,     \* the exceptions the job has met, the last one raised if it failed
    disk        \* the state of every dataset the jobs could write

jobVars == <<pc, attempt, pending, todo, current, collected, errors, disk>>

Dataset == Job \X Symbol \X (1 .. Attempts)

Working == {"loop", "connect", "symbol", "staged", "announced", "sleep"}
Ended == {"returned", "failed", "killed"}
Verdict == {"DemoSafetyError", "DataQualityError", "SymbolNotFoundError", "OSError"}

InitJobs ==
    /\ pc = [j \in Job |-> "idle"]
    /\ attempt = [j \in Job |-> 0]
    /\ pending = Wanted
    /\ todo = [j \in Job |-> {}]
    /\ current = [j \in Job |-> NoSymbol]
    /\ collected = [j \in Job |-> {}]
    /\ errors = [j \in Job |-> <<>>]
    /\ disk = [d \in Dataset |-> "absent"]

-----------------------------------------------------------------------------

Go(j, next) == pc' = [pc EXCEPT ![j] = next]

Write(j, state) == disk' = [disk EXCEPT ![<<j, current[j], attempt[j]>>] = state]

Meet(j, e) == errors' = [errors EXCEPT ![j] = Append(@, e)]

\* Mutant of Raise: every failure is retried like a connection failure.
RaiseAndRetry(j, e) == Go(j, "sleep") /\ Meet(j, e)

Raise(j, e) == Go(j, "failed") /\ Meet(j, e)

\* Mutant of Remaining: the whole request is retried.
RemainingAll(j) == pending[j]

\* except MT5ConnectionError: what is already written is not pending any more.
Remaining(j) == pending[j] \ collected[j]

Retry(j) ==
    /\ pending' = [pending EXCEPT ![j] = Remaining(j)]
    /\ Go(j, IF attempt[j] < Attempts /\ Remaining(j) # {} THEN "sleep" ELSE "failed")
    /\ Meet(j, "MT5ConnectionError")

Begin(j) ==
    /\ pc[j] = "idle"
    /\ Go(j, "loop")
    /\ UNCHANGED <<attempt, pending, todo, current, collected, errors, disk>>

LoopEnds(j) == attempt[j] = Attempts \/ pending[j] = {}

NextAttempt(j) ==
    /\ pc[j] = "loop" /\ ~LoopEnds(j)
    /\ attempt' = [attempt EXCEPT ![j] = @ + 1]
    /\ Go(j, "connect")
    /\ UNCHANGED <<pending, todo, current, collected, errors, disk>>

\* After the loop: every symbol is collected, or the job raises.
Finish(j) ==
    /\ pc[j] = "loop" /\ LoopEnds(j)
    /\ IF collected[j] = Wanted[j]
       THEN Go(j, "returned") /\ UNCHANGED errors
       ELSE Raise(j, IF errors[j] # <<>> THEN "MT5ConnectionError" ELSE "ParallelCollectionError")
    /\ UNCHANGED <<attempt, pending, todo, current, collected, disk>>

\* with MT5Adapter(...): connected, not reachable, or refused.
Connect(j) ==
    /\ pc[j] = "connect"
    /\ \/ /\ Go(j, "symbol")
          /\ todo' = [todo EXCEPT ![j] = pending[j]]
          /\ UNCHANGED <<pending, errors>>
       \/ Retry(j) /\ UNCHANGED todo
       \/ Raise(j, "DemoSafetyError") /\ UNCHANGED <<pending, todo>>
    /\ UNCHANGED <<attempt, current, collected, disk>>

\* Resolve, fetch, label and validate the next symbol, up to a staged file.
Collect(j, s) ==
    /\ pc[j] = "symbol" /\ s \in todo[j]
    /\ \/ /\ Go(j, "staged")
          /\ todo' = [todo EXCEPT ![j] = @ \ {s}]
          /\ current' = [current EXCEPT ![j] = s]
          /\ disk' = [disk EXCEPT ![<<j, s, attempt[j]>>] = "staged"]
          /\ UNCHANGED <<pending, errors>>
       \/ Retry(j) /\ UNCHANGED <<todo, current, disk>>
       \/ /\ \E e \in Verdict : Raise(j, e)
          /\ UNCHANGED <<pending, todo, current, disk>>
    /\ UNCHANGED <<attempt, collected>>

\* The loop over pending is done: the session closes, nothing is pending.
CloseAttempt(j) ==
    /\ pc[j] = "symbol" /\ todo[j] = {}
    /\ pending' = [pending EXCEPT ![j] = {}]
    /\ Go(j, "loop")
    /\ UNCHANGED <<attempt, todo, current, collected, errors, disk>>

\* Mutant of WriteFails: the symbol counts as collected before it is written,
\* and the failure goes unnoticed.
WriteFailsUnnoticed(j) ==
    /\ Write(j, "absent")
    /\ collected' = [collected EXCEPT ![j] = @ \cup {current[j]}]
    /\ Go(j, "symbol")
    /\ UNCHANGED errors

\* A failed write cleans up after itself and is not retried.
WriteFails(j) ==
    /\ Write(j, "absent")
    /\ Raise(j, "OSError")
    /\ UNCHANGED collected

Announce(j) ==
    /\ pc[j] = "staged"
    /\ \/ Write(j, "announced") /\ Go(j, "announced") /\ UNCHANGED <<collected, errors>>
       \/ WriteFails(j)
    /\ UNCHANGED <<attempt, pending, todo, current>>

Publish(j) ==
    /\ pc[j] = "announced"
    /\ \/ /\ Write(j, "published")
          /\ collected' = [collected EXCEPT ![j] = @ \cup {current[j]}]
          /\ Go(j, "symbol")
          /\ UNCHANGED errors
       \/ WriteFails(j)
    /\ UNCHANGED <<attempt, pending, todo, current>>

Wake(j) ==
    /\ pc[j] = "sleep"
    /\ Go(j, "loop")
    /\ UNCHANGED <<attempt, pending, todo, current, collected, errors, disk>>

JobStep(j) ==
    \/ NextAttempt(j) \/ Finish(j) \/ Connect(j) \/ CloseAttempt(j)
    \/ \E s \in Symbol : Collect(j, s)
    \/ Announce(j) \/ Publish(j) \/ Wake(j)

-----------------------------------------------------------------------------
(* Properties of a job, whatever runs it                                   *)

\* The values each variable can hold.
JobTypeOK ==
    /\ pc \in [Job -> Working \cup Ended \cup {"idle"}]
    /\ attempt \in [Job -> 0 .. Attempts]
    /\ pending \in [Job -> SUBSET Symbol]
    /\ todo \in [Job -> SUBSET Symbol]
    /\ current \in [Job -> Symbol \cup {NoSymbol}]
    /\ collected \in [Job -> SUBSET Symbol]
    /\ errors \in [Job -> Seq(Verdict \cup {"MT5ConnectionError", "ParallelCollectionError"})]
    /\ disk \in [Dataset -> {"absent", "staged", "announced", "published"}]

Published(j, s) == {n \in 1 .. Attempts : disk[<<j, s, n>>] = "published"}

\* However many attempts a job needs, no symbol is ever written under two
\* dataset ids (collect_broker_job's docstring, parallel_collection.py:117-122).
WrittenOnce ==
    \A j \in Job, s \in Symbol :
        \A m, n \in Published(j, s) : m = n

\* A job that returns has published every symbol it was asked for, and left no
\* staged or announced dataset behind on any of its attempts.
ReturnedIsComplete ==
    \A j \in Job : pc[j] = "returned" =>
        /\ \A s \in Wanted[j] : Published(j, s) # {}
        /\ \A s \in Symbol, n \in 1 .. Attempts :
              disk[<<j, s, n>>] \in {"absent", "published"}

\* The completeness check behind the loop never fires: the loop is left with
\* everything collected or not at all (parallel_collection.py:169-175).
FinalCheckIsSpare ==
    \A j \in Job : pc[j] = "loop" /\ LoopEnds(j) => collected[j] = Wanted[j]

\* A refusal, a quality verdict, an unknown symbol or a failed write is never
\* followed by another attempt: the errors a job outlived are all connection
\* errors, one per attempt (parallel_collection.py:124-126).
OnlyConnectionErrorsAreRetried ==
    \A j \in Job :
        /\ Len(errors[j]) <= attempt[j]
        /\ \A k \in 1 .. Len(errors[j]) :
              errors[j][k] # "MT5ConnectionError" => k = Len(errors[j]) /\ pc[j] \in Ended

=============================================================================
