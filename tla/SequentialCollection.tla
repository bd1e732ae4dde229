------------------------- MODULE SequentialCollection -------------------------
(***************************************************************************)
(* `collect_historical_data` without --parallel (application/commands.py): *)
(* the jobs run one after another in the calling process, whose MetaTrader5*)
(* module holds a single terminal connection; the first failure ends the   *)
(* request.                                                                *)
(***************************************************************************)
EXTENDS BrokerJob

CONSTANTS
    Profiles,  \* the jobs in the order the profiles were given
    NoReply

\* Each place in the list is a job of its own, a profile given twice included.
ASSUME ProfilesConstants ==
    /\ Profiles \in Seq(Job)
    /\ {Profiles[k] : k \in DOMAIN Profiles} = Job
    /\ \A k, l \in 1 .. Len(Profiles) : Profiles[k] = Profiles[l] => k = l
    /\ NoReply \notin Verdict \cup {"MT5ConnectionError", "ParallelCollectionError",
                                     "MarketRelationshipError", "batches"}

VARIABLES
    turn,    \* position of the profile being collected
    reply    \* NoReply, "batches", or the exception that ended the request

requestVars == <<jobVars, turn, reply>>

RequestInit == InitJobs /\ turn = 1 /\ reply = NoReply

Unanswered == reply = NoReply

\* resolve_profile: a profile's name is looked up only when its turn comes, so
\* an unknown one fails after the profiles before it have been collected.
UnknownProfile ==
    /\ Unanswered /\ turn <= Len(Profiles)
    /\ pc[Profiles[turn]] = "idle"
    /\ reply' = "MarketRelationshipError"
    /\ UNCHANGED <<jobVars, turn>>

CallJob ==
    /\ Unanswered /\ turn <= Len(Profiles)
    /\ Begin(Profiles[turn])
    /\ UNCHANGED <<turn, reply>>

WorkInTurn == Unanswered /\ (\E j \in Job : JobStep(j)) /\ UNCHANGED <<turn, reply>>

\* Mutant of NextProfile: a failed profile is passed over.
NextProfileAnyway ==
    /\ Unanswered /\ turn <= Len(Profiles)
    /\ pc[Profiles[turn]] \in {"returned", "failed"}
    /\ turn' = turn + 1
    /\ UNCHANGED <<jobVars, reply>>

NextProfile ==
    /\ Unanswered /\ turn <= Len(Profiles)
    /\ pc[Profiles[turn]] = "returned"
    /\ turn' = turn + 1
    /\ UNCHANGED <<jobVars, reply>>

\* The generator stops at the first exception; the batches already collected
\* are dropped with it.
Abort ==
    /\ Unanswered /\ turn <= Len(Profiles)
    /\ pc[Profiles[turn]] = "failed"
    /\ reply' = errors[Profiles[turn]][Len(errors[Profiles[turn]])]
    /\ UNCHANGED <<jobVars, turn>>

\* Mutant of Return: off by one.
ReturnEarly ==
    /\ Unanswered /\ turn >= Len(Profiles)
    /\ reply' = "batches"
    /\ UNCHANGED <<jobVars, turn>>

Return ==
    /\ Unanswered /\ turn > Len(Profiles)
    /\ reply' = "batches"
    /\ UNCHANGED <<jobVars, turn>>

RequestNext == UnknownProfile \/ CallJob \/ WorkInTurn \/ NextProfile \/ Abort \/ Return

RequestSpec == RequestInit /\ [][RequestNext]_requestVars

-----------------------------------------------------------------------------
(* Properties                                                              *)

\* A failed profile is where the request stops: every earlier profile is
\* complete on disk, no later one was touched, and the caller gets the error
\* of the profile that failed, a safety refusal as itself; a profile whose name
\* is not configured was not touched either.
StopsAtTheFirstFailure ==
    ~Unanswered /\ reply # "batches" =>
        /\ IF pc[Profiles[turn]] = "idle"
           THEN reply = "MarketRelationshipError"
           ELSE reply = errors[Profiles[turn]][Len(errors[Profiles[turn]])]
        /\ \A k \in 1 .. Len(Profiles) :
              /\ k < turn => \A s \in Wanted[Profiles[k]] : Published(Profiles[k], s) # {}
              /\ k > turn => pc[Profiles[k]] = "idle"

\* The sequential path keeps the same promise as the parallel one.
RequestPromise == INSTANCE CollectionPromise WITH
    stored <- {p \in Job \X Symbol : Published(p[1], p[2]) # {}},
    answer <- IF Unanswered THEN "none"
              ELSE IF reply = "batches" THEN "batches" ELSE "error"

RequestKeepsThePromise == RequestPromise!Spec

=============================================================================
