----------------------------- MODULE DatasetStore -----------------------------
(***************************************************************************)
(* `ParquetQuoteRepository.write` (infrastructure/storage/quotes.py), one  *)
(* file-system operation per step, run by several writers.                 *)
(*                                                                         *)
(* A write stages the data in a temporary file, publishes the manifest     *)
(* with an atomic rename, then moves the data to its final name.  Each     *)
(* operation may fail; the handler withdraws the manifest and the finally  *)
(* clause removes the staged data.  Which faults happen is a parameter:    *)
(*   "io"         an operation raises OSError (or the encoder raises);     *)
(*   "unlink"     removing a file raises in the handler or the finally;    *)
(*   "interrupt"  a KeyboardInterrupt between two operations;              *)
(*   "kill"       the process is terminated between two operations.        *)
(***************************************************************************)
CONSTANTS Writer, Id, IdOf, None, Fault

ASSUME StoreConstants ==
    /\ IdOf \in [Writer -> Id]
    /\ None \notin Writer
    /\ Fault \subseteq {"io", "unlink", "interrupt", "kill"}

VARIABLES
    op,        \* the next operation of each writer
    failed,    \* an exception is propagating in the writer
    data,      \* whose bytes are at <id>.parquet
    manifest,  \* whose manifest is at <id>.json
    dataTemp,  \* the staged data file: "absent", "empty" or "full"
    jsonTemp   \* the temporary manifest: "absent", "partial" or "full"

storeVars == <<op, failed, data, manifest, dataTemp, jsonTemp>>

Operation == {"stage", "encode", "dump", "publish", "move", "leave", "withdraw", "cleanup"}
Done == {"returned", "raised", "killed"}

StoreInit ==
    /\ op = [w \in Writer |-> "stage"]
    /\ failed = [w \in Writer |-> FALSE]
    /\ data = [i \in Id |-> None]
    /\ manifest = [i \in Id |-> None]
    /\ dataTemp = [w \in Writer |-> "absent"]
    /\ jsonTemp = [w \in Writer |-> "absent"]

-----------------------------------------------------------------------------

At(w, here) == op[w] = here
Go(w, next) == op' = [op EXCEPT ![w] = next]

\* An exception inside the try block: on to the except clause.
Handle(w) ==
    /\ Go(w, "withdraw")
    /\ failed' = [failed EXCEPT ![w] = TRUE]

\* mkdir and NamedTemporaryFile; outside the try, a failure leaves nothing.
Stage(w) ==
    /\ At(w, "stage")
    /\ \/ /\ Go(w, "encode")
          /\ dataTemp' = [dataTemp EXCEPT ![w] = "empty"]
          /\ UNCHANGED failed
       \/ /\ "io" \in Fault
          /\ Go(w, "raised")
          /\ failed' = [failed EXCEPT ![w] = TRUE]
          /\ UNCHANGED dataTemp
    /\ UNCHANGED <<data, manifest, jsonTemp>>

\* Mutant of Encode: the data is written at its final path.
EncodeInPlace(w) ==
    /\ At(w, "encode")
    /\ \/ /\ Go(w, "dump")
          /\ data' = [data EXCEPT ![IdOf[w]] = w]
          /\ UNCHANGED failed
       \/ "io" \in Fault /\ Handle(w) /\ UNCHANGED data
    /\ UNCHANGED <<manifest, dataTemp, jsonTemp>>

\* frame.to_parquet into the staged file.
Encode(w) ==
    /\ At(w, "encode")
    /\ \/ /\ Go(w, "dump")
          /\ dataTemp' = [dataTemp EXCEPT ![w] = "full"]
          /\ UNCHANGED failed
       \/ "io" \in Fault /\ Handle(w) /\ UNCHANGED dataTemp
    /\ UNCHANGED <<data, manifest, jsonTemp>>

\* json.dump into the temporary manifest.  Nothing removes the temporary file
\* when the dump raises: it is created with delete=False and the finally that
\* unlinks it is entered only after the `with` block.
Dump(w) ==
    /\ At(w, "dump")
    /\ \/ /\ Go(w, "publish")
          /\ jsonTemp' = [jsonTemp EXCEPT ![w] = "full"]
          /\ UNCHANGED failed
       \/ /\ "io" \in Fault
          /\ Handle(w)
          /\ \E left \in {"absent", "partial"} : jsonTemp' = [jsonTemp EXCEPT ![w] = left]
    /\ UNCHANGED <<data, manifest, dataTemp>>

\* The manifest is renamed into place; its temporary is gone either way.
Publish(w) ==
    /\ At(w, "publish")
    /\ jsonTemp' = [jsonTemp EXCEPT ![w] = "absent"]
    /\ \/ /\ Go(w, "move")
          /\ manifest' = [manifest EXCEPT ![IdOf[w]] = w]
          /\ UNCHANGED failed
       \/ "io" \in Fault /\ Handle(w) /\ UNCHANGED manifest
    /\ UNCHANGED <<data, dataTemp>>

\* The staged data is renamed to its final path.
Move(w) ==
    /\ At(w, "move")
    /\ \/ /\ Go(w, "leave")
          /\ data' = [data EXCEPT ![IdOf[w]] = w]
          /\ dataTemp' = [dataTemp EXCEPT ![w] = "absent"]
          /\ UNCHANGED failed
       \/ "io" \in Fault /\ Handle(w) /\ UNCHANGED <<data, dataTemp>>
    /\ UNCHANGED <<manifest, jsonTemp>>

\* Mutant of Leave: a check of the published pair, inside the try block, that
\* may fail once readers can see it.
LeaveChecked(w) ==
    /\ At(w, "leave")
    /\ \/ Go(w, "cleanup") /\ UNCHANGED failed
       \/ "io" \in Fault /\ Handle(w)
    /\ UNCHANGED <<data, manifest, dataTemp, jsonTemp>>

\* The try block ends without an exception.
Leave(w) ==
    /\ At(w, "leave")
    /\ Go(w, "cleanup")
    /\ UNCHANGED <<failed, data, manifest, dataTemp, jsonTemp>>

\* Mutant of Withdraw: the manifest is not withdrawn with the data.
WithdrawNothing(w) ==
    /\ At(w, "withdraw")
    /\ Go(w, "cleanup")
    /\ UNCHANGED <<failed, data, manifest, dataTemp, jsonTemp>>

\* except BaseException: manifest_path.unlink(missing_ok=True), whoever wrote it.
Withdraw(w) ==
    /\ At(w, "withdraw")
    /\ Go(w, "cleanup")
    /\ \/ manifest' = [manifest EXCEPT ![IdOf[w]] = None]
       \/ "unlink" \in Fault /\ UNCHANGED manifest
    /\ UNCHANGED <<failed, data, dataTemp, jsonTemp>>

\* finally: data_temporary.unlink(missing_ok=True), then return or re-raise.
Cleanup(w) ==
    /\ At(w, "cleanup")
    /\ \/ /\ Go(w, IF failed[w] THEN "raised" ELSE "returned")
          /\ dataTemp' = [dataTemp EXCEPT ![w] = "absent"]
          /\ UNCHANGED failed
       \/ /\ "unlink" \in Fault
          /\ Go(w, "raised")
          /\ failed' = [failed EXCEPT ![w] = TRUE]
          /\ UNCHANGED dataTemp
    /\ UNCHANGED <<data, manifest, jsonTemp>>

WriteStep(w) ==
    \/ Stage(w) \/ Encode(w) \/ Dump(w) \/ Publish(w) \/ Move(w)
    \/ Leave(w) \/ Withdraw(w) \/ Cleanup(w)

\* KeyboardInterrupt: in the try block the handler runs, in the handler the
\* finally, in the finally nothing more.
Interrupt(w) ==
    /\ "interrupt" \in Fault
    /\ failed' = [failed EXCEPT ![w] = TRUE]
    /\ \/ op[w] \in {"encode", "dump", "move", "leave"} /\ Go(w, "withdraw") /\ UNCHANGED jsonTemp
       \/ /\ At(w, "publish") /\ Go(w, "withdraw")
          /\ \E left \in {"absent", "full"} : jsonTemp' = [jsonTemp EXCEPT ![w] = left]
       \/ At(w, "withdraw") /\ Go(w, "cleanup") /\ UNCHANGED jsonTemp
       \/ op[w] \in {"stage", "cleanup"} /\ Go(w, "raised") /\ UNCHANGED jsonTemp
    /\ UNCHANGED <<data, manifest, dataTemp>>

Kill(w) ==
    /\ "kill" \in Fault
    /\ op[w] \in Operation
    /\ Go(w, "killed")
    /\ UNCHANGED <<failed, data, manifest, dataTemp, jsonTemp>>

StoreNext == \E w \in Writer : WriteStep(w) \/ Interrupt(w) \/ Kill(w)

StoreSpec == StoreInit /\ [][StoreNext]_storeVars

\* A writer that is not killed runs on: nothing in `write` waits.
FairStoreSpec == StoreSpec /\ \A w \in Writer : WF_storeVars(WriteStep(w))

-----------------------------------------------------------------------------
(* Properties                                                              *)

\* The values each variable can hold.
StoreTypeOK ==
    /\ op \in [Writer -> Operation \cup Done]
    /\ failed \in [Writer -> BOOLEAN]
    /\ data \in [Id -> Writer \cup {None}]
    /\ manifest \in [Id -> Writer \cup {None}]
    /\ dataTemp \in [Writer -> {"absent", "empty", "full"}]
    /\ jsonTemp \in [Writer -> {"absent", "partial", "full"}]

InFlight(i) == \E w \in Writer : IdOf[w] = i /\ op[w] \in Operation

\* "Only the pair counts as written": once every write of an id has ended, its
\* two files are both there, from the same write, or both absent
\* (tests/unit/test_dataset_storage_atomicity.py:1).
AtRestThePairIsWhole == \A i \in Id : ~InFlight(i) => data[i] = manifest[i]

\* Data never stands at its final path without a manifest: the manifest is
\* published first (quotes.py:31-37).
DataIsDescribed == \A i \in Id : data[i] # None => manifest[i] # None

\* What a reader finds of a dataset tells what became of its write, whichever
\* faults are met and in whatever order.  A write that returned left the pair.
\* Data without its manifest was withdrawn by a write that raised, and is never
\* what a killed process leaves, as it would be if the data were moved first; a
\* manifest without its data awaits the move, or its process was killed, or its
\* write raised and could not withdraw it (quotes.py:29-45).
FilesTellTheOutcome ==
    \A w \in Writer :
        /\ At(w, "returned") => data[IdOf[w]] = w /\ manifest[IdOf[w]] = w
        /\ data[IdOf[w]] = w /\ manifest[IdOf[w]] # w => failed[w]
        /\ manifest[IdOf[w]] = w /\ data[IdOf[w]] # w => failed[w] \/ op[w] \in {"move", "killed"}

\* The manifest that describes a file not yet moved is resolved: the data
\* arrives or the manifest is withdrawn (quotes.py:35-37 and 43-44).
ManifestResolves ==
    \A i \in Id : manifest[i] # None /\ data[i] = None
                  ~> data[i] # None \/ manifest[i] = None

\* Readers that look for the pair see it appear in one step and never change.
Whole == [i \in Id |-> IF data[i] # None /\ manifest[i] # None THEN data[i] ELSE None]

Atomic == INSTANCE AtomicDataset WITH whole <- Whole

ImplementsAtomicDataset == Atomic!Spec

=============================================================================
