-------------------------- MODULE CollectionPromise --------------------------
(***************************************************************************)
(* What a collection request promises its caller, run in parallel or not:  *)
(* datasets appear one by one and stay, the answer comes once, batches are *)
(* returned only when every symbol of every job is stored, and once there  *)
(* is an answer nothing more is written.                                   *)
(***************************************************************************)
CONSTANTS Job, Symbol, Wanted

VARIABLES stored, answer

Everything == {p \in Job \X Symbol : p[2] \in Wanted[p[1]]}

Init == stored = {} /\ answer = "none"

Store(p) ==
    /\ answer = "none" /\ p \notin stored
    /\ stored' = stored \cup {p}
    /\ UNCHANGED answer

Answer ==
    /\ answer = "none"
    /\ answer' \in {"batches", "error"}
    /\ answer' = "batches" => stored = Everything
    /\ UNCHANGED stored

Next == Answer \/ \E p \in Everything : Store(p)

Spec == Init /\ [][Next]_<<stored, answer>>
=============================================================================
