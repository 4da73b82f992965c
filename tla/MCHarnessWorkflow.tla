--------------------------- MODULE MCHarnessWorkflow ---------------------------
(* Two command processes on a checklist of two items, the second of which   *)
(* depends on the first.                                                   *)
EXTENDS HarnessWorkflow, TLC

CONSTANTS i1, i2

MCDeps == (i1 :> {}) @@ (i2 :> {i1})

(* The run begins when a first command has requested the closeout of i1, so *)
(* that MaxCommands more can refuse it, or ask again, after an approval.    *)
MCInit ==
    /\ disk = [i \in Items |->
                 IF i = i1 THEN [NewEntry EXCEPT !.workflow = "closeout_requested"]
                 ELSE NewEntry]
    /\ ruling = [i \in Items |-> IF i = i1 THEN "asked" ELSE "none"]
    /\ torn = FALSE
    /\ pointer = NoItem
    /\ pc = [p \in Procs |-> "idle"]
    /\ work = [p \in Procs |-> NoWork]
    /\ started = 0
    /\ lost = {}
MCSpec == MCInit /\ [][Next]_vars

(* Agents and processes are only told apart by identity. *)
Interchangeable == Permutations(Agents) \cup Permutations(Procs)
=============================================================================
