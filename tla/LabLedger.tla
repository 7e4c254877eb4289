------------------------------ MODULE LabLedger -----------------------------
(***************************************************************************)
(* What the fault wrapper promises the orchestrator, and no more: a fault  *)
(* comes into force through a command that was submitted, that is still    *)
(* waiting and that has not been refused; it may end at any moment.  A     *)
(* command is answered while it waits, possibly more than once, and one    *)
(* that is refused is not taken up again.                                  *)
(*                                                                         *)
(* An answer is kept under the id of the command, which several commands   *)
(* may share.  FaultWrapper implements this module; LiveControl relies on  *)
(* less, for it lets the wrapper answer or not as it likes.                *)
(***************************************************************************)
CONSTANTS
    Fault,    \* the faults that may be asked for
    Command,  \* what may be submitted
    opOf,     \* [Command -> {"apply", "clear"}]
    faultOf,  \* [Command -> Fault]
    Id,       \* commandIds, the names of the outcome files
    idOf      \* [Command -> Id]

VARIABLES
    waiting,  \* commands pending or in flight
    inForce,  \* faults in force in the lab
    outcome   \* [Id -> {"none", "applied", "rejected"}]

labVars == <<waiting, inForce, outcome>>

LabInit ==
    /\ waiting = {}
    /\ inForce = {}
    /\ outcome = [i \in Id |-> "none"]

\* CommandQueue.enqueue; a command may be submitted while it waits.
Submits(c) ==
    /\ waiting' = waiting \cup {c}
    /\ UNCHANGED <<inForce, outcome>>

\* The effect of an apply; what else was in force in its place has ended.
Begins(c) ==
    /\ c \in waiting /\ opOf[c] = "apply"
    /\ \E kept \in SUBSET inForce : inForce' = kept \cup {faultOf[c]}
    /\ UNCHANGED <<waiting, outcome>>

\* An undo: by a clear, by the sweep, by boot recovery.
Ends ==
    /\ inForce' \in SUBSET inForce
    /\ UNCHANGED <<waiting, outcome>>

\* The command was carried out, for this once.
Answers(c) ==
    /\ c \in waiting
    /\ outcome' = [outcome EXCEPT ![idOf[c]] = "applied"]
    /\ UNCHANGED <<waiting, inForce>>

\* It will not be, unless it was submitted more than once.
Refuses(c) ==
    /\ c \in waiting
    /\ outcome' = [outcome EXCEPT ![idOf[c]] = "rejected"]
    /\ waiting' \in {waiting \ {c}, waiting}
    /\ UNCHANGED inForce

\* Command files leave the queue, answered or unreadable or tried too often.
Retires ==
    /\ waiting' \in SUBSET waiting
    /\ UNCHANGED <<inForce, outcome>>

LabNext ==
    \/ \E c \in Command : Submits(c) \/ Begins(c) \/ Answers(c) \/ Refuses(c)
    \/ Ends \/ Retires

LabSpec == LabInit /\ [][LabNext]_labVars
=============================================================================
