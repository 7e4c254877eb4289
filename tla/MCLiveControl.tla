---------------------------- MODULE MCLiveControl ---------------------------
(***************************************************************************)
(* Small labs for the runs of the live control plane.                      *)
(***************************************************************************)
EXTENDS LiveControl

Asking(op, r, o) == [op |-> op, run |-> r, by |-> o]

\* A's lock is in force when B appears, and expires as C does.
ThreeBorn == [A |-> 0, B |-> 2, C |-> 3]
TwoBorn == [A |-> 0, B |-> 1]

\* Run A has a scheduled stop and a planned end, run B has neither.
LabAsks == [startA |-> Asking("start", "A", "ann"),
            abortA |-> Asking("abort", "A", "bob"),
            endA |-> Asking("recover", "A", "system"),
            startB |-> Asking("start", "B", "ann"),
            recoverB |-> Asking("recover", "B", "bob"),
            startC |-> Asking("start", "C", "bob")]

\* A runs to its planned end while it is aborted, or while another run asks; B
\* is started and recovered, each twice.
LabCallings ==
    {[startA |-> 1, endA |-> 2, abortA |-> 1, startB |-> 0, startC |-> 0, recoverB |-> 0],
     [startA |-> 1, endA |-> 2, abortA |-> 0, startB |-> 1, startC |-> 0, recoverB |-> 0],
     [startA |-> 2, endA |-> 2, abortA |-> 0, startB |-> 0, startC |-> 1, recoverB |-> 0],
     [startA |-> 0, endA |-> 0, abortA |-> 0, startB |-> 2, startC |-> 0, recoverB |-> 2]}
LabSchedule == [stop |-> [run |-> "A", op |-> "apply", offset |-> 1, maxAttempts |-> 1,
                          request |-> None],
                end |-> [run |-> "A", op |-> "end", offset |-> 1, maxAttempts |-> 2,
                         request |-> "endA"]]

\* Two starts of one run by one operator, and one of a later run.
TwiceAsks == [start1 |-> Asking("start", "A", "ann"),
              start2 |-> Asking("start", "A", "ann"),
              startB |-> Asking("start", "B", "bob")]
OnceEach == {[q \in Request |-> 1]}
NoActions == [a \in {} |-> a]
=============================================================================
