---------------------------- MODULE FaultWrapper ----------------------------
(***************************************************************************)
(* The lab's fault wrapper: simulator/netemRunner.ts (LabFaultRunner) over *)
(* simulator/netemLease.ts, driven by the cycle of netemWrapperMain.ts and *)
(* by the command queue of netemWrapperHost.ts.  It is a process of its    *)
(* own beside the containers.  It keeps a state file of the faults it      *)
(* believes applied, takes commands from a directory the orchestrator      *)
(* writes, and undoes every fault whose lease has run out.                 *)
(*                                                                         *)
(* Classes `netem` and `service`; `dsl` faults, which the node retires by  *)
(* itself, are left out.  A docker call ends with the process that made it *)
(* and may fail, whether or not it has had its effect.                     *)
(***************************************************************************)
EXTENDS Naturals

CONSTANTS
    Container,    \* containers of the lab
    Fault,        \* fault ids, jobId: a run, a container and what is done to it
    slotOf,       \* [Fault -> Slots], the container and the class of a fault
    Command,      \* command files the orchestrator may submit
    opOf,         \* [Command -> {"apply", "clear"}]; a stop is an apply
    faultOf,      \* [Command -> Fault]
    leaseOf,      \* [Command -> Nat], expiresAtMs of an apply
    MaxAttempts,  \* MAX_COMMAND_ATTEMPTS
    Horizon,      \* bound: the clock stops here, past every lease
    None          \* no job, no fault, no command

Slots == Container \X {"netem", "service"}

Job == [id: Fault, expiresAt: Nat]

ASSUME WrapperAssumption ==
    /\ None \notin Fault \cup Command \cup Job
    /\ slotOf \in [Fault -> Slots]
    /\ opOf \in [Command -> {"apply", "clear"}]
    /\ faultOf \in [Command -> Fault]
    /\ leaseOf \in [Command -> Nat]
    /\ MaxAttempts \in Nat \ {0} /\ Horizon \in Nat
    /\ \A c \in Command : leaseOf[c] <= Horizon

VARIABLES
    now,
    lab,        \* what is in force: [Slots -> Fault \cup {None}]
    jobs,       \* the state file: [Slots -> Job \cup {None}]
    place,      \* the directory a command file is in
    sent,       \* how many commands have been submitted
    turn,       \* the order in which the names of their files sort
    attempts,   \* how often the command has been claimed, kept in its file
    outcome,    \* the outcome file of a command
    up,         \* the wrapper runs
    boot,       \* where bootCleanup is
    bootJobs,   \* the state it loaded
    bootTodo,   \* faults it has still to undo
    retained,   \* faults it failed to undo
    pc,         \* the await the cycle is at
    batch,      \* commands of this claim not yet taken up
    cmd,        \* the command in hand
    planned,    \* plan.state
    todo,       \* expired faults the sweep has still to undo
    succeeded   \* faults the sweep has undone

queueVars == <<place, sent, turn, attempts, outcome>>
bootVars == <<boot, bootJobs, bootTodo, retained>>
sweepVars == <<todo, succeeded>>
cycleVars == <<pc, batch, cmd, planned, sweepVars>>
vars == <<now, lab, jobs, queueVars, up, bootVars, cycleVars>>

NoJobs == [s \in Slots |-> None]

Init ==
    /\ now = 0
    /\ lab = [s \in Slots |-> None] /\ jobs = NoJobs
    /\ place = [c \in Command |-> "unsent"] /\ sent = 0
    /\ turn = [c \in Command |-> 0]
    /\ attempts = [c \in Command |-> 0] /\ outcome = [c \in Command |-> "none"]
    /\ up = FALSE
    /\ boot = "off" /\ bootJobs = NoJobs /\ bootTodo = {} /\ retained = {}
    /\ pc = "idle" /\ batch = {} /\ cmd = None /\ planned = NoJobs
    /\ todo = {} /\ succeeded = {}

-----------------------------------------------------------------------------
(***************************************************************************)
(* The lab                                                                 *)
(***************************************************************************)

ServiceOf(s) == <<s[1], "service">>
NetemOf(s) == <<s[1], "netem">>

\* dockerFaultExecutor: what an apply does.  A stopped container has no network
\* namespace: stopping it takes its qdisc with it.
Applied(f) ==
    LET s == slotOf[f]
    IN IF s[2] = "service"
       THEN [lab EXCEPT ![s] = f, ![NetemOf(s)] = None]
       ELSE [lab EXCEPT ![s] = f]

\* tc runs only inside a running container.
CanApply(f) == slotOf[f][2] = "netem" => lab[ServiceOf(slotOf[f])] = None

\* undoFor: `docker start` or a cleared qdisc; clearing one that is not there, or
\* that of a container that is not running, is no failure.
Undone(f) == [lab EXCEPT ![slotOf[f]] = None]

\* A call that is reported as failed has or has not had its effect.
ApplyFails(f) == lab' \in {lab} \cup (IF CanApply(f) THEN {Applied(f)} ELSE {})
UndoFails(f) == lab' \in {lab, Undone(f)}

-----------------------------------------------------------------------------
(***************************************************************************)
(* The orchestrator and the clock                                          *)
(***************************************************************************)

\* CommandQueue.enqueue, under a name that sorts behind all earlier ones.
Enqueue(c) ==
    /\ place[c] = "unsent"
    /\ place' = [place EXCEPT ![c] = "pending"]
    /\ sent' = sent + 1 /\ turn' = [turn EXCEPT ![c] = sent + 1]
    /\ UNCHANGED <<now, lab, jobs, attempts, outcome, up, bootVars, cycleVars>>

TimePasses ==
    /\ now < Horizon
    /\ now' = now + 1
    /\ UNCHANGED <<lab, jobs, queueVars, up, bootVars, cycleVars>>

-----------------------------------------------------------------------------
(***************************************************************************)
(* One cycle: runWrapperCycle                                              *)
(***************************************************************************)

InHand == batch # {} \/ cmd # None

\* mutant: a runner without its chain of operations
ChainFree_Always == TRUE

\* serialise: bootCleanup is the first operation in the chain, and the cycle
\* awaits each of its own.
ChainFree == boot = "done"

PutIn(commands, directory) ==
    place' = [c \in Command |-> IF c \in commands THEN directory ELSE place[c]]

\* Out of the queue, the name and the count of a file matter no more.
Forgets(commands) ==
    /\ turn' = [c \in Command |-> IF c \in commands THEN 0 ELSE turn[c]]
    /\ attempts' = [c \in Command |-> IF c \in commands THEN 0 ELSE attempts[c]]

\* The command in hand leaves the queue.
DoneWith(directory) ==
    /\ PutIn({cmd}, directory) /\ Forgets({cmd})
    /\ pc' = "next" /\ cmd' = None

Goto(stage) == pc' = stage /\ UNCHANGED cmd

Record(verdict) == outcome' = [outcome EXCEPT ![cmd] = verdict]

Pending == {c \in Command : place[c] = "pending"}

\* mutant: a file is deleted as it is read
CycleBegins_Consumes ==
    /\ up /\ pc = "idle"
    /\ pc' = "next" /\ batch' = Pending
    /\ PutIn(Pending, "done")
    /\ attempts' = [c \in Command |-> IF c \in Pending THEN attempts[c] + 1
                                      ELSE attempts[c]]
    /\ UNCHANGED <<now, lab, jobs, sent, turn, outcome, up, bootVars, cmd, planned,
                   sweepVars>>

\* The timer fires while no cycle is in flight, and claims all that is pending:
\* each attempt is counted in the file before the command is handed over.
CycleBegins ==
    /\ up /\ pc = "idle"
    /\ pc' = "next" /\ batch' = Pending
    /\ PutIn(Pending, "inflight")
    /\ attempts' = [c \in Command |-> IF c \in Pending THEN attempts[c] + 1
                                      ELSE attempts[c]]
    /\ UNCHANGED <<now, lab, jobs, sent, turn, outcome, up, bootVars, cmd, planned,
                   sweepVars>>

\* parseWrapperCommand refuses a lease that has run out, and says so first.
TakeCommand ==
    /\ pc = "next" /\ batch # {}
    /\ \E c \in batch :
         /\ \A d \in batch : turn[c] <= turn[d]
         /\ cmd' = c /\ batch' = batch \ {c}
         /\ IF opOf[c] = "apply" /\ leaseOf[c] <= now
            THEN pc' = "refuse" /\ outcome' = [outcome EXCEPT ![c] = "rejected"]
            ELSE pc' = "load" /\ UNCHANGED outcome
    /\ UNCHANGED <<now, lab, jobs, place, sent, turn, attempts, up, bootVars, planned,
                   sweepVars>>

Quarantine ==
    /\ pc = "refuse"
    /\ DoneWith("rejected")
    /\ UNCHANGED <<now, lab, jobs, sent, outcome, up, bootVars,
                   batch, planned, sweepVars>>

\* What applyLocked, stopServiceLocked and clearLocked do next leaves these be.
Elsewhere == <<now, queueVars, up, bootVars, batch, sweepVars>>

HasJob(f) == jobs[slotOf[f]] # None /\ jobs[slotOf[f]].id = f

\* planApply, planServiceStop: an identical fault under a live lease needs nothing.
NothingToDo(f) == HasJob(f) /\ jobs[slotOf[f]].expiresAt > now

\* mutant: a job that does not say its class, and so reads as netem
PlanApply_NoClass ==
    /\ pc = "load" /\ ChainFree /\ opOf[cmd] = "apply"
    /\ LET f == faultOf[cmd]
       IN \/ leaseOf[cmd] <= now /\ Goto("failed") /\ UNCHANGED planned
          \/ leaseOf[cmd] > now /\ NothingToDo(f) /\ Goto("applied") /\ UNCHANGED planned
          \/ /\ leaseOf[cmd] > now /\ ~NothingToDo(f) /\ Goto("save")
             /\ planned' = [jobs EXCEPT ![NetemOf(slotOf[f])] =
                              [id |-> f, expiresAt |-> leaseOf[cmd]]]
    /\ UNCHANGED <<Elsewhere, lab, jobs>>

\* The lease may have run out since the command was parsed.
PlanApply ==
    /\ pc = "load" /\ ChainFree /\ opOf[cmd] = "apply"
    /\ LET f == faultOf[cmd]
       IN \/ leaseOf[cmd] <= now /\ Goto("failed") /\ UNCHANGED planned
          \/ leaseOf[cmd] > now /\ NothingToDo(f) /\ Goto("applied") /\ UNCHANGED planned
          \/ /\ leaseOf[cmd] > now /\ ~NothingToDo(f) /\ Goto("save")
             /\ planned' = [jobs EXCEPT ![slotOf[f]] =
                              [id |-> f, expiresAt |-> leaseOf[cmd]]]
    /\ UNCHANGED <<Elsewhere, lab, jobs>>

\* Record before acting.
SavePlan ==
    /\ pc = "save"
    /\ \/ jobs' = planned /\ Goto("act")
       \/ UNCHANGED jobs /\ Goto("failed")
    /\ planned' = NoJobs
    /\ UNCHANGED <<Elsewhere, lab>>

Act ==
    /\ pc = "act"
    /\ \/ CanApply(faultOf[cmd]) /\ lab' = Applied(faultOf[cmd]) /\ Goto("applied")
       \/ ApplyFails(faultOf[cmd]) /\ Goto("failed")
    /\ UNCHANGED <<Elsewhere, jobs, planned>>

PlanClear ==
    /\ pc = "load" /\ ChainFree /\ opOf[cmd] = "clear"
    /\ Goto(IF HasJob(faultOf[cmd]) THEN "undo" ELSE "applied")
    /\ UNCHANGED <<Elsewhere, lab, jobs, planned>>

\* Act before dropping.
Undo ==
    /\ pc = "undo"
    /\ \/ lab' = Undone(faultOf[cmd]) /\ Goto("drop")
       \/ UndoFails(faultOf[cmd]) /\ Goto("failed")
    /\ UNCHANGED <<Elsewhere, jobs, planned>>

Without(faults) ==
    [s \in Slots |-> IF jobs[s] # None /\ jobs[s].id \in faults THEN None ELSE jobs[s]]

\* The state is read again, and only this job taken from it.
DropJob ==
    /\ pc = "drop"
    /\ \/ jobs' = Without({faultOf[cmd]}) /\ Goto("applied")
       \/ UNCHANGED jobs /\ Goto("failed")
    /\ UNCHANGED <<Elsewhere, lab, planned>>

RecordApplied ==
    /\ pc = "applied"
    /\ Record("applied") /\ Goto("ack")
    /\ UNCHANGED <<now, lab, jobs, place, sent, turn, attempts, up, bootVars, batch,
                   planned, sweepVars>>

Ack ==
    /\ pc = "ack"
    /\ DoneWith("done")
    /\ UNCHANGED <<now, lab, jobs, sent, outcome, up, bootVars,
                   batch, planned, sweepVars>>

\* mutant: every failed attempt is an outcome
CommandFails_Records ==
    /\ pc = "failed"
    /\ Goto("retry")
    /\ Record("rejected")
    /\ UNCHANGED <<now, lab, jobs, place, sent, turn, attempts, up, bootVars, batch,
                   planned, sweepVars>>

\* Only the last attempt that fails is an outcome.
CommandFails ==
    /\ pc = "failed"
    /\ Goto("retry")
    /\ IF attempts[cmd] >= MaxAttempts THEN Record("rejected") ELSE UNCHANGED outcome
    /\ UNCHANGED <<now, lab, jobs, place, sent, turn, attempts, up, bootVars, batch,
                   planned, sweepVars>>

Retry ==
    /\ pc = "retry"
    /\ \/ attempts[cmd] >= MaxAttempts /\ DoneWith("rejected")
       \/ /\ attempts[cmd] < MaxAttempts
          /\ PutIn({cmd}, "pending") /\ UNCHANGED <<turn, attempts>>
          /\ pc' = "next" /\ cmd' = None
    /\ UNCHANGED <<now, lab, jobs, sent, outcome, up, bootVars, batch, planned,
                   sweepVars>>

-----------------------------------------------------------------------------
(***************************************************************************)
(* The end of a cycle: the sweep of tickLocked                             *)
(***************************************************************************)

SweepRest == <<now, queueVars, up, bootVars, batch, cmd, planned>>

Recorded(state) == {state[s].id : s \in {r \in Slots : state[r] # None}}

\* mutant: an expiry of 0 is taken for no expiry
Expired_Truthy ==
    {f \in Recorded(jobs) : jobs[slotOf[f]].expiresAt \in 1..now}

Expired == {f \in Recorded(jobs) : jobs[slotOf[f]].expiresAt <= now}

\* byUndoRank: services before qdiscs.
UndoneNext(faults) ==
    {f \in faults : slotOf[f][2] = "netem" =>
                      \A g \in faults : slotOf[g][2] = "netem"}

SweepBegins ==
    /\ pc = "next" /\ batch = {} /\ ChainFree
    /\ todo' = Expired /\ succeeded' = {}
    /\ pc' = IF Expired = {} THEN "idle" ELSE "sweep"
    /\ UNCHANGED <<SweepRest, lab, jobs>>

\* runUndos: every undo is tried, and those that succeed are remembered.
SweepUndo(f) ==
    /\ pc = "sweep" /\ f \in UndoneNext(todo)
    /\ \/ lab' = Undone(f) /\ succeeded' = succeeded \cup {f}
       \/ UndoFails(f) /\ UNCHANGED succeeded
    /\ todo' = todo \ {f}
    /\ UNCHANGED <<SweepRest, jobs, pc>>

\* Only what has been undone is dropped; the rest is tried by the next sweep.
SweepEnds ==
    /\ pc = "sweep" /\ todo = {}
    /\ jobs' \in {Without(succeeded), jobs}
    /\ pc' = "idle" /\ succeeded' = {}
    /\ UNCHANGED <<SweepRest, lab, todo>>

-----------------------------------------------------------------------------
(***************************************************************************)
(* Crash and boot: main, bootCleanupLocked                                 *)
(***************************************************************************)

\* mutant: a command that was in flight starts its count again
Start_CountsAgain ==
    /\ ~up
    /\ up' = TRUE
    /\ PutIn({c \in Command : place[c] = "inflight"}, "pending")
    /\ attempts' = [c \in Command |-> IF place[c] = "inflight" THEN 0 ELSE attempts[c]]
    /\ UNCHANGED turn
    /\ boot' = "undo" /\ bootJobs' = jobs /\ bootTodo' = Recorded(jobs)
    /\ retained' = {}
    /\ UNCHANGED <<now, lab, jobs, sent, outcome, cycleVars>>

\* recoverInflight, and the load of bootCleanup.
Start ==
    /\ ~up
    /\ up' = TRUE
    /\ place' = [c \in Command |->
         IF place[c] # "inflight" THEN place[c]
         ELSE IF attempts[c] >= MaxAttempts THEN "rejected" ELSE "pending"]
    /\ Forgets({c \in Command : place'[c] = "rejected"})
    /\ boot' = "undo" /\ bootJobs' = jobs /\ bootTodo' = Recorded(jobs)
    /\ retained' = {}
    /\ UNCHANGED <<now, lab, jobs, sent, outcome, cycleVars>>

\* Whatever the lease says.
BootUndo(f) ==
    /\ boot = "undo" /\ f \in UndoneNext(bootTodo)
    /\ \/ lab' = Undone(f) /\ UNCHANGED retained
       \/ UndoFails(f) /\ retained' = retained \cup {f}
    /\ bootTodo' = bootTodo \ {f}
    /\ UNCHANGED <<now, jobs, queueVars, up, boot, bootJobs, cycleVars>>

\* What could not be undone is kept, as expired.
BootEnds ==
    /\ boot = "undo" /\ bootTodo = {}
    /\ LET kept == [s \in Slots |->
             IF bootJobs[s] # None /\ bootJobs[s].id \in retained
             THEN [id |-> bootJobs[s].id, expiresAt |-> 0] ELSE None]
       IN jobs' \in {kept, jobs}
    /\ boot' = "done" /\ bootJobs' = NoJobs /\ retained' = {}
    /\ UNCHANGED <<now, lab, queueVars, up, bootTodo, cycleVars>>

Crash ==
    /\ up
    /\ up' = FALSE
    /\ boot' = "off" /\ bootJobs' = NoJobs /\ bootTodo' = {} /\ retained' = {}
    /\ pc' = "idle" /\ batch' = {} /\ cmd' = None /\ planned' = NoJobs
    /\ todo' = {} /\ succeeded' = {}
    /\ UNCHANGED <<now, lab, jobs, queueVars>>

-----------------------------------------------------------------------------
CommandStep ==
    \/ TakeCommand \/ Quarantine
    \/ PlanApply \/ SavePlan \/ Act
    \/ PlanClear \/ Undo \/ DropJob
    \/ RecordApplied \/ Ack \/ CommandFails \/ Retry

SweepStep == SweepBegins \/ (\E f \in Fault : SweepUndo(f)) \/ SweepEnds

BootStep == (\E f \in Fault : BootUndo(f)) \/ BootEnds

Next ==
    \/ \E c \in Command : Enqueue(c)
    \/ TimePasses
    \/ CycleBegins \/ CommandStep \/ SweepStep
    \/ Start \/ BootStep \/ Crash

\* While the process is up its timer fires and what it awaits returns; an undo that
\* is tried again and again succeeds, and so does the save of a sweep.
Fairness ==
    /\ WF_vars(TimePasses)
    /\ WF_vars(BootStep)
    /\ WF_vars(CycleBegins) /\ WF_vars(CommandStep \/ SweepStep)
    /\ \A f \in Fault : SF_vars(SweepUndo(f) /\ f \in succeeded')
    /\ SF_vars(SweepEnds /\ jobs' = Without(succeeded))

WrapperSpec == Init /\ [][Next]_vars /\ Fairness

-----------------------------------------------------------------------------
(***************************************************************************)
(* Properties                                                              *)
(***************************************************************************)

JobsIn(state) ==
    /\ state \in [Slots -> Job \cup {None}]
    /\ \A s \in Slots : state[s] # None => slotOf[state[s].id] = s

InCommand == {"refuse", "load", "save", "act", "undo", "drop", "applied", "ack",
              "failed", "retry"}

WrapperTypeOK ==
    /\ now \in 0..Horizon
    /\ lab \in [Slots -> Fault \cup {None}]
    /\ JobsIn(jobs) /\ JobsIn(bootJobs) /\ JobsIn(planned)
    /\ place \in [Command -> {"unsent", "pending", "inflight", "done", "rejected"}]
    /\ sent \in Nat /\ turn \in [Command -> Nat] /\ attempts \in [Command -> Nat]
    /\ outcome \in [Command -> {"none", "applied", "rejected"}]
    /\ up \in BOOLEAN
    /\ boot \in {"off", "undo", "done"}
    /\ bootTodo \subseteq Fault /\ retained \subseteq Fault
    /\ pc \in {"idle", "next", "sweep"} \cup InCommand
    /\ batch \subseteq Command /\ cmd \in Command \cup {None}
    /\ todo \subseteq Fault /\ succeeded \subseteq Fault
    /\ cmd # None <=> pc \in InCommand
    /\ pc \in {"save", "act"} => opOf[cmd] = "apply"
    /\ pc \in {"undo", "drop"} => opOf[cmd] = "clear"

\* "The stored state is always a superset of what is actually applied ... never
\* an effect applied that nothing remembers" (LabFaultRunner): whatever docker
\* answers, wherever the process dies and while boot recovery and the first
\* cycle overlap, a slot in which a fault is in force has a job, so that the
\* sweep and the next boot will undo it.
NothingForgotten == \A s \in Slots : lab[s] # None => jobs[s] # None

\* "Writing one would tell the orchestrator a fault had failed while the wrapper
\* was still going to apply it" (runWrapperCycle): a command whose outcome is
\* `rejected` is not acted on again, not even when its file is claimed again
\* after a crash.
RefusedIsFinal ==
    \A c \in Command :
        outcome[c] = "rejected" =>
            ~(cmd = c /\ pc \in {"save", "act", "undo", "drop", "applied", "ack"})

\* Whenever the wrapper has died somebody starts it again, and from some moment on
\* it dies, if at all, over commands it has claimed.
KeptRunning == []<>up /\ <>[][Crash => InHand]_vars

\* "This is the recovery the acceptance gate turns on -- it depends on nothing
\* outside this process" (tick): where the wrapper is kept running every fault
\* ends, whatever commands are submitted, fail or are delivered again, and
\* although nobody clears it.
FaultsEnd == KeptRunning => <>[](\A s \in Slots : lab[s] = None)

\* "A command that kills the wrapper every time is counted each time and
\* eventually quarantined instead of being recovered for ever" (claim): no
\* command file stays in the queue.
CommandsSettle ==
    KeptRunning => <>[](\A c \in Command : place[c] \notin {"pending", "inflight"})

-----------------------------------------------------------------------------
(***************************************************************************)
(* What the orchestrator sees of the wrapper                               *)
(***************************************************************************)

InForce == {lab[s] : s \in Slots} \ {None}

\* A command that has been refused waits for nothing any more.
Waiting == {c \in Command : place[c] \in {"pending", "inflight"}
                             /\ outcome[c] # "rejected"}

Ledger == INSTANCE LabLedger WITH
              Id <- Command, idOf <- [c \in Command |-> c],
              waiting <- Waiting, inForce <- InForce

\* "The run reaches fault_active only once the wrapper says the faults are on"
\* (activateFault), and it may rely on no more than this: whatever crashes and
\* retries there are, a fault comes into force only through a command that is
\* still waiting, and a command that has been refused does not wait again.
KeepsLedger == Ledger!LabSpec

-----------------------------------------------------------------------------
\* "`applied` covers the idempotent case: the node is in the asked-for state"
\* (WrapperOutcome): when an apply has been answered with `applied`, its fault
\* is in force.
AppliedMeansOn ==
    pc = "ack" /\ opOf[cmd] = "apply" /\ outcome[cmd] = "applied"
        => lab[slotOf[faultOf[cmd]]] = faultOf[cmd]
=============================================================================
