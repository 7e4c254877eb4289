------------------------- MODULE FaultWrapperProofs -------------------------
(***************************************************************************)
(* Theorems about FaultWrapper, for any containers, faults and commands,   *)
(* any leases and any number of attempts.                                  *)
(***************************************************************************)
EXTENDS FaultWrapper, TLAPS

TargetOf(c) == slotOf[faultOf[c]]

\* What docker and the record are waited for in: only behind boot recovery.
Serialised ==
    /\ ~up => pc = "idle" /\ boot = "off"
    /\ pc \in {"idle", "sweep"} => batch = {}
    /\ pc \in {"save", "act", "undo", "drop", "sweep"} => boot = "done"

\* While a command or the sweep is between an effect and its record, what it is
\* about to record covers what is in force.
CoveredMidway ==
    /\ pc = "save" => /\ planned[TargetOf(cmd)] # None
                      /\ \A s \in Slots : jobs[s] # None => planned[s] # None
    /\ pc = "act" => jobs[TargetOf(cmd)] # None
    /\ pc = "drop" => lab[TargetOf(cmd)] = None
    /\ pc = "sweep" => \A f \in succeeded : lab[slotOf[f]] = None

\* Boot recovery has a copy of the record nobody else changes, and has still to
\* undo, or has failed to undo, all that is in force.
CoveredAtBoot ==
    boot = "undo" =>
        /\ bootJobs = jobs
        /\ \A s \in Slots : lab[s] # None => jobs[s].id \in bootTodo \cup retained

Covered == NothingForgotten /\ CoveredMidway /\ CoveredAtBoot

\* What the cycle has claimed is in flight.
Claimed ==
    /\ \A c \in batch : place[c] = "inflight"
    /\ cmd # None => place[cmd] = "inflight" /\ cmd \notin batch

\* A refused command is out of the queue, or about to leave it, or will be refused
\* again because its lease is over.
RefusedStays ==
    \A c \in Command : outcome[c] = "rejected" =>
        \/ place[c] = "rejected"
        \/ /\ place[c] = "inflight" /\ attempts[c] >= MaxAttempts
           /\ c \notin batch /\ (cmd = c => pc = "retry")
        \/ /\ place[c] \in {"pending", "inflight"}
           /\ opOf[c] = "apply" /\ leaseOf[c] <= now
           /\ cmd = c => pc = "refuse"

WrapperInv ==
    /\ WrapperTypeOK /\ Serialised
    /\ Covered
    /\ Claimed /\ RefusedStays

-----------------------------------------------------------------------------
(***************************************************************************)
(* Types                                                                   *)
(***************************************************************************)

LEMMA EffectsAreTyped ==
    ASSUME WrapperTypeOK, NEW f \in Fault
    PROVE  /\ Applied(f) \in [Slots -> Fault \cup {None}]
           /\ Undone(f) \in [Slots -> Fault \cup {None}]
           /\ ApplyFails(f) => lab' \in [Slots -> Fault \cup {None}]
           /\ UndoFails(f) => lab' \in [Slots -> Fault \cup {None}]
<1>1. slotOf[f] \in Slots
  BY WrapperAssumption
<1>2. Applied(f) \in [Slots -> Fault \cup {None}]
  BY <1>1 DEF Applied, WrapperTypeOK
<1>3. Undone(f) \in [Slots -> Fault \cup {None}]
  BY <1>1 DEF Undone, WrapperTypeOK
<1> QED
  BY <1>2, <1>3 DEF ApplyFails, UndoFails, WrapperTypeOK

LEMMA EffectsAreKnown ==
    ASSUME WrapperTypeOK, NEW f \in Fault
    PROVE  /\ Undone(f)[slotOf[f]] = None
           /\ \A s \in Slots : Undone(f)[s] # None => lab[s] # None /\ s # slotOf[f]
           /\ \A s \in Slots : Applied(f)[s] # None => lab[s] # None \/ s = slotOf[f]
<1>1. slotOf[f] \in Slots /\ lab \in [Slots -> Fault \cup {None}]
  BY WrapperAssumption DEF WrapperTypeOK
<1>2. \A s \in Slots : Applied(f)[s] # None => lab[s] # None \/ s = slotOf[f]
  BY <1>1 DEF Applied
<1> QED
  BY <1>1, <1>2 DEF Undone

LEMMA FailedEffectsAreKnown ==
    ASSUME WrapperTypeOK, NEW f \in Fault
    PROVE  /\ UndoFails(f) => \A s \in Slots : lab'[s] # None => lab[s] # None
           /\ ApplyFails(f) =>
                \A s \in Slots : lab'[s] # None => lab[s] # None \/ s = slotOf[f]
  BY EffectsAreKnown DEF UndoFails, ApplyFails

\* A job that is dropped is one of those to be dropped, and is in its own slot.
LEMMA WithoutDropsOnlyThese ==
    ASSUME NEW faults, JobsIn(jobs), NEW s \in Slots,
           jobs[s] # None, Without(faults)[s] = None
    PROVE  \E f \in faults : slotOf[f] = s
  BY DEF JobsIn, Without, Job

LEMMA WithoutIsTyped ==
    ASSUME NEW faults, JobsIn(jobs) PROVE JobsIn(Without(faults))
  BY DEF JobsIn, Without

LEMMA TypeStep ==
    ASSUME WrapperTypeOK, [Next]_vars PROVE WrapperTypeOK'
<1> USE WrapperAssumption
<1>1. ASSUME NEW c \in Command, Enqueue(c) PROVE WrapperTypeOK'
  BY <1>1 DEF WrapperTypeOK, Enqueue, bootVars, cycleVars, sweepVars, JobsIn
<1>2. CASE TimePasses
  BY <1>2 DEF WrapperTypeOK, TimePasses, bootVars, cycleVars, sweepVars,
     queueVars, JobsIn
<1>3. CASE CycleBegins
  BY <1>3 DEF WrapperTypeOK, CycleBegins, bootVars, sweepVars, JobsIn, PutIn,
     Pending, InCommand
<1>4. CASE TakeCommand
  BY <1>4 DEF WrapperTypeOK, TakeCommand, bootVars, sweepVars, JobsIn, InCommand
<1>5. CASE Quarantine
  BY <1>5 DEF WrapperTypeOK, Quarantine, bootVars, sweepVars, JobsIn, DoneWith,
     PutIn, Forgets, InCommand
<1>6. CASE PlanApply
  <2>1. cmd \in Command /\ faultOf[cmd] \in Fault /\ slotOf[faultOf[cmd]] \in Slots
    BY <1>6 DEF PlanApply, WrapperTypeOK, InCommand
  <2>2. JobsIn([jobs EXCEPT ![slotOf[faultOf[cmd]]] =
                  [id |-> faultOf[cmd], expiresAt |-> leaseOf[cmd]]])
    BY <2>1 DEF WrapperTypeOK, JobsIn, Job
  <2>3. JobsIn(planned)'
    BY <1>6, <2>2 DEF PlanApply, WrapperTypeOK, JobsIn
  <2> QED
    BY <1>6, <2>1, <2>3 DEF WrapperTypeOK, PlanApply, Elsewhere, queueVars,
       bootVars, sweepVars, Goto,
       InCommand, JobsIn
<1>7. CASE SavePlan
  BY <1>7 DEF WrapperTypeOK, SavePlan, Elsewhere, queueVars, bootVars,
     sweepVars, Goto, InCommand,
     JobsIn, NoJobs
<1>8. CASE Act
  <2>1. lab' \in [Slots -> Fault \cup {None}]
    BY <1>8, EffectsAreTyped DEF Act, WrapperTypeOK, InCommand
  <2> QED
    BY <1>8, <2>1 DEF WrapperTypeOK, Act, Elsewhere, queueVars, bootVars,
       sweepVars, Goto, InCommand,
       JobsIn
<1>9. CASE PlanClear
  BY <1>9 DEF WrapperTypeOK, PlanClear, Elsewhere, queueVars, bootVars,
     sweepVars, Goto, InCommand,
     JobsIn
<1>10. CASE Undo
  <2>1. lab' \in [Slots -> Fault \cup {None}]
    BY <1>10, EffectsAreTyped DEF Undo, WrapperTypeOK, InCommand
  <2> QED
    BY <1>10, <2>1 DEF WrapperTypeOK, Undo, Elsewhere, queueVars, bootVars,
       sweepVars, Goto, InCommand,
       JobsIn
<1>11. CASE DropJob
  <2>1. JobsIn(jobs)'
    BY <1>11, WithoutIsTyped DEF DropJob, WrapperTypeOK, JobsIn
  <2> QED
    BY <1>11, <2>1 DEF WrapperTypeOK, DropJob, Elsewhere, queueVars, bootVars,
       sweepVars, Goto, InCommand,
       JobsIn
<1>12. CASE RecordApplied
  BY <1>12 DEF WrapperTypeOK, RecordApplied, bootVars, sweepVars, Goto, Record,
     InCommand, JobsIn
<1>13. CASE Ack
  BY <1>13 DEF WrapperTypeOK, Ack, bootVars, sweepVars, JobsIn, DoneWith, PutIn,
     Forgets, InCommand
<1>14. CASE CommandFails
  BY <1>14 DEF WrapperTypeOK, CommandFails, bootVars, sweepVars, Goto, Record,
     InCommand, JobsIn
<1>15. CASE Retry
  BY <1>15 DEF WrapperTypeOK, Retry, bootVars, sweepVars, JobsIn, DoneWith,
     PutIn, Forgets, InCommand
<1>16. CASE SweepBegins
  <2>1. Expired \subseteq Fault
    BY DEF Expired, Recorded, WrapperTypeOK, JobsIn, Job
  <2> QED
    BY <1>16, <2>1 DEF WrapperTypeOK, SweepBegins, SweepRest, queueVars,
       bootVars, InCommand, JobsIn
<1>17. ASSUME NEW f \in Fault, SweepUndo(f) PROVE WrapperTypeOK'
  <2>1. lab' \in [Slots -> Fault \cup {None}]
    BY <1>17, EffectsAreTyped DEF SweepUndo
  <2> QED
    BY <1>17, <2>1 DEF WrapperTypeOK, SweepUndo, SweepRest, queueVars,
       bootVars, InCommand, JobsIn
<1>18. CASE SweepEnds
  <2>1. JobsIn(jobs)'
    BY <1>18, WithoutIsTyped DEF SweepEnds, WrapperTypeOK, JobsIn
  <2> QED
    BY <1>18, <2>1 DEF WrapperTypeOK, SweepEnds, SweepRest, queueVars,
       bootVars, InCommand, JobsIn
<1>19. CASE Start
  <2>1. Recorded(jobs) \subseteq Fault
    BY DEF Recorded, WrapperTypeOK, JobsIn, Job
  <2> QED
    BY <1>19, <2>1 DEF WrapperTypeOK, Start, cycleVars, sweepVars, Forgets,
       InCommand, JobsIn
<1>20. ASSUME NEW f \in Fault, BootUndo(f) PROVE WrapperTypeOK'
  <2>1. lab' \in [Slots -> Fault \cup {None}]
    BY <1>20, EffectsAreTyped DEF BootUndo
  <2> QED
    BY <1>20, <2>1 DEF WrapperTypeOK, BootUndo, cycleVars, sweepVars,
       queueVars, InCommand, JobsIn
<1>21. CASE BootEnds
  <2>1. JobsIn(jobs)' /\ JobsIn(bootJobs)'
    BY <1>21 DEF BootEnds, WrapperTypeOK, JobsIn, Job, NoJobs
  <2> QED
    BY <1>21, <2>1 DEF WrapperTypeOK, BootEnds, cycleVars, sweepVars,
       queueVars, InCommand, JobsIn
<1>22. CASE Crash
  BY <1>22 DEF WrapperTypeOK, Crash, queueVars, InCommand, JobsIn, NoJobs
<1>23. CASE UNCHANGED vars
  BY <1>23 DEF WrapperTypeOK, vars, queueVars, bootVars, cycleVars, sweepVars,
     InCommand, JobsIn
<1> QED
  BY <1>1, <1>2, <1>3, <1>4, <1>5, <1>6, <1>7, <1>8, <1>9, <1>10, <1>11, <1>12, <1>13,
     <1>14, <1>15, <1>16, <1>17, <1>18, <1>19, <1>20, <1>21, <1>22, <1>23
     DEF Next, CommandStep, SweepStep, BootStep

LEMMA TypeInit == Init => WrapperTypeOK
<1> SUFFICES ASSUME Init PROVE WrapperTypeOK
  OBVIOUS
<1>1. JobsIn(NoJobs)
  BY DEF JobsIn, NoJobs
<1>2. 0 \in 0..Horizon
  BY WrapperAssumption
<1> QED
  BY <1>1, <1>2 DEF Init, WrapperTypeOK, InCommand

\* The variables of the wrapper are of their types, and a command is in hand
\* exactly while the cycle is at one of its awaits.
THEOREM WrapperTypeCorrect == WrapperSpec => []WrapperTypeOK
<1> QED
  BY TypeInit, TypeStep, PTL DEF WrapperSpec

-----------------------------------------------------------------------------
\* What is awaited only behind boot recovery stays so.
LEMMA SerialisedStep ==
    ASSUME WrapperInv, [Next]_vars PROVE Serialised'
<1> USE WrapperAssumption DEF WrapperInv, Serialised, WrapperTypeOK, InCommand,
         queueVars, bootVars, cycleVars, sweepVars
<1>1. ASSUME NEW c \in Command, Enqueue(c) PROVE Serialised'
  BY <1>1 DEF Enqueue
<1>2. CASE TimePasses
  BY <1>2 DEF TimePasses
<1>3. CASE CycleBegins
  BY <1>3 DEF CycleBegins, PutIn, Pending
<1>4. CASE TakeCommand
  BY <1>4 DEF TakeCommand
<1>5. CASE Quarantine
  BY <1>5 DEF Quarantine, DoneWith, PutIn, Forgets
<1>6. CASE PlanApply
  BY <1>6 DEF PlanApply, Elsewhere, Goto, ChainFree
<1>7. CASE SavePlan
  BY <1>7 DEF SavePlan, Elsewhere, Goto
<1>8. CASE Act
  BY <1>8 DEF Act, Elsewhere, Goto
<1>9. CASE PlanClear
  BY <1>9 DEF PlanClear, Elsewhere, Goto, ChainFree
<1>10. CASE Undo
  BY <1>10 DEF Undo, Elsewhere, Goto
<1>11. CASE DropJob
  BY <1>11 DEF DropJob, Elsewhere, Goto
<1>12. CASE RecordApplied
  BY <1>12 DEF RecordApplied, Goto, Record
<1>13. CASE Ack
  BY <1>13 DEF Ack, DoneWith, PutIn, Forgets
<1>14. CASE CommandFails
  BY <1>14 DEF CommandFails, Goto, Record
<1>15. CASE Retry
  BY <1>15 DEF Retry, DoneWith, PutIn, Forgets
<1>16. CASE SweepBegins
  BY <1>16 DEF SweepBegins, SweepRest, ChainFree
<1>17. ASSUME NEW f \in Fault, SweepUndo(f) PROVE Serialised'
  BY <1>17 DEF SweepUndo, SweepRest
<1>18. CASE SweepEnds
  BY <1>18 DEF SweepEnds, SweepRest
<1>19. CASE Start
  BY <1>19 DEF Start, Forgets
<1>20. ASSUME NEW f \in Fault, BootUndo(f) PROVE Serialised'
  BY <1>20 DEF BootUndo
<1>21. CASE BootEnds
  BY <1>21 DEF BootEnds
<1>22. CASE Crash
  BY <1>22 DEF Crash
<1>23. CASE UNCHANGED vars
  BY <1>23 DEF vars
<1> QED
  BY <1>1, <1>2, <1>3, <1>4, <1>5, <1>6, <1>7, <1>8, <1>9, <1>10, <1>11, <1>12,
     <1>13, <1>14, <1>15, <1>16, <1>17, <1>18, <1>19, <1>20, <1>21, <1>22, <1>23
     DEF Next, CommandStep, SweepStep, BootStep

\* No step leaves a fault in force that is neither in the record nor in the plan that
\* is about to replace it.
LEMMA CoverStep ==
    ASSUME WrapperInv, [Next]_vars
    PROVE  Covered'
<1> USE WrapperAssumption DEF WrapperInv, Covered, NothingForgotten, CoveredMidway,
   CoveredAtBoot, Serialised, WrapperTypeOK, InCommand, TargetOf, JobsIn,
         queueVars, bootVars, cycleVars, sweepVars
<1>1. ASSUME NEW c \in Command, Enqueue(c) PROVE Covered'
  BY <1>1 DEF Enqueue
<1>2. CASE TimePasses
  BY <1>2 DEF TimePasses
<1>3. CASE CycleBegins
  BY <1>3 DEF CycleBegins, PutIn, Pending
<1>4. CASE TakeCommand
  BY <1>4 DEF TakeCommand
<1>5. CASE Quarantine
  BY <1>5 DEF Quarantine, DoneWith, PutIn, Forgets
<1>6. CASE PlanApply
  <2>1. cmd \in Command /\ faultOf[cmd] \in Fault /\ TargetOf(cmd) \in Slots
    BY <1>6 DEF PlanApply
  <2>2. boot = "done" /\ UNCHANGED <<lab, jobs, boot>>
    BY <1>6 DEF PlanApply, ChainFree, Elsewhere
  <2>3. ASSUME pc' = "save"
        PROVE  /\ planned'[TargetOf(cmd)] # None
               /\ \A s \in Slots : jobs[s] # None => planned'[s] # None
    <3>1. planned' = [jobs EXCEPT ![TargetOf(cmd)] =
                        [id |-> faultOf[cmd], expiresAt |-> leaseOf[cmd]]]
      BY <1>6, <2>3 DEF PlanApply, Goto
    <3>2. [id |-> faultOf[cmd], expiresAt |-> leaseOf[cmd]] \in Job
      BY <2>1 DEF Job
    <3> QED
      BY <2>1, <3>1, <3>2
  <2>4. cmd' = cmd /\ pc' \in {"failed", "applied", "save"}
    BY <1>6 DEF PlanApply, Goto
  <2> QED
    BY <2>2, <2>3, <2>4
<1>7. CASE SavePlan
  BY <1>7 DEF SavePlan, Elsewhere, Goto
<1>8. CASE Act
  <2>1. cmd \in Command /\ faultOf[cmd] \in Fault /\ TargetOf(cmd) \in Slots
    BY <1>8 DEF Act
  <2>2. /\ boot = "done" /\ jobs[TargetOf(cmd)] # None
        /\ UNCHANGED <<jobs, boot>> /\ pc' \in {"applied", "failed"}
    BY <1>8 DEF Act, Goto, Elsewhere
  <2>3. \A s \in Slots : lab'[s] # None => lab[s] # None \/ s = TargetOf(cmd)
    BY <1>8, <2>1, EffectsAreKnown, FailedEffectsAreKnown DEF Act
  <2> QED
    BY <2>2, <2>3
<1>9. CASE PlanClear
  BY <1>9 DEF PlanClear, Elsewhere, Goto, ChainFree
<1>10. CASE Undo
  <2>1. cmd \in Command /\ faultOf[cmd] \in Fault /\ TargetOf(cmd) \in Slots
    BY <1>10 DEF Undo
  <2>2. /\ boot = "done" /\ UNCHANGED <<jobs, boot, cmd>> /\ pc' \in {"drop", "failed"}
    BY <1>10 DEF Undo, Goto, Elsewhere
  <2>3. \A s \in Slots : lab'[s] # None => lab[s] # None
    BY <1>10, <2>1, EffectsAreKnown, FailedEffectsAreKnown DEF Undo
  <2>4. pc' = "drop" => lab'[TargetOf(cmd)] = None
    BY <1>10, <2>1, EffectsAreKnown DEF Undo, Goto
  <2> QED
    BY <2>2, <2>3, <2>4
<1>11. CASE DropJob
  <2>1. /\ boot = "done" /\ lab[TargetOf(cmd)] = None
        /\ UNCHANGED <<lab, boot>> /\ pc' \in {"applied", "failed"}
    BY <1>11 DEF DropJob, Goto, Elsewhere
  <2>2. ASSUME NEW s \in Slots, lab[s] # None PROVE jobs'[s] # None
    <3>1. jobs[s] # None
      BY <2>2
    <3>2. CASE jobs' = Without({faultOf[cmd]})
      BY <2>1, <2>2, <3>1, <3>2, WithoutDropsOnlyThese
    <3> QED
      BY <1>11, <3>1, <3>2 DEF DropJob
  <2> QED
    BY <2>1, <2>2
<1>12. CASE RecordApplied
  BY <1>12 DEF RecordApplied, Goto, Record
<1>13. CASE Ack
  BY <1>13 DEF Ack, DoneWith, PutIn, Forgets
<1>14. CASE CommandFails
  BY <1>14 DEF CommandFails, Goto, Record
<1>15. CASE Retry
  BY <1>15 DEF Retry, DoneWith, PutIn, Forgets
<1>16. CASE SweepBegins
  BY <1>16 DEF SweepBegins, SweepRest, ChainFree
<1>17. ASSUME NEW f \in Fault, SweepUndo(f) PROVE Covered'
  <2>1. boot = "done" /\ pc = "sweep" /\ UNCHANGED <<jobs, boot, pc>>
    BY <1>17 DEF SweepUndo, SweepRest
  <2>2. \A s \in Slots : lab'[s] # None => lab[s] # None
    BY <1>17, EffectsAreKnown, FailedEffectsAreKnown DEF SweepUndo
  <2>3. \A g \in succeeded' : lab'[slotOf[g]] = None
    <3>1. /\ slotOf[f] \in Slots
          /\ \A g \in succeeded : slotOf[g] \in Slots /\ lab[slotOf[g]] = None
      BY <2>1
    <3> QED
      BY <1>17, <2>2, <3>1, EffectsAreKnown DEF SweepUndo
  <2> QED
    BY <2>1, <2>2, <2>3
<1>18. CASE SweepEnds
  <2>1. boot = "done" /\ UNCHANGED <<lab, boot>> /\ pc' = "idle"
    BY <1>18 DEF SweepEnds, SweepRest
  <2>2. ASSUME NEW s \in Slots, lab[s] # None PROVE jobs'[s] # None
    <3>1. jobs[s] # None
      BY <2>2
    <3>2. CASE jobs' = Without(succeeded)
      <4>1. \A f \in succeeded : slotOf[f] # s
        BY <1>18, <2>2 DEF SweepEnds
      <4> QED
        BY <3>1, <3>2, <4>1, WithoutDropsOnlyThese
    <3> QED
      BY <1>18, <3>1, <3>2 DEF SweepEnds
  <2> QED
    BY <2>1, <2>2
<1>19. CASE Start
  <2>1. /\ pc = "idle" /\ UNCHANGED <<lab, jobs, pc>>
        /\ bootJobs' = jobs /\ bootTodo' = Recorded(jobs)
    BY <1>19 DEF Start
  <2>2. \A s \in Slots : lab[s] # None => jobs[s].id \in Recorded(jobs)
    BY DEF Recorded, WrapperInv, NothingForgotten
  <2> QED
    BY <2>1, <2>2
<1>20. ASSUME NEW f \in Fault, BootUndo(f) PROVE Covered'
  <2>1. boot = "undo" /\ UNCHANGED <<jobs, bootJobs, pc, cmd, succeeded>>
    BY <1>20 DEF BootUndo
  <2>2. pc \notin {"save", "act", "undo", "drop", "sweep"}
    BY <2>1
  <2>3. \A s \in Slots : lab'[s] # None => lab[s] # None
    BY <1>20, EffectsAreKnown, FailedEffectsAreKnown DEF BootUndo
  <2>4. ASSUME NEW s \in Slots, lab'[s] # None
        PROVE  jobs[s].id \in bootTodo' \cup retained'
    <3>1. jobs[s].id \in bootTodo \cup retained
      BY <2>1, <2>3, <2>4
    <3>2. jobs[s].id = f => s = slotOf[f]
      BY <2>3, <2>4
    <3>3. CASE lab' = Undone(f) /\ UNCHANGED retained
      BY <1>20, <2>4, <3>1, <3>2, <3>3, EffectsAreKnown DEF BootUndo
    <3> QED
      BY <1>20, <3>1, <3>3 DEF BootUndo
  <2> QED
    BY <2>1, <2>2, <2>3, <2>4
<1>21. CASE BootEnds
  <2>1. /\ boot = "undo" /\ bootTodo = {} /\ bootJobs = jobs
        /\ boot' = "done" /\ UNCHANGED <<lab, pc, cmd, succeeded>>
    BY <1>21 DEF BootEnds
  <2>2. pc \notin {"save", "act", "undo", "drop", "sweep"}
    BY <2>1
  <2>3. ASSUME NEW s \in Slots, lab[s] # None PROVE jobs'[s] # None
    <3>1. jobs[s] # None /\ bootJobs[s].id \in retained
      BY <2>1, <2>3
    <3>2. [id |-> bootJobs[s].id, expiresAt |-> 0] \in Job
      BY <2>1, <3>1 DEF Job
    <3> QED
      BY <1>21, <2>1, <3>1, <3>2 DEF BootEnds
  <2> QED
    BY <2>1, <2>2, <2>3
<1>22. CASE Crash
  BY <1>22 DEF Crash
<1>23. CASE UNCHANGED vars
  BY <1>23 DEF vars
<1> QED
  BY <1>1, <1>2, <1>3, <1>4, <1>5, <1>6, <1>7, <1>8, <1>9, <1>10, <1>11, <1>12,
     <1>13, <1>14, <1>15, <1>16, <1>17, <1>18, <1>19, <1>20, <1>21, <1>22, <1>23
     DEF Next, CommandStep, SweepStep, BootStep

\* No step brings a refused command back.
LEMMA QueueStep ==
    ASSUME WrapperInv, [Next]_vars PROVE (Claimed /\ RefusedStays)'
<1> USE WrapperAssumption DEF WrapperInv, Claimed, RefusedStays, Serialised,
   WrapperTypeOK, InCommand,
         queueVars, bootVars, cycleVars, sweepVars
<1>1. ASSUME NEW c \in Command, Enqueue(c) PROVE (Claimed /\ RefusedStays)'
  BY <1>1 DEF Enqueue
<1>2. CASE TimePasses
  BY <1>2 DEF TimePasses
<1>3. CASE CycleBegins
  BY <1>3 DEF CycleBegins, PutIn, Pending
<1>4. CASE TakeCommand
  BY <1>4 DEF TakeCommand
<1>5. CASE Quarantine
  BY <1>5 DEF Quarantine, DoneWith, PutIn, Forgets
<1>6. CASE PlanApply
  BY <1>6 DEF PlanApply, Elsewhere, Goto, ChainFree
<1>7. CASE SavePlan
  BY <1>7 DEF SavePlan, Elsewhere, Goto
<1>8. CASE Act
  BY <1>8 DEF Act, Elsewhere, Goto
<1>9. CASE PlanClear
  BY <1>9 DEF PlanClear, Elsewhere, Goto, ChainFree
<1>10. CASE Undo
  BY <1>10 DEF Undo, Elsewhere, Goto
<1>11. CASE DropJob
  BY <1>11 DEF DropJob, Elsewhere, Goto
<1>12. CASE RecordApplied
  BY <1>12 DEF RecordApplied, Goto, Record
<1>13. CASE Ack
  BY <1>13 DEF Ack, DoneWith, PutIn, Forgets
<1>14. CASE CommandFails
  BY <1>14 DEF CommandFails, Goto, Record
<1>15. CASE Retry
  BY <1>15 DEF Retry, DoneWith, PutIn, Forgets
<1>16. CASE SweepBegins
  BY <1>16 DEF SweepBegins, SweepRest, ChainFree
<1>17. ASSUME NEW f \in Fault, SweepUndo(f) PROVE (Claimed /\ RefusedStays)'
  BY <1>17 DEF SweepUndo, SweepRest
<1>18. CASE SweepEnds
  BY <1>18 DEF SweepEnds, SweepRest
<1>19. CASE Start
  BY <1>19 DEF Start, Forgets
<1>20. ASSUME NEW f \in Fault, BootUndo(f) PROVE (Claimed /\ RefusedStays)'
  BY <1>20 DEF BootUndo
<1>21. CASE BootEnds
  BY <1>21 DEF BootEnds
<1>22. CASE Crash
  BY <1>22 DEF Crash
<1>23. CASE UNCHANGED vars
  BY <1>23 DEF vars
<1> QED
  BY <1>1, <1>2, <1>3, <1>4, <1>5, <1>6, <1>7, <1>8, <1>9, <1>10, <1>11, <1>12,
     <1>13, <1>14, <1>15, <1>16, <1>17, <1>18, <1>19, <1>20, <1>21, <1>22, <1>23
     DEF Next, CommandStep, SweepStep, BootStep

LEMMA InvInit == Init => WrapperInv
  BY TypeInit DEF Init, WrapperInv, Serialised, Covered, NothingForgotten, CoveredMidway,
     CoveredAtBoot, Claimed, RefusedStays

\* The inductive invariant: what the wrapper knows of what is in force at each of
\* its awaits, and where the file of a refused command may be.
THEOREM WrapperInvariant == WrapperSpec => []WrapperInv
<1>1. WrapperInv /\ [Next]_vars => WrapperInv'
  BY TypeStep, SerialisedStep, CoverStep, QueueStep DEF WrapperInv
<1> QED
  BY <1>1, InvInit, PTL DEF WrapperSpec

\* No fault is in force that the state file does not know of, however docker calls,
\* saves and the process itself fail.
THEOREM WrapperForgetsNothing == WrapperSpec => []NothingForgotten
<1>1. WrapperInv => NothingForgotten
  BY DEF WrapperInv, Covered
<1> QED
  BY <1>1, WrapperInvariant, PTL

\* A command answered with `rejected` is never acted on again.
THEOREM WrapperRefusesForGood == WrapperSpec => []RefusedIsFinal
<1>1. WrapperInv => RefusedIsFinal
  BY WrapperAssumption DEF WrapperInv, Claimed, RefusedStays, RefusedIsFinal
<1> QED
  BY <1>1, WrapperInvariant, PTL

-----------------------------------------------------------------------------
(***************************************************************************)
(* The refinement: every step of the wrapper is a step of LabLedger, or    *)
(* changes nothing that LabLedger speaks of.                               *)
(***************************************************************************)

LedgerStep == Ledger!LabNext \/ UNCHANGED Ledger!labVars

LEMMA LedgerStutters ==
    ASSUME UNCHANGED <<place, outcome, lab>>
    PROVE  LedgerStep
BY DEF LedgerStep, Ledger!labVars, Waiting, InForce

\* Files leave the queue.
LEMMA LedgerRetires ==
    ASSUME UNCHANGED <<outcome, lab>>, Waiting' \subseteq Waiting
    PROVE  LedgerStep
BY DEF LedgerStep, Ledger!LabNext, Ledger!Retires, InForce

\* Effects end.
LEMMA LedgerEnds ==
    ASSUME UNCHANGED <<place, outcome>>, lab' \in [Slots -> Fault \cup {None}],
           \A s \in Slots : lab'[s] # None => lab'[s] = lab[s]
    PROVE  LedgerStep
<1>1. InForce' \in SUBSET InForce
  BY DEF InForce
<1> QED BY <1>1 DEF LedgerStep, Ledger!LabNext, Ledger!Ends, Waiting

\* An effect begins, through the command in hand.
LEMMA LedgerBegins ==
    ASSUME WrapperTypeOK, UNCHANGED <<place, outcome>>, cmd \in Waiting, opOf[cmd] = "apply",
           lab' = Applied(faultOf[cmd])
    PROVE  LedgerStep
<1> DEFINE f == faultOf[cmd]
<1>1. cmd \in Command /\ f \in Fault /\ f # None /\ slotOf[f] \in Slots
  BY WrapperAssumption DEF Waiting
<1>2. /\ lab'[slotOf[f]] = f
      /\ \A s \in Slots : lab'[s] \in {lab[s], f, None}
  BY <1>1 DEF WrapperTypeOK, Applied, NetemOf, Slots
<1>3. InForce' = (InForce' \ {f}) \cup {f} /\ InForce' \ {f} \in SUBSET InForce
  BY <1>1, <1>2 DEF InForce
<1>4. Ledger!Begins(cmd)
  BY <1>3 DEF Ledger!Begins, Waiting
<1> QED BY <1>1, <1>4 DEF LedgerStep, Ledger!LabNext

\* A verdict on a command that waits.
LEMMA LedgerJudges ==
    ASSUME WrapperTypeOK, NEW c \in Waiting, UNCHANGED <<place, lab>>,
           NEW verdict \in {"applied", "rejected"},
           outcome' = [outcome EXCEPT ![c] = verdict]
    PROVE  LedgerStep
<1>1. c \in Command /\ InForce' = InForce
  BY DEF Waiting, InForce
<1>2. CASE verdict = "applied"
  <2>1. Waiting' = Waiting
    BY <1>1, <1>2 DEF Waiting, WrapperTypeOK
  <2>2. Ledger!Answers(c)
    BY <1>1, <1>2, <2>1 DEF Ledger!Answers
  <2> QED BY <1>1, <2>2 DEF LedgerStep, Ledger!LabNext
<1>3. CASE verdict = "rejected"
  <2>1. Waiting' = Waiting \ {c}
    BY <1>1, <1>3 DEF Waiting, WrapperTypeOK
  <2>2. Ledger!Refuses(c)
    BY <1>1, <1>3, <2>1 DEF Ledger!Refuses
  <2> QED BY <1>1, <2>2 DEF LedgerStep, Ledger!LabNext
<1> QED BY <1>2, <1>3

\* The command in hand waits until its verdict is written.
LEMMA InHandWaits ==
    ASSUME WrapperInv, pc \in {"load", "save", "act", "undo", "drop", "applied", "failed"}
    PROVE  cmd \in Waiting
BY WrapperAssumption
   DEF WrapperInv, WrapperTypeOK, InCommand, Claimed, RefusedStays, Waiting

\* What undoing a fault leaves in force was in force.
LEMMA UndosOnlyEnd ==
    ASSUME WrapperTypeOK, NEW f \in Fault, lab' = Undone(f) \/ lab' = lab
    PROVE  /\ lab' \in [Slots -> Fault \cup {None}]
           /\ \A s \in Slots : lab'[s] # None => lab'[s] = lab[s]
BY WrapperAssumption DEF WrapperTypeOK, Undone

LEMMA WrapperStepsLedger ==
    ASSUME WrapperInv, [Next]_vars
    PROVE  LedgerStep
<1> USE WrapperAssumption DEF queueVars, bootVars, cycleVars, sweepVars
<1>0. WrapperTypeOK
  BY DEF WrapperInv
<1>1. ASSUME NEW c \in Command, Enqueue(c) PROVE LedgerStep
  <2>1. outcome[c] # "rejected"
    BY <1>1 DEF Enqueue, WrapperInv, RefusedStays
  <2>2. Waiting' = Waiting \cup {c}
    BY <1>0, <1>1, <2>1 DEF Enqueue, Waiting, WrapperTypeOK
  <2>3. Ledger!Submits(c)
    BY <1>1, <2>2 DEF Enqueue, Ledger!Submits, InForce
  <2> QED BY <1>1, <2>3 DEF LedgerStep, Ledger!LabNext
<1>2. CASE TimePasses \/ UNCHANGED vars
  BY <1>2, LedgerStutters DEF TimePasses, vars
<1>3. CASE CycleBegins
  <2>1. Waiting' \subseteq Waiting /\ UNCHANGED <<outcome, lab>>
    BY <1>0, <1>3 DEF CycleBegins, PutIn, Pending, Waiting, WrapperTypeOK
  <2> QED BY <2>1, LedgerRetires
<1>4. CASE TakeCommand
  <2>1. PICK c \in batch :
          outcome' = outcome \/ outcome' = [outcome EXCEPT ![c] = "rejected"]
    BY <1>4 DEF TakeCommand
  <2>2. UNCHANGED <<place, lab>>
    BY <1>4 DEF TakeCommand
  <2>3. CASE outcome[c] = "rejected"
    <3>1. outcome' = outcome
      BY <1>0, <2>1, <2>3 DEF WrapperTypeOK
    <3> QED BY <2>2, <3>1, LedgerStutters
  <2>4. CASE outcome[c] # "rejected"
    <3>1. c \in Waiting
      BY <1>0, <2>4 DEF WrapperInv, WrapperTypeOK, Claimed, Waiting
    <3> QED BY <1>0, <2>1, <2>2, <3>1, LedgerStutters, LedgerJudges
  <2> QED BY <2>3, <2>4
<1>5. CASE Quarantine \/ Ack \/ Retry
  <2>1. UNCHANGED <<outcome, lab>>
    BY <1>5 DEF Quarantine, Ack, Retry
  <2>2. cmd \in Command /\ place[cmd] = "inflight"
    BY <1>0, <1>5
       DEF Quarantine, Ack, Retry, WrapperInv, WrapperTypeOK, InCommand, Claimed
  <2>3. \E directory \in {"done", "rejected", "pending"} : PutIn({cmd}, directory)
    BY <1>5 DEF Quarantine, Ack, Retry, DoneWith
  <2>4. Waiting' \subseteq Waiting
    BY <1>0, <2>1, <2>2, <2>3 DEF PutIn, Waiting, WrapperTypeOK
  <2> QED BY <2>1, <2>4, LedgerRetires
<1>6. CASE PlanApply \/ SavePlan \/ PlanClear \/ DropJob
  BY <1>6, LedgerStutters DEF PlanApply, SavePlan, PlanClear, DropJob, Elsewhere
<1>7. CASE Act
  <2>1. cmd \in Waiting /\ opOf[cmd] = "apply"
    BY <1>0, <1>7, InHandWaits DEF Act, WrapperTypeOK
  <2>2. UNCHANGED <<place, outcome>> /\ (lab' = lab \/ lab' = Applied(faultOf[cmd]))
    BY <1>7 DEF Act, ApplyFails, Elsewhere
  <2> QED BY <1>0, <2>1, <2>2, LedgerBegins, LedgerStutters
<1>8. CASE Undo
  <2>1. cmd \in Command /\ faultOf[cmd] \in Fault
    BY <1>0, <1>8 DEF Undo, WrapperTypeOK, InCommand
  <2>2. /\ UNCHANGED <<place, outcome>>
        /\ lab' = Undone(faultOf[cmd]) \/ lab' = lab
    BY <1>8 DEF Undo, UndoFails, Elsewhere
  <2> QED BY <1>0, <2>1, <2>2, UndosOnlyEnd, LedgerEnds
<1>9. CASE RecordApplied \/ CommandFails
  <2>1. cmd \in Waiting /\ UNCHANGED <<place, lab>>
    BY <1>9, InHandWaits DEF RecordApplied, CommandFails
  <2>2. \/ outcome' = outcome
        \/ \E verdict \in {"applied", "rejected"} :
              outcome' = [outcome EXCEPT ![cmd] = verdict]
    BY <1>9 DEF RecordApplied, CommandFails, Record
  <2> QED BY <1>0, <2>1, <2>2, LedgerStutters, LedgerJudges
<1>10. CASE SweepBegins \/ SweepEnds
  BY <1>10, LedgerStutters DEF SweepBegins, SweepEnds, SweepRest
<1>11. ASSUME NEW f \in Fault, SweepUndo(f) \/ BootUndo(f) PROVE LedgerStep
  <2>1. UNCHANGED <<place, outcome>> /\ (lab' = Undone(f) \/ lab' = lab)
    BY <1>11 DEF SweepUndo, BootUndo, UndoFails, SweepRest
  <2> QED BY <1>0, <2>1, UndosOnlyEnd, LedgerEnds
<1>12. CASE Start
  <2>1. UNCHANGED <<outcome, lab>> /\ Waiting' \subseteq Waiting
    BY <1>0, <1>12 DEF Start, Waiting, WrapperTypeOK
  <2> QED BY <2>1, LedgerRetires
<1>13. CASE BootEnds \/ Crash
  BY <1>13, LedgerStutters DEF BootEnds, Crash
<1> QED
  BY <1>1, <1>2, <1>3, <1>4, <1>5, <1>6, <1>7, <1>8, <1>9, <1>10, <1>11, <1>12, <1>13
     DEF Next, CommandStep, SweepStep, BootStep

\* The wrapper implements LabLedger: whatever crashes, failures and retries there
\* are, a fault comes into force through a command that waits and is not refused.
THEOREM WrapperKeepsLedger == WrapperSpec => KeepsLedger
<1>1. Init => Ledger!LabInit
  BY WrapperAssumption DEF Init, Ledger!LabInit, Waiting, InForce
<1>2. WrapperInv /\ [Next]_vars => [Ledger!LabNext]_(Ledger!labVars)
  BY WrapperStepsLedger DEF LedgerStep
<1> QED
  BY <1>1, <1>2, WrapperInvariant, PTL DEF WrapperSpec, KeepsLedger, Ledger!LabSpec
=============================================================================
