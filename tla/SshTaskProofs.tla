---------------------------- MODULE SshTaskProofs ----------------------------
(***************************************************************************)
(* executeTask of the SSH executor is correct for every list of machines,  *)
(* any number of failures and of machines that stop answering.             *)
(***************************************************************************)
EXTENDS SshTask, TLAPS

(* A task writes while it copies, and only then; its kdebug runs after that. *)
StepInv ==
    /\ writers = {t \in Tasks : step[t] = "copy"}
    /\ \A t \in procs : step[t] \in {"run", "done"}
    /\ \A t \in Tasks : step[t] \in Steps \cup {"idle"} <=> verdict[t] = "none"
    /\ \A t \in Tasks : verdict[t] = "results" => t \in ended

Shared(m) == \E t, u \in Tasks : t # u /\ MachineOf[t] = m /\ MachineOf[u] = m

(* How /tmp/kdebug has become what it is. *)
FileInv ==
    /\ \A t \in Tasks : step[t] \in {"copy", "session", "run"} => binary[MachineOf[t]] # "old"
    /\ \A m \in Machines :
        /\ binary[m] = "cut" =>
             \E u \in Tasks : /\ MachineOf[u] = m
                              /\ step[u] = "copy" \/ (step[u] = "done" /\ u \in disturbed)
        /\ m \in clash \/ binary[m] = "mixed" => Shared(m)

(* What a task that is alone and undisturbed finds at each step. *)
AloneInv ==
    \A t \in Tasks :
        Alone(t) /\ t \notin disturbed =>
            /\ step[t] = "copy" => MachineOf[t] \notin clash
            /\ step[t] = "session" => binary[MachineOf[t]] = "this"
            /\ step[t] = "run" => executed[t] = "this"
            /\ step[t] = "done" => verdict[t] = "results"

IInv == TypeOK /\ StepInv /\ FileInv /\ RunsWhatWasCopied /\ AloneInv

LEMMA SshInit == Init => IInv
<1> SUFFICES ASSUME Init PROVE IInv
  OBVIOUS
<1> USE DEF Init, On
<1>1. TypeOK
  BY DEF TypeOK, Contents, Damaged
<1>2. StepInv
  BY DEF StepInv, Steps
<1>3. \A t \in Tasks : MachineOf[t] \in Machines
  BY DEF Machines
<1>4. FileInv
  BY <1>3 DEF FileInv
<1>5. RunsWhatWasCopied /\ AloneInv
  BY DEF RunsWhatWasCopied, AloneInv
<1> QED
  BY <1>1, <1>2, <1>4, <1>5 DEF IInv

LEMMA TypeStep == TypeOK /\ [Next]_vars => TypeOK'
<1> SUFFICES ASSUME TypeOK, [Next]_vars PROVE TypeOK'
  OBVIOUS
<1> USE DEF TypeOK, Steps, Contents, Damaged, Goto, Return, Disturb, local, remote, history
<1>0. \A t \in Tasks : MachineOf[t] \in Machines
  BY DEF Machines
<1>1. ASSUME NEW t \in Tasks, Start(t) PROVE TypeOK'
  BY <1>1 DEF Start
<1>2. ASSUME NEW t \in Tasks, Connect(t) PROVE TypeOK'
  BY <1>2 DEF Connect
<1>3. ASSUME NEW t \in Tasks, StepFails(t) PROVE TypeOK'
  BY <1>3 DEF StepFails
<1>4. ASSUME NEW t \in Tasks, OpenCopy(t) PROVE TypeOK'
  BY <1>4, <1>0 DEF OpenCopy
<1>5. ASSUME NEW t \in Tasks, FinishCopy(t) PROVE TypeOK'
  BY <1>5, <1>0 DEF FinishCopy
<1>6. ASSUME NEW t \in Tasks, CopyTimesOut(t) PROVE TypeOK'
  BY <1>6 DEF CopyTimesOut
<1>7. ASSUME NEW t \in Tasks, StartRun(t) PROVE TypeOK'
  BY <1>7, <1>0 DEF StartRun
<1>8. ASSUME NEW t \in Tasks, RunEnds(t) PROVE TypeOK'
  BY <1>8 DEF RunEnds, Decoded
<1>9. ASSUME NEW t \in Tasks, RunFails(t) PROVE TypeOK'
  BY <1>9 DEF RunFails
<1>10. ASSUME NEW t \in Tasks, ForeignCopy(t) PROVE TypeOK'
  BY <1>10, <1>0 DEF ForeignCopy
<1>11. ASSUME NEW t \in Tasks, OrphanEnds(t) PROVE TypeOK'
  BY <1>11 DEF OrphanEnds
<1>12. ASSUME NEW m \in Machines, Hang(m) PROVE TypeOK'
  BY <1>12 DEF Hang
<1>13. CASE UNCHANGED vars
  BY <1>13 DEF vars
<1> QED
  BY <1>1, <1>2, <1>3, <1>4, <1>5, <1>6, <1>7, <1>8, <1>9, <1>10, <1>11, <1>12, <1>13
     DEF Next, ExecuteTask, Progress, Failure, Environment

(* The steps of a task, its copy and its kdebug stay together. *)
LEMMA StepStep == TypeOK /\ StepInv /\ [Next]_vars => StepInv'
<1> SUFFICES ASSUME TypeOK, StepInv, [Next]_vars PROVE StepInv'
  OBVIOUS
<1> USE DEF TypeOK, StepInv, Steps, Contents, Damaged
<1>0. \A t \in Tasks : MachineOf[t] \in Machines
  BY DEF Machines
<1>1. ASSUME NEW t \in Tasks, Start(t) PROVE StepInv'
  BY <1>0, <1>1 DEF Start, Goto, remote, history
<1>2. ASSUME NEW t \in Tasks, Connect(t) PROVE StepInv'
  BY <1>0, <1>2 DEF Connect, Goto, remote, history
<1>3. ASSUME NEW t \in Tasks, StepFails(t) PROVE StepInv'
  BY <1>0, <1>3 DEF StepFails, Return, Disturb
<1>4. ASSUME NEW t \in Tasks, OpenCopy(t) PROVE StepInv'
  BY <1>0, <1>4 DEF OpenCopy, Goto, Return, On, history
<1>5. ASSUME NEW t \in Tasks, FinishCopy(t) PROVE StepInv'
  BY <1>0, <1>5 DEF FinishCopy, Goto, history
<1>6. ASSUME NEW t \in Tasks, CopyTimesOut(t) PROVE StepInv'
  BY <1>0, <1>6 DEF CopyTimesOut, Return
<1>7. ASSUME NEW t \in Tasks, StartRun(t) PROVE StepInv'
  BY <1>0, <1>7 DEF StartRun, Goto, Return, On, history
<1>8. ASSUME NEW t \in Tasks, RunEnds(t) PROVE StepInv'
  BY <1>0, <1>8 DEF RunEnds, Return, Decoded
<1>9. ASSUME NEW t \in Tasks, RunFails(t) PROVE StepInv'
  BY <1>0, <1>9 DEF RunFails, Return, Disturb
<1>10. ASSUME NEW t \in Tasks, ForeignCopy(t) PROVE StepInv'
  BY <1>0, <1>10 DEF ForeignCopy, Disturb, On, local
<1>11. ASSUME NEW t \in Tasks, OrphanEnds(t) PROVE StepInv'
  BY <1>0, <1>11 DEF OrphanEnds, local
<1>12. ASSUME NEW m \in Machines, Hang(m) PROVE StepInv'
  BY <1>0, <1>12 DEF Hang, local, remote, history
<1>13. CASE UNCHANGED vars
  BY <1>13 DEF vars, local, remote, history
<1> QED
  BY <1>1, <1>2, <1>3, <1>4, <1>5, <1>6, <1>7, <1>8, <1>9, <1>10, <1>11, <1>12, <1>13
     DEF Next, ExecuteTask, Progress, Failure, Environment

(* No step makes the file old again, or damages it unseen. *)
LEMMA FileStep == TypeOK /\ StepInv /\ FileInv /\ [Next]_vars => FileInv'
<1> SUFFICES ASSUME TypeOK, StepInv, FileInv, [Next]_vars PROVE FileInv'
  OBVIOUS
<1> USE DEF TypeOK, StepInv, FileInv, Steps, Contents, Damaged, Shared
<1>0. \A t \in Tasks : MachineOf[t] \in Machines
  BY DEF Machines
<1>1. ASSUME NEW t \in Tasks, Start(t) PROVE FileInv'
  BY <1>0, <1>1 DEF Start, Goto, remote, history
<1>2. ASSUME NEW t \in Tasks, Connect(t) PROVE FileInv'
  BY <1>0, <1>2 DEF Connect, Goto, remote, history
<1>3. ASSUME NEW t \in Tasks, StepFails(t) PROVE FileInv'
  BY <1>0, <1>3 DEF StepFails, Return, Disturb
<1>4. ASSUME NEW t \in Tasks, OpenCopy(t) PROVE FileInv'
  BY <1>0, <1>4 DEF OpenCopy, Goto, Return, On, history
<1>5. ASSUME NEW t \in Tasks, FinishCopy(t) PROVE FileInv'
  BY <1>0, <1>5 DEF FinishCopy, Goto, history
<1>6. ASSUME NEW t \in Tasks, CopyTimesOut(t) PROVE FileInv'
  BY <1>0, <1>6 DEF CopyTimesOut, Return
<1>7. ASSUME NEW t \in Tasks, StartRun(t) PROVE FileInv'
  BY <1>0, <1>7 DEF StartRun, Goto, Return, On, history
<1>8. ASSUME NEW t \in Tasks, RunEnds(t) PROVE FileInv'
  BY <1>0, <1>8 DEF RunEnds, Return, Decoded
<1>9. ASSUME NEW t \in Tasks, RunFails(t) PROVE FileInv'
  BY <1>0, <1>9 DEF RunFails, Return, Disturb
<1>10. ASSUME NEW t \in Tasks, ForeignCopy(t) PROVE FileInv'
  BY <1>0, <1>10 DEF ForeignCopy, Disturb, On, local
<1>11. ASSUME NEW t \in Tasks, OrphanEnds(t) PROVE FileInv'
  BY <1>0, <1>11 DEF OrphanEnds, local
<1>12. ASSUME NEW m \in Machines, Hang(m) PROVE FileInv'
  BY <1>0, <1>12 DEF Hang, local, remote, history
<1>13. CASE UNCHANGED vars
  BY <1>13 DEF vars, local, remote, history
<1> QED
  BY <1>1, <1>2, <1>3, <1>4, <1>5, <1>6, <1>7, <1>8, <1>9, <1>10, <1>11, <1>12, <1>13
     DEF Next, ExecuteTask, Progress, Failure, Environment

(* What is executed is what the task finds in its second session. *)
LEMMA RunsStep == TypeOK /\ StepInv /\ FileInv /\ RunsWhatWasCopied /\ [Next]_vars => RunsWhatWasCopied'
<1> SUFFICES ASSUME TypeOK, StepInv, FileInv, RunsWhatWasCopied, [Next]_vars PROVE RunsWhatWasCopied'
  OBVIOUS
<1> USE DEF TypeOK, StepInv, FileInv, RunsWhatWasCopied, Steps, Contents, Damaged, Shared, Alone, On
<1>0. \A t \in Tasks : MachineOf[t] \in Machines
  BY DEF Machines
<1>1. ASSUME NEW t \in Tasks, Start(t) PROVE RunsWhatWasCopied'
  BY <1>0, <1>1 DEF Start, Goto, remote, history
<1>2. ASSUME NEW t \in Tasks, Connect(t) PROVE RunsWhatWasCopied'
  BY <1>0, <1>2 DEF Connect, Goto, remote, history
<1>3. ASSUME NEW t \in Tasks, StepFails(t) PROVE RunsWhatWasCopied'
  BY <1>0, <1>3 DEF StepFails, Return, Disturb
<1>4. ASSUME NEW t \in Tasks, OpenCopy(t) PROVE RunsWhatWasCopied'
  BY <1>0, <1>4 DEF OpenCopy, Goto, Return, On, history
<1>5. ASSUME NEW t \in Tasks, FinishCopy(t) PROVE RunsWhatWasCopied'
  BY <1>0, <1>5 DEF FinishCopy, Goto, history
<1>6. ASSUME NEW t \in Tasks, CopyTimesOut(t) PROVE RunsWhatWasCopied'
  BY <1>0, <1>6 DEF CopyTimesOut, Return
<1>7. ASSUME NEW t \in Tasks, StartRun(t) PROVE RunsWhatWasCopied'
  BY <1>0, <1>7 DEF StartRun, Goto, Return, On, history
<1>8. ASSUME NEW t \in Tasks, RunEnds(t) PROVE RunsWhatWasCopied'
  BY <1>0, <1>8 DEF RunEnds, Return, Decoded
<1>9. ASSUME NEW t \in Tasks, RunFails(t) PROVE RunsWhatWasCopied'
  BY <1>0, <1>9 DEF RunFails, Return, Disturb
<1>10. ASSUME NEW t \in Tasks, ForeignCopy(t) PROVE RunsWhatWasCopied'
  BY <1>0, <1>10 DEF ForeignCopy, Disturb, On, local
<1>11. ASSUME NEW t \in Tasks, OrphanEnds(t) PROVE RunsWhatWasCopied'
  BY <1>0, <1>11 DEF OrphanEnds, local
<1>12. ASSUME NEW m \in Machines, Hang(m) PROVE RunsWhatWasCopied'
  BY <1>0, <1>12 DEF Hang, local, remote, history
<1>13. CASE UNCHANGED vars
  BY <1>13 DEF vars, local, remote, history
<1> QED
  BY <1>1, <1>2, <1>3, <1>4, <1>5, <1>6, <1>7, <1>8, <1>9, <1>10, <1>11, <1>12, <1>13
     DEF Next, ExecuteTask, Progress, Failure, Environment

(* Nobody but the task itself touches the machine of a task that is alone. *)
LEMMA AloneStep == TypeOK /\ StepInv /\ AloneInv /\ [Next]_vars => AloneInv'
<1> SUFFICES ASSUME TypeOK, StepInv, AloneInv, [Next]_vars PROVE AloneInv'
  OBVIOUS
<1> USE DEF TypeOK, StepInv, AloneInv, Steps, Contents, Damaged, Alone
<1>0. \A t \in Tasks : MachineOf[t] \in Machines
  BY DEF Machines
<1>1. ASSUME NEW t \in Tasks, Start(t) PROVE AloneInv'
  BY <1>0, <1>1 DEF Start, Goto, remote, history
<1>2. ASSUME NEW t \in Tasks, Connect(t) PROVE AloneInv'
  BY <1>0, <1>2 DEF Connect, Goto, remote, history
<1>3. ASSUME NEW t \in Tasks, StepFails(t) PROVE AloneInv'
  BY <1>0, <1>3 DEF StepFails, Return, Disturb
<1>4. ASSUME NEW t \in Tasks, OpenCopy(t) PROVE AloneInv'
  BY <1>0, <1>4 DEF OpenCopy, Goto, Return, On, history
<1>5. ASSUME NEW t \in Tasks, FinishCopy(t) PROVE AloneInv'
  BY <1>0, <1>5 DEF FinishCopy, Goto, history
<1>6. ASSUME NEW t \in Tasks, CopyTimesOut(t) PROVE AloneInv'
  BY <1>0, <1>6 DEF CopyTimesOut, Return
<1>7. ASSUME NEW t \in Tasks, StartRun(t) PROVE AloneInv'
  BY <1>0, <1>7 DEF StartRun, Goto, Return, On, history
<1>8. ASSUME NEW t \in Tasks, RunEnds(t) PROVE AloneInv'
  BY <1>0, <1>8 DEF RunEnds, Return, Decoded
<1>9. ASSUME NEW t \in Tasks, RunFails(t) PROVE AloneInv'
  BY <1>0, <1>9 DEF RunFails, Return, Disturb
<1>10. ASSUME NEW t \in Tasks, ForeignCopy(t) PROVE AloneInv'
  BY <1>0, <1>10 DEF ForeignCopy, Disturb, On, local
<1>11. ASSUME NEW t \in Tasks, OrphanEnds(t) PROVE AloneInv'
  BY <1>0, <1>11 DEF OrphanEnds, local
<1>12. ASSUME NEW m \in Machines, Hang(m) PROVE AloneInv'
  BY <1>0, <1>12 DEF Hang, local, remote, history
<1>13. CASE UNCHANGED vars
  BY <1>13 DEF vars, local, remote, history
<1> QED
  BY <1>1, <1>2, <1>3, <1>4, <1>5, <1>6, <1>7, <1>8, <1>9, <1>10, <1>11, <1>12, <1>13
     DEF Next, ExecuteTask, Progress, Failure, Environment

LEMMA SshStep == IInv /\ [Next]_vars => IInv'
BY TypeStep, StepStep, FileStep, RunsStep, AloneStep DEF IInv

(* IInv holds throughout. *)
LEMMA SshInvariant == Spec => []IInv
BY SshInit, SshStep, PTL DEF Spec

-----------------------------------------------------------------------------
(* Every variable keeps its type. *)
THEOREM TypeOKHolds == Spec => []TypeOK
<1>1. IInv => TypeOK
  BY DEF IInv
<1> QED
  BY SshInvariant, <1>1, PTL

(* No task executes the kdebug of an earlier batch, nor a damaged one that no
   other task of its machine has damaged, whatever fails and however the tasks
   are interleaved. *)
THEOREM RunsWhatWasCopiedHolds == Spec => []RunsWhatWasCopied
<1>1. IInv => RunsWhatWasCopied
  BY DEF IInv
<1> QED
  BY SshInvariant, <1>1, PTL

(* A task that is alone on its machine and meets no failure has results. *)
THEOREM AloneSucceedsHolds == Spec => []AloneSucceeds
<1>1. IInv => AloneSucceeds
  BY DEF IInv, AloneInv, AloneSucceeds
<1> QED
  BY SshInvariant, <1>1, PTL

(* Check results are those of a kdebug that has run to its end for this task. *)
LEMMA ResultsHaveRun == IInv => \A t \in Tasks : verdict[t] = "results" => t \in ended
BY DEF IInv, StepInv

(* A step leaves what the worker sees of a task alone, or returns its result. *)
Unseen(t) == (step'[t] = "done" <=> step[t] = "done") /\ verdict'[t] = verdict[t]
Returned(t, v) == step[t] # "done" /\ step'[t] = "done" /\ verdict'[t] = v

LEMMA StepEffect ==
    ASSUME IInv, [Next]_vars, NEW t \in Tasks
    PROVE  /\ t \in ended => t \in ended'
           /\ step[t] # "idle" => step'[t] # "idle"
           /\ \/ Unseen(t)
              \/ Returned(t, "results") /\ t \in ended'
              \/ Returned(t, "error")
<1> DEFINE Effect == /\ t \in ended => t \in ended'
                     /\ step[t] # "idle" => step'[t] # "idle"
                     /\ \/ Unseen(t)
                        \/ Returned(t, "results") /\ t \in ended'
                        \/ Returned(t, "error")
<1> USE DEF IInv, TypeOK, StepInv, Steps, Unseen, Returned, Goto, Return, Disturb, Contents, Damaged
<1>1. ASSUME NEW u \in Tasks, Start(u) PROVE Effect
  BY <1>1 DEF Start, remote, history
<1>2. ASSUME NEW u \in Tasks, Connect(u) PROVE Effect
  BY <1>2 DEF Connect, remote, history
<1>3. ASSUME NEW u \in Tasks, StepFails(u) PROVE Effect
  BY <1>3 DEF StepFails
<1>4. ASSUME NEW u \in Tasks, OpenCopy(u) PROVE Effect
  BY <1>4 DEF OpenCopy, history
<1>5. ASSUME NEW u \in Tasks, FinishCopy(u) PROVE Effect
  BY <1>5 DEF FinishCopy, history
<1>6. ASSUME NEW u \in Tasks, CopyTimesOut(u) PROVE Effect
  BY <1>6 DEF CopyTimesOut
<1>7. ASSUME NEW u \in Tasks, StartRun(u) PROVE Effect
  BY <1>7 DEF StartRun, history
<1>8. ASSUME NEW u \in Tasks, RunEnds(u) PROVE Effect
  BY <1>8 DEF RunEnds, Decoded
<1>9. ASSUME NEW u \in Tasks, RunFails(u) PROVE Effect
  BY <1>9 DEF RunFails
<1>10. ASSUME NEW u \in Tasks, ForeignCopy(u) PROVE Effect
  BY <1>10 DEF ForeignCopy, local
<1>11. ASSUME NEW u \in Tasks, OrphanEnds(u) PROVE Effect
  BY <1>11 DEF OrphanEnds, local
<1>12. ASSUME NEW m \in Machines, Hang(m) PROVE Effect
  BY <1>12 DEF Hang, local, history
<1>13. CASE UNCHANGED vars
  BY <1>13 DEF vars, local, history
<1> QED
  BY <1>1, <1>2, <1>3, <1>4, <1>5, <1>6, <1>7, <1>8, <1>9, <1>10, <1>11, <1>12, <1>13 DEF Next, ExecuteTask, Progress, Failure, Environment

LEMMA TaskStep ==
    ASSUME IInv, [Next]_vars, NEW t \in Tasks
    PROVE  [Task(t)!Next]_(Task(t)!vars)
<1> USE DEF Unseen, Returned
<1>1. CASE Unseen(t) /\ (t \in ended' <=> t \in ended)
  <2>1. UNCHANGED (IF step[t] = "done" THEN verdict[t] ELSE "running")
    BY <1>1
  <2>2. UNCHANGED (t \in ended)
    BY <1>1
  <2> QED
    BY <2>1, <2>2 DEF Task!vars
<1>2. CASE Unseen(t) /\ t \in ended'
  <2>1. Task(t)!RunEnds
    BY <1>2 DEF Task!RunEnds
  <2> QED
    BY <2>1 DEF Task!Next
<1>3. CASE Returned(t, "results") /\ t \in ended'
  <2>1. Task(t)!ReturnResults
    BY <1>3 DEF Task!ReturnResults
  <2> QED
    BY <2>1 DEF Task!Next
<1>4. CASE Returned(t, "error")
  <2>1. (t \in ended)' \in {(t \in ended), TRUE}
    <3>1. t \in ended => t \in ended'
      BY StepEffect
    <3>2. CASE t \in ended'
      <4>1. (t \in ended)' = TRUE
        BY <3>2
      <4> QED
        BY <4>1
    <3>3. CASE t \notin ended /\ t \notin ended'
      <4>1. UNCHANGED (t \in ended)
        BY <3>3
      <4> QED
        BY <4>1
    <3> QED
      BY <3>1, <3>2, <3>3
  <2>2. Task(t)!ReturnError
    BY <1>4, <2>1 DEF Task!ReturnError
  <2> QED
    BY <2>2 DEF Task!Next
<1> QED
  BY <1>1, <1>2, <1>3, <1>4, StepEffect

(* Every task is, for its worker, one that returns once: with the results of a
   kdebug that has run to its end, or with an error. *)
THEOREM TasksImplementHolds == Spec => TasksImplement
<1>1. Init => \A t \in Tasks : Task(t)!Init
  <2> SUFFICES ASSUME Init, NEW t \in Tasks PROVE Task(t)!Init
    OBVIOUS
  <2>1. step[t] = "idle" /\ t \notin ended
    BY DEF Init
  <2>2. (IF step[t] = "done" THEN verdict[t] ELSE "running") = "running"
    BY <2>1
  <2>3. (t \in ended) = FALSE
    BY <2>1
  <2> QED
    BY <2>2, <2>3 DEF Task!Init
<1>2. IInv /\ [Next]_vars => [TaskSteps]_vars
  BY TaskStep DEF TaskSteps
<1> QED
  BY SshInvariant, <1>1, <1>2, PTL DEF Spec, TasksImplement
=============================================================================
