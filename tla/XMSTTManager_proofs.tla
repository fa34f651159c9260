------------------------- MODULE XMSTTManager_proofs -------------------------
(***************************************************************************)
(* XMSTTManager never stalls, for any actions and any number of tasks, and *)
(* whether or not the Speech framework keeps the delegates of tasks alive. *)
(* Where it does not, one task runs at a time and reports to its action.   *)
(***************************************************************************)
EXTENDS XMSTTManager, FiniteSetTheorems, SequenceTheorems, TLAPS

\* NothingStalls is not inductive: the task that runs must be the one whose
\* delegate is the actuator, for the others may be heard by nobody.
ActuatorRuns ==
    /\ actionQueue # <<>> => isDoing
    /\ isDoing => actuator \in Running

IInv == TypeOK /\ ActuatorRuns

\* Adding a frame leaves the arrays arrays, or nil.
LEMMA FramesAreTyped ==
    ASSUME TypeOK, NEW action \in Actions \cup {Nil}, NEW state \in FrameStates,
           AddFrame(action, state)
    PROVE  sequenceFrameModels' \in [Actions -> Seq(FrameStates) \cup {Nil}]
<1>1. \A x \in Actions :
         addObject(sequenceFrameModels[x], state) \in Seq(FrameStates) \cup {Nil}
  BY DEF TypeOK, addObject
<1> QED
  BY <1>1 DEF AddFrame, TypeOK

\* Starting the next action, if there is one, makes its task the one heard.
LEMMA StartingStartsOne ==
    ASSUME NEW q \in Seq(Actions), NEW under \in [Tasks -> Task \cup {Nil}],
           actuator \in Tasks \cup {Nil}, StartNext(q, under)
    PROVE  /\ actionQueue' \in Seq(Actions)
           /\ isDoing' \in BOOLEAN
           /\ currentAction' \in Actions \cup {Nil}
           /\ actuator' \in Tasks \cup {Nil}
           /\ tasks' \in [Tasks -> Task \cup {Nil}]
           /\ ActuatorRuns'
<1>1. CASE q = <<>>
  BY <1>1, Zenon DEF StartNext, ActuatorRuns
<1>2. CASE q # <<>>
  <2>1. Head(q) \in Actions /\ Tail(q) \in Seq(Actions)
    BY <1>2, HeadTailProperties
  <2>2. PICK k \in Tasks :
           /\ tasks' = [under EXCEPT ![k] = [of |-> Head(q), cancelled |-> FALSE]]
           /\ actuator' = k
    BY <1>2 DEF StartNext
  <2>3. [of |-> Head(q), cancelled |-> FALSE] \in Task
    BY <2>1 DEF Task
  <2>4. tasks' \in [Tasks -> Task \cup {Nil}]
    BY <2>2, <2>3
  <2>5. tasks'[k] # Nil /\ ~ tasks'[k].cancelled
    <3>1. tasks'[k] = [of |-> Head(q), cancelled |-> FALSE]
      BY <2>2
    <3>2. tasks'[k] # Nil
      BY <2>3, <3>1, TaskAssumption
    <3>3. tasks'[k].cancelled = FALSE
      BY <3>1
    <3> QED
      BY <3>2, <3>3
  <2>6. actuator' \in Running'
    BY <2>2, <2>5 DEF Running
  <2>7. /\ isDoing' = TRUE /\ currentAction' = Head(q) /\ actionQueue' = Tail(q)
    BY <1>2 DEF StartNext
  <2> QED
    BY <2>1, <2>2, <2>4, <2>6, <2>7, Zenon DEF ActuatorRuns
<1> QED
  BY <1>1, <1>2

-----------------------------------------------------------------------------
\* With no action added, no task need run.
LEMMA StartsWithIInv == Init => IInv
<1> SUFFICES ASSUME Init PROVE IInv
  OBVIOUS
<1>1. /\ actionQueue \in Seq(Actions)
      /\ tasks \in [Tasks -> Task \cup {Nil}]
      /\ sequenceFrameModels \in [Actions -> Seq(FrameStates) \cup {Nil}]
      /\ waiting \subseteq Actions
  BY DEF Init
<1>2. TypeOK
  BY <1>1, Zenon DEF Init, TypeOK
<1>3. ActuatorRuns
  BY Zenon DEF Init, ActuatorRuns
<1> QED
  BY <1>2, <1>3 DEF IInv

\* Every step keeps the actuator's task running while the manager is busy.
LEMMA StepsKeepIInv ==
    ASSUME IInv, [Next]_vars
    PROVE  IInv'
<1>0. /\ TypeOK /\ ActuatorRuns
      /\ actionQueue \in Seq(Actions) /\ currentAction \in Actions \cup {Nil}
      /\ actuator \in Tasks \cup {Nil}
      /\ tasks \in [Tasks -> Task \cup {Nil}]
  BY DEF IInv, TypeOK
<1>1. ASSUME NEW action \in Actions, AddAction(action) PROVE IInv'
  <2>1. sequenceFrameModels' \in [Actions -> Seq(FrameStates) \cup {Nil}]
    BY <1>0, <1>1, FramesAreTyped DEF AddAction, FrameStates
  <2>2. waiting' \subseteq Actions
    BY <1>0, <1>1 DEF AddAction, TypeOK
  <2>3. Append(actionQueue, action) \in Seq(Actions)
    BY <1>0
  <2>4. CASE isDoing
    <3>1. /\ actionQueue' = Append(actionQueue, action)
          /\ UNCHANGED <<isDoing, currentAction, actuator, tasks>>
      BY <1>1, <2>4 DEF AddAction
    <3>2. Running' = Running
      BY <3>1 DEF Running
    <3>3. ActuatorRuns'
      BY <1>0, <2>4, <3>1, <3>2, Zenon DEF ActuatorRuns
    <3> QED
      BY <1>0, <2>1, <2>2, <2>3, <3>1, <3>3, Zenon DEF IInv, TypeOK
  <2>5. CASE ~ isDoing
    <3>1. StartNext(Append(actionQueue, action), tasks)
      BY <1>1, <2>5 DEF AddAction
    <3> QED
      BY <1>0, <2>1, <2>2, <2>3, <3>1, StartingStartsOne DEF IInv, TypeOK
  <2> QED
    BY <2>4, <2>5
<1>2. ASSUME StopAll PROVE IInv'
  <2>1. tasks' \in [Tasks -> Task \cup {Nil}]
    BY <1>0, <1>2 DEF StopAll, Task
  <2>2. actionQueue' \in Seq(Actions) /\ waiting' \subseteq Actions
    BY <1>2 DEF StopAll
  <2>3. ActuatorRuns'
    BY <1>2, Zenon DEF StopAll, ActuatorRuns
  <2> QED
    BY <1>0, <1>2, <2>1, <2>2, <2>3, Zenon DEF StopAll, IInv, TypeOK
<1>3. ASSUME NEW k \in Tasks, Hypothesis(k) PROVE IInv'
  <2>1. sequenceFrameModels' \in [Actions -> Seq(FrameStates) \cup {Nil}]
    BY <1>0, <1>3, FramesAreTyped DEF Hypothesis, FrameStates
  <2>2. UNCHANGED <<actionQueue, isDoing, currentAction, actuator, tasks, waiting>>
    BY <1>3 DEF Hypothesis, managerVars
  <2>3. ActuatorRuns'
    BY <1>0, <2>2 DEF ActuatorRuns, Running
  <2> QED
    BY <1>0, <2>1, <2>2, <2>3, Zenon DEF IInv, TypeOK
<1>4. ASSUME NEW k \in Tasks, Completion(k) PROVE IInv'
  <2>1. PICK state \in FrameStates : AddFrame(currentAction, state)
    BY <1>4 DEF Completion, FrameStates
  <2>2. sequenceFrameModels' \in [Actions -> Seq(FrameStates) \cup {Nil}]
    BY <1>0, <2>1, FramesAreTyped
  <2>3. Ended(k) \in [Tasks -> Task \cup {Nil}] /\ waiting' \subseteq Actions
    BY <1>0, <1>4 DEF Ended, Completion, TypeOK
  <2>4. StartNext(actionQueue, Ended(k))
    BY <1>4 DEF Completion
  <2> QED
    BY <1>0, <2>2, <2>3, <2>4, StartingStartsOne DEF IInv, TypeOK
<1>5. ASSUME NEW k \in Tasks, EndUnheard(k) PROVE IInv'
  <2>1. /\ UNCHANGED <<actionQueue, isDoing, currentAction, actuator>>
        /\ UNCHANGED <<sequenceFrameModels, waiting>>
        /\ tasks' = [tasks EXCEPT ![k] = Nil]
    BY <1>5 DEF EndUnheard, Ended, managerVars
  <2>2. tasks' \in [Tasks -> Task \cup {Nil}]
    BY <1>0, <2>1
  <2>3. actuator \in Running => k # actuator
    BY <1>5 DEF EndUnheard, Heard, Running
  <2>4. actuator \in Running => actuator \in Running'
    BY <1>0, <2>1, <2>3 DEF Running
  <2>5. ActuatorRuns'
    BY <1>0, <2>1, <2>4, Zenon DEF ActuatorRuns
  <2> QED
    BY <1>0, <2>1, <2>2, <2>5, Zenon DEF IInv, TypeOK
<1>6. ASSUME UNCHANGED vars PROVE IInv'
  <2>1. UNCHANGED <<actionQueue, isDoing, currentAction, actuator, tasks,
                    sequenceFrameModels, waiting>>
    BY <1>6 DEF vars, managerVars
  <2>2. ActuatorRuns'
    BY <1>0, <2>1 DEF ActuatorRuns, Running
  <2> QED
    BY <1>0, <2>1, <2>2, Zenon DEF IInv, TypeOK
<1> QED
  BY <1>1, <1>2, <1>3, <1>4, <1>5, <1>6 DEF Next

\* In every reachable state the variables have their types.
THEOREM ManagerTypes == Spec => []TypeOK
<1>1. IInv /\ [Next]_vars => IInv'
  BY StepsKeepIInv
<1>2. IInv => TypeOK
  BY DEF IInv
<1> QED
  BY StartsWithIInv, <1>1, <1>2, PTL DEF Spec

\* While actions wait the manager is busy, and while it is busy a task runs
\* whose end it will hear of.
THEOREM ManagerNeverStalls == Spec => []NothingStalls
<1>1. IInv /\ [Next]_vars => IInv'
  BY StepsKeepIInv
<1>2. IInv => NothingStalls
  <2>1. actuator \in Running => actuator \in Running \cap Heard
    BY DEF Running, Heard
  <2> QED
    BY <2>1 DEF IInv, ActuatorRuns, NothingStalls
<1> QED
  BY StartsWithIInv, <1>1, <1>2, PTL DEF Spec

-----------------------------------------------------------------------------
\* Without delegates that outlive the manager's reference, only the actuator's
\* task runs, only while the manager is busy, and it is the current action's.
ActuatorIsAlone ==
    /\ Running \subseteq {actuator}
    /\ Running # {} => isDoing
    /\ actuator \in Tasks /\ tasks[actuator] # Nil => currentAction = tasks[actuator].of

\* Starting the next action when no task runs leaves the actuator's alone.
LEMMA StartingAlone ==
    ASSUME NEW q \in Seq(Actions), NEW under \in [Tasks -> Task \cup {Nil}],
           StartNext(q, under),
           \A x \in Tasks : under[x] = Nil \/ under[x].cancelled,
           q = <<>> => actuator \notin Tasks \/ under[actuator] = Nil
    PROVE  ActuatorIsAlone'
<1>1. CASE q = <<>>
  <2>1. tasks' = under /\ actuator' = actuator
    BY <1>1 DEF StartNext
  <2>2. Running' = {}
    BY <2>1 DEF Running
  <2> QED
    BY <1>1, <2>1, <2>2 DEF ActuatorIsAlone
<1>2. CASE q # <<>>
  <2>1. Head(q) \in Actions
    BY <1>2, HeadTailProperties
  <2>2. PICK k \in Tasks :
           /\ tasks' = [under EXCEPT ![k] = [of |-> Head(q), cancelled |-> FALSE]]
           /\ actuator' = k
    BY <1>2 DEF StartNext
  <2>3. isDoing' = TRUE /\ currentAction' = Head(q)
    BY <1>2 DEF StartNext
  <2>4. \A x \in Tasks : x # k => tasks'[x] = under[x]
    BY <2>2
  <2>5. tasks'[k] = [of |-> Head(q), cancelled |-> FALSE]
    BY <2>2
  <2>6. Running' \subseteq {k}
    BY <2>4 DEF Running
  <2>7. currentAction' = tasks'[k].of
    BY <2>3, <2>5
  <2> QED
    BY <2>2, <2>3, <2>6, <2>7, Zenon DEF ActuatorIsAlone
<1> QED
  BY <1>1, <1>2

\* No step starts a task beside one that is heard.
LEMMA StepsKeepItAlone ==
    ASSUME ~ KeepsDelegates, TypeOK, ActuatorIsAlone, [Next]_vars
    PROVE  ActuatorIsAlone'
<1>0. /\ actionQueue \in Seq(Actions)
      /\ tasks \in [Tasks -> Task \cup {Nil}]
      /\ actuator \in Tasks \cup {Nil}
  BY DEF TypeOK
<1>1. ASSUME NEW action \in Actions, AddAction(action) PROVE ActuatorIsAlone'
  <2>1. CASE isDoing
    <3>1. UNCHANGED <<isDoing, currentAction, actuator, tasks>>
      BY <1>1, <2>1 DEF AddAction
    <3>2. Running' = Running
      BY <3>1 DEF Running
    <3> QED
      BY <3>1, <3>2, Zenon DEF ActuatorIsAlone
  <2>2. CASE ~ isDoing
    <3>1. StartNext(Append(actionQueue, action), tasks)
      BY <1>1, <2>2 DEF AddAction
    <3>2. Append(actionQueue, action) \in Seq(Actions) /\ Append(actionQueue, action) # <<>>
      BY <1>0, AppendProperties
    <3>3. Running = {}
      BY <2>2, Zenon DEF ActuatorIsAlone
    <3>4. \A x \in Tasks : tasks[x] = Nil \/ tasks[x].cancelled
      BY <3>3, Zenon DEF Running
    <3> QED
      BY <1>0, <3>1, <3>2, <3>4, StartingAlone
  <2> QED
    BY <2>1, <2>2
<1>2. ASSUME StopAll PROVE ActuatorIsAlone'
  <2>1. /\ UNCHANGED <<currentAction, actuator>>
        /\ tasks' = [k \in Tasks |->
                        IF k = actuator /\ tasks[k] # Nil
                        THEN [tasks[k] EXCEPT !.cancelled = TRUE] ELSE tasks[k]]
    BY <1>2 DEF StopAll
  <2>2. ASSUME NEW k \in Tasks, k # actuator PROVE tasks'[k] = tasks[k]
    BY <2>1, <2>2
  <2>3. ASSUME NEW k \in Tasks, k = actuator, tasks[k] # Nil
        PROVE  tasks'[k].cancelled = TRUE /\ tasks'[k].of = tasks[k].of
    <3>1. tasks[k] \in Task
      BY <1>0, <2>3
    <3> QED
      BY <2>1, <2>3, <3>1 DEF Task
  <2>4. ASSUME NEW k \in Tasks, k = actuator, tasks[k] = Nil PROVE tasks'[k] = Nil
    BY <2>1, <2>4
  <2>5. \A k \in Tasks : k \notin Running'
    <3>1. ASSUME NEW k \in Tasks, k # actuator PROVE k \notin Running'
      BY <2>2, <3>1, Zenon DEF ActuatorIsAlone, Running
    <3>2. ASSUME NEW k \in Tasks, k = actuator PROVE k \notin Running'
      BY <2>3, <2>4, <3>2 DEF Running
    <3> QED
      BY <3>1, <3>2
  <2>6. Running' = {}
    BY <2>5 DEF Running
  <2> QED
    BY <2>1, <2>3, <2>4, <2>6 DEF ActuatorIsAlone
<1>3. ASSUME NEW k \in Tasks, Hypothesis(k) PROVE ActuatorIsAlone'
  <2>1. UNCHANGED <<isDoing, currentAction, actuator, tasks>>
    BY <1>3 DEF Hypothesis, managerVars
  <2>2. Running' = Running
    BY <2>1 DEF Running
  <2> QED
    BY <2>1, <2>2, Zenon DEF ActuatorIsAlone
<1>4. ASSUME NEW k \in Tasks, Completion(k) PROVE ActuatorIsAlone'
  <2>1. k = actuator /\ StartNext(actionQueue, Ended(k))
    BY <1>4 DEF Completion, Heard
  <2>2. Ended(k) \in [Tasks -> Task \cup {Nil}] /\ Ended(k)[k] = Nil
    BY <1>0 DEF Ended
  <2>3. \A x \in Tasks : x # k => Ended(k)[x] = tasks[x]
    BY <1>0 DEF Ended
  <2>4. \A x \in Tasks : x # k => tasks[x] = Nil \/ tasks[x].cancelled
    BY <2>1, Zenon DEF ActuatorIsAlone, Running
  <2>5. \A x \in Tasks : Ended(k)[x] = Nil \/ Ended(k)[x].cancelled
    BY <2>2, <2>3, <2>4
  <2> QED
    BY <1>0, <2>1, <2>2, <2>5, StartingAlone
<1>5. ASSUME NEW k \in Tasks, EndUnheard(k) PROVE ActuatorIsAlone'
  <2>1. /\ UNCHANGED <<isDoing, currentAction, actuator>>
        /\ tasks' = [tasks EXCEPT ![k] = Nil]
    BY <1>5 DEF EndUnheard, Ended, managerVars
  <2>2. \A x \in Tasks : tasks'[x] = Nil \/ tasks'[x] = tasks[x]
    BY <1>0, <2>1
  <2>3. Running' \subseteq Running
    BY <2>2, Zenon DEF Running
  <2> QED
    BY <2>1, <2>2, <2>3, Zenon DEF ActuatorIsAlone
<1>6. ASSUME UNCHANGED vars PROVE ActuatorIsAlone'
  <2>1. UNCHANGED <<isDoing, currentAction, actuator, tasks>>
    BY <1>6 DEF vars, managerVars
  <2>2. Running' = Running
    BY <2>1 DEF Running
  <2> QED
    BY <2>1, <2>2, Zenon DEF ActuatorIsAlone
<1> QED
  BY <1>1, <1>2, <1>3, <1>4, <1>5, <1>6 DEF Next

\* If replaced delegates are dropped, only the actuator's task is heard.
LEMMA ManagerAlone ==
    ASSUME ~ KeepsDelegates PROVE Spec => []ActuatorIsAlone
<1>1. Init => ActuatorIsAlone
  <2> SUFFICES ASSUME Init PROVE ActuatorIsAlone
    OBVIOUS
  <2>1. Running = {} /\ actuator \notin Tasks
    BY ManagerAssumption DEF Init, Running
  <2> QED
    BY <2>1 DEF ActuatorIsAlone
<1>2. TypeOK /\ ActuatorIsAlone /\ [Next]_vars => ActuatorIsAlone'
  BY StepsKeepItAlone
<1> QED
  BY <1>1, <1>2, ManagerTypes, PTL DEF Spec

\* One recording is recognised at a time, when a replaced actuator is gone.
THEOREM ManagerOneAtATime ==
    ASSUME ~ KeepsDelegates PROVE Spec => []OneAtATime
<1>1. ASSUME ActuatorIsAlone PROVE OneAtATime
  <2>1. Running \subseteq {actuator}
    BY <1>1 DEF ActuatorIsAlone
  <2>2. IsFiniteSet({actuator}) /\ Cardinality({actuator}) = 1
    BY FS_Singleton
  <2>3. Cardinality(Running) <= Cardinality({actuator})
    BY <2>1, <2>2, FS_Subset
  <2> QED
    BY <2>2, <2>3 DEF OneAtATime
<1> QED
  BY <1>1, ManagerAlone, PTL

\* What a task reports reaches its action, when a replaced actuator is gone.
THEOREM ManagerReportsReachTheirAction ==
    ASSUME ~ KeepsDelegates PROVE Spec => []ReportsReachTheirAction
<1>1. ASSUME ActuatorIsAlone PROVE ReportsReachTheirAction
  BY <1>1 DEF ActuatorIsAlone, ReportsReachTheirAction, Heard
<1> QED
  BY <1>1, ManagerAlone, PTL
=============================================================================
