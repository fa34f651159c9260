---------------------------- MODULE XMSTTManager ----------------------------
(***************************************************************************)
(* XMSTTManager turns recordings into text one after the other: a queue of *)
(* actions, the action under way, and a JJVoiceConvertTextActuator, the    *)
(* delegate of one recognition task of the Speech framework.  Everything   *)
(* runs on the main thread.                                                *)
(*                                                                         *)
(* The handlers of an actuator do not know their action: they speak to     *)
(* whatever action is current when they run.                               *)
(***************************************************************************)
EXTENDS Naturals, SequencesExt

CONSTANTS Actions,          \* XMSTTAction objects
          Tasks,            \* slots for recognition tasks under way
          Nil,
          KeepsDelegates,   \* does a task keep its delegate alive?
          MaxQueue          \* bound on the queue of actions

ASSUME ManagerAssumption ==
    /\ Nil \notin Actions \cup Tasks
    /\ KeepsDelegates \in BOOLEAN
    /\ MaxQueue \in Nat

VARIABLES
    actionQueue,
    isDoing,
    currentAction,
    actuator,       \* the task whose delegate is the actuator, or Nil
    tasks,          \* the recognition tasks that have not ended
    sequenceFrameModels \* the frames of each action, or Nil

\* History variable.
VARIABLES
    waiting         \* actions added and not yet finished or stopped

managerVars == <<actionQueue, isDoing, currentAction>>
vars == <<managerVars, actuator, tasks, sequenceFrameModels, waiting>>

\* A task recognises the recording of an action; the manager may cancel it.
Task == [of : Actions, cancelled : BOOLEAN]

ASSUME TaskAssumption == Nil \notin Task

Init ==
    /\ actionQueue = <<>>
    /\ isDoing = FALSE
    /\ currentAction = Nil
    /\ actuator = Nil
    /\ tasks = [k \in Tasks |-> Nil]
    /\ sequenceFrameModels = [action \in Actions |-> Nil]
    /\ waiting = {}

\* addObject: to an array, or to nil.
addObject(list, frame) == IF list = Nil THEN Nil ELSE Append(list, frame)

\* addFrameModel_state: adds the frame to the array of the action, and startNext
\* of the action schedules startPlay when the array is not empty.  Nothing ever
\* allocates the array, so it stays nil and nothing is scheduled.  With no
\* action, the message itself goes to nil.
AddFrame(action, state) ==
    sequenceFrameModels' =
        [x \in Actions |-> IF x = action THEN addObject(sequenceFrameModels[x], state)
                           ELSE sequenceFrameModels[x]]

-----------------------------------------------------------------------------
\* startNext of the manager, with the queue as it is by now and the tasks that
\* have not ended by now.  The new actuator replaces the old one.
StartNext(queue, under) ==
    \/ /\ queue = <<>>
       /\ isDoing' = FALSE
       /\ currentAction' = Nil
       /\ actionQueue' = queue
       /\ tasks' = under
       /\ UNCHANGED actuator
    \/ /\ queue # <<>>
       /\ isDoing' = TRUE
       /\ currentAction' = Head(queue)
       /\ actionQueue' = Tail(queue)
       /\ \E k \in Tasks :
             /\ under[k] = Nil
             /\ tasks' = [under EXCEPT ![k] = [of |-> Head(queue), cancelled |-> FALSE]]
             /\ actuator' = k

\* Mutant: every action starts at once.
AddAction_Starting(action) ==
    /\ Len(actionQueue) < MaxQueue
    /\ AddFrame(action, "doing")
    /\ waiting' = waiting \cup {action}
    /\ StartNext(Append(actionQueue, action), tasks)

\* addAction: and startAll
AddAction(action) ==
    /\ Len(actionQueue) < MaxQueue
    /\ AddFrame(action, "doing")
    /\ waiting' = waiting \cup {action}
    /\ \/ /\ isDoing
          /\ actionQueue' = Append(actionQueue, action)
          /\ UNCHANGED <<isDoing, currentAction, actuator, tasks>>
       \/ /\ ~ isDoing
          /\ StartNext(Append(actionQueue, action), tasks)

\* Mutant: the tasks are cancelled and the manager stays busy.
StopAll_Busy ==
    /\ actionQueue' = <<>>
    /\ tasks' = [k \in Tasks |-> Nil]
    /\ waiting' = {}
    /\ UNCHANGED <<isDoing, currentAction, actuator, sequenceFrameModels>>

\* Mutant: the array is released instead of emptied.
StopAll_Releasing ==
    /\ actionQueue' = Nil
    /\ isDoing' = FALSE
    /\ waiting' = {}
    /\ UNCHANGED <<currentAction, actuator, tasks, sequenceFrameModels>>

\* Mutant: the current action is forgotten while its task still reports.
StopAll_Forgetting ==
    /\ actionQueue' = <<>>
    /\ isDoing' = FALSE
    /\ currentAction' = Nil
    /\ waiting' = {}
    /\ UNCHANGED <<actuator, tasks, sequenceFrameModels>>

\* stopAll: the current action stays current, and its task is cancelled.
StopAll ==
    /\ actionQueue' = <<>>
    /\ isDoing' = FALSE
    /\ tasks' = [k \in Tasks |->
                    IF k = actuator /\ tasks[k] # Nil
                    THEN [tasks[k] EXCEPT !.cancelled = TRUE] ELSE tasks[k]]
    /\ waiting' = {}
    /\ UNCHANGED <<currentAction, actuator, sequenceFrameModels>>

-----------------------------------------------------------------------------
\* The tasks whose delegate is still there.
Heard == {k \in Tasks : tasks[k] # Nil /\ (KeepsDelegates \/ k = actuator)}

\* didHypothesizeTranscription: goes to the action that is current now.
Hypothesis(k) ==
    /\ k \in Heard
    /\ ~ tasks[k].cancelled
    /\ AddFrame(currentAction, "doing")
    /\ UNCHANGED <<managerVars, actuator, tasks, waiting>>

Ended(k) == [tasks EXCEPT ![k] = Nil]

\* Mutant: a failure is shown and the next action is not started.
Completion_Stopping(k) ==
    /\ k \in Heard
    /\ \E state \in {"success", "failure"} : AddFrame(currentAction, state)
    /\ waiting' = waiting \ {currentAction}
    /\ tasks' = Ended(k)
    /\ UNCHANGED <<managerVars, actuator>>

\* didFinishSuccessfully: the current action gets the outcome, and the next
\* one starts.  A cancelled task ends here too.
Completion(k) ==
    /\ k \in Heard
    /\ \E state \in {"success", "failure"} : AddFrame(currentAction, state)
    /\ waiting' = waiting \ {currentAction}
    /\ StartNext(actionQueue, Ended(k))

\* The end of a task whose delegate is gone, or of a cancelled one that the
\* framework does not report.
EndUnheard(k) ==
    /\ tasks[k] # Nil
    /\ k \notin Heard \/ tasks[k].cancelled
    /\ tasks' = Ended(k)
    /\ UNCHANGED <<managerVars, actuator, sequenceFrameModels, waiting>>

-----------------------------------------------------------------------------
Next ==
    \/ \E action \in Actions : AddAction(action)
    \/ StopAll
    \/ \E k \in Tasks : Hypothesis(k) \/ Completion(k) \/ EndUnheard(k)

Spec == Init /\ [][Next]_vars

\* Every recognition task ends.
Fairness == \A k \in Tasks : WF_vars(Completion(k) \/ EndUnheard(k))

LiveSpec == Spec /\ Fairness

-----------------------------------------------------------------------------
FrameStates == {"doing", "success", "failure"}

\* The variables have the types the code gives them.
TypeOK ==
    /\ actionQueue \in Seq(Actions)
    /\ isDoing \in BOOLEAN
    /\ currentAction \in Actions \cup {Nil}
    /\ actuator \in Tasks \cup {Nil}
    /\ tasks \in [Tasks -> Task \cup {Nil}]
    /\ sequenceFrameModels \in [Actions -> Seq(FrameStates) \cup {Nil}]
    /\ waiting \subseteq Actions

\* The tasks that are recognising something.
Running == {k \in Tasks : tasks[k] # Nil /\ ~ tasks[k].cancelled}

\* While actions wait, the manager is busy, and while it is busy a task runs
\* whose end it will hear of: no order of additions, ends and stops leaves the
\* queue without anyone to start its next action.
NothingStalls ==
    /\ actionQueue # <<>> => isDoing
    /\ isDoing => Running \cap Heard # {}

\* One recording is recognised at a time.
OneAtATime == Cardinality(Running) <= 1

\* What a task reports reaches the action whose recording it recognises.
ReportsReachTheirAction ==
    \A k \in Heard : currentAction = tasks[k].of

\* Every action added is finished, or stopped.
ActionsEnd == \A action \in Actions : action \in waiting ~> action \notin waiting
=============================================================================
