----------------------------- MODULE TestcaseExec -----------------------------
(***************************************************************************)
(* The execution of test cases, one after the other: Testcase::exec() and  *)
(* its state functions, finishAndExit(), the two waits and the slot that   *)
(* observes exceptions of the QML engine (src/src/qst/testcase.cpp).       *)
(*                                                                         *)
(* JavaScript code of a document is called for the signals of its test     *)
(* case, for events, and as the function run().  A call that waits opens a *)
(* nested event loop, so the calls in progress form a stack.  What the     *)
(* code computes is left open: it may fail a verification, raise an error, *)
(* wait, start a process or return.  The code has no try statements.  An   *)
(* event is whatever a probe or a timer reports; a process that a test     *)
(* case has started reports to the test case's probe until it ends, even   *)
(* after the test case has: the documents are never deleted.               *)
(*                                                                         *)
(* An exception of the engine lets the JavaScript function on top of the   *)
(* stack return; a function called while an exception is pending does      *)
(* nothing.  Components are initialised and cleaned up by C++ code that    *)
(* processes events while it waits for a target (RocHostController).       *)
(***************************************************************************)
EXTENDS Naturals, Sequences, SequencesExt

CONSTANTS
    LastTest,    \* how many test cases are executed
    MaxCalls,    \* bound on the calls from signals and events, for each test case
    MaxDepth     \* bound on the calls in progress

ASSUME LastTestAssumption == LastTest \in Nat \ {0}
ASSUME BoundsAssumption == MaxCalls \in Nat /\ MaxDepth \in Nat \ {0}

Tests == 1..LastTest

VARIABLES
    test,        \* the test case executed last, 0 before the first
    stage,       \* where exec() is, "idle" while it is not called
    instance,    \* m_currentTestCase, 0 if it is null
    result,      \* m_result of each test case
    frames,      \* calls in progress, innermost last
    exception,   \* the pending exception of the QML engine
    log,         \* the lines printed by the logger
    alive,       \* test cases whose process has not ended
    calls        \* calls from signals and events so far

vars == <<test, stage, instance, result, frames, exception, log, alive, calls>>

\* The stages in which exec() calls handlers of the test case's signals, and
\* those in which it processes events, as does the event loop around it.
SignalStages == {"created", "started", "finished", "destruction"}
EventStages  == {"idle", "initing", "events", "cleaning"}
Stages       == SignalStages \cup EventStages \cup {"run", "closing", "exited", "crashed"}

\* Function calls of a document, and the C++ functions that wait for it: `due`
\* is a waitUntilExpression() whose timer has expired.  `struck` tells whether a
\* failure has been raised during the call.
Functions == {"slot", "run", "expression"}
Waits     == {"wait", "until", "due"}
Frame(kind, t) == [kind |-> kind, of |-> t, struck |-> FALSE]

Top == Last(frames)
IsEmpty == frames = <<>>
OnTop(kinds) == ~IsEmpty /\ Top.kind \in kinds
EventsProcessed == (IsEmpty /\ stage \in EventStages) \/ OnTop(Waits)

Init ==
    /\ test = 0 /\ stage = "idle" /\ instance = 0
    /\ result = [t \in Tests |-> "Unfinished"]
    /\ frames = <<>> /\ exception = "none"
    /\ log = <<>> /\ alive = {} /\ calls = 0

----------------------------------------------------------------------------
(* The state functions of exec()                                           *)

UnchangedByStage == UNCHANGED <<exception, alive, calls, frames>>

\* dispatch() has loaded the document, which evaluates bindings, if it has any:
\* the engine drops a pending exception then.
Uninitialized ==
    /\ stage = "idle" /\ IsEmpty /\ test < LastTest
    /\ test' = test + 1 /\ instance' = test + 1
    /\ result' = [result EXCEPT ![test + 1] = "Unfinished"]
    /\ stage' = "created" /\ calls' = 0
    /\ exception' \in {exception, "none"}
    /\ UNCHANGED <<alive, frames, log>>

\* initTestCase() and initTestFunction() of the components follow.
InitingTestCase ==
    /\ stage = "created" /\ IsEmpty
    /\ stage' = "initing"
    /\ UnchangedByStage /\ UNCHANGED <<test, instance, result, log>>

InitingTestFunction ==
    /\ stage = "initing" /\ IsEmpty
    /\ stage' = "started"
    /\ UnchangedByStage /\ UNCHANGED <<test, instance, result, log>>

\* The function run() is skipped if the test case has failed by now.
Running ==
    /\ stage = "started" /\ IsEmpty
    /\ stage' = IF result[test] # "Unfinished" THEN "finished" ELSE "events"
    /\ UnchangedByStage /\ UNCHANGED <<test, instance, result, log>>

\* processEvents() has returned.
InvokeRun ==
    /\ stage = "events" /\ IsEmpty
    /\ stage' = "run" /\ frames' = <<Frame("run", test)>>
    /\ UNCHANGED <<test, instance, result, exception, log, alive, calls>>

RunReturned ==
    /\ stage = "run" /\ IsEmpty
    /\ stage' = "finished"
    /\ UnchangedByStage /\ UNCHANGED <<test, instance, result, log>>

LogAlways(r) == "Success"          \* mutant: the result is not looked at

LogType(r) == IF r = "Fail" THEN "Fail" ELSE "Success"

CleaningUpTestFunction ==
    /\ stage = "finished" /\ IsEmpty
    /\ log' = Append(log, [test |-> test, type |-> LogType(result[test])])
    /\ stage' = "closing"
    /\ UnchangedByStage /\ UNCHANGED <<test, instance, result>>

AlwaysSuccess(r) == "Success"      \* mutant: the result is overwritten

DefaultResult(r) == IF r = "Unfinished" THEN "Success" ELSE r

CleaningUpTestCase ==
    /\ stage = "closing"
    /\ result' = [result EXCEPT ![test] = DefaultResult(@)]
    /\ stage' = "cleaning"
    /\ UnchangedByStage /\ UNCHANGED <<test, instance, log>>

ComponentsCleanedUp ==
    /\ stage = "cleaning" /\ IsEmpty
    /\ stage' = "destruction"
    /\ UnchangedByStage /\ UNCHANGED <<test, instance, result, log>>

KeptInstance == instance           \* mutant: m_currentTestCase is not cleared

ClearedInstance == 0

Destroyed ==
    /\ stage = "destruction" /\ IsEmpty
    /\ stage' = "idle" /\ instance' = ClearedInstance
    /\ UnchangedByStage /\ UNCHANGED <<test, result, log>>

StateFunction ==
    \/ Uninitialized \/ InitingTestCase \/ InitingTestFunction \/ Running
    \/ InvokeRun \/ RunReturned \/ CleaningUpTestFunction \/ CleaningUpTestCase
    \/ ComponentsCleanedUp \/ Destroyed

----------------------------------------------------------------------------
(* Failures                                                                *)

Struck(s) == [i \in DOMAIN s |-> [s[i] EXCEPT !.struck = TRUE]]

\* finishAndExit() of the current test case, with s the calls in progress.
FinishAndExit(s) ==
    /\ result' = [result EXCEPT ![instance] = "Fail"]
    /\ exception' = "Testcase::Fail"
    /\ frames' = Struck(s)

InjectNothing(s) == "none"         \* mutant: the exception is not raised again

\* "Inject exceptions as long as we are somewhere on the call stack."
Injected(s) == IF s = <<>> THEN "none" ELSE "Testcase::Fail"

\* onQmlEngineWarnings(): the function on top of the stack has returned with an
\* exception.  No test case is connected between two executions.
OnQmlEngineWarnings(s) ==
    IF stage = "idle"
    THEN exception' = "none" /\ UNCHANGED result
    ELSE /\ exception' = Injected(s)
         /\ \/ exception = "Error" /\ result' = [result EXCEPT ![test] = "Fail"]
            \/ exception # "Error" /\ UNCHANGED result

\* The program ends at once: nothing is unwound, and nothing is logged any more.
Terminate(how) ==
    /\ stage' = how /\ frames' = <<>> /\ instance' = 0
    /\ UNCHANGED <<result, exception>>

----------------------------------------------------------------------------
(* Code of the documents                                                   *)

MayCall == calls < MaxCalls /\ Len(frames) < MaxDepth

Push(frame) == frames' = Append(frames, frame)

\* A handler of a signal of the test case, or of an event at one of its probes.
CallSlot ==
    /\ MayCall
    /\ \/ IsEmpty /\ stage \in (SignalStages \cup EventStages) \ {"idle"}
       \/ OnTop(Waits) /\ stage # "idle"
    /\ Push(Frame("slot", test)) /\ calls' = calls + 1
    /\ UNCHANGED <<test, stage, instance, result, exception, log, alive>>

\* A process ends and the probe's finished() handler of its test case is called.
ProcessFinished(t) ==
    /\ MayCall
    /\ t \in alive
    /\ EventsProcessed
    /\ alive' = alive \ {t}
    /\ Push(Frame("slot", t)) /\ calls' = calls + 1
    /\ UNCHANGED <<test, stage, instance, result, exception, log>>

\* A process crashes: the probe fails the current test case.  Between two test
\* cases there is none, and finishAndExit() is called on a null pointer.
ProcessCrashed(t) ==
    /\ t \in alive
    /\ EventsProcessed
    /\ alive' = alive \ {t}
    /\ \/ instance # 0 /\ FinishAndExit(frames) /\ UNCHANGED <<stage, instance>>
       \/ instance = 0 /\ Terminate("crashed")
    /\ UNCHANGED <<test, log, calls>>

\* A controller that loses its probe, or gets no answer from it, ends the program.  Its
\* objects are destructed by the components of the test case that has constructed them.
ProbeLost ==
    /\ EventsProcessed /\ stage # "idle"
    /\ Terminate("exited")
    /\ UNCHANGED <<test, log, alive, calls>>

\* The function on top of the stack goes on.
Proceeds == OnTop(Functions) /\ exception = "none"

\* Qst.verify() and Qst.compare(); between two test cases they end the program.
\* A process that cannot be started has the same effect on the test case.
FailVerification ==
    /\ Proceeds
    /\ \/ instance # 0 /\ FinishAndExit(frames) /\ UNCHANGED <<stage, instance>>
       \/ instance = 0 /\ Terminate("exited")
    /\ UNCHANGED <<test, log, alive, calls>>

\* Qst.error() ends the program, whatever is in progress.
ReportError ==
    /\ Proceeds
    /\ Terminate("exited")
    /\ UNCHANGED <<test, log, alive, calls>>

RaiseError ==
    /\ Proceeds
    /\ exception' = "Error" /\ frames' = Struck(frames)
    /\ UNCHANGED <<test, stage, instance, result, log, alive, calls>>

\* Qst.wait() and Qst.waitUntil().
CallWait(kind) ==
    /\ Proceeds /\ MayCall /\ instance # 0
    /\ Push(Frame(kind, Top.of)) /\ calls' = calls + 1
    /\ UNCHANGED <<test, stage, instance, result, exception, log, alive>>

StartProcess ==
    /\ Proceeds /\ Top.of \notin alive
    /\ alive' = alive \cup {Top.of}
    /\ UNCHANGED <<test, stage, instance, result, frames, exception, log, calls>>

Return ==
    /\ Proceeds /\ Top.kind \in {"slot", "run"}
    /\ frames' = Front(frames)
    /\ UNCHANGED <<test, stage, instance, result, exception, log, alive, calls>>

\* A signal handler or run() returns with an exception, or does nothing because
\* one is pending.
Abort ==
    /\ OnTop({"slot", "run"}) /\ exception # "none"
    /\ frames' = Front(frames)
    /\ OnQmlEngineWarnings(Front(frames))
    /\ UNCHANGED <<test, stage, instance, log, alive, calls>>

----------------------------------------------------------------------------
(* waitMilliseconds() and waitUntilExpression()                            *)

\* The event loop of waitMilliseconds() ends with its timer, failed or not.
WaitIsOver ==
    /\ OnTop({"wait"})
    /\ frames' = Front(frames)
    /\ UNCHANGED <<test, stage, instance, result, exception, log, alive, calls>>

TimerExpires(i) ==
    /\ OnTop(Waits)
    /\ i \in DOMAIN frames /\ frames[i].kind = "until"
    /\ frames' = [frames EXCEPT ![i].kind = "due"]
    /\ UNCHANGED <<test, stage, instance, result, exception, log, alive, calls>>

\* In its loop waitUntilExpression() evaluates the expression and processes events.
CallExpression ==
    /\ OnTop({"until", "due"}) /\ Len(frames) <= MaxDepth
    /\ Push(Frame("expression", Top.of))
    /\ UNCHANGED <<test, stage, instance, result, exception, log, alive, calls>>

Outer == Front(Front(frames))
Waiting == Last(Front(frames))

ExpressionIsTrue ==
    /\ Proceeds /\ Top.kind = "expression"
    /\ frames' = Outer
    /\ UNCHANGED <<test, stage, instance, result, exception, log, alive, calls>>

TimeoutNever(frame) == FALSE       \* mutant: the timer is not looked at

HasTimedOut(frame) == frame.kind = "due"

ExpressionIsFalse ==
    /\ Proceeds /\ Top.kind = "expression"
    /\ \/ HasTimedOut(Waiting) /\ FinishAndExit(Outer)
       \/ /\ ~HasTimedOut(Waiting)
          /\ frames' = Front(frames) /\ UNCHANGED <<result, exception>>
    /\ UNCHANGED <<test, stage, instance, log, alive, calls>>

\* The expression ends with an exception, which is raised again for the caller.
ExpressionIsError ==
    /\ OnTop({"expression"}) /\ exception # "none"
    /\ frames' = Outer
    /\ UNCHANGED <<test, stage, instance, result, exception, log, alive, calls>>

----------------------------------------------------------------------------
Next ==
    \/ StateFunction
    \/ CallSlot
    \/ \E t \in Tests : ProcessFinished(t) \/ ProcessCrashed(t)
    \/ FailVerification
    \/ ReportError
    \/ ProbeLost
    \/ RaiseError
    \/ \E kind \in {"wait", "until"} : CallWait(kind)
    \/ StartProcess
    \/ Return
    \/ Abort
    \/ WaitIsOver
    \/ \E i \in 1..MaxDepth : TimerExpires(i)
    \/ CallExpression
    \/ ExpressionIsTrue
    \/ ExpressionIsFalse
    \/ ExpressionIsError

Spec == Init /\ [][Next]_vars

\* The program goes on as long as it can, and a timer expires if there is an
\* event loop to notice it again and again.
FairSpec ==
    /\ Spec
    /\ WF_vars(Next)
    /\ \A i \in 1..MaxDepth : SF_vars(TimerExpires(i))
----------------------------------------------------------------------------
(* Properties                                                              *)

\* How many test cases have been logged: the current one from "closing" on, unless
\* the program has ended before.
Lines ==
    CASE stage \in {"closing", "cleaning", "destruction", "idle"} -> {test}
      [] stage \in {"exited", "crashed"} -> {test - 1, test}
      [] OTHER -> {test - 1}

\* Every state variable keeps its type, and there is a current test case
\* exactly while exec() is called.
TypeOK ==
    /\ test \in 0..LastTest /\ stage \in Stages
    /\ instance = IF stage \in {"idle", "exited", "crashed"} THEN 0 ELSE test
    /\ result \in [Tests -> {"Unfinished", "Fail", "Success"}]
    /\ frames \in Seq([kind : Functions \cup Waits, of : Tests, struck : BOOLEAN])
    /\ exception \in {"none", "Testcase::Fail", "Error"}
    /\ log \in Seq([test : Tests, type : {"Success", "Fail"}])
    /\ alive \subseteq Tests /\ calls \in Nat

\* "In that case, all remaining statements are aborted" (doc/testcase-item.rst):
\* a function that was in progress when a failure was raised, however deeply
\* nested the event that raised it, executes nothing more.
AbortsRemaining == OnTop(Functions) /\ Top.struck => exception # "none"

\* The result is determined when exec() returns it, and it stays: a failure is
\* never taken back, and a late process report does not alter the result of a
\* test case that is over.
VerdictsStand ==
    [][\A t \in Tests :
          /\ result[t] = "Fail" => result'[t] = "Fail"
          /\ t < test \/ (t = test /\ stage = "idle") =>
                 result[t] \in {"Success", "Fail"} /\ result'[t] = result[t]
      ]_vars

\* Each test case is logged once, in the order of execution, and as failed
\* if and only if it has failed by then; a program that ends in the middle of a
\* test case has logged all those before it.
LogComplete ==
    /\ Len(log) \in Lines
    /\ \A i \in 1..Len(log) :
          /\ log[i].test = i
          /\ log[i].type = "Fail" => result[i] = "Fail"
          /\ i = test /\ stage = "closing" /\ result[i] = "Fail" => log[i].type = "Fail"

\* An execution comes to an end, failed or not.
EveryExecutionEnds == stage = "created" ~> stage \in {"idle", "exited", "crashed"}

\* doc/qst-service.rst on verify(): "a failure is recorded in the test log and the
\* test won't be executed further".
FailureIsFinal ==
    /\ OnTop({"run"}) /\ exception = "none" => result[test] # "Fail"
    /\ stage = "idle" => \A i \in DOMAIN log : result[log[i].test] = "Fail" => log[i].type = "Fail"
=============================================================================
