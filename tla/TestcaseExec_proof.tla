-------------------------- MODULE TestcaseExec_proof --------------------------
(***************************************************************************)
(* Proofs about TestcaseExec: however many test cases there are, however   *)
(* many calls their documents make and however deeply the calls nest, the  *)
(* invariants of the module hold and verdicts stand.                       *)
(***************************************************************************)
EXTENDS TestcaseExec, SequenceTheorems, TLAPS

FrameType == [kind : Functions \cup Waits, of : Tests, struck : BOOLEAN]
Terminal  == {"exited", "crashed"}
Over      == {"idle"} \cup Terminal

\* The calls in progress s fit the pending exception e and the stage st: what a
\* failure has struck is left by an exception, an expression is evaluated for a
\* wait below it, and between two test cases only a slot is called.
FramesFit(s, e, st) ==
    /\ s \in Seq(FrameType)
    /\ \A i \in 1..Len(s) :
          /\ s[i].struck => e # "none"
          /\ s[i].kind = "expression" => i > 1
          /\ st = "idle" => i = 1 /\ s[i].kind = "slot"
    /\ st \in {"closing"} \cup Terminal => s = <<>>

\* The results of the test cases before the current one are determined, those
\* of the test cases after it are not.
ResultsFit ==
    \A t \in Tests :
       /\ t > test => result[t] = "Unfinished"
       /\ t < test => result[t] # "Unfinished"
       /\ t = test /\ stage \in {"cleaning", "destruction", "idle"} => result[t] # "Unfinished"

\* There is a current test case while exec() is called.
TestFits == stage \notin Over => test # 0

IInv == TypeOK /\ FramesFit(frames, exception, stage) /\ ResultsFit /\ TestFits /\ LogComplete

----------------------------------------------------------------------------
(* The stack of calls                                                      *)

\* Front drops the last element.
LEMMA FrontOfSeq ==
    ASSUME NEW S, NEW s \in Seq(S), s # <<>>
    PROVE  /\ Front(s) \in Seq(S)
           /\ Len(Front(s)) = Len(s) - 1
           /\ \A i \in 1..Len(s) - 1 : Front(s)[i] = s[i]
  <1>1. Len(s) \in Nat \ {0} /\ s \in [1..Len(s) -> S]
    BY EmptySeq, LenProperties
  <1>2. \A i \in 1..Len(s) - 1 : s[i] \in S
    BY <1>1
  <1>3. /\ SubSeq(s, 1, Len(s) - 1) \in Seq(S)
        /\ Len(SubSeq(s, 1, Len(s) - 1)) = IF 1 <= Len(s) - 1 THEN Len(s) - 1 - 1 + 1 ELSE 0
        /\ \A i \in 1..Len(s) - 1 - 1 + 1 : SubSeq(s, 1, Len(s) - 1)[i] = s[1 + i - 1]
    BY <1>1, <1>2, SubSeqProperties
  <1> QED BY <1>1, <1>3 DEF Front

\* A call returns: the exception may only be dropped with the outermost one.
LEMMA FrontFits ==
    ASSUME NEW s, NEW e, NEW st, NEW f, s # <<>>, FramesFit(s, e, st),
           e # "none" => f # "none" \/ Front(s) = <<>>
    PROVE  FramesFit(Front(s), f, st)
  <1>1. /\ Front(s) \in Seq(FrameType) /\ Len(s) \in Nat \ {0}
        /\ Len(Front(s)) = Len(s) - 1
        /\ \A i \in 1..Len(s) - 1 : Front(s)[i] = s[i]
    BY FrontOfSeq, EmptySeq DEF FramesFit
  <1>2. CASE Front(s) = <<>>
    <2>1. 1..Len(Front(s)) = {}
      BY <1>2
    <2> QED BY <1>1, <1>2, <2>1 DEF FramesFit
  <1>3. CASE Front(s) # <<>>
    BY <1>1, <1>3 DEF FramesFit
  <1> QED BY <1>2, <1>3

\* A function is called while something else waits.
LEMMA PushFits ==
    ASSUME NEW s, NEW e, NEW st, FramesFit(s, e, st), NEW kind \in Functions \cup Waits,
           NEW t \in Tests, kind = "expression" => s # <<>>,
           st = "idle" => s = <<>> /\ kind = "slot", st \notin {"closing"} \cup Terminal
    PROVE  FramesFit(Append(s, Frame(kind, t)), e, st)
  <1>1. Frame(kind, t) \in FrameType /\ ~Frame(kind, t).struck /\ Frame(kind, t).kind = kind
    BY DEF Frame, FrameType
  <1>2. /\ Append(s, Frame(kind, t)) \in Seq(FrameType)
        /\ Len(s) \in Nat /\ Len(Append(s, Frame(kind, t))) = Len(s) + 1
        /\ \A i \in 1..Len(s) : Append(s, Frame(kind, t))[i] = s[i]
        /\ Append(s, Frame(kind, t))[Len(s) + 1] = Frame(kind, t)
        /\ s = <<>> <=> Len(s) = 0
    BY <1>1, EmptySeq DEF FramesFit
  <1> QED BY <1>1, <1>2 DEF FramesFit

\* A failure strikes every call in progress and is a pending exception.
LEMMA StruckFits ==
    ASSUME NEW s, NEW e, NEW st, NEW f, FramesFit(s, e, st), f # "none"
    PROVE  FramesFit(Struck(s), f, st)
  <1>1. /\ Len(s) \in Nat /\ s \in [1..Len(s) -> FrameType] /\ DOMAIN s = 1..Len(s)
    BY LenProperties DEF FramesFit
  <1>2. \A i \in 1..Len(s) : /\ [s[i] EXCEPT !.struck = TRUE] \in FrameType
                             /\ [s[i] EXCEPT !.struck = TRUE].kind = s[i].kind
    BY <1>1 DEF FrameType
  <1>3. /\ Struck(s) \in Seq(FrameType) /\ Len(Struck(s)) = Len(s)
        /\ \A i \in 1..Len(s) : Struck(s)[i].kind = s[i].kind
    <2> DEFINE e1(i) == [s[i] EXCEPT !.struck = TRUE]
    <2>1. Struck(s) = [i \in 1..Len(s) |-> e1(i)]
      BY <1>1 DEF Struck
    <2>2. \A i \in 1..Len(s) : e1(i) \in FrameType /\ e1(i).kind = s[i].kind
      BY <1>2
    <2> HIDE DEF e1
    <2>3. [i \in 1..Len(s) |-> e1(i)] \in Seq(FrameType)
      BY <1>1, <2>2, IsASeq
    <2> QED BY <1>1, <2>1, <2>2, <2>3
  <1>4. s = <<>> => Struck(s) = <<>>
    BY <1>3, <1>1
  <1> QED BY <1>3, <1>4 DEF FramesFit

\* A timer expires.
LEMMA DueFits ==
    ASSUME NEW s, NEW e, NEW st, FramesFit(s, e, st), NEW i \in DOMAIN s, s[i].kind = "until"
    PROVE  FramesFit([s EXCEPT ![i].kind = "due"], e, st)
  <1> DEFINE r == [s EXCEPT ![i].kind = "due"]
  <1>1. /\ Len(s) \in Nat /\ s \in [1..Len(s) -> FrameType] /\ DOMAIN s = 1..Len(s)
    BY LenProperties DEF FramesFit
  <1>2. /\ [s[i] EXCEPT !.kind = "due"] \in FrameType
        /\ [s[i] EXCEPT !.kind = "due"].kind = "due"
        /\ [s[i] EXCEPT !.kind = "due"].struck = s[i].struck
    BY <1>1 DEF FrameType, Waits, Functions
  <1>3. r = [s EXCEPT ![i] = [s[i] EXCEPT !.kind = "due"]]
    OBVIOUS
  <1>4. /\ r \in Seq(FrameType) /\ Len(r) = Len(s)
        /\ \A k \in 1..Len(s) : r[k] = IF k = i THEN [s[i] EXCEPT !.kind = "due"] ELSE s[k]
    BY <1>1, <1>2, <1>3, ExceptSeq DEF FramesFit
  <1>5. s # <<>> /\ st # "idle"
    BY <1>1 DEF FramesFit
  <1>6. \A k \in 1..Len(r) : /\ r[k].struck => e # "none"
                             /\ r[k].kind = "expression" => k > 1
    BY <1>1, <1>2, <1>4 DEF FramesFit
  <1> QED BY <1>4, <1>5, <1>6 DEF FramesFit

\* The innermost call.
LEMMA TopFits ==
    ASSUME NEW s, NEW e, NEW st, FramesFit(s, e, st), s # <<>>
    PROVE  /\ Last(s) \in FrameType
           /\ st \notin {"closing"} \cup Terminal
           /\ Last(s).struck => e # "none"
           /\ Last(s).kind = "expression" => Front(s) # <<>>
           /\ st = "idle" => Last(s).kind = "slot" /\ Front(s) = <<>>
  <1>1. /\ Len(s) \in Nat \ {0} /\ s \in [1..Len(s) -> FrameType] /\ Len(s) \in 1..Len(s)
        /\ Front(s) \in Seq(FrameType) /\ Len(Front(s)) = Len(s) - 1
    BY EmptySeq, LenProperties, FrontOfSeq DEF FramesFit
  <1>2. Front(s) = <<>> <=> Len(s) = 1
    BY <1>1, EmptySeq
  <1> QED BY <1>1, <1>2 DEF FramesFit, Last

\* No call in progress fits everything.
LEMMA NothingFits ==
    ASSUME NEW e, NEW st
    PROVE  FramesFit(<<>>, e, st)
  <1>1. <<>> \in Seq(FrameType) /\ 1..Len(<<>>) = {}
    BY EmptySeq
  <1> QED BY <1>1 DEF FramesFit

----------------------------------------------------------------------------
(* The calls in progress at every step                                     *)

LEMMA ExecFits ==
    ASSUME IInv, StateFunction
    PROVE  FramesFit(frames, exception, stage)'
  <1>1. CASE InvokeRun
    <2>1. frames = <<>> /\ stage = "events" /\ test \in Tests
      BY <1>1, LastTestAssumption DEF InvokeRun, IsEmpty, IInv, TestFits, TypeOK, Tests, Over, Terminal
    <2>2. FramesFit(<<>>, exception, "run")
      BY NothingFits
    <2>3. Append(<<>>, Frame("run", test)) = <<Frame("run", test)>>
      OBVIOUS
    <2>4. FramesFit(Append(<<>>, Frame("run", test)), exception, "run")
      BY <2>1, <2>2, PushFits DEF Functions, Terminal
    <2> QED BY <1>1, <2>3, <2>4 DEF InvokeRun
  <1>2. CASE CleaningUpTestCase
    BY <1>2, NothingFits
    DEF CleaningUpTestCase, UnchangedByStage, IInv, FramesFit
  <1>3. CASE IsEmpty /\ UNCHANGED frames
    BY <1>3, NothingFits DEF IsEmpty
  <1> QED
    BY <1>1, <1>2, <1>3
    DEF StateFunction, Uninitialized, InitingTestCase, InitingTestFunction, Running, InvokeRun,
        RunReturned, CleaningUpTestFunction, ComponentsCleanedUp, Destroyed, UnchangedByStage

LEMMA CallFits ==
    ASSUME IInv, \/ CallSlot \/ \E t \in Tests : ProcessFinished(t)
                 \/ \E kind \in {"wait", "until"} : CallWait(kind)
                 \/ CallExpression
    PROVE  FramesFit(frames, exception, stage)'
  <1> USE DEF Functions, Waits
  <1>1. FramesFit(frames, exception, stage)
    BY DEF IInv
  <1>2. ~IsEmpty => /\ Top \in FrameType /\ stage \notin {"closing"} \cup Terminal
                    /\ stage = "idle" => Top.kind = "slot"
    BY <1>1, TopFits DEF IsEmpty, Top
  <1>3. CASE CallSlot
    <2>1. stage \notin {"closing", "idle"} \cup Terminal
      BY <1>2, <1>3 DEF CallSlot, OnTop, SignalStages, EventStages, Terminal
    <2>2. test \in Tests
      BY <2>1 DEF IInv, TestFits, TypeOK, Tests, Over
    <2> QED BY <1>1, <1>3, <2>1, <2>2, PushFits DEF CallSlot, Push
  <1>4. ASSUME NEW t \in Tests, ProcessFinished(t)
        PROVE  FramesFit(frames, exception, stage)'
    <2>1. /\ stage \notin {"closing"} \cup Terminal
          /\ stage = "idle" => frames = <<>>
      BY <1>2, <1>4 DEF ProcessFinished, EventsProcessed, OnTop, IsEmpty, EventStages, Terminal
    <2> QED BY <1>1, <1>4, <2>1, PushFits DEF ProcessFinished, Push
  <1>5. ASSUME NEW kind \in {"wait", "until"}, CallWait(kind)
        PROVE  FramesFit(frames, exception, stage)'
    <2>1. ~IsEmpty /\ stage \notin Over \cup {"closing"}
      BY <1>2, <1>5 DEF CallWait, Proceeds, OnTop, IInv, TypeOK, Over, Terminal
    <2>2. Top.of \in Tests
      BY <1>2, <2>1 DEF FrameType
    <2> QED BY <1>1, <1>5, <2>1, <2>2, PushFits DEF CallWait, Push, Over
  <1>6. CASE CallExpression
    <2>1. ~IsEmpty /\ stage \notin {"closing", "idle"} \cup Terminal
      BY <1>2, <1>6 DEF CallExpression, OnTop
    <2>2. Top.of \in Tests /\ frames # <<>>
      BY <1>2, <2>1 DEF FrameType, IsEmpty
    <2> QED BY <1>1, <1>6, <2>1, <2>2, PushFits DEF CallExpression, Push
  <1> QED BY <1>3, <1>4, <1>5, <1>6

\* A wait and the expression it evaluates are left together.
LEMMA OuterFits ==
    ASSUME FramesFit(frames, exception, stage), OnTop({"expression"})
    PROVE  FramesFit(Outer, exception, stage)
  <1>1. frames # <<>> /\ Front(frames) # <<>>
    BY TopFits DEF OnTop, IsEmpty, Top
  <1>2. FramesFit(Front(frames), exception, stage)
    BY <1>1, FrontFits
  <1> QED BY <1>1, <1>2, FrontFits DEF Outer

LEMMA ReturnFits ==
    ASSUME IInv, Return \/ Abort \/ WaitIsOver \/ ExpressionIsTrue \/ ExpressionIsFalse
                 \/ ExpressionIsError
    PROVE  FramesFit(frames, exception, stage)'
  <1>1. FramesFit(frames, exception, stage)
    BY DEF IInv
  <1>2. CASE Return \/ WaitIsOver
    BY <1>1, <1>2, FrontFits DEF Return, WaitIsOver, Proceeds, OnTop, IsEmpty
  <1>3. CASE Abort
    <2>1. frames # <<>> /\ frames' = Front(frames) /\ stage' = stage
      BY <1>3 DEF Abort, OnTop, IsEmpty
    <2>2. stage = "idle" => Front(frames) = <<>>
      BY <1>1, <2>1, TopFits
    <2>3. exception' # "none" \/ Front(frames) = <<>>
      BY <1>3, <2>2 DEF Abort, OnQmlEngineWarnings, Injected
    <2> QED BY <1>1, <2>1, <2>3, FrontFits
  <1>4. CASE ExpressionIsTrue \/ ExpressionIsError
    BY <1>1, <1>4, OuterFits DEF ExpressionIsTrue, ExpressionIsError, Proceeds, OnTop
  <1>5. CASE ExpressionIsFalse
    <2>1. OnTop({"expression"}) /\ stage' = stage /\ frames # <<>>
      BY <1>5 DEF ExpressionIsFalse, Proceeds, OnTop, IsEmpty
    <2>2. CASE FinishAndExit(Outer)
      <3>1. FramesFit(Outer, exception, stage)
        BY <1>1, <2>1, OuterFits
      <3> QED BY <2>1, <2>2, <3>1, StruckFits DEF FinishAndExit
    <2>3. CASE frames' = Front(frames) /\ exception' = exception
      BY <1>1, <2>1, <2>3, FrontFits
    <2> QED BY <1>5, <2>2, <2>3 DEF ExpressionIsFalse
  <1> QED BY <1>2, <1>3, <1>4, <1>5

LEMMA FailureFits ==
    ASSUME IInv, \/ \E t \in Tests : ProcessCrashed(t)
                 \/ FailVerification \/ ReportError \/ ProbeLost \/ RaiseError \/ StartProcess
                 \/ \E i \in 1..MaxDepth : TimerExpires(i)
    PROVE  FramesFit(frames, exception, stage)'
  <1>1. FramesFit(frames, exception, stage)
    BY DEF IInv
  <1>2. CASE FinishAndExit(frames) /\ UNCHANGED <<stage, instance>>
    BY <1>1, <1>2, StruckFits DEF FinishAndExit
  <1>3. ASSUME NEW how, Terminate(how)
        PROVE  FramesFit(frames, exception, stage)'
    BY <1>3, NothingFits DEF Terminate
  <1>4. CASE RaiseError
    BY <1>1, <1>4, StruckFits DEF RaiseError
  <1>5. CASE StartProcess
    BY <1>1, <1>5 DEF StartProcess
  <1>6. ASSUME NEW i, TimerExpires(i)
        PROVE  FramesFit(frames, exception, stage)'
    BY <1>1, <1>6, DueFits DEF TimerExpires
  <1> QED BY <1>2, <1>3, <1>4, <1>5, <1>6 DEF ProcessCrashed, FailVerification, ReportError, ProbeLost

----------------------------------------------------------------------------
(* What the code of a document can change: only the result of the current  *)
(* test case, to a failure, while it is executed and not being logged; or  *)
(* it ends the program, which leaves everything as it is.                  *)

DocumentStep ==
    \/ CallSlot \/ \E t \in Tests : ProcessFinished(t) \/ ProcessCrashed(t)
    \/ FailVerification \/ ReportError \/ ProbeLost \/ RaiseError \/ \E kind \in {"wait", "until"} : CallWait(kind)
    \/ StartProcess \/ Return \/ Abort \/ WaitIsOver
    \/ \E i \in 1..MaxDepth : TimerExpires(i)
    \/ CallExpression \/ ExpressionIsTrue \/ ExpressionIsFalse \/ ExpressionIsError

Effect ==
    /\ UNCHANGED <<test, log>>
    /\ \/ UNCHANGED <<stage, instance>>
       \/ /\ stage \notin {"closing"} \cup Terminal /\ stage' \in Terminal
          /\ instance' = 0
    /\ \/ result' = result
       \/ /\ stage' = stage /\ stage \notin Over \cup {"closing"}
          /\ result' = [result EXCEPT ![test] = "Fail"]

\* Code is executed in any stage but these.
LEMMA Executing ==
    ASSUME IInv
    PROVE  /\ OnTop(Functions) \/ OnTop(Waits) \/ EventsProcessed =>
                   stage \notin {"closing"} \cup Terminal
           /\ OnTop({"expression"}) => stage # "idle"
           /\ instance # 0 => instance = test /\ stage \notin Over
           /\ instance = 0 => stage \in Over
  <1>1. ~IsEmpty => /\ stage \notin {"closing"} \cup Terminal
                    /\ stage = "idle" => Top.kind = "slot"
    BY TopFits DEF IInv, IsEmpty, Top
  <1>2. /\ instance # 0 => instance = test /\ stage \notin Over
        /\ instance = 0 => stage \in Over
    BY DEF IInv, TypeOK, TestFits, Over, Terminal
  <1> QED BY <1>1, <1>2 DEF OnTop, EventsProcessed, EventStages, Terminal

LEMMA DocumentEffect ==
    ASSUME IInv, DocumentStep
    PROVE  Effect
  <1>1. CASE \/ CallSlot \/ \E t \in Tests : ProcessFinished(t)
             \/ RaiseError \/ StartProcess \/ Return \/ WaitIsOver
             \/ \E kind \in {"wait", "until"} : CallWait(kind)
             \/ \E i \in 1..MaxDepth : TimerExpires(i)
             \/ CallExpression \/ ExpressionIsTrue \/ ExpressionIsError
    BY <1>1
    DEF Effect, CallSlot, ProcessFinished, RaiseError, StartProcess, Return, WaitIsOver,
        CallWait, TimerExpires, CallExpression, ExpressionIsTrue, ExpressionIsError
  <1>2. ASSUME NEW t \in Tests, ProcessCrashed(t)
        PROVE  Effect
    <2>1. stage \notin {"closing"} \cup Terminal
      BY <1>2, Executing DEF ProcessCrashed
    <2> QED BY <1>2, <2>1, Executing
            DEF ProcessCrashed, FinishAndExit, Terminate, Effect, Over, Terminal
  <1>3. CASE FailVerification
    <2>1. stage \notin {"closing"} \cup Terminal
      BY <1>3, Executing DEF FailVerification, Proceeds
    <2> QED BY <1>3, <2>1, Executing
            DEF FailVerification, FinishAndExit, Terminate, Effect, Over, Terminal
  <1>4. CASE Abort
    <2>1. stage \notin {"closing"} \cup Terminal
      BY <1>4, Executing DEF Abort, OnTop, Functions
    <2> QED BY <1>4, <2>1 DEF Abort, OnQmlEngineWarnings, Effect, Over
  <1>5. CASE ExpressionIsFalse
    <2>1. stage \notin {"closing", "idle"} \cup Terminal
      BY <1>5, Executing DEF ExpressionIsFalse, Proceeds, OnTop, Functions
    <2>2. instance = test
      BY <2>1, Executing DEF Over
    <2> QED BY <1>5, <2>1, <2>2 DEF ExpressionIsFalse, FinishAndExit, Effect, Over
  <1>6. CASE ReportError \/ ProbeLost
    <2>1. stage \notin {"closing"} \cup Terminal
      BY <1>6, Executing DEF ReportError, ProbeLost, Proceeds
    <2> QED BY <1>6, <2>1 DEF ReportError, ProbeLost, Terminate, Effect, Terminal
  <1> QED BY <1>1, <1>2, <1>3, <1>4, <1>5, <1>6 DEF DocumentStep

LEMMA NextIsExecOrDocument ==
    Next <=> StateFunction \/ DocumentStep
  BY DEF Next, DocumentStep

LEMMA FitsStep ==
    ASSUME IInv, [Next]_vars
    PROVE  FramesFit(frames, exception, stage)'
  <1>1. CASE UNCHANGED vars
    BY <1>1 DEF vars, IInv
  <1>2. CASE StateFunction
    BY <1>2, ExecFits
  <1>3. CASE DocumentStep
    BY <1>3, CallFits, ReturnFits, FailureFits DEF DocumentStep
  <1> QED BY <1>1, <1>2, <1>3, NextIsExecOrDocument

----------------------------------------------------------------------------
(* Types                                                                   *)

LEMMA TypeStep ==
    ASSUME IInv, [Next]_vars
    PROVE  TypeOK'
  <1>1. frames' \in Seq([kind : Functions \cup Waits, of : Tests, struck : BOOLEAN])
    BY FitsStep DEF FramesFit, FrameType
  <1>2. CASE UNCHANGED vars
    BY <1>2 DEF vars, IInv, TypeOK
  <1>3. CASE StateFunction
    <2> USE <1>1 DEF IInv, TypeOK, UnchangedByStage
    <2>1. CASE Uninitialized
      <3>1. test + 1 \in Tests /\ test + 1 \in 0..LastTest
        BY <2>1, LastTestAssumption DEF Uninitialized, Tests
      <3> QED BY <2>1, <3>1 DEF Uninitialized, Stages, SignalStages
    <2>2. CASE InitingTestCase \/ InitingTestFunction \/ Running \/ InvokeRun \/ RunReturned
      BY <2>2 DEF InitingTestCase, InitingTestFunction, Running, InvokeRun, RunReturned,
                  Stages, SignalStages, EventStages
    <2>3. CASE CleaningUpTestFunction
      <3>1. test \in Tests
        BY <2>3, LastTestAssumption DEF CleaningUpTestFunction, TestFits, Tests, Over, Terminal
      <3>2. [test |-> test, type |-> LogType(result[test])]
            \in [test : Tests, type : {"Success", "Fail"}]
        BY <3>1 DEF LogType
      <3>3. log' \in Seq([test : Tests, type : {"Success", "Fail"}])
        BY <2>3, <3>2, AppendProperties DEF CleaningUpTestFunction
      <3> QED BY <2>3, <3>3 DEF CleaningUpTestFunction, Stages
    <2>4. CASE CleaningUpTestCase
      BY <2>4 DEF CleaningUpTestCase, DefaultResult, Stages, EventStages
    <2>5. CASE ComponentsCleanedUp \/ Destroyed
      BY <2>5 DEF ComponentsCleanedUp, Destroyed, ClearedInstance, Stages, SignalStages, EventStages
    <2> QED BY <1>3, <2>1, <2>2, <2>3, <2>4, <2>5 DEF StateFunction
  <1>4. CASE DocumentStep
    <2>1. Effect
      BY <1>4, DocumentEffect
    <2>2. /\ test' \in 0..LastTest /\ stage' \in Stages
          /\ instance' = IF stage' \in {"idle", "exited", "crashed"} THEN 0 ELSE test'
          /\ result' \in [Tests -> {"Unfinished", "Fail", "Success"}]
          /\ log' = log
      BY <2>1 DEF Effect, IInv, TypeOK, Terminal, Over, Stages
    <2>3. exception' \in {"none", "Testcase::Fail", "Error"}
      BY <1>4
      DEF IInv, TypeOK, DocumentStep, CallSlot, ProcessFinished, ProcessCrashed, FailVerification,
          ReportError, ProbeLost, RaiseError, StartProcess, Return, WaitIsOver, CallWait, TimerExpires, CallExpression,
          ExpressionIsTrue, ExpressionIsFalse, ExpressionIsError, FinishAndExit, Terminate, Abort,
          OnQmlEngineWarnings, Injected
    <2>4. calls' \in Nat
      BY <1>4
      DEF IInv, TypeOK, DocumentStep, CallSlot, ProcessFinished, ProcessCrashed, FailVerification,
          ReportError, ProbeLost, RaiseError, StartProcess, Return, WaitIsOver, CallWait, TimerExpires, CallExpression,
          ExpressionIsTrue, ExpressionIsFalse, ExpressionIsError, Abort
    <2>5. alive' \subseteq Tests
      <3>1. OnTop(Functions) => Top.of \in Tests
        BY TopFits DEF IInv, OnTop, IsEmpty, Top, FrameType
      <3> QED BY <1>4, <3>1
        DEF IInv, TypeOK, DocumentStep, CallSlot, ProcessFinished, ProcessCrashed,
          FailVerification, ReportError, ProbeLost, RaiseError, StartProcess, Return, WaitIsOver, CallWait, TimerExpires,
          CallExpression, ExpressionIsTrue, ExpressionIsFalse, ExpressionIsError, Abort, Proceeds
    <2> QED BY <1>1, <2>2, <2>3, <2>4, <2>5 DEF IInv, TypeOK
  <1> QED BY <1>2, <1>3, <1>4, NextIsExecOrDocument

----------------------------------------------------------------------------
(* Verdicts                                                                *)

VerdictStep ==
    \A t \in Tests :
       /\ result[t] = "Fail" => result'[t] = "Fail"
       /\ t < test \/ (t = test /\ stage = "idle") =>
              result[t] \in {"Success", "Fail"} /\ result'[t] = result[t]

LEMMA ResultStep ==
    ASSUME IInv, [Next]_vars
    PROVE  ResultsFit' /\ TestFits' /\ VerdictStep
  <1> USE DEF IInv, TypeOK
  <1>1. test \in Nat /\ \A t \in Tests : t \in Nat
    BY LastTestAssumption DEF Tests
  <1>2. CASE UNCHANGED vars
    BY <1>1, <1>2 DEF vars, ResultsFit, TestFits, VerdictStep, Over, Terminal
  <1>3. CASE StateFunction
    <2> USE <1>1 DEF ResultsFit, VerdictStep, UnchangedByStage
    <2>1. CASE Uninitialized
      <3>1. stage = "idle" /\ test' = test + 1 /\ stage' = "created"
            /\ \A t \in Tests : result'[t] = IF t = test + 1 THEN "Unfinished" ELSE result[t]
        BY <2>1 DEF Uninitialized
      <3>2. \A t \in Tests : t < test + 1 => t < test \/ t = test
        OBVIOUS
      <3>3. TestFits'
        BY <3>1 DEF TestFits
      <3>4. VerdictStep
        BY <3>1, <3>2 DEF Over
      <3>5. ResultsFit'
        BY <3>1, <3>2 DEF Over, Terminal
      <3> QED BY <3>3, <3>4, <3>5
    <2>2. CASE CleaningUpTestCase
      <3>1. /\ stage = "closing" /\ test' = test /\ stage' = "cleaning"
            /\ \A t \in Tests : result'[t] = IF t = test THEN DefaultResult(result[t]) ELSE result[t]
        BY <2>2 DEF CleaningUpTestCase
      <3>2. TestFits'
        BY <3>1 DEF TestFits, Over, Terminal
      <3>3. VerdictStep /\ ResultsFit'
        BY <3>1 DEF Over, Terminal, DefaultResult
      <3> QED BY <3>2, <3>3
    <2>3. CASE result' = result /\ test' = test /\ stage \notin Over
               /\ (stage' \in {"cleaning", "destruction"} \cup Over
                     => stage \in {"cleaning", "destruction"})
      BY <2>3 DEF TestFits, Over, Terminal
    <2> QED
      BY <1>3, <2>1, <2>2, <2>3
      DEF StateFunction, InitingTestCase, InitingTestFunction, Running, InvokeRun,
          RunReturned, CleaningUpTestFunction, ComponentsCleanedUp, Destroyed, Over, Terminal
  <1>4. CASE DocumentStep
    <2>1. Effect
      BY <1>4, DocumentEffect
    <2> QED BY <1>1, <2>1 DEF Effect, ResultsFit, TestFits, VerdictStep, Over, Terminal
  <1> QED BY <1>2, <1>3, <1>4, NextIsExecOrDocument

----------------------------------------------------------------------------
(* The log                                                                 *)

LEMMA LogStep ==
    ASSUME IInv, [Next]_vars
    PROVE  LogComplete'
  <1>1. LogComplete
    BY DEF IInv
  <1>2. /\ Len(log) \in Nat /\ test \in Nat /\ Len(log) <= LastTest /\ Len(log) <= test
        /\ \A i \in 1..Len(log) : i \in Tests
    BY <1>1, LenProperties, LastTestAssumption DEF IInv, TypeOK, LogComplete, Lines, Tests
  <1>3. VerdictStep
    BY ResultStep
  <1>4. CASE CleaningUpTestFunction
    <2> DEFINE line == [test |-> test, type |-> LogType(result[test])]
    <2>1. /\ log' = Append(log, line) /\ stage' = "closing" /\ stage = "finished"
          /\ result' = result /\ test' = test
      BY <1>4 DEF CleaningUpTestFunction
    <2>2. line.test = test /\ (line.type = "Fail" <=> result[test] = "Fail")
      BY DEF LogType
    <2> HIDE DEF line
    <2>3. Len(log) + 1 = test
      BY <1>1, <1>2, <2>1 DEF LogComplete, Lines
    <2>4. /\ Len(log') = Len(log) + 1
          /\ \A i \in 1..Len(log) : log'[i] = log[i]
          /\ log'[Len(log) + 1] = line
      BY <2>1 DEF IInv, TypeOK
    <2>5. Lines' = {test}
      BY <2>1 DEF Lines
    <2>6. \A i \in 1..Len(log') : i \in 1..Len(log) \/ i = Len(log) + 1
      BY <1>2, <2>4
    <2> QED BY <1>1, <1>2, <2>1, <2>2, <2>3, <2>4, <2>5, <2>6 DEF LogComplete
  <1>5. CASE Uninitialized
    <2>1. /\ stage = "idle" /\ stage' = "created" /\ test' = test + 1 /\ log' = log
      BY <1>5 DEF Uninitialized
    <2>2. Lines' = Lines
      BY <1>2, <2>1 DEF Lines
    <2> QED BY <1>1, <1>2, <1>3, <2>1, <2>2 DEF LogComplete, VerdictStep
  <1>6. CASE /\ UNCHANGED <<test, log>>
             /\ stage' # "closing"
             /\ Lines \subseteq Lines'
    BY <1>1, <1>2, <1>3, <1>6 DEF LogComplete, VerdictStep
  <1>7. CASE UNCHANGED <<test, log, stage, result>>
    BY <1>1, <1>7 DEF LogComplete, Lines
  <1>8. CASE DocumentStep
    <2>1. Effect
      BY <1>8, DocumentEffect
    <2>2. CASE UNCHANGED <<test, log, stage, result>>
      BY <1>7, <2>2
    <2>3. CASE ~UNCHANGED <<test, log, stage, result>>
      BY <1>6, <2>1, <2>3 DEF Effect, Over, Terminal, Lines
    <2> QED BY <2>2, <2>3
  <1>9. CASE StateFunction /\ ~CleaningUpTestFunction /\ ~Uninitialized
    BY <1>6, <1>9
    DEF StateFunction, InitingTestCase, InitingTestFunction, Running, InvokeRun, RunReturned,
        CleaningUpTestCase, ComponentsCleanedUp, Destroyed, Lines
  <1>10. CASE UNCHANGED vars
    BY <1>7, <1>10 DEF vars
  <1> QED BY <1>4, <1>5, <1>8, <1>9, <1>10, NextIsExecOrDocument

----------------------------------------------------------------------------
(* The theorems                                                            *)

\* The strengthened invariant, of which the others are parts.
THEOREM InvariantHolds == Spec => []IInv
  <1>1. Init => IInv
    <2> SUFFICES ASSUME Init PROVE IInv
      OBVIOUS
    <2>1. TypeOK
      <3>1. frames \in Seq([kind : Functions \cup Waits, of : Tests, struck : BOOLEAN])
            /\ log \in Seq([test : Tests, type : {"Success", "Fail"}])
        BY EmptySeq DEF Init
      <3>2. 0 \in 0..LastTest
        BY LastTestAssumption
      <3> QED BY <3>1, <3>2 DEF Init, TypeOK, Stages, EventStages
    <2>2. FramesFit(frames, exception, stage)
      BY NothingFits DEF Init
    <2>3. ResultsFit /\ TestFits
      BY LastTestAssumption DEF Init, ResultsFit, TestFits, Over, Tests
    <2>4. LogComplete
      <3>1. Len(log) = 0 /\ 1..Len(log) = {}
        BY EmptySeq DEF Init
      <3> QED BY <3>1 DEF Init, LogComplete, Lines
    <2> QED BY <2>1, <2>2, <2>3, <2>4 DEF IInv
  <1>2. IInv /\ [Next]_vars => IInv'
    BY TypeStep, FitsStep, ResultStep, LogStep DEF IInv
  <1> QED BY <1>1, <1>2, PTL DEF Spec

\* Type correctness: in particular a current test case exists exactly while
\* exec() is called.
THEOREM TypeCorrect == Spec => []TypeOK
  <1>1. IInv => TypeOK
    BY DEF IInv
  <1> QED BY <1>1, InvariantHolds, PTL

\* A failure aborts every function in progress, however deeply nested the event
\* was that raised it (exceptions injected by onQmlEngineWarnings()).
THEOREM FailuresAbort == Spec => []AbortsRemaining
  <1>1. IInv => AbortsRemaining
    BY TopFits DEF IInv, AbortsRemaining, OnTop, IsEmpty, Top
  <1> QED BY <1>1, InvariantHolds, PTL

\* Each test case has one line in the log, in the order of execution, that
\* says whether it has failed until then (cleaningUpTestFunctionStateFunction()).
THEOREM LogIsComplete == Spec => []LogComplete
  <1>1. IInv => LogComplete
    BY DEF IInv
  <1> QED BY <1>1, InvariantHolds, PTL

\* A failure is not taken back, and the result exec() returns is final.
THEOREM ResultsStand == Spec => VerdictsStand
  <1>1. IInv /\ [Next]_vars => VerdictStep
    BY ResultStep
  <1>2. VerdictStep => [VerdictStep]_vars
    OBVIOUS
  <1> QED BY <1>1, <1>2, InvariantHolds, PTL DEF Spec, VerdictsStand, VerdictStep
=============================================================================
