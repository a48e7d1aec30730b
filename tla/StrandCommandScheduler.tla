----------------------- MODULE StrandCommandScheduler -----------------------
(***************************************************************************)
(* The scheduler of multi-step dialogs (src/Zhen/StrandCommandScheduler).   *)
(* A page sets an executor and starts it; until the executor says it is     *)
(* done, every keyboard event of the page is an answer to it.  The object   *)
(* is a record here, its operations are functions from record to record:    *)
(* every page that uses one has a variable of its own.                      *)
(*                                                                         *)
(* An answer is a number the user typed, or NotANumber (whatever std::stoi  *)
(* refuses); Prompt stands for the empty string start() passes.             *)
(***************************************************************************)
EXTENDS Naturals, Sequences, SequencesExt

NotANumber == 0
Prompt == 0

NoExecutor == "none"

CONSTANT m_maxExecutionTimes    \* 5 in the code

ASSUME MaxExecutionTimesAssumption == m_maxExecutionTimes \in Nat

SchedulerTypes(executors, answers) ==
    [executor : executors \cup {NoExecutor},
     parameters : BoundedSeq(answers, 3),
     step : 0 .. 3,
     tries : 0 .. m_maxExecutionTimes + 1]

\* clear(): BackToBeginning, and the executor is forgotten
Idle == [executor |-> NoExecutor, parameters |-> <<>>, step |-> 0, tries |-> 0]

BackToBeginning(s) == [s EXCEPT !.parameters = <<>>, !.step = 0, !.tries = 0]

\* a page's option: clear, SetExecutor
Executing(executor) == [Idle EXCEPT !.executor = executor]

Cleared(s) == [BackToBeginning(s) EXCEPT !.executor = NoExecutor]

AddParameter(s, answer) == [s EXCEPT !.parameters = Append(@, answer)]

RemoveLastParameter(s) == [s EXCEPT !.parameters = Front(@)]

Asking(s, step) == [s EXCEPT !.step = step]

(***************************************************************************)
(* One call of the executor gives a result: whether it is done, what it     *)
(* left of the scheduler, and the request it made, if any.                  *)
(***************************************************************************)
NoRequest == <<>>
Again(s) == [done |-> FALSE, scheduler |-> s, request |-> NoRequest]
Done(s, request) == [done |-> TRUE, scheduler |-> s, request |-> request]

AfterRun(result) ==
    IF result.done THEN Cleared(result.scheduler) ELSE result.scheduler

\* OnEvent while an executor is set: a try too many ends the dialog unasked
TriedTooOften(s) == s.tries > m_maxExecutionTimes

\* A slip: the tries are not counted.
TryingUncounted(s) == s

Trying(s) == [s EXCEPT !.tries = @ + 1]

=============================================================================
