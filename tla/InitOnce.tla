------------------------------ MODULE InitOnce -------------------------------
(***************************************************************************)
(* One-time initialization of api-ms-win-core-synch.hpp.  The word says    *)
(* whether initialization has begun, by a thread alone ("busy") or by any  *)
(* number of threads at once ("shared", RTL_RUN_ONCE_ASYNC), and whether   *)
(* it is done.  While it is busy it also holds the newest of the cells in  *)
(* which threads wait; each cell leads to the one before.                  *)
(*                                                                         *)
(* A read of the word followed by a compare-exchange with nothing visible  *)
(* in between is one step.                                                 *)
(***************************************************************************)
EXTENDS Naturals, FiniteSets

CONSTANTS
  Threads,
  Asynchronous,  \* the threads that pass RTL_RUN_ONCE_ASYNC
  MaxFailures,   \* how often InitFn fails (bound of the model)
  Nil

VARIABLES
  once,      \* the word
  cell,      \* each thread's cell: the one it leads to
  pc,        \* where each thread is
  wake,      \* the cell RtlpRunOnceWakeAll goes on with
  context,   \* the context each thread got
  failures   \* how often InitFn has failed

vars == <<once, cell, pc, wake, context, failures>>

States == {"new", "busy", "shared", "done"}
Fresh == [state |-> "new", top |-> Nil, context |-> Nil]
Done(c) == [state |-> "done", top |-> Nil, context |-> c]

Init ==
  /\ once = Fresh
  /\ cell = [t \in Threads |-> Nil]
  /\ pc = [t \in Threads |-> "start"]
  /\ wake = [t \in Threads |-> Nil]
  /\ context = [t \in Threads |-> Nil]
  /\ failures = 0

Goto(t, label) == pc' = [pc EXCEPT ![t] = label]

-----------------------------------------------------------------------------
(* RtlRunOnceBeginInitialize.                                              *)

(* The first thread, or an asynchronous one among others, has to run       *)
(* InitFn (STATUS_PENDING).                                                *)
Begin(t) ==
  /\ pc[t] = "start" /\ once.state = "new"
  /\ once' = [once EXCEPT !.state = IF t \in Asynchronous THEN "shared" ELSE "busy"]
  /\ Goto(t, "pending")
  /\ UNCHANGED <<cell, wake, context, failures>>

(* Mutant: a thread that wants to be alone joins the others.               *)
Join_Anybody(t) ==
  /\ pc[t] = "start" /\ once.state = "shared"
  /\ Goto(t, "pending")
  /\ UNCHANGED <<once, cell, wake, context, failures>>

Join(t) ==
  /\ pc[t] = "start" /\ once.state = "shared" /\ t \in Asynchronous
  /\ Goto(t, "pending")
  /\ UNCHANGED <<once, cell, wake, context, failures>>

Succeed(t) ==
  /\ pc[t] = "start" /\ once.state = "done"
  /\ context' = [context EXCEPT ![t] = once.context]
  /\ Goto(t, "ready")
  /\ UNCHANGED <<once, cell, wake, failures>>

(* The two ways of initialising cannot be mixed.                           *)
Refuse(t) ==
  /\ pc[t] = "start"
  /\ once.state = IF t \in Asynchronous THEN "busy" ELSE "shared"
  /\ Goto(t, "failed")
  /\ UNCHANGED <<once, cell, wake, context, failures>>

(* Mutant: the cell does not lead to the one before.                       *)
Wait_Unlinked(t) ==
  /\ pc[t] = "start" /\ once.state = "busy" /\ t \notin Asynchronous
  /\ cell' = [cell EXCEPT ![t] = Nil]
  /\ once' = [once EXCEPT !.top = t]
  /\ Goto(t, "waiting")
  /\ UNCHANGED <<wake, context, failures>>

(* RtlpRunOnceWaitForInit, up to NtWaitForKeyedEvent.                      *)
Wait(t) ==
  /\ pc[t] = "start" /\ once.state = "busy" /\ t \notin Asynchronous
  /\ cell' = [cell EXCEPT ![t] = once.top]
  /\ once' = [once EXCEPT !.top = t]
  /\ Goto(t, "waiting")
  /\ UNCHANGED <<wake, context, failures>>

-----------------------------------------------------------------------------
(* RtlRunOnceComplete, after InitFn.  The context is the thread that       *)
(* provides it.                                                            *)

(* Success and failure of a thread that is alone: the waiters go on, and   *)
(* after a failure one of them begins anew.                                *)
Publish(t, word) ==
  /\ once' = word
  /\ wake' = [wake EXCEPT ![t] = once.top]

Complete(t) ==
  /\ pc[t] = "pending" /\ t \notin Asynchronous /\ once.state = "busy"
  /\ Publish(t, Done(t))
  /\ context' = [context EXCEPT ![t] = t]
  /\ Goto(t, "waking")
  /\ UNCHANGED <<cell, failures>>

Fail(t) ==
  /\ pc[t] = "pending" /\ t \notin Asynchronous /\ once.state = "busy"
  /\ failures < MaxFailures
  /\ failures' = failures + 1
  /\ Publish(t, Fresh)
  /\ Goto(t, "waking")
  /\ UNCHANGED <<cell, context>>

(* Mutant: every thread that completes publishes its context.              *)
CompleteShared_LastWins(t) ==
  /\ pc[t] = "pending" /\ t \in Asynchronous
  /\ once' = Done(t)
  /\ context' = [context EXCEPT ![t] = t]
  /\ Goto(t, "ready")
  /\ UNCHANGED <<cell, wake, failures>>

(* Of several threads the first one to complete wins.                      *)
CompleteShared(t) ==
  /\ pc[t] = "pending" /\ t \in Asynchronous
  /\ IF once.state = "shared"
     THEN /\ once' = Done(t)
          /\ context' = [context EXCEPT ![t] = t]
          /\ Goto(t, "ready")
     ELSE Goto(t, "failed") /\ UNCHANGED <<once, context>>
  /\ UNCHANGED <<cell, wake, failures>>

(* RtlpRunOnceWakeAll.                                                     *)
WakeNext(t) ==
  LET w == wake[t] IN
  /\ pc[t] = "waking" /\ w # Nil
  /\ wake' = [wake EXCEPT ![t] = cell[w]]
  /\ pc[w] = "waiting"
  /\ Goto(w, "start")
  /\ UNCHANGED <<once, cell, context, failures>>

WakeDone(t) ==
  /\ pc[t] = "waking" /\ wake[t] = Nil
  /\ Goto(t, IF context[t] = Nil THEN "failed" ELSE "ready")
  /\ UNCHANGED <<once, cell, wake, context, failures>>

-----------------------------------------------------------------------------
Step(t) ==
  \/ Begin(t) \/ Join(t) \/ Succeed(t) \/ Refuse(t) \/ Wait(t)
  \/ Complete(t) \/ Fail(t) \/ CompleteShared(t) \/ WakeNext(t) \/ WakeDone(t)

Next == \E t \in Threads : Step(t)

(* Threads run, and InitFn returns.                                        *)
Fairness == \A t \in Threads : WF_vars(Step(t))

Spec == Init /\ [][Next]_vars /\ Fairness

-----------------------------------------------------------------------------
Labels == {"start", "pending", "waiting", "waking", "ready", "failed"}

TypeOK ==
  /\ once \in [state : States, top : Threads \cup {Nil}, context : Threads \cup {Nil}]
  /\ cell \in [Threads -> Threads \cup {Nil}]
  /\ pc \in [Threads -> Labels]
  /\ wake \in [Threads -> Threads \cup {Nil}]
  /\ context \in [Threads -> Threads \cup {Nil}]
  /\ failures \in Nat

(* InitFn runs in one synchronous caller at a time, only while the word    *)
(* says so, and never again once it has succeeded.                         *)
InitRunsAlone ==
  \A t \in Threads \ Asynchronous :
    pc[t] = "pending" =>
      /\ once.state = "busy"
      /\ \A u \in Threads : pc[u] = "pending" => u = t

(* Whoever got a context got the one that was published, and there was     *)
(* only one: the results of the losers are never seen.                     *)
ContextAgreed ==
  \A t \in Threads : context[t] # Nil => once.state = "done" /\ context[t] = once.context

(* Once initialization has begun every caller returns: nobody pushes its   *)
(* cell on a word that nobody will complete, and nobody is left out of a   *)
(* wake-up.                                                                *)
EveryoneReturns ==
  (once.state # "new") ~> (\A t \in Threads : pc[t] \in {"ready", "failed"})
=============================================================================
