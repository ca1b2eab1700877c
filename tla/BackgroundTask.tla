--------------------------- MODULE BackgroundTask ---------------------------
(***************************************************************************)
(* The lifecycle of a background task (crates/core/src/tasks.rs).  The     *)
(* code is a typestate: a value of ScheduledBackgroundTask<S> is in state  *)
(* S and a transition consumes it, so who holds a value holds the task.    *)
(* The type derives Clone, so values of one task can part ways.  Whoever   *)
(* drives tasks (nothing in the engine yet) holds values as it likes.      *)
(***************************************************************************)
EXTENDS Naturals

CONSTANTS
  Values,   (* places where a task is held                                  *)
  MaxU32    (* the largest attempt number: 2^32 - 1 in the code             *)

ASSUME MaxU32Assumption == MaxU32 \in Nat \ {0}

VARIABLES
  task,     (* what each place holds                                        *)
  history   (* the attempts made and failed on the way to that value        *)

taskVars == <<task, history>>

Statuses == { "pending", "running", "retrying", "success", "failed", "cancelled" }

(* ScheduledBackgroundTask with its TaskAttemptTracker; no place holds an  *)
(* id or a name that the transitions look at.                              *)
Task == [status : Statuses, max : 1..MaxU32, current : 0..MaxU32]
NoTask == [status |-> "none"]
Held == { v \in Values : task[v] # NoTask }

TypeOK ==
  /\ task \in [Values -> Task \union {NoTask}]
  /\ history \in [Values -> [attempts : Nat, failures : Nat]]

NoAttempts == [attempts |-> 0, failures |-> 0]

TaskInit ==
  /\ task = [v \in Values |-> NoTask]
  /\ history = [v \in Values |-> NoAttempts]

SaturatingAdd(n) == IF n < MaxU32 THEN n + 1 ELSE MaxU32

-----------------------------------------------------------------------------
(* BackgroundTaskBuilder::build, with an id and a name: ZeroMaxAttempts,   *)
(* MissingId and MissingName leave nothing to hold.                        *)
Build(v, max) ==
  /\ v \notin Held
  /\ max # 0
  /\ task' = [task EXCEPT ![v] = [status |-> "pending", max |-> max, current |-> 0]]
  /\ history' = [history EXCEPT ![v] = NoAttempts]

(* Every transition makes a new value with the old id, name and budget.    *)
Becomes(t, status) == [status |-> status, max |-> t.max, current |-> t.current]
Started(t) == [status |-> "running", max |-> t.max, current |-> SaturatingAdd(t.current)]

(* start, of a Pending and of a Retrying task.                             *)
Start(v) ==
  /\ task[v].status \in {"pending", "retrying"}
  /\ task' = [task EXCEPT ![v] = Started(task[v])]
  /\ history' = [history EXCEPT ![v] = [attempts |-> history[v].attempts + 1,
                                       failures |-> history[v].failures]]

Complete(v) ==
  /\ task[v].status = "running"
  /\ task' = [task EXCEPT ![v] = Becomes(task[v], "success")]
  /\ UNCHANGED history

(* Seeded bug: the budget compared with the attempt to come. *)
AfterFailureOneMore(t) == IF t.current <= t.max THEN "retrying" ELSE "failed"

(* fail: Ok(Retrying) or Err(Failed).                                      *)
AfterFailure(t) == IF t.current < t.max THEN "retrying" ELSE "failed"

Fail(v) ==
  /\ task[v].status = "running"
  /\ task' = [task EXCEPT ![v] = Becomes(task[v], AfterFailure(task[v]))]
  /\ history' = [history EXCEPT ![v] = [attempts |-> history[v].attempts,
                                       failures |-> history[v].failures + 1]]

Cancel(v) ==
  /\ task[v].status \in {"pending", "running", "retrying"}
  /\ task' = [task EXCEPT ![v] = Becomes(task[v], "cancelled")]
  /\ UNCHANGED history

(* The derived Clone.                                                      *)
Clone(v, w) ==
  /\ v \in Held
  /\ w \notin Held
  /\ task' = [task EXCEPT ![w] = task[v]]
  /\ history' = [history EXCEPT ![w] = history[v]]

Drop(v) ==
  /\ v \in Held
  /\ task' = [task EXCEPT ![v] = NoTask]
  /\ history' = [history EXCEPT ![v] = NoAttempts]

TaskNext ==
  \/ \E v \in Values, max \in 0..MaxU32 : Build(v, max)
  \/ \E v \in Values : Start(v) \/ Complete(v) \/ Fail(v) \/ Cancel(v) \/ Drop(v)
  \/ \E v, w \in Values : Clone(v, w)

TaskSpec == TaskInit /\ [][TaskNext]_taskVars

-----------------------------------------------------------------------------
(* How many attempts of a task have failed, by what it has become: its     *)
(* last attempt is still running, or succeeded, or was cancelled before or *)
(* after it failed.                                                        *)
FailuresOf(t) ==
  IF t.status \in {"running", "success"} THEN {t.current - 1}
  ELSE IF t.status = "cancelled" THEN {t.current} \union { n \in Nat : n + 1 = t.current }
  ELSE {t.current}

(* The retry budget is neither overrun nor cut short, whatever the order   *)
(* of starts, failures, cancellations and copies: the counter tells the    *)
(* attempts really made, saturation included; a task is Failed when        *)
(* exactly max_attempts have failed, and one that waits for a retry has    *)
(* failed in every attempt and has one left (start, fail, cancel).         *)
BudgetIsKept ==
  \A v \in Held :
    LET t == task[v] IN
    /\ history[v].attempts = t.current
    /\ history[v].failures \in FailuresOf(t)
    /\ t.current <= t.max
    /\ t.status = "pending" => t.current = 0
    /\ t.status = "retrying" => t.current \in 1..(t.max - 1)
    /\ t.status = "failed" => t.current = t.max
    /\ t.status \in {"running", "success"} => t.current > 0
=============================================================================
