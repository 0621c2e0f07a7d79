--------------------------- MODULE JobLifecycle ---------------------------
(***************************************************************************)
(* What the job store promises its callers, whatever they call and in      *)
(* whatever order: a job lives once, its status only moves forward, its    *)
(* result is handed out at most once, and what is forgotten to make room   *)
(* is finished work while there is any.  The promises are those of the     *)
(* header of jobs.py and of the docstrings of its methods.                 *)
(***************************************************************************)
EXTENDS Naturals

CONSTANT JobIds

VARIABLES life,      \* life[j]: where job j is
          delivered  \* delivered[j]: how often j's result was handed out

Running == {"queued", "processing"}
Settled == {"completed", "failed", "canceled"}
Present == Running \cup Settled
Lives == {"unborn", "gone"} \cup Present

vars == <<life, delivered>>

Init == /\ life = [j \in JobIds |-> "unborn"]
        /\ delivered = [j \in JobIds |-> 0]

\* life with the jobs of S forgotten
Without(S) == [j \in JobIds |-> IF j \in S THEN "gone" ELSE life[j]]

\* A new job enters; jobs may be forgotten with the same step, a running one
\* only if no settled job is left behind.
Submit(j, S) ==
  /\ life[j] = "unborn"
  /\ \A k \in S : life[k] \in Present
  /\ (\E k \in S : life[k] \in Running)
        => \A k \in JobIds : life[k] \in Settled => k \in S
  /\ life' = [Without(S) EXCEPT ![j] = "queued"]
  /\ UNCHANGED delivered

\* Reading may forget settled jobs, never a running one.
Expire(S) ==
  /\ \A k \in S : life[k] \in Settled
  /\ life' = Without(S)
  /\ UNCHANGED delivered

Move(j, from, to) ==
  /\ life[j] \in from
  /\ life' = [life EXCEPT ![j] = to]
  /\ UNCHANGED delivered

Start(j) == Move(j, {"queued"}, "processing")
Finish(j) == Move(j, Running, "completed")
Fail(j) == Move(j, Running, "failed")
Cancel(j) == Move(j, {"queued"}, "canceled")

Deliver(j) ==
  /\ life[j] = "completed" /\ delivered[j] = 0
  /\ delivered' = [delivered EXCEPT ![j] = 1]
  /\ UNCHANGED life

\* The process dies and every job it held is gone.
Crash ==
  /\ life' = Without({j \in JobIds : life[j] \in Present})
  /\ UNCHANGED delivered

Next ==
  \/ \E S \in SUBSET JobIds : Expire(S) \/ \E j \in JobIds : Submit(j, S)
  \/ \E j \in JobIds : Start(j) \/ Finish(j) \/ Fail(j) \/ Cancel(j) \/ Deliver(j)
  \/ Crash

Spec == Init /\ [][Next]_vars
=============================================================================
