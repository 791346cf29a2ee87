------------------------------- MODULE BullJob -------------------------------
(***************************************************************************)
(* One BullMQ job, as the services of this repository rely on it.  BullMQ  *)
(* is a library, so this module states its contract, not its code: a job   *)
(* id is unique while the job exists, an active job belongs to the worker  *)
(* that holds its lock, a worker that lost the lock cannot settle the job, *)
(* a handler that throws uses up one attempt, a rate-limited one does not, *)
(* and a job whose lock expired goes back to waiting, MaxStalls times.     *)
(***************************************************************************)
EXTENDS Naturals

CONSTANTS
    Owner,      \* workers
    NoOwner,    \* the job is not locked
    MaxStalls   \* BullMQ's maxStalledCount; the code keeps the default, 1

JobState == {"absent", "waiting", "active", "completed", "failed"}

(* made counts the attempts that threw, stalls the locks that expired. *)
Job == [state : JobState, made : Nat, stalls : Nat, owner : Owner \cup {NoOwner}]

Absent == [state |-> "absent", made |-> 0, stalls |-> 0, owner |-> NoOwner]

(* Mutant: nobody looks for stalled jobs. *)
StalledIgnored(j) == j

(* queue.add: a job id that still exists makes the call a no-op. *)
Added(j) == IF j.state = "absent" THEN [j EXCEPT !.state = "waiting"] ELSE j

Taken(j, w) == [j EXCEPT !.state = "active", !.owner = w]

(* A worker without the lock settles nothing. *)
Completed(j, w) ==
    IF j.owner = w THEN [Absent EXCEPT !.state = "completed"] ELSE j

Failed(j, w, attempts) ==
    IF j.owner # w THEN j
    ELSE IF j.made + 1 < attempts
         THEN [j EXCEPT !.state = "waiting", !.made = @ + 1, !.owner = NoOwner]
         ELSE [Absent EXCEPT !.state = "failed"]

(* Worker.RateLimitError: back to waiting, no attempt used. *)
RateLimited(j, w) ==
    IF j.owner = w THEN [j EXCEPT !.state = "waiting", !.owner = NoOwner] ELSE j

Stalled(j) ==
    IF j.stalls < MaxStalls
    THEN [j EXCEPT !.state = "waiting", !.stalls = @ + 1, !.owner = NoOwner]
    ELSE [Absent EXCEPT !.state = "failed"]
==============================================================================
