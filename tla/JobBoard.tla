------------------------------ MODULE JobBoard ------------------------------
(***************************************************************************)
(* What a cycle stream promises the backend, without agents, threads,      *)
(* clocks or cursors: a job posted on an open board is taken in the order  *)
(* of posting, is worked on at least once, and is closed only after that.  *)
(* Jobs posted before the board was opened are never heard of.             *)
(***************************************************************************)
EXTENDS Naturals

CONSTANT Jobs          \* an interval 1..n, in the order of posting

VARIABLES
  opened,              \* somebody listens to the board
  status,              \* per job: where it is
  worked               \* the jobs somebody finished working on

boardVars == <<opened, status, worked>>

Status == {"absent", "unheard", "queued", "open", "closed"}

BoardInit ==
  /\ opened = FALSE
  /\ status = [j \in Jobs |-> "absent"]
  /\ worked = {}

Move(j, from, to) ==
  /\ status[j] = from
  /\ status' = [status EXCEPT ![j] = to]

Post(j) ==
  /\ \A i \in Jobs : i < j => status[i] # "absent"
  /\ Move(j, "absent", IF opened THEN "queued" ELSE "unheard")
  /\ UNCHANGED <<opened, worked>>

OpenBoard ==
  /\ ~opened
  /\ opened' = TRUE
  /\ UNCHANGED <<status, worked>>

Take(j) ==
  /\ \A i \in Jobs : i < j => status[i] # "queued"
  /\ Move(j, "queued", "open")
  /\ UNCHANGED <<opened, worked>>

\* Work may be repeated, and may end after the job was closed.
Work(j) ==
  /\ status[j] \in {"open", "closed"}
  /\ worked' = worked \cup {j}
  /\ UNCHANGED <<opened, status>>

Close(j) ==
  /\ j \in worked
  /\ Move(j, "open", "closed")
  /\ UNCHANGED <<opened, worked>>

BoardNext ==
  \/ OpenBoard
  \/ \E j \in Jobs : Post(j) \/ Take(j) \/ Work(j) \/ Close(j)

BoardSpec == BoardInit /\ [][BoardNext]_boardVars
=============================================================================
