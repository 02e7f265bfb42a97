-------------------------------- MODULE JobLog --------------------------------
(***************************************************************************)
(* The macros L1 and L2, which begin and end almost every job: .state lists*)
(* the jobs that run, one line with the name of each, and several jobs of  *)
(* several makes rewrite it at once under the lock .lock.                  *)
(*                                                                         *)
(* A line is represented by the job that wrote it; two jobs may have the   *)
(* same name, and their lines cannot be told apart.                        *)
(***************************************************************************)
CONSTANTS
  Job,
  Contains,  \* Contains[i]: the other jobs whose names contain the name of i
  HasFlock   \* flock is installed

VARIABLES
  state,    \* the lines of .state; a missing file and an empty one are alike
  state0,   \* the lines of .state0
  holders,  \* who holds the lock
  job,      \* what each job does next
  killed    \* jobs that were killed since they have written their line

logVars == <<state, state0, holders, job, killed>>

LogInit ==
  /\ state = {} /\ state0 = {}
  /\ holders = {}
  /\ job = [i \in Job |-> "idle"]
  /\ killed = {}

JobAt(i, p)   == job[i] = p
JobGoto(i, p) == job' = [job EXCEPT ![i] = p]

\* Mutant: flock is there and not asked.
TakeAtOnce(i) == holders' = holders \cup {i}

\* flock 200: without flock it is echo, which waits for nobody.
Take(i) == (HasFlock => holders = {}) /\ holders' = holders \cup {i}

\* The end of a subshell with 200>.lock.
Drop(i) == holders' = holders \ {i}

\* grep finds the line of i itself and those whose names contain its name.
Matching(i) == {i} \cup Contains[i]

-----------------------------------------------------------------------------
\* L1: ( flock 200; echo $p >>.state ) 200>.lock
LockToList(i) ==
  /\ JobAt(i, "idle") /\ Take(i) /\ JobGoto(i, "list")
  /\ UNCHANGED <<state, state0, killed>>

List(i) ==
  /\ JobAt(i, "list") /\ Drop(i) /\ JobGoto(i, "work")
  /\ state' = state \cup {i} /\ killed' = killed \ {i}
  /\ UNCHANGED state0

\* Mutant: grep looks for nothing, the line stays.
GrepNothing(i) ==
  /\ JobAt(i, "grep") /\ JobGoto(i, "mv")
  /\ state0' = state
  /\ UNCHANGED <<state, holders, killed>>

\* L2: ( flock 200; grep -v $p .state >.state0; mv .state0 .state ) 200>.lock
LockToUnlist(i) ==
  /\ JobAt(i, "work") /\ Take(i) /\ JobGoto(i, "grep")
  /\ UNCHANGED <<state, state0, killed>>

Grep(i) ==
  /\ JobAt(i, "grep") /\ JobGoto(i, "mv")
  /\ state0' = state \ Matching(i)
  /\ UNCHANGED <<state, holders, killed>>

Move(i) ==
  /\ JobAt(i, "mv") /\ Drop(i) /\ JobGoto(i, "idle")
  /\ state' = state0 /\ state0' = {}
  /\ UNCHANGED killed

\* A make that starts removes .state, without the lock.
StartMake ==
  /\ state' = {}
  /\ UNCHANGED <<state0, holders, job, killed>>

\* A job is killed with its make; the system closes .lock.
KillJob(i) ==
  /\ ~JobAt(i, "idle") /\ Drop(i) /\ JobGoto(i, "idle")
  /\ killed' = killed \cup {i}
  /\ UNCHANGED <<state, state0>>

LogNext ==
  \/ StartMake
  \/ \E i \in Job : \/ LockToList(i) \/ List(i)
                    \/ LockToUnlist(i) \/ Grep(i) \/ Move(i)
                    \/ KillJob(i)

LogSpec == LogInit /\ [][LogNext]_logVars

-----------------------------------------------------------------------------
(***************************************************************************)
(* Properties.                                                             *)
(***************************************************************************)
Phase == {"idle", "list", "work", "grep", "mv"}

\* Every variable holds what its comment says.
LogTypeOK ==
  /\ state \in SUBSET Job /\ state0 \in SUBSET Job /\ killed \in SUBSET Job
  /\ holders \in SUBSET Job
  /\ job \in [Job -> Phase]

\* A job is only listed while it runs, unless it was killed: no rewriting of the list by
\* another job brings back a line that was removed meanwhile (116-117).
ListedJobsRun ==
  \A i \in state : job[i] \in {"work", "grep", "mv"} \/ i \in killed

\* A job disappears from the list only when it ends, when a job ends whose name its name
\* contains, or when a make starts: what jobs append while another one rewrites the list
\* is not lost.
LinesLeaveRightly ==
  [][\A j \in state \ state' :
       StartMake \/ \E i \in Job : Move(i) /\ j \in Matching(i)]_logVars
=============================================================================
