------------------------------ MODULE NestedMake ------------------------------
(***************************************************************************)
(* A command of a recipe that is itself a make, over the same files: the   *)
(* rule of ndk-include_ndk calls $(MAKE) for the files that sfdc makes of  *)
(* the NDK, because they are not known before the NDK is unpacked.         *)
(*                                                                         *)
(* Parent and child know nothing of each other's recipes; they share the   *)
(* files, and the job slots of -j through the job server.                  *)
(***************************************************************************)
EXTENDS Make

CONSTANTS
  Caller,     \* the target whose recipe calls the child, in its first command
  ChildGoal   \* what the child is asked for

VARIABLES
  child,                         \* "idle", "running", "ended"
  cgoal, cstatus, cpc, cbuilt    \* the child's goal, status, pc and built

cvars == <<cgoal, cstatus, cpc, cbuilt>>
nestedVars == <<vars, child, cvars>>

Child == INSTANCE Make WITH goal <- cgoal, status <- cstatus, pc <- cpc, built <- cbuilt

Calling == status[Caller] = "running" /\ pc[Caller] = 1

NestedInit == Init /\ child = "idle" /\ Child!Init

\* The child runs in the slot of the recipe that called it.
SlotsInUse == Cardinality(Running) + Cardinality(Child!Running) - (IF child = "running" THEN 1 ELSE 0)

\* What the parent does, but for the command that waits for the child.
ParentStep ==
  /\ \/ \E t \in Target :
          \/ Skip(t)
          \/ SlotsInUse < Jobs /\ Start(t)
          \/ ~(t = Caller /\ Calling) /\ (Succeed(t) \/ Fail(t) \/ Overlook(t))
     \/ Exit
  /\ UNCHANGED <<child, cvars>>

CallChild ==
  /\ Calling /\ child = "idle"
  /\ child' = "running"
  /\ Child!Invoke(ChildGoal)
  /\ UNCHANGED <<goal, status, pc, built>>

ChildStep ==
  /\ child = "running"
  /\ \/ \E t \in Target :
          \/ Child!Skip(t)
          \/ SlotsInUse < Jobs /\ Child!Start(t)
          \/ Child!Succeed(t) \/ Child!Fail(t) \/ Child!Overlook(t)
     \/ Child!Exit
  /\ child' = IF cgoal' = {} THEN "ended" ELSE "running"
  /\ UNCHANGED <<goal, status, pc, built>>

\* The status of the child is that of the command.
ChildReturns ==
  /\ Calling /\ child = "ended"
  /\ IF cbuilt = ChildGoal THEN Succeed(Caller)
       ELSE /\ status' = [status EXCEPT ![Caller] = "failed"]
            /\ pc' = [pc EXCEPT ![Caller] = 0]
            /\ UNCHANGED <<content, newer, unsynced, goal, built>>
  /\ child' = "idle"
  /\ UNCHANGED cvars

NestedNext ==
  \/ (\E g \in Goals : Invoke(g)) /\ UNCHANGED <<child, cvars>>
  \/ ParentStep
  \/ CallChild \/ ChildStep \/ ChildReturns

NestedSpec == NestedInit /\ [][NestedNext]_nestedVars

-----------------------------------------------------------------------------
\* No file has two writers, one in the parent and one in the child.
OneWriterOfBoth ==
  \A t \in Running, u \in Child!Running :
    ~(t = Caller /\ Calling) => Cmd(t).writes \cap Child!Cmd(u).writes = {}
=============================================================================
