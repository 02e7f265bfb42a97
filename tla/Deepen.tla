-------------------------------- MODULE Deepen --------------------------------
(***************************************************************************)
(* The loops that deepen a shallow clone: "make update" of gcc and binutils*)
(* when git pull has failed, and "make v date=...", which looks for the    *)
(* last commit before a date.  Both try git pull --depth with a depth that *)
(* is doubled until git is content, whatever the reason of the failure.    *)
(*                                                                         *)
(* git is external: a pull with a depth leaves a history of this depth, and*)
(* succeeds when the commit that it needs is in it.                        *)
(***************************************************************************)
EXTENDS Integers

CONSTANTS
  Width,     \* 2^64: the integers of the shell wrap around
  First,     \* 16
  History,   \* the length of the project's history
  Needs      \* how deep a commit that is looked for may be; none is there below History

VARIABLES
  target,    \* "update" or "v", "none" when neither was called
  need,      \* where the commit is that must be found
  depth,     \* how much of the history the clone has
  try,       \* DEPTH
  loop,      \* "stopped", "pull", "deepen" or "found"
  network,   \* the server can be reached
  outage     \* history: it could not be, at some time in this run

cloneVars == <<target, need, depth, try, loop, network, outage>>

CloneInit ==
  /\ target = "none" /\ need = 1 /\ depth = First /\ try = First
  /\ loop = "stopped" /\ network = TRUE /\ outage = FALSE

-----------------------------------------------------------------------------
LoopAt(p) == loop = p

\* A call finds the commit somewhere, or not at all: a date may lie before the first one.
Begin(t) ==
  /\ LoopAt("stopped") \/ LoopAt("found")
  /\ target' = t /\ need' \in Needs
  /\ loop' = IF t = "update" THEN "pull" ELSE "deepen"
  /\ try' = First /\ outage' = ~network
  /\ UNCHANGED <<depth, network>>

\* git pull || (export DEPTH=16; ...
Pull ==
  /\ LoopAt("pull")
  /\ \/ network /\ loop' = "found" /\ depth' = IF need > depth THEN need ELSE depth
     \/ loop' = "deepen" /\ UNCHANGED depth
  /\ UNCHANGED <<target, need, try, network, outage>>

\* A depth that is not positive is refused.
Positive(d) == d \in 1 .. Width \div 2 - 1

Smaller(a, b) == IF a < b THEN a ELSE b

\* git pull --depth $DEPTH: this much of the history, or nothing.
Pulled == IF network /\ Positive(try) THEN Smaller(try, History) ELSE depth

\* It succeeds when the tip of the project can be merged.
Merges == network /\ Positive(try) /\ Pulled >= need

\* Mutant: DEPTH is not doubled.
DoubleNot == try

\* export DEPTH=$(($DEPTH+$DEPTH))
Double == (try + try) % Width

\* Mutant: there is no break.
UpdateOn ==
  /\ LoopAt("deepen") /\ target = "update"
  /\ depth' = Pulled /\ try' = Double
  /\ UNCHANGED <<target, need, loop, network, outage>>

\* while true; do git pull --depth $DEPTH && break; ...; done
UpdateLoop ==
  /\ LoopAt("deepen") /\ target = "update"
  /\ depth' = Pulled
  /\ IF Merges THEN loop' = "found" /\ UNCHANGED try
               ELSE try' = Double /\ UNCHANGED loop
  /\ UNCHANGED <<target, need, network, outage>>

\* while [ "" == "$(git rev-list ...)" ]; do git pull --depth $DEPTH; ...; done
DateLoop ==
  /\ LoopAt("deepen") /\ target = "v"
  /\ IF depth >= need THEN loop' = "found" /\ UNCHANGED <<depth, try>>
                      ELSE depth' = Pulled /\ try' = Double /\ UNCHANGED loop
  /\ UNCHANGED <<target, need, network, outage>>

CloneStep == Pull \/ UpdateLoop \/ DateLoop

-----------------------------------------------------------------------------
\* The network comes and goes.
NetworkChanges ==
  /\ network' = ~network /\ outage' = TRUE
  /\ UNCHANGED <<target, need, depth, try, loop>>

KillLoop ==
  /\ LoopAt("pull") \/ LoopAt("deepen")
  /\ loop' = "stopped"
  /\ UNCHANGED <<target, need, depth, try, network, outage>>

CloneNext == (\E t \in {"update", "v"} : Begin(t)) \/ CloneStep \/ NetworkChanges \/ KillLoop

CloneSpec == CloneInit /\ [][CloneNext]_cloneVars

\* The depth that reaches the whole history is not yet negative.
DepthsFit ==
  /\ {Width, First, History} \subseteq Nat \ {0} /\ Needs \subseteq Nat
  /\ First <= History /\ 4 * History <= Width

-----------------------------------------------------------------------------
(***************************************************************************)
(* Properties.                                                             *)
(***************************************************************************)
\* When the network is there for good, every call ends, unless DEPTH has wrapped around to 0
\* before, or there is no such commit: then nothing but a kill ends it.
DeepeningEnds ==
  <>[]network => []<>(LoopAt("stopped") \/ LoopAt("found") \/ try = 0 \/ need > History)

\* git will be asked for a depth that it refuses, from now on.
Hopeless == LoopAt("deepen") /\ ~Positive(try) /\ (target = "v" => depth < need)

\* DEPTH overflows in vain only after an outage, or when there is no such commit: without
\* either the whole history is reached before.
OverflowNeedsOutage == Hopeless => outage \/ need > History
=============================================================================
