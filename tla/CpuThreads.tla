------------------------------ MODULE CpuThreads ------------------------------
(***************************************************************************)
(* The OpenMP threads of the CPU and the cores they run on                 *)
(* (mace/core/runtime/cpu/cpu_runtime.cc).                                 *)
(*                                                                         *)
(* Each thread of the application has a team of its own: the number of     *)
(* threads of its parallel regions (a control variable of that thread),    *)
(* and the threads there are, with the cores each may run on, itself       *)
(* first.  A new thread may run where the one that makes it does.  Threads *)
(* that a smaller region leaves over stay or end, as the library of OpenMP *)
(* likes (external).                                                       *)
(***************************************************************************)
EXTENDS Integers, Sequences, FiniteSets

CONSTANTS
  Users,       \* threads of the application
  Cores,
  Chips,       \* their greatest frequencies, 0 where none can be read, as of a
               \* core that is offline
  Hints,       \* the numbers of threads asked for
  CoreSets     \* the cores asked for by name

ASSUME CpuAssumption ==
  /\ IsFiniteSet(Cores) /\ Cores # {}
  /\ Chips \subseteq [Cores -> Nat]
  /\ Hints \subseteq Int
  /\ CoreSets \subseteq SUBSET Cores

VARIABLES
  chip,
  teams,
  asked    \* history: what was asked for last by a call that succeeded, and the
           \* number of threads

cpuVars == <<chip, teams, asked>>

FreshTeam == [num |-> Cardinality(Cores), threads |-> <<Cores>>]

Policy(p, hint) == [policy |-> p, cores |-> {}, hint |-> hint]
Nothing         == Policy("nothing", 0)

CpuInit ==
  /\ chip \in Chips
  /\ teams = [u \in Users |-> FreshTeam]
  /\ asked = [u \in Users |-> Nothing]

Lower(a, b) == IF a <= b THEN a ELSE b

-----------------------------------------------------------------------------
(* The cores of the greatest and of the least frequency; on a chip of      *)
(* three sorts those between are neither.                                  *)
Detected == \A c \in Cores : chip[c] # 0

Big    == {c \in Cores : \A d \in Cores : chip[c] >= chip[d]}
Little == {c \in Cores : \A d \in Cores : chip[c] <= chip[d]}

(* The team of a region of n threads.                                      *)
Grown(team, n) ==
  [i \in 1..(IF n >= Len(team.threads) THEN n ELSE Len(team.threads)) |->
     IF i <= Len(team.threads) THEN team.threads[i] ELSE team.threads[1]]

Teams(u, n, threads) ==
  \E kept \in {n, Len(threads)} :
    teams' = [teams EXCEPT ![u] = [num |-> n, threads |-> SubSeq(threads, 1, kept)]]

(* Each thread of a region binds itself.                                   *)
SetOpenMPThreadsAndAffinityCPUs(u, n, ids) ==
  LET threads == Grown(teams[u], n) IN
  Teams(u, n, [i \in DOMAIN threads |-> IF i <= n THEN ids ELSE threads[i]])

(* The number asked for, or as many as there are cores of the sort.        *)
ThreadsFor(hint, ids) == IF hint <= 0 \/ hint > Cardinality(ids) THEN Cardinality(ids) ELSE hint

(* Bug: counts the cores of the other sort.                                *)
BugBound(u, hint, policy) ==
  /\ policy # "AFFINITY_NONE" /\ Detected
  /\ LET ids == IF policy = "AFFINITY_BIG_ONLY" THEN Big ELSE Little
         other == IF policy = "AFFINITY_BIG_ONLY" THEN Little ELSE Big
     IN  SetOpenMPThreadsAndAffinityCPUs(u, ThreadsFor(hint, other), ids)
  /\ asked' = [asked EXCEPT ![u] = Policy(policy, hint)]
  /\ UNCHANGED chip

Bound(u, hint, policy) ==
  /\ policy # "AFFINITY_NONE" /\ Detected
  /\ LET ids == IF policy = "AFFINITY_BIG_ONLY" THEN Big ELSE Little IN
     SetOpenMPThreadsAndAffinityCPUs(u, ThreadsFor(hint, ids), ids)
  /\ asked' = [asked EXCEPT ![u] = Policy(policy, hint)]
  /\ UNCHANGED chip

(* A frequency cannot be read: an error, and nothing changes.              *)
Undetected(policy) ==
  policy # "AFFINITY_NONE" /\ ~Detected /\ UNCHANGED cpuVars

(* Without a policy the number of threads changes, and only if one is      *)
(* given; they stay where they are.  Whether the processors counted are    *)
(* those the caller may run on is the library's choice.                    *)
Unbound(u, hint) ==
  /\ IF hint <= 0 THEN UNCHANGED teams
     ELSE \E procs \in {Cardinality(Cores), Cardinality(teams[u].threads[1])} :
            teams' = [teams EXCEPT ![u].num = Lower(hint, procs)]
  /\ asked' = [asked EXCEPT ![u] = Policy("AFFINITY_NONE", hint)]
  /\ UNCHANGED chip

SetOpenMPThreadPolicy(u) ==
  \E hint \in Hints, policy \in {"AFFINITY_NONE", "AFFINITY_BIG_ONLY", "AFFINITY_LITTLE_ONLY"} :
    \/ Bound(u, hint, policy)
    \/ Undetected(policy)
    \/ policy = "AFFINITY_NONE" /\ Unbound(u, hint)

(* Cores asked for by name, and a number of threads that is not looked at. *)
Named(u, n, ids) ==
  /\ SetOpenMPThreadsAndAffinityCPUs(u, n, ids)
  /\ asked' = [asked EXCEPT ![u] = [policy |-> "CORES", cores |-> ids, hint |-> n]]
  /\ UNCHANGED chip

SetOpenMPThreadAffinity(u) ==
  \E n \in {h \in Hints : h > 0}, ids \in CoreSets \ {{}} : Named(u, n, ids)

(* Where no core is online a thread cannot be bound, which ends the        *)
(* process, when the number of threads has already changed.                *)
SetThreadAffinityDies(u) ==
  /\ \E n \in {h \in Hints : h > 0}, ids \in CoreSets :
       (\A c \in ids : chip[c] = 0) /\ Teams(u, n, Grown(teams[u], n))
  /\ asked' = [asked EXCEPT ![u] = Nothing]
  /\ UNCHANGED chip

(* A kernel of the CPU.                                                    *)
ParallelRegion(u) ==
  /\ Teams(u, teams[u].num, Grown(teams[u], teams[u].num))
  /\ UNCHANGED <<chip, asked>>

-----------------------------------------------------------------------------
(* The cores a policy stands for as the header defines them: the fastest,  *)
(* and for the little ones all the remaining, or all if there is one sort. *)
Sort(policy) ==
  LET fastest == {c \in Cores : \A d \in Cores : chip[d] <= chip[c]} IN
  IF policy = "AFFINITY_BIG_ONLY" \/ fastest = Cores THEN fastest ELSE Cores \ fastest

ThreeSorts == Cardinality({chip[c] : c \in Cores}) > 2

(* Whatever was asked for before, and by which thread, and although        *)
(* threads were left over from larger regions and made for new ones: after *)
(* a thread asked for the big or the little cores, its parallel regions    *)
(* have as many threads as it asked for, or as there are such cores if it  *)
(* gave no number or a larger one, and each runs on such cores only; after *)
(* it asked for cores by name, they have the number given and run on       *)
(* those.  Of little cores of two sorts it may get fewer threads, but one. *)
(* (cpu_runtime.cc:129-235, mace_runtime.h:109-118 and 134-140)            *)
TeamIsBound ==
  \A u \in Users : asked[u].policy \in {"AFFINITY_BIG_ONLY", "AFFINITY_LITTLE_ONLY", "CORES"} =>
    LET ask    == asked[u]
        wanted == IF ask.policy = "CORES" THEN ask.cores ELSE Sort(ask.policy)
        n      == IF ask.policy = "CORES" \/ ask.hint \in 1..Cardinality(wanted)
                  THEN ask.hint ELSE Cardinality(wanted)
        num    == teams[u].num
    IN  /\ IF ask.policy = "AFFINITY_LITTLE_ONLY" /\ ThreeSorts THEN num \in 1..n ELSE num = n
        /\ \A i \in 1..num :
             Grown(teams[u], num)[i] # {} /\ Grown(teams[u], num)[i] \subseteq wanted
=============================================================================
