-------------------------------- MODULE Hexagon --------------------------------
(***************************************************************************)
(* A model's graph on the DSP                                              *)
(* (mace/core/runtime/hexagon/hexagon_control_wrapper.cc).                 *)
(*                                                                         *)
(* SetupGraph sends the constants and the operators of the model from two  *)
(* threads, in lists of limited length; the DSP (external) appends them to *)
(* the graph, and lays the graph out when it is prepared.                  *)
(***************************************************************************)
EXTENDS Integers, Sequences

CONSTANTS
  Wrappers,                     \* one per engine on the DSP
  ConstCount, OpCount,          \* of the model
  ConstListSize, OpListSize     \* 250 and 125 in the code

ASSUME ListsAssumption ==
  /\ ConstCount \in Nat /\ OpCount \in Nat
  /\ ConstListSize \in Nat \ {0} /\ OpListSize \in Nat \ {0}

VARIABLES
  graph,     \* on the DSP, one per wrapper
  wrapper,   \* how far SetupGraph is: nodes sent by each thread
  power      \* of the DSP, which all engines share

hexVars == <<graph, wrapper, power>>

NodeIdOffset == 10000

NoGraph == [consts |-> <<>>, ops |-> <<>>, whole |-> TRUE, prepared |-> FALSE]
NoSetup == [consts |-> 0, ops |-> 0, on |-> FALSE]

HexInit ==
  /\ graph = [w \in Wrappers |-> NoGraph]
  /\ wrapper = [w \in Wrappers |-> NoSetup]
  /\ power = "saving"

(* Config and Init.                                                        *)
StartHexagon(w) ==
  /\ ~wrapper[w].on
  /\ wrapper' = [wrapper EXCEPT ![w] = [NoSetup EXCEPT !.on = TRUE]]
  /\ graph' = [graph EXCEPT ![w] = NoGraph]
  /\ power' = "full"

-----------------------------------------------------------------------------
(* A list is sent when it is full, and what remains at the end.            *)
ListLength(sent, count, size) == IF sent + size <= count THEN size ELSE count - sent

(* Bug: the list is not cleared when it was sent.                          *)
BugNodes(sent, n) == [i \in 1..(sent + n) |-> NodeIdOffset + i]

Nodes(sent, n) == [i \in 1..n |-> NodeIdOffset + sent + i]

(* The constants point into the model's data, which is there or not.       *)
SendConsts(w, live) ==
  /\ wrapper[w].on /\ wrapper[w].consts < ConstCount
  /\ LET sent == wrapper[w].consts
         n == ListLength(sent, ConstCount, ConstListSize)
     IN  /\ graph' = [graph EXCEPT ![w].consts = @ \o Nodes(sent, n), ![w].whole = @ /\ live]
         /\ wrapper' = [wrapper EXCEPT ![w].consts = sent + n]
  /\ UNCHANGED power

SendOps(w) ==
  /\ wrapper[w].on /\ wrapper[w].ops < OpCount
  /\ LET sent == wrapper[w].ops
         n == ListLength(sent, OpCount, OpListSize)
     IN  /\ graph' = [graph EXCEPT ![w].ops = @ \o Nodes(sent, n)]
         /\ wrapper' = [wrapper EXCEPT ![w].ops = sent + n]
  /\ UNCHANGED power

(* Both threads have ended.                                                *)
Prepare(w) ==
  /\ wrapper[w].on /\ wrapper[w].consts = ConstCount /\ wrapper[w].ops = OpCount
  /\ ~graph[w].prepared
  /\ graph' = [graph EXCEPT ![w].prepared = TRUE]
  /\ UNCHANGED <<wrapper, power>>

(* TeardownGraph and Finalize: the power is saved for all engines.         *)
StopHexagon(w) ==
  /\ wrapper[w].on
  /\ graph' = [graph EXCEPT ![w] = NoGraph]
  /\ wrapper' = [wrapper EXCEPT ![w] = NoSetup]
  /\ power' = "saving"

-----------------------------------------------------------------------------
(* A graph that is prepared has every node of the model once and in the    *)
(* model's order, whichever thread was ahead.                              *)
GraphIsWhole(w) ==
  graph[w].prepared =>
    /\ graph[w].whole
    /\ graph[w].consts = Nodes(0, ConstCount)
    /\ graph[w].ops = Nodes(0, OpCount)
=============================================================================
