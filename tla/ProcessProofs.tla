----------------------------- MODULE ProcessProofs -----------------------------
(***************************************************************************)
(* Three results about what the engines of a process share: the data of a  *)
(* model, the threads of the CPU, and the tuned parameters.                *)
(*                                                                         *)
(* The data of a model live as long as they are needed and reach the DSP   *)
(* whole, whatever the number of threads, engines, processes and nodes.    *)
(*                                                                         *)
(* Two halves that meet in one action: where an engine is in its life says *)
(* what has become of its data (GoodEngine), and how many nodes were sent  *)
(* says what is on the DSP (GoodGraph), provided that the data live while  *)
(* they are sent.                                                          *)
(***************************************************************************)
EXTENDS Process, TLAPS, SequenceTheorems, FiniteSetTheorems, WellFoundedInduction

Stages == {"none", "created", "loaded", "tensors", "sending", "ready", "failed", "gone"}

EngineType ==
  [at : Stages, device : Devices, data : {"none", "live", "freed"}, refers : BOOLEAN, frees : Nat]

(* What has become of the data, by stage.                                  *)
GoodEngine(e) ==
  /\ e \in EngineType
  /\ e.refers => e.device = "CPU" /\ e.data = "live"
  /\ e.at \in {"none", "created"} => e.data = "none"
  /\ e.at \in {"loaded", "tensors", "sending", "failed"} => e.data = "live"
  /\ e.at = "ready" => e.data = (IF e.device = "CPU" THEN "live" ELSE "freed")
  /\ e.at = "gone" /\ e.device = "CPU" => e.data # "live"
  /\ e.frees = IF e.data = "freed" THEN 1 ELSE 0

GraphType == [consts : Seq(Nat), ops : Seq(Nat), whole : BOOLEAN, prepared : BOOLEAN]
SetupType == [consts : 0..ConstCount, ops : 0..OpCount, on : BOOLEAN]

(* What was sent is what is there.                                         *)
GoodGraph(g, w) ==
  /\ g \in GraphType
  /\ w \in SetupType
  /\ g.whole
  /\ g.consts = Nodes(0, w.consts)
  /\ g.ops = Nodes(0, w.ops)
  /\ g.prepared => w.consts = ConstCount /\ w.ops = OpCount

Engines == engine \in [Threads -> EngineType] /\ \A t \in Threads : GoodEngine(engine[t])

Graphs ==
  /\ graph \in [Wrappers -> GraphType] /\ wrapper \in [Wrappers -> SetupType]
  /\ \A w \in Wrappers : GoodGraph(graph[w], wrapper[w])

IInv == Engines /\ Graphs

-----------------------------------------------------------------------------
(* Lists of nodes sent one after the other are one list.                   *)
LEMMA NodesType ==
  ASSUME NEW s \in Nat, NEW n \in Nat
  PROVE  Nodes(s, n) \in Seq(Nat) /\ Len(Nodes(s, n)) = n
BY DEF Nodes, NodeIdOffset

LEMMA NodesJoin ==
  ASSUME NEW s \in Nat, NEW n \in Nat
  PROVE  Nodes(0, s) \o Nodes(s, n) = Nodes(0, s + n)
<1> DEFINE a == Nodes(0, s)
           b == Nodes(s, n)
           c == Nodes(0, s + n)
<1>1. a \in Seq(Nat) /\ Len(a) = s /\ b \in Seq(Nat) /\ Len(b) = n /\ c \in Seq(Nat) /\ Len(c) = s + n
  BY NodesType
<1>2. a \o b \in Seq(Nat) /\ Len(a \o b) = s + n
  BY <1>1, ConcatProperties
<1>3. ASSUME NEW i \in 1..(s + n) PROVE (a \o b)[i] = c[i]
  <2>1. (a \o b)[i] = IF i <= Len(a) THEN a[i] ELSE b[i - Len(a)]
    BY <1>1, ConcatProperties
  <2>2. i <= s => a[i] = NodeIdOffset + i
    BY DEF Nodes, NodeIdOffset
  <2>3. i > s => b[i - s] = NodeIdOffset + s + (i - s)
    BY DEF Nodes, NodeIdOffset
  <2>4. c[i] = NodeIdOffset + i
    BY DEF Nodes, NodeIdOffset
  <2> HIDE DEF a, b, c
  <2> QED BY <1>1, <2>1, <2>2, <2>3, <2>4 DEF NodeIdOffset
<1> HIDE DEF a, b, c
<1>4. a \o b = c
  BY <1>1, <1>2, <1>3, SeqEqual
<1> QED BY <1>4 DEF a, b, c

(* A list is never empty while there is something to send, and never more. *)
LEMMA ListFits ==
  ASSUME NEW count \in Nat, NEW size \in Nat \ {0}, NEW sent \in 0..count, sent < count
  PROVE  ListLength(sent, count, size) \in Nat /\ sent + ListLength(sent, count, size) \in 0..count
BY DEF ListLength

LEMMA NothingSent == GoodGraph(NoGraph, NoSetup) /\ GoodGraph(NoGraph, [NoSetup EXCEPT !.on = TRUE])
<1>1. Nodes(0, 0) = <<>>
  BY NodesType, EmptySeq
<1>2. NoGraph \in GraphType
  BY EmptySeq DEF NoGraph, GraphType
<1>3. NoSetup \in SetupType /\ [NoSetup EXCEPT !.on = TRUE] \in SetupType
  <2>1. 0 \in 0..ConstCount /\ 0 \in 0..OpCount
    BY ListsAssumption
  <2> QED BY <2>1 DEF NoSetup, SetupType
<1>4. /\ NoGraph.consts = <<>> /\ NoGraph.ops = <<>> /\ NoGraph.whole /\ ~NoGraph.prepared
      /\ NoSetup.consts = 0 /\ NoSetup.ops = 0
      /\ [NoSetup EXCEPT !.on = TRUE].consts = 0 /\ [NoSetup EXCEPT !.on = TRUE].ops = 0
  BY DEF NoGraph, NoSetup
<1> QED BY <1>1, <1>2, <1>3, <1>4 DEF GoodGraph

-----------------------------------------------------------------------------
(* A step of one engine: its new state is good if it follows the old one.  *)
LEMMA EngineStep ==
  ASSUME Engines, NEW t \in Threads, NEW e, GoodEngine(e), engine' = [engine EXCEPT ![t] = e]
  PROVE  Engines'
BY DEF Engines, GoodEngine

(* One field changed.                                                      *)
Same(f, e) == f.device = e.device /\ f \in EngineType

LEMMA AtChanged ==
  ASSUME NEW e \in EngineType, NEW v \in Stages, NEW f, f = [e EXCEPT !.at = v]
  PROVE  Same(f, e) /\ f.at = v /\ f.data = e.data /\ f.refers = e.refers /\ f.frees = e.frees
BY DEF EngineType, Same

LEMMA DataChanged ==
  ASSUME NEW e \in EngineType, NEW v \in {"none", "live", "freed"}, NEW f, f = [e EXCEPT !.data = v]
  PROVE  Same(f, e) /\ f.at = e.at /\ f.data = v /\ f.refers = e.refers /\ f.frees = e.frees
BY DEF EngineType, Same

LEMMA RefersChanged ==
  ASSUME NEW e \in EngineType, NEW v \in BOOLEAN, NEW f, f = [e EXCEPT !.refers = v]
  PROVE  Same(f, e) /\ f.at = e.at /\ f.data = e.data /\ f.refers = v /\ f.frees = e.frees
BY DEF EngineType, Same

LEMMA FreesChanged ==
  ASSUME NEW e \in EngineType, NEW f, f = [e EXCEPT !.frees = @ + 1]
  PROVE  Same(f, e) /\ f.at = e.at /\ f.data = e.data /\ f.refers = e.refers /\ f.frees = e.frees + 1
BY DEF EngineType, Same

LEMMA UnloadedFields ==
  ASSUME NEW e \in EngineType
  PROVE  /\ Same(Unloaded(e), e) /\ Unloaded(e).at = e.at /\ Unloaded(e).data = "freed"
         /\ Unloaded(e).refers = e.refers /\ Unloaded(e).frees = e.frees + 1
<1>1. PICK f : f = [e EXCEPT !.data = "freed"]
  OBVIOUS
<1>2. Same(f, e) /\ f.at = e.at /\ f.data = "freed" /\ f.refers = e.refers /\ f.frees = e.frees
  BY <1>1, DataChanged
<1>3. Unloaded(e) = [f EXCEPT !.frees = @ + 1]
  BY <1>1 DEF Unloaded, EngineType
<1>4. f \in EngineType
  BY <1>2 DEF Same
<1>5. /\ Same(Unloaded(e), f) /\ Unloaded(e).at = f.at /\ Unloaded(e).data = f.data
      /\ Unloaded(e).refers = f.refers /\ Unloaded(e).frees = f.frees + 1
  BY <1>3, <1>4, FreesChanged
<1> QED BY <1>2, <1>5 DEF Same

(* An engine that is initialised or destroyed has freed its data once at   *)
(* most.                                                                   *)
LEMMA InitializedIsGood ==
  ASSUME NEW e, GoodEngine(e), e.at \in {"tensors", "sending"}
  PROVE  GoodEngine(Initialized(e))
<1>1. PICK f : f = IF e.device \in {"GPU", "HEXAGON"} THEN Unloaded(e) ELSE e
  OBVIOUS
<1>2. e \in EngineType /\ "ready" \in Stages
  BY DEF GoodEngine, Stages
<1>3. e.device \in Devices /\ e.data = "live" /\ e.frees = 0
  BY <1>2 DEF GoodEngine, EngineType
<1>4. /\ Same(f, e) /\ f.refers = e.refers
      /\ f.data = (IF e.device = "CPU" THEN "live" ELSE "freed")
      /\ f.frees = (IF e.device = "CPU" THEN 0 ELSE 1)
  <2>1. CASE e.device = "CPU"
    BY <1>1, <1>2, <1>3, <2>1 DEF Same
  <2>2. CASE e.device # "CPU"
    <3>1. f = Unloaded(e)
      BY <1>1, <1>3, <2>2 DEF Devices
    <3> QED BY <1>2, <1>3, <2>2, <3>1, UnloadedFields
  <2> QED BY <2>1, <2>2
<1>5. Initialized(e) = [f EXCEPT !.at = "ready"]
  BY <1>1 DEF Initialized
<1>6. f \in EngineType
  BY <1>4 DEF Same
<1>7. PICK g : g = Initialized(e)
  OBVIOUS
<1>8. Same(g, f) /\ g.at = "ready" /\ g.data = f.data /\ g.refers = f.refers /\ g.frees = f.frees
  BY <1>2, <1>5, <1>6, <1>7, AtChanged
<1>9. e.refers => e.device = "CPU"
  BY DEF GoodEngine
<1>10. GoodEngine(g)
  BY <1>4, <1>8, <1>9 DEF GoodEngine, Same
<1> QED BY <1>7, <1>10

LEMMA DestroyedIsGood ==
  ASSUME NEW e, GoodEngine(e), e.at \in {"created", "failed", "ready"}
  PROVE  GoodEngine(Destroyed(e))
<1>1. PICK f : f = IF e.device = "CPU" /\ e.data # "none" THEN Unloaded(e) ELSE e
  OBVIOUS
<1>2. e \in EngineType /\ "gone" \in Stages
  BY DEF GoodEngine, Stages
<1>3. /\ Same(f, e) /\ f.refers = e.refers
      /\ IF e.device = "CPU" /\ e.data # "none" THEN f.data = "freed" /\ f.frees = e.frees + 1
         ELSE f.data = e.data /\ f.frees = e.frees
  <2>1. CASE e.device = "CPU" /\ e.data # "none"
    BY <1>1, <1>2, <2>1, UnloadedFields
  <2>2. CASE ~(e.device = "CPU" /\ e.data # "none")
    BY <1>1, <1>2, <2>2 DEF Same
  <2> QED BY <2>1, <2>2
<1>4. f \in EngineType
  BY <1>3 DEF Same
<1>5. PICK g : g = [f EXCEPT !.at = "gone"]
  OBVIOUS
<1>6. Same(g, f) /\ g.at = "gone" /\ g.data = f.data /\ g.frees = f.frees
  BY <1>2, <1>4, <1>5, AtChanged
<1>7. g \in EngineType
  BY <1>6 DEF Same
<1>8. PICK h : h = Destroyed(e)
  OBVIOUS
<1>9. h = [g EXCEPT !.refers = FALSE]
  BY <1>1, <1>5, <1>8, <1>4 DEF Destroyed, EngineType
<1>10. Same(h, g) /\ h.at = g.at /\ h.data = g.data /\ h.refers = FALSE /\ h.frees = g.frees
  BY <1>7, <1>9, RefersChanged
<1>11. e.device = "CPU" /\ e.data # "none" => e.data = "live" /\ e.frees = 0
  BY <1>2 DEF GoodEngine, EngineType
<1>12. e.frees = IF e.data = "freed" THEN 1 ELSE 0
  BY DEF GoodEngine
<1>13. GoodEngine(h)
  BY <1>3, <1>6, <1>10, <1>11, <1>12 DEF GoodEngine, Same
<1> QED BY <1>8, <1>13

LEMMA NoEngineIsGood ==
  ASSUME NEW d \in Devices
  PROVE  GoodEngine([NoEngine EXCEPT !.device = d])
BY DEF GoodEngine, NoEngine, EngineType, Stages, Devices

(* A step of one graph; a thread without a wrapper leaves all as they are. *)
LEMMA GraphStep ==
  ASSUME Graphs, NEW w, NEW g, NEW s, w \in Wrappers => GoodGraph(g, s),
         graph' = [graph EXCEPT ![w] = g], wrapper' = [wrapper EXCEPT ![w] = s]
  PROVE  Graphs'
BY DEF Graphs, GoodGraph

-----------------------------------------------------------------------------
(* What the steps of an engine do to it.                                   *)
LEMMA LifeKeeps ==
  ASSUME Engines, NEW t \in Threads,
         \/ Create(t) \/ LoadModelData(t) \/ LoadModelTensor(t) \/ RunInit(t) \/ Destroy(t)
  PROVE  Engines' /\ UNCHANGED hexVars
<1>1. GoodEngine(engine[t]) /\ engine[t] \in EngineType
  BY DEF Engines
<1>2. UNCHANGED hexVars
  BY DEF Create, LoadModelData, LoadModelTensor, RunInit, Destroy, OwnOnly
<1>3. ASSUME Create(t) PROVE Engines'
  <2>1. PICK f : f = [engine[t] EXCEPT !.at = "created"]
    OBVIOUS
  <2>2. engine' = [engine EXCEPT ![t] = f] /\ engine[t].at = "none"
    BY <1>3, <2>1 DEF Create, On, At
  <2>3. /\ Same(f, engine[t]) /\ f.at = "created" /\ f.data = engine[t].data
        /\ f.refers = engine[t].refers /\ f.frees = engine[t].frees
    BY <1>1, <2>1, AtChanged DEF Stages
  <2>4. GoodEngine(f)
    BY <1>1, <2>2, <2>3 DEF GoodEngine, Same
  <2> QED BY <2>2, <2>4, EngineStep
<1>4. ASSUME LoadModelData(t) PROVE Engines'
  <2>1. PICK f : f = [engine[t] EXCEPT !.at = "loaded"]
    OBVIOUS
  <2>2. PICK g : g = [f EXCEPT !.data = "live"]
    OBVIOUS
  <2>3. engine' = [engine EXCEPT ![t] = g] /\ engine[t].at \in {"created", "failed"}
    BY <1>1, <1>4, <2>1, <2>2 DEF LoadModelData, On, Engines, EngineType
  <2>4. /\ Same(f, engine[t]) /\ f.at = "loaded"
        /\ f.refers = engine[t].refers /\ f.frees = engine[t].frees
    BY <1>1, <2>1, AtChanged DEF Stages
  <2>5. /\ Same(g, f) /\ g.at = f.at /\ g.data = "live" /\ g.refers = f.refers /\ g.frees = f.frees
    BY <2>2, <2>4, DataChanged DEF Same
  <2>6. GoodEngine(g)
    BY <1>1, <2>3, <2>4, <2>5 DEF GoodEngine, Same
  <2> QED BY <2>3, <2>6, EngineStep
<1>5. ASSUME LoadModelTensor(t) PROVE Engines'
  <2>1. /\ engine[t].at = "loaded" /\ engine[t].data = "live" /\ engine[t].frees = 0
        /\ engine[t].refers => engine[t].device = "CPU"
    BY <1>1, <1>5 DEF LoadModelTensor, On, GoodEngine
  <2>2. ASSUME NEW v \in {"tensors", "failed"}, NEW r \in BOOLEAN, r => engine[t].device = "CPU",
               NEW f, NEW g, f = [engine[t] EXCEPT !.at = v], g = [f EXCEPT !.refers = r],
               engine' = [engine EXCEPT ![t] = g]
        PROVE  Engines'
    <3>1. /\ Same(f, engine[t]) /\ f.at = v /\ f.data = engine[t].data /\ f.frees = engine[t].frees
      BY <1>1, <2>2, AtChanged DEF Stages
    <3>2. f \in EngineType /\ g = [f EXCEPT !.refers = r]
      BY <2>2, <3>1 DEF Same
    <3>3. Same(g, f) /\ g.at = f.at /\ g.data = f.data /\ g.refers = r /\ g.frees = f.frees
      BY <3>2, RefersChanged
    <3>4. GoodEngine(g)
      BY <1>1, <2>1, <2>2, <3>1, <3>3 DEF GoodEngine, Same
    <3> QED BY <2>2, <3>4, EngineStep
  <2>3. CASE engine' = [engine EXCEPT ![t].at = "tensors", ![t].refers = engine[t].device = "CPU"]
    <3>1. PICK r \in BOOLEAN : r = (engine[t].device = "CPU")
      OBVIOUS
    <3>2. PICK f : f = [engine[t] EXCEPT !.at = "tensors"]
      OBVIOUS
    <3>3. PICK g : g = [f EXCEPT !.refers = r]
      OBVIOUS
    <3>4. engine' = [engine EXCEPT ![t] = g]
      BY <1>1, <2>3, <3>1, <3>2, <3>3 DEF Engines, EngineType
    <3>5. r => engine[t].device = "CPU"
      BY <3>1
    <3> QED BY <2>2, <3>2, <3>3, <3>4, <3>5
  <2>4. CASE At(t, "failed")
    <3>1. PICK f : f = [engine[t] EXCEPT !.at = "failed"]
      OBVIOUS
    <3>2. /\ Same(f, engine[t]) /\ f.at = "failed" /\ f.data = engine[t].data
          /\ f.refers = engine[t].refers /\ f.frees = engine[t].frees
      BY <1>1, <3>1, AtChanged DEF Stages
    <3>3. GoodEngine(f)
      BY <1>1, <2>1, <3>2 DEF GoodEngine, Same
    <3>4. engine' = [engine EXCEPT ![t] = f]
      BY <2>4, <3>1 DEF At
    <3> QED BY <3>3, <3>4, EngineStep
  <2>5. CASE engine[t].device = "CPU" /\ engine' = [engine EXCEPT ![t].at = "failed", ![t].refers = TRUE]
    <3>1. PICK f : f = [engine[t] EXCEPT !.at = "failed"]
      OBVIOUS
    <3>2. PICK g : g = [f EXCEPT !.refers = TRUE]
      OBVIOUS
    <3>3. engine' = [engine EXCEPT ![t] = g]
      BY <1>1, <2>5, <3>1, <3>2 DEF Engines, EngineType
    <3> QED BY <2>2, <2>5, <3>1, <3>2, <3>3
  <2> QED BY <1>5, <2>3, <2>4, <2>5 DEF LoadModelTensor
<1>6. ASSUME RunInit(t) PROVE Engines'
  <2>1. engine[t].at = "tensors"
    BY <1>6 DEF RunInit, On
  <2>2. CASE engine' = [engine EXCEPT ![t] = Initialized(@)]
    <3>1. engine' = [engine EXCEPT ![t] = Initialized(engine[t])]
      BY <2>2
    <3> QED BY <1>1, <2>1, <3>1, InitializedIsGood, EngineStep
  <2>3. CASE At(t, "failed")
    <3>1. PICK f : f = [engine[t] EXCEPT !.at = "failed"]
      OBVIOUS
    <3>2. /\ Same(f, engine[t]) /\ f.at = "failed" /\ f.data = engine[t].data
          /\ f.refers = engine[t].refers /\ f.frees = engine[t].frees
      BY <1>1, <3>1, AtChanged DEF Stages
    <3>3. GoodEngine(f)
      BY <1>1, <2>1, <3>2 DEF GoodEngine, Same
    <3>4. engine' = [engine EXCEPT ![t] = f]
      BY <2>3, <3>1 DEF At
    <3> QED BY <3>3, <3>4, EngineStep
  <2> QED BY <1>6, <2>2, <2>3 DEF RunInit
<1>7. ASSUME Destroy(t) PROVE Engines'
  <2>1. /\ engine[t].at \in {"created", "failed", "ready"}
        /\ engine' = [engine EXCEPT ![t] = Destroyed(engine[t])]
    BY <1>7 DEF Destroy, On
  <2> QED BY <1>1, <2>1, DestroyedIsGood, EngineStep
<1> QED BY <1>2, <1>3, <1>4, <1>5, <1>6, <1>7

-----------------------------------------------------------------------------
(* The steps that change a graph.                                          *)
LEMMA SendConstsKeeps ==
  ASSUME Graphs, NEW w, SendConsts(w, TRUE)
  PROVE  Graphs'
<1>1. PICK sent, n : sent = wrapper[w].consts /\ n = ListLength(sent, ConstCount, ConstListSize)
  OBVIOUS
<1>2. PICK g : g = [graph[w] EXCEPT !.consts = graph[w].consts \o Nodes(sent, n), !.whole = graph[w].whole /\ TRUE]
  OBVIOUS
<1>3. PICK s : s = [wrapper[w] EXCEPT !.consts = sent + n]
  OBVIOUS
<1>4. wrapper' = [wrapper EXCEPT ![w] = s] /\ sent < ConstCount
  BY <1>1, <1>3 DEF SendConsts
<1>5. graph' = [graph EXCEPT ![w] = g]
  BY <1>1, <1>2 DEF SendConsts, Graphs, GraphType
<1>6. ASSUME w \in Wrappers PROVE GoodGraph(g, s)
  <2>1. GoodGraph(graph[w], wrapper[w]) /\ graph[w] \in GraphType /\ wrapper[w] \in SetupType
    BY <1>6 DEF Graphs
  <2>2. sent \in 0..ConstCount /\ wrapper[w].ops \in 0..OpCount /\ ~graph[w].prepared
    BY <1>1, <1>4, <2>1, ListsAssumption DEF GoodGraph, SetupType
  <2>3. n \in Nat /\ sent \in Nat /\ sent + n \in 0..ConstCount
    BY <1>1, <1>4, <2>2, ListsAssumption, ListFits
  <2>4. graph[w].consts = Nodes(0, sent) /\ graph[w].ops = Nodes(0, wrapper[w].ops) /\ graph[w].whole
    BY <1>1, <2>1 DEF GoodGraph
  <2>5. graph[w].consts \o Nodes(sent, n) = Nodes(0, sent + n)
    BY <2>3, <2>4, NodesJoin
  <2>6. Nodes(0, sent + n) \in Seq(Nat)
    BY <2>3, NodesType
  <2>7. s \in SetupType /\ s.consts = sent + n /\ s.ops = wrapper[w].ops
    BY <1>3, <2>1, <2>3 DEF SetupType
  <2>8. /\ g \in GraphType /\ g.consts = Nodes(0, sent + n)
        /\ g.ops = graph[w].ops /\ g.whole /\ ~g.prepared
    BY <1>2, <2>1, <2>2, <2>4, <2>5, <2>6 DEF GraphType
  <2> QED BY <2>4, <2>7, <2>8 DEF GoodGraph
<1> QED BY <1>4, <1>5, <1>6, GraphStep

LEMMA SendOpsKeeps ==
  ASSUME Graphs, NEW w, SendOps(w)
  PROVE  Graphs'
<1>1. PICK sent, n : sent = wrapper[w].ops /\ n = ListLength(sent, OpCount, OpListSize)
  OBVIOUS
<1>2. PICK g : g = [graph[w] EXCEPT !.ops = graph[w].ops \o Nodes(sent, n)]
  OBVIOUS
<1>3. PICK s : s = [wrapper[w] EXCEPT !.ops = sent + n]
  OBVIOUS
<1>4. /\ wrapper' = [wrapper EXCEPT ![w] = s] /\ graph' = [graph EXCEPT ![w] = g] /\ sent < OpCount
  BY <1>1, <1>2, <1>3 DEF SendOps
<1>5. ASSUME w \in Wrappers PROVE GoodGraph(g, s)
  <2>1. GoodGraph(graph[w], wrapper[w]) /\ graph[w] \in GraphType /\ wrapper[w] \in SetupType
    BY <1>5 DEF Graphs
  <2>2. sent \in 0..OpCount /\ wrapper[w].consts \in 0..ConstCount /\ ~graph[w].prepared
    BY <1>1, <1>4, <2>1, ListsAssumption DEF GoodGraph, SetupType
  <2>3. n \in Nat /\ sent \in Nat /\ sent + n \in 0..OpCount
    BY <1>1, <1>4, <2>2, ListsAssumption, ListFits
  <2>4. graph[w].ops = Nodes(0, sent) /\ graph[w].consts = Nodes(0, wrapper[w].consts) /\ graph[w].whole
    BY <1>1, <2>1 DEF GoodGraph
  <2>5. graph[w].ops \o Nodes(sent, n) = Nodes(0, sent + n)
    BY <2>3, <2>4, NodesJoin
  <2>6. Nodes(0, sent + n) \in Seq(Nat)
    BY <2>3, NodesType
  <2>7. s \in SetupType /\ s.ops = sent + n /\ s.consts = wrapper[w].consts
    BY <1>3, <2>1, <2>3 DEF SetupType
  <2>8. /\ g \in GraphType /\ g.ops = Nodes(0, sent + n)
        /\ g.consts = graph[w].consts /\ g.whole /\ ~g.prepared
    BY <1>2, <2>1, <2>2, <2>4, <2>5, <2>6 DEF GraphType
  <2> QED BY <2>4, <2>7, <2>8 DEF GoodGraph
<1> QED BY <1>4, <1>5, GraphStep

LEMMA PrepareKeeps ==
  ASSUME Graphs, NEW w, Prepare(w)
  PROVE  Graphs'
<1>1. PICK g : g = [graph[w] EXCEPT !.prepared = TRUE]
  OBVIOUS
<1>2. /\ graph' = [graph EXCEPT ![w] = g] /\ wrapper' = wrapper
      /\ wrapper[w].consts = ConstCount /\ wrapper[w].ops = OpCount
  BY <1>1 DEF Prepare
<1>3. wrapper' = [wrapper EXCEPT ![w] = wrapper[w]]
  BY <1>2 DEF Graphs
<1>4. ASSUME w \in Wrappers PROVE GoodGraph(g, wrapper[w])
  <2>1. GoodGraph(graph[w], wrapper[w]) /\ graph[w] \in GraphType
    BY <1>4 DEF Graphs
  <2>2. /\ g \in GraphType /\ g.ops = graph[w].ops
        /\ g.consts = graph[w].consts /\ g.whole = graph[w].whole
    BY <1>1, <2>1 DEF GraphType
  <2> QED BY <1>2, <2>1, <2>2 DEF GoodGraph
<1> QED BY <1>2, <1>3, <1>4, GraphStep

LEMMA StartStopKeep ==
  ASSUME Graphs, NEW w, StartHexagon(w) \/ StopHexagon(w)
  PROVE  Graphs'
<1>1. CASE StartHexagon(w)
  BY <1>1, NothingSent, GraphStep DEF StartHexagon
<1>2. CASE StopHexagon(w)
  BY <1>2, NothingSent, GraphStep DEF StopHexagon
<1> QED BY <1>1, <1>2

-----------------------------------------------------------------------------
(* An engine that sends its model still has the model's data: the premise  *)
(* under which the constants arrive.                                       *)
LEMMA DspKeeps ==
  ASSUME IInv, NEW t \in Threads,
         \/ StartDsp(t) \/ SendConstList(t) \/ SendOpList(t) \/ PrepareDsp(t) \/ DestroyDsp(t)
  PROVE  IInv'
<1>1. Engines /\ Graphs /\ GoodEngine(engine[t]) /\ engine[t] \in EngineType
  BY DEF IInv, Engines
<1>2. ASSUME StartDsp(t) PROVE IInv'
  <2>1. PICK f : f = [engine[t] EXCEPT !.at = "sending"]
    OBVIOUS
  <2>2. engine' = [engine EXCEPT ![t] = f] /\ engine[t].at = "loaded" /\ StartHexagon(t)
    BY <1>2, <2>1 DEF StartDsp, On, At
  <2>3. /\ Same(f, engine[t]) /\ f.at = "sending" /\ f.data = engine[t].data
        /\ f.refers = engine[t].refers /\ f.frees = engine[t].frees
    BY <1>1, <2>1, AtChanged DEF Stages
  <2>4. GoodEngine(f)
    BY <1>1, <2>2, <2>3 DEF GoodEngine, Same
  <2>5. Engines'
    BY <1>1, <2>2, <2>4, EngineStep
  <2>6. Graphs'
    BY <1>1, <2>2, StartStopKeep
  <2> QED BY <2>5, <2>6 DEF IInv
<1>3. ASSUME SendConstList(t) PROVE IInv'
  <2>1. engine[t].at = "sending" /\ SendConsts(t, engine[t].data = "live") /\ engine' = engine
    BY <1>3 DEF SendConstList, On, DspOnly, ownVars
  <2>2. engine[t].data = "live"
    BY <1>1, <2>1 DEF GoodEngine
  <2>3. SendConsts(t, TRUE)
    BY <2>1, <2>2 DEF SendConsts
  <2>4. Graphs'
    BY <1>1, <2>3, SendConstsKeeps
  <2>5. Engines'
    BY <1>1, <2>1 DEF Engines
  <2> QED BY <2>4, <2>5 DEF IInv
<1>4. ASSUME SendOpList(t) PROVE IInv'
  <2>1. SendOps(t) /\ engine' = engine
    BY <1>4 DEF SendOpList, DspOnly, ownVars
  <2>2. Graphs'
    BY <1>1, <2>1, SendOpsKeeps
  <2>3. Engines'
    BY <1>1, <2>1 DEF Engines
  <2> QED BY <2>2, <2>3 DEF IInv
<1>5. ASSUME PrepareDsp(t) PROVE IInv'
  <2>1. /\ engine[t].at = "sending" /\ Prepare(t)
        /\ engine' = [engine EXCEPT ![t] = Initialized(engine[t])]
    BY <1>5 DEF PrepareDsp, On
  <2>2. Engines'
    BY <1>1, <2>1, InitializedIsGood, EngineStep
  <2>3. Graphs'
    BY <1>1, <2>1, PrepareKeeps
  <2> QED BY <2>2, <2>3 DEF IInv
<1>6. ASSUME DestroyDsp(t) PROVE IInv'
  <2>1. /\ engine[t].at = "ready" /\ StopHexagon(t)
        /\ engine' = [engine EXCEPT ![t] = Destroyed(engine[t])]
    BY <1>6 DEF DestroyDsp, On
  <2>2. Engines'
    BY <1>1, <2>1, DestroyedIsGood, EngineStep
  <2>3. Graphs'
    BY <1>1, <2>1, StartStopKeep
  <2> QED BY <2>2, <2>3 DEF IInv
<1> QED BY <1>2, <1>3, <1>4, <1>5, <1>6

(* The other steps touch neither the engines nor the graphs.               *)
LEMMA OthersLeave ==
  ASSUME NEW t \in Threads,
         \/ DestroyUnused(t) \/ TuneKernel(t) \/ StoreTuned(t) \/ FindTuned(t) \/ GetTuned(t)
         \/ SetPolicy(t) \/ BindingFails(t) \/ RunOnCpu(t) \/ Restart \/ Over
  PROVE  engine' = engine /\ graph' = graph /\ wrapper' = wrapper
BY DEF DestroyUnused, TuneKernel, StoreTuned, FindTuned, GetTuned, SetPolicy, BindingFails, RunOnCpu,
       Restart, Over, GpuOnly, CpuOnly, ownVars, hexVars, vars

LEMMA Unchanged ==
  ASSUME IInv, engine' = engine, graph' = graph, wrapper' = wrapper
  PROVE  IInv'
BY DEF IInv, Engines, Graphs

(* The end of a process takes the engines and the graphs with it.          *)
LEMMA GoneKeeps ==
  ASSUME IInv, Gone
  PROVE  IInv'
<1>1. ASSUME NEW t \in Threads PROVE engine[t].device \in Devices
  BY DEF IInv, Engines, EngineType
<1>2. engine' = [t \in Threads |-> [NoEngine EXCEPT !.device = engine[t].device]]
  BY DEF Gone
<1>3. \A t \in Threads : GoodEngine(engine'[t])
  BY <1>1, <1>2, NoEngineIsGood
<1>4. Engines'
  BY <1>2, <1>3 DEF Engines, GoodEngine
<1>5. Graphs'
  BY NothingSent DEF Gone, Graphs, GoodGraph
<1> QED BY <1>4, <1>5 DEF IInv

LEMMA InitIsGood == Init => IInv
<1> SUFFICES ASSUME Init PROVE IInv
  OBVIOUS
<1>1. PICK s \in Setups : engine = [t \in Threads |-> [NoEngine EXCEPT !.device = s.devices[t]]]
  BY DEF Init
<1>2. ASSUME NEW t \in Threads PROVE s.devices[t] \in Devices
  BY SetupsAssumption DEF Devices
<1>3. \A t \in Threads : GoodEngine(engine[t])
  BY <1>1, <1>2, NoEngineIsGood
<1>4. Engines
  BY <1>1, <1>3 DEF Engines, GoodEngine
<1>5. Graphs
  BY NothingSent DEF Init, HexInit, Graphs, GoodGraph
<1> QED BY <1>4, <1>5 DEF IInv

-----------------------------------------------------------------------------
(* The data of a model are never freed while a tensor refers to them or    *)
(* while they are sent, are freed once at most, and a graph that is        *)
(* prepared on the DSP is the model's, whole and in order, whichever of    *)
(* the two threads of HexagonControlWrapper::SetupGraph was ahead and      *)
(* wherever the application or the process ended (mace.cc:240-278,         *)
(* hexagon_control_wrapper.cc:74-240).                                     *)
THEOREM ModelAlwaysArrives == Spec => []ModelArrives
<1>1. Init => IInv
  BY InitIsGood
<1>2. IInv /\ [Next]_vars => IInv'
  <2> SUFFICES ASSUME IInv, [Next]_vars PROVE IInv'
    OBVIOUS
  <2>1. ASSUME NEW t \in Threads, Step(t) PROVE IInv'
    <3>1. CASE \/ Create(t) \/ LoadModelData(t) \/ LoadModelTensor(t) \/ RunInit(t) \/ Destroy(t)
      <4>1. Engines' /\ graph' = graph /\ wrapper' = wrapper
        BY <3>1, LifeKeeps DEF IInv, hexVars
      <4> QED BY <4>1 DEF IInv, Graphs
    <3>2. CASE \/ StartDsp(t) \/ SendConstList(t) \/ SendOpList(t) \/ PrepareDsp(t) \/ DestroyDsp(t)
      BY <3>2, DspKeeps
    <3>3. CASE \/ DestroyUnused(t) \/ TuneKernel(t) \/ StoreTuned(t) \/ FindTuned(t) \/ GetTuned(t)
               \/ SetPolicy(t) \/ BindingFails(t) \/ RunOnCpu(t)
      BY <3>3, OthersLeave, Unchanged
    <3> QED BY <2>1, <3>1, <3>2, <3>3 DEF Step
  <2>2. CASE Exit
    <3>1. CASE settings.path
      BY <2>2, <3>1, Unchanged DEF Exit, hexVars
    <3>2. CASE ~settings.path
      BY <2>2, <3>2, GoneKeeps DEF Exit
    <3> QED BY <3>1, <3>2
  <2>3. CASE Write
    <3>1. CASE Written(disk)
      BY <2>3, <3>1, GoneKeeps DEF Write
    <3>2. CASE ~Written(disk)
      BY <2>3, <3>2, Unchanged DEF Write, hexVars, ownVars
    <3> QED BY <3>1, <3>2
  <2>4. CASE Killed
    BY <2>4, GoneKeeps DEF Killed
  <2>5. CASE Restart
    BY <2>5, Unchanged DEF Restart, hexVars
  <2>6. CASE Over \/ UNCHANGED vars
    BY <2>6, Unchanged DEF Over, vars, hexVars, ownVars
  <2> QED BY <2>1, <2>2, <2>3, <2>4, <2>5, <2>6 DEF Next
<1>3. IInv => ModelArrives
  <2> SUFFICES ASSUME IInv PROVE ModelArrives
    OBVIOUS
  <2>1. ASSUME NEW t \in Threads
        PROVE  LET e == engine[t] IN
               /\ e.refers => e.data = "live"
               /\ e.at \in {"loaded", "tensors", "sending"} => e.data = "live"
               /\ e.frees <= 1
               /\ e.at = "gone" /\ e.device = "CPU" => e.data # "live"
               /\ e.at = "ready" /\ e.device # "CPU" => e.data = "freed"
    <3>1. GoodEngine(engine[t])
      BY DEF IInv, Engines
    <3> QED BY <3>1 DEF GoodEngine
  <2>2. ASSUME NEW w \in Wrappers PROVE GraphIsWhole(w)
    BY DEF IInv, Graphs, GoodGraph, GraphIsWhole
  <2> QED BY <2>1, <2>2 DEF ModelArrives
<1> QED BY <1>1, <1>2, <1>3, PTL DEF Spec

-----------------------------------------------------------------------------
(* The threads of the CPU run where they were asked to, for any chip, any  *)
(* numbers of threads asked for and any order of the calls.                *)
(*                                                                         *)
(* TeamIsBound speaks of the next parallel region; the invariant speaks of *)
(* the threads there are: those a region of this size uses are bound, and  *)
(* there is one at least, so that a thread that is made for the region     *)
(* takes after a bound one.                                                *)

Places   == (SUBSET Cores) \ {{}}
TeamType == [num : Nat \ {0}, threads : Seq(Places)]

Policies == {"nothing", "AFFINITY_NONE", "AFFINITY_BIG_ONLY", "AFFINITY_LITTLE_ONLY", "CORES"}
Requests == [policy : Policies, cores : SUBSET Cores, hint : Int]

Wanted(ask) ==
  CASE ask.policy = "AFFINITY_BIG_ONLY"    -> Big
    [] ask.policy = "AFFINITY_LITTLE_ONLY" -> Little
    [] ask.policy = "CORES"                -> ask.cores

(* A team is there, and its first n threads as far as they are there run   *)
(* in a place.                                                             *)
GoodTeam(e) == e \in TeamType /\ Len(e.threads) >= 1

Obeys(e, ask) ==
  ask.policy \in {"AFFINITY_BIG_ONLY", "AFFINITY_LITTLE_ONLY", "CORES"} =>
    /\ e.num = IF ask.policy = "CORES" THEN ask.hint ELSE ThreadsFor(ask.hint, Wanted(ask))
    /\ \A i \in 1..e.num : i <= Len(e.threads) => e.threads[i] \subseteq Wanted(ask)

TeamsInv ==
  /\ chip \in [Cores -> Nat]
  /\ teams \in [Users -> TeamType] /\ asked \in [Users -> Requests]
  /\ \A u \in Users : GoodTeam(teams[u]) /\ Obeys(teams[u], asked[u])

-----------------------------------------------------------------------------
(* Of numbers there is a least one.                                        *)
LEMMA LeastNatural ==
  ASSUME NEW T, T \subseteq Nat, T # {}
  PROVE  \E x \in T : \A y \in T : x <= y
<1>1. PICK R : R = OpToRel(<, Nat)
  OBVIOUS
<1>2. IsWellFoundedOn(R, Nat)
  BY <1>1, NatLessThanWellFounded
<1>3. PICK x \in T : \A y \in T : <<y, x>> \notin R
  BY <1>2, WFMin
<1>4. \A y \in Nat : y < x => <<y, x>> \in R
  BY <1>1 DEF OpToRel
<1>5. ASSUME NEW y \in T PROVE x <= y
  <2>1. ~(y < x)
    BY <1>3, <1>4, <1>5
  <2> QED BY <2>1, <1>5
<1> QED BY <1>5

(* There is a core than which none is faster: of one with the fewest that  *)
(* are faster, there is none.  And so for the slowest.                     *)
LEMMA FewestBeyond ==
  ASSUME NEW B, B \in [Cores -> SUBSET Cores],
         \A c \in Cores : c \notin B[c],
         \A c \in Cores : \A d \in B[c] : B[d] \subseteq B[c]
  PROVE  \E c \in Cores : B[c] = {}
<1> DEFINE N == {Cardinality(B[c]) : c \in Cores}
<1>1. \A c \in Cores : IsFiniteSet(B[c]) /\ Cardinality(B[c]) \in Nat
  BY CpuAssumption, FS_Subset, FS_CardinalityType
<1>2. PICK n \in N : \A m \in N : n <= m
  <2>1. N \subseteq Nat /\ N # {}
    BY <1>1, CpuAssumption
  <2> QED BY <2>1, LeastNatural
<1>3. PICK c \in Cores : n = Cardinality(B[c])
  BY <1>2
<1>4. ASSUME NEW d \in B[c] PROVE FALSE
  <2>1. d \in Cores /\ B[d] \in SUBSET B[c] /\ d \notin B[d]
    BY <1>4
  <2>2. Cardinality(B[d]) <= Cardinality(B[c]) /\ (Cardinality(B[c]) = Cardinality(B[d]) => B[c] = B[d])
    BY <1>1, <2>1, FS_Subset
  <2>3. Cardinality(B[c]) <= Cardinality(B[d])
    BY <1>2, <1>3, <2>1
  <2>4. B[c] # B[d]
    BY <1>4, <2>1
  <2> QED BY <1>1, <2>1, <2>2, <2>3, <2>4
<1> QED BY <1>4

LEMMA SortsAreThere ==
  ASSUME chip \in [Cores -> Nat]
  PROVE  /\ Big \in Places /\ Little \in Places
         /\ Cardinality(Big) \in Nat \ {0} /\ Cardinality(Little) \in Nat \ {0}
<1>1. Big # {}
  <2>1. PICK B : B = [c \in Cores |-> {d \in Cores : chip[d] > chip[c]}]
    OBVIOUS
  <2>2. PICK c \in Cores : B[c] = {}
    <3>1. B \in [Cores -> SUBSET Cores]
      BY <2>1
    <3>2. \A c \in Cores : c \notin B[c]
      BY <2>1
    <3>3. \A c \in Cores : \A d \in B[c] : B[d] \subseteq B[c]
      BY <2>1
    <3> QED BY <3>1, <3>2, <3>3, FewestBeyond
  <2>3. \A d \in Cores : chip[c] >= chip[d]
    BY <2>1, <2>2
  <2> QED BY <2>3 DEF Big
<1>2. Little # {}
  <2>1. PICK B : B = [c \in Cores |-> {d \in Cores : chip[d] < chip[c]}]
    OBVIOUS
  <2>2. PICK c \in Cores : B[c] = {}
    <3>1. B \in [Cores -> SUBSET Cores]
      BY <2>1
    <3>2. \A c \in Cores : c \notin B[c]
      BY <2>1
    <3>3. \A c \in Cores : \A d \in B[c] : B[d] \subseteq B[c]
      BY <2>1
    <3> QED BY <3>1, <3>2, <3>3, FewestBeyond
  <2>3. \A d \in Cores : chip[c] <= chip[d]
    BY <2>1, <2>2
  <2> QED BY <2>3 DEF Little
<1>3. Big \in SUBSET Cores /\ Little \in SUBSET Cores
  BY DEF Big, Little
<1>4. ASSUME NEW S \in SUBSET Cores, S # {} PROVE Cardinality(S) \in Nat \ {0}
  <2>1. IsFiniteSet(S)
    BY CpuAssumption, FS_Subset
  <2> QED BY <1>4, <2>1, FS_CardinalityType, FS_EmptySet
<1> QED BY <1>1, <1>2, <1>3, <1>4 DEF Places

-----------------------------------------------------------------------------
(* The team of a region: as it was, and new threads like the first.        *)
LEMMA GrownFacts ==
  ASSUME NEW e, GoodTeam(e), NEW n \in Nat \ {0}
  PROVE  /\ Grown(e, n) \in Seq(Places)
         /\ Len(Grown(e, n)) = (IF n >= Len(e.threads) THEN n ELSE Len(e.threads))
         /\ \A i \in 1..Len(Grown(e, n)) :
              Grown(e, n)[i] = IF i <= Len(e.threads) THEN e.threads[i] ELSE e.threads[1]
<1>1. e.threads \in Seq(Places) /\ Len(e.threads) \in Nat /\ Len(e.threads) >= 1
  BY DEF GoodTeam, TeamType
<1>2. PICK m \in Nat : m = (IF n >= Len(e.threads) THEN n ELSE Len(e.threads))
  BY <1>1
<1>3. Grown(e, n) = [i \in 1..m |-> IF i <= Len(e.threads) THEN e.threads[i] ELSE e.threads[1]]
  BY <1>2 DEF Grown
<1>4. \A i \in 1..m : (IF i <= Len(e.threads) THEN e.threads[i] ELSE e.threads[1]) \in Places
  BY <1>1
<1> QED BY <1>2, <1>3, <1>4

(* The team becomes e, of which n threads are as given.                    *)
Becomes(u, e, n, threads) ==
  /\ teams' = [teams EXCEPT ![u] = e]
  /\ GoodTeam(e) /\ e.num = n
  /\ \A i \in 1..n : e.threads[i] = threads[i]

(* Whatever the library keeps of the threads, those of the region stay.    *)
LEMMA TeamsStep ==
  ASSUME NEW u, NEW n \in Nat \ {0}, NEW threads \in Seq(Places), n <= Len(threads),
         Teams(u, n, threads)
  PROVE  \E e : Becomes(u, e, n, threads)
<1>1. PICK kept \in {n, Len(threads)} :
        teams' = [teams EXCEPT ![u] = [num |-> n, threads |-> SubSeq(threads, 1, kept)]]
  BY DEF Teams
<1>2. kept \in Nat /\ n <= kept /\ kept <= Len(threads) /\ kept >= 1
  BY <1>1
<1>3. /\ SubSeq(threads, 1, kept) \in Seq(Places)
      /\ Len(SubSeq(threads, 1, kept)) = kept
      /\ \A i \in 1..kept : SubSeq(threads, 1, kept)[i] = threads[i]
  <2>1. \A i \in 1..kept : threads[i] \in Places
    BY <1>2
  <2>2. /\ SubSeq(threads, 1, kept) \in Seq(Places)
        /\ Len(SubSeq(threads, 1, kept)) = IF 1 <= kept THEN kept - 1 + 1 ELSE 0
        /\ \A i \in 1..(kept - 1 + 1) : SubSeq(threads, 1, kept)[i] = threads[1 + i - 1]
    BY <1>2, <2>1, SubSeqProperties
  <2> QED BY <1>2, <2>2
<1>4. PICK e : e = [num |-> n, threads |-> SubSeq(threads, 1, kept)]
  OBVIOUS
<1>5. GoodTeam(e) /\ e.num = n /\ \A i \in 1..n : e.threads[i] = threads[i]
  BY <1>2, <1>3, <1>4 DEF GoodTeam, TeamType
<1> QED BY <1>1, <1>4, <1>5 DEF Becomes
-----------------------------------------------------------------------------
(* A thread's team and what it asked for change together.                  *)
LEMMA UserStep ==
  ASSUME TeamsInv, NEW u \in Users, NEW e, NEW a \in Requests, GoodTeam(e), Obeys(e, a),
         teams' = [teams EXCEPT ![u] = e], asked' = [asked EXCEPT ![u] = a], UNCHANGED chip
  PROVE  TeamsInv'
<1>1. e \in TeamType
  BY DEF GoodTeam
<1>2. teams' \in [Users -> TeamType] /\ asked' \in [Users -> Requests] /\ chip' \in [Cores -> Nat]
  BY <1>1 DEF TeamsInv
<1>3. \A v \in Users : teams'[v] = (IF v = u THEN e ELSE teams[v])
                       /\ asked'[v] = (IF v = u THEN a ELSE asked[v])
  BY DEF TeamsInv
<1>4. \A d, b : Obeys(d, b)' <=> Obeys(d, b)
  BY DEF Obeys, Wanted, Big, Little, ThreadsFor
<1>5. ASSUME NEW v \in Users
      PROVE  GoodTeam(teams'[v]) /\ Obeys(teams'[v], asked'[v])
  BY <1>3 DEF TeamsInv
<1> QED BY <1>2, <1>4, <1>5 DEF TeamsInv, GoodTeam

(* A region of n threads of which each binds itself to ids.                *)
LEMMA BindStep ==
  ASSUME TeamsInv, NEW u \in Users, NEW n \in Nat \ {0}, NEW ids \in Places, NEW a \in Requests,
         SetOpenMPThreadsAndAffinityCPUs(u, n, ids),
         asked' = [asked EXCEPT ![u] = a], UNCHANGED chip,
         Wanted(a) = ids, n = IF a.policy = "CORES" THEN a.hint ELSE ThreadsFor(a.hint, ids)
  PROVE  TeamsInv'
<1>1. PICK g : g = Grown(teams[u], n)
  OBVIOUS
<1>2. g \in Seq(Places) /\ n <= Len(g)
  <2>1. GoodTeam(teams[u]) /\ Len(teams[u].threads) \in Nat
    BY DEF TeamsInv, GoodTeam, TeamType
  <2> QED BY <1>1, <2>1, GrownFacts
<1>3. PICK threads : threads = [i \in DOMAIN g |-> IF i <= n THEN ids ELSE g[i]]
  OBVIOUS
<1>4. threads \in Seq(Places) /\ Len(threads) = Len(g) /\ \A i \in 1..n : threads[i] = ids
  <2>1. Len(g) \in Nat /\ DOMAIN g = 1..Len(g) /\ \A i \in 1..Len(g) : g[i] \in Places
    BY <1>2
  <2> QED BY <1>2, <1>3, <2>1
<1>5. Teams(u, n, threads)
  BY <1>1, <1>3 DEF SetOpenMPThreadsAndAffinityCPUs
<1>6. PICK e : Becomes(u, e, n, threads)
  BY <1>2, <1>4, <1>5, TeamsStep
<1>7. Obeys(e, a)
  BY <1>4, <1>6 DEF Obeys, Becomes
<1> QED BY <1>6, <1>7, UserStep DEF Becomes

LEMMA BoundKeeps ==
  ASSUME TeamsInv, NEW u \in Users, NEW hint \in Hints,
         NEW policy \in {"AFFINITY_BIG_ONLY", "AFFINITY_LITTLE_ONLY"}, Bound(u, hint, policy)
  PROVE  TeamsInv'
<1>1. PICK ids : ids = IF policy = "AFFINITY_BIG_ONLY" THEN Big ELSE Little
  OBVIOUS
<1>2. ids \in Places /\ Cardinality(ids) \in Nat \ {0}
  BY <1>1, SortsAreThere DEF TeamsInv
<1>3. PICK n : n = ThreadsFor(hint, ids)
  OBVIOUS
<1>4. n \in Nat \ {0} /\ n <= Cardinality(ids)
  BY <1>2, <1>3, CpuAssumption DEF ThreadsFor
<1>5. PICK a : a = Policy(policy, hint)
  OBVIOUS
<1>6. a \in Requests /\ a.policy = policy /\ a.hint = hint
  BY <1>5, CpuAssumption DEF Policy, Requests, Policies
<1>7. Wanted(a) = ids
  BY <1>1, <1>6 DEF Wanted
<1>8. /\ SetOpenMPThreadsAndAffinityCPUs(u, n, ids)
      /\ asked' = [asked EXCEPT ![u] = a] /\ UNCHANGED chip
  BY <1>1, <1>3, <1>5 DEF Bound
<1> QED BY <1>2, <1>3, <1>4, <1>6, <1>7, <1>8, BindStep

(* Not bound: nothing is asked of the team but that it is one.             *)
LEMMA UnboundKeeps ==
  ASSUME TeamsInv, NEW u \in Users, NEW hint \in Hints, Unbound(u, hint)
  PROVE  TeamsInv'
<1>1. PICK a : a = Policy("AFFINITY_NONE", hint)
  OBVIOUS
<1>2. a \in Requests /\ a.policy = "AFFINITY_NONE"
  BY <1>1, CpuAssumption DEF Policy, Requests, Policies
<1>3. /\ GoodTeam(teams[u]) /\ teams[u] \in TeamType /\ teams \in [Users -> TeamType]
      /\ asked' = [asked EXCEPT ![u] = a] /\ UNCHANGED chip
  BY <1>1 DEF TeamsInv, Unbound, GoodTeam
<1>4. \A e : Obeys(e, a)
  BY <1>2 DEF Obeys
<1>5. CASE hint <= 0
  <2>1. teams' = [teams EXCEPT ![u] = teams[u]]
    BY <1>3, <1>5 DEF Unbound
  <2> QED BY <1>2, <1>3, <1>4, <2>1, UserStep
<1>6. CASE ~(hint <= 0)
  <2>1. PICK procs \in {Cardinality(Cores), Cardinality(teams[u].threads[1])} :
          teams' = [teams EXCEPT ![u].num = Lower(hint, procs)]
    BY <1>6 DEF Unbound
  <2>2. procs \in Nat \ {0}
    <3>1. teams[u].threads[1] \in Places
      BY <1>3 DEF GoodTeam, TeamType
    <3>2. ASSUME NEW S \in SUBSET Cores, S # {} PROVE Cardinality(S) \in Nat \ {0}
      <4>1. IsFiniteSet(S)
        BY CpuAssumption, FS_Subset
      <4>2. Cardinality(S) \in Nat
        BY <4>1, FS_CardinalityType
      <4>3. Cardinality(S) # 0
        BY <3>2, <4>1, FS_EmptySet
      <4> QED BY <4>2, <4>3
    <3>3. teams[u].threads[1] \in SUBSET Cores /\ teams[u].threads[1] # {}
      BY <3>1 DEF Places
    <3>4. Cores \in SUBSET Cores /\ Cores # {}
      BY CpuAssumption
    <3> QED BY <2>1, <3>2, <3>3, <3>4
  <2>3. PICK n : n = Lower(hint, procs)
    OBVIOUS
  <2>4. n \in Nat \ {0}
    BY <1>6, <2>2, <2>3, CpuAssumption DEF Lower
  <2>5. PICK e : e = [teams[u] EXCEPT !.num = n]
    OBVIOUS
  <2>6. e \in TeamType /\ e.threads = teams[u].threads
    BY <1>3, <2>4, <2>5 DEF TeamType
  <2>7. GoodTeam(e)
    BY <1>3, <2>6 DEF GoodTeam
  <2>8. teams' = [teams EXCEPT ![u] = e]
    BY <2>1, <2>3, <2>5
  <2> QED BY <1>2, <1>3, <1>4, <2>7, <2>8, UserStep
<1> QED BY <1>5, <1>6

LEMMA AffinityKeeps ==
  ASSUME TeamsInv, NEW u \in Users, SetOpenMPThreadAffinity(u)
  PROVE  TeamsInv'
<1>1. PICK n \in {h \in Hints : h > 0}, ids \in CoreSets \ {{}} : Named(u, n, ids)
  BY DEF SetOpenMPThreadAffinity
<1>2. n \in Nat \ {0} /\ ids \in Places
  BY CpuAssumption DEF Places
<1>3. PICK a : a = [policy |-> "CORES", cores |-> ids, hint |-> n]
  OBVIOUS
<1>4. a \in Requests /\ a.policy = "CORES" /\ a.hint = n /\ Wanted(a) = ids
  BY <1>2, <1>3 DEF Requests, Policies, Wanted, Places
<1>5. /\ SetOpenMPThreadsAndAffinityCPUs(u, n, ids)
      /\ asked' = [asked EXCEPT ![u] = a] /\ UNCHANGED chip
  BY <1>1, <1>3 DEF Named
<1> QED BY <1>2, <1>4, <1>5, BindStep

(* Where the process ends over it, the threads there are have not moved.   *)
LEMMA DeathKeeps ==
  ASSUME TeamsInv, NEW u \in Users, SetThreadAffinityDies(u)
  PROVE  TeamsInv'
<1>1. PICK n \in {h \in Hints : h > 0} : Teams(u, n, Grown(teams[u], n))
  BY DEF SetThreadAffinityDies
<1>2. PICK a, g : a = Nothing /\ g = Grown(teams[u], n)
  OBVIOUS
<1>3. a \in Requests /\ a.policy = "nothing"
  BY <1>2 DEF Nothing, Policy, Requests, Policies
<1>4. GoodTeam(teams[u]) /\ Len(teams[u].threads) \in Nat /\ n \in Nat \ {0}
  BY CpuAssumption DEF TeamsInv, GoodTeam, TeamType
<1>5. g \in Seq(Places) /\ n <= Len(g)
  BY <1>2, <1>4, GrownFacts
<1>6. Teams(u, n, g) /\ asked' = [asked EXCEPT ![u] = a] /\ UNCHANGED chip
  BY <1>1, <1>2 DEF SetThreadAffinityDies
<1>7. PICK e : Becomes(u, e, n, g)
  BY <1>4, <1>5, <1>6, TeamsStep
<1>8. Obeys(e, a)
  BY <1>3 DEF Obeys
<1> QED BY <1>3, <1>6, <1>7, <1>8, UserStep DEF Becomes

(* A region: threads that were left over return, new ones are like the     *)
(* first, which is bound.                                                  *)
LEMMA RegionKeeps ==
  ASSUME TeamsInv, NEW u \in Users, ParallelRegion(u)
  PROVE  TeamsInv'
<1>1. PICK n, a : n = teams[u].num /\ a = asked[u]
  OBVIOUS
<1>2. /\ GoodTeam(teams[u]) /\ Obeys(teams[u], a) /\ a \in Requests /\ n \in Nat \ {0}
      /\ Len(teams[u].threads) \in Nat /\ Len(teams[u].threads) >= 1
  BY <1>1 DEF TeamsInv, GoodTeam, TeamType
<1>3. PICK g : g = Grown(teams[u], n)
  OBVIOUS
<1>4. /\ g \in Seq(Places) /\ n <= Len(g)
      /\ \A i \in 1..n : g[i] = IF i <= Len(teams[u].threads) THEN teams[u].threads[i]
                                ELSE teams[u].threads[1]
  <2>1. /\ g \in Seq(Places)
        /\ Len(g) = (IF n >= Len(teams[u].threads) THEN n ELSE Len(teams[u].threads))
        /\ \A i \in 1..Len(g) : g[i] = IF i <= Len(teams[u].threads) THEN teams[u].threads[i]
                                       ELSE teams[u].threads[1]
    BY <1>2, <1>3, GrownFacts
  <2> QED BY <1>2, <2>1
<1>5. Teams(u, n, g) /\ UNCHANGED <<chip, asked>>
  BY <1>1, <1>3 DEF ParallelRegion
<1>6. PICK e : Becomes(u, e, n, g)
  BY <1>2, <1>4, <1>5, TeamsStep
<1>7. Obeys(e, a)
  BY <1>1, <1>2, <1>4, <1>6 DEF Obeys, Becomes
<1>8. asked' = [asked EXCEPT ![u] = a]
  BY <1>1, <1>5 DEF TeamsInv
<1> QED BY <1>2, <1>5, <1>6, <1>7, <1>8, UserStep DEF Becomes
-----------------------------------------------------------------------------
(* The application has set nothing and run nothing.                        *)
LEMMA FreshTeams ==
  /\ FreshTeam \in TeamType /\ GoodTeam(FreshTeam)
  /\ Nothing \in Requests
  /\ \A e : Obeys(e, Nothing)
<1>1. Cardinality(Cores) \in Nat \ {0}
  <2>1. Cardinality(Cores) \in Nat
    BY CpuAssumption, FS_CardinalityType
  <2>2. Cardinality(Cores) # 0
    BY CpuAssumption, FS_EmptySet
  <2> QED BY <2>1, <2>2
<1>2. <<Cores>> \in Seq(Places) /\ Len(<<Cores>>) = 1
  BY CpuAssumption DEF Places
<1>3. Nothing \in Requests /\ Nothing.policy = "nothing"
  BY DEF Nothing, Policy, Requests, Policies
<1> QED BY <1>1, <1>2, <1>3 DEF FreshTeam, TeamType, GoodTeam, Obeys

LEMMA TeamsInit == Init => TeamsInv
<1> SUFFICES ASSUME Init PROVE TeamsInv
  OBVIOUS
<1>1. /\ chip \in [Cores -> Nat]
      /\ teams = [u \in Users |-> FreshTeam] /\ asked = [u \in Users |-> Nothing]
  BY CpuAssumption DEF Init, CpuInit
<1> QED BY <1>1, FreshTeams DEF TeamsInv

LEMMA TeamsUnchanged == TeamsInv /\ UNCHANGED cpuVars => TeamsInv'
BY DEF TeamsInv, cpuVars, GoodTeam, Obeys, Wanted, Big, Little, ThreadsFor

LEMMA TeamsGone == TeamsInv /\ Gone => TeamsInv'
<1> SUFFICES ASSUME TeamsInv, Gone PROVE TeamsInv'
  OBVIOUS
<1>1. /\ chip' \in [Cores -> Nat]
      /\ teams' = [u \in Users |-> FreshTeam] /\ asked' = [u \in Users |-> Nothing]
  BY DEF Gone, TeamsInv
<1>2. \A e : Obeys(e, Nothing)'
  BY FreshTeams DEF Obeys, Nothing, Policy
<1> QED BY <1>1, <1>2, FreshTeams DEF TeamsInv, GoodTeam

LEMMA TeamsNext == TeamsInv /\ [Next]_vars => TeamsInv'
<1> SUFFICES ASSUME TeamsInv, [Next]_vars PROVE TeamsInv'
  OBVIOUS
<1>1. CASE \E t \in Threads : SetPolicy(t)
  <2>1. PICK t \in Users : SetOpenMPThreadPolicy(t) \/ SetOpenMPThreadAffinity(t)
    BY <1>1 DEF SetPolicy
  <2>2. CASE SetOpenMPThreadAffinity(t)
    BY <2>2, AffinityKeeps
  <2>3. CASE SetOpenMPThreadPolicy(t)
    <3>1. PICK hint \in Hints, policy \in {"AFFINITY_NONE", "AFFINITY_BIG_ONLY", "AFFINITY_LITTLE_ONLY"} :
            \/ Bound(t, hint, policy)
            \/ Undetected(policy)
            \/ policy = "AFFINITY_NONE" /\ Unbound(t, hint)
      BY <2>3 DEF SetOpenMPThreadPolicy
    <3>2. CASE Bound(t, hint, policy)
      <4>1. policy \in {"AFFINITY_BIG_ONLY", "AFFINITY_LITTLE_ONLY"}
        BY <3>2 DEF Bound
      <4> QED BY <3>2, <4>1, BoundKeeps
    <3>3. CASE Undetected(policy)
      BY <3>3, TeamsUnchanged DEF Undetected
    <3>4. CASE Unbound(t, hint)
      BY <3>4, UnboundKeeps
    <3> QED BY <3>1, <3>2, <3>3, <3>4
  <2> QED BY <2>1, <2>2, <2>3
<1>2. CASE \E t \in Threads : RunOnCpu(t)
  <2>1. PICK t \in Users : ParallelRegion(t)
    BY <1>2 DEF RunOnCpu
  <2> QED BY <2>1, RegionKeeps
<1>3. CASE Gone
  BY <1>3, TeamsGone
<1>4. CASE UNCHANGED cpuVars
  BY <1>4, TeamsUnchanged
<1>7. CASE \E t \in Threads : BindingFails(t)
  <2>1. PICK t \in Users : SetThreadAffinityDies(t)
    BY <1>7 DEF BindingFails
  <2> QED BY <2>1, DeathKeeps
<1>5. ASSUME NEW t \in Threads, Step(t), ~SetPolicy(t), ~RunOnCpu(t), ~BindingFails(t)
      PROVE  UNCHANGED cpuVars
  BY <1>5 DEF Step, Create, LoadModelData, LoadModelTensor, RunInit, Destroy, OwnOnly,
              StartDsp, SendConstList, SendOpList, PrepareDsp, DestroyDsp, DestroyUnused, DspOnly,
              TuneKernel, StoreTuned, FindTuned, GetTuned, GpuOnly
<1>6. ASSUME Exit \/ Write \/ Killed \/ Restart \/ Over PROVE Gone \/ UNCHANGED cpuVars
  BY <1>6 DEF Exit, Write, Killed, Restart, Over, vars
<1> QED BY <1>1, <1>2, <1>3, <1>4, <1>5, <1>6, <1>7 DEF Next, vars

(* The inductive invariant of the teams of OpenMP holds.                   *)
THEOREM TeamsHold == Spec => []TeamsInv
BY TeamsInit, TeamsNext, PTL DEF Spec

(* The cores that are taken for big or little, and those the header calls  *)
(* so: the slowest are among the little ones, and are all of them unless   *)
(* there are three sorts.                                                  *)
LEMMA SortsCompared ==
  ASSUME chip \in [Cores -> Nat]
  PROVE  /\ Sort("AFFINITY_BIG_ONLY") = Big
         /\ Little \subseteq Sort("AFFINITY_LITTLE_ONLY")
         /\ ~ThreeSorts => Little = Sort("AFFINITY_LITTLE_ONLY")
         /\ Sort("AFFINITY_LITTLE_ONLY") \subseteq Cores
<1>1. PICK f, l : f \in Big /\ l \in Little
  BY SortsAreThere DEF Places
<1>2. Sort("AFFINITY_BIG_ONLY") = Big
  BY DEF Sort, Big
<1>3. Sort("AFFINITY_LITTLE_ONLY") = IF Big = Cores THEN Big ELSE Cores \ Big
  BY DEF Sort, Big
<1>4. Big = Cores => Little = Big
  BY DEF Big, Little
<1>5. Big # Cores => Little \subseteq Cores \ Big
  BY DEF Big, Little
<1>6. ASSUME NEW c \in Cores \ Big, c \notin Little PROVE ThreeSorts
  <2>1. PICK S : S = {chip[d] : d \in Cores}
    OBVIOUS
  <2>2. IsFiniteSet(S)
    <3>1. PICK F : F = [d \in Cores |-> chip[d]]
      OBVIOUS
    <3>2. F \in Surjection(Cores, S)
      BY <2>1, <3>1 DEF Surjection
    <3> QED BY <3>2, CpuAssumption, FS_Surjection
  <2>3. /\ chip[l] \in S /\ chip[c] \in S /\ chip[f] \in S
        /\ chip[l] # chip[c] /\ chip[l] # chip[f] /\ chip[c] # chip[f]
    BY <1>1, <1>6, <2>1 DEF Big, Little
  <2>4. PICK A, B, C : A = {chip[l]} /\ B = A \cup {chip[c]} /\ C = B \cup {chip[f]}
    OBVIOUS
  <2>5. IsFiniteSet(A) /\ Cardinality(A) = 1
    BY <2>4, FS_Singleton
  <2>6. IsFiniteSet(B) /\ Cardinality(B) = 2
    <3>1. chip[c] \notin A /\ B = A \cup {chip[c]}
      BY <2>3, <2>4
    <3>2. Cardinality(A \cup {chip[c]}) = Cardinality(A) + 1 /\ IsFiniteSet(A \cup {chip[c]})
      BY <2>5, <3>1, FS_AddElement, Zenon
    <3> QED BY <2>5, <3>1, <3>2
  <2>7. IsFiniteSet(C) /\ Cardinality(C) = 3
    <3>1. chip[f] \notin B /\ C = B \cup {chip[f]}
      BY <2>3, <2>4
    <3>2. Cardinality(B \cup {chip[f]}) = Cardinality(B) + 1 /\ IsFiniteSet(B \cup {chip[f]})
      BY <2>6, <3>1, FS_AddElement, Zenon
    <3> QED BY <2>6, <3>1, <3>2
  <2>8. C \subseteq S
    BY <2>3, <2>4
  <2>9. Cardinality(S) >= 3 /\ Cardinality(S) \in Nat
    BY <2>2, <2>7, <2>8, FS_Subset, FS_CardinalityType
  <2> QED BY <2>1, <2>9 DEF ThreeSorts
<1>7. ~ThreeSorts => Little = Sort("AFFINITY_LITTLE_ONLY")
  BY <1>3, <1>4, <1>5, <1>6
<1>8. Sort("AFFINITY_LITTLE_ONLY") \subseteq Cores
  BY <1>3 DEF Big
<1> QED BY <1>2, <1>3, <1>4, <1>5, <1>7, <1>8

(* Whatever was asked for before and by which thread, and whatever threads *)
(* the library kept: the next region of a thread that asked for the big or *)
(* the little cores, as the header defines them, or for some by name, has  *)
(* as many threads as were asked for and runs there; only of the little    *)
(* ones of several sorts it may get fewer.                                 *)
THEOREM TeamsRunWhereAsked == Spec => []TeamIsBound
<1>1. TeamsInv => TeamIsBound
  <2> DEFINE ask(u)    == asked[u]
             wanted(u) == IF ask(u).policy = "CORES" THEN ask(u).cores ELSE Sort(ask(u).policy)
             n(u)      == IF ask(u).policy = "CORES" \/ ask(u).hint \in 1..Cardinality(wanted(u))
                          THEN ask(u).hint ELSE Cardinality(wanted(u))
             num(u)    == teams[u].num
  <2> SUFFICES ASSUME TeamsInv, NEW u \in Users,
                      ask(u).policy \in {"AFFINITY_BIG_ONLY", "AFFINITY_LITTLE_ONLY", "CORES"}
               PROVE  /\ IF ask(u).policy = "AFFINITY_LITTLE_ONLY" /\ ThreeSorts
                         THEN num(u) \in 1..n(u) ELSE num(u) = n(u)
                      /\ \A i \in 1..num(u) : /\ Grown(teams[u], num(u))[i] # {}
                                             /\ Grown(teams[u], num(u))[i] \subseteq wanted(u)
    BY DEF TeamIsBound
  <2> HIDE DEF wanted, n, num, ask
  <2>1. /\ GoodTeam(teams[u]) /\ Obeys(teams[u], ask(u)) /\ num(u) \in Nat \ {0}
        /\ Len(teams[u].threads) \in Nat /\ Len(teams[u].threads) >= 1
        /\ ask(u).hint \in Int /\ chip \in [Cores -> Nat]
    BY DEF TeamsInv, GoodTeam, TeamType, ask, num, Requests
  <2>2. PICK w, W : w = Wanted(ask(u)) /\ W = wanted(u)
    OBVIOUS
  <2>3. /\ w \subseteq W
        /\ ~(ask(u).policy = "AFFINITY_LITTLE_ONLY" /\ ThreeSorts) => w = W
    BY <2>1, <2>2, SortsCompared DEF wanted, Wanted
  <2>4. /\ num(u) = IF ask(u).policy = "CORES" THEN ask(u).hint ELSE ThreadsFor(ask(u).hint, w)
        /\ \A i \in 1..num(u) : i <= Len(teams[u].threads) => teams[u].threads[i] \subseteq w
    BY <2>1, <2>2 DEF Obeys, num
  <2>5. ASSUME ask(u).policy = "AFFINITY_LITTLE_ONLY" /\ ThreeSorts PROVE num(u) \in 1..n(u)
    <3>1. w = Little /\ W = Sort("AFFINITY_LITTLE_ONLY")
      BY <2>2, <2>5 DEF wanted, Wanted
    <3>2. IsFiniteSet(W) /\ Cardinality(W) \in Nat /\ Cardinality(w) \in Nat \ {0}
      BY <2>1, <3>1, CpuAssumption, SortsAreThere, SortsCompared, FS_Subset, FS_CardinalityType
    <3>3. Cardinality(w) <= Cardinality(W)
      BY <2>3, <3>2, FS_Subset
    <3> QED BY <2>1, <2>2, <2>4, <2>5, <3>2, <3>3 DEF n, ThreadsFor
  <2>6. ASSUME ~(ask(u).policy = "AFFINITY_LITTLE_ONLY" /\ ThreeSorts) PROVE num(u) = n(u)
    <3>1. ask(u).policy # "CORES" => Cardinality(w) \in Nat \ {0}
      BY <2>1, <2>2, SortsAreThere DEF Wanted
    <3> QED BY <2>1, <2>2, <2>3, <2>4, <2>6, <3>1 DEF n, ThreadsFor
  <2>7. ASSUME NEW i \in 1..num(u)
        PROVE  Grown(teams[u], num(u))[i] # {} /\ Grown(teams[u], num(u))[i] \subseteq wanted(u)
    <3>1. PICK g : g = Grown(teams[u], num(u))
      OBVIOUS
    <3>2. /\ g \in Seq(Places) /\ i \in 1..Len(g)
          /\ g[i] = IF i <= Len(teams[u].threads) THEN teams[u].threads[i] ELSE teams[u].threads[1]
      BY <2>1, <3>1, GrownFacts
    <3>3. g[i] \in Places
      BY <3>2
    <3>4. g[i] \subseteq w
      BY <2>1, <2>4, <3>2
    <3> QED BY <2>2, <2>3, <3>1, <3>3, <3>4 DEF Places
  <2> QED BY <2>5, <2>6, <2>7
<1> QED BY <1>1, TeamsHold, PTL

-----------------------------------------------------------------------------
(* The table of tuned parameters and its file, for any number of threads,  *)
(* kernels and processes, and wherever the writing of the file is cut off. *)
(*                                                                         *)
(* What the file would be read as is a table like the one in memory: each  *)
(* of its entries was tuned, except for as many as there were cuts, and of *)
(* those the beginning was.  While the file is written it is a listing of  *)
(* the table, so that a cut spoils one entry more: the one it falls into.  *)

Names == {Name(k) : k \in Keys} \cup {Spaces, <<>>}

SpoiltIn(f) == {k \in Keys : Name(k) \in DOMAIN f /\ ~WasTuned(k, f[Name(k)])}

GoodTable(f, c) ==
  /\ DOMAIN f \subseteq Names /\ f \in [DOMAIN f -> Seq(Nat)]
  /\ Cardinality(SpoiltIn(f)) <= c
  /\ \A k \in SpoiltIn(f) : CutFrom(k, f[Name(k)])

EntryType == [name : Names, params : Seq(Nat)]
FileType  == [count : Nat, entries : Seq(EntryType), whole : Nat, words : Nat]

(* Of a file that is being written.                                        *)
Listed(d, f) ==
  /\ d \in FileType
  /\ d.count = Len(d.entries) /\ d.whole <= Len(d.entries)
  /\ d.whole < Len(d.entries) => d.words < Words(d.entries[d.whole + 1])
  /\ \A i \in 1..Len(d.entries) :
       d.entries[i].name \in DOMAIN f /\ d.entries[i].params = f[d.entries[i].name]

(* What threads are doing with the table; what they ran with.              *)
StoreType == [kind : {"store"}, key : Keys, params : Seq(Nat), raced : BOOLEAN]
FoundType == [kind : {"found"}, key : Keys]

GoodAccess(a) ==
  \/ a = Idle
  \/ a \in StoreType /\ WasTuned(a.key, a.params)
  \/ a \in FoundType /\ Name(a.key) \in DOMAIN table

GoodRun(r) ==
  r = NotRun \/ r.params = Default \/ WasTuned(r.key, r.params) \/ (cuts > 0 /\ CutFrom(r.key, r.params))

TableInv ==
  /\ tuned \subseteq Keys \X Seq(Nat) /\ cuts \in Nat
  /\ GoodTable(table, cuts)
  /\ IF phase = "writing" THEN Listed(disk, table) ELSE GoodTable(ReadRunParameters(disk), cuts)
  /\ DOMAIN access = Threads /\ DOMAIN ran = Threads
  /\ \A t \in Threads : GoodAccess(access[t]) /\ GoodRun(ran[t])
  /\ phase = "down" => \A t \in Threads : access[t] = Idle
-----------------------------------------------------------------------------
(* Names are different from the two that reading may yield instead.        *)
LEMMA NamesDiffer ==
  ASSUME NEW k \in Keys
  PROVE  /\ Name(k) # <<>> /\ Name(k) # Spaces /\ Len(Name(k)) = 1 /\ Len(Spaces) = 1
         /\ \A j \in Keys : Name(j) = Name(k) => j = k
<1>1. Name(k) # <<>> /\ Len(Name(k)) = 1 /\ Len(Spaces) = 1 /\ Name(k)[1] = k /\ Spaces[1] = " "
  BY DEF Name, Spaces
<1>2. \A j \in Keys : Name(j)[1] = j
  BY DEF Name
<1> QED BY <1>1, <1>2, TunerAssumption

LEMMA NameLengths == \A s \in Names : Len(s) \in Nat
<1>1. Len(Spaces) \in Nat /\ Len(<<>>) \in Nat
  BY DEF Spaces
<1> QED BY <1>1, NamesDiffer DEF Names

LEMMA NamesFinite == IsFiniteSet(Names)
<1>1. IsFiniteSet({Name(k) : k \in Keys})
  <2>1. PICK F : F = [k \in Keys |-> Name(k)]
    OBVIOUS
  <2>2. F \in Surjection(Keys, {Name(k) : k \in Keys})
    BY <2>1 DEF Surjection
  <2> QED BY <2>2, TunerAssumption, FS_Surjection DEF ExistsSurjection
<1>2. Names = ({Name(k) : k \in Keys} \cup {Spaces}) \cup {<<>>}
  BY DEF Names
<1> QED BY <1>1, <1>2, FS_AddElement

LEMMA SpoiltFinite ==
  ASSUME NEW f
  PROVE  IsFiniteSet(SpoiltIn(f)) /\ Cardinality(SpoiltIn(f)) \in Nat
<1>1. SpoiltIn(f) \in SUBSET Keys
  BY DEF SpoiltIn
<1>2. IsFiniteSet(SpoiltIn(f))
  BY <1>1, TunerAssumption, FS_Subset
<1> QED BY <1>2, FS_CardinalityType

(* Fewer entries are spoilt, then fewer is their number.                   *)
LEMMA SpoiltFewer ==
  ASSUME NEW f, NEW g, NEW c \in Nat, SpoiltIn(g) \subseteq SpoiltIn(f), Cardinality(SpoiltIn(f)) <= c
  PROVE  Cardinality(SpoiltIn(g)) <= c
<1>1. Cardinality(SpoiltIn(g)) <= Cardinality(SpoiltIn(f))
  BY SpoiltFinite, FS_Subset
<1> QED BY <1>1, SpoiltFinite

(* What was tuned stays tuned.                                             *)
LEMMA TunedMore ==
  ASSUME tuned \subseteq tuned', NEW f, NEW c \in Nat, GoodTable(f, c)
  PROVE  GoodTable(f, c)'
<1>1. \A k, p : WasTuned(k, p) => WasTuned(k, p)'
  BY DEF WasTuned
<1>2. \A k, p : CutFrom(k, p) => CutFrom(k, p)'
  BY DEF CutFrom
<1>3. SpoiltIn(f)' \subseteq SpoiltIn(f)
  BY <1>1 DEF SpoiltIn
<1>4. Cardinality(SpoiltIn(f)') <= c
  <2>1. Cardinality(SpoiltIn(f)') <= Cardinality(SpoiltIn(f)) /\ Cardinality(SpoiltIn(f)') \in Nat
    BY <1>3, SpoiltFinite, FS_Subset, FS_CardinalityType
  <2> QED BY <2>1, SpoiltFinite DEF GoodTable
<1> QED BY <1>2, <1>3, <1>4 DEF GoodTable

(* An entry that was tuned is put in.                                      *)
LEMMA PutTuned ==
  ASSUME NEW f, NEW c \in Nat, GoodTable(f, c),
         NEW k \in Keys, NEW p \in Seq(Nat), WasTuned(k, p)
  PROVE  GoodTable(Put(f, Name(k), p), c) /\ DOMAIN f \subseteq DOMAIN Put(f, Name(k), p)
<1>1. PICK g : g = Put(f, Name(k), p)
  OBVIOUS
<1>2. /\ DOMAIN g = DOMAIN f \cup {Name(k)}
      /\ \A n \in DOMAIN g : g[n] = IF n = Name(k) THEN p ELSE f[n]
      /\ g \in [DOMAIN g -> Seq(Nat)]
  BY <1>1 DEF Put, GoodTable
<1>3. SpoiltIn(g) \subseteq SpoiltIn(f)
  BY <1>2, NamesDiffer DEF SpoiltIn
<1>4. \A j \in SpoiltIn(g) : g[Name(j)] = f[Name(j)]
  BY <1>2, NamesDiffer DEF SpoiltIn
<1>5. Cardinality(SpoiltIn(g)) <= c
  BY <1>3, SpoiltFewer DEF GoodTable
<1>6. GoodTable(g, c)
  BY <1>2, <1>3, <1>4, <1>5 DEF GoodTable, Names
<1> QED BY <1>1, <1>2, <1>6
-----------------------------------------------------------------------------
(* The beginning of a sequence, and no more.                               *)
Begun(params, n) == [i \in DOMAIN params |-> IF i <= n THEN params[i] ELSE 0]

(* The beginning of a beginning is one.                                    *)
LEMMA CutAgain ==
  ASSUME tuned \subseteq Keys \X Seq(Nat), NEW k, NEW p \in Seq(Nat),
         WasTuned(k, p) \/ CutFrom(k, p), NEW n \in 0..Len(p)
  PROVE  CutFrom(k, <<>>) /\ CutFrom(k, Begun(p, n))
<1>1. CASE WasTuned(k, p)
  <2>1. PICK x \in tuned : x[1] = k /\ x[2] = p
    BY <1>1 DEF WasTuned
  <2> QED BY <2>1 DEF CutFrom, Begun
<1>2. CASE CutFrom(k, p)
  <2>1. PICK x \in tuned :
          /\ x[1] = k
          /\ p = <<>> \/ \E m \in 0..Len(x[2]) : p = [i \in DOMAIN x[2] |-> IF i <= m THEN x[2][i] ELSE 0]
    BY <1>2 DEF CutFrom
  <2>2. CASE p = <<>>
    <3>1. Begun(p, n) = <<>>
      BY <2>2 DEF Begun
    <3> QED BY <2>1, <3>1 DEF CutFrom
  <2>3. ASSUME NEW m \in 0..Len(x[2]), p = [i \in DOMAIN x[2] |-> IF i <= m THEN x[2][i] ELSE 0]
        PROVE  CutFrom(k, <<>>) /\ CutFrom(k, Begun(p, n))
    <3>1. x[2] \in Seq(Nat)
      BY <2>1
    <3>2. Len(p) = Len(x[2]) /\ DOMAIN p = DOMAIN x[2]
      BY <2>3, <3>1
    <3>3. PICK l \in 0..Len(x[2]) : l = IF n <= m THEN n ELSE m
      BY <2>3, <3>1, <3>2
    <3>4. Begun(p, n) = [i \in DOMAIN x[2] |-> IF i <= l THEN x[2][i] ELSE 0]
      <4>1. \A i \in DOMAIN x[2] : (IF i <= n THEN p[i] ELSE 0) = IF i <= l THEN x[2][i] ELSE 0
        BY <2>3, <3>1, <3>3
      <4> QED BY <3>2, <4>1 DEF Begun
    <3> QED BY <2>1, <3>4 DEF CutFrom
  <2> QED BY <2>1, <2>2, <2>3
<1> QED BY <1>1, <1>2

(* Reading the entry a cut falls into: the name is read with the entry's   *)
(* beginning, or there is no name of a kernel.                             *)
LEMMA ReadOfCut ==
  ASSUME NEW entry \in [name : Names, params : Seq(Nat)], NEW words \in Nat, words < Words(entry)
  PROVE  /\ ReadEntry(entry, words) \in [name : Names, params : Seq(Nat)]
         /\ ReadEntry(entry, words).name \in {<<>>, Spaces, entry.name}
         /\ \A k \in Keys : ReadEntry(entry, words).name = Name(k) =>
              /\ entry.name = Name(k)
              /\ \/ ReadEntry(entry, words).params = <<>>
                 \/ \E n \in 0..Len(entry.params) : ReadEntry(entry, words).params = Begun(entry.params, n)
<1>1. PICK n, m : n = Len(entry.name) /\ m = words - 2 - n
  OBVIOUS
<1>2. n \in Nat /\ Len(entry.params) \in Nat /\ entry.params \in Seq(Nat) /\ entry.name \in Names
  <2>1. entry.name \in Names /\ Len(<<>>) = 0
    OBVIOUS
  <2>2. n \in {0, 1}
    BY <1>1, <2>1, NamesDiffer DEF Names, Name, Spaces
  <2> QED BY <2>2
<1>3. words < 2 + n + Len(entry.params)
  BY <1>1 DEF Words
<1>4. Begun(entry.params, m) \in Seq(Nat)
  BY <1>1, <1>2 DEF Begun
<1>5. <<>> \in Names /\ Spaces \in Names /\ <<>> \in Seq(Nat)
  BY DEF Names
<1>6. ReadEntry(entry, words) =
        CASE words = 0                  -> [name |-> <<>>, params |-> <<>>]
          [] words > 0 /\ words < 1 + n -> [name |-> Spaces, params |-> <<>>]
          [] words = 1 + n              -> [name |-> entry.name, params |-> <<>>]
          [] words > 1 + n              -> [name |-> entry.name, params |-> Begun(entry.params, m)]
  BY <1>1 DEF ReadEntry, Begun
<1>7. PICK e : e = ReadEntry(entry, words)
  OBVIOUS
<1>8. \/ e = [name |-> <<>>, params |-> <<>>]
      \/ e = [name |-> Spaces, params |-> <<>>]
      \/ e = [name |-> entry.name, params |-> <<>>]
      \/ e = [name |-> entry.name, params |-> Begun(entry.params, m)] /\ m \in 0..Len(entry.params)
  <2>1. CASE words = 0
    BY <1>2, <1>6, <1>7, <2>1
  <2>2. CASE words > 0 /\ words < 1 + n
    BY <1>2, <1>6, <1>7, <2>2
  <2>3. CASE words = 1 + n
    BY <1>2, <1>6, <1>7, <2>3
  <2>4. CASE words > 1 + n
    <3>1. e = [name |-> entry.name, params |-> Begun(entry.params, m)]
      BY <1>2, <1>6, <1>7, <2>4
    <3>2. m \in 0..Len(entry.params)
      BY <1>1, <1>2, <1>3, <2>4
    <3> QED BY <3>1, <3>2
  <2> QED BY <1>2, <2>1, <2>2, <2>3, <2>4
<1>9. e \in [name : Names, params : Seq(Nat)]
  <2>1. \A x \in Names, y \in Seq(Nat) : [name |-> x, params |-> y] \in [name : Names, params : Seq(Nat)]
    OBVIOUS
  <2>2. PICK b : b = Begun(entry.params, m)
    OBVIOUS
  <2> QED BY <1>2, <1>4, <1>5, <1>8, <2>1, <2>2
<1>10. e.name \in {<<>>, Spaces, entry.name}
  BY <1>8
<1>11. \A k \in Keys : e.name = Name(k) =>
         /\ entry.name = Name(k)
         /\ e.params = <<>> \/ \E j \in 0..Len(entry.params) : e.params = Begun(entry.params, j)
  <2> SUFFICES ASSUME NEW k \in Keys, e.name = Name(k)
               PROVE  /\ entry.name = Name(k)
                      /\ e.params = <<>> \/ \E j \in 0..Len(entry.params) : e.params = Begun(entry.params, j)
    OBVIOUS
  <2>1. e.name # <<>> /\ e.name # Spaces
    BY NamesDiffer
  <2>2. CASE e = [name |-> entry.name, params |-> <<>>]
    BY <2>2
  <2>3. CASE e = [name |-> entry.name, params |-> Begun(entry.params, m)] /\ m \in 0..Len(entry.params)
    BY <2>3
  <2> QED BY <1>8, <2>1, <2>2, <2>3
<1> QED BY <1>7, <1>9, <1>10, <1>11

LEMMA ThreeJoined ==
  ASSUME NEW S, NEW a \in Seq(S), NEW b \in Seq(S), NEW c \in Seq(S),
         Len(b) \in {0, 1}, Len(c) \in {0, 1}, NEW i \in DOMAIN (a \o b \o c)
  PROVE  \/ i \in 1..Len(a) /\ (a \o b \o c)[i] = a[i]
         \/ Len(b) = 1 /\ (a \o b \o c)[i] = b[1]
         \/ Len(c) = 1 /\ (a \o b \o c)[i] = c[1]
<1>1. PICK x : x = a \o b
  OBVIOUS
<1>2. /\ x \in Seq(S) /\ Len(x) = Len(a) + Len(b)
      /\ \A j \in 1..Len(x) : x[j] = IF j <= Len(a) THEN a[j] ELSE b[j - Len(a)]
  BY <1>1, ConcatProperties
<1>3. /\ x \o c \in Seq(S) /\ Len(x \o c) = Len(x) + Len(c)
      /\ \A j \in 1..Len(x \o c) : (x \o c)[j] = IF j <= Len(x) THEN x[j] ELSE c[j - Len(x)]
  <2>1. /\ x \o c \in Seq(S) /\ Len(x \o c) = Len(x) + Len(c)
        /\ \A j \in 1..Len(x) + Len(c) : (x \o c)[j] = IF j <= Len(x) THEN x[j] ELSE c[j - Len(x)]
    <3>1. x \in Seq(S)
      BY <1>2
    <3> QED BY <3>1, ConcatProperties
  <2> QED BY <2>1
<1>4. i \in 1..Len(x \o c) /\ Len(a) \in Nat /\ Len(x) \in Nat
  BY <1>1, <1>2, <1>3
<1>5. CASE i <= Len(a)
  BY <1>1, <1>2, <1>3, <1>4, <1>5
<1>6. CASE i > Len(a) /\ i <= Len(x)
  <2>1. Len(b) = 1 /\ i - Len(a) = 1
    BY <1>2, <1>4, <1>6
  <2>2. (x \o c)[i] = x[i] /\ x[i] = b[i - Len(a)]
    BY <1>2, <1>3, <1>4, <1>6
  <2> QED BY <1>1, <2>1, <2>2
<1>7. CASE i > Len(x)
  <2>1. Len(c) = 1 /\ i - Len(x) = 1
    BY <1>2, <1>3, <1>4, <1>7
  <2>2. (x \o c)[i] = c[i - Len(x)]
    BY <1>3, <1>4, <1>7
  <2> QED BY <1>1, <2>1, <2>2
<1> QED BY <1>2, <1>4, <1>5, <1>6, <1>7

(* What is read of a listing: entries of the table, the one cut, and one   *)
(* without a name.                                                         *)
LEMMA ReadIsTable ==
  ASSUME NEW f, NEW d, Listed(d, f)
  PROVE  LET r == ReadRunParameters(d) IN
         /\ DOMAIN r \subseteq Names /\ r \in [DOMAIN r -> Seq(Nat)]
         /\ \A k \in Keys : Name(k) \in DOMAIN r =>
              /\ Name(k) \in DOMAIN f
              /\ \/ r[Name(k)] = f[Name(k)]
                 \/ /\ d.whole < Len(d.entries) /\ d.entries[d.whole + 1].name = Name(k)
                    /\ r[Name(k)] = <<>> \/ \E n \in 0..Len(f[Name(k)]) : r[Name(k)] = Begun(f[Name(k)], n)
<1>1. /\ d.entries \in Seq(EntryType) /\ d.count = Len(d.entries) /\ d.whole \in 0..Len(d.entries)
      /\ d.words \in Nat /\ Len(d.entries) \in Nat
      /\ d.whole < Len(d.entries) => d.words < Words(d.entries[d.whole + 1])
      /\ \A i \in 1..Len(d.entries) :
           d.entries[i].name \in DOMAIN f /\ d.entries[i].params = f[d.entries[i].name]
  BY DEF Listed, FileType
<1> DEFINE there == [i \in 1..d.whole |-> d.entries[i]]
           cut   == IF d.whole < d.count THEN <<ReadEntry(d.entries[d.whole + 1], d.words)>> ELSE <<>>
           none  == IF d.whole + 1 < d.count THEN <<[name |-> <<>>, params |-> <<>>]>> ELSE <<>>
           all   == there \o cut \o none
           First(name) == CHOOSE i \in DOMAIN all : all[i].name = name /\ \A j \in 1..(i - 1) : all[j].name # name
<1>2. PICK r : r = ReadRunParameters(d)
  OBVIOUS
<1>3. r = [name \in {all[i].name : i \in DOMAIN all} |-> all[First(name)].params]
  BY <1>2 DEF ReadRunParameters
<1> HIDE DEF all
<1>6. there \in Seq(EntryType) /\ Len(there) = d.whole /\ \A i \in 1..d.whole : there[i] = d.entries[i]
  <2>1. \A i \in 1..d.whole : d.entries[i] \in EntryType
    BY <1>1
  <2>2. there \in [1..d.whole -> EntryType] /\ d.whole \in Nat
    BY <1>1, <2>1
  <2> QED BY <2>2
<1> HIDE DEF there
<1>7. /\ cut \in Seq(EntryType)
      /\ Len(cut) = IF d.whole < Len(d.entries) THEN 1 ELSE 0
      /\ d.whole < Len(d.entries) => cut[1] = ReadEntry(d.entries[d.whole + 1], d.words)
  <2>1. CASE d.whole < Len(d.entries)
    <3>1. cut = <<ReadEntry(d.entries[d.whole + 1], d.words)>>
      BY <1>1, <2>1
    <3>2. d.entries[d.whole + 1] \in EntryType
      BY <1>1, <2>1
    <3>3. ReadEntry(d.entries[d.whole + 1], d.words) \in EntryType
      <4>1. d.words \in Nat /\ d.words < Words(d.entries[d.whole + 1])
        BY <1>1, <2>1
      <4> QED BY <3>2, <4>1, ReadOfCut DEF EntryType
    <3> QED BY <2>1, <3>1, <3>3
  <2>2. CASE ~(d.whole < Len(d.entries))
    BY <1>1, <2>2
  <2> QED BY <2>1, <2>2
<1> HIDE DEF cut
<1>8. none \in Seq(EntryType) /\ Len(none) \in {0, 1} /\ (Len(none) = 1 => none[1].name = <<>>)
  <2>1. [name |-> <<>>, params |-> <<>>] \in EntryType
    BY DEF Names, EntryType
  <2>2. [name |-> <<>>, params |-> <<>>].name = <<>>
    OBVIOUS
  <2>3. CASE d.whole + 1 < d.count
    <3>1. none = <<[name |-> <<>>, params |-> <<>>]>>
      BY <2>3
    <3> QED BY <2>1, <2>2, <3>1
  <2>4. CASE ~(d.whole + 1 < d.count)
    BY <2>4
  <2> QED BY <2>3, <2>4
<1> HIDE DEF none
<1>9. all \in Seq(EntryType) /\ Len(all) \in Nat /\ DOMAIN all = 1..Len(all)
  BY <1>6, <1>7, <1>8 DEF all
<1>10. ASSUME NEW i \in DOMAIN all
       PROVE  \/ i \in 1..d.whole /\ all[i] = d.entries[i]
              \/ d.whole < Len(d.entries) /\ all[i] = ReadEntry(d.entries[d.whole + 1], d.words)
              \/ all[i].name = <<>>
  <2>1. Len(cut) \in {0, 1}
    BY <1>7
  <2>2. i \in DOMAIN (there \o cut \o none)
    BY <1>10 DEF all
  <2>3. \/ i \in 1..Len(there) /\ all[i] = there[i]
        \/ Len(cut) = 1 /\ all[i] = cut[1]
        \/ Len(none) = 1 /\ all[i] = none[1]
    BY <1>6, <1>7, <1>8, <2>1, <2>2, ThreeJoined DEF all
  <2> QED BY <1>6, <1>7, <1>8, <2>3
<1>13. ASSUME NEW name \in DOMAIN r
       PROVE  \E i \in DOMAIN all : all[i].name = name /\ r[name] = all[i].params
  <2>1. PICK T : T = {i \in DOMAIN all : all[i].name = name}
    OBVIOUS
  <2>2. T \subseteq Nat /\ T # {} /\ DOMAIN all = 1..Len(all) /\ Len(all) \in Nat
    BY <1>9, <1>3, <1>13, <2>1
  <2>3. PICK i \in T : \A j \in T : i <= j
    BY <2>2, LeastNatural
  <2>4. i \in DOMAIN all /\ all[i].name = name /\ \A j \in 1..(i - 1) : all[j].name # name
    BY <2>1, <2>2, <2>3
  <2>5. First(name) \in DOMAIN all /\ all[First(name)].name = name
    BY <2>4
  <2>6. r[name] = all[First(name)].params
    BY <1>3, <1>13
  <2> QED BY <2>5, <2>6
<1>14. DOMAIN r \subseteq Names /\ r \in [DOMAIN r -> Seq(Nat)]
  <2>1. \A i \in DOMAIN all : all[i] \in EntryType
    BY <1>9
  <2>2. \A name \in DOMAIN r : name \in Names /\ r[name] \in Seq(Nat)
    BY <1>13, <2>1 DEF EntryType
  <2>3. r = [n \in DOMAIN r |-> r[n]]
    BY <1>3
  <2> QED BY <2>2, <2>3
<1>15. ASSUME NEW k \in Keys, Name(k) \in DOMAIN r
       PROVE  /\ Name(k) \in DOMAIN f
              /\ \/ r[Name(k)] = f[Name(k)]
                 \/ /\ d.whole < Len(d.entries) /\ d.entries[d.whole + 1].name = Name(k)
                    /\ r[Name(k)] = <<>> \/ \E n \in 0..Len(f[Name(k)]) : r[Name(k)] = Begun(f[Name(k)], n)
  <2>1. PICK i \in DOMAIN all : all[i].name = Name(k) /\ r[Name(k)] = all[i].params
    BY <1>13, <1>15
  <2>2. CASE i \in 1..d.whole /\ all[i] = d.entries[i]
    BY <1>1, <2>1, <2>2
  <2>3. CASE d.whole < Len(d.entries) /\ all[i] = ReadEntry(d.entries[d.whole + 1], d.words)
    <3>1. PICK e : e = d.entries[d.whole + 1]
      OBVIOUS
    <3>2. e \in EntryType /\ e.name \in DOMAIN f /\ e.params = f[e.name] /\ d.words \in Nat /\ d.words < Words(e)
      BY <1>1, <2>3, <3>1
    <3>3. /\ e.name = Name(k)
          /\ \/ ReadEntry(e, d.words).params = <<>>
             \/ \E n \in 0..Len(e.params) : ReadEntry(e, d.words).params = Begun(e.params, n)
      BY <2>1, <2>3, <3>1, <3>2, ReadOfCut DEF EntryType
    <3> QED BY <2>1, <2>3, <3>1, <3>2, <3>3
  <2>4. all[i].name # <<>>
    BY <2>1, NamesDiffer
  <2> QED BY <1>10, <2>2, <2>3, <2>4
<1> QED BY <1>2, <1>14, <1>15
-----------------------------------------------------------------------------
(* A file that was written whole is read as the table; one that was cut    *)
(* off has one spoilt entry more at most.                                  *)
LEMMA ReadIsGood ==
  ASSUME tuned \subseteq Keys \X Seq(Nat), NEW f, NEW c \in Nat, GoodTable(f, c), NEW d, Listed(d, f)
  PROVE  GoodTable(ReadRunParameters(d), IF Written(d) THEN c ELSE c + 1)
<1>1. PICK r : r = ReadRunParameters(d)
  OBVIOUS
<1>2. /\ DOMAIN r \subseteq Names /\ r \in [DOMAIN r -> Seq(Nat)]
      /\ \A k \in Keys : Name(k) \in DOMAIN r =>
           /\ Name(k) \in DOMAIN f
           /\ \/ r[Name(k)] = f[Name(k)]
              \/ /\ d.whole < Len(d.entries) /\ d.entries[d.whole + 1].name = Name(k)
                 /\ r[Name(k)] = <<>> \/ \E n \in 0..Len(f[Name(k)]) : r[Name(k)] = Begun(f[Name(k)], n)
  BY <1>1, ReadIsTable
<1>3. ASSUME NEW k \in SpoiltIn(r)
      PROVE  /\ CutFrom(k, r[Name(k)])
             /\ \/ k \in SpoiltIn(f)
                \/ d.whole < Len(d.entries) /\ d.entries[d.whole + 1].name = Name(k)
  <2>1. k \in Keys /\ Name(k) \in DOMAIN r /\ Name(k) \in DOMAIN f /\ ~WasTuned(k, r[Name(k)])
    BY <1>2, <1>3 DEF SpoiltIn
  <2>2. f[Name(k)] \in Seq(Nat)
    BY <2>1 DEF GoodTable
  <2>3. WasTuned(k, f[Name(k)]) \/ CutFrom(k, f[Name(k)])
    BY <2>1 DEF GoodTable, SpoiltIn
  <2>4. CASE r[Name(k)] = f[Name(k)]
    BY <2>1, <2>3, <2>4 DEF SpoiltIn
  <2>5. CASE /\ d.whole < Len(d.entries) /\ d.entries[d.whole + 1].name = Name(k)
             /\ r[Name(k)] = <<>> \/ \E n \in 0..Len(f[Name(k)]) : r[Name(k)] = Begun(f[Name(k)], n)
    BY <2>2, <2>3, <2>5, CutAgain
  <2> QED BY <1>2, <2>1, <2>4, <2>5
<1>4. CASE Written(d)
  <2>1. SpoiltIn(r) \subseteq SpoiltIn(f)
    BY <1>3, <1>4 DEF Written, Listed
  <2>2. Cardinality(SpoiltIn(r)) <= c
    BY <2>1, SpoiltFewer DEF GoodTable
  <2> QED BY <1>1, <1>2, <1>3, <1>4, <2>2 DEF GoodTable
<1>5. CASE ~Written(d)
  <2>1. PICK x : \A k \in Keys : d.entries[d.whole + 1].name = Name(k) => k = x
    BY NamesDiffer
  <2>2. SpoiltIn(r) \subseteq SpoiltIn(f) \cup {x}
    BY <1>3, <2>1 DEF SpoiltIn
  <2>3. IsFiniteSet(SpoiltIn(f) \cup {x}) /\ Cardinality(SpoiltIn(f) \cup {x}) <= Cardinality(SpoiltIn(f)) + 1
    BY SpoiltFinite, FS_AddElement
  <2>4. Cardinality(SpoiltIn(r)) <= Cardinality(SpoiltIn(f) \cup {x})
    BY <2>2, <2>3, FS_Subset
  <2>5. Cardinality(SpoiltIn(f) \cup {x}) \in Nat
    BY <2>3, FS_CardinalityType
  <2>6. Cardinality(SpoiltIn(r)) <= c + 1
    BY <2>3, <2>4, <2>5, SpoiltFinite DEF GoodTable
  <2> QED BY <1>1, <1>2, <1>3, <1>5, <2>6 DEF GoodTable
<1> QED BY <1>4, <1>5

LEMMA WordsType ==
  ASSUME NEW e \in EntryType
  PROVE  Words(e) \in Nat /\ Words(e) > 0
<1>1. e.name \in Names /\ e.params \in Seq(Nat)
  BY DEF EntryType
<1>2. PICK a \in Nat : a = Len(e.name)
  BY <1>1, NameLengths
<1>3. PICK b \in Nat : b = Len(e.params)
  BY <1>1
<1>4. Words(e) = 2 + a + b
  BY <1>2, <1>3 DEF Words
<1> QED BY <1>4

(* The file is begun as a listing of the table, and stays one.             *)
LEMMA BegunIsListed ==
  ASSUME NEW f, NEW c, GoodTable(f, c), NEW o \in Listings(f)
  PROVE  Listed([count |-> Len(o), entries |-> o, whole |-> 0, words |-> 0], f)
<1>1. PICK n : n = Cardinality(DOMAIN f)
  OBVIOUS
<1>2. n \in Nat
  <2>1. IsFiniteSet(DOMAIN f)
    BY NamesFinite, FS_Subset DEF GoodTable
  <2> QED BY <1>1, <2>1, FS_CardinalityType
<1>3. PICK g \in [1..n -> DOMAIN f] : o = [i \in 1..n |-> [name |-> g[i], params |-> f[g[i]]]]
  BY <1>1 DEF Listings
<1>4. \A i \in 1..n : g[i] \in DOMAIN f /\ g[i] \in Names /\ f[g[i]] \in Seq(Nat)
  BY <1>3 DEF GoodTable
<1>5. o \in Seq(EntryType) /\ Len(o) = n
  <2>1. \A i \in 1..n : [name |-> g[i], params |-> f[g[i]]] \in EntryType
    BY <1>4 DEF EntryType
  <2> QED BY <1>2, <1>3, <2>1
<1>6. \A i \in 1..Len(o) : o[i].name \in DOMAIN f /\ o[i].params = f[o[i].name]
  BY <1>3, <1>4, <1>5
<1>7. 0 < Len(o) => 0 < Words(o[0 + 1])
  <2>1. ASSUME 0 < Len(o) PROVE o[1] \in EntryType
    BY <1>2, <1>5, <2>1
  <2>2. 0 < Len(o) => 0 < Words(o[1])
    BY <1>2, <1>5, <2>1, WordsType
  <2> QED BY <1>2, <1>5, <2>2
<1>8. PICK d : d = [count |-> Len(o), entries |-> o, whole |-> 0, words |-> 0]
  OBVIOUS
<1>9. d.count = Len(o) /\ d.entries = o /\ d.whole = 0 /\ d.words = 0
  BY <1>8
<1>10. d \in FileType
  BY <1>2, <1>5, <1>8 DEF FileType
<1> QED BY <1>2, <1>5, <1>6, <1>7, <1>8, <1>9, <1>10 DEF Listed

LEMMA WriteKeepsListed ==
  ASSUME NEW f, NEW d, Listed(d, f), ~Written(d)
  PROVE  Listed(WriteWord(d), f)
<1>1. /\ d \in FileType /\ d.whole \in Nat /\ d.words \in Nat /\ Len(d.entries) \in Nat
      /\ d.count = Len(d.entries) /\ d.whole < Len(d.entries)
      /\ d.words < Words(d.entries[d.whole + 1])
      /\ \A i \in 1..Len(d.entries) :
           d.entries[i].name \in DOMAIN f /\ d.entries[i].params = f[d.entries[i].name]
  BY DEF Listed, Written, FileType
<1>2. PICK e : e = WriteWord(d)
  OBVIOUS
<1>3. ASSUME NEW i \in 1..Len(d.entries) PROVE Words(d.entries[i]) \in Nat /\ Words(d.entries[i]) > 0
  <2>1. d.entries[i] \in EntryType
    BY <1>1 DEF FileType
  <2> QED BY <2>1, WordsType
<1>4. CASE d.words + 1 = Words(d.entries[d.whole + 1])
  <2>1. e = [d EXCEPT !.whole = d.whole + 1, !.words = 0]
    BY <1>2, <1>4 DEF WriteWord
  <2>2. e \in FileType /\ e.count = d.count /\ e.entries = d.entries /\ e.whole = d.whole + 1 /\ e.words = 0
    <3>1. PICK n \in Nat : n = d.whole + 1
      BY <1>1
    <3>2. e = [d EXCEPT !.whole = n, !.words = 0]
      BY <2>1, <3>1
    <3>3. e \in FileType /\ e.count = d.count /\ e.entries = d.entries /\ e.whole = n /\ e.words = 0
      BY <1>1, <3>2 DEF FileType
    <3> QED BY <3>1, <3>3
  <2>3. e.whole < Len(e.entries) => e.words < Words(e.entries[e.whole + 1])
    BY <1>1, <1>3, <2>2
  <2> QED BY <1>1, <1>2, <2>2, <2>3 DEF Listed
<1>5. CASE d.words + 1 # Words(d.entries[d.whole + 1])
  <2>1. e = [d EXCEPT !.words = d.words + 1]
    BY <1>2, <1>5 DEF WriteWord
  <2>2. e \in FileType /\ e.count = d.count /\ e.entries = d.entries /\ e.whole = d.whole /\ e.words = d.words + 1
    BY <1>1, <2>1 DEF FileType
  <2>3. e.words < Words(e.entries[e.whole + 1])
    <3>1. PICK w, h : h \in Nat /\ w = Words(d.entries[d.whole + 1]) /\ h = d.words
      BY <1>1
    <3>2. d.whole + 1 \in 1..Len(d.entries)
      BY <1>1
    <3>3. w \in Nat
      BY <1>3, <3>1, <3>2
    <3>4. h < w /\ h + 1 # w
      BY <1>1, <1>5, <3>1
    <3>5. h + 1 < w
      BY <3>1, <3>3, <3>4
    <3>6. e.words = h + 1 /\ Words(e.entries[e.whole + 1]) = w
      BY <2>2, <3>1
    <3> QED BY <3>5, <3>6
  <2> QED BY <1>1, <1>2, <2>2, <2>3 DEF Listed
<1> QED BY <1>4, <1>5
-----------------------------------------------------------------------------
(* The steps.  First what a step does not touch.                           *)
LEMMA EmptyTable == \A c \in Nat : GoodTable(<<>>, c) /\ GoodTable(<<>>, c)'
<1>1. Cardinality({}) = 0
  BY FS_EmptySet
<1>2. PICK f : f = <<>>
  OBVIOUS
<1>3. DOMAIN f = {} /\ f \in [DOMAIN f -> Seq(Nat)]
  BY <1>2
<1>4. SpoiltIn(f) = {} /\ SpoiltIn(f)' = {}
  BY <1>3 DEF SpoiltIn
<1>5. ASSUME NEW c \in Nat PROVE GoodTable(f, c)
  <2>1. Cardinality(SpoiltIn(f)) <= c
    BY <1>1, <1>4
  <2> QED BY <1>3, <1>4, <2>1 DEF GoodTable
<1>6. ASSUME NEW c \in Nat PROVE GoodTable(f, c)'
  <2>1. Cardinality(SpoiltIn(f)') <= c
    BY <1>1, <1>4
  <2> QED BY <1>3, <1>4, <2>1 DEF GoodTable
<1> QED BY <1>2, <1>5, <1>6

LEMMA AccessTypes ==
  ASSUME NEW a, GoodAccess(a)
  PROVE  /\ Idle.kind = "none"
         /\ a.kind = "store" => a \in StoreType /\ WasTuned(a.key, a.params)
         /\ a.kind = "found" => a.key \in Keys /\ Name(a.key) \in DOMAIN table
<1>1. Idle.kind = "none"
  BY DEF Idle
<1>2. a \in StoreType => a.kind = "store"
  BY DEF StoreType
<1>3. a \in FoundType => a.kind = "found" /\ a.key \in Keys
  BY DEF FoundType
<1> QED BY <1>1, <1>2, <1>3 DEF GoodAccess

LEMMA TableUnchanged ==
  ASSUME TableInv, UNCHANGED tunerVars, phase' = phase \/ (phase = "up" /\ phase' = "ending")
  PROVE  TableInv'
<1>1. UNCHANGED <<table, disk, access, ran, tuned, cuts>>
  BY DEF tunerVars
<1>2. (phase = "writing") = (phase' = "writing") /\ (phase' = "down" => phase = "down")
  OBVIOUS
<1>3. \A f, c : GoodTable(f, c)' <=> GoodTable(f, c)
  BY <1>1 DEF GoodTable, SpoiltIn, CutFrom, WasTuned
<1>4. \A a : GoodAccess(a)' <=> GoodAccess(a)
  BY <1>1 DEF GoodAccess, WasTuned
<1>5. \A r : GoodRun(r)' <=> GoodRun(r)
  BY <1>1 DEF GoodRun, WasTuned, CutFrom
<1> QED BY <1>1, <1>2, <1>3, <1>4, <1>5 DEF TableInv

(* Tuning: more is tuned.                                                  *)
LEMMA TuneKeeps ==
  ASSUME TableInv, phase = "up", UNCHANGED phase, NEW t \in Threads, NEW k \in Keys, Tune(t, k)
  PROVE  TableInv'
<1>1. PICK p \in Candidates[k] :
        /\ ran' = [ran EXCEPT ![t] = [key |-> k, params |-> p]]
        /\ access' = [u \in Threads |->
                        CASE u = t -> [kind |-> "store", key |-> k, params |-> p, raced |-> \E v \in Threads : Storing(v)]
                          [] u # t /\ Storing(u) -> [access[u] EXCEPT !.raced = TRUE]
                          [] u # t /\ ~Storing(u) -> access[u]]
        /\ tuned' = tuned \cup {<<k, p>>}
  BY DEF Tune, Ran
<1>2. /\ p \in Seq(Nat) /\ tuned \subseteq tuned' /\ tuned' \subseteq Keys \X Seq(Nat)
      /\ UNCHANGED <<table, disk, cuts, phase>> /\ WasTuned(k, p)'
      /\ cuts \in Nat /\ GoodTable(table, cuts) /\ GoodTable(ReadRunParameters(disk), cuts)
      /\ DOMAIN access = Threads /\ DOMAIN ran = Threads
  <2>1. p \in Seq(Nat) /\ <<k, p>> \in Keys \X Seq(Nat)
    BY TunerAssumption
  <2>2. tuned \subseteq Keys \X Seq(Nat) /\ cuts \in Nat /\ DOMAIN access = Threads /\ DOMAIN ran = Threads
    BY DEF TableInv
  <2>3. GoodTable(table, cuts) /\ GoodTable(ReadRunParameters(disk), cuts)
    BY DEF TableInv
  <2>4. UNCHANGED <<table, disk, cuts, phase>>
    BY DEF Tune
  <2>5. tuned \subseteq tuned' /\ tuned' \subseteq Keys \X Seq(Nat) /\ WasTuned(k, p)'
    BY <1>1, <2>1, <2>2 DEF WasTuned
  <2> QED BY <2>1, <2>2, <2>3, <2>4, <2>5
<1>3. GoodTable(table, cuts)' /\ GoodTable(ReadRunParameters(disk), cuts)'
  <2>1. PICK f, g, c : f = table /\ g = ReadRunParameters(disk) /\ c = cuts
    OBVIOUS
  <2>2. GoodTable(f, c)' /\ GoodTable(g, c)'
    BY <1>2, <2>1, TunedMore
  <2> QED BY <1>2, <2>1, <2>2
<1>4. \A j, q : (WasTuned(j, q) => WasTuned(j, q)') /\ (CutFrom(j, q) => CutFrom(j, q)')
  BY <1>2 DEF WasTuned, CutFrom
<1>5. ASSUME NEW u \in Threads PROVE GoodAccess(access[u])'
  <2>1. GoodAccess(access[u])
    BY DEF TableInv
  <2>2. CASE u = t
    <3>1. PICK b \in BOOLEAN : b = \E v \in Threads : Storing(v)
      OBVIOUS
    <3>2. PICK a : a = [kind |-> "store", key |-> k, params |-> p, raced |-> b]
      OBVIOUS
    <3>3. access'[u] = a
      BY <1>1, <2>2, <3>1, <3>2
    <3>4. a \in StoreType /\ a.key = k /\ a.params = p
      BY <1>2, <3>2 DEF StoreType
    <3> QED BY <1>2, <3>3, <3>4 DEF GoodAccess
  <2>3. CASE u # t /\ Storing(u)
    <3>1. access'[u] = [access[u] EXCEPT !.raced = TRUE]
      BY <1>1, <2>3
    <3>2. access[u] \in StoreType /\ WasTuned(access[u].key, access[u].params)
      BY <2>1, <2>3, AccessTypes DEF Storing
    <3>3. PICK a, b : a = access[u] /\ b = access'[u]
      OBVIOUS
    <3>4. b \in StoreType /\ b.key = a.key /\ b.params = a.params
      BY <3>1, <3>2, <3>3 DEF StoreType
    <3> QED BY <1>4, <3>2, <3>3, <3>4 DEF GoodAccess
  <2>4. CASE u # t /\ ~Storing(u)
    <3>1. access'[u] = access[u]
      BY <1>1, <2>4
    <3> QED BY <1>2, <1>4, <2>1, <3>1 DEF GoodAccess
  <2> QED BY <2>2, <2>3, <2>4
<1>6. ASSUME NEW u \in Threads PROVE GoodRun(ran[u])'
  <2>1. GoodRun(ran[u])
    BY DEF TableInv
  <2>2. CASE u = t
    BY <1>1, <1>2, <2>2 DEF GoodRun
  <2>3. CASE u # t
    BY <1>1, <1>2, <1>4, <2>1, <2>3 DEF GoodRun
  <2> QED BY <2>2, <2>3
<1>7. DOMAIN access' = Threads /\ DOMAIN ran' = Threads
  BY <1>1, <1>2
<1> QED BY <1>2, <1>3, <1>5, <1>6, <1>7 DEF TableInv

(* Storing: the table has one entry more, of what was tuned, or none.      *)
LEMMA StoreKeeps ==
  ASSUME TableInv, phase = "up", UNCHANGED phase, NEW t \in Threads, Store(t)
  PROVE  TableInv'
<1>1. /\ UNCHANGED <<disk, ran, tuned, cuts, phase>> /\ access' = [access EXCEPT ![t] = Idle]
      /\ GoodTable(table, cuts) /\ cuts \in Nat /\ DOMAIN access = Threads
      /\ GoodAccess(access[t]) /\ access[t].kind = "store"
  BY DEF Store, Storing, TableInv
<1>2. PICK k \in Keys, p \in Seq(Nat) : k = access[t].key /\ p = access[t].params /\ WasTuned(k, p)
  BY <1>1, AccessTypes DEF StoreType
<1>3. table' = Put(table, Name(k), p) \/ table' = table
  BY <1>2 DEF Store
<1>4. GoodTable(table', cuts) /\ DOMAIN table \subseteq DOMAIN table'
  BY <1>1, <1>2, <1>3, PutTuned
<1>5. \A f, c : GoodTable(f, c)' <=> GoodTable(f, c)
  BY <1>1 DEF GoodTable, SpoiltIn, CutFrom, WasTuned
<1>6. \A a : GoodAccess(a) => GoodAccess(a)'
  BY <1>1, <1>4 DEF GoodAccess, WasTuned
<1>7. GoodAccess(Idle)'
  BY DEF GoodAccess
<1>8. \A r : GoodRun(r)' <=> GoodRun(r)
  BY <1>1 DEF GoodRun, WasTuned, CutFrom
<1> QED BY <1>1, <1>4, <1>5, <1>6, <1>7, <1>8 DEF TableInv

LEMMA FindKeeps ==
  ASSUME TableInv, phase = "up", UNCHANGED phase, NEW t \in Threads, NEW k \in Keys, Find(t, k)
  PROVE  TableInv'
<1>1. UNCHANGED <<table, disk, tuned, cuts, phase>> /\ DOMAIN access = Threads /\ DOMAIN ran = Threads
  BY DEF Find, TableInv
<1>2. \A f, c : GoodTable(f, c)' <=> GoodTable(f, c)
  BY <1>1 DEF GoodTable, SpoiltIn, CutFrom, WasTuned
<1>3. \A a : GoodAccess(a)' <=> GoodAccess(a)
  BY <1>1 DEF GoodAccess, WasTuned
<1>4. \A r : GoodRun(r)' <=> GoodRun(r)
  BY <1>1 DEF GoodRun, WasTuned, CutFrom
<1>5. CASE Name(k) \in DOMAIN table
  <2>1. PICK a : a = [kind |-> "found", key |-> k]
    OBVIOUS
  <2>2. access' = [access EXCEPT ![t] = a] /\ UNCHANGED ran
    BY <1>5, <2>1 DEF Find
  <2>3. GoodAccess(a)
    BY <1>5, <2>1 DEF GoodAccess, FoundType
  <2> QED BY <1>1, <1>2, <1>3, <1>4, <2>2, <2>3 DEF TableInv
<1>6. CASE Name(k) \notin DOMAIN table
  <2>1. PICK r : r = [key |-> k, params |-> Default]
    OBVIOUS
  <2>2. ran' = [ran EXCEPT ![t] = r] /\ UNCHANGED access
    BY <1>6, <2>1 DEF Find, Ran
  <2>3. GoodRun(r)
    BY <2>1 DEF GoodRun
  <2> QED BY <1>1, <1>2, <1>3, <1>4, <2>2, <2>3 DEF TableInv
<1> QED BY <1>5, <1>6

(* What was found is still there, and an entry that was not tuned is one   *)
(* that a cut has spoilt.                                                  *)
LEMMA GetKeeps ==
  ASSUME TableInv, phase = "up", phase' \in {"up", "ending"}, NEW t \in Threads, Get(t)
  PROVE  TableInv'
<1>1. /\ UNCHANGED <<disk, tuned, cuts>> /\ access' = [access EXCEPT ![t] = Idle]
      /\ GoodTable(table, cuts) /\ cuts \in Nat /\ DOMAIN access = Threads /\ DOMAIN ran = Threads
      /\ GoodAccess(access[t]) /\ access[t].kind = "found"
  BY DEF Get, TableInv
<1>2. PICK k \in Keys : k = access[t].key /\ Name(k) \in DOMAIN table
  BY <1>1, AccessTypes
<1>3. PICK p : p = table[Name(k)]
  OBVIOUS
<1>4. PICK r : r = [key |-> k, params |-> p]
  OBVIOUS
<1>5. table' = Put(table, Name(k), p) /\ ran' = [ran EXCEPT ![t] = r]
  BY <1>2, <1>3, <1>4 DEF Get, Ran
<1>6. table' = table
  <2>1. table = [n \in DOMAIN table |-> table[n]] /\ DOMAIN table \cup {Name(k)} = DOMAIN table
    BY <1>1, <1>2 DEF GoodTable
  <2> QED BY <1>3, <1>5, <2>1 DEF Put
<1>7. GoodRun(r)
  <2>1. CASE WasTuned(k, p)
    BY <1>4, <2>1 DEF GoodRun
  <2>2. CASE ~WasTuned(k, p)
    <3>1. k \in SpoiltIn(table)
      BY <1>2, <1>3, <2>2 DEF SpoiltIn
    <3>2. CutFrom(k, p)
      BY <1>1, <1>3, <3>1 DEF GoodTable
    <3>3. Cardinality(SpoiltIn(table)) # 0 /\ Cardinality(SpoiltIn(table)) \in Nat
      BY <3>1, SpoiltFinite, FS_EmptySet
    <3>4. cuts > 0
      BY <1>1, <3>3 DEF GoodTable
    <3> QED BY <1>4, <3>2, <3>4 DEF GoodRun
  <2> QED BY <2>1, <2>2
<1>8. \A f, c : GoodTable(f, c)' <=> GoodTable(f, c)
  BY <1>1 DEF GoodTable, SpoiltIn, CutFrom, WasTuned
<1>9. \A a : GoodAccess(a) => GoodAccess(a)'
  BY <1>1, <1>6 DEF GoodAccess, WasTuned
<1>10. GoodAccess(Idle)'
  BY DEF GoodAccess
<1>11. \A s : GoodRun(s)' <=> GoodRun(s)
  BY <1>1 DEF GoodRun, WasTuned, CutFrom
<1> QED BY <1>1, <1>5, <1>6, <1>7, <1>8, <1>9, <1>10, <1>11 DEF TableInv
-----------------------------------------------------------------------------
(* The end of a process leaves the file, and nobody at the table.          *)
LEMMA TableKept ==
  ASSUME TableInv, Gone, cuts' \in Nat, GoodTable(ReadRunParameters(disk), cuts')
  PROVE  TableInv'
<1>1. /\ phase' = "down" /\ table' = <<>> /\ UNCHANGED <<disk, tuned>>
      /\ access' = [t \in Threads |-> Idle] /\ ran' = [t \in Threads |-> NotRun]
  BY DEF Gone
<1>2. tuned' \subseteq Keys \X Seq(Nat) /\ DOMAIN access' = Threads /\ DOMAIN ran' = Threads
  BY <1>1 DEF TableInv
<1>3. \A f, c : GoodTable(f, c)' <=> GoodTable(f, c)
  BY <1>1 DEF GoodTable, SpoiltIn, CutFrom, WasTuned
<1>4. GoodTable(table, cuts)'
  <2>1. GoodTable(<<>>, cuts')
    BY EmptyTable
  <2>2. GoodTable(table', cuts')
    BY <1>1, <2>1
  <2> QED BY <1>3, <2>2
<1>5. GoodTable(ReadRunParameters(disk), cuts)'
  <2>1. PICK f, c : f = ReadRunParameters(disk) /\ c = cuts'
    OBVIOUS
  <2>2. ReadRunParameters(disk)' = f
    BY <1>1, <2>1
  <2>3. GoodTable(f, c)'
    BY <1>3, <2>1
  <2> QED BY <2>1, <2>2, <2>3
<1>6. ASSUME NEW t \in Threads PROVE GoodAccess(access[t])' /\ GoodRun(ran[t])' /\ access'[t] = Idle
  BY <1>1, <1>6 DEF GoodAccess, GoodRun
<1> QED BY <1>1, <1>2, <1>4, <1>5, <1>6 DEF TableInv

LEMMA KilledKeeps ==
  ASSUME TableInv, Killed
  PROVE  TableInv'
<1>1. Gone /\ cuts' = (IF phase = "writing" /\ ~Written(disk) THEN cuts + 1 ELSE cuts)
  BY DEF Killed
<1>2. cuts \in Nat /\ cuts' \in Nat /\ tuned \subseteq Keys \X Seq(Nat) /\ GoodTable(table, cuts)
  BY <1>1 DEF TableInv
<1>3. CASE phase = "writing"
  <2>1. GoodTable(ReadRunParameters(disk), IF Written(disk) THEN cuts ELSE cuts + 1)
    BY <1>2, <1>3, ReadIsGood DEF TableInv
  <2> QED BY <1>1, <1>2, <1>3, <2>1, TableKept
<1>4. CASE phase # "writing"
  <2>1. GoodTable(ReadRunParameters(disk), cuts)
    BY <1>4 DEF TableInv
  <2> QED BY <1>1, <1>2, <1>4, <2>1, TableKept
<1> QED BY <1>3, <1>4

LEMMA ExitKeeps ==
  ASSUME TableInv, Exit
  PROVE  TableInv'
<1>1. phase = "up" /\ cuts \in Nat /\ GoodTable(table, cuts) /\ GoodTable(ReadRunParameters(disk), cuts)
  BY DEF Exit, TableInv
<1>2. CASE settings.path
  <2>1. /\ phase' = "writing" /\ UNCHANGED <<table, access, ran, tuned, cuts>>
        /\ \E o \in Listings(table) : disk' = [count |-> Len(o), entries |-> o, whole |-> 0, words |-> 0]
    BY <1>2 DEF Exit
  <2>2. Listed(disk', table)
    <3>1. PICK f, c : f = table /\ c = cuts
      OBVIOUS
    <3>2. PICK o \in Listings(f) : disk' = [count |-> Len(o), entries |-> o, whole |-> 0, words |-> 0]
      BY <2>1, <3>1
    <3>3. GoodTable(f, c)
      BY <1>1, <3>1
    <3>4. Listed([count |-> Len(o), entries |-> o, whole |-> 0, words |-> 0], f)
      BY <3>3, BegunIsListed
    <3> QED BY <3>1, <3>2, <3>4
  <2>3. Listed(disk, table)'
    BY <2>1, <2>2
  <2>4. \A f, c : GoodTable(f, c)' <=> GoodTable(f, c)
    BY <2>1 DEF GoodTable, SpoiltIn, CutFrom, WasTuned
  <2>5. \A a : GoodAccess(a)' <=> GoodAccess(a)
    BY <2>1 DEF GoodAccess, WasTuned
  <2>6. \A r : GoodRun(r)' <=> GoodRun(r)
    BY <2>1 DEF GoodRun, WasTuned, CutFrom
  <2> QED BY <2>1, <2>3, <2>4, <2>5, <2>6 DEF TableInv
<1>3. CASE ~settings.path
  BY <1>1, <1>3, TableKept DEF Exit
<1> QED BY <1>2, <1>3

LEMMA WriteKeeps ==
  ASSUME TableInv, Write
  PROVE  TableInv'
<1>1. /\ phase = "writing" /\ cuts \in Nat /\ tuned \subseteq Keys \X Seq(Nat)
      /\ GoodTable(table, cuts) /\ Listed(disk, table)
  BY DEF Write, TableInv
<1>2. CASE Written(disk)
  <2>1. Gone /\ UNCHANGED cuts
    BY <1>2 DEF Write
  <2>2. GoodTable(ReadRunParameters(disk), cuts)
    BY <1>1, <1>2, ReadIsGood
  <2> QED BY <1>1, <2>1, <2>2, TableKept
<1>3. CASE ~Written(disk)
  <2>1. disk' = WriteWord(disk) /\ UNCHANGED <<table, access, ran, tuned, cuts, phase>>
    BY <1>3 DEF Write, ownVars
  <2>2. Listed(disk, table)'
    BY <1>1, <1>3, <2>1, WriteKeepsListed
  <2>3. \A f, c : GoodTable(f, c)' <=> GoodTable(f, c)
    BY <2>1 DEF GoodTable, SpoiltIn, CutFrom, WasTuned
  <2>4. \A a : GoodAccess(a)' <=> GoodAccess(a)
    BY <2>1 DEF GoodAccess, WasTuned
  <2>5. \A r : GoodRun(r)' <=> GoodRun(r)
    BY <2>1 DEF GoodRun, WasTuned, CutFrom
  <2> QED BY <1>1, <2>1, <2>2, <2>3, <2>4, <2>5 DEF TableInv
<1> QED BY <1>2, <1>3

(* The next process starts with what the file is read as.                  *)
LEMMA RestartKeeps ==
  ASSUME TableInv, Restart
  PROVE  TableInv'
<1>1. /\ phase = "down" /\ phase' = "up" /\ table' = ReadRunParameters(disk)
      /\ UNCHANGED <<disk, access, ran, tuned, cuts>>
  BY DEF Restart
<1>2. GoodTable(ReadRunParameters(disk), cuts) /\ \A t \in Threads : access[t] = Idle
  BY <1>1 DEF TableInv
<1>3. \A f, c : GoodTable(f, c)' <=> GoodTable(f, c)
  BY <1>1 DEF GoodTable, SpoiltIn, CutFrom, WasTuned
<1>4. GoodTable(table, cuts)' /\ GoodTable(ReadRunParameters(disk), cuts)'
  <2>1. PICK f, c : f = ReadRunParameters(disk) /\ c = cuts
    OBVIOUS
  <2>2. ReadRunParameters(disk)' = f
    BY <1>1, <2>1
  <2>3. GoodTable(f, c)'
    BY <1>2, <1>3, <2>1
  <2> QED BY <1>1, <2>1, <2>2, <2>3
<1>5. \A r : GoodRun(r)' <=> GoodRun(r)
  BY <1>1 DEF GoodRun, WasTuned, CutFrom
<1>6. GoodAccess(Idle)'
  BY DEF GoodAccess
<1> QED BY <1>1, <1>2, <1>4, <1>5, <1>6 DEF TableInv

LEMMA TableInit == Init => TableInv
<1> SUFFICES ASSUME Init PROVE TableInv
  OBVIOUS
<1>1. /\ table = <<>> /\ disk = EmptyFile /\ tuned = {} /\ cuts = 0 /\ phase = "up"
      /\ access = [t \in Threads |-> Idle] /\ ran = [t \in Threads |-> NotRun]
  BY DEF Init, TunerInit
<1>2. GoodTable(table, cuts)
  <2>1. GoodTable(<<>>, 0)
    BY EmptyTable
  <2> QED BY <1>1, <2>1
<1>3. Listed(disk, table)
  <2>1. PICK e \in Seq(EntryType) : e = <<>>
    BY EmptySeq
  <2>2. Len(e) = 0
    BY <2>1
  <2>3. PICK d : d = [count |-> 0, entries |-> e, whole |-> 0, words |-> 0]
    OBVIOUS
  <2>4. d \in FileType /\ d.count = 0 /\ d.entries = e /\ d.whole = 0
    BY <2>3 DEF FileType
  <2>5. Listed(d, table)
    BY <2>2, <2>4 DEF Listed
  <2> QED BY <1>1, <2>1, <2>3, <2>5 DEF EmptyFile
<1>4. GoodTable(ReadRunParameters(disk), cuts)
  <2>1. Written(disk)
    BY <1>1 DEF Written, EmptyFile
  <2>2. cuts \in Nat /\ tuned \subseteq Keys \X Seq(Nat)
    BY <1>1
  <2> QED BY <1>2, <1>3, <2>1, <2>2, ReadIsGood
<1>5. \A t \in Threads : GoodAccess(access[t]) /\ GoodRun(ran[t])
  BY <1>1 DEF GoodAccess, GoodRun
<1> QED BY <1>1, <1>2, <1>4, <1>5 DEF TableInv

LEMMA TableNext == TableInv /\ [Next]_vars => TableInv'
<1> SUFFICES ASSUME TableInv, [Next]_vars PROVE TableInv'
  OBVIOUS
<1>1. ASSUME NEW t \in Threads, Step(t) PROVE TableInv'
  <2>1. CASE TuneKernel(t)
    BY <2>1, TuneKeeps DEF TuneKernel, On, GpuOnly, ownVars
  <2>2. CASE StoreTuned(t)
    BY <2>2, StoreKeeps DEF StoreTuned, On, GpuOnly, ownVars
  <2>3. CASE FindTuned(t)
    BY <2>3, FindKeeps DEF FindTuned, On, GpuOnly, ownVars
  <2>4. CASE GetTuned(t)
    BY <2>4, GetKeeps DEF GetTuned, On
  <2>5. CASE DestroyUnused(t)
    BY <2>5, TableUnchanged DEF DestroyUnused, On
  <2>6. CASE Create(t) \/ LoadModelData(t) \/ LoadModelTensor(t) \/ RunInit(t) \/ Destroy(t)
    BY <2>6, TableUnchanged DEF Create, LoadModelData, LoadModelTensor, RunInit, Destroy, OwnOnly
  <2>7. CASE StartDsp(t) \/ SendConstList(t) \/ SendOpList(t) \/ PrepareDsp(t) \/ DestroyDsp(t)
    BY <2>7, TableUnchanged DEF StartDsp, SendConstList, SendOpList, PrepareDsp, DestroyDsp, DspOnly, ownVars
  <2>8. CASE SetPolicy(t) \/ RunOnCpu(t)
    BY <2>8, TableUnchanged DEF SetPolicy, RunOnCpu, CpuOnly, ownVars
  <2>9. CASE BindingFails(t)
    BY <2>9, TableUnchanged DEF BindingFails
  <2> QED BY <1>1, <2>1, <2>2, <2>3, <2>4, <2>5, <2>6, <2>7, <2>8, <2>9 DEF Step
<1>2. CASE Over \/ UNCHANGED vars
  BY <1>2, TableUnchanged DEF Over, vars, ownVars
<1> QED BY <1>1, <1>2, ExitKeeps, WriteKeeps, KilledKeeps, RestartKeeps DEF Next

(* The table and what its file would be read as hold what was tuned, but   *)
(* for one entry per cut.                                                  *)
THEOREM TableHolds == Spec => []TableInv
BY TableInit, TableNext, PTL DEF Spec

(* For any number of threads that tune and run at the same time, and of    *)
(* processes killed at any word of the file: a kernel of the GPU runs with *)
(* its default, with what was tuned for it, or with the beginning of that  *)
(* if a file was cut off; and no cut spoils two entries.                   *)
THEOREM TunedKernelsRun == Spec => []KernelsRunTuned
<1>1. TableInv => KernelsRunTuned
  <2>1. Spoilt = SpoiltIn(table)
    BY DEF Spoilt, SpoiltIn
  <2> QED BY <2>1 DEF KernelsRunTuned, TableInv, GoodTable, GoodRun
<1> QED BY <1>1, TableHolds, PTL
=============================================================================
