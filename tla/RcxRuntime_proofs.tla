-------------------------- MODULE RcxRuntime_proofs --------------------------
(***************************************************************************)
(* Proofs about RcxRuntime, for any goroutines, nodes and operations.      *)
(***************************************************************************)
EXTENDS RcxRuntime, TLAPS

-----------------------------------------------------------------------------
(* The inductive invariant.                                                *)

\* An applyConfig is at one of the steps P.
Applying(P) == \E c \in Calls : call[c].op = "apply" /\ call[c].at \in P

\* A call that sets or saves a layer has one, and a pick has its node.
CarryInv ==
    \A c \in Calls :
      /\ call[c].op = "user" \/ call[c].at = "save" => call[c].layer # None
      /\ call[c].op = "pick" => call[c].node \in Nodes

\* configMu: one applyConfig at a time.
OneApply ==
    \A b, c \in Calls :
      (/\ call[b].op = "apply" /\ call[b].at # "rest"
       /\ call[c].op = "apply" /\ call[c].at # "rest") => b = c

\* Configs and subscriptions only get newer, on their way to mihomo's and
\* rcxMu's variables, through the refresh and into the engine.
OrderInv ==
    /\ config <= version /\ rcxSubscription <= version
    /\ \A c \in Calls :
         call[c].op = "apply" /\ call[c].at \in {"hub", "store"} =>
           /\ call[c].at = "hub" => config < call[c].config
           /\ rcxSubscription < call[c].config
           /\ call[c].config <= version
           /\ call[c].layer \in {None, call[c].config}
    /\ engine.config <= config /\ engine.sub <= rcxSubscription
    /\ refresh.at \in {"layers", "build", "set"} =>
         engine.config <= refresh.config /\ refresh.config <= config
    /\ refresh.at \in {"build", "set"} =>
         engine.sub <= refresh.sub /\ refresh.sub <= rcxSubscription

\* The engine has the topology that is applied, or a refresh that has still to
\* read it is owed or on its way, or carries it.
TopologyInv ==
    /\ \/ engine.config = config
       \/ wanted
       \/ Applying({"store", "save", "request"})
       \/ refresh.at \in {"ready", "proxies"}
       \/ refresh.at \in {"layers", "build", "set"} /\ refresh.config = config
    /\ \/ engine.sub = rcxSubscription
       \/ wanted
       \/ Applying({"save", "request"})
       \/ refresh.at \in {"ready", "proxies", "layers"}
       \/ refresh.at \in {"build", "set"} /\ refresh.sub = rcxSubscription

\* While only configs set layers, a layer is not newer than the subscription
\* it is held with: in rcxMu's variables, in the refresh, in the engine.
TravelInv ==
    plain =>
      /\ created
      /\ \A c \in Calls : call[c].op = "user" => call[c].at = "rest"
      /\ rcxUser = 1 \/ rcxUser <= rcxSubscription
      /\ (refresh.at \in {"build", "set"} /\ refresh.user # None) =>
           refresh.user = 1 \/ refresh.user <= refresh.sub
      /\ engine.user = 1 \/ engine.user <= engine.sub

\* A waiting layer will be taken by a refresh.
Coming ==
    /\ rcxUserPending
    /\ \/ wanted
       \/ Applying({"save", "request"})
       \/ refresh.at \in {"ready", "proxies", "layers"}

\* While only configs set layers, the one in force is on disk or about to be,
\* and in the engine or on its way there.
StandInv ==
    plain =>
      /\ \A c \in Calls : call[c].op = "apply" /\ call[c].at = "save" => call[c].layer = rcxUser
      /\ saved = rcxUser \/ Applying({"save"})
      /\ \/ engine.user = rcxUser
         \/ Coming
         \/ refresh.at \in {"build", "set"} /\ refresh.user = rcxUser
      /\ (refresh.at \in {"build", "set"} /\ refresh.user # None) =>
           refresh.user = rcxUser \/ Coming

RuntimeInv == OneApply /\ OrderInv /\ TopologyInv /\ TravelInv /\ StandInv

-----------------------------------------------------------------------------
(* What the steps leave alone.                                             *)

Places == {"rest", "hub", "store", "save", "ready", "engine", "request", "set", "note"}

\* A step of the engine under its lock moves the group, nothing else.
LEMMA EngineKeeps ==
  ASSUME NEW e \in Engine, NEW d, selector \in Nodes, EngineStep(e, d)
  PROVE  /\ engine' \in Engine
         /\ selector' \in Nodes
         /\ engine'.config = e.config
         /\ engine'.sub = e.sub
         /\ engine'.user = e.user
<1>1. PICK k \in Settled(e.now, e.pin, d) :
        /\ engine' = [e EXCEPT !.now = k]
        /\ selector' = IF k # e.now THEN k ELSE selector
  BY DEF EngineStep
<1>2. k \in Nodes \cup {None} /\ (k # e.now => k \in Nodes)
  BY DEF Settled, Engine
<1> QED
  BY <1>1, <1>2 DEF Engine

\* A call goes on, and nothing else about any call changes.
LEMMA GotoKeeps ==
  ASSUME call \in [Calls -> Call], NEW c \in Calls, NEW place \in Places, Goto(c, place)
  PROVE  /\ call' \in [Calls -> Call]
         /\ \A b \in Calls \ {c} : call'[b] = call[b]
         /\ call'[c].op = call[c].op
         /\ call'[c].layer = call[c].layer
         /\ call'[c].config = call[c].config
         /\ call'[c].node = call[c].node
         /\ call'[c].at = place
BY DEF Goto, Call, Places

\* An engine record stays one whatever a single field is set to.
LEMMA EngineField ==
  ASSUME NEW e \in Engine
  PROVE  /\ \A v \in Versions : [e EXCEPT !.config = v] \in Engine
         /\ \A v \in Versions : [e EXCEPT !.sub = v] \in Engine
         /\ \A v \in Versions : [e EXCEPT !.user = v] \in Engine
         /\ \A n \in Nodes \cup {None} : [e EXCEPT !.now = n] \in Engine
         /\ \A n \in Nodes \cup {None} : [e EXCEPT !.pin = n] \in Engine
BY DEF Engine

\* SetTopology gives the engine the topology of the refresh, and the layer it
\* carries.
LEMMA HandOver ==
  ASSUME TypeOK, SetTopology
  PROVE  /\ engine' \in Engine
         /\ selector' \in Nodes
         /\ engine'.config = refresh.config
         /\ engine'.sub = refresh.sub
         /\ engine'.user = EngineLayer(refresh)
<1> DEFINE t1 == [engine EXCEPT !.config = refresh.config]
           t2 == [t1 EXCEPT !.sub = refresh.sub]
           t3 == [t2 EXCEPT !.user = EngineLayer(refresh)]
           t4 == [t3 EXCEPT !.now = refresh.now]
<1>0. /\ engine \in Engine /\ selector \in Nodes
      /\ refresh.config \in Versions /\ refresh.sub \in Versions /\ refresh.user \in Layer
      /\ refresh.now \in Nodes \cup {None} /\ engine.user \in Versions
  BY DEF TypeOK, Refreshing, Engine
<1>1. EngineLayer(refresh) \in Versions
  BY <1>0 DEF EngineLayer, Layer
<1>2. EngineStep(t4, down)
  BY DEF SetTopology
<1>3. t1 \in Engine /\ t1.config = refresh.config
  BY <1>0 DEF Engine
<1> HIDE DEF t1
<1>4. t2 \in Engine /\ t2.config = refresh.config /\ t2.sub = refresh.sub
  BY <1>0, <1>3 DEF Engine
<1> HIDE DEF t2
<1>5. t3 \in Engine /\ t3.config = refresh.config /\ t3.sub = refresh.sub /\ t3.user = EngineLayer(refresh)
  BY <1>1, <1>4 DEF Engine
<1> HIDE DEF t3
<1>6. t4 \in Engine /\ t4.config = refresh.config /\ t4.sub = refresh.sub /\ t4.user = EngineLayer(refresh)
  BY <1>0, <1>5 DEF Engine
<1> HIDE DEF t4
<1> QED
  BY <1>0, <1>2, <1>6, EngineKeeps

\* What NoteManualPick hands to the engine.
LEMMA PickRecord ==
  ASSUME NEW e \in Engine, NEW n \in Nodes \cup {None}
  PROVE  LET t == [e EXCEPT !.now = n, !.pin = n]
         IN  t \in Engine /\ t.config = e.config /\ t.sub = e.sub /\ t.user = e.user
<1> DEFINE t1 == [e EXCEPT !.now = n]
           t2 == [t1 EXCEPT !.pin = n]
<1>1. t2 = [e EXCEPT !.now = n, !.pin = n]
  OBVIOUS
<1>2. t1 \in Engine /\ t1.config = e.config /\ t1.sub = e.sub /\ t1.user = e.user
  BY DEF Engine
<1> HIDE DEF t1
<1>3. t2 \in Engine /\ t2.config = e.config /\ t2.sub = e.sub /\ t2.user = e.user
  BY <1>2 DEF Engine
<1> QED
  BY <1>1, <1>3

\* A call that begins.
LEMMA NewCall ==
  ASSUME NEW n \in Nodes, NEW v \in Versions
  PROVE  /\ [NoCall EXCEPT !.op = "user", !.at = "store", !.layer = v]
              = [op |-> "user", layer |-> v, config |-> 0, node |-> None, at |-> "store"]
         /\ [NoCall EXCEPT !.op = "pick", !.at = "set", !.node = n]
              = [op |-> "pick", layer |-> None, config |-> 0, node |-> n, at |-> "set"]
<1> DEFINE a1 == [op |-> "user", layer |-> None, config |-> 0, node |-> None, at |-> "rest"]
           a2 == [op |-> "user", layer |-> None, config |-> 0, node |-> None, at |-> "store"]
           b1 == [op |-> "pick", layer |-> None, config |-> 0, node |-> None, at |-> "rest"]
           b2 == [op |-> "pick", layer |-> None, config |-> 0, node |-> None, at |-> "set"]
<1>1. [NoCall EXCEPT !.op = "user"] = a1 /\ [NoCall EXCEPT !.op = "pick"] = b1
  BY DEF NoCall
<1>2. [a1 EXCEPT !.at = "store"] = a2 /\ [b1 EXCEPT !.at = "set"] = b2
  OBVIOUS
<1>3. /\ [a2 EXCEPT !.layer = v] = [op |-> "user", layer |-> v, config |-> 0, node |-> None, at |-> "store"]
      /\ [b2 EXCEPT !.node = n] = [op |-> "pick", layer |-> None, config |-> 0, node |-> n, at |-> "set"]
  OBVIOUS
<1> HIDE DEF a1, a2, b1, b2
<1> QED
  BY <1>1, <1>2, <1>3

\* The call that an operation begins, with the version it takes.
LEMMA Begun ==
  ASSUME TypeOK, NEW c \in Calls
  PROVE  /\ Apply(c) \/ SetUser(c) => version' \in Versions /\ version' = version + 1
         /\ Apply(c) => \E layer \in {None, version'} :
              call' = [call EXCEPT ![c] = [op |-> "apply", layer |-> layer, config |-> version',
                                           node |-> None, at |-> "hub"]]
         /\ SetUser(c) =>
              call' = [call EXCEPT ![c] = [op |-> "user", layer |-> version', config |-> 0,
                                           node |-> None, at |-> "store"]]
         /\ \A k \in Nodes : Pick(c, k) =>
              call' = [call EXCEPT ![c] = [op |-> "pick", layer |-> None, config |-> 0,
                                           node |-> k, at |-> "set"]]
<1>0. selector \in Nodes /\ version \in Nat /\ 0 \in Versions
  BY RuntimeAssumption DEF TypeOK, Versions
<1>1. Apply(c) \/ SetUser(c) => version' \in Versions /\ version' = version + 1
  BY <1>0, RuntimeAssumption DEF Apply, SetUser, Versions
<1>2. ASSUME Apply(c)
      PROVE  \E layer \in {None, version'} :
               call' = [call EXCEPT ![c] = [op |-> "apply", layer |-> layer, config |-> version',
                                            node |-> None, at |-> "hub"]]
  BY <1>2, ZenonT(40) DEF Apply, NoCall
<1>3. ASSUME SetUser(c)
      PROVE  call' = [call EXCEPT ![c] = [op |-> "user", layer |-> version', config |-> 0,
                                          node |-> None, at |-> "store"]]
  <2>1. version' \in Versions
    BY <1>1, <1>3
  <2> QED
    BY <1>0, <1>3, <2>1, NewCall DEF SetUser
<1>4. ASSUME NEW k \in Nodes, Pick(c, k)
      PROVE  call' = [call EXCEPT ![c] = [op |-> "pick", layer |-> None, config |-> 0,
                                          node |-> k, at |-> "set"]]
  BY <1>0, <1>4, NewCall DEF Pick
<1> QED
  BY <1>1, <1>2, <1>3, <1>4

-----------------------------------------------------------------------------
(* Type correctness.                                                       *)

\* A refresh goes on with one more thing read.
LEMMA RefreshField ==
  ASSUME refresh \in Refreshing
  PROVE  /\ [refresh EXCEPT !.at = "proxies"] \in Refreshing
         /\ [refresh EXCEPT !.moved = FALSE] \in Refreshing
         /\ \A v \in Versions : [refresh EXCEPT !.at = "layers", !.config = v] \in Refreshing
         /\ \A n \in Nodes \cup {None} : [refresh EXCEPT !.at = "set", !.now = n] \in Refreshing
         /\ \A b \in BOOLEAN : [refresh EXCEPT !.at = "again", !.moved = b] \in Refreshing
         /\ \A v \in Versions, u \in Layer :
              [refresh EXCEPT !.at = "build", !.sub = v, !.user = u] \in Refreshing
<1>1. ASSUME NEW p \in {"proxies", "layers", "set", "again", "build"}
      PROVE  [refresh EXCEPT !.at = p] \in Refreshing
  BY DEF Refreshing
<1>2. ASSUME NEW v \in Versions PROVE [refresh EXCEPT !.at = "layers", !.config = v] \in Refreshing
  <2> DEFINE r == [refresh EXCEPT !.at = "layers"]
  <2>1. r \in Refreshing
    BY <1>1
  <2>2. [r EXCEPT !.config = v] = [refresh EXCEPT !.at = "layers", !.config = v]
    OBVIOUS
  <2> HIDE DEF r
  <2>3. [r EXCEPT !.config = v] \in Refreshing
    BY <2>1 DEF Refreshing
  <2> QED
    BY <2>2, <2>3
<1>3. ASSUME NEW n \in Nodes \cup {None} PROVE [refresh EXCEPT !.at = "set", !.now = n] \in Refreshing
  <2> DEFINE r == [refresh EXCEPT !.at = "set"]
  <2>1. r \in Refreshing
    BY <1>1
  <2>2. [r EXCEPT !.now = n] = [refresh EXCEPT !.at = "set", !.now = n]
    OBVIOUS
  <2> HIDE DEF r
  <2>3. [r EXCEPT !.now = n] \in Refreshing
    BY <2>1 DEF Refreshing
  <2> QED
    BY <2>2, <2>3
<1>4. ASSUME NEW b \in BOOLEAN PROVE [refresh EXCEPT !.at = "again", !.moved = b] \in Refreshing
  <2> DEFINE r == [refresh EXCEPT !.at = "again"]
  <2>1. r \in Refreshing
    BY <1>1
  <2>2. [r EXCEPT !.moved = b] = [refresh EXCEPT !.at = "again", !.moved = b]
    OBVIOUS
  <2> HIDE DEF r
  <2>3. [r EXCEPT !.moved = b] \in Refreshing
    BY <2>1 DEF Refreshing
  <2> QED
    BY <2>2, <2>3
<1>5. ASSUME NEW v \in Versions, NEW u \in Layer
      PROVE  [refresh EXCEPT !.at = "build", !.sub = v, !.user = u] \in Refreshing
  <2> DEFINE r == [refresh EXCEPT !.at = "build"]
             s == [r EXCEPT !.sub = v]
  <2>1. r \in Refreshing
    BY <1>1
  <2>2. [s EXCEPT !.user = u] = [refresh EXCEPT !.at = "build", !.sub = v, !.user = u]
    OBVIOUS
  <2> HIDE DEF r
  <2>3. s \in Refreshing
    BY <2>1 DEF Refreshing
  <2> HIDE DEF s
  <2>4. [s EXCEPT !.user = u] \in Refreshing
    BY <2>3 DEF Refreshing
  <2> QED
    BY <2>2, <2>4
<1>6. [refresh EXCEPT !.moved = FALSE] \in Refreshing
  BY DEF Refreshing
<1> QED
  BY <1>1, <1>2, <1>3, <1>4, <1>5, <1>6

\* Every step of a method call keeps the types.
LEMMA CallType ==
  ASSUME TypeOK, CarryInv, NEW c \in Calls, CallStep(c)
  PROVE  TypeOK'
<1>0. /\ call \in [Calls -> Call] /\ call[c] \in Call /\ engine \in Engine /\ selector \in Nodes
      /\ call[c].config \in Versions /\ call[c].layer \in Layer /\ call[c].node \in Nodes \cup {None}
  BY DEF TypeOK, Call
<1>1. CASE ApplyHub(c)
  BY <1>0, <1>1, GotoKeeps DEF ApplyHub, TypeOK, Places
<1>2. CASE rcxApplyConfig(c)
  <2>1. AfterStore(call[c].layer) \in Places /\ Waits(call[c].layer) \in BOOLEAN
    BY DEF AfterStore, Waits, Places, TypeOK
  <2>2. call' \in [Calls -> Call]
    BY <1>0, <1>2, <2>1, GotoKeeps DEF rcxApplyConfig
  <2>3. rcxUser' \in Versions
    BY <1>0, <1>2 DEF rcxApplyConfig, TypeOK, Layer
  <2> QED
    BY <1>0, <1>2, <2>1, <2>2, <2>3 DEF rcxApplyConfig, TypeOK
<1>3. CASE rcxSaveUser(c)
  <2>1. call' \in [Calls -> Call]
    BY <1>0, <1>3, GotoKeeps DEF rcxSaveUser, Places
  <2>2. saved' \in Versions
    BY <1>0, <1>3 DEF rcxSaveUser, At, CarryInv, Layer
  <2> QED
    BY <1>3, <2>1, <2>2 DEF rcxSaveUser, TypeOK
<1>4. CASE Request(c)
  BY <1>0, <1>4, GotoKeeps DEF Request, TypeOK, Places, Owed
<1>5. CASE SetUserStore(c)
  <2>1. call' \in [Calls -> Call]
    BY <1>0, <1>5, GotoKeeps DEF SetUserStore, Places
  <2>2. rcxUser' \in Versions
    BY <1>0, <1>5 DEF SetUserStore, At, CarryInv, Layer
  <2> QED
    BY <1>5, <2>1, <2>2 DEF SetUserStore, TypeOK
<1>6. CASE SetUserReady(c)
  <2>1. call' \in [Calls -> Call]
    BY <1>0, <1>6, GotoKeeps DEF SetUserReady, Places
  <2>2. created' \in BOOLEAN /\ rcxUser' \in Versions /\ engine' \in Engine
    BY <1>0, <1>6, EngineField DEF SetUserReady, rcxReady, TypeOK
  <2> QED
    BY <1>6, <2>1, <2>2 DEF SetUserReady, TypeOK
<1>7. CASE SetUserEngine(c)
  <2>1. call' \in [Calls -> Call]
    BY <1>0, <1>7, GotoKeeps DEF SetUserEngine, Places
  <2>2. call[c].layer \in Versions
    BY <1>0, <1>7 DEF SetUserEngine, At, CarryInv, Layer
  <2>3. engine' \in Engine /\ selector' \in Nodes
    BY <1>0, <1>7, <2>2, EngineField, EngineKeeps DEF SetUserEngine
  <2> QED
    BY <1>7, <2>1, <2>3 DEF SetUserEngine, TypeOK
<1>8. CASE changeProxy(c)
  <2>1. call' \in [Calls -> Call]
    BY <1>0, <1>8, GotoKeeps DEF changeProxy, Places
  <2>2. selector' \in Nodes
    BY <1>0, <1>8 DEF changeProxy, At, CarryInv
  <2> QED
    BY <1>8, <2>1, <2>2 DEF changeProxy, TypeOK
<1>9. CASE NoteManualPick(c)
  <2>1. call' \in [Calls -> Call]
    BY <1>0, <1>9, GotoKeeps DEF NoteManualPick, Places
  <2>2. engine' \in Engine /\ selector' \in Nodes
    BY <1>0, <1>9, PickRecord, EngineKeeps DEF NoteManualPick
  <2> QED
    BY <1>9, <2>1, <2>2 DEF NoteManualPick, TypeOK
<1> QED
  BY <1>1, <1>2, <1>3, <1>4, <1>5, <1>6, <1>7, <1>8, <1>9 DEF CallStep

\* Every step of the refresh keeps the types.
LEMMA RefreshType ==
  ASSUME TypeOK, Begin \/ RefreshStep
  PROVE  TypeOK'
<1>0. /\ refresh \in Refreshing /\ engine \in Engine /\ selector \in Nodes
      /\ refresh.config \in Versions /\ refresh.sub \in Versions /\ refresh.user \in Layer
      /\ refresh.now \in Nodes \cup {None}
  BY DEF TypeOK, Refreshing
<1>1. NoRefresh \in Refreshing /\ [NoRefresh EXCEPT !.at = "ready"] \in Refreshing
  <2>1. 0 \in Versions /\ None \in Layer
    BY RuntimeAssumption DEF Versions, Layer
  <2>2. NoRefresh \in Refreshing
    BY <2>1 DEF NoRefresh, Refreshing
  <2> QED
    BY <2>2 DEF Refreshing
<1>2. CASE Begin
  <2>1. wanted' = FALSE
    BY <1>2 DEF Begin, Coalesced!Begin
  <2> QED
    BY <1>1, <1>2, <2>1 DEF Begin, TypeOK
<1>3. CASE RefreshReady
  <2>1. created' \in BOOLEAN /\ rcxUser' \in Versions /\ engine' \in Engine
    BY <1>0, <1>3, EngineField DEF RefreshReady, rcxReady, TypeOK
  <2> QED
    BY <1>0, <1>3, <2>1, RefreshField DEF RefreshReady, TypeOK
<1>4. CASE ReadProxies
  BY <1>4, RefreshField DEF ReadProxies, TypeOK
<1>5. CASE TakeLayers
  <2>1. (IF rcxUserPending THEN rcxUser ELSE None) \in Layer /\ rcxSubscription \in Versions
    BY DEF TypeOK, Layer
  <2> QED
    BY <1>0, <1>5, <2>1, RefreshField DEF TakeLayers, TypeOK
<1>6. CASE BuildTopology
  BY <1>0, <1>6, RefreshField DEF BuildTopology, TypeOK
<1>7. CASE SetTopology
  <2>2. engine' \in Engine /\ selector' \in Nodes
    BY <1>7, HandOver
  <2>3. refresh' \in Refreshing
    BY <1>0, <1>7, RefreshField DEF SetTopology
  <2> QED
    BY <1>7, <2>2, <2>3 DEF SetTopology, TypeOK
<1>8. CASE AskAgain
  BY <1>0, <1>8, RefreshField DEF AskAgain, Coalesced!Ask, TypeOK
<1>9. CASE EndRefresh
  BY <1>1, <1>9 DEF EndRefresh, Coalesced!End, TypeOK
<1> QED
  BY <1>2, <1>3, <1>4, <1>5, <1>6, <1>7, <1>8, <1>9 DEF RefreshStep

\* The rest of the steps: what begins a call, and what the engine does itself.
LEMMA OtherType ==
  ASSUME TypeOK,
         \/ FirstUse \/ Move \/ ProviderLoaded
         \/ \E k \in Nodes : Turn(k)
         \/ \E c \in Calls : Apply(c) \/ SetUser(c)
         \/ \E c \in Calls, k \in Nodes : Pick(c, k)
  PROVE  TypeOK'
<1>0. engine \in Engine /\ selector \in Nodes /\ version \in Nat /\ call \in [Calls -> Call]
  BY DEF TypeOK, Versions
<1>1. CASE FirstUse
  <2>1. created' \in BOOLEAN /\ rcxUser' \in Versions /\ engine' \in Engine
    BY <1>0, <1>1, EngineField DEF FirstUse, rcxReady, TypeOK
  <2> QED
    BY <1>1, <2>1 DEF FirstUse, TypeOK
<1>2. CASE Move
  BY <1>0, <1>2, EngineKeeps DEF Move, TypeOK
<1>3. CASE ProviderLoaded
  BY <1>3 DEF ProviderLoaded, Owed, TypeOK
<1>4. ASSUME NEW k \in Nodes, Turn(k) PROVE TypeOK'
  <2>1. engine' \in Engine /\ selector' \in Nodes
    BY <1>0, <1>4, EngineKeeps DEF Turn
  <2> QED
    BY <1>4, <2>1 DEF Turn, TypeOK
<1>5. ASSUME NEW c \in Calls, Apply(c) PROVE TypeOK'
  <2>1. version' \in Versions
    BY <1>5, Begun
  <2>2. PICK layer \in {None, version'} :
          call' = [call EXCEPT ![c] = [op |-> "apply", layer |-> layer, config |-> version',
                                       node |-> None, at |-> "hub"]]
    BY <1>5, Begun
  <2>3. call' \in [Calls -> Call]
    BY <1>0, <2>1, <2>2 DEF Call, Layer
  <2> QED
    BY <1>5, <2>1, <2>3 DEF Apply, TypeOK
<1>6. ASSUME NEW c \in Calls, SetUser(c) PROVE TypeOK'
  <2>1. version' \in Versions
    BY <1>6, Begun
  <2>2. call' = [call EXCEPT ![c] = [op |-> "user", layer |-> version', config |-> 0,
                                     node |-> None, at |-> "store"]]
    BY <1>6, Begun
  <2>3. call' \in [Calls -> Call]
    <3>1. 0 \in Versions /\ version' \in Layer
      BY <2>1, RuntimeAssumption DEF Versions, Layer
    <3> QED
      BY <1>0, <2>2, <3>1 DEF Call
  <2> QED
    BY <1>6, <2>1, <2>3 DEF SetUser, TypeOK
<1>7. ASSUME NEW c \in Calls, NEW k \in Nodes, Pick(c, k) PROVE TypeOK'
  <2>1. call' = [call EXCEPT ![c] = [op |-> "pick", layer |-> None, config |-> 0,
                                     node |-> k, at |-> "set"]]
    BY <1>7, Begun
  <2>2. call' \in [Calls -> Call]
    <3>1. 0 \in Versions /\ None \in Layer
      BY RuntimeAssumption DEF Versions, Layer
    <3> QED
      BY <1>0, <2>1, <3>1 DEF Call
  <2> QED
    BY <1>7, <2>2 DEF Pick, TypeOK
<1> QED
  BY <1>1, <1>2, <1>3, <1>4, <1>5, <1>6, <1>7

\* What a call carries stays with it.
LEMMA CarryStep ==
  ASSUME TypeOK, CarryInv, [Next]_vars
  PROVE  CarryInv'
<1>0. call \in [Calls -> Call] /\ \A c \in Calls : call[c] \in Call
  BY DEF TypeOK
<1>1. ASSUME UNCHANGED call PROVE CarryInv'
  BY <1>1 DEF CarryInv
<1>2. ASSUME NEW c \in Calls, NEW place \in Places \ {"save"}, Goto(c, place) PROVE CarryInv'
  BY <1>0, <1>2, GotoKeeps DEF CarryInv
<1>3. ASSUME NEW c \in Calls, rcxApplyConfig(c) PROVE CarryInv'
  <2>1. AfterStore(call[c].layer) \in Places /\ (AfterStore(call[c].layer) = "save" => call[c].layer # None)
    BY DEF AfterStore, Places
  <2> QED
    BY <1>0, <1>3, <2>1, GotoKeeps DEF CarryInv, rcxApplyConfig
<1>4. ASSUME NEW c \in Calls, SetUserStore(c) PROVE CarryInv'
  BY <1>0, <1>4, GotoKeeps DEF CarryInv, SetUserStore, At, Places
<1>5. ASSUME NEW c \in Calls, CallStep(c) PROVE CarryInv'
  BY <1>2, <1>3, <1>4, <1>5
     DEF CallStep, ApplyHub, rcxSaveUser, Request, SetUserReady, SetUserEngine, changeProxy,
         NoteManualPick, Places
<1>6. ASSUME NEW c \in Calls, Apply(c) PROVE CarryInv'
  <2>1. PICK layer \in {None, version'} :
          call' = [call EXCEPT ![c] = [op |-> "apply", layer |-> layer, config |-> version',
                                       node |-> None, at |-> "hub"]]
    BY <1>6, Begun
  <2> QED
    BY <1>0, <2>1 DEF CarryInv
<1>7. ASSUME NEW c \in Calls, SetUser(c) PROVE CarryInv'
  <2>1. version' # None
    BY <1>7, Begun, RuntimeAssumption DEF Versions
  <2>2. call' = [call EXCEPT ![c] = [op |-> "user", layer |-> version', config |-> 0,
                                     node |-> None, at |-> "store"]]
    BY <1>7, Begun
  <2> QED
    BY <1>0, <2>1, <2>2 DEF CarryInv
<1>8. ASSUME NEW c \in Calls, NEW k \in Nodes, Pick(c, k) PROVE CarryInv'
  <2>1. call' = [call EXCEPT ![c] = [op |-> "pick", layer |-> None, config |-> 0,
                                     node |-> k, at |-> "set"]]
    BY <1>8, Begun
  <2> QED
    BY <1>0, <2>1 DEF CarryInv
<1>9. CASE Begin \/ RefreshStep \/ FirstUse \/ Move \/ ProviderLoaded
  BY <1>1, <1>9 DEF Begin, RefreshStep, RefreshReady, ReadProxies, TakeLayers, BuildTopology,
     SetTopology, AskAgain, EndRefresh, FirstUse, Move, ProviderLoaded
<1>10. ASSUME NEW k \in Nodes, Turn(k) PROVE CarryInv'
  BY <1>1, <1>10 DEF Turn
<1>11. CASE UNCHANGED vars
  BY <1>1, <1>11 DEF vars
<1> QED
  BY <1>5, <1>6, <1>7, <1>8, <1>9, <1>10, <1>11 DEF Next

\* Every step keeps the types.
LEMMA TypeStep ==
  ASSUME TypeOK, CarryInv, [Next]_vars
  PROVE  TypeOK'
<1>1. CASE UNCHANGED vars
  BY <1>1 DEF vars, TypeOK
<1> QED
  BY <1>1, CallType, RefreshType, OtherType DEF Next

\* The core starts with the types.
LEMMA InitType == Init => TypeOK /\ CarryInv
<1> SUFFICES ASSUME Init PROVE TypeOK /\ CarryInv
  OBVIOUS
<1>1. 0 \in Versions /\ 1 \in Versions /\ None \in Layer
  BY RuntimeAssumption DEF Versions, Layer
<1>2. NoCall \in Call /\ NoRefresh \in Refreshing
  BY <1>1 DEF NoCall, NoRefresh, Call, Refreshing
<1>3. created \in BOOLEAN /\ rcxUser \in Versions
  BY <1>1 DEF Init
<1>4. engine \in Engine
  BY <1>1, <1>3 DEF Init, Engine
<1>5. CarryInv
  BY DEF Init, CarryInv, NoCall
<1> QED
  BY <1>1, <1>2, <1>3, <1>4, <1>5 DEF Init, TypeOK

\* The glue keeps its types: a saved or applied layer is always a layer, and
\* the selector always on a node (rcx_runtime.go, proxy.go).
THEOREM RuntimeTypeCorrect == Spec => []TypeOK
<1>1. TypeOK /\ CarryInv /\ [Next]_vars => (TypeOK /\ CarryInv)'
  BY TypeStep, CarryStep
<1> QED
  BY <1>1, InitType, PTL DEF Spec

-----------------------------------------------------------------------------
(* Keeping the invariant.                                                  *)

\* What a refresh holds after each of its steps.
LEMMA RefreshRead ==
  ASSUME refresh \in Refreshing, NEW v, NEW w
  PROVE  /\ [refresh EXCEPT !.at = "proxies"].at = "proxies"
         /\ [refresh EXCEPT !.at = "layers", !.config = v].at = "layers"
         /\ [refresh EXCEPT !.at = "layers", !.config = v].config = v
         /\ [refresh EXCEPT !.at = "build", !.sub = v, !.user = w].at = "build"
         /\ [refresh EXCEPT !.at = "build", !.sub = v, !.user = w].config = refresh.config
         /\ [refresh EXCEPT !.at = "build", !.sub = v, !.user = w].sub = v
         /\ [refresh EXCEPT !.at = "build", !.sub = v, !.user = w].user = w
         /\ [refresh EXCEPT !.at = "set", !.now = v].at = "set"
         /\ [refresh EXCEPT !.at = "set", !.now = v].config = refresh.config
         /\ [refresh EXCEPT !.at = "set", !.now = v].sub = refresh.sub
         /\ [refresh EXCEPT !.at = "set", !.now = v].user = refresh.user
         /\ [refresh EXCEPT !.at = "again", !.moved = v].at = "again"
         /\ [refresh EXCEPT !.moved = v].at = refresh.at
         /\ [NoRefresh EXCEPT !.at = "ready"].at = "ready"
         /\ NoRefresh.at = "rest"
BY DEF Refreshing, NoRefresh

\* A step that touches no applyConfig, no refresh and no stored topology, and
\* no layer either while only configs set layers, keeps the invariant.
LEMMA Aside ==
  ASSUME TypeOK, TypeOK', RuntimeInv,
         UNCHANGED <<config, rcxSubscription, rcxUserPending, refresh>>,
         version <= version', wanted => wanted', plain' => plain,
         engine'.config = engine.config, engine'.sub = engine.sub,
         plain' => created' /\ UNCHANGED <<rcxUser, saved>> /\ engine'.user = engine.user,
         plain' => \A c \in Calls : call'[c].op = "user" => call'[c].at = "rest",
         \A c \in Calls :
           \/ call'[c] = call[c]
           \/ /\ call[c].op # "apply" \/ call[c].at = "rest"
              /\ call'[c].op # "apply" \/ call'[c].at = "rest"
  PROVE  RuntimeInv'
<1>1. \A c \in Calls :
        /\ call[c].op = "apply" /\ call[c].at # "rest" => call'[c] = call[c]
        /\ call'[c].op = "apply" /\ call'[c].at # "rest" => call'[c] = call[c]
  OBVIOUS
<1>2. /\ Applying({"store", "save", "request"}) => Applying({"store", "save", "request"})'
      /\ Applying({"save", "request"}) => Applying({"save", "request"})'
      /\ Applying({"save"}) => Applying({"save"})'
  BY <1>1 DEF Applying
<1>3. OneApply'
  BY <1>1 DEF OneApply, RuntimeInv
<1>4. OrderInv'
  <2>1. version \in Nat /\ version' \in Nat /\ rcxSubscription \in Nat /\ config \in Nat
    BY DEF TypeOK, Versions
  <2>2. \A c \in Calls : call[c].config \in Nat
    BY DEF TypeOK, Versions, Call
  <2>3. config' <= version' /\ rcxSubscription' <= version'
    BY <2>1 DEF RuntimeInv, OrderInv
  <2>4. \A c \in Calls : call'[c].op = "apply" /\ call'[c].at \in {"hub", "store"} =>
          /\ call'[c].at = "hub" => config' < call'[c].config
          /\ rcxSubscription' < call'[c].config
          /\ call'[c].config <= version'
          /\ call'[c].layer \in {None, call'[c].config}
    BY <1>1, <2>1, <2>2 DEF RuntimeInv, OrderInv
  <2> QED
    BY <2>3, <2>4 DEF RuntimeInv, OrderInv
<1>5. TopologyInv'
  BY <1>2 DEF RuntimeInv, TopologyInv
<1>6. TravelInv'
  BY DEF RuntimeInv, TravelInv
<1>7. StandInv'
  <2>1. Coming => Coming'
    BY <1>2 DEF Coming
  <2> QED
    BY <1>1, <1>2, <2>1 DEF RuntimeInv, StandInv
<1> QED
  BY <1>3, <1>4, <1>5, <1>6, <1>7 DEF RuntimeInv

\* What the engine does by itself.
LEMMA EngineStepsKeep ==
  ASSUME TypeOK, TypeOK', RuntimeInv,
         FirstUse \/ Move \/ ProviderLoaded \/ \E k \in Nodes : Turn(k)
  PROVE  RuntimeInv'
<1>0. version \in Nat /\ engine \in Engine /\ selector \in Nodes
  BY DEF TypeOK, Versions
<1>1. plain => \A c \in Calls : call[c].op = "user" => call[c].at = "rest"
  BY DEF RuntimeInv, TravelInv
<1>2. plain => created
  BY DEF RuntimeInv, TravelInv
<1>3. CASE FirstUse
  <2>1. engine'.config = engine.config /\ engine'.sub = engine.sub
    BY <1>0, <1>3 DEF FirstUse, rcxReady, Engine
  <2> QED
    BY <1>0, <1>1, <1>2, <1>3, <2>1, Aside DEF FirstUse
<1>4. CASE Move
  <2>1. engine'.config = engine.config /\ engine'.sub = engine.sub /\ engine'.user = engine.user
    BY <1>0, <1>4, EngineKeeps DEF Move
  <2> QED
    BY <1>0, <1>1, <1>2, <1>4, <2>1, Aside DEF Move
<1>5. CASE ProviderLoaded
  BY <1>0, <1>1, <1>2, <1>5, Aside DEF ProviderLoaded, Owed
<1>6. ASSUME NEW k \in Nodes, Turn(k) PROVE RuntimeInv'
  <2>1. engine'.config = engine.config /\ engine'.sub = engine.sub /\ engine'.user = engine.user
    BY <1>0, <1>6, EngineKeeps DEF Turn
  <2> QED
    BY <1>0, <1>1, <1>2, <1>6, <2>1, Aside DEF Turn
<1> QED
  BY <1>3, <1>4, <1>5, <1>6

\* rcxSetUser and handleChangeProxy, at each of their steps.
LEMMA UserStepsKeep ==
  ASSUME TypeOK, TypeOK', RuntimeInv, CarryInv, NEW c \in Calls,
         \/ SetUser(c) \/ SetUserStore(c) \/ SetUserReady(c) \/ SetUserEngine(c)
         \/ changeProxy(c) \/ NoteManualPick(c)
         \/ \E k \in Nodes : Pick(c, k)
         \/ call[c].op # "apply" /\ rcxSaveUser(c)
         \/ call[c].op # "apply" /\ Request(c)
  PROVE  RuntimeInv'
<1>0. /\ version \in Nat /\ engine \in Engine /\ selector \in Nodes
      /\ call \in [Calls -> Call] /\ call[c] \in Call
  BY DEF TypeOK, Versions
<1>1. plain => \A b \in Calls : call[b].op = "user" => call[b].at = "rest"
  BY DEF RuntimeInv, TravelInv
<1>2. plain => created
  BY DEF RuntimeInv, TravelInv
<1>3. CASE SetUser(c)
  <2>1. call' = [call EXCEPT ![c] = [op |-> "user", layer |-> version', config |-> 0,
                                     node |-> None, at |-> "store"]]
    BY <1>3, Begun
  <2>2. \A b \in Calls :
          \/ call'[b] = call[b]
          \/ call[b].at = "rest" /\ call'[b].op # "apply"
    BY <1>0, <1>3, <2>1 DEF SetUser
  <2>3. version <= version' /\ plain' = FALSE
    BY <1>0, <1>3 DEF SetUser
  <2>4. UNCHANGED <<config, rcxSubscription, rcxUserPending, refresh, wanted, engine>>
    BY <1>3 DEF SetUser
  <2> QED
    BY <2>2, <2>3, <2>4, Aside
<1>4. ASSUME NEW k \in Nodes, Pick(c, k) PROVE RuntimeInv'
  <2>1. call' = [call EXCEPT ![c] = [op |-> "pick", layer |-> None, config |-> 0,
                                     node |-> k, at |-> "set"]]
    BY <1>4, Begun
  <2>2. \A b \in Calls :
          \/ call'[b] = call[b]
          \/ call[b].at = "rest" /\ call'[b].op = "pick"
    BY <1>0, <1>4, <2>1 DEF Pick
  <2>3. UNCHANGED <<version, config, rcxSubscription, rcxUser, rcxUserPending, saved, created,
                    engine, wanted, refresh, plain>>
    BY <1>4 DEF Pick
  <2>4. plain => \A b \in Calls : call'[b].op = "user" => call'[b].at = "rest"
    BY <1>1, <2>2
  <2> QED
    BY <1>0, <1>2, <2>2, <2>3, <2>4, Aside
<1>5. ASSUME NEW place \in Places, Goto(c, place), call[c].op # "apply",
             plain => call[c].op # "user"
      PROVE  /\ \A b \in Calls : call'[b] = call[b] \/ (call[b].op # "apply" /\ call'[b].op # "apply")
             /\ plain => \A b \in Calls : call'[b].op = "user" => call'[b].at = "rest"
  BY <1>0, <1>1, <1>5, GotoKeeps
<1>6. At(c, {"user"}, "store") \/ At(c, {"user"}, "ready") \/ At(c, {"user"}, "engine") => ~plain
  BY <1>1 DEF At
<1>7. CASE SetUserStore(c)
  BY <1>0, <1>5, <1>6, <1>7, Aside DEF SetUserStore, At, Places
<1>8. CASE SetUserReady(c)
  <2>1. engine'.config = engine.config /\ engine'.sub = engine.sub
    BY <1>0, <1>8 DEF SetUserReady, rcxReady, Engine
  <2> QED
    BY <1>0, <1>5, <1>6, <1>8, <2>1, Aside DEF SetUserReady, At, Places
<1>9. CASE SetUserEngine(c)
  <2>1. call[c].layer \in Versions
    BY <1>0, <1>9 DEF SetUserEngine, At, CarryInv, Layer, Call
  <2>2. PICK e : e = [engine EXCEPT !.user = call[c].layer] /\ EngineStep(e, down)
    BY <1>9 DEF SetUserEngine
  <2>3. e \in Engine /\ e.config = engine.config /\ e.sub = engine.sub
    BY <1>0, <2>1, <2>2 DEF Engine
  <2>4. engine'.config = engine.config /\ engine'.sub = engine.sub
    BY <1>0, <2>2, <2>3, EngineKeeps
  <2> QED
    BY <1>0, <1>5, <1>6, <1>9, <2>4, Aside DEF SetUserEngine, At, Places
<1>10. CASE changeProxy(c)
  <2>1. call[c].op = "pick" /\ Goto(c, "note")
    BY <1>10 DEF changeProxy, At
  <2> QED
    BY <1>0, <1>2, <1>5, <1>10, <2>1, Aside DEF changeProxy, Places
<1>11. CASE NoteManualPick(c)
  <2>1. call[c].op = "pick" /\ Goto(c, "rest") /\ call[c].node \in Nodes \cup {None}
    BY <1>0, <1>11 DEF NoteManualPick, At, Call
  <2>2. engine'.config = engine.config /\ engine'.sub = engine.sub /\ engine'.user = engine.user
    BY <1>0, <1>11, <2>1, PickRecord, EngineKeeps, ZenonT(40) DEF NoteManualPick
  <2> QED
    BY <1>0, <1>2, <1>5, <1>11, <2>1, <2>2, Aside DEF NoteManualPick, Places
<1>12. CASE call[c].op # "apply" /\ rcxSaveUser(c)
  <2>1. ~plain /\ Goto(c, "ready")
    BY <1>1, <1>12 DEF rcxSaveUser, At
  <2> QED
    BY <1>0, <1>5, <1>12, <2>1, Aside DEF rcxSaveUser, Places
<1>13. CASE call[c].op # "apply" /\ Request(c)
  <2>1. ~plain /\ Goto(c, "rest")
    BY <1>1, <1>13 DEF Request, At
  <2> QED
    BY <1>0, <1>5, <1>13, <2>1, Aside DEF Request, Places, Owed
<1> QED
  BY <1>3, <1>4, <1>7, <1>8, <1>9, <1>10, <1>11, <1>12, <1>13

\* An applyConfig that goes on is the only one there is.
LEMMA Alone ==
  ASSUME TypeOK, OneApply, NEW c \in Calls, NEW place \in Places,
         call[c].op = "apply", call[c].at # "rest", Goto(c, place)
  PROVE  /\ \A b \in Calls \ {c} : call'[b] = call[b] /\ (call[b].op = "apply" => call[b].at = "rest")
         /\ UNCHANGED <<call[c].op, call[c].layer, call[c].config>>
         /\ call'[c].at = place
         /\ OneApply'
         /\ Applying({"store", "save", "request"}) <=> call[c].at \in {"store", "save", "request"}
         /\ Applying({"save", "request"}) <=> call[c].at \in {"save", "request"}
         /\ Applying({"save"}) <=> call[c].at = "save"
         /\ Applying({"store", "save", "request"})' <=> place \in {"store", "save", "request"}
         /\ Applying({"save", "request"})' <=> place \in {"save", "request"}
         /\ Applying({"save"})' <=> place = "save"
<1>1. call \in [Calls -> Call]
  BY DEF TypeOK
<1>2. /\ \A b \in Calls \ {c} : call'[b] = call[b] /\ (call[b].op = "apply" => call[b].at = "rest")
      /\ UNCHANGED <<call[c].op, call[c].layer, call[c].config>>
      /\ call'[c].at = place
  BY <1>1, GotoKeeps DEF OneApply
<1>3. OneApply'
  BY <1>2 DEF OneApply
<1>4. \A P \in SUBSET (Places \ {"rest"}) :
        /\ Applying(P) <=> call[c].at \in P
        /\ Applying(P)' <=> place \in P
  BY <1>2 DEF Applying
<1> QED
  BY <1>2, <1>3, <1>4 DEF Places

\* applyConfig, at each of its steps.
LEMMA ApplyStepsKeep ==
  ASSUME TypeOK, TypeOK', RuntimeInv, NEW c \in Calls,
         \/ Apply(c) \/ ApplyHub(c) \/ rcxApplyConfig(c)
         \/ call[c].op = "apply" /\ rcxSaveUser(c)
         \/ call[c].op = "apply" /\ Request(c)
  PROVE  RuntimeInv'
<1>0. /\ version \in Nat /\ version' \in Nat /\ rcxSubscription \in Nat /\ rcxUser \in Nat
      /\ config \in Nat /\ engine.config \in Nat /\ refresh.config \in Nat
      /\ engine.sub \in Nat /\ refresh.sub \in Nat
      /\ call \in [Calls -> Call] /\ \A b \in Calls : call[b].config \in Nat
  BY DEF TypeOK, Versions, Engine, Refreshing, Call
<1>1. OneApply /\ OrderInv /\ TopologyInv /\ TravelInv /\ StandInv
  BY DEF RuntimeInv
<1>2. CASE Apply(c)
  <2>1. /\ version' = version + 1
        /\ \A b \in Calls : call[b].op = "apply" => call[b].at = "rest"
        /\ UNCHANGED <<config, rcxSubscription, rcxUser, rcxUserPending, saved,
                       created, engine, wanted, refresh, plain>>
    BY <1>2 DEF Apply
  <2>2. PICK layer \in {None, version'} :
          call' = [call EXCEPT ![c] = [op |-> "apply", layer |-> layer, config |-> version',
                                       node |-> None, at |-> "hub"]]
    BY <1>2, Begun
  <2>3. /\ \A b \in Calls \ {c} : call'[b] = call[b]
        /\ call'[c].op = "apply" /\ call'[c].at = "hub"
        /\ call'[c].config = version' /\ call'[c].layer = layer
    BY <1>0, <2>2
  <2>4. ~Applying({"store", "save", "request"}) /\ ~Applying({"save", "request"}) /\ ~Applying({"save"})
    BY <2>1 DEF Applying
  <2>5. OneApply'
    BY <2>1, <2>3 DEF OneApply
  <2>6. OrderInv'
    <3>1. \A b \in Calls : call'[b].op = "apply" /\ call'[b].at \in {"hub", "store"} => b = c
      BY <2>1, <2>3
    <3> QED
      BY <1>0, <1>1, <2>1, <2>3, <3>1 DEF OrderInv
  <2>7. TopologyInv'
    BY <1>1, <2>1, <2>4 DEF TopologyInv
  <2>8. TravelInv'
    BY <1>1, <2>1, <2>3 DEF TravelInv
  <2>9. StandInv'
    BY <1>1, <2>1, <2>3, <2>4 DEF StandInv, Coming
  <2> QED
    BY <2>5, <2>6, <2>7, <2>8, <2>9 DEF RuntimeInv
<1>3. CASE ApplyHub(c)
  <2>1. /\ call[c].op = "apply" /\ call[c].at = "hub" /\ Goto(c, "store")
        /\ config' = call[c].config
        /\ UNCHANGED <<version, rcxSubscription, rcxUser, rcxUserPending, saved, created,
                       engine, wanted, refresh, plain>>
    BY <1>3 DEF ApplyHub, At
  <2>2. /\ \A b \in Calls \ {c} : call'[b] = call[b] /\ (call[b].op = "apply" => call[b].at = "rest")
        /\ UNCHANGED <<call[c].op, call[c].layer, call[c].config>>
        /\ call'[c].at = "store"
        /\ OneApply'
        /\ ~Applying({"save", "request"}) /\ ~Applying({"save"})
        /\ Applying({"store", "save", "request"})'
    BY <1>1, <2>1, Alone DEF Places
  <2>3. OrderInv'
    BY <1>0, <1>1, <2>1, <2>2 DEF OrderInv
  <2>4. TopologyInv'
    BY <1>1, <2>1, <2>2 DEF TopologyInv
  <2>5. TravelInv'
    BY <1>1, <2>1, <2>2 DEF TravelInv
  <2>6. StandInv'
    BY <1>1, <2>1, <2>2 DEF StandInv, Coming
  <2> QED
    BY <2>2, <2>3, <2>4, <2>5, <2>6 DEF RuntimeInv
<1>4. CASE rcxApplyConfig(c)
  <2> DEFINE layer == call[c].layer
  <2>1. /\ call[c].op = "apply" /\ call[c].at = "store" /\ Goto(c, AfterStore(layer))
        /\ rcxSubscription' = call[c].config
        /\ rcxUser' = IF layer = None THEN rcxUser ELSE layer
        /\ rcxUserPending' = (layer # None \/ rcxUserPending)
        /\ UNCHANGED <<version, config, saved, created, engine, wanted, refresh, plain>>
    BY <1>4 DEF rcxApplyConfig, At, Waits
  <2>2. AfterStore(layer) \in {"save", "request"} /\ (AfterStore(layer) = "save" <=> layer # None)
    BY DEF AfterStore
  <2>3. /\ \A b \in Calls \ {c} : call'[b] = call[b] /\ (call[b].op = "apply" => call[b].at = "rest")
        /\ UNCHANGED <<call[c].op, call[c].layer, call[c].config>>
        /\ call'[c].at = AfterStore(layer)
        /\ OneApply'
        /\ ~Applying({"save"})
        /\ Applying({"store", "save", "request"})' /\ Applying({"save", "request"})'
        /\ Applying({"save"})' <=> layer # None
    <3>1. AfterStore(layer) \in Places
      BY <2>2 DEF Places
    <3> HIDE DEF layer
    <3> QED
      BY <1>1, <2>1, <2>2, <3>1, Alone
  <2>4. /\ rcxSubscription < call[c].config /\ call[c].config <= version
        /\ layer \in {None, call[c].config}
    BY <1>1, <2>1 DEF OrderInv
  <2>5. OrderInv'
    <3>1. \A b \in Calls : ~(call'[b].op = "apply" /\ call'[b].at \in {"hub", "store"})
      BY <2>2, <2>3
    <3> QED
      BY <1>0, <1>1, <2>1, <2>4, <3>1 DEF OrderInv
  <2>6. TopologyInv'
    BY <2>3 DEF TopologyInv
  <2>7. TravelInv'
    <3>1. rcxUser = 1 \/ rcxUser <= rcxSubscription => rcxUser' = 1 \/ rcxUser' <= rcxSubscription'
      BY <1>0, <2>1, <2>4
    <3> QED
      BY <1>1, <2>1, <2>3, <3>1 DEF TravelInv
  <2>8. StandInv'
    <3>1. layer # None => Coming'
      BY <2>1, <2>3 DEF Coming
    <3>2. Coming => Coming'
      BY <2>1, <2>3 DEF Coming
    <3>3. \A b \in Calls : call'[b].op = "apply" /\ call'[b].at = "save" => call'[b].layer = rcxUser'
      BY <2>1, <2>2, <2>3
    <3>4. CASE layer = None
      BY <1>1, <2>1, <2>3, <3>2, <3>3, <3>4 DEF StandInv
    <3>5. CASE layer # None
      BY <2>3, <3>1, <3>3, <3>5 DEF StandInv
    <3> QED
      BY <3>4, <3>5
  <2> QED
    BY <2>3, <2>5, <2>6, <2>7, <2>8 DEF RuntimeInv
<1>5. CASE call[c].op = "apply" /\ rcxSaveUser(c)
  <2>1. /\ call[c].op = "apply" /\ call[c].at = "save" /\ Goto(c, "request")
        /\ saved' = call[c].layer
        /\ UNCHANGED <<version, config, rcxSubscription, rcxUser, rcxUserPending,
                       created, engine, wanted, refresh, plain>>
    BY <1>5 DEF rcxSaveUser, At
  <2>2. /\ \A b \in Calls \ {c} : call'[b] = call[b] /\ (call[b].op = "apply" => call[b].at = "rest")
        /\ UNCHANGED <<call[c].op, call[c].layer, call[c].config>>
        /\ call'[c].at = "request"
        /\ OneApply'
        /\ Applying({"store", "save", "request"})' /\ Applying({"save", "request"})'
    BY <1>1, <2>1, Alone DEF Places
  <2>3. OrderInv'
    BY <1>0, <1>1, <2>1, <2>2 DEF OrderInv
  <2>4. TopologyInv'
    BY <2>2 DEF TopologyInv
  <2>5. TravelInv'
    BY <1>1, <2>1, <2>2 DEF TravelInv
  <2>6. StandInv'
    BY <1>1, <2>1, <2>2 DEF StandInv, Coming
  <2> QED
    BY <2>2, <2>3, <2>4, <2>5, <2>6 DEF RuntimeInv
<1>6. CASE call[c].op = "apply" /\ Request(c)
  <2>1. /\ call[c].op = "apply" /\ call[c].at = "request" /\ Goto(c, "rest") /\ wanted'
        /\ UNCHANGED <<version, config, rcxSubscription, rcxUser, rcxUserPending, saved,
                       created, engine, refresh, plain>>
    BY <1>6 DEF Request, At, Owed
  <2>2. /\ \A b \in Calls \ {c} : call'[b] = call[b] /\ (call[b].op = "apply" => call[b].at = "rest")
        /\ UNCHANGED <<call[c].op, call[c].layer, call[c].config>>
        /\ call'[c].at = "rest"
        /\ OneApply'
        /\ ~Applying({"save"})
    BY <1>1, <2>1, Alone DEF Places
  <2>3. OrderInv'
    BY <1>0, <1>1, <2>1, <2>2 DEF OrderInv
  <2>4. TopologyInv'
    BY <2>1 DEF TopologyInv
  <2>5. TravelInv'
    BY <1>1, <2>1, <2>2 DEF TravelInv
  <2>6. StandInv'
    BY <1>1, <2>1, <2>2 DEF StandInv, Coming
  <2> QED
    BY <2>2, <2>3, <2>4, <2>5, <2>6 DEF RuntimeInv
<1> QED
  BY <1>2, <1>3, <1>4, <1>5, <1>6

\* The refresh, at each of its steps.
LEMMA RefreshStepsKeep ==
  ASSUME TypeOK, TypeOK', RuntimeInv, Begin \/ RefreshStep
  PROVE  RuntimeInv'
<1>0. /\ rcxSubscription \in Nat /\ rcxUser \in Nat /\ config \in Nat /\ rcxUser # None
      /\ engine \in Engine /\ engine.config \in Nat /\ engine.sub \in Nat /\ engine.user \in Nat
      /\ refresh \in Refreshing /\ refresh.config \in Versions /\ refresh.sub \in Versions
      /\ refresh.config \in Nat /\ refresh.sub \in Nat /\ refresh.user \in Nat \cup {None}
  BY RuntimeAssumption DEF TypeOK, Versions, Layer, Engine, Refreshing
<1>1. OneApply /\ OrderInv /\ TopologyInv /\ TravelInv /\ StandInv
  BY DEF RuntimeInv
<1>2. ASSUME UNCHANGED call
      PROVE  /\ OneApply'
             /\ Applying({"store", "save", "request"})' <=> Applying({"store", "save", "request"})
             /\ Applying({"save", "request"})' <=> Applying({"save", "request"})
             /\ Applying({"save"})' <=> Applying({"save"})
  BY <1>1, <1>2 DEF OneApply, Applying
<1>3. CASE Begin
  <2>1. /\ refresh.at = "rest" /\ refresh'.at = "ready"
        /\ UNCHANGED <<version, config, rcxSubscription, rcxUser, rcxUserPending,
                       saved, created, engine, call, plain>>
    BY <1>0, <1>3, RefreshRead DEF Begin, Coalesced!Begin
  <2>2. OrderInv' /\ TopologyInv' /\ TravelInv'
    BY <1>1, <2>1 DEF OrderInv, TopologyInv, TravelInv
  <2>3. StandInv'
    BY <1>1, <1>2, <2>1 DEF StandInv, Coming
  <2> QED
    BY <1>2, <2>1, <2>2, <2>3 DEF RuntimeInv
<1>4. CASE RefreshReady
  <2>1. /\ refresh.at = "ready" /\ refresh'.at = "proxies"
        /\ engine'.config = engine.config /\ engine'.sub = engine.sub
        /\ created => UNCHANGED <<created, rcxUser, engine>>
        /\ UNCHANGED <<version, config, rcxSubscription, rcxUserPending, saved, call, wanted, plain>>
    BY <1>0, <1>4, RefreshRead DEF RefreshReady, rcxReady, Engine
  <2>2. plain => created
    BY <1>1 DEF TravelInv
  <2>3. OrderInv' /\ TopologyInv' /\ TravelInv'
    BY <1>1, <2>1, <2>2 DEF OrderInv, TopologyInv, TravelInv
  <2>4. StandInv'
    BY <1>1, <1>2, <2>1, <2>2 DEF StandInv, Coming
  <2> QED
    BY <1>2, <2>1, <2>3, <2>4 DEF RuntimeInv
<1>5. CASE ReadProxies
  <2>1. /\ refresh.at = "proxies" /\ refresh'.at = "layers" /\ refresh'.config = config
        /\ UNCHANGED <<version, config, rcxSubscription, rcxUser, rcxUserPending,
                       saved, created, engine, call, wanted, plain>>
    BY <1>0, <1>5, RefreshRead DEF ReadProxies
  <2>2. OrderInv' /\ TopologyInv' /\ TravelInv'
    BY <1>0, <1>1, <2>1 DEF OrderInv, TopologyInv, TravelInv
  <2>3. StandInv'
    BY <1>1, <1>2, <2>1 DEF StandInv, Coming
  <2> QED
    BY <1>2, <2>1, <2>2, <2>3 DEF RuntimeInv
<1>6. CASE TakeLayers
  <2>1. /\ refresh.at = "layers" /\ refresh'.at = "build" /\ refresh'.config = refresh.config
        /\ refresh'.sub = rcxSubscription
        /\ refresh'.user = IF rcxUserPending THEN rcxUser ELSE None
        /\ UNCHANGED <<version, config, rcxSubscription, rcxUser,
                       saved, created, engine, call, wanted, plain>>
    BY <1>0, <1>6, RefreshRead DEF TakeLayers
  <2>2. OrderInv'
    BY <1>0, <1>1, <2>1 DEF OrderInv
  <2>3. TopologyInv'
    BY <1>1, <1>2, <2>1 DEF TopologyInv
  <2>4. TravelInv'
    BY <1>1, <2>1 DEF TravelInv
  <2>5. StandInv'
    BY <1>1, <1>2, <2>1 DEF StandInv, Coming
  <2> QED
    BY <1>2, <2>1, <2>2, <2>3, <2>4, <2>5 DEF RuntimeInv
<1>7. CASE BuildTopology
  <2>1. /\ refresh.at = "build" /\ refresh'.at = "set"
        /\ UNCHANGED <<refresh.config, refresh.sub, refresh.user>>
        /\ UNCHANGED <<version, config, rcxSubscription, rcxUser, rcxUserPending,
                       saved, created, engine, call, wanted, plain>>
    BY <1>0, <1>7, RefreshRead DEF BuildTopology
  <2>2. OrderInv'
    BY <1>1, <2>1 DEF OrderInv
  <2>3. TopologyInv'
    BY <1>1, <1>2, <2>1 DEF TopologyInv
  <2>4. TravelInv'
    BY <1>1, <2>1 DEF TravelInv
  <2>5. StandInv'
    BY <1>1, <1>2, <2>1 DEF StandInv, Coming
  <2> QED
    BY <1>2, <2>1, <2>2, <2>3, <2>4, <2>5 DEF RuntimeInv
<1>8. CASE SetTopology
  <2>1. /\ refresh.at = "set" /\ refresh'.at = "again"
        /\ UNCHANGED <<version, config, rcxSubscription, rcxUser, rcxUserPending,
                       saved, created, call, wanted, plain>>
    BY <1>0, <1>8, RefreshRead DEF SetTopology
  <2>2. /\ engine'.config = refresh.config
        /\ engine'.sub = refresh.sub
        /\ engine'.user = IF refresh.user = None THEN engine.user ELSE refresh.user
    BY <1>8, HandOver DEF EngineLayer
  <2>3. OrderInv'
    BY <1>0, <1>1, <2>1, <2>2 DEF OrderInv
  <2>4. TopologyInv'
    <3>1. engine.config = config => refresh.config = config
      BY <1>0, <1>1, <2>1 DEF OrderInv
    <3>2. engine.sub = rcxSubscription => refresh.sub = rcxSubscription
      BY <1>0, <1>1, <2>1 DEF OrderInv
    <3> QED
      BY <1>1, <1>2, <2>1, <2>2, <3>1, <3>2 DEF TopologyInv
  <2>5. TravelInv'
    BY <1>0, <1>1, <2>1, <2>2 DEF TravelInv, OrderInv
  <2>6. StandInv'
    BY <1>0, <1>1, <1>2, <2>1, <2>2 DEF StandInv, Coming
  <2> QED
    BY <1>2, <2>1, <2>3, <2>4, <2>5, <2>6 DEF RuntimeInv
<1>9. CASE AskAgain
  <2>1. /\ refresh.at = "again" /\ refresh'.at = "again" /\ wanted'
        /\ UNCHANGED <<version, config, rcxSubscription, rcxUser, rcxUserPending,
                       saved, created, engine, call, plain>>
    BY <1>0, <1>9, RefreshRead DEF AskAgain, Coalesced!Ask
  <2>2. OrderInv' /\ TopologyInv' /\ TravelInv'
    BY <1>1, <2>1 DEF OrderInv, TopologyInv, TravelInv
  <2>3. StandInv'
    BY <1>1, <1>2, <2>1 DEF StandInv, Coming
  <2> QED
    BY <1>2, <2>1, <2>2, <2>3 DEF RuntimeInv
<1>10. CASE EndRefresh
  <2>1. /\ refresh.at = "again" /\ refresh'.at = "rest"
        /\ UNCHANGED <<version, config, rcxSubscription, rcxUser, rcxUserPending,
                       saved, created, engine, call, wanted, plain>>
    BY <1>0, <1>10, RefreshRead DEF EndRefresh, Coalesced!End
  <2>2. OrderInv' /\ TravelInv'
    BY <1>1, <2>1 DEF OrderInv, TravelInv
  <2>3. TopologyInv'
    BY <1>1, <1>2, <2>1 DEF TopologyInv
  <2>4. StandInv'
    BY <1>1, <1>2, <2>1 DEF StandInv, Coming
  <2> QED
    BY <1>2, <2>1, <2>2, <2>3, <2>4 DEF RuntimeInv
<1> QED
  BY <1>3, <1>4, <1>5, <1>6, <1>7, <1>8, <1>9, <1>10 DEF RefreshStep

\* The core starts with the invariant.
LEMMA InitInv == Init => RuntimeInv
<1> SUFFICES ASSUME Init PROVE RuntimeInv
  OBVIOUS
<1>1. /\ \A c \in Calls : call[c].op = "apply" /\ call[c].at = "rest"
      /\ refresh.at = "rest"
      /\ engine.config = 0 /\ engine.sub = 0 /\ engine.user = rcxUser
  BY DEF Init, NoCall, NoRefresh
<1> QED
  BY <1>1 DEF Init, RuntimeInv, OneApply, OrderInv, TopologyInv, TravelInv, StandInv

\* Every step keeps the invariant.
LEMMA InvStep ==
  ASSUME TypeOK, TypeOK', CarryInv, RuntimeInv, [Next]_vars
  PROVE  RuntimeInv'
<1>1. ASSUME NEW c \in Calls, CallStep(c) PROVE RuntimeInv'
  BY <1>1, ApplyStepsKeep, UserStepsKeep DEF CallStep
<1>2. ASSUME NEW c \in Calls, Apply(c) \/ SetUser(c) PROVE RuntimeInv'
  BY <1>2, ApplyStepsKeep, UserStepsKeep
<1>3. ASSUME NEW c \in Calls, NEW k \in Nodes, Pick(c, k) PROVE RuntimeInv'
  BY <1>3, UserStepsKeep
<1>4. CASE UNCHANGED vars
  BY <1>4 DEF vars, RuntimeInv, OneApply, OrderInv, TopologyInv, TravelInv, StandInv, Coming, Applying
<1> QED
  BY <1>1, <1>2, <1>3, <1>4, EngineStepsKeep, RefreshStepsKeep DEF Next

\* The glue keeps the inductive invariant.
LEMMA Invariant == Spec => [](TypeOK /\ RuntimeInv)
<1>1. TypeOK /\ CarryInv /\ RuntimeInv /\ [Next]_vars => (TypeOK /\ CarryInv /\ RuntimeInv)'
  BY TypeStep, CarryStep, InvStep
<1> QED
  BY <1>1, InitType, InitInv, PTL DEF Spec

\* Whatever refreshes, provider loads and configs came between, an engine that
\* is left at rest works on the config that is applied
\* (requestRcxTopologyRefresh).
THEOREM TopologyArrives == Spec => []TopologyIsCurrent
<1>1. RuntimeInv => TopologyIsCurrent
  BY DEF RuntimeInv, TopologyInv, TopologyIsCurrent, Resting, Applying
<1> QED
  BY <1>1, Invariant, PTL

\* A user layer that came with a config never reaches the engine before that
\* config's topology (rcxUserPending).
THEOREM LayerTravelsWithTopology == Spec => []LayerTravels
<1>1. TypeOK /\ RuntimeInv => LayerTravels
  <2> SUFFICES ASSUME TypeOK, RuntimeInv PROVE LayerTravels
    OBVIOUS
  <2>1. engine.sub \in Nat /\ engine.user \in Nat
    BY DEF TypeOK, Engine, Versions
  <2> QED
    BY <2>1 DEF RuntimeInv, TravelInv, LayerTravels
<1> QED
  BY <1>1, Invariant, PTL

\* The layer that came with a config is in force and on disk once everything is
\* at rest (rcxApplyConfig, rcxSaveUser, Engine.SetTopology).
THEOREM ConfigLayerHolds == Spec => []ConfigLayerStands
<1>1. RuntimeInv => ConfigLayerStands
  BY DEF RuntimeInv, StandInv, Coming, ConfigLayerStands, ConfigLayerArrives, LayerArrives,
         ConfigLayerIsKept, Resting, Applying
<1> QED
  BY <1>1, Invariant, PTL

=============================================================================
