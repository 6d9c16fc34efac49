------------------------------ MODULE RcxRuntime ------------------------------
(***************************************************************************)
(* How configs, the user layer and picks reach the automatic-routing engine*)
(* (core/rcx_runtime.go, core/proxy.go, the end of applyConfig in          *)
(* core/config.go).                                                        *)
(*                                                                         *)
(* Method calls run on goroutines of their own; three locks are taken one  *)
(* after the other and released in between: rcxMu for the layers, selectMu *)
(* for mihomo's selector, the engine's own.  A refresh reads proxies, then *)
(* the layers, then the selectors, and hands the result to the engine; the *)
(* refreshes are coalesced (Coalescer, implemented by CoalescedRun).       *)
(*                                                                         *)
(* One select group is modelled; what the engine would move it to is left  *)
(* open (RcxMachine), except that it stays on a pin that works.  Configs   *)
(* and layers are version numbers.                                         *)
(***************************************************************************)
EXTENDS Naturals

CONSTANTS
    Calls,      \* goroutines of method calls
    Nodes,      \* members of the group
    None,       \* no layer, no node
    Ops,        \* what happens in this instance
    MaxVersion  \* bound: configs and layers in one behaviour

AllOps == {"apply", "user", "pick", "provider", "move", "down", "late"}

ASSUME RuntimeAssumption ==
    /\ Ops \subseteq AllOps
    /\ MaxVersion \in Nat \ {0}
    /\ None \notin Nodes \cup Nat

VARIABLES
    version,         \* configs and layers handed out so far
    config,          \* the config whose proxies mihomo has
    rcxSubscription, \* the config whose layers rcxApplyConfig stored
    rcxUser,         \* the user layer, 0 before one is known
    rcxUserPending,  \* it waits to travel with a topology
    saved,           \* the layer in rcx-user.json
    created,         \* the engine exists
    engine,          \* what the engine holds
    selector,        \* the node mihomo's selector uses
    down,            \* nodes that do not work
    call,            \* goroutine -> its method call
    wanted,          \* a refresh is owed
    refresh,         \* the refresh under way
    plain            \* history: the engine was there from the start and only
                     \* configs have set a layer

vars == <<version, config, rcxSubscription, rcxUser, rcxUserPending, saved,
          created, engine, selector, down, call, wanted, refresh,
          plain>>

Versions == 0..MaxVersion
Layer == Versions \cup {None}

\* config and sub: the topology; user: the layer; now, pin: the group.
Engine == [config : Versions, sub : Versions, user : Versions,
           now : Nodes \cup {None}, pin : Nodes \cup {None}]

Call == [op : {"apply", "user", "pick"}, layer : Layer, config : Versions,
         node : Nodes \cup {None},
         at : {"rest", "hub", "store", "save", "ready", "engine", "request",
               "set", "note"}]

NoCall == [op |-> "apply", layer |-> None, config |-> 0, node |-> None,
           at |-> "rest"]

Refreshing == [at : {"rest", "ready", "proxies", "layers", "build", "set", "again"},
               config : Versions, sub : Versions, user : Layer,
               now : Nodes \cup {None}, moved : BOOLEAN]

NoRefresh == [at |-> "rest", config |-> 0, sub |-> 0, user |-> None,
              now |-> None, moved |-> FALSE]

TypeOK ==
    /\ version \in Versions
    /\ config \in Versions
    /\ rcxSubscription \in Versions
    /\ rcxUser \in Versions
    /\ rcxUserPending \in BOOLEAN
    /\ saved \in Versions
    /\ created \in BOOLEAN
    /\ engine \in Engine
    /\ selector \in Nodes
    /\ down \subseteq Nodes
    /\ call \in [Calls -> Call]
    /\ wanted \in BOOLEAN
    /\ refresh \in Refreshing
    /\ plain \in BOOLEAN

\* The core is initialised; an earlier run left layer 1 on disk.
Init ==
    /\ version = 1
    /\ config = 0
    /\ rcxSubscription = 0
    /\ rcxUserPending = FALSE
    /\ saved = 1
    /\ created \in {TRUE} \cup {b \in {FALSE} : "late" \in Ops}
    /\ rcxUser = IF created THEN 1 ELSE 0
    /\ plain = created
    /\ engine = [config |-> 0, sub |-> 0, user |-> rcxUser, now |-> None,
                 pin |-> None]
    /\ selector \in Nodes
    /\ down = {}
    /\ call = [c \in Calls |-> NoCall]
    /\ wanted = FALSE
    /\ refresh = NoRefresh

Coalesced == INSTANCE Coalescer WITH busy <- refresh.at # "rest"

\* Goroutine c has the call at a step of an operation, and goes on to another.
At(c, ops, place) == call[c].op \in ops /\ call[c].at = place
Goto(c, place) == call' = [call EXCEPT ![c].at = place]

-----------------------------------------------------------------------------
(* The engine.                                                             *)

\* settle in a step that finds the group on n with pin p: a pin that works is
\* used; otherwise the engine may move the group.
Settled(n, p, d) ==
    IF n = None THEN {n}
    ELSE IF p \in Nodes \ d THEN {p}
    ELSE IF "move" \in Ops THEN {n} \cup (Nodes \ d)
    ELSE {n}

\* A step of the engine under its lock, from what e holds: it selects in
\* mihomo what it moves to, and believes itself there.
EngineStep(e, d) ==
    \E k \in Settled(e.now, e.pin, d) :
      /\ engine' = [e EXCEPT !.now = k]
      /\ selector' = IF k # e.now THEN k ELSE selector

\* rcxReady under rcxMu: the engine is built with the layer on disk.
rcxReady ==
    IF created THEN UNCHANGED <<created, rcxUser, engine>>
    ELSE /\ created' = TRUE
         /\ rcxUser' = saved
         /\ engine' = [engine EXCEPT !.user = saved]

\* Any method that asks for the engine builds it.
FirstUse ==
    /\ ~created
    /\ rcxReady
    /\ UNCHANGED <<version, config, rcxSubscription, rcxUserPending, saved,
                   selector, down, call, wanted, refresh, plain>>

\* The engine learns that a node stopped or started working.
Turn(k) ==
    /\ "down" \in Ops
    /\ created
    /\ down' = IF k \in down THEN down \ {k} ELSE down \cup {k}
    /\ EngineStep(engine, down')
    /\ UNCHANGED <<version, config, rcxSubscription, rcxUser, rcxUserPending,
                   saved, created, call, wanted, refresh, plain>>

\* Any other input of the engine.
Move ==
    /\ "move" \in Ops
    /\ created
    /\ EngineStep(engine, down)
    /\ UNCHANGED <<version, config, rcxSubscription, rcxUser, rcxUserPending,
                   saved, created, down, call, wanted, refresh, plain>>

-----------------------------------------------------------------------------
(* Requests for a refresh.                                                 *)

\* Mutant: a request is dropped while a refresh runs.
MutOwed == wanted \/ refresh.at = "rest"

\* requestRcxTopologyRefresh
Owed == TRUE

\* The last step of a call.
Request(c) ==
    /\ At(c, {"apply", "user"}, "request")
    /\ wanted' = Owed
    /\ Goto(c, "rest")
    /\ UNCHANGED <<version, config, rcxSubscription, rcxUser, rcxUserPending,
                   saved, created, engine, selector, down, refresh, plain>>

\* A provider loaded (executor.DefaultProviderLoadedHook).
ProviderLoaded ==
    /\ "provider" \in Ops
    /\ ~wanted
    /\ wanted' = Owed
    /\ UNCHANGED <<version, config, rcxSubscription, rcxUser, rcxUserPending,
                   saved, created, engine, selector, down, call, refresh, plain>>

-----------------------------------------------------------------------------
(* applyConfig, under configMu: one at a time.                             *)

Apply(c) ==
    /\ "apply" \in Ops
    /\ call[c].at = "rest"
    /\ \A b \in Calls : ~(call[b].op = "apply" /\ call[b].at # "rest")
    /\ version < MaxVersion
    /\ version' = version + 1
    /\ \E layer \in {None, version'} :
         call' = [call EXCEPT ![c] = [NoCall EXCEPT !.op = "apply",
                    !.at = "hub", !.config = version', !.layer = layer]]
    /\ UNCHANGED <<config, rcxSubscription, rcxUser, rcxUserPending, saved,
                   created, engine, selector, down, wanted, refresh, plain>>

\* hub.ApplyConfig builds the proxies and patchSelectGroup restores a choice.
ApplyHub(c) ==
    /\ At(c, {"apply"}, "hub")
    /\ config' = call[c].config
    /\ selector' \in Nodes
    /\ Goto(c, "store")
    /\ UNCHANGED <<version, rcxSubscription, rcxUser, rcxUserPending, saved,
                   created, engine, down, wanted, refresh, plain>>

\* Mutant: a config without a layer drops the one that waits.
MutWaits(layer) == layer # None

\* rcxUserPending after rcxApplyConfig
Waits(layer) == layer # None \/ rcxUserPending

\* Mutant: only rcxSetUser saves.
MutAfterStore(layer) == "request"

AfterStore(layer) == IF layer = None THEN "request" ELSE "save"

\* rcxApplyConfig under rcxMu
rcxApplyConfig(c) ==
    /\ At(c, {"apply"}, "store")
    /\ rcxSubscription' = call[c].config
    /\ rcxUser' = IF call[c].layer = None THEN rcxUser ELSE call[c].layer
    /\ rcxUserPending' = Waits(call[c].layer)
    /\ Goto(c, AfterStore(call[c].layer))
    /\ UNCHANGED <<version, config, saved, created, engine, selector, down,
                   wanted, refresh, plain>>

\* rcxSaveUser, after rcxMu was released
rcxSaveUser(c) ==
    /\ At(c, {"apply", "user"}, "save")
    /\ saved' = call[c].layer
    /\ Goto(c, IF call[c].op = "apply" THEN "request" ELSE "ready")
    /\ UNCHANGED <<version, config, rcxSubscription, rcxUser, rcxUserPending,
                   created, engine, selector, down, wanted, refresh, plain>>

-----------------------------------------------------------------------------
(* rcxSetUser: the user changed the layer.                                 *)

SetUser(c) ==
    /\ "user" \in Ops
    /\ call[c].at = "rest"
    /\ version < MaxVersion
    /\ version' = version + 1
    /\ plain' = FALSE
    /\ call' = [call EXCEPT ![c] = [NoCall EXCEPT !.op = "user",
                  !.at = "store", !.layer = version']]
    /\ UNCHANGED <<config, rcxSubscription, rcxUser, rcxUserPending, saved,
                   created, engine, selector, down, wanted, refresh>>

SetUserStore(c) ==
    /\ At(c, {"user"}, "store")
    /\ rcxUser' = call[c].layer
    /\ Goto(c, "save")
    /\ UNCHANGED <<version, config, rcxSubscription, rcxUserPending, saved,
                   created, engine, selector, down, wanted, refresh, plain>>

SetUserReady(c) ==
    /\ At(c, {"user"}, "ready")
    /\ rcxReady
    /\ Goto(c, "engine")
    /\ UNCHANGED <<version, config, rcxSubscription, rcxUserPending, saved,
                   selector, down, wanted, refresh, plain>>

\* e.SetUserLayer
SetUserEngine(c) ==
    /\ At(c, {"user"}, "engine")
    /\ EngineStep([engine EXCEPT !.user = call[c].layer], down)
    /\ Goto(c, "request")
    /\ UNCHANGED <<version, config, rcxSubscription, rcxUser, rcxUserPending,
                   saved, created, down, wanted, refresh, plain>>

-----------------------------------------------------------------------------
(* handleChangeProxy: a pick sets the selector, then tells the engine.     *)

Pick(c, k) ==
    /\ "pick" \in Ops
    /\ call[c].at = "rest"
    /\ call' = [call EXCEPT ![c] = [NoCall EXCEPT !.op = "pick", !.at = "set",
                                      !.node = k]]
    /\ UNCHANGED <<version, config, rcxSubscription, rcxUser, rcxUserPending,
                   saved, created, engine, selector, down, wanted, refresh, plain>>

changeProxy(c) ==
    /\ At(c, {"pick"}, "set")
    /\ selector' = call[c].node
    /\ Goto(c, "note")
    /\ UNCHANGED <<version, config, rcxSubscription, rcxUser, rcxUserPending,
                   saved, created, engine, down, wanted, refresh, plain>>

\* e.NoteManualPick, if the engine exists and has the group
NoteManualPick(c) ==
    /\ At(c, {"pick"}, "note")
    /\ Goto(c, "rest")
    /\ IF created /\ engine.now # None
         THEN EngineStep([engine EXCEPT !.now = call[c].node,
                                        !.pin = call[c].node], down)
         ELSE UNCHANGED <<engine, selector>>
    /\ UNCHANGED <<version, config, rcxSubscription, rcxUser, rcxUserPending,
                   saved, created, down, wanted, refresh, plain>>

-----------------------------------------------------------------------------
(* rcxRefreshTopology, one at a time.                                      *)

Begin ==
    /\ refresh' = [NoRefresh EXCEPT !.at = "ready"]
    /\ Coalesced!Begin
    /\ UNCHANGED <<version, config, rcxSubscription, rcxUser, rcxUserPending,
                   saved, created, engine, selector, down, call, plain>>

RefreshReady ==
    /\ refresh.at = "ready"
    /\ rcxReady
    /\ refresh' = [refresh EXCEPT !.at = "proxies"]
    /\ UNCHANGED <<version, config, rcxSubscription, rcxUserPending, saved,
                   selector, down, call, wanted, plain>>

\* tunnel.AllProxies
ReadProxies ==
    /\ refresh.at = "proxies"
    /\ refresh' = [refresh EXCEPT !.at = "layers", !.config = config]
    /\ UNCHANGED <<version, config, rcxSubscription, rcxUser, rcxUserPending,
                   saved, created, engine, selector, down, call, wanted, plain>>

\* Under rcxMu: the layers, and the user layer if it waits.
TakeLayers ==
    /\ refresh.at = "layers"
    /\ refresh' = [refresh EXCEPT !.at = "build", !.sub = rcxSubscription,
                     !.user = IF rcxUserPending THEN rcxUser ELSE None]
    /\ rcxUserPending' = FALSE
    /\ UNCHANGED <<version, config, rcxSubscription, rcxUser, saved, created,
                   engine, selector, down, call, wanted, plain>>

\* rcxTopologyOf: the selectors of the proxies that were read.  No group is
\* there before the first config.
BuildTopology ==
    /\ refresh.at = "build"
    /\ \E k \in Nodes \cup {None} :
         /\ refresh.config = config /\ config # 0 => k = selector
         /\ (k = None) <=> (refresh.config = 0)
         /\ refresh' = [refresh EXCEPT !.at = "set", !.now = k]
    /\ UNCHANGED <<version, config, rcxSubscription, rcxUser, rcxUserPending,
                   saved, created, engine, selector, down, call, wanted, plain>>

\* Mutant: a topology that carries no layer is taken to carry one.
MutEngineLayer(r) == r.user

\* Mutant: the layer is read when the topology is handed over.
MutLateEngineLayer(r) == rcxUser

\* The layer the engine holds after SetTopology.
EngineLayer(r) == IF r.user = None THEN engine.user ELSE r.user

SetTopology ==
    /\ refresh.at = "set"
    /\ EngineStep([engine EXCEPT !.config = refresh.config, !.sub = refresh.sub,
                     !.user = EngineLayer(refresh), !.now = refresh.now], down)
    /\ refresh' = [refresh EXCEPT !.at = "again",
                     !.moved = (refresh.sub # engine.sub)]
    /\ UNCHANGED <<version, config, rcxSubscription, rcxUser, rcxUserPending,
                   saved, created, down, call, wanted, plain>>

\* A new subscription may name other groups: then the refresh asks for another.
AskAgain ==
    /\ refresh.at = "again"
    /\ refresh.moved
    /\ refresh' = [refresh EXCEPT !.moved = FALSE]
    /\ Coalesced!Ask
    /\ UNCHANGED <<version, config, rcxSubscription, rcxUser, rcxUserPending,
                   saved, created, engine, selector, down, call, plain>>

EndRefresh ==
    /\ refresh.at = "again"
    /\ refresh' = NoRefresh
    /\ Coalesced!End
    /\ UNCHANGED <<version, config, rcxSubscription, rcxUser, rcxUserPending,
                   saved, created, engine, selector, down, call, plain>>

RefreshStep == RefreshReady \/ ReadProxies \/ TakeLayers \/ BuildTopology
               \/ SetTopology \/ AskAgain \/ EndRefresh

CallStep(c) ==
    \/ ApplyHub(c) \/ rcxApplyConfig(c) \/ rcxSaveUser(c) \/ Request(c)
    \/ SetUserStore(c) \/ SetUserReady(c) \/ SetUserEngine(c)
    \/ changeProxy(c) \/ NoteManualPick(c)

Next ==
    \/ FirstUse \/ Move \/ ProviderLoaded \/ Begin \/ RefreshStep
    \/ \E k \in Nodes : Turn(k)
    \/ \E c \in Calls : Apply(c) \/ SetUser(c) \/ CallStep(c)
    \/ \E c \in Calls, k \in Nodes : Pick(c, k)

Spec == Init /\ [][Next]_vars

-----------------------------------------------------------------------------
(* Properties.                                                             *)

Resting ==
    /\ \A c \in Calls : call[c].at = "rest"
    /\ ~wanted
    /\ refresh.at = "rest"

\* When everything is at rest the engine works on the config that is applied,
\* whatever refreshes, provider loads and further configs came between
\* (requestRcxTopologyRefresh after every change, reads after the request).
TopologyIsCurrent ==
    Resting /\ config # 0 => engine.sub = rcxSubscription /\ engine.config = config

\* A user layer applied with a config reaches the engine with the topology of
\* that config or a later one (rcxUserPending; "the user layer travels with
\* its topology").
LayerTravels ==
    plain /\ engine.sub < engine.user => engine.user = 1 \/ engine.sub = 0

\* When everything is at rest the engine follows the user layer that was set
\* last (rcxSetUser, rcxApplyConfig, Engine.SetTopology).
LayerArrives == Resting /\ created => engine.user = rcxUser

\* Layers that come with configs reach the engine, in whatever order configs
\* with and without one follow each other (rcxUserPending in rcxApplyConfig).
ConfigLayerArrives == plain => LayerArrives

\* Layers that come with configs are the ones on disk once everything is at
\* rest, so a restart keeps what is in force (rcxSaveUser).
ConfigLayerIsKept == plain /\ Resting => saved = rcxUser

\* A layer that came with a config is in force and on disk, in whatever order
\* configs, saves and a late engine follow each other (rcxApplyConfig,
\* rcxUserPending, rcxSaveUser).
ConfigLayerStands == ConfigLayerArrives /\ ConfigLayerIsKept

=============================================================================
