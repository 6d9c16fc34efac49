---------------------------- MODULE ProviderPolicy ----------------------------
(***************************************************************************)
(* The limits a provider sets on the routes of its profile                 *)
(* (core/provider_policy.go) and the configurations that bring them        *)
(* (core/config.go).  mihomo asks at three places: when a connection comes *)
(* in, when it dials, and once it is registered.  A policy changes, and    *)
(* closes what is registered, while connections are between those places.  *)
(***************************************************************************)
EXTENDS Naturals

CONSTANTS
    Conns,      \* connections
    Policies,   \* what profiles ask for: restricted, noGlobal, apps
    MaxEpoch    \* bound: changes of the policy

VARIABLES
    active,     \* activeProviderPolicy
    epoch,      \* providerPolicyEpoch
    file,       \* provider-policy.json
    failedSave, \* history: blockProviderPolicy could not write it
    mode,       \* tunnel.Mode
    globalMode, \* providerGlobalMode
    applied,    \* currentConfig is set
    holder,     \* providerPolicyMu and configMu: what is under way
    conn        \* connection -> place, generation, and how it is routed

vars == <<active, epoch, file, failedSave, mode, globalMode, applied, holder, conn>>

None == [none |-> TRUE]
Malformed == [malformed |-> TRUE]
Unlimited == [restricted |-> FALSE, noGlobal |-> FALSE, apps |-> FALSE, blocked |-> FALSE]
Blocked == [Unlimited EXCEPT !.blocked = TRUE]
Idle == [pc |-> "idle"]
Fresh == [pc |-> "new", gen |-> 0, global |-> FALSE, via |-> FALSE, allowed |-> FALSE, excluded |-> FALSE]

Init ==
    /\ active = None /\ epoch = 0 /\ file = None /\ failedSave = FALSE
    /\ mode = "rule" /\ globalMode = FALSE /\ applied = FALSE
    /\ holder = Idle
    /\ conn = [c \in Conns |-> Fresh]

enforced(p) == p # None /\ (p.what.restricted \/ p.what.noGlobal \/ p.what.blocked \/ p.what.apps)

\* With nothing allowed a restricted policy rules GLOBAL out as well; here
\* some node always is.
allowsGlobal(p) == IF p = None THEN TRUE ELSE ~p.what.blocked /\ ~p.what.noGlobal

At(what, e) == [what |-> what, epoch |-> e]

-----------------------------------------------------------------------------
(* Configurations. *)

\* What a profile asks for; anything wrong with it is an error.
parseProviderPolicy(profile) == IF profile = Malformed THEN None ELSE profile

\* loadProviderPolicy: from the profile the setup names, else the one in
\* force, else the saved one, else from the configuration that is there.
\* The setup may set noGlobal; app exclusions need a VPN that applies them.
loadProviderPolicy(named, profile, noGlobal, vpn) ==
    LET what == IF named THEN parseProviderPolicy(profile)
                ELSE IF active # None THEN active.what
                ELSE IF file # None THEN file ELSE parseProviderPolicy(profile) IN
    IF what = None \/ (what.apps /\ ~vpn) THEN None
    ELSE IF noGlobal = "unset" THEN what ELSE [what EXCEPT !.noGlobal = (noGlobal = "yes")]

\* applyConfig: a policy or a configuration that cannot be loaded blocks
\* where a policy is enforced; else the built-in configuration is applied.
applyConfig(named, profile, noGlobal, vpn, loads, m) ==
    LET what == loadProviderPolicy(named, profile, noGlobal, vpn) IN
    /\ holder = Idle /\ epoch < MaxEpoch
    /\ holder' = IF what = None \/ (~loads /\ (enforced(At(what, 0)) \/ enforced(active)))
                   THEN [pc |-> "block"]
                   ELSE [pc |-> "install", what |-> what, mode |-> IF loads THEN m ELSE "rule"]
    /\ UNCHANGED <<active, epoch, file, failedSave, mode, globalMode, applied, conn>>

\* Mutant: the policy in force is replaced before the new one is saved.
MutInstallProviderPolicy(saves) ==
    /\ holder.pc = "install"
    /\ epoch' = epoch + 1
    /\ globalMode' = (mode = "global")
    /\ active' = At(holder.what, epoch + 1)
    /\ holder' = [pc |-> "close", then |-> "mode", mode |-> holder.mode]
    /\ file' = IF saves THEN holder.what ELSE file
    /\ UNCHANGED <<failedSave, mode, applied, conn>>

\* installProviderPolicy, up to the swap.
installProviderPolicy(saves) ==
    /\ holder.pc = "install"
    /\ IF saves
         THEN /\ file' = holder.what
              /\ failedSave' = FALSE
              /\ epoch' = epoch + 1
              /\ globalMode' = (mode = "global")
              /\ active' = At(holder.what, epoch + 1)
              /\ holder' = [pc |-> IF enforced(active') \/ enforced(active) THEN "close" ELSE "mode",
                            then |-> "mode", mode |-> holder.mode]
         ELSE holder' = [pc |-> "block"] /\ UNCHANGED <<file, failedSave, epoch, globalMode, active>>
    /\ UNCHANGED <<mode, applied, conn>>

\* blockProviderPolicy: in force first, then the connections, then the file.
blockProviderPolicy ==
    /\ holder.pc = "block"
    /\ epoch' = epoch + 1
    /\ active' = At(Blocked, epoch + 1)
    /\ holder' = [pc |-> "close", then |-> "save"]
    /\ UNCHANGED <<file, failedSave, mode, globalMode, applied, conn>>

saveProviderPolicy(saves) ==
    /\ holder.pc = "save"
    /\ file' = IF saves THEN Blocked ELSE file
    /\ failedSave' = ~saves
    /\ holder' = Idle
    /\ UNCHANGED <<active, epoch, mode, globalMode, applied, conn>>

\* closeProviderPolicyConnections: everything that is registered.
closeProviderPolicyConnections ==
    /\ holder.pc = "close"
    /\ conn' = [c \in Conns |-> IF conn[c].pc \in {"registered", "open"} THEN Fresh ELSE conn[c]]
    /\ holder' = IF holder.then = "idle" THEN Idle
                 ELSE IF holder.then = "save" THEN [pc |-> "save"] ELSE [pc |-> "mode", mode |-> holder.mode]
    /\ UNCHANGED <<active, epoch, file, failedSave, mode, globalMode, applied>>

\* tunnel.SetMode at the end of applyConfig, and of updateConfig, which asks
\* the policy first.  The mode is set, then mihomo calls the hook.
updateConfig(m) ==
    /\ holder = Idle /\ epoch < MaxEpoch /\ applied
    /\ m = "global" => allowsGlobal(active)
    /\ holder' = [pc |-> "mode", mode |-> m]
    /\ UNCHANGED <<active, epoch, file, failedSave, mode, globalMode, applied, conn>>

SetMode ==
    /\ holder.pc = "mode"
    /\ mode' = holder.mode /\ applied' = TRUE
    /\ holder' = [pc |-> "hook"]
    /\ UNCHANGED <<active, epoch, file, failedSave, globalMode, conn>>

\* Mutant: the connections made in the other mode keep their generation.
MutProviderPolicyModeChanged ==
    /\ holder.pc = "hook"
    /\ globalMode' = (mode = "global")
    /\ holder' = IF enforced(active) THEN [pc |-> "close", then |-> "idle"] ELSE Idle
    /\ UNCHANGED <<epoch, active, file, failedSave, mode, applied, conn>>

providerPolicyModeChanged ==
    /\ holder.pc = "hook"
    /\ globalMode' = (mode = "global")
    /\ IF enforced(active)
         THEN /\ epoch' = epoch + 1
              /\ active' = At(active.what, epoch + 1)
              /\ holder' = [pc |-> "close", then |-> "idle"]
         ELSE holder' = Idle /\ UNCHANGED <<epoch, active>>
    /\ UNCHANGED <<file, failedSave, mode, applied, conn>>

\* The core dies: the file is what is left.
Crash ==
    /\ active # None
    /\ active' = None /\ epoch' = 0
    /\ mode' = "rule" /\ globalMode' = FALSE /\ applied' = FALSE /\ holder' = Idle
    /\ conn' = [c \in Conns |-> Fresh]
    /\ UNCHANGED <<file, failedSave>>

-----------------------------------------------------------------------------
(* Connections. *)

\* checkProviderPolicyMetadata: whether it refuses.
refuses(c) ==
    \/ active.what.blocked
    \/ c.gen # 0 /\ c.gen # active.epoch
    \/ active.what.apps /\ c.excluded

\* providerPolicyMetadata, as the connection of some application comes in.
providerPolicyMetadata(c, excluded) ==
    /\ conn[c].pc = "new"
    /\ LET in == [pc |-> "stamped", gen |-> IF enforced(active) THEN active.epoch ELSE 0,
                  global |-> enforced(active) /\ globalMode, via |-> FALSE, allowed |-> FALSE,
                  excluded |-> excluded] IN
       conn' = [conn EXCEPT ![c] = IF enforced(active) /\ refuses(in) THEN Fresh ELSE in]
    /\ UNCHANGED <<active, epoch, file, failedSave, mode, globalMode, applied, holder>>

\* Whether a node, with all it dials through, is allowed in the global mode.
providerPolicyCandidate(allowed) == allowsGlobal(active) /\ allowed

\* Whether providerPolicyDial refuses: in the global mode only an allowed
\* node may be dialled.
refusesDial(x, allowed) ==
    \/ refuses(x)
    \/ /\ x.global \/ globalMode
       /\ active.what.restricted \/ active.what.noGlobal
       /\ ~providerPolicyCandidate(allowed)

Dialled(x, allowed) == [x EXCEPT !.pc = "dialled", !.via = (mode = "global"), !.allowed = allowed]

\* providerPolicyDial, once mihomo has routed the connection to a node.
providerPolicyDial(c, allowed) ==
    /\ conn[c].pc = "stamped"
    /\ conn' = [conn EXCEPT ![c] = IF enforced(active) /\ refusesDial(conn[c], allowed) THEN Fresh
                                   ELSE Dialled(conn[c], allowed)]
    /\ UNCHANGED <<active, epoch, file, failedSave, mode, globalMode, applied, holder>>

\* External: the connection is registered, then mihomo asks for admission.
Join(c) ==
    /\ conn[c].pc = "dialled"
    /\ conn' = [conn EXCEPT ![c].pc = "registered"]
    /\ UNCHANGED <<active, epoch, file, failedSave, mode, globalMode, applied, holder>>

\* Mutant: a connection that is registered is open.
MutProviderPolicyAdmit(c) ==
    /\ conn[c].pc = "registered"
    /\ conn' = [conn EXCEPT ![c].pc = "open"]
    /\ UNCHANGED <<active, epoch, file, failedSave, mode, globalMode, applied, holder>>

providerPolicyAdmit(c) ==
    /\ conn[c].pc = "registered"
    /\ conn' = [conn EXCEPT ![c] = IF enforced(active) /\ refuses(conn[c]) THEN Fresh ELSE [@ EXCEPT !.pc = "open"]]
    /\ UNCHANGED <<active, epoch, file, failedSave, mode, globalMode, applied, holder>>

Next ==
    \/ \E named, vpn, loads \in BOOLEAN, profile \in Policies \cup {Malformed},
          n \in {"unset", "yes", "no"}, m \in {"rule", "global"} : applyConfig(named, profile, n, vpn, loads, m)
    \/ \E saves \in BOOLEAN : installProviderPolicy(saves) \/ saveProviderPolicy(saves)
    \/ \E m \in {"rule", "global"} : updateConfig(m)
    \/ blockProviderPolicy \/ closeProviderPolicyConnections \/ SetMode \/ providerPolicyModeChanged \/ Crash
    \/ \E c \in Conns : \/ \E b \in BOOLEAN : providerPolicyMetadata(c, b) \/ providerPolicyDial(c, b)
                        \/ Join(c) \/ providerPolicyAdmit(c)

Spec == Init /\ [][Next]_vars

-----------------------------------------------------------------------------

(* PolicyHolds: with no change under way, no open connection is one that   *)
(* the policy in force refuses, wherever it was when the policy or the mode *)
(* changed.  (One that came in while no policy was enforced carries no      *)
(* generation, and its node is not asked for again.)  And the saved policy  *)
(* is never weaker than the one in force, so that a core that dies comes    *)
(* back with it, unless the file could not be written as everything was     *)
(* blocked.                                                                 *)
PolicyHolds ==
    /\ holder = Idle /\ enforced(active) =>
         \A c \in Conns : conn[c].pc = "open" =>
             /\ ~refuses(conn[c])
             /\ conn[c].gen # 0 /\ conn[c].via /\ active.what.restricted => conn[c].allowed
             /\ conn[c].gen # 0 /\ conn[c].via => ~active.what.noGlobal
    /\ holder.pc \in {"idle", "mode", "hook"} /\ active # None /\ ~failedSave => file = active.what
=============================================================================
