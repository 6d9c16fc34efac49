---------------------------- MODULE ResourceUpdates ----------------------------
(***************************************************************************)
(* Updates of providers and of geo data (core/provider.go, core/geo.go).   *)
(* One claim per resource keeps two manual updates apart.  mihomo's own    *)
(* geo updater cannot be refused: a hook tells of its runs, and each       *)
(* manual geo update calls the same hook from within.                      *)
(***************************************************************************)
EXTENDS Naturals

CONSTANTS Geos, Providers, Callers

Resources == Geos \cup Providers

VARIABLES
    claim,     \* updateClaims.fromHook: "free", "manual" or "hook"
    caller,    \* goroutines of manual updates
    auto,      \* resource -> mihomo's own run: "off", "announced"
    installed, \* providers of the running configuration
    unseen,    \* resources changed since the routes were last looked at
    wanted,    \* updater.GeoAutoUpdate
    registered \* mihomo's geo updater runs

vars == <<claim, caller, auto, installed, unseen, wanted, registered>>

Idle == [pc |-> "idle"]

Init ==
    /\ claim = [r \in Resources |-> "free"]
    /\ caller = [c \in Callers |-> Idle]
    /\ auto = [g \in Geos |-> "off"]
    /\ installed = Providers
    /\ unseen = {}
    /\ wanted = FALSE /\ registered = FALSE

claimUpdateAs(r, who) == claim' = IF claim[r] = "free" THEN [claim EXCEPT ![r] = who] ELSE claim

releaseUpdate(r) == claim' = [claim EXCEPT ![r] = "free"]

\* Mutant: the hook gives back whatever claim there is.
MutReleaseHookUpdate(r) == claim' = [claim EXCEPT ![r] = "free"]

releaseHookUpdate(r) == claim' = IF claim[r] = "hook" THEN [claim EXCEPT ![r] = "free"] ELSE claim

-----------------------------------------------------------------------------
(* Providers: handleUpdateExternalProvider, handleSideLoadExternalProvider. *)

\* updateExternalProvider looks the provider up, then claims its name.
lookupExternalProvider(c, p) ==
    /\ caller[c] = Idle /\ p \in installed
    /\ caller' = [caller EXCEPT ![c] = [pc |-> "found", r |-> p]]
    /\ UNCHANGED <<claim, auto, installed, unseen, wanted, registered>>

\* Refused: "external provider is updating".
updateExternalProvider(c) ==
    /\ caller[c].pc = "found"
    /\ claimUpdateAs(caller[c].r, "manual")
    /\ caller' = [caller EXCEPT ![c] = IF claim[@.r] = "free" THEN [@ EXCEPT !.pc = "update"] ELSE Idle]
    /\ UNCHANGED <<auto, installed, unseen, wanted, registered>>

\* The provider's own update, from the network or from what the host sent.
Update(c, works) ==
    /\ caller[c].pc = "update"
    /\ unseen' = IF works THEN unseen \cup {caller[c].r} ELSE unseen
    /\ caller' = [caller EXCEPT ![c] = [@ EXCEPT !.pc = IF works THEN "refresh" ELSE "release"]]
    /\ UNCHANGED <<claim, auto, installed, wanted, registered>>

\* refreshRoute: the router looks again at everything.
refreshRoute(c) ==
    /\ caller[c].pc = "refresh"
    /\ unseen' = {}
    /\ caller' = [caller EXCEPT ![c] = [@ EXCEPT !.pc = "release"]]
    /\ UNCHANGED <<claim, auto, installed, wanted, registered>>

\* A configuration is applied: its providers replace those there were, and
\* it ends with a look at the routes of its own.
applyConfig(ps) ==
    /\ wanted = registered       \* configMu
    /\ installed' = ps
    /\ unseen' = {}
    /\ UNCHANGED <<claim, caller, auto, wanted, registered>>

-----------------------------------------------------------------------------
(* Geo data. *)

\* handleUpdateGeoData claims and hands the rest to a goroutine.
handleUpdateGeoData(c, g) ==
    /\ caller[c] = Idle /\ claim[g] = "free"
    /\ claimUpdateAs(g, "manual")
    /\ caller' = [caller EXCEPT ![c] = [pc |-> "geo", r |-> g]]
    /\ UNCHANGED <<auto, installed, unseen, wanted, registered>>

\* onGeoUpdate(updating): from within a manual update ...
onGeoUpdateBegins(c) ==
    /\ caller[c].pc = "geo"
    /\ claimUpdateAs(caller[c].r, "hook")
    /\ caller' = [caller EXCEPT ![c] = [@ EXCEPT !.pc = "fetching"]]
    /\ UNCHANGED <<auto, installed, unseen, wanted, registered>>

\* ... and its end, which has the routes looked at again if the data is new.
onGeoUpdateEnds(c, works) ==
    /\ caller[c].pc = "fetching"
    /\ releaseHookUpdate(caller[c].r)
    /\ unseen' = IF works THEN {} ELSE unseen     \* changed, and changeRoute
    /\ caller' = [caller EXCEPT ![c] = [@ EXCEPT !.pc = "release"]]
    /\ UNCHANGED <<auto, installed, wanted, registered>>

\* The deferred release of a manual update, of either kind.
Release(c) ==
    /\ caller[c].pc = "release"
    /\ releaseUpdate(caller[c].r)
    /\ caller' = [caller EXCEPT ![c] = Idle]
    /\ UNCHANGED <<auto, installed, unseen, wanted, registered>>

\* mihomo's own updater runs, whoever holds the claim, and says so.
AutoBegins(g) ==
    /\ registered /\ auto[g] = "off"
    /\ claimUpdateAs(g, "hook")
    /\ auto' = [auto EXCEPT ![g] = "announced"]
    /\ UNCHANGED <<caller, installed, unseen, wanted, registered>>

AutoEnds(g, works) ==
    /\ auto[g] = "announced"
    /\ releaseHookUpdate(g)
    /\ auto' = [auto EXCEPT ![g] = "off"]
    /\ unseen' = IF works THEN {} ELSE unseen
    /\ UNCHANGED <<caller, installed, wanted, registered>>

-----------------------------------------------------------------------------
(* syncGeoUpdater: under configMu, in two steps, for the updater's own      *)
(* goroutine runs between them.                                             *)
syncGeoUpdater(on) ==
    /\ wanted = registered       \* the one before has been reconciled
    /\ wanted # on
    /\ wanted' = on
    /\ UNCHANGED <<claim, caller, auto, installed, unseen, registered>>

reconcileGeoUpdater ==
    /\ wanted # registered
    /\ registered' = wanted
    /\ UNCHANGED <<claim, caller, auto, installed, unseen, wanted>>

Next ==
    \/ \E c \in Callers :
         \/ \E p \in Providers : lookupExternalProvider(c, p)
         \/ \E g \in Geos : handleUpdateGeoData(c, g)
         \/ updateExternalProvider(c) \/ refreshRoute(c) \/ onGeoUpdateBegins(c) \/ Release(c)
         \/ \E works \in BOOLEAN : Update(c, works) \/ onGeoUpdateEnds(c, works)
    \/ \E ps \in SUBSET Providers : applyConfig(ps)
    \/ \E g \in Geos : AutoBegins(g) \/ \E works \in BOOLEAN : AutoEnds(g, works)
    \/ \E on \in BOOLEAN : syncGeoUpdater(on)
    \/ reconcileGeoUpdater

Spec == Init /\ [][Next]_vars

-----------------------------------------------------------------------------

Holds(c, r) == caller[c].pc \in {"update", "refresh", "release", "geo", "fetching"} /\ caller[c].r = r

(* ClaimHasItsOwner: a manual update holds the claim of its resource from   *)
(* its first to its last step, alone, whatever runs of mihomo's updater     *)
(* begin and end meanwhile; a claim of the hook is held only while such a   *)
(* run is on; a change nobody has looked at has an update still at work.    *)
ClaimHasItsOwner ==
    /\ \A r \in Resources : claim[r] = "manual" <=> \E c \in Callers : Holds(c, r)
    /\ \A r \in Resources, c, d \in Callers : Holds(c, r) /\ Holds(d, r) => c = d
    /\ \A g \in Geos : claim[g] = "hook" => auto[g] = "announced"
    /\ \A r \in unseen : \E c \in Callers : Holds(c, r)
=============================================================================
