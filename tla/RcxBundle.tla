------------------------------- MODULE RcxBundle -------------------------------
(***************************************************************************)
(* Sharing a profile or a scenario: Export packs it with every profile it  *)
(* reaches, under new names, and Unpack takes the bundle apart under names *)
(* the receiving user has free (core/rcx/bundle.go, the studio's "export"  *)
(* and "unpack"); lib/views/proxies/routing_import.dart saves the items.   *)
(* Names and references are those of RcxNames.                             *)
(***************************************************************************)
EXTENDS RcxNames, FiniteSetsExt

CONSTANTS
    Libraries,      \* what the sharing user may have: functions from ids to documents
    TakenNames      \* the names the receiving user may have taken

None == [kind |-> "none"]

VARIABLES
    lib,        \* the sharing user's library, scenarios and profiles
    shared,     \* the id that was exported
    text,       \* what Export returned
    taken,      \* the names the receiving user had before
    theirs      \* the receiving user's documents by name

vars == <<lib, shared, text, taken, theirs>>

---------------------------------------------------------------------------
CanonicalID(ref) == IF ref.source = "" THEN Id("sub", ref.name) ELSE ref

isBuiltinRef(ref) == CanonicalID(ref).source = "builtin"

\* profileRefs(): the references of a document, "extends" or the programs and routes of a scenario.
profileRefs(doc) == doc.refs

\* The loop of Export: the queue of references, each profile named when it is first met.  The
\* library is finite, so the queue runs dry.
RECURSIVE Reach(_, _)
Reach(acc, queue) ==
    IF queue = <<>> THEN acc
    ELSE LET ref == Head(queue)
             canon == CanonicalID(ref)
         IN IF acc.error \/ isBuiltinRef(ref) \/ canon \in DOMAIN acc.names
            THEN Reach(acc, Tail(queue))
            ELSE IF canon \notin DOMAIN lib \/ lib[canon].kind # "profile"
            THEN Reach([acc EXCEPT !.error = TRUE], Tail(queue))
            ELSE LET name == freeName(acc.used, IF lib[canon].title = NoName THEN canon.name ELSE lib[canon].title,
                                      "profile")
                 IN Reach([acc EXCEPT !.names = [c \in DOMAIN acc.names \cup {canon} |->
                                                    IF c = canon THEN name ELSE acc.names[c]],
                                      !.used = @ \cup {name},
                                      !.order = Append(@, canon)],
                          Tail(queue) \o profileRefs(lib[canon]))

\* Every reference that is not to a built-in now names a profile of the bundle.
Renamed(doc, names) ==
    [doc EXCEPT !.refs = [i \in DOMAIN @ |-> IF isBuiltinRef(@[i]) THEN @[i]
                                             ELSE Id("user", names[CanonicalID(@[i])])]]

\* Export(): the document as it is when it needs only built-ins, else a bundle.
Export(id) ==
    LET root == lib[id]
        reached == Reach([names |-> <<>>, used |-> {}, order |-> <<>>, error |-> FALSE],
                         profileRefs(root))
        title == IF root.title = NoName THEN id.name ELSE root.title
        self == [kind |-> root.kind, key |-> freeName(reached.used, title, root.kind),
                 doc |-> Renamed(root, reached.names)]
        others == [i \in DOMAIN reached.order |->
                      [kind |-> "profile", key |-> reached.names[reached.order[i]],
                       doc |-> Renamed(lib[reached.order[i]], reached.names)]]
    IN IF reached.error THEN None
       ELSE IF reached.order = <<>> THEN [kind |-> "plain", docs |-> <<[kind |-> root.kind, key |-> NoName,
                                                                       doc |-> root]>>]
       ELSE [kind |-> "bundle", docs |-> IF root.kind = "scenario" THEN Append(others, self)
                                         ELSE <<self>> \o others]

---------------------------------------------------------------------------
Own(name) == [kind |-> "profile", title |-> NoName, body |-> "own", refs |-> <<>>]

Init ==
    /\ lib \in Libraries
    /\ shared = None
    /\ text = None
    /\ taken \in SUBSET TakenNames
    /\ theirs = [name \in taken |-> Own(name)]

Share(id) ==
    /\ shared = None
    /\ shared' = id
    /\ text' = Export(id)
    /\ UNCHANGED <<lib, taken, theirs>>

\* The receiving user opens the text and adds it: every item is saved under its name.
Add ==
    /\ text # None
    /\ LET items == Unpack(text, taken)
       IN theirs' = [name \in taken \cup {items[i].name : i \in DOMAIN items} |->
                        IF \E i \in DOMAIN items : items[i].name = name
                        THEN items[Max({i \in DOMAIN items : items[i].name = name})].doc
                        ELSE theirs[name]]
    /\ text' = None
    /\ UNCHANGED <<lib, shared, taken>>

Next == Add \/ \E id \in DOMAIN lib : Share(id)

Spec == Init /\ [][Next]_vars

---------------------------------------------------------------------------
\* A document with all it refers to, as far down as it goes: what the engine would run.
RECURSIVE Unfold(_, _)
Unfold(doc, docs) ==
    [body |-> doc.body, refs |-> [i \in DOMAIN doc.refs |->
        LET id == CanonicalID(doc.refs[i])
        IN IF id \in DOMAIN docs THEN Unfold(docs[id], docs)
           ELSE [body |-> IF id.source = "builtin" THEN id.name.base ELSE "missing", refs |-> <<>>]]]

Received == [id \in {Id("user", name) : name \in DOMAIN theirs} |-> theirs[id.name]]

\* What is shared arrives: once added, a document the receiving user did not have unfolds to
\* exactly what the shared one unfolds to, through every profile it reaches, however titles,
\* numbered names and names already taken collide; and none of the receiving user's own
\* documents is overwritten (Export, Unpack, freeName).
BundleArrives ==
    /\ \A name \in taken : theirs[name] = Own(name)
    /\ shared # None /\ DOMAIN theirs # taken =>
          \E name \in DOMAIN theirs \ taken :
              Unfold(theirs[name], Received) = Unfold(lib[shared], lib)
=============================================================================
