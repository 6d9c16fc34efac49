----------------------------- MODULE FileOwnership -----------------------------
(***************************************************************************)
(* Files an elevated core leaves in the application's home                 *)
(* (core/ownership_unix.go): they are root's until a debounced walk gives  *)
(* them to the user.  Replies too large for a frame are such files         *)
(* (core/spill.go), written by handlers while walks are under way and      *)
(* deleted by the host as it reads them.                                   *)
(***************************************************************************)
EXTENDS Naturals, Sequences, FiniteSets

CONSTANTS
    Order,      \* paths under the home directory, as WalkDir visits them
    Inodes,     \* bound: files the core makes
    Walkers     \* bound: reclaimOwnership goroutines

Paths == {Order[k] : k \in DOMAIN Order}
Handlers == Inodes    \* one handler per file

VARIABLES
    at,       \* path -> inode, "none", or "user": a file of the user
    owner,    \* inode -> "unmade", "root" or "user"
    linked,   \* inodes with another name (Nlink > 1), ever
    pending,  \* reclaimPending
    walker,   \* walker -> its locals
    writer    \* inode -> its handler

vars == <<at, owner, linked, pending, walker, writer>>

Idle == [pc |-> "idle"]

Init ==
    /\ at = [p \in Paths |-> "none"]
    /\ owner = [i \in Inodes |-> "unmade"]
    /\ linked = {}
    /\ pending = FALSE
    /\ walker = [w \in Walkers |-> Idle]
    /\ writer = [i \in Handlers |-> Idle]

-----------------------------------------------------------------------------
(* Replies: spillResponse, writeSpilledResponse. *)

\* createCoreTempFile: a name nobody has.  makeSpilledResponseDir has given
\* the directory away at once (reclaimDirOwnership).
createCoreTempFile(i, p) ==
    /\ owner[i] = "unmade" /\ at[p] = "none"
    /\ at' = [at EXCEPT ![p] = i]
    /\ owner' = [owner EXCEPT ![i] = "root"]
    /\ writer' = [writer EXCEPT ![i] = [pc |-> "made", path |-> p]]
    /\ UNCHANGED <<linked, pending, walker>>

\* The mode, the data or the close fails: the file is removed again, and
\* the reply goes as it is.
Fails(i) ==
    /\ writer[i].pc = "made"
    /\ at' = IF at[writer[i].path] = i THEN [at EXCEPT ![writer[i].path] = "none"] ELSE at
    /\ writer' = [writer EXCEPT ![i] = [pc |-> "replied"]]
    /\ UNCHANGED <<owner, linked, pending, walker>>

\* scheduleReclaimOwnership, at the end of the write: one goroutine sleeps.
scheduleReclaimOwnership(i) ==
    /\ writer[i].pc = "made"
    /\ writer' = [writer EXCEPT ![i] = [pc |-> "replied"]]
    /\ IF pending THEN UNCHANGED <<pending, walker>>
       ELSE /\ pending' = TRUE
            /\ \E w \in Walkers :
                 /\ walker[w] = Idle
                 /\ walker' = [walker EXCEPT ![w] = [pc |-> "sleep"]]
    /\ UNCHANGED <<at, owner, linked>>

-----------------------------------------------------------------------------
(* reclaimOwnership. *)

\* Mutant: the flag falls once the walk is over.
MutWake(w) ==
    /\ walker[w].pc = "sleep"
    /\ walker' = [walker EXCEPT ![w] = [pc |-> "open"]]
    /\ UNCHANGED <<at, owner, linked, pending, writer>>

\* After the debounce the flag falls first, then the walk begins.
Wake(w) ==
    /\ walker[w].pc = "sleep"
    /\ pending' = FALSE
    /\ walker' = [walker EXCEPT ![w] = [pc |-> "open"]]
    /\ UNCHANGED <<at, owner, linked, writer>>

shouldReclaimEntry(i) == i \in Inodes /\ owner[i] # "user" /\ i \notin linked

\* WalkDir reads the names of a directory, then looks at one after the other;
\* a file made meanwhile is not among them.
ReadDir(w) ==
    /\ walker[w].pc = "open"
    /\ walker' = [walker EXCEPT ![w] = [pc |-> "walk", targets |-> <<>>, names |-> {p \in Paths : at[p] # "none"}]]
    /\ UNCHANGED <<at, owner, linked, pending, writer>>

\* The name that comes next.
First(names) ==
    LET k == CHOOSE k \in DOMAIN Order : Order[k] \in names /\ \A j \in DOMAIN Order : Order[j] \in names => k <= j
    IN Order[k]

collectReclaimTargets(w) ==
    LET x == walker[w] p == First(x.names) IN
    /\ x.pc = "walk" /\ x.names # {}
    /\ walker' = [walker EXCEPT ![w] =
         [pc |-> "walk", names |-> x.names \ {p},
          targets |-> IF shouldReclaimEntry(at[p]) THEN Append(x.targets, [path |-> p, ino |-> at[p]]) ELSE x.targets]]
    /\ UNCHANGED <<at, owner, linked, pending, writer>>

Walked(w) ==
    /\ walker[w].pc = "walk" /\ walker[w].names = {}
    /\ walker' = [walker EXCEPT ![w] = [pc |-> "chown", targets |-> walker[w].targets]]
    /\ UNCHANGED <<at, owner, linked, pending, writer>>

\* reclaimEntry: the file the path leads to now is given away only if it is
\* the one that was collected, with one name and still not the user's.
reclaimEntry(w) ==
    LET t == Head(walker[w].targets) i == at[t.path] IN
    /\ walker[w].pc = "chown" /\ walker[w].targets # <<>>
    /\ owner' = IF i = t.ino /\ shouldReclaimEntry(i) THEN [owner EXCEPT ![i] = "user"] ELSE owner
    /\ walker' = [walker EXCEPT ![w] = [pc |-> "chown", targets |-> Tail(walker[w].targets)]]
    /\ UNCHANGED <<at, linked, pending, writer>>

Ends(w) ==
    /\ walker[w].pc = "chown" /\ walker[w].targets = <<>>
    /\ walker' = [walker EXCEPT ![w] = Idle]
    /\ UNCHANGED <<at, owner, linked, pending, writer>>

-----------------------------------------------------------------------------
(* The host: reads and deletes a reply, writes a file of its own to a free  *)
(* name; a backup of the home links to a file.  handleInitClash clears what *)
(* replies there are (clearSpilledResponses).                               *)
Delete(p) ==
    /\ at[p] # "none"
    /\ at' = [at EXCEPT ![p] = "none"]
    /\ UNCHANGED <<owner, linked, pending, walker, writer>>

Write(p) ==
    /\ at[p] = "none"
    /\ at' = [at EXCEPT ![p] = "user"]
    /\ UNCHANGED <<owner, linked, pending, walker, writer>>

Link(p) ==
    /\ at[p] \in Inodes \ linked
    /\ linked' = linked \cup {at[p]}
    /\ UNCHANGED <<at, owner, pending, walker, writer>>

clearSpilledResponses ==
    /\ \E p \in Paths : at[p] \in Inodes
    /\ at' = [p \in Paths |-> IF at[p] \in Inodes THEN "none" ELSE at[p]]
    /\ UNCHANGED <<owner, linked, pending, walker, writer>>

Next ==
    \/ \E i \in Inodes : Fails(i) \/ scheduleReclaimOwnership(i) \/ \E p \in Paths : createCoreTempFile(i, p)
    \/ \E w \in Walkers : Wake(w) \/ ReadDir(w) \/ collectReclaimTargets(w) \/ Walked(w) \/ reclaimEntry(w) \/ Ends(w)
    \/ \E p \in Paths : Delete(p) \/ Write(p) \/ Link(p)
    \/ clearSpilledResponses

Spec == Init /\ [][Next]_vars

-----------------------------------------------------------------------------

\* A walker that will still come by the file at p.
Comes(w, p) ==
    \/ walker[w].pc \in {"sleep", "open"}
    \/ walker[w].pc = "walk" /\ p \in walker[w].names
    \/ walker[w].pc \in {"walk", "chown"} /\ \E k \in DOMAIN walker[w].targets :
         walker[w].targets[k] = [path |-> p, ino |-> at[p]]

(* NothingStaysRoots: a file whose write is over and that is still root's   *)
(* has a walk that comes by it, however writes, walks and flags interleave. *)
NothingStaysRoots ==
    /\ \A p \in Paths : at[p] \in Inodes \ linked /\ owner[at[p]] = "root" /\ writer[at[p]].pc = "replied" =>
         \E w \in Walkers : Comes(w, p)
    /\ pending => \E w \in Walkers : walker[w].pc = "sleep"
=============================================================================
