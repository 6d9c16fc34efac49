------------------------------ MODULE RcxIdentity ------------------------------
(***************************************************************************)
(* How RCX recognises a node after a subscription refresh                  *)
(* (core/rcx/identity.go, called by core/rcx/machine.go with the members   *)
(* of every bound group, one list after the other).  What was learned      *)
(* about a node is kept under its key, so a key that moves to another node *)
(* moves its history with it.  A digest is the thing it digests.           *)
(***************************************************************************)
EXTENDS Integers, Sequences, FiniteSets

CONSTANTS
    Lists,          \* the node lists a refresh may bring
    maxIdentities,
    MaxRefreshes    \* bound of the model: refreshes of one run

VARIABLES
    entries,        \* the index: a sequence of identities
    nodes,          \* the nodes of the last refresh
    keys,           \* the key each of them was given
    now             \* refreshes so far, the time SeenAt is stamped with

vars == <<entries, nodes, keys, now>>

\* A node as Resolve sees it: the digests of its configuration, endpoint and server, and its names.
Node == [strong : STRING, endpoint : STRING, provider : STRING, name : STRING, server : STRING]

\* The nth key of a node: digest() of its parts, digested again n times.
NewKey(node, n) == <<node.strong, node.provider, node.name, node.server, n>>

\* The positions of the entries Resolve finds under a value, as they were before the loop.
ByStrong(index, strong) == {i \in DOMAIN index : strong # "" /\ index[i].strong = strong}
ByEndpoint(index, endpoint) == {i \in DOMAIN index : endpoint # "" /\ index[i].endpoint = endpoint}
ByName(index, node) ==
    {i \in DOMAIN index : index[i].provider = node.provider /\ index[i].name = node.name}

\* unique(): the only candidate nobody claimed and on the same server; none if there are more.
Unique(acc, candidates, server) ==
    LET free == {i \in candidates : /\ acc.entries[i].key \notin acc.claimed
                                    /\ server # "" => acc.entries[i].server = server}
    IN IF Cardinality(free) = 1 THEN free ELSE {}

\* A plausible slip: an entry matched by its configuration is taken although another node of
\* this refresh has claimed its key.
MutRecognised(acc, index, node) ==
    LET strong == {i \in ByStrong(index, node.strong) : \A j \in ByStrong(index, node.strong) : j <= i}
        endpoint == Unique(acc, ByEndpoint(index, node.endpoint), "")
    IN IF strong # {} THEN strong
       ELSE IF endpoint # {} THEN endpoint
       ELSE Unique(acc, ByName(index, node), node.server)

\* The entry that recognises a node, as a set of at most one position: the last one with its
\* configuration, else the only one with its endpoint, else the only one with its name.
Recognised(acc, index, node) ==
    LET strong == {i \in ByStrong(index, node.strong) :
                      /\ \A j \in ByStrong(index, node.strong) : j <= i
                      /\ acc.entries[i].key \notin acc.claimed}
        endpoint == Unique(acc, ByEndpoint(index, node.endpoint), "")
    IN IF strong # {} THEN strong
       ELSE IF endpoint # {} THEN endpoint
       ELSE Unique(acc, ByName(index, node), node.server)

FreeKey(acc, node) ==
    LET n == CHOOSE n \in 0 .. Cardinality(acc.claimed) :
                 /\ NewKey(node, n) \notin acc.claimed
                 /\ \A k \in 0 .. n - 1 : NewKey(node, k) \in acc.claimed
    IN NewKey(node, n)

\* One turn of the loop of Resolve.
Assign(acc, index, node) ==
    LET found == Recognised(acc, index, node)
        key == IF found = {} THEN FreeKey(acc, node) ELSE acc.entries[CHOOSE i \in found : TRUE].key
        entry == [key |-> key, strong |-> node.strong, endpoint |-> node.endpoint,
                  name |-> node.name, provider |-> node.provider, server |-> node.server,
                  seenAt |-> now + 1]
    IN [entries |-> IF found = {} THEN Append(acc.entries, entry)
                    ELSE [acc.entries EXCEPT ![CHOOSE i \in found : TRUE] = entry],
        claimed |-> acc.claimed \cup {key},
        keys |-> Append(acc.keys, key)]

\* The entries a stable sort by SeenAt, the newest first, puts before entry i.
Before(index, i) ==
    {j \in DOMAIN index : index[j].seenAt > index[i].seenAt \/ (index[j].seenAt = index[i].seenAt /\ j < i)}

\* trim(): past the limit, the most recently seen entries stay, newest first and in their order.
Trim(index) ==
    IF Len(index) <= maxIdentities THEN index
    ELSE [place \in 1 .. maxIdentities |->
             index[CHOOSE i \in DOMAIN index : Cardinality(Before(index, i)) = place - 1]]

\* Resolve(): the loop over the nodes of a refresh.
Resolve(list) ==
    LET turn[i \in 0 .. Len(list)] ==
            IF i = 0 THEN [entries |-> entries, claimed |-> {}, keys |-> <<>>]
            ELSE Assign(turn[i - 1], entries, list[i])
    IN turn[Len(list)]

Refresh(list) ==
    /\ now < MaxRefreshes
    /\ LET done == Resolve(list)
       IN /\ entries' = Trim(done.entries)
          /\ keys' = done.keys
    /\ nodes' = list
    /\ now' = now + 1

\* Known(): the keys whose evidence survives the prune after a refresh.
Known == {entries[i].key : i \in DOMAIN entries}

Init == entries = <<>> /\ nodes = <<>> /\ keys = <<>> /\ now = 0

Next == \E list \in Lists : Refresh(list)

Spec == Init /\ [][Next]_vars

\* Nodes of one group: each stands in the list once, under a name and a configuration of its own.
Distinct(list) ==
    \A i, j \in DOMAIN list : list[i].strong = list[j].strong \/ list[i].name = list[j].name => i = j

---------------------------------------------------------------------------
\* A key goes to one node of a refresh.
KeysAreApart == \A i, j \in DOMAIN keys : keys[i] = keys[j] => i = j

\* It is known when the evidence is pruned, as long as the index has room for the refresh.
KeysAreKnown == Len(nodes) <= maxIdentities => \A i \in DOMAIN keys : keys[i] \in Known

\* The keys of a refresh are apart and known; and a refresh that brings the same nodes again,
\* each once, leaves every one its key and with it its history, whatever credentials and names
\* rotated before (Resolve, trim and the prune after them in machine.go).
KeysAreKept ==
    /\ [](KeysAreApart /\ KeysAreKnown)
    /\ [][nodes' = nodes /\ Distinct(nodes) => keys' = keys]_vars
=============================================================================
