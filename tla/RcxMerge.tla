------------------------------- MODULE RcxMerge -------------------------------
(***************************************************************************)
(* A profile or scenario the user forked, and the source's later changes   *)
(* brought over into it: core/rcx/merge.go under the studio's "merge"      *)
(* (core/rcx/studio.go), as lib/views/proxies/routing_studio.dart uses it. *)
(*                                                                         *)
(* A document is a YAML mapping.  A node is a scalar, a mapping from keys  *)
(* to nodes, or a list of mappings that each have a name; None stands for  *)
(* a key that is not there.  Layout, comments and the order of a mapping's *)
(* keys carry no meaning and are left out.                                 *)
(***************************************************************************)
EXTENDS Naturals, Sequences, SequencesExt, FiniteSets

CONSTANTS
    Documents,      \* the documents a source publishes and a user writes
    MaxBrought      \* bound of the model: times the user brings changes over

None == [kind |-> "none"]
Scalar(v) == [kind |-> "scalar", value |-> v]
Mapping(f) == [kind |-> "mapping", of |-> f]
List(items) == [kind |-> "list", items |-> items]
Empty == Mapping(<<>>)

VARIABLES
    base,       \* the source as it was when the fork last took it over
    source,     \* the source as it is
    mine,       \* the user's fork
    conflicts,  \* the paths the last merge reported
    brought     \* merges so far

vars == <<base, source, mine, conflicts, brought>>

---------------------------------------------------------------------------
(* merge.go *)

mappingKeys(node) == IF node.kind = "mapping" THEN DOMAIN node.of ELSE {}

mappingValue(node, key) == IF key \in mappingKeys(node) THEN node.of[key] ELSE None

\* A plausible slip: a key the source removed is left in the fork.
MutSetMappingValue(node, key, value) ==
    IF value = None THEN node
    ELSE Mapping([k \in mappingKeys(node) \cup {key} |-> IF k = key THEN value ELSE node.of[k]])

\* setMappingValue(): replaces, adds or, with None, removes the key.
setMappingValue(node, key, value) ==
    Mapping([k \in (mappingKeys(node) \ {key}) \cup (IF value = None THEN {} ELSE {key}) |->
                IF k = key THEN value ELSE node.of[k]])

itemName(item) == mappingValue(item, "name")

\* namedList(): a list; that each of its items has a name is the List constructor.
namedList(node) == node.kind = "list"

\* The names of a list and the item under a name; a nil list has none.
Names(list) == IF list = None THEN {} ELSE {itemName(list.items[i]) : i \in DOMAIN list.items}

namedItem(list, name) ==
    IF name \in Names(list)
    THEN list.items[CHOOSE i \in DOMAIN list.items :
                       /\ itemName(list.items[i]) = name
                       /\ \A j \in 1 .. i - 1 : itemName(list.items[j]) # name]
    ELSE None

RECURSIVE mergeMapping(_, _, _, _)
RECURSIVE mergeNamed(_, _, _, _)

\* What one key of a mapping comes to: the value left in the fork and the conflicts under it.
mergeKey(b, t, m, path) ==
    IF t = b \/ m = t THEN [node |-> m, conflicts |-> {}]
    ELSE IF m = b THEN [node |-> t, conflicts |-> {}]
    ELSE IF m.kind = "mapping" /\ t.kind = "mapping" /\ b.kind \in {"none", "mapping"}
    THEN mergeMapping(IF b = None THEN Empty ELSE b, t, m, path)
    ELSE IF namedList(m) /\ namedList(t) /\ (b = None \/ namedList(b))
    THEN mergeNamed(b, t, m, path)
    ELSE [node |-> m, conflicts |-> {path}]

mergeMapping(b, t, m, path) ==
    LET Done(key) == mergeKey(mappingValue(b, key), mappingValue(t, key), mappingValue(m, key),
                              Append(path, key))
        keys == mappingKeys(m) \cup mappingKeys(t)
    IN [node |-> FoldLeft(LAMBDA node, key : setMappingValue(node, key, Done(key).node), m,
                          SetToSeq(keys)),
        conflicts |-> UNION {Done(key).conflicts : key \in keys}]

\* mergeNamed(): the user's items in the user's order, without those the source dropped and the
\* user left alone; then each new item of the source behind the nearest one it follows there.
mergeNamed(b, t, m, path) ==
    LET Path(name) == Append(path, name.value)
        Merged(item) ==
            mergeMapping(IF namedItem(b, itemName(item)) = None THEN Empty ELSE namedItem(b, itemName(item)),
                         namedItem(t, itemName(item)), item, Path(itemName(item)))
        Dropped(item) == /\ namedItem(t, itemName(item)) = None
                         /\ namedItem(b, itemName(item)) = item
        Kept(item) == IF namedItem(t, itemName(item)) = None THEN item ELSE Merged(item).node
        own == SelectSeq(m.items, LAMBDA item : ~Dropped(item))
        kept == [i \in DOMAIN own |-> Kept(own[i])]
        fresh == {i \in DOMAIN t.items :
                     /\ itemName(t.items[i]) \notin Names(m)
                     /\ itemName(t.items[i]) \notin Names(b)}
        At(list, i) ==
            LET before == {j \in 1 .. i - 1 : itemName(t.items[j]) \in Names(List(list))}
            IN IF before = {} THEN 0
               ELSE LET j == CHOOSE j \in before : \A k \in before : k <= j
                    IN CHOOSE p \in DOMAIN list : itemName(list[p]) = itemName(t.items[j])
    IN [node |-> List(FoldLeft(LAMBDA list, i :
                                   IF i \in fresh THEN InsertAt(list, At(list, i) + 1, t.items[i])
                                   ELSE list,
                               kept, [i \in DOMAIN t.items |-> i])),
        conflicts |->
            UNION {Merged(m.items[i]).conflicts : i \in {i \in DOMAIN m.items :
                                                            itemName(m.items[i]) \in Names(t)}}
            \cup {Path(itemName(m.items[i])) : i \in {i \in DOMAIN m.items :
                     /\ itemName(m.items[i]) \in Names(b) \ Names(t)
                     /\ namedItem(b, itemName(m.items[i])) # m.items[i]}}
            \cup {Path(itemName(t.items[i])) : i \in {i \in DOMAIN t.items :
                     /\ itemName(t.items[i]) \in Names(b) \ Names(m)
                     /\ namedItem(b, itemName(t.items[i])) # t.items[i]}}]

---------------------------------------------------------------------------
Init ==
    /\ source \in Documents
    /\ base = source
    /\ mine = source
    /\ conflicts = {}
    /\ brought = 0

\* The subscription or the application brings a new version of the source.
Publish(doc) ==
    /\ brought < MaxBrought
    /\ doc # source
    /\ source' = doc
    /\ UNCHANGED <<base, mine, conflicts, brought>>

\* The user edits the fork.
Edit(doc) ==
    /\ brought < MaxBrought
    /\ doc # mine
    /\ mine' = doc
    /\ conflicts' = {}
    /\ UNCHANGED <<base, source, brought>>

\* mergeDocument(), and _bringOver() of the studio around it: the source merged is the next base.
BringOver ==
    /\ brought < MaxBrought
    /\ source # base
    /\ LET merged == mergeMapping(base, source, mine, <<>>)
       IN /\ mine' = merged.node
          /\ conflicts' = merged.conflicts
    /\ base' = source
    /\ brought' = brought + 1
    /\ UNCHANGED source

\* mergeDocument() fails: what was merged is no profile or scenario, and the studio keeps all.
Refused ==
    /\ brought < MaxBrought
    /\ source # base
    /\ brought' = brought + 1
    /\ UNCHANGED <<base, source, mine, conflicts>>

Next ==
    \/ \E doc \in Documents : Publish(doc) \/ Edit(doc)
    \/ BringOver
    \/ Refused

Spec == Init /\ [][Next]_vars

---------------------------------------------------------------------------
\* The paths of a document and the node at one; an item of a list stands under its name.
RECURSIVE Paths(_)
Paths(node) ==
    {<<>>} \cup
    (IF node.kind = "mapping" THEN UNION {{<<key>> \o p : p \in Paths(node.of[key])} : key \in mappingKeys(node)}
     ELSE IF node.kind = "list"
     THEN UNION {{<<name.value>> \o p : p \in Paths(namedItem(node, name))} : name \in Names(node)}
     ELSE {})

RECURSIVE Node(_, _)
Node(node, path) ==
    IF path = <<>> THEN node
    ELSE IF node.kind = "mapping" THEN Node(mappingValue(node, Head(path)), Tail(path))
    ELSE IF node.kind = "list" THEN Node(namedItem(node, Scalar(Head(path))), Tail(path))
    ELSE None

\* What stands at a path: its scalar, or what kind of node it is.
Leaf(doc, path) ==
    LET node == Node(doc, path) IN IF node.kind = "scalar" THEN node.value ELSE node.kind

Order(doc, list) == LET node == Node(doc, <<list>>) IN
    IF node.kind = "list" THEN [i \in DOMAIN node.items |-> itemName(node.items[i])] ELSE <<>>

\* Bringing the source's changes over follows the source wherever the user changed nothing and
\* keeps the user's value wherever the user did, whatever is nested in what and in what order
\* lists hold their items; it reports exactly the places both changed, keeps the user's side of
\* those, and leaves the user's items in the user's order (MergeProfiles, MergeScenarios).
BringsOverOnlyTheSource ==
    [][brought' # brought /\ base' # base =>
        /\ \A path \in Paths(base) \cup Paths(source) \cup Paths(mine) :
              LET b == Leaf(base, path)
                  t == Leaf(source, path)
                  m == Leaf(mine, path)
              IN IF \E c \in conflicts' : IsPrefix(c, path)
                 THEN Leaf(mine', path) = m
                 ELSE /\ Leaf(mine', path) = IF m = b THEN t ELSE m
                      /\ m = b \/ t = b \/ m = t
        /\ Paths(mine') \subseteq Paths(source) \cup Paths(mine)
        /\ \A c \in conflicts' :
              /\ Node(mine, c) # Node(base, c)
              /\ Node(source, c) # Node(base, c)
              /\ Node(mine, c) # Node(source, c)
        /\ \A list \in mappingKeys(mine) :
              Node(mine, <<list>>) # Node(base, <<list>>) =>
                  LET Common(names) == SelectSeq(names, LAMBDA n :
                          n \in ToSet(Order(mine, list)) /\ n \in ToSet(Order(mine', list)))
                  IN Common(Order(mine', list)) = Common(Order(mine, list))]_vars
=============================================================================
