-------------------------------- MODULE RcxNames --------------------------------
(***************************************************************************)
(* The names under which a received bundle is saved: Unpack gives every    *)
(* document one that the receiving user has free (core/rcx/bundle.go).     *)
(*                                                                         *)
(* A name or a title is a base and the numbers behind it, so "a-2" can be  *)
(* a title of its own as well as the second "a".  A reference is           *)
(* [source, name], source "" for one written without.  YAML is left out.   *)
(***************************************************************************)
EXTENDS Integers, Sequences, FiniteSets

CONSTANTS
    Lower,          \* ToLower and nameRun: the words of a title to what a name keeps of them
    maxBundleDocs   \* how many documents fit into maxBundleBytes

Name(base, n) == [base |-> base, n |-> n]
NoName == Name("", <<>>)
Id(source, name) == [source |-> source, name |-> name]

\* What freeName() keeps of a title.
Slug(title) == Name(Lower[title.base], title.n)

\* A plausible slip: the numbered name is not looked up again.
MutFreeName(used, title, fallback) ==
    LET base == IF Slug(title) = NoName THEN Name(fallback, <<>>) ELSE Slug(title)
    IN IF base \notin used THEN base ELSE Name(base.base, Append(base.n, 2))

freeName(used, title, fallback) ==
    LET base == IF Slug(title) = NoName THEN Name(fallback, <<>>) ELSE Slug(title)
        Numbered(i) == Name(base.base, Append(base.n, i))
    IN IF base \notin used THEN base
       ELSE Numbered(CHOOSE i \in 2 .. Cardinality(used) + 2 :
                        /\ Numbered(i) \notin used
                        /\ \A k \in 2 .. i - 1 : Numbered(k) \in used)

\* One turn of the loop of Unpack: a plain document is named by its title, one of a bundle by its key.
Take(acc, kind, d) ==
    LET name == freeName(acc.used, IF kind = "plain" THEN d.doc.title ELSE d.key, d.kind)
    IN [used |-> acc.used \cup {name}, names |-> Append(acc.names, name)]

\* The names Unpack gives the documents, in their order.
Names(shown, used) ==
    LET turn[i \in 0 .. Len(shown.docs)] ==
            IF i = 0 THEN [used |-> used, names |-> <<>>]
            ELSE Take(turn[i - 1], shown.kind, shown.docs[i])
    IN turn[Len(shown.docs)].names

\* A plausible slip: the references keep the names they had in the bundle.
MutUnpack(shown, used) ==
    LET named == Names(shown, used)
    IN [i \in DOMAIN named |-> [name |-> named[i], doc |-> shown.docs[i].doc]]

\* A reference to a profile of the bundle names what it is saved as.
Follow(ref, shown, named) ==
    LET hit == {i \in DOMAIN named : /\ shown.kind = "bundle"
                                     /\ shown.docs[i].kind = "profile"
                                     /\ ref = Id("user", shown.docs[i].key)}
    IN IF hit = {} THEN ref ELSE Id("user", named[CHOOSE i \in hit : TRUE])

\* Unpack(): a bundle past the limit is refused; references to renamed profiles follow them.
Unpack(shown, used) ==
    LET named == Names(shown, used)
        Saved(doc) == [doc EXCEPT !.refs = [k \in DOMAIN doc.refs |-> Follow(doc.refs[k], shown, named)]]
    IN IF shown.kind = "bundle" /\ Len(shown.docs) > maxBundleDocs THEN <<>>
       ELSE [i \in DOMAIN named |-> [name |-> named[i], doc |-> Saved(shown.docs[i].doc)]]
=============================================================================
