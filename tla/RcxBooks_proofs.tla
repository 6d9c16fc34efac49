---------------------------- MODULE RcxBooks_proofs ----------------------------
(***************************************************************************)
(* What is proved of what RCX keeps, for every number of networks, nodes   *)
(* and levels and every limit: the evidence of a kept network stays, the   *)
(* probe budget is kept to over restarts, the keys of a refresh are apart  *)
(* and known, and the names of received documents are new.                 *)
(***************************************************************************)
EXTENDS RcxBooks, SequenceTheorems, FiniteSetTheorems, WellFoundedInduction, TLAPS

CONSTANTS Lower, maxBundleDocs

Docs == INSTANCE RcxNames

-------------------------------------------------------------------------------
(* The evidence.                                                            *)

Once(s) == \A i, j \in DOMAIN s : s[i] = s[j] => i = j

EnvsInv ==
    /\ envKey \in Networks
    /\ envs \in Seq(Networks)
    /\ Once(envs)
    /\ Len(envs) <= MaxEnvironments

FactsInv ==
    /\ nodes \in [Networks -> SUBSET Keys]
    /\ \A e \in Networks \ ToSet(envs) : nodes[e] = {}
    /\ noted \subseteq Keys

EvidenceInv == EnvsInv /\ FactsInv /\ KeptNotesStick

(* Taking one element out of a sequence without repetitions leaves the      *)
(* others, each once (RemoveAt).                                         *)
LEMMA OneGoes ==
    ASSUME NEW S, NEW s \in Seq(S), NEW e \in ToSet(s), Once(s)
    PROVE  /\ RemoveAt(s, Place(s, e)) \in Seq(S)
           /\ Len(RemoveAt(s, Place(s, e))) = Len(s) - 1
           /\ Once(RemoveAt(s, Place(s, e)))
           /\ ToSet(RemoveAt(s, Place(s, e))) = ToSet(s) \ {e}
<1> DEFINE n == Place(s, e)
           r == RemoveAt(s, Place(s, e))
<1>1. \E i \in 1 .. Len(s) : s[i] = e
  BY DEF ToSet
<1>2. n \in 1 .. Len(s) /\ s[n] = e
  BY <1>1 DEF Place
<1> DEFINE u == SubSeq(s, 1, n - 1)
           v == SubSeq(s, n + 1, Len(s))
<1>3. r = u \o v
  BY DEF RemoveAt
<1> HIDE DEF n, r
<1>l. Len(s) \in Nat
  OBVIOUS
<1>4. u \in Seq(S) /\ v \in Seq(S)
  BY <1>2
<1>5. Len(u) = n - 1 /\ Len(v) = Len(s) - n
  BY <1>2
<1>u. \A i \in 1 .. n - 1 : u[i] = s[i]
  BY <1>2
<1>v. \A i \in 1 .. Len(s) - n : v[i] = s[i + n]
  BY <1>2
<1> HIDE DEF u, v
<1>6. r \in Seq(S) /\ Len(r) = Len(s) - 1
  <2>1. r \in Seq(S) /\ Len(r) = Len(u) + Len(v)
    BY <1>3, <1>4
  <2> QED BY <2>1, <1>l, <1>5, <1>2
<1>7. \A i \in 1 .. Len(s) - 1 : r[i] = IF i < n THEN s[i] ELSE s[i + 1]
  <2> TAKE i \in 1 .. Len(s) - 1
  <2>1. i \in 1 .. Len(u) + Len(v)
    BY <1>l, <1>2, <1>5
  <2>2. r[i] = IF i <= Len(u) THEN u[i] ELSE v[i - Len(u)]
    BY <2>1, <1>3, <1>4
  <2>3. CASE i < n
    <3>1. i \in 1 .. n - 1 /\ i <= Len(u)
      BY <2>3, <1>2, <1>5
    <3> QED BY <3>1, <2>2, <2>3, <1>u
  <2>4. CASE ~(i < n)
    <3>1. ~(i <= Len(u)) /\ i - Len(u) = i - n + 1 /\ i - n + 1 \in 1 .. Len(s) - n
      BY <2>4, <1>2, <1>5, <1>l
    <3>2. v[i - n + 1] = s[i - n + 1 + n]
      BY <3>1, <1>v
    <3>3. i - n + 1 + n = i + 1
      BY <1>2
    <3> QED BY <3>1, <3>2, <3>3, <2>2, <2>4
  <2> QED BY <2>3, <2>4
<1>8. \A i, j \in 1 .. Len(s) - 1 : r[i] = r[j] => i = j
  BY <1>2, <1>7 DEF Once
<1>9. Once(r)
  BY <1>6, <1>8 DEF Once
<1>10. ToSet(r) \subseteq ToSet(s) \ {e}
  <2> SUFFICES ASSUME NEW i \in 1 .. Len(s) - 1
               PROVE  r[i] \in ToSet(s) /\ r[i] # e
    BY <1>6 DEF ToSet
  <2>1. CASE i < n
    BY <2>1, <1>2, <1>7, SMTT(30) DEF ToSet, Once
  <2>2. CASE ~(i < n)
    BY <2>2, <1>2, <1>7 DEF ToSet, Once
  <2> QED BY <2>1, <2>2
<1>11. ToSet(s) \ {e} \subseteq ToSet(r)
  <2> SUFFICES ASSUME NEW i \in 1 .. Len(s), s[i] # e
               PROVE  \E j \in 1 .. Len(s) - 1 : r[j] = s[i]
    BY <1>6 DEF ToSet
  <2>1. CASE i < n
    BY <2>1, <1>2, <1>7
  <2>2. CASE i > n
    <3>1. i - 1 \in 1 .. Len(s) - 1 /\ ~(i - 1 < n) /\ i - 1 + 1 = i
      BY <2>2, <1>2
    <3>2. r[i - 1] = s[i - 1 + 1]
      BY <3>1, <1>7
    <3> QED BY <3>1, <3>2
  <2> QED BY <2>1, <2>2, <1>2
<1> QED BY <1>6, <1>9, <1>10, <1>11 DEF r

(* A look at a network that is kept puts it last and evicts none.           *)
LEMMA SeenStays ==
    ASSUME NEW S, NEW s \in Seq(S), NEW e \in ToSet(s), Once(s)
    PROVE  /\ Seen(s, e) \in Seq(S)
           /\ Len(Seen(s, e)) = Len(s)
           /\ Once(Seen(s, e))
           /\ ToSet(Seen(s, e)) = ToSet(s)
<1> DEFINE r == RemoveAt(s, Place(s, e))
           t == Append(r, e)
<1>1. r \in Seq(S) /\ Len(r) = Len(s) - 1 /\ Once(r) /\ ToSet(r) = ToSet(s) \ {e}
  BY OneGoes
<1>2. e \in S /\ Len(s) \in Nat
  BY DEF ToSet
<1> HIDE DEF r
<1>3. t \in Seq(S) /\ Len(t) = Len(r) + 1
  BY <1>1, <1>2
<1>4. \A i \in 1 .. Len(t) : t[i] = IF i = Len(t) THEN e ELSE r[i]
  BY <1>1, <1>2
<1>5. \A i \in 1 .. Len(r) : r[i] \in ToSet(r) /\ r[i] # e
  <2>1. DOMAIN r = 1 .. Len(r) /\ e \notin ToSet(r)
    BY <1>1
  <2>2. \A i \in DOMAIN r : r[i] \in ToSet(r)
    BY DEF ToSet
  <2> QED
    BY <2>1, <2>2
<1> HIDE DEF t
<1>6. Once(t)
  BY <1>1, <1>3, <1>4, <1>5, SMTT(30) DEF Once
<1>7. ToSet(t) = ToSet(r) \cup {e}
  <2>1. ToSet(t) = {t[i] : i \in 1 .. Len(t)} /\ ToSet(r) = {r[i] : i \in 1 .. Len(r)}
    BY <1>1, <1>3 DEF ToSet
  <2>2. Len(t) \in 1 .. Len(t) /\ 1 .. Len(r) \subseteq 1 .. Len(t)
    BY <1>1, <1>3
  <2>3. \A i \in 1 .. Len(t) : i = Len(t) \/ i \in 1 .. Len(r)
    BY <1>1, <1>3
  <2>4. \A i \in 1 .. Len(r) : t[i] = r[i] /\ i # Len(t)
    BY <1>1, <1>3, <1>4, SMTT(30)
  <2>5. t[Len(t)] = e
    BY <1>4, <2>2
  <2> QED BY <2>1, <2>2, <2>3, <2>4, <2>5
<1>8. Seen(s, e) = t
  BY DEF Seen, t, r
<1>9. ToSet(t) = ToSet(s)
  BY <1>1, <1>7
<1>10. Len(t) = Len(s)
  BY <1>1, <1>2, <1>3
<1> QED BY <1>3, <1>6, <1>8, <1>9, <1>10

(* What evict leaves when a network is asked for that is not kept: with room*)
(* all of them and the new one, without it as many as the limit, none of    *)
(* them the new one (evict deletes the one that has no SeenAt yet).         *)
LEMMA InsertedIsBounded ==
    ASSUME NEW S, NEW s \in Seq(S), NEW e \in S, e \notin ToSet(s), Once(s),
           Len(s) <= MaxEnvironments
    PROVE  /\ Inserted(s, e) \in Seq(S)
           /\ Once(Inserted(s, e))
           /\ Len(Inserted(s, e)) <= MaxEnvironments
           /\ Len(s) < MaxEnvironments => ToSet(Inserted(s, e)) = ToSet(s) \cup {e}
           /\ Len(s) = MaxEnvironments => /\ ToSet(Inserted(s, e)) = ToSet(s)
                                          /\ Len(Inserted(s, e)) = MaxEnvironments
<1> DEFINE t == <<e>> \o s
<1>1. t \in Seq(S) /\ Len(t) = Len(s) + 1
  OBVIOUS
<1>2. \A i \in 1 .. Len(t) : t[i] = IF i = 1 THEN e ELSE s[i - 1]
  OBVIOUS
<1>3. \A i \in 1 .. Len(s) : s[i] # e
  BY DEF ToSet
<1> HIDE DEF t
<1>4. Once(t)
  BY <1>1, <1>2, <1>3 DEF Once
<1>m. MaxEnvironments \in Nat /\ Len(s) \in Nat
  BY EvidenceAssumption
<1>5. CASE Len(s) < MaxEnvironments
  <2>1. Inserted(s, e) = t
    BY <1>5, <1>1, <1>m DEF Inserted, evict, t
  <2>2. ToSet(t) = ToSet(s) \cup {e}
    <3>1. ToSet(t) = {t[i] : i \in 1 .. Len(t)} /\ ToSet(s) = {s[i] : i \in 1 .. Len(s)}
      BY <1>1 DEF ToSet
    <3>2. t[1] = e /\ 1 \in 1 .. Len(t)
      BY <1>1, <1>2
    <3>3. \A i \in 1 .. Len(t) : t[i] = e \/ \E j \in 1 .. Len(s) : t[i] = s[j]
      <4> TAKE i \in 1 .. Len(t)
      <4>1. i = 1 \/ i - 1 \in 1 .. Len(s)
        BY <1>1
      <4> QED BY <4>1, <1>2
    <3>4. \A j \in 1 .. Len(s) : \E i \in 1 .. Len(t) : t[i] = s[j]
      <4> TAKE j \in 1 .. Len(s)
      <4>1. j + 1 \in 1 .. Len(t) /\ j + 1 # 1 /\ j + 1 - 1 = j
        BY <1>1
      <4>2. t[j + 1] = s[j + 1 - 1]
        BY <4>1, <1>2
      <4> QED BY <4>1, <4>2
    <3>5. \A x \in ToSet(t) : x \in ToSet(s) \cup {e}
      BY <3>1, <3>3
    <3>6. \A x \in ToSet(s) \cup {e} : x \in ToSet(t)
      BY <3>1, <3>2, <3>4
    <3> QED BY <3>5, <3>6
  <2>3. Len(t) <= MaxEnvironments /\ ~(Len(s) = MaxEnvironments)
    BY <1>1, <1>5, <1>m
  <2> QED BY <2>1, <2>2, <2>3, <1>1, <1>4
<1>6. CASE Len(s) = MaxEnvironments
  <2>1. Inserted(s, e) = SubSeq(t, 2, Len(t))
    BY <1>6, <1>1, <1>m DEF Inserted, evict, t
  <2>2. SubSeq(t, 2, Len(t)) = s
    <3> DEFINE q == SubSeq(t, 2, Len(t))
    <3>1. q \in Seq(S) /\ Len(q) = Len(s)
      BY <1>1, <1>m
    <3>2. \A i \in 1 .. Len(s) : q[i] = t[i + 1]
      BY <1>1, <1>m
    <3>3. ASSUME NEW i \in 1 .. Len(s) PROVE q[i] = s[i]
      <4>1. i + 1 \in 1 .. Len(t) /\ i + 1 # 1 /\ i + 1 - 1 = i
        BY <1>1
      <4> QED BY <4>1, <3>2, <1>2
    <3> HIDE DEF q
    <3>4. q = s
      BY <3>1, <3>3, SeqEqual
    <3> QED BY <3>4 DEF q
  <2>3. Inserted(s, e) = s /\ ~(Len(s) < MaxEnvironments) /\ Len(s) <= MaxEnvironments
    BY <2>1, <2>2, <1>6, <1>m
  <2> QED BY <2>3, <1>6
<1> QED BY <1>5, <1>6, <1>m

(* A look at the network of now (Evidence.env): it is kept afterwards if it *)
(* was or if there was room, and otherwise nothing is.                      *)
LEMMA EnvIsBounded ==
    ASSUME NEW S, NEW s \in Seq(S), NEW e \in S, Once(s), Len(s) <= MaxEnvironments
    PROVE  /\ env(s, e) \in Seq(S)
           /\ Once(env(s, e))
           /\ Len(env(s, e)) <= MaxEnvironments
           /\ e \in ToSet(s) \/ Len(s) < MaxEnvironments => ToSet(env(s, e)) = ToSet(s) \cup {e}
           /\ e \notin ToSet(s) /\ Len(s) = MaxEnvironments =>
                /\ e \notin ToSet(env(s, e))
                /\ Len(env(s, e)) = MaxEnvironments
<1>m. MaxEnvironments \in Nat /\ Len(s) \in Nat
  BY EvidenceAssumption
<1>1. CASE e \in ToSet(s)
  <2>1. env(s, e) = Seen(s, e)
    BY <1>1 DEF env
  <2> QED BY <2>1, <1>1, SeenStays
<1>2. CASE e \notin ToSet(s) /\ Len(s) < MaxEnvironments
  <2> DEFINE t == Inserted(s, e)
  <2>1. t \in Seq(S) /\ Once(t) /\ Len(t) <= MaxEnvironments /\ ToSet(t) = ToSet(s) \cup {e}
    BY <1>2, InsertedIsBounded
  <2>2. env(s, e) = Seen(t, e)
    BY <1>2 DEF env
  <2> HIDE DEF t
  <2>3. /\ Seen(t, e) \in Seq(S) /\ Len(Seen(t, e)) = Len(t)
        /\ Once(Seen(t, e)) /\ ToSet(Seen(t, e)) = ToSet(t)
    BY <2>1, SeenStays
  <2> QED BY <2>1, <2>2, <2>3, <1>2, <1>m
<1>3. CASE e \notin ToSet(s) /\ Len(s) = MaxEnvironments
  <2> DEFINE t == Inserted(s, e)
  <2>1. t \in Seq(S) /\ Once(t) /\ ToSet(t) = ToSet(s) /\ Len(t) = MaxEnvironments
    BY <1>3, InsertedIsBounded
  <2>2. env(s, e) = Seen(t, e)
    BY <1>3 DEF env
  <2> HIDE DEF t
  <2>3. Seen(t, e) = t
    BY <2>1, <1>3 DEF Seen
  <2> QED BY <2>1, <2>2, <2>3, <1>3, <1>m
<1> QED BY <1>1, <1>2, <1>3, <1>m

(* A look, with or without something noted, keeps what was noted before.    *)
LEMMA LookKeeps ==
    ASSUME EvidenceInv, NEW w \in SUBSET Keys, Look(w), envKey' = envKey, noted' = noted \cup w
    PROVE  EvidenceInv'
<1> USE DEF EvidenceInv, EnvsInv
<1>1. /\ envs' \in Seq(Networks) /\ Once(envs') /\ Len(envs') <= MaxEnvironments
      /\ envKey \in ToSet(envs) \/ Len(envs) < MaxEnvironments => ToSet(envs') = ToSet(envs) \cup {envKey}
      /\ envKey \notin ToSet(envs) /\ Len(envs) = MaxEnvironments =>
           envKey \notin ToSet(envs') /\ Len(envs') = MaxEnvironments
  BY EnvIsBounded DEF Look
<1>2. nodes' = [e \in Networks |->
                   IF e \notin ToSet(envs') THEN {}
                   ELSE IF e = envKey THEN nodes[e] \cup w ELSE nodes[e]]
  BY DEF Look
<1>3. EnvsInv'
  BY <1>1
<1>4. nodes' \in [Networks -> SUBSET Keys]
  BY <1>2 DEF FactsInv
<1>5. FactsInv'
  BY <1>2, <1>4 DEF FactsInv
<1>6. KeptNotesStick'
  <2>1. CASE envKey \in ToSet(envs) \/ Len(envs) < MaxEnvironments
    <3>1. noted \subseteq nodes[envKey]
      BY <2>1 DEF KeptNotesStick, NotesStick
    <3>2. nodes'[envKey] = nodes[envKey] \cup w
      BY <2>1, <1>1, <1>2
    <3> QED BY <3>1, <3>2 DEF KeptNotesStick, NotesStick
  <2>2. CASE envKey \notin ToSet(envs) /\ Len(envs) = MaxEnvironments
    <3>1. envKey' \notin ToSet(envs') /\ ~(Len(envs') < MaxEnvironments)
      BY <2>2, <1>1, EvidenceAssumption
    <3> QED BY <3>1 DEF KeptNotesStick
  <2>3. Len(envs) < MaxEnvironments \/ Len(envs) = MaxEnvironments
    BY EvidenceAssumption
  <2> QED BY <2>1, <2>2, <2>3
<1> QED BY <1>3, <1>5, <1>6

(* The invariant is inductive.                                              *)
LEMMA EvidenceIsInductive == Spec => []EvidenceInv
<1>1. Init => EvidenceInv
  <2> SUFFICES ASSUME Init PROVE EvidenceInv
    OBVIOUS
  <2>1. EnvsInv
    BY EvidenceAssumption DEF Init, EnvsInv, Once
  <2>2. FactsInv
    BY DEF Init, FactsInv
  <2>3. KeptNotesStick
    BY DEF Init, KeptNotesStick, NotesStick
  <2> QED BY <2>1, <2>2, <2>3 DEF EvidenceInv
<1>2. EvidenceInv /\ [Next]_vars => EvidenceInv'
  <2> SUFFICES ASSUME EvidenceInv, [Next]_vars PROVE EvidenceInv'
    OBVIOUS
  <2>1. CASE Decide
    <3>1. noted' = noted \cup {} /\ envKey' = envKey /\ Look({})
      BY <2>1 DEF Decide
    <3> QED BY <3>1, LookKeeps
  <2>2. ASSUME NEW k \in Keys, Note(k) PROVE EvidenceInv'
    BY <2>2, LookKeeps DEF Note
  <2>3. ASSUME NEW e \in Networks, ChangeNetwork(e) PROVE EvidenceInv'
    BY <2>3 DEF ChangeNetwork, EvidenceInv, EnvsInv, FactsInv, KeptNotesStick, NotesStick
  <2>4. ASSUME NEW live \in SUBSET Keys, prune(live) PROVE EvidenceInv'
    <3>1. EnvsInv' /\ FactsInv'
      BY <2>4 DEF prune, EvidenceInv, EnvsInv, FactsInv
    <3>2. nodes'[envKey] = nodes[envKey] \cap live
      BY <2>4 DEF prune, EvidenceInv, EnvsInv
    <3>3. KeptNotesStick'
      BY <2>4, <3>2 DEF prune, EvidenceInv, KeptNotesStick, NotesStick
    <3> QED BY <3>1, <3>3 DEF EvidenceInv
  <2>5. CASE UNCHANGED vars
    BY <2>5 DEF vars, EvidenceInv, EnvsInv, FactsInv, KeptNotesStick, NotesStick
  <2> QED BY <2>1, <2>2, <2>3, <2>4, <2>5 DEF Next
<1> QED BY <1>1, <1>2, PTL DEF Spec

(* What was noted on the network the device is on stays known while that    *)
(* network is kept or there is room for it, for every order of looks, moves *)
(* to other networks and prunes (Evidence.env, evict, prune).               *)
THEOREM NotesAreKept == Spec => []KeptNotesStick
<1>1. EvidenceInv => KeptNotesStick
  BY DEF EvidenceInv
<1> QED BY <1>1, EvidenceIsInductive, PTL

(* As many networks are kept as the limit at most, each once, and facts are *)
(* kept of no other (evict).                                                *)
THEOREM EvidenceIsBounded == Spec => [](EnvsInv /\ FactsInv)
<1>1. EvidenceInv => EnvsInv /\ FactsInv
  BY DEF EvidenceInv
<1> QED BY <1>1, EvidenceIsInductive, PTL

-------------------------------------------------------------------------------
(* The budget.                                                              *)

\* How many of the payments fell on one of the ticks.
Fell(g, ticks) == {i \in DOMAIN g : g[i] \in ticks}

LEMMA FellOne ==
    ASSUME NEW g \in Seq(Nat), NEW x \in Nat, NEW ticks
    PROVE  /\ IsFiniteSet(Fell(g, ticks)) /\ Cardinality(Fell(g, ticks)) \in Nat
           /\ Cardinality(Fell(Append(g, x), ticks))
                = IF x \in ticks THEN Cardinality(Fell(g, ticks)) + 1 ELSE Cardinality(Fell(g, ticks))
<1> DEFINE n == Len(g)
           h == Append(g, x)
<1>1. n \in Nat /\ DOMAIN g = 1 .. n /\ DOMAIN h = 1 .. n + 1 /\ h[n + 1] = x /\ \A i \in 1 .. n : h[i] = g[i]
  OBVIOUS
<1>2. Fell(g, ticks) \in SUBSET (1 .. n) /\ IsFiniteSet(1 .. n)
  BY <1>1, FS_Interval DEF Fell
<1>3. IsFiniteSet(Fell(g, ticks)) /\ Cardinality(Fell(g, ticks)) \in Nat
  BY <1>2, FS_Subset, FS_CardinalityType
<1>4. 1 .. n + 1 = (1 .. n) \cup {n + 1} /\ n + 1 \notin 1 .. n
  BY <1>1
<1> HIDE DEF h, n
<1>5. n + 1 \notin Fell(g, ticks)
  BY <1>2, <1>4
<1>6. CASE x \in ticks
  <2>1. Fell(h, ticks) = Fell(g, ticks) \cup {n + 1}
    BY <1>1, <1>4, <1>6 DEF Fell
  <2>2. Cardinality(Fell(h, ticks)) = Cardinality(Fell(g, ticks)) + 1
    BY <1>3, <1>5, <2>1, FS_AddElement
  <2> QED BY <1>3, <1>6, <2>2 DEF h
<1>7. CASE x \notin ticks
  <2>1. Fell(h, ticks) = Fell(g, ticks)
    BY <1>1, <1>4, <1>7 DEF Fell
  <2> QED BY <1>3, <1>7, <2>1 DEF h
<1> QED BY <1>6, <1>7

LEMMA FellFewer ==
    ASSUME NEW g \in Seq(Nat), NEW ticks, NEW more,
           \A i \in DOMAIN g : g[i] \in ticks => g[i] \in more
    PROVE  Cardinality(Fell(g, ticks)) <= Cardinality(Fell(g, more))
<1>1. Fell(g, ticks) \in SUBSET Fell(g, more)
  BY DEF Fell
<1>2. IsFiniteSet(Fell(g, more))
  BY FellOne
<1> QED BY <1>1, <1>2, FS_Subset

LEMMA FellNone ==
    ASSUME NEW g, NEW ticks, \A i \in DOMAIN g : g[i] \notin ticks
    PROVE  Cardinality(Fell(g, ticks)) = 0
<1>1. Fell(g, ticks) = {}
  BY DEF Fell
<1> QED BY <1>1, FS_EmptySet

LEMMA DaysFollow ==
    ASSUME NEW a \in Nat, NEW b \in Nat, a <= b
    PROVE  a \div Day \in Nat /\ b \div Day \in Nat /\ a \div Day <= b \div Day
BY BudgetAssumption

\* Products of naturals.
LEMMA TimesNat == ASSUME NEW a \in Nat, NEW b \in Nat PROVE a * b \in Nat
OBVIOUS

LEMMA TimesGrows ==
    ASSUME NEW a \in Nat, NEW b \in Nat, NEW c \in Nat, a <= b
    PROVE  a * c <= b * c /\ c * a <= c * b
OBVIOUS

LEMMA TimesOneMore ==
    ASSUME NEW a \in Nat, NEW c \in Nat
    PROVE  (a + 1) * c = a * c + c /\ c * (a + 1) = c * a + c
OBVIOUS

LEMMA TimesCancels ==
    ASSUME NEW a \in Nat, NEW b \in Nat, NEW c \in Nat \ {0}, c * a <= c * b
    PROVE  a <= b
OBVIOUS


Top == Budget!Highest
Full == Top * Hour
Since(t) == {u \in Nat : u >= t}
OnDay(d) == {u \in Nat : u \div Day = d}
Count(g, ticks) == Cardinality(Fell(g, ticks))

\* What a bucket holds at most when it is looked at now, whatever levels were in force since.
Credit(b) ==
    IF b.at = -1 THEN Full
    ELSE IF b.tokens + (payNow - b.at) * Top > Full THEN Full ELSE b.tokens + (payNow - b.at) * Top
\* What the account of today says, as far as it counts.
Booked(b) ==
    IF b.day # Budget!Today THEN 0 ELSE IF b.requests > DailyCap THEN DailyCap ELSE b.requests

Books == [tokens : Nat, at : -1 .. payNow, day : -1 .. Budget!Today, requests : Nat]

BudgetTypes ==
    /\ payNow \in Nat /\ payRate \in Rates /\ payRestarts \in Nat
    /\ payGranted \in Seq(0 .. payNow)
    /\ payBooks \in Books /\ paySaved \in Books
\* From any tick on, what was paid and what the bucket could pay now came out of a full bucket for
\* the start and for each restart, and of the filling since.
FillInv ==
    \A t \in 0 .. payNow :
        Hour * Count(payGranted, Since(t)) + Credit(payBooks) <= (1 + payRestarts) * Full + (payNow - t) * Top
HourInv == \A t \in 0 .. payNow : Count(payGranted, t .. t + Hour - 1) <= (2 + payRestarts) * Top
\* Each restart forgets at most a day's account.
DayInv ==
    /\ \A d \in 0 .. Budget!Today : Count(payGranted, OnDay(d)) <= (1 + payRestarts) * DailyCap
    /\ Count(payGranted, OnDay(Budget!Today)) <= payRestarts * DailyCap + Booked(payBooks)

BudgetInv == BudgetTypes /\ FillInv /\ HourInv /\ DayInv

LEMMA TopIsHighest ==
    /\ Top \in Nat /\ Top \in Rates /\ \A q \in Rates : q \in Nat /\ q <= Top
    /\ Full \in Nat /\ Hour \in Nat \ {0} /\ DailyCap \in Nat
<1>1. Top \in Rates /\ \A q \in Rates : q <= Top
  BY BudgetAssumption DEF Top, Budget!Highest
<1>2. Hour \in Nat \ {0} /\ DailyCap \in Nat /\ Rates \subseteq Nat
  BY BudgetAssumption
<1>3. Top \in Nat
  BY <1>1, <1>2
<1>4. Full \in Nat
  BY <1>2, <1>3 DEF Full
<1> QED BY <1>1, <1>2, <1>3, <1>4

LEMMA TodayIsNatural == ASSUME payNow \in Nat PROVE Budget!Today \in Nat
BY DaysFollow DEF Budget!Today

LEMMA CreditFits ==
    ASSUME payNow \in Nat, NEW b \in Books
    PROVE  Credit(b) \in 0 .. Full /\ Booked(b) \in 0 .. DailyCap
<1>1. b.tokens \in Nat /\ b.requests \in Nat /\ b.at \in -1 .. payNow
  BY DEF Books
<1>2. CASE b.at = -1
  BY <1>1, <1>2, TopIsHighest DEF Credit, Booked
<1>3. CASE b.at # -1
  <2>1. payNow - b.at \in Nat
    BY <1>1, <1>3
  <2>2. (payNow - b.at) * Top \in Nat
    BY <2>1, TopIsHighest, TimesNat
  <2> QED BY <1>1, <1>3, <2>2, TopIsHighest DEF Credit, Booked
<1> QED BY <1>2, <1>3

LEMMA PaymentsCount ==
    ASSUME payNow \in Nat, payGranted \in Seq(0 .. payNow), NEW ticks
    PROVE  payGranted \in Seq(Nat) /\ Count(payGranted, ticks) \in Nat /\ \A i \in DOMAIN payGranted : payGranted[i] \in 0 .. payNow
<1>1. payGranted \in Seq(Nat) /\ \A i \in DOMAIN payGranted : payGranted[i] \in 0 .. payNow
  OBVIOUS
<1>2. Count(payGranted, ticks) \in Nat
  BY <1>1, FellOne DEF Count
<1> QED BY <1>1, <1>2

(* The bounds hold on while nothing is paid, the clock stands and the books *)
(* promise no more.                                                         *)
LEMMA BooksKeep ==
    ASSUME BudgetInv, payBooks' \in Books, paySaved' \in Books, payRate' \in Rates,
           UNCHANGED <<payNow, payGranted, payRestarts>>,
           Credit(payBooks') <= Credit(payBooks), Booked(payBooks') >= Booked(payBooks)
    PROVE  BudgetInv'
<1>1. /\ payNow \in Nat /\ payRestarts \in Nat /\ payBooks \in Books /\ payGranted \in Seq(0 .. payNow)
      /\ Budget!Today' = Budget!Today /\ Budget!Today \in Nat
  BY TodayIsNatural DEF BudgetInv, BudgetTypes, Budget!Today
<1>2. Books' = Books /\ Credit(payBooks)' = Credit(payBooks') /\ Booked(payBooks)' = Booked(payBooks')
  BY <1>1 DEF Books, Credit, Booked
<1>3. \A ticks : Count(payGranted', ticks) = Count(payGranted, ticks)
  OBVIOUS
<1>4. \A ticks : Count(payGranted, ticks) \in Nat
  BY <1>1, PaymentsCount
<1>5. /\ Credit(payBooks) \in Nat /\ Credit(payBooks') \in Nat
      /\ Booked(payBooks) \in Nat /\ Booked(payBooks') \in Nat
  BY <1>1, CreditFits
<1>6. BudgetTypes'
  BY <1>1, <1>2 DEF BudgetInv, BudgetTypes
<1>7. FillInv'
  <2> SUFFICES ASSUME NEW t \in 0 .. payNow
               PROVE  Hour * Count(payGranted, Since(t)) + Credit(payBooks') <= (1 + payRestarts) * Full + (payNow - t) * Top
    BY <1>2, <1>3 DEF FillInv
  <2>1. Hour * Count(payGranted, Since(t)) + Credit(payBooks) <= (1 + payRestarts) * Full + (payNow - t) * Top
    BY DEF BudgetInv, FillInv
  <2>2. Hour * Count(payGranted, Since(t)) \in Nat /\ (1 + payRestarts) * Full \in Nat /\ (payNow - t) * Top \in Nat
    <3>1. payNow - t \in Nat /\ 1 + payRestarts \in Nat
      BY <1>1
    <3> QED BY <1>4, <3>1, TopIsHighest, TimesNat
  <2> QED BY <2>1, <2>2, <1>5
<1>8. HourInv'
  BY <1>3 DEF BudgetInv, HourInv
<1>9. DayInv'
  <2>1. payRestarts * DailyCap \in Nat
    BY <1>1, TopIsHighest, TimesNat
  <2>2. Count(payGranted, OnDay(Budget!Today)) <= payRestarts * DailyCap + Booked(payBooks')
    BY <1>4, <1>5, <2>1 DEF BudgetInv, DayInv
  <2> QED BY <1>1, <1>2, <1>3, <2>2 DEF BudgetInv, DayInv
<1> QED BY <1>6, <1>7, <1>8, <1>9 DEF BudgetInv


(* A new day opens a new account and leaves the bucket as it is.            *)
LEMMA RolledFits ==
    ASSUME BudgetInv
    PROVE  /\ Budget!Rolled \in Books /\ Budget!Rolled.day = Budget!Today
           /\ Budget!Rolled.tokens = payBooks.tokens /\ Budget!Rolled.at = payBooks.at
           /\ Credit(Budget!Rolled) = Credit(payBooks) /\ Booked(Budget!Rolled) = Booked(payBooks)
<1>1. payBooks \in Books /\ payNow \in Nat /\ Budget!Today \in Nat
  BY TodayIsNatural DEF BudgetInv, BudgetTypes
<1>2. /\ Budget!Rolled \in Books /\ Budget!Rolled.day = Budget!Today
      /\ Budget!Rolled.tokens = payBooks.tokens /\ Budget!Rolled.at = payBooks.at
      /\ Budget!Rolled.requests = IF payBooks.day = Budget!Today THEN payBooks.requests ELSE 0
  BY <1>1 DEF Books, Budget!Rolled
<1> HIDE DEF Budget!Rolled
<1>3. Credit(Budget!Rolled) = Credit(payBooks)
  BY <1>2 DEF Credit
<1>4. Booked(Budget!Rolled) = Booked(payBooks)
  BY <1>2, TopIsHighest DEF Booked
<1> QED BY <1>2, <1>3, <1>4

LEMMA ChargedFits ==
    ASSUME payNow \in Nat, NEW b \in Books, NEW n \in Nat
    PROVE  /\ Budget!Charged(b, n) \in Books
           /\ Credit(Budget!Charged(b, n)) = Credit(b)
           /\ Booked(Budget!Charged(b, n)) >= Booked(b)
<1> DEFINE c == Budget!Charged(b, n)
<1>1. /\ c \in Books /\ c.tokens = b.tokens /\ c.at = b.at /\ c.day = b.day
      /\ c.requests = b.requests + n /\ b.requests \in Nat
  BY DEF Books, Budget!Charged
<1> HIDE DEF c
<1>2. Credit(c) = Credit(b)
  BY <1>1 DEF Credit
<1>3. Booked(c) >= Booked(b)
  BY <1>1, TopIsHighest DEF Booked
<1> QED BY <1>1, <1>2, <1>3 DEF c

(* A bucket that is filled holds no more than its credit.                   *)
LEMMA FilledFits ==
    ASSUME payNow \in Nat, payRate \in Rates, NEW b \in Books
    PROVE  /\ Budget!Filled(b) \in Books
           /\ Budget!Filled(b).at = payNow /\ Budget!Filled(b).day = b.day
           /\ Budget!Filled(b).requests = b.requests
           /\ Budget!Filled(b).tokens <= Credit(b)
<1>1. b.tokens \in Nat /\ b.requests \in Nat /\ b.at \in -1 .. payNow /\ b.day \in -1 .. Budget!Today
  BY DEF Books
<1>2. payRate \in Nat /\ payRate <= Top /\ Top \in Nat /\ Hour \in Nat
  BY TopIsHighest
<1>3. payRate * Hour \in Nat /\ payRate * Hour <= Full
  BY <1>2, TimesNat, TimesGrows DEF Full
<1> DEFINE tokens == IF b.at = Budget!Never THEN payRate * Hour ELSE b.tokens + (payNow - b.at) * payRate
           f == IF tokens > payRate * Hour THEN payRate * Hour ELSE tokens
<1>4. Budget!Filled(b) = [tokens |-> f, at |-> payNow, day |-> b.day, requests |-> b.requests]
  BY DEF Budget!Filled
<1>5. f \in Nat /\ f <= Credit(b)
  <2>1. CASE b.at = -1
    BY <1>1, <1>3, <2>1, TopIsHighest DEF Budget!Never, Credit
  <2>2. CASE b.at # -1
    <3> DEFINE p == (payNow - b.at) * payRate
               q == (payNow - b.at) * Top
    <3>1. payNow - b.at \in Nat
      BY <1>1, <2>2
    <3>2. p \in Nat /\ q \in Nat /\ p <= q
      BY <3>1, <1>2, TimesNat, TimesGrows
    <3>3. tokens = b.tokens + p /\ Credit(b) = IF b.tokens + q > Full THEN Full ELSE b.tokens + q
      BY <2>2 DEF Budget!Never, Credit
    <3> HIDE DEF p, q, tokens
    <3> QED BY <1>1, <1>3, <3>2, <3>3, TopIsHighest
  <2> QED BY <2>1, <2>2
<1> HIDE DEF f
<1>6. payNow \in -1 .. payNow
  OBVIOUS
<1> QED BY <1>1, <1>4, <1>5, <1>6 DEF Books

(* Right after a look the credit is what is in the bucket.                  *)
LEMMA CreditNow ==
    ASSUME payNow \in Nat, NEW b \in Books, b.at = payNow
    PROVE  Credit(b) <= b.tokens
<1>1. b.tokens \in Nat
  BY DEF Books
<1>2. (payNow - b.at) * Top = 0
  BY TopIsHighest
<1> QED BY <1>1, <1>2, TopIsHighest DEF Credit

LEMMA WindowBound ==
    ASSUME NEW r \in Nat, NEW n \in Nat, NEW k \in Nat, k < Hour,
           Hour * n <= (1 + r) * Full + k * Top
    PROVE  n <= (2 + r) * Top
<1>1. Hour \in Nat \ {0} /\ Top \in Nat /\ Full = Top * Hour /\ Full \in Nat
  BY TopIsHighest DEF Full
<1>2. k * Top <= Hour * Top /\ Hour * Top = Full /\ k * Top \in Nat
  BY <1>1, TimesGrows, TimesNat
<1>3. ((1 + r) + 1) * Full = (1 + r) * Full + Full /\ (1 + r) * Full \in Nat
  BY <1>1, TimesOneMore, TimesNat
<1>4. ((1 + r) + 1) * Full = Hour * ((2 + r) * Top)
  BY <1>1
<1>5. (2 + r) * Top \in Nat
  BY <1>1, TimesNat
<1>6. Hour * n \in Nat /\ Hour * n <= (1 + r) * Full + Full
  BY <1>1, <1>2, <1>3, TimesNat
<1>7. Hour * n <= Hour * ((2 + r) * Top)
  BY <1>3, <1>4, <1>6
<1> QED BY <1>1, <1>5, <1>7, TimesCancels


\* A payment moves an hour from the credit to what was paid.
LEMMA PaymentBalances ==
    ASSUME NEW paid \in Nat, NEW credit \in Nat, NEW tokens \in Nat, NEW rest \in Nat, NEW hour \in Nat,
           NEW bound \in Nat, paid + credit <= bound, tokens <= credit, rest <= tokens - hour
    PROVE  paid + hour + rest <= bound
OBVIOUS

LEMMA RequestBalances ==
    ASSUME NEW n \in Nat, NEW forgotten \in Nat, NEW requests \in Nat, NEW cap \in Nat,
           n <= forgotten + (requests + 1), requests < cap
    PROVE  n <= forgotten + cap
OBVIOUS

(* The rationed bucket pays: a token less, a payment and a request more.    *)
LEMMA PaysKeeps ==
    ASSUME BudgetInv, NEW b \in Books, b.at = payNow, b.tokens >= Hour, b.tokens <= Credit(payBooks),
           b.day = Budget!Today, b.requests < DailyCap, Booked(payBooks) = b.requests,
           payBooks' = Budget!Charged([b EXCEPT !.tokens = b.tokens - Hour], 1),
           payGranted' = Append(payGranted, payNow), UNCHANGED <<payNow, paySaved, payRate, payRestarts>>
    PROVE  BudgetInv'
<1>1. /\ payNow \in Nat /\ payRestarts \in Nat /\ payBooks \in Books /\ payGranted \in Seq(0 .. payNow)
      /\ Budget!Today' = Budget!Today /\ Budget!Today \in Nat
  BY TodayIsNatural DEF BudgetInv, BudgetTypes, Budget!Today
<1>2. b.tokens \in Nat /\ b.requests \in Nat /\ Hour \in Nat
  BY TopIsHighest DEF Books
<1> DEFINE c == [b EXCEPT !.tokens = b.tokens - Hour]
<1>3. c \in Books /\ c.tokens = b.tokens - Hour /\ c.at = payNow /\ c.day = b.day /\ c.requests = b.requests
  BY <1>2 DEF Books
<1>4. payBooks' = Budget!Charged(c, 1)
  OBVIOUS
<1> HIDE DEF c
<1>5. payBooks' \in Books /\ Credit(payBooks') = Credit(c)
  BY <1>1, <1>3, <1>4, ChargedFits
<1>6. payBooks'.day = Budget!Today /\ payBooks'.requests = b.requests + 1
  BY <1>3, <1>4 DEF Budget!Charged, Books
<1>7. Credit(payBooks') <= b.tokens - Hour /\ Credit(payBooks') \in Nat
  <2>1. Credit(c) <= b.tokens - Hour
    BY <1>1, <1>3, CreditNow
  <2> QED BY <2>1, <1>1, <1>5, CreditFits
<1>8. Booked(payBooks') = b.requests + 1
  BY <1>2, <1>6, TopIsHighest DEF Booked
<1>9. Books' = Books /\ Credit(payBooks)' = Credit(payBooks') /\ Booked(payBooks)' = Booked(payBooks')
  BY <1>1 DEF Books, Credit, Booked
<1>10. payGranted \in Seq(Nat) /\ \A i \in DOMAIN payGranted : payGranted[i] \in 0 .. payNow
  BY <1>1, PaymentsCount
<1>11. \A ticks : /\ Count(payGranted, ticks) \in Nat
                  /\ Count(payGranted', ticks) = IF payNow \in ticks THEN Count(payGranted, ticks) + 1 ELSE Count(payGranted, ticks)
  BY <1>1, <1>10, FellOne DEF Count
<1>12. BudgetTypes'
  <2>1. payGranted' \in Seq(0 .. payNow)
    BY <1>1
  <2> QED BY <1>1, <1>5, <1>9, <2>1 DEF BudgetInv, BudgetTypes
<1>13. FillInv'
  <2> SUFFICES ASSUME NEW t \in 0 .. payNow
               PROVE  Hour * Count(payGranted', Since(t)) + Credit(payBooks') <= (1 + payRestarts) * Full + (payNow - t) * Top
    BY <1>9 DEF FillInv, Since
  <2>1. Hour * Count(payGranted, Since(t)) + Credit(payBooks) <= (1 + payRestarts) * Full + (payNow - t) * Top
    BY DEF BudgetInv, FillInv
  <2>2. payNow \in Since(t)
    BY <1>1 DEF Since
  <2>3. Count(payGranted', Since(t)) = Count(payGranted, Since(t)) + 1 /\ Count(payGranted, Since(t)) \in Nat
    BY <1>11, <2>2
  <2>4. Hour * (Count(payGranted, Since(t)) + 1) = Hour * Count(payGranted, Since(t)) + Hour /\ Hour * Count(payGranted, Since(t)) \in Nat
    BY <1>2, <2>3, TimesOneMore, TimesNat
  <2>5. (1 + payRestarts) * Full \in Nat /\ (payNow - t) * Top \in Nat /\ Credit(payBooks) \in Nat
    <3>1. payNow - t \in Nat /\ 1 + payRestarts \in Nat
      BY <1>1
    <3>2. (1 + payRestarts) * Full \in Nat /\ (payNow - t) * Top \in Nat
      BY <3>1, TopIsHighest, TimesNat
    <3>3. Credit(payBooks) \in 0 .. Full
      BY <1>1, CreditFits
    <3> QED BY <3>2, <3>3
  <2> DEFINE old == Hour * Count(payGranted, Since(t))
             bound == (1 + payRestarts) * Full + (payNow - t) * Top
  <2>6. old + Credit(payBooks) <= bound /\ old \in Nat /\ bound \in Nat
    BY <2>1, <2>4, <2>5
  <2>7. Hour * Count(payGranted', Since(t)) = old + Hour
    BY <2>3, <2>4
  <2> HIDE DEF old, bound
  <2>c. Credit(payBooks) \in Nat
    BY <2>5
  <2>8. old + Hour + Credit(payBooks') <= bound
    BY <1>2, <1>7, <2>6, <2>c, PaymentBalances
  <2> QED BY <2>7, <2>8 DEF bound
<1>14. HourInv'
  <2> SUFFICES ASSUME NEW t \in 0 .. payNow
               PROVE  Count(payGranted', t .. t + Hour - 1) <= (2 + payRestarts) * Top
    BY DEF HourInv
  <2>1. CASE payNow \in t .. t + Hour - 1
    <3> DEFINE n == Count(payGranted', t .. t + Hour - 1)
               m == Count(payGranted', Since(t))
    <3>1. Hour * m + Credit(payBooks') <= (1 + payRestarts) * Full + (payNow - t) * Top
      BY <1>9, <1>13 DEF FillInv, Since
    <3>2. n \in Nat /\ m \in Nat
      BY <1>11
    <3>3. n <= m
      <4>1. \A i \in DOMAIN payGranted' : payGranted'[i] \in t .. t + Hour - 1 => payGranted'[i] \in Since(t)
        BY <1>2 DEF Since
      <4>2. payGranted' \in Seq(Nat)
        BY <1>1, <1>10
      <4> QED BY <4>1, <4>2, FellFewer DEF Count
    <3> HIDE DEF n, m
    <3>4. payNow - t \in Nat /\ payNow - t < Hour
      BY <1>1, <1>2, <2>1
    <3>5. Hour * m <= (1 + payRestarts) * Full + (payNow - t) * Top
      <4>1. Hour * m \in Nat /\ (1 + payRestarts) * Full \in Nat /\ (payNow - t) * Top \in Nat
        <5>1. 1 + payRestarts \in Nat
          BY <1>1
        <5> QED BY <5>1, <1>2, <3>2, <3>4, TopIsHighest, TimesNat
      <4> QED BY <3>1, <4>1, <1>7
    <3>6. m <= (2 + payRestarts) * Top
      BY <1>1, <3>2, <3>4, <3>5, WindowBound
    <3>7. (2 + payRestarts) * Top \in Nat
      <4>1. 2 + payRestarts \in Nat
        BY <1>1
      <4> QED BY <4>1, TopIsHighest, TimesNat
    <3>8. n <= (2 + payRestarts) * Top
      BY <3>2, <3>3, <3>6, <3>7
    <3> QED BY <3>8 DEF n
  <2>2. CASE payNow \notin t .. t + Hour - 1
    BY <1>11, <2>2 DEF BudgetInv, HourInv
  <2> QED BY <2>1, <2>2
<1>15. DayInv'
  <2>0. DailyCap \in Nat /\ 1 + payRestarts = payRestarts + 1
    BY <1>1, TopIsHighest
  <2>1. payRestarts * DailyCap \in Nat /\ (1 + payRestarts) * DailyCap = payRestarts * DailyCap + DailyCap
    BY <1>1, <2>0, TimesNat, TimesOneMore
  <2>2. Count(payGranted', OnDay(Budget!Today)) <= payRestarts * DailyCap + (b.requests + 1)
    <3>1. Count(payGranted, OnDay(Budget!Today)) <= payRestarts * DailyCap + b.requests
      BY DEF BudgetInv, DayInv
    <3>2. payNow \in OnDay(Budget!Today)
      BY <1>1 DEF OnDay, Budget!Today
    <3>3. OnDay(Budget!Today)' = OnDay(Budget!Today)
      BY <1>1 DEF OnDay
    <3>4. Count(payGranted', OnDay(Budget!Today)) = Count(payGranted, OnDay(Budget!Today)) + 1 /\ Count(payGranted, OnDay(Budget!Today)) \in Nat
      BY <1>11, <3>2, <3>3
    <3> QED BY <1>2, <2>1, <3>1, <3>4
  <2>3. ASSUME NEW d \in 0 .. Budget!Today
        PROVE  Count(payGranted', OnDay(d)) <= (1 + payRestarts) * DailyCap
    <3>1. CASE d = Budget!Today
      <4>1. Count(payGranted', OnDay(Budget!Today)) \in Nat
        BY <1>11
      <4>2. Count(payGranted', OnDay(d)) = Count(payGranted', OnDay(Budget!Today))
        BY <1>1, <3>1
      <4> DEFINE forgotten == payRestarts * DailyCap
      <4>3. forgotten \in Nat /\ Count(payGranted', OnDay(d)) <= forgotten + (b.requests + 1)
        BY <2>1, <2>2, <4>2
      <4> HIDE DEF forgotten
      <4>a. Count(payGranted', OnDay(d)) \in Nat
        BY <4>1, <4>2
      <4>4. Count(payGranted', OnDay(d)) <= forgotten + DailyCap
        BY <1>2, <2>0, <4>a, <4>3, RequestBalances
      <4> QED BY <2>1, <4>4 DEF forgotten
    <3>2. CASE d # Budget!Today
      <4>1. payNow \notin OnDay(d)
        BY <3>2 DEF OnDay, Budget!Today
      <4>2. Count(payGranted', OnDay(d)) = Count(payGranted, OnDay(d))
        BY <1>11, <4>1 DEF OnDay
      <4> QED BY <4>2 DEF BudgetInv, DayInv
    <3> QED BY <3>1, <3>2
  <2> QED BY <1>1, <1>8, <1>9, <2>2, <2>3 DEF DayInv
<1> QED BY <1>12, <1>13, <1>14, <1>15 DEF BudgetInv


LEMMA SpendKeeps ==
    ASSUME BudgetInv, Budget!Spend
    PROVE  BudgetInv'
<1> DEFINE rolled == Budget!Rolled
           filled == Budget!Filled(rolled)
           looked == rolled.requests < DailyCap /\ payRate > 0
           paid == looked /\ filled.tokens >= Hour
<1>1. /\ payBooks' = IF paid THEN Budget!Charged([filled EXCEPT !.tokens = filled.tokens - Hour], 1)
                     ELSE IF looked THEN filled ELSE rolled
      /\ payGranted' = IF paid THEN Append(payGranted, payNow) ELSE payGranted
      /\ UNCHANGED <<payNow, paySaved, payRate, payRestarts>>
  BY DEF Budget!Spend
<1>2. payNow \in Nat /\ payRate \in Rates /\ paySaved \in Books /\ payBooks \in Books
  BY DEF BudgetInv, BudgetTypes
<1>3. /\ rolled \in Books /\ rolled.day = Budget!Today
      /\ Credit(rolled) = Credit(payBooks) /\ Booked(rolled) = Booked(payBooks)
  BY RolledFits
<1> HIDE DEF rolled
<1>4. /\ filled \in Books /\ filled.at = payNow /\ filled.day = rolled.day
      /\ filled.requests = rolled.requests /\ filled.tokens <= Credit(rolled)
  BY <1>2, <1>3, FilledFits
<1> HIDE DEF filled
<1>5. Credit(filled) <= filled.tokens /\ Booked(filled) = Booked(rolled)
  BY <1>2, <1>4, CreditNow DEF Booked
<1>6. /\ Credit(filled) \in Nat /\ Credit(payBooks) \in Nat /\ filled.tokens \in Nat
      /\ Booked(rolled) \in Nat /\ rolled.requests \in Nat /\ DailyCap \in Nat
  <2>1. Credit(filled) \in 0 .. Full /\ Credit(payBooks) \in 0 .. Full /\ Booked(rolled) \in 0 .. DailyCap
    BY <1>2, <1>3, <1>4, CreditFits
  <2> QED BY <2>1, <1>3, <1>4, TopIsHighest DEF Books
<1>7. CASE paid
  <2>1. rolled.requests < DailyCap /\ filled.tokens >= Hour
    BY <1>7
  <2>2. Booked(payBooks) = filled.requests
    BY <1>3, <1>4, <1>6, <2>1 DEF Booked
  <2>3. filled.day = Budget!Today /\ filled.requests < DailyCap /\ filled.tokens <= Credit(payBooks)
    BY <1>3, <1>4, <2>1
  <2>4. /\ payBooks' = Budget!Charged([filled EXCEPT !.tokens = filled.tokens - Hour], 1)
        /\ payGranted' = Append(payGranted, payNow)
    BY <1>1, <1>7
  <2> QED BY <1>1, <1>4, <2>1, <2>2, <2>3, <2>4, PaysKeeps
<1>8. CASE looked /\ ~paid
  <2>1. payBooks' = filled /\ payGranted' = payGranted
    BY <1>1, <1>8
  <2>2. Credit(filled) <= Credit(payBooks) /\ Booked(filled) >= Booked(payBooks)
    BY <1>3, <1>4, <1>5, <1>6
  <2>3. payBooks' \in Books /\ Credit(payBooks') <= Credit(payBooks) /\ Booked(payBooks') >= Booked(payBooks)
    BY <1>4, <2>1, <2>2
  <2> QED BY <1>1, <1>2, <2>1, <2>3, BooksKeep
<1>9. CASE ~looked
  <2>1. payBooks' = rolled /\ payGranted' = payGranted
    BY <1>1, <1>9
  <2>2. payBooks' \in Books /\ Credit(payBooks') <= Credit(payBooks) /\ Booked(payBooks') >= Booked(payBooks)
    BY <1>3, <1>6, <2>1
  <2> QED BY <1>1, <1>2, <2>1, <2>2, BooksKeep
<1> HIDE DEF looked
<1> QED BY <1>7, <1>8, <1>9

LEMMA ChargeKeeps ==
    ASSUME BudgetInv, Budget!UserSpends \/ \E n \in 1 .. MaxExtras : Budget!ChargeExtras(n)
    PROVE  BudgetInv'
<1>1. payNow \in Nat /\ payRate \in Rates /\ paySaved \in Books /\ payBooks \in Books
  BY DEF BudgetInv, BudgetTypes
<1>2. PICK b \in {Budget!Rolled, payBooks}, n \in Nat :
         payBooks' = Budget!Charged(b, n) /\ UNCHANGED <<payNow, paySaved, payRate, payGranted, payRestarts>>
  BY DEF Budget!UserSpends, Budget!ChargeExtras
<1>3. b \in Books /\ Credit(b) = Credit(payBooks) /\ Booked(b) = Booked(payBooks)
  BY <1>1, RolledFits
<1>4. payBooks' \in Books /\ Credit(payBooks') = Credit(payBooks) /\ Booked(payBooks') >= Booked(payBooks)
  BY <1>1, <1>2, <1>3, ChargedFits
<1>5. Credit(payBooks) \in 0 .. Full
  BY <1>1, CreditFits
<1>6. Credit(payBooks') <= Credit(payBooks)
  BY <1>4, <1>5, TopIsHighest
<1> QED BY <1>1, <1>2, <1>4, <1>6, BooksKeep


(* Books that fit a clock and a day fit later ones.                         *)
LEMMA BooksGrow ==
    ASSUME NEW ticks, NEW later, NEW days, NEW following, ticks \subseteq later, days \subseteq following,
           NEW b \in [tokens : Nat, at : ticks, day : days, requests : Nat]
    PROVE  b \in [tokens : Nat, at : later, day : following, requests : Nat]
<1>1. /\ b.tokens \in Nat /\ b.requests \in Nat /\ b.at \in later /\ b.day \in following
      /\ b = [tokens |-> b.tokens, at |-> b.at, day |-> b.day, requests |-> b.requests]
  OBVIOUS
<1> QED BY <1>1

(* Time passes: the credit grows by a tick's filling at most, and an account *)
(* of an earlier day no longer counts.                                      *)
LEMMA TickKeeps ==
    ASSUME BudgetInv, Budget!Tick
    PROVE  BudgetInv'
<1>1. payNow' = payNow + 1 /\ UNCHANGED <<payBooks, paySaved, payRate, payGranted, payRestarts>>
  BY DEF Budget!Tick
<1>2. /\ payNow \in Nat /\ payRestarts \in Nat /\ payRate \in Rates /\ payGranted \in Seq(0 .. payNow)
      /\ payBooks \in Books /\ paySaved \in Books /\ payNow' \in Nat
  BY <1>1 DEF BudgetInv, BudgetTypes
<1>3. Budget!Today \in Nat /\ Budget!Today' \in Nat /\ Budget!Today <= Budget!Today'
  <2>1. payNow <= payNow'
    BY <1>1, <1>2
  <2> QED BY <1>2, <2>1, DaysFollow DEF Budget!Today
<1>4. payBooks \in Books' /\ paySaved \in Books'
  <2>1. -1 .. payNow \subseteq -1 .. payNow' /\ -1 .. Budget!Today \subseteq -1 .. Budget!Today'
    BY <1>1, <1>2, <1>3
  <2> QED BY <1>2, <2>1, BooksGrow DEF Books
<1>5. Credit(payBooks)' \in 0 .. Full /\ Credit(payBooks)' <= Credit(payBooks) + Top /\ Credit(payBooks) \in 0 .. Full
  <2>1. payBooks.tokens \in Nat /\ payBooks.at \in -1 .. payNow
    BY <1>2 DEF Books
  <2>2. CASE payBooks.at = -1
    BY <1>1, <2>2, TopIsHighest DEF Credit, Full, Top, Budget!Highest
  <2>3. CASE payBooks.at # -1
    <3> DEFINE k == payNow - payBooks.at
    <3>1. k \in Nat /\ payNow' - payBooks.at = k + 1
      BY <1>1, <1>2, <2>1, <2>3
    <3> HIDE DEF k
    <3>2. k * Top \in Nat /\ (k + 1) * Top = k * Top + Top
      BY <3>1, TopIsHighest, TimesNat, TimesOneMore
    <3> DEFINE filled == payBooks.tokens + k * Top
    <3>3. filled \in Nat /\ payBooks.tokens + (k + 1) * Top = filled + Top
      BY <2>1, <3>2, TopIsHighest
    <3>4. Credit(payBooks) = IF filled > Full THEN Full ELSE filled
      BY <2>3 DEF Credit, k
    <3>5. Credit(payBooks)' = IF filled + Top > Full THEN Full ELSE filled + Top
      <4>1. Credit(payBooks)' = IF payBooks.tokens + (payNow' - payBooks.at) * Top > Full THEN Full
                                ELSE payBooks.tokens + (payNow' - payBooks.at) * Top
        BY <1>1, <2>3 DEF Credit, Full, Top, Budget!Highest
      <4> QED BY <3>1, <3>3, <4>1
    <3> HIDE DEF filled
    <3> QED BY <3>3, <3>4, <3>5, TopIsHighest
  <2> QED BY <2>2, <2>3
<1>6. \A i \in DOMAIN payGranted : payGranted[i] \in 0 .. payNow
  BY <1>2, PaymentsCount
<1>7. \A ticks : Count(payGranted, ticks) \in Nat
  BY <1>2, PaymentsCount
<1>8. BudgetTypes'
  <2>1. 0 .. payNow \subseteq 0 .. payNow'
    BY <1>1, <1>2
  <2>2. payGranted \in Seq(0 .. payNow')
    BY <1>2, <2>1
  <2> QED BY <1>1, <1>2, <1>4, <2>2 DEF BudgetTypes
<1>9. FillInv'
  <2> SUFFICES ASSUME NEW t \in 0 .. payNow'
               PROVE  Hour * Count(payGranted, Since(t)) + Credit(payBooks)'
                        <= (1 + payRestarts) * Full + (payNow' - t) * Top
    BY <1>1 DEF FillInv, Since, Full, Top, Budget!Highest
  <2>1. Full \in Nat /\ Top \in Nat /\ Hour \in Nat
    BY TopIsHighest
  <2>2. CASE t \in 0 .. payNow
    <3> DEFINE paid == Hour * Count(payGranted, Since(t))
               fresh == (1 + payRestarts) * Full
               since == (payNow - t) * Top
    <3>1. payNow - t \in Nat /\ 1 + payRestarts \in Nat /\ payNow' - t = (payNow - t) + 1
      BY <1>1, <1>2, <2>2
    <3>2. paid \in Nat /\ fresh \in Nat /\ since \in Nat /\ (payNow' - t) * Top = since + Top
      BY <1>7, <2>1, <3>1, TimesNat, TimesOneMore
    <3>3. paid + Credit(payBooks) <= fresh + since
      BY <2>2 DEF BudgetInv, FillInv
    <3> HIDE DEF paid, fresh, since
    <3>4. paid + Credit(payBooks)' <= fresh + (since + Top)
      BY <1>5, <2>1, <3>2, <3>3
    <3> QED BY <3>2, <3>4 DEF paid, fresh
  <2>3. CASE t = payNow'
    <3>1. \A i \in DOMAIN payGranted : payGranted[i] \notin Since(t)
      BY <1>1, <1>2, <1>6, <2>3 DEF Since
    <3>2. Count(payGranted, Since(t)) = 0
      BY <3>1, FellNone DEF Count
    <3>3. Hour * 0 = 0 /\ (payNow' - t) * Top = 0
      <4>1. payNow' \in Nat /\ payNow' - t = 0
        BY <1>1, <1>2, <2>3
      <4>2. Hour * 0 = 0 /\ 0 * Top = 0
        BY <2>1
      <4> QED BY <4>1, <4>2
    <3>4. (payRestarts + 1) * Full = payRestarts * Full + Full /\ payRestarts * Full \in Nat
      BY <1>2, <2>1, TimesNat, TimesOneMore
    <3>5. 1 + payRestarts = payRestarts + 1
      BY <1>2
    <3> QED BY <1>5, <2>1, <3>2, <3>3, <3>4, <3>5
  <2> QED BY <1>1, <1>2, <2>2, <2>3
<1>10. HourInv'
  <2> SUFFICES ASSUME NEW t \in 0 .. payNow'
               PROVE  Count(payGranted, t .. t + Hour - 1) <= (2 + payRestarts) * Top
    BY <1>1 DEF HourInv, Top, Budget!Highest
  <2>1. CASE t \in 0 .. payNow
    BY <2>1 DEF BudgetInv, HourInv
  <2>2. CASE t = payNow'
    <3>1. \A i \in DOMAIN payGranted : payGranted[i] \notin t .. t + Hour - 1
      BY <1>1, <1>2, <1>6, <2>2
    <3>2. Count(payGranted, t .. t + Hour - 1) = 0
      BY <3>1, FellNone DEF Count
    <3>3. 2 + payRestarts \in Nat
      BY <1>2
    <3>4. (2 + payRestarts) * Top \in Nat
      BY <3>3, TopIsHighest, TimesNat
    <3> QED BY <3>2, <3>4
  <2> QED BY <1>1, <1>2, <2>1, <2>2
<1>11. DayInv'
  <2>1. DailyCap \in Nat /\ payRestarts * DailyCap \in Nat /\ (1 + payRestarts) * DailyCap \in Nat
    <3>1. 1 + payRestarts \in Nat
      BY <1>2
    <3> QED BY <1>2, <3>1, TopIsHighest, TimesNat
  <2>2. ASSUME NEW d \in Nat, d > Budget!Today
        PROVE  Count(payGranted, OnDay(d)) = 0
    <3>1. ASSUME NEW i \in DOMAIN payGranted
          PROVE  payGranted[i] \notin OnDay(d)
      <4>1. payGranted[i] \in Nat /\ payGranted[i] <= payNow
        BY <1>2, <1>6
      <4>2. payGranted[i] \div Day \in Nat /\ payGranted[i] \div Day <= Budget!Today
        BY <1>2, <4>1, DaysFollow DEF Budget!Today
      <4> QED BY <1>3, <2>2, <4>2 DEF OnDay
    <3> QED BY <3>1, FellNone DEF Count
  <2>3. ASSUME NEW d \in 0 .. Budget!Today'
        PROVE  Count(payGranted, OnDay(d)) <= (1 + payRestarts) * DailyCap
    <3>1. CASE d \in 0 .. Budget!Today
      BY <3>1 DEF BudgetInv, DayInv
    <3>2. CASE d \notin 0 .. Budget!Today
      <4>1. d \in Nat /\ d > Budget!Today
        BY <1>3, <3>2
      <4>2. Count(payGranted, OnDay(d)) = 0
        BY <2>2, <4>1
      <4> QED BY <2>1, <4>2
    <3> QED BY <3>1, <3>2
  <2>4. Booked(payBooks)' \in Nat
    <3>1. payBooks.requests \in Nat
      BY <1>2 DEF Books
    <3> QED BY <1>1, <2>1, <3>1 DEF Booked
  <2>5. Count(payGranted, OnDay(Budget!Today')) <= payRestarts * DailyCap + Booked(payBooks)'
    <3>1. CASE Budget!Today' = Budget!Today
      <4>1. Booked(payBooks)' = Booked(payBooks)
        BY <1>1, <3>1 DEF Booked
      <4>2. Count(payGranted, OnDay(Budget!Today)) <= payRestarts * DailyCap + Booked(payBooks)
        BY DEF BudgetInv, DayInv
      <4>3. OnDay(Budget!Today') = OnDay(Budget!Today)
        BY <3>1
      <4> QED BY <4>1, <4>2, <4>3
    <3>2. CASE Budget!Today' # Budget!Today
      <4>1. Budget!Today' > Budget!Today
        BY <1>3, <3>2
      <4>2. Count(payGranted, OnDay(Budget!Today')) = 0
        BY <1>3, <2>2, <4>1
      <4> QED BY <2>1, <2>4, <4>2
    <3> QED BY <3>1, <3>2
  <2> QED BY <1>1, <2>3, <2>5 DEF DayInv, OnDay
<1> QED BY <1>8, <1>9, <1>10, <1>11 DEF BudgetInv

(* A restart may bring back a full bucket and forget the account, once.     *)
LEMMA RestartKeeps ==
    ASSUME BudgetInv, Budget!Restart
    PROVE  BudgetInv'
<1>1. payRestarts' = payRestarts + 1 /\ payBooks' = paySaved /\ UNCHANGED <<payNow, paySaved, payRate, payGranted>>
  BY DEF Budget!Restart
<1>2. /\ payNow \in Nat /\ payRestarts \in Nat /\ payRate \in Rates /\ payGranted \in Seq(0 .. payNow)
      /\ payBooks \in Books /\ paySaved \in Books
      /\ Budget!Today' = Budget!Today /\ Budget!Today \in Nat
  BY <1>1, TodayIsNatural DEF BudgetInv, BudgetTypes, Budget!Today
<1>3. Books' = Books /\ Credit(payBooks)' = Credit(paySaved) /\ Booked(payBooks)' = Booked(paySaved)
  BY <1>1, <1>2 DEF Books, Credit, Booked, Full, Top, Budget!Highest
<1>4. /\ Credit(paySaved) \in 0 .. Full /\ Credit(payBooks) \in 0 .. Full
      /\ Booked(paySaved) \in 0 .. DailyCap /\ Booked(payBooks) \in 0 .. DailyCap
  BY <1>2, CreditFits
<1>5. Full \in Nat /\ Top \in Nat /\ Hour \in Nat /\ DailyCap \in Nat
  BY TopIsHighest
<1>6. \A ticks : Count(payGranted, ticks) \in Nat
  BY <1>2, PaymentsCount
<1>7. ASSUME NEW k \in Nat, NEW x \in Nat
      PROVE  /\ (k + payRestarts') * x = (k + payRestarts) * x + x /\ (k + payRestarts) * x \in Nat
             /\ payRestarts' * x = payRestarts * x + x /\ payRestarts * x \in Nat
  <2>1. k + payRestarts' = (k + payRestarts) + 1 /\ k + payRestarts \in Nat
    BY <1>1, <1>2
  <2> QED BY <1>1, <1>2, <2>1, TimesOneMore, TimesNat
<1>8. BudgetTypes'
  BY <1>1, <1>2, <1>3 DEF BudgetTypes
<1>9. FillInv'
  <2> SUFFICES ASSUME NEW t \in 0 .. payNow
               PROVE  Hour * Count(payGranted, Since(t)) + Credit(paySaved)
                        <= (1 + payRestarts') * Full + (payNow - t) * Top
    BY <1>1, <1>3 DEF FillInv, Since, Full, Top, Budget!Highest
  <2> DEFINE paid == Hour * Count(payGranted, Since(t))
             fresh == (1 + payRestarts) * Full
             since == (payNow - t) * Top
  <2>1. payNow - t \in Nat
    BY <1>2
  <2>2. paid \in Nat /\ fresh \in Nat /\ since \in Nat /\ (1 + payRestarts') * Full = fresh + Full
    BY <1>5, <1>6, <1>7, <2>1, TimesNat
  <2>3. paid + Credit(payBooks) <= fresh + since
    BY DEF BudgetInv, FillInv
  <2> HIDE DEF paid, fresh, since
  <2>4. paid + Credit(paySaved) <= (fresh + Full) + since
    BY <1>4, <1>5, <2>2, <2>3
  <2> QED BY <2>2, <2>4 DEF paid, since
<1>10. HourInv'
  <2> SUFFICES ASSUME NEW t \in 0 .. payNow
               PROVE  Count(payGranted, t .. t + Hour - 1) <= (2 + payRestarts') * Top
    BY <1>1 DEF HourInv, Top, Budget!Highest
  <2>1. Count(payGranted, t .. t + Hour - 1) <= (2 + payRestarts) * Top
    BY DEF BudgetInv, HourInv
  <2>2. (2 + payRestarts') * Top = (2 + payRestarts) * Top + Top /\ (2 + payRestarts) * Top \in Nat
    BY <1>5, <1>7
  <2> DEFINE bound == (2 + payRestarts) * Top
  <2> HIDE DEF bound
  <2>3. Count(payGranted, t .. t + Hour - 1) <= bound + Top
    <3>1. Count(payGranted, t .. t + Hour - 1) <= bound /\ bound \in Nat
      BY <2>1, <2>2 DEF bound
    <3> QED BY <1>5, <1>6, <3>1
  <2> QED BY <2>2, <2>3 DEF bound
<1>11. DayInv'
  <2> DEFINE cap == (1 + payRestarts) * DailyCap
  <2>1. /\ (1 + payRestarts') * DailyCap = cap + DailyCap /\ cap \in Nat
        /\ payRestarts' * DailyCap = cap
    BY <1>1, <1>2, <1>5, <1>7
  <2>2. \A d \in 0 .. Budget!Today : Count(payGranted, OnDay(d)) <= cap
    BY DEF BudgetInv, DayInv
  <2> HIDE DEF cap
  <2>3. \A d \in 0 .. Budget!Today : Count(payGranted, OnDay(d)) <= cap + DailyCap
    BY <1>5, <1>6, <2>1, <2>2
  <2>4. Budget!Today \in 0 .. Budget!Today
    BY <1>2
  <2>5. Count(payGranted, OnDay(Budget!Today)) <= cap + Booked(paySaved)
    BY <1>4, <1>5, <1>6, <2>1, <2>2, <2>4
  <2> QED BY <1>1, <1>2, <1>3, <2>1, <2>3, <2>5 DEF DayInv, OnDay
<1> QED BY <1>8, <1>9, <1>10, <1>11 DEF BudgetInv


(* Whatever levels, restarts and saves follow each other, at any rate and    *)
(* length of hour and day: in any hour the rationed bucket pays no more than *)
(* two full buckets and one more for each restart, in a day no more than the *)
(* cap, once more for each restart, and after an hour at rest it pays again  *)
(* (tokenBucket.take, budget.spend, Engine.load).                            *)
THEOREM AllowanceIsKept == Budget!Spec => []AllowanceHolds
<1>1. Budget!Init => BudgetInv
  <2> SUFFICES ASSUME Budget!Init PROVE BudgetInv
    OBVIOUS
  <2>1. /\ payNow = 0 /\ payBooks = Budget!NoBooks /\ paySaved = Budget!NoBooks /\ payRate \in Rates
        /\ payGranted = <<>> /\ payRestarts = 0
    BY DEF Budget!Init
  <2>2. Budget!Today \in Nat
    BY <2>1, TodayIsNatural
  <2>3. /\ Budget!NoBooks \in Books /\ Budget!NoBooks.at = -1
    BY <2>1, <2>2 DEF Books, Budget!NoBooks, Budget!Never
  <2>4. BudgetTypes
    BY <2>1, <2>3 DEF BudgetTypes
  <2>5. \A ticks : Count(payGranted, ticks) = 0
    <3>1. \A ticks : \A i \in DOMAIN payGranted : payGranted[i] \notin ticks
      BY <2>1
    <3> QED BY <3>1, FellNone DEF Count
  <2>6. Credit(payBooks) = Full /\ Booked(payBooks) \in 0 .. DailyCap
    <3>1. Booked(payBooks) \in 0 .. DailyCap
      BY <2>1, <2>3, CreditFits
    <3> QED BY <2>1, <2>3, <3>1 DEF Credit
  <2>7. Full \in Nat /\ Top \in Nat /\ Hour \in Nat /\ DailyCap \in Nat
    BY TopIsHighest
  <2>8. FillInv
    <3> SUFFICES ASSUME NEW t \in 0 .. payNow
                 PROVE  Hour * Count(payGranted, Since(t)) + Credit(payBooks)
                          <= (1 + payRestarts) * Full + (payNow - t) * Top
      BY DEF FillInv
    <3>1. Hour * Count(payGranted, Since(t)) = 0 /\ (1 + payRestarts) * Full = Full /\ (payNow - t) * Top = 0
      BY <2>1, <2>5, <2>7
    <3> QED BY <2>6, <2>7, <3>1
  <2>9. HourInv
    <3>1. (2 + payRestarts) * Top \in Nat
      BY <2>1, <2>7, TimesNat
    <3> QED BY <2>5, <3>1 DEF HourInv
  <2>10. DayInv
    <3>1. (1 + payRestarts) * DailyCap \in Nat /\ payRestarts * DailyCap \in Nat
      BY <2>1, <2>7, TimesNat
    <3> QED BY <2>5, <2>6, <2>7, <3>1 DEF DayInv
  <2> QED BY <2>4, <2>8, <2>9, <2>10 DEF BudgetInv
<1>2. BudgetInv /\ [Budget!Next]_(Budget!vars) => BudgetInv'
  <2> SUFFICES ASSUME BudgetInv, [Budget!Next]_(Budget!vars) PROVE BudgetInv'
    OBVIOUS
  <2>0. /\ payBooks \in Books /\ paySaved \in Books /\ payRate \in Rates
        /\ Credit(payBooks) <= Credit(payBooks) /\ Booked(payBooks) >= Booked(payBooks)
    <3>1. payBooks \in Books /\ paySaved \in Books /\ payRate \in Rates /\ payNow \in Nat
      BY DEF BudgetInv, BudgetTypes
    <3>2. Credit(payBooks) \in 0 .. Full /\ Booked(payBooks) \in 0 .. DailyCap
      BY <3>1, CreditFits
    <3> QED BY <3>1, <3>2, TopIsHighest
  <2>1. CASE Budget!Spend
    BY <2>1, SpendKeeps
  <2>2. CASE Budget!UserSpends \/ \E n \in 1 .. MaxExtras : Budget!ChargeExtras(n)
    BY <2>2, ChargeKeeps
  <2>3. CASE Budget!Tick
    BY <2>3, TickKeeps
  <2>4. CASE Budget!Save
    <3>1. paySaved' = payBooks /\ UNCHANGED <<payNow, payBooks, payRate, payGranted, payRestarts>>
      BY <2>4 DEF Budget!Save
    <3> QED BY <2>0, <3>1, BooksKeep
  <2>5. CASE Budget!Restart
    BY <2>5, RestartKeeps
  <2>6. CASE \E r \in Rates : Budget!SetLevel(r)
    <3>1. payRate' \in Rates /\ UNCHANGED <<payNow, payBooks, paySaved, payGranted, payRestarts>>
      BY <2>6 DEF Budget!SetLevel
    <3> QED BY <2>0, <3>1, BooksKeep
  <2>7. CASE UNCHANGED Budget!vars
    <3>1. UNCHANGED <<payNow, payBooks, paySaved, payRate, payGranted, payRestarts>>
      BY <2>7 DEF Budget!vars
    <3> QED BY <2>0, <3>1, BooksKeep
  <2> QED BY <2>1, <2>2, <2>3, <2>4, <2>5, <2>6, <2>7 DEF Budget!Next
<1>3. BudgetInv => AllowanceHolds
  <2> SUFFICES ASSUME BudgetInv PROVE AllowanceHolds
    OBVIOUS
  <2>1. payNow \in Nat /\ payRate \in Rates /\ payRestarts \in Nat /\ payBooks \in Books /\ payGranted \in Seq(0 .. payNow)
    BY DEF BudgetInv, BudgetTypes
  <2>2. \A i \in DOMAIN payGranted : payGranted[i] \in 0 .. payNow
    BY <2>1, PaymentsCount
  <2>3. ASSUME NEW t \in 0 .. payNow
        PROVE  Budget!Paid({u \in 0 .. payNow : u \in t .. t + Hour - 1}) <= (2 + payRestarts) * Budget!Highest
    <3>1. Fell(payGranted, {u \in 0 .. payNow : u \in t .. t + Hour - 1}) = Fell(payGranted, t .. t + Hour - 1)
      BY <2>2 DEF Fell
    <3>2. Budget!Paid({u \in 0 .. payNow : u \in t .. t + Hour - 1}) = Count(payGranted, t .. t + Hour - 1)
      BY <3>1 DEF Budget!Paid, Count, Fell, Budget!Cardinality, Cardinality
    <3> QED BY <3>2 DEF BudgetInv, HourInv, Top
  <2>4. ASSUME NEW d \in 0 .. Budget!Today
        PROVE  Budget!Paid({u \in 0 .. payNow : u \div Day = d}) <= (1 + payRestarts) * DailyCap
    <3>1. Fell(payGranted, {u \in 0 .. payNow : u \div Day = d}) = Fell(payGranted, OnDay(d))
      BY <2>1, <2>2 DEF Fell, OnDay
    <3>2. Budget!Paid({u \in 0 .. payNow : u \div Day = d}) = Count(payGranted, OnDay(d))
      BY <3>1 DEF Budget!Paid, Count, Fell, Budget!Cardinality, Cardinality
    <3> QED BY <3>2 DEF BudgetInv, DayInv
  <2>5. ASSUME payBooks.at # Budget!Never, payNow - payBooks.at >= Hour, payRate > 0
        PROVE  Budget!Filled(payBooks).tokens >= Hour
    <3> DEFINE k == payNow - payBooks.at
    <3>1. payBooks.tokens \in Nat /\ k \in Nat /\ k >= Hour /\ Hour \in Nat /\ payRate \in Nat
      BY <2>1, <2>5, TopIsHighest DEF Books, Budget!Never
    <3>2. Hour * payRate <= k * payRate /\ k * payRate \in Nat /\ Hour * payRate = payRate * Hour
      BY <3>1, TimesGrows, TimesNat
    <3>3. 1 * Hour <= payRate * Hour /\ 1 * Hour = Hour /\ payRate * Hour \in Nat
      <4>1. 1 \in Nat /\ 1 <= payRate
        BY <2>5, <3>1
      <4> QED BY <3>1, <4>1, TimesGrows, TimesNat
    <3>4. Budget!Filled(payBooks).tokens
            = IF payBooks.tokens + k * payRate > payRate * Hour THEN payRate * Hour ELSE payBooks.tokens + k * payRate
      BY <2>5 DEF Budget!Filled
    <3> DEFINE flow == k * payRate
               full == payRate * Hour
    <3>5. flow \in Nat /\ full \in Nat /\ full <= flow /\ Hour <= full
      BY <3>2, <3>3
    <3>6. Budget!Filled(payBooks).tokens = IF payBooks.tokens + flow > full THEN full ELSE payBooks.tokens + flow
      BY <3>4
    <3> HIDE DEF flow, full, k
    <3> QED BY <3>1, <3>5, <3>6
  <2> QED BY <2>3, <2>4, <2>5 DEF AllowanceHolds, Budget!AllowanceHolds
<1> QED BY <1>1, <1>2, <1>3, PTL DEF Budget!Spec

-------------------------------------------------------------------------------
(* The identities.                                                          *)

LEMMA LeastOne ==
    ASSUME NEW T, T \subseteq Nat, T # {}
    PROVE  \E x \in T : \A y \in T : x <= y
<1> DEFINE R == OpToRel(<, Nat)
<1>1. IsWellFoundedOn(R, Nat)
  BY NatLessThanWellFounded, Zenon
<1>2. \A p, q \in Nat : p < q => <<p, q>> \in R
  BY DEF OpToRel
<1> HIDE DEF R
<1>3. PICK x \in T : \A y \in T : ~ (<<y, x>> \in R)
  BY <1>1, WFMin
<1>4. ASSUME NEW y \in T PROVE x <= y
  <2>1. x \in Nat /\ y \in Nat /\ ~(y < x)
    BY <1>2, <1>3
  <2> QED BY <2>1
<1> QED BY <1>4

\* f is what a loop over N items goes through.
Runs(f, N, base, step) == f = [i \in 0 .. N |-> IF i = 0 THEN base ELSE step[<<f[i - 1], i>>]]

(* A loop over N items runs to its end, and it never leaves the sets that   *)
(* no turn leaves: a least turn that did would follow one that did not.     *)
LEMMA LoopRuns ==
    ASSUME NEW N \in Nat, NEW Inv, NEW base \in Inv[0], NEW step,
           \A i \in 1 .. N : \A a \in Inv[i - 1] : step[<<a, i>>] \in Inv[i]
    PROVE  \E f : Runs(f, N, base, step) /\ \A i \in 0 .. N : f[i] \in Inv[i]
<1> USE DEF Runs
<1> DEFINE Good(f, n) == /\ f = [i \in 0 .. n |-> IF i = 0 THEN base ELSE step[<<f[i - 1], i>>]]
                         /\ \A i \in 0 .. n : f[i] \in Inv[i]
           bad == {n \in 0 .. N : \A f : ~Good(f, n)}
<1>1. SUFFICES ASSUME bad # {} PROVE FALSE
  OBVIOUS
<1>2. PICK n \in bad : \A m \in bad : n <= m
  <2>1. bad \subseteq Nat
    OBVIOUS
  <2> HIDE DEF bad
  <2> QED BY <1>1, <2>1, LeastOne
<1>3. n # 0
  <2> DEFINE f == [i \in 0 .. 0 |-> base]
  <2>1. Good(f, 0)
    OBVIOUS
  <2> QED BY <2>1
<1>4. n \in 1 .. N
  BY <1>3
<1>5. n - 1 \notin bad
  <2> HIDE DEF bad
  <2> QED BY <1>2, <1>4
<1>6. PICK g : Good(g, n - 1)
  <2>1. n - 1 \in 0 .. N
    BY <1>4
  <2> HIDE DEF Good
  <2> QED BY <1>5, <2>1
<1> DEFINE f == [i \in 0 .. n |-> IF i = n THEN step[<<g[n - 1], n>>] ELSE g[i]]
<1>7. \A i \in 0 .. n : f[i] = IF i = 0 THEN base ELSE step[<<f[i - 1], i>>]
  <2> SUFFICES ASSUME NEW i \in 0 .. n PROVE f[i] = IF i = 0 THEN base ELSE step[<<f[i - 1], i>>]
    OBVIOUS
  <2>1. CASE i = n
    <3>1. n # 0 /\ n - 1 \in 0 .. n /\ n - 1 # n /\ n \in 0 .. n
      BY <1>4
    <3>2. f[n] = step[<<g[n - 1], n>>] /\ f[n - 1] = g[n - 1]
      BY <3>1
    <3> HIDE DEF f
    <3> QED BY <2>1, <3>1, <3>2
  <2>2. CASE i # n
    <3>1. i \in 0 .. n - 1 /\ (i # 0 => i - 1 \in 0 .. n /\ i - 1 # n)
      BY <1>4, <2>2
    <3>2. g[i] = IF i = 0 THEN base ELSE step[<<g[i - 1], i>>]
      BY <1>6, <3>1
    <3> QED BY <2>2, <3>1, <3>2
  <2> QED BY <2>1, <2>2
<1>8. \A i \in 0 .. n : f[i] \in Inv[i]
  <2>1. n - 1 \in 0 .. n - 1 /\ \A i \in 0 .. n : i # n => i \in 0 .. n - 1
    BY <1>4
  <2>2. \A i \in 0 .. n - 1 : g[i] \in Inv[i]
    BY <1>6
  <2>3. step[<<g[n - 1], n>>] \in Inv[n]
    BY <1>4, <2>1, <2>2
  <2> QED BY <2>1, <2>2, <2>3
<1>9. Good(f, n)
  <2>1. f = [i \in 0 .. n |-> f[i]]
    OBVIOUS
  <2> HIDE DEF f
  <2> QED BY <1>7, <1>8, <2>1
<1> QED BY <1>2, <1>9

LEMMA LoopStays ==
    ASSUME NEW N \in Nat, NEW Inv, NEW f, f[0] \in Inv[0],
           \A i \in 1 .. N : f[i - 1] \in Inv[i - 1] => f[i] \in Inv[i]
    PROVE  \A i \in 0 .. N : f[i] \in Inv[i]
<1> DEFINE bad == {n \in 0 .. N : f[n] \notin Inv[n]}
<1>1. SUFFICES ASSUME bad # {} PROVE FALSE
  OBVIOUS
<1>2. PICK n \in bad : \A m \in bad : n <= m
  <2>1. bad \subseteq Nat
    OBVIOUS
  <2> HIDE DEF bad
  <2> QED BY <1>1, <2>1, LeastOne
<1>3. n \in 1 .. N /\ n - 1 \in 0 .. N
  <2>1. n \in 0 .. N /\ n # 0
    OBVIOUS
  <2> QED BY <2>1
<1>4. n - 1 \notin bad
  <2> HIDE DEF bad
  <2> QED BY <1>2, <1>3
<1> QED BY <1>3, <1>4

IdKey == STRING \X STRING \X STRING \X STRING \X Nat
IdEntry == [key : IdKey, strong : STRING, endpoint : STRING, name : STRING, provider : STRING,
            server : STRING, seenAt : Nat]

(* Of the keys a node may be given, one more than are claimed, one is free, *)
(* and the first that is free is taken.                                     *)
LEMMA FreeKeyIsFree ==
    ASSUME NEW node \in Identity!Node, NEW acc, IsFiniteSet(acc.claimed)
    PROVE  Identity!FreeKey(acc, node) \in IdKey /\ Identity!FreeKey(acc, node) \notin acc.claimed
<1> DEFINE c == Cardinality(acc.claimed)
           K(n) == Identity!NewKey(node, n)
           T == {n \in 0 .. c : K(n) \notin acc.claimed}
<1>1. c \in Nat
  BY FS_CardinalityType
<1>2. \A n, m \in Nat : K(n) \in IdKey /\ (K(n) = K(m) => n = m)
  BY DEF Identity!NewKey, IdKey, Identity!Node
<1>3. T # {}
  <2> SUFFICES ASSUME \A n \in 0 .. c : K(n) \in acc.claimed PROVE FALSE
    OBVIOUS
  <2> DEFINE f == [n \in 0 .. c |-> K(n)]
  <2>1. f \in [0 .. c -> acc.claimed]
    OBVIOUS
  <2>2. IsFiniteSet(0 .. c) /\ Cardinality(0 .. c) = c + 1
    BY <1>1, FS_Interval
  <2>3. Cardinality(acc.claimed) < Cardinality(0 .. c)
    BY <1>1, <2>2
  <2> HIDE DEF f, c
  <2>4. \E n, m \in 0 .. c : n # m /\ f[n] = f[m]
    BY <2>1, <2>2, <2>3, FS_PigeonHole
  <2>5. PICK n \in 0 .. c, m \in 0 .. c : n # m /\ f[n] = f[m]
    BY <2>4
  <2>6. n \in Nat /\ m \in Nat
    BY <1>1
  <2>7. K(n) = K(m)
    BY <2>5 DEF f
  <2> HIDE DEF K
  <2> QED BY <1>2, <2>5, <2>6, <2>7
<1>4. PICK n \in T : \A m \in T : n <= m
  <2>1. T \subseteq Nat
    BY <1>1
  <2> HIDE DEF T
  <2> QED BY <1>3, <2>1, LeastOne
<1> DEFINE first(m) == m \in 0 .. c /\ K(m) \notin acc.claimed /\ \A k \in 0 .. m - 1 : K(k) \in acc.claimed
<1>5. first(n)
  <2> HIDE DEF K, c
  <2>1. n \in 0 .. c /\ K(n) \notin acc.claimed
    OBVIOUS
  <2>2. ASSUME NEW k \in 0 .. n - 1, K(k) \notin acc.claimed
        PROVE  FALSE
    <3>1. k \in 0 .. c /\ k < n
      BY <1>1, <2>1
    <3>2. k \in T
      BY <2>2, <3>1
    <3> QED BY <1>1, <1>4, <2>1, <3>1, <3>2
  <2> QED BY <2>1, <2>2
<1>6. Identity!FreeKey(acc, node) = K(CHOOSE m \in 0 .. c : K(m) \notin acc.claimed /\ \A k \in 0 .. m - 1 : K(k) \in acc.claimed)
  BY DEF Identity!FreeKey, Identity!Cardinality, Cardinality
<1> DEFINE m == CHOOSE m \in 0 .. c : K(m) \notin acc.claimed /\ \A k \in 0 .. m - 1 : K(k) \in acc.claimed
<1>7. m \in 0 .. c /\ K(m) \notin acc.claimed
  <2> HIDE DEF K, c
  <2> QED BY <1>5
<1>8. Identity!FreeKey(acc, node) = K(m)
  BY <1>6
<1> HIDE DEF m, K, c
<1> QED BY <1>1, <1>2, <1>7, <1>8

(* Only an entry of the index is recognised, whose key nobody has claimed.  *)
LEMMA RecognisedIsFree ==
    ASSUME NEW acc, NEW node
    PROVE  \A p \in Identity!Recognised(acc, idEntries, node) :
               p \in DOMAIN idEntries /\ acc.entries[p].key \notin acc.claimed
<1> DEFINE Free(p) == p \in DOMAIN idEntries /\ acc.entries[p].key \notin acc.claimed
           strong == {i \in Identity!ByStrong(idEntries, node.strong) :
                         /\ \A j \in Identity!ByStrong(idEntries, node.strong) : j <= i
                         /\ acc.entries[i].key \notin acc.claimed}
           endpoint == Identity!Unique(acc, Identity!ByEndpoint(idEntries, node.endpoint), "")
           name == Identity!Unique(acc, Identity!ByName(idEntries, node), node.server)
<1>1. \A p \in strong : Free(p)
  BY DEF Identity!ByStrong
<1>2. \A p \in endpoint : Free(p)
  BY DEF Identity!Unique, Identity!ByEndpoint
<1>3. \A p \in name : Free(p)
  BY DEF Identity!Unique, Identity!ByName
<1>4. Identity!Recognised(acc, idEntries, node) = IF strong # {} THEN strong ELSE IF endpoint # {} THEN endpoint ELSE name
  BY DEF Identity!Recognised
<1> HIDE DEF strong, endpoint, name
<1> QED BY <1>1, <1>2, <1>3, <1>4

LEMMA EntryFits ==
    ASSUME NEW index \in Seq(IdEntry), NEW p \in DOMAIN index
    PROVE  p \in Nat /\ index[p] \in IdEntry /\ index[p].seenAt \in Nat
<1>1. p \in Nat /\ index[p] \in IdEntry
  OBVIOUS
<1> QED BY <1>1 DEF IdEntry

\* What a loop has given so far.
Given(s) == {s[p] : p \in DOMAIN s}

\* The entries a refresh at time t has seen.
Fresh(index, t) == {p \in DOMAIN index : index[p].seenAt = t}

Loop == [entries : Seq(IdEntry), claimed : SUBSET IdKey, keys : Seq(IdKey)]

\* Where the loop of Resolve may stand after i nodes: the keys it gave are apart and claimed, each
\* is of an entry it has just seen, and it has seen no more entries than nodes.
Turned(i) ==
    {a \in Loop :
        /\ Len(a.entries) >= Len(idEntries)
        /\ \A p \in DOMAIN a.entries : a.entries[p].seenAt <= idNow + 1
        /\ IsFiniteSet(a.claimed)
        /\ a.claimed = Given(a.keys)
        /\ Len(a.keys) = i /\ Once(a.keys)
        /\ \A k \in a.claimed : \E p \in Fresh(a.entries, idNow + 1) : a.entries[p].key = k
        /\ Cardinality(Fresh(a.entries, idNow + 1)) <= i}

LEMMA FreshIsFinite ==
    ASSUME NEW index \in Seq(IdEntry), NEW t
    PROVE  IsFiniteSet(Fresh(index, t)) /\ Cardinality(Fresh(index, t)) \in Nat
<1>1. Fresh(index, t) \subseteq 1 .. Len(index) /\ IsFiniteSet(1 .. Len(index))
  BY FS_Interval DEF Fresh
<1> QED BY <1>1, FS_Subset, FS_CardinalityType

(* Writing one entry with a new time sees at most that one more.            *)
LEMMA OneMoreSeen ==
    ASSUME NEW index \in Seq(IdEntry), NEW after \in Seq(IdEntry), NEW t, NEW q,
           \A p \in DOMAIN after : p # q => p \in DOMAIN index /\ after[p] = index[p]
    PROVE  Cardinality(Fresh(after, t)) <= Cardinality(Fresh(index, t)) + 1
<1>1. Fresh(after, t) \subseteq Fresh(index, t) \cup {q}
  BY DEF Fresh
<1>2. /\ IsFiniteSet(Fresh(index, t) \cup {q})
      /\ Cardinality(Fresh(index, t) \cup {q}) <= Cardinality(Fresh(index, t)) + 1
  <2>1. IsFiniteSet(Fresh(index, t)) /\ Cardinality(Fresh(index, t)) \in Nat
    BY FreshIsFinite
  <2>2. /\ IsFiniteSet(Fresh(index, t) \cup {q})
        /\ Cardinality(Fresh(index, t) \cup {q})
             = IF q \in Fresh(index, t) THEN Cardinality(Fresh(index, t)) ELSE Cardinality(Fresh(index, t)) + 1
    BY <2>1, FS_AddElement
  <2> QED BY <2>1, <2>2
<1>3. Cardinality(Fresh(after, t)) <= Cardinality(Fresh(index, t) \cup {q})
  BY <1>1, <1>2, FS_Subset
<1> QED BY <1>2, <1>3, FreshIsFinite, FS_CardinalityType

(* One more key, which was not claimed, leaves the keys apart.              *)
LEMMA OneMoreKey ==
    ASSUME NEW S, NEW ks \in Seq(S), NEW k \in S, Once(ks), k \notin Given(ks)
    PROVE  /\ Append(ks, k) \in Seq(S) /\ Len(Append(ks, k)) = Len(ks) + 1 /\ Once(Append(ks, k))
           /\ Given(Append(ks, k)) = Given(ks) \cup {k}
<1> DEFINE n == Len(ks)
           all == Append(ks, k)
<1>1. /\ n \in Nat /\ all \in Seq(S) /\ Len(all) = n + 1 /\ DOMAIN all = 1 .. n + 1 /\ DOMAIN ks = 1 .. n
      /\ all[n + 1] = k /\ \A p \in 1 .. n : all[p] = ks[p]
  OBVIOUS
<1> HIDE DEF n, all
<1>2. \A p \in 1 .. n + 1 : p = n + 1 \/ p \in 1 .. n
  BY <1>1
<1>3. n + 1 \in 1 .. n + 1 /\ 1 .. n \subseteq 1 .. n + 1
  BY <1>1
<1>4. Once(all)
  <2> SUFFICES ASSUME NEW p \in 1 .. n + 1, NEW q \in 1 .. n + 1, all[p] = all[q] PROVE p = q
    BY <1>1 DEF Once
  <2>1. \A r \in 1 .. n : ks[r] # k
    BY <1>1 DEF Given
  <2> QED BY <1>1, <1>2, <2>1 DEF Once
<1>5. Given(all) = Given(ks) \cup {k}
  BY <1>1, <1>2, <1>3 DEF Given
<1> QED BY <1>1, <1>4, <1>5 DEF n, all

IdEntriesInv == idNow \in Nat /\ idEntries \in Seq(IdEntry) /\ \A p \in DOMAIN idEntries : idEntries[p].seenAt <= idNow

(* One turn of the loop.                                                    *)
LEMMA AssignKeeps ==
    ASSUME IdEntriesInv, NEW i \in Nat, NEW acc \in Turned(i), NEW node \in Identity!Node
    PROVE  Identity!Assign(acc, idEntries, node) \in Turned(i + 1)
<1> DEFINE found == Identity!Recognised(acc, idEntries, node)
           q == CHOOSE p \in found : TRUE
           key == IF found = {} THEN Identity!FreeKey(acc, node) ELSE acc.entries[q].key
           entry == [key |-> key, strong |-> node.strong, endpoint |-> node.endpoint, name |-> node.name,
                     provider |-> node.provider, server |-> node.server, seenAt |-> idNow + 1]
           after == IF found = {} THEN Append(acc.entries, entry) ELSE [acc.entries EXCEPT ![q] = entry]
           place == IF found = {} THEN Len(acc.entries) + 1 ELSE q
           a == [entries |-> after, claimed |-> acc.claimed \cup {key}, keys |-> Append(acc.keys, key)]
<1>1. Identity!Assign(acc, idEntries, node) = a
  BY DEF Identity!Assign
<1>2. /\ acc.entries \in Seq(IdEntry) /\ acc.claimed \subseteq IdKey /\ acc.keys \in Seq(IdKey)
      /\ Len(acc.entries) >= Len(idEntries) /\ IsFiniteSet(acc.claimed) /\ Len(acc.keys) = i /\ Once(acc.keys)
      /\ \A p \in DOMAIN acc.entries : acc.entries[p].seenAt <= idNow + 1
      /\ acc.claimed = Given(acc.keys)
      /\ \A k \in acc.claimed : \E p \in Fresh(acc.entries, idNow + 1) : acc.entries[p].key = k
      /\ Cardinality(Fresh(acc.entries, idNow + 1)) <= i
  BY DEF Turned, Loop
<1>3. found # {} => q \in DOMAIN acc.entries /\ acc.entries[q].key \notin acc.claimed
  <2> SUFFICES ASSUME found # {} PROVE q \in DOMAIN acc.entries /\ acc.entries[q].key \notin acc.claimed
    OBVIOUS
  <2>1. q \in found
    OBVIOUS
  <2>2. q \in DOMAIN idEntries /\ acc.entries[q].key \notin acc.claimed
    BY <2>1, RecognisedIsFree
  <2>3. DOMAIN idEntries \subseteq DOMAIN acc.entries
    BY <1>2 DEF IdEntriesInv
  <2> QED BY <2>2, <2>3
<1> HIDE DEF found
<1>4. key \in IdKey /\ key \notin acc.claimed
  <2>1. CASE found = {}
    BY <1>2, <2>1, FreeKeyIsFree
  <2>2. CASE found # {}
    <3>1. acc.entries[q] \in IdEntry
      BY <1>2, <1>3, <2>2
    <3> QED BY <1>3, <2>2, <3>1 DEF IdEntry
  <2> QED BY <2>1, <2>2
<1>5. found # {} => acc.entries[q].key = key
  OBVIOUS
<1> HIDE DEF key, q
<1>6. entry \in IdEntry /\ entry.key = key /\ entry.seenAt = idNow + 1
  BY <1>4 DEF IdEntry, Identity!Node, IdEntriesInv
<1> HIDE DEF entry
<1>7. /\ after \in Seq(IdEntry) /\ Len(after) >= Len(acc.entries) /\ place \in DOMAIN after /\ after[place] = entry
      /\ \A p \in DOMAIN after : p # place => p \in DOMAIN acc.entries /\ after[p] = acc.entries[p]
      /\ \A p \in DOMAIN acc.entries : p # place => p \in DOMAIN after
  <2>1. CASE found = {}
    BY <1>2, <1>6, <2>1
  <2>2. CASE found # {}
    BY <1>2, <1>3, <1>6, <2>2
  <2> QED BY <2>1, <2>2
<1>8. place \in DOMAIN acc.entries => acc.entries[place].key = key
  BY <1>2, <1>5
<1> HIDE DEF after, place
<1>9. /\ Append(acc.keys, key) \in Seq(IdKey) /\ Len(Append(acc.keys, key)) = i + 1 /\ Once(Append(acc.keys, key))
      /\ acc.claimed \cup {key} = Given(Append(acc.keys, key))
  <2>1. acc.keys \in Seq(IdKey) /\ key \in IdKey /\ Once(acc.keys) /\ key \notin Given(acc.keys)
    BY <1>2, <1>4
  <2>2. /\ Append(acc.keys, key) \in Seq(IdKey) /\ Len(Append(acc.keys, key)) = Len(acc.keys) + 1
        /\ Once(Append(acc.keys, key)) /\ Given(Append(acc.keys, key)) = Given(acc.keys) \cup {key}
    BY <2>1, OneMoreKey
  <2> QED BY <1>2, <2>2
<1>10. IsFiniteSet(acc.claimed \cup {key}) /\ acc.claimed \cup {key} \subseteq IdKey
  BY <1>2, <1>4, FS_AddElement
<1>11. \A p \in DOMAIN after : after[p].seenAt <= idNow + 1
  BY <1>2, <1>6, <1>7 DEF IdEntriesInv
<1>12. \A k \in acc.claimed \cup {key} : \E p \in Fresh(after, idNow + 1) : after[p].key = k
  <2> SUFFICES ASSUME NEW k \in acc.claimed \cup {key} PROVE \E p \in Fresh(after, idNow + 1) : after[p].key = k
    OBVIOUS
  <2>1. CASE k = key
    <3>1. place \in Fresh(after, idNow + 1) /\ after[place].key = k
      BY <1>6, <1>7, <2>1 DEF Fresh
    <3> QED BY <3>1
  <2>2. CASE k # key
    <3>1. PICK p \in Fresh(acc.entries, idNow + 1) : acc.entries[p].key = k
      BY <1>2, <2>2
    <3>2. p # place
      BY <1>8, <2>2, <3>1 DEF Fresh
    <3>3. p \in Fresh(after, idNow + 1) /\ after[p].key = k
      BY <1>7, <3>1, <3>2 DEF Fresh
    <3> QED BY <3>3
  <2> QED BY <2>1, <2>2
<1>13. Cardinality(Fresh(after, idNow + 1)) <= i + 1
  <2>1. Cardinality(Fresh(after, idNow + 1)) <= Cardinality(Fresh(acc.entries, idNow + 1)) + 1
    BY <1>2, <1>7, OneMoreSeen
  <2> QED BY <1>2, <1>7, <2>1, FreshIsFinite
<1>14. Len(after) >= Len(idEntries)
  BY <1>2, <1>7 DEF IdEntriesInv
<1>15. a \in Loop
  BY <1>7, <1>9, <1>10 DEF Loop
<1>16. a.entries = after /\ a.claimed = acc.claimed \cup {key} /\ a.keys = Append(acc.keys, key)
  OBVIOUS
<1> HIDE DEF a
<1>17. a \in Turned(i + 1)
  <2>1. /\ Len(a.entries) >= Len(idEntries) /\ \A p \in DOMAIN a.entries : a.entries[p].seenAt <= idNow + 1
        /\ Cardinality(Fresh(a.entries, idNow + 1)) <= i + 1
    BY <1>11, <1>13, <1>14, <1>16
  <2>2. /\ IsFiniteSet(a.claimed) /\ a.claimed = Given(a.keys)
        /\ Len(a.keys) = i + 1 /\ Once(a.keys)
    BY <1>9, <1>10, <1>16
  <2>3. \A k \in a.claimed : \E p \in Fresh(a.entries, idNow + 1) : a.entries[p].key = k
    BY <1>12, <1>16
  <2> QED BY <1>15, <2>1, <2>2, <2>3 DEF Turned
<1> QED BY <1>1, <1>17

(* Resolve leaves keys that are apart, and each on an entry just seen.      *)
LEMMA ResolveKeeps ==
    ASSUME IdEntriesInv, NEW list \in Seq(Identity!Node)
    PROVE  Identity!Resolve(list) \in Turned(Len(list))
<1> DEFINE N == Len(list)
           base == [entries |-> idEntries, claimed |-> {}, keys |-> <<>>]
           sets == [i \in 0 .. N |-> Turned(i)]
           step == [p \in Loop \X (1 .. N) |-> Identity!Assign(p[1], idEntries, list[p[2]])]
<1>1. N \in Nat /\ \A i \in 1 .. N : list[i] \in Identity!Node /\ i - 1 \in Nat /\ (i - 1) + 1 = i /\ i - 1 \in 0 .. N /\ i \in 0 .. N
  OBVIOUS
<1>2. base \in Turned(0)
  <2>1. Fresh(idEntries, idNow + 1) = {}
    BY DEF Fresh, IdEntriesInv, IdEntry
  <2>2. Cardinality(Fresh(idEntries, idNow + 1)) <= 0 /\ IsFiniteSet({})
    BY <2>1, FS_EmptySet
  <2>3. base \in Loop
    BY DEF Loop, IdEntriesInv
  <2>4. \A p \in DOMAIN idEntries : idEntries[p].seenAt <= idNow + 1
    <3>1. \A p \in DOMAIN idEntries : idEntries[p].seenAt \in Nat
      BY EntryFits DEF IdEntriesInv
    <3> QED BY <3>1 DEF IdEntriesInv
  <2>5. Len(idEntries) >= Len(idEntries)
    BY DEF IdEntriesInv
  <2>6. base.entries = idEntries /\ base.claimed = {} /\ base.keys = <<>> /\ Len(base.keys) = 0 /\ DOMAIN base.keys = {}
    OBVIOUS
  <2> HIDE DEF base
  <2>7. base.claimed = Given(base.keys) /\ Once(base.keys)
    BY <2>6 DEF Once, Given
  <2> QED BY <2>2, <2>3, <2>4, <2>5, <2>6, <2>7 DEF Turned
<1>3. \A i \in 1 .. N : \A a \in Turned(i - 1) : Identity!Assign(a, idEntries, list[i]) \in Turned(i)
  <2> SUFFICES ASSUME NEW i \in 1 .. N, NEW a \in Turned(i - 1) PROVE Identity!Assign(a, idEntries, list[i]) \in Turned(i)
    OBVIOUS
  <2>1. Identity!Assign(a, idEntries, list[i]) \in Turned((i - 1) + 1)
    BY <1>1, AssignKeeps
  <2> QED BY <1>1, <2>1
<1>4. \A i \in 1 .. N : \A a \in Turned(i - 1) : step[<<a, i>>] = Identity!Assign(a, idEntries, list[i])
  BY DEF Turned
<1> HIDE DEF N, base, step
<1>5. sets[0] = Turned(0) /\ \A i \in 1 .. N : sets[i - 1] = Turned(i - 1) /\ sets[i] = Turned(i)
  BY <1>1
<1> HIDE DEF sets
<1>6. \E f : Runs(f, N, base, step) /\ \A i \in 0 .. N : f[i] \in sets[i]
  <2>1. base \in sets[0] /\ \A i \in 1 .. N : \A a \in sets[i - 1] : step[<<a, i>>] \in sets[i]
    BY <1>2, <1>3, <1>4, <1>5
  <2>2. N \in Nat
    BY <1>1
  <2> QED BY <2>1, <2>2, LoopRuns
<1>7. PICK g : /\ g = [i \in 0 .. N |-> IF i = 0 THEN base ELSE step[<<g[i - 1], i>>]]
               /\ \A i \in 0 .. N : g[i] \in sets[i]
  BY <1>6 DEF Runs
<1>8. g = [i \in 0 .. N |-> IF i = 0 THEN base ELSE Identity!Assign(g[i - 1], idEntries, list[i])]
  <2>1. \A i \in 0 .. N : i # 0 => i \in 1 .. N
    BY <1>1
  <2>2. \A i \in 0 .. N : i # 0 => step[<<g[i - 1], i>>] = Identity!Assign(g[i - 1], idEntries, list[i])
    BY <1>1, <1>4, <1>5, <1>7, <2>1
  <2> QED BY <1>7, <2>2
<1> DEFINE turn == CHOOSE turn : turn = [i \in 0 .. N |-> IF i = 0 THEN base ELSE Identity!Assign(turn[i - 1], idEntries, list[i])]
<1>9. turn = [i \in 0 .. N |-> IF i = 0 THEN base ELSE Identity!Assign(turn[i - 1], idEntries, list[i])]
  BY <1>8
<1>10. Identity!Resolve(list) = turn[N]
  BY DEF Identity!Resolve, N, base
<1> HIDE DEF turn
<1>11. turn[0] = base /\ \A i \in 1 .. N : turn[i] = Identity!Assign(turn[i - 1], idEntries, list[i])
  <2>1. 0 \in 0 .. N /\ \A i \in 1 .. N : i \in 0 .. N /\ i # 0
    BY <1>1
  <2> QED BY <1>9, <2>1
<1>12. \A i \in 0 .. N : turn[i] \in sets[i]
  <2>1. turn[0] \in sets[0] /\ \A i \in 1 .. N : turn[i - 1] \in sets[i - 1] => turn[i] \in sets[i]
    BY <1>2, <1>3, <1>5, <1>11
  <2> QED BY <1>1, <2>1, LoopStays
<1>13. turn[N] \in Turned(N)
  BY <1>1, <1>12 DEF sets
<1> QED BY <1>10, <1>13 DEF N

(* The order of the sort: what comes before what comes before an entry,     *)
(* comes before it, so no two entries have the same place and every place   *)
(* has an entry.                                                            *)
LEMMA PlacesRise ==
    ASSUME NEW index \in Seq(IdEntry), NEW i \in DOMAIN index
    PROVE  /\ IsFiniteSet(Identity!Before(index, i))
           /\ Cardinality(Identity!Before(index, i)) \in 0 .. Len(index) - 1
           /\ \A j \in Identity!Before(index, i) :
                  j \in DOMAIN index /\ Cardinality(Identity!Before(index, j)) < Cardinality(Identity!Before(index, i))
<1> DEFINE B(j) == Identity!Before(index, j)
<1>1. \A j \in DOMAIN index : index[j].seenAt \in Nat /\ j \in Nat
  BY EntryFits
<1>2. ASSUME NEW j \in DOMAIN index
      PROVE  /\ IsFiniteSet(B(j)) /\ Cardinality(B(j)) \in 0 .. Len(index) - 1
  <2>1. B(j) \subseteq (1 .. Len(index)) \ {j}
    BY <1>1 DEF Identity!Before
  <2>2. IsFiniteSet(1 .. Len(index)) /\ Cardinality(1 .. Len(index)) = Len(index) /\ Len(index) \in Nat
    <3>1. Len(index) \in Nat /\ Len(index) \in Int /\ 1 \in Int
      OBVIOUS
    <3>2. IsFiniteSet(1 .. Len(index)) /\ Cardinality(1 .. Len(index)) = IF 1 > Len(index) THEN 0 ELSE Len(index) - 1 + 1
      BY <3>1, FS_Interval
    <3> QED BY <3>1, <3>2
  <2>3. IsFiniteSet((1 .. Len(index)) \ {j}) /\ Cardinality((1 .. Len(index)) \ {j}) = Len(index) - 1
    <3>1. j \in 1 .. Len(index)
      OBVIOUS
    <3> QED BY <2>2, <3>1, FS_RemoveElement
  <2>4. IsFiniteSet(B(j)) /\ Cardinality(B(j)) <= Len(index) - 1
    BY <2>1, <2>3, FS_Subset
  <2>5. Cardinality(B(j)) \in Nat
    BY <2>4, FS_CardinalityType
  <2> QED BY <2>2, <2>4, <2>5
<1>3. ASSUME NEW j \in B(i)
      PROVE  j \in DOMAIN index /\ Cardinality(B(j)) < Cardinality(B(i))
  <2>1. j \in DOMAIN index
    BY DEF Identity!Before
  <2>2. B(j) \subseteq B(i) /\ j \notin B(j)
    BY <1>1, <2>1 DEF Identity!Before
  <2>3. B(j) \cup {j} \subseteq B(i)
    BY <2>2
  <2>4. Cardinality(B(j) \cup {j}) = Cardinality(B(j)) + 1
    BY <1>2, <2>1, <2>2, FS_AddElement
  <2>5. Cardinality(B(j) \cup {j}) <= Cardinality(B(i))
    BY <1>2, <2>3, FS_Subset
  <2> HIDE DEF B
  <2> QED BY <1>2, <2>1, <2>4, <2>5
<1> QED BY <1>2, <1>3

LEMMA PlacesAreOne ==
    ASSUME NEW index \in Seq(IdEntry)
    PROVE  /\ \A i, j \in DOMAIN index :
                  Cardinality(Identity!Before(index, i)) = Cardinality(Identity!Before(index, j)) => i = j
           /\ \A n \in 0 .. Len(index) - 1 : \E i \in DOMAIN index : Cardinality(Identity!Before(index, i)) = n
<1> DEFINE rank == [i \in 1 .. Len(index) |-> Cardinality(Identity!Before(index, i))]
           L == Len(index)
<1>1. L \in Nat /\ DOMAIN index = 1 .. L
  OBVIOUS
<1>2. ASSUME NEW i \in DOMAIN index, NEW j \in DOMAIN index, i # j
      PROVE  Cardinality(Identity!Before(index, i)) # Cardinality(Identity!Before(index, j))
  <2>1. i \in Nat /\ j \in Nat /\ index[i].seenAt \in Nat /\ index[j].seenAt \in Nat
    BY EntryFits
  <2>2. j \in Identity!Before(index, i) \/ i \in Identity!Before(index, j)
    BY <1>2, <2>1 DEF Identity!Before
  <2>3. /\ Cardinality(Identity!Before(index, i)) \in Int /\ Cardinality(Identity!Before(index, j)) \in Int
        /\ \/ Cardinality(Identity!Before(index, i)) < Cardinality(Identity!Before(index, j))
           \/ Cardinality(Identity!Before(index, j)) < Cardinality(Identity!Before(index, i))
    BY <2>2, PlacesRise
  <2> QED BY <2>3
<1>3. rank \in Injection(1 .. L, 0 .. L - 1)
  <2>1. rank \in [1 .. L -> 0 .. L - 1]
    BY PlacesRise
  <2> QED BY <1>1, <1>2, <2>1 DEF Injection, IsInjective
<1>4. /\ IsFiniteSet(0 .. L - 1) /\ IsFiniteSet(1 .. L)
      /\ Cardinality(0 .. L - 1) = L /\ Cardinality(1 .. L) = L
  <2>1. /\ Cardinality(0 .. L - 1) = IF 0 > L - 1 THEN 0 ELSE (L - 1) - 0 + 1
        /\ Cardinality(1 .. L) = IF 1 > L THEN 0 ELSE L - 1 + 1
        /\ IsFiniteSet(0 .. L - 1) /\ IsFiniteSet(1 .. L)
    <3>1. 0 \in Int /\ 1 \in Int /\ L \in Int /\ L - 1 \in Int
      BY <1>1
    <3> HIDE DEF L
    <3> QED BY <3>1, FS_Interval
  <2> QED BY <1>1, <2>1
<1> HIDE DEF L
<1>5. rank \in Surjection(1 .. L, 0 .. L - 1)
  <2> HIDE DEF rank
  <2> QED BY <1>3, <1>4, FS_Injection
<1>6. \A n \in 0 .. L - 1 : \E i \in 1 .. L : rank[i] = n
  BY <1>5 DEF Surjection
<1> QED BY <1>1, <1>2, <1>6 DEF L

(* Trimming leaves only entries of the index.                               *)
LEMMA TrimFits ==
    ASSUME NEW index \in Seq(IdEntry)
    PROVE  /\ Identity!Trim(index) \in Seq(IdEntry)
           /\ \A p \in DOMAIN Identity!Trim(index) : \E q \in DOMAIN index : Identity!Trim(index)[p] = index[q]
<1>1. CASE Len(index) <= maxIdentities
  BY <1>1 DEF Identity!Trim
<1>2. CASE ~(Len(index) <= maxIdentities)
  <2> DEFINE At(place) == CHOOSE i \in DOMAIN index : Cardinality(Identity!Before(index, i)) = place - 1
             kept == [place \in 1 .. maxIdentities |-> index[At(place)]]
  <2>1. Identity!Trim(index) = kept
    BY <1>2 DEF Identity!Trim, Identity!Cardinality, Cardinality
  <2>2. maxIdentities \in Nat /\ Len(index) \in Nat /\ maxIdentities < Len(index)
    BY <1>2, ListAssumption
  <2>3. ASSUME NEW place \in 1 .. maxIdentities PROVE At(place) \in DOMAIN index
    <3>1. place - 1 \in 0 .. Len(index) - 1
      BY <2>2
    <3>2. \E i \in DOMAIN index : Cardinality(Identity!Before(index, i)) = place - 1
      BY <3>1, PlacesAreOne
    <3> QED BY <3>2
  <2> HIDE DEF At
  <2>4. kept \in [1 .. maxIdentities -> IdEntry]
    BY <2>3, EntryFits
  <2>5. kept \in Seq(IdEntry) /\ DOMAIN kept = 1 .. maxIdentities
    BY <2>2, <2>4
  <2>6. \A p \in 1 .. maxIdentities : kept[p] = index[At(p)]
    OBVIOUS
  <2> HIDE DEF kept
  <2> QED BY <2>1, <2>3, <2>5, <2>6
<1> QED BY <1>1, <1>2

(* What was just seen stays when there is room for all of it: only what was *)
(* just seen comes before it.                                               *)
LEMMA TrimKeepsFresh ==
    ASSUME NEW index \in Seq(IdEntry), NEW t \in Nat, \A p \in DOMAIN index : index[p].seenAt <= t,
           Cardinality(Fresh(index, t)) <= maxIdentities, NEW p \in Fresh(index, t)
    PROVE  \E q \in DOMAIN Identity!Trim(index) : Identity!Trim(index)[q] = index[p]
<1>1. p \in DOMAIN index /\ index[p].seenAt = t
  BY DEF Fresh
<1>2. CASE Len(index) <= maxIdentities
  BY <1>1, <1>2 DEF Identity!Trim
<1>3. CASE ~(Len(index) <= maxIdentities)
  <2> DEFINE At(place) == CHOOSE i \in DOMAIN index : Cardinality(Identity!Before(index, i)) = place - 1
             kept == [place \in 1 .. maxIdentities |-> index[At(place)]]
             r == Cardinality(Identity!Before(index, p))
  <2>1. Identity!Trim(index) = kept
    BY <1>3 DEF Identity!Trim, Identity!Cardinality, Cardinality
  <2>2. Identity!Before(index, p) \subseteq Fresh(index, t) \ {p}
    <3> SUFFICES ASSUME NEW j \in Identity!Before(index, p) PROVE j \in Fresh(index, t) \ {p}
      OBVIOUS
    <3>1. j \in DOMAIN index /\ (index[j].seenAt > index[p].seenAt \/ (index[j].seenAt = index[p].seenAt /\ j < p))
      BY DEF Identity!Before
    <3>2. index[j].seenAt <= t /\ index[j].seenAt \in Nat /\ index[p].seenAt = t /\ j \in Nat /\ p \in Nat
      BY <1>1, <3>1, EntryFits
    <3>3. index[j].seenAt = t /\ j # p
      BY <3>1, <3>2
    <3> QED BY <3>1, <3>3 DEF Fresh
  <2>3. IsFiniteSet(Fresh(index, t)) /\ Cardinality(Fresh(index, t)) \in Nat
    BY FreshIsFinite
  <2>4. IsFiniteSet(Fresh(index, t) \ {p}) /\ Cardinality(Fresh(index, t) \ {p}) = Cardinality(Fresh(index, t)) - 1
    BY <2>3, FS_RemoveElement
  <2>5. r <= Cardinality(Fresh(index, t) \ {p})
    BY <2>2, <2>4, FS_Subset
  <2>6. r \in Nat
    BY <1>1, PlacesRise
  <2> HIDE DEF r
  <2>7. r + 1 \in 1 .. maxIdentities /\ (r + 1) - 1 = r
    BY <2>3, <2>4, <2>5, <2>6, ListAssumption
  <2>8. At(r + 1) = p
    <3> DEFINE i == At(r + 1)
    <3>1. Cardinality(Identity!Before(index, p)) = (r + 1) - 1
      BY <2>7 DEF r
    <3>2. i \in DOMAIN index /\ Cardinality(Identity!Before(index, i)) = (r + 1) - 1
      BY <1>1, <3>1
    <3> HIDE DEF i
    <3>3. i = p
      BY <1>1, <3>1, <3>2, PlacesAreOne
    <3> QED BY <3>3 DEF i
  <2>9. kept[r + 1] = index[p] /\ r + 1 \in DOMAIN kept
    BY <2>7, <2>8
  <2> QED BY <2>1, <2>9
<1> QED BY <1>2, <1>3

IdInv == IdEntriesInv /\ Identity!KeysAreApart /\ Identity!KeysAreKnown

(* A refresh: every key it gave is of an entry just seen, and there are no  *)
(* more of those than nodes, so that the trim leaves them all.              *)
LEMMA RefreshKeeps ==
    ASSUME IdInv, NEW list \in Lists, Identity!Refresh(list)
    PROVE  IdInv'
<1> DEFINE done == Identity!Resolve(list)
           kept == Identity!Trim(done.entries)
<1>1. idEntries' = kept /\ idKeys' = done.keys /\ idNodes' = list /\ idNow' = idNow + 1
  BY DEF Identity!Refresh
<1>2. list \in Seq(Identity!Node) /\ Len(list) \in Nat /\ idNow \in Nat
  BY ListAssumption DEF IdInv, IdEntriesInv
<1>3. done \in Turned(Len(list))
  BY <1>2, ResolveKeeps DEF IdInv
<1> HIDE DEF done
<1>4. /\ done.entries \in Seq(IdEntry) /\ Once(done.keys)
      /\ \A p \in DOMAIN done.entries : done.entries[p].seenAt <= idNow + 1
      /\ done.claimed = Given(done.keys)
      /\ \A k \in done.claimed : \E p \in Fresh(done.entries, idNow + 1) : done.entries[p].key = k
      /\ Cardinality(Fresh(done.entries, idNow + 1)) <= Len(list)
  BY <1>3 DEF Turned, Loop
<1>5. kept \in Seq(IdEntry) /\ \A p \in DOMAIN kept : \E q \in DOMAIN done.entries : kept[p] = done.entries[q]
  BY <1>4, TrimFits
<1>6. IdEntriesInv'
  <2>1. \A p \in DOMAIN kept : kept[p].seenAt <= idNow + 1
    BY <1>4, <1>5
  <2> QED BY <1>1, <1>2, <1>5, <2>1 DEF IdEntriesInv
<1>7. Identity!KeysAreApart'
  BY <1>1, <1>4 DEF Identity!KeysAreApart, Once
<1>8. Identity!KeysAreKnown'
  <2> SUFFICES ASSUME Len(list) <= maxIdentities, NEW i \in DOMAIN done.keys
               PROVE  \E q \in DOMAIN kept : kept[q].key = done.keys[i]
    BY <1>1 DEF Identity!KeysAreKnown, Identity!Known
  <2>1. PICK p \in Fresh(done.entries, idNow + 1) : done.entries[p].key = done.keys[i]
    BY <1>4 DEF Given
  <2>2. Cardinality(Fresh(done.entries, idNow + 1)) <= maxIdentities
    BY <1>2, <1>4, ListAssumption, FreshIsFinite
  <2>3. PICK q \in DOMAIN kept : kept[q] = done.entries[p]
    BY <1>2, <1>4, <2>2, TrimKeepsFresh
  <2> QED BY <2>1, <2>3
<1> QED BY <1>6, <1>7, <1>8 DEF IdInv

(* KeysStandApart: whatever lists refreshes bring, a key goes to one node   *)
(* of a refresh, and the prune after it knows every key it gave as long as  *)
(* the index has room for the refresh (Resolve, trim, Known).               *)
THEOREM KeysStandApart == Identity!Spec => [](Identity!KeysAreApart /\ Identity!KeysAreKnown)
<1>1. Identity!Init => IdInv
  <2> SUFFICES ASSUME Identity!Init PROVE IdInv
    OBVIOUS
  <2>1. idEntries = <<>> /\ idKeys = <<>> /\ idNow = 0
    BY DEF Identity!Init
  <2>2. DOMAIN idKeys = {} /\ DOMAIN idEntries = {} /\ idEntries \in Seq(IdEntry)
    BY <2>1
  <2> QED BY <2>1, <2>2 DEF IdInv, IdEntriesInv, Identity!KeysAreApart, Identity!KeysAreKnown
<1>2. IdInv /\ [Identity!Next]_(Identity!vars) => IdInv'
  <2>1. ASSUME IdInv, Identity!Next PROVE IdInv'
    <3>1. PICK list \in Lists : Identity!Refresh(list)
      BY <2>1 DEF Identity!Next
    <3> QED BY <2>1, <3>1, RefreshKeeps
  <2>2. ASSUME IdInv, UNCHANGED Identity!vars PROVE IdInv'
    BY <2>2 DEF Identity!vars, IdInv, IdEntriesInv, Identity!KeysAreApart, Identity!KeysAreKnown, Identity!Known
  <2> QED BY <2>1, <2>2
<1>3. IdInv => Identity!KeysAreApart /\ Identity!KeysAreKnown
  BY DEF IdInv
<1> QED BY <1>1, <1>2, <1>3, PTL DEF Identity!Spec

-------------------------------------------------------------------------------
(* The names of received documents.                                         *)

NameSet == [base : STRING, n : Seq(Nat)]

\* The title a document of a bundle is named by, and a text whose documents can be named.
TitleOf(kind, d) == IF kind = "plain" THEN d.doc.title ELSE d.key
CanBeNamed(shown) ==
    /\ Len(shown.docs) \in Nat /\ DOMAIN shown.docs = 1 .. Len(shown.docs)
    /\ \A i \in DOMAIN shown.docs :
           shown.docs[i].kind \in STRING /\ Docs!Slug(TitleOf(shown.kind, shown.docs[i])) \in NameSet

(* Of the numbered names, one more than are used, one is free, and the      *)
(* first that is free is taken.                                             *)
LEMMA FreeNameIsFree ==
    ASSUME NEW used, IsFiniteSet(used), NEW title, Docs!Slug(title) \in NameSet, NEW fallback \in STRING
    PROVE  Docs!freeName(used, title, fallback) \in NameSet /\ Docs!freeName(used, title, fallback) \notin used
<1> DEFINE base == IF Docs!Slug(title) = Docs!NoName THEN Docs!Name(fallback, <<>>) ELSE Docs!Slug(title)
           K(i) == Docs!Name(base.base, Append(base.n, i))
           c == Cardinality(used)
           T == {i \in 2 .. c + 2 : K(i) \notin used}
           i0 == CHOOSE i \in 2 .. c + 2 : K(i) \notin used /\ \A k \in 2 .. i - 1 : K(k) \in used
<1>1. base \in NameSet
  BY DEF Docs!Name, NameSet
<1>2. Docs!freeName(used, title, fallback) = IF base \notin used THEN base ELSE K(i0)
  BY DEF Docs!freeName, Docs!Cardinality, Cardinality
<1> HIDE DEF base
<1>3. c \in Nat
  BY FS_CardinalityType
<1>4. \A i, j \in Nat : K(i) \in NameSet /\ (K(i) = K(j) => i = j)
  <2>1. base.base \in STRING /\ base.n \in Seq(Nat) /\ Len(base.n) \in Nat
    BY <1>1 DEF NameSet
  <2> SUFFICES ASSUME NEW i \in Nat, NEW j \in Nat PROVE K(i) \in NameSet /\ (K(i) = K(j) => i = j)
    OBVIOUS
  <2>2. /\ Append(base.n, i) \in Seq(Nat) /\ Append(base.n, i)[Len(base.n) + 1] = i
        /\ Append(base.n, j)[Len(base.n) + 1] = j
    BY <2>1
  <2>3. K(i).n = Append(base.n, i) /\ K(j).n = Append(base.n, j) /\ K(i) \in NameSet
    BY <2>1, <2>2 DEF Docs!Name, NameSet
  <2> QED BY <2>2, <2>3
<1> HIDE DEF K
<1>5. T # {}
  <2> SUFFICES ASSUME \A i \in 2 .. c + 2 : K(i) \in used PROVE FALSE
    OBVIOUS
  <2> DEFINE f == [i \in 2 .. c + 2 |-> K(i)]
  <2>1. f \in [2 .. c + 2 -> used]
    OBVIOUS
  <2>2. IsFiniteSet(2 .. c + 2) /\ Cardinality(2 .. c + 2) = c + 1
    <3>1. 2 \in Int /\ c + 2 \in Int
      BY <1>3
    <3>2. IsFiniteSet(2 .. c + 2) /\ Cardinality(2 .. c + 2) = IF 2 > c + 2 THEN 0 ELSE (c + 2) - 2 + 1
      BY <3>1, FS_Interval
    <3> QED BY <1>3, <3>2
  <2>3. Cardinality(used) < Cardinality(2 .. c + 2)
    BY <1>3, <2>2
  <2> HIDE DEF f, c
  <2>4. PICK i \in 2 .. c + 2, j \in 2 .. c + 2 : i # j /\ f[i] = f[j]
    BY <2>1, <2>2, <2>3, FS_PigeonHole
  <2>5. K(i) = K(j) /\ i \in Nat /\ j \in Nat
    BY <1>3, <2>4 DEF f
  <2> QED BY <1>4, <2>4, <2>5
<1> HIDE DEF c
<1>6. PICK i \in T : \A m \in T : i <= m
  <2>1. T \subseteq Nat
    BY <1>3
  <2> HIDE DEF T
  <2> QED BY <1>5, <2>1, LeastOne
<1>7. i \in 2 .. c + 2 /\ K(i) \notin used /\ \A k \in 2 .. i - 1 : K(k) \in used
  <2>1. i \in 2 .. c + 2 /\ K(i) \notin used
    OBVIOUS
  <2>2. ASSUME NEW k \in 2 .. i - 1, K(k) \notin used PROVE FALSE
    <3>1. k \in 2 .. c + 2 /\ k < i
      BY <1>3, <2>1
    <3>2. k \in T
      BY <2>2, <3>1
    <3> QED BY <1>3, <1>6, <2>1, <3>1, <3>2
  <2> QED BY <2>1, <2>2
<1>8. i0 \in 2 .. c + 2 /\ K(i0) \notin used
  BY <1>7
<1> HIDE DEF i0
<1>9. i0 \in Nat
  BY <1>3, <1>8
<1> QED BY <1>1, <1>2, <1>4, <1>8, <1>9

\* Where the loop of Unpack may stand after i documents.
Took(used, i) ==
    {a \in [used : SUBSET (used \cup NameSet), names : Seq(NameSet)] :
        /\ IsFiniteSet(a.used) /\ used \subseteq a.used
        /\ Given(a.names) \subseteq a.used
        /\ Len(a.names) = i /\ Once(a.names)
        /\ \A p \in DOMAIN a.names : a.names[p] \notin used}

LEMMA TakeKeeps ==
    ASSUME NEW used, NEW i \in Nat, NEW acc \in Took(used, i), NEW kind, NEW d, d.kind \in STRING,
           Docs!Slug(TitleOf(kind, d)) \in NameSet
    PROVE  Docs!Take(acc, kind, d) \in Took(used, i + 1)
<1> DEFINE name == Docs!freeName(acc.used, TitleOf(kind, d), d.kind)
           a == [used |-> acc.used \cup {name}, names |-> Append(acc.names, name)]
<1>1. Docs!Take(acc, kind, d) = a
  BY DEF Docs!Take, TitleOf
<1>2. /\ acc.used \in SUBSET (used \cup NameSet) /\ acc.names \in Seq(NameSet)
      /\ IsFiniteSet(acc.used) /\ used \subseteq acc.used
      /\ Given(acc.names) \subseteq acc.used
      /\ Len(acc.names) = i /\ Once(acc.names)
      /\ \A p \in DOMAIN acc.names : acc.names[p] \notin used
  BY DEF Took
<1>3. name \in NameSet /\ name \notin acc.used
  BY <1>2, FreeNameIsFree
<1> HIDE DEF name
<1>4. /\ Append(acc.names, name) \in Seq(NameSet) /\ Len(Append(acc.names, name)) = i + 1
      /\ Once(Append(acc.names, name))
      /\ Given(Append(acc.names, name)) = Given(acc.names) \cup {name}
  <2>1. name \notin Given(acc.names)
    BY <1>2, <1>3
  <2> QED BY <1>2, <1>3, <2>1, OneMoreKey
<1>5. IsFiniteSet(acc.used \cup {name})
  BY <1>2, FS_AddElement
<1>6. a.used = acc.used \cup {name} /\ a.names = Append(acc.names, name)
  OBVIOUS
<1>7. a \in [used : SUBSET (used \cup NameSet), names : Seq(NameSet)]
  BY <1>2, <1>3, <1>4
<1> HIDE DEF a
<1>8. Given(a.names) \subseteq a.used /\ used \subseteq a.used
  BY <1>2, <1>4, <1>6
<1>9. \A p \in DOMAIN a.names : a.names[p] \notin used
  <2> SUFFICES ASSUME NEW p \in DOMAIN a.names PROVE a.names[p] \notin used
    OBVIOUS
  <2>1. a.names[p] \in Given(acc.names) \cup {name}
    BY <1>4, <1>6 DEF Given
  <2> QED BY <1>2, <1>3, <2>1 DEF Given
<1>10. IsFiniteSet(a.used) /\ Len(a.names) = i + 1 /\ Once(a.names)
  BY <1>4, <1>5, <1>6
<1> QED BY <1>1, <1>7, <1>8, <1>9, <1>10 DEF Took

LEMMA NamesKeep ==
    ASSUME NEW used, IsFiniteSet(used), NEW shown, CanBeNamed(shown)
    PROVE  \E a \in Took(used, Len(shown.docs)) : Docs!Names(shown, used) = a.names
<1> DEFINE N == Len(shown.docs)
           base == [used |-> used, names |-> <<>>]
           sets == [i \in 0 .. N |-> Took(used, i)]
           Acc == [used : SUBSET (used \cup NameSet), names : Seq(NameSet)]
           step == [p \in Acc \X (1 .. N) |-> Docs!Take(p[1], shown.kind, shown.docs[p[2]])]
<1>1. /\ N \in Nat
      /\ \A i \in 1 .. N : i - 1 \in Nat /\ (i - 1) + 1 = i /\ i - 1 \in 0 .. N /\ i \in 0 .. N
  BY DEF CanBeNamed
<1>2. base \in Took(used, 0)
  <2>1. base \in Acc /\ base.used = used /\ base.names = <<>> /\ Len(base.names) = 0 /\ DOMAIN base.names = {}
    OBVIOUS
  <2> HIDE DEF base
  <2>2. Given(base.names) = {} /\ Once(base.names)
    BY <2>1 DEF Given, Once
  <2> QED BY <2>1, <2>2 DEF Took
<1>3. \A i \in 1 .. N : \A a \in Took(used, i - 1) : Docs!Take(a, shown.kind, shown.docs[i]) \in Took(used, i)
  <2> SUFFICES ASSUME NEW i \in 1 .. N, NEW a \in Took(used, i - 1)
               PROVE  Docs!Take(a, shown.kind, shown.docs[i]) \in Took(used, i)
    OBVIOUS
  <2>1. shown.docs[i].kind \in STRING /\ Docs!Slug(TitleOf(shown.kind, shown.docs[i])) \in NameSet
    BY DEF CanBeNamed
  <2>2. Docs!Take(a, shown.kind, shown.docs[i]) \in Took(used, (i - 1) + 1)
    BY <1>1, <2>1, TakeKeeps
  <2> QED BY <1>1, <2>2
<1>4. \A i \in 1 .. N : \A a \in Took(used, i - 1) : step[<<a, i>>] = Docs!Take(a, shown.kind, shown.docs[i])
  BY DEF Took
<1> HIDE DEF N, base, step
<1>5. sets[0] = Took(used, 0) /\ \A i \in 1 .. N : sets[i - 1] = Took(used, i - 1) /\ sets[i] = Took(used, i)
  BY <1>1
<1> HIDE DEF sets
<1>6. \E f : Runs(f, N, base, step) /\ \A i \in 0 .. N : f[i] \in sets[i]
  <2>1. base \in sets[0] /\ \A i \in 1 .. N : \A a \in sets[i - 1] : step[<<a, i>>] \in sets[i]
    BY <1>2, <1>3, <1>4, <1>5
  <2>2. N \in Nat
    BY <1>1
  <2> QED BY <2>1, <2>2, LoopRuns
<1>7. PICK g : /\ g = [i \in 0 .. N |-> IF i = 0 THEN base ELSE step[<<g[i - 1], i>>]]
               /\ \A i \in 0 .. N : g[i] \in sets[i]
  BY <1>6 DEF Runs
<1>8. g = [i \in 0 .. N |-> IF i = 0 THEN base ELSE Docs!Take(g[i - 1], shown.kind, shown.docs[i])]
  <2>1. \A i \in 0 .. N : i # 0 => i \in 1 .. N
    BY <1>1
  <2>2. \A i \in 0 .. N : i # 0 => step[<<g[i - 1], i>>] = Docs!Take(g[i - 1], shown.kind, shown.docs[i])
    BY <1>1, <1>4, <1>5, <1>7, <2>1
  <2> QED BY <1>7, <2>2
<1> DEFINE turn == CHOOSE turn : turn = [i \in 0 .. N |-> IF i = 0 THEN base ELSE Docs!Take(turn[i - 1], shown.kind, shown.docs[i])]
<1>9. turn = [i \in 0 .. N |-> IF i = 0 THEN base ELSE Docs!Take(turn[i - 1], shown.kind, shown.docs[i])]
  BY <1>8
<1>10. Docs!Names(shown, used) = turn[N].names
  BY DEF Docs!Names, N, base
<1> HIDE DEF turn
<1>11. turn[0] = base /\ \A i \in 1 .. N : turn[i] = Docs!Take(turn[i - 1], shown.kind, shown.docs[i])
  <2>1. 0 \in 0 .. N /\ \A i \in 1 .. N : i \in 0 .. N /\ i # 0
    BY <1>1
  <2> QED BY <1>9, <2>1
<1>12. \A i \in 0 .. N : turn[i] \in sets[i]
  <2>1. turn[0] \in sets[0] /\ \A i \in 1 .. N : turn[i - 1] \in sets[i - 1] => turn[i] \in sets[i]
    BY <1>2, <1>3, <1>5, <1>11
  <2> QED BY <1>1, <2>1, LoopStays
<1>13. turn[N] \in Took(used, N)
  BY <1>1, <1>12 DEF sets
<1> QED BY <1>10, <1>13 DEF N

(* ReceivedNamesAreNew: whatever a text brings and however its titles, its  *)
(* numbered names and the names the receiving user has collide, Unpack      *)
(* saves no document under a name that is used, and no two under one, so    *)
(* nothing is overwritten (freeName, Unpack).                               *)
THEOREM ReceivedNamesAreNew ==
    ASSUME NEW used, IsFiniteSet(used), NEW shown, CanBeNamed(shown)
    PROVE  /\ \A i \in DOMAIN Docs!Unpack(shown, used) : Docs!Unpack(shown, used)[i].name \notin used
           /\ \A i, j \in DOMAIN Docs!Unpack(shown, used) :
                  Docs!Unpack(shown, used)[i].name = Docs!Unpack(shown, used)[j].name => i = j
<1> DEFINE named == Docs!Names(shown, used)
           items == Docs!Unpack(shown, used)
<1>1. Once(named) /\ \A i \in DOMAIN named : named[i] \notin used
  <2>1. PICK a \in Took(used, Len(shown.docs)) : named = a.names
    BY NamesKeep
  <2>2. Once(a.names) /\ \A i \in DOMAIN a.names : a.names[i] \notin used
    BY DEF Took
  <2> HIDE DEF named
  <2> QED BY <2>1, <2>2
<1> HIDE DEF named
<1>2. items = <<>> \/ (DOMAIN items = DOMAIN named /\ \A i \in DOMAIN named : items[i].name = named[i])
  <2> DEFINE Saved(i) == [shown.docs[i].doc EXCEPT
                             !.refs = [k \in DOMAIN shown.docs[i].doc.refs |->
                                          Docs!Follow(shown.docs[i].doc.refs[k], shown, named)]]
             refused == shown.kind = "bundle" /\ Len(shown.docs) > maxBundleDocs
             all == [i \in DOMAIN named |-> [name |-> named[i], doc |-> Saved(i)]]
  <2>1. items = IF refused THEN <<>> ELSE all
    BY DEF Docs!Unpack, named
  <2> HIDE DEF Saved, refused
  <2>2. DOMAIN all = DOMAIN named /\ \A i \in DOMAIN named : all[i].name = named[i]
    OBVIOUS
  <2> HIDE DEF items, all
  <2> QED BY <2>1, <2>2
<1>3. CASE items = <<>>
  BY <1>3
<1>4. CASE DOMAIN items = DOMAIN named /\ \A i \in DOMAIN named : items[i].name = named[i]
  <2> HIDE DEF items
  <2>1. /\ \A i \in DOMAIN items : items[i].name \notin used
        /\ \A i, j \in DOMAIN items : items[i].name = items[j].name => i = j
    BY <1>1, <1>4 DEF Once
  <2> QED BY <2>1 DEF items
<1> QED BY <1>2, <1>3, <1>4

===============================================================================
