------------------------- MODULE VolumeLabelsProofs -------------------------
(***************************************************************************)
(* What the labels of an entry keep for any keys, values, settings and     *)
(* number of calls: protected labels survive every race of updates, the    *)
(* command line deletes its own, and stored maps are valid.                *)
(***************************************************************************)
EXTENDS VolumeLabels, FiniteSetTheorems, TLAPS

-----------------------------------------------------------------------------
(* Maps as sets of pairs.                                                  *)
LEMMA PairOf ==
    ASSUME NEW L, IsLabels(L), NEW p \in L
    PROVE  p = <<p[1], p[2]>>
BY DEF IsLabels

LEMMA ValueOf ==
    ASSUME NEW L, IsLabels(L), NEW p \in L
    PROVE  Value(L, p[1]) = p[2]
<1> DEFINE q == CHOOSE q \in L : q[1] = p[1]
<1>1. q \in L /\ q[1] = p[1]
    OBVIOUS
<1>2. q = p
    BY <1>1 DEF IsLabels
<1>3. p[1] \in KeysOf(L)
    BY DEF KeysOf
<1> QED BY <1>2, <1>3 DEF Value

LEMMA HasValue ==
    ASSUME NEW L, IsLabels(L), NEW k, Value(L, k) # ""
    PROVE  <<k, Value(L, k)>> \in L
<1> DEFINE q == CHOOSE q \in L : q[1] = k
<1>1. k \in KeysOf(L) /\ Value(L, k) = q[2]
    BY DEF Value
<1>2. \E p \in L : p[1] = k
    BY <1>1 DEF KeysOf
<1>3. q \in L /\ q[1] = k
    BY <1>2
<1> HIDE DEF q
<1> QED BY <1>1, <1>3, PairOf

LEMMA OwnerStays ==
    ASSUME NEW L, NEW M, IsLabels(L), IsLabels(M), Value(L, CreatedBy) # "",
           NEW o, NEW P, o # "legacy", CreatedBy \in P, Kept(o, P, L) = Kept(o, P, M)
    PROVE  Value(M, CreatedBy) = Value(L, CreatedBy)
<1> DEFINE p == <<CreatedBy, Value(L, CreatedBy)>>
<1>1. p \in L
    BY HasValue
<1>2. p[1] = CreatedBy /\ p[2] = Value(L, CreatedBy)
    OBVIOUS
<1>3. p \in Kept(o, P, L)
    BY <1>1, <1>2 DEF Kept, Only
<1>4. p \in M
    BY <1>3 DEF Kept, Only
<1> HIDE DEF p
<1> QED BY <1>2, <1>4, ValueOf

LEMMA PutIsLabels ==
    ASSUME NEW L, NEW M, IsLabels(L), IsLabels(M)
    PROVE  IsLabels(Put(L, M))
BY DEF IsLabels, Put, Without, KeysOf

LEMMA PutKeys ==
    ASSUME NEW L, NEW M
    PROVE  KeysOf(Put(L, M)) = KeysOf(L) \cup KeysOf(M)
BY DEF Put, Without, KeysOf

-----------------------------------------------------------------------------
(* KeepProtected: an update that does not change protected labels and gets *)
(* back the ones it left out has exactly those of its entry.               *)
LEMMA KeepProtectedKeeps ==
    ASSUME NEW o, NEW cur, NEW L, IsLabels(cur), IsLabels(L), ~Changes(cur, L),
           o # "legacy" => Value(cur, CreatedBy) # ""
    PROVE  /\ IsLabels(KeepProtected(cur, L))
           /\ Kept(o, Protected, KeepProtected(cur, L)) = Kept(o, Protected, cur)
<1> DEFINE back == {p \in Only(cur, Protected) : p[2] # ""}
           all == KeepProtected(cur, L)
<1>1. all = back \cup Without(L, KeysOf(back))
    BY DEF KeepProtected, Put
<1>2. IsLabels(back)
    BY DEF IsLabels, Only
<1>3. IsLabels(all)
    BY <1>2, PutIsLabels DEF KeepProtected
<1>4. Kept(o, Protected, cur) \subseteq Kept(o, Protected, all)
    BY <1>1 DEF Kept, Only
<1>5. ASSUME NEW p \in Kept(o, Protected, all)
      PROVE  p \in Kept(o, Protected, cur)
  <2>1. /\ p \in all /\ p[1] \in Protected /\ p[2] # ""
        /\ p[1] = CreatedBy => o # "legacy"
      BY <1>5 DEF Kept, Only
  <2>2. CASE p \in back
      BY <2>1, <2>2 DEF Kept, Only
  <2>3. CASE p \in Without(L, KeysOf(back))
    <3>1. p \in L /\ p[1] \notin KeysOf(back) /\ p \in Only(L, Protected)
        BY <2>1, <2>3 DEF Without, Only
    <3>2. p[2] = Value(cur, p[1])
        BY <2>1, <3>1 DEF Changes
    <3>3. <<p[1], p[2]>> \in cur
        BY <2>1, <3>2, HasValue
    <3>4. p \in cur
        BY <3>1, <3>3, PairOf
    <3>5. p \in back
        BY <2>1, <3>4 DEF Only
    <3>6. p[1] \in KeysOf(back)
        BY <3>5 DEF KeysOf
    <3> QED BY <3>1, <3>6
  <2> QED BY <1>1, <2>1, <2>2, <2>3
<1> QED BY <1>3, <1>4, <1>5

-----------------------------------------------------------------------------
(* Counting labels and keys.                                               *)
LEMMA LabelsFinite ==
    ASSUME NEW L, IsLabels(L)
    PROVE  /\ IsFiniteSet(L) /\ IsFiniteSet(KeysOf(L))
           /\ Cardinality(KeysOf(L)) = Cardinality(L) /\ Cardinality(L) \in Nat
<1> DEFINE f == [p \in L |-> p[1]]
<1>1. IsFiniteSet(ReservedKeys)
  <2>1. IsFiniteSet(CloneKeys) /\ IsFiniteSet({"pvc", "pv"}) /\ IsFiniteSet({"source", "snapshot"})
    <3>1. /\ IsFiniteSet({"clone.source.type"} \cup {"clone.source.name"})
          /\ IsFiniteSet({"pvc"} \cup {"pv"}) /\ IsFiniteSet({"source"} \cup {"snapshot"})
        BY FS_Singleton, FS_Union
    <3>2. /\ CloneKeys = {"clone.source.type"} \cup {"clone.source.name"}
          /\ {"pvc", "pv"} = {"pvc"} \cup {"pv"}
          /\ {"source", "snapshot"} = {"source"} \cup {"snapshot"}
        BY DEF CloneKeys
    <3> QED BY <3>1, <3>2
  <2>2. IsFiniteSet({CreatedBy} \cup {"node"})
      BY FS_Singleton, FS_Union
  <2>3. ReservedKeys = (({CreatedBy} \cup {"node"}) \cup CloneKeys)
                         \cup ({"pvc", "pv"} \cup {"source", "snapshot"})
      BY DEF ReservedKeys, SoftReserved
  <2> QED BY <2>1, <2>2, <2>3, FS_Union
<1>2. IsFiniteSet((ReservedKeys \cup ValidKeys) \X ValidValues)
    BY <1>1, FiniteLabels, FS_Union, FS_Product
<1>3. IsFiniteSet(L)
    BY <1>2, FS_Subset DEF IsLabels
<1>4. f \in Bijection(L, KeysOf(L))
  <2>1. f \in [L -> KeysOf(L)]
      BY DEF KeysOf
  <2>2. \A p, q \in L : f[p] = f[q] => p = q
      BY DEF IsLabels
  <2>3. \A k \in KeysOf(L) : \E p \in L : f[p] = k
      BY DEF KeysOf
  <2> QED BY <2>1, <2>2, <2>3 DEF Bijection, Injection, Surjection, IsInjective
<1>5. IsFiniteSet(KeysOf(L)) /\ Cardinality(KeysOf(L)) = Cardinality(L)
    BY <1>3, <1>4, FS_Bijection DEF ExistsBijection
<1> QED BY <1>3, <1>5, FS_CardinalityType

LEMMA PutBackFinite ==
    ASSUME NEW o
    PROVE  IsFiniteSet(PutBack(o)) /\ Cardinality(PutBack(o)) \in Nat
<1>1. IsFiniteSet((UNION Immutables) \ {CreatedBy})
    BY FiniteLabels, FS_Difference
<1>2. IsFiniteSet({}) /\ IsFiniteSet({CreatedBy})
    BY FS_EmptySet, FS_Singleton
<1>3. IsFiniteSet(PutBack(o))
    BY <1>1, <1>2, FS_Union DEF PutBack
<1> QED BY <1>3, FS_CardinalityType

(* Fewer keys count for less.                                              *)
LEMMA CountedWithin ==
    ASSUME NEW o, NEW K, NEW M, IsFiniteSet(M), K \ PutBack(o) \subseteq M,
           Cardinality(M) <= MaxLabels
    PROVE  Counted(o, K)
<1>1. Cardinality(K \ PutBack(o)) <= Cardinality(M) /\ IsFiniteSet(K \ PutBack(o))
    BY FS_Subset
<1>2. Cardinality(K \ PutBack(o)) \in Nat /\ Cardinality(M) \in Nat
    BY <1>1, FS_CardinalityType
<1> QED BY <1>1, <1>2, FiniteLabels DEF Counted

(* What KeepProtected adds to a request that was sent counts, except for   *)
(* what is put back.                                                       *)
LEMMA KeepProtectedCounted ==
    ASSUME NEW o, NEW cur, NEW L, IsLabels(cur), IsLabels(L),
           immutable \in {{CreatedBy} \cup K : K \in Immutables},
           Counted(o, KeysOf(L) \cup KeysOf(Only(Kept(o, Protected, cur), SoftReserved)))
    PROVE  Counted(o, KeysOf(KeepProtected(cur, L)))
<1> DEFINE back == {p \in Only(cur, Protected) : p[2] # ""}
           soft == Only(Kept(o, Protected, cur), SoftReserved)
           M == (KeysOf(L) \cup KeysOf(soft)) \ PutBack(o)
<1>1. KeysOf(KeepProtected(cur, L)) = KeysOf(L) \cup KeysOf(back)
    BY PutKeys DEF KeepProtected
<1>2. ASSUME NEW p \in back, p[1] \notin PutBack(o)
      PROVE  p \in soft
  <2>1. p \in cur /\ p[1] \in Protected /\ p[2] # ""
      BY <1>2 DEF Only
  <2>2. p[1] \in SoftReserved
      BY <1>2, <2>1 DEF Protected, PutBack, SoftReserved
  <2>3. p[1] = CreatedBy => o # "legacy"
      BY <1>2 DEF PutBack
  <2> QED BY <2>1, <2>2, <2>3 DEF Kept, Only
<1>3. KeysOf(KeepProtected(cur, L)) \ PutBack(o) \subseteq M
    BY <1>1, <1>2 DEF KeysOf
<1>4. IsLabels(soft)
    BY DEF IsLabels, Only, Kept
<1>5. IsFiniteSet(KeysOf(L) \cup KeysOf(soft))
    BY <1>4, LabelsFinite, FS_Union
<1>6. IsFiniteSet(M) /\ Cardinality(M) <= MaxLabels
    BY <1>5, FS_Difference DEF Counted
<1> HIDE DEF M
<1> QED BY <1>3, <1>6, CountedWithin
-----------------------------------------------------------------------------
(* The labels of a claim: of those a user annotates the first ones.        *)
LEMMA ParsedOnce ==
    ASSUME NEW raw, DOMAIN raw = 1..Len(raw), Len(raw) \in Nat,
           NEW p \in ParseLabels(raw), NEW q \in ParseLabels(raw), p[1] = q[1]
    PROVE  p = q
<1>1. PICK m \in DOMAIN raw : p = raw[m] /\ \A n \in m+1..Len(raw) : raw[n][1] # raw[m][1]
    BY DEF ParseLabels
<1>2. PICK n \in DOMAIN raw : q = raw[n] /\ \A k \in n+1..Len(raw) : raw[k][1] # raw[n][1]
    BY DEF ParseLabels
<1>3. m = n
    BY <1>1, <1>2
<1> QED BY <1>1, <1>2, <1>3

(* Precedes orders the valid keys.                                         *)
LEMMA KeysOrdered ==
    ASSUME NEW j \in ValidKeys, NEW k \in ValidKeys
    PROVE  /\ j # k => Precedes(j, k) \/ Precedes(k, j)
           /\ ~Precedes(j, j)
           /\ \A l : Precedes(l, j) /\ Precedes(j, k) => Precedes(l, k)
<1>1. DOMAIN KeyOrder \subseteq Int
    BY KeysSorted
<1>2. PICK m \in DOMAIN KeyOrder : KeyOrder[m] = j
    BY KeysSorted
<1>3. PICK n \in DOMAIN KeyOrder : KeyOrder[n] = k
    BY KeysSorted
<1>4. j # k => m < n \/ n < m
    BY <1>1, <1>2, <1>3
<1>5. j # k => Precedes(j, k) \/ Precedes(k, j)
    BY <1>2, <1>3, <1>4 DEF Precedes
<1>6. ~Precedes(j, j)
    BY <1>1, KeysSorted DEF Precedes
<1>7. ASSUME NEW l, Precedes(l, j), Precedes(j, k) PROVE Precedes(l, k)
  <2>1. PICK a \in DOMAIN KeyOrder, b \in DOMAIN KeyOrder :
            a < b /\ KeyOrder[a] = l /\ KeyOrder[b] = j
      BY <1>7 DEF Precedes
  <2>2. PICK d \in DOMAIN KeyOrder, e \in DOMAIN KeyOrder :
            d < e /\ KeyOrder[d] = j /\ KeyOrder[e] = k
      BY <1>7 DEF Precedes
  <2>3. b = d
      BY <2>1, <2>2, KeysSorted
  <2>4. a < e
      BY <1>1, <2>1, <2>2, <2>3
  <2> QED BY <2>1, <2>2, <2>4 DEF Precedes
<1> QED BY <1>5, <1>6, <1>7

(* FirstLabels takes at most MaxUserLabels: the number of labels before it *)
(* is another one for each.                                                *)
LEMMA FirstLabelsFew ==
    ASSUME NEW L, L \subseteq ValidKeys \X ValidValues,
           \A p, q \in L : p[1] = q[1] => p = q
    PROVE  IsFiniteSet(FirstLabels(L)) /\ Cardinality(FirstLabels(L)) <= MaxUserLabels
<1> DEFINE Before(p) == {q \in L : Precedes(q[1], p[1])}
           F == FirstLabels(L)
           places == 0..(MaxUserLabels - 1)
           f == [p \in F |-> Cardinality(Before(p))]
<1>1. IsFiniteSet(L)
  <2>1. IsFiniteSet(ValidKeys \X ValidValues)
      BY FiniteLabels, FS_Product
  <2> QED BY <2>1, FS_Subset
<1>2. ASSUME NEW p \in L PROVE IsFiniteSet(Before(p)) /\ Cardinality(Before(p)) \in Nat
    BY <1>1, FS_Subset, FS_CardinalityType
<1>3. F = {p \in L : Cardinality(Before(p)) < MaxUserLabels} /\ F \subseteq L
    BY DEF FirstLabels
<1> HIDE DEF F
<1>4. f \in [F -> places]
  <2>1. ASSUME NEW p \in F PROVE Cardinality(Before(p)) \in places
    <3>1. Cardinality(Before(p)) \in Nat /\ Cardinality(Before(p)) < MaxUserLabels
        BY <1>2, <1>3
    <3> HIDE DEF Before
    <3> QED BY <3>1, FiniteLabels
  <2> HIDE DEF Before, places
  <2> QED BY <2>1
<1>5. ASSUME NEW p \in L, NEW q \in L, Precedes(p[1], q[1])
      PROVE  Cardinality(Before(p)) < Cardinality(Before(q))
  <2>1. p[1] \in ValidKeys /\ q[1] \in ValidKeys
      OBVIOUS
  <2>2. Before(p) \subseteq Before(q) \ {p} /\ p \in Before(q)
    <3>1. ASSUME NEW x \in L, Precedes(x[1], p[1])
          PROVE  Precedes(x[1], q[1]) /\ x # p
        BY <1>5, <2>1, <3>1, KeysOrdered
    <3> QED BY <1>5, <3>1
  <2>3. /\ IsFiniteSet(Before(q) \ {p})
        /\ Cardinality(Before(q) \ {p}) = Cardinality(Before(q)) - 1
      BY <1>2, <2>2, FS_RemoveElement
  <2>4. Cardinality(Before(p)) <= Cardinality(Before(q) \ {p})
      BY <2>2, <2>3, FS_Subset
  <2>5. Cardinality(Before(p)) \in Nat /\ Cardinality(Before(q)) \in Nat
      BY <1>2
  <2> HIDE DEF Before
  <2> QED BY <2>3, <2>4, <2>5
<1>6. \A p, q \in F : f[p] = f[q] => p = q
  <2> SUFFICES ASSUME NEW p \in F, NEW q \in F, p # q
               PROVE  Cardinality(Before(p)) # Cardinality(Before(q))
      OBVIOUS
  <2>1. p \in L /\ q \in L /\ p[1] \in ValidKeys /\ q[1] \in ValidKeys
      BY <1>3
  <2>2. p[1] # q[1]
      BY <2>1
  <2>3. Precedes(p[1], q[1]) \/ Precedes(q[1], p[1])
      BY <2>1, <2>2, KeysOrdered
  <2>4. \/ Cardinality(Before(p)) < Cardinality(Before(q))
        \/ Cardinality(Before(q)) < Cardinality(Before(p))
      BY <1>5, <2>1, <2>3
  <2>5. Cardinality(Before(p)) \in Nat /\ Cardinality(Before(q)) \in Nat
      BY <1>2, <2>1
  <2> HIDE DEF Before
  <2> QED BY <2>4, <2>5
<1>7. f \in Injection(F, places)
    BY <1>4, <1>6 DEF Injection, IsInjective
<1>8. IsFiniteSet(places) /\ Cardinality(places) = MaxUserLabels
  <2>1. MaxUserLabels - 1 \in Int /\ 0 \in Int
      BY FiniteLabels
  <2>2. /\ IsFiniteSet(places)
        /\ Cardinality(places) = IF 0 > MaxUserLabels - 1 THEN 0 ELSE (MaxUserLabels - 1) - 0 + 1
      BY <2>1, FS_Interval
  <2> QED BY <2>2, FiniteLabels
<1> HIDE DEF f, places
<1>9. IsFiniteSet(F) /\ Cardinality(F) <= MaxUserLabels
    BY <1>7, <1>8, FS_Injection
<1> QED BY <1>9 DEF F
LEMMA KeysFew ==
    ASSUME NEW L, IsFiniteSet(L)
    PROVE  IsFiniteSet(KeysOf(L)) /\ Cardinality(KeysOf(L)) <= Cardinality(L)
<1> DEFINE f == [p \in L |-> p[1]]
<1>1. f \in [L -> KeysOf(L)] /\ \A k \in KeysOf(L) : \E p \in L : f[p] = k
    BY DEF KeysOf
<1>2. f \in Surjection(L, KeysOf(L))
    BY <1>1 DEF Surjection
<1> QED BY <1>2, FS_Surjection

LEMMA UnionFew ==
    ASSUME NEW S, NEW T, IsFiniteSet(S), IsFiniteSet(T), NEW m \in Nat, NEW n \in Nat,
           Cardinality(S) <= m, Cardinality(T) <= n
    PROVE  IsFiniteSet(S \cup T) /\ Cardinality(S \cup T) <= m + n
<1>1. /\ IsFiniteSet(S \cup T)
      /\ Cardinality(S \cup T) = Cardinality(S) + Cardinality(T) - Cardinality(S \cap T)
    BY FS_Union
<1>2. IsFiniteSet(S \cap T)
    BY FS_Intersection
<1>3. /\ Cardinality(S) \in Nat /\ Cardinality(T) \in Nat /\ Cardinality(S \cap T) \in Nat
    BY <1>2, FS_CardinalityType
<1> QED BY <1>1, <1>3

(* What a publish sends, with the protected labels of its volume, is not   *)
(* too much.                                                               *)
LEMMA PublishCounted ==
    ASSUME NEW v, anno[v].labels \in Seq(STRING \X STRING), NEW o, NEW L
    PROVE  Counted(o, KeysOf(VolumeLabelsOf(v)) \cup KeysOf(Only(L, SoftReserved)))
<1> DEFINE raw == anno[v].labels
           user == Without(ParseLabels(raw), ReservedKeys) \cap (ValidKeys \X ValidValues)
           own == {<<"pvc", claim.name>>, <<CreatedBy, K8s>>}
           K == KeysOf(VolumeLabelsOf(v)) \cup KeysOf(Only(L, SoftReserved))
           A == KeysOf(EnvDefaultLabels) \cup KeysOf(FirstLabels(user))
           C == {"clone.source.type"} \cup {"clone.source.name"}
           D == {"pvc"} \cup {CreatedBy}
           B == C \cup D
<1>1. IsFiniteSet(EnvDefaultLabels) /\ Cardinality(EnvDefaultLabels) \in Nat
  <2>1. IsFiniteSet(ValidKeys \X ValidValues)
      BY FiniteLabels, FS_Product
  <2>2. IsFiniteSet(EnvDefaultLabels)
      BY <2>1, FS_Subset DEF EnvDefaultLabels
  <2> QED BY <2>2, FS_CardinalityType
<1>2. IsFiniteSet(FirstLabels(user)) /\ Cardinality(FirstLabels(user)) <= MaxUserLabels
  <2>1. user \subseteq ParseLabels(raw) /\ user \subseteq ValidKeys \X ValidValues
      BY DEF Without
  <2>2. DOMAIN raw = 1..Len(raw) /\ Len(raw) \in Nat
      OBVIOUS
  <2>3. \A p, q \in user : p[1] = q[1] => p = q
      BY <2>1, <2>2, ParsedOnce
  <2> HIDE DEF user
  <2> QED BY <2>1, <2>3, FirstLabelsFew
<1>3. IsFiniteSet(A) /\ Cardinality(A) <= Cardinality(EnvDefaultLabels) + MaxUserLabels
  <2>1. /\ IsFiniteSet(KeysOf(EnvDefaultLabels))
        /\ Cardinality(KeysOf(EnvDefaultLabels)) <= Cardinality(EnvDefaultLabels)
      BY <1>1, KeysFew
  <2>2. /\ IsFiniteSet(KeysOf(FirstLabels(user)))
        /\ Cardinality(KeysOf(FirstLabels(user))) <= MaxUserLabels
    <3>1. /\ IsFiniteSet(KeysOf(FirstLabels(user)))
          /\ Cardinality(KeysOf(FirstLabels(user))) <= Cardinality(FirstLabels(user))
        BY <1>2, KeysFew
    <3>2. /\ Cardinality(KeysOf(FirstLabels(user))) \in Nat
          /\ Cardinality(FirstLabels(user)) \in Nat
        BY <1>2, <3>1, FS_CardinalityType
    <3> HIDE DEF user
    <3> QED BY <1>2, <3>1, <3>2, FiniteLabels
  <2> HIDE DEF user
  <2> QED BY <1>1, <2>1, <2>2, UnionFew, FiniteLabels
<1>4. IsFiniteSet(B) /\ Cardinality(B) <= 4
  <2>1. ASSUME NEW x PROVE IsFiniteSet({x}) /\ Cardinality({x}) <= 1
    <3>1. IsFiniteSet({x}) /\ Cardinality({x}) = 1
        BY FS_Singleton
    <3> QED BY <3>1
  <2>2. IsFiniteSet(C) /\ Cardinality(C) <= 1 + 1
      BY <2>1, UnionFew
  <2>3. IsFiniteSet(D) /\ Cardinality(D) <= 1 + 1
      BY <2>1, UnionFew
  <2> HIDE DEF C, D
  <2>4. Cardinality(C) <= 2 /\ Cardinality(D) <= 2
      BY <2>2, <2>3
  <2>5. IsFiniteSet(B) /\ Cardinality(B) <= 2 + 2
      BY <2>2, <2>3, <2>4, UnionFew
  <2> HIDE DEF B
  <2> QED BY <2>5
<1>5. IsFiniteSet(A \cup B) /\ Cardinality(A \cup B) <= MaxLabels
  <2> HIDE DEF A, B
  <2>1. Cardinality(EnvDefaultLabels) + MaxUserLabels \in Nat
      BY <1>1, FiniteLabels
  <2>2. /\ IsFiniteSet(A \cup B)
        /\ Cardinality(A \cup B) <= (Cardinality(EnvDefaultLabels) + MaxUserLabels) + 4
      BY <1>3, <1>4, <2>1, UnionFew
  <2>3. Cardinality(A \cup B) \in Nat
      BY <2>2, FS_CardinalityType
  <2> QED BY <1>1, <2>2, <2>3, LabelsFit, FiniteLabels
<1>6. K \subseteq A \cup B
  <2>1. KeysOf(VolumeLabelsOf(v))
          = (KeysOf(EnvDefaultLabels) \cup KeysOf(own)) \cup KeysOf(FirstLabels(user))
    <3>1. VolumeLabelsOf(v) = Put(Put(EnvDefaultLabels, own), FirstLabels(user))
        BY DEF VolumeLabelsOf, MergeUserLabels
    <3> QED BY <3>1, PutKeys
  <2>2. KeysOf(own) = {"pvc", CreatedBy}
    <3>1. <<"pvc", claim.name>>[1] = "pvc" /\ <<CreatedBy, K8s>>[1] = CreatedBy
        OBVIOUS
    <3> QED BY <3>1 DEF KeysOf
  <2>3. KeysOf(Only(L, SoftReserved)) \subseteq SoftReserved
      BY DEF KeysOf, Only
  <2> HIDE DEF user, own
  <2> QED BY <2>1, <2>2, <2>3 DEF SoftReserved, CloneKeys
<1> HIDE DEF K, A, B
<1>7. Counted(o, K)
    BY <1>5, <1>6, CountedWithin
<1> QED BY <1>7 DEF K
-----------------------------------------------------------------------------
(* Calls that do nothing, and calls on an entry that is not there.         *)
LEMMA NothingSound ==
    ASSUME NEW r, NEW x, NEW o, NEW P, r.at = "checked" => r.op = "update",
           \/ x = None
           \/ r.labels = None /\ r.op # "delete"
    PROVE  CallSound(r, x, o, P)
BY DEF CallSound

LEMMA IdleSound ==
    ASSUME NEW x, NEW o, NEW P
    PROVE  /\ CallSound(Idle, x, o, P)
           /\ Idle.at = "idle" /\ Idle.labels = None /\ Idle.op = "none"
BY NothingSound DEF Idle

(* A new version of an entry with the same protected labels leaves all     *)
(* calls sound.                                                            *)
LEMMA SameProtected ==
    ASSUME NEW r, NEW x, NEW y, NEW o, NEW P, x # None, CreatedBy \in P,
           EntrySound(x, o), EntrySound(y, o), CallSound(r, x, o, P),
           Kept(o, P, y.labels) = Kept(o, P, x.labels)
    PROVE  CallSound(r, y, o, P)
<1>1. o # "legacy" => Value(y.labels, CreatedBy) = Value(x.labels, CreatedBy)
    BY OwnerStays DEF EntrySound
<1> QED BY <1>1 DEF CallSound

LEMMA ProtectedHasOwner ==
    ASSUME Shaped
    PROVE  CreatedBy \in immutable /\ CreatedBy \in Protected
BY DEF Shaped, Protected, SoftReserved

LEMMA InitIInv == Init => IInv
<1> SUFFICES ASSUME Init PROVE IInv
    OBVIOUS
<1>1. Shaped
  <2>1. DOMAIN item = Items /\ DOMAIN call = Calls
      BY DEF Init
  <2>2. DOMAIN anno = Items /\ \A i \in Items : anno[i].labels = <<>>
      BY DEF Init
  <2>3. <<>> \in Seq(STRING \X STRING)
      OBVIOUS
  <2>4. immutable \in {{CreatedBy} \cup K : K \in Immutables}
      BY DEF Init
  <2> QED BY <2>1, <2>2, <2>3, <2>4 DEF Shaped
<1>2. StoredSound
  <2> SUFFICES ASSUME NEW i \in Items, Exists(i)
               PROVE  i \in used /\ EntrySound(item[i], origin[i])
      BY DEF StoredSound
  <2>1. origin[i] = "legacy" /\ used = Items /\ item[i].labels = {}
      BY DEF Init, Exists
  <2>2. IsLabels({}) /\ KeysOf({}) = {}
      BY DEF IsLabels, KeysOf
  <2>3. Cardinality({} \ PutBack("legacy")) <= MaxLabels
    <3>1. {} \ PutBack("legacy") = {} /\ Cardinality({}) = 0
        BY FS_EmptySet
    <3> QED BY <3>1, FiniteLabels
  <2> QED BY <2>1, <2>2, <2>3 DEF EntrySound, Counted
<1>3. CallsSound
    BY IdleSound DEF Init, CallsSound
<1> QED BY <1>1, <1>2, <1>3 DEF IInv

(* What CallsSound says of one call.                                       *)
InOrder(r, x, o, P, U) ==
    /\ CallSound(r, x, o, P)
    /\ r.at # "idle" => r.item \in Items
    /\ r.labels # None \/ r.op \in {"delete", "force"} => r.at # "idle" /\ r.item \in U

LEMMA CallsInOrder ==
    CallsSound <=> \A c \in Calls : InOrder(call[c], item[call[c].item], origin[call[c].item],
                                           Protected, used)
BY DEF CallsSound, InOrder

(* A step of one call that leaves the entries alone.                       *)
LEMMA CallMoves ==
    ASSUME IInv, UNCHANGED <<item, used, setting>>,
           NEW c \in Calls, NEW r, call' = [call EXCEPT ![c] = r],
           InOrder(r, item[r.item], origin[r.item], Protected, used)
    PROVE  IInv'
<1>1. Protected' = Protected /\ UNCHANGED <<origin, anno, immutable>>
    BY DEF setting, Protected
<1>2. Shaped'
    BY <1>1 DEF IInv, Shaped
<1>3. StoredSound'
    BY <1>1 DEF IInv, StoredSound, Exists
<1>4. ASSUME NEW d \in Calls
      PROVE  InOrder(call'[d], item[call'[d].item], origin[call'[d].item], Protected, used)
    BY CallsInOrder DEF IInv, Shaped
<1>5. CallsSound'
    BY <1>1, <1>4 DEF CallsSound, InOrder
<1> QED BY <1>2, <1>3, <1>5 DEF IInv

LEMMA CallReturns ==
    ASSUME IInv, UNCHANGED <<item, used, setting>>, NEW c \in Calls, Return(c)
    PROVE  IInv'
<1>1. InOrder(Idle, item[Idle.item], origin[Idle.item], Protected, used)
    BY IdleSound DEF InOrder
<1> QED BY <1>1, CallMoves DEF Return

(* A step that changes entry i to x, adds its name, and lets no call go on *)
(* that has not been in order.                                             *)
LEMMA EntryChanges ==
    ASSUME IInv, NEW i \in Items, NEW x, item' = [item EXCEPT ![i] = x],
           UNCHANGED setting, used \subseteq used',
           x # None => i \in used' /\ EntrySound(x, origin[i]),
           DOMAIN call' = Calls,
           \A c \in Calls : call'[c] = call[c] \/ call'[c] = Idle,
           \A c \in Calls : call[c].item = i => CallSound(call[c], x, origin[i], Protected)
    PROVE  IInv'
<1>1. Protected' = Protected /\ UNCHANGED <<origin, anno, immutable>>
    BY DEF setting, Protected
<1>2. DOMAIN item = Items /\ item'[i] = x /\ \A j \in Items : j # i => item'[j] = item[j]
    BY DEF IInv, Shaped
<1>3. Shaped'
    BY <1>1 DEF IInv, Shaped
<1>4. StoredSound'
    BY <1>1, <1>2 DEF IInv, StoredSound, Exists
<1>5. ASSUME NEW c \in Calls
      PROVE  InOrder(call'[c], item'[call'[c].item], origin[call'[c].item], Protected, used')
  <2>1. CASE call'[c] = Idle
      BY <2>1, IdleSound DEF InOrder
  <2>2. CASE call'[c] = call[c]
    <3>1. InOrder(call[c], item[call[c].item], origin[call[c].item], Protected, used)
        BY CallsInOrder DEF IInv
    <3>2. CASE call[c].item = i
        BY <1>2, <2>2, <3>1, <3>2 DEF InOrder
    <3>3. CASE call[c].item # i
      <4>1. item'[call[c].item] = item[call[c].item] \/ call[c].item \notin Items
          BY <1>2, <3>3
      <4>2. CASE call[c].item \in Items
          BY <2>2, <3>1, <4>1, <4>2 DEF InOrder
      <4>3. CASE call[c].item \notin Items
        <5>1. call[c].at = "idle" /\ call[c].labels = None
              /\ call[c].op \notin {"delete", "force"}
            BY <3>1, <4>3 DEF InOrder
        <5>2. CallSound(call[c], item'[call[c].item], origin[call[c].item], Protected)
            BY <5>1, NothingSound
        <5> QED BY <2>2, <5>1, <5>2 DEF InOrder
      <4> QED BY <4>2, <4>3
    <3> QED BY <3>2, <3>3
  <2> QED BY <2>1, <2>2
<1>6. CallsSound'
    BY <1>1, <1>5 DEF CallsSound, InOrder
<1> QED BY <1>3, <1>4, <1>6 DEF IInv
-----------------------------------------------------------------------------
(* Entries are created.                                                    *)
LEMMA CreateSteps ==
    ASSUME IInv, NEW i \in Items, NEW L, NEW clone, NEW params, Create(i, L, clone, params)
    PROVE  IInv'
<1> DEFINE labels == IF clone THEN Put(L, CloneKeys \X {"name"}) ELSE L
           x == [labels |-> labels, params |-> params]
<1>1. /\ i \notin used /\ ValidLabels(labels) /\ Required(labels)
      /\ item' = [item EXCEPT ![i] = x] /\ used' = used \cup {i}
      /\ UNCHANGED <<setting, call>>
    BY DEF Create
<1>2. x.labels = labels
    OBVIOUS
<1> HIDE DEF labels
<1>3. Counted(origin[i], KeysOf(labels))
  <2>1. /\ IsFiniteSet(KeysOf(labels)) /\ Cardinality(KeysOf(labels)) <= MaxLabels
      BY <1>1, LabelsFinite DEF ValidLabels
  <2> QED BY <2>1, CountedWithin
<1>4. Value(labels, CreatedBy) # ""
    BY <1>1, ProtectedHasOwner DEF Required, IInv
<1>5. EntrySound(x, origin[i])
    BY <1>1, <1>2, <1>3, <1>4 DEF EntrySound, ValidLabels
<1>6. ASSUME NEW c \in Calls, call[c].item = i
      PROVE  CallSound(call[c], x, origin[i], Protected)
  <2>1. /\ call[c].labels = None /\ call[c].op # "delete"
        /\ call[c].at = "checked" => call[c].op = "update"
      BY <1>1, <1>6 DEF IInv, CallsSound, CallSound
  <2> QED BY <2>1, NothingSound
<1>7. DOMAIN call' = Calls /\ \A c \in Calls : call'[c] = call[c]
    BY <1>1 DEF IInv, Shaped
<1> HIDE DEF x
<1> QED BY <1>1, <1>5, <1>6, <1>7, EntryChanges

(* Requests are sent.                                                      *)
LEMMA SendSteps ==
    ASSUME IInv, NEW c \in Calls, NEW op, NEW i \in Items, NEW L, NEW p, Send(c, op, i, L, p),
           LET r == [at |-> "sent", op |-> op, item |-> i, labels |-> L, params |-> p]
           IN  CallSound(r, item[i], origin[i], Protected),
           L # None \/ op \in {"delete", "force"} => i \in used
    PROVE  IInv'
<1> DEFINE r == [at |-> "sent", op |-> op, item |-> i, labels |-> L, params |-> p]
<1>1. /\ call' = [call EXCEPT ![c] = r] /\ UNCHANGED <<item, used, setting>>
    BY DEF Send
<1>2. r.at = "sent" /\ r.item = i /\ r.labels = L /\ r.op = op
    OBVIOUS
<1> HIDE DEF r
<1>3. InOrder(r, item[r.item], origin[r.item], Protected, used)
    BY <1>2 DEF InOrder, r
<1> QED BY <1>1, <1>3, CallMoves

(* An update with labels L of an entry that is there: with what will be    *)
(* put back it is not too large.                                           *)
LEMMA UpdateSent ==
    ASSUME IInv, NEW c \in Calls, NEW v \in Items, NEW L, NEW p, Exists(v),
           Send(c, "update", v, L, p),
           ValidLabels(L) => Counted(origin[v], KeysOf(L) \cup
               KeysOf(Only(Kept(origin[v], Protected, item[v].labels), SoftReserved)))
    PROVE  IInv'
<1> DEFINE r == [at |-> "sent", op |-> "update", item |-> v, labels |-> L, params |-> p]
<1>1. r.at = "sent" /\ r.op = "update" /\ r.labels = L
    OBVIOUS
<1>2. CallSound(r, item[v], origin[v], Protected)
  <2> HIDE DEF r
  <2> QED BY <1>1 DEF CallSound
<1>3. v \in used
    BY DEF IInv, StoredSound
<1> QED BY <1>2, <1>3, SendSteps

(* L has all the keys of the labels that will be put back.                 *)
LEMMA NothingPutBack ==
    ASSUME NEW o, NEW P, NEW L, NEW cur, KeysOf(Only(cur, SoftReserved)) \subseteq KeysOf(L),
           ValidLabels(L)
    PROVE  Counted(o, KeysOf(L) \cup KeysOf(Only(Kept(o, P, cur), SoftReserved)))
<1>1. KeysOf(Only(Kept(o, P, cur), SoftReserved)) \subseteq KeysOf(L)
    BY DEF KeysOf, Only, Kept
<1>2. IsFiniteSet(KeysOf(L)) /\ Cardinality(KeysOf(L)) <= MaxLabels
    BY LabelsFinite DEF ValidLabels
<1> QED BY <1>1, <1>2, CountedWithin

LEMMA RequestSteps ==
    ASSUME IInv, NEW v \in Volumes, NEW c \in Calls, NEW raw, NEW key, NEW p,
           \/ ControllerPublishVolume(c, v) \/ LabelAdd(c, v, raw) \/ LabelPatch(c, v, raw)
           \/ LabelRemove(c, v, key) \/ CliVolumeSet(c, v, p)
    PROVE  IInv'
<1> DEFINE cur == item[v].labels
<1>1. v \in Items
    BY DEF Items
<1>2. Exists(v) => IsLabels(cur) /\ Counted(origin[v], KeysOf(cur))
    BY <1>1 DEF IInv, StoredSound, EntrySound
<1>3. CASE ControllerPublishVolume(c, v)
  <2>1. anno[v].labels \in Seq(STRING \X STRING)
      BY <1>1 DEF IInv, Shaped
  <2> QED BY <1>1, <1>3, <2>1, PublishCounted, UpdateSent DEF ControllerPublishVolume
<1>4. CASE LabelAdd(c, v, raw)
  <2> DEFINE L == Put(cur, ParseLabels(raw))
  <2>1. KeysOf(Only(cur, SoftReserved)) \subseteq KeysOf(L)
    <3>1. KeysOf(Only(cur, SoftReserved)) \subseteq KeysOf(cur)
        BY DEF KeysOf, Only
    <3> QED BY <3>1, PutKeys
  <2> QED BY <1>1, <1>4, <2>1, NothingPutBack, UpdateSent DEF LabelAdd
<1>5. CASE LabelPatch(c, v, raw)
  <2> DEFINE L == Put(Only(cur, SoftReserved), ParseLabels(raw))
  <2>1. KeysOf(Only(cur, SoftReserved)) \subseteq KeysOf(L)
      BY PutKeys
  <2> QED BY <1>1, <1>5, <2>1, NothingPutBack, UpdateSent DEF LabelPatch
<1>6. CASE LabelRemove(c, v, key)
  <2> DEFINE L == Without(cur, {key})
             soft == KeysOf(Only(Kept(origin[v], Protected, cur), SoftReserved))
             M == KeysOf(cur) \ PutBack(origin[v])
  <2>1. Exists(v) /\ Send(c, "update", v, L, NoParams)
      BY <1>6 DEF LabelRemove
  <2>2. KeysOf(L) \cup soft \subseteq KeysOf(cur)
      BY DEF KeysOf, Without, Only, Kept
  <2>3. IsFiniteSet(M) /\ Cardinality(M) <= MaxLabels
    <3>1. IsFiniteSet(KeysOf(cur))
        BY <1>2, <2>1, LabelsFinite
    <3> QED BY <1>2, <2>1, <3>1, FS_Difference DEF Counted
  <2>4. (KeysOf(L) \cup soft) \ PutBack(origin[v]) \subseteq M
      BY <2>2
  <2>5. Counted(origin[v], KeysOf(L) \cup soft)
    <3> HIDE DEF L, soft, M
    <3> QED BY <2>3, <2>4, CountedWithin
  <2> QED BY <1>1, <2>1, <2>5, UpdateSent
<1>7. CASE CliVolumeSet(c, v, p)
  <2> DEFINE r == [at |-> "sent", op |-> "update", item |-> v, labels |-> None, params |-> p]
  <2>1. CallSound(r, item[v], origin[v], Protected)
      BY NothingSound
  <2> QED BY <1>1, <1>7, <2>1, SendSteps DEF CliVolumeSet
<1> QED BY <1>3, <1>4, <1>5, <1>6, <1>7
LEMMA DeleteRequestSteps ==
    ASSUME IInv, NEW c \in Calls, NEW i \in Items, CommandDeletes(c, i)
    PROVE  IInv'
<1>1. Exists(i) /\ i \in used
    BY DEF CommandDeletes, IInv, StoredSound
<1>2. ASSUME NEW op \in {"delete", "force"}, Send(c, op, i, None, NoParams),
             op = "delete" => Owner(i) = Cli
      PROVE  IInv'
  <2> DEFINE r == [at |-> "sent", op |-> op, item |-> i, labels |-> None, params |-> NoParams]
  <2>1. r.at = "sent" /\ r.op = op /\ r.labels = None
      OBVIOUS
  <2>2. CallSound(r, item[i], origin[i], Protected)
    <3> HIDE DEF r
    <3> QED BY <1>2, <2>1 DEF CallSound, Owner
  <2> QED BY <1>1, <1>2, <2>2, SendSteps
<1> QED BY <1>2 DEF CommandDeletes

-----------------------------------------------------------------------------
(* The agent checks an update ...                                          *)
LEMMA CheckSteps ==
    ASSUME IInv, NEW c \in Calls, CheckUpdate(c)
    PROVE  IInv'
<1> DEFINE r == call[c]
           i == r.item
           cur == item[i].labels
           new == call'[c]
<1>1. r.at = "sent" /\ r.op = "update" /\ UNCHANGED <<item, used, setting>>
    BY DEF CheckUpdate
<1>2. /\ CallSound(r, item[i], origin[i], Protected) /\ i \in Items
      /\ r.labels # None => i \in used
    BY <1>1 DEF IInv, CallsSound
<1>3. CASE Return(c)
    BY <1>1, <1>3, CallReturns
<1>4. CASE ~Return(c)
  <2>1. /\ Exists(i) /\ (r.labels # None => ValidLabels(r.labels) /\ ~Changes(cur, r.labels))
        /\ call' = [call EXCEPT ![c] = new]
        /\ new.at = "checked" /\ new.op = "update" /\ new.item = i
        /\ new.labels = IF r.labels # None THEN KeepProtected(cur, r.labels) ELSE None
    <3>1. DOMAIN call = Calls
        BY DEF IInv, Shaped
    <3> QED BY <1>1, <1>4, <3>1 DEF CheckUpdate, Refused, Exists
  <2>2. EntrySound(item[i], origin[i])
      BY <1>2, <2>1 DEF IInv, StoredSound
  <2>3. ASSUME r.labels # None
        PROVE  /\ IsLabels(KeepProtected(cur, r.labels))
               /\ Counted(origin[i], KeysOf(KeepProtected(cur, r.labels)))
               /\ Kept(origin[i], Protected, KeepProtected(cur, r.labels))
                     = Kept(origin[i], Protected, cur)
    <3>1. IsLabels(cur) /\ (origin[i] # "legacy" => Value(cur, CreatedBy) # "")
        BY <2>2 DEF EntrySound
    <3>2. IsLabels(r.labels) /\ ~Changes(cur, r.labels)
        BY <2>1, <2>3 DEF ValidLabels
    <3>3. Counted(origin[i], KeysOf(r.labels)
              \cup KeysOf(Only(Kept(origin[i], Protected, cur), SoftReserved)))
        BY <1>1, <1>2, <2>1, <2>3 DEF CallSound, Exists
    <3>4. immutable \in {{CreatedBy} \cup K : K \in Immutables}
        BY DEF IInv, Shaped
    <3> QED BY <3>1, <3>2, <3>3, <3>4, KeepProtectedKeeps, KeepProtectedCounted
  <2> HIDE DEF new
  <2>4. CallSound(new, item[i], origin[i], Protected)
      BY <2>1, <2>3 DEF CallSound
  <2>5. InOrder(new, item[new.item], origin[new.item], Protected, used)
      BY <1>2, <2>1, <2>4 DEF InOrder
  <2> QED BY <1>1, <2>1, <2>5, CallMoves
<1> QED BY <1>3, <1>4

(* ... and writes it: the entry keeps its protected labels.                *)
LEMMA WrittenKeeps ==
    ASSUME IInv, NEW c \in Calls, WriteUpdate(c), Exists(call[c].item)
    PROVE  LET i == call[c].item
               x == [labels |-> Or(call[c].labels, item[i].labels),
                     params |-> Fill(call[c].params, item[i].params)]
           IN  /\ i \in Items /\ item' = [item EXCEPT ![i] = x]
               /\ EntrySound(x, origin[i])
               /\ Kept(origin[i], Protected, x.labels) = Kept(origin[i], Protected, item[i].labels)
<1> DEFINE r == call[c]
           i == r.item
           x == [labels |-> Or(r.labels, item[i].labels),
                 params |-> Fill(r.params, item[i].params)]
<1>1. r.at = "checked" /\ item' = [item EXCEPT ![i] = x]
    BY DEF WriteUpdate
<1>2. CallSound(r, item[i], origin[i], Protected) /\ i \in Items
    BY <1>1 DEF IInv, CallsSound
<1>3. EntrySound(item[i], origin[i])
    BY <1>2 DEF IInv, StoredSound
<1>4. x.labels = Or(r.labels, item[i].labels)
    OBVIOUS
<1> HIDE DEF x
<1>5. CASE r.labels = None
    BY <1>1, <1>2, <1>3, <1>4, <1>5 DEF Or, EntrySound, x
<1>6. CASE r.labels # None
  <2>1. x.labels = r.labels
      BY <1>4, <1>6 DEF Or
  <2>2. /\ IsLabels(r.labels) /\ Counted(origin[i], KeysOf(r.labels))
        /\ Kept(origin[i], Protected, r.labels) = Kept(origin[i], Protected, item[i].labels)
      BY <1>1, <1>2, <1>6 DEF CallSound, Exists
  <2>3. origin[i] # "legacy" => Value(r.labels, CreatedBy) # ""
    <3>1. CreatedBy \in Protected
        BY ProtectedHasOwner DEF IInv
    <3> QED BY <1>3, <2>2, <3>1, OwnerStays DEF EntrySound
  <2>4. EntrySound(x, origin[i])
      BY <2>1, <2>2, <2>3 DEF EntrySound
  <2> QED BY <1>1, <1>2, <2>1, <2>2, <2>4 DEF x
<1> QED BY <1>5, <1>6

LEMMA WriteSteps ==
    ASSUME IInv, NEW c \in Calls, WriteUpdate(c)
    PROVE  IInv'
<1> DEFINE i == call[c].item
           x == [labels |-> Or(call[c].labels, item[i].labels),
                 params |-> Fill(call[c].params, item[i].params)]
<1>1. Return(c) /\ UNCHANGED <<used, setting>>
    BY DEF WriteUpdate
<1>2. CASE Exists(i)
  <2>1. /\ i \in Items /\ item' = [item EXCEPT ![i] = x] /\ EntrySound(x, origin[i])
        /\ Kept(origin[i], Protected, x.labels) = Kept(origin[i], Protected, item[i].labels)
      BY <1>2, WrittenKeeps
  <2> HIDE DEF x
  <2>2. i \in used /\ EntrySound(item[i], origin[i])
      BY <1>2, <2>1 DEF IInv, StoredSound
  <2>3. ASSUME NEW d \in Calls, call[d].item = i
        PROVE  CallSound(call[d], x, origin[i], Protected)
    <3>1. CallSound(call[d], item[i], origin[i], Protected)
        BY <2>3 DEF IInv, CallsSound
    <3>2. CreatedBy \in Protected
        BY ProtectedHasOwner DEF IInv
    <3> QED BY <1>2, <2>1, <2>2, <3>1, <3>2, SameProtected DEF Exists
  <2>4. DOMAIN call' = Calls /\ \A d \in Calls : call'[d] = call[d] \/ call'[d] = Idle
      BY <1>1 DEF Return, IInv, Shaped
  <2> QED BY <1>1, <2>1, <2>2, <2>3, <2>4, EntryChanges
<1>3. CASE ~Exists(i)
    BY <1>1, <1>3, CallReturns DEF WriteUpdate
<1> QED BY <1>2, <1>3

(* Entries are deleted.                                                    *)
LEMMA DeleteSteps ==
    ASSUME IInv, NEW i \in Items,
           \/ ClaimDeleted(i)
           \/ \E c \in Calls : Delete(c) /\ i = call[c].item
    PROVE  IInv'
<1>1. item' = [item EXCEPT ![i] = None] /\ UNCHANGED <<used, setting>>
    BY DEF ClaimDeleted, Delete
<1>2. DOMAIN call' = Calls /\ \A d \in Calls : call'[d] = call[d] \/ call'[d] = Idle
    BY DEF ClaimDeleted, Delete, Return, IInv, Shaped
<1>3. ASSUME NEW d \in Calls, call[d].item = i
      PROVE  CallSound(call[d], None, origin[i], Protected)
  <2>1. call[d].at = "checked" => call[d].op = "update"
      BY DEF IInv, CallsSound, CallSound
  <2> QED BY <2>1, NothingSound
<1> QED BY <1>1, <1>2, <1>3, EntryChanges

(* Users and operators.                                                    *)
LEMMA UserSteps ==
    ASSUME IInv, UserStep
    PROVE  IInv'
<1>1. ASSUME NEW i \in Items, NEW a \in Annotations, Annotate(i, a) PROVE IInv'
  <2>1. /\ UNCHANGED <<item, used, origin, immutable, call>>
        /\ anno' = [anno EXCEPT ![i] = a]
      BY <1>1 DEF Annotate
  <2>2. Shaped'
      BY <2>1, ListsOfPairs DEF IInv, Shaped
  <2>3. StoredSound' /\ CallsSound'
      BY <2>1 DEF IInv, StoredSound, CallsSound, Exists, Protected
  <2> QED BY <2>2, <2>3 DEF IInv
<1>2. ASSUME NEW K \in Immutables, AgentRestart(K) PROVE IInv'
  <2>1. PICK late \in SUBSET {c \in Calls : call[c].at = "sent"} :
            call' = [c \in Calls |-> IF c \in late THEN call[c] ELSE Idle]
      BY <1>2 DEF AgentRestart
  <2>2. UNCHANGED <<item, used, origin, anno>> /\ immutable' = {CreatedBy} \cup K
      BY <1>2 DEF AgentRestart
  <2>3. Shaped'
      BY <2>1, <2>2 DEF IInv, Shaped
  <2>4. StoredSound'
      BY <2>2 DEF IInv, StoredSound, Exists
  <2>5. ASSUME NEW o, NEW L
        PROVE  Only(Kept(o, Protected', L), SoftReserved)
                 = Only(Kept(o, Protected, L), SoftReserved)
      BY DEF Kept, Only, Protected
  <2>6. ASSUME NEW c \in Calls, c \in late, NEW x, NEW o, CallSound(call[c], x, o, Protected)
        PROVE  CallSound(call[c], x, o, Protected')
      BY <2>5, <2>6 DEF CallSound
  <2>7. CallsSound'
    <3> SUFFICES ASSUME NEW c \in Calls
                 PROVE  LET r == call'[c]
                        IN  /\ CallSound(r, item[r.item], origin[r.item], Protected')
                            /\ r.at # "idle" => r.item \in Items
                            /\ r.labels # None \/ r.op \in {"delete", "force"} =>
                                  r.at # "idle" /\ r.item \in used
        BY <2>2 DEF CallsSound
    <3>1. CASE c \in late
        BY <2>1, <2>6, <3>1 DEF IInv, CallsSound
    <3>2. CASE c \notin late
      <4>1. call'[c] = Idle
          BY <2>1, <3>2
      <4> QED BY <4>1, IdleSound
    <3> QED BY <3>1, <3>2
  <2> QED BY <2>3, <2>4, <2>7 DEF IInv
<1> QED BY <1>1, <1>2 DEF UserStep

LEMMA NextIInv == IInv /\ [Next]_vars => IInv'
<1> SUFFICES ASSUME IInv, [Next]_vars PROVE IInv'
    OBVIOUS
<1>1. Volumes \subseteq Items /\ Snapshots \subseteq Items
      /\ Publishers \subseteq Calls /\ Commands \subseteq Calls
    BY DEF Items, Calls
<1>2. CASE ControllerStep
    BY <1>1, <1>2, CreateSteps, RequestSteps DEF ControllerStep, CreateVolume, CreateSnapshot
<1>3. CASE CommandStep
  <2>1. ASSUME NEW i \in Items, NEW raw \in Arguments, NEW p \in Params,
               \/ CliVolumeCreate(i, raw, p) \/ CliVolumeClone(i, raw, p)
               \/ CliSnapshotCreate(i, raw, p) \/ CliSnapshotClone(i, raw, p)
        PROVE  IInv'
      BY <2>1, CreateSteps
         DEF CliVolumeCreate, CliVolumeClone, CliSnapshotCreate, CliSnapshotClone, CommandCreates
  <2>2. ASSUME NEW c \in Commands, NEW i \in Items, CliVolumeDelete(c, i) \/ CliSnapshotDelete(c, i)
        PROVE  IInv'
      BY <1>1, <2>2, DeleteRequestSteps DEF CliVolumeDelete, CliSnapshotDelete
  <2> QED BY <1>1, <1>3, <2>1, <2>2, RequestSteps DEF CommandStep
<1>4. CASE AgentStep
  <2>1. ASSUME NEW c \in Calls, Delete(c) PROVE IInv'
    <3>1. call[c].item \in Items
        BY <2>1 DEF Delete, IInv, CallsSound
    <3> QED BY <2>1, <3>1, DeleteSteps
  <2> QED BY <1>4, <2>1, CheckSteps, WriteSteps, DeleteSteps DEF AgentStep
<1>5. CASE UNCHANGED vars
    BY <1>5 DEF vars, setting, IInv, Shaped, StoredSound, CallsSound, Exists, Protected
<1> QED BY <1>2, <1>3, <1>4, <1>5, UserSteps DEF Next

-----------------------------------------------------------------------------
(* The inductive invariant of labels.                                      *)
THEOREM LabelInvariant == Spec => []IInv
<1>1. Init => IInv
    BY InitIInv
<1>2. IInv /\ [Next]_vars => IInv'
    BY NextIInv
<1> QED BY <1>1, <1>2, PTL DEF Spec

(* A stored map is valid, and exceeds MaxLabels only by labels put back.   *)
THEOREM StoredLabelsAreValid == Spec => []StoredLabelsValid
<1>1. IInv => StoredLabelsValid
  <2> SUFFICES ASSUME IInv, NEW i \in Items, Exists(i)
               PROVE  /\ IsLabels(item[i].labels)
                      /\ Cardinality(item[i].labels) <= MaxLabels + Cardinality(PutBack(origin[i]))
      BY DEF StoredLabelsValid
  <2> DEFINE L == item[i].labels
             K == KeysOf(L)
             B == PutBack(origin[i])
  <2>1. IsLabels(L) /\ Cardinality(K \ B) <= MaxLabels
      BY DEF IInv, StoredSound, EntrySound, Counted
  <2>2. IsFiniteSet(K) /\ Cardinality(K) = Cardinality(L) /\ Cardinality(L) \in Nat
      BY <2>1, LabelsFinite
  <2>3. IsFiniteSet(B) /\ Cardinality(B) \in Nat
      BY PutBackFinite
  <2> HIDE DEF K, B
  <2>4. IsFiniteSet(K \ B)
      BY <2>2, FS_Difference
  <2>5. IsFiniteSet((K \ B) \cup B) /\ Cardinality((K \ B) \cup B) <= MaxLabels + Cardinality(B)
    <3>1. Cardinality(B) <= Cardinality(B) /\ MaxLabels \in Nat
        BY <2>3, FiniteLabels
    <3>2. Cardinality(K \ B) <= MaxLabels
        BY <2>1
    <3> QED BY <2>3, <2>4, <3>1, <3>2, UnionFew
  <2>6. Cardinality(K) <= Cardinality((K \ B) \cup B)
    <3>1. K \subseteq (K \ B) \cup B
        OBVIOUS
    <3> QED BY <2>5, <3>1, FS_Subset
  <2>7. Cardinality((K \ B) \cup B) \in Nat
      BY <2>5, FS_CardinalityType
  <2>8. Cardinality(L) <= MaxLabels + Cardinality(B)
      BY <2>2, <2>3, <2>5, <2>6, <2>7, FiniteLabels
  <2> QED BY <2>1, <2>8 DEF B
<1> QED BY <1>1, LabelInvariant, PTL

(* Only the write of an update turns an entry into another one.            *)
LEMMA OnlyWrites ==
    ASSUME IInv, [Next]_vars, NEW i \in Items, Exists(i), item'[i] # None, item'[i] # item[i]
    PROVE  \E c \in Calls : WriteUpdate(c) /\ call[c].item = i
<1>1. DOMAIN item = Items /\ i \in used
    BY DEF IInv, Shaped, StoredSound
<1>2. ASSUME NEW j, NEW L, NEW clone, NEW params, Create(j, L, clone, params) PROVE FALSE
    BY <1>1, <1>2 DEF Create
<1>3. ASSUME NEW c, NEW op, NEW j, NEW L, NEW p, Send(c, op, j, L, p) PROVE FALSE
    BY <1>3 DEF Send
<1>4. ~ControllerStep
    BY <1>2, <1>3 DEF ControllerStep, CreateVolume, CreateSnapshot, ControllerPublishVolume
<1>5. ~CommandStep
  <2>1. ASSUME NEW j \in Items, NEW raw \in Arguments, NEW p \in Params,
               \/ CliVolumeCreate(j, raw, p) \/ CliVolumeClone(j, raw, p)
               \/ CliSnapshotCreate(j, raw, p) \/ CliSnapshotClone(j, raw, p)
        PROVE  FALSE
      BY <1>2, <2>1
         DEF CliVolumeCreate, CliVolumeClone, CliSnapshotCreate, CliSnapshotClone, CommandCreates
  <2>2. ASSUME NEW c \in Commands, NEW j \in Items, CliVolumeDelete(c, j) \/ CliSnapshotDelete(c, j)
        PROVE  FALSE
      BY <1>3, <2>2 DEF CliVolumeDelete, CliSnapshotDelete, CommandDeletes
  <2>3. ASSUME NEW c \in Commands, NEW v \in Volumes, NEW raw, NEW key, NEW p,
               \/ LabelAdd(c, v, raw) \/ LabelPatch(c, v, raw) \/ LabelRemove(c, v, key)
               \/ CliVolumeSet(c, v, p)
        PROVE  FALSE
      BY <1>3, <2>3 DEF LabelAdd, LabelPatch, LabelRemove, CliVolumeSet
  <2> QED BY <2>1, <2>2, <2>3 DEF CommandStep
<1>6. ~UserStep /\ ~UNCHANGED vars
    BY DEF UserStep, Annotate, AgentRestart, vars
<1>7. AgentStep
    BY <1>4, <1>5, <1>6 DEF Next
<1>8. ASSUME NEW c \in Calls, CheckUpdate(c) \/ Delete(c) PROVE FALSE
    BY <1>1, <1>8 DEF CheckUpdate, Delete
<1>9. ASSUME NEW j \in Items, ClaimDeleted(j) PROVE FALSE
    BY <1>1, <1>9 DEF ClaimDeleted
<1>10. PICK c \in Calls : WriteUpdate(c)
    BY <1>7, <1>8, <1>9 DEF AgentStep
<1>11. call[c].item = i
    BY <1>1, <1>10 DEF WriteUpdate
<1> QED BY <1>10, <1>11

(* No update changes or drops a protected label, whoever races whom.       *)
THEOREM ProtectedLabelsKept == Spec => ProtectedKept
<1>1. IInv /\ [Next]_vars =>
        [\A i \in Items : Exists(i) /\ item'[i] # None =>
          \A p \in Only(item[i].labels, Protected) :
              \/ p \in item'[i].labels \/ p[2] = ""
              \/ origin[i] = "legacy" /\ p[1] = CreatedBy]_vars
  <2> SUFFICES ASSUME IInv, [Next]_vars, NEW i \in Items, Exists(i), item'[i] # None,
                      NEW p \in Only(item[i].labels, Protected), p[2] # "",
                      p[1] = CreatedBy => origin[i] # "legacy"
               PROVE  p \in item'[i].labels
      OBVIOUS
  <2>1. CASE item'[i] = item[i]
      BY <2>1 DEF Only
  <2>2. CASE item'[i] # item[i]
    <3>1. PICK c \in Calls : WriteUpdate(c) /\ call[c].item = i
        BY <2>2, OnlyWrites
    <3> DEFINE x == [labels |-> Or(call[c].labels, item[i].labels),
                     params |-> Fill(call[c].params, item[i].params)]
    <3>2. /\ item' = [item EXCEPT ![i] = x]
          /\ Kept(origin[i], Protected, x.labels) = Kept(origin[i], Protected, item[i].labels)
        BY <3>1, WrittenKeeps
    <3> HIDE DEF x
    <3>3. item'[i] = x
        BY <3>2 DEF IInv, Shaped
    <3>4. p \in Kept(origin[i], Protected, item[i].labels)
        BY DEF Kept
    <3> QED BY <3>2, <3>3, <3>4 DEF Kept, Only
  <2> QED BY <2>1, <2>2
<1> QED BY <1>1, LabelInvariant, PTL DEF Spec, ProtectedKept

(* The command line deletes only what it created, unless told otherwise,   *)
(* although it looks at the owner before it asks for the deletion.         *)
THEOREM CommandsDeleteOwn == Spec => CliDeletesOwn
<1>1. IInv /\ [Next]_vars =>
        [\A c \in Commands :
          Delete(c) /\ call[c].op = "delete" /\ Exists(call[c].item) =>
              Owner(call[c].item) = Cli \/ origin[call[c].item] = "legacy"]_vars
  <2> SUFFICES ASSUME IInv, NEW c \in Commands, call[c].op = "delete", Exists(call[c].item)
               PROVE  Owner(call[c].item) = Cli \/ origin[call[c].item] = "legacy"
      OBVIOUS
  <2>1. c \in Calls
      BY DEF Calls
  <2> QED BY <2>1 DEF IInv, CallsSound, CallSound, Owner, Exists
<1> QED BY <1>1, LabelInvariant, PTL DEF Spec, CliDeletesOwn
=============================================================================
