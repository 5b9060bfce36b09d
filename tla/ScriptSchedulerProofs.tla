------------------------- MODULE ScriptSchedulerProofs -------------------------
(****************************************************************************)
(* Theorems about ScriptScheduler for any number of scripts, threads and     *)
(* priorities.                                                               *)
(****************************************************************************)
EXTENDS ScriptScheduler, FiniteSetTheorems, SequenceTheorems, TLAPS

--------------------------------------------------------------------------------
(* What the helpers on queues return. *)

(* In a finite set of positions every rank from 1 to its size is taken: the
   rebuilt queue of cancel_script has no hole. *)
LEMMA RankTaken ==
    ASSUME NEW n \in Nat, NEW keep \in SUBSET (1 .. n)
    PROVE  /\ Cardinality(keep) \in Nat
           /\ Cardinality(keep) <= n
           /\ \A j \in 1 .. Cardinality(keep) :
                \E i \in keep : Cardinality({k \in keep : k <= i}) = j
           /\ \A i \in keep :
                Cardinality({k \in keep : k <= i}) \in 1 .. Cardinality(keep)
           /\ \A i, h \in keep :
                Cardinality({k \in keep : k <= i}) = Cardinality({k \in keep : k <= h})
                    => i = h
<1> DEFINE Rank(i) == Cardinality({k \in keep : k <= i})
           r == [i \in keep |-> Rank(i)]
           m == Cardinality(keep)
<1>1. /\ IsFiniteSet(1 .. n)
      /\ Cardinality(1 .. n) = n
  BY FS_Interval
<1>2. /\ IsFiniteSet(keep)
      /\ m \in Nat
      /\ m <= n
  BY <1>1, FS_Subset, FS_CardinalityType
<1>3. /\ IsFiniteSet(1 .. m)
      /\ Cardinality(1 .. m) = m
  BY <1>2, FS_Interval
<1>4. ASSUME NEW i \in keep
      PROVE  /\ IsFiniteSet({k \in keep : k <= i})
             /\ Rank(i) \in Nat
             /\ Rank(i) <= m
             /\ Rank(i) # 0
  <2>1. /\ IsFiniteSet({k \in keep : k <= i})
        /\ Rank(i) <= m
    BY <1>2, FS_Subset
  <2>2. i \in {k \in keep : k <= i}
    OBVIOUS
  <2>3. QED
    BY <2>1, <2>2, FS_CardinalityType, FS_EmptySet
<1>5. ASSUME NEW i \in keep, NEW h \in keep, i < h
      PROVE  Rank(i) # Rank(h)
  <2>1. \A k \in keep : k \in Int
    OBVIOUS
  <2>2. {k \in keep : k <= i} \in SUBSET {k \in keep : k <= h}
    <3>1. \A k \in keep : k <= i => k <= h
      BY <2>1, <1>5
    <3>2. QED
      BY <3>1
  <2>3. {k \in keep : k <= i} # {k \in keep : k <= h}
    <3>1. h \notin {k \in keep : k <= i}
      BY <2>1, <1>5
    <3>2. h \in {k \in keep : k <= h}
      BY <2>1
    <3>3. QED
      BY <3>1, <3>2
  <2>4. QED
    BY <2>2, <2>3, <1>4, FS_Subset
<1>6. r \in Injection(keep, 1 .. m)
  <2>1. r \in [keep -> 1 .. m]
    BY <1>2, <1>4
  <2>2. \A i, h \in keep : r[i] = r[h] => i = h
    <3> SUFFICES ASSUME NEW i \in keep, NEW h \in keep, i # h
                 PROVE  r[i] # r[h]
      OBVIOUS
    <3>1. CASE i < h
      BY <3>1, <1>5
    <3>2. CASE h < i
      BY <3>2, <1>5
    <3>3. QED
      BY <3>1, <3>2
  <2>3. QED
    BY <2>1, <2>2 DEF Injection, IsInjective
<1>7. r \in Surjection(keep, 1 .. m)
  BY <1>6, <1>3, FS_Injection
<1>8. /\ \A j \in 1 .. m : \E i \in keep : Rank(i) = j
      /\ \A i \in keep : Rank(i) \in 1 .. m
      /\ \A i, h \in keep : Rank(i) = Rank(h) => i = h
  <2>1. /\ r \in [keep -> 1 .. m]
        /\ \A i, h \in keep : r[i] = r[h] => i = h
        /\ \A j \in 1 .. m : \E i \in keep : r[i] = j
    BY <1>6, <1>7 DEF Surjection, Injection, IsInjective
  <2>2. \A i \in keep : r[i] = Rank(i)
    OBVIOUS
  <2> HIDE DEF r, m, Rank
  <2>3. QED
    BY <2>1, <2>2
<1>9. QED
  BY <1>2, <1>8

(* r takes entries of q at distinct positions. *)
Picks(r, q) ==
    /\ r \in Seq(Contexts)
    /\ Len(r) <= Len(q)
    /\ \A i \in 1 .. Len(r) : \E j \in 1 .. Len(q) : r[i] = q[j]
    /\ (\A i, j \in 1 .. Len(q) : q[i] = q[j] => i = j)
           => (\A i, j \in 1 .. Len(r) : r[i] = r[j] => i = j)

LEMMA PicksBy ==
    ASSUME NEW q \in Seq(Contexts), NEW r \in Seq(Contexts), Len(r) <= Len(q),
           NEW f \in [1 .. Len(r) -> 1 .. Len(q)],
           \A j, k \in 1 .. Len(r) : f[j] = f[k] => j = k,
           \A j \in 1 .. Len(r) : r[j] = q[f[j]]
    PROVE  Picks(r, q)
<1>1. \A i \in 1 .. Len(r) : f[i] \in 1 .. Len(q)
  OBVIOUS
<1>2. \A i \in 1 .. Len(r) : \E j \in 1 .. Len(q) : r[i] = q[j]
  BY <1>1
<1>3. ASSUME \A i, j \in 1 .. Len(q) : q[i] = q[j] => i = j,
             NEW i \in 1 .. Len(r), NEW j \in 1 .. Len(r), r[i] = r[j]
      PROVE  i = j
  <2>1. q[f[i]] = q[f[j]]
    BY <1>3
  <2>2. f[i] = f[j]
    BY <1>1, <1>3, <2>1
  <2>3. QED
    BY <2>2
<1>4. QED
  BY <1>2, <1>3 DEF Picks

(* KeptAt keeps exactly the entries at the given positions. *)
LEMMA KeptAtKeeps ==
    ASSUME NEW T, NEW q \in Seq(T), NEW keep \in SUBSET DOMAIN q
    PROVE  /\ KeptAt(q, keep) \in Seq(T)
           /\ Len(KeptAt(q, keep)) = Cardinality(keep)
           /\ Cardinality(keep) <= Len(q)
           /\ \E f \in [1 .. Cardinality(keep) -> keep] :
                 /\ \A j \in 1 .. Cardinality(keep) : KeptAt(q, keep)[j] = q[f[j]]
                 /\ \A j, k \in 1 .. Cardinality(keep) : f[j] = f[k] => j = k
                 /\ \A i \in keep : \E j \in 1 .. Cardinality(keep) : f[j] = i
<1> DEFINE m == Cardinality(keep)
           Rank(i) == Cardinality({k \in keep : k <= i})
           f == [j \in 1 .. m |-> CHOOSE i \in keep : Rank(i) = j]
<1>1. /\ Len(q) \in Nat
      /\ DOMAIN q = 1 .. Len(q)
      /\ keep \in SUBSET (1 .. Len(q))
  BY LenProperties
<1>2. /\ m \in Nat
      /\ m <= Len(q)
      /\ \A j \in 1 .. m : \E i \in keep : Rank(i) = j
      /\ \A i \in keep : Rank(i) \in 1 .. m
      /\ \A i, h \in keep : Rank(i) = Rank(h) => i = h
  BY <1>1, RankTaken
<1> HIDE DEF m, Rank
<1>3. \A j \in 1 .. m : f[j] \in keep /\ Rank(f[j]) = j
  BY <1>2
<1>4. f \in [1 .. m -> keep]
  BY <1>3
<1>5. \A j, k \in 1 .. m : f[j] = f[k] => j = k
  BY <1>3
<1>6. \A i \in keep : \E j \in 1 .. m : f[j] = i
  BY <1>2, <1>3
<1>7. KeptAt(q, keep) = [j \in 1 .. m |-> q[f[j]]]
  BY DEF KeptAt, m, Rank
<1>8. \A j \in 1 .. m : q[f[j]] \in T
  BY <1>1, <1>3, ElementOfSeq
<1>9. KeptAt(q, keep) \in Seq(T) /\ Len(KeptAt(q, keep)) = m
  BY <1>2, <1>7, <1>8
<1>10. QED
  BY <1>2, <1>4, <1>5, <1>6, <1>7, <1>9 DEF m

(* The front of a queue goes, the others stay. *)
LEMMA TailPicks ==
    ASSUME NEW q \in Seq(Contexts), q # <<>>
    PROVE  /\ Picks(Tail(q), q)
           /\ Head(q) = q[1] /\ 1 \in 1 .. Len(q)
           /\ \A i \in 1 .. Len(q) : i # 1 => \E j \in 1 .. Len(Tail(q)) : Tail(q)[j] = q[i]
           /\ \A j \in 1 .. Len(Tail(q)) : Tail(q)[j] = q[j + 1] /\ j + 1 \in 1 .. Len(q)
<1>1. /\ Tail(q) \in Seq(Contexts)
      /\ Len(Tail(q)) = Len(q) - 1
      /\ Len(q) \in Nat
      /\ Len(q) > 0
      /\ Head(q) = q[1]
      /\ \A j \in 1 .. Len(Tail(q)) : Tail(q)[j] = q[j + 1]
  BY HeadTailProperties, EmptySeq, LenProperties
<1>2. \A j \in 1 .. Len(Tail(q)) : j + 1 \in 1 .. Len(q)
  BY <1>1
<1>3. \A i \in 1 .. Len(q) : i # 1 => \E j \in 1 .. Len(Tail(q)) : Tail(q)[j] = q[i]
  <2> SUFFICES ASSUME NEW i \in 1 .. Len(q), i # 1
               PROVE  \E j \in 1 .. Len(Tail(q)) : Tail(q)[j] = q[i]
    OBVIOUS
  <2>1. i - 1 \in 1 .. Len(Tail(q)) /\ (i - 1) + 1 = i
    BY <1>1
  <2>2. QED
    BY <1>1, <2>1
<1>4. Picks(Tail(q), q)
  BY <1>1, <1>2 DEF Picks
<1>5. QED
  BY <1>1, <1>2, <1>3, <1>4

(* A queue rotated by get_next_script holds what it held. *)
LEMMA RotatedPicks ==
    ASSUME NEW q \in Seq(Contexts), q # <<>>
    PROVE  /\ Picks(Rotated(q), q)
           /\ \A i \in 1 .. Len(q) : \E j \in 1 .. Len(Rotated(q)) : Rotated(q)[j] = q[i]
<1> DEFINE n == Len(q)
           r == Rotated(q)
           from == [j \in 1 .. n |-> IF j = n THEN 1 ELSE j + 1]
<1>1. /\ Tail(q) \in Seq(Contexts)
      /\ Len(Tail(q)) = n - 1
      /\ n \in Nat
      /\ n > 0
      /\ Head(q) = q[1]
      /\ Head(q) \in Contexts
      /\ \A j \in 1 .. n - 1 : Tail(q)[j] = q[j + 1]
  BY HeadTailProperties, EmptySeq, LenProperties
<1>2. /\ r \in Seq(Contexts)
      /\ Len(r) = n
      /\ \A j \in 1 .. n - 1 : r[j] = q[j + 1]
      /\ r[n] = q[1]
  BY <1>1, AppendProperties DEF Rotated
<1> HIDE DEF n, r
<1>3. \A j \in 1 .. n : r[j] = q[from[j]]
  BY <1>1, <1>2
<1>4. /\ from \in [1 .. n -> 1 .. n]
      /\ \A i, j \in 1 .. n : from[i] = from[j] => i = j
  BY <1>1
<1>5. \A i \in 1 .. n : \E j \in 1 .. n : r[j] = q[i]
  <2> SUFFICES ASSUME NEW i \in 1 .. n
               PROVE  \E j \in 1 .. n : r[j] = q[i]
    OBVIOUS
  <2>1. CASE i = 1
    BY <2>1, <1>1, <1>2
  <2>2. CASE i # 1
    <3>1. i - 1 \in 1 .. n - 1 /\ (i - 1) + 1 = i
      BY <2>2, <1>1
    <3>2. r[i - 1] = q[(i - 1) + 1]
      BY <3>1, <1>2
    <3>3. r[i - 1] = q[i] /\ i - 1 \in 1 .. n
      BY <3>1, <3>2, <1>1
    <3>4. QED
      BY <3>3
  <2>3. QED
    BY <2>1, <2>2
<1>6. Picks(r, q)
  <2> HIDE DEF from
  <2>1. /\ Len(r) <= Len(q)
        /\ r \in Seq(Contexts)
        /\ from \in [1 .. Len(r) -> 1 .. Len(q)]
        /\ \A i, j \in 1 .. Len(r) : from[i] = from[j] => i = j
        /\ \A j \in 1 .. Len(r) : r[j] = q[from[j]]
    BY <1>1, <1>2, <1>3, <1>4 DEF n
  <2>2. QED
    BY <2>1, PicksBy
<1>7. QED
  BY <1>2, <1>5, <1>6 DEF n, r

(* cancel_script removes the contexts of its Lua thread and no others. *)
LEMMA SurvivorsPicks ==
    ASSUME NEW q \in Seq(Contexts), NEW L
    PROVE  /\ Picks(SurvivorsOf(q, L), q)
           /\ \A j \in 1 .. Len(SurvivorsOf(q, L)) : ThreadOf[SurvivorsOf(q, L)[j]] # L
           /\ \A i \in 1 .. Len(q) : ThreadOf[q[i]] # L =>
                 \E j \in 1 .. Len(SurvivorsOf(q, L)) : SurvivorsOf(q, L)[j] = q[i]
<1> DEFINE keep == {i \in DOMAIN q : ThreadOf[q[i]] # L}
           m == Cardinality(keep)
           r == KeptAt(q, keep)
<1>1. /\ r \in Seq(Contexts)
      /\ Len(r) = m
      /\ m <= Len(q)
      /\ \E f \in [1 .. m -> keep] :
            /\ \A j \in 1 .. m : r[j] = q[f[j]]
            /\ \A j, k \in 1 .. m : f[j] = f[k] => j = k
            /\ \A i \in keep : \E j \in 1 .. m : f[j] = i
  <2>1. keep \in SUBSET DOMAIN q
    OBVIOUS
  <2> HIDE DEF keep
  <2>2. QED
    BY <2>1, KeptAtKeeps
<1>2. /\ DOMAIN q = 1 .. Len(q)
      /\ \A i \in keep : i \in 1 .. Len(q) /\ ThreadOf[q[i]] # L
      /\ \A i \in 1 .. Len(q) : ThreadOf[q[i]] # L => i \in keep
  BY LenProperties
<1>3. SurvivorsOf(q, L) = r
  BY DEF SurvivorsOf
<1> HIDE DEF keep, m, r
<1>4. PICK f \in [1 .. m -> keep] :
            /\ \A j \in 1 .. m : r[j] = q[f[j]]
            /\ \A j, k \in 1 .. m : f[j] = f[k] => j = k
            /\ \A i \in keep : \E j \in 1 .. m : f[j] = i
  BY <1>1
<1>5. \A j \in 1 .. m : f[j] \in keep /\ f[j] \in 1 .. Len(q)
  BY <1>2
<1>6. Picks(r, q)
  <2>1. /\ Len(r) <= Len(q)
        /\ r \in Seq(Contexts)
        /\ f \in [1 .. Len(r) -> 1 .. Len(q)]
        /\ \A i, j \in 1 .. Len(r) : f[i] = f[j] => i = j
        /\ \A j \in 1 .. Len(r) : r[j] = q[f[j]]
    BY <1>1, <1>4, <1>5
  <2>2. QED
    BY <2>1, PicksBy
<1>7. \A j \in 1 .. Len(r) : ThreadOf[r[j]] # L
  BY <1>1, <1>2, <1>4, <1>5
<1>8. \A i \in 1 .. Len(q) : ThreadOf[q[i]] # L => \E j \in 1 .. Len(r) : r[j] = q[i]
  BY <1>1, <1>2, <1>4
<1>9. QED
  BY <1>3, <1>6, <1>7, <1>8

--------------------------------------------------------------------------------
(* The five queues together. *)

Members(qs) == {c \in Contexts : \E p \in Priorities : \E i \in 1 .. Len(qs[p]) : qs[p][i] = c}
SlotsOf(qs) == UNION {{p} \X DOMAIN qs[p] : p \in Priorities}

(* A context sits in the queue of its priority, once. *)
Sorted(qs) ==
    /\ \A p \in Priorities : \A i \in 1 .. Len(qs[p]) : PriorityOf[qs[p][i]] = p
    /\ \A p \in Priorities : \A i, j \in 1 .. Len(qs[p]) : qs[p][i] = qs[p][j] => i = j

(* At is injective on the slots of sorted queues, so that there are finitely
   many, and what it returns is Members. *)
LEMMA SlotsFinite ==
    ASSUME NEW qs \in [Priorities -> Seq(Contexts)], Sorted(qs)
    PROVE  /\ IsFiniteSet(SlotsOf(qs))
           /\ \A s, r \in SlotsOf(qs) : qs[s[1]][s[2]] = qs[r[1]][r[2]] => s = r
           /\ {qs[s[1]][s[2]] : s \in SlotsOf(qs)} = Members(qs)
<1> USE SchedulerAssumption
<1>1. \A s \in SlotsOf(qs) : /\ s = <<s[1], s[2]>>
                             /\ s[1] \in Priorities
                             /\ s[2] \in 1 .. Len(qs[s[1]])
                             /\ qs[s[1]][s[2]] \in Contexts
  <2> SUFFICES ASSUME NEW p \in Priorities, NEW i \in DOMAIN qs[p]
               PROVE  i \in 1 .. Len(qs[p]) /\ qs[p][i] \in Contexts
    BY DEF SlotsOf
  <2>1. qs[p] \in Seq(Contexts)
    OBVIOUS
  <2>2. QED
    BY <2>1, LenProperties, ElementOfSeq
<1>2. \A p \in Priorities : \A i \in 1 .. Len(qs[p]) : <<p, i>> \in SlotsOf(qs)
  <2> SUFFICES ASSUME NEW p \in Priorities, NEW i \in 1 .. Len(qs[p])
               PROVE  <<p, i>> \in SlotsOf(qs)
    OBVIOUS
  <2>1. qs[p] \in Seq(Contexts)
    OBVIOUS
  <2>2. i \in DOMAIN qs[p]
    BY <2>1, LenProperties
  <2>3. <<p, i>> \in {p} \X DOMAIN qs[p]
    BY <2>2
  <2>4. QED
    BY <2>3 DEF SlotsOf
<1>3. ASSUME NEW s \in SlotsOf(qs), NEW r \in SlotsOf(qs),
             qs[s[1]][s[2]] = qs[r[1]][r[2]]
      PROVE  s = r
  <2>1. s[1] = r[1]
    <3>1. \A x \in SlotsOf(qs) : PriorityOf[qs[x[1]][x[2]]] = x[1]
      BY <1>1 DEF Sorted
    <3>2. QED
      BY <3>1, <1>3
  <2>2. s[2] = r[2]
    <3> DEFINE p == s[1]
    <3>1. /\ p \in Priorities /\ s[2] \in 1 .. Len(qs[p]) /\ r[2] \in 1 .. Len(qs[p])
          /\ qs[p][s[2]] = qs[p][r[2]]
      BY <1>1, <1>3, <2>1
    <3> HIDE DEF p
    <3>2. QED
      BY <3>1 DEF Sorted
  <2>3. QED
    BY <1>1, <2>1, <2>2
<1>4. {qs[s[1]][s[2]] : s \in SlotsOf(qs)} = Members(qs)
  <2>1. ASSUME NEW s \in SlotsOf(qs)
        PROVE  qs[s[1]][s[2]] \in Members(qs)
    BY <1>1 DEF Members
  <2>2. ASSUME NEW c \in Members(qs)
        PROVE  \E s \in SlotsOf(qs) : c = qs[s[1]][s[2]]
    <3>1. PICK p \in Priorities : \E i \in 1 .. Len(qs[p]) : qs[p][i] = c
      BY DEF Members
    <3> PICK i \in 1 .. Len(qs[p]) : qs[p][i] = c
      BY <3>1
    <3>2. <<p, i>> \in SlotsOf(qs) /\ c = qs[<<p, i>>[1]][<<p, i>>[2]]
      BY <1>2, <3>1
    <3>3. QED
      BY <3>2
  <2>3. QED
    BY <2>1, <2>2
<1>5. IsFiniteSet(SlotsOf(qs))
  <2> DEFINE f == [s \in SlotsOf(qs) |-> qs[s[1]][s[2]]]
  <2>1. f \in [SlotsOf(qs) -> Contexts]
    BY <1>1
  <2>2. \A s, r \in SlotsOf(qs) : f[s] = f[r] => s = r
    BY <1>3
  <2> HIDE DEF f
  <2>3. f \in Injection(SlotsOf(qs), Contexts)
    BY <2>1, <2>2 DEF Injection, IsInjective
  <2>4. QED
    BY <2>3, FS_Injection
<1>6. QED
  BY <1>3, <1>4, <1>5

(* Queues made of what the old ones held are no worse than those. *)
LEMMA PickedQueues ==
    ASSUME NEW qs \in [Priorities -> Seq(Contexts)], Sorted(qs),
           NEW rs, rs = [p \in Priorities |-> rs[p]],
           \A p \in Priorities : Picks(rs[p], qs[p])
    PROVE  /\ rs \in [Priorities -> Seq(Contexts)]
           /\ Sorted(rs)
           /\ Members(rs) \subseteq Members(qs)
           /\ IsFiniteSet(SlotsOf(rs))
           /\ Cardinality(SlotsOf(rs)) <= Cardinality(SlotsOf(qs))
<1>1. rs \in [Priorities -> Seq(Contexts)]
  BY DEF Picks
<1>2. Sorted(rs)
  <2>1. ASSUME NEW p \in Priorities, NEW i \in 1 .. Len(rs[p])
        PROVE  PriorityOf[rs[p][i]] = p
    <3>1. PICK j \in 1 .. Len(qs[p]) : rs[p][i] = qs[p][j]
      BY DEF Picks
    <3>2. QED
      BY <3>1 DEF Sorted
  <2>2. ASSUME NEW p \in Priorities
        PROVE  \A i, j \in 1 .. Len(rs[p]) : rs[p][i] = rs[p][j] => i = j
    BY DEF Picks, Sorted
  <2>3. QED
    BY <2>1, <2>2 DEF Sorted
<1>3. Members(rs) \subseteq Members(qs)
  <2> SUFFICES ASSUME NEW c \in Contexts, NEW p \in Priorities,
                      NEW i \in 1 .. Len(rs[p]), rs[p][i] = c
               PROVE  \E j \in 1 .. Len(qs[p]) : qs[p][j] = c
    BY DEF Members
  <2>1. QED
    BY DEF Picks
<1>4. SlotsOf(rs) \in SUBSET SlotsOf(qs)
  <2> SUFFICES ASSUME NEW p \in Priorities, NEW i \in DOMAIN rs[p]
               PROVE  i \in DOMAIN qs[p]
    BY DEF SlotsOf
  <2>1. rs[p] \in Seq(Contexts) /\ qs[p] \in Seq(Contexts) /\ Len(rs[p]) <= Len(qs[p])
    BY DEF Picks
  <2>2. QED
    BY <2>1, LenProperties
<1>5. IsFiniteSet(SlotsOf(qs))
  BY SlotsFinite
<1>6. IsFiniteSet(SlotsOf(rs)) /\ Cardinality(SlotsOf(rs)) <= Cardinality(SlotsOf(qs))
  BY <1>4, <1>5, FS_Subset
<1>7. QED
  BY <1>1, <1>2, <1>3, <1>6

(* schedule_script: the context pushed is the one entry more. *)
LEMMA AppendedQueues ==
    ASSUME NEW qs \in [Priorities -> Seq(Contexts)], Sorted(qs),
           NEW c \in Contexts, c \notin Members(qs),
           NEW rs, rs = [qs EXCEPT ![PriorityOf[c]] = Append(@, c)]
    PROVE  /\ rs \in [Priorities -> Seq(Contexts)]
           /\ Sorted(rs)
           /\ Members(rs) = Members(qs) \cup {c}
           /\ Cardinality(SlotsOf(rs)) = Cardinality(SlotsOf(qs)) + 1
<1> USE SchedulerAssumption
<1> DEFINE p == PriorityOf[c]
           n == Len(qs[p])
<1>1. /\ p \in Priorities
      /\ qs[p] \in Seq(Contexts)
      /\ n \in Nat
  <2>1. p \in Priorities
    OBVIOUS
  <2>2. qs[p] \in Seq(Contexts)
    BY <2>1
  <2>3. QED
    BY <2>1, <2>2, LenProperties
<1>2. /\ rs \in [Priorities -> Seq(Contexts)]
      /\ rs[p] = Append(qs[p], c)
      /\ \A r \in Priorities : r # p => rs[r] = qs[r]
  BY <1>1
<1>3. /\ Len(rs[p]) = n + 1
      /\ \A i \in 1 .. n : rs[p][i] = qs[p][i]
      /\ rs[p][n + 1] = c
  BY <1>1, <1>2, AppendProperties
<1>4. \A r \in Priorities : \A i \in 1 .. Len(qs[r]) : qs[r][i] # c
  BY DEF Members
<1>5. \A i \in 1 .. Len(rs[p]) : i \in 1 .. n \/ i = n + 1
  BY <1>1, <1>3
<1>6. Sorted(rs)
  <2>1. ASSUME NEW r \in Priorities
        PROVE  \A i \in 1 .. Len(rs[r]) : PriorityOf[rs[r][i]] = r
    <3>1. CASE r = p
      BY <3>1, <1>3, <1>5 DEF Sorted
    <3>2. CASE r # p
      BY <3>2, <1>2 DEF Sorted
    <3>3. QED
      BY <3>1, <3>2
  <2>2. ASSUME NEW r \in Priorities
        PROVE  \A i, j \in 1 .. Len(rs[r]) : rs[r][i] = rs[r][j] => i = j
    <3>1. CASE r = p
      <4>1. SUFFICES ASSUME NEW i \in 1 .. Len(rs[p]), NEW j \in 1 .. Len(rs[p]),
                            rs[p][i] = rs[p][j]
                     PROVE  i = j
        BY <3>1
      <4>2. \A k, l \in 1 .. n : qs[p][k] = qs[p][l] => k = l
        BY <1>1 DEF Sorted
      <4>3. \A k \in 1 .. n : rs[p][k] # c
        BY <1>1, <1>3, <1>4
      <4>4. CASE i \in 1 .. n /\ j \in 1 .. n
        BY <1>3, <4>1, <4>2, <4>4
      <4>5. CASE ~(i \in 1 .. n /\ j \in 1 .. n)
        BY <1>3, <1>5, <4>1, <4>3, <4>5
      <4> QED
        BY <4>4, <4>5
    <3>2. CASE r # p
      BY <3>2, <1>2 DEF Sorted
    <3>3. QED
      BY <3>1, <3>2
  <2>3. QED
    BY <2>1, <2>2 DEF Sorted
<1>7. Members(rs) = Members(qs) \cup {c}
  <2>1. ASSUME NEW d \in Members(qs)
        PROVE  d \in Members(rs)
    <3>1. PICK r \in Priorities : \E i \in 1 .. Len(qs[r]) : qs[r][i] = d
      BY DEF Members
    <3> PICK i \in 1 .. Len(qs[r]) : qs[r][i] = d
      BY <3>1
    <3>2. i \in 1 .. Len(rs[r]) /\ rs[r][i] = d
      BY <1>1, <1>2, <1>3
    <3>3. QED
      BY <3>2 DEF Members
  <2>2. c \in Members(rs)
    <3>1. n + 1 \in 1 .. Len(rs[p])
      BY <1>1, <1>3
    <3>2. QED
      BY <3>1, <1>1, <1>3 DEF Members
  <2>3. ASSUME NEW d \in Members(rs), d # c
        PROVE  d \in Members(qs)
    <3>1. PICK r \in Priorities : \E i \in 1 .. Len(rs[r]) : rs[r][i] = d
      BY DEF Members
    <3> PICK i \in 1 .. Len(rs[r]) : rs[r][i] = d
      BY <3>1
    <3>2. i \in 1 .. Len(qs[r]) /\ qs[r][i] = d
      BY <2>3, <1>2, <1>3, <1>5
    <3>3. QED
      BY <3>2 DEF Members
  <2>4. QED
    BY <2>1, <2>2, <2>3
<1>8. Cardinality(SlotsOf(rs)) = Cardinality(SlotsOf(qs)) + 1
  <2>1. SlotsOf(rs) = SlotsOf(qs) \cup {<<p, n + 1>>}
    <3>1. \A r \in Priorities : qs[r] \in Seq(Contexts) /\ rs[r] \in Seq(Contexts)
      BY <1>2
    <3>2. DOMAIN rs[p] = DOMAIN qs[p] \cup {n + 1}
      BY <1>1, <1>3, <3>1, LenProperties
    <3>3. \A r \in Priorities : r # p => DOMAIN rs[r] = DOMAIN qs[r]
      BY <1>2
    <3>4. ASSUME NEW s \in SlotsOf(rs)
          PROVE  s \in SlotsOf(qs) \cup {<<p, n + 1>>}
      <4>1. PICK r \in Priorities : s \in {r} \X DOMAIN rs[r]
        BY DEF SlotsOf
      <4>2. s \in {r} \X DOMAIN qs[r] \/ s = <<p, n + 1>>
        BY <4>1, <3>2, <3>3
      <4>3. QED
        BY <4>2 DEF SlotsOf
    <3>5. ASSUME NEW s \in SlotsOf(qs)
          PROVE  s \in SlotsOf(rs)
      <4>1. PICK r \in Priorities : s \in {r} \X DOMAIN qs[r]
        BY DEF SlotsOf
      <4>2. s \in {r} \X DOMAIN rs[r]
        BY <4>1, <3>2, <3>3
      <4>3. QED
        BY <4>2 DEF SlotsOf
    <3>6. <<p, n + 1>> \in SlotsOf(rs)
      <4>1. <<p, n + 1>> \in {p} \X DOMAIN rs[p]
        BY <3>2
      <4>2. QED
        BY <4>1, <1>1 DEF SlotsOf
    <3>7. QED
      BY <3>4, <3>5, <3>6
  <2>2. <<p, n + 1>> \notin SlotsOf(qs)
    <3> SUFFICES ASSUME NEW r \in Priorities, <<p, n + 1>> \in {r} \X DOMAIN qs[r]
                 PROVE  FALSE
      BY DEF SlotsOf
    <3>1. r = p /\ n + 1 \in 1 .. n
      BY <1>1, LenProperties
    <3>2. QED
      BY <3>1, <1>1
  <2>3. IsFiniteSet(SlotsOf(qs))
    BY SlotsFinite
  <2> HIDE DEF p, n
  <2>4. QED
    BY <2>1, <2>2, <2>3, FS_AddElement
<1>9. QED
  BY <1>2, <1>6, <1>7, <1>8

(* A cancelled or shut down scheduler: what remains in the queues. *)
LEMMA CancelledQueues ==
    ASSUME NEW qs \in [Priorities -> Seq(Contexts)], Sorted(qs), NEW L,
           NEW rs, rs = [p \in Priorities |-> SurvivorsOf(qs[p], L)]
    PROVE  /\ rs \in [Priorities -> Seq(Contexts)]
           /\ Sorted(rs)
           /\ Members(rs) = {c \in Members(qs) : ThreadOf[c] # L}
           /\ IsFiniteSet(SlotsOf(rs))
           /\ Cardinality(SlotsOf(rs)) <= Cardinality(SlotsOf(qs))
<1>1. \A p \in Priorities :
        /\ Picks(rs[p], qs[p])
        /\ \A j \in 1 .. Len(rs[p]) : ThreadOf[rs[p][j]] # L
        /\ \A i \in 1 .. Len(qs[p]) : ThreadOf[qs[p][i]] # L =>
              \E j \in 1 .. Len(rs[p]) : rs[p][j] = qs[p][i]
  BY SurvivorsPicks
<1>2. /\ rs \in [Priorities -> Seq(Contexts)]
      /\ Sorted(rs)
      /\ Members(rs) \subseteq Members(qs)
      /\ IsFiniteSet(SlotsOf(rs))
      /\ Cardinality(SlotsOf(rs)) <= Cardinality(SlotsOf(qs))
  <2>1. rs = [p \in Priorities |-> rs[p]]
    OBVIOUS
  <2>2. QED
    BY <1>1, <2>1, PickedQueues
<1>3. \A c \in Members(rs) : ThreadOf[c] # L
  BY <1>1 DEF Members
<1>4. ASSUME NEW c \in Members(qs), ThreadOf[c] # L
      PROVE  c \in Members(rs)
  <2>1. PICK p \in Priorities : \E i \in 1 .. Len(qs[p]) : qs[p][i] = c
    BY DEF Members
  <2>2. \E j \in 1 .. Len(rs[p]) : rs[p][j] = c
    BY <1>1, <1>4, <2>1
  <2>3. QED
    BY <2>2 DEF Members
<1>5. QED
  BY <1>2, <1>3, <1>4

LEMMA EmptyQueues ==
    ASSUME NEW rs, rs = [p \in Priorities |-> <<>>]
    PROVE  /\ rs \in [Priorities -> Seq(Contexts)]
           /\ Sorted(rs)
           /\ Members(rs) = {}
<1>1. \A p \in Priorities : rs[p] = <<>> /\ Len(rs[p]) = 0 /\ rs[p] \in Seq(Contexts)
  BY EmptySeq
<1>2. \A p \in Priorities : 1 .. Len(rs[p]) = {}
  BY <1>1
<1>3. QED
  BY <1>1, <1>2 DEF Sorted, Members

(* get_next_script, when the queues of P were rotated: nothing is lost. *)
LEMMA RotatedQueues ==
    ASSUME queue \in [Priorities -> Seq(Contexts)], Sorted(queue),
           NEW P \in SUBSET Waiting
    PROVE  /\ RotateUpTo(P) \in [Priorities -> Seq(Contexts)]
           /\ Sorted(RotateUpTo(P))
           /\ Members(RotateUpTo(P)) = Members(queue)
           /\ IsFiniteSet(SlotsOf(RotateUpTo(P)))
           /\ Cardinality(SlotsOf(RotateUpTo(P))) <= Cardinality(SlotsOf(queue))
           /\ \A p \in Priorities \ P : RotateUpTo(P)[p] = queue[p]
<1> DEFINE rs == RotateUpTo(P)
<1>1. /\ \A p \in P : p \in Priorities /\ queue[p] # <<>> /\ rs[p] = Rotated(queue[p])
      /\ \A p \in Priorities \ P : rs[p] = queue[p]
      /\ rs = [p \in Priorities |-> rs[p]]
  BY DEF Waiting, RotateUpTo
<1> HIDE DEF rs
<1>2. ASSUME NEW p \in Priorities
      PROVE  /\ Picks(rs[p], queue[p])
             /\ \A i \in 1 .. Len(queue[p]) : \E j \in 1 .. Len(rs[p]) : rs[p][j] = queue[p][i]
  <2>1. queue[p] \in Seq(Contexts)
    OBVIOUS
  <2>2. CASE p \in P
    <3>1. rs[p] = Rotated(queue[p]) /\ queue[p] # <<>>
      BY <2>2, <1>1
    <3>2. QED
      BY <2>1, <3>1, RotatedPicks
  <2>3. CASE p \notin P
    <3>1. rs[p] = queue[p] /\ Len(queue[p]) \in Nat
      BY <2>1, <2>3, <1>1, LenProperties
    <3>2. QED
      BY <2>1, <3>1 DEF Picks
  <2>4. QED
    BY <2>2, <2>3
<1>3. /\ rs \in [Priorities -> Seq(Contexts)]
      /\ Sorted(rs)
      /\ Members(rs) \subseteq Members(queue)
      /\ IsFiniteSet(SlotsOf(rs))
      /\ Cardinality(SlotsOf(rs)) <= Cardinality(SlotsOf(queue))
  BY <1>1, <1>2, PickedQueues
<1>4. ASSUME NEW c \in Members(queue)
      PROVE  c \in Members(rs)
  <2>1. PICK p \in Priorities : \E i \in 1 .. Len(queue[p]) : queue[p][i] = c
    BY DEF Members
  <2>2. \E j \in 1 .. Len(rs[p]) : rs[p][j] = c
    BY <1>2, <2>1
  <2>3. QED
    BY <2>2 DEF Members
<1>5. QED
  BY <1>1, <1>3, <1>4 DEF rs

(* ... and when the front of one was taken. *)
LEMMA TakenQueues ==
    ASSUME NEW qs \in [Priorities -> Seq(Contexts)], Sorted(qs),
           NEW p \in Priorities, qs[p] # <<>>,
           NEW rs, rs = [qs EXCEPT ![p] = Tail(@)]
    PROVE  /\ rs \in [Priorities -> Seq(Contexts)]
           /\ Sorted(rs)
           /\ Head(qs[p]) \in Members(qs)
           /\ Members(rs) = Members(qs) \ {Head(qs[p])}
           /\ IsFiniteSet(SlotsOf(rs))
           /\ Cardinality(SlotsOf(rs)) <= Cardinality(SlotsOf(qs))
<1>1. \A r \in Priorities : qs[r] \in Seq(Contexts) /\ Len(qs[r]) \in Nat
  BY LenProperties
<1>2. /\ rs[p] = Tail(qs[p])
      /\ \A r \in Priorities : r # p => rs[r] = qs[r]
      /\ rs = [r \in Priorities |-> rs[r]]
  OBVIOUS
<1>3. /\ Picks(Tail(qs[p]), qs[p])
      /\ Head(qs[p]) = qs[p][1] /\ 1 \in 1 .. Len(qs[p])
      /\ \A i \in 1 .. Len(qs[p]) : i # 1 => \E j \in 1 .. Len(Tail(qs[p])) : Tail(qs[p])[j] = qs[p][i]
      /\ \A j \in 1 .. Len(Tail(qs[p])) : Tail(qs[p])[j] = qs[p][j + 1] /\ j + 1 \in 1 .. Len(qs[p])
  BY <1>1, TailPicks
<1>4. \A r \in Priorities : Picks(rs[r], qs[r])
  <2> SUFFICES ASSUME NEW r \in Priorities, r # p
               PROVE  Picks(rs[r], qs[r])
    BY <1>2, <1>3
  <2>1. rs[r] = qs[r]
    BY <1>2
  <2>2. QED
    BY <1>1, <2>1 DEF Picks
<1>5. /\ rs \in [Priorities -> Seq(Contexts)]
      /\ Sorted(rs)
      /\ Members(rs) \subseteq Members(qs)
      /\ IsFiniteSet(SlotsOf(rs))
      /\ Cardinality(SlotsOf(rs)) <= Cardinality(SlotsOf(qs))
  BY <1>2, <1>4, PickedQueues
<1>6. Head(qs[p]) \in Members(qs)
  <2>1. qs[p][1] \in Contexts
    BY <1>1, <1>3, ElementOfSeq
  <2>2. QED
    BY <1>3, <2>1 DEF Members
<1>7. Head(qs[p]) \notin Members(rs)
  <2> SUFFICES ASSUME NEW r \in Priorities, NEW j \in 1 .. Len(rs[r]), rs[r][j] = qs[p][1]
               PROVE  FALSE
    BY <1>3 DEF Members
  <2>1. PriorityOf[qs[p][1]] = p
    BY <1>3 DEF Sorted
  <2>2. PriorityOf[rs[r][j]] = r
    BY <1>5 DEF Sorted
  <2>3. r = p
    BY <2>1, <2>2
  <2>4. qs[p][j + 1] = qs[p][1] /\ j + 1 \in 1 .. Len(qs[p])
    BY <1>2, <1>3, <2>3
  <2>5. j + 1 = 1
    BY <1>3, <2>4 DEF Sorted
  <2>6. QED
    BY <2>5
<1>8. ASSUME NEW c \in Members(qs), c # Head(qs[p])
      PROVE  c \in Members(rs)
  <2>1. PICK r \in Priorities : \E i \in 1 .. Len(qs[r]) : qs[r][i] = c
    BY DEF Members
  <2> PICK i \in 1 .. Len(qs[r]) : qs[r][i] = c
    BY <2>1
  <2>2. \E j \in 1 .. Len(rs[r]) : rs[r][j] = c
    <3>1. CASE r = p
      <4>1. i # 1
        BY <3>1, <1>3, <1>8
      <4>2. QED
        BY <3>1, <4>1, <1>2, <1>3
    <3>2. CASE r # p
      BY <3>2, <1>2
    <3>3. QED
      BY <3>1, <3>2
  <2>3. QED
    BY <2>2 DEF Members
<1>9. QED
  BY <1>5, <1>6, <1>7, <1>8

--------------------------------------------------------------------------------
(* The inductive invariant.  What a queue holds is admitted, open and not run. *)
QueuesSound ==
    /\ Sorted(queue)
    /\ \A c \in Members(queue) :
           /\ caller[c] = "returned"
           /\ promise[c] = "pending"
           /\ c \notin deferred
           /\ \A t \in Steppers : hand[t] # c

(* What a step holds: between taking a script and returning it has one that is
   its alone and due, and until it has called task_defer nobody answered it. *)
HandsSound ==
    /\ \A t \in Steppers : hand[t] = None <=> stepper[t] \in {"idle", "polling", "picking"}
    /\ \A t, u \in Steppers : hand[t] = hand[u] /\ hand[t] # None => t = u
    /\ \A t \in Steppers : hand[t] # None => caller[hand[t]] = "returned" /\ due[hand[t]]
    /\ \A t \in Steppers : stepper[t] \in {"taken", "executing"} =>
           promise[hand[t]] = "pending" /\ hand[t] \notin deferred

(* What a promise says about the script. *)
PromisesSound ==
    /\ \A c \in Contexts : promise[c] = "none" <=> caller[c] = "new"
    /\ \A c \in Contexts : caller[c] = "admitting" => promise[c] = "pending"
    /\ \A c \in deferred : caller[c] = "returned" /\ promise[c] \in {"pending", "error", "broken"}
    /\ \A c \in Contexts : promise[c] = "pending" =>
           caller[c] = "admitting" \/ c \in Members(queue) \/ \E t \in Steppers : hand[t] = c

(* Nobody is inside a destroyed scheduler, and nothing is left in it. *)
EndSound == down = "destroyed" => Unused /\ Members(queue) = {}

IInv ==
    /\ TypeOK
    /\ QueuesSound
    /\ HandsSound
    /\ PromisesSound
    /\ EndSound
    /\ QueueBound
    /\ ExecutingCount

LEMMA MembersQueued ==
    ASSUME TypeOK, QueuesSound
    PROVE  /\ Queued = Members(queue)
           /\ QueueSize = Cardinality(SlotsOf(queue))
           /\ IsFiniteSet(SlotsOf(queue))
           /\ QueueSize \in Nat
<1>1. queue \in [Priorities -> Seq(Contexts)] /\ Sorted(queue)
  BY DEF TypeOK, QueuesSound
<1>2. Slots = SlotsOf(queue)
  BY DEF Slots, SlotsOf
<1>3. Queued = {queue[s[1]][s[2]] : s \in SlotsOf(queue)}
  BY <1>2 DEF Queued, At
<1>4. QED
  BY <1>1, <1>2, <1>3, SlotsFinite, FS_CardinalityType DEF QueueSize

(* A step of the scheduler that touches no queue. *)
LEMMA SameQueues ==
    ASSUME queue' = queue, IInv
    PROVE  QueueBound'
BY DEF QueueBound, QueueSize, Slots, IInv

LEMMA NoLonger ==
    ASSUME IInv, IsFiniteSet(SlotsOf(queue')),
           Cardinality(SlotsOf(queue')) <= Cardinality(SlotsOf(queue))
    PROVE  QueueBound'
<1>1. QueueSize' = Cardinality(SlotsOf(queue')) /\ QueueSize' \in Nat
  BY FS_CardinalityType DEF QueueSize, Slots, SlotsOf
<1>2. QueueSize = Cardinality(SlotsOf(queue)) /\ QueueSize \in Nat
  BY MembersQueued DEF IInv
<1>3. PICK n \in QueueLimits : QueueSize <= n
  BY DEF QueueBound, IInv
<1>4. n \in Nat /\ QueueSize' <= n
  BY <1>1, <1>2, <1>3, SchedulerAssumption
<1>5. QED
  BY <1>4 DEF QueueBound

LEMMA InitSound == Init => IInv
<1> SUFFICES ASSUME Init PROVE IInv
  OBVIOUS
<1> USE SchedulerAssumption
<1>1. /\ queue \in [Priorities -> Seq(Contexts)]
      /\ Sorted(queue)
      /\ Members(queue) = {}
  BY EmptyQueues DEF Init
<1>2. TypeOK
  <2>1. <<>> \in Seq(Parked)
    BY EmptySeq
  <2>2. QED
    BY <1>1, <2>1 DEF Init, TypeOK
<1>3. QueuesSound
  BY <1>1 DEF QueuesSound
<1>4. HandsSound
  BY DEF Init, HandsSound
<1>5. PromisesSound
  BY DEF Init, PromisesSound
<1>6. EndSound
  BY DEF Init, EndSound
<1>7. QueueBound
  <2>1. SlotsOf(queue) = {}
    BY EmptySeq DEF Init, SlotsOf
  <2>2. QueueSize = 0
    BY <2>1, FS_EmptySet DEF QueueSize, Slots, SlotsOf
  <2>3. limit \in QueueLimits /\ limit \in Nat
    BY DEF Init
  <2>4. QED
    BY <2>2, <2>3 DEF QueueBound
<1>8. ExecutingCount
  <2>1. {t \in Steppers : stepper[t] = "executing"} = {}
    BY DEF Init
  <2>2. QED
    BY <2>1, FS_EmptySet DEF ExecutingCount, Init
<1>9. QED
  BY <1>2, <1>3, <1>4, <1>5, <1>6, <1>7, <1>8 DEF IInv

LEMMA SubmitSound ==
    ASSUME IInv, NEW c \in Contexts, Submit(c)
    PROVE  IInv'
<1> USE SchedulerAssumption DEF IInv
<1>1. TypeOK'
  BY DEF TypeOK, Submit, Resolved, Refused
<1>2. /\ queue' = queue /\ hand' = hand /\ stepper' = stepper
      /\ deferred' = deferred /\ due' = due /\ down' = down
      /\ \A d \in Contexts : d # c => caller'[d] = caller[d] /\ promise'[d] = promise[d]
      /\ \/ caller'[c] = "admitting" /\ promise'[c] = "pending"
         \/ caller'[c] = "returned" /\ promise'[c] = "not_running"
      /\ caller[c] = "new" /\ promise[c] = "none"
      /\ Alive
  BY DEF TypeOK, Submit, PromisesSound
<1>3. /\ c \notin Members(queue)
      /\ c \notin deferred
      /\ \A t \in Steppers : hand[t] # c
  <2>1. c \notin Members(queue)
    BY <1>2 DEF QueuesSound
  <2>2. c \notin deferred
    BY <1>2 DEF PromisesSound
  <2>3. \A t \in Steppers : hand[t] # c
    BY <1>2 DEF HandsSound
  <2>4. QED
    BY <2>1, <2>2, <2>3
<1>4. QueuesSound'
  BY <1>2, <1>3 DEF QueuesSound, Members
<1>5. HandsSound'
  <2>1. \A t \in Steppers : hand[t] # None => hand[t] \in Contexts
    BY DEF TypeOK
  <2>2. \A t \in Steppers : stepper[t] \in {"taken", "executing"} => hand[t] # None
    BY DEF HandsSound
  <2>3. \A t \in Steppers : hand[t] # None =>
            caller'[hand[t]] = caller[hand[t]] /\ promise'[hand[t]] = promise[hand[t]]
    BY <2>1, <1>2, <1>3
  <2>4. QED
    BY <2>2, <2>3, <1>2 DEF HandsSound
<1>6. PromisesSound'
  <2>1. deferred \subseteq Contexts
    BY DEF TypeOK
  <2>2. \A d \in Contexts : promise'[d] = "none" <=> caller'[d] = "new"
    BY <1>2 DEF PromisesSound
  <2>3. \A d \in Contexts : caller'[d] = "admitting" => promise'[d] = "pending"
    BY <1>2 DEF PromisesSound
  <2>4. \A d \in deferred : caller'[d] = "returned" /\ promise'[d] \in {"pending", "error", "broken"}
    BY <2>1, <1>2, <1>3 DEF PromisesSound
  <2>5. \A d \in Contexts : promise'[d] = "pending" =>
            caller'[d] = "admitting" \/ d \in Members(queue) \/ \E t \in Steppers : hand[t] = d
    BY <1>2 DEF PromisesSound
  <2>6. QED
    BY <2>2, <2>3, <2>4, <2>5, <1>2 DEF PromisesSound, Members
<1>7. EndSound'
  BY <1>2 DEF EndSound, Alive
<1>8. QueueBound'
  BY <1>2, SameQueues
<1>9. ExecutingCount'
  BY DEF Submit, ExecutingCount
<1>10. QED
  BY <1>1, <1>4, <1>5, <1>6, <1>7, <1>8, <1>9

LEMMA AdmitRefusedSound ==
    ASSUME IInv, NEW c \in Contexts, AdmitRefused(c)
    PROVE  IInv'
<1> USE SchedulerAssumption DEF IInv
<1>1. TypeOK'
  BY DEF TypeOK, AdmitRefused, Resolved, Refused
<1>2. QueuesSound'
  <2>1. c \notin Members(queue)
    BY DEF AdmitRefused, QueuesSound
  <2>2. QED
    BY <2>1 DEF AdmitRefused, QueuesSound, TypeOK
<1>3. HandsSound'
  <2>1. \A t \in Steppers : hand[t] # None => hand[t] # c
    BY DEF AdmitRefused, HandsSound
  <2>2. QED
    BY <2>1 DEF AdmitRefused, HandsSound, TypeOK
<1>4. PromisesSound'
  BY DEF AdmitRefused, PromisesSound, TypeOK
<1>5. EndSound'
  BY DEF AdmitRefused, EndSound, Unused
<1>6. QueueBound'
  BY SameQueues DEF AdmitRefused
<1>7. ExecutingCount'
  BY DEF AdmitRefused, ExecutingCount
<1>8. QED
  BY <1>1, <1>2, <1>3, <1>4, <1>5, <1>6, <1>7

LEMMA AdmitSound ==
    ASSUME IInv, NEW c \in Contexts, Admit(c)
    PROVE  IInv'
<1> USE SchedulerAssumption DEF IInv
<1>1. /\ caller[c] = "admitting" /\ promise[c] = "pending"
      /\ caller' = [caller EXCEPT ![c] = "returned"]
      /\ queue' = [queue EXCEPT ![PriorityOf[c]] = Append(@, c)]
      /\ hand' = hand /\ stepper' = stepper /\ promise' = promise
      /\ deferred' = deferred /\ due' = due /\ down' = down
      /\ ~Full
  BY DEF Admit, PromisesSound
<1>2. /\ c \notin Members(queue)
      /\ c \notin deferred
      /\ \A t \in Steppers : hand[t] # c
  <2>1. c \notin Members(queue)
    BY <1>1 DEF QueuesSound
  <2>2. c \notin deferred
    BY <1>1 DEF PromisesSound
  <2>3. \A t \in Steppers : hand[t] # c
    BY <1>1 DEF HandsSound
  <2>4. QED
    BY <2>1, <2>2, <2>3
<1>3. /\ queue' \in [Priorities -> Seq(Contexts)]
      /\ Sorted(queue')
      /\ Members(queue') = Members(queue) \cup {c}
      /\ Cardinality(SlotsOf(queue')) = Cardinality(SlotsOf(queue)) + 1
  <2>1. queue \in [Priorities -> Seq(Contexts)] /\ Sorted(queue)
    BY DEF TypeOK, QueuesSound
  <2>2. QED
    BY <2>1, <1>1, <1>2, AppendedQueues
<1>4. TypeOK'
  <2>1. arrival' \in [Contexts -> Nat]
    <3>1. {d \in Contexts : arrival[d] # 0} \in SUBSET Contexts
      OBVIOUS
    <3>2. Cardinality({d \in Contexts : arrival[d] # 0}) \in Nat
      BY <3>1, FS_Subset, FS_CardinalityType
    <3>3. QED
      BY <3>2 DEF Admit, TypeOK
  <2>2. QED
    BY <2>1, <1>3 DEF Admit, TypeOK
<1>5. QueuesSound'
  <2>1. \A d \in Members(queue) : caller[d] = "returned" /\ d # c /\ d \in Contexts
    BY <1>2 DEF QueuesSound, Members
  <2>2. \A d \in Members(queue') : caller'[d] = "returned"
    <3>1. \A d \in Contexts : caller'[d] = IF d = c THEN "returned" ELSE caller[d]
      BY <1>1 DEF TypeOK
    <3>2. QED
      BY <2>1, <3>1, <1>3
  <2>3. \A d \in Members(queue') : /\ promise'[d] = "pending"
                                   /\ d \notin deferred'
                                   /\ \A t \in Steppers : hand'[t] # d
    BY <1>1, <1>2, <1>3 DEF QueuesSound
  <2>4. QED
    BY <2>2, <2>3, <1>3 DEF QueuesSound
<1>6. HandsSound'
  <2>1. \A t \in Steppers : hand[t] # None => hand[t] \in Contexts
    BY DEF TypeOK
  <2>2. \A t \in Steppers : hand[t] # None => caller'[hand[t]] = caller[hand[t]]
    BY <2>1, <1>1, <1>2 DEF TypeOK
  <2>3. QED
    BY <2>2, <1>1 DEF HandsSound
<1>7. PromisesSound'
  <2>1. deferred \subseteq Contexts
    BY DEF TypeOK
  <2>2. /\ \A d \in Contexts : d # c => caller'[d] = caller[d]
        /\ caller'[c] = "returned"
    BY <1>1 DEF TypeOK
  <2>3. \A d \in Contexts : promise'[d] = "none" <=> caller'[d] = "new"
    BY <2>2, <1>1 DEF PromisesSound
  <2>4. \A d \in Contexts : caller'[d] = "admitting" => promise'[d] = "pending"
    BY <2>2, <1>1 DEF PromisesSound
  <2>5. \A d \in deferred' : caller'[d] = "returned" /\ promise'[d] \in {"pending", "error", "broken"}
    BY <2>1, <2>2, <1>1, <1>2 DEF PromisesSound
  <2>6. \A d \in Contexts : promise'[d] = "pending" =>
            caller'[d] = "admitting" \/ d \in Members(queue') \/ \E t \in Steppers : hand'[t] = d
    BY <2>2, <1>1, <1>3 DEF PromisesSound
  <2>7. QED
    BY <2>3, <2>4, <2>5, <2>6 DEF PromisesSound
<1>8. EndSound'
  BY <1>1 DEF EndSound, Unused
<1>9. QueueBound'
  <2>1. /\ QueueSize = Cardinality(SlotsOf(queue))
        /\ QueueSize \in Nat
    BY MembersQueued
  <2>2. QueueSize' = Cardinality(SlotsOf(queue'))
    BY DEF QueueSize, Slots, SlotsOf
  <2>3. limit \in QueueLimits /\ limit \in Nat /\ QueueSize < limit
    BY <2>1, <1>1 DEF Full, TypeOK
  <2>4. QueueSize' <= limit
    BY <2>1, <2>2, <2>3, <1>3
  <2>5. QED
    BY <2>3, <2>4 DEF QueueBound
<1>10. ExecutingCount'
  BY DEF Admit, ExecutingCount
<1>11. QED
  BY <1>4, <1>5, <1>6, <1>7, <1>8, <1>9, <1>10

(* Steps that move no script and answer nobody. *)
LEMMA Framed ==
    ASSUME IInv, TypeOK', EndSound',
           UNCHANGED <<queue, hand, promise, caller, deferred, executing>>,
           \A t \in Steppers : stepper'[t] # stepper[t] =>
               /\ stepper[t] \in {"idle", "polling", "picking"}
               /\ stepper'[t] \in {"idle", "polling", "picking"},
           \A c \in Contexts : due[c] => due'[c]
    PROVE  IInv'
<1> USE DEF IInv
<1>1. QueuesSound'
  BY DEF QueuesSound, Members
<1>2. HandsSound'
  <2>1. \A t \in Steppers : hand[t] # None => hand[t] \in Contexts
    BY DEF TypeOK
  <2>2. QED
    BY <2>1 DEF HandsSound
<1>3. PromisesSound'
  BY DEF PromisesSound, Members
<1>4. QueueBound'
  BY SameQueues
<1>5. ExecutingCount'
  <2>1. {t \in Steppers : stepper'[t] = "executing"} = {t \in Steppers : stepper[t] = "executing"}
    OBVIOUS
  <2>2. QED
    BY <2>1 DEF ExecutingCount
<1>6. QED
  BY <1>1, <1>2, <1>3, <1>4, <1>5

LEMMA FramedSteps ==
    ASSUME IInv,
           \/ \E c \in Contexts : TimePasses(c)
           \/ \E t \in Steppers : StepBegin(t) \/ StepPoll(t)
           \/ \E L \in LuaThreads : YieldScript(L) \/ ResumeScript(L)
           \/ \E x \in Cancellers : CancelYielded(x)
           \/ \E n \in QueueLimits : SetConfig(n)
           \/ ShutdownFlag
           \/ ShutdownUnpark
    PROVE  IInv'
<1> USE SchedulerAssumption
<1>1. TypeOK
  BY DEF IInv
<1>2. \A keep \in SUBSET DOMAIN yielded : KeptAt(yielded, keep) \in Seq(Parked)
  BY <1>1, KeptAtKeeps DEF TypeOK
<1>3. \A S : DOMAIN yielded \ S \in SUBSET DOMAIN yielded
  OBVIOUS
<1>4. ASSUME NEW c \in Contexts, TimePasses(c)
      PROVE  IInv'
  <2>1. TypeOK'
    BY <1>1, <1>4 DEF TypeOK, TimePasses
  <2>2. EndSound'
    BY <1>4 DEF IInv, EndSound, TimePasses, Alive
  <2>3. \A d \in Contexts : due[d] => due'[d]
    BY <1>1, <1>4 DEF TypeOK, TimePasses
  <2>4. QED
    BY <2>1, <2>2, <2>3, <1>4, Framed DEF TimePasses
<1>5. ASSUME NEW t \in Steppers, StepBegin(t)
      PROVE  IInv'
  <2>1. TypeOK'
    BY <1>1, <1>5 DEF TypeOK, StepBegin
  <2>2. EndSound'
    BY <1>5 DEF IInv, EndSound, StepBegin, Alive
  <2>3. \A u \in Steppers : stepper'[u] # stepper[u] =>
            stepper[u] = "idle" /\ stepper'[u] = "polling"
    BY <1>1, <1>5 DEF TypeOK, StepBegin
  <2>4. QED
    BY <2>1, <2>2, <2>3, <1>5, Framed DEF StepBegin
<1>6. ASSUME NEW t \in Steppers, StepPoll(t)
      PROVE  IInv'
  <2>1. TypeOK'
    <3>1. yielded' \in Seq(Parked)
      BY <1>2, <1>3, <1>6 DEF StepPoll
    <3>2. QED
      BY <1>1, <1>6, <3>1 DEF TypeOK, StepPoll
  <2>2. EndSound'
    BY <1>6 DEF IInv, EndSound, StepPoll, Unused
  <2>3. \A u \in Steppers : stepper'[u] # stepper[u] =>
            stepper[u] = "polling" /\ stepper'[u] = "picking"
    BY <1>1, <1>6 DEF TypeOK, StepPoll
  <2>4. QED
    BY <2>1, <2>2, <2>3, <1>6, Framed DEF StepPoll
<1>7. ASSUME NEW L \in LuaThreads, YieldScript(L) \/ ResumeScript(L)
      PROVE  IInv'
  <2>1. yielded' \in Seq(Parked)
    <3>1. CASE YieldScript(L)
      <4>1. PICK auto \in BOOLEAN : yielded' = Append(yielded, [thread |-> L, auto |-> auto])
        BY <3>1 DEF YieldScript
      <4>2. [thread |-> L, auto |-> auto] \in Parked
        BY DEF Parked
      <4>3. QED
        BY <1>1, <4>1, <4>2, AppendProperties DEF TypeOK
    <3>2. CASE ResumeScript(L)
      BY <1>2, <1>3, <3>2 DEF ResumeScript, Unparked
    <3>3. QED
      BY <1>7, <3>1, <3>2
  <2>2. TypeOK'
    BY <1>1, <1>7, <2>1 DEF TypeOK, YieldScript, ResumeScript
  <2>3. EndSound'
    BY <1>7 DEF IInv, EndSound, YieldScript, ResumeScript, Alive
  <2>4. QED
    BY <2>2, <2>3, <1>7, Framed DEF YieldScript, ResumeScript
<1>8. ASSUME NEW x \in Cancellers, CancelYielded(x)
      PROVE  IInv'
  <2>1. TypeOK'
    <3>1. yielded' \in Seq(Parked)
      BY <1>2, <1>3, <1>8 DEF CancelYielded, Unparked
    <3>2. QED
      BY <1>1, <1>8, <3>1 DEF TypeOK, CancelYielded
  <2>2. EndSound'
    BY <1>8 DEF IInv, EndSound, CancelYielded, Unused
  <2>3. QED
    BY <2>1, <2>2, <1>8, Framed DEF CancelYielded
<1>9. ASSUME NEW n \in QueueLimits, SetConfig(n)
      PROVE  IInv'
  <2>1. TypeOK'
    BY <1>1, <1>9 DEF TypeOK, SetConfig
  <2>2. EndSound'
    BY <1>9 DEF IInv, EndSound, SetConfig, Alive
  <2>3. QED
    BY <2>1, <2>2, <1>9, Framed DEF SetConfig
<1>10. ASSUME ShutdownFlag \/ ShutdownUnpark
       PROVE  IInv'
  <2>1. TypeOK'
    <3>1. <<>> \in Seq(Parked)
      BY EmptySeq
    <3>2. QED
      BY <1>1, <1>10, <3>1 DEF TypeOK, ShutdownFlag, ShutdownUnpark
  <2>2. EndSound'
    BY <1>10 DEF IInv, EndSound, ShutdownFlag, ShutdownUnpark
  <2>3. QED
    BY <2>1, <2>2, <1>10, Framed DEF ShutdownFlag, ShutdownUnpark
<1>11. QED
  BY <1>4, <1>5, <1>6, <1>7, <1>8, <1>9, <1>10

LEMMA StepTakeSound ==
    ASSUME IInv, NEW t \in Steppers, StepTake(t)
    PROVE  IInv'
<1> USE SchedulerAssumption DEF IInv
<1> PICK p \in Ready :
       /\ hand' = [hand EXCEPT ![t] = Head(queue[p])]
       /\ queue' = [RotateUpTo({q \in Waiting : q < p}) EXCEPT ![p] = Tail(@)]
  BY DEF StepTake
<1> DEFINE P == {q \in Waiting : q < p}
           c == Head(queue[p])
<1>1. /\ stepper[t] = "picking" /\ hand[t] = None
      /\ stepper' = [stepper EXCEPT ![t] = "taken"]
      /\ promise' = promise /\ caller' = caller /\ deferred' = deferred
      /\ due' = due /\ down' = down /\ executing' = executing
  BY DEF StepTake, HandsSound
<1>2. /\ p \in Priorities /\ p \in Nat /\ queue[p] # <<>> /\ due[c]
      /\ P \in SUBSET Waiting /\ p \notin P
      /\ queue \in [Priorities -> Seq(Contexts)] /\ Sorted(queue)
  BY DEF Ready, Waiting, TypeOK, QueuesSound
<1>3. /\ RotateUpTo(P) \in [Priorities -> Seq(Contexts)]
      /\ Sorted(RotateUpTo(P))
      /\ Members(RotateUpTo(P)) = Members(queue)
      /\ IsFiniteSet(SlotsOf(RotateUpTo(P)))
      /\ Cardinality(SlotsOf(RotateUpTo(P))) <= Cardinality(SlotsOf(queue))
      /\ RotateUpTo(P)[p] = queue[p]
  BY <1>2, RotatedQueues
<1>4. queue' = [RotateUpTo(P) EXCEPT ![p] = Tail(@)]
  OBVIOUS
<1> HIDE DEF P
<1>5. /\ queue' \in [Priorities -> Seq(Contexts)]
      /\ Sorted(queue')
      /\ c \in Members(queue)
      /\ Members(queue') = Members(queue) \ {c}
      /\ IsFiniteSet(SlotsOf(queue'))
      /\ Cardinality(SlotsOf(queue')) <= Cardinality(SlotsOf(RotateUpTo(P)))
  <2> DEFINE qs == RotateUpTo(P)
  <2>1. /\ qs \in [Priorities -> Seq(Contexts)] /\ Sorted(qs)
        /\ Members(qs) = Members(queue)
        /\ qs[p] # <<>> /\ Head(qs[p]) = c
        /\ queue' = [qs EXCEPT ![p] = Tail(@)]
    BY <1>2, <1>3, <1>4
  <2> HIDE DEF qs
  <2>2. /\ queue' \in [Priorities -> Seq(Contexts)]
        /\ Sorted(queue')
        /\ Head(qs[p]) \in Members(qs)
        /\ Members(queue') = Members(qs) \ {Head(qs[p])}
        /\ IsFiniteSet(SlotsOf(queue'))
        /\ Cardinality(SlotsOf(queue')) <= Cardinality(SlotsOf(qs))
    BY <2>1, <1>2, TakenQueues
  <2>3. QED
    BY <2>1, <2>2 DEF qs
<1>6. /\ c \in Contexts /\ c # None
      /\ \A u \in Steppers : hand[u] # c
      /\ caller[c] = "returned" /\ promise[c] = "pending" /\ c \notin deferred
  BY <1>5 DEF QueuesSound, Members
<1>7. /\ \A u \in Steppers : hand'[u] = IF u = t THEN c ELSE hand[u]
      /\ \A u \in Steppers : stepper'[u] = IF u = t THEN "taken" ELSE stepper[u]
  BY <1>1 DEF TypeOK
<1> HIDE DEF c
<1>8. TypeOK'
  <2>1. hand' \in [Steppers -> Contexts \cup {None}]
    BY <1>6 DEF TypeOK, c
  <2>2. QED
    BY <2>1, <1>1, <1>5 DEF StepTake, TypeOK
<1>9. QueuesSound'
  <2>1. \A d \in Members(queue') : /\ d \in Members(queue) /\ d # c
                                   /\ caller'[d] = "returned"
                                   /\ promise'[d] = "pending"
                                   /\ d \notin deferred'
    BY <1>1, <1>5 DEF QueuesSound
  <2>2. \A d \in Members(queue') : \A u \in Steppers : hand'[u] # d
    BY <2>1, <1>7 DEF QueuesSound
  <2>3. QED
    BY <2>1, <2>2, <1>5 DEF QueuesSound
<1>10. HandsSound'
  <2>1. \A u \in Steppers : hand'[u] = None <=> stepper'[u] \in {"idle", "polling", "picking"}
    BY <1>6, <1>7 DEF HandsSound
  <2>2. \A u, v \in Steppers : hand'[u] = hand'[v] /\ hand'[u] # None => u = v
    BY <1>6, <1>7 DEF HandsSound
  <2>3. \A u \in Steppers : hand'[u] # None => caller'[hand'[u]] = "returned" /\ due'[hand'[u]]
    BY <1>1, <1>2, <1>6, <1>7 DEF HandsSound, c
  <2>4. \A u \in Steppers : stepper'[u] \in {"taken", "executing"} =>
            promise'[hand'[u]] = "pending" /\ hand'[u] \notin deferred'
    BY <1>1, <1>6, <1>7 DEF HandsSound
  <2>5. QED
    BY <2>1, <2>2, <2>3, <2>4 DEF HandsSound
<1>11. PromisesSound'
  <2>1. \A d \in Contexts : promise'[d] = "pending" =>
            caller'[d] = "admitting" \/ d \in Members(queue') \/ \E u \in Steppers : hand'[u] = d
    <3> SUFFICES ASSUME NEW d \in Contexts, promise[d] = "pending", caller[d] # "admitting"
                 PROVE  d \in Members(queue') \/ \E u \in Steppers : hand'[u] = d
      BY <1>1
    <3>1. CASE d = c
      BY <3>1, <1>7
    <3>2. CASE d # c /\ d \in Members(queue)
      BY <3>2, <1>5
    <3>3. CASE \E u \in Steppers : hand[u] = d
      BY <3>3, <1>1, <1>7
    <3>4. QED
      BY <3>1, <3>2, <3>3 DEF PromisesSound
  <2>2. QED
    BY <2>1, <1>1 DEF PromisesSound
<1>12. EndSound'
  BY <1>1 DEF EndSound, Unused
<1>13. QueueBound'
  <2>1. Cardinality(SlotsOf(queue')) <= Cardinality(SlotsOf(queue))
    <3>1. /\ Cardinality(SlotsOf(queue')) \in Nat
          /\ Cardinality(SlotsOf(RotateUpTo(P))) \in Nat
          /\ Cardinality(SlotsOf(queue)) \in Nat
      BY <1>2, <1>3, <1>5, SlotsFinite, FS_CardinalityType
    <3>2. QED
      BY <3>1, <1>3, <1>5
  <2>2. QED
    BY <2>1, <1>5, NoLonger
<1>14. ExecutingCount'
  <2>1. {u \in Steppers : stepper'[u] = "executing"} = {u \in Steppers : stepper[u] = "executing"}
    BY <1>1, <1>7
  <2>2. QED
    BY <2>1, <1>1 DEF ExecutingCount
<1>15. QED
  BY <1>8, <1>9, <1>10, <1>11, <1>12, <1>13, <1>14

LEMMA StepFindsNothingSound ==
    ASSUME IInv, NEW t \in Steppers, StepFindsNothing(t)
    PROVE  IInv'
<1> USE DEF IInv
<1>1. /\ stepper[t] = "picking"
      /\ stepper' = [stepper EXCEPT ![t] = "idle"]
      /\ queue' = RotateUpTo(Waiting)
      /\ promise' = promise /\ caller' = caller /\ deferred' = deferred
      /\ due' = due /\ down' = down /\ executing' = executing /\ hand' = hand
  BY DEF StepFindsNothing
<1>2. /\ queue' \in [Priorities -> Seq(Contexts)]
      /\ Sorted(queue')
      /\ Members(queue') = Members(queue)
      /\ IsFiniteSet(SlotsOf(queue'))
      /\ Cardinality(SlotsOf(queue')) <= Cardinality(SlotsOf(queue))
  BY <1>1, RotatedQueues DEF TypeOK, QueuesSound
<1>3. \A u \in Steppers : stepper'[u] = IF u = t THEN "idle" ELSE stepper[u]
  BY <1>1 DEF TypeOK
<1>4. TypeOK'
  BY <1>1, <1>2 DEF StepFindsNothing, TypeOK
<1>5. QueuesSound'
  BY <1>1, <1>2 DEF QueuesSound
<1>6. HandsSound'
  BY <1>1, <1>3 DEF HandsSound
<1>7. PromisesSound'
  BY <1>1, <1>2 DEF PromisesSound
<1>8. EndSound'
  BY <1>1 DEF EndSound, Unused
<1>9. QueueBound'
  BY <1>2, NoLonger
<1>10. ExecutingCount'
  <2>1. {u \in Steppers : stepper'[u] = "executing"} = {u \in Steppers : stepper[u] = "executing"}
    BY <1>1, <1>3
  <2>2. QED
    BY <2>1, <1>1 DEF ExecutingCount
<1>11. QED
  BY <1>4, <1>5, <1>6, <1>7, <1>8, <1>9, <1>10

LEMMA StepEnterSound ==
    ASSUME IInv, NEW t \in Steppers, StepEnter(t)
    PROVE  IInv'
<1> USE DEF IInv
<1>1. /\ stepper[t] = "taken"
      /\ stepper' = [stepper EXCEPT ![t] = "executing"]
      /\ promise' = promise /\ caller' = caller /\ deferred' = deferred /\ hand' = hand
      /\ due' = due /\ down' = down /\ executing' = executing + 1 /\ queue' = queue
  BY DEF StepEnter
<1>2. \A u \in Steppers : stepper'[u] = IF u = t THEN "executing" ELSE stepper[u]
  BY <1>1 DEF TypeOK
<1>3. TypeOK'
  BY <1>1 DEF StepEnter, TypeOK
<1>4. QueuesSound'
  BY <1>1 DEF QueuesSound, Members
<1>5. HandsSound'
  BY <1>1, <1>2 DEF HandsSound
<1>6. PromisesSound'
  BY <1>1 DEF PromisesSound, Members
<1>7. EndSound'
  BY <1>1 DEF EndSound, Unused
<1>8. QueueBound'
  BY <1>1, SameQueues
<1>9. ExecutingCount'
  <2> DEFINE E == {u \in Steppers : stepper[u] = "executing"}
  <2>1. {u \in Steppers : stepper'[u] = "executing"} = E \cup {t}
    BY <1>2
  <2>2. IsFiniteSet(E) /\ t \notin E
    <3>1. E \in SUBSET Steppers
      OBVIOUS
    <3>2. QED
      BY <3>1, <1>1, FS_Subset, SchedulerAssumption
  <2> HIDE DEF E
  <2>3. Cardinality(E \cup {t}) = Cardinality(E) + 1
    BY <2>2, FS_AddElement
  <2>4. executing = Cardinality(E)
    BY DEF ExecutingCount, E
  <2>5. QED
    BY <2>1, <2>3, <2>4, <1>1 DEF ExecutingCount
<1>10. QED
  BY <1>3, <1>4, <1>5, <1>6, <1>7, <1>8, <1>9

LEMMA StepExecuteSound ==
    ASSUME IInv, NEW t \in Steppers, StepExecute(t)
    PROVE  IInv'
<1> USE DEF IInv
<1> DEFINE c == hand[t]
           E == {u \in Steppers : stepper[u] = "executing"}
<1>1. /\ stepper[t] = "executing"
      /\ stepper' = [stepper EXCEPT ![t] = "leaving"]
      /\ promise' = promise \/ promise' = [promise EXCEPT ![c] = "error"]
      /\ deferred' = deferred \cup {c}
      /\ caller' = caller /\ hand' = hand /\ due' = due /\ down' = down
      /\ executing' = executing - 1 /\ queue' = queue
  BY DEF StepExecute, ReturnsOrThrows
<1>2. /\ c \in Contexts /\ c # None /\ promise[c] = "pending" /\ caller[c] = "returned"
      /\ c \notin deferred /\ c \notin Members(queue)
      /\ \A u \in Steppers : u # t => hand[u] # c
  <2>1. c # None
    BY <1>1 DEF HandsSound
  <2>2. c \in Contexts
    BY <2>1 DEF TypeOK
  <2>3. promise[c] = "pending" /\ caller[c] = "returned" /\ c \notin deferred
    BY <2>1, <1>1 DEF HandsSound
  <2>4. \A u \in Steppers : u # t => hand[u] # c
    BY <2>1 DEF HandsSound
  <2>5. c \notin Members(queue)
    BY DEF QueuesSound
  <2>6. QED
    BY <2>1, <2>2, <2>3, <2>4, <2>5
<1> HIDE DEF c
<1>3. /\ \A u \in Steppers : stepper'[u] = IF u = t THEN "leaving" ELSE stepper[u]
      /\ \A d \in Contexts : d # c => promise'[d] = promise[d]
      /\ promise'[c] \in {"pending", "error"}
      /\ promise' \in [Contexts -> Resolved \cup {"none", "pending"}]
  BY <1>1, <1>2 DEF TypeOK, Resolved
<1>4. ExecutingCount' /\ executing' \in Nat
  <2>1. {u \in Steppers : stepper'[u] = "executing"} = E \ {t}
    BY <1>3
  <2>2. IsFiniteSet(E) /\ t \in E
    <3>1. E \in SUBSET Steppers
      OBVIOUS
    <3>2. QED
      BY <3>1, <1>1, FS_Subset, SchedulerAssumption
  <2>3. executing = Cardinality(E)
    BY DEF ExecutingCount
  <2> HIDE DEF E
  <2>4. Cardinality(E \ {t}) = Cardinality(E) - 1 /\ Cardinality(E \ {t}) \in Nat
    BY <2>2, FS_RemoveElement, FS_CardinalityType
  <2>5. QED
    BY <2>1, <2>3, <2>4, <1>1 DEF ExecutingCount
<1>5. TypeOK'
  <2>1. deferred' \subseteq Contexts
    BY <1>1, <1>2 DEF TypeOK
  <2>2. QED
    BY <2>1, <1>1, <1>3, <1>4 DEF StepExecute, TypeOK
<1>6. QueuesSound'
  <2>1. \A d \in Members(queue) : d \in Contexts /\ d # c
    BY <1>2 DEF Members
  <2>2. QED
    BY <2>1, <1>1, <1>3 DEF QueuesSound, Members
<1>7. HandsSound'
  <2>1. \A u \in Steppers : u # t /\ hand[u] # None => hand[u] \in Contexts /\ hand[u] # c
    BY <1>2 DEF TypeOK
  <2>2. \A u \in Steppers : stepper'[u] \in {"taken", "executing"} =>
            promise'[hand[u]] = "pending" /\ hand[u] \notin deferred'
    BY <2>1, <1>1, <1>3 DEF HandsSound
  <2>3. QED
    BY <2>2, <1>1, <1>3 DEF HandsSound
<1>8. PromisesSound'
  <2>1. \A d \in Contexts : promise'[d] = "none" <=> caller'[d] = "new"
    BY <1>1, <1>2, <1>3 DEF PromisesSound
  <2>2. \A d \in Contexts : caller'[d] = "admitting" => promise'[d] = "pending"
    BY <1>1, <1>2, <1>3 DEF PromisesSound
  <2>3. \A d \in deferred' : caller'[d] = "returned" /\ promise'[d] \in {"pending", "error", "broken"}
    BY <1>1, <1>2, <1>3 DEF PromisesSound, TypeOK
  <2>4. \A d \in Contexts : promise'[d] = "pending" =>
            caller'[d] = "admitting" \/ d \in Members(queue) \/ \E u \in Steppers : hand'[u] = d
    <3>1. \E u \in Steppers : hand'[u] = c
      BY <1>1 DEF c
    <3>2. QED
      BY <3>1, <1>1, <1>3 DEF PromisesSound
  <2>5. QED
    BY <2>1, <2>2, <2>3, <2>4, <1>1 DEF PromisesSound, Members
<1>9. EndSound'
  BY <1>1 DEF EndSound, Unused
<1>10. QueueBound'
  BY <1>1, SameQueues
<1>11. QED
  BY <1>4, <1>5, <1>6, <1>7, <1>8, <1>9, <1>10

LEMMA StepLeaveSound ==
    ASSUME IInv, NEW t \in Steppers, StepLeave(t)
    PROVE  IInv'
<1> USE SchedulerAssumption DEF IInv
<1> DEFINE c == hand[t]
<1>1. /\ stepper[t] = "leaving"
      /\ stepper' = [stepper EXCEPT ![t] = "idle"]
      /\ hand' = [hand EXCEPT ![t] = None]
      /\ promise' = [promise EXCEPT ![c] = Abandon(@)]
      /\ caller' = caller /\ due' = due /\ down' = down /\ deferred' = deferred
      /\ executing' = executing /\ queue' = queue
  BY DEF StepLeave
<1>2. /\ c \in Contexts /\ c # None /\ caller[c] = "returned"
      /\ c \notin Members(queue)
      /\ \A u \in Steppers : u # t => hand[u] # c
  <2>1. c # None
    BY <1>1 DEF HandsSound
  <2>2. c \in Contexts
    BY <2>1 DEF TypeOK
  <2>3. caller[c] = "returned"
    BY <2>1 DEF HandsSound
  <2>4. \A u \in Steppers : u # t => hand[u] # c
    BY <2>1 DEF HandsSound
  <2>5. c \notin Members(queue)
    BY DEF QueuesSound
  <2>6. QED
    BY <2>1, <2>2, <2>3, <2>4, <2>5
<1> HIDE DEF c
<1>3. /\ \A u \in Steppers : stepper'[u] = IF u = t THEN "idle" ELSE stepper[u]
      /\ \A u \in Steppers : hand'[u] = IF u = t THEN None ELSE hand[u]
      /\ \A d \in Contexts : promise'[d] = IF d = c THEN Abandon(promise[c]) ELSE promise[d]
  BY <1>1, <1>2 DEF TypeOK
<1>4. promise[c] # "none" /\ Abandon(promise[c]) \in Resolved /\ Abandon(promise[c]) # "pending"
      /\ Abandon(promise[c]) # "none"
  <2>1. promise[c] # "none"
    BY <1>2 DEF PromisesSound
  <2>2. promise[c] \in Resolved \cup {"none", "pending"}
    BY <1>2 DEF TypeOK
  <2>3. QED
    BY <2>1, <2>2 DEF Abandon, Resolved, Refused, Cancelled
<1>5. TypeOK'
  <2>1. promise' \in [Contexts -> Resolved \cup {"none", "pending"}]
    BY <1>1, <1>3, <1>4 DEF TypeOK
  <2>2. QED
    BY <2>1, <1>1 DEF StepLeave, TypeOK
<1>6. QueuesSound'
  <2>1. \A d \in Members(queue) : d \in Contexts /\ d # c /\ d # None
    BY <1>2 DEF Members
  <2>2. \A d \in Members(queue) : /\ caller'[d] = "returned"
                                  /\ promise'[d] = "pending"
                                  /\ d \notin deferred'
                                  /\ \A u \in Steppers : hand'[u] # d
    BY <2>1, <1>1, <1>3 DEF QueuesSound
  <2>3. QED
    BY <2>2, <1>1 DEF QueuesSound, Members
<1>7. HandsSound'
  <2>1. \A u \in Steppers : u # t /\ hand[u] # None => hand[u] \in Contexts /\ hand[u] # c
    BY <1>2 DEF TypeOK
  <2>2. \A u \in Steppers : stepper'[u] \in {"taken", "executing"} =>
            u # t /\ hand[u] # None /\ hand'[u] = hand[u]
    BY <1>3 DEF HandsSound
  <2>3. \A u \in Steppers : stepper'[u] \in {"taken", "executing"} =>
            promise'[hand'[u]] = "pending" /\ hand'[u] \notin deferred'
    BY <2>1, <2>2, <1>1, <1>3 DEF HandsSound
  <2>4. QED
    BY <2>3, <1>1, <1>3 DEF HandsSound
<1>8. PromisesSound'
  <2>1. \A d \in Contexts : promise'[d] = "none" <=> caller'[d] = "new"
    BY <1>1, <1>2, <1>3, <1>4 DEF PromisesSound
  <2>2. \A d \in Contexts : caller'[d] = "admitting" => promise'[d] = "pending"
    BY <1>1, <1>2, <1>3 DEF PromisesSound
  <2>3. \A d \in deferred' : caller'[d] = "returned" /\ promise'[d] \in {"pending", "error", "broken"}
    BY <1>1, <1>2, <1>3 DEF PromisesSound, TypeOK, Abandon
  <2>4. \A d \in Contexts : promise'[d] = "pending" =>
            caller'[d] = "admitting" \/ d \in Members(queue) \/ \E u \in Steppers : hand'[u] = d
    <3> SUFFICES ASSUME NEW d \in Contexts, promise'[d] = "pending", caller[d] # "admitting",
                        d \notin Members(queue)
                 PROVE  \E u \in Steppers : hand'[u] = d
      BY <1>1
    <3>1. d # c /\ promise[d] = "pending"
      BY <1>3, <1>4
    <3>2. PICK u \in Steppers : hand[u] = d
      BY <3>1 DEF PromisesSound
    <3>3. hand'[u] = d
      BY <3>1, <3>2, <1>3 DEF c
    <3>4. QED
      BY <3>3
  <2>5. QED
    BY <2>1, <2>2, <2>3, <2>4, <1>1 DEF PromisesSound, Members
<1>9. EndSound'
  BY <1>1 DEF EndSound, Unused
<1>10. QueueBound'
  BY <1>1, SameQueues
<1>11. ExecutingCount'
  <2>1. {u \in Steppers : stepper'[u] = "executing"} = {u \in Steppers : stepper[u] = "executing"}
    BY <1>1, <1>3
  <2>2. QED
    BY <2>1, <1>1 DEF ExecutingCount
<1>12. QED
  BY <1>5, <1>6, <1>7, <1>8, <1>9, <1>10, <1>11

(* Cancellation takes contexts out of the queues and fails exactly those. *)
LEMMA Dismissed ==
    ASSUME IInv, TypeOK', EndSound', QueueBound',
           NEW S \in SUBSET Members(queue), NEW reason \in Cancelled,
           Fail(S, reason),
           Sorted(queue'), Members(queue') = Members(queue) \ S,
           UNCHANGED <<caller, due, stepper, hand, executing, deferred>>
    PROVE  IInv'
<1> USE DEF IInv
<1>1. /\ \A c \in Contexts : promise'[c] = IF c \in S THEN reason ELSE promise[c]
      /\ reason \in {"cancelled", "all_cancelled"}
  BY DEF Fail, Cancelled
<1>2. \A c \in S : /\ c \in Contexts /\ caller[c] = "returned" /\ c \notin deferred
                   /\ \A t \in Steppers : hand[t] # c
  BY DEF QueuesSound, Members
<1>3. QueuesSound'
  <2>1. \A c \in Members(queue') : c \in Contexts /\ c \notin S
    BY DEF Members
  <2>2. QED
    BY <2>1, <1>1 DEF QueuesSound
<1>4. HandsSound'
  <2>1. \A t \in Steppers : hand[t] # None => hand[t] \in Contexts /\ hand[t] \notin S
    BY <1>2 DEF TypeOK
  <2>2. \A t \in Steppers : stepper[t] \in {"taken", "executing"} => hand[t] # None
    BY DEF HandsSound
  <2>3. QED
    BY <2>1, <2>2, <1>1 DEF HandsSound
<1>5. PromisesSound'
  <2>1. deferred \subseteq Contexts
    BY DEF TypeOK
  <2>2. \A c \in Contexts : promise'[c] = "none" <=> caller'[c] = "new"
    BY <1>1, <1>2 DEF PromisesSound
  <2>3. \A c \in Contexts : caller'[c] = "admitting" => promise'[c] = "pending"
    BY <1>1, <1>2 DEF PromisesSound
  <2>4. \A c \in deferred : caller'[c] = "returned" /\ promise'[c] \in {"pending", "error", "broken"}
    BY <2>1, <1>1, <1>2 DEF PromisesSound
  <2>5. \A c \in Contexts : promise'[c] = "pending" =>
            caller'[c] = "admitting" \/ c \in Members(queue') \/ \E t \in Steppers : hand'[t] = c
    BY <1>1 DEF PromisesSound
  <2>6. QED
    BY <2>2, <2>3, <2>4, <2>5 DEF PromisesSound
<1>6. ExecutingCount'
  BY DEF ExecutingCount
<1>7. QED
  BY <1>3, <1>4, <1>5, <1>6

LEMMA CancelQueuedSound ==
    ASSUME IInv, NEW x \in Cancellers, NEW L \in LuaThreads, CancelQueued(x, L)
    PROVE  IInv'
<1> DEFINE S == {c \in Members(queue) : ThreadOf[c] = L}
<1>1. /\ queue' \in [Priorities -> Seq(Contexts)]
      /\ Sorted(queue')
      /\ Members(queue') = {c \in Members(queue) : ThreadOf[c] # L}
      /\ IsFiniteSet(SlotsOf(queue'))
      /\ Cardinality(SlotsOf(queue')) <= Cardinality(SlotsOf(queue))
  <2>1. /\ queue \in [Priorities -> Seq(Contexts)] /\ Sorted(queue)
        /\ queue' = [p \in Priorities |-> SurvivorsOf(queue[p], L)]
    BY DEF CancelQueued, IInv, TypeOK, QueuesSound
  <2>2. QED
    BY <2>1, CancelledQueues
<1>2. Fail(S, "cancelled") /\ "cancelled" \in Cancelled
  BY MembersQueued DEF IInv, CancelQueued, Cancelled
<1>3. TypeOK'
  BY <1>1, <1>2 DEF Fail, IInv, TypeOK, CancelQueued, Resolved, Cancelled
<1>4. EndSound'
  BY DEF IInv, EndSound, CancelQueued, Alive
<1>5. QueueBound'
  BY <1>1, NoLonger
<1>6. Members(queue') = Members(queue) \ S
  BY <1>1
<1>7. S \in SUBSET Members(queue)
  OBVIOUS
<1> HIDE DEF S
<1>8. QED
  BY <1>1, <1>2, <1>3, <1>4, <1>5, <1>6, <1>7, Dismissed DEF CancelQueued

LEMMA DrainSound ==
    ASSUME IInv, ShutdownDrain \/ Destroy
    PROVE  IInv'
<1>1. Drain /\ UNCHANGED <<limit, due, caller, stepper, hand, target, executing, deferred, arrival>>
  BY DEF ShutdownDrain, Destroy
<1>2. /\ queue' \in [Priorities -> Seq(Contexts)]
      /\ Sorted(queue')
      /\ Members(queue') = {}
  BY <1>1, EmptyQueues DEF Drain
<1>3. Fail(Members(queue), "all_cancelled") /\ "all_cancelled" \in Cancelled
  BY <1>1, MembersQueued DEF IInv, Drain, Cancelled
<1>4. TypeOK'
  <2>1. <<>> \in Seq(Parked)
    BY EmptySeq
  <2>2. promise' \in [Contexts -> Resolved \cup {"none", "pending"}]
    BY <1>3 DEF Fail, IInv, TypeOK, Resolved, Cancelled
  <2>3. QED
    BY <2>1, <2>2, <1>1, <1>2 DEF IInv, TypeOK, ShutdownDrain, Destroy
<1>5. EndSound'
  <2>1. CASE ShutdownDrain
    BY <2>1 DEF EndSound, ShutdownDrain
  <2>2. CASE Destroy
    BY <2>2, <1>1, <1>2 DEF EndSound, Destroy, Unused
  <2>3. QED
    BY <2>1, <2>2
<1>6. QueueBound'
  <2>1. SlotsOf(queue') = {}
    BY <1>1, EmptySeq DEF SlotsOf, Drain
  <2>2. /\ IsFiniteSet(SlotsOf(queue')) /\ Cardinality(SlotsOf(queue')) = 0
        /\ Cardinality(SlotsOf(queue)) \in Nat
    BY <2>1, FS_EmptySet, MembersQueued, FS_CardinalityType DEF IInv
  <2>3. Cardinality(SlotsOf(queue')) <= Cardinality(SlotsOf(queue))
    BY <2>2
  <2>4. QED
    BY <2>2, <2>3, NoLonger
<1>7. QED
  BY <1>1, <1>2, <1>3, <1>4, <1>5, <1>6, Dismissed

--------------------------------------------------------------------------------
(* Every action preserves the invariant, and so does stuttering. *)
LEMMA NextSound == IInv /\ [Next]_vars => IInv'
<1> SUFFICES ASSUME IInv, [Next]_vars PROVE IInv'
  OBVIOUS
<1>1. ASSUME NEW c \in Contexts, Schedule(c)
      PROVE  IInv'
  BY <1>1, SubmitSound, AdmitSound, AdmitRefusedSound DEF Schedule
<1>2. ASSUME NEW c \in Contexts, TimePasses(c)
      PROVE  IInv'
  BY <1>2, FramedSteps
<1>3. ASSUME NEW t \in Steppers, Step(t)
      PROVE  IInv'
  <2>1. CASE StepBegin(t) \/ StepPoll(t)
    BY <2>1, FramedSteps
  <2>2. CASE StepTake(t)
    BY <2>2, StepTakeSound
  <2>3. CASE StepFindsNothing(t)
    BY <2>3, StepFindsNothingSound
  <2>4. CASE StepEnter(t)
    BY <2>4, StepEnterSound
  <2>5. CASE StepExecute(t)
    BY <2>5, StepExecuteSound
  <2>6. CASE StepLeave(t)
    BY <2>6, StepLeaveSound
  <2>7. QED
    BY <1>3, <2>1, <2>2, <2>3, <2>4, <2>5, <2>6 DEF Step
<1>4. ASSUME NEW L \in LuaThreads, YieldScript(L) \/ ResumeScript(L)
      PROVE  IInv'
  BY <1>4, FramedSteps
<1>5. ASSUME NEW x \in Cancellers, NEW L \in LuaThreads, CancelQueued(x, L)
      PROVE  IInv'
  BY <1>5, CancelQueuedSound
<1>6. ASSUME NEW x \in Cancellers, CancelYielded(x)
      PROVE  IInv'
  BY <1>6, FramedSteps
<1>7. ASSUME NEW n \in QueueLimits, SetConfig(n)
      PROVE  IInv'
  BY <1>7, FramedSteps
<1>8. ASSUME Shutdown
      PROVE  IInv'
  BY <1>8, FramedSteps, DrainSound DEF Shutdown
<1>9. ASSUME Destroy
      PROVE  IInv'
  BY <1>9, DrainSound
<1>10. ASSUME UNCHANGED vars
       PROVE  IInv'
  <2>1. TypeOK' /\ EndSound'
    BY <1>10 DEF IInv, TypeOK, EndSound, Unused, Members, vars
  <2>2. QED
    BY <2>1, <1>10, Framed DEF vars
<1>11. QED
  BY <1>1, <1>2, <1>3, <1>4, <1>5, <1>6, <1>7, <1>8, <1>9, <1>10 DEF Next

THEOREM Inductive == Spec => []IInv
<1>1. Init => IInv
  BY InitSound
<1>2. IInv /\ [Next]_vars => IInv'
  BY NextSound
<1>3. QED
  BY <1>1, <1>2, PTL DEF Spec

(* The types of the scheduler's state, for any number of scripts and threads. *)
THEOREM TypeCorrect == Spec => []TypeOK
<1>1. IInv => TypeOK
  BY DEF IInv
<1>2. QED
  BY <1>1, Inductive, PTL

(* A script is in at most one place: one slot of the queues or one hand. *)
THEOREM OneOwner == Spec => []UniqueHolder
<1>1. IInv => UniqueHolder
  <2> SUFFICES ASSUME IInv PROVE UniqueHolder
    OBVIOUS
  <2>1. /\ queue \in [Priorities -> Seq(Contexts)] /\ Sorted(queue)
        /\ Slots = SlotsOf(queue)
    BY DEF IInv, TypeOK, QueuesSound, Slots, SlotsOf
  <2>2. \A s, r \in Slots : At(s) = At(r) => s = r
    BY <2>1, SlotsFinite DEF At
  <2>3. \A t \in Steppers : hand[t] \notin Queued
    BY MembersQueued DEF IInv, QueuesSound
  <2>4. \A t, u \in Steppers : hand[t] = hand[u] /\ hand[t] # None => t = u
    BY DEF IInv, HandsSound
  <2>5. QED
    BY <2>2, <2>3, <2>4 DEF UniqueHolder
<1>2. QED
  BY <1>1, Inductive, PTL

(* A promise that is open belongs to a script somebody still has. *)
THEOREM PromiseKept == Spec => []NoLostPromise
<1>1. IInv => NoLostPromise
  BY MembersQueued DEF IInv, PromisesSound, NoLostPromise
<1>2. QED
  BY <1>1, Inductive, PTL

(* A script taken for execution was not cancelled. *)
THEOREM HeldOpen == Spec => []HeldIsPending
<1>1. IInv => HeldIsPending
  BY DEF IInv, HandsSound, HeldIsPending
<1>2. QED
  BY <1>1, Inductive, PTL

(* max_queue_size holds for every number of racing callers. *)
THEOREM QueueBounded == Spec => []QueueBound
<1>1. IInv => QueueBound
  BY DEF IInv
<1>2. QED
  BY <1>1, Inductive, PTL

(* A script whose caller was told it was refused or cancelled does not run. *)
THEOREM CancelledStays == Spec => []CancelledNeverRuns
<1>1. IInv => CancelledNeverRuns
  BY DEF IInv, PromisesSound, CancelledNeverRuns, Refused, Cancelled
<1>2. QED
  BY <1>1, Inductive, PTL

(* m_currently_executing is the number of threads in task_defer. *)
THEOREM Counted == Spec => []ExecutingCount
<1>1. IInv => ExecutingCount
  BY DEF IInv
<1>2. QED
  BY <1>1, Inductive, PTL

(* The destructor leaves nobody waiting. *)
THEOREM AllAnswered == Spec => []NothingSurvives
<1>1. IInv => NothingSurvives
  <2> SUFFICES ASSUME IInv, down = "destroyed", NEW c \in Contexts, promise[c] = "pending"
               PROVE  FALSE
    BY DEF NothingSurvives
  <2>1. Unused /\ Members(queue) = {}
    BY DEF IInv, EndSound
  <2>2. \A t \in Steppers : hand[t] = None
    BY <2>1 DEF IInv, HandsSound, Unused
  <2>3. caller[c] # "admitting" /\ c # None
    BY <2>1, SchedulerAssumption DEF Unused
  <2>4. QED
    BY <2>1, <2>2, <2>3 DEF IInv, PromisesSound
<1>2. QED
  BY <1>1, Inductive, PTL

(* No script starts before its scheduled time. *)
THEOREM Punctual == Spec => []NotBeforeDue
<1>1. IInv => NotBeforeDue
  BY DEF IInv, HandsSound, NotBeforeDue
<1>2. QED
  BY <1>1, Inductive, PTL

(* A promise is set once. *)
THEOREM SetOnce == Spec => ResolvedOnce
<1>1. ASSUME IInv, [Next]_vars
      PROVE  \A c \in Contexts : promise[c] \in Resolved => promise'[c] = promise[c]
  <2> SUFFICES ASSUME NEW c \in Contexts, promise[c] \in Resolved
               PROVE  promise'[c] = promise[c]
    OBVIOUS
  <2>1. promise[c] # "none" /\ promise[c] # "pending"
    BY DEF Resolved, Refused, Cancelled
  <2>2. promise \in [Contexts -> Resolved \cup {"none", "pending"}]
    BY <1>1 DEF IInv, TypeOK
  <2>3. ASSUME NEW d \in Contexts, Schedule(d)
        PROVE  promise'[c] = promise[c]
    <3>1. caller[d] \in {"new", "admitting"}
      BY <2>3 DEF Schedule, Submit, Admit, AdmitRefused
    <3>2. promise[d] \in {"none", "pending"}
      BY <3>1, <1>1 DEF IInv, PromisesSound
    <3>3. d # c
      BY <3>2, <2>1
    <3>4. QED
      BY <3>3, <2>2, <2>3 DEF Schedule, Submit, Admit, AdmitRefused
  <2>4. ASSUME NEW t \in Steppers, StepExecute(t)
        PROVE  promise'[c] = promise[c]
    <3>1. promise[hand[t]] = "pending"
      BY <2>4, <1>1 DEF IInv, HandsSound, StepExecute
    <3>2. hand[t] # c
      BY <3>1, <2>1
    <3>3. QED
      BY <3>2, <2>2, <2>4 DEF StepExecute, ReturnsOrThrows
  <2>5. ASSUME NEW t \in Steppers, StepLeave(t)
        PROVE  promise'[c] = promise[c]
    <3>1. CASE hand[t] = c
      BY <3>1, <2>1, <2>2, <2>5 DEF StepLeave, Abandon
    <3>2. CASE hand[t] # c
      BY <3>2, <2>2, <2>5 DEF StepLeave
    <3>3. QED
      BY <3>1, <3>2
  <2>6. c \notin Queued
    BY <2>1, <1>1, MembersQueued DEF IInv, QueuesSound
  <2>7. ASSUME NEW x \in Cancellers, NEW L \in LuaThreads, CancelQueued(x, L)
        PROVE  promise'[c] = promise[c]
    BY <2>6, <2>7 DEF CancelQueued, Fail
  <2>8. ASSUME Shutdown \/ Destroy
        PROVE  promise'[c] = promise[c]
    BY <2>6, <2>8 DEF Shutdown, ShutdownFlag, ShutdownDrain, ShutdownUnpark, Destroy, Drain, Fail
  <2>9. CASE UNCHANGED promise
    BY <2>9
  <2>10. QED
    BY <1>1, <2>3, <2>4, <2>5, <2>7, <2>8, <2>9
    DEF Next, vars, TimePasses, Step, StepBegin, StepPoll, StepTake, StepFindsNothing,
        StepEnter, YieldScript, ResumeScript, CancelYielded, SetConfig
<1>2. QED
  BY <1>1, Inductive, PTL DEF Spec, ResolvedOnce
--------------------------------------------------------------------------------
(* The refinement.  The status of a script follows from its promise and from who
   holds it. *)
Fate == [c \in Contexts |-> StatusOf(c)]
Held(c) == \E t \in Steppers : hand[t] = c

FatesTold ==
    \A c \in Contexts :
        /\ promise[c] \in Refused => StatusOf(c) = "refused"
        /\ promise[c] \in Cancelled => StatusOf(c) = "cancelled"
        /\ promise[c] \in {"error", "broken"} => StatusOf(c) = "finished"
        /\ promise[c] \in {"none", "pending"} =>
              StatusOf(c) = IF c \in Members(queue) THEN "waiting"
                            ELSE IF Held(c) THEN "started" ELSE "new"

LEMMA FatesTell == IInv => FatesTold
<1> SUFFICES ASSUME IInv PROVE FatesTold
  OBVIOUS
<1>1. Queued = Members(queue)
  BY MembersQueued DEF IInv
<1>2. ASSUME NEW c \in Contexts, promise[c] \in Refused PROVE StatusOf(c) = "refused"
  BY <1>2 DEF StatusOf, Open, Refused, Cancelled
<1>3. ASSUME NEW c \in Contexts, promise[c] \in Cancelled PROVE StatusOf(c) = "cancelled"
  BY <1>3 DEF StatusOf, Open, Refused, Cancelled
<1>4. ASSUME NEW c \in Contexts, promise[c] \in {"error", "broken"} PROVE StatusOf(c) = "finished"
  BY <1>4 DEF StatusOf, Open, Refused, Cancelled
<1>5. ASSUME NEW c \in Contexts, promise[c] \in {"none", "pending"}
      PROVE  StatusOf(c) = IF c \in Members(queue) THEN "waiting"
                           ELSE IF Held(c) THEN "started" ELSE "new"
  <2>1. promise[c] \notin Refused \cup Cancelled \cup {"error", "broken"}
    BY <1>5 DEF Refused, Cancelled
  <2>2. CASE c \in Members(queue)
    <3>1. \A t \in Steppers : hand[t] # c
      BY <2>2 DEF IInv, QueuesSound
    <3>2. QED
      BY <1>1, <1>5, <2>1, <2>2, <3>1 DEF StatusOf, Open
  <2>3. CASE c \notin Members(queue)
    BY <1>1, <1>5, <2>1, <2>3 DEF StatusOf, Open, Held
  <2>4. QED
    BY <2>2, <2>3
<1>6. QED
  BY <1>2, <1>3, <1>4, <1>5 DEF FatesTold

LEMMA FatesWillTell == IInv' => FatesTold'
BY FatesTell, PTL

(* A script whose promise and whereabouts stay keeps its status. *)
LEMMA FateKept ==
    ASSUME FatesTold, FatesTold', TypeOK, NEW c \in Contexts, promise'[c] = promise[c],
           c \in Members(queue') <=> c \in Members(queue), Held(c)' <=> Held(c)
    PROVE  StatusOf(c)' = StatusOf(c)
<1>1. promise[c] \in Refused \cup Cancelled \cup {"error", "broken", "none", "pending"}
  BY DEF TypeOK, Resolved
<1>2. Members(queue') = Members(queue)'
  BY DEF Members
<1>3. QED
  BY <1>1, <1>2 DEF FatesTold

LEMMA FateChanged ==
    ASSUME NEW c \in Contexts, NEW s, StatusOf(c)' = s,
           \A d \in Contexts \ {c} : StatusOf(d)' = StatusOf(d)
    PROVE  Fate' = [Fate EXCEPT ![c] = s]
BY DEF Fate

LEMMA FatesWait ==
    ASSUME IInv
    PROVE  /\ Lifecycle!Waits = Members(queue)
           /\ IsFiniteSet(Members(queue)) /\ Cardinality(Members(queue)) <= QueueSize
           /\ Cardinality(Members(queue)) \in Nat
<1>1. FatesTold
  BY FatesTell
<1>2. \A c \in Members(queue) : c \in Contexts /\ StatusOf(c) = "waiting"
  BY <1>1 DEF FatesTold, IInv, QueuesSound, Members
<1>3. \A c \in Contexts : StatusOf(c) = "waiting" => c \in Members(queue)
  <2> SUFFICES ASSUME NEW c \in Contexts, c \notin Members(queue) PROVE StatusOf(c) # "waiting"
    OBVIOUS
  <2>1. promise[c] \in Refused \cup Cancelled \cup {"error", "broken", "none", "pending"}
    BY DEF IInv, TypeOK, Resolved
  <2>2. QED
    BY <1>1, <2>1 DEF FatesTold
<1>4. Lifecycle!Waits = Members(queue)
  BY <1>2, <1>3 DEF Lifecycle!Waits
<1>5. IsFiniteSet(SlotsOf(queue)) /\ QueueSize = Cardinality(SlotsOf(queue)) /\ QueueSize \in Nat
  BY MembersQueued DEF IInv
<1>6. {queue[s[1]][s[2]] : s \in SlotsOf(queue)} = Members(queue)
  BY SlotsFinite DEF IInv, TypeOK, QueuesSound
<1> DEFINE f == [s \in SlotsOf(queue) |-> queue[s[1]][s[2]]]
<1>7. f \in Surjection(SlotsOf(queue), Members(queue))
  BY <1>6 DEF Surjection
<1> HIDE DEF f
<1>8. IsFiniteSet(Members(queue)) /\ Cardinality(Members(queue)) <= Cardinality(SlotsOf(queue))
  BY <1>5, <1>7, FS_Surjection
<1>9. QED
  BY <1>4, <1>5, <1>8, FS_CardinalityType
--------------------------------------------------------------------------------
LEMMA ScheduleMaps ==
    ASSUME IInv, IInv', NEW c \in Contexts, Schedule(c)
    PROVE  Lifecycle!Next \/ UNCHANGED Fate
<1>1. FatesTold /\ FatesTold' /\ TypeOK
  BY FatesTell, FatesWillTell DEF IInv
<1>2. /\ hand' = hand
      /\ \A d \in Contexts : d # c => promise'[d] = promise[d]
  BY <1>1 DEF Schedule, Submit, Admit, AdmitRefused, TypeOK
<1>3. /\ caller[c] \in {"new", "admitting"} /\ promise[c] \in {"none", "pending"}
      /\ c \notin Members(queue) /\ ~Held(c)
  <2>1. caller[c] \in {"new", "admitting"}
    BY DEF Schedule, Submit, Admit, AdmitRefused
  <2>2. promise[c] \in {"none", "pending"}
    BY <2>1 DEF IInv, PromisesSound
  <2>3. c \notin Members(queue)
    BY <2>1 DEF IInv, QueuesSound
  <2>4. ~Held(c)
    BY <2>1, SchedulerAssumption DEF IInv, HandsSound, Held
  <2>5. QED
    BY <2>1, <2>2, <2>3, <2>4
<1>4. StatusOf(c) = "new"
  BY <1>1, <1>3 DEF FatesTold
<1>5. \A d \in Contexts : Held(d)' <=> Held(d)
  BY <1>2 DEF Held
<1>6. CASE Submit(c) \/ AdmitRefused(c)
  <2>1. queue' = queue /\ Members(queue)' = Members(queue)
    BY <1>6 DEF Submit, AdmitRefused, Members
  <2>2. \A d \in Contexts \ {c} : StatusOf(d)' = StatusOf(d)
    BY <1>1, <1>2, <1>5, <2>1, FateKept
  <2>3. CASE promise'[c] = "pending"
    <3>1. StatusOf(c)' = "new"
      BY <1>1, <1>3, <1>5, <2>1, <2>3 DEF FatesTold
    <3>2. QED
      BY <1>4, <2>2, <3>1 DEF Fate
  <2>4. CASE promise'[c] \in Refused
    <3>1. StatusOf(c)' = "refused"
      BY <1>1, <2>4 DEF FatesTold, Refused
    <3>2. Fate' = [Fate EXCEPT ![c] = "refused"] /\ Fate[c] = "new"
      BY <1>4, <2>2, <3>1, FateChanged DEF Fate
    <3>3. Lifecycle!Refuse(c)
      BY <3>2 DEF Lifecycle!Refuse, Fate
    <3>4. QED
      BY <3>3 DEF Lifecycle!Next
  <2>5. QED
    BY <1>6, <1>1, <2>3, <2>4 DEF Submit, AdmitRefused, TypeOK, Refused
<1>7. CASE Admit(c)
  <2>1. queue' = [queue EXCEPT ![PriorityOf[c]] = Append(@, c)] /\ promise' = promise /\ ~Full
    BY <1>7 DEF Admit
  <2>2. Members(queue') = Members(queue) \cup {c} /\ Members(queue)' = Members(queue')
    <3>1. queue \in [Priorities -> Seq(Contexts)] /\ Sorted(queue)
      BY DEF IInv, TypeOK, QueuesSound
    <3>2. Members(queue') = Members(queue) \cup {c}
      BY <3>1, <1>3, <2>1, AppendedQueues
    <3>3. Members(queue)' = Members(queue')
      BY DEF Members
    <3>4. QED
      BY <3>2, <3>3
  <2>3. StatusOf(c)' = "waiting"
    BY <1>1, <1>3, <2>1, <2>2 DEF FatesTold
  <2>4. \A d \in Contexts \ {c} : StatusOf(d)' = StatusOf(d)
    BY <1>1, <1>2, <1>5, <2>2, FateKept
  <2>5. Fate' = [Fate EXCEPT ![c] = "waiting"] /\ Fate[c] = "new"
    BY <1>4, <2>3, <2>4, FateChanged DEF Fate
  <2>6. \E n \in QueueLimits : Cardinality(Lifecycle!Waits) < n
    <3>1. limit \in QueueLimits /\ limit \in Nat /\ QueueSize \in Nat /\ QueueSize < limit
      BY <2>1, MembersQueued, SchedulerAssumption DEF IInv, TypeOK, Full
    <3>2. QED
      BY <3>1, FatesWait
  <2>7. Lifecycle!Accept(c)
    BY <2>5, <2>6 DEF Lifecycle!Accept, Fate, Lifecycle!Cardinality, Cardinality
  <2>8. QED
    BY <2>7 DEF Lifecycle!Next
<1>8. QED
  BY <1>6, <1>7 DEF Schedule

(* Taking a script from its queue is where it starts. *)
LEMMA TakeMaps ==
    ASSUME IInv, IInv', NEW t \in Steppers, StepTake(t)
    PROVE  Lifecycle!Next
<1> USE SchedulerAssumption DEF IInv
<1> PICK p \in Ready :
       /\ hand' = [hand EXCEPT ![t] = Head(queue[p])]
       /\ queue' = [RotateUpTo({q \in Waiting : q < p}) EXCEPT ![p] = Tail(@)]
  BY DEF StepTake
<1> DEFINE qs == RotateUpTo({q \in Waiting : q < p})
<1>1. /\ p \in Priorities /\ p \in Nat /\ queue[p] # <<>>
      /\ p \in Priorities \ {q \in Waiting : q < p}
      /\ {q \in Waiting : q < p} \in SUBSET Waiting
      /\ queue \in [Priorities -> Seq(Contexts)] /\ Sorted(queue)
      /\ promise' = promise /\ hand[t] = None
  <2>1. p \in Waiting /\ Waiting \subseteq Priorities
    BY DEF Ready, Waiting
  <2>2. queue[p] # <<>>
    BY <2>1 DEF Waiting
  <2>3. queue \in [Priorities -> Seq(Contexts)] /\ Sorted(queue)
    BY DEF TypeOK, QueuesSound
  <2>4. promise' = promise /\ hand[t] = None
    BY DEF StepTake, HandsSound
  <2> QED
    BY <2>1, <2>2, <2>3, <2>4
<1>2. /\ qs \in [Priorities -> Seq(Contexts)] /\ Sorted(qs)
      /\ Members(qs) = Members(queue) /\ qs[p] = queue[p]
      /\ queue' = [qs EXCEPT ![p] = Tail(@)]
  BY <1>1, RotatedQueues
<1> HIDE DEF qs
<1> PICK c : c = Head(queue[p])
  OBVIOUS
<1>3. c \in Members(queue) /\ Members(queue') = Members(queue) \ {c}
  <2>1. qs[p] # <<>> /\ Head(qs[p]) = c
    BY <1>1, <1>2
  <2>2. Head(qs[p]) \in Members(qs) /\ Members(queue') = Members(qs) \ {Head(qs[p])}
    BY <1>1, <1>2, <2>1, TakenQueues
  <2>3. QED
    BY <1>2, <2>1, <2>2
<1>4. /\ c \in Contexts /\ promise[c] = "pending" /\ c # None
      /\ \A u \in Steppers : hand'[u] = IF u = t THEN c ELSE hand[u]
  <2>1. c \in Contexts /\ promise[c] = "pending" /\ c # None
    BY <1>3 DEF QueuesSound, Members
  <2>2. hand' = [hand EXCEPT ![t] = c] /\ hand \in [Steppers -> Contexts \cup {None}]
    BY DEF TypeOK
  <2>3. QED
    BY <2>1, <2>2
<1>5. FatesTold /\ FatesTold' /\ Members(queue)' = Members(queue')
  BY FatesTell, FatesWillTell DEF Members
<1>6. StatusOf(c) = "waiting" /\ StatusOf(c)' = "started"
  <2>1. StatusOf(c) = "waiting"
    BY <1>3, <1>4, <1>5 DEF FatesTold
  <2>2. Held(c)' /\ c \notin Members(queue)' /\ promise'[c] = "pending"
    BY <1>1, <1>3, <1>4, <1>5 DEF Held
  <2>3. QED
    BY <1>4, <1>5, <2>1, <2>2 DEF FatesTold
<1>7. ASSUME NEW d \in Contexts \ {c} PROVE StatusOf(d)' = StatusOf(d)
  <2>1. Held(d)' <=> Held(d)
    BY <1>1, <1>4 DEF Held
  <2>2. d \in Members(queue') <=> d \in Members(queue)
    BY <1>3
  <2>3. QED
    BY <1>1, <1>5, <2>1, <2>2, FateKept
<1>8. Fate' = [Fate EXCEPT ![c] = "started"] /\ Fate[c] = "waiting"
  BY <1>4, <1>6, <1>7, FateChanged DEF Fate
<1>9. Lifecycle!Start(c)
  BY <1>8 DEF Lifecycle!Start, Fate
<1>10. QED
  BY <1>4, <1>9 DEF Lifecycle!Next

(* A step returns with a script that was handed to task_defer. *)
LeavingRan == \A t \in Steppers : stepper[t] = "leaving" => hand[t] \in deferred

LEMMA LeavingRanKept == IInv /\ LeavingRan /\ [Next]_vars => LeavingRan'
<1> SUFFICES ASSUME IInv, LeavingRan, [Next]_vars PROVE LeavingRan'
  OBVIOUS
<1>1. TypeOK
  BY DEF IInv
<1>2. ASSUME NEW t \in Steppers, StepExecute(t) PROVE LeavingRan'
  BY <1>1, <1>2 DEF LeavingRan, StepExecute, TypeOK
<1>3. ASSUME NEW t \in Steppers, StepTake(t) PROVE LeavingRan'
  <2>1. \A u \in Steppers : u # t => hand'[u] = hand[u]
    BY <1>1, <1>3 DEF StepTake, TypeOK
  <2>2. QED
    BY <1>1, <1>3, <2>1 DEF LeavingRan, StepTake, TypeOK
<1>4. ASSUME NEW t \in Steppers, StepLeave(t) PROVE LeavingRan'
  BY <1>1, <1>4 DEF LeavingRan, StepLeave, TypeOK
<1>5. ASSUME NEW t \in Steppers, StepBegin(t) \/ StepPoll(t) \/ StepFindsNothing(t) \/ StepEnter(t)
      PROVE  LeavingRan'
  BY <1>1, <1>5 DEF LeavingRan, StepBegin, StepPoll, StepFindsNothing, StepEnter, TypeOK
<1>6. CASE UNCHANGED <<stepper, hand, deferred>>
  BY <1>6 DEF LeavingRan
<1>7. QED
  BY <1>2, <1>3, <1>4, <1>5, <1>6
  DEF Next, vars, Schedule, Submit, Admit, AdmitRefused, TimePasses, Step, YieldScript, ResumeScript,
      CancelQueued, CancelYielded, SetConfig, Shutdown, ShutdownFlag, ShutdownDrain, ShutdownUnpark,
      Destroy

LEMMA RunMaps ==
    ASSUME IInv, IInv', LeavingRan, NEW t \in Steppers, StepExecute(t) \/ StepLeave(t)
    PROVE  Lifecycle!Next \/ UNCHANGED Fate
<1> PICK c : c = hand[t]
  OBVIOUS
<1>1. /\ queue' = queue /\ Members(queue)' = Members(queue)
      /\ c \in Contexts
  BY DEF StepExecute, StepLeave, Members, IInv, TypeOK, HandsSound
<1>2. /\ \A d \in Contexts \ {c} : promise'[d] = promise[d]
      /\ promise'[c] \in {promise[c], "error", "broken"}
      /\ promise[c] \in {"pending", "error", "broken"}
      /\ StepLeave(t) => promise'[c] # "pending"
      /\ promise[c] # "pending" => promise'[c] = promise[c]
  <2>1. promise[c] \in {"pending", "error", "broken"}
    BY DEF StepExecute, StepLeave, IInv, HandsSound, PromisesSound, LeavingRan
  <2>2. CASE StepExecute(t)
    <3>1. promise[c] = "pending"
      BY <2>2 DEF StepExecute, IInv, HandsSound
    <3>2. QED
      BY <1>1, <2>2, <3>1 DEF StepExecute, ReturnsOrThrows, StepLeave, IInv, TypeOK
  <2>3. CASE StepLeave(t)
    BY <1>1, <2>1, <2>3 DEF StepLeave, Abandon, IInv, TypeOK
  <2>4. QED
    BY <2>2, <2>3
<1>3. \A d \in Contexts \ {c} : Held(d)' <=> Held(d)
  <2>1. \A u \in Steppers : u # t => hand'[u] = hand[u]
    BY DEF StepExecute, StepLeave, IInv, TypeOK
  <2>2. hand'[t] \in {hand[t], None}
    BY DEF StepExecute, StepLeave, IInv, TypeOK
  <2>3. QED
    BY <2>1, <2>2, SchedulerAssumption DEF Held
<1>4. c \notin Members(queue)
  BY DEF IInv, QueuesSound
<1>5. FatesTold /\ FatesTold' /\ TypeOK
  BY FatesTell, FatesWillTell DEF IInv
<1>6. \A d \in Contexts \ {c} : StatusOf(d)' = StatusOf(d)
  BY <1>1, <1>2, <1>3, <1>5, FateKept
<1>7. CASE promise'[c] = "pending"
  <2>1. promise[c] = "pending" /\ StepExecute(t)
    BY <1>2, <1>7
  <2>2. Held(c)' <=> Held(c)
    BY <2>1 DEF StepExecute, Held
  <2>3. StatusOf(c)' = StatusOf(c)
    BY <1>1, <1>5, <1>7, <2>1, <2>2, FateKept
  <2>4. QED
    BY <1>6, <2>3 DEF Fate
<1>8. CASE promise'[c] # "pending"
  <2>1. StatusOf(c)' = "finished"
    BY <1>1, <1>2, <1>5, <1>8 DEF FatesTold
  <2>2. CASE promise[c] = "pending"
    <3>1. StatusOf(c) = "started"
      BY <1>1, <1>4, <1>5, <2>2 DEF FatesTold, Held
    <3>2. Fate' = [Fate EXCEPT ![c] = "finished"] /\ Fate[c] = "started"
      BY <1>1, <1>6, <2>1, <3>1, FateChanged DEF Fate
    <3>3. Lifecycle!Finish(c)
      BY <3>2 DEF Lifecycle!Finish, Fate
    <3>4. QED
      BY <1>1, <3>3 DEF Lifecycle!Next
  <2>3. CASE promise[c] # "pending"
    <3>1. StatusOf(c) = "finished"
      BY <1>1, <1>2, <1>5, <2>3 DEF FatesTold
    <3>2. QED
      BY <1>6, <2>1, <3>1 DEF Fate
  <2>4. QED
    BY <2>2, <2>3
<1>9. QED
  BY <1>7, <1>8

(* Cancelling, and draining the queues, cancel what waits. *)
LEMMA CancelMaps ==
    ASSUME IInv, IInv', NEW S \in SUBSET Members(queue), NEW reason \in Cancelled, Fail(S, reason),
           Members(queue') = Members(queue) \ S, hand' = hand
    PROVE  Lifecycle!Next
<1>1. FatesTold /\ FatesTold' /\ TypeOK /\ Members(queue)' = Members(queue')
  BY FatesTell, FatesWillTell DEF IInv, Members
<1>2. \A c \in Contexts : promise'[c] = IF c \in S THEN reason ELSE promise[c]
  BY DEF Fail
<1>3. \A c \in Contexts : Held(c)' <=> Held(c)
  BY DEF Held
<1>4. \A c \in Contexts : StatusOf(c)' = IF c \in S THEN "cancelled" ELSE StatusOf(c)
  <2>1. ASSUME NEW c \in Contexts, c \in S PROVE StatusOf(c)' = "cancelled"
    BY <1>1, <1>2, <2>1 DEF FatesTold, Cancelled
  <2>2. ASSUME NEW c \in Contexts, c \notin S PROVE StatusOf(c)' = StatusOf(c)
    BY <1>1, <1>2, <1>3, <2>2, FateKept
  <2>3. QED
    BY <2>1, <2>2
<1>5. Lifecycle!Cancel(S)
  BY <1>4 DEF Lifecycle!Cancel
<1>6. S \in SUBSET Lifecycle!Waits
  BY FatesWait
<1>7. QED
  BY <1>5, <1>6 DEF Lifecycle!Next

LEMMA StepMaps ==
    ASSUME IInv, IInv', LeavingRan, [Next]_vars
    PROVE  Lifecycle!Next \/ UNCHANGED Fate
<1>1. ASSUME NEW c \in Contexts, Schedule(c) PROVE Lifecycle!Next \/ UNCHANGED Fate
  BY <1>1, ScheduleMaps
<1>2. ASSUME NEW t \in Steppers, StepTake(t) PROVE Lifecycle!Next
  BY <1>2, TakeMaps
<1>3. ASSUME NEW t \in Steppers, StepExecute(t) \/ StepLeave(t) PROVE Lifecycle!Next \/ UNCHANGED Fate
  BY <1>3, RunMaps
<1>4. ASSUME NEW x \in Cancellers, NEW L \in LuaThreads, CancelQueued(x, L) PROVE Lifecycle!Next
  <2> DEFINE S == {c \in Members(queue) : ThreadOf[c] = L}
  <2>1. Members(queue') = {c \in Members(queue) : ThreadOf[c] # L}
    <3>1. /\ queue \in [Priorities -> Seq(Contexts)] /\ Sorted(queue)
          /\ queue' = [p \in Priorities |-> SurvivorsOf(queue[p], L)]
      BY <1>4 DEF CancelQueued, IInv, TypeOK, QueuesSound
    <3>2. QED
      BY <3>1, CancelledQueues
  <2>2. /\ Members(queue') = Members(queue) \ S /\ S \in SUBSET Members(queue)
        /\ Fail(S, "cancelled") /\ "cancelled" \in Cancelled /\ hand' = hand
    BY <1>4, <2>1, MembersQueued DEF IInv, CancelQueued, Cancelled
  <2> HIDE DEF S
  <2>3. QED
    BY <2>2, CancelMaps
<1>5. ASSUME ShutdownDrain \/ Destroy PROVE Lifecycle!Next
  <2>1. Drain /\ hand' = hand
    BY <1>5 DEF ShutdownDrain, Destroy
  <2>2. Members(queue') = {} /\ Fail(Members(queue), "all_cancelled") /\ "all_cancelled" \in Cancelled
    BY <2>1, EmptyQueues, MembersQueued DEF IInv, Drain, Cancelled
  <2>3. QED
    BY <2>1, <2>2, CancelMaps
<1>6. ASSUME UNCHANGED <<promise, hand>>, Members(queue') = Members(queue) PROVE UNCHANGED Fate
  <2>1. FatesTold /\ FatesTold' /\ TypeOK /\ \A c \in Contexts : Held(c)' <=> Held(c)
    BY <1>6, FatesTell, FatesWillTell DEF IInv, Held
  <2>2. \A c \in Contexts : StatusOf(c)' = StatusOf(c)
    BY <1>6, <2>1, FateKept
  <2>3. QED
    BY <2>2 DEF Fate
<1>7. ASSUME NEW t \in Steppers, StepFindsNothing(t) PROVE UNCHANGED Fate
  <2>1. Members(queue') = Members(queue) /\ UNCHANGED <<promise, hand>>
    BY <1>7, RotatedQueues DEF StepFindsNothing, IInv, TypeOK, QueuesSound
  <2>2. QED
    BY <2>1, <1>6
<1>8. CASE UNCHANGED <<promise, hand, queue>>
  BY <1>6, <1>8
<1>9. QED
  BY <1>1, <1>2, <1>3, <1>4, <1>5, <1>7, <1>8
  DEF Next, vars, TimePasses, Step, StepBegin, StepPoll, StepEnter, YieldScript, ResumeScript,
      CancelYielded, SetConfig, Shutdown, ShutdownFlag, ShutdownUnpark

(* The queues, locks and racing threads implement the life that a script is promised. *)
THEOREM Refines == Spec => ImplementsLifecycle
<1>1. Init => Lifecycle!Init
  <2> SUFFICES ASSUME Init PROVE Lifecycle!Init
    OBVIOUS
  <2>1. FatesTold /\ Members(queue) = {}
    BY InitSound, FatesTell, EmptyQueues DEF Init
  <2>2. \A c \in Contexts : promise[c] = "none" /\ ~Held(c)
    BY SchedulerAssumption DEF Init, Held
  <2>3. \A c \in Contexts : StatusOf(c) = "new"
    BY <2>1, <2>2 DEF FatesTold
  <2>4. QED
    BY <2>3 DEF Lifecycle!Init
<1>2. Init => LeavingRan
  BY DEF Init, LeavingRan
<1>3. IInv /\ IInv' /\ LeavingRan /\ [Next]_vars => [Lifecycle!Next]_([c \in Contexts |-> StatusOf(c)])
  BY StepMaps DEF Fate
<1>4. QED
  BY <1>1, <1>2, <1>3, LeavingRanKept, Inductive, PTL DEF Spec, ImplementsLifecycle, Lifecycle!Spec
--------------------------------------------------------------------------------
(* First come, first started.  In a queue the scripts that are not delayed
   stand in the order of their admissions. *)
InOrder(q, a) ==
    \A i, j \in 1 .. Len(q) :
        i < j /\ q[i] \notin Delayed /\ q[j] \notin Delayed => a[q[i]] < a[q[j]]

LEMMA TailInOrder ==
    ASSUME NEW q \in Seq(Contexts), q # <<>>, NEW a, InOrder(q, a)
    PROVE  InOrder(Tail(q), a)
<1>1. Len(q) \in Nat /\ Len(Tail(q)) \in Nat
  BY HeadTailProperties, EmptySeq, LenProperties
<1>2. \A j \in 1 .. Len(Tail(q)) : Tail(q)[j] = q[j + 1] /\ j + 1 \in 1 .. Len(q)
  BY TailPicks
<1>3. ASSUME NEW i \in 1 .. Len(Tail(q)), NEW j \in 1 .. Len(Tail(q)), i < j,
             Tail(q)[i] \notin Delayed, Tail(q)[j] \notin Delayed
      PROVE  a[Tail(q)[i]] < a[Tail(q)[j]]
  <2>1. i + 1 < j + 1
    BY <1>1, <1>3
  <2>2. QED
    BY <1>2, <1>3, <2>1 DEF InOrder
<1>4. QED
  BY <1>3 DEF InOrder

(* A script that is rotated to the back is delayed, so the rest keeps its order. *)
LEMMA RotatedInOrder ==
    ASSUME NEW q \in Seq(Contexts), q # <<>>, q[1] \in Delayed, NEW a, InOrder(q, a)
    PROVE  InOrder(Rotated(q), a)
<1> DEFINE n == Len(q)
           r == Rotated(q)
<1>1. /\ Tail(q) \in Seq(Contexts)
      /\ Len(Tail(q)) = n - 1
      /\ n \in Nat
      /\ n > 0
      /\ Head(q) = q[1]
      /\ Head(q) \in Contexts
      /\ \A j \in 1 .. n - 1 : Tail(q)[j] = q[j + 1]
  BY HeadTailProperties, EmptySeq, LenProperties
<1>2. /\ Len(r) = n
      /\ \A j \in 1 .. n - 1 : r[j] = q[j + 1]
      /\ r[n] = q[1]
  BY <1>1, AppendProperties DEF Rotated
<1>3. Len(Rotated(q)) = n
  BY <1>2
<1> HIDE DEF n, r
<1>4. ASSUME NEW i \in 1 .. n, NEW j \in 1 .. n, i < j, r[i] \notin Delayed, r[j] \notin Delayed
      PROVE  a[r[i]] < a[r[j]]
  <2>1. i \in 1 .. n - 1 /\ j # n
    BY <1>1, <1>2, <1>4
  <2>2. j \in 1 .. n - 1
    BY <1>1, <2>1
  <2>3. i + 1 \in 1 .. n /\ j + 1 \in 1 .. n /\ i + 1 < j + 1
    BY <1>1, <1>4, <2>1, <2>2
  <2>4. QED
    BY <1>2, <1>4, <2>1, <2>2, <2>3 DEF InOrder, n
<1>5. QED
  BY <1>3, <1>4 DEF InOrder, r

(* The rebuilt queue of cancel_script keeps the order of what it keeps. *)
LEMMA KeptAtInOrder ==
    ASSUME NEW q \in Seq(Contexts), NEW keep \in SUBSET DOMAIN q, NEW a, InOrder(q, a)
    PROVE  InOrder(KeptAt(q, keep), a)
<1> DEFINE m == Cardinality(keep)
           Rank(i) == Cardinality({k \in keep : k <= i})
           f == [j \in 1 .. m |-> CHOOSE i \in keep : Rank(i) = j]
<1>1. Len(q) \in Nat /\ DOMAIN q = 1 .. Len(q) /\ keep \in SUBSET (1 .. Len(q))
  BY LenProperties
<1>2. m \in Nat /\ (\A j \in 1 .. m : \E i \in keep : Rank(i) = j)
  BY <1>1, RankTaken
<1>3. ASSUME NEW i \in keep, NEW h \in keep, i <= h
      PROVE  Rank(i) <= Rank(h) /\ Rank(i) \in Nat /\ Rank(h) \in Nat
  <2>0. IsFiniteSet(1 .. Len(q))
    BY <1>1, FS_Interval
  <2>1. IsFiniteSet(keep)
    BY <1>1, <2>0, FS_Subset
  <2>2. \A k \in keep : k \in Int
    BY <1>1
  <2>3. \A k \in keep : k <= i => k <= h
    BY <1>3, <2>2
  <2>4. {k \in keep : k <= i} \in SUBSET {k \in keep : k <= h} /\ {k \in keep : k <= h} \in SUBSET keep
    BY <2>3
  <2>5. IsFiniteSet({k \in keep : k <= h})
    BY <2>1, <2>4, FS_Subset
  <2>6. QED
    BY <2>4, <2>5, FS_Subset, FS_CardinalityType
<1>4. KeptAt(q, keep) = [j \in 1 .. m |-> q[f[j]]]
  BY DEF KeptAt
<1> HIDE DEF m, Rank
<1>5. \A j \in 1 .. m : f[j] \in keep /\ Rank(f[j]) = j
  BY <1>2
<1> HIDE DEF f
<1>6. ASSUME NEW j \in 1 .. m, NEW k \in 1 .. m, j < k
      PROVE  f[j] < f[k]
  <2>1. f[j] \in 1 .. Len(q) /\ f[k] \in 1 .. Len(q)
    BY <1>1, <1>5
  <2>2. ~ (f[k] <= f[j])
    <3> SUFFICES ASSUME f[k] <= f[j] PROVE FALSE
      OBVIOUS
    <3>1. Rank(f[k]) <= Rank(f[j])
      BY <1>3, <1>5
    <3>2. QED
      BY <1>2, <1>5, <1>6, <3>1
  <2>3. QED
    BY <1>1, <2>1, <2>2
<1>7. Len(KeptAt(q, keep)) = m
  BY <1>2, <1>4
<1>8. ASSUME NEW j \in 1 .. m, NEW k \in 1 .. m, j < k,
             KeptAt(q, keep)[j] \notin Delayed, KeptAt(q, keep)[k] \notin Delayed
      PROVE  a[KeptAt(q, keep)[j]] < a[KeptAt(q, keep)[k]]
  <2>1. /\ KeptAt(q, keep)[j] = q[f[j]] /\ KeptAt(q, keep)[k] = q[f[k]]
        /\ f[j] \in 1 .. Len(q) /\ f[k] \in 1 .. Len(q) /\ f[j] < f[k]
    BY <1>1, <1>4, <1>5, <1>6, <1>8
  <2>2. QED
    BY <1>8, <2>1 DEF InOrder
<1>9. QED
  BY <1>7, <1>8 DEF InOrder

(* Whoever is admitted now has the latest arrival. *)
LEMMA AppendInOrder ==
    ASSUME NEW q \in Seq(Contexts), NEW c \in Contexts, NEW a, NEW b, InOrder(q, a),
           \A i \in 1 .. Len(q) : b[q[i]] = a[q[i]] /\ a[q[i]] < b[c]
    PROVE  InOrder(Append(q, c), b)
<1>1. /\ Len(q) \in Nat /\ Len(Append(q, c)) = Len(q) + 1
      /\ \A i \in 1 .. Len(q) : Append(q, c)[i] = q[i]
      /\ Append(q, c)[Len(q) + 1] = c
  BY AppendProperties, LenProperties
<1>2. ASSUME NEW i \in 1 .. Len(q) + 1, NEW j \in 1 .. Len(q) + 1, i < j,
             Append(q, c)[i] \notin Delayed, Append(q, c)[j] \notin Delayed
      PROVE  b[Append(q, c)[i]] < b[Append(q, c)[j]]
  <2>1. i \in 1 .. Len(q)
    BY <1>1, <1>2
  <2>2. CASE j = Len(q) + 1
    BY <1>1, <2>1, <2>2
  <2>3. CASE j # Len(q) + 1
    <3>1. j \in 1 .. Len(q)
      BY <1>1, <2>3
    <3>2. a[q[i]] < a[q[j]]
      BY <1>1, <1>2, <2>1, <3>1 DEF InOrder
    <3>3. QED
      BY <1>1, <2>1, <3>1, <3>2
  <2>4. QED
    BY <2>2, <2>3
<1>3. QED
  BY <1>1, <1>2 DEF InOrder

--------------------------------------------------------------------------------
(* Only delayed scripts are not due, arrivals count the admissions, and every
   queue is in their order. *)
Arrived == {c \in Contexts : arrival[c] # 0}

Punctuality == \A c \in Contexts \ Delayed : due[c]
Numbered ==
    \A c \in Contexts : /\ caller[c] # "returned" => arrival[c] = 0
                        /\ arrival[c] <= Cardinality(Arrived)
Ordered == \A p \in Priorities : InOrder(queue[p], arrival)
FInv == Punctuality /\ Numbered /\ Ordered

LEMMA ArrivedFinite == IInv => IsFiniteSet(Arrived) /\ Cardinality(Arrived) \in Nat
BY SchedulerAssumption, FS_Subset, FS_CardinalityType DEF Arrived

LEMMA FifoInit == Init => FInv
<1> SUFFICES ASSUME Init PROVE FInv
  OBVIOUS
<1>1. Punctuality
  BY DEF Init, Punctuality
<1>2. Arrived = {}
  BY DEF Init, Arrived
<1>3. Cardinality(Arrived) = 0
  BY <1>2, FS_EmptySet
<1>4. Numbered
  BY <1>3 DEF Init, Numbered
<1>5. \A p \in Priorities : queue[p] = <<>>
  BY DEF Init
<1>6. Ordered
  BY <1>5 DEF Ordered, InOrder
<1>7. QED
  BY <1>1, <1>4, <1>6 DEF FInv

LEMMA FifoAdmit ==
    ASSUME IInv, IInv', FInv, NEW c \in Contexts, Admit(c)
    PROVE  FInv'
<1>1. /\ caller[c] = "admitting" /\ arrival[c] = 0
      /\ caller' = [caller EXCEPT ![c] = "returned"]
      /\ arrival' = [arrival EXCEPT ![c] = Cardinality(Arrived) + 1]
      /\ queue' = [queue EXCEPT ![PriorityOf[c]] = Append(@, c)]
      /\ due' = due
  BY DEF Admit, FInv, Numbered, Arrived
<1>2. IsFiniteSet(Arrived) /\ Cardinality(Arrived) \in Nat
  BY ArrivedFinite
<1>3. /\ TypeOK /\ queue \in [Priorities -> Seq(Contexts)] /\ arrival \in [Contexts -> Nat]
      /\ caller \in [Contexts -> {"new", "admitting", "returned"}]
  BY DEF IInv, TypeOK
<1>4. /\ arrival'[c] = Cardinality(Arrived) + 1
      /\ \A d \in Contexts : d # c => arrival'[d] = arrival[d]
  BY <1>1, <1>3
<1>5. Arrived' = Arrived \cup {c} /\ c \notin Arrived
  <2>1. arrival'[c] # 0
    BY <1>2, <1>4
  <2>2. Arrived' = {d \in Contexts : arrival'[d] # 0}
    BY DEF Arrived
  <2>3. \A d \in Contexts : arrival'[d] # 0 <=> d = c \/ arrival[d] # 0
    BY <1>4, <2>1
  <2>4. QED
    BY <1>1, <2>2, <2>3 DEF Arrived
<1>6. Cardinality(Arrived)' = Cardinality(Arrived) + 1
  BY <1>2, <1>5, FS_AddElement
<1>7. Numbered'
  <2>1. ASSUME NEW d \in Contexts
        PROVE  (caller'[d] # "returned" => arrival'[d] = 0) /\ arrival'[d] <= Cardinality(Arrived)'
    <3>1. CASE d = c
      BY <3>1, <1>1, <1>2, <1>3, <1>4, <1>6
    <3>2. CASE d # c
      <4>1. arrival'[d] = arrival[d] /\ caller'[d] = caller[d] /\ arrival[d] \in Nat
        BY <3>2, <1>1, <1>3, <1>4
      <4>2. (caller[d] # "returned" => arrival[d] = 0) /\ arrival[d] <= Cardinality(Arrived)
        BY DEF FInv, Numbered
      <4>3. QED
        BY <4>1, <4>2, <1>2, <1>6
    <3>3. QED
      BY <3>1, <3>2
  <2>2. QED
    BY <2>1 DEF Numbered
<1>8. ASSUME NEW p \in Priorities PROVE InOrder(queue'[p], arrival')
  <2>1. queue[p] \in Seq(Contexts) /\ InOrder(queue[p], arrival)
    BY <1>3 DEF FInv, Ordered
  <2>2. ASSUME NEW i \in 1 .. Len(queue[p])
        PROVE  arrival'[queue[p][i]] = arrival[queue[p][i]] /\ arrival[queue[p][i]] < arrival'[c]
    <3>1. queue[p][i] \in Contexts
      BY <2>1, ElementOfSeq
    <3>2. queue[p][i] \in Members(queue)
      BY <3>1 DEF Members
    <3>3. caller[queue[p][i]] = "returned"
      BY <3>2 DEF IInv, QueuesSound
    <3>4. queue[p][i] # c
      BY <3>3, <1>1
    <3>5. arrival[queue[p][i]] <= Cardinality(Arrived) /\ arrival[queue[p][i]] \in Nat
      BY <3>1, <1>3 DEF FInv, Numbered
    <3>6. QED
      BY <3>1, <3>4, <3>5, <1>2, <1>4
  <2>3. CASE p = PriorityOf[c]
    <3>1. queue'[p] = Append(queue[p], c)
      BY <2>3, <1>1, <1>3
    <3>2. InOrder(Append(queue[p], c), arrival')
      BY <2>1, <2>2, AppendInOrder
    <3>3. QED
      BY <3>1, <3>2
  <2>4. CASE p # PriorityOf[c]
    <3>1. queue'[p] = queue[p]
      BY <2>4, <1>1, <1>3
    <3>2. QED
      BY <3>1, <2>1, <2>2 DEF InOrder
  <2>5. QED
    BY <2>3, <2>4
<1>9. QED
  BY <1>1, <1>7, <1>8 DEF FInv, Ordered, Punctuality

(* Fronts that get_next_script passes over are not due, hence delayed. *)
LEMMA FifoRotate ==
    ASSUME IInv, FInv, NEW P \in SUBSET Waiting, \A p \in P : p \notin Ready, NEW p \in Priorities
    PROVE  RotateUpTo(P)[p] \in Seq(Contexts) /\ InOrder(RotateUpTo(P)[p], arrival)
<1>1. queue[p] \in Seq(Contexts) /\ InOrder(queue[p], arrival)
  BY DEF IInv, TypeOK, FInv, Ordered
<1>2. CASE p \in P
  <2>1. queue[p] # <<>> /\ ~ due[Head(queue[p])]
    BY <1>2 DEF Ready, Waiting
  <2>2. Head(queue[p]) = queue[p][1] /\ queue[p][1] \in Contexts
    BY <1>1, <2>1, HeadTailProperties
  <2>3. queue[p][1] \in Delayed
    BY <2>1, <2>2 DEF FInv, Punctuality
  <2>4. Rotated(queue[p]) \in Seq(Contexts) /\ InOrder(Rotated(queue[p]), arrival)
    BY <1>1, <2>1, <2>3, RotatedInOrder, RotatedPicks DEF Picks
  <2>5. QED
    BY <1>2, <2>4 DEF RotateUpTo
<1>3. CASE p \notin P
  BY <1>1, <1>3 DEF RotateUpTo
<1>4. QED
  BY <1>2, <1>3

LEMMA FifoStep ==
    ASSUME IInv, FInv, NEW t \in Steppers, StepTake(t) \/ StepFindsNothing(t)
    PROVE  FInv'
<1>1. due' = due /\ caller' = caller /\ arrival' = arrival
  BY DEF StepTake, StepFindsNothing
<1>2. Punctuality' /\ Numbered'
  BY <1>1 DEF FInv, Punctuality, Numbered, Arrived
<1>3. ASSUME NEW r \in Priorities PROVE InOrder(queue'[r], arrival)
  <2>1. CASE StepFindsNothing(t)
    <3>1. Ready = {} /\ queue' = RotateUpTo(Waiting)
      BY <2>1 DEF StepFindsNothing
    <3>2. QED
      BY <3>1, FifoRotate
  <2>2. CASE StepTake(t)
    <3>1. PICK p \in Ready :
             /\ \A q \in Ready : p <= q
             /\ queue' = [RotateUpTo({q \in Waiting : q < p}) EXCEPT ![p] = Tail(@)]
      BY <2>2 DEF StepTake
    <3> DEFINE P == {q \in Waiting : q < p}
    <3>2. P \in SUBSET Waiting /\ p \in Priorities /\ p \in Nat /\ queue[p] # <<>>
      BY SchedulerAssumption DEF Ready, Waiting
    <3>3. \A q \in P : q \notin Ready /\ q \in Nat
      BY <3>1, <3>2, SchedulerAssumption DEF Ready, Waiting
    <3>4. p \notin P
      BY <3>1, <3>3
    <3> HIDE DEF P
    <3>5. CASE r = p
      <4>1. queue'[r] = Tail(queue[r])
        BY <3>1, <3>2, <3>4, <3>5 DEF RotateUpTo, P
      <4>2. queue[r] \in Seq(Contexts) /\ InOrder(queue[r], arrival)
        BY DEF IInv, TypeOK, FInv, Ordered
      <4>3. QED
        BY <4>1, <4>2, <3>2, <3>5, TailInOrder
    <3>6. CASE r # p
      <4>1. queue'[r] = RotateUpTo(P)[r]
        BY <3>1, <3>6 DEF RotateUpTo, P
      <4>2. InOrder(RotateUpTo(P)[r], arrival)
        BY <3>2, <3>3, FifoRotate
      <4>3. QED
        BY <4>1, <4>2
    <3>7. QED
      BY <3>5, <3>6
  <2>3. QED
    BY <2>1, <2>2
<1>4. QED
  BY <1>1, <1>2, <1>3 DEF FInv, Ordered

LEMMA FifoCancel ==
    ASSUME IInv, FInv, NEW x \in Cancellers, NEW L \in LuaThreads, CancelQueued(x, L)
    PROVE  FInv'
<1>1. due' = due /\ caller' = caller /\ arrival' = arrival
  BY DEF CancelQueued
<1>2. Punctuality' /\ Numbered'
  BY <1>1 DEF FInv, Punctuality, Numbered, Arrived
<1>3. ASSUME NEW p \in Priorities PROVE InOrder(queue'[p], arrival)
  <2>1. queue[p] \in Seq(Contexts) /\ InOrder(queue[p], arrival)
    BY DEF IInv, TypeOK, FInv, Ordered
  <2> DEFINE keep == {i \in DOMAIN queue[p] : ThreadOf[queue[p][i]] # L}
  <2>2. queue'[p] = KeptAt(queue[p], keep) /\ keep \in SUBSET DOMAIN queue[p]
    BY DEF CancelQueued, SurvivorsOf
  <2> HIDE DEF keep
  <2>3. QED
    BY <2>1, <2>2, KeptAtInOrder
<1>4. QED
  BY <1>1, <1>2, <1>3 DEF FInv, Ordered

LEMMA FifoDrain ==
    ASSUME IInv, FInv, Drain, UNCHANGED <<due, caller, arrival>>
    PROVE  FInv'
<1>1. \A p \in Priorities : queue'[p] = <<>>
  BY DEF Drain
<1>2. Ordered'
  BY <1>1 DEF Ordered, InOrder
<1>3. QED
  BY <1>2 DEF FInv, Punctuality, Numbered, Arrived

LEMMA FifoKept == IInv /\ IInv' /\ FInv /\ [Next]_vars => FInv'
<1> SUFFICES ASSUME IInv, IInv', FInv, [Next]_vars PROVE FInv'
  OBVIOUS
<1>1. ASSUME NEW c \in Contexts, Submit(c) \/ AdmitRefused(c) PROVE FInv'
  <2>1. /\ due' = due /\ queue' = queue /\ arrival' = arrival
        /\ \A d \in Contexts : caller'[d] # "returned" => caller[d] # "returned"
    BY <1>1 DEF Submit, AdmitRefused, IInv, TypeOK
  <2>2. QED
    BY <2>1 DEF FInv, Punctuality, Numbered, Arrived, Ordered
<1>2. ASSUME NEW c \in Contexts, TimePasses(c) PROVE FInv'
  <2>1. /\ queue' = queue /\ arrival' = arrival /\ caller' = caller
        /\ \A d \in Contexts : due[d] => due'[d]
    BY <1>2 DEF TimePasses, IInv, TypeOK
  <2>2. QED
    BY <2>1 DEF FInv, Punctuality, Numbered, Arrived, Ordered
<1>3. CASE UNCHANGED <<due, queue, arrival, caller>>
  BY <1>3 DEF FInv, Punctuality, Numbered, Arrived, Ordered
<1>4. CASE Shutdown \/ Destroy
  BY <1>3, <1>4, FifoDrain DEF Shutdown, ShutdownFlag, ShutdownDrain, ShutdownUnpark, Destroy
<1>5. QED
  BY <1>1, <1>2, <1>3, <1>4, FifoAdmit, FifoStep, FifoCancel
  DEF Next, vars, Schedule, Step, StepBegin, StepPoll, StepEnter, StepExecute, StepLeave,
      YieldScript, ResumeScript, CancelYielded, SetConfig

(* What a step takes is the front of its queue, and who is queued with the same
   priority stands behind it. *)
LEMMA TakesFirst ==
    ASSUME IInv, FInv, NEW t \in Steppers, StepTake(t), hand'[t] \notin Delayed,
           NEW c \in Queued, c \notin Delayed, c # hand'[t], PriorityOf[c] = PriorityOf[hand'[t]]
    PROVE  arrival[hand'[t]] < arrival[c]
<1>1. PICK p \in Ready : hand' = [hand EXCEPT ![t] = Head(queue[p])]
  BY DEF StepTake
<1>2. /\ p \in Priorities /\ queue[p] # <<>>
      /\ queue[p] \in Seq(Contexts) /\ InOrder(queue[p], arrival)
      /\ hand'[t] = Head(queue[p])
  BY <1>1 DEF Ready, Waiting, IInv, TypeOK, FInv, Ordered
<1>3. Head(queue[p]) = queue[p][1] /\ 1 \in 1 .. Len(queue[p]) /\ Len(queue[p]) \in Nat
  BY <1>2, TailPicks, LenProperties
<1>4. c \in Members(queue)
  BY MembersQueued DEF IInv
<1>5. PICK q \in Priorities : \E i \in 1 .. Len(queue[q]) : queue[q][i] = c
  BY <1>4 DEF Members
<1>6. PriorityOf[queue[p][1]] = p /\ PriorityOf[c] = q
  BY <1>2, <1>3, <1>5 DEF IInv, QueuesSound, Sorted
<1>7. PICK i \in 1 .. Len(queue[p]) : queue[p][i] = c
  BY <1>2, <1>3, <1>5, <1>6
<1>8. 1 < i
  BY <1>2, <1>3, <1>7
<1>9. QED
  BY <1>2, <1>3, <1>7, <1>8 DEF InOrder

(* Scripts of one priority that are not delayed start in the order of their
   admissions, whatever is rotated or cancelled around them. *)
THEOREM InOrderOfArrival == Spec => ImmediateFifo
<1>1. ASSUME IInv, FInv, [Next]_vars
      PROVE  \A t \in Steppers :
                hand[t] = None /\ hand'[t] \in Contexts \ Delayed =>
                    \A c \in Queued \ (Delayed \cup {hand'[t]}) :
                        PriorityOf[c] = PriorityOf[hand'[t]] => arrival[hand'[t]] < arrival[c]
  <2> SUFFICES ASSUME NEW t \in Steppers, hand[t] = None, hand'[t] \in Contexts \ Delayed,
                      NEW c \in Queued \ (Delayed \cup {hand'[t]}),
                      PriorityOf[c] = PriorityOf[hand'[t]]
               PROVE  arrival[hand'[t]] < arrival[c]
    OBVIOUS
  <2>1. hand \in [Steppers -> Contexts \cup {None}] /\ None \notin Contexts
    BY <1>1, SchedulerAssumption DEF IInv, TypeOK
  <2>2. hand' # hand
    BY <2>1
  <2>3. \E u \in Steppers : StepTake(u) \/ StepLeave(u)
    BY <1>1, <2>2
    DEF Next, vars, Schedule, Submit, Admit, AdmitRefused, TimePasses, Step, StepBegin, StepPoll,
        StepFindsNothing, StepEnter, StepExecute, YieldScript, ResumeScript, CancelQueued,
        CancelYielded, SetConfig, Shutdown, ShutdownFlag, ShutdownDrain, ShutdownUnpark, Destroy
  <2>4. ~ (\E u \in Steppers : StepLeave(u))
    BY <2>1 DEF StepLeave
  <2>5. PICK u \in Steppers : StepTake(u)
    BY <2>3, <2>4
  <2>6. u = t
    BY <2>1, <2>5 DEF StepTake
  <2>7. QED
    BY <1>1, <2>5, <2>6, TakesFirst
<1>2. QED
  BY <1>1, FifoInit, FifoKept, Inductive, PTL DEF Spec, ImmediateFifo
================================================================================
