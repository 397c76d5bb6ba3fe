------------------------ MODULE CachingEmbedderProofs ------------------------
(***************************************************************************)
(* Proofs about CachingEmbedder, for any coroutines, texts, keys, calls    *)
(* and cache size, and any number of calls.                                *)
(*                                                                         *)
(* Kept says that the cache is the end of the recency; a hit and a store   *)
(* keep it, and so do the loops over a batch, by the least step at which   *)
(* they would not (Least).  What a call awaits is as Embed put it down     *)
(* (Begun).  CountedOnce counts: Whole is what all open gathers hold       *)
(* together, and Gains says that no action counts or holds more than was   *)
(* answered, and only one after which a call has raised less.              *)
(***************************************************************************)
EXTENDS CachingEmbedder, TLAPS, FiniteSetTheorems, SequenceTheorems, WellFoundedInduction

(* Sequences *)

\* A set of numbers that is not empty has a least one.
LEMMA Least ==
  ASSUME NEW T, T \subseteq Nat, T # {}
  PROVE  \E j \in T : \A k \in T : j <= k
<1>1. PICK j \in T : \A k \in T : <<k, j>> \notin OpToRel(<, Nat)
  BY NatLessThanWellFounded, WFMin
<1>2. \A k \in T : ~ (k < j)
  BY <1>1 DEF OpToRel
<1>3. QED
  BY <1>2

\* One element is taken out of a sequence.
LEMMA RemoveAtIs ==
  ASSUME NEW S, NEW s \in Seq(S), NEW i \in 1..Len(s)
  PROVE  RemoveAt(s, i) = [j \in 1..(Len(s) - 1) |-> IF j < i THEN s[j] ELSE s[j + 1]]
<1> DEFINE front == SubSeq(s, 1, i - 1)
           back == SubSeq(s, i + 1, Len(s))
<1>1. front \in Seq(S) /\ Len(front) = i - 1 /\ \A j \in 1..(i - 1) : front[j] = s[j]
  OBVIOUS
<1>2. back \in Seq(S) /\ Len(back) = Len(s) - i /\ \A j \in 1..(Len(s) - i) : back[j] = s[i + j]
  OBVIOUS
<1>3. RemoveAt(s, i) = front \o back
  BY DEF RemoveAt
<1> HIDE DEF front, back
<1>4. /\ front \o back \in Seq(S) /\ Len(front \o back) = Len(s) - 1
      /\ \A j \in 1..(Len(s) - 1) : (front \o back)[j] = IF j < i THEN s[j] ELSE s[j + 1]
  <2>1. Len(front) + Len(back) = Len(s) - 1
    BY <1>1, <1>2
  <2>2. /\ front \o back \in Seq(S) /\ Len(front \o back) = Len(s) - 1
        /\ \A j \in 1..(Len(s) - 1) :
             (front \o back)[j] = IF j <= Len(front) THEN front[j] ELSE back[j - Len(front)]
    <3>1. /\ front \o back \in Seq(S) /\ Len(front \o back) = Len(front) + Len(back)
          /\ \A j \in 1..(Len(front) + Len(back)) :
               (front \o back)[j] = IF j <= Len(front) THEN front[j] ELSE back[j - Len(front)]
      BY <1>1, <1>2, ConcatProperties, Zenon
    <3>2. QED
      BY <2>1, <3>1
  <2>3. QED
    BY <1>1, <1>2, <2>2
<1> DEFINE r == front \o back
<1> HIDE DEF r
<1>5. r \in Seq(S)
  BY <1>4 DEF r
<1>8. r = [j \in 1..Len(r) |-> r[j]]
  BY <1>5
<1>6. r = [j \in 1..(Len(s) - 1) |-> IF j < i THEN s[j] ELSE s[j + 1]]
  BY <1>4, <1>8 DEF r
<1>7. QED
  BY <1>3, <1>6 DEF r

\* What RemoveFirst takes out is an element there was.
LEMMA RemoveFirstIs ==
  ASSUME NEW S, NEW s \in Seq(S), NEW e, e \in ToSet(s)
  PROVE  \E i \in 1..Len(s) :
           /\ s[i] = e
           /\ RemoveFirst(s, e) = [j \in 1..(Len(s) - 1) |-> IF j < i THEN s[j] ELSE s[j + 1]]
<1> DEFINE I == {i \in 1..Len(s) : s[i] = e}
<1>1. I # {} /\ I \subseteq Nat
  BY DEF ToSet
<1>2. Min(I) \in I
  BY <1>1, Least DEF Min
<1>3. RemoveFirst(s, e) = RemoveAt(s, Min(I))
  BY <1>1 DEF RemoveFirst, SelectInSeq
<1>4. QED
  BY <1>2, <1>3, RemoveAtIs

\* One element is taken out and another put at the end.
LEMMA MovedLast ==
  ASSUME NEW S, NEW s \in Seq(S), NEW i \in 1..Len(s), NEW e \in S
  PROVE  /\ Append(RemoveAt(s, i), e) \in Seq(S)
         /\ Len(Append(RemoveAt(s, i), e)) = Len(s)
         /\ \A j \in 1..Len(s) :
              Append(RemoveAt(s, i), e)[j] =
                IF j < i THEN s[j] ELSE IF j < Len(s) THEN s[j + 1] ELSE e
<1> DEFINE r == RemoveAt(s, i)
<1>1. r = [j \in 1..(Len(s) - 1) |-> IF j < i THEN s[j] ELSE s[j + 1]]
  BY RemoveAtIs
<1> HIDE DEF r
<1>2. Len(s) \in Nat /\ i \in 1..Len(s) /\ \A j \in 1..Len(s) : s[j] \in S
  OBVIOUS
<1>3. r \in Seq(S) /\ Len(r) = Len(s) - 1 /\ \A j \in 1..(Len(s) - 1) : r[j] = IF j < i THEN s[j] ELSE s[j + 1]
  BY <1>1, <1>2
<1>4. /\ Append(r, e) \in Seq(S) /\ Len(Append(r, e)) = Len(r) + 1
      /\ \A j \in 1..Len(r) : Append(r, e)[j] = r[j]
      /\ Append(r, e)[Len(r) + 1] = e
  BY <1>3, AppendProperties
<1>5. QED
  BY <1>2, <1>3, <1>4 DEF r

\* Only the front of a cache that is too long goes.
LEMMA EvictIs ==
  ASSUME NEW S, NEW c \in Seq(S)
  PROVE  LET n == IF Len(c) < CacheSize THEN Len(c) ELSE CacheSize
         IN /\ Evict(c) \in Seq(S) /\ Len(Evict(c)) = n
            /\ \A j \in 1..n : Evict(c)[j] = c[Len(c) - n + j]
<1>1. Len(c) \in Nat /\ CacheSize \in Nat /\ \A j \in 1..Len(c) : c[j] \in S
  BY SizeAssumption
<1>2. CASE Len(c) > CacheSize
  <2>1. Evict(c) = SubSeq(c, 1 + (Len(c) - CacheSize), Len(c))
    BY <1>2 DEF Evict
  <2>2. QED
    BY <1>1, <1>2, <2>1, SubSeqProperties
<1>3. CASE ~(Len(c) > CacheSize)
  <2>1. Evict(c) = SubSeq(c, 1, Len(c))
    BY <1>1, <1>3 DEF Evict
  <2>2. Evict(c) = c
    BY <2>1, SubSeqFull
  <2>3. (IF Len(c) < CacheSize THEN Len(c) ELSE CacheSize) = Len(c)
    BY <1>1, <1>3
  <2>4. \A j \in 1..Len(c) : Len(c) - Len(c) + j = j
    BY <1>1
  <2>5. QED
    BY <1>1, <2>2, <2>3, <2>4
<1>4. QED
  BY <1>2, <1>3

----------------------------------------------------------------------------
(* The cache *)

\* How much of the recency the cache holds.
Room(r) == IF Len(r) < CacheSize THEN Len(r) ELSE CacheSize

Once(r) == \A i, j \in DOMAIN r : r[i] = r[j] => i = j

\* The cache holds the end of the recency, each key with a vector of its own.
Kept(m) ==
  /\ m = [cache |-> m.cache, recency |-> m.recency]
  /\ m.cache \in Seq(Texts \X Texts)
  /\ m.recency \in Seq(Texts)
  /\ Once(m.recency)
  /\ Len(m.cache) = Room(m.recency)
  /\ \A j \in DOMAIN m.cache :
       /\ m.cache[j][1] = m.recency[Len(m.recency) - Room(m.recency) + j]
       /\ KeyOf[m.cache[j][2]] = m.cache[j][1]

\* u is r with k moved from somewhere to the end.
Renewed(r, k, u) ==
  \E q \in 1..Len(r) :
    /\ r[q] = k /\ Len(u) = Len(r)
    /\ \A j \in 1..Len(r) : u[j] = IF j < q THEN r[j] ELSE IF j < Len(r) THEN r[j + 1] ELSE k

\* u is r with k, which r does not have, at the end.
Added(r, k, u) ==
  /\ \A i \in 1..Len(r) : r[i] # k
  /\ Len(u) = Len(r) + 1
  /\ \A j \in 1..Len(u) : u[j] = IF j <= Len(r) THEN r[j] ELSE k

\* A key that is used becomes the last one, wherever it was.
LEMMA UseLastIs ==
  ASSUME NEW r \in Seq(Texts), Once(r), NEW k \in Texts
  PROVE  /\ UseLast(r, k) \in Seq(Texts) /\ Once(UseLast(r, k))
         /\ Renewed(r, k, UseLast(r, k)) \/ Added(r, k, UseLast(r, k))
<1> DEFINE u == UseLast(r, k)
<1>1. CASE k \in ToSet(r)
  <2>1. PICK q \in 1..Len(r) : r[q] = k /\ RemoveFirst(r, k) = RemoveAt(r, q)
    BY <1>1, RemoveFirstIs, RemoveAtIs
  <2>2. u = Append(RemoveAt(r, q), k)
    BY <2>1 DEF UseLast
  <2> HIDE DEF u
  <2>3. /\ u \in Seq(Texts) /\ Len(u) = Len(r)
        /\ \A j \in 1..Len(r) : u[j] = IF j < q THEN r[j] ELSE IF j < Len(r) THEN r[j + 1] ELSE k
    BY <2>1, <2>2, MovedLast
  <2>4. Len(r) \in Nat /\ \A i, j \in 1..Len(r) : r[i] = r[j] => i = j
    BY DEF Once
  <2>5. ASSUME NEW i \in 1..Len(r), NEW j \in 1..Len(r), u[i] = u[j]
        PROVE  i = j
    BY <2>1, <2>3, <2>4, <2>5
  <2>6. Once(u)
    BY <2>3, <2>5 DEF Once
  <2>7. QED
    BY <2>1, <2>3, <2>6 DEF u, Renewed
<1>2. CASE k \notin ToSet(r)
  <2>1. \A i \in 1..Len(r) : r[i] # k
    BY <1>2 DEF ToSet
  <2>2. u = Append(r, k)
    BY <2>1 DEF UseLast, RemoveFirst
  <2> HIDE DEF u
  <2>3. /\ u \in Seq(Texts) /\ Len(u) = Len(r) + 1 /\ Len(r) \in Nat
        /\ \A j \in 1..Len(u) : u[j] = IF j <= Len(r) THEN r[j] ELSE k
    BY <2>2
  <2>4. Once(u)
    BY <2>1, <2>3 DEF Once
  <2>5. QED
    BY <2>1, <2>3, <2>4 DEF u, Added
<1>3. QED
  BY <1>1, <1>2

\* A key the cache holds stands once in it, where the recency has it.
LEMMA HeldWhere ==
  ASSUME NEW m, Kept(m), NEW k, k \in ToSet(Keys(m.cache))
  PROVE  /\ Place(m.cache, k) \in 1..Len(m.cache) /\ m.cache[Place(m.cache, k)][1] = k /\ k \in Texts
         /\ \A q \in 1..Len(m.recency) : m.recency[q] = k =>
              q = Len(m.recency) - Len(m.cache) + Place(m.cache, k)
<1> DEFINE p == Place(m.cache, k)
<1>1. \E i \in DOMAIN m.cache : m.cache[i][1] = k
  BY DEF ToSet, Keys
<1>2. p \in DOMAIN m.cache /\ m.cache[p][1] = k
  BY <1>1 DEF Place
<1> HIDE DEF p
<1>3. /\ p \in 1..Len(m.cache) /\ Len(m.cache) \in Nat /\ Len(m.recency) \in Nat
      /\ Len(m.cache) <= Len(m.recency) /\ m.cache[p] \in Texts \X Texts
  BY <1>2, SizeAssumption DEF Kept, Room
<1>4. k \in Texts
  BY <1>2, <1>3
<1>5. m.recency[Len(m.recency) - Len(m.cache) + p] = k
  BY <1>2, <1>3 DEF Kept
<1>6. \A q \in 1..Len(m.recency) : m.recency[q] = k => q = Len(m.recency) - Len(m.cache) + p
  BY <1>3, <1>5 DEF Kept, Once
<1>7. QED
  BY <1>2, <1>3, <1>4, <1>6 DEF p

\* A hit, or a store of a key that is there: its entry goes to the end of both.
LEMMA RenewKeeps ==
  ASSUME NEW m, Kept(m), NEW k, k \in ToSet(Keys(m.cache)), NEW v \in Texts, KeyOf[v] = k,
         NEW c, c = Append(RemoveAt(m.cache, Place(m.cache, k)), <<k, v>>)
  PROVE  /\ Kept([cache |-> c, recency |-> UseLast(m.recency, k)])
         /\ ToSet(Keys(m.cache)) \subseteq ToSet(Keys(c))
<1> DEFINE u == UseLast(m.recency, k)
           p == Place(m.cache, k)
           e == <<k, v>>
<1>1. /\ p \in 1..Len(m.cache) /\ k \in Texts
      /\ \A q \in 1..Len(m.recency) : m.recency[q] = k => q = Len(m.recency) - Len(m.cache) + p
  BY HeldWhere
<1>2. /\ m.cache \in Seq(Texts \X Texts) /\ m.recency \in Seq(Texts) /\ Once(m.recency)
      /\ Len(m.cache) \in Nat /\ Len(m.recency) \in Nat /\ Len(m.cache) = Room(m.recency)
      /\ DOMAIN m.cache = 1..Len(m.cache) /\ DOMAIN m.recency = 1..Len(m.recency)
      /\ Len(m.cache) <= Len(m.recency)
  BY SizeAssumption DEF Kept, Room
<1>3. e \in Texts \X Texts /\ e[1] = k /\ e[2] = v
  BY <1>1
<1>4. /\ c \in Seq(Texts \X Texts) /\ Len(c) = Len(m.cache)
      /\ \A j \in 1..Len(m.cache) :
           c[j] = IF j < p THEN m.cache[j] ELSE IF j < Len(m.cache) THEN m.cache[j + 1] ELSE e
  BY <1>1, <1>2, <1>3, MovedLast
<1>5. m.recency[Len(m.recency) - Len(m.cache) + p] = k
  BY <1>1, <1>2, HeldWhere DEF Kept
<1>6. u \in Seq(Texts) /\ Once(u) /\ (Renewed(m.recency, k, u) \/ Added(m.recency, k, u))
  BY <1>1, <1>2, UseLastIs
<1> DEFINE q == Len(m.recency) - Len(m.cache) + p
<1> HIDE DEF u, p, e
<1>7. q \in 1..Len(m.recency)
  BY <1>1, <1>2
<1>8. /\ Len(u) = Len(m.recency)
      /\ \A j \in 1..Len(m.recency) :
           u[j] = IF j < q THEN m.recency[j] ELSE IF j < Len(m.recency) THEN m.recency[j + 1] ELSE k
  BY <1>1, <1>5, <1>6, <1>7 DEF Renewed, Added
<1>9. Room(u) = Len(m.cache) /\ Len(u) - Room(u) = Len(m.recency) - Len(m.cache)
  BY <1>2, <1>8 DEF Room
<1>10. \A j \in 1..Len(m.cache) :
          /\ m.cache[j][1] = m.recency[Len(m.recency) - Len(m.cache) + j]
          /\ KeyOf[m.cache[j][2]] = m.cache[j][1]
  BY <1>2 DEF Kept
<1>11. ASSUME NEW j \in 1..Len(m.cache)
       PROVE  c[j][1] = u[Len(u) - Room(u) + j] /\ KeyOf[c[j][2]] = c[j][1]
  <2>1. Len(m.recency) - Len(m.cache) + j \in 1..Len(m.recency)
    BY <1>2
  <2>2. u[Len(u) - Room(u) + j] = IF j < p THEN m.recency[Len(m.recency) - Len(m.cache) + j]
          ELSE IF j < Len(m.cache) THEN m.recency[Len(m.recency) - Len(m.cache) + j + 1] ELSE k
    <3> DEFINE i == Len(m.recency) - Len(m.cache) + j
    <3>1. i \in 1..Len(m.recency) /\ Len(u) - Room(u) + j = i
      BY <1>2, <1>9, <2>1
    <3>2. (i < q <=> j < p) /\ (i < Len(m.recency) <=> j < Len(m.cache))
      BY <1>1, <1>2
    <3>3. u[i] = IF i < q THEN m.recency[i] ELSE IF i < Len(m.recency) THEN m.recency[i + 1] ELSE k
      BY <1>8, <3>1
    <3>4. QED
      BY <3>1, <3>2, <3>3
  <2>3. CASE j < p
    BY <1>1, <1>4, <1>10, <2>2, <2>3
  <2>4. CASE ~(j < p) /\ j < Len(m.cache)
    <3>1. /\ j + 1 \in 1..Len(m.cache)
          /\ Len(m.recency) - Len(m.cache) + j + 1 = Len(m.recency) - Len(m.cache) + (j + 1)
      BY <1>2, <2>4
    <3>2. c[j] = m.cache[j + 1]
      BY <1>4, <2>4
    <3>3. QED
      BY <1>10, <2>2, <2>4, <3>1, <3>2
  <2>5. CASE ~(j < p) /\ ~(j < Len(m.cache))
    BY <1>3, <1>4, <2>2, <2>5
  <2>6. QED
    BY <2>3, <2>4, <2>5
<1> DEFINE x == [cache |-> c, recency |-> u]
<1>12. x.cache = c /\ x.recency = u /\ x = [cache |-> x.cache, recency |-> x.recency]
  OBVIOUS
<1> HIDE DEF x
<1>13. DOMAIN c = 1..Len(m.cache)
  BY <1>2, <1>4
<1>14. Kept(x)
  BY <1>4, <1>6, <1>9, <1>11, <1>12, <1>13 DEF Kept
<1>15. ASSUME NEW i \in 1..Len(m.cache)
       PROVE  \E j \in 1..Len(m.cache) : c[j][1] = m.cache[i][1]
  <2>1. CASE i < p
    BY <1>4, <2>1
  <2>2. CASE i > p
    <3>1. /\ i - 1 \in 1..Len(m.cache) /\ ~(i - 1 < p) /\ i - 1 < Len(m.cache) /\ i - 1 + 1 = i
      BY <1>1, <1>2, <2>2
    <3>2. c[i - 1] = m.cache[i]
      BY <1>4, <3>1
    <3>3. QED
      BY <3>1, <3>2
  <2>3. CASE i = p
    <3>1. Len(m.cache) \in 1..Len(m.cache) /\ ~(Len(m.cache) < p) /\ ~(Len(m.cache) < Len(m.cache))
      BY <1>1, <1>2
    <3>2. c[Len(m.cache)] = e
      BY <1>4, <3>1
    <3>3. m.cache[i][1] = k
      BY <2>3, HeldWhere DEF p
    <3>4. QED
      BY <1>3, <3>1, <3>2, <3>3
  <2>4. i < p \/ i > p \/ i = p
    <3>1. p \in Nat /\ i \in Nat
      BY <1>1, <1>2
    <3>2. QED
      BY <3>1
  <2>5. QED
    BY <2>1, <2>2, <2>3, <2>4
<1>16. ToSet(Keys(m.cache)) \subseteq ToSet(Keys(c))
  <2>1. ToSet(Keys(m.cache)) = {m.cache[i][1] : i \in 1..Len(m.cache)}
    BY <1>2 DEF ToSet, Keys
  <2>2. ToSet(Keys(c)) = {c[i][1] : i \in 1..Len(m.cache)}
    BY <1>13 DEF ToSet, Keys
  <2>3. QED
    BY <1>15, <2>1, <2>2
<1>17. QED
  BY <1>14, <1>16 DEF x, u

\* A store of a key that is not there: it goes to the end of both, and what stood
\* longest in a full cache leaves it.
LEMMA NewKeeps ==
  ASSUME NEW m, Kept(m), NEW k \in Texts, k \notin ToSet(Keys(m.cache)), NEW v \in Texts, KeyOf[v] = k,
         NEW c, c = Evict(Append(m.cache, <<k, v>>)), CacheSize # 0
  PROVE  Kept([cache |-> c, recency |-> UseLast(m.recency, k)])
<1> DEFINE u == UseLast(m.recency, k)
           e == <<k, v>>
           n == Len(m.cache)
           l == Len(m.recency)
           full == Append(m.cache, e)
<1>1. /\ m.cache \in Seq(Texts \X Texts) /\ m.recency \in Seq(Texts) /\ Once(m.recency)
      /\ n \in Nat /\ l \in Nat /\ n = Room(m.recency) /\ n = Len(m.cache) /\ l = Len(m.recency)
      /\ DOMAIN m.cache = 1..n /\ DOMAIN m.recency = 1..l
      /\ n <= l /\ (n < l => n = CacheSize) /\ n <= CacheSize /\ CacheSize \in Nat
  BY SizeAssumption DEF Kept, Room
<1>2. e \in Texts \X Texts /\ e[1] = k /\ e[2] = v
  OBVIOUS
<1> HIDE DEF e, n, l
<1>3. /\ full \in Seq(Texts \X Texts) /\ Len(full) = n + 1
      /\ \A j \in 1..(n + 1) : full[j] = IF j <= n THEN m.cache[j] ELSE e
  BY <1>1, <1>2
<1> HIDE DEF full
<1>4. c = Evict(full)
  BY DEF full, e
<1> DEFINE room == IF n + 1 < CacheSize THEN n + 1 ELSE CacheSize
<1>14. room \in Nat /\ room <= n + 1 /\ room > 0 /\ (room = n + 1 \/ (room = n /\ n = CacheSize))
  BY <1>1
<1>15. room = IF Len(full) < CacheSize THEN Len(full) ELSE CacheSize
  BY <1>3
<1> HIDE DEF room
<1>16. room \in Nat /\ n \in Nat /\ l \in Nat
  BY <1>1, <1>14
<1>5. /\ c \in Seq(Texts \X Texts) /\ Len(c) = room
      /\ \A j \in 1..room : c[j] = full[n + 1 - room + j]
  <2>1. /\ Evict(full) \in Seq(Texts \X Texts) /\ Len(Evict(full)) = room
        /\ \A j \in 1..room : Evict(full)[j] = full[Len(full) - room + j]
    BY <1>3, <1>15, EvictIs
  <2>2. \A j \in 1..room : Len(full) - room + j = n + 1 - room + j
    BY <1>3, <1>16
  <2>3. QED
    BY <1>4, <2>1, <2>2
<1>6. \A j \in 1..n :
         /\ m.cache[j][1] = m.recency[l - n + j] /\ KeyOf[m.cache[j][2]] = m.cache[j][1]
         /\ m.recency[l - n + j] # k
  <2> SUFFICES ASSUME NEW j \in 1..n
               PROVE  /\ m.cache[j][1] = m.recency[l - n + j] /\ KeyOf[m.cache[j][2]] = m.cache[j][1]
                      /\ m.recency[l - n + j] # k
    OBVIOUS
  <2>1. m.cache[j][1] = m.recency[l - n + j] /\ KeyOf[m.cache[j][2]] = m.cache[j][1]
    BY <1>1 DEF Kept
  <2>2. m.cache[j][1] # k
    BY <1>1 DEF ToSet, Keys
  <2>3. QED
    BY <2>1, <2>2
<1>7. u \in Seq(Texts) /\ Once(u) /\ (Renewed(m.recency, k, u) \/ Added(m.recency, k, u))
  BY <1>1, UseLastIs
<1> HIDE DEF u
<1>8. /\ Len(u) \in Nat /\ Room(u) = room /\ room \in Nat
      /\ \A j \in 1..room : u[Len(u) - room + j] = IF j = room THEN k ELSE m.recency[l - room + j + 1]
  <2>1. CASE Renewed(m.recency, k, u)
    <3>1. PICK q \in 1..l : /\ m.recency[q] = k /\ Len(u) = l
                            /\ \A j \in 1..l : u[j] = IF j < q THEN m.recency[j] ELSE IF j < l THEN m.recency[j + 1] ELSE k
      BY <1>1, <2>1 DEF Renewed
    <3>a. l \in Nat /\ n \in Nat /\ n <= l /\ q \in 1..l
      BY <1>1
    <3>2. q <= l - n
      <4>1. \A j \in 1..n : q # l - n + j
        BY <1>6, <3>1
      <4>2. ~(q > l - n)
        <5> SUFFICES ASSUME q > l - n PROVE FALSE
          OBVIOUS
        <5>1. q - (l - n) \in 1..n /\ q = l - n + (q - (l - n))
          BY <3>a
        <5>2. QED
          BY <4>1, <5>1
      <4>3. QED
        BY <3>a, <4>2
    <3>3. n = CacheSize /\ room = n /\ room <= l
      BY <1>1, <1>14, <3>1, <3>2 DEF room
    <3>4. ASSUME NEW j \in 1..room
          PROVE  u[l - room + j] = IF j = room THEN k ELSE m.recency[l - room + j + 1]
      <4>1. /\ l - room + j \in 1..l /\ ~(l - room + j < q)
            /\ (l - room + j < l <=> j # room)
        BY <1>1, <3>2, <3>3
      <4>2. u[l - room + j] = IF l - room + j < l THEN m.recency[l - room + j + 1] ELSE k
        BY <3>1, <4>1
      <4>3. QED
        BY <4>1, <4>2
    <3>5. Room(u) = room
      BY <1>1, <3>1, <3>3 DEF Room
    <3>6. QED
      BY <1>1, <3>1, <3>3, <3>4, <3>5
  <2>2. CASE Added(m.recency, k, u)
    <3>1. /\ Len(u) = l + 1
          /\ \A j \in 1..(l + 1) : u[j] = IF j <= l THEN m.recency[j] ELSE k
      BY <1>1, <2>2 DEF Added
    <3>2. Room(u) = room /\ room \in Nat /\ room <= l + 1
      BY <1>1, <1>14, <3>1 DEF Room, room
    <3>3. ASSUME NEW j \in 1..room
          PROVE  u[l + 1 - room + j] = IF j = room THEN k ELSE m.recency[l - room + j + 1]
      <4>1. /\ l + 1 - room + j \in 1..(l + 1) /\ (l + 1 - room + j <= l <=> j # room)
            /\ l + 1 - room + j = l - room + j + 1
        BY <1>1, <3>2
      <4>2. QED
        BY <3>1, <4>1
    <3>4. QED
      BY <1>1, <3>1, <3>2, <3>3
  <2>3. QED
    BY <1>7, <2>1, <2>2
<1>9. ASSUME NEW j \in 1..room
      PROVE  c[j][1] = u[Len(u) - room + j] /\ KeyOf[c[j][2]] = c[j][1]
  <2>1. CASE j = room
    <3>1. n + 1 - room + j = n + 1 /\ n + 1 \in 1..(n + 1)
      BY <1>1, <1>14, <2>1
    <3>2. c[j] = e
      BY <1>3, <1>5, <1>16, <3>1
    <3>3. QED
      BY <1>2, <1>8, <2>1, <3>2
  <2>2. CASE j # room
    <3>1. n + 1 - room + j \in 1..n
      BY <1>1, <1>14, <2>2
    <3>2. c[j] = m.cache[n + 1 - room + j]
      <4> DEFINE i == n + 1 - room + j
      <4>1. i \in 1..(n + 1) /\ i <= n
        BY <1>16, <3>1
      <4>2. c[j] = full[i]
        BY <1>5
      <4> HIDE DEF i
      <4>3. c[j] = m.cache[i]
        BY <1>3, <4>1, <4>2
      <4>4. QED
        BY <4>3 DEF i
    <3>3. l - n + (n + 1 - room + j) = l - room + j + 1
      BY <1>16
    <3>4. QED
      BY <1>6, <1>8, <2>2, <3>1, <3>2, <3>3
  <2>3. QED
    BY <2>1, <2>2
<1> DEFINE x == [cache |-> c, recency |-> u]
<1>10. x.cache = c /\ x.recency = u /\ x = [cache |-> x.cache, recency |-> x.recency]
  OBVIOUS
<1> HIDE DEF x
<1>11. DOMAIN c = 1..room
  BY <1>5
<1>12. Kept(x)
  BY <1>5, <1>7, <1>8, <1>9, <1>10, <1>11 DEF Kept
<1>13. QED
  BY <1>12 DEF x, u

\* A hit.
LEMMA HitKeeps ==
  ASSUME NEW m, Kept(m), NEW k, k \in ToSet(Keys(m.cache))
  PROVE  Kept(Hit(m, k)) /\ ToSet(Keys(m.cache)) \subseteq ToSet(Keys(Hit(m, k).cache))
<1> DEFINE p == Place(m.cache, k)
           v == m.cache[p][2]
<1>1. p \in 1..Len(m.cache) /\ m.cache[p][1] = k
  BY HeldWhere
<1>2. v \in Texts /\ KeyOf[v] = k
  BY <1>1 DEF Kept
<1>3. MoveToEnd(m.cache, k) = Append(RemoveAt(m.cache, p), <<k, v>>)
  BY DEF MoveToEnd, Without, Cached
<1> HIDE DEF v
<1>4. /\ Kept([cache |-> MoveToEnd(m.cache, k), recency |-> UseLast(m.recency, k)])
      /\ ToSet(Keys(m.cache)) \subseteq ToSet(Keys(MoveToEnd(m.cache, k)))
  BY <1>2, <1>3, RenewKeeps
<1>5. Hit(m, k).cache = MoveToEnd(m.cache, k)
  BY DEF Hit
<1>6. QED
  BY <1>4, <1>5 DEF Hit

\* A vector that came, for a text of its own key.
LEMMA PutKeeps ==
  ASSUME NEW m, Kept(m), NEW k \in Texts, NEW v, v # NoText => v \in Texts /\ KeyOf[v] = k
  PROVE  Kept(Put(m, k, v))
<1>1. CASE v = NoText \/ CacheSize = 0
  BY <1>1 DEF Put
<1>2. CASE ~(v = NoText \/ CacheSize = 0)
  <2>1. Put(m, k, v) = [cache |-> Store(m.cache, k, v), recency |-> UseLast(m.recency, k)]
    BY <1>2 DEF Put
  <2>2. CASE k \in ToSet(Keys(m.cache))
    <3> DEFINE c == Append(RemoveAt(m.cache, Place(m.cache, k)), <<k, v>>)
    <3>1. Store(m.cache, k, v) = Evict(c)
      BY <2>2 DEF Store, Without
    <3>2. /\ Place(m.cache, k) \in 1..Len(m.cache)
          /\ m.cache \in Seq(Texts \X Texts) /\ <<k, v>> \in Texts \X Texts
      BY <1>2, <2>2, HeldWhere DEF Kept
    <3>3. c \in Seq(Texts \X Texts) /\ Len(c) = Len(m.cache)
      BY <3>2, MovedLast
    <3> HIDE DEF c
    <3>4. Len(c) \in Nat /\ Len(c) <= CacheSize /\ CacheSize \in Nat
      BY <3>3, SizeAssumption DEF Kept, Room
    <3>5. Evict(c) = SubSeq(c, 1, Len(c))
      <4>1. 1 + (IF Len(c) > CacheSize THEN Len(c) - CacheSize ELSE 0) = 1
        BY <3>4
      <4>2. QED
        BY <4>1 DEF Evict
    <3>6. Evict(c) = c
      BY <3>3, <3>5, SubSeqFull
    <3>7. QED
      BY <1>2, <2>1, <2>2, <3>1, <3>6, RenewKeeps DEF c
  <2>3. CASE k \notin ToSet(Keys(m.cache))
    <3>1. Store(m.cache, k, v) = Evict(Append(m.cache, <<k, v>>))
      BY <2>3 DEF Store, Without
    <3>2. QED
      BY <1>2, <2>1, <2>3, <3>1, NewKeeps
  <2>4. QED
    BY <2>2, <2>3
<1>3. QED
  BY <1>1, <1>2

\* What AfterHits computes, text by text.
HitsFrom(f, texts, l) ==
  f = [n \in 0..l |-> IF n = 0 THEN Memory
                      ELSE IF n \in Hits(texts) THEN Hit(f[n - 1], KeyOf[texts[n]])
                      ELSE f[n - 1]]

LEMMA AfterHitsIs ==
  ASSUME NEW texts, Len(texts) \in Nat
  PROVE  \E f : HitsFrom(f, texts, Len(texts)) /\ AfterHits(texts) = f[Len(texts)]
<1>1. \A l \in Nat : \E f : HitsFrom(f, texts, l)
  <2> DEFINE T == {l \in Nat : ~ \E f : HitsFrom(f, texts, l)}
  <2> SUFFICES ASSUME T # {} PROVE FALSE
    OBVIOUS
  <2>1. PICK l \in T : \A k \in T : l <= k
    <3>1. T \subseteq Nat
      OBVIOUS
    <3>2. QED
      BY <3>1, Least
  <2>2. CASE l = 0
    <3>1. HitsFrom([n \in 0..0 |-> Memory], texts, 0)
      BY DEF HitsFrom
    <3>2. QED
      BY <2>2, <3>1
  <2>3. CASE l # 0
    <3>1. l - 1 \in Nat /\ l \in Nat /\ l - 1 \notin T
      BY <2>1, <2>3
    <3>2. PICK f : HitsFrom(f, texts, l - 1)
      BY <3>1
    <3> DEFINE g == [n \in 0..l |-> IF n < l THEN f[n]
                                    ELSE IF n \in Hits(texts) THEN Hit(f[n - 1], KeyOf[texts[n]])
                                    ELSE f[n - 1]]
    <3>3. \A n \in 0..(l - 1) : f[n] = IF n = 0 THEN Memory
                                       ELSE IF n \in Hits(texts) THEN Hit(f[n - 1], KeyOf[texts[n]])
                                       ELSE f[n - 1]
      BY <3>2 DEF HitsFrom
    <3>4. \A n \in 0..l : n # 0 => n - 1 \in 0..(l - 1) /\ g[n - 1] = f[n - 1]
      BY <3>1
    <3>5. \A n \in 0..l : g[n] = IF n = 0 THEN Memory
                                 ELSE IF n \in Hits(texts) THEN Hit(g[n - 1], KeyOf[texts[n]])
                                 ELSE g[n - 1]
      <4> SUFFICES ASSUME NEW n \in 0..l
                   PROVE  g[n] = IF n = 0 THEN Memory
                                 ELSE IF n \in Hits(texts) THEN Hit(g[n - 1], KeyOf[texts[n]])
                                 ELSE g[n - 1]
        OBVIOUS
      <4>1. CASE n < l
        <5>1. n \in 0..(l - 1) /\ g[n] = f[n]
          BY <3>1, <4>1
        <5> HIDE DEF g
        <5>2. QED
          BY <3>3, <3>4, <5>1
      <4>2. CASE ~(n < l)
        <5>1. n = l /\ n # 0
          BY <2>3, <3>1, <4>2
        <5>2. g[n] = IF n \in Hits(texts) THEN Hit(f[n - 1], KeyOf[texts[n]]) ELSE f[n - 1]
          BY <4>2
        <5> HIDE DEF g
        <5>3. QED
          BY <3>4, <5>1, <5>2
      <4>3. QED
        BY <4>1, <4>2
    <3>6. g = [n \in 0..l |-> g[n]]
      OBVIOUS
    <3> HIDE DEF g
    <3>7. HitsFrom(g, texts, l)
      BY <3>5, <3>6 DEF HitsFrom
    <3>8. QED
      BY <2>1, <3>7
  <2>4. QED
    BY <2>2, <2>3
<1> DEFINE f == CHOOSE f : HitsFrom(f, texts, Len(texts))
<1>2. HitsFrom(f, texts, Len(texts))
  BY <1>1
<1>3. AfterHits(texts) = f[Len(texts)]
  BY DEF AfterHits, HitsFrom
<1>4. QED
  BY <1>2, <1>3

\* The hits of a call leave the cache as it should be.
LEMMA HitsKeep ==
  ASSUME Kept(Memory), NEW texts \in Seq(Texts \cup {NoText})
  PROVE  Kept(AfterHits(texts))
<1>1. Len(texts) \in Nat
  OBVIOUS
<1>2. PICK f : HitsFrom(f, texts, Len(texts)) /\ AfterHits(texts) = f[Len(texts)]
  BY <1>1, AfterHitsIs
<1>3. \A n \in 0..Len(texts) :
         f[n] = IF n = 0 THEN Memory
                ELSE IF n \in Hits(texts) THEN Hit(f[n - 1], KeyOf[texts[n]])
                ELSE f[n - 1]
  BY <1>2 DEF HitsFrom
<1> DEFINE Fine(n) == Kept(f[n]) /\ ToSet(Keys(cache)) \subseteq ToSet(Keys(f[n].cache))
           T == {n \in 0..Len(texts) : ~Fine(n)}
<1>4. ASSUME T # {} PROVE FALSE
  <2>1. T \subseteq Nat
    OBVIOUS
  <2>2. PICK n \in T : \A k \in T : n <= k
    BY <1>4, <2>1, Least
  <2>3. n # 0
    <3>1. Memory.cache = cache
      BY DEF Memory
    <3>2. Fine(0)
      BY <1>1, <1>3, <3>1
    <3>3. QED
      BY <3>2
  <2>4. n - 1 \in 0..Len(texts) /\ n \in 0..Len(texts) /\ ~(n <= n - 1)
    BY <1>1, <2>2, <2>3
  <2>5. Fine(n - 1)
    BY <2>2, <2>4
  <2>6. CASE n \in Hits(texts)
    <3>1. KeyOf[texts[n]] \in ToSet(Keys(f[n - 1].cache))
      BY <2>5, <2>6 DEF Hits
    <3>2. f[n] = Hit(f[n - 1], KeyOf[texts[n]])
      BY <1>3, <2>3, <2>4, <2>6
    <3>3. Fine(n)
      BY <2>5, <3>1, <3>2, HitKeeps
    <3>4. QED
      BY <2>2, <3>3
  <2>7. CASE n \notin Hits(texts)
    <3>1. f[n] = f[n - 1]
      BY <1>3, <2>3, <2>4, <2>7
    <3>2. QED
      BY <2>2, <2>5, <3>1
  <2>8. QED
    BY <2>6, <2>7
<1>5. QED
  BY <1>1, <1>2, <1>4

\* What AfterStores computes, text by text.
StoresFrom(f, c, vecs, l) ==
  f = [n \in 0..l |-> IF n = 0 THEN Memory
                      ELSE IF n \in c.sent THEN Put(f[n - 1], KeyOf[c.texts[n]], vecs[n])
                      ELSE f[n - 1]]

LEMMA AfterStoresIs ==
  ASSUME NEW c, NEW vecs, Len(c.texts) \in Nat
  PROVE  \E f : StoresFrom(f, c, vecs, Len(c.texts)) /\ AfterStores(c, vecs) = f[Len(c.texts)]
<1>1. \A l \in Nat : \E f : StoresFrom(f, c, vecs, l)
  <2> DEFINE T == {l \in Nat : ~ \E f : StoresFrom(f, c, vecs, l)}
  <2> SUFFICES ASSUME T # {} PROVE FALSE
    OBVIOUS
  <2>1. PICK l \in T : \A k \in T : l <= k
    <3>1. T \subseteq Nat
      OBVIOUS
    <3>2. QED
      BY <3>1, Least
  <2>2. CASE l = 0
    <3>1. StoresFrom([n \in 0..0 |-> Memory], c, vecs, 0)
      BY DEF StoresFrom
    <3>2. QED
      BY <2>2, <3>1
  <2>3. CASE l # 0
    <3>1. l - 1 \in Nat /\ l \in Nat /\ l - 1 \notin T
      BY <2>1, <2>3
    <3>2. PICK f : StoresFrom(f, c, vecs, l - 1)
      BY <3>1
    <3> DEFINE g == [n \in 0..l |-> IF n < l THEN f[n]
                                    ELSE IF n \in c.sent THEN Put(f[n - 1], KeyOf[c.texts[n]], vecs[n])
                                    ELSE f[n - 1]]
    <3>3. \A n \in 0..(l - 1) : f[n] = IF n = 0 THEN Memory
                                       ELSE IF n \in c.sent THEN Put(f[n - 1], KeyOf[c.texts[n]], vecs[n])
                                       ELSE f[n - 1]
      BY <3>2 DEF StoresFrom
    <3>4. \A n \in 0..l : n # 0 => n - 1 \in 0..(l - 1) /\ g[n - 1] = f[n - 1]
      BY <3>1
    <3>5. \A n \in 0..l : g[n] = IF n = 0 THEN Memory
                                 ELSE IF n \in c.sent THEN Put(g[n - 1], KeyOf[c.texts[n]], vecs[n])
                                 ELSE g[n - 1]
      <4> SUFFICES ASSUME NEW n \in 0..l
                   PROVE  g[n] = IF n = 0 THEN Memory
                                 ELSE IF n \in c.sent THEN Put(g[n - 1], KeyOf[c.texts[n]], vecs[n])
                                 ELSE g[n - 1]
        OBVIOUS
      <4>1. CASE n < l
        <5>1. n \in 0..(l - 1) /\ g[n] = f[n]
          BY <3>1, <4>1
        <5> HIDE DEF g
        <5>2. QED
          BY <3>3, <3>4, <5>1
      <4>2. CASE ~(n < l)
        <5>1. n = l /\ n # 0
          BY <2>3, <3>1, <4>2
        <5>2. g[n] = IF n \in c.sent THEN Put(f[n - 1], KeyOf[c.texts[n]], vecs[n]) ELSE f[n - 1]
          BY <4>2
        <5> HIDE DEF g
        <5>3. QED
          BY <3>4, <5>1, <5>2
      <4>3. QED
        BY <4>1, <4>2
    <3>6. g = [n \in 0..l |-> g[n]]
      OBVIOUS
    <3> HIDE DEF g
    <3>7. StoresFrom(g, c, vecs, l)
      BY <3>5, <3>6 DEF StoresFrom
    <3>8. QED
      BY <2>1, <3>7
  <2>4. QED
    BY <2>2, <2>3
<1> DEFINE f == CHOOSE f : StoresFrom(f, c, vecs, Len(c.texts))
<1>2. StoresFrom(f, c, vecs, Len(c.texts))
  BY <1>1
<1>3. AfterStores(c, vecs) = f[Len(c.texts)]
  BY DEF AfterStores, StoresFrom
<1>4. QED
  BY <1>2, <1>3

\* So do the vectors of a call that each belong to their text's key.
LEMMA StoresKeep ==
  ASSUME Kept(Memory), NEW c, NEW vecs, c.texts \in Seq(Texts \cup {NoText}),
         \A n \in c.sent : n \in DOMAIN c.texts /\ c.texts[n] # NoText,
         \A n \in c.sent : vecs[n] # NoText => vecs[n] \in Texts /\ KeyOf[vecs[n]] = KeyOf[c.texts[n]]
  PROVE  Kept(AfterStores(c, vecs))
<1>1. Len(c.texts) \in Nat
  OBVIOUS
<1>2. PICK f : StoresFrom(f, c, vecs, Len(c.texts)) /\ AfterStores(c, vecs) = f[Len(c.texts)]
  BY <1>1, AfterStoresIs
<1>3. \A n \in 0..Len(c.texts) :
         f[n] = IF n = 0 THEN Memory
                ELSE IF n \in c.sent THEN Put(f[n - 1], KeyOf[c.texts[n]], vecs[n])
                ELSE f[n - 1]
  BY <1>2 DEF StoresFrom
<1> DEFINE T == {n \in 0..Len(c.texts) : ~Kept(f[n])}
<1>4. ASSUME T # {} PROVE FALSE
  <2>1. T \subseteq Nat
    OBVIOUS
  <2>2. PICK n \in T : \A k \in T : n <= k
    BY <1>4, <2>1, Least
  <2>3. n # 0
    <3>1. f[0] = Memory
      BY <1>1, <1>3
    <3>2. QED
      BY <2>2, <3>1
  <2>4. n - 1 \in 0..Len(c.texts) /\ n \in 0..Len(c.texts) /\ ~(n <= n - 1)
    BY <1>1, <2>2, <2>3
  <2>5. Kept(f[n - 1])
    BY <2>2, <2>4
  <2>6. CASE n \in c.sent
    <3>1. f[n] = Put(f[n - 1], KeyOf[c.texts[n]], vecs[n])
      BY <1>3, <2>3, <2>4, <2>6
    <3>2. KeyOf[c.texts[n]] \in Texts
      BY <2>6, TextsAssumption
    <3>3. Kept(f[n])
      BY <2>5, <2>6, <3>1, <3>2, PutKeeps
    <3>4. QED
      BY <2>2, <3>3
  <2>7. CASE n \notin c.sent
    <3>1. f[n] = f[n - 1]
      BY <1>3, <2>3, <2>4, <2>7
    <3>2. QED
      BY <2>2, <2>5, <3>1
  <2>8. QED
    BY <2>6, <2>7
<1>5. QED
  BY <1>1, <1>2, <1>4

----------------------------------------------------------------------------
(* Ranks *)

\* The texts sent are numbered 1, 2, ... by their ranks.
LEMMA Ranks ==
  ASSUME NEW l \in Nat, NEW S \in SUBSET (1..l)
  PROVE  /\ IsFiniteSet(S) /\ Cardinality(S) \in Nat
         /\ \A i \in S : Rank(S, i) \in 1..Cardinality(S) /\ Nth(S, Rank(S, i)) = i
<1> DEFINE upto(i) == {j \in S : j <= i}
<1>1. IsFiniteSet(S) /\ Cardinality(S) \in Nat /\ S \subseteq Nat
  <2>1. IsFiniteSet(1..l)
    BY FS_Interval
  <2>2. IsFiniteSet(S)
    BY <2>1, FS_Subset
  <2>3. Cardinality(S) \in Nat
    BY <2>2, FS_CardinalityType
  <2>4. S \subseteq Nat
    OBVIOUS
  <2>5. QED
    BY <2>2, <2>3, <2>4
<1>2. ASSUME NEW i \in S
      PROVE  IsFiniteSet(upto(i)) /\ Rank(S, i) \in 1..Cardinality(S)
  <2>1. upto(i) \in SUBSET S /\ i \in upto(i)
    BY <1>1
  <2>2. IsFiniteSet(upto(i)) /\ Cardinality(upto(i)) <= Cardinality(S)
    BY <1>1, <2>1, FS_Subset
  <2>3. Cardinality(upto(i)) \in Nat /\ Cardinality(upto(i)) # 0
    BY <2>1, <2>2, FS_CardinalityType, FS_EmptySet
  <2>4. QED
    BY <1>1, <2>2, <2>3 DEF Rank
<1>3. ASSUME NEW i \in S, NEW j \in S, i < j
      PROVE  Rank(S, i) < Rank(S, j)
  <2>1. upto(i) \in SUBSET (upto(j) \ {j}) /\ j \in upto(j)
    <3>1. i \in Nat /\ j \in Nat /\ \A k \in S : k \in Nat
      BY <1>1
    <3>2. \A k \in S : k <= i => k <= j /\ k # j
      BY <1>3, <3>1
    <3>3. \A k \in upto(i) : k \in upto(j) \ {j}
      BY <3>2
    <3>4. j \in upto(j)
      BY <3>1
    <3> HIDE DEF upto
    <3>5. QED
      BY <3>3, <3>4
  <2>2. IsFiniteSet(upto(j)) /\ IsFiniteSet(upto(i)) /\ Cardinality(upto(j)) \in Nat /\ Cardinality(upto(i)) \in Nat
    BY <1>2, FS_CardinalityType
  <2>3. IsFiniteSet(upto(j) \ {j}) /\ Cardinality(upto(j) \ {j}) = Cardinality(upto(j)) - 1
    BY <2>1, <2>2, FS_RemoveElement
  <2>4. Cardinality(upto(i)) <= Cardinality(upto(j) \ {j})
    BY <2>1, <2>3, FS_Subset
  <2>5. QED
    BY <2>2, <2>3, <2>4 DEF Rank
<1>4. ASSUME NEW i \in S, NEW j \in S, Rank(S, i) = Rank(S, j)
      PROVE  i = j
  <2>1. Rank(S, i) \in Nat
    <3>1. Rank(S, i) \in 1..Cardinality(S)
      BY <1>2
    <3>2. QED
      BY <1>1, <3>1
  <2>4. ~(i < j) /\ ~(j < i)
    <3>1. ~(Rank(S, i) < Rank(S, j)) /\ ~(Rank(S, j) < Rank(S, i))
      BY <1>4, <2>1
    <3>2. QED
      BY <1>3, <3>1
  <2>2. i \in Nat /\ j \in Nat
    BY <1>1
  <2>3. QED
    BY <2>2, <2>4
<1>5. QED
  BY <1>1, <1>2, <1>4 DEF Nth

\* What Named makes of a response that pairs each place with its own vector or none.
LEMMA NamedIs ==
  ASSUME NEW l \in Nat, NEW c, c.sent \in SUBSET (1..l), NEW v,
         \A p \in 1..Cardinality(c.sent) : v[p] \in {NoVector, p}
  PROVE  \A i \in c.sent :
           /\ Named(c, v)[i] \in {NoText, c.texts[i]}
           /\ (\A p \in 1..Cardinality(c.sent) : v[p] # NoVector) => Named(c, v)[i] = c.texts[i]
<1> SUFFICES ASSUME NEW i \in c.sent
             PROVE  /\ Named(c, v)[i] \in {NoText, c.texts[i]}
                    /\ (\A p \in 1..Cardinality(c.sent) : v[p] # NoVector) => Named(c, v)[i] = c.texts[i]
  OBVIOUS
<1>1. Rank(c.sent, i) \in 1..Cardinality(c.sent) /\ Nth(c.sent, Rank(c.sent, i)) = i
  BY Ranks
<1>2. Named(c, v)[i] = IF v[Rank(c.sent, i)] = NoVector THEN NoText
                       ELSE c.texts[Nth(c.sent, v[Rank(c.sent, i)])]
  BY DEF Named
<1>3. QED
  BY <1>1, <1>2

----------------------------------------------------------------------------
(* The pairing of a response *)

\* A set of numbers that is not empty and has a bound has a greatest one.
LEMMA Greatest ==
  ASSUME NEW n \in Nat, NEW T \in SUBSET (1..n), T # {}
  PROVE  \E j \in T : \A k \in T : k <= j
<1> DEFINE U == {n - k : k \in T}
<1>1. U \subseteq Nat /\ U # {}
  <2>1. \A k \in T : n - k \in Nat
    OBVIOUS
  <2>2. PICK k : k \in T
    OBVIOUS
  <2>3. n - k \in U
    BY <2>2
  <2>4. QED
    BY <2>1, <2>3
<1>2. PICK u \in U : \A w \in U : u <= w
  BY <1>1, Least
<1>3. PICK j \in T : u = n - j
  OBVIOUS
<1>4. \A k \in T : n - j <= n - k
  BY <1>2, <1>3
<1>5. QED
  BY <1>4

\* Numbers from 1 to n that grow n times are 1, 2, ..., n.
LEMMA Growing ==
  ASSUME NEW n \in Nat, NEW f \in [1..n -> 1..n],
         \A i, j \in 1..n : i < j => f[i] < f[j]
  PROVE  \A i \in 1..n : f[i] = i
<1> DEFINE L == {i \in 1..n : f[i] < i}
           G == {i \in 1..n : f[i] > i}
<1>1. ASSUME L # {} PROVE FALSE
  <2>1. PICK i \in L : \A k \in L : i <= k
    <3>1. L \subseteq Nat
      OBVIOUS
    <3>2. QED
      BY <1>1, <3>1, Least
  <2>2. i \in 1..n /\ f[i] \in 1..n /\ f[i] < i
    OBVIOUS
  <2>3. i - 1 \in 1..n /\ i - 1 < i
    BY <2>2
  <2>4. f[i - 1] < f[i] /\ f[i - 1] \in 1..n
    BY <2>2, <2>3
  <2>5. i - 1 \in L
    BY <2>2, <2>3, <2>4
  <2>6. QED
    BY <2>1, <2>2, <2>5
<1>2. ASSUME G # {} PROVE FALSE
  <2>1. PICK i \in G : \A k \in G : k <= i
    <3>1. G \in SUBSET (1..n)
      OBVIOUS
    <3>2. QED
      BY <1>2, <3>1, Greatest
  <2>2. i \in 1..n /\ f[i] \in 1..n /\ f[i] > i
    OBVIOUS
  <2>3. i + 1 \in 1..n /\ i < i + 1
    BY <2>2
  <2>4. f[i] < f[i + 1] /\ f[i + 1] \in 1..n
    BY <2>2, <2>3
  <2>5. i + 1 \in G
    BY <2>2, <2>3, <2>4
  <2>6. QED
    BY <2>1, <2>2, <2>5
<1>3. QED
  BY <1>1, <1>2

\* An item, and the vector it brings.
LEMMA ItemIs ==
  ASSUME NEW n \in Nat, NEW item \in Items(n)
  PROVE  /\ item.of \in 1..n
         /\ Vector(item) \in {NoVector, item.of}
BY DEF Items, Vector

\* The providers without indexes answer each text with its own vector, or none.
LEMMA OrderedOutcome ==
  ASSUME NEW n \in Nat, NEW way, way # "by index", NEW v \in Outcomes(way, n)
  PROVE  \A i \in 1..n : v[i] \in {NoVector, i}
<1>1. PICK s \in OrderedResponses(n) : v = ByOrder(n, s)
  BY DEF Outcomes
<1>2. PICK l \in 0..n : s \in [1..l -> Items(n)] /\ \A i \in DOMAIN s : s[i].of = i
  BY DEF OrderedResponses, BoundedSeq, SeqOf
<1>3. QED
  <2> SUFFICES ASSUME NEW i \in 1..n
               PROVE  v[i] \in {NoVector, i}
    OBVIOUS
  <2>1. v[i] = IF i \in DOMAIN s THEN Vector(s[i]) ELSE NoVector
    BY <1>1 DEF ByOrder
  <2>2. ASSUME i \in DOMAIN s
        PROVE  Vector(s[i]) \in {NoVector, i}
    <3>1. s[i] \in Items(n) /\ s[i].of = i
      BY <1>2, <2>2
    <3>2. QED
      BY <3>1, ItemIs
  <2>3. QED
    BY <2>1, <2>2

\* An index-pairing embedder that does not refuse a response has every text's own
\* vector: no dropped, repeated or unlabelled item can hide behind another.
LEMMA NoneHides ==
  ASSUME NEW n \in Nat, NEW s, s \in IndexedResponses(n), NEW v, v = ByIndex(n, s), ~Refused(v)
  PROVE  \A i \in 1..n : v[i] = i
<1>1. PICK l \in 0..n : s \in [1..l -> Items(n)]
  BY DEF IndexedResponses, BoundedSeq, SeqOf
<1>2. l \in Nat /\ l <= n /\ DOMAIN s = 1..l /\ \A a \in 1..l : s[a] \in Items(n) /\ s[a].of \in 1..n
  <2>1. l \in Nat /\ l <= n
    OBVIOUS
  <2>2. DOMAIN s = 1..l /\ \A a \in 1..l : s[a] \in Items(n)
    BY <1>1
  <2>3. \A a \in 1..l : s[a].of \in 1..n
    BY <2>2, ItemIs
  <2>4. QED
    BY <2>1, <2>2, <2>3
<1> DEFINE said(i) == {a \in DOMAIN s : Position(s, a) = i}
           last(i) == CHOOSE a \in said(i) : \A b \in said(i) : b <= a
<1>3. DOMAIN v = 1..n /\ \A i \in 1..n : v[i] = IF said(i) = {} THEN NoVector ELSE Vector(s[last(i)])
  BY DEF ByIndex
<1>4. ASSUME NEW i \in 1..n
      PROVE  /\ last(i) \in 1..l /\ Position(s, last(i)) = i
             /\ v[i] = s[last(i)].of
  <2>1. v[i] # NoVector
    BY <1>3 DEF Refused
  <2>2. said(i) # {} /\ v[i] = Vector(s[last(i)])
    BY <1>3, <2>1
  <2>3. said(i) \in SUBSET (1..l)
    BY <1>2
  <2>4. \E a \in said(i) : \A b \in said(i) : b <= a
    BY <1>2, <2>2, <2>3, Greatest
  <2>5. last(i) \in said(i)
    BY <2>4
  <2>6. last(i) \in 1..l /\ Position(s, last(i)) = i
    BY <1>2, <2>5
  <2>7. Vector(s[last(i)]) \in {NoVector, s[last(i)].of}
    BY <1>2, <2>6, ItemIs
  <2>8. QED
    BY <2>1, <2>2, <2>6, <2>7
<1> HIDE DEF said, last
<1>5. CASE \A a \in 1..l : s[a].label = "index"
  BY <1>4, <1>5 DEF Position
<1>6. CASE \E a \in 1..l : s[a].label # "index"
  <2>1. \A a, b \in 1..l : a < b => s[a].of < s[b].of
    BY <1>2, <1>6 DEF IndexedResponses, Increasing
  <2>2. l = n
    <3> SUFFICES ASSUME l < n PROVE FALSE
      <4>1. l \in Nat /\ n \in Nat /\ l <= n
        BY <1>2
      <4>2. QED
        BY <4>1
    <3> DEFINE f == [i \in 1..n |-> last(i)]
    <3>1. f \in [1..n -> 1..l]
      BY <1>4
    <3>2. /\ IsFiniteSet(1..n) /\ IsFiniteSet(1..l)
          /\ Cardinality(1..l) < Cardinality(1..n)
      <4>1. l \in Nat /\ n \in Nat /\ l < n /\ 1 \in Int /\ l \in Int /\ n \in Int
        BY <1>2
      <4>2. IsFiniteSet(1..n) /\ Cardinality(1..n) = IF 1 > n THEN 0 ELSE n - 1 + 1
        BY <4>1, FS_Interval
      <4>3. IsFiniteSet(1..l) /\ Cardinality(1..l) = IF 1 > l THEN 0 ELSE l - 1 + 1
        BY <4>1, FS_Interval
      <4>4. QED
        BY <4>1, <4>2, <4>3
    <3> HIDE DEF f
    <3>3. PICK i, j \in 1..n : i # j /\ f[i] = f[j]
      BY <3>1, <3>2, FS_PigeonHole
    <3>4. last(i) = last(j)
      BY <3>3 DEF f
    <3>5. QED
      BY <1>4, <3>3, <3>4
  <2>3. \A a \in 1..n : s[a].of = a
    <3> DEFINE f == [a \in 1..n |-> s[a].of]
    <3>1. f \in [1..n -> 1..n] /\ \A a, b \in 1..n : a < b => f[a] < f[b]
      BY <1>2, <2>1, <2>2
    <3>2. \A a \in 1..n : f[a] = s[a].of
      OBVIOUS
    <3> HIDE DEF f
    <3>3. \A a \in 1..n : f[a] = a
      BY <3>1, Growing
    <3>4. QED
      BY <3>2, <3>3
  <2>4. ASSUME NEW i \in 1..n
        PROVE  v[i] = i
    <3>1. Position(s, last(i)) \in {last(i), 0}
      BY <1>4, <2>2, <2>3 DEF Position
    <3>2. i # 0 /\ last(i) = i
      <4>1. i # 0 /\ Position(s, last(i)) = i
        BY <1>4
      <4>2. QED
        BY <3>1, <4>1
    <3>3. QED
      BY <1>4, <2>3, <3>2
  <2>5. QED
    BY <2>4
<1>7. QED
  BY <1>5, <1>6

LEMMA IndexedOutcome ==
  ASSUME NEW n \in Nat, NEW v, v \in Outcomes("by index", n), ~Refused(v)
  PROVE  \A i \in 1..n : v[i] = i
<1>1. PICK s : s \in IndexedResponses(n) /\ v = ByIndex(n, s)
  BY DEF Outcomes
<1>2. QED
  BY <1>1, NoneHides

----------------------------------------------------------------------------
(* The invariant *)

Nonempty(texts) == {i \in DOMAIN texts : texts[i] # NoText}

\* What text i of the call may be answered: a vector of its own key, or nothing.
Fits(texts, i, v) == v # NoText => texts[i] # NoText /\ v \in Texts /\ KeyOf[v] = KeyOf[texts[i]]

\* A call in progress: what was missed is asked for, the rest is answered, and only
\* a gather has answers already.
Begun(c) ==
  /\ c = [texts |-> c.texts, out |-> c.out, sent |-> c.sent,
          got |-> c.got, tokens |-> c.tokens, gather |-> c.gather]
  /\ \E a \in Asks : c.texts = a.texts
  /\ c.sent # {} /\ c.sent \subseteq Nonempty(c.texts)
  /\ DOMAIN c.out = DOMAIN c.texts
  /\ \A i \in DOMAIN c.texts : Fits(c.texts, i, c.out[i])
  /\ \A i \in Nonempty(c.texts) \ c.sent : c.out[i] # NoText
  /\ c.got \subseteq c.sent
  /\ c.tokens \in Nat
  /\ c.gather \in BOOLEAN
  /\ ~c.gather => c.got = {} /\ c.tokens = 0

CallsBegun ==
  /\ call = [t \in Tasks |-> call[t]]
  /\ \A t \in Tasks : call[t] = Idle \/ Begun(call[t])
  /\ \A t \in Tasks : call[t] # Idle => (call[t].gather => inner \in Gathers)

Returned ==
  /\ \A i \in DOMAIN returned.texts : Fits(returned.texts, i, returned.vecs[i])
  /\ EveryTextOrError

Meter == [calls : Nat, tokens : Nat]

Metered ==
  /\ usage \in Meter /\ billed \in Meter /\ raised \in BOOLEAN
  /\ orphans \in Nat /\ begun \in Nat
  /\ orphans > 0 => raised
  /\ CountedOnce

Inv ==
  /\ inner \in Inner
  /\ Kept(Memory)
  /\ CallsBegun
  /\ Returned
  /\ Metered

----------------------------------------------------------------------------
(* What the open gathers hold *)

\* The parts of all tasks, each under its task's name.
Whole(P) == UNION {{u} \X P[u] : u \in DOMAIN P}

\* Finitely many finite parts make a finite whole.
LEMMA WholeFinite ==
  ASSUME NEW U, IsFiniteSet(U), NEW P, DOMAIN P = U, \A u \in U : IsFiniteSet(P[u])
  PROVE  IsFiniteSet(Whole(P)) /\ Cardinality(Whole(P)) \in Nat
<1> DEFINE S == {{u} \X P[u] : u \in U}
           f == [u \in U |-> {u} \X P[u]]
<1>1. f \in Surjection(U, S)
  BY DEF Surjection
<1>2. \A u \in U : IsFiniteSet({u} \X P[u])
  BY FS_Singleton, FS_Product
<1>3. \A T \in S : IsFiniteSet(T)
  BY <1>2
<1>4. Whole(P) = UNION S
  BY DEF Whole
<1> HIDE DEF S, f
<1>5. IsFiniteSet(S)
  BY <1>1, FS_Surjection
<1>6. IsFiniteSet(UNION S)
  BY <1>3, <1>5, FS_UNION
<1>7. QED
  BY <1>4, <1>6, FS_CardinalityType

\* One part weighs what it counts.
LEMMA PartWeighs ==
  ASSUME NEW u, NEW S, IsFiniteSet(S)
  PROVE  IsFiniteSet({u} \X S) /\ Cardinality({u} \X S) = Cardinality(S)
<1>1. IsFiniteSet({u}) /\ Cardinality({u}) = 1
  BY FS_Singleton
<1>2. IsFiniteSet({u} \X S) /\ Cardinality({u} \X S) = Cardinality({u}) * Cardinality(S)
  BY <1>1, FS_Product
<1>3. Cardinality(S) \in Nat
  BY FS_CardinalityType
<1>4. Cardinality({u} \X S) = 1 * Cardinality(S)
  BY <1>1, <1>2
<1>5. 1 * Cardinality(S) = Cardinality(S)
  BY <1>3
<1>6. QED
  BY <1>2, <1>4, <1>5

\* The part of one task can be told from the others'.
LEMMA PartOff ==
  ASSUME NEW U, IsFiniteSet(U), NEW P, DOMAIN P = U, \A u \in U : IsFiniteSet(P[u]), NEW t \in U
  PROVE  LET rest == UNION {{u} \X P[u] : u \in U \ {t}}
         IN /\ Cardinality(rest) \in Nat
            /\ Cardinality(Whole(P)) = Cardinality(rest) + Cardinality(P[t])
<1> DEFINE rest == UNION {{u} \X P[u] : u \in U \ {t}}
           mine == {t} \X P[t]
           others == [u \in U \ {t} |-> P[u]]
<1>1. Whole(P) = rest \cup mine
  BY DEF Whole
<1>2. rest \cap mine = {}
  OBVIOUS
<1>3. rest = Whole(others)
  BY DEF Whole
<1>4. IsFiniteSet(U \ {t})
  BY FS_RemoveElement
<1>5. DOMAIN others = U \ {t} /\ \A u \in U \ {t} : IsFiniteSet(others[u])
  OBVIOUS
<1> HIDE DEF rest, mine, others
<1>6. IsFiniteSet(rest) /\ Cardinality(rest) \in Nat
  <2>1. IsFiniteSet(Whole(others)) /\ Cardinality(Whole(others)) \in Nat
    BY <1>4, <1>5, WholeFinite
  <2>2. QED
    BY <1>3, <2>1
<1>7. IsFiniteSet(mine) /\ Cardinality(mine) = Cardinality(P[t]) /\ Cardinality(P[t]) \in Nat
  BY PartWeighs, FS_CardinalityType DEF mine
<1>8. Cardinality(rest \cup mine) = Cardinality(rest) + Cardinality(mine) - Cardinality(rest \cap mine)
  BY <1>6, <1>7, FS_Union
<1>9. Cardinality(rest \cap mine) = 0
  BY <1>2, FS_EmptySet
<1>10. Cardinality(Whole(P)) = Cardinality(rest) + Cardinality(P[t])
  BY <1>1, <1>6, <1>7, <1>8, <1>9
<1>11. QED
  BY <1>6, <1>10 DEF rest

\* When one task's part changes, the whole changes by as much.
LEMMA PartChanges ==
  ASSUME NEW U, IsFiniteSet(U), NEW P, DOMAIN P = U, \A u \in U : IsFiniteSet(P[u]),
         NEW t \in U, NEW Q, DOMAIN Q = U, IsFiniteSet(Q[t]), \A u \in U \ {t} : Q[u] = P[u]
  PROVE  Cardinality(Whole(Q)) + Cardinality(P[t]) = Cardinality(Whole(P)) + Cardinality(Q[t])
<1> DEFINE rest == UNION {{u} \X P[u] : u \in U \ {t}}
           restQ == UNION {{u} \X Q[u] : u \in U \ {t}}
<1>1. rest = restQ
  OBVIOUS
<1>2. \A u \in U : IsFiniteSet(Q[u])
  OBVIOUS
<1>3. Cardinality(rest) \in Nat /\ Cardinality(Whole(P)) = Cardinality(rest) + Cardinality(P[t])
  BY PartOff
<1>4. Cardinality(restQ) \in Nat /\ Cardinality(Whole(Q)) = Cardinality(restQ) + Cardinality(Q[t])
  BY <1>2, PartOff
<1>5. Cardinality(P[t]) \in Nat /\ Cardinality(Q[t]) \in Nat
  BY FS_CardinalityType
<1> HIDE DEF rest, restQ
<1>6. QED
  BY <1>1, <1>3, <1>4, <1>5

\* The answers a call holds, and their tokens.
GotOf(c) == IF c = Idle THEN {} ELSE c.got
TokensOf(c) == IF c = Idle THEN 0 ELSE c.tokens

Gots(f) == [t \in Tasks |-> GotOf(f[t])]
Tokens(f) == [t \in Tasks |-> 1..TokensOf(f[t])]

HeldIn(f) == [calls |-> Cardinality(Whole(Gots(f))), tokens |-> Cardinality(Whole(Tokens(f)))]

\* An idle task holds nothing: it may be counted along.
LEMMA HeldIs ==
  /\ Held = HeldIn(call)
  /\ Held' = HeldIn(call')
<1>1. ASSUME NEW f
      PROVE  UNION {{t} \X f[t].got : t \in {u \in Tasks : f[u] # Idle}} = Whole(Gots(f))
  BY DEF Whole, Gots, GotOf
<1>2. ASSUME NEW f
      PROVE  UNION {{t} \X (1..f[t].tokens) : t \in {u \in Tasks : f[u] # Idle}} = Whole(Tokens(f))
  <2>1. 1..0 = {}
    OBVIOUS
  <2>2. QED
    BY <2>1 DEF Whole, Tokens, TokensOf
<1>3. Held = HeldIn(call)
  BY <1>1, <1>2 DEF Held, HeldIn, Waiting
<1>4. Held' = HeldIn(call')
  BY <1>1, <1>2 DEF Held, HeldIn, Waiting
<1>5. QED
  BY <1>3, <1>4

\* A call in progress has finitely many texts, and asks for some of them.
LEMMA BegunIs ==
  ASSUME NEW c, Begun(c)
  PROVE  /\ c # Idle
         /\ c.texts \in Seq(Texts \cup {NoText}) /\ Len(c.texts) \in Nat /\ DOMAIN c.texts = 1..Len(c.texts)
         /\ c.sent \in SUBSET (1..Len(c.texts))
         /\ \A n \in c.sent : n \in DOMAIN c.texts /\ c.texts[n] # NoText
         /\ \A n \in c.sent : c.texts[n] \in Texts
         /\ IsFiniteSet(c.sent) /\ Cardinality(c.sent) \in Nat
         /\ IsFiniteSet(c.got) /\ Cardinality(c.got) \in Nat
<1>1. PICK a \in Asks : c.texts = a.texts
  BY DEF Begun
<1>2. a.texts \in Seq(Texts \cup {NoText}) /\ a.texts # <<>>
  BY AsksAssumption DEF Ask
<1>3. Len(c.texts) \in Nat /\ DOMAIN c.texts = 1..Len(c.texts)
  BY <1>1, <1>2
<1>4. c.sent \in SUBSET (1..Len(c.texts)) /\ \A n \in c.sent : n \in DOMAIN c.texts /\ c.texts[n] # NoText
  BY <1>3 DEF Begun, Nonempty
<1>5. c.got \in SUBSET (1..Len(c.texts))
  BY <1>4 DEF Begun
<1>6. IsFiniteSet(c.sent) /\ Cardinality(c.sent) \in Nat
  BY <1>3, <1>4, Ranks
<1>7. IsFiniteSet(c.got) /\ Cardinality(c.got) \in Nat
  BY <1>3, <1>5, Ranks
<1>8. c # Idle
  <2>1. Idle.texts = <<>>
    BY DEF Idle
  <2>2. QED
    BY <1>1, <1>2, <2>1
<1>9. \A n \in c.sent : c.texts[n] \in Texts
  <2>1. \A n \in DOMAIN a.texts : a.texts[n] \in Texts \cup {NoText}
    BY <1>2
  <2>2. QED
    BY <1>1, <1>4, <2>1
<1>10. QED
  BY <1>1, <1>2, <1>3, <1>4, <1>6, <1>7, <1>8, <1>9

LEMMA HoldsFinite ==
  ASSUME NEW c, c = Idle \/ Begun(c)
  PROVE  /\ IsFiniteSet(GotOf(c)) /\ Cardinality(GotOf(c)) \in Nat
         /\ TokensOf(c) \in Nat
         /\ IsFiniteSet(1..TokensOf(c)) /\ Cardinality(1..TokensOf(c)) = TokensOf(c)
<1>1. IsFiniteSet(GotOf(c)) /\ Cardinality(GotOf(c)) \in Nat
  <2>1. CASE c = Idle
    BY <2>1, FS_EmptySet DEF GotOf
  <2>2. CASE Begun(c)
    BY <2>2, BegunIs DEF GotOf
  <2>3. QED
    BY <2>1, <2>2
<1>2. TokensOf(c) \in Nat
  BY DEF TokensOf, Begun
<1>3. IsFiniteSet(1..TokensOf(c)) /\ Cardinality(1..TokensOf(c)) = TokensOf(c)
  <2> DEFINE n == TokensOf(c)
  <2>1. n \in Nat /\ n \in Int /\ 1 \in Int
    BY <1>2
  <2> HIDE DEF n
  <2>2. IsFiniteSet(1..n) /\ Cardinality(1..n) = IF 1 > n THEN 0 ELSE n - 1 + 1
    BY <2>1, FS_Interval
  <2>3. IsFiniteSet(1..n) /\ Cardinality(1..n) = n
    BY <2>1, <2>2
  <2>4. QED
    BY <2>3 DEF n
<1>4. QED
  BY <1>1, <1>2, <1>3

\* When one task's call changes, what is held changes by what that call holds.
LEMMA HeldChanges ==
  ASSUME call = [u \in Tasks |-> call[u]], \A u \in Tasks : call[u] = Idle \/ Begun(call[u]),
         NEW t \in Tasks, NEW c, c = Idle \/ Begun(c), call' = [call EXCEPT ![t] = c]
  PROVE  /\ HeldIn(call) \in Meter /\ HeldIn(call') \in Meter
         /\ HeldIn(call').calls + Cardinality(GotOf(call[t])) = HeldIn(call).calls + Cardinality(GotOf(c))
         /\ HeldIn(call').tokens + TokensOf(call[t]) = HeldIn(call).tokens + TokensOf(c)
<1>1. call' = [u \in Tasks |-> call'[u]] /\ call'[t] = c /\ \A u \in Tasks \ {t} : call'[u] = call[u]
  OBVIOUS
<1>2. \A u \in Tasks : call'[u] = Idle \/ Begun(call'[u])
  BY <1>1
<1>3. /\ DOMAIN Gots(call) = Tasks /\ \A u \in Tasks : Gots(call)[u] = GotOf(call[u])
      /\ DOMAIN Gots(call') = Tasks /\ \A u \in Tasks : Gots(call')[u] = GotOf(call'[u])
  BY DEF Gots
<1>4. /\ DOMAIN Tokens(call) = Tasks /\ \A u \in Tasks : Tokens(call)[u] = 1..TokensOf(call[u])
      /\ DOMAIN Tokens(call') = Tasks /\ \A u \in Tasks : Tokens(call')[u] = 1..TokensOf(call'[u])
  BY DEF Tokens
<1>5. /\ \A u \in Tasks : IsFiniteSet(Gots(call)[u]) /\ IsFiniteSet(Gots(call')[u])
      /\ \A u \in Tasks : IsFiniteSet(Tokens(call)[u]) /\ IsFiniteSet(Tokens(call')[u])
  BY <1>2, <1>3, <1>4, HoldsFinite
<1>6. /\ Cardinality(Whole(Gots(call))) \in Nat /\ Cardinality(Whole(Gots(call'))) \in Nat
      /\ Cardinality(Whole(Tokens(call))) \in Nat /\ Cardinality(Whole(Tokens(call'))) \in Nat
  BY <1>3, <1>4, <1>5, WholeFinite, TasksAssumption
<1>7. Cardinality(Whole(Gots(call'))) + Cardinality(GotOf(call[t])) = Cardinality(Whole(Gots(call))) + Cardinality(GotOf(c))
  <2>1. \A u \in Tasks \ {t} : Gots(call')[u] = Gots(call)[u]
    BY <1>1, <1>3
  <2>2. Cardinality(Whole(Gots(call'))) + Cardinality(Gots(call)[t]) = Cardinality(Whole(Gots(call))) + Cardinality(Gots(call')[t])
    BY <1>3, <1>5, <2>1, PartChanges, TasksAssumption
  <2>3. QED
    BY <1>1, <1>3, <2>2
<1>8. Cardinality(Whole(Tokens(call'))) + TokensOf(call[t]) = Cardinality(Whole(Tokens(call))) + TokensOf(c)
  <2>1. \A u \in Tasks \ {t} : Tokens(call')[u] = Tokens(call)[u]
    BY <1>1, <1>4
  <2>2. Cardinality(Whole(Tokens(call'))) + Cardinality(Tokens(call)[t])
          = Cardinality(Whole(Tokens(call))) + Cardinality(Tokens(call')[t])
    BY <1>4, <1>5, <2>1, PartChanges, TasksAssumption
  <2>3. Tokens(call)[t] = 1..TokensOf(call[t]) /\ Tokens(call')[t] = 1..TokensOf(c)
    BY <1>1, <1>4
  <2>4. Cardinality(1..TokensOf(call[t])) = TokensOf(call[t]) /\ Cardinality(1..TokensOf(c)) = TokensOf(c)
    BY HoldsFinite
  <2>5. QED
    BY <2>2, <2>3, <2>4
<1>9. QED
  BY <1>6, <1>7, <1>8 DEF HeldIn, Meter

----------------------------------------------------------------------------
(* What the steps share *)

LEMMA HeldTyped ==
  ASSUME CallsBegun
  PROVE  Held \in Meter
<1>1. \A u \in Tasks : call[u] = Idle \/ Begun(call[u])
  BY DEF CallsBegun
<1>2. \A u \in Tasks : IsFiniteSet(GotOf(call[u])) /\ IsFiniteSet(1..TokensOf(call[u]))
  BY <1>1, HoldsFinite
<1>3. /\ DOMAIN Gots(call) = Tasks /\ \A u \in Tasks : IsFiniteSet(Gots(call)[u])
      /\ DOMAIN Tokens(call) = Tasks /\ \A u \in Tasks : IsFiniteSet(Tokens(call)[u])
  BY <1>2 DEF Gots, Tokens
<1>4. Cardinality(Whole(Gots(call))) \in Nat /\ Cardinality(Whole(Tokens(call))) \in Nat
  BY <1>3, WholeFinite, TasksAssumption
<1>5. QED
  BY <1>4, HeldIs DEF HeldIn, Meter

\* One task's call begins, goes on or ends.
LEMMA CallsChange ==
  ASSUME CallsBegun, inner' = inner, NEW t \in Tasks,
         NEW c, c = Idle \/ (Begun(c) /\ (c.gather => inner \in Gathers)),
         call' = [call EXCEPT ![t] = c]
  PROVE  /\ CallsBegun'
         /\ Held' \in Meter
         /\ Held'.calls + Cardinality(GotOf(call[t])) = Held.calls + Cardinality(GotOf(c))
         /\ Held'.tokens + TokensOf(call[t]) = Held.tokens + TokensOf(c)
<1>1. call = [u \in Tasks |-> call[u]] /\ \A u \in Tasks : call[u] = Idle \/ Begun(call[u])
  BY DEF CallsBegun
<1>2. CallsBegun'
  <2>1. call' = [u \in Tasks |-> call'[u]] /\ call'[t] = c /\ \A u \in Tasks \ {t} : call'[u] = call[u]
    BY <1>1
  <2>2. \A u \in Tasks : call'[u] = Idle \/ Begun(call'[u])
    BY <1>1, <2>1
  <2>3. \A u \in Tasks : call'[u] # Idle => (call'[u].gather => inner' \in Gathers)
    BY <2>1 DEF CallsBegun
  <2>4. QED
    BY <2>1, <2>2, <2>3 DEF CallsBegun
<1>3. /\ HeldIn(call') \in Meter
      /\ HeldIn(call').calls + Cardinality(GotOf(call[t])) = HeldIn(call).calls + Cardinality(GotOf(c))
      /\ HeldIn(call').tokens + TokensOf(call[t]) = HeldIn(call).tokens + TokensOf(c)
  <2>1. c = Idle \/ Begun(c)
    OBVIOUS
  <2>2. QED
    BY <1>1, <2>1, HeldChanges
<1>4. QED
  BY <1>2, <1>3, HeldIs

LEMMA CallsStay ==
  ASSUME CallsBegun, inner' = inner, call' = call
  PROVE  CallsBegun' /\ Held' = Held
<1>1. CallsBegun'
  BY DEF CallsBegun
<1>2. Held' = Held
  BY HeldIs
<1>3. QED
  BY <1>1, <1>2

\* What the counters and the bill gain, what the open gathers give up and what they
\* take on, calls and tokens.
Gains(uc, ut, bc, bt, gc, gt, hc, ht) ==
  /\ usage' = Plus(usage, uc, ut) /\ billed' = Plus(billed, bc, bt)
  /\ Held'.calls + gc = Held.calls + hc /\ uc + hc <= bc + gc
  /\ Held'.tokens + gt = Held.tokens + ht /\ ut + ht <= bt + gt
  /\ ~raised' => ut + ht = bt + gt
  /\ ~raised' /\ inner # "titan" => uc + hc = bc + gc

\* The rest of the counting's state.
Goes ==
  /\ inner' = inner /\ orphans' \in Nat /\ begun' \in Nat
  /\ raised' \in BOOLEAN /\ (raised => raised') /\ (orphans' > 0 => raised')

\* One counter gains no more than the bill and what is given up, or just as much.
LEMMA OneBalance ==
  ASSUME NEW u \in Nat, NEW h \in Nat, NEW b \in Nat, NEW k \in Nat,
         NEW du \in Nat, NEW db \in Nat, NEW g \in Nat, NEW dh \in Nat,
         k + g = h + dh
  PROVE  /\ u + h <= b /\ du + dh <= db + g => (u + du) + k <= b + db
         /\ u + h = b /\ du + dh = db + g => (u + du) + k = b + db
OBVIOUS

\* As long as it balances, the counters stay true.
LEMMA Balance ==
  ASSUME Metered, Held \in Meter, Held' \in Meter,
         NEW uc \in Nat, NEW ut \in Nat, NEW bc \in Nat, NEW bt \in Nat,
         NEW gc \in Nat, NEW gt \in Nat, NEW hc \in Nat, NEW ht \in Nat,
         Gains(uc, ut, bc, bt, gc, gt, hc, ht), Goes
  PROVE  Metered'
<1>1. usage \in Meter /\ billed \in Meter
  BY DEF Metered
<1>2. usage' \in Meter /\ usage'.calls = usage.calls + uc /\ usage'.tokens = usage.tokens + ut
  BY <1>1 DEF Gains, Plus, Meter
<1>3. billed' \in Meter /\ billed'.calls = billed.calls + bc /\ billed'.tokens = billed.tokens + bt
  BY <1>1 DEF Gains, Plus, Meter
<1>4. /\ usage.calls \in Nat /\ billed.calls \in Nat /\ usage.tokens \in Nat /\ billed.tokens \in Nat
      /\ Held.calls \in Nat /\ Held.tokens \in Nat /\ Held'.calls \in Nat /\ Held'.tokens \in Nat
  BY <1>1 DEF Meter
<1>5. /\ usage.calls + Held.calls <= billed.calls
      /\ usage.tokens + Held.tokens <= billed.tokens
      /\ ~raised => usage.tokens + Held.tokens = billed.tokens
      /\ ~raised /\ inner # "titan" => usage.calls + Held.calls = billed.calls
  BY DEF Metered, CountedOnce
<1>6. /\ Held'.calls + gc = Held.calls + hc /\ uc + hc <= bc + gc
      /\ Held'.tokens + gt = Held.tokens + ht /\ ut + ht <= bt + gt
      /\ ~raised' => ut + ht = bt + gt
      /\ ~raised' /\ inner # "titan" => uc + hc = bc + gc
  BY DEF Gains
<1>7. ~raised' => ~raised
  BY DEF Goes
<1>8. /\ usage'.calls + Held'.calls <= billed'.calls
      /\ ~raised' /\ inner # "titan" => usage'.calls + Held'.calls = billed'.calls
  <2>1. /\ (usage.calls + uc) + Held'.calls <= billed.calls + bc
        /\ usage.calls + Held.calls = billed.calls /\ uc + hc = bc + gc
             => (usage.calls + uc) + Held'.calls = billed.calls + bc
    BY <1>4, <1>5, <1>6, OneBalance
  <2>2. QED
    BY <1>2, <1>3, <1>5, <1>6, <1>7, <2>1
<1>9. /\ usage'.tokens + Held'.tokens <= billed'.tokens
      /\ ~raised' => usage'.tokens + Held'.tokens = billed'.tokens
  BY <1>2, <1>3, <1>4, <1>5, <1>6, <1>7, OneBalance
<1>10. CountedOnce'
  BY <1>8, <1>9 DEF CountedOnce, Goes
<1>11. QED
  BY <1>2, <1>3, <1>10 DEF Metered, Goes

\* A memory that was computed whole is the next one.
LEMMA MemoryNext ==
  ASSUME NEW m, Kept(m), cache' = m.cache, recency' = m.recency
  PROVE  Kept(Memory)'
<1>1. Memory' = m
  BY DEF Memory, Kept
<1>2. Kept(Memory')
  BY <1>1
<1>3. QED
  BY <1>2 DEF Kept, Room, Once

\* A hit is answered with a vector of its own key.
LEMMA HitFits ==
  ASSUME Kept(Memory), NEW texts \in Seq(Texts \cup {NoText}), NEW i \in Hits(texts)
  PROVE  /\ i \in DOMAIN texts /\ texts[i] # NoText
         /\ Cached(cache, KeyOf[texts[i]]) \in Texts
         /\ KeyOf[Cached(cache, KeyOf[texts[i]])] = KeyOf[texts[i]]
<1> DEFINE k == KeyOf[texts[i]]
           p == Place(cache, k)
<1>1. i \in DOMAIN texts /\ texts[i] # NoText /\ k \in ToSet(Keys(cache))
  BY DEF Hits
<1>2. Memory.cache = cache
  BY DEF Memory
<1> HIDE DEF k
<1>3. p \in 1..Len(cache) /\ cache[p][1] = k
  BY <1>1, <1>2, HeldWhere
<1>4. cache \in Seq(Texts \X Texts) /\ \A j \in DOMAIN cache : KeyOf[cache[j][2]] = cache[j][1]
  BY <1>2 DEF Kept
<1>5. cache[p] \in Texts \X Texts /\ KeyOf[cache[p][2]] = k
  BY <1>3, <1>4
<1>6. QED
  BY <1>1, <1>5 DEF Cached, k

----------------------------------------------------------------------------
(* Every step keeps the invariant *)

LEMMA Begins ==
  ASSUME Init
  PROVE  Inv
<1>1. Kept(Memory)
  <2>1. Memory = [cache |-> <<>>, recency |-> <<>>]
    BY DEF Init, Memory
  <2>2. Len(<<>>) = 0 /\ DOMAIN <<>> = {} /\ <<>> \in Seq(Texts \X Texts) /\ <<>> \in Seq(Texts)
    OBVIOUS
  <2>3. Room(<<>>) = 0
    BY <2>2, SizeAssumption DEF Room
  <2>4. QED
    BY <2>1, <2>2, <2>3 DEF Kept, Once
<1>2. CallsBegun
  BY DEF Init, CallsBegun
<1>3. Returned
  BY DEF Init, Returned, EveryTextOrError, NothingReturned
<1>4. Metered
  <2>1. Gots(call) = [t \in Tasks |-> {}] /\ Tokens(call) = [t \in Tasks |-> {}]
    BY DEF Init, Gots, Tokens, GotOf, TokensOf
  <2>2. Whole([t \in Tasks |-> {}]) = {}
    BY DEF Whole
  <2>3. Held = NoUsage
    BY <2>1, <2>2, HeldIs, FS_EmptySet DEF HeldIn, NoUsage
  <2>4. QED
    <3>1. NoUsage \in Meter /\ NoUsage.calls = 0 /\ NoUsage.tokens = 0
      BY DEF NoUsage, Meter
    <3>2. /\ usage = NoUsage /\ billed = NoUsage /\ raised = FALSE /\ orphans = 0 /\ begun = 0
      BY DEF Init
    <3>3. CountedOnce
      BY <2>3, <3>1, <3>2 DEF CountedOnce
    <3>4. QED
      <4>1. usage \in Meter /\ billed \in Meter /\ raised \in BOOLEAN
        BY <3>1, <3>2
      <4>2. orphans \in Nat /\ begun \in Nat /\ ~(orphans > 0)
        BY <3>2
      <4>3. QED
        BY <3>3, <4>1, <4>2 DEF Metered
<1>5. QED
  BY <1>1, <1>2, <1>3, <1>4 DEF Inv, Init

\* Nothing happened to the counters, and what is held did not change.
LEMMA StillMetered ==
  ASSUME Metered, Held' = Held, usage' = usage, billed' = billed, raised' = raised, inner' = inner,
         orphans' \in Nat, orphans' > 0 => raised, begun' \in Nat
  PROVE  Metered'
BY DEF Metered, CountedOnce

\* Nothing is counted and nothing billed: what a call that raises held is gone.
LEMMA LostMetered ==
  ASSUME Metered, Held \in Meter, Held' \in Meter, NEW gc \in Nat, NEW gt \in Nat,
         Held'.calls + gc = Held.calls + 0, Held'.tokens + gt = Held.tokens + 0,
         usage' = usage, billed' = billed, raised' = TRUE, inner' = inner,
         orphans' \in Nat, begun' \in Nat
  PROVE  Metered'
<1>1. usage' = Plus(usage, 0, 0) /\ billed' = Plus(billed, 0, 0)
  BY DEF Metered, Meter, Plus
<1>2. 0 + 0 <= 0 + gc /\ 0 + 0 <= 0 + gt
  OBVIOUS
<1>3. Gains(0, 0, 0, 0, gc, gt, 0, 0) /\ Goes
  BY <1>1, <1>2 DEF Gains, Goes
<1>4. QED
  BY <1>3, Balance

\* An answer that nobody counts: a call has raised.
LEMMA BilledOnly ==
  ASSUME Metered, Held \in Meter, Held' = Held, NEW n \in Nat,
         usage' = usage, billed' = Plus(billed, 1, n), raised' = TRUE, inner' = inner,
         orphans' \in Nat, begun' \in Nat
  PROVE  Metered'
<1>1. usage' = Plus(usage, 0, 0)
  BY DEF Metered, Meter, Plus
<1>2. Held'.calls + 0 = Held.calls + 0 /\ Held'.tokens + 0 = Held.tokens + 0 /\ Held' \in Meter
  OBVIOUS
<1>3. 0 + 0 <= 1 + 0 /\ 0 + 0 <= n + 0
  OBVIOUS
<1>4. Gains(0, 0, 1, n, 0, 0, 0, 0) /\ Goes
  BY <1>1, <1>2, <1>3 DEF Gains, Goes
<1>5. QED
  BY <1>2, <1>4, Balance

LEMMA ReportsAreNumbers == Reports \subseteq Nat
<1>1. {0} \subseteq Nat /\ Counts \subseteq Nat
  BY SizeAssumption
<1>2. QED
  BY <1>1 DEF Reports

LEMMA StillReturned ==
  ASSUME returned' = NothingReturned
  PROVE  Returned'
BY DEF Returned, EveryTextOrError, NothingReturned

LEMMA StillKept ==
  ASSUME Kept(Memory), cache' = cache, recency' = recency
  PROVE  Kept(Memory)'
<1>1. Memory.cache = cache /\ Memory.recency = recency
  BY DEF Memory
<1>2. QED
  BY <1>1, MemoryNext

LEMMA EmbedKeeps ==
  ASSUME Inv, NEW t \in Tasks, Embed(t)
  PROVE  Inv'
<1> DEFINE found(a) == [i \in DOMAIN a.texts |->
                          IF i \in Hits(a.texts) THEN Cached(cache, KeyOf[a.texts[i]]) ELSE NoText]
           made(a) == [texts |-> a.texts, out |-> found(a), sent |-> Misses(a.texts),
                       got |-> {}, tokens |-> 0,
                       gather |-> a.kind = "batch" /\ inner \in Gathers]
<1>1. PICK a \in Asks :
         /\ cache' = AfterHits(a.texts).cache /\ recency' = AfterHits(a.texts).recency
         /\ IF Misses(a.texts) = {}
              THEN returned' = [texts |-> a.texts, vecs |-> found(a)] /\ UNCHANGED call
              ELSE call' = [call EXCEPT ![t] = made(a)] /\ returned' = NothingReturned
  BY DEF Embed
<1>2. a.texts \in Seq(Texts \cup {NoText})
  BY AsksAssumption DEF Ask
<1>3. /\ call[t] = Idle /\ inner' = inner /\ usage' = usage /\ billed' = billed /\ raised' = raised
      /\ orphans' = orphans /\ begun' = begun + 1
  BY DEF Embed
<1>4. /\ inner \in Inner /\ Kept(Memory) /\ CallsBegun /\ Metered
      /\ orphans \in Nat /\ begun \in Nat /\ (orphans > 0 => raised)
  BY DEF Inv, Metered
<1>5. Kept(Memory)'
  <2>1. Kept(AfterHits(a.texts))
    BY <1>2, <1>4, HitsKeep
  <2>2. QED
    BY <1>1, <2>1, MemoryNext
<1>6. \A i \in DOMAIN a.texts :
        /\ Fits(a.texts, i, found(a)[i])
        /\ i \in Hits(a.texts) => found(a)[i] # NoText
  <2> SUFFICES ASSUME NEW i \in DOMAIN a.texts
               PROVE  Fits(a.texts, i, found(a)[i]) /\ (i \in Hits(a.texts) => found(a)[i] # NoText)
    OBVIOUS
  <2>1. CASE i \in Hits(a.texts)
    <3>1. found(a)[i] = Cached(cache, KeyOf[a.texts[i]])
      BY <2>1
    <3>2. /\ a.texts[i] # NoText
          /\ Cached(cache, KeyOf[a.texts[i]]) \in Texts
          /\ KeyOf[Cached(cache, KeyOf[a.texts[i]])] = KeyOf[a.texts[i]]
      BY <1>2, <1>4, <2>1, HitFits
    <3>3. QED
      BY <3>1, <3>2, TextsAssumption DEF Fits
  <2>2. CASE i \notin Hits(a.texts)
    BY <2>2 DEF Fits
  <2>3. QED
    BY <2>1, <2>2
<1>7. DOMAIN found(a) = DOMAIN a.texts
  OBVIOUS
<1> HIDE DEF found
<1>8. CASE Misses(a.texts) = {}
  <2>1. returned' = [texts |-> a.texts, vecs |-> found(a)] /\ call' = call
    BY <1>1, <1>8
  <2>2. \A i \in DOMAIN a.texts : a.texts[i] # NoText => i \in Hits(a.texts)
    BY <1>8 DEF Misses
  <2>3. Returned'
    BY <1>6, <2>1, <2>2 DEF Returned, EveryTextOrError
  <2>4. CallsBegun' /\ Held' = Held
    BY <1>3, <1>4, <2>1, CallsStay
  <2>5. Metered'
    BY <1>3, <1>4, <2>4, StillMetered
  <2>6. QED
    BY <1>3, <1>4, <1>5, <2>3, <2>4, <2>5 DEF Inv
<1>9. CASE Misses(a.texts) # {}
  <2> DEFINE c == made(a)
  <2>1. call' = [call EXCEPT ![t] = c] /\ returned' = NothingReturned
    BY <1>1, <1>9
  <2>2. /\ c.texts = a.texts /\ c.out = found(a) /\ c.sent = Misses(a.texts)
        /\ c.got = {} /\ c.tokens = 0 /\ c.gather = (a.kind = "batch" /\ inner \in Gathers)
        /\ c = [texts |-> c.texts, out |-> c.out, sent |-> c.sent,
                got |-> c.got, tokens |-> c.tokens, gather |-> c.gather]
    OBVIOUS
  <2> HIDE DEF c
  <2>3. c.gather \in BOOLEAN /\ (c.gather => inner \in Gathers)
    BY <2>2
  <2>4. /\ Misses(a.texts) \subseteq Nonempty(a.texts)
        /\ \A i \in Nonempty(a.texts) \ Misses(a.texts) : i \in DOMAIN a.texts /\ i \in Hits(a.texts)
    BY DEF Misses, Nonempty
  <2>5. Begun(c)
    <3>1. c.sent # {} /\ c.sent \subseteq Nonempty(c.texts) /\ DOMAIN c.out = DOMAIN c.texts
      BY <1>7, <1>9, <2>2, <2>4
    <3>2. \A i \in DOMAIN c.texts : Fits(c.texts, i, c.out[i])
      BY <1>6, <2>2
    <3>3. \A i \in Nonempty(c.texts) \ c.sent : c.out[i] # NoText
      BY <1>6, <2>2, <2>4
    <3>4. c.got \subseteq c.sent /\ c.tokens \in Nat /\ (~c.gather => c.got = {} /\ c.tokens = 0)
      <4>1. c.got = {} /\ c.tokens = 0
        BY <2>2
      <4>2. QED
        BY <4>1
    <3>5. \E b \in Asks : c.texts = b.texts
      BY <2>2
    <3>6. QED
      BY <2>2, <2>3, <3>1, <3>2, <3>3, <3>4, <3>5 DEF Begun
  <2>6. /\ CallsBegun' /\ Held' \in Meter
        /\ Held'.calls + Cardinality(GotOf(Idle)) = Held.calls + Cardinality(GotOf(c))
        /\ Held'.tokens + TokensOf(Idle) = Held.tokens + TokensOf(c)
    BY <1>3, <1>4, <2>1, <2>3, <2>5, CallsChange
  <2>7. /\ Cardinality(GotOf(Idle)) = 0 /\ Cardinality(GotOf(c)) = 0
        /\ TokensOf(Idle) = 0 /\ TokensOf(c) = 0
    BY <2>2, <2>5, BegunIs, FS_EmptySet DEF GotOf, TokensOf
  <2>8. Held \in Meter
    BY <1>4, HeldTyped
  <2>9. Held' = Held
    BY <2>6, <2>7, <2>8 DEF Meter
  <2>10. Metered'
    BY <1>3, <1>4, <2>9, StillMetered
  <2>11. Returned'
    BY <2>1, StillReturned
  <2>12. QED
    BY <1>3, <1>4, <1>5, <2>6, <2>10, <2>11 DEF Inv
<1>10. QED
  BY <1>8, <1>9

\* A call that ends no longer holds what it was answered.
LEMMA CallEnds ==
  ASSUME CallsBegun, inner' = inner, NEW t \in Tasks, call[t] # Idle,
         call' = [call EXCEPT ![t] = Idle]
  PROVE  /\ CallsBegun' /\ Held \in Meter /\ Held' \in Meter
         /\ Begun(call[t])
         /\ Cardinality(call[t].got) \in Nat /\ call[t].tokens \in Nat
         /\ Held'.calls + Cardinality(call[t].got) = Held.calls + 0
         /\ Held'.tokens + call[t].tokens = Held.tokens + 0
<1>1. Begun(call[t])
  BY DEF CallsBegun
<1>2. /\ CallsBegun' /\ Held' \in Meter
      /\ Held'.calls + Cardinality(GotOf(call[t])) = Held.calls + Cardinality(GotOf(Idle))
      /\ Held'.tokens + TokensOf(call[t]) = Held.tokens + TokensOf(Idle)
  BY CallsChange
<1>3. GotOf(call[t]) = call[t].got /\ TokensOf(call[t]) = call[t].tokens
  BY DEF GotOf, TokensOf
<1>4. Cardinality(GotOf(Idle)) = 0 /\ TokensOf(Idle) = 0
  BY FS_EmptySet DEF GotOf, TokensOf
<1>5. Held \in Meter
  BY HeldTyped
<1>6. Cardinality(call[t].got) \in Nat /\ call[t].tokens \in Nat
  BY <1>1, BegunIs DEF Begun
<1>7. QED
  BY <1>1, <1>2, <1>3, <1>4, <1>5, <1>6

\* An answered call stores what came, pairs it, and counts its requests.
LEMMA DeliverKeeps ==
  ASSUME Kept(Memory), CallsBegun, inner' = inner, NEW t \in Tasks, call[t] # Idle,
         NEW vecs, NEW tokens, Deliver(t, vecs, tokens),
         \A i \in call[t].sent : vecs[i] \in {NoText, call[t].texts[i]},
         inner = "by index" => \A i \in call[t].sent : vecs[i] = call[t].texts[i]
  PROVE  /\ Kept(Memory)' /\ Returned'
         /\ usage' = Plus(usage, Trips(call[t]), tokens)
         /\ call' = [call EXCEPT ![t] = Idle]
<1> DEFINE c == call[t]
<1>1. /\ usage' = Plus(usage, Trips(c), tokens)
      /\ cache' = AfterStores(c, vecs).cache /\ recency' = AfterStores(c, vecs).recency
      /\ returned' = [texts |-> c.texts, vecs |-> Filled(c, c.out, vecs)]
      /\ call' = [call EXCEPT ![t] = Idle]
  BY DEF Deliver
<1>2. Begun(c)
  BY DEF CallsBegun
<1>3. \A i \in c.sent : vecs[i] \in {NoText, c.texts[i]}
  OBVIOUS
<1>4. inner = "by index" => \A i \in c.sent : vecs[i] = c.texts[i]
  OBVIOUS
<1> HIDE DEF c
<1>5. /\ c.texts \in Seq(Texts \cup {NoText}) /\ \A n \in c.sent : n \in DOMAIN c.texts /\ c.texts[n] # NoText
  BY <1>2, BegunIs
<1>6. \A i \in c.sent : c.texts[i] \in Texts
  BY <1>2, BegunIs
<1>7. \A i \in c.sent : vecs[i] # NoText => vecs[i] \in Texts /\ KeyOf[vecs[i]] = KeyOf[c.texts[i]]
  BY <1>3, <1>6
<1>8. Kept(Memory)'
  <2>1. Kept(AfterStores(c, vecs))
    BY <1>5, <1>7, StoresKeep
  <2>2. QED
    BY <1>1, <2>1, MemoryNext
<1>9. Returned'
  <2>1. returned'.texts = c.texts /\ returned'.vecs = Filled(c, c.out, vecs)
    BY <1>1
  <2>2. DOMAIN c.out = DOMAIN c.texts
    BY <1>2 DEF Begun
  <2>3. \A i \in DOMAIN c.texts : returned'.vecs[i] = IF i \in c.sent THEN vecs[i] ELSE c.out[i]
    BY <2>1, <2>2 DEF Filled
  <2>4. \A i \in DOMAIN c.texts : Fits(c.texts, i, returned'.vecs[i])
    <3>1. \A i \in DOMAIN c.texts : Fits(c.texts, i, c.out[i])
      BY <1>2 DEF Begun
    <3>2. \A i \in c.sent : Fits(c.texts, i, vecs[i])
      BY <1>5, <1>7 DEF Fits
    <3>3. QED
      BY <2>3, <3>1, <3>2
  <2>5. ASSUME inner = "by index", NEW i \in DOMAIN c.texts, c.texts[i] # NoText
        PROVE  returned'.vecs[i] # NoText
    <3>1. CASE i \in c.sent
      BY <1>4, <2>3, <2>5, <3>1
    <3>2. CASE i \notin c.sent
      <4>1. i \in Nonempty(c.texts) \ c.sent
        BY <2>5, <3>2 DEF Nonempty
      <4>2. c.out[i] # NoText
        BY <1>2, <4>1 DEF Begun
      <4>3. QED
        BY <2>3, <3>2, <4>2
    <3>3. QED
      BY <3>1, <3>2
  <2>6. EveryTextOrError'
    BY <2>1, <2>5 DEF EveryTextOrError
  <2>7. QED
    BY <2>1, <2>4, <2>6 DEF Returned
<1>10. QED
  BY <1>1, <1>8, <1>9 DEF c

\* The size of a request is one of those computed beforehand.
LEMMA SizeIs ==
  ASSUME NEW c, Begun(c)
  PROVE  Cardinality(c.sent) \in Sizes
<1>1. PICK a \in Asks : c.texts = a.texts
  BY DEF Begun
<1> DEFINE all == {i \in DOMAIN a.texts : a.texts[i] # NoText}
           l == Len(c.texts)
<1>2. l \in Nat /\ DOMAIN c.texts = 1..l /\ IsFiniteSet(c.sent) /\ Cardinality(c.sent) \in Nat
  BY BegunIs
<1>3. all \in SUBSET (1..l)
  BY <1>1, <1>2
<1>4. c.sent \in SUBSET all /\ c.sent # {}
  BY <1>1 DEF Begun, Nonempty
<1> HIDE DEF all, l
<1>5. IsFiniteSet(all) /\ Cardinality(all) \in Nat
  BY <1>2, <1>3, Ranks
<1>6. Cardinality(c.sent) <= Cardinality(all)
  BY <1>4, <1>5, FS_Subset
<1>7. Cardinality(c.sent) # 0
  BY <1>2, <1>4, FS_EmptySet
<1>8. Cardinality(c.sent) \in 1..Cardinality(all)
  BY <1>2, <1>5, <1>6, <1>7
<1>9. QED
  BY <1>8 DEF all, Sizes

LEMMA InnerAnsweredKeeps ==
  ASSUME Inv, NEW t \in Tasks, InnerAnswered(t)
  PROVE  Inv'
<1> DEFINE c == call[t]
           m == Cardinality(c.sent)
<1>1. /\ inner \in Inner /\ Kept(Memory) /\ CallsBegun /\ Metered
      /\ orphans \in Nat /\ begun \in Nat /\ raised \in BOOLEAN /\ (orphans > 0 => raised)
  BY DEF Inv, Metered
<1>2. /\ c # Idle /\ ~c.gather /\ inner' = inner /\ raised' = raised
      /\ orphans' = orphans /\ begun' = begun
  BY DEF InnerAnswered, Waiting
<1>3. PICK v \in OutcomesOf[inner][m], n \in Reports :
         ~(inner = "by index" /\ Refused(v)) /\ billed' = Plus(billed, 1, n) /\ Deliver(t, Named(c, v), n)
  BY DEF InnerAnswered
<1>4. Begun(c)
  BY <1>1, <1>2 DEF CallsBegun
<1>5. m \in Nat /\ m \in Sizes /\ n \in Nat
  BY <1>4, BegunIs, SizeIs, ReportsAreNumbers
<1>6. c.sent \in SUBSET (1..Len(c.texts)) /\ Len(c.texts) \in Nat /\ m = Cardinality(c.sent)
  BY <1>4, BegunIs
<1>7. v \in Outcomes(inner, m)
  BY <1>1, <1>3, <1>5 DEF OutcomesOf
<1> HIDE DEF c, m
<1>8. \A p \in 1..m : v[p] \in {NoVector, p} /\ (inner = "by index" => v[p] # NoVector)
  <2>1. CASE inner = "by index"
    <3>1. ~Refused(v) /\ v \in Outcomes("by index", m)
      BY <1>3, <1>7, <2>1
    <3>2. \A p \in 1..m : v[p] = p
      BY <1>5, <3>1, IndexedOutcome
    <3>3. \A p \in 1..m : p # 0
      BY <1>5
    <3>4. QED
      BY <3>2, <3>3 DEF NoVector
  <2>2. CASE inner # "by index"
    BY <1>5, <1>7, <2>2, OrderedOutcome
  <2>3. QED
    BY <2>1, <2>2
<1>9. /\ \A i \in c.sent : Named(c, v)[i] \in {NoText, c.texts[i]}
      /\ inner = "by index" => \A i \in c.sent : Named(c, v)[i] = c.texts[i]
  <2>1. \A p \in 1..Cardinality(c.sent) : v[p] \in {NoVector, p}
    BY <1>6, <1>8
  <2>2. inner = "by index" => \A p \in 1..Cardinality(c.sent) : v[p] # NoVector
    BY <1>6, <1>8
  <2>3. \A i \in c.sent :
           /\ Named(c, v)[i] \in {NoText, c.texts[i]}
           /\ (\A p \in 1..Cardinality(c.sent) : v[p] # NoVector) => Named(c, v)[i] = c.texts[i]
    BY <1>6, <2>1, NamedIs
  <2>4. QED
    BY <2>2, <2>3
<1>10. /\ Kept(Memory)' /\ Returned'
       /\ usage' = Plus(usage, Trips(c), n)
       /\ call' = [call EXCEPT ![t] = Idle]
  <2> DEFINE vecs == Named(c, v)
  <2>1. /\ call[t] # Idle /\ Deliver(t, vecs, n)
        /\ \A i \in call[t].sent : vecs[i] \in {NoText, call[t].texts[i]}
        /\ inner = "by index" => \A i \in call[t].sent : vecs[i] = call[t].texts[i]
    BY <1>2, <1>3, <1>9 DEF c
  <2> HIDE DEF vecs
  <2>2. QED
    BY <1>1, <1>2, <2>1, DeliverKeeps DEF c
<1>11. /\ CallsBegun' /\ Held \in Meter /\ Held' \in Meter
       /\ Held'.calls + Cardinality(c.got) = Held.calls + 0
       /\ Held'.tokens + c.tokens = Held.tokens + 0
  BY <1>1, <1>2, <1>10, CallEnds DEF c
<1>12. Cardinality(c.got) = 0 /\ c.tokens = 0 /\ Trips(c) = 1
  <2>1. c.got = {} /\ c.tokens = 0
    BY <1>2, <1>4 DEF Begun
  <2>2. QED
    BY <1>2, <2>1, FS_EmptySet DEF Trips
<1>13. Metered'
  <2>1. usage' = Plus(usage, 1, n) /\ billed' = Plus(billed, 1, n)
    BY <1>3, <1>10, <1>12
  <2>2. /\ Held'.calls + 0 = Held.calls + 0 /\ Held'.tokens + 0 = Held.tokens + 0
        /\ 1 + 0 = 1 + 0 /\ n + 0 = n + 0 /\ 1 + 0 <= 1 + 0 /\ n + 0 <= n + 0
    BY <1>5, <1>11, <1>12
  <2>3. Gains(1, n, 1, n, 0, 0, 0, 0)
    BY <2>1, <2>2 DEF Gains
  <2>4. Goes
    BY <1>1, <1>2 DEF Goes
  <2>5. QED
    BY <1>1, <1>5, <1>11, <2>3, <2>4, Balance
<1>14. QED
  BY <1>1, <1>2, <1>10, <1>11, <1>13 DEF Inv

\* What stays the same gains nothing.
LEMMA PlusNothing ==
  ASSUME NEW u \in Meter
  PROVE  Plus(u, 0, 0) = u
BY DEF Plus, Meter

LEMMA ResponseRefusedKeeps ==
  ASSUME Inv, NEW t \in Tasks, ResponseRefused(t)
  PROVE  Inv'
<1>1. /\ inner \in Inner /\ Kept(Memory) /\ CallsBegun /\ Metered
      /\ orphans \in Nat /\ begun \in Nat
  BY DEF Inv, Metered
<1>2. /\ call[t] # Idle /\ inner = "by index" /\ inner' = inner /\ usage' = usage
      /\ cache' = cache /\ recency' = recency /\ orphans' = orphans /\ begun' = begun
      /\ call' = [call EXCEPT ![t] = Idle] /\ returned' = NothingReturned /\ raised' = TRUE
  BY DEF ResponseRefused, Waiting
<1>3. PICK n \in Reports : billed' = Plus(billed, 1, n)
  BY DEF ResponseRefused
<1>4. /\ CallsBegun' /\ Held \in Meter /\ Held' \in Meter /\ Begun(call[t])
      /\ Held'.calls + Cardinality(call[t].got) = Held.calls + 0
      /\ Held'.tokens + call[t].tokens = Held.tokens + 0
  BY <1>1, <1>2, CallEnds
<1>5. call[t].got = {} /\ call[t].tokens = 0
  BY <1>1, <1>2, <1>4 DEF CallsBegun, Begun, Gathers
<1>6. Cardinality(call[t].got) = 0
  BY <1>5, FS_EmptySet
<1>7. Metered'
  <2>1. n \in Nat
    BY ReportsAreNumbers
  <2>2. Held' = Held
    BY <1>4, <1>5, <1>6 DEF Meter
  <2>3. orphans' \in Nat /\ begun' \in Nat
    BY <1>1, <1>2
  <2>4. QED
    BY <1>1, <1>2, <1>3, <1>4, <2>1, <2>2, <2>3, BilledOnly
<1>8. QED
  BY <1>1, <1>2, <1>4, <1>7, StillKept, StillReturned DEF Inv

LEMMA SingleAnsweredKeeps ==
  ASSUME Inv, NEW t \in Tasks, SingleAnswered(t)
  PROVE  Inv'
<1> DEFINE c == call[t]
<1>1. /\ inner \in Inner /\ Kept(Memory) /\ CallsBegun /\ Metered
      /\ usage \in Meter /\ orphans \in Nat /\ begun \in Nat
      /\ raised \in BOOLEAN /\ (orphans > 0 => raised)
      /\ call = [u \in Tasks |-> call[u]]
  BY DEF Inv, Metered, CallsBegun
<1>2. /\ c # Idle /\ c.gather /\ inner' = inner /\ usage' = usage /\ raised' = raised
      /\ cache' = cache /\ recency' = recency /\ orphans' = orphans /\ begun' = begun
      /\ returned' = NothingReturned
  BY DEF SingleAnswered, Waiting
<1>3. PICK i \in c.sent \ c.got, n \in Counts :
         /\ call' = [call EXCEPT ![t].got = @ \cup {i}, ![t].tokens = @ + n]
         /\ billed' = Plus(billed, 1, n)
  BY DEF SingleAnswered
<1>4. Begun(c) /\ (c.gather => inner \in Gathers)
  BY <1>1, <1>2 DEF CallsBegun
<1> DEFINE d == [c EXCEPT !.got = @ \cup {i}, !.tokens = @ + n]
<1>5. call' = [call EXCEPT ![t] = d]
  BY <1>1, <1>3
<1>6. n \in Nat /\ c.tokens \in Nat
  BY <1>4, SizeAssumption DEF Begun
<1>7. /\ c = [texts |-> c.texts, out |-> c.out, sent |-> c.sent,
              got |-> c.got, tokens |-> c.tokens, gather |-> c.gather]
      /\ i \in c.sent /\ i \notin c.got
  BY <1>4 DEF Begun
<1> HIDE DEF c
<1>8. /\ d = [texts |-> d.texts, out |-> d.out, sent |-> d.sent,
              got |-> d.got, tokens |-> d.tokens, gather |-> d.gather]
      /\ d.texts = c.texts /\ d.out = c.out /\ d.sent = c.sent /\ d.gather = c.gather
      /\ d.got = c.got \cup {i} /\ d.tokens = c.tokens + n
  <2>1. d = [texts |-> c.texts, out |-> c.out, sent |-> c.sent,
             got |-> c.got \cup {i}, tokens |-> c.tokens + n, gather |-> c.gather]
    <3> DEFINE r == [texts |-> c.texts, out |-> c.out, sent |-> c.sent,
                     got |-> c.got, tokens |-> c.tokens, gather |-> c.gather]
           r1 == [texts |-> c.texts, out |-> c.out, sent |-> c.sent,
                  got |-> c.got \cup {i}, tokens |-> c.tokens, gather |-> c.gather]
           r2 == [texts |-> c.texts, out |-> c.out, sent |-> c.sent,
                  got |-> c.got \cup {i}, tokens |-> c.tokens + n, gather |-> c.gather]
    <3>1. [r EXCEPT !.got = @ \cup {i}] = r1
      OBVIOUS
    <3>2. [r1 EXCEPT !.tokens = @ + n] = r2
      OBVIOUS
    <3>3. c = r
      BY <1>7
    <3> HIDE DEF r, r1, r2
    <3>4. [r EXCEPT !.got = @ \cup {i}, !.tokens = @ + n] = [[r EXCEPT !.got = @ \cup {i}] EXCEPT !.tokens = @ + n]
      OBVIOUS
    <3>5. d = r2
      BY <3>1, <3>2, <3>3, <3>4
    <3>6. QED
      BY <3>5 DEF r2
  <2> HIDE DEF d
  <2>2. QED
    BY <2>1
<1> HIDE DEF d
<1>9. Begun(d)
  <2>1. d.got \subseteq d.sent
    BY <1>4, <1>7, <1>8 DEF Begun
  <2>2. d.tokens \in Nat
    BY <1>6, <1>8
  <2>3. d.gather
    BY <1>2, <1>8
  <2>4. QED
    BY <1>4, <1>8, <2>1, <2>2, <2>3 DEF Begun
<1>10. /\ CallsBegun' /\ Held' \in Meter
       /\ Held'.calls + Cardinality(GotOf(call[t])) = Held.calls + Cardinality(GotOf(d))
       /\ Held'.tokens + TokensOf(call[t]) = Held.tokens + TokensOf(d)
  BY <1>1, <1>2, <1>4, <1>5, <1>8, <1>9, CallsChange
<1>11. /\ GotOf(call[t]) = c.got /\ TokensOf(call[t]) = c.tokens
       /\ GotOf(d) = c.got \cup {i} /\ TokensOf(d) = c.tokens + n
  <2>1. d # Idle
    BY <1>9, BegunIs
  <2>2. QED
    BY <1>2, <1>8, <2>1 DEF GotOf, TokensOf, c
<1>12. IsFiniteSet(c.got) /\ Cardinality(c.got) \in Nat
  BY <1>4, BegunIs
<1>13. Cardinality(c.got \cup {i}) = Cardinality(c.got) + 1
  BY <1>7, <1>12, FS_AddElement
<1>14. Metered'
  <2> DEFINE g == Cardinality(c.got)
             k == c.tokens
  <2>1. g \in Nat /\ k \in Nat /\ n \in Nat
    BY <1>6, <1>12
  <2>2. Held'.calls + g = Held.calls + (g + 1) /\ Held'.tokens + k = Held.tokens + (k + n)
    BY <1>10, <1>11, <1>13
  <2> HIDE DEF g, k
  <2>3. /\ 0 + (g + 1) = 1 + g /\ 0 + (k + n) = n + k /\ g + 1 \in Nat /\ k + n \in Nat
        /\ 0 + (g + 1) <= 1 + g /\ 0 + (k + n) <= n + k
    BY <2>1
  <2>4. usage' = Plus(usage, 0, 0)
    BY <1>1, <1>2, PlusNothing
  <2>5. Goes
    BY <1>1, <1>2 DEF Goes
  <2>6. Gains(0, 0, 1, n, g, k, g + 1, k + n)
    BY <1>3, <2>2, <2>3, <2>4 DEF Gains
  <2>7. Held \in Meter
    BY <1>1, HeldTyped
  <2>8. QED
    BY <1>1, <1>10, <2>1, <2>3, <2>5, <2>6, <2>7, Balance
<1>15. QED
  BY <1>1, <1>2, <1>10, <1>14, StillKept, StillReturned DEF Inv

LEMMA GatheredKeeps ==
  ASSUME Inv, NEW t \in Tasks, Gathered(t)
  PROVE  Inv'
<1> DEFINE c == call[t]
           g == Cardinality(c.got)
           k == c.tokens
<1>1. /\ inner \in Inner /\ Kept(Memory) /\ CallsBegun /\ Metered
      /\ billed \in Meter /\ orphans \in Nat /\ begun \in Nat
      /\ raised \in BOOLEAN /\ (orphans > 0 => raised)
  BY DEF Inv, Metered
<1>2. /\ c # Idle /\ c.gather /\ c.got = c.sent /\ inner' = inner /\ raised' = raised /\ billed' = billed
      /\ orphans' = orphans /\ begun' = begun
  BY DEF Gathered, Waiting
<1>3. PICK vecs \in Answers(c) : Deliver(t, vecs, k)
  BY DEF Gathered
<1>4. \A i \in c.sent : vecs[i] \in {NoText, c.texts[i]}
  BY DEF Answers
<1>5. inner # "by index" /\ Begun(c)
  BY <1>1, <1>2 DEF CallsBegun, Gathers
<1> HIDE DEF c, g, k
<1>6. /\ Kept(Memory)' /\ Returned'
      /\ usage' = Plus(usage, Trips(c), k)
      /\ call' = [call EXCEPT ![t] = Idle]
  BY <1>1, <1>2, <1>3, <1>4, <1>5, DeliverKeeps DEF c
<1>7. /\ CallsBegun' /\ Held \in Meter /\ Held' \in Meter
      /\ g \in Nat /\ k \in Nat
      /\ Held'.calls + g = Held.calls + 0
      /\ Held'.tokens + k = Held.tokens + 0
  BY <1>1, <1>2, <1>6, CallEnds DEF c, g, k
<1>8. Trips(c) \in Nat /\ Trips(c) <= g /\ (inner # "titan" => Trips(c) = g)
  <2>1. inner \in Gathers
    BY <1>1, <1>2 DEF CallsBegun, c
  <2>2. g # 0
    BY <1>2, <1>5, BegunIs, FS_EmptySet DEF Begun, g
  <2>3. CASE inner = "one by one"
    <3>1. Trips(c) = Cardinality(c.sent)
      BY <1>2, <2>3 DEF Trips
    <3>2. Trips(c) = g
      BY <1>2, <3>1 DEF g
    <3>3. QED
      BY <1>7, <3>2
  <2>4. CASE inner = "titan"
    <3>1. Trips(c) = 1
      BY <2>4 DEF Trips
    <3>2. QED
      BY <1>7, <2>2, <2>4, <3>1
  <2>5. QED
    BY <2>1, <2>3, <2>4 DEF Gathers
<1>9. Metered'
  <2> DEFINE u == Trips(c)
  <2>1. usage' = Plus(usage, u, k) /\ billed' = Plus(billed, 0, 0)
    BY <1>1, <1>2, <1>6, PlusNothing
  <2> HIDE DEF u
  <2>2. /\ u + 0 <= 0 + g /\ k + 0 <= 0 + k /\ k + 0 = 0 + k
        /\ inner # "titan" => u + 0 = 0 + g
    BY <1>7, <1>8 DEF u
  <2>3. Goes
    BY <1>1, <1>2 DEF Goes
  <2>4. Gains(u, k, 0, 0, g, k, 0, 0)
    BY <1>7, <2>1, <2>2 DEF Gains
  <2>5. u \in Nat
    BY <1>8 DEF u
  <2>6. QED
    BY <1>1, <1>7, <2>3, <2>4, <2>5, Balance
<1>10. QED
  BY <1>1, <1>2, <1>6, <1>7, <1>9 DEF Inv

LEMMA InnerRaisesKeeps ==
  ASSUME Inv, NEW t \in Tasks, InnerRaises(t)
  PROVE  Inv'
<1> DEFINE c == call[t]
           g == Cardinality(c.got)
           k == c.tokens
<1>1. /\ inner \in Inner /\ Kept(Memory) /\ CallsBegun /\ Metered
      /\ orphans \in Nat /\ begun \in Nat
  BY DEF Inv, Metered
<1>2. /\ c # Idle /\ c.got # c.sent /\ call' = [call EXCEPT ![t] = Idle]
      /\ inner' = inner /\ cache' = cache /\ usage' = usage /\ begun' = begun /\ billed' = billed
      /\ recency' = recency /\ returned' = NothingReturned /\ raised' = TRUE
  BY DEF InnerRaises, Waiting
<1>3. IF c.gather
        THEN orphans' = orphans + Cardinality(c.sent \ c.got) - 1
        ELSE orphans' = orphans
  BY DEF InnerRaises
<1>4. /\ CallsBegun' /\ Held \in Meter /\ Held' \in Meter /\ Begun(c)
      /\ g \in Nat /\ k \in Nat
      /\ Held'.calls + g = Held.calls + 0
      /\ Held'.tokens + k = Held.tokens + 0
  BY <1>1, <1>2, CallEnds
<1>5. c.got \subseteq c.sent
  BY <1>4 DEF Begun
<1>6. IsFiniteSet(c.sent)
  BY <1>4, BegunIs
<1> HIDE DEF c, g, k
<1>7. orphans' \in Nat
  <2>1. c.sent \ c.got # {}
    BY <1>2, <1>5
  <2>2. IsFiniteSet(c.sent \ c.got)
    BY <1>6, FS_Difference
  <2>3. Cardinality(c.sent \ c.got) \in Nat /\ Cardinality(c.sent \ c.got) # 0
    BY <2>1, <2>2, FS_CardinalityType, FS_EmptySet
  <2>4. orphans + Cardinality(c.sent \ c.got) - 1 \in Nat
    BY <1>1, <2>3
  <2>5. QED
    BY <1>1, <1>3, <2>4
<1>8. begun' \in Nat
  BY <1>1, <1>2
<1>9. Metered'
  BY <1>1, <1>2, <1>4, <1>7, <1>8, LostMetered
<1>10. QED
  BY <1>1, <1>2, <1>4, <1>9, StillKept, StillReturned DEF Inv

LEMMA CancelledKeeps ==
  ASSUME Inv, NEW t \in Tasks, Cancelled(t)
  PROVE  Inv'
<1>1. /\ inner \in Inner /\ Kept(Memory) /\ CallsBegun /\ Metered
      /\ orphans \in Nat /\ begun \in Nat
  BY DEF Inv, Metered
<1>2. /\ call[t] # Idle /\ call' = [call EXCEPT ![t] = Idle]
      /\ inner' = inner /\ cache' = cache /\ usage' = usage /\ orphans' = orphans
      /\ begun' = begun /\ billed' = billed /\ recency' = recency
      /\ returned' = NothingReturned /\ raised' = TRUE
  BY DEF Cancelled, Waiting
<1>3. /\ CallsBegun' /\ Held \in Meter /\ Held' \in Meter
      /\ Cardinality(call[t].got) \in Nat /\ call[t].tokens \in Nat
      /\ Held'.calls + Cardinality(call[t].got) = Held.calls + 0
      /\ Held'.tokens + call[t].tokens = Held.tokens + 0
  BY <1>1, <1>2, CallEnds
<1>4. Metered'
  BY <1>1, <1>2, <1>3, LostMetered
<1>5. QED
  BY <1>1, <1>2, <1>3, <1>4, StillKept, StillReturned DEF Inv

LEMMA OrphanEndsKeeps ==
  ASSUME Inv, OrphanEnds
  PROVE  Inv'
<1>1. /\ inner \in Inner /\ Kept(Memory) /\ CallsBegun /\ Metered
      /\ orphans \in Nat /\ begun \in Nat /\ raised \in BOOLEAN /\ (orphans > 0 => raised)
  BY DEF Inv, Metered
<1>2. /\ orphans > 0 /\ orphans' = orphans - 1
      /\ inner' = inner /\ cache' = cache /\ usage' = usage /\ call' = call /\ begun' = begun
      /\ recency' = recency /\ returned' = NothingReturned /\ raised' = raised
  BY DEF OrphanEnds
<1>3. CallsBegun' /\ Held' = Held /\ Held \in Meter
  BY <1>1, <1>2, CallsStay, HeldTyped
<1>4. orphans' \in Nat /\ begun' \in Nat /\ raised' = TRUE
  BY <1>1, <1>2
<1>5. Metered'
  <2>1. CASE billed' = billed
    BY <1>1, <1>2, <1>3, <1>4, <2>1, StillMetered
  <2>2. CASE \E n \in Counts : billed' = Plus(billed, 1, n)
    <3>1. PICK n \in Counts : billed' = Plus(billed, 1, n)
      BY <2>2
    <3>2. n \in Nat
      BY SizeAssumption
    <3>3. QED
      BY <1>1, <1>2, <1>3, <1>4, <3>1, <3>2, BilledOnly
  <2>3. QED
    BY <2>1, <2>2 DEF OrphanEnds
<1>6. QED
  BY <1>1, <1>2, <1>3, <1>5, StillKept, StillReturned DEF Inv

LEMMA ResetUsageKeeps ==
  ASSUME Inv, ResetUsage
  PROVE  Inv'
<1>1. /\ inner \in Inner /\ Kept(Memory) /\ CallsBegun /\ orphans \in Nat /\ begun \in Nat
      /\ raised \in BOOLEAN /\ (orphans > 0 => raised)
  BY DEF Inv, Metered
<1>2. /\ usage' = NoUsage /\ billed' = Held /\ raised' = raised /\ returned' = NothingReturned
      /\ inner' = inner /\ cache' = cache /\ call' = call /\ orphans' = orphans /\ begun' = begun
      /\ recency' = recency
  BY DEF ResetUsage
<1>3. CallsBegun' /\ Held' = Held /\ Held \in Meter
  BY <1>1, <1>2, CallsStay, HeldTyped
<1>4. NoUsage \in Meter /\ NoUsage.calls = 0 /\ NoUsage.tokens = 0
  BY DEF NoUsage, Meter
<1>5. Held.calls \in Nat /\ Held.tokens \in Nat
  BY <1>3 DEF Meter
<1>6. CountedOnce'
  <2>1. /\ 0 + Held.calls = Held.calls /\ 0 + Held.tokens = Held.tokens
        /\ Held.calls <= Held.calls /\ Held.tokens <= Held.tokens
    BY <1>5
  <2>2. QED
    BY <1>2, <1>3, <1>4, <2>1 DEF CountedOnce
<1>7. Metered'
  BY <1>1, <1>2, <1>3, <1>4, <1>6 DEF Metered
<1>8. QED
  BY <1>1, <1>2, <1>3, <1>7, StillKept, StillReturned DEF Inv

LEMMA StutterKeeps ==
  ASSUME Inv, UNCHANGED vars
  PROVE  Inv'
<1>1. /\ inner \in Inner /\ Kept(Memory) /\ CallsBegun /\ Metered /\ Returned
      /\ orphans \in Nat /\ begun \in Nat /\ (orphans > 0 => raised)
  BY DEF Inv, Metered
<1>2. /\ inner' = inner /\ cache' = cache /\ usage' = usage /\ call' = call /\ orphans' = orphans
      /\ begun' = begun /\ billed' = billed /\ raised' = raised /\ recency' = recency /\ returned' = returned
  BY DEF vars
<1>3. CallsBegun' /\ Held' = Held
  BY <1>1, <1>2, CallsStay
<1>4. Metered'
  BY <1>1, <1>2, <1>3, StillMetered
<1>5. Returned'
  BY <1>1, <1>2 DEF Returned, EveryTextOrError
<1>6. QED
  BY <1>1, <1>2, <1>3, <1>4, <1>5, StillKept DEF Inv

LEMMA StepKeeps ==
  ASSUME Inv, [Next]_vars
  PROVE  Inv'
<1>1. CASE OrphanEnds
  BY <1>1, OrphanEndsKeeps
<1>2. CASE ResetUsage
  BY <1>2, ResetUsageKeeps
<1>3. ASSUME NEW t \in Tasks, Embed(t)
      PROVE  Inv'
  BY <1>3, EmbedKeeps
<1>4. ASSUME NEW t \in Tasks, InnerAnswered(t)
      PROVE  Inv'
  BY <1>4, InnerAnsweredKeeps
<1>5. ASSUME NEW t \in Tasks, ResponseRefused(t)
      PROVE  Inv'
  BY <1>5, ResponseRefusedKeeps
<1>6. ASSUME NEW t \in Tasks, SingleAnswered(t)
      PROVE  Inv'
  BY <1>6, SingleAnsweredKeeps
<1>7. ASSUME NEW t \in Tasks, Gathered(t)
      PROVE  Inv'
  BY <1>7, GatheredKeeps
<1>8. ASSUME NEW t \in Tasks, InnerRaises(t)
      PROVE  Inv'
  BY <1>8, InnerRaisesKeeps
<1>9. ASSUME NEW t \in Tasks, Cancelled(t)
      PROVE  Inv'
  BY <1>9, CancelledKeeps
<1>10. CASE UNCHANGED vars
  BY <1>10, StutterKeeps
<1>11. QED
  BY <1>1, <1>2, <1>3, <1>4, <1>5, <1>6, <1>7, <1>8, <1>9, <1>10 DEF Next

----------------------------------------------------------------------------
(* What holds in every behaviour *)

\* The inductive invariant: the cache is the end of the recency, every call in
\* progress is as Embed made it, what was returned is paired, the counters balance.
THEOREM Invariance == Spec => []Inv
<1>1. Init => Inv
  BY Begins
<1>2. Inv /\ [Next]_vars => Inv'
  BY StepKeeps
<1>3. QED
  BY <1>1, <1>2, PTL DEF Spec

\* However the misses of concurrent calls overlap (cache.py:142-149), the cache holds
\* at most cache_size keys, each once, each with a nonempty vector of its own.
THEOREM CacheSoundness == Spec => []CacheSound
<1>1. Inv => CacheSound
  <2> SUFFICES ASSUME Inv PROVE CacheSound
    OBVIOUS
  <2>1. Kept(Memory) /\ Memory.cache = cache /\ Memory.recency = recency
    BY DEF Inv, Memory
  <2> DEFINE n == Len(cache)
             l == Len(recency)
  <2>2. /\ cache \in Seq(Texts \X Texts) /\ recency \in Seq(Texts) /\ Once(recency)
        /\ n = Room(recency)
        /\ \A j \in DOMAIN cache : cache[j][1] = recency[l - n + j] /\ KeyOf[cache[j][2]] = cache[j][1]
    BY <2>1 DEF Kept
  <2>3. n \in Nat /\ l \in Nat /\ DOMAIN cache = 1..n /\ DOMAIN recency = 1..l
    BY <2>2
  <2>4. n <= CacheSize /\ n <= l
    BY <2>2, <2>3, SizeAssumption DEF Room
  <2>5. ASSUME NEW i \in DOMAIN cache, NEW j \in DOMAIN cache, cache[i][1] = cache[j][1]
        PROVE  i = j
    <3>1. i \in 1..n /\ j \in 1..n
      BY <2>3
    <3>2. l - n + i \in 1..l /\ l - n + j \in 1..l
      BY <2>3, <2>4, <3>1
    <3>3. recency[l - n + i] = recency[l - n + j]
      BY <2>2, <2>5
    <3>4. l - n + i = l - n + j
      BY <2>2, <2>3, <3>2, <3>3 DEF Once
    <3> HIDE DEF n, l
    <3>5. QED
      BY <2>3, <3>1, <3>4
  <2>6. ASSUME NEW i \in DOMAIN cache
        PROVE  cache[i][2] # NoText
    <3>1. cache[i] \in Texts \X Texts
      BY <2>2
    <3>2. QED
      BY <3>1, TextsAssumption
  <2>7. QED
    BY <2>2, <2>4, <2>5, <2>6 DEF CacheSound
<1>2. QED
  BY <1>1, Invariance, PTL

\* The cache holds exactly the keys used last, in the order they were used: what
\* move_to_end and popitem evict is what nobody had hit or stored for longest.
THEOREM LeastRecentlyUsed == Spec => []LeastRecentlyUsedGoes
<1>1. Inv => LeastRecentlyUsedGoes
  <2> SUFFICES ASSUME Inv PROVE LeastRecentlyUsedGoes
    OBVIOUS
  <2>1. Kept(Memory) /\ Memory.cache = cache /\ Memory.recency = recency
    BY DEF Inv, Memory
  <2> DEFINE n == Len(cache)
             l == Len(recency)
             last == SubSeq(recency, l - n + 1, l)
  <2>2. /\ cache \in Seq(Texts \X Texts) /\ recency \in Seq(Texts)
        /\ n = Room(recency)
        /\ \A j \in DOMAIN cache : cache[j][1] = recency[l - n + j]
    BY <2>1 DEF Kept
  <2>3. n \in Nat /\ l \in Nat /\ DOMAIN cache = 1..n /\ n <= l
    BY <2>2, SizeAssumption DEF Room
  <2>4. Keys(cache) = [j \in 1..n |-> recency[l - n + j]]
    BY <2>2, <2>3 DEF Keys
  <2>5. last = [j \in 1..n |-> recency[l - n + j]]
    <3>1. l - n + 1 \in 1..(l + 1) /\ l \in Nat /\ l - (l - n + 1) + 1 = n
      BY <2>3
    <3>2. last \in Seq(Texts) /\ Len(last) = n /\ \A j \in 1..n : last[j] = recency[l - n + j]
      BY <2>2, <2>3
    <3>3. last = [j \in 1..n |-> last[j]]
      BY <3>2
    <3>4. QED
      BY <3>2, <3>3
  <2>6. LeastRecentlyUsedGoes <=> Keys(cache) = last
    BY <2>2 DEF LeastRecentlyUsedGoes, Room
  <2>7. QED
    BY <2>4, <2>5, <2>6
<1>2. QED
  BY <1>1, Invariance, PTL

\* Whatever a provider reorders, drops or repeats, a vector a call returns stands in
\* the slot of a text of its own key.
THEOREM Pairing == Spec => []PairedByKey
<1>1. Inv => PairedByKey
  BY DEF Inv, Returned, Fits, PairedByKey
<1>2. QED
  BY <1>1, Invariance, PTL

\* With an index-pairing embedder no text comes back without a vector, from the cache
\* or from the provider: the call has them all or raises.
THEOREM Completeness == Spec => []EveryTextOrError
<1>1. Inv => EveryTextOrError
  BY DEF Inv, Returned
<1>2. QED
  BY <1>1, Invariance, PTL

\* Whatever overlaps, fails or is cancelled, no answer is counted twice or before it
\* came; until a call raises, every answer since the last reset is counted, or held by
\* an open gather, with its tokens, and Titan's gather as one call (cache.py:130-140).
THEOREM Counting == Spec => []CountedOnce
<1>1. Inv => CountedOnce
  BY DEF Inv, Metered
<1>2. QED
  BY <1>1, Invariance, PTL
=============================================================================
