---------------------------- MODULE CoverProofs ----------------------------
(***************************************************************************)
(* ArtworkResolver for any tracks, covers and cache sizes, and any number  *)
(* of changes and faults; then CoverLookup, one lookup of a cover, for any *)
(* answers of the providers.                                               *)
(***************************************************************************)
EXTENDS ArtworkResolver, CoverLookup, FiniteSetTheorems, SequenceTheorems,
        WellFoundedInduction, TLAPS

-----------------------------------------------------------------------------
(* Positions of a sequence.  What is true of every number is proved by     *)
(* looking at the least one of which it is not.                            *)

Less == {ij \in Nat \X Nat : ij[1] < ij[2]}

LEMMA LeastNumber ==
  ASSUME NEW S \in SUBSET Nat, S # {}
  PROVE  \E m \in S : \A n \in S : m <= n
<1>1. IsWellFoundedOn(Less, Nat)
  BY NatLessThanWellFounded DEF OpToRel, Less
<1>2. PICK m \in S : \A n \in S : ~(<<n, m>> \in Less)
  BY <1>1, WFMin
<1>3. ASSUME NEW n \in S PROVE m <= n
  <2>1. <<n, m>> \notin Less
    BY <1>2
  <2>2. m \in Nat /\ n \in Nat
    OBVIOUS
  <2>3. ~(n < m)
    BY <2>1, <2>2 DEF Less
  <2>4. QED
    BY <2>2, <2>3
<1>4. QED
  BY <1>3

UpTo(P, i) == {j \in P : j <= i}

LEMMA Positions ==
  ASSUME NEW m \in Nat, NEW P \in SUBSET (1 .. m)
  PROVE  \A j \in P : j \in Nat /\ 1 <= j /\ j <= m
  OBVIOUS

LEMMA Counts ==
  ASSUME NEW m \in Nat, NEW P \in SUBSET (1 .. m)
  PROVE  /\ IsFiniteSet(P) /\ Cardinality(P) \in 0 .. m
         /\ \A i \in 0 .. m :
              /\ IsFiniteSet(UpTo(P, i)) /\ Cardinality(UpTo(P, i)) \in Nat
              /\ Cardinality(UpTo(P, i)) <= Cardinality(P)
<1>1. IsFiniteSet(1 .. m) /\ Cardinality(1 .. m) = m
  BY FS_Interval
<1>2. IsFiniteSet(P) /\ Cardinality(P) <= m /\ Cardinality(P) \in Nat
  BY <1>1, FS_Subset, FS_CardinalityType
<1>3. ASSUME NEW i \in 0 .. m
      PROVE  /\ IsFiniteSet(UpTo(P, i)) /\ Cardinality(UpTo(P, i)) \in Nat
             /\ Cardinality(UpTo(P, i)) <= Cardinality(P)
  <2>1. UpTo(P, i) \subseteq P
    BY DEF UpTo
  <2>2. QED
    BY <2>1, <1>2, FS_Subset, FS_CardinalityType
<1>4. QED
  BY <1>2, <1>3

\* One more position is one more or none.
LEMMA CountsOne ==
  ASSUME NEW m \in Nat, NEW P \in SUBSET (1 .. m), NEW i \in 1 .. m
  PROVE  Cardinality(UpTo(P, i)) = Cardinality(UpTo(P, i - 1)) + (IF i \in P THEN 1 ELSE 0)
<1>1. i - 1 \in 0 .. m
  OBVIOUS
<1>2. IsFiniteSet(UpTo(P, i - 1)) /\ Cardinality(UpTo(P, i - 1)) \in Nat
  BY <1>1, Counts
<1>3. CASE i \in P
  <2>1. UpTo(P, i) = UpTo(P, i - 1) \union {i}
    <3>1. \A j \in P : j \in Nat /\ (j <= i <=> j <= i - 1 \/ j = i)
      BY Positions
    <3>2. QED
      BY <3>1, <1>3 DEF UpTo
  <2>2. i \notin UpTo(P, i - 1)
    BY DEF UpTo
  <2>3. Cardinality(UpTo(P, i - 1) \union {i}) = Cardinality(UpTo(P, i - 1)) + 1
    BY <1>2, <2>2, FS_AddElement
  <2>4. QED
    BY <2>1, <2>3, <1>3
<1>4. CASE i \notin P
  <2>1. UpTo(P, i) = UpTo(P, i - 1)
    <3>1. \A j \in P : j \in Nat /\ (j <= i <=> j <= i - 1)
      BY Positions, <1>4
    <3>2. QED
      BY <3>1 DEF UpTo
  <2>2. QED
    BY <2>1, <1>2, <1>4
<1>5. QED
  BY <1>3, <1>4

\* Every number up to the size is the number of one position.
LEMMA EveryNumber ==
  ASSUME NEW m \in Nat, NEW P \in SUBSET (1 .. m), NEW n \in 1 .. Cardinality(P)
  PROVE  \E i \in P : Cardinality(UpTo(P, i)) = n
<1> DEFINE Enough == {i \in 0 .. m : Cardinality(UpTo(P, i)) >= n}
<1>1. /\ IsFiniteSet(P) /\ Cardinality(P) \in 0 .. m
      /\ \A i \in 0 .. m : Cardinality(UpTo(P, i)) \in Nat
  BY Counts
<1>2. UpTo(P, m) = P
  BY Positions DEF UpTo
<1>3. m \in Enough
  BY <1>1, <1>2
<1>4. PICK i \in Enough : \A j \in Enough : i <= j
  <2>1. Enough \in SUBSET Nat
    OBVIOUS
  <2>2. QED
    BY <2>1, <1>3, LeastNumber
<1>5. i # 0
  <2>1. UpTo(P, 0) = {}
    <3>1. \A j \in P : ~(j <= 0)
      BY Positions
    <3>2. QED
      BY <3>1 DEF UpTo
  <2>2. Cardinality(UpTo(P, 0)) = 0
    BY <2>1, FS_EmptySet
  <2>3. QED
    BY <2>2, <1>1
<1>6. i \in 1 .. m /\ i - 1 \in 0 .. m /\ i - 1 \notin Enough
  BY <1>4, <1>5
<1>7. Cardinality(UpTo(P, i)) >= n /\ Cardinality(UpTo(P, i - 1)) < n
  BY <1>1, <1>6
<1>8. Cardinality(UpTo(P, i)) = Cardinality(UpTo(P, i - 1)) + (IF i \in P THEN 1 ELSE 0)
  BY <1>6, CountsOne
<1> HIDE DEF Enough
<1>9. i \in P /\ Cardinality(UpTo(P, i)) = n
  BY <1>1, <1>6, <1>7, <1>8
<1>10. QED
  BY <1>9

\* Two positions have different numbers.
LEMMA NumbersDiffer ==
  ASSUME NEW m \in Nat, NEW P \in SUBSET (1 .. m), NEW i \in P, NEW j \in P, i < j
  PROVE  Cardinality(UpTo(P, i)) < Cardinality(UpTo(P, j))
<1>1. /\ IsFiniteSet(UpTo(P, j)) /\ Cardinality(UpTo(P, j)) \in Nat
      /\ Cardinality(UpTo(P, i)) \in Nat
  <2>1. i \in 0 .. m /\ j \in 0 .. m
    BY Positions
  <2>2. QED
    BY <2>1, Counts
<1>2. UpTo(P, i) \subseteq UpTo(P, j) /\ j \in UpTo(P, j) /\ j \notin UpTo(P, i)
  <2>1. i \in Nat /\ j \in Nat /\ ~(j <= i) /\ j <= j
    BY Positions
  <2>2. \A k \in P : k <= i => k <= j
    BY Positions, <2>1
  <2>3. QED
    BY <2>1, <2>2 DEF UpTo
<1>3. UpTo(P, i) # UpTo(P, j)
  BY <1>2
<1>4. Cardinality(UpTo(P, i)) <= Cardinality(UpTo(P, j)) /\
      Cardinality(UpTo(P, i)) # Cardinality(UpTo(P, j))
  BY <1>1, <1>2, <1>3, FS_Subset
<1>5. QED
  BY <1>1, <1>4

-----------------------------------------------------------------------------
(* What a sequence has at some of its positions, and the dictionaries.     *)

LEMMA AtPositionsHas ==
  ASSUME NEW T, NEW s \in Seq(T), NEW P \in SUBSET DOMAIN s
  PROVE  /\ AtPositions(s, P) \in Seq(T)
         /\ Len(AtPositions(s, P)) = Cardinality(P)
         /\ Cardinality(P) \in 0 .. Len(s)
         /\ ToSet(AtPositions(s, P)) = {s[i] : i \in P}
<1> DEFINE m == Len(s)
           Nth(n) == CHOOSE i \in P : Cardinality({j \in P : j <= i}) = n
<1>1. m \in Nat /\ DOMAIN s = 1 .. m /\ \A i \in 1 .. m : s[i] \in T
  OBVIOUS
<1>2. P \in SUBSET (1 .. m)
  BY <1>1
<1>3. /\ Cardinality(P) \in 0 .. m
      /\ \A i \in P : Cardinality(UpTo(P, i)) \in 1 .. Cardinality(P)
  <2>1. Cardinality(P) \in 0 .. m
    BY <1>1, <1>2, Counts
  <2>2. ASSUME NEW i \in P PROVE Cardinality(UpTo(P, i)) \in 1 .. Cardinality(P)
    <3>1. i \in 1 .. m /\ i \in 0 .. m
      BY <1>1, <1>2
    <3>2. IsFiniteSet(UpTo(P, i)) /\ Cardinality(UpTo(P, i)) \in 0 .. Cardinality(P)
      BY <1>1, <1>2, <2>1, <3>1, Counts
    <3>3. i \in UpTo(P, i)
      BY <3>1 DEF UpTo
    <3>4. Cardinality(UpTo(P, i)) # 0
      BY <3>2, <3>3, FS_EmptySet
    <3>5. QED
      BY <3>2, <3>4, <2>1
  <2>3. QED
    BY <2>1, <2>2
<1>4. ASSUME NEW n \in 1 .. Cardinality(P)
      PROVE  Nth(n) \in P /\ Cardinality(UpTo(P, Nth(n))) = n
  <2>1. \E i \in P : Cardinality(UpTo(P, i)) = n
    BY <1>1, <1>2, EveryNumber
  <2>2. \E i \in P : Cardinality({j \in P : j <= i}) = n
    BY <2>1 DEF UpTo
  <2>3. Nth(n) \in P /\ Cardinality({j \in P : j <= Nth(n)}) = n
    BY <2>2, Zenon
  <2>4. QED
    BY <2>3, Zenon DEF UpTo
<1>5. ASSUME NEW i \in P
      PROVE  Nth(Cardinality(UpTo(P, i))) = i
  <2> DEFINE n == Cardinality(UpTo(P, i))
             k == Nth(n)
  <2>1. n \in 1 .. Cardinality(P)
    BY <1>3
  <2>2. k \in P /\ Cardinality(UpTo(P, k)) = n
    BY <2>1, <1>4
  <2>3. n \in Nat /\ i \in Nat /\ k \in Nat
    BY <2>1, <2>2, <1>1, <1>2, <1>3
  <2>4. ~(i < k) /\ ~(k < i)
    <3> HIDE DEF k, Nth
    <3>1. i < k => n < Cardinality(UpTo(P, k))
      BY <1>1, <1>2, <2>2, NumbersDiffer
    <3>2. k < i => Cardinality(UpTo(P, k)) < n
      BY <1>1, <1>2, <2>2, NumbersDiffer
    <3>3. QED
      BY <3>1, <3>2, <2>2, <2>3
  <2>5. k = i
    <3> HIDE DEF k
    <3>1. QED
      BY <2>3, <2>4
  <2>6. QED
    BY <2>5
<1> HIDE DEF Nth
<1>6. AtPositions(s, P) = [n \in 1 .. Cardinality(P) |-> s[Nth(n)]]
  BY DEF AtPositions, Nth
<1>7. AtPositions(s, P) \in Seq(T) /\ Len(AtPositions(s, P)) = Cardinality(P)
  <2>1. \A n \in 1 .. Cardinality(P) : s[Nth(n)] \in T
    BY <1>1, <1>2, <1>4
  <2>2. QED
    BY <1>3, <1>6, <2>1
<1>8. ToSet(AtPositions(s, P)) = {s[i] : i \in P}
  <2>1. ToSet(AtPositions(s, P)) = {s[Nth(n)] : n \in 1 .. Cardinality(P)}
    BY <1>6 DEF ToSet
  <2>2. \A n \in 1 .. Cardinality(P) : s[Nth(n)] \in {s[i] : i \in P}
    BY <1>4
  <2>3. ASSUME NEW i \in P PROVE s[i] \in {s[Nth(n)] : n \in 1 .. Cardinality(P)}
    BY <1>3, <1>5
  <2>4. QED
    BY <2>1, <2>2, <2>3
<1>9. QED
  BY <1>1, <1>3, <1>7, <1>8

LEMMA Elements ==
  ASSUME NEW T, NEW s \in Seq(T)
  PROVE  /\ ToSet(s) \subseteq T
         /\ \A e : Contains(s, e) <=> e \in ToSet(s)
  BY DEF ToSet, Contains

LEMMA KeepingHas ==
  ASSUME NEW T, NEW s \in Seq(T), NEW S
  PROVE  /\ Keeping(s, S) \in Seq(T)
         /\ ToSet(Keeping(s, S)) = ToSet(s) \intersect S
         /\ Len(Keeping(s, S)) <= Len(s)
<1> DEFINE P == {i \in DOMAIN s : s[i] \in S}
<1>1. P \in SUBSET DOMAIN s
  OBVIOUS
<1>2. {s[i] : i \in P} = ToSet(s) \intersect S
  BY DEF ToSet
<1>3. Keeping(s, S) = AtPositions(s, P)
  BY DEF Keeping
<1> HIDE DEF P
<1>4. QED
  BY <1>1, <1>2, <1>3, AtPositionsHas

LEMMA WithoutHas ==
  ASSUME NEW T, NEW s \in Seq(T), NEW k
  PROVE  /\ Without(s, k) \in Seq(T)
         /\ ToSet(Without(s, k)) = ToSet(s) \ {k}
         /\ Len(Without(s, k)) <= Len(s)
         /\ k \in ToSet(s) => Len(Without(s, k)) < Len(s)
<1> DEFINE P == {i \in DOMAIN s : s[i] # k}
<1>1. P \in SUBSET DOMAIN s
  OBVIOUS
<1>2. {s[i] : i \in P} = ToSet(s) \ {k}
  BY DEF ToSet
<1>3. Without(s, k) = AtPositions(s, P)
  BY DEF Without
<1>4. ASSUME k \in ToSet(s) PROVE P # DOMAIN s
  BY <1>4 DEF ToSet
<1>5. Len(s) \in Nat /\ DOMAIN s = 1 .. Len(s)
  OBVIOUS
<1> HIDE DEF P
<1>6. ASSUME k \in ToSet(s) PROVE Cardinality(P) # Len(s)
  <2>1. IsFiniteSet(1 .. Len(s)) /\ Cardinality(1 .. Len(s)) = Len(s)
    BY <1>5, FS_Interval
  <2>2. QED
    BY <2>1, <1>1, <1>4, <1>5, <1>6, FS_Subset
<1>7. QED
  BY <1>1, <1>2, <1>3, <1>5, <1>6, AtPositionsHas

LEMMA MoveToEndHas ==
  ASSUME NEW T, NEW s \in Seq(T), NEW k \in T
  PROVE  /\ MoveToEnd(s, k) \in Seq(T)
         /\ ToSet(MoveToEnd(s, k)) = ToSet(s) \union {k}
         /\ Len(MoveToEnd(s, k)) # 0
         /\ MoveToEnd(s, k)[Len(MoveToEnd(s, k))] = k
         /\ k \in ToSet(s) => Len(MoveToEnd(s, k)) <= Len(s)
<1> DEFINE w == Without(s, k)
<1>1. /\ w \in Seq(T) /\ ToSet(w) = ToSet(s) \ {k}
      /\ k \in ToSet(s) => Len(w) < Len(s)
  BY WithoutHas
<1>2. MoveToEnd(s, k) = Append(w, k)
  BY DEF MoveToEnd
<1> HIDE DEF w
<1>3. ToSet(Append(w, k)) = ToSet(w) \union {k}
  <2>1. /\ DOMAIN Append(w, k) = DOMAIN w \union {Len(w) + 1}
        /\ \A i \in DOMAIN w : Append(w, k)[i] = w[i]
        /\ Append(w, k)[Len(w) + 1] = k
    BY <1>1
  <2>2. QED
    BY <2>1 DEF ToSet
<1>4. /\ Append(w, k) \in Seq(T) /\ Len(Append(w, k)) = Len(w) + 1
      /\ Append(w, k)[Len(w) + 1] = k /\ Len(w) \in Nat /\ Len(s) \in Nat
  BY <1>1
<1>5. QED
  BY <1>1, <1>2, <1>3, <1>4

LEMMA NewestHas ==
  ASSUME NEW T, NEW s \in Seq(T), NEW n \in Nat
  PROVE  /\ Newest(s, n) \in Seq(T)
         /\ ToSet(Newest(s, n)) \subseteq ToSet(s)
         /\ Len(Newest(s, n)) <= n
         /\ n # 0 /\ Len(s) # 0 => s[Len(s)] \in ToSet(Newest(s, n))
<1>1. CASE Len(s) <= n
  BY <1>1 DEF Newest, ToSet
<1>2. CASE ~(Len(s) <= n)
  <2> DEFINE t == SubSeq(s, Len(s) - n + 1, Len(s))
  <2>1. Newest(s, n) = t
    BY <1>2 DEF Newest
  <2>2. /\ t \in Seq(T) /\ Len(t) = n
        /\ \A i \in 1 .. n : t[i] = s[Len(s) - n + i]
    BY <1>2
  <2> HIDE DEF t
  <2>3. \A i \in 1 .. n : Len(s) - n + i \in DOMAIN s
    BY <1>2
  <2>4. DOMAIN t = 1 .. n
    BY <2>2
  <2>5. ToSet(t) \subseteq ToSet(s)
    BY <2>2, <2>3, <2>4 DEF ToSet
  <2>6. n # 0 => s[Len(s)] \in ToSet(t)
    <3>1. SUFFICES ASSUME n # 0 PROVE s[Len(s)] \in ToSet(t)
      OBVIOUS
    <3>2. n \in 1 .. n /\ Len(s) - n + n = Len(s)
      BY <3>1
    <3>3. t[n] = s[Len(s)]
      BY <2>2, <3>2
    <3>4. QED
      BY <2>4, <3>2, <3>3 DEF ToSet
  <2>7. QED
    BY <2>1, <2>2, <2>5, <2>6
<1>3. QED
  BY <1>1, <1>2

-----------------------------------------------------------------------------

(***************************************************************************)
(* The resolver was told of the track, unless the D-Bus thread is about to *)
(* do so; and then it works on another.                                    *)
(***************************************************************************)
Told == ~stop => (current = track <=> dbus = "poll")

(***************************************************************************)
(* The slot holds the latest request or nothing, and nothing while the     *)
(* worker is at the latest request.                                        *)
(***************************************************************************)
Slot ==
  /\ pending # NoRequest => pending.generation = generation /\ pending.track = current
  /\ worker.at \in Working =>
       /\ worker.generation <= generation
       /\ worker.generation = generation /\ ~stop => worker.track = current /\ pending = NoRequest

(***************************************************************************)
(* Whoever shows a cover shows that of its track, which is published, and  *)
(* nothing is under way that could publish another.                        *)
(***************************************************************************)
Shown ==
  /\ worker.at = "offer" => published = worker.track
  /\ cover # None =>
       /\ cover = track /\ published = cover
       /\ dbus = "poll" /\ pending = NoRequest /\ worker.at \notin Working

(***************************************************************************)
(* A track whose lookup was refused is in the negative cache, and neither  *)
(* in the other one nor asked for.                                         *)
(***************************************************************************)
Refusals ==
  /\ refused \subseteq ToSet(negative)
  /\ refused \intersect ToSet(positive) = {}
  /\ worker.at \in Working \ {"lookup"} => worker.track \notin refused
  /\ worker.at \in {"search", "fetch", "store"} => worker.track \notin ToSet(positive)

RInv == ResolverKept /\ Told /\ Slot /\ Shown /\ Refusals

-----------------------------------------------------------------------------
(* The types.                                                              *)

\* The worker's variables, where it works and where it waits.
LEMMA WorkerIs ==
  ASSUME TypeOK
  PROVE  /\ worker.at \in Waiting \union Working
         /\ worker.at \in Working =>
              worker \in [at : Working, track : Tracks, generation : Nat, fresh : BOOLEAN]
         /\ worker.at \in Waiting => worker = At(worker.at)
  BY DEF TypeOK, Waiting, Working, At

LEMMA SequencesAre ==
  ASSUME TypeOK
  PROVE  positive \in Seq(Tracks) /\ negative \in Seq(Tracks) /\ disk \in Seq(Tracks)
  BY DEF TypeOK

LEMMA NextIs == At("next") \in {At(w) : w \in Waiting}
  BY DEF Waiting

LEMMA NotifiedIs ==
  ASSUME TypeOK
  PROVE  /\ Notified \in {worker, At("next")}
         /\ worker.at \in Working => Notified = worker
  BY DEF Notified, Working

\* The request comes back into the slot if nothing has taken its place.
LEMMA AgainDoes ==
  ASSUME TypeOK, worker.at \in Working, Again
  PROVE  /\ UNCHANGED <<serviceVars, generation, current, stop>>
         /\ worker' = At("next")
         /\ pending' \in Request \union {NoRequest}
         /\ pending' = IF Matches
                       THEN [track |-> worker.track, generation |-> worker.generation, waits |-> TRUE]
                       ELSE pending
<1>1. worker.track \in Tracks /\ worker.generation \in Nat
  BY WorkerIs
<1>2. pending \in Request \union {NoRequest}
  BY DEF TypeOK
<1>3. QED
  BY <1>1, <1>2 DEF Again, Request

\* The negative cache takes the track.
LEMMA DeferDoes ==
  ASSUME TypeOK, worker.at \in Working, NEW asked \in BOOLEAN, Defer(asked)
  PROVE  /\ Again
         /\ negative' \in Seq(Tracks) /\ Len(negative') <= MaxNegative
         /\ early' \subseteq Tracks
         /\ refused' \subseteq early' /\ refused' \subseteq ToSet(negative')
         /\ refused' \subseteq refused \union (IF asked THEN {worker.track} ELSE {})
<1>1. worker.track \in Tracks /\ negative \in Seq(Tracks)
  BY WorkerIs, SequencesAre
<1>2. MoveToEnd(negative, worker.track) \in Seq(Tracks)
  BY <1>1, MoveToEndHas
<1>3. MaxNegative \in Nat
  BY LimitAssumption
<1>4. negative' \in Seq(Tracks) /\ Len(negative') <= MaxNegative
  BY <1>2, <1>3, NewestHas DEF Defer
<1>5. refused \subseteq early /\ early \subseteq Tracks
  BY DEF TypeOK
<1>6. QED
  BY <1>1, <1>4, <1>5 DEF Defer

LEMMA FaultCounted ==
  ASSUME TypeOK, NEW kind, Fault(kind)
  PROVE  faults' \in 0 .. MaxFaults
<1>1. faults \in Nat /\ MaxFaults \in Nat
  BY BoundAssumption DEF TypeOK
<1>2. QED
  BY <1>1 DEF Fault, TypeOK

LEMMA DBusTypes ==
  ASSUME TypeOK, DBus
  PROVE  TypeOK'
<1> USE DEF serviceVars, slotVars, cacheVars, retryVars
<1>1. ASSUME NEW t \in Tracks \union {None}, TrackChanges(t)
      PROVE  TypeOK'
  <2>1. changes' \in 0 .. MaxChanges
    BY <1>1, BoundAssumption DEF TypeOK, TrackChanges
  <2>2. QED
    BY <1>1, <2>1 DEF TypeOK, TrackChanges
<1>2. CASE Cancel
  <2>1. \/ worker' \in {At(w) : w \in Waiting}
        \/ worker' \in [at : Working, track : Tracks, generation : Nat, fresh : BOOLEAN]
    BY <1>2, NotifiedIs, NextIs DEF TypeOK, Cancel
  <2>2. generation' \in Nat
    BY <1>2 DEF TypeOK, Cancel
  <2>3. QED
    BY <1>2, <2>1, <2>2 DEF TypeOK, Cancel
<1>3. CASE Ask
  <2>1. \/ worker' \in {At(w) : w \in Waiting}
        \/ worker' \in [at : Working, track : Tracks, generation : Nat, fresh : BOOLEAN]
    BY <1>3, NotifiedIs, NextIs DEF TypeOK, Ask
  <2>2. generation' \in Nat /\ track \in Tracks
    BY <1>3 DEF TypeOK, Ask
  <2>3. pending' \in Request
    BY <1>3, <2>2 DEF Ask, Request
  <2>4. QED
    BY <1>3, <2>1, <2>2, <2>3 DEF TypeOK, Ask
<1>4. CASE AskInVain
  BY <1>4 DEF TypeOK, AskInVain
<1>5. QED
  BY <1>1, <1>2, <1>3, <1>4 DEF DBus

\* Steps that leave the caches alone, and lead the worker somewhere.
LEMMA MoveTypes ==
  ASSUME TypeOK, UNCHANGED <<serviceVars, generation, current, stop, cacheVars, retryVars, faults>>,
         pending' \in Request \union {NoRequest}, published' \in Tracks \union {None},
         \/ worker' \in {At(w) : w \in Waiting}
         \/ worker' \in [at : Working, track : Tracks, generation : Nat, fresh : BOOLEAN]
  PROVE  TypeOK'
  BY DEF TypeOK, serviceVars, cacheVars, retryVars

LEMMA GotoIs ==
  ASSUME TypeOK, worker.at \in Working, NEW where \in Working, Goto(where)
  PROVE  /\ worker' \in [at : Working, track : Tracks, generation : Nat, fresh : BOOLEAN]
         /\ worker'.at = where /\ worker'.track = worker.track
         /\ worker'.generation = worker.generation /\ worker'.fresh = worker.fresh
  BY WorkerIs DEF Goto

LEMMA RequestTypes ==
  ASSUME TypeOK,
         \/ WorkerTakes \/ WorkerWaits \/ WorkerEnds
         \/ SearchSucceeds \/ Check \/ Publish
  PROVE  TypeOK'
<1>1. CASE WorkerTakes
  <2>1. pending \in Request
    BY <1>1 DEF TypeOK, WorkerTakes
  <2>2. worker' \in [at : Working, track : Tracks, generation : Nat, fresh : BOOLEAN]
    BY <1>1, <2>1 DEF WorkerTakes, Request, Working
  <2>3. QED
    BY <1>1, <2>2, MoveTypes DEF WorkerTakes, TypeOK
<1>2. CASE WorkerWaits
  <2>1. worker' \in {At(w) : w \in Waiting}
    BY <1>2 DEF WorkerWaits, Waiting
  <2>2. QED
    BY <1>2, <2>1, MoveTypes DEF WorkerWaits, TypeOK, slotVars
<1>3. CASE WorkerEnds
  <2>1. worker' \in {At(w) : w \in Waiting}
    BY <1>3 DEF WorkerEnds, Waiting
  <2>2. QED
    BY <1>3, <2>1, MoveTypes DEF WorkerEnds, TypeOK, slotVars
<1>4. CASE SearchSucceeds
  <2>1. worker.at \in Working /\ "fetch" \in Working
    BY <1>4 DEF SearchSucceeds, Working
  <2>2. \/ worker' \in {At(w) : w \in Waiting}
        \/ worker' \in [at : Working, track : Tracks, generation : Nat, fresh : BOOLEAN]
    BY <1>4, <2>1, GotoIs, NextIs DEF SearchSucceeds
  <2>3. QED
    BY <1>4, <2>2, MoveTypes DEF SearchSucceeds, TypeOK, slotVars
<1>5. CASE Check
  <2>1. worker.at \in Working /\ "publish" \in Working
    BY <1>5 DEF Check, Working
  <2>2. \/ worker' \in {At(w) : w \in Waiting}
        \/ worker' \in [at : Working, track : Tracks, generation : Nat, fresh : BOOLEAN]
    BY <1>5, <2>1, GotoIs, NextIs DEF Check
  <2>3. QED
    BY <1>5, <2>2, MoveTypes DEF Check, TypeOK, slotVars
<1>6. CASE Publish
  <2>1. worker.at \in Working /\ "offer" \in Working
    BY <1>6 DEF Publish, Working
  <2>2. /\ worker' \in [at : Working, track : Tracks, generation : Nat, fresh : BOOLEAN]
        /\ worker.track \in Tracks
    BY <1>6, <2>1, GotoIs, WorkerIs DEF Publish
  <2>3. QED
    BY <1>6, <2>2, MoveTypes DEF Publish, TypeOK, slotVars
<1>7. QED
  BY <1>1, <1>2, <1>3, <1>4, <1>5, <1>6

\* What the steps at the caches do to them.
LEMMA ForgetDoes ==
  ASSUME TypeOK, NEW k
  PROVE  /\ Without(negative, k) \in Seq(Tracks)
         /\ Len(Without(negative, k)) <= MaxNegative
         /\ ToSet(Without(negative, k)) = ToSet(negative) \ {k}
<1>1. /\ negative \in Seq(Tracks) /\ Len(negative) \in Nat /\ Len(negative) <= MaxNegative
      /\ MaxNegative \in Nat
  BY LimitAssumption DEF TypeOK
<1>2. /\ Without(negative, k) \in Seq(Tracks)
      /\ Len(Without(negative, k)) <= Len(negative) /\ Len(Without(negative, k)) \in Nat
      /\ ToSet(Without(negative, k)) = ToSet(negative) \ {k}
  BY <1>1, WithoutHas
<1>3. QED
  BY <1>1, <1>2

LEMMA CacheHitDoes ==
  ASSUME TypeOK, CacheHit
  PROVE  /\ worker.at \in Working /\ Goto("check") /\ "check" \in Working
         /\ worker.track \in ToSet(positive)
         /\ positive' \in Seq(Tracks) /\ Len(positive') <= MaxPositive
         /\ ToSet(positive') = ToSet(positive)
<1>1. worker.at \in Working /\ Goto("check") /\ "check" \in Working
  BY DEF CacheHit, Working
<1>2. /\ positive \in Seq(Tracks)
      /\ Len(positive) \in Nat /\ Len(positive) <= MaxPositive /\ MaxPositive \in Nat
  BY LimitAssumption DEF TypeOK
<1>3. PICK t \in Tracks : t = worker.track
  BY <1>1, WorkerIs
<1>4. t \in ToSet(positive) /\ positive' = MoveToEnd(positive, t)
  BY <1>2, <1>3, Elements DEF CacheHit
<1>5. /\ MoveToEnd(positive, t) \in Seq(Tracks)
      /\ ToSet(MoveToEnd(positive, t)) = ToSet(positive) \union {t}
      /\ t \in ToSet(positive) => Len(MoveToEnd(positive, t)) <= Len(positive)
  BY <1>2, MoveToEndHas
<1>6. /\ positive' \in Seq(Tracks) /\ Len(positive') <= Len(positive)
      /\ ToSet(positive') = ToSet(positive)
  BY <1>4, <1>5
<1>7. Len(positive') \in Nat
  BY <1>6
<1>8. QED
  BY <1>1, <1>2, <1>3, <1>4, <1>5, <1>6, <1>7

\* A cover that is stored is known; what is forgotten for it is removed.
LEMMA StoreDoes ==
  ASSUME TypeOK, Store, Contains(disk, worker.track)
  PROVE  /\ worker.at \in Working
         /\ UNCHANGED <<serviceVars, slotVars, early, refused, published, faults>>
         /\ negative' = Without(negative, worker.track)
         /\ worker' = [worker EXCEPT !.at = "check", !.fresh = TRUE]
         /\ positive' \in Seq(Tracks) /\ Len(positive') <= MaxPositive
         /\ ToSet(positive') \subseteq ToSet(positive) \union {worker.track}
         /\ worker.track \in ToSet(positive')
         /\ disk' \in Seq(Tracks)
         /\ ToSet(disk') = ToSet(disk) \ (ToSet(positive) \ ToSet(positive'))
         /\ damaged' \subseteq ToSet(disk')
<1>1. worker.at \in Working
  BY DEF Store, Working
<1>2. worker.track \in Tracks /\ positive \in Seq(Tracks) /\ disk \in Seq(Tracks)
  BY <1>1, WorkerIs, SequencesAre
<1>9. PICK t \in Tracks : t = worker.track
  BY <1>2
<1> DEFINE moved == MoveToEnd(positive, t)
<1>3. /\ UNCHANGED <<serviceVars, slotVars, early, refused, published, faults>>
      /\ negative' = Without(negative, worker.track)
      /\ worker' = [worker EXCEPT !.at = "check", !.fresh = TRUE]
      /\ positive' = Newest(moved, MaxPositive)
      /\ disk' = Keeping(disk, ToSet(disk) \ (ToSet(positive) \ ToSet(positive')))
      /\ damaged' = damaged \intersect ToSet(disk')
  BY <1>9 DEF Store
<1>4. /\ moved \in Seq(Tracks) /\ ToSet(moved) = ToSet(positive) \union {t}
      /\ Len(moved) # 0 /\ moved[Len(moved)] = t
  BY <1>2, MoveToEndHas
<1>5. MaxPositive \in Nat /\ MaxPositive # 0
  BY LimitAssumption
<1> HIDE DEF moved
<1>6. /\ positive' \in Seq(Tracks) /\ Len(positive') <= MaxPositive
      /\ ToSet(positive') \subseteq ToSet(moved) /\ t \in ToSet(positive')
  BY <1>3, <1>4, <1>5, NewestHas
<1>7. /\ disk' \in Seq(Tracks)
      /\ ToSet(disk') = ToSet(disk) \ (ToSet(positive) \ ToSet(positive'))
  BY <1>2, <1>3, KeepingHas
<1>8. QED
  BY <1>1, <1>3, <1>4, <1>6, <1>7, <1>9

\* What was damaged on disk is dropped, and what was not there is not known.
LEMMA DropDoes ==
  ASSUME TypeOK, Drop
  PROVE  /\ worker.at \in Working
         /\ IF worker.fresh
            THEN Defer(TRUE)
            ELSE Goto("lookup") /\ UNCHANGED <<serviceVars, slotVars, retryVars>>
         /\ UNCHANGED <<published, faults>>
         /\ positive' \in Seq(Tracks) /\ Len(positive') <= MaxPositive
         /\ ToSet(positive') = ToSet(positive) \ {worker.track}
         /\ disk' \in Seq(Tracks) /\ ToSet(disk') = ToSet(disk) \ {worker.track}
         /\ damaged' \subseteq ToSet(disk')
<1>1. worker.at \in Working
  BY DEF Drop, Working
<1>2. /\ positive \in Seq(Tracks) /\ disk \in Seq(Tracks) /\ damaged \subseteq ToSet(disk)
      /\ Len(positive) \in Nat /\ Len(positive) <= MaxPositive /\ MaxPositive \in Nat
  BY LimitAssumption DEF TypeOK
<1>3. /\ positive' = Without(positive, worker.track) /\ disk' = Without(disk, worker.track)
      /\ damaged' = damaged \ {worker.track} /\ UNCHANGED <<published, faults>>
      /\ IF worker.fresh
         THEN Defer(TRUE)
         ELSE Goto("lookup") /\ UNCHANGED <<serviceVars, slotVars, retryVars>>
  BY DEF Drop
<1>4. /\ positive' \in Seq(Tracks) /\ Len(positive') <= Len(positive) /\ Len(positive') \in Nat
      /\ ToSet(positive') = ToSet(positive) \ {worker.track}
  BY <1>2, <1>3, WithoutHas
<1>5. disk' \in Seq(Tracks) /\ ToSet(disk') = ToSet(disk) \ {worker.track}
  BY <1>2, <1>3, WithoutHas
<1>6. damaged' \subseteq ToSet(disk')
  BY <1>2, <1>3, <1>5
<1>7. Len(positive') <= MaxPositive
  BY <1>2, <1>4
<1>8. QED
  BY <1>1, <1>3, <1>4, <1>5, <1>6, <1>7

LEMMA FetchDoes ==
  ASSUME TypeOK, FetchSucceeds
  PROVE  /\ worker.at \in Working /\ Goto("store") /\ "store" \in Working
         /\ UNCHANGED <<serviceVars, slotVars, positive, retryVars, published, faults>>
         /\ disk' \in Seq(Tracks) /\ ToSet(disk') = ToSet(disk) \union {worker.track}
         /\ damaged' \subseteq ToSet(disk')
<1>1. worker.at \in Working /\ Goto("store") /\ "store" \in Working
  BY DEF FetchSucceeds, Working
<1>2. worker.track \in Tracks /\ disk \in Seq(Tracks) /\ damaged \subseteq ToSet(disk)
  BY <1>1, WorkerIs DEF TypeOK
<1>3. PICK t \in Tracks :
        t = worker.track /\ disk' = MoveToEnd(disk, t) /\ damaged' = damaged \ {t}
  BY <1>2 DEF FetchSucceeds
<1>4. /\ MoveToEnd(disk, t) \in Seq(Tracks)
      /\ ToSet(MoveToEnd(disk, t)) = ToSet(disk) \union {t}
  BY <1>2, MoveToEndHas
<1>5. UNCHANGED <<serviceVars, slotVars, positive, retryVars, published, faults>>
  BY DEF FetchSucceeds
<1>6. QED
  BY <1>1, <1>2, <1>3, <1>4, <1>5

\* Only a lookup is refused: the cover was not in the cache.
LEMMA FailureDefers ==
  ASSUME TypeOK, \/ LookupFails
                 \/ PublishFails
                 \/ Store /\ ~Contains(disk, worker.track)
  PROVE  /\ worker.at \in Working
         /\ UNCHANGED <<cacheVars, published>> /\ faults' \in 0 .. MaxFaults
         /\ \E asked \in BOOLEAN :
              /\ Defer(asked)
              /\ asked => worker.at \in {"search", "fetch", "store"}
<1>1. CASE LookupFails
  <2>1. faults' \in 0 .. MaxFaults
    BY <1>1, FaultCounted DEF LookupFails, TypeOK
  <2>2. QED
    BY <1>1, <2>1 DEF LookupFails, Working
<1>2. CASE PublishFails
  <2>1. faults' \in 0 .. MaxFaults
    BY <1>2, FaultCounted DEF PublishFails
  <2>2. QED
    BY <1>2, <2>1 DEF PublishFails, Working
<1>3. CASE Store /\ ~Contains(disk, worker.track)
  BY <1>3 DEF Store, Working, TypeOK
<1>4. QED
  BY <1>1, <1>2, <1>3

LEMMA RestartDoes ==
  ASSUME TypeOK, Restart
  PROVE  /\ positive' \in Seq(Tracks) /\ Len(positive') <= MaxPositive
         /\ faults' \in 0 .. MaxFaults
<1>1. disk \in Seq(Tracks) /\ MaxPositive \in Nat
  BY LimitAssumption DEF TypeOK
<1>2. Keeping(disk, ToSet(disk) \ damaged) \in Seq(Tracks)
  BY <1>1, KeepingHas
<1>3. positive' = Newest(Keeping(disk, ToSet(disk) \ damaged), MaxPositive)
  BY DEF Restart
<1>4. positive' \in Seq(Tracks) /\ Len(positive') <= MaxPositive
  BY <1>1, <1>2, <1>3, NewestHas
<1>5. QED
  BY <1>4, FaultCounted DEF Restart

LEMMA RemovedDoes ==
  ASSUME TypeOK, NEW t \in Tracks, CacheRemoved(t)
  PROVE  /\ disk' \in Seq(Tracks) /\ ToSet(disk') = ToSet(disk) \ {t}
         /\ damaged' \subseteq ToSet(disk')
         /\ UNCHANGED <<serviceVars, slotVars, worker, positive, retryVars, published>>
         /\ faults' \in 0 .. MaxFaults
<1>1. disk \in Seq(Tracks) /\ damaged \subseteq ToSet(disk)
  BY DEF TypeOK
<1>2. disk' = Without(disk, t) /\ damaged' = damaged \ {t}
  BY DEF CacheRemoved
<1>3. disk' \in Seq(Tracks) /\ ToSet(disk') = ToSet(disk) \ {t}
  BY <1>1, <1>2, WithoutHas
<1>4. QED
  BY <1>1, <1>2, <1>3, FaultCounted DEF CacheRemoved

\* Steps at the caches, given what they do.
LEMMA CacheTypes ==
  ASSUME TypeOK,
         UNCHANGED <<track, dbus, changes, generation, current, stop, published>>,
         cover' \in Tracks \union {None},
         pending' \in Request \union {NoRequest},
         \/ worker' \in {At(w) : w \in Waiting}
         \/ worker' \in [at : Working, track : Tracks, generation : Nat, fresh : BOOLEAN],
         positive' \in Seq(Tracks), Len(positive') <= MaxPositive,
         negative' \in Seq(Tracks), Len(negative') <= MaxNegative,
         disk' \in Seq(Tracks), damaged' \subseteq ToSet(disk'),
         refused' \subseteq early', early' \subseteq Tracks,
         faults' \in 0 .. MaxFaults
  PROVE  TypeOK'
  BY DEF TypeOK

LEMMA LookupTypes ==
  ASSUME TypeOK,
         \/ CacheHit \/ CacheMiss \/ FetchSucceeds \/ LookupFails \/ Store
         \/ PublishFails \/ Drop \/ Offer
  PROVE  TypeOK'
<1>0. /\ cover \in Tracks \union {None} /\ track \in Tracks \union {None}
      /\ pending \in Request \union {NoRequest}
      /\ positive \in Seq(Tracks) /\ Len(positive) <= MaxPositive
      /\ negative \in Seq(Tracks) /\ Len(negative) <= MaxNegative
      /\ disk \in Seq(Tracks) /\ damaged \subseteq ToSet(disk)
      /\ refused \subseteq early /\ early \subseteq Tracks
      /\ faults \in 0 .. MaxFaults
  BY DEF TypeOK
<1>1. CASE CacheHit
  <2>1. worker' \in [at : Working, track : Tracks, generation : Nat, fresh : BOOLEAN]
    BY <1>1, CacheHitDoes, GotoIs
  <2>2. positive' \in Seq(Tracks) /\ Len(positive') <= MaxPositive
    BY <1>1, CacheHitDoes
  <2>3. QED
    BY <1>0, <1>1, <2>1, <2>2, CacheTypes DEF CacheHit, serviceVars, slotVars, retryVars
<1>2. CASE CacheMiss
  <2>1. worker.at \in Working /\ "search" \in Working
    BY <1>2 DEF CacheMiss, Working
  <2>2. CASE Again /\ UNCHANGED negative
    BY <1>0, <1>2, <2>1, <2>2, AgainDoes, NextIs, CacheTypes
       DEF CacheMiss, serviceVars, cacheVars
  <2>3. CASE /\ negative' = Without(negative, worker.track)
             /\ Goto("search")
             /\ UNCHANGED <<serviceVars, slotVars>>
    <3>1. worker' \in [at : Working, track : Tracks, generation : Nat, fresh : BOOLEAN]
      BY <2>1, <2>3, GotoIs
    <3>2. negative' \in Seq(Tracks) /\ Len(negative') <= MaxNegative
      BY <2>3, ForgetDoes
    <3>3. QED
      BY <1>0, <1>2, <2>3, <3>1, <3>2, CacheTypes DEF CacheMiss, serviceVars, slotVars, cacheVars
  <2>4. QED
    BY <1>2, <2>2, <2>3 DEF CacheMiss
<1>3. CASE FetchSucceeds
  <2>1. worker' \in [at : Working, track : Tracks, generation : Nat, fresh : BOOLEAN]
    BY <1>3, FetchDoes, GotoIs
  <2>2. /\ UNCHANGED <<serviceVars, slotVars, positive, retryVars, published, faults>>
        /\ disk' \in Seq(Tracks) /\ damaged' \subseteq ToSet(disk')
    BY <1>3, FetchDoes
  <2>3. QED
    BY <1>0, <2>1, <2>2, CacheTypes DEF serviceVars, slotVars, retryVars
<1>4. CASE \/ LookupFails
           \/ PublishFails
           \/ Store /\ ~Contains(disk, worker.track)
  <2>1. /\ worker.at \in Working
        /\ UNCHANGED <<cacheVars, published>> /\ faults' \in 0 .. MaxFaults
    BY <1>4, FailureDefers
  <2>2. PICK asked \in BOOLEAN : Defer(asked)
    BY <1>4, FailureDefers
  <2>3. QED
    BY <1>0, <2>1, <2>2, DeferDoes, AgainDoes, NextIs, CacheTypes DEF serviceVars, cacheVars
<1>5. CASE Store /\ Contains(disk, worker.track)
  <2>1. worker' \in [at : Working, track : Tracks, generation : Nat, fresh : BOOLEAN]
    <3>1. /\ worker' = [worker EXCEPT !.at = "check", !.fresh = TRUE]
          /\ worker \in [at : Working, track : Tracks, generation : Nat, fresh : BOOLEAN]
      BY <1>5, StoreDoes, WorkerIs
    <3>2. "check" \in Working
      BY DEF Working
    <3>3. QED
      BY <3>1, <3>2
  <2>2. negative' \in Seq(Tracks) /\ Len(negative') <= MaxNegative
    BY <1>5, StoreDoes, ForgetDoes
  <2>3. /\ UNCHANGED <<serviceVars, slotVars, early, refused, published, faults>>
        /\ positive' \in Seq(Tracks) /\ Len(positive') <= MaxPositive
        /\ disk' \in Seq(Tracks) /\ damaged' \subseteq ToSet(disk')
    BY <1>5, StoreDoes
  <2>4. QED
    BY <1>0, <2>1, <2>2, <2>3, CacheTypes DEF serviceVars, slotVars
<1>6. CASE Drop
  <2>1. /\ worker.at \in Working /\ UNCHANGED <<published, faults>>
        /\ positive' \in Seq(Tracks) /\ Len(positive') <= MaxPositive
        /\ disk' \in Seq(Tracks) /\ damaged' \subseteq ToSet(disk')
    BY <1>6, DropDoes
  <2>2. CASE Defer(TRUE)
    BY <1>0, <2>1, <2>2, DeferDoes, AgainDoes, NextIs, CacheTypes DEF serviceVars
  <2>3. CASE Goto("lookup") /\ UNCHANGED <<serviceVars, slotVars, retryVars>>
    <3>1. "lookup" \in Working
      BY DEF Working
    <3>2. worker' \in [at : Working, track : Tracks, generation : Nat, fresh : BOOLEAN]
      BY <2>1, <2>3, <3>1, GotoIs
    <3>3. QED
      BY <1>0, <2>1, <2>3, <3>2, CacheTypes DEF serviceVars, slotVars, retryVars
  <2>4. QED
    BY <1>6, <2>2, <2>3, DropDoes
<1>7. CASE Offer
  <2>1. worker.at \in Working
    BY <1>7 DEF Offer, Working
  <2>2. negative' \in Seq(Tracks) /\ Len(negative') <= MaxNegative /\ cover' \in Tracks \union {None}
    BY <1>0, <1>7, ForgetDoes DEF Offer
  <2>3. QED
    BY <1>0, <1>7, <2>2, NextIs, CacheTypes DEF Offer, slotVars, cacheVars
<1>8. QED
  BY <1>1, <1>2, <1>3, <1>4, <1>5, <1>6, <1>7

LEMMA PlayerTypes ==
  ASSUME TypeOK,
         \/ Close \/ Restart
         \/ \E t \in Tracks : RetryTimeComes(t) \/ CacheDamaged(t) \/ CacheRemoved(t)
  PROVE  TypeOK'
<1>0. \/ worker \in {At(w) : w \in Waiting}
      \/ worker \in [at : Working, track : Tracks, generation : Nat, fresh : BOOLEAN]
  BY DEF TypeOK
<1>1. CASE Close
  <2>1. \/ worker' \in {At(w) : w \in Waiting}
        \/ worker' \in [at : Working, track : Tracks, generation : Nat, fresh : BOOLEAN]
    BY <1>0, <1>1, NotifiedIs, NextIs DEF Close
  <2>2. QED
    BY <1>1, <2>1 DEF Close, TypeOK, serviceVars, cacheVars, retryVars
<1>2. CASE Restart
  <2>1. /\ positive' \in Seq(Tracks) /\ Len(positive') <= MaxPositive
        /\ faults' \in 0 .. MaxFaults
    BY <1>2, RestartDoes
  <2>2. negative' \in Seq(Tracks) /\ Len(negative') <= MaxNegative
    BY <1>2, LimitAssumption DEF Restart
  <2>3. worker' \in {At(w) : w \in Waiting}
    BY <1>2, NextIs DEF Restart
  <2>4. disk' \in Seq(Tracks) /\ damaged' \subseteq ToSet(disk')
    BY <1>2, <2>1 DEF Restart
  <2>5. /\ {track', cover', current', published'} \subseteq Tracks \union {None}
        /\ dbus' \in {"poll", "tell"} /\ generation' \in Nat /\ stop' \in BOOLEAN
        /\ pending' \in Request \union {NoRequest} /\ changes' \in 0 .. MaxChanges
        /\ refused' \subseteq early' /\ early' \subseteq Tracks
    BY <1>2 DEF Restart, TypeOK
  <2>6. QED
    BY <2>1, <2>2, <2>3, <2>4, <2>5 DEF TypeOK
<1>3. ASSUME NEW t \in Tracks, RetryTimeComes(t) PROVE TypeOK'
  <2>1. \/ worker' \in {At(w) : w \in Waiting}
        \/ worker' \in [at : Working, track : Tracks, generation : Nat, fresh : BOOLEAN]
    BY <1>0, <1>3, NextIs DEF RetryTimeComes
  <2>2. QED
    BY <1>3, <2>1 DEF RetryTimeComes, TypeOK, serviceVars, slotVars, cacheVars
<1>4. ASSUME NEW t \in Tracks, CacheDamaged(t) PROVE TypeOK'
  <2>1. faults' \in 0 .. MaxFaults
    BY <1>4, FaultCounted DEF CacheDamaged
  <2>2. t \in ToSet(disk)
    BY <1>4, SequencesAre, Elements DEF CacheDamaged
  <2>3. QED
    BY <1>4, <2>1, <2>2 DEF CacheDamaged, TypeOK, serviceVars, slotVars, retryVars
<1>5. ASSUME NEW t \in Tracks, CacheRemoved(t) PROVE TypeOK'
  <2>1. /\ disk' \in Seq(Tracks) /\ damaged' \subseteq ToSet(disk')
        /\ UNCHANGED <<serviceVars, slotVars, worker, positive, retryVars, published>>
        /\ faults' \in 0 .. MaxFaults
    BY <1>5, RemovedDoes
  <2>2. QED
    BY <2>1 DEF TypeOK, serviceVars, slotVars, retryVars
<1>6. QED
  BY <1>1, <1>2, <1>3, <1>4, <1>5

LEMMA Types == TypeOK /\ [Next]_vars => TypeOK'
<1>1. SUFFICES ASSUME TypeOK, [Next]_vars PROVE TypeOK'
  OBVIOUS
<1>2. CASE Next
  BY <1>1, <1>2, DBusTypes, RequestTypes, LookupTypes, PlayerTypes DEF Next, Worker
<1>3. CASE UNCHANGED vars
  BY <1>1, <1>3 DEF TypeOK, vars, serviceVars, slotVars, cacheVars, retryVars
<1>4. QED
  BY <1>1, <1>2, <1>3

-----------------------------------------------------------------------------
(* Requests.  Seen from the request slot and the service, a step of the    *)
(* worker, of a clock or of the cache directory is of one of six kinds.    *)

Idles ==
  /\ worker' = worker \/ (worker.at \in Waiting /\ worker'.at \in Waiting)
  /\ UNCHANGED <<serviceVars, slotVars, published>>

Advances ==
  /\ worker.at \in Working /\ worker'.at \in Working
  /\ worker'.track = worker.track /\ worker'.generation = worker.generation
  /\ published' = IF worker'.at = "offer" THEN worker.track ELSE published
  /\ UNCHANGED <<serviceVars, slotVars>>

GivesUp ==
  /\ worker.at \in Working /\ ~Matches
  /\ worker' = At("next")
  /\ UNCHANGED <<serviceVars, slotVars, published>>

ComesBack ==
  /\ worker.at \in Working /\ Again
  /\ UNCHANGED published

Offers ==
  /\ worker.at = "offer" /\ Matches
  /\ worker' = At("next")
  /\ cover' = IF track = worker.track THEN track ELSE cover
  /\ UNCHANGED <<track, dbus, changes, slotVars, published>>

Kinds == Idles \/ WorkerTakes \/ Advances \/ GivesUp \/ ComesBack \/ Offers

LEMMA Goes ==
  ASSUME TypeOK, worker.at \in Working, NEW where \in Working \ {"offer"}, Goto(where),
         UNCHANGED <<serviceVars, slotVars, published>>
  PROVE  Advances
<1>1. /\ worker'.at = where /\ worker'.track = worker.track
      /\ worker'.generation = worker.generation
  BY GotoIs
<1>2. QED
  BY <1>1 DEF Advances

LEMMA DeferComesBack ==
  ASSUME worker.at \in Working, NEW asked, Defer(asked), UNCHANGED published
  PROVE  ComesBack
  BY DEF ComesBack, Defer

LEMMA WorkerKinds ==
  ASSUME TypeOK, Worker
  PROVE  Kinds
<1>1. CASE WorkerTakes
  BY <1>1 DEF Kinds
<1>2. CASE WorkerWaits \/ WorkerEnds
  BY <1>2 DEF WorkerWaits, WorkerEnds, Kinds, Idles, At, Waiting
<1>3. CASE CacheHit
  <2>1. worker.at \in Working /\ "check" \in Working \ {"offer"} /\ Goto("check")
    BY <1>3 DEF CacheHit, Working
  <2>2. QED
    BY <1>3, <2>1, Goes DEF CacheHit, Kinds
<1>4. CASE CacheMiss
  <2>1. worker.at \in Working /\ "search" \in Working \ {"offer"}
    BY <1>4 DEF CacheMiss, Working
  <2>2. QED
    BY <1>4, <2>1, Goes DEF CacheMiss, Kinds, ComesBack
<1>5. CASE SearchSucceeds
  <2>1. worker.at \in Working /\ "fetch" \in Working \ {"offer"}
    BY <1>5 DEF SearchSucceeds, Working
  <2>2. QED
    BY <1>5, <2>1, Goes DEF SearchSucceeds, Kinds, GivesUp
<1>6. CASE FetchSucceeds
  <2>1. worker.at \in Working /\ "store" \in Working \ {"offer"}
    BY <1>6 DEF FetchSucceeds, Working
  <2>2. QED
    BY <1>6, <2>1, Goes DEF FetchSucceeds, Kinds
<1>7. CASE \/ LookupFails
           \/ PublishFails
           \/ Store /\ ~Contains(disk, worker.track)
  <2>1. /\ worker.at \in Working /\ UNCHANGED published
        /\ \E asked \in BOOLEAN : Defer(asked)
    BY <1>7, FailureDefers
  <2>2. QED
    BY <2>1, DeferComesBack DEF Kinds
<1>8. CASE Store /\ Contains(disk, worker.track)
  <2>1. /\ worker.at \in Working
        /\ UNCHANGED <<serviceVars, slotVars, published>>
        /\ worker' = [worker EXCEPT !.at = "check", !.fresh = TRUE]
    BY <1>8, StoreDoes
  <2>2. worker'.at = "check" /\ worker'.track = worker.track
        /\ worker'.generation = worker.generation
    BY <2>1, WorkerIs
  <2>3. QED
    BY <2>1, <2>2 DEF Advances, Kinds, Working
<1>9. CASE Check
  <2>1. worker.at \in Working /\ "publish" \in Working \ {"offer"}
    BY <1>9 DEF Check, Working
  <2>2. QED
    BY <1>9, <2>1, Goes DEF Check, Kinds, GivesUp
<1>10. CASE Publish
  <2>1. worker.at \in Working /\ "offer" \in Working
    BY <1>10 DEF Publish, Working
  <2>2. /\ worker'.at = "offer" /\ worker'.track = worker.track
        /\ worker'.generation = worker.generation
    BY <1>10, <2>1, GotoIs DEF Publish
  <2>3. QED
    BY <1>10, <2>1, <2>2 DEF Publish, Advances, Kinds
<1>11. CASE Drop
  <2>1. worker.at \in Working /\ "lookup" \in Working \ {"offer"}
    BY <1>11 DEF Drop, Working
  <2>2. QED
    BY <1>11, <2>1, Goes, DeferComesBack DEF Drop, Kinds
<1>12. CASE Offer
  <2>1. CASE Matches
    BY <1>12, <2>1 DEF Offer, Kinds, Offers
  <2>2. CASE ~Matches
    BY <1>12, <2>2 DEF Offer, Kinds, GivesUp, Working, serviceVars
  <2>3. QED
    BY <2>1, <2>2
<1>13. QED
  BY <1>1, <1>2, <1>3, <1>4, <1>5, <1>6, <1>7, <1>8, <1>9, <1>10, <1>11, <1>12 DEF Worker

LEMMA OtherKinds ==
  ASSUME TypeOK,
         \/ \E t \in Tracks : RetryTimeComes(t) \/ CacheDamaged(t) \/ CacheRemoved(t)
         \/ UNCHANGED vars
  PROVE  Idles
<1>1. CASE \E t \in Tracks : RetryTimeComes(t)
  BY <1>1 DEF RetryTimeComes, Idles, At, Waiting
<1>2. CASE \E t \in Tracks : CacheDamaged(t) \/ CacheRemoved(t)
  BY <1>2 DEF CacheDamaged, CacheRemoved, Idles
<1>3. CASE UNCHANGED vars
  BY <1>3 DEF vars, Idles
<1>4. QED
  BY <1>1, <1>2, <1>3

Asking == RequestKept /\ Told /\ Slot

LEMMA WorkerAt ==
  ASSUME TypeOK
  PROVE  /\ worker.at \in Waiting => worker.track = None /\ worker.at \notin Working
         /\ worker.at \in Working =>
              worker.at \notin Waiting /\ worker.track \in Tracks /\ worker.generation \in Nat
         /\ worker.at \in Waiting \union Working
  BY WorkerIs DEF At, Waiting, Working

LEMMA NextAt ==
  /\ At("next").at = "next" /\ At("next").track = None /\ At("next").at \notin Working
  /\ "next" \in Waiting
  BY DEF At, Working, Waiting

LEMMA KindsAsk ==
  ASSUME TypeOK, Asking, Kinds
  PROVE  Asking'
<1>1. UNCHANGED <<track, dbus, changes, generation, current, stop>>
  BY AgainDoes
     DEF Kinds, Idles, WorkerTakes, Advances, GivesUp, ComesBack, Offers, serviceVars, slotVars
<1>2. Told'
  BY <1>1 DEF Asking, Told
<1>3. CASE Idles
  <2>1. Slot'
    BY <1>3, WorkerAt DEF Asking, Slot, Idles, slotVars, Waiting, Working
  <2>2. RequestKept'
    BY <1>1, <1>3, WorkerAt DEF Asking, RequestKept, Idles, serviceVars, slotVars
  <2>3. QED
    BY <1>2, <2>1, <2>2 DEF Asking
<1>4. CASE WorkerTakes
  <2>1. /\ worker.at \in Waiting /\ worker.track = None
        /\ pending.generation = generation /\ pending.track = current
        /\ generation \in Nat
    BY <1>4, WorkerAt DEF WorkerTakes, Waiting, Asking, Slot, TypeOK
  <2>2. /\ worker'.track = pending.track /\ worker'.generation = pending.generation
        /\ worker'.at = "lookup" /\ pending' = NoRequest
    BY <1>4 DEF WorkerTakes
  <2>3. Slot'
    BY <1>1, <2>1, <2>2 DEF Slot, Working
  <2>4. RequestKept'
    BY <1>1, <1>4, <2>1, <2>2 DEF Asking, RequestKept, WorkerTakes, serviceVars
  <2>5. QED
    BY <1>2, <2>3, <2>4 DEF Asking
<1>5. CASE Advances
  BY <1>5 DEF Asking, RequestKept, Told, Slot, Advances, serviceVars, slotVars
<1>6. CASE GivesUp
  <2>1. Slot'
    BY <1>6, NextAt DEF Asking, Slot, GivesUp, slotVars
  <2>2. RequestKept'
    BY <1>1, <1>6 DEF Asking, RequestKept, GivesUp, Matches, serviceVars, slotVars
  <2>3. QED
    BY <1>2, <2>1, <2>2 DEF Asking
<1>7. CASE ComesBack
  <2>1. /\ worker.at \in Working /\ worker' = At("next")
        /\ pending' = IF Matches
                      THEN [track |-> worker.track, generation |-> worker.generation, waits |-> TRUE]
                      ELSE pending
        /\ UNCHANGED serviceVars
    BY <1>7, AgainDoes DEF ComesBack
  <2>2. CASE Matches
    <3>1. /\ pending'.track = worker.track /\ pending'.generation = worker.generation
          /\ worker.generation = generation /\ worker.track = current
      BY <2>1, <2>2 DEF Matches
    <3>2. Slot'
      BY <1>1, <2>1, <3>1, NextAt DEF Slot
    <3>3. RequestKept'
      BY <1>1, <1>2, <3>1 DEF RequestKept, Told
    <3>4. QED
      BY <1>2, <3>2, <3>3 DEF Asking
  <2>3. CASE ~Matches
    <3>1. Slot'
      BY <1>1, <2>1, <2>3, NextAt DEF Asking, Slot
    <3>2. RequestKept'
      BY <1>1, <2>1, <2>3 DEF Asking, RequestKept, Matches, serviceVars
    <3>3. QED
      BY <1>2, <3>1, <3>2 DEF Asking
  <2>4. QED
    BY <2>2, <2>3
<1>8. CASE Offers
  <2>1. Slot'
    BY <1>8, NextAt DEF Asking, Slot, Offers, slotVars
  <2>2. RequestKept'
    BY <1>1, <1>8 DEF Asking, RequestKept, Offers, slotVars
  <2>3. QED
    BY <1>2, <2>1, <2>2 DEF Asking
<1>9. QED
  BY <1>3, <1>4, <1>5, <1>6, <1>7, <1>8 DEF Kinds

LEMMA DBusAsks ==
  ASSUME TypeOK, Asking, DBus
  PROVE  Asking'
<1>0. generation \in Nat /\ (worker.at \in Working => worker.generation \in Nat)
  BY WorkerAt DEF TypeOK
<1>1. ASSUME NEW t \in Tracks \union {None}, TrackChanges(t)
      PROVE  Asking'
  <2>1. Slot'
    BY <1>1 DEF Asking, Slot, TrackChanges, slotVars
  <2>2. Told' /\ RequestKept'
    BY <1>1 DEF Asking, Told, RequestKept, TrackChanges, slotVars
  <2>3. QED
    BY <2>1, <2>2 DEF Asking
<1>2. ASSUME worker' = Notified, pending'.generation = generation' \/ pending' = NoRequest,
             pending' # NoRequest => pending'.track = current',
             generation' = generation + 1
      PROVE  Slot'
  <2>1. worker' = worker \/ worker' = At("next")
    BY <1>2, NotifiedIs
  <2>2. CASE worker' = At("next")
    BY <1>2, <2>2, NextAt DEF Slot
  <2>3. CASE worker' = worker
    BY <1>0, <1>2, <2>3 DEF Asking, Slot
  <2>4. QED
    BY <2>1, <2>2, <2>3
<1>3. CASE Cancel
  <2>1. Slot'
    BY <1>2, <1>3 DEF Cancel
  <2>2. Told' /\ RequestKept'
    BY <1>3 DEF Cancel, Told, RequestKept
  <2>3. QED
    BY <2>1, <2>2 DEF Asking
<1>4. CASE Ask
  <2>1. pending'.track = track /\ pending'.generation = generation'
    BY <1>4 DEF Ask
  <2>2. Slot'
    BY <1>2, <1>4, <2>1 DEF Ask
  <2>3. Told' /\ RequestKept'
    BY <1>4, <2>1 DEF Ask, Told, RequestKept
  <2>4. QED
    BY <2>2, <2>3 DEF Asking
<1>5. CASE AskInVain
  <2>1. stop /\ stop' /\ UNCHANGED <<slotVars, worker>>
    BY <1>5 DEF AskInVain, Asking, Told, slotVars
  <2>2. Slot'
    BY <2>1 DEF Asking, Slot, slotVars
  <2>3. Told' /\ RequestKept'
    BY <2>1 DEF Told, RequestKept
  <2>4. QED
    BY <2>2, <2>3 DEF Asking
<1>6. QED
  BY <1>1, <1>3, <1>4, <1>5 DEF DBus

LEMMA PlayerAsks ==
  ASSUME TypeOK, Asking, Close \/ Restart
  PROVE  Asking'
<1>1. CASE Close
  <2>1. Told' /\ RequestKept'
    BY <1>1 DEF Close, Told, RequestKept
  <2>2. Slot'
    BY <1>1, NotifiedIs, NextAt DEF Close, Asking, Slot
  <2>3. QED
    BY <2>1, <2>2 DEF Asking
<1>2. CASE Restart
  BY <1>2, NextAt DEF Restart, Asking, Told, RequestKept, Slot
<1>3. QED
  BY <1>1, <1>2

LEMMA Asks == TypeOK /\ Asking /\ [Next]_vars => Asking'
<1>1. SUFFICES ASSUME TypeOK, Asking, [Next]_vars PROVE Asking'
  OBVIOUS
<1>2. CASE DBus
  BY <1>1, <1>2, DBusAsks
<1>3. CASE Worker
  BY <1>1, <1>3, WorkerKinds, KindsAsk
<1>4. CASE Close \/ Restart
  BY <1>1, <1>4, PlayerAsks
<1>5. CASE \/ \E t \in Tracks : RetryTimeComes(t) \/ CacheDamaged(t) \/ CacheRemoved(t)
           \/ UNCHANGED vars
  BY <1>1, <1>5, OtherKinds, KindsAsk DEF Kinds
<1>6. QED
  BY <1>1, <1>2, <1>3, <1>4, <1>5 DEF Next

-----------------------------------------------------------------------------
(* What is shown.                                                          *)

LEMMA KindsShow ==
  ASSUME TypeOK, Asking, Shown, Kinds
  PROVE  Shown'
<1>1. CASE Idles
  BY <1>1, WorkerAt DEF Shown, Idles, serviceVars, slotVars, Waiting, Working
<1>2. CASE WorkerTakes
  BY <1>2 DEF Shown, WorkerTakes, serviceVars
<1>3. CASE Advances
  BY <1>3 DEF Shown, Advances, serviceVars
<1>4. CASE GivesUp
  BY <1>4, NextAt DEF Shown, GivesUp, serviceVars
<1>5. CASE ComesBack
  <2>1. worker.at \in Working /\ worker' = At("next") /\ UNCHANGED serviceVars
    BY <1>5, AgainDoes DEF ComesBack
  <2>2. QED
    BY <2>1, NextAt DEF Shown, serviceVars
<1>6. CASE Offers
  <2>1. cover = None /\ published = worker.track /\ pending = NoRequest
    BY <1>6 DEF Shown, Asking, Slot, Offers, Matches, Working
  <2>2. track = worker.track => dbus = "poll"
    BY <1>6 DEF Asking, Told, Offers, Matches
  <2>3. QED
    BY <1>6, <2>1, <2>2, NextAt DEF Shown, Offers, slotVars
<1>7. QED
  BY <1>1, <1>2, <1>3, <1>4, <1>5, <1>6 DEF Kinds

LEMMA PlayerShows ==
  ASSUME TypeOK, Shown, DBus \/ Close \/ Restart
  PROVE  Shown'
<1>1. ASSUME NEW t \in Tracks \union {None}, TrackChanges(t)
      PROVE  Shown'
  BY <1>1 DEF Shown, TrackChanges
<1>2. ASSUME worker' = Notified, UNCHANGED published, cover' = None
      PROVE  Shown'
  BY <1>2, NotifiedIs, NextAt DEF Shown, Working
<1>3. CASE Cancel \/ Ask
  BY <1>2, <1>3 DEF Shown, Cancel, Ask
<1>4. CASE AskInVain
  BY <1>4 DEF Shown, AskInVain
<1>5. CASE Close
  <2>1. worker' = worker \/ worker' = At("next")
    BY <1>5, NotifiedIs DEF Close
  <2>2. QED
    BY <1>5, <2>1, NextAt DEF Shown, Close, serviceVars, Working
<1>6. CASE Restart
  BY <1>6, NextAt DEF Shown, Restart
<1>7. QED
  BY <1>1, <1>3, <1>4, <1>5, <1>6 DEF DBus

LEMMA Shows == TypeOK /\ Asking /\ Shown /\ [Next]_vars => Shown'
<1>1. SUFFICES ASSUME TypeOK, Asking, Shown, [Next]_vars PROVE Shown'
  OBVIOUS
<1>2. CASE Worker
  BY <1>1, <1>2, WorkerKinds, KindsShow
<1>3. CASE DBus \/ Close \/ Restart
  BY <1>1, <1>3, PlayerShows
<1>4. CASE \/ \E t \in Tracks : RetryTimeComes(t) \/ CacheDamaged(t) \/ CacheRemoved(t)
           \/ UNCHANGED vars
  BY <1>1, <1>4, OtherKinds, KindsShow DEF Kinds
<1>5. QED
  BY <1>1, <1>2, <1>3, <1>4 DEF Next

-----------------------------------------------------------------------------
(* The cache directory, and refusals.                                      *)

Directory ==
  ToSet(disk) \subseteq
    ToSet(positive) \union (IF worker.at = "store" THEN {worker.track} ELSE {})

\* Steps that leave both caches and the refusals alone.
Elsewhere ==
  /\ UNCHANGED <<cacheVars, negative, refused>>
  /\ worker.at # "store"
  /\ \/ worker' = worker
     \/ worker'.at \in Waiting \union {"lookup"}
     \/ /\ worker'.track = worker.track
        /\ worker.at \in Working \ {"lookup"}
        /\ worker'.at \in {"fetch", "publish", "offer"}
        /\ worker'.at = "fetch" => worker.at = "search"

LEMMA ElsewhereKeeps ==
  ASSUME Directory, Refusals, Elsewhere
  PROVE  Directory' /\ Refusals'
  BY DEF Directory, Refusals, Elsewhere, cacheVars, Waiting, Working

LEMMA NotifiedKeeps ==
  ASSUME TypeOK, Directory, Refusals, worker' \in {worker, Notified},
         UNCHANGED <<cacheVars, negative, refused>>
  PROVE  Directory' /\ Refusals'
<1>1. worker' = worker \/ (worker' = At("next") /\ worker.at \notin Working)
  BY NotifiedIs
<1>2. CASE worker' = worker
  BY <1>2 DEF Directory, Refusals, cacheVars
<1>3. CASE worker' = At("next") /\ worker.at \notin Working
  BY <1>3, NextAt, ElsewhereKeeps DEF Elsewhere, Working
<1>4. QED
  BY <1>1, <1>2, <1>3

LEMMA SlotStepsKeep ==
  ASSUME TypeOK, Directory, Refusals,
         \/ DBus \/ Close
         \/ WorkerTakes \/ WorkerWaits \/ WorkerEnds \/ SearchSucceeds \/ Check \/ Publish
         \/ UNCHANGED vars
  PROVE  Directory' /\ Refusals'
<1>1. CASE DBus \/ Close \/ UNCHANGED vars
  BY <1>1, NotifiedKeeps
     DEF DBus, TrackChanges, Cancel, Ask, AskInVain, Close, vars, retryVars
<1>2. CASE WorkerTakes \/ WorkerWaits \/ WorkerEnds
  BY <1>2, ElsewhereKeeps
     DEF WorkerTakes, WorkerWaits, WorkerEnds, Elsewhere, retryVars, At, Waiting
<1>3. CASE SearchSucceeds
  <2>1. worker.at \in Working /\ "fetch" \in Working
    BY <1>3 DEF SearchSucceeds, Working
  <2>2. worker'.at = "next" \/ (worker'.at = "fetch" /\ worker'.track = worker.track)
    BY <1>3, <2>1, GotoIs, NextAt DEF SearchSucceeds
  <2>3. QED
    BY <1>3, <2>1, <2>2, ElsewhereKeeps DEF SearchSucceeds, Elsewhere, retryVars, Waiting
<1>4. CASE Check
  <2>1. worker.at \in Working /\ "publish" \in Working
    BY <1>4 DEF Check, Working
  <2>2. worker'.at = "next" \/ (worker'.at = "publish" /\ worker'.track = worker.track)
    BY <1>4, <2>1, GotoIs, NextAt DEF Check
  <2>3. QED
    BY <1>4, <2>1, <2>2, ElsewhereKeeps DEF Check, Elsewhere, retryVars, Waiting
<1>5. CASE Publish
  <2>1. worker.at \in Working /\ "offer" \in Working
    BY <1>5 DEF Publish, Working
  <2>2. worker'.at = "offer" /\ worker'.track = worker.track
    BY <1>5, <2>1, GotoIs DEF Publish
  <2>3. QED
    BY <1>5, <2>1, <2>2, ElsewhereKeeps DEF Publish, Elsewhere, retryVars
<1>6. QED
  BY <1>1, <1>2, <1>3, <1>4, <1>5

\* The track of a request that is deferred gets into the negative cache.
LEMMA DeferKeeps ==
  ASSUME TypeOK, Refusals, worker.at \in Working, NEW asked \in BOOLEAN, Defer(asked),
         ToSet(positive') \subseteq ToSet(positive),
         asked => worker.track \notin ToSet(positive')
  PROVE  Refusals' /\ worker' = At("next")
<1>1. /\ worker' = At("next")
      /\ refused' \subseteq ToSet(negative')
      /\ refused' \subseteq refused \union (IF asked THEN {worker.track} ELSE {})
  BY DeferDoes, AgainDoes
<1>2. refused' \intersect ToSet(positive') = {}
  BY <1>1 DEF Refusals
<1>3. QED
  BY <1>1, <1>2, NextAt DEF Refusals, Working

LEMMA LookupKeeps ==
  ASSUME TypeOK, Directory, Refusals,
         \/ CacheHit \/ CacheMiss \/ FetchSucceeds \/ LookupFails \/ Store
         \/ PublishFails \/ Drop \/ Offer
  PROVE  Directory' /\ Refusals'
<1>1. CASE CacheHit
  <2>1. /\ worker.track \in ToSet(positive) /\ ToSet(positive') = ToSet(positive)
        /\ worker'.at = "check" /\ worker'.track = worker.track
    BY <1>1, CacheHitDoes, GotoIs
  <2>2. /\ worker.at = "lookup" /\ UNCHANGED <<disk, negative, refused>>
    BY <1>1 DEF CacheHit, retryVars
  <2>3. QED
    BY <2>1, <2>2 DEF Directory, Refusals
<1>2. CASE CacheMiss
  <2>1. /\ worker.at = "lookup" /\ worker.at \in Working /\ "search" \in Working
        /\ UNCHANGED <<refused, cacheVars>>
        /\ worker.track \notin ToSet(positive)
    BY <1>2, SequencesAre, Elements DEF CacheMiss, Working
  <2>2. CASE Again /\ UNCHANGED negative
    <3>1. worker' = At("next")
      BY <2>1, <2>2, AgainDoes
    <3>2. QED
      BY <2>1, <2>2, <3>1, NextAt, ElsewhereKeeps DEF Elsewhere
  <2>3. CASE /\ ~Denied
             /\ negative' = Without(negative, worker.track)
             /\ Goto("search")
    <3>1. worker'.at = "search" /\ worker'.track = worker.track
      BY <2>1, <2>3, GotoIs
    <3>2. ToSet(negative') = ToSet(negative) \ {worker.track}
      BY <2>3, ForgetDoes
    <3>3. worker.track \notin refused
      <4>1. worker.track \notin ToSet(negative) \/ worker.track \notin early
        BY <2>3, SequencesAre, Elements DEF Denied
      <4>2. QED
        BY <4>1 DEF Refusals, TypeOK
    <3>4. Directory'
      BY <2>1, <3>1 DEF Directory, cacheVars
    <3>5. Refusals'
      BY <2>1, <3>1, <3>2, <3>3 DEF Refusals, cacheVars
    <3>6. QED
      BY <3>4, <3>5
  <2>4. QED
    BY <1>2, <2>2, <2>3 DEF CacheMiss
<1>3. CASE FetchSucceeds
  <2>1. /\ worker.at = "fetch" /\ UNCHANGED <<positive, negative, refused>>
        /\ ToSet(disk') = ToSet(disk) \union {worker.track}
        /\ worker'.at = "store" /\ worker'.track = worker.track
    BY <1>3, FetchDoes, GotoIs DEF FetchSucceeds, retryVars
  <2>2. Directory'
    BY <2>1 DEF Directory
  <2>3. Refusals'
    BY <2>1 DEF Refusals, Working
  <2>4. QED
    BY <2>2, <2>3
<1>4. CASE \/ LookupFails
           \/ PublishFails
           \/ Store /\ ~Contains(disk, worker.track)
  <2>1. worker.at \in Working /\ UNCHANGED cacheVars
    BY <1>4, FailureDefers
  <2>2. PICK asked \in BOOLEAN : Defer(asked) /\ (asked => worker.at \in {"search", "fetch", "store"})
    BY <1>4, FailureDefers
  <2>3. asked => worker.track \notin ToSet(positive')
    BY <2>1, <2>2 DEF Refusals, cacheVars
  <2>4. Refusals' /\ worker' = At("next")
    BY <2>1, <2>2, <2>3, DeferKeeps DEF cacheVars
  <2>5. worker.at = "store" => worker.track \notin ToSet(disk)
    BY <1>4, SequencesAre, Elements DEF LookupFails, PublishFails
  <2>6. Directory'
    BY <2>1, <2>4, <2>5, NextAt DEF Directory, cacheVars
  <2>7. QED
    BY <2>4, <2>6
<1>5. CASE Store /\ Contains(disk, worker.track)
  <2>1. /\ worker.at = "store" /\ worker.at \in Working
        /\ UNCHANGED refused /\ negative' = Without(negative, worker.track)
        /\ worker' = [worker EXCEPT !.at = "check", !.fresh = TRUE]
        /\ ToSet(positive') \subseteq ToSet(positive) \union {worker.track}
        /\ worker.track \in ToSet(positive')
        /\ ToSet(disk') = ToSet(disk) \ (ToSet(positive) \ ToSet(positive'))
    BY <1>5, StoreDoes DEF Store
  <2>2. worker'.at = "check" /\ worker'.track = worker.track
    BY <2>1, WorkerIs
  <2>3. ToSet(negative') = ToSet(negative) \ {worker.track}
    BY <2>1, ForgetDoes
  <2>4. worker.track \notin refused
    BY <2>1 DEF Refusals, Working
  <2>5. Directory'
    BY <2>1, <2>2 DEF Directory
  <2>6. Refusals'
    BY <2>1, <2>2, <2>3, <2>4 DEF Refusals
  <2>7. QED
    BY <2>5, <2>6
<1>6. CASE Drop
  <2>1. /\ worker.at = "publish" /\ worker.at \in Working
        /\ ToSet(positive') = ToSet(positive) \ {worker.track}
        /\ ToSet(disk') = ToSet(disk) \ {worker.track}
    BY <1>6, DropDoes DEF Drop
  <2>2. CASE Defer(TRUE)
    <3>1. Refusals' /\ worker' = At("next")
      BY <2>1, <2>2, DeferKeeps
    <3>2. Directory'
      BY <2>1, <3>1, NextAt DEF Directory
    <3>3. QED
      BY <3>1, <3>2
  <2>3. CASE Goto("lookup") /\ UNCHANGED retryVars
    <3>1. worker'.at = "lookup"
      BY <2>1, <2>3, GotoIs DEF Working
    <3>2. Directory'
      BY <2>1, <3>1 DEF Directory
    <3>3. Refusals'
      BY <2>1, <2>3, <3>1 DEF Refusals, retryVars
    <3>4. QED
      BY <3>2, <3>3
  <2>4. QED
    BY <1>6, <2>2, <2>3, DropDoes
<1>7. CASE Offer
  <2>1. /\ worker.at = "offer" /\ worker' = At("next")
        /\ UNCHANGED <<refused, cacheVars>>
        /\ negative' = negative \/ negative' = Without(negative, worker.track)
    BY <1>7 DEF Offer
  <2>2. worker.track \notin refused
    BY <2>1 DEF Refusals, Working
  <2>3. refused' \subseteq ToSet(negative')
    BY <2>1, <2>2, ForgetDoes DEF Refusals
  <2>4. Directory'
    BY <2>1, NextAt DEF Directory, cacheVars
  <2>5. Refusals'
    BY <2>1, <2>3, NextAt DEF Refusals, cacheVars, Working
  <2>6. QED
    BY <2>4, <2>5
<1>8. QED
  BY <1>1, <1>2, <1>3, <1>4, <1>5, <1>6, <1>7

LEMMA OthersKeep ==
  ASSUME TypeOK, Directory, Refusals,
         \/ Restart
         \/ \E t \in Tracks : RetryTimeComes(t) \/ CacheDamaged(t) \/ CacheRemoved(t)
  PROVE  Directory' /\ Refusals'
<1>1. CASE Restart
  BY <1>1, NextAt DEF Restart, Directory, Refusals, Working
<1>2. ASSUME NEW t \in Tracks, RetryTimeComes(t)
      PROVE  Directory' /\ Refusals'
  <2>1. /\ refused' \subseteq refused /\ UNCHANGED <<negative, cacheVars>>
        /\ worker' = worker \/ worker' = At("next")
    BY <1>2 DEF RetryTimeComes
  <2>2. Directory'
    BY <1>2, <2>1, NextAt DEF RetryTimeComes, Directory, cacheVars
  <2>3. Refusals'
    BY <2>1, NextAt DEF Refusals, cacheVars, Working
  <2>4. QED
    BY <2>2, <2>3
<1>3. ASSUME NEW t \in Tracks, CacheDamaged(t)
      PROVE  Directory' /\ Refusals'
  BY <1>3 DEF CacheDamaged, Directory, Refusals, retryVars
<1>4. ASSUME NEW t \in Tracks, CacheRemoved(t)
      PROVE  Directory' /\ Refusals'
  <2>1. /\ ToSet(disk') = ToSet(disk) \ {t}
        /\ UNCHANGED <<worker, positive, retryVars>>
    BY <1>4, RemovedDoes
  <2>2. QED
    BY <2>1 DEF Directory, Refusals, retryVars
<1>5. QED
  BY <1>1, <1>2, <1>3, <1>4

-----------------------------------------------------------------------------
(* The theorems.                                                           *)

LEMMA AtFirst == Init => RInv
<1>1. SUFFICES ASSUME Init PROVE RInv
  OBVIOUS
<1>2. TypeOK
  <2>1. /\ positive \in Seq(Tracks) /\ Len(positive) <= MaxPositive
        /\ negative \in Seq(Tracks) /\ Len(negative) <= MaxNegative
        /\ disk \in Seq(Tracks)
    BY <1>1, LimitAssumption DEF Init
  <2>2. worker \in {At(w) : w \in Waiting}
    BY <1>1, NextIs DEF Init
  <2>3. /\ {track, cover, current, published} \subseteq Tracks \union {None}
        /\ dbus \in {"poll", "tell"} /\ generation \in Nat /\ stop \in BOOLEAN
        /\ pending \in Request \union {NoRequest}
        /\ refused \subseteq early /\ early \subseteq Tracks /\ damaged \subseteq ToSet(disk)
    BY <1>1 DEF Init
  <2>4. faults \in 0 .. MaxFaults /\ changes \in 0 .. MaxChanges
    BY <1>1, BoundAssumption DEF Init
  <2>5. QED
    BY <2>1, <2>2, <2>3, <2>4 DEF TypeOK
<1>3. RequestKept /\ Told /\ Slot /\ Shown
  BY <1>1, NextAt DEF Init, RequestKept, Told, Slot, Shown
<1>4. Refusals /\ Directory
  BY <1>1, NextAt DEF Init, Refusals, Directory, Working, ToSet
<1>5. QED
  BY <1>2, <1>3, <1>4 DEF RInv, ResolverKept, CacheBounded, Directory, TypeOK

LEMMA Inductive == RInv /\ [Next]_vars => RInv'
<1>1. SUFFICES ASSUME RInv, [Next]_vars PROVE RInv'
  OBVIOUS
<1>2. TypeOK /\ Asking /\ Shown /\ Directory /\ Refusals
  BY <1>1 DEF RInv, ResolverKept, CacheBounded, Asking, Directory
<1>3. TypeOK' /\ Asking' /\ Shown'
  BY <1>1, <1>2, Types, Asks, Shows
<1>4. Directory' /\ Refusals'
  BY <1>1, <1>2, SlotStepsKeep, LookupKeeps, OthersKeep DEF Next, Worker
<1>5. QED
  BY <1>3, <1>4 DEF RInv, ResolverKept, CacheBounded, Asking, Directory, TypeOK

(***************************************************************************)
(* As long as a track has no cover its latest request waits or is worked   *)
(* on, and neither cache nor its directory grows beyond its limit, for     *)
(* any tracks and cache sizes, whatever fails and however often the player *)
(* is started again.                                                       *)
(***************************************************************************)
THEOREM RequestsKept == Spec => []ResolverKept
<1>1. RInv => ResolverKept
  BY DEF RInv
<1>2. QED
  BY AtFirst, Inductive, <1>1, PTL DEF Spec

\* Only a miss in the cache leads to a search.
LEMMA SearchBegins ==
  ASSUME TypeOK, Next, worker.at # "search", worker'.at = "search"
  PROVE  CacheMiss
<1>1. CASE DBus \/ Close
  <2>1. worker' = worker \/ worker' = At("next")
    BY <1>1, NotifiedIs DEF DBus, TrackChanges, Cancel, Ask, AskInVain, Close
  <2>2. QED
    BY <2>1, NextAt
<1>2. CASE WorkerTakes \/ WorkerWaits \/ WorkerEnds \/ SearchSucceeds
  BY <1>2 DEF WorkerTakes, WorkerWaits, WorkerEnds, SearchSucceeds, At
<1>3. CASE CacheHit \/ FetchSucceeds
  <2>1. PICK where \in {"check", "store"} : worker.at \in Working /\ where \in Working /\ Goto(where)
    BY <1>3, CacheHitDoes, FetchDoes
  <2>2. QED
    BY <2>1, GotoIs
<1>4. CASE \/ LookupFails
           \/ PublishFails
           \/ Store /\ ~Contains(disk, worker.track)
  <2>1. PICK asked \in BOOLEAN : worker.at \in Working /\ Defer(asked)
    BY <1>4, FailureDefers
  <2>2. QED
    BY <2>1, DeferDoes, AgainDoes, NextAt
<1>5. CASE Store /\ Contains(disk, worker.track)
  <2>1. /\ worker.at \in Working
        /\ worker' = [worker EXCEPT !.at = "check", !.fresh = TRUE]
    BY <1>5, StoreDoes
  <2>2. worker'.at = "check"
    BY <2>1, WorkerIs
  <2>3. QED
    BY <2>2
<1>6. CASE Check
  <2>1. worker.at \in Working /\ "publish" \in Working
    BY <1>6 DEF Check, Working
  <2>2. QED
    BY <1>6, <2>1, GotoIs, NextAt DEF Check
<1>7. CASE Publish
  <2>1. worker.at \in Working /\ "offer" \in Working
    BY <1>7 DEF Publish, Working
  <2>2. QED
    BY <1>7, <2>1, GotoIs DEF Publish
<1>8. CASE Drop
  <2>1. worker.at \in Working /\ "lookup" \in Working
    BY <1>8 DEF Drop, Working
  <2>2. QED
    BY <1>8, <2>1, GotoIs, DeferDoes, AgainDoes, NextAt DEF Drop
<1>9. CASE Offer \/ Restart
  BY <1>9, NextAt DEF Offer, Restart
<1>10. CASE \E t \in Tracks : RetryTimeComes(t) \/ CacheDamaged(t) \/ CacheRemoved(t)
  BY <1>10, NextAt DEF RetryTimeComes, CacheDamaged, CacheRemoved
<1>11. QED
  BY <1>1, <1>2, <1>3, <1>4, <1>5, <1>6, <1>7, <1>8, <1>9, <1>10 DEF Next, Worker

(***************************************************************************)
(* No lookup that failed is repeated before its retry time, unless the     *)
(* negative cache had to forget it, for any size of the caches.            *)
(***************************************************************************)
THEOREM AskedInTime == Spec => AsksInTime
<1>1. ASSUME RInv, Next, worker.at # "search", worker'.at = "search"
      PROVE  worker'.track \notin refused
  <2>1. CASE CacheMiss
    <3>1. worker'.track \notin refused'
      BY <1>1, Inductive DEF RInv, Refusals, Working
    <3>2. QED
      BY <2>1, <3>1 DEF CacheMiss
  <2>2. QED
    BY <1>1, <2>1, SearchBegins DEF RInv, ResolverKept, CacheBounded
<1>2. RInv /\ [Next]_vars =>
        [worker.at # "search" /\ worker'.at = "search" => worker'.track \notin refused]_vars
  BY <1>1
<1>3. QED
  BY AtFirst, Inductive, <1>2, PTL DEF Spec, AsksInTime

(***************************************************************************)
(* The resolver implements LatestCover: the track changes and shows no     *)
(* cover, a cover arrives when the worker offers what it published, and    *)
(* nothing else is visible.                                                *)
(***************************************************************************)
THEOREM ImplementsLatestCover == Spec => ShowsLatestCover
<1> DEFINE picture == IF cover = None THEN None ELSE published
<1>1. Init => Latest!Init
  BY DEF Init, Latest!Init
<1>2. RInv /\ [Next]_vars => [Latest!Change \/ Latest!Arrive]_(Latest!lvars)
  <2>1. SUFFICES ASSUME RInv, [Next]_vars
                 PROVE  Latest!Change \/ Latest!Arrive \/ UNCHANGED <<track, picture>>
    BY DEF Latest!lvars
  <2>2. TypeOK /\ Shown /\ RInv'
    BY <2>1, Inductive DEF RInv, ResolverKept, CacheBounded
  <2>3. track' \in Tracks \union {None} /\ TypeOK'
    BY <2>2 DEF RInv, ResolverKept, CacheBounded, TypeOK
  <2>4. CASE cover' = None /\ (\/ \E t \in Tracks \union {None} : TrackChanges(t)
                               \/ Restart)
    BY <2>3, <2>4 DEF Latest!Change
  <2>5. CASE Kinds
    <3>1. UNCHANGED track
      BY <2>2, <2>5, AgainDoes
         DEF Kinds, Idles, WorkerTakes, Advances, GivesUp, ComesBack, Offers, serviceVars
    <3>2. CASE ~Offers
      <4>1. UNCHANGED cover /\ (cover # None => UNCHANGED published)
        BY <2>2, <2>5, <3>2, AgainDoes
           DEF Kinds, Idles, WorkerTakes, Advances, GivesUp, ComesBack, serviceVars, Shown
      <4>2. QED
        BY <3>1, <4>1
    <3>3. CASE Offers
      <4>1. /\ cover = None /\ published = worker.track /\ worker.track \in Tracks
            /\ cover' = IF track = worker.track THEN track ELSE cover
            /\ UNCHANGED published
        BY <2>2, <3>3, WorkerAt DEF Shown, Offers, Working
      <4>2. CASE track = worker.track
        BY <3>1, <4>1, <4>2, TracksAssumption DEF Latest!Arrive
      <4>3. CASE track # worker.track
        BY <3>1, <4>1, <4>3
      <4>4. QED
        BY <4>2, <4>3
    <3>4. QED
      BY <3>2, <3>3
  <2>6. CASE Cancel \/ Ask \/ AskInVain \/ Close
    BY <2>6 DEF Cancel, Ask, AskInVain, Close, serviceVars
  <2>7. CASE Worker
    BY <2>2, <2>5, <2>7, WorkerKinds
  <2>8. CASE \/ \E t \in Tracks : RetryTimeComes(t) \/ CacheDamaged(t) \/ CacheRemoved(t)
             \/ UNCHANGED vars
    BY <2>2, <2>5, <2>8, OtherKinds DEF Kinds
  <2>9. QED
    BY <2>1, <2>4, <2>6, <2>7, <2>8 DEF Next, DBus, TrackChanges, Restart
<1>3. QED
  BY AtFirst, Inductive, <1>1, <1>2, PTL DEF Spec, ShowsLatestCover, Latest!Spec

-----------------------------------------------------------------------------
(***************************************************************************)
(* Sorting: a finite set has a first element in a total and transitive     *)
(* order, and the elements of the set can be put in that order.            *)
(***************************************************************************)
Total(S, R) == \A x, y \in S : <<x, y>> \in R \/ <<y, x>> \in R
Transitive(S, R) ==
  \A x, y, z \in S : <<x, y>> \in R /\ <<y, z>> \in R => <<x, z>> \in R
Sorts(s, T, R) ==
  /\ s \in [1 .. Cardinality(T) -> T] /\ IsInjective(s)
  /\ \A i, j \in DOMAIN s : i < j => <<s[i], s[j]>> \in R

LEMMA Smaller ==
  ASSUME NEW T, IsFiniteSet(T), NEW t \in T
  PROVE  /\ IsFiniteSet(T \ {t}) /\ Cardinality(T) \in Nat /\ Cardinality(T) # 0
         /\ Cardinality(T \ {t}) = Cardinality(T) - 1
<1>1. IsFiniteSet(T \ {t}) /\ Cardinality(T \ {t}) = Cardinality(T) - 1
  BY FS_RemoveElement
<1>2. Cardinality(T) \in Nat
  BY FS_CardinalityType
<1>3. Cardinality(T) # 0
  BY FS_EmptySet
<1>4. QED
  BY <1>1, <1>2, <1>3

LEMMA FirstOf ==
  ASSUME NEW S, NEW R, Total(S, R), Transitive(S, R)
  PROVE  \A T \in SUBSET S : IsFiniteSet(T) /\ T # {} => \E t \in T : \A u \in T : <<t, u>> \in R
<1> DEFINE Lacks(T) == IsFiniteSet(T) /\ T # {} /\ ~\E t \in T : \A u \in T : <<t, u>> \in R
           Sizes == {n \in Nat : \E T \in SUBSET S : Lacks(T) /\ Cardinality(T) = n}
<1>1. SUFFICES ASSUME NEW T0 \in SUBSET S, Lacks(T0) PROVE FALSE
  OBVIOUS
<1>2. Cardinality(T0) \in Sizes
  BY <1>1, FS_CardinalityType
<1>3. Sizes \in SUBSET Nat /\ Sizes # {}
  BY <1>2
<1>4. PICK n \in Sizes : \A m \in Sizes : n <= m
  BY <1>3, LeastNumber
<1>5. PICK T \in SUBSET S : Lacks(T) /\ Cardinality(T) = n
  BY <1>4
<1>6. PICK x \in T : TRUE
  BY <1>5
<1> DEFINE U == T \ {x}
<1>7. IsFiniteSet(U) /\ Cardinality(U) = n - 1 /\ n \in Nat /\ n # 0 /\ U \in SUBSET S
  BY <1>5, <1>6, Smaller
<1>8. ~Lacks(U)
  <2>1. n - 1 \in Nat /\ ~(n <= n - 1)
    BY <1>7
  <2>2. n - 1 \notin Sizes
    BY <2>1, <1>4
  <2>3. QED
    BY <2>1, <2>2, <1>7
<1>9. CASE U = {}
  <2>1. T = {x} /\ x \in S
    BY <1>9, <1>6
  <2>2. <<x, x>> \in R
    BY <2>1 DEF Total
  <2>3. QED
    BY <2>1, <2>2, <1>5
<1>10. CASE U # {}
  <2>1. PICK t \in U : \A u \in U : <<t, u>> \in R
    BY <1>10, <1>8, <1>7
  <2>2. t \in S /\ x \in S
    BY <1>6, <2>1
  <2>3. CASE <<t, x>> \in R
    <3>1. \A u \in T : <<t, u>> \in R
      BY <2>1, <2>3
    <3>2. QED
      BY <3>1, <2>1, <1>5
  <2>4. CASE <<x, t>> \in R
    <3>1. <<x, x>> \in R
      BY <2>2 DEF Total
    <3>2. \A u \in U : <<x, u>> \in R
      BY <2>1, <2>2, <2>4 DEF Transitive
    <3>3. \A u \in T : <<x, u>> \in R
      BY <3>1, <3>2
    <3>4. QED
      BY <3>3, <1>5, <1>6
  <2>5. QED
    BY <2>2, <2>3, <2>4 DEF Total
<1>11. QED
  BY <1>9, <1>10

LEMMA SortedExists ==
  ASSUME NEW S, NEW R, Total(S, R), Transitive(S, R)
  PROVE  \A T \in SUBSET S : IsFiniteSet(T) => \E s : Sorts(s, T, R)
<1> DEFINE Lacks(T) == IsFiniteSet(T) /\ ~\E s : Sorts(s, T, R)
           Sizes == {n \in Nat : \E T \in SUBSET S : Lacks(T) /\ Cardinality(T) = n}
<1>1. SUFFICES ASSUME NEW T0 \in SUBSET S, Lacks(T0) PROVE FALSE
  OBVIOUS
<1>2. Cardinality(T0) \in Sizes
  BY <1>1, FS_CardinalityType
<1>3. Sizes \in SUBSET Nat /\ Sizes # {}
  BY <1>2
<1>4. PICK n \in Sizes : \A m \in Sizes : n <= m
  BY <1>3, LeastNumber
<1>5. PICK T \in SUBSET S : Lacks(T) /\ Cardinality(T) = n
  BY <1>4
<1>6. CASE T = {}
  <2>1. Cardinality(T) = 0
    BY <1>6, FS_EmptySet
  <2>2. [i \in 1 .. 0 |-> i] \in [1 .. 0 -> T] /\ DOMAIN [i \in 1 .. 0 |-> i] = {}
    OBVIOUS
  <2>3. Sorts([i \in 1 .. 0 |-> i], T, R)
    BY <2>1, <2>2 DEF Sorts, IsInjective
  <2>4. QED
    BY <2>3, <1>5
<1>7. CASE T # {}
  <2>1. PICK t \in T : \A u \in T : <<t, u>> \in R
    BY <1>5, <1>7, FirstOf
  <2> DEFINE U == T \ {t}
  <2>2. IsFiniteSet(U) /\ Cardinality(U) = n - 1 /\ n \in Nat /\ n # 0 /\ U \in SUBSET S
    BY <1>5, <2>1, Smaller
  <2>3. PICK s : Sorts(s, U, R)
    <3>1. n - 1 \in Nat /\ ~(n <= n - 1)
      BY <2>2
    <3>2. n - 1 \notin Sizes
      BY <3>1, <1>4
    <3>3. QED
      BY <3>1, <3>2, <2>2
  <2> DEFINE w == [i \in 1 .. n |-> IF i = 1 THEN t ELSE s[i - 1]]
  <2>4. s \in [1 .. n - 1 -> U] /\ DOMAIN s = 1 .. n - 1
    BY <2>2, <2>3 DEF Sorts
  <2>5. \A i \in 2 .. n : i - 1 \in 1 .. n - 1
    BY <2>2
  <2>6. w[1] = t /\ \A i \in 2 .. n : w[i] = s[i - 1] /\ w[i] \in U
    BY <2>2, <2>4, <2>5
  <2>7. \A i \in 1 .. n : i = 1 \/ i \in 2 .. n
    BY <2>2
  <2>8. w \in [1 .. n -> T]
    <3>1. \A i \in 1 .. n : w[i] \in T
      BY <2>6, <2>7
    <3>2. QED
      BY <3>1
  <2>9. IsInjective(w)
    <3>1. SUFFICES ASSUME NEW i \in 1 .. n, NEW j \in 1 .. n, w[i] = w[j] PROVE i = j
      BY DEF IsInjective
    <3>2. CASE i \in 2 .. n /\ j \in 2 .. n
      <4>1. s[i - 1] = s[j - 1] /\ i - 1 \in DOMAIN s /\ j - 1 \in DOMAIN s
        BY <3>1, <3>2, <2>4, <2>5, <2>6
      <4>2. i - 1 = j - 1
        BY <4>1, <2>3 DEF Sorts, IsInjective
      <4>3. QED
        BY <4>2, <3>2
    <3>3. QED
      BY <3>1, <3>2, <2>6, <2>7
  <2>10. ASSUME NEW i \in 1 .. n, NEW j \in 1 .. n, i < j PROVE <<w[i], w[j]>> \in R
    <3>1. j \in 2 .. n
      BY <2>10, <2>2
    <3>2. CASE i = 1
      BY <3>1, <3>2, <2>1, <2>6
    <3>3. CASE i \in 2 .. n
      <4>1. i - 1 \in DOMAIN s /\ j - 1 \in DOMAIN s /\ i - 1 < j - 1
        BY <3>1, <3>3, <2>4, <2>5, <2>10
      <4>2. <<s[i - 1], s[j - 1]>> \in R
        BY <4>1, <2>3 DEF Sorts
      <4>3. QED
        BY <4>2, <3>1, <3>3, <2>6
    <3>4. QED
      BY <3>2, <3>3, <2>7
  <2>11. Sorts(w, T, R)
    BY <2>8, <2>9, <2>10, <1>5 DEF Sorts
  <2>12. QED
    BY <2>11, <1>5
<1>8. QED
  BY <1>6, <1>7

\* What sorting returns.
LEMMA InOrderHas ==
  ASSUME NEW S, IsFiniteSet(S), NEW R, Total(S, R), Transitive(S, R)
  PROVE  LET s == InOrder(S, R) IN
         /\ Cardinality(S) \in Nat
         /\ s \in Seq(S) /\ Len(s) = Cardinality(S)
         /\ \A i, j \in 1 .. Len(s) : s[i] = s[j] => i = j
         /\ \A x \in S : \E i \in 1 .. Len(s) : s[i] = x
         /\ \A i, j \in 1 .. Len(s) : i < j => <<s[i], s[j]>> \in R
<1> DEFINE s == InOrder(S, R)
           n == Cardinality(S)
<1>1. n \in Nat
  BY FS_CardinalityType
<1>2. \E f : Sorts(f, S, R)
  BY SortedExists
<1>3. Sorts(s, S, R)
  BY <1>2 DEF Sorts, InOrder
<1>4. s \in [1 .. n -> S] /\ DOMAIN s = 1 .. n
  BY <1>3 DEF Sorts
<1>5. s \in Seq(S) /\ Len(s) = n
  BY <1>1, <1>4
<1>6. s \in Injection(1 .. n, S)
  BY <1>3 DEF Sorts, Injection
<1>7. Cardinality(1 .. n) = n /\ IsFiniteSet(1 .. n)
  BY <1>1, FS_Interval
<1>8. s \in Surjection(1 .. n, S)
  BY <1>6, <1>7, FS_Injection
<1>9. \A x \in S : \E i \in 1 .. n : s[i] = x
  BY <1>8 DEF Surjection
<1>10. \A i, j \in 1 .. n : s[i] = s[j] => i = j
  BY <1>3, <1>4 DEF Sorts, IsInjective
<1>11. \A i, j \in 1 .. n : i < j => <<s[i], s[j]>> \in R
  BY <1>3, <1>4 DEF Sorts
<1>12. QED
  BY <1>1, <1>5, <1>9, <1>10, <1>11

-----------------------------------------------------------------------------
(***************************************************************************)
(* The best release of a recording. Ranks are numbers, so Before orders    *)
(* the releases but for repetitions of one, which an answer may hold.      *)
(***************************************************************************)
LEMMA RankNumber ==
  ASSUME NEW r
  PROVE  Rank(r) \in Nat
<1>1. \A b : Bit(b) \in Nat
  BY DEF Bit
<1>2. QED
  BY <1>1 DEF Rank

LEMMA ParsedFinite ==
  ASSUME NEW rec \in AnyRecording
  PROVE  IsFiniteSet(Parsed(rec)) /\ Parsed(rec) \in SUBSET AnyRelease
<1> DEFINE s == rec.releases
<1>1. s \in Seq(AnyRelease)
  BY DEF AnyRecording
<1>2. s \in [1 .. Len(s) -> AnyRelease] /\ Len(s) \in Nat /\ DOMAIN s = 1 .. Len(s)
  BY <1>1, LenProperties
<1>3. ToSet(s) \in SUBSET AnyRelease /\ s \in Surjection(1 .. Len(s), ToSet(s))
  BY <1>2 DEF ToSet, Surjection
<1>4. IsFiniteSet(ToSet(s))
  <2>1. 1 \in Int /\ Len(s) \in Int
    BY <1>2
  <2>2. IsFiniteSet(1 .. Len(s))
    BY <2>1, FS_Interval
  <2>3. QED
    BY <2>2, <1>3, FS_Surjection
<1>5. Parsed(rec) \in SUBSET ToSet(s)
  BY DEF Parsed
<1>6. QED
  BY <1>3, <1>4, <1>5, FS_Subset

NotBelow(S) == {p \in S \X S : ~Before(p[2], p[1])}

LEMMA BeforeOrders ==
  ASSUME NEW S \in SUBSET AnyRelease
  PROVE  Total(S, NotBelow(S)) /\ Transitive(S, NotBelow(S))
<1>1. \A r \in AnyRelease : Rank(r) \in Nat /\ r.group \in Nat /\ r.id \in Nat
  BY RankNumber DEF AnyRelease
<1>2. \A x, y \in S : <<x, y>> \in NotBelow(S) <=> ~Before(y, x)
  BY DEF NotBelow
<1>3. ASSUME NEW x \in S, NEW y \in S PROVE ~Before(y, x) \/ ~Before(x, y)
  BY <1>1 DEF Before
<1>4. ASSUME NEW x \in S, NEW y \in S, NEW z \in S, ~Before(y, x), ~Before(z, y)
      PROVE  ~Before(z, x)
  <2>1. /\ Rank(x) \in Nat /\ x.group \in Nat /\ x.id \in Nat
        /\ Rank(y) \in Nat /\ y.group \in Nat /\ y.id \in Nat
        /\ Rank(z) \in Nat /\ z.group \in Nat /\ z.id \in Nat
    BY <1>1
  <2>2. QED
    BY <2>1, <1>4 DEF Before
<1>5. QED
  BY <1>2, <1>3, <1>4 DEF Total, Transitive

\* The best release of a recording is one of its releases, and none surpasses it.
LEMMA BestIsBest ==
  ASSUME NEW rec \in AnyRecording, Parsed(rec) # {}
  PROVE  /\ Ranked(rec) \in Seq(AnyRelease) /\ Ranked(rec) # <<>>
         /\ Ranked(rec)[1] \in Parsed(rec) /\ BestRank(rec) \in Nat
         /\ \A r \in Parsed(rec) : Rank(r) <= BestRank(rec)
<1> DEFINE P == Parsed(rec)
           s == Ranked(rec)
<1>1. IsFiniteSet(P) /\ P \in SUBSET AnyRelease
  BY ParsedFinite
<1>2. s = InOrder(P, NotBelow(P))
  BY DEF Ranked, NotBelow
<1>3. /\ s \in Seq(P) /\ Len(s) = Cardinality(P)
      /\ \A x \in P : \E i \in 1 .. Len(s) : s[i] = x
      /\ \A i, j \in 1 .. Len(s) : i < j => <<s[i], s[j]>> \in NotBelow(P)
  BY <1>1, <1>2, BeforeOrders, InOrderHas
<1>4. Cardinality(P) \in Nat /\ Cardinality(P) # 0
  BY <1>1, FS_CardinalityType, FS_EmptySet
<1>5. 1 \in 1 .. Len(s) /\ s \in Seq(AnyRelease) /\ s # <<>>
  BY <1>1, <1>3, <1>4, EmptySeq, SeqMonotonic
<1>6. s[1] \in P
  BY <1>3, <1>5, ElementOfSeq
<1>7. ASSUME NEW r \in P PROVE Rank(r) <= Rank(s[1])
  <2>1. PICK i \in 1 .. Len(s) : s[i] = r
    BY <1>3
  <2>2. Rank(r) \in Nat /\ Rank(s[1]) \in Nat
    BY RankNumber
  <2>3. CASE i = 1
    BY <2>1, <2>2, <2>3
  <2>4. CASE 1 < i
    <3>1. ~Before(r, s[1])
      BY <1>3, <1>5, <2>1, <2>4 DEF NotBelow
    <3>2. ~(Rank(r) > Rank(s[1]))
      BY <3>1 DEF Before
    <3>3. QED
      BY <2>2, <3>2
  <2>5. QED
    BY <2>1, <2>3, <2>4
<1>8. QED
  BY <1>5, <1>6, <1>7, RankNumber DEF BestRank

-----------------------------------------------------------------------------
(***************************************************************************)
(* The choice among recordings: sorting the accepted ones by their best    *)
(* release and comparing the first two is asking for the one that          *)
(* surpasses every release of all others.                                  *)
(***************************************************************************)
Good(rs) == {i \in DOMAIN rs : Accepted(rs[i])}
Better(rs) == {p \in Good(rs) \X Good(rs) : BestRank(rs[p[1]]) >= BestRank(rs[p[2]])}

LEMMA GoodHas ==
  ASSUME NEW rs \in Seq(AnyRecording)
  PROVE  /\ IsFiniteSet(Good(rs))
         /\ \A i \in Good(rs) :
              rs[i] \in AnyRecording /\ Parsed(rs[i]) # {} /\ BestRank(rs[i]) \in Nat
         /\ Total(Good(rs), Better(rs)) /\ Transitive(Good(rs), Better(rs))
<1>1. DOMAIN rs = 1 .. Len(rs) /\ Len(rs) \in Nat
  BY LenProperties
<1>2. IsFiniteSet(Good(rs))
  <2>1. 1 \in Int /\ Len(rs) \in Int
    BY <1>1
  <2>2. IsFiniteSet(DOMAIN rs)
    BY <1>1, <2>1, FS_Interval
  <2>3. Good(rs) \in SUBSET DOMAIN rs
    BY DEF Good
  <2>4. QED
    BY <2>2, <2>3, FS_Subset
<1>3. \A i \in Good(rs) : rs[i] \in AnyRecording
  BY <1>1, ElementOfSeq DEF Good
<1>4. \A i \in Good(rs) : Parsed(rs[i]) # {}
  BY DEF Good, Accepted
<1>5. \A i \in Good(rs) : BestRank(rs[i]) \in Nat
  BY <1>3, <1>4, BestIsBest
<1>6. \A x, y \in Good(rs) :
        <<x, y>> \in Better(rs) <=> BestRank(rs[x]) >= BestRank(rs[y])
  BY DEF Better
<1>7. Total(Good(rs), Better(rs))
  <2>1. SUFFICES ASSUME NEW x \in Good(rs), NEW y \in Good(rs)
                 PROVE  BestRank(rs[x]) >= BestRank(rs[y]) \/ BestRank(rs[y]) >= BestRank(rs[x])
    BY <1>6 DEF Total
  <2>2. BestRank(rs[x]) \in Nat /\ BestRank(rs[y]) \in Nat
    BY <1>5
  <2>3. QED
    BY <2>2
<1>8. Transitive(Good(rs), Better(rs))
  <2>1. SUFFICES ASSUME NEW x \in Good(rs), NEW y \in Good(rs), NEW z \in Good(rs),
                        BestRank(rs[x]) >= BestRank(rs[y]), BestRank(rs[y]) >= BestRank(rs[z])
                 PROVE  BestRank(rs[x]) >= BestRank(rs[z])
    BY <1>6 DEF Transitive
  <2>2. QED
    BY <1>5, <2>1
<1>9. QED
  BY <1>2, <1>3, <1>4, <1>5, <1>7, <1>8

\* The candidates, best first, without repetition.
LEMMA CandidatesHave ==
  ASSUME NEW rs \in Seq(AnyRecording)
  PROVE  LET best == Candidates(rs) IN
         /\ best \in Seq(Good(rs)) /\ Len(best) \in Nat
         /\ \A i, j \in 1 .. Len(best) : best[i] = best[j] => i = j
         /\ \A x \in Good(rs) : \E i \in 1 .. Len(best) : best[i] = x
         /\ \A i, j \in 1 .. Len(best) : i < j => BestRank(rs[best[i]]) >= BestRank(rs[best[j]])
<1> DEFINE best == Candidates(rs)
<1>1. best = InOrder(Good(rs), Better(rs))
  BY DEF Candidates, Good, Better
<1>2. /\ best \in Seq(Good(rs))
      /\ \A i, j \in 1 .. Len(best) : best[i] = best[j] => i = j
      /\ \A x \in Good(rs) : \E i \in 1 .. Len(best) : best[i] = x
      /\ \A i, j \in 1 .. Len(best) : i < j => <<best[i], best[j]>> \in Better(rs)
  <2>1. IsFiniteSet(Good(rs)) /\ Total(Good(rs), Better(rs)) /\ Transitive(Good(rs), Better(rs))
    BY GoodHas
  <2>2. QED
    BY <1>1, <2>1, InOrderHas
<1>3. Len(best) \in Nat
  BY <1>2, LenProperties
<1>4. \A i, j \in 1 .. Len(best) : i < j => BestRank(rs[best[i]]) >= BestRank(rs[best[j]])
  BY <1>2 DEF Better
<1>5. QED
  BY <1>2, <1>3, <1>4

\* Surpassing every release of another recording is having a better best release.
LEMMA SurpassesAll ==
  ASSUME NEW rs \in Seq(AnyRecording), NEW i \in Good(rs), NEW j \in Good(rs)
  PROVE  (\E r \in Parsed(rs[i]) : \A s \in Parsed(rs[j]) : Rank(r) > Rank(s))
           <=> BestRank(rs[i]) > BestRank(rs[j])
<1> DEFINE bi == Ranked(rs[i])[1]
           bj == Ranked(rs[j])[1]
<1>1. /\ bi \in Parsed(rs[i]) /\ Rank(bi) = BestRank(rs[i])
      /\ bj \in Parsed(rs[j]) /\ Rank(bj) = BestRank(rs[j])
      /\ \A r \in Parsed(rs[i]) : Rank(r) <= BestRank(rs[i])
      /\ \A s \in Parsed(rs[j]) : Rank(s) <= BestRank(rs[j])
  BY GoodHas, BestIsBest DEF BestRank
<1>2. \A r : Rank(r) \in Nat
  BY RankNumber
<1>3. BestRank(rs[i]) \in Nat /\ BestRank(rs[j]) \in Nat
  BY GoodHas
<1>4. ASSUME NEW r \in Parsed(rs[i]), \A s \in Parsed(rs[j]) : Rank(r) > Rank(s)
      PROVE  BestRank(rs[i]) > BestRank(rs[j])
  <2>1. Rank(r) > BestRank(rs[j]) /\ Rank(r) <= BestRank(rs[i]) /\ Rank(r) \in Nat
    BY <1>1, <1>2, <1>4
  <2>2. QED
    BY <2>1, <1>3
<1>5. ASSUME BestRank(rs[i]) > BestRank(rs[j]), NEW s \in Parsed(rs[j])
      PROVE  Rank(bi) > Rank(s)
  <2>1. Rank(s) <= BestRank(rs[j]) /\ Rank(s) \in Nat /\ Rank(bi) = BestRank(rs[i])
    BY <1>1, <1>2
  <2>2. QED
    BY <2>1, <1>3, <1>5
<1>6. QED
  BY <1>1, <1>4, <1>5

LEMMA UnrivalledIs ==
  ASSUME NEW rs \in Seq(AnyRecording)
  PROVE  Unrivalled(rs) =
           {i \in Good(rs) : \A j \in Good(rs) \ {i} : BestRank(rs[i]) > BestRank(rs[j])}
  BY SurpassesAll DEF Unrivalled, Good

\* The algorithm chooses what surpasses all others.
LEMMA ChoiceIs ==
  ASSUME NEW rs \in Seq(AnyRecording)
  PROVE  Selected(rs) =
           IF Unrivalled(rs) = {} THEN NoMatch ELSE Match(rs[CHOOSE i \in Unrivalled(rs) : TRUE])
<1> DEFINE best == Candidates(rs)
           B(i) == BestRank(rs[i])
<1>0. /\ best \in Seq(Good(rs)) /\ Len(best) \in Nat
      /\ \A i, j \in 1 .. Len(best) : best[i] = best[j] => i = j
      /\ \A x \in Good(rs) : \E i \in 1 .. Len(best) : best[i] = x
      /\ \A i, j \in 1 .. Len(best) : i < j => B(best[i]) >= B(best[j])
  BY CandidatesHave
<1>1. \A i \in 1 .. Len(best) : best[i] \in Good(rs)
  BY <1>0, ElementOfSeq
<1>2. \A i \in Good(rs) : B(i) \in Nat
  BY GoodHas
<1>3. Selected(rs) = IF best = <<>> \/ (Len(best) > 1 /\ B(best[1]) = B(best[2]))
                     THEN NoMatch ELSE Match(rs[best[1]])
  BY DEF Selected
<1> HIDE DEF best, B
<1>4. CASE best = <<>>
  <2>1. Good(rs) = {}
    BY <1>0, <1>4, EmptySeq
  <2>2. Unrivalled(rs) = {}
    BY <2>1, UnrivalledIs
  <2>3. QED
    BY <2>2, <1>3, <1>4
<1>5. CASE best # <<>>
  <2>1. Len(best) >= 1 /\ 1 \in 1 .. Len(best) /\ best[1] \in Good(rs)
    BY <1>0, <1>1, <1>5, EmptySeq
  <2>2. ASSUME NEW i \in Unrivalled(rs) PROVE i = best[1]
    <3>1. i \in Good(rs) /\ (best[1] # i => B(i) > B(best[1]))
      BY <2>1, UnrivalledIs DEF B
    <3>2. PICK k \in 1 .. Len(best) : best[k] = i
      BY <1>0, <3>1
    <3>3. k = 1 \/ 1 < k
      BY <3>2, <1>0
    <3>4. 1 < k => B(best[1]) >= B(i)
      BY <1>0, <2>1, <3>2
    <3>5. B(i) \in Nat /\ B(best[1]) \in Nat
      BY <1>2, <2>1, <3>1
    <3>6. QED
      BY <3>1, <3>2, <3>3, <3>4, <3>5
  <2>3. CASE Len(best) > 1 /\ B(best[1]) = B(best[2])
    <3>1. 2 \in 1 .. Len(best) /\ best[2] \in Good(rs) /\ best[2] # best[1]
      BY <2>3, <2>1, <1>0, <1>1
    <3>2. best[1] \notin Unrivalled(rs)
      <4>1. best[1] \in Unrivalled(rs) => B(best[1]) > B(best[2])
        BY <3>1, UnrivalledIs DEF B
      <4>2. QED
        BY <4>1, <2>3, <1>2, <3>1
    <3>3. Unrivalled(rs) = {}
      BY <2>2, <3>2
    <3>4. QED
      BY <3>3, <1>3, <2>3
  <2>4. CASE ~(Len(best) > 1 /\ B(best[1]) = B(best[2]))
    <3>1. ASSUME NEW j \in Good(rs) \ {best[1]} PROVE B(best[1]) > B(j)
      <4>1. PICK k \in 1 .. Len(best) : best[k] = j
        BY <1>0
      <4>2. 2 \in 1 .. Len(best) /\ (k = 2 \/ 2 < k)
        BY <4>1, <1>0, <3>1
      <4>3. B(best[2]) >= B(j)
        <5>1. B(j) \in Nat
          BY <1>2
        <5>2. CASE k = 2
          BY <5>1, <5>2, <4>1
        <5>3. CASE 2 < k
          BY <5>3, <1>0, <4>1, <4>2
        <5>4. QED
          BY <4>2, <5>2, <5>3
      <4>4. B(best[1]) >= B(best[2]) /\ B(best[1]) # B(best[2])
        BY <4>2, <2>1, <2>4, <1>0
      <4>5. B(best[1]) \in Nat /\ B(best[2]) \in Nat /\ B(j) \in Nat
        BY <1>1, <1>2, <2>1, <4>2
      <4>6. QED
        BY <4>3, <4>4, <4>5
    <3>2. best[1] \in Unrivalled(rs)
      BY <3>1, <2>1, UnrivalledIs DEF B
    <3>3. Unrivalled(rs) = {best[1]}
      BY <3>2, <2>2
    <3>4. (CHOOSE i \in Unrivalled(rs) : TRUE) = best[1]
      BY <3>3
    <3>5. Unrivalled(rs) # {}
      BY <3>3
    <3>6. QED
      BY <3>4, <3>5, <1>3, <1>5, <2>4
  <2>5. QED
    BY <2>3, <2>4
<1>6. QED
  BY <1>4, <1>5
\* The choice reads the album and the answer: it stays with them.
LEMMA RankSame ==
  ASSUME album' = album, NEW r
  PROVE  Rank(r)' = Rank(r) /\ IsAlbum(r)' = IsAlbum(r)
  BY DEF Rank, Bit, IsAlbum

LEMMA BeforeSame ==
  ASSUME album' = album, NEW r, NEW s
  PROVE  Before(r, s)' <=> Before(r, s)
  BY RankSame DEF Before

LEMMA MatchSame ==
  ASSUME album' = album, NEW r
  PROVE  Match(r)' = Match(r)
<1>1. Ranked(r)' = Ranked(r)
  BY BeforeSame DEF Ranked
<1>2. QED
  BY <1>1 DEF Match

LEMMA AcceptedSame ==
  ASSUME album' = album, NEW r
  PROVE  Accepted(r)' = Accepted(r)
  BY RankSame DEF Accepted

LEMMA ChosenStays ==
  ASSUME ChoiceUnique, UNCHANGED <<album, found, match>>
  PROVE  ChoiceUnique'
<1>1. Unrivalled(found)' = Unrivalled(found)
  BY AcceptedSame, RankSame DEF Unrivalled
<1>2. QED
  BY <1>1, MatchSame DEF ChoiceUnique

LEMMA UnrivalledNew ==
  ASSUME album' = album, NEW r, found' = r
  PROVE  Unrivalled(found)' = Unrivalled(r)
  BY AcceptedSame, RankSame DEF Unrivalled

LEMMA ChosenAnew ==
  ASSUME album' = album, NEW r, found' = r, match' = Selected(r),
         Selected(r) =
           IF Unrivalled(r) = {} THEN NoMatch ELSE Match(r[CHOOSE i \in Unrivalled(r) : TRUE])
  PROVE  ChoiceUnique'
<1>1. ASSUME Unrivalled(r) = {} PROVE ChoiceUnique'
  BY <1>1, UnrivalledNew DEF ChoiceUnique, NoMatch
<1>2. ASSUME Unrivalled(r) # {} PROVE ChoiceUnique'
  <2> DEFINE i == CHOOSE i \in Unrivalled(r) : TRUE
  <2>1. (Match(found[CHOOSE j \in Unrivalled(found) : TRUE]))' = Match(r[i])
    BY UnrivalledNew, MatchSame
  <2>2. QED
    BY <1>2, <2>1, UnrivalledNew DEF ChoiceUnique
<1>3. QED
  BY <1>1, <1>2

-----------------------------------------------------------------------------
(***************************************************************************)
(* The identifiers of a match are those of its releases, all different, in *)
(* the order in which the ranked releases first name them.                 *)
(***************************************************************************)
Uuids == Nat \ {0}
Places(ranked, x) == {i \in 1 .. Len(ranked) : ranked[i].id = x}
IdsOf(ranked) == {ranked[i].id : i \in DOMAIN ranked} \ {0}
Met(ranked) ==
  {p \in IdsOf(ranked) \X IdsOf(ranked) : \E i \in DOMAIN ranked :
     /\ ranked[i].id = p[1] /\ \A j \in 1 .. i - 1 : ranked[j].id # p[2]}

LEMMA MetOrders ==
  ASSUME NEW ranked \in Seq(AnyRelease)
  PROVE  /\ IsFiniteSet(IdsOf(ranked)) /\ IdsOf(ranked) \in SUBSET Uuids
         /\ Total(IdsOf(ranked), Met(ranked)) /\ Transitive(IdsOf(ranked), Met(ranked))
<1> DEFINE S == IdsOf(ranked)
           n == Len(ranked)
<1>1. n \in Nat /\ DOMAIN ranked = 1 .. n
  BY LenProperties
<1>2. \A i \in 1 .. n : ranked[i].id \in Nat
  <2>1. \A i \in 1 .. n : ranked[i] \in AnyRelease
    BY ElementOfSeq
  <2>2. QED
    BY <2>1 DEF AnyRelease
<1>3. S \in SUBSET Uuids
  BY <1>1, <1>2 DEF IdsOf, Uuids
<1>4. IsFiniteSet(S)
  <2> DEFINE f == [i \in 1 .. n |-> ranked[i].id]
             T == {ranked[i].id : i \in 1 .. n}
  <2>1. f \in Surjection(1 .. n, T)
    BY DEF Surjection
  <2>2. 1 \in Int /\ n \in Int
    BY <1>1
  <2>3. IsFiniteSet(1 .. n)
    BY <2>2, FS_Interval
  <2>4. IsFiniteSet(T)
    BY <2>1, <2>3, FS_Surjection
  <2>5. S \in SUBSET T
    BY <1>1 DEF IdsOf
  <2>6. QED
    BY <2>4, <2>5, FS_Subset
<1>5. \A x, y \in S : <<x, y>> \in Met(ranked) <=>
        \E i \in 1 .. n : ranked[i].id = x /\ \A j \in 1 .. i - 1 : ranked[j].id # y
  BY <1>1 DEF Met
<1>6. ASSUME NEW x \in S
      PROVE  \E i \in 1 .. n : ranked[i].id = x /\ \A j \in 1 .. i - 1 : ranked[j].id # x
  <2>1. Places(ranked, x) \in SUBSET Nat /\ Places(ranked, x) # {}
    BY <1>1 DEF IdsOf, Places
  <2>2. PICK i \in Places(ranked, x) : \A j \in Places(ranked, x) : i <= j
    BY <2>1, LeastNumber
  <2>3. i \in 1 .. n /\ ranked[i].id = x
    BY <2>2 DEF Places
  <2>4. ASSUME NEW j \in 1 .. i - 1 PROVE ranked[j].id # x
    <3>1. j \in 1 .. n /\ ~(i <= j)
      BY <2>3, <2>4, <1>1
    <3>2. QED
      BY <3>1, <2>2 DEF Places
  <2>5. QED
    BY <2>3, <2>4
<1>7. Total(S, Met(ranked))
  <2>1. SUFFICES ASSUME NEW x \in S, NEW y \in S
                 PROVE  <<x, y>> \in Met(ranked) \/ <<y, x>> \in Met(ranked)
    BY DEF Total
  <2>2. PICK i \in 1 .. n : ranked[i].id = x /\ \A j \in 1 .. i - 1 : ranked[j].id # x
    BY <1>6
  <2>3. PICK k \in 1 .. n : ranked[k].id = y /\ \A j \in 1 .. k - 1 : ranked[j].id # y
    BY <1>6
  <2>4. CASE i <= k
    <3>1. \A j \in 1 .. i - 1 : j \in 1 .. k - 1
      BY <2>4, <1>1
    <3>2. QED
      BY <3>1, <2>2, <2>3, <1>5
  <2>5. CASE k <= i
    <3>1. \A j \in 1 .. k - 1 : j \in 1 .. i - 1
      BY <2>5, <1>1
    <3>2. QED
      BY <3>1, <2>2, <2>3, <1>5
  <2>6. QED
    BY <2>4, <2>5, <1>1
<1>8. Transitive(S, Met(ranked))
  <2>1. SUFFICES ASSUME NEW x \in S, NEW y \in S, NEW z \in S,
                        <<x, y>> \in Met(ranked), <<y, z>> \in Met(ranked)
                 PROVE  <<x, z>> \in Met(ranked)
    BY DEF Transitive
  <2>2. PICK i \in 1 .. n : ranked[i].id = x /\ \A j \in 1 .. i - 1 : ranked[j].id # y
    BY <2>1, <1>5
  <2>3. PICK k \in 1 .. n : ranked[k].id = y /\ \A j \in 1 .. k - 1 : ranked[j].id # z
    BY <2>1, <1>5
  <2>4. i <= k
    <3>1. ~(k \in 1 .. i - 1)
      BY <2>2, <2>3
    <3>2. QED
      BY <3>1, <1>1
  <2>5. \A j \in 1 .. i - 1 : j \in 1 .. k - 1
    BY <2>4, <1>1
  <2>6. QED
    BY <2>5, <2>2, <2>3, <1>5
<1>9. QED
  BY <1>3, <1>4, <1>7, <1>8

\* What is chosen: no identifier twice, and something to ask for.
IsMatch(m) ==
  /\ m.group \in Nat /\ m.ids \in Seq(Nat)
  /\ \A i, j \in 1 .. Len(m.ids) : m.ids[i] = m.ids[j] => i = j
  /\ m.group # 0 \/ m.ids # <<>>

LEMMA IdsHave ==
  ASSUME NEW ranked \in Seq(AnyRelease)
  PROVE  /\ Ids(ranked) \in Seq(Nat)
         /\ \A i, j \in 1 .. Len(Ids(ranked)) : Ids(ranked)[i] = Ids(ranked)[j] => i = j
         /\ \A i \in 1 .. Len(ranked) : ranked[i].id # 0 => Ids(ranked) # <<>>
<1> DEFINE S == IdsOf(ranked)
           s == Ids(ranked)
<1>1. IsFiniteSet(S) /\ S \in SUBSET Uuids /\ Total(S, Met(ranked)) /\ Transitive(S, Met(ranked))
  BY MetOrders
<1>2. s = InOrder(S, Met(ranked))
  BY DEF Ids, IdsOf, Met
<1>3. /\ s \in Seq(S) /\ Len(s) = Cardinality(S)
      /\ \A i, j \in 1 .. Len(s) : s[i] = s[j] => i = j
      /\ \A x \in S : \E i \in 1 .. Len(s) : s[i] = x
  BY <1>1, <1>2, InOrderHas
<1>4. s \in Seq(Nat)
  <2>1. S \subseteq Nat
    BY <1>1 DEF Uuids
  <2>2. QED
    BY <2>1, <1>3, SeqMonotonic
<1>5. ASSUME NEW i \in 1 .. Len(ranked), ranked[i].id # 0 PROVE s # <<>>
  <2>1. ranked[i].id \in S
    BY <1>5, LenProperties DEF IdsOf
  <2>2. Len(s) # 0
    BY <2>1, <1>3
  <2>3. QED
    BY <2>2, EmptySeq
<1>6. QED
  BY <1>3, <1>4, <1>5

LEMMA MatchIs ==
  ASSUME NEW rec \in AnyRecording, Parsed(rec) # {}
  PROVE  IsMatch(Match(rec))
<1> DEFINE ranked == Ranked(rec)
<1>1. ranked \in Seq(AnyRelease) /\ ranked # <<>> /\ ranked[1] \in Parsed(rec)
  BY BestIsBest
<1>2. Match(rec).group = ranked[1].group /\ Match(rec).ids = Ids(ranked)
  BY DEF Match
<1>3. ranked[1] \in AnyRelease /\ (ranked[1].id # 0 \/ ranked[1].group # 0)
  BY <1>1, ParsedFinite DEF Parsed
<1>4. ranked[1].group \in Nat
  BY <1>3 DEF AnyRelease
<1>5. 1 \in 1 .. Len(ranked)
  BY <1>1, EmptySeq
<1>6. QED
  BY <1>1, <1>2, <1>3, <1>4, <1>5, IdsHave DEF IsMatch

LEMMA SelectedIs ==
  ASSUME NEW rs \in Seq(AnyRecording)
  PROVE  Selected(rs) = NoMatch \/ IsMatch(Selected(rs))
<1> DEFINE best == Candidates(rs)
<1>1. best \in Seq(Good(rs))
  BY CandidatesHave
<1>2. CASE best = <<>>
  BY <1>2 DEF Selected
<1>3. CASE best # <<>>
  <2>1. 1 \in 1 .. Len(best)
    BY <1>1, <1>3, EmptySeq
  <2>2. best[1] \in Good(rs)
    BY <1>1, <2>1, ElementOfSeq
  <2>3. IsMatch(Match(rs[best[1]]))
    BY <2>2, GoodHas, MatchIs
  <2>4. Selected(rs) \in {NoMatch, Match(rs[best[1]])}
    BY DEF Selected
  <2>5. QED
    BY <2>3, <2>4
<1>4. QED
  BY <1>2, <1>3

-----------------------------------------------------------------------------
(***************************************************************************)
(* The addresses at the archive.                                           *)
(***************************************************************************)
Addresses == {"group", "release"} \X Nat

LEMMA FunctionIsSeq ==
  ASSUME NEW S, NEW n \in Nat, NEW f \in [1 .. n -> S]
  PROVE  f \in Seq(S) /\ Len(f) = n
  BY SeqDef

LEMMA SingleIsSeq ==
  ASSUME NEW S, NEW x \in S
  PROVE  <<x>> \in Seq(S) /\ Len(<<x>>) = 1
  OBVIOUS

\* The addresses of a match: at least one, no more than the limit, all different.
LEMMA UrlsHave ==
  ASSUME NEW m, IsMatch(m)
  PROVE  LET u == CandidateUrls(m) IN
         /\ u \in Seq(Addresses) /\ Len(u) \in 1 .. 1 + MaxReleases
         /\ \A i, j \in 1 .. Len(u) : u[i] = u[j] => i = j
<1> DEFINE n == Len(m.ids)
           t == IF n < MaxReleases THEN n ELSE MaxReleases
           a == IF m.group = 0 THEN <<>> ELSE << <<"group", m.group>> >>
           b == [i \in 1 .. t |-> <<"release", m.ids[i]>>]
           u == a \o b
<1>1. m.group \in Nat /\ m.ids \in Seq(Nat) /\ n \in Nat
  BY LenProperties DEF IsMatch
<1>2. MaxReleases \in Nat /\ MaxReleases # 0
  BY LookupAssumption
<1>3. t \in Nat /\ t <= n /\ t <= MaxReleases /\ (n # 0 => t # 0)
  BY <1>1, <1>2
<1>4. \A i \in 1 .. t : i \in 1 .. n /\ m.ids[i] \in Nat
  <2>1. \A i \in 1 .. t : i \in 1 .. n
    BY <1>1, <1>3
  <2>2. QED
    BY <2>1, <1>1, ElementOfSeq
<1>5. b \in Seq(Addresses) /\ Len(b) = t
  <2>1. b \in [1 .. t -> Addresses]
    BY <1>4 DEF Addresses
  <2>2. QED
    BY <2>1, <1>3, FunctionIsSeq
<1>6. a \in Seq(Addresses) /\ Len(a) \in {0, 1}
  <2>1. CASE m.group = 0
    BY <2>1, EmptySeq
  <2>2. CASE m.group # 0
    <3>1. <<"group", m.group>> \in Addresses
      BY <1>1 DEF Addresses
    <3>2. a = << <<"group", m.group>> >>
      BY <2>2
    <3>3. QED
      BY <3>1, <3>2, SingleIsSeq
  <2>3. QED
    BY <2>1, <2>2
<1>7. Len(a) = 0 => m.group = 0
  OBVIOUS
<1>8. \A i \in 1 .. Len(a) : a[i] = <<"group", m.group>>
  <2>1. m.group = 0 => Len(a) = 0
    OBVIOUS
  <2>2. m.group # 0 => Len(a) = 1 /\ a[1] = <<"group", m.group>>
    OBVIOUS
  <2>3. QED
    BY <2>1, <2>2
<1>9. \A i \in 1 .. t : b[i] = <<"release", m.ids[i]>>
  OBVIOUS
<1>10. u = CandidateUrls(m)
  BY DEF CandidateUrls
<1> HIDE DEF a, b, t
<1>11. /\ u \in Seq(Addresses) /\ Len(u) = Len(a) + t
       /\ \A i \in 1 .. Len(a) + t : u[i] = IF i <= Len(a) THEN a[i] ELSE b[i - Len(a)]
  BY <1>5, <1>6, ConcatProperties
<1>12. Len(u) \in 1 .. 1 + MaxReleases
  <2>1. m.ids # <<>> => n # 0
    BY <1>1, EmptySeq
  <2>2. m.group # 0 \/ m.ids # <<>>
    BY DEF IsMatch
  <2>3. Len(a) # 0 \/ t # 0
    BY <2>1, <2>2, <1>3, <1>7
  <2>4. Len(u) = Len(a) + t /\ t \in Nat /\ t <= MaxReleases /\ MaxReleases \in Nat
    BY <1>2, <1>3, <1>11
  <2>5. CASE Len(a) = 0
    BY <2>3, <2>4, <2>5
  <2>6. CASE Len(a) = 1
    BY <2>4, <2>6
  <2>7. QED
    BY <2>5, <2>6, <1>6
<1>13. ASSUME NEW i \in 1 .. Len(u), NEW j \in 1 .. Len(u), u[i] = u[j] PROVE i = j
  <2> DEFINE k == Len(a)
  <2>0. k \in {0, 1} /\ i \in 1 .. k + t /\ j \in 1 .. k + t
    BY <1>6, <1>11
  <2>1. \A x \in 1 .. k + t : x <= k => u[x] = <<"group", m.group>> /\ x = 1
    BY <1>8, <1>11, <2>0
  <2>2. \A x \in 1 .. k + t : ~(x <= k) => x - k \in 1 .. t /\ u[x] = <<"release", m.ids[x - k]>>
    <3>1. SUFFICES ASSUME NEW x \in 1 .. k + t, ~(x <= k)
                   PROVE  x - k \in 1 .. t /\ u[x] = <<"release", m.ids[x - k]>>
      OBVIOUS
    <3>2. x - k \in 1 .. t
      BY <3>1, <2>0, <1>3
    <3>3. u[x] = b[x - k]
      BY <3>1, <1>11
    <3>4. QED
      BY <3>2, <3>3, <1>9
  <2> HIDE DEF k, u
  <2>3. CASE i <= k /\ j <= k
    BY <2>3, <2>0, <2>1
  <2>4. CASE ~(i <= k) /\ ~(j <= k)
    <3>1. i - k \in 1 .. t /\ j - k \in 1 .. t /\ m.ids[i - k] = m.ids[j - k]
      BY <2>0, <2>2, <2>4, <1>13
    <3>2. i - k \in 1 .. n /\ j - k \in 1 .. n
      BY <3>1, <1>4
    <3>3. i - k = j - k
      BY <3>1, <3>2 DEF IsMatch
    <3>4. QED
      BY <3>3, <2>0, <1>3
  <2>5. CASE i <= k /\ ~(j <= k)
    <3>1. <<"group", m.group>> = <<"release", m.ids[j - k]>>
      BY <2>0, <2>1, <2>2, <2>5, <1>13
    <3>2. QED
      BY <3>1
  <2>6. CASE ~(i <= k) /\ j <= k
    <3>1. <<"release", m.ids[i - k]>> = <<"group", m.group>>
      BY <2>0, <2>1, <2>2, <2>6, <1>13
    <3>2. QED
      BY <3>1
  <2>7. QED
    BY <2>3, <2>4, <2>5, <2>6
<1>14. QED
  BY <1>10, <1>11, <1>12, <1>13

-----------------------------------------------------------------------------
(***************************************************************************)
(* The invariant of a lookup. While the archive is asked, the first k      *)
(* addresses of the match were answered by "not found", the rest is left   *)
(* in its order, and each address asked before cost at most one request    *)
(* and MaxRedirects redirects: what is missing is known, and the requests  *)
(* are counted by the address that is asked.                               *)
(***************************************************************************)
Urls == CandidateUrls(match)

Underway ==
  \E k \in 0 .. Len(Urls) - 1 :
    /\ urls \in Seq(Addresses) /\ Len(urls) = Len(Urls) - k
    /\ \A i \in 1 .. Len(urls) : urls[i] = Urls[k + i]
    /\ missing = {Urls[i] : i \in 1 .. k}
    /\ gets <= k * (1 + MaxRedirects) + hops /\ hops <= MaxRedirects

LTyped ==
  /\ gets \in Nat /\ hops \in Nat /\ found \in Seq(AnyRecording)
  /\ stage \in {"search", "fetch", "told"}

Searching ==
  stage = "search" =>
    match = NoMatch /\ missing = {} /\ gets = 0 /\ hops = 0 /\ failed = NoFailure

Fetching == stage = "fetch" => IsMatch(match) /\ failed = NoFailure /\ Underway

LInv == LTyped /\ Searching /\ Fetching /\ LookupRight

LEMMA Capped ==
  ASSUME NEW n \in Nat, NEW d \in Nat, 1 <= d
  PROVE  LET c == IF n < 1 THEN 1 ELSE IF n > d THEN d ELSE n IN
         c \in 1 .. d /\ (n \in 1 .. d => c = n)
<1>1. CASE n < 1
  BY <1>1
<1>2. CASE n > d
  BY <1>2
<1>3. CASE 1 <= n /\ n <= d
  BY <1>3
<1>4. QED
  BY <1>1, <1>2, <1>3

\* What a failure makes of Retry-After: a delay of at most a day.
LEMMA DelayIs ==
  ASSUME NEW after \in RetryAfters \cup {Unsaid}, NEW limited \in BOOLEAN
  PROVE  /\ after # NoFailure /\ RetryDelay(after, limited) \in 1 .. Day
         /\ after \in 1 .. Day => RetryDelay(after, limited) = after
<1>1. after \in Nat \/ after = -1
  BY LookupAssumption DEF Unsaid
<1>2. CASE after = -1
  <2>1. RetryDelay(after, limited) \in {RateLimitRetry, TransientRetry}
    BY <1>2 DEF RetryDelay, Unsaid
  <2>2. RateLimitRetry \in 1 .. Day /\ TransientRetry \in 1 .. Day
    BY DEF Day, RateLimitRetry, TransientRetry
  <2>3. -1 # NoFailure /\ -1 \notin 1 .. Day
    BY DEF NoFailure
  <2>4. QED
    BY <1>2, <2>1, <2>2, <2>3
<1>3. CASE after \in Nat
  <2>1. RetryDelay(after, limited) = IF after < 1 THEN 1 ELSE IF after > Day THEN Day ELSE after
    BY <1>3 DEF RetryDelay, Unsaid
  <2>2. /\ (IF after < 1 THEN 1 ELSE IF after > Day THEN Day ELSE after) \in 1 .. Day
        /\ after \in 1 .. Day =>
             (IF after < 1 THEN 1 ELSE IF after > Day THEN Day ELSE after) = after
    <3>1. Day \in Nat /\ 1 <= Day
      BY DEF Day
    <3>2. QED
      BY <1>3, <3>1, Capped
  <2>3. after # NoFailure
    BY <1>3 DEF NoFailure
  <2>4. QED
    BY <2>1, <2>2, <2>3
<1>4. QED
  BY <1>1, <1>2, <1>3

\* Nothing chosen, nothing to ask for.
LEMMA NobodyAsked == ToSet(CandidateUrls(NoMatch)) = {}
<1> DEFINE t == IF Len(NoMatch.ids) < MaxReleases THEN Len(NoMatch.ids) ELSE MaxReleases
           b == [i \in 1 .. t |-> <<"release", NoMatch.ids[i]>>]
<1>1. NoMatch.group = 0 /\ NoMatch.ids = <<>> /\ Len(NoMatch.ids) = 0
  BY DEF NoMatch
<1>2. t = 0
  BY <1>1, LookupAssumption
<1>3. 1 .. t = {}
  BY <1>2
<1>4. b \in [1 .. t -> Addresses]
  BY <1>3
<1>5. b \in Seq(Addresses) /\ Len(b) = 0
  BY <1>2, <1>4, FunctionIsSeq
<1>6. b = <<>>
  BY <1>5, EmptySeq
<1>7. CandidateUrls(NoMatch) = <<>> \o b
  BY <1>1 DEF CandidateUrls
<1>8. <<>> \o b = b
  BY <1>5, ConcatEmptySeq
<1>9. CandidateUrls(NoMatch) = <<>>
  BY <1>6, <1>7, <1>8
<1>10. QED
  BY <1>9 DEF ToSet

\* Bounds of products.
LEMMA RequestsAdd ==
  ASSUME NEW k \in Nat, NEW l \in Nat, NEW m \in Nat, NEW r \in Nat, NEW h \in Nat, NEW g \in Nat,
         k + 1 <= l, l <= 1 + m, h <= r, g <= k * (1 + r) + h
  PROVE  /\ g + 1 <= (k + 1) * (1 + r)
         /\ g + 1 <= (1 + m) * (1 + r)
<1>1. (k + 1) * (1 + r) = k * (1 + r) + (1 + r)
  BY SMT
<1>2. k * (1 + r) \in Nat /\ (k + 1) * (1 + r) \in Nat /\ (1 + m) * (1 + r) \in Nat
  BY SMT
<1>3. g + 1 <= (k + 1) * (1 + r)
  BY <1>1, <1>2
<1>4. (k + 1) * (1 + r) <= (1 + m) * (1 + r)
  <2>1. k + 1 <= 1 + m
    OBVIOUS
  <2>2. QED
    BY <2>1, SMT
<1>5. QED
  BY <1>2, <1>3, <1>4

-----------------------------------------------------------------------------
(***************************************************************************)
(* Every step keeps it.                                                    *)
(***************************************************************************)
LEMMA LookupBegins == LookupInit => LInv
<1>1. SUFFICES ASSUME LookupInit PROVE LInv
  OBVIOUS
<1>2. LTyped /\ Searching /\ Fetching
  BY <1>1 DEF LookupInit, LTyped, Searching, Fetching
<1>3. ChoiceUnique
  <2>1. Unrivalled(<<>>) = {}
    BY DEF Unrivalled
  <2>2. QED
    BY <1>1, <2>1 DEF LookupInit, ChoiceUnique
<1>4. SilenceDeserved
  BY <1>1 DEF LookupInit, SilenceDeserved
<1>5. LookupBounded
  <2>1. (1 + MaxReleases) * (1 + MaxRedirects) \in Nat
    BY LookupAssumption, SMT
  <2>2. gets = 0
    BY <1>1 DEF LookupInit
  <2>3. QED
    BY <2>1, <2>2 DEF LookupBounded
<1>6. QED
  BY <1>2, <1>3, <1>4, <1>5 DEF LInv, LookupRight

LEMMA SearchFailsKeeps ==
  ASSUME LInv, NEW after \in RetryAfters \cup {Unsaid}, NEW limited \in BOOLEAN,
         SearchFails(after, limited)
  PROVE  LInv'
<1>1. /\ stage' = "told" /\ UNCHANGED <<album, found, match, urls, hops, gets, missing>>
      /\ failed' = after
      /\ told' = [cover |-> NoCover, delay |-> RetryDelay(after, limited), definitive |-> FALSE]
  BY DEF SearchFails, Fails, Tells
<1>2. LTyped' /\ Searching' /\ Fetching'
  BY <1>1 DEF LInv, LTyped, Searching, Fetching
<1>3. ChoiceUnique'
  BY <1>1, ChosenStays DEF LInv, LookupRight
<1>4. SilenceDeserved'
  BY <1>1, DelayIs DEF SilenceDeserved
<1>5. LookupBounded'
  BY <1>1 DEF LInv, LookupRight, LookupBounded
<1>6. QED
  BY <1>2, <1>3, <1>4, <1>5 DEF LInv, LookupRight

LEMMA SearchAnswersKeeps ==
  ASSUME LInv, NEW rs \in Answers, SearchAnswers(rs)
  PROVE  LInv'
<1>0. rs \in Seq(AnyRecording)
  BY LookupAssumption
<1>1. /\ stage = "search" /\ found' = rs /\ match' = Selected(rs)
      /\ UNCHANGED <<album, hops, gets, missing, failed>>
  BY DEF SearchAnswers
<1>2. missing = {} /\ gets = 0 /\ hops = 0 /\ failed = NoFailure
  BY <1>1 DEF LInv, Searching
<1>3. ChoiceUnique'
  BY <1>0, <1>1, ChoiceIs, ChosenAnew
<1>4. LookupBounded'
  BY <1>1 DEF LInv, LookupRight, LookupBounded
<1>5. CASE match' = NoMatch
  <2>1. /\ stage' = "told"
        /\ told' = [cover |-> NoCover, delay |-> NegativeTtl, definitive |-> TRUE]
    BY <1>5 DEF SearchAnswers, Tells
  <2>2. LTyped' /\ Searching' /\ Fetching'
    BY <1>0, <1>1, <2>1 DEF LInv, LTyped, Searching, Fetching
  <2>3. ToSet(CandidateUrls(match')) = missing'
    BY <1>1, <1>2, <1>5, NobodyAsked
  <2>4. SilenceDeserved'
    BY <1>1, <1>2, <2>1, <2>3 DEF SilenceDeserved
  <2>5. QED
    BY <1>3, <1>4, <2>2, <2>4 DEF LInv, LookupRight
<1>6. CASE match' # NoMatch
  <2>1. stage' = "fetch" /\ urls' = CandidateUrls(match')
    BY <1>6 DEF SearchAnswers
  <2>2. IsMatch(Selected(rs))
    BY <1>0, <1>1, <1>6, SelectedIs
  <2> DEFINE u == CandidateUrls(Selected(rs))
  <2>3. u \in Seq(Addresses) /\ Len(u) \in 1 .. 1 + MaxReleases
    BY <2>2, UrlsHave
  <2>4. Underway'
    <3>1. 0 \in 0 .. Len(u) - 1 /\ Len(u) = Len(u) - 0 /\ \A i \in 1 .. Len(u) : u[i] = u[0 + i]
      BY <2>3, LookupAssumption
    <3>2. {u[i] : i \in 1 .. 0} = {}
      OBVIOUS
    <3>3. 0 <= 0 * (1 + MaxRedirects) + 0 /\ 0 <= MaxRedirects
      BY LookupAssumption, SMT
    <3>4. urls' = u /\ Urls' = u /\ missing' = {} /\ gets' = 0 /\ hops' = 0
      BY <1>1, <1>2, <2>1 DEF Urls
    <3> HIDE DEF u
    <3>5. QED
      BY <2>3, <3>1, <3>2, <3>3, <3>4 DEF Underway
  <2>5. IsMatch(match')
    BY <2>2, <1>1
  <2>6. LTyped' /\ Searching'
    BY <1>0, <1>1, <2>1 DEF LInv, LTyped, Searching
  <2>7. Fetching'
    BY <1>1, <1>2, <2>4, <2>5 DEF Fetching, IsMatch
  <2>8. SilenceDeserved'
    BY <2>1 DEF SilenceDeserved
  <2>9. QED
    BY <1>3, <1>4, <2>6, <2>7, <2>8 DEF LInv, LookupRight
<1>7. QED
  BY <1>5, <1>6

\* One more request.
LEMMA OneMore ==
  ASSUME LInv, Gets
  PROVE  \E k \in 0 .. Len(Urls) - 1 :
           /\ IsMatch(match) /\ Len(Urls) \in 1 .. 1 + MaxReleases
           /\ \A i, j \in 1 .. Len(Urls) : Urls[i] = Urls[j] => i = j
           /\ Urls \in Seq(Addresses)
           /\ urls \in Seq(Addresses) /\ urls # <<>> /\ Len(urls) = Len(Urls) - k
           /\ \A i \in 1 .. Len(urls) : urls[i] = Urls[k + i]
           /\ missing = {Urls[i] : i \in 1 .. k} /\ Head(urls) = Urls[k + 1]
           /\ gets' <= k * (1 + MaxRedirects) + hops + 1 /\ hops <= MaxRedirects
           /\ gets' <= (k + 1) * (1 + MaxRedirects)
           /\ stage = "fetch" /\ failed = NoFailure /\ UNCHANGED <<album, found, match>>
           /\ gets' \in Nat /\ LookupBounded' /\ ChoiceUnique'
<1>1. /\ stage = "fetch" /\ gets' = gets + 1 /\ UNCHANGED <<album, found, match>>
  BY DEF Gets
<1>2. IsMatch(match) /\ failed = NoFailure /\ Underway /\ gets \in Nat /\ hops \in Nat
  BY <1>1 DEF LInv, Fetching, LTyped
<1>3. /\ Urls \in Seq(Addresses) /\ Len(Urls) \in 1 .. 1 + MaxReleases
      /\ \A i, j \in 1 .. Len(Urls) : Urls[i] = Urls[j] => i = j
  BY <1>2, UrlsHave DEF Urls
<1>4. PICK k \in 0 .. Len(Urls) - 1 :
        /\ urls \in Seq(Addresses) /\ Len(urls) = Len(Urls) - k
        /\ \A i \in 1 .. Len(urls) : urls[i] = Urls[k + i]
        /\ missing = {Urls[i] : i \in 1 .. k}
        /\ gets <= k * (1 + MaxRedirects) + hops /\ hops <= MaxRedirects
  BY <1>2 DEF Underway
<1>5. /\ Len(Urls) \in Nat /\ k \in Nat /\ k + 1 <= Len(Urls) /\ Len(Urls) <= 1 + MaxReleases
      /\ MaxReleases \in Nat /\ MaxRedirects \in Nat
  BY <1>3, LookupAssumption
<1>6. Len(urls) # 0 /\ 1 \in 1 .. Len(urls) /\ urls # <<>>
  BY <1>4, <1>5, EmptySeq
<1>7. Head(urls) = Urls[k + 1]
  <2>1. Head(urls) = urls[1]
    BY <1>4, <1>6
  <2>2. QED
    BY <2>1, <1>4, <1>6
<1>8. /\ gets + 1 <= (k + 1) * (1 + MaxRedirects)
      /\ gets + 1 <= (1 + MaxReleases) * (1 + MaxRedirects)
  BY <1>2, <1>4, <1>5, RequestsAdd
<1>9. gets' <= k * (1 + MaxRedirects) + hops + 1
  <2>1. k * (1 + MaxRedirects) \in Nat
    BY <1>5, SMT
  <2>2. QED
    BY <2>1, <1>1, <1>2, <1>4
<1>10. LookupBounded'
  BY <1>1, <1>8 DEF LookupBounded
<1>11. ChoiceUnique'
  BY <1>1, ChosenStays DEF LInv, LookupRight
<1>12. gets' \in Nat /\ gets' <= (k + 1) * (1 + MaxRedirects)
  BY <1>1, <1>2, <1>8
<1>13. QED
  BY <1>1, <1>2, <1>3, <1>4, <1>6, <1>7, <1>9, <1>10, <1>11, <1>12

\* The answer of one request ends the lookup.
LEMMA ArrivesKeeps == ASSUME LInv, Arrives PROVE LInv'
<1>1. /\ stage' = "told" /\ told' = [cover |-> Head(urls), delay |-> 0, definitive |-> FALSE]
      /\ UNCHANGED <<urls, hops, missing, failed>>
  BY DEF Arrives, Tells
<1>2. PICK k \in 0 .. Len(Urls) - 1 :
        /\ Len(Urls) \in 1 .. 1 + MaxReleases /\ Urls \in Seq(Addresses)
        /\ \A i, j \in 1 .. Len(Urls) : Urls[i] = Urls[j] => i = j
        /\ missing = {Urls[i] : i \in 1 .. k} /\ Head(urls) = Urls[k + 1]
        /\ failed = NoFailure /\ UNCHANGED <<album, found, match>>
        /\ gets' \in Nat /\ LookupBounded' /\ ChoiceUnique'
  BY OneMore DEF Arrives
<1>3. /\ Len(Urls) \in Nat /\ k + 1 \in 1 .. Len(Urls)
      /\ \A i \in 1 .. k : i \in 1 .. Len(Urls) /\ i # k + 1
  BY <1>2, LookupAssumption
<1>4. Urls[k + 1] \notin missing
  BY <1>2, <1>3
<1>5. Urls[k + 1] \in ToSet(Urls) /\ Urls[k + 1] \in Addresses
  BY <1>2, <1>3, LenProperties DEF ToSet
<1>6. Urls[k + 1] # NoCover
  BY <1>5 DEF NoCover, Addresses
<1>7. SilenceDeserved'
  <2>1. CandidateUrls(match') = Urls
    BY <1>2 DEF Urls
  <2>2. told'.cover = Urls[k + 1] /\ ~told'.definitive
    BY <1>1, <1>2
  <2>3. failed' = NoFailure /\ missing' = missing
    BY <1>1, <1>2
  <2>4. QED
    BY <2>1, <2>2, <2>3, <1>4, <1>5, <1>6 DEF SilenceDeserved
<1>8. LTyped' /\ Searching' /\ Fetching'
  BY <1>1, <1>2 DEF LInv, LTyped, Searching, Fetching
<1>9. QED
  BY <1>2, <1>7, <1>8 DEF LInv, LookupRight

\* A failure, of an answer or of a redirect.
LEMMA FailsKeeps ==
  ASSUME LInv, Gets, NEW after \in RetryAfters \cup {Unsaid}, NEW limited \in BOOLEAN,
         Fails(after, limited), UNCHANGED <<urls, hops, missing>>
  PROVE  LInv'
<1>1. /\ stage' = "told" /\ failed' = after
      /\ told' = [cover |-> NoCover, delay |-> RetryDelay(after, limited), definitive |-> FALSE]
  BY DEF Fails, Tells
<1>2. /\ UNCHANGED <<album, found, match>>
      /\ gets' \in Nat /\ LookupBounded' /\ ChoiceUnique'
  BY OneMore
<1>3. SilenceDeserved'
  BY <1>1, DelayIs DEF SilenceDeserved
<1>4. LTyped' /\ Searching' /\ Fetching'
  BY <1>1, <1>2 DEF LInv, LTyped, Searching, Fetching
<1>5. QED
  BY <1>2, <1>3, <1>4 DEF LInv, LookupRight

LEMMA RedirectedKeeps ==
  ASSUME LInv, NEW safe \in BOOLEAN, Redirected(safe)
  PROVE  LInv'
<1>1. Gets /\ UNCHANGED <<urls, missing>>
  BY DEF Redirected
<1>2. CASE hops < MaxRedirects /\ safe
  <2>1. hops' = hops + 1 /\ UNCHANGED <<failed, stage, told>>
    BY <1>2 DEF Redirected
  <2>2. hops \in Nat /\ MaxRedirects \in Nat
    BY LookupAssumption DEF LInv, LTyped
  <2>3. PICK k \in 0 .. Len(Urls) - 1 :
          /\ IsMatch(match)
          /\ urls \in Seq(Addresses) /\ Len(urls) = Len(Urls) - k
          /\ \A i \in 1 .. Len(urls) : urls[i] = Urls[k + i]
          /\ missing = {Urls[i] : i \in 1 .. k}
          /\ gets' <= k * (1 + MaxRedirects) + hops + 1
          /\ stage = "fetch" /\ failed = NoFailure /\ UNCHANGED <<album, found, match>>
          /\ gets' \in Nat /\ LookupBounded' /\ ChoiceUnique'
          /\ Len(Urls) \in 1 .. 1 + MaxReleases
    BY <1>1, OneMore
  <2>4. k * (1 + MaxRedirects) \in Nat
    <3>1. k \in Nat
      BY <2>3
    <3>2. QED
      BY <3>1, <2>2, SMT
  <2>5. gets' <= k * (1 + MaxRedirects) + hops' /\ hops' <= MaxRedirects /\ hops' \in Nat
    BY <2>1, <2>2, <2>3, <2>4, <1>2
  <2>6. Urls' = Urls
    BY <2>3 DEF Urls
  <2>7. Underway'
    <3>1. urls' = urls /\ missing' = missing
      BY <1>1
    <3>2. /\ urls' \in Seq(Addresses) /\ Len(urls') = Len(Urls) - k
          /\ \A i \in 1 .. Len(urls') : urls'[i] = Urls[k + i]
          /\ missing' = {Urls[i] : i \in 1 .. k}
      BY <3>1, <2>3
    <3>3. QED
      BY <3>2, <2>5, <2>6 DEF Underway
  <2>8. IsMatch(match')
    BY <2>3
  <2>9. Fetching'
    BY <2>1, <2>3, <2>7, <2>8 DEF Fetching, IsMatch
  <2>10. LTyped' /\ Searching' /\ SilenceDeserved'
    BY <2>1, <2>3, <2>5 DEF LInv, LTyped, Searching, SilenceDeserved
  <2>11. QED
    BY <2>3, <2>9, <2>10 DEF LInv, LookupRight
<1>3. CASE ~(hops < MaxRedirects /\ safe)
  <2>1. Fails(Unsaid, FALSE) /\ UNCHANGED hops
    BY <1>3 DEF Redirected
  <2>2. QED
    BY <1>1, <2>1, FailsKeeps
<1>4. QED
  BY <1>2, <1>3

LEMMA NotFoundKeeps == ASSUME LInv, NotFound PROVE LInv'
<1>1. /\ Gets /\ missing' = missing \cup {Head(urls)}
      /\ urls' = Tail(urls) /\ hops' = 0 /\ UNCHANGED failed
  BY DEF NotFound
<1>2. PICK k \in 0 .. Len(Urls) - 1 :
        /\ IsMatch(match) /\ Len(Urls) \in 1 .. 1 + MaxReleases
        /\ Urls \in Seq(Addresses)
        /\ urls \in Seq(Addresses) /\ urls # <<>> /\ Len(urls) = Len(Urls) - k
        /\ \A i \in 1 .. Len(urls) : urls[i] = Urls[k + i]
        /\ missing = {Urls[i] : i \in 1 .. k} /\ Head(urls) = Urls[k + 1]
        /\ gets' <= (k + 1) * (1 + MaxRedirects)
        /\ stage = "fetch" /\ failed = NoFailure /\ UNCHANGED <<album, found, match>>
        /\ gets' \in Nat /\ LookupBounded' /\ ChoiceUnique'
  BY <1>1, OneMore
<1>3. Len(Urls) \in Nat /\ k \in Nat /\ k + 1 <= Len(Urls) /\ MaxRedirects \in Nat
  BY <1>2, LookupAssumption
<1>4. missing' = {Urls[i] : i \in 1 .. k + 1}
  <2>1. \A i : i \in 1 .. k + 1 <=> i \in 1 .. k \/ i = k + 1
    BY <1>3
  <2>2. QED
    BY <2>1, <1>1, <1>2
<1>5. CASE Len(urls) = 1
  <2>1. /\ stage' = "told"
        /\ told' = [cover |-> NoCover, delay |-> NegativeTtl, definitive |-> TRUE]
    BY <1>5 DEF NotFound, Tells
  <2>2. k + 1 = Len(Urls)
    <3>1. Len(urls) = Len(Urls) - k
      BY <1>2
    <3>2. Len(Urls) - k = 1
      BY <3>1, <1>5
    <3>3. \A a, b \in Nat : a - b = 1 => b + 1 = a
      OBVIOUS
    <3>4. QED
      BY <3>2, <3>3, <1>3
  <2>3. missing' = ToSet(Urls)
    BY <1>2, <1>4, <2>2, LenProperties DEF ToSet
  <2>4. CandidateUrls(match') = Urls
    BY <1>2 DEF Urls
  <2>5. SilenceDeserved'
    BY <1>1, <1>2, <2>1, <2>3, <2>4 DEF SilenceDeserved
  <2>6. LTyped' /\ Searching' /\ Fetching'
    BY <1>1, <1>2, <2>1 DEF LInv, LTyped, Searching, Fetching
  <2>7. QED
    BY <1>2, <2>5, <2>6 DEF LInv, LookupRight
<1>6. CASE Len(urls) # 1
  <2>1. UNCHANGED <<stage, told>>
    BY <1>6 DEF NotFound
  <2>2. /\ Tail(urls) \in Seq(Addresses) /\ Len(Tail(urls)) = Len(urls) - 1
        /\ \A i \in 1 .. Len(Tail(urls)) : Tail(urls)[i] = urls[i + 1]
    BY <1>2, HeadTailProperties
  <2>3. k + 1 \in 0 .. Len(Urls) - 1 /\ Len(urls') = Len(Urls) - (k + 1)
    BY <1>1, <1>2, <1>3, <1>6, <2>2
  <2>4. ASSUME NEW i \in 1 .. Len(urls') PROVE urls'[i] = Urls[(k + 1) + i]
    <3>1. i \in Nat /\ i + 1 \in 1 .. Len(urls)
      BY <1>1, <1>2, <1>3, <2>2, <2>4
    <3>2. urls'[i] = urls[i + 1]
      BY <1>1, <2>2
    <3>3. urls[i + 1] = Urls[k + (i + 1)]
      BY <1>2, <3>1
    <3>4. k + (i + 1) = (k + 1) + i
      BY <1>3, <3>1
    <3>5. QED
      BY <3>2, <3>3, <3>4
  <2>5. gets' <= (k + 1) * (1 + MaxRedirects) + hops' /\ hops' <= MaxRedirects /\ hops' \in Nat
    <3>1. (k + 1) * (1 + MaxRedirects) \in Nat
      BY <1>3, SMT
    <3>2. QED
      BY <3>1, <1>1, <1>2, <1>3
  <2>6. Urls' = Urls
    BY <1>2 DEF Urls
  <2>7. urls' \in Seq(Addresses)
    BY <1>1, <2>2
  <2>8. Underway'
    <3> DEFINE n == k + 1
    <3>1. n \in 0 .. Len(Urls) - 1 /\ Len(urls') = Len(Urls) - n
      BY <2>3
    <3>2. \A i \in 1 .. Len(urls') : urls'[i] = Urls[n + i]
      BY <2>4
    <3>3. missing' = {Urls[i] : i \in 1 .. n}
      BY <1>4
    <3>4. gets' <= n * (1 + MaxRedirects) + hops' /\ hops' <= MaxRedirects
      BY <2>5
    <3> HIDE DEF n
    <3>5. QED
      BY <3>1, <3>2, <3>3, <3>4, <2>6, <2>7 DEF Underway
  <2>9. IsMatch(match')
    BY <1>2
  <2>10. Fetching'
    BY <1>1, <1>2, <2>8, <2>9 DEF Fetching, IsMatch
  <2>11. LTyped' /\ Searching' /\ SilenceDeserved'
    BY <1>2, <2>1, <2>5 DEF LInv, LTyped, Searching, SilenceDeserved
  <2>12. QED
    BY <1>2, <2>10, <2>11 DEF LInv, LookupRight
<1>7. QED
  BY <1>5, <1>6

LEMMA LookupIdles == ASSUME LInv, UNCHANGED lookupVars PROVE LInv'
<1>1. UNCHANGED <<album, found, match, urls, hops, gets, missing, failed, stage, told>>
  BY DEF lookupVars
<1>2. ChoiceUnique'
  BY <1>1, ChosenStays DEF LInv, LookupRight
<1>3. Urls' = Urls
  BY <1>1 DEF Urls
<1>4. Underway => Underway'
  BY <1>1, <1>3 DEF Underway
<1>5. LTyped' /\ Searching' /\ Fetching'
  BY <1>1, <1>4 DEF LInv, LTyped, Searching, Fetching
<1>6. SilenceDeserved' /\ LookupBounded'
  BY <1>1 DEF LInv, LookupRight, SilenceDeserved, LookupBounded
<1>7. QED
  BY <1>2, <1>5, <1>6 DEF LInv, LookupRight

(***************************************************************************)
(* For every answer of MusicBrainz and of the Cover Art Archive, in any    *)
(* order and of any length: select_musicbrainz_match chooses a recording   *)
(* if and only if its best release surpasses every release of all other    *)
(* accepted ones; the resolver is told to keep silent only when nothing    *)
(* was chosen or the archive has none of the candidates, and when to come  *)
(* back otherwise; and _download asks the archive a bounded number of      *)
(* times, wherever it is redirected.                                       *)
(***************************************************************************)
THEOREM LookupsAreRight == LookupSpec => []LookupRight
<1>1. LookupInit => LInv
  BY LookupBegins
<1>2. LInv /\ [LookupNext]_lookupVars => LInv'
  <2>1. SUFFICES ASSUME LInv, [LookupNext]_lookupVars PROVE LInv'
    OBVIOUS
  <2>2. CASE \E rs \in Answers : SearchAnswers(rs)
    BY <2>1, <2>2, SearchAnswersKeeps
  <2>3. ASSUME NEW after \in RetryAfters \cup {Unsaid}, NEW limited \in BOOLEAN,
               SearchFails(after, limited)
        PROVE  LInv'
    BY <2>1, <2>3, SearchFailsKeeps
  <2>4. ASSUME NEW after \in RetryAfters \cup {Unsaid}, NEW limited \in BOOLEAN,
               FetchFails(after, limited)
        PROVE  LInv'
    <3>1. Gets /\ Fails(after, limited) /\ UNCHANGED <<urls, hops, missing>>
      BY <2>4 DEF FetchFails
    <3>2. QED
      BY <2>1, <3>1, FailsKeeps
  <2>5. CASE \E safe \in BOOLEAN : Redirected(safe)
    BY <2>1, <2>5, RedirectedKeeps
  <2>6. CASE Arrives
    BY <2>1, <2>6, ArrivesKeeps
  <2>7. CASE NotFound
    BY <2>1, <2>7, NotFoundKeeps
  <2>8. CASE UNCHANGED lookupVars
    BY <2>1, <2>8, LookupIdles
  <2>9. QED
    BY <2>1, <2>2, <2>3, <2>4, <2>5, <2>6, <2>7, <2>8 DEF LookupNext
<1>3. LInv => LookupRight
  BY DEF LInv
<1>4. QED
  BY <1>1, <1>2, <1>3, PTL DEF LookupSpec

=============================================================================
