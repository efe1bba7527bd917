------------------------ MODULE PersistentDataProofs ------------------------
(***************************************************************************)
(* PersistentData for every list of roots, pair of firmware versions,      *)
(* archive, and number of restores, faults and power losses.               *)
(*                                                                         *)
(* A restore is all or nothing and loses nothing as long as there is one   *)
(* at a time; that a migration keeps the backup it needs, and pruning an   *)
(* accepted one, needs the clock and room for two (MAX_BACKUPS).           *)
(***************************************************************************)
EXTENDS PersistentData, FiniteSetTheorems, WellFoundedInduction, TLAPS

-----------------------------------------------------------------------------
(* Ranks: what the list comprehensions of persistent_config.py select.     *)

(***************************************************************************)
(* A nonempty set of numbers has a least, and below a bound a greatest.    *)
(***************************************************************************)
LEMMA LeastNat ==
  ASSUME NEW T, T \subseteq Nat, T # {}
  PROVE  \E m \in T : \A x \in T : m <= x
<1> DEFINE Less == OpToRel(<, Nat)
<1>1. \E m \in T : \A x \in T : ~ (<<x, m>> \in Less)
  <2>1. IsWellFoundedOn(Less, Nat)
    BY NatLessThanWellFounded
  <2> HIDE DEF Less
  <2>2. QED
    BY <2>1, WFMin
<1>2. \A x, m \in Nat : <<x, m>> \in Less <=> x < m
  BY DEF OpToRel
<1> HIDE DEF Less
<1>3. PICK m \in T : \A x \in T : ~ (<<x, m>> \in Less)
  BY <1>1
<1>4. \A x \in T : m <= x
  <2>1. TAKE x \in T
  <2>2. x \in Nat /\ m \in Nat
    OBVIOUS
  <2>3. ~ (x < m)
    BY <1>2, <1>3, <2>2
  <2>4. QED
    BY <2>2, <2>3
<1>5. QED
  BY <1>4

LEMMA GreatestNat ==
  ASSUME NEW n \in Nat, NEW T, T \subseteq 1 .. n, T # {}
  PROVE  \E m \in T : \A x \in T : x <= m
<1> DEFINE U == {u \in Nat : \A x \in T : x <= u}
<1>1. n \in U
  OBVIOUS
<1>2. PICK m \in U : \A u \in U : m <= u
  BY <1>1, LeastNat
<1>3. CASE m \in T
  BY <1>3
<1>4. CASE m \notin T
  <2>1. \A x \in T : x <= m - 1 /\ x \in Nat /\ x > 0
    BY <1>4
  <2>2. m - 1 \in Nat
    <3>1. PICK x : x \in T
      OBVIOUS
    <3>2. x <= m - 1 /\ x \in Nat /\ x > 0 /\ m \in Nat
      BY <2>1, <3>1
    <3>3. QED
      BY <3>2
  <2>3. m - 1 \in U
    BY <2>1, <2>2
  <2>4. QED
    BY <1>2, <2>3
<1>5. QED
  BY <1>3, <1>4

(***************************************************************************)
(* The elements of a finite set of numbers have the ranks 1, 2, 3, ...     *)
(***************************************************************************)
UpTo(K, i) == {j \in K : j <= i}

LEMMA Ranks ==
  ASSUME NEW n \in Nat, NEW K, K \subseteq 1 .. n
  PROVE  /\ IsFiniteSet(K) /\ Cardinality(K) \in Nat
         /\ \A i \in K : Cardinality(UpTo(K, i)) \in 1 .. Cardinality(K)
         /\ \A k \in 1 .. Cardinality(K) : \E i \in K : Cardinality(UpTo(K, i)) = k
<1>0. K \subseteq Nat
  OBVIOUS
<1>1. IsFiniteSet(K)
  <2>1. IsFiniteSet(1 .. n)
    BY FS_Interval
  <2>2. QED
    BY <2>1, FS_Subset
<1>2. \A i : UpTo(K, i) \in SUBSET K /\ IsFiniteSet(UpTo(K, i))
  BY <1>1, FS_Subset DEF UpTo
<1>3. \A i \in K : Cardinality(UpTo(K, i)) \in 1 .. Cardinality(K)
  <2>1. TAKE i \in K
  <2>2. UpTo(K, i) # {}
    BY DEF UpTo
  <2>3. Cardinality(UpTo(K, i)) \in Nat /\ Cardinality(K) \in Nat
    BY <1>1, <1>2, FS_CardinalityType
  <2>4. QED
    BY <1>1, <1>2, <2>2, <2>3, FS_Subset, FS_EmptySet
<1>4. \A k \in 1 .. Cardinality(K) : \E i \in K : Cardinality(UpTo(K, i)) = k
  <2>1. TAKE k \in 1 .. Cardinality(K)
  <2> DEFINE T == {i \in K : Cardinality(UpTo(K, i)) >= k}
  <2>2. Cardinality(K) \in Nat /\ K # {} /\ k \in Nat /\ k >= 1
    BY <1>1, FS_CardinalityType, FS_EmptySet
  <2>3. T # {}
    <3>1. PICK m \in K : \A x \in K : x <= m
      BY <2>2, GreatestNat
    <3>2. UpTo(K, m) = K
      BY <3>1 DEF UpTo
    <3>3. QED
      BY <2>2, <3>2
  <2>4. PICK i \in T : \A x \in T : i <= x
    <3>1. T \subseteq Nat
      BY <1>0
    <3>2. QED
      BY <2>3, <3>1, LeastNat
  <2>5. ASSUME Cardinality(UpTo(K, i)) > k PROVE FALSE
    <3> DEFINE V == UpTo(K, i) \ {i}
    <3>1. IsFiniteSet(V) /\ Cardinality(V) = Cardinality(UpTo(K, i)) - 1
      BY <1>2, FS_RemoveElement DEF UpTo
    <3>2. Cardinality(UpTo(K, i)) \in Nat
      BY <1>3
    <3>3. Cardinality(V) >= k /\ V # {}
      BY <2>2, <2>5, <3>1, <3>2, FS_EmptySet
    <3>4. PICK m \in V : \A x \in V : x <= m
      BY <3>3, GreatestNat DEF UpTo
    <3>5. UpTo(K, m) = V
      <4>1. \A x \in K : x \in Nat
        OBVIOUS
      <4>2. m \in K /\ i \in K /\ m < i
        BY <3>4, <4>1 DEF UpTo
      <4>3. \A x \in K : x <= m <=> (x <= i /\ x # i)
        BY <3>4, <4>1, <4>2 DEF UpTo
      <4>4. QED
        BY <4>3 DEF UpTo
    <3>6. m \in T /\ m < i
      BY <3>3, <3>4, <3>5 DEF UpTo
    <3>7. QED
      BY <2>4, <3>6
  <2>6. Cardinality(UpTo(K, i)) = k
    BY <1>3, <2>2, <2>4, <2>5
  <2>7. QED
    BY <2>6
<1>5. QED
  BY <1>1, <1>3, <1>4, FS_CardinalityType

LEMMA OneRank ==
  ASSUME NEW n \in Nat, NEW K, K \subseteq 1 .. n, NEW i \in K, NEW j \in K,
         Cardinality(UpTo(K, i)) = Cardinality(UpTo(K, j))
  PROVE  i = j
<1>1. i \in Nat /\ j \in Nat
  OBVIOUS
<1>2. \A a, b \in K : a <= b => UpTo(K, a) \subseteq UpTo(K, b)
  <2>1. \A a, b, c \in K : c <= a /\ a <= b => c <= b
    OBVIOUS
  <2>2. QED
    BY <2>1 DEF UpTo
<1>3. IsFiniteSet(UpTo(K, i)) /\ IsFiniteSet(UpTo(K, j))
  <2>1. IsFiniteSet(K)
    BY Ranks
  <2>2. QED
    BY <2>1, FS_Subset DEF UpTo
<1>4. UpTo(K, i) = UpTo(K, j)
  <2>1. CASE i <= j
    BY <1>2, <1>3, <2>1, FS_Subset
  <2>2. CASE j <= i
    BY <1>2, <1>3, <2>2, FS_Subset
  <2>3. QED
    BY <1>1, <2>1, <2>2
<1>5. i \in UpTo(K, j) /\ j \in UpTo(K, i)
  BY <1>1, <1>4 DEF UpTo
<1>6. QED
  BY <1>1, <1>5 DEF UpTo

(***************************************************************************)
(* The elements of s at the positions K, in their order.                   *)
(***************************************************************************)
Picked(s, K) ==
  [k \in 1 .. Cardinality(K) |-> s[CHOOSE i \in K : Cardinality({j \in K : j <= i}) = k]]

Selects(p, s, S, K) ==
  /\ p \in Seq(S)
  /\ \A k \in DOMAIN p : \E i \in K : p[k] = s[i]
  /\ \A i \in K : \E k \in DOMAIN p : p[k] = s[i]
  /\ 1 \in K => p # <<>> /\ p[1] = s[1]

LEMMA PickedElements ==
  ASSUME NEW S, NEW s \in Seq(S), NEW K, K \subseteq 1 .. Len(s)
  PROVE  Selects(Picked(s, K), s, S, K)
<1> DEFINE At(k) == CHOOSE i \in K : Cardinality(UpTo(K, i)) = k
           p == Picked(s, K)
<1>1. Len(s) \in Nat /\ \A i \in K : i \in 1 .. Len(s) /\ s[i] \in S
  OBVIOUS
<1>2. Cardinality(K) \in Nat
  BY <1>1, Ranks
<1>3. p = [k \in 1 .. Cardinality(K) |-> s[At(k)]]
  BY DEF Picked, UpTo
<1>4. \A k \in 1 .. Cardinality(K) : At(k) \in K /\ Cardinality(UpTo(K, At(k))) = k
  BY <1>1, Ranks
<1> HIDE DEF p, At
<1>5. p \in [1 .. Cardinality(K) -> S] /\ DOMAIN p = 1 .. Cardinality(K)
  BY <1>1, <1>3, <1>4
<1>6. p \in Seq(S)
  BY <1>2, <1>5
<1>7. \A k \in DOMAIN p : \E i \in K : p[k] = s[i]
  BY <1>3, <1>4, <1>5
<1>8. \A i \in K : /\ Cardinality(UpTo(K, i)) \in DOMAIN p
                   /\ p[Cardinality(UpTo(K, i))] = s[i]
  <2>1. TAKE i \in K
  <2> DEFINE k == Cardinality(UpTo(K, i))
  <2>2. k \in 1 .. Cardinality(K)
    BY <1>1, Ranks
  <2>3. At(k) = i
    BY <1>1, <1>4, <2>2, OneRank
  <2>4. QED
    BY <1>3, <1>5, <2>2, <2>3
<1>9. ASSUME 1 \in K PROVE p # <<>> /\ p[1] = s[1]
  <2>1. UpTo(K, 1) = {1}
    <3>1. \A j \in K : j <= 1 <=> j = 1
      BY <1>1
    <3>2. QED
      BY <1>9, <3>1 DEF UpTo
  <2>2. Cardinality(UpTo(K, 1)) = 1
    BY <2>1, FS_Singleton
  <2>3. 1 \in DOMAIN p /\ p[1] = s[1]
    BY <1>8, <1>9, <2>2
  <2>4. p # <<>>
    BY <2>3
  <2>5. QED
    BY <2>3, <2>4
<1>10. QED
  BY <1>6, <1>7, <1>8, <1>9 DEF p, Selects

-----------------------------------------------------------------------------
(* The inductive invariant of the restore.                                 *)

Texts == {"none", "empty", "own"} \cup {a.trees[r].settings : a \in Uploads, r \in Names}
Trees == [settings : Texts, schema : Nat, compat : [writer : Nat, min : Nat]]
Present == {tree \in Trees : tree.settings # "none"}
Archives == [sound : BOOLEAN, trees : [Names -> Trees]]

(***************************************************************************)
(* What validation means: a sound archive has a tree for every root.       *)
(***************************************************************************)
WholeUploads ==
  \A a \in Uploads : a \in Archives /\ (a.sound => a.trees \in [Names -> Present])

DataTypes ==
  /\ root \in [Names -> Trees]
  /\ upload \in Archives /\ (upload.sound => upload.trees \in [Names -> Present])
  /\ staging \in [Threads -> [Names -> Trees]] /\ saved \in [Threads -> [Names -> Trees]]
  /\ \A r \in Names : root[r].settings # "none" \/ root[r] = NoTree
  /\ \A t \in Threads, r \in Names : saved[t][r].settings # "none" \/ saved[t][r] = NoTree
  /\ agreed \in [Names -> Texts \ {"none"}] /\ cut \in BOOLEAN

Places == {"idle", "inspect", "validate", "extract", "out", "in", "prepare", "render", "undoOut",
           "undoIn", "finish"}

ControlTypes ==
  /\ req \in [Threads -> [at : Places, i : 0 .. Len(Roots)]]
  /\ prep \in [at : {"idle", "check", "copy", "publish", "compat", "schema"},
               for : Threads \union {0}]
  /\ phase \in {"off", "booting", "up", "refused"}
  /\ firmware \in Firmwares
  /\ restores \in 0 .. MaxRestores /\ losses \in 0 .. MaxLosses /\ faults \in 0 .. MaxFaults

(***************************************************************************)
(* A request is on its way only while the radio is up, and prepare() runs  *)
(* for the boot or for the request that waits for it.                      *)
(***************************************************************************)
Turns ==
  /\ phase # "up" => \A t \in Threads : req[t] = Idle
  /\ \/ prep.at = "idle"
     \/ prep.for = 0 /\ phase = "booting" /\ root["radio"] # NoTree
     \/ prep.for \in Threads /\ phase = "up" /\ req[prep.for].at = "prepare"

(***************************************************************************)
(* A tree that a restore must give back: it has the settings agreed on, or *)
(* else a restore was cut off before and these are in what it left behind. *)
(***************************************************************************)
Kept(tree, r) ==
  /\ ~cut => tree.settings = agreed[r]
  /\ tree.settings = agreed[r] \/ \E l \in left : l[1] = r /\ l[2].settings = agreed[r]

(***************************************************************************)
(* How many of the roots the restore has replaced, counting the one that   *)
(* is between its two renames.                                             *)
(***************************************************************************)
Replaced(t) == IF req[t].at = "out" THEN req[t].i - 1 ELSE req[t].i

(***************************************************************************)
(* How far a restore is: of the roots it has replaced the rollback         *)
(* directory has what is to be kept, and of the others the root itself.    *)
(***************************************************************************)
Walk(t) ==
  /\ req[t].at \in {"idle", "inspect", "validate", "extract"} => req[t].i = 0
  /\ req[t].at = "extract" => upload.sound
  /\ req[t].at \in {"out", "in", "undoIn"} => req[t].i > 0
  /\ req[t].at \in {"prepare", "render", "finish"} => req[t].i = Len(Roots)
  /\ req[t].at \in {"out", "in"} =>
       \A j \in 1 .. Len(Roots) :
         IF j < req[t].i THEN root[Roots[j]] \in Present ELSE staging[t][Roots[j]] \in Present
  /\ req[t].at \in {"prepare", "render", "finish"} =>
       \A j \in 1 .. Len(Roots) : root[Roots[j]] \in Present
  /\ \A j \in 1 .. Len(Roots) :
       Kept(IF j <= Replaced(t) THEN saved[t][Roots[j]] ELSE root[Roots[j]], Roots[j])

Inv == DataTypes /\ ControlTypes /\ Turns /\ \A t \in Threads : Walk(t)

-----------------------------------------------------------------------------
LEMMA RootNames ==
  /\ Len(Roots) \in Nat \ {0}
  /\ "radio" \in Names /\ Roots[1] = "radio"
  /\ \A j \in 1 .. Len(Roots) : Roots[j] \in Names
  /\ \A i, j \in 1 .. Len(Roots) : i # j => Roots[i] # Roots[j]
  /\ \A r \in Names : \E j \in 1 .. Len(Roots) : Roots[j] = r
BY RootsAssumption DEF Names, ToSet

LEMMA TreeTypes ==
  /\ NoTree \in Trees /\ Empty \in Present
  /\ NoTree.settings = "none" /\ Empty.settings = "empty"
  /\ NoTrees \in [Names -> Trees] /\ \A r \in Names : NoTrees[r] = NoTree
  /\ NoArchive \in Archives /\ ~NoArchive.sound
BY DEF NoTree, Empty, NoFile, Trees, Present, Texts, NoTrees, NoArchive, Archives

(***************************************************************************)
(* Kept only looks at the settings.                                        *)
(***************************************************************************)
LEMMA KeptFrame ==
  ASSUME cut' = cut, agreed' = agreed, left \subseteq left'
  PROVE  \A tree, other, r : tree.settings = other.settings /\ Kept(tree, r) => Kept(other, r)'
BY DEF Kept

LEMMA InitInv == ASSUME WholeUploads PROVE Init => Inv
<1> SUFFICES ASSUME Init PROVE Inv
  OBVIOUS
<1>1. /\ root \in [Names -> Present]
      /\ \A r \in Names : root[r].settings = "own"
  BY BoundsAssumption, TreeTypes DEF Init, Empty, NoFile, Trees, Present, Texts
<1>2. agreed \in [Names -> Texts \ {"none"}]
  BY DEF Init, Texts
<1>3. ControlTypes
  <2>1. req \in [Threads -> [at : Places, i : 0 .. Len(Roots)]]
    BY RootNames DEF Init, Idle, Places
  <2>2. prep \in [at : {"idle"}, for : Threads \cup {0}]
    BY DEF Init
  <2>3. QED
    BY <2>1, <2>2, BoundsAssumption DEF Init, ControlTypes
<1>4. DataTypes
  <2>1. /\ staging \in [Threads -> [Names -> Trees]] /\ saved \in [Threads -> [Names -> Trees]]
        /\ \A t \in Threads, r \in Names : saved[t][r] = NoTree
    BY TreeTypes DEF Init
  <2>2. upload \in Archives /\ ~upload.sound
    BY TreeTypes DEF Init
  <2>3. QED
    BY <1>1, <1>2, <2>1, <2>2 DEF Init, DataTypes, Present
<1>5. Turns
  BY DEF Init, Turns
<1>6. \A t \in Threads : Walk(t)
  BY <1>1, RootNames DEF Init, Walk, Replaced, Kept, Idle
<1>7. QED
  BY <1>3, <1>4, <1>5, <1>6 DEF Inv

-----------------------------------------------------------------------------
(* How a step moves the request.                                           *)

LEMMA StepEffect ==
  ASSUME ControlTypes, NEW t \in Threads, NEW from, NEW to \in Places, Step(t, from, to)
  PROVE  /\ req[t].at = from /\ req'[t].at = to /\ req'[t].i = req[t].i
         /\ req' \in [Threads -> [at : Places, i : 0 .. Len(Roots)]]
BY DEF Step, ControlTypes

LEMMA PlaceEffect ==
  ASSUME ControlTypes, NEW t \in Threads, NEW p \in Places, NEW i \in 0 .. Len(Roots),
         req' = [req EXCEPT ![t] = [at |-> p, i |-> i]]
  PROVE  /\ req'[t].at = p /\ req'[t].i = i
         /\ req' \in [Threads -> [at : Places, i : 0 .. Len(Roots)]]
BY DEF ControlTypes

(***************************************************************************)
(* While a request is under way the radio is up, and prepare() runs only   *)
(* when the request waits for it.                                          *)
(***************************************************************************)
LEMMA UnderWay ==
  ASSUME Inv, NEW t \in Threads, Threads = {t}, t # 0, req[t].at # "idle" \/ phase = "up"
  PROVE  /\ phase = "up"
         /\ req[t].at # "prepare" => prep.at = "idle"
         /\ req[t].at \in Places /\ req[t].i \in 0 .. Len(Roots) /\ Walk(t)
BY DEF Inv, Turns, Idle, ControlTypes

LEMMA TurnsFrame ==
  ASSUME NEW t, Threads = {t}, phase' = "up",
         prep'.at = "idle" \/ (prep'.for = t /\ req'[t].at = "prepare")
  PROVE  Turns'
BY DEF Turns

(***************************************************************************)
(* The steps before anything is replaced.                                  *)
(***************************************************************************)
LEMMA BeforeInv ==
  ASSUME WholeUploads, Inv, NEW t \in Threads, Threads = {t}, t # 0,
         Stage(t) \/ Inspect(t) \/ Validate(t) \/ Extract(t)
  PROVE  Inv'
<1> USE DEF Places
<1>1. phase = "up" /\ prep.at = "idle" /\ Walk(t) /\ DataTypes /\ ControlTypes /\ Turns
  <2>1. phase = "up" \/ req[t].at # "idle"
    BY DEF Stage, Inspect, Validate, Extract, Step
  <2>2. req[t].at # "prepare"
    BY DEF Stage, Inspect, Validate, Extract, Step
  <2>3. QED
    BY <2>1, <2>2, UnderWay DEF Inv
<1>2. UNCHANGED <<root, saved, left, agreed, cut, prep, phase, firmware, losses>>
  BY DEF Stage, Inspect, Validate, Extract
<1>3. \A tree, r : Kept(tree, r) => Kept(tree, r)'
  BY <1>2, KeptFrame
<1>4. Turns'
  BY <1>1, <1>2, TurnsFrame
<1>5. CASE Stage(t)
  <2>1. upload' \in Archives /\ (upload'.sound => upload'.trees \in [Names -> Present])
    <3>1. CASE upload' \in Uploads
      BY <3>1 DEF WholeUploads
    <3>2. CASE upload' = Exported /\ Exportable
      <4>1. root \in [Names -> Present]
        BY <1>1, <3>2, RootNames DEF Exportable, DataTypes, Present
      <4>2. QED
        BY <1>1, <3>2, <4>1 DEF Exported, Archives, DataTypes
    <3>3. QED
      BY <1>5, <3>1, <3>2 DEF Stage
  <2>2. staging' = staging /\ faults' = faults /\ Step(t, "idle", "inspect")
    BY <1>5 DEF Stage
  <2>3. restores' \in 0 .. MaxRestores
    BY <1>1, <1>5, BoundsAssumption DEF Stage, ControlTypes
  <2>4. DataTypes'
    BY <1>1, <1>2, <2>1, <2>2 DEF DataTypes
  <2>5. req[t].at = "idle" /\ req'[t].at = "inspect" /\ req'[t].i = req[t].i
    BY <1>1, <2>2, StepEffect
  <2>6. ControlTypes'
    BY <1>1, <1>2, <2>2, <2>3, StepEffect DEF ControlTypes
  <2>7. Walk(t)'
    BY <1>1, <1>2, <1>3, <2>5 DEF Walk, Replaced
  <2>8. QED
    BY <1>4, <2>4, <2>6, <2>7 DEF Inv
<1>6. CASE Inspect(t)
  <2>1. PICK to \in {"validate", "idle"} : Step(t, "inspect", to)
    BY <1>6 DEF Inspect
  <2>2. upload' \in Archives /\ (upload'.sound => upload'.trees \in [Names -> Present])
    BY <1>1, <1>6, TreeTypes DEF Inspect, DataTypes
  <2>3. UNCHANGED <<staging, faults, restores>>
    BY <1>6 DEF Inspect
  <2>4. DataTypes'
    BY <1>1, <1>2, <2>2, <2>3 DEF DataTypes
  <2>5. req[t].at = "inspect" /\ req'[t].at = to /\ req'[t].i = req[t].i
    BY <1>1, <2>1, StepEffect
  <2>6. ControlTypes'
    BY <1>1, <1>2, <2>1, <2>3, StepEffect DEF ControlTypes
  <2>7. Walk(t)'
    BY <1>1, <1>2, <1>3, <2>5 DEF Walk, Replaced
  <2>8. QED
    BY <1>4, <2>4, <2>6, <2>7 DEF Inv
<1>7. CASE Validate(t)
  <2>1. PICK to \in {"extract", "idle"} :
          Step(t, "validate", to) /\ (to = "extract" => upload.sound)
    BY <1>7 DEF Validate, Valid
  <2>2. UNCHANGED <<upload, staging, faults, restores>>
    BY <1>7 DEF Validate
  <2>3. DataTypes'
    BY <1>1, <1>2, <2>2 DEF DataTypes
  <2>4. req[t].at = "validate" /\ req'[t].at = to /\ req'[t].i = req[t].i
    BY <1>1, <2>1, StepEffect
  <2>5. ControlTypes'
    BY <1>1, <1>2, <2>1, <2>2, StepEffect DEF ControlTypes
  <2>6. Walk(t)'
    BY <1>1, <1>2, <1>3, <2>1, <2>2, <2>4 DEF Walk, Replaced
  <2>7. QED
    BY <1>4, <2>3, <2>5, <2>6 DEF Inv
<1>8. CASE Extract(t)
  <2>1. UNCHANGED <<upload, restores>>
    BY <1>8 DEF Extract
  <2>2. CASE /\ req[t].at = "extract" /\ req' = [req EXCEPT ![t] = [at |-> "out", i |-> 1]]
             /\ staging' = [staging EXCEPT ![t] = upload.trees] /\ faults' = faults
    <3>1. upload.sound /\ upload.trees \in [Names -> Present] /\ req[t].i = 0
      BY <1>1, <2>2 DEF Walk, DataTypes
    <3>2. staging' \in [Threads -> [Names -> Trees]] /\ staging'[t] = upload.trees
      BY <1>1, <2>2, <3>1 DEF DataTypes, Present
    <3>3. DataTypes'
      BY <1>1, <1>2, <2>1, <3>2 DEF DataTypes
    <3>4. 1 \in 0 .. Len(Roots)
      BY RootNames
    <3>5. /\ req'[t].at = "out" /\ req'[t].i = 1
          /\ req' \in [Threads -> [at : Places, i : 0 .. Len(Roots)]]
      BY <1>1, <2>2, <3>4, PlaceEffect
    <3>6. ControlTypes'
      BY <1>1, <1>2, <2>1, <2>2, <3>5 DEF ControlTypes
    <3>7. Walk(t)'
      <4>1. \A j \in 1 .. Len(Roots) : ~(j < 1) /\ ~(j <= 0) /\ staging'[t][Roots[j]] \in Present
        BY <3>1, <3>2, RootNames
      <4>2. \A j \in 1 .. Len(Roots) : Kept(root[Roots[j]], Roots[j])'
        BY <1>1, <1>2, <1>3, <2>2, <3>1 DEF Walk, Replaced
      <4>3. Replaced(t)' = 0
        BY <3>5 DEF Replaced
      <4>4. QED
        BY <3>5, <4>1, <4>2, <4>3 DEF Walk
    <3>8. QED
      BY <1>4, <3>3, <3>6, <3>7 DEF Inv
  <2>3. CASE /\ Step(t, "extract", "idle") /\ staging' = staging
             /\ faults' = faults \/ (faults < MaxFaults /\ faults' = faults + 1)
    <3>1. faults' \in 0 .. MaxFaults
      BY <1>1, <2>3, BoundsAssumption DEF ControlTypes
    <3>2. DataTypes'
      BY <1>1, <1>2, <2>1, <2>3 DEF DataTypes
    <3>3. req[t].at = "extract" /\ req'[t].at = "idle" /\ req'[t].i = req[t].i
      BY <1>1, <2>3, StepEffect
    <3>4. ControlTypes'
      BY <1>1, <1>2, <2>1, <2>3, <3>1, StepEffect DEF ControlTypes
    <3>5. Walk(t)'
      BY <1>1, <1>2, <1>3, <3>3 DEF Walk, Replaced
    <3>6. QED
      BY <1>4, <3>2, <3>4, <3>5 DEF Inv
  <2>4. QED
    BY <1>8, <2>2, <2>3 DEF Extract
<1>9. QED
  BY <1>5, <1>6, <1>7, <1>8

(***************************************************************************)
(* One tree is exchanged: what holds for the other roots is as before.     *)
(***************************************************************************)
LEMMA OtherRoots ==
  ASSUME DataTypes, NEW t \in Threads, NEW i \in 1 .. Len(Roots), NEW tree
  PROVE  /\ [root EXCEPT ![Roots[i]] = tree][Roots[i]] = tree
         /\ [saved EXCEPT ![t][Roots[i]] = tree][t][Roots[i]] = tree
         /\ \A j \in 1 .. Len(Roots) : j # i =>
              /\ [root EXCEPT ![Roots[i]] = tree][Roots[j]] = root[Roots[j]]
              /\ [saved EXCEPT ![t][Roots[i]] = tree][t][Roots[j]] = saved[t][Roots[j]]
              /\ [staging EXCEPT ![t][Roots[i]] = tree][t][Roots[j]] = staging[t][Roots[j]]
         /\ tree \in Trees =>
              /\ [root EXCEPT ![Roots[i]] = tree] \in [Names -> Trees]
              /\ [saved EXCEPT ![t][Roots[i]] = tree] \in [Threads -> [Names -> Trees]]
              /\ [staging EXCEPT ![t][Roots[i]] = tree] \in [Threads -> [Names -> Trees]]
         /\ tree \in Present \cup {NoTree} =>
              /\ \A r \in Names : [root EXCEPT ![Roots[i]] = tree][r].settings # "none"
                                    \/ [root EXCEPT ![Roots[i]] = tree][r] = NoTree
              /\ \A u \in Threads, r \in Names :
                   [saved EXCEPT ![t][Roots[i]] = tree][u][r].settings # "none"
                     \/ [saved EXCEPT ![t][Roots[i]] = tree][u][r] = NoTree
<1>1. Roots[i] \in Names /\ \A j \in 1 .. Len(Roots) : j # i => Roots[j] # Roots[i]
  BY RootNames
<1>2. root \in [Names -> Trees] /\ saved[t] \in [Names -> Trees] /\ staging[t] \in [Names -> Trees]
  BY DEF DataTypes
<1>3. \A j \in 1 .. Len(Roots) : Roots[j] \in Names
  BY RootNames
<1>4. /\ [saved EXCEPT ![t][Roots[i]] = tree] = [saved EXCEPT ![t] = [saved[t] EXCEPT ![Roots[i]] = tree]]
      /\ [saved EXCEPT ![t][Roots[i]] = tree][t] = [saved[t] EXCEPT ![Roots[i]] = tree]
      /\ [staging EXCEPT ![t][Roots[i]] = tree][t] = [staging[t] EXCEPT ![Roots[i]] = tree]
  BY DEF DataTypes
<1>5. ASSUME tree \in Trees
      PROVE  /\ [root EXCEPT ![Roots[i]] = tree] \in [Names -> Trees]
             /\ [saved EXCEPT ![t][Roots[i]] = tree] \in [Threads -> [Names -> Trees]]
             /\ [staging EXCEPT ![t][Roots[i]] = tree] \in [Threads -> [Names -> Trees]]
  BY <1>5 DEF DataTypes
<1>6. ASSUME tree \in Present \cup {NoTree}
      PROVE  /\ \A r \in Names : [root EXCEPT ![Roots[i]] = tree][r].settings # "none"
                                   \/ [root EXCEPT ![Roots[i]] = tree][r] = NoTree
             /\ \A u \in Threads, r \in Names :
                  [saved EXCEPT ![t][Roots[i]] = tree][u][r].settings # "none"
                    \/ [saved EXCEPT ![t][Roots[i]] = tree][u][r] = NoTree
  <2>1. tree.settings # "none" \/ tree = NoTree
    BY <1>6 DEF Present
  <2>2. \A r \in Names : [root EXCEPT ![Roots[i]] = tree][r] \in {tree, root[r]}
    BY <1>1, <1>2
  <2>3. \A u \in Threads, r \in Names :
          [saved EXCEPT ![t][Roots[i]] = tree][u][r] \in {tree, saved[u][r]}
    BY <1>1 DEF DataTypes
  <2>4. QED
    BY <2>1, <2>2, <2>3 DEF DataTypes
<1>7. QED
  BY <1>1, <1>2, <1>3, <1>4, <1>5, <1>6

(***************************************************************************)
(* The first rename of a root.                                             *)
(***************************************************************************)
LEMMA MoveOutInv ==
  ASSUME Inv, NEW t \in Threads, Threads = {t}, t # 0, MoveOut(t)
  PROVE  Inv'
<1> USE DEF Places
<1> DEFINE i == req[t].i
<1>1. req[t].at = "out"
  BY DEF MoveOut, Step
<1>2. phase = "up" /\ prep.at = "idle" /\ Walk(t) /\ DataTypes /\ ControlTypes
  BY <1>1, UnderWay DEF Inv
<1>3. i \in 1 .. Len(Roots) /\ i - 1 \in 0 .. Len(Roots) /\ Here(t) = Roots[i] /\ Roots[i] \in Names
  BY <1>1, <1>2, RootNames DEF Walk, ControlTypes, Here
<1>4. UNCHANGED <<upload, staging, left, agreed, cut, prep, phase, firmware, restores, losses>>
  BY DEF MoveOut
<1>5. \A tree, r : Kept(tree, r) => Kept(tree, r)'
  BY <1>4, KeptFrame
<1>6. Turns'
  BY <1>2, <1>4, TurnsFrame
<1>7. \A j \in 1 .. Len(Roots) :
        /\ Kept(IF j <= i - 1 THEN saved[t][Roots[j]] ELSE root[Roots[j]], Roots[j])
        /\ IF j < i THEN root[Roots[j]] \in Present ELSE staging[t][Roots[j]] \in Present
  BY <1>1, <1>2 DEF Walk, Replaced
<1> HIDE DEF i
<1>8. CASE /\ root[Roots[i]] # NoTree
           /\ saved' = [saved EXCEPT ![t][Roots[i]] = root[Roots[i]]]
           /\ root' = [root EXCEPT ![Roots[i]] = NoTree]
           /\ Step(t, "out", "in") /\ faults' = faults
  <2>1. req'[t].at = "in" /\ req'[t].i = i /\ ControlTypes'
    BY <1>2, <1>4, <1>8, StepEffect DEF ControlTypes, i
  <2>2. root[Roots[i]] \in Present
    BY <1>2, <1>3, <1>8 DEF DataTypes, Present
  <2>3. DataTypes'
    BY <1>2, <1>3, <1>4, <1>8, <2>2, OtherRoots, TreeTypes DEF DataTypes, Present
  <2>4. \A j \in 1 .. Len(Roots) : j # i => root'[Roots[j]] = root[Roots[j]]
                                           /\ saved'[t][Roots[j]] = saved[t][Roots[j]]
    BY <1>2, <1>3, <1>8, OtherRoots
  <2>5. saved'[t][Roots[i]] = root[Roots[i]]
    BY <1>2, <1>3, <1>8, OtherRoots
  <2>6. ASSUME NEW j \in 1 .. Len(Roots)
        PROVE  /\ Kept(IF j <= i THEN saved'[t][Roots[j]] ELSE root'[Roots[j]], Roots[j])
               /\ IF j < i THEN root'[Roots[j]] \in Present ELSE staging'[t][Roots[j]] \in Present
    <3>1. CASE j < i
      BY <1>3, <1>7, <2>4, <3>1
    <3>2. CASE j = i
      BY <1>3, <1>4, <1>7, <2>5, <3>2
    <3>3. CASE j > i
      BY <1>3, <1>4, <1>7, <2>4, <3>3
    <3>4. QED
      BY <1>3, <3>1, <3>2, <3>3
  <2>7. Walk(t)'
    BY <1>3, <1>5, <2>1, <2>6 DEF Walk, Replaced
  <2>8. QED
    BY <1>6, <2>1, <2>3, <2>7 DEF Inv
<1>9. CASE /\ root' = root /\ saved' = saved
           /\ faults' = faults \/ (faults < MaxFaults /\ faults' = faults + 1)
           /\ req' = [req EXCEPT ![t] = [at |-> "undoOut", i |-> i - 1]]
  <2>1. /\ req'[t].at = "undoOut" /\ req'[t].i = i - 1
        /\ req' \in [Threads -> [at : Places, i : 0 .. Len(Roots)]]
    BY <1>2, <1>3, <1>9, PlaceEffect
  <2>2. faults' \in 0 .. MaxFaults
    BY <1>2, <1>9, BoundsAssumption DEF ControlTypes
  <2>3. DataTypes' /\ ControlTypes'
    BY <1>2, <1>4, <1>9, <2>1, <2>2 DEF DataTypes, ControlTypes
  <2>4. Walk(t)'
    BY <1>5, <1>7, <1>9, <2>1 DEF Walk, Replaced
  <2>5. QED
    BY <1>6, <2>3, <2>4 DEF Inv
<1>10. QED
  BY <1>3, <1>8, <1>9 DEF MoveOut, Undo, i

(***************************************************************************)
(* The second one, and putting the old tree back when it fails.            *)
(***************************************************************************)
LEMMA MoveInInv ==
  ASSUME Inv, NEW t \in Threads, Threads = {t}, t # 0, MoveIn(t)
  PROVE  Inv'
<1> USE DEF Places
<1> DEFINE i == req[t].i
<1>1. req[t].at = "in"
  BY DEF MoveIn
<1>2. phase = "up" /\ prep.at = "idle" /\ Walk(t) /\ DataTypes /\ ControlTypes
  BY <1>1, UnderWay DEF Inv
<1>3. i \in 1 .. Len(Roots) /\ i - 1 \in 0 .. Len(Roots) /\ Here(t) = Roots[i] /\ Roots[i] \in Names
  BY <1>1, <1>2, RootNames DEF Walk, ControlTypes, Here
<1>4. UNCHANGED <<upload, left, agreed, cut, prep, phase, firmware, restores, losses>>
  BY DEF MoveIn
<1>5. \A tree, r : Kept(tree, r) => Kept(tree, r)'
  BY <1>4, KeptFrame
<1>6. Turns'
  BY <1>2, <1>4, TurnsFrame
<1>7. \A j \in 1 .. Len(Roots) :
        /\ Kept(IF j <= i THEN saved[t][Roots[j]] ELSE root[Roots[j]], Roots[j])
        /\ IF j < i THEN root[Roots[j]] \in Present ELSE staging[t][Roots[j]] \in Present
  BY <1>1, <1>2 DEF Walk, Replaced
<1> HIDE DEF i
<1>8. CASE /\ root' = [root EXCEPT ![Roots[i]] = staging[t][Roots[i]]]
           /\ staging' = [staging EXCEPT ![t][Roots[i]] = NoTree]
           /\ req' = [req EXCEPT ![t] = IF req[t].i < Len(Roots) THEN [at |-> "out", i |-> @.i + 1]
                                        ELSE [@ EXCEPT !.at = "prepare"]]
           /\ saved' = saved /\ faults' = faults
  <2>1. staging[t][Roots[i]] \in Present
    BY <1>3, <1>7
  <2>2. DataTypes'
    BY <1>2, <1>3, <1>4, <1>8, <2>1, OtherRoots, TreeTypes DEF DataTypes, Present
  <2>3. \A j \in 1 .. Len(Roots) : j # i => root'[Roots[j]] = root[Roots[j]]
                                           /\ staging'[t][Roots[j]] = staging[t][Roots[j]]
    BY <1>2, <1>3, <1>8, OtherRoots
  <2>4. root'[Roots[i]] \in Present
    BY <1>2, <1>3, <1>8, <2>1, OtherRoots
  <2>5. ASSUME NEW j \in 1 .. Len(Roots)
        PROVE  /\ Kept(IF j <= i THEN saved'[t][Roots[j]] ELSE root'[Roots[j]], Roots[j])
               /\ IF j < i + 1 THEN root'[Roots[j]] \in Present ELSE staging'[t][Roots[j]] \in Present
    <3>1. CASE j < i
      BY <1>3, <1>7, <1>8, <2>3, <3>1
    <3>2. CASE j = i
      BY <1>3, <1>7, <1>8, <2>4, <3>2
    <3>3. CASE j > i
      BY <1>3, <1>7, <2>3, <3>3
    <3>4. QED
      BY <1>3, <3>1, <3>2, <3>3
  <2>6. CASE i < Len(Roots)
    <3>1. req' = [req EXCEPT ![t] = [at |-> "out", i |-> i + 1]] /\ i + 1 \in 0 .. Len(Roots)
      BY <1>3, <1>8, <2>6, RootNames DEF i
    <3>2. /\ req'[t].at = "out" /\ req'[t].i = i + 1
          /\ req' \in [Threads -> [at : Places, i : 0 .. Len(Roots)]]
      BY <1>2, <3>1, PlaceEffect
    <3>3. ControlTypes'
      BY <1>2, <1>4, <1>8, <3>2 DEF ControlTypes
    <3>4. Replaced(t)' = i
      BY <1>3, <3>2 DEF Replaced
    <3>5. Walk(t)'
      BY <1>3, <1>5, <2>5, <3>2, <3>4 DEF Walk
    <3>6. QED
      BY <1>6, <2>2, <3>3, <3>5 DEF Inv
  <2>7. CASE i = Len(Roots)
    <3>1. req' = [req EXCEPT ![t] = [req[t] EXCEPT !.at = "prepare"]]
      <4>1. ~(req[t].i < Len(Roots))
        BY <2>7, RootNames DEF i
      <4>2. QED
        BY <1>8, <4>1
    <3>2. /\ req'[t].at = "prepare" /\ req'[t].i = i
          /\ req' \in [Threads -> [at : Places, i : 0 .. Len(Roots)]]
      BY <1>2, <3>1 DEF i, ControlTypes
    <3>3. ControlTypes'
      BY <1>2, <1>4, <1>8, <3>2 DEF ControlTypes
    <3>4. \A j \in 1 .. Len(Roots) : j < i + 1
      BY <1>3, <2>7
    <3>5. Walk(t)'
      BY <1>3, <1>5, <2>5, <2>7, <3>2, <3>4 DEF Walk, Replaced
    <3>6. QED
      BY <1>6, <2>2, <3>3, <3>5 DEF Inv
  <2>8. QED
    BY <1>3, <2>6, <2>7
<1>9. CASE /\ Fault /\ staging' = staging
           /\ root' = [root EXCEPT ![Roots[i]] = saved[t][Roots[i]]]
           /\ saved' = [saved EXCEPT ![t][Roots[i]] = NoTree]
           /\ req' = [req EXCEPT ![t] = [at |-> "undoOut", i |-> i - 1]]
  <2>1. /\ req'[t].at = "undoOut" /\ req'[t].i = i - 1
        /\ req' \in [Threads -> [at : Places, i : 0 .. Len(Roots)]]
    BY <1>2, <1>3, <1>9, PlaceEffect
  <2>2. faults' \in 0 .. MaxFaults
    BY <1>2, <1>9, BoundsAssumption DEF ControlTypes, Fault
  <2>3. saved[t][Roots[i]] \in Present \cup {NoTree} /\ saved[t][Roots[i]] \in Trees
    BY <1>2, <1>3 DEF DataTypes, Present
  <2>4. DataTypes'
    BY <1>2, <1>3, <1>4, <1>9, <2>3, OtherRoots, TreeTypes DEF DataTypes
  <2>5. ControlTypes'
    BY <1>2, <1>4, <2>1, <2>2 DEF ControlTypes
  <2>6. \A j \in 1 .. Len(Roots) : j # i => root'[Roots[j]] = root[Roots[j]]
                                           /\ saved'[t][Roots[j]] = saved[t][Roots[j]]
    BY <1>2, <1>3, <1>9, OtherRoots
  <2>7. root'[Roots[i]] = saved[t][Roots[i]]
    BY <1>2, <1>3, <1>9, OtherRoots
  <2>8. ASSUME NEW j \in 1 .. Len(Roots)
        PROVE  Kept(IF j <= i - 1 THEN saved'[t][Roots[j]] ELSE root'[Roots[j]], Roots[j])
    <3>1. CASE j < i
      BY <1>3, <1>7, <2>6, <3>1
    <3>2. CASE j = i
      BY <1>3, <1>7, <2>7, <3>2
    <3>3. CASE j > i
      BY <1>3, <1>7, <2>6, <3>3
    <3>4. QED
      BY <1>3, <3>1, <3>2, <3>3
  <2>9. Walk(t)'
    BY <1>5, <2>1, <2>8 DEF Walk, Replaced
  <2>10. QED
    BY <1>6, <2>4, <2>5, <2>9 DEF Inv
<1>10. QED
  BY <1>3, <1>8, <1>9 DEF MoveIn, Undo, i

(***************************************************************************)
(* All roots are replaced: preparing and rendering.                        *)
(***************************************************************************)
LEMMA ActivateInv ==
  ASSUME Inv, NEW t \in Threads, Threads = {t}, t # 0, Prepare(t) \/ Render(t)
  PROVE  Inv'
<1> USE DEF Places
<1>1. req[t].at \in {"prepare", "render"}
  BY DEF Prepare, Render, Step
<1>2. phase = "up" /\ Walk(t) /\ DataTypes /\ ControlTypes /\ req[t].i = Len(Roots)
  BY <1>1, UnderWay DEF Inv, Walk
<1>3. UNCHANGED <<root, upload, staging, saved, left, agreed, cut, restores, phase, firmware, losses>>
  BY DEF Prepare, Render, restore
<1>4. \A tree, r : Kept(tree, r) => Kept(tree, r)'
  BY <1>3, KeptFrame
<1>5. DataTypes'
  BY <1>2, <1>3 DEF DataTypes
<1>6. CASE Prepare(t)
  <2>1. req' = req /\ faults' = faults /\ prep' = [at |-> "check", for |-> t]
    BY <1>6 DEF Prepare, restore
  <2>2. req[t].at = "prepare"
    BY <1>6 DEF Prepare
  <2>3. ControlTypes'
    BY <1>2, <1>3, <2>1 DEF ControlTypes
  <2>4. Turns'
    BY <1>2, <1>3, <2>1, <2>2, TurnsFrame
  <2>5. Walk(t)'
    BY <1>2, <1>3, <1>4, <2>1 DEF Walk, Replaced
  <2>6. QED
    BY <1>5, <2>3, <2>4, <2>5 DEF Inv
<1>7. CASE Render(t)
  <2>1. prep' = prep /\ req[t].at = "render"
    BY <1>7 DEF Render, Step
  <2>2. Turns'
    BY <1>2, <1>3, <2>1, UnderWay, TurnsFrame
  <2>3. CASE Step(t, "render", "finish") /\ faults' = faults
    <3>1. req'[t].at = "finish" /\ req'[t].i = Len(Roots) /\ ControlTypes'
      BY <1>2, <1>3, <2>1, <2>3, StepEffect DEF ControlTypes
    <3>2. Walk(t)'
      BY <1>2, <1>3, <1>4, <2>1, <3>1 DEF Walk, Replaced
    <3>3. QED
      BY <1>5, <2>2, <3>1, <3>2 DEF Inv
  <2>4. CASE Fault /\ Undo(t, Len(Roots))
    <3>1. Len(Roots) \in 0 .. Len(Roots)
      BY RootNames
    <3>2. /\ req'[t].at = "undoOut" /\ req'[t].i = Len(Roots)
          /\ req' \in [Threads -> [at : Places, i : 0 .. Len(Roots)]]
      BY <1>2, <2>4, <3>1, PlaceEffect DEF Undo
    <3>3. faults' \in 0 .. MaxFaults
      BY <1>2, <2>4, BoundsAssumption DEF ControlTypes, Fault
    <3>4. ControlTypes'
      BY <1>2, <1>3, <2>1, <3>2, <3>3 DEF ControlTypes
    <3>5. Walk(t)'
      BY <1>2, <1>3, <1>4, <2>1, <3>2 DEF Walk, Replaced
    <3>6. QED
      BY <1>5, <2>2, <3>4, <3>5 DEF Inv
  <2>5. QED
    BY <1>7, <2>3, <2>4 DEF Render
<1>8. QED
  BY <1>6, <1>7

(***************************************************************************)
(* The way back: the tree put there goes, and what was saved returns.      *)
(***************************************************************************)
LEMMA UndoInv ==
  ASSUME Inv, NEW t \in Threads, Threads = {t}, t # 0, UndoOut(t) \/ UndoIn(t)
  PROVE  Inv'
<1> USE DEF Places
<1> DEFINE i == req[t].i
<1>1. req[t].at \in {"undoOut", "undoIn"}
  BY DEF UndoOut, UndoIn
<1>2. phase = "up" /\ prep.at = "idle" /\ Walk(t) /\ DataTypes /\ ControlTypes
  BY <1>1, UnderWay DEF Inv
<1>3. i \in 1 .. Len(Roots) /\ i - 1 \in 0 .. Len(Roots) /\ Here(t) = Roots[i] /\ Roots[i] \in Names
  BY <1>1, <1>2, RootNames DEF Walk, ControlTypes, Here, UndoOut, UndoIn
<1>4. UNCHANGED <<upload, left, agreed, cut, prep, phase, firmware, restores, losses, faults>>
  BY DEF UndoOut, UndoIn
<1>5. \A tree, r : Kept(tree, r) => Kept(tree, r)'
  BY <1>4, KeptFrame
<1>6. Turns'
  BY <1>2, <1>4, TurnsFrame
<1>7. \A j \in 1 .. Len(Roots) :
        Kept(IF j <= i THEN saved[t][Roots[j]] ELSE root[Roots[j]], Roots[j])
  BY <1>1, <1>2 DEF Walk, Replaced
<1> HIDE DEF i
<1>8. CASE UndoOut(t)
  <2>1. /\ staging' = [staging EXCEPT ![t][Roots[i]] = root[Roots[i]]]
        /\ root' = [root EXCEPT ![Roots[i]] = NoTree] /\ saved' = saved
        /\ Step(t, "undoOut", "undoIn")
    BY <1>3, <1>8 DEF UndoOut
  <2>2. req'[t].at = "undoIn" /\ req'[t].i = i /\ ControlTypes'
    BY <1>2, <1>4, <2>1, StepEffect DEF ControlTypes, i
  <2>3. DataTypes'
    <3>1. staging' \in [Threads -> [Names -> Trees]]
      BY <1>2, <1>3, <2>1, OtherRoots DEF DataTypes
    <3>2. QED
      BY <1>2, <1>3, <1>4, <2>1, <3>1, OtherRoots, TreeTypes DEF DataTypes
  <2>4. \A j \in 1 .. Len(Roots) : j # i => root'[Roots[j]] = root[Roots[j]]
    <3>1. \A j \in 1 .. Len(Roots) : Roots[j] \in Names /\ (j # i => Roots[j] # Roots[i])
      BY <1>3, RootNames
    <3>2. QED
      BY <1>2, <2>1, <3>1 DEF DataTypes
  <2>5. \A j \in 1 .. Len(Roots) :
          Kept(IF j <= i THEN saved'[t][Roots[j]] ELSE root'[Roots[j]], Roots[j])
    <3>1. TAKE j \in 1 .. Len(Roots)
    <3>2. CASE j <= i
      BY <1>7, <2>1, <3>2
    <3>3. CASE ~(j <= i)
      BY <1>3, <1>7, <2>4, <3>3
    <3>4. QED
      BY <3>2, <3>3
  <2>6. Walk(t)'
    BY <1>3, <1>5, <2>2, <2>5 DEF Walk, Replaced
  <2>7. QED
    BY <1>6, <2>2, <2>3, <2>6 DEF Inv
<1>9. CASE UndoIn(t)
  <2>1. /\ root' = [root EXCEPT ![Roots[i]] = saved[t][Roots[i]]]
        /\ saved' = [saved EXCEPT ![t][Roots[i]] = NoTree] /\ staging' = staging
        /\ req' = [req EXCEPT ![t] = [at |-> "undoOut", i |-> i - 1]]
    BY <1>3, <1>9 DEF UndoIn, i
  <2>2. /\ req'[t].at = "undoOut" /\ req'[t].i = i - 1
        /\ req' \in [Threads -> [at : Places, i : 0 .. Len(Roots)]]
    BY <1>2, <1>3, <2>1, PlaceEffect
  <2>3. ControlTypes'
    BY <1>2, <1>4, <2>2 DEF ControlTypes
  <2>4. saved[t][Roots[i]] \in Present \cup {NoTree} /\ saved[t][Roots[i]] \in Trees
    BY <1>2, <1>3 DEF DataTypes, Present
  <2>5. DataTypes'
    BY <1>2, <1>3, <1>4, <2>1, <2>4, OtherRoots, TreeTypes DEF DataTypes
  <2>6. \A j \in 1 .. Len(Roots) : j # i => root'[Roots[j]] = root[Roots[j]]
                                           /\ saved'[t][Roots[j]] = saved[t][Roots[j]]
    BY <1>2, <1>3, <2>1, OtherRoots
  <2>7. root'[Roots[i]] = saved[t][Roots[i]]
    BY <1>2, <1>3, <2>1, OtherRoots
  <2>8. ASSUME NEW j \in 1 .. Len(Roots)
        PROVE  Kept(IF j <= i - 1 THEN saved'[t][Roots[j]] ELSE root'[Roots[j]], Roots[j])
    <3>1. CASE j < i
      BY <1>3, <1>7, <2>6, <3>1
    <3>2. CASE j = i
      BY <1>3, <1>7, <2>7, <3>2
    <3>3. CASE j > i
      BY <1>3, <1>7, <2>6, <3>3
    <3>4. QED
      BY <1>3, <3>1, <3>2, <3>3
  <2>9. Walk(t)'
    BY <1>5, <2>2, <2>8 DEF Walk, Replaced
  <2>10. QED
    BY <1>6, <2>3, <2>5, <2>9 DEF Inv
<1>10. QED
  BY <1>8, <1>9

(***************************************************************************)
(* Either way the request ends with every root in its place.               *)
(***************************************************************************)
LEMMA EndInv ==
  ASSUME Inv, NEW t \in Threads, Threads = {t}, t # 0, Undone(t) \/ Finish(t)
  PROVE  Inv'
<1> USE DEF Places
<1>1. req[t].at \in {"undoOut", "finish"} /\ Ends(t)
  BY DEF Undone, Finish
<1>2. phase = "up" /\ prep.at = "idle" /\ Walk(t) /\ DataTypes /\ ControlTypes
  BY <1>1, UnderWay DEF Inv
<1>3. UNCHANGED <<root, left, restores, prep, phase, firmware, losses, faults>>
  BY <1>1 DEF Ends
<1>4. Turns'
  BY <1>2, <1>3, TurnsFrame
<1>5. /\ req'[t].at = "idle" /\ req'[t].i = 0
      /\ req' \in [Threads -> [at : Places, i : 0 .. Len(Roots)]]
  <2>1. 0 \in 0 .. Len(Roots)
    BY RootNames
  <2>2. QED
    BY <1>1, <1>2, <2>1, PlaceEffect DEF Ends, Idle
<1>6. ControlTypes'
  BY <1>2, <1>3, <1>5 DEF ControlTypes
<1>7. /\ staging' \in [Threads -> [Names -> Trees]] /\ saved' \in [Threads -> [Names -> Trees]]
      /\ \A u \in Threads, r \in Names : saved'[u][r] = NoTree
  BY <1>1, <1>2, TreeTypes DEF Ends, DataTypes
<1>8. CASE Undone(t)
  <2>1. UNCHANGED <<upload, agreed, cut>> /\ req[t].i = 0 /\ req[t].at = "undoOut"
    BY <1>8 DEF Undone
  <2>2. DataTypes'
    BY <1>2, <1>3, <1>7, <2>1 DEF DataTypes
  <2>3. \A tree, r : Kept(tree, r) => Kept(tree, r)'
    BY <1>3, <2>1, KeptFrame
  <2>4. Walk(t)'
    BY <1>2, <1>3, <1>5, <2>1, <2>3 DEF Walk, Replaced
  <2>5. QED
    BY <1>4, <1>6, <2>2, <2>4 DEF Inv
<1>9. CASE Finish(t)
  <2>1. /\ upload' = NoArchive /\ cut' = FALSE
        /\ agreed' = [r \in Names |-> root[r].settings] /\ req[t].at = "finish"
    BY <1>9 DEF Finish
  <2>2. \A r \in Names : root[r] \in Present
    BY <1>2, <2>1, RootNames DEF Walk
  <2>3. agreed' \in [Names -> Texts \ {"none"}]
    BY <2>1, <2>2 DEF Present, Trees
  <2>4. DataTypes'
    BY <1>2, <1>3, <1>7, <2>1, <2>3, TreeTypes DEF DataTypes
  <2>5. \A j \in 1 .. Len(Roots) : Kept(root[Roots[j]], Roots[j])'
    BY <1>3, <2>1, RootNames DEF Kept
  <2>6. Walk(t)'
    BY <1>5, <2>5 DEF Walk, Replaced
  <2>7. QED
    BY <1>4, <1>6, <2>4, <2>6 DEF Inv
<1>10. QED
  BY <1>8, <1>9

-----------------------------------------------------------------------------
(* Migration, booting and power.                                           *)

(***************************************************************************)
(* Who prepares the data, and that there are some.                         *)
(***************************************************************************)
LEMMA Preparing ==
  ASSUME Inv, NEW t \in Threads, Threads = {t}, t # 0, prep.at # "idle"
  PROVE  /\ root["radio"] \in Present /\ Schema \in Nat
         /\ \/ prep.for = 0 /\ phase = "booting" /\ req[t] = Idle
            \/ prep.for = t /\ phase = "up" /\ req[t].at = "prepare" /\ req[t].i = Len(Roots)
<1>1. \/ prep.for = 0 /\ phase = "booting" /\ root["radio"] # NoTree /\ req[t] = Idle
      \/ prep.for = t /\ phase = "up" /\ req[t].at = "prepare" /\ req[t].i = Len(Roots)
  BY DEF Inv, Turns, Walk
<1>2. root["radio"] \in Present
  <2>1. CASE root["radio"] # NoTree
    BY <2>1, RootNames DEF Inv, DataTypes, Present
  <2>2. CASE req[t].at = "prepare"
    BY <2>2, RootNames DEF Inv, Walk
  <2>3. QED
    BY <1>1, <2>1, <2>2
<1>3. QED
  BY <1>1, <1>2 DEF Present, Trees, Schema

(***************************************************************************)
(* While no request moves and no settings change, what is kept stays kept. *)
(***************************************************************************)
LEMMA WalkFrame ==
  ASSUME NEW t \in Threads, Walk(t), Replaced(t)' = Replaced(t),
         \A r \in Names : root'[r].settings = root[r].settings,
         UNCHANGED <<saved, left, agreed, cut>>
  PROVE  \A j \in 1 .. Len(Roots) :
           Kept(IF j <= Replaced(t) THEN saved[t][Roots[j]] ELSE root[Roots[j]], Roots[j])'
<1>1. \A tree, other, r : tree.settings = other.settings /\ Kept(tree, r) => Kept(other, r)'
  BY KeptFrame
<1>2. TAKE j \in 1 .. Len(Roots)
<1>3. Kept(IF j <= Replaced(t) THEN saved[t][Roots[j]] ELSE root[Roots[j]], Roots[j])
  BY DEF Walk
<1>4. CASE j <= Replaced(t)
  <2>1. Kept(saved[t][Roots[j]], Roots[j])
    BY <1>3, <1>4
  <2>2. Kept(saved[t][Roots[j]], Roots[j])'
    BY <1>1, <2>1
  <2>3. QED
    BY <1>4, <2>2
<1>5. CASE ~(j <= Replaced(t))
  <2>1. Kept(root[Roots[j]], Roots[j])
    BY <1>3, <1>5
  <2>2. Kept(root[Roots[j]], Roots[j])'
    BY <1>1, <2>1, RootNames
  <2>3. QED
    BY <1>5, <2>2
<1>6. QED
  BY <1>4, <1>5

(***************************************************************************)
(* prepare() returns, having changed no settings.                          *)
(***************************************************************************)
LEMMA ReturnsInv ==
  ASSUME Inv, NEW t \in Threads, Threads = {t}, t # 0, prep.at # "idle",
         NEW ok \in BOOLEAN, Returns(ok),
         DataTypes', \A r \in Names : root'[r].settings = root[r].settings,
         \A r \in Names : root[r] \in Present => root'[r] \in Present,
         UNCHANGED <<upload, staging, saved, left, agreed, cut, restores, firmware, losses, faults>>
  PROVE  Inv'
<1> USE DEF Places
<1>1. DataTypes /\ ControlTypes /\ Walk(t)
  BY DEF Inv
<1>3. prep' = [at |-> "idle", for |-> 0]
  BY DEF Returns
<1>4. CASE prep.for = 0
  <2>1. req' = req /\ req[t] = Idle /\ phase' \in {"up", "refused"}
    BY <1>4, Preparing DEF Returns
  <2>2. ControlTypes'
    BY <1>1, <1>3, <2>1 DEF ControlTypes
  <2>3. Turns'
    BY <1>3, <2>1 DEF Turns
  <2>4. Walk(t)'
    <3>1. Replaced(t)' = Replaced(t)
      BY <2>1 DEF Replaced
    <3>2. \A j \in 1 .. Len(Roots) :
            Kept(IF j <= Replaced(t) THEN saved[t][Roots[j]] ELSE root[Roots[j]], Roots[j])'
      BY <1>1, <3>1, WalkFrame
    <3>3. QED
      BY <2>1, <3>2 DEF Walk, Idle
  <2>5. QED
    BY <2>2, <2>3, <2>4 DEF Inv
<1>5. CASE prep.for = t
  <2>1. phase' = "up" /\ req[t].at = "prepare" /\ req[t].i = Len(Roots)
    BY <1>5, Preparing DEF Returns
  <2>2. Turns'
    BY <1>3, <2>1, TurnsFrame
  <2>3. Len(Roots) \in 0 .. Len(Roots)
    BY RootNames
  <2>4. /\ req'[t].at = (IF ok THEN "render" ELSE "undoOut") /\ req'[t].i = Len(Roots)
        /\ req' \in [Threads -> [at : Places, i : 0 .. Len(Roots)]]
    <3>1. CASE ok
      <4>1. req' = [req EXCEPT ![t] = [req[t] EXCEPT !.at = "render"]]
        BY <1>5, <3>1 DEF Returns
      <4>2. QED
        BY <1>1, <2>1, <3>1, <4>1 DEF ControlTypes
    <3>2. CASE ~ok
      <4>1. req' = [req EXCEPT ![t] = [at |-> "undoOut", i |-> Len(Roots)]]
        BY <1>5, <3>2 DEF Returns
      <4>2. QED
        BY <1>1, <2>3, <3>2, <4>1, PlaceEffect
    <3>3. QED
      BY <3>1, <3>2
  <2>5. ControlTypes'
    BY <1>1, <1>3, <2>1, <2>4 DEF ControlTypes
  <2>6. \A j \in 1 .. Len(Roots) : root'[Roots[j]] \in Present
    BY <1>1, <2>1, RootNames DEF Walk
  <2>7. Walk(t)'
    <3>1. Replaced(t)' = Replaced(t)
      BY <2>1, <2>4 DEF Replaced
    <3>2. \A j \in 1 .. Len(Roots) :
            Kept(IF j <= Replaced(t) THEN saved[t][Roots[j]] ELSE root[Roots[j]], Roots[j])'
      BY <1>1, <3>1, WalkFrame
    <3>3. QED
      BY <2>4, <2>6, <3>2 DEF Walk
  <2>8. QED
    BY <2>2, <2>5, <2>7 DEF Inv
<1>6. QED
  BY <1>4, <1>5, Preparing

(***************************************************************************)
(* A new compatibility file or schema number leaves the settings alone.    *)
(***************************************************************************)
LEMMA RadioRewritten ==
  ASSUME DataTypes, root["radio"] \in Present, NEW s \in Nat, NEW c \in [writer : Nat, min : Nat],
         \/ root' = root
         \/ root' = [root EXCEPT !["radio"].compat = c]
         \/ root' = [root EXCEPT !["radio"].schema = s],
         UNCHANGED <<upload, staging, saved, agreed, cut>>
  PROVE  /\ DataTypes'
         /\ \A r \in Names : root'[r].settings = root[r].settings
         /\ \A r \in Names : root[r] \in Present => root'[r] \in Present
<1>1. [root["radio"] EXCEPT !.compat = c] \in Present
      /\ [root["radio"] EXCEPT !.compat = c].settings = root["radio"].settings
  BY DEF Present, Trees
<1>2. [root["radio"] EXCEPT !.schema = s] \in Present
      /\ [root["radio"] EXCEPT !.schema = s].settings = root["radio"].settings
  BY DEF Present, Trees
<1>3. PICK tree \in Present : /\ root' = [root EXCEPT !["radio"] = tree]
                              /\ tree.settings = root["radio"].settings
  <2>1. CASE root' = root
    BY <2>1, RootNames DEF DataTypes
  <2>2. CASE root' = [root EXCEPT !["radio"].compat = c]
    BY <1>1, <2>2
  <2>3. CASE root' = [root EXCEPT !["radio"].schema = s]
    BY <1>2, <2>3
  <2>4. QED
    BY <2>1, <2>2, <2>3
<1>4. \A r \in Names : root'[r] = IF r = "radio" THEN tree ELSE root[r]
  BY <1>3 DEF DataTypes
<1>5. tree \in Trees /\ tree.settings # "none"
  BY DEF Present
<1>6. root' \in [Names -> Trees]
  BY <1>3, <1>5 DEF DataTypes
<1>7. QED
  BY <1>3, <1>4, <1>5, <1>6 DEF DataTypes

LEMMA MigrateInv ==
  ASSUME Inv, NEW t \in Threads, Threads = {t}, t # 0, Migrate
  PROVE  Inv'
<1>1. prep.at # "idle"
  BY DEF Migrate, MigrateChecks, MigrateCopies, MigratePublishes, MigrateWritesCompat, MigrateCommits
<1>2. root["radio"] \in Present /\ DataTypes /\ ControlTypes /\ Schema \in Nat /\ Walk(t)
  BY <1>1, Preparing DEF Inv
<1>3. UNCHANGED <<upload, staging, saved, left, agreed, cut, restores, firmware, losses, faults>>
  BY DEF Migrate, MigrateChecks, MigrateCopies, MigratePublishes, MigrateWritesCompat, MigrateCommits,
         restore
<1>4. Current[firmware] \in Nat /\ MinReader[firmware] \in Nat
  BY <1>2, ContractAssumption DEF ControlTypes
<1>5. \/ root' = root
      \/ \E c \in [writer : Nat, min : Nat] : root' = [root EXCEPT !["radio"].compat = c]
      \/ \E n \in Nat : root' = [root EXCEPT !["radio"].schema = n]
  <2>1. CASE MigrateChecks
    <3>1. CASE root' = [root EXCEPT !["radio"].compat =
                         IF Compat = NoFile THEN [writer |-> Schema, min |-> Minimum] ELSE @]
      <4>1. CASE Compat = NoFile
        <5>1. [writer |-> Schema, min |-> Minimum] \in [writer : Nat, min : Nat]
          BY <1>2, <4>1 DEF Minimum
        <5>2. root' = [root EXCEPT !["radio"].compat = [writer |-> Schema, min |-> Minimum]]
          BY <3>1, <4>1
        <5>3. QED
          BY <5>1, <5>2
      <4>2. CASE Compat # NoFile
        <5>1. root["radio"].compat \in [writer : Nat, min : Nat]
          BY <1>2 DEF Present, Trees
        <5>2. root' = [root EXCEPT !["radio"].compat = root["radio"].compat]
          BY <3>1, <4>2
        <5>3. QED
          BY <5>1, <5>2
      <4>3. QED
        BY <4>1, <4>2
    <3>2. QED
      BY <2>1, <3>1 DEF MigrateChecks
  <2>2. CASE MigrateWritesCompat
    <3>1. [writer |-> Current[firmware], min |-> MinReader[firmware]] \in [writer : Nat, min : Nat]
      BY <1>4
    <3>2. QED
      BY <2>2, <3>1 DEF MigrateWritesCompat
  <2>3. CASE MigrateCommits
    BY <1>4, <2>3 DEF MigrateCommits
  <2>4. CASE MigrateCopies \/ MigratePublishes
    BY <2>4 DEF MigrateCopies, MigratePublishes
  <2>5. QED
    BY <2>1, <2>2, <2>3, <2>4 DEF Migrate
<1>6. /\ DataTypes'
      /\ \A r \in Names : root'[r].settings = root[r].settings
      /\ \A r \in Names : root[r] \in Present => root'[r] \in Present
  <2>1. NoFile \in [writer : Nat, min : Nat] /\ 0 \in Nat
    BY DEF NoFile
  <2>2. QED
    BY <1>2, <1>3, <1>5, <2>1, RadioRewritten
<1>7. CASE \E ok \in BOOLEAN : Returns(ok)
  BY <1>1, <1>3, <1>6, <1>7, ReturnsInv
<1>8. CASE \E at \in {"copy", "publish", "compat", "schema"} :
             prep' = [prep EXCEPT !.at = at] /\ req' = req /\ phase' = phase
  <2>1. PICK at \in {"copy", "publish", "compat", "schema"} :
          prep' = [prep EXCEPT !.at = at] /\ req' = req /\ phase' = phase
    BY <1>8
  <2>2. /\ prep'.at = at /\ prep'.for = prep.for
        /\ prep' \in [at : {"idle", "check", "copy", "publish", "compat", "schema"},
                      for : Threads \cup {0}]
    BY <1>2, <2>1 DEF ControlTypes
  <2>3. ControlTypes'
    BY <1>2, <1>3, <2>1, <2>2 DEF ControlTypes
  <2>4. Turns'
    <3>1. root'["radio"] # NoTree
      BY <1>2, <1>6, RootNames, TreeTypes DEF Present
    <3>2. QED
      BY <1>1, <2>1, <2>2, <3>1, Preparing DEF Inv, Turns
  <2>5. Walk(t)'
    <3>1. Replaced(t)' = Replaced(t)
      BY <2>1 DEF Replaced
    <3>2. \A j \in 1 .. Len(Roots) :
            Kept(IF j <= Replaced(t) THEN saved[t][Roots[j]] ELSE root[Roots[j]], Roots[j])'
      BY <1>2, <1>3, <1>6, <3>1, WalkFrame
    <3>3. /\ req[t].at \notin {"extract", "out", "in"}
          /\ req[t].at \in {"prepare", "render", "finish"} =>
               \A j \in 1 .. Len(Roots) : root'[Roots[j]] \in Present
      BY <1>1, <1>2, <1>6, RootNames, Preparing DEF Walk, Idle
    <3>4. QED
      BY <1>2, <2>1, <3>2, <3>3 DEF Walk
  <2>6. QED
    BY <1>6, <2>3, <2>4, <2>5 DEF Inv
<1>9. QED
  <2>1. CASE MigrateChecks
    BY <1>7, <1>8, <2>1 DEF MigrateChecks
  <2>2. CASE MigrateCommits
    BY <1>7, <2>2 DEF MigrateCommits
  <2>3. CASE MigrateCopies \/ MigratePublishes \/ MigrateWritesCompat
    BY <1>8, <2>3 DEF MigrateCopies, MigratePublishes, MigrateWritesCompat, restore
  <2>4. QED
    BY <2>1, <2>2, <2>3 DEF Migrate

(***************************************************************************)
(* Booting creates what is missing, and that is nothing that is to be      *)
(* kept; the power fails, and temporary directories stay behind.           *)
(***************************************************************************)
LEMMA BootInv ==
  ASSUME Inv, NEW t \in Threads, Threads = {t}, t # 0, Boot
  PROVE  Inv'
<1>1. DataTypes /\ ControlTypes /\ Walk(t) /\ req[t] = Idle
  BY DEF Inv, Turns, Boot
<1>2. /\ phase' = "booting" /\ prep' = [at |-> "check", for |-> 0] /\ firmware' \in Firmwares
      /\ root' = [r \in Names |-> IF root[r] = NoTree THEN Empty ELSE root[r]]
      /\ UNCHANGED <<upload, req, staging, saved, left, agreed, cut, restores, losses, faults>>
  BY DEF Boot, restore
<1>3. root' \in [Names -> Present]
  BY <1>1, <1>2, TreeTypes DEF DataTypes, Present
<1>4. DataTypes'
  BY <1>1, <1>2, <1>3 DEF DataTypes, Present
<1>5. ControlTypes'
  BY <1>1, <1>2 DEF ControlTypes
<1>6. Turns'
  <2>1. root'["radio"] # NoTree
    BY <1>3, RootNames, TreeTypes DEF Present
  <2>2. \A u \in Threads : req'[u] = Idle
    BY <1>1, <1>2
  <2>3. QED
    BY <1>2, <2>1, <2>2 DEF Turns
<1>7. \A j \in 1 .. Len(Roots) : Kept(root'[Roots[j]], Roots[j])
  <2>1. TAKE j \in 1 .. Len(Roots)
  <2>2. Kept(root[Roots[j]], Roots[j]) /\ Roots[j] \in Names
    BY <1>1, RootNames DEF Walk, Replaced, Idle
  <2>3. CASE root[Roots[j]] = NoTree
    <3>1. agreed[Roots[j]] # "none" /\ root[Roots[j]].settings = "none"
      BY <1>1, <2>2, <2>3, TreeTypes DEF DataTypes
    <3>2. QED
      BY <2>2, <3>1 DEF Kept
  <2>4. CASE root[Roots[j]] # NoTree
    BY <1>2, <2>2, <2>4
  <2>5. QED
    BY <2>3, <2>4
<1>8. Walk(t)'
  BY <1>1, <1>2, <1>7 DEF Walk, Replaced, Idle, Kept
<1>9. QED
  BY <1>4, <1>5, <1>6, <1>8 DEF Inv

LEMMA PowerFailsInv ==
  ASSUME Inv, NEW t \in Threads, Threads = {t}, t # 0, PowerFails
  PROVE  Inv'
<1> USE DEF Places
<1>1. DataTypes /\ ControlTypes /\ Walk(t)
  BY DEF Inv
<1>2. /\ phase' = "off" /\ prep' = [at |-> "idle", for |-> 0] /\ losses < MaxLosses
      /\ losses' = losses + 1 /\ left' = left \cup Leftovers
      /\ req' = [u \in Threads |-> Idle]
      /\ staging' = [u \in Threads |-> NoTrees] /\ saved' = [u \in Threads |-> NoTrees]
      /\ cut' = (cut \/ \E u \in Threads : req[u].at \notin {"idle", "inspect", "validate", "extract"})
      /\ UNCHANGED <<root, upload, agreed, restores, firmware, faults>>
  BY DEF PowerFails
<1>3. req'[t].at = "idle" /\ req'[t].i = 0 /\ Idle \in [at : Places, i : 0 .. Len(Roots)]
  BY <1>2, RootNames DEF Idle
<1>4. DataTypes'
  <2>1. cut' \in BOOLEAN
    BY <1>2
  <2>2. /\ staging' \in [Threads -> [Names -> Trees]] /\ saved' \in [Threads -> [Names -> Trees]]
        /\ \A u \in Threads, r \in Names : saved'[u][r] = NoTree
    BY <1>2, TreeTypes
  <2>3. QED
    BY <1>1, <1>2, <2>1, <2>2 DEF DataTypes
<1>5. ControlTypes'
  <2>1. losses' \in 0 .. MaxLosses
    BY <1>1, <1>2, BoundsAssumption DEF ControlTypes
  <2>2. QED
    BY <1>1, <1>2, <1>3, <2>1 DEF ControlTypes
<1>6. Turns'
  BY <1>2 DEF Turns
<1>7. \A j \in 1 .. Len(Roots) : Kept(root[Roots[j]], Roots[j])'
  <2>1. TAKE j \in 1 .. Len(Roots)
  <2> DEFINE r == Roots[j]
  <2>2. Kept(IF j <= Replaced(t) THEN saved[t][r] ELSE root[r], r) /\ r \in Names
    BY <1>1, RootNames DEF Walk
  <2>3. CASE j <= Replaced(t)
    <3>1. Replaced(t) # 0
      BY <2>3
    <3>2. cut'
      BY <1>1, <1>2, <3>1 DEF Walk, Replaced
    <3>3. CASE saved[t][r].settings = agreed[r]
      <4>1. saved[t][r] # NoTree
        BY <1>1, <2>2, <3>3, TreeTypes DEF DataTypes
      <4>2. <<r, saved[t][r]>> \in Leftovers
        <5> DEFINE own(u, q) == {<<q, tree>> : tree \in {staging[u][q], saved[u][q]} \ {NoTree}}
        <5>1. <<r, saved[t][r]>> \in own(t, r)
          BY <4>1
        <5>2. own(t, r) \in {own(u, q) : u \in Threads, q \in Names}
          BY <2>2
        <5>3. Leftovers = UNION {own(u, q) : u \in Threads, q \in Names}
          BY DEF Leftovers
        <5> HIDE DEF own
        <5>4. QED
          BY <5>1, <5>2, <5>3
      <4>3. <<r, saved[t][r]>> \in left'
        BY <1>2, <4>2
      <4>4. <<r, saved[t][r]>>[1] = r /\ <<r, saved[t][r]>>[2].settings = agreed'[r]
        BY <1>2, <3>3
      <4>5. QED
        BY <1>2, <3>2, <4>3, <4>4 DEF Kept
    <3>4. CASE \E l \in left : l[1] = r /\ l[2].settings = agreed[r]
      BY <1>2, <3>2, <3>4 DEF Kept
    <3>5. QED
      BY <2>2, <2>3, <3>3, <3>4 DEF Kept
  <2>4. CASE ~(j <= Replaced(t))
    <3>1. Kept(root[r], r)
      BY <2>2, <2>4
    <3>2. QED
      BY <1>2, <3>1 DEF Kept
  <2>5. QED
    BY <2>3, <2>4
<1>8. Walk(t)'
  BY <1>3, <1>7 DEF Walk, Replaced
<1>9. QED
  BY <1>4, <1>5, <1>6, <1>8 DEF Inv

LEMMA NextInv ==
  ASSUME WholeUploads, Inv, NEW t, Threads = {t}, t # 0, [Next]_vars
  PROVE  Inv'
<1>1. CASE Boot
  BY <1>1, BootInv
<1>2. CASE PowerFails
  BY <1>2, PowerFailsInv
<1>3. CASE MarkAccepted \/ UNCHANGED vars
  <2>1. UNCHANGED <<root, restore, prep, phase, firmware, losses, faults>>
    BY <1>3 DEF MarkAccepted, vars
  <2>2. QED
    BY <2>1 DEF restore, Inv, DataTypes, ControlTypes, Turns, Walk, Replaced, Kept
<1>4. CASE Migrate
  BY <1>4, MigrateInv
<1>5. CASE Restore(t)
  BY <1>5, BeforeInv, MoveOutInv, MoveInInv, ActivateInv, UndoInv, EndInv DEF Restore
<1>6. QED
  BY <1>1, <1>2, <1>3, <1>4, <1>5 DEF Next

-----------------------------------------------------------------------------
(* The backups of the migration.                                           *)

Backup == [complete : BOOLEAN, accepted : BOOLEAN, source : Nat, target : Nat, settings : Texts]

BackupTypes ==
  /\ backups \in Seq(Backup)
  /\ \A i \in DOMAIN backups : backups[i].accepted => backups[i].complete
  /\ prep.at = "publish" => backups # <<>> /\ ~backups[1].complete

LEMMA AllButOne ==
  ASSUME NEW n \in Nat, NEW x
  PROVE  Cardinality((1 .. n) \ {x}) \in Nat /\ Cardinality((1 .. n) \ {x}) >= n - 1
<1>1. IsFiniteSet(1 .. n) /\ Cardinality(1 .. n) = n
  BY FS_Interval
<1> DEFINE all == 1 .. n
           but == all \ {x}
<1>2. IsFiniteSet(all) /\ Cardinality(all) = n
  BY <1>1
<1>3. IsFiniteSet(but) /\ Cardinality(but) = IF x \in all THEN Cardinality(all) - 1 ELSE Cardinality(all)
  <2> HIDE DEF all
  <2>1. QED
    BY <1>2, FS_RemoveElement
<1>4. Cardinality(but) \in Nat
  <2> HIDE DEF but
  <2>1. QED
    BY <1>3, FS_CardinalityType
<1>5. Cardinality(but) >= n - 1
  <2> HIDE DEF but, all
  <2>1. QED
    BY <1>2, <1>3, <1>4
<1>6. QED
  BY <1>4, <1>5

(***************************************************************************)
(* Pruning selects among the backups, an accepted one stays, and so does   *)
(* the last one if there is room for two.                                  *)
(***************************************************************************)
Prunes(p, s, S) ==
  /\ p \in Seq(S)
  /\ \A k \in DOMAIN p : \E i \in DOMAIN s : p[k] = s[i]
  /\ (\E i \in DOMAIN s : s[i].accepted) => \E k \in DOMAIN p : p[k].accepted
  /\ s # <<>> /\ MaxBackups >= 2 => \E k \in DOMAIN p : p[k] = s[Len(s)]

LEMMA PrunedEffect ==
  ASSUME NEW S, NEW s \in Seq(S)
  PROVE  Prunes(Pruned(s), s, S)
<1> DEFINE accepted == {i \in DOMAIN s : s[i].accepted}
           protected == IF accepted = {} THEN 0 ELSE CHOOSE i \in accepted : \A j \in accepted : j <= i
           others == {i \in DOMAIN s : i # protected}
           surplus == Len(s) - MaxBackups
           goes(i) == i # protected /\ Cardinality({j \in others : j <= i}) <= surplus
           K == {i \in DOMAIN s : ~goes(i)}
<1>1. K \subseteq 1 .. Len(s)
  OBVIOUS
<1>2. Pruned(s) = IF surplus <= 0 THEN s ELSE Picked(s, K)
  BY DEF Pruned, Picked
<1>3. Len(s) \in Nat /\ DOMAIN s = 1 .. Len(s) /\ MaxBackups \in Nat
  BY BoundsAssumption
<1>4. accepted # {} => protected \in accepted
  <2>1. accepted \subseteq 1 .. Len(s)
    OBVIOUS
  <2>2. accepted # {} => \E m \in accepted : \A x \in accepted : x <= m
    BY <1>3, <2>1, GreatestNat
  <2>3. QED
    BY <2>2
<1>5. s # <<>> /\ MaxBackups >= 2 /\ ~(surplus <= 0) => Len(s) \in K
  <2>1. SUFFICES ASSUME s # <<>>, MaxBackups >= 2, goes(Len(s)) PROVE FALSE
    BY <1>3
  <2>2. {j \in others : j <= Len(s)} = (1 .. Len(s)) \ {protected}
    BY <1>3
  <2>3. IsFiniteSet(1 .. Len(s)) /\ Cardinality(1 .. Len(s)) = Len(s)
    BY <1>3, FS_Interval
  <2>4. Cardinality((1 .. Len(s)) \ {protected}) \in Nat
        /\ Cardinality((1 .. Len(s)) \ {protected}) >= Len(s) - 1
    <3> HIDE DEF protected
    <3>1. QED
      BY <1>3, AllButOne
  <2>5. Cardinality((1 .. Len(s)) \ {protected}) <= Len(s) - MaxBackups
    BY <2>1, <2>2
  <2>6. QED
    <3> HIDE DEF protected
    <3>1. QED
      BY <1>3, <2>1, <2>4, <2>5
<1>6. (\E i \in DOMAIN s : s[i].accepted) => \E i \in K : s[i].accepted
  <2>1. SUFFICES ASSUME accepted # {} PROVE \E i \in K : s[i].accepted
    OBVIOUS
  <2>2. protected \in DOMAIN s /\ s[protected].accepted
    BY <1>4, <2>1
  <2>3. ~goes(protected)
    OBVIOUS
  <2>4. QED
    BY <2>2, <2>3
<1> HIDE DEF K
<1>7. CASE surplus <= 0
  <2>1. Pruned(s) = s
    BY <1>2, <1>7
  <2>2. s # <<>> => Len(s) \in DOMAIN s
    BY <1>3
  <2>3. QED
    BY <2>1, <2>2 DEF Prunes
<1>8. CASE ~(surplus <= 0)
  <2>1. Pruned(s) = Picked(s, K)
    BY <1>2, <1>8
  <2>2. Selects(Picked(s, K), s, S, K)
    BY <1>1, PickedElements
  <2>3. Selects(Pruned(s), s, S, K)
    BY <2>1, <2>2
  <2>4. QED
    BY <1>1, <1>3, <1>5, <1>6, <1>8, <2>3 DEF Selects, Prunes
<1>9. QED
  BY <1>7, <1>8

Joins(n, s, e, S) ==
  /\ n \in Seq(S) /\ n # <<>>
  /\ \A k \in DOMAIN n : n[k] = e \/ \E j \in DOMAIN s : n[k] = s[j]
  /\ \A j \in DOMAIN s : \E k \in DOMAIN n : n[k] = s[j]

LEMMA Inserted ==
  ASSUME NEW S, NEW s \in Seq(S), NEW e \in S, NEW i \in 1 .. Len(s) + 1
  PROVE  /\ Joins(InsertAt(s, i, e), s, e, S)
         /\ i = Len(s) + 1 => InsertAt(s, i, e)[Len(InsertAt(s, i, e))] = e
<1> DEFINE a == SubSeq(s, 1, i - 1)
           b == SubSeq(s, i, Len(s))
           n == InsertAt(s, i, e)
<1>1. a \in Seq(S) /\ Len(a) = i - 1 /\ \A k \in 1 .. i - 1 : a[k] = s[k]
  OBVIOUS
<1>2. b \in Seq(S) /\ Len(b) = Len(s) - i + 1 /\ \A k \in 1 .. Len(s) - i + 1 : b[k] = s[k + i - 1]
  OBVIOUS
<1>3. n = a \o <<e>> \o b
  BY DEF InsertAt
<1> HIDE DEF a, b, n
<1>4. a \o <<e>> \in Seq(S) /\ Len(a \o <<e>>) = i
      /\ (a \o <<e>>)[i] = e /\ \A k \in 1 .. i - 1 : (a \o <<e>>)[k] = s[k]
  BY <1>1
<1>5. /\ n \in Seq(S) /\ Len(n) = Len(s) + 1
      /\ \A k \in 1 .. i : n[k] = (a \o <<e>>)[k]
      /\ \A k \in i + 1 .. Len(s) + 1 : n[k] = b[k - i]
  <2> DEFINE front == a \o <<e>>
  <2>1. front \in Seq(S) /\ Len(front) = i /\ n = front \o b
    BY <1>3, <1>4
  <2> HIDE DEF front
  <2>2. n \in Seq(S) /\ Len(n) = Len(s) + 1
    <3>1. b \in Seq(S) /\ front \in Seq(S)
      BY <1>2, <2>1
    <3>2. front \o b \in Seq(S) /\ Len(front \o b) = Len(front) + Len(b)
      BY <3>1
    <3>3. i + (Len(s) - i + 1) = Len(s) + 1
      OBVIOUS
    <3>4. QED
      BY <1>2, <2>1, <3>2, <3>3
  <2>3. \A k \in 1 .. i : n[k] = front[k]
    BY <1>2, <2>1
  <2>4. \A k \in i + 1 .. Len(s) + 1 : n[k] = b[k - i]
    BY <1>2, <2>1
  <2>5. QED
    BY <2>2, <2>3, <2>4 DEF front
<1>6. \A k \in i + 1 .. Len(s) + 1 : k - i \in 1 .. Len(s) - i + 1 /\ k - 1 \in 1 .. Len(s)
                                     /\ (k - i) + i - 1 = k - 1
  OBVIOUS
<1>7. \A k \in i + 1 .. Len(s) + 1 : n[k] = s[k - 1]
  BY <1>2, <1>5, <1>6
<1>8. \A k \in 1 .. Len(s) + 1 : k # i => \E j \in 1 .. Len(s) : n[k] = s[j]
  <2>1. TAKE k \in 1 .. Len(s) + 1
  <2>2. CASE k < i
    <3>1. k \in 1 .. i /\ k \in 1 .. i - 1 /\ k \in 1 .. Len(s)
      BY <2>2
    <3>2. n[k] = s[k]
      BY <1>4, <1>5, <3>1
    <3>3. QED
      BY <3>1, <3>2
  <2>3. CASE k > i
    <3>1. k \in i + 1 .. Len(s) + 1
      BY <2>3
    <3>2. n[k] = s[k - 1] /\ k - 1 \in 1 .. Len(s)
      BY <1>6, <1>7, <3>1
    <3>3. QED
      BY <3>2
  <2>4. QED
    BY <2>2, <2>3
<1>9. \A j \in 1 .. Len(s) : \E k \in 1 .. Len(s) + 1 : n[k] = s[j]
  <2>1. TAKE j \in 1 .. Len(s)
  <2>2. CASE j < i
    <3>1. j \in 1 .. i /\ j \in 1 .. i - 1 /\ j \in 1 .. Len(s) + 1
      BY <2>2
    <3>2. n[j] = s[j]
      BY <1>4, <1>5, <3>1
    <3>3. QED
      BY <3>1, <3>2
  <2>3. CASE ~(j < i)
    <3>1. j + 1 \in i + 1 .. Len(s) + 1 /\ (j + 1) - 1 = j /\ j + 1 \in 1 .. Len(s) + 1
      BY <2>3
    <3>2. n[j + 1] = s[j]
      BY <1>7, <3>1
    <3>3. QED
      BY <3>1, <3>2
  <2>4. QED
    BY <2>2, <2>3
<1>10. n[i] = e
  BY <1>4, <1>5
<1>11. DOMAIN n = 1 .. Len(s) + 1 /\ DOMAIN s = 1 .. Len(s) /\ Len(s) \in Nat
  BY <1>5
<1>12. n # <<>>
  BY <1>5, <1>11
<1>13. Joins(n, s, e, S)
  BY <1>5, <1>8, <1>9, <1>10, <1>11, <1>12 DEF Joins
<1>14. i = Len(s) + 1 => n[Len(n)] = e
  BY <1>5, <1>10
<1>15. QED
  BY <1>13, <1>14 DEF n

(***************************************************************************)
(* There is a copy of the data as long as the migration needs it.  It is   *)
(* the first of the backups until it gets its name, and it is not accepted *)
(* because it does not fit the schema before the migration commits.        *)
(***************************************************************************)
IsCopy(b) == b.source = Schema /\ b.settings = root["radio"].settings /\ ~b.accepted

Copied ==
  \E i \in DOMAIN backups :
    IsCopy(backups[i]) /\ backups[i].complete /\ backups[i].target = Current[firmware]

Copies ==
  /\ prep.at \in {"copy", "publish", "compat", "schema"} => Schema < Current[firmware]
  /\ prep.at = "publish" => IsCopy(backups[1])
  /\ prep.at \in {"compat", "schema"} => Copied

LEMMA InitBackups == Init => BackupTypes /\ Copies
<1>1. SUFFICES ASSUME Init PROVE BackupTypes /\ Copies
  OBVIOUS
<1>2. backups = <<>> /\ prep = [at |-> "idle", for |-> 0]
  BY <1>1 DEF Init
<1>3. prep.at = "idle"
  BY <1>2
<1>4. QED
  BY <1>2, <1>3 DEF BackupTypes, Copies

\* What a step that leaves the backups alone may do to the rest.
LEMMA BackupsStay ==
  ASSUME BackupTypes, UNCHANGED backups,
         \/ prep'.at \in {"idle", "check"}
         \/ prep'.at = "copy" /\ Schema' < Current[firmware]'
         \/ /\ prep'.at = prep.at \/ (prep.at = "compat" /\ prep'.at = "schema")
            /\ Schema' = Schema /\ root'["radio"].settings = root["radio"].settings
            /\ UNCHANGED firmware
  PROVE  BackupTypes' /\ (Copies => Copies') /\ AcceptedStays
<1>1. CASE prep'.at \in {"idle", "check"}
  BY <1>1 DEF BackupTypes, Copies, Backup, AcceptedStays
<1>2. CASE prep'.at = "copy" /\ Schema' < Current[firmware]'
  BY <1>2 DEF BackupTypes, Copies, Backup, AcceptedStays
<1>3. CASE /\ prep'.at = prep.at \/ (prep.at = "compat" /\ prep'.at = "schema")
           /\ Schema' = Schema /\ root'["radio"].settings = root["radio"].settings
           /\ UNCHANGED firmware
  <2>1. \A b : IsCopy(b) => IsCopy(b)'
    BY <1>3 DEF IsCopy
  <2>2. Copied => Copied'
    BY <1>3, <2>1 DEF Copied
  <2>3. BackupTypes'
    BY <1>3 DEF BackupTypes, Backup
  <2>4. Copies => Copies'
    BY <1>3, <2>1, <2>2 DEF Copies
  <2>5. AcceptedStays
    BY DEF AcceptedStays
  <2>6. QED
    BY <2>3, <2>4, <2>5
<1>4. QED
  BY <1>1, <1>2, <1>3

LEMMA CopyAdded ==
  ASSUME Inv, BackupTypes, MigrateCopies
  PROVE  BackupTypes' /\ (Copies => Copies') /\ AcceptedStays
<1> DEFINE own == [complete |-> FALSE, accepted |-> FALSE, source |-> Schema, target |-> 0,
                   settings |-> root["radio"].settings]
<1>1. own \in Backup
  BY RootNames DEF Inv, DataTypes, Trees, Backup, Schema
<1>2. backups' = <<own>> \o backups /\ backups \in Seq(Backup)
  BY DEF MigrateCopies, BackupTypes
<1> HIDE DEF own
<1>3. /\ backups' \in Seq(Backup) /\ Len(backups') = Len(backups) + 1 /\ Len(backups) \in Nat
      /\ backups'[1] = own /\ \A k \in 2 .. Len(backups) + 1 : backups'[k] = backups[k - 1]
  BY <1>1, <1>2
<1>4. ~own.complete /\ ~own.accepted /\ own.source = Schema
      /\ own.settings = root["radio"].settings
  BY DEF own
<1>5. \A k \in DOMAIN backups' : backups'[k] = own \/ \E i \in DOMAIN backups : backups'[k] = backups[i]
  BY <1>3
<1>6. \A i \in DOMAIN backups : \E k \in DOMAIN backups' : backups'[k] = backups[i]
  <2>1. TAKE i \in DOMAIN backups
  <2>2. i + 1 \in 2 .. Len(backups) + 1 /\ (i + 1) - 1 = i /\ i + 1 \in DOMAIN backups'
    BY <1>3
  <2>3. QED
    BY <1>3, <2>2
<1>7. backups' # <<>>
  BY <1>3
<1>8. BackupTypes'
  <2>1. /\ backups' \in Seq(Backup)
        /\ \A i \in DOMAIN backups' : backups'[i].accepted => backups'[i].complete
        /\ backups' # <<>> /\ ~backups'[1].complete
    BY <1>3, <1>4, <1>5, <1>7 DEF BackupTypes
  <2>2. QED
    BY <2>1 DEF BackupTypes, Backup
<1>9. ASSUME Copies PROVE Copies'
  <2>1. prep'.at = "publish" /\ Schema' = Schema /\ UNCHANGED <<root, firmware>> /\ Schema < Current[firmware]
    BY <1>9 DEF MigrateCopies, Copies, Schema, Inv, ControlTypes
  <2>2. IsCopy(backups[1])'
    BY <1>3, <1>4, <2>1 DEF IsCopy
  <2>3. QED
    BY <2>1, <2>2 DEF Copies
<1>10. AcceptedStays
  BY <1>6 DEF AcceptedStays
<1>11. QED
  BY <1>8, <1>9, <1>10

LEMMA CopyPublished ==
  ASSUME Inv, BackupTypes, MigratePublishes
  PROVE  /\ BackupTypes' /\ AcceptedStays
         /\ Copies /\ ClockSet /\ MaxBackups >= 2 => Copies'
<1> DEFINE own == [backups[1] EXCEPT !.complete = TRUE, !.target = Current[firmware]]
           old == Tail(backups)
<1>1. backups \in Seq(Backup) /\ backups # <<>> /\ ~backups[1].complete /\ ~backups[1].accepted
      /\ (Copies => backups[1].source = Schema /\ backups[1].settings = root["radio"].settings)
  BY DEF MigratePublishes, BackupTypes, Copies, IsCopy
<1>2. Current[firmware] \in Nat
  BY ContractAssumption DEF Inv, ControlTypes
<1>3. own \in Backup /\ own.complete /\ ~own.accepted /\ own.target = Current[firmware]
      /\ (Copies => own.source = Schema /\ own.settings = root["radio"].settings)
  <2>1. \A b \in Backup, m \in Nat :
          LET n == [b EXCEPT !.complete = TRUE, !.target = m]
          IN  /\ n \in Backup /\ n.complete = TRUE /\ n.accepted = b.accepted
              /\ n.target = m /\ n.source = b.source /\ n.settings = b.settings
    BY DEF Backup
  <2>2. backups[1] \in Backup
    BY <1>1
  <2>3. QED
    BY <1>1, <1>2, <2>1, <2>2
<1>4. old \in Seq(Backup) /\ Len(old) = Len(backups) - 1 /\ Len(old) \in Nat
      /\ \A k \in DOMAIN old : k + 1 \in DOMAIN backups /\ old[k] = backups[k + 1]
  BY <1>1
<1>5. \A i \in DOMAIN backups : backups[i].accepted => \E k \in DOMAIN old : old[k] = backups[i]
  <2>1. SUFFICES ASSUME NEW i \in DOMAIN backups, backups[i].accepted
                 PROVE  \E k \in DOMAIN old : old[k] = backups[i]
    OBVIOUS
  <2>2. i # 1 /\ i \in 1 .. Len(backups)
    BY <1>1, <2>1
  <2>3. i - 1 \in 1 .. Len(old) /\ (i - 1) + 1 = i /\ DOMAIN old = 1 .. Len(old)
    BY <1>4, <2>2
  <2>4. QED
    BY <1>4, <2>3
<1>6. PICK i \in 1 .. Len(old) + 1 :
             (ClockSet => i = Len(old) + 1) /\ backups' = Pruned(InsertAt(old, i, own))
  <2> DEFINE from == Cardinality({k \in DOMAIN old : ~old[k].complete})
  <2>1. from \in Nat
    <3>1. {k \in DOMAIN old : ~old[k].complete} \subseteq 1 .. Len(old)
      BY <1>4
    <3>2. QED
      BY <1>4, <3>1, Ranks
  <2>2. PICK i \in from + 1 .. Len(old) + 1 :
               (ClockSet => i = Len(old) + 1) /\ backups' = Pruned(InsertAt(old, i, own))
    BY DEF MigratePublishes
  <2> HIDE DEF from, old
  <2>3. i \in 1 .. Len(old) + 1
    BY <1>4, <2>1, <2>2
  <2>4. QED
    BY <2>2, <2>3
<1> DEFINE joined == InsertAt(old, i, own)
<1>7. backups' = Pruned(joined) /\ prep'.at = "compat" /\ UNCHANGED <<root, firmware>>
  BY <1>6 DEF MigratePublishes, Inv, ControlTypes
<1> HIDE DEF own, old
<1>8. Joins(joined, old, own, Backup) /\ (ClockSet => joined[Len(joined)] = own)
  BY <1>3, <1>4, <1>6, Inserted
<1> HIDE DEF joined
<1>9. joined \in Seq(Backup) /\ joined # <<>>
  BY <1>8 DEF Joins
<1>10. Prunes(backups', joined, Backup)
  BY <1>7, <1>9, PrunedEffect
<1>11. \A k \in DOMAIN joined : joined[k].accepted => joined[k].complete
  <2>1. \A k \in DOMAIN old : old[k].accepted => old[k].complete
    BY <1>4 DEF BackupTypes
  <2>2. QED
    BY <1>3, <1>8, <2>1 DEF Joins
<1>12. BackupTypes'
  <2>1. /\ backups' \in Seq(Backup)
        /\ \A k \in DOMAIN backups' : backups'[k].accepted => backups'[k].complete
    BY <1>10, <1>11 DEF Prunes
  <2>2. QED
    BY <1>7, <2>1 DEF BackupTypes, Backup
<1>13. ASSUME Copies, ClockSet, MaxBackups >= 2 PROVE Copies'
  <2>1. \E k \in DOMAIN backups' : backups'[k] = own
    BY <1>8, <1>9, <1>10, <1>13 DEF Prunes
  <2>2. Copied'
    BY <1>3, <1>7, <1>13, <2>1 DEF Copied, IsCopy, Schema
  <2>3. Schema' < Current[firmware]'
    BY <1>7, <1>13 DEF Copies, MigratePublishes, Schema
  <2>4. QED
    BY <1>7, <2>2, <2>3 DEF Copies
<1>14. AcceptedStays
  <2>1. (\E k \in DOMAIN backups : backups[k].accepted) => \E k \in DOMAIN joined : joined[k].accepted
    BY <1>5, <1>8 DEF Joins
  <2>2. QED
    BY <1>10, <2>1 DEF AcceptedStays, Prunes
<1>15. QED
  BY <1>12, <1>13, <1>14

(***************************************************************************)
(* The marked generation is among the two last accepted ones; what expires *)
(* is accepted, so neither a copy under way nor one just published does.   *)
(***************************************************************************)
LEMMA GenerationAccepted ==
  ASSUME Inv, BackupTypes, MarkAccepted
  PROVE  BackupTypes' /\ (Copies => Copies') /\ AcceptedStays
<1> DEFINE fitting == {i \in DOMAIN backups : backups[i].complete /\ backups[i].target = Schema}
           last == CHOOSE i \in fitting : \A j \in fitting : j <= i
           marked == [backups EXCEPT ![last].accepted = TRUE]
           accepted == {i \in DOMAIN marked : marked[i].accepted}
           expired == {i \in accepted : Cardinality({j \in accepted : j >= i}) > 2}
           K == DOMAIN marked \ expired
<1>1. backups \in Seq(Backup) /\ Len(backups) \in Nat /\ DOMAIN backups = 1 .. Len(backups)
  BY DEF BackupTypes
<1>2. last \in fitting
  <2>1. fitting # {} /\ fitting \subseteq 1 .. Len(backups)
    BY <1>1 DEF MarkAccepted
  <2> HIDE DEF fitting
  <2>2. \E m \in fitting : \A x \in fitting : x <= m
    BY <1>1, <2>1, GreatestNat
  <2>3. QED
    BY <2>2
<1>3. last \in DOMAIN backups /\ backups[last].complete /\ backups[last].target = Schema
  BY <1>2
<1>4. /\ backups' = [k \in 1 .. Len(marked) - Cardinality(expired) |->
                       marked[CHOOSE i \in K : Cardinality({j \in K : j <= i}) = k]]
      /\ UNCHANGED <<root, prep, firmware>>
  BY DEF MarkAccepted
<1> HIDE DEF last
<1>5. /\ marked \in Seq(Backup) /\ Len(marked) = Len(backups) /\ DOMAIN marked = DOMAIN backups
      /\ \A i \in DOMAIN backups : i # last => marked[i] = backups[i]
      /\ marked[last].accepted /\ marked[last].complete
  <2>1. \A b \in Backup : LET n == [b EXCEPT !.accepted = TRUE]
                          IN  n \in Backup /\ n.accepted = TRUE /\ n.complete = b.complete
    BY DEF Backup
  <2>2. backups[last] \in Backup
    BY <1>1, <1>3
  <2> DEFINE n == [backups[last] EXCEPT !.accepted = TRUE]
  <2>3. n \in Backup /\ n.accepted = TRUE /\ n.complete
    BY <1>3, <2>1, <2>2
  <2>4. marked = [backups EXCEPT ![last] = n]
    OBVIOUS
  <2> HIDE DEF n, K, expired, accepted, marked, fitting
  <2>5. QED
    BY <1>1, <1>3, <2>3, <2>4
<1> HIDE DEF marked
<1>6. accepted \subseteq 1 .. Len(backups) /\ last \in accepted
  BY <1>1, <1>3, <1>5
<1>7. \E m \in accepted : m \notin expired
  <2>1. \E m \in accepted : \A x \in accepted : x <= m
    <3> HIDE DEF accepted
    <3>1. QED
      BY <1>1, <1>6, GreatestNat
  <2>2. PICK m \in accepted : \A x \in accepted : x <= m
    BY <2>1
  <2>3. {j \in accepted : j >= m} = {m}
    BY <1>6, <2>2
  <2>4. Cardinality({j \in accepted : j >= m}) = 1
    BY <2>3, FS_Singleton
  <2>5. m \notin expired
    BY <2>4
  <2>6. QED
    BY <2>2, <2>5
<1> HIDE DEF accepted
<1>8. K \subseteq 1 .. Len(marked) /\ expired \subseteq accepted
  BY <1>1, <1>5
<1> HIDE DEF expired
<1>9. Cardinality(K) = Len(marked) - Cardinality(expired)
  <2>1. IsFiniteSet(1 .. Len(marked)) /\ Cardinality(1 .. Len(marked)) = Len(marked)
    <3>1. \A n \in Nat : IsFiniteSet(1 .. n) /\ Cardinality(1 .. n) = n
      BY FS_Interval
    <3>2. Len(marked) \in Nat
      BY <1>1, <1>5
    <3>3. QED
      BY <3>1, <3>2
  <2>2. DOMAIN marked \cap expired = expired /\ DOMAIN marked = 1 .. Len(marked)
    BY <1>1, <1>5, <1>6, <1>8
  <2>3. Cardinality(DOMAIN marked \ expired) = Cardinality(DOMAIN marked) - Cardinality(DOMAIN marked \cap expired)
    BY <2>1, <2>2, FS_Difference
  <2>4. QED
    BY <2>1, <2>2, <2>3
<1>10. \A i \in DOMAIN backups : i \notin K => i \in accepted
  BY <1>5, <1>8
<1>11. \E m \in K : marked[m].accepted
  BY <1>5, <1>6, <1>7 DEF accepted
<1> HIDE DEF K
<1>12. Selects(backups', marked, Backup, K)
  <2>1. backups' = Picked(marked, K)
    BY <1>4, <1>9 DEF Picked
  <2>2. QED
    BY <1>5, <1>8, <2>1, PickedElements
<1>13. \A i \in DOMAIN marked : marked[i].accepted => marked[i].complete
  BY <1>5 DEF BackupTypes
\* A generation that is not marked and not accepted stays as it is.
<1>14. ASSUME NEW i \in DOMAIN backups, ~backups[i].accepted, i # last
       PROVE  i \in K /\ marked[i] = backups[i]
  <2>1. marked[i] = backups[i]
    BY <1>5, <1>14
  <2>2. i \notin accepted
    BY <1>14, <2>1 DEF accepted
  <2>3. QED
    BY <1>10, <2>1, <2>2
<1>15. AcceptedStays
  BY <1>11, <1>12 DEF AcceptedStays, Selects
<1>16. /\ backups' \in Seq(Backup)
       /\ \A i \in DOMAIN backups' : backups'[i].accepted => backups'[i].complete
  BY <1>1, <1>5, <1>8, <1>12, <1>13 DEF Selects
<1>17. prep.at = "publish" => 1 \in DOMAIN backups /\ 1 # last /\ ~backups[1].accepted
  BY <1>1, <1>3 DEF BackupTypes
<1>18. prep.at = "publish" => backups' # <<>> /\ backups'[1] = backups[1]
  BY <1>12, <1>14, <1>17 DEF Selects
<1>19. BackupTypes'
  <2>1. prep'.at = "publish" => backups' # <<>> /\ ~backups'[1].complete
    BY <1>4, <1>18 DEF BackupTypes
  <2>2. QED
    BY <1>16, <2>1 DEF BackupTypes, Backup
<1>20. Schema' = Schema /\ root' = root /\ firmware' = firmware /\ prep' = prep
  BY <1>4 DEF Schema
<1>21. \A b : IsCopy(b) => IsCopy(b)'
  BY <1>20 DEF IsCopy
<1>22. Copies /\ prep.at \in {"compat", "schema"} => Copied'
  <2>1. SUFFICES ASSUME Copies, prep.at \in {"compat", "schema"} PROVE Copied'
    OBVIOUS
  <2>2. Schema < Current[firmware]
    BY <2>1 DEF Copies
  <2>3. PICK i \in DOMAIN backups :
               IsCopy(backups[i]) /\ backups[i].complete /\ backups[i].target = Current[firmware]
    BY <2>1 DEF Copies, Copied
  <2>4. Schema \in Nat
    BY RootNames DEF Inv, DataTypes, Trees, Schema
  <2>5. i # last
    BY <1>3, <2>2, <2>3, <2>4
  <2>6. i \in K /\ marked[i] = backups[i]
    BY <1>14, <2>3, <2>5 DEF IsCopy
  <2>7. \E k \in DOMAIN backups' : backups'[k] = backups[i]
    BY <1>12, <2>6 DEF Selects
  <2>8. QED
    BY <1>20, <1>21, <2>3, <2>7 DEF Copied
<1>23. ASSUME Copies PROVE Copies'
  <2>1. prep.at = "publish" => IsCopy(backups[1])'
    BY <1>18, <1>21, <1>23 DEF Copies
  <2>2. QED
    BY <1>20, <1>22, <1>23, <2>1 DEF Copies
<1>24. QED
  BY <1>15, <1>19, <1>23

LEMMA NextBackups ==
  ASSUME Inv, BackupTypes, NEW t, Threads = {t}, [Next]_vars
  PROVE  /\ BackupTypes' /\ AcceptedStays
         /\ Copies /\ ClockSet /\ MaxBackups >= 2 => Copies'
<1>1. CASE Boot
  <2>1. UNCHANGED backups /\ prep'.at = "check"
    BY <1>1 DEF Boot
  <2>2. QED
    BY <2>1, BackupsStay
<1>2. CASE PowerFails
  <2>1. UNCHANGED backups /\ prep'.at = "idle"
    BY <1>2 DEF PowerFails
  <2>2. QED
    BY <2>1, BackupsStay
<1>3. CASE MarkAccepted
  BY <1>3, GenerationAccepted
<1>4. CASE MigrateChecks
  <2>1. UNCHANGED <<backups, firmware>>
    BY <1>4 DEF MigrateChecks
  <2>2. \/ prep'.at = "idle"
        \/ prep'.at = "copy" /\ Schema' < Current[firmware]'
    BY <1>4 DEF MigrateChecks, Returns, Schema, Inv, ControlTypes
  <2>3. QED
    BY <2>1, <2>2, BackupsStay
<1>5. CASE MigrateCopies
  BY <1>5, CopyAdded
<1>6. CASE MigratePublishes
  BY <1>6, CopyPublished
<1>7. CASE MigrateWritesCompat
  <2>1. UNCHANGED <<backups, firmware>> /\ prep.at = "compat" /\ prep'.at = "schema"
    BY <1>7 DEF MigrateWritesCompat, Inv, ControlTypes
  <2>2. Schema' = Schema /\ root'["radio"].settings = root["radio"].settings
    BY <1>7, RootNames DEF MigrateWritesCompat, Schema, Inv, DataTypes, Trees
  <2>3. QED
    BY <2>1, <2>2, BackupsStay
<1>8. CASE MigrateCommits
  <2>1. UNCHANGED backups /\ prep'.at = "idle"
    BY <1>8 DEF MigrateCommits, Returns
  <2>2. QED
    BY <2>1, BackupsStay
<1>9. CASE Restore(t)
  <2>1. UNCHANGED backups
    BY <1>9 DEF Restore, Stage, Inspect, Validate, Extract, MoveOut, MoveIn, Prepare, Render,
                UndoOut, UndoIn, Undone, Finish, Ends
  <2>2. prep'.at \in {"idle", "check"}
    <3>1. prep.at = "idle"
      BY <1>9 DEF Restore, Stage, Inspect, Validate, Extract, MoveOut, MoveIn, Prepare, Render,
                  UndoOut, UndoIn, Undone, Finish, Step, Inv, Turns, Idle
    <3>2. QED
      BY <1>9, <3>1 DEF Restore, Stage, Inspect, Validate, Extract, MoveOut, MoveIn, Prepare,
                        Render, UndoOut, UndoIn, Undone, Finish, Ends
  <2>3. QED
    BY <2>1, <2>2, BackupsStay
<1>10. CASE UNCHANGED vars
  <2>1. UNCHANGED backups
    BY <1>10 DEF vars
  <2>2. /\ prep'.at = prep.at \/ (prep.at = "compat" /\ prep'.at = "schema")
        /\ Schema' = Schema /\ root'["radio"].settings = root["radio"].settings
        /\ UNCHANGED firmware
    BY <1>10 DEF Schema, vars
  <2>3. BackupTypes' /\ (Copies => Copies') /\ AcceptedStays
    BY <2>1, <2>2, BackupsStay
  <2>4. QED
    BY <2>3
<1>11. QED
  BY <1>1, <1>2, <1>3, <1>4, <1>5, <1>6, <1>7, <1>8, <1>9, <1>10 DEF Next, Migrate

(***************************************************************************)
(* A restore replaces all roots or none, for any archives that validation  *)
(* lets pass, and whatever fails in between.                               *)
(***************************************************************************)
THEOREM RestoreAllOrNothing ==
  ASSUME WholeUploads, NEW t, Threads = {t}, t # 0
  PROVE  Spec => []AllOrNothing
<1>1. Init => Inv /\ BackupTypes
  BY InitInv, InitBackups
<1>2. Inv /\ BackupTypes /\ [Next]_vars => (Inv /\ BackupTypes)'
  BY NextInv, NextBackups
<1>3. ASSUME Inv, BackupTypes PROVE AllOrNothing
  <2>1. TypeOK
    BY <1>3 DEF Inv, DataTypes, ControlTypes, Places, BackupTypes, TypeOK
  <2>2. ASSUME Untouched, ~cut, NEW r \in Names PROVE root[r].settings = agreed[r]
    <3>1. req[t].at = "idle" /\ req[t].i = 0 /\ Walk(t)
      BY <1>3, <2>2 DEF Untouched, Inv, Walk
    <3>2. PICK j \in 1 .. Len(Roots) : Roots[j] = r
      BY RootNames
    <3>3. ~(j <= Replaced(t))
      BY <3>1, <3>2, RootNames DEF Replaced
    <3>4. Kept(root[r], r)
      BY <3>1, <3>2, <3>3 DEF Walk
    <3>5. QED
      BY <2>2, <3>4 DEF Kept
  <2>3. QED
    BY <2>1, <2>2 DEF AllOrNothing
<1>4. QED
  BY <1>1, <1>2, <1>3, PTL DEF Spec

(***************************************************************************)
(* What a restore replaces stays in its place, in the rollback directory,  *)
(* or in what a loss of power left behind.                                 *)
(***************************************************************************)
THEOREM RestoreLosesNothing ==
  ASSUME WholeUploads, NEW t, Threads = {t}, t # 0
  PROVE  Spec => []NothingLost
<1>1. Init => Inv
  BY InitInv
<1>2. Inv /\ [Next]_vars => Inv'
  BY NextInv
<1>3. ASSUME Inv PROVE NothingLost
  <2>1. SUFFICES ASSUME NEW r \in Names
                 PROVE  \/ root[r].settings = agreed[r]
                        \/ \E u \in Threads : saved[u][r].settings = agreed[r]
                        \/ \E tree \in {l[2] : l \in {l \in left : l[1] = r}} :
                             tree.settings = agreed[r]
    BY DEF NothingLost
  <2>2. PICK j \in 1 .. Len(Roots) : Roots[j] = r
    BY RootNames
  <2>3. Kept(saved[t][r], r) \/ Kept(root[r], r)
    BY <1>3, <2>2 DEF Inv, Walk
  <2>4. QED
    BY <2>3 DEF Kept
<1>4. QED
  BY <1>1, <1>2, <1>3, PTL DEF Spec

(***************************************************************************)
(* A migration never writes without a complete backup of what it works on, *)
(* and no step leaves the radio without the accepted generation it had:    *)
(* the first needs names in the order of time and room for two.            *)
(***************************************************************************)
THEOREM BackupsAreKept ==
  ASSUME WholeUploads, NEW t, Threads = {t}, t # 0, ClockSet, MaxBackups >= 2
  PROVE  Spec => BackupsKept
<1>1. Init => Inv /\ BackupTypes /\ Copies
  BY InitInv, InitBackups
<1>2. Inv /\ BackupTypes /\ Copies /\ [Next]_vars
        => (Inv /\ BackupTypes /\ Copies)' /\ AcceptedStays
  BY NextInv, NextBackups
<1>3. Copies => MigratesWhatIsSaved
  BY DEF Copies, Copied, IsCopy, MigratesWhatIsSaved
<1>4. QED
  BY <1>1, <1>2, <1>3, PTL DEF Spec, BackupsKept

(***************************************************************************)
(* Whatever the clock says and however little is kept, an accepted         *)
(* generation stays.                                                       *)
(***************************************************************************)
THEOREM AcceptedKept ==
  ASSUME WholeUploads, NEW t, Threads = {t}, t # 0
  PROVE  Spec => [][AcceptedStays]_vars
<1>1. Init => Inv /\ BackupTypes
  BY InitInv, InitBackups
<1>2. Inv /\ BackupTypes /\ [Next]_vars => (Inv /\ BackupTypes)' /\ AcceptedStays
  BY NextInv, NextBackups
<1>3. QED
  BY <1>1, <1>2, PTL DEF Spec

=============================================================================
