---------------------- MODULE CheckpointServingProofs ----------------------
(***************************************************************************)
(* Proofs about what the model server answers as a verified action, for    *)
(* every lineage, every number of checkpoints, episodes and requests, and  *)
(* manifest files that are edited at any time, as long as they are true.   *)
(***************************************************************************)
EXTENDS CheckpointServing, FiniteSetTheorems, WellFoundedInduction, TLAPS
----------------------------------------------------------------------------
(* Induction over the natural numbers, by the least element of a set.      *)

\* A set of natural numbers has a least element.
LEMMA LeastNat ==
  ASSUME NEW T, T \subseteq Nat, T # {}
  PROVE  \E x \in T : \A y \in T : x <= y
<1>1. \A x, y \in Nat : x < y => <<x, y>> \in OpToRel(<, Nat)
  BY DEF OpToRel
<1>2. PICK x \in T : \A y \in T : ~(<<y, x>> \in OpToRel(<, Nat))
  BY NatLessThanWellFounded, WFMin, Zenon
<1>3. x \in Nat
  OBVIOUS
<1>4. ASSUME NEW y \in T PROVE x <= y
  <2>1. y \in Nat
    OBVIOUS
  <2>2. ~(y < x)
    BY <1>1, <1>2, <1>3, <2>1, Zenon
  <2>3. QED
    BY <1>3, <2>1, <2>2, SMT
<1>5. QED
  BY <1>4

\* A set that has 0 and every successor has them all.
LEMMA Induct ==
  ASSUME NEW T, T \subseteq Nat, 0 \in T, \A n \in T : n + 1 \in T
  PROVE  T = Nat
<1> SUFFICES ASSUME Nat \ T # {} PROVE FALSE
  OBVIOUS
<1> DEFINE C == Nat \ T
<1>1. PICK x \in C : \A y \in C : x <= y
  <2>1. C \subseteq Nat /\ C # {}
    OBVIOUS
  <2> HIDE DEF C
  <2>2. QED
    BY <2>1, LeastNat, Zenon
<1>2. x # 0 /\ x - 1 \in Nat /\ (x - 1) + 1 = x /\ ~(x <= x - 1)
  BY <1>1
<1>3. x - 1 \in T
  BY <1>1, <1>2
<1>4. QED
  BY <1>1, <1>2, <1>3

\* g is the course of the recursion up to n.
Course(X, a, G, n, g) ==
  /\ g \in [0..n -> X]
  /\ g[0] = a
  /\ \A k \in 0..n : k # 0 => g[k] = G[g[k - 1]]

LEMMA CourseExists ==
  ASSUME NEW X, NEW a \in X, NEW G \in [X -> X], NEW n \in Nat
  PROVE  \E g : Course(X, a, G, n, g)
<1> DEFINE T == {m \in Nat : \E g : Course(X, a, G, m, g)}
<1>1. 0 \in T
  <2>1. Course(X, a, G, 0, [k \in 0..0 |-> a])
    BY DEF Course
  <2>2. QED
    BY <2>1
<1>2. ASSUME NEW m \in T PROVE m + 1 \in T
  <2>1. PICK g : Course(X, a, G, m, g)
    OBVIOUS
  <2> DEFINE h == [k \in 0..(m + 1) |-> IF k = m + 1 THEN G[g[m]] ELSE g[k]]
  <2>2. m \in Nat /\ m \in 0..m /\ g \in [0..m -> X]
    BY <2>1 DEF Course
  <2>3. h \in [0..(m + 1) -> X]
    BY <2>2
  <2>4. h[0] = a
    BY <2>1, <2>2 DEF Course
  <2>5. ASSUME NEW k \in 0..(m + 1), k # 0 PROVE h[k] = G[h[k - 1]]
    <3>1. CASE k = m + 1
      BY <2>2, <3>1
    <3>2. CASE k # m + 1
      <4>1. k \in 0..m /\ k - 1 \in 0..m /\ k - 1 # m + 1
        BY <2>2, <2>5, <3>2
      <4>2. g[k] = G[g[k - 1]]
        BY <2>1, <2>5, <4>1 DEF Course
      <4>3. QED
        BY <2>2, <3>2, <4>1, <4>2
    <3>3. QED
      BY <3>1, <3>2
  <2> HIDE DEF h
  <2>6. Course(X, a, G, m + 1, h)
    BY <2>3, <2>4, <2>5 DEF Course
  <2>7. m + 1 \in Nat
    BY <2>2
  <2>8. QED
    BY <2>6, <2>7
<1>3. T \subseteq Nat
  OBVIOUS
<1> HIDE DEF T
<1>4. T = Nat
  BY <1>1, <1>2, <1>3, Induct, Zenon
<1>5. QED
  BY <1>4 DEF T

\* All courses are beginnings of one another.
LEMMA CoursesAgree ==
  ASSUME NEW X, NEW a, NEW G, NEW m \in Nat, NEW n \in Nat, m <= n,
         NEW g, Course(X, a, G, m, g), NEW h, Course(X, a, G, n, h)
  PROVE  \A k \in 0..m : g[k] = h[k]
<1> DEFINE D == {k \in 0..m : g[k] # h[k]}
<1> SUFFICES ASSUME D # {} PROVE FALSE
  OBVIOUS
<1>1. D \subseteq Nat
  OBVIOUS
<1>2. PICK k \in D : \A l \in D : k <= l
  <2> HIDE DEF D
  <2>1. QED
    BY <1>1, LeastNat, Zenon
<1>3. k # 0
  BY DEF Course
<1>4. k - 1 \in 0..m /\ k \in 0..m /\ k \in 0..n /\ ~(k <= k - 1)
  BY <1>3
<1>5. g[k - 1] = h[k - 1]
  BY <1>2, <1>4
<1>6. g[k] = G[g[k - 1]] /\ h[k] = G[h[k - 1]]
  BY <1>3, <1>4 DEF Course
<1>7. QED
  BY <1>5, <1>6

\* The equations of a recursion have a solution.
LEMMA PrimitiveRecursion ==
  ASSUME NEW X, NEW a \in X, NEW G \in [X -> X]
  PROVE  \E f \in [Nat -> X] : f[0] = a /\ \A n \in Nat : f[n + 1] = G[f[n]]
<1> DEFINE c(n) == CHOOSE g : Course(X, a, G, n, g)
           f == [n \in Nat |-> c(n)[n]]
<1>1. \A n \in Nat : Course(X, a, G, n, c(n))
  BY CourseExists
<1> HIDE DEF c
<1>2. f[0] = a
  BY <1>1 DEF Course
<1>3. ASSUME NEW n \in Nat PROVE f[n + 1] = G[f[n]]
  <2>1. n + 1 \in Nat /\ n + 1 \in 0..(n + 1) /\ n + 1 # 0 /\ (n + 1) - 1 = n /\ n <= n + 1
        /\ n \in 0..n
    OBVIOUS
  <2>2. Course(X, a, G, n, c(n)) /\ Course(X, a, G, n + 1, c(n + 1))
    BY <1>1, <2>1
  <2>3. c(n)[n] = c(n + 1)[n]
    BY <2>1, <2>2, CoursesAgree
  <2>4. c(n + 1)[n + 1] = G[c(n + 1)[n]]
    BY <2>1, <2>2 DEF Course
  <2>5. QED
    BY <2>1, <2>3, <2>4
<1>4. f \in [Nat -> X]
  <2>1. ASSUME NEW n \in Nat PROVE c(n)[n] \in X
    <3>1. n \in 0..n
      OBVIOUS
    <3>2. QED
      BY <1>1, <3>1 DEF Course
  <2>2. QED
    BY <2>1
<1>5. QED
  BY <1>2, <1>3, <1>4
----------------------------------------------------------------------------
(* Arithmetic of the pipeline.                                             *)

LEMMA MinPair ==
  ASSUME NEW a \in Int, NEW b \in Int
  PROVE  Min({a, b}) = IF a <= b THEN a ELSE b
BY DEF Min

LEMMA MaxPair ==
  ASSUME NEW a \in Int, NEW b \in Int
  PROVE  Max({a, b}) = IF a <= b THEN b ELSE a
BY DEF Max

LEMMA ClipIs ==
  ASSUME NEW value \in Int, NEW low \in Int, NEW high \in Int, low <= high
  PROVE  Clip(value, low, high) =
           IF value < low THEN low ELSE IF value > high THEN high ELSE value
BY MinPair, MaxPair DEF Clip

LEMMA ClipKeeps ==
  ASSUME NEW value \in Int, NEW low \in Int, NEW high \in Int, low <= value, value <= high
  PROVE  Clip(value, low, high) = value
BY ClipIs

\* The client clips what the server has clipped.
LEMMA ClipStepTwice ==
  ASSUME NEW move \in Int
  PROVE  ClipStep(ClipStep(move)) = ClipStep(move)
BY ClipIs DEF ClipStep, MaxTranslationStep
----------------------------------------------------------------------------
(* A manifest that tells the truth about the data of its model.            *)

TrueManifest(m, data) ==
  /\ GripperKnown(m) =>
       m.gripper_range = RangeOf(data) /\ m.min_means = "open" /\ m.max_means = "close"
  /\ ScaleKnown(m) => m.scale = ScaleOf(data) /\ m.clip \in Clips

LEMMA MovesDecode ==
  ASSUME NEW data \in {"own", "libero"}, NEW m, TrueManifest(m, data), ScaleKnown(m),
         NEW i, i.move \in -50..50
  PROVE  Metres(Native(data, i).move, m) = i.move
<1>1. m.scale = ScaleOf(data) /\ m.clip \in Clips
  BY DEF TrueManifest
<1>b. /\ m.clip[1] \in {-1000000, -1000} /\ m.clip[2] \in {1000000, 1000}
  BY <1>1, SMT DEF Clips, Unbounded
<1>2. CASE data = "own"
  <2>1. Native(data, i).move = i.move
    BY <1>2 DEF Native
  <2>2. m.scale[1] = 1000
    BY <1>1, <1>2 DEF ScaleOf
  <2>3. /\ m.clip[1] \in Int /\ m.clip[2] \in Int /\ i.move \in Int
        /\ m.clip[1] <= i.move /\ i.move <= m.clip[2]
    BY <1>b, SMT
  <2>4. Clip(i.move, m.clip[1], m.clip[2]) = i.move
    BY <2>3, ClipKeeps
  <2>5. QED
    BY <2>1, <2>2, <2>4 DEF Metres
<1>3. CASE data = "libero"
  <2>1. Native(data, i).move = 20 * i.move
    BY <1>3 DEF Native
  <2>2. m.scale[1] = 50
    BY <1>1, <1>3 DEF ScaleOf
  <2>3. /\ m.clip[1] \in Int /\ m.clip[2] \in Int /\ 20 * i.move \in Int
        /\ m.clip[1] <= 20 * i.move /\ 20 * i.move <= m.clip[2]
    BY <1>b, SMT
  <2>4. Clip(20 * i.move, m.clip[1], m.clip[2]) = 20 * i.move
    BY <2>3, ClipKeeps
  <2>5. QED
    BY <2>1, <2>2, <2>4 DEF Metres
<1>4. QED
  BY <1>2, <1>3

LEMMA GripperDecodes ==
  ASSUME NEW data \in {"own", "libero"}, NEW m, TrueManifest(m, data), GripperKnown(m),
         NEW i, i.gripper \in {"open", "close"}
  PROVE  WireGripper(Opening(Native(data, i).gripper, m)) =
           IF i.gripper = "close" THEN 1000 ELSE 0
<1> DEFINE raw == Native(data, i).gripper
           low == m.gripper_range[1]
           high == m.gripper_range[2]
<1>1. m.gripper_range = RangeOf(data) /\ m.min_means = "open"
  BY DEF TrueManifest
<1>2. /\ low = (IF data = "own" THEN 0 ELSE -1000) /\ high = 1000
      /\ raw = IF data = "own" THEN IF i.gripper = "close" THEN 1100 ELSE 200
               ELSE IF i.gripper = "close" THEN 700 ELSE -1100
  BY <1>1 DEF RangeOf, Native
<1>3. Opening(raw, m) = (1000 * (high - Clip(raw, low, high))) \div (high - low)
  BY <1>1 DEF Opening
<1>4. Clip(raw, low, high) =
        IF data = "own" THEN IF i.gripper = "close" THEN 1000 ELSE 200
        ELSE IF i.gripper = "close" THEN 700 ELSE -1000
  BY <1>2, ClipIs
<1> HIDE DEF raw, low, high
<1>5. Opening(raw, m) = IF data = "own" THEN IF i.gripper = "close" THEN 0 ELSE 800
                        ELSE IF i.gripper = "close" THEN 150 ELSE 1000
  BY <1>2, <1>3, <1>4
<1>6. QED
  BY <1>5 DEF WireGripper, raw

\* What a true manifest decodes is what the model means.
LEMMA CommandIsIntended ==
  ASSUME NEW data \in {"own", "libero"}, NEW m, TrueManifest(m, data),
         GripperKnown(m), ScaleKnown(m),
         NEW i, i.move \in -50..50, i.gripper \in {"open", "close"}
  PROVE  RobotCommand(Accepted(ClipStep(Metres(Native(data, i).move, m)),
                               WireGripper(Opening(Native(data, i).gripper, m)), TRUE)) =
           [move |-> ClipStep(i.move), gripper |-> i.gripper]
<1>1. Metres(Native(data, i).move, m) = i.move
  BY MovesDecode
<1>2. WireGripper(Opening(Native(data, i).gripper, m)) = IF i.gripper = "close" THEN 1000 ELSE 0
  BY GripperDecodes
<1>3. ClipStep(ClipStep(i.move)) = ClipStep(i.move)
  BY ClipStepTwice
<1>4. QED
  BY <1>1, <1>2, <1>3 DEF RobotCommand, Accepted, GripperThreshold
----------------------------------------------------------------------------
(* Manifests of true files.                                                *)

ManifestFields == {"model_id", "embodiment", "semantics", "gripper", "observations",
                   "processors", "axis_verified", "gripper_range", "min_means",
                   "max_means", "scale", "clip"}

LEMMA OverrideFields ==
  ASSUME NEW m, NEW declared, DOMAIN m = ManifestFields
  PROVE  /\ DOMAIN Override(m, declared) = ManifestFields
         /\ \A f \in ManifestFields :
              Override(m, declared)[f] = IF f \in DOMAIN declared THEN declared[f] ELSE m[f]
BY DEF Override

LEMMA UnknownFields ==
  ASSUME NEW id
  PROVE  LET m == UnknownManifest(id)
         IN /\ DOMAIN m = ManifestFields
            /\ m.model_id = id
            /\ m.gripper_range = None /\ m.min_means = Unknown /\ m.max_means = Unknown
            /\ m.scale = None /\ m.clip = Unbounded
BY DEF UnknownManifest, ManifestFields

LEMMA RegisteredFields ==
  ASSUME NEW id
  PROVE  LET m == RegisteredManifest(id)
         IN /\ DOMAIN m = ManifestFields
            /\ id = SmolVLALibero =>
                 /\ m.model_id = id /\ m.gripper_range = <<-1000, 1000>>
                 /\ m.min_means = "open" /\ m.max_means = "close"
                 /\ m.scale = <<50>> /\ m.clip = <<-1000, 1000>>
            /\ id # SmolVLALibero =>
                 /\ m.model_id = SmolVLABase
                 /\ m.embodiment = "so100" /\ m.gripper_range = None
                 /\ m.min_means = Unknown /\ m.max_means = Unknown
<1>1. CASE id = SmolVLALibero
  BY <1>1 DEF RegisteredManifest, ManifestFields
<1>2. CASE id # SmolVLALibero
  <2> DEFINE u == UnknownManifest(SmolVLABase)
  <2>1. /\ DOMAIN u = ManifestFields /\ u.model_id = SmolVLABase
        /\ u.gripper_range = None /\ u.min_means = Unknown /\ u.max_means = Unknown
    BY UnknownFields
  <2>2. RegisteredManifest(id) =
          [u EXCEPT !.embodiment = "so100", !.semantics = "joints", !.gripper = "index 5",
                    !.observations = "three cameras"]
    BY <1>2 DEF RegisteredManifest
  <2> HIDE DEF u
  <2>3. QED
    BY <1>2, <2>1, <2>2 DEF ManifestFields
<1>3. QED
  BY <1>1, <1>2

LEMMA FinetunedFields ==
  ASSUME NEW d, NEW id, NEW base
  PROVE  LET m == FinetunedManifest(d, id, base)
         IN /\ DOMAIN m = ManifestFields
            /\ m.model_id = id
            /\ m.gripper_range = GripperRange(d[id].stats)
            /\ m.min_means \in {"open", Unknown} /\ m.max_means \in {"close", Unknown}
            /\ m.scale = (IF MatchesOwnPipeline(d[id].stats) THEN <<OwnScale>> ELSE None)
            /\ m.clip = Unbounded
<1> DEFINE inherited == RegisteredManifest(base)
           known == GripperRange(d[id].stats) # None
           lowest == IF known THEN inherited.min_means ELSE Unknown
           highest == IF known THEN inherited.max_means ELSE Unknown
           scale == IF MatchesOwnPipeline(d[id].stats) THEN <<OwnScale>> ELSE None
<1>1. /\ DOMAIN inherited = ManifestFields
      /\ lowest \in {"open", Unknown} /\ highest \in {"close", Unknown}
  BY RegisteredFields
<1>2. FinetunedManifest(d, id, base) =
        [inherited EXCEPT !.model_id = id, !.processors = d[id].processors,
                          !.gripper_range = GripperRange(d[id].stats),
                          !.min_means = lowest, !.max_means = highest,
                          !.scale = scale, !.clip = Unbounded]
  BY DEF FinetunedManifest
<1> HIDE DEF inherited, lowest, highest, scale
<1>3. QED
  BY <1>1, <1>2, SMT DEF ManifestFields, scale

\* Whether a file can stand alone does not depend on where it lies.
LEMMA SufficiencyIgnoresId ==
  ASSUME NEW id, NEW other, NEW declared, SelfSufficient(DeclaredManifest(id, declared))
  PROVE  SelfSufficient(DeclaredManifest(other, declared))
<1> DEFINE o(x) == Override(UnknownManifest(x), declared)
<1>1. \A x : DOMAIN o(x) = ManifestFields
  BY UnknownFields, OverrideFields
<1>2. ASSUME NEW f \in {"embodiment", "semantics", "gripper"}
      PROVE  o(id)[f] = o(other)[f]
  BY DEF Override, UnknownManifest
<1>3. \A x : DeclaredManifest(x, declared) = [o(x) EXCEPT !.model_id = x]
  BY DEF DeclaredManifest
<1> HIDE DEF o
<1>4. ASSUME NEW f \in {"embodiment", "semantics", "gripper"}
      PROVE  DeclaredManifest(id, declared)[f] = DeclaredManifest(other, declared)[f]
  BY <1>1, <1>2, <1>3 DEF ManifestFields
<1>5. QED
  BY <1>4 DEF SelfSufficient

\* True numbers stay true when a true file declares some of them.
LEMMA DeclaringTruth ==
  ASSUME NEW data, NEW m, NEW declared, DOMAIN m = ManifestFields,
         TrueSidecar(data, declared),
         m.gripper_range \in {None, RangeOf(data)},
         m.min_means \in {"open", Unknown}, m.max_means \in {"close", Unknown},
         m.scale \in {None, ScaleOf(data)}, m.clip \in Clips
  PROVE  TrueManifest(Override(m, declared), data)
<1> DEFINE t == Override(m, declared)
<1>1. \A f \in ManifestFields : t[f] = IF f \in DOMAIN declared THEN declared[f] ELSE m[f]
  BY OverrideFields
<1>2. /\ t.gripper_range \in {None, RangeOf(data)}
      /\ t.min_means \in {"open", Unknown} /\ t.max_means \in {"close", Unknown}
      /\ t.scale \in {None, ScaleOf(data)} /\ t.clip \in Clips
  BY <1>1 DEF TrueSidecar, ManifestFields
<1> HIDE DEF t
<1>3. TrueManifest(t, data)
  BY <1>2 DEF TrueManifest, GripperKnown, ScaleKnown
<1>4. QED
  BY <1>3 DEF t

LEMMA ManifestIsTrue ==
  ASSUME NEW d, TrueDisk(d), NEW id \in Models
  PROVE  /\ GetManifest(d, id).model_id = id
         /\ TrueManifest(GetManifest(d, id), IF id \in LocalCheckpoints THEN d[id].data ELSE "libero")
<1> DEFINE m == GetManifest(d, id)
<1>1. CASE id \in Registry
  <2>1. id \notin LocalCheckpoints
    BY <1>1, CheckpointServingAssumption
  <2>2. m = RegisteredManifest(id)
    BY <1>1 DEF GetManifest
  <2> HIDE DEF m
  <2>3. CASE id = SmolVLALibero
    <3>1. /\ m.model_id = id /\ m.gripper_range = <<-1000, 1000>> /\ m.min_means = "open"
          /\ m.max_means = "close" /\ m.scale = <<50>> /\ m.clip = <<-1000, 1000>>
      BY <2>2, <2>3, RegisteredFields
    <3>2. QED
      BY <2>1, <3>1 DEF TrueManifest, RangeOf, ScaleOf, Clips, m
  <2>4. CASE id = SmolVLABase
    <3>1. /\ m.model_id = id /\ m.gripper_range = None /\ m.scale = None
      BY <2>2, <2>4 DEF RegisteredManifest, UnknownManifest, SmolVLABase, SmolVLALibero
    <3>2. QED
      BY <3>1 DEF TrueManifest, GripperKnown, ScaleKnown, m
  <2>5. QED
    BY <1>1, <2>3, <2>4 DEF Registry
<1>2. CASE id \in LocalCheckpoints
  <2> DEFINE declared == d[id].declared
             data == d[id].data
             explicit == DeclaredManifest(id, declared)
             base == BaseModel(d, id)
  <2>1. id \notin Registry /\ TrueDirectory(d[id])
    BY <1>2, CheckpointServingAssumption DEF TrueDisk
  <2>2. TrueSidecar(data, declared)
    BY <2>1 DEF TrueDirectory
  <2>3. \/ /\ DOMAIN declared # {} /\ SelfSufficient(explicit) /\ m = explicit
        \/ /\ ~(DOMAIN declared # {} /\ SelfSufficient(explicit))
           /\ m = Override(FinetunedManifest(d, id, base[1]), declared)
        \/ m = UnknownManifest(id)
    BY <1>2, <2>1 DEF GetManifest
  <2> HIDE DEF m, base, data, declared
  <2>4. CASE m = explicit
    <3> DEFINE o == Override(UnknownManifest(id), declared)
    <3>1. DOMAIN o = ManifestFields /\ TrueManifest(o, data)
      <4>1. Unbounded \in Clips
        BY DEF Clips
      <4>2. QED
        BY <2>2, <4>1, UnknownFields, OverrideFields, DeclaringTruth
    <3>2. m = [o EXCEPT !.model_id = id]
      BY <2>4 DEF DeclaredManifest, explicit
    <3> HIDE DEF o
    <3>3. /\ m.model_id = id /\ m.gripper_range = o.gripper_range /\ m.min_means = o.min_means
          /\ m.max_means = o.max_means /\ m.scale = o.scale /\ m.clip = o.clip
      BY <3>1, <3>2 DEF ManifestFields
    <3>4. QED
      BY <1>2, <3>1, <3>3 DEF TrueManifest, GripperKnown, ScaleKnown, m, data
  <2>5. CASE /\ ~(DOMAIN declared # {} /\ SelfSufficient(explicit))
             /\ m = Override(FinetunedManifest(d, id, base[1]), declared)
    <3> DEFINE f == FinetunedManifest(d, id, base[1])
    <3>1. /\ DOMAIN f = ManifestFields /\ f.model_id = id
          /\ f.gripper_range = GripperRange(d[id].stats)
          /\ f.min_means \in {"open", Unknown} /\ f.max_means \in {"close", Unknown}
          /\ f.scale = (IF MatchesOwnPipeline(d[id].stats) THEN <<OwnScale>> ELSE None)
          /\ f.clip = Unbounded
      BY FinetunedFields
    <3> HIDE DEF f
    <3>2. f.gripper_range \in {None, RangeOf(data)} /\ f.scale \in {None, ScaleOf(data)}
      BY <2>1, <3>1 DEF TrueDirectory, ScaleOf, OwnScale, data
    <3>3. TrueManifest(m, data)
      BY <2>2, <2>5, <3>1, <3>2, DeclaringTruth DEF f, Clips
    <3>4. "model_id" \notin DOMAIN declared
      BY <2>2, <2>5, SufficiencyIgnoresId DEF TrueSidecar, explicit
    <3>5. m.model_id = id
      BY <2>5, <3>1, <3>4, OverrideFields DEF f, ManifestFields
    <3>6. QED
      BY <1>2, <3>3, <3>5 DEF m, data
  <2>6. CASE m = UnknownManifest(id)
    <3>1. m.model_id = id /\ m.gripper_range = None /\ m.scale = None
      BY <2>6, UnknownFields
    <3>2. QED
      BY <3>1 DEF TrueManifest, GripperKnown, ScaleKnown, m
  <2>7. QED
    BY <2>3, <2>4, <2>5, <2>6
<1>3. QED
  BY <1>1, <1>2 DEF Models
----------------------------------------------------------------------------
(* Lineages.                                                               *)

\* The way from x up to base: n + 1 local checkpoints, the last resumed from base.
Chain(d, base, x, n, p) ==
  /\ p \in [0..n -> LocalCheckpoints]
  /\ p[0] = x
  /\ \A k \in 0..n : d[p[k]].parent = IF k = n THEN base ELSE p[k + 1]

HasChain(d, base, x, n) == n \in Nat /\ \E p : Chain(d, base, x, n, p)

LEMMA ParentOfChain ==
  ASSUME NEW d, NEW base, NEW x \in LocalCheckpoints, d[x].parent = base
  PROVE  HasChain(d, base, x, 0)
<1>1. Chain(d, base, x, 0, [k \in 0..0 |-> x])
  BY DEF Chain
<1>2. QED
  BY <1>1 DEF HasChain

LEMMA LongerChain ==
  ASSUME NEW d, NEW base, NEW x \in LocalCheckpoints, NEW n, HasChain(d, base, d[x].parent, n)
  PROVE  HasChain(d, base, x, n + 1)
<1>1. n \in Nat
  BY DEF HasChain
<1>2. PICK p : Chain(d, base, d[x].parent, n, p)
  BY DEF HasChain
<1> DEFINE q == [k \in 0..(n + 1) |-> IF k = 0 THEN x ELSE p[k - 1]]
<1>3. q \in [0..(n + 1) -> LocalCheckpoints]
  <2>1. ASSUME NEW k \in 0..(n + 1), k # 0 PROVE p[k - 1] \in LocalCheckpoints
    <3>1. k - 1 \in 0..n
      BY <1>1, <2>1
    <3>2. QED
      BY <1>2, <3>1 DEF Chain
  <2>2. QED
    BY <2>1
<1>4. q[0] = x
  BY <1>1
<1>5. ASSUME NEW k \in 0..(n + 1)
      PROVE  d[q[k]].parent = IF k = n + 1 THEN base ELSE q[k + 1]
  <2>1. CASE k = 0
    <3>1. q[k] = x /\ q[k + 1] = p[0] /\ k # n + 1
      BY <1>1, <2>1
    <3>2. QED
      BY <1>2, <3>1 DEF Chain
  <2>2. CASE k # 0
    <3>1. k - 1 \in 0..n /\ q[k] = p[k - 1] /\ (k = n + 1 <=> k - 1 = n)
      BY <1>1, <2>2
    <3>2. d[p[k - 1]].parent = IF k - 1 = n THEN base ELSE p[(k - 1) + 1]
      BY <1>2, <3>1 DEF Chain
    <3>3. k # n + 1 => q[k + 1] = p[(k - 1) + 1]
      BY <1>1, <2>2
    <3>4. QED
      BY <3>1, <3>2, <3>3
  <2>3. QED
    BY <2>1, <2>2
<1> HIDE DEF q
<1>6. Chain(d, base, x, n + 1, q)
  BY <1>3, <1>4, <1>5 DEF Chain
<1>7. QED
  BY <1>1, <1>6 DEF HasChain

\* Who descends from base has a chain to it.
LEMMA DescendantsHaveChains ==
  ASSUME NEW d, NEW base \in Models, NEW x \in LocalCheckpoints, x # base, DescendsFrom(d, x, base)
  PROVE  \E n : HasChain(d, base, x, n)
<1> DEFINE family == {base} \cup {c \in LocalCheckpoints : \E n : HasChain(d, base, c, n)}
<1>1. family \in SUBSET Models /\ base \in family
  BY DEF Models
<1>2. ASSUME NEW c \in LocalCheckpoints, d[c].parent \in family PROVE c \in family
  BY <1>2, ParentOfChain, LongerChain
<1> HIDE DEF family
<1>3. x \in family
  BY <1>1, <1>2 DEF DescendsFrom
<1>4. QED
  BY <1>3 DEF family

\* A chain that meets a checkpoint twice can be cut short.
LEMMA CutChain ==
  ASSUME NEW d, NEW base, NEW x, NEW n \in Nat, NEW p, Chain(d, base, x, n, p),
         NEW i \in 0..n, NEW j \in 0..n, i < j, p[i] = p[j]
  PROVE  HasChain(d, base, x, n - (j - i))
<1> DEFINE m == n - (j - i)
           at(k) == IF k < i THEN k ELSE k + (j - i)
           q == [k \in 0..m |-> p[at(k)]]
<1>1. m \in Nat /\ i \in 0..m
  OBVIOUS
<1>2. \A k \in 0..m : at(k) \in 0..n /\ (at(k) = n <=> k = m)
  OBVIOUS
<1>3. at(0) = 0 \/ (i = 0 /\ at(0) = j)
  OBVIOUS
<1>4. \A k \in 0..m :
        k # m => /\ k + 1 \in 0..m
                 /\ \/ at(k + 1) = at(k) + 1
                    \/ k + 1 = i /\ at(k) + 1 = i /\ at(k + 1) = j
  OBVIOUS
<1> HIDE DEF m, at
<1>5. q \in [0..m -> LocalCheckpoints]
  BY <1>2 DEF Chain
<1>6. q[0] = x
  <2>1. 0 \in 0..m
    BY <1>1
  <2>2. QED
    BY <1>3, <2>1 DEF Chain
<1>7. ASSUME NEW k \in 0..m PROVE d[q[k]].parent = IF k = m THEN base ELSE q[k + 1]
  <2>1. d[p[at(k)]].parent = IF at(k) = n THEN base ELSE p[at(k) + 1]
    BY <1>2 DEF Chain
  <2>2. k # m => q[k + 1] = p[at(k) + 1]
    BY <1>4
  <2>3. QED
    BY <1>2, <2>1, <2>2
<1> HIDE DEF q
<1>8. Chain(d, base, x, m, q)
  BY <1>5, <1>6, <1>7 DEF Chain
<1>9. QED
  BY <1>1, <1>8 DEF HasChain, m

\* x and the local checkpoints it was resumed from.
Lineage(d, x) == {ck \in LocalCheckpoints : DescendsFrom(d, x, ck)}

LEMMA ChainIsLineage ==
  ASSUME NEW d, NEW base, NEW x, NEW n \in Nat, NEW p, Chain(d, base, x, n, p), NEW k \in 0..n
  PROVE  p[k] \in Lineage(d, x)
<1> SUFFICES ASSUME NEW family \in SUBSET Models, p[k] \in family,
                    \A ck \in LocalCheckpoints : d[ck].parent \in family => ck \in family
             PROVE  x \in family
  BY DEF Lineage, DescendsFrom, Chain
<1> DEFINE D == {j \in 0..k : p[j] \in family}
<1>1. D \subseteq Nat /\ D # {}
  OBVIOUS
<1>2. PICK j \in D : \A i \in D : j <= i
  <2> HIDE DEF D
  <2>1. QED
    BY <1>1, LeastNat
<1>3. j = 0
  <2> SUFFICES ASSUME j # 0 PROVE FALSE
    OBVIOUS
  <2>1. j - 1 \in 0..n /\ j - 1 \in 0..k /\ j - 1 # n /\ (j - 1) + 1 = j /\ ~(j <= j - 1)
    OBVIOUS
  <2>2. p[j - 1] \in LocalCheckpoints /\ d[p[j - 1]].parent = p[j]
    BY <2>1 DEF Chain
  <2>3. p[j - 1] \in family
    BY <2>2
  <2>4. QED
    BY <1>2, <2>1, <2>3
<1>4. QED
  BY <1>3 DEF Chain

\* A shortest chain meets no checkpoint twice, and is no longer than there are
\* checkpoints in the lineage.
LEMMA ShortChain ==
  ASSUME NEW d, NEW base, NEW x, IsFiniteSet(Lineage(d, x)), \E n : HasChain(d, base, x, n)
  PROVE  \E n : HasChain(d, base, x, n) /\ n + 1 <= Cardinality(Lineage(d, x))
<1> DEFINE L == {n \in Nat : HasChain(d, base, x, n)}
<1>1. L \subseteq Nat /\ L # {}
  BY DEF HasChain
<1>2. PICK n \in L : \A m \in L : n <= m
  <2> HIDE DEF L
  <2>1. QED
    BY <1>1, LeastNat
<1>3. PICK p : Chain(d, base, x, n, p)
  BY <1>2 DEF HasChain
<1>4. ASSUME NEW i \in 0..n, NEW j \in 0..n, i < j PROVE p[i] # p[j]
  <2> SUFFICES ASSUME p[i] = p[j] PROVE FALSE
    OBVIOUS
  <2>1. HasChain(d, base, x, n - (j - i))
    BY <1>3, <1>4, CutChain
  <2>2. n - (j - i) \in L
    BY <2>1 DEF HasChain
  <2>3. ~(n <= n - (j - i))
    BY <1>4
  <2>4. QED
    BY <1>2, <2>2, <2>3
<1>5. p \in Injection(0..n, Lineage(d, x))
  <2>1. ASSUME NEW i \in 0..n, NEW j \in 0..n, p[i] = p[j] PROVE i = j
    <3>1. i < j \/ j < i \/ i = j
      OBVIOUS
    <3>2. QED
      BY <1>4, <2>1, <3>1
  <2>2. \A i \in 0..n : p[i] \in Lineage(d, x)
    BY <1>3, ChainIsLineage
  <2>3. QED
    BY <1>3, <2>1, <2>2 DEF Chain, Injection, IsInjective
<1>6. Cardinality(0..n) <= Cardinality(Lineage(d, x))
  BY <1>5, FS_Injection
<1>7. Cardinality(0..n) = n + 1
  BY FS_Interval
<1>8. QED
  BY <1>6, <1>7

\* The recursion of Ancestor has a solution: what its definition says of it.
LEMMA AncestorIs ==
  ASSUME NEW d, NEW id
  PROVE  Ancestor(d, id) =
           [n \in 0..MaxAncestryDepth |->
              IF n = 0 THEN id ELSE Parent(d, Ancestor(d, id)[n - 1])]
<1> DEFINE X == {id, Elsewhere} \cup {d[c].parent : c \in LocalCheckpoints}
           G == [y \in X |-> Parent(d, y)]
           IsUp(u) == u = [n \in 0..MaxAncestryDepth |-> IF n = 0 THEN id ELSE Parent(d, u[n - 1])]
<1>1. G \in [X -> X]
  BY DEF Parent
<1>2. PICK f \in [Nat -> X] : f[0] = id /\ \A n \in Nat : f[n + 1] = G[f[n]]
  <2>1. id \in X
    OBVIOUS
  <2> HIDE DEF X, G
  <2>2. QED
    BY <1>1, <2>1, PrimitiveRecursion
<1>3. ASSUME NEW n \in Nat, n # 0 PROVE f[n] = Parent(d, f[n - 1])
  <2>1. n - 1 \in Nat /\ (n - 1) + 1 = n
    BY <1>3
  <2>2. f[n - 1] \in X
    BY <2>1
  <2> HIDE DEF X
  <2>3. QED
    BY <1>2, <2>1, <2>2
<1> DEFINE up == [n \in 0..MaxAncestryDepth |-> f[n]]
<1>d. MaxAncestryDepth \in Nat
  BY CheckpointServingAssumption
<1>4. ASSUME NEW n \in 0..MaxAncestryDepth
      PROVE  up[n] = IF n = 0 THEN id ELSE Parent(d, up[n - 1])
  <2>1. n \in Nat /\ (n # 0 => n - 1 \in 0..MaxAncestryDepth)
    BY <1>d
  <2> HIDE DEF G, X
  <2>2. QED
    BY <1>2, <1>3, <2>1
<1>5. IsUp(up)
  <2> HIDE DEF X, G
  <2>1. QED
    BY <1>4
<1>6. Ancestor(d, id) = CHOOSE u : IsUp(u)
  BY DEF Ancestor
<1> HIDE DEF IsUp, up
<1>7. IsUp(Ancestor(d, id))
  BY <1>5, <1>6
<1>8. QED
  BY <1>7 DEF IsUp

\* Following a chain, the walk sees its checkpoints one after the other.
LEMMA AncestorsOfChain ==
  ASSUME NEW d, NEW base, NEW x, NEW n \in Nat, NEW p, Chain(d, base, x, n, p),
         MaxAncestryDepth \in Nat, n <= MaxAncestryDepth
  PROVE  \A k \in 0..n : Ancestor(d, x)[k] = p[k]
<1> DEFINE A == Ancestor(d, x)
           D == {k \in 0..n : A[k] # p[k]}
<1> SUFFICES ASSUME D # {} PROVE FALSE
  OBVIOUS
<1>0. \A k \in 0..MaxAncestryDepth : A[k] = IF k = 0 THEN x ELSE Parent(d, A[k - 1])
  BY AncestorIs
<1> HIDE DEF A
<1>1. D \subseteq Nat
  OBVIOUS
<1>2. PICK k \in D : \A l \in D : k <= l
  <2> HIDE DEF D
  <2>1. QED
    BY <1>1, LeastNat
<1>3. k # 0
  BY <1>0 DEF Chain
<1>4. k - 1 \in 0..n /\ k \in 0..MaxAncestryDepth /\ ~(k <= k - 1) /\ (k - 1) + 1 = k
      /\ k - 1 # n
  BY <1>3
<1>5. A[k - 1] = p[k - 1]
  BY <1>2, <1>4
<1>6. A[k] = Parent(d, p[k - 1])
  BY <1>0, <1>3, <1>4, <1>5
<1>7. p[k - 1] \in LocalCheckpoints /\ d[p[k - 1]].parent = p[(k - 1) + 1]
  BY <1>4 DEF Chain
<1>8. A[k] = p[k]
  BY <1>4, <1>6, <1>7 DEF Parent
<1>9. QED
  BY <1>8

\* _resolve_base_manifest_via_ancestry() finds the registered model at the end
\* of a chain that is within its bound.
LEMMA ChainIsFollowed ==
  ASSUME LocalCheckpoints \intersect Registry = {}, MaxAncestryDepth \in Nat,
         NEW d, NEW base \in Registry, NEW x, NEW n,
         HasChain(d, base, x, n), n <= MaxAncestryDepth
  PROVE  BaseModel(d, x) = <<base>>
<1> DEFINE A == Ancestor(d, x)
           reached == {k \in 0..MaxAncestryDepth : Parent(d, A[k]) \in Registry}
<1>1. n \in Nat /\ n \in 0..n /\ n \in 0..MaxAncestryDepth
  BY DEF HasChain
<1>2. PICK p : Chain(d, base, x, n, p)
  BY DEF HasChain
<1>3. \A k \in 0..n : A[k] = p[k] /\ Parent(d, A[k]) = IF k = n THEN base ELSE p[k + 1]
  <2>1. \A k \in 0..n : A[k] = p[k]
    BY <1>1, <1>2, AncestorsOfChain
  <2> HIDE DEF A
  <2>2. \A k \in 0..n : /\ p[k] \in LocalCheckpoints
                        /\ d[p[k]].parent = IF k = n THEN base ELSE p[k + 1]
    BY <1>2 DEF Chain
  <2>3. QED
    BY <2>1, <2>2 DEF Parent
<1>4. BaseModel(d, x) = IF reached = {} THEN None ELSE <<Parent(d, A[Min(reached)])>>
  BY DEF BaseModel
<1> HIDE DEF A
<1>5. n \in reached
  BY <1>1, <1>3
<1>6. ASSUME NEW k \in reached PROVE n <= k
  <2> SUFFICES ASSUME ~(n <= k) PROVE FALSE
    OBVIOUS
  <2>1. k \in 0..n /\ k # n /\ k + 1 \in 0..n
    BY <1>1
  <2>2. Parent(d, A[k]) = p[k + 1] /\ p[k + 1] \in LocalCheckpoints
    BY <1>2, <1>3, <2>1 DEF Chain
  <2>3. QED
    BY <2>2
<1>7. Min(reached) = n
  <2>1. \A k \in reached : k \in Int
    OBVIOUS
  <2>2. Min(reached) = CHOOSE m \in reached : \A k \in reached : m <= k
    BY DEF Min
  <2> HIDE DEF reached
  <2>3. PICK m \in reached : m = Min(reached) /\ \A k \in reached : m <= k
    BY <1>5, <1>6, <2>2
  <2>4. m <= n /\ n <= m /\ m \in Int /\ n \in Int
    BY <1>5, <1>6, <2>1, <2>3
  <2>5. QED
    BY <2>3, <2>4
<1>8. Parent(d, A[n]) = base
  BY <1>1, <1>3
<1>9. QED
  BY <1>4, <1>5, <1>7, <1>8

\* The bound of the walk is not below the number of checkpoints to visit.
LineageFits(d, x) ==
  IsFiniteSet(Lineage(d, x)) /\ Cardinality(Lineage(d, x)) <= MaxAncestryDepth + 1

LEMMA LineageIsFound ==
  ASSUME NEW d, NEW base \in Registry, NEW x \in LocalCheckpoints, LineageFits(d, x),
         DescendsFrom(d, x, base)
  PROVE  BaseModel(d, x) = <<base>>
<1>1. LocalCheckpoints \intersect Registry = {} /\ MaxAncestryDepth \in Nat
  BY CheckpointServingAssumption
<1>2. x # base /\ base \in Models
  BY <1>1 DEF Models
<1>3. PICK n : HasChain(d, base, x, n) /\ n + 1 <= Cardinality(Lineage(d, x))
  BY <1>2, DescendantsHaveChains, ShortChain DEF LineageFits
<1>4. Cardinality(Lineage(d, x)) \in Nat /\ n \in Nat
  BY <1>3, FS_CardinalityType DEF LineageFits, HasChain
<1>5. n <= MaxAncestryDepth
  BY <1>1, <1>3, <1>4 DEF LineageFits
<1>6. QED
  BY <1>1, <1>3, <1>5, ChainIsFollowed
----------------------------------------------------------------------------
(* Checkpoints of this project's own data.                                 *)

\* A checkpoint of the project's own data with complete files, however often
\* it was resumed.
Servable(d, ck) ==
  /\ d[ck].data = "own" /\ d[ck].processors
  /\ GripperRange(d[ck].stats) # None /\ MatchesOwnPipeline(d[ck].stats)
  /\ DescendsFrom(d, ck, SmolVLALibero)

\* No lineage is longer than the walk up it may be.
LineagesFit == \A d \in Disks : \A ck \in LocalCheckpoints : LineageFits(d, ck)

\* Manifest files of such checkpoints declare nothing that the gate refuses.
FilesFit ==
  /\ \A d \in Disks : \A ck \in LocalCheckpoints :
       d[ck].data = "own" => FittingSidecar(d[ck].declared)
  /\ \A declared \in Sidecars["own"] : FittingSidecar(declared)

\* What the manifest of such a checkpoint says: what the base model is, and
\* the numbers of the project's own data.
OwnShape(m) ==
  /\ m.embodiment = "panda" /\ m.semantics = "ee_delta" /\ m.gripper = "index 6"
  /\ m.observations # Unknown /\ m.axis_verified = TRUE /\ m.processors = TRUE

OwnNumbers(m) ==
  /\ m.gripper_range = <<0, 1000>> /\ m.min_means = "open" /\ m.max_means = "close"
  /\ m.scale = <<1000>> /\ m.clip \in Clips

LEMMA OwnNumbersAreKnown ==
  ASSUME NEW m, OwnNumbers(m)
  PROVE  GripperKnown(m) /\ ScaleKnown(m)
<1>1. m.gripper_range = <<0, 1000>> /\ m.min_means = "open" /\ m.max_means = "close"
      /\ m.scale = <<1000>> /\ m.clip \in Clips
  BY DEF OwnNumbers
<1>2. m.gripper_range # None /\ m.scale # None
  BY <1>1 DEF None
<1>3. m.gripper_range[1] = 0 /\ m.gripper_range[2] = 1000
  BY <1>1
<1>4. m.clip[1] \in {-1000000, -1000} /\ m.clip[2] \in {1000000, 1000}
  BY <1>1, SMT DEF Clips, Unbounded
<1>5. m.gripper_range[1] < m.gripper_range[2] /\ m.clip[1] < m.clip[2]
  BY <1>3, <1>4, SMT
<1>6. QED
  BY <1>1, <1>2, <1>5 DEF GripperKnown, ScaleKnown, Unknown

LEMMA OwnManifestPasses ==
  ASSUME NEW m, OwnShape(m), OwnNumbers(m)
  PROVE  Passes(m)
<1>1. GripperKnown(m) /\ ScaleKnown(m)
  BY OwnNumbersAreKnown
<1>2. QED
  BY <1>1, Zenon DEF OwnShape, Passes

LEMMA LineageManifest ==
  ASSUME NEW d, NEW ck \in LocalCheckpoints, TrueDisk(d), Servable(d, ck)
  PROVE  LET m == FinetunedManifest(d, ck, SmolVLALibero)
         IN DOMAIN m = ManifestFields /\ OwnShape(m) /\ OwnNumbers(m)
<1> DEFINE m == FinetunedManifest(d, ck, SmolVLALibero)
           inherited == RegisteredManifest(SmolVLALibero)
<1>1. /\ DOMAIN inherited = ManifestFields
      /\ inherited.min_means = "open" /\ inherited.max_means = "close"
  BY RegisteredFields
<1>2. /\ inherited.embodiment = "panda" /\ inherited.semantics = "ee_delta"
      /\ inherited.gripper = "index 6" /\ inherited.observations = "main and wrist"
      /\ inherited.axis_verified = TRUE
  BY DEF RegisteredManifest
<1>3. /\ GripperRange(d[ck].stats) = <<0, 1000>> /\ MatchesOwnPipeline(d[ck].stats)
      /\ d[ck].processors = TRUE /\ GripperRange(d[ck].stats) # None
  <2>1. TrueDirectory(d[ck]) /\ d[ck].processors \in BOOLEAN
    BY DEF TrueDisk, IsDisk
  <2>2. QED
    BY <2>1 DEF TrueDirectory, Servable, RangeOf
<1> DEFINE range == GripperRange(d[ck].stats)
           processors == d[ck].processors
           lowest == inherited.min_means
           highest == inherited.max_means
<1>4. m = [inherited EXCEPT !.model_id = ck, !.processors = processors,
                            !.gripper_range = range,
                            !.min_means = lowest, !.max_means = highest,
                            !.scale = <<OwnScale>>, !.clip = Unbounded]
  BY <1>3 DEF FinetunedManifest
<1> HIDE DEF inherited, m, range, processors, lowest, highest
<1>5. /\ DOMAIN m = ManifestFields
      /\ m.embodiment = inherited.embodiment /\ m.semantics = inherited.semantics
      /\ m.gripper = inherited.gripper /\ m.observations = inherited.observations
      /\ m.axis_verified = inherited.axis_verified
      /\ m.processors = processors /\ m.gripper_range = range
      /\ m.min_means = lowest /\ m.max_means = highest
      /\ m.scale = <<OwnScale>> /\ m.clip = Unbounded
  BY <1>1, <1>4, SMT DEF ManifestFields
<1>6. OwnShape(m)
  BY <1>2, <1>3, <1>5 DEF OwnShape, Unknown, processors
<1>7. OwnNumbers(m)
  BY <1>1, <1>3, <1>5, SMT DEF OwnNumbers, OwnScale, Clips, lowest, highest, range
<1>8. QED
  BY <1>5, <1>6, <1>7 DEF m

\* A fitting file that declares some of the fields of such a manifest.
LEMMA FittingOverride ==
  ASSUME NEW w, OwnShape(w), OwnNumbers(w), NEW declared,
         TrueSidecar("own", declared), FittingSidecar(declared),
         NEW t, \A f \in ManifestFields \ {"model_id"} :
                  t[f] = IF f \in DOMAIN declared THEN declared[f] ELSE w[f]
  PROVE  OwnShape(t) /\ OwnNumbers(t)
<1>1. ASSUME NEW f \in ManifestFields \ {"model_id"}
      PROVE  t[f] = IF f \in DOMAIN declared THEN declared[f] ELSE w[f]
  OBVIOUS
<1>2. t.embodiment = "panda" /\ t.semantics = "ee_delta" /\ t.gripper = "index 6"
  BY <1>1 DEF OwnShape, FittingSidecar, ManifestFields
<1>3. t.observations # Unknown
  BY <1>1 DEF OwnShape, FittingSidecar, ManifestFields
<1>4. t.axis_verified = TRUE
  BY <1>1 DEF OwnShape, FittingSidecar, ManifestFields
<1>5. t.processors = TRUE
  BY <1>1 DEF OwnShape, FittingSidecar, ManifestFields
<1>6. OwnNumbers(t)
  <2>1. t.gripper_range = <<0, 1000>> /\ t.min_means = "open" /\ t.max_means = "close"
    BY <1>1 DEF OwnNumbers, TrueSidecar, ManifestFields, RangeOf
  <2>2. t.scale = <<1000>> /\ t.clip \in Clips
    BY <1>1 DEF OwnNumbers, TrueSidecar, ManifestFields, ScaleOf
  <2>3. QED
    BY <2>1, <2>2 DEF OwnNumbers
<1>7. QED
  BY <1>2, <1>3, <1>4, <1>5, <1>6 DEF OwnShape

\* Whatever fitting file lies beside it, the checkpoint passes the gate.
LEMMA ServablePasses ==
  ASSUME NEW d, NEW ck \in LocalCheckpoints, TrueDisk(d), Servable(d, ck),
         FittingSidecar(d[ck].declared), LineageFits(d, ck)
  PROVE  LET m == GetManifest(d, ck) IN Passes(m) /\ GripperKnown(m) /\ ScaleKnown(m)
<1> DEFINE declared == d[ck].declared
           explicit == DeclaredManifest(ck, declared)
           base == BaseModel(d, ck)
           derived == FinetunedManifest(d, ck, SmolVLALibero)
           m == GetManifest(d, ck)
<1>1. ck \notin Registry /\ SmolVLALibero \in Registry
  BY CheckpointServingAssumption DEF Registry
<1>2. TrueSidecar("own", declared) /\ FittingSidecar(declared)
  BY DEF TrueDisk, TrueDirectory, Servable
<1>3. base = <<SmolVLALibero>>
  BY <1>1, LineageIsFound DEF Servable
<1>4. m = IF DOMAIN declared # {} /\ SelfSufficient(explicit) THEN explicit
          ELSE Override(derived, declared)
  BY <1>1, <1>3 DEF GetManifest, None
<1>5. DOMAIN derived = ManifestFields /\ OwnShape(derived) /\ OwnNumbers(derived)
      /\ derived.clip = Unbounded
  BY LineageManifest, FinetunedFields
<1> HIDE DEF declared, base, m, derived
<1>6. ASSUME NEW f \in ManifestFields \ {"model_id"}
      PROVE  m[f] = IF f \in DOMAIN declared THEN declared[f] ELSE derived[f]
  <2>1. CASE DOMAIN declared # {} /\ SelfSufficient(explicit)
    <3> DEFINE o == Override(UnknownManifest(ck), declared)
    <3>1. /\ DOMAIN o = ManifestFields
          /\ \A g \in ManifestFields :
               o[g] = IF g \in DOMAIN declared THEN declared[g] ELSE UnknownManifest(ck)[g]
      BY UnknownFields, OverrideFields
    <3>2. m = [o EXCEPT !.model_id = ck]
      BY <1>4, <2>1 DEF DeclaredManifest
    <3>3. UnknownManifest(ck).embodiment = Unknown /\ UnknownManifest(ck).semantics = Unknown
          /\ UnknownManifest(ck).gripper = Unknown /\ UnknownManifest(ck).clip = Unbounded
      BY DEF UnknownManifest
    <3> HIDE DEF o
    <3>4. \A g \in ManifestFields \ {"model_id"} : m[g] = o[g]
      BY <3>1, <3>2
    <3>5. o.embodiment # Unknown /\ o.semantics # Unknown /\ o.gripper # Unknown
      <4>1. SelfSufficient(m)
        BY <1>4, <2>1
      <4>2. QED
        BY <3>4, <4>1 DEF SelfSufficient, ManifestFields
    <3>6. SelfSufficient(DeclaredManifest(Unknown, declared))
      BY <2>1, SufficiencyIgnoresId
    <3>7. {"embodiment", "semantics", "gripper", "observations", "axis_verified", "processors",
           "gripper_range", "min_means", "max_means", "scale"} \subseteq DOMAIN declared
      <4>1. {"embodiment", "semantics", "gripper"} \subseteq DOMAIN declared
        BY <3>1, <3>3, <3>5 DEF ManifestFields
      <4>2. {"observations", "axis_verified", "processors", "gripper_range", "min_means",
             "max_means", "scale"} \subseteq DOMAIN declared
        BY <1>2, <3>6 DEF FittingSidecar
      <4>3. QED
        BY <4>1, <4>2
    <3>8. f \in DOMAIN declared \/ f = "clip"
      BY <3>7 DEF ManifestFields
    <3>9. m[f] = IF f \in DOMAIN declared THEN declared[f] ELSE UnknownManifest(ck)[f]
      BY <3>1, <3>4
    <3>10. QED
      BY <1>5, <3>3, <3>8, <3>9
  <2>2. CASE ~(DOMAIN declared # {} /\ SelfSufficient(explicit))
    BY <1>4, <1>5, <2>2, OverrideFields
  <2>3. QED
    BY <2>1, <2>2
<1>7. OwnShape(m) /\ OwnNumbers(m)
  BY <1>2, <1>5, <1>6, FittingOverride
<1>8. QED
  BY <1>7, OwnManifestPasses, OwnNumbersAreKnown DEF m
----------------------------------------------------------------------------
(* The server.                                                             *)

\* What the proofs assume of the files and of the models: the directories
\* tell the truth at first, and every manifest file that is written does.
FilesAreTrue ==
  /\ Moves \subseteq -50..50
  /\ \A d \in Disks : TrueDisk(d)
  /\ \A data \in {"own", "libero"} : \A declared \in Sidecars[data] : TrueSidecar(data, declared)

Planned == [intention : Intentions, episode : Nat]

ServerInv ==
  server # Down =>
    /\ server = <<server[1]>>
    /\ server[1].id \in Models
    /\ server[1].compatibility.model_id = server[1].id
    /\ server[1].compatibility.passed => server[1].id # SmolVLABase

ServingInv ==
  /\ TrueDisk(disk)
  /\ queue \in Seq(Planned)
  /\ episode \in Nat /\ asked \in Nat
  /\ ServerInv

LEMMA BaseNeverPasses ==
  ASSUME NEW d
  PROVE  ~Passes(GetManifest(d, SmolVLABase))
<1>1. GetManifest(d, SmolVLABase) = RegisteredManifest(SmolVLABase)
  BY DEF GetManifest, Registry
<1>2. SmolVLABase # SmolVLALibero
  BY DEF SmolVLABase, SmolVLALibero
<1>3. RegisteredManifest(SmolVLABase).embodiment = "so100"
  BY <1>2, RegisteredFields
<1>4. QED
  BY <1>1, <1>3 DEF Passes

LEMMA EditingKeepsTruth ==
  ASSUME NEW d, TrueDisk(d), NEW ck \in LocalCheckpoints, NEW declared,
         TrueSidecar(d[ck].data, declared)
  PROVE  /\ TrueDisk([d EXCEPT ![ck].declared = declared])
         /\ \A x \in LocalCheckpoints : [d EXCEPT ![ck].declared = declared][x].data = d[x].data
<1> DEFINE e == [d EXCEPT ![ck].declared = declared]
<1>1. /\ DOMAIN d = LocalCheckpoints
      /\ \A x \in LocalCheckpoints :
           d[x] = [parent |-> d[x].parent, data |-> d[x].data, processors |-> d[x].processors,
                   stats |-> d[x].stats, declared |-> d[x].declared]
  BY DEF TrueDisk, IsDisk
<1>2. /\ e = [x \in LocalCheckpoints |-> e[x]]
      /\ \A x \in LocalCheckpoints :
           e[x] = [parent |-> d[x].parent, data |-> d[x].data, processors |-> d[x].processors,
                   stats |-> d[x].stats,
                   declared |-> IF x = ck THEN declared ELSE d[x].declared]
  <2>1. ASSUME NEW x \in LocalCheckpoints
        PROVE  e[x] = IF x = ck THEN [d[ck] EXCEPT !.declared = declared] ELSE d[x]
    BY <1>1
  <2>2. e = [x \in LocalCheckpoints |-> e[x]]
    BY <1>1
  <2> HIDE DEF e
  <2>3. [d[ck] EXCEPT !.declared = declared] =
          [parent |-> d[ck].parent, data |-> d[ck].data, processors |-> d[ck].processors,
           stats |-> d[ck].stats, declared |-> declared]
    BY <1>1
  <2>4. QED
    BY <1>1, <2>1, <2>2, <2>3
<1> HIDE DEF e
<1>3. IsDisk(e)
  <2>1. \A x \in LocalCheckpoints :
          e[x] = [parent |-> e[x].parent, data |-> e[x].data, processors |-> e[x].processors,
                  stats |-> e[x].stats, declared |-> e[x].declared]
    BY <1>2
  <2>2. \A x \in LocalCheckpoints : e[x].processors \in BOOLEAN
    BY <1>2 DEF TrueDisk, IsDisk
  <2>3. QED
    BY <1>2, <2>1, <2>2 DEF IsDisk
<1>4. ASSUME NEW x \in LocalCheckpoints
      PROVE  TrueDirectory(e[x])
  <2>1. /\ e[x].data = d[x].data /\ e[x].stats = d[x].stats
        /\ e[x].declared = IF x = ck THEN declared ELSE d[x].declared
    BY <1>2
  <2>2. TrueDirectory(d[x])
    BY DEF TrueDisk
  <2>3. QED
    BY <2>1, <2>2 DEF TrueDirectory
<1>5. QED
  BY <1>2, <1>3, <1>4 DEF TrueDisk, e

\* The action that a request hands out, and what stays planned.
LEMMA ActionsArePlanned ==
  ASSUME NEW id \in Models, NEW planned \in Seq(Planned), episode \in Nat,
         NEW intentions \in [1..ActionSteps[id] -> Intentions]
  PROVE  LET actions == SelectAction(planned, intentions)
         IN Head(actions) \in Planned /\ Tail(actions) \in Seq(Planned)
<1> DEFINE actions == SelectAction(planned, intentions)
           n == ActionSteps[id]
<1>1. CASE planned = <<>>
  <2>1. n \in Nat \ {0}
    BY CheckpointServingAssumption
  <2>2. actions = [k \in 1..n |-> [intention |-> intentions[k], episode |-> episode]]
    BY <1>1 DEF SelectAction
  <2>3. \A k \in 1..n : [intention |-> intentions[k], episode |-> episode] \in Planned
    BY DEF Planned
  <2>4. actions \in [1..n -> Planned]
    BY <2>2, <2>3
  <2> HIDE DEF actions, n
  <2>5. actions \in Seq(Planned) /\ Len(actions) = n /\ actions # <<>>
    BY <2>1, <2>4
  <2>6. Tail(actions) \in Seq(Planned)
    BY <2>5
  <2>7. Head(actions) = actions[1] /\ actions[1] \in Planned
    BY <2>1, <2>4, <2>5
  <2>8. QED
    BY <2>6, <2>7 DEF actions
<1>2. CASE planned # <<>>
  BY <1>2 DEF SelectAction
<1>3. QED
  BY <1>1, <1>2
----------------------------------------------------------------------------
(* Every step of the server.                                               *)

LEMMA ServingStarts ==
  ASSUME FilesAreTrue
  PROVE  Init => ServingInv /\ CertifiedMeansIntended
BY DEF FilesAreTrue, Init, ServingInv, ServerInv, CertifiedMeansIntended, Certified, NoExchange, Down

\* The answer to a request, from the invariant: what is certified decodes to
\* what the model means.
LEMMA AnswerIsIntended ==
  ASSUME FilesAreTrue, ServingInv, server # Down, NEW i \in Intentions,
         NEW answer, answer = Normalize(Output(server[1], i), server[1].compatibility, disk),
         answer.semantic_action_valid
  PROVE  /\ i.finite
         /\ RobotCommand(answer) = [move |-> ClipStep(i.move), gripper |-> i.gripper]
<1> DEFINE loaded == server[1]
           m == GetManifest(disk, loaded.id)
           data == DataOf(loaded.id)
           output == Output(loaded, i)
<1>1. /\ loaded.id \in Models /\ loaded.compatibility.model_id = loaded.id
      /\ loaded.compatibility.passed => loaded.id # SmolVLABase
      /\ TrueDisk(disk)
  BY DEF ServingInv, ServerInv
<1>2. answer = IF loaded.compatibility.passed THEN Production(output, m)
               ELSE IF loaded.compatibility.shape_only_allowed THEN ShapeOnly(output)
               ELSE Rejected
  BY <1>1 DEF Normalize
<1>3. data \in {"own", "libero"} /\ TrueManifest(m, data)
  BY <1>1, ManifestIsTrue DEF DataOf, TrueDisk, TrueDirectory
<1>4. /\ output.finite = i.finite
      /\ output.move = Native(data, i).move /\ output.gripper = Native(data, i).gripper
  BY DEF Output
<1> HIDE DEF m, data, output, loaded
<1>5. answer = Production(output, m)
  BY <1>2 DEF ShapeOnly, Rejected, Accepted
<1>6. Decodable(output, m)
  <2>1. ~Decodable(output, m) => answer = Rejected
    BY <1>5 DEF Production
  <2>2. ~Rejected.semantic_action_valid
    BY DEF Rejected
  <2>3. QED
    BY <2>1, <2>2
<1>7. answer = Accepted(ClipStep(Metres(output.move, m)), WireGripper(Opening(output.gripper, m)), TRUE)
  BY <1>5, <1>6 DEF Production
<1>8. output.finite /\ GripperKnown(m) /\ ScaleKnown(m)
  BY <1>6 DEF Decodable
<1>9. i.move \in -50..50 /\ i.gripper \in {"open", "close"}
  BY <1>4, <1>8 DEF FilesAreTrue, Intentions
<1>10. RobotCommand(answer) = [move |-> ClipStep(i.move), gripper |-> i.gripper]
  <2>1. RobotCommand(Accepted(ClipStep(Metres(Native(data, i).move, m)),
                              WireGripper(Opening(Native(data, i).gripper, m)), TRUE)) =
          [move |-> ClipStep(i.move), gripper |-> i.gripper]
    BY <1>3, <1>8, <1>9, CommandIsIntended
  <2>2. QED
    BY <1>4, <1>7, <2>1
<1>11. QED
  BY <1>4, <1>8, <1>10

LEMMA ServingStep ==
  ASSUME FilesAreTrue, ServingInv, CertifiedMeansIntended, [Next]_vars
  PROVE  ServingInv' /\ CertifiedMeansIntended'
<1>1. ASSUME NEW id \in Served, NEW smoke, NEW processors, StartServer(id, smoke, processors)
      PROVE  ServingInv' /\ CertifiedMeansIntended'
  <2> DEFINE m == GetManifest(disk, id)
  <2>1. id \in Models
    BY CheckpointServingAssumption
  <2>2. m.model_id = id
    BY <2>1, ManifestIsTrue DEF ServingInv
  <2>3. id = SmolVLABase => ~Passes(m)
    BY BaseNeverPasses
  <2>4. ServerInv'
    <3>1. server' = <<[id |-> id, processors |-> processors,
                       compatibility |-> CompatibilityResult(m, smoke)]>>
      BY <1>1 DEF StartServer
    <3> HIDE DEF m
    <3>2. QED
      BY <2>1, <2>2, <2>3, <3>1 DEF ServerInv, CompatibilityResult
  <2>5. queue' = <<>> /\ UNCHANGED <<disk, episode, asked, exchange>>
    BY <1>1 DEF StartServer
  <2>6. QED
    BY <2>4, <2>5 DEF ServingInv, CertifiedMeansIntended, Certified, NoExchange
<1>2. ASSUME NEW ck \in Served \cap LocalCheckpoints, EditSidecar(ck)
      PROVE  ServingInv' /\ CertifiedMeansIntended'
  <2>1. PICK declared \in Sidecars[disk[ck].data] : disk' = [disk EXCEPT ![ck].declared = declared]
    BY <1>2 DEF EditSidecar
  <2>2. TrueDisk(disk) /\ disk[ck].data \in {"own", "libero"}
    BY <1>2 DEF ServingInv, TrueDisk, TrueDirectory
  <2>3. TrueDisk(disk')
    BY <2>1, <2>2, EditingKeepsTruth DEF FilesAreTrue
  <2>4. UNCHANGED <<server, queue, episode, asked, exchange>>
    BY <1>2 DEF EditSidecar
  <2>5. QED
    BY <2>3, <2>4 DEF ServingInv, ServerInv, CertifiedMeansIntended, Certified, Down, NoExchange
<1>3. CASE StopServer
  BY <1>3 DEF StopServer, ServingInv, ServerInv, CertifiedMeansIntended, Certified, NoExchange
<1>4. CASE Reset
  BY <1>4 DEF Reset, ServingInv, ServerInv, CertifiedMeansIntended, Certified, Down, NoExchange
<1>5. CASE Predict
  <2>1. PICK intentions \in [1..ActionSteps[server[1].id] -> Intentions] :
          LET actions == SelectAction(queue, intentions)
          IN /\ queue' = Tail(actions)
             /\ exchange' = <<[answer |-> Normalize(Output(server[1], Head(actions).intention),
                                                    server[1].compatibility, disk),
                               action |-> Head(actions)]>>
    BY <1>5 DEF Predict
  <2> DEFINE actions == SelectAction(queue, intentions)
             answer == Normalize(Output(server[1], Head(actions).intention),
                                 server[1].compatibility, disk)
  <2>2. /\ server # Down /\ asked' = asked + 1 /\ UNCHANGED <<disk, server, episode>>
    BY <1>5 DEF Predict
  <2>3. asked' \in Nat
    BY <2>2 DEF ServingInv
  <2>4. Head(actions) \in Planned /\ Tail(actions) \in Seq(Planned)
    BY <2>2, ActionsArePlanned DEF ServingInv, ServerInv
  <2> HIDE DEF actions
  <2>5. ServingInv'
    BY <2>1, <2>2, <2>3, <2>4 DEF ServingInv, ServerInv, Down, actions
  <2>6. exchange'[1].answer = answer /\ exchange'[1].action = Head(actions)
    BY <2>1 DEF actions
  <2>7. Head(actions).intention \in Intentions
    BY <2>4 DEF Planned
  <2>8. CertifiedMeansIntended'
    BY <2>2, <2>6, <2>7, AnswerIsIntended DEF CertifiedMeansIntended, Certified
  <2>9. QED
    BY <2>5, <2>8
<1>6. CASE UNCHANGED vars
  BY <1>6 DEF vars, ServingInv, ServerInv, CertifiedMeansIntended, Certified, Down, NoExchange
<1>7. QED
  BY <1>1, <1>2, <1>3, <1>4, <1>5, <1>6 DEF Next

\* CertifiedMeansIntended, for every lineage and whatever is edited: what the
\* server calls semantically valid makes the robot do what the model means,
\* as long as no file lies about the data its model was trained on.
THEOREM CertifiedActionsAreIntended ==
  ASSUME FilesAreTrue
  PROVE  Spec => []CertifiedMeansIntended
<1>1. Init => ServingInv /\ CertifiedMeansIntended
  BY ServingStarts
<1>2. (ServingInv /\ CertifiedMeansIntended) /\ [Next]_vars
      => (ServingInv /\ CertifiedMeansIntended)'
  BY ServingStep
<1>3. QED
  BY <1>1, <1>2, PTL DEF Spec
----------------------------------------------------------------------------
(* Own fine tunes are served.                                              *)

\* Manifest files and lineages fit, a server that is down has answered nothing, and a
\* loaded checkpoint that can be served has passed the gate.
FitInv ==
  /\ \A ck \in LocalCheckpoints : disk[ck].data = "own" => FittingSidecar(disk[ck].declared)
  /\ \A ck \in LocalCheckpoints : LineageFits(disk, ck)
  /\ server = Down => exchange = NoExchange
  /\ server # Down /\ server[1].id \in LocalCheckpoints =>
       /\ server[1].processors => disk[server[1].id].processors
       /\ Servable(disk, server[1].id) => server[1].compatibility.passed

\* The lineage and the statistics are not what a manifest file is about.
LEMMA EditingKeepsServable ==
  ASSUME NEW d, IsDisk(d), NEW ck \in LocalCheckpoints, NEW declared
  PROVE  LET e == [d EXCEPT ![ck].declared = declared]
         IN \A x \in LocalCheckpoints :
              /\ e[x].data = d[x].data /\ e[x].processors = d[x].processors
              /\ e[x].stats = d[x].stats
              /\ e[x].declared = IF x = ck THEN declared ELSE d[x].declared
              /\ Servable(e, x) <=> Servable(d, x)
              /\ LineageFits(e, x) <=> LineageFits(d, x)
<1> DEFINE e == [d EXCEPT ![ck].declared = declared]
<1>1. DOMAIN d = LocalCheckpoints
      /\ \A x \in LocalCheckpoints :
           d[x] = [parent |-> d[x].parent, data |-> d[x].data, processors |-> d[x].processors,
                   stats |-> d[x].stats, declared |-> d[x].declared]
  BY DEF IsDisk
<1>2. ASSUME NEW x \in LocalCheckpoints
      PROVE  /\ e[x].parent = d[x].parent
             /\ e[x].data = d[x].data /\ e[x].processors = d[x].processors
             /\ e[x].stats = d[x].stats
             /\ e[x].declared = IF x = ck THEN declared ELSE d[x].declared
  <2>1. e[x] = IF x = ck THEN [d[ck] EXCEPT !.declared = declared] ELSE d[x]
    BY <1>1
  <2> HIDE DEF e
  <2>2. QED
    BY <1>1, <2>1
<1> HIDE DEF e
<1>3. ASSUME NEW x \in LocalCheckpoints
      PROVE  \A base : DescendsFrom(e, x, base) <=> DescendsFrom(d, x, base)
  BY <1>2 DEF DescendsFrom
<1>4. \A x \in LocalCheckpoints : Servable(e, x) <=> Servable(d, x)
  BY <1>2, <1>3 DEF Servable
<1>5. \A x \in LocalCheckpoints : Lineage(e, x) = Lineage(d, x)
  BY <1>3 DEF Lineage
<1>6. \A x \in LocalCheckpoints : LineageFits(e, x) <=> LineageFits(d, x)
  BY <1>5 DEF LineageFits
<1>7. QED
  BY <1>2, <1>4, <1>6 DEF e

\* A finite action of a checkpoint that can be served is answered as verified.
LEMMA AnswerIsCertified ==
  ASSUME ServingInv, FitInv, server # Down,
         server[1].id \in LocalCheckpoints, server[1].processors,
         Servable(disk, server[1].id), NEW i, i.finite
  PROVE  Normalize(Output(server[1], i), server[1].compatibility, disk).semantic_action_valid
<1> DEFINE id == server[1].id
           m == GetManifest(disk, id)
           output == Output(server[1], i)
           answer == Normalize(output, server[1].compatibility, disk)
<1>1. /\ server[1].compatibility.model_id = id /\ server[1].compatibility.passed
      /\ TrueDisk(disk) /\ FittingSidecar(disk[id].declared)
      /\ LineageFits(disk, id)
  BY DEF ServingInv, ServerInv, FitInv, Servable
<1>2. GripperKnown(m) /\ ScaleKnown(m)
  BY <1>1, ServablePasses
<1>3. answer = Production(output, m)
  BY <1>1 DEF Normalize
<1>4. output.native /\ output.length = 7 /\ output.finite
  <2>1. id # SmolVLABase
    BY CheckpointServingAssumption DEF Registry
  <2>2. QED
    BY <2>1 DEF Output
<1> HIDE DEF m, output, answer
<1>5. Decodable(output, m)
  BY <1>2, <1>4 DEF Decodable
<1>6. answer.semantic_action_valid = TRUE
  BY <1>3, <1>5 DEF Production, Accepted
<1>7. QED
  BY <1>6 DEF answer, output

LEMMA FitStarts ==
  ASSUME FilesFit, LineagesFit
  PROVE  Init => FitInv /\ OwnFineTunesAreServed
BY DEF FilesFit, LineagesFit, Init, FitInv, OwnFineTunesAreServed

LEMMA FitStep ==
  ASSUME FilesAreTrue, FilesFit, ServingInv, ServingInv', FitInv, OwnFineTunesAreServed, [Next]_vars
  PROVE  FitInv' /\ OwnFineTunesAreServed'
<1>1. ASSUME NEW id \in Served, NEW smoke, NEW processors, StartServer(id, smoke, processors)
      PROVE  FitInv' /\ OwnFineTunesAreServed'
  <2> DEFINE m == GetManifest(disk, id)
  <2>1. /\ server = Down /\ UNCHANGED <<disk, exchange>>
        /\ server' = <<[id |-> id, processors |-> processors,
                       compatibility |-> CompatibilityResult(m, smoke)]>>
        /\ processors => HasProcessors(id)
    BY <1>1 DEF StartServer
  <2>2. id \in LocalCheckpoints /\ Servable(disk, id) => Passes(m)
    BY ServablePasses DEF ServingInv, FitInv, Servable
  <2>3. id \in LocalCheckpoints /\ processors => disk[id].processors
    <3>1. id \in LocalCheckpoints => id # SmolVLALibero
      BY CheckpointServingAssumption DEF Registry
    <3>2. QED
      BY <2>1, <3>1 DEF HasProcessors
  <2> HIDE DEF m
  <2>4. server'[1].id = id /\ server'[1].processors = processors
        /\ server'[1].compatibility.passed = Passes(m)
    BY <2>1 DEF CompatibilityResult
  <2>5. exchange = NoExchange /\ exchange' = NoExchange
    BY <2>1 DEF FitInv
  <2>6. FitInv'
    BY <2>1, <2>2, <2>3, <2>4, <2>5 DEF FitInv, Servable, DescendsFrom, LineageFits, Lineage
  <2>7. QED
    BY <2>5, <2>6 DEF OwnFineTunesAreServed
<1>2. ASSUME NEW ck \in Served \cap LocalCheckpoints, EditSidecar(ck)
      PROVE  FitInv' /\ OwnFineTunesAreServed'
  <2>1. PICK declared \in Sidecars[disk[ck].data] : disk' = [disk EXCEPT ![ck].declared = declared]
    BY <1>2 DEF EditSidecar
  <2>2. \A x \in LocalCheckpoints :
          /\ disk'[x].data = disk[x].data /\ disk'[x].processors = disk[x].processors
          /\ disk'[x].stats = disk[x].stats
          /\ disk'[x].declared = IF x = ck THEN declared ELSE disk[x].declared
          /\ Servable(disk', x) <=> Servable(disk, x)
          /\ LineageFits(disk', x) <=> LineageFits(disk, x)
    <3>1. IsDisk(disk) /\ ck \in LocalCheckpoints
      BY <1>2 DEF ServingInv, TrueDisk
    <3>2. \A x \in LocalCheckpoints :
            LET e == [disk EXCEPT ![ck].declared = declared]
            IN /\ e[x].data = disk[x].data /\ e[x].processors = disk[x].processors
               /\ e[x].stats = disk[x].stats
               /\ e[x].declared = IF x = ck THEN declared ELSE disk[x].declared
               /\ Servable(e, x) <=> Servable(disk, x)
               /\ LineageFits(e, x) <=> LineageFits(disk, x)
      BY <3>1, EditingKeepsServable
    <3>3. QED
      BY <2>1, <3>2, Zenon
  <2>3. UNCHANGED <<server, exchange>>
    BY <1>2 DEF EditSidecar
  <2>4. \A x \in LocalCheckpoints : disk'[x].data = "own" => FittingSidecar(disk'[x].declared)
    BY <2>1, <2>2 DEF FitInv, FilesFit
  <2>5. FitInv'
    BY <2>2, <2>3, <2>4 DEF FitInv, Down
  <2>6. OwnFineTunesAreServed'
    <3> DEFINE id == server[1].id
    <3> SUFFICES ASSUME server # Down, exchange # NoExchange, id \in LocalCheckpoints,
                        server[1].processors, disk'[id].data = "own",
                        GripperRange(disk'[id].stats) # None,
                        MatchesOwnPipeline(disk'[id].stats),
                        DescendsFrom(disk', id, SmolVLALibero)
                 PROVE  Certified \/ ~exchange[1].action.intention.finite
      BY <2>3 DEF OwnFineTunesAreServed, Certified
    <3>1. disk[id].processors /\ disk'[id].processors
      BY <2>2 DEF FitInv
    <3>2. Servable(disk, id)
      BY <2>2, <3>1 DEF Servable
    <3>3. QED
      BY <3>2 DEF OwnFineTunesAreServed, Servable
  <2>7. QED
    BY <2>5, <2>6
<1>3. CASE StopServer
  BY <1>3 DEF StopServer, FitInv, OwnFineTunesAreServed
<1>4. CASE Reset
  BY <1>4 DEF Reset, FitInv, OwnFineTunesAreServed, Servable, DescendsFrom, LineageFits, Lineage
<1>5. CASE Predict
  <2>1. PICK intentions \in [1..ActionSteps[server[1].id] -> Intentions] :
          LET actions == SelectAction(queue, intentions)
          IN exchange' = <<[answer |-> Normalize(Output(server[1], Head(actions).intention),
                                                 server[1].compatibility, disk),
                            action |-> Head(actions)]>>
    BY <1>5 DEF Predict
  <2> DEFINE actions == SelectAction(queue, intentions)
             answer == Normalize(Output(server[1], Head(actions).intention),
                                 server[1].compatibility, disk)
  <2>2. server # Down /\ UNCHANGED <<disk, server>>
    BY <1>5 DEF Predict
  <2>3. /\ exchange' # NoExchange
        /\ exchange'[1].answer = answer /\ exchange'[1].action = Head(actions)
    BY <2>1 DEF NoExchange
  <2> HIDE DEF actions
  <2>4. server[1].id \in LocalCheckpoints /\ server[1].processors /\ Servable(disk, server[1].id)
        /\ Head(actions).intention.finite
        => answer.semantic_action_valid
    BY <2>2, AnswerIsCertified
  <2> HIDE DEF answer
  <2>5. OwnFineTunesAreServed'
    BY <2>2, <2>3, <2>4 DEF OwnFineTunesAreServed, Certified, Servable, FitInv
  <2>6. FitInv'
    BY <2>2 DEF FitInv, Servable, DescendsFrom, LineageFits, Lineage
  <2>7. QED
    BY <2>5, <2>6
<1>6. CASE UNCHANGED vars
  BY <1>6 DEF vars, FitInv, OwnFineTunesAreServed, Servable, DescendsFrom, LineageFits,
     Lineage, Certified
<1>7. QED
  BY <1>1, <1>2, <1>3, <1>4, <1>5, <1>6 DEF Next

\* OwnFineTunesAreServed: a checkpoint of the project's own data with complete
\* files gets every finite action answered as verified, however often it was
\* resumed within the bound of the walk, whatever circles and dead ends other
\* lineages run into, and whatever fitting manifest file is put beside it or
\* taken away while it is served.
THEOREM OwnFineTunesGetThrough ==
  ASSUME FilesAreTrue, FilesFit, LineagesFit
  PROVE  Spec => []OwnFineTunesAreServed
<1> DEFINE I == ServingInv /\ CertifiedMeansIntended /\ FitInv /\ OwnFineTunesAreServed
<1>1. Init => I
  BY ServingStarts, FitStarts
<1>2. I /\ [Next]_vars => I'
  BY ServingStep, FitStep
<1>3. I => OwnFineTunesAreServed
  OBVIOUS
<1>4. QED
  BY <1>1, <1>2, <1>3, PTL DEF Spec
=============================================================================
