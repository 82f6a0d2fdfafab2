---------------------------- MODULE Profiling_proofs ----------------------------
(***************************************************************************)
(* Scans, policies and exports of one source, for every number of          *)
(* processes, every data and every bound: a completed profile is that of   *)
(* the rows its scan opened, an export shows what was activated and no      *)
(* more, and exports that do not overlap stay below the session's cap.      *)
(***************************************************************************)
EXTENDS Profiling, SequenceTheorems, Recursion_proofs

-----------------------------------------------------------------------------
(* Sums.                                                                    *)

(* Total adds the members up, one after the other. *)
LEMMA TotalFacts ==
    ASSUME NEW n \in Nat, NEW f \in [1..n -> Nat]
    PROVE  \E g :
              /\ g \in [0..n -> Nat]
              /\ g[0] = 0 /\ \A k \in 1..n : g[k] = g[k - 1] + f[k]
              /\ Total(f) = g[n]
<1> DEFINE F == [k \in 1..n |-> [x \in Nat |-> x + f[k]]]
           body(g) == [k \in 0..n |-> IF k = 0 THEN 0 ELSE g[k - 1] + f[k]]
           G == CHOOSE g : g = body(g)
<1>1. PICK g : Iterated(g, n, Nat, 0, F)
  <2>1. 0 \in Nat /\ F \in Steps(n, Nat)
    BY DEF Steps
  <2> HIDE DEF F
  <2> QED  BY <2>1, Iterates
<1>2. g \in [0..n -> Nat] /\ g[0] = 0 /\ \A k \in 1..n : g[k] = g[k - 1] + f[k]
  <2>1. \A k \in 1..n : k - 1 \in 0..n /\ g[k - 1] \in Nat
    BY <1>1 DEF Iterated
  <2> QED  BY <1>1, <2>1 DEF Iterated
<1>3. g = body(g)
  <2>1. \A k \in 0..n : k = 0 \/ k \in 1..n
    OBVIOUS
  <2> QED  BY <1>2, <2>1
<1>4. G = body(G)
  <2> HIDE DEF body
  <2> QED  BY <1>3
<1>5. Total(f) = G[n]
  <2>1. Len(f) = n
    BY LenProperties
  <2> QED  BY <2>1 DEF Total
<1>6. G[0] = g[0] /\ \A k \in 1..n : G[k - 1] = g[k - 1] => G[k] = g[k]
  <2>1. \A k \in 0..n : G[k] = IF k = 0 THEN 0 ELSE G[k - 1] + f[k]
    BY <1>4
  <2> HIDE DEF G
  <2>2. G[0] = 0 /\ \A k \in 1..n : G[k] = G[k - 1] + f[k]
    BY <2>1
  <2> QED  BY <1>2, <2>2
<1>7. G[n] = g[n]
  <2> HIDE DEF G
  <2>1. Alike(G, g, n)
    BY <1>6 DEF Alike
  <2>2. n \in 0..n
    OBVIOUS
  <2> QED  BY <2>1, <2>2, SameIterates
<1> QED  BY <1>2, <1>5, <1>7

(* ... so it is a number, no smaller when a member follows, and bounds the   *)
(* sum of every first part.                                                 *)
LEMMA TotalType ==
    ASSUME NEW n \in Nat, NEW f \in [1..n -> Nat]
    PROVE  Total(f) \in Nat
<1>1. PICK g : g \in [0..n -> Nat] /\ Total(f) = g[n]
  BY TotalFacts
<1> QED  BY <1>1

LEMMA TotalGrows ==
    ASSUME NEW n \in Nat, NEW m \in Nat, m = n + 1, NEW f \in [1..n -> Nat],
           NEW h \in [1..m -> Nat], \A k \in 1..n : h[k] = f[k]
    PROVE  Total(h) = Total(f) + h[m]
<1>1. PICK g : /\ g \in [0..n -> Nat]
               /\ g[0] = 0 /\ \A k \in 1..n : g[k] = g[k - 1] + f[k]
               /\ Total(f) = g[n]
  BY TotalFacts
<1>2. PICK d : /\ d \in [0..m -> Nat]
               /\ d[0] = 0 /\ \A k \in 1..m : d[k] = d[k - 1] + h[k]
               /\ Total(h) = d[m]
  BY TotalFacts
<1>3. d[0] = g[0] /\ \A k \in 1..n : d[k - 1] = g[k - 1] => d[k] = g[k]
  BY <1>1, <1>2
<1>4. d[n] = g[n]
  <2>1. Alike(d, g, n)
    BY <1>3 DEF Alike
  <2>2. n \in 0..n
    OBVIOUS
  <2>3. \A k \in 0..n : d[k] = g[k]
    BY <2>1, SameIterates
  <2> QED  BY <2>2, <2>3
<1>5. d[m] = g[n] + h[m]
  BY <1>2, <1>4
<1>6. Total(h) = d[m] /\ Total(f) = g[n]
  BY <1>1, <1>2
<1> QED  BY <1>5, <1>6

LEMMA TotalOfPrefix ==
    ASSUME NEW n \in Nat, NEW f \in [1..n -> Nat], NEW m \in 0..n,
           NEW h \in [1..m -> Nat], \A k \in 1..m : h[k] = f[k]
    PROVE  Total(h) <= Total(f)
<1>1. PICK g : /\ g \in [0..n -> Nat]
               /\ g[0] = 0 /\ \A k \in 1..n : g[k] = g[k - 1] + f[k]
               /\ Total(f) = g[n]
  BY TotalFacts
<1>0. m \in Nat
  OBVIOUS
<1>2. PICK d : /\ d \in [0..m -> Nat]
               /\ d[0] = 0 /\ \A k \in 1..m : d[k] = d[k - 1] + h[k]
               /\ Total(h) = d[m]
  BY <1>0, TotalFacts
<1>3. d[m] = g[m]
  <2>1. Alike(d, g, m)
    BY <1>1, <1>2 DEF Alike
  <2>2. m \in Nat /\ m \in 0..m
    OBVIOUS
  <2>3. \A k \in 0..m : d[k] = g[k]
    BY <2>1, <2>2, SameIterates
  <2> QED  BY <2>2, <2>3
<1> DEFINE T == {i \in 0..(n - m) : g[m] <= g[m + i]}
<1>4. 0 \in T /\ \A i \in 1..(n - m) : i - 1 \in T => i \in T
  <2>1. 0 \in T
    BY <1>1
  <2>2. ASSUME NEW i \in 1..(n - m), i - 1 \in T  PROVE i \in T
    <3>1. m + i \in 1..n /\ m + (i - 1) = (m + i) - 1 /\ m + (i - 1) \in 0..n
      OBVIOUS
    <3>2. g[m + i] = g[m + (i - 1)] + f[m + i] /\ f[m + i] \in Nat
      BY <1>1, <3>1
    <3>3. g[m] <= g[m + (i - 1)]
      BY <2>2
    <3>4. g[m] \in Nat /\ g[m + (i - 1)] \in Nat /\ g[m + i] \in Nat
      BY <1>1, <3>1
    <3> QED  BY <3>2, <3>3, <3>4
  <2> QED  BY <2>1, <2>2
<1>5. n - m \in T
  <2> HIDE DEF T
  <2>1. PICK i \in Nat : i = n - m
    OBVIOUS
  <2>2. 0 \in T /\ \A k \in 1..i : k - 1 \in T => k \in T
    BY <1>4, <2>1
  <2>3. 0..i \subseteq T
    BY <2>2, UpTo
  <2> QED  BY <2>1, <2>3
<1>6. g[m] <= g[n]
  <2>1. m + (n - m) = n
    OBVIOUS
  <2> QED  BY <1>5, <2>1
<1>7. Total(h) = d[m] /\ Total(f) = g[n]
  BY <1>1, <1>2
<1> QED  BY <1>3, <1>6, <1>7

-----------------------------------------------------------------------------
(* What an export shows, and how much of it.                                *)

\* A sequence of samples, each with finitely many fields.
Samples(rows, n) ==
    /\ n \in Nat /\ DOMAIN rows = 1..n
    /\ \A i \in 1..n : IsFiniteSet(DOMAIN rows[i])

(* The weights of samples are numbers, and so is their size. *)
LEMMA WeightsType ==
    ASSUME NEW rows, NEW n, Samples(rows, n)
    PROVE  Weights(rows) \in [1..n -> Nat]
<1>1. \A i \in 1..n : Cardinality(DOMAIN rows[i]) \in Nat
  BY FS_CardinalityType DEF Samples
<1> QED  BY <1>1 DEF Samples, Weights

LEMMA SizeType ==
    ASSUME NEW rows, NEW n, Samples(rows, n), NEW grain, Len(grain) \in Nat
    PROVE  Size(rows, grain) \in Nat
<1>1. n \in Nat
  BY DEF Samples
<1>2. Total(Weights(rows)) \in Nat
  BY <1>1, WeightsType, TotalType
<1> QED  BY <1>2 DEF Size

\* some is a first part of rows.
FirstPart(some, m, rows, n) ==
    /\ m \in 0..n /\ DOMAIN some = 1..m
    /\ \A i \in 1..m : some[i] = rows[i]

LEMMA FirstPartSamples ==
    ASSUME NEW rows, NEW n, Samples(rows, n),
           NEW some, NEW m, FirstPart(some, m, rows, n)
    PROVE  Samples(some, m)
  BY DEF FirstPart, Samples

(* ... and a first part is no larger than the whole. *)
LEMMA SizeOfPart ==
    ASSUME NEW rows, NEW n, Samples(rows, n), NEW grain, Len(grain) \in Nat,
           NEW some, NEW m, FirstPart(some, m, rows, n)
    PROVE  Size(some, grain) <= Size(rows, grain)
<1>1. n \in Nat /\ m \in 0..n /\ m \in Nat
  BY DEF Samples, FirstPart
<1>2. Samples(some, m)
  BY FirstPartSamples
<1>3. Weights(rows) \in [1..n -> Nat] /\ Weights(some) \in [1..m -> Nat]
  BY <1>2, WeightsType
<1>4. \A k \in 1..m : Weights(some)[k] = Weights(rows)[k]
  BY <1>1 DEF Weights, FirstPart, Samples
<1>5. Total(Weights(some)) <= Total(Weights(rows))
  BY <1>1, <1>3, <1>4, TotalOfPrefix
<1>6. Total(Weights(some)) \in Nat /\ Total(Weights(rows)) \in Nat
  BY <1>1, <1>3, TotalType
<1> QED  BY <1>5, <1>6 DEF Size

(* Trimming drops rows from the end. *)
LEMMA TrimmedIsPart ==
    ASSUME NEW rows, NEW n, Samples(rows, n), NEW grain, NEW cap
    PROVE  \E m : FirstPart(Trimmed(rows, grain, cap), m, rows, n)
<1>1. n \in Nat /\ DOMAIN rows = 1..n /\ Len(rows) = n
  <2>1. n \in Nat /\ DOMAIN rows = 1..n
    BY DEF Samples
  <2> QED  BY <2>1
<1> DEFINE fits == {k \in 1 .. Len(rows) : Size(SubSeq(rows, 1, k), grain) <= cap}
<1>2. CASE Len(rows) <= 1
  <2>1. Trimmed(rows, grain, cap) = rows
    BY <1>2 DEF Trimmed
  <2>2. FirstPart(rows, n, rows, n)
    BY <1>1 DEF FirstPart
  <2> QED  BY <2>1, <2>2
<1>3. CASE ~(Len(rows) <= 1)
  <2>1. fits \cup {1} \in SUBSET (0..n) /\ fits \cup {1} # {}
    BY <1>1, <1>3
  <2>2. PICK x \in fits \cup {1} : \A y \in fits \cup {1} : y <= x
    <3> HIDE DEF fits
    <3> QED  BY <1>1, <2>1, GreatestOf
  <2> DEFINE m == Max(fits \cup {1})
  <2>3. m \in fits \cup {1}
    <3>1. \E z \in fits \cup {1} : \A y \in fits \cup {1} : z >= y
      <4>1. x \in 0..n /\ \A y \in fits \cup {1} : y \in 0..n
        BY <2>1
      <4> HIDE DEF fits
      <4>2. \A y \in fits \cup {1} : x >= y
        BY <1>1, <2>2, <4>1
      <4> QED  BY <4>2
    <3> HIDE DEF fits
    <3> QED  BY <3>1 DEF Max
  <2>4. m \in 1..n
    BY <1>1, <1>3, <2>3
  <2>5. Trimmed(rows, grain, cap) = SubSeq(rows, 1, m)
    BY <1>3 DEF Trimmed
  <2> HIDE DEF m
  <2>6. /\ DOMAIN SubSeq(rows, 1, m) = 1..m
        /\ \A i \in 1..m : SubSeq(rows, 1, m)[i] = rows[i]
    BY <1>1, <2>4
  <2>7. FirstPart(SubSeq(rows, 1, m), m, rows, n)
    BY <1>1, <2>4, <2>6 DEF FirstPart
  <2> QED  BY <2>5, <2>7
<1> QED  BY <1>2, <1>3

(* The grain of a policy and the sample of a source are sequences. *)
LEMMA GrainLength ==
    Len(Declared(Grain)) \in Nat
<1> DEFINE D == {i \in DOMAIN Grain : Grain[i] \in Columns}
<1>1. IsFiniteSet(D)
  <2>1. DOMAIN Grain = 1..Len(Grain) /\ Len(Grain) \in Nat
    BY ProfilingAssumption
  <2>2. IsFiniteSet(1..Len(Grain)) /\ D \subseteq 1..Len(Grain)
    BY <2>1, FS_Interval
  <2> QED  BY <2>2, FS_Subset
<1>2. Cardinality(D) \in Nat
  BY <1>1, FS_CardinalityType
<1>3. DOMAIN Declared(Grain) = 1..Cardinality(D)
  BY DEF Declared, Picked
<1> QED  BY <1>2, <1>3

LEMMA SampleDomain ==
    ASSUME NEW R, NEW rows \in Seq(R), NEW grain, NEW code
    PROVE  \E n \in Nat : DOMAIN Sample(rows, grain, code) = 1..n
<1>1. IsFiniteSet(Kept(rows, grain, code))
  <2>1. DOMAIN rows = 1..Len(rows) /\ Len(rows) \in Nat
    OBVIOUS
  <2>2. IsFiniteSet(1..Len(rows)) /\ Kept(rows, grain, code) \subseteq 1..Len(rows)
    BY <2>1, FS_Interval DEF Kept
  <2> QED  BY <2>2, FS_Subset
<1>2. Cardinality(Kept(rows, grain, code)) \in Nat
  BY <1>1, FS_CardinalityType
<1>3. DOMAIN Sample(rows, grain, code) = 1..Cardinality(Kept(rows, grain, code))
  BY DEF Sample
<1> QED  BY <1>2, <1>3

\* Every field an export shows is one of the policy's, transformed as it says;
\* a value shown is revealed, and neither denied nor of the shape of a secret.
ShownBy(fields, row) ==
    \A c \in DOMAIN row :
        /\ c \in Columns /\ fields[c] # "omit"
        /\ "value" \in DOMAIN row[c] =>
              fields[c] = "reveal" /\ c \notin Denied /\ row[c].value \notin Secret

(* Only a revealed field is shown by its value. *)
LEMMA TransformedFacts ==
    ASSUME NEW v, NEW c \in Columns, NEW policy, NEW profile, NEW code,
           policy.fields[c] \in Transforms \ {"omit"}
    PROVE  "value" \in DOMAIN Transformed(v, c, policy, profile, code) =>
              /\ policy.fields[c] = "reveal"
              /\ Transformed(v, c, policy, profile, code).value = v
<1> DEFINE x == Transformed(v, c, policy, profile, code)
<1>1. CASE v = Null
  <2>1. x = [null |-> TRUE]
    BY <1>1 DEF Transformed
  <2> QED  BY <2>1
<1>2. CASE v # Null /\ policy.fields[c] = "redact"
  <2>1. x = [redacted |-> TRUE]
    BY <1>2 DEF Transformed
  <2> QED  BY <2>1
<1>3. CASE v # Null /\ policy.fields[c] = "hash"
  <2>1. x = [salt |-> code, column |-> c, of |-> v]
    BY <1>3 DEF Transformed
  <2> QED  BY <2>1
<1>4. CASE v # Null /\ policy.fields[c] = "bucket"
  <2>1. x = [bucket |-> Bucket(v, profile.columns[c])]
    BY <1>4 DEF Transformed
  <2> QED  BY <2>1
<1>5. CASE v # Null /\ policy.fields[c] = "reveal"
  <2>1. x = [value |-> v]
    BY <1>5 DEF Transformed
  <2> QED  BY <1>5, <2>1
<1> QED  BY <1>1, <1>2, <1>3, <1>4, <1>5 DEF Transforms

(* An export that is not refused shows what its policy allows, and fits. *)
LEMMA ExportFacts ==
    ASSUME NEW R, NEW rows \in Seq(R), NEW policy, NEW profile, NEW code, NEW used \in Nat,
           policy.fields \in [Columns -> Transforms], Len(policy.grain) \in Nat,
           NEW e, e = Export(rows, policy, profile, code, used), e # Refused
    PROVE  /\ e.policy = policy /\ e.profile = profile
           /\ e.bytes \in Nat /\ e.bytes <= Caps.source
           /\ used + e.bytes <= Caps.session
           /\ \A i \in DOMAIN e.rows : ShownBy(policy.fields, e.rows[i])
<1> DEFINE sample == Sample(rows, policy.grain, code)
           whole == Redacted(sample, policy, profile, code)
           source == Trimmed(whole, policy.grain, Caps.source)
           final == Trimmed(source, policy.grain, Caps.session - used)
           size == Size(final, policy.grain)
<1>1. /\ e = [rows |-> final, bytes |-> size, policy |-> policy, profile |-> profile]
      /\ ~Leaks(sample, policy)
      /\ ~(Size(source, policy.grain) > Caps.source)
      /\ ~(size > Caps.session - used)
  BY DEF Export
<1>2. PICK n : /\ Samples(whole, n)
               /\ \A i \in 1..n : whole[i] =
                     [c \in Exposed(policy) |->
                         Transformed(sample[i][c], c, policy, profile, code)]
  <2>1. PICK n \in Nat : DOMAIN sample = 1..n
    BY SampleDomain
  <2>2. IsFiniteSet(Exposed(policy))
    <3>1. Exposed(policy) \subseteq Columns
      BY DEF Exposed
    <3> QED  BY <3>1, SamplingAssumption, FS_Subset
  <2> HIDE DEF sample
  <2>3. /\ DOMAIN whole = 1..n
        /\ \A i \in 1..n : whole[i] =
              [c \in Exposed(policy) |->
                  Transformed(sample[i][c], c, policy, profile, code)]
    BY <2>1 DEF Redacted
  <2>4. \A i \in 1..n : DOMAIN whole[i] = Exposed(policy)
    BY <2>3
  <2> HIDE DEF whole
  <2>5. Samples(whole, n)
    BY <2>1, <2>2, <2>3, <2>4 DEF Samples
  <2> QED  BY <2>3, <2>5
<1> HIDE DEF whole
<1>3. PICK k : FirstPart(source, k, whole, n)
  BY <1>2, TrimmedIsPart
<1> HIDE DEF source
<1>4. Samples(source, k)
  BY <1>2, <1>3, FirstPartSamples
<1>5. PICK m : FirstPart(final, m, source, k)
  BY <1>4, TrimmedIsPart
<1> HIDE DEF final
<1>6. Samples(final, m)
  BY <1>4, <1>5, FirstPartSamples
<1>7. size \in Nat /\ Size(source, policy.grain) \in Nat /\ size <= Size(source, policy.grain)
  BY <1>4, <1>5, <1>6, SizeType, SizeOfPart
<1>8. Caps.source \in Nat /\ Caps.session \in Nat
  BY SamplingAssumption
<1> HIDE DEF size
<1>9. size <= Caps.source /\ used + size <= Caps.session
  BY <1>1, <1>7, <1>8
<1>10. ASSUME NEW i \in DOMAIN final  PROVE ShownBy(policy.fields, final[i])
  <2>1. i \in 1..n /\ final[i] = whole[i]
    <3>1. n \in Nat /\ k \in 0..n /\ m \in 0..k /\ i \in 1..m
      BY <1>2, <1>3, <1>5 DEF FirstPart, Samples
    <3>2. final[i] = source[i] /\ source[i] = whole[i]
      BY <1>3, <1>5, <3>1 DEF FirstPart
    <3> QED  BY <3>1, <3>2
  <2>3. i \in DOMAIN sample
    BY <1>2, <2>1 DEF Samples, whole, Redacted
  <2> HIDE DEF sample
  <2>2. /\ DOMAIN final[i] = Exposed(policy)
        /\ \A c \in Exposed(policy) :
              final[i][c] = Transformed(sample[i][c], c, policy, profile, code)
    <3>1. final[i] = [c \in Exposed(policy) |->
                         Transformed(sample[i][c], c, policy, profile, code)]
      BY <1>2, <2>1
    <3> QED  BY <3>1
  <2>4. ASSUME NEW c \in Exposed(policy)
        PROVE  /\ c \in Columns /\ policy.fields[c] # "omit"
               /\ "value" \in DOMAIN final[i][c] =>
                     /\ policy.fields[c] = "reveal"
                     /\ c \notin Denied /\ final[i][c].value \notin Secret
    <3>1. c \in Columns /\ policy.fields[c] # "omit" /\ policy.fields[c] \in Transforms \ {"omit"}
      BY DEF Exposed
    <3>2. "value" \in DOMAIN final[i][c] =>
             policy.fields[c] = "reveal" /\ final[i][c].value = sample[i][c]
      BY <2>2, <3>1, TransformedFacts
    <3>3. policy.fields[c] = "reveal" => c \notin Denied /\ sample[i][c] \notin Secret
      BY <1>1, <2>3, <3>1 DEF Leaks
    <3> QED  BY <3>1, <3>2, <3>3
  <2> QED  BY <2>2, <2>4 DEF ShownBy
<1> HIDE DEF sample
<1>11. /\ e.rows = final /\ e.bytes = size /\ e.policy = policy /\ e.profile = profile
  BY <1>1
<1> QED  BY <1>7, <1>9, <1>10, <1>11

-----------------------------------------------------------------------------
(* The spill.                                                               *)

File == [index : Nat, batch : Batches, whole : BOOLEAN]

\* The files that the batches of b make, in their order; those at the places T
\* are torn.
Spilled(b, T) ==
    {[index |-> i - 1, batch |-> b[i], whole |-> i \notin T] : i \in DOMAIN b}

(* There is one file for every batch. *)
LEMMA SpilledCount ==
    ASSUME NEW B, NEW b \in Seq(B), NEW T
    PROVE  IsFiniteSet(Spilled(b, T)) /\ Cardinality(Spilled(b, T)) = Len(b)
<1> DEFINE f == [i \in 1..Len(b) |->
                    [index |-> i - 1, batch |-> b[i], whole |-> i \notin T]]
<1>1. Len(b) \in Nat /\ DOMAIN b = 1..Len(b)
  OBVIOUS
<1>2. f \in Bijection(1..Len(b), Spilled(b, T))
  <2>1. f \in [1..Len(b) -> Spilled(b, T)]
    BY <1>1 DEF Spilled
  <2>2. ASSUME NEW i \in 1..Len(b), NEW j \in 1..Len(b), f[i] = f[j]  PROVE i = j
    <3>1. f[i].index = i - 1 /\ f[j].index = j - 1
      OBVIOUS
    <3> HIDE DEF f
    <3>2. i - 1 = j - 1
      BY <2>2, <3>1
    <3> QED  BY <3>2
  <2>3. \A x \in Spilled(b, T) : \E i \in 1..Len(b) : f[i] = x
    BY <1>1 DEF Spilled
  <2> HIDE DEF f
  <2> QED  BY <2>1, <2>2, <2>3 DEF Bijection, Injection, Surjection, IsInjective
<1>3. ExistsBijection(1..Len(b), Spilled(b, T))
  BY <1>2 DEF ExistsBijection
<1>4. IsFiniteSet(1..Len(b)) /\ Cardinality(1..Len(b)) = Len(b)
  BY <1>1, FS_Interval
<1> QED  BY <1>3, <1>4, FS_Bijection

(* The file of one more batch. *)
LEMMA SpilledMore ==
    ASSUME NEW B, NEW b \in Seq(B), NEW x \in B, NEW T, NEW U, NEW m, m = Len(b) + 1,
           \A i \in DOMAIN b : i \in T <=> i \in U
    PROVE  Spilled(Append(b, x), T)
             = Spilled(b, U) \cup {[index |-> Len(b), batch |-> x, whole |-> m \notin T]}
<1> DEFINE c == Append(b, x)
           g(k, h, S) == [index |-> k - 1, batch |-> h[k], whole |-> k \notin S]
<1>1. Len(b) \in Nat /\ DOMAIN b = 1..Len(b) /\ DOMAIN c = 1..m
      /\ c[m] = x /\ \A i \in DOMAIN b : c[i] = b[i]
  OBVIOUS
<1> HIDE DEF c
<1>2. DOMAIN c = DOMAIN b \cup {m}
  <2>1. 1..m = (1..Len(b)) \cup {m}
    BY <1>1
  <2> QED  BY <1>1, <2>1
<1>3. \A i \in DOMAIN b : g(i, c, T) = g(i, b, U)
  <2>1. ASSUME NEW i \in DOMAIN b  PROVE g(i, c, T) = g(i, b, U)
    <3>1. c[i] = b[i] /\ (i \notin T) = (i \notin U)
      BY <1>1
    <3> QED  BY <3>1
  <2> QED  BY <2>1
<1>4. g(m, c, T) = [index |-> Len(b), batch |-> x, whole |-> m \notin T]
  <2>1. m - 1 = Len(b)
    BY <1>1
  <2> QED  BY <1>1, <2>1
<1>5. Spilled(c, T) = {g(i, c, T) : i \in DOMAIN c} /\ Spilled(b, U) = {g(i, b, U) : i \in DOMAIN b}
  BY DEF Spilled
<1> HIDE DEF g
<1>6. Spilled(c, T) = Spilled(b, U) \cup {g(m, c, T)}
  BY <1>2, <1>3, <1>5
<1> QED  BY <1>4, <1>6 DEF c

(* Members that grow from 0 to n - 1 in n steps are those numbers. *)
LEMMA ConsecutiveNumbers ==
    ASSUME NEW n \in Nat, NEW f \in [1..n -> Nat], \A i \in 1..n : f[i] < n,
           \A i \in 1..n, j \in 1..n : i < j => f[i] < f[j]
    PROVE  \A i \in 1..n : f[i] = i - 1
<1> DEFINE T == {k \in 0..n : k \in 1..n => f[k] >= k - 1}
           U == {k \in 0..n : n - k \in 1..n => f[n - k] <= (n - k) - 1}
<1>1. 0..n \subseteq T
  <2>1. 0 \in T
    OBVIOUS
  <2>2. ASSUME NEW k \in 1..n, k - 1 \in T  PROVE k \in T
    <3>1. CASE k = 1
      BY <3>1
    <3>2. CASE k # 1
      <4>1. k - 1 \in 1..n /\ k - 1 < k
        BY <3>2
      <4>2. f[k - 1] >= (k - 1) - 1 /\ f[k - 1] < f[k]
        BY <2>2, <4>1
      <4> QED  BY <4>1, <4>2
    <3> QED  BY <3>1, <3>2
  <2> HIDE DEF T
  <2> QED  BY <2>1, <2>2, UpTo
<1>2. 0..n \subseteq U
  <2>1. 0 \in U
    <3>1. n \in 1..n => f[n] < n /\ f[n] \in Nat
      OBVIOUS
    <3> QED  BY <3>1
  <2>2. ASSUME NEW k \in 1..n, k - 1 \in U  PROVE k \in U
    <3>1. n - (k - 1) = (n - k) + 1
      OBVIOUS
    <3>2. CASE n - k \in 1..n
      <4>1. (n - k) + 1 \in 1..n /\ n - k < (n - k) + 1
        BY <3>2
      <4>2. f[(n - k) + 1] <= ((n - k) + 1) - 1 /\ f[n - k] < f[(n - k) + 1]
        BY <2>2, <3>1, <3>2, <4>1
      <4>3. f[n - k] \in Nat /\ f[(n - k) + 1] \in Nat
        BY <3>2, <4>1
      <4> QED  BY <4>2, <4>3
    <3> QED  BY <3>2
  <2> HIDE DEF U
  <2> QED  BY <2>1, <2>2, UpTo
<1>3. ASSUME NEW i \in 1..n  PROVE f[i] = i - 1
  <2>1. i \in 0..n /\ n - i \in 0..n /\ n - (n - i) = i
    OBVIOUS
  <2>2. i \in T /\ n - i \in U
    BY <1>1, <1>2, <2>1
  <2>3. f[i] >= i - 1 /\ f[i] <= i - 1
    BY <2>1, <2>2
  <2> QED  BY <2>3
<1> QED  BY <1>3

(* The files in the order of their names are those of the batches spilled. *)
LEMMA FilesOfSpill ==
    ASSUME NEW B, NEW b \in Seq(B), NEW T, spill = Spilled(b, T)
    PROVE  Files = [i \in 1..Len(b) |->
                      [index |-> i - 1, batch |-> b[i], whole |-> i \notin T]]
<1> DEFINE n == Len(b)
           w == [i \in 1..n |-> [index |-> i - 1, batch |-> b[i], whole |-> i \notin T]]
           Orders == [1 .. Cardinality(spill) -> spill]
           order == CHOOSE f \in Orders : ByName(f)
<1>1. n \in Nat /\ DOMAIN b = 1..n /\ Cardinality(spill) = n
  BY SpilledCount
<1>a. \A i \in 1..n : w[i].index = i - 1
  OBVIOUS
<1>b. spill = {w[i] : i \in 1..n} /\ w \in [1..n -> spill] /\ DOMAIN w = 1..n
  BY <1>1 DEF Spilled
<1> HIDE DEF w
<1>2. w \in Orders /\ ByName(w)
  <2>1. ASSUME NEW i \in 1..n, NEW j \in 1..n, i < j
        PROVE  w[i] # w[j] /\ w[i].index <= w[j].index
    <3>1. w[i].index = i - 1 /\ w[j].index = j - 1
      BY <1>a
    <3> QED  BY <2>1, <3>1
  <2> QED  BY <1>1, <1>b, <2>1 DEF ByName
<1>3. order \in Orders /\ ByName(order)
  <2> HIDE DEF Orders
  <2> QED  BY <1>2
<1> HIDE DEF order
<1>4. order \in [1..n -> spill]
  BY <1>1, <1>3
<1>5. \A i \in 1..n : \E k \in 1..n : order[i] = w[k]
  BY <1>4, <1>b
<1> DEFINE g == [i \in 1..n |-> order[i].index]
<1>6. g \in [1..n -> Nat] /\ \A i \in 1..n : g[i] < n
  <2>1. ASSUME NEW i \in 1..n  PROVE order[i].index \in Nat /\ order[i].index < n
    <3>1. PICK k \in 1..n : order[i] = w[k]
      BY <1>5
    <3>2. order[i].index = k - 1
      BY <1>a, <3>1
    <3> QED  BY <1>1, <3>2
  <2> QED  BY <2>1
<1>7. ASSUME NEW i \in 1..n, NEW j \in 1..n, i < j  PROVE g[i] < g[j]
  <2>1. order[i] # order[j] /\ order[i].index <= order[j].index
    BY <1>3, <1>4, <1>7 DEF ByName
  <2>2. PICK k \in 1..n : order[i] = w[k]
    BY <1>5
  <2>3. PICK l \in 1..n : order[j] = w[l]
    BY <1>5
  <2>4. k # l
    BY <2>1, <2>2, <2>3
  <2>5. order[i].index = k - 1 /\ order[j].index = l - 1
    BY <1>a, <2>2, <2>3
  <2>6. k - 1 < l - 1
    BY <2>1, <2>4, <2>5
  <2> QED  BY <2>5, <2>6
<1>8. \A i \in 1..n : g[i] = i - 1
  <2> HIDE DEF g
  <2> QED  BY <1>1, <1>6, <1>7, ConsecutiveNumbers
<1>9. \A i \in 1..n : order[i] = w[i]
  <2>1. ASSUME NEW i \in 1..n  PROVE order[i] = w[i]
    <3>1. PICK k \in 1..n : order[i] = w[k]
      BY <1>5
    <3>2. k - 1 = i - 1
      BY <1>8, <1>a, <3>1
    <3>3. k = i
      BY <3>2
    <3> QED  BY <3>1, <3>3
  <2> QED  BY <2>1
<1>10. order = w
  <2>1. order = [i \in 1..n |-> order[i]] /\ w = [i \in 1..n |-> w[i]]
    BY <1>4, <1>b
  <2> QED  BY <1>9, <2>1
<1> QED  BY <1>10 DEF Files, order, w

(* The spill has just the names of the checkpoint's batches when it is resumed. *)
LEMMA ResumableSpill ==
    ASSUME NEW B, NEW c, c.hashes \in Seq(B), Resumable(c), IsFiniteSet(spill),
           spill \subseteq File
    PROVE  \E T \in SUBSET (1..Len(c.hashes)) :
              spill = Spilled(c.hashes, T) /\ ((\A f \in spill : f.whole) <=> T = {})
<1> DEFINE h == c.hashes
           Whole(i) == [index |-> i - 1, batch |-> h[i], whole |-> TRUE]
           Torn(i) == [index |-> i - 1, batch |-> h[i], whole |-> FALSE]
           T == {i \in 1..Len(h) : Whole(i) \notin spill}
<1>0. DOMAIN h = 1..Len(h)
  OBVIOUS
<1>1. Spilled(h, T) \subseteq spill
  <2>1. ASSUME NEW i \in DOMAIN h
        PROVE  [index |-> i - 1, batch |-> h[i], whole |-> i \notin T] \in spill
    <3>1. PICK f \in spill : f.index = i - 1 /\ f.batch = h[i]
      BY DEF Resumable, Named
    <3>2. f = Whole(i) \/ f = Torn(i)
      BY <3>1 DEF File
    <3>3. CASE i \in T
      <4>1. Whole(i) \notin spill /\ (i \notin T) = FALSE
        BY <3>3
      <4> QED  BY <3>1, <3>2, <4>1
    <3>4. CASE i \notin T
      <4>1. Whole(i) \in spill /\ (i \notin T) = TRUE
        BY <1>0, <3>4
      <4> QED  BY <4>1
    <3> QED  BY <3>3, <3>4
  <2> QED  BY <2>1 DEF Spilled
<1> HIDE DEF T
<1>2. spill = Spilled(h, T)
  <2>1. Cardinality(Spilled(h, T)) = Cardinality(spill)
    BY SpilledCount DEF Resumable
  <2> QED  BY <1>1, <2>1, FS_Subset
<1>3. (\A f \in spill : f.whole) <=> T = {}
  <2>1. \A i \in DOMAIN h :
           [index |-> i - 1, batch |-> h[i], whole |-> i \notin T].whole = (i \notin T)
    OBVIOUS
  <2>2. T \subseteq DOMAIN h
    BY <1>0 DEF T
  <2>3. (\A f \in spill : f.whole) <=> \A i \in DOMAIN h : i \notin T
    BY <1>2, <2>1 DEF Spilled
  <2> QED  BY <2>2, <2>3
<1> QED  BY <1>2, <1>3 DEF T

-----------------------------------------------------------------------------
(* Scans: the invariant.                                                    *)

ScanJob ==
    [at : {"clear", "read", "spill", "aggregate"}, doomed : SUBSET File,
     batches : Seq(Batches), token : {Token(v) : v \in Versions},
     known : Seq(Batches), index : Nat, hashes : Seq(Batches), stop : Nat,
     late : BOOLEAN, closed : BOOLEAN,
     alone : BOOLEAN, honest : BOOLEAN, intact : BOOLEAN]
Scans(j) == j.at \in {"clear", "read", "spill", "aggregate", "drop"}

\* The place of the next batch; and of what was read and the checkpoint, the
\* longer.
Place(j) == Len(j.hashes) + 1
Longer(j) == IF Len(j.hashes) <= Len(j.known) THEN j.known ELSE j.hashes

\* What the spill of a scan that is alone holds.  T are the places of the
\* checkpoint's batches whose files are torn.
Held(j, files) ==
    \E T \in SUBSET (1..Len(j.known)) :
        /\ j.intact <=> T = {}
        /\ \/ /\ j.at = "clear" /\ j.doomed = {}
              /\ files = Spilled(j.known, T)
           \/ /\ j.at = "clear" /\ j.known = <<>> /\ T = {}
              /\ files \subseteq j.doomed
           \/ /\ j.at \in {"read", "aggregate"}
              /\ files = Spilled(Longer(j), T)
           \/ /\ j.at = "spill"
              /\ files = Spilled(Append(j.hashes, j.batches[Place(j)]), T \cup {Place(j)})

\* What was read is a first part of the stream, and agrees with the checkpoint;
\* a stream closed before its end is flagged late; and a scan that is alone
\* counts its files.
ReadsOn(j, files) ==
    /\ Len(j.hashes) <= Len(j.batches)
    /\ \A i \in 1..Len(j.hashes) :
          /\ j.hashes[i] = j.batches[i]
          /\ i <= Len(j.known) => j.known[i] = j.batches[i]
    /\ j.at = "clear" => j.hashes = <<>>
    /\ j.at = "spill" => Len(j.known) < Place(j) /\ Place(j) <= Len(j.batches)
    /\ j.at = "aggregate" => Len(j.hashes) = Len(j.batches)
    /\ j.closed => j.late
    /\ j.honest => Len(j.known) <= Len(j.batches)
    /\ j.alone /\ j.at # "clear" => j.index = Len(Longer(j))
    /\ j.alone => Held(j, files)

Shaped(files) == IsFiniteSet(files) /\ files \subseteq File
Recorded(r) ==
    /\ r.profile.outcome \in {"completed", "partial"}
    /\ r.profile.outcome = "partial" => r.profile.hashes \in Seq(Batches)
    /\ Available(r.profile) /\ r.alone /\ r.honest =>
          r.profile = IF r.intact
                        THEN Completed(r.profile.token, r.batches, r.batches, Grain)
                        ELSE Uncounted(r.profile.token, r.batches)

\* A scan that ends holds its profile until the spill is empty.
Drops(j) ==
    /\ j \in [at : {"drop"}, doomed : {j.doomed}, report : {j.report}, alone : BOOLEAN]
    /\ j.report = Null \/ Recorded(j.report)
Standing(j, files) == IF j.at = "drop" THEN Drops(j) ELSE j \in ScanJob /\ ReadsOn(j, files)

JobsShaped ==
    /\ DOMAIN job = Procs
    /\ \A p \in Procs : Scans(job[p]) => Standing(job[p], spill)
ScansAlone ==
    \A p, q \in Procs : Scans(job[p]) /\ Scans(job[q]) /\ job[p].alone => p = q

ScanInv ==
    /\ data \in Versions /\ approver \in Approvers
    /\ JobsShaped /\ ScansAlone /\ Shaped(spill)
    /\ \A r \in profiles : Recorded(r)

-----------------------------------------------------------------------------
(* Exports: the invariant.                                                  *)

Exports(j) == j.at \in {"build", "name", "write"}

\* An export rests on one of acts, and shows no more than it allows.
Approved(e, a, acts) ==
    /\ Activation(e.policy, e.profile, a) \in acts
    /\ e.bytes \in Nat /\ e.bytes <= Caps.source
    /\ \A i \in DOMAIN e.rows : ShownBy(e.policy.fields, e.rows[i])

Activated(a) ==
    /\ a = Activation(a.policy, a.profile, a.approver)
    /\ Activatable(a.policy, a.profile)
    /\ a.policy.grain = Declared(Grain)
    /\ a.approver \in Approvers

\* What an export command holds, over the activations and n exports.
Exporter(j, acts, n) ==
    /\ j.at = "build" =>
          Activation(j.policy, j.profile, j.approver) \in acts /\ j.used \in Nat
    /\ j.at \in {"name", "write"} => Approved(j.export, j.approver, acts)
    /\ j.at = "write" => j.number \in 1..(n + 1)

\* The exports ex are numbered from 1 to n.
Numbered(ex, n) ==
    /\ n \in Nat /\ DOMAIN ex = 1..n
    /\ \A k \in 1..n : ex[k].bytes \in Nat /\ ex[k].bytes <= Caps.source

Bytes(ex) == Total([k \in DOMAIN ex |-> ex[k].bytes])

\* A command that exports alone knows what is spent, and the next number.
Spends(j, ex, n) ==
    Exports(j) /\ j.alone =>
        /\ j.at = "build" => j.used = Bytes(ex)
        /\ j.at \in {"name", "write"} => Bytes(ex) + j.export.bytes <= Caps.session
        /\ j.at = "write" => j.number = n + 1
Within(x, ex, n) == x.number \in 1..n /\ ex[x.number] = x.export

ExportInv ==
    /\ DOMAIN job = Procs
    /\ approver \in Approvers
    /\ salt \in {Null, Empty, TheSalt}
    /\ activation = Null \/ activation \in activations
    /\ \A a \in activations : Activated(a)
    /\ \A x \in published : Approved(x.export, x.approver, activations)
    /\ \A p, q \in Procs :
          Exports(job[p]) /\ Exports(job[q]) /\ job[p].alone /\ job[q].alone => p = q
    /\ \E n :
          /\ Numbered(exports, n)
          /\ \A p \in Procs : Exporter(job[p], activations, n)
          /\ (\A x \in published : x.alone) =>
                /\ \A x \in published : Within(x, exports, n)
                /\ Bytes(exports) <= Caps.session
                /\ \A p \in Procs : Spends(job[p], exports, n)

-----------------------------------------------------------------------------
(* Scans: the steps.                                                        *)

(* The first state has no scan. *)
LEMMA InitScan ==
    Init => ScanInv
<1> SUFFICES ASSUME Init  PROVE ScanInv
  OBVIOUS
<1>1. DOMAIN job = Procs /\ \A p \in Procs : job[p].at = "idle"
  BY DEF Init, Idle
<1>2. JobsShaped /\ ScansAlone
  BY <1>1 DEF JobsShaped, ScansAlone, Scans
<1>3. data \in Versions /\ approver \in Approvers
  BY ProfilingAssumption DEF Init
<1>4. Shaped(spill) /\ \A r \in profiles : Recorded(r)
  BY FS_EmptySet DEF Init, Shaped
<1> QED  BY <1>2, <1>3, <1>4 DEF ScanInv

(* A step that leaves the spill, the profiles and every scan as they are. *)
LEMMA ScansRest ==
    ASSUME ScanInv, UNCHANGED <<spill, profiles>>,
           data' \in Versions, approver' \in Approvers, DOMAIN job' = Procs,
           \A p \in Procs : job'[p] = job[p] \/ ~Scans(job'[p])
    PROVE  ScanInv'
<1>1. JobsShaped'
  BY DEF ScanInv, JobsShaped
<1>2. ScansAlone'
  BY DEF ScanInv, ScansAlone
<1>3. Shaped(spill)' /\ (\A r \in profiles : Recorded(r))'
  BY DEF ScanInv
<1> QED  BY <1>1, <1>2, <1>3 DEF ScanInv

(* A step of one scan: the others are not alone, so the spill is its own. *)
LEMMA ScanSteps ==
    ASSUME ScanInv, NEW p \in Procs, Scans(job[p]), NEW j,
           Goes(p, j), UNCHANGED <<data, approver>>,
           Scans(j) => Standing(j, spill') /\ j.alone = job[p].alone,
           Shaped(spill'), \A r \in profiles' : Recorded(r)
    PROVE  ScanInv'
<1>1. DOMAIN job' = Procs /\ job'[p] = j /\ \A q \in Procs \ {p} : job'[q] = job[q]
  BY DEF ScanInv, JobsShaped, Goes
<1>2. ASSUME NEW q \in Procs, Scans(job'[q])
      PROVE  Standing(job'[q], spill')
  <2>1. CASE q = p
    BY <1>1, <1>2, <2>1
  <2>2. CASE q # p
    <3>1. job'[q] = job[q] /\ Scans(job[q]) /\ Standing(job[q], spill)
      BY <1>1, <1>2, <2>2 DEF ScanInv, JobsShaped
    <3>2. ~job[q].alone
      BY <2>2, <3>1 DEF ScanInv, ScansAlone
    <3>3. Standing(job[q], spill')
      BY <3>1, <3>2 DEF Standing, ReadsOn
    <3> QED  BY <3>1, <3>3
  <2> QED  BY <2>1, <2>2
<1>3. JobsShaped'
  BY <1>1, <1>2 DEF JobsShaped
<1>4. ScansAlone'
  <2>1. ASSUME NEW q \in Procs, NEW r \in Procs,
               Scans(job'[q]), Scans(job'[r]), job'[q].alone
        PROVE  q = r
    <3>1. Scans(job[q]) /\ Scans(job[r]) /\ job[q].alone
      BY <1>1, <2>1
    <3> QED  BY <3>1 DEF ScanInv, ScansAlone
  <2> QED  BY <2>1 DEF ScansAlone
<1>5. Shaped(spill)' /\ (\A r \in profiles : Recorded(r))'
  OBVIOUS
<1>6. data' \in Versions /\ approver' \in Approvers
  BY DEF ScanInv
<1> QED  BY <1>3, <1>4, <1>5, <1>6 DEF ScanInv

(* What is known of a scan that is not yet dropping its spill. *)
LEMMA ScanFacts ==
    ASSUME ScanInv, NEW p \in Procs,
           job[p].at \in {"clear", "read", "spill", "aggregate"}
    PROVE  /\ Scans(job[p]) /\ job[p] \in ScanJob /\ ReadsOn(job[p], spill)
           /\ job[p].hashes \in Seq(Batches) /\ job[p].batches \in Seq(Batches)
           /\ job[p].known \in Seq(Batches) /\ job[p].index \in Nat
           /\ Shaped(spill) /\ \A r \in profiles : Recorded(r)
<1>1. Scans(job[p]) /\ job[p].at # "drop"
  BY DEF Scans
<1>2. job[p] \in ScanJob /\ ReadsOn(job[p], spill)
  BY <1>1 DEF ScanInv, JobsShaped, Standing
<1> QED  BY <1>1, <1>2 DEF ScanInv, ScanJob

(* A run that fails, and one that ends. *)
LEMMA FailKeeps ==
    ASSUME ScanInv, NEW p \in Procs, Scans(job[p]), Goes(p, Idle),
           UNCHANGED <<data, approver>>, Shaped(spill'), \A r \in profiles' : Recorded(r)
    PROVE  ScanInv'
<1>1. ~Scans(Idle)
  BY DEF Scans, Idle
<1> QED  BY <1>1, ScanSteps

LEMMA FinishKeeps ==
    ASSUME ScanInv, NEW p \in Procs, job[p] \in ScanJob, Scans(job[p]),
           NEW report, Finishes(p, report),
           UNCHANGED <<data, approver, spill, profiles>>, report = Null \/ Recorded(report)
    PROVE  ScanInv'
<1> DEFINE j == [at |-> "drop", doomed |-> spill, report |-> report, alone |-> job[p].alone]
<1>1. Goes(p, j)
  BY DEF Finishes
<1>2. j.at = "drop" /\ j.alone = job[p].alone /\ Drops(j)
  BY DEF Drops, ScanJob
<1> HIDE DEF j
<1>3. Standing(j, spill')
  BY <1>2 DEF Standing
<1>4. Shaped(spill') /\ \A r \in profiles' : Recorded(r)
  BY DEF ScanInv
<1> QED  BY <1>1, <1>2, <1>3, <1>4, ScanSteps

(* Beginning a scan. *)
LEMMA BeginScanKeeps ==
    ASSUME ScanInv, NEW p \in Procs, NEW c \in Checkpoints \cup {Null},
           NEW stop \in Stops, BeginScan(p, c, stop)
    PROVE  ScanInv'
<1> DEFINE resumes == Resumable(c)
           known == IF resumes THEN c.hashes ELSE << >>
           doomed == IF resumes THEN {} ELSE spill
           intact == (resumes => \A f \in spill : f.whole)
           honest == Len(known) <= Len(Content(data))
           alone == Scanning = {}
           j == [at |-> "clear", doomed |-> doomed,
                 batches |-> Content(data), token |-> Token(data),
                 known |-> known, index |-> 0, hashes |-> <<>>, stop |-> stop,
                 late |-> FALSE, closed |-> FALSE,
                 alone |-> alone, honest |-> honest, intact |-> intact]
<1>1. BeginsScan(p, j) /\ UNCHANGED <<data, approver, spill, profiles>>
  BY DEF BeginScan, history, workspace
<1>2. known \in Seq(Batches) /\ Len(known) \in Nat
  <2>1. CASE resumes
    <3>1. c \in Checkpoints
      BY <2>1 DEF Resumable
    <3>2. PICK r \in profiles : r.profile = c /\ c.outcome = "partial"
      BY <3>1 DEF Checkpoints
    <3>3. c.hashes \in Seq(Batches)
      BY <3>2 DEF ScanInv, Recorded
    <3> QED  BY <2>1, <3>3
  <2>2. CASE ~resumes
    BY <2>2
  <2> QED  BY <2>1, <2>2
<1>3. \E T \in SUBSET (1..Len(known)) :
         /\ intact <=> T = {}
         /\ \/ doomed = {} /\ spill = Spilled(known, T)
            \/ known = <<>> /\ T = {} /\ spill \subseteq doomed
  <2>1. CASE resumes
    <3>1. c.hashes \in Seq(Batches) /\ known = c.hashes /\ doomed = {}
      BY <1>2, <2>1
    <3>2. PICK T \in SUBSET (1..Len(c.hashes)) :
             spill = Spilled(c.hashes, T) /\ ((\A f \in spill : f.whole) <=> T = {})
      BY <2>1, <3>1, ResumableSpill DEF ScanInv, Shaped
    <3> QED  BY <2>1, <3>1, <3>2
  <2>2. CASE ~resumes
    <3>1. known = <<>> /\ doomed = spill /\ intact
      BY <2>2
    <3> HIDE DEF known, doomed, intact
    <3> QED  BY <3>1
  <2> QED  BY <2>1, <2>2
<1>4. /\ doomed \in SUBSET File /\ alone \in BOOLEAN /\ honest \in BOOLEAN
      /\ intact \in BOOLEAN
  BY DEF ScanInv, Shaped
<1> HIDE DEF known, doomed, intact, alone
<1>5. j \in ScanJob
  <2>1. data \in Versions /\ Content(data) \in Seq(Batches) /\ Token(data) \in {Token(v) : v \in Versions}
    BY ProfilingAssumption DEF ScanInv
  <2>2. << >> \in Seq(Batches) /\ stop \in Nat
    BY ProfilingAssumption
  <2> HIDE DEF honest
  <2> QED  BY <1>2, <1>4, <2>1, <2>2 DEF ScanJob
<1>6. /\ j.at = "clear" /\ j.hashes = <<>> /\ j.known = known /\ j.batches = Content(data)
      /\ j.doomed = doomed /\ j.closed = FALSE /\ j.alone = alone /\ j.intact = intact
      /\ j.honest = honest
  OBVIOUS
<1> HIDE DEF j
<1>7. Standing(j, spill')
  <2>1. Held(j, spill')
    BY <1>1, <1>3, <1>6 DEF Held
  <2>2. Len(Content(data)) \in Nat /\ Len(j.hashes) = 0 /\ 1..Len(j.hashes) = {}
    BY <1>6, ProfilingAssumption DEF ScanInv
  <2>3. j.honest => Len(j.known) <= Len(j.batches)
    BY <1>6 DEF honest
  <2>4. Len(j.hashes) <= Len(j.batches) /\ ~j.closed
    BY <1>6, <2>2
  <2>5. ReadsOn(j, spill')
    BY <1>6, <2>1, <2>2, <2>3, <2>4 DEF ReadsOn
  <2> QED  BY <1>5, <1>6, <2>5 DEF Standing
<1>8. /\ DOMAIN job' = Procs /\ job'[p] = j
      /\ \A q \in Procs \ {p} :
            job'[q] = IF q \in Scanning THEN [job[q] EXCEPT !.alone = FALSE] ELSE job[q]
  <2>1. job' = [q \in Procs |-> CASE q = p -> j
                                 [] q \in Scanning -> [job[q] EXCEPT !.alone = FALSE]
                                 [] OTHER -> job[q]]
    BY <1>1 DEF BeginsScan
  <2>2. p \notin Scanning
    BY DEF BeginScan, Free, Scanning, Idle
  <2>3. ASSUME NEW q \in Procs \ {p}
        PROVE  job'[q] = IF q \in Scanning THEN [job[q] EXCEPT !.alone = FALSE] ELSE job[q]
    <3>1. CASE q \in Scanning
      BY <2>1, <2>3, <3>1
    <3>2. CASE q \notin Scanning
      BY <2>1, <2>3, <3>2
    <3> QED  BY <3>1, <3>2
  <2>4. job'[p] = j
    BY <2>1, <2>2
  <2> QED  BY <2>1, <2>3, <2>4
<1>9. ASSUME NEW q \in Procs \ {p}, Scans(job'[q])
      PROVE  Standing(job'[q], spill') /\ ~job'[q].alone /\ q \in Scanning
  <2>1. q \in Scanning <=> Scans(job[q])
    BY DEF Scanning, Scans
  <2>2. q \in Scanning
    BY <1>8, <1>9, <2>1
  <2>3. job'[q] = [job[q] EXCEPT !.alone = FALSE] /\ Standing(job[q], spill)
    BY <1>8, <2>1, <2>2 DEF ScanInv, JobsShaped
  <2>4. CASE job[q].at = "drop"
    <3>1. Drops(job[q])
      BY <2>3, <2>4 DEF Standing
    <3>2. /\ job'[q].at = "drop" /\ job'[q].alone = FALSE /\ job'[q].doomed = job[q].doomed
          /\ job'[q].report = job[q].report
          /\ job'[q] \in [at : {"drop"}, doomed : {job[q].doomed}, report : {job[q].report},
                          alone : BOOLEAN]
      BY <2>3, <3>1 DEF Drops
    <3>3. Drops(job'[q])
      BY <3>1, <3>2 DEF Drops
    <3> QED  BY <2>2, <3>2, <3>3 DEF Standing
  <2>5. CASE job[q].at # "drop"
    <3>1. job[q] \in ScanJob /\ ReadsOn(job[q], spill)
      BY <2>3, <2>5 DEF Standing
    <3>2. /\ job'[q] \in ScanJob /\ job'[q].alone = FALSE
          /\ job'[q].at = job[q].at /\ job'[q].hashes = job[q].hashes
          /\ job'[q].batches = job[q].batches /\ job'[q].known = job[q].known
          /\ job'[q].index = job[q].index /\ job'[q].closed = job[q].closed
          /\ job'[q].late = job[q].late /\ job'[q].honest = job[q].honest
      BY <2>3, <3>1 DEF ScanJob
    <3>3. ReadsOn(job'[q], spill')
      BY <3>1, <3>2 DEF ReadsOn, Place
    <3> QED  BY <2>2, <2>5, <3>2, <3>3 DEF Standing
  <2> QED  BY <2>4, <2>5
<1>10. JobsShaped'
  <2>1. ASSUME NEW q \in Procs, Scans(job'[q])  PROVE Standing(job'[q], spill')
    BY <1>7, <1>8, <1>9, <2>1
  <2> QED  BY <1>8, <2>1 DEF JobsShaped
<1>11. ScansAlone'
  <2>1. job'[p].alone = (Scanning = {})
    BY <1>6, <1>8 DEF alone
  <2>2. ASSUME NEW q \in Procs, NEW r \in Procs,
               Scans(job'[q]), Scans(job'[r]), job'[q].alone, q # r
        PROVE  FALSE
    <3>1. q = p
      BY <1>9, <2>2
    <3>2. Scanning = {} /\ r \in Scanning
      BY <1>9, <2>1, <2>2, <3>1
    <3> QED  BY <3>2
  <2> QED  BY <2>2 DEF ScansAlone
<1>12. /\ data' \in Versions /\ approver' \in Approvers /\ Shaped(spill)'
       /\ (\A r \in profiles : Recorded(r))'
  BY <1>1 DEF ScanInv
<1> QED  BY <1>10, <1>11, <1>12 DEF ScanInv

(* Removing a file leaves a smaller spill. *)
LEMMA WithoutShaped ==
    ASSUME Shaped(spill), NEW index, NEW batch
    PROVE  Shaped(Without(index, batch)) /\ Without(index, batch) \subseteq spill
<1>1. Without(index, batch) \subseteq spill
  BY DEF Without
<1> QED  BY <1>1, FS_Subset DEF Shaped

(* Emptying the spill before the first batch. *)
LEMMA ClearKeeps ==
    ASSUME ScanInv, NEW p \in Procs, Clear(p)
    PROVE  ScanInv'
<1> DEFINE j == job[p]
<1>1. /\ j.at = "clear" /\ UNCHANGED <<data, approver, profiles>>
      /\ Scans(j) /\ j \in ScanJob /\ ReadsOn(j, spill) /\ Shaped(spill)
      /\ j.hashes = <<>> /\ j.known \in Seq(Batches) /\ \A r \in profiles' : Recorded(r)
  <2>1. j.at = "clear" /\ UNCHANGED <<data, approver, profiles>>
    BY DEF Clear, history
  <2>2. j.at \in {"clear", "read", "spill", "aggregate"}
    BY <2>1
  <2> QED  BY <2>1, <2>2, ScanFacts DEF ReadsOn
<1>2. \/ \E f \in j.doomed : /\ spill' = Without(f.index, f.batch)
                             /\ Goes(p, [j EXCEPT !.doomed = @ \ {f}])
      \/ /\ j.doomed = {} /\ UNCHANGED spill
         /\ Goes(p, [j EXCEPT !.at = "read", !.index = Cardinality(spill)])
  BY DEF Clear
<1> HIDE DEF j
<1>3. ASSUME NEW f \in j.doomed, spill' = Without(f.index, f.batch),
             Goes(p, [j EXCEPT !.doomed = @ \ {f}])
      PROVE  ScanInv'
  <2> DEFINE i == [j EXCEPT !.doomed = @ \ {f}]
  <2>1. /\ i \in ScanJob /\ i.at = "clear" /\ i.doomed = j.doomed \ {f}
        /\ i.hashes = j.hashes /\ i.batches = j.batches /\ i.known = j.known
        /\ i.index = j.index /\ i.closed = j.closed /\ i.late = j.late
        /\ i.alone = j.alone /\ i.honest = j.honest /\ i.intact = j.intact
    BY <1>1 DEF ScanJob
  <2>2. Goes(p, i)
    BY <1>3
  <2> HIDE DEF i
  <2>3. Shaped(spill') /\ spill' \subseteq spill
    BY <1>1, <1>3, WithoutShaped
  <2>a. f \notin spill'
    BY <1>3 DEF Without, Named
  <2>4. ASSUME Held(j, spill)  PROVE Held(i, spill')
    <3>1. PICK T \in SUBSET (1..Len(j.known)) :
             (j.intact <=> T = {}) /\ j.known = <<>> /\ T = {} /\ spill \subseteq j.doomed
      BY <1>1, <1>3, <2>4 DEF Held
    <3>2. spill' \subseteq i.doomed
      BY <2>1, <2>3, <2>a, <3>1
    <3> QED  BY <2>1, <3>1, <3>2 DEF Held
  <2>5. ReadsOn(i, spill')
    BY <1>1, <2>1, <2>4 DEF ReadsOn
  <2>6. Standing(i, spill') /\ i.alone = j.alone
    BY <2>1, <2>5 DEF Standing
  <2> QED  BY <1>1, <2>2, <2>3, <2>6, ScanSteps DEF j
<1>4. ASSUME j.doomed = {}, UNCHANGED spill,
             Goes(p, [j EXCEPT !.at = "read", !.index = Cardinality(spill)])
      PROVE  ScanInv'
  <2> DEFINE n == Cardinality(spill)
             i == [j EXCEPT !.at = "read", !.index = n]
  <2>1. n \in Nat
    BY <1>1, FS_CardinalityType DEF Shaped
  <2> HIDE DEF n
  <2>2. /\ i \in ScanJob /\ i.at = "read" /\ i.index = n
        /\ i.hashes = j.hashes /\ i.batches = j.batches /\ i.known = j.known
        /\ i.closed = j.closed /\ i.late = j.late
        /\ i.alone = j.alone /\ i.honest = j.honest /\ i.intact = j.intact
    BY <1>1, <2>1 DEF ScanJob
  <2>3. Goes(p, i)
    BY <1>4 DEF n
  <2> HIDE DEF i
  <2>4. Longer(i) = i.known
    <3>1. Len(i.hashes) = 0 /\ Len(i.known) \in Nat
      BY <1>1, <2>2
    <3> QED  BY <3>1 DEF Longer
  <2>5. ASSUME Held(j, spill)  PROVE Held(i, spill') /\ n = Len(i.known)
    <3>1. PICK T \in SUBSET (1..Len(j.known)) :
             /\ j.intact <=> T = {}
             /\ \/ spill = Spilled(j.known, T)
                \/ j.known = <<>> /\ T = {} /\ spill \subseteq {}
      BY <1>1, <1>4, <2>5 DEF Held
    <3>2. spill = Spilled(j.known, T)
      <4>1. Spilled(<<>>, T) = {}
        BY DEF Spilled
      <4> QED  BY <3>1, <4>1
    <3>3. Held(i, spill')
      BY <1>4, <2>2, <2>4, <3>1, <3>2 DEF Held
    <3>4. n = Len(i.known)
      BY <1>1, <2>2, <3>2, SpilledCount DEF n
    <3> QED  BY <3>3, <3>4
  <2>6. ReadsOn(i, spill')
    BY <1>1, <2>2, <2>4, <2>5 DEF ReadsOn
  <2>7. Standing(i, spill') /\ i.alone = j.alone /\ Shaped(spill')
    BY <1>1, <1>4, <2>2, <2>6 DEF Standing
  <2> QED  BY <1>1, <2>3, <2>7, ScanSteps DEF j
<1> QED  BY <1>2, <1>3, <1>4

(* Flagging the deadline and closing the stream. *)
LEMMA FlagKeeps ==
    ASSUME ScanInv, NEW p \in Procs, Deadline(p) \/ Cancel(p)
    PROVE  ScanInv'
<1> DEFINE j == job[p]
<1>1. /\ j.at \in {"read", "spill"} /\ UNCHANGED <<data, approver, spill, profiles>>
      /\ Scans(j) /\ j \in ScanJob /\ ReadsOn(j, spill)
      /\ Shaped(spill') /\ \A r \in profiles' : Recorded(r)
  <2>1. j.at \in {"read", "spill"} /\ UNCHANGED <<data, approver, spill, profiles>>
    BY DEF Deadline, Cancel, Streaming, workspace, history
  <2>2. j.at \in {"clear", "read", "spill", "aggregate"}
    BY <2>1
  <2> QED  BY <2>1, <2>2, ScanFacts
<1>2. ASSUME NEW i, i \in ScanJob, i.at = j.at, i.hashes = j.hashes, i.batches = j.batches,
             i.known = j.known, i.index = j.index, i.alone = j.alone, i.honest = j.honest,
             i.intact = j.intact, i.closed => i.late, Goes(p, i)
      PROVE  ScanInv'
  <2> HIDE DEF j
  <2>1. Held(j, spill) => Held(i, spill')
    BY <1>1, <1>2 DEF Held, Longer, Place
  <2>2. ReadsOn(i, spill')
    BY <1>1, <1>2, <2>1 DEF ReadsOn, Longer, Place
  <2>3. Standing(i, spill')
    BY <1>1, <1>2, <2>2 DEF Standing
  <2> QED  BY <1>1, <1>2, <2>3, ScanSteps DEF j
<1>3. CASE Deadline(p)
  <2> DEFINE i == [j EXCEPT !.late = TRUE]
  <2>1. Goes(p, i)
    BY <1>3 DEF Deadline
  <2> HIDE DEF j
  <2>2. /\ i \in ScanJob /\ i.at = j.at /\ i.hashes = j.hashes /\ i.batches = j.batches
        /\ i.known = j.known /\ i.index = j.index /\ i.alone = j.alone
        /\ i.honest = j.honest /\ i.intact = j.intact /\ i.late
    BY <1>1 DEF ScanJob
  <2> HIDE DEF i
  <2> QED  BY <1>2, <2>1, <2>2
<1>4. CASE Cancel(p)
  <2> DEFINE i == [j EXCEPT !.closed = TRUE]
  <2>1. Goes(p, i) /\ j.late
    BY <1>4 DEF Cancel
  <2> HIDE DEF j
  <2>2. /\ i \in ScanJob /\ i.at = j.at /\ i.hashes = j.hashes /\ i.batches = j.batches
        /\ i.known = j.known /\ i.index = j.index /\ i.alone = j.alone
        /\ i.honest = j.honest /\ i.intact = j.intact /\ i.late = j.late
    BY <1>1 DEF ScanJob
  <2> HIDE DEF i
  <2> QED  BY <1>2, <2>1, <2>2
<1> QED  BY <1>3, <1>4

(* A batch more is read: of the checkpoint, or with its file. *)
LEMMA BatchRead ==
    ASSUME NEW j \in ScanJob, NEW files, ReadsOn(j, files), j.at \in {"read", "spill"},
           Place(j) <= Len(j.batches),
           Place(j) <= Len(j.known) => j.batches[Place(j)] = j.known[Place(j)],
           NEW index \in Nat, NEW i,
           i = [j EXCEPT !.at = "read", !.index = index,
                         !.hashes = Append(j.hashes, j.batches[Place(j)])],
           NEW after, j.alone => index = Len(Longer(i)) /\ Held(i, after)
    PROVE  /\ i \in ScanJob /\ i.alone = j.alone /\ ReadsOn(i, after)
           /\ i.hashes \in Seq(Batches)
<1> DEFINE pos == Place(j)
           batch == j.batches[pos]
           hashes == Append(j.hashes, batch)
<1>1. /\ j.hashes \in Seq(Batches) /\ j.batches \in Seq(Batches) /\ j.known \in Seq(Batches)
      /\ Len(j.hashes) \in Nat /\ pos = Len(j.hashes) + 1
  BY DEF ScanJob, Place
<1>2. pos \in 1..Len(j.batches) /\ batch \in Batches
  <2>1. pos \in 1..Len(j.batches)
    BY <1>1
  <2> HIDE DEF pos
  <2> QED  BY <1>1, <2>1
<1>a. pos <= Len(j.known) => batch = j.known[pos]
  OBVIOUS
<1> HIDE DEF pos, batch
<1>3. /\ hashes \in Seq(Batches) /\ Len(hashes) = pos /\ hashes[pos] = batch
      /\ \A k \in 1..Len(j.hashes) : hashes[k] = j.hashes[k]
  BY <1>1, <1>2
<1>b. i = [j EXCEPT !.at = "read", !.index = index, !.hashes = hashes]
  BY DEF pos, batch
<1> HIDE DEF hashes
<1>4. /\ i \in ScanJob /\ i.at = "read" /\ i.alone = j.alone /\ i.hashes = hashes
      /\ i.batches = j.batches /\ i.known = j.known /\ i.closed = j.closed
      /\ i.late = j.late /\ i.honest = j.honest /\ i.index = index
  BY <1>b, <1>3 DEF ScanJob
<1>5. \A k \in 1..Len(i.hashes) : /\ i.hashes[k] = i.batches[k]
                                  /\ k <= Len(i.known) => i.known[k] = i.batches[k]
  <2>1. ASSUME NEW k \in 1..pos
        PROVE  hashes[k] = j.batches[k] /\ (k <= Len(j.known) => j.known[k] = j.batches[k])
    <3>1. CASE k = pos
      BY <1>a, <1>3, <3>1 DEF batch
    <3>2. CASE k # pos
      <4>1. k \in 1..Len(j.hashes)
        BY <1>1, <1>2, <3>2
      <4> QED  BY <1>3, <4>1 DEF ReadsOn
    <3> QED  BY <3>1, <3>2
  <2> QED  BY <1>3, <1>4, <2>1
<1>6. Len(i.hashes) <= Len(i.batches)
  BY <1>2, <1>3, <1>4
<1>7. ReadsOn(i, after)
  <2>1. /\ i.closed => i.late
        /\ i.honest => Len(i.known) <= Len(i.batches)
    BY <1>4 DEF ReadsOn
  <2> QED  BY <1>4, <1>5, <1>6, <2>1 DEF ReadsOn
<1> QED  BY <1>3, <1>4, <1>7

(* After it the run stops with a checkpoint, or goes on. *)
LEMMA ProceedsKeeps ==
    ASSUME ScanInv, NEW p \in Procs, Scans(job[p]), NEW hashes, NEW index,
           Proceeds(p, hashes, index), UNCHANGED <<data, approver>>,
           NEW i, i = [job[p] EXCEPT !.at = "read", !.hashes = hashes, !.index = index],
           i \in ScanJob, i.alone = job[p].alone, ReadsOn(i, spill'),
           hashes \in Seq(Batches), Shaped(spill')
    PROVE  ScanInv'
<1> DEFINE j == job[p]
<1>1. CASE Reopenable /\ Len(hashes) = j.stop
  <2>1. /\ profiles' = profiles \cup {Report(j, Partial(j.token, hashes))}
        /\ Goes(p, Idle)
    BY <1>1 DEF Proceeds
  <2>2. ASSUME NEW r \in profiles'  PROVE Recorded(r)
    <3>1. r \in profiles \/ r.profile = Partial(j.token, hashes)
      BY <2>1 DEF Report
    <3>2. CASE r.profile = Partial(j.token, hashes)
      <4>1. r.profile.outcome = "partial" /\ r.profile.hashes = hashes
        BY <3>2 DEF Partial
      <4> QED  BY <4>1 DEF Recorded, Available
    <3> QED  BY <3>1, <3>2 DEF ScanInv
  <2> HIDE DEF j
  <2> QED  BY <2>1, <2>2, FailKeeps
<1>2. CASE ~(Reopenable /\ Len(hashes) = j.stop)
  <2>1. Goes(p, i) /\ \A r \in profiles' : Recorded(r)
    BY <1>2 DEF Proceeds, ScanInv
  <2>2. i.at = "read"
    BY DEF ScanJob, ReadsOn
  <2>3. Standing(i, spill')
    BY <2>2 DEF Standing
  <2> HIDE DEF j
  <2> QED  BY <2>1, <2>3, ScanSteps
<1> QED  BY <1>1, <1>2

(* One turn of the loop. *)
LEMMA ReadKeeps ==
    ASSUME ScanInv, NEW p \in Procs, Read(p)
    PROVE  ScanInv'
<1> DEFINE j == job[p]
           pos == Len(j.hashes) + 1
           ended == j.closed \/ pos > Len(j.batches)
           batch == j.batches[pos]
           torn == [index |-> j.index, batch |-> batch, whole |-> FALSE]
<1>1. /\ j.at = "read" /\ UNCHANGED <<data, approver>> /\ pos = Place(j)
      /\ Scans(j) /\ j \in ScanJob /\ ReadsOn(j, spill)
      /\ j.hashes \in Seq(Batches) /\ j.batches \in Seq(Batches) /\ j.known \in Seq(Batches)
      /\ j.index \in Nat /\ Shaped(spill) /\ \A r \in profiles : Recorded(r)
  <2>1. j.at = "read" /\ UNCHANGED <<data, approver>>
    BY DEF Read
  <2>2. j.at \in {"clear", "read", "spill", "aggregate"}
    BY <2>1
  <2> QED  BY <2>1, <2>2, ScanFacts DEF Place
<1>2. \/ /\ Finishes(p, Null) /\ UNCHANGED <<profiles, spill>>
      \/ /\ ~j.late /\ ended
         /\ Goes(p, [j EXCEPT !.at = "aggregate"]) /\ UNCHANGED <<profiles, spill>>
      \/ /\ ~ended /\ pos <= Len(j.known) /\ batch = j.known[pos]
         /\ Proceeds(p, Append(j.hashes, batch), j.index) /\ UNCHANGED spill
      \/ /\ ~ended /\ pos > Len(j.known)
         /\ spill' = Without(j.index, batch) \cup {torn}
         /\ Goes(p, [j EXCEPT !.at = "spill"]) /\ UNCHANGED profiles
      \/ Goes(p, Idle) /\ UNCHANGED <<profiles, spill>>
  BY DEF Read
<1> HIDE DEF j
<1>3. CASE Finishes(p, Null) /\ UNCHANGED <<profiles, spill>>
  BY <1>1, <1>3, FinishKeeps DEF j
<1>4. CASE Goes(p, Idle) /\ UNCHANGED <<profiles, spill>>
  BY <1>1, <1>4, FailKeeps DEF j
<1>5. CASE /\ ~j.late /\ ended
           /\ Goes(p, [j EXCEPT !.at = "aggregate"]) /\ UNCHANGED <<profiles, spill>>
  <2> DEFINE k == [j EXCEPT !.at = "aggregate"]
  <2>1. Goes(p, k)
    BY <1>5
  <2>2. /\ k \in ScanJob /\ k.alone = j.alone /\ k.late = j.late /\ k.closed = j.closed
        /\ k.at = "aggregate" /\ k.hashes = j.hashes /\ k.batches = j.batches
        /\ k.known = j.known /\ k.index = j.index /\ k.honest = j.honest
        /\ k.intact = j.intact
    BY <1>1 DEF ScanJob
  <2>3. Len(j.hashes) = Len(j.batches)
    <3>1. ~j.closed /\ Len(j.hashes) <= Len(j.batches)
      BY <1>1, <1>5 DEF ReadsOn
    <3>2. Len(j.hashes) \in Nat /\ Len(j.batches) \in Nat
      BY <1>1
    <3> QED  BY <1>5, <3>1, <3>2
  <2> HIDE DEF k
  <2>4. Held(j, spill) => Held(k, spill')
    BY <1>1, <1>5, <2>2 DEF Held, Longer
  <2>5. ReadsOn(k, spill')
    BY <1>1, <2>2, <2>3, <2>4 DEF ReadsOn, Longer
  <2>6. Standing(k, spill') /\ Shaped(spill') /\ \A r \in profiles' : Recorded(r)
    BY <1>1, <1>5, <2>2, <2>5 DEF Standing
  <2> QED  BY <1>1, <2>1, <2>2, <2>6, ScanSteps DEF j
<1>6. CASE /\ ~ended /\ pos <= Len(j.known) /\ batch = j.known[pos]
           /\ Proceeds(p, Append(j.hashes, batch), j.index) /\ UNCHANGED spill
  <2> DEFINE hashes == Append(j.hashes, batch)
             i == [j EXCEPT !.at = "read", !.hashes = hashes, !.index = j.index]
  <2>1. i = [j EXCEPT !.at = "read", !.index = j.index,
                      !.hashes = Append(j.hashes, j.batches[Place(j)])]
    BY <1>1
  <2>2. /\ i.at = "read" /\ i.hashes = hashes /\ i.known = j.known /\ i.intact = j.intact
        /\ Len(hashes) = pos
    BY <1>1 DEF ScanJob
  <2> HIDE DEF i
  <2>3. Longer(i) = j.known /\ Longer(j) = j.known
    BY <1>1, <1>6, <2>2 DEF Longer
  <2>4. j.alone => j.index = Len(Longer(i)) /\ Held(i, spill')
    <3>1. Held(j, spill) => Held(i, spill')
      BY <1>1, <1>6, <2>2, <2>3 DEF Held
    <3> QED  BY <1>1, <2>3, <3>1 DEF ReadsOn
  <2>5. Place(j) <= Len(j.batches) /\ (Place(j) <= Len(j.known) => j.batches[Place(j)] = j.known[Place(j)])
    BY <1>1, <1>6
  <2>6. i \in ScanJob /\ i.alone = j.alone /\ ReadsOn(i, spill') /\ i.hashes \in Seq(Batches)
    <3>1. j.at \in {"read", "spill"}
      BY <1>1
    <3> QED  BY <1>1, <2>1, <2>4, <2>5, <3>1, BatchRead
  <2>7. hashes \in Seq(Batches) /\ Shaped(spill') /\ Proceeds(p, hashes, j.index)
    BY <1>1, <1>6, <2>2, <2>6
  <2> HIDE DEF hashes
  <2> QED  BY <1>1, <2>6, <2>7, ProceedsKeeps DEF i, j
<1>7. CASE /\ ~ended /\ pos > Len(j.known)
           /\ spill' = Without(j.index, batch) \cup {torn}
           /\ Goes(p, [j EXCEPT !.at = "spill"]) /\ UNCHANGED profiles
  <2> DEFINE i == [j EXCEPT !.at = "spill"]
  <2>1. Goes(p, i)
    BY <1>7
  <2>2. /\ i \in ScanJob /\ i.alone = j.alone /\ i.late = j.late /\ i.closed = j.closed
        /\ i.at = "spill" /\ i.hashes = j.hashes /\ i.batches = j.batches
        /\ i.known = j.known /\ i.index = j.index /\ i.honest = j.honest
        /\ i.intact = j.intact
    BY <1>1 DEF ScanJob
  <2> HIDE DEF i
  <2>3. /\ pos \in 1..Len(j.batches) /\ batch \in Batches /\ Len(j.hashes) \in Nat
        /\ Len(j.known) \in Nat /\ Len(j.known) <= Len(j.hashes)
    <3>1. Len(j.hashes) \in Nat /\ Len(j.known) \in Nat
      BY <1>1
    <3>2. pos \in 1..Len(j.batches)
      BY <1>1, <1>7, <3>1
    <3> QED  BY <1>1, <1>7, <3>1, <3>2
  <2>4. Shaped(spill')
    <3>1. torn \in File
      BY <1>1, <2>3 DEF File
    <3> HIDE DEF torn, batch
    <3>2. Shaped(Without(j.index, batch))
      BY <1>1, WithoutShaped
    <3> QED  BY <1>7, <3>1, <3>2, FS_AddElement DEF Shaped
  <2>5. ASSUME j.alone  PROVE Held(i, spill')
    <3>1. Held(j, spill) /\ j.index = Len(Longer(j))
      BY <1>1, <2>5 DEF ReadsOn
    <3>2. PICK T \in SUBSET (1..Len(j.known)) :
             (j.intact <=> T = {}) /\ spill = Spilled(Longer(j), T)
      BY <1>1, <3>1 DEF Held
    <3>3. Longer(j) = j.hashes
      <4>1. CASE Len(j.hashes) <= Len(j.known)
        <5>1. Len(j.known) = Len(j.hashes) /\ Longer(j) = j.known
          BY <2>3, <4>1 DEF Longer
        <5>2. \A k \in 1..Len(j.hashes) : j.known[k] = j.hashes[k]
          BY <1>1, <5>1 DEF ReadsOn
        <5>3. j.known = j.hashes
          BY <1>1, <5>1, <5>2
        <5> QED  BY <5>1, <5>3
      <4>2. CASE ~(Len(j.hashes) <= Len(j.known))
        BY <4>2 DEF Longer
      <4> QED  BY <4>1, <4>2
    <3>4. spill = Spilled(j.hashes, T) /\ j.index = Len(j.hashes)
      BY <3>1, <3>2, <3>3
    <3>5. Without(j.index, batch) = spill
      <4>1. \A f \in spill : f.index # Len(j.hashes)
        <5>1. ASSUME NEW f \in spill  PROVE f.index # Len(j.hashes)
          <6>1. PICK k \in DOMAIN j.hashes :
                   f = [index |-> k - 1, batch |-> j.hashes[k], whole |-> k \notin T]
            BY <3>4 DEF Spilled
          <6>2. k \in 1..Len(j.hashes) /\ f.index = k - 1
            BY <1>1, <6>1
          <6> QED  BY <2>3, <6>2
        <5> QED  BY <5>1
      <4> QED  BY <3>4, <4>1 DEF Without, Named
    <3>6. spill' = spill \cup {[index |-> Len(j.hashes), batch |-> batch,
                                whole |-> pos \notin T \cup {pos}]}
      <4>1. (pos \notin T \cup {pos}) = FALSE
        OBVIOUS
      <4> HIDE DEF batch, pos
      <4> QED  BY <1>7, <3>4, <3>5, <4>1
    <3>7. spill' = Spilled(Append(j.hashes, batch), T \cup {pos})
      <4>1. \A k \in DOMAIN j.hashes : k \in T \cup {pos} <=> k \in T
        BY <1>1, <2>3
      <4> HIDE DEF batch
      <4> QED  BY <1>1, <2>3, <3>4, <3>6, <4>1, SpilledMore
    <3> QED  BY <1>1, <2>2, <3>2, <3>7 DEF Held, Place
  <2>6. ReadsOn(i, spill')
    <3>1. Len(i.known) < Place(i) /\ Place(i) <= Len(i.batches)
      BY <1>1, <2>2, <2>3 DEF Place
    <3> QED  BY <1>1, <2>2, <2>5, <3>1 DEF ReadsOn, Longer
  <2>7. Standing(i, spill') /\ \A r \in profiles' : Recorded(r)
    BY <1>1, <1>7, <2>2, <2>6 DEF Standing
  <2> QED  BY <1>1, <2>1, <2>2, <2>4, <2>7, ScanSteps DEF j
<1> QED  BY <1>2, <1>3, <1>4, <1>5, <1>6, <1>7

(* The file of a batch is written, or left torn. *)
LEMMA SpillKeeps ==
    ASSUME ScanInv, NEW p \in Procs, Spill(p)
    PROVE  ScanInv'
<1> DEFINE j == job[p]
           pos == Len(j.hashes) + 1
           batch == j.batches[pos]
           hashes == Append(j.hashes, batch)
           Written(f) == IF Named(f, j.index, batch) THEN [f EXCEPT !.whole = TRUE] ELSE f
           i == [j EXCEPT !.at = "read", !.hashes = hashes, !.index = j.index + 1]
<1>1. /\ j.at = "spill" /\ UNCHANGED <<data, approver>> /\ pos = Place(j)
      /\ Scans(j) /\ j \in ScanJob /\ ReadsOn(j, spill)
      /\ j.hashes \in Seq(Batches) /\ j.batches \in Seq(Batches) /\ j.known \in Seq(Batches)
      /\ j.index \in Nat /\ Shaped(spill) /\ \A r \in profiles : Recorded(r)
  <2>1. j.at = "spill" /\ UNCHANGED <<data, approver>>
    BY DEF Spill
  <2>2. j.at \in {"clear", "read", "spill", "aggregate"}
    BY <2>1
  <2> QED  BY <2>1, <2>2, ScanFacts DEF Place
<1>2. \/ spill' = {Written(f) : f \in spill} /\ Proceeds(p, hashes, j.index + 1)
      \/ Goes(p, Idle) /\ UNCHANGED <<profiles, spill>>
  BY DEF Spill
<1> HIDE DEF j
<1>3. CASE Goes(p, Idle) /\ UNCHANGED <<profiles, spill>>
  BY <1>1, <1>3, FailKeeps DEF j
<1>4. CASE spill' = {Written(f) : f \in spill} /\ Proceeds(p, hashes, j.index + 1)
  <2>1. /\ Len(j.known) < pos /\ pos <= Len(j.batches) /\ Len(j.hashes) \in Nat
        /\ Len(j.known) \in Nat /\ Len(j.batches) \in Nat /\ pos \in 1..Len(j.batches)
        /\ batch \in Batches
    <3>1. Len(j.known) < pos /\ pos <= Len(j.batches) /\ Len(j.hashes) \in Nat
      BY <1>1 DEF ReadsOn
    <3>2. Len(j.known) \in Nat /\ Len(j.batches) \in Nat /\ pos \in 1..Len(j.batches)
      BY <1>1, <3>1
    <3> QED  BY <1>1, <3>1, <3>2
  <2>2. i = [j EXCEPT !.at = "read", !.index = j.index + 1,
                      !.hashes = Append(j.hashes, j.batches[Place(j)])]
    BY <1>1
  <2>3. /\ i.at = "read" /\ i.hashes = hashes /\ i.known = j.known /\ i.intact = j.intact
        /\ Len(hashes) = pos /\ j.index + 1 \in Nat
    BY <1>1 DEF ScanJob
  <2>4. Shaped(spill')
    <3>1. \A f \in spill : Written(f) \in File
      BY <1>1 DEF Shaped, File
    <3> HIDE DEF Written
    <3>2. IsFiniteSet({Written(f) : f \in spill})
      <4> DEFINE g == [f \in spill |-> Written(f)]
                 R == {Written(f) : f \in spill}
      <4>1. g \in Surjection(spill, R)
        BY DEF Surjection
      <4> HIDE DEF g, R
      <4> QED  BY <1>1, <4>1, FS_Surjection DEF Shaped, R
    <3> QED  BY <1>4, <3>1, <3>2 DEF Shaped
  <2> HIDE DEF i
  <2>5. ASSUME j.alone  PROVE j.index + 1 = Len(Longer(i)) /\ Held(i, spill')
    <3>1. Held(j, spill) /\ j.index = Len(Longer(j))
      BY <1>1, <2>5 DEF ReadsOn
    <3>2. PICK T \in SUBSET (1..Len(j.known)) :
             (j.intact <=> T = {}) /\ spill = Spilled(hashes, T \cup {pos})
      BY <1>1, <3>1 DEF Held
    <3>3. Longer(i) = hashes
      BY <2>1, <2>3 DEF Longer
    <3>4. Len(Longer(j)) = Len(j.hashes) /\ j.index = Len(j.hashes)
      BY <1>1, <2>1, <3>1 DEF Longer
    <3>5. spill' = Spilled(hashes, T)
      <4> DEFINE Old(k) == [index |-> k - 1, batch |-> hashes[k], whole |-> k \notin T \cup {pos}]
                 New(k) == [index |-> k - 1, batch |-> hashes[k], whole |-> k \notin T]
      <4>0. hashes[pos] = batch /\ DOMAIN hashes = 1..pos /\ pos \notin T /\ pos - 1 = j.index
        BY <1>1, <2>1, <3>4
      <4>1. ASSUME NEW k \in DOMAIN hashes  PROVE Written(Old(k)) = New(k)
        <5>1. CASE k = pos
          <6>1. Named(Old(k), j.index, batch)
            <7> HIDE DEF hashes, batch, pos
            <7> QED  BY <4>0, <5>1 DEF Named
          <6>2. (k \notin T) = TRUE
            BY <4>0, <5>1
          <6> QED  BY <6>1, <6>2
        <5>2. CASE k # pos
          <6>1. ~Named(Old(k), j.index, batch)
            <7>1. k \in 1..pos /\ pos \in Nat /\ k - 1 # pos - 1
              BY <2>1, <4>0, <5>2
            <7> HIDE DEF hashes, batch, pos
            <7> QED  BY <4>0, <7>1 DEF Named
          <6>2. (k \notin T) = (k \notin T \cup {pos})
            BY <5>2
          <6>3. Written(Old(k)) = Old(k)
            BY <6>1
          <6>4. Old(k) = New(k)
            BY <6>2
          <6> QED  BY <6>3, <6>4
        <5> QED  BY <5>1, <5>2
      <4>2. spill = {Old(k) : k \in DOMAIN hashes}
        BY <3>2 DEF Spilled
      <4>3. Spilled(hashes, T) = {New(k) : k \in DOMAIN hashes}
        BY DEF Spilled
      <4> HIDE DEF Written, Old, New, hashes
      <4> QED  BY <1>4, <4>1, <4>2, <4>3
    <3>6. Held(i, spill')
      BY <2>3, <3>2, <3>3, <3>5 DEF Held
    <3> QED  BY <1>1, <2>3, <3>3, <3>4, <3>6
  <2>6. i \in ScanJob /\ i.alone = j.alone /\ ReadsOn(i, spill') /\ i.hashes \in Seq(Batches)
    <3>1. j.at \in {"read", "spill"} /\ Place(j) <= Len(j.batches) /\ ~(Place(j) <= Len(j.known))
      BY <1>1, <2>1
    <3> QED  BY <1>1, <2>2, <2>3, <2>5, <3>1, BatchRead
  <2>7. hashes \in Seq(Batches)
    BY <2>3, <2>6
  <2> HIDE DEF hashes
  <2> QED  BY <1>1, <1>4, <2>4, <2>6, <2>7, ProceedsKeeps DEF i, j
<1> QED  BY <1>2, <1>3, <1>4

(* Aggregating: what lies in the spill are the batches of the stream. *)
LEMMA AggregateKeeps ==
    ASSUME ScanInv, NEW p \in Procs, Aggregate(p)
    PROVE  ScanInv'
<1> DEFINE j == job[p]
           made == Aggregated(j.token, j.hashes, Files, Grain)
<1>1. /\ j.at = "aggregate" /\ UNCHANGED <<data, approver, spill, profiles>>
      /\ Scans(j) /\ j \in ScanJob /\ ReadsOn(j, spill)
      /\ j.hashes \in Seq(Batches) /\ j.batches \in Seq(Batches) /\ j.known \in Seq(Batches)
      /\ Shaped(spill') /\ \A r \in profiles' : Recorded(r)
  <2>1. j.at = "aggregate" /\ UNCHANGED <<data, approver, spill, profiles>>
    BY DEF Aggregate, workspace, history
  <2>2. j.at \in {"clear", "read", "spill", "aggregate"}
    BY <2>1
  <2> QED  BY <2>1, <2>2, ScanFacts
<1>2. Goes(p, Idle) \/ Finishes(p, Report(j, made))
  BY DEF Aggregate
<1> HIDE DEF j
<1>3. ASSUME j.alone, j.honest
      PROVE  made = IF j.intact THEN Completed(j.token, j.batches, j.batches, Grain)
                                ELSE Uncounted(j.token, j.batches)
  <2> DEFINE b == j.batches
             n == Len(b)
  <2>1. /\ Len(j.hashes) = n /\ Len(j.known) <= n
        /\ \A i \in 1..Len(j.hashes) : /\ j.hashes[i] = b[i]
                                       /\ i <= Len(j.known) => j.known[i] = b[i]
        /\ Held(j, spill)
    BY <1>1, <1>3 DEF ReadsOn
  <2>2. n \in Nat /\ Len(j.known) \in Nat /\ DOMAIN b = 1..n
    BY <1>1
  <2>3. j.hashes = b
    BY <1>1, <2>1
  <2>4. Longer(j) = b
    <3>1. CASE Len(j.hashes) <= Len(j.known)
      <4>1. Len(j.known) = n /\ Longer(j) = j.known
        BY <2>1, <2>2, <3>1 DEF Longer
      <4>2. \A i \in 1..n : j.known[i] = b[i]
        BY <2>1, <4>1
      <4>3. j.known = b
        BY <1>1, <4>1, <4>2
      <4> QED  BY <4>1, <4>3
    <3>2. CASE ~(Len(j.hashes) <= Len(j.known))
      BY <2>3, <3>2 DEF Longer
    <3> QED  BY <3>1, <3>2
  <2>5. PICK T \in SUBSET (1..Len(j.known)) :
           (j.intact <=> T = {}) /\ spill = Spilled(b, T)
    BY <1>1, <2>1, <2>4 DEF Held
  <2> DEFINE file(i) == [index |-> i - 1, batch |-> b[i], whole |-> i \notin T]
             files == [i \in 1..n |-> file(i)]
  <2>6. Files = files
    BY <1>1, <2>5, FilesOfSpill
  <2>7. /\ DOMAIN files = 1..n
        /\ \A i \in 1..n : files[i].whole = (i \notin T) /\ files[i].batch = b[i]
    OBVIOUS
  <2> HIDE DEF files
  <2>8. T \subseteq 1..n
    BY <2>1, <2>2
  <2>9. CASE T = {}
    <3>1. \A i \in DOMAIN files : files[i].whole
      BY <2>7, <2>9
    <3>2. [i \in DOMAIN files |-> files[i].batch] = b
      <4>1. [i \in DOMAIN files |-> files[i].batch] = [i \in 1..n |-> b[i]]
        BY <2>7
      <4>2. b = [i \in 1..n |-> b[i]]
        BY <1>1, <2>2
      <4> HIDE DEF b
      <4> QED  BY <4>1, <4>2
    <3>3. made = Completed(j.token, j.hashes, b, Grain)
      BY <2>6, <3>1, <3>2 DEF Aggregated
    <3> HIDE DEF made, b
    <3> QED  BY <2>3, <2>5, <2>9, <3>3 DEF b
  <2>10. CASE T # {}
    <3>1. ~\A i \in DOMAIN files : files[i].whole
      BY <2>7, <2>8, <2>10
    <3>2. made = Uncounted(j.token, j.hashes)
      BY <2>6, <3>1 DEF Aggregated
    <3> HIDE DEF made, b
    <3> QED  BY <2>3, <2>5, <2>10, <3>2 DEF b
  <2> QED  BY <2>9, <2>10
<1>4. Recorded(Report(j, made))
  <2> DEFINE r == Report(j, made)
  <2>1. /\ r.profile = made /\ r.batches = j.batches /\ r.alone = j.alone
        /\ r.honest = j.honest /\ r.intact = j.intact
    BY DEF Report
  <2>2. made.outcome = "completed" /\ made.token = j.token
    <3> DEFINE whole == \A i \in DOMAIN Files : Files[i].whole
    <3>1. CASE whole
      <4>1. made = Completed(j.token, j.hashes, [i \in DOMAIN Files |-> Files[i].batch], Grain)
        BY <3>1 DEF Aggregated
      <4> HIDE DEF made
      <4> QED  BY <4>1 DEF Completed
    <3>2. CASE ~whole
      <4>1. made = Uncounted(j.token, j.hashes)
        BY <3>2 DEF Aggregated
      <4> HIDE DEF made
      <4> QED  BY <4>1 DEF Uncounted
    <3> QED  BY <3>1, <3>2
  <2> HIDE DEF r, made
  <2> QED  BY <1>3, <2>1, <2>2 DEF Recorded, r
<1> HIDE DEF made
<1>5. CASE Goes(p, Idle)
  BY <1>1, <1>5, FailKeeps DEF j
<1>6. CASE Finishes(p, Report(j, made))
  BY <1>1, <1>4, <1>6, FinishKeeps DEF j
<1> QED  BY <1>2, <1>5, <1>6

(* Emptying the spill at the end, and printing the profile. *)
LEMMA DropKeeps ==
    ASSUME ScanInv, NEW p \in Procs, Drop(p)
    PROVE  ScanInv'
<1> DEFINE j == job[p]
<1>1. /\ j.at = "drop" /\ Scans(j) /\ Drops(j) /\ UNCHANGED <<data, approver>>
      /\ Shaped(spill) /\ \A r \in profiles : Recorded(r)
  <2>1. j.at = "drop" /\ Scans(j) /\ UNCHANGED <<data, approver>>
    BY DEF Drop, Scans
  <2> QED  BY <2>1 DEF ScanInv, JobsShaped, Standing
<1>2. \/ \E f \in j.doomed : /\ spill' = Without(f.index, f.batch)
                             /\ Goes(p, [j EXCEPT !.doomed = @ \ {f}])
                             /\ UNCHANGED profiles
      \/ /\ profiles' = (IF j.report = Null THEN profiles ELSE profiles \cup {j.report})
         /\ Goes(p, Idle) /\ UNCHANGED spill
  BY DEF Drop
<1> HIDE DEF j
<1>3. ASSUME NEW f \in j.doomed, spill' = Without(f.index, f.batch),
             Goes(p, [j EXCEPT !.doomed = @ \ {f}]), UNCHANGED profiles
      PROVE  ScanInv'
  <2> DEFINE i == [j EXCEPT !.doomed = @ \ {f}]
  <2>1. /\ i.at = "drop" /\ i.alone = j.alone /\ i.report = j.report
        /\ i \in [at : {"drop"}, doomed : {j.doomed \ {f}}, report : {j.report},
                  alone : BOOLEAN]
    BY <1>1 DEF Drops
  <2>2. Goes(p, i)
    BY <1>3
  <2> HIDE DEF i
  <2>3. Drops(i)
    <3>1. i.doomed = j.doomed \ {f}
      BY <2>1
    <3> QED  BY <1>1, <2>1, <3>1 DEF Drops
  <2>4. Standing(i, spill')
    BY <2>1, <2>3 DEF Standing
  <2>5. Shaped(spill') /\ \A r \in profiles' : Recorded(r)
    BY <1>1, <1>3, WithoutShaped
  <2> QED  BY <1>1, <2>1, <2>2, <2>4, <2>5, ScanSteps DEF j
<1>4. CASE /\ profiles' = (IF j.report = Null THEN profiles ELSE profiles \cup {j.report})
           /\ Goes(p, Idle) /\ UNCHANGED spill
  <2>1. \A r \in profiles' : Recorded(r)
    BY <1>1, <1>4 DEF Drops
  <2> QED  BY <1>1, <1>4, <2>1, FailKeeps DEF j
<1> QED  BY <1>2, <1>3, <1>4

(* Every step keeps the invariant of the scans. *)
LEMMA NextScan ==
    ASSUME ScanInv, [Next]_vars
    PROVE  ScanInv'
<1>1. CASE UNCHANGED vars
  <2>1. /\ UNCHANGED <<spill, profiles, job, data, approver>>
    BY <1>1 DEF vars, workspace, history
  <2>2. data' \in Versions /\ approver' \in Approvers /\ DOMAIN job' = Procs
    BY <2>1 DEF ScanInv, JobsShaped
  <2> QED  BY <2>1, <2>2, ScansRest
<1>2. ASSUME NEW p \in Procs, NEW c \in Checkpoints \cup {Null}, NEW stop \in Stops,
             BeginScan(p, c, stop)
      PROVE  ScanInv'
  BY <1>2, BeginScanKeeps
<1>3. ASSUME NEW p \in Procs, Deadline(p) \/ Cancel(p)  PROVE ScanInv'
  BY <1>3, FlagKeeps
<1>4. ASSUME NEW p \in Procs, Read(p)  PROVE ScanInv'
  BY <1>4, ReadKeeps
<1>5. ASSUME NEW p \in Procs, Aggregate(p)  PROVE ScanInv'
  BY <1>5, AggregateKeeps
<1>6. ASSUME NEW p \in Procs, Clear(p) \/ Spill(p) \/ Drop(p)  PROVE ScanInv'
  BY <1>6, ClearKeeps, SpillKeeps, DropKeeps
<1>7. ASSUME NEW p \in Procs, NEW j, job' = [job EXCEPT ![p] = j], ~Scans(j),
             UNCHANGED <<spill, profiles, data, approver>>
      PROVE  ScanInv'
  <2>1. data' \in Versions /\ approver' \in Approvers /\ DOMAIN job' = Procs
    BY <1>7 DEF ScanInv, JobsShaped
  <2>2. \A q \in Procs : job'[q] = job[q] \/ ~Scans(job'[q])
    BY <1>7 DEF ScanInv, JobsShaped
  <2> QED  BY <1>7, <2>1, <2>2, ScansRest
<1>8. ASSUME NEW p \in Procs,
             BeginPropose(p) \/ WriteSalt(p) \/ RecordPolicy(p) \/ Name(p) \/ Write(p) \/ Kill(p)
             \/ Build(p)
      PROVE  ScanInv'
  <2>1. ASSUME BeginPropose(p)  PROVE ScanInv'
    <3>1. ~Scans([at |-> "salt"])
      BY DEF Scans
    <3> QED  BY <1>7, <2>1, <3>1 DEF BeginPropose, Begins, history
  <2>2. ~Scans(Idle)
    BY DEF Scans, Idle
  <2>3. ASSUME WriteSalt(p) \/ RecordPolicy(p) \/ Kill(p)  PROVE ScanInv'
    BY <1>7, <2>2, <2>3 DEF WriteSalt, RecordPolicy, Kill, Goes, history, workspace
  <2>4. ASSUME Name(p)  PROVE ScanInv'
    <3> DEFINE k == [at |-> "write", export |-> job[p].export, approver |-> job[p].approver,
                     alone |-> job[p].alone, number |-> Len(exports) + 1]
    <3>1. ~Scans(k)
      BY DEF Scans
    <3>2. job' = [job EXCEPT ![p] = k] /\ UNCHANGED <<spill, profiles, data, approver>>
      BY <2>4 DEF Name, Goes, history, workspace
    <3> HIDE DEF k
    <3> QED  BY <1>7, <3>1, <3>2
  <2>5. ASSUME Write(p)  PROVE ScanInv'
    BY <1>7, <2>2, <2>5 DEF Write, Goes
  <2>6. ASSUME Build(p)  PROVE ScanInv'
    <3> DEFINE e == Export(FlattenSeq(Content(data)), job[p].policy, job[p].profile,
                           job[p].salt, job[p].used)
               k == IF e = Refused THEN Idle
                    ELSE [at |-> "name", export |-> e, approver |-> job[p].approver,
                          alone |-> job[p].alone]
    <3>1. ~Scans(k)
      <4> HIDE DEF e
      <4> QED  BY <2>2 DEF Scans
    <3>2. job' = [job EXCEPT ![p] = k] /\ UNCHANGED <<spill, profiles, data, approver>>
      BY <2>6 DEF Build, Goes, history, workspace
    <3> HIDE DEF k
    <3> QED  BY <1>7, <3>1, <3>2
  <2> QED  BY <1>8, <2>1, <2>3, <2>4, <2>5, <2>6
<1>9. ASSUME NEW p \in Procs, NEW profile, NEW f, Activate(p, profile, f)  PROVE ScanInv'
  <2> DEFINE k == [at |-> "record", activation |-> Activation(PolicyOf(f), profile, approver)]
  <2>1. ~Scans(k)
    BY DEF Scans
  <2>2. job' = [job EXCEPT ![p] = k] /\ UNCHANGED <<spill, profiles, data, approver>>
    BY <1>9 DEF Activate, Begins
  <2> HIDE DEF k
  <2> QED  BY <1>7, <2>1, <2>2
<1>10. ASSUME NEW p \in Procs, NEW profile, NEW f, BeginExport(p, profile, f)  PROVE ScanInv'
  <2> DEFINE k == [at |-> "build", policy |-> PolicyOf(f), profile |-> profile,
                   salt |-> salt, used |-> Used, approver |-> approver,
                   alone |-> Exporting = {}]
  <2>1. ~Scans(k)
    BY DEF Scans
  <2>2. job' = [job EXCEPT ![p] = k] /\ UNCHANGED <<spill, profiles, data, approver>>
    BY <1>10 DEF BeginExport, Begins, history, workspace
  <2> HIDE DEF k
  <2> QED  BY <1>7, <2>1, <2>2
<1>11. ASSUME NEW v \in Versions, NewData(v)  PROVE ScanInv'
  <2>1. data' = v /\ UNCHANGED <<spill, profiles, job, approver>>
    BY <1>11 DEF NewData, workspace, history
  <2>2. data' \in Versions /\ approver' \in Approvers /\ DOMAIN job' = Procs
    BY <2>1 DEF ScanInv, JobsShaped
  <2> QED  BY <2>1, <2>2, ScansRest
<1>12. ASSUME NEW a \in Approvers, Revise(a)  PROVE ScanInv'
  <2>1. approver' = a /\ UNCHANGED <<spill, profiles, job, data>>
    BY <1>12 DEF Revise, workspace, history
  <2>2. data' \in Versions /\ approver' \in Approvers /\ DOMAIN job' = Procs
    BY <2>1 DEF ScanInv, JobsShaped
  <2> QED  BY <2>1, <2>2, ScansRest
<1> QED
  BY <1>1, <1>2, <1>3, <1>4, <1>5, <1>6, <1>8, <1>9, <1>10, <1>11, <1>12 DEF Next, Run

-----------------------------------------------------------------------------
(* Exports: the steps.                                                      *)

\* What the commands hold and the exports published, over n exports.
Budget(n) ==
    (\A x \in published : x.alone) =>
        /\ \A x \in published : Within(x, exports, n)
        /\ Bytes(exports) <= Caps.session
        /\ \A p \in Procs : Spends(job[p], exports, n)
OneAlone ==
    \A p, q \in Procs :
        Exports(job[p]) /\ Exports(job[q]) /\ job[p].alone /\ job[q].alone => p = q

(* The bytes exported so far are a number. *)
LEMMA BytesType ==
    ASSUME NEW ex, NEW n, Numbered(ex, n)
    PROVE  Bytes(ex) \in Nat
<1>1. n \in Nat /\ [k \in DOMAIN ex |-> ex[k].bytes] \in [1..n -> Nat]
  BY DEF Numbered
<1> QED  BY <1>1, TotalType DEF Bytes

(* ... and the next export adds its own. *)
LEMMA BytesGrow ==
    ASSUME NEW ex, NEW n, Numbered(ex, n), NEW ey, Numbered(ey, n + 1),
           \A k \in 1..n : ey[k] = ex[k]
    PROVE  Bytes(ey) = Bytes(ex) + ey[n + 1].bytes
<1> DEFINE m == n + 1
           f == [k \in DOMAIN ex |-> ex[k].bytes]
           h == [k \in DOMAIN ey |-> ey[k].bytes]
<1>1. n \in Nat /\ m \in Nat /\ m = n + 1
  BY DEF Numbered
<1>2. f \in [1..n -> Nat] /\ h \in [1..m -> Nat]
  BY DEF Numbered
<1>3. \A k \in 1..n : h[k] = f[k]
  BY <1>1 DEF Numbered
<1>4. h[m] = ey[m].bytes
  BY <1>1 DEF Numbered
<1> HIDE DEF m, f, h
<1>5. Total(h) = Total(f) + h[m]
  BY <1>1, <1>2, <1>3, TotalGrows
<1> QED  BY <1>4, <1>5 DEF Bytes, m, f, h

LEMMA InitExport ==
    Init => ExportInv
<1> SUFFICES ASSUME Init  PROVE ExportInv
  OBVIOUS
<1>1. DOMAIN job = Procs /\ \A p \in Procs : job[p].at = "idle"
  BY DEF Init, Idle
<1>2. approver \in Approvers
  BY ProfilingAssumption DEF Init
<1>3. activation = Null /\ activations = {} /\ published = {} /\ exports = << >> /\ salt = Null
  BY DEF Init
<1>4. Numbered(exports, 0)
  BY <1>3 DEF Numbered
<1>5. Bytes(exports) = 0
  <2> DEFINE f == [k \in DOMAIN exports |-> exports[k].bytes]
  <2>1. f \in [1..0 -> Nat]
    BY <1>3
  <2> HIDE DEF f
  <2>2. PICK g : g[0] = 0 /\ Total(f) = g[0]
    BY <2>1, TotalFacts
  <2> QED  BY <2>2 DEF Bytes, f
<1>6. 0 <= Caps.session
  BY SamplingAssumption
<1>7. \A p \in Procs : /\ ~Exports(job[p]) /\ Exporter(job[p], activations, 0)
                       /\ Spends(job[p], exports, 0)
  BY <1>1 DEF Exports, Exporter, Spends
<1> QED  BY <1>1, <1>2, <1>3, <1>4, <1>5, <1>6, <1>7 DEF ExportInv

(* A step that leaves the activations and every export as they are. *)
LEMMA ExportsRest ==
    ASSUME ExportInv, UNCHANGED <<activation, activations, exports, published>>,
           salt' \in {Null, Empty, TheSalt}, approver' \in Approvers,
           DOMAIN job' = Procs,
           \A p \in Procs : job'[p] = job[p] \/ ~Exports(job'[p])
    PROVE  ExportInv'
<1>1. PICK n : /\ Numbered(exports, n)
               /\ \A p \in Procs : Exporter(job[p], activations, n)
               /\ Budget(n)
  BY DEF ExportInv, Budget
<1>2. \A p \in Procs : Exporter(job'[p], activations, n)
  BY <1>1 DEF Exporter, Exports
<1>3. (\A x \in published : x.alone) =>
         /\ \A x \in published : Within(x, exports, n)
         /\ Bytes(exports) <= Caps.session
         /\ \A p \in Procs : Spends(job'[p], exports, n)
  BY <1>1 DEF Budget, Spends
<1>4. \A p, q \in Procs :
         Exports(job'[p]) /\ Exports(job'[q]) /\ job'[p].alone /\ job'[q].alone => p = q
  BY DEF ExportInv
<1>5. /\ activation' = Null \/ activation' \in activations'
      /\ \A a \in activations' : Activated(a)
      /\ \A x \in published' : Approved(x.export, x.approver, activations')
  BY DEF ExportInv
<1>6. \E m : /\ Numbered(exports', m)
             /\ \A p \in Procs : Exporter(job'[p], activations', m)
             /\ (\A x \in published' : x.alone) =>
                   /\ \A x \in published' : Within(x, exports', m)
                   /\ Bytes(exports') <= Caps.session
                   /\ \A p \in Procs : Spends(job'[p], exports', m)
  BY <1>1, <1>2, <1>3
<1> QED  BY <1>4, <1>5, <1>6 DEF ExportInv

(* Activating: what rested on the activations so far still does. *)
LEMMA ActivateKeeps ==
    ASSUME ExportInv, NEW p \in Procs, NEW profile, NEW f, Activate(p, profile, f)
    PROVE  ExportInv'
<1> DEFINE policy == PolicyOf(f)
           a == Activation(policy, profile, approver)
           k == [at |-> "record", activation |-> a]
<1>1. /\ Activatable(policy, profile) /\ activation' = a
      /\ activations' = activations \cup {a} /\ job' = [job EXCEPT ![p] = k]
      /\ UNCHANGED <<approver, salt, exports, published>>
  BY DEF Activate, Begins
<1>2. Activated(a)
  <2>1. policy.grain = Declared(Grain)
    BY DEF PolicyOf, Proposed
  <2>2. a.policy = policy /\ a.profile = profile /\ a.approver = approver
    BY DEF Activation
  <2> HIDE DEF policy
  <2>3. Activation(a.policy, a.profile, a.approver) = a
    BY <2>2
  <2> HIDE DEF a
  <2> QED  BY <1>1, <2>1, <2>2, <2>3 DEF Activated, ExportInv
<1> HIDE DEF a
<1>3. ~Exports(k) /\ k.at = "record"
  BY DEF Exports
<1> HIDE DEF k
<1>4. /\ DOMAIN job' = Procs
      /\ \A q \in Procs : job'[q] = job[q] \/ (job'[q] = k /\ ~Exports(job'[q]))
  BY <1>1, <1>3 DEF ExportInv
<1>5. \A e, b : Approved(e, b, activations) => Approved(e, b, activations')
  BY <1>1 DEF Approved
<1>6. PICK n : /\ Numbered(exports, n)
               /\ \A q \in Procs : Exporter(job[q], activations, n)
               /\ Budget(n)
  BY DEF ExportInv, Budget
<1>7. \A q \in Procs : Exporter(job'[q], activations', n)
  <2>1. ASSUME NEW q \in Procs  PROVE Exporter(job'[q], activations', n)
    <3>1. CASE job'[q] = job[q]
      <4> DEFINE j == job[q]
      <4>1. Exporter(j, activations, n) /\ activations \subseteq activations'
        BY <1>1, <1>6
      <4> HIDE DEF j
      <4>2. j.at = "build" =>
               Activation(j.policy, j.profile, j.approver) \in activations' /\ j.used \in Nat
        BY <4>1 DEF Exporter
      <4>3. j.at \in {"name", "write"} => Approved(j.export, j.approver, activations')
        BY <1>5, <4>1 DEF Exporter
      <4>4. j.at = "write" => j.number \in 1..(n + 1)
        BY <4>1 DEF Exporter
      <4>5. Exporter(j, activations', n)
        BY <4>2, <4>3, <4>4 DEF Exporter
      <4> QED  BY <3>1, <4>5 DEF j
    <3>2. CASE job'[q] = k
      BY <1>3, <3>2 DEF Exporter
    <3> QED  BY <1>4, <3>1, <3>2
  <2> QED  BY <2>1
<1>8. (\A x \in published' : x.alone) =>
         /\ \A x \in published' : Within(x, exports', n)
         /\ Bytes(exports') <= Caps.session
         /\ \A q \in Procs : Spends(job'[q], exports', n)
  BY <1>1, <1>4, <1>6 DEF Budget, Spends
<1>9. \A q, r \in Procs :
         Exports(job'[q]) /\ Exports(job'[r]) /\ job'[q].alone /\ job'[r].alone => q = r
  BY <1>4 DEF ExportInv
<1>10. /\ activation' \in activations' /\ approver' \in Approvers
       /\ salt' \in {Null, Empty, TheSalt}
       /\ \A b \in activations' : Activated(b)
       /\ \A x \in published' : Approved(x.export, x.approver, activations')
  BY <1>1, <1>2, <1>5 DEF ExportInv
<1> QED  BY <1>1, <1>4, <1>6, <1>7, <1>8, <1>9, <1>10 DEF ExportInv

(* A step of one export command that publishes nothing. *)
LEMMA ExporterSteps ==
    ASSUME ExportInv, NEW p \in Procs, NEW k, job' = [job EXCEPT ![p] = k],
           UNCHANGED <<activation, activations, exports, published, salt, approver>>,
           \A n : Numbered(exports, n) /\ Exporter(job[p], activations, n)
                  => Exporter(k, activations, n),
           \A n : /\ Numbered(exports, n) /\ Exporter(job[p], activations, n)
                  /\ Spends(job[p], exports, n) /\ Bytes(exports) <= Caps.session
                  => Spends(k, exports, n),
           k.alone /\ Exports(k) =>
              (Exports(job[p]) /\ job[p].alone) \/ \A q \in Procs : ~Exports(job[q])
    PROVE  ExportInv'
<1>1. DOMAIN job' = Procs /\ job'[p] = k /\ \A q \in Procs : q # p => job'[q] = job[q]
  BY DEF ExportInv
<1>2. PICK n : /\ Numbered(exports, n)
               /\ \A q \in Procs : Exporter(job[q], activations, n)
               /\ Budget(n)
  BY DEF ExportInv, Budget
<1>3. \A q \in Procs : Exporter(job'[q], activations, n)
  <2>1. Exporter(k, activations, n)
    BY <1>2
  <2> QED  BY <1>1, <1>2, <2>1
<1>4. (\A x \in published : x.alone) =>
         /\ \A x \in published : Within(x, exports, n)
         /\ Bytes(exports) <= Caps.session
         /\ \A q \in Procs : Spends(job'[q], exports, n)
  <2>1. ASSUME \A x \in published : x.alone, NEW q \in Procs
        PROVE  Spends(job'[q], exports, n)
    <3>1. Spends(job[q], exports, n) /\ Spends(job[p], exports, n)
          /\ Bytes(exports) <= Caps.session
      BY <1>2, <2>1 DEF Budget
    <3>2. Spends(k, exports, n)
      BY <1>2, <3>1
    <3> QED  BY <1>1, <3>1, <3>2
  <2> QED  BY <1>2, <2>1 DEF Budget
<1>5. ASSUME NEW q \in Procs, NEW r \in Procs,
             Exports(job'[q]), Exports(job'[r]), job'[q].alone, job'[r].alone
      PROVE  q = r
  <2>1. CASE q # p /\ r # p
    BY <1>1, <1>5, <2>1 DEF ExportInv
  <2>2. CASE q = p /\ r # p
    BY <1>1, <1>5, <2>2 DEF ExportInv
  <2>3. CASE q # p /\ r = p
    BY <1>1, <1>5, <2>3 DEF ExportInv
  <2> QED  BY <2>1, <2>2, <2>3
<1>6. /\ activation' = Null \/ activation' \in activations'
      /\ \A b \in activations' : Activated(b)
      /\ \A x \in published' : Approved(x.export, x.approver, activations')
      /\ approver' \in Approvers /\ salt' \in {Null, Empty, TheSalt}
  BY DEF ExportInv
<1>7. \E m : /\ Numbered(exports', m)
             /\ \A q \in Procs : Exporter(job'[q], activations', m)
             /\ (\A x \in published' : x.alone) =>
                   /\ \A x \in published' : Within(x, exports', m)
                   /\ Bytes(exports') <= Caps.session
                   /\ \A q \in Procs : Spends(job'[q], exports', m)
  BY <1>2, <1>3, <1>4
<1> QED  BY <1>1, <1>5, <1>6, <1>7 DEF ExportInv

LEMMA BeginExportKeeps ==
    ASSUME ExportInv, NEW p \in Procs, NEW profile, NEW f, BeginExport(p, profile, f)
    PROVE  ExportInv'
<1> DEFINE policy == PolicyOf(f)
           k == [at |-> "build", policy |-> policy, profile |-> profile,
                 salt |-> salt, used |-> Used, approver |-> approver,
                 alone |-> Exporting = {}]
<1>1. /\ job' = [job EXCEPT ![p] = k]
      /\ UNCHANGED <<activation, activations, exports, published, salt, approver>>
      /\ activation # Null /\ activation = Activation(policy, profile, approver)
  BY DEF BeginExport, Begins, workspace, history, Verified
<1>2. /\ k.at = "build" /\ k.policy = policy /\ k.profile = profile /\ k.approver = approver
      /\ k.used = Used /\ k.alone = (Exporting = {})
  OBVIOUS
<1> HIDE DEF k, policy
<1>3. Activation(policy, profile, approver) \in activations
  BY <1>1 DEF ExportInv
<1>4. Used = Bytes(exports)
  BY DEF Used, Bytes
<1>5. \A n : Numbered(exports, n) => Exporter(k, activations, n)
  <2>1. \A n : Numbered(exports, n) => Bytes(exports) \in Nat
    BY BytesType
  <2> QED  BY <1>2, <1>3, <1>4, <2>1 DEF Exporter
<1>6. \A n : Spends(k, exports, n)
  BY <1>2, <1>4 DEF Spends
<1>7. k.alone => \A q \in Procs : ~Exports(job[q])
  BY <1>2 DEF Exporting, Exports
<1> QED  BY <1>1, <1>5, <1>6, <1>7, ExporterSteps

(* The rows of a version are rows of batches. *)
LEMMA RowsType ==
    ASSUME NEW v \in Versions
    PROVE  \E R : FlattenSeq(Content(v)) \in Seq(R)
<1> DEFINE R == UNION {ToSet(b) : b \in Batches}
<1>1. ASSUME NEW b \in Batches  PROVE b \in Seq(R)
  <2>1. b \in Seq(ToSet(b))
    BY ProfilingAssumption
  <2>2. ToSet(b) \subseteq R
    OBVIOUS
  <2> HIDE DEF R
  <2>3. Len(b) \in Nat /\ \A i \in 1..Len(b) : b[i] \in R
    BY <2>1, <2>2
  <2>4. b = [i \in 1..Len(b) |-> b[i]]
    BY <2>1
  <2> QED  BY <2>3, <2>4, IsASeq
<1> HIDE DEF R
<1>2. Content(v) \in Seq(Batches)
  BY ProfilingAssumption
<1>3. Content(v) \in Seq(Seq(R))
  <2>1. Len(Content(v)) \in Nat /\ \A i \in 1..Len(Content(v)) : Content(v)[i] \in Seq(R)
    BY <1>1, <1>2
  <2>2. Content(v) = [i \in 1..Len(Content(v)) |-> Content(v)[i]]
    BY <1>2
  <2> QED  BY <2>1, <2>2, IsASeq
<1>4. FlattenSeq(Content(v)) \in Seq(R)
  BY <1>3, FlattenType
<1> QED  BY <1>4

(* Building: what an export shows its activation allows, and its bytes fit. *)
LEMMA BuildKeeps ==
    ASSUME ExportInv, data \in Versions, NEW p \in Procs, Build(p)
    PROVE  ExportInv'
<1> DEFINE j == job[p]
           rows == FlattenSeq(Content(data))
           e == Export(rows, j.policy, j.profile, j.salt, j.used)
           k == IF e = Refused THEN Idle
                ELSE [at |-> "name", export |-> e, approver |-> j.approver,
                      alone |-> j.alone]
<1>1. /\ j.at = "build" /\ job' = [job EXCEPT ![p] = k]
      /\ UNCHANGED <<activation, activations, exports, published, salt, approver>>
  BY DEF Build, Goes, workspace, history
<1>2. PICK R : rows \in Seq(R)
  BY RowsType
<1> HIDE DEF rows
<1>3. e # Refused => /\ k.at = "name" /\ k.export = e /\ k.approver = j.approver
                     /\ k.alone = j.alone
  <2> HIDE DEF e, j
  <2> QED  OBVIOUS
<1>4. e = Refused => k.at = "idle"
  <2> HIDE DEF e, j
  <2> QED  BY DEF Idle
<1>5. ASSUME NEW n, Numbered(exports, n), Exporter(j, activations, n), e # Refused
      PROVE  /\ Approved(e, j.approver, activations)
             /\ j.used + e.bytes <= Caps.session
  <2> DEFINE a == Activation(j.policy, j.profile, j.approver)
  <2>1. a \in activations /\ j.used \in Nat
    BY <1>1, <1>5 DEF Exporter
  <2>2. Activated(a) /\ a.policy = j.policy /\ a.profile = j.profile
    BY <2>1 DEF ExportInv, Activation
  <2>3. Activatable(j.policy, j.profile) /\ j.policy.grain = Declared(Grain)
    <3> HIDE DEF a
    <3> QED  BY <2>2 DEF Activated
  <2>4. j.policy.fields \in [Columns -> Transforms] /\ Len(j.policy.grain) \in Nat
    BY <2>3, GrainLength DEF Activatable
  <2> HIDE DEF a, j
  <2>5. /\ e.policy = j.policy /\ e.profile = j.profile
        /\ e.bytes \in Nat /\ e.bytes <= Caps.source
        /\ j.used + e.bytes <= Caps.session
        /\ \A i \in DOMAIN e.rows : ShownBy(j.policy.fields, e.rows[i])
    BY <1>2, <1>5, <2>1, <2>4, ExportFacts
  <2> HIDE DEF e
  <2> QED  BY <2>1, <2>5 DEF Approved, a
<1> HIDE DEF e, k
<1>6. ASSUME NEW n, Numbered(exports, n), Exporter(j, activations, n)
      PROVE  Exporter(k, activations, n)
  <2>1. CASE e = Refused
    BY <1>4, <2>1 DEF Exporter
  <2>2. CASE e # Refused
    <3>1. Approved(e, j.approver, activations)
      BY <1>5, <1>6, <2>2
    <3> HIDE DEF j
    <3> QED  BY <1>3, <2>2, <3>1 DEF Exporter
  <2> QED  BY <2>1, <2>2
<1>7. ASSUME NEW n, Numbered(exports, n), Exporter(j, activations, n),
             Spends(j, exports, n), Bytes(exports) <= Caps.session
      PROVE  Spends(k, exports, n)
  <2>1. CASE e = Refused
    BY <1>4, <2>1 DEF Spends, Exports
  <2>2. CASE e # Refused
    <3>1. j.used + e.bytes <= Caps.session
      BY <1>5, <1>7, <2>2
    <3>2. j.alone => j.used = Bytes(exports)
      BY <1>1, <1>7 DEF Spends, Exports
    <3> HIDE DEF j
    <3> QED  BY <1>3, <2>2, <3>1, <3>2 DEF Spends
  <2> QED  BY <2>1, <2>2
<1>8. k.alone /\ Exports(k) => Exports(job[p]) /\ job[p].alone
  <2>1. Exports(k) => e # Refused
    BY <1>4 DEF Exports
  <2> QED  BY <1>1, <1>3, <2>1 DEF Exports
<1> QED  BY <1>1, <1>6, <1>7, <1>8, ExporterSteps

LEMMA NameKeeps ==
    ASSUME ExportInv, NEW p \in Procs, Name(p)
    PROVE  ExportInv'
<1> DEFINE j == job[p]
           k == [at |-> "write", export |-> j.export, approver |-> j.approver,
                 alone |-> j.alone, number |-> Len(exports) + 1]
<1>1. /\ j.at = "name" /\ job' = [job EXCEPT ![p] = k]
      /\ UNCHANGED <<activation, activations, exports, published, salt, approver>>
  BY DEF Name, Goes, workspace, history
<1>2. /\ k.at = "write" /\ k.export = j.export /\ k.approver = j.approver
      /\ k.alone = j.alone /\ k.number = Len(exports) + 1
  OBVIOUS
<1> HIDE DEF k
<1>3. \A n : Numbered(exports, n) => k.number = n + 1 /\ n \in Nat
  BY <1>2 DEF Numbered
<1>4. ASSUME NEW n, Numbered(exports, n), Exporter(j, activations, n)
      PROVE  Exporter(k, activations, n)
  <2>1. k.number \in 1..(n + 1)
    BY <1>3, <1>4
  <2>2. Approved(k.export, k.approver, activations)
    BY <1>1, <1>2, <1>4 DEF Exporter
  <2> QED  BY <1>2, <2>1, <2>2 DEF Exporter
<1>5. ASSUME NEW n, Numbered(exports, n), Spends(j, exports, n)
      PROVE  Spends(k, exports, n)
  <2>1. k.number = n + 1
    BY <1>3, <1>5
  <2>2. j.alone => Bytes(exports) + j.export.bytes <= Caps.session
    BY <1>1, <1>5 DEF Spends, Exports
  <2> HIDE DEF j
  <2> QED  BY <1>2, <2>1, <2>2 DEF Spends
<1>6. k.alone /\ Exports(k) => Exports(job[p]) /\ job[p].alone
  BY <1>1, <1>2 DEF Exports
<1> QED  BY <1>1, <1>4, <1>5, <1>6, ExporterSteps

(* Writing: the export of a command that is alone takes the next number. *)
LEMMA WriteKeeps ==
    ASSUME ExportInv, NEW p \in Procs, Write(p)
    PROVE  ExportInv'
<1> DEFINE j == job[p]
           x == [export |-> j.export, number |-> j.number, approver |-> j.approver,
                 alone |-> j.alone]
<1>1. /\ j.at = "write" /\ published' = published \cup {x}
      /\ exports' = [m \in DOMAIN exports \cup {j.number} |->
                        IF m = j.number THEN j.export ELSE exports[m]]
      /\ job' = [job EXCEPT ![p] = Idle]
      /\ UNCHANGED <<activation, activations, salt, approver>>
  BY DEF Write, Goes
<1>2. /\ x.export = j.export /\ x.number = j.number /\ x.approver = j.approver
      /\ x.alone = j.alone
  OBVIOUS
<1> HIDE DEF x
<1>3. /\ DOMAIN job' = Procs /\ job'[p] = Idle /\ ~Exports(Idle)
      /\ \A q \in Procs : q # p => job'[q] = job[q]
  BY <1>1 DEF ExportInv, Exports, Idle
<1>4. PICK n : /\ Numbered(exports, n)
               /\ \A q \in Procs : Exporter(job[q], activations, n)
               /\ Budget(n)
  BY DEF ExportInv, Budget
<1>5. /\ n \in Nat /\ j.number \in 1..(n + 1)
      /\ Approved(j.export, j.approver, activations)
      /\ j.export.bytes \in Nat /\ j.export.bytes <= Caps.source
  BY <1>1, <1>4 DEF Numbered, Exporter, Approved
<1> DEFINE m == IF j.number = n + 1 THEN n + 1 ELSE n
<1>6. DOMAIN exports' = 1..m
  <2>1. DOMAIN exports' = 1..n \cup {j.number}
    BY <1>1, <1>4 DEF Numbered
  <2> HIDE DEF j
  <2> QED  BY <1>5, <2>1
<1>7. Numbered(exports', m)
  <2>1. m \in Nat
    BY <1>5
  <2>2. ASSUME NEW i \in 1..m
        PROVE  exports'[i].bytes \in Nat /\ exports'[i].bytes <= Caps.source
    <3>1. exports'[i] = IF i = j.number THEN j.export ELSE exports[i]
      BY <1>1, <1>6
    <3>2. CASE i = j.number
      BY <1>5, <3>1, <3>2
    <3>3. CASE i # j.number
      <4>1. i \in 1..n
        BY <1>5, <3>3
      <4>2. exports'[i] = exports[i]
        BY <3>1, <3>3
      <4> QED  BY <1>4, <4>1, <4>2 DEF Numbered
    <3> QED  BY <3>2, <3>3
  <2> QED  BY <1>6, <2>1, <2>2 DEF Numbered
<1>8. ASSUME NEW q \in Procs  PROVE Exporter(job'[q], activations, m)
  <2>1. CASE q = p
    BY <1>3, <2>1 DEF Exporter, Idle
  <2>2. CASE q # p
    <3> DEFINE o == job[q]
    <3>1. Exporter(o, activations, n)
      BY <1>4
    <3> HIDE DEF o
    <3>2. o.at = "write" => o.number \in 1..(m + 1)
      <4>1. o.at = "write" => o.number \in 1..(n + 1)
        BY <3>1 DEF Exporter
      <4> QED  BY <1>5, <4>1
    <3> HIDE DEF m
    <3>3. Exporter(o, activations, m)
      BY <3>1, <3>2 DEF Exporter
    <3> QED  BY <1>3, <2>2, <3>3 DEF o
  <2> QED  BY <2>1, <2>2
<1>9. ASSUME \A y \in published' : y.alone
      PROVE  /\ \A y \in published' : Within(y, exports', m)
             /\ Bytes(exports') <= Caps.session
             /\ \A q \in Procs : Spends(job'[q], exports', m)
  <2>1. j.alone /\ \A y \in published : y.alone
    BY <1>1, <1>2, <1>9
  <2>2. /\ \A y \in published : Within(y, exports, n)
        /\ Spends(j, exports, n)
    BY <1>4, <2>1 DEF Budget
  <2>3. j.number = n + 1 /\ Bytes(exports) + j.export.bytes <= Caps.session
    BY <1>1, <2>1, <2>2 DEF Spends, Exports
  <2>4. m = n + 1 /\ exports'[n + 1] = j.export /\ \A i \in 1..n : exports'[i] = exports[i]
    <3>1. DOMAIN exports = 1..n
      BY <1>4 DEF Numbered
    <3>2. m = n + 1
      BY <2>3
    <3>3. exports'[n + 1] = j.export
      BY <1>1, <2>3
    <3>4. ASSUME NEW i \in 1..n  PROVE exports'[i] = exports[i]
      <4>1. i # n + 1 /\ i \in DOMAIN exports
        BY <1>5, <3>1
      <4> QED  BY <1>1, <2>3, <4>1
    <3> QED  BY <3>2, <3>3, <3>4
  <2>5. Bytes(exports') = Bytes(exports) + j.export.bytes
    <3>1. Numbered(exports', n + 1)
      BY <1>7, <2>4
    <3> QED  BY <1>4, <2>4, <3>1, BytesGrow
  <2>6. ASSUME NEW y \in published'  PROVE Within(y, exports', m)
    <3>1. CASE y \in published
      <4>1. y.number \in 1..n /\ exports[y.number] = y.export
        BY <2>2, <3>1 DEF Within
      <4>2. exports'[y.number] = y.export
        BY <2>4, <4>1
      <4>3. y.number \in 1..m
        BY <1>5, <2>4, <4>1
      <4> QED  BY <4>2, <4>3 DEF Within
    <3>2. CASE y = x
      <4>1. y.number = n + 1 /\ y.export = j.export
        BY <1>2, <2>3, <3>2
      <4>2. n + 1 \in 1..m
        BY <1>5, <2>4
      <4> QED  BY <2>4, <4>1, <4>2 DEF Within
    <3> QED  BY <1>1, <3>1, <3>2
  <2>7. ASSUME NEW q \in Procs  PROVE Spends(job'[q], exports', m)
    <3>1. CASE q = p
      BY <1>3, <3>1 DEF Spends
    <3>2. CASE q # p
      <4>1. ~(Exports(job[q]) /\ job[q].alone)
        BY <1>1, <2>1, <3>2 DEF ExportInv, Exports
      <4> QED  BY <1>3, <3>2, <4>1 DEF Spends
    <3> QED  BY <3>1, <3>2
  <2> QED  BY <2>3, <2>5, <2>6, <2>7
<1>10. ASSUME NEW q \in Procs, NEW r \in Procs,
              Exports(job'[q]), Exports(job'[r]), job'[q].alone, job'[r].alone
       PROVE  q = r
  BY <1>3, <1>10 DEF ExportInv
<1>11. /\ activation' = Null \/ activation' \in activations'
       /\ \A b \in activations' : Activated(b)
       /\ approver' \in Approvers /\ salt' \in {Null, Empty, TheSalt}
  BY <1>1 DEF ExportInv
<1>12. ASSUME NEW y \in published'  PROVE Approved(y.export, y.approver, activations')
  <2>1. CASE y \in published
    BY <1>1, <2>1 DEF ExportInv
  <2>2. CASE y = x
    BY <1>1, <1>2, <1>5, <2>2
  <2> QED  BY <1>1, <2>1, <2>2
<1> HIDE DEF m
<1>13. \E i : /\ Numbered(exports', i)
              /\ \A q \in Procs : Exporter(job'[q], activations', i)
              /\ (\A y \in published' : y.alone) =>
                    /\ \A y \in published' : Within(y, exports', i)
                    /\ Bytes(exports') <= Caps.session
                    /\ \A q \in Procs : Spends(job'[q], exports', i)
  BY <1>1, <1>7, <1>8, <1>9
<1> QED  BY <1>3, <1>10, <1>11, <1>12, <1>13 DEF ExportInv

(* A step that touches no export command, no activation and no export. *)
LEMMA OtherKeeps ==
    ASSUME ScanInv, ExportInv,
           UNCHANGED <<activation, activations, exports, published, salt, approver>>,
           NEW p \in Procs, NEW k, ~Exports(k), job' = [job EXCEPT ![p] = k]
    PROVE  ExportInv'
<1>1. /\ salt' \in {Null, Empty, TheSalt} /\ approver' \in Approvers /\ DOMAIN job' = Procs
      /\ \A q \in Procs : job'[q] = job[q] \/ ~Exports(job'[q])
  BY DEF ExportInv
<1> QED  BY <1>1, ExportsRest

\* The steps of a scan.
ScanStep(p) ==
    \/ \E c \in Checkpoints \cup {Null}, stop \in Stops : BeginScan(p, c, stop)
    \/ Deadline(p) \/ Cancel(p)
    \/ Clear(p) \/ Read(p) \/ Spill(p) \/ Aggregate(p) \/ Drop(p)

LEMMA ScanKeepsExports ==
    ASSUME ScanInv, ExportInv, NEW p \in Procs, ScanStep(p)
    PROVE  ExportInv'
<1>1. UNCHANGED <<activation, activations, exports, published, salt, approver>>
  BY DEF ScanStep, BeginScan, Deadline, Cancel, Clear, Read, Spill, Aggregate, Drop,
         workspace, history
<1> DEFINE j == job[p]
           Scanner(k) == Scans(k) \/ k = Idle
<1>2. \A k : Scanner(k) => ~Exports(k)
  BY DEF Exports, Idle, Scans
<1>3. ASSUME NEW c \in Checkpoints \cup {Null}, NEW stop \in Stops, BeginScan(p, c, stop)
      PROVE  ExportInv'
  <2>1. PICK i : i.at = "clear" /\ BeginsScan(p, i)
    BY <1>3 DEF BeginScan
  <2>2. /\ DOMAIN job' = Procs
        /\ \A q \in Procs : job'[q] = CASE q = p -> i
                                       [] q \in Scanning -> [job[q] EXCEPT !.alone = FALSE]
                                       [] OTHER -> job[q]
    BY <2>1 DEF BeginsScan
  <2>3. ASSUME NEW q \in Procs  PROVE job'[q] = job[q] \/ ~Exports(job'[q])
    <3>1. CASE q = p
      <4>1. q \notin Scanning
        BY <1>3, <3>1 DEF BeginScan, Free, Scanning, Idle
      <4>2. job'[q] = i
        BY <2>2, <3>1, <4>1
      <4> QED  BY <2>1, <4>2 DEF Exports
    <3>2. CASE q # p /\ q \in Scanning
      <4>1. Scans(job[q]) /\ job'[q] = [job[q] EXCEPT !.alone = FALSE]
        BY <2>2, <3>2 DEF Scanning, Scans
      <4>2. job[q] \in ScanJob \/ Drops(job[q])
        BY <4>1 DEF ScanInv, JobsShaped, Standing
      <4>3. CASE job[q] \in ScanJob
        <5>1. job'[q].at \in {"clear", "read", "spill", "aggregate"}
          BY <4>1, <4>3 DEF ScanJob
        <5> QED  BY <5>1 DEF Exports
      <4>4. CASE Drops(job[q])
        <5>1. job'[q].at = "drop"
          BY <4>1, <4>4 DEF Drops
        <5> QED  BY <5>1 DEF Exports
      <4> QED  BY <4>2, <4>3, <4>4
    <3>3. CASE q # p /\ q \notin Scanning
      BY <2>2, <3>3
    <3> QED  BY <3>1, <3>2, <3>3
  <2>4. salt' \in {Null, Empty, TheSalt} /\ approver' \in Approvers
    BY <1>1 DEF ExportInv
  <2> QED  BY <1>1, <2>2, <2>3, <2>4, ExportsRest
<1>4. ASSUME NEW k, Scanner(k), Goes(p, k)  PROVE ExportInv'
  <2>1. ~Exports(k)
    BY <1>2, <1>4
  <2> QED  BY <1>1, <1>4, <2>1, OtherKeeps DEF Goes
<1>5. ASSUME NEW report, Finishes(p, report)  PROVE ExportInv'
  <2> DEFINE k == [at |-> "drop", doomed |-> spill, report |-> report, alone |-> j.alone]
  <2>1. Scanner(k)
    BY DEF Scans
  <2>2. Goes(p, k)
    BY <1>5 DEF Finishes
  <2> HIDE DEF k, Scanner
  <2> QED  BY <1>4, <2>1, <2>2
<1>6. ASSUME j.at \in {"clear", "read", "spill", "aggregate"}
      PROVE  j \in ScanJob
  BY <1>6, ScanFacts
<1>7. ASSUME NEW hashes, NEW index, j \in ScanJob, Proceeds(p, hashes, index)
      PROVE  ExportInv'
  <2> DEFINE k == [j EXCEPT !.at = "read", !.hashes = hashes, !.index = index]
  <2>1. Goes(p, Idle) \/ Goes(p, k)
    BY <1>7 DEF Proceeds
  <2> HIDE DEF j
  <2>2. k.at = "read"
    BY <1>7 DEF ScanJob
  <2> HIDE DEF k
  <2>3. Scanner(Idle) /\ Scanner(k)
    BY <2>2 DEF Scans
  <2> HIDE DEF Scanner
  <2> QED  BY <1>4, <2>1, <2>3
<1>8. ASSUME Deadline(p) \/ Cancel(p)  PROVE ExportInv'
  <2> DEFINE k == [j EXCEPT !.late = TRUE]
             l == [j EXCEPT !.closed = TRUE]
  <2>1. j.at \in {"read", "spill"} /\ (Goes(p, k) \/ Goes(p, l))
    BY <1>8 DEF Deadline, Cancel, Streaming
  <2>2. j \in ScanJob
    BY <1>6, <2>1
  <2> HIDE DEF j
  <2>3. k.at = j.at /\ l.at = j.at
    BY <2>2 DEF ScanJob
  <2> HIDE DEF k, l
  <2>4. Scanner(k) /\ Scanner(l)
    BY <2>1, <2>3 DEF Scans
  <2> HIDE DEF Scanner
  <2> QED  BY <1>4, <2>1, <2>4
<1>9. ASSUME Clear(p)  PROVE ExportInv'
  <2>1. j.at = "clear" /\ \/ \E f \in j.doomed : Goes(p, [j EXCEPT !.doomed = @ \ {f}])
                          \/ Goes(p, [j EXCEPT !.at = "read", !.index = Cardinality(spill)])
    BY <1>9 DEF Clear
  <2>2. j \in ScanJob
    BY <1>6, <2>1
  <2> HIDE DEF j
  <2>3. ASSUME NEW f, Goes(p, [j EXCEPT !.doomed = @ \ {f}])  PROVE ExportInv'
    <3> DEFINE k == [j EXCEPT !.doomed = @ \ {f}]
    <3>1. k.at = "clear"
      BY <2>1, <2>2 DEF ScanJob
    <3>2. Goes(p, k)
      BY <2>3
    <3> HIDE DEF k
    <3>3. Scanner(k)
      BY <3>1 DEF Scans
    <3> HIDE DEF Scanner
    <3> QED  BY <1>4, <3>2, <3>3
  <2>4. ASSUME Goes(p, [j EXCEPT !.at = "read", !.index = Cardinality(spill)])
        PROVE  ExportInv'
    <3> DEFINE k == [j EXCEPT !.at = "read", !.index = Cardinality(spill)]
    <3>1. k.at = "read"
      BY <2>2 DEF ScanJob
    <3>2. Goes(p, k)
      BY <2>4
    <3> HIDE DEF k
    <3>3. Scanner(k)
      BY <3>1 DEF Scans
    <3> HIDE DEF Scanner
    <3> QED  BY <1>4, <3>2, <3>3
  <2> QED  BY <2>1, <2>3, <2>4
<1>10. ASSUME Read(p)  PROVE ExportInv'
  <2> DEFINE k == [j EXCEPT !.at = "aggregate"]
             l == [j EXCEPT !.at = "spill"]
  <2>1. j.at = "read" /\ \/ Finishes(p, Null) \/ Goes(p, Idle) \/ Goes(p, k) \/ Goes(p, l)
                         \/ \E hashes, index : Proceeds(p, hashes, index)
    BY <1>10 DEF Read
  <2>2. j \in ScanJob
    BY <1>6, <2>1
  <2>3. CASE \E hashes, index : Proceeds(p, hashes, index)
    BY <1>7, <2>2, <2>3
  <2>4. CASE Finishes(p, Null)
    BY <1>5, <2>4
  <2>5. Scanner(Idle) /\ Scanner(k) /\ Scanner(l)
    <3> HIDE DEF j
    <3>1. k.at = "aggregate"
      BY <2>2 DEF ScanJob
    <3>2. l.at = "spill"
      BY <2>2 DEF ScanJob
    <3> HIDE DEF k, l
    <3> QED  BY <3>1, <3>2 DEF Scans
  <2> HIDE DEF k, l, Scanner, j
  <2> QED  BY <1>4, <2>1, <2>3, <2>4, <2>5
<1>11. ASSUME Spill(p)  PROVE ExportInv'
  <2>1. /\ j.at = "spill"
        /\ Goes(p, Idle) \/ \E hashes, index : Proceeds(p, hashes, index)
    BY <1>11 DEF Spill
  <2>2. j \in ScanJob
    BY <1>6, <2>1
  <2> QED  BY <1>4, <1>7, <2>1, <2>2
<1>12. ASSUME Aggregate(p)  PROVE ExportInv'
  <2>1. Goes(p, Idle) \/ \E report : Finishes(p, report)
    BY <1>12 DEF Aggregate
  <2> QED  BY <1>4, <1>5, <2>1
<1>13. ASSUME Drop(p)  PROVE ExportInv'
  <2>1. j.at = "drop" /\ \/ \E f \in j.doomed : Goes(p, [j EXCEPT !.doomed = @ \ {f}])
                         \/ Goes(p, Idle)
    BY <1>13 DEF Drop
  <2>2. Drops(j)
    BY <2>1 DEF ScanInv, JobsShaped, Standing, Scans
  <2> HIDE DEF j
  <2>3. ASSUME NEW f, Goes(p, [j EXCEPT !.doomed = @ \ {f}])  PROVE ExportInv'
    <3> DEFINE k == [j EXCEPT !.doomed = @ \ {f}]
    <3>1. k.at = "drop"
      BY <2>2 DEF Drops
    <3>2. Goes(p, k)
      BY <2>3
    <3> HIDE DEF k
    <3>3. Scanner(k)
      BY <3>1 DEF Scans
    <3> HIDE DEF Scanner
    <3> QED  BY <1>4, <3>2, <3>3
  <2> QED  BY <1>4, <2>1, <2>3
<1> QED
  BY <1>3, <1>8, <1>9, <1>10, <1>11, <1>12, <1>13 DEF ScanStep

(* Every step keeps the invariant of the exports. *)
LEMMA NextExport ==
    ASSUME ScanInv, ExportInv, [Next]_vars
    PROVE  ExportInv'
<1>1. CASE UNCHANGED vars
  <2>1. UNCHANGED <<activation, activations, exports, published, salt, approver, job>>
    BY <1>1 DEF vars, workspace, history
  <2>2. salt' \in {Null, Empty, TheSalt} /\ approver' \in Approvers /\ DOMAIN job' = Procs
    BY <2>1 DEF ExportInv
  <2> QED  BY <2>1, <2>2, ExportsRest
<1>2. ASSUME NEW p \in Procs,
             ScanStep(p)
      PROVE  ExportInv'
  BY <1>2, ScanKeepsExports
<1>3. ~Exports(Idle) /\ ~Exports([at |-> "salt"])
  BY DEF Exports, Idle
<1>4. ASSUME NEW p \in Procs, BeginPropose(p)  PROVE ExportInv'
  <2>1. /\ job' = [job EXCEPT ![p] = [at |-> "salt"]] /\ salt' = Empty
        /\ UNCHANGED <<activation, activations, exports, published, approver>>
    BY <1>4 DEF BeginPropose, Begins, history
  <2>2. /\ approver' \in Approvers /\ DOMAIN job' = Procs
        /\ \A q \in Procs : job'[q] = job[q] \/ ~Exports(job'[q])
    BY <1>3, <2>1 DEF ExportInv
  <2> QED  BY <2>1, <2>2, ExportsRest
<1>5. ASSUME NEW p \in Procs, WriteSalt(p)  PROVE ExportInv'
  <2>1. /\ job' = [job EXCEPT ![p] = Idle] /\ salt' = TheSalt
        /\ UNCHANGED <<activation, activations, exports, published, approver>>
    BY <1>5 DEF WriteSalt, Goes, history
  <2>2. /\ approver' \in Approvers /\ DOMAIN job' = Procs
        /\ \A q \in Procs : job'[q] = job[q] \/ ~Exports(job'[q])
    BY <1>3, <2>1 DEF ExportInv
  <2> QED  BY <2>1, <2>2, ExportsRest
<1>6. ASSUME NEW p \in Procs, RecordPolicy(p) \/ Kill(p)  PROVE ExportInv'
  BY <1>3, <1>6, OtherKeeps DEF RecordPolicy, Kill, Goes, history, workspace
<1>7. ASSUME NEW p \in Procs, NEW profile, NEW f,
             Activate(p, profile, f) \/ BeginExport(p, profile, f)
      PROVE  ExportInv'
  BY <1>7, ActivateKeeps, BeginExportKeeps
<1>8. ASSUME NEW p \in Procs, Build(p) \/ Name(p) \/ Write(p)  PROVE ExportInv'
  BY <1>8, BuildKeeps, NameKeeps, WriteKeeps DEF ScanInv
<1>9. ASSUME NEW v \in Versions, NewData(v)  PROVE ExportInv'
  <2>1. UNCHANGED <<activation, activations, exports, published, salt, approver, job>>
    BY <1>9 DEF NewData, workspace, history
  <2>2. salt' \in {Null, Empty, TheSalt} /\ approver' \in Approvers /\ DOMAIN job' = Procs
    BY <2>1 DEF ExportInv
  <2> QED  BY <2>1, <2>2, ExportsRest
<1>10. ASSUME NEW a \in Approvers, Revise(a)  PROVE ExportInv'
  <2>1. approver' = a /\ UNCHANGED <<activation, activations, exports, published, salt, job>>
    BY <1>10 DEF Revise, workspace, history
  <2>2. salt' \in {Null, Empty, TheSalt} /\ approver' \in Approvers /\ DOMAIN job' = Procs
    BY <2>1 DEF ExportInv
  <2> QED  BY <2>1, <2>2, ExportsRest
<1> QED
  BY <1>1, <1>2, <1>4, <1>5, <1>6, <1>7, <1>8, <1>9, <1>10 DEF Next, Run, ScanStep

-----------------------------------------------------------------------------
(* The theorems.                                                            *)

Inv == ScanInv /\ ExportInv

\* Every state of the specification keeps both: a scan has read a first part of
\* its stream, and the spill of one that is alone holds that and its checkpoint,
\* with the files torn that were torn when it resumed and the one it is writing,
\* and no other (ProfileRunner); a command that exports
\* alone knows what is spent (_session_context_bytes_used).
THEOREM Inductive ==
    Spec => []Inv
<1>1. Init => Inv
  BY InitScan, InitExport DEF Inv
<1>2. Inv /\ [Next]_vars => Inv'
  BY NextScan, NextExport DEF Inv
<1> QED  BY <1>1, <1>2, PTL DEF Spec

\* A completed profile counts every row of the snapshot its scan opened once and
\* no other, resumed or not; or, resumed over a torn file, none (ProfileRunner).
THEOREM Exact ==
    Spec => []ScanExact
<1>1. Inv => ScanExact
  BY DEF Inv, ScanInv, Recorded, ScanExact
<1> QED  BY <1>1, Inductive, PTL

\* What was published rests on an activation of the approver of the charter, and
\* shows nothing its policy does not reveal (export_context_sample).
THEOREM OnlyApproved ==
    Spec => []ExportApproved
<1>1. Inv => ExportApproved
  <2> SUFFICES ASSUME Inv, NEW x \in published  PROVE
        /\ Activation(x.export.policy, x.export.profile, x.approver) \in activations
        /\ \A i \in DOMAIN x.export.rows : \A c \in DOMAIN x.export.rows[i] :
              LET v == x.export.rows[i][c] IN
              /\ x.export.policy.fields[c] # "omit"
              /\ "value" \in DOMAIN v =>
                    /\ x.export.policy.fields[c] = "reveal"
                    /\ c \notin Denied /\ v.value \notin Secret
                    /\ x.export.profile.columns[c].distinct <= Caps.revealed
    BY DEF ExportApproved
  <2> DEFINE e == x.export
             a == Activation(e.policy, e.profile, x.approver)
  <2>1. Approved(e, x.approver, activations)
    BY DEF Inv, ExportInv
  <2>2. a \in activations /\ \A i \in DOMAIN e.rows : ShownBy(e.policy.fields, e.rows[i])
    BY <2>1 DEF Approved
  <2>3. Activatable(e.policy, e.profile)
    <3>1. Activated(a) /\ a.policy = e.policy /\ a.profile = e.profile
      BY <2>2 DEF Inv, ExportInv, Activation
    <3> HIDE DEF a, e
    <3> QED  BY <3>1 DEF Activated
  <2> HIDE DEF a, e
  <2>4. ASSUME NEW i \in DOMAIN e.rows, NEW c \in DOMAIN e.rows[i]
        PROVE  /\ e.policy.fields[c] # "omit"
               /\ "value" \in DOMAIN e.rows[i][c] =>
                     /\ e.policy.fields[c] = "reveal"
                     /\ c \notin Denied /\ e.rows[i][c].value \notin Secret
                     /\ e.profile.columns[c].distinct <= Caps.revealed
    BY <2>2, <2>3 DEF ShownBy, Activatable
  <2> QED  BY <2>2, <2>4 DEF a, e
<1> QED  BY <1>1, Inductive, PTL

\* Exports that do not overlap are all kept, each within its own cap and all
\* within the session's; they are numbered without a gap (_next_context_export_path).
THEOREM Sound ==
    Spec => []ExportsSound
<1>1. Inv => TypeOK
  <2> SUFFICES ASSUME Inv  PROVE TypeOK
    OBVIOUS
  <2>1. /\ \A f \in spill : f.index \in Nat
        /\ \A r \in profiles : r.profile.outcome \in {"completed", "partial"}
    BY DEF Inv, ScanInv, Shaped, Recorded, File
  <2>2. salt \in {Null, Empty, TheSalt} /\ (activation # Null => activation.approver \in Approvers)
    BY DEF Inv, ExportInv, Activated
  <2>3. PICK n : Numbered(exports, n)
    BY DEF Inv, ExportInv
  <2>4. n \in Nat /\ DOMAIN exports = 1..n
    BY <2>3 DEF Numbered
  <2>5. Cardinality(1..n) = n
    BY <2>4, FS_Interval
  <2>6. \A k \in DOMAIN exports : exports[k].bytes <= Caps.source
    BY <2>3 DEF Numbered
  <2> QED  BY <2>1, <2>2, <2>4, <2>5, <2>6 DEF TypeOK
<1>2. Inv => BudgetKept
  <2> SUFFICES ASSUME Inv, \A x \in published : x.alone
               PROVE  /\ \A x \in published : exports[x.number] = x.export
                      /\ Bytes(exports) <= Caps.session
    BY DEF BudgetKept, Bytes
  <2> QED  BY DEF Inv, ExportInv, Within
<1>3. Inv => ExportsSound
  BY <1>1, <1>2 DEF ExportsSound
<1> QED  BY <1>3, Inductive, PTL

=============================================================================
