------------------------------- MODULE Sampling -------------------------------
(***************************************************************************)
(* Aggregate profiles, sample policies and redacted samples of one source   *)
(* (profiling.py): what a profile says of the rows it was made of, which     *)
(* policies can be activated, and the rows an export holds.  Everything     *)
(* here is a function of its arguments.                                     *)
(*                                                                         *)
(* A row maps every column to an integer or to Null; a batch is a sequence  *)
(* of rows.  The digest of a batch is the batch, a fingerprint the value it *)
(* is taken of; a salted digest is a record of the salt and the value.      *)
(***************************************************************************)
EXTENDS SequencesExt, Integers

CONSTANTS
    Columns,        \* columns of the source
    Types,          \* [Columns -> "int", "text", "list"]
    Denied,         \* columns classify_field denies by name
    Secret,         \* values of the shape of a credential
    Null,           \* the null value, and no value at all
    Rank(_, _),     \* order of the salted digests of the grain values
    Caps            \* [rows, fields, source, session, revealed]

ASSUME SamplingAssumption ==
    /\ IsFiniteSet(Columns)
    /\ Caps \in [rows : Nat, fields : Nat, source : Nat, session : Nat,
                revealed : Nat]

-----------------------------------------------------------------------------
(* Profiles.                                                                *)

\* A type that cannot be aggregated exactly makes the source unavailable.
Supported == \A c \in Columns : Types[c] # "list"
HasRange(c) == Types[c] = "int"

Values(rows, c) == {rows[i][c] : i \in DOMAIN rows} \ {Null}
Lowest(S) == IF S = {} THEN Null ELSE Min(S)
Highest(S) == IF S = {} THEN Null ELSE Max(S)

ColumnProfile(rows, c) ==
    [nulls |-> Cardinality({i \in DOMAIN rows : rows[i][c] = Null}),
     distinct |-> Cardinality(Values(rows, c)),
     low |-> IF HasRange(c) THEN Lowest(Values(rows, c)) ELSE Null,
     high |-> IF HasRange(c) THEN Highest(Values(rows, c)) ELSE Null]

\* The members of s at the places in D.
Picked(s, D) ==
    [k \in 1 .. Cardinality(D) |->
        s[CHOOSE i \in D : Cardinality({j \in D : j < i}) = k - 1]]

\* Only declared columns make a grain; without one duplicates are not counted.
Declared(grain) == Picked(grain, {i \in DOMAIN grain : grain[i] \in Columns})
GrainOf(row, grain) == [i \in DOMAIN Declared(grain) |-> row[Declared(grain)[i]]]
Duplicates(rows, grain) ==
    IF Declared(grain) = <<>> THEN Null
    ELSE Len(rows) - Cardinality({GrainOf(rows[i], grain) : i \in DOMAIN rows})

\* hashes are the batches read, batches those that are counted.
Completed(token, hashes, batches, grain) ==
    LET rows == FlattenSeq(batches) IN
    [outcome |-> "completed", token |-> token, hashes |-> hashes,
     rows |-> Len(rows), columns |-> [c \in Columns |-> ColumnProfile(rows, c)],
     duplicates |-> Duplicates(rows, grain)]

\* Every count over a file that cannot be read fails and is taken for none; the
\* count of the rows, for zero.
Uncounted(token, hashes) ==
    [outcome |-> "completed", token |-> token, hashes |-> hashes, rows |-> 0,
     columns |-> [c \in Columns |->
                    [nulls |-> Null, distinct |-> Null, low |-> Null, high |-> Null]],
     duplicates |-> Null]

\* files are those of the spill: [batch, whole], in the order of their names.
Unreadable(files) == files # <<>> /\ ~files[1].whole
Aggregated(token, hashes, files, grain) ==
    IF \A i \in DOMAIN files : files[i].whole
      THEN Completed(token, hashes, [i \in DOMAIN files |-> files[i].batch], grain)
      ELSE Uncounted(token, hashes)

Partial(token, hashes) ==
    [outcome |-> "partial", token |-> token, hashes |-> hashes]
Available(profile) == profile.outcome = "completed"

-----------------------------------------------------------------------------
(* Policies: a transform for every column, a grain and the salt's identity.  *)

Transforms == {"omit", "redact", "hash", "bucket", "reveal"}

Exposed(policy) == {c \in Columns : policy.fields[c] # "omit"}

Proposed(grain, salt) ==
    [fields |-> [c \in Columns |-> "omit"], grain |-> Declared(grain), salt |-> salt]

\* Denial is derived from the profile, never taken from the policy.
Activatable(policy, profile) ==
    /\ Available(profile)
    /\ policy.fields \in [Columns -> Transforms]
    /\ \A c \in Columns :
          /\ policy.fields[c] = "reveal" =>
                /\ c \notin Denied
                /\ profile.columns[c].distinct # Null
                /\ profile.columns[c].distinct <= Caps.revealed
          /\ policy.fields[c] = "bucket" => HasRange(c)
    /\ Cardinality(Exposed(policy)) <= Caps.fields

Activation(policy, profile, approver) ==
    [policy |-> policy, profile |-> profile, approver |-> approver]

\* Mutant: whoever activated the policy.
VerifiedByAnyone(a, policy, profile, approver) ==
    a.policy = policy /\ a.profile = profile
Verified(a, policy, profile, approver) == a = Activation(policy, profile, approver)

-----------------------------------------------------------------------------
(* Samples.                                                                 *)

\* The rows of the smallest digests.  The heap compares digests, then the
\* places of the rows, and evicts the earlier of two equal digests.
Before(rows, grain, salt, i, j) ==
    LET r(k) == Rank(salt, GrainOf(rows[k], grain)) IN
    r(i) < r(j) \/ (r(i) = r(j) /\ i > j)

Kept(rows, grain, salt) ==
    {i \in DOMAIN rows :
        Cardinality({j \in DOMAIN rows : Before(rows, grain, salt, j, i)}) < Caps.rows}

\* The kept rows by digest; rows of one digest leave the heap's array sorted
\* in no order of their own, here in that of the stream.
Sample(rows, grain, salt) ==
    LET r(k) == Rank(salt, GrainOf(rows[k], grain))
        kept == Kept(rows, grain, salt)
        sooner(i) == {j \in kept : r(j) < r(i) \/ (r(j) = r(i) /\ j < i)}
    IN  [k \in 1 .. Cardinality(kept) |->
            rows[CHOOSE i \in kept : Cardinality(sooner(i)) = k - 1]]

\* Four buckets of equal width over the range the profile observed.
Bucket(v, column) ==
    IF column.low = Null THEN "bucketed"
    ELSE LET span == column.high - column.low
             part == 4 * (v - column.low)
         IN  CASE span <= 0 -> "b0"
               [] span > 0 /\ part <= span -> "b0"
               [] span > 0 /\ part > span /\ part <= 2 * span -> "b1"
               [] span > 0 /\ part > 2 * span /\ part <= 3 * span -> "b2"
               [] span > 0 /\ part > 3 * span -> "b3"

Transformed(v, c, policy, profile, salt) ==
    CASE v = Null -> [null |-> TRUE]
      [] v # Null /\ policy.fields[c] = "redact" -> [redacted |-> TRUE]
      [] v # Null /\ policy.fields[c] = "hash" -> [salt |-> salt, column |-> c, of |-> v]
      [] v # Null /\ policy.fields[c] = "bucket" ->
            [bucket |-> Bucket(v, profile.columns[c])]
      [] v # Null /\ policy.fields[c] = "reveal" -> [value |-> v]

Redacted(rows, policy, profile, salt) ==
    [i \in DOMAIN rows |->
        [c \in Exposed(policy) |-> Transformed(rows[i][c], c, policy, profile, salt)]]

\* A value under an innocent name that looks like a credential stops the export.
Leaks(rows, policy) ==
    \E i \in DOMAIN rows, c \in Columns :
        policy.fields[c] = "reveal" /\ (c \in Denied \/ rows[i][c] \in Secret)

\* The sum of a sequence of numbers.
Total(f) ==
    LET sum[n \in 0 .. Len(f)] == IF n = 0 THEN 0 ELSE sum[n - 1] + f[n]
    IN  sum[Len(f)]

\* Bytes of a payload: the grain, and a fixed part and the fields of each row.
Weights(rows) == [i \in DOMAIN rows |-> 1 + Cardinality(DOMAIN rows[i])]
Size(rows, grain) == Len(grain) + Total(Weights(rows))

\* Rows are dropped from the end until the payload fits or one row is left.
Trimmed(rows, grain, cap) ==
    LET fits == {n \in 1 .. Len(rows) : Size(SubSeq(rows, 1, n), grain) <= cap}
    IN  IF Len(rows) <= 1 THEN rows ELSE SubSeq(rows, 1, Max(fits \cup {1}))

\* No export at all.
Refused == Null

\* used are the bytes the session has exported so far.
Export(rows, policy, profile, salt, used) ==
    LET sample == Sample(rows, policy.grain, salt)
        whole == Redacted(sample, policy, profile, salt)
        source == Trimmed(whole, policy.grain, Caps.source)
        final == Trimmed(source, policy.grain, Caps.session - used)
        size == Size(final, policy.grain)
    IN  IF \/ ~Available(profile) \/ Declared(policy.grain) = <<>>
           \/ Leaks(sample, policy)
           \/ Size(source, policy.grain) > Caps.source
           \/ used >= Caps.session
           \/ size > Caps.session - used
          THEN Refused
          ELSE [rows |-> final, bytes |-> size, policy |-> policy, profile |-> profile]
=============================================================================
