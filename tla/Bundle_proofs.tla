------------------------------ MODULE Bundle_proofs ------------------------------
(***************************************************************************)
(* What generation, builds and synchronisation leave on disk, for every     *)
(* catalog, every set of authored inputs and edits, and any number of       *)
(* commands, saves and kills.                                               *)
(***************************************************************************)
EXTENDS Bundle, SequenceTheorems, Recursion_proofs

-----------------------------------------------------------------------------
(* The order of the paths.                                                  *)

\* The paths of S before u.
Before(S, u) == {v \in S : Rank(v) < Rank(u)}

(* Paths have an order, and Ordered is the paths in it. *)
LEMMA OrderedFacts ==
    ASSUME NEW S \in SUBSET Paths
    PROVE  /\ Ordered(S) \in [1 .. Cardinality(S) -> S] /\ InOrder(Ordered(S))
           /\ IsFiniteSet(S) /\ Cardinality(S) \in Nat
<1> DEFINE n == Cardinality(S)
           b == [u \in S |-> Before(S, u)]
           place(k) == CHOOSE u \in S : Cardinality(b[u]) = k - 1
           f == [k \in 1 .. n |-> place(k)]
<1>1. IsFiniteSet(S) /\ n \in Nat
  BY CatalogAssumption, FS_Subset, FS_CardinalityType
<1>2. \A u, v \in S : /\ Rank(u) \in Int /\ Rank(v) \in Int
                      /\ Rank(u) = Rank(v) => u = v
  BY CatalogAssumption
<1>3. \A k \in 1 .. n : \E u \in S : Cardinality(b[u]) = k - 1
  <2>1. /\ b \in [S -> SUBSET S]
        /\ \A u \in S : u \notin b[u]
    BY <1>2 DEF Before
  <2>2. \A u, v \in S : u \in b[v] => b[u] \subseteq b[v]
    BY <1>2 DEF Before
  <2>3. \A u, v \in S : u # v => u \in b[v] \/ v \in b[u]
    BY <1>2 DEF Before
  <2> HIDE DEF b
  <2> QED  BY <1>1, <2>1, <2>2, <2>3, RankExists
<1>4. \A k \in 1 .. n : place(k) \in S /\ Cardinality(b[place(k)]) = k - 1
  <2> HIDE DEF b, n
  <2> QED  BY <1>3
<1>5. f \in [1 .. n -> S]
  <2> HIDE DEF place, n
  <2> QED  BY <1>4
<1>6. ASSUME NEW i \in 1 .. n, NEW j \in 1 .. n, i < j  PROVE Rank(f[i]) < Rank(f[j])
  <2>1. f[i] = place(i) /\ f[j] = place(j) /\ f[i] \in S /\ f[j] \in S
    <3> HIDE DEF place, n
    <3> QED  BY <1>5
  <2>2. Cardinality(b[f[i]]) = i - 1 /\ Cardinality(b[f[j]]) = j - 1
    <3> HIDE DEF b, n, place, f
    <3> QED  BY <1>4, <2>1
  <2> HIDE DEF place, f, n
  <2>3. SUFFICES ASSUME Rank(f[j]) <= Rank(f[i])  PROVE FALSE
    BY <1>2, <2>1
  <2>4. b[f[j]] \subseteq b[f[i]] /\ b[f[i]] \subseteq S
    BY <1>2, <2>1, <2>3 DEF Before
  <2>5. IsFiniteSet(b[f[i]])
    BY <1>1, <2>4, FS_Subset
  <2>6. Cardinality(b[f[j]]) <= Cardinality(b[f[i]])
    BY <2>4, <2>5, FS_Subset
  <2> HIDE DEF b
  <2>7. i \in Nat /\ j \in Nat
    BY <1>1
  <2> QED  BY <1>6, <2>2, <2>6, <2>7
<1>7. InOrder(f)
  <2> HIDE DEF f, n
  <2> QED  BY <1>5, <1>6 DEF InOrder
<1>8. \E o \in [1 .. n -> S] : InOrder(o)
  <2> HIDE DEF f, n
  <2> QED  BY <1>5, <1>7
<1> QED  BY <1>1, <1>8 DEF Ordered

(* Nothing is missing in it, and nothing is in it twice. *)
LEMMA OrderedAll ==
    ASSUME NEW S \in SUBSET Paths
    PROVE  /\ Ordered(S) \in Seq(S) /\ Len(Ordered(S)) = Cardinality(S)
           /\ Range(Ordered(S)) = S
           /\ \A i, j \in DOMAIN Ordered(S) : Ordered(S)[i] = Ordered(S)[j] => i = j
<1> DEFINE o == Ordered(S)
           n == Cardinality(S)
<1>1. o \in [1 .. n -> S] /\ InOrder(o) /\ IsFiniteSet(S) /\ n \in Nat
  BY OrderedFacts
<1>2. \A u \in S : Rank(u) \in Int
  BY CatalogAssumption
<1> HIDE DEF o, n
<1>3. ASSUME NEW i \in 1 .. n, NEW j \in 1 .. n, o[i] = o[j]  PROVE i = j
  BY <1>1, <1>2, <1>3 DEF InOrder
<1>4. o \in Injection(1 .. n, S)
  BY <1>1, <1>3 DEF Injection, IsInjective
<1>5. IsFiniteSet(1 .. n) /\ Cardinality(1 .. n) = n
  BY <1>1, FS_Interval
<1>6. o \in Surjection(1 .. n, S)
  BY <1>1, <1>4, <1>5, FS_Injection DEF n
<1>7. Range(o) = S
  BY <1>1, <1>6 DEF Surjection, Range
<1>8. o \in Seq(S) /\ Len(o) = n
  BY <1>1
<1> QED  BY <1>1, <1>3, <1>7, <1>8 DEF o, n

-----------------------------------------------------------------------------
(* Documents.                                                               *)

IsDoc(doc) == DOMAIN doc = DOMAIN Blank

\* Only a concept says that it was generated, and it is at the path of its name.
Placed(path, doc) ==
    doc.generated # Absent =>
        /\ doc.selayer_id \in Ids /\ path = concept_path(doc.selayer_id)
        /\ doc.generated.descriptive \in BOOLEAN
DocOK(path, doc) == IsDoc(doc) /\ Trusted(doc) /\ Placed(path, doc)
FilesOK(fs) == DOMAIN fs \subseteq Paths /\ \A path \in DOMAIN fs : DocOK(path, fs[path])

\* What sync makes of a document: the generated parts are those of the catalog.
Converged(doc, generated) ==
    /\ doc.parses
    /\ doc.definitions = generated.definitions
    /\ \A key \in Controlled \cup {"generated"} : doc[key] = generated[key]

\* What generation makes.
Generated(doc, id, descriptive) ==
    /\ IsDoc(doc) /\ doc.parses /\ doc.verified = Absent
    /\ doc.selayer_id = id /\ doc.generated # Absent
    /\ doc.generated.descriptive = descriptive
    /\ Len(doc.definitions) = 1
    /\ doc.generated.fingerprint = generated_fingerprint(doc, doc.definitions[1])

LEMMA ConceptFacts ==
    ASSUME NEW c \in Catalogs, NEW id \in DOMAIN c, NEW descriptive \in BOOLEAN
    PROVE  Generated(ConceptOf(c, id, descriptive), id, descriptive)
<1> DEFINE object == c[id]
           d0 == [Blank EXCEPT
                    !.type = KindType(id),
                    !.title = id[2],
                    !.description = IF descriptive THEN object.description ELSE Absent,
                    !.selayer_id = id,
                    !.generated = [descriptive |-> descriptive, fingerprint |-> Absent],
                    !.status = IF object.status = "deprecated" THEN "deprecated" ELSE "stable",
                    !.replaced_by = IF object.status = "deprecated" /\ object.replaced_by # Absent
                                      THEN concept_path(object.replaced_by) ELSE Absent,
                    !.definitions = <<object.definition>>]
           G == ConceptOf(c, id, descriptive)
<1>1. G = Stamped(d0)
  BY DEF ConceptOf
<1>2. /\ IsDoc(d0) /\ d0.parses = TRUE /\ d0.verified = Absent /\ d0.selayer_id = id
      /\ d0.generated = [descriptive |-> descriptive, fingerprint |-> Absent]
      /\ d0.definitions = <<object.definition>>
  BY DEF IsDoc, Blank
<1>3. Len(d0.definitions) = 1 /\ Head(d0.definitions) = d0.definitions[1]
  <2> HIDE DEF d0
  <2> QED  BY <1>2
<1>4. /\ IsDoc(G) /\ G.parses = TRUE /\ G.verified = Absent /\ G.selayer_id = id
      /\ G.definitions = d0.definitions
      /\ G.generated.descriptive = descriptive
      /\ G.generated.fingerprint = generated_fingerprint(d0, d0.definitions[1])
      /\ \A key \in Controlled : G[key] = d0[key]
  <2> HIDE DEF d0
  <2> QED  BY <1>1, <1>2, <1>3 DEF Stamped, IsDoc, Blank, Controlled
<1>5. generated_fingerprint(G, G.definitions[1]) = generated_fingerprint(d0, d0.definitions[1])
  <2> HIDE DEF d0, G
  <2> QED  BY <1>2, <1>4 DEF generated_fingerprint
<1>6. G.generated # Absent
  BY CatalogAssumption
<1> HIDE DEF d0, G
<1> QED  BY <1>3, <1>4, <1>5, <1>6 DEF Generated, G

(* Different concepts have different paths. *)
LEMMA PathsApart ==
    ASSUME NEW id \in Ids, NEW other \in Ids, concept_path(id) = concept_path(other)
    PROVE  id = other
<1>1. /\ id = <<id[1], id[2]>> /\ id[1] \in DOMAIN Directory
      /\ other = <<other[1], other[2]>> /\ other[1] \in DOMAIN Directory
  BY CatalogAssumption DEF Ids
<1>2. Directory[id[1]] = Directory[other[1]] /\ id[2] = other[2]
  BY DEF concept_path
<1>3. id[1] = other[1]
  BY <1>1, <1>2 DEF Directory
<1> QED  BY <1>1, <1>2, <1>3

(* The documents of a catalog. *)
LEMMA LayerFacts ==
    ASSUME NEW c \in Catalogs, NEW descriptive \in BOOLEAN
    PROVE  LET concepts == concepts_from_layer(c, descriptive) IN
           /\ DOMAIN concepts = {concept_path(id) : id \in DOMAIN c}
           /\ DOMAIN concepts \subseteq Paths
           /\ \A id \in DOMAIN c : concepts[concept_path(id)] = ConceptOf(c, id, descriptive)
           /\ \A path \in DOMAIN concepts :
                 /\ Generated(concepts[path], concepts[path].selayer_id, descriptive)
                 /\ concepts[path].selayer_id \in DOMAIN c
                 /\ path = concept_path(concepts[path].selayer_id)
                 /\ DocOK(path, concepts[path])
<1> DEFINE concepts == concepts_from_layer(c, descriptive)
<1>1. DOMAIN concepts = {concept_path(id) : id \in DOMAIN c}
  BY DEF concepts_from_layer
<1>2. DOMAIN c \subseteq Ids
  BY DEF Ids
<1>3. ASSUME NEW id \in DOMAIN c
      PROVE  concepts[concept_path(id)] = ConceptOf(c, id, descriptive)
  <2> DEFINE path == concept_path(id)
             own == CHOOSE x \in DOMAIN c : concept_path(x) = path
  <2>1. own \in DOMAIN c /\ concept_path(own) = path
    OBVIOUS
  <2>2. own = id
    <3> HIDE DEF own
    <3> QED  BY <1>2, <2>1, PathsApart
  <2>3. concepts[path] = ConceptOf(c, own, descriptive)
    BY DEF concepts_from_layer
  <2> QED  BY <2>2, <2>3
<1>4. ASSUME NEW path \in DOMAIN concepts
      PROVE  /\ Generated(concepts[path], concepts[path].selayer_id, descriptive)
             /\ concepts[path].selayer_id \in DOMAIN c
             /\ path = concept_path(concepts[path].selayer_id)
             /\ DocOK(path, concepts[path])
  <2>1. PICK id \in DOMAIN c : path = concept_path(id)
    BY <1>1
  <2>2. Generated(concepts[path], id, descriptive)
    BY <1>3, <2>1, ConceptFacts
  <2>3. concepts[path].selayer_id = id
    BY <2>2 DEF Generated
  <2> HIDE DEF concepts
  <2>4. DocOK(path, concepts[path])
    BY <1>2, <2>1, <2>2, <2>3 DEF DocOK, Generated, Trusted, Placed
  <2> QED  BY <2>1, <2>2, <2>3, <2>4
<1>5. DOMAIN concepts \subseteq Paths
  BY <1>1, <1>2 DEF Paths
<1> QED  BY <1>1, <1>3, <1>4, <1>5

(* A document that is merged is generated where it should be, and otherwise *)
(* what it was; one whose definition changes is no longer verified. *)
LEMMA MergeFacts ==
    ASSUME NEW path, NEW existing, IsDoc(existing), Trusted(existing), existing.parses,
           NEW generated, DocOK(path, generated), NEW changed \in BOOLEAN
    PROVE  LET merged == merge_generated_concept_text(existing, generated, changed) IN
           /\ DocOK(path, merged)
           /\ changed \/ existing.definitions = generated.definitions => Converged(merged, generated)
           /\ \A key \in Authored : merged[key] = existing[key]
<1> DEFINE merged == merge_generated_concept_text(existing, generated, changed)
<1>1. DOMAIN merged = DOMAIN Blank
  BY DEF merge_generated_concept_text, IsDoc
<1>2. \A key \in Controlled \cup {"generated"} : merged[key] = generated[key]
  BY DEF merge_generated_concept_text, IsDoc, Blank, Controlled
<1>3. \A key \in Authored \cup {"parses"} : merged[key] = existing[key]
  BY DEF merge_generated_concept_text, IsDoc, Blank, Controlled, Authored
<1>4. /\ merged.definitions = IF changed THEN generated.definitions ELSE existing.definitions
      /\ merged.verified = IF changed THEN Absent ELSE existing.verified
  BY DEF merge_generated_concept_text, IsDoc, Blank, Controlled
<1> HIDE DEF merged
<1>5. Trusted(merged)
  BY <1>4 DEF Trusted
<1>6. Placed(path, merged)
  BY <1>2 DEF DocOK, Placed, Controlled
<1>7. changed \/ existing.definitions = generated.definitions => Converged(merged, generated)
  BY <1>2, <1>3, <1>4 DEF Converged
<1> QED  BY <1>1, <1>3, <1>5, <1>6, <1>7 DEF DocOK, IsDoc, merged

-----------------------------------------------------------------------------
(* The invariant.                                                           *)

\* Of a destination that only builds have touched.
Whole(fs, ix) ==
    /\ validate_links(fs, fs) = {}
    /\ \E c \in Catalogs : \E descriptive \in BOOLEAN :
          /\ DOMAIN concepts_from_layer(c, descriptive) \subseteq DOMAIN fs
          /\ Loads(fs, ix, c, TRUE)

\* What a command has read.
Commanded(j) ==
    /\ DOMAIN j = {"kind", "at", "catalog", "concepts", "todo", "parsed", "bytes", "raced",
                   "quiet", "written", "conflicts", "orphaned"}
    /\ j.kind \in {"generate", "sync", "build"}
    /\ j.raced \in BOOLEAN /\ j.quiet \in BOOLEAN
    /\ j.catalog \in Catalogs
    /\ \E descriptive \in BOOLEAN : j.concepts = concepts_from_layer(j.catalog, descriptive)
    /\ j.todo \in Seq(DOMAIN j.concepts)

\* A document between its two readings and its replacement: as long as nobody
\* saves it, it is what was read.
Reading(j, fs) ==
    LET path == Head(j.todo) IN
    /\ j.at \in {"bytes", "replace", "missing"} => j.todo # <<>>
    /\ j.at = "replace" => DocOK(path, j.bytes)
    /\ ~j.raced =>
          /\ j.at = "bytes" => path \in DOMAIN fs /\ j.parsed = fs[path]
          /\ j.at = "replace" => path \in DOMAIN fs /\ j.parsed = fs[path] /\ j.bytes = fs[path]
          /\ j.at = "missing" => path \notin DOMAIN fs

\* Each document that sync has been at is converged or a conflict.
Synchronised(paths, concepts, conflicts, fs) ==
    \A path \in paths :
        path \in conflicts \/ (path \in DOMAIN fs /\ Converged(fs[path], concepts[path]))

Syncing(j, fs) ==
    j.kind = "sync" =>
        /\ j.at \in {"next", "bytes", "replace", "missing", "indexes"}
        /\ Reading(j, fs)
        /\ j.quiet =>
              /\ ~j.raced
              /\ Synchronised(DOMAIN j.concepts \ Range(j.todo), j.concepts, j.conflicts, fs)
              /\ j.at = "indexes" =>
                    j.todo = <<>> /\ j.orphaned = Orphaned(fs, j.concepts, DOMAIN j.concepts)

Building(j) ==
    j.kind = "build" /\ j.at = "staged" =>
        FilesOK(j.bytes) /\ Whole(j.bytes, index_documents(j.concepts))

CommandInv ==
    command = Idle \/ (Commanded(command) /\ Syncing(command, files) /\ Building(command))

\* A report of a synchronisation nobody disturbed speaks of what is there.
ReportInv ==
    report.quiet =>
        /\ command = Idle
        /\ report.catalog \in Catalogs
        /\ \E descriptive \in BOOLEAN :
              LET concepts == concepts_from_layer(report.catalog, descriptive) IN
              /\ indexes = index_documents(concepts)
              /\ report.orphaned = Orphaned(files, concepts, DOMAIN concepts)
              /\ Synchronised(DOMAIN concepts, concepts, report.conflicts, files)

IInv ==
    /\ catalog \in Catalogs
    /\ FilesOK(files)
    /\ CommandInv
    /\ ReportInv
    /\ owner = "build" => Whole(files, indexes)

-----------------------------------------------------------------------------
(* The steps.                                                               *)

(* A file that is replaced. *)
LEMMA PutKeeps ==
    ASSUME NEW fs, FilesOK(fs), NEW path \in Paths, NEW doc, DocOK(path, doc)
    PROVE  FilesOK(Put(fs, path, doc))
<1> DEFINE new == Put(fs, path, doc)
<1>1. /\ DOMAIN new = DOMAIN fs \cup {path} /\ new[path] = doc
      /\ \A other \in DOMAIN fs : other # path => new[other] = fs[other]
  BY DEF Put
<1> HIDE DEF new
<1>2. ASSUME NEW other \in DOMAIN new  PROVE DocOK(other, new[other])
  BY <1>1 DEF FilesOK
<1>3. DOMAIN new \subseteq Paths
  BY <1>1 DEF FilesOK
<1> QED  BY <1>2, <1>3 DEF FilesOK, new

(* A command at work is not idle. *)
LEMMA AtWork ==
    ASSUME NEW j, j.kind \in {"generate", "sync", "build"}  PROVE j # Idle
BY DEF Idle

LEMMA InitInv == Init => IInv
<1> SUFFICES ASSUME Init  PROVE IInv
  OBVIOUS
<1>1. catalog \in Catalogs
  BY CatalogAssumption DEF Init
<1>2. FilesOK(files)
  BY DEF Init, FilesOK
<1>3. CommandInv
  BY DEF Init, CommandInv
<1>4. report.quiet = FALSE
  BY DEF Init, NoReport
<1>5. ReportInv
  BY <1>4 DEF ReportInv
<1> QED  BY <1>1, <1>2, <1>3, <1>5 DEF Init, IInv

(* A command begins with all documents of the catalog before it. *)
LEMMA BeginKeeps ==
    ASSUME IInv, NEW kind \in {"generate", "sync", "build"}, NEW descriptive \in BOOLEAN,
           Begin(kind, descriptive)
    PROVE  IInv'
<1> DEFINE concepts == concepts_from_layer(catalog, descriptive)
           j == [kind |-> kind, at |-> "next", catalog |-> catalog, concepts |-> concepts,
                 todo |-> Ordered(DOMAIN concepts), parsed |-> Absent, bytes |-> Absent,
                 raced |-> FALSE, quiet |-> TRUE, written |-> {}, conflicts |-> {},
                 orphaned |-> {}]
<1>1. command' = j /\ UNCHANGED <<catalog, files, indexes, log, owner>> /\ report' = NoReport
  BY DEF Begin
<1>2. catalog \in Catalogs
  BY DEF IInv
<1>3. /\ Ordered(DOMAIN concepts) \in Seq(DOMAIN concepts)
      /\ Range(Ordered(DOMAIN concepts)) = DOMAIN concepts
  <2>1. DOMAIN concepts \in SUBSET Paths
    BY <1>2, LayerFacts
  <2> HIDE DEF concepts
  <2> QED  BY <2>1, OrderedAll
<1>4. Commanded(j)
  <2> HIDE DEF concepts
  <2> QED  BY <1>2, <1>3 DEF Commanded, concepts
<1>5. Syncing(j, files) /\ Building(j)
  <2>1. DOMAIN j.concepts \ Range(j.todo) = {}
    <3> HIDE DEF concepts
    <3> QED  BY <1>3
  <2>2. Synchronised(DOMAIN j.concepts \ Range(j.todo), j.concepts, j.conflicts, files)
    <3> HIDE DEF j
    <3> QED  BY <2>1 DEF Synchronised
  <2>3. j.at = "next" /\ j.raced = FALSE
    OBVIOUS
  <2> HIDE DEF j
  <2> QED  BY <2>2, <2>3 DEF Syncing, Reading, Building
<1> HIDE DEF j
<1>6. CommandInv'
  BY <1>1, <1>4, <1>5 DEF CommandInv
<1>7. ReportInv'
  BY <1>1 DEF ReportInv, NoReport
<1>8. (owner = "build" => Whole(files, indexes))'
  BY <1>1 DEF IInv, Whole
<1> QED  BY <1>1, <1>6, <1>7, <1>8 DEF IInv

(* While a command is at work there is no report. *)
LEMMA ReportBusy ==
    ASSUME ReportInv, command # Idle, report' = report
    PROVE  ReportInv'
BY DEF ReportInv

(* The command at work. *)
LEMMA WorkFacts ==
    ASSUME IInv, command.kind \in {"generate", "sync", "build"}
    PROVE  /\ command # Idle
           /\ Commanded(command) /\ Syncing(command, files) /\ Building(command)
BY AtWork DEF IInv, CommandInv

(* The next document of a command is one of its concepts. *)
LEMMA NextDocument ==
    ASSUME NEW j, Commanded(j), j.todo # <<>>
    PROVE  /\ Head(j.todo) \in DOMAIN j.concepts /\ Head(j.todo) \in Paths
           /\ DocOK(Head(j.todo), j.concepts[Head(j.todo)])
           /\ Tail(j.todo) \in Seq(DOMAIN j.concepts)
           /\ Range(j.todo) \subseteq {Head(j.todo)} \cup Range(Tail(j.todo))
<1>1. PICK descriptive \in BOOLEAN : j.concepts = concepts_from_layer(j.catalog, descriptive)
  BY DEF Commanded
<1>2. j.catalog \in Catalogs /\ j.todo \in Seq(DOMAIN j.concepts)
  BY DEF Commanded
<1>3. Head(j.todo) \in DOMAIN j.concepts /\ Tail(j.todo) \in Seq(DOMAIN j.concepts)
  BY <1>2, HeadTailProperties
<1>4. /\ DOMAIN j.concepts \subseteq Paths
      /\ \A path \in DOMAIN j.concepts : DocOK(path, j.concepts[path])
  BY <1>1, <1>2, LayerFacts
<1>5. ASSUME NEW i \in DOMAIN j.todo  PROVE j.todo[i] \in {Head(j.todo)} \cup Range(Tail(j.todo))
  <2> DEFINE s == j.todo
             S == DOMAIN j.concepts
  <2>1. s \in Seq(S) /\ s # <<>> /\ i \in DOMAIN s
    BY <1>2, <1>5
  <2> HIDE DEF s, S
  <2>2. DOMAIN s = 1 .. Len(s) /\ Len(s) \in Nat /\ Head(s) = s[1]
        /\ DOMAIN Tail(s) = 1 .. Len(s) - 1
        /\ \A k \in 1 .. Len(s) - 1 : Tail(s)[k] = s[k + 1]
    BY <2>1
  <2>3. CASE i = 1
    BY <2>2, <2>3 DEF s
  <2>4. CASE i # 1
    <3>1. i - 1 \in DOMAIN Tail(s) /\ Tail(s)[i - 1] = s[i]
      BY <2>1, <2>2, <2>4
    <3> QED  BY <3>1 DEF Range, s
  <2> QED  BY <2>3, <2>4
<1>6. Range(j.todo) \subseteq {Head(j.todo)} \cup Range(Tail(j.todo))
  BY <1>5 DEF Range
<1> QED  BY <1>3, <1>4, <1>6

(* A document is written over whatever is there. *)
LEMMA GenerateKeeps ==
    ASSUME IInv, GenerateNext  PROVE IInv'
<1> DEFINE path == Head(command.todo)
           j == [command EXCEPT !.todo = Tail(@)]
<1>1. /\ command.kind = "generate" /\ command.todo # <<>>
      /\ files' = Put(files, path, command.concepts[path]) /\ command' = j
      /\ owner' = "others" /\ UNCHANGED <<catalog, report>>
  BY DEF GenerateNext
<1>2. command # Idle /\ Commanded(command)
  BY <1>1, WorkFacts
<1>3. path \in Paths /\ DocOK(path, command.concepts[path])
      /\ Tail(command.todo) \in Seq(DOMAIN command.concepts)
  BY <1>1, <1>2, NextDocument
<1>4. FilesOK(files')
  BY <1>1, <1>3, PutKeeps DEF IInv
<1>5. Commanded(j) /\ j.kind = "generate"
  BY <1>1, <1>2, <1>3 DEF Commanded
<1>6. Syncing(j, files') /\ Building(j)
  BY <1>5 DEF Syncing, Building
<1>7. CommandInv'
  BY <1>1, <1>5, <1>6 DEF CommandInv
<1>8. ReportInv'
  BY <1>1, <1>2, ReportBusy DEF IInv
<1> QED  BY <1>1, <1>4, <1>7, <1>8 DEF IInv

(* The first reading. *)
LEMMA SyncParseKeeps ==
    ASSUME IInv, SyncParse  PROVE IInv'
<1> DEFINE path == Head(command.todo)
           there == path \in DOMAIN files
           j == [command EXCEPT !.raced = FALSE,
                                !.at = IF there THEN "bytes" ELSE "missing",
                                !.parsed = IF there THEN files[path] ELSE Absent]
<1>1. /\ command.kind = "sync" /\ command.todo # <<>> /\ command.at = "next" /\ command' = j
      /\ UNCHANGED <<catalog, files, indexes, log, report, owner, used>>
  BY DEF SyncParse
<1>2. command # Idle /\ Commanded(command) /\ Syncing(command, files)
  BY <1>1, WorkFacts
<1>3. /\ Commanded(j) /\ j.kind = "sync" /\ j.raced = FALSE /\ j.todo = command.todo
      /\ j.concepts = command.concepts /\ j.conflicts = command.conflicts
      /\ j.quiet = command.quiet
      /\ j.at = (IF there THEN "bytes" ELSE "missing")
      /\ j.parsed = IF there THEN files[path] ELSE Absent
  BY <1>1, <1>2 DEF Commanded
<1> HIDE DEF j
<1>4. Reading(j, files)
  BY <1>1, <1>3 DEF Reading
<1>5. Syncing(j, files) /\ Building(j)
  BY <1>1, <1>2, <1>3, <1>4 DEF Syncing, Building
<1>6. CommandInv'
  BY <1>1, <1>3, <1>5 DEF CommandInv
<1>7. ReportInv'
  BY <1>1, <1>2, ReportBusy DEF IInv
<1>8. (owner = "build" => Whole(files, indexes))'
  BY <1>1 DEF IInv, Whole
<1> QED  BY <1>1, <1>6, <1>7, <1>8 DEF IInv

(* The second one. *)
LEMMA SyncBytesKeeps ==
    ASSUME IInv, SyncBytes  PROVE IInv'
<1> DEFINE path == Head(command.todo)
           j == [command EXCEPT !.at = "replace", !.bytes = files[path]]
<1>1. /\ command.kind = "sync" /\ command.at = "bytes"
      /\ UNCHANGED <<catalog, files, indexes, log, report, owner, used>>
  BY DEF SyncBytes
<1>2. command # Idle /\ Commanded(command) /\ Syncing(command, files)
  BY <1>1, WorkFacts
<1>3. ASSUME path \notin DOMAIN files  PROVE CommandInv'
  BY <1>3 DEF SyncBytes, CommandInv
<1>4. ASSUME path \in DOMAIN files  PROVE CommandInv'
  <2>1. command' = j
    BY <1>4 DEF SyncBytes
  <2>2. /\ Commanded(j) /\ j.kind = "sync" /\ j.raced = command.raced /\ j.todo = command.todo
        /\ j.concepts = command.concepts /\ j.conflicts = command.conflicts
        /\ j.quiet = command.quiet /\ j.at = "replace"
        /\ j.bytes = files[path] /\ j.parsed = command.parsed
    BY <1>1, <1>2 DEF Commanded
  <2> HIDE DEF j
  <2>3. Reading(j, files)
    <3>1. command.todo # <<>> /\ (~command.raced => command.parsed = files[path])
      BY <1>1, <1>2 DEF Syncing, Reading
    <3>2. DocOK(path, files[path])
      BY <1>4 DEF IInv, FilesOK
    <3> QED  BY <1>4, <2>2, <3>1, <3>2 DEF Reading
  <2>4. Syncing(j, files) /\ Building(j)
    BY <1>1, <1>2, <2>2, <2>3 DEF Syncing, Building
  <2> QED  BY <1>1, <2>1, <2>2, <2>4 DEF CommandInv
<1>5. CommandInv'
  BY <1>3, <1>4
<1>7. ReportInv'
  BY <1>1, <1>2, ReportBusy DEF IInv
<1>8. (owner = "build" => Whole(files, indexes))'
  BY <1>1 DEF IInv, Whole
<1> QED  BY <1>1, <1>5, <1>7, <1>8 DEF IInv

(* What sync makes of one document. *)
LEMMA SyncedFacts ==
    ASSUME NEW path, NEW parsed, NEW bytes, DocOK(path, bytes),
           NEW generated, DocOK(path, generated)
    PROVE  LET result == Synced(parsed, bytes, generated) IN
           /\ result.class \in {"conflict", "unchanged", "written"}
           /\ result.class = "written" => DocOK(path, result.doc)
           /\ result.class = "unchanged" => result.doc = bytes
           /\ result.class = "conflict" \/ parsed # bytes \/ Converged(result.doc, generated)
           /\ result.class = "written" =>
                 Untouched(parsed) /\ \A key \in Authored : result.doc[key] = bytes[key]
<1> DEFINE changed == parsed.definitions # generated.definitions
           merged == merge_generated_concept_text(bytes, generated, changed)
           refused == ~Untouched(parsed) \/ ~bytes.parses \/ Len(bytes.definitions) # 1
           result == Synced(parsed, bytes, generated)
<1>1. CASE refused
  <2>1. result = [class |-> "conflict", doc |-> bytes]
    BY <1>1 DEF Synced
  <2> HIDE DEF result
  <2> QED  BY <2>1 DEF result
<1>2. CASE ~refused
  <2>1. result = [class |-> IF merged = bytes THEN "unchanged" ELSE "written", doc |-> merged]
    BY <1>2 DEF Synced
  <2>2. Untouched(parsed) /\ bytes.parses
    BY <1>2
  <2>3. changed \in BOOLEAN
    OBVIOUS
  <2>4. /\ DocOK(path, merged)
        /\ changed \/ bytes.definitions = generated.definitions => Converged(merged, generated)
        /\ \A key \in Authored : merged[key] = bytes[key]
    <3>1. IsDoc(bytes) /\ Trusted(bytes)
      BY DEF DocOK
    <3> HIDE DEF changed
    <3> QED  BY <2>2, <2>3, <3>1, MergeFacts
  <2>5. parsed # bytes \/ Converged(merged, generated)
    BY <2>4
  <2>6. /\ result.doc = merged /\ result.class \in {"unchanged", "written"}
        /\ result.class = "unchanged" => merged = bytes
    <3> HIDE DEF merged
    <3> QED  BY <2>1
  <2> HIDE DEF result, merged
  <2> QED  BY <2>2, <2>4, <2>5, <2>6 DEF result
<1> QED  BY <1>1, <1>2

(* A replacement leaves a document of the concept, and all others. *)
LEMMA SyncReplaceKeeps ==
    ASSUME IInv, SyncReplace  PROVE IInv'
<1> DEFINE path == Head(command.todo)
           generated == command.concepts[path]
           result == IF command.at = "missing" THEN [class |-> "written", doc |-> generated]
                     ELSE Synced(command.parsed, command.bytes, generated)
           j == [command EXCEPT
                   !.at = "next", !.todo = Tail(@), !.parsed = Absent, !.bytes = Absent,
                   !.written = IF result.class = "written" THEN @ \cup {path} ELSE @,
                   !.conflicts = IF result.class = "conflict" THEN @ \cup {path} ELSE @]
<1>1. /\ command.kind = "sync" /\ command.at \in {"replace", "missing"} /\ command' = j
      /\ files' = IF result.class = "written" THEN Put(files, path, result.doc) ELSE files
      /\ owner' = "others" /\ UNCHANGED <<catalog, indexes, log, report, used>>
  BY DEF SyncReplace
<1>2. command # Idle /\ Commanded(command) /\ Syncing(command, files)
  BY <1>1, WorkFacts
<1>3. command.todo # <<>> /\ Reading(command, files)
  BY <1>1, <1>2 DEF Syncing, Reading
<1>4. /\ path \in Paths /\ path \in DOMAIN command.concepts /\ DocOK(path, generated)
      /\ Tail(command.todo) \in Seq(DOMAIN command.concepts)
      /\ Range(command.todo) \subseteq {path} \cup Range(Tail(command.todo))
  BY <1>2, <1>3, NextDocument
<1>5. generated.parses
  <2>1. PICK descriptive \in BOOLEAN : command.concepts = concepts_from_layer(command.catalog, descriptive)
    BY <1>2 DEF Commanded
  <2>2. command.catalog \in Catalogs
    BY <1>2 DEF Commanded
  <2> QED  BY <1>4, <2>1, <2>2, LayerFacts DEF Generated
<1>6. /\ result.class \in {"conflict", "unchanged", "written"}
      /\ result.class = "written" => DocOK(path, result.doc)
      /\ ~command.raced /\ result.class = "unchanged" =>
            path \in DOMAIN files /\ files[path] = result.doc
      /\ ~command.raced /\ result.class # "conflict" => Converged(result.doc, generated)
  <2>1. CASE command.at = "missing"
    <3>1. result = [class |-> "written", doc |-> generated]
      BY <2>1
    <3>2. Converged(generated, generated)
      BY <1>5 DEF Converged
    <3> HIDE DEF result
    <3> QED  BY <1>4, <3>1, <3>2
  <2>2. CASE command.at # "missing"
    <3>1. result = Synced(command.parsed, command.bytes, generated) /\ command.at = "replace"
      BY <1>1, <2>2
    <3>2. /\ DocOK(path, command.bytes)
          /\ ~command.raced => /\ path \in DOMAIN files /\ command.bytes = files[path]
                               /\ command.parsed = command.bytes
      BY <1>3, <3>1 DEF Reading
    <3> HIDE DEF result, generated
    <3> QED  BY <1>4, <3>1, <3>2, SyncedFacts
  <2> QED  BY <2>1, <2>2
<1>7. /\ DOMAIN j = DOMAIN command /\ j.kind = "sync" /\ j.at = "next"
      /\ j.todo = Tail(command.todo) /\ j.concepts = command.concepts
      /\ j.catalog = command.catalog /\ j.raced = command.raced /\ j.quiet = command.quiet
      /\ j.conflicts = IF result.class = "conflict" THEN command.conflicts \cup {path}
                       ELSE command.conflicts
  <2> HIDE DEF result
  <2> QED  BY <1>1, <1>2 DEF Commanded
<1>8. /\ result.class = "written" => files' = Put(files, path, result.doc)
      /\ result.class # "written" => files' = files
  BY <1>1
<1> DEFINE put == Put(files, path, result.doc)
<1>8a. /\ DOMAIN put = DOMAIN files \cup {path} /\ put[path] = result.doc
       /\ \A other \in DOMAIN files : other # path => put[other] = files[other]
  <2> HIDE DEF path, result
  <2> QED  BY DEF Put
<1> HIDE DEF result, j
<1>9. FilesOK(files')
  BY <1>4, <1>6, <1>8, PutKeeps DEF IInv
<1> HIDE DEF put
<1>10. Commanded(j)
  BY <1>2, <1>4, <1>7 DEF Commanded
<1>11. ASSUME command.quiet
       PROVE  Synchronised(DOMAIN j.concepts \ Range(j.todo), j.concepts, j.conflicts, files')
  <2>1. /\ ~command.raced
        /\ Synchronised(DOMAIN command.concepts \ Range(command.todo), command.concepts,
                        command.conflicts, files)
    BY <1>1, <1>2, <1>11 DEF Syncing
  <2>2. ASSUME NEW p \in DOMAIN j.concepts \ Range(j.todo)
        PROVE  p \in j.conflicts \/ (p \in DOMAIN files' /\ Converged(files'[p], j.concepts[p]))
    <3>1. CASE p = path
      <4>1. result.class = "written" => path \in DOMAIN files' /\ files'[path] = result.doc
        BY <1>8, <1>8a DEF put
      <4>2. result.class = "unchanged" => path \in DOMAIN files' /\ files'[path] = result.doc
        BY <1>6, <1>8, <2>1
      <4> QED  BY <1>6, <1>7, <2>1, <3>1, <4>1, <4>2
    <3>2. CASE p # path
      <4>1. p \in DOMAIN command.concepts \ Range(command.todo)
        BY <1>4, <1>7, <2>2, <3>2
      <4>2. \/ p \in command.conflicts
            \/ p \in DOMAIN files /\ Converged(files[p], command.concepts[p])
        BY <2>1, <4>1 DEF Synchronised
      <4>3. p \in DOMAIN files => p \in DOMAIN files' /\ files'[p] = files[p]
        BY <1>8, <1>8a, <3>2 DEF put
      <4> QED  BY <1>7, <4>2, <4>3
    <3> QED  BY <3>1, <3>2
  <2> QED  BY <2>2 DEF Synchronised
<1>12. Syncing(j, files') /\ Building(j)
  <2>1. command.quiet => ~command.raced
    BY <1>1, <1>2 DEF Syncing
  <2> QED  BY <1>7, <1>11, <2>1 DEF Syncing, Building, Reading
<1>13. CommandInv'
  BY <1>1, <1>10, <1>12 DEF CommandInv
<1>14. ReportInv'
  BY <1>1, <1>2, ReportBusy DEF IInv
<1> QED  BY <1>1, <1>9, <1>13, <1>14 DEF IInv

(* All documents have been seen to. *)
LEMMA SyncOrphansKeeps ==
    ASSUME IInv, SyncOrphans  PROVE IInv'
<1> DEFINE orphaned == Orphaned(files, command.concepts, DOMAIN command.concepts)
           j == [command EXCEPT !.at = "indexes", !.orphaned = orphaned]
<1>1. /\ command.kind = "sync" /\ command.at = "next" /\ command.todo = <<>> /\ command' = j
      /\ UNCHANGED <<catalog, files, indexes, log, report, owner, used>>
  BY DEF SyncOrphans
<1>2. command # Idle /\ Commanded(command) /\ Syncing(command, files)
  BY <1>1, WorkFacts
<1> HIDE DEF orphaned
<1>3. /\ Commanded(j) /\ j.kind = "sync" /\ j.at = "indexes" /\ j.todo = <<>>
      /\ j.concepts = command.concepts /\ j.conflicts = command.conflicts
      /\ j.quiet = command.quiet /\ j.raced = command.raced /\ j.orphaned = orphaned
  BY <1>1, <1>2 DEF Commanded
<1> HIDE DEF j
<1>4. Syncing(j, files) /\ Building(j)
  BY <1>1, <1>2, <1>3 DEF Syncing, Building, Reading, orphaned
<1>5. CommandInv'
  BY <1>1, <1>3, <1>4 DEF CommandInv
<1>6. ReportInv'
  BY <1>1, <1>2, ReportBusy DEF IInv
<1>7. (owner = "build" => Whole(files, indexes))'
  BY <1>1 DEF IInv, Whole
<1> QED  BY <1>1, <1>5, <1>6, <1>7 DEF IInv

(* Indexes are nothing a command has read. *)
LEMMA WriteIndexKeeps ==
    ASSUME IInv, WriteIndex  PROVE IInv'
<1>1. /\ command.kind \in {"generate", "sync", "build"} /\ owner' = "others"
      /\ UNCHANGED <<catalog, files, log, command, report, used>>
  BY DEF WriteIndex, Documented
<1>2. command # Idle
  BY <1>1, WorkFacts
<1>3. CommandInv'
  BY <1>1 DEF IInv, CommandInv
<1>4. ReportInv'
  BY <1>1, <1>2, ReportBusy DEF IInv
<1> QED  BY <1>1, <1>3, <1>4 DEF IInv

(* At the end every document and every index has been seen to. *)
LEMMA FinishKeeps ==
    ASSUME IInv, Finish  PROVE IInv'
<1>1. /\ command.kind \in {"generate", "sync"} /\ command.todo = <<>>
      /\ command.kind = "sync" => command.at = "indexes"
      /\ indexes = index_documents(command.concepts)
      /\ report' = IF command.kind = "generate" THEN NoReport
                   ELSE [quiet |-> command.quiet, catalog |-> command.catalog,
                         conflicts |-> command.conflicts, written |-> command.written,
                         orphaned |-> command.orphaned]
      /\ command' = Idle /\ UNCHANGED <<catalog, files, indexes, owner, used>>
  BY DEF Finish, Documented
<1>2. Commanded(command) /\ Syncing(command, files)
  BY <1>1, WorkFacts
<1>3. ReportInv'
  <2>1. SUFFICES ASSUME report'.quiet  PROVE ReportInv'
    BY DEF ReportInv
  <2>2. command.kind = "sync" /\ command.at = "indexes"
    BY <1>1, <2>1 DEF NoReport
  <2>3. /\ report'.quiet = command.quiet /\ report'.catalog = command.catalog
        /\ report'.conflicts = command.conflicts /\ report'.orphaned = command.orphaned
    BY <1>1, <2>2
  <2>4. /\ Synchronised(DOMAIN command.concepts \ Range(command.todo), command.concepts,
                        command.conflicts, files)
        /\ command.orphaned = Orphaned(files, command.concepts, DOMAIN command.concepts)
    BY <1>2, <2>1, <2>2, <2>3 DEF Syncing
  <2>5. DOMAIN command.concepts \ Range(command.todo) = DOMAIN command.concepts
    BY <1>1 DEF Range
  <2>6. PICK descriptive \in BOOLEAN : command.concepts = concepts_from_layer(command.catalog, descriptive)
    BY <1>2 DEF Commanded
  <2>7. command.catalog \in Catalogs
    BY <1>2 DEF Commanded
  <2>8. LET concepts == concepts_from_layer(command.catalog, descriptive) IN
        /\ indexes = index_documents(concepts)
        /\ command.orphaned = Orphaned(files, concepts, DOMAIN concepts)
        /\ Synchronised(DOMAIN concepts, concepts, command.conflicts, files)
    BY <1>1, <2>4, <2>5, <2>6
  <2> QED  BY <1>1, <2>3, <2>7, <2>8 DEF ReportInv
<1>4. CommandInv'
  BY <1>1 DEF CommandInv
<1>5. (owner = "build" => Whole(files, indexes))'
  BY <1>1 DEF IInv, Whole
<1> QED  BY <1>1, <1>3, <1>4, <1>5 DEF IInv

(* A build puts together documents of the concepts and of people. *)
LEMMA ComposedFacts ==
    ASSUME NEW j, Commanded(j), NEW i \in Inputs
    PROVE  LET staged == Composed(j.concepts, InputOf(i).references, InputOf(i).overlays) IN
           FilesOK(staged) /\ DOMAIN j.concepts \subseteq DOMAIN staged
<1> DEFINE generated == j.concepts
           references == InputOf(i).references
           overlays == InputOf(i).overlays
           merged(path) == IF path \in DOMAIN overlays THEN MergeOverlay(generated[path], overlays[path])
                           ELSE generated[path]
           own == [path \in DOMAIN generated |-> merged(path)]
           staged == Composed(generated, references, overlays)
<1>1. staged = Upon(own, references)
  BY DEF Composed
<1>2. PICK descriptive \in BOOLEAN : generated = concepts_from_layer(j.catalog, descriptive)
  BY DEF Commanded
<1>3. j.catalog \in Catalogs
  BY DEF Commanded
<1>4. /\ DOMAIN generated \subseteq Paths
      /\ \A path \in DOMAIN generated :
            DocOK(path, generated[path]) /\ generated[path].verified = Absent
  <2> HIDE DEF generated
  <2> QED  BY <1>2, <1>3, LayerFacts DEF Generated
<1>5. /\ DOMAIN references \subseteq Paths
      /\ \A path \in DOMAIN references : DocOK(path, references[path])
  BY AuthorsAssumption DEF IsPage, DocOK, Placed, IsDoc, Paths
<1>6. ASSUME NEW path \in DOMAIN generated  PROVE DocOK(path, merged(path))
  <2> DEFINE doc == generated[path]
             m == MergeOverlay(doc, overlays[path])
  <2>1. DocOK(path, doc) /\ doc.verified = Absent
    BY <1>4
  <2> HIDE DEF doc
  <2>2. /\ DOMAIN m = DOMAIN Blank /\ m.verified = Absent
        /\ m.generated = doc.generated /\ m.selayer_id = doc.selayer_id
    BY <2>1 DEF MergeOverlay, DocOK, IsDoc, Blank
  <2> HIDE DEF m
  <2>3. DocOK(path, m)
    BY <2>1, <2>2 DEF DocOK, IsDoc, Trusted, Placed
  <2> QED  BY <2>1, <2>3 DEF m, doc
<1>7. /\ DOMAIN staged = DOMAIN generated \cup DOMAIN references
      /\ \A path \in DOMAIN generated : staged[path] = merged(path)
      /\ \A path \in DOMAIN references \ DOMAIN generated : staged[path] = references[path]
  <2> HIDE DEF merged, staged, generated, references
  <2> QED  BY <1>1 DEF Upon
<1> HIDE DEF staged, merged, generated, references
<1>8. ASSUME NEW path \in DOMAIN staged  PROVE DocOK(path, staged[path])
  BY <1>5, <1>6, <1>7
<1>9. FilesOK(staged) /\ DOMAIN generated \subseteq DOMAIN staged
  BY <1>4, <1>5, <1>7, <1>8 DEF FilesOK
<1> QED  BY <1>9 DEF staged, generated, references

(* What is staged has been checked. *)
LEMMA StageKeeps ==
    ASSUME IInv, NEW i \in Inputs, Stage(i)  PROVE IInv'
<1> DEFINE staged == Composed(command.concepts, InputOf(i).references, InputOf(i).overlays)
           j == [command EXCEPT !.at = "staged", !.bytes = staged]
<1>1. /\ command.kind = "build" /\ command.at = "next"
      /\ UNCHANGED <<catalog, files, indexes, log, report, owner, used>>
      /\ command' = Idle \/ (command' = j /\ StagedValid(staged, command))
  BY DEF Stage
<1>2. command # Idle /\ Commanded(command)
  BY <1>1, WorkFacts
<1>3. FilesOK(staged) /\ DOMAIN command.concepts \subseteq DOMAIN staged
  BY <1>2, ComposedFacts
<1> HIDE DEF staged
<1>4. ASSUME command' = j, StagedValid(staged, command)  PROVE CommandInv'
  <2>1. /\ Commanded(j) /\ j.kind = "build" /\ j.bytes = staged
        /\ j.concepts = command.concepts
    BY <1>1, <1>2 DEF Commanded
  <2>2. Whole(staged, index_documents(command.concepts))
    <3>1. /\ validate_links(staged, staged) = {}
          /\ Loads(staged, index_documents(command.concepts), command.catalog, TRUE)
      BY <1>4 DEF StagedValid
    <3>2. PICK descriptive \in BOOLEAN : command.concepts = concepts_from_layer(command.catalog, descriptive)
      BY <1>2 DEF Commanded
    <3>3. command.catalog \in Catalogs
      BY <1>2 DEF Commanded
    <3> QED  BY <1>3, <3>1, <3>2, <3>3 DEF Whole
  <2> HIDE DEF j
  <2>3. Syncing(j, files) /\ Building(j)
    BY <1>3, <2>1, <2>2 DEF Syncing, Building
  <2> QED  BY <1>1, <1>4, <2>1, <2>3 DEF CommandInv
<1>5. CommandInv'
  BY <1>1, <1>4 DEF CommandInv
<1>6. ReportInv'
  BY <1>1, <1>2, ReportBusy DEF IInv
<1>7. (owner = "build" => Whole(files, indexes))'
  BY <1>1 DEF IInv, Whole
<1> QED  BY <1>1, <1>5, <1>6, <1>7 DEF IInv

(* A build comes to be all at once or not at all. *)
LEMMA PublishKeeps ==
    ASSUME IInv, Publish  PROVE IInv'
<1>1. /\ command.kind = "build" /\ command.at = "staged" /\ command' = Idle
      /\ UNCHANGED <<catalog, report>>
      /\ \/ /\ files' = command.bytes /\ indexes' = index_documents(command.concepts)
            /\ owner' = "build"
         \/ UNCHANGED <<files, indexes, owner>>
  BY DEF Publish
<1>2. command # Idle /\ Building(command)
  BY <1>1, WorkFacts
<1>3. CommandInv'
  BY <1>1 DEF CommandInv
<1>4. ReportInv'
  BY <1>1, <1>2, ReportBusy DEF IInv
<1>5. FilesOK(command.bytes) /\ Whole(command.bytes, index_documents(command.concepts))
  BY <1>1, <1>2 DEF Building
<1>6. FilesOK(files')
  BY <1>1, <1>5 DEF IInv
<1>7. (owner = "build" => Whole(files, indexes))'
  BY <1>1, <1>5 DEF IInv, Whole
<1> QED  BY <1>1, <1>3, <1>4, <1>6, <1>7 DEF IInv

(* Nothing is left of a command that is killed but what it wrote. *)
LEMMA KillKeeps ==
    ASSUME IInv, Kill  PROVE IInv'
<1>1. /\ command # Idle /\ command' = Idle
      /\ UNCHANGED <<catalog, files, indexes, log, report, owner>>
  BY DEF Kill
<1>2. CommandInv'
  BY <1>1 DEF CommandInv
<1>3. ReportInv'
  BY <1>1, ReportBusy DEF IInv
<1>4. (owner = "build" => Whole(files, indexes))'
  BY <1>1 DEF IInv, Whole
<1> QED  BY <1>1, <1>2, <1>3, <1>4 DEF IInv

(* The catalog is read when a command begins. *)
LEMMA ChangeKeeps ==
    ASSUME IInv, NEW c \in Catalogs, Change(c)  PROVE IInv'
<1>1. catalog' = c /\ UNCHANGED <<files, indexes, log, command, report, owner>>
  BY DEF Change
<1>2. CommandInv'
  BY <1>1 DEF IInv, CommandInv
<1>3. ReportInv'
  BY <1>1 DEF IInv, ReportInv
<1>4. (owner = "build" => Whole(files, indexes))'
  BY <1>1 DEF IInv, Whole
<1> QED  BY <1>1, <1>2, <1>3, <1>4 DEF IInv

(* What people make of a document. *)
LEMMA DraftFacts ==
    ASSUME IInv, NEW path \in Places, NEW saved \in Drafts(path), saved # Absent
    PROVE  DocOK(path, saved)
<1>1. CASE path \notin DOMAIN files
  BY <1>1, AuthorsAssumption DEF Drafts, IsPage, DocOK, Placed, IsDoc
<1>2. CASE path \in DOMAIN files
  <2> DEFINE doc == files[path]
             v(n) == [doc EXCEPT !.verified = [by |-> "human", definition |-> doc.definitions[n]]]
  <2>1. DocOK(path, doc)
    BY <1>2 DEF IInv, FilesOK
  <2>2. \/ \E e \in Edits : saved = Upon(e, doc)
        \/ Len(doc.definitions) = 1 /\ saved = v(1)
    BY <1>2 DEF Drafts
  <2> HIDE DEF doc
  <2>3. ASSUME NEW e \in Edits, saved = Upon(e, doc)  PROVE DocOK(path, saved)
    <3>1. /\ DOMAIN e \subseteq DOMAIN Blank \ {"selayer_id", "verified"}
          /\ "generated" \in DOMAIN e => e.generated = Absent
          /\ "definitions" \in DOMAIN e /\ Len(e.definitions) = 1 => e.definitions[1] = Hand
      BY AuthorsAssumption
    <3>2. DOMAIN doc = DOMAIN Blank
      BY <2>1 DEF DocOK, IsDoc
    <3>3. /\ DOMAIN saved = DOMAIN Blank
          /\ \A key \in DOMAIN Blank : saved[key] = IF key \in DOMAIN e THEN e[key] ELSE doc[key]
      BY <2>3, <3>1, <3>2 DEF Upon
    <3>4. {"selayer_id", "verified", "generated", "definitions"} \subseteq DOMAIN Blank
      BY DEF Blank
    <3>5. /\ saved.selayer_id = doc.selayer_id /\ saved.verified = doc.verified
          /\ saved.generated = Absent \/ saved.generated = doc.generated
          /\ \/ saved.definitions = doc.definitions
             \/ saved.definitions = e.definitions /\ "definitions" \in DOMAIN e
      BY <3>1, <3>3, <3>4
    <3>6. Trusted(saved)
      BY <2>1, <3>1, <3>5 DEF Trusted, DocOK
    <3>7. Placed(path, saved)
      BY <2>1, <3>5 DEF Placed, DocOK
    <3> QED  BY <3>3, <3>6, <3>7 DEF DocOK, IsDoc
  <2>4. ASSUME saved = v(1)  PROVE DocOK(path, saved)
    <3>1. /\ DOMAIN saved = DOMAIN Blank /\ saved.verified.definition = doc.definitions[1]
          /\ saved.definitions = doc.definitions /\ saved.generated = doc.generated
          /\ saved.selayer_id = doc.selayer_id
      BY <2>1, <2>4 DEF DocOK, IsDoc, Blank
    <3>2. Trusted(saved)
      BY <3>1 DEF Trusted
    <3>3. Placed(path, saved)
      BY <2>1, <3>1 DEF Placed, DocOK
    <3> QED  BY <3>1, <3>2, <3>3 DEF DocOK, IsDoc
  <2> QED  BY <2>2, <2>3, <2>4
<1> QED  BY <1>1, <1>2

(* A command that is at work knows that somebody disturbed it. *)
LEMMA SaveKeeps ==
    ASSUME IInv, NEW path \in Places, NEW saved \in Drafts(path), Save(path, saved)
    PROVE  IInv'
<1>1. /\ files' = IF saved = Absent THEN Restrict(files, DOMAIN files \ {path})
                  ELSE Put(files, path, saved)
      /\ command' = Noted(path) /\ report' = NoReport /\ owner' = "others"
      /\ UNCHANGED <<catalog, indexes, log>>
  BY DEF Save
<1>2. path \in Paths
  BY DEF Paths
<1>3. \A other \in DOMAIN files \ {path} : other \in DOMAIN files' /\ files'[other] = files[other]
  BY <1>1 DEF Put, Restrict
<1>4. \A other : other # path => (other \in DOMAIN files' <=> other \in DOMAIN files)
  BY <1>1 DEF Put, Restrict
<1>5. FilesOK(files')
  <2>1. CASE saved = Absent
    <3>1. files' = [other \in DOMAIN files \ {path} |-> files[other]]
      BY <1>1, <2>1 DEF Restrict
    <3> QED  BY <3>1 DEF IInv, FilesOK
  <2>2. CASE saved # Absent
    BY <1>1, <1>2, <2>2, DraftFacts, PutKeeps DEF IInv
  <2> QED  BY <2>1, <2>2
<1>6. ASSUME command # Idle  PROVE CommandInv'
  <2> DEFINE j == Noted(path)
  <2>1. Commanded(command) /\ Syncing(command, files) /\ Building(command)
    BY <1>6 DEF IInv, CommandInv
  <2>2. /\ j = [command EXCEPT !.quiet = FALSE,
                  !.raced = @ \/ (command.todo # <<>> /\ path = Head(command.todo))]
    BY <1>6 DEF Noted
  <2>3. /\ DOMAIN j = DOMAIN command /\ j.quiet = FALSE
        /\ j.raced = (command.raced \/ (command.todo # <<>> /\ path = Head(command.todo)))
        /\ j.kind = command.kind /\ j.at = command.at /\ j.catalog = command.catalog
        /\ j.concepts = command.concepts /\ j.todo = command.todo
        /\ j.parsed = command.parsed /\ j.bytes = command.bytes
    BY <2>1, <2>2 DEF Commanded
  <2> HIDE DEF j
  <2>4. Commanded(j)
    BY <2>1, <2>3 DEF Commanded
  <2>5. ASSUME j.kind = "sync"  PROVE Reading(j, files')
    <3>1. Reading(command, files)
      BY <2>1, <2>3, <2>5 DEF Syncing
    <3>2. ~j.raced => ~command.raced /\ (command.todo = <<>> \/ path # Head(command.todo))
      BY <2>3
    <3> QED  BY <1>3, <1>4, <2>3, <3>1, <3>2 DEF Reading
  <2>6. Syncing(j, files') /\ Building(j)
    BY <2>1, <2>3, <2>5 DEF Syncing, Building
  <2> QED  BY <1>1, <2>4, <2>6 DEF CommandInv, j
<1>7. CommandInv'
  BY <1>1, <1>6 DEF CommandInv, Noted
<1>8. ReportInv'
  BY <1>1 DEF ReportInv, NoReport
<1> QED  BY <1>1, <1>5, <1>7, <1>8 DEF IInv

LEMMA NextInv == IInv /\ [Next]_vars => IInv'
<1> SUFFICES ASSUME IInv, [Next]_vars  PROVE IInv'
  OBVIOUS
<1>1. CASE UNCHANGED vars
  BY <1>1 DEF vars, IInv, CommandInv, ReportInv, Whole
<1>2. ASSUME NEW kind \in {"generate", "sync", "build"}, NEW descriptive \in BOOLEAN,
             Begin(kind, descriptive)
      PROVE  IInv'
  BY <1>2, BeginKeeps
<1>3. CASE GenerateNext
  BY <1>3, GenerateKeeps
<1>4. CASE SyncParse
  BY <1>4, SyncParseKeeps
<1>5. CASE SyncBytes
  BY <1>5, SyncBytesKeeps
<1>6. CASE SyncReplace
  BY <1>6, SyncReplaceKeeps
<1>7. CASE SyncOrphans
  BY <1>7, SyncOrphansKeeps
<1>8. CASE WriteIndex
  BY <1>8, WriteIndexKeeps
<1>9. CASE Finish
  BY <1>9, FinishKeeps
<1>10. ASSUME NEW i \in Inputs, Stage(i)  PROVE IInv'
  BY <1>10, StageKeeps
<1>11. CASE Publish
  BY <1>11, PublishKeeps
<1>12. CASE Kill
  BY <1>12, KillKeeps
<1>13. ASSUME NEW path \in Places, NEW saved \in Drafts(path), Save(path, saved)  PROVE IInv'
  BY <1>13, SaveKeeps
<1>14. ASSUME NEW c \in Catalogs, Change(c)  PROVE IInv'
  BY <1>14, ChangeKeeps
<1> QED  BY <1>1, <1>2, <1>3, <1>4, <1>5, <1>6, <1>7, <1>8, <1>9, <1>10, <1>11, <1>12, <1>13,
            <1>14 DEF Next

(* The invariant holds of every bundle, whatever its catalogs, its authors and *)
(* the order in which commands, saves and kills meet. *)
THEOREM Inductive == Spec => []IInv
<1>1. Init => IInv
  BY InitInv
<1>2. IInv /\ [Next]_vars => IInv'
  BY NextInv
<1> QED  BY <1>1, <1>2, PTL DEF Spec

-----------------------------------------------------------------------------
(* What it gives.                                                           *)

(* No document is shown as verified with a definition nobody verified and *)
(* nobody wrote by hand (document.py, merge_generated_concept_text). *)
THEOREM Trust == Spec => []TrustFollows
<1>1. IInv => TrustFollows
  BY DEF IInv, FilesOK, DocOK, TrustFollows
<1> QED  BY <1>1, Inductive, PTL

(* A destination that only builds have touched is empty or a whole bundle *)
(* (composition.py, build_bundle). *)
THEOREM Builds == Spec => []BuildWhole
<1>1. IInv => BuildWhole
  BY DEF IInv, Whole, BuildWhole
<1> QED  BY <1>1, Inductive, PTL

(* A synchronisation deletes no document, and overwrites nothing that people *)
(* wrote or changed, unless they saved it after it had been read *)
(* (bundle.py, sync). *)
THEOREM Curation == Spec => CuratedKept
<1> DEFINE Kept == SyncReplace =>
                      /\ DOMAIN files \subseteq DOMAIN files'
                      /\ \A path \in DOMAIN files :
                            files'[path] # files[path] /\ ~command.raced =>
                                /\ Untouched(files[path])
                                /\ \A key \in Authored : files'[path][key] = files[path][key]
<1>1. ASSUME IInv, SyncReplace  PROVE Kept
  <2> DEFINE path == Head(command.todo)
             generated == command.concepts[path]
             result == IF command.at = "missing" THEN [class |-> "written", doc |-> generated]
                       ELSE Synced(command.parsed, command.bytes, generated)
             put == Put(files, path, result.doc)
  <2>1. /\ command.kind = "sync" /\ command.at \in {"replace", "missing"}
        /\ files' = IF result.class = "written" THEN put ELSE files
    BY <1>1 DEF SyncReplace
  <2>2. /\ DOMAIN put = DOMAIN files \cup {path} /\ put[path] = result.doc
        /\ \A other \in DOMAIN files : other # path => put[other] = files[other]
    <3> HIDE DEF path, result
    <3> QED  BY DEF Put
  <2>3. Commanded(command) /\ Reading(command, files) /\ command.todo # <<>>
    BY <1>1, <2>1, WorkFacts DEF Syncing, Reading
  <2>4. DocOK(path, generated)
    BY <2>3, NextDocument
  <2>5. ASSUME path \in DOMAIN files, ~command.raced, result.class = "written"
        PROVE  /\ Untouched(files[path])
               /\ \A key \in Authored : result.doc[key] = files[path][key]
    <3>1. command.at = "replace" /\ result = Synced(command.parsed, command.bytes, generated)
      BY <2>1, <2>3, <2>5 DEF Reading
    <3>2. /\ DocOK(path, command.bytes)
          /\ command.parsed = files[path] /\ command.bytes = files[path]
      BY <2>3, <2>5, <3>1 DEF Reading
    <3> HIDE DEF result, generated
    <3> QED  BY <2>4, <2>5, <3>1, <3>2, SyncedFacts
  <2> HIDE DEF put, result, path
  <2> QED  BY <2>1, <2>2, <2>5
<1>2. IInv => Kept
  BY <1>1
<1>3. Spec => []IInv
  BY Inductive
<1>4. IInv /\ [Next]_vars => [Kept]_vars
  BY <1>2
<1> QED  BY <1>3, <1>4, PTL DEF Spec, CuratedKept

-----------------------------------------------------------------------------
(* The convergence of a synchronisation.                                    *)

(* A converged document is what strict loading expects of its concept. *)
LEMMA ConvergedSound ==
    ASSUME NEW c \in Catalogs, NEW descriptive \in BOOLEAN,
           NEW path \in DOMAIN concepts_from_layer(c, descriptive), NEW doc,
           Converged(doc, concepts_from_layer(c, descriptive)[path])
    PROVE  ConceptIntegrity(path, doc, concepts_from_layer(c, descriptive)) = {}
<1> DEFINE concepts == concepts_from_layer(c, descriptive)
           made == concepts[path]
           declares == doc.generated.descriptive \in BOOLEAN
           own == CHOOSE p \in DOMAIN concepts : concepts[p].selayer_id = doc.selayer_id
<1>1. /\ Generated(made, made.selayer_id, descriptive)
      /\ \A p \in DOMAIN concepts : p = concept_path(concepts[p].selayer_id)
  BY LayerFacts
<1> HIDE DEF concepts
<1>2. /\ doc.definitions = made.definitions /\ doc.generated = made.generated
      /\ \A key \in Controlled : doc[key] = made[key]
      /\ doc.selayer_id = made.selayer_id
  BY DEF Converged, Controlled, concepts
<1>3. own \in DOMAIN concepts /\ concepts[own].selayer_id = doc.selayer_id
  BY <1>2 DEF concepts
<1>4. own = path
  <2>1. path \in DOMAIN concepts /\ path = concept_path(made.selayer_id)
    <3>1. path \in DOMAIN concepts
      BY DEF concepts
    <3> QED  BY <1>1, <3>1
  <2> HIDE DEF own, made
  <2>2. own = concept_path(concepts[own].selayer_id)
    BY <1>1, <1>3
  <2>3. concepts[own].selayer_id = made.selayer_id
    BY <1>2, <1>3
  <2> QED  BY <2>1, <2>2, <2>3
<1>5. Len(doc.definitions) = 1 /\ declares
  BY <1>1, <1>2 DEF Generated
<1>6. ControlledSignature(doc, declares) = ControlledSignature(made, declares)
  <2>1. [key \in Controlled |-> doc[key]] = [key \in Controlled |-> made[key]]
    BY <1>2
  <2> HIDE DEF made
  <2> QED  BY <1>2, <2>1 DEF ControlledSignature
<1>7. doc.generated.fingerprint = generated_fingerprint(doc, doc.definitions[1])
  <2>1. [key \in Controlled |-> doc[key]] = [key \in Controlled |-> made[key]]
    BY <1>2
  <2> HIDE DEF made
  <2> QED  BY <1>1, <1>2, <2>1 DEF Generated, generated_fingerprint
<1>8. ~(\A p \in DOMAIN concepts : concepts[p].selayer_id # doc.selayer_id)
  BY <1>3
<1>9. ConceptIntegrity(path, doc, concepts) =
         {what \in {"definition_mismatch"} : doc.definitions # concepts[own].definitions}
         \cup {what \in {"mode"} : ~declares /\ doc.generated.descriptive # Absent}
         \cup {what \in {"frontmatter_mismatch"} :
                 ControlledSignature(doc, declares) # ControlledSignature(concepts[own], declares)}
         \cup {what \in {"fingerprint"} :
                 doc.generated.fingerprint # generated_fingerprint(doc, doc.definitions[1])}
  <2> HIDE DEF own, declares
  <2> QED  BY <1>4, <1>5, <1>8 DEF ConceptIntegrity, own, declares
<1> HIDE DEF own, declares
<1> QED  BY <1>2, <1>4, <1>5, <1>6, <1>7, <1>9 DEF concepts

(* What a report speaks of is what the catalog makes: every document that says *)
(* it was generated is one of its concepts, and every concept is converged. *)
LEMMA ReportSound == IInv => SyncConverges
<1> SUFFICES ASSUME IInv, report.quiet, report.conflicts \cup report.orphaned = {}
             PROVE  validate_generated_integrity(files, indexes, report.catalog, TRUE) = {}
  BY DEF SyncConverges
<1> DEFINE c == report.catalog
<1>1. c \in Catalogs /\ FilesOK(files)
  BY DEF IInv, ReportInv
<1>2. PICK descriptive \in BOOLEAN :
         LET concepts == concepts_from_layer(c, descriptive) IN
         /\ indexes = index_documents(concepts)
         /\ report.orphaned = Orphaned(files, concepts, DOMAIN concepts)
         /\ Synchronised(DOMAIN concepts, concepts, report.conflicts, files)
  BY DEF IInv, ReportInv
<1> DEFINE concepts == concepts_from_layer(c, descriptive)
           parsed == Parsed(files)
           expected == concepts_from_layer(c, DescriptiveMode(parsed))
<1>3. /\ DOMAIN parsed = {path \in DOMAIN files : files[path].parses}
      /\ \A path \in DOMAIN parsed : parsed[path] = files[path]
  BY DEF Parsed, Restrict
<1>4. \A path \in DOMAIN concepts :
         /\ Generated(concepts[path], concepts[path].selayer_id, descriptive)
         /\ concepts[path].selayer_id \in Ids \ {Absent}
         /\ path = concept_path(concepts[path].selayer_id)
  <2>1. \A path \in DOMAIN concepts :
           /\ Generated(concepts[path], concepts[path].selayer_id, descriptive)
           /\ concepts[path].selayer_id \in DOMAIN c
           /\ path = concept_path(concepts[path].selayer_id)
    BY <1>1, LayerFacts
  <2>2. \A id \in DOMAIN c : id \in Ids \ {Absent}
    <3> HIDE DEF c
    <3> QED  BY <1>1, CatalogAssumption DEF Ids
  <2> HIDE DEF c, concepts
  <2> QED  BY <2>1, <2>2
<1>5. /\ indexes = index_documents(concepts)
      /\ Orphaned(files, concepts, DOMAIN concepts) = {}
      /\ Synchronised(DOMAIN concepts, concepts, {}, files)
  <2>1. report.orphaned = {} /\ report.conflicts = {}
    OBVIOUS
  <2> QED  BY <1>2, <2>1
<1> HIDE DEF c, concepts, parsed
<1>6. ASSUME NEW path \in DOMAIN concepts
      PROVE  /\ path \in DOMAIN parsed /\ Converged(parsed[path], concepts[path])
             /\ parsed[path].generated # Absent /\ parsed[path].selayer_id # Absent
             /\ parsed[path].generated.descriptive = descriptive
  <2>1. path \in DOMAIN files /\ Converged(files[path], concepts[path])
    BY <1>5 DEF Synchronised
  <2>2. path \in DOMAIN parsed /\ parsed[path] = files[path]
    BY <1>3, <2>1 DEF Converged
  <2> QED  BY <1>4, <2>1, <2>2 DEF Converged, Controlled, Generated
<1>7. ASSUME NEW path \in DOMAIN parsed, parsed[path].generated # Absent
      PROVE  path \in DOMAIN concepts
  <2> DEFINE doc == files[path]
  <2>1. path \in DOMAIN files /\ doc.parses /\ parsed[path] = doc
    BY <1>3
  <2>2. doc.selayer_id \in Ids /\ path = concept_path(doc.selayer_id)
    BY <1>1, <1>7, <2>1 DEF FilesOK, DocOK, Placed
  <2>3. path[1] \in Directories /\ doc.selayer_id # Absent
    <3>1. doc.selayer_id[1] \in DOMAIN Directory /\ doc.selayer_id # Absent
      BY <2>2, CatalogAssumption DEF Ids
    <3>2. path[1] = Directory[doc.selayer_id[1]]
      BY <2>2 DEF concept_path
    <3> QED  BY <3>1, <3>2 DEF Directories, Range
  <2>4. SUFFICES ASSUME path \notin DOMAIN concepts  PROVE FALSE
    OBVIOUS
  <2>5. doc.selayer_id \notin {d.selayer_id : d \in Range(concepts)}
    <3>1. SUFFICES ASSUME NEW q \in DOMAIN concepts, concepts[q].selayer_id = doc.selayer_id
                   PROVE  FALSE
      BY DEF Range
    <3> QED  BY <1>4, <2>2, <2>4, <3>1
  <2> HIDE DEF doc
  <2>6. path \in Orphaned(files, concepts, DOMAIN concepts)
    BY <2>1, <2>3, <2>4, <2>5 DEF Orphaned, doc
  <2> QED  BY <1>5, <2>6
<1>8. expected = concepts
  <2>1. CASE DOMAIN concepts = {}
    <3>1. {concept_path(id) : id \in DOMAIN c} = {}
      BY <2>1 DEF concepts, concepts_from_layer
    <3> QED  BY <3>1 DEF concepts, concepts_from_layer
  <2>2. CASE DOMAIN concepts # {}
    <3> DEFINE made == {doc \in Range(parsed) : doc.generated # Absent}
               declared == {doc \in made : doc.generated.descriptive \in BOOLEAN}
    <3>1. \A doc \in made : doc.generated.descriptive = descriptive
      BY <1>6, <1>7 DEF Range
    <3>2. declared # {}
      <4>1. PICK path \in DOMAIN concepts : TRUE
        BY <2>2
      <4>2. parsed[path] \in made
        BY <1>6 DEF Range
      <4> QED  BY <3>1, <4>2
    <3>3. DescriptiveMode(parsed) = descriptive
      <4>1. DescriptiveMode(parsed) = \E doc \in declared : doc.generated.descriptive
        BY <3>2 DEF DescriptiveMode
      <4>2. \A doc \in declared : doc.generated.descriptive = descriptive
        BY <3>1
      <4> HIDE DEF declared
      <4> QED  BY <3>2, <4>1, <4>2
    <3> QED  BY <3>3 DEF concepts
  <2> QED  BY <2>1, <2>2
<1>9. ASSUME NEW path \in DOMAIN parsed, parsed[path].generated # Absent
      PROVE  ConceptIntegrity(path, parsed[path], concepts) = {}
  <2>1. path \in DOMAIN concepts /\ Converged(parsed[path], concepts[path])
    BY <1>6, <1>7, <1>9
  <2> QED  BY <1>1, <2>1, ConvergedSound DEF concepts
<1>10. IndexIntegrity(indexes, concepts) = {}
  BY <1>5 DEF IndexIntegrity
<1> HIDE DEF expected
<1> DEFINE lacking(path) == \/ path \notin DOMAIN parsed
                            \/ parsed[path].generated = Absent
                            \/ parsed[path].selayer_id = Absent
           made == {p \in DOMAIN parsed : parsed[p].generated # Absent
                                          /\ parsed[p].selayer_id # Absent}
<1>11. {p \in DOMAIN concepts : lacking(p)} = {}
  BY <1>6
<1>12. \A p \in made : ConceptIntegrity(p, parsed[p], concepts) = {}
  BY <1>9
<1>13. validate_generated_integrity(files, indexes, c, TRUE) =
         (IF IsGenerated(files, indexes, parsed, expected)
            THEN {<<Optional(TRUE), path, "missing">> : path \in {p \in DOMAIN expected : lacking(p)}}
                 \cup {<<Optional(TRUE), <<d, "index">>, "index_mismatch">> : d \in IndexIntegrity(indexes, expected)}
            ELSE {})
         \cup UNION {{<<Optional(TRUE), p, what>> :
                         what \in ConceptIntegrity(p, parsed[p], expected)} : p \in made}
  BY DEF validate_generated_integrity, expected, parsed
<1>14. UNION {{<<Optional(TRUE), p, what>> :
                  what \in ConceptIntegrity(p, parsed[p], expected)} : p \in made} = {}
  <2> HIDE DEF made
  <2> QED  BY <1>8, <1>12
<1>15. /\ {<<Optional(TRUE), path, "missing">> : path \in {p \in DOMAIN expected : lacking(p)}} = {}
       /\ {<<Optional(TRUE), <<d, "index">>, "index_mismatch">> : d \in IndexIntegrity(indexes, expected)} = {}
  <2> HIDE DEF lacking
  <2> QED  BY <1>8, <1>10, <1>11
<1>16. validate_generated_integrity(files, indexes, c, TRUE) = {}
  BY <1>13, <1>14, <1>15
<1> QED  BY <1>16 DEF c

(* A synchronisation that nobody disturbs, and that reports neither a conflict *)
(* nor an orphan, leaves what strict loading finds nothing wrong with *)
(* (bundle.py, sync; validation.py, validate_generated_integrity). *)
THEOREM Convergence == Spec => []SyncConverges
<1> QED  BY ReportSound, Inductive, PTL

-----------------------------------------------------------------------------
(* Contexts.                                                                *)

\* g[k] is the length of the first k concepts of s.
Lengths(g, c, s) ==
    /\ g \in [0..Len(s) -> Nat] /\ g[0] = 0
    /\ \A k \in 1..Len(s) : g[k] = g[k - 1] + Chars(c[s[k]])

(* The length of a context is a number, and grows by each concept added. *)
LEMMA CharsFacts ==
    ASSUME NEW c, NEW D, NEW s \in Seq(D)
    PROVE  \E g : Lengths(g, c, s) /\ TotalChars(c, s) = g[Len(s)]
<1> DEFINE n == Len(s)
           f == [k \in 1..n |-> Chars(c[s[k]])]
           F == [k \in 1..n |-> [x \in Nat |-> x + f[k]]]
           body(g) == [k \in 0..n |-> IF k = 0 THEN 0 ELSE g[k - 1] + Chars(c[s[k]])]
           G == CHOOSE g : g = body(g)
<1>0. n \in Nat /\ \A k \in 1..n : f[k] \in Nat /\ f[k] = Chars(c[s[k]])
  BY DEF Chars
<1>1. PICK g : Iterated(g, n, Nat, 0, F)
  <2>1. 0 \in Nat /\ F \in Steps(n, Nat)
    <3> HIDE DEF f, n
    <3> QED  BY <1>0 DEF Steps
  <2> HIDE DEF F, n
  <2> QED  BY <1>0, <2>1, Iterates
<1>2. g \in [0..n -> Nat] /\ g[0] = 0 /\ \A k \in 1..n : g[k] = g[k - 1] + Chars(c[s[k]])
  <2> HIDE DEF f, n
  <2>1. \A k \in 1..n : k - 1 \in 0..n /\ g[k - 1] \in Nat
    BY <1>0, <1>1 DEF Iterated
  <2>2. g \in [0..n -> Nat] /\ g[0] = 0 /\ \A k \in 1..n : g[k] = F[k][g[k - 1]]
    BY <1>1 DEF Iterated
  <2> QED  BY <1>0, <2>1, <2>2
<1>3. g = body(g)
  <2> HIDE DEF n
  <2>1. \A k \in 0..n : k = 0 \/ k \in 1..n
    BY <1>0
  <2> QED  BY <1>2, <2>1
<1>4. G = body(G)
  <2> HIDE DEF body
  <2> QED  BY <1>3
<1>5. TotalChars(c, s) = G[n]
  BY DEF TotalChars
<1>6. G[0] = g[0] /\ \A k \in 1..n : G[k - 1] = g[k - 1] => G[k] = g[k]
  <2>1. \A k \in 0..n : G[k] = IF k = 0 THEN 0 ELSE G[k - 1] + Chars(c[s[k]])
    <3> HIDE DEF n
    <3> QED  BY <1>4
  <2> HIDE DEF G, n
  <2>2. G[0] = 0 /\ \A k \in 1..n : G[k] = G[k - 1] + Chars(c[s[k]])
    BY <1>0, <2>1
  <2> QED  BY <1>2, <2>2
<1>7. G[n] = g[n]
  <2> HIDE DEF G, n
  <2>1. Alike(G, g, n)
    BY <1>6 DEF Alike
  <2>2. n \in 0..n
    BY <1>0
  <2> QED  BY <1>0, <2>1, <2>2, SameIterates
<1>8. Lengths(g, c, s)
  BY <1>2 DEF Lengths
<1> HIDE DEF G
<1> QED  BY <1>5, <1>7, <1>8

(* One concept more is its length more. *)
LEMMA CharsGrow ==
    ASSUME NEW c, NEW D, NEW s \in Seq(D), NEW x \in D
    PROVE  /\ TotalChars(c, s) \in Nat /\ Chars(c[x]) \in Nat
           /\ TotalChars(c, Append(s, x)) = TotalChars(c, s) + Chars(c[x])
<1> DEFINE n == Len(s)
           t == Append(s, x)
<1>1. /\ n \in Nat /\ t \in Seq(D) /\ Len(t) = n + 1 /\ t[n + 1] = x
      /\ \A k \in 1..n : t[k] = s[k]
  BY LenProperties, AppendProperties
<1>2. PICK g : Lengths(g, c, s) /\ TotalChars(c, s) = g[n]
  BY CharsFacts
<1>3. PICK h : Lengths(h, c, t) /\ TotalChars(c, t) = h[Len(t)]
  <2> HIDE DEF n, t
  <2> QED  BY <1>1, CharsFacts
<1> DEFINE m == n + 1
<1>0. /\ g \in [0..n -> Nat] /\ g[0] = 0 /\ \A k \in 1..n : g[k] = g[k - 1] + Chars(c[s[k]])
      /\ h[0] = 0 /\ \A k \in 1..m : h[k] = h[k - 1] + Chars(c[t[k]])
      /\ TotalChars(c, t) = h[m]
  <2> HIDE DEF t
  <2> QED  BY <1>1, <1>2, <1>3 DEF Lengths
<1> HIDE DEF n, t, m
<1>4. h[n] = g[n]
  <2>1. \A k \in 1..n : h[k - 1] = g[k - 1] => h[k] = g[k]
    <3>1. \A k \in 1..n : k \in 1..m /\ t[k] = s[k]
      BY <1>1 DEF m
    <3> QED  BY <1>0, <3>1
  <2>2. Alike(h, g, n)
    BY <1>0, <2>1 DEF Alike
  <2>3. n \in 0..n
    BY <1>1
  <2> QED  BY <1>1, <2>2, <2>3, SameIterates
<1>5. h[n + 1] = g[n] + Chars(c[x])
  <2>1. n + 1 \in 1..n + 1 /\ (n + 1) - 1 = n
    BY <1>1
  <2> QED  BY <1>0, <1>1, <1>4, <2>1 DEF m
<1>6. g[n] \in Nat /\ Chars(c[x]) \in Nat
  BY <1>0, <1>1 DEF Chars
<1> QED  BY <1>0, <1>2, <1>5, <1>6 DEF t, m

\* near[m] is what there is from R over m links at most.
Nearing(near, c, R, depth) ==
    /\ near \in [0..depth -> SUBSET DOMAIN c] /\ near[0] = R
    /\ \A m \in 1..depth :
          near[m] = near[m - 1] \cup LinkedFrom(c, near[m - 1])

(* Near is the last of these sets. *)
LEMMA NearFacts ==
    ASSUME NEW c, NEW R \in SUBSET DOMAIN c, NEW depth \in Nat
    PROVE  \E near : /\ Nearing(near, c, R, depth)
                     /\ \A m \in 0..depth : Near(c, R, m) = near[m]
<1> DEFINE S == SUBSET DOMAIN c
           wider(N) == N \cup LinkedFrom(c, N)
           step == [N \in S |-> wider(N)]
           F == [k \in 1..depth |-> step]
           body(g, m) == [k \in 0..m |-> IF k = 0 THEN R ELSE wider(g[k - 1])]
           G(m) == CHOOSE g : g = body(g, m)
<1>1. PICK near : Iterated(near, depth, S, R, F)
  <2>1. step \in [S -> S]
    <3>1. ASSUME NEW N \in S  PROVE wider(N) \in S
      BY DEF LinkedFrom
    <3> HIDE DEF wider, S
    <3> QED  BY <3>1
  <2> HIDE DEF step, S
  <2>2. F \in Steps(depth, S)
    BY <2>1 DEF Steps
  <2>3. R \in S
    BY DEF S
  <2> HIDE DEF F
  <2> QED  BY <2>2, <2>3, Iterates
<1>2. near \in [0..depth -> S] /\ near[0] = R /\ \A k \in 1..depth : near[k] = wider(near[k - 1])
  <2> HIDE DEF S, wider
  <2>1. \A k \in 1..depth : k - 1 \in 0..depth /\ near[k - 1] \in S
    BY <1>1 DEF Iterated
  <2> QED  BY <1>1, <2>1 DEF Iterated
<1> HIDE DEF wider
<1>3. ASSUME NEW m \in 0..depth  PROVE Near(c, R, m) = near[m]
  <2> DEFINE f == [k \in 0..m |-> near[k]]
  <2>1. \A k \in 0..m : k \in 0..depth /\ (k = 0 \/ (k \in 1..depth /\ k \in 1..m /\ k - 1 \in 0..m))
    OBVIOUS
  <2>2. f = body(f, m)
    BY <1>2, <2>1
  <2>3. G(m) = body(G(m), m)
    <3> HIDE DEF body
    <3> QED  BY <2>2
  <2>4. Near(c, R, m) = G(m)[m]
    BY DEF Near, wider
  <2>5. G(m)[0] = near[0] /\ \A k \in 1..m : G(m)[k - 1] = near[k - 1] => G(m)[k] = near[k]
    <3> DEFINE H == G(m)
    <3>1. \A k \in 0..m : H[k] = IF k = 0 THEN R ELSE wider(H[k - 1])
      BY <2>3
    <3> HIDE DEF H
    <3>2. H[0] = R /\ \A k \in 1..m : k \in 1..depth /\ H[k] = wider(H[k - 1])
      BY <3>1
    <3>3. H[0] = near[0] /\ \A k \in 1..m : H[k - 1] = near[k - 1] => H[k] = near[k]
      BY <1>2, <3>2
    <3> QED  BY <3>3 DEF H
  <2>6. G(m)[m] = near[m]
    <3> DEFINE H == G(m)
    <3> HIDE DEF G
    <3>1. Alike(H, near, m)
      BY <2>5 DEF Alike
    <3>2. m \in 0..m /\ m \in Nat
      OBVIOUS
    <3> HIDE DEF H
    <3>3. H[m] = near[m]
      BY <3>1, <3>2, SameIterates
    <3> QED  BY <3>3 DEF H
  <2> QED  BY <2>4, <2>6
<1>4. Nearing(near, c, R, depth)
  BY <1>2 DEF Nearing, wider
<1> QED  BY <1>3, <1>4

\* ... for which fewer links lead no farther than more.
Layers(near, c, D, R, depth) ==
    /\ near \in [0..depth -> SUBSET D] /\ near[0] = R
    /\ \A i, j \in 0..depth : i <= j => near[i] \subseteq near[j]
    /\ \A m \in 0..depth : m < depth =>
          near[m + 1] = near[m] \cup {x \in D : \E p \in near[m] : x \in c[p].links}

(* What is there over some links is there over more. *)
LEMMA NearGrows ==
    ASSUME NEW c, NEW R, NEW depth \in Nat, NEW near, Nearing(near, c, R, depth)
    PROVE  Layers(near, c, DOMAIN c, R, depth)
<1>1. ASSUME NEW i \in 0..depth  PROVE \A j \in 0..depth : i <= j => near[i] \subseteq near[j]
  <2> DEFINE T == {k \in 0..depth : i <= k => near[i] \subseteq near[k]}
  <2>1. 0 \in T
    OBVIOUS
  <2>2. ASSUME NEW k \in 1..depth, k - 1 \in T  PROVE k \in T
    <3>1. near[k - 1] \subseteq near[k]
      BY DEF Nearing
    <3>2. i <= k => i = k \/ i <= k - 1
      OBVIOUS
    <3> QED  BY <2>2, <3>1, <3>2
  <2> HIDE DEF T
  <2>3. 0..depth \subseteq T
    BY <2>1, <2>2, UpTo
  <2> QED  BY <2>3 DEF T
<1>2. ASSUME NEW m \in 0..depth, m < depth
      PROVE  near[m + 1] = near[m] \cup {x \in DOMAIN c : \E p \in near[m] : x \in c[p].links}
  <2>1. m + 1 \in 1..depth /\ (m + 1) - 1 = m
    BY <1>2
  <2> QED  BY <2>1 DEF Nearing, LinkedFrom
<1> QED  BY <1>1, <1>2 DEF Nearing, Layers

(* What is linked from a concept, in order. *)
LEMMA LinkedFacts ==
    ASSUME NEW c, DOMAIN c \subseteq Paths, NEW p
    PROVE  /\ Linked(c, p) \in Seq(DOMAIN c)
           /\ Range(Linked(c, p)) = c[p].links \cap DOMAIN c
<1>1. c[p].links \cap DOMAIN c \in SUBSET Paths
  OBVIOUS
<1>2. /\ Linked(c, p) \in Seq(c[p].links \cap DOMAIN c)
      /\ Range(Linked(c, p)) = c[p].links \cap DOMAIN c
  <2> DEFINE S == c[p].links \cap DOMAIN c
  <2> HIDE DEF S
  <2>1. Ordered(S) \in Seq(S) /\ Range(Ordered(S)) = S
    BY <1>1, OrderedAll DEF S
  <2> QED  BY <2>1 DEF S, Linked
<1> QED  BY <1>2

\* What a search has found.
Founds(D) ==
    [items : Seq(D), total : Nat, queue : Seq(D \X Nat),
     visited : SUBSET D, omitted : BOOLEAN]

(* One linked concept is left alone, or does not fit, or is added. *)
LEMMA TakeFacts ==
    ASSUME NEW c, NEW D, NEW found \in Founds(D), NEW x \in D, NEW depth \in Nat, NEW budget \in Nat
    PROVE  LET after == Take(c, found, x, depth, budget) IN
           /\ after \in Founds(D)
           /\ \/ after = found /\ (found.omitted \/ x \in found.visited)
              \/ after.omitted /\ after = [found EXCEPT !.omitted = TRUE]
              \/ /\ ~found.omitted /\ ~after.omitted /\ x \notin found.visited
                 /\ after.items = Append(found.items, x)
                 /\ after.queue = Append(found.queue, <<x, depth>>)
                 /\ after.visited = found.visited \cup {x}
                 /\ after.total = found.total + Chars(c[x])
                 /\ after.total <= budget
<1> DEFINE after == Take(c, found, x, depth, budget)
           more == [items |-> Append(found.items, x),
                    queue |-> Append(found.queue, <<x, depth>>),
                    visited |-> found.visited \cup {x},
                    total |-> found.total + Chars(c[x]),
                    omitted |-> FALSE]
<1>1. Chars(c[x]) \in Nat
  BY DEF Chars
<1>2. CASE found.omitted \/ x \in found.visited
  <2>1. after = found
    BY <1>2 DEF Take
  <2> HIDE DEF after
  <2> QED  BY <1>2, <2>1 DEF after
<1>3. CASE ~(found.omitted \/ x \in found.visited) /\ found.total + Chars(c[x]) > budget
  <2>1. after = [found EXCEPT !.omitted = TRUE]
    BY <1>3 DEF Take
  <2>2. [found EXCEPT !.omitted = TRUE] \in Founds(D) /\ [found EXCEPT !.omitted = TRUE].omitted
    BY DEF Founds
  <2> HIDE DEF after
  <2> QED  BY <2>1, <2>2 DEF after
<1>4. CASE ~(found.omitted \/ x \in found.visited) /\ ~(found.total + Chars(c[x]) > budget)
  <2>1. after = more
    BY <1>4 DEF Take
  <2>3. /\ found.items \in Seq(D) /\ found.total \in Nat
        /\ found.queue \in Seq(D \X Nat)
        /\ found.visited \in SUBSET D
    BY DEF Founds
  <2>4. /\ Append(found.items, x) \in Seq(D)
        /\ Append(found.queue, <<x, depth>>) \in Seq(D \X Nat)
    <3>1. <<x, depth>> \in D \X Nat
      OBVIOUS
    <3> QED  BY <2>3, <3>1, AppendProperties
  <2>5. more \in Founds(D)
    BY <1>1, <2>3, <2>4 DEF Founds
  <2>6. found.total + Chars(c[x]) <= budget
    BY <1>1, <1>4, <2>3
  <2>7. /\ ~more.omitted /\ more.visited = found.visited \cup {x}
        /\ more.items = Append(found.items, x) /\ more.queue = Append(found.queue, <<x, depth>>)
        /\ more.total = found.total + Chars(c[x])
    OBVIOUS
  <2> HIDE DEF after, more
  <2> QED  BY <1>4, <2>1, <2>5, <2>6, <2>7 DEF after
<1> QED  BY <1>2, <1>3, <1>4

\* The members of paths are taken one after the other.
Taking(f, c, D, found, paths, depth, budget) ==
    /\ f \in [0..Len(paths) -> Founds(D)] /\ f[0] = found
    /\ \A k \in 1..Len(paths) : f[k] = Take(c, f[k - 1], paths[k], depth, budget)

(* Whether all of them were taken, or one did not fit. *)
LEMMA TakeAllFacts ==
    ASSUME NEW c, NEW D, NEW found \in Founds(D), NEW paths \in Seq(D),
           NEW depth \in Nat, NEW budget \in Nat
    PROVE  \E f : /\ Taking(f, c, D, found, paths, depth, budget)
                  /\ TakeAll(c, found, paths, depth, budget) = f[Len(paths)]
<1> DEFINE n == Len(paths)
           S == Founds(D)
           take(x, k) == Take(c, x, paths[k], depth, budget)
           F == [k \in 1..n |-> [x \in S |-> take(x, k)]]
           body(g) == [k \in 0..n |-> IF k = 0 THEN found ELSE take(g[k - 1], k)]
           G == CHOOSE g : g = body(g)
<1>1. TakeAll(c, found, paths, depth, budget) = G[n]
  BY DEF TakeAll
<1>2. n \in Nat /\ \A k \in 1..n : paths[k] \in D
  OBVIOUS
<1>3. \A k \in 1..n : \A x \in S : take(x, k) \in S
  BY <1>2, TakeFacts
<1> HIDE DEF take, S, n
<1>4. PICK g : Iterated(g, n, S, found, F)
  <2>1. F \in Steps(n, S)
    BY <1>3 DEF Steps
  <2>2. found \in S
    BY DEF S
  <2> HIDE DEF F
  <2> QED  BY <1>2, <2>1, <2>2, Iterates
<1>5. g \in [0..n -> S] /\ g[0] = found /\ \A k \in 1..n : g[k] = take(g[k - 1], k)
  <2>1. \A k \in 1..n : k - 1 \in 0..n /\ g[k - 1] \in S
    BY <1>2, <1>4 DEF Iterated
  <2>2. g \in [0..n -> S] /\ g[0] = found /\ \A k \in 1..n : g[k] = F[k][g[k - 1]]
    BY <1>4 DEF Iterated
  <2> QED  BY <2>1, <2>2
<1>6. g = body(g)
  <2>1. \A k \in 0..n : k = 0 \/ k \in 1..n
    BY <1>2
  <2> QED  BY <1>5, <2>1
<1>7. G = body(G)
  <2> HIDE DEF body
  <2> QED  BY <1>6
<1>8. \A k \in 0..n : G[k] = IF k = 0 THEN found ELSE take(G[k - 1], k)
  BY <1>7
<1> HIDE DEF G
<1>9. G[n] = g[n]
  <2>1. G[0] = found /\ \A k \in 1..n : G[k] = take(G[k - 1], k)
    BY <1>2, <1>8
  <2>2. Alike(G, g, n)
    BY <1>5, <2>1 DEF Alike
  <2>3. n \in 0..n
    BY <1>2
  <2> QED  BY <1>2, <2>2, <2>3, SameIterates
<1>10. Taking(g, c, D, found, paths, depth, budget)
  BY <1>5 DEF Taking, take, S, n
<1>11. TakeAll(c, found, paths, depth, budget) = g[Len(paths)]
  BY <1>1, <1>9 DEF n
<1> QED  BY <1>10, <1>11

\* The items stand in the order of their distance d, and h of them have left the
\* queue.
Walked(c, D, near, found, d, h, depth, budget) ==
    LET n == Len(found.items) IN
    /\ found \in Founds(D)
    /\ \A i, j \in 1..n : found.items[i] = found.items[j] => i = j
    /\ found.visited = Range(found.items)
    /\ found.total = TotalChars(c, found.items) /\ found.total <= budget
    /\ near[0] \subseteq found.visited
    /\ h \in 0..n /\ d \in [1..n -> 0..depth]
    /\ Len(found.queue) = n - h
    /\ \A i \in 1..n - h : found.queue[i] = <<found.items[h + i], d[h + i]>>
    /\ \A i, j \in 1..n : i < j => d[i] <= d[j]
    /\ \A i \in 1..n : \A m \in 0..depth : found.items[i] \in near[m] <=> d[i] <= m

\* All that is linked from the first h of them is among them.
Closed(c, D, found, d, h, depth) ==
    \A i \in 1..h : d[i] < depth =>
        \A x \in D : x \in c[found.items[i]].links => x \in found.visited

\* The links of p, the h-th item, are at work.
Opened(c, D, near, found, d, h, e, p, depth, budget) ==
    /\ Walked(c, D, near, found, d, h, depth, budget)
    /\ h >= 1 /\ found.items[h] = p /\ d[h] = e
    /\ ~found.omitted =>
          /\ Closed(c, D, found, d, h - 1, depth)
          /\ near[e] \subseteq found.visited
          /\ \A i \in 1..Len(found.items) : d[i] <= e + 1

(* Taking one of its links keeps the order, and adds nothing too far away. *)
LEMMA TakeKeeps ==
    ASSUME NEW c, NEW D, NEW R, NEW near, NEW depth \in Nat, NEW budget \in Nat,
           Layers(near, c, D, R, depth), NEW e \in 0..depth, e < depth, NEW p,
           NEW x \in D, x \in c[p].links, NEW found, NEW d, NEW h,
           Opened(c, D, near, found, d, h, e, p, depth, budget)
    PROVE  LET after == Take(c, found, x, e + 1, budget) IN
           \E dd : /\ Opened(c, D, near, after, dd, h, e, p, depth, budget)
                   /\ after.omitted \/ (~found.omitted /\ found.visited \cup {x} \subseteq after.visited)
<1> DEFINE after == Take(c, found, x, e + 1, budget)
           n == Len(found.items)
<1>1. found \in Founds(D) /\ Walked(c, D, near, found, d, h, depth, budget) /\ e + 1 \in Nat
      /\ h >= 1 /\ found.items[h] = p /\ d[h] = e
  BY DEF Opened, Walked
<1>2. /\ after \in Founds(D)
      /\ \/ after = found /\ (found.omitted \/ x \in found.visited)
         \/ after.omitted /\ after = [found EXCEPT !.omitted = TRUE]
         \/ /\ ~found.omitted /\ ~after.omitted /\ x \notin found.visited
            /\ after.items = Append(found.items, x)
            /\ after.queue = Append(found.queue, <<x, e + 1>>)
            /\ after.visited = found.visited \cup {x}
            /\ after.total = found.total + Chars(c[x])
            /\ after.total <= budget
  BY <1>1, TakeFacts
<1> HIDE DEF after
<1>3. CASE after = found /\ (found.omitted \/ x \in found.visited)
  <2>1. after.omitted \/ (~found.omitted /\ found.visited \cup {x} \subseteq after.visited)
    BY <1>1, <1>3 DEF Founds
  <2>2. Opened(c, D, near, after, d, h, e, p, depth, budget)
    BY <1>3
  <2> QED  BY <2>1, <2>2 DEF after
<1>4. CASE after.omitted /\ after = [found EXCEPT !.omitted = TRUE]
  <2>1. /\ after.items = found.items /\ after.queue = found.queue
        /\ after.visited = found.visited /\ after.total = found.total
    BY <1>1, <1>4 DEF Founds
  <2>2. Walked(c, D, near, after, d, h, depth, budget)
    BY <1>1, <1>2, <2>1 DEF Walked
  <2>3. Opened(c, D, near, after, d, h, e, p, depth, budget)
    BY <1>1, <1>4, <2>1, <2>2 DEF Opened
  <2> QED  BY <1>4, <2>3 DEF after
<1>5. CASE /\ ~found.omitted /\ ~after.omitted /\ x \notin found.visited
           /\ after.items = Append(found.items, x)
           /\ after.queue = Append(found.queue, <<x, e + 1>>)
           /\ after.visited = found.visited \cup {x}
           /\ after.total = found.total + Chars(c[x])
           /\ after.total <= budget
  <2> DEFINE s == found.items
             q == found.queue
             t == after.items
             m == n + 1
             dd == [i \in 1..m |-> IF i = m THEN e + 1 ELSE d[i]]
  <2>0. /\ s \in Seq(D) /\ q \in Seq(D \X Nat) /\ n \in Nat
        /\ h \in 1..n /\ d \in [1..n -> 0..depth] /\ Len(q) = n - h
    BY <1>1 DEF Walked, Founds
  <2>1. /\ t \in Seq(D) /\ Len(t) = m /\ t[m] = x /\ \A i \in 1..n : t[i] = s[i]
    BY <1>5, <2>0, AppendProperties
  <2>2. /\ Len(after.queue) = m - h /\ after.queue[m - h] = <<x, e + 1>>
        /\ \A i \in 1..n - h : after.queue[i] = q[i]
    <3> DEFINE u == <<x, e + 1>>
               E == D \X Nat
    <3>1. u \in E /\ q \in Seq(E)
      BY <1>1, <2>0
    <3> HIDE DEF u, q, E
    <3>2. /\ Len(Append(q, u)) = Len(q) + 1 /\ Append(q, u)[Len(q) + 1] = u
          /\ \A i \in 1..Len(q) : Append(q, u)[i] = q[i]
      BY <3>1, AppendProperties
    <3>3. after.queue = Append(q, u)
      BY <1>5 DEF q, u
    <3>4. Len(q) = n - h /\ m - h = (n - h) + 1
      BY <2>0
    <3>5. Len(after.queue) = m - h /\ after.queue[m - h] = u /\ \A i \in 1..n - h : after.queue[i] = q[i]
      <4> HIDE DEF m, n
      <4> QED  BY <3>2, <3>3, <3>4
    <3> QED  BY <3>5 DEF u
  <2>3. TotalChars(c, t) = TotalChars(c, s) + Chars(c[x])
    BY <1>5, <2>0, CharsGrow
  <2>4. m \in Nat /\ dd \in [1..m -> 0..depth] /\ dd[m] = e + 1 /\ \A i \in 1..n : dd[i] = d[i]
    BY <2>0
  <2>5. /\ \A i, j \in 1..n : s[i] = s[j] => i = j
        /\ found.visited = Range(s)
        /\ found.total = TotalChars(c, s)
        /\ near[0] \subseteq found.visited
        /\ \A i \in 1..n - h : q[i] = <<s[h + i], d[h + i]>>
        /\ \A i, j \in 1..n : i < j => d[i] <= d[j]
        /\ \A i \in 1..n : \A k \in 0..depth : s[i] \in near[k] <=> d[i] <= k
    BY <1>1 DEF Walked
  <2>6. /\ Closed(c, D, found, d, h - 1, depth)
        /\ near[e] \subseteq found.visited
        /\ \A i \in 1..n : d[i] <= e + 1
    BY <1>5 DEF Opened
  <2>7. after.total = TotalChars(c, t)
    BY <1>5, <2>3, <2>5
  <2>8. \A i \in 1..n : s[i] \in found.visited /\ s[i] # x
    <3> HIDE DEF s, n
    <3>1. DOMAIN s = 1..n
      BY <2>0 DEF n, s
    <3>2. \A i \in 1..n : s[i] \in Range(s)
      BY <3>1 DEF Range
    <3> QED  BY <1>5, <2>5, <3>2
  <2>9. after.visited = Range(t)
    <3>1. Range(t) = {t[i] : i \in 1..m}
      BY <2>1 DEF Range
    <3>2. Range(s) = {s[i] : i \in 1..n}
      BY <2>0 DEF Range
    <3> HIDE DEF s, t, m, n
    <3>3. \A i \in 1..m : i \in 1..n \/ i = m
      BY <2>0 DEF m
    <3>4. m \in 1..m /\ \A i \in 1..n : i \in 1..m
      BY <2>0 DEF m
    <3> QED  BY <1>5, <2>1, <2>5, <3>1, <3>2, <3>3, <3>4
  <2>10. \A k \in 0..depth : x \in near[k] <=> e + 1 <= k
    <3>1. p \in near[e]
      BY <1>1, <2>0, <2>5
    <3>2. x \in near[e + 1]
      BY <3>1 DEF Layers
    <3>3. x \notin near[e]
      BY <1>5, <2>6
    <3>4. ASSUME NEW k \in 0..depth, e + 1 <= k  PROVE x \in near[k]
      BY <3>2, <3>4 DEF Layers
    <3>5. ASSUME NEW k \in 0..depth, ~(e + 1 <= k)  PROVE x \notin near[k]
      <4>1. k <= e
        BY <3>5
      <4> QED  BY <3>3, <4>1 DEF Layers
    <3> QED  BY <3>4, <3>5
  <2> HIDE DEF s, q, t, dd, m, n
  <2>11. Walked(c, D, near, after, dd, h, depth, budget)
    <3>1. \A i \in 1..m : i \in 1..n \/ i = m
      BY <2>0 DEF m
    <3>2. \A i, j \in 1..m : t[i] = t[j] => i = j
      BY <2>1, <2>5, <2>8, <3>1
    <3>3. h \in 0..m
      BY <2>0 DEF m
    <3>4. ASSUME NEW i \in 1..m - h  PROVE after.queue[i] = <<t[h + i], dd[h + i]>>
      <4>1. CASE i = m - h
        <5>1. h + i = m
          BY <2>0, <4>1 DEF m
        <5> QED  BY <2>1, <2>2, <2>4, <4>1, <5>1
      <4>2. CASE i # m - h
        <5>1. i \in 1..n - h
          BY <2>0, <4>2 DEF m
        <5>2. h + i \in 1..n
          BY <2>0, <5>1
        <5> QED  BY <2>1, <2>2, <2>4, <2>5, <5>1, <5>2
      <4> QED  BY <4>1, <4>2
    <3>5. ASSUME NEW i \in 1..m, NEW j \in 1..m, i < j  PROVE dd[i] <= dd[j]
      <4>1. i \in 1..n
        BY <2>0, <3>5 DEF m
      <4>2. CASE j = m
        BY <2>4, <2>6, <4>1, <4>2
      <4>3. CASE j # m
        BY <2>4, <2>5, <3>1, <3>5, <4>1, <4>3
      <4> QED  BY <4>2, <4>3
    <3>6. \A i \in 1..m : \A k \in 0..depth : t[i] \in near[k] <=> dd[i] <= k
      <4>1. ASSUME NEW k \in 0..depth  PROVE t[m] \in near[k] <=> dd[m] <= k
        BY <2>1, <2>4, <2>10
      <4>2. ASSUME NEW i \in 1..n, NEW k \in 0..depth  PROVE t[i] \in near[k] <=> dd[i] <= k
        BY <2>1, <2>4, <2>5
      <4> QED  BY <3>1, <4>1, <4>2
    <3>7. near[0] \subseteq after.visited
      BY <1>5, <2>5
    <3>8. after.items = t
      BY DEF t
    <3>9. Len(after.items) = m
      BY <2>1, <3>8
    <3>10. \A i \in 1..m - h : after.queue[i] = <<after.items[h + i], dd[h + i]>>
      BY <3>4, <3>8
    <3>11. \A i, j \in 1..m : after.items[i] = after.items[j] => i = j
      BY <3>2, <3>8
    <3>12. \A i \in 1..m : \A k \in 0..depth : after.items[i] \in near[k] <=> dd[i] <= k
      BY <3>6, <3>8
    <3>13. \A i, j \in 1..m : i < j => dd[i] <= dd[j]
      BY <3>5
    <3>14. after.visited = Range(after.items) /\ after.total = TotalChars(c, after.items)
      BY <2>7, <2>9, <3>8
    <3> QED  BY <1>2, <1>5, <2>2, <2>4, <3>3, <3>7, <3>9, <3>10, <3>11, <3>12, <3>13, <3>14 DEF Walked
  <2>12. Opened(c, D, near, after, dd, h, e, p, depth, budget)
    <3>1. after.items[h] = p /\ dd[h] = e
      BY <1>1, <2>0, <2>1, <2>4 DEF s, t
    <3>2. Closed(c, D, after, dd, h - 1, depth)
      <4>1. ASSUME NEW i \in 1..h - 1, dd[i] < depth, NEW y \in D, y \in c[after.items[i]].links
            PROVE  y \in after.visited
        <5>1. i \in 1..n
          BY <2>0
        <5>2. d[i] < depth /\ y \in c[found.items[i]].links
          BY <2>1, <2>4, <4>1, <5>1 DEF s, t
        <5> QED  BY <1>5, <2>6, <4>1, <5>2 DEF Closed
      <4> QED  BY <4>1 DEF Closed
    <3>3. near[e] \subseteq after.visited
      BY <1>5, <2>6
    <3>4. \A i \in 1..Len(after.items) : dd[i] <= e + 1
      <4>1. Len(after.items) = m
        BY <2>1 DEF t
      <4>2. \A i \in 1..m : i \in 1..n \/ i = m
        BY <2>0 DEF m
      <4>3. e + 1 \in Nat /\ e + 1 <= e + 1
        BY <1>1
      <4> QED  BY <2>4, <2>6, <4>1, <4>2, <4>3
    <3> QED  BY <1>1, <2>11, <3>1, <3>2, <3>3, <3>4 DEF Opened
  <2> QED  BY <1>5, <2>12 DEF after
<1> QED  BY <1>2, <1>3, <1>4, <1>5

\* The next item's level is complete, unless something was left out.
Searched(c, D, near, found, d, h, depth, budget) ==
    /\ Walked(c, D, near, found, d, h, depth, budget)
    /\ ~found.omitted =>
          /\ Closed(c, D, found, d, h, depth)
          /\ h < Len(found.items) =>
                /\ near[d[h + 1]] \subseteq found.visited
                /\ \A i \in 1..Len(found.items) : d[i] <= d[h + 1] + 1

(* When all its links were taken, the search is at the next item. *)
LEMMA OpenedEnds ==
    ASSUME NEW c, NEW D, NEW R, NEW near, NEW depth \in Nat, NEW budget \in Nat,
           Layers(near, c, D, R, depth), NEW e \in 0..depth, e < depth, NEW p,
           NEW found, NEW d, NEW h, Opened(c, D, near, found, d, h, e, p, depth, budget),
           found.omitted \/ \A x \in D : x \in c[p].links => x \in found.visited
    PROVE  Searched(c, D, near, found, d, h, depth, budget)
<1> DEFINE n == Len(found.items)
<1>1. /\ Walked(c, D, near, found, d, h, depth, budget)
      /\ h >= 1 /\ found.items[h] = p /\ d[h] = e
  BY DEF Opened
<1>2. /\ n \in Nat /\ h \in 0..n /\ d \in [1..n -> 0..depth] /\ found.items \in Seq(D)
      /\ found.visited = Range(found.items)
      /\ \A i, j \in 1..n : i < j => d[i] <= d[j]
      /\ \A i \in 1..n : \A m \in 0..depth : found.items[i] \in near[m] <=> d[i] <= m
  BY <1>1 DEF Walked, Founds
<1>3. \A y \in found.visited : \E i \in 1..n : found.items[i] = y
  <2> DEFINE s == found.items
  <2> HIDE DEF s
  <2>1. DOMAIN s = 1..Len(s) /\ found.visited = Range(s) /\ n = Len(s)
    BY <1>2 DEF s
  <2> HIDE DEF n
  <2>2. \A y \in found.visited : \E i \in 1..n : s[i] = y
    BY <2>1 DEF Range
  <2> QED  BY <2>2 DEF s
<1> HIDE DEF n
<1>4. ASSUME ~found.omitted
      PROVE  /\ Closed(c, D, found, d, h, depth)
             /\ h < n => /\ near[d[h + 1]] \subseteq found.visited
                         /\ \A i \in 1..n : d[i] <= d[h + 1] + 1
  <2>1. /\ Closed(c, D, found, d, h - 1, depth)
        /\ near[e] \subseteq found.visited
        /\ \A i \in 1..n : d[i] <= e + 1
    BY <1>4 DEF Opened, n
  <2>2. Closed(c, D, found, d, h, depth)
    <3>1. \A i \in 1..h : i = h \/ i \in 1..h - 1
      BY <1>2
    <3> QED  BY <1>1, <1>4, <2>1, <3>1 DEF Closed
  <2>3. ASSUME h < n
        PROVE  /\ near[d[h + 1]] \subseteq found.visited
               /\ \A i \in 1..n : d[i] <= d[h + 1] + 1
    <3>1. h \in 1..n /\ h + 1 \in 1..n /\ h < h + 1
      BY <1>1, <1>2, <2>3
    <3>2. d[h] <= d[h + 1] /\ d[h + 1] <= e + 1 /\ d[h + 1] \in 0..depth
      BY <1>2, <2>1, <3>1
    <3>3. \A i \in 1..n : d[i] <= d[h + 1] + 1
      <4>1. \A i \in 1..n : d[i] \in 0..depth
        BY <1>2
      <4> QED  BY <1>1, <2>1, <3>2, <4>1
    <3>4. CASE d[h + 1] = e
      BY <2>1, <3>3, <3>4
    <3>5. CASE d[h + 1] # e
      <4>1. d[h + 1] = e + 1
        BY <1>1, <3>2, <3>5
      <4>2. ASSUME NEW y \in near[e + 1]  PROVE y \in found.visited
        <5>1. CASE y \in near[e]
          BY <2>1, <5>1
        <5>2. CASE y \notin near[e]
          <6>1. PICK q \in near[e] : y \in D /\ y \in c[q].links
            BY <4>2, <5>2 DEF Layers
          <6>2. PICK i \in 1..n : found.items[i] = q
            BY <1>3, <2>1, <6>1
          <6>3. d[i] <= e
            BY <1>2, <6>1, <6>2
          <6>4. ~(h + 1 < i) /\ i # h + 1
            <7>1. h + 1 < i => d[h + 1] <= d[i]
              BY <1>2, <3>1
            <7> QED  BY <1>2, <4>1, <6>3, <7>1
          <6>5. i \in 1..h
            BY <3>1, <6>4
          <6>6. d[i] < depth
            BY <1>2, <6>3
          <6> QED  BY <2>2, <6>1, <6>2, <6>5, <6>6 DEF Closed
        <5> QED  BY <5>1, <5>2
      <4> QED  BY <3>3, <4>1, <4>2
    <3> QED  BY <3>4, <3>5
  <2> QED  BY <2>2, <2>3
<1> QED  BY <1>1, <1>4 DEF Searched, n

(* A turn takes one item from the queue and adds what is linked from it. *)
LEMMA TurnKeeps ==
    ASSUME NEW c, NEW D, D = DOMAIN c, D \subseteq Paths, NEW R, NEW near,
           NEW depth \in Nat, NEW budget \in Nat, Layers(near, c, D, R, depth),
           NEW found, NEW d, NEW h, Searched(c, D, near, found, d, h, depth, budget)
    PROVE  LET after == Turn(c, found, depth, budget) IN
           \E dd, hh : /\ Searched(c, D, near, after, dd, hh, depth, budget)
                       /\ after.omitted \/ hh = Len(after.items) \/ hh = h + 1
<1> DEFINE after == Turn(c, found, depth, budget)
           n == Len(found.items)
           q == found.queue
           rest == [found EXCEPT !.queue = Tail(@)]
           at == Head(q)
           p == found.items[h + 1]
           e == d[h + 1]
<1>1. /\ found \in Founds(D) /\ n \in Nat /\ h \in 0..n /\ q \in Seq(D \X Nat)
      /\ found.items \in Seq(D) /\ d \in [1..n -> 0..depth] /\ Len(q) = n - h
      /\ \A i \in 1..n - h : q[i] = <<found.items[h + i], d[h + i]>>
      /\ \A i, j \in 1..n : i < j => d[i] <= d[j]
  BY DEF Searched, Walked, Founds
<1>2. CASE q = <<>> \/ found.omitted
  <2>1. after = found
    BY <1>2 DEF Turn
  <2>2. found.omitted \/ h = n
    BY <1>1, <1>2
  <2> HIDE DEF after
  <2> QED  BY <2>1, <2>2 DEF after
<1>3. CASE ~(q = <<>> \/ found.omitted)
  <2>1. h < n /\ h + 1 \in 1..n /\ 1 \in 1..n - h
    <3>1. Len(q) # 0
      BY <1>1, <1>3
    <3> QED  BY <1>1, <3>1
  <2>2. at = <<p, e>> /\ p \in D /\ e \in 0..depth
    <3>1. at = q[1]
      BY <1>1, <1>3
    <3>2. q[1] = <<found.items[h + 1], d[h + 1]>>
      BY <1>1, <2>1
    <3> QED  BY <1>1, <2>1, <3>1, <3>2
  <2>3. after = IF e >= depth THEN rest ELSE TakeAll(c, rest, Linked(c, p), e + 1, budget)
    <3>1. after = IF at[2] >= depth THEN rest
                  ELSE TakeAll(c, rest, Linked(c, at[1]), at[2] + 1, budget)
      BY <1>3 DEF Turn
    <3>2. at[1] = p /\ at[2] = e
      BY <2>2
    <3> HIDE DEF after, rest, at, p, e
    <3> QED  BY <3>1, <3>2
  <2>4. /\ rest.items = found.items /\ rest.visited = found.visited /\ rest.total = found.total
        /\ rest.omitted = found.omitted /\ rest.queue = Tail(q) /\ rest \in Founds(D)
    <3> DEFINE E == D \X Nat
    <3>1. q \in Seq(E) /\ q # <<>>
      BY <1>1, <1>3
    <3>3. rest = [items |-> found.items, total |-> found.total, queue |-> Tail(q),
                  visited |-> found.visited, omitted |-> found.omitted]
      <4> DEFINE tl == Tail(q)
      <4> HIDE DEF tl
      <4>1. [found EXCEPT !.queue = tl] =
               [items |-> found.items, total |-> found.total, queue |-> tl,
                visited |-> found.visited, omitted |-> found.omitted]
        <5> DEFINE A == Seq(D)
                   B == Seq(D \X Nat)
                   C == SUBSET D
        <5>1. found \in [items : A, total : Nat, queue : B, visited : C, omitted : BOOLEAN]
          BY <1>1 DEF Founds
        <5> HIDE DEF A, B, C
        <5> QED  BY <5>1
      <4> QED  BY <4>1 DEF tl
    <3>4. Tail(q) \in Seq(E)
      <4> HIDE DEF E, q
      <4> QED  BY <3>1
    <3>5. /\ found.items \in Seq(D) /\ found.total \in Nat
          /\ found.visited \in SUBSET D /\ found.omitted \in BOOLEAN
      BY <1>1 DEF Founds
    <3> HIDE DEF rest, q
    <3> QED  BY <3>3, <3>4, <3>5 DEF Founds, E
  <2>5. Walked(c, D, near, rest, d, h + 1, depth, budget)
    <3> DEFINE E == D \X Nat
    <3>1. /\ Len(Tail(q)) = Len(q) - 1
          /\ \A i \in 1..Len(Tail(q)) : Tail(q)[i] = q[i + 1]
      <4>1. q \in Seq(E) /\ q # <<>>
        BY <1>1, <1>3
      <4> HIDE DEF E, q
      <4> QED  BY <4>1
    <3>2. Len(rest.queue) = n - (h + 1)
      BY <1>1, <2>4, <3>1
    <3>3. ASSUME NEW i \in 1..n - (h + 1)
          PROVE  rest.queue[i] = <<rest.items[(h + 1) + i], d[(h + 1) + i]>>
      <4>1. i \in 1..Len(Tail(q)) /\ i + 1 \in 1..n - h /\ h + (i + 1) = (h + 1) + i
        BY <1>1, <3>1
      <4> HIDE DEF rest, q, n
      <4> QED  BY <1>1, <2>4, <3>1, <4>1
    <3>4. h + 1 \in 0..n
      BY <2>1
    <3>5. /\ \A i, j \in 1..n : found.items[i] = found.items[j] => i = j
          /\ found.visited = Range(found.items)
          /\ found.total = TotalChars(c, found.items) /\ found.total <= budget
          /\ near[0] \subseteq found.visited
          /\ \A i \in 1..n : \A m \in 0..depth : found.items[i] \in near[m] <=> d[i] <= m
      BY DEF Searched, Walked
    <3>6. n = Len(rest.items)
      BY <2>4
    <3> HIDE DEF rest, q, n
    <3> QED  BY <1>1, <2>4, <3>2, <3>3, <3>4, <3>5, <3>6 DEF Walked
  <2>6. /\ Closed(c, D, found, d, h, depth)
        /\ near[e] \subseteq found.visited
        /\ \A i \in 1..n : d[i] <= e + 1
    BY <1>3, <2>1 DEF Searched
  <2>7. CASE e >= depth
    <3>1. after = rest
      BY <2>3, <2>7
    <3> HIDE DEF rest
    <3>2. Closed(c, D, rest, d, h + 1, depth)
      <4>1. \A i \in 1..h + 1 : i = h + 1 \/ i \in 1..h
        BY <1>1
      <4>2. ~(d[h + 1] < depth)
        BY <2>2, <2>7
      <4> QED  BY <2>4, <2>6, <4>1, <4>2 DEF Closed
    <3>3. ASSUME h + 1 < n
          PROVE  /\ near[d[(h + 1) + 1]] \subseteq rest.visited
                 /\ \A i \in 1..n : d[i] <= d[(h + 1) + 1] + 1
      <4>1. (h + 1) + 1 \in 1..n /\ h + 1 < (h + 1) + 1
        BY <2>1, <3>3
      <4>2. d[(h + 1) + 1] \in 0..depth /\ e <= d[(h + 1) + 1]
        BY <1>1, <2>1, <4>1
      <4>3. d[(h + 1) + 1] = e
        BY <2>2, <2>7, <4>2
      <4> QED  BY <2>4, <2>6, <4>3
    <3>4. Searched(c, D, near, rest, d, h + 1, depth, budget)
      BY <2>4, <2>5, <3>2, <3>3 DEF Searched
    <3> HIDE DEF after
    <3> QED  BY <3>1, <3>4 DEF after
  <2>8. CASE ~(e >= depth)
    <3> DEFINE paths == Linked(c, p)
               hh == h + 1
               l == Len(paths)
    <3>1. paths \in Seq(D) /\ Range(paths) = c[p].links \cap D
      BY LinkedFacts
    <3>2. e < depth /\ e + 1 \in Nat
      BY <2>2, <2>8
    <3>3. Opened(c, D, near, rest, d, hh, e, p, depth, budget)
      <4> HIDE DEF rest
      <4>1. hh - 1 = h /\ hh >= 1
        BY <1>1
      <4>2. Closed(c, D, rest, d, hh - 1, depth)
        BY <2>4, <2>6, <4>1 DEF Closed
      <4>3. rest.items[hh] = p /\ d[hh] = e
        BY <2>4
      <4> QED  BY <2>4, <2>5, <2>6, <4>1, <4>2, <4>3 DEF Opened
    <3>4. after = TakeAll(c, rest, paths, e + 1, budget)
      BY <2>3, <2>8
    <3> HIDE DEF rest, paths, p, e, hh, after
    <3>5. PICK f : Taking(f, c, D, rest, paths, e + 1, budget) /\ after = f[l]
      BY <2>4, <3>1, <3>2, <3>4, TakeAllFacts
    <3> HIDE DEF l
    <3>6. l \in Nat /\ DOMAIN paths = 1..l /\ \A i \in 1..l : paths[i] \in D
      BY <3>1 DEF l
    <3>7. f[0] = rest /\ \A k \in 1..l : f[k] = Take(c, f[k - 1], paths[k], e + 1, budget)
      BY <3>5 DEF Taking, l
    <3> DEFINE Taken(k, dd) == /\ Opened(c, D, near, f[k], dd, hh, e, p, depth, budget)
                               /\ f[k].omitted \/ \A i \in 1..k : paths[i] \in f[k].visited
               T == {k \in 0..l : \E dd : Taken(k, dd)}
    <3>8. 0 \in T
      <4>1. Taken(0, d)
        BY <3>3, <3>7
      <4> HIDE DEF Taken
      <4> QED  BY <3>6, <4>1
    <3>9. ASSUME NEW k \in 1..l, k - 1 \in T  PROVE k \in T
      <4>1. PICK d0 : Taken(k - 1, d0)
        BY <3>9
      <4>2. paths[k] \in D /\ paths[k] \in c[p].links
        <5>1. paths[k] \in Range(paths)
          BY <3>6 DEF Range
        <5> QED  BY <3>1, <5>1
      <4>3. PICK dd : /\ Opened(c, D, near, f[k], dd, hh, e, p, depth, budget)
                      /\ f[k].omitted \/ (~f[k - 1].omitted /\ f[k - 1].visited \cup {paths[k]} \subseteq f[k].visited)
        <5>1. Opened(c, D, near, f[k - 1], d0, hh, e, p, depth, budget)
          BY <4>1
        <5>2. e \in 0..depth
          BY <2>2 DEF e
        <5> DEFINE x == paths[k]
                   g == f[k - 1]
                   y == Take(c, g, x, e + 1, budget)
        <5>3. x \in D /\ x \in c[p].links /\ f[k] = y
          BY <3>7, <4>2
        <5> HIDE DEF Taken, T, x, g
        <5>4. \E dd : /\ Opened(c, D, near, y, dd, hh, e, p, depth, budget)
                      /\ y.omitted \/ (~g.omitted /\ g.visited \cup {x} \subseteq y.visited)
          <6>1. Opened(c, D, near, g, d0, hh, e, p, depth, budget)
            BY <5>1 DEF g
          <6> QED  BY <3>2, <5>2, <5>3, <6>1, TakeKeeps
        <5> HIDE DEF y
        <5> QED  BY <5>3, <5>4 DEF x, g
      <4>4. \A i \in 1..k : i = k \/ i \in 1..k - 1
        BY <3>6
      <4>5. Taken(k, dd)
        BY <4>1, <4>3, <4>4
      <4> HIDE DEF Taken
      <4> QED  BY <4>5
    <3>10. PICK dd : Taken(l, dd)
      <4> HIDE DEF T, Taken
      <4>1. 0..l \subseteq T
        BY <3>6, <3>8, <3>9, UpTo
      <4>2. l \in T
        BY <3>6, <4>1
      <4> QED  BY <4>2 DEF T
    <3>11. f[l].omitted \/ \A x \in D : x \in c[p].links => x \in f[l].visited
      <4>1. ASSUME NEW x \in D, x \in c[p].links  PROVE \E i \in 1..l : paths[i] = x
        <5>1. x \in Range(paths)
          BY <3>1, <4>1
        <5> QED  BY <3>6, <5>1 DEF Range
      <4> QED  BY <3>10, <4>1
    <3>12. Searched(c, D, near, f[l], dd, hh, depth, budget)
      <4>1. Opened(c, D, near, f[l], dd, hh, e, p, depth, budget)
        BY <3>10
      <4>2. e \in 0..depth
        BY <2>2 DEF e
      <4> HIDE DEF Taken
      <4> QED  BY <3>2, <3>11, <4>1, <4>2, OpenedEnds
    <3> QED  BY <3>5, <3>12 DEF hh, after
  <2> QED  BY <2>7, <2>8
<1> QED  BY <1>2, <1>3

(* A sequence without repetition is no longer than there are things to be in it. *)
LEMMA NoMore ==
    ASSUME NEW D, IsFiniteSet(D), NEW s \in Seq(D),
           \A i, j \in 1..Len(s) : s[i] = s[j] => i = j
    PROVE  Len(s) <= Cardinality(D)
<1> DEFINE m == Len(s)
<1>1. s \in Injection(1..m, D) /\ m \in Nat
  BY DEF Injection, IsInjective
<1> HIDE DEF m
<1>2. IsFiniteSet(1..m) /\ Cardinality(1..m) = m
  BY <1>1, FS_Interval
<1>3. m <= Cardinality(D)
  BY <1>1, <1>2, FS_Injection
<1> QED  BY <1>3 DEF m

(* No concept is found twice, so that as many turns as there are concepts end *)
(* with an empty queue, or with something left out.                          *)
LEMMA WidenKeeps ==
    ASSUME NEW c, NEW D, D = DOMAIN c, D \subseteq Paths, IsFiniteSet(D), NEW R, NEW near,
           NEW depth \in Nat, NEW budget \in Nat, Layers(near, c, D, R, depth),
           NEW found, NEW d, Searched(c, D, near, found, d, 0, depth, budget)
    PROVE  LET after == Widen(c, found, depth, budget) IN
           \E dd, hh : /\ Searched(c, D, near, after, dd, hh, depth, budget)
                       /\ after.omitted \/ hh = Len(after.items)
<1> DEFINE n == Cardinality(D)
           Held(x) == \E dd, hh : Searched(c, D, near, x, dd, hh, depth, budget)
           S == {x \in Founds(D) : Held(x)}
           turn(x) == Turn(c, x, depth, budget)
           step == [x \in S |-> turn(x)]
           F == [k \in 1..n |-> step]
           body(g) == [k \in 0..n |-> IF k = 0 THEN found ELSE turn(g[k - 1])]
           G == CHOOSE g : g = body(g)
<1>1. n \in Nat
  BY FS_CardinalityType
<1>2. \A x : Held(x) => x \in Founds(D)
  BY DEF Searched, Walked
<1>3. ASSUME NEW x \in S  PROVE turn(x) \in S
  <2>1. PICK d1, h1 : Searched(c, D, near, x, d1, h1, depth, budget)
    OBVIOUS
  <2>2. Held(turn(x))
    BY <2>1, TurnKeeps
  <2> HIDE DEF Held, turn
  <2> QED  BY <1>2, <2>2
<1>4. found \in S
  <2>1. Held(found)
    OBVIOUS
  <2> HIDE DEF Held
  <2> QED  BY <1>2, <2>1
<1>5. Widen(c, found, depth, budget) = G[n]
  BY DEF Widen
<1> HIDE DEF turn, S, n
<1>6. PICK g : Iterated(g, n, S, found, F)
  <2>1. step \in [S -> S]
    BY <1>3
  <2> HIDE DEF step
  <2>2. F \in Steps(n, S)
    BY <2>1 DEF Steps
  <2> HIDE DEF F
  <2> QED  BY <1>1, <1>4, <2>2, Iterates
<1>7. g \in [0..n -> S] /\ g[0] = found /\ \A k \in 1..n : g[k] = turn(g[k - 1])
  <2>1. \A k \in 1..n : k - 1 \in 0..n /\ g[k - 1] \in S
    BY <1>1, <1>6 DEF Iterated
  <2>2. g \in [0..n -> S] /\ g[0] = found /\ \A k \in 1..n : g[k] = F[k][g[k - 1]]
    BY <1>6 DEF Iterated
  <2> QED  BY <2>1, <2>2
<1>8. G[n] = g[n]
  <2>1. g = body(g)
    <3>1. \A k \in 0..n : k = 0 \/ k \in 1..n
      BY <1>1
    <3> QED  BY <1>7, <3>1
  <2>2. G = body(G)
    <3> HIDE DEF body
    <3> QED  BY <2>1
  <2>3. \A k \in 0..n : G[k] = IF k = 0 THEN found ELSE turn(G[k - 1])
    BY <2>2
  <2> HIDE DEF G
  <2>4. G[0] = found /\ \A k \in 1..n : G[k] = turn(G[k - 1])
    BY <1>1, <2>3
  <2>5. Alike(G, g, n)
    BY <1>7, <2>4 DEF Alike
  <2>6. n \in 0..n
    BY <1>1
  <2> QED  BY <1>1, <2>5, <2>6, SameIterates
<1> HIDE DEF G
<1> DEFINE Gone(k, dd, hh) == /\ Searched(c, D, near, g[k], dd, hh, depth, budget)
                              /\ g[k].omitted \/ hh = Len(g[k].items) \/ hh >= k
           T == {k \in 0..n : \E dd, hh : Gone(k, dd, hh)}
<1>9. 0 \in T
  <2>1. Gone(0, d, 0)
    BY <1>7
  <2> HIDE DEF Gone
  <2> QED  BY <1>1, <2>1
<1>10. ASSUME NEW k \in 1..n, k - 1 \in T  PROVE k \in T
  <2>1. PICK d1, h1 : Gone(k - 1, d1, h1)
    BY <1>10
  <2> DEFINE x == g[k - 1]
             y == Turn(c, x, depth, budget)
  <2>2. g[k] = y
    BY <1>7 DEF turn
  <2>3. Searched(c, D, near, x, d1, h1, depth, budget)
    BY <2>1
  <2> HIDE DEF x
  <2>4. PICK dd, hh : /\ Searched(c, D, near, y, dd, hh, depth, budget)
                      /\ y.omitted \/ hh = Len(y.items) \/ hh = h1 + 1
    BY <2>3, TurnKeeps
  <2>5. CASE y.omitted \/ hh = Len(y.items) \/ h1 >= k - 1
    <3> HIDE DEF y
    <3>1. h1 \in Int
      BY <2>3 DEF Searched, Walked
    <3>2. Gone(k, dd, hh)
      BY <1>1, <2>2, <2>4, <2>5, <3>1
    <3> HIDE DEF Gone
    <3> QED  BY <1>1, <3>2
  <2>6. CASE ~(h1 >= k - 1)
    <3>1. x.omitted \/ h1 = Len(x.items)
      BY <2>1, <2>6 DEF x
    <3>2. x.omitted \/ x.queue = <<>>
      <4> DEFINE E == D \X Nat
      <4>1. Len(x.queue) = Len(x.items) - h1 /\ x.queue \in Seq(E) /\ Len(x.items) \in Nat
        BY <2>3 DEF Searched, Walked, Founds
      <4> HIDE DEF E
      <4>2. h1 = Len(x.items) => Len(x.queue) = 0
        BY <4>1
      <4>3. Len(x.queue) = 0 => x.queue = <<>>
        BY <4>1
      <4> QED  BY <3>1, <4>2, <4>3
    <3>3. y = x
      BY <3>2 DEF Turn
    <3> HIDE DEF y
    <3>4. Gone(k, d1, h1)
      BY <2>2, <2>3, <3>1, <3>3
    <3> HIDE DEF Gone
    <3> QED  BY <1>1, <3>4
  <2> QED  BY <2>5, <2>6
<1>11. PICK dd, hh : Gone(n, dd, hh)
  <2> HIDE DEF T, Gone
  <2>1. 0..n \subseteq T
    BY <1>1, <1>9, <1>10, UpTo
  <2>2. n \in T
    BY <1>1, <2>1
  <2> QED  BY <2>2 DEF T
<1>12. hh <= Len(g[n].items) /\ Len(g[n].items) <= n /\ hh \in Nat /\ Len(g[n].items) \in Nat
  <2> DEFINE s == g[n].items
             m == Len(s)
  <2>1. /\ s \in Seq(D) /\ hh \in 0..m /\ m \in Nat
        /\ \A i, j \in 1..m : s[i] = s[j] => i = j
    BY <1>11 DEF Searched, Walked, Founds
  <2> HIDE DEF s
  <2>4. m <= n
    BY <2>1, NoMore DEF n
  <2> QED  BY <2>1, <2>4 DEF m, s
<1>13. g[n].omitted \/ hh = Len(g[n].items)
  BY <1>1, <1>11, <1>12
<1>14. Searched(c, D, near, g[n], dd, hh, depth, budget)
  BY <1>11
<1> HIDE DEF Gone
<1> QED  BY <1>5, <1>8, <1>13, <1>14

(* What a search has found at its end. *)
LEMMA SearchEnds ==
    ASSUME NEW c, NEW D, NEW R, NEW near, NEW depth \in Nat, NEW budget \in Nat,
           Layers(near, c, D, R, depth), NEW found, NEW d, NEW h,
           Searched(c, D, near, found, d, h, depth, budget),
           found.omitted \/ h = Len(found.items)
    PROVE  /\ found.items \in Seq(D)
           /\ found.total = TotalChars(c, found.items) /\ found.total <= budget
           /\ \A i, j \in 1..Len(found.items) : found.items[i] = found.items[j] => i = j
           /\ R \subseteq Range(found.items)
           /\ Range(found.items) \subseteq near[depth]
           /\ ~found.omitted => Range(found.items) = near[depth]
           /\ \A i, j \in 1..Len(found.items) : \A m \in 0..depth :
                 i < j /\ found.items[j] \in near[m] => found.items[i] \in near[m]
<1> DEFINE n == Len(found.items)
           s == found.items
<1>1. /\ s \in Seq(D) /\ n \in Nat /\ h \in 0..n /\ d \in [1..n -> 0..depth]
      /\ found.visited = Range(s) /\ near[0] \subseteq found.visited
      /\ found.total = TotalChars(c, s) /\ found.total <= budget
      /\ \A i, j \in 1..n : s[i] = s[j] => i = j
      /\ \A i, j \in 1..n : i < j => d[i] <= d[j]
      /\ \A i \in 1..n : \A m \in 0..depth : s[i] \in near[m] <=> d[i] <= m
  BY DEF Searched, Walked, Founds
<1>2. DOMAIN s = 1..n
  BY <1>1
<1>3. R \subseteq Range(s)
  BY <1>1 DEF Layers
<1> HIDE DEF s, n
<1>4. \A y : y \in Range(s) <=> \E i \in 1..n : s[i] = y
  BY <1>2 DEF Range
<1>5. Range(s) \subseteq near[depth]
  <2>1. ASSUME NEW i \in 1..n  PROVE s[i] \in near[depth]
    <3>1. d[i] \in 0..depth /\ depth \in 0..depth
      BY <1>1
    <3> QED  BY <1>1, <3>1
  <2> QED  BY <1>4, <2>1
<1>6. ASSUME ~found.omitted  PROVE near[depth] \subseteq Range(s)
  <2> DEFINE T == {m \in 0..depth : near[m] \subseteq Range(s)}
  <2>1. 0 \in T
    BY <1>1
  <2>2. ASSUME NEW m \in 1..depth, m - 1 \in T  PROVE m \in T
    <3>1. m - 1 \in 0..depth /\ m - 1 < depth /\ (m - 1) + 1 = m
      OBVIOUS
    <3>2. near[m] = near[m - 1] \cup {x \in D : \E p \in near[m - 1] : x \in c[p].links}
      <4>1. near[(m - 1) + 1] = near[m - 1] \cup {x \in D : \E p \in near[m - 1] : x \in c[p].links}
        BY <3>1 DEF Layers
      <4> QED  BY <3>1, <4>1
    <3>3. ASSUME NEW x \in D, NEW p \in near[m - 1], x \in c[p].links  PROVE x \in Range(s)
      <4>1. PICK i \in 1..n : s[i] = p
        BY <1>4, <2>2
      <4>2. d[i] <= m - 1 /\ d[i] \in 0..depth
        BY <1>1, <3>1, <4>1
      <4>3. d[i] < depth /\ i \in 1..h
        BY <1>6, <3>1, <4>2 DEF n
      <4>4. Closed(c, D, found, d, h, depth)
        BY <1>6 DEF Searched
      <4>5. x \in found.visited
        BY <3>3, <4>1, <4>3, <4>4 DEF Closed, s
      <4> QED  BY <1>1, <4>5
    <3>4. near[m - 1] \subseteq Range(s)
      BY <2>2
    <3>5. near[m] \subseteq Range(s)
      BY <3>2, <3>3, <3>4
    <3> QED  BY <3>5
  <2> HIDE DEF T
  <2>3. 0..depth \subseteq T
    BY <2>1, <2>2, UpTo
  <2>4. depth \in T
    BY <2>3
  <2> QED  BY <2>4 DEF T
<1>7. ASSUME NEW i \in 1..n, NEW j \in 1..n, NEW m \in 0..depth, i < j, s[j] \in near[m]
      PROVE  s[i] \in near[m]
  <2>1. d[j] <= m /\ d[i] <= d[j] /\ d[i] \in 0..depth /\ d[j] \in 0..depth
    BY <1>1, <1>7
  <2>2. d[i] <= m
    BY <2>1
  <2> QED  BY <1>1, <2>2
<1> QED  BY <1>1, <1>3, <1>5, <1>6, <1>7 DEF s, n

(* What is asked for, as a search begins with it. *)
LEMMA SearchBegins ==
    ASSUME NEW c, NEW D, NEW near, NEW depth \in Nat, NEW budget \in Nat, NEW s \in Seq(D),
           \A i, j \in 1..Len(s) : s[i] = s[j] => i = j,
           Layers(near, c, D, Range(s), depth), TotalChars(c, s) <= budget
    PROVE  LET found == [items |-> s, total |-> TotalChars(c, s),
                         queue |-> [i \in DOMAIN s |-> <<s[i], 0>>],
                         visited |-> Range(s), omitted |-> FALSE]
           IN  \E d : Searched(c, D, near, found, d, 0, depth, budget)
<1> DEFINE n == Len(s)
           q == [i \in DOMAIN s |-> <<s[i], 0>>]
           found == [items |-> s, total |-> TotalChars(c, s), queue |-> q,
                     visited |-> Range(s), omitted |-> FALSE]
           d == [i \in 1..n |-> 0]
<1>1. n \in Nat /\ DOMAIN s = 1..n /\ \A i \in 1..n : s[i] \in D
  OBVIOUS
<1>2. Len(q) = n /\ q \in Seq(D \X Nat) /\ \A i \in 1..n : q[i] = <<s[i], 0>>
  <2> DEFINE E == D \X Nat
             u == [i \in 1..n |-> <<s[i], 0>>]
  <2>1. \A i \in 1..n : <<s[i], 0>> \in E
    BY <1>1
  <2>2. u \in [1..n -> E] /\ \A i \in 1..n : u[i] = <<s[i], 0>>
    <3> HIDE DEF n, E
    <3> QED  BY <2>1
  <2>3. q = u
    BY <1>1
  <2> HIDE DEF n, E, u, q
  <2>4. u \in Seq(E) /\ Len(u) = n
    BY <1>1, <2>2
  <2> QED  BY <2>2, <2>3, <2>4 DEF E
<1>3. TotalChars(c, s) \in Nat
  <2>1. PICK g : Lengths(g, c, s) /\ TotalChars(c, s) = g[Len(s)]
    BY CharsFacts
  <2>2. Len(s) \in 0..Len(s)
    BY <1>1
  <2> QED  BY <2>1, <2>2 DEF Lengths
<1>4. Range(s) \in SUBSET D
  BY <1>1 DEF Range
<1>5. d \in [1..n -> 0..depth] /\ \A i \in 1..n : d[i] = 0
  <2> HIDE DEF n
  <2> QED  OBVIOUS
<1>6. \A i \in 1..n : \A m \in 0..depth : s[i] \in near[m] <=> d[i] <= m
  <2>1. \A i \in 1..n : s[i] \in near[0]
    <3>1. \A i \in 1..n : s[i] \in Range(s)
      BY <1>1 DEF Range
    <3> QED  BY <3>1 DEF Layers
  <2>2. \A m \in 0..depth : 0 <= m /\ near[0] \subseteq near[m]
    BY DEF Layers
  <2> HIDE DEF n, d
  <2> QED  BY <1>5, <2>1, <2>2
<1>7. near[0] = Range(s)
  BY DEF Layers
<1> HIDE DEF q, d
<1>8. /\ found.items = s /\ found.total = TotalChars(c, s) /\ found.queue = q
      /\ found.visited = Range(s) /\ found.omitted = FALSE
  OBVIOUS
<1>9. found \in Founds(D)
  BY <1>2, <1>3, <1>4 DEF Founds
<1> HIDE DEF found
<1>10. Walked(c, D, near, found, d, 0, depth, budget)
  <2>1. 0 \in 0..n /\ n - 0 = n /\ \A i \in 1..n : 0 + i = i
    BY <1>1
  <2>2. Len(found.items) = n
    BY <1>8
  <2>3. \A i \in 1..n - 0 : found.queue[i] = <<found.items[0 + i], d[0 + i]>>
    BY <1>2, <1>5, <1>8, <2>1
  <2>4. \A i, j \in 1..n : i < j => d[i] <= d[j]
    BY <1>5
  <2> HIDE DEF n
  <2> QED  BY <1>2, <1>5, <1>6, <1>7, <1>8, <1>9, <2>1, <2>2, <2>3, <2>4 DEF Walked, n
<1>11. Searched(c, D, near, found, d, 0, depth, budget)
  <2>1. Closed(c, D, found, d, 0, depth)
    BY DEF Closed
  <2>2. ASSUME 0 < Len(found.items)
        PROVE  /\ near[d[0 + 1]] \subseteq found.visited
               /\ \A i \in 1..Len(found.items) : d[i] <= d[0 + 1] + 1
    <3>1. 0 + 1 \in 1..n /\ Len(found.items) = n
      BY <1>1, <1>8, <2>2
    <3>2. d[0 + 1] = 0
      BY <1>5, <3>1
    <3> QED  BY <1>5, <1>7, <1>8, <3>1, <3>2
  <2> QED  BY <1>10, <2>1, <2>2 DEF Searched
<1> QED  BY <1>11 DEF found, q

(* A context is what is asked for and what is linked, nearest first, and all *)
(* that is near enough unless it says that something was left out (bundle.py, *)
(* context_for).                                                            *)
LEMMA ContextSound ==
    ASSUME NEW c, DOMAIN c \subseteq Paths, NEW r \in Requests
    PROVE  LET asked == RequestOf(r)
               context == context_for(c, asked.ids, asked.depth, asked.budget)
               required == {p \in DOMAIN c : c[p].selayer_id \in Range(asked.ids)}
               near(n) == Near(c, required, n)
           IN  context.code = "context" =>
                   /\ context.total = TotalChars(c, context.items)
                   /\ context.total <= asked.budget
                   /\ IsInjective(context.items)
                   /\ required \subseteq Range(context.items)
                   /\ Range(context.items) \subseteq near(asked.depth)
                   /\ ~context.omitted => Range(context.items) = near(asked.depth)
                   /\ \A i, j \in DOMAIN context.items : \A n \in 0..asked.depth :
                         i < j /\ context.items[j] \in near(n) => context.items[i] \in near(n)
<1> DEFINE D == DOMAIN c
           ids == RequestOf(r).ids
           depth == RequestOf(r).depth
           budget == RequestOf(r).budget
           context == context_for(c, ids, depth, budget)
           required == {p \in D : c[p].selayer_id \in Range(ids)}
           bound(id) == {p \in D : c[p].selayer_id = id}
           s == [i \in DOMAIN ids |-> CHOOSE p \in bound(ids[i]) : TRUE]
           found == [items |-> s, total |-> TotalChars(c, s),
                     queue |-> [i \in DOMAIN s |-> <<s[i], 0>>],
                     visited |-> Range(s), omitted |-> FALSE]
           after == Widen(c, found, depth, budget)
<1>1. /\ depth \in Nat /\ budget \in Nat /\ ids \in Seq(Range(ids))
      /\ Range(ids) \cap {Absent, Bad} = {}
      /\ \A i, j \in DOMAIN ids : ids[i] = ids[j] => i = j
  BY BoundsAssumption DEF IsInjective
<1>2. D \subseteq Paths /\ IsFiniteSet(D)
  BY CatalogAssumption, FS_Subset
<1> SUFFICES ASSUME context.code = "context"
             PROVE  /\ context.total = TotalChars(c, context.items)
                    /\ context.total <= budget
                    /\ IsInjective(context.items)
                    /\ required \subseteq Range(context.items)
                    /\ Range(context.items) \subseteq Near(c, required, depth)
                    /\ ~context.omitted => Range(context.items) = Near(c, required, depth)
                    /\ \A i, j \in DOMAIN context.items : \A n \in 0..depth :
                          i < j /\ context.items[j] \in Near(c, required, n)
                              => context.items[i] \in Near(c, required, n)
  OBVIOUS
<1>3. /\ validate_duplicate_bindings(c) = {}
      /\ \A i \in DOMAIN ids : bound(ids[i]) # {}
      /\ ~(TotalChars(c, s) > budget)
      /\ context.items = after.items /\ context.total = after.total
      /\ context.omitted = after.omitted
  <2> DEFINE done == [code |-> "context", items |-> after.items, total |-> after.total,
                      omitted |-> after.omitted,
                      warned |-> {p \in Range(after.items) : trust_tier(c[p]) = "unverified"}]
             dup == validate_duplicate_bindings(c) # {}
             unknown == \E i \in DOMAIN ids : bound(ids[i]) = {}
             over == TotalChars(c, s) > budget
  <2>1. context = IF dup THEN [code |-> "duplicate"]
                  ELSE IF unknown THEN [code |-> "unknown"]
                  ELSE IF over THEN [code |-> "budget"] ELSE done
    BY DEF context_for
  <2>2. /\ done.items = after.items /\ done.total = after.total /\ done.omitted = after.omitted
    <3> HIDE DEF after
    <3> QED  OBVIOUS
  <2> HIDE DEF context, done, dup, unknown, over
  <2>3. ~dup /\ ~unknown /\ ~over
    BY <2>1
  <2>4. context = done
    BY <2>1, <2>3
  <2> QED  BY <2>2, <2>3, <2>4 DEF dup, unknown, over
<1> HIDE DEF context, after, ids, depth, budget
<1>4. \A p, q \in D : c[p].selayer_id \notin {Absent, Bad} /\ c[q].selayer_id = c[p].selayer_id
                          => p = q
  <2>1. ASSUME NEW p \in D, NEW q \in D, c[p].selayer_id \notin {Absent, Bad},
               c[q].selayer_id = c[p].selayer_id, p # q
        PROVE  FALSE
    <3>1. <<"error", p, "duplicate selayer_id">> \in validate_duplicate_bindings(c)
      BY <2>1 DEF validate_duplicate_bindings
    <3> QED  BY <1>3, <3>1
  <2> QED  BY <2>1
<1>5. DOMAIN ids = 1..Len(ids) /\ Len(ids) \in Nat
  BY <1>1
<1>6. \A i \in DOMAIN ids : s[i] \in D /\ c[s[i]].selayer_id = ids[i]
  <2>1. ASSUME NEW i \in DOMAIN ids  PROVE s[i] \in bound(ids[i])
    <3>1. s[i] = CHOOSE p \in bound(ids[i]) : TRUE
      BY <2>1
    <3>2. \E p : p \in bound(ids[i])
      BY <1>3
    <3> HIDE DEF s, bound
    <3> QED  BY <3>1, <3>2
  <2> HIDE DEF s
  <2> QED  BY <2>1
<1>7. DOMAIN s = DOMAIN ids
  OBVIOUS
<1> HIDE DEF s
<1>8. s \in Seq(D) /\ Len(s) = Len(ids)
  <2>1. s \in [1..Len(ids) -> D]
    <3>1. s = [i \in 1..Len(ids) |-> s[i]]
      BY <1>5 DEF s
    <3> HIDE DEF D
    <3> QED  BY <1>5, <1>6, <3>1
  <2> HIDE DEF D
  <2> QED  BY <1>5, <2>1
<1>9. \A i, j \in 1..Len(s) : s[i] = s[j] => i = j
  BY <1>1, <1>5, <1>6, <1>8
<1>10. Range(s) = required
  <2>1. \A p \in Range(s) : p \in required
    BY <1>6, <1>7 DEF Range
  <2>2. ASSUME NEW p \in required  PROVE p \in Range(s)
    <3>1. p \in D /\ c[p].selayer_id \in Range(ids)
      OBVIOUS
    <3>2. PICK i \in DOMAIN ids : c[p].selayer_id = ids[i]
      BY <3>1 DEF Range
    <3>3. c[p].selayer_id \notin {Absent, Bad}
      BY <1>1, <3>1
    <3>4. p = s[i]
      BY <1>4, <1>6, <3>1, <3>2, <3>3
    <3> QED  BY <1>7, <3>4 DEF Range
  <2> QED  BY <2>1, <2>2
<1>11. PICK near : /\ Layers(near, c, D, required, depth)
                   /\ \A m \in 0..depth : Near(c, required, m) = near[m]
  <2>1. required \in SUBSET D
    OBVIOUS
  <2> HIDE DEF required
  <2>2. PICK near : /\ Nearing(near, c, required, depth)
                    /\ \A m \in 0..depth : Near(c, required, m) = near[m]
    BY <1>1, <2>1, NearFacts
  <2>4. Layers(near, c, D, required, depth)
    BY <1>1, <2>2, NearGrows
  <2> QED  BY <2>2, <2>4
<1> HIDE DEF required, D
<1>12. TotalChars(c, s) <= budget
  <2>1. PICK g : Lengths(g, c, s) /\ TotalChars(c, s) = g[Len(s)]
    BY <1>8, CharsFacts
  <2>2. Len(s) \in 0..Len(s)
    BY <1>5, <1>8
  <2>3. TotalChars(c, s) \in Nat
    BY <2>1, <2>2 DEF Lengths
  <2> QED  BY <1>1, <1>3, <2>3
<1>13. PICK d : Searched(c, D, near, found, d, 0, depth, budget)
  <2>1. Layers(near, c, D, Range(s), depth)
    BY <1>10, <1>11
  <2> QED  BY <1>1, <1>8, <1>9, <1>12, <2>1, SearchBegins
<1> HIDE DEF found
<1>14. PICK dd, hh : /\ Searched(c, D, near, after, dd, hh, depth, budget)
                     /\ after.omitted \/ hh = Len(after.items)
  <2>1. D = DOMAIN c
    BY DEF D
  <2> QED  BY <1>1, <1>2, <1>11, <1>13, <2>1, WidenKeeps DEF after
<1>15. /\ after.items \in Seq(D)
       /\ after.total = TotalChars(c, after.items) /\ after.total <= budget
       /\ \A i, j \in 1..Len(after.items) : after.items[i] = after.items[j] => i = j
       /\ required \subseteq Range(after.items)
       /\ Range(after.items) \subseteq near[depth]
       /\ ~after.omitted => Range(after.items) = near[depth]
       /\ \A i, j \in 1..Len(after.items) : \A m \in 0..depth :
             i < j /\ after.items[j] \in near[m] => after.items[i] \in near[m]
  BY <1>1, <1>11, <1>14, SearchEnds
<1>16. DOMAIN after.items = 1..Len(after.items) /\ IsInjective(after.items)
  BY <1>15 DEF IsInjective
<1>17. near[depth] = Near(c, required, depth)
  BY <1>1, <1>11
<1> QED  BY <1>3, <1>11, <1>15, <1>16, <1>17

(* A context is the nearest part that fits, or all of it (bundle.py, context_for). *)
THEOREM Contexts == Spec => []ContextExact
<1>1. ASSUME IInv, NEW r \in Requests  PROVE DOMAIN Parsed(files) \subseteq Paths
  BY <1>1 DEF IInv, FilesOK, Parsed, Restrict
<1>2. IInv => ContextExact
  BY <1>1, ContextSound DEF ContextExact
<1> QED  BY <1>2, Inductive, PTL
=============================================================================
