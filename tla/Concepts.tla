-------------------------------- MODULE Concepts --------------------------------
(***************************************************************************)
(* The documents of an OKF bundle (okf): what is generated from a catalog,   *)
(* how a generated document is merged with one that people have written in, *)
(* what validation finds in a bundle, and which context it returns.         *)
(*                                                                         *)
(* A catalog maps semantic identifiers, pairs of a kind and a name, to       *)
(* objects.  files maps paths, pairs of a directory and a name, to           *)
(* documents; indexes maps directories, and "" for the root, to the paths   *)
(* their index lists.  A field that is not there is Absent, one that is     *)
(* malformed is Bad.  A digest is modelled by what it is taken of.          *)
(***************************************************************************)
EXTENDS SequencesExt, Integers

CONSTANTS Absent, Bad,
          Rank(_)       \* the order of the paths

\* f, and g where f says nothing; f with a further value.
Upon(f, g) == [x \in DOMAIN f \cup DOMAIN g |-> IF x \in DOMAIN f THEN f[x] ELSE g[x]]
Put(f, x, value) == [y \in DOMAIN f \cup {x} |-> IF y = x THEN value ELSE f[y]]

Directory ==
    [source |-> "sources", dimension |-> "dimensions", fact |-> "facts",
     measure |-> "measures", metric |-> "metrics", relationship |-> "relationships"]
Directories == Range(Directory)
concept_path(id) == <<Directory[id[1]], id[2]>>
KindType(id) == <<"Selayer", id[1]>>

-----------------------------------------------------------------------------
(* Generation.                                                              *)

\* The digest covers the controlled frontmatter and the definition.
Controlled == {"type", "title", "description", "selayer_id"}
generated_fingerprint(doc, definition) ==
    <<[key \in Controlled |-> doc[key]], doc.generated.descriptive, definition>>

Blank ==
    [parses |-> TRUE, type |-> Absent, title |-> Absent, description |-> Absent,
     selayer_id |-> Absent, generated |-> Absent, status |-> Absent, replaced_by |-> Absent,
     verified |-> Absent, stale_after |-> Absent, sources |-> Absent,
     definitions |-> <<>>, curated |-> Absent, links |-> {}]

Stamped(doc) ==
    [doc EXCEPT !.generated.fingerprint = generated_fingerprint(doc, Head(doc.definitions))]

ConceptOf(catalog, id, descriptive) ==
    LET object == catalog[id] IN
    Stamped([Blank EXCEPT
        !.type = KindType(id),
        !.title = id[2],
        !.description = IF descriptive THEN object.description ELSE Absent,
        !.selayer_id = id,
        !.generated = [descriptive |-> descriptive, fingerprint |-> Absent],
        !.status = IF object.status = "deprecated" THEN "deprecated" ELSE "stable",
        !.replaced_by = IF object.status = "deprecated" /\ object.replaced_by # Absent
                          THEN concept_path(object.replaced_by) ELSE Absent,
        !.definitions = <<object.definition>>])

concepts_from_layer(catalog, descriptive) ==
    [path \in {concept_path(id) : id \in DOMAIN catalog} |->
        ConceptOf(catalog, CHOOSE id \in DOMAIN catalog : concept_path(id) = path, descriptive)]

InDirectory(concepts, d) == {path \in DOMAIN concepts : path[1] = d}
index_documents(concepts) ==
    [d \in {path[1] : path \in DOMAIN concepts} \cup {""} |->
        IF d = "" THEN DOMAIN concepts ELSE InDirectory(concepts, d)]

-----------------------------------------------------------------------------
(* Synchronisation of one document.                                         *)

\* Mutant: a verification outlives the definition it was made of.
MergeVerified(existing, generated, changed) ==
    [key \in DOMAIN existing |->
        IF key \in Controlled \cup {"generated"} \/ (key = "definitions" /\ changed)
          THEN generated[key] ELSE existing[key]]
\* Mutant: only the definition is brought up to date.
MergeDefinition(existing, generated, changed) ==
    [existing EXCEPT !.definitions = generated.definitions,
                     !.generated = generated.generated,
                     !.verified = IF changed THEN Absent ELSE @]
\* The controlled parts are the generator's, everything else is kept; a
\* definition that changes takes its verification with it.
merge_generated_concept_text(existing, generated, changed) ==
    [key \in DOMAIN existing |->
        CASE key \in Controlled \cup {"generated"} -> generated[key]
          [] key = "definitions" /\ changed -> generated.definitions
          [] key = "verified" /\ changed -> Absent
          [] OTHER -> existing[key]]

\* Whether a document is as it was generated, in the parts that are.
Untouched(doc) ==
    /\ doc.parses
    /\ Len(doc.definitions) = 1
    /\ doc.generated # Absent
    /\ doc.generated.fingerprint = generated_fingerprint(doc, doc.definitions[1])

\* Mutant: the digest of a document is not compared with the document.
SyncedLoosely(parsed, bytes, generated) ==
    IF ~parsed.parses \/ Len(parsed.definitions) # 1 \/ parsed.generated = Absent
       \/ ~bytes.parses \/ Len(bytes.definitions) # 1
      THEN [class |-> "conflict", doc |-> bytes]
      ELSE [class |-> "written",
            doc |-> merge_generated_concept_text(bytes, generated,
                        parsed.definitions # generated.definitions)]
\* What sync makes of a document that it parsed, and then read again as bytes.
Synced(parsed, bytes, generated) ==
    IF ~Untouched(parsed) \/ ~bytes.parses \/ Len(bytes.definitions) # 1
      THEN [class |-> "conflict", doc |-> bytes]
      ELSE LET merged == merge_generated_concept_text(
                             bytes, generated, parsed.definitions # generated.definitions)
           IN  [class |-> IF merged = bytes THEN "unchanged" ELSE "written", doc |-> merged]

Orphaned(files, concepts, classified) ==
    {path \in DOMAIN files \ classified :
        /\ path[1] \in Directories
        /\ files[path].parses
        /\ files[path].selayer_id # Absent
        /\ files[path].selayer_id \notin {doc.selayer_id : doc \in Range(concepts)}}

-----------------------------------------------------------------------------
(* Validation.  An issue is its severity, where it is and what is wrong.     *)

Issue(condition, severity, path, what) ==
    IF condition THEN {<<severity, path, what>>} ELSE {}
Optional(strict) == IF strict THEN "error" ELSE "warning"

MetadataIssues(path, doc, strict) ==
    {<<Optional(strict), path, field>> :
        field \in {f \in {"stale_after", "verified", "sources"} : doc[f] = Bad}
                 \cup {f \in {"generated"} : doc.generated # Absent /\ doc.generated.fingerprint = Bad}}

BindingIssues(path, doc, catalog) ==
    IF doc.selayer_id = Absent THEN {}
    ELSE IF doc.selayer_id = Bad THEN {<<"error", path, "selayer_id">>}
    ELSE Issue(doc.type # KindType(doc.selayer_id), "error", path, "type of selayer_id")
         \cup Issue(catalog # Absent /\ doc.selayer_id \notin DOMAIN catalog,
                    "error", path, "unknown selayer_id")

validate_concept(path, doc, catalog, strict) ==
    Issue(doc.type \in {Absent, Bad}, "error", path, "type")
    \cup Issue(doc.status \notin {Absent, "draft", "stable", "deprecated"},
               Optional(strict), path, "status")
    \cup Issue(doc.status = "deprecated" /\ doc.replaced_by = Absent,
               Optional(strict), path, "replaced_by")
    \cup MetadataIssues(path, doc, strict)
    \cup BindingIssues(path, doc, catalog)

Parsed(files) == Restrict(files, {path \in DOMAIN files : files[path].parses})

validate_duplicate_bindings(concepts) ==
    {<<"error", path, "duplicate selayer_id">> :
        path \in {p \in DOMAIN concepts : concepts[p].selayer_id \notin {Absent, Bad}
                    /\ \E q \in DOMAIN concepts \ {p} :
                          concepts[q].selayer_id = concepts[p].selayer_id}}

\* A link to a file that is not there only warns.
validate_links(files, concepts) ==
    {<<"warning", path, "broken link">> :
        path \in {p \in DOMAIN concepts : ~(concepts[p].links \subseteq DOMAIN files)}}

\* The mode is the one that is declared, or else that of any description.
DescriptiveMode(concepts) ==
    LET made == {doc \in Range(concepts) : doc.generated # Absent}
        declared == {doc \in made : doc.generated.descriptive \in BOOLEAN}
    IN  IF declared # {} THEN \E doc \in declared : doc.generated.descriptive
        ELSE \E doc \in made : doc.description # Absent

\* A bundle counts as generated for any of three traces.
IsGenerated(files, indexes, concepts, expected) ==
    \/ \E doc \in Range(concepts) : doc.generated # Absent
    \/ /\ DOMAIN expected # {}
       /\ \A d \in DOMAIN index_documents(expected) \ {""} :
             d \in DOMAIN indexes /\ indexes[d] = index_documents(expected)[d]
    \/ DOMAIN expected # {} /\ DOMAIN expected \subseteq DOMAIN files

ControlledSignature(doc, withMode) ==
    <<[key \in Controlled |-> doc[key]], IF withMode THEN doc.generated.descriptive ELSE Absent>>

\* One generated document against the catalog.
ConceptIntegrity(path, doc, expected) ==
    LET declares == doc.generated.descriptive \in BOOLEAN
        own == CHOOSE p \in DOMAIN expected : expected[p].selayer_id = doc.selayer_id
    IN  IF \A p \in DOMAIN expected : expected[p].selayer_id # doc.selayer_id THEN {"orphan"}
        ELSE IF own # path THEN {"path_mismatch"}
        ELSE IF Len(doc.definitions) # 1 THEN {"definition_mismatch"}
        ELSE {what \in {"definition_mismatch"} : doc.definitions # expected[own].definitions}
             \cup {what \in {"mode"} : ~declares /\ doc.generated.descriptive # Absent}
             \cup {what \in {"frontmatter_mismatch"} :
                     ControlledSignature(doc, declares) # ControlledSignature(expected[own], declares)}
             \cup {what \in {"fingerprint"} :
                     doc.generated.fingerprint # generated_fingerprint(doc, doc.definitions[1])}

IndexIntegrity(indexes, expected) ==
    {d \in DOMAIN index_documents(expected) :
        d \notin DOMAIN indexes \/ indexes[d] # index_documents(expected)[d]}

validate_generated_integrity(files, indexes, catalog, strict) ==
    LET concepts == Parsed(files)
        expected == concepts_from_layer(catalog, DescriptiveMode(concepts))
        lacking(path) == \/ path \notin DOMAIN concepts
                         \/ concepts[path].generated = Absent
                         \/ concepts[path].selayer_id = Absent
        made == {p \in DOMAIN concepts : concepts[p].generated # Absent
                                         /\ concepts[p].selayer_id # Absent}
    IN  (IF IsGenerated(files, indexes, concepts, expected)
           THEN {<<Optional(strict), path, "missing">> : path \in {p \in DOMAIN expected : lacking(p)}}
                \cup {<<Optional(strict), <<d, "index">>, "index_mismatch">> : d \in IndexIntegrity(indexes, expected)}
           ELSE {})
        \cup UNION {{<<Optional(strict), p, what>> :
                        what \in ConceptIntegrity(p, concepts[p], expected)} : p \in made}

LoadIssues(files, indexes, catalog, strict) ==
    LET concepts == Parsed(files) IN
    {<<"error", path, "unparsed">> : path \in DOMAIN files \ DOMAIN concepts}
    \cup UNION {validate_concept(path, concepts[path], catalog, strict) : path \in DOMAIN concepts}
    \cup validate_duplicate_bindings(concepts)
    \cup validate_links(files, concepts)
    \cup IF catalog = Absent THEN {}
         ELSE validate_generated_integrity(files, indexes, catalog, strict)
Loads(files, indexes, catalog, strict) ==
    \A issue \in LoadIssues(files, indexes, catalog, strict) : issue[1] # "error"

-----------------------------------------------------------------------------
(* Authored inputs of a build.  Both are sets of paths with documents.       *)

ReferenceIssues(references) ==
    UNION {Issue(~references[p].parses, "error", p, "unparsed")
           \cup Issue(references[p].selayer_id # Absent, "error", p, "selayer_id")
           \cup Issue(references[p].type \in {Absent, Bad} \/ references[p].title \in {Absent, Bad},
                      "error", p, "type or title")
           \cup validate_concept(p, references[p], Absent, TRUE)
           : p \in DOMAIN references}

\* An overlay is of the catalog, at the path of its concept ...
BoundIssues(p, overlay, catalog) ==
    IF overlay.selayer_id \in {Absent, Bad} THEN {<<"error", p, "selayer_id">>}
    ELSE Issue(overlay.selayer_id \notin DOMAIN catalog, "error", p, "unknown")
         \cup Issue(concept_path(overlay.selayer_id) # p, "error", p, "path")
         \cup MetadataIssues(p, overlay, TRUE)

\* ... and holds nothing but curation of it.
Owned == {"type", "title", "description", "generated", "status", "replaced_by", "verified"}
OverlayIssues(overlays, catalog) ==
    UNION {LET overlay == overlays[p] IN
           IF ~overlay.parses THEN {<<"error", p, "unparsed">>}
           ELSE Issue(\E key \in Owned : overlay[key] # Absent, "error", p, "frontmatter")
                \cup Issue(overlay.definitions # <<>>, "error", p, "section")
                \cup Issue(p \in overlay.links, "error", p, "self-link")
                \cup BoundIssues(p, overlay, catalog)
           : p \in DOMAIN overlays}

MergeOverlay(generated, overlay) ==
    [generated EXCEPT
        !.sources = IF overlay.sources = Absent THEN @ ELSE overlay.sources,
        !.stale_after = IF overlay.stale_after = Absent THEN @ ELSE overlay.stale_after,
        !.curated = IF overlay.curated = Absent THEN @ ELSE overlay.curated,
        !.links = overlay.links]

Composed(generated, references, overlays) ==
    Upon([path \in DOMAIN generated |->
             IF path \in DOMAIN overlays THEN MergeOverlay(generated[path], overlays[path])
             ELSE generated[path]],
         references)

-----------------------------------------------------------------------------
(* Retrieval.                                                               *)

trust_tier(doc) ==
    CASE doc.verified \in {Absent, Bad} -> "unverified"
      [] doc.verified \notin {Absent, Bad} /\ doc.verified.by = "human" -> "human_reviewed"
      [] OTHER -> "machine_confirmed"

Chars(doc) == 1 + (IF doc.curated = Absent THEN 0 ELSE 1)
TotalChars(concepts, items) ==
    LET sum[n \in 0 .. Len(items)] ==
            IF n = 0 THEN 0 ELSE sum[n - 1] + Chars(concepts[items[n]])
    IN  sum[Len(items)]

\* The paths in their order.
InOrder(order) == \A i, j \in DOMAIN order : i < j => Rank(order[i]) < Rank(order[j])
Ordered(paths) == CHOOSE order \in [1 .. Cardinality(paths) -> paths] : InOrder(order)
Linked(concepts, path) == Ordered(concepts[path].links \cap DOMAIN concepts)

\* One linked concept, until one does not fit.
Take(concepts, found, path, depth, budget) ==
    IF found.omitted \/ path \in found.visited THEN found
    ELSE IF found.total + Chars(concepts[path]) > budget
      THEN [found EXCEPT !.omitted = TRUE]
      ELSE [items |-> Append(found.items, path),
            queue |-> Append(found.queue, <<path, depth>>),
            visited |-> found.visited \cup {path},
            total |-> found.total + Chars(concepts[path]),
            omitted |-> FALSE]
TakeAll(concepts, found, paths, depth, budget) ==
    LET after[k \in 0 .. Len(paths)] ==
            IF k = 0 THEN found ELSE Take(concepts, after[k - 1], paths[k], depth, budget)
    IN  after[Len(paths)]

\* What is linked from the head of the queue.  Mutant: one link too many.
TurnDeep(concepts, found, depth, budget) ==
    IF found.queue = <<>> \/ found.omitted THEN found
    ELSE LET at == Head(found.queue)
             rest == [found EXCEPT !.queue = Tail(@)]
         IN  IF at[2] > depth THEN rest
             ELSE TakeAll(concepts, rest, Linked(concepts, at[1]), at[2] + 1, budget)
Turn(concepts, found, depth, budget) ==
    IF found.queue = <<>> \/ found.omitted THEN found
    ELSE LET at == Head(found.queue)
             rest == [found EXCEPT !.queue = Tail(@)]
         IN  IF at[2] >= depth THEN rest
             ELSE TakeAll(concepts, rest, Linked(concepts, at[1]), at[2] + 1, budget)

\* No concept is queued twice, so that there are no more turns than concepts.
Widen(concepts, found, depth, budget) ==
    LET n == Cardinality(DOMAIN concepts)
        after[k \in 0 .. n] ==
            IF k = 0 THEN found ELSE Turn(concepts, after[k - 1], depth, budget)
    IN  after[n]

\* What is asked for comes whole or not at all; what is linked comes while it fits.
context_for(concepts, ids, depth, budget) ==
    LET bound(id) == {p \in DOMAIN concepts : concepts[p].selayer_id = id}
        required == [i \in DOMAIN ids |-> CHOOSE p \in bound(ids[i]) : TRUE]
    IN  IF validate_duplicate_bindings(concepts) # {} THEN [code |-> "duplicate"]
        ELSE IF \E i \in DOMAIN ids : bound(ids[i]) = {} THEN [code |-> "unknown"]
        ELSE IF TotalChars(concepts, required) > budget THEN [code |-> "budget"]
        ELSE LET found == Widen(concepts,
                                [items |-> required, total |-> TotalChars(concepts, required),
                                 queue |-> [i \in DOMAIN required |-> <<required[i], 0>>],
                                 visited |-> Range(required), omitted |-> FALSE],
                                depth, budget)
             IN  [code |-> "context", items |-> found.items, total |-> found.total,
                  omitted |-> found.omitted,
                  warned |-> {p \in Range(found.items) : trust_tier(concepts[p]) = "unverified"}]
=============================================================================
