--------------------------------- MODULE Bundle ---------------------------------
(***************************************************************************)
(* An OKF bundle on disk (okf/bundle.py, okf/composition.py): one command at *)
(* a time generates, builds or synchronises it, document by document, and   *)
(* may be killed at any of its steps, while people save documents under it  *)
(* and the catalog changes.                                                *)
(*                                                                         *)
(* A verification holds the definition it was made of, which no document of  *)
(* the code does.                                                           *)
(***************************************************************************)
EXTENDS Concepts

CONSTANTS
    First,          \* the catalog at first
    Catalogs,       \* what its author may make of it
    Places,         \* the paths of the documents people save
    Pages,          \* documents of their own
    Edits,          \* what they change in one: fields with their values
    Hand,           \* a definition written by hand
    Inputs,         \* the authored inputs of a build
    InputOf(_),     \* their references and overlays
    Requests,       \* contexts that are asked for
    RequestOf(_),   \* their concepts, depth and budget
    MaxCommands, MaxSaves, MaxChanges, MaxKills     \* bounds

Ids == UNION {DOMAIN c : c \in Catalogs}
Paths == {concept_path(id) : id \in Ids} \cup Places
         \cup UNION {DOMAIN InputOf(i).references : i \in Inputs}

\* A document is shown as verified only with the definition that was verified,
\* or with one that was written by hand.
Trusted(doc) ==
    doc.verified \notin {Absent, Bad} /\ Len(doc.definitions) = 1 =>
        doc.definitions[1] \in {doc.verified.definition, Hand}

\* People do not write that a document is generated, nor of which concept.
IsPage(doc) == DOMAIN doc = DOMAIN Blank /\ doc.generated = Absent /\ Trusted(doc)

ASSUME CatalogAssumption ==
    /\ First \in Catalogs
    /\ \A c \in Catalogs : \A id \in DOMAIN c :
          /\ id = <<id[1], id[2]>> /\ id[1] \in DOMAIN Directory
          /\ id \notin {Absent, Bad}
          /\ \A descriptive \in BOOLEAN : ConceptOf(c, id, descriptive).generated # Absent
    /\ IsFiniteSet(Paths)
    /\ \A path, other \in Paths :
          Rank(path) \in Int /\ (Rank(path) = Rank(other) => path = other)

ASSUME AuthorsAssumption ==
    /\ \A page \in Pages : IsPage(page)
    /\ \A i \in Inputs :
          \A path \in DOMAIN InputOf(i).references : IsPage(InputOf(i).references[path])
    /\ \A e \in Edits :
          /\ DOMAIN e \subseteq DOMAIN Blank \ {"selayer_id", "verified"}
          /\ "generated" \in DOMAIN e => e.generated = Absent
          /\ "definitions" \in DOMAIN e /\ Len(e.definitions) = 1 => e.definitions[1] = Hand

ASSUME BoundsAssumption ==
    /\ {MaxCommands, MaxSaves, MaxChanges, MaxKills} \subseteq Nat
    /\ \A r \in Requests :
          /\ RequestOf(r).depth \in Nat /\ RequestOf(r).budget \in Nat
          /\ RequestOf(r).ids \in Seq(Range(RequestOf(r).ids)) /\ IsInjective(RequestOf(r).ids)
          /\ Range(RequestOf(r).ids) \cap {Absent, Bad} = {}

VARIABLES catalog, files, indexes, log, command, report, owner, used
vars == <<catalog, files, indexes, log, command, report, owner, used>>

Idle == [kind |-> "none"]
NoReport == [quiet |-> FALSE]

Init ==
    /\ catalog = First
    /\ files = <<>>
    /\ indexes = <<>>
    /\ log = FALSE
    /\ command = Idle
    /\ report = NoReport
    /\ owner = "none"
    /\ used = [commands |-> 0, saves |-> 0, changes |-> 0, kills |-> 0]

Count(what, max) == used[what] < max /\ used' = [used EXCEPT ![what] = @ + 1]
EmptyDestination == files = <<>> /\ indexes = <<>> /\ ~log

-----------------------------------------------------------------------------
(* The commands.                                                            *)

Begin(kind, descriptive) ==
    /\ command = Idle
    /\ Count("commands", MaxCommands)
    /\ kind = "generate" => EmptyDestination
    /\ LET concepts == concepts_from_layer(catalog, descriptive) IN
       command' = [kind |-> kind, at |-> "next", catalog |-> catalog, concepts |-> concepts,
                   todo |-> Ordered(DOMAIN concepts), parsed |-> Absent, bytes |-> Absent,
                   raced |-> FALSE, quiet |-> TRUE, written |-> {}, conflicts |-> {}, orphaned |-> {}]
    /\ report' = NoReport
    /\ UNCHANGED <<catalog, files, indexes, log, owner>>

\* write: each document over whatever is there by then.
GenerateNext ==
    /\ command.kind = "generate" /\ command.at = "next" /\ command.todo # <<>>
    /\ LET path == Head(command.todo) IN
       files' = Put(files, path, command.concepts[path])
    /\ command' = [command EXCEPT !.todo = Tail(@)]
    /\ owner' = "others"
    /\ UNCHANGED <<catalog, indexes, log, report, used>>

\* sync: the document is parsed, then read once more, then replaced.
SyncParse ==
    /\ command.kind = "sync" /\ command.at = "next" /\ command.todo # <<>>
    /\ LET path == Head(command.todo) IN
       command' = [command EXCEPT
                     !.raced = FALSE,
                     !.at = IF path \in DOMAIN files THEN "bytes" ELSE "missing",
                     !.parsed = IF path \in DOMAIN files THEN files[path] ELSE Absent]
    /\ UNCHANGED <<catalog, files, indexes, log, report, owner, used>>

SyncBytes ==
    /\ command.kind = "sync" /\ command.at = "bytes"
    /\ LET path == Head(command.todo) IN
       command' = IF path \in DOMAIN files
                    THEN [command EXCEPT !.at = "replace", !.bytes = files[path]]
                    ELSE Idle                   \* FileNotFoundError
    /\ UNCHANGED <<catalog, files, indexes, log, report, owner, used>>

SyncReplace ==
    /\ command.kind = "sync" /\ command.at \in {"replace", "missing"}
    /\ LET path == Head(command.todo)
           generated == command.concepts[path]
           result == IF command.at = "missing" THEN [class |-> "written", doc |-> generated]
                     ELSE Synced(command.parsed, command.bytes, generated)
       IN  /\ files' = IF result.class = "written" THEN Put(files, path, result.doc) ELSE files
           /\ command' = [command EXCEPT
                            !.at = "next", !.todo = Tail(@), !.parsed = Absent, !.bytes = Absent,
                            !.written = IF result.class = "written" THEN @ \cup {path} ELSE @,
                            !.conflicts = IF result.class = "conflict" THEN @ \cup {path} ELSE @]
    /\ owner' = "others"
    /\ UNCHANGED <<catalog, indexes, log, report, used>>

\* What is bound to nothing is reported, before the indexes.
SyncOrphans ==
    /\ command.kind = "sync" /\ command.at = "next" /\ command.todo = <<>>
    /\ command' = [command EXCEPT
                     !.at = "indexes",
                     !.orphaned = Orphaned(files, command.concepts, DOMAIN command.concepts)]
    /\ UNCHANGED <<catalog, files, indexes, log, report, owner, used>>

Documented ==
    /\ command.kind \in {"generate", "sync"} /\ command.todo = <<>>
    /\ command.at = IF command.kind = "sync" THEN "indexes" ELSE "next"

\* The indexes one at a time; those that are no longer expected go last.
WriteIndex ==
    /\ Documented
    /\ LET expected == index_documents(command.concepts)
           wrong == {d \in DOMAIN expected : d \notin DOMAIN indexes \/ indexes[d] # expected[d]}
           surplus == DOMAIN indexes \ DOMAIN expected
           d == CHOOSE x \in wrong : TRUE
       IN  IF wrong # {} THEN indexes' = Put(indexes, d, expected[d])
           ELSE /\ surplus # {}
                /\ indexes' = Restrict(indexes, DOMAIN indexes \ {CHOOSE x \in surplus : TRUE})
    /\ owner' = "others"
    /\ UNCHANGED <<catalog, files, log, command, report, used>>

\* The log, and the report of a synchronisation.
Finish ==
    /\ Documented
    /\ indexes = index_documents(command.concepts)
    /\ log' = TRUE
    /\ report' = IF command.kind = "generate" THEN NoReport
                 ELSE [quiet |-> command.quiet, catalog |-> command.catalog,
                       conflicts |-> command.conflicts, written |-> command.written,
                       orphaned |-> command.orphaned]
    /\ command' = Idle
    /\ UNCHANGED <<catalog, files, indexes, owner, used>>

\* build: authored inputs are read and checked first, then all is put together
\* in a staging directory of its own, checked, and renamed to the destination.
StagedValid(staged, of) ==
    /\ validate_links(staged, staged) = {}
    /\ Loads(staged, index_documents(of.concepts), of.catalog, TRUE)

Stage(i) ==
    /\ command.kind = "build" /\ command.at = "next"
    /\ LET input == InputOf(i)
           staged == Composed(command.concepts, input.references, input.overlays)
       IN  command' = IF /\ EmptyDestination
                         /\ ReferenceIssues(input.references) = {}
                         /\ OverlayIssues(input.overlays, command.catalog) = {}
                         /\ StagedValid(staged, command)
                        THEN [command EXCEPT !.at = "staged", !.bytes = staged]
                        ELSE Idle
    /\ UNCHANGED <<catalog, files, indexes, log, report, owner, used>>

\* Mutant: the documents are copied, one by one.
PublishCopied ==
    /\ command.kind = "build" /\ command.at = "staged"
    /\ LET left == DOMAIN command.bytes \ DOMAIN files IN
       /\ files' = IF left = {} THEN files
                   ELSE LET path == CHOOSE p \in left : TRUE IN Put(files, path, command.bytes[path])
       /\ command' = IF left = {} THEN Idle ELSE command
       /\ indexes' = IF left = {} THEN index_documents(command.concepts) ELSE indexes
    /\ log' = TRUE
    /\ owner' = "build"
    /\ UNCHANGED <<catalog, report, used>>
\* The rename fails over a directory that is no longer empty.
Publish ==
    /\ command.kind = "build" /\ command.at = "staged"
    /\ IF EmptyDestination
         THEN /\ files' = command.bytes
              /\ indexes' = index_documents(command.concepts)
              /\ log' = TRUE
              /\ owner' = "build"
         ELSE UNCHANGED <<files, indexes, log, owner>>
    /\ command' = Idle
    /\ UNCHANGED <<catalog, report, used>>

Kill ==
    /\ command # Idle
    /\ Count("kills", MaxKills)
    /\ command' = Idle
    /\ UNCHANGED <<catalog, files, indexes, log, report, owner>>

-----------------------------------------------------------------------------
(* People.                                                                  *)

Noted(path) ==
    IF command = Idle THEN Idle
    ELSE [command EXCEPT !.quiet = FALSE,
                         !.raced = @ \/ (command.todo # <<>> /\ path = Head(command.todo))]

\* What they may make of the document at a path.
Drafts(path) ==
    IF path \in DOMAIN files
      THEN LET doc == files[path] IN
           {Upon(e, doc) : e \in Edits} \cup {Absent}
           \cup {[doc EXCEPT !.verified = [by |-> "human", definition |-> doc.definitions[n]]] :
                    n \in {1} \cap {Len(doc.definitions)}}
      ELSE Pages

Save(path, saved) ==
    /\ Count("saves", MaxSaves)
    /\ path \in DOMAIN files => saved # files[path]
    /\ files' = IF saved = Absent THEN Restrict(files, DOMAIN files \ {path})
                ELSE Put(files, path, saved)
    /\ command' = Noted(path)
    /\ report' = NoReport
    /\ owner' = "others"
    /\ UNCHANGED <<catalog, indexes, log>>

Change(c) ==
    /\ c # catalog
    /\ Count("changes", MaxChanges)
    /\ catalog' = c
    /\ UNCHANGED <<files, indexes, log, command, report, owner>>

Next ==
    \/ \E kind \in {"generate", "sync", "build"}, descriptive \in BOOLEAN : Begin(kind, descriptive)
    \/ GenerateNext
    \/ SyncParse
    \/ SyncBytes
    \/ SyncReplace
    \/ SyncOrphans
    \/ WriteIndex
    \/ Finish
    \/ \E i \in Inputs : Stage(i)
    \/ Publish
    \/ Kill
    \/ \E path \in Places : \E saved \in Drafts(path) : Save(path, saved)
    \/ \E c \in Catalogs : Change(c)

Spec == Init /\ [][Next]_vars

-----------------------------------------------------------------------------
(* Properties.                                                              *)

\* A synchronisation that nobody disturbs, and that reports neither a conflict
\* nor an orphan, leaves a bundle that is that of the catalog: after any
\* history of partial runs, saves, deletions and changes of the catalog, strict
\* loading finds nothing wrong with what was generated (bundle.py, sync;
\* validation.py, validate_generated_integrity).
SyncConverges ==
    report.quiet /\ report.conflicts \cup report.orphaned = {} =>
        validate_generated_integrity(files, indexes, report.catalog, TRUE) = {}

\* What people wrote outlives a synchronisation, and generated parts that they
\* changed are not overwritten, unless the save came after the document had
\* been read; no document is deleted (bundle.py, sync; "Synchronization must
\* never silently overwrite curated content").
Authored == {"status", "replaced_by", "stale_after", "sources", "curated", "links"}
CuratedKept ==
    [][SyncReplace =>
          /\ DOMAIN files \subseteq DOMAIN files'
          /\ \A path \in DOMAIN files :
                files'[path] # files[path] /\ ~command.raced =>
                    /\ Untouched(files[path])
                    /\ \A key \in Authored : files'[path][key] = files[path][key]]_vars

\* A document is shown as verified only with the definition that was verified,
\* or with one that was written by hand (document.py,
\* merge_generated_concept_text).
TrustFollows == \A path \in DOMAIN files : Trusted(files[path])

\* A destination that only builds have touched is empty or a whole bundle,
\* references and overlays included, without a dangling link, wherever the
\* build was killed (composition.py, build_bundle).
BuildWhole ==
    owner = "build" =>
        /\ validate_links(files, files) = {}
        /\ \E c \in Catalogs :
              \E descriptive \in BOOLEAN :
                  /\ DOMAIN concepts_from_layer(c, descriptive) \subseteq DOMAIN files
                  /\ Loads(files, indexes, c, TRUE)

\* Retrieved context: what is asked for, then linked concepts nearest first,
\* none twice, none farther than the depth and not above the budget; all that
\* is near enough unless the result says that something was left out
\* (bundle.py, context_for).
LinkedFrom(concepts, paths) == {x \in DOMAIN concepts : \E p \in paths : x \in concepts[p].links}
Near(concepts, paths, n) ==
    LET upTo[k \in 0 .. n] ==
            IF k = 0 THEN paths ELSE upTo[k - 1] \cup LinkedFrom(concepts, upTo[k - 1])
    IN  upTo[n]

ContextExact ==
    command = Idle /\ Parsed(files) # <<>> =>
        \A r \in Requests :
            LET concepts == Parsed(files)
                asked == RequestOf(r)
                context == context_for(concepts, asked.ids, asked.depth, asked.budget)
                required == {p \in DOMAIN concepts : concepts[p].selayer_id \in Range(asked.ids)}
                near(n) == Near(concepts, required, n)
            IN  context.code = "context" =>
                    /\ context.total = TotalChars(concepts, context.items)
                    /\ context.total <= asked.budget
                    /\ IsInjective(context.items)
                    /\ required \subseteq Range(context.items)
                    /\ Range(context.items) \subseteq near(asked.depth)
                    /\ ~context.omitted => Range(context.items) = near(asked.depth)
                    /\ \A i, j \in DOMAIN context.items : \A n \in 0..asked.depth :
                          i < j /\ context.items[j] \in near(n) => context.items[i] \in near(n)
=============================================================================
