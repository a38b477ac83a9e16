--------------------------- MODULE CoursePackage ---------------------------
(***************************************************************************)
(* A course on its way to the catalogue: the rules of a package and the    *)
(* zip around it (packages/course-format), the author's tool that packs a  *)
(* folder and publishes a zip (tools/tuhoc-cli), and the check that lets a *)
(* pull request into the registry of courses (tools/registry).             *)
(*                                                                         *)
(* A path is the sequence of its segments; of a name that ends in a slash  *)
(* the last one is "/". Of a file the rules see its size, the codes its    *)
(* own text would be refused for, the widgets it refers to and, in         *)
(* manifest.json, the manifest.                                            *)
(***************************************************************************)
EXTENDS Naturals, Sequences, FiniteSets, Functions

CONSTANTS
    Folders,        \* what an author's folder may hold
    Archives,       \* zips of other tools
    Slugs, Versions,
    Hidden,         \* names that start with a dot
    Scripts,        \* names JS_FILE_RE matches
    BadWidgetNames, \* names WIDGET_NAME_RE or its length refuses
    Spelling,       \* duplicateKey, where it is not the name itself
    MaxBytes,       \* MAX_UNCOMPRESSED_BYTES
    Unset,
    MaxCommands     \* bound: commands run

UnsafeArchiveCodes == {"PATH_ESCAPE", "DUPLICATE_ENTRY", "TOO_LARGE", "MALFORMED"}

IsDirectory(path) == path[Len(path)] = "/"

(* A file: its text was measured and, if it is a manifest, parsed. *)
IsFile(file) ==
    /\ file.size \in Nat
    /\ file.manifest # Unset =>
          /\ file.manifest.chapters \in Seq(Range(file.manifest.chapters))
          /\ file.manifest.flaws = {} => file.manifest.id \in Slugs

(* The files of a folder, by their paths. *)
IsFolder(entries) ==
    /\ IsFiniteSet(DOMAIN entries) /\ entries = [p \in DOMAIN entries |-> entries[p]]
    /\ \A p \in DOMAIN entries : ~IsDirectory(p) /\ IsFile(entries[p])

(* A zip: whatever it holds, it holds entry after entry. *)
IsArchive(archive) ==
    /\ archive.entries \in Seq(Range(archive.entries))
    /\ archive.index \in Seq(Range(archive.index))
    /\ \A i \in DOMAIN archive.entries : IsFile(archive.entries[i].content)

ASSUME PackageAssumption == MaxBytes \in Nat /\ MaxCommands \in Nat
ASSUME UnsetAssumption == Unset \notin Slugs \cup UnsafeArchiveCodes
ASSUME FilesAssumption == (\A f \in Folders : IsFolder(f)) /\ (\A a \in Archives : IsArchive(a))

VARIABLES
    folder,         \* the folder the author works on: path to entry
    zip,            \* the .zip the author holds
    packed,         \* history: the files zip was packed from
    catalogue,      \* by slug, the archive the server published last
    registry,       \* the courses merged, each with its package directories
    commands

packageVars == <<folder, zip, packed, catalogue, registry, commands>>

ManifestPath == <<"manifest.json">>
Out == <<"out.zip">>
Proto == <<"__proto__">>
IndexOf(name) == <<"widgets", name, "index.html">>

InWidgetDir(path) == Len(path) >= 3 /\ path[1] = "widgets"
IsWidgetIndex(path) == InWidgetDir(path) /\ path = IndexOf(path[2])
EscapesPackage(path) == path = <<>> \/ ".." \in Range(path)

(* Map.set, mkdir and writeFile: one more, or another, at its path. *)
Put(files, path, content) ==
    [p \in DOMAIN files \cup {path} |-> IF p = path THEN content ELSE files[p]]

(* The order the files are taken in, and their sizes added up in it. *)
Order(files) ==
    CHOOSE order \in Injection(1 .. Cardinality(DOMAIN files), DOMAIN files) : TRUE

Totals(files) ==
    LET order == Order(files)
        total[n \in 0 .. Cardinality(DOMAIN files)] ==
            IF n = 0 THEN 0 ELSE total[n - 1] + files[order[n]].size
    IN  total

Size(files) == Totals(files)[Cardinality(DOMAIN files)]

-----------------------------------------------------------------------------
(* The rules: findings are pairs of a code and where it bites.             *)

MarkupFlaws ==
    {"SCRIPT_TAG", "EMBEDDED_FRAME", "FORM_TAG", "EVENT_HANDLER_ATTR",
     "JAVASCRIPT_URL", "TAG_ATTR_FLOOD"}
WidgetFlaws ==
    {"WIDGET_TOO_LARGE", "WIDGET_LINE_TOO_LONG", "WIDGET_FORBIDDEN_API",
     "WIDGET_EXTERNAL_URL"}

(* scanHtmlText: every entry but the manifest and the widgets' documents. *)
ScanContent(files) ==
    {<<code, p>> : p \in {q \in DOMAIN files : q # ManifestPath /\ ~IsWidgetIndex(q)},
                   code \in MarkupFlaws} \cap
    UNION {{<<code, p>> : code \in files[p].flaws} : p \in DOMAIN files}

(* parseManifest refuses for the first of what validatePackage collects. *)
ManifestFindings(manifest) == {<<code, ManifestPath>> : code \in manifest.flaws}

(* Two chapters of one id, a file that leaves the package or is not in it. *)
ChapterFindings(chapters, files) ==
    {<<"DUPLICATE_CHAPTER_ID", i>> : i \in
        {j \in DOMAIN chapters : \E k \in 1 .. j - 1 : chapters[k].id = chapters[j].id}}
    \cup {<<"PATH_ESCAPE", i>> : i \in {j \in DOMAIN chapters : EscapesPackage(chapters[j].file)}}
    \cup {<<"CHAPTER_FILE_MISSING", i>> : i \in
        {j \in DOMAIN chapters : chapters[j].file \notin DOMAIN files}}

(* groupWidgetFiles: by directory, its document or not, and the rest. *)
WidgetNames(files) == {p[2] : p \in {q \in DOMAIN files : InWidgetDir(q)}}

IsRealWidget(files, name) == IndexOf(name) \in DOMAIN files

WidgetFindings(files) ==
    LET names == WidgetNames(files)
        documents == {p \in DOMAIN files : IsWidgetIndex(p)}
    IN  {<<"WIDGET_BAD_NAME", n>> : n \in names \cap BadWidgetNames}
        \cup {<<"WIDGET_EXTRA_FILE", p>> : p \in
                {q \in DOMAIN files : InWidgetDir(q) /\ ~IsWidgetIndex(q)}}
        \cup UNION {{<<code, p>> : code \in files[p].flaws \cap WidgetFlaws} : p \in documents}

(* What the chapters refer to, and what is there for them. *)
WidgetUseFindings(chapters, files) ==
    LET referring == {c.file : c \in Range(chapters)} \cap DOMAIN files
        referenced == UNION {files[p].refs : p \in referring}
    IN  {<<"WIDGET_ORPHAN", n>> : n \in
                {m \in WidgetNames(files) : IsRealWidget(files, m)} \ referenced}
        \cup UNION {{<<"WIDGET_MISSING", p>> : n \in {m \in files[p].refs : ~IsRealWidget(files, m)}} :
                        p \in referring}

ValidatePackage(files) ==
    IF files = <<>> THEN {<<"EMPTY_PACKAGE", ".">>}
    ELSE LET tooLarge == IF Size(files) > MaxBytes THEN {<<"TOO_LARGE", ".">>} ELSE {}
             first == tooLarge \cup {<<"PATH_ESCAPE", p>> : p \in {q \in DOMAIN files : EscapesPackage(q)}}
         IN  IF ManifestPath \notin DOMAIN files
             THEN first \cup {<<"MANIFEST_MISSING", ManifestPath>>}
             ELSE IF files[ManifestPath].manifest = Unset
             THEN first \cup {<<"MANIFEST_PARSE", ManifestPath>>}
             ELSE LET manifest == files[ManifestPath].manifest IN
                  UNION {first, ManifestFindings(manifest),
                         ChapterFindings(manifest.chapters, files),
                         {<<"JS_FILE_IN_PACKAGE", p>> : p \in
                             {q \in DOMAIN files : ~InWidgetDir(q) /\ q[Len(q)] \in Scripts}},
                         IF tooLarge = {} THEN ScanContent(files) ELSE {},
                         WidgetFindings(files), WidgetUseFindings(manifest.chapters, files)}

-----------------------------------------------------------------------------
(* The zip: entries as their local headers tell them, in order, each with  *)
(* the size it claims (Unset in a stream), and the names its index lists.   *)

DuplicateKey(path) ==
    [i \in DOMAIN path |-> IF path[i] \in DOMAIN Spelling THEN Spelling[path[i]] ELSE path[i]]

(* A directory marker is empty as well as named like one. *)
IsMarker(entry) == IsDirectory(entry.name) /\ entry.content.size = 0

PackZip(files) ==
    LET names == Order(files)
    IN  [entries |-> [i \in DOMAIN names |->
                        [name |-> names[i], claim |-> files[names[i]].size, sound |-> TRUE,
                         content |-> files[names[i]]]],
         index |-> names]

(* One entry, as reader.onfile and its ondata take it. *)
ReadEntry(indexed, so, entry) ==
    LET fail(code) == [so EXCEPT !.failure = code]
        total == so.total + entry.content.size
    IN  CASE so.failure # Unset -> so
          [] so.failure = Unset /\ EscapesPackage(entry.name) -> fail("PATH_ESCAPE")
          [] OTHER ->
             IF DuplicateKey(entry.name) \in so.announced THEN fail("DUPLICATE_ENTRY")
             ELSE IF entry.name \notin indexed THEN fail("MALFORMED")
             ELSE IF entry.claim # Unset /\ entry.claim > MaxBytes - so.total THEN fail("TOO_LARGE")
             ELSE IF ~entry.sound THEN fail("MALFORMED")
             ELSE IF total > MaxBytes THEN fail("TOO_LARGE")
             ELSE [announced |-> so.announced \cup {DuplicateKey(entry.name)},
                   total |-> total, failure |-> Unset,
                   dropped |-> so.dropped + (IF IsMarker(entry) THEN 1 ELSE 0),
                   files |-> IF IsMarker(entry) THEN so.files
                             ELSE Put(so.files, entry.name, entry.content)]

NothingRead ==
    [announced |-> {}, total |-> 0, failure |-> Unset, dropped |-> 0, files |-> <<>>]

(* What has been read after each of the entries. *)
Readings(archive) ==
    LET so[n \in 0 .. Len(archive.entries)] ==
            IF n = 0 THEN NothingRead
            ELSE ReadEntry(Range(archive.index), so[n - 1], archive.entries[n])
    IN  so

ReadEntries(archive) == Readings(archive)[Len(archive.entries)]

(* Mutant: what was read is not counted against the index. *)
UnpackUncounted(archive) ==
    LET read == ReadEntries(archive)
    IN  [failure |-> read.failure, files |-> read.files]

UnpackZip(archive) ==
    LET read == ReadEntries(archive)
    IN  [failure |-> IF read.failure # Unset THEN read.failure
                     ELSE IF Cardinality(DOMAIN read.files) + read.dropped # Len(archive.index)
                     THEN "MALFORMED" ELSE Unset,
         files |-> read.files]

-----------------------------------------------------------------------------
(* The author's tool and the server. *)

(* walk: hidden names are left out, and so is the file about to be written. *)
Walked(entries, excluded) ==
    LET kept == {p \in DOMAIN entries : Range(p) \cap Hidden = {} /\ p # excluded}
    IN  [p \in kept |-> entries[p]]

Unpackable(files) == \E p \in DOMAIN files : files[p].kind # "file"

(* Mutant: the zip of the last pack is packed as well. *)
FilesWithOutput(entries) == Walked(entries, Unset)

FilesOf(entries) == Walked(entries, Out)

Accepts(files) == ~Unpackable(files) /\ ValidatePackage(files) = {}

ZipFile == [kind |-> "file", size |-> 1, flaws |-> {}, refs |-> {}, manifest |-> Unset]

Command == commands < MaxCommands /\ commands' = commands + 1

Edit(entries) ==
    /\ Command
    /\ folder' = IF Out \in DOMAIN folder THEN Put(entries, Out, folder[Out]) ELSE entries
    /\ UNCHANGED <<zip, packed, catalogue, registry>>

Pack ==
    /\ Command
    /\ Accepts(FilesOf(folder)) /\ Proto \notin DOMAIN FilesOf(folder)
    /\ zip' = PackZip(FilesOf(folder)) /\ packed' = FilesOf(folder)
    /\ folder' = Put(folder, Out, ZipFile)
    /\ UNCHANGED <<catalogue, registry>>

(* Someone zips a folder with another tool. *)
ZipElsewhere(archive) ==
    /\ Command
    /\ zip' = archive /\ packed' = Unset
    /\ UNCHANGED <<folder, catalogue, registry>>

(* What publish finds in the zip before it asks the server. *)
Slug(archive) ==
    LET read == UnpackZip(archive)
        manifest == IF read.failure = Unset /\ ManifestPath \in DOMAIN read.files
                    THEN read.files[ManifestPath].manifest ELSE Unset
    IN  IF manifest = Unset \/ manifest.flaws # {} THEN Unset ELSE manifest.id

(* The server reads the archive by its index, without what it cannot open, *)
(* and applies the same rules.                                             *)
ServerFiles(archive) ==
    LET entriesOf(name) == {e \in Range(archive.entries) : e.name = name}
        names == {n \in Range(archive.index) : ~IsDirectory(n) /\ entriesOf(n) # {}}
    IN  [n \in names |-> (CHOOSE e \in entriesOf(n) : TRUE).content]

(* publish, whether its answer comes back or not. *)
PublishZip ==
    /\ Command
    /\ zip # Unset /\ Slug(zip) # Unset
    /\ Accepts(ServerFiles(zip))
    /\ catalogue' = [catalogue EXCEPT ![Slug(zip)] = zip]
    /\ UNCHANGED <<folder, zip, packed, registry>>

-----------------------------------------------------------------------------
(* The registry: a course directory holds one package at ".", or one in    *)
(* each of its version directories.                                        *)

(* inspectCourse: every package directory is accepted or has a finding. *)
PackageDirs(course) ==
    IF "." \in DOMAIN course /\ ManifestPath \in DOMAIN course["."] THEN {"."}
    ELSE {rel \in DOMAIN course \ {"."} : ManifestPath \in DOMAIN course[rel]}

InspectCourse(id, course) ==
    /\ PackageDirs(course) # {}
    /\ \A rel \in PackageDirs(course) :
          LET files == Walked(course[rel], Unset) IN
          /\ Accepts(files)
          /\ files[ManifestPath].manifest.id = id
          /\ rel \in {".", files[ManifestPath].manifest.version}

(* A pull request that changes some course directories is let in. *)
Merge(changed) ==
    /\ Command
    /\ \A id \in DOMAIN changed : InspectCourse(id, changed[id])
    /\ registry' = [id \in DOMAIN changed \cup DOMAIN registry |->
                       IF id \in DOMAIN changed THEN changed[id] ELSE registry[id]]
    /\ UNCHANGED <<folder, zip, packed, catalogue>>

InitPackage ==
    /\ folder \in Folders
    /\ zip = Unset /\ packed = Unset /\ commands = 0
    /\ catalogue = [s \in Slugs |-> Unset]
    /\ registry = <<>>

PackageNext ==
    \/ \E entries \in Folders : Edit(entries)
    \/ Pack \/ PublishZip
    \/ \E archive \in Archives : ZipElsewhere(archive)
    \/ \E id \in Slugs, rel \in Versions \cup {"."} : Merge([s \in {id} |-> [r \in {rel} |-> folder]])

PackageSpec == InitPackage /\ [][PackageNext]_packageVars

-----------------------------------------------------------------------------
NoFoldClash(files) ==
    \A p, q \in DOMAIN files : DuplicateKey(p) = DuplicateKey(q) => p = q

(* What a reader of a package needs: every chapter is found by its id and  *)
(* has its page, every widget a chapter shows is there, and nothing lies   *)
(* under widgets/ that no chapter shows.                                   *)
Readable(files, slug) ==
    LET manifest == files[ManifestPath].manifest
        pages == {c.file : c \in Range(manifest.chapters)}
        shown == UNION {files[p].refs : p \in pages}
    IN  /\ manifest.id = slug
        /\ \A i, j \in DOMAIN manifest.chapters :
              manifest.chapters[i].id = manifest.chapters[j].id => i = j
        /\ pages \subseteq DOMAIN files
        /\ {p \in DOMAIN files : InWidgetDir(p)} = {IndexOf(n) : n \in shown}
        /\ Size(files) <= MaxBytes

(* Whatever zip came in, by whatever tool: what is published can be read   *)
(* from end to end, and those who follow the zip's index, as the server    *)
(* does, and those who follow its entries, as publish does, see the same   *)
(* files in it, but for a file that is named like a directory: unpackZip   *)
(* keeps it and the server leaves it out.                                  *)
IsPublished(archive, slug) ==
    LET read == UnpackZip(archive)
        served == ServerFiles(archive)
        seen == {p \in DOMAIN read.files : ~IsDirectory(p)}
    IN  /\ read.failure = Unset /\ Readable(served, slug)
        /\ served = [p \in seen |-> read.files[p]]
        /\ Cardinality(Range(archive.index)) = Len(archive.index)
        /\ NoFoldClash(read.files)

PublishedIsReadable ==
    \A s \in Slugs : catalogue[s] # Unset => IsPublished(catalogue[s], s)

(* A zip that pack wrote holds the author's files, never an earlier zip of *)
(* them, and publish takes it and the server accepts it, provided no two   *)
(* names differ in case or normal form only (pack lets those through); and *)
(* what the registry let in would be packed under the name it lies at.     *)
PackedIsPublishable ==
    /\ packed # Unset =>
          /\ Out \notin DOMAIN packed
          /\ NoFoldClash(packed) =>
                /\ UnpackZip(zip) = [failure |-> Unset, files |-> packed]
                /\ Slug(zip) # Unset /\ Accepts(ServerFiles(zip))
    /\ \A id \in DOMAIN registry : \A rel \in PackageDirs(registry[id]) :
          LET files == Walked(registry[id][rel], Unset)
          IN  NoFoldClash(files) => Accepts(files) /\ Slug(PackZip(files)) = id

(* Both sides of the zip: what was packed and what was published.          *)
PackagesHold == PublishedIsReadable /\ PackedIsPublishable

=============================================================================
