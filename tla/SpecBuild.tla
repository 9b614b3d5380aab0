----------------------------- MODULE SpecBuild -----------------------------
(***************************************************************************)
(* What a spec.toml comes to: validation (spec/src/core/validate.rs), the  *)
(* canonical form that spec_hash digests (spec/src/saf/canonicalize.rs),   *)
(* and the layers, config and manifest that build makes of it              *)
(* (build/src/core).  A blob stands for its digest.                        *)
(*                                                                         *)
(* An Option is a set of at most one element.  A path is                   *)
(*   [text, sep]: its text with forward slashes, and how it separates;     *)
(* a media type [valid, words, suffix]; a value of [config] a scalar       *)
(*   [t, v], an array [t, items] of scalars or a table [t, map] of them.   *)
(* The disk maps paths to files [kind, bytes, below], of the kinds          *)
(*   file, unreadable (a regular file that does not open), dir,            *)
(*   closed (a directory that cannot be listed), fifo (and other special   *)
(*   files), dangling (stat fails).  A link is what it leads to.           *)
(* below is what a directory has below it, at any depth, in the order of   *)
(* the walk: [names, utf8, kind, bytes], the names from that directory     *)
(* down, and whether they are text.  A link that leads back up ends in one *)
(* on which stat fails.                                                    *)
(***************************************************************************)
EXTENDS Integers, Sequences, FiniteSets, SequencesExt

Or(option, default) == IF option = {} THEN default ELSE CHOOSE x \in option : TRUE

FirstOf(errors) == LET n == SelectInSeq(errors, LAMBDA e : e # "none")
                   IN IF n = 0 THEN "none" ELSE errors[n]
Require(ok, err) == IF ok THEN "none" ELSE err

-----------------------------------------------------------------------------
(* Validation.                                                             *)

\* parse_id, over classes of characters: "lower" (or a digit), "upper",
\* "punct" (one of . _ -) and "other".
IdError(id) ==
  Require(/\ id.colon /\ id.name # <<>> /\ id.tag # <<>>
          /\ id.name[1] = "lower" /\ ToSet(id.name) \subseteq {"lower", "punct"}
          /\ ToSet(id.tag) \subseteq {"lower", "upper", "punct"}, "MalformedId")

Kinds == {"oci_artifact", "vm_image", "raw_image"}

LayerCountOk(kind, n) == CASE kind = "oci_artifact" -> n >= 1
                           [] kind = "vm_image"     -> n = 3
                           [] kind = "raw_image"    -> n = 1

Exists(path, disk) == path \in DOMAIN disk /\ disk[path].kind # "dangling"

\* Kinds of files that stat calls regular; it opens none of them.
Regular == {"file", "unreadable"}

\* Mutant: any file that exists will do.
SourceErrorExists(layer, disk) ==
  IF (layer.source = {}) = (layer.files = {}) THEN "LayerSourceConflict"
  ELSE IF \E p \in layer.source : ~Exists(p, disk) THEN "UnreadableSource"
  ELSE IF layer.files = {<<>>} THEN "EmptyFilesBlock"
  ELSE Require(\A fs \in layer.files : \A f \in ToSet(fs) : Exists(f.source, disk), "UnreadableSource")

\* Exactly one of `source', a regular file, and `files', which all exist.
SourceError(layer, disk) ==
  IF (layer.source = {}) = (layer.files = {}) THEN "LayerSourceConflict"
  ELSE IF \E p \in layer.source : ~(Exists(p, disk) /\ disk[p].kind \in Regular) THEN "UnreadableSource"
  ELSE IF layer.files = {<<>>} THEN "EmptyFilesBlock"
  ELSE Require(\A fs \in layer.files : \A f \in ToSet(fs) : Exists(f.source, disk), "UnreadableSource")

LayerError(layer, disk) ==
  FirstOf(<<SourceError(layer, disk),
            Require(layer.mediaType.valid, "MalformedMediaType"),
            Require(layer.compression \subseteq {"none", "gzip", "zstd"}, "UnknownCompression")>>)

OrderError(kind, layers) ==
  Require(kind = "vm_image" =>
            \A k \in 1..3 : <<"kernel", "initrd", "rootfs">>[k] \in layers[k].mediaType.words,
          "WrongLayerOrder")

AnnotationError(a) ==
  Require(a.created # {"garbage"} /\ a.version # {"blank"}, "InvalidReservedAnnotation")

AttestationError(a) ==
  FirstOf(<<Require(a.level \subseteq 0..4, "SlsaLevelOutOfRange"),
            Require(a.format \subseteq {"cyclonedx", "spdx", "off"}, "UnknownSbomFormat"),
            Require(a.scope \subseteq {"layers", "sources", "both"}, "UnknownSbomScope"),
            Require(a.sign \subseteq {"cosign-keyless", "cosign-key", "off"}, "UnknownSignKind"),
            Require(a.sign = {"cosign-key"} => a.identity # {}, "MissingSigningKeyPath")>>)

\* parse_and_validate: the first error, or the spec with its defaults.
SpecErrorOf(raw, disk) ==
  FirstOf(<<Require(raw.toml = "ok", "Toml"),
            Require(raw.version = "0", "UnsupportedSpecVersion"),
            IdError(raw.id),
            Require(raw.kind \in Kinds, "UnknownKind"),
            Require(raw.kind \in Kinds => LayerCountOk(raw.kind, Len(raw.layers)), "WrongLayerCount")>>
          \o [k \in DOMAIN raw.layers |-> LayerError(raw.layers[k], disk)]
          \o <<IF Len(raw.layers) = 3 THEN OrderError(raw.kind, raw.layers) ELSE "none",
               AnnotationError(raw.annotations),
               AttestationError(raw.attestation)>>)

\* A change of the scalars of a value of [config], at any depth of the model.
OverScalars(v, change(_)) ==
  CASE v.t = "array" -> [v EXCEPT !.items = [k \in DOMAIN @ |-> change(@[k])]]
    [] v.t = "table" -> [v EXCEPT !.map = [k \in DOMAIN @ |-> change(@[k])]]
    [] OTHER         -> change(v)

\* toml_to_json: a float that is no number becomes null.
FromToml(v) == IF v.t = "float" /\ v.v \in {"nan", "inf"} THEN [t |-> "null", v |-> "null"] ELSE v

ValidLayer(layer) ==
  [source |-> layer.source, files |-> Or(layer.files, <<>>), mediaType |-> layer.mediaType,
   compression |-> Or(layer.compression, layer.mediaType.suffix)]

Validated(raw) ==
  [id |-> raw.id, kind |-> raw.kind, description |-> raw.description,
   os |-> raw.os, arch |-> raw.arch,
   layers |-> [k \in DOMAIN raw.layers |-> ValidLayer(raw.layers[k])],
   config |-> [key \in DOMAIN raw.config |-> OverScalars(raw.config[key], FromToml)],
   annotations |-> raw.annotations,
   level |-> Or(raw.attestation.level, 2), builder |-> raw.attestation.builder,
   format |-> Or(raw.attestation.format, "cyclonedx"), scope |-> Or(raw.attestation.scope, "layers"),
   sign |-> Or(raw.attestation.sign, "cosign-keyless"), identity |-> raw.attestation.identity]

-----------------------------------------------------------------------------
(* The canonical form.                                                     *)

\* RFC 8785 writes a float with an integral value as an integer.
Integral(v) == v.t = "float" /\ v.v # "1.5"
Jcs(v) == IF Integral(v) THEN [v EXCEPT !.t = "int"] ELSE v

\* normalise_path: every backslash counts as a separator, on every host.
Shown(path) == path.text

\* Mutant: the compression is left out.
CanonicalLayerUncompressed(l) ==
  [mediaType |-> l.mediaType, source |-> {Shown(p) : p \in l.source},
   files |-> [k \in DOMAIN l.files |->
                [source |-> Shown(l.files[k].source), dest |-> l.files[k].dest, mode |-> l.files[k].mode]]]

CanonicalLayer(l) ==
  [mediaType |-> l.mediaType, compression |-> l.compression, source |-> {Shown(p) : p \in l.source},
   files |-> [k \in DOMAIN l.files |->
                [source |-> Shown(l.files[k].source), dest |-> l.files[k].dest, mode |-> l.files[k].mode]]]

\* spec_to_json: what is absent is omitted, an empty [config] as well.
Canonical(spec) ==
  [spec EXCEPT !.layers = [k \in DOMAIN @ |-> CanonicalLayer(@[k])],
               !.config = [key \in DOMAIN @ |-> OverScalars(@[key], Jcs)]]

-----------------------------------------------------------------------------
(* The tar of a layer made of files.                                       *)

\* normalise_dest, and the trailing slash: a destination is the sequence of its
\* names.  An entry is [path, kind, mode, bytes].
Walk(entry, disk) ==
  LET file == disk[entry.source]
      at(path, node) == [path |-> path, kind |-> node.kind, mode |-> entry.mode, bytes |-> node.bytes]
  IN <<at(entry.dest.names, file)>>
       \o [k \in DOMAIN file.below |-> at(entry.dest.names \o file.below[k].names, file.below[k])]

\* flatten_entry ends with an error at a file on which stat fails, a special one, a
\* directory that cannot be listed and a name that is not text, at any depth.
Walkable == Regular \cup {"dir"}
CanWalk(entry, disk) ==
  LET file == disk[entry.source]
  IN /\ file.kind \in Walkable
     /\ \A node \in ToSet(file.below) : node.utf8 /\ node.kind \in Walkable

Walked(files, disk) == UNION {ToSet(Walk(f, disk)) : f \in ToSet(files)}

\* Mutant: entries in the order of the spec.
TarAsAuthored(files, disk) == FlattenSeq([k \in DOMAIN files |-> Walk(files[k], disk)])

\* The order of the texts, for names without a character below the slash.
PathBefore(p, q) ==
  \/ IsPrefix(p, q) /\ p # q
  \/ \E k \in 1..Len(p) : k <= Len(q) /\ SubSeq(p, 1, k - 1) = SubSeq(q, 1, k - 1) /\ p[k] < q[k]

\* Of the entries that claim a path the last one walked stays.
LastAt(files, disk, path) ==
  LET k == SelectLastInSeq(files, LAMBDA f : \E e \in ToSet(Walk(f, disk)) : e.path = path)
      walk == Walk(files[k], disk)
  IN walk[SelectLastInSeq(walk, LAMBDA e : e.path = path)]

\* build_deterministic_tar: one entry for each path, in the order of the paths.
InPathOrder(entries) == SetToSortSeq(entries, LAMBDA e, f : PathBefore(e.path, f.path))
TarEntries(files, disk) == {LastAt(files, disk, e.path) : e \in Walked(files, disk)}
Tar(files, disk) == InPathOrder(TarEntries(files, disk))

\* An error of the walk; or of the writer, which opens the files that stay, and takes
\* no path without a name or with `..' (the name 0) in it.
TarError(files, disk) ==
  Require(/\ \A f \in ToSet(files) : CanWalk(f, disk)
          /\ \A e \in TarEntries(files, disk) :
               e.kind # "unreadable" /\ e.path # <<>> /\ 0 \notin ToSet(e.path),
          "TarBuild")

-----------------------------------------------------------------------------
(* The image.                                                              *)

Strings(items) == SelectSeq(items, LAMBDA i : i.t = "string")

\* string_array, and the string entries of a table: what is not text is dropped.
StringArray(v) == IF v.t = "array" THEN Strings(v.items) ELSE <<>>
StringTable(v) == IF v.t # "table" THEN {}
                  ELSE {<<k, v.map[k]>> : k \in {j \in DOMAIN v.map : v.map[j].t = "string"}}

Lifted == {"entrypoint", "cmd", "env", "labels"}

\* build_image_config.
ImageConfig(spec) ==
  LET at(key) == IF key \in DOMAIN spec.config THEN spec.config[key] ELSE [t |-> "null", v |-> "null"]
  IN [os |-> Or(spec.os, "unknown"), arch |-> Or(spec.arch, "unknown"),
      runtime |-> [entrypoint |-> StringArray(at("entrypoint")), cmd |-> StringArray(at("cmd")),
                   env |-> StringTable(at("env")), labels |-> StringTable(at("labels"))],
      extra |-> [key \in DOMAIN spec.config \ Lifted |-> spec.config[key]]]

\* assemble_layer: the bytes of the blob, or the tar, through the compression.
LayerBlob(l, disk) ==
  [compression |-> l.compression,
   content |-> IF l.source = {} THEN Tar(l.files, disk)
               ELSE <<[bytes |-> disk[Or(l.source, "none")].bytes]>>]

\* A source is opened before anything is written.
LayerBlobError(l, disk) ==
  LET kind == disk[Or(l.source, "none")].kind
  IN IF l.source = {} THEN TarError(l.files, disk)
     ELSE IF kind = "unreadable" THEN "Io" ELSE Require(kind = "file", "LayerWrite")

\* build: the error of the first layer that fails, or the image.
BuildErrorOf(spec, disk) ==
  FirstOf([k \in DOMAIN spec.layers |-> LayerBlobError(spec.layers[k], disk)]
          \o <<Require(LayerCountOk(spec.kind, Len(spec.layers)), "Spec")>>)

Image(spec, disk) ==
  [config |-> ImageConfig(spec),
   layers |-> [k \in DOMAIN spec.layers |->
                 [mediaType |-> spec.layers[k].mediaType, blob |-> LayerBlob(spec.layers[k], disk)]],
   annotations |-> spec.annotations]

\* What comes of a spec file on a disk: an error, or an image.
Outcome(raw, disk) ==
  IF SpecErrorOf(raw, disk) # "none" THEN [err |-> SpecErrorOf(raw, disk), image |-> {}]
  ELSE LET spec == Validated(raw)
           err  == BuildErrorOf(spec, disk)
       IN [err |-> err, image |-> IF err = "none" THEN {Image(spec, disk)} ELSE {}]

-----------------------------------------------------------------------------
(* Correctness, for spec files on one disk and what came of the first.      *)

\* The lists of files, and the paths, that a spec names.
FileListsOf(raw) == UNION {raw.layers[k].files : k \in DOMAIN raw.layers}
PathsOf(raw) == (UNION {raw.layers[k].source : k \in DOMAIN raw.layers})
                  \cup {f.source : f \in UNION {ToSet(fs) : fs \in FileListsOf(raw)}}

IntegralFloats(v) == \/ Integral(v)
                     \/ (v.t = "array" /\ \E i \in ToSet(v.items) : Integral(i))
                     \/ (v.t = "table" /\ \E k \in DOMAIN v.map : Integral(v.map[k]))

\* What the canonical form does not keep: a number of [config] that is integral, but
\* written as a float, and a backslash in a path.
Unambiguous(raw) ==
  /\ \A p \in PathsOf(raw) : p.sep = "/"
  /\ \A key \in DOMAIN raw.config : ~IntegralFloats(Validated(raw).config[key])

SameHash(a, b, disk) ==
  /\ SpecErrorOf(a, disk) = "none" /\ SpecErrorOf(b, disk) = "none"
  /\ Canonical(Validated(a)) = Canonical(Validated(b))

\* The spec hash, which a provenance statement gives as the input of the build,
\* pins its output: two spec files of one hash, on one disk, build one image,
\* whatever each of them leaves to the defaults.
HashPinsBuild(a, b, disk, result) ==
  SameHash(a, b, disk) /\ Unambiguous(a) /\ Unambiguous(b) => result = Outcome(b, disk)

\* Two entries claim one path of the tar, with different content.
Clash(files, disk) == \E e, f \in Walked(files, disk) : e.path = f.path /\ e # f

Rearranged(files) ==
  {[k \in DOMAIN files |-> files[p[k]]] :
     p \in {q \in [DOMAIN files -> DOMAIN files] : ToSet(q) = DOMAIN files}}

\* "Spec authors can rearrange [[layers.files]] blocks freely": the same entries
\* in any order give the same layer, unless two of them claim one path.
TarIgnoresOrder(raw, disk, result) ==
  result.err = "none" =>
    \A fs \in FileListsOf(raw) :
      ~Clash(fs, disk) => \A other \in Rearranged(fs) : Tar(other, disk) = Tar(fs, disk)

\* Something in a list of `files', or below it, is of none of these kinds or has a
\* name that is not text, or a destination is one that no tar can hold.
Blocked(files, disk, kinds) ==
  \E f \in ToSet(files) :
    \/ disk[f.source].kind \notin kinds
    \/ \E node \in ToSet(disk[f.source].below) : ~node.utf8 \/ node.kind \notin kinds
    \/ f.dest.names = <<>> \/ 0 \in ToSet(f.dest.names)

\* "There is no path that produces a Spec and later raises a validation error
\* during build".  Validation opens no file and looks into no directory, so what
\* holds, with the disk as it was, is: a valid spec fails to build only because of a
\* source that does not open, or of something that blocks a tar; and one that builds
\* has left nothing out that it could not read, unless another entry of `files'
\* claims the path of it.
ValidBuilds(raw, disk, result) ==
  LET sources == UNION {raw.layers[k].source : k \in DOMAIN raw.layers}
  IN SpecErrorOf(raw, disk) = "none" =>
       \/ /\ result.err = "Io"
          /\ \E p \in sources : disk[p].kind = "unreadable"
       \/ /\ result.err = "TarBuild"
          /\ \E fs \in FileListsOf(raw) : Blocked(fs, disk, {"file", "dir"})
       \/ /\ result.err = "none"
          /\ \A p \in sources : disk[p].kind = "file"
          /\ \A fs \in FileListsOf(raw) :
               /\ ~Blocked(fs, disk, Walkable)
               /\ Blocked(fs, disk, {"file", "dir"}) => Clash(fs, disk)
=============================================================================
