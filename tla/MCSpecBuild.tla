---------------------------- MODULE MCSpecBuild ----------------------------
(***************************************************************************)
(* Pairs of specs that differ from a base spec in one thing each, over one *)
(* small disk; what validation and build make of them.                     *)
(***************************************************************************)
EXTENDS SpecBuild

Path(text) == [text |-> text, sep |-> "/"]
Back(text) == [text |-> text, sep |-> "\\"]

File(bytes) == [kind |-> "file", bytes |-> bytes, below |-> <<>>]
Other(kind) == [kind |-> kind, bytes |-> "", below |-> <<>>]
Dir(below)  == [kind |-> "dir", bytes |-> "", below |-> below]
Below(names, kind, bytes) == [names |-> names, utf8 |-> TRUE, kind |-> kind, bytes |-> bytes]

\* Directories of one thing that stops the walk, or the writer, two levels down.
Traps == {"unreadable", "closed", "fifo", "dangling"}
Trap(kind) == Dir(<<Below(<<2>>, "dir", ""), Below(<<2, 4>>, kind, "")>>)
NotText    == Dir(<<[Below(<<2>>, "file", "d2") EXCEPT !.utf8 = FALSE]>>)

\* On a Unix host a backslash is part of the name of a file.
Sources == {Path("in/x"), Back("in/x"), Path("y"), Path("d")}
Trapped(kind) == Path("in/" \o kind)
Others == {Path(kind) : kind \in Traps} \cup {Trapped(kind) : kind \in Traps} \cup {Path("latin-1")}
MCDisk ==
  [p \in Sources \cup Others |->
     CASE p = Path("in/x") -> File("x")
       [] p = Back("in/x") -> File("x of another name")
       [] p = Path("y")    -> File("y")
       [] p = Path("d")    -> Dir(<<Below(<<2>>, "dir", ""), Below(<<2, 4>>, "file", "d24")>>)
       [] p = Path("latin-1") -> NotText
       [] p.text \in Traps -> Other(p.text)
       [] OTHER            -> Trap(CHOOSE kind \in Traps : p = Trapped(kind))]

Dest(text, names) == [text |-> text, names |-> names]
Entry(source, dest) == [source |-> source, dest |-> dest, mode |-> 420]

MediaType(words, suffix) == [valid |-> TRUE, words |-> words, suffix |-> suffix]
Tarred == MediaType({"tar"}, "none")
Layer(source, files) == [source |-> source, files |-> files, mediaType |-> Tarred, compression |-> {}]
Blob == Layer({Path("in/x")}, {})

\* `/a', its synonym `a', a directory below which `/a/2' clashes with a child,
\* one that leaves the root and one that names nothing.
Dests == {Dest("/a", <<1>>), Dest("a", <<1>>), Dest("/a/2", <<1, 2>>), Dest("/a/..", <<1, 0>>),
          Dest("/", <<>>)}

FileLists ==
  {<<>>} \cup {<<Entry(p, d)>> : p \in Sources, d \in Dests}
    \cup {<<Entry(p, Dest("/a", <<1>>))>> : p \in Others \cup {Path("absent")}}
    \cup {<<Entry(p, Dest("/a", <<1>>)), Entry(Path("y"), d)>> :
            p \in {Path("unreadable"), Trapped("unreadable"), Trapped("fifo")},
            d \in {Dest("/a", <<1>>), Dest("/a/2/4", <<1, 2, 4>>), Dest("/b", <<3>>)}}
    \cup {<<Entry(p, d), Entry(q, e), Entry(Path("y"), Dest("/b", <<3>>))>> :
            p, q \in {Path("d"), Path("y"), Path("in/x")},
            d, e \in {Dest("/a", <<1>>), Dest("/a/2", <<1, 2>>)}}

Layers ==
  {Blob, Layer({}, {}), Layer({Path("y")}, {<<>>})}
    \cup {Layer({p}, {}) : p \in DOMAIN MCDisk \cup {Path("absent")}}
    \cup {Layer({}, {fs}) : fs \in FileLists}
    \cup {[Blob EXCEPT !.compression = c, !.mediaType = MediaType({"tar"}, s)] :
            c \in {{}, {"none"}, {"gzip"}, {"zip"}}, s \in {"none", "gzip"}}
    \cup {[Blob EXCEPT !.mediaType.valid = FALSE]}

Whole(n)  == [t |-> "int", v |-> n]
Decimal(n) == [t |-> "float", v |-> n]
Str(s)  == [t |-> "string", v |-> s]
Array(items) == [t |-> "array", items |-> items]
Table(map)   == [t |-> "table", map |-> map]

Configs ==
  {[key \in {"size"} |-> v] : v \in {Whole("1"), Decimal("1"), Decimal("1.5"), Decimal("nan"),
                                     Decimal("inf"), Str("1"), Array(<<Decimal("1")>>),
                                     Array(<<Whole("1")>>)}}
    \cup {[key \in {"cmd"} |-> v] : v \in {Str("x"), Array(<<Str("x"), Whole("1")>>),
                                           Array(<<Str("x")>>)}}
    \cup {[key \in {"env"} |-> Table([k \in {"K"} |-> v])] : v \in {Whole("1"), Decimal("1"), Str("1")}}

NoDefaults == [level |-> {}, builder |-> {}, format |-> {}, scope |-> {}, sign |-> {}, identity |-> {}]

Blocks ==
  {[NoDefaults EXCEPT !.level = {n}] : n \in {2, 4, 5}}
    \cup {[NoDefaults EXCEPT !.format = {f}] : f \in {"cyclonedx", "off", "cdx"}}
    \cup {[NoDefaults EXCEPT !.scope = {s}, !.builder = {"ci"}] : s \in {"both", "all"}}
    \cup {[NoDefaults EXCEPT !.sign = {"cosign-key"}, !.identity = i] : i \in {{}, {"key"}}}
    \cup {[NoDefaults EXCEPT !.sign = {"gpg"}]}

Base == [toml |-> "ok", version |-> "0", kind |-> "oci_artifact",
         id |-> [colon |-> TRUE, name |-> <<"lower", "punct">>, tag |-> <<"upper">>],
         description |-> {}, os |-> {}, arch |-> {}, layers |-> <<Blob>>,
         config |-> [key \in {} |-> Whole("0")], annotations |-> [created |-> {}, version |-> {}],
         attestation |-> NoDefaults]

VmLayers == [k \in 1..3 |-> [Blob EXCEPT !.mediaType.words = {<<"kernel", "initrd", "rootfs">>[k]}]]

MCSpecFiles ==
  {Base, [Base EXCEPT !.toml = "broken"], [Base EXCEPT !.version = "1"],
   [Base EXCEPT !.kind = "container"], [Base EXCEPT !.kind = "raw_image"],
   [Base EXCEPT !.layers = <<>>], [Base EXCEPT !.os = {"linux"}], [Base EXCEPT !.os = {"unknown"}],
   [Base EXCEPT !.arch = {"arm64"}], [Base EXCEPT !.description = {"an image"}]}
    \cup {[Base EXCEPT !.id.name = n] : n \in {<<>>, <<"punct">>, <<"lower", "upper">>}}
    \cup {[Base EXCEPT !.layers = <<l>>] : l \in Layers}
    \cup {[Base EXCEPT !.kind = k, !.layers = ls] :
            k \in {"vm_image", "raw_image", "oci_artifact"},
            ls \in {VmLayers, Tail(VmLayers), Tail(VmLayers) \o <<Head(VmLayers)>>}}
    \cup {[Base EXCEPT !.config = c] : c \in Configs}
    \cup {[Base EXCEPT !.annotations.created = {c}] : c \in {"date", "garbage"}}
    \cup {[Base EXCEPT !.annotations.version = {v}] : v \in {"1.0", "blank"}}
    \cup {[Base EXCEPT !.attestation = x] : x \in Blocks}
=============================================================================
