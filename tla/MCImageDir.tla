----------------------------- MODULE MCImageDir -----------------------------
(***************************************************************************)
(* ImageDir::open on every small directory: up to MaxListed descriptors in *)
(* index.json over two manifest blobs `m' and `r', a content blob that may *)
(* be missing, and digests that are not well formed.                       *)
(***************************************************************************)
EXTENDS ImageDir

CONSTANT MaxListed

Blob(state, mediaType, config, layers, subject) ==
  [state |-> state, mediaType |-> mediaType, config |-> config,
   layers |-> layers, subject |-> subject]

Opaque == Blob("malformed", Absent, Absent, <<>>, Absent)

\* What the file `m' may hold, and the file `r'.
PrimaryFiles ==
  {Blob("ok", t, "c", ls, s) : t \in {"oci", Absent},
                               ls \in {<<>>, <<"l">>, <<"l", "c">>, <<"UPPER">>},
                               s \in {Absent, "r"}}
    \cup {Blob("ok", "other", "c", <<>>, Absent), Blob("unreadable", Absent, "c", <<>>, Absent)}

ReferrerFiles ==
  {Blob("ok", "oci", c, ls, s) : c \in {"c", "short"},
                                 ls \in {<<>>, <<"l">>, <<"m">>, <<"q", "q">>},
                                 s \in {Absent, "m", "r", "q"}}
    \cup {Opaque}

\* `q' is a second referrer of `m' that shares its layer.
SecondReferrer == Blob("ok", Absent, "c", <<"l">>, "m")

Indexes ==
  {[k \in 1..n |-> [digest |-> s[k], mediaType |-> "oci"]] :
     n \in 0..MaxListed, s \in [1..MaxListed -> {"m", "r", "q"}]}
    \cup {<<[digest |-> "m", mediaType |-> "oci"], [digest |-> d, mediaType |-> t]>> :
            d \in {"r", "UPPER", "short"}, t \in {"oci", "other"}}

Contents == {s \in SUBSET {"m", "r", "q", "c", "l"} : Cardinality(s) >= 3}

Stores(presents) ==
  {[d \in present |-> CASE d = "m" -> m [] d = "r" -> r [] d = "q" -> SecondReferrer [] OTHER -> Opaque] :
     m \in PrimaryFiles, r \in ReferrerFiles, present \in presents}

\* The files beside blobs/ in every state, and every list over every store of blobs.
MCDirectories ==
  [layout : DOMAIN FileError, index : DOMAIN FileError \ {"unsupported"}, listed : {<<>>},
   blobs : Stores({{"m", "c", "l"}})]
  \cup [layout : {"ok"}, index : {"ok"}, listed : Indexes, blobs : Stores(Contents)]
=============================================================================
