---------------------------- MODULE Descriptors ----------------------------
(***************************************************************************)
(* The images that justoci publishes, as ImageDir::open describes them     *)
(* (publish/src/api/image_dir.rs) and publish_registry splits them into    *)
(* content and manifests (publish/src/core/registry_sink.rs).              *)
(***************************************************************************)
EXTENDS Integers, Sequences, FiniteSets, SequencesExt

CONSTANTS Images,
          Digests,
          Descriptor    \* what ImageDir::open reports of each image, see below

\* Descriptor[i].blobs is referenced_blobs, .referrers referrer_manifests and
\* .primary primary_manifest_digest; .content is the set of configs and layers
\* that the image's manifests name.
ASSUME DescriptorAssumption ==
  Descriptor \in [Images -> [primary   : Digests,
                             referrers : Seq(Digests),
                             blobs     : Seq(Digests),
                             content   : SUBSET Digests]]

Primary(i)   == Descriptor[i].primary
Referrers(i) == Descriptor[i].referrers
Blobs(i)     == Descriptor[i].blobs
Content(i)   == Descriptor[i].content

\* The digests that publish_registry pushes as manifests, not as blobs.
ManifestDigests(i) == {Primary(i)} \cup ToSet(Referrers(i))

\* ImageDir::open lists every config and layer, each digest once (module
\* ImageDir, ReferencedIsClosure).  That none of them is itself a manifest of the
\* image holds for what build and attest write; publish_registry would not push
\* such a layer as a blob.
ASSUME ImageDirAssumption ==
  \A i \in Images : /\ Content(i) \subseteq ToSet(Blobs(i))
                    /\ Content(i) \cap ManifestDigests(i) = {}
                    /\ IsInjective(Blobs(i))
=============================================================================
