------------------------------ MODULE Registry ------------------------------
(***************************************************************************)
(* A repository of an OCI registry that justoci publishers push to, as its *)
(* readers see it: what publish_registry promises of the order in which    *)
(* things appear.  RegistrySink implements it; RegistryPull reads from it. *)
(***************************************************************************)
EXTENDS Descriptors

CONSTANT NoImage    \* the tag does not exist

VARIABLES blobs,      \* digests under /blobs/
          manifests,  \* digests under /manifests/
          tag         \* the image whose manifest the tag points at

vars == <<blobs, manifests, tag>>

Init == blobs = {} /\ manifests = {} /\ tag = NoImage

\* Blobs appear in any order.
AddBlob == /\ \E i \in Images : \E d \in ToSet(Blobs(i)) \ ManifestDigests(i) :
                blobs' = blobs \cup {d}
           /\ UNCHANGED <<manifests, tag>>

\* A referrer appears after the content of its image.
AddReferrer == /\ \E i \in Images : \E d \in ToSet(Referrers(i)) :
                    /\ Content(i) \subseteq blobs
                    /\ manifests' = manifests \cup {d}
               /\ UNCHANGED <<blobs, tag>>

\* The tag moves to an image when all of it is there; it may move back.
Commit == /\ \E i \in Images :
               /\ Content(i) \subseteq blobs
               /\ ToSet(Referrers(i)) \subseteq manifests
               /\ manifests' = manifests \cup {Primary(i)}
               /\ tag' = i
          /\ UNCHANGED blobs

Next == AddBlob \/ AddReferrer \/ Commit

Spec == Init /\ [][Next]_vars
=============================================================================
