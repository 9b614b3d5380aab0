------------------------------ MODULE Signing ------------------------------
(***************************************************************************)
(* CosignInvoker::invoke (attest/src/core): signing a manifest digest and  *)
(* recording the signature in Rekor, by the three signers that a build of  *)
(* justoci may have.  Each is a list of checks in the order of its code;   *)
(* the first one that fails decides what sign_with is told.                *)
(*                                                                         *)
(* What a signer meets is a record:                                        *)
(*   kind   : sign.kind, "cosign-keyless" or "cosign-key",                 *)
(*   target : "production", or "staging", which only tests ask for,        *)
(*   token  : the OIDC token found in the environment,                     *)
(*   local  : which of its own means fails, if any,                        *)
(*   fulcio : Fulcio gives a certificate,                                  *)
(*   rekor  : "refuses"; "loses" the answer, having recorded the entry;    *)
(*            "records"; or is not asked ("unasked", cosign with           *)
(*            --no-tlog-upload),                                           *)
(*   bundle : "ok"; "broken", it cannot be read or encoded; or without a   *)
(*            usable logIndex ("noIndex").                                 *)
(***************************************************************************)
EXTENDS Integers, Sequences, FiniteSets, SequencesExt

Circumstances ==
  {c \in [kind : {"cosign-keyless", "cosign-key"}, target : {"production", "staging"},
          token : {"none", "bad", "good"}, local : {"ok", "program", "file", "client", "key"},
          fulcio : BOOLEAN, rekor : {"refuses", "loses", "records", "unasked"},
          bundle : {"ok", "broken", "noIndex"}] :
     c.bundle = "ok" => c.rekor = "records"}

Check(ok, otherwise) == [ok |-> ok, otherwise |-> otherwise]

\* resolve_oidc_token: SIGSTORE_ID_TOKEN, or else OIDC_TOKEN; an empty one is none.
HasToken(c) == c.token # "none"

\* SigstoreInvoker.  A session that fails does not say whether Rekor was reached.
SigstoreChecks(c) ==
  <<Check(c.kind # "cosign-key", "SignFailed"),
    Check(c.target = "production", "SignFailed"),
    Check(HasToken(c), "CosignNotInstalled"),
    Check(c.token = "good", "SignFailed"),
    Check(c.local # "client", "SignFailed"),             \* the trust root
    Check(c.fulcio, "SignFailed"),
    Check(c.rekor \in {"records", "unasked"}, "SignFailed"),
    Check(c.bundle # "broken", "SignFailed"),
    Check(c.bundle # "noIndex", "SignedNotRecorded")>>

\* RealCosignInvoker: cosign is spawned, and the bundle that it wrote is read.
CosignChecks(c) ==
  <<Check(c.local # "program", "CosignNotInstalled"),
    Check(c.local # "file", "SignFailed"),
    Check(~(c.kind = "cosign-key" /\ c.local = "key"), "SignFailed"),
    Check(c.fulcio \/ c.kind = "cosign-key", "SignFailed"),
    Check(c.rekor \in {"records", "unasked"}, "SignFailed"),
    Check(c.bundle # "broken", "SignedNotRecorded"),
    Check(c.bundle # "noIndex", "SignedNotRecorded")>>

\* JustsignInvoker: like the first, but a failure of Rekor is told apart, and
\* the logIndex is looked at before the bundle is encoded.
JustsignChecks(c) ==
  <<Check(c.kind # "cosign-key", "SignFailed"),
    Check(HasToken(c), "CosignNotInstalled"),
    Check(c.local # "client", "SignFailed"),             \* Fulcio's client and the CSR
    Check(c.fulcio /\ c.token = "good", "SignFailed"),
    Check(c.local \notin {"file", "key"}, "SignFailed"), \* Rekor's client, the signature
    Check(c.rekor \in {"records", "unasked"}, "SignedNotRecorded"),
    Check(c.bundle # "noIndex", "SignedNotRecorded"),
    Check(c.bundle # "broken", "SignFailed")>>

Signers == {"sigstore-rs", "cosign-subprocess", "justsign"}

\* Mutant: a bundle is taken for recorded without a look at its logIndex.
ChecksOfTrusting(signer, c) ==
  CASE signer = "sigstore-rs"       -> SubSeq(SigstoreChecks(c), 1, 8)
    [] signer = "cosign-subprocess" -> SubSeq(CosignChecks(c), 1, 6)
    [] signer = "justsign"          -> JustsignChecks(c)

\* The signer is chosen when justoci is compiled.
ChecksOf(signer, c) ==
  CASE signer = "sigstore-rs"       -> SigstoreChecks(c)
    [] signer = "cosign-subprocess" -> CosignChecks(c)
    [] signer = "justsign"          -> JustsignChecks(c)

\* The number of checks before the request to Rekor.
BeforeRekor(signer) ==
  CASE signer = "sigstore-rs" -> 6 [] signer = "cosign-subprocess" -> 4 [] signer = "justsign" -> 5

\* The check that fails, or 0.
FirstFailing(checks) == SelectInSeq(checks, LAMBDA k : ~k.ok)

\* The outcome, and whether Rekor has an entry for it.
Invoke(signer, c) ==
  LET checks == ChecksOf(signer, c)
      n == FirstFailing(checks)
  IN [outcome |-> IF n = 0 THEN "SignedAndRecorded" ELSE checks[n].otherwise,
      entry   |-> (n = 0 \/ n > BeforeRekor(signer)) /\ c.rekor \in {"loses", "records"}]

\* All that signing may come to.
Signings == {Invoke(signer, c) : signer \in Signers, c \in Circumstances}
=============================================================================
