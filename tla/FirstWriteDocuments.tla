------------------------ MODULE FirstWriteDocuments ------------------------
(***************************************************************************)
(* The documents of a first remote write (WB-0034): manifest, readiness    *)
(* and evidence bundle, and what makes each acceptable.  A document is a   *)
(* record of what the checks compare; "safe" says that its text holds no   *)
(* secret, no YAML metadata and no duplicate or unknown key, and "fixed"   *)
(* that the fields with one admissible value have it.  A digest is         *)
(* represented by what it is the digest of.                                *)
(***************************************************************************)
EXTENDS Integers, FiniteSets

Artifacts == {"index.html", "cybercore-version.json"}
Protocols == {"SFTP", "SSH", "FTPS_EXPLICIT"}
Placeholder == "PLACEHOLDER"
CanaryPayload == "canary"   \* the only index.html that is admitted

Statuses ==
  {"deployment_protocol", "target_capability", "deploy_identity_scope", "source_commit",
   "artifact_hashes", "secret_alias", "rollback", "effect_verifier", "operator_authorization"}

\* The text of a document is scanned before it is parsed.
Parses(doc) == doc.safe

\* A value that names something.
Reference(value) == value # Placeholder

Destination(run) == <<"cybercore-canary", run>>

\* The manifest of the final preflight.
ValidManifest(m) ==
  /\ Parses(m) /\ m.fixed
  /\ Reference(m.run) /\ Reference(m.commit) /\ Reference(m.auth)
  /\ m.destination = Destination(m.run) /\ m.artifacts = Artifacts

-----------------------------------------------------------------------------
\* The evidence names one commit, run, destination and artifact set.
EvidenceIdentity(e) ==
  /\ Parses(e) /\ e.fixed
  /\ Reference(e.commit) /\ Reference(e.run) /\ e.destination = Destination(e.run)
  /\ DOMAIN e.hashes = Artifacts /\ e.hashes["index.html"] = CanaryPayload

\* An endpoint is named for FTPS, and only then.
DeploymentEvidence(e) ==
  /\ e.protocol \in Protocols /\ (Reference(e.endpoint) <=> e.protocol = "FTPS_EXPLICIT")
  /\ Reference(e.capability) /\ Reference(e.scope) /\ Reference(e.verifier)
  /\ e.verified /\ e.rollbackTested

\* The authorization approves exactly what the evidence describes.
AuthorizationEvidence(e) ==
  LET a == e.authorization IN
  /\ a.status = "APPROVED" /\ a.rollbackPermitted /\ Reference(a.reference)
  /\ a.commit = e.commit /\ a.run = e.run /\ a.destination = e.destination
  /\ a.artifacts = Artifacts
  /\ a.protocol = e.protocol /\ a.endpoint = e.endpoint /\ a.scope = e.scope

\* validate_first_write_evidence; sha is the digest the readiness binds.
ValidEvidence(e, sha) ==
  sha = e /\ EvidenceIdentity(e) /\ DeploymentEvidence(e) /\ AuthorizationEvidence(e)

-----------------------------------------------------------------------------
\* Every status that is claimed has what supports it.
SupportingEvidence(r) ==
  /\ "deployment_protocol" \in r.verified => r.protocol \in Protocols
  /\ "target_capability" \in r.verified => Reference(r.capability)
  /\ "deploy_identity_scope" \in r.verified => Reference(r.scope)
  /\ "source_commit" \in r.verified => Reference(r.commit)
  /\ "artifact_hashes" \in r.verified => Reference(r.hashes)
  /\ "rollback" \in r.verified => r.rollbackTested
  /\ "effect_verifier" \in r.verified => Reference(r.verifier)
  /\ "operator_authorization" \in r.verified => Reference(r.auth)

\* The evidence bundle the readiness names agrees with it.
BoundEvidence(r, e) ==
  /\ Reference(r.bundle) /\ ValidEvidence(e, r.sha)
  /\ e.commit = r.commit /\ e.protocol = r.protocol /\ e.capability = r.capability
  /\ e.scope = r.scope /\ e.verifier = r.verifier /\ e.authorization.reference = r.auth

\* The shape of the readiness: nothing is written or requested, no secret is recorded.
ReadinessSchema(r) ==
  /\ Parses(r) /\ r.fixed
  /\ r.protocol \in Protocols \cup {"UNVERIFIED"}
  /\ r.blockedUntil = Statuses

\* blocked_until names every status once, with its expected value.
Ready(r, e) == ReadinessSchema(r) /\ r.verified = Statuses /\ SupportingEvidence(r) /\ BoundEvidence(r, e)

\* The version marker names the commit and the run, in UTC, and has no other keys.
ValidVersionMarker(marker, commit, run) ==
  marker.wellFormed /\ marker.utc /\ marker.commit = commit /\ marker.run = run
=============================================================================
