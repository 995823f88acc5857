-------------------------- MODULE FirstWritePacket --------------------------
(***************************************************************************)
(* validate_first_write_packet: documents, git and artifacts are read one  *)
(* after the other while others edit files and move branches, and what     *)
(* was read is sealed as the input of an upload, which stays blocked.      *)
(* The code collects errors; the first one already decides, and is where   *)
(* the model refuses.                                                      *)
(***************************************************************************)
EXTENDS FirstWriteDocuments

CONSTANTS
  Packet,        \* the files at first: manifest, readiness, evidence, artifacts
  Drafts,        \* Drafts[f]: what others may write to file f
  Commits,       \* commits a branch may be moved to
  Unread,        \* what was not read
  MaxDraftEdits  \* bound on the edits of others

VARIABLES
  files,  \* the files, and whether the artifact directory holds anything else
  git,    \* HEAD, the main of the remote (or the local one), and whether origin is configured
  packet, \* the validation: where it is and what it has read
  edited  \* how many edits others made

packetVars == <<files, git, packet, edited>>

PacketFiles == {"manifest", "readiness", "evidence"} \cup Artifacts
PacketInit ==
  /\ files = Packet
  /\ git \in [head : {Packet["evidence"].commit}, main : {Packet["evidence"].commit}, origin : {TRUE}, tracking : {TRUE}]
  /\ packet = [pc |-> "start", read |-> [f \in PacketFiles |-> Unread], head |-> Unread, main |-> Unread]
  /\ edited = 0

-----------------------------------------------------------------------------
At(l) == packet.pc = l
Advance(l) == packet' = [packet EXCEPT !.pc = l] /\ UNCHANGED <<files, git, edited>>
RefusePacket == Advance("refused")
ReadFile(f, l) ==
  packet' = [packet EXCEPT !.pc = l, !.read[f] = files[f]] /\ UNCHANGED <<files, git, edited>>
WasRead(f) == packet.read[f]

\* Each document is read once; a missing or unreadable one ends the validation.
CaptureManifest == At("start") /\ (ReadFile("manifest", "readiness") \/ RefusePacket)

CaptureReadiness ==
  /\ At("readiness")
  /\ ReadFile("readiness", "evidence") \/ RefusePacket

\* The reference of the readiness must resolve inside the deployment directory.
CaptureEvidence ==
  /\ At("evidence")
  /\ \/ Parses(WasRead("manifest")) /\ Parses(WasRead("readiness"))
        /\ Reference(WasRead("readiness").bundle) /\ ReadFile("evidence", "snapshot")
     \/ RefusePacket

\* Mutant: the files are validated where they are.
ValidateInPlace ==
  /\ At("snapshot")
  /\ \/ /\ ValidManifest(files["manifest"]) /\ Ready(files["readiness"], files["evidence"])
        /\ Advance("head")
     \/ RefusePacket

\* Private copies of what was read are validated, and must still be what was read.
ValidateSnapshot ==
  /\ At("snapshot")
  /\ \/ /\ ValidManifest(WasRead("manifest")) /\ Ready(WasRead("readiness"), WasRead("evidence"))
        /\ Advance("head")
     \/ RefusePacket

GitHead ==
  /\ At("head")
  /\ \/ packet' = [packet EXCEPT !.pc = "main", !.head = git.head] /\ UNCHANGED <<files, git, edited>>
     \/ RefusePacket

\* With an origin its main is fetched, which may fail and then refuses; without one
\* there must be no tracking ref, and the local main counts.
GitMain ==
  /\ At("main")
  /\ \/ /\ git.origin \/ ~git.tracking
        /\ packet' = [packet EXCEPT !.pc = "bind", !.main = git.main] /\ UNCHANGED <<files, git, edited>>
     \/ RefusePacket

\* All three documents are about HEAD, which is main, and about one run and authorization.
Bind ==
  /\ At("bind")
  /\ LET m == WasRead("manifest")
         r == WasRead("readiness")
         e == WasRead("evidence") IN
     IF /\ packet.head = packet.main
        /\ m.commit = packet.head /\ r.commit = packet.head /\ e.commit = packet.head
        /\ m.auth = r.auth /\ m.auth = e.authorization.reference
        /\ e.run = m.run /\ e.destination = m.destination /\ DOMAIN e.hashes = m.artifacts
     THEN Advance("marker") ELSE RefusePacket

\* The artifact directory, reached without following links, holds the two files only,
\* before the first one is read and after the second.
ListArtifacts == files["others"] = {}

ReadMarker ==
  /\ At("marker")
  /\ (ListArtifacts /\ ReadFile("cybercore-version.json", "index")) \/ RefusePacket

ReadIndex ==
  /\ At("index")
  /\ (ListArtifacts /\ ReadFile("index.html", "compare")) \/ RefusePacket

\* What was read has the digests of the evidence, and is what is sealed.
Seal ==
  /\ At("compare")
  /\ LET e == WasRead("evidence") IN
     IF /\ \A a \in Artifacts : WasRead(a) = e.hashes[a]
        /\ ValidVersionMarker(WasRead("cybercore-version.json"), packet.head, e.run)
     THEN Advance("sealed") ELSE RefusePacket

\* The FTPS writer that the sealed packet is for is disabled: it returns blocked before it
\* looks at anything it is given.
Upload == At("sealed") /\ Advance("blocked")

PacketStep ==
  \/ CaptureManifest \/ CaptureReadiness \/ CaptureEvidence \/ ValidateSnapshot \/ GitHead \/ GitMain
  \/ Bind \/ ReadMarker \/ ReadIndex \/ Seal \/ Upload

\* Others write files, add one to the directory, move branches, or remove the origin.
Draft ==
  /\ edited < MaxDraftEdits /\ packet.pc \notin {"start", "refused", "sealed", "blocked"}
  /\ edited' = edited + 1 /\ UNCHANGED packet
  /\ \/ \E f \in PacketFiles : \E d \in Drafts[f] : files' = [files EXCEPT ![f] = d] /\ UNCHANGED git
     \/ \E o \in {{}, {"other"}} : files' = [files EXCEPT !["others"] = o] /\ UNCHANGED git
     \/ \E k \in Commits, b \in {"head", "main"} : git' = [git EXCEPT ![b] = k] /\ UNCHANGED files
     \/ \E t \in BOOLEAN : git' = [git EXCEPT !.origin = FALSE, !.tracking = t] /\ UNCHANGED files

PacketNext == PacketStep \/ Draft

-----------------------------------------------------------------------------
\* What is sealed is what one authorization approved: for the commit that HEAD and main were,
\* the run, the destination and these very bytes, whatever was edited while it was validated.
SealedIsApproved ==
  packet.pc \in {"sealed", "blocked"} =>
    LET e == WasRead("evidence")
        a == e.authorization IN
    /\ a.status = "APPROVED" /\ WasRead("readiness").sha = e
    /\ \A f \in a.artifacts : WasRead(f) = e.hashes[f]
    /\ a.commit = packet.head /\ a.commit = packet.main /\ a.commit = WasRead("cybercore-version.json").commit
    /\ a.run = WasRead("manifest").run /\ a.reference = WasRead("manifest").auth
    /\ a.destination = WasRead("manifest").destination
=============================================================================
