--------------------------- MODULE StagingPreview ---------------------------
(***************************************************************************)
(* execute_staging_preview_stou: processes that upload one preview each,   *)
(* under a signed approval whose nonce a trusted service consumes, to an   *)
(* FTP directory in which the server chooses the name.  The connection may *)
(* fail at any point, answers may be lost, processes may stop, and others  *)
(* may rewrite files of the directory.                                     *)
(***************************************************************************)
EXTENDS Integers, FiniteSets

CONSTANTS
  Uploads,    \* the executions
  Previews,   \* Previews[u]: what u is to upload and under which approval
  NoUpload,   \* nobody
  MaxClock,   \* bound on the clock
  Skew,       \* how far an approval may be issued in the future
  MaxLifetime \* how long an approval may be valid

VARIABLES
  clock, up, nonces, root

previewVars == <<clock, up, nonces, root>>

Approval(u) == Previews[u].approval

\* up[u]: where u is and what it reports; nonces[n]: the execution n was consumed for;
\* root: the files that executions created, [by, content].
PreviewInit ==
  /\ clock = 0
  /\ up = [u \in Uploads |-> [pc |-> "start", possible |-> FALSE]]
  /\ nonces = [n \in {Approval(u).nonce : u \in Uploads} |-> NoUpload]
  /\ root = {}

-----------------------------------------------------------------------------
\* The input is sealed: fixed endpoint, protocol, scope and destination, and content
\* that has the digest it claims.
ValidInput(u) == Previews[u].fixed /\ Previews[u].digest = Previews[u].content

\* The approval is signed with the trusted key, binds the input, and is current.
VerifyAuthorization(u) ==
  LET a == Approval(u) IN
  /\ a.signed /\ a.content = Previews[u].digest
  /\ a.issued < a.expires /\ a.expires - a.issued <= MaxLifetime
  /\ clock + Skew >= a.issued /\ clock < a.expires

\* write_started is what a failure reports as remote_mutation_possible.
UpTo(u, l) == up' = [up EXCEPT ![u].pc = l]
UpFail(u, started) ==
  up' = [up EXCEPT ![u].pc = "failed", ![u].possible = started] /\ UNCHANGED <<clock, nonces, root>>

\* The gates before anything is connected: input, authorization, key and credential.
Gates(u) ==
  /\ up[u].pc = "start"
  /\ \/ ValidInput(u) /\ VerifyAuthorization(u) /\ UpTo(u, "connect") /\ UNCHANGED <<clock, nonces, root>>
     \/ UpFail(u, FALSE)

\* The session is protected and rooted at the staging root; the approval is verified again.
ConnectFtps(u) ==
  /\ up[u].pc = "connect"
  /\ \/ VerifyAuthorization(u) /\ UpTo(u, "nonce") /\ UNCHANGED <<clock, nonces, root>>
     \/ UpFail(u, FALSE)

\* Mutant: an answer of the nonce service that says replay is taken for consumed.
ConsumeNonceLax(u) ==
  /\ up[u].pc = "nonce"
  /\ nonces' = [nonces EXCEPT ![Approval(u).nonce] = u]
  /\ UpTo(u, "verify") /\ UNCHANGED <<clock, root>>

\* The service consumes a nonce once; its answer may be a replay, or be lost.
ConsumeNonce(u) ==
  /\ up[u].pc = "nonce"
  /\ \/ /\ nonces[Approval(u).nonce] = NoUpload
        /\ nonces' = [nonces EXCEPT ![Approval(u).nonce] = u]
        /\ UpTo(u, "verify") \/ up' = [up EXCEPT ![u].pc = "failed"]
        /\ UNCHANGED <<clock, root>>
     \/ UpFail(u, FALSE)

\* The approval must still be current; from here on a mutation is possible.
FinalVerify(u) ==
  /\ up[u].pc = "verify"
  /\ \/ VerifyAuthorization(u) /\ UpTo(u, "store") /\ UNCHANGED <<clock, nonces, root>>
     \/ UpFail(u, FALSE)

\* Mutant: a mutation is thought possible only once the transfer has ended.
StouLate(u) ==
  /\ up[u].pc = "store"
  /\ \/ root' = root \cup {[by |-> u, content |-> Previews[u].content]} /\ UpTo(u, "hash")
     \/ /\ \E k \in {Previews[u].content, "part"} : root' = root \cup {[by |-> u, content |-> k]}
        /\ up' = [up EXCEPT ![u].pc = "failed"]
  /\ UNCHANGED <<clock, nonces>>

\* The server stores the bytes under a name of its own and says which; the transfer
\* may break before, in between, and after, and the name may be missing or unsafe.
Stou(u) ==
  /\ up[u].pc = "store"
  /\ \/ /\ root' = root \cup {[by |-> u, content |-> Previews[u].content]}
        /\ UpTo(u, "hash")
     \/ /\ \E k \in {Previews[u].content, "part"} : root' \in {root, root \cup {[by |-> u, content |-> k]}}
        /\ up' = [up EXCEPT ![u].pc = "failed", ![u].possible = TRUE]
  /\ UNCHANGED <<clock, nonces>>

\* The file is read back; the receipt is for the bytes that were sealed.
HashRemoteFile(u) ==
  /\ up[u].pc = "hash"
  /\ \/ /\ \E f \in root : f.by = u /\ f.content = Previews[u].digest
        /\ UpTo(u, "executed") /\ UNCHANGED <<clock, nonces, root>>
     \/ UpFail(u, TRUE)

UploadStep(u) ==
  \/ Gates(u) \/ ConnectFtps(u) \/ ConsumeNonce(u) \/ FinalVerify(u) \/ Stou(u) \/ HashRemoteFile(u)

UploadStops(u) ==
  /\ up[u].pc \in {"connect", "nonce", "verify", "store", "hash"}
  /\ UpTo(u, "dead") /\ UNCHANGED <<clock, nonces, root>>

ClockTicks == clock < MaxClock /\ clock' = clock + 1 /\ UNCHANGED <<up, nonces, root>>

Rewritten == \E f \in root : root' = (root \ {f}) \cup {[f EXCEPT !.content = "other"]} /\ UNCHANGED <<clock, up, nonces>>

PreviewNext == ClockTicks \/ Rewritten \/ \E u \in Uploads : UploadStep(u) \/ UploadStops(u)

-----------------------------------------------------------------------------
\* One approval creates one file, with the approved bytes or a part of them, whatever is
\* retried, lost or stopped; a file only appears under an approval that was consumed for it.
OneFilePerApproval ==
  /\ \A f, g \in root : Approval(f.by).nonce = Approval(g.by).nonce => f = g
  /\ \A f \in root :
       /\ nonces[Approval(f.by).nonce] = f.by /\ Approval(f.by).signed
       /\ f.content \in {Approval(f.by).content, "part", "other"}

\* A failure that rules out a remote mutation left nothing behind.
FailureIsHonest ==
  \A u \in Uploads : up[u].pc = "failed" /\ ~up[u].possible => \A f \in root : f.by # u
=============================================================================
