--------------------------- MODULE WorkBlockApply ---------------------------
(***************************************************************************)
(* cybercore apply: a Work Block is verified, confirmed, and its hooks are *)
(* run on a repository whose context was found trusted.  The context is    *)
(* read by one git command or file after the other.  The scripts of the    *)
(* package, and others at any time, may change repository and package, and *)
(* the process may stop.                                                   *)
(***************************************************************************)
EXTENDS Integers, Sequences, FiniteSets

CONSTANTS
  Packages,    \* the packages: the files of each, and the digests its checksums list
  Identities,  \* repository identities
  TargetBranch, \* the branch of the manifest
  Branches,    \* branches of the repository
  Absent,      \* no such file, identity or value
  Rewritable,  \* the files of a package that its own scripts may rewrite
  LeftBehind,  \* the states in which its scripts may leave a repository they change
  MaxApplyEdits \* bound on the edits of others

VARIABLES
  repo,    \* the repository: branch, clean, kernel (the identity it configures), origin
  block,   \* the package: files and sums, both of the files that may be there
  apply,   \* the command: where it is, what it read, what it ran
  applied  \* history: edits of others, what the hooks were run on, and whether a script of the
           \* package rewrote the action before it ran

applyVars == <<repo, block, apply, applied>>

Required == {"manifest", "verify", "apply"}
Optional == {"before_apply", "after_apply", "rollback"}
BlockFiles == Required \cup Optional

NoContext == [branch |-> Absent, dirty |-> TRUE, kernel |-> Absent]

Repositories == [branch : Branches, clean : BOOLEAN, kernel : Identities \cup {Absent}, origin : Identities]

NoFiles == [f \in BlockFiles |-> Absent]

ApplyInit ==
  /\ repo = [branch |-> TargetBranch, clean |-> TRUE, kernel |-> Absent, origin |-> Absent]
  /\ block = [files |-> NoFiles, sums |-> NoFiles]
  /\ apply = [pc |-> "none", dry |-> FALSE, context |-> NoContext, hooks |-> <<>>, seen |-> Absent]
  /\ applied = [edits |-> 0, before |-> repo, ran |-> Absent, rewritten |-> FALSE]

-----------------------------------------------------------------------------
ApplyTo(l) == apply' = [apply EXCEPT !.pc = l]
Keep == UNCHANGED <<repo, block, applied>>
ApplyFails == ApplyTo("failed") /\ Keep

\* A repository and a package are there.
Prepare ==
  /\ apply.pc = "none" /\ ApplyTo("start") /\ UNCHANGED applied
  /\ repo' \in Repositories /\ block' \in Packages

\* verify_workblock: the required files are there, and listed; what is listed has its digest.
Verified(b) ==
  /\ \A f \in Required : b.files[f] # Absent /\ b.sums[f] # Absent
  /\ \A f \in BlockFiles : b.sums[f] # Absent => b.files[f] = b.sums[f]

VerifyWorkBlock ==
  /\ apply.pc = "start"
  /\ IF Verified(block)
     THEN apply' = [apply EXCEPT !.pc = "verify", !.seen = block.files["apply"]] /\ Keep
     ELSE ApplyFails

\* A script runs as bash in the package, after the checksums were verified, and has the
\* repository at hand: it may leave either of them changed.
Runs ==
  /\ repo' \in {repo} \cup (LeftBehind \cap Repositories)
  /\ \E fs \in SUBSET Rewritable, k \in {"other", Absent} :
       block' = [block EXCEPT !.files = [f \in BlockFiles |-> IF f \in fs THEN k ELSE block.files[f]]]

Rewrites == block'.files["apply"] # block.files["apply"]

\* actions/verify.sh, then the confirmation of the operator, and a dry run or not.
VerifyAction ==
  /\ apply.pc = "verify"
  /\ \/ \E d \in BOOLEAN : apply' = [apply EXCEPT !.pc = "branch", !.dry = d]
     \/ \E l \in {"cancelled", "failed"} : ApplyTo(l)
  /\ Runs /\ applied' = [applied EXCEPT !.rewritten = @ \/ Rewrites]

\* collect_trusted_operation_context: a git command that fails raises.
ReadBranch ==
  /\ apply.pc = "branch"
  /\ \/ apply' = [apply EXCEPT !.pc = "status", !.context.branch = repo.branch] /\ Keep
     \/ ApplyFails

ReadStatus ==
  /\ apply.pc = "status"
  /\ \/ apply' = [apply EXCEPT !.pc = "kernel", !.context.dirty = ~repo.clean] /\ Keep
     \/ ApplyFails

\* Whether the Project Kernel configures an identity, which then needs a Project State;
\* a legacy project has none.
ReadKernel ==
  /\ apply.pc = "kernel"
  /\ \/ ApplyTo(IF repo.kernel = Absent THEN "enforce" ELSE "expected") /\ Keep
     \/ repo.kernel # Absent /\ ApplyFails

\* evaluate_repository_identity_policy reads it again, and then origin: they must agree.
ExpectedIdentity ==
  /\ apply.pc = "expected"
  /\ IF repo.kernel = Absent THEN ApplyFails
     ELSE apply' = [apply EXCEPT !.pc = "origin", !.context.kernel = repo.kernel] /\ Keep

ResolveIdentity ==
  /\ apply.pc = "origin"
  /\ IF repo.origin = apply.context.kernel THEN ApplyTo("enforce") /\ Keep ELSE ApplyFails

\* Mutant: the working tree need not be clean.
EnforceDirty ==
  /\ apply.pc = "enforce"
  /\ IF apply.context.branch = TargetBranch
     THEN ApplyTo(IF apply.dry THEN "dry_run" ELSE "before_apply") /\ Keep ELSE ApplyFails

\* enforce_trusted_operation_context: all checks passed.
Enforce ==
  /\ apply.pc = "enforce"
  /\ IF apply.context.branch = TargetBranch /\ ~apply.context.dirty
     THEN ApplyTo(IF apply.dry THEN "dry_run" ELSE "before_apply") /\ Keep ELSE ApplyFails

-----------------------------------------------------------------------------
\* A hook runs; one that is not there counts as a success.
RunHook(h, ok, failed) ==
  /\ apply.pc = h
  /\ \E code \in {"ok", "failed"} :
       /\ block.files[h] = Absent => code = "ok"
       /\ apply' = [apply EXCEPT !.pc = IF code = "ok" THEN ok ELSE failed, !.hooks = Append(@, <<h, code>>)]
  /\ IF block.files[h] = Absent THEN UNCHANGED <<repo, block>> ELSE Runs
  /\ applied' = [applied EXCEPT !.before = IF apply.hooks = <<>> THEN repo ELSE @,
                                !.ran = IF h = "apply" THEN block.files[h] ELSE @,
                                !.rewritten = @ \/ (h = "before_apply" /\ Rewrites)]

BeforeApply == RunHook("before_apply", "apply", "failed")

\* The hook that must be there; without it the command raises and nothing is rolled back.
ApplyHook ==
  IF block.files["apply"] = Absent THEN apply.pc = "apply" /\ ApplyFails
  ELSE RunHook("apply", "after_apply", "rollback")

\* Whatever the rollback does, the command fails.
Rollback == RunHook("rollback", "failed", "failed")

AfterApply == RunHook("after_apply", "applied", "failed")

ApplyStops ==
  /\ apply.pc \notin {"none", "failed", "cancelled", "dry_run", "applied", "dead"}
  /\ ApplyTo("dead") /\ Keep

\* Others commit, edit, switch branches, rewrite the kernel or the origin, or a file of the package.
EditRepository ==
  /\ applied.edits < MaxApplyEdits /\ apply.pc # "none"
  /\ \/ \E b \in Branches, c \in BOOLEAN : repo' = [repo EXCEPT !.branch = b, !.clean = c] /\ UNCHANGED block
     \/ \E i \in Identities, k \in Identities \cup {Absent} : repo' = [repo EXCEPT !.origin = i, !.kernel = k] /\ UNCHANGED block
     \/ \E f \in BlockFiles : block' = [block EXCEPT !.files[f] = IF @ = Absent THEN "other" ELSE Absent] /\ UNCHANGED repo
  /\ applied' = [applied EXCEPT !.edits = @ + 1] /\ UNCHANGED apply

ApplyNext ==
  \/ Prepare \/ VerifyWorkBlock \/ VerifyAction \/ ReadBranch \/ ReadStatus \/ ReadKernel \/ ExpectedIdentity
  \/ ResolveIdentity \/ Enforce \/ BeforeApply \/ ApplyHook \/ Rollback \/ AfterApply
  \/ ApplyStops \/ EditRepository

-----------------------------------------------------------------------------
Ran(h, code) == \E i \in DOMAIN apply.hooks : apply.hooks[i] = <<h, code>>

\* A dry run runs no hook.  The hooks were confirmed for the target branch and a clean tree, and
\* the first finds the repository so, with the origin its kernel names, whatever verify.sh left
\* behind, unless others edited meanwhile.  The action that runs is then the one whose checksum was
\* verified, or was rewritten by verify.sh or before_apply.sh, which nothing looks for.  It is
\* rolled back exactly when it failed, and reported as applied only if all three hooks succeeded.
AppliedAsVerified ==
  /\ apply.hooks # <<>> =>
       /\ ~apply.dry /\ apply.context.branch = TargetBranch /\ ~apply.context.dirty
       /\ applied.edits = 0 =>
            /\ applied.before.clean /\ applied.before.branch = TargetBranch
            /\ applied.before.kernel \in {Absent, applied.before.origin}
            /\ applied.rewritten \/ applied.ran \in {Absent, apply.seen}
  /\ Ran("rollback", "ok") \/ Ran("rollback", "failed") => Ran("apply", "failed")
  /\ Ran("apply", "ok") => Ran("before_apply", "ok")
  /\ apply.pc = "applied" => apply.hooks = <<<<"before_apply", "ok">>, <<"apply", "ok">>, <<"after_apply", "ok">>>>
  /\ apply.pc = "failed" /\ Ran("apply", "failed") => Len(apply.hooks) = 3
=============================================================================
