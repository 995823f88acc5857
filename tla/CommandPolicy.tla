---------------------------- MODULE CommandPolicy ----------------------------
(***************************************************************************)
(* cybercore.governed_runner: which commands of a plan a runner prepares.  *)
(* Every violation raises before anything is consumed or spawned, so that  *)
(* the checks are conjuncts.  A command is abstracted to what the checks   *)
(* look at; its argv is the pair of its executable and its arguments.      *)
(***************************************************************************)
EXTENDS FiniteSets, SequencesExt

Classes == {"READ_ONLY", "COMPUTE", "FILE_WRITE", "REPO_WRITE", "REMOTE_WRITE", "DEPLOY",
            "DESTRUCTIVE", "PRIVILEGED", "BLOCKED"}

\* The classes that need a nonce to be consumed.
ReplaySensitive == Classes \ {"READ_ONLY", "COMPUTE", "BLOCKED"}

\* Executables: a Python of any version, the other two approved names, a name on
\* the deny list (shells, sudo, rm ...), and any other.
Names == {"python", "git", "pytest", "denied", "other"}

\* name: the executable as written; target: the name its path resolves to;
\* found: that it resolves to an executable file; trusted: that this is the file
\* of that name on the trusted path; cwd: where the working directory resolves to;
\* shell: whether an argument holds shell metacharacters.
Command ==
  [class : Classes, name : Names, path : {"bare", "absolute", "relative"}, target : Names,
   found : BOOLEAN, trusted : BOOLEAN, args : {"version", "script"}, digest : BOOLEAN,
   shell : BOOLEAN, cwd : {"inside", "outside", "missing"}]

Argv(cmd) == <<cmd.name, cmd.args>>

\* A grant, as AuthorizationGrant's checks admit it.
WellFormed(grant) ==
  /\ grant.classes # {} /\ "BLOCKED" \notin grant.classes /\ grant.prefixes # {}
  /\ \A b \in grant.bindings : b.class \in grant.classes /\ b.prefix \in grant.prefixes

\* Class and argv of the command are within the grant.
SelectCommandBinding(cmd, grant, strict) ==
  /\ cmd.class \in grant.classes
  /\ IF grant.bindings # {}
     THEN \E b \in grant.bindings :
            /\ b.class = cmd.class
            /\ IsPrefix(b.prefix, Argv(cmd)) /\ (b.exact => b.prefix = Argv(cmd))
     ELSE /\ strict => Cardinality(grant.classes) = 1
          /\ \E p \in grant.prefixes : IsPrefix(p, Argv(cmd))

\* An approved name; production only approves Python, from the trusted path.
PositivePolicy(name, strict) == name = "python" \/ (name \in {"git", "pytest"} /\ ~strict)

\* Bare names are looked up on the trusted path, relative paths are refused.
ResolveExecutable(cmd) == cmd.path # "relative" /\ cmd.found

\* Production Python answers version queries and nothing else.
PythonCodeInput(cmd, strict) ==
  strict => IF cmd.target = "python" THEN cmd.args = "version" /\ ~cmd.digest ELSE ~cmd.digest

\* _prepare_command: what is written is checked, and what it resolves to, again.
Prepared(cmd, grant, strict) ==
  /\ cmd.class # "BLOCKED"
  /\ SelectCommandBinding(cmd, grant, strict)
  /\ cmd.name # "denied" /\ (cmd.path # "absolute" => PositivePolicy(cmd.name, strict))
  /\ ~cmd.shell /\ cmd.cwd = "inside"
  /\ ResolveExecutable(cmd)
  /\ cmd.target # "denied" /\ (strict => cmd.trusted) /\ PositivePolicy(cmd.target, strict)
  /\ PythonCodeInput(cmd, strict)
=============================================================================
