------------------------ MODULE MCGovernedOperations ------------------------
EXTENDS GovernedOperations, TLC
CONSTANTS c1, c2, n1

\* A query of the interpreter's version, and a script; under a grant without bindings and with one.
\* The production policy refuses the script.
Query == [class |-> "DEPLOY", name |-> "python", path |-> "bare", target |-> "python", found |-> TRUE,
          trusted |-> TRUE, args |-> "version", digest |-> FALSE, shell |-> FALSE, cwd |-> "inside"]
Script == [Query EXCEPT !.name = "git", !.target = "git", !.args = "script", !.path = "absolute"]
Grant == [classes |-> {"DEPLOY"}, prefixes |-> {<<"python">>, <<"git">>}, bindings |-> {}]
Bound == [Grant EXCEPT !.bindings = {[class |-> "DEPLOY", prefix |-> <<"python">>, exact |-> FALSE]}]
Given(cmds, strict, grant) ==
  [nonce |-> n1, expires |-> 1, timeout |-> 1, commands |-> cmds, grant |-> grant, strict |-> strict, fresh |-> FALSE]
MCWorkloads ==
  {(c1 :> [Given(<<Script, Query>>, FALSE, Grant) EXCEPT !.fresh = TRUE]) @@ (c2 :> Given(<<Script>>, TRUE, Grant)),
   (c1 :> Given(<<Script>>, FALSE, Grant)) @@ (c2 :> Given(<<Query>>, TRUE, Bound))}
MCFiles == {[meta |-> 0, content |-> 0], [meta |-> 0, content |-> 1], [meta |-> 1, content |-> 0]}

\* Manifests of addresses and of a CNAME beside them, one a template, for a zone with a TXT record.
Record(t, c, m, i) ==
  [type |-> t, name |-> "www", content |-> c, ttl |-> 1, proxied |-> FALSE, priority |-> -1, meta |-> m, id |-> i]
Desired(managed, records) ==
  [readable |-> TRUE, rollback |-> FALSE, template |-> FALSE, managed |-> managed, records |-> records]
Www == {<<"A", "www">>}
MCManifests ==
  {Desired(Www, {Record("A", 2, 0, 0), Record("A", 3, 0, 0)}), Desired(Www, {Record("A", 4, 0, 0)}),
   Desired(Www, {}), [Desired(Www, {}) EXCEPT !.template = TRUE],
   Desired(Www \cup {<<"CNAME", "www">>}, {Record("CNAME", 2, 0, 0)}),
   Desired(Www, {Record("A", 2, 0, 0), Record("CNAME", 3, 0, 0)})}
MCZone == {Record("A", 1, 1, 1), Record("A", 2, 0, 2), Record("TXT", 1, 0, 3)}
MCForeign == {Record("A", 1, 0, 0), Record("TXT", 7, 0, 0), Record("A", 2, 1, 0)}

\* The packet of commit k1, and the documents of k2 that may replace its files one by one.
Documents == INSTANCE FirstWriteDocuments
Marker(k) == [wellFormed |-> TRUE, utc |-> TRUE, commit |-> k, run |-> "run"]
Bundle(k) ==
  [safe |-> TRUE, fixed |-> TRUE, commit |-> k, run |-> "run", destination |-> <<"cybercore-canary", "run">>,
   hashes |-> ("index.html" :> "canary") @@ ("cybercore-version.json" :> Marker(k)),
   protocol |-> "FTPS_EXPLICIT", endpoint |-> "host", capability |-> "cap", scope |-> "scope",
   verifier |-> "ver", verified |-> TRUE, rollbackTested |-> TRUE,
   authorization |->
     [status |-> "APPROVED", rollbackPermitted |-> TRUE, reference |-> "auth", commit |-> k, run |-> "run",
      destination |-> <<"cybercore-canary", "run">>, artifacts |-> Documents!Artifacts,
      protocol |-> "FTPS_EXPLICIT", endpoint |-> "host", scope |-> "scope"]]
Readiness(k) ==
  [safe |-> TRUE, fixed |-> TRUE, verified |-> Documents!Statuses, blockedUntil |-> Documents!Statuses,
   protocol |-> "FTPS_EXPLICIT", capability |-> "cap", scope |-> "scope", commit |-> k, hashes |-> "hashes",
   rollbackTested |-> TRUE, verifier |-> "ver", auth |-> "auth", bundle |-> "bundle", sha |-> Bundle(k)]
Manifest(k) ==
  [safe |-> TRUE, fixed |-> TRUE, run |-> "run", commit |-> k, auth |-> "auth",
   destination |-> <<"cybercore-canary", "run">>, artifacts |-> Documents!Artifacts]
PacketOf(m, r, e, v, i) ==
  ("manifest" :> m) @@ ("readiness" :> r) @@ ("evidence" :> e) @@ ("cybercore-version.json" :> v)
  @@ ("index.html" :> i) @@ ("others" :> {})
MCPacket == PacketOf(Manifest("k1"), Readiness("k1"), Bundle("k1"), Marker("k1"), "canary")
MCDrafts ==
  PacketOf({Manifest("k2")}, {Readiness("k2")},
           {Bundle("k2"), [Bundle("k1") EXCEPT !.authorization.status = "PENDING"]}, {Marker("k2")}, {"other"})

Page(n) ==
  [fixed |-> TRUE, digest |-> "page", content |-> "page",
   approval |-> [signed |-> TRUE, nonce |-> n, content |-> "page", issued |-> 0, expires |-> 2]]
MCPreviews == ("u1" :> Page("n1")) @@ ("u2" :> Page("n1"))

MCMemoryCommands ==
  {[kind |-> "checkpoint", identity |-> "i1"], [kind |-> "checkpoint", identity |-> "i2"],
   [kind |-> "merge", artifact |-> "a1", next |-> "a2", complete |-> TRUE],
   [kind |-> "merge", artifact |-> "a2", next |-> NoArtifact, complete |-> TRUE]}

Act(o, ref) == [operation |-> o, target |-> "canonical", plan |-> "p", reference |-> ref, arguments |-> {}]
MCActions ==
  ("e1" :> Act("system.inventory", "ref0")) @@ ("e2" :> Act("vikunja.backup.run", "ref1"))
  @@ ("e3" :> Act("vikunja.backup.install", "ref2"))
MCOutcomes ==
  {[ends |-> "zero", rows |-> 1, malformed |-> FALSE], [ends |-> "zero", rows |-> 0, malformed |-> TRUE],
   [ends |-> "error", rows |-> 1, malformed |-> FALSE], [ends |-> "absent", rows |-> 0, malformed |-> FALSE]}

MCAddressed == ("s1" :> {1, 2, 3}) @@ ("s2" :> {2})

Needed == {"manifest", "verify", "apply"}
Whole == Needed \cup {"before_apply", "after_apply", "rollback"}
Package(fs, listed) ==
  [files |-> [f \in Whole |-> IF f \in fs THEN "v1" ELSE Absent],
   sums |-> [f \in Whole |-> IF f \in listed THEN "v1" ELSE Absent]]
\* What the scripts of a package leave: all in order, another branch, or unrelated work of another repository.
Left(b, c, o) == [branch |-> b, clean |-> c, kernel |-> "mine", origin |-> o]
MCLeftBehind == {Left("feat", TRUE, "mine"), Left("main", TRUE, "mine"), Left("feat", FALSE, "fork")}
MCPackages ==
  {Package(Whole, Needed), Package(Needed, Needed),
   Package(Needed, Needed \ {"verify"})}
=============================================================================
