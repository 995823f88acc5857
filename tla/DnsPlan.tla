------------------------------- MODULE DnsPlan -------------------------------
(***************************************************************************)
(* cybercore.cloudflare_dns: manifests and plans.  A record has a content  *)
(* and metadata that are numbers (content 0 of an MX is ".", metadata 0 is *)
(* none), priority -1 is absent, id 0 is unknown.  A zone is a set of      *)
(* records; the provider refuses two that differ in metadata or id only.   *)
(***************************************************************************)
EXTENDS Integers, Sequences, FiniteSets, Functions

SupportedTypes == {"A", "AAAA", "CNAME", "MX", "TXT"}
ProxyCapable == {"A", "AAAA", "CNAME"}
AddressTypes == {"A", "AAAA"}

Record ==
  [type : STRING, name : STRING, content : Int, ttl : Int, proxied : BOOLEAN, priority : Int, meta : Int, id : Int]

RecordSet(r) == <<r.type, r.name>>
SemanticKey(r) == [r EXCEPT !.meta = 0, !.id = 0]

\* What a restore payload holds: everything but the identity.
RestorePayload(r) == [r EXCEPT !.id = 0]

MaxTTL == 86400
MaxPriority == 65535

ValidRecord(r) ==
  /\ r.type \in SupportedTypes
  /\ r.ttl = 1 \/ r.ttl \in 60..MaxTTL
  /\ r.proxied => r.type \in ProxyCapable /\ r.ttl = 1
  /\ IF r.type = "MX" THEN r.priority \in 0..MaxPriority ELSE r.priority = -1

\* What the records of one name may be together.
ConsistentNames(records) ==
  \A r, s \in records : r.name = s.name /\ r # s =>
    /\ r.type # "CNAME"
    /\ r.type = "MX" /\ s.type = "MX" => r.content # 0
    /\ {r.type, s.type} \subseteq AddressTypes => r.proxied = s.proxied

ValidRecords(doc) ==
  /\ \A r \in doc.records : ValidRecord(r) /\ RecordSet(r) \in doc.managed
  /\ \A r, s \in doc.records : SemanticKey(r) = SemanticKey(s) => r = s
  /\ \A r \in doc.records : r.type = "MX" /\ r.content = 0 => r.priority = 0
  /\ ConsistentNames(doc.records)

\* A document that reads as YAML without anchors, aliases, directives and duplicate
\* keys, of the right version and with known keys only, is "readable".
LoadManifest(doc) ==
  /\ doc.readable /\ ~doc.rollback /\ doc.managed # {}
  /\ \A s \in doc.managed : s[1] \in SupportedTypes
  /\ ValidRecords(doc) /\ \A r \in doc.records : r.meta = 0

LoadRollbackManifest(doc) ==
  /\ doc.readable /\ doc.rollback /\ doc.managed # {} /\ ~doc.template
  /\ \A s \in doc.managed : s[1] \in SupportedTypes
  /\ ValidRecords(doc)

Loaded(doc) == LoadManifest(doc) \/ LoadRollbackManifest(doc)

Managed(doc, records) == {r \in records : RecordSet(r) \in doc.managed}
Restorable(doc, records) == {RestorePayload(r) : r \in Managed(doc, records)}

\* The managed records may be stated by one manifest.
Statable(doc, records) == ValidRecords([managed |-> doc.managed, records |-> Managed(doc, records)])

\* Desired records must not clash with what the zone holds beside the managed ones.
NameConflict(doc, current) ==
  \E d \in doc.records : \E u \in current \ Managed(doc, current) :
    /\ d.name = u.name
    /\ \/ u.type = "NS"
       \/ d.type = "CNAME" /\ u.type \in ProxyCapable
       \/ /\ d.type \in AddressTypes
          /\ u.type = "CNAME" \/ (u.type \in AddressTypes /\ u.proxied # d.proxied)

\* Matching and pairing ignore the metadata unless the manifest is a rollback.
PlanningKey(r, rollback) == IF rollback THEN RestorePayload(r) ELSE SemanticKey(r)

\* The order of the planning keys within a record set.  The metadata, which only a rollback's
\* keys have, never decides: no zone and no manifest holds two records that differ in it only.
Precedes(r, s) ==
  LET Key(q) == <<q.content, q.ttl, IF q.proxied THEN 1 ELSE 0, q.priority, q.meta>> IN
  \E i \in 1..5 : Key(r)[i] < Key(s)[i] /\ \A j \in 1..(i - 1) : Key(r)[j] = Key(s)[j]

Change(action, before, after) == [action |-> action, before |-> before, after |-> after]

\* The place of r in S in the order that changes are paired in.
Rank(r, S) == Cardinality({s \in S : Precedes(s, r)})

\* One record set: what matches stays, the others are paired in order.
RecordSetChanges(doc, current, recordset) ==
  LET Key(r) == PlanningKey(r, doc.rollback)
      mine == {r \in current : RecordSet(r) = recordset}
      wanted == {r \in doc.records : RecordSet(r) = recordset}
      old == {r \in mine : \A s \in wanted : Key(r) # Key(s)}
      new == {s \in wanted : \A r \in mine : Key(r) # Key(s)} IN
  {Change("UPDATE", p[1], p[2]) : p \in {q \in old \X new : Rank(q[1], old) = Rank(q[2], new)}}
  \cup {Change("CREATE", <<>>, s) : s \in {t \in new : Rank(t, new) >= Cardinality(old)}}
  \cup {Change("DELETE", r, <<>>) : r \in {t \in old : Rank(t, old) >= Cardinality(new)}}

BuildPlan(doc, current) == UNION {RecordSetChanges(doc, current, s) : s \in doc.managed}

\* A zone that may be planned for: its status, the names, and the size of the plan.
Plannable(doc, status, current) ==
  /\ status \in {"active", "pending"} /\ ~NameConflict(doc, current)
  /\ Cardinality(BuildPlan(doc, current)) <= 200

\* What the managed snapshot fingerprint is taken of.
ManagedSnapshot(doc, current) == Managed(doc, current)

\* The plan's fingerprint: metadata counts only in a rollback.
Fingerprint(doc, status, changes) ==
  LET Shown(r) == IF r = <<>> \/ doc.rollback THEN r ELSE [r EXCEPT !.meta = 0] IN
  <<doc.rollback, status, {Change(c.action, Shown(c.before), Shown(c.after)) : c \in changes}>>

\* Mutant: the rollback manifest forgets the metadata of the records.
RollbackManifestPlain(doc, current) ==
  [readable |-> TRUE, rollback |-> TRUE, template |-> FALSE, managed |-> doc.managed,
   records |-> {SemanticKey(r) : r \in Managed(doc, current)}]

\* The rollback manifest of the evidence: the managed records with their metadata.
RollbackManifest(doc, current) ==
  [readable |-> TRUE, rollback |-> TRUE, template |-> FALSE, managed |-> doc.managed,
   records |-> Restorable(doc, current)]
=============================================================================
