------------------------------ MODULE DnsApply ------------------------------
(***************************************************************************)
(* cybercore.cloudflare_dns.apply_manifest, run by an operator who planned *)
(* and approved before, for a manifest and then for the rollback manifest  *)
(* of its evidence.  Each request to the provider is a step and may fail;  *)
(* others edit the zone at any time; the process may stop at any point.    *)
(***************************************************************************)
EXTENDS DnsPlan

CONSTANTS
  Manifests,  \* the manifests an operator may apply
  Zone,       \* what the zone holds at first
  Foreign,    \* records others may put into the zone
  MaxEdits    \* bound on the edits of others

\* What is assumed of the constants; the provider numbers the records of the zone.
DnsAssumption ==
  /\ \A r \in Zone : r.id \in 1..Cardinality(Zone)
  /\ \A r, s \in Zone : r.id = s.id => r = s
  /\ Zone \subseteq Record /\ IsFiniteSet(Zone) /\ Foreign \subseteq Record
  /\ \A doc \in Manifests : doc.records \subseteq Record /\ IsFiniteSet(doc.records)

VARIABLES
  zone,     \* the provider: [status, records, fresh], fresh the next record id
  dns,      \* the running command, a record
  evidence, \* the rollback manifest of the first command, the receipt of the running one
  dnsHist   \* history: see below

dnsVars == <<zone, dns, evidence, dnsHist>>

NoDoc == [readable |-> FALSE]
NoFingerprint == <<>>
Idle == [pc |-> "idle", doc |-> NoDoc, approved |-> NoFingerprint, status |-> "none", current |-> {}]
NoEvidence == [manifest |-> NoDoc, receipt |-> "none"]

\* edits: how many edits others made, and whether one was made since the boundary was
\* looked at; before: the managed records the first batch found; seen: whether the last
\* verification found nothing left to change; reached: the batches that reached the zone.
NoHistory == [edits |-> 0, dirty |-> FALSE, before |-> {}, seen |-> FALSE, reached |-> 0, command |-> 0]

DnsInit ==
  /\ zone = [status |-> "active", records |-> Zone, fresh |-> Cardinality(Zone) + 1]
  /\ dns = Idle /\ evidence = NoEvidence /\ dnsHist = NoHistory

-----------------------------------------------------------------------------
Changes == BuildPlan(dns.doc, dns.current)
Go(l) == dns' = [dns EXCEPT !.pc = l]
DnsFail == Go("raised") /\ UNCHANGED <<zone, evidence, dnsHist>>

\* A plan of a manifest is shown, and its fingerprint approved; the second command
\* is the rollback of what the first one prepared.
PlanCommand ==
  /\ dns.pc \in {"idle", "returned", "raised", "dead"} /\ dnsHist.command < 2
  /\ \E doc \in IF dnsHist.command = 0 THEN Manifests ELSE {evidence.manifest} \ {NoDoc} :
       /\ Loaded(doc) /\ Plannable(doc, zone.status, zone.records)
       /\ dns' = [Idle EXCEPT !.pc = "plan", !.doc = doc,
                  !.approved = Fingerprint(doc, zone.status, BuildPlan(doc, zone.records))]
  /\ dnsHist' = [dnsHist EXCEPT !.command = @ + 1, !.seen = FALSE]
  /\ evidence' = [evidence EXCEPT !.receipt = "none"] /\ UNCHANGED zone

\* plan_from_manifest: the zone's identity and status, and then its records.
FindZone ==
  /\ dns.pc = "plan"
  /\ \/ /\ ~dns.doc.template /\ zone.status \in {"active", "pending"}
        /\ dns' = [dns EXCEPT !.pc = "list", !.status = zone.status]
        /\ UNCHANGED <<zone, evidence, dnsHist>>
     \/ DnsFail

\* The plan that is found now must be the one approved.
ListRecords ==
  /\ dns.pc = "list"
  /\ \/ /\ Plannable(dns.doc, dns.status, zone.records)
        /\ Fingerprint(dns.doc, dns.status, BuildPlan(dns.doc, zone.records)) = dns.approved
        /\ dns' = [dns EXCEPT !.current = zone.records,
                   !.pc = IF BuildPlan(dns.doc, zone.records) = {} THEN "verify" ELSE "evidence"]
        /\ UNCHANGED <<zone, evidence, dnsHist>>
     \/ DnsFail

\* A new directory with the snapshot, the rollback manifest and the rollback receipt,
\* in this order, each created exclusively; any may fail.
PrepareEvidence ==
  /\ dns.pc = "evidence"
  /\ \E written \in 0..3 :
       /\ evidence' = IF dnsHist.command = 1 /\ written >= 2
                      THEN [evidence EXCEPT !.manifest = RollbackManifest(dns.doc, dns.current)] ELSE evidence
       /\ IF written = 3 THEN Go("identity") \/ Go("raised") ELSE Go("raised")
  /\ UNCHANGED <<zone, dnsHist>>

\* The mutation boundary: zone identity and status have not changed ...
BoundaryIdentity ==
  /\ dns.pc = "identity"
  /\ \/ zone.status = dns.status /\ Go("boundary") /\ UNCHANGED <<zone, evidence, dnsHist>>
     \/ DnsFail

\* Mutant: the managed records are compared without their metadata.
BoundaryRecordsLax ==
  /\ dns.pc = "boundary"
  /\ \/ /\ Fingerprint(dns.doc, dns.status, BuildPlan(dns.doc, zone.records)) = dns.approved
        /\ dnsHist' = [dnsHist EXCEPT !.dirty = FALSE]
        /\ Go("batch") /\ UNCHANGED <<zone, evidence>>
     \/ DnsFail

\* ... nor have the managed records, their metadata included, and the plan is the same.
BoundaryRecords ==
  /\ dns.pc = "boundary"
  /\ \/ /\ ManagedSnapshot(dns.doc, zone.records) = ManagedSnapshot(dns.doc, dns.current)
        /\ Plannable(dns.doc, dns.status, zone.records)
        /\ Fingerprint(dns.doc, dns.status, BuildPlan(dns.doc, zone.records)) = dns.approved
        /\ dnsHist' = [dnsHist EXCEPT !.dirty = FALSE]
        /\ Go("batch") /\ UNCHANGED <<zone, evidence>>
     \/ DnsFail

\* The provider executes a batch wholly or not at all: it needs the records that are
\* deleted and patched, and refuses duplicates.  A patch without metadata keeps it.
BatchTarget(c) == {r \in zone.records : c.before # <<>> /\ r.id = c.before.id}
Patched(r, after) == [after EXCEPT !.id = r.id, !.meta = IF after.meta = 0 THEN r.meta ELSE after.meta]
Posts(changes) ==
  LET created == {c.after : c \in {d \in changes : d.action = "CREATE"}} IN
  CHOOSE f \in [1..Cardinality(created) -> created] : IsInjective(f)
Batched(changes) ==
  LET kept == zone.records \ UNION {BatchTarget(c) : c \in changes}
      updated == UNION {{Patched(r, c.after) : r \in BatchTarget(c)} : c \in {d \in changes : d.action = "UPDATE"}}
      posts == Posts(changes) IN
  kept \cup updated \cup {[posts[i] EXCEPT !.id = zone.fresh + i] : i \in DOMAIN posts}

BatchAccepted(changes) ==
  /\ \A c \in changes : c.before # <<>> => BatchTarget(c) # {}
  /\ \A r, s \in Batched(changes) : SemanticKey(r) = SemanticKey(s) \/ r.id = s.id => r = s

\* The receipt is created exclusively, which may fail and then raises.
Receipt(status) == \E s \in {status, "none"} : evidence' = [evidence EXCEPT !.receipt = s]

\* The batch is applied or refused, and its answer may be lost; then a receipt says that
\* reconciliation is required.
ApplyBatch ==
  /\ dns.pc = "batch"
  /\ \E reaches, answered \in BOOLEAN :
       /\ IF reaches /\ BatchAccepted(Changes)
          THEN /\ zone' = [zone EXCEPT !.records = Batched(Changes), !.fresh = @ + Len(Posts(Changes)) + 1]
               /\ dnsHist' = [dnsHist EXCEPT !.reached = @ + 1,
                              !.before = IF dnsHist.command = 1 THEN Restorable(dns.doc, zone.records) ELSE @]
               /\ IF answered THEN Go("verify") /\ UNCHANGED evidence
                  ELSE Go("raised") /\ Receipt("WRITE_ERROR_RECONCILIATION_REQUIRED")
          ELSE Go("raised") /\ Receipt("WRITE_ERROR_RECONCILIATION_REQUIRED") /\ UNCHANGED <<zone, dnsHist>>

\* Mutant: a verification that did not converge is reported as verified.
VerifyLax ==
  /\ dns.pc = "verify"
  /\ dnsHist' = [dnsHist EXCEPT !.seen = BuildPlan(dns.doc, zone.records) = {}]
  /\ Receipt("VERIFIED") /\ Go("returned") /\ UNCHANGED zone

\* The plan is made again; what remains to be changed decides the receipt.
Verify ==
  /\ dns.pc = "verify"
  /\ LET left == BuildPlan(dns.doc, zone.records)
         converged == left = {} IN
     \/ /\ Plannable(dns.doc, zone.status, zone.records)
        /\ IF Changes = {} THEN UNCHANGED evidence ELSE Receipt(IF converged THEN "VERIFIED" ELSE "NON_CONVERGED")
        /\ dnsHist' = [dnsHist EXCEPT !.seen = converged]
        /\ Go(IF converged /\ (Changes = {} \/ evidence'.receipt # "none") THEN "returned" ELSE "raised")
     \/ /\ IF Changes = {} THEN UNCHANGED evidence ELSE Receipt("POST_WRITE_VERIFICATION_ERROR")
        /\ Go("raised") /\ UNCHANGED dnsHist
  /\ UNCHANGED zone

DnsStep ==
  \/ PlanCommand \/ FindZone \/ ListRecords \/ PrepareEvidence \/ BoundaryIdentity \/ BoundaryRecords
  \/ ApplyBatch \/ Verify

\* Others change the zone's status, or put, replace or remove a record.
ForeignEdit ==
  /\ dnsHist.edits < MaxEdits
  /\ \/ \E s \in {"active", "pending", "moved"} \ {zone.status} : zone' = [zone EXCEPT !.status = s]
     \/ \E r \in zone.records : zone' = [zone EXCEPT !.records = @ \ {r}]
     \/ \E r \in zone.records, f \in Foreign :
          /\ zone' = [zone EXCEPT !.records = (@ \ {r}) \cup {[f EXCEPT !.id = r.id]}]
          /\ \A s \in zone.records \ {r} : SemanticKey(s) # SemanticKey(f)
     \/ \E f \in Foreign :
          /\ zone' = [zone EXCEPT !.records = @ \cup {[f EXCEPT !.id = zone.fresh]}, !.fresh = @ + 1]
          /\ \A s \in zone.records : SemanticKey(s) # SemanticKey(f)
  /\ dnsHist' = [dnsHist EXCEPT !.edits = @ + 1, !.dirty = TRUE]
  /\ UNCHANGED <<dns, evidence>>

DnsStops == dns.pc \notin {"idle", "returned", "raised", "dead"} /\ Go("dead") /\ UNCHANGED <<zone, evidence, dnsHist>>

DnsNext == DnsStep \/ ForeignEdit \/ DnsStops

-----------------------------------------------------------------------------
\* A batch that reaches the zone was approved as such, and the evidence of it is a manifest
\* that loads, if the managed records that were listed may be stated by a manifest at all.
\* It holds every managed record the zone had, and the batch leaves the others alone: unless
\* somebody edited the zone after the boundary was looked at, which the code cannot see.
WriteIsGuarded ==
  [][dnsHist'.reached > dnsHist.reached =>
       /\ Fingerprint(dns.doc, dns.status, Changes) = dns.approved
       /\ dnsHist.command = 1 /\ Statable(dns.doc, dns.current) => LoadRollbackManifest(evidence.manifest)
       /\ ~dnsHist.dirty =>
            /\ dnsHist.command = 1 => evidence.manifest.records = Restorable(dns.doc, zone.records)
            /\ zone.records \ Managed(dns.doc, zone.records) = zone'.records \ Managed(dns.doc, zone'.records)
    ]_dnsVars

\* Verified means that nothing was left to change when the zone was looked at after the batch.
VerifiedIsSeen ==
  /\ dns.pc = "returned" => dnsHist.seen
  /\ evidence.receipt = "VERIFIED" => dnsHist.seen

\* The rollback of a command gives the managed records back, metadata included, if nobody else edited.
RollbackRestores ==
  dnsHist.command = 2 /\ dns.pc = "returned" /\ dnsHist.edits = 0 /\ dnsHist.reached > 0 =>
    Restorable(dns.doc, zone.records) = dnsHist.before
=============================================================================
