--------------------------- MODULE AuditLogProofs ---------------------------
(***************************************************************************)
(* Proofs about AuditLog for every set of events, publishers and           *)
(* identities: the chain verifies, holds the event of each committed sink  *)
(* call once, and accepted anchors advance and detect damage.              *)
(***************************************************************************)
EXTENDS AuditLog, TLAPS, WellFoundedInduction

RowType == [seq : Nat, payload : Payloads, prior : Digests, digest : Digests]

\* What the inductive argument is about.
IInv == Inv /\ StoredExactlyOnce

\* The last hash of a chain is a digest.
LEMMA LastHashTyped ==
  ASSUME TypeOK
  PROVE  LastHash \in Digests
<1>1. CASE rows = <<>>
  BY <1>1 DEF LastHash, GENESIS, Digests
<1>2. CASE rows # <<>>
  <2>1. Len(rows) \in DOMAIN rows /\ rows \in Seq(RowType)
    BY <1>2 DEF TypeOK, RowType
  <2>2. rows[Len(rows)] \in RowType
    BY <2>1
  <2>3. QED BY <1>2, <2>2 DEF LastHash, Last, RowType
<1>3. QED BY <1>1, <1>2

\* A step of a sink call that leaves the table alone keeps the invariant if the
\* call then holds the lock, or gave it up.
LEMMA SinkFrame ==
  ASSUME IInv, NEW e \in Events, UNCHANGED <<rows, lastSeq, damaged, anchorVars>>,
         NEW l \in {"begun", "read", "raised"}, SinkTo(e, l), e \notin Committed,
         \/ l = "raised" /\ UNCHANGED previous /\ lock' = lock /\ lock # e
         \/ l = "raised" /\ UNCHANGED previous /\ lock' = Free /\ lock = e
         \/ l = "begun" /\ UNCHANGED previous /\ lock = Free /\ lock' = e
         \/ l = "read" /\ lock = e /\ lock' = e /\ previous' = [previous EXCEPT ![e] = LastHash]
  PROVE  IInv'
<1>1. TypeOK'
  BY LastHashTyped DEF IInv, Inv, TypeOK, SinkTo, anchorVars
<1>2. LastHash' = LastHash
  BY DEF LastHash
<1>3. Serialized'
  BY <1>2, AuditAssumption DEF IInv, Inv, Serialized, SinkTo, TypeOK
<1>4. ChainIntact'
  BY DEF IInv, Inv, ChainIntact
<1>5. StoredExactlyOnce'
  BY DEF IInv, Inv, StoredExactlyOnce, Committed, SinkTo, TypeOK
<1>6. QED BY <1>1, <1>3, <1>4, <1>5 DEF IInv, Inv

LEMMA BeginKeeps ==
  ASSUME IInv, NEW e \in Events, Begin(e)
  PROVE  IInv'
<1>1. lock # e
  BY DEF IInv, Inv, Serialized, Begin
<1>2. CASE e \in Oversized \/ lock # Free
  <2>1. /\ SinkTo(e, "raised") /\ UNCHANGED <<lock, rows, lastSeq, damaged, previous, anchorVars>>
        /\ sink[e] = "idle"
    BY <1>2 DEF Begin
  <2>2. lock' = lock /\ lock # e /\ UNCHANGED previous /\ e \notin Committed
    BY <1>1, <2>1 DEF Committed
  <2>3. UNCHANGED <<rows, lastSeq, damaged, anchorVars>>
    BY <2>1
  <2>4. QED BY <2>1, <2>2, <2>3, SinkFrame
<1>3. CASE e \notin Oversized /\ lock = Free
  BY <1>3, SinkFrame DEF Begin, Committed
<1>4. QED BY <1>2, <1>3

LEMMA ReadLastKeeps ==
  ASSUME IInv, NEW e \in Events, ReadLast(e)
  PROVE  IInv'
<1>1. lock = e
  BY DEF IInv, Inv, Serialized, ReadLast
<1>2. QED BY <1>1, SinkFrame DEF ReadLast, Committed, dbVars

LEMMA RollbackKeeps ==
  ASSUME IInv, NEW e \in Events, Rollback(e)
  PROVE  IInv'
<1>1. lock = e
  BY DEF IInv, Inv, Serialized, Rollback
<1>2. QED BY <1>1, SinkFrame DEF Rollback, Committed

\* The row a commit appends.
LEMMA CommitKeeps ==
  ASSUME IInv, NEW e \in Events, Commit(e)
  PROVE  IInv'
<1> DEFINE row == Row(lastSeq + 1, e, previous[e], Hash(previous[e], e))
<1>1. lock = e /\ previous[e] = LastHash /\ previous[e] \in Digests
  BY DEF IInv, Inv, TypeOK, Serialized, Commit
<1>2. row \in RowType /\ rows \in Seq(RowType)
  BY <1>1 DEF IInv, Inv, TypeOK, Row, RowType, Hash, Payloads, Digests
<1>3. /\ rows' \in Seq(RowType) /\ Len(rows') = Len(rows) + 1
      /\ rows'[Len(rows) + 1] = row
      /\ \A i \in DOMAIN rows : i \in 1..Len(rows) /\ rows'[i] = rows[i]
      /\ DOMAIN rows' = DOMAIN rows \cup {Len(rows) + 1}
      /\ DOMAIN rows = 1..Len(rows) /\ Len(rows) \in Nat
  BY <1>2 DEF Commit
<1> HIDE DEF row
<1>4. TypeOK'
  BY <1>3 DEF IInv, Inv, TypeOK, Commit, SinkTo, RowType, anchorVars
<1>5. Serialized'
  BY <1>1, AuditAssumption DEF IInv, Inv, TypeOK, Serialized, Commit, SinkTo
<1>6. ChainIntact'
  <2> SUFFICES ASSUME ~damaged PROVE Chain(rows)' /\ (lastSeq = Len(rows))'
    BY DEF ChainIntact, Commit
  <2>1. Chain(rows) /\ lastSeq = Len(rows)
    BY DEF IInv, Inv, ChainIntact
  <2>2. LastHash = IF Len(rows) + 1 = 1 THEN GENESIS ELSE rows[Len(rows)].digest
    BY <1>2 DEF LastHash, Last
  <2>3. /\ row.seq = Len(rows) + 1 /\ row.prior = LastHash
        /\ row.digest = Hash(row.prior, row.payload)
    BY <1>1, <2>1 DEF row, Row
  <2>4. ASSUME NEW i \in DOMAIN rows'
        PROVE  /\ rows'[i].seq = i
               /\ rows'[i].prior = IF i = 1 THEN GENESIS ELSE rows'[i - 1].digest
               /\ rows'[i].digest = Hash(rows'[i].prior, rows'[i].payload)
    <3>1. CASE i \in DOMAIN rows
      <4>1. i # 1 => i - 1 \in DOMAIN rows
        BY <1>3, <3>1
      <4>2. QED BY <1>3, <2>1, <3>1, <4>1 DEF Chain
    <3>2. CASE i = Len(rows) + 1
      <4>1. i # 1 => i - 1 = Len(rows) /\ i - 1 \in DOMAIN rows
        BY <1>3, <3>2
      <4>2. QED BY <1>3, <2>2, <2>3, <3>2, <4>1
    <3>3. QED BY <1>3, <3>1, <3>2
  <2>5. QED BY <1>3, <2>1, <2>4 DEF Chain, Commit
<1>7. StoredExactlyOnce'
  <2> SUFFICES ASSUME ~damaged
               PROVE  /\ \A d \in Events : (d \in Committed)' <=>
                                            \E i \in DOMAIN rows' : rows'[i].payload = d
                      /\ \A i, j \in DOMAIN rows' : rows'[i].payload = rows'[j].payload => i = j
    BY DEF StoredExactlyOnce, Commit
  <2>1. row.payload = e
    BY DEF row, Row
  <2>2. \A i \in DOMAIN rows : rows[i].payload # e
    BY DEF IInv, StoredExactlyOnce, Commit, Committed
  <2>3. \A d \in Events : (d \in Committed)' <=> d = e \/ d \in Committed
    BY DEF IInv, Inv, TypeOK, Commit, SinkTo, Committed
  <2>4. QED BY <1>3, <2>1, <2>2, <2>3 DEF IInv, StoredExactlyOnce
<1>8. QED BY <1>4, <1>5, <1>6, <1>7 DEF IInv, Inv

\* Publishers do not touch the database.
LEMMA PublisherFrame ==
  ASSUME IInv, UNCHANGED <<dbVars, sinkVars>>,
         publisher' \in [Publishers -> [at : {"idle", "export", "propose", "accept"},
                                       prior : Checkpoints, candidate : Checkpoints]],
         accepted' \in [Identities -> Checkpoints]
  PROVE  IInv'
<1>1. TypeOK' /\ Serialized' /\ ChainIntact' /\ StoredExactlyOnce'
  BY DEF IInv, Inv, TypeOK, Serialized, ChainIntact, StoredExactlyOnce, Committed, LastHash, dbVars, sinkVars
<1>2. QED BY <1>1 DEF IInv, Inv

\* An exported checkpoint is well formed.
LEMMA ExportTyped ==
  ASSUME TypeOK, NEW id \in Identities
  PROVE  Export(id) \in Checkpoints
<1>1. CASE rows = <<>>
  BY <1>1 DEF Export, Checkpoint, Checkpoints, GENESIS, Digests
<1>2. CASE rows # <<>>
  <2>1. Len(rows) \in DOMAIN rows /\ rows \in Seq(RowType)
    BY <1>2 DEF TypeOK, RowType
  <2>2. rows[Len(rows)] \in RowType
    BY <2>1
  <2>3. QED BY <1>2, <2>2 DEF Export, Last, Checkpoint, Checkpoints, RowType
<1>3. QED BY <1>1, <1>2

LEMMA PublisherKeeps ==
  ASSUME IInv, NEW p \in Publishers,
         ReadAccepted(p) \/ ExportCheckpoint(p) \/ Propose(p) \/ AcceptIfCurrent(p)
  PROVE  IInv'
<1> DEFINE Pub == [at : {"idle", "export", "propose", "accept"},
                   prior : Checkpoints, candidate : Checkpoints]
<1>1. TypeOK /\ publisher \in [Publishers -> Pub] /\ accepted \in [Identities -> Checkpoints]
  BY DEF IInv, Inv, TypeOK
<1>2. Idle \in Pub
  BY DEF Idle, Checkpoints
<1>3. CASE ReadAccepted(p)
  <2>1. accepted[Identity[p]] \in Checkpoints
    BY <1>1, AuditAssumption
  <2>2. publisher' \in [Publishers -> Pub]
    BY <1>1, <1>2, <1>3, <2>1 DEF ReadAccepted, Idle
  <2>3. QED BY <1>1, <1>3, <2>2, PublisherFrame DEF ReadAccepted
<1>4. CASE ExportCheckpoint(p)
  <2>1. PICK id \in Identities : publisher' = [publisher EXCEPT ![p] =
          IF Verified THEN [publisher[p] EXCEPT !.at = "propose", !.candidate = Export(id)] ELSE Idle]
    BY <1>4 DEF ExportCheckpoint
  <2>2. [publisher[p] EXCEPT !.at = "propose", !.candidate = Export(id)] \in Pub
    BY <1>1, ExportTyped
  <2>3. publisher' \in [Publishers -> Pub]
    BY <1>1, <1>2, <2>1, <2>2
  <2>4. QED BY <1>1, <1>4, <2>3, PublisherFrame DEF ExportCheckpoint
<1>5. CASE Propose(p)
  <2>1. publisher' \in [Publishers -> Pub]
    BY <1>1, <1>2, <1>5 DEF Propose
  <2>2. QED BY <1>1, <1>5, <2>1, PublisherFrame DEF Propose
<1>6. CASE AcceptIfCurrent(p)
  <2>1. publisher' \in [Publishers -> Pub]
    BY <1>1, <1>2, <1>6 DEF AcceptIfCurrent
  <2>2. accepted' \in [Identities -> Checkpoints]
    BY <1>1, <1>6 DEF AcceptIfCurrent
  <2>3. QED BY <1>6, <2>1, <2>2, PublisherFrame DEF AcceptIfCurrent
<1>7. QED BY <1>3, <1>4, <1>5, <1>6

\* Damage leaves well-formed rows, and nobody is in a transaction.
LEMMA DamageKeeps ==
  ASSUME IInv, Edit \/ Lose \/ Restore
  PROVE  IInv'
<1>1. damaged' = TRUE /\ lock = Free /\ lock' = lock /\ UNCHANGED <<sinkVars, anchorVars>>
  BY DEF Edit, Lose, Restore, Damage
<1>2. rows \in Seq(RowType)
  BY DEF IInv, Inv, TypeOK, RowType
<1>3. rows' \in Seq(RowType) /\ lastSeq' \in Nat
  <2>1. CASE Edit
    <3>1. PICK i \in DOMAIN rows : rows' = [rows EXCEPT ![i].payload = Forged]
      BY <2>1 DEF Edit
    <3>2. rows[i] \in RowType
      BY <1>2
    <3>3. [rows[i] EXCEPT !.payload = Forged] \in RowType
      BY <3>2 DEF RowType, Payloads
    <3>4. rows' = [rows EXCEPT ![i] = [rows[i] EXCEPT !.payload = Forged]]
      BY <3>1
    <3>5. rows' \in Seq(RowType)
      BY <1>2, <3>3, <3>4
    <3>6. QED BY <2>1, <3>5 DEF Edit, IInv, Inv, TypeOK
  <2>2. CASE Lose
    <3>1. PICK i \in DOMAIN rows : rows' = RemoveAt(rows, i)
      BY <2>2 DEF Lose
    <3>2. i \in 1..Len(rows) /\ Len(rows) \in Nat
      BY <1>2, <3>1
    <3>3. SubSeq(rows, 1, i - 1) \in Seq(RowType) /\ SubSeq(rows, i + 1, Len(rows)) \in Seq(RowType)
      BY <1>2, <3>2
    <3>4. SubSeq(rows, 1, i - 1) \o SubSeq(rows, i + 1, Len(rows)) \in Seq(RowType)
      BY <3>3
    <3>5. rows' \in Seq(RowType)
      BY <3>1, <3>4 DEF RemoveAt
    <3>6. QED BY <2>2, <3>5 DEF Lose, IInv, Inv, TypeOK
  <2>3. CASE Restore
    <3>1. PICK n \in 0..(Len(rows) - 1) : rows' = SubSeq(rows, 1, n) /\ lastSeq' = n
      BY <2>3 DEF Restore
    <3>2. QED BY <1>2, <3>1
  <2>4. QED BY <2>1, <2>2, <2>3
<1>4. TypeOK'
  BY <1>1, <1>3 DEF IInv, Inv, TypeOK, RowType, sinkVars, anchorVars
<1>5. Serialized'
  BY <1>1, AuditAssumption DEF IInv, Inv, Serialized, sinkVars
<1>6. QED BY <1>1, <1>4, <1>5 DEF IInv, Inv, ChainIntact, StoredExactlyOnce

LEMMA InitIInv == Init => IInv
<1> SUFFICES ASSUME Init PROVE IInv
  OBVIOUS
<1>1. NoAnchor \in Checkpoints /\ GENESIS \in Digests
  BY DEF Checkpoints, Digests, GENESIS
<1> HIDE DEF NoAnchor, GENESIS, Checkpoints, Digests
<1>2. TypeOK
  <2>1. Idle \in [at : {"idle", "export", "propose", "accept"},
                  prior : Checkpoints, candidate : Checkpoints]
    BY <1>1 DEF Idle
  <2>2. rows \in Seq([seq : Nat, payload : Payloads, prior : Digests, digest : Digests])
    BY DEF Init
  <2>3. QED BY <1>1, <2>1, <2>2 DEF Init, TypeOK
<1>3. Serialized /\ ChainIntact /\ StoredExactlyOnce
  BY AuditAssumption DEF Init, Serialized, ChainIntact, Chain, StoredExactlyOnce, Committed
<1>4. QED BY <1>2, <1>3 DEF IInv, Inv

LEMMA NextIInv == IInv /\ [Next]_vars => IInv'
<1> SUFFICES ASSUME IInv, [Next]_vars PROVE IInv'
  OBVIOUS
<1>1. CASE UNCHANGED vars
  BY <1>1 DEF vars, dbVars, sinkVars, anchorVars, IInv, Inv, TypeOK, Serialized, ChainIntact,
     StoredExactlyOnce, Committed, LastHash
<1>2. QED BY <1>1, BeginKeeps, ReadLastKeeps, CommitKeeps, RollbackKeeps, PublisherKeeps, DamageKeeps
          DEF Next

-----------------------------------------------------------------------------
\* Whatever sink calls race, fail and die: their transactions are serialized and
\* the undamaged chain verifies.
THEOREM Invariance == Spec => []Inv
<1>1. IInv => Inv
  BY DEF IInv
<1>2. QED BY <1>1, InitIInv, NextIInv, PTL DEF Spec

\* While the file is not damaged, the events of the chain are those of the sink
\* calls that reached their commit point, each once: a call that returned stored
\* its event, and one that raised or died before the commit left nothing.
THEOREM EventsStoredOnce == Spec => []StoredExactlyOnce
<1>1. IInv => StoredExactlyOnce
  BY DEF IInv
<1>2. QED BY <1>1, InitIInv, NextIInv, PTL DEF Spec

-----------------------------------------------------------------------------
\* A non-empty set of natural numbers has a least element.
LEMMA LeastNatural ==
  ASSUME NEW T \in SUBSET Nat, T # {}
  PROVE  \E n \in T : \A m \in T : n <= m
<1>1. PICK n \in T : \A m \in T : <<m, n>> \notin OpToRel(<, Nat)
  <2>1. IsWellFoundedOn(OpToRel(<, Nat), Nat)
    BY NatLessThanWellFounded
  <2> QED BY <2>1, WFMin
<1>2. ASSUME NEW m \in T PROVE n <= m
  <2>1. <<m, n>> \notin OpToRel(<, Nat)
    BY <1>1
  <2>2. ~ (m < n)
    BY <2>1 DEF OpToRel
  <2> QED BY <2>2
<1>3. QED BY <1>2

\* Each digest of a chain that verifies stands for all payloads up to its row.
LEMMA ChainDigests ==
  ASSUME NEW r \in Seq(RowType), Chain(r), NEW k \in DOMAIN r
  PROVE  r[k].digest = [j \in 1..k |-> r[j].payload]
<1> DEFINE Wrong == {i \in DOMAIN r : r[i].digest # [j \in 1..i |-> r[j].payload]}
<1> SUFFICES ASSUME Wrong # {} PROVE FALSE
  OBVIOUS
<1>1. DOMAIN r = 1..Len(r) /\ Len(r) \in Nat /\ Wrong \in SUBSET Nat
  OBVIOUS
<1>2. PICK m \in Wrong : \A n \in Wrong : m <= n
  <2> HIDE DEF Wrong
  <2> QED BY <1>1, LeastNatural
<1>3. m \in DOMAIN r /\ m \in Nat /\ r[m] \in RowType /\ r[m].digest # [j \in 1..m |-> r[j].payload]
  BY <1>1
<1>4. \A i \in DOMAIN r : i < m => r[i].digest = [j \in 1..i |-> r[j].payload]
  BY <1>1, <1>2
<1> HIDE DEF Wrong
<1>5. r[m].digest = Append(r[m].prior, r[m].payload)
  BY <1>3 DEF Chain, Hash
<1>6. r[m].prior = [j \in 1..(m - 1) |-> r[j].payload]
  <2>1. CASE m = 1
    <3>1. r[m].prior = <<>>
      BY <1>3, <2>1 DEF Chain, GENESIS
    <3>2. QED BY <2>1, <3>1
  <2>2. CASE m # 1
    <3>1. m - 1 \in DOMAIN r /\ m - 1 < m /\ r[m].prior = r[m - 1].digest
      BY <1>1, <1>3, <2>2 DEF Chain
    <3>2. QED BY <1>4, <3>1
  <2>3. QED BY <2>1, <2>2
<1>7. \A j \in 1..m : r[j].payload \in Payloads
  <2>1. \A j \in 1..Len(r) : r[j] \in RowType
    OBVIOUS
  <2>2. \A j \in 1..m : j \in 1..Len(r)
    BY <1>1, <1>3
  <2> QED BY <2>1, <2>2 DEF RowType
<1>8. Append([j \in 1..(m - 1) |-> r[j].payload], r[m].payload) = [j \in 1..m |-> r[j].payload]
  <2>1. m \in Nat /\ m >= 1
    BY <1>1, <1>3
  <2> QED BY <1>7, <2>1
<1>9. QED BY <1>3, <1>5, <1>6, <1>8
-----------------------------------------------------------------------------
\* The rows begin with the payloads that a digest stands for.
Agrees(h) == \A k \in 1..Len(h) : k \in DOMAIN rows /\ h[k] = rows[k].payload

\* Whether what a publisher holds is a checkpoint of a verified chain.
Exported(p) == publisher[p].at \in {"propose", "accept"}

\* An anchor is the digest of as many payloads as its sequence says.
Measured ==
  /\ anchored \in [Identities -> Digests]
  /\ \A i \in Identities :
       IF accepted[i] = NoAnchor THEN anchored[i] = GENESIS
       ELSE anchored[i] = accepted[i].hash /\ Len(anchored[i]) = accepted[i].sequence
  /\ \A p \in Publishers : Exported(p) => Len(publisher[p].candidate.hash) = publisher[p].candidate.sequence

\* While the file is not damaged, anchors and candidates are of the payloads that are there.
Present ==
  ~damaged =>
    /\ \A i \in Identities : Agrees(anchored[i])
    /\ \A p \in Publishers : Exported(p) => Agrees(publisher[p].candidate.hash)

AInv == IInv /\ Measured /\ Present

\* A digest that agrees with the rows is a prefix of their payloads.
LEMMA AgreesIsPrefix ==
  ASSUME NEW h \in Digests, rows \in Seq(RowType), Agrees(h), Len(h) <= Len(rows)
  PROVE  IsPrefix(h, [k \in DOMAIN rows |-> rows[k].payload])
<1> DEFINE payloads == [k \in DOMAIN rows |-> rows[k].payload]
<1>1. payloads \in Seq(Payloads) /\ Len(payloads) = Len(rows) /\ Len(rows) \in Nat /\ DOMAIN rows = 1..Len(rows)
  <2>1. DOMAIN rows = 1..Len(rows) /\ Len(rows) \in Nat /\ \A k \in 1..Len(rows) : rows[k] \in RowType
    OBVIOUS
  <2>2. \A k \in 1..Len(rows) : rows[k].payload \in Payloads
    BY <2>1 DEF RowType
  <2>3. QED BY <2>1, <2>2
<1>2. h \in Seq(Payloads) /\ Len(h) \in Nat
  BY DEF Digests
<1>3. \A k \in 1..Len(h) : h[k] = payloads[k]
  BY DEF Agrees
<1> HIDE DEF payloads
<1>4. SubSeq(h, 1, Len(h)) = SubSeq(payloads, 1, Len(h))
  BY <1>1, <1>2, <1>3
<1>5. QED BY <1>1, <1>4 DEF IsPrefix, payloads

\* What a checkpoint of a verified chain stands for.
LEMMA ExportMeasured ==
  ASSUME TypeOK, Verified, NEW id \in Identities
  PROVE  /\ Export(id) \in Checkpoints
         /\ Len(Export(id).hash) = Export(id).sequence
         /\ Agrees(Export(id).hash)
<1>1. CASE rows = <<>>
  BY <1>1 DEF Export, Checkpoint, Checkpoints, GENESIS, Agrees, Digests
<1>2. CASE rows # <<>>
  <2>1. rows \in Seq(RowType) /\ Chain(rows)
    BY DEF TypeOK, RowType, Verified
  <2> DEFINE n == Len(rows)
  <2>2. n \in Nat /\ n >= 1 /\ n \in DOMAIN rows /\ DOMAIN rows = 1..n
    BY <1>2, <2>1
  <2>3. rows[n] \in RowType /\ Last(rows) = rows[n]
    BY <2>1, <2>2 DEF Last
  <2>4. rows[n].seq = n
    BY <2>1, <2>2 DEF Chain
  <2>5. rows[n].digest = [j \in 1..n |-> rows[j].payload]
    BY <2>1, <2>2, ChainDigests
  <2> HIDE DEF n
  <2>6. Export(id) = [sequence |-> n, hash |-> rows[n].digest, identity |-> id]
    BY <1>2, <2>3, <2>4 DEF Export, Checkpoint
  <2>7. Export(id) \in Checkpoints
    BY <2>2, <2>3, <2>6 DEF Checkpoints, RowType
  <2>8. Len([j \in 1..n |-> rows[j].payload]) = n
    BY <2>2
  <2>9. QED BY <2>2, <2>5, <2>6, <2>7, <2>8 DEF Agrees
<1>3. QED BY <1>1, <1>2

\* The steps of sink calls other than the commit, and damage.
LEMMA QuietKeeps ==
  ASSUME Measured, Present, UNCHANGED anchorVars,
         damaged' = TRUE \/ UNCHANGED <<rows, damaged>>
  PROVE  Measured' /\ Present'
  BY DEF Measured, Present, Exported, Agrees, anchorVars

\* A commit appends, and what agreed with the rows still does.
LEMMA CommitKeepsAnchors ==
  ASSUME IInv, Measured, Present, NEW e \in Events, Commit(e)
  PROVE  Measured' /\ Present'
<1>1. UNCHANGED <<damaged, publisher, accepted, anchored>>
  BY DEF Commit, anchorVars
<1>2. PICK r : rows' = Append(rows, r)
  BY DEF Commit
<1>3. rows \in Seq(RowType)
  BY DEF IInv, Inv, TypeOK, RowType
<1>4. \A k \in DOMAIN rows : k \in DOMAIN rows' /\ rows'[k] = rows[k]
  BY <1>2, <1>3
<1>5. ASSUME NEW h, Agrees(h) PROVE Agrees(h)'
  BY <1>4, <1>5 DEF Agrees
<1>6. Measured'
  BY <1>1 DEF Measured, Exported
<1>7. Present'
  BY <1>1, <1>5 DEF Present, Exported
<1>8. QED BY <1>6, <1>7

LEMMA PublisherKeepsAnchors ==
  ASSUME AInv, NEW p \in Publishers,
         ReadAccepted(p) \/ ExportCheckpoint(p) \/ Propose(p) \/ AcceptIfCurrent(p)
  PROVE  Measured' /\ Present'
<1>1. UNCHANGED <<rows, damaged>> /\ TypeOK /\ Measured /\ Present
  BY DEF AInv, IInv, Inv, ReadAccepted, ExportCheckpoint, Propose, AcceptIfCurrent, dbVars
<1>2. ASSUME NEW h PROVE Agrees(h)' <=> Agrees(h)
  BY <1>1 DEF Agrees
<1>3. publisher \in [Publishers -> [at : {"idle", "export", "propose", "accept"},
                                    prior : Checkpoints, candidate : Checkpoints]]
  BY <1>1 DEF TypeOK
\* The anchors are left alone, and p holds no candidate, or an exported one.
<1>4. ASSUME UNCHANGED <<accepted, anchored>>, NEW s,
             publisher' = [publisher EXCEPT ![p] = s],
             \/ s.at \in {"idle", "export"}
             \/ Len(s.candidate.hash) = s.candidate.sequence /\ (~damaged => Agrees(s.candidate.hash))
      PROVE  Measured' /\ Present'
  <2>1. \A q \in Publishers : publisher'[q] = IF q = p THEN s ELSE publisher[q]
    BY <1>3, <1>4
  <2>2. Measured'
    BY <1>1, <1>4, <2>1 DEF Measured, Exported
  <2>3. Present'
    BY <1>1, <1>2, <1>4, <2>1 DEF Present, Exported
  <2>4. QED BY <2>2, <2>3
<1>5. CASE ReadAccepted(p)
  BY <1>4, <1>5 DEF ReadAccepted, Idle
<1>6. CASE ExportCheckpoint(p)
  <2>1. PICK id \in Identities : publisher' = [publisher EXCEPT ![p] =
          IF Verified THEN [publisher[p] EXCEPT !.at = "propose", !.candidate = Export(id)] ELSE Idle]
    BY <1>3, <1>6 DEF ExportCheckpoint
  <2>2. UNCHANGED <<accepted, anchored>>
    BY <1>6 DEF ExportCheckpoint
  <2>3. CASE Verified
    <3>1. [publisher[p] EXCEPT !.at = "propose", !.candidate = Export(id)].candidate = Export(id)
      BY <1>3
    <3>2. QED BY <1>1, <1>4, <2>1, <2>2, <2>3, <3>1, ExportMeasured
  <2>4. CASE ~Verified
    BY <1>4, <2>1, <2>2, <2>4 DEF Idle
  <2>5. QED BY <2>3, <2>4
<1>7. CASE Propose(p)
  <2>1. Exported(p) /\ UNCHANGED <<accepted, anchored>>
    BY <1>7 DEF Propose, Exported
  <2>2. /\ Len(publisher[p].candidate.hash) = publisher[p].candidate.sequence
        /\ ~damaged => Agrees(publisher[p].candidate.hash)
    BY <1>1, <2>1 DEF Measured, Present
  <2>3. [publisher[p] EXCEPT !.at = "accept"].candidate = publisher[p].candidate
    BY <1>3
  <2>4. \/ publisher' = [publisher EXCEPT ![p] = [publisher[p] EXCEPT !.at = "accept"]]
        \/ publisher' = [publisher EXCEPT ![p] = Idle]
    BY <1>3, <1>7 DEF Propose
  <2>5. QED BY <1>4, <2>1, <2>2, <2>3, <2>4 DEF Idle
<1>8. CASE AcceptIfCurrent(p)
  <2> DEFINE c == publisher[p].candidate
             i == c.identity
  <2>1. publisher' = [publisher EXCEPT ![p] = Idle] /\ Exported(p)
    BY <1>8 DEF AcceptIfCurrent, Exported
  <2>2. c \in Checkpoints /\ Len(c.hash) = c.sequence /\ (~damaged => Agrees(c.hash))
    BY <1>1, <1>3, <2>1 DEF Measured, Present
  <2>3. CASE UNCHANGED <<accepted, anchored>>
    BY <1>4, <2>1, <2>3 DEF Idle
  <2>4. CASE /\ accepted' = [accepted EXCEPT ![i] = c]
             /\ anchored' = [anchored EXCEPT ![i] = c.hash]
    <3>1. c \in [sequence : Nat, hash : Digests, identity : Identities] /\ c # NoAnchor
      <4>1. NoAnchor.sequence = -1 /\ Len(NoAnchor.hash) = 0
        BY DEF NoAnchor, GENESIS
      <4>2. QED BY <2>2, <4>1 DEF Checkpoints
    <3>2. i \in Identities /\ c.hash \in Digests
      BY <3>1
    <3>3. accepted \in [Identities -> Checkpoints] /\ anchored \in [Identities -> Digests]
      BY <1>1 DEF TypeOK, Measured
    <3>4. \A q \in Publishers : publisher'[q] = IF q = p THEN Idle ELSE publisher[q]
      BY <1>3, <2>1
    <3> HIDE DEF c, i
    <3>5. \A j \in Identities : /\ accepted'[j] = IF j = i THEN c ELSE accepted[j]
                                /\ anchored'[j] = IF j = i THEN c.hash ELSE anchored[j]
      BY <2>4, <3>3
    <3>6. \A q \in Publishers : Exported(q)' => Exported(q) /\ publisher'[q] = publisher[q]
      BY <3>4 DEF Exported, Idle
    <3>7. anchored' \in [Identities -> Digests]
      BY <2>4, <3>2, <3>3
    <3>8. Measured'
      BY <1>1, <2>2, <3>1, <3>5, <3>6, <3>7 DEF Measured
    <3>9. Present'
      BY <1>1, <1>2, <2>2, <3>5, <3>6 DEF Present
    <3>10. QED BY <3>8, <3>9
  <2>5. QED BY <1>8, <2>3, <2>4 DEF AcceptIfCurrent
<1>9. QED BY <1>5, <1>6, <1>7, <1>8

LEMMA InitAInv == Init => AInv
<1> SUFFICES ASSUME Init PROVE AInv
  OBVIOUS
<1>1. Measured
  BY DEF Init, Measured, Exported, Idle, GENESIS, Digests
<1>2. Present
  BY DEF Init, Present, Agrees, Exported, Idle
<1>3. QED BY <1>1, <1>2, InitIInv DEF AInv

LEMMA NextAInv == AInv /\ [Next]_vars => AInv'
<1> SUFFICES ASSUME AInv, [Next]_vars PROVE AInv'
  OBVIOUS
<1>1. IInv /\ IInv' /\ Measured /\ Present
  BY NextIInv DEF AInv
<1>2. CASE UNCHANGED vars
  BY <1>1, <1>2, QuietKeeps DEF vars, dbVars, AInv
<1>3. ASSUME NEW e \in Events, Begin(e) \/ ReadLast(e) \/ Rollback(e) PROVE AInv'
  <2>1. UNCHANGED <<rows, damaged, anchorVars>>
    BY <1>3 DEF Begin, ReadLast, Rollback, dbVars
  <2>2. QED BY <1>1, <2>1, QuietKeeps DEF AInv
<1>4. ASSUME NEW e \in Events, Commit(e) PROVE AInv'
  BY <1>1, <1>4, CommitKeepsAnchors DEF AInv
<1>5. ASSUME NEW p \in Publishers,
             ReadAccepted(p) \/ ExportCheckpoint(p) \/ Propose(p) \/ AcceptIfCurrent(p)
      PROVE  AInv'
  BY <1>1, <1>5, PublisherKeepsAnchors DEF AInv
<1>6. CASE Edit \/ Lose \/ Restore
  <2>1. damaged' = TRUE /\ UNCHANGED anchorVars
    BY <1>6 DEF Edit, Lose, Restore, Damage
  <2>2. QED BY <1>1, <2>1, QuietKeeps DEF AInv
<1>7. QED BY <1>2, <1>3, <1>4, <1>5, <1>6 DEF Next

-----------------------------------------------------------------------------
\* An anchor whose digest is in a chain that verifies has its payloads before that row.
LEMMA AnchorsGuard ==
  ASSUME AInv
  PROVE  AnchoredPrefixGuarded
<1> SUFFICES ASSUME NEW i \in Identities, accepted[i] # NoAnchor, Retained(accepted[i], i)
             PROVE  IsPrefix(anchored[i], [k \in DOMAIN rows |-> rows[k].payload])
  BY DEF AnchoredPrefixGuarded
<1> DEFINE h == anchored[i]
           payloads == [k \in DOMAIN rows |-> rows[k].payload]
<1>1. h = accepted[i].hash /\ Len(h) = accepted[i].sequence /\ h \in Digests
  BY DEF AInv, Measured
<1>2. rows \in Seq(RowType) /\ Chain(rows)
  BY DEF AInv, IInv, Inv, TypeOK, RowType, Retained, Verified
<1>3. DOMAIN rows = 1..Len(rows) /\ Len(rows) \in Nat
  BY <1>2
<1>4. Agrees(h) /\ Len(h) <= Len(rows)
  <2>1. CASE accepted[i].sequence = 0
    BY <1>1, <1>3, <2>1 DEF Agrees
  <2>2. CASE accepted[i].sequence \in DOMAIN rows /\ rows[accepted[i].sequence].digest = h
    <3> DEFINE n == accepted[i].sequence
    <3>1. h = [j \in 1..n |-> rows[j].payload]
      BY <1>2, <2>2, ChainDigests
    <3>2. Len(h) = n /\ n \in 1..Len(rows)
      BY <1>1, <1>3, <2>2
    <3> HIDE DEF n, h
    <3>3. QED BY <1>3, <3>1, <3>2 DEF Agrees
  <2>3. QED BY <1>1, <2>1, <2>2 DEF Retained
<1>5. QED BY <1>1, <1>2, <1>3, <1>4, AgreesIsPrefix

\* Accepted anchors advance at every step, and extend each other in an undamaged file.
LEMMA AdvanceStep ==
  ASSUME AInv, AInv', [Next]_vars, NEW i \in Identities, accepted'[i] # accepted[i]
  PROVE  /\ accepted'[i].sequence > accepted[i].sequence
         /\ ~damaged => IsPrefix(anchored[i], anchored'[i])
<1>1. PICK p \in Publishers : AcceptIfCurrent(p)
  BY DEF Next, Begin, ReadLast, Commit, Rollback, ReadAccepted, ExportCheckpoint, Propose,
     Edit, Lose, Restore, vars, anchorVars
<1> DEFINE c == publisher[p].candidate
<1>2. accepted \in [Identities -> Checkpoints] /\ c \in Checkpoints
  BY DEF AInv, IInv, Inv, TypeOK
<1>3. /\ Transition(accepted[i], c) /\ c.identity = i
      /\ accepted' = [accepted EXCEPT ![i] = c] /\ UNCHANGED <<rows, damaged>>
  BY <1>1, <1>2 DEF AcceptIfCurrent, dbVars
<1>4. accepted'[i] = c
  BY <1>2, <1>3
<1>5. Len(c.hash) = c.sequence /\ c.hash \in Digests
  <2>1. Exported(p)
    BY <1>1 DEF AcceptIfCurrent, Exported
  <2>2. QED BY <1>2, <2>1 DEF AInv, Measured, Checkpoints, NoAnchor, GENESIS, Digests
<1>6. c.sequence \in Nat /\ c # NoAnchor
  BY <1>5 DEF Digests, NoAnchor
<1>7. c.sequence > accepted[i].sequence
  BY <1>3, <1>6 DEF Transition, NoAnchor
<1>8. ASSUME ~damaged PROVE IsPrefix(anchored[i], anchored'[i])
  <2>1. anchored[i] \in Digests /\ anchored'[i] = c.hash /\ Agrees(anchored[i]) /\ Agrees(c.hash)
    <3>1. anchored'[i] = c.hash /\ anchored[i] \in Digests
      BY <1>4, <1>6 DEF AInv, Measured
    <3>2. Agrees(anchored[i])
      BY <1>8 DEF AInv, Present
    <3>3. Exported(p)
      BY <1>1 DEF AcceptIfCurrent, Exported
    <3>4. Agrees(c.hash)
      BY <1>8, <3>3 DEF AInv, Present
    <3>5. QED BY <3>1, <3>2, <3>4
  <2>2. Len(anchored[i]) <= Len(c.hash)
    BY <1>2, <1>5, <1>6, <1>7 DEF AInv, Measured, GENESIS, Checkpoints
  <2>3. \A k \in 1..Len(anchored[i]) : anchored[i][k] = c.hash[k]
    <3>1. Len(anchored[i]) \in Nat /\ Len(c.hash) \in Nat
      BY <1>5, <2>1 DEF Digests
    <3>2. QED BY <2>1, <2>2, <3>1 DEF Agrees
  <2>4. SubSeq(anchored[i], 1, Len(anchored[i])) = SubSeq(c.hash, 1, Len(anchored[i]))
    <3>1. anchored[i] \in Seq(Payloads) /\ c.hash \in Seq(Payloads)
      BY <1>5, <2>1 DEF Digests
    <3> HIDE DEF c
    <3>2. QED BY <2>2, <2>3, <3>1
  <2>5. QED BY <2>1, <2>2, <2>4 DEF IsPrefix
<1>9. QED BY <1>4, <1>7, <1>8

\* The trail is what the sink calls committed, and verification against an accepted
\* anchor fails unless the anchored events are still there.
THEOREM TrailFaithful == Spec => []TrailIsFaithful
<1>1. AInv => TrailIsFaithful
  BY AnchorsGuard DEF AInv, IInv, TrailIsFaithful
<1>2. QED BY <1>1, InitAInv, NextAInv, PTL DEF Spec

\* Whatever publishers race, accepted anchors advance, and each extends the one
\* before it unless the file was damaged.
THEOREM AnchorsGrow == Spec => AnchorsAdvance
<1>1. AInv /\ AInv' /\ [Next]_vars =>
        [\A i \in Identities : accepted'[i] # accepted[i] =>
           /\ accepted'[i].sequence > accepted[i].sequence
           /\ ~damaged => IsPrefix(anchored[i], anchored'[i])]_vars
  BY AdvanceStep
<1>2. QED BY <1>1, InitAInv, NextAInv, PTL DEF Spec, AnchorsAdvance
=============================================================================
