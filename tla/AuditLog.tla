------------------------------ MODULE AuditLog ------------------------------
(***************************************************************************)
(* The durable audit trail of the Action Kernel and its external anchors:  *)
(* action_kernel_sqlite_audit.SQLiteAuditSink, the checkpoints of          *)
(* action_kernel_audit_checkpoint and the admission checks of              *)
(* action_kernel_anchor_authority.  Concurrent sink calls append to a hash *)
(* chain under SQLite's write lock; publishers export a checkpoint of the  *)
(* chain, check it against the anchor accepted before and propose it to    *)
(* the external store, which compares and sets.  Sink calls may raise or   *)
(* die between any two steps, and the database file may be damaged: a row  *)
(* edited or lost, or the whole file replaced by an older copy.            *)
(***************************************************************************)
EXTENDS Integers, Sequences, SequencesExt

CONSTANTS
  Events,      \* audit events, each written by one call of the sink
  Oversized,   \* the events whose payload exceeds the limit
  Publishers,  \* publishers of checkpoints
  Identities,  \* database identities
  Identity,    \* Identity[p]: the identity under which p reads the anchor
  Damaging,    \* the kinds of damage that may happen
  Forged,      \* the payload an edited row is given
  Free         \* the value of an unlocked database

ASSUME AuditAssumption ==
  /\ Oversized \subseteq Events
  /\ Identity \in [Publishers -> Identities]
  /\ Damaging \subseteq {"EDIT", "LOSS", "RESTORE"}
  /\ Free \notin Events /\ Forged \notin Events

VARIABLES
  rows,      \* the table audit_events in the order of seq
  lastSeq,   \* what AUTOINCREMENT gave last
  lock,      \* the sink call that holds the write lock, or Free
  sink,      \* where each call of the sink is
  previous,  \* previous[e]: the event_hash a sink call read as its predecessor
  damaged,   \* history: the database file was damaged
  publisher, \* publisher[p]: what p holds
  accepted,  \* accepted[i]: the checkpoint the external store retains, or NoAnchor
  anchored   \* history: anchored[i], the payloads under the accepted checkpoint

dbVars == <<rows, lastSeq, lock, damaged>>
sinkVars == <<sink, previous>>
anchorVars == <<publisher, accepted, anchored>>
vars == <<dbVars, sinkVars, anchorVars>>

\* SHA-256 of the previous hash and a payload.  A digest stands for the very
\* payloads it was computed from, one after the other.
Hash(prior, payload) == Append(prior, payload)
GENESIS == <<>>

Payloads == Events \cup {Forged}
Row(q, payload, prior, digest) ==
  [seq |-> q, payload |-> payload, prior |-> prior, digest |-> digest]

Checkpoint(q, digest, id) == [sequence |-> q, hash |-> digest, identity |-> id]
NoAnchor == [sequence |-> -1, hash |-> GENESIS, identity |-> "none"]

Digests == Seq(Payloads)
Checkpoints == [sequence : Nat, hash : Digests, identity : Identities] \cup {NoAnchor}

Idle == [at |-> "idle", prior |-> NoAnchor, candidate |-> NoAnchor]

Init ==
  /\ rows = <<>> /\ lastSeq = 0 /\ lock = Free /\ damaged = FALSE
  /\ sink = [e \in Events |-> "idle"]
  /\ previous = [e \in Events |-> GENESIS]
  /\ publisher = [p \in Publishers |-> Idle]
  /\ accepted = [i \in Identities |-> NoAnchor]
  /\ anchored = [i \in Identities |-> <<>>]

-----------------------------------------------------------------------------
\* The sink: one transaction for each event.
SinkTo(e, l) == sink' = [sink EXCEPT ![e] = l]

\* Mutant: the transaction is deferred, and takes the write lock on insertion.
BeginDeferred(e) ==
  /\ sink[e] = "idle"
  /\ SinkTo(e, IF e \in Oversized THEN "raised" ELSE "begun")
  /\ UNCHANGED <<dbVars, previous, anchorVars>>

\* The size limit, then BEGIN IMMEDIATE, which gives up when the lock is held.
Begin(e) ==
  /\ sink[e] = "idle"
  /\ \/ e \in Oversized /\ SinkTo(e, "raised") /\ UNCHANGED lock
     \/ e \notin Oversized /\ lock # Free /\ SinkTo(e, "raised") /\ UNCHANGED lock
     \/ e \notin Oversized /\ lock = Free /\ SinkTo(e, "begun") /\ lock' = e
  /\ UNCHANGED <<rows, lastSeq, damaged, previous, anchorVars>>

LastHash == IF rows = <<>> THEN GENESIS ELSE Last(rows).digest

ReadLast(e) ==
  /\ sink[e] = "begun"
  /\ previous' = [previous EXCEPT ![e] = LastHash]
  /\ SinkTo(e, "read")
  /\ UNCHANGED <<dbVars, anchorVars>>

\* INSERT and commit.  The transaction is then durable, and the call returns;
\* or commit raises all the same (an error of the file system after the commit
\* point), closing the connection does, or the process dies first.
Commit(e) ==
  /\ sink[e] = "read"
  /\ lastSeq' = lastSeq + 1
  /\ rows' = Append(rows, Row(lastSeq + 1, e, previous[e], Hash(previous[e], e)))
  /\ lock' = Free
  /\ SinkTo(e, "returned") \/ SinkTo(e, "uncertain")
  /\ UNCHANGED <<damaged, previous, anchorVars>>

\* Mutant: in autocommit mode, what was inserted survives the error.
RollbackKeepsRow(e) ==
  /\ sink[e] \in {"begun", "read"}
  /\ IF sink[e] = "begun" THEN UNCHANGED <<rows, lastSeq>>
     ELSE /\ lastSeq' = lastSeq + 1
          /\ rows' = Append(rows, Row(lastSeq + 1, e, previous[e], Hash(previous[e], e)))
  /\ lock' = Free
  /\ SinkTo(e, "raised")
  /\ UNCHANGED <<damaged, previous, anchorVars>>

\* An error of SQLite or the death of the process before the commit point rolls
\* the transaction back.
Rollback(e) ==
  /\ sink[e] \in {"begun", "read"}
  /\ lock' = Free
  /\ SinkTo(e, "raised")
  /\ UNCHANGED <<rows, lastSeq, damaged, previous, anchorVars>>

-----------------------------------------------------------------------------
\* Mutant: the snapshot trusts the stored digests.
ChainUncomputed(r) ==
  \A i \in DOMAIN r :
    /\ r[i].seq = i
    /\ r[i].prior = IF i = 1 THEN GENESIS ELSE r[i - 1].digest

\* verify_chain.
Chain(r) ==
  \A i \in DOMAIN r :
    /\ r[i].seq = i
    /\ r[i].prior = IF i = 1 THEN GENESIS ELSE r[i - 1].digest
    /\ r[i].digest = Hash(r[i].prior, r[i].payload)

\* _verified_snapshot returns: the table was created, with its first row, and
\* the chain verifies.
Verified == lastSeq > 0 /\ Chain(rows)

\* audit_checkpoint of a chain that verifies.
Export(id) == IF rows = <<>> THEN Checkpoint(0, GENESIS, id)
              ELSE Checkpoint(Last(rows).seq, Last(rows).digest, id)

\* verify_anchored_checkpoint.
Retained(c, id) ==
  /\ c.identity = id
  /\ Verified
  /\ \/ c.sequence = 0 /\ c.hash = GENESIS
     \/ c.sequence \in DOMAIN rows /\ rows[c.sequence].digest = c.hash

\* Mutant: an anchor of the same height is taken for an advance.
TransitionAtHeight(prior, c) ==
  \/ prior = NoAnchor /\ c.sequence # 0
  \/ prior # NoAnchor /\ prior.identity = c.identity /\ c.sequence >= prior.sequence

\* check_anchor_transition accepts the candidate.
Transition(prior, c) ==
  \/ prior = NoAnchor /\ c.sequence # 0
  \/ prior # NoAnchor /\ prior.identity = c.identity /\ c.sequence > prior.sequence

\* The trusted application reads the anchor accepted so far.
ReadAccepted(p) ==
  /\ publisher[p].at = "idle"
  /\ publisher' = [publisher EXCEPT ![p] = [Idle EXCEPT !.at = "export",
                                                       !.prior = accepted[Identity[p]]]]
  /\ UNCHANGED <<dbVars, sinkVars, accepted, anchored>>

\* audit_checkpoint, with an identity of the caller's choice.
ExportCheckpoint(p) ==
  /\ publisher[p].at = "export"
  /\ \E id \in Identities :
       publisher' = [publisher EXCEPT ![p] =
         IF Verified THEN [@ EXCEPT !.at = "propose", !.candidate = Export(id)] ELSE Idle]
  /\ UNCHANGED <<dbVars, sinkVars, accepted, anchored>>

\* verify_and_propose_anchor.
Propose(p) ==
  LET c == publisher[p].candidate IN
  /\ publisher[p].at = "propose"
  /\ publisher' = [publisher EXCEPT ![p] =
       IF Transition(publisher[p].prior, c) /\ Retained(c, c.identity)
       THEN [@ EXCEPT !.at = "accept"] ELSE Idle]
  /\ UNCHANGED <<dbVars, sinkVars, accepted, anchored>>

\* TrustedAnchorStore.accept_if_current: it compares the anchor it holds with
\* the one the publisher read, repeats the transition check and sets, at once.
AcceptIfCurrent(p) ==
  LET c == publisher[p].candidate
      i == c.identity
  IN /\ publisher[p].at = "accept"
     /\ IF accepted[i] = publisher[p].prior /\ Transition(accepted[i], c)
        THEN /\ accepted' = [accepted EXCEPT ![i] = c]
             /\ anchored' = [anchored EXCEPT ![i] = c.hash]
        ELSE UNCHANGED <<accepted, anchored>>
     /\ publisher' = [publisher EXCEPT ![p] = Idle]
     /\ UNCHANGED <<dbVars, sinkVars>>

-----------------------------------------------------------------------------
\* Damage: at most once, to the file between transactions.
Damage(kind) == kind \in Damaging /\ ~damaged /\ lock = Free /\ damaged' = TRUE

Edit ==
  /\ Damage("EDIT")
  /\ \E i \in DOMAIN rows : rows' = [rows EXCEPT ![i].payload = Forged]
  /\ UNCHANGED <<lastSeq, lock, sinkVars, anchorVars>>

Lose ==
  /\ Damage("LOSS")
  /\ \E i \in DOMAIN rows : rows' = RemoveAt(rows, i)
  /\ UNCHANGED <<lastSeq, lock, sinkVars, anchorVars>>

Restore ==
  /\ Damage("RESTORE")
  /\ \E n \in 0..(Len(rows) - 1) : rows' = SubSeq(rows, 1, n) /\ lastSeq' = n
  /\ UNCHANGED <<lock, sinkVars, anchorVars>>

Next ==
  \/ \E e \in Events : Begin(e) \/ ReadLast(e) \/ Commit(e) \/ Rollback(e)
  \/ \E p \in Publishers :
       ReadAccepted(p) \/ ExportCheckpoint(p) \/ Propose(p) \/ AcceptIfCurrent(p)
  \/ Edit \/ Lose \/ Restore

Spec == Init /\ [][Next]_vars

-----------------------------------------------------------------------------
TypeOK ==
  /\ rows \in Seq([seq : Nat, payload : Payloads, prior : Digests, digest : Digests])
  /\ lastSeq \in Nat
  /\ lock \in Events \cup {Free}
  /\ sink \in [Events -> {"idle", "begun", "read", "returned", "uncertain", "raised"}]
  /\ previous \in [Events -> Digests]
  /\ damaged \in BOOLEAN
  /\ publisher \in [Publishers -> [at : {"idle", "export", "propose", "accept"},
                                  prior : Checkpoints, candidate : Checkpoints]]
  /\ accepted \in [Identities -> Checkpoints]

\* One sink call at a time is in a transaction, and what it read is current.
Serialized ==
  \A e \in Events :
    /\ lock = e <=> sink[e] \in {"begun", "read"}
    /\ sink[e] = "read" => previous[e] = LastHash

\* However sink calls interleave, fail and die, the chain verifies as long as
\* the file is not damaged.
ChainIntact == ~damaged => Chain(rows) /\ lastSeq = Len(rows)

\* The inductive invariant: types, serialized transactions, an intact chain.
Inv == TypeOK /\ Serialized /\ ChainIntact

\* The sink calls that reached their commit point, whatever the caller was told.
Committed == {e \in Events : sink[e] \in {"returned", "uncertain"}}

\* While the file is not damaged: a sink call that returned has stored its event;
\* a stored event is of a call that reached its commit point, so that one which
\* raised or died before left nothing, while one that raised or died after it
\* stored its event although nobody was told; and no event is there twice.
StoredExactlyOnce ==
  ~damaged =>
    /\ \A e \in Events : e \in Committed <=> \E i \in DOMAIN rows : rows[i].payload = e
    /\ \A i, j \in DOMAIN rows : rows[i].payload = rows[j].payload => i = j

\* Verification against a retained anchor succeeds exactly when the anchored
\* prefix is still there under a chain that verifies: editing, losing or
\* replacing any part of it is detected (docs/action-kernel-external-checkpoints.md:9).
AnchoredPrefixGuarded ==
  \A i \in Identities : accepted[i] # NoAnchor /\ Retained(accepted[i], i) =>
    IsPrefix(anchored[i], [k \in DOMAIN rows |-> rows[k].payload])

\* The trail is what was committed (at least what the sinks returned), and an
\* accepted anchor detects any other.
TrailIsFaithful == StoredExactlyOnce /\ AnchoredPrefixGuarded

\* Accepted anchors only grow, whatever publishers race for them and even when
\* the database was set back to an older copy; while the file is not damaged,
\* each extends the one before it.
AnchorsAdvance ==
  [][\A i \in Identities : accepted'[i] # accepted[i] =>
       /\ accepted'[i].sequence > accepted[i].sequence
       /\ ~damaged => IsPrefix(anchored[i], anchored'[i])]_vars
=============================================================================
