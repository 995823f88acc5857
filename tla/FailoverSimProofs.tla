-------------------------- MODULE FailoverSimProofs --------------------------
(***************************************************************************)
(* Proofs about FailoverSim for any number of controllers, operations,     *)
(* actors and leases: an operation restarts the service once, a stopped    *)
(* one never, two unresolved operations never both act, and success is     *)
(* only reported of an effect that left the service healthy.               *)
(***************************************************************************)
EXTENDS FailoverSim, TLAPS

\* The operation had an effect of some kind.
Acted(o) == \E i \in DOMAIN effects : effects[i].op = o

\* The operation had an effect or passed its first look at the gates and is
\* about to have one.
Committed(o) ==
  \/ Acted(o)
  \/ \E c \in Controllers : Op(c) = o /\ pc[c] \in {"mark", "regate", "fetch", "effect"}

\* The rows of the operations that calls work on, and of those that had an effect.
Rows ==
  /\ \A c \in Controllers : pc[c] # "idle" =>
       /\ journal[Op(c)] \in Unresolved
       /\ pc[c] \in {"regate", "fetch", "effect", "verify"} =>
            journal[Op(c)] = (IF Kind(c) = "compensate" THEN "RECOVERING" ELSE "EXECUTING")
  /\ \A o \in Ops : Performed(o, "restart") => journal[o] \notin {"NONE", "PREPARED"}
  /\ \A o \in Ops : Acted(o) => journal[o] # "NONE"

\* A call on its way to a restart, or to report that there was none, found none.
Fresh ==
  \A c \in Controllers :
    /\ pc[c] \in {"gate", "mark", "regate", "fetch", "effect", "stop"} /\ Kind(c) # "compensate"
         => ~Performed(Op(c), "restart")
    /\ pc[c] \in {"regate", "stop"} => Kind(c) # "compensate"

\* Of two operations that are committed one is resolved.
Barrier ==
  \A o, p \in Ops : o # p /\ Committed(o) /\ Committed(p) => journal[o] \in Final \/ journal[p] \in Final

\* What a call on its way to success knows of the provider still holds.
Health ==
  \A c \in Controllers :
    /\ pc[c] \in {"verify", "observe", "confirm", "succeed"} => Acted(Op(c))
    /\ pc[c] = "succeed" => healthy
    /\ pc[c] = "confirm" => (seen[c] => healthy)

\* The provider knows no epoch that was not acquired.
Epochs == epoch <= lease.epoch /\ \A e \in unfenced : e <= lease.epoch

IInv ==
  /\ TypeOK /\ Alone /\ Rows /\ Fresh /\ Barrier /\ Health /\ Epochs
  /\ RestartOnce /\ StoppedDidNothing

Labels == {"idle", "look", "gate", "mark", "regate", "fetch", "effect", "verify", "confirm",
           "observe"} \cup DOMAIN Outcome

\* Where a call is committed to its effect.
Committing == {"mark", "regate", "fetch", "effect"}

-----------------------------------------------------------------------------
\* The labels of the last transitions.
LEMMA OutcomeDomain == DOMAIN Outcome = {"stop", "unknown", "succeed", "failed", "blocked"}
  BY DEF Outcome

\* What one step of call c may do that leaves control and provider alone: it goes
\* on at l and its row gets the state s.
Moved(c, l, s) ==
  /\ pc[c] # "idle" /\ To(c, l) /\ l \in Labels
  /\ journal' = [journal EXCEPT ![Op(c)] = s]
  /\ UNCHANGED <<controlVars, providerVars>>
  /\ held' \in [Controllers -> Leases]
  /\ seen' \in [Controllers -> BOOLEAN] /\ \A d \in Controllers \ {c} : seen'[d] = seen[d]
  /\ IF l = "idle" THEN call' = [call EXCEPT ![c] = NoCall] /\ s \in Unresolved \cup Final
     ELSE UNCHANGED call /\ s \in Unresolved

\* What the step needs to know when it goes on at l with its row in state s.
Justified(c, l, s) ==
  /\ s = journal[Op(c)] \/ s # "PREPARED"
  /\ l \in {"regate", "fetch", "effect", "verify"} =>
       s = (IF Kind(c) = "compensate" THEN "RECOVERING" ELSE "EXECUTING")
  /\ l \in {"gate", "mark", "regate", "fetch", "effect", "stop"} /\ Kind(c) # "compensate"
       => ~Performed(Op(c), "restart")
  /\ l \in {"regate", "stop"} => Kind(c) # "compensate"
  /\ l \in Committing => pc[c] \in Committing \/ ~InFlight(Op(c))
  /\ l \in {"verify", "observe", "confirm", "succeed"} => Acted(Op(c))
  /\ l = "succeed" => healthy
  /\ l = "confirm" => (seen'[c] => healthy)
  /\ s = "STOPPED" => ~Performed(Op(c), "restart")

LEMMA NoCallTyped == NoCall \in [kind : {"run", "reconcile", "compensate"}, op : Ops, retry : BOOLEAN]
  BY FailoverAssumption DEF NoCall

LEMMA MovedKeeps ==
  ASSUME IInv, NEW c \in Controllers, NEW l, NEW s, Moved(c, l, s), Justified(c, l, s)
  PROVE  IInv'
<1>1. /\ \A o, a : Performed(o, a)' = Performed(o, a)
      /\ \A o : Acted(o)' = Acted(o)
  BY DEF Moved, providerVars, Performed, Acted
<1>2. /\ pc' \in [Controllers -> Labels] /\ pc \in [Controllers -> Labels]
      /\ journal' \in [Ops -> Unresolved \cup Final \cup {"NONE"}]
      /\ journal \in [Ops -> Unresolved \cup Final \cup {"NONE"}]
      /\ call \in [Controllers -> [kind : {"run", "reconcile", "compensate"}, op : Ops, retry : BOOLEAN]]
      /\ Op(c) \in Ops
  BY DEF IInv, TypeOK, Moved, To, Labels, Op, Leases
<1>3. call' \in [Controllers -> [kind : {"run", "reconcile", "compensate"}, op : Ops, retry : BOOLEAN]]
  BY <1>2, NoCallTyped DEF Moved
<1>4. \A d \in Controllers : /\ d # c => pc'[d] = pc[d] /\ Op(d)' = Op(d) /\ Kind(d)' = Kind(d)
                             /\ l # "idle" => Op(d)' = Op(d) /\ Kind(d)' = Kind(d)
                             /\ Op(d) \in Ops
  BY <1>2 DEF Moved, To, Op, Kind
<1>5. pc'[c] = l /\ journal'[Op(c)] = s /\ \A o \in Ops \ {Op(c)} : journal'[o] = journal[o]
  BY <1>2 DEF Moved, To
<1>6. journal[Op(c)] \in Unresolved /\ \A d \in Controllers \ {c} : pc[d] # "idle" => Op(d) # Op(c)
  BY DEF IInv, Rows, Alone, Moved
<1>7. TypeOK'
  BY <1>2, <1>3 DEF IInv, TypeOK, Moved, controlVars, providerVars, Labels, Leases
<1>8. Alone'
  BY <1>4, <1>5, <1>6 DEF IInv, Alone, Moved
<1>9. Rows'
  <2>1. ASSUME NEW d \in Controllers, pc'[d] # "idle"
        PROVE  /\ journal'[Op(d)'] \in Unresolved
               /\ pc'[d] \in {"regate", "fetch", "effect", "verify"} =>
                    journal'[Op(d)'] = (IF Kind(d)' = "compensate" THEN "RECOVERING" ELSE "EXECUTING")
    <3>1. CASE d = c
      BY <1>4, <1>5, <2>1, <3>1 DEF Moved, Justified
    <3>2. CASE d # c
      BY <1>4, <1>5, <1>6, <2>1, <3>2 DEF IInv, Rows
    <3>3. QED BY <3>1, <3>2
  <2>2. s # "NONE"
    BY DEF Moved, Unresolved, Final
  <2>3. ASSUME NEW o \in Ops
        PROVE  /\ Performed(o, "restart")' => journal'[o] \notin {"NONE", "PREPARED"}
               /\ Acted(o)' => journal'[o] # "NONE"
    BY <1>1, <1>5, <2>2 DEF IInv, Rows, Justified
  <2>4. QED BY <2>1, <2>3 DEF Rows
<1>10. Fresh'
  BY <1>1, <1>4, <1>5 DEF IInv, Fresh, Justified, Moved
<1>11. Barrier'
  <2>1. ASSUME NEW o \in Ops, Committed(o)', ~Committed(o)
        PROVE  o = Op(c) /\ ~InFlight(o) /\ l # "idle"
    BY <1>1, <1>4, <1>5, <2>1 DEF Committed, Justified, Committing, Moved
  <2>2. ASSUME NEW o \in Ops, Committed(o), journal[o] # "NONE", ~InFlight(Op(c)), o # Op(c)
        PROVE  journal[o] \in Final
    BY <1>2, <2>2 DEF InFlight
  <2>3. ASSUME NEW o \in Ops, Committed(o)
        PROVE  journal[o] # "NONE"
    BY <2>3 DEF IInv, Rows, Committed, Unresolved
  <2>4. \A o \in Ops : journal[o] \in Final => journal'[o] \in Final
    BY <1>5, <1>6 DEF Unresolved, Final
  <2>5. QED BY <2>1, <2>2, <2>3, <2>4 DEF IInv, Barrier
<1>12. Health'
  BY <1>1, <1>4, <1>5 DEF IInv, Health, Justified, Moved, providerVars
<1>13. Epochs' /\ RestartOnce'
  BY DEF IInv, Epochs, RestartOnce, Moved, controlVars, providerVars
<1>14. StoppedDidNothing'
  BY <1>1, <1>2, <1>5 DEF IInv, StoppedDidNothing, Justified
<1>15. QED BY <1>7, <1>8, <1>9, <1>10, <1>11, <1>12, <1>13, <1>14 DEF IInv

\* A step that leaves the journal alone, too, is one that writes the state of its row.
LEMMA SameRow ==
  ASSUME IInv, NEW c \in Controllers, UNCHANGED journal
  PROVE  /\ journal' = [journal EXCEPT ![Op(c)] = journal[Op(c)]]
         /\ pc[c] # "idle" => journal[Op(c)] \in Unresolved
  BY DEF IInv, TypeOK, Rows

LEMMA LookKeeps ==
  ASSUME IInv, NEW c \in Controllers, Look(c)
  PROVE  IInv'
<1> DEFINE s == journal[Op(c)]
<1>1. /\ pc[c] = "look" /\ s \in Unresolved /\ held \in [Controllers -> Leases]
      /\ seen \in [Controllers -> BOOLEAN] /\ healthy \in BOOLEAN /\ Op(c) \in Ops
      /\ journal' = [journal EXCEPT ![Op(c)] = s]
  BY SameRow DEF IInv, TypeOK, Look, Leases, Op
<1>2. CASE Performed(Op(c), "restart") /\ To(c, "confirm") /\ seen' = [seen EXCEPT ![c] = healthy]
  <2>1. Moved(c, "confirm", s)
    BY <1>1, <1>2 DEF Look, Moved, Labels
  <2>2. Justified(c, "confirm", s)
    BY <1>1, <1>2 DEF Justified, Performed, Acted, Unresolved, Committing
  <2>3. QED BY <2>1, <2>2, MovedKeeps
<1>3. CASE ~Performed(Op(c), "restart") /\ To(c, "gate") /\ UNCHANGED seen
  <2>1. Moved(c, "gate", s)
    BY <1>1, <1>3 DEF Look, Moved, Labels
  <2>2. Justified(c, "gate", s)
    BY <1>1, <1>3 DEF Justified, Unresolved, Committing
  <2>3. QED BY <2>1, <2>2, MovedKeeps
<1>4. CASE To(c, "unknown") /\ UNCHANGED seen
  <2>1. Moved(c, "unknown", s)
    BY <1>1, <1>4, OutcomeDomain DEF Look, Moved, Labels
  <2>2. Justified(c, "unknown", s)
    BY <1>1 DEF Justified, Unresolved, Committing
  <2>3. QED BY <2>1, <2>2, MovedKeeps
<1>5. QED BY <1>2, <1>3, <1>4 DEF Look

\* After the first look at the gates no other operation is in flight.
LEMMA GateKeeps ==
  ASSUME IInv, NEW c \in Controllers, Gate(c)
  PROVE  IInv'
<1> DEFINE s == journal[Op(c)]
<1>1. PICK l \in {"mark", "blocked", "stop"} :
        /\ To(c, l) /\ pc[c] = "gate"
        /\ l = "mark" => ~InFlight(Op(c))
        /\ l = "stop" => Kind(c) # "compensate"
  BY DEF Gate, Gates
<1>2. Moved(c, l, s)
  BY <1>1, SameRow, OutcomeDomain DEF Gate, Moved, Labels, IInv, TypeOK, Leases
<1>3. Justified(c, l, s)
  BY <1>1, <1>2 DEF Justified, Unresolved, Committing, IInv, Fresh, Moved
<1>4. QED BY <1>2, <1>3, MovedKeeps

LEMMA MarkKeeps ==
  ASSUME IInv, NEW c \in Controllers, Mark(c)
  PROVE  IInv'
<1> DEFINE s == IF Kind(c) = "compensate" THEN "RECOVERING" ELSE "EXECUTING"
           l == IF Kind(c) = "run" THEN "regate" ELSE "fetch"
<1>1. Moved(c, l, s)
  BY DEF Mark, Write, Moved, Labels, Unresolved, IInv, TypeOK, Leases
<1>2. Justified(c, l, s)
  BY DEF Mark, Justified, Committing, IInv, Fresh
<1>3. QED BY <1>1, <1>2, MovedKeeps

LEMMA RegateKeeps ==
  ASSUME IInv, NEW c \in Controllers, Regate(c)
  PROVE  IInv'
<1> DEFINE s == journal[Op(c)]
<1>1. PICK l \in {"fetch", "stop"} : To(c, l) /\ pc[c] = "regate"
  BY DEF Regate
<1>2. Moved(c, l, s)
  BY <1>1, SameRow, OutcomeDomain DEF Regate, Moved, Labels, IInv, TypeOK, Leases
<1>3. s = (IF Kind(c) = "compensate" THEN "RECOVERING" ELSE "EXECUTING") /\ Kind(c) # "compensate"
  BY <1>1 DEF IInv, Rows, Fresh
<1>4. Justified(c, l, s)
  BY <1>1, <1>3 DEF Justified, Committing, IInv, Fresh
<1>5. QED BY <1>2, <1>4, MovedKeeps

LEMMA FetchKeeps ==
  ASSUME IInv, NEW c \in Controllers, Fetch(c)
  PROVE  IInv'
<1> DEFINE s == journal[Op(c)]
<1>1. Moved(c, "effect", s)
  BY SameRow DEF Fetch, Moved, Labels, IInv, TypeOK, Leases
<1>2. Justified(c, "effect", s)
  BY DEF Fetch, Justified, Committing, IInv, Fresh, Rows
<1>3. QED BY <1>1, <1>2, MovedKeeps

\* The effect is refused: the call raises, or stops, or fails.
LEMMA RefuseKeeps ==
  ASSUME IInv, NEW c \in Controllers, Refuse(c)
  PROVE  IInv'
<1> DEFINE s == journal[Op(c)]
<1>1. NoLease \in Leases
  BY FailoverAssumption DEF NoLease, Leases
<1>2. PICK l \in {"idle", "stop", "failed"} :
        /\ To(c, l) /\ pc[c] = "effect"
        /\ l = "stop" => Kind(c) = "run"
        /\ IF l = "idle" THEN Done(c) ELSE UNCHANGED <<call, seen>> /\ held' = [held EXCEPT ![c] = NoLease]
  BY DEF Refuse, Done
<1>3. Moved(c, l, s)
  BY <1>1, <1>2, SameRow, OutcomeDomain DEF Refuse, Done, Moved, Labels, IInv, TypeOK
<1>4. Justified(c, l, s)
  BY <1>2 DEF Justified, Committing, IInv, Fresh, Rows
<1>5. QED BY <1>3, <1>4, MovedKeeps

LEMMA VerifyKeeps ==
  ASSUME IInv, NEW c \in Controllers, Verify(c)
  PROVE  IInv'
<1>1. Moved(c, "observe", "VERIFYING")
  BY DEF Verify, Write, Moved, Labels, Unresolved, IInv, TypeOK, Leases
<1>2. Justified(c, "observe", "VERIFYING")
  BY DEF Verify, Justified, Committing, IInv, Health
<1>3. QED BY <1>1, <1>2, MovedKeeps

LEMMA ConfirmKeeps ==
  ASSUME IInv, NEW c \in Controllers, Confirm(c)
  PROVE  IInv'
<1> DEFINE l == IF seen[c] THEN "succeed" ELSE "unknown"
<1>1. Moved(c, l, "VERIFYING")
  BY OutcomeDomain DEF Confirm, Write, Moved, Labels, Unresolved, IInv, TypeOK, Leases
<1>2. Justified(c, l, "VERIFYING")
  BY DEF Confirm, Justified, Committing, IInv, Health
<1>3. QED BY <1>1, <1>2, MovedKeeps

LEMMA ObserveKeeps ==
  ASSUME IInv, NEW c \in Controllers, Observe(c)
  PROVE  IInv'
<1> DEFINE s == journal[Op(c)]
<1>1. PICK l \in {"succeed", "failed", "unknown"} :
        To(c, l) /\ pc[c] = "observe" /\ (l = "succeed" => healthy)
  BY DEF Observe
<1>2. Moved(c, l, s)
  BY <1>1, SameRow, OutcomeDomain DEF Observe, Moved, Labels, IInv, TypeOK, Leases
<1>3. Justified(c, l, s)
  BY <1>1, <1>2 DEF Justified, Committing, IInv, Health, Moved, Unresolved
<1>4. QED BY <1>2, <1>3, MovedKeeps

LEMMA FinishKeeps ==
  ASSUME IInv, NEW c \in Controllers, Finish(c)
  PROVE  IInv'
<1> DEFINE s == Outcome[pc[c]]
<1>1. NoLease \in Leases /\ pc[c] \in {"stop", "unknown", "succeed", "failed", "blocked"}
  BY FailoverAssumption, OutcomeDomain DEF NoLease, Leases, Finish
<1>2. s \in Unresolved \cup Final /\ s # "PREPARED" /\ (s = "STOPPED" => pc[c] = "stop")
  BY <1>1 DEF Outcome, Unresolved, Final
<1>3. Moved(c, "idle", s)
  BY <1>1, <1>2 DEF Finish, Write, Done, Moved, Labels, IInv, TypeOK
<1>4. Justified(c, "idle", s)
  BY <1>2 DEF Justified, Committing, IInv, Fresh
<1>5. QED BY <1>3, <1>4, MovedKeeps

LEMMA CrashKeeps ==
  ASSUME IInv, NEW c \in Controllers, Crash(c)
  PROVE  IInv'
<1> DEFINE s == journal[Op(c)]
<1>1. NoLease \in Leases
  BY FailoverAssumption DEF NoLease, Leases
<1>2. Moved(c, "idle", s)
  BY <1>1, SameRow DEF Crash, Done, Moved, Labels, IInv, TypeOK
<1>3. Justified(c, "idle", s)
  BY <1>2 DEF Justified, Committing, Moved, Unresolved, IInv, Rows, Crash
<1>4. QED BY <1>2, <1>3, MovedKeeps

LEMMA BeginKeeps ==
  ASSUME IInv, NEW c \in Controllers, Begin(c), Alone'
  PROVE  IInv'
<1>1. PICK o \in Ops, k \in {"run", "reconcile", "compensate"}, r \in BOOLEAN :
        /\ call' = [call EXCEPT ![c] = [kind |-> k, op |-> o, retry |-> r]]
        /\ \/ k = "run" /\ journal[o] = "NONE" /\ Write(o, "PREPARED") /\ To(c, "gate")
           \/ /\ k = "reconcile" /\ journal[o] \in Unresolved
              /\ To(c, "look") /\ UNCHANGED journal
           \/ /\ k = "compensate" /\ journal[o] \in {"UNKNOWN", "RECOVERING"}
              /\ To(c, "gate") /\ UNCHANGED journal
  BY DEF Begin
<1>2. pc[c] = "idle" /\ UNCHANGED <<controlVars, providerVars, held, seen>>
  BY DEF Begin
<1>3. /\ \A q, a : Performed(q, a)' = Performed(q, a)
      /\ \A q : Acted(q)' = Acted(q)
  BY <1>2 DEF providerVars, Performed, Acted
<1>4. /\ pc' \in [Controllers -> Labels] /\ pc \in [Controllers -> Labels]
      /\ journal' \in [Ops -> Unresolved \cup Final \cup {"NONE"}]
      /\ journal \in [Ops -> Unresolved \cup Final \cup {"NONE"}]
      /\ call' \in [Controllers -> [kind : {"run", "reconcile", "compensate"}, op : Ops, retry : BOOLEAN]]
      /\ call \in [Controllers -> [kind : {"run", "reconcile", "compensate"}, op : Ops, retry : BOOLEAN]]
  BY <1>1 DEF IInv, TypeOK, Write, To, Labels, Unresolved
<1>5. /\ \A d \in Controllers \ {c} : pc'[d] = pc[d] /\ Op(d)' = Op(d) /\ Kind(d)' = Kind(d)
      /\ Op(c)' = o /\ Kind(c)' = k /\ pc'[c] \in {"gate", "look"}
      /\ pc'[c] = "gate" /\ k # "compensate" => journal[o] = "NONE"
      /\ journal'[o] \in Unresolved /\ \A q \in Ops \ {o} : journal'[q] = journal[q]
      /\ journal[o] = "NONE" \/ journal'[o] = journal[o]
  BY <1>1, <1>4 DEF To, Write, Op, Kind, Unresolved
<1>6. TypeOK'
  BY <1>2, <1>4 DEF IInv, TypeOK, Labels, controlVars, providerVars, Leases
<1>7. \A d \in Controllers \ {c} : pc[d] = "idle" \/ Op(d) # o
  BY <1>5 DEF Alone
<1>8. journal[o] = "NONE" => ~Acted(o) /\ ~Performed(o, "restart")
  BY DEF IInv, Rows
<1>9. Rows'
  <2>1. ASSUME NEW d \in Controllers, pc'[d] # "idle"
        PROVE  /\ journal'[Op(d)'] \in Unresolved
               /\ pc'[d] \in {"regate", "fetch", "effect", "verify"} =>
                    journal'[Op(d)'] = (IF Kind(d)' = "compensate" THEN "RECOVERING" ELSE "EXECUTING")
    <3>1. CASE d = c
      BY <1>5, <3>1
    <3>2. CASE d # c
      <4>1. Op(d) # o /\ Op(d) \in Ops
        BY <1>4, <1>5, <1>7, <2>1, <3>2 DEF Op
      <4>2. QED BY <1>5, <2>1, <3>2, <4>1 DEF IInv, Rows
    <3>3. QED BY <3>1, <3>2
  <2>2. ASSUME NEW q \in Ops
        PROVE  /\ Performed(q, "restart")' => journal'[q] \notin {"NONE", "PREPARED"}
               /\ Acted(q)' => journal'[q] # "NONE"
    BY <1>3, <1>5, <1>8 DEF IInv, Rows
  <2>3. QED BY <2>1, <2>2 DEF Rows
<1>10. Fresh'
  BY <1>3, <1>5, <1>8 DEF IInv, Fresh
<1>11. Barrier'
  <2>1. \A q \in Ops : Committed(q)' => Committed(q)
    BY <1>3, <1>5 DEF Committed
  <2>2. \A q \in Ops : journal[q] \in Final => journal'[q] \in Final
    BY <1>5 DEF Final
  <2>3. QED BY <2>1, <2>2 DEF IInv, Barrier
<1>12. Health'
  BY <1>2, <1>3, <1>5 DEF IInv, Health, providerVars
<1>13. Epochs' /\ RestartOnce'
  BY <1>2 DEF IInv, Epochs, RestartOnce, controlVars, providerVars
<1>14. StoppedDidNothing'
  BY <1>3, <1>5 DEF IInv, StoppedDidNothing, Unresolved
<1>15. QED BY <1>6, <1>7, <1>9, <1>10, <1>11, <1>12, <1>13, <1>14 DEF IInv

\* The operation of a call at the effect is committed, and so every other operation
\* that had an effect is resolved.
LEMMA OthersResolved ==
  ASSUME IInv, NEW c \in Controllers, pc[c] = "effect", NEW p \in Ops, Acted(p), p # Op(c)
  PROVE  journal[p] \in Final
<1>1. Op(c) \in Ops /\ Committed(Op(c)) /\ Committed(p)
  BY DEF IInv, TypeOK, Committed, Op
<1>2. journal[Op(c)] \notin Final
  BY DEF IInv, Rows, Unresolved, Final
<1>3. QED BY <1>1, <1>2 DEF IInv, Barrier

EffectType == [op : Ops, action : Actions, epoch : 0..MaxEpoch, holder : Actors \cup {Nobody}]

\* What an effect adds.
LEMMA Appended ==
  ASSUME IInv, NEW c \in Controllers, pc[c] = "effect", effects' = Append(effects, Effect(c))
  PROVE  /\ effects' \in Seq(EffectType)
         /\ DOMAIN effects' = DOMAIN effects \cup {Len(effects) + 1}
         /\ Len(effects) + 1 \notin DOMAIN effects
         /\ effects'[Len(effects) + 1] = Effect(c)
         /\ \A i \in DOMAIN effects : effects'[i] = effects[i]
         /\ \A p, a : Performed(p, a)' <=> Performed(p, a) \/ (p = Op(c) /\ a = Action(c))
         /\ \A p : Acted(p)' <=> Acted(p) \/ p = Op(c)
<1>1. effects \in Seq(EffectType) /\ Effect(c) \in EffectType
  BY DEF IInv, TypeOK, EffectType, Effect, Op, Action, Actions, Leases
<1>2. /\ effects' \in Seq(EffectType)
      /\ DOMAIN effects' = DOMAIN effects \cup {Len(effects) + 1}
      /\ Len(effects) + 1 \notin DOMAIN effects
      /\ effects'[Len(effects) + 1] = Effect(c)
      /\ \A i \in DOMAIN effects : effects'[i] = effects[i]
  BY <1>1
<1>3. Effect(c).op = Op(c) /\ Effect(c).action = Action(c)
  BY DEF Effect
<1>4. QED BY <1>2, <1>3 DEF Performed, Acted

\* Every effect is one of a known operation and action.
LEMMA EffectTyped ==
  ASSUME IInv, NEW i \in DOMAIN effects
  PROVE  effects[i].op \in Ops /\ effects[i].action \in Actions
<1>1. effects \in Seq(EffectType)
  BY DEF IInv, TypeOK, EffectType
<1>2. effects[i] \in EffectType
  BY <1>1
<1>3. QED BY <1>2 DEF EffectType

LEMMA MutateKeeps ==
  ASSUME IInv, NEW c \in Controllers, Mutate(c)
  PROVE  IInv'
<1>1. /\ pc[c] = "effect" /\ Op(c) \in Ops
      /\ \A d \in Controllers : Op(d)' = Op(d) /\ Kind(d)' = Kind(d) /\ Op(d) \in Ops
      /\ pc'[c] = "verify" /\ \A d \in Controllers \ {c} : pc'[d] = pc[d]
      /\ UNCHANGED <<journal, lease, unfenced, epoch, idempotent, call, seen>>
  BY DEF IInv, TypeOK, Mutate, To, Op, Kind, controlVars
<1>2. /\ \A p, a : Performed(p, a)' => Performed(p, a) \/ (p = Op(c) /\ a = Action(c))
      /\ \A p : Acted(p)' <=> Acted(p) \/ p = Op(c)
      /\ effects' \in Seq(EffectType) /\ healthy' \in BOOLEAN
  <2>1. CASE UNCHANGED <<effects, healthy>> /\ Performed(Op(c), Action(c))
    BY <2>1 DEF IInv, TypeOK, Performed, Acted, EffectType
  <2>2. CASE effects' = Append(effects, Effect(c)) /\ healthy' \in BOOLEAN
    BY <1>1, <2>2, Appended
  <2>3. QED BY <2>1, <2>2 DEF Mutate
<1>3. Action(c) = "restart" => Kind(c) # "compensate" /\ ~Performed(Op(c), "restart")
  BY <1>1 DEF Action, IInv, Fresh
<1>4. \A d \in Controllers \ {c} : pc[d] # "idle" => Op(d) # Op(c)
  BY <1>1 DEF IInv, Alone
<1>5. TypeOK'
  <2>1. NoLease \in Leases
    BY FailoverAssumption DEF NoLease, Leases
  <2>2. QED BY <1>1, <1>2, <2>1 DEF IInv, TypeOK, Mutate, To, EffectType, Leases
<1>6. Alone'
  BY <1>1, <1>4 DEF IInv, Alone
<1>7. Rows'
  <2>1. journal[Op(c)] = (IF Kind(c) = "compensate" THEN "RECOVERING" ELSE "EXECUTING")
    BY <1>1 DEF IInv, Rows
  <2>2. QED BY <1>1, <1>2, <2>1 DEF IInv, Rows
<1>8. Fresh'
  BY <1>1, <1>2, <1>4 DEF IInv, Fresh
<1>9. Barrier'
  <2>1. \A p \in Ops : Committed(p)' => Committed(p)
    BY <1>1, <1>2 DEF Committed
  <2>2. QED BY <1>1, <2>1 DEF IInv, Barrier
<1>10. Health'
  <2>1. ASSUME NEW d \in Controllers \ {c}, pc[d] \in {"verify", "observe", "confirm", "succeed"}
        PROVE  FALSE
    <3>1. Acted(Op(d)) /\ journal[Op(d)] \in Unresolved
      BY <2>1 DEF IInv, Health, Rows
    <3>2. journal[Op(d)] \in Final
      BY <1>1, <1>4, <2>1, <3>1, OthersResolved
    <3>3. QED BY <3>1, <3>2 DEF Unresolved, Final
  <2>2. QED BY <1>1, <1>2, <2>1 DEF IInv, Health
<1>11. RestartOnce'
  <2>1. CASE UNCHANGED effects
    BY <2>1 DEF IInv, RestartOnce
  <2>2. CASE effects' = Append(effects, Effect(c))
    <3>1. Effect(c).op = Op(c) /\ Effect(c).action = Action(c)
      BY DEF Effect
    <3>2. \A i \in DOMAIN effects : effects[i].op = Op(c) /\ effects[i].action = "restart"
            => Action(c) # "restart"
      BY <1>3 DEF Performed
    <3>3. /\ DOMAIN effects' = DOMAIN effects \cup {Len(effects) + 1}
          /\ effects'[Len(effects) + 1] = Effect(c)
          /\ \A i \in DOMAIN effects : effects'[i] = effects[i]
      BY <1>1, <2>2, Appended
    <3>4. QED BY <3>1, <3>2, <3>3 DEF IInv, RestartOnce
  <2>3. QED BY <2>1, <2>2 DEF Mutate
<1>12. StoppedDidNothing'
  <2>1. journal[Op(c)] # "STOPPED"
    BY <1>1 DEF IInv, Rows, Unresolved
  <2>2. QED BY <1>1, <1>2, <2>1 DEF IInv, StoppedDidNothing
<1>13. Epochs'
  BY <1>1 DEF IInv, Epochs
<1>14. QED BY <1>5, <1>6, <1>7, <1>8, <1>9, <1>10, <1>11, <1>12, <1>13 DEF IInv

\* Leases change nothing that a call relies on here.
LEMMA LeaseFrame ==
  ASSUME IInv, UNCHANGED <<journal, healthy, effects, idempotent, callVars>>, TypeOK', Epochs'
  PROVE  IInv'
<1>1. /\ \A o, a : Performed(o, a)' = Performed(o, a) /\ Acted(o)' = Acted(o)
      /\ \A o : Committed(o)' = Committed(o)
      /\ \A c : Op(c)' = Op(c) /\ Kind(c)' = Kind(c)
  BY DEF Performed, Acted, Committed, Op, Kind, callVars
<1>2. Alone' /\ Rows' /\ Fresh' /\ Barrier' /\ Health' /\ RestartOnce' /\ StoppedDidNothing'
  BY <1>1 DEF IInv, Alone, Rows, Fresh, Barrier, Health, RestartOnce, StoppedDidNothing, callVars
<1>3. QED BY <1>2 DEF IInv

LEMMA AcquireKeeps ==
  ASSUME IInv, Acquire
  PROVE  IInv'
<1>1. TypeOK'
  <2> DEFINE e == lease.epoch + 1
  <2>1. PICK h \in Actors : lease' = [holder |-> h, epoch |-> e] /\ unfenced' = unfenced \cup {e}
    BY DEF Acquire
  <2>2. lease.epoch \in 0..MaxEpoch /\ lease.epoch < MaxEpoch /\ unfenced \subseteq 1..MaxEpoch
    BY DEF IInv, TypeOK, Acquire, Leases
  <2>3. e \in 1..MaxEpoch /\ e \in 0..MaxEpoch
    BY <2>2, FailoverAssumption
  <2>4. lease' \in Leases /\ unfenced' \subseteq 1..MaxEpoch
    BY <2>1, <2>2, <2>3 DEF Leases
  <2>5. QED BY <2>4 DEF IInv, TypeOK, Acquire, Leases, providerVars, callVars
<1>2. Epochs'
  BY FailoverAssumption DEF IInv, TypeOK, Epochs, Acquire, Leases, providerVars
<1>3. QED BY <1>1, <1>2, LeaseFrame DEF Acquire, providerVars

LEMMA FenceKeeps ==
  ASSUME IInv, Fence
  PROVE  IInv'
<1>1. TypeOK'
  BY FailoverAssumption DEF IInv, TypeOK, Fence, Leases, callVars
<1>2. Epochs'
  BY FailoverAssumption DEF IInv, TypeOK, Epochs, Fence, Leases
<1>3. QED BY <1>1, <1>2, LeaseFrame DEF Fence

-----------------------------------------------------------------------------
LEMMA InitIInv == Init => IInv
<1> SUFFICES ASSUME Init PROVE IInv
  OBVIOUS
<1>1. TypeOK
  BY FailoverAssumption, NoCallTyped DEF Init, TypeOK, NoLease, Leases, Labels
<1>2. effects = <<>> /\ \A o, a : ~Performed(o, a) /\ ~Acted(o) /\ ~Committed(o)
  BY DEF Init, Performed, Acted, Committed
<1>3. Alone /\ Rows /\ Fresh /\ Barrier /\ Health /\ StoppedDidNothing
  BY <1>2 DEF Init, Alone, Rows, Fresh, Barrier, Health, StoppedDidNothing
<1>4. Epochs /\ RestartOnce
  BY <1>2 DEF Init, Epochs, RestartOnce, NoLease
<1>5. QED BY <1>1, <1>3, <1>4 DEF IInv

LEMMA NextKeeps == IInv /\ [Next /\ Alone']_vars => IInv'
<1> SUFFICES ASSUME IInv, [Next /\ Alone']_vars PROVE IInv'
  OBVIOUS
<1>a. (Next /\ Alone') \/ UNCHANGED vars
  OBVIOUS
<1>1. ASSUME NEW c \in Controllers, CallStep(c) \/ Crash(c), Alone'
      PROVE  IInv'
  BY <1>1, BeginKeeps, LookKeeps, GateKeeps, MarkKeeps, RegateKeeps, FetchKeeps, RefuseKeeps,
     MutateKeeps, VerifyKeeps, ConfirmKeeps, ObserveKeeps, FinishKeeps, CrashKeeps DEF CallStep
<1>2. CASE UNCHANGED vars
  <2>1. TypeOK' /\ Epochs'
    BY <1>2 DEF IInv, TypeOK, Epochs, vars, controlVars, providerVars, callVars, Leases
  <2>2. QED BY <1>2, <2>1, LeaseFrame DEF vars, controlVars, providerVars
<1>3. QED BY <1>a, <1>1, <1>2, AcquireKeeps, FenceKeeps DEF Next

\* The inductive invariant: the row of an operation covers what its call does, and
\* of two operations on their way to an effect one is resolved.
THEOREM Invariance == Spec => []IInv
<1>1. QED BY InitIInv, NextKeeps, PTL DEF Spec

\* What a crash leaves behind can be read from the row of its operation.
THEOREM RowsCoverCrashes == Spec => []Inv
<1>1. IInv => Inv
  BY DEF IInv, Inv, Rows, Epochs
<1>2. QED BY <1>1, Invariance, PTL

\* However often it is reconciled, retried and crashed, an operation restarts the
\* service at most once, with and without receipts of the provider.
THEOREM AtMostOneRestart == Spec => []RestartOnce
<1>1. IInv => RestartOnce
  BY DEF IInv
<1>2. QED BY <1>1, Invariance, PTL

\* An operation in STOPPED has not restarted the service.
THEOREM StoppedIsHarmless == Spec => []StoppedDidNothing
<1>1. IInv => StoppedDidNothing
  BY DEF IInv
<1>2. QED BY <1>1, Invariance, PTL

\* Restarts happen once, and never under a row that says STOPPED.
THEOREM RestartsTrue == Spec => []RestartsAreTrue
BY AtMostOneRestart, StoppedIsHarmless, PTL DEF RestartsAreTrue

\* A step of a call that has effects performs them at the effect.
LEMMA OnlyMutateActs ==
  ASSUME IInv, [Next /\ Alone']_vars
  PROVE  effects' = effects \/ \E c \in Controllers : Mutate(c)
  BY DEF Next, CallStep, Begin, Look, Gate, Mark, Regate, Fetch, Refuse, Verify, Confirm, Observe,
     Finish, Crash, Acquire, Fence, vars, providerVars

\* An operation has an effect only when every other one that had an effect is resolved.
THEOREM EffectsDoNotOverlap == Spec => NoOverlap
<1> DEFINE Resolved == \A i \in DOMAIN effects' \ DOMAIN effects, j \in DOMAIN effects :
             effects'[i].op = effects[j].op \/ journal[effects[j].op] \in Final
<1>1. ASSUME IInv, [Next /\ Alone']_vars
      PROVE  Resolved
  <2>1. CASE effects' = effects
    BY <2>1
  <2>2. ASSUME NEW c \in Controllers, Mutate(c), effects' # effects
        PROVE  Resolved
    <3>1. pc[c] = "effect" /\ effects' = Append(effects, Effect(c))
      BY <2>2 DEF Mutate
    <3>2. \A i \in DOMAIN effects' \ DOMAIN effects : effects'[i].op = Op(c)
      BY <1>1, <3>1, Appended DEF Effect
    <3>3. \A j \in DOMAIN effects : effects[j].op \in Ops /\ Acted(effects[j].op)
      BY <1>1, EffectTyped DEF Acted
    <3>4. QED BY <1>1, <3>1, <3>2, <3>3, OthersResolved
  <2>3. QED BY <1>1, <2>1, <2>2, OnlyMutateActs
<1>2. QED BY <1>1, Invariance, PTL DEF Spec, NoOverlap

\* Only the last transition of a call writes SUCCEEDED.
LEMMA OnlyFinishSucceeds ==
  ASSUME IInv, [Next /\ Alone']_vars, NEW o \in Ops, journal[o] # "SUCCEEDED", journal'[o] = "SUCCEEDED"
  PROVE  \E c \in Controllers : pc[c] = "succeed" /\ Op(c) = o
<1>1. journal \in [Ops -> Unresolved \cup Final \cup {"NONE"}]
  BY DEF IInv, TypeOK
<1>2. journal' # journal
  OBVIOUS
<1>3. ASSUME NEW c \in Controllers, CallStep(c)
      PROVE  pc[c] = "succeed" /\ Op(c) = o
  <2>1. CASE Finish(c)
    BY <1>1, <2>1, OutcomeDomain DEF Finish, Write, Outcome
  <2>2. CASE Begin(c) \/ Mark(c) \/ Verify(c) \/ Confirm(c)
    BY <1>1, <2>2 DEF Begin, Mark, Verify, Confirm, Write
  <2>3. QED BY <1>2, <1>3, <2>1, <2>2 DEF CallStep, Look, Gate, Regate, Fetch, Refuse, Mutate, Observe
<1>4. QED BY <1>2, <1>3 DEF Next, Crash, Acquire, Fence, vars

\* A reported success is one: the operation had an effect and the service is healthy.
THEOREM SuccessIsTrue == Spec => SuccessIsReal
<1> DEFINE Real == \A o \in Ops : journal[o] # "SUCCEEDED" /\ journal'[o] = "SUCCEEDED" =>
             healthy /\ \E a \in Actions : Performed(o, a)
<1>1. ASSUME IInv, [Next /\ Alone']_vars
      PROVE  Real
  <2> SUFFICES ASSUME NEW o \in Ops, journal[o] # "SUCCEEDED", journal'[o] = "SUCCEEDED"
               PROVE  healthy /\ \E a \in Actions : Performed(o, a)
    OBVIOUS
  <2>1. PICK c \in Controllers : pc[c] = "succeed" /\ Op(c) = o
    BY <1>1, OnlyFinishSucceeds
  <2>2. healthy /\ Acted(o)
    BY <1>1, <2>1 DEF IInv, Health
  <2>3. \E a \in Actions : Performed(o, a)
    BY <1>1, <2>2, EffectTyped DEF Acted, Performed
  <2>4. QED BY <2>2, <2>3
<1>2. QED BY <1>1, Invariance, PTL DEF Spec, SuccessIsReal
=============================================================================
