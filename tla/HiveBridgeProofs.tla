-------------------------- MODULE HiveBridgeProofs --------------------------
(***************************************************************************)
(* Proofs about HiveBridge for every number of processes and calls, every  *)
(* finite set of replay keys, every capacity, lifetime and bound on time,  *)
(* and every behaviour of the wall clock.                                  *)
(***************************************************************************)
EXTENDS HiveBridge, FiniteSetTheorems, TLAPS

\* The step of call c changes nothing of the other calls.
Others(c) == \A d \in Calls \ {c} :
  /\ at'[d] = at[d] /\ budget'[d] = budget[d]
  /\ d \in dispatched' <=> d \in dispatched

\* What a call was given.
LEMMA InputTyped ==
  ASSUME TypeOK, NEW c \in Calls
  PROVE  ProcOf(c) \in Procs /\ Key(c) \in Keys /\ Expires(c) \in Time /\ Time \subseteq Nat
<1>1. in[c] \in Input
  BY BridgeAssumption DEF TypeOK
<1>2. QED BY <1>1, BridgeAssumption DEF Input, Task, ProcOf, Key, Expires, Time

\* A step that neither claims durably nor touches a process guard preserves the
\* invariant if it respects what the invariant says of its call alone.
LEMMA Frame ==
  ASSUME Inv, NEW c \in Calls, TypeOK', Others(c),
         UNCHANGED <<mono, in, store, claimant, claims>>,
         BudgetSound(c)', Owns(c)'
  PROVE  Inv'
<1>1. ASSUME NEW d \in Calls PROVE BudgetSound(d)' /\ Owns(d)'
  BY <1>1 DEF Inv, Ownership, Others, BudgetSound, Owns, Key, Expires
<1>2. CapacityRespected'
  BY DEF Inv, CapacityRespected
<1>3. QED BY <1>1, <1>2 DEF Inv, Ownership

\* The clocks.
LEMMA TimeTyped ==
  ASSUME TypeOK
  PROVE  utc \in Time /\ mono \in Time /\ 0 \in Time /\ Time \subseteq Nat
BY BridgeAssumption DEF TypeOK, Time

\* Going on and stopping touch one call only and keep the types.
LEMMA GotoTyped ==
  ASSUME TypeOK, NEW c \in Calls, NEW l \in Points, NEW b \in Budget, Goto(c, l, b)
  PROVE  /\ at' \in [Calls -> Points] /\ budget' \in [Calls -> Budget]
         /\ outcome' \in [Calls -> Outcomes]
         /\ at'[c] = l /\ budget'[c] = b
         /\ \A d \in Calls \ {c} : at'[d] = at[d] /\ budget'[d] = budget[d]
BY DEF TypeOK, Goto

LEMMA StopTyped ==
  ASSUME TypeOK, NEW c \in Calls, NEW o \in Outcomes, Stop(c, o)
  PROVE  /\ at' \in [Calls -> Points] /\ budget' \in [Calls -> Budget]
         /\ outcome' \in [Calls -> Outcomes]
         /\ at'[c] = "returned" /\ budget'[c] = NoBudget
         /\ \A d \in Calls \ {c} : at'[d] = at[d] /\ budget'[d] = budget[d]
<1>1. NoBudget \in Budget /\ "returned" \in Points
  BY BridgeAssumption DEF NoBudget, Budget, Points, Time
<1>2. QED BY <1>1 DEF TypeOK, Stop

\* Stopping anywhere without touching the guards keeps the invariant.
LEMMA StopKeeps ==
  ASSUME Inv, NEW c \in Calls, NEW o \in Outcomes, Stop(c, o),
         UNCHANGED <<clockVars, alive, claims, store, in, claimant, dispatched>>
  PROVE  Inv'
<1>1. TypeOK' /\ Others(c)
  BY StopTyped DEF Inv, TypeOK, Others, clockVars
<1>2. BudgetSound(c)'
  BY StopTyped DEF Inv, BudgetSound
<1>3. Owns(c)'
  BY StopTyped DEF Inv, Ownership, Owns, Key
<1>4. QED BY <1>1, <1>2, <1>3, Frame DEF clockVars

\* Going on before the durable claim keeps it if the budget stays sound.
LEMMA GotoKeeps ==
  ASSUME Inv, NEW c \in Calls, NEW l \in Points \ {"dispatch", "inFlight"},
         NEW b \in Budget, Goto(c, l, b), BudgetSound(c)',
         UNCHANGED <<clockVars, alive, claims, store, in, claimant, dispatched>>
  PROVE  Inv'
<1>1. TypeOK' /\ Others(c)
  BY GotoTyped DEF Inv, TypeOK, Others, clockVars
<1>2. Owns(c)'
  BY GotoTyped DEF Inv, Ownership, Owns, Key
<1>3. QED BY <1>1, <1>2, Frame DEF clockVars

LEMMA BeginKeeps ==
  ASSUME Inv, NEW c \in Calls, Begin(c), UNCHANGED <<clockVars, alive>>
  PROVE  Inv'
<1>1. CASE Refusal(in[c]) # "NONE"
  <2>1. Refusal(in[c]) \in Outcomes
    BY DEF Refusal, Outcomes
  <2>2. QED BY <1>1, <2>1, StopKeeps DEF Begin
<1>2. CASE Refusal(in[c]) = "NONE"
  <2> DEFINE b == [NoBudget EXCEPT !.started = mono]
  <2>1. b \in Budget /\ b.started = mono /\ mono \in Nat
    <3>1. mono \in Time /\ 0 \in Time /\ Time \subseteq Nat
      BY BridgeAssumption DEF Inv, TypeOK, Time
    <3>2. NoBudget \in Budget
      BY <3>1 DEF NoBudget, Budget
    <3>3. b \in Budget /\ b.started = mono
      BY <3>1, <3>2 DEF Budget
    <3>4. QED BY <3>1, <3>3
  <2>2. Goto(c, "before", b)
    BY <1>2 DEF Begin
  <2>3. BudgetSound(c)'
    <3> HIDE DEF b
    <3>1. at'[c] = "before" /\ budget'[c] = b
      BY <2>1, <2>2, GotoTyped DEF Inv, Points
    <3>2. QED BY <2>1, <3>1 DEF BudgetSound, clockVars
  <2>4. QED BY <1>2, <2>1, <2>2, <2>3, GotoKeeps DEF Begin, Points
<1>3. QED BY <1>1, <1>2

LEMMA SampleBeforeKeeps ==
  ASSUME Inv, NEW c \in Calls, SampleBefore(c), UNCHANGED <<clockVars, alive>>
  PROVE  Inv'
<1>1. CASE Expires(c) <= utc
  BY <1>1, StopKeeps DEF SampleBefore, Outcomes
<1>2. CASE ~(Expires(c) <= utc)
  <2> DEFINE b == [budget[c] EXCEPT !.before = utc, !.until = mono + (Expires(c) - utc)]
  <2>1. /\ utc \in Time /\ utc \in Nat /\ mono \in Nat /\ Expires(c) \in Nat
        /\ budget[c] \in Budget
    BY TimeTyped, InputTyped DEF Inv, TypeOK
  <2>2. mono + (Expires(c) - utc) \in Nat
    BY <1>2, <2>1
  <2>3. /\ b \in Budget /\ b.started = budget[c].started /\ b.before = utc
        /\ b.until = mono + (Expires(c) - utc)
    BY <2>1, <2>2 DEF Budget
  <2>4. Goto(c, "anchor", b)
    BY <1>2 DEF SampleBefore
  <2>5. budget[c].started <= mono /\ budget[c].started \in Nat
    BY <2>1, TimeTyped DEF Inv, BudgetSound, SampleBefore, At, Budget
  <2>6. BudgetSound(c)'
    <3> HIDE DEF b
    <3>1. at'[c] = "anchor" /\ budget'[c] = b /\ Expires(c)' = Expires(c) /\ mono' = mono
      BY <2>3, <2>4, GotoTyped DEF Inv, Points, SampleBefore, Expires, clockVars
    <3>2. QED BY <2>1, <2>3, <2>5, <3>1 DEF BudgetSound
  <2>7. QED BY <1>2, <2>3, <2>4, <2>6, GotoKeeps DEF SampleBefore, Points
<1>3. QED BY <1>1, <1>2

LEMMA SampleAnchorKeeps ==
  ASSUME Inv, NEW c \in Calls, SampleAnchor(c), UNCHANGED <<clockVars, alive>>
  PROVE  Inv'
<1> DEFINE b == [budget[c] EXCEPT !.anchor = mono]
<1>1. mono \in Time /\ Time \subseteq Nat /\ budget[c] \in Budget
  BY TimeTyped DEF Inv, TypeOK
<1>2. /\ b \in Budget /\ b.started = budget[c].started /\ b.before = budget[c].before
      /\ b.until = budget[c].until /\ b.anchor = mono
  BY <1>1 DEF Budget
<1>3. Goto(c, "after", b)
  BY DEF SampleAnchor
<1>4. BudgetSound(c)'
  <2> HIDE DEF b
  <2>1. at'[c] = "after" /\ budget'[c] = b /\ Expires(c)' = Expires(c) /\ mono' = mono
    BY <1>2, <1>3, GotoTyped DEF Inv, Points, SampleAnchor, Expires, clockVars
  <2>2. QED BY <1>1, <1>2, <2>1 DEF Inv, BudgetSound, SampleAnchor, At
<1>5. QED BY <1>2, <1>3, <1>4, GotoKeeps DEF SampleAnchor, Points

LEMMA SampleAfterKeeps ==
  ASSUME Inv, NEW c \in Calls, SampleAfter(c), UNCHANGED <<clockVars, alive>>
  PROVE  Inv'
<1> DEFINE b == [budget[c] EXCEPT !.started = 0, !.before = 0, !.remaining = Remaining(c)]
<1>1. CASE \E o \in {"EXPIRED", "NO_GUARD", "UNSHAPED"} : Stop(c, o)
  BY <1>1, StopKeeps DEF SampleAfter, Outcomes
<1>2. CASE ~(Expires(c) <= utc \/ Remaining(c) <= 0) /\ Goto(c, "recheck", b)
  <2>1. /\ utc \in Time /\ 0 \in Time /\ Expires(c) \in Time /\ budget[c] \in Budget
    BY TimeTyped, InputTyped DEF Inv, TypeOK
  <2>2. /\ budget[c].started \in Time /\ budget[c].before \in Time
        /\ budget[c].anchor \in Time /\ budget[c].until \in Nat
    BY <2>1 DEF Budget
  <2>3. /\ budget[c].started <= budget[c].anchor
        /\ budget[c].started + (Expires(c) - budget[c].before) <= budget[c].until
    BY DEF Inv, BudgetSound, SampleAfter, At
  <2>4. Remaining(c) \in Time /\ budget[c].anchor + Remaining(c) <= budget[c].until
    BY <1>2, <2>1, <2>2, <2>3, BridgeAssumption DEF Remaining, Later, Time
  <2>5. /\ b \in Budget /\ b.anchor = budget[c].anchor /\ b.remaining = Remaining(c)
        /\ b.until = budget[c].until
    BY <2>1, <2>4 DEF Budget
  <2>6. BudgetSound(c)'
    <3> HIDE DEF b
    <3>1. at'[c] = "recheck" /\ budget'[c] = b
      BY <1>2, <2>5, GotoTyped DEF Inv, Points
    <3>2. QED BY <2>4, <2>5, <3>1 DEF BudgetSound
  <2>7. QED BY <1>2, <2>5, <2>6, GotoKeeps DEF SampleAfter, Points
<1>3. QED BY <1>1, <1>2 DEF SampleAfter

LEMMA RecheckKeeps ==
  ASSUME Inv, NEW c \in Calls, Recheck(c), UNCHANGED <<clockVars, alive>>
  PROVE  Inv'
<1>1. CASE Expired(c)
  BY <1>1, StopKeeps DEF Recheck, Outcomes
<1>2. CASE ~Expired(c)
  <2>1. budget[c] \in Budget /\ Goto(c, "now", budget[c])
    BY <1>2 DEF Inv, TypeOK, Recheck
  <2>2. at'[c] = "now" /\ budget'[c] = budget[c]
    BY <2>1, GotoTyped DEF Inv, Points
  <2>3. BudgetSound(c)'
    BY <2>2 DEF Inv, BudgetSound, Recheck, At
  <2>4. QED BY <1>2, <2>1, <2>3, GotoKeeps DEF Recheck, Points
<1>3. QED BY <1>1, <1>2

LEMMA ReadNowKeeps ==
  ASSUME Inv, NEW c \in Calls, ReadNow(c), UNCHANGED <<clockVars, alive>>
  PROVE  Inv'
<1> DEFINE b == [budget[c] EXCEPT !.now = utc]
<1>1. /\ b \in Budget /\ b.anchor = budget[c].anchor /\ b.remaining = budget[c].remaining
      /\ b.until = budget[c].until
  BY TimeTyped DEF Inv, TypeOK, Budget
<1>2. Goto(c, "process", b)
  BY DEF ReadNow
<1>3. BudgetSound(c)'
  <2> HIDE DEF b
  <2>1. at'[c] = "process" /\ budget'[c] = b
    BY <1>1, <1>2, GotoTyped DEF Inv, Points
  <2>2. QED BY <1>1, <2>1 DEF Inv, BudgetSound, ReadNow, At
<1>4. QED BY <1>1, <1>2, <1>3, GotoKeeps DEF ReadNow, Points

-----------------------------------------------------------------------------
\* The bounded process guard.

\* A process guard within its capacity.
Bounded(held) == /\ Cardinality(Held(held)) <= MaxEntries
                 /\ \A k \in Keys : Cardinality(HeldBy(held, k.actor)) <= MaxPerActor

\* Sets of keys are finite, and a subset has no more elements.
LEMMA KeySets ==
  ASSUME NEW S \in SUBSET Keys, NEW T \in SUBSET Keys, S \subseteq T
  PROVE  IsFiniteSet(T) /\ Cardinality(S) \in Nat /\ Cardinality(T) \in Nat
         /\ Cardinality(S) <= Cardinality(T)
<1>1. IsFiniteSet(T) /\ IsFiniteSet(S)
  BY FS_Subset, BridgeAssumption
<1>2. QED BY <1>1, FS_Subset, FS_CardinalityType

LEMMA OneMoreKey ==
  ASSUME NEW S \in SUBSET Keys, NEW T \in SUBSET Keys, NEW k \in Keys, T \subseteq S \cup {k}
  PROVE  Cardinality(T) <= Cardinality(S) + 1 /\ Cardinality(S) \in Nat /\ Cardinality(T) \in Nat
<1>1. IsFiniteSet(S) /\ Cardinality(S) \in Nat
  BY KeySets
<1>2. Cardinality(S \cup {k}) <= Cardinality(S) + 1
  BY <1>1, FS_AddElement
<1>3. /\ Cardinality(T) <= Cardinality(S \cup {k}) /\ Cardinality(T) \in Nat
      /\ Cardinality(S \cup {k}) \in Nat
  <2>1. S \cup {k} \in SUBSET Keys
    OBVIOUS
  <2>2. QED BY <2>1, KeySets
<1>4. QED BY <1>1, <1>2, <1>3

\* Dropping expired claims keeps a guard within its capacity.
LEMMA UnexpiredBounded ==
  ASSUME NEW held \in [Keys -> Time], NEW t, Bounded(held)
  PROVE  Unexpired(held, t) \in [Keys -> Time] /\ Bounded(Unexpired(held, t))
<1> DEFINE kept == Unexpired(held, t)
<1>1. kept \in [Keys -> Time] /\ \A k \in Keys : kept[k] # 0 => held[k] # 0
  BY BridgeAssumption DEF Unexpired, Time
<1>2. Held(kept) \subseteq Held(held) /\ Held(held) \in SUBSET Keys /\ Held(kept) \in SUBSET Keys
  BY <1>1 DEF Held
<1>3. ASSUME NEW k \in Keys
      PROVE  Cardinality(HeldBy(kept, k.actor)) <= MaxPerActor
  <2>1. HeldBy(kept, k.actor) \subseteq HeldBy(held, k.actor) /\ HeldBy(held, k.actor) \in SUBSET Keys
        /\ HeldBy(kept, k.actor) \in SUBSET Keys
    BY <1>2 DEF HeldBy
  <2>2. Cardinality(HeldBy(held, k.actor)) <= MaxPerActor
    BY DEF Bounded
  <2>3. QED BY <2>1, <2>2, KeySets, BridgeAssumption
<1>4. Cardinality(Held(kept)) <= MaxEntries
  BY <1>2, KeySets, BridgeAssumption DEF Bounded
<1>5. QED BY <1>1, <1>3, <1>4 DEF Bounded

\* Adding one claim to a guard that is not full for its actor does so too.
LEMMA AddBounded ==
  ASSUME NEW kept \in [Keys -> Time], NEW k \in Keys, NEW x \in Time,
         Bounded(kept), ~Full(kept, k.actor)
  PROVE  [kept EXCEPT ![k] = x] \in [Keys -> Time] /\ Bounded([kept EXCEPT ![k] = x])
<1> DEFINE more == [kept EXCEPT ![k] = x]
<1>1. more \in [Keys -> Time] /\ \A j \in Keys : more[j] # 0 => kept[j] # 0 \/ j = k
  OBVIOUS
<1>2. Held(more) \subseteq Held(kept) \cup {k} /\ Held(more) \in SUBSET Keys
      /\ Held(kept) \in SUBSET Keys
  BY <1>1 DEF Held
<1>3. Cardinality(Held(more)) <= MaxEntries
  <2>1. /\ Cardinality(Held(more)) <= Cardinality(Held(kept)) + 1
        /\ Cardinality(Held(more)) \in Nat /\ Cardinality(Held(kept)) \in Nat
    BY <1>2, OneMoreKey
  <2>2. ~(Cardinality(Held(kept)) >= MaxEntries) /\ MaxEntries \in Nat
    BY BridgeAssumption DEF Full
  <2>3. QED BY <2>1, <2>2
<1>4. ASSUME NEW j \in Keys PROVE Cardinality(HeldBy(more, j.actor)) <= MaxPerActor
  <2>1. HeldBy(more, j.actor) \in SUBSET Keys /\ HeldBy(kept, j.actor) \in SUBSET Keys
    BY <1>2 DEF HeldBy
  <2>2. CASE j.actor = k.actor
    <3>1. HeldBy(more, j.actor) \subseteq HeldBy(kept, j.actor) \cup {k}
      BY <1>2 DEF HeldBy
    <3>2. ~(Cardinality(HeldBy(kept, j.actor)) >= MaxPerActor)
      BY <2>2 DEF Full
    <3>3. /\ Cardinality(HeldBy(more, j.actor)) <= Cardinality(HeldBy(kept, j.actor)) + 1
          /\ Cardinality(HeldBy(more, j.actor)) \in Nat
          /\ Cardinality(HeldBy(kept, j.actor)) \in Nat
      BY <2>1, <3>1, OneMoreKey
    <3>4. QED BY <3>2, <3>3, BridgeAssumption
  <2>3. CASE j.actor # k.actor
    <3>1. HeldBy(more, j.actor) \subseteq HeldBy(kept, j.actor)
      BY <1>2, <2>3 DEF HeldBy
    <3>2. Cardinality(HeldBy(kept, j.actor)) <= MaxPerActor
      BY DEF Bounded
    <3>3. /\ Cardinality(HeldBy(more, j.actor)) <= Cardinality(HeldBy(kept, j.actor))
          /\ Cardinality(HeldBy(more, j.actor)) \in Nat
          /\ Cardinality(HeldBy(kept, j.actor)) \in Nat
      BY <2>1, <3>1, KeySets
    <3>4. QED BY <3>2, <3>3, BridgeAssumption
  <2>4. QED BY <2>2, <2>3
<1>5. QED BY <1>1, <1>3, <1>4 DEF Bounded

\* The critical section of the process guard.
LEMMA ProcessClaimKeeps ==
  ASSUME Inv, NEW c \in Calls, ProcessClaim(c), UNCHANGED <<clockVars, alive>>
  PROVE  Inv'
<1> DEFINE p == ProcOf(c)
           kept == Unexpired(claims[p], budget[c].now)
           more == [kept EXCEPT ![Key(c)] = Expires(c)]
           b == [budget[c] EXCEPT !.now = 0]
<1>1. p \in Procs /\ Key(c) \in Keys /\ Expires(c) \in Time
  BY InputTyped DEF Inv
<1>2. claims[p] \in [Keys -> Time] /\ Bounded(claims[p])
  BY <1>1 DEF Inv, TypeOK, CapacityRespected, Bounded
<1>3. kept \in [Keys -> Time] /\ Bounded(kept)
  BY <1>2, UnexpiredBounded
<1>4. \/ claims' = [claims EXCEPT ![p] = kept]
      \/ claims' = [claims EXCEPT ![p] = more] /\ ~Full(kept, Key(c).actor)
  BY DEF ProcessClaim
<1>5. claims' \in [Procs -> [Keys -> Time]] /\ CapacityRespected'
  <2>1. \E h \in [Keys -> Time] : claims' = [claims EXCEPT ![p] = h] /\ Bounded(h)
    <3> HIDE DEF p, kept
    <3>1. CASE claims' = [claims EXCEPT ![p] = kept]
      BY <3>1, <1>3
    <3>2. CASE claims' = [claims EXCEPT ![p] = more] /\ ~Full(kept, Key(c).actor)
      <4>1. more \in [Keys -> Time] /\ Bounded(more)
        BY <3>2, <1>1, <1>3, AddBounded
      <4>2. QED BY <3>2, <4>1
    <3>3. QED BY <1>4, <3>1, <3>2
  <2>2. PICK h \in [Keys -> Time] : claims' = [claims EXCEPT ![p] = h] /\ Bounded(h)
    BY <2>1
  <2> HIDE DEF p
  <2>3. claims' \in [Procs -> [Keys -> Time]]
        /\ \A q \in Procs : claims'[q] = h \/ claims'[q] = claims[q]
    BY <2>2 DEF Inv, TypeOK
  <2>4. QED BY <2>2, <2>3 DEF Inv, CapacityRespected, Bounded
<1>6. /\ b \in Budget /\ b.anchor = budget[c].anchor /\ b.remaining = budget[c].remaining
      /\ b.until = budget[c].until
  BY TimeTyped DEF Inv, TypeOK, Budget
<1>7. /\ UNCHANGED <<clockVars, alive, store, in, claimant, dispatched>>
      /\ \/ Goto(c, "durable", b)
         \/ \E o \in Outcomes : Stop(c, o)
  BY DEF ProcessClaim, Outcomes
<1>8. /\ TypeOK' /\ Others(c)
      /\ \/ at'[c] = "durable" /\ budget'[c] = b
         \/ at'[c] = "returned" /\ budget'[c] = NoBudget
  <2> HIDE DEF b
  <2>1. CASE Goto(c, "durable", b)
    BY <2>1, <1>5, <1>6, <1>7, GotoTyped DEF Inv, TypeOK, Others, clockVars, Points
  <2>2. ASSUME NEW o \in Outcomes, Stop(c, o)
        PROVE  TypeOK' /\ Others(c) /\ at'[c] = "returned" /\ budget'[c] = NoBudget
    BY <2>2, <1>5, <1>7, StopTyped DEF Inv, TypeOK, Others, clockVars
  <2>3. QED BY <1>7, <2>1, <2>2
<1>9. BudgetSound(c)' /\ Owns(c)'
  <2> HIDE DEF b
  <2>1. BudgetSound(c)'
    BY <1>6, <1>8 DEF Inv, BudgetSound, ProcessClaim, At
  <2>2. Owns(c)'
    BY <1>7, <1>8 DEF Inv, Ownership, Owns, Key
  <2>3. QED BY <2>1, <2>2
<1>10. ASSUME NEW d \in Calls PROVE BudgetSound(d)' /\ Owns(d)'
  BY <1>7, <1>8, <1>9 DEF Inv, Ownership, Others, BudgetSound, Owns, Key, Expires, clockVars
<1>11. QED BY <1>5, <1>7, <1>8, <1>10 DEF Inv, Ownership

-----------------------------------------------------------------------------
\* The durable claim and the dispatch.

LEMMA DurableClaimKeeps ==
  ASSUME Inv, NEW c \in Calls, DurableClaim(c), UNCHANGED <<clockVars, alive>>
  PROVE  Inv'
<1>1. Key(c) \in Keys /\ c # NoCall /\ budget[c] \in Budget
  BY InputTyped, BridgeAssumption DEF Inv, TypeOK
<1>2. UNCHANGED <<clockVars, alive, claims, in, dispatched>>
  BY DEF DurableClaim
<1>3. \/ Goto(c, "dispatch", budget[c]) /\ (in[c].guard = "DURABLE" => Insert(c) /\ Key(c) \notin store)
      \/ Stop(c, "CONSUMED") \/ Stop(c, "UNAVAILABLE")
  BY BridgeAssumption DEF DurableClaim
<1>4. \/ UNCHANGED <<store, claimant>>
      \/ Insert(c) /\ Key(c) \notin store
  BY DEF DurableClaim
<1>5. /\ at' \in [Calls -> Points] /\ budget' \in [Calls -> Budget] /\ outcome' \in [Calls -> Outcomes]
      /\ \A d \in Calls \ {c} : at'[d] = at[d] /\ budget'[d] = budget[d]
      /\ \/ /\ at'[c] = "dispatch" /\ budget'[c] = budget[c]
            /\ in[c].guard = "DURABLE" => Insert(c) /\ Key(c) \notin store
         \/ at'[c] = "returned" /\ budget'[c] = NoBudget
  BY <1>1, <1>3, GotoTyped, StopTyped DEF Inv, Points, Outcomes
<1>6. TypeOK'
  BY <1>1, <1>2, <1>4, <1>5 DEF Inv, TypeOK, Insert, clockVars
<1>7. store' = {k \in Keys : claimant'[k] # NoCall}
  BY <1>1, <1>4 DEF Inv, TypeOK, Ownership, Insert
<1>8. ASSUME NEW d \in Calls PROVE BudgetSound(d)'
  BY <1>2, <1>5 DEF Inv, BudgetSound, DurableClaim, At, Expires, clockVars
<1>9. ASSUME NEW d \in Calls, d # c PROVE Owns(d)'
  <2> SUFFICES ASSUME in[d].guard = "DURABLE", at[d] \in {"dispatch", "inFlight"} \/ d \in dispatched
               PROVE  claimant'[Key(d)] = d
    BY <1>2, <1>5, <1>9 DEF Owns, Key
  <2>1. claimant[Key(d)] = d /\ Key(d) \in Keys /\ d # NoCall
    BY InputTyped, BridgeAssumption DEF Inv, Ownership, Owns
  <2>2. Key(d) \in store
    BY <2>1 DEF Inv, Ownership
  <2>3. QED BY <1>4, <2>1, <2>2 DEF Insert, Inv, TypeOK
<1>10. Owns(c)'
  <2> SUFFICES ASSUME in[c].guard = "DURABLE", at'[c] \in {"dispatch", "inFlight"} \/ c \in dispatched
               PROVE  claimant'[Key(c)] = c
    BY <1>2 DEF Owns, Key
  <2>1. CASE c \in dispatched
    <3>1. claimant[Key(c)] = c
      BY <2>1 DEF Inv, Ownership, Owns
    <3>2. QED BY <1>1, <1>4, <3>1 DEF Insert, Inv, TypeOK
  <2>2. CASE at'[c] \in {"dispatch", "inFlight"}
    BY <1>1, <1>5, <2>2 DEF Insert, Inv, TypeOK
  <2>3. QED BY <2>1, <2>2
<1>11. QED BY <1>2, <1>6, <1>7, <1>8, <1>9, <1>10 DEF Inv, Ownership, CapacityRespected

LEMMA DispatchKeeps ==
  ASSUME Inv, NEW c \in Calls, Dispatch(c), UNCHANGED <<clockVars, alive>>
  PROVE  Inv'
<1>1. CASE Expired(c)
  BY <1>1, StopKeeps DEF Dispatch, Outcomes
<1>2. CASE ~Expired(c)
  <2>1. budget[c] \in Budget /\ Goto(c, "inFlight", budget[c]) /\ dispatched' = dispatched \cup {c}
    BY <1>2 DEF Inv, TypeOK, Dispatch
  <2>2. TypeOK' /\ Others(c) /\ at'[c] = "inFlight" /\ budget'[c] = budget[c]
    BY <2>1, GotoTyped DEF Inv, TypeOK, Others, Points, Dispatch, clockVars
  <2>3. BudgetSound(c)' /\ Owns(c)'
    BY <2>2 DEF Inv, Ownership, BudgetSound, Owns, Key, Dispatch, At
  <2>4. QED BY <2>2, <2>3, Frame DEF Dispatch, clockVars
<1>3. QED BY <1>1, <1>2

LEMMA ResultKeeps ==
  ASSUME Inv, NEW c \in Calls, Result(c), UNCHANGED <<clockVars, alive>>
  PROVE  Inv'
<1>1. \E o \in Outcomes : Stop(c, o)
  BY DEF Result, Outcomes
<1>2. QED BY <1>1, StopKeeps DEF Result

\* Time passing, the wall clock being set and a process dying keep the invariant.
LEMMA EnvironmentKeeps ==
  ASSUME Inv, UNCHANGED bridgeVars, mono' >= mono,
         utc' \in Time, mono' \in Time, stepped' \in BOOLEAN, alive' \subseteq Procs
  PROVE  Inv'
<1>1. TypeOK' /\ CapacityRespected' /\ Ownership'
  BY DEF Inv, TypeOK, CapacityRespected, Ownership, Owns, Key, bridgeVars
<1>2. ASSUME NEW c \in Calls PROVE BudgetSound(c)'
  <2>1. budget[c] \in Budget /\ Time \subseteq Nat /\ mono \in Nat /\ mono' \in Nat
    BY TimeTyped DEF Inv, TypeOK
  <2>2. budget[c].started \in Nat
    BY <2>1 DEF Budget
  <2>3. budget' = budget /\ at' = at /\ in' = in
    BY DEF bridgeVars
  <2>4. QED BY <2>1, <2>2, <2>3 DEF Inv, BudgetSound, Expires
<1>3. QED BY <1>1, <1>2 DEF Inv

LEMMA InitInv == Init => Inv
<1> SUFFICES ASSUME Init PROVE Inv
  OBVIOUS
<1>1. 0 \in Time /\ NoBudget \in Budget
  BY BridgeAssumption DEF Time, NoBudget, Budget
<1>2. TypeOK
  BY <1>1 DEF Init, TypeOK, Points, Outcomes
<1>3. Ownership
  BY DEF Init, Ownership, Owns
<1>4. ASSUME NEW p \in Procs PROVE Bounded(claims[p])
  <2>1. Held(claims[p]) = {} /\ \A k \in Keys : HeldBy(claims[p], k.actor) = {}
    BY <1>4 DEF Init, Held, HeldBy
  <2>2. Cardinality({}) = 0 /\ 0 <= MaxEntries /\ 0 <= MaxPerActor
    BY FS_EmptySet, BridgeAssumption
  <2>3. QED BY ONLY <2>1, <2>2 DEF Bounded
<1>5. ASSUME NEW c \in Calls PROVE BudgetSound(c)
  BY <1>5 DEF Init, BudgetSound
<1>6. QED BY <1>2, <1>3, <1>4, <1>5 DEF Inv, CapacityRespected, Bounded

LEMMA NextInv == Inv /\ [Next]_vars => Inv'
<1> SUFFICES ASSUME Inv, [Next]_vars PROVE Inv'
  OBVIOUS
<1>1. ASSUME NEW c \in Calls, CallStep(c) PROVE Inv'
  BY <1>1, BeginKeeps, SampleBeforeKeeps, SampleAnchorKeeps, SampleAfterKeeps, RecheckKeeps,
     ReadNowKeeps, ProcessClaimKeeps, DurableClaimKeeps, DispatchKeeps, ResultKeeps DEF CallStep
<1> USE TimeTyped DEF Inv
<1>2. CASE Tick
  <2>1. utc \in Nat /\ mono \in Nat /\ utc' \in Time /\ mono' \in Time /\ mono' >= mono
    BY <1>2, BridgeAssumption DEF Tick, TypeOK, Time
  <2>2. QED BY <1>2, <2>1, EnvironmentKeeps DEF Tick, TypeOK
<1>3. CASE SetClock
  BY <1>3, EnvironmentKeeps DEF SetClock, TypeOK, Time
<1>4. ASSUME NEW p \in Procs, Die(p) PROVE Inv'
  BY <1>4, EnvironmentKeeps DEF Die, TypeOK, clockVars, Time
<1>5. CASE UNCHANGED vars
  BY <1>5, EnvironmentKeeps DEF vars, TypeOK, clockVars, Time
<1>6. QED BY <1>1, <1>2, <1>3, <1>4, <1>5 DEF Next

-----------------------------------------------------------------------------
\* Types, ownership of durable claims, soundness of the monotonic budgets and
\* capacity of the process guards are invariant.
THEOREM Invariance == Spec => []Inv
BY InitInv, NextInv, PTL DEF Spec

\* A replay key presented with the durable guard is dispatched at most once, in
\* any number of processes: both dispatching calls would own its claim.
THEOREM DispatchesAtMostOnce == Spec => []AtMostOneDispatch
<1>1. Inv => AtMostOneDispatch
  BY DEF Inv, TypeOK, Ownership, Owns, AtMostOneDispatch
<1>2. QED BY <1>1, Invariance, PTL

\* However the wall clock is set, a result is only accepted in the monotonic time
\* the authorization had left at the first sample of the wall clock.
THEOREM AcceptanceIsTimely == Spec => AcceptedWithinAuthorization
<1>1. Inv /\ [Next]_vars =>
        [\A c \in Calls : outcome[c] = "NONE" /\ outcome'[c] = "DRY_RUN" => mono < budget[c].until]_vars
  <2> SUFFICES ASSUME Inv, Next, NEW c \in Calls, outcome[c] = "NONE", outcome'[c] = "DRY_RUN"
               PROVE  mono < budget[c].until
    OBVIOUS
  <2>1. Result(c) /\ ~Expired(c)
    <3>1. PICK d \in Calls : CallStep(d)
      BY DEF Next, Tick, SetClock, Die, bridgeVars
    <3>2. d = c
      BY <3>1 DEF Inv, TypeOK, CallStep, Begin, SampleBefore, SampleAnchor, SampleAfter, Recheck,
         ReadNow, ProcessClaim, DurableClaim, Dispatch, Result, Goto, Stop
    <3>3. Refusal(in[c]) # "DRY_RUN"
      BY DEF Refusal
    <3>4. QED BY <3>1, <3>2, <3>3 DEF Inv, TypeOK, CallStep, Begin, SampleBefore, SampleAnchor,
         SampleAfter, Recheck, ReadNow, ProcessClaim, DurableClaim, Dispatch, Result, Goto, Stop
  <2>2. budget[c] \in Budget /\ Time \subseteq Nat /\ mono \in Nat
    BY TimeTyped DEF Inv, TypeOK
  <2>3. budget[c].anchor \in Nat /\ budget[c].remaining \in Nat /\ budget[c].until \in Nat
    BY <2>2 DEF Budget
  <2>4. budget[c].anchor + budget[c].remaining <= budget[c].until
    BY <2>1 DEF Inv, BudgetSound, Result, At
  <2>5. QED BY <2>1, <2>2, <2>3, <2>4 DEF Expired
<1>2. QED BY <1>1, Invariance, PTL DEF Spec, AcceptedWithinAuthorization

-----------------------------------------------------------------------------
\* The process guard on its own, and what a refusal leaves.

\* The outcomes of a call that may have used up the durable claim of its key.
Spent == {"UNAVAILABLE", "EXPIRED", "DISPATCH_FAILED", "LATE", "UNEXPECTED_RESULT", "DRY_RUN"}

\* The call passed the process guard.
Past(c) == at[c] \in {"durable", "dispatch", "inFlight"} \/ c \in dispatched

SameTask(c, d) == ProcOf(c) = ProcOf(d) /\ in[c].task = in[d].task

\* Where a call can be, by how it ended, what it dispatched and what it claimed.
Progress ==
  \A c \in Calls :
    /\ at[c] # "returned" => outcome[c] = "NONE"
    /\ c \in dispatched => at[c] \in {"inFlight", "returned"}
    /\ \A k \in Keys : claimant[k] = c =>
         at[c] \in {"dispatch", "inFlight"} \/ (at[c] = "returned" /\ outcome[c] \in Spent)

\* While the clock was never set back: a call past the process guard has its
\* claim there, or its authorization is over; so it is with two calls for one
\* task in one process, of which at most one dispatched.
Guarded ==
  /\ \A c \in Calls : at[c] = "process" => budget[c].now <= utc
  /\ \A c \in Calls : Past(c) => claims[ProcOf(c)][Key(c)] = Expires(c) \/ Expires(c) <= utc
  /\ \A c, d \in Calls : c # d /\ SameTask(c, d) /\ Past(c) /\ Past(d) =>
       Expires(c) <= utc /\ ~(c \in dispatched /\ d \in dispatched)

FairInv == Progress /\ (~stepped => Guarded)

\* A step of a call that leaves the process guards alone keeps this, if it does
\* for that call.
LEMMA FairFrame ==
  ASSUME Inv, FairInv, NEW c \in Calls, Others(c),
         \A d \in Calls \ {c} : outcome'[d] = outcome[d],
         UNCHANGED <<utc, stepped, in, claims>>,
         at'[c] # "returned" => outcome'[c] = "NONE",
         c \in dispatched' => at'[c] \in {"inFlight", "returned"},
         \A k \in Keys : claimant'[k] = claimant[k] \/ claimant'[k] = c,
         \A k \in Keys : claimant'[k] = c =>
           at'[c] \in {"dispatch", "inFlight"} \/ (at'[c] = "returned" /\ outcome'[c] \in Spent),
         Past(c)' => Past(c),
         c \in dispatched' /\ c \notin dispatched => Expires(c) > utc,
         at'[c] = "process" => budget'[c].now <= utc
  PROVE  FairInv'
<1>1. Progress'
  <2> SUFFICES ASSUME NEW d \in Calls
               PROVE  /\ at'[d] # "returned" => outcome'[d] = "NONE"
                      /\ d \in dispatched' => at'[d] \in {"inFlight", "returned"}
                      /\ \A k \in Keys : claimant'[k] = d =>
                           at'[d] \in {"dispatch", "inFlight"} \/ (at'[d] = "returned" /\ outcome'[d] \in Spent)
    BY DEF Progress
  <2>1. CASE d = c
    BY <2>1
  <2>2. CASE d # c
    <3>1. at'[d] = at[d] /\ outcome'[d] = outcome[d] /\ (d \in dispatched' <=> d \in dispatched)
      BY <2>2 DEF Others
    <3>2. \A k \in Keys : claimant'[k] = d => claimant[k] = d
      BY <2>2
    <3>3. QED BY <3>1, <3>2 DEF FairInv, Progress
  <2>3. QED BY <2>1, <2>2
<1>2. ASSUME ~stepped' PROVE Guarded'
  <2>1. Guarded
    BY <1>2 DEF FairInv
  <2>2. \A d \in Calls : /\ ProcOf(d)' = ProcOf(d) /\ Key(d)' = Key(d) /\ Expires(d)' = Expires(d)
                         /\ \A e \in Calls : SameTask(d, e)' <=> SameTask(d, e)
    BY DEF ProcOf, Key, Expires, SameTask
  <2>3. \A d \in Calls : Past(d)' => Past(d)
    BY DEF Past, Others
  <2>4. \A d \in Calls : at'[d] = "process" => budget'[d].now <= utc'
    BY <2>1 DEF Guarded, Others
  <2>5. \A d \in Calls : Past(d)' => claims'[ProcOf(d)'][Key(d)'] = Expires(d)' \/ Expires(d)' <= utc'
    BY <2>1, <2>2, <2>3 DEF Guarded
  <2>6. \A d, e \in Calls : d # e /\ SameTask(d, e)' /\ Past(d)' /\ Past(e)' => Expires(d)' <= utc'
    BY <2>1, <2>2, <2>3 DEF Guarded
  <2>7. ASSUME NEW d \in Calls, NEW e \in Calls, d # e, SameTask(d, e)', d \in dispatched', e \in dispatched'
        PROVE  FALSE
    <3>1. SameTask(d, e) /\ SameTask(e, d) /\ Past(d) /\ Past(e)
      BY <2>2, <2>3, <2>7 DEF Past, SameTask
    <3>2. Expires(d) <= utc /\ Expires(e) <= utc /\ ~(d \in dispatched /\ e \in dispatched)
      BY <2>1, <2>7, <3>1 DEF Guarded
    <3>3. Expires(c) \in Nat /\ utc \in Nat
      BY InputTyped, TimeTyped DEF Inv
    <3>4. QED BY <2>7, <3>2, <3>3 DEF Others
  <2>8. QED BY <2>4, <2>5, <2>6, <2>7 DEF Guarded
<1>3. QED BY <1>1, <1>2 DEF FairInv

\* What going on and stopping do to the outcomes.
LEMMA Outcome ==
  ASSUME TypeOK, NEW c \in Calls
  PROVE  /\ \A l \in Points, b \in Budget : Goto(c, l, b) => outcome' = outcome /\ at'[c] = l /\ budget'[c] = b
                                             /\ \A d \in Calls \ {c} : at'[d] = at[d] /\ budget'[d] = budget[d]
         /\ \A o \in Outcomes : Stop(c, o) => at'[c] = "returned" /\ outcome'[c] = o
                                  /\ \A d \in Calls \ {c} : at'[d] = at[d] /\ budget'[d] = budget[d]
                                                            /\ outcome'[d] = outcome[d]
BY DEF TypeOK, Goto, Stop

Early == {"idle", "before", "anchor", "after", "recheck", "now", "process"}

\* A step before the process guard.
LEMMA EarlyFair ==
  ASSUME Inv, FairInv, NEW c \in Calls, at[c] \in Early,
         UNCHANGED <<utc, stepped, in, claims, claimant, dispatched>>,
         \/ \E o \in Outcomes : Stop(c, o)
         \/ \E l \in Early, b \in Budget : Goto(c, l, b) /\ (l = "process" => b.now <= utc)
  PROVE  FairInv'
<1>1. /\ outcome[c] = "NONE" /\ c \notin dispatched /\ \A k \in Keys : claimant[k] # c
  BY DEF FairInv, Progress, Early
<1>2. CASE \E o \in Outcomes : Stop(c, o)
  <2>1. at'[c] = "returned" /\ Others(c) /\ \A d \in Calls \ {c} : outcome'[d] = outcome[d]
    BY <1>2, Outcome DEF Inv, Others
  <2>2. QED BY <1>1, <2>1, FairFrame DEF Past
<1>3. CASE \E l \in Early, b \in Budget : Goto(c, l, b) /\ (l = "process" => b.now <= utc)
  <2>1. PICK l \in Early, b \in Budget : Goto(c, l, b) /\ (l = "process" => b.now <= utc)
    BY <1>3
  <2>2. l \in Points
    BY DEF Early, Points
  <2>3. at'[c] = l /\ budget'[c] = b /\ outcome' = outcome /\ Others(c)
    BY <2>1, <2>2, Outcome DEF Inv, Others
  <2>4. ~Past(c)'
    BY <1>1, <2>3 DEF Past, Early
  <2>5. QED BY <1>1, <2>1, <2>3, <2>4, FairFrame
<1>4. QED BY <1>2, <1>3

LEMMA BeginsFair ==
  ASSUME Inv, FairInv, NEW c \in Calls, UNCHANGED <<clockVars, alive>>,
         Begin(c) \/ SampleBefore(c) \/ SampleAnchor(c) \/ SampleAfter(c) \/ Recheck(c) \/ ReadNow(c)
  PROVE  FairInv'
<1>1. /\ mono \in Time /\ utc \in Time /\ utc \in Int /\ 0 \in Time /\ Time \subseteq Nat
      /\ budget[c] \in Budget /\ Expires(c) \in Time
  BY TimeTyped, InputTyped DEF Inv, TypeOK
<1>2. at[c] \in Early /\ UNCHANGED <<utc, stepped, in, claims, claimant, dispatched>>
  BY DEF Begin, SampleBefore, SampleAnchor, SampleAfter, Recheck, ReadNow, At, Early, clockVars
<1>3. CASE Begin(c)
  <2>1. [NoBudget EXCEPT !.started = mono] \in Budget
    BY <1>1 DEF NoBudget, Budget
  <2>2. Refusal(in[c]) \in Outcomes
    BY DEF Refusal, Outcomes
  <2>3. QED BY <1>2, <1>3, <2>1, <2>2, EarlyFair DEF Begin, Early
<1>4. CASE SampleBefore(c)
  <2>1. CASE Expires(c) <= utc
    BY <1>2, <1>4, <2>1, EarlyFair DEF SampleBefore, Outcomes
  <2>2. CASE ~(Expires(c) <= utc)
    <3> DEFINE b == [budget[c] EXCEPT !.before = utc, !.until = mono + (Expires(c) - utc)]
    <3>1. mono + (Expires(c) - utc) \in Nat
      <4>1. mono \in Nat /\ utc \in Nat /\ Expires(c) \in Nat
        BY <1>1
      <4>2. QED BY <2>2, <4>1
    <3>2. b \in Budget
      BY <1>1, <3>1 DEF Budget
    <3>3. Goto(c, "anchor", b)
      BY <1>4, <2>2 DEF SampleBefore
    <3> HIDE DEF b
    <3>4. QED BY <1>2, <3>2, <3>3, EarlyFair DEF Early
  <2>3. QED BY <2>1, <2>2
<1>5. CASE SampleAnchor(c)
  <2>1. [budget[c] EXCEPT !.anchor = mono] \in Budget
    BY <1>1 DEF Budget
  <2>2. QED BY <1>2, <1>5, <2>1, EarlyFair DEF SampleAnchor, Early
<1>6. CASE SampleAfter(c)
  <2> DEFINE b == [budget[c] EXCEPT !.started = 0, !.before = 0, !.remaining = Remaining(c)]
  <2>1. CASE \E o \in {"EXPIRED", "NO_GUARD", "UNSHAPED"} : Stop(c, o)
    BY <1>2, <2>1, EarlyFair DEF Outcomes
  <2>2. CASE ~(Expires(c) <= utc \/ Remaining(c) <= 0) /\ Goto(c, "recheck", b)
    <3>1. /\ budget[c].started \in Time /\ budget[c].before \in Time /\ budget[c].anchor \in Time
          /\ budget[c].started <= budget[c].anchor
      BY <1>1, <1>6 DEF Budget, Inv, BudgetSound, SampleAfter, At
    <3>2. Remaining(c) \in Time
      BY <1>1, <2>2, <3>1, BridgeAssumption DEF Remaining, Later, Time
    <3>3. b \in Budget
      BY <1>1, <3>2 DEF Budget
    <3> HIDE DEF b
    <3>4. QED BY <1>2, <2>2, <3>3, EarlyFair DEF Early
  <2>3. QED BY <1>6, <2>1, <2>2 DEF SampleAfter
<1>7. CASE Recheck(c)
  BY <1>1, <1>2, <1>7, EarlyFair DEF Recheck, Early, Outcomes
<1>8. CASE ReadNow(c)
  <2> DEFINE b == [budget[c] EXCEPT !.now = utc]
  <2>1. b \in Budget /\ b.now = utc
    BY <1>1 DEF Budget
  <2>2. Goto(c, "process", b)
    BY <1>8 DEF ReadNow
  <2> HIDE DEF b
  <2>3. b.now <= utc
    BY <1>1, <2>1
  <2>4. QED BY <1>2, <2>1, <2>2, <2>3, EarlyFair DEF Early
<1>9. QED BY <1>3, <1>4, <1>5, <1>6, <1>7, <1>8

\* A call passes the process guard only where no unexpired claim of its task is,
\* and drops only claims whose authorization is over.
LEMMA ProcessClaimFair ==
  ASSUME Inv, FairInv, NEW c \in Calls, ProcessClaim(c), UNCHANGED <<clockVars, alive>>
  PROVE  FairInv'
<1> DEFINE p == ProcOf(c)
           kept == Unexpired(claims[p], budget[c].now)
<1>1. /\ at[c] = "process" /\ outcome[c] = "NONE" /\ c \notin dispatched /\ \A k \in Keys : claimant[k] # c
      /\ UNCHANGED <<utc, stepped, in, claimant, dispatched>>
  BY DEF FairInv, Progress, ProcessClaim, At, clockVars
<1>2. /\ p \in Procs /\ Key(c) \in Keys /\ Expires(c) \in Time /\ utc \in Time /\ Time \subseteq Nat
      /\ budget[c] \in Budget /\ claims \in [Procs -> [Keys -> Time]]
  BY InputTyped, TimeTyped DEF Inv, TypeOK
<1>3. \/ \E o \in Outcomes : Stop(c, o)
      \/ \E b \in Budget : Goto(c, "durable", b)
  <2>1. [budget[c] EXCEPT !.now = 0] \in Budget
    BY <1>2, TimeTyped DEF Budget, Inv
  <2>2. QED BY <2>1 DEF ProcessClaim, Outcomes
<1>4. /\ Others(c) /\ \A d \in Calls \ {c} : outcome'[d] = outcome[d]
      /\ at'[c] \in {"durable", "returned"} /\ (at'[c] # "returned" => outcome'[c] = "NONE")
  BY <1>1, <1>3, Outcome DEF Inv, Others, Points
<1>5. Progress'
  BY <1>1, <1>4 DEF FairInv, Progress, Others
<1>6. ASSUME ~stepped' PROVE Guarded'
  <2>1. Guarded /\ budget[c].now <= utc /\ budget[c].now \in Nat
    BY <1>1, <1>2, <1>6 DEF FairInv, Guarded, Budget
  <2>2. \A d \in Calls : ProcOf(d)' = ProcOf(d) /\ Key(d)' = Key(d) /\ Expires(d)' = Expires(d)
    BY <1>1 DEF ProcOf, Key, Expires
  <2>3. \A k \in Keys : kept[k] = IF claims[p][k] <= budget[c].now THEN 0 ELSE claims[p][k]
    BY DEF Unexpired
  <2>4. /\ \A q \in Procs, k \in Keys :
             \/ claims'[q][k] = claims[q][k]
             \/ claims[q][k] <= utc
        /\ Past(c)' => claims'[p][Key(c)] = Expires(c) \/ Expires(c) <= utc
        /\ Past(c)' => claims[p][Key(c)] <= utc
    <3>1. at'[c] = "durable" => kept[Key(c)] = 0
      <4>1. \A o : Stop(c, o) => at'[c] = "returned"
        BY DEF Stop, Inv, TypeOK
      <4>2. QED BY <4>1 DEF ProcessClaim
    <3>2. claims[p][Key(c)] \in Nat
      BY <1>2
    <3>3. Past(c)' => at'[c] = "durable"
      BY <1>1, <1>4 DEF Past
    <3>4. \/ claims' = [claims EXCEPT ![p] = kept] /\ (Expires(c) <= budget[c].now \/ at'[c] = "returned")
          \/ /\ claims' = [claims EXCEPT ![p] = [kept EXCEPT ![Key(c)] = Expires(c)]]
             /\ kept[Key(c)] = 0
      <4>1. \A o : Stop(c, o) => at'[c] = "returned"
        BY DEF Stop, Inv, TypeOK
      <4>2. QED BY <4>1 DEF ProcessClaim
    <3>5. kept \in [Keys -> Time]
      BY <1>2, TimeTyped DEF Unexpired, Inv
    <3> HIDE DEF kept
    <3>6. Past(c)' => claims[p][Key(c)] <= utc
      <4>1. Key(c) \in Keys /\ utc \in Nat /\ (Past(c)' => kept[Key(c)] = 0)
        BY <1>2, <3>1, <3>3
      <4>2. kept[Key(c)] = IF claims[p][Key(c)] <= budget[c].now THEN 0 ELSE claims[p][Key(c)]
        BY <2>3, <4>1
      <4>3. QED BY <2>1, <3>2, <4>1, <4>2
    <3>7. \A k \in Keys : kept[k] = claims[p][k] \/ claims[p][k] <= utc
      <4> SUFFICES ASSUME NEW k \in Keys, kept[k] # claims[p][k] PROVE claims[p][k] <= utc
        OBVIOUS
      <4>1. claims[p][k] \in Nat /\ utc \in Nat /\ claims[p][k] <= budget[c].now
        BY <1>2, <2>3
      <4>2. QED BY <2>1, <4>1
    <3>8. CASE claims' = [claims EXCEPT ![p] = kept] /\ (Expires(c) <= budget[c].now \/ at'[c] = "returned")
      <4>1. \A q \in Procs, k \in Keys : claims'[q][k] = claims[q][k] \/ claims[q][k] <= utc
        BY <1>2, <3>8, <3>7
      <4>2. Past(c)' => Expires(c) <= utc
        BY <1>2, <2>1, <3>3, <3>8
      <4>3. QED BY <3>6, <4>1, <4>2
    <3>9. CASE /\ claims' = [claims EXCEPT ![p] = [kept EXCEPT ![Key(c)] = Expires(c)]]
               /\ kept[Key(c)] = 0
      <4>1. claims[p][Key(c)] <= utc
        BY <1>2, <2>1, <2>3, <3>2, <3>9
      <4>2. \A q \in Procs, k \in Keys : claims'[q][k] = claims[q][k] \/ claims[q][k] <= utc
        BY <1>2, <3>5, <3>9, <3>7, <4>1
      <4>3. claims'[p][Key(c)] = Expires(c)
        BY <1>2, <3>5, <3>9
      <4>4. QED BY <3>6, <4>2, <4>3
    <3>10. QED BY <3>4, <3>8, <3>9
  <2> HIDE DEF kept
  <2>5. \A d \in Calls \ {c} : Past(d)' <=> Past(d)
    BY <1>1, <1>4 DEF Past, Others
  <2>6. \A d \in Calls : at'[d] = "process" => budget'[d].now <= utc'
    BY <1>1, <1>4, <2>1 DEF Guarded, Others
  <2>7. ASSUME NEW d \in Calls, Past(d)' PROVE claims'[ProcOf(d)][Key(d)] = Expires(d) \/ Expires(d) <= utc
    <3>1. CASE d = c
      BY <2>4, <2>7, <3>1
    <3>2. CASE d # c
      <4>1. claims[ProcOf(d)][Key(d)] = Expires(d) \/ Expires(d) <= utc
        BY <2>1, <2>5, <2>7, <3>2 DEF Guarded
      <4>2. ProcOf(d) \in Procs /\ Key(d) \in Keys
        BY InputTyped DEF Inv
      <4>3. QED BY <2>4, <4>1, <4>2
    <3>3. QED BY <3>1, <3>2
  <2>8. ASSUME NEW d \in Calls, d # c, SameTask(c, d), Past(c)', Past(d)'
        PROVE  Expires(c) <= utc /\ Expires(d) = Expires(c)
    <3>1. ProcOf(d) = p /\ Key(d) = Key(c) /\ Expires(d) = Expires(c)
      BY <2>8 DEF SameTask, Key, Expires
    <3>2. claims[p][Key(c)] = Expires(c) \/ Expires(c) <= utc
      BY <2>1, <2>5, <2>8, <3>1 DEF Guarded
    <3>3. QED BY <2>4, <2>8, <3>1, <3>2
  <2>9. ASSUME NEW d \in Calls, NEW e \in Calls, d # e, SameTask(d, e), Past(d)', Past(e)'
        PROVE  Expires(d) <= utc /\ ~(d \in dispatched /\ e \in dispatched)
    <3>1. CASE d = c
      BY <1>1, <2>8, <2>9, <3>1
    <3>2. CASE e = c
      <4>1. SameTask(c, d)
        BY <2>9, <3>2 DEF SameTask
      <4>2. QED BY <1>1, <2>8, <2>9, <3>2, <4>1
    <3>3. CASE d # c /\ e # c
      BY <2>1, <2>5, <2>9, <3>3 DEF Guarded
    <3>4. QED BY <3>1, <3>2, <3>3
  <2>10. \A d, e \in Calls : SameTask(d, e)' <=> SameTask(d, e)
    BY <1>1, <2>2 DEF SameTask
  <2>11. QED BY <1>1, <2>2, <2>6, <2>7, <2>9, <2>10 DEF Guarded
<1>7. QED BY <1>5, <1>6 DEF FairInv

LEMMA LateFair ==
  ASSUME Inv, FairInv, NEW c \in Calls, UNCHANGED <<clockVars, alive>>,
         DurableClaim(c) \/ Dispatch(c) \/ Result(c)
  PROVE  FairInv'
<1>1. /\ utc \in Nat /\ Expires(c) \in Nat /\ budget[c] \in Budget /\ Key(c) \in Keys
  BY TimeTyped, InputTyped DEF Inv, TypeOK
<1>2. /\ UNCHANGED <<utc, stepped, in, claims>> /\ outcome[c] = "NONE"
      /\ at[c] \in {"durable", "dispatch", "inFlight"} /\ Past(c)
  BY DEF DurableClaim, Dispatch, Result, At, clockVars, FairInv, Progress, Past
<1>3. CASE DurableClaim(c)
  <2>1. c \notin dispatched /\ dispatched' = dispatched /\ \A k \in Keys : claimant[k] # c
    BY <1>3 DEF FairInv, Progress, DurableClaim, At
  <2>2. \/ Goto(c, "dispatch", budget[c])
        \/ Stop(c, "CONSUMED") /\ UNCHANGED claimant
        \/ Stop(c, "UNAVAILABLE")
    BY <1>3 DEF DurableClaim
  <2>3. \A k \in Keys : claimant'[k] = claimant[k] \/ claimant'[k] = c
    BY <1>3 DEF DurableClaim, Insert, Inv, TypeOK
  <2>4. /\ Others(c) /\ \A d \in Calls \ {c} : outcome'[d] = outcome[d]
        /\ \/ at'[c] = "dispatch" /\ outcome'[c] = "NONE"
           \/ at'[c] = "returned" /\ UNCHANGED claimant
           \/ at'[c] = "returned" /\ outcome'[c] = "UNAVAILABLE"
    BY <1>1, <1>2, <2>1, <2>2, Outcome DEF Inv, Others, Points, Outcomes
  <2>5. QED BY <1>2, <2>1, <2>3, <2>4, FairFrame DEF Spent
<1>4. CASE Dispatch(c)
  <2>1. \/ Stop(c, "EXPIRED") /\ UNCHANGED dispatched
        \/ Goto(c, "inFlight", budget[c]) /\ dispatched' = dispatched \cup {c} /\ Expires(c) > utc
    BY <1>1, <1>4 DEF Dispatch, Expired
  <2>2. c \notin dispatched /\ claimant' = claimant
    BY <1>4 DEF FairInv, Progress, Dispatch, At
  <2>3. /\ Others(c) /\ \A d \in Calls \ {c} : outcome'[d] = outcome[d]
        /\ \/ at'[c] = "inFlight" /\ outcome'[c] = "NONE" /\ Expires(c) > utc
           \/ at'[c] = "returned" /\ outcome'[c] = "EXPIRED" /\ c \notin dispatched'
    BY <1>1, <1>2, <2>1, <2>2, Outcome DEF Inv, Others, Points, Outcomes
  <2>4. QED BY <1>2, <2>2, <2>3, FairFrame DEF Spent
<1>5. CASE Result(c)
  <2>1. \E o \in {"DISPATCH_FAILED", "LATE", "UNEXPECTED_RESULT", "DRY_RUN"} : Stop(c, o)
    BY <1>5 DEF Result
  <2>2. UNCHANGED <<claimant, dispatched>>
    BY <1>5 DEF Result
  <2>3. /\ Others(c) /\ \A d \in Calls \ {c} : outcome'[d] = outcome[d]
        /\ at'[c] = "returned" /\ outcome'[c] \in Spent
    BY <2>1, <2>2, Outcome DEF Inv, Others, Outcomes, Spent
  <2>4. QED BY <1>2, <2>2, <2>3, FairFrame
<1>6. QED BY <1>3, <1>4, <1>5

LEMMA EnvironmentFair ==
  ASSUME Inv, FairInv, UNCHANGED bridgeVars, utc' \in Time, ~stepped' => ~stepped /\ utc' >= utc
  PROVE  FairInv'
<1>1. Progress'
  BY DEF FairInv, Progress, bridgeVars
<1>2. ASSUME ~stepped' PROVE Guarded'
  <2>1. Guarded /\ utc' >= utc
    BY <1>2 DEF FairInv
  <2>2. /\ UNCHANGED <<claims, at, in, budget, dispatched>> /\ utc \in Nat /\ utc' \in Nat
        /\ \A d \in Calls : Expires(d) \in Nat /\ budget[d].now \in Nat
    BY InputTyped, TimeTyped DEF bridgeVars, Inv, TypeOK, Budget
  <2>3. \A d \in Calls : /\ ProcOf(d)' = ProcOf(d) /\ Key(d)' = Key(d) /\ Expires(d)' = Expires(d)
                         /\ (Past(d)' <=> Past(d)) /\ \A e \in Calls : SameTask(d, e)' <=> SameTask(d, e)
    BY <2>2 DEF ProcOf, Key, Expires, Past, SameTask
  <2>4. \A d \in Calls : at'[d] = "process" => budget'[d].now <= utc'
    BY <2>1, <2>2 DEF Guarded
  <2>5. \A d \in Calls : Expires(d) <= utc => Expires(d) <= utc'
    BY <2>1, <2>2
  <2>6. \A d \in Calls : Past(d)' => claims'[ProcOf(d)'][Key(d)'] = Expires(d)' \/ Expires(d)' <= utc'
    BY <2>1, <2>2, <2>3, <2>5 DEF Guarded
  <2>7. \A d, e \in Calls : d # e /\ SameTask(d, e)' /\ Past(d)' /\ Past(e)' =>
          Expires(d)' <= utc' /\ ~(d \in dispatched' /\ e \in dispatched')
    BY <2>1, <2>2, <2>3, <2>5 DEF Guarded
  <2>8. QED BY <2>4, <2>6, <2>7 DEF Guarded
<1>3. QED BY <1>1, <1>2 DEF FairInv

LEMMA NextFair == Inv /\ FairInv /\ [Next]_vars => FairInv'
<1> SUFFICES ASSUME Inv, FairInv, [Next]_vars PROVE FairInv'
  OBVIOUS
<1>1. ASSUME NEW c \in Calls, CallStep(c) PROVE FairInv'
  BY <1>1, BeginsFair, ProcessClaimFair, LateFair DEF CallStep
<1>2. utc \in Time /\ Time \subseteq Nat
  BY TimeTyped DEF Inv
<1>3. CASE Tick
  BY <1>2, <1>3, EnvironmentFair, BridgeAssumption DEF Tick, Time
<1>4. CASE SetClock
  <2>1. PICK t \in Time \ {utc} : utc' = t /\ stepped' = (stepped \/ t < utc)
    BY <1>4 DEF SetClock
  <2>2. ~stepped' => ~stepped /\ ~(t < utc)
    BY <2>1
  <2>3. utc \in Nat /\ t \in Nat /\ utc' = t
    BY <1>2, <2>1
  <2>4. ~stepped' => ~stepped /\ utc' >= utc
    BY <2>2, <2>3
  <2>5. QED BY <1>4, <2>1, <2>4, EnvironmentFair DEF SetClock
<1>5. ASSUME NEW p \in Procs, Die(p) PROVE FairInv'
  BY <1>2, <1>5, EnvironmentFair DEF Die, clockVars
<1>6. CASE UNCHANGED vars
  BY <1>2, <1>6, EnvironmentFair DEF vars, clockVars
<1>7. QED BY <1>1, <1>3, <1>4, <1>5, <1>6 DEF Next

\* As long as the wall clock is never set back, the process guard alone keeps one
\* authorization from being dispatched twice in one process, whatever guards its
\* callers bring; and a call refused for capacity or before its claims has not used
\* up its key.
THEOREM GuardsFair == Spec => []GuardsAreFair
<1>1. Init => FairInv
  BY BridgeAssumption DEF Init, FairInv, Progress, Guarded, Past
<1>2. Inv /\ FairInv => GuardsAreFair
  <2> SUFFICES ASSUME Inv, FairInv PROVE ProcessGuardSuffices /\ RefusalIsRetryable
    BY DEF GuardsAreFair
  <2>1. ProcessGuardSuffices
    BY DEF Inv, TypeOK, FairInv, Guarded, Past, SameTask, ProcessGuardSuffices
  <2>2. RefusalIsRetryable
    BY DEF FairInv, Progress, Spent, RefusalIsRetryable
  <2>3. QED BY <2>1, <2>2
<1>3. QED BY <1>1, <1>2, NextFair, Invariance, PTL DEF Spec

-----------------------------------------------------------------------------
\* Calls with the durable guard implement single use of their replay key.

\* A step that changes neither the owners nor who dispatched stutters.
LEMMA Stutter ==
  ASSUME UNCHANGED <<claimant, in, dispatched>>
  PROVE  UNCHANGED Once!vars
BY DEF Once!vars, Key

\* A call inserting its key claims it.
LEMMA DurableClaimImplements ==
  ASSUME Inv, NEW c \in Calls, DurableClaim(c)
  PROVE  [Once!Next]_(Once!vars)
<1>1. CASE UNCHANGED claimant
  BY <1>1, Stutter DEF DurableClaim
<1>2. CASE Key(c) \notin store /\ Insert(c)
  <2>1. Key(c) \in Keys
    BY InputTyped DEF Inv
  <2>2. claimant[Key(c)] = NoCall
    BY <1>2, <2>1 DEF Inv, Ownership
  <2>3. Once!Claim(c, Key(c))
    BY <1>2, <2>2 DEF Once!Claim, Insert, DurableClaim, Key
  <2>4. QED BY <2>1, <2>3 DEF Once!Next
<1>3. QED BY <1>1, <1>2 DEF DurableClaim

\* A call dispatching under the durable guard acts on the key it owns; any
\* other dispatch is not seen.
LEMMA DispatchImplements ==
  ASSUME Inv, NEW c \in Calls, Dispatch(c)
  PROVE  [Once!Next]_(Once!vars)
<1>1. CASE dispatched' = dispatched
  BY <1>1, Stutter DEF Dispatch
<1>2. CASE c \notin dispatched /\ dispatched' = dispatched \cup {c} /\ in[c].guard # "DURABLE"
  <2>1. {d \in dispatched' : in'[d].guard = "DURABLE"} = {d \in dispatched : in[d].guard = "DURABLE"}
    BY <1>2 DEF Dispatch
  <2>2. QED BY <2>1 DEF Dispatch, Once!vars, Key
<1>3. CASE c \notin dispatched /\ dispatched' = dispatched \cup {c} /\ in[c].guard = "DURABLE"
  <2>1. claimant[Key(c)] = c /\ UNCHANGED claimant
    BY <1>3 DEF Inv, Ownership, Owns, Dispatch, At
  <2>2. {<<d, Key(d)'>> : d \in {e \in dispatched' : in'[e].guard = "DURABLE"}}
        = {<<d, Key(d)>> : d \in {e \in dispatched : in[e].guard = "DURABLE"}} \cup {<<c, Key(c)>>}
    BY <1>3 DEF Dispatch, Key
  <2>3. <<c, Key(c)>> \notin {<<d, Key(d)>> : d \in {e \in dispatched : in[e].guard = "DURABLE"}}
    BY <1>3
  <2>4. Key(c) \in Keys
    BY InputTyped DEF Inv
  <2>5. ASSUME NEW k \in Keys, k = Key(c) PROVE Once!Act(c, k)
    BY <2>1, <2>2, <2>3, <2>5 DEF Once!Act
  <2>6. QED BY <2>4, <2>5 DEF Once!Next
<1>4. QED BY <1>1, <1>2, <1>3 DEF Dispatch

\* The durable claim of the bridge implements the abstract single use of a key.
THEOREM BridgeIsSingleUse == Spec => ImplementsSingleUse
<1>1. Init => Once!Init
  BY DEF Init, Once!Init
<1>2. Inv /\ [Next]_vars => [Once!Next]_(Once!vars)
  <2> SUFFICES ASSUME Inv, [Next]_vars PROVE [Once!Next]_(Once!vars)
    OBVIOUS
  <2>1. ASSUME NEW c \in Calls, CallStep(c) PROVE [Once!Next]_(Once!vars)
    <3>1. CASE DurableClaim(c)
      BY <3>1, DurableClaimImplements
    <3>2. CASE Dispatch(c)
      BY <3>2, DispatchImplements
    <3>3. CASE ~DurableClaim(c) /\ ~Dispatch(c)
      BY <2>1, <3>3, Stutter DEF CallStep, Begin, SampleBefore, SampleAnchor, SampleAfter,
         Recheck, ReadNow, ProcessClaim, Result
    <3>4. QED BY <3>1, <3>2, <3>3
  <2>2. CASE Tick \/ SetClock \/ (\E p \in Procs : Die(p)) \/ UNCHANGED vars
    BY <2>2, Stutter DEF Tick, SetClock, Die, vars, bridgeVars
  <2>3. QED BY <2>1, <2>2 DEF Next
<1>3. QED BY <1>1, <1>2, Invariance, PTL DEF Spec, ImplementsSingleUse, Once!Spec
=============================================================================
